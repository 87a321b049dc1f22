-------------------------------- MODULE Mkfs --------------------------------
(***************************************************************************)
(* mkfs (mkfs/mkfs.c): the image a machine boots from.                     *)
(*                                                                         *)
(* A block holds BSIZE units; a unit is a byte of a file, a directory      *)
(* entry (the inode number it names) or a block number.  Inodes are kept   *)
(* by number: winode() and rinode() find the sector, which Layout is       *)
(* about.  mkfs is one process; each file it adds is one step.  The host   *)
(* files are taken to fit the image: mkfs does not look at FSSIZE when it  *)
(* takes a block.                                                          *)
(***************************************************************************)
EXTENDS Naturals, Sequences, FiniteSets
LOCAL INSTANCE SequencesExt

CONSTANTS
  BSIZE, NDIRECT,
  NINODES, IPB,      \* inodes, and inodes in a block
  FSSIZE, nlog,
  Host               \* the files named on the command line, as byte sequences

NINDIRECT == BSIZE
MAXFILE == NDIRECT + NINDIRECT
BPB == BSIZE * 8
ROOTINO == 1
NoBlock == 0

nbitmap == FSSIZE \div BPB + 1
ninodeblocks == NINODES \div IPB + 1
nmeta == 2 + nlog + ninodeblocks + nbitmap
inodestart == 2 + nlog
bmapstart == 2 + nlog + ninodeblocks
IBLOCK(i) == i \div IPB + inodestart
BBLOCK(b) == b \div BPB + bmapstart

VARIABLES
  image,     \* what is on the disk: [dinode, blk, used]
  phase,     \* "mkfs" until the image is done, then "kernel"
  made,      \* host files added
  freeblock, freeinode

mkfsVars == <<made, freeblock, freeinode>>

Inums == 1 .. NINODES - 1
zeroes == [k \in 0 .. BSIZE - 1 |-> 0]
NoAddrs == [k \in 0 .. NDIRECT |-> NoBlock]
NoDinode == [type |-> "none", size |-> 0, addrs |-> NoAddrs]
Least(a, b) == IF a < b THEN a ELSE b

-----------------------------------------------------------------------------

\* A piece of data put into block b at unit at.
Fill(blk, b, at, data) ==
  [blk EXCEPT ![b] = [k \in DOMAIN @ |->
     IF k >= at /\ k < at + Len(data) THEN data[k - at + 1] ELSE @[k]]]

\* The block of unit off of the file, taken from the front of the free blocks
\* if there is none: [din, blk, free, x].
Place(st, fbn) ==
  IF fbn < NDIRECT
  THEN IF st.din.addrs[fbn] # NoBlock THEN [st EXCEPT !.x = st.din.addrs[fbn]]
       ELSE [st EXCEPT !.din.addrs[fbn] = st.free, !.free = @ + 1, !.x = st.free]
  ELSE LET new == st.din.addrs[NDIRECT] = NoBlock
           ind == IF new THEN st.free ELSE st.din.addrs[NDIRECT]
           free == IF new THEN st.free + 1 ELSE st.free
           x == st.blk[ind][fbn - NDIRECT]
       IN  [st EXCEPT !.din.addrs[NDIRECT] = ind,
                      !.x = IF x # NoBlock THEN x ELSE free,
                      !.free = IF x # NoBlock THEN free ELSE free + 1,
                      !.blk = IF x # NoBlock THEN @
                              ELSE Fill(@, ind, fbn - NDIRECT, <<free>>)]

RECURSIVE Append1(_, _, _)
Append1(st, off, data) ==
  IF data = <<>> THEN [st EXCEPT !.din.size = off]
  ELSE LET fbn == off \div BSIZE
           p == Place(st, fbn)
           n1 == Least(Len(data), (fbn + 1) * BSIZE - off)
       IN  Append1([p EXCEPT !.blk = Fill(@, p.x, off % BSIZE, SubSeq(data, 1, n1))],
                   off + n1, SubSeq(data, n1 + 1, Len(data)))

\* iappend(): s is [image, free], the image and the first free block.
Iappend(s, inum, data) ==
  LET st == Append1([din |-> s.image.dinode[inum], blk |-> s.image.blk,
                     free |-> s.free, x |-> NoBlock],
                    s.image.dinode[inum].size, data)
  IN  [image |-> [s.image EXCEPT !.dinode[inum] = st.din, !.blk = st.blk],
       free |-> st.free]

Ialloc(s, inum, type) ==
  [s EXCEPT !.image.dinode[inum] = [NoDinode EXCEPT !.type = type]]

\* A host file is read BSIZE bytes at a time.
Chunks(data) ==
  [k \in 1 .. (Len(data) + BSIZE - 1) \div BSIZE |->
     SubSeq(data, (k - 1) * BSIZE + 1, Least(k * BSIZE, Len(data)))]

\* The empty image, its super block and the root directory with . and ..
Format ==
  /\ phase = "mkfs" /\ freeinode = 1
  /\ LET s == [image |-> image, free |-> nmeta]
         r == Iappend(Iappend(Ialloc(s, freeinode, "dir"), ROOTINO, <<ROOTINO>>),
                      ROOTINO, <<ROOTINO>>)
     IN  image' = r.image /\ freeblock' = r.free
  /\ freeinode' = 2
  /\ UNCHANGED <<phase, made>>

\* A host file: an inode, an entry in the root directory, the contents.
AddFile ==
  /\ phase = "mkfs" /\ freeinode > 1 /\ made < Len(Host)
  /\ LET s == [image |-> image, free |-> freeblock]
         e == Iappend(Ialloc(s, freeinode, "file"), ROOTINO, <<freeinode>>)
         r == FoldLeft(LAMBDA t, c : Iappend(t, freeinode, c), e, Chunks(Host[made + 1]))
     IN  image' = r.image /\ freeblock' = r.free
  /\ freeinode' = freeinode + 1
  /\ made' = made + 1
  /\ UNCHANGED phase

\* The size of the root directory is rounded up, to one more block when it was
\* a number of whole blocks already; then the bit map is written.
Finish ==
  /\ phase = "mkfs" /\ freeinode > 1 /\ made = Len(Host)
  /\ image' = [image EXCEPT !.dinode[ROOTINO].size = (@ \div BSIZE + 1) * BSIZE,
                          !.used = 0 .. freeblock - 1]
  /\ phase' = "kernel"
  /\ UNCHANGED mkfsVars

MkfsInit ==
  /\ image = [dinode |-> [i \in Inums |-> NoDinode],
             blk |-> [b \in 0 .. FSSIZE - 1 |-> zeroes], used |-> {}]
  /\ phase = "mkfs" /\ made = 0 /\ freeblock = nmeta /\ freeinode = 1

MkfsNext == Format \/ AddFile \/ Finish
=============================================================================
