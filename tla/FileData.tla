------------------------------ MODULE FileData ------------------------------
(***************************************************************************)
(* The contents of files, from the image mkfs made to read() and write():  *)
(* bmap(), itrunc(), readi() and writei() of kernel/fs.c, the inode cases  *)
(* of fileread() and filewrite() of kernel/file.c.                         *)
(*                                                                         *)
(* The disk is what the log has committed (module Log: a transaction is    *)
(* all or nothing), so a transaction is one step; filewrite() makes one    *)
(* for every few blocks and processes interleave between them.  An inode   *)
(* in memory is a copy of the one on disk that iupdate() writes back.      *)
(* image.blk is what bread() returns, home what the disk has: they differ  *)
(* where writei() changed a block and did not get to log it, because the   *)
(* user's buffer ended early, at any byte.  Links, names and the inode     *)
(* table are in module Fs.                                                 *)
(***************************************************************************)
EXTENDS Mkfs

CONSTANTS
  Tasks, Handles, None,
  Buffers,        \* what may be written
  Counts,         \* how much may be asked of a read, as a uint
  UINT,           \* 2^32
  MAXOP,
  MaxReboots, MaxCalls

VARIABLES
  ip,        \* inodes in memory
  home,      \* blocks as the log has committed them
  ofile,     \* open files [inum, off], or None
  call,      \* filewrite() under way: [f, i, data], or None
  got,       \* what the last read returned
  logged,    \* blocks the last transaction has logged
  holes,     \* blocks a directory scan has taken
  reboots, calls

dataVars == <<ip, home, ofile, call, got, logged, holes, reboots, calls>>
fdVars == <<image, phase, mkfsVars, dataVars>>

Files == 2 .. Len(Host) + 1
InUse(i) == \E f \in Handles : ofile[f] # None /\ ofile[f].inum = i

-----------------------------------------------------------------------------
\* Operations on s = [ip, image, log]: one inode in memory, the disk with the
\* transaction's writes, and the numbers of the blocks it has logged.

FreeOnDisk(s) == (0 .. FSSIZE - 1) \ s.image.used

\* balloc(): the first free block, zeroed; NoBlock when there is none.
Balloc(s) ==
  IF FreeOnDisk(s) = {} THEN [s |-> s, addr |-> NoBlock]
  ELSE LET b == CHOOSE c \in FreeOnDisk(s) : \A d \in FreeOnDisk(s) : c <= d
       IN  [s |-> [s EXCEPT !.image.used = @ \cup {b}, !.image.blk[b] = zeroes,
                            !.log = @ \cup {BBLOCK(b), b}],
            addr |-> b]

\* bmap(): the block that holds block bn of the file, allocated if need be.
Bmap(s, bn) ==
  IF bn < NDIRECT
  THEN LET r == Balloc(s)
       IN  IF s.ip.addrs[bn] # NoBlock THEN [s |-> s, addr |-> s.ip.addrs[bn]]
           ELSE [s |-> [r.s EXCEPT !.ip.addrs[bn] = r.addr], addr |-> r.addr]
  ELSE LET a == Balloc(s)
           ind == IF s.ip.addrs[NDIRECT] # NoBlock
                  THEN [s |-> s, addr |-> s.ip.addrs[NDIRECT]]
                  ELSE [s |-> [a.s EXCEPT !.ip.addrs[NDIRECT] = a.addr], addr |-> a.addr]
           x == ind.s.image.blk[ind.addr][bn - NDIRECT]
           r == Balloc(ind.s)
       IN  IF ind.addr = NoBlock THEN ind
           ELSE IF x # NoBlock THEN [s |-> ind.s, addr |-> x]
           ELSE IF r.addr = NoBlock THEN r
           ELSE [s |-> [r.s EXCEPT !.image.blk = Fill(@, ind.addr, bn - NDIRECT, <<r.addr>>),
                                   !.log = @ \cup {ind.addr}],
                 addr |-> r.addr]

Iupdate(s, inum) ==
  [s EXCEPT !.image.dinode[inum] = s.ip, !.log = @ \cup {IBLOCK(inum)}]

\* The blocks an inode leads to on disk.
Data(inode, blk) ==
  LET ind == inode.addrs[NDIRECT]
  IN  ({inode.addrs[k] : k \in DOMAIN inode.addrs} \cup
       (IF ind = NoBlock THEN {} ELSE {blk[ind][k] : k \in 0 .. NINDIRECT - 1}))
      \ {NoBlock}

\* itrunc(): every block is freed, the inode written back.
Itrunc(s, inum) ==
  LET gone == Data(s.ip, s.image.blk)
  IN  Iupdate([s EXCEPT !.image.used = @ \ gone, !.ip.addrs = NoAddrs, !.ip.size = 0,
                        !.log = @ \cup {BBLOCK(b) : b \in gone}], inum)

\* readi(): the loop, and its guards.  short: a block could not be had.
RECURSIVE ReadLoop(_, _, _, _)
ReadLoop(s, off, n, bytes) ==
  LET r == Bmap(s, off \div BSIZE)
      m == Least(n, BSIZE - (off % BSIZE))
      part == [k \in 1 .. m |-> r.s.image.blk[r.addr][(off % BSIZE) + k - 1]]
  IN  IF n = 0 THEN [s |-> s, bytes |-> bytes]
      ELSE IF r.addr = NoBlock THEN [s |-> r.s, bytes |-> bytes]
      ELSE ReadLoop(r.s, off + m, n - m, bytes \o part)

\* MUTANT: the count is not cut at the end of the file.
ReadiPastEnd(s, off, n) ==
  IF off > s.ip.size \/ (off + n) % UINT < off THEN [s |-> s, bytes |-> <<>>]
  ELSE ReadLoop(s, off, Least(n, MAXFILE * BSIZE - off), <<>>)

Readi(s, off, n) ==
  IF off > s.ip.size \/ (off + n) % UINT < off THEN [s |-> s, bytes |-> <<>>]
  ELSE ReadLoop(s, off, IF off + n > s.ip.size THEN s.ip.size - off ELSE n, <<>>)

\* writei(): blocks are written until one cannot be had or either_copyin() fails,
\* after good bytes: what it has copied of the last block is not logged and not
\* counted.  The size grows by what was.
RECURSIVE WriteLoop(_, _, _, _)
WriteLoop(s, off, data, good) ==
  LET r == Bmap(s, off \div BSIZE)
      m == Least(Len(data), BSIZE - (off % BSIZE))
  IN  IF data = <<>> THEN [s |-> s, off |-> off]
      ELSE IF r.addr = NoBlock THEN [s |-> r.s, off |-> off]
      ELSE IF good < m
      THEN [s |-> [r.s EXCEPT !.image.blk = Fill(@, r.addr, off % BSIZE, SubSeq(data, 1, good))],
            off |-> off]
      ELSE WriteLoop([r.s EXCEPT !.image.blk = Fill(@, r.addr, off % BSIZE, SubSeq(data, 1, m)),
                                 !.log = @ \cup {r.addr}],
                     off + m, SubSeq(data, m + 1, Len(data)), good - m)

Writei(s, inum, off, data, good) ==
  IF off > s.ip.size \/ off + Len(data) > MAXFILE * BSIZE THEN [s |-> s, n |-> 0]
  ELSE LET w == WriteLoop(s, off, data, good)
       IN  [s |-> Iupdate([w.s EXCEPT !.ip.size = IF w.off > @ THEN w.off ELSE @], inum),
            n |-> w.off - off]

-----------------------------------------------------------------------------
\* System calls.

Load(i) == [ip |-> ip[i], image |-> image, log |-> {}]
Commit(i, s) ==
  /\ home' = [b \in DOMAIN home |-> IF b \in s.log THEN s.image.blk[b] ELSE home[b]]
  /\ ip' = [ip EXCEPT ![i] = s.ip]
  /\ image' = s.image
  /\ logged' = s.log

Running == phase = "kernel" /\ UNCHANGED <<phase, mkfsVars>>
Counted == calls < MaxCalls /\ calls' = calls + 1

\* open(), with O_TRUNC or without: an inode nobody has open is read again.
Open(f, i, trunc) ==
  /\ Running /\ ofile[f] = None
  /\ ofile' = [ofile EXCEPT ![f] = [inum |-> i, off |-> 0]]
  /\ LET s == IF InUse(i) THEN Load(i) ELSE [Load(i) EXCEPT !.ip = image.dinode[i]]
     IN  Commit(i, IF trunc THEN Itrunc(s, i) ELSE s)
  /\ got' = <<>>
  /\ UNCHANGED <<call, holes, reboots>> /\ Counted

Close(f) ==
  /\ Running /\ ofile[f] # None
  /\ \A p \in Tasks : call[p] # None => call[p].f # f
  /\ ofile' = [ofile EXCEPT ![f] = None]
  /\ got' = <<>> /\ logged' = {}
  /\ UNCHANGED <<image, ip, home, call, holes, reboots, calls>>

\* fileread(); with a bad buffer it returns -1 and the offset stays.
Fileread(f, n, bad) ==
  /\ Running /\ ofile[f] # None
  /\ LET i == ofile[f].inum
         r == Readi(Load(i), ofile[f].off, n)
     IN  /\ Commit(i, r.s)
         /\ got' = IF bad THEN <<>> ELSE r.bytes
         /\ ofile' = [ofile EXCEPT ![f].off = @ + Len(got')]
  /\ UNCHANGED <<call, holes, reboots>> /\ Counted

Filewrite(p, f, data) ==
  /\ Running /\ call[p] = None /\ ofile[f] # None
  /\ call' = [call EXCEPT ![p] = [f |-> f, i |-> 0, data |-> data]]
  /\ got' = <<>> /\ logged' = {}
  /\ UNCHANGED <<image, ip, home, ofile, holes, reboots>> /\ Counted

\* MUTANT: no room is left for a write that is not aligned.
maxAligned == (MAXOP - 1 - 1) * BSIZE

max == ((MAXOP - 1 - 1 - 2) \div 2) * BSIZE

\* One turn of the loop of filewrite(): a transaction of at most max bytes.
WriteSome(p, good) ==
  /\ Running /\ call[p] # None
  /\ LET c == call[p]
         i == ofile[c.f].inum
         n1 == Least(Len(c.data) - c.i, max)
         w == Writei(Load(i), i, ofile[c.f].off, SubSeq(c.data, c.i + 1, c.i + n1), good)
     IN  /\ Commit(i, w.s)
         /\ ofile' = [ofile EXCEPT ![c.f].off = @ + w.n]
         /\ call' = [call EXCEPT ![p] =
              IF w.n # n1 \/ c.i + n1 = Len(c.data) THEN None ELSE [@ EXCEPT !.i = @ + n1]]
  /\ got' = <<>>
  /\ UNCHANGED <<holes, reboots, calls>>

\* dirlookup() of a name that is not there reads the root directory to its end,
\* through readi(); a part that has no block yet is given one, in memory only,
\* and if there is none to give the kernel panics.
ScanRoot ==
  /\ phase = "kernel" /\ UNCHANGED mkfsVars
  /\ LET size == ip[ROOTINO].size
         r == Readi(Load(ROOTINO), 0, size)
     IN  /\ Commit(ROOTINO, r.s)
         /\ holes' = holes \cup (r.s.image.used \ image.used)
         /\ phase' = IF Len(r.bytes) = size THEN "kernel" ELSE "panic"
  /\ got' = <<>>
  /\ UNCHANGED <<ofile, call, reboots>> /\ Counted

\* bget() takes the buffer of block b for another block: nobody has it, and it is
\* not in a transaction.
Recycle(b) ==
  /\ Running /\ image.blk[b] # home[b]
  /\ image' = [image EXCEPT !.blk[b] = home[b]]
  /\ got' = <<>> /\ logged' = {}
  /\ UNCHANGED <<ip, home, ofile, call, holes, reboots, calls>>

\* The machine stops between two transactions and starts again.
Reboot ==
  /\ Running /\ reboots < MaxReboots
  /\ reboots' = reboots + 1
  /\ ip' = image.dinode
  /\ ofile' = [f \in Handles |-> None] /\ call' = [p \in Tasks |-> None]
  /\ image' = [image EXCEPT !.blk = home]
  /\ got' = <<>> /\ logged' = {}
  /\ UNCHANGED <<home, holes, calls>>

\* The image is done: the kernel reads the inodes from it.
Boot ==
  /\ MkfsNext
  /\ ip' = image'.dinode /\ home' = image'.blk
  /\ UNCHANGED <<ofile, call, got, logged, holes, reboots, calls>>

FdInit ==
  /\ MkfsInit
  /\ ip = image.dinode /\ home = image.blk
  /\ ofile = [f \in Handles |-> None] /\ call = [p \in Tasks |-> None]
  /\ got = <<>> /\ logged = {} /\ holes = {} /\ reboots = 0 /\ calls = 0

FdNext ==
  \/ Boot \/ ScanRoot \/ Reboot
  \/ \E f \in Handles :
       \/ \E i \in Files, trunc \in BOOLEAN : Open(f, i, trunc)
       \/ Close(f)
       \/ \E n \in Counts, bad \in BOOLEAN : Fileread(f, n, bad)
       \/ \E p \in Tasks, data \in Buffers : Filewrite(p, f, data)
  \/ \E p \in Tasks, good \in 0 .. max : WriteSome(p, good)
  \/ \E b \in DOMAIN home : Recycle(b)

FdSpec == FdInit /\ [][FdNext]_fdVars

-----------------------------------------------------------------------------
\* Properties.

\* The bytes of a file, as the inode and the blocks blk have them.
BytesOf(i, blk) ==
  LET inode == IF InUse(i) THEN ip[i] ELSE image.dinode[i]
      at(bn) == IF bn < NDIRECT THEN inode.addrs[bn]
                ELSE blk[inode.addrs[NDIRECT]][bn - NDIRECT]
  IN  [k \in 1 .. inode.size |-> blk[at((k - 1) \div BSIZE)][(k - 1) % BSIZE]]

Abstract == INSTANCE ByteFile WITH
  Writers <- Tasks,
  Start <- [i \in Files |-> Host[i - 1]],
  content <- IF phase = "mkfs" THEN [i \in Files |-> Host[i - 1]]
             ELSE [i \in Files |-> BytesOf(i, image.blk)],
  kept <- IF phase = "mkfs" THEN [i \in Files |-> Host[i - 1]]
          ELSE [i \in Files |-> BytesOf(i, home)],
  handle <- [f \in Handles |-> IF ofile[f] = None THEN None
                               ELSE [file |-> ofile[f].inum, off |-> ofile[f].off]],
  pending <- [p \in Tasks |-> IF call[p] = None THEN None
                ELSE [h |-> call[p].f,
                      data |-> SubSeq(call[p].data, call[p].i + 1, Len(call[p].data))]]

\* Files are sequences of bytes: the image has the bytes of the host's files,
\* read() returns and write() stores the bytes at the offset, across the direct
\* and indirect blocks, a full disk, other writers of the same file and a
\* restart.  A write whose buffer goes bad inside a block stores a few bytes more
\* than it says and the disk does not get them (fs.c:522): ByteFile has them as
\* content that is not kept, and nothing else may differ.
FilesAreBytes == Abstract!Spec

\* Once the image is made: no block belongs to two places, the bit map has
\* exactly the blocks of the super structure, of the inodes on disk and the ones
\* a scan of the root directory has taken because mkfs had rounded its size; the
\* inode in memory of an open file is the one on disk; a transaction logs no more
\* blocks than begin_op() has reserved for it; and a look at the directory stops
\* the machine only on a full disk whose root directory ends with its block.
ImageExact == phase # "mkfs" =>
  /\ phase = "panic" => image.used = 0 .. FSSIZE - 1 /\ (Len(Host) + 2) % BSIZE = 0
  /\ LET of(i) == Data(image.dinode[i], image.blk)
         slots(i) == Cardinality({k \in 0 .. NDIRECT : image.dinode[i].addrs[k] # NoBlock}) +
                     (IF image.dinode[i].addrs[NDIRECT] = NoBlock THEN 0
                      ELSE Cardinality({k \in 0 .. NINDIRECT - 1 :
                             image.blk[image.dinode[i].addrs[NDIRECT]][k] # NoBlock}))
     IN  /\ \A i \in Inums : Cardinality(of(i)) = slots(i)
         /\ \A i, j \in Inums : i # j => of(i) \cap of(j) = {}
         /\ \A i \in Inums : of(i) \cap (0 .. nmeta - 1) = {}
         /\ image.used = (0 .. nmeta - 1) \cup UNION {of(i) : i \in Inums} \cup holes
  /\ \A i \in Files : InUse(i) => ip[i] = image.dinode[i]
  /\ Cardinality(logged) <= MAXOP
  /\ \A i \in Inums : IBLOCK(i) \in inodestart .. bmapstart - 1
  /\ \A b \in 0 .. FSSIZE - 1 : BBLOCK(b) \in bmapstart .. nmeta - 1
=============================================================================
