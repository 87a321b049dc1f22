--------------------------------- MODULE Fs ---------------------------------
(***************************************************************************)
(* Inodes, directories and path names (kernel/fs.c) under the system calls *)
(* of kernel/sysfile.c: open, creat, mkdir, link, unlink, chdir, write and *)
(* close, made by several processes at once.                               *)
(*                                                                         *)
(* A step is what happens under one hold of itable.lock, or from an        *)
(* ilock() to its iunlock() where nothing inside can be observed.  A sleep *)
(* lock that is held across steps is the field lock; a process that wants  *)
(* it waits.  Every iput() is a step of its own, four when it frees the    *)
(* inode.  The table of in-memory inodes is indexed by inode number:       *)
(* iget() keeps one entry for each.  When create() succeeds, the parent and*)
(* the new inode are unlocked at once and the iput()s follow, which only   *)
(* adds interleavings.  Each call is one transaction of Log.               *)
(***************************************************************************)
EXTENDS Integers, Sequences, FiniteSets

CONSTANTS
  Callers, None,
  NINODES,     \* inodes are 1 .. NINODES; 1 is the root directory
  Names,       \* file names
  DataBlocks,
  OpenPaths, CreatePaths, MkdirPaths, UnlinkPaths, ChdirPaths,
  LinkPaths    \* pairs <<old, new>>

Inums == 1 .. NINODES
Root == 1
NoInode == 0

Elems == Names \cup {".", ".."}

\* A path is a sequence of names, "." and "..", after "/" if it is absolute.
IsPath(path) ==
  /\ path \in Seq(Elems \cup {"/"})
  /\ \A k \in DOMAIN path : path[k] = "/" => k = 1

ASSUME FsAssumption ==
  /\ NINODES \in Nat \ {0}
  /\ IsFiniteSet(Callers) /\ None \notin Callers
  /\ IsFiniteSet(Names) /\ {"/", ".", ".."} \cap Names = {}

ASSUME PathAssumption ==
  /\ \A path \in OpenPaths \cup CreatePaths \cup MkdirPaths \cup UnlinkPaths
                 \cup ChdirPaths : IsPath(path)
  /\ \A pair \in LinkPaths : IsPath(pair[1]) /\ IsPath(pair[2])

VARIABLES
  dinode,  \* on disk: type, nlink, blocks
  itab,    \* in-memory inodes: ref, valid, lock and a copy of the dinode
  dir,     \* directory contents: name -> inode number
  bitmap,  \* blocks marked in use
  cwd, of, \* of each process: p->cwd and the inode of its open file
  pos,     \* where each process is
  reg,     \* locals: the call, the inodes it holds and the path still to walk
  puts,    \* inodes to be iput() before the process goes on at pos
  freed,   \* the process's iput() has freed the first of them
  panic,   \* the kernel has stopped
  stray,   \* an entry was made in a directory without links (history)
  lost,    \* ".." was followed to a directory without links (history)
  leaked   \* inodes whose last reference went without a test (history)

history == <<stray, lost, leaked>>
fsVars == <<dinode, itab, dir, bitmap, cwd, of, pos, reg, puts, freed, panic, history>>

NoReg == [op |-> "none", w |-> NoInode, ip |-> NoInode, dp |-> NoInode,
          path |-> <<>>, new |-> <<>>]
NoDinode == [type |-> "free", nlink |-> 0, blocks |-> {}]
Unused == [ref |-> 0, valid |-> FALSE, lock |-> None, type |-> "free",
           nlink |-> 0, blocks |-> {}]
NoEntries == [n \in Elems |-> NoInode]
MadeIn(entries, i, d) == [entries EXCEPT !["."] = i, ![".."] = d]

\* mkfs: the root directory; every process starts there.
FsInit ==
  /\ dinode = [i \in Inums |-> IF i = Root
               THEN [NoDinode EXCEPT !.type = "dir", !.nlink = 1] ELSE NoDinode]
  /\ itab = [i \in Inums |-> IF i = Root
               THEN [Unused EXCEPT !.ref = Cardinality(Callers)] ELSE Unused]
  /\ dir = [i \in Inums |-> IF i = Root THEN MadeIn(NoEntries, Root, Root) ELSE NoEntries]
  /\ bitmap = {}
  /\ cwd = [p \in Callers |-> Root] /\ of = [p \in Callers |-> NoInode]
  /\ pos = [p \in Callers |-> "user"]
  /\ reg = [p \in Callers |-> NoReg]
  /\ puts = [p \in Callers |-> <<>>] /\ freed = [p \in Callers |-> FALSE]
  /\ panic = FALSE /\ stray = FALSE /\ lost = FALSE /\ leaked = {}

-----------------------------------------------------------------------------
\* In-memory inodes.

At(p, point) == ~panic /\ pos[p] = point /\ puts[p] = <<>>
Goto(p, point) == pos' = [pos EXCEPT ![p] = point]

\* ilock(i) returns: the lock is free, and the inode is read if it is not valid.
Lockable(i) == itab[i].lock = None
Dinode(r) == [type |-> r.type, nlink |-> r.nlink, blocks |-> r.blocks]
Read(i) == IF itab[i].valid THEN itab[i]
           ELSE [itab[i] EXCEPT !.valid = TRUE, !.type = dinode[i].type,
                   !.nlink = dinode[i].nlink, !.blocks = dinode[i].blocks]
NoType(i) == Read(i).type = "free" /\ ~itab[i].valid
Stop == panic' = TRUE /\ UNCHANGED <<dinode, itab, dir, bitmap, cwd, of, pos, reg,
                                     puts, freed, history>>

\* iget(): one more reference to an entry of table t, which is not valid if the
\* entry was unused.
Iget(t, i) == [t EXCEPT ![i] = IF @.ref = 0 THEN [Unused EXCEPT !.ref = 1]
                               ELSE [@ EXCEPT !.ref = @ + 1]]

\* ip->ref--: an entry without references may be recycled.
Drop(t, i) == [t EXCEPT ![i] = IF @.ref = 1 THEN Unused ELSE [@ EXCEPT !.ref = @ - 1]]

\* iupdate(): write the in-memory inodes in S of table t to disk.
Iupdate(t, S) ==
  /\ itab' = t
  /\ dinode' = [i \in Inums |-> IF i \in S THEN Dinode(t[i]) ELSE dinode[i]]

\* Directories: dirlookup() and the entry dirlink() writes.  Lost(d, n): ".." of d
\* names a directory that was removed, if not an inode that is free by now.
Dirlookup(d, n) == dir[d][n]
Lost(d, n) == n = ".." /\ dir[d][n] # NoInode /\ dinode[dir[d][n]].nlink = 0
Dirlink(d, n, i) == [dir EXCEPT ![d][n] = i]

\* Blocks: the bitmap after balloc() and bfree(), the inode after itrunc().
Balloc(b) == bitmap \cup {b}
Bfree(S) == bitmap \ S
Itrunc(t, i) == [t EXCEPT ![i].blocks = {}]

\* MUTANT: iput() only drops the reference.
IputNeverFrees(p) ==
  /\ ~panic /\ puts[p] # <<>> /\ ~freed[p]
  /\ itab' = Drop(itab, Head(puts[p]))
  /\ puts' = [puts EXCEPT ![p] = Tail(@)]
  /\ UNCHANGED <<dinode, dir, bitmap, cwd, of, pos, reg, freed, panic, history>>

\* iput(): drop a reference; but if it is the last one of an inode without
\* links, take its lock first (nobody can have it) and free the inode.
Iput(p) ==
  LET i == Head(puts[p])
      r == itab[i]
  IN /\ ~panic /\ puts[p] # <<>> /\ ~freed[p] /\ r.lock # p
     /\ IF r.ref = 1 /\ r.valid /\ r.nlink = 0
        THEN /\ r.lock = None
             /\ itab' = [itab EXCEPT ![i].lock = p]
             /\ UNCHANGED puts
        ELSE /\ itab' = Drop(itab, i)
             /\ puts' = [puts EXCEPT ![p] = Tail(@)]
     /\ UNCHANGED <<dinode, dir, bitmap, cwd, of, pos, reg, freed, panic, history>>

\* MUTANT: iput() forgets itrunc().
IputFreeNoTrunc(p) ==
  /\ ~panic /\ puts[p] # <<>>
  /\ LET i == Head(puts[p])
     IN /\ itab[i].lock = p /\ itab[i].type # "free"
        /\ dir' = [dir EXCEPT ![i] = NoEntries]
        /\ Iupdate([Itrunc(itab, i) EXCEPT ![i].type = "free"], {i})
  /\ UNCHANGED <<bitmap, cwd, of, pos, reg, puts, freed, panic, history>>

\* itrunc(), type = 0, iupdate(); from here ialloc() may hand the inode out ...
IputFree(p) ==
  /\ ~panic /\ puts[p] # <<>>
  /\ LET i == Head(puts[p])
     IN /\ itab[i].lock = p /\ itab[i].type # "free"
        /\ bitmap' = Bfree(itab[i].blocks)
        /\ dir' = [dir EXCEPT ![i] = NoEntries]
        /\ Iupdate([Itrunc(itab, i) EXCEPT ![i].type = "free"], {i})
  /\ UNCHANGED <<cwd, of, pos, reg, puts, freed, panic, history>>

\* ... valid = 0 and releasesleep(): another process can now use the entry for
\* a new inode of that number ...
IputUnlock(p) ==
  /\ ~panic /\ puts[p] # <<>>
  /\ LET i == Head(puts[p])
     IN /\ itab[i].lock = p /\ itab[i].type = "free"
        /\ itab' = [itab EXCEPT ![i] = [@ EXCEPT !.valid = FALSE, !.lock = None]]
  /\ freed' = [freed EXCEPT ![p] = TRUE]
  /\ UNCHANGED <<dinode, dir, bitmap, cwd, of, pos, reg, puts, panic, history>>

\* ... and the reference is dropped, whatever the inode has become: if this is
\* its last one and it has no links, it stays allocated.
IputDrop(p) ==
  LET i == Head(puts[p])
  IN /\ ~panic /\ freed[p]
     /\ itab' = Drop(itab, i)
     /\ puts' = [puts EXCEPT ![p] = Tail(@)]
     /\ freed' = [freed EXCEPT ![p] = FALSE]
     /\ leaked' = IF itab[i].ref = 1 /\ itab[i].valid /\ itab[i].nlink = 0
                  THEN leaked \cup {i} ELSE leaked
     /\ UNCHANGED <<dinode, dir, bitmap, cwd, of, pos, reg, panic, stray, lost>>

-----------------------------------------------------------------------------
\* namex().

ParentOps == {"creat", "mkdir", "link2", "unlink"}

Absolute(path) == path # <<>> /\ Head(path) = "/"
Rest(path) == IF Absolute(path) THEN Tail(path) ELSE path
From(p, path) == IF Absolute(path) THEN Root ELSE cwd[p]

\* The call begins: iget() of the root or idup() of the current directory.
Begin(p, op, path, new) ==
  /\ At(p, "user")
  /\ reg' = [reg EXCEPT ![p] = [NoReg EXCEPT !.op = op, !.path = Rest(path),
                                  !.new = new, !.w = From(p, path)]]
  /\ itab' = Iget(itab, From(p, path))
  /\ Goto(p, "walk")
  /\ UNCHANGED <<dinode, dir, bitmap, cwd, of, puts, freed, panic, history>>

\* The walk found nothing: put what is in S back and fail the call.
Fail(p, S) ==
  /\ puts' = [puts EXCEPT ![p] = S]
  /\ IF reg[p].op = "link2"
     THEN Goto(p, "link_bad") /\ reg' = [reg EXCEPT ![p].w = NoInode]
     ELSE Goto(p, "user") /\ reg' = [reg EXCEPT ![p] = NoReg]

\* One element of the path, from ilock(ip) to iunlock(ip); iput(ip) follows.
Walk(p) ==
  LET r == reg[p]
      i == r.w
  IN /\ At(p, "walk") /\ r.path # <<>> /\ Lockable(i)
     /\ IF NoType(i) THEN Stop
        ELSE LET t == [itab EXCEPT ![i] = Read(i)]
                 next == Dirlookup(i, Head(r.path))
             IN /\ IF t[i].type # "dir"
                   THEN itab' = t /\ Fail(p, <<i>>) /\ UNCHANGED lost
                   ELSE IF r.op \in ParentOps /\ Len(r.path) = 1
                   THEN /\ itab' = t
                        /\ Goto(p, r.op)
                        /\ reg' = [reg EXCEPT ![p].w = NoInode, ![p].dp = i]
                        /\ UNCHANGED <<puts, lost>>
                   ELSE IF next = NoInode
                   THEN itab' = t /\ Fail(p, <<i>>) /\ UNCHANGED lost
                   ELSE /\ itab' = Iget(t, next)
                        /\ lost' = (lost \/ Lost(i, Head(r.path)))
                        /\ puts' = [puts EXCEPT ![p] = <<i>>]
                        /\ reg' = [reg EXCEPT ![p].w = next,
                                              ![p].path = Tail(@)]
                        /\ UNCHANGED pos
                /\ UNCHANGED <<dinode, dir, bitmap, cwd, of, freed, panic, stray, leaked>>

\* The path is used up: namei() returns the inode, nameiparent() has nothing to
\* return.
WalkEnd(p) ==
  /\ At(p, "walk") /\ reg[p].path = <<>>
  /\ IF reg[p].op \in ParentOps THEN Fail(p, <<reg[p].w>>)
     ELSE /\ Goto(p, reg[p].op)
          /\ reg' = [reg EXCEPT ![p].w = NoInode, ![p].ip = reg[p].w]
          /\ UNCHANGED puts
  /\ UNCHANGED <<dinode, itab, dir, bitmap, cwd, of, freed, panic, history>>

-----------------------------------------------------------------------------
\* The system calls, from where the path is resolved.

\* The call returns after the iput()s in S.
Done(p, S) ==
  /\ puts' = [puts EXCEPT ![p] = S]
  /\ reg' = [reg EXCEPT ![p] = NoReg]
  /\ Goto(p, "user")

\* The rest of sys_open() with ip read into table t: filealloc() or fdalloc()
\* may fail; O_TRUNC may discard the content.  Ends with iunlock(ip).
Opened(p, t, i) ==
  \/ /\ of[p] = NoInode
     /\ of' = [of EXCEPT ![p] = i]
     /\ \/ Iupdate(t, {}) /\ UNCHANGED bitmap
        \/ /\ t[i].type = "file"
           /\ bitmap' = Bfree(t[i].blocks)
           /\ Iupdate(Itrunc(t, i), {i})
     /\ Done(p, <<>>)
  \/ Iupdate(t, {}) /\ Done(p, <<i>>) /\ UNCHANGED <<of, bitmap>>

\* The call has failed: iput(i) with the parent still locked, ...
KeepParent(p, i) ==
  /\ puts' = [puts EXCEPT ![p] = <<i>>]
  /\ reg' = [reg EXCEPT ![p].ip = NoInode]
  /\ Goto(p, "failed")

\* ... then iunlockput(dp).
Failed(p) ==
  /\ At(p, "failed")
  /\ itab' = [itab EXCEPT ![reg[p].dp].lock = None]
  /\ Done(p, <<reg[p].dp>>)
  /\ UNCHANGED <<dinode, dir, bitmap, cwd, of, freed, panic, history>>

\* sys_open() without O_CREATE.  (A directory can be opened for reading only.)
Open(p) ==
  LET i == reg[p].ip
  IN /\ At(p, "open") /\ Lockable(i)
     /\ IF NoType(i) THEN Stop
        ELSE /\ Opened(p, [itab EXCEPT ![i] = Read(i)], i)
             /\ UNCHANGED <<dir, cwd, freed, panic, history>>

FreeInums == {i \in Inums : dinode[i].type = "free"}
Type(op) == IF op = "mkdir" THEN "dir" ELSE "file"

\* create() with the parent locked: the name exists, or ialloc() the new inode
\* (the lowest free one) and keep the parent locked, or no inode is left.
Create(p) ==
  LET r == reg[p]
      d == r.dp
      t == [itab EXCEPT ![d] = Read(d)]
      old == Dirlookup(d, r.path[1])
  IN /\ pos[p] \in {"creat", "mkdir"} /\ At(p, pos[p]) /\ Lockable(d)
     /\ IF old # NoInode
        THEN /\ itab' = Iget(t, old)
             /\ lost' = (lost \/ Lost(d, r.path[1]))
             /\ puts' = [puts EXCEPT ![p] = <<d>>]
             /\ reg' = [reg EXCEPT ![p].dp = NoInode, ![p].ip = old]
             /\ Goto(p, "create_old")
             /\ UNCHANGED dinode
        ELSE IF FreeInums = {}
        THEN itab' = t /\ Done(p, <<d>>) /\ UNCHANGED <<dinode, lost>>
        ELSE LET new == CHOOSE i \in FreeInums : \A j \in FreeInums : i <= j
             IN /\ dinode' = [dinode EXCEPT ![new] =
                              [NoDinode EXCEPT !.type = Type(r.op)]]
                /\ itab' = Iget([t EXCEPT ![d].lock = p], new)
                /\ reg' = [reg EXCEPT ![p].ip = new]
                /\ Goto(p, "create_new")
                /\ UNCHANGED <<puts, lost>>
     /\ UNCHANGED <<dir, bitmap, cwd, of, freed, panic, stray, leaked>>

\* The name exists: creat() opens a file, everything else fails.
CreateOld(p) ==
  LET i == reg[p].ip
  IN /\ At(p, "create_old") /\ Lockable(i)
     /\ IF NoType(i) THEN Stop
        ELSE LET t == [itab EXCEPT ![i] = Read(i)]
             IN /\ IF reg[p].op = "creat" /\ t[i].type = "file"
                   THEN Opened(p, t, i)
                   ELSE itab' = t /\ Done(p, <<i>>)
                        /\ UNCHANGED <<dinode, bitmap, of>>
                /\ UNCHANGED <<dir, cwd, freed, panic, history>>

\* MUTANT: mkdir does not count ".." in the parent's nlink.
CreateNewNoDotDot(p) ==
  LET r == reg[p]
      i == r.ip
      d == r.dp
      t == [itab EXCEPT ![i] = [Read(i) EXCEPT !.nlink = 1], ![d].lock = None]
  IN /\ At(p, "create_new") /\ Lockable(i)
     /\ dir' = [Dirlink(d, r.path[1], i) EXCEPT
                  ![i] = IF r.op = "mkdir" THEN MadeIn(@, i, d) ELSE @]
     /\ Iupdate(t, {i})
     /\ Done(p, <<d, i>>)
     /\ stray' = (stray \/ t[d].nlink = 0)
     /\ UNCHANGED <<bitmap, cwd, of, freed, panic, lost, leaked>>

\* The new inode, parent locked: nlink = 1, "." and "..", the entry in the
\* parent, the parent's nlink for "..".  A dirlink() fails when the disk is
\* full; then the inode is given up, before the parent is unlocked.
CreateNew(p) ==
  LET r == reg[p]
      i == r.ip
      d == r.dp
      new == [itab EXCEPT ![i] = [Read(i) EXCEPT !.nlink = 1]]
      t == [new EXCEPT ![d].lock = None]
      up == IF r.op = "mkdir" THEN [t EXCEPT ![d].nlink = @ + 1] ELSE t
  IN /\ At(p, "create_new") /\ Lockable(i)
     /\ \/ /\ dir' = [Dirlink(d, r.path[1], i) EXCEPT
                        ![i] = IF r.op = "mkdir" THEN MadeIn(@, i, d) ELSE @]
           /\ stray' = (stray \/ t[d].nlink = 0)
           /\ \/ /\ r.op = "creat" /\ of[p] = NoInode
                 /\ of' = [of EXCEPT ![p] = i]
                 /\ Iupdate(up, {i, d}) /\ Done(p, <<d>>)
              \/ /\ Iupdate(up, {i, d}) /\ Done(p, <<d, i>>)
                 /\ UNCHANGED of
        \/ /\ Iupdate([new EXCEPT ![i].nlink = 0], {i})
           /\ KeepParent(p, i)
           /\ UNCHANGED <<dir, of, stray>>
     /\ UNCHANGED <<bitmap, cwd, freed, panic, lost, leaked>>

\* sys_link(): one more link to the old file, then walk to the new name's
\* parent.
LinkOld(p) ==
  LET i == reg[p].ip
  IN /\ At(p, "link") /\ Lockable(i)
     /\ IF NoType(i) THEN Stop
        ELSE LET t == [itab EXCEPT ![i] = Read(i)]
                 from == From(p, reg[p].new)
             IN /\ IF t[i].type = "dir"
                   THEN itab' = t /\ Done(p, <<i>>) /\ UNCHANGED dinode
                   ELSE /\ Iupdate(Iget([t EXCEPT ![i].nlink = @ + 1], from), {i})
                        /\ reg' = [reg EXCEPT ![p] = [NoReg EXCEPT !.op = "link2",
                             !.ip = i, !.w = from, !.path = Rest(reg[p].new)]]
                        /\ Goto(p, "walk")
                        /\ UNCHANGED puts
                /\ UNCHANGED <<dir, bitmap, cwd, of, freed, panic, history>>

\* The new entry; it fails when the name exists or the disk is full.
LinkNew(p) ==
  LET r == reg[p]
      d == r.dp
      t == [itab EXCEPT ![d] = Read(d)]
  IN /\ At(p, "link2") /\ Lockable(d)
     /\ itab' = t
     /\ \/ /\ Dirlookup(d, r.path[1]) = NoInode
           /\ dir' = Dirlink(d, r.path[1], r.ip)
           /\ stray' = (stray \/ t[d].nlink = 0)
           /\ Done(p, <<d, r.ip>>)
        \/ /\ puts' = [puts EXCEPT ![p] = <<d>>]
           /\ reg' = [reg EXCEPT ![p].dp = NoInode]
           /\ Goto(p, "link_bad")
           /\ UNCHANGED <<dir, stray>>
     /\ UNCHANGED <<dinode, bitmap, cwd, of, freed, panic, lost, leaked>>

LinkBad(p) ==
  LET i == reg[p].ip
  IN /\ At(p, "link_bad") /\ Lockable(i)
     /\ Iupdate([itab EXCEPT ![i] = [Read(i) EXCEPT !.nlink = @ - 1]], {i})
     /\ Done(p, <<i>>)
     /\ UNCHANGED <<dir, bitmap, cwd, of, freed, panic, history>>

\* MUTANT: unlink() lets go of the parent between the look-up and the removal.
UnlinkFindUnlocked(p) ==
  LET r == reg[p]
      d == r.dp
      t == [itab EXCEPT ![d] = Read(d)]
      i == Dirlookup(d, r.path[1])
  IN /\ At(p, "unlink") /\ Lockable(d)
     /\ IF i = NoInode
        THEN itab' = t /\ Done(p, <<d>>)
        ELSE /\ itab' = Iget(t, i)
             /\ reg' = [reg EXCEPT ![p].ip = i]
             /\ Goto(p, "unlink_ip")
             /\ UNCHANGED puts
     /\ UNCHANGED <<dinode, dir, bitmap, cwd, of, freed, panic, history>>

\* sys_unlink(): lock the parent and find the entry, keep the parent locked.
UnlinkFind(p) ==
  LET r == reg[p]
      d == r.dp
      t == [itab EXCEPT ![d] = Read(d)]
      i == Dirlookup(d, r.path[1])
  IN /\ At(p, "unlink") /\ Lockable(d)
     /\ IF i = NoInode \/ r.path[1] \in {".", ".."}
        THEN itab' = t /\ Done(p, <<d>>)
        ELSE /\ itab' = Iget([t EXCEPT ![d].lock = p], i)
             /\ reg' = [reg EXCEPT ![p].ip = i]
             /\ Goto(p, "unlink_ip")
             /\ UNCHANGED puts
     /\ UNCHANGED <<dinode, dir, bitmap, cwd, of, freed, panic, history>>

IsDirEmpty(i) == \A n \in Names : dir[i][n] = NoInode

\* Lock the inode as well.  Unless it is a directory in use, clear the entry
\* and, for a directory, the parent's link from "..".
UnlinkEntry(p) ==
  LET r == reg[p]
      i == r.ip
      d == r.dp
      t == [itab EXCEPT ![i] = Read(i), ![d].lock = None]
      down == IF t[i].type = "dir" THEN [t EXCEPT ![d].nlink = @ - 1] ELSE t
  IN /\ At(p, "unlink_ip") /\ Lockable(i)
     /\ IF NoType(i) \/ Read(i).nlink < 1 THEN Stop
        ELSE /\ IF t[i].type = "dir" /\ ~IsDirEmpty(i)
                THEN /\ itab' = [itab EXCEPT ![i] = Read(i)]
                     /\ KeepParent(p, i)
                     /\ UNCHANGED <<dinode, dir>>
                ELSE /\ dir' = Dirlink(d, r.path[1], NoInode)
                     /\ Iupdate([down EXCEPT ![i].lock = p], {d})
                     /\ puts' = [puts EXCEPT ![p] = <<d>>]
                     /\ reg' = [reg EXCEPT ![p].dp = NoInode]
                     /\ Goto(p, "unlink_end")
             /\ UNCHANGED <<bitmap, cwd, of, freed, panic, history>>

\* Then the inode's own link count.
UnlinkEnd(p) ==
  LET i == reg[p].ip
  IN /\ At(p, "unlink_end")
     /\ Iupdate([itab EXCEPT ![i] = [@ EXCEPT !.nlink = @ - 1, !.lock = None]],
                {i})
     /\ Done(p, <<i>>)
     /\ UNCHANGED <<dir, bitmap, cwd, of, freed, panic, history>>

\* MUTANT: chdir() keeps its reference to the old directory.
ChdirNoPut(p) ==
  LET i == reg[p].ip
  IN /\ At(p, "chdir") /\ Lockable(i) /\ ~NoType(i)
     /\ itab' = [itab EXCEPT ![i] = Read(i)]
     /\ cwd' = [cwd EXCEPT ![p] = i] /\ Done(p, <<>>)
     /\ UNCHANGED <<dinode, dir, bitmap, of, freed, panic, history>>

\* sys_chdir().
Chdir(p) ==
  LET i == reg[p].ip
  IN /\ At(p, "chdir") /\ Lockable(i)
     /\ IF NoType(i) THEN Stop
        ELSE /\ itab' = [itab EXCEPT ![i] = Read(i)]
             /\ IF Read(i).type = "dir"
                THEN cwd' = [cwd EXCEPT ![p] = i] /\ Done(p, <<cwd[p]>>)
                ELSE Done(p, <<i>>) /\ UNCHANGED cwd
             /\ UNCHANGED <<dinode, dir, bitmap, of, freed, panic, history>>

\* filewrite(): writei() with bmap() and balloc(); nothing when the disk is full.
Filewrite(p) ==
  LET i == of[p]
  IN /\ At(p, "user") /\ i # NoInode /\ Lockable(i) /\ Read(i).type = "file"
     /\ \E b \in DataBlocks \ bitmap :
          /\ bitmap' = Balloc(b)
          /\ Iupdate([itab EXCEPT ![i] = [Read(i) EXCEPT !.blocks = @ \cup {b}]],
                     {i})
     /\ UNCHANGED <<dir, cwd, of, pos, reg, puts, freed, panic, history>>

\* fileclose() of the last descriptor.
Close(p) ==
  /\ At(p, "user") /\ of[p] # NoInode
  /\ puts' = [puts EXCEPT ![p] = <<of[p]>>]
  /\ of' = [of EXCEPT ![p] = NoInode]
  /\ UNCHANGED <<dinode, itab, dir, bitmap, cwd, pos, reg, freed, panic, history>>

-----------------------------------------------------------------------------
FsNext ==
  \E p \in Callers :
    \/ \E path \in OpenPaths : Begin(p, "open", path, <<>>)
    \/ \E path \in CreatePaths : Begin(p, "creat", path, <<>>)
    \/ \E path \in MkdirPaths : Begin(p, "mkdir", path, <<>>)
    \/ \E path \in UnlinkPaths : Begin(p, "unlink", path, <<>>)
    \/ \E path \in ChdirPaths : Begin(p, "chdir", path, <<>>)
    \/ \E pair \in LinkPaths : Begin(p, "link", pair[1], pair[2])
    \/ Walk(p) \/ WalkEnd(p)
    \/ Iput(p) \/ IputFree(p) \/ IputUnlock(p) \/ IputDrop(p)
    \/ Open(p) \/ Create(p) \/ CreateOld(p) \/ CreateNew(p)
    \/ LinkOld(p) \/ LinkNew(p) \/ LinkBad(p)
    \/ UnlinkFind(p) \/ UnlinkEntry(p) \/ UnlinkEnd(p)
    \/ Failed(p) \/ Chdir(p) \/ Filewrite(p) \/ Close(p)

FsSpec == FsInit /\ [][FsNext]_fsVars

-----------------------------------------------------------------------------
\* Properties.

\* Every variable has its type.
FsTypeOK ==
  /\ \A i \in Inums :
       /\ dinode[i].type \in {"free", "file", "dir"}
       /\ dinode[i].nlink \in Int /\ dinode[i].blocks \subseteq DataBlocks
       /\ itab[i].ref \in Nat /\ itab[i].lock \in Callers \cup {None}
       /\ \A n \in Elems : dir[i][n] \in Inums \cup {NoInode}
  /\ bitmap \subseteq DataBlocks /\ leaked \subseteq Inums
  /\ \A p \in Callers : {cwd[p], of[p], reg[p].w, reg[p].ip, reg[p].dp}
                        \subseteq Inums \cup {NoInode}

Quiet == ~panic /\ \A p \in Callers : pos[p] = "user" /\ puts[p] = <<>>

\* ip->ref is the number of pointers to the entry: current directories, open
\* files, the inodes system calls hold and the iput()s they owe.
Held(p) == <<cwd[p], of[p], reg[p].w, reg[p].ip, reg[p].dp>> \o puts[p]
Pointers(i) ==
  Cardinality({<<p, k>> \in Callers \X (1 .. 7) :
                 LET h == Held(p) IN k \in DOMAIN h /\ h[k] = i})
RefsExact == \A i \in Inums : itab[i].ref = Pointers(i)

\* Entries that name i: by name, or ".." of a directory that is linked itself.
Entries(i) ==
  Cardinality({<<d, n>> \in Inums \X Names : dir[d][n] = i})
  + Cardinality({d \in Inums : /\ d # Root /\ dinode[d].nlink > 0
                                /\ dir[d][".."] = i})
  + IF i = Root THEN 1 ELSE 0

\* Between system calls nlink is the number of links: a link count is never too
\* low, so that a named inode is not freed, nor too high, so that one without a
\* name is freed in the end.  The exceptions are an
\* entry made in a directory that was removed after nameiparent() found it
\* (create() and link() do not look at dp->nlink, and the inode stays behind),
\* and what may follow once ".." has led to a removed directory.
LinksExact == Quiet /\ ~stray /\ ~lost =>
  \A i \in Inums : dinode[i].type # "free" => dinode[i].nlink = Entries(i)

\* An inode without links and without users is free: "If that was the last
\* reference and the inode has no links to it, free the inode" (fs.c:332).
NoInodeLeak ==
  \A i \in Inums : dinode[i].type # "free" => dinode[i].nlink > 0 \/ itab[i].ref > 0

\* The only inodes that break it are those whose last reference iput() dropped
\* without a test, because their number was freed and given out again while that
\* same iput() was between its two holds of itable.lock.
LeaksExplained ==
  \A i \in Inums \ leaked :
    dinode[i].type # "free" => dinode[i].nlink > 0 \/ itab[i].ref > 0

\* At every moment every name refers to an allocated inode with a link to spare:
\* none is freed, and given to another file, while an entry still names it.
NoDanglingEntry ==
  \A d \in Inums, n \in Names :
    dir[d][n] # NoInode => /\ dinode[dir[d][n]].type # "free"
                           /\ dinode[dir[d][n]].nlink > 0

\* A block is marked in use exactly when it belongs to one allocated inode.
BlocksExact ==
  /\ bitmap = UNION {dinode[i].blocks : i \in Inums}
  /\ \A i, j \in Inums : i # j => dinode[i].blocks \cap dinode[j].blocks = {}

\* ilock() finds an allocated inode whoever calls it: its panic("ilock: no type")
\* (fs.c:315) is never reached, nor is the panic of unlink() (sysfile.c:215).
NeverPanics == ~panic

\* Until a call follows the ".." of a directory whose parent was removed as well,
\* an inode is freed when its last name and its last user are gone, neither
\* later nor sooner, and so nobody meets a free inode.
FreedInTime == ~lost => LeaksExplained /\ NoDanglingEntry /\ NeverPanics

\* Nothing is lost and nothing is freed in use: references in memory, inodes on
\* disk and blocks in the bitmap, whatever the interleaving of the calls.
InodesExact == FsTypeOK /\ RefsExact /\ BlocksExact /\ FreedInTime
=============================================================================
