-------------------------------- MODULE Cow --------------------------------
(***************************************************************************)
(* Copy-on-write user memory: the page tables of kernel/vm.c, the store    *)
(* fault of kernel/trap.c, and their users fork(), exec(), growproc(),     *)
(* exit() and wait() in kernel/proc.c and kernel/exec.c.                   *)
(*                                                                         *)
(* Each process runs in user mode (pc "user") or inside one of the page    *)
(* loops of the kernel; the loops of different processes interleave at     *)
(* every page and at every change of a shared count.  kalloc(), kfree(),   *)
(* kref_inc() and kref_dec() are the atomic operations module Kalloc       *)
(* justifies (exclusive pages, exact counts).  Page-table pages, kernel    *)
(* stacks and trapframes are not among Pages: their only effect here is    *)
(* that mappages() can fail.                                               *)
(***************************************************************************)
EXTENDS Integers, FiniteSets

CONSTANTS
  Procs, Tables, Pages,
  NV,          \* user pages of the largest address space; page v is v*PGSIZE
  Vals, Zero, Image, Junk,
  Text,        \* pages an ELF file maps without PTE_W (flags2perm)
  Guard,       \* the stack guard page, PTE_U cleared by uvmclear()
  ImageSizes,  \* sizes of the programs exec() may load
  Deltas,      \* page counts sbrk() may add or remove
  CopyoutToShared, \* may system calls write into buffers on COW pages?
  NoTable, NoPage, Dead

VA == 0 .. NV - 1

ASSUME CowAssumption ==
  /\ IsFiniteSet(Procs) /\ IsFiniteSet(Tables)   \* NPROC; pages of RAM
  /\ NV \in Nat \ {0}
  /\ {Zero, Image} \subseteq Vals /\ Junk \notin Vals
  /\ Text \subseteq VA /\ Guard \subseteq VA
  /\ ImageSizes \subseteq 1 .. NV /\ Deltas \subseteq 1 .. NV
  /\ CopyoutToShared \in BOOLEAN
  /\ NoTable \notin Tables /\ NoPage \notin Pages

\* Dead is not the contents of an address space.
ASSUME DeadAssumption ==
  \A n \in 0 .. NV : Dead \notin [0 .. n - 1 -> Vals \cup {Junk}]

VARIABLES
  free,     \* pages on the free list
  refs,     \* refcounts[]
  mem,      \* contents of a physical page
  pt,       \* pt[t][v]: the leaf PTE of page v in page table t
  table,    \* p->pagetable
  sz,       \* p->sz in pages
  life,     \* "unused", "embryo", "live", "zombie"
  pc,       \* where the process's kernel thread is
  tgt,      \* the page table a kernel loop works on
  idx, lim, \* loop variable and its bound
  low,      \* p->sz once a deallocation is complete
  pg        \* local physical page: mem or pa in usertrap()

vars == <<free, refs, mem, pt, table, sz, life, pc, tgt, idx, lim, low, pg>>

alloc == <<free, refs, mem>>
proc  == <<table, sz, life>>
local == <<tgt, idx, lim, low, pg>>

\* A cleared PTE, and a leaf PTE (PTE_V and PTE_R are always set with it).
NoPTE == [pa |-> NoPage, W |-> FALSE, U |-> FALSE, COW |-> FALSE]
PTE == [pa : Pages \cup {NoPage}, W : BOOLEAN, U : BOOLEAN, COW : BOOLEAN]
Valid(t, v) == pt[t][v].pa # NoPage

FreeTables == {t \in Tables : \A h \in Procs : table[h] # t /\ tgt[h] # t}

-----------------------------------------------------------------------------
\* The allocator's operations, atomic.

\* kalloc() of page q, then filled with x by the caller.
Kalloc(q, x) ==
  /\ q \in free
  /\ free' = free \ {q}
  /\ refs' = [refs EXCEPT ![q] = 1]
  /\ mem' = [mem EXCEPT ![q] = x]

\* MUTANT: the page is not reclaimed when its last reference goes.
KrefDecLeaks(p) ==
  /\ refs' = [refs EXCEPT ![p] = @ - 1]
  /\ UNCHANGED <<free, mem>>

\* kref_dec(): the last reference junks the page and frees it.
KrefDec(p) ==
  /\ refs' = [refs EXCEPT ![p] = @ - 1]
  /\ IF refs[p] = 1
     THEN free' = free \cup {p} /\ mem' = [mem EXCEPT ![p] = Junk]
     ELSE UNCHANGED <<free, mem>>

-----------------------------------------------------------------------------
\* The PTE exec() gives page v of an image: uvmalloc() with flags2perm(),
\* and uvmclear() on the guard page.
ImagePTE(v, p) == [pa |-> p, W |-> v \notin Text, U |-> v \notin Guard,
                   COW |-> FALSE]

\* The first process after its first exec("/init").
Init ==
  \E h \in Procs, t \in Tables, n \in ImageSizes :
  \E f \in [0 .. n - 1 -> Pages] :
    /\ \A u, v \in 0 .. n - 1 : f[u] = f[v] => u = v
    /\ LET used == {f[v] : v \in 0 .. n - 1} IN
       /\ free = Pages \ used
       /\ refs = [p \in Pages |-> IF p \in used THEN 1 ELSE 0]
       /\ mem = [p \in Pages |-> IF p \in used THEN Image ELSE Junk]
    /\ pt = [s \in Tables |-> [v \in VA |->
               IF s = t /\ v < n THEN ImagePTE(v, f[v]) ELSE NoPTE]]
    /\ table = [g \in Procs |-> IF g = h THEN t ELSE NoTable]
    /\ sz = [g \in Procs |-> IF g = h THEN n ELSE 0]
    /\ life = [g \in Procs |-> IF g = h THEN "live" ELSE "unused"]
    /\ pc = [g \in Procs |-> IF g = h THEN "user" ELSE "none"]
    /\ tgt = [g \in Procs |-> NoTable]
    /\ idx = [g \in Procs |-> 0]
    /\ lim = [g \in Procs |-> 0]
    /\ low = [g \in Procs |-> 0]
    /\ pg = [g \in Procs |-> NoPage]

\* Leave the kernel: forget the locals.
Return(h) ==
  /\ pc' = [pc EXCEPT ![h] = "user"]
  /\ tgt' = [tgt EXCEPT ![h] = NoTable]
  /\ idx' = [idx EXCEPT ![h] = 0]
  /\ lim' = [lim EXCEPT ![h] = 0]
  /\ low' = [low EXCEPT ![h] = 0]
  /\ pg' = [pg EXCEPT ![h] = NoPage]

\* exit(): the memory stays until the parent's wait() frees it.
BecomeZombie(h) ==
  /\ life' = [life EXCEPT ![h] = "zombie"]
  /\ pc' = [pc EXCEPT ![h] = "none"]
  /\ idx' = [idx EXCEPT ![h] = 0]
  /\ UNCHANGED <<alloc, pt, table, sz, tgt, lim, low, pg>>

\* The failed assert(FREE_PAGES > 0) of kalloc(): this thread never returns.
Panic(h) ==
  /\ pc' = [pc EXCEPT ![h] = "panic"]
  /\ UNCHANGED <<alloc, pt, proc, local>>

-----------------------------------------------------------------------------
\* User mode and the store fault.

\* A user store to a page mapped writable.
UserStore(h, v, x) ==
  /\ pc[h] = "user" /\ Valid(table[h], v)
  /\ pt[table[h]][v].W /\ pt[table[h]][v].U
  /\ mem' = [mem EXCEPT ![pt[table[h]][v].pa] = x]
  /\ UNCHANGED <<free, refs, pt, proc, pc, local>>

\* A system call of h stores into h's memory: copyout() goes through
\* walkaddr(), which tests PTE_V and PTE_U only.  CopyoutToShared = FALSE
\* restricts the programs to buffers they have written since the last fork().
Copyout(h, v, x) ==
  /\ pc[h] = "user" /\ Valid(table[h], v) /\ pt[table[h]][v].U
  /\ CopyoutToShared \/ ~pt[table[h]][v].COW
  /\ mem' = [mem EXCEPT ![pt[table[h]][v].pa] = x]
  /\ UNCHANGED <<free, refs, pt, proc, pc, local>>

\* A user store to any other page traps with scause 15.  An unmapped page, a
\* page without PTE_U and a read-only page that is not COW kill the process.
StoreFault(h, v) ==
  /\ pc[h] = "user"
  /\ LET e == pt[table[h]][v]
     IN  /\ ~(e.W /\ e.U)
         /\ IF Valid(table[h], v) /\ e.U /\ e.COW
            THEN /\ pc' = [pc EXCEPT ![h] = "f_alloc"]
                 /\ idx' = [idx EXCEPT ![h] = v]
                 /\ UNCHANGED <<alloc, pt, proc, tgt, lim, low, pg>>
            ELSE BecomeZombie(h)

FaultAlloc(h) ==
  /\ pc[h] = "f_alloc"
  /\ \/ \E q \in free :
          /\ Kalloc(q, Junk)
          /\ pg' = [pg EXCEPT ![h] = q]
          /\ pc' = [pc EXCEPT ![h] = "f_copy"]
          /\ UNCHANGED <<pt, proc, tgt, idx, lim, low>>
     \/ free = {} /\ BecomeZombie(h)     \* kalloc() returned 0
     \/ free = {} /\ Panic(h)

\* MUTANT: the reference to the shared page is dropped before it is copied.
FaultCopyDropsFirst(h) ==
  /\ pc[h] = "f_copy"
  /\ KrefDec(pt[table[h]][idx[h]].pa)
  /\ pc' = [pc EXCEPT ![h] = "f_map"]
  /\ UNCHANGED <<pt, proc, local>>

\* memmove(mem, pa, PGSIZE).
FaultCopy(h) ==
  /\ pc[h] = "f_copy"
  /\ mem' = [mem EXCEPT ![pg[h]] = mem[pt[table[h]][idx[h]].pa]]
  /\ pc' = [pc EXCEPT ![h] = "f_map"]
  /\ UNCHANGED <<free, refs, pt, proc, local>>

\* Point the PTE at the copy, writable; pa is still referenced by this fault.
FaultMap(h) ==
  /\ pc[h] = "f_map"
  /\ pt' = [pt EXCEPT ![table[h]][idx[h]] =
              [@ EXCEPT !.pa = pg[h], !.W = TRUE, !.COW = FALSE]]
  /\ pg' = [pg EXCEPT ![h] = pt[table[h]][idx[h]].pa]
  /\ pc' = [pc EXCEPT ![h] = "f_drop"]
  /\ UNCHANGED <<alloc, proc, tgt, idx, lim, low>>

\* kref_dec(pa); back to user mode, where the store is executed again.
FaultDrop(h) ==
  /\ pc[h] = "f_drop"
  /\ KrefDec(pg[h])
  /\ Return(h)
  /\ UNCHANGED <<pt, proc>>

-----------------------------------------------------------------------------
\* fork() and uvmcopy().

\* allocproc(): a process slot and an empty page table.
ForkStart(h, c, t) ==
  /\ pc[h] = "user" /\ life[c] = "unused" /\ t \in FreeTables
  /\ life' = [life EXCEPT ![c] = "embryo"]
  /\ table' = [table EXCEPT ![c] = t]
  /\ tgt' = [tgt EXCEPT ![h] = t]
  /\ idx' = [idx EXCEPT ![h] = 0]
  /\ lim' = [lim EXCEPT ![h] = sz[h]]
  /\ pc' = [pc EXCEPT ![h] = "fork_map"]
  /\ UNCHANGED <<alloc, pt, sz, low, pg>>

\* MUTANT: the parent keeps its write permission.
ForkMapChildOnly(h) ==
  /\ pc[h] = "fork_map" /\ idx[h] < lim[h]
  /\ LET e == [pt[table[h]][idx[h]] EXCEPT !.W = FALSE, !.COW = TRUE]
     IN  pt' = [pt EXCEPT ![tgt[h]][idx[h]] = e]
  /\ pc' = [pc EXCEPT ![h] = "fork_ref"]
  /\ UNCHANGED <<alloc, proc, local>>

\* One iteration of uvmcopy(): the parent's PTE loses PTE_W and gains PTE_COW,
\* the child gets the same PTE; or mappages() fails and the pages mapped so
\* far are unmapped again.
ForkMap(h) ==
  /\ pc[h] = "fork_map" /\ idx[h] < lim[h]
  /\ LET e == [pt[table[h]][idx[h]] EXCEPT !.W = FALSE, !.COW = TRUE]
     IN  \/ /\ pt' = [pt EXCEPT ![table[h]][idx[h]] = e,
                                ![tgt[h]][idx[h]] = e]
            /\ pc' = [pc EXCEPT ![h] = "fork_ref"]
            /\ UNCHANGED <<idx, lim>>
         \/ /\ pt' = [pt EXCEPT ![table[h]][idx[h]] = e]
            /\ pc' = [pc EXCEPT ![h] = "undo"]
            /\ lim' = [lim EXCEPT ![h] = idx[h]]
            /\ idx' = [idx EXCEPT ![h] = 0]
  /\ UNCHANGED <<alloc, proc, tgt, low, pg>>

\* kref_inc(pa), after the child's PTE is in place.
ForkRef(h) ==
  /\ pc[h] = "fork_ref"
  /\ refs' = [refs EXCEPT ![pt[table[h]][idx[h]].pa] = @ + 1]
  /\ idx' = [idx EXCEPT ![h] = @ + 1]
  /\ pc' = [pc EXCEPT ![h] = "fork_map"]
  /\ UNCHANGED <<free, mem, pt, proc, tgt, lim, low, pg>>

\* np->sz = p->sz; the child becomes RUNNABLE.
ForkDone(h) ==
  /\ pc[h] = "fork_map" /\ idx[h] = lim[h]
  /\ \E c \in Procs :
       /\ life[c] = "embryo" /\ table[c] = tgt[h]
       /\ sz' = [sz EXCEPT ![c] = sz[h]]
       /\ life' = [life EXCEPT ![c] = "live"]
       /\ pc' = [pc EXCEPT ![h] = "user", ![c] = "user"]
  /\ tgt' = [tgt EXCEPT ![h] = NoTable]
  /\ idx' = [idx EXCEPT ![h] = 0]
  /\ lim' = [lim EXCEPT ![h] = 0]
  /\ UNCHANGED <<alloc, pt, table, low, pg>>

-----------------------------------------------------------------------------
\* uvmunmap(.., do_free = 1): per page, kref_dec(pa), then *pte = 0.  The pc
\* names the caller: "undo" is uvmcopy()'s error path, "dealloc" sbrk(),
\* "discard" exec()'s bad path or its old page table, "reap" wait().

Unmapping == {"undo", "dealloc", "discard", "reap"}
Clearing  == [k \in Unmapping |->
                CASE k = "undo" -> "undo_clr" [] k = "dealloc" -> "dealloc_clr"
                  [] k = "discard" -> "discard_clr" [] k = "reap" -> "reap_clr"]

UnmapDec(h) ==
  /\ pc[h] \in Unmapping /\ idx[h] < lim[h]
  /\ KrefDec(pt[tgt[h]][idx[h]].pa)
  /\ pc' = [pc EXCEPT ![h] = Clearing[@]]
  /\ UNCHANGED <<pt, proc, local>>

UnmapClear(h) ==
  \E k \in Unmapping :
    /\ pc[h] = Clearing[k]
    /\ pt' = [pt EXCEPT ![tgt[h]][idx[h]] = NoPTE]
    /\ idx' = [idx EXCEPT ![h] = @ + 1]
    /\ pc' = [pc EXCEPT ![h] = k]
    /\ UNCHANGED <<alloc, proc, tgt, lim, low, pg>>

UnmapEnd(h) == pc[h] \in Unmapping /\ idx[h] = lim[h]

\* freeproc(): of the failed child in fork(), of the zombie in wait().
FreeProc(h) ==
  /\ UnmapEnd(h) /\ pc[h] \in {"undo", "reap"}
  /\ \E c \in Procs :
       /\ table[c] = tgt[h] /\ c # h
       /\ life' = [life EXCEPT ![c] = "unused"]
       /\ table' = [table EXCEPT ![c] = NoTable]
       /\ sz' = [sz EXCEPT ![c] = 0]
  /\ Return(h)
  /\ UNCHANGED <<alloc, pt>>

\* The end of uvmdealloc(): growproc() sets p->sz.
DeallocDone(h) ==
  /\ UnmapEnd(h) /\ pc[h] = "dealloc"
  /\ sz' = [sz EXCEPT ![h] = low[h]]
  /\ Return(h)
  /\ UNCHANGED <<alloc, pt, table, life>>

\* The end of proc_freepagetable() in exec().
DiscardDone(h) ==
  /\ UnmapEnd(h) /\ pc[h] = "discard"
  /\ Return(h)
  /\ UNCHANGED <<alloc, pt, proc>>

-----------------------------------------------------------------------------
\* growproc().

GrowStart(h, n) ==
  /\ pc[h] = "user" /\ sz[h] + n <= NV
  /\ tgt' = [tgt EXCEPT ![h] = table[h]]
  /\ idx' = [idx EXCEPT ![h] = sz[h]]
  /\ lim' = [lim EXCEPT ![h] = sz[h] + n]
  /\ low' = [low EXCEPT ![h] = sz[h]]
  /\ pc' = [pc EXCEPT ![h] = "grow"]
  /\ UNCHANGED <<alloc, pt, proc, pg>>

\* Give up in uvmalloc(): deallocate what it added.
UvmallocFails(h, undo) ==
  /\ pc' = [pc EXCEPT ![h] = undo]
  /\ lim' = [lim EXCEPT ![h] = idx[h]]
  /\ idx' = [idx EXCEPT ![h] = low[h]]
  /\ UNCHANGED <<alloc, pt, proc, tgt, low, pg>>

\* One iteration of uvmalloc() for sbrk(): a zeroed, writable page; or
\* kalloc() returns 0, or mappages() fails and the page goes back.
GrowPage(h) ==
  /\ pc[h] = "grow" /\ idx[h] < lim[h]
  /\ \/ \E q \in free :
          /\ Kalloc(q, Zero)
          /\ pt' = [pt EXCEPT ![tgt[h]][idx[h]] =
                      [pa |-> q, W |-> TRUE, U |-> TRUE, COW |-> FALSE]]
          /\ idx' = [idx EXCEPT ![h] = @ + 1]
          /\ UNCHANGED <<proc, pc, tgt, lim, low, pg>>
     \/ UvmallocFails(h, "dealloc")
     \/ free = {} /\ Panic(h)

GrowDone(h) ==
  /\ pc[h] = "grow" /\ idx[h] = lim[h]
  /\ sz' = [sz EXCEPT ![h] = lim[h]]
  /\ Return(h)
  /\ UNCHANGED <<alloc, pt, table, life>>

\* n < 0: uvmdealloc() unmaps from the new size up to the old one.  (Removing
\* more than there is wraps the unsigned size, and uvmdealloc() does nothing.)
ShrinkStart(h, n) ==
  /\ pc[h] = "user" /\ n <= sz[h]
  /\ tgt' = [tgt EXCEPT ![h] = table[h]]
  /\ idx' = [idx EXCEPT ![h] = sz[h] - n]
  /\ lim' = [lim EXCEPT ![h] = sz[h]]
  /\ low' = [low EXCEPT ![h] = sz[h] - n]
  /\ pc' = [pc EXCEPT ![h] = "dealloc"]
  /\ UNCHANGED <<alloc, pt, proc, pg>>

-----------------------------------------------------------------------------
\* exec().

ExecStart(h, t, n) ==
  /\ pc[h] = "user" /\ t \in FreeTables
  /\ tgt' = [tgt EXCEPT ![h] = t]
  /\ idx' = [idx EXCEPT ![h] = 0]
  /\ lim' = [lim EXCEPT ![h] = n]
  /\ low' = [low EXCEPT ![h] = 0]
  /\ pc' = [pc EXCEPT ![h] = "exec"]
  /\ UNCHANGED <<alloc, pt, proc, pg>>

\* One page of the image: uvmalloc() with the segment's permissions, loadseg()
\* or the stack.  Any failure goes to bad: and frees the new page table.
ExecPage(h) ==
  /\ pc[h] = "exec" /\ idx[h] < lim[h]
  /\ \/ \E q \in free :
          /\ Kalloc(q, Image)
          /\ pt' = [pt EXCEPT ![tgt[h]][idx[h]] = ImagePTE(idx[h], q)]
          /\ idx' = [idx EXCEPT ![h] = @ + 1]
          /\ UNCHANGED <<proc, pc, tgt, lim, low, pg>>
     \/ UvmallocFails(h, "discard")
     \/ free = {} /\ Panic(h)

\* MUTANT: the old page table is freed with the size of the new program.
ExecCommitNewSize(h) ==
  /\ pc[h] = "exec" /\ idx[h] = lim[h]
  /\ table' = [table EXCEPT ![h] = tgt[h]]
  /\ sz' = [sz EXCEPT ![h] = lim[h]]
  /\ tgt' = [tgt EXCEPT ![h] = table[h]]
  /\ idx' = [idx EXCEPT ![h] = 0]
  /\ lim' = lim
  /\ pc' = [pc EXCEPT ![h] = "discard"]
  /\ UNCHANGED <<alloc, pt, life, low, pg>>

\* Commit: switch page tables, then free the old one (its size is oldsz).
ExecCommit(h) ==
  /\ pc[h] = "exec" /\ idx[h] = lim[h]
  /\ table' = [table EXCEPT ![h] = tgt[h]]
  /\ sz' = [sz EXCEPT ![h] = lim[h]]
  /\ tgt' = [tgt EXCEPT ![h] = table[h]]
  /\ idx' = [idx EXCEPT ![h] = 0]
  /\ lim' = [lim EXCEPT ![h] = sz[h]]
  /\ pc' = [pc EXCEPT ![h] = "discard"]
  /\ UNCHANGED <<alloc, pt, life, low, pg>>

-----------------------------------------------------------------------------
\* exit() and wait().  Who may reap whom is module Proc's business: here any
\* process in user mode may be the parent.

Exit(h) == pc[h] = "user" /\ BecomeZombie(h)

ReapStart(h, c) ==
  /\ pc[h] = "user" /\ life[c] = "zombie"
  /\ \A g \in Procs : tgt[g] # table[c]
  /\ tgt' = [tgt EXCEPT ![h] = table[c]]
  /\ idx' = [idx EXCEPT ![h] = 0]
  /\ lim' = [lim EXCEPT ![h] = sz[c]]
  /\ pc' = [pc EXCEPT ![h] = "reap"]
  /\ UNCHANGED <<alloc, pt, proc, low, pg>>

-----------------------------------------------------------------------------
Next ==
  \E h \in Procs :
    \/ \E v \in VA, x \in Vals : UserStore(h, v, x) \/ Copyout(h, v, x)
    \/ \E v \in VA : StoreFault(h, v)
    \/ FaultAlloc(h) \/ FaultCopy(h) \/ FaultMap(h) \/ FaultDrop(h)
    \/ \E c \in Procs, t \in Tables : ForkStart(h, c, t)
    \/ ForkMap(h) \/ ForkRef(h) \/ ForkDone(h)
    \/ UnmapDec(h) \/ UnmapClear(h)
    \/ FreeProc(h) \/ DeallocDone(h) \/ DiscardDone(h)
    \/ \E n \in Deltas : GrowStart(h, n) \/ ShrinkStart(h, n)
    \/ GrowPage(h) \/ GrowDone(h)
    \/ \E t \in Tables, n \in ImageSizes : ExecStart(h, t, n)
    \/ ExecPage(h) \/ ExecCommit(h)
    \/ Exit(h)
    \/ \E c \in Procs : ReapStart(h, c)

Spec == Init /\ [][Next]_vars

-----------------------------------------------------------------------------
\* Properties.

Points == {"none", "user", "panic", "f_alloc", "f_copy", "f_map", "f_drop",
           "fork_map", "fork_ref", "grow", "exec"}
          \cup Unmapping \cup {Clearing[k] : k \in Unmapping}

\* Every variable has its type.  No page has more references than there are
\* processes: uint8 refcounts[] cannot wrap while NPROC < 256 (kalloc.c:33).
TypeOK ==
  /\ free \subseteq Pages
  /\ refs \in [Pages -> 0 .. Cardinality(Procs)]
  /\ mem \in [Pages -> Vals \cup {Junk}]
  /\ pt \in [Tables -> [VA -> PTE]]
  /\ table \in [Procs -> Tables \cup {NoTable}]
  /\ sz \in [Procs -> 0 .. NV]
  /\ life \in [Procs -> {"unused", "embryo", "live", "zombie"}]
  /\ pc \in [Procs -> Points]
  /\ tgt \in [Procs -> Tables \cup {NoTable}]
  /\ idx \in [Procs -> 0 .. NV] /\ lim \in [Procs -> 0 .. NV]
  /\ low \in [Procs -> 0 .. NV]
  /\ pg \in [Procs -> Pages \cup {NoPage}]

\* PTEs not matched by the count at this instant: the child's new PTE before
\* kref_inc(), and the PTE uvmunmap() is about to clear after kref_dec().
Uncounted ==
  {<<tgt[h], idx[h]>> : h \in {g \in Procs :
      pc[g] \in {"fork_ref"} \cup {Clearing[k] : k \in Unmapping}}}

\* The references to page p: counted PTEs, and the calls of usertrap() that
\* carry it.
Mappings(p) == {e \in (Tables \X VA) \ Uncounted : pt[e[1]][e[2]].pa = p}
Carriers(p) == {h \in Procs : pg[h] = p}

\* The reference count of a page is the number of its references at every
\* instant, and a page is free exactly when it has none: forks, faults and
\* unmappings of different processes may interleave in any way.
CountExact ==
  \A p \in Pages : /\ refs[p] = Cardinality(Mappings(p)) + Cardinality(Carriers(p))
                   /\ p \in free <=> Mappings(p) = {} /\ Carriers(p) = {}

\* A page that some page table maps writable is mapped by no other PTE, so no
\* store of one process can reach the memory of another.  The PTE uvmunmap()
\* has released but not cleared yet is the exception: its page may already be
\* reused, and no process runs on that mapping (vm.c:186-190).
SoleWriter ==
  \A e, f \in (Tables \X VA) \ Uncounted :
    LET a == pt[e[1]][e[2]]  b == pt[f[1]][f[2]]
    IN  a.pa # NoPage /\ a.W /\ b.pa = a.pa => e = f

\* Sharing is sound: pages are counted, and what is shared is not writable.
SharingExact == CountExact /\ SoleWriter

\* The panics of vm.c are unreachable: a page table a process runs on maps
\* exactly the pages below p->sz ("uvmcopy: page not present", "uvmunmap: not
\* mapped", "mappages: remap"), a freed one has no leaf ("freewalk: leaf").
TablesWellFormed ==
  /\ \A h \in Procs : pc[h] = "user" =>
       \A v \in VA : Valid(table[h], v) <=> v < sz[h]
  /\ \A t \in FreeTables, v \in VA : ~Valid(t, v)
  /\ \A h \in Procs : pc[h] \in Unmapping /\ idx[h] < lim[h]
                         => Valid(tgt[h], idx[h])
  /\ \A h \in Procs : pc[h] \in {"fork_map", "grow", "exec"} /\ idx[h] < lim[h]
                         => ~Valid(tgt[h], idx[h])

\* The same, with the type of every variable.
TablesExact == TypeOK /\ TablesWellFormed

\* What each process sees of its memory.  A process that is being created,
\* dead or unused sees nothing; while sbrk() removes pages, those that remain.
Visible(h) ==
  IF life[h] # "live" THEN Dead
  ELSE LET n == IF pc[h] \in {"dealloc", "dealloc_clr"} THEN low[h] ELSE sz[h]
       IN  [v \in 0 .. n - 1 |-> IF Valid(table[h], v)
                                 THEN mem[pt[table[h]][v].pa] ELSE Junk]

\* Copy-on-write implements private memory: fork() is an instantaneous copy
\* and nobody's memory changes but by its own stores (vm.c:299-330).
Private == INSTANCE PrivateMem WITH view <- [h \in Procs |-> Visible(h)]
MemoryIsPrivate == Private!Spec
=============================================================================
