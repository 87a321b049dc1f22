------------------------------- MODULE Kalloc -------------------------------
(***************************************************************************)
(* The physical page allocator of the kernel (kernel/kalloc.c): the free   *)
(* list under kmem.lock, the per-page reference counts under reflock, and  *)
(* the page counter FREE_PAGES, which kalloc() reads and writes without    *)
(* any lock.  Kernel threads (one per process) call kalloc(), kfree(),     *)
(* kref_inc() and kref_dec() concurrently and can be preempted between any *)
(* two steps below.                                                        *)
(*                                                                         *)
(* A critical section is one step, except kfree()'s, whose load and store  *)
(* of FREE_PAGES are separate steps: the unlocked FREE_PAGES-- of another  *)
(* thread can fall between them.                                           *)
(***************************************************************************)
EXTENDS Integers, FiniteSets

CONSTANTS
  Procs,     \* processes, each with its kernel thread (NPROC in param.h)
  Pages,     \* physical pages between `end' and PHYSTOP
  NoPage,    \* the null pointer
  NoProc,    \* no owner of a lock
  RefMod,    \* 2^8: refcounts[] is an array of uint8
  CountMod   \* 2^64: FREE_PAGES is a uint64

ASSUME KallocAssumption ==
  /\ IsFiniteSet(Procs) /\ IsFiniteSet(Pages)
  /\ NoPage \notin Pages /\ NoProc \notin Procs
  /\ RefMod \in Nat /\ Cardinality(Procs) < RefMod
  /\ CountMod \in Nat /\ Cardinality(Pages) < CountMod

VARIABLES
  freelist,  \* pages on kmem.freelist (its LIFO order is abstracted away)
  kmemLock,  \* owner of kmem.lock, or NoProc
  FREE_PAGES, MAX_PAGES,
  refcounts, \* [Pages -> 0..RefMod-1]
  holders,   \* holders[p]: the processes that own a reference to page p
  pc,        \* where each kernel thread is
  pg,        \* the local r of kalloc(), the argument pa of kfree()
  reg        \* the register holding the FREE_PAGES a thread has loaded

vars == <<freelist, kmemLock, FREE_PAGES, MAX_PAGES, refcounts, holders,
          pc, pg, reg>>

\* Program points.  "ka_..." is inside kalloc(), "kf_..." inside kfree();
\* the two panics are the failed assert() of kalloc() and of kfree().
Points == {"idle", "ka_chk", "ka_pop", "ka_ref", "ka_load", "ka_store",
           "kf_chk", "kf_push", "kf_store", "ka_panic", "kf_panic"}

\* Before kinit(): nothing on the free list, the counters are zero.
Init ==
  /\ freelist = {} /\ kmemLock = NoProc
  /\ FREE_PAGES = 0 /\ MAX_PAGES = 0
  /\ refcounts = [p \in Pages |-> 0]
  /\ holders = [p \in Pages |-> {}]
  /\ pc = [t \in Procs |-> "idle"]
  /\ pg = [t \in Procs |-> NoPage]
  /\ reg = [t \in Procs |-> 0]

Booted == MAX_PAGES # 0

\* kinit() runs on the boot CPU before any other thread exists: freerange()
\* kfree()s every page (assert skipped while MAX_PAGES is 0).
Kinit ==
  /\ ~Booted
  /\ freelist' = Pages
  /\ FREE_PAGES' = Cardinality(Pages)
  /\ MAX_PAGES' = Cardinality(Pages)
  /\ UNCHANGED <<kmemLock, refcounts, holders, pc, pg, reg>>

-----------------------------------------------------------------------------
\* The steps of kalloc().

CallKalloc(t) ==
  /\ Booted /\ pc[t] = "idle"
  /\ pc' = [pc EXCEPT ![t] = "ka_chk"]
  /\ UNCHANGED <<freelist, kmemLock, FREE_PAGES, MAX_PAGES, refcounts,
                 holders, pg, reg>>

\* assert(FREE_PAGES > 0), read without a lock.
KallocCheck(t) ==
  /\ pc[t] = "ka_chk"
  /\ pc' = [pc EXCEPT ![t] = IF FREE_PAGES > 0 THEN "ka_pop" ELSE "ka_panic"]
  /\ UNCHANGED <<freelist, kmemLock, FREE_PAGES, MAX_PAGES, refcounts,
                 holders, pg, reg>>

\* Take the head of the free list, or null, under kmem.lock.
KallocPop(t) ==
  /\ pc[t] = "ka_pop" /\ kmemLock = NoProc
  /\ \/ \E r \in freelist :
          /\ pg' = [pg EXCEPT ![t] = r]
          /\ freelist' = freelist \ {r}
          /\ pc' = [pc EXCEPT ![t] = "ka_ref"]
     \/ /\ freelist = {}
        /\ pc' = [pc EXCEPT ![t] = "ka_load"]
        /\ UNCHANGED <<freelist, pg>>
  /\ UNCHANGED <<kmemLock, FREE_PAGES, MAX_PAGES, refcounts, holders, reg>>

\* MUTANT: the count of a fresh page is incremented instead of set to 1.
KallocRefIncrements(t) ==
  /\ pc[t] = "ka_ref"
  /\ refcounts' = [refcounts EXCEPT ![pg[t]] = (@ + 1) % RefMod]
  /\ pc' = [pc EXCEPT ![t] = "ka_load"]
  /\ UNCHANGED <<freelist, kmemLock, FREE_PAGES, MAX_PAGES, holders, pg, reg>>

\* refcounts[r] = 1 under reflock.
KallocRef(t) ==
  /\ pc[t] = "ka_ref"
  /\ refcounts' = [refcounts EXCEPT ![pg[t]] = 1]
  /\ pc' = [pc EXCEPT ![t] = "ka_load"]
  /\ UNCHANGED <<freelist, kmemLock, FREE_PAGES, MAX_PAGES, holders, pg, reg>>

\* FREE_PAGES-- outside every lock, even when r is null: the load ...
KallocLoad(t) ==
  /\ pc[t] = "ka_load"
  /\ reg' = [reg EXCEPT ![t] = FREE_PAGES]
  /\ pc' = [pc EXCEPT ![t] = "ka_store"]
  /\ UNCHANGED <<freelist, kmemLock, FREE_PAGES, MAX_PAGES, refcounts,
                 holders, pg>>

\* MUTANT: the counter is a signed int and can go below zero.
KallocStoreSigned(t) ==
  /\ pc[t] = "ka_store"
  /\ FREE_PAGES' = reg[t] - 1
  /\ holders' = IF pg[t] = NoPage THEN holders
                ELSE [holders EXCEPT ![pg[t]] = {t}]
  /\ pg' = [pg EXCEPT ![t] = NoPage]
  /\ reg' = [reg EXCEPT ![t] = 0]
  /\ pc' = [pc EXCEPT ![t] = "idle"]
  /\ UNCHANGED <<freelist, kmemLock, MAX_PAGES, refcounts>>

\* ... and the store; kalloc() returns and its caller owns the page.
KallocStore(t) ==
  /\ pc[t] = "ka_store"
  /\ FREE_PAGES' = (reg[t] - 1) % CountMod
  /\ holders' = IF pg[t] = NoPage THEN holders
                ELSE [holders EXCEPT ![pg[t]] = {t}]
  /\ pg' = [pg EXCEPT ![t] = NoPage]
  /\ reg' = [reg EXCEPT ![t] = 0]
  /\ pc' = [pc EXCEPT ![t] = "idle"]
  /\ UNCHANGED <<freelist, kmemLock, MAX_PAGES, refcounts>>

-----------------------------------------------------------------------------
\* The steps of kfree().

\* kfree(pa) called directly: the caller owns the only reference (a page-table
\* page in freewalk(), a trapframe, a pipe, an unmapped page in uvmalloc()).
CallKfree(t, p) ==
  /\ pc[t] = "idle" /\ holders[p] = {t}
  /\ holders' = [holders EXCEPT ![p] = {}]
  /\ pg' = [pg EXCEPT ![t] = p]
  /\ pc' = [pc EXCEPT ![t] = "kf_chk"]
  /\ UNCHANGED <<freelist, kmemLock, FREE_PAGES, MAX_PAGES, refcounts, reg>>

\* assert(FREE_PAGES < MAX_PAGES), read without a lock.
KfreeCheck(t) ==
  /\ pc[t] = "kf_chk"
  /\ pc' = [pc EXCEPT ![t] =
              IF FREE_PAGES < MAX_PAGES THEN "kf_push" ELSE "kf_panic"]
  /\ UNCHANGED <<freelist, kmemLock, FREE_PAGES, MAX_PAGES, refcounts,
                 holders, pg, reg>>

\* MUTANT: kfree() forgets to link the page in.
KfreePushNothing(t) ==
  /\ pc[t] = "kf_push" /\ kmemLock = NoProc
  /\ kmemLock' = t
  /\ reg' = [reg EXCEPT ![t] = FREE_PAGES]
  /\ pg' = [pg EXCEPT ![t] = NoPage]
  /\ pc' = [pc EXCEPT ![t] = "kf_store"]
  /\ UNCHANGED <<freelist, FREE_PAGES, MAX_PAGES, refcounts, holders>>

\* acquire(&kmem.lock), link the page in, load FREE_PAGES ...
KfreePush(t) ==
  /\ pc[t] = "kf_push" /\ kmemLock = NoProc
  /\ kmemLock' = t
  /\ freelist' = freelist \cup {pg[t]}
  /\ reg' = [reg EXCEPT ![t] = FREE_PAGES]
  /\ pg' = [pg EXCEPT ![t] = NoPage]
  /\ pc' = [pc EXCEPT ![t] = "kf_store"]
  /\ UNCHANGED <<FREE_PAGES, MAX_PAGES, refcounts, holders>>

\* ... store FREE_PAGES + 1, release(&kmem.lock).
KfreeStore(t) ==
  /\ pc[t] = "kf_store"
  /\ FREE_PAGES' = (reg[t] + 1) % CountMod
  /\ kmemLock' = NoProc
  /\ reg' = [reg EXCEPT ![t] = 0]
  /\ pc' = [pc EXCEPT ![t] = "idle"]
  /\ UNCHANGED <<freelist, MAX_PAGES, refcounts, holders, pg>>

-----------------------------------------------------------------------------
\* Reference counting (each body is one section under reflock).

\* kref_inc(pa): process t, in uvmcopy(), gives its not yet running child c a
\* reference to a page t itself maps.
KrefInc(t, c, p) ==
  /\ pc[t] = "idle" /\ pc[c] = "idle"
  /\ t \in holders[p] /\ c \notin holders[p]
  /\ refcounts' = [refcounts EXCEPT ![p] = (@ + 1) % RefMod]
  /\ holders' = [holders EXCEPT ![p] = @ \cup {c}]
  /\ UNCHANGED <<freelist, kmemLock, FREE_PAGES, MAX_PAGES, pc, pg, reg>>

\* MUTANT: free the page as soon as one reference is left.
KrefDecEarly(t, h, p) ==
  /\ pc[t] = "idle" /\ pc[h] = "idle" /\ h \in holders[p]
  /\ LET ref == (refcounts[p] - 1) % RefMod
     IN  /\ refcounts' = [refcounts EXCEPT ![p] = ref]
         /\ IF ref <= 1
            THEN /\ pc' = [pc EXCEPT ![t] = "kf_chk"]
                 /\ pg' = [pg EXCEPT ![t] = p]
            ELSE UNCHANGED <<pc, pg>>
  /\ holders' = [holders EXCEPT ![p] = @ \ {h}]
  /\ UNCHANGED <<freelist, kmemLock, FREE_PAGES, MAX_PAGES, reg>>

\* kref_dec(pa): thread t drops the reference of process h (itself, or the
\* zombie it reaps) and goes on to kfree(pa) when it read the count as zero.
KrefDec(t, h, p) ==
  /\ pc[t] = "idle" /\ pc[h] = "idle" /\ h \in holders[p]
  /\ LET ref == (refcounts[p] - 1) % RefMod
     IN  /\ refcounts' = [refcounts EXCEPT ![p] = ref]
         /\ IF ref = 0
            THEN /\ pc' = [pc EXCEPT ![t] = "kf_chk"]
                 /\ pg' = [pg EXCEPT ![t] = p]
            ELSE UNCHANGED <<pc, pg>>
  /\ holders' = [holders EXCEPT ![p] = @ \ {h}]
  /\ UNCHANGED <<freelist, kmemLock, FREE_PAGES, MAX_PAGES, reg>>

-----------------------------------------------------------------------------
Step(t) ==
  \/ CallKalloc(t) \/ KallocCheck(t) \/ KallocPop(t) \/ KallocRef(t)
  \/ KallocLoad(t) \/ KallocStore(t)
  \/ KfreeCheck(t) \/ KfreePush(t) \/ KfreeStore(t)
  \/ \E p \in Pages : CallKfree(t, p)
  \/ \E c \in Procs, p \in Pages : KrefInc(t, c, p)
  \/ \E h \in Procs, p \in Pages : KrefDec(t, h, p)

Next == Kinit \/ \E t \in Procs : Step(t)

Spec == Init /\ [][Next]_vars

-----------------------------------------------------------------------------
\* Properties.

\* Every variable has its type; counters stay inside their machine width.
TypeOK ==
  /\ freelist \in SUBSET Pages
  /\ kmemLock \in Procs \cup {NoProc}
  /\ FREE_PAGES \in 0 .. CountMod - 1
  /\ MAX_PAGES \in 0 .. CountMod - 1
  /\ refcounts \in [Pages -> 0 .. RefMod - 1]
  /\ holders \in [Pages -> SUBSET Procs]
  /\ pc \in [Procs -> Points]
  /\ pg \in [Procs -> Pages \cup {NoPage}]
  /\ reg \in [Procs -> 0 .. CountMod - 1]

\* A page has one owner at a time: it is on the free list, or in the hands of
\* one thread inside kalloc()/kfree(), or referenced by processes, never two
\* of these.  This is what kmem.lock, reflock and the "free when the count
\* reaches 0" rule of kref_dec() are for (no double free, no use after free).
Exclusive ==
  /\ \A p \in freelist : holders[p] = {}
  /\ \A t \in Procs : pg[t] # NoPage => /\ pg[t] \notin freelist
                                        /\ holders[pg[t]] = {}
  /\ \A t, u \in Procs : pg[t] # NoPage /\ pg[t] = pg[u] => t = u

\* The count of a page in use is exactly the number of processes that hold a
\* reference, so the uint8 never wraps (kref_inc/kref_dec, kalloc.c:41-56).
CountExact ==
  \A p \in Pages : holders[p] # {} => refcounts[p] = Cardinality(holders[p])

\* No page is lost: after kinit() it is free, held, or in a thread's hands.
NoLeak ==
  Booted => \A p \in Pages : \/ p \in freelist
                             \/ holders[p] # {}
                             \/ \E t \in Procs : pg[t] = p

\* kfree() of a page that is in use never fails assert(FREE_PAGES < MAX_PAGES):
\* with that page off the free list there is room for it.
KfreeNeverPanics == \A t \in Procs : pc[t] # "kf_panic"
=============================================================================
