---------------------------- MODULE Kalloc_proofs ----------------------------
(***************************************************************************)
(* Proofs about the page allocator for every number of processes (below    *)
(* the range of a reference count) and every number of pages.              *)
(***************************************************************************)
EXTENDS Kalloc, FiniteSetTheorems, TLAPS

\* What a thread's position says about the page it carries.
Carried ==
  \A t \in Procs :
    /\ pc[t] \in {"ka_ref", "kf_chk", "kf_push", "kf_panic"} => pg[t] \in Pages
    /\ pc[t] \in {"idle", "ka_chk", "ka_pop", "kf_store", "ka_panic"}
         => pg[t] = NoPage
    /\ pc[t] \in {"ka_load", "ka_store"} /\ pg[t] # NoPage
         => refcounts[pg[t]] = 1

\* Before kinit() no page is held and no call is in progress.
BeforeBoot ==
  ~Booted => /\ \A t \in Procs : pc[t] = "idle"
             /\ \A p \in Pages : holders[p] = {}

\* The inductive invariant.
IInv == TypeOK /\ Exclusive /\ CountExact /\ NoLeak /\ Carried /\ BeforeBoot

\* Reduction modulo the width of a counter changes nothing below the width.
LEMMA ModSmall ==
  ASSUME NEW m \in Nat, NEW a \in Nat, a < m
  PROVE  a % m = a
  OBVIOUS

\* A counter reduced modulo its width stays inside it.
LEMMA ModRange ==
  ASSUME NEW m \in Nat, m > 0, NEW a \in Int
  PROVE  a % m \in 0 .. m - 1
  OBVIOUS

\* Both counters have at least the values the code assigns outright.
LEMMA Widths ==
  /\ CountMod > 0 /\ 0 \in 0 .. CountMod - 1
  /\ Procs # {} => 1 \in 0 .. RefMod - 1
  <1>1. Cardinality(Pages) \in Nat /\ Cardinality(Procs) \in Nat
      BY KallocAssumption, FS_CardinalityType
  <1>2. Procs # {} => Cardinality(Procs) # 0
      BY KallocAssumption, FS_EmptySet
  <1> QED BY <1>1, <1>2, KallocAssumption

-----------------------------------------------------------------------------
\* The boot state satisfies the invariant.
LEMMA InitIInv == Init => IInv
  BY KallocAssumption, FS_CardinalityType
  DEF Init, IInv, TypeOK, Exclusive, CountExact, NoLeak, Carried, BeforeBoot,
      Booted, Points

\* kinit() hands every page to the free list.
LEMMA KinitIInv == IInv /\ Kinit => IInv'
  <1> SUFFICES ASSUME IInv, Kinit PROVE IInv'
      OBVIOUS
  <1>0. Cardinality(Pages) \in 0 .. CountMod - 1
      BY KallocAssumption, FS_CardinalityType
  <1> QED
      BY <1>0 DEF Kinit, IInv, TypeOK, Exclusive, CountExact, NoLeak, Carried,
          BeforeBoot, Booted, Points

\* The steps that neither move a page nor touch a reference count.
LEMMA QuietIInv ==
  ASSUME IInv, NEW t \in Procs,
         CallKalloc(t) \/ KallocCheck(t) \/ KallocLoad(t) \/ KfreeCheck(t)
           \/ KfreeStore(t)
  PROVE  IInv'
  <1> USE DEF IInv, Booted
  <1>0. (reg[t] + 1) % CountMod \in 0 .. CountMod - 1
      BY ModRange, Widths, KallocAssumption DEF TypeOK
  <1>1. TypeOK'
      BY <1>0, Widths DEF TypeOK, Points, CallKalloc, KallocCheck, KallocLoad,
          KfreeCheck, KfreeStore
  <1>2. UNCHANGED <<freelist, refcounts, holders, pg, MAX_PAGES>>
      BY DEF CallKalloc, KallocCheck, KallocLoad, KfreeCheck, KfreeStore
  <1>3. Exclusive' /\ CountExact' /\ NoLeak'
      BY <1>2 DEF Exclusive, CountExact, NoLeak
  <1>4. Carried' /\ BeforeBoot'
      BY <1>2 DEF TypeOK, Carried, BeforeBoot, CallKalloc, KallocCheck,
          KallocLoad, KfreeCheck, KfreeStore
  <1> QED BY <1>1, <1>3, <1>4

\* kalloc() takes a page off the free list, or finds none.
LEMMA KallocPopIInv ==
  ASSUME IInv, NEW t \in Procs, KallocPop(t)
  PROVE  IInv'
  <1> USE DEF IInv, Booted
  <1>1. TypeOK'
      BY DEF TypeOK, Points, KallocPop
  <1>2. Exclusive'
      BY DEF TypeOK, Exclusive, Carried, KallocPop
  <1>3. CountExact' /\ BeforeBoot'
      BY DEF TypeOK, CountExact, BeforeBoot, KallocPop
  <1>4. NoLeak'
      BY KallocAssumption DEF TypeOK, NoLeak, Carried, KallocPop
  <1>5. Carried'
      BY DEF TypeOK, Carried, KallocPop
  <1> QED BY <1>1, <1>2, <1>3, <1>4, <1>5

\* The page just popped has no holder, so setting its count disturbs nothing.
LEMMA KallocRefIInv ==
  ASSUME IInv, NEW t \in Procs, KallocRef(t)
  PROVE  IInv'
  <1> USE DEF IInv, Booted
  <1>0. pg[t] \in Pages /\ holders[pg[t]] = {}
      BY KallocAssumption DEF KallocRef, Carried, Exclusive
  <1>1. 1 \in 0 .. RefMod - 1
      BY Widths
  <1>2. TypeOK'
      BY <1>0, <1>1 DEF TypeOK, Points, KallocRef
  <1>3. Exclusive' /\ NoLeak' /\ BeforeBoot'
      BY DEF TypeOK, Exclusive, NoLeak, BeforeBoot, KallocRef
  <1>4. CountExact'
      BY <1>0 DEF TypeOK, CountExact, KallocRef
  <1>5. Carried'
      BY <1>0 DEF TypeOK, Carried, KallocRef
  <1> QED BY <1>2, <1>3, <1>4, <1>5

\* kalloc() returns: its caller becomes the only holder, count 1.
LEMMA KallocStoreIInv ==
  ASSUME IInv, NEW t \in Procs, KallocStore(t)
  PROVE  IInv'
  <1> USE DEF IInv, Booted
  <1>0. (reg[t] - 1) % CountMod \in 0 .. CountMod - 1
      BY ModRange, Widths, KallocAssumption DEF TypeOK
  <1>1. TypeOK'
      BY <1>0, Widths DEF TypeOK, Points, KallocStore
  <1>2. Exclusive'
      BY KallocAssumption DEF TypeOK, Exclusive, KallocStore
  <1>3. CountExact'
      <2>1. Cardinality({t}) = 1
          BY FS_Singleton
      <2> QED BY <2>1 DEF TypeOK, CountExact, Carried, KallocStore
  <1>4. NoLeak' /\ BeforeBoot'
      BY KallocAssumption DEF TypeOK, NoLeak, BeforeBoot, KallocStore
  <1>5. Carried'
      BY DEF TypeOK, Carried, Exclusive, KallocStore
  <1> QED BY <1>1, <1>2, <1>3, <1>4, <1>5

\* The only holder gives its page up and starts kfree().
LEMMA CallKfreeIInv ==
  ASSUME IInv, NEW t \in Procs, NEW p \in Pages, CallKfree(t, p)
  PROVE  IInv'
  <1> USE DEF IInv, Booted
  <1>1. TypeOK'
      BY DEF TypeOK, Points, CallKfree
  <1>2. Exclusive'
      BY KallocAssumption DEF TypeOK, Exclusive, Carried, CallKfree
  <1>3. CountExact' /\ BeforeBoot'
      BY DEF TypeOK, CountExact, BeforeBoot, CallKfree
  <1>4. NoLeak'
      BY KallocAssumption DEF TypeOK, NoLeak, Carried, CallKfree
  <1>5. Carried'
      BY DEF TypeOK, Carried, CallKfree
  <1> QED BY <1>1, <1>2, <1>3, <1>4, <1>5

\* kfree() puts on the free list a page nobody holds and nobody else carries.
LEMMA KfreePushIInv ==
  ASSUME IInv, NEW t \in Procs, KfreePush(t)
  PROVE  IInv'
  <1> USE DEF IInv, Booted
  <1>0. pg[t] \in Pages
      BY DEF KfreePush, Carried
  <1>1. TypeOK'
      BY <1>0 DEF TypeOK, Points, KfreePush
  <1>2. Exclusive'
      BY <1>0, KallocAssumption DEF TypeOK, Exclusive, KfreePush
  <1>3. CountExact' /\ BeforeBoot'
      BY DEF TypeOK, CountExact, BeforeBoot, KfreePush
  <1>4. NoLeak'
      BY <1>0, KallocAssumption DEF TypeOK, NoLeak, KfreePush
  <1>5. Carried'
      BY DEF TypeOK, Carried, KfreePush
  <1> QED BY <1>1, <1>2, <1>3, <1>4, <1>5

\* kref_inc() adds one holder and one to the count, which cannot wrap.
LEMMA KrefIncIInv ==
  ASSUME IInv, NEW t \in Procs, NEW c \in Procs, NEW p \in Pages,
         KrefInc(t, c, p)
  PROVE  IInv'
  <1> USE DEF IInv, Booted
  <1>1. IsFiniteSet(holders[p]) /\ holders[p] \cup {c} \in SUBSET Procs
      BY KallocAssumption, FS_Subset DEF TypeOK
  <1>2. /\ Cardinality(holders[p] \cup {c}) = Cardinality(holders[p]) + 1
        /\ Cardinality(holders[p]) \in Nat
        /\ Cardinality(holders[p] \cup {c}) <= Cardinality(Procs)
      <2>1. c \notin holders[p]
          BY DEF KrefInc
      <2>2. Cardinality(holders[p] \cup {c}) = Cardinality(holders[p]) + 1
          BY <1>1, <2>1, FS_AddElement
      <2>3. Cardinality(holders[p]) \in Nat
          BY <1>1, FS_CardinalityType
      <2>4. Cardinality(holders[p] \cup {c}) <= Cardinality(Procs)
          BY <1>1, KallocAssumption, FS_Subset
      <2> QED BY <2>2, <2>3, <2>4
  <1>3. /\ refcounts[p] + 1 = Cardinality(holders[p] \cup {c})
        /\ refcounts[p] + 1 \in 0 .. RefMod - 1
        /\ (refcounts[p] + 1) % RefMod = refcounts[p] + 1
      <2>1. refcounts[p] = Cardinality(holders[p])
          BY DEF KrefInc, CountExact
      <2>2. Cardinality(Procs) \in Nat
          BY KallocAssumption, FS_CardinalityType
      <2> QED BY <1>2, <2>1, <2>2, ModSmall, KallocAssumption
  <1>4. TypeOK'
      BY <1>1, <1>3 DEF TypeOK, KrefInc
  <1>5. Exclusive'
      BY KallocAssumption DEF TypeOK, Exclusive, KrefInc
  <1>6. CountExact'
      BY <1>3 DEF TypeOK, CountExact, KrefInc
  <1>7. NoLeak' /\ BeforeBoot'
      BY DEF TypeOK, NoLeak, BeforeBoot, KrefInc
  <1>8. Carried'
      BY DEF TypeOK, Exclusive, Carried, KrefInc
  <1> QED BY <1>4, <1>5, <1>6, <1>7, <1>8

\* kref_dec() reads zero exactly when it dropped the last reference.
LEMMA KrefDecIInv ==
  ASSUME IInv, NEW t \in Procs, NEW h \in Procs, NEW p \in Pages,
         KrefDec(t, h, p)
  PROVE  IInv'
  <1> USE DEF IInv, Booted
  <1> DEFINE ref == (refcounts[p] - 1) % RefMod
  <1>1. IsFiniteSet(holders[p]) /\ IsFiniteSet(holders[p] \ {h})
      BY KallocAssumption, FS_Subset DEF TypeOK
  <1>2. /\ Cardinality(holders[p] \ {h}) = Cardinality(holders[p]) - 1
        /\ Cardinality(holders[p]) \in Nat
        /\ Cardinality(holders[p] \ {h}) \in Nat
        /\ Cardinality(holders[p] \ {h}) = 0 <=> holders[p] \ {h} = {}
      BY <1>1, FS_RemoveElement, FS_CardinalityType, FS_EmptySet DEF KrefDec
  <1>3. /\ ref = Cardinality(holders[p] \ {h})
        /\ ref \in 0 .. RefMod - 1
        /\ ref = 0 <=> holders[p] \ {h} = {}
      <2>1. /\ refcounts[p] = Cardinality(holders[p])
            /\ refcounts[p] \in 0 .. RefMod - 1
          BY DEF KrefDec, CountExact, TypeOK
      <2>2. refcounts[p] - 1 \in Nat /\ refcounts[p] - 1 < RefMod
          BY <1>2, <2>1, KallocAssumption
      <2>3. ref = refcounts[p] - 1
          BY <2>2, ModSmall, KallocAssumption
      <2> QED BY <1>2, <2>1, <2>3, KallocAssumption
  <1>4. /\ refcounts' = [refcounts EXCEPT ![p] = ref]
        /\ holders' = [holders EXCEPT ![p] = @ \ {h}]
        /\ UNCHANGED <<freelist, kmemLock, FREE_PAGES, MAX_PAGES, reg>>
        /\ pc[t] = "idle" /\ h \in holders[p]
        /\ \/ /\ ref = 0
              /\ pc' = [pc EXCEPT ![t] = "kf_chk"]
              /\ pg' = [pg EXCEPT ![t] = p]
           \/ ref # 0 /\ UNCHANGED <<pc, pg>>
      BY DEF KrefDec
  <1> HIDE DEF ref
  <1>5. TypeOK'
      BY <1>3, <1>4 DEF TypeOK, Points
  <1>6. Exclusive'
      BY <1>3, <1>4, KallocAssumption DEF TypeOK, Exclusive, Carried
  <1>7. CountExact'
      BY <1>3, <1>4 DEF TypeOK, CountExact
  <1>8. NoLeak'
      BY <1>3, <1>4, KallocAssumption DEF TypeOK, NoLeak, Carried
  <1>9. Carried' /\ BeforeBoot'
      BY <1>3, <1>4 DEF TypeOK, Exclusive, Carried, BeforeBoot
  <1> QED BY <1>5, <1>6, <1>7, <1>8, <1>9

\* Every step of every thread preserves the invariant.
LEMMA NextIInv == IInv /\ [Next]_vars => IInv'
  <1> SUFFICES ASSUME IInv, [Next]_vars PROVE IInv'
      OBVIOUS
  <1>1. CASE Kinit
      BY <1>1, KinitIInv
  <1>2. CASE \E t \in Procs : Step(t)
      <2>1. PICK t \in Procs : Step(t)
          BY <1>2
      <2>2. CASE CallKalloc(t) \/ KallocCheck(t) \/ KallocLoad(t)
                   \/ KfreeCheck(t) \/ KfreeStore(t)
          BY <2>2, QuietIInv
      <2>3. CASE KallocPop(t)
          BY <2>3, KallocPopIInv
      <2>4. CASE KallocRef(t)
          BY <2>4, KallocRefIInv
      <2>5. CASE KallocStore(t)
          BY <2>5, KallocStoreIInv
      <2>6. CASE KfreePush(t)
          BY <2>6, KfreePushIInv
      <2>7. CASE \E p \in Pages : CallKfree(t, p)
          BY <2>7, CallKfreeIInv
      <2>8. CASE \E c \in Procs, p \in Pages : KrefInc(t, c, p)
          BY <2>8, KrefIncIInv
      <2>9. CASE \E h \in Procs, p \in Pages : KrefDec(t, h, p)
          BY <2>9, KrefDecIInv
      <2> QED
          BY <2>1, <2>2, <2>3, <2>4, <2>5, <2>6, <2>7, <2>8, <2>9 DEF Step
  <1>3. CASE UNCHANGED vars
      BY <1>3 DEF vars, IInv, TypeOK, Exclusive, CountExact, NoLeak, Carried,
          BeforeBoot, Booted
  <1> QED BY <1>1, <1>2, <1>3 DEF Next

-----------------------------------------------------------------------------
\* The invariant holds in every reachable state of the allocator.
THEOREM IInvHolds == Spec => []IInv
  BY InitIInv, NextIInv, PTL DEF Spec

\* Type correctness of the allocator: FREE_PAGES, refcounts[] and the locals
\* of kalloc()/kfree() stay inside their types (kalloc.c:12-124).
THEOREM TypeCorrect == Spec => []TypeOK
  BY IInvHolds, PTL DEF IInv

\* For any number of processes and pages no page is free and in use at once,
\* and no page is handed out or freed twice (kalloc.c:49-56, 80-124).
THEOREM PagesExclusive == Spec => []Exclusive
  BY IInvHolds, PTL DEF IInv

\* For any number of processes below the range of the uint8, the reference
\* count of a page in use is the number of its holders (kalloc.c:41-56).
THEOREM CountsExact == Spec => []CountExact
  BY IInvHolds, PTL DEF IInv

\* kalloc(), kfree() and kref_dec() never lose a page (kalloc.c:49-124).
THEOREM NoPageLost == Spec => []NoLeak
  BY IInvHolds, PTL DEF IInv
=============================================================================
