----------------------------- MODULE Log_proofs -----------------------------
(***************************************************************************)
(* Proofs about Log, for any number of processes, blocks and crashes and   *)
(* any size of the log: the reservation in begin_op() keeps the log from   *)
(* overflowing, nobody sleeps for ever in begin_op(), a quiet system is    *)
(* durable, and the log implements AtomicFS: whatever the disk write a     *)
(* crash comes after, recovery leaves a state between system calls.        *)
(***************************************************************************)
EXTENDS Log, FiniteSetTheorems, TLAPS

Active == {p \in Procs : pc[p] = "in"}

\* No block is twice in the transaction.
Distinct == \A i, j \in DOMAIN lh : lh[i] = lh[j] => i = j

\* Only a pinned block differs from its home block.
Clean == \A b \in Blocks \ pinned : cache[b] = disk[b]

\* Pinned are the blocks of the transaction that are not installed.
Pinned == pinned =
  CASE step = "install" -> {lh[i] : i \in tail .. Len(lh)}
    [] step \in {"clear", "recover"} -> {}
    [] OTHER -> Members(lh)

\* Between its commit and its erasure, the transaction is in the header.
Headed ==
  dhead = IF step \in {"install", "clear", "recover"} THEN lh ELSE <<>>

\* How much of the transaction the log on disk holds (or, in recovery, how much
\* of it is at home again).
Logged == \A i \in DOMAIN lh :
  \/ step \in {"write_head", "install", "clear"}
  \/ step \in {"write_log", "recover"} /\ i < tail
  => dlog[i] = cache[lh[i]]

\* Where commit() and recovery are in the transaction.
Progress ==
  /\ step \in {"write_log", "install"} => tail <= Len(lh)
  /\ step = "write_head" => tail = 1 /\ lh # <<>>
  /\ step = "recover" => tail <= Len(lh) + 1
  /\ step = "done" => lh = <<>>

\* A commit and recovery have the file system to themselves.
Alone ==
  /\ committing <=> step # "none"
  /\ committing => Active = {}
  /\ \A p \in Procs : /\ pc[p] = "boot" <=> step = "recover"
                      /\ pc[p] = "commit" => committing

\* outstanding counts the calls; the last to end leaves no transaction open.
Counted ==
  /\ outstanding = Cardinality(Active)
  /\ outstanding = 0 /\ ~committing => lh = <<>>

\* The blocks a call has written are in the transaction.
Written ==
  \A p \in Procs :
    /\ IsFiniteSet(wrote[p]) /\ Cardinality(wrote[p]) <= OpBlocks
    /\ wrote[p] \subseteq Members(lh)
    /\ pc[p] # "in" => wrote[p] = {}

\* What the calls in progress may still write, as a set: one element for every
\* block that each of them has left.
Reserved == {r \in Procs \X (1 .. OpBlocks) :
               pc[r[1]] = "in" /\ r[2] > Cardinality(wrote[r[1]])}

\* There is room for all of it, and two blocks to spare: enough for the test
\* in log_write(), which is made one block early and before the search.
Room == Len(lh) + Cardinality(Reserved) <= LOGSIZE - 2

\* The inductive invariant.
IInv ==
  /\ LogSound /\ Distinct /\ Clean /\ Pinned /\ Headed /\ Logged /\ Progress
  /\ Alone /\ Counted /\ Written /\ Room /\ NoLostWakeup
-----------------------------------------------------------------------------
\* Sets of calls and sets of reservations are finite.
LEMMA CallsFinite ==
  ASSUME NEW A, A \subseteq Procs
  PROVE  /\ IsFiniteSet(A) /\ Cardinality(A) \in 0 .. Cardinality(Procs)
         /\ Cardinality(A) = 0 <=> A = {}
  <1>1. Cardinality(Procs) \in Nat /\ IsFiniteSet(A)
      BY LogAssumption, FS_Subset, FS_CardinalityType
  <1> QED BY <1>1, LogAssumption, FS_Subset, FS_CardinalityType, FS_EmptySet

LEMMA PairsFinite ==
  ASSUME NEW A, A \subseteq Procs, NEW R, R \subseteq A \X (1 .. OpBlocks)
  PROVE  /\ IsFiniteSet(R) /\ Cardinality(R) \in Nat
         /\ Cardinality(R) <= Cardinality(A) * OpBlocks
  <1>1. IsFiniteSet(1 .. OpBlocks) /\ Cardinality(1 .. OpBlocks) = OpBlocks
      BY LogAssumption, 1 \in Int, OpBlocks \in Int, FS_Interval
  <1>2. /\ IsFiniteSet(A \X (1 .. OpBlocks))
        /\ Cardinality(A \X (1 .. OpBlocks)) = Cardinality(A) * OpBlocks
      BY <1>1, CallsFinite, FS_Product
  <1> QED BY <1>2, FS_Subset, FS_CardinalityType

\* A call that leaves one reserved block unused saves one block.
LEMMA OneSpared ==
  ASSUME NEW k \in Nat, NEW m \in Nat, NEW o \in 0 .. m - 1
  PROVE  k * o <= k * m - k
  <1>1. o <= m - 1 /\ o \in Nat /\ m - 1 \in Nat
      OBVIOUS
  <1>2. k * (m - 1) = k * m - k
      BY <1>1
  <1>3. k * o <= k * (m - 1)
      BY <1>1
  <1> QED BY <1>2, <1>3

LEMMA MembersAppend ==
  ASSUME NEW S, NEW s \in Seq(S), NEW e \in S
  PROVE  Members(Append(s, e)) = Members(s) \cup {e}
  <1> DEFINE t == Append(s, e)
  <1>1. /\ DOMAIN t = 1 .. Len(s) + 1 /\ DOMAIN s = 1 .. Len(s)
        /\ Len(s) \in Nat /\ t[Len(s) + 1] = e
        /\ \A i \in 1 .. Len(s) : t[i] = s[i]
      OBVIOUS
  <1>2. ASSUME NEW y \in Members(t) PROVE y \in Members(s) \cup {e}
      <2>1. PICK i \in 1 .. Len(s) + 1 : y = t[i]
          BY <1>1 DEF Members
      <2>2. i \in 1 .. Len(s) \/ i = Len(s) + 1
          BY <1>1
      <2> QED BY <1>1, <2>1, <2>2 DEF Members
  <1>3. ASSUME NEW y \in Members(s) \cup {e} PROVE y \in Members(t)
      <2>1. CASE y = e
          BY <1>1, <2>1, Len(s) + 1 \in 1 .. Len(s) + 1 DEF Members
      <2>2. CASE y \in Members(s)
          <3>1. PICK i \in 1 .. Len(s) : y = s[i]
              BY <1>1, <2>2 DEF Members
          <3> QED BY <1>1, <3>1, i \in 1 .. Len(s) + 1 DEF Members
      <2> QED BY <2>1, <2>2
  <1> QED BY <1>2, <1>3

\* Nobody begins, ends or writes: the counts stay.
LEMMA Unmoved ==
  ASSUME \A p \in Procs : pc'[p] = "in" <=> pc[p] = "in", wrote' = wrote
  PROVE  Active' = Active /\ Reserved' = Reserved
  BY DEF Active, Reserved

\* The counts as numbers, and the space left.
LEMMA Counts ==
  ASSUME IInv
  PROVE  /\ outstanding \in Nat /\ Cardinality(Reserved) \in Nat
         /\ outstanding = 0 <=> Active = {}
         /\ Len(lh) <= LOGSIZE - 2 /\ ~LogFull
  <1>1. Active \subseteq Procs /\ Reserved \subseteq Procs \X (1 .. OpBlocks)
      BY DEF Active, Reserved
  <1>2. Cardinality(Reserved) \in Nat
      BY <1>1, PairsFinite
  <1>3. outstanding \in Nat /\ (outstanding = 0 <=> Active = {})
      BY <1>1, CallsFinite DEF IInv, Counted
  <1>4. Len(lh) \in Nat
      BY DEF IInv, LogSound, TypeOK
  <1> QED BY <1>2, <1>3, <1>4, LogAssumption DEF IInv, Room, LogFull

\* A new file system satisfies the invariant.
LEMMA InitIInv == Init => IInv
  <1> SUFFICES ASSUME Init PROVE IInv
      OBVIOUS
  <1> USE LogAssumption DEF Init, Members
  <1>0. Active = {} /\ Reserved = {}
      BY DEF Active, Reserved
  <1>1. Cardinality(Procs) \in Nat /\ Cardinality({}) = 0 /\ IsFiniteSet({})
      BY FS_CardinalityType, FS_EmptySet
  <1>2. LogSound
      <2>1. committing \in BOOLEAN
          OBVIOUS
      <2>2. /\ disk \in [Blocks -> Vals] /\ cache \in [Blocks -> Vals]
            /\ dlog \in [1 .. LOGSIZE -> Vals] /\ pinned \subseteq Blocks
            /\ wrote \in [Procs -> SUBSET Blocks]
          OBVIOUS
      <2>3. /\ dhead \in Seq(Blocks) /\ lh \in Seq(Blocks)
            /\ Len(lh) <= LOGSIZE /\ Len(dhead) <= LOGSIZE
          OBVIOUS
      <2>4. pc \in [Procs -> {"out", "asleep", "woken", "in", "commit", "panic",
                              "boot"}]
          OBVIOUS
      <2> QED BY <1>1, <2>1, <2>2, <2>3, <2>4 DEF LogSound, TypeOK, LogFits
  <1>3. Distinct /\ Clean /\ Pinned /\ Headed /\ Logged /\ Progress
      BY DEF Distinct, Clean, Pinned, Headed, Logged, Progress
  <1>4. Alone /\ Counted /\ NoLostWakeup
      BY <1>0, <1>1 DEF Alone, Counted, NoLostWakeup
  <1>5. Written /\ Room
      BY <1>0, <1>1 DEF Written, Room
  <1> QED BY <1>2, <1>3, <1>4, <1>5 DEF IInv

\* begin_op(): a call sleeps, or joins and has all it may write reserved.
LEMMA BeginOpIInv ==
  ASSUME IInv, NEW p \in Procs, BeginOp(p)
  PROVE  IInv'
  <1> USE LogAssumption DEF onDisk, Members, BeginOp
  <1>0. TypeOK /\ LogFits
      BY DEF IInv, LogSound
  <1>a. p \notin Active /\ Active \subseteq Procs /\ wrote[p] = {}
      BY DEF Active, IInv, Written
  <1>b. \/ outstanding' = outstanding /\ pc'[p] # "in"
           /\ Active' = Active /\ Reserved' = Reserved
        \/ /\ ~committing /\ outstanding' = outstanding + 1 /\ pc'[p] = "in"
           /\ Len(lh) + (outstanding + 1) * MAXOPBLOCKS <= LOGSIZE
           /\ Active' = Active \cup {p}
      <2>1. CASE committing \/ Len(lh) + (outstanding + 1) * MAXOPBLOCKS > LOGSIZE
          BY <1>0, <2>1, Unmoved DEF TypeOK
      <2>2. CASE ~(committing \/ Len(lh) + (outstanding + 1) * MAXOPBLOCKS > LOGSIZE)
          <3>1. Active' = Active \cup {p}
              BY <1>0, <2>2 DEF TypeOK, Active
          <3> QED BY <1>0, <2>2, <3>1 DEF TypeOK
      <2> QED BY <2>1, <2>2
  <1>9. Counted' /\ outstanding' \in 0 .. Cardinality(Procs)
      <2>1. outstanding' = Cardinality(Active')
          BY <1>a, <1>b, CallsFinite, FS_AddElement DEF IInv, Counted
      <2>2. Active' \subseteq Procs
          BY DEF Active
      <2>3. outstanding' \in 0 .. Cardinality(Procs)
          BY <2>1, <2>2, CallsFinite
      <2>4. outstanding' = 0 /\ ~committing' => lh' = <<>>
          BY <1>b, Counts DEF IInv, Counted
      <2> QED BY <2>1, <2>3, <2>4 DEF Counted
  <1>1. TypeOK'
      <2>1. committing' \in BOOLEAN
          BY <1>0 DEF TypeOK
      <2> QED BY <1>0, <1>9, <2>1 DEF TypeOK
  <1>2. LogFits'
      BY <1>0 DEF LogFits, TypeOK
  <1>3. Distinct' /\ Clean' /\ Headed' /\ Progress'
      BY DEF IInv, Distinct, Clean, Headed, Progress
  <1>4. Pinned' /\ Logged'
      BY DEF IInv, Pinned, Logged
  <1>8. Alone'
      BY <1>0, <1>b DEF TypeOK, IInv, Alone
  <1>10. Written'
      <2>1. \A q \in Procs : pc'[q] # "in" => pc[q] # "in"
          BY <1>0, <1>b DEF TypeOK
      <2> QED BY <2>1 DEF IInv, Written
  <1>11. Room'
      <2>1. CASE Reserved' = Reserved
          BY <2>1 DEF IInv, Room
      <2>2. CASE /\ ~committing /\ outstanding' = outstanding + 1
                 /\ Len(lh) + (outstanding + 1) * MAXOPBLOCKS <= LOGSIZE
          <3> DEFINE k == outstanding + 1
                     R == Cardinality(Reserved')
          <3>1. R \in Nat /\ R <= k * OpBlocks
              <4>1. Reserved' \subseteq Active' \X (1 .. OpBlocks) /\ Active' \subseteq Procs
                  BY DEF Reserved, Active
              <4> QED BY <1>9, <2>2, <4>1, PairsFinite DEF Counted
          <3>2. k \in Nat /\ k * OpBlocks <= k * MAXOPBLOCKS - k
              <4>1. k \in Nat
                  BY Counts
              <4> HIDE DEF k
              <4> QED BY <4>1, OneSpared
          <3>3. Len(lh) \in Nat /\ k * OpBlocks \in Nat /\ k * MAXOPBLOCKS \in Nat
              BY <1>0, <3>2 DEF TypeOK
          <3>4. CASE outstanding = 0
              <4>1. Len(lh) = 0
                  BY <1>0, <2>2, <3>4 DEF IInv, Counted, TypeOK
              <4>2. k * OpBlocks = OpBlocks
                  BY <3>4
              <4>3. Len(lh) + R <= LOGSIZE - 2
                <5> HIDE DEF k, R
                <5> QED BY <3>1, <4>1, <4>2
              <4> QED BY <4>3 DEF Room
          <3>5. CASE outstanding # 0
              <4>1. k >= 2 /\ Len(lh) + k * MAXOPBLOCKS <= LOGSIZE
                  BY <2>2, <3>5, Counts
              <4>2. Len(lh) + R <= LOGSIZE - 2
                <5> HIDE DEF k, R
                <5> QED BY <3>1, <3>2, <3>3, <4>1
              <4> QED BY <4>2 DEF Room
          <3> QED BY <3>4, <3>5
      <2> QED BY <1>b, <2>1, <2>2
  <1>12. NoLostWakeup'
      <2>1. CASE committing \/ outstanding > 0
          BY <1>b, <2>1, Counts DEF NoLostWakeup
      <2>2. CASE ~committing /\ ~(outstanding > 0)
          <3>1. outstanding = 0 /\ Len(lh) = 0
              BY <1>0, <2>2, Counts DEF IInv, Counted, TypeOK
          <3>2. (outstanding + 1) * MAXOPBLOCKS = MAXOPBLOCKS
              BY <3>1
          <3>3. outstanding' = 1
              BY <2>2, <3>1, <3>2
          <3> QED BY <3>3 DEF NoLostWakeup
      <2> QED BY <2>1, <2>2
  <1> QED BY <1>1, <1>2, <1>3, <1>4, <1>8, <1>9, <1>10, <1>11, <1>12 DEF IInv, LogSound

\* kill() only sends a sleeper back to its test.
LEMMA KillWakesIInv ==
  ASSUME IInv, NEW p \in Procs, KillWakes(p)
  PROVE  IInv'
  <1> USE LogAssumption DEF onDisk, Members, KillWakes
  <1>0. TypeOK /\ LogFits
      BY DEF IInv, LogSound
  <1>a. Active' = Active /\ Reserved' = Reserved
      BY <1>0, Unmoved DEF TypeOK
  <1>1. TypeOK'
      <2>1. committing' \in BOOLEAN
          BY <1>0 DEF TypeOK
      <2> QED BY <1>0, <2>1 DEF TypeOK
  <1>2. LogFits'
      BY <1>0 DEF LogFits, TypeOK
  <1>3. Distinct' /\ Clean' /\ Headed' /\ Progress'
      BY DEF IInv, Distinct, Clean, Headed, Progress
  <1>4. Pinned' /\ Logged'
      BY DEF IInv, Pinned, Logged
  <1>8. Alone' /\ Counted'
      BY <1>0, <1>a DEF TypeOK, IInv, Alone, Counted
  <1>10. Written'
      BY <1>0 DEF TypeOK, IInv, Written
  <1>11. Room'
      BY <1>a DEF IInv, Room
  <1>12. NoLostWakeup'
      BY DEF IInv, NoLostWakeup
  <1> QED BY <1>1, <1>2, <1>3, <1>4, <1>8, <1>10, <1>11, <1>12 DEF IInv, LogSound

\* log_write(): the transaction grows by at most the block its call had
\* reserved.
LEMMA WriteIInv ==
  ASSUME IInv, NEW p \in Procs, NEW b \in Blocks, NEW x \in Vals, Write(p, b, x)
  PROVE  IInv'
  <1> USE LogAssumption DEF onDisk, Write
  <1>0. TypeOK /\ LogFits
      BY DEF IInv, LogSound
  <1>a. /\ pc[p] = "in" /\ pc' = pc /\ pinned' = pinned \cup {b}
        /\ lh' = IF b \in Members(lh) THEN lh ELSE Append(lh, b)
      BY Counts
  <1>b. /\ ~committing /\ step = "none" /\ pinned = Members(lh)
        /\ dhead = <<>>
      BY <1>0, <1>a DEF IInv, Alone, Active, Pinned, Headed, TypeOK
  <1>c. Members(lh') = Members(lh) \cup {b}
      BY <1>0, <1>a, MembersAppend DEF TypeOK
  <1>d. /\ IsFiniteSet(wrote[p]) /\ wrote[p] \subseteq Members(lh)
        /\ wrote' = [wrote EXCEPT ![p] = @ \cup {b}]
        /\ Cardinality(wrote[p] \cup {b}) <= OpBlocks
        /\ Cardinality(wrote[p]) \in Nat
      BY FS_CardinalityType DEF IInv, Written
  <1>e. /\ IsFiniteSet(wrote[p] \cup {b})
        /\ Cardinality(wrote[p] \cup {b}) =
             IF b \in wrote[p] THEN Cardinality(wrote[p]) ELSE Cardinality(wrote[p]) + 1
      BY <1>d, FS_AddElement
  <1>f. Active' = Active /\ outstanding' = outstanding /\ Active # {}
      BY <1>a DEF Active
  <1>11. Room' /\ Len(lh') <= LOGSIZE
      <2>0. Reserved \subseteq Procs \X (1 .. OpBlocks) /\ IsFiniteSet(Reserved)
          <3>1. Reserved \subseteq Procs \X (1 .. OpBlocks)
              BY DEF Reserved
          <3> QED BY <3>1, PairsFinite
      <2>1. Reserved' \subseteq Reserved
          <3> SUFFICES ASSUME NEW r \in Reserved' PROVE r \in Reserved
              OBVIOUS
          <3>1. r \in Procs \X (1 .. OpBlocks) /\ pc[r[1]] = "in" /\ r[1] \in Procs
              BY <1>a DEF Reserved
          <3>2. r[2] > Cardinality(wrote'[r[1]]) /\ r[2] \in Nat
              BY DEF Reserved
          <3>3. CASE r[1] = p
              BY <1>0, <1>d, <1>e, <3>1, <3>2, <3>3 DEF Reserved, TypeOK
          <3>4. CASE r[1] # p
              BY <1>0, <1>d, <3>1, <3>2, <3>4 DEF Reserved, TypeOK
          <3> QED BY <3>3, <3>4
      <2>2. /\ IsFiniteSet(Reserved') /\ Cardinality(Reserved') \in Nat
            /\ Cardinality(Reserved) \in Nat
            /\ Cardinality(Reserved') <= Cardinality(Reserved)
          BY <2>0, <2>1, FS_Subset, FS_CardinalityType
      <2>3. CASE b \in Members(lh)
          BY <1>0, <1>a, <2>2, <2>3, Counts DEF IInv, Room, TypeOK
      <2>4. CASE b \notin Members(lh)
          <3> DEFINE r == <<p, Cardinality(wrote[p]) + 1>>
          <3>1. b \notin wrote[p] /\ Cardinality(wrote[p]) + 1 \in 1 .. OpBlocks
              BY <1>d, <1>e, <2>4
          <3>2. r \in Reserved
              BY <1>a, <1>d, <3>1 DEF Reserved
          <3>3. r \notin Reserved'
              BY <1>0, <1>d, <1>e, <3>1 DEF Reserved, TypeOK
          <3>4. /\ IsFiniteSet(Reserved \ {r})
                /\ Cardinality(Reserved \ {r}) = Cardinality(Reserved) - 1
                /\ Reserved' \subseteq Reserved \ {r}
              <4> HIDE DEF r
              <4>1. Reserved' \subseteq Reserved \ {r}
                  BY <2>1, <3>3
              <4> QED BY <2>0, <3>2, <4>1, FS_RemoveElement
          <3>5. Cardinality(Reserved') <= Cardinality(Reserved) - 1
              BY <3>4, FS_Subset
          <3>6. Len(lh') = Len(lh) + 1 /\ Len(lh) \in Nat
              BY <1>0, <1>a, <2>4 DEF TypeOK
          <3> QED BY <2>2, <3>5, <3>6, Counts DEF IInv, Room
      <2> QED BY <2>3, <2>4
  <1>1. TypeOK'
      <2>1. committing' \in BOOLEAN
          BY <1>0 DEF TypeOK
      <2>2. lh' \in Seq(Blocks)
          BY <1>0, <1>a DEF TypeOK
      <2> QED BY <1>0, <1>a, <1>11, <2>1, <2>2 DEF TypeOK
  <1>2. LogFits'
      BY <1>0, <1>a DEF LogFits
  <1>3. Distinct'
      <2>1. CASE b \in Members(lh)
          BY <1>a, <2>1 DEF IInv, Distinct
      <2>2. CASE b \notin Members(lh)
          BY <1>0, <1>a, <2>2 DEF IInv, Distinct, Members, TypeOK
      <2> QED BY <2>1, <2>2
  <1>4. Clean'
      BY <1>0, <1>a DEF IInv, Clean, TypeOK
  <1>5. Pinned' /\ Headed' /\ Logged' /\ Progress'
      BY <1>a, <1>b, <1>c DEF Pinned, Headed, Logged, Progress
  <1>8. Alone' /\ Counted' /\ NoLostWakeup'
      BY <1>a, <1>f, Counts DEF IInv, Alone, Counted, NoLostWakeup
  <1>10. Written'
      BY <1>0, <1>a, <1>c, <1>d, <1>e DEF IInv, Written, TypeOK
  <1> QED BY <1>1, <1>2, <1>3, <1>4, <1>5, <1>8, <1>10, <1>11 DEF IInv, LogSound

\* end_op(): the last call starts the commit, any other wakes the sleepers.
LEMMA EndOpIInv ==
  ASSUME IInv, NEW p \in Procs, EndOp(p)
  PROVE  IInv'
  <1> USE LogAssumption DEF onDisk, EndOp
  <1>0. TypeOK /\ LogFits
      BY DEF IInv, LogSound
  <1>a. /\ ~committing /\ step = "none" /\ pinned = Members(lh) /\ dhead = <<>>
        /\ p \in Active /\ \A q \in Procs : pc[q] \notin {"boot", "commit"}
      BY <1>0 DEF IInv, Alone, Active, Pinned, Headed, TypeOK
  <1>b. \A q \in Procs : /\ pc'[q] = "in" <=> pc[q] = "in" /\ q # p
                         /\ pc'[q] \notin {"panic", "boot"}
                         /\ outstanding # 1 => pc'[q] \notin {"asleep", "commit"}
      BY <1>0, <1>a DEF TypeOK, Woken, LogFits
  <1>c. Active' = Active \ {p}
      BY <1>b DEF Active
  <1>d. /\ outstanding' = Cardinality(Active') /\ outstanding' \in Nat
        /\ outstanding' = 0 <=> Active' = {}
        /\ outstanding' \in 0 .. Cardinality(Procs)
      <2>1. Active \subseteq Procs /\ Active' \subseteq Procs
          BY DEF Active
      <2>2. Cardinality(Active') = Cardinality(Active) - 1
          BY <1>a, <1>c, <2>1, CallsFinite, FS_RemoveElement
      <2>3. outstanding' = Cardinality(Active')
          BY <2>2 DEF IInv, Counted
      <2>4. /\ Cardinality(Active') \in 0 .. Cardinality(Procs)
            /\ Cardinality(Active') = 0 <=> Active' = {}
          BY <2>1, CallsFinite
      <2>5. Cardinality(Procs) \in Nat
          BY CallsFinite
      <2> HIDE DEF EndOp
      <2> QED BY <2>3, <2>4, <2>5
  <1>e. wrote' = [wrote EXCEPT ![p] = {}] /\ lh' = lh /\ dhead' = dhead
      OBVIOUS
  <1>1. TypeOK'
      <2>1. committing' \in BOOLEAN
          BY <1>0 DEF TypeOK
      <2>2. pc' \in [Procs -> {"out", "asleep", "woken", "in", "commit", "panic",
                               "boot"}]
          BY <1>0 DEF TypeOK, Woken
      <2> QED BY <1>0, <1>d, <2>1, <2>2 DEF TypeOK
  <1>2. LogFits'
      BY <1>b DEF LogFits
  <1>3. Distinct' /\ Clean'
      BY DEF IInv, Distinct, Clean
  <1>4. Pinned' /\ Headed' /\ Logged' /\ Progress'
      BY <1>0, <1>a DEF TypeOK, Pinned, Headed, Logged, Progress
  <1>8. Alone' /\ Counted' /\ NoLostWakeup'
      <2>1. CASE outstanding = 1
          <3>1. outstanding' = 0 /\ committing' /\ step' \in {"done", "write_log"}
              BY <2>1
          <3> QED BY <1>b, <1>d, <3>1 DEF Alone, Counted, NoLostWakeup
      <2>2. CASE outstanding # 1
          <3>1. outstanding' > 0 /\ ~committing' /\ step' = "none"
              BY <1>a, <1>d, <2>2, Counts
          <3> HIDE DEF EndOp
          <3>2. Alone'
              BY <1>a, <1>b, <2>2, <3>1 DEF Alone
          <3> QED BY <1>d, <3>1, <3>2 DEF Counted, NoLostWakeup
      <2> QED BY <2>1, <2>2
  <1>10. Written'
      BY <1>0, <1>b, <1>e, FS_EmptySet DEF IInv, Written, TypeOK
  <1>11. Room'
      <2>1. Reserved' \subseteq Reserved
          BY <1>0, <1>b, <1>e DEF Reserved, TypeOK
      <2>2. Reserved \subseteq Procs \X (1 .. OpBlocks)
          BY DEF Reserved
      <2>3. /\ Cardinality(Reserved') \in Nat
            /\ Cardinality(Reserved') <= Cardinality(Reserved)
          BY <2>1, <2>2, PairsFinite, FS_Subset, FS_CardinalityType
      <2> QED BY <1>0, <1>e, <2>3, Counts DEF IInv, Room, TypeOK
  <1> QED BY <1>1, <1>2, <1>3, <1>4, <1>8, <1>10, <1>11 DEF IInv, LogSound

\* write_log(): one more block of the transaction is in the log on disk.
LEMMA WriteLogIInv ==
  ASSUME IInv, WriteLog
  PROVE  IInv'
  <1> USE LogAssumption DEF Unlogged, Members, WriteLog
  <1>0. TypeOK /\ LogFits
      BY DEF IInv, LogSound
  <1>a. /\ tail \in DOMAIN lh /\ lh[tail] \in Blocks /\ lh' = lh
        /\ cache[lh[tail]] \in Vals /\ tail \in 1 .. LOGSIZE /\ Len(lh) \in Nat
      BY <1>0 DEF TypeOK, IInv, Progress
  <1>b. Active' = Active /\ Reserved' = Reserved
      BY Unmoved
  <1>1. TypeOK'
      <2>1. committing' \in BOOLEAN
          BY <1>0 DEF TypeOK
      <2>2. dlog' \in [1 .. LOGSIZE -> Vals]
          BY <1>0, <1>a DEF TypeOK
      <2>3. tail' \in 1 .. LOGSIZE + 1
          BY <1>0, <1>a DEF TypeOK
      <2> QED BY <1>0, <2>1, <2>2, <2>3 DEF TypeOK
  <1>2. LogFits' /\ Distinct' /\ Clean'
      BY DEF IInv, LogSound, LogFits, Distinct, Clean
  <1>4. Pinned' /\ Headed' /\ Progress'
      BY <1>0, <1>a DEF TypeOK, IInv, Pinned, Headed, Progress
  <1>6. Logged'
      BY <1>0, <1>a DEF TypeOK, IInv, Logged
  <1>8. Alone' /\ Counted' /\ Written' /\ Room' /\ NoLostWakeup'
      BY <1>b DEF IInv, Alone, Counted, Written, Room, NoLostWakeup
  <1> QED BY <1>1, <1>2, <1>4, <1>6, <1>8 DEF IInv, LogSound

\* write_head(): the header names a transaction that is all in the log.
LEMMA WriteHeadIInv ==
  ASSUME IInv, WriteHead
  PROVE  IInv'
  <1> USE LogAssumption DEF Unlogged, Members, WriteHead
  <1>0. TypeOK /\ LogFits
      BY DEF IInv, LogSound
  <1>b. Active' = Active /\ Reserved' = Reserved
      BY Unmoved
  <1>1. TypeOK'
      <2>1. committing' \in BOOLEAN
          BY <1>0 DEF TypeOK
      <2> QED BY <1>0, <2>1 DEF TypeOK
  <1>2. LogFits' /\ Distinct' /\ Clean'
      BY DEF IInv, LogSound, LogFits, Distinct, Clean
  <1>4. Headed' /\ Progress' /\ Logged'
      BY <1>0 DEF TypeOK, IInv, Headed, Progress, Logged
  <1>5. Pinned'
      <2>1. pinned' = Members(lh) /\ tail' = 1 /\ step' = "install" /\ lh' = lh
          BY DEF IInv, Pinned, Progress
      <2>2. DOMAIN lh = 1 .. Len(lh)
          BY <1>0 DEF TypeOK
      <2> QED BY <2>1, <2>2 DEF Pinned
  <1>8. Alone' /\ Counted' /\ Written' /\ Room' /\ NoLostWakeup'
      BY <1>b DEF IInv, Alone, Counted, Written, Room, NoLostWakeup
  <1> QED BY <1>1, <1>2, <1>4, <1>5, <1>8 DEF IInv, LogSound

\* install_trans(): one more block is at home and may leave the cache.
LEMMA InstallIInv ==
  ASSUME IInv, Install
  PROVE  IInv'
  <1> USE LogAssumption DEF Unlogged, Members, Install
  <1>0. TypeOK /\ LogFits
      BY DEF IInv, LogSound
  <1>a. /\ tail \in DOMAIN lh /\ lh[tail] \in Blocks /\ lh' = lh
        /\ dlog[tail] = cache[lh[tail]] /\ dlog[tail] \in Vals
        /\ tail \in 1 .. LOGSIZE /\ Len(lh) \in Nat /\ DOMAIN lh = 1 .. Len(lh)
      BY <1>0 DEF TypeOK, IInv, Progress, Logged
  <1>b. Active' = Active /\ Reserved' = Reserved
      BY Unmoved
  <1>c. cache' = cache
      BY <1>0, <1>a DEF TypeOK
  <1>1. TypeOK'
      <2>1. committing' \in BOOLEAN
          BY <1>0 DEF TypeOK
      <2>2. disk' \in [Blocks -> Vals]
          BY <1>0, <1>a DEF TypeOK
      <2>3. tail' \in 1 .. LOGSIZE + 1
          BY <1>0, <1>a DEF TypeOK
      <2> QED BY <1>0, <1>c, <2>1, <2>2, <2>3 DEF TypeOK
  <1>2. LogFits' /\ Distinct'
      BY DEF IInv, LogSound, LogFits, Distinct
  <1>3. Clean'
      BY <1>0, <1>a, <1>c DEF TypeOK, IInv, Clean
  <1>4. Headed' /\ Progress'
      BY <1>0, <1>a DEF TypeOK, IInv, Headed, Progress
  <1>5. Pinned'
      <2>1. pinned = {lh[i] : i \in tail .. Len(lh)} /\ pinned' = pinned \ {lh[tail]}
          BY DEF IInv, Pinned
      <2>2. \A i \in tail + 1 .. Len(lh) : lh[i] # lh[tail]
          BY <1>a DEF IInv, Distinct
      <2>3. pinned' = {lh[i] : i \in tail + 1 .. Len(lh)}
          BY <1>a, <2>1, <2>2
      <2>4. CASE tail = Len(lh)
          BY <1>a, <2>3, <2>4 DEF Pinned
      <2>5. CASE tail # Len(lh)
          BY <1>a, <2>3, <2>5 DEF Pinned
      <2> QED BY <2>4, <2>5
  <1>6. Logged'
      BY <1>a, <1>c DEF IInv, Logged
  <1>8. Alone' /\ Counted' /\ Written' /\ Room' /\ NoLostWakeup'
      BY <1>b DEF IInv, Alone, Counted, Written, Room, NoLostWakeup
  <1> QED BY <1>1, <1>2, <1>3, <1>4, <1>5, <1>6, <1>8 DEF IInv, LogSound

\* The header is cleared once every block is at home.
LEMMA ClearHeadIInv ==
  ASSUME IInv, ClearHead
  PROVE  IInv'
  <1> USE LogAssumption DEF Members, ClearHead
  <1>0. TypeOK /\ LogFits
      BY DEF IInv, LogSound
  <1>a. Active' = Active /\ Reserved' = Reserved /\ Active = {} /\ Reserved = {}
      <2>1. \A p \in Procs : pc[p] # "in"
          BY DEF IInv, Alone, Active
      <2> QED BY <2>1, Unmoved DEF Active, Reserved
  <1>1. TypeOK'
      <2>1. committing' \in BOOLEAN
          BY <1>0 DEF TypeOK
      <2> QED BY <1>0, <2>1 DEF TypeOK
  <1>2. LogFits' /\ Distinct' /\ Clean'
      BY DEF IInv, LogSound, LogFits, Distinct, Clean
  <1>4. Pinned' /\ Headed' /\ Progress' /\ Logged'
      BY DEF IInv, Pinned, Headed, Progress, Logged
  <1>8. Alone' /\ Counted' /\ NoLostWakeup'
      BY <1>a DEF IInv, Alone, Counted, NoLostWakeup
  <1>10. Written'
      BY <1>a DEF IInv, Written, Active
  <1>11. Room'
      BY <1>a, FS_EmptySet DEF Room
  <1> QED BY <1>1, <1>2, <1>4, <1>8, <1>10, <1>11 DEF IInv, LogSound

\* The commit is over: sleepers and newcomers try again.
LEMMA CommitDoneIInv ==
  ASSUME IInv, CommitDone
  PROVE  IInv'
  <1> USE LogAssumption DEF onDisk, Members, CommitDone
  <1>0. TypeOK /\ LogFits
      BY DEF IInv, LogSound
  <1>a. \A p \in Procs : /\ pc'[p] = "in" <=> pc[p] = "in"
                         /\ pc'[p] \notin {"asleep", "commit", "boot", "panic"}
      BY <1>0 DEF TypeOK, LogFits, Woken, IInv, Alone
  <1>b. Active' = Active /\ Reserved' = Reserved
      BY <1>a, Unmoved
  <1>1. TypeOK'
      <2>1. committing' \in BOOLEAN
          BY <1>0 DEF TypeOK
      <2>2. pc' \in [Procs -> {"out", "asleep", "woken", "in", "commit", "panic",
                               "boot"}]
          BY <1>0 DEF TypeOK, Woken
      <2> QED BY <1>0, <2>1, <2>2 DEF TypeOK
  <1>2. LogFits' /\ Distinct' /\ Clean'
      BY <1>a DEF IInv, LogFits, Distinct, Clean
  <1>4. Pinned' /\ Headed' /\ Progress' /\ Logged'
      BY DEF IInv, Pinned, Headed, Progress, Logged
  <1>8. Alone' /\ Counted' /\ NoLostWakeup'
      BY <1>a, <1>b DEF IInv, Alone, Counted, NoLostWakeup, Progress
  <1>10. Written' /\ Room'
      BY <1>a, <1>b DEF IInv, Written, Room
  <1> QED BY <1>1, <1>2, <1>4, <1>8, <1>10 DEF IInv, LogSound

\* A block that is dropped was as it is on disk.
LEMMA EvictIInv ==
  ASSUME IInv, NEW b \in Blocks, Evict(b)
  PROVE  IInv' /\ cache' = cache
  <1> USE DEF onDisk, Members, Evict
  <1>1. TypeOK /\ cache' = cache
      BY DEF IInv, LogSound, TypeOK, Clean
  <1>2. Active' = Active /\ Reserved' = Reserved
      BY Unmoved
  <1>3. LogSound'
      BY <1>1 DEF IInv, LogSound, TypeOK, LogFits
  <1>4. /\ Distinct' /\ Clean' /\ Headed' /\ Progress' /\ Alone'
        /\ Counted' /\ Written' /\ Room' /\ NoLostWakeup'
      BY <1>1, <1>2 DEF IInv, Distinct, Clean, Headed, Progress, Alone, Counted,
                        Written, Room, NoLostWakeup
  <1>5. Pinned' /\ Logged'
      BY <1>1 DEF IInv, Pinned, Logged
  <1> QED BY <1>1, <1>3, <1>4, <1>5 DEF IInv

\* A crash: recovery starts from what the header says, and nothing else is left.
LEMMA CrashIInv ==
  ASSUME IInv, Crash
  PROVE  IInv'
  <1> USE LogAssumption DEF onDisk, Members, Crash
  <1>0. TypeOK /\ LogFits
      BY DEF IInv, LogSound
  <1>a. Active' = {} /\ Reserved' = {} /\ Cardinality({}) = 0 /\ IsFiniteSet({})
      BY FS_EmptySet DEF Active, Reserved
  <1>b. dhead = lh \/ dhead = <<>>
      BY DEF IInv, Headed
  <1>1. TypeOK'
      <2>1. committing' \in BOOLEAN
          OBVIOUS
      <2>2. Cardinality(Procs) \in Nat
          BY FS_CardinalityType
      <2> QED BY <1>0, <2>1, <2>2 DEF TypeOK
  <1>2. LogFits' /\ Clean' /\ Pinned' /\ Headed'
      BY DEF LogFits, Clean, Pinned, Headed
  <1>3. Distinct'
      BY <1>b DEF IInv, Distinct
  <1>4. Progress' /\ Logged'
      BY <1>0 DEF Progress, Logged, TypeOK
  <1>8. Alone' /\ Counted' /\ NoLostWakeup'
      BY <1>a DEF Alone, Counted, NoLostWakeup
  <1>10. Written'
      BY <1>a DEF Written
  <1>11. Room'
      <2>1. Len(lh) <= LOGSIZE - 2 /\ Len(lh') \in {0, Len(lh)}
          BY <1>b, Counts
      <2> QED BY <1>0, <1>a, <2>1 DEF Room, TypeOK
  <1> QED BY <1>1, <1>2, <1>3, <1>4, <1>8, <1>10, <1>11 DEF IInv, LogSound

\* recover_from_log(): one more block is at home again.
LEMMA RecoverBlockIInv ==
  ASSUME IInv, RecoverBlock
  PROVE  IInv'
  <1> USE LogAssumption DEF Members, RecoverBlock
  <1>0. TypeOK /\ LogFits
      BY DEF IInv, LogSound
  <1>a. /\ tail \in DOMAIN lh /\ lh[tail] \in Blocks /\ lh' = lh
        /\ dlog[tail] \in Vals /\ tail \in 1 .. LOGSIZE /\ Len(lh) \in Nat
      BY <1>0 DEF TypeOK
  <1>b. Active' = Active /\ Reserved' = Reserved
      BY Unmoved
  <1>1. TypeOK'
      <2>1. committing' \in BOOLEAN
          BY <1>0 DEF TypeOK
      <2>2. disk' \in [Blocks -> Vals] /\ cache' \in [Blocks -> Vals]
          BY <1>0, <1>a DEF TypeOK
      <2> QED BY <1>0, <1>a, <2>1, <2>2 DEF TypeOK
  <1>2. LogFits' /\ Distinct'
      BY DEF IInv, LogSound, LogFits, Distinct
  <1>3. Clean'
      BY <1>0, <1>a DEF TypeOK, IInv, Clean
  <1>4. Pinned' /\ Headed' /\ Progress'
      BY <1>0, <1>a DEF TypeOK, IInv, Pinned, Headed, Progress
  <1>6. Logged'
      <2> SUFFICES ASSUME NEW i \in DOMAIN lh, i < tail + 1
                   PROVE  dlog[i] = cache'[lh[i]]
          BY <1>0, <1>a DEF Logged, TypeOK
      <2>1. CASE i = tail
          BY <1>0, <1>a, <2>1 DEF TypeOK
      <2>2. CASE i # tail
          <3>1. lh[i] # lh[tail] /\ lh[i] \in Blocks /\ i < tail
              BY <1>0, <1>a, <2>2 DEF IInv, Distinct, TypeOK
          <3> QED BY <1>0, <1>a, <3>1 DEF IInv, Logged, TypeOK
      <2> QED BY <2>1, <2>2
  <1>8. Alone' /\ Counted' /\ Written' /\ Room' /\ NoLostWakeup'
      BY <1>b DEF IInv, Alone, Counted, Written, Room, NoLostWakeup
  <1> QED BY <1>1, <1>2, <1>3, <1>4, <1>6, <1>8 DEF IInv, LogSound

\* ... and the log is empty again.
LEMMA RecoverDoneIInv ==
  ASSUME IInv, RecoverDone
  PROVE  IInv'
  <1> USE LogAssumption DEF Members, RecoverDone
  <1>0. TypeOK /\ LogFits
      BY DEF IInv, LogSound
  <1>a. Active' = {} /\ Reserved' = {} /\ Cardinality({}) = 0
      BY FS_EmptySet DEF Active, Reserved
  <1>b. outstanding = 0
      BY FS_EmptySet DEF IInv, Alone, Counted
  <1>c. \A p \in Procs : pc[p] # "in"
      BY DEF IInv, Alone
  <1>1. TypeOK'
      <2>1. committing' \in BOOLEAN
          OBVIOUS
      <2> QED BY <1>0, <2>1 DEF TypeOK
  <1>2. LogFits' /\ Distinct' /\ Clean'
      BY DEF IInv, LogFits, Distinct, Clean
  <1>4. Pinned' /\ Headed' /\ Progress' /\ Logged'
      BY DEF IInv, Pinned, Headed, Progress, Logged
  <1>8. Alone' /\ Counted' /\ NoLostWakeup'
      BY <1>a, <1>b DEF Alone, Counted, NoLostWakeup
  <1>10. Written'
      BY <1>c DEF IInv, Written
  <1>11. Room'
      BY <1>a DEF Room
  <1> QED BY <1>1, <1>2, <1>4, <1>8, <1>10, <1>11 DEF IInv, LogSound

-----------------------------------------------------------------------------
\* Every step keeps the invariant.
LEMMA NextIInv == IInv /\ [Next]_vars => IInv'
  <1> SUFFICES ASSUME IInv, [Next]_vars PROVE IInv'
      OBVIOUS
  <1>1. CASE Next
      BY <1>1, BeginOpIInv, KillWakesIInv, WriteIInv, EndOpIInv, WriteLogIInv,
         WriteHeadIInv, InstallIInv, ClearHeadIInv, CommitDoneIInv, EvictIInv,
         CrashIInv, RecoverBlockIInv, RecoverDoneIInv DEF Next
  <1>2. CASE UNCHANGED vars
      <2> USE <1>2 DEF vars
      <2>1. Active' = Active /\ Reserved' = Reserved
          BY Unmoved
      <2>2. LogSound'
          BY DEF IInv, LogSound, TypeOK, LogFits
      <2>3. /\ Distinct' /\ Clean' /\ Headed' /\ Progress' /\ Alone'
            /\ Counted' /\ Written' /\ Room' /\ NoLostWakeup'
          BY <2>1 DEF IInv, Distinct, Clean, Headed, Progress, Alone, Counted,
                      Written, Room, NoLostWakeup, Members
      <2>4. Pinned' /\ Logged'
          BY DEF IInv, Pinned, Logged, Members
      <2> QED BY <2>2, <2>3, <2>4 DEF IInv
  <1> QED BY <1>1, <1>2

\* The inductive invariant holds at all times, crashes and recovery included.
LEMMA Invariance == Spec => []IInv
  <1> QED BY InitIInv, NextIInv, PTL DEF Spec

\* What a crash would leave: what is on disk, unless the header names a
\* transaction; then its blocks as they are in the log.
LEMMA RecoveredIs ==
  ASSUME IInv
  PROVE  /\ step \notin {"install", "clear", "recover"} => Recovered = disk
         /\ step \in {"install", "clear"} => Recovered = cache
         /\ step = "recover" /\ tail > Len(lh) => Recovered = disk
  <1>0. TypeOK
      BY DEF IInv, LogSound
  <1>1. CASE step \notin {"install", "clear", "recover"}
      BY <1>0, <1>1 DEF IInv, Headed, Recovered, TypeOK
  <1>2. CASE step \in {"install", "clear", "recover"}
      <2> DEFINE at(b) == CHOOSE i \in DOMAIN dhead : dhead[i] = b
      <2>1. dhead = lh /\ lh \in Seq(Blocks) /\ Len(lh) \in Nat /\ tail \in Nat \ {0}
          BY <1>0, <1>2 DEF IInv, Headed, TypeOK
      <2>2. \A b \in Blocks :
              IF b \in Members(lh)
              THEN at(b) \in DOMAIN lh /\ lh[at(b)] = b /\ Recovered[b] = dlog[at(b)]
              ELSE Recovered[b] = disk[b]
          BY <2>1 DEF Recovered, Members
      <2>3. \A b \in Blocks : b \notin Members(lh) => disk[b] = cache[b]
          <3>1. pinned \subseteq Members(lh)
              BY <1>2, <2>1 DEF IInv, Pinned, Members
          <3> QED BY <3>1 DEF IInv, Clean
      <2>4. step \in {"install", "clear"} \/ tail > Len(lh) =>
              \A b \in Blocks : Recovered[b] = cache[b]
          <3> SUFFICES ASSUME step \in {"install", "clear"} \/ tail > Len(lh),
                              NEW b \in Blocks
                       PROVE  Recovered[b] = cache[b]
              OBVIOUS
          <3>1. CASE b \notin Members(lh)
              BY <2>2, <2>3, <3>1
          <3>2. CASE b \in Members(lh)
              BY <1>2, <2>1, <2>2, <3>2 DEF IInv, Logged
          <3> QED BY <3>1, <3>2
      <2>5. step = "recover" => cache = disk
          BY <1>0 DEF IInv, Pinned, Clean, TypeOK
      <2>6. Recovered = [b \in Blocks |-> Recovered[b]]
          BY DEF Recovered
      <2> QED BY <1>0, <1>2, <2>4, <2>5, <2>6 DEF TypeOK
  <1> QED BY <1>1, <1>2

\* Writing a block home from the log leaves what a crash would leave.
LEMMA HomeAgain ==
  ASSUME IInv, NEW i \in DOMAIN dhead,
         disk' = [disk EXCEPT ![dhead[i]] = dlog[i]], UNCHANGED <<dhead, dlog>>
  PROVE  Recovered' = Recovered
  <1>1. disk \in [Blocks -> Vals] /\ dhead \in Seq(Blocks)
      BY DEF IInv, LogSound, TypeOK
  <1>2. \A b \in Blocks : (\E j \in DOMAIN dhead : dhead[j] = b) \/ disk'[b] = disk[b]
      BY <1>1
  <1> QED BY <1>2 DEF Recovered

\* The step of AtomicFS that a step of the log is.
LEMMA StepImplements == IInv /\ [Next]_vars => [FS!Next]_FS!vars
  <1> SUFFICES ASSUME IInv, [Next]_vars PROVE [FS!Next]_FS!vars
      OBVIOUS
  <1> DEFINE active == {p \in Procs : pc[p] \in {"in", "panic"}}
             now == IF step = "recover" THEN Recovered ELSE cache
  <1> USE DEF onDisk, Unlogged
  <1>0. TypeOK /\ LogFits
      BY DEF IInv, LogSound
  <1>st. ASSUME active' = active, now' = now, Recovered' = Recovered
         PROVE  [FS!Next]_FS!vars
      BY <1>st DEF FS!vars
  <1>1. ASSUME NEW p \in Procs, BeginOp(p) PROVE [FS!Next]_FS!vars
      <2>1. Recovered' = Recovered /\ now' = now
          BY <1>1 DEF BeginOp, Recovered
      <2>2. CASE active' = active
          BY <1>st, <2>1, <2>2
      <2>3. CASE active' # active
          <3>1. p \notin active /\ active' = active \cup {p}
              BY <1>0, <1>1, <2>3 DEF BeginOp, TypeOK
          <3> QED BY <2>1, <3>1 DEF FS!Next, FS!Begin
      <2> QED BY <2>2, <2>3
  <1>2. ASSUME NEW p \in Procs, KillWakes(p) PROVE [FS!Next]_FS!vars
      <2>1. Recovered' = Recovered /\ now' = now
          BY <1>2 DEF KillWakes, Recovered
      <2>2. active' = active
          BY <1>0, <1>2 DEF KillWakes, TypeOK
      <2> QED BY <1>st, <2>1, <2>2
  <1>3. ASSUME NEW p \in Procs, NEW b \in Blocks, NEW x \in Vals, Write(p, b, x)
        PROVE  [FS!Next]_FS!vars
      <2>1. pc' = pc /\ p \in active /\ active' = active
          BY <1>3, Counts DEF Write
      <2>2. step # "recover"
          BY <1>3 DEF Write, IInv, Alone
      <2>3. Recovered' = Recovered /\ now' = [now EXCEPT ![b] = x]
          BY <1>3, <2>2 DEF Write, Recovered
      <2> QED BY <2>1, <2>3 DEF FS!Next, FS!Write
  <1>4. ASSUME NEW p \in Procs, EndOp(p) PROVE [FS!Next]_FS!vars
      <2>1. step # "recover" /\ step' # "recover"
          BY <1>4 DEF EndOp, IInv, Alone
      <2>2. Recovered' = Recovered /\ now' = now
          BY <1>4, <2>1 DEF EndOp, Recovered
      <2>3. p \in active /\ active' = active \ {p}
          BY <1>0, <1>4 DEF EndOp, TypeOK, Woken
      <2> QED BY <2>2, <2>3 DEF FS!Next, FS!End
  <1>5. ASSUME WriteLog PROVE [FS!Next]_FS!vars
      <2>1. dhead = <<>> /\ dhead' = <<>> /\ step' # "recover"
          BY <1>5 DEF WriteLog, IInv, Headed
      <2>2. Recovered' = Recovered
          BY <1>5, <2>1 DEF WriteLog, Recovered
      <2> QED BY <1>5, <1>st, <2>1, <2>2 DEF WriteLog
  <1>6. ASSUME WriteHead PROVE [FS!Next]_FS!vars
      <2>1. active = {} /\ active' = {}
          BY <1>0, <1>6 DEF WriteHead, IInv, Alone, Active, LogFits
      <2>2. Recovered' = cache
          <3> DEFINE at(b) == CHOOSE i \in DOMAIN lh : lh[i] = b
          <3>1. \A b \in Blocks :
                  Recovered'[b] = IF \E i \in DOMAIN lh : lh[i] = b
                                  THEN dlog[at(b)] ELSE disk[b]
              BY <1>6 DEF WriteHead, Recovered
          <3>2. \A b \in Blocks : Recovered'[b] = cache[b]
              BY <1>6, <3>1 DEF WriteHead, IInv, Logged, Pinned, Clean, Members
          <3>3. Recovered' = [b \in Blocks |-> Recovered'[b]]
              BY DEF Recovered
          <3> QED BY <1>0, <3>2, <3>3 DEF TypeOK
      <2>3. now = cache /\ now' = cache
          BY <1>6 DEF WriteHead
      <2> QED BY <2>1, <2>2, <2>3 DEF FS!Next, FS!Commit
  <1>7. ASSUME Install PROVE [FS!Next]_FS!vars
      <2>1. tail \in DOMAIN dhead /\ dhead = lh /\ dlog[tail] = cache[lh[tail]]
          BY <1>0, <1>7 DEF Install, IInv, Headed, Progress, TypeOK, Logged
      <2>2. Recovered' = Recovered
          BY <1>7, <2>1, HomeAgain DEF Install
      <2>3. cache' = cache /\ step' # "recover"
          BY <1>0, <1>7, <2>1 DEF Install, TypeOK
      <2> QED BY <1>7, <1>st, <2>2, <2>3 DEF Install
  <1>8. ASSUME ClearHead PROVE [FS!Next]_FS!vars
      <2>1. Recovered = cache /\ cache = disk
          BY <1>0, <1>8, RecoveredIs DEF ClearHead, IInv, Pinned, Clean, TypeOK
      <2>2. Recovered' = disk
          BY <1>0, <1>8 DEF ClearHead, Recovered, TypeOK
      <2> QED BY <1>8, <1>st, <2>1, <2>2 DEF ClearHead
  <1>9. ASSUME CommitDone PROVE [FS!Next]_FS!vars
      <2>1. Recovered' = Recovered /\ now' = now
          BY <1>9 DEF CommitDone, Recovered
      <2>2. active' = active
          BY <1>0, <1>9 DEF CommitDone, TypeOK, Woken
      <2> QED BY <1>st, <2>1, <2>2
  <1>10. ASSUME NEW b \in Blocks, Evict(b) PROVE [FS!Next]_FS!vars
      <2>1. cache' = cache
          BY <1>10, EvictIInv
      <2>2. Recovered' = Recovered
          BY <1>10 DEF Evict, Recovered
      <2> QED BY <1>10, <1>st, <2>1, <2>2 DEF Evict
  <1>11. ASSUME Crash PROVE [FS!Next]_FS!vars
      <2>1. Recovered' = Recovered /\ now' = Recovered /\ active' = {}
          BY <1>11 DEF Crash, Recovered
      <2> QED BY <2>1 DEF FS!Next, FS!Crash
  <1>12. ASSUME RecoverBlock PROVE [FS!Next]_FS!vars
      <2>1. tail \in DOMAIN dhead /\ dhead = lh
          BY <1>0, <1>12 DEF RecoverBlock, IInv, Headed, TypeOK
      <2>2. Recovered' = Recovered
          BY <1>12, <2>1, HomeAgain DEF RecoverBlock
      <2> QED BY <1>12, <1>st, <2>2 DEF RecoverBlock
  <1>13. ASSUME RecoverDone PROVE [FS!Next]_FS!vars
      <2>1. Recovered = disk /\ cache = disk
          BY <1>0, <1>13, RecoveredIs DEF RecoverDone, IInv, Pinned, Clean, TypeOK
      <2>2. Recovered' = disk /\ now' = disk
          BY <1>0, <1>13, <2>1 DEF RecoverDone, Recovered, TypeOK
      <2>3. active = {} /\ active' = {}
          BY <1>0, <1>13 DEF RecoverDone, IInv, Alone, LogFits
      <2> QED BY <1>13, <1>st, <2>1, <2>2, <2>3 DEF RecoverDone
  <1>14. CASE UNCHANGED vars
      <2>1. Recovered' = Recovered
          BY <1>14 DEF vars, Recovered
      <2> QED BY <1>14, <1>st, <2>1 DEF vars
  <1> QED BY <1>1, <1>2, <1>3, <1>4, <1>5, <1>6, <1>7, <1>8, <1>9, <1>10, <1>11,
             <1>12, <1>13, <1>14 DEF Next

-----------------------------------------------------------------------------
\* For every size of the log: everything keeps its type, the count of calls is
\* in range, and no call meets the panic "too big a transaction" of
\* log_write(), though that tests one block early and before it looks whether
\* the block is in the transaction already.
THEOREM LogAlwaysSound == Spec => []LogSound
  <1>1. IInv => LogSound
      BY DEF IInv
  <1> QED BY <1>1, Invariance, PTL

\* Nobody sleeps in begin_op() unless a commit or another call is under way,
\* either of which ends with a wakeup.
THEOREM BeginOpWoken == Spec => []NoLostWakeup
  <1>1. IInv => NoLostWakeup
      BY DEF IInv
  <1> QED BY <1>1, Invariance, PTL

\* With no transaction open, the disk has everything the cache has.
THEOREM QuietIsDurable == Spec => []DurableWhenQuiet
  <1>1. IInv => DurableWhenQuiet
      <2> SUFFICES ASSUME IInv, step = "none", lh = <<>> PROVE Recovered = cache
          BY DEF DurableWhenQuiet
      <2>1. cache = disk
          BY DEF IInv, LogSound, TypeOK, Pinned, Clean, Members
      <2> QED BY <2>1, RecoveredIs
  <1> QED BY <1>1, Invariance, PTL

\* The log implements atomic, durable transactions: system calls take effect
\* all at once at the commit, and a crash between any two disk writes, in a
\* commit or in recovery itself, falls back to a commit.
THEOREM CrashAtomicity == Spec => CrashAtomic
  <1>1. Init => FS!Init
      <2> SUFFICES ASSUME Init PROVE FS!Init
          OBVIOUS
      <2>1. Recovered = [b \in Blocks |-> Blank]
          BY DEF Init, Recovered
      <2> QED BY <2>1 DEF Init, FS!Init
  <1> QED BY <1>1, StepImplements, Invariance, PTL DEF Spec, CrashAtomic, FS!Spec
=============================================================================
