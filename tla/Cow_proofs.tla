----------------------------- MODULE Cow_proofs -----------------------------
(***************************************************************************)
(* Proofs about Cow, for any number of processes, page tables, pages and   *)
(* pages of an address space: the page loops of fork(), exec(), sbrk(),    *)
(* exit() and the store fault keep every page table as p->sz says and      *)
(* every reference count exact, what is shared is not writable, and every  *)
(* process sees a memory of its own (PrivateMem).                          *)
(***************************************************************************)
EXTENDS Cow, FiniteSetTheorems, TLAPS

\* The points inside the loops of fork(), sbrk(), exec() and wait(), those of
\* the store fault, those at which one PTE is not counted, and those at which a
\* loop adds pages.
ForkPoints == {"fork_map", "fork_ref", "undo", "undo_clr"}
OwnPoints == {"grow", "dealloc", "dealloc_clr"}
ExecPoints == {"exec", "discard", "discard_clr"}
ReapPoints == {"reap", "reap_clr"}
Loops == ForkPoints \cup OwnPoints \cup ExecPoints \cup ReapPoints
FaultPoints == {"f_alloc", "f_copy", "f_map", "f_drop"}
Pending == {"fork_ref", "undo_clr", "dealloc_clr", "discard_clr", "reap_clr"}
Building == {"fork_map", "grow", "exec"}

Typed ==
  /\ free \subseteq Pages /\ refs \in [Pages -> Nat]
  /\ mem \in [Pages -> Vals \cup {Junk}]
  /\ pt \in [Tables -> [VA -> PTE]]
  /\ table \in [Procs -> Tables \cup {NoTable}]
  /\ sz \in [Procs -> 0 .. NV]
  /\ life \in [Procs -> {"unused", "embryo", "live", "zombie"}]
  /\ pc \in [Procs -> Points]
  /\ tgt \in [Procs -> Tables \cup {NoTable}]
  /\ idx \in [Procs -> 0 .. NV] /\ lim \in [Procs -> 0 .. NV]
  /\ low \in [Procs -> 0 .. NV]
  /\ pg \in [Procs -> Pages \cup {NoPage}]

\* Who has which page table: its process, and the one call that builds it or
\* takes it down.
Places ==
  /\ \A h \in Procs :
       /\ table[h] = NoTable <=> life[h] = "unused"
       /\ pc[h] = "none" <=> life[h] # "live"
       /\ pc[h] \in Loops => tgt[h] # NoTable
       /\ pc[h] \in {"none", "user"} \cup FaultPoints => tgt[h] = NoTable
       /\ pc[h] \in OwnPoints => tgt[h] = table[h]
  /\ \A g, h \in Procs :
       /\ table[g] = table[h] /\ table[h] # NoTable => g = h
       /\ tgt[g] = tgt[h] /\ tgt[h] # NoTable => g = h
       /\ tgt[h] = table[g] /\ tgt[h] # NoTable =>
            \/ g = h /\ pc[h] \in OwnPoints \cup {"panic"}
            \/ life[g] = "embryo" /\ pc[h] \in ForkPoints
            \/ life[g] = "zombie" /\ pc[h] \in ReapPoints

\* The locals of each loop.
Locals ==
  \A h \in Procs :
    /\ pc[h] \in Loops => low[h] <= idx[h] /\ idx[h] <= lim[h]
    /\ pc[h] \in Pending => idx[h] < lim[h]
    /\ pc[h] \notin OwnPoints \cup {"panic"} => low[h] = 0
    /\ pc[h] \in {"fork_map", "fork_ref"} => lim[h] = sz[h]
    /\ pc[h] = "grow" => low[h] = sz[h]
    /\ pc[h] \in FaultPoints => idx[h] < sz[h]
    /\ pg[h] # NoPage <=> pc[h] \in {"f_copy", "f_map", "f_drop"}

\* Which pages a page table maps: those below p->sz, and in a loop those done
\* or still to do.
Exact(h) == \A v \in VA : Valid(table[h], v) <=> v < sz[h]
Shape(h, v) ==
  IF pc[h] \in Building THEN v < idx[h]
  ELSE IF pc[h] = "fork_ref" THEN v <= idx[h]
  ELSE v < low[h] \/ (idx[h] <= v /\ v < lim[h])
Shapes ==
  /\ \A h \in Procs :
       /\ pc[h] \in Loops => \A v \in VA : Valid(tgt[h], v) <=> Shape(h, v)
       /\ life[h] = "live" /\ pc[h] \notin OwnPoints \cup {"panic"} => Exact(h)
       /\ life[h] = "zombie" /\ (\A g \in Procs : tgt[g] # table[h]) => Exact(h)
  /\ \A t \in FreeTables, v \in VA : ~Valid(t, v)

\* uvmcopy() gives the child the parent's pages, and nobody may write to the one
\* whose count is still to be raised.
Copies ==
  \A h \in Procs :
    /\ pc[h] \in {"fork_map", "fork_ref"} =>
         \A v \in VA : v < idx[h] => pt[tgt[h]][v].pa = pt[table[h]][v].pa
    /\ pc[h] = "fork_ref" =>
         /\ pt[tgt[h]][idx[h]].pa = pt[table[h]][idx[h]].pa
         /\ ~pt[tgt[h]][idx[h]].W /\ ~pt[table[h]][idx[h]].W

\* The page usertrap() has just allocated is nobody else's.
Fresh ==
  \A h \in Procs : pc[h] \in {"f_copy", "f_map"} =>
    Mappings(pg[h]) = {} /\ Carriers(pg[h]) = {h}

TableInv == Typed /\ Places /\ Locals /\ Shapes /\ Copies
PageInv == CountExact /\ SoleWriter /\ Fresh
IInv == TableInv /\ PageInv

-----------------------------------------------------------------------------
\* The points, one by one.

LEMMA ClearingIs ==
  /\ Clearing["undo"] = "undo_clr" /\ Clearing["dealloc"] = "dealloc_clr"
  /\ Clearing["discard"] = "discard_clr" /\ Clearing["reap"] = "reap_clr"
  BY DEF Clearing, Unmapping

LEMMA ClearPoints ==
  {Clearing[k] : k \in Unmapping} = {"undo_clr", "dealloc_clr", "discard_clr", "reap_clr"}
  BY ClearingIs DEF Unmapping

LEMMA PointsAre ==
  Points = {"none", "user", "panic", "f_alloc", "f_copy", "f_map", "f_drop",
            "fork_map", "fork_ref", "grow", "exec", "undo", "dealloc",
            "discard", "reap", "undo_clr", "dealloc_clr", "discard_clr", "reap_clr"}
  BY ClearPoints DEF Points, Unmapping

LEMMA UncountedIs ==
  Uncounted = {<<tgt[h], idx[h]>> : h \in {g \in Procs : pc[g] \in Pending}}
  <1>1. \A g \in Procs : pc[g] \in Pending <=>
          pc[g] \in {"fork_ref"} \cup {Clearing[k] : k \in Unmapping}
      BY ClearPoints DEF Pending
  <1> QED BY <1>1 DEF Uncounted

-----------------------------------------------------------------------------
\* Types.

LEMMA PTEType ==
  /\ NoPTE \in PTE
  /\ \A p \in Pages : [pa |-> p, W |-> TRUE, U |-> TRUE, COW |-> FALSE] \in PTE
  /\ \A v \in VA, p \in Pages : ImagePTE(v, p) \in PTE
  BY DEF NoPTE, PTE, ImagePTE

LEMMA PTEChange ==
  ASSUME NEW e \in PTE, NEW p \in Pages
  PROVE  [e EXCEPT !.pa = p, !.W = TRUE, !.COW = FALSE] \in PTE
  BY DEF PTE

LEMMA PTEShared ==
  ASSUME NEW e \in PTE
  PROVE  [e EXCEPT !.W = FALSE, !.COW = TRUE] \in PTE
  BY DEF PTE

LEMMA TypedAlloc ==
  ASSUME Typed, NEW p \in Pages, KrefDec(p), refs[p] # 0
  PROVE  /\ free' \subseteq Pages /\ refs' \in [Pages -> Nat]
         /\ mem' \in [Pages -> Vals \cup {Junk}]
  <1>1. refs[p] \in Nat /\ refs[p] - 1 \in Nat
      BY DEF Typed
  <1>2. refs' \in [Pages -> Nat]
      BY <1>1 DEF Typed, KrefDec
  <1>3. CASE refs[p] = 1
      BY <1>2, <1>3 DEF Typed, KrefDec
  <1>4. CASE refs[p] # 1
      BY <1>2, <1>4 DEF Typed, KrefDec
  <1> QED BY <1>3, <1>4

LEMMA TypedZombie ==
  ASSUME Typed, NEW h \in Procs, BecomeZombie(h)
  PROVE  Typed'
  BY PointsAre, CowAssumption DEF BecomeZombie, Typed, alloc

LEMMA TypedReturn ==
  ASSUME Typed, NEW h \in Procs, Return(h)
  PROVE  /\ pc' \in [Procs -> Points] /\ tgt' \in [Procs -> Tables \cup {NoTable}]
         /\ idx' \in [Procs -> 0 .. NV] /\ lim' \in [Procs -> 0 .. NV]
         /\ low' \in [Procs -> 0 .. NV] /\ pg' \in [Procs -> Pages \cup {NoPage}]
  BY PointsAre, CowAssumption DEF Typed, Return

LEMMA TypedFault ==
  ASSUME Typed, NEW h \in Procs, NEW v \in VA, NEW x \in Vals,
         \/ UserStore(h, v, x) \/ Copyout(h, v, x) \/ StoreFault(h, v)
  PROVE  Typed'
  <1>1. CASE UserStore(h, v, x) \/ Copyout(h, v, x)
      BY <1>1 DEF UserStore, Copyout, Typed, proc, local
  <1>2. CASE StoreFault(h, v)
      <2>1. CASE BecomeZombie(h)
          BY <2>1, TypedZombie
      <2>2. CASE ~BecomeZombie(h)
          <3>1. /\ pc' = [pc EXCEPT ![h] = "f_alloc"]
                /\ idx' = [idx EXCEPT ![h] = v]
                /\ UNCHANGED <<alloc, pt, proc, tgt, lim, low, pg>>
              BY <1>2, <2>2 DEF StoreFault
          <3>2. "f_alloc" \in Points /\ v \in 0 .. NV
              BY PointsAre, CowAssumption DEF VA
          <3> QED BY <3>1, <3>2 DEF Typed, alloc, proc
      <2> QED BY <2>1, <2>2
  <1> QED BY <1>1, <1>2

\* What a call of h may rely on.
LEMMA Here ==
  ASSUME Typed, Places, Locals, NEW h \in Procs, pc[h] # "none"
  PROVE  /\ life[h] = "live" /\ table[h] \in Tables
         /\ pc[h] \in Loops => tgt[h] \in Tables
         /\ pc[h] \in Pending => idx[h] \in VA
         /\ pc[h] \in FaultPoints => idx[h] \in VA
         /\ pc[h] \in Loops /\ idx[h] < lim[h] => idx[h] \in VA
         /\ pc[h] \in {"f_copy", "f_map", "f_drop"} => pg[h] \in Pages
  <1>1. life[h] = "live" /\ table[h] # NoTable
      BY DEF Places
  <1>2. table[h] \in Tables
      BY <1>1 DEF Typed
  <1>3. pc[h] \in Loops => tgt[h] \in Tables
      BY DEF Places, Typed
  <1>4. idx[h] \in 0 .. NV /\ lim[h] \in 0 .. NV /\ sz[h] \in 0 .. NV /\ NV \in Nat
      BY CowAssumption DEF Typed
  <1>5. /\ pc[h] \in Pending => idx[h] < lim[h]
        /\ pc[h] \in FaultPoints => idx[h] < sz[h]
      BY DEF Locals
  <1>6. pc[h] \in {"f_copy", "f_map", "f_drop"} => pg[h] \in Pages
      BY DEF Locals, Typed
  <1> QED BY <1>1, <1>2, <1>3, <1>4, <1>5, <1>6 DEF VA

LEMMA TypedKalloc ==
  ASSUME Typed, NEW q \in Pages, NEW x \in Vals \cup {Junk}, Kalloc(q, x)
  PROVE  /\ free' \subseteq Pages /\ refs' \in [Pages -> Nat]
         /\ mem' \in [Pages -> Vals \cup {Junk}]
  BY DEF Typed, Kalloc

LEMMA TypedPTE ==
  ASSUME Typed, NEW t \in Tables, NEW v \in VA, NEW e \in PTE,
         pt' = [pt EXCEPT ![t][v] = e]
  PROVE  pt' \in [Tables -> [VA -> PTE]]
  BY DEF Typed

LEMMA TypedFaultAlloc ==
  ASSUME Typed, Places, Locals, NEW h \in Procs, FaultAlloc(h)
  PROVE  Typed'
  <1>1. ASSUME NEW q \in free, Kalloc(q, Junk), pg' = [pg EXCEPT ![h] = q],
               pc' = [pc EXCEPT ![h] = "f_copy"],
               UNCHANGED <<pt, proc, tgt, idx, lim, low>>
        PROVE  Typed'
      <2>1. q \in Pages
          BY DEF Typed
      <2>2. /\ free' \subseteq Pages /\ refs' \in [Pages -> Nat]
            /\ mem' \in [Pages -> Vals \cup {Junk}]
          BY <1>1, <2>1, TypedKalloc
      <2> QED BY <1>1, <2>1, <2>2, PointsAre DEF Typed, proc
  <1>2. CASE BecomeZombie(h)
      BY <1>2, TypedZombie
  <1>3. CASE Panic(h)
      BY <1>3, PointsAre DEF Typed, Panic, alloc, proc, local
  <1> QED BY <1>1, <1>2, <1>3 DEF FaultAlloc

\* The page a fault works on, and the page a loop looks at.
LEMMA FaultPage ==
  ASSUME Typed, Places, Locals, Shapes, NEW h \in Procs, pc[h] \in FaultPoints
  PROVE  pt[table[h]][idx[h]].pa \in Pages
  <1>1. pc[h] # "none" /\ pc[h] \notin OwnPoints \cup {"panic"}
      BY DEF FaultPoints, OwnPoints
  <1>2. life[h] = "live" /\ table[h] \in Tables /\ idx[h] \in VA /\ idx[h] < sz[h]
      BY <1>1, Here DEF Locals
  <1>3. Valid(table[h], idx[h])
      BY <1>1, <1>2 DEF Shapes, Exact
  <1> QED BY <1>2, <1>3 DEF Valid, Typed, PTE

LEMMA LoopPage ==
  ASSUME Typed, Places, Locals, Shapes, NEW h \in Procs, pc[h] \in Loops
  PROVE  /\ pc[h] \in Pending => pt[tgt[h]][idx[h]].pa \in Pages
         /\ pc[h] \in Unmapping /\ idx[h] < lim[h] => pt[tgt[h]][idx[h]].pa \in Pages
         /\ pc[h] \in Building /\ idx[h] < lim[h] => pt[tgt[h]][idx[h]].pa = NoPage
  <1>1. pc[h] # "none"
      BY DEF Loops, ForkPoints, OwnPoints, ExecPoints, ReapPoints
  <1>2. tgt[h] \in Tables /\ (pc[h] \in Pending => idx[h] < lim[h])
      BY <1>1, Here DEF Locals
  <1>3. \A v \in VA : Valid(tgt[h], v) <=> Shape(h, v)
      BY DEF Shapes
  <1>4. idx[h] < lim[h] => idx[h] \in VA
      BY <1>1, Here
  <1>5. CASE idx[h] < lim[h]
      <2>1. pt[tgt[h]][idx[h]] \in PTE /\ idx[h] \in Nat
          BY <1>2, <1>4, <1>5, CowAssumption DEF Typed, VA
      <2>2. Shape(h, idx[h]) <=> pc[h] \notin Building
          BY <1>5, <2>1 DEF Shape, Building
      <2>3. /\ pc[h] \in Pending => pc[h] \notin Building
            /\ pc[h] \in Unmapping => pc[h] \notin Building
          BY DEF Pending, Building, Unmapping
      <2>4. Valid(tgt[h], idx[h]) <=> pc[h] \notin Building
          BY <1>3, <1>4, <1>5, <2>2
      <2> QED BY <1>2, <1>4, <1>5, <2>1, <2>3, <2>4 DEF Valid, PTE
  <1>6. CASE ~(idx[h] < lim[h])
      BY <1>2, <1>6 DEF Pending, Unmapping, Building
  <1> QED BY <1>5, <1>6

\* Where a fork copies from.
LEMMA ForkPage ==
  ASSUME Typed, Places, Locals, Shapes, NEW h \in Procs,
         pc[h] = "fork_ref" \/ (pc[h] = "fork_map" /\ idx[h] < lim[h])
  PROVE  pt[table[h]][idx[h]].pa \in Pages
  <1>1. /\ pc[h] # "none" /\ pc[h] \notin OwnPoints \cup {"panic"}
        /\ pc[h] \in Loops /\ pc[h] \in {"fork_map", "fork_ref"}
        /\ pc[h] = "fork_ref" => pc[h] \in Pending
      BY DEF Loops, ForkPoints, OwnPoints, Pending
  <1>2. idx[h] < lim[h] /\ lim[h] = sz[h]
      BY <1>1 DEF Locals
  <1>3. life[h] = "live" /\ table[h] \in Tables /\ idx[h] \in VA
      BY <1>1, <1>2, Here
  <1>4. Valid(table[h], idx[h])
      BY <1>1, <1>2, <1>3 DEF Shapes, Exact
  <1> QED BY <1>3, <1>4 DEF Valid, Typed, PTE

LEMMA TypedFaultRest ==
  ASSUME Typed, Places, Locals, Shapes, NEW h \in Procs,
         FaultCopy(h) \/ FaultMap(h) \/ (FaultDrop(h) /\ refs[pg[h]] # 0)
  PROVE  Typed'
  <1>1. pc[h] # "none" /\ pc[h] \in FaultPoints /\ pg[h] \in Pages
      <2>1. pc[h] \in {"f_copy", "f_map", "f_drop"}
          BY DEF FaultCopy, FaultMap, FaultDrop
      <2> QED BY <2>1, Here DEF FaultPoints
  <1>2. table[h] \in Tables /\ idx[h] \in VA /\ pt[table[h]][idx[h]].pa \in Pages
      BY <1>1, Here, FaultPage
  <1>3. CASE FaultCopy(h)
      <2>1. mem[pt[table[h]][idx[h]].pa] \in Vals \cup {Junk}
          BY <1>2 DEF Typed
      <2>2. mem' \in [Pages -> Vals \cup {Junk}]
          BY <1>1, <1>3, <2>1 DEF FaultCopy, Typed
      <2>3. pc' \in [Procs -> Points]
          BY <1>3, PointsAre DEF FaultCopy, Typed
      <2> QED BY <1>3, <2>2, <2>3 DEF FaultCopy, Typed, proc, local
  <1>4. CASE FaultMap(h)
      <2>1. PICK t \in Tables, v \in VA : t = table[h] /\ v = idx[h]
          BY <1>2
      <2>2. PICK e : e = [pt[t][v] EXCEPT !.pa = pg[h], !.W = TRUE, !.COW = FALSE]
          OBVIOUS
      <2>3. e \in PTE
          <3>1. pt[t][v] \in PTE
              BY DEF Typed
          <3> QED BY <1>1, <2>2, <3>1, PTEChange
      <2>4. pt' = [pt EXCEPT ![t][v] = e]
          BY <1>4, <2>1, <2>2 DEF FaultMap, Typed
      <2>5. pt' \in [Tables -> [VA -> PTE]]
          BY <2>3, <2>4, TypedPTE
      <2>6. pc' \in [Procs -> Points] /\ pg' \in [Procs -> Pages \cup {NoPage}]
          BY <1>2, <1>4, PointsAre DEF FaultMap, Typed
      <2> QED BY <1>4, <2>5, <2>6 DEF FaultMap, Typed, alloc, proc
  <1>5. CASE FaultDrop(h) /\ refs[pg[h]] # 0
      <2>1. KrefDec(pg[h]) /\ Return(h) /\ UNCHANGED <<pt, proc>>
          BY <1>5 DEF FaultDrop
      <2>2. /\ free' \subseteq Pages /\ refs' \in [Pages -> Nat]
            /\ mem' \in [Pages -> Vals \cup {Junk}]
          BY <1>1, <1>5, <2>1, TypedAlloc
      <2> QED BY <2>1, <2>2, TypedReturn DEF Typed, proc
  <1> QED BY <1>3, <1>4, <1>5

LEMMA TypedFork ==
  ASSUME Typed, Places, Locals, Shapes, NEW h \in Procs,
         \/ \E c \in Procs, t \in Tables : ForkStart(h, c, t)
         \/ ForkMap(h) \/ ForkRef(h) \/ ForkDone(h)
  PROVE  Typed'
  <1>1. ASSUME NEW c \in Procs, NEW t \in Tables, ForkStart(h, c, t) PROVE Typed'
      BY <1>1, PointsAre, CowAssumption DEF ForkStart, Typed, alloc
  <1>2. CASE ForkMap(h)
      <2>1. pc[h] = "fork_map" /\ idx[h] < lim[h] /\ pc[h] # "none" /\ pc[h] \in Loops
          BY <1>2 DEF ForkMap, Loops, ForkPoints
      <2>2. table[h] \in Tables /\ tgt[h] \in Tables /\ idx[h] \in VA
          BY <2>1, Here
      <2>3. PICK s \in Tables, t \in Tables, v \in VA :
              s = table[h] /\ t = tgt[h] /\ v = idx[h]
          BY <2>2
      <2>4. PICK e : e = [pt[s][v] EXCEPT !.W = FALSE, !.COW = TRUE]
          OBVIOUS
      <2>5. e \in PTE
          <3>1. pt[s][v] \in PTE
              BY DEF Typed
          <3> QED BY <2>4, <3>1, PTEShared
      <2>6. \/ pt' = [pt EXCEPT ![s][v] = e, ![t][v] = e]
            \/ pt' = [pt EXCEPT ![s][v] = e]
          BY <1>2, <2>3, <2>4 DEF ForkMap
      <2>7. pt' \in [Tables -> [VA -> PTE]]
          <3>1. CASE pt' = [pt EXCEPT ![s][v] = e]
              BY <2>5, <3>1, TypedPTE
          <3>2. CASE pt' = [pt EXCEPT ![s][v] = e, ![t][v] = e]
              BY <2>5, <3>2 DEF Typed
          <3> QED BY <2>6, <3>1, <3>2
      <2>8. pc' \in [Procs -> Points] /\ idx' \in [Procs -> 0 .. NV]
            /\ lim' \in [Procs -> 0 .. NV]
          BY <1>2, PointsAre, CowAssumption DEF ForkMap, Typed
      <2> QED BY <1>2, <2>7, <2>8 DEF ForkMap, Typed, alloc, proc
  <1>3. CASE ForkRef(h)
      <2>1. pc[h] = "fork_ref" /\ pc[h] # "none" /\ pc[h] \in Pending
          BY <1>3 DEF ForkRef, Pending
      <2>2. pt[table[h]][idx[h]].pa \in Pages /\ idx[h] \in VA
          BY <2>1, Here, ForkPage
      <2>3. refs' \in [Pages -> Nat]
          BY <1>3, <2>2 DEF ForkRef, Typed
      <2>4. idx[h] + 1 \in 0 .. NV
          BY <2>2, CowAssumption DEF VA
      <2>5. pc' \in [Procs -> Points] /\ idx' \in [Procs -> 0 .. NV]
          BY <1>3, <2>4, PointsAre DEF ForkRef, Typed
      <2> QED BY <1>3, <2>3, <2>5 DEF ForkRef, Typed, proc
  <1>4. CASE ForkDone(h)
      <2>1. PICK c \in Procs : /\ sz' = [sz EXCEPT ![c] = sz[h]]
                               /\ life' = [life EXCEPT ![c] = "live"]
                               /\ pc' = [pc EXCEPT ![h] = "user", ![c] = "user"]
          BY <1>4 DEF ForkDone
      <2>2. /\ sz' \in [Procs -> 0 .. NV] /\ pc' \in [Procs -> Points]
            /\ life' \in [Procs -> {"unused", "embryo", "live", "zombie"}]
          BY <2>1, PointsAre DEF Typed
      <2> QED BY <1>4, <2>2, CowAssumption DEF ForkDone, Typed, alloc
  <1> QED BY <1>1, <1>2, <1>3, <1>4

LEMMA TypedUnmap ==
  ASSUME Typed, Places, Locals, Shapes, NEW h \in Procs,
         \/ UnmapDec(h) /\ refs[pt[tgt[h]][idx[h]].pa] # 0
         \/ UnmapClear(h) \/ FreeProc(h) \/ DeallocDone(h) \/ DiscardDone(h)
  PROVE  Typed'
  <1>1. CASE UnmapDec(h) /\ refs[pt[tgt[h]][idx[h]].pa] # 0
      <2>1. /\ pc[h] \in Unmapping /\ idx[h] < lim[h] /\ pc[h] \in Loops
            /\ KrefDec(pt[tgt[h]][idx[h]].pa)
          BY <1>1 DEF UnmapDec, Unmapping, Loops, ForkPoints, OwnPoints, ExecPoints, ReapPoints
      <2>2. /\ free' \subseteq Pages /\ refs' \in [Pages -> Nat]
            /\ mem' \in [Pages -> Vals \cup {Junk}]
          BY <1>1, <2>1, LoopPage, TypedAlloc
      <2>3. Clearing[pc[h]] \in Points
          BY <2>1 DEF Points
      <2>4. pc' \in [Procs -> Points]
          BY <1>1, <2>3 DEF UnmapDec, Typed
      <2> QED BY <1>1, <2>2, <2>4 DEF UnmapDec, Typed, proc, local
  <1>2. CASE UnmapClear(h)
      <2>1. PICK k \in Unmapping :
              /\ pc[h] = Clearing[k]
              /\ pt' = [pt EXCEPT ![tgt[h]][idx[h]] = NoPTE]
              /\ idx' = [idx EXCEPT ![h] = @ + 1]
              /\ pc' = [pc EXCEPT ![h] = k]
              /\ UNCHANGED <<alloc, proc, tgt, lim, low, pg>>
          BY <1>2 DEF UnmapClear
      <2>2. pc[h] \in Pending /\ pc[h] \in Loops /\ pc[h] # "none"
          BY <2>1, ClearingIs DEF Unmapping, Pending, Loops, ForkPoints, OwnPoints,
             ExecPoints, ReapPoints
      <2>3. tgt[h] \in Tables /\ idx[h] \in VA
          BY <2>2, Here
      <2>4. idx[h] + 1 \in 0 .. NV
          BY <2>3, CowAssumption DEF VA
      <2>5. pt' \in [Tables -> [VA -> PTE]]
          BY <2>1, <2>3, PTEType, TypedPTE
      <2>6. k \in Points
          BY DEF Points
      <2>7. pc' \in [Procs -> Points] /\ idx' \in [Procs -> 0 .. NV]
          BY <2>1, <2>4, <2>6 DEF Typed
      <2> QED BY <2>1, <2>5, <2>7 DEF Typed, alloc, proc
  <1>3. CASE FreeProc(h)
      <2>1. PICK c \in Procs : /\ life' = [life EXCEPT ![c] = "unused"]
                               /\ table' = [table EXCEPT ![c] = NoTable]
                               /\ sz' = [sz EXCEPT ![c] = 0]
          BY <1>3 DEF FreeProc
      <2>2. /\ sz' \in [Procs -> 0 .. NV] /\ table' \in [Procs -> Tables \cup {NoTable}]
            /\ life' \in [Procs -> {"unused", "embryo", "live", "zombie"}]
          BY <2>1, CowAssumption DEF Typed
      <2>3. Return(h) /\ UNCHANGED <<alloc, pt>>
          BY <1>3 DEF FreeProc
      <2> QED BY <2>2, <2>3, TypedReturn DEF Typed, alloc
  <1>4. CASE DeallocDone(h)
      <2>1. sz' \in [Procs -> 0 .. NV]
          BY <1>4 DEF DeallocDone, Typed
      <2>2. Return(h) /\ UNCHANGED <<alloc, pt, table, life>>
          BY <1>4 DEF DeallocDone
      <2> QED BY <2>1, <2>2, TypedReturn DEF Typed, alloc
  <1>5. CASE DiscardDone(h)
      <2>1. Return(h) /\ UNCHANGED <<alloc, pt, proc>>
          BY <1>5 DEF DiscardDone
      <2> QED BY <2>1, TypedReturn DEF Typed, alloc, proc
  <1> QED BY <1>1, <1>2, <1>3, <1>4, <1>5

\* A new page in the table a loop builds.
LEMMA TypedNewPage ==
  ASSUME Typed, Places, Locals, NEW h \in Procs, pc[h] \in Building, idx[h] < lim[h],
         NEW q \in free, NEW x \in Vals, Kalloc(q, x),
         NEW e \in PTE, pt' = [pt EXCEPT ![tgt[h]][idx[h]] = e],
         idx' = [idx EXCEPT ![h] = @ + 1],
         UNCHANGED <<proc, pc, tgt, lim, low, pg>>
  PROVE  Typed'
  <1>1. pc[h] \in Loops /\ pc[h] # "none"
      BY DEF Building, Loops, ForkPoints, OwnPoints, ExecPoints
  <1>2. tgt[h] \in Tables /\ idx[h] \in VA /\ q \in Pages
      BY <1>1, Here DEF Typed
  <1>3. /\ free' \subseteq Pages /\ refs' \in [Pages -> Nat]
        /\ mem' \in [Pages -> Vals \cup {Junk}]
      BY <1>2, TypedKalloc
  <1>4. idx[h] + 1 \in 0 .. NV
      BY <1>2, CowAssumption DEF VA
  <1>5. idx' \in [Procs -> 0 .. NV]
      BY <1>4 DEF Typed
  <1>6. pt' \in [Tables -> [VA -> PTE]]
      BY <1>2, TypedPTE
  <1> QED BY <1>3, <1>5, <1>6 DEF Typed, proc

LEMMA TypedFails ==
  ASSUME Typed, NEW h \in Procs,
         UvmallocFails(h, "dealloc") \/ UvmallocFails(h, "discard") \/ Panic(h)
  PROVE  Typed'
  BY PointsAre DEF Typed, UvmallocFails, Panic, alloc, proc, local

LEMMA TypedGrow ==
  ASSUME Typed, Places, Locals, NEW h \in Procs,
         \/ \E n \in Deltas : GrowStart(h, n) \/ ShrinkStart(h, n)
         \/ GrowPage(h) \/ GrowDone(h)
  PROVE  Typed'
  <1>1. ASSUME NEW n \in Deltas, GrowStart(h, n) PROVE Typed'
      <2>1. sz[h] + n \in 0 .. NV
          BY <1>1, CowAssumption DEF GrowStart, Typed
      <2> QED BY <1>1, <2>1, PointsAre DEF GrowStart, Typed, alloc, proc
  <1>2. ASSUME NEW n \in Deltas, ShrinkStart(h, n) PROVE Typed'
      <2>1. sz[h] - n \in 0 .. NV
          BY <1>2, CowAssumption DEF ShrinkStart, Typed
      <2> QED BY <1>2, <2>1, PointsAre DEF ShrinkStart, Typed, alloc, proc
  <1>3. CASE GrowPage(h)
      <2>1. ASSUME NEW q \in free, Kalloc(q, Zero),
                   pt' = [pt EXCEPT ![tgt[h]][idx[h]] =
                            [pa |-> q, W |-> TRUE, U |-> TRUE, COW |-> FALSE]],
                   idx' = [idx EXCEPT ![h] = @ + 1],
                   UNCHANGED <<proc, pc, tgt, lim, low, pg>>
            PROVE  Typed'
          <3>1. q \in Pages /\ Zero \in Vals
              BY CowAssumption DEF Typed
          <3>2. [pa |-> q, W |-> TRUE, U |-> TRUE, COW |-> FALSE] \in PTE
              BY <3>1, PTEType
          <3>3. pc[h] \in Building /\ idx[h] < lim[h]
              BY <1>3 DEF GrowPage, Building
          <3> QED BY <2>1, <3>1, <3>2, <3>3, TypedNewPage
      <2> QED BY <1>3, <2>1, TypedFails DEF GrowPage
  <1>4. CASE GrowDone(h)
      <2>1. sz' \in [Procs -> 0 .. NV]
          BY <1>4 DEF GrowDone, Typed
      <2>2. Return(h) /\ UNCHANGED <<alloc, pt, table, life>>
          BY <1>4 DEF GrowDone
      <2> QED BY <2>1, <2>2, TypedReturn DEF Typed, alloc
  <1> QED BY <1>1, <1>2, <1>3, <1>4

LEMMA TypedExec ==
  ASSUME Typed, Places, Locals, NEW h \in Procs,
         \/ \E t \in Tables, n \in ImageSizes : ExecStart(h, t, n)
         \/ ExecPage(h) \/ ExecCommit(h) \/ Exit(h)
         \/ \E c \in Procs : ReapStart(h, c)
  PROVE  Typed'
  <1>1. ASSUME NEW t \in Tables, NEW n \in ImageSizes, ExecStart(h, t, n) PROVE Typed'
      <2>1. n \in 0 .. NV /\ 0 \in 0 .. NV
          BY CowAssumption
      <2> QED BY <1>1, <2>1, PointsAre DEF ExecStart, Typed, alloc, proc
  <1>2. CASE ExecPage(h)
      <2>1. ASSUME NEW q \in free, Kalloc(q, Image),
                   pt' = [pt EXCEPT ![tgt[h]][idx[h]] = ImagePTE(idx[h], q)],
                   idx' = [idx EXCEPT ![h] = @ + 1],
                   UNCHANGED <<proc, pc, tgt, lim, low, pg>>
            PROVE  Typed'
          <3>1. q \in Pages /\ Image \in Vals
              BY CowAssumption DEF Typed
          <3>2. /\ pc[h] \in Building /\ idx[h] < lim[h]
                /\ pc[h] \in Loops /\ pc[h] # "none"
              BY <1>2 DEF ExecPage, Building, Loops, ExecPoints
          <3>3. ImagePTE(idx[h], q) \in PTE
              BY <3>1, <3>2, Here, PTEType
          <3> QED BY <2>1, <3>1, <3>2, <3>3, TypedNewPage
      <2> QED BY <1>2, <2>1, TypedFails DEF ExecPage
  <1>3. CASE ExecCommit(h)
      BY <1>3, PointsAre, CowAssumption DEF ExecCommit, Typed, alloc
  <1>4. CASE Exit(h)
      BY <1>4, TypedZombie DEF Exit
  <1>5. ASSUME NEW c \in Procs, ReapStart(h, c) PROVE Typed'
      BY <1>5, PointsAre, CowAssumption DEF ReapStart, Typed, alloc, proc
  <1> QED BY <1>1, <1>2, <1>3, <1>4, <1>5

-----------------------------------------------------------------------------
\* Who has which page table.

\* A step inside one call, or a panic of it.
Stays(a, k) ==
  \/ a \in {"user"} \cup FaultPoints /\ k \in {"user", "panic"} \cup FaultPoints
  \/ a \in ForkPoints /\ k \in ForkPoints
  \/ a \in OwnPoints /\ k \in OwnPoints \cup {"panic"}
  \/ a \in ExecPoints /\ k \in ExecPoints \cup {"panic"}
  \/ a \in ReapPoints /\ k \in ReapPoints

LEMMA PlacesSame ==
  ASSUME Typed, Places, NEW h \in Procs, NEW k, Stays(pc[h], k),
         pc' = [pc EXCEPT ![h] = k], UNCHANGED <<life, table, tgt>>
  PROVE  Places'
  <1>1. \A g \in Procs : pc'[g] = IF g = h THEN k ELSE pc[g]
      BY DEF Typed
  <1>2. /\ k # "none" /\ pc[h] # "none"
        /\ k \in Loops => pc[h] \in Loops
        /\ k \in {"none", "user"} \cup FaultPoints =>
             pc[h] \in {"none", "user"} \cup FaultPoints
        /\ k \in OwnPoints => pc[h] \in OwnPoints
        /\ pc[h] \in OwnPoints \cup {"panic"} => k \in OwnPoints \cup {"panic"}
        /\ pc[h] \in ForkPoints => k \in ForkPoints
        /\ pc[h] \in ReapPoints => k \in ReapPoints
      BY DEF Stays, FaultPoints, ForkPoints, OwnPoints, ExecPoints, ReapPoints, Loops
  <1>3. ASSUME NEW g \in Procs
        PROVE  /\ table'[g] = NoTable <=> life'[g] = "unused"
               /\ pc'[g] = "none" <=> life'[g] # "live"
               /\ pc'[g] \in Loops => tgt'[g] # NoTable
               /\ pc'[g] \in {"none", "user"} \cup FaultPoints => tgt'[g] = NoTable
               /\ pc'[g] \in OwnPoints => tgt'[g] = table'[g]
      BY <1>1, <1>2 DEF Places
  <1>4. ASSUME NEW f \in Procs, NEW g \in Procs
        PROVE  /\ table'[f] = table'[g] /\ table'[g] # NoTable => f = g
               /\ tgt'[f] = tgt'[g] /\ tgt'[g] # NoTable => f = g
               /\ tgt'[g] = table'[f] /\ tgt'[g] # NoTable =>
                    \/ f = g /\ pc'[g] \in OwnPoints \cup {"panic"}
                    \/ life'[f] = "embryo" /\ pc'[g] \in ForkPoints
                    \/ life'[f] = "zombie" /\ pc'[g] \in ReapPoints
      BY <1>1, <1>2 DEF Places
  <1> QED BY <1>3, <1>4 DEF Places

\* A step that leaves the kernel, or dies in it, with a table of its own.
LEMMA PlacesReturn ==
  ASSUME Typed, Places, NEW h \in Procs, pc[h] # "none",
         pc' = [pc EXCEPT ![h] = "user"], tgt' = [tgt EXCEPT ![h] = NoTable],
         UNCHANGED <<life, table>>
  PROVE  Places'
  BY DEF Typed, Places, FaultPoints, ForkPoints, OwnPoints, ExecPoints, ReapPoints, Loops

LEMMA PlacesZombie ==
  ASSUME Typed, Places, NEW h \in Procs, pc[h] \in {"user"} \cup FaultPoints,
         BecomeZombie(h)
  PROVE  Places'
  BY DEF BecomeZombie, Typed, Places, FaultPoints, ForkPoints, OwnPoints, ExecPoints, ReapPoints, Loops

LEMMA PlacesForkStart ==
  ASSUME Typed, Places, NEW h \in Procs, NEW c \in Procs, NEW t \in Tables,
         ForkStart(h, c, t)
  PROVE  Places'
  BY CowAssumption DEF ForkStart, FreeTables, Typed, Places, FaultPoints, ForkPoints,
     OwnPoints, ExecPoints, ReapPoints, Loops

LEMMA PlacesForkDone ==
  ASSUME Typed, Places, NEW h \in Procs, ForkDone(h)
  PROVE  Places'
  BY CowAssumption DEF ForkDone, Typed, Places, FaultPoints, ForkPoints,
     OwnPoints, ExecPoints, ReapPoints, Loops

LEMMA PlacesFreeProc ==
  ASSUME Typed, Places, NEW h \in Procs, FreeProc(h)
  PROVE  Places'
  BY CowAssumption DEF FreeProc, UnmapEnd, Return, Typed, Places, FaultPoints, ForkPoints,
     OwnPoints, ExecPoints, ReapPoints, Loops

LEMMA PlacesExecStart ==
  ASSUME Typed, Places, NEW h \in Procs, NEW t \in Tables, NEW n \in ImageSizes,
         ExecStart(h, t, n)
  PROVE  Places'
  BY CowAssumption DEF ExecStart, FreeTables, proc, Typed, Places, FaultPoints, ForkPoints,
     OwnPoints, ExecPoints, ReapPoints, Loops

LEMMA PlacesExecCommit ==
  ASSUME Typed, Places, NEW h \in Procs, ExecCommit(h)
  PROVE  Places'
  BY CowAssumption DEF ExecCommit, Typed, Places, FaultPoints, ForkPoints,
     OwnPoints, ExecPoints, ReapPoints, Loops

LEMMA PlacesOwnStart ==
  ASSUME Typed, Places, NEW h \in Procs, NEW n \in Deltas,
         GrowStart(h, n) \/ ShrinkStart(h, n)
  PROVE  Places'
  <1>1. PICK k \in {"grow", "dealloc"} : pc' = [pc EXCEPT ![h] = k]
      BY DEF GrowStart, ShrinkStart
  <1>2. /\ tgt' = [tgt EXCEPT ![h] = table[h]] /\ pc[h] = "user"
        /\ UNCHANGED <<life, table>>
      BY DEF GrowStart, ShrinkStart, proc
  <1> QED BY <1>1, <1>2 DEF Typed, Places, FaultPoints, ForkPoints,
       OwnPoints, ExecPoints, ReapPoints, Loops

LEMMA PlacesReapStart ==
  ASSUME Typed, Places, NEW h \in Procs, NEW c \in Procs, ReapStart(h, c)
  PROVE  Places'
  BY CowAssumption DEF ReapStart, proc, Typed, Places, FaultPoints, ForkPoints,
     OwnPoints, ExecPoints, ReapPoints, Loops

-----------------------------------------------------------------------------
\* The locals of the loops.

LocalsOf(h) ==
  /\ pc[h] \in Loops => low[h] <= idx[h] /\ idx[h] <= lim[h]
  /\ pc[h] \in Pending => idx[h] < lim[h]
  /\ pc[h] \notin OwnPoints \cup {"panic"} => low[h] = 0
  /\ pc[h] \in {"fork_map", "fork_ref"} => lim[h] = sz[h]
  /\ pc[h] = "grow" => low[h] = sz[h]
  /\ pc[h] \in FaultPoints => idx[h] < sz[h]
  /\ pg[h] # NoPage <=> pc[h] \in {"f_copy", "f_map", "f_drop"}

LEMMA LocalsEach == Locals <=> \A h \in Procs : LocalsOf(h)
  BY DEF Locals, LocalsOf

LEMMA LocalsEachNext == Locals' <=> \A h \in Procs : LocalsOf(h)'
  BY DEF Locals, LocalsOf

LEMMA LocalsZombie ==
  ASSUME Typed, Places, Locals, NEW h \in Procs, pc[h] \in {"user"} \cup FaultPoints, pg[h] = NoPage, BecomeZombie(h),
         NEW g \in Procs
  PROVE  LocalsOf(g)'
  BY CowAssumption DEF BecomeZombie, Locals, LocalsOf, Typed,
     Pending, FaultPoints, ForkPoints, OwnPoints, ExecPoints, ReapPoints, Loops

LEMMA LocalsPanic ==
  ASSUME Typed, Places, Locals, NEW h \in Procs, pc[h] # "none", pg[h] = NoPage, Panic(h),
         NEW g \in Procs
  PROVE  LocalsOf(g)'
  BY CowAssumption DEF Panic, alloc, proc, local, Locals, LocalsOf, Typed,
     Pending, FaultPoints, ForkPoints, OwnPoints, ExecPoints, ReapPoints, Loops

LEMMA LocalsReturn ==
  ASSUME Typed, Places, Locals, NEW h \in Procs,
         NEW n, Return(h),
         sz' = [sz EXCEPT ![h] = n] \/ sz' = sz,
         NEW g \in Procs
  PROVE  LocalsOf(g)'
  BY CowAssumption DEF Return, Locals, LocalsOf, Typed,
     Pending, FaultPoints, ForkPoints, OwnPoints, ExecPoints, ReapPoints, Loops

LEMMA LocalsForkStart ==
  ASSUME Typed, Places, Locals, NEW h \in Procs, NEW c \in Procs, NEW t \in Tables, ForkStart(h, c, t),
         NEW g \in Procs
  PROVE  LocalsOf(g)'
  BY CowAssumption DEF ForkStart, alloc, Locals, LocalsOf, Typed,
     Pending, FaultPoints, ForkPoints, OwnPoints, ExecPoints, ReapPoints, Loops

LEMMA LocalsForkMap ==
  ASSUME Typed, Places, Locals, NEW h \in Procs, ForkMap(h),
         NEW g \in Procs
  PROVE  LocalsOf(g)'
  BY CowAssumption DEF ForkMap, alloc, proc, Locals, LocalsOf, Typed,
     Pending, FaultPoints, ForkPoints, OwnPoints, ExecPoints, ReapPoints, Loops

LEMMA LocalsForkRef ==
  ASSUME Typed, Places, Locals, NEW h \in Procs, ForkRef(h),
         NEW g \in Procs
  PROVE  LocalsOf(g)'
  BY CowAssumption DEF ForkRef, proc, Locals, LocalsOf, Typed,
     Pending, FaultPoints, ForkPoints, OwnPoints, ExecPoints, ReapPoints, Loops

LEMMA LocalsForkDone ==
  ASSUME Typed, Places, Locals, NEW h \in Procs, ForkDone(h),
         NEW g \in Procs
  PROVE  LocalsOf(g)'
  BY CowAssumption DEF ForkDone, alloc, Places, Locals, LocalsOf, Typed,
     Pending, FaultPoints, ForkPoints, OwnPoints, ExecPoints, ReapPoints, Loops

LEMMA LocalsUnmapDec ==
  ASSUME Typed, Places, Locals, NEW h \in Procs, UnmapDec(h),
         NEW g \in Procs
  PROVE  LocalsOf(g)'
  BY CowAssumption, ClearingIs DEF UnmapDec, local, proc, Unmapping, Locals, LocalsOf, Typed,
     Pending, FaultPoints, ForkPoints, OwnPoints, ExecPoints, ReapPoints, Loops

LEMMA LocalsUnmapClear ==
  ASSUME Typed, Places, Locals, NEW h \in Procs, UnmapClear(h),
         NEW g \in Procs
  PROVE  LocalsOf(g)'
  BY CowAssumption, ClearingIs DEF UnmapClear, alloc, proc, Unmapping, Locals, LocalsOf, Typed,
     Pending, FaultPoints, ForkPoints, OwnPoints, ExecPoints, ReapPoints, Loops

LEMMA LocalsFreeProc ==
  ASSUME Typed, Places, Locals, NEW h \in Procs, FreeProc(h),
         NEW g \in Procs
  PROVE  LocalsOf(g)'
  BY CowAssumption DEF FreeProc, Return, alloc, Places, Locals, LocalsOf, Typed,
     Pending, FaultPoints, ForkPoints, OwnPoints, ExecPoints, ReapPoints, Loops

LEMMA LocalsGrowStart ==
  ASSUME Typed, Places, Locals, NEW h \in Procs, NEW n \in Deltas, GrowStart(h, n),
         NEW g \in Procs
  PROVE  LocalsOf(g)'
  BY CowAssumption DEF GrowStart, alloc, proc, Locals, LocalsOf, Typed,
     Pending, FaultPoints, ForkPoints, OwnPoints, ExecPoints, ReapPoints, Loops

LEMMA LocalsShrinkStart ==
  ASSUME Typed, Places, Locals, NEW h \in Procs, NEW n \in Deltas, ShrinkStart(h, n),
         NEW g \in Procs
  PROVE  LocalsOf(g)'
  BY CowAssumption DEF ShrinkStart, alloc, proc, Locals, LocalsOf, Typed,
     Pending, FaultPoints, ForkPoints, OwnPoints, ExecPoints, ReapPoints, Loops

LEMMA LocalsFails ==
  ASSUME Typed, Places, Locals, NEW h \in Procs, (pc[h] = "grow" /\ UvmallocFails(h, "dealloc"))
         \/ (pc[h] = "exec" /\ UvmallocFails(h, "discard")),
         NEW g \in Procs
  PROVE  LocalsOf(g)'
  BY CowAssumption DEF UvmallocFails, alloc, proc, Locals, LocalsOf, Typed,
     Pending, FaultPoints, ForkPoints, OwnPoints, ExecPoints, ReapPoints, Loops

LEMMA LocalsNewPage ==
  ASSUME Typed, Places, Locals, NEW h \in Procs, pc[h] \in {"grow", "exec"}, idx[h] < lim[h],
         idx' = [idx EXCEPT ![h] = @ + 1], UNCHANGED <<proc, pc, tgt, lim, low, pg>>,
         NEW g \in Procs
  PROVE  LocalsOf(g)'
  BY CowAssumption DEF proc, Locals, LocalsOf, Typed,
     Pending, FaultPoints, ForkPoints, OwnPoints, ExecPoints, ReapPoints, Loops

LEMMA LocalsExecStart ==
  ASSUME Typed, Places, Locals, NEW h \in Procs, NEW t \in Tables, NEW n \in ImageSizes, ExecStart(h, t, n),
         NEW g \in Procs
  PROVE  LocalsOf(g)'
  BY CowAssumption DEF ExecStart, alloc, proc, Locals, LocalsOf, Typed,
     Pending, FaultPoints, ForkPoints, OwnPoints, ExecPoints, ReapPoints, Loops

LEMMA LocalsExecCommit ==
  ASSUME Typed, Places, Locals, NEW h \in Procs, ExecCommit(h),
         NEW g \in Procs
  PROVE  LocalsOf(g)'
  BY CowAssumption DEF ExecCommit, alloc, Locals, LocalsOf, Typed,
     Pending, FaultPoints, ForkPoints, OwnPoints, ExecPoints, ReapPoints, Loops

LEMMA LocalsReapStart ==
  ASSUME Typed, Places, Locals, NEW h \in Procs, NEW c \in Procs, ReapStart(h, c),
         NEW g \in Procs
  PROVE  LocalsOf(g)'
  BY CowAssumption DEF ReapStart, alloc, proc, Locals, LocalsOf, Typed,
     Pending, FaultPoints, ForkPoints, OwnPoints, ExecPoints, ReapPoints, Loops

LEMMA LocalsFault ==
  ASSUME Typed, Places, Locals, NEW h \in Procs, NEW k,
         \/ pc[h] = "user" /\ k = "f_alloc" /\ pg' = pg /\ idx'[h] < sz[h]
         \/ pc[h] = "f_alloc" /\ k = "f_copy" /\ pg'[h] # NoPage /\ idx'[h] = idx[h]
         \/ pc[h] = "f_copy" /\ k = "f_map" /\ pg'[h] # NoPage /\ idx'[h] = idx[h]
         \/ pc[h] = "f_map" /\ k = "f_drop" /\ pg'[h] # NoPage /\ idx'[h] = idx[h],
         pc' = [pc EXCEPT ![h] = k], UNCHANGED <<sz, lim, low>>,
         \A g \in Procs : g # h => idx'[g] = idx[g] /\ pg'[g] = pg[g],
         NEW g \in Procs
  PROVE  LocalsOf(g)'
  BY CowAssumption DEF Locals, LocalsOf, Typed,
     Pending, FaultPoints, ForkPoints, OwnPoints, ExecPoints, ReapPoints, Loops

-----------------------------------------------------------------------------
\* Which pages the tables map.

ShapesOf(h) ==
  /\ pc[h] \in Loops => \A v \in VA : Valid(tgt[h], v) <=> Shape(h, v)
  /\ life[h] = "live" /\ pc[h] \notin OwnPoints \cup {"panic"} => Exact(h)
  /\ life[h] = "zombie" /\ (\A g \in Procs : tgt[g] # table[h]) => Exact(h)
FreeEmpty == \A t \in FreeTables, v \in VA : ~Valid(t, v)

LEMMA ShapesEach ==
  Shapes <=> (\A h \in Procs : ShapesOf(h)) /\ FreeEmpty
  BY DEF Shapes, ShapesOf, FreeEmpty

\* The tables other than t map the same pages as before.
Elsewhere(t) == \A s \in Tables \ {t}, v \in VA : Valid(s, v)' <=> Valid(s, v)

\* A step inside one call, which changes the table it works on only.
LEMMA ShapesStep ==
  ASSUME Typed, Places, Shapes, NEW h \in Procs, pc[h] # "none",
         UNCHANGED <<table, sz, life, tgt>>, Elsewhere(tgt[h]),
         \A g \in Procs \ {h} : /\ pc'[g] = pc[g] /\ idx'[g] = idx[g]
                                /\ lim'[g] = lim[g] /\ low'[g] = low[g],
         pc[h] \in OwnPoints \cup {"panic"} => pc'[h] \in OwnPoints \cup {"panic"},
         pc'[h] \in Loops => \A v \in VA : Valid(tgt[h], v)' <=> Shape(h, v)'
  PROVE  Shapes'
  <1>1. life[h] = "live" /\ table[h] # NoTable
      BY DEF Places
  <1>2. ASSUME NEW g \in Procs, table[g] # NoTable, table[g] # tgt[h]
        PROVE  Exact(g)' <=> Exact(g)
      <2>1. table[g] \in Tables \ {tgt[h]} /\ table'[g] = table[g] /\ sz'[g] = sz[g]
          BY <1>2 DEF Typed
      <2>2. \A v \in VA : Valid(table[g], v)' <=> Valid(table[g], v)
          BY <2>1 DEF Elsewhere
      <2> QED BY <2>1, <2>2 DEF Exact, Valid
  <1>3. ASSUME NEW g \in Procs PROVE ShapesOf(g)'
      <2>1. ASSUME pc'[g] \in Loops, NEW v \in VA
            PROVE  Valid(tgt[g], v)' <=> Shape(g, v)'
          <3>1. CASE g = h
              BY <2>1, <3>1 DEF Valid
          <3>2. CASE g # h
              <4>1. pc[g] \in Loops /\ tgt[g] # NoTable
                  BY <2>1, <3>2 DEF Places
              <4>2. tgt[g] \in Tables \ {tgt[h]}
                  BY <3>2, <4>1 DEF Places, Typed
              <4>3. Valid(tgt[g], v)' <=> Valid(tgt[g], v)
                  BY <4>2 DEF Elsewhere, Valid
              <4>4. Valid(tgt[g], v) <=> Shape(g, v)
                  BY <4>1 DEF Shapes
              <4>5. Shape(g, v)' <=> Shape(g, v)
                  BY <3>2 DEF Shape
              <4> QED BY <4>3, <4>4, <4>5
          <3> QED BY <3>1, <3>2
      <2>2. ASSUME life'[g] = "live", pc'[g] \notin OwnPoints \cup {"panic"}
            PROVE  Exact(g)'
          <3>1. life[g] = "live" /\ pc[g] \notin OwnPoints \cup {"panic"}
              BY <2>2
          <3>2. table[g] # NoTable /\ table[g] # tgt[h]
              BY <1>1, <3>1 DEF Places
          <3> QED BY <1>2, <3>1, <3>2 DEF Shapes
      <2>3. ASSUME life'[g] = "zombie", \A f \in Procs : tgt'[f] # table'[g]
            PROVE  Exact(g)'
          <3>1. life[g] = "zombie" /\ (\A f \in Procs : tgt[f] # table[g])
              BY <2>3
          <3>2. table[g] # NoTable /\ table[g] # tgt[h]
              BY <3>1 DEF Places
          <3> QED BY <1>2, <3>1, <3>2 DEF Shapes
      <2> QED BY <2>1, <2>2, <2>3 DEF ShapesOf
  <1>4. FreeEmpty'
      <2>1. FreeTables' = FreeTables
          BY DEF FreeTables
      <2>2. \A t \in FreeTables : t \in Tables \ {tgt[h]}
          BY DEF FreeTables
      <2> QED BY <2>1, <2>2 DEF FreeEmpty, Shapes, Elsewhere
  <1>5. Shapes' <=> (\A g \in Procs : ShapesOf(g)') /\ FreeEmpty'
      BY DEF Shapes, ShapesOf, FreeEmpty
  <1> QED BY <1>3, <1>4, <1>5

\* The steps that begin or end a call, and exit(), leave the tables alone.  What
\* holds of a process they do not concern still holds.
LEMMA ShapesFrame ==
  ASSUME Shapes, NEW h \in Procs, NEW g \in Procs, pt' = pt,
         table'[g] = table[g], sz'[g] = sz[g], life'[g] = life[g], pc'[g] = pc[g],
         tgt'[g] = tgt[g], idx'[g] = idx[g], lim'[g] = lim[g], low'[g] = low[g],
         \A f \in Procs \ {h} : tgt'[f] = tgt[f],
         life[g] = "zombie" => tgt[h] # table[g]
  PROVE  ShapesOf(g)'
  <1>1. Exact(g)' <=> Exact(g)
      BY DEF Exact, Valid
  <1>2. \A v \in VA : /\ Valid(tgt[g], v)' <=> Valid(tgt[g], v)
                      /\ Shape(g, v)' <=> Shape(g, v)
      BY DEF Valid, Shape
  <1>3. ASSUME pc'[g] \in Loops, NEW v \in VA
        PROVE  Valid(tgt[g], v)' <=> Shape(g, v)'
      BY <1>2, <1>3 DEF Shapes, Valid
  <1>4. ASSUME life'[g] = "live", pc'[g] \notin OwnPoints \cup {"panic"}
        PROVE  Exact(g)'
      BY <1>1, <1>4 DEF Shapes
  <1>5. ASSUME life'[g] = "zombie", \A f \in Procs : tgt'[f] # table'[g]
        PROVE  Exact(g)'
      BY <1>1, <1>5 DEF Shapes
  <1> QED BY <1>3, <1>4, <1>5 DEF ShapesOf

\* Back in user mode with a table that agrees with p->sz.
LEMMA ShapesHome ==
  ASSUME NEW h \in Procs, life'[h] = "live", pc'[h] = "user", Exact(h)'
  PROVE  ShapesOf(h)'
  BY DEF ShapesOf, Loops, ForkPoints, OwnPoints, ExecPoints, ReapPoints

LEMMA ShapesAll ==
  ASSUME Shapes, pt' = pt, \A g \in Procs : ShapesOf(g)',
         \A t \in FreeTables' : t \in FreeTables \/ \A v \in VA : ~Valid(t, v)
  PROVE  Shapes'
  <1>1. FreeEmpty'
      BY DEF FreeEmpty, Shapes, Valid
  <1> QED BY <1>1 DEF Shapes, ShapesOf, FreeEmpty

\* The table of a finished unmapping maps what is below low.
LEMMA Unmapped ==
  ASSUME Typed, Places, Locals, Shapes, NEW h \in Procs, UnmapEnd(h)
  PROVE  /\ \A v \in VA : Valid(tgt[h], v) <=> v < low[h]
         /\ pc[h] # "dealloc" => low[h] = 0 /\ \A v \in VA : ~Valid(tgt[h], v)
         /\ pc[h] # "none" /\ life[h] = "live" /\ tgt[h] \in Tables
  <1>1. /\ pc[h] \in Unmapping /\ pc[h] \in Loops /\ pc[h] \notin Building
        /\ pc[h] # "fork_ref" /\ pc[h] # "none" /\ idx[h] = lim[h]
        /\ pc[h] # "dealloc" => pc[h] \notin OwnPoints \cup {"panic"}
      BY DEF UnmapEnd, Unmapping, Loops, ForkPoints, OwnPoints, ExecPoints, ReapPoints,
         Building
  <1>2. ASSUME NEW v \in VA PROVE v \in Nat
      BY CowAssumption DEF VA
  <1>3. ASSUME NEW v \in VA PROVE Shape(h, v) <=> v < low[h]
      <2>1. v \in Nat /\ idx[h] \in Int
          BY <1>2 DEF Typed
      <2> QED BY <1>1, <2>1 DEF Shape
  <1>4. \A v \in VA : Valid(tgt[h], v) <=> v < low[h]
      BY <1>1, <1>3 DEF Shapes
  <1>5. pc[h] # "dealloc" => low[h] = 0
      BY <1>1 DEF Locals
  <1>6. life[h] = "live" /\ tgt[h] \in Tables
      BY <1>1, Here
  <1>7. pc[h] # "dealloc" => \A v \in VA : ~Valid(tgt[h], v)
      BY <1>2, <1>4, <1>5
  <1> QED BY <1>1, <1>4, <1>5, <1>6, <1>7

LEMMA ShapesZombie ==
  ASSUME Typed, Places, Shapes, NEW h \in Procs,
         pc[h] \in {"user"} \cup FaultPoints, BecomeZombie(h)
  PROVE  Shapes'
  <1>1. /\ life' = [life EXCEPT ![h] = "zombie"] /\ pc' = [pc EXCEPT ![h] = "none"]
        /\ idx' = [idx EXCEPT ![h] = 0]
        /\ pt' = pt /\ table' = table /\ sz' = sz /\ tgt' = tgt /\ lim' = lim /\ low' = low
      BY DEF BecomeZombie
  <1>2. /\ tgt[h] = NoTable /\ life[h] = "live" /\ Exact(h)
      BY DEF Places, Shapes, FaultPoints, OwnPoints
  <1>3. ShapesOf(h)'
      BY <1>1, <1>2 DEF ShapesOf, Exact, Valid, Typed, Loops, ForkPoints, OwnPoints,
         ExecPoints, ReapPoints
  <1>4. ASSUME NEW g \in Procs, g # h PROVE ShapesOf(g)'
      <2>1. life[g] = "zombie" => tgt[h] # table[g]
          BY <1>2 DEF Places
      <2> QED BY <1>1, <1>4, <2>1, ShapesFrame DEF Typed
  <1>5. FreeTables' = FreeTables
      BY <1>1 DEF FreeTables
  <1> QED BY <1>1, <1>3, <1>4, <1>5, ShapesAll

LEMMA ShapesForkStart ==
  ASSUME Typed, Places, Shapes, Locals, NEW h \in Procs, NEW c \in Procs, NEW t \in Tables,
         ForkStart(h, c, t)
  PROVE  Shapes'
  <1>1. /\ pc[h] = "user" /\ life[c] = "unused" /\ t \in FreeTables
        /\ life' = [life EXCEPT ![c] = "embryo"] /\ table' = [table EXCEPT ![c] = t]
        /\ tgt' = [tgt EXCEPT ![h] = t] /\ idx' = [idx EXCEPT ![h] = 0]
        /\ lim' = [lim EXCEPT ![h] = sz[h]] /\ pc' = [pc EXCEPT ![h] = "fork_map"]
        /\ pt' = pt /\ sz' = sz /\ low' = low
      BY DEF ForkStart
  <1>2. /\ tgt[h] = NoTable /\ life[h] = "live" /\ c # h /\ Exact(h)
        /\ pc[c] = "none" /\ table[c] = NoTable
      BY <1>1 DEF Places, Shapes, OwnPoints
  <1>3. ShapesOf(h)'
      <2>1. Exact(h)'
          BY <1>1, <1>2 DEF Exact, Valid, Typed
      <2>2. ASSUME NEW v \in VA PROVE ~Valid(tgt[h], v)' /\ ~Shape(h, v)'
          <3>1. ~Valid(t, v)
              BY <1>1 DEF Shapes
          <3>2. tgt'[h] = t /\ pc'[h] = "fork_map" /\ idx'[h] = 0 /\ ~(v < 0)
              BY <1>1, CowAssumption DEF Typed, VA
          <3> QED BY <1>1, <3>1, <3>2 DEF Valid, Shape, Building
      <2>3. life'[h] = "live"
          BY <1>1, <1>2 DEF Typed
      <2> QED BY <2>1, <2>2, <2>3 DEF ShapesOf
  <1>4. ShapesOf(c)'
      <2>1. life'[c] = "embryo" /\ pc'[c] = "none"
          BY <1>1, <1>2 DEF Typed
      <2> QED BY <2>1 DEF ShapesOf, Loops, ForkPoints, OwnPoints, ExecPoints, ReapPoints
  <1>5. ASSUME NEW g \in Procs, g # h, g # c PROVE ShapesOf(g)'
      <2>1. life[g] = "zombie" => tgt[h] # table[g]
          BY <1>2 DEF Places
      <2> QED BY <1>1, <1>5, <2>1, ShapesFrame DEF Typed
  <1>6. \A s \in FreeTables' : s \in FreeTables
      BY <1>1, <1>2, CowAssumption DEF FreeTables, Typed
  <1> QED BY <1>1, <1>3, <1>4, <1>5, <1>6, ShapesAll

LEMMA ShapesForkDone ==
  ASSUME Typed, Places, Shapes, Locals, NEW h \in Procs, ForkDone(h)
  PROVE  Shapes'
  <1>1. PICK c \in Procs : /\ life[c] = "embryo" /\ table[c] = tgt[h]
                           /\ sz' = [sz EXCEPT ![c] = sz[h]]
                           /\ life' = [life EXCEPT ![c] = "live"]
                           /\ pc' = [pc EXCEPT ![h] = "user", ![c] = "user"]
      BY DEF ForkDone
  <1>2. /\ pc[h] = "fork_map" /\ idx[h] = lim[h] /\ tgt' = [tgt EXCEPT ![h] = NoTable]
        /\ idx' = [idx EXCEPT ![h] = 0] /\ lim' = [lim EXCEPT ![h] = 0]
        /\ pt' = pt /\ table' = table /\ low' = low
      BY DEF ForkDone
  <1>3. /\ life[h] = "live" /\ c # h /\ Exact(h) /\ lim[h] = sz[h] /\ pc[h] \in Loops
        /\ \A g \in Procs : life[g] = "zombie" => tgt[h] # table[g]
      BY <1>1, <1>2 DEF Places, Shapes, Locals, OwnPoints, Loops, ForkPoints
  <1>4. ShapesOf(h)'
      <2>1. Exact(h)'
          BY <1>1, <1>2, <1>3 DEF Exact, Valid, Typed
      <2> QED BY <1>1, <1>3, <2>1, ShapesHome DEF Typed
  <1>5. ShapesOf(c)'
      <2>1. \A v \in VA : Valid(tgt[h], v) <=> Shape(h, v)
          BY <1>3 DEF Shapes
      <2>2. \A v \in VA : Shape(h, v) <=> v < sz[h]
          BY <1>2, <1>3 DEF Shape, Building
      <2>3. Exact(c)'
          BY <1>1, <1>2, <2>1, <2>2 DEF Exact, Valid, Typed
      <2> QED BY <1>1, <1>3, <2>3, ShapesHome DEF Typed
  <1>6. ASSUME NEW g \in Procs, g # h, g # c PROVE ShapesOf(g)'
      <2>1. life[g] = "zombie" => tgt[h] # table[g]
          BY <1>3
      <2> QED BY <1>1, <1>2, <1>6, <2>1, ShapesFrame DEF Typed
  <1>7. \A s \in FreeTables' : s \in FreeTables
      BY <1>1, <1>2 DEF FreeTables, Typed
  <1> QED BY <1>2, <1>4, <1>5, <1>6, <1>7, ShapesAll

LEMMA ShapesFreeProc ==
  ASSUME Typed, Places, Shapes, Locals, NEW h \in Procs, FreeProc(h)
  PROVE  Shapes'
  <1>1. PICK c \in Procs : /\ table[c] = tgt[h] /\ c # h
                           /\ life' = [life EXCEPT ![c] = "unused"]
                           /\ table' = [table EXCEPT ![c] = NoTable]
                           /\ sz' = [sz EXCEPT ![c] = 0]
      BY DEF FreeProc
  <1>2. /\ UnmapEnd(h) /\ pc[h] \in {"undo", "reap"} /\ pt' = pt
        /\ pc' = [pc EXCEPT ![h] = "user"] /\ tgt' = [tgt EXCEPT ![h] = NoTable]
        /\ idx' = [idx EXCEPT ![h] = 0] /\ lim' = [lim EXCEPT ![h] = 0]
        /\ low' = [low EXCEPT ![h] = 0]
      BY DEF FreeProc, Return
  <1>3. /\ life[h] = "live" /\ tgt[h] \in Tables /\ \A v \in VA : ~Valid(tgt[h], v)
      BY <1>2, Unmapped
  <1>4. Exact(h) /\ pc[c] = "none" /\ tgt[h] # NoTable
      BY <1>1, <1>2, <1>3, CowAssumption DEF Shapes, Places, OwnPoints
  <1>5. ShapesOf(h)'
      <2>1. Exact(h)'
          BY <1>1, <1>2, <1>4 DEF Exact, Valid, Typed
      <2> QED BY <1>1, <1>2, <1>3, <2>1, ShapesHome DEF Typed
  <1>6. ShapesOf(c)'
      <2>1. life'[c] = "unused" /\ pc'[c] = "none"
          BY <1>1, <1>2, <1>4 DEF Typed
      <2> QED BY <2>1 DEF ShapesOf, Loops, ForkPoints, OwnPoints, ExecPoints, ReapPoints
  <1>7. ASSUME NEW g \in Procs, g # h, g # c PROVE ShapesOf(g)'
      <2>1. tgt[h] # table[g]
          BY <1>1, <1>4, <1>7 DEF Places
      <2> QED BY <1>1, <1>2, <1>7, <2>1, ShapesFrame DEF Typed
  <1>8. ASSUME NEW s \in FreeTables' PROVE s \in FreeTables \/ s = tgt[h]
      BY <1>1, <1>2 DEF FreeTables, Typed
  <1> QED BY <1>2, <1>3, <1>5, <1>6, <1>7, <1>8, ShapesAll

\* A call that ends with the table it was given or has made its own.
LEMMA ShapesReturn ==
  ASSUME Typed, Places, Shapes, NEW h \in Procs, pc[h] # "none", pc[h] \notin ReapPoints,
         Return(h), pt' = pt, table' = table, life' = life, NEW n, sz' = [sz EXCEPT ![h] = n],
         \A v \in VA : Valid(table[h], v) <=> v < n,
         tgt[h] = table[h] \/ \A v \in VA : ~Valid(tgt[h], v)
  PROVE  Shapes'
  <1>1. /\ pc' = [pc EXCEPT ![h] = "user"] /\ tgt' = [tgt EXCEPT ![h] = NoTable]
        /\ idx' = [idx EXCEPT ![h] = 0] /\ lim' = [lim EXCEPT ![h] = 0]
        /\ low' = [low EXCEPT ![h] = 0]
      BY DEF Return
  <1>2. ShapesOf(h)'
      <2>1. Exact(h)'
          BY DEF Exact, Valid, Typed
      <2>2. life'[h] = "live"
          BY DEF Places
      <2> QED BY <1>1, <2>1, <2>2, ShapesHome DEF Typed
  <1>3. ASSUME NEW g \in Procs, g # h PROVE ShapesOf(g)'
      <2>1. life[g] = "zombie" => tgt[h] # table[g]
          BY DEF Places
      <2> QED BY <1>1, <1>3, <2>1, ShapesFrame DEF Typed
  <1>4. ASSUME NEW s \in FreeTables' PROVE s \in FreeTables \/ (s = tgt[h] /\ s # table[h])
      BY <1>1 DEF FreeTables, Typed
  <1> QED BY <1>2, <1>3, <1>4, ShapesAll

LEMMA ShapesDone ==
  ASSUME Typed, Places, Shapes, Locals, NEW h \in Procs,
         DeallocDone(h) \/ DiscardDone(h) \/ GrowDone(h)
  PROVE  Shapes'
  <1>1. CASE DeallocDone(h)
      <2>1. /\ UnmapEnd(h) /\ pc[h] = "dealloc" /\ Return(h)
            /\ sz' = [sz EXCEPT ![h] = low[h]] /\ UNCHANGED <<pt, table, life>>
          BY <1>1 DEF DeallocDone
      <2>2. tgt[h] = table[h] /\ pc[h] # "none" /\ pc[h] \notin ReapPoints
          BY <2>1 DEF Places, OwnPoints, ReapPoints
      <2>3. \A v \in VA : Valid(table[h], v) <=> v < low[h]
          BY <2>1, <2>2, Unmapped
      <2> QED BY <2>1, <2>2, <2>3, ShapesReturn
  <1>2. CASE DiscardDone(h)
      <2>1. /\ UnmapEnd(h) /\ pc[h] = "discard" /\ Return(h) /\ UNCHANGED <<pt, table, life>>
            /\ sz' = [sz EXCEPT ![h] = sz[h]]
          BY <1>2 DEF DiscardDone, proc, Typed
      <2>2. pc[h] # "none" /\ pc[h] \notin ReapPoints /\ \A v \in VA : ~Valid(tgt[h], v)
          BY <2>1, Unmapped DEF ReapPoints
      <2>3. \A v \in VA : Valid(table[h], v) <=> v < sz[h]
          BY <2>1 DEF Shapes, Exact, Places, OwnPoints
      <2> QED BY <2>1, <2>2, <2>3, ShapesReturn
  <1>3. CASE GrowDone(h)
      <2>1. /\ pc[h] = "grow" /\ idx[h] = lim[h] /\ Return(h)
            /\ sz' = [sz EXCEPT ![h] = lim[h]] /\ UNCHANGED <<pt, table, life>>
          BY <1>3 DEF GrowDone
      <2>2. /\ tgt[h] = table[h] /\ pc[h] # "none" /\ pc[h] \notin ReapPoints
            /\ pc[h] \in Loops
          BY <2>1 DEF Places, OwnPoints, ReapPoints, Loops
      <2>3. \A v \in VA : Valid(table[h], v) <=> v < lim[h]
          BY <2>1, <2>2 DEF Shapes, Shape, Building
      <2> QED BY <2>1, <2>2, <2>3, ShapesReturn
  <1> QED BY <1>1, <1>2, <1>3

\* A call that begins to work on table t.
LEMMA ShapesBegin ==
  ASSUME Typed, Places, Shapes, NEW h \in Procs, pc[h] = "user",
         UNCHANGED <<pt, table, sz, life>>, NEW t \in Tables, tgt' = [tgt EXCEPT ![h] = t],
         NEW k \in Loops, pc' = [pc EXCEPT ![h] = k],
         k \in OwnPoints \/ t # table[h],
         NEW i, idx' = [idx EXCEPT ![h] = i], NEW m, lim' = [lim EXCEPT ![h] = m],
         NEW l, low' = [low EXCEPT ![h] = l],
         \A v \in VA : Valid(t, v) <=> Shape(h, v)'
  PROVE  Shapes'
  <1>1. /\ tgt[h] = NoTable /\ life[h] = "live" /\ Exact(h)
      BY DEF Places, Shapes, OwnPoints
  <1>2. ShapesOf(h)'
      <2>1. Exact(h)'
          BY <1>1 DEF Exact, Valid
      <2>2. tgt'[h] = t /\ life'[h] = "live" /\ \A v \in VA : Valid(tgt[h], v)' <=> Valid(t, v)
          BY <1>1 DEF Typed, Valid
      <2> QED BY <2>1, <2>2 DEF ShapesOf
  <1>3. ASSUME NEW g \in Procs, g # h PROVE ShapesOf(g)'
      <2>1. life[g] = "zombie" => tgt[h] # table[g]
          BY <1>1 DEF Places
      <2> QED BY <1>3, <2>1, ShapesFrame DEF Typed
  <1>4. \A s \in FreeTables' : s \in FreeTables
      BY <1>1, CowAssumption DEF FreeTables, Typed
  <1> QED BY <1>2, <1>3, <1>4, ShapesAll

LEMMA ShapesStart ==
  ASSUME Typed, Places, Shapes, Locals, NEW h \in Procs,
         \/ \E n \in Deltas : GrowStart(h, n) \/ ShrinkStart(h, n)
         \/ \E t \in Tables, n \in ImageSizes : ExecStart(h, t, n)
         \/ \E c \in Procs : ReapStart(h, c)
  PROVE  Shapes'
  <1>1. ASSUME NEW v \in VA PROVE v \in Nat
      BY CowAssumption DEF VA
  <1>2. pc[h] = "user"
      BY DEF GrowStart, ShrinkStart, ExecStart, ReapStart
  <1>3. Exact(h) /\ table[h] \in Tables /\ low[h] = 0
      BY <1>2, Here DEF Shapes, Locals, OwnPoints
  <1>4. ASSUME NEW n \in Deltas, GrowStart(h, n) PROVE Shapes'
      <2>1. /\ UNCHANGED <<pt, table, sz, life>> /\ tgt' = [tgt EXCEPT ![h] = table[h]]
            /\ pc' = [pc EXCEPT ![h] = "grow"] /\ idx' = [idx EXCEPT ![h] = sz[h]]
            /\ lim' = [lim EXCEPT ![h] = sz[h] + n] /\ low' = [low EXCEPT ![h] = sz[h]]
            /\ "grow" \in Loops /\ "grow" \in OwnPoints
          BY <1>4 DEF GrowStart, proc, Loops, OwnPoints
      <2>2. \A v \in VA : Valid(table[h], v) <=> Shape(h, v)'
          BY <1>3, <2>1 DEF Exact, Shape, Building, Typed
      <2> QED BY <1>2, <1>3, <2>1, <2>2, ShapesBegin
  <1>5. ASSUME NEW n \in Deltas, ShrinkStart(h, n) PROVE Shapes'
      <2>1. /\ UNCHANGED <<pt, table, sz, life>> /\ tgt' = [tgt EXCEPT ![h] = table[h]]
            /\ pc' = [pc EXCEPT ![h] = "dealloc"] /\ idx' = [idx EXCEPT ![h] = sz[h] - n]
            /\ lim' = [lim EXCEPT ![h] = sz[h]] /\ low' = [low EXCEPT ![h] = sz[h] - n]
            /\ "dealloc" \in Loops /\ "dealloc" \in OwnPoints /\ n <= sz[h]
          BY <1>5 DEF ShrinkStart, proc, Loops, OwnPoints
      <2>2. ASSUME NEW v \in VA PROVE Valid(table[h], v) <=> Shape(h, v)'
          <3>1. Shape(h, v)' <=> (v < sz[h] - n \/ (sz[h] - n <= v /\ v < sz[h]))
              BY <2>1 DEF Shape, Building, Typed
          <3>2. v \in Nat /\ sz[h] \in Nat /\ n \in Nat
              BY <1>1, CowAssumption DEF Typed
          <3>3. Shape(h, v)' <=> v < sz[h]
              BY <2>1, <3>1, <3>2
          <3> QED BY <1>3, <3>3 DEF Exact
      <2> QED BY <1>2, <1>3, <2>1, <2>2, ShapesBegin
  <1>6. ASSUME NEW t \in Tables, NEW n \in ImageSizes, ExecStart(h, t, n) PROVE Shapes'
      <2>1. /\ UNCHANGED <<pt, table, sz, life>> /\ tgt' = [tgt EXCEPT ![h] = t]
            /\ pc' = [pc EXCEPT ![h] = "exec"] /\ idx' = [idx EXCEPT ![h] = 0]
            /\ lim' = [lim EXCEPT ![h] = n] /\ low' = [low EXCEPT ![h] = 0]
            /\ "exec" \in Loops /\ t \in FreeTables
          BY <1>6 DEF ExecStart, proc, Loops, ExecPoints
      <2>2. t # table[h]
          BY <2>1 DEF FreeTables
      <2>3. ASSUME NEW v \in VA PROVE Valid(t, v) <=> Shape(h, v)'
          <3>1. Shape(h, v)' <=> v < 0
              BY <2>1 DEF Shape, Building, Typed
          <3> QED BY <1>1, <2>1, <3>1 DEF Shapes
      <2> QED BY <1>2, <2>1, <2>2, <2>3, ShapesBegin
  <1>7. ASSUME NEW c \in Procs, ReapStart(h, c) PROVE Shapes'
      <2>1. /\ UNCHANGED <<pt, table, sz, life>> /\ tgt' = [tgt EXCEPT ![h] = table[c]]
            /\ pc' = [pc EXCEPT ![h] = "reap"] /\ idx' = [idx EXCEPT ![h] = 0]
            /\ lim' = [lim EXCEPT ![h] = sz[c]] /\ low' = [low EXCEPT ![h] = low[h]]
            /\ "reap" \in Loops /\ life[c] = "zombie"
            /\ \A g \in Procs : tgt[g] # table[c]
          BY <1>7 DEF ReapStart, proc, Loops, ReapPoints, Typed
      <2>2. table[c] \in Tables /\ table[c] # table[h] /\ Exact(c)
          <3>1. life[h] = "live"
              BY <1>2, Here
          <3>2. table[c] # NoTable
              BY <2>1 DEF Places
          <3>3. c # h
              BY <2>1, <3>1
          <3> QED BY <2>1, <3>2, <3>3 DEF Places, Shapes, Typed
      <2>3. ASSUME NEW v \in VA PROVE Valid(table[c], v) <=> Shape(h, v)'
          <3>1. Shape(h, v)' <=> (v < 0 \/ (0 <= v /\ v < sz[c]))
              BY <1>3, <2>1 DEF Shape, Building, Typed
          <3> QED BY <1>1, <2>2, <3>1 DEF Exact
      <2> QED BY <1>2, <2>1, <2>2, <2>3, ShapesBegin
  <1> QED BY <1>4, <1>5, <1>6, <1>7

LEMMA ShapesExecCommit ==
  ASSUME Typed, Places, Shapes, Locals, NEW h \in Procs, ExecCommit(h)
  PROVE  Shapes'
  <1>1. /\ pc[h] = "exec" /\ idx[h] = lim[h] /\ table' = [table EXCEPT ![h] = tgt[h]]
        /\ sz' = [sz EXCEPT ![h] = lim[h]] /\ tgt' = [tgt EXCEPT ![h] = table[h]]
        /\ idx' = [idx EXCEPT ![h] = 0] /\ lim' = [lim EXCEPT ![h] = sz[h]]
        /\ pc' = [pc EXCEPT ![h] = "discard"] /\ pt' = pt /\ life' = life /\ low' = low
      BY DEF ExecCommit
  <1>2. /\ life[h] = "live" /\ Exact(h) /\ low[h] = 0 /\ pc[h] \in Loops
      BY <1>1 DEF Places, Shapes, Locals, OwnPoints, Loops, ExecPoints
  <1>3. \A v \in VA : Valid(tgt[h], v) <=> v < lim[h]
      BY <1>1, <1>2 DEF Shapes, Shape, Building
  <1>4. ShapesOf(h)'
      <2>1. Exact(h)'
          BY <1>1, <1>3 DEF Exact, Valid, Typed
      <2>2. ASSUME NEW v \in VA PROVE Valid(tgt[h], v)' <=> Shape(h, v)'
          <3>1. Valid(tgt[h], v)' <=> Valid(table[h], v)
              BY <1>1 DEF Valid, Typed
          <3>2. Shape(h, v)' <=> (v < 0 \/ (0 <= v /\ v < sz[h]))
              BY <1>1, <1>2 DEF Shape, Building, Typed
          <3>3. v \in Nat
              BY CowAssumption DEF VA
          <3> QED BY <1>2, <3>1, <3>2, <3>3 DEF Exact
      <2>3. life'[h] = "live"
          BY <1>1, <1>2
      <2> QED BY <2>1, <2>2, <2>3 DEF ShapesOf
  <1>5. ASSUME NEW g \in Procs, g # h PROVE ShapesOf(g)'
      <2>1. life[g] = "zombie" => tgt[h] # table[g]
          BY <1>1, <1>2 DEF Places, Loops, ExecPoints, ReapPoints
      <2> QED BY <1>1, <1>5, <2>1, ShapesFrame DEF Typed
  <1>6. \A s \in FreeTables' : s \in FreeTables
      BY <1>1 DEF FreeTables, Typed
  <1> QED BY <1>1, <1>4, <1>5, <1>6, ShapesAll

-----------------------------------------------------------------------------
\* One PTE is written.

SetAt(t, v, e) ==
  \A s \in Tables, u \in VA : pt'[s][u] = IF s = t /\ u = v THEN e ELSE pt[s][u]
RowsBut(t) == \A s \in Tables \ {t} : pt'[s] = pt[s]

LEMMA SetPTE ==
  ASSUME Typed, NEW t \in Tables, NEW v \in VA, NEW e, pt' = [pt EXCEPT ![t][v] = e]
  PROVE  SetAt(t, v, e) /\ RowsBut(t)
  BY DEF Typed, SetAt, RowsBut

LEMMA SetShape ==
  ASSUME NEW t, NEW v, NEW e, SetAt(t, v, e)
  PROVE  /\ Elsewhere(t)
         /\ \A u \in VA : t \in Tables =>
              (Valid(t, u)' <=> IF u = v THEN e.pa # NoPage ELSE Valid(t, u))
  <1>1. Elsewhere(t)
      BY DEF SetAt, Elsewhere, Valid
  <1>2. ASSUME NEW u \in VA, t \in Tables
        PROVE  Valid(t, u)' <=> IF u = v THEN e.pa # NoPage ELSE Valid(t, u)
      BY <1>2 DEF SetAt, Valid
  <1> QED BY <1>1, <1>2

\* What the steps of the loops write.
LEMMA FaultMapIs ==
  ASSUME Typed, Places, Locals, NEW h \in Procs, FaultMap(h)
  PROVE  \E e \in PTE : /\ e.pa = pg[h] /\ e.W /\ e.pa \in Pages
                        /\ SetAt(table[h], idx[h], e) /\ RowsBut(table[h])
  <1>1. pc[h] = "f_map" /\ pc[h] # "none" /\ pc[h] \in FaultPoints
      BY DEF FaultMap, FaultPoints
  <1>2. table[h] \in Tables /\ idx[h] \in VA /\ pg[h] \in Pages
      BY <1>1, Here
  <1>3. PICK e : e = [pt[table[h]][idx[h]] EXCEPT !.pa = pg[h], !.W = TRUE, !.COW = FALSE]
      OBVIOUS
  <1>4. pt[table[h]][idx[h]] \in PTE
      BY <1>2 DEF Typed
  <1>5. e \in PTE
      BY <1>2, <1>3, <1>4, PTEChange
  <1>6. e.pa = pg[h] /\ e.W
      BY <1>3, <1>4 DEF PTE
  <1>7. pt' = [pt EXCEPT ![table[h]][idx[h]] = e]
      BY <1>2, <1>3 DEF FaultMap, Typed
  <1> QED BY <1>2, <1>5, <1>6, <1>7, SetPTE

ForkWrites(h) ==
  \E e \in PTE :
    /\ e.pa = pt[table[h]][idx[h]].pa /\ ~e.W /\ e.COW
    /\ \/ /\ \A s \in Tables, u \in VA :
                pt'[s][u] = IF s \in {table[h], tgt[h]} /\ u = idx[h] THEN e ELSE pt[s][u]
          /\ pc' = [pc EXCEPT ![h] = "fork_ref"] /\ UNCHANGED <<idx, lim>>
       \/ /\ SetAt(table[h], idx[h], e)
          /\ pc' = [pc EXCEPT ![h] = "undo"]
          /\ lim' = [lim EXCEPT ![h] = idx[h]] /\ idx' = [idx EXCEPT ![h] = 0]

LEMMA ForkMapIs ==
  ASSUME Typed, Places, Locals, NEW h \in Procs, ForkMap(h)
  PROVE  /\ ForkWrites(h) /\ pc[h] = "fork_map" /\ idx[h] < lim[h]
         /\ \A s \in Tables \ {table[h], tgt[h]} : pt'[s] = pt[s]
         /\ table[h] \in Tables /\ tgt[h] \in Tables /\ idx[h] \in VA
         /\ table[h] # tgt[h]
         /\ UNCHANGED <<alloc, proc, tgt, low, pg>>
  <1>1. /\ pc[h] = "fork_map" /\ pc[h] # "none" /\ pc[h] \in Loops /\ idx[h] < lim[h]
        /\ pc[h] \notin OwnPoints \cup {"panic"} /\ UNCHANGED <<alloc, proc, tgt, low, pg>>
      BY DEF ForkMap, Loops, ForkPoints, OwnPoints
  <1>2. table[h] \in Tables /\ tgt[h] \in Tables /\ idx[h] \in VA /\ life[h] = "live"
      BY <1>1, Here
  <1>3. table[h] # tgt[h]
      BY <1>1, <1>2, CowAssumption DEF Places
  <1>4. PICK s \in Tables, t \in Tables, v \in VA :
          s = table[h] /\ t = tgt[h] /\ v = idx[h]
      BY <1>2
  <1>5. PICK e : e = [pt[s][v] EXCEPT !.W = FALSE, !.COW = TRUE]
      OBVIOUS
  <1>6. pt[s][v] \in PTE
      BY DEF Typed
  <1>7. e \in PTE
      BY <1>5, <1>6, PTEShared
  <1>8. e.pa = pt[s][v].pa /\ ~e.W /\ e.COW
      BY <1>5, <1>6 DEF PTE
  <1>9. CASE /\ pt' = [pt EXCEPT ![s][v] = e, ![t][v] = e]
             /\ pc' = [pc EXCEPT ![h] = "fork_ref"] /\ UNCHANGED <<idx, lim>>
      <2>1. \A r \in Tables, u \in VA :
              pt'[r][u] = IF r \in {s, t} /\ u = v THEN e ELSE pt[r][u]
          BY <1>9 DEF Typed
      <2>2. \A r \in Tables \ {s, t} : pt'[r] = pt[r]
          BY <1>9 DEF Typed
      <2>3. \A r \in Tables, u \in VA :
              pt'[r][u] = IF r \in {table[h], tgt[h]} /\ u = idx[h] THEN e ELSE pt[r][u]
          BY <1>4, <2>1
      <2>4. e.pa = pt[table[h]][idx[h]].pa
          BY <1>4, <1>8
      <2>5. ForkWrites(h)
          BY <1>7, <1>8, <1>9, <2>3, <2>4 DEF ForkWrites
      <2>6. \A r \in Tables \ {table[h], tgt[h]} : pt'[r] = pt[r]
          BY <1>4, <2>2
      <2> QED BY <1>1, <1>2, <1>3, <2>5, <2>6
  <1>10. CASE /\ pt' = [pt EXCEPT ![s][v] = e] /\ pc' = [pc EXCEPT ![h] = "undo"]
              /\ lim' = [lim EXCEPT ![h] = idx[h]] /\ idx' = [idx EXCEPT ![h] = 0]
      <2>1. SetAt(s, v, e) /\ RowsBut(s)
          BY <1>10, SetPTE
      <2> QED BY <1>1, <1>2, <1>3, <1>4, <1>7, <1>8, <1>10, <2>1 DEF ForkWrites, RowsBut
  <1>11. \/ /\ pt' = [pt EXCEPT ![s][v] = e, ![t][v] = e]
            /\ pc' = [pc EXCEPT ![h] = "fork_ref"] /\ UNCHANGED <<idx, lim>>
         \/ /\ pt' = [pt EXCEPT ![s][v] = e] /\ pc' = [pc EXCEPT ![h] = "undo"]
            /\ lim' = [lim EXCEPT ![h] = idx[h]] /\ idx' = [idx EXCEPT ![h] = 0]
      BY <1>4, <1>5 DEF ForkMap
  <1> QED BY <1>9, <1>10, <1>11

LEMMA UnmapClearIs ==
  ASSUME Typed, Places, Locals, NEW h \in Procs, UnmapClear(h)
  PROVE  /\ pc[h] \in Pending \ {"fork_ref"} /\ pc[h] \in Loops
         /\ tgt[h] \in Tables /\ idx[h] \in VA
         /\ SetAt(tgt[h], idx[h], NoPTE) /\ RowsBut(tgt[h])
         /\ idx' = [idx EXCEPT ![h] = @ + 1]
         /\ \E k \in Unmapping : pc[h] = Clearing[k] /\ pc' = [pc EXCEPT ![h] = k]
         /\ UNCHANGED <<alloc, proc, tgt, lim, low, pg>>
  <1>1. PICK k \in Unmapping :
          /\ pc[h] = Clearing[k]
          /\ pt' = [pt EXCEPT ![tgt[h]][idx[h]] = NoPTE]
          /\ idx' = [idx EXCEPT ![h] = @ + 1]
          /\ pc' = [pc EXCEPT ![h] = k]
          /\ UNCHANGED <<alloc, proc, tgt, lim, low, pg>>
      BY DEF UnmapClear
  <1>2. pc[h] \in Pending \ {"fork_ref"} /\ pc[h] \in Loops /\ pc[h] # "none"
      BY <1>1, ClearingIs DEF Unmapping, Pending, Loops, ForkPoints, OwnPoints,
         ExecPoints, ReapPoints
  <1>3. tgt[h] \in Tables /\ idx[h] \in VA
      BY <1>2, Here
  <1>4. SetAt(tgt[h], idx[h], NoPTE) /\ RowsBut(tgt[h])
      BY <1>1, <1>3, SetPTE
  <1> QED BY <1>1, <1>2, <1>3, <1>4

\* A new page of sbrk() or exec().
NewPage(h, q) ==
  /\ pc[h] \in {"grow", "exec"} /\ idx[h] < lim[h]
  /\ q \in free /\ q \in Pages /\ tgt[h] \in Tables /\ idx[h] \in VA
  /\ free' = free \ {q} /\ refs' = [refs EXCEPT ![q] = 1]
  /\ mem' = [mem EXCEPT ![q] = IF pc[h] = "grow" THEN Zero ELSE Image]
  /\ \E e \in PTE : e.pa = q /\ SetAt(tgt[h], idx[h], e) /\ RowsBut(tgt[h])
  /\ idx' = [idx EXCEPT ![h] = @ + 1]
  /\ UNCHANGED <<table, sz, life, pc, tgt, lim, low, pg>>

LEMMA NewPageIs ==
  ASSUME Typed, Places, Locals, NEW h \in Procs, GrowPage(h) \/ ExecPage(h)
  PROVE  \/ \E q \in free : NewPage(h, q)
         \/ pc[h] = "grow" /\ UvmallocFails(h, "dealloc")
         \/ pc[h] = "exec" /\ UvmallocFails(h, "discard")
         \/ pc[h] \in {"grow", "exec"} /\ Panic(h)
  <1>1. /\ pc[h] \in {"grow", "exec"} /\ idx[h] < lim[h] /\ pc[h] # "none"
        /\ pc[h] \in Loops
      BY DEF GrowPage, ExecPage, Loops, OwnPoints, ExecPoints
  <1>2. tgt[h] \in Tables /\ idx[h] \in VA
      BY <1>1, Here
  <1>3. ASSUME NEW q \in free, NEW x, x = (IF pc[h] = "grow" THEN Zero ELSE Image),
               Kalloc(q, x), NEW e \in PTE, e.pa = q,
               pt' = [pt EXCEPT ![tgt[h]][idx[h]] = e],
               idx' = [idx EXCEPT ![h] = @ + 1],
               UNCHANGED <<proc, pc, tgt, lim, low, pg>>
        PROVE  NewPage(h, q)
      <2>1. SetAt(tgt[h], idx[h], e) /\ RowsBut(tgt[h]) /\ q \in Pages
          BY <1>2, <1>3, SetPTE DEF Typed
      <2> QED BY <1>1, <1>2, <1>3, <2>1 DEF NewPage, Kalloc, proc
  <1>4. CASE GrowPage(h)
      <2>1. ASSUME NEW q \in free, Kalloc(q, Zero),
                   pt' = [pt EXCEPT ![tgt[h]][idx[h]] =
                            [pa |-> q, W |-> TRUE, U |-> TRUE, COW |-> FALSE]],
                   idx' = [idx EXCEPT ![h] = @ + 1],
                   UNCHANGED <<proc, pc, tgt, lim, low, pg>>
            PROVE  NewPage(h, q)
          <3>1. PICK e : e = [pa |-> q, W |-> TRUE, U |-> TRUE, COW |-> FALSE]
              OBVIOUS
          <3>2. e \in PTE /\ e.pa = q
              BY <3>1, PTEType DEF Typed
          <3>3. Zero = IF pc[h] = "grow" THEN Zero ELSE Image
              BY <1>4 DEF GrowPage
          <3> QED BY <1>3, <2>1, <3>1, <3>2, <3>3
      <2> QED BY <1>4, <2>1 DEF GrowPage
  <1>5. CASE ExecPage(h)
      <2>1. ASSUME NEW q \in free, Kalloc(q, Image),
                   pt' = [pt EXCEPT ![tgt[h]][idx[h]] = ImagePTE(idx[h], q)],
                   idx' = [idx EXCEPT ![h] = @ + 1],
                   UNCHANGED <<proc, pc, tgt, lim, low, pg>>
            PROVE  NewPage(h, q)
          <3>1. PICK e : e = ImagePTE(idx[h], q)
              OBVIOUS
          <3>2. e \in PTE /\ e.pa = q
              BY <1>2, <3>1, PTEType DEF Typed, ImagePTE
          <3>3. Image = IF pc[h] = "grow" THEN Zero ELSE Image
              BY <1>5 DEF ExecPage
          <3> QED BY <1>3, <2>1, <3>1, <3>2, <3>3
      <2> QED BY <1>5, <2>1 DEF ExecPage
  <1> QED BY <1>4, <1>5, <1>1 DEF GrowPage, ExecPage

-----------------------------------------------------------------------------
\* The shapes inside the calls.

LEMMA ShapesQuiet ==
  ASSUME Typed, Places, Shapes, NEW h \in Procs, pc[h] # "none",
         UNCHANGED <<table, sz, life, tgt>>, Elsewhere(NoTable),
         \A g \in Procs \ {h} : /\ pc'[g] = pc[g] /\ idx'[g] = idx[g]
                                /\ lim'[g] = lim[g] /\ low'[g] = low[g],
         pc'[h] \notin Loops,
         pc[h] \in OwnPoints \cup {"panic"} => pc'[h] = "panic"
  PROVE  Shapes'
  <1>1. Elsewhere(tgt[h])
      BY CowAssumption DEF Elsewhere
  <1> QED BY <1>1, ShapesStep

LEMMA ShapesPanic ==
  ASSUME Typed, Places, Shapes, NEW h \in Procs, pc[h] # "none", Panic(h)
  PROVE  Shapes'
  <1>1. /\ UNCHANGED <<table, sz, life, tgt, idx, lim, low, pt>>
        /\ pc' = [pc EXCEPT ![h] = "panic"]
      BY DEF Panic, proc, local
  <1>2. Elsewhere(NoTable)
      BY <1>1 DEF Elsewhere, Valid
  <1>3. \A g \in Procs \ {h} : pc'[g] = pc[g]
      BY <1>1 DEF Typed
  <1>4. pc'[h] = "panic" /\ "panic" \notin Loops
      BY <1>1 DEF Typed, Loops, ForkPoints, OwnPoints, ExecPoints, ReapPoints
  <1> QED BY <1>1, <1>2, <1>3, <1>4, ShapesQuiet

\* The steps of the store fault: they change no table's shape.
LEMMA ShapesFault ==
  ASSUME Typed, Places, Locals, Shapes, NEW h \in Procs, NEW k \in {"user"} \cup FaultPoints,
         pc[h] \in {"user"} \cup FaultPoints, pc' = [pc EXCEPT ![h] = k],
         UNCHANGED <<table, sz, life, tgt>>,
         pt' = pt \/ FaultMap(h),
         \A g \in Procs \ {h} : idx'[g] = idx[g] /\ lim'[g] = lim[g] /\ low'[g] = low[g]
  PROVE  Shapes'
  <1>1. Elsewhere(NoTable)
      <2>1. CASE pt' = pt
          BY <2>1 DEF Elsewhere, Valid
      <2>2. CASE FaultMap(h)
          <3>1. PICK e \in PTE : e.pa \in Pages /\ SetAt(table[h], idx[h], e)
              BY <2>2, FaultMapIs
          <3>2. pc[h] \in FaultPoints /\ pc[h] # "none"
              BY <2>2 DEF FaultMap, FaultPoints
          <3>3. table[h] \in Tables /\ idx[h] \in VA /\ Valid(table[h], idx[h])
              BY <3>2, Here, FaultPage, CowAssumption DEF Valid
          <3>4. e.pa # NoPage
              BY <3>1, CowAssumption
          <3>5. ASSUME NEW s \in Tables, NEW u \in VA PROVE Valid(s, u)' <=> Valid(s, u)
              <4>1. CASE s = table[h] /\ u = idx[h]
                  <5>1. pt'[s][u] = e
                      BY <3>1, <4>1 DEF SetAt
                  <5> QED BY <3>3, <3>4, <4>1, <5>1 DEF Valid
              <4>2. CASE ~(s = table[h] /\ u = idx[h])
                  <5>1. pt'[s][u] = pt[s][u]
                      BY <3>1, <4>2 DEF SetAt
                  <5> QED BY <5>1 DEF Valid
              <4> QED BY <4>1, <4>2
          <3> QED BY <3>5 DEF Elsewhere
      <2> QED BY <2>1, <2>2
  <1>2. /\ pc[h] # "none" /\ k \notin Loops /\ pc[h] \notin OwnPoints \cup {"panic"}
      BY DEF FaultPoints, Loops, ForkPoints, OwnPoints, ExecPoints, ReapPoints
  <1>3. pc'[h] = k /\ \A g \in Procs \ {h} : pc'[g] = pc[g]
      BY DEF Typed
  <1> QED BY <1>1, <1>2, <1>3, ShapesQuiet

LEMMA ShapesForkMap ==
  ASSUME Typed, Places, Locals, Shapes, NEW h \in Procs, ForkMap(h)
  PROVE  Shapes'
  <1>1. /\ pc[h] = "fork_map" /\ idx[h] < lim[h] /\ table[h] \in Tables /\ tgt[h] \in Tables
        /\ idx[h] \in VA /\ table[h] # tgt[h] /\ UNCHANGED <<alloc, proc, tgt, low, pg>>
        /\ ForkWrites(h)
      BY ForkMapIs
  <1>2. /\ pc[h] \in Loops /\ pc[h] \notin OwnPoints \cup {"panic"} /\ pc[h] # "none"
        /\ low[h] = 0 /\ UNCHANGED <<table, sz, life>>
      BY <1>1 DEF Loops, ForkPoints, OwnPoints, Locals, proc
  <1>3. \A v \in VA : Valid(tgt[h], v) <=> v < idx[h]
      BY <1>1, <1>2 DEF Shapes, Shape, Building
  <1>4. pt[table[h]][idx[h]].pa \in Pages
      BY <1>1, ForkPage
  <1>5. Valid(table[h], idx[h])
      BY <1>4, CowAssumption DEF Valid
  <1>6. PICK e \in PTE :
          /\ e.pa = pt[table[h]][idx[h]].pa
          /\ \/ /\ \A s \in Tables, u \in VA :
                     pt'[s][u] = IF s \in {table[h], tgt[h]} /\ u = idx[h] THEN e ELSE pt[s][u]
                /\ pc' = [pc EXCEPT ![h] = "fork_ref"] /\ UNCHANGED <<idx, lim>>
             \/ /\ SetAt(table[h], idx[h], e)
                /\ pc' = [pc EXCEPT ![h] = "undo"]
                /\ lim' = [lim EXCEPT ![h] = idx[h]] /\ idx' = [idx EXCEPT ![h] = 0]
      BY <1>1 DEF ForkWrites
  <1>7. CASE /\ \A s \in Tables, u \in VA :
                  pt'[s][u] = IF s \in {table[h], tgt[h]} /\ u = idx[h] THEN e ELSE pt[s][u]
             /\ pc' = [pc EXCEPT ![h] = "fork_ref"] /\ UNCHANGED <<idx, lim>>
      <2>1. Elsewhere(tgt[h])
          <3>1. ASSUME NEW s \in Tables \ {tgt[h]}, NEW u \in VA
                PROVE  Valid(s, u)' <=> Valid(s, u)
              <4>1. CASE s = table[h] /\ u = idx[h]
                  BY <1>4, <1>5, <1>6, <1>7, <4>1 DEF Valid
              <4>2. CASE ~(s = table[h] /\ u = idx[h])
                  BY <1>7, <4>2 DEF Valid
              <4> QED BY <4>1, <4>2
          <3> QED BY <3>1 DEF Elsewhere
      <2>2. pc'[h] = "fork_ref" /\ idx'[h] = idx[h]
          BY <1>7 DEF Typed
      <2>3. ASSUME NEW v \in VA PROVE Valid(tgt[h], v)' <=> Shape(h, v)'
          <3>1. v \in Int /\ idx[h] \in Int
              BY <1>1, CowAssumption DEF VA
          <3>2. Shape(h, v)' <=> v <= idx[h]
              BY <2>2 DEF Shape, Building
          <3>3. CASE v = idx[h]
              <4>1. pt'[tgt[h]][v] = e
                  BY <1>1, <1>7, <3>3
              <4>2. Valid(tgt[h], v)'
                  BY <1>1, <1>4, <1>6, <4>1, CowAssumption DEF Valid
              <4> QED BY <3>1, <3>2, <3>3, <4>2
          <3>4. CASE v # idx[h]
              <4>1. pt'[tgt[h]][v] = pt[tgt[h]][v]
                  BY <1>1, <1>7, <3>4
              <4>2. Valid(tgt[h], v)' <=> v < idx[h]
                  BY <1>1, <1>3, <4>1 DEF Valid
              <4> QED BY <3>1, <3>2, <3>4, <4>2
          <3> QED BY <3>3, <3>4
      <2>4. \A g \in Procs \ {h} : pc'[g] = pc[g]
          BY <1>7 DEF Typed
      <2> QED BY <1>1, <1>2, <1>7, <2>1, <2>2, <2>3, <2>4, ShapesStep
  <1>8. CASE /\ SetAt(table[h], idx[h], e)
             /\ pc' = [pc EXCEPT ![h] = "undo"]
             /\ lim' = [lim EXCEPT ![h] = idx[h]] /\ idx' = [idx EXCEPT ![h] = 0]
      <2>1. ASSUME NEW s \in Tables, NEW u \in VA PROVE Valid(s, u)' <=> Valid(s, u)
          <3>1. CASE s = table[h] /\ u = idx[h]
              BY <1>4, <1>5, <1>6, <1>8, <3>1 DEF Valid, SetAt
          <3>2. CASE ~(s = table[h] /\ u = idx[h])
              BY <1>8, <3>2 DEF Valid, SetAt
          <3> QED BY <3>1, <3>2
      <2>2. Elsewhere(tgt[h])
          BY <2>1 DEF Elsewhere
      <2>3. pc'[h] = "undo" /\ idx'[h] = 0 /\ lim'[h] = idx[h] /\ low'[h] = 0
          BY <1>1, <1>2, <1>8 DEF Typed
      <2>4. ASSUME NEW v \in VA PROVE Valid(tgt[h], v)' <=> Shape(h, v)'
          <3>1. v \in Nat
              BY CowAssumption DEF VA
          <3>2. Shape(h, v)' <=> v < idx[h]
              BY <2>3, <3>1 DEF Shape, Building
          <3> QED BY <1>1, <1>3, <2>1, <3>2 DEF Valid
      <2>5. \A g \in Procs \ {h} : pc'[g] = pc[g] /\ lim'[g] = lim[g] /\ idx'[g] = idx[g]
          BY <1>8 DEF Typed
      <2> QED BY <1>1, <1>2, <2>2, <2>3, <2>4, <2>5, ShapesStep
  <1> QED BY <1>6, <1>7, <1>8

\* A loop step that leaves the tables alone.
LEMMA ShapesTurn ==
  ASSUME Typed, Places, Shapes, NEW h \in Procs, pc[h] \in Loops, NEW k,
         pc' = [pc EXCEPT ![h] = k], UNCHANGED <<pt, table, sz, life, tgt, low>>,
         pc[h] \in OwnPoints => k \in OwnPoints,
         \A g \in Procs \ {h} : idx'[g] = idx[g] /\ lim'[g] = lim[g],
         \A v \in VA : Shape(h, v)' <=> Shape(h, v)
  PROVE  Shapes'
  <1>1. Elsewhere(tgt[h])
      BY DEF Elsewhere, Valid
  <1>2. pc'[h] = k /\ \A g \in Procs \ {h} : pc'[g] = pc[g]
      BY DEF Typed
  <1>3. pc[h] # "none" /\ pc[h] # "panic"
      BY DEF Loops, ForkPoints, OwnPoints, ExecPoints, ReapPoints
  <1>4. \A v \in VA : Valid(tgt[h], v)' <=> Shape(h, v)'
      BY DEF Shapes, Valid
  <1> QED BY <1>1, <1>2, <1>3, <1>4, ShapesStep

LEMMA ShapesForkRef ==
  ASSUME Typed, Places, Locals, Shapes, NEW h \in Procs, ForkRef(h)
  PROVE  Shapes'
  <1>1. /\ pc[h] = "fork_ref" /\ pc' = [pc EXCEPT ![h] = "fork_map"]
        /\ idx' = [idx EXCEPT ![h] = @ + 1]
        /\ UNCHANGED <<pt, table, sz, life, tgt, low, lim>>
        /\ pc[h] \in Loops /\ pc[h] \notin OwnPoints
      BY DEF ForkRef, proc, Loops, ForkPoints, OwnPoints
  <1>2. ASSUME NEW v \in VA PROVE Shape(h, v)' <=> Shape(h, v)
      <2>1. v \in Int /\ idx[h] \in Int
          BY CowAssumption DEF VA, Typed
      <2>2. pc'[h] = "fork_map" /\ idx'[h] = idx[h] + 1
          BY <1>1 DEF Typed
      <2>3. (Shape(h, v)' <=> v < idx[h] + 1) /\ (Shape(h, v) <=> v <= idx[h])
          BY <1>1, <2>2 DEF Shape, Building
      <2> QED BY <2>1, <2>3
  <1>3. \A g \in Procs \ {h} : idx'[g] = idx[g]
      BY <1>1 DEF Typed
  <1> QED BY <1>1, <1>2, <1>3, ShapesTurn

LEMMA ShapesUnmapDec ==
  ASSUME Typed, Places, Locals, Shapes, NEW h \in Procs, UnmapDec(h)
  PROVE  Shapes'
  <1>1. /\ pc[h] \in Unmapping /\ pc' = [pc EXCEPT ![h] = Clearing[pc[h]]]
        /\ UNCHANGED <<pt, table, sz, life, tgt, low, lim, idx>>
      BY DEF UnmapDec, proc, local
  <1>2. PICK k : k = Clearing[pc[h]]
      OBVIOUS
  <1>3. /\ pc[h] \in Loops /\ (pc[h] \in OwnPoints => k \in OwnPoints)
        /\ pc[h] \notin Building /\ pc[h] # "fork_ref" /\ k \notin Building /\ k # "fork_ref"
      BY <1>1, <1>2, ClearingIs DEF Unmapping, Loops, ForkPoints, OwnPoints, ExecPoints,
         ReapPoints, Building
  <1>4. pc'[h] = k
      BY <1>1, <1>2 DEF Typed
  <1>5. ASSUME NEW v \in VA PROVE Shape(h, v)' <=> Shape(h, v)
      BY <1>1, <1>3, <1>4 DEF Shape
  <1> QED BY <1>1, <1>2, <1>3, <1>5, ShapesTurn

LEMMA ShapesFails ==
  ASSUME Typed, Places, Locals, Shapes, NEW h \in Procs,
         \/ pc[h] = "grow" /\ UvmallocFails(h, "dealloc")
         \/ pc[h] = "exec" /\ UvmallocFails(h, "discard")
  PROVE  Shapes'
  <1>1. PICK k \in {"dealloc", "discard"} :
          /\ pc[h] = "grow" => k = "dealloc"
          /\ pc[h] \in {"grow", "exec"} /\ UvmallocFails(h, k)
      OBVIOUS
  <1>2. /\ pc' = [pc EXCEPT ![h] = k] /\ lim' = [lim EXCEPT ![h] = idx[h]]
        /\ idx' = [idx EXCEPT ![h] = low[h]]
        /\ UNCHANGED <<pt, table, sz, life, tgt, low>>
      BY <1>1 DEF UvmallocFails, proc
  <1>3. pc[h] \in Loops /\ (pc[h] \in OwnPoints => k \in OwnPoints)
      BY <1>1 DEF Loops, OwnPoints, ExecPoints
  <1>4. low[h] <= idx[h]
      BY <1>3 DEF Locals
  <1>5. ASSUME NEW v \in VA PROVE Shape(h, v)' <=> Shape(h, v)
      <2>1. v \in Int /\ idx[h] \in Int /\ low[h] \in Int
          BY CowAssumption DEF VA, Typed
      <2>2. pc'[h] = k /\ idx'[h] = low[h] /\ lim'[h] = idx[h] /\ low'[h] = low[h]
          BY <1>2 DEF Typed
      <2>3. /\ Shape(h, v)' <=> (v < low[h] \/ (low[h] <= v /\ v < idx[h]))
            /\ Shape(h, v) <=> v < idx[h]
          BY <1>1, <2>2 DEF Shape, Building
      <2> QED BY <1>4, <2>1, <2>3
  <1>6. \A g \in Procs \ {h} : idx'[g] = idx[g] /\ lim'[g] = lim[g]
      BY <1>2 DEF Typed
  <1> QED BY <1>2, <1>3, <1>5, <1>6, ShapesTurn

LEMMA ShapesUnmapClear ==
  ASSUME Typed, Places, Locals, Shapes, NEW h \in Procs, UnmapClear(h)
  PROVE  Shapes'
  <1>1. /\ pc[h] \in Pending \ {"fork_ref"} /\ pc[h] \in Loops
        /\ tgt[h] \in Tables /\ idx[h] \in VA
        /\ SetAt(tgt[h], idx[h], NoPTE)
        /\ idx' = [idx EXCEPT ![h] = @ + 1]
        /\ UNCHANGED <<table, sz, life, tgt, lim, low>>
      BY UnmapClearIs DEF proc
  <1>2. PICK k \in Unmapping : pc[h] = Clearing[k] /\ pc' = [pc EXCEPT ![h] = k]
      BY UnmapClearIs
  <1>3. /\ (pc[h] \in OwnPoints <=> k \in OwnPoints) /\ pc[h] # "none" /\ pc[h] # "panic"
        /\ pc[h] \notin Building /\ pc[h] # "fork_ref" /\ k \notin Building /\ k # "fork_ref"
      BY <1>1, <1>2, ClearingIs DEF Unmapping, Loops, ForkPoints, OwnPoints, ExecPoints,
         ReapPoints, Building
  <1>4. Elsewhere(tgt[h]) /\ \A u \in VA :
          Valid(tgt[h], u)' <=> IF u = idx[h] THEN NoPTE.pa # NoPage ELSE Valid(tgt[h], u)
      <2>1. PICK t \in Tables : t = tgt[h]
          BY <1>1
      <2>2. SetAt(t, idx[h], NoPTE) /\ tgt' = tgt
          BY <1>1, <2>1
      <2>3. Elsewhere(t) /\ \A u \in VA :
              Valid(t, u)' <=> IF u = idx[h] THEN NoPTE.pa # NoPage ELSE Valid(t, u)
          BY <2>2, SetShape
      <2>4. Elsewhere(tgt[h])
          BY <2>1, <2>3
      <2>5. ASSUME NEW u \in VA
            PROVE  Valid(tgt[h], u)' <=> IF u = idx[h] THEN NoPTE.pa # NoPage ELSE Valid(tgt[h], u)
          <3>1. (Valid(tgt[h], u)' <=> Valid(t, u)') /\ (Valid(tgt[h], u) <=> Valid(t, u))
              BY <2>1, <2>2 DEF Valid
          <3> QED BY <2>3, <3>1
      <2> QED BY <2>4, <2>5
  <1>5. pc'[h] = k /\ idx'[h] = idx[h] + 1
      BY <1>1, <1>2 DEF Typed
  <1>6. low[h] <= idx[h] /\ idx[h] < lim[h]
      BY <1>1 DEF Locals
  <1>7. ASSUME NEW v \in VA PROVE Valid(tgt[h], v)' <=> Shape(h, v)'
      <2>1. v \in Int /\ idx[h] \in Int /\ low[h] \in Int /\ lim[h] \in Int
          BY CowAssumption DEF VA, Typed
      <2>2. Valid(tgt[h], v) <=> (v < low[h] \/ (idx[h] <= v /\ v < lim[h]))
          BY <1>1, <1>3 DEF Shapes, Shape
      <2>3. Shape(h, v)' <=> (v < low[h] \/ (idx[h] + 1 <= v /\ v < lim[h]))
          BY <1>1, <1>3, <1>5 DEF Shape
      <2>4. Valid(tgt[h], v)' <=> (v # idx[h] /\ Valid(tgt[h], v))
          BY <1>4 DEF NoPTE
      <2> QED BY <1>6, <2>1, <2>2, <2>3, <2>4
  <1>8. \A g \in Procs \ {h} : pc'[g] = pc[g] /\ idx'[g] = idx[g]
      BY <1>1, <1>2 DEF Typed
  <1> QED BY <1>1, <1>3, <1>4, <1>5, <1>7, <1>8, ShapesStep

LEMMA ShapesNewPage ==
  ASSUME Typed, Places, Locals, Shapes, NEW h \in Procs, NEW q, NewPage(h, q)
  PROVE  Shapes'
  <1>1. PICK e \in PTE : e.pa = q /\ SetAt(tgt[h], idx[h], e)
      BY DEF NewPage
  <1>2. /\ pc[h] \in {"grow", "exec"} /\ pc[h] \in Loops /\ pc[h] # "none"
        /\ tgt[h] \in Tables /\ idx[h] \in VA /\ q # NoPage
        /\ idx' = [idx EXCEPT ![h] = @ + 1]
        /\ UNCHANGED <<table, sz, life, pc, tgt, lim, low>>
      BY CowAssumption DEF NewPage, Loops, OwnPoints, ExecPoints
  <1>3. Elsewhere(tgt[h]) /\ \A u \in VA :
          Valid(tgt[h], u)' <=> (u = idx[h] \/ Valid(tgt[h], u))
      <2>1. PICK t \in Tables : t = tgt[h]
          BY <1>2
      <2>2. SetAt(t, idx[h], e) /\ tgt' = tgt
          BY <1>1, <1>2, <2>1
      <2>3. Elsewhere(t) /\ \A u \in VA :
              Valid(t, u)' <=> IF u = idx[h] THEN e.pa # NoPage ELSE Valid(t, u)
          BY <2>2, SetShape
      <2>4. Elsewhere(tgt[h])
          BY <2>1, <2>3
      <2>5. ASSUME NEW u \in VA PROVE Valid(tgt[h], u)' <=> (u = idx[h] \/ Valid(tgt[h], u))
          <3>1. (Valid(tgt[h], u)' <=> Valid(t, u)') /\ (Valid(tgt[h], u) <=> Valid(t, u))
              BY <2>1, <2>2 DEF Valid
          <3> QED BY <1>1, <1>2, <2>3, <3>1
      <2> QED BY <2>4, <2>5
  <1>4. idx'[h] = idx[h] + 1
      BY <1>2 DEF Typed
  <1>5. ASSUME NEW v \in VA PROVE Valid(tgt[h], v)' <=> Shape(h, v)'
      <2>1. v \in Int /\ idx[h] \in Int
          BY CowAssumption DEF VA, Typed
      <2>2. Valid(tgt[h], v) <=> v < idx[h]
          BY <1>2 DEF Shapes, Shape, Building
      <2>3. Shape(h, v)' <=> v < idx[h] + 1
          BY <1>2, <1>4 DEF Shape, Building
      <2> QED BY <1>3, <2>1, <2>2, <2>3
  <1>6. \A g \in Procs \ {h} : idx'[g] = idx[g]
      BY <1>2 DEF Typed
  <1> QED BY <1>2, <1>3, <1>5, <1>6, ShapesStep

-----------------------------------------------------------------------------
\* What uvmcopy() copies.

CopiesOf(h) ==
  /\ pc[h] \in {"fork_map", "fork_ref"} =>
       \A v \in VA : v < idx[h] => pt[tgt[h]][v].pa = pt[table[h]][v].pa
  /\ pc[h] = "fork_ref" =>
       /\ pt[tgt[h]][idx[h]].pa = pt[table[h]][idx[h]].pa
       /\ ~pt[tgt[h]][idx[h]].W /\ ~pt[table[h]][idx[h]].W

\* A call of h does not reach the tables another call copies.
LEMMA CopiesStep ==
  ASSUME Typed, Places, Copies, NEW h \in Procs, pc[h] # "none", CopiesOf(h)',
         \A g \in Procs \ {h} : pc'[g] \in {"fork_map", "fork_ref"} =>
           /\ pc'[g] = pc[g] /\ idx'[g] = idx[g]
           /\ tgt'[g] = tgt[g] /\ table'[g] = table[g],
         \A s \in Tables \ {table[h], tgt[h]} : pt'[s] = pt[s]
  PROVE  Copies'
  <1>1. ASSUME NEW g \in Procs, g # h, pc'[g] \in {"fork_map", "fork_ref"}
        PROVE  CopiesOf(g)'
      <2>1. /\ pc'[g] = pc[g] /\ idx'[g] = idx[g]
            /\ tgt'[g] = tgt[g] /\ table'[g] = table[g]
          BY <1>1
      <2>2. /\ pc[g] \in Loops /\ pc[g] # "none" /\ pc[g] \notin OwnPoints \cup {"panic"}
            /\ pc[g] \notin ReapPoints
          BY <1>1, <2>1 DEF Loops, ForkPoints, OwnPoints, ReapPoints
      <2>3. life[h] = "live" /\ life[g] = "live" /\ tgt[g] # NoTable /\ table[g] # NoTable
          BY <2>2 DEF Places
      <2>4. tgt[g] \in Tables \ {table[h], tgt[h]} /\ table[g] \in Tables \ {table[h], tgt[h]}
          BY <1>1, <2>3 DEF Places, Typed
      <2>5. pt'[tgt[g]] = pt[tgt[g]] /\ pt'[table[g]] = pt[table[g]]
          BY <2>4
      <2>6. CopiesOf(g)
          BY DEF Copies, CopiesOf
      <2> QED BY <2>1, <2>5, <2>6 DEF CopiesOf
  <1>2. ASSUME NEW g \in Procs PROVE CopiesOf(g)'
      <2>1. CASE g # h /\ pc'[g] \notin {"fork_map", "fork_ref"}
          BY <2>1 DEF CopiesOf
      <2> QED BY <1>1, <2>1
  <1> QED BY <1>2 DEF Copies, CopiesOf

LEMMA CopiesAway ==
  ASSUME NEW h, pc'[h] \notin {"fork_map", "fork_ref"}
  PROVE  CopiesOf(h)'
  BY DEF CopiesOf

LEMMA CopiesForkMap ==
  ASSUME Typed, Places, Locals, Copies, NEW h \in Procs, ForkMap(h)
  PROVE  Copies'
  <1>1. /\ pc[h] = "fork_map" /\ idx[h] < lim[h] /\ table[h] \in Tables /\ tgt[h] \in Tables
        /\ idx[h] \in VA /\ table[h] # tgt[h] /\ UNCHANGED <<table, tgt>>
        /\ ForkWrites(h) /\ pc[h] # "none"
        /\ \A s \in Tables \ {table[h], tgt[h]} : pt'[s] = pt[s]
      BY ForkMapIs DEF proc
  <1>2. PICK e \in PTE :
          /\ e.pa = pt[table[h]][idx[h]].pa /\ ~e.W
          /\ \/ /\ \A s \in Tables, u \in VA :
                     pt'[s][u] = IF s \in {table[h], tgt[h]} /\ u = idx[h] THEN e ELSE pt[s][u]
                /\ pc' = [pc EXCEPT ![h] = "fork_ref"] /\ UNCHANGED <<idx, lim>>
             \/ /\ pc' = [pc EXCEPT ![h] = "undo"] /\ idx' = [idx EXCEPT ![h] = 0]
      BY <1>1 DEF ForkWrites
  <1>3. \A g \in Procs \ {h} : pc'[g] = pc[g] /\ idx'[g] = idx[g]
      BY <1>2 DEF Typed
  <1>4. CopiesOf(h)'
      <2>1. CASE /\ \A s \in Tables, u \in VA :
                     pt'[s][u] = IF s \in {table[h], tgt[h]} /\ u = idx[h] THEN e ELSE pt[s][u]
                 /\ pc' = [pc EXCEPT ![h] = "fork_ref"] /\ UNCHANGED <<idx, lim>>
          <3>1. \A v \in VA : v < idx[h] => pt[tgt[h]][v].pa = pt[table[h]][v].pa
              BY <1>1 DEF Copies
          <3>2. pt'[table[h]][idx[h]] = e /\ pt'[tgt[h]][idx[h]] = e
              BY <1>1, <2>1
          <3>3. ASSUME NEW v \in VA, v < idx[h]
                PROVE  pt'[tgt[h]][v].pa = pt'[table[h]][v].pa
              <4>1. v # idx[h]
                  BY <3>3, CowAssumption DEF VA
              <4>2. pt'[tgt[h]][v] = pt[tgt[h]][v] /\ pt'[table[h]][v] = pt[table[h]][v]
                  BY <1>1, <2>1, <4>1
              <4> QED BY <3>1, <3>3, <4>2
          <3> QED BY <1>1, <1>2, <2>1, <3>2, <3>3 DEF CopiesOf
      <2>2. CASE pc' = [pc EXCEPT ![h] = "undo"]
          <3>1. pc'[h] = "undo"
              BY <2>2 DEF Typed
          <3> QED BY <3>1, CopiesAway
      <2> QED BY <1>2, <2>1, <2>2
  <1> QED BY <1>1, <1>3, <1>4, CopiesStep

LEMMA CopiesForkRef ==
  ASSUME Typed, Places, Locals, Copies, NEW h \in Procs, ForkRef(h)
  PROVE  Copies'
  <1>1. /\ pc[h] = "fork_ref" /\ pc' = [pc EXCEPT ![h] = "fork_map"] /\ pc[h] # "none"
        /\ idx' = [idx EXCEPT ![h] = @ + 1] /\ UNCHANGED <<pt, table, tgt>>
      BY DEF ForkRef, proc
  <1>2. pc'[h] = "fork_map" /\ idx'[h] = idx[h] + 1
      BY <1>1 DEF Typed
  <1>3. \A g \in Procs \ {h} : pc'[g] = pc[g] /\ idx'[g] = idx[g]
      BY <1>1 DEF Typed
  <1>4. ASSUME NEW v \in VA, v < idx'[h]
        PROVE  pt'[tgt'[h]][v].pa = pt'[table'[h]][v].pa
      <2>1. v < idx[h] \/ v = idx[h]
          BY <1>2, <1>4, CowAssumption DEF VA, Typed
      <2> QED BY <1>1, <2>1 DEF Copies
  <1>5. CopiesOf(h)'
      BY <1>2, <1>4 DEF CopiesOf
  <1> QED BY <1>1, <1>3, <1>5, CopiesStep

LEMMA CopiesForkStart ==
  ASSUME Typed, Places, Locals, Copies, NEW h \in Procs, NEW c \in Procs, NEW t \in Tables,
         ForkStart(h, c, t)
  PROVE  Copies'
  <1>1. /\ pc[h] = "user" /\ life[c] = "unused"
        /\ pc' = [pc EXCEPT ![h] = "fork_map"] /\ idx' = [idx EXCEPT ![h] = 0]
        /\ table' = [table EXCEPT ![c] = t] /\ tgt' = [tgt EXCEPT ![h] = t] /\ pt' = pt
      BY DEF ForkStart
  <1>2. pc[c] = "none"
      BY <1>1 DEF Places
  <1>3. \A g \in Procs \ {h} : pc'[g] \in {"fork_map", "fork_ref"} =>
           /\ pc'[g] = pc[g] /\ idx'[g] = idx[g]
           /\ tgt'[g] = tgt[g] /\ table'[g] = table[g]
      BY <1>1, <1>2 DEF Typed
  <1>4. pc'[h] = "fork_map" /\ idx'[h] = 0 /\ \A v \in VA : ~(v < 0)
      BY <1>1, CowAssumption DEF Typed, VA
  <1>5. CopiesOf(h)'
      BY <1>4 DEF CopiesOf
  <1> QED BY <1>1, <1>3, <1>5, CopiesStep

-----------------------------------------------------------------------------
\* Every step keeps the tables as they should be.

Kept == Places /\ Locals /\ Shapes /\ Copies

LEMMA KeptAll ==
  ASSUME Places', \A g \in Procs : LocalsOf(g)', Shapes', Copies'
  PROVE  Kept'
  BY LocalsEachNext DEF Kept

\* A step that leaves the other calls alone and does not copy.
LEMMA CopiesLeft ==
  ASSUME Typed, Places, Copies, NEW h \in Procs, pc[h] # "none", NEW k,
         k \notin {"fork_map", "fork_ref"}, pc' = [pc EXCEPT ![h] = k],
         \A g \in Procs \ {h} : /\ idx'[g] = idx[g] /\ tgt'[g] = tgt[g]
                                /\ pc[g] \in {"fork_map", "fork_ref"} => table'[g] = table[g],
         \A s \in Tables \ {table[h], tgt[h]} : pt'[s] = pt[s]
  PROVE  Copies'
  <1>1. pc'[h] = k /\ \A g \in Procs \ {h} : pc'[g] = pc[g]
      BY DEF Typed
  <1>2. CopiesOf(h)'
      BY <1>1, CopiesAway
  <1> QED BY <1>1, <1>2, CopiesStep

LEMMA KeptZombie ==
  ASSUME Typed, Kept, NEW h \in Procs, pc[h] \in {"user", "f_alloc"}, BecomeZombie(h)
  PROVE  Kept'
  <1>1. /\ pc[h] \in {"user"} \cup FaultPoints /\ pg[h] = NoPage /\ pc[h] # "none"
      BY DEF Kept, Locals, FaultPoints
  <1>2. Places'
      BY <1>1, PlacesZombie DEF Kept
  <1>3. \A g \in Procs : LocalsOf(g)'
      BY <1>1, LocalsZombie DEF Kept
  <1>4. Shapes'
      BY <1>1, ShapesZombie DEF Kept
  <1>5. Copies'
      <2>1. pc' = [pc EXCEPT ![h] = "none"] /\ UNCHANGED <<pt, table, tgt>>
            /\ \A g \in Procs \ {h} : idx'[g] = idx[g]
          BY DEF BecomeZombie, Typed
      <2> QED BY <1>1, <2>1, CopiesLeft DEF Kept
  <1> QED BY <1>2, <1>3, <1>4, <1>5, KeptAll

LEMMA KeptPanic ==
  ASSUME Typed, Kept, NEW h \in Procs, pc[h] \in {"f_alloc", "grow", "exec"}, Panic(h)
  PROVE  Kept'
  <1>1. /\ pg[h] = NoPage /\ pc[h] # "none" /\ Stays(pc[h], "panic")
      BY DEF Kept, Locals, FaultPoints, OwnPoints, ExecPoints, Stays
  <1>2. pc' = [pc EXCEPT ![h] = "panic"] /\ UNCHANGED <<pt, table, tgt, life, idx>>
      BY DEF Panic, proc, local
  <1>3. Places'
      BY <1>1, <1>2, PlacesSame DEF Kept
  <1>4. \A g \in Procs : LocalsOf(g)'
      BY <1>1, LocalsPanic DEF Kept
  <1>5. Shapes'
      BY <1>1, ShapesPanic DEF Kept
  <1>6. Copies'
      BY <1>1, <1>2, CopiesLeft DEF Kept
  <1> QED BY <1>3, <1>4, <1>5, <1>6, KeptAll

\* A user store, and a system call's.
LEMMA KeptStore ==
  ASSUME Kept, UNCHANGED <<pt, table, sz, life, pc, tgt, idx, lim, low, pg>>
  PROVE  Kept'
  BY DEF Kept, Places, Locals, Shapes, Copies, Exact, Shape, Valid, FreeTables

\* One step of the store fault.
LEMMA KeptFaultStep ==
  ASSUME Typed, Kept, NEW h \in Procs, NEW k,
         \/ pc[h] = "user" /\ k = "f_alloc" /\ pg' = pg /\ idx'[h] < sz[h]
         \/ pc[h] = "f_alloc" /\ k = "f_copy" /\ pg'[h] # NoPage /\ idx'[h] = idx[h]
         \/ pc[h] = "f_copy" /\ k = "f_map" /\ pg'[h] # NoPage /\ idx'[h] = idx[h]
         \/ pc[h] = "f_map" /\ k = "f_drop" /\ pg'[h] # NoPage /\ idx'[h] = idx[h],
         pc' = [pc EXCEPT ![h] = k], UNCHANGED <<sz, lim, low, table, life, tgt>>,
         \A g \in Procs : g # h => idx'[g] = idx[g] /\ pg'[g] = pg[g],
         pt' = pt \/ FaultMap(h)
  PROVE  Kept'
  <1>1. /\ Stays(pc[h], k) /\ pc[h] # "none" /\ k \notin {"fork_map", "fork_ref"}
        /\ k \in {"user"} \cup FaultPoints /\ pc[h] \in {"user"} \cup FaultPoints
      BY DEF Stays, FaultPoints
  <1>2. Places'
      BY <1>1, PlacesSame DEF Kept
  <1>3. \A g \in Procs : LocalsOf(g)'
      BY LocalsFault DEF Kept
  <1>4. Shapes'
      BY <1>1, ShapesFault DEF Kept
  <1>5. \A s \in Tables \ {table[h], tgt[h]} : pt'[s] = pt[s]
      <2>1. CASE FaultMap(h)
          BY <2>1, FaultMapIs DEF Kept, RowsBut
      <2> QED BY <2>1
  <1>6. Copies'
      BY <1>1, <1>5, CopiesLeft DEF Kept
  <1> QED BY <1>2, <1>3, <1>4, <1>6, KeptAll

LEMMA KeptFault ==
  ASSUME Typed, Kept, NEW h \in Procs,
         \/ \E v \in VA : StoreFault(h, v)
         \/ FaultAlloc(h) \/ FaultCopy(h) \/ FaultMap(h)
  PROVE  Kept'
  <1>1. ASSUME NEW v \in VA, StoreFault(h, v) PROVE Kept'
      <2>1. CASE BecomeZombie(h)
          BY <1>1, <2>1, KeptZombie DEF StoreFault
      <2>2. CASE ~BecomeZombie(h)
          <3>1. /\ pc[h] = "user" /\ Valid(table[h], v)
                /\ pc' = [pc EXCEPT ![h] = "f_alloc"]
                /\ idx' = [idx EXCEPT ![h] = v]
                /\ UNCHANGED <<pt, table, sz, life, tgt, lim, low, pg>>
              BY <1>1, <2>2 DEF StoreFault, proc
          <3>2. Exact(h)
              BY <3>1 DEF Kept, Shapes, Places, OwnPoints
          <3>3. idx'[h] < sz[h] /\ \A g \in Procs : g # h => idx'[g] = idx[g]
              BY <3>1, <3>2 DEF Exact, Typed
          <3> QED BY <3>1, <3>3, KeptFaultStep
      <2> QED BY <2>1, <2>2
  <1>2. CASE FaultAlloc(h)
      <2>1. pc[h] = "f_alloc"
          BY <1>2 DEF FaultAlloc
      <2>2. ASSUME NEW q \in free, pg' = [pg EXCEPT ![h] = q],
                   pc' = [pc EXCEPT ![h] = "f_copy"],
                   UNCHANGED <<pt, proc, tgt, idx, lim, low>>
            PROVE  Kept'
          <3>1. pg'[h] # NoPage /\ \A g \in Procs : g # h => pg'[g] = pg[g]
              BY <2>2, CowAssumption DEF Typed
          <3> QED BY <2>1, <2>2, <3>1, KeptFaultStep DEF proc
      <2> QED BY <1>2, <2>1, <2>2, KeptZombie, KeptPanic DEF FaultAlloc
  <1>3. CASE FaultCopy(h)
      <2>1. /\ pc[h] = "f_copy" /\ pc' = [pc EXCEPT ![h] = "f_map"]
            /\ UNCHANGED <<pt, table, sz, life, tgt, idx, lim, low, pg>>
          BY <1>3 DEF FaultCopy, proc, local
      <2>2. pg'[h] # NoPage
          BY <2>1 DEF Kept, Locals
      <2> QED BY <2>1, <2>2, KeptFaultStep
  <1>4. CASE FaultMap(h)
      <2>1. /\ pc[h] = "f_map" /\ pc' = [pc EXCEPT ![h] = "f_drop"]
            /\ pg' = [pg EXCEPT ![h] = pt[table[h]][idx[h]].pa]
            /\ UNCHANGED <<table, sz, life, tgt, idx, lim, low>>
          BY <1>4 DEF FaultMap, proc
      <2>2. pt[table[h]][idx[h]].pa # NoPage
          BY <2>1, FaultPage, CowAssumption DEF Kept, FaultPoints
      <2>3. pg'[h] # NoPage /\ \A g \in Procs : g # h => pg'[g] = pg[g]
          BY <2>1, <2>2 DEF Typed
      <2> QED BY <1>4, <2>1, <2>3, KeptFaultStep
  <1> QED BY <1>1, <1>2, <1>3, <1>4

LEMMA KeptFaultDrop ==
  ASSUME Typed, Kept, NEW h \in Procs, FaultDrop(h)
  PROVE  Kept'
  <1>1. /\ pc[h] = "f_drop" /\ Return(h) /\ UNCHANGED <<pt, table, sz, life>>
      BY DEF FaultDrop, proc
  <1>2. /\ pc' = [pc EXCEPT ![h] = "user"] /\ pc[h] # "none"
        /\ \A g \in Procs \ {h} : /\ idx'[g] = idx[g] /\ lim'[g] = lim[g]
                                  /\ low'[g] = low[g] /\ tgt'[g] = tgt[g]
        /\ tgt' = [tgt EXCEPT ![h] = NoTable]
      BY <1>1 DEF Return, Typed
  <1>3. tgt' = tgt
      <2>1. tgt[h] = NoTable
          BY <1>1 DEF Kept, Places, FaultPoints
      <2> QED BY <1>2, <2>1 DEF Typed
  <1>4. Places'
      BY <1>1, <1>2, PlacesReturn DEF Kept
  <1>5. \A g \in Procs : LocalsOf(g)'
      BY <1>1, LocalsReturn DEF Kept
  <1>6. Shapes'
      <2>1. "user" \in {"user"} \cup FaultPoints /\ pc[h] \in {"user"} \cup FaultPoints
          BY <1>1 DEF FaultPoints
      <2> QED BY <1>1, <1>2, <1>3, <2>1, ShapesFault DEF Kept
  <1>7. Copies'
      BY <1>1, <1>2, CopiesLeft DEF Kept
  <1> QED BY <1>4, <1>5, <1>6, <1>7, KeptAll

LEMMA KeptFork ==
  ASSUME Typed, Kept, NEW h \in Procs,
         \/ \E c \in Procs, t \in Tables : ForkStart(h, c, t)
         \/ ForkMap(h) \/ ForkRef(h) \/ ForkDone(h)
  PROVE  Kept'
  <1>1. ASSUME NEW c \in Procs, NEW t \in Tables, ForkStart(h, c, t) PROVE Kept'
      <2>1. Places' /\ Shapes' /\ Copies'
          BY <1>1, PlacesForkStart, ShapesForkStart, CopiesForkStart DEF Kept
      <2>2. \A g \in Procs : LocalsOf(g)'
          BY <1>1, LocalsForkStart DEF Kept
      <2> QED BY <2>1, <2>2, KeptAll
  <1>2. CASE ForkMap(h)
      <2>1. PICK k \in {"fork_ref", "undo"} : pc' = [pc EXCEPT ![h] = k]
          BY <1>2 DEF ForkMap
      <2>2. Stays(pc[h], k) /\ UNCHANGED <<life, table, tgt>>
          BY <1>2 DEF ForkMap, Stays, ForkPoints, proc
      <2>3. Places'
          BY <2>1, <2>2, PlacesSame DEF Kept
      <2>4. Shapes' /\ Copies'
          BY <1>2, ShapesForkMap, CopiesForkMap DEF Kept
      <2>5. \A g \in Procs : LocalsOf(g)'
          BY <1>2, LocalsForkMap DEF Kept
      <2> QED BY <2>3, <2>4, <2>5, KeptAll
  <1>3. CASE ForkRef(h)
      <2>1. /\ pc' = [pc EXCEPT ![h] = "fork_map"] /\ Stays(pc[h], "fork_map")
            /\ UNCHANGED <<life, table, tgt>>
          BY <1>3 DEF ForkRef, Stays, ForkPoints, proc
      <2>2. Places'
          BY <2>1, PlacesSame DEF Kept
      <2>3. Shapes' /\ Copies'
          BY <1>3, ShapesForkRef, CopiesForkRef DEF Kept
      <2>4. \A g \in Procs : LocalsOf(g)'
          BY <1>3, LocalsForkRef DEF Kept
      <2> QED BY <2>2, <2>3, <2>4, KeptAll
  <1>4. CASE ForkDone(h)
      <2>1. Places' /\ Shapes'
          BY <1>4, PlacesForkDone, ShapesForkDone DEF Kept
      <2>2. \A g \in Procs : LocalsOf(g)'
          BY <1>4, LocalsForkDone DEF Kept
      <2>3. Copies'
          <3>1. PICK c \in Procs : pc' = [pc EXCEPT ![h] = "user", ![c] = "user"]
              BY <1>4 DEF ForkDone
          <3>2. /\ pc[h] = "fork_map" /\ tgt' = [tgt EXCEPT ![h] = NoTable]
                /\ idx' = [idx EXCEPT ![h] = 0] /\ UNCHANGED <<pt, table>>
              BY <1>4 DEF ForkDone
          <3>3. \A g \in Procs \ {h} : pc'[g] \in {"fork_map", "fork_ref"} =>
                  /\ pc'[g] = pc[g] /\ idx'[g] = idx[g]
                  /\ tgt'[g] = tgt[g] /\ table'[g] = table[g]
              BY <3>1, <3>2 DEF Typed
          <3>4. pc'[h] = "user"
              BY <3>1 DEF Typed
          <3>5. CopiesOf(h)'
              BY <3>4, CopiesAway
          <3> QED BY <3>2, <3>3, <3>5, CopiesStep DEF Kept
      <2> QED BY <2>1, <2>2, <2>3, KeptAll
  <1> QED BY <1>1, <1>2, <1>3, <1>4

LEMMA KeptUnmap ==
  ASSUME Typed, Kept, NEW h \in Procs, UnmapDec(h) \/ UnmapClear(h)
  PROVE  Kept'
  <1>1. CASE UnmapDec(h)
      <2>1. PICK k : k = Clearing[pc[h]]
          OBVIOUS
      <2>2. /\ pc[h] \in Unmapping /\ pc' = [pc EXCEPT ![h] = k]
            /\ UNCHANGED <<pt, life, table, tgt, idx>>
          BY <1>1, <2>1 DEF UnmapDec, proc, local
      <2>3. Stays(pc[h], k) /\ k \notin {"fork_map", "fork_ref"} /\ pc[h] # "none"
          BY <2>1, <2>2, ClearingIs DEF Unmapping, Stays, ForkPoints, OwnPoints, ExecPoints,
             ReapPoints
      <2>4. Places'
          BY <2>2, <2>3, PlacesSame DEF Kept
      <2>5. Shapes'
          BY <1>1, ShapesUnmapDec DEF Kept
      <2>6. Copies'
          BY <2>2, <2>3, CopiesLeft DEF Kept
      <2>7. \A g \in Procs : LocalsOf(g)'
          BY <1>1, LocalsUnmapDec DEF Kept
      <2> QED BY <2>4, <2>5, <2>6, <2>7, KeptAll
  <1>2. CASE UnmapClear(h)
      <2>1. /\ RowsBut(tgt[h]) /\ idx' = [idx EXCEPT ![h] = @ + 1]
            /\ UNCHANGED <<life, table, tgt>>
          BY <1>2, UnmapClearIs DEF Kept, proc
      <2>2. PICK k \in Unmapping : pc[h] = Clearing[k] /\ pc' = [pc EXCEPT ![h] = k]
          BY <1>2, UnmapClearIs DEF Kept
      <2>3. Stays(pc[h], k) /\ k \notin {"fork_map", "fork_ref"} /\ pc[h] # "none"
          BY <2>1, <2>2, ClearingIs DEF Unmapping, Stays, ForkPoints, OwnPoints, ExecPoints,
             ReapPoints
      <2>4. Places'
          BY <2>1, <2>2, <2>3, PlacesSame DEF Kept
      <2>5. Shapes'
          BY <1>2, ShapesUnmapClear DEF Kept
      <2>6. Copies'
          <3>1. \A g \in Procs \ {h} : idx'[g] = idx[g]
              BY <2>1 DEF Typed
          <3> QED BY <2>1, <2>2, <2>3, <3>1, CopiesLeft DEF Kept, RowsBut
      <2>7. \A g \in Procs : LocalsOf(g)'
          BY <1>2, LocalsUnmapClear DEF Kept
      <2> QED BY <2>4, <2>5, <2>6, <2>7, KeptAll
  <1> QED BY <1>1, <1>2

LEMMA KeptFreeProc ==
  ASSUME Typed, Kept, NEW h \in Procs, FreeProc(h)
  PROVE  Kept'
  <1>1. Places' /\ Shapes'
      BY PlacesFreeProc, ShapesFreeProc DEF Kept
  <1>2. \A g \in Procs : LocalsOf(g)'
      BY LocalsFreeProc DEF Kept
  <1>3. Copies'
      <2>1. PICK c \in Procs : table[c] = tgt[h] /\ c # h /\ table' = [table EXCEPT ![c] = NoTable]
          BY DEF FreeProc
      <2>2. UnmapEnd(h) /\ Return(h) /\ pt' = pt /\ pc[h] \in {"undo", "reap"}
          BY DEF FreeProc
      <2>3. pc[h] # "none" /\ tgt[h] # NoTable
          BY <2>2, Unmapped, CowAssumption DEF Kept
      <2>4. pc[c] = "none"
          BY <2>1, <2>3 DEF Kept, Places
      <2>5. /\ pc' = [pc EXCEPT ![h] = "user"]
            /\ \A g \in Procs \ {h} :
                 /\ idx'[g] = idx[g] /\ tgt'[g] = tgt[g]
                 /\ pc[g] \in {"fork_map", "fork_ref"} => table'[g] = table[g]
          BY <2>1, <2>2, <2>4 DEF Return, Typed
      <2>6. /\ Places /\ Copies /\ "user" \notin {"fork_map", "fork_ref"}
            /\ \A s \in Tables \ {table[h], tgt[h]} : pt'[s] = pt[s]
          BY <2>2 DEF Kept
      <2> QED BY <2>3, <2>5, <2>6, CopiesLeft
  <1> QED BY <1>1, <1>2, <1>3, KeptAll

LEMMA KeptDone ==
  ASSUME Typed, Kept, NEW h \in Procs, DeallocDone(h) \/ DiscardDone(h) \/ GrowDone(h)
  PROVE  Kept'
  <1>1. /\ pc[h] \in {"dealloc", "discard", "grow"} /\ pc[h] # "none" /\ Return(h)
        /\ UNCHANGED <<pt, table, life>>
      BY DEF DeallocDone, DiscardDone, GrowDone, UnmapEnd, proc
  <1>2. \E n : sz' = [sz EXCEPT ![h] = n] \/ sz' = sz
      BY DEF DeallocDone, DiscardDone, GrowDone, proc
  <1>3. /\ pc' = [pc EXCEPT ![h] = "user"] /\ tgt' = [tgt EXCEPT ![h] = NoTable]
        /\ \A g \in Procs \ {h} : idx'[g] = idx[g] /\ tgt'[g] = tgt[g]
      BY <1>1 DEF Return, Typed
  <1>4. Places'
      BY <1>1, <1>3, PlacesReturn DEF Kept
  <1>5. \A g \in Procs : LocalsOf(g)'
      BY <1>1, <1>2, LocalsReturn DEF Kept
  <1>6. Shapes'
      BY ShapesDone DEF Kept
  <1>7. Copies'
      BY <1>1, <1>3, CopiesLeft DEF Kept
  <1> QED BY <1>4, <1>5, <1>6, <1>7, KeptAll

LEMMA KeptStart ==
  ASSUME Typed, Kept, NEW h \in Procs,
         \/ \E n \in Deltas : GrowStart(h, n) \/ ShrinkStart(h, n)
         \/ \E t \in Tables, n \in ImageSizes : ExecStart(h, t, n)
         \/ \E c \in Procs : ReapStart(h, c)
  PROVE  Kept'
  <1>1. PICK k \in {"grow", "dealloc", "exec", "reap"} : pc' = [pc EXCEPT ![h] = k]
      BY DEF GrowStart, ShrinkStart, ExecStart, ReapStart
  <1>2. /\ pc[h] = "user" /\ UNCHANGED <<pt, table>>
        /\ \A g \in Procs \ {h} : idx'[g] = idx[g] /\ tgt'[g] = tgt[g]
      BY DEF GrowStart, ShrinkStart, ExecStart, ReapStart, proc, Typed
  <1>3. Copies'
      BY <1>1, <1>2, CopiesLeft DEF Kept
  <1>4. Shapes'
      BY ShapesStart DEF Kept
  <1>5. Places'
      BY PlacesOwnStart, PlacesExecStart, PlacesReapStart DEF Kept
  <1>6. \A g \in Procs : LocalsOf(g)'
      BY LocalsGrowStart, LocalsShrinkStart, LocalsExecStart, LocalsReapStart DEF Kept
  <1> QED BY <1>3, <1>4, <1>5, <1>6, KeptAll

LEMMA KeptBuild ==
  ASSUME Typed, Kept, NEW h \in Procs, GrowPage(h) \/ ExecPage(h) \/ ExecCommit(h)
  PROVE  Kept'
  <1>1. ASSUME NEW q \in free, NewPage(h, q) PROVE Kept'
      <2>1. /\ pc[h] \in {"grow", "exec"} /\ idx[h] < lim[h] /\ RowsBut(tgt[h])
            /\ idx' = [idx EXCEPT ![h] = @ + 1] /\ pc[h] # "none"
            /\ UNCHANGED <<table, sz, life, pc, tgt, lim, low, pg>>
          BY <1>1 DEF NewPage
      <2>2. /\ pc' = [pc EXCEPT ![h] = pc[h]] /\ Stays(pc[h], pc[h])
            /\ pc[h] \notin {"fork_map", "fork_ref"}
          BY <2>1 DEF Typed, Stays, OwnPoints, ExecPoints
      <2>3. Places'
          BY <2>1, <2>2, PlacesSame DEF Kept
      <2>4. \A g \in Procs : LocalsOf(g)'
          BY <2>1, LocalsNewPage DEF Kept, proc
      <2>5. Shapes'
          BY <1>1, ShapesNewPage DEF Kept
      <2>6. Copies'
          <3>1. \A g \in Procs \ {h} : idx'[g] = idx[g]
              BY <2>1 DEF Typed
          <3> QED BY <2>1, <2>2, <3>1, CopiesLeft DEF Kept, RowsBut
      <2> QED BY <2>3, <2>4, <2>5, <2>6, KeptAll
  <1>2. CASE \/ pc[h] = "grow" /\ UvmallocFails(h, "dealloc")
             \/ pc[h] = "exec" /\ UvmallocFails(h, "discard")
      <2>1. PICK k \in {"dealloc", "discard"} :
              /\ pc' = [pc EXCEPT ![h] = k] /\ Stays(pc[h], k)
              /\ UNCHANGED <<pt, life, table, tgt>> /\ pc[h] # "none"
              /\ \A g \in Procs \ {h} : idx'[g] = idx[g]
          BY <1>2 DEF UvmallocFails, Stays, OwnPoints, ExecPoints, proc, Typed
      <2>2. Places'
          BY <2>1, PlacesSame DEF Kept
      <2>3. \A g \in Procs : LocalsOf(g)'
          BY <1>2, LocalsFails DEF Kept
      <2>4. Shapes'
          BY <1>2, ShapesFails DEF Kept
      <2>5. Copies'
          BY <2>1, CopiesLeft DEF Kept
      <2> QED BY <2>2, <2>3, <2>4, <2>5, KeptAll
  <1>3. CASE pc[h] \in {"grow", "exec"} /\ Panic(h)
      BY <1>3, KeptPanic
  <1>4. CASE ExecCommit(h)
      <2>1. Places' /\ Shapes'
          BY <1>4, PlacesExecCommit, ShapesExecCommit DEF Kept
      <2>2. \A g \in Procs : LocalsOf(g)'
          BY <1>4, LocalsExecCommit DEF Kept
      <2>3. Copies'
          <3>1. /\ pc[h] = "exec" /\ pc' = [pc EXCEPT ![h] = "discard"] /\ pt' = pt
                /\ \A g \in Procs \ {h} : /\ idx'[g] = idx[g] /\ tgt'[g] = tgt[g]
                                          /\ table'[g] = table[g]
              BY <1>4 DEF ExecCommit, Typed
          <3> QED BY <3>1, CopiesLeft DEF Kept
      <2> QED BY <2>1, <2>2, <2>3, KeptAll
  <1> QED BY <1>1, <1>2, <1>3, <1>4, NewPageIs DEF Kept

LEMMA KeptNext ==
  ASSUME Typed, Kept, Next
  PROVE  Kept'
  <1>1. PICK h \in Procs :
    \/ \E v \in VA, x \in Vals : UserStore(h, v, x) \/ Copyout(h, v, x)
    \/ \E v \in VA : StoreFault(h, v)
    \/ FaultAlloc(h) \/ FaultCopy(h) \/ FaultMap(h) \/ FaultDrop(h)
    \/ \E c \in Procs, t \in Tables : ForkStart(h, c, t)
    \/ ForkMap(h) \/ ForkRef(h) \/ ForkDone(h)
    \/ UnmapDec(h) \/ UnmapClear(h)
    \/ FreeProc(h) \/ DeallocDone(h) \/ DiscardDone(h)
    \/ \E n \in Deltas : GrowStart(h, n) \/ ShrinkStart(h, n)
    \/ GrowPage(h) \/ GrowDone(h)
    \/ \E t \in Tables, n \in ImageSizes : ExecStart(h, t, n)
    \/ ExecPage(h) \/ ExecCommit(h)
    \/ Exit(h)
    \/ \E c \in Procs : ReapStart(h, c)
      BY DEF Next
  <1>2. CASE \E v \in VA, x \in Vals : UserStore(h, v, x) \/ Copyout(h, v, x)
      <2>1. UNCHANGED <<pt, table, sz, life, pc, tgt, idx, lim, low, pg>>
          BY <1>2 DEF UserStore, Copyout, proc, local
      <2> QED BY <2>1, KeptStore
  <1>3. CASE Exit(h)
      BY <1>3, KeptZombie DEF Exit
  <1>4. CASE \/ \E v \in VA : StoreFault(h, v)
             \/ FaultAlloc(h) \/ FaultCopy(h) \/ FaultMap(h) \/ FaultDrop(h)
      BY <1>4, KeptFault, KeptFaultDrop
  <1>5. CASE \/ \E c \in Procs, t \in Tables : ForkStart(h, c, t)
             \/ ForkMap(h) \/ ForkRef(h) \/ ForkDone(h)
      BY <1>5, KeptFork
  <1>6. CASE \/ UnmapDec(h) \/ UnmapClear(h)
             \/ FreeProc(h) \/ DeallocDone(h) \/ DiscardDone(h) \/ GrowDone(h)
      BY <1>6, KeptUnmap, KeptFreeProc, KeptDone
  <1>7. CASE \/ \E n \in Deltas : GrowStart(h, n) \/ ShrinkStart(h, n)
             \/ \E t \in Tables, n \in ImageSizes : ExecStart(h, t, n)
             \/ \E c \in Procs : ReapStart(h, c)
      BY <1>7, KeptStart
  <1>8. CASE GrowPage(h) \/ ExecPage(h) \/ ExecCommit(h)
      BY <1>8, KeptBuild
  <1> QED BY <1>1, <1>2, <1>3, <1>4, <1>5, <1>6, <1>7, <1>8

-----------------------------------------------------------------------------
\* Counting references: at gives the page each counted PTE refers to, gp the page
\* each process carries.

Entries == Tables \X VA
MappingsOf(at, p) == {e \in Entries : at[e] = p}
CarriersOf(gp, p) == {h \in Procs : gp[h] = p}
Count(at, gp, p) == Cardinality(MappingsOf(at, p)) + Cardinality(CarriersOf(gp, p))
CountIs(at, gp, rf, fr) ==
  \A p \in Pages : rf[p] = Count(at, gp, p) /\ (p \in fr <=> rf[p] = 0)
One(a, p) == IF a = p THEN 1 ELSE 0

LEMMA FiniteRefs ==
  ASSUME NEW at, NEW gp, NEW p
  PROVE  /\ IsFiniteSet(MappingsOf(at, p)) /\ Cardinality(MappingsOf(at, p)) \in Nat
         /\ IsFiniteSet(CarriersOf(gp, p)) /\ Cardinality(CarriersOf(gp, p)) \in Nat
         /\ Count(at, gp, p) \in Nat
  <1>1. IsFiniteSet(Procs) /\ IsFiniteSet(Tables) /\ IsFiniteSet(VA)
      BY CowAssumption, FS_Interval DEF VA
  <1>2. IsFiniteSet(Entries)
      BY <1>1, FS_Product DEF Entries
  <1>3. MappingsOf(at, p) \in SUBSET Entries /\ CarriersOf(gp, p) \in SUBSET Procs
      BY DEF MappingsOf, CarriersOf
  <1>4. /\ IsFiniteSet(MappingsOf(at, p)) /\ IsFiniteSet(CarriersOf(gp, p))
      BY <1>1, <1>2, <1>3, FS_Subset
  <1>5. /\ Cardinality(MappingsOf(at, p)) \in Nat /\ Cardinality(CarriersOf(gp, p)) \in Nat
      BY <1>4, FS_CardinalityType
  <1> QED BY <1>4, <1>5 DEF Count

\* A page without references has none.
LEMMA NoRefs ==
  ASSUME NEW at, NEW gp, NEW p
  PROVE  Count(at, gp, p) = 0 <=> MappingsOf(at, p) = {} /\ CarriersOf(gp, p) = {}
  <1>1. /\ Cardinality(MappingsOf(at, p)) = 0 <=> MappingsOf(at, p) = {}
        /\ Cardinality(CarriersOf(gp, p)) = 0 <=> CarriersOf(gp, p) = {}
      BY FiniteRefs, FS_EmptySet
  <1>2. /\ Cardinality(MappingsOf(at, p)) \in Nat /\ Cardinality(CarriersOf(gp, p)) \in Nat
      BY FiniteRefs
  <1> QED BY <1>1, <1>2 DEF Count

LEMMA Referenced ==
  ASSUME NEW at, NEW gp, NEW rf, NEW fr, CountIs(at, gp, rf, fr), NEW p \in Pages
  PROVE  /\ rf[p] \in Nat
         /\ \A e \in Entries : at[e] = p => rf[p] # 0 /\ p \notin fr
         /\ \A h \in Procs : gp[h] = p => rf[p] # 0 /\ p \notin fr
         /\ p \in fr => MappingsOf(at, p) = {} /\ CarriersOf(gp, p) = {}
  <1>1. rf[p] = Count(at, gp, p) /\ (p \in fr <=> rf[p] = 0) /\ rf[p] \in Nat
      BY FiniteRefs DEF CountIs
  <1>2. rf[p] = 0 <=> MappingsOf(at, p) = {} /\ CarriersOf(gp, p) = {}
      BY <1>1, NoRefs
  <1>3. /\ \A e \in Entries : at[e] = p => e \in MappingsOf(at, p)
        /\ \A h \in Procs : gp[h] = p => h \in CarriersOf(gp, p)
      BY DEF MappingsOf, CarriersOf
  <1> QED BY <1>1, <1>2, <1>3

\* Two sets that differ at most in x.
LEMMA ChangeAt ==
  ASSUME NEW S, NEW T, NEW x, IsFiniteSet(S), IsFiniteSet(T),
         \A r : r # x => (r \in S <=> r \in T)
  PROVE  Cardinality(T) = Cardinality(S) - (IF x \in S THEN 1 ELSE 0)
                                         + (IF x \in T THEN 1 ELSE 0)
  <1>1. S \ {x} = T \ {x}
      OBVIOUS
  <1>2. /\ Cardinality(S \ {x}) = IF x \in S THEN Cardinality(S) - 1 ELSE Cardinality(S)
        /\ Cardinality(T \ {x}) = IF x \in T THEN Cardinality(T) - 1 ELSE Cardinality(T)
      BY FS_RemoveElement
  <1>3. PICK m \in Nat, n \in Nat : m = Cardinality(S) /\ n = Cardinality(T)
      BY FS_CardinalityType
  <1>4. (IF x \in S THEN m - 1 ELSE m) = (IF x \in T THEN n - 1 ELSE n)
      BY <1>1, <1>2, <1>3
  <1>5. n = m - (IF x \in S THEN 1 ELSE 0) + (IF x \in T THEN 1 ELSE 0)
      BY <1>4
  <1> QED BY <1>3, <1>5

\* One PTE and the page of one process change.
OnlyAt(x, at, at2) == \A e \in Entries \ {x} : at2[e] = at[e]
OnlyOf(h, gp, gp2) == \A g \in Procs \ {h} : gp2[g] = gp[g]

LEMMA Recount ==
  ASSUME NEW at, NEW at2, NEW gp, NEW gp2, NEW x \in Entries, NEW h \in Procs, NEW p,
         OnlyAt(x, at, at2),
         OnlyOf(h, gp, gp2)
  PROVE  Count(at2, gp2, p) = Count(at, gp, p) - One(at[x], p) + One(at2[x], p)
                                               - One(gp[h], p) + One(gp2[h], p)
  <1>1. /\ x \in MappingsOf(at, p) <=> at[x] = p
        /\ x \in MappingsOf(at2, p) <=> at2[x] = p
        /\ h \in CarriersOf(gp, p) <=> gp[h] = p
        /\ h \in CarriersOf(gp2, p) <=> gp2[h] = p
      BY DEF MappingsOf, CarriersOf
  <1>2. /\ \A r : r # x => (r \in MappingsOf(at, p) <=> r \in MappingsOf(at2, p))
        /\ \A r : r # h => (r \in CarriersOf(gp, p) <=> r \in CarriersOf(gp2, p))
      BY DEF MappingsOf, CarriersOf, OnlyAt, OnlyOf
  <1>3. /\ IsFiniteSet(MappingsOf(at, p)) /\ IsFiniteSet(MappingsOf(at2, p))
        /\ IsFiniteSet(CarriersOf(gp, p)) /\ IsFiniteSet(CarriersOf(gp2, p))
      BY FiniteRefs
  <1>4. Cardinality(MappingsOf(at2, p)) = Cardinality(MappingsOf(at, p))
          - (IF x \in MappingsOf(at, p) THEN 1 ELSE 0)
          + (IF x \in MappingsOf(at2, p) THEN 1 ELSE 0)
      BY <1>2, <1>3, ChangeAt
  <1>5. Cardinality(CarriersOf(gp2, p)) = Cardinality(CarriersOf(gp, p))
          - (IF h \in CarriersOf(gp, p) THEN 1 ELSE 0)
          + (IF h \in CarriersOf(gp2, p) THEN 1 ELSE 0)
      BY <1>2, <1>3, ChangeAt
  <1>6. PICK m \in Nat, m2 \in Nat, c \in Nat, c2 \in Nat :
          /\ m = Cardinality(MappingsOf(at, p)) /\ m2 = Cardinality(MappingsOf(at2, p))
          /\ c = Cardinality(CarriersOf(gp, p)) /\ c2 = Cardinality(CarriersOf(gp2, p))
      BY FiniteRefs
  <1>7. /\ m2 = m - One(at[x], p) + One(at2[x], p)
        /\ c2 = c - One(gp[h], p) + One(gp2[h], p)
      BY <1>1, <1>4, <1>5, <1>6 DEF One
  <1>8. /\ One(at[x], p) \in Int /\ One(at2[x], p) \in Int
        /\ One(gp[h], p) \in Int /\ One(gp2[h], p) \in Int
      BY DEF One
  <1>9. m2 + c2 = (m + c) - One(at[x], p) + One(at2[x], p) - One(gp[h], p) + One(gp2[h], p)
      BY <1>7, <1>8
  <1> QED BY <1>6, <1>9 DEF Count

\* The counts follow a step that changes them as the references change.
Follows(at, at2, gp, gp2, rf, rf2, fr2, x, h) ==
  \A p \in Pages :
    /\ rf2[p] = rf[p] - One(at[x], p) + One(at2[x], p) - One(gp[h], p) + One(gp2[h], p)
    /\ p \in fr2 <=> rf2[p] = 0

LEMMA CountStep ==
  ASSUME NEW at, NEW at2, NEW gp, NEW gp2, NEW rf, NEW rf2, NEW fr, NEW fr2,
         NEW x \in Entries, NEW h \in Procs, CountIs(at, gp, rf, fr),
         OnlyAt(x, at, at2),
         OnlyOf(h, gp, gp2),
         Follows(at, at2, gp, gp2, rf, rf2, fr2, x, h)
  PROVE  CountIs(at2, gp2, rf2, fr2)
  <1>1. ASSUME NEW p \in Pages
        PROVE  rf2[p] = Count(at2, gp2, p) /\ (p \in fr2 <=> rf2[p] = 0)
      <2>1. Count(at2, gp2, p) = Count(at, gp, p) - One(at[x], p) + One(at2[x], p)
                                                  - One(gp[h], p) + One(gp2[h], p)
          BY Recount
      <2>2. rf[p] = Count(at, gp, p)
          BY DEF CountIs
      <2> QED BY <2>1, <2>2 DEF Follows
  <1> QED BY <1>1 DEF CountIs

\* kalloc() of page q for a PTE or for a fault.
LEMMA CountTake ==
  ASSUME NEW at, NEW at2, NEW gp, NEW gp2, NEW rf \in [Pages -> Nat], NEW fr,
         NEW x \in Entries, NEW h \in Procs, CountIs(at, gp, rf, fr),
         OnlyAt(x, at, at2),
         OnlyOf(h, gp, gp2),
         NEW q \in Pages, q \in fr,
         \/ at[x] = NoPage /\ at2[x] = q /\ gp2[h] = gp[h]
         \/ at2[x] = at[x] /\ gp[h] = NoPage /\ gp2[h] = q
  PROVE  CountIs(at2, gp2, [rf EXCEPT ![q] = 1], fr \ {q})
  <1>1. PICK rf2 : rf2 = [rf EXCEPT ![q] = 1]
      OBVIOUS
  <1>2. rf[q] = 0 /\ rf2[q] = 1
      BY <1>1 DEF CountIs
  <1>3. ASSUME NEW p \in Pages
        PROVE  /\ rf2[p] = rf[p] - One(at[x], p) + One(at2[x], p)
                                 - One(gp[h], p) + One(gp2[h], p)
               /\ p \in fr \ {q} <=> rf2[p] = 0
      <2>1. rf[p] \in Nat /\ (p \in fr <=> rf[p] = 0) /\ p # NoPage
          BY CowAssumption DEF CountIs
      <2>2. rf2[p] = IF p = q THEN 1 ELSE rf[p]
          BY <1>1
      <2>3. rf2[p] = rf[p] + One(q, p)
          BY <1>2, <2>1, <2>2 DEF One
      <2>4. One(NoPage, p) = 0 /\ One(at[x], p) \in Int /\ One(gp[h], p) \in Int
            /\ One(q, p) \in Int
          BY <2>1 DEF One
      <2>5. rf2[p] = rf[p] - One(at[x], p) + One(at2[x], p)
                           - One(gp[h], p) + One(gp2[h], p)
          BY <2>1, <2>3, <2>4
      <2> QED BY <2>1, <2>2, <2>5
  <1>4. Follows(at, at2, gp, gp2, rf, rf2, fr \ {q}, x, h)
      BY <1>3 DEF Follows
  <1>5. CountIs(at2, gp2, rf2, fr \ {q})
      BY <1>4, CountStep
  <1> QED BY <1>1, <1>5

\* kref_dec() of page q, which a PTE or a fault gives up.
Dropped(q, rf, rf2, fr, fr2) ==
  /\ rf2 = [rf EXCEPT ![q] = @ - 1]
  /\ fr2 = IF rf[q] = 1 THEN fr \cup {q} ELSE fr
GivesUp(q, x, h, at, at2, gp, gp2) ==
  \/ at[x] = q /\ at2[x] = NoPage /\ gp2[h] = gp[h]
  \/ at2[x] = at[x] /\ gp[h] = q /\ gp2[h] = NoPage

LEMMA CountDrop ==
  ASSUME NEW at, NEW at2, NEW gp, NEW gp2, NEW rf \in [Pages -> Nat], NEW rf2, NEW fr, NEW fr2,
         NEW x \in Entries, NEW h \in Procs, CountIs(at, gp, rf, fr),
         OnlyAt(x, at, at2),
         OnlyOf(h, gp, gp2),
         NEW q \in Pages, Dropped(q, rf, rf2, fr, fr2), GivesUp(q, x, h, at, at2, gp, gp2)
  PROVE  CountIs(at2, gp2, rf2, fr2)
  <1>1. rf[q] # 0 /\ q \notin fr
      BY Referenced DEF GivesUp
  <1>2. ASSUME NEW p \in Pages
        PROVE  /\ rf2[p] = rf[p] - One(at[x], p) + One(at2[x], p)
                                 - One(gp[h], p) + One(gp2[h], p)
               /\ p \in fr2 <=> rf2[p] = 0
      <2>1. rf[p] \in Nat /\ (p \in fr <=> rf[p] = 0) /\ p # NoPage
          BY CowAssumption DEF CountIs
      <2>2. rf2[p] = IF p = q THEN rf[p] - 1 ELSE rf[p]
          BY DEF Dropped
      <2>3. rf2[p] = rf[p] - One(q, p)
          BY <2>1, <2>2 DEF One
      <2>4. One(NoPage, p) = 0 /\ One(at[x], p) \in Int /\ One(gp[h], p) \in Int
            /\ One(q, p) \in Int
          BY <2>1 DEF One
      <2>5. rf2[p] = rf[p] - One(at[x], p) + One(at2[x], p)
                           - One(gp[h], p) + One(gp2[h], p)
          BY <2>1, <2>3, <2>4 DEF GivesUp
      <2>6. p \in fr2 <=> rf2[p] = 0
          BY <1>1, <2>1, <2>2 DEF Dropped
      <2> QED BY <2>5, <2>6
  <1>3. Follows(at, at2, gp, gp2, rf, rf2, fr2, x, h)
      BY <1>2 DEF Follows
  <1> QED BY <1>3, CountStep

\* The fault maps its page and carries the one it had mapped.
LEMMA CountSwap ==
  ASSUME NEW at, NEW at2, NEW gp, NEW gp2, NEW rf \in [Pages -> Nat], NEW fr,
         NEW x \in Entries, NEW h \in Procs, CountIs(at, gp, rf, fr),
         OnlyAt(x, at, at2),
         OnlyOf(h, gp, gp2),
         at2[x] = gp[h], gp2[h] = at[x]
  PROVE  CountIs(at2, gp2, rf, fr)
  <1>1. ASSUME NEW p \in Pages
        PROVE  /\ rf[p] = rf[p] - One(at[x], p) + One(at2[x], p)
                                - One(gp[h], p) + One(gp2[h], p)
               /\ p \in fr <=> rf[p] = 0
      <2>1. rf[p] \in Nat /\ (p \in fr <=> rf[p] = 0)
          BY DEF CountIs
      <2>2. One(at[x], p) \in Int /\ One(gp[h], p) \in Int
          BY DEF One
      <2>3. rf[p] = rf[p] - One(at[x], p) + One(gp[h], p) - One(gp[h], p) + One(at[x], p)
          BY <2>1, <2>2
      <2> QED BY <2>1, <2>3
  <1>2. Follows(at, at2, gp, gp2, rf, rf, fr, x, h)
      BY <1>1 DEF Follows
  <1> QED BY <1>2, CountStep

\* kref_inc() of page q for the PTE of the child.
LEMMA CountRaise ==
  ASSUME NEW at, NEW at2, NEW gp, NEW rf \in [Pages -> Nat], NEW rf2, NEW fr,
         NEW x \in Entries, NEW h \in Procs, CountIs(at, gp, rf, fr),
         OnlyAt(x, at, at2),
         NEW q \in Pages, q \notin fr, rf2 = [rf EXCEPT ![q] = @ + 1],
         at[x] = NoPage, at2[x] = q
  PROVE  CountIs(at2, gp, rf2, fr)
  <1>1. ASSUME NEW p \in Pages
        PROVE  /\ rf2[p] = rf[p] - One(at[x], p) + One(at2[x], p)
                                 - One(gp[h], p) + One(gp[h], p)
               /\ p \in fr <=> rf2[p] = 0
      <2>1. rf[p] \in Nat /\ (p \in fr <=> rf[p] = 0) /\ p # NoPage
          BY CowAssumption DEF CountIs
      <2>2. rf2[p] = IF p = q THEN rf[p] + 1 ELSE rf[p]
          OBVIOUS
      <2>3. rf2[p] = rf[p] + One(q, p)
          BY <2>1, <2>2 DEF One
      <2>4. One(NoPage, p) = 0 /\ One(gp[h], p) \in Int /\ One(q, p) \in Int
          BY <2>1 DEF One
      <2>5. rf2[p] = rf[p] - One(at[x], p) + One(at2[x], p)
                           - One(gp[h], p) + One(gp[h], p)
          BY <2>1, <2>3, <2>4
      <2>6. p \in fr <=> rf2[p] = 0
          BY <2>1, <2>2
      <2> QED BY <2>5, <2>6
  <1>2. Follows(at, at2, gp, gp, rf, rf2, fr, x, h) /\ OnlyOf(h, gp, gp)
      BY <1>1 DEF Follows, OnlyOf
  <1> QED BY <1>2, CountStep

-----------------------------------------------------------------------------
\* The counted PTEs of a state.

Marks == [e \in Entries |-> IF e \in Uncounted THEN NoPage ELSE pt[e[1]][e[2]].pa]
Writes == [e \in Entries |-> pt[e[1]][e[2]].W]
SoleIs(at, wr) ==
  \A e, f \in Entries : at[e] # NoPage /\ wr[e] /\ at[f] = at[e] => e = f
FreshIs(at, gp, S) ==
  \A h \in S : MappingsOf(at, gp[h]) = {} /\ CarriersOf(gp, gp[h]) = {h}
Faulting == {h \in Procs : pc[h] \in {"f_copy", "f_map"}}

LEMMA MappingsAre ==
  ASSUME NEW p \in Pages
  PROVE  Mappings(p) = MappingsOf(Marks, p) /\ Carriers(p) = CarriersOf(pg, p)
  BY CowAssumption DEF Mappings, MappingsOf, Carriers, CarriersOf, Marks, Entries

LEMMA MappingsAreNext ==
  ASSUME NEW p \in Pages
  PROVE  Mappings(p)' = MappingsOf(Marks', p) /\ Carriers(p)' = CarriersOf(pg', p)
  BY CowAssumption DEF Mappings, MappingsOf, Carriers, CarriersOf, Marks, Entries

\* The invariant about pages, of a state and of the next.
PageFacts == CountIs(Marks, pg, refs, free) /\ SoleIs(Marks, Writes)
             /\ FreshIs(Marks, pg, Faulting)

LEMMA PageFactsIs ==
  ASSUME Typed, Locals
  PROVE  PageInv <=> PageFacts
  <1>1. CountExact <=> CountIs(Marks, pg, refs, free)
      <2>1. ASSUME NEW p \in Pages
            PROVE  /\ Cardinality(Mappings(p)) + Cardinality(Carriers(p)) = Count(Marks, pg, p)
                   /\ Mappings(p) = {} /\ Carriers(p) = {} <=> Count(Marks, pg, p) = 0
          BY MappingsAre, NoRefs DEF Count
      <2> QED BY <2>1 DEF CountExact, CountIs
  <1>2. SoleWriter <=> SoleIs(Marks, Writes)
      <2>1. \A e \in Entries : /\ Writes[e] = pt[e[1]][e[2]].W
                               /\ e \in Uncounted => Marks[e] = NoPage
                               /\ e \notin Uncounted => Marks[e] = pt[e[1]][e[2]].pa
          BY DEF Writes, Marks
      <2> QED BY <2>1 DEF SoleWriter, SoleIs, Entries
  <1>3. Fresh <=> FreshIs(Marks, pg, Faulting)
      <2>1. ASSUME NEW h \in Faulting
            PROVE  /\ Mappings(pg[h]) = MappingsOf(Marks, pg[h])
                   /\ Carriers(pg[h]) = CarriersOf(pg, pg[h])
          <3>1. pg[h] \in Pages
              BY DEF Faulting, Locals, Typed
          <3> QED BY <3>1, MappingsAre
      <2> QED BY <2>1 DEF Fresh, FreshIs, Faulting
  <1> QED BY <1>1, <1>2, <1>3 DEF PageInv, PageFacts

\* What is not counted: the entry of a call that is at a pending point.
LEMMA MarkIs ==
  ASSUME NEW e \in Entries
  PROVE  Marks[e] = IF \E g \in Procs : pc[g] \in Pending /\ e = <<tgt[g], idx[g]>>
                    THEN NoPage ELSE pt[e[1]][e[2]].pa
  BY UncountedIs DEF Marks

LEMMA UncountedIsNext ==
  Uncounted' = {<<tgt'[h], idx'[h]>> : h \in {g \in Procs : pc'[g] \in Pending}}
  <1>1. \A g \in Procs : pc'[g] \in Pending <=>
          pc'[g] \in {"fork_ref"} \cup {Clearing[k] : k \in Unmapping}
      BY ClearPoints DEF Pending
  <1> QED BY <1>1 DEF Uncounted

LEMMA MarkIsNext ==
  ASSUME NEW e \in Entries
  PROVE  Marks'[e] = IF \E g \in Procs : pc'[g] \in Pending /\ e = <<tgt'[g], idx'[g]>>
                     THEN NoPage ELSE pt'[e[1]][e[2]].pa
  BY UncountedIsNext DEF Marks

LEMMA Entry ==
  ASSUME NEW t \in Tables, NEW v \in VA
  PROVE  \E e \in Entries : e = <<t, v>> /\ e[1] = t /\ e[2] = v
  <1>1. PICK e : e = <<t, v>>
      OBVIOUS
  <1>2. e \in Entries /\ e[1] = t /\ e[2] = v
      BY <1>1 DEF Entries
  <1> QED BY <1>1, <1>2

\* The entry a loop of h works on.
LEMMA MarkAt ==
  ASSUME Places, NEW h \in Procs, tgt[h] \in Tables, idx[h] \in VA
  PROVE  Marks[<<tgt[h], idx[h]>>] =
           IF pc[h] \in Pending THEN NoPage ELSE pt[tgt[h]][idx[h]].pa
  <1>1. PICK e \in Entries : e = <<tgt[h], idx[h]>> /\ e[1] = tgt[h] /\ e[2] = idx[h]
      BY Entry
  <1>2. ASSUME NEW g \in Procs, e = <<tgt[g], idx[g]>> PROVE g = h
      <2>1. tgt[g] = tgt[h] /\ tgt[h] # NoTable
          BY <1>1, <1>2, CowAssumption
      <2> QED BY <2>1 DEF Places
  <1> QED BY <1>1, <1>2, MarkIs

LEMMA MarkAtNext ==
  ASSUME Places', NEW h \in Procs, tgt'[h] \in Tables, idx'[h] \in VA
  PROVE  Marks'[<<tgt'[h], idx'[h]>>] =
           IF pc'[h] \in Pending THEN NoPage ELSE pt'[tgt'[h]][idx'[h]].pa
  <1>1. PICK e \in Entries : e = <<tgt'[h], idx'[h]>> /\ e[1] = tgt'[h] /\ e[2] = idx'[h]
      BY Entry
  <1>2. ASSUME NEW g \in Procs, e = <<tgt'[g], idx'[g]>> PROVE g = h
      <2>1. tgt'[g] = tgt'[h] /\ tgt'[h] # NoTable
          BY <1>1, <1>2, CowAssumption
      <2> QED BY <2>1 DEF Places
  <1> QED BY <1>1, <1>2, MarkIsNext

\* The entries of a live process that is not changing its own table.
LEMMA MarkOwn ==
  ASSUME Places, NEW h \in Procs, table[h] \in Tables, NEW v \in VA,
         life[h] = "live", pc[h] \notin OwnPoints
  PROVE  Marks[<<table[h], v>>] = pt[table[h]][v].pa
  <1>1. PICK e \in Entries : e = <<table[h], v>> /\ e[1] = table[h] /\ e[2] = v
      BY Entry
  <1>2. ASSUME NEW g \in Procs, pc[g] \in Pending, e = <<tgt[g], idx[g]>> PROVE FALSE
      <2>1. tgt[g] = table[h] /\ tgt[g] # NoTable
          BY <1>1, <1>2, CowAssumption
      <2>2. pc[g] # "panic"
          BY <1>2 DEF Pending
      <2> QED BY <2>1, <2>2 DEF Places
  <1> QED BY <1>1, <1>2, MarkIs

LEMMA MarkOwnNext ==
  ASSUME Places', NEW h \in Procs, table'[h] \in Tables, NEW v \in VA,
         life'[h] = "live", pc'[h] \notin OwnPoints
  PROVE  Marks'[<<table'[h], v>>] = pt'[table'[h]][v].pa
  <1>1. PICK e \in Entries : e = <<table'[h], v>> /\ e[1] = table'[h] /\ e[2] = v
      BY Entry
  <1>2. ASSUME NEW g \in Procs, pc'[g] \in Pending, e = <<tgt'[g], idx'[g]>> PROVE FALSE
      <2>1. tgt'[g] = table'[h] /\ tgt'[g] # NoTable
          BY <1>1, <1>2, CowAssumption
      <2>2. pc'[g] # "panic"
          BY <1>2 DEF Pending
      <2> QED BY <2>1, <2>2 DEF Places
  <1> QED BY <1>1, <1>2, MarkIsNext

\* A step of h that changes entry x, or whose pending entry is x.
LEMMA MarksMove ==
  ASSUME NEW h \in Procs, NEW x \in Entries,
         \A g \in Procs \ {h} :
           /\ pc'[g] \in Pending <=> pc[g] \in Pending
           /\ pc[g] \in Pending => tgt'[g] = tgt[g] /\ idx'[g] = idx[g],
         pc[h] \in Pending => <<tgt[h], idx[h]>> = x,
         pc'[h] \in Pending => <<tgt'[h], idx'[h]>> = x,
         \A e \in Entries \ {x} : pt'[e[1]][e[2]].pa = pt[e[1]][e[2]].pa
  PROVE  OnlyAt(x, Marks, Marks')
  <1>1. ASSUME NEW e \in Entries \ {x} PROVE Marks'[e] = Marks[e]
      <2>1. (\E g \in Procs : pc[g] \in Pending /\ e = <<tgt[g], idx[g]>>)
              <=> (\E g \in Procs : pc'[g] \in Pending /\ e = <<tgt'[g], idx'[g]>>)
          OBVIOUS
      <2> QED BY <2>1, MarkIs, MarkIsNext
  <1> QED BY <1>1 DEF OnlyAt

LEMMA MarksSame ==
  ASSUME NEW h \in Procs, pc[h] \notin Pending, pc'[h] \notin Pending, 
         \A g \in Procs \ {h} :
           /\ pc'[g] \in Pending <=> pc[g] \in Pending
           /\ pc[g] \in Pending => tgt'[g] = tgt[g] /\ idx'[g] = idx[g],
         \A e \in Entries : pt'[e[1]][e[2]].pa = pt[e[1]][e[2]].pa
  PROVE  Marks' = Marks
  <1>1. ASSUME NEW e \in Entries PROVE Marks'[e] = Marks[e]
      <2>1. (\E g \in Procs : pc[g] \in Pending /\ e = <<tgt[g], idx[g]>>)
              <=> (\E g \in Procs : pc'[g] \in Pending /\ e = <<tgt'[g], idx'[g]>>)
          OBVIOUS
      <2> QED BY <2>1, MarkIs, MarkIsNext
  <1> QED BY <1>1 DEF Marks

-----------------------------------------------------------------------------
\* Every step keeps the pages counted and unshared where writable.

\* What a step does to the references: none is gained; a free page gets one, from
\* a PTE or from a fault; a fault exchanges its copy for the page it copied; or
\* uvmcopy() counts the child's PTE.
Unreferenced(q) == (\A e \in Entries : Marks[e] # q) /\ (\A g \in Procs : pg[g] # q)
Fewer == /\ \A e \in Entries : Marks'[e] \in {Marks[e], NoPage}
         /\ \A g \in Procs : pg'[g] \in {pg[g], NoPage}
NewMark(x, q) == /\ OnlyAt(x, Marks, Marks') /\ Marks'[x] = q /\ pg' = pg /\ Unreferenced(q)
NewCarry(h, q) == /\ Marks' = Marks /\ OnlyOf(h, pg, pg') /\ pg'[h] = q /\ Unreferenced(q)
Exchange(h, x) ==
  /\ x[1] = table[h] /\ OnlyAt(x, Marks, Marks') /\ OnlyOf(h, pg, pg')
  /\ Marks'[x] = pg[h] /\ pg'[h] = Marks[x] /\ Marks[x] # NoPage
  /\ MappingsOf(Marks, pg[h]) = {} /\ CarriersOf(pg, pg[h]) = {h}
CopyMark(h, x, y) ==
  /\ pc[h] = "fork_ref" /\ x[1] = tgt[h] /\ x[2] = idx[h] /\ y[1] = table[h] /\ y[2] = idx[h]
  /\ OnlyAt(x, Marks, Marks') /\ Marks'[x] = Marks[y] /\ Marks[y] # NoPage
  /\ pg' = pg /\ pt' = pt
Moves ==
  \/ Fewer
  \/ \E x \in Entries, q \in Pages : NewMark(x, q)
  \/ \E h \in Procs, q \in Pages : NewCarry(h, q)
  \/ \E h \in Procs, x \in Entries : Exchange(h, x)
  \/ \E h \in Procs, x \in Entries, y \in Entries : CopyMark(h, x, y)

LEMMA PageFactsNext ==
  ASSUME CountIs(Marks', pg', refs', free'), SoleIs(Marks', Writes'),
         FreshIs(Marks', pg', Faulting')
  PROVE  PageFacts'
  BY DEF PageFacts

\* The steps that change no reference may take write permission away.
LEMMA PagesStill ==
  ASSUME PageFacts, Marks' = Marks, UNCHANGED <<pg, refs, free>>,
         Faulting' \subseteq Faulting,
         \A e \in Entries : Marks[e] # NoPage /\ Writes'[e] => Writes[e]
  PROVE  PageFacts' /\ Fewer
  <1>1. CountIs(Marks', pg', refs', free')
      BY DEF PageFacts
  <1>2. SoleIs(Marks', Writes')
      BY DEF PageFacts, SoleIs
  <1>3. FreshIs(Marks', pg', Faulting')
      BY DEF PageFacts, FreshIs
  <1> QED BY <1>1, <1>2, <1>3, PageFactsNext DEF Fewer

\* The steps that leave the tables alone and are at no pending point.
LEMMA PagesQuiet ==
  ASSUME PageFacts, NEW h \in Procs, pc[h] \notin Pending, pc'[h] \notin Pending,
         \A g \in Procs \ {h} :
           /\ pc'[g] \in Pending <=> pc[g] \in Pending
           /\ pc[g] \in Pending => tgt'[g] = tgt[g] /\ idx'[g] = idx[g],
         UNCHANGED <<pt, pg, refs, free>>, Faulting' \subseteq Faulting
  PROVE  PageFacts' /\ Fewer
  <1>1. Marks' = Marks
      BY MarksSame
  <1>2. Writes' = Writes
      BY DEF Writes
  <1> QED BY <1>1, <1>2, PagesStill

\* The same for a call that changes its own point only.
LEMMA PagesTurn ==
  ASSUME Typed, PageFacts, NEW h \in Procs, NEW k, pc[h] \notin Pending, k \notin Pending,
         k \notin {"f_copy", "f_map"} \/ pc[h] = "f_copy",
         pc' = [pc EXCEPT ![h] = k],
         \A g \in Procs \ {h} : tgt'[g] = tgt[g] /\ idx'[g] = idx[g],
         UNCHANGED <<pt, refs, free, pg>>
  PROVE  PageFacts' /\ Fewer
  <1>1. pc'[h] = k /\ \A g \in Procs \ {h} : pc'[g] = pc[g]
      BY DEF Typed
  <1>2. Faulting' \subseteq Faulting
      BY <1>1 DEF Faulting
  <1> QED BY <1>1, <1>2, PagesQuiet

LEMMA FreePage ==
  ASSUME PageFacts, NEW q \in Pages, q \in free
  PROVE  /\ \A e \in Entries : Marks[e] # q
         /\ \A g \in Procs : pg[g] # q
  <1>1. MappingsOf(Marks, q) = {} /\ CarriersOf(pg, q) = {}
      BY Referenced DEF PageFacts
  <1> QED BY <1>1 DEF MappingsOf, CarriersOf

LEMMA PagesFaultAlloc ==
  ASSUME Typed, Kept, PageFacts, NEW h \in Procs, pc[h] = "f_alloc",
         NEW q \in free, Kalloc(q, Junk), pg' = [pg EXCEPT ![h] = q],
         pc' = [pc EXCEPT ![h] = "f_copy"], UNCHANGED <<pt, tgt, idx>>
  PROVE  PageFacts' /\ Moves
  <1>1. pc'[h] = "f_copy" /\ \A g \in Procs \ {h} : pc'[g] = pc[g]
      BY DEF Typed
  <1>2. Marks' = Marks
      BY <1>1, MarksSame DEF Pending
  <1>3. q \in Pages /\ pg[h] = NoPage /\ pg'[h] = q /\ OnlyOf(h, pg, pg')
      BY DEF Typed, Kept, Locals, OnlyOf
  <1>4. PICK x \in Entries : TRUE
      <2>1. table[h] \in Tables /\ idx[h] \in VA
          BY Here DEF Kept, FaultPoints
      <2> QED BY <2>1, Entry
  <1>5. CountIs(Marks', pg', refs', free')
      <2>1. refs \in [Pages -> Nat] /\ refs' = [refs EXCEPT ![q] = 1] /\ free' = free \ {q}
          BY DEF Typed, Kalloc
      <2>2. OnlyAt(x, Marks, Marks') /\ Marks'[x] = Marks[x] /\ CountIs(Marks, pg, refs, free)
          BY <1>2 DEF OnlyAt, PageFacts
      <2>3. CountIs(Marks', pg', [refs EXCEPT ![q] = 1], free \ {q})
          BY <1>3, <2>1, <2>2, CountTake
      <2> QED BY <2>1, <2>3
  <1>6. SoleIs(Marks', Writes')
      <2>1. Writes' = Writes
          BY DEF Writes
      <2> QED BY <1>2, <2>1 DEF PageFacts
  <1>7. FreshIs(Marks', pg', Faulting')
      <2>1. /\ \A e \in Entries : Marks[e] # q
            /\ \A g \in Procs : pg[g] # q
          BY <1>3, FreePage
      <2>2. /\ MappingsOf(Marks', pg'[h]) = {} /\ CarriersOf(pg', pg'[h]) = {h}
          BY <1>2, <1>3, <2>1 DEF MappingsOf, CarriersOf, OnlyOf
      <2>3. ASSUME NEW g \in Faulting', g # h
            PROVE  MappingsOf(Marks', pg'[g]) = {} /\ CarriersOf(pg', pg'[g]) = {g}
          <3>1. g \in Faulting /\ g \in Procs /\ pg'[g] = pg[g] /\ pg[g] # q
              BY <1>1, <1>3, <2>1, <2>3 DEF Faulting, OnlyOf
          <3>2. MappingsOf(Marks, pg[g]) = {} /\ CarriersOf(pg, pg[g]) = {g}
              BY <3>1 DEF PageFacts, FreshIs
          <3>3. CarriersOf(pg', pg[g]) = CarriersOf(pg, pg[g])
              <4>1. h \notin CarriersOf(pg, pg[g]) /\ h \notin CarriersOf(pg', pg[g])
                  BY <1>3, <2>3, <3>1, <3>2 DEF CarriersOf
              <4> QED BY <1>3, <4>1 DEF CarriersOf, OnlyOf
          <3> QED BY <1>2, <3>1, <3>2, <3>3
      <2> QED BY <2>2, <2>3 DEF FreshIs
  <1>8. NewCarry(h, q)
      BY <1>2, <1>3, FreePage DEF NewCarry, Unreferenced
  <1> QED BY <1>3, <1>5, <1>6, <1>7, <1>8, PageFactsNext DEF Moves

LEMMA PagesFaultMap ==
  ASSUME Typed, Kept, PageFacts, NEW h \in Procs, FaultMap(h), Places'
  PROVE  PageFacts' /\ Moves
  <1>1. /\ pc[h] = "f_map" /\ pc[h] # "none" /\ pc[h] \in FaultPoints
        /\ pg' = [pg EXCEPT ![h] = pt[table[h]][idx[h]].pa]
        /\ pc' = [pc EXCEPT ![h] = "f_drop"]
        /\ UNCHANGED <<free, refs, table, life, tgt, idx>>
      BY DEF FaultMap, FaultPoints, alloc, proc
  <1>2. /\ table[h] \in Tables /\ idx[h] \in VA /\ pg[h] \in Pages /\ life[h] = "live"
        /\ pt[table[h]][idx[h]].pa \in Pages
      BY <1>1, Here, FaultPage DEF Kept
  <1>3. PICK w \in PTE : /\ w.pa = pg[h] /\ w.W
                         /\ SetAt(table[h], idx[h], w)
      BY FaultMapIs DEF Kept
  <1>4. PICK x \in Entries : x = <<table[h], idx[h]>> /\ x[1] = table[h] /\ x[2] = idx[h]
      BY <1>2, Entry
  <1>5. pc'[h] = "f_drop" /\ \A g \in Procs \ {h} : pc'[g] = pc[g]
      BY <1>1 DEF Typed
  <1>6. /\ OnlyAt(x, Marks, Marks')
      <2>1. ASSUME NEW e \in Entries \ {x} PROVE pt'[e[1]][e[2]] = pt[e[1]][e[2]]
          <3>1. /\ e[1] \in Tables /\ e[2] \in VA /\ ~(e[1] = table[h] /\ e[2] = idx[h])
              BY <1>4 DEF Entries
          <3> QED BY <1>3, <3>1 DEF SetAt
      <2>2. pc[h] \notin Pending /\ pc'[h] \notin Pending
          BY <1>1, <1>5 DEF Pending
      <2> QED BY <1>1, <1>5, <2>1, <2>2, MarksMove
  <1>7. Marks[x] = pt[table[h]][idx[h]].pa
      BY <1>1, <1>2, <1>4, MarkOwn DEF Kept, OwnPoints
  <1>8. Marks'[x] = pg[h]
      <2>1. /\ table'[h] \in Tables /\ life'[h] = "live" /\ pc'[h] \notin OwnPoints
          BY <1>1, <1>2, <1>5 DEF OwnPoints
      <2>2. Marks'[<<table'[h], idx[h]>>] = pt'[table'[h]][idx[h]].pa
          BY <1>2, <2>1, MarkOwnNext
      <2>3. pt'[table[h]][idx[h]] = w
          BY <1>2, <1>3 DEF SetAt
      <2> QED BY <1>1, <1>3, <1>4, <2>2, <2>3
  <1>9. pg'[h] = Marks[x] /\ OnlyOf(h, pg, pg')
      BY <1>1, <1>7 DEF Typed, OnlyOf
  <1>10. h \in Faulting
      BY <1>1 DEF Faulting
  <1>11. MappingsOf(Marks, pg[h]) = {} /\ CarriersOf(pg, pg[h]) = {h}
      BY <1>10 DEF PageFacts, FreshIs
  <1>12. CountIs(Marks', pg', refs', free')
      <2>1. refs \in [Pages -> Nat] /\ refs' = refs /\ free' = free
            /\ CountIs(Marks, pg, refs, free)
          BY <1>1 DEF Typed, PageFacts
      <2>2. CountIs(Marks', pg', refs, free)
          BY <1>6, <1>8, <1>9, <2>1, CountSwap
      <2> QED BY <2>1, <2>2
  <1>13. SoleIs(Marks', Writes')
      <2>1. ASSUME NEW e \in Entries \ {x}
            PROVE  Marks'[e] = Marks[e] /\ Writes'[e] = Writes[e] /\ Marks[e] # pg[h]
          <3>1. /\ e[1] \in Tables /\ e[2] \in VA /\ ~(e[1] = table[h] /\ e[2] = idx[h])
              BY <1>4 DEF Entries
          <3>2. pt'[e[1]][e[2]] = pt[e[1]][e[2]]
              BY <1>3, <3>1 DEF SetAt
          <3>3. Marks[e] # pg[h]
              BY <1>11 DEF MappingsOf
          <3> QED BY <1>6, <3>2, <3>3 DEF OnlyAt, Writes
      <2>2. SoleIs(Marks, Writes)
          BY DEF PageFacts
      <2>3. ASSUME NEW e \in Entries, NEW f \in Entries, Marks'[e] # NoPage, Writes'[e],
                   Marks'[f] = Marks'[e]
            PROVE  e = f
          <3>1. CASE e = x
              BY <1>8, <2>1, <2>3, <3>1
          <3>2. CASE e # x /\ f = x
              BY <1>8, <2>1, <2>3, <3>2
          <3>3. CASE e # x /\ f # x
              BY <2>1, <2>2, <2>3, <3>3 DEF SoleIs
          <3> QED BY <3>1, <3>2, <3>3
      <2> QED BY <2>3 DEF SoleIs
  <1>14. FreshIs(Marks', pg', Faulting')
      <2>1. ASSUME NEW g \in Faulting'
            PROVE  MappingsOf(Marks', pg'[g]) = {} /\ CarriersOf(pg', pg'[g]) = {g}
          <3>1. g # h /\ g \in Faulting /\ g \in Procs /\ pg'[g] = pg[g]
              BY <1>5, <1>9 DEF Faulting, OnlyOf
          <3>2. MappingsOf(Marks, pg[g]) = {} /\ CarriersOf(pg, pg[g]) = {g}
              BY <3>1 DEF PageFacts, FreshIs
          <3>3. pg[g] # Marks[x] /\ pg[h] # pg[g]
              BY <3>1, <3>2 DEF MappingsOf, CarriersOf
          <3>4. MappingsOf(Marks', pg[g]) = {}
              BY <1>6, <1>8, <3>2, <3>3 DEF MappingsOf, OnlyAt
          <3>5. CarriersOf(pg', pg[g]) = {g}
              BY <1>9, <3>1, <3>2, <3>3 DEF CarriersOf, OnlyOf
          <3> QED BY <3>1, <3>4, <3>5
      <2> QED BY <2>1 DEF FreshIs
  <1>15. Exchange(h, x)
      BY <1>2, <1>4, <1>6, <1>7, <1>8, <1>9, <1>11, CowAssumption DEF Exchange
  <1> QED BY <1>12, <1>13, <1>14, <1>15, PageFactsNext DEF Moves

\* A page less is referred to, and nothing else changes.
LEMMA PagesFewer ==
  ASSUME PageFacts, NEW h \in Procs, Faulting' \subseteq Faulting \ {h}, Writes' = Writes,
         \A e \in Entries : Marks'[e] = Marks[e] \/ Marks'[e] = NoPage,
         \A g \in Procs \ {h} : pg'[g] = pg[g],
         pg'[h] = pg[h] \/ pg'[h] = NoPage,
         \A g \in Procs : g \in Faulting => pg[g] # NoPage
  PROVE  SoleIs(Marks', Writes') /\ FreshIs(Marks', pg', Faulting')
  <1>1. SoleIs(Marks', Writes')
      BY DEF PageFacts, SoleIs
  <1>2. ASSUME NEW g \in Faulting'
        PROVE  MappingsOf(Marks', pg'[g]) = {} /\ CarriersOf(pg', pg'[g]) = {g}
      <2>1. g # h /\ g \in Faulting /\ g \in Procs /\ pg'[g] = pg[g] /\ pg[g] # NoPage
          BY <1>2 DEF Faulting
      <2>2. MappingsOf(Marks, pg[g]) = {} /\ CarriersOf(pg, pg[g]) = {g}
          BY <2>1 DEF PageFacts, FreshIs
      <2>3. MappingsOf(Marks', pg[g]) = {}
          BY <2>1, <2>2 DEF MappingsOf
      <2>4. CarriersOf(pg', pg[g]) = {g}
          <3>1. pg[h] # pg[g]
              BY <2>1, <2>2 DEF CarriersOf
          <3> QED BY <2>1, <2>2, <3>1 DEF CarriersOf
      <2> QED BY <2>1, <2>3, <2>4
  <1> QED BY <1>1, <1>2 DEF FreshIs

LEMMA KrefDecIs ==
  ASSUME NEW p, KrefDec(p)
  PROVE  Dropped(p, refs, refs', free, free')
  BY DEF KrefDec, Dropped

LEMMA FaultingCarry ==
  ASSUME Kept, NEW g \in Procs, g \in Faulting
  PROVE  pg[g] # NoPage
  BY DEF Kept, Locals, Faulting

LEMMA PagesFaultDrop ==
  ASSUME Typed, Kept, PageFacts, NEW h \in Procs, FaultDrop(h)
  PROVE  PageFacts' /\ Fewer /\ refs[pg[h]] # 0
  <1>1. /\ pc[h] = "f_drop" /\ pc[h] # "none" /\ pc[h] \in FaultPoints /\ KrefDec(pg[h])
        /\ pc' = [pc EXCEPT ![h] = "user"] /\ pg' = [pg EXCEPT ![h] = NoPage]
        /\ tgt' = [tgt EXCEPT ![h] = NoTable] /\ idx' = [idx EXCEPT ![h] = 0] /\ pt' = pt
      BY DEF FaultDrop, Return, FaultPoints
  <1>2. /\ pc'[h] = "user" /\ pg'[h] = NoPage /\ OnlyOf(h, pg, pg')
        /\ \A g \in Procs \ {h} : pc'[g] = pc[g] /\ tgt'[g] = tgt[g] /\ idx'[g] = idx[g]
      BY <1>1 DEF Typed, OnlyOf
  <1>3. Marks' = Marks /\ Writes' = Writes
      <2>1. Marks' = Marks
          BY <1>1, <1>2, MarksSame DEF Pending
      <2> QED BY <1>1, <2>1 DEF Writes
  <1>4. pg[h] \in Pages /\ table[h] \in Tables /\ idx[h] \in VA
      BY <1>1, Here DEF Kept
  <1>5. PICK x \in Entries : TRUE
      BY <1>4, Entry
  <1>6. CountIs(Marks, pg, refs, free) /\ refs \in [Pages -> Nat]
      BY DEF PageFacts, Typed
  <1>7. refs[pg[h]] # 0
      BY <1>4, <1>6, Referenced
  <1>8. CountIs(Marks', pg', refs', free')
      <2>1. OnlyAt(x, Marks, Marks') /\ Marks'[x] = Marks[x]
          BY <1>3 DEF OnlyAt
      <2>2. Dropped(pg[h], refs, refs', free, free')
          BY <1>1, KrefDecIs
      <2>3. PICK q \in Pages : q = pg[h]
          BY <1>4
      <2>4. Dropped(q, refs, refs', free, free') /\ GivesUp(q, x, h, Marks, Marks', pg, pg')
          BY <1>2, <2>1, <2>2, <2>3 DEF GivesUp
      <2> QED BY <1>2, <1>6, <2>1, <2>4, CountDrop
  <1>9. SoleIs(Marks', Writes') /\ FreshIs(Marks', pg', Faulting')
      <2>1. Faulting' \subseteq Faulting \ {h}
          BY <1>2 DEF Faulting
      <2> QED BY <1>2, <1>3, <2>1, FaultingCarry, PagesFewer DEF OnlyOf
  <1>10. Fewer
      BY <1>2, <1>3 DEF Fewer, OnlyOf
  <1> QED BY <1>7, <1>8, <1>9, <1>10, PageFactsNext

LEMMA PagesUnmapDec ==
  ASSUME Typed, Kept, PageFacts, NEW h \in Procs, UnmapDec(h), Places'
  PROVE  PageFacts' /\ Fewer /\ refs[pt[tgt[h]][idx[h]].pa] # 0
  <1>1. PICK k : k = Clearing[pc[h]]
      OBVIOUS
  <1>2. /\ pc[h] \in Unmapping /\ idx[h] < lim[h] /\ KrefDec(pt[tgt[h]][idx[h]].pa)
        /\ pc' = [pc EXCEPT ![h] = k] /\ UNCHANGED <<pt, tgt, idx, pg>>
      BY <1>1 DEF UnmapDec, local
  <1>3. /\ pc[h] \in Loops /\ pc[h] # "none" /\ pc[h] \notin Pending /\ k \in Pending
        /\ k \notin {"f_copy", "f_map"}
      BY <1>1, <1>2, ClearingIs DEF Unmapping, Loops, ForkPoints, OwnPoints, ExecPoints,
         ReapPoints, Pending
  <1>4. /\ tgt[h] \in Tables /\ idx[h] \in VA /\ pt[tgt[h]][idx[h]].pa \in Pages
      BY <1>2, <1>3, Here, LoopPage DEF Kept
  <1>5. PICK x \in Entries : x = <<tgt[h], idx[h]>> /\ x[1] = tgt[h] /\ x[2] = idx[h]
      BY <1>4, Entry
  <1>6. pc'[h] = k /\ \A g \in Procs \ {h} : pc'[g] = pc[g]
      BY <1>2 DEF Typed
  <1>7. OnlyAt(x, Marks, Marks')
      BY <1>2, <1>3, <1>5, <1>6, MarksMove
  <1>8. Marks[x] = pt[tgt[h]][idx[h]].pa
      BY <1>3, <1>4, <1>5, MarkAt DEF Kept
  <1>9. Marks'[x] = NoPage
      <2>1. Marks'[<<tgt'[h], idx'[h]>>] = NoPage
          BY <1>2, <1>3, <1>4, <1>6, MarkAtNext
      <2> QED BY <1>2, <1>5, <2>1
  <1>10. PICK q \in Pages : q = pt[tgt[h]][idx[h]].pa
      BY <1>4
  <1>11. CountIs(Marks, pg, refs, free) /\ refs \in [Pages -> Nat]
      BY DEF PageFacts, Typed
  <1>12. refs[q] # 0
      BY <1>8, <1>10, <1>11, Referenced
  <1>13. CountIs(Marks', pg', refs', free')
      <2>1. Dropped(q, refs, refs', free, free')
          BY <1>2, <1>10, KrefDecIs
      <2>2. OnlyOf(h, pg, pg') /\ GivesUp(q, x, h, Marks, Marks', pg, pg')
          BY <1>2, <1>8, <1>9, <1>10 DEF OnlyOf, GivesUp
      <2> QED BY <1>7, <1>9, <1>11, <2>1, <2>2, CountDrop
  <1>14. SoleIs(Marks', Writes') /\ FreshIs(Marks', pg', Faulting')
      <2>1. Faulting' \subseteq Faulting \ {h}
          BY <1>3, <1>6 DEF Faulting
      <2>2. Writes' = Writes
          BY <1>2 DEF Writes
      <2>3. \A e \in Entries : Marks'[e] = Marks[e] \/ Marks'[e] = NoPage
          BY <1>7, <1>9 DEF OnlyAt
      <2> QED BY <1>2, <2>1, <2>2, <2>3, FaultingCarry, PagesFewer
  <1>15. Fewer
      BY <1>2, <1>7, <1>9 DEF Fewer, OnlyAt
  <1> QED BY <1>10, <1>12, <1>13, <1>14, <1>15, PageFactsNext

LEMMA PagesUnmapClear ==
  ASSUME Typed, Kept, PageFacts, NEW h \in Procs, UnmapClear(h)
  PROVE  PageFacts' /\ Fewer
  <1>1. /\ pc[h] \in Pending /\ tgt[h] \in Tables /\ idx[h] \in VA
        /\ SetAt(tgt[h], idx[h], NoPTE) /\ idx' = [idx EXCEPT ![h] = @ + 1]
        /\ UNCHANGED <<free, refs, tgt, pg>>
      BY UnmapClearIs DEF Kept, alloc
  <1>2. PICK k \in Unmapping : pc' = [pc EXCEPT ![h] = k]
      BY UnmapClearIs DEF Kept
  <1>3. k \notin Pending /\ k \notin {"f_copy", "f_map"}
      BY DEF Unmapping, Pending
  <1>4. pc'[h] = k /\ \A g \in Procs \ {h} : pc'[g] = pc[g] /\ idx'[g] = idx[g]
      BY <1>1, <1>2 DEF Typed
  <1>5. PICK x \in Entries : x = <<tgt[h], idx[h]>> /\ x[1] = tgt[h] /\ x[2] = idx[h]
      BY <1>1, Entry
  <1>6. ASSUME NEW e \in Entries \ {x} PROVE pt'[e[1]][e[2]] = pt[e[1]][e[2]]
      <2>1. /\ e[1] \in Tables /\ e[2] \in VA /\ ~(e[1] = tgt[h] /\ e[2] = idx[h])
          BY <1>5 DEF Entries
      <2> QED BY <1>1, <2>1 DEF SetAt
  <1>7. pt'[x[1]][x[2]] = NoPTE
      BY <1>1, <1>5 DEF SetAt
  <1>8. OnlyAt(x, Marks, Marks')
      BY <1>1, <1>3, <1>4, <1>5, <1>6, MarksMove
  <1>9. Marks[x] = NoPage
      BY <1>1, <1>5, MarkAt DEF Kept
  <1>10. Marks'[x] = NoPage
      BY <1>7, MarkIsNext DEF NoPTE
  <1>11. Marks' = Marks
      BY <1>8, <1>9, <1>10 DEF Marks, OnlyAt
  <1>12. \A e \in Entries : Marks[e] # NoPage /\ Writes'[e] => Writes[e]
      BY <1>6, <1>9 DEF Writes
  <1>13. Faulting' \subseteq Faulting
      BY <1>3, <1>4 DEF Faulting
  <1> QED BY <1>1, <1>11, <1>12, <1>13, PagesStill

LEMMA PagesForkMap ==
  ASSUME Typed, Kept, PageFacts, NEW h \in Procs, ForkMap(h), Places'
  PROVE  PageFacts' /\ Fewer
  <1>1. /\ pc[h] = "fork_map" /\ idx[h] < lim[h] /\ table[h] \in Tables /\ tgt[h] \in Tables
        /\ idx[h] \in VA /\ table[h] # tgt[h] /\ UNCHANGED <<free, refs, tgt, pg>>
        /\ ForkWrites(h)
      BY ForkMapIs DEF Kept, alloc
  <1>2. pt[tgt[h]][idx[h]].pa = NoPage
      BY <1>1, LoopPage DEF Kept, Loops, ForkPoints, Building
  <1>3. PICK w \in PTE :
          /\ w.pa = pt[table[h]][idx[h]].pa /\ ~w.W
          /\ \/ /\ \A s \in Tables, u \in VA :
                     pt'[s][u] = IF s \in {table[h], tgt[h]} /\ u = idx[h] THEN w ELSE pt[s][u]
                /\ pc' = [pc EXCEPT ![h] = "fork_ref"] /\ UNCHANGED <<idx, lim>>
             \/ /\ SetAt(table[h], idx[h], w)
                /\ pc' = [pc EXCEPT ![h] = "undo"]
                /\ lim' = [lim EXCEPT ![h] = idx[h]] /\ idx' = [idx EXCEPT ![h] = 0]
      BY <1>1 DEF ForkWrites
  <1>4. PICK x \in Entries : x = <<tgt[h], idx[h]>> /\ x[1] = tgt[h] /\ x[2] = idx[h]
      BY <1>1, Entry
  <1>5. pc[h] \notin Pending
      BY <1>1 DEF Pending
  <1>6. Marks[x] = NoPage
      BY <1>1, <1>2, <1>4, <1>5, MarkAt DEF Kept
  <1>7. ASSUME NEW e \in Entries, e # x
        PROVE  /\ pt'[e[1]][e[2]].pa = pt[e[1]][e[2]].pa
               /\ pt'[e[1]][e[2]].W => pt[e[1]][e[2]].W
      <2>1. e[1] \in Tables /\ e[2] \in VA /\ ~(e[1] = tgt[h] /\ e[2] = idx[h])
          BY <1>4, <1>7 DEF Entries
      <2>2. CASE e[1] = table[h] /\ e[2] = idx[h]
          <3>1. pt'[e[1]][e[2]] = w
              BY <1>3, <2>1, <2>2 DEF SetAt
          <3> QED BY <1>3, <2>2, <3>1
      <2>3. CASE ~(e[1] = table[h] /\ e[2] = idx[h])
          <3>1. pt'[e[1]][e[2]] = pt[e[1]][e[2]]
              BY <1>3, <2>1, <2>3 DEF SetAt
          <3> QED BY <3>1
      <2> QED BY <2>2, <2>3
  <1>8. \A g \in Procs \ {h} : pc'[g] = pc[g] /\ idx'[g] = idx[g]
      BY <1>3 DEF Typed
  <1>9. (pc'[h] = "fork_ref" /\ idx'[h] = idx[h]) \/ pc'[h] = "undo"
      BY <1>3 DEF Typed
  <1>10. pc'[h] \in Pending => <<tgt'[h], idx'[h]>> = x
      BY <1>1, <1>4, <1>9 DEF Pending
  <1>11. OnlyAt(x, Marks, Marks')
      BY <1>1, <1>5, <1>7, <1>8, <1>10, MarksMove
  <1>12. Marks'[x] = NoPage
      <2>1. CASE pc'[h] = "fork_ref" /\ idx'[h] = idx[h]
          <3>1. pc'[h] \in Pending
              BY <2>1 DEF Pending
          <3>2. Marks'[<<tgt'[h], idx'[h]>>] = NoPage
              BY <1>1, <2>1, <3>1, MarkAtNext
          <3> QED BY <1>1, <1>4, <2>1, <3>2
      <2>2. CASE pc'[h] = "undo"
          <3>1. SetAt(table[h], idx[h], w)
              BY <1>3, <2>2 DEF Typed
          <3>2. pt'[tgt[h]][idx[h]] = pt[tgt[h]][idx[h]]
              BY <1>1, <3>1 DEF SetAt
          <3> QED BY <1>2, <1>4, <3>2, MarkIsNext
      <2> QED BY <1>9, <2>1, <2>2
  <1>13. Marks' = Marks
      BY <1>6, <1>11, <1>12 DEF Marks, OnlyAt
  <1>14. \A e \in Entries : Marks[e] # NoPage /\ Writes'[e] => Writes[e]
      BY <1>6, <1>7 DEF Writes
  <1>15. Faulting' \subseteq Faulting
      BY <1>8, <1>9 DEF Faulting
  <1> QED BY <1>1, <1>13, <1>14, <1>15, PagesStill

\* A page more is referred to by entry x: it is new, or nobody may write to it.
LEMMA PagesMore ==
  ASSUME PageFacts, NEW x \in Entries, NEW q \in Pages, OnlyAt(x, Marks, Marks'), Marks'[x] = q,
         pg' = pg, Faulting' \subseteq Faulting,
         \A e \in Entries \ {x} : Writes'[e] = Writes[e],
         \A g \in Faulting : pg[g] # q,
         \/ \A e \in Entries : Marks[e] # q
         \/ ~Writes'[x] /\ \E y \in Entries \ {x} : Marks[y] = q /\ ~Writes[y]
  PROVE  SoleIs(Marks', Writes') /\ FreshIs(Marks', pg', Faulting')
  <1>1. SoleIs(Marks, Writes) /\ q # NoPage
      BY CowAssumption DEF PageFacts
  <1>2. ASSUME NEW e \in Entries, NEW f \in Entries, Marks'[e] # NoPage, Writes'[e],
               Marks'[f] = Marks'[e]
        PROVE  e = f
      <2>1. CASE \A d \in Entries : Marks[d] # q
          BY <1>1, <1>2, <2>1 DEF SoleIs, OnlyAt
      <2>2. CASE ~Writes'[x] /\ \E y \in Entries \ {x} : Marks[y] = q /\ ~Writes[y]
          <3>1. PICK y \in Entries \ {x} : Marks[y] = q /\ ~Writes[y]
              BY <2>2
          <3>2. e # x /\ Marks'[e] = Marks[e] /\ Writes[e]
              BY <1>2, <2>2 DEF OnlyAt
          <3>3. Marks[e] # q
              BY <1>1, <3>1, <3>2 DEF SoleIs
          <3>4. f # x /\ Marks'[f] = Marks[f]
              BY <1>2, <3>2, <3>3 DEF OnlyAt
          <3> QED BY <1>1, <1>2, <3>2, <3>4 DEF SoleIs
      <2> QED BY <2>1, <2>2
  <1>3. ASSUME NEW g \in Faulting'
        PROVE  MappingsOf(Marks', pg'[g]) = {} /\ CarriersOf(pg', pg'[g]) = {g}
      <2>1. MappingsOf(Marks, pg[g]) = {} /\ CarriersOf(pg, pg[g]) = {g} /\ pg[g] # q
          BY DEF PageFacts, FreshIs
      <2>2. MappingsOf(Marks', pg[g]) = {}
          BY <2>1 DEF MappingsOf, OnlyAt
      <2> QED BY <2>1, <2>2
  <1> QED BY <1>2, <1>3 DEF SoleIs, FreshIs

LEMMA PagesForkRef ==
  ASSUME Typed, Kept, PageFacts, NEW h \in Procs, ForkRef(h), Places'
  PROVE  PageFacts' /\ Moves
  <1>1. /\ pc[h] = "fork_ref" /\ pc[h] # "none" /\ pc[h] \in Pending /\ pc[h] \in Loops
        /\ pc[h] \notin OwnPoints
        /\ refs' = [refs EXCEPT ![pt[table[h]][idx[h]].pa] = @ + 1]
        /\ idx' = [idx EXCEPT ![h] = @ + 1]
        /\ pc' = [pc EXCEPT ![h] = "fork_map"]
        /\ UNCHANGED <<free, pt, tgt, pg>>
      BY DEF ForkRef, Pending, Loops, ForkPoints, OwnPoints
  <1>2. /\ table[h] \in Tables /\ tgt[h] \in Tables /\ idx[h] \in VA /\ life[h] = "live"
        /\ pt[table[h]][idx[h]].pa \in Pages
      BY <1>1, Here, ForkPage DEF Kept
  <1>3. /\ pt[tgt[h]][idx[h]].pa = pt[table[h]][idx[h]].pa
        /\ ~pt[tgt[h]][idx[h]].W /\ ~pt[table[h]][idx[h]].W
      BY <1>1 DEF Kept, Copies
  <1>4. table[h] # tgt[h]
      BY <1>1, <1>2, CowAssumption DEF Kept, Places
  <1>5. PICK x \in Entries : x = <<tgt[h], idx[h]>> /\ x[1] = tgt[h] /\ x[2] = idx[h]
      BY <1>2, Entry
  <1>6. PICK y \in Entries : y = <<table[h], idx[h]>> /\ y[1] = table[h] /\ y[2] = idx[h]
      BY <1>2, Entry
  <1>7. PICK q \in Pages : q = pt[table[h]][idx[h]].pa
      BY <1>2
  <1>8. pc'[h] = "fork_map" /\ idx'[h] = idx[h] + 1
        /\ \A g \in Procs \ {h} : pc'[g] = pc[g] /\ idx'[g] = idx[g]
      BY <1>1 DEF Typed
  <1>9. pc'[h] \notin Pending
      BY <1>8 DEF Pending
  <1>10. OnlyAt(x, Marks, Marks')
      BY <1>1, <1>5, <1>8, <1>9, MarksMove
  <1>11. Marks[x] = NoPage /\ Marks[y] = q /\ y # x
      BY <1>1, <1>2, <1>4, <1>5, <1>6, <1>7, MarkAt, MarkOwn DEF Kept
  <1>12. Marks'[x] = q
      <2>1. ASSUME NEW g \in Procs, pc'[g] \in Pending, x = <<tgt'[g], idx'[g]>> PROVE FALSE
          <3>1. g # h
              BY <1>9, <2>1
          <3>2. tgt[g] = tgt[h] /\ tgt[h] # NoTable
              BY <1>1, <1>2, <1>5, <2>1, CowAssumption
          <3> QED BY <3>1, <3>2 DEF Kept, Places
      <2>2. Marks'[x] = pt'[x[1]][x[2]].pa
          BY <2>1, MarkIsNext
      <2> QED BY <1>1, <1>3, <1>5, <1>7, <2>2
  <1>13. CountIs(Marks, pg, refs, free) /\ refs \in [Pages -> Nat]
      BY DEF PageFacts, Typed
  <1>14. q \notin free
      BY <1>11, <1>13, Referenced
  <1>15. CountIs(Marks', pg', refs', free')
      <2>1. refs' = [refs EXCEPT ![q] = @ + 1] /\ pg' = pg /\ free' = free
          BY <1>1, <1>7
      <2>2. CountIs(Marks', pg, refs', free)
          BY <1>10, <1>11, <1>12, <1>13, <1>14, <2>1, CountRaise
      <2> QED BY <2>1, <2>2
  <1>16. SoleIs(Marks', Writes') /\ FreshIs(Marks', pg', Faulting')
      <2>1. Writes' = Writes /\ pg' = pg
          BY <1>1 DEF Writes
      <2>2. Faulting' \subseteq Faulting
          BY <1>8 DEF Faulting
      <2>3. ~Writes'[x] /\ ~Writes[y]
          BY <1>3, <1>5, <1>6, <2>1 DEF Writes
      <2>4. ASSUME NEW g \in Faulting PROVE pg[g] # q
          <3>1. MappingsOf(Marks, pg[g]) = {}
              BY DEF PageFacts, FreshIs
          <3> QED BY <1>11, <3>1 DEF MappingsOf
      <2>5. ~Writes'[x] /\ \E d \in Entries \ {x} : Marks[d] = q /\ ~Writes[d]
          BY <1>11, <2>3
      <2>6. \A e \in Entries \ {x} : Writes'[e] = Writes[e]
          BY <2>1
      <2> QED BY <1>10, <1>12, <2>1, <2>2, <2>4, <2>5, <2>6, PagesMore
  <1>17. CopyMark(h, x, y)
      BY <1>1, <1>5, <1>6, <1>10, <1>11, <1>12, CowAssumption DEF CopyMark
  <1> QED BY <1>15, <1>16, <1>17, PageFactsNext DEF Moves

LEMMA PagesNewPage ==
  ASSUME Typed, Kept, PageFacts, NEW h \in Procs, NEW q \in free, NewPage(h, q), Places'
  PROVE  PageFacts' /\ Moves
  <1>1. /\ pc[h] \in {"grow", "exec"} /\ idx[h] < lim[h] /\ q \in Pages
        /\ tgt[h] \in Tables /\ idx[h] \in VA
        /\ free' = free \ {q} /\ refs' = [refs EXCEPT ![q] = 1]
        /\ idx' = [idx EXCEPT ![h] = @ + 1] /\ UNCHANGED <<pc, tgt, pg>>
      BY DEF NewPage
  <1>2. PICK w \in PTE : w.pa = q /\ SetAt(tgt[h], idx[h], w)
      BY DEF NewPage
  <1>3. pc[h] \notin Pending /\ pc[h] \in Loops /\ pc[h] \in Building
      BY <1>1 DEF Pending, Loops, OwnPoints, ExecPoints, Building
  <1>4. PICK x \in Entries : x = <<tgt[h], idx[h]>> /\ x[1] = tgt[h] /\ x[2] = idx[h]
      BY <1>1, Entry
  <1>5. ASSUME NEW e \in Entries \ {x} PROVE pt'[e[1]][e[2]] = pt[e[1]][e[2]]
      <2>1. /\ e[1] \in Tables /\ e[2] \in VA /\ ~(e[1] = tgt[h] /\ e[2] = idx[h])
          BY <1>4 DEF Entries
      <2> QED BY <1>2, <2>1 DEF SetAt
  <1>6. \A g \in Procs \ {h} : idx'[g] = idx[g]
      BY <1>1 DEF Typed
  <1>7. OnlyAt(x, Marks, Marks')
      BY <1>1, <1>3, <1>5, <1>6, MarksMove
  <1>8. Marks[x] = NoPage
      <2>1. pt[tgt[h]][idx[h]].pa = NoPage
          BY <1>1, <1>3, LoopPage DEF Kept
      <2> QED BY <1>1, <1>3, <1>4, <2>1, MarkAt DEF Kept
  <1>9. Marks'[x] = q
      <2>1. ASSUME NEW g \in Procs, pc'[g] \in Pending, x = <<tgt'[g], idx'[g]>> PROVE FALSE
          <3>1. g # h
              BY <1>1, <1>3, <2>1
          <3>2. tgt[g] = tgt[h] /\ tgt[h] # NoTable
              BY <1>1, <1>4, <2>1, CowAssumption
          <3> QED BY <3>1, <3>2 DEF Kept, Places
      <2>2. Marks'[x] = pt'[x[1]][x[2]].pa
          BY <2>1, MarkIsNext
      <2>3. pt'[x[1]][x[2]] = w
          BY <1>1, <1>2, <1>4 DEF SetAt
      <2> QED BY <1>2, <2>2, <2>3
  <1>10. CountIs(Marks', pg', refs', free')
      <2>1. /\ CountIs(Marks, pg, refs, free) /\ refs \in [Pages -> Nat]
            /\ OnlyOf(h, pg, pg') /\ pg'[h] = pg[h]
          BY <1>1 DEF PageFacts, Typed, OnlyOf
      <2>2. CountIs(Marks', pg', [refs EXCEPT ![q] = 1], free \ {q})
          BY <1>1, <1>7, <1>8, <1>9, <2>1, CountTake
      <2> QED BY <1>1, <2>2
  <1>11. SoleIs(Marks', Writes') /\ FreshIs(Marks', pg', Faulting')
      <2>1. /\ \A e \in Entries : Marks[e] # q
            /\ \A g \in Procs : pg[g] # q
          BY <1>1, FreePage
      <2>2. Faulting' = Faulting /\ \A g \in Faulting : pg[g] # q
          BY <1>1, <2>1 DEF Faulting
      <2>3. \A e \in Entries \ {x} : Writes'[e] = Writes[e]
          BY <1>5 DEF Writes
      <2> QED BY <1>1, <1>7, <1>9, <2>1, <2>2, <2>3, PagesMore
  <1>12. NewMark(x, q)
      BY <1>1, <1>7, <1>9, FreePage DEF NewMark, Unreferenced
  <1> QED BY <1>1, <1>10, <1>11, <1>12, PageFactsNext DEF Moves

LEMMA PagesZombie ==
  ASSUME Typed, PageFacts, NEW h \in Procs, pc[h] \in {"user", "f_alloc"}, BecomeZombie(h)
  PROVE  PageFacts' /\ Fewer
  <1>1. /\ pc' = [pc EXCEPT ![h] = "none"] /\ UNCHANGED <<pt, refs, free, pg>>
        /\ \A g \in Procs \ {h} : tgt'[g] = tgt[g] /\ idx'[g] = idx[g]
      BY DEF BecomeZombie, alloc, Typed
  <1>2. pc[h] \notin Pending /\ "none" \notin Pending
      BY DEF Pending
  <1> QED BY <1>1, <1>2, PagesTurn

LEMMA PagesPanic ==
  ASSUME Typed, PageFacts, NEW h \in Procs, pc[h] \in {"f_alloc", "grow", "exec"}, Panic(h)
  PROVE  PageFacts' /\ Fewer
  <1>1. pc' = [pc EXCEPT ![h] = "panic"] /\ UNCHANGED <<pt, refs, free, pg, tgt, idx>>
      BY DEF Panic, alloc, local
  <1>2. pc[h] \notin Pending /\ "panic" \notin Pending
      BY DEF Pending
  <1> QED BY <1>1, <1>2, PagesTurn

LEMMA PagesFault ==
  ASSUME Typed, Kept, PageFacts, Places', NEW h \in Procs,
         \/ \E v \in VA : StoreFault(h, v)
         \/ FaultAlloc(h) \/ FaultCopy(h) \/ FaultMap(h) \/ FaultDrop(h)
  PROVE  PageFacts' /\ Moves
  <1>1. ASSUME NEW v \in VA, StoreFault(h, v) PROVE PageFacts' /\ Fewer
      <2>1. CASE BecomeZombie(h)
          BY <1>1, <2>1, PagesZombie DEF StoreFault
      <2>2. CASE ~BecomeZombie(h)
          <3>1. /\ pc[h] = "user" /\ pc' = [pc EXCEPT ![h] = "f_alloc"]
                /\ UNCHANGED <<pt, refs, free, pg>>
                /\ \A g \in Procs \ {h} : tgt'[g] = tgt[g] /\ idx'[g] = idx[g]
              BY <1>1, <2>2 DEF StoreFault, alloc, Typed
          <3>2. pc[h] \notin Pending /\ "f_alloc" \notin Pending
              BY <3>1 DEF Pending
          <3> QED BY <3>1, <3>2, PagesTurn
      <2> QED BY <2>1, <2>2
  <1>2. CASE FaultAlloc(h)
      <2>1. pc[h] = "f_alloc"
          BY <1>2 DEF FaultAlloc
      <2>2. ASSUME NEW q \in free, Kalloc(q, Junk), pg' = [pg EXCEPT ![h] = q],
                   pc' = [pc EXCEPT ![h] = "f_copy"],
                   UNCHANGED <<pt, proc, tgt, idx, lim, low>>
            PROVE  PageFacts' /\ Moves
          BY <2>1, <2>2, PagesFaultAlloc
      <2> QED BY <1>2, <2>1, <2>2, PagesZombie, PagesPanic DEF FaultAlloc, Moves
  <1>3. CASE FaultCopy(h)
      <2>1. /\ pc[h] = "f_copy" /\ pc' = [pc EXCEPT ![h] = "f_map"]
            /\ UNCHANGED <<pt, refs, free, pg, tgt, idx>>
          BY <1>3 DEF FaultCopy, local
      <2>2. pc[h] \notin Pending /\ "f_map" \notin Pending
          BY <2>1 DEF Pending
      <2> QED BY <2>1, <2>2, PagesTurn DEF Moves
  <1> QED BY <1>1, <1>2, <1>3, PagesFaultMap, PagesFaultDrop DEF Moves

LEMMA PagesEnds ==
  ASSUME Typed, Kept, PageFacts, NEW h \in Procs,
         FreeProc(h) \/ DeallocDone(h) \/ DiscardDone(h) \/ GrowDone(h)
  PROVE  PageFacts' /\ Fewer
  <1>1. /\ Return(h) /\ UNCHANGED <<pt, refs, free>> /\ pc[h] \in Unmapping \cup {"grow"}
      BY DEF FreeProc, DeallocDone, DiscardDone, GrowDone, UnmapEnd, alloc
  <1>2. pg[h] = NoPage /\ pc[h] \notin Pending /\ "user" \notin Pending
      BY <1>1 DEF Kept, Locals, Unmapping, Pending
  <1>3. /\ pc' = [pc EXCEPT ![h] = "user"] /\ pg' = pg
        /\ \A g \in Procs \ {h} : tgt'[g] = tgt[g] /\ idx'[g] = idx[g]
      BY <1>1, <1>2 DEF Return, Typed
  <1> QED BY <1>1, <1>2, <1>3, PagesTurn

LEMMA PagesStarts ==
  ASSUME Typed, PageFacts, NEW h \in Procs,
         \/ \E c \in Procs, t \in Tables : ForkStart(h, c, t)
         \/ \E n \in Deltas : GrowStart(h, n) \/ ShrinkStart(h, n)
         \/ \E t \in Tables, n \in ImageSizes : ExecStart(h, t, n)
         \/ \E c \in Procs : ReapStart(h, c)
         \/ ExecCommit(h)
  PROVE  PageFacts' /\ Fewer
  <1>1. PICK k \in {"fork_map", "grow", "dealloc", "exec", "reap", "discard"} :
          pc' = [pc EXCEPT ![h] = k]
      BY DEF ForkStart, GrowStart, ShrinkStart, ExecStart, ReapStart, ExecCommit
  <1>2. pc[h] \in {"user", "exec"} /\ UNCHANGED <<pt, refs, free, pg>>
      BY DEF ForkStart, GrowStart, ShrinkStart, ExecStart, ReapStart, ExecCommit, alloc
  <1>3. \A g \in Procs \ {h} : tgt'[g] = tgt[g] /\ idx'[g] = idx[g]
      BY DEF ForkStart, GrowStart, ShrinkStart, ExecStart, ReapStart, ExecCommit, Typed
  <1>4. pc[h] \notin Pending /\ k \notin Pending /\ k \notin {"f_copy", "f_map"}
      BY <1>2 DEF Pending
  <1> QED BY <1>1, <1>2, <1>3, <1>4, PagesTurn

LEMMA PagesForkDone ==
  ASSUME Typed, Kept, PageFacts, NEW h \in Procs, ForkDone(h)
  PROVE  PageFacts' /\ Fewer
  <1>1. PICK c \in Procs : life[c] = "embryo" /\ pc' = [pc EXCEPT ![h] = "user", ![c] = "user"]
      BY DEF ForkDone
  <1>2. /\ pc[h] = "fork_map" /\ UNCHANGED <<pt, refs, free, pg>>
        /\ \A g \in Procs \ {h} : tgt'[g] = tgt[g] /\ idx'[g] = idx[g]
      BY DEF ForkDone, alloc, Typed
  <1>3. pc[c] = "none"
      BY <1>1 DEF Kept, Places
  <1>4. /\ pc'[h] = "user" /\ pc'[c] = "user"
        /\ \A g \in Procs \ {h, c} : pc'[g] = pc[g]
      BY <1>1 DEF Typed
  <1>5. Faulting' \subseteq Faulting
      BY <1>4 DEF Faulting
  <1>6. /\ pc[h] \notin Pending /\ pc'[h] \notin Pending
        /\ \A g \in Procs \ {h} : pc'[g] \in Pending <=> pc[g] \in Pending
      BY <1>2, <1>3, <1>4 DEF Pending
  <1> QED BY <1>2, <1>5, <1>6, PagesQuiet

LEMMA PagesBuild ==
  ASSUME Typed, Kept, PageFacts, Places', NEW h \in Procs, GrowPage(h) \/ ExecPage(h)
  PROVE  PageFacts' /\ Moves
  <1>1. CASE \/ pc[h] = "grow" /\ UvmallocFails(h, "dealloc")
             \/ pc[h] = "exec" /\ UvmallocFails(h, "discard")
      <2>1. PICK k \in {"dealloc", "discard"} : UvmallocFails(h, k)
          BY <1>1
      <2>2. /\ pc' = [pc EXCEPT ![h] = k] /\ UNCHANGED <<pt, refs, free, pg>>
            /\ \A g \in Procs \ {h} : tgt'[g] = tgt[g] /\ idx'[g] = idx[g]
          BY <2>1 DEF UvmallocFails, alloc, Typed
      <2>3. pc[h] \notin Pending /\ k \notin Pending /\ k \notin {"f_copy", "f_map"}
          BY <1>1 DEF Pending
      <2> QED BY <2>2, <2>3, PagesTurn DEF Moves
  <1>2. CASE pc[h] \in {"grow", "exec"} /\ Panic(h)
      BY <1>2, PagesPanic DEF Moves
  <1>3. CASE \E q \in free : NewPage(h, q)
      BY <1>3, PagesNewPage
  <1> QED BY <1>1, <1>2, <1>3, NewPageIs DEF Kept

\* A user store changes a page's contents only.
LEMMA PagesStore ==
  ASSUME Typed, PageFacts, NEW h \in Procs, pc[h] = "user",
         UNCHANGED <<pt, refs, free, pg, pc, tgt, idx>>
  PROVE  PageFacts' /\ Fewer
  <1>1. pc' = [pc EXCEPT ![h] = "user"] /\ "user" \notin Pending
      BY DEF Typed, Pending
  <1> QED BY <1>1, PagesTurn

-----------------------------------------------------------------------------
\* The invariant is inductive.

LEMMA InvParts == IInv <=> Typed /\ Kept /\ PageFacts
  BY PageFactsIs DEF IInv, TableInv, Kept

LEMMA NextTyped ==
  ASSUME Typed, Kept, PageFacts, Places', Next
  PROVE  Typed'
  <1> USE DEF Kept
  <1>1. PICK h \in Procs :
    \/ \E v \in VA, x \in Vals : UserStore(h, v, x) \/ Copyout(h, v, x)
    \/ \E v \in VA : StoreFault(h, v)
    \/ FaultAlloc(h) \/ FaultCopy(h) \/ FaultMap(h) \/ FaultDrop(h)
    \/ \E c \in Procs, t \in Tables : ForkStart(h, c, t)
    \/ ForkMap(h) \/ ForkRef(h) \/ ForkDone(h)
    \/ UnmapDec(h) \/ UnmapClear(h)
    \/ FreeProc(h) \/ DeallocDone(h) \/ DiscardDone(h)
    \/ \E n \in Deltas : GrowStart(h, n) \/ ShrinkStart(h, n)
    \/ GrowPage(h) \/ GrowDone(h)
    \/ \E t \in Tables, n \in ImageSizes : ExecStart(h, t, n)
    \/ ExecPage(h) \/ ExecCommit(h)
    \/ Exit(h)
    \/ \E c \in Procs : ReapStart(h, c)
      BY DEF Next
  <1>2. Zero \in Vals
      BY CowAssumption
  <1>3. CASE \/ \E v \in VA, x \in Vals : UserStore(h, v, x) \/ Copyout(h, v, x)
             \/ \E v \in VA : StoreFault(h, v)
      BY <1>2, <1>3, TypedFault
  <1>4. CASE FaultAlloc(h) \/ FaultCopy(h) \/ FaultMap(h) \/ FaultDrop(h)
      BY <1>4, TypedFaultAlloc, TypedFaultRest, PagesFaultDrop
  <1>5. CASE \/ \E c \in Procs, t \in Tables : ForkStart(h, c, t)
             \/ ForkMap(h) \/ ForkRef(h) \/ ForkDone(h)
      BY <1>5, TypedFork
  <1>6. CASE \/ UnmapDec(h) \/ UnmapClear(h)
             \/ FreeProc(h) \/ DeallocDone(h) \/ DiscardDone(h)
      BY <1>6, TypedUnmap, PagesUnmapDec
  <1>7. CASE \/ \E n \in Deltas : GrowStart(h, n) \/ ShrinkStart(h, n)
             \/ GrowPage(h) \/ GrowDone(h)
      BY <1>7, TypedGrow
  <1>8. CASE \/ \E t \in Tables, n \in ImageSizes : ExecStart(h, t, n)
             \/ ExecPage(h) \/ ExecCommit(h) \/ Exit(h)
             \/ \E c \in Procs : ReapStart(h, c)
      BY <1>8, TypedExec
  <1> QED BY <1>1, <1>3, <1>4, <1>5, <1>6, <1>7, <1>8

LEMMA NextPages ==
  ASSUME Typed, Kept, PageFacts, Places', Next
  PROVE  PageFacts' /\ Moves
  <1>1. PICK h \in Procs :
    \/ \E v \in VA, x \in Vals : UserStore(h, v, x) \/ Copyout(h, v, x)
    \/ \E v \in VA : StoreFault(h, v)
    \/ FaultAlloc(h) \/ FaultCopy(h) \/ FaultMap(h) \/ FaultDrop(h)
    \/ \E c \in Procs, t \in Tables : ForkStart(h, c, t)
    \/ ForkMap(h) \/ ForkRef(h) \/ ForkDone(h)
    \/ UnmapDec(h) \/ UnmapClear(h)
    \/ FreeProc(h) \/ DeallocDone(h) \/ DiscardDone(h)
    \/ \E n \in Deltas : GrowStart(h, n) \/ ShrinkStart(h, n)
    \/ GrowPage(h) \/ GrowDone(h)
    \/ \E t \in Tables, n \in ImageSizes : ExecStart(h, t, n)
    \/ ExecPage(h) \/ ExecCommit(h)
    \/ Exit(h)
    \/ \E c \in Procs : ReapStart(h, c)
      BY DEF Next
  <1>2. CASE \E v \in VA, x \in Vals : UserStore(h, v, x) \/ Copyout(h, v, x)
      <2>1. pc[h] = "user" /\ UNCHANGED <<pt, refs, free, pg, pc, tgt, idx>>
          BY <1>2 DEF UserStore, Copyout, local
      <2> QED BY <2>1, PagesStore DEF Moves
  <1>3. CASE \/ \E v \in VA : StoreFault(h, v)
             \/ FaultAlloc(h) \/ FaultCopy(h) \/ FaultMap(h) \/ FaultDrop(h)
      BY <1>3, PagesFault
  <1>4. CASE ForkMap(h) \/ ForkRef(h) \/ ForkDone(h)
      BY <1>4, PagesForkMap, PagesForkRef, PagesForkDone DEF Moves
  <1>5. CASE UnmapDec(h) \/ UnmapClear(h)
      BY <1>5, PagesUnmapDec, PagesUnmapClear DEF Moves
  <1>6. CASE FreeProc(h) \/ DeallocDone(h) \/ DiscardDone(h) \/ GrowDone(h)
      BY <1>6, PagesEnds DEF Moves
  <1>7. CASE \/ \E c \in Procs, t \in Tables : ForkStart(h, c, t)
             \/ \E n \in Deltas : GrowStart(h, n) \/ ShrinkStart(h, n)
             \/ \E t \in Tables, n \in ImageSizes : ExecStart(h, t, n)
             \/ \E c \in Procs : ReapStart(h, c)
             \/ ExecCommit(h)
      BY <1>7, PagesStarts DEF Moves
  <1>8. CASE GrowPage(h) \/ ExecPage(h)
      BY <1>8, PagesBuild
  <1>9. CASE Exit(h)
      BY <1>9, PagesZombie DEF Exit, Moves
  <1> QED BY <1>1, <1>2, <1>3, <1>4, <1>5, <1>6, <1>7, <1>8, <1>9

\* The first process after exec("/init"): n pages, each mapped once.
Boots(h, t, n, f) ==
    /\ \A u, v \in 0 .. n - 1 : f[u] = f[v] => u = v
    /\ LET used == {f[v] : v \in 0 .. n - 1} IN
       /\ free = Pages \ used
       /\ refs = [p \in Pages |-> IF p \in used THEN 1 ELSE 0]
       /\ mem = [p \in Pages |-> IF p \in used THEN Image ELSE Junk]
    /\ pt = [s \in Tables |-> [v \in VA |->
               IF s = t /\ v < n THEN ImagePTE(v, f[v]) ELSE NoPTE]]
    /\ table = [g \in Procs |-> IF g = h THEN t ELSE NoTable]
    /\ sz = [g \in Procs |-> IF g = h THEN n ELSE 0]
    /\ life = [g \in Procs |-> IF g = h THEN "live" ELSE "unused"]
    /\ pc = [g \in Procs |-> IF g = h THEN "user" ELSE "none"]
    /\ tgt = [g \in Procs |-> NoTable]
    /\ idx = [g \in Procs |-> 0]
    /\ lim = [g \in Procs |-> 0]
    /\ low = [g \in Procs |-> 0]
    /\ pg = [g \in Procs |-> NoPage]

LEMMA InitBoots ==
  Init => \E h \in Procs, t \in Tables, n \in ImageSizes :
          \E f \in [0 .. n - 1 -> Pages] : Boots(h, t, n, f)
  BY Zenon DEF Init, Boots

LEMMA BootPTE ==
  ASSUME NEW h \in Procs, NEW t \in Tables, NEW n \in ImageSizes,
         NEW f \in [0 .. n - 1 -> Pages], Boots(h, t, n, f)
  PROVE  /\ n \in 1 .. NV
         /\ \A s \in Tables, v \in VA :
              /\ pt[s][v] \in PTE
              /\ s = t /\ v < n => v \in 0 .. n - 1 /\ pt[s][v].pa = f[v] /\ f[v] \in Pages
              /\ ~(s = t /\ v < n) => pt[s][v].pa = NoPage
  <1>1. n \in 1 .. NV /\ NV \in Nat
      BY CowAssumption
  <1>2. ASSUME NEW s \in Tables, NEW v \in VA
        PROVE  /\ pt[s][v] \in PTE
               /\ s = t /\ v < n => v \in 0 .. n - 1 /\ pt[s][v].pa = f[v] /\ f[v] \in Pages
               /\ ~(s = t /\ v < n) => pt[s][v].pa = NoPage
      <2>1. pt[s][v] = IF s = t /\ v < n THEN ImagePTE(v, f[v]) ELSE NoPTE
          BY DEF Boots
      <2>2. v < n => v \in 0 .. n - 1 /\ f[v] \in Pages
          BY <1>1, <1>2 DEF VA
      <2>3. CASE s = t /\ v < n
          <3>1. ImagePTE(v, f[v]) \in PTE /\ ImagePTE(v, f[v]).pa = f[v]
              BY <2>2, <2>3, PTEType DEF ImagePTE
          <3> QED BY <2>1, <2>2, <2>3, <3>1
      <2>4. CASE ~(s = t /\ v < n)
          BY <2>1, <2>4, PTEType DEF NoPTE
      <2> QED BY <2>3, <2>4
  <1> QED BY <1>1, <1>2

LEMMA BootTyped ==
  ASSUME NEW h \in Procs, NEW t \in Tables, NEW n \in ImageSizes,
         NEW f \in [0 .. n - 1 -> Pages], Boots(h, t, n, f)
  PROVE  Typed
  <1>1. n \in 0 .. NV /\ 0 \in 0 .. NV
      BY BootPTE, CowAssumption
  <1>2. pt \in [Tables -> [VA -> PTE]]
      <2>1. \A s \in Tables, v \in VA : pt[s][v] \in PTE
          BY BootPTE
      <2>2. /\ DOMAIN pt = Tables /\ pt = [s \in Tables |-> pt[s]]
            /\ \A s \in Tables : pt[s] = [v \in VA |-> pt[s][v]]
          BY DEF Boots
      <2> QED BY <2>1, <2>2
  <1>3. /\ free \subseteq Pages /\ refs \in [Pages -> Nat]
        /\ mem \in [Pages -> Vals \cup {Junk}]
      BY CowAssumption DEF Boots
  <1>4. pc \in [Procs -> Points]
      BY PointsAre DEF Boots
  <1> QED BY <1>1, <1>2, <1>3, <1>4 DEF Boots, Typed

LEMMA BootKept ==
  ASSUME NEW h \in Procs, NEW t \in Tables, NEW n \in ImageSizes,
         NEW f \in [0 .. n - 1 -> Pages], Boots(h, t, n, f)
  PROVE  Kept
  <1>1. \A g \in Procs :
          /\ g = h => /\ table[g] = t /\ sz[g] = n /\ life[g] = "live" /\ pc[g] = "user"
          /\ g # h => /\ table[g] = NoTable /\ life[g] = "unused" /\ pc[g] = "none"
          /\ tgt[g] = NoTable /\ idx[g] = 0 /\ lim[g] = 0 /\ low[g] = 0 /\ pg[g] = NoPage
      BY DEF Boots
  <1>2. t # NoTable
      BY CowAssumption
  <1>3. \A g \in Procs : pc[g] \notin Loops /\ pc[g] \notin Pending /\ pc[g] \notin FaultPoints
      BY <1>1 DEF Loops, ForkPoints, OwnPoints, ExecPoints, ReapPoints, Pending, FaultPoints
  <1>4. Places
      BY <1>1, <1>2, <1>3 DEF Places, Loops
  <1>5. Locals
      BY <1>1, <1>3 DEF Locals, Loops, OwnPoints
  <1>6. Shapes
      <2>1. Exact(h)
          BY <1>1, BootPTE, CowAssumption DEF Exact, Valid
      <2>2. ASSUME NEW s \in FreeTables, NEW v \in VA PROVE ~Valid(s, v)
          <3>1. s \in Tables /\ s # t
              BY <1>1 DEF FreeTables
          <3> QED BY <3>1, BootPTE DEF Valid
      <2> QED BY <1>1, <1>3, <2>1, <2>2 DEF Shapes
  <1>7. Copies
      BY <1>1 DEF Copies
  <1> QED BY <1>4, <1>5, <1>6, <1>7 DEF Kept

LEMMA BootPages ==
  ASSUME NEW h \in Procs, NEW t \in Tables, NEW n \in ImageSizes,
         NEW f \in [0 .. n - 1 -> Pages], Boots(h, t, n, f)
  PROVE  PageFacts
  <1>1. \A g \in Procs : pc[g] \notin Pending /\ pc[g] \notin {"f_copy", "f_map"} /\ pg[g] = NoPage
      BY DEF Boots, Pending
  <1>2. ASSUME NEW e \in Entries
        PROVE  /\ e[1] \in Tables /\ e[2] \in VA /\ e = <<e[1], e[2]>>
               /\ Marks[e] # NoPage => /\ e[1] = t /\ e[2] \in 0 .. n - 1
                                       /\ Marks[e] = f[e[2]]
               /\ e[1] = t /\ e[2] < n => Marks[e] = f[e[2]]
      <2>1. e[1] \in Tables /\ e[2] \in VA /\ e = <<e[1], e[2]>>
          BY DEF Entries
      <2>2. Marks[e] = pt[e[1]][e[2]].pa
          BY <1>1, MarkIs
      <2> QED BY <2>1, <2>2, BootPTE
  <1>3. \A v \in 0 .. n - 1 : v \in VA /\ f[v] \in Pages /\ v < n
      BY BootPTE, CowAssumption DEF VA
  <1>4. \A e, d \in Entries : Marks[e] # NoPage /\ Marks[d] = Marks[e] => e = d
      BY <1>2 DEF Boots
  <1>5. SoleIs(Marks, Writes)
      BY <1>4 DEF SoleIs
  <1>6. FreshIs(Marks, pg, Faulting)
      BY <1>1 DEF FreshIs, Faulting
  <1>7. ASSUME NEW p \in Pages
        PROVE  refs[p] = Count(Marks, pg, p) /\ (p \in free <=> refs[p] = 0)
      <2>1. p # NoPage
          BY CowAssumption
      <2>2. CarriersOf(pg, p) = {}
          BY <1>1, <2>1 DEF CarriersOf
      <2>3. CASE p \in {f[v] : v \in 0 .. n - 1}
          <3>1. refs[p] = 1 /\ p \notin free
              BY <2>3 DEF Boots
          <3>2. PICK v \in 0 .. n - 1 : p = f[v]
              BY <2>3
          <3>3. PICK e \in Entries : e[1] = t /\ e[2] = v
              BY <1>3, Entry
          <3>4. Marks[e] = p
              BY <1>2, <1>3, <3>2, <3>3
          <3>5. MappingsOf(Marks, p) = {e}
              BY <1>4, <2>1, <3>4 DEF MappingsOf
          <3>6. Cardinality({e}) = 1 /\ Cardinality(CarriersOf(pg, p)) = 0
              BY <2>2, FS_Singleton, FS_EmptySet
          <3> QED BY <3>1, <3>5, <3>6 DEF Count
      <2>4. CASE p \notin {f[v] : v \in 0 .. n - 1}
          <3>1. refs[p] = 0 /\ p \in free
              BY <2>4 DEF Boots
          <3>2. MappingsOf(Marks, p) = {}
              <4>1. ASSUME NEW e \in Entries, Marks[e] = p PROVE FALSE
                  BY <1>2, <2>1, <2>4, <4>1
              <4> QED BY <4>1 DEF MappingsOf
          <3> QED BY <2>2, <3>1, <3>2, NoRefs
      <2> QED BY <2>3, <2>4
  <1>8. CountIs(Marks, pg, refs, free)
      BY <1>7 DEF CountIs
  <1> QED BY <1>5, <1>6, <1>8 DEF PageFacts

LEMMA InitInv == Init => Typed /\ Kept /\ PageFacts
  BY InitBoots, BootTyped, BootKept, BootPages

LEMMA StutterInv ==
  ASSUME Typed, Kept, PageFacts, UNCHANGED vars
  PROVE  Typed' /\ Kept' /\ PageFacts'
  <1>1. UNCHANGED <<free, refs, mem, pt, table, sz, life, pc, tgt, idx, lim, low, pg>>
      BY DEF vars
  <1>2. Typed'
      BY <1>1 DEF Typed
  <1>3. Kept'
      BY <1>1, KeptStore
  <1>4. Marks' = Marks /\ Writes' = Writes /\ Faulting' = Faulting
      BY <1>1 DEF Marks, Uncounted, Writes, Faulting
  <1>5. PageFacts'
      BY <1>1, <1>4, PagesStill
  <1> QED BY <1>2, <1>3, <1>5

LEMMA NextInv ==
  ASSUME Typed, Kept, PageFacts, [Next]_vars
  PROVE  Typed' /\ Kept' /\ PageFacts'
  <1>1. CASE Next
      <2>1. Kept'
          BY <1>1, KeptNext
      <2>2. Places'
          BY <2>1 DEF Kept
      <2> QED BY <1>1, <2>1, <2>2, NextTyped, NextPages
  <1>2. CASE UNCHANGED vars
      BY <1>2, StutterInv
  <1> QED BY <1>1, <1>2

\* What TablesWellFormed says follows from which pages the loops have done.
LEMMA InvTables == IInv => TablesWellFormed
  <1> SUFFICES ASSUME IInv PROVE TablesWellFormed
      OBVIOUS
  <1> USE DEF IInv, TableInv
  <1>1. ASSUME NEW h \in Procs, pc[h] = "user" PROVE Exact(h)
      <2>1. life[h] = "live" /\ pc[h] \notin OwnPoints \cup {"panic"}
          BY <1>1 DEF Places, OwnPoints
      <2> QED BY <2>1 DEF Shapes
  <1>2. \A t \in FreeTables, v \in VA : ~Valid(t, v)
      BY DEF Shapes
  <1>3. ASSUME NEW h \in Procs, pc[h] \in Unmapping, idx[h] < lim[h]
        PROVE  Valid(tgt[h], idx[h])
      <2>1. pc[h] \in Loops
          BY <1>3 DEF Loops, Unmapping, ForkPoints, OwnPoints, ExecPoints, ReapPoints
      <2>2. pt[tgt[h]][idx[h]].pa \in Pages
          BY <1>3, <2>1, LoopPage
      <2> QED BY <2>2, CowAssumption DEF Valid
  <1>4. ASSUME NEW h \in Procs, pc[h] \in {"fork_map", "grow", "exec"}, idx[h] < lim[h]
        PROVE  ~Valid(tgt[h], idx[h])
      <2>1. pc[h] \in Loops /\ pc[h] \in Building
          BY <1>4 DEF Loops, Building, ForkPoints, OwnPoints, ExecPoints
      <2>2. pt[tgt[h]][idx[h]].pa = NoPage
          BY <1>4, <2>1, LoopPage
      <2> QED BY <2>2 DEF Valid
  <1> QED BY <1>1, <1>2, <1>3, <1>4 DEF TablesWellFormed, Exact

-----------------------------------------------------------------------------
\* No process refers to a page twice: not from the tables it has, which are its
\* own and in exec() the other one, and not from a fault besides.

Alone == ExecPoints \cup OwnPoints \cup {"panic"}
Owns(h, t) == table[h] = t \/ (tgt[h] = t /\ pc[h] \in Alone)
Held == \A h \in Procs : tgt[h] # NoTable => \E g \in Procs : Owns(g, tgt[h])
Once ==
  \A h \in Procs : \A e \in Entries : Owns(h, e[1]) /\ Marks[e] # NoPage =>
    /\ pg[h] # Marks[e]
    /\ \A d \in Entries : Owns(h, d[1]) /\ Marks[d] = Marks[e] => d = e

\* A process gets no page table but an empty one.
Gets(g, t) == Owns(g, t)' => Owns(g, t) \/ t \in FreeTables
OwnsNext == (\A g \in Procs, t \in Tables : Gets(g, t)) /\ Held'

\* A step inside one call.
LEMMA OwnsSame ==
  ASSUME Typed, Held, NEW h \in Procs, NEW k, pc' = [pc EXCEPT ![h] = k],
         UNCHANGED <<table, tgt>>, tgt[h] = NoTable \/ (pc[h] \in Alone <=> k \in Alone)
  PROVE  OwnsNext
  <1>1. \A g \in Procs, t \in Tables : Owns(g, t)' <=> Owns(g, t)
      BY CowAssumption DEF Owns, Typed
  <1>2. Held'
      <2>1. ASSUME NEW f \in Procs, tgt'[f] # NoTable PROVE \E g \in Procs : Owns(g, tgt[f])'
          <3>1. tgt[f] \in Tables /\ tgt[f] # NoTable
              BY <2>1 DEF Typed
          <3>2. PICK g \in Procs : Owns(g, tgt[f])
              BY <3>1 DEF Held
          <3> QED BY <1>1, <3>1, <3>2
      <2> QED BY <2>1 DEF Held
  <1> QED BY <1>1, <1>2 DEF OwnsNext, Gets

\* The end of a call gives a page table up, if any.
LEMMA OwnsEnd ==
  ASSUME Typed, Places, Held, NEW h \in Procs, Return(h),
         \A g \in Procs : table'[g] = table[g] \/ (table'[g] = NoTable /\ table[g] = tgt[h])
  PROVE  OwnsNext
  <1>1. /\ tgt'[h] = NoTable /\ pc'[h] = "user"
        /\ \A g \in Procs \ {h} : tgt'[g] = tgt[g] /\ pc'[g] = pc[g]
      BY DEF Return, Typed
  <1>2. \A g \in Procs, t \in Tables : Gets(g, t)
      BY <1>1, CowAssumption DEF Gets, Owns
  <1>3. ASSUME NEW f \in Procs, tgt'[f] # NoTable PROVE \E g \in Procs : Owns(g, tgt[f])'
      <2>1. f # h /\ tgt'[f] = tgt[f] /\ tgt[f] # NoTable
          BY <1>1, <1>3
      <2>2. PICK g \in Procs : Owns(g, tgt[f])
          BY <2>1 DEF Held
      <2>3. tgt[f] # tgt[h]
          BY <2>1 DEF Places
      <2> QED BY <1>1, <2>1, <2>2, <2>3 DEF Owns
  <1> QED BY <1>2, <1>3 DEF OwnsNext, Held

\* The start of a call: h works on t, which g has.
LEMMA OwnsStart ==
  ASSUME Typed, Held, NEW h \in Procs, NEW k, pc[h] = "user", tgt[h] = NoTable,
         pc' = [pc EXCEPT ![h] = k], NEW t \in Tables, tgt' = [tgt EXCEPT ![h] = t],
         \A g \in Procs : table'[g] = table[g] \/ (table'[g] = t /\ table[g] = NoTable),
         \/ t \in FreeTables
         \/ table' = table /\ k \notin Alone
         \/ table' = table /\ table[h] = t,
         k \in Alone \/ \E g \in Procs : table'[g] = t
  PROVE  OwnsNext
  <1>1. /\ tgt'[h] = t /\ pc'[h] = k /\ pc[h] \notin Alone
        /\ \A g \in Procs \ {h} : tgt'[g] = tgt[g] /\ pc'[g] = pc[g]
      BY DEF Typed, Alone, ExecPoints, OwnPoints
  <1>2. \A g \in Procs, s \in Tables : Gets(g, s)
      BY <1>1 DEF Gets, Owns
  <1>3. ASSUME NEW f \in Procs, tgt'[f] # NoTable PROVE \E g \in Procs : Owns(g, tgt[f])'
      <2>1. CASE f = h
          BY <1>1, <2>1 DEF Owns
      <2>2. CASE f # h
          <3>1. tgt'[f] = tgt[f] /\ tgt[f] # NoTable
              BY <1>1, <1>3, <2>2
          <3>2. PICK g \in Procs : Owns(g, tgt[f])
              BY <3>1 DEF Held
          <3>3. g = h => table[g] = tgt[f]
              BY <3>1, <3>2 DEF Owns
          <3> QED BY <1>1, <3>1, <3>2, <3>3 DEF Owns
      <2> QED BY <2>1, <2>2
  <1> QED BY <1>2, <1>3 DEF OwnsNext, Held

LEMMA OwnsQuiet ==
  ASSUME Typed, Kept, Held, NEW h \in Procs, NEW k, pc[h] \in {"user"} \cup FaultPoints,
         pc' = [pc EXCEPT ![h] = k], UNCHANGED <<table, tgt>>
  PROVE  OwnsNext
  <1>1. tgt[h] = NoTable
      BY DEF Kept, Places
  <1> QED BY <1>1, OwnsSame

LEMMA OwnsZombie ==
  ASSUME Typed, Kept, Held, NEW h \in Procs, pc[h] \in {"user", "f_alloc"}, BecomeZombie(h)
  PROVE  OwnsNext
  <1>1. pc' = [pc EXCEPT ![h] = "none"] /\ UNCHANGED <<table, tgt>>
      BY DEF BecomeZombie
  <1>2. pc[h] \in {"user"} \cup FaultPoints
      BY DEF FaultPoints
  <1> QED BY <1>1, <1>2, OwnsQuiet

LEMMA OwnsFault ==
  ASSUME Typed, Kept, Held, NEW h \in Procs,
         \/ \E v \in VA, x \in Vals : UserStore(h, v, x) \/ Copyout(h, v, x)
         \/ \E v \in VA : StoreFault(h, v)
         \/ FaultAlloc(h) \/ FaultCopy(h) \/ FaultMap(h) \/ FaultDrop(h)
         \/ Exit(h)
  PROVE  OwnsNext
  <1>1. ASSUME NEW v \in VA, NEW x \in Vals, UserStore(h, v, x) \/ Copyout(h, v, x)
        PROVE  OwnsNext
      <2>1. pc[h] = "user" /\ UNCHANGED <<pc, table, tgt>>
          BY <1>1 DEF UserStore, Copyout, proc, local
      <2>2. pc' = [pc EXCEPT ![h] = "user"]
          BY <2>1 DEF Typed
      <2> QED BY <2>1, <2>2, OwnsQuiet
  <1>2. ASSUME NEW v \in VA, StoreFault(h, v) PROVE OwnsNext
      <2>1. pc[h] = "user"
          BY <1>2 DEF StoreFault
      <2>2. CASE BecomeZombie(h)
          BY <2>1, <2>2, OwnsZombie
      <2>3. CASE ~BecomeZombie(h)
          <3>1. pc' = [pc EXCEPT ![h] = "f_alloc"] /\ UNCHANGED <<table, tgt>>
              BY <1>2, <2>3 DEF StoreFault, proc
          <3> QED BY <2>1, <3>1, OwnsQuiet
      <2> QED BY <2>2, <2>3
  <1>3. CASE FaultAlloc(h)
      <2>1. pc[h] = "f_alloc" /\ pc[h] \in {"user"} \cup FaultPoints
          BY <1>3 DEF FaultAlloc, FaultPoints
      <2>2. CASE BecomeZombie(h)
          BY <2>1, <2>2, OwnsZombie
      <2>3. CASE ~BecomeZombie(h)
          <3>1. UNCHANGED <<table, tgt>>
              BY <1>3, <2>3 DEF FaultAlloc, Panic, proc, local
          <3>2. PICK k \in {"f_copy", "panic"} : pc' = [pc EXCEPT ![h] = k]
              BY <1>3, <2>3 DEF FaultAlloc, Panic
          <3> QED BY <2>1, <3>1, <3>2, OwnsQuiet
      <2> QED BY <2>2, <2>3
  <1>4. CASE FaultCopy(h)
      <2>1. /\ pc[h] = "f_copy" /\ pc' = [pc EXCEPT ![h] = "f_map"]
            /\ UNCHANGED <<table, tgt>>
          BY <1>4 DEF FaultCopy, proc, local
      <2> QED BY <2>1, OwnsQuiet DEF FaultPoints
  <1>5. CASE FaultMap(h)
      <2>1. /\ pc[h] = "f_map" /\ pc' = [pc EXCEPT ![h] = "f_drop"]
            /\ UNCHANGED <<table, tgt>>
          BY <1>5 DEF FaultMap, proc
      <2> QED BY <2>1, OwnsQuiet DEF FaultPoints
  <1>6. CASE FaultDrop(h)
      <2>1. Return(h) /\ UNCHANGED table
          BY <1>6 DEF FaultDrop, proc
      <2> QED BY <2>1, OwnsEnd DEF Kept
  <1>7. CASE Exit(h)
      BY <1>7, OwnsZombie DEF Exit
  <1> QED BY <1>1, <1>2, <1>3, <1>4, <1>5, <1>6, <1>7

LEMMA OwnsLoop ==
  ASSUME Typed, Kept, Held, NEW h \in Procs,
         \/ ForkMap(h) \/ ForkRef(h) \/ UnmapDec(h) \/ UnmapClear(h)
         \/ GrowPage(h) \/ ExecPage(h)
  PROVE  OwnsNext
  <1>1. tgt' = tgt /\ table' = table
      BY DEF ForkMap, ForkRef, UnmapDec, UnmapClear, GrowPage, ExecPage, UvmallocFails, Panic,
         proc, local
  <1>2. CASE ForkMap(h) \/ ForkRef(h)
      <2>1. PICK k \in {"fork_map", "fork_ref", "undo"} : pc' = [pc EXCEPT ![h] = k]
          BY <1>2 DEF ForkMap, ForkRef
      <2>2. pc[h] \in {"fork_map", "fork_ref"}
          BY <1>2 DEF ForkMap, ForkRef
      <2>3. pc[h] \notin Alone /\ k \notin Alone
          BY <2>2 DEF Alone, ExecPoints, OwnPoints
      <2> QED BY <1>1, <2>1, <2>3, OwnsSame
  <1>3. CASE UnmapDec(h)
      <2>1. PICK k : k = Clearing[pc[h]]
          OBVIOUS
      <2>2. pc' = [pc EXCEPT ![h] = k] /\ pc[h] \in Unmapping
          BY <1>3, <2>1 DEF UnmapDec
      <2>3. pc[h] \in Alone <=> k \in Alone
          BY <2>1, <2>2, ClearingIs DEF Unmapping, Alone, ExecPoints, OwnPoints
      <2> QED BY <1>1, <2>2, <2>3, OwnsSame
  <1>4. CASE UnmapClear(h)
      <2>1. PICK k \in Unmapping : pc[h] = Clearing[k] /\ pc' = [pc EXCEPT ![h] = k]
          BY <1>4 DEF UnmapClear
      <2>2. pc[h] \in Alone <=> k \in Alone
          BY <2>1, ClearingIs DEF Unmapping, Alone, ExecPoints, OwnPoints
      <2> QED BY <1>1, <2>1, <2>2, OwnsSame
  <1>5. CASE GrowPage(h) \/ ExecPage(h)
      <2>1. pc[h] \in {"grow", "exec"}
          BY <1>5 DEF GrowPage, ExecPage
      <2>2. \E k \in {pc[h], "dealloc", "discard", "panic"} : pc' = [pc EXCEPT ![h] = k]
          <3>1. CASE UNCHANGED pc
              BY <3>1 DEF Typed
          <3>2. CASE ~UNCHANGED pc
              BY <1>5, <3>2 DEF GrowPage, ExecPage, UvmallocFails, Panic
          <3> QED BY <3>1, <3>2
      <2>3. PICK k \in {pc[h], "dealloc", "discard", "panic"} : pc' = [pc EXCEPT ![h] = k]
          BY <2>2
      <2>4. pc[h] \in Alone /\ k \in Alone
          BY <2>1 DEF Alone, ExecPoints, OwnPoints
      <2> QED BY <1>1, <2>3, <2>4, OwnsSame
  <1> QED BY <1>2, <1>3, <1>4, <1>5

LEMMA OwnsEnds ==
  ASSUME Typed, Kept, Held, NEW h \in Procs,
         FreeProc(h) \/ DeallocDone(h) \/ DiscardDone(h) \/ GrowDone(h)
  PROVE  OwnsNext
  <1>1. Return(h)
      BY DEF FreeProc, DeallocDone, DiscardDone, GrowDone
  <1>2. \A g \in Procs : table'[g] = table[g] \/ (table'[g] = NoTable /\ table[g] = tgt[h])
      BY DEF FreeProc, DeallocDone, DiscardDone, GrowDone, proc, Typed
  <1> QED BY <1>1, <1>2, OwnsEnd DEF Kept

LEMMA OwnsForkDone ==
  ASSUME Typed, Kept, Held, NEW h \in Procs, ForkDone(h)
  PROVE  OwnsNext
  <1>1. PICK c \in Procs : life[c] = "embryo" /\ pc' = [pc EXCEPT ![h] = "user", ![c] = "user"]
      BY DEF ForkDone
  <1>2. /\ table' = table /\ tgt'[h] = NoTable /\ pc[h] = "fork_map"
        /\ \A g \in Procs \ {h} : tgt'[g] = tgt[g]
      BY DEF ForkDone, Typed
  <1>3. pc[c] = "none" /\ tgt[c] = NoTable
      BY <1>1 DEF Kept, Places
  <1>4. /\ pc'[h] = "user" /\ pc'[c] = "user"
        /\ \A g \in Procs \ {h, c} : pc'[g] = pc[g]
      BY <1>1 DEF Typed
  <1>5. \A g \in Procs, t \in Tables : Owns(g, t)' <=> Owns(g, t)
      BY <1>2, <1>3, <1>4, CowAssumption DEF Owns, Alone, ExecPoints, OwnPoints
  <1>6. ASSUME NEW f \in Procs, tgt'[f] # NoTable PROVE \E g \in Procs : Owns(g, tgt[f])'
      <2>1. tgt'[f] = tgt[f] /\ tgt[f] \in Tables /\ tgt[f] # NoTable
          BY <1>2, <1>6 DEF Typed
      <2>2. PICK g \in Procs : Owns(g, tgt[f])
          BY <2>1 DEF Held
      <2>3. Owns(g, tgt[f]) => table'[g] = tgt'[f] \/ (tgt'[g] = tgt'[f] /\ pc'[g] \in Alone)
          BY <1>2, <1>3, <1>4, <2>1 DEF Owns, Alone, ExecPoints, OwnPoints
      <2> QED BY <2>2, <2>3 DEF Owns
  <1> QED BY <1>5, <1>6 DEF OwnsNext, Held, Gets

LEMMA OwnsStarts ==
  ASSUME Typed, Kept, Held, NEW h \in Procs,
         \/ \E c \in Procs, t \in Tables : ForkStart(h, c, t)
         \/ \E n \in Deltas : GrowStart(h, n) \/ ShrinkStart(h, n)
         \/ \E t \in Tables, n \in ImageSizes : ExecStart(h, t, n)
         \/ \E c \in Procs : ReapStart(h, c)
  PROVE  OwnsNext
  <1>1. pc[h] = "user"
      BY DEF ForkStart, GrowStart, ShrinkStart, ExecStart, ReapStart
  <1>2. tgt[h] = NoTable /\ table[h] \in Tables
      BY <1>1, Here DEF Kept, Places
  <1>3. ASSUME NEW c \in Procs, NEW t \in Tables, ForkStart(h, c, t) PROVE OwnsNext
      <2>1. /\ life[c] = "unused" /\ t \in FreeTables /\ pc' = [pc EXCEPT ![h] = "fork_map"]
            /\ table' = [table EXCEPT ![c] = t] /\ tgt' = [tgt EXCEPT ![h] = t]
          BY <1>3 DEF ForkStart
      <2>2. /\ table[c] = NoTable /\ table'[c] = t
            /\ \A g \in Procs : table'[g] = table[g] \/ (table'[g] = t /\ table[g] = NoTable)
          BY <2>1 DEF Kept, Places, Typed
      <2> QED BY <1>1, <1>2, <2>1, <2>2, OwnsStart
  <1>4. ASSUME NEW n \in Deltas, GrowStart(h, n) \/ ShrinkStart(h, n) PROVE OwnsNext
      <2>1. PICK k \in {"grow", "dealloc"} : pc' = [pc EXCEPT ![h] = k]
          BY <1>4 DEF GrowStart, ShrinkStart
      <2>2. table' = table /\ tgt' = [tgt EXCEPT ![h] = table[h]] /\ k \in Alone
          BY <1>4 DEF GrowStart, ShrinkStart, proc, Alone, OwnPoints
      <2> QED BY <1>1, <1>2, <2>1, <2>2, OwnsStart
  <1>5. ASSUME NEW t \in Tables, NEW n \in ImageSizes, ExecStart(h, t, n) PROVE OwnsNext
      <2>1. /\ t \in FreeTables /\ pc' = [pc EXCEPT ![h] = "exec"] /\ "exec" \in Alone
            /\ table' = table /\ tgt' = [tgt EXCEPT ![h] = t]
          BY <1>5 DEF ExecStart, proc, Alone, ExecPoints
      <2> QED BY <1>1, <1>2, <2>1, OwnsStart
  <1>6. ASSUME NEW c \in Procs, ReapStart(h, c) PROVE OwnsNext
      <2>1. /\ life[c] = "zombie" /\ pc' = [pc EXCEPT ![h] = "reap"] /\ "reap" \notin Alone
            /\ table' = table /\ tgt' = [tgt EXCEPT ![h] = table[c]]
          BY <1>6 DEF ReapStart, proc, Alone, ExecPoints, OwnPoints
      <2>2. table[c] \in Tables
          BY <2>1 DEF Kept, Places, Typed
      <2> QED BY <1>1, <1>2, <2>1, <2>2, OwnsStart
  <1> QED BY <1>3, <1>4, <1>5, <1>6

LEMMA OwnsCommit ==
  ASSUME Typed, Kept, Held, NEW h \in Procs, ExecCommit(h)
  PROVE  OwnsNext
  <1>1. pc[h] = "exec" /\ pc[h] \in Alone
      BY DEF ExecCommit, Alone, ExecPoints
  <1>2. /\ table'[h] = tgt[h] /\ tgt'[h] = table[h] /\ pc'[h] = "discard"
        /\ \A g \in Procs \ {h} : table'[g] = table[g] /\ tgt'[g] = tgt[g] /\ pc'[g] = pc[g]
      BY DEF ExecCommit, Typed
  <1>3. pc'[h] \in Alone
      BY <1>2 DEF Alone, ExecPoints
  <1>4. \A g \in Procs, t \in Tables : Owns(g, t)' <=> Owns(g, t)
      BY <1>1, <1>2, <1>3 DEF Owns
  <1>5. ASSUME NEW f \in Procs, tgt'[f] # NoTable PROVE \E g \in Procs : Owns(g, tgt[f])'
      <2>1. CASE f = h
          BY <1>2, <1>3, <2>1 DEF Owns
      <2>2. CASE f # h
          <3>1. tgt'[f] = tgt[f] /\ tgt[f] # NoTable
              BY <1>2, <1>5, <2>2
          <3>2. PICK g \in Procs : Owns(g, tgt[f])
              BY <3>1 DEF Held
          <3> QED BY <1>1, <1>2, <1>3, <3>1, <3>2 DEF Owns
      <2> QED BY <2>1, <2>2
  <1> QED BY <1>4, <1>5 DEF OwnsNext, Held, Gets

LEMMA NextOwns ==
  ASSUME Typed, Kept, Held, Next
  PROVE  OwnsNext
  <1>1. PICK h \in Procs :
    \/ \E v \in VA, x \in Vals : UserStore(h, v, x) \/ Copyout(h, v, x)
    \/ \E v \in VA : StoreFault(h, v)
    \/ FaultAlloc(h) \/ FaultCopy(h) \/ FaultMap(h) \/ FaultDrop(h)
    \/ \E c \in Procs, t \in Tables : ForkStart(h, c, t)
    \/ ForkMap(h) \/ ForkRef(h) \/ ForkDone(h)
    \/ UnmapDec(h) \/ UnmapClear(h)
    \/ FreeProc(h) \/ DeallocDone(h) \/ DiscardDone(h)
    \/ \E n \in Deltas : GrowStart(h, n) \/ ShrinkStart(h, n)
    \/ GrowPage(h) \/ GrowDone(h)
    \/ \E t \in Tables, n \in ImageSizes : ExecStart(h, t, n)
    \/ ExecPage(h) \/ ExecCommit(h)
    \/ Exit(h)
    \/ \E c \in Procs : ReapStart(h, c)
      BY DEF Next
  <1> QED BY <1>1, OwnsFault, OwnsLoop, OwnsEnds, OwnsForkDone, OwnsStarts, OwnsCommit

\* A table that has a counted page is nobody's new one.
LEMMA OwnsBefore ==
  ASSUME Kept, OwnsNext, NEW h \in Procs, NEW e \in Entries, Owns(h, e[1])', Marks[e] # NoPage
  PROVE  Owns(h, e[1])
  <1>1. e[1] \in Tables /\ e[2] \in VA
      BY DEF Entries
  <1>2. Valid(e[1], e[2])
      BY MarkIs DEF Valid
  <1>3. e[1] \notin FreeTables
      BY <1>1, <1>2 DEF Kept, Shapes
  <1> QED BY <1>1, <1>3 DEF OwnsNext, Gets

\* What Once says of h and e.
OnceAt(h, e) ==
  /\ pg[h] # Marks[e]
  /\ \A d \in Entries : Owns(h, d[1]) /\ Marks[d] = Marks[e] => d = e

LEMMA OnceFewer ==
  ASSUME Kept, Once, OwnsNext, Fewer,
         NEW h \in Procs, NEW e \in Entries, Owns(h, e[1])', Marks'[e] # NoPage
  PROVE  OnceAt(h, e)'
  <1>1. Marks'[e] = Marks[e] /\ Owns(h, e[1]) /\ pg'[h] # Marks[e]
      BY OwnsBefore DEF Fewer, Once
  <1>2. ASSUME NEW d \in Entries, Owns(h, d[1])', Marks'[d] = Marks'[e] PROVE d = e
      <2>1. Marks[d] = Marks[e] /\ Owns(h, d[1])
          BY <1>1, <1>2, OwnsBefore DEF Fewer
      <2> QED BY <1>1, <2>1 DEF Once
  <1> QED BY <1>1, <1>2 DEF OnceAt

LEMMA OnceNewMark ==
  ASSUME Kept, Once, OwnsNext, NEW x \in Entries, NEW q \in Pages, NewMark(x, q),
         NEW h \in Procs, NEW e \in Entries, Owns(h, e[1])', Marks'[e] # NoPage
  PROVE  OnceAt(h, e)'
  <1>1. ASSUME NEW d \in Entries, d # x PROVE Marks'[d] = Marks[d] /\ Marks[d] # q
      BY <1>1 DEF NewMark, OnlyAt, Unreferenced
  <1>2. Marks'[x] = q /\ pg' = pg /\ pg[h] # q
      BY DEF NewMark, Unreferenced
  <1>3. CASE e = x
      <2>1. \A d \in Entries : Marks'[d] = Marks'[e] => d = e
          BY <1>1, <1>2, <1>3
      <2> QED BY <1>2, <1>3, <2>1 DEF OnceAt
  <1>4. CASE e # x
      <2>1. Marks'[e] = Marks[e] /\ Marks[e] # q /\ Owns(h, e[1]) /\ pg[h] # Marks[e]
          BY <1>1, <1>4, OwnsBefore DEF Once
      <2>2. ASSUME NEW d \in Entries, Owns(h, d[1])', Marks'[d] = Marks'[e] PROVE d = e
          <3>1. d # x /\ Marks[d] = Marks[e]
              BY <1>1, <1>2, <2>1, <2>2
          <3>2. Owns(h, d[1])
              BY <2>1, <2>2, <3>1, OwnsBefore
          <3> QED BY <2>1, <3>1, <3>2 DEF Once
      <2> QED BY <1>2, <2>1, <2>2 DEF OnceAt
  <1> QED BY <1>3, <1>4

LEMMA OnceNewCarry ==
  ASSUME Kept, Once, OwnsNext, NEW g \in Procs, NEW q \in Pages, NewCarry(g, q),
         NEW h \in Procs, NEW e \in Entries, Owns(h, e[1])', Marks'[e] # NoPage
  PROVE  OnceAt(h, e)'
  <1>1. /\ Marks' = Marks /\ Marks[e] # q
        /\ g = h => pg'[h] = q
        /\ g # h => pg'[h] = pg[h]
      BY DEF NewCarry, Unreferenced, OnlyOf
  <1>2. Owns(h, e[1]) /\ Marks'[e] = Marks[e] /\ pg[h] # Marks[e]
      BY <1>1, OwnsBefore DEF Once
  <1>3. ASSUME NEW d \in Entries, Owns(h, d[1])', Marks'[d] = Marks'[e] PROVE d = e
      <2>1. Marks[d] = Marks[e] /\ Owns(h, d[1])
          BY <1>1, <1>2, <1>3, OwnsBefore
      <2> QED BY <1>1, <1>2, <2>1 DEF Once
  <1> QED BY <1>1, <1>2, <1>3 DEF OnceAt

LEMMA OnceExchange ==
  ASSUME Kept, Once, OwnsNext, NEW g \in Procs, NEW x \in Entries, Exchange(g, x),
         NEW h \in Procs, NEW e \in Entries, Owns(h, e[1])', Marks'[e] # NoPage
  PROVE  OnceAt(h, e)'
  <1>1. \A d \in Entries : Marks[d] # pg[g] /\ (d # x => Marks'[d] = Marks[d])
      BY DEF Exchange, MappingsOf, OnlyAt
  <1>2. Marks'[x] = pg[g] /\ pg'[g] = Marks[x] /\ Marks[x] # NoPage /\ Owns(g, x[1])
      BY DEF Exchange, Owns
  <1>3. g # h => pg'[h] = pg[h] /\ pg[h] # pg[g]
      BY DEF Exchange, OnlyOf, CarriersOf
  <1>4. CASE e = x
      <2>1. \A d \in Entries : Marks'[d] = Marks'[e] => d = e
          BY <1>1, <1>2, <1>4
      <2>2. pg'[h] # Marks'[e]
          BY <1>1, <1>2, <1>3, <1>4
      <2> QED BY <2>1, <2>2 DEF OnceAt
  <1>5. CASE e # x
      <2>1. Marks'[e] = Marks[e] /\ Owns(h, e[1]) /\ pg[h] # Marks[e]
          BY <1>1, <1>5, OwnsBefore DEF Once
      <2>2. pg'[h] # Marks'[e]
          <3>1. CASE g = h
              <4>1. Marks[x] # Marks[e]
                  BY <1>2, <1>5, <2>1, <3>1 DEF Once
              <4> QED BY <1>2, <2>1, <3>1, <4>1
          <3>2. CASE g # h
              BY <1>3, <2>1, <3>2
          <3> QED BY <3>1, <3>2
      <2>3. ASSUME NEW d \in Entries, Owns(h, d[1])', Marks'[d] = Marks'[e] PROVE d = e
          <3>1. d # x /\ Marks[d] = Marks[e]
              BY <1>1, <1>2, <2>1, <2>3
          <3>2. Owns(h, d[1])
              BY <2>1, <2>3, <3>1, OwnsBefore
          <3> QED BY <2>1, <3>1, <3>2 DEF Once
      <2> QED BY <2>2, <2>3 DEF OnceAt
  <1> QED BY <1>4, <1>5

\* The child has no other page table, and its pages so far are the parent's.
LEMMA OnceChild ==
  ASSUME Typed, Kept, Once, NEW g \in Procs, NEW x \in Entries, NEW y \in Entries,
         CopyMark(g, x, y), NEW h \in Procs, Owns(h, x[1])
  PROVE  /\ pg[h] = NoPage
         /\ \A d \in Entries : Owns(h, d[1]) /\ Marks[d] = Marks[y] => d = x
  <1>1. /\ pc[g] = "fork_ref" /\ pc[g] # "none" /\ pc[g] \in Pending /\ pc[g] \in Loops
        /\ pc[g] \in ForkPoints /\ pc[g] \notin OwnPoints \cup {"panic"} /\ pc[g] \notin ReapPoints
        /\ pc[g] \notin Alone
      BY DEF CopyMark, Pending, Loops, ForkPoints, OwnPoints, ReapPoints, Alone, ExecPoints
  <1>2. /\ x[1] = tgt[g] /\ x[2] = idx[g] /\ y[1] = table[g] /\ y[2] = idx[g]
        /\ Marks[y] # NoPage
      BY DEF CopyMark
  <1>3. table[g] \in Tables /\ tgt[g] \in Tables /\ idx[g] \in VA /\ life[g] = "live"
        /\ tgt[g] # NoTable
      BY <1>1, Here, CowAssumption DEF Kept
  <1>4. table[h] = tgt[g]
      <2>1. ASSUME tgt[h] = tgt[g], pc[h] \in Alone PROVE FALSE
          <3>1. h = g
              BY <1>3, <2>1 DEF Kept, Places
          <3> QED BY <1>1, <2>1, <3>1
      <2> QED BY <1>2, <2>1 DEF Owns
  <1>5. life[h] = "embryo"
      BY <1>1, <1>3, <1>4 DEF Kept, Places
  <1>6. pc[h] = "none" /\ tgt[h] = NoTable
      BY <1>5 DEF Kept, Places
  <1>7. pg[h] = NoPage
      BY <1>6 DEF Kept, Locals
  <1>8. ASSUME NEW d \in Entries, Owns(h, d[1]), Marks[d] = Marks[y], d # x PROVE FALSE
      <2>1. d[1] = tgt[g] /\ d[2] \in VA /\ d[2] # idx[g]
          <3>1. d = <<d[1], d[2]>> /\ x = <<x[1], x[2]>> /\ d[1] \in Tables /\ d[2] \in VA
              BY DEF Entries
          <3>2. d[1] = tgt[g]
              BY <1>4, <1>6, <1>8, <3>1, CowAssumption DEF Owns
          <3> QED BY <1>2, <1>8, <3>1, <3>2
      <2>2. Marks[d] = pt[tgt[g]][d[2]].pa /\ Valid(tgt[g], d[2])
          BY <1>2, <1>8, <2>1, MarkIs DEF Valid
      <2>3. Shape(g, d[2])
          BY <1>1, <2>1, <2>2 DEF Kept, Shapes
      <2>4. d[2] \in Nat /\ idx[g] \in Nat
          BY <1>3, <2>1, CowAssumption DEF VA
      <2>5. d[2] < idx[g]
          BY <1>1, <2>1, <2>3, <2>4 DEF Shape, Building
      <2>6. pt[tgt[g]][d[2]].pa = pt[table[g]][d[2]].pa
          BY <1>1, <2>1, <2>5 DEF Kept, Copies
      <2>7. PICK b \in Entries : b = <<table[g], d[2]>> /\ b[1] = table[g] /\ b[2] = d[2]
          BY <1>3, <2>1, Entry
      <2>8. Marks[b] = pt[table[g]][d[2]].pa
          BY <1>1, <1>3, <2>1, <2>7, MarkOwn DEF Kept
      <2>9. Owns(g, b[1]) /\ Owns(g, y[1])
          BY <1>2, <2>7 DEF Owns
      <2>10. Marks[b] = Marks[y] /\ Marks[y] # NoPage
          BY <1>2, <1>8, <2>2, <2>6, <2>8
      <2>11. b = y
          BY <2>9, <2>10 DEF Once
      <2> QED BY <1>2, <2>1, <2>7, <2>11
  <1> QED BY <1>7, <1>8

LEMMA OnceCopyMark ==
  ASSUME Typed, Kept, Once, OwnsNext, NEW g \in Procs, NEW x \in Entries, NEW y \in Entries,
         CopyMark(g, x, y),
         NEW h \in Procs, NEW e \in Entries, Owns(h, e[1])', Marks'[e] # NoPage
  PROVE  OnceAt(h, e)'
  <1>1. /\ \A d \in Entries : d # x => Marks'[d] = Marks[d]
        /\ Marks'[x] = Marks[y] /\ Marks[y] # NoPage /\ pg' = pg
      BY DEF CopyMark, OnlyAt
  <1>2. Owns(h, x[1])' => Owns(h, x[1])
      <2>1. x[1] = tgt[g] /\ x[1] \in Tables
          BY DEF CopyMark, Entries
      <2>2. x[1] \notin FreeTables
          BY <2>1 DEF FreeTables
      <2> QED BY <2>1, <2>2 DEF OwnsNext, Gets
  <1>3. Owns(h, x[1])' =>
          /\ pg[h] = NoPage
          /\ \A d \in Entries : Owns(h, d[1]) /\ Marks[d] = Marks[y] => d = x
      BY <1>2, OnceChild
  <1>4. \A d \in Entries : Owns(h, d[1])' /\ Marks[d] # NoPage => Owns(h, d[1])
      BY OwnsBefore
  <1>5. CASE e = x
      <2>1. ASSUME NEW d \in Entries, Owns(h, d[1])', Marks'[d] = Marks'[e], d # e PROVE FALSE
          BY <1>1, <1>3, <1>4, <1>5, <2>1
      <2> QED BY <1>1, <1>3, <1>5, <2>1 DEF OnceAt
  <1>6. CASE e # x
      <2>1. Marks'[e] = Marks[e] /\ Owns(h, e[1]) /\ pg[h] # Marks[e]
          BY <1>1, <1>4, <1>6 DEF Once
      <2>2. ASSUME NEW d \in Entries, Owns(h, d[1])', Marks'[d] = Marks'[e] PROVE d = e
          <3>1. CASE d = x
              BY <1>1, <1>3, <1>6, <2>1, <2>2, <3>1
          <3>2. CASE d # x
              <4>1. Marks[d] = Marks[e] /\ Owns(h, d[1])
                  BY <1>1, <1>4, <2>1, <2>2, <3>2
              <4> QED BY <2>1, <4>1 DEF Once
          <3> QED BY <3>1, <3>2
      <2> QED BY <1>1, <2>1, <2>2 DEF OnceAt
  <1> QED BY <1>5, <1>6

LEMMA NextOnce ==
  ASSUME Typed, Kept, Once, OwnsNext, Moves
  PROVE  Once'
  <1>1. ASSUME NEW h \in Procs, NEW e \in Entries, Owns(h, e[1])', Marks'[e] # NoPage
        PROVE  OnceAt(h, e)'
      BY <1>1, OnceFewer, OnceNewMark, OnceNewCarry, OnceExchange, OnceCopyMark DEF Moves
  <1> QED BY <1>1 DEF Once, OnceAt

LEMMA BootMarks ==
  ASSUME NEW h \in Procs, NEW t \in Tables, NEW n \in ImageSizes,
         NEW f \in [0 .. n - 1 -> Pages], Boots(h, t, n, f),
         NEW e \in Entries, NEW d \in Entries, Marks[e] # NoPage, Marks[d] = Marks[e]
  PROVE  d = e
  <1>1. \A g \in Procs : pc[g] \notin Pending
      BY DEF Boots, Pending
  <1>2. ASSUME NEW a \in Entries, Marks[a] # NoPage
        PROVE  /\ a[1] = t /\ a[2] \in 0 .. n - 1 /\ Marks[a] = f[a[2]] /\ a = <<a[1], a[2]>>
      <2>1. a[1] \in Tables /\ a[2] \in VA /\ a = <<a[1], a[2]>>
          BY DEF Entries
      <2>2. Marks[a] = pt[a[1]][a[2]].pa
          BY <1>1, MarkIs
      <2> QED BY <1>2, <2>1, <2>2, BootPTE
  <1> QED BY <1>2 DEF Boots

LEMMA InitOnce == Init => Held /\ Once
  <1> SUFFICES ASSUME NEW h \in Procs, NEW t \in Tables, NEW n \in ImageSizes,
                      NEW f \in [0 .. n - 1 -> Pages], Boots(h, t, n, f)
               PROVE  Held /\ Once
      BY InitBoots
  <1>1. \A g \in Procs : pg[g] = NoPage /\ tgt[g] = NoTable
      BY DEF Boots
  <1>2. Held
      BY <1>1 DEF Held
  <1>3. Once
      BY <1>1, BootMarks DEF Once
  <1> QED BY <1>2, <1>3

LEMMA StutterOnce ==
  ASSUME Held, Once, UNCHANGED vars
  PROVE  Held' /\ Once'
  <1>1. UNCHANGED <<pt, pc, table, tgt, idx, pg>>
      BY DEF vars
  <1>2. Marks' = Marks
      BY <1>1 DEF Marks, Uncounted
  <1> QED BY <1>1, <1>2 DEF Held, Once, Owns

\* References to a page and processes: everyone has at most one.
LEMMA RefsBounded ==
  ASSUME Typed, Kept, PageFacts, Held, Once, NEW p \in Pages
  PROVE  refs[p] \in 0 .. Cardinality(Procs)
  <1>1. PICK S, C, T : /\ S = MappingsOf(Marks, p) /\ C = CarriersOf(pg, p)
                       /\ T = Procs \ C
      OBVIOUS
  <1>2. /\ IsFiniteSet(S) /\ Cardinality(S) \in Nat /\ IsFiniteSet(C) /\ Cardinality(C) \in Nat
        /\ refs[p] = Cardinality(S) + Cardinality(C)
      BY <1>1, FiniteRefs DEF PageFacts, CountIs, Count
  <1>3. IsFiniteSet(Procs) /\ Cardinality(Procs) \in Nat
      BY CowAssumption, FS_CardinalityType
  <1>4. /\ IsFiniteSet(T) /\ Cardinality(T) = Cardinality(Procs) - Cardinality(C)
        /\ Cardinality(T) \in Nat
      <2>1. Procs \cap C = C
          BY <1>1 DEF CarriersOf
      <2>2. IsFiniteSet(T) /\ Cardinality(T) = Cardinality(Procs) - Cardinality(Procs \cap C)
          BY <1>1, <1>3, FS_Difference
      <2> QED BY <2>1, <2>2, FS_CardinalityType
  <1>5. ASSUME NEW e \in S PROVE \E g \in T : Owns(g, e[1])
      <2>1. e \in Entries /\ Marks[e] = p /\ p # NoPage
          BY <1>1, CowAssumption DEF MappingsOf
      <2>2. e[1] \in Tables /\ e[2] \in VA /\ Valid(e[1], e[2])
          BY <2>1, MarkIs DEF Entries, Valid
      <2>3. e[1] \notin FreeTables
          BY <2>2 DEF Kept, Shapes
      <2>4. PICK h \in Procs : table[h] = e[1] \/ tgt[h] = e[1]
          BY <2>2, <2>3 DEF FreeTables
      <2>5. PICK g \in Procs : Owns(g, e[1])
          <3>1. CASE table[h] = e[1]
              BY <3>1 DEF Owns
          <3>2. CASE tgt[h] = e[1]
              BY <2>2, <3>2, CowAssumption DEF Held
          <3> QED BY <2>4, <3>1, <3>2
      <2>6. pg[g] # p
          BY <2>1, <2>5 DEF Once
      <2> QED BY <1>1, <2>5, <2>6 DEF CarriersOf
  <1>6. ASSUME NEW e \in S, NEW d \in S, NEW g \in T, Owns(g, e[1]), Owns(g, d[1]) PROVE e = d
      <2>1. /\ e \in Entries /\ d \in Entries /\ Marks[e] = p /\ Marks[d] = p /\ p # NoPage
            /\ g \in Procs
          BY <1>1, CowAssumption DEF MappingsOf
      <2> QED BY <1>6, <2>1 DEF Once
  <1>7. ~(Cardinality(T) < Cardinality(S))
      <2> SUFFICES ASSUME Cardinality(T) < Cardinality(S) PROVE FALSE
          OBVIOUS
      <2>1. PICK f : f = [e \in S |-> CHOOSE g \in T : Owns(g, e[1])]
          OBVIOUS
      <2>2. f \in [S -> T] /\ \A e \in S : Owns(f[e], e[1])
          BY <1>5, <2>1
      <2>3. PICK e \in S, d \in S : e # d /\ f[e] = f[d]
          BY <1>2, <1>4, <2>2, FS_PigeonHole
      <2> QED BY <1>6, <2>2, <2>3
  <1> QED BY <1>2, <1>3, <1>4, <1>7

-----------------------------------------------------------------------------
\* The inductive invariant, and what it says of the runs' properties.

Inductive == IInv /\ Held /\ Once

LEMMA NextInductive == Typed /\ Kept /\ PageFacts /\ Held /\ Once /\ [Next]_vars
                         => Typed' /\ Kept' /\ PageFacts' /\ Held' /\ Once'
  <1> SUFFICES ASSUME Typed, Kept, PageFacts, Held, Once, [Next]_vars
               PROVE  Typed' /\ Kept' /\ PageFacts' /\ Held' /\ Once'
      OBVIOUS
  <1>1. Typed' /\ Kept' /\ PageFacts'
      BY NextInv
  <1>2. CASE Next
      <2>1. OwnsNext /\ Places'
          BY <1>1, <1>2, NextOwns DEF Kept
      <2>2. Moves
          BY <1>2, <2>1, NextPages
      <2>3. Held' /\ Once'
          BY <2>1, <2>2, NextOnce DEF OwnsNext
      <2> QED BY <1>1, <2>3
  <1>3. CASE UNCHANGED vars
      BY <1>1, <1>3, StutterOnce
  <1> QED BY <1>2, <1>3

\* The page loops of fork(), exec(), sbrk(), exit() and wait() and the store
\* fault keep the invariant, in any interleaving (vm.c, trap.c:68-95).
THEOREM Invariance == Spec => []Inductive
  <1>1. Init => Typed /\ Kept /\ PageFacts /\ Held /\ Once
      BY InitInv, InitOnce
  <1>2. Typed /\ Kept /\ PageFacts => IInv
      BY InvParts
  <1>3. Typed /\ Kept /\ PageFacts /\ Held /\ Once => Inductive
      BY <1>2 DEF Inductive
  <1> QED BY <1>1, <1>3, NextInductive, PTL DEF Spec

LEMMA InvTypeOK == Inductive => TypeOK
  <1> SUFFICES ASSUME Inductive PROVE TypeOK
      OBVIOUS
  <1>1. Typed /\ Kept /\ PageFacts /\ Held /\ Once
      BY InvParts DEF Inductive
  <1>2. \A p \in Pages : refs[p] \in 0 .. Cardinality(Procs)
      BY <1>1, RefsBounded
  <1>3. refs \in [Pages -> 0 .. Cardinality(Procs)]
      BY <1>1, <1>2 DEF Typed
  <1> QED BY <1>1, <1>3 DEF Typed, TypeOK

\* At every instant the count kept by kref_inc() and kref_dec() is the number of
\* PTEs and store faults that refer to the page, a page is free exactly when it
\* has none, and a page some PTE may write is mapped by no other (vm.c:299-330).
THEOREM SharingAlwaysExact == Spec => []SharingExact
  <1>1. Inductive => SharingExact
      BY DEF Inductive, IInv, PageInv, SharingExact
  <1> QED BY <1>1, Invariance, PTL

\* The panics of uvmcopy(), uvmunmap(), mappages() and freewalk() are
\* unreachable, and no count exceeds the number of processes: the bytes of
\* refcounts[] cannot wrap with NPROC = 64 (kalloc.c:33, vm.c:167-330).
THEOREM TablesAlwaysExact == Spec => []TablesExact
  <1>1. Inductive => TablesExact
      BY InvTypeOK, InvTables DEF Inductive, TablesExact
  <1> QED BY <1>1, Invariance, PTL

-----------------------------------------------------------------------------
\* Private memory.  One step of h inside the kernel, and a store to its memory.

Step(h) ==
    \/ \E v \in VA : StoreFault(h, v)
    \/ FaultAlloc(h) \/ FaultCopy(h) \/ FaultMap(h) \/ FaultDrop(h)
    \/ \E c \in Procs, t \in Tables : ForkStart(h, c, t)
    \/ ForkMap(h) \/ ForkRef(h) \/ ForkDone(h)
    \/ UnmapDec(h) \/ UnmapClear(h)
    \/ FreeProc(h) \/ DeallocDone(h) \/ DiscardDone(h)
    \/ \E n \in Deltas : GrowStart(h, n) \/ ShrinkStart(h, n)
    \/ GrowPage(h) \/ GrowDone(h)
    \/ \E t \in Tables, n \in ImageSizes : ExecStart(h, t, n)
    \/ ExecPage(h) \/ ExecCommit(h)
    \/ Exit(h)
    \/ \E c \in Procs : ReapStart(h, c)
Stores(h) == \E v \in VA, x \in Vals : UserStore(h, v, x) \/ Copyout(h, v, x)

LEMMA NextStep == Next => \E h \in Procs : Stores(h) \/ Step(h)
  BY DEF Next, Stores, Step

\* A step of h writes to the table of h and the one it works on.
LEMMA RowsNext ==
  ASSUME Typed, Kept, NEW h \in Procs, Step(h)
  PROVE  \A s \in Tables \ {table[h], tgt[h]} : pt'[s] = pt[s]
  <1>1. CASE FaultMap(h)
      BY <1>1, FaultMapIs DEF Kept, RowsBut
  <1>2. CASE ForkMap(h)
      BY <1>2, ForkMapIs DEF Kept
  <1>3. CASE UnmapClear(h)
      BY <1>3, UnmapClearIs DEF Kept, RowsBut
  <1>4. CASE GrowPage(h) \/ ExecPage(h)
      <2>1. CASE \E q \in free : NewPage(h, q)
          BY <2>1 DEF NewPage, RowsBut
      <2>2. CASE ~\E q \in free : NewPage(h, q)
          <3>1. \/ UvmallocFails(h, "dealloc") \/ UvmallocFails(h, "discard") \/ Panic(h)
              BY <1>4, <2>2, NewPageIs DEF Kept
          <3> QED BY <3>1 DEF UvmallocFails, Panic
      <2> QED BY <2>1, <2>2
  <1>5. CASE FaultAlloc(h) \/ FaultCopy(h) \/ FaultDrop(h)
      BY <1>5 DEF FaultAlloc, FaultCopy, FaultDrop, BecomeZombie, Panic
  <1>6. CASE \E v \in VA : StoreFault(h, v)
      BY <1>6 DEF StoreFault, BecomeZombie
  <1>7. CASE \/ \E c \in Procs, t \in Tables : ForkStart(h, c, t)
             \/ ForkRef(h) \/ ForkDone(h) \/ UnmapDec(h)
      BY <1>7 DEF ForkStart, ForkRef, ForkDone, UnmapDec
  <1>8. CASE FreeProc(h) \/ DeallocDone(h) \/ DiscardDone(h) \/ GrowDone(h)
      BY <1>8 DEF FreeProc, DeallocDone, DiscardDone, GrowDone
  <1>9. CASE \/ \E n \in Deltas : GrowStart(h, n) \/ ShrinkStart(h, n)
             \/ \E t \in Tables, n \in ImageSizes : ExecStart(h, t, n)
             \/ ExecCommit(h) \/ Exit(h)
             \/ \E c \in Procs : ReapStart(h, c)
      BY <1>9 DEF GrowStart, ShrinkStart, ExecStart, ExecCommit, Exit, BecomeZombie, ReapStart
  <1> QED BY <1>1, <1>2, <1>3, <1>4, <1>5, <1>6, <1>7, <1>8, <1>9 DEF Step

\* A step of h leaves the state of another process alone, but that the child of
\* a fork() comes to life.
Undisturbed(g) ==
  /\ life'[g] = life[g] /\ table'[g] = table[g] /\ sz'[g] = sz[g] /\ pc'[g] = pc[g]
  /\ tgt'[g] = tgt[g] /\ idx'[g] = idx[g] /\ lim'[g] = lim[g] /\ low'[g] = low[g]
  /\ pg'[g] = pg[g]
StaysHidden(h, g) ==
  /\ pc'[g] \in {"none", "user"}
  /\ life'[g] # "live" \/ (ForkDone(h) /\ life[g] = "embryo" /\ table[g] = tgt[h])

LEMMA OthersZombie ==
  ASSUME Typed, NEW h \in Procs, NEW g \in Procs \ {h},
         BecomeZombie(h) \/ Panic(h)
  PROVE  Undisturbed(g)
  BY DEF Typed, BecomeZombie, Panic, Undisturbed, proc, local

LEMMA OthersReturn ==
  ASSUME Typed, NEW h \in Procs, NEW g \in Procs \ {h}, Return(h)
  PROVE  /\ pc'[g] = pc[g] /\ tgt'[g] = tgt[g] /\ idx'[g] = idx[g] /\ lim'[g] = lim[g]
         /\ low'[g] = low[g] /\ pg'[g] = pg[g]
  BY DEF Typed, Return

LEMMA OthersFault ==
  ASSUME Typed, NEW h \in Procs, NEW g \in Procs \ {h},
         \/ \E v \in VA : StoreFault(h, v)
         \/ FaultAlloc(h) \/ FaultCopy(h) \/ FaultMap(h) \/ FaultDrop(h)
         \/ Exit(h)
  PROVE  Undisturbed(g)
  <1>1. CASE BecomeZombie(h) \/ Panic(h)
      BY <1>1, OthersZombie
  <1>2. CASE \E v \in VA : StoreFault(h, v)
      BY <1>1, <1>2 DEF StoreFault, Undisturbed, Typed, proc
  <1>3. CASE FaultAlloc(h)
      BY <1>1, <1>3 DEF FaultAlloc, Undisturbed, Typed, proc
  <1>4. CASE FaultCopy(h) \/ FaultMap(h)
      BY <1>4 DEF FaultCopy, FaultMap, Undisturbed, Typed, proc, local
  <1>5. CASE FaultDrop(h)
      BY <1>5, OthersReturn DEF FaultDrop, Undisturbed, proc
  <1> QED BY <1>1, <1>2, <1>3, <1>4, <1>5 DEF Exit

LEMMA OthersLoop ==
  ASSUME Typed, NEW h \in Procs, NEW g \in Procs \ {h},
         \/ ForkMap(h) \/ ForkRef(h) \/ UnmapDec(h) \/ UnmapClear(h)
         \/ GrowPage(h) \/ ExecPage(h)
         \/ DeallocDone(h) \/ DiscardDone(h) \/ GrowDone(h) \/ ExecCommit(h)
         \/ \E n \in Deltas : GrowStart(h, n) \/ ShrinkStart(h, n)
         \/ \E t \in Tables, n \in ImageSizes : ExecStart(h, t, n)
         \/ \E c \in Procs : ReapStart(h, c)
  PROVE  Undisturbed(g)
  <1>1. CASE ForkMap(h)
      BY <1>1 DEF ForkMap, Undisturbed, Typed, proc
  <1>2. CASE ForkRef(h) \/ UnmapDec(h) \/ UnmapClear(h)
      BY <1>2 DEF ForkRef, UnmapDec, UnmapClear, Undisturbed, Typed, proc, local
  <1>3. CASE GrowPage(h) \/ ExecPage(h)
      BY <1>3, OthersZombie DEF GrowPage, ExecPage, UvmallocFails, Undisturbed, Typed, proc
  <1>4. CASE DeallocDone(h) \/ DiscardDone(h) \/ GrowDone(h)
      <2>1. Return(h)
          BY <1>4 DEF DeallocDone, DiscardDone, GrowDone
      <2>2. life'[g] = life[g] /\ table'[g] = table[g] /\ sz'[g] = sz[g]
          BY <1>4 DEF DeallocDone, DiscardDone, GrowDone, proc, Typed
      <2> QED BY <2>1, <2>2, OthersReturn DEF Undisturbed
  <1>5. CASE ExecCommit(h)
      BY <1>5 DEF ExecCommit, Undisturbed, Typed
  <1>6. CASE \/ \E n \in Deltas : GrowStart(h, n) \/ ShrinkStart(h, n)
             \/ \E t \in Tables, n \in ImageSizes : ExecStart(h, t, n)
             \/ \E c \in Procs : ReapStart(h, c)
      BY <1>6 DEF GrowStart, ShrinkStart, ExecStart, ReapStart, Undisturbed, Typed, proc
  <1> QED BY <1>1, <1>2, <1>3, <1>4, <1>5, <1>6

LEMMA OthersNext ==
  ASSUME Typed, Kept, NEW h \in Procs, Step(h), NEW g \in Procs \ {h}
  PROVE  \/ Undisturbed(g)
         \/ life[g] # "live" /\ StaysHidden(h, g)
  <1>1. life[g] # "live" => pc[g] = "none"
      BY DEF Kept, Places
  <1>2. ASSUME NEW c \in Procs, NEW t \in Tables, ForkStart(h, c, t)
        PROVE  \/ Undisturbed(g)
               \/ life[g] # "live" /\ StaysHidden(h, g)
      <2>1. CASE g # c
          BY <1>2, <2>1 DEF ForkStart, Undisturbed, Typed
      <2>2. CASE g = c
          <3>1. life[g] = "unused" /\ life'[g] = "embryo" /\ pc'[g] = pc[g]
              BY <1>2, <2>2 DEF ForkStart, Typed
          <3> QED BY <1>1, <3>1 DEF StaysHidden
      <2> QED BY <2>1, <2>2
  <1>3. ASSUME ForkDone(h)
        PROVE  \/ Undisturbed(g)
               \/ life[g] # "live" /\ StaysHidden(h, g)
      <2>1. PICK c \in Procs : /\ life[c] = "embryo" /\ table[c] = tgt[h]
                               /\ sz' = [sz EXCEPT ![c] = sz[h]]
                               /\ life' = [life EXCEPT ![c] = "live"]
                               /\ pc' = [pc EXCEPT ![h] = "user", ![c] = "user"]
          BY <1>3 DEF ForkDone
      <2>2. CASE g # c
          BY <1>3, <2>1, <2>2 DEF ForkDone, Undisturbed, Typed
      <2>3. CASE g = c
          <3>1. pc'[g] = "user"
              BY <2>1, <2>3 DEF Typed
          <3> QED BY <1>3, <2>1, <2>3, <3>1 DEF StaysHidden
      <2> QED BY <2>2, <2>3
  <1>4. ASSUME FreeProc(h)
        PROVE  \/ Undisturbed(g)
               \/ life[g] # "live" /\ StaysHidden(h, g)
      <2>1. PICK c \in Procs : /\ table[c] = tgt[h] /\ c # h
                               /\ life' = [life EXCEPT ![c] = "unused"]
                               /\ table' = [table EXCEPT ![c] = NoTable]
                               /\ sz' = [sz EXCEPT ![c] = 0]
          BY <1>4 DEF FreeProc
      <2>2. Return(h) /\ pc[h] \in {"undo", "reap"} /\ pc[h] \in Loops
          BY <1>4 DEF FreeProc, Loops, ForkPoints, ReapPoints
      <2>3. CASE g # c
          BY <2>1, <2>2, <2>3, OthersReturn DEF Undisturbed, Typed
      <2>4. CASE g = c
          <3>1. life[g] # "live"
              BY <2>1, <2>2, <2>4 DEF Kept, Places
          <3>2. life'[g] = "unused" /\ pc'[g] = pc[g]
              BY <2>1, <2>2, <2>4, OthersReturn DEF Typed
          <3> QED BY <1>1, <3>1, <3>2 DEF StaysHidden
      <2> QED BY <2>3, <2>4
  <1> QED BY <1>2, <1>3, <1>4, OthersFault, OthersLoop DEF Step

-----------------------------------------------------------------------------
\* A page that some PTE without PTE_COW maps is mapped by no other.

Plains == [e \in Entries |-> ~pt[e[1]][e[2]].COW]
Solo == SoleIs(Marks, Plains)
PlainsNext ==
  \A e \in Entries : Marks'[e] # NoPage /\ Marks'[e] = Marks[e] /\ Plains'[e] => Plains[e]

\* What the calls have put into pages so far: a new program or new memory, the
\* copy of a store fault; and uvmcopy() shares only what it has marked.
ContentOf(h) ==
  /\ pc[h] = "exec" => lim[h] > 0 /\ \A v \in VA : v < idx[h] => mem[pt[tgt[h]][v].pa] = Image
  /\ pc[h] = "grow" =>
       \A v \in VA : sz[h] <= v /\ v < idx[h] => mem[pt[table[h]][v].pa] = Zero
  /\ pc[h] = "f_map" => mem[pg[h]] = mem[pt[table[h]][idx[h]].pa]
  /\ pc[h] = "fork_ref" => pt[tgt[h]][idx[h]].COW /\ pt[table[h]][idx[h]].COW
Contents == \A h \in Procs : ContentOf(h)

LEMMA PlainsAre ==
  ASSUME NEW e \in Entries
  PROVE  /\ Plains[e] = ~pt[e[1]][e[2]].COW
         /\ Plains'[e] = ~pt'[e[1]][e[2]].COW
  BY DEF Plains

LEMMA SoloUnreferenced ==
  ASSUME Solo, PlainsNext, NEW x \in Entries, NEW q, OnlyAt(x, Marks, Marks'), Marks'[x] = q,
         \A e \in Entries : Marks[e] # q
  PROVE  Solo'
  <1>1. ASSUME NEW e \in Entries, NEW f \in Entries, Marks'[e] # NoPage, Plains'[e],
               Marks'[f] = Marks'[e]
        PROVE  e = f
      <2>1. \A d \in Entries : d # x => Marks'[d] = Marks[d]
          BY DEF OnlyAt
      <2>2. CASE e = x
          BY <1>1, <2>1, <2>2
      <2>3. CASE e # x
          <3>1. Marks'[e] = Marks[e] /\ Plains[e] /\ f # x
              BY <1>1, <2>1, <2>3 DEF PlainsNext
          <3> QED BY <1>1, <2>1, <3>1 DEF Solo, SoleIs
      <2> QED BY <2>2, <2>3
  <1> QED BY <1>1 DEF Solo, SoleIs

LEMMA SoloCopyMark ==
  ASSUME Solo, PlainsNext, Contents, NEW h \in Procs, NEW x \in Entries, NEW y \in Entries,
         CopyMark(h, x, y)
  PROVE  Solo'
  <1>1. /\ pc[h] = "fork_ref" /\ x[1] = tgt[h] /\ x[2] = idx[h] /\ y[1] = table[h] /\ y[2] = idx[h]
        /\ \A d \in Entries : d # x => Marks'[d] = Marks[d]
        /\ Marks'[x] = Marks[y] /\ Marks[y] # NoPage /\ pt' = pt
      BY DEF CopyMark, OnlyAt
  <1>2. pt[tgt[h]][idx[h]].COW /\ pt[table[h]][idx[h]].COW
      BY <1>1 DEF Contents, ContentOf
  <1>3. ~Plains'[x] /\ ~Plains[y] /\ ~Plains'[y]
      BY <1>1, <1>2, PlainsAre
  <1>4. ASSUME NEW e \in Entries, NEW f \in Entries, Marks'[e] # NoPage, Plains'[e],
               Marks'[f] = Marks'[e]
        PROVE  e = f
      <2>1. e # x /\ Marks'[e] = Marks[e] /\ Plains[e] /\ e # y
          BY <1>1, <1>3, <1>4 DEF PlainsNext
      <2>2. CASE f = x
          BY <1>1, <1>4, <2>1, <2>2 DEF Solo, SoleIs
      <2>3. CASE f # x
          BY <1>1, <1>4, <2>1, <2>3 DEF Solo, SoleIs
      <2> QED BY <2>2, <2>3
  <1> QED BY <1>4 DEF Solo, SoleIs

LEMMA SoloNext ==
  ASSUME Solo, Contents, PlainsNext, Moves
  PROVE  Solo'
  <1>1. CASE Fewer
      BY <1>1 DEF Fewer, PlainsNext, Solo, SoleIs
  <1>2. ASSUME NEW x \in Entries, NEW q \in Pages, NewMark(x, q) PROVE Solo'
      BY <1>2, SoloUnreferenced DEF NewMark, Unreferenced
  <1>3. ASSUME NEW h \in Procs, NEW q \in Pages, NewCarry(h, q) PROVE Solo'
      BY <1>3 DEF NewCarry, PlainsNext, Solo, SoleIs
  <1>4. ASSUME NEW h \in Procs, NEW x \in Entries, Exchange(h, x) PROVE Solo'
      <2>1. \A e \in Entries : Marks[e] # pg[h]
          BY <1>4 DEF Exchange, MappingsOf
      <2> QED BY <1>4, <2>1, SoloUnreferenced DEF Exchange
  <1> QED BY <1>1, <1>2, <1>3, <1>4, SoloCopyMark DEF Moves

\* Only a store fault and a new page make a PTE plain, and each maps another page.
LEMMA PlainsAt ==
  ASSUME NEW t \in Tables, NEW v \in VA, NEW w \in PTE, SetAt(t, v, w),
         w.pa = NoPage \/ \A e \in Entries : Marks[e] # w.pa
  PROVE  PlainsNext
  <1>1. ASSUME NEW e \in Entries, Marks'[e] # NoPage, Marks'[e] = Marks[e], Plains'[e]
        PROVE  Plains[e]
      <2>1. e[1] \in Tables /\ e[2] \in VA
          BY DEF Entries
      <2>2. CASE e[1] = t /\ e[2] = v
          <3>1. pt'[e[1]][e[2]] = w
              BY <2>2 DEF SetAt
          <3> QED BY <1>1, <3>1, MarkIsNext
      <2>3. CASE ~(e[1] = t /\ e[2] = v)
          <3>1. pt'[e[1]][e[2]] = pt[e[1]][e[2]]
              BY <2>1, <2>3 DEF SetAt
          <3> QED BY <1>1, <3>1, PlainsAre
      <2> QED BY <2>2, <2>3
  <1> QED BY <1>1 DEF PlainsNext

LEMMA PlainsForkMap ==
  ASSUME Typed, Kept, NEW h \in Procs, ForkMap(h)
  PROVE  PlainsNext
  <1>1. ForkWrites(h)
      BY ForkMapIs DEF Kept
  <1>2. PICK w \in PTE :
          /\ w.COW
          /\ \/ \A s \in Tables, u \in VA :
                  pt'[s][u] = IF s \in {table[h], tgt[h]} /\ u = idx[h] THEN w ELSE pt[s][u]
             \/ SetAt(table[h], idx[h], w)
      BY <1>1 DEF ForkWrites
  <1>3. ASSUME NEW e \in Entries, Plains'[e] PROVE Plains[e]
      <2>1. e[1] \in Tables /\ e[2] \in VA
          BY DEF Entries
      <2>2. pt'[e[1]][e[2]] # w
          BY <1>2, <1>3, PlainsAre
      <2>3. pt'[e[1]][e[2]] = pt[e[1]][e[2]]
          BY <1>2, <2>1, <2>2 DEF SetAt
      <2> QED BY <1>3, <2>3, PlainsAre
  <1> QED BY <1>3 DEF PlainsNext

LEMMA PlainsStill ==
  ASSUME pt' = pt
  PROVE  PlainsNext
  BY DEF PlainsNext, Plains

LEMMA PlainsStep ==
  ASSUME Typed, Kept, PageFacts, NEW h \in Procs, Step(h)
  PROVE  PlainsNext
  <1>1. CASE FaultMap(h)
      <2>1. /\ table[h] \in Tables /\ idx[h] \in VA /\ h \in Faulting
          BY <1>1, Here DEF FaultMap, FaultPoints, Kept, Faulting
      <2>2. PICK w \in PTE : w.pa = pg[h] /\ SetAt(table[h], idx[h], w)
          BY <1>1, FaultMapIs DEF Kept
      <2>3. \A e \in Entries : Marks[e] # w.pa
          BY <2>1, <2>2 DEF PageFacts, FreshIs, MappingsOf
      <2> QED BY <2>1, <2>2, <2>3, PlainsAt
  <1>2. CASE ForkMap(h)
      BY <1>2, PlainsForkMap
  <1>3. CASE UnmapClear(h)
      <2>1. tgt[h] \in Tables /\ idx[h] \in VA /\ SetAt(tgt[h], idx[h], NoPTE)
          BY <1>3, UnmapClearIs DEF Kept
      <2>2. NoPTE \in PTE /\ NoPTE.pa = NoPage
          BY DEF NoPTE, PTE
      <2> QED BY <2>1, <2>2, PlainsAt
  <1>4. CASE GrowPage(h) \/ ExecPage(h)
      <2>1. ASSUME NEW q \in free, NewPage(h, q) PROVE PlainsNext
          <3>1. /\ tgt[h] \in Tables /\ idx[h] \in VA /\ q \in Pages
              BY <2>1 DEF NewPage
          <3>2. PICK w \in PTE : w.pa = q /\ SetAt(tgt[h], idx[h], w)
              BY <2>1 DEF NewPage
          <3>3. \A e \in Entries : Marks[e] # w.pa
              BY <3>1, <3>2, FreePage
          <3> QED BY <3>1, <3>2, <3>3, PlainsAt
      <2>2. CASE ~\E q \in free : NewPage(h, q)
          <3>1. \/ UvmallocFails(h, "dealloc") \/ UvmallocFails(h, "discard") \/ Panic(h)
              BY <1>4, <2>2, NewPageIs DEF Kept
          <3> QED BY <3>1, PlainsStill DEF UvmallocFails, Panic
      <2> QED BY <2>1, <2>2
  <1>5. CASE FaultAlloc(h) \/ FaultCopy(h) \/ FaultDrop(h)
      BY <1>5, PlainsStill DEF FaultAlloc, FaultCopy, FaultDrop, BecomeZombie, Panic
  <1>6. CASE \E v \in VA : StoreFault(h, v)
      BY <1>6, PlainsStill DEF StoreFault, BecomeZombie
  <1>7. CASE \/ \E c \in Procs, t \in Tables : ForkStart(h, c, t)
             \/ ForkRef(h) \/ ForkDone(h) \/ UnmapDec(h)
      BY <1>7, PlainsStill DEF ForkStart, ForkRef, ForkDone, UnmapDec
  <1>8. CASE FreeProc(h) \/ DeallocDone(h) \/ DiscardDone(h) \/ GrowDone(h)
      BY <1>8, PlainsStill DEF FreeProc, DeallocDone, DiscardDone, GrowDone
  <1>9. CASE \/ \E n \in Deltas : GrowStart(h, n) \/ ShrinkStart(h, n)
             \/ \E t \in Tables, n \in ImageSizes : ExecStart(h, t, n)
             \/ ExecCommit(h) \/ Exit(h)
             \/ \E c \in Procs : ReapStart(h, c)
      BY <1>9, PlainsStill
         DEF GrowStart, ShrinkStart, ExecStart, ExecCommit, Exit, BecomeZombie, ReapStart
  <1> QED BY <1>1, <1>2, <1>3, <1>4, <1>5, <1>6, <1>7, <1>8, <1>9 DEF Step

-----------------------------------------------------------------------------
\* A page keeps its contents as long as the same PTE or the same store fault
\* refers to it.

MarkKept == \A e \in Entries : Marks[e] \in Pages /\ Marks'[e] = Marks[e]
              => mem'[Marks[e]] = mem[Marks[e]]
CarryKept(h) == \A g \in Procs \ {h} : pg[g] \in Pages /\ pg'[g] = pg[g]
              => mem'[pg[g]] = mem[pg[g]]
MemKept(h) == MarkKept /\ CarryKept(h)

LEMMA MemStill ==
  ASSUME NEW h, mem' = mem
  PROVE  MemKept(h)
  BY DEF MemKept, MarkKept, CarryKept

\* kalloc().
LEMMA MemTake ==
  ASSUME Typed, PageFacts, NEW h \in Procs, NEW q \in free, NEW x, mem' = [mem EXCEPT ![q] = x]
  PROVE  MemKept(h)
  <1>1. q \in Pages
      BY DEF Typed
  <1>2. /\ \A e \in Entries : Marks[e] # q
        /\ \A g \in Procs : pg[g] # q
      BY <1>1, FreePage
  <1>3. \A p \in Pages : p # q => mem'[p] = mem[p]
      BY DEF Typed
  <1> QED BY <1>2, <1>3 DEF MemKept, MarkKept, CarryKept

\* kref_dec(): the page it frees has no reference left.
LEMMA MemDrop ==
  ASSUME Typed, PageFacts, PageFacts', NEW h \in Procs, NEW p \in Pages, KrefDec(p)
  PROVE  MemKept(h)
  <1>1. CASE refs[p] # 1
      BY <1>1, MemStill DEF KrefDec
  <1>2. CASE refs[p] = 1
      <2>1. p \in free' /\ mem' = [mem EXCEPT ![p] = Junk]
          BY <1>2 DEF KrefDec
      <2>2. CountIs(Marks', pg', refs', free')
          BY DEF PageFacts
      <2>3. /\ \A e \in Entries : Marks'[e] # p
            /\ \A g \in Procs : pg'[g] # p
          BY <2>1, <2>2, Referenced
      <2>4. \A q \in Pages : q # p => mem'[q] = mem[q]
          BY <2>1 DEF Typed
      <2> QED BY <2>3, <2>4 DEF MemKept, MarkKept, CarryKept
  <1> QED BY <1>1, <1>2

\* memmove() into the page a store fault has allocated.
LEMMA MemCopy ==
  ASSUME Typed, PageFacts, NEW h \in Procs, FaultCopy(h)
  PROVE  MemKept(h)
  <1>1. h \in Faulting
      BY DEF FaultCopy, Faulting
  <1>2. /\ \A e \in Entries : Marks[e] # pg[h]
        /\ \A g \in Procs : pg[g] = pg[h] => g = h
      BY <1>1 DEF PageFacts, FreshIs, MappingsOf, CarriersOf
  <1>3. \A p \in Pages : p # pg[h] => mem'[p] = mem[p]
      BY DEF FaultCopy, Typed
  <1> QED BY <1>2, <1>3 DEF MemKept, MarkKept, CarryKept

LEMMA MemStep ==
  ASSUME Typed, Kept, PageFacts, PageFacts', NEW h \in Procs, Step(h)
  PROVE  MemKept(h)
  <1>1. CASE FaultAlloc(h)
      <2>1. CASE mem' = mem
          BY <2>1, MemStill
      <2>2. CASE mem' # mem
          <3>1. PICK q \in free : Kalloc(q, Junk)
              BY <1>1, <2>2 DEF FaultAlloc, BecomeZombie, Panic, alloc
          <3> QED BY <3>1, MemTake DEF Kalloc
      <2> QED BY <2>1, <2>2
  <1>2. CASE FaultDrop(h)
      <2>1. pg[h] \in Pages /\ KrefDec(pg[h])
          BY <1>2, Here DEF FaultDrop, Kept
      <2> QED BY <2>1, MemDrop
  <1>3. CASE UnmapDec(h)
      <2>1. pc[h] \in Loops /\ pc[h] \in Unmapping /\ idx[h] < lim[h]
          BY <1>3 DEF UnmapDec, Unmapping, Loops, ForkPoints, OwnPoints, ExecPoints, ReapPoints
      <2>2. pt[tgt[h]][idx[h]].pa \in Pages /\ KrefDec(pt[tgt[h]][idx[h]].pa)
          BY <1>3, <2>1, LoopPage DEF UnmapDec, Kept
      <2> QED BY <2>2, MemDrop
  <1>4. CASE GrowPage(h) \/ ExecPage(h)
      <2>1. ASSUME NEW q \in free, NewPage(h, q) PROVE MemKept(h)
          BY <2>1, MemTake DEF NewPage
      <2>2. CASE ~\E q \in free : NewPage(h, q)
          <3>1. \/ UvmallocFails(h, "dealloc") \/ UvmallocFails(h, "discard") \/ Panic(h)
              BY <1>4, <2>2, NewPageIs DEF Kept
          <3> QED BY <3>1, MemStill DEF UvmallocFails, Panic, alloc
      <2> QED BY <2>1, <2>2
  <1>5. CASE \/ \E v \in VA : StoreFault(h, v)
             \/ FaultMap(h) \/ Exit(h)
      BY <1>5, MemStill DEF StoreFault, BecomeZombie, FaultMap, Exit, alloc
  <1>6. CASE \/ \E c \in Procs, t \in Tables : ForkStart(h, c, t)
             \/ ForkMap(h) \/ ForkRef(h) \/ ForkDone(h) \/ UnmapClear(h)
      BY <1>6, MemStill DEF ForkStart, ForkMap, ForkRef, ForkDone, UnmapClear, alloc
  <1>7. CASE FreeProc(h) \/ DeallocDone(h) \/ DiscardDone(h) \/ GrowDone(h)
      BY <1>7, MemStill DEF FreeProc, DeallocDone, DiscardDone, GrowDone, alloc
  <1>8. CASE \/ \E n \in Deltas : GrowStart(h, n) \/ ShrinkStart(h, n)
             \/ \E t \in Tables, n \in ImageSizes : ExecStart(h, t, n)
             \/ ExecCommit(h)
             \/ \E c \in Procs : ReapStart(h, c)
      BY <1>8, MemStill DEF GrowStart, ShrinkStart, ExecStart, ExecCommit, ReapStart, alloc
  <1> QED BY <1>1, <1>2, <1>3, <1>4, <1>5, <1>6, <1>7, <1>8, MemCopy DEF Step

-----------------------------------------------------------------------------
\* What a process sees.

Top(g) == IF pc[g] \in {"dealloc", "dealloc_clr"} THEN low[g] ELSE sz[g]
At(t, v) == IF Valid(t, v) THEN mem[pt[t][v].pa] ELSE Junk

LEMMA VisibleIs ==
  ASSUME NEW g
  PROVE  /\ life[g] # "live" => Visible(g) = Dead
         /\ life[g] = "live" => Visible(g) = [v \in 0 .. Top(g) - 1 |-> At(table[g], v)]
  BY DEF Visible, Top, At

LEMMA VisibleIsNext ==
  ASSUME NEW g
  PROVE  /\ life'[g] # "live" => Visible(g)' = Dead
         /\ \A t : life'[g] = "live" /\ table'[g] = t =>
              Visible(g)' = [v \in 0 .. Top(g)' - 1 |-> At(t, v)']
  BY DEF Visible, Top, At

LEMMA TopType ==
  ASSUME Typed, NEW g \in Procs
  PROVE  Top(g) \in 0 .. NV /\ \A v \in 0 .. Top(g) - 1 : v \in VA /\ v < Top(g)
  <1>1. Top(g) \in 0 .. NV
      BY DEF Typed, Top
  <1> QED BY <1>1, CowAssumption DEF VA

LEMMA AtType ==
  ASSUME Typed, NEW t \in Tables, NEW v \in VA
  PROVE  At(t, v) \in Vals \cup {Junk}
  BY DEF Typed, At, Valid, PTE

\* The PTEs a live process works with are counted, but for the one its loop is
\* about to clear or has not counted yet.
LEMMA SeenMark ==
  ASSUME Places, NEW g \in Procs, life[g] = "live", NEW t \in Tables, NEW v \in VA,
         t \in {table[g], tgt[g]}, pc[g] \in Pending /\ t = tgt[g] => v # idx[g]
  PROVE  Marks[<<t, v>>] = pt[t][v].pa
  <1>1. PICK e \in Entries : e = <<t, v>> /\ e[1] = t /\ e[2] = v
      BY Entry
  <1>2. ASSUME NEW k \in Procs, pc[k] \in Pending, e = <<tgt[k], idx[k]>> PROVE FALSE
      <2>1. tgt[k] = t /\ tgt[k] # NoTable /\ idx[k] = v
          BY <1>1, <1>2, CowAssumption
      <2>2. k # g
          BY <1>2, <2>1
      <2>3. t = table[g]
          BY <2>1, <2>2 DEF Places
      <2> QED BY <2>1, <2>2, <2>3 DEF Places
  <1> QED BY <1>1, <1>2, MarkIs

LEMMA SeenMarkNext ==
  ASSUME Places', NEW g \in Procs, life'[g] = "live", NEW t \in Tables, NEW v \in VA,
         t \in {table'[g], tgt'[g]}, pc'[g] \in Pending /\ t = tgt'[g] => v # idx'[g]
  PROVE  Marks'[<<t, v>>] = pt'[t][v].pa
  <1>1. PICK e \in Entries : e = <<t, v>> /\ e[1] = t /\ e[2] = v
      BY Entry
  <1>2. ASSUME NEW k \in Procs, pc'[k] \in Pending, e = <<tgt'[k], idx'[k]>> PROVE FALSE
      <2>1. tgt'[k] = t /\ tgt'[k] # NoTable /\ idx'[k] = v
          BY <1>1, <1>2, CowAssumption
      <2>2. k # g
          BY <1>2, <2>1
      <2>3. t = table'[g]
          BY <2>1, <2>2 DEF Places
      <2> QED BY <2>1, <2>2, <2>3 DEF Places
  <1> QED BY <1>1, <1>2, MarkIsNext

\* A visible page is not one that sbrk() is removing.
LEMMA SeenIndex ==
  ASSUME Typed, Places, Locals, NEW g \in Procs, life[g] = "live",
         NEW v \in VA, v < Top(g), pc[g] \in Pending, table[g] = tgt[g]
  PROVE  v # idx[g]
  <1>1. pc[g] # "none" /\ table[g] # NoTable
      BY DEF Places
  <1>2. pc[g] \in OwnPoints
      BY <1>1 DEF Places, Pending
  <1>3. pc[g] = "dealloc_clr" /\ pc[g] \in Loops
      BY <1>2 DEF OwnPoints, Pending, Loops
  <1>4. v < low[g] /\ low[g] <= idx[g] /\ v \in Nat /\ low[g] \in Nat /\ idx[g] \in Nat
      BY <1>3, CowAssumption DEF Top, Locals, Typed, VA
  <1> QED BY <1>4

LEMMA SeenIndexNext ==
  ASSUME Typed', Places', Locals', NEW g \in Procs, life'[g] = "live",
         NEW v \in VA, v < Top(g)', pc'[g] \in Pending, table'[g] = tgt'[g]
  PROVE  v # idx'[g]
  <1>1. pc'[g] # "none" /\ table'[g] # NoTable
      BY DEF Places
  <1>2. pc'[g] \in OwnPoints
      BY <1>1 DEF Places, Pending
  <1>3. pc'[g] = "dealloc_clr" /\ pc'[g] \in Loops
      BY <1>2 DEF OwnPoints, Pending, Loops
  <1>4. v < low'[g] /\ low'[g] <= idx'[g] /\ v \in Nat /\ low'[g] \in Nat /\ idx'[g] \in Nat
      BY <1>3, CowAssumption DEF Top, Locals, Typed, VA
  <1> QED BY <1>4

\* A counted PTE that keeps its page keeps its contents.
LEMMA PageKept ==
  ASSUME Typed, MarkKept, NEW t \in Tables, NEW v \in VA,
         Marks[<<t, v>>] = pt[t][v].pa, Marks'[<<t, v>>] = pt'[t][v].pa,
         pt'[t][v].pa = pt[t][v].pa
  PROVE  At(t, v)' = At(t, v) /\ (Valid(t, v) => mem'[pt'[t][v].pa] = mem[pt[t][v].pa])
  <1>1. PICK e \in Entries : e = <<t, v>>
      BY Entry
  <1>2. Valid(t, v) => pt[t][v].pa \in Pages
      BY DEF Typed, Valid, PTE
  <1>3. Valid(t, v) => mem'[pt'[t][v].pa] = mem[pt[t][v].pa]
      BY <1>1, <1>2 DEF MarkKept
  <1> QED BY <1>3 DEF At, Valid

\* A process whose page table and visible size stay sees the same, if the pages
\* do.
LEMMA ViewSame ==
  ASSUME NEW g, NEW t, life[g] = "live", life'[g] = "live", table[g] = t, table'[g] = t,
         Top(g)' = Top(g), \A v \in 0 .. Top(g) - 1 : At(t, v)' = At(t, v)
  PROVE  Visible(g)' = Visible(g)
  <1>1. Visible(g) = [v \in 0 .. Top(g) - 1 |-> At(t, v)]
      BY VisibleIs
  <1>2. Visible(g)' = [v \in 0 .. Top(g)' - 1 |-> At(t, v)']
      BY VisibleIsNext
  <1> QED BY <1>1, <1>2

LEMMA SeenKept ==
  ASSUME Typed, Kept, Typed', Kept', MarkKept, NEW g \in Procs,
         life[g] = "live", life'[g] = "live", table'[g] = table[g], Top(g)' = Top(g),
         \A v \in VA : v < Top(g) => pt'[table[g]][v].pa = pt[table[g]][v].pa
  PROVE  Visible(g)' = Visible(g)
  <1>1. Places /\ Locals /\ Places' /\ Locals'
      BY DEF Kept
  <1>2. PICK t \in Tables : t = table[g]
      BY <1>1 DEF Places, Typed
  <1>3. ASSUME NEW v \in 0 .. Top(g) - 1 PROVE At(t, v)' = At(t, v)
      <2>1. v \in VA /\ v < Top(g) /\ v < Top(g)'
          BY TopType
      <2>2. Marks[<<t, v>>] = pt[t][v].pa
          <3>1. pc[g] \in Pending /\ t = tgt[g] => v # idx[g]
              BY <1>1, <1>2, <2>1, SeenIndex
          <3> QED BY <1>1, <1>2, <2>1, <3>1, SeenMark
      <2>3. Marks'[<<t, v>>] = pt'[t][v].pa
          <3>1. pc'[g] \in Pending /\ t = tgt'[g] => v # idx'[g]
              BY <1>1, <1>2, <2>1, SeenIndexNext
          <3> QED BY <1>1, <1>2, <2>1, <3>1, SeenMarkNext
      <2>4. pt'[t][v].pa = pt[t][v].pa
          BY <1>2, <2>1
      <2> QED BY <2>1, <2>2, <2>3, <2>4, PageKept
  <1> QED BY <1>2, <1>3, ViewSame

-----------------------------------------------------------------------------
\* What a step of h does to the others.

LEMMA StepLive ==
  ASSUME Typed, Kept, NEW h \in Procs, Step(h) \/ Stores(h)
  PROVE  pc[h] # "none" /\ life[h] = "live" /\ table[h] \in Tables
  <1>1. CASE UnmapClear(h)
      BY <1>1, Here, UnmapClearIs DEF Kept, Pending
  <1>2. CASE \/ \E v \in VA : StoreFault(h, v)
             \/ FaultAlloc(h) \/ FaultCopy(h) \/ FaultMap(h) \/ FaultDrop(h) \/ Stores(h)
      <2>1. CASE \E v \in VA : StoreFault(h, v)
          BY <2>1, Here DEF Kept, StoreFault
      <2>2. CASE Stores(h)
          BY <2>2, Here DEF Kept, Stores, UserStore, Copyout
      <2>3. CASE FaultAlloc(h) \/ FaultCopy(h) \/ FaultMap(h) \/ FaultDrop(h)
          <3>1. pc[h] # "none"
              BY <2>3 DEF FaultAlloc, FaultCopy, FaultMap, FaultDrop
          <3> QED BY <3>1, Here DEF Kept
      <2> QED BY <1>2, <2>1, <2>2, <2>3
  <1>3. CASE \/ \E c \in Procs, t \in Tables : ForkStart(h, c, t)
             \/ ForkMap(h) \/ ForkRef(h) \/ ForkDone(h) \/ UnmapDec(h)
             \/ FreeProc(h) \/ DeallocDone(h) \/ DiscardDone(h)
      <2>1. pc[h] # "none"
          BY <1>3 DEF ForkStart, ForkMap, ForkRef, ForkDone, UnmapDec, Unmapping,
             FreeProc, DeallocDone, DiscardDone, UnmapEnd
      <2> QED BY <2>1, Here DEF Kept
  <1>4. CASE \/ \E n \in Deltas : GrowStart(h, n) \/ ShrinkStart(h, n)
             \/ GrowPage(h) \/ GrowDone(h)
             \/ \E t \in Tables, n \in ImageSizes : ExecStart(h, t, n)
             \/ ExecPage(h) \/ ExecCommit(h) \/ Exit(h)
             \/ \E c \in Procs : ReapStart(h, c)
      <2>1. pc[h] # "none"
          BY <1>4 DEF GrowStart, ShrinkStart, GrowPage, GrowDone, ExecStart, ExecPage,
             ExecCommit, Exit, ReapStart
      <2> QED BY <2>1, Here DEF Kept
  <1> QED BY <1>1, <1>2, <1>3, <1>4 DEF Step

\* The tables of two live processes are apart.
LEMMA RowsApart ==
  ASSUME Typed, Places, NEW h \in Procs, life[h] = "live",
         NEW g \in Procs \ {h}, life[g] = "live"
  PROVE  /\ table[g] \in Tables \ {table[h], tgt[h]}
         /\ tgt[g] \in Tables => tgt[g] \in Tables \ {table[h], tgt[h]}
  <1>1. table[g] \in Tables /\ table[h] \in Tables
      BY DEF Places, Typed
  <1>2. table[g] # table[h] /\ table[g] # tgt[h]
      BY <1>1, CowAssumption DEF Places
  <1>3. tgt[g] \in Tables => tgt[g] # table[h] /\ tgt[g] # tgt[h]
      BY CowAssumption DEF Places
  <1> QED BY <1>1, <1>2, <1>3

LEMMA OthersView ==
  ASSUME Typed, Kept, Typed', Kept', PageFacts, PageFacts', NEW h \in Procs, Step(h),
         NEW g \in Procs \ {h}
  PROVE  \/ Visible(g)' = Visible(g)
         \/ ForkDone(h) /\ life[g] = "embryo" /\ table[g] = tgt[h]
  <1>1. life[h] = "live" /\ MarkKept
      BY StepLive, MemStep DEF MemKept
  <1>2. CASE Undisturbed(g) /\ life[g] = "live"
      <2>1. Top(g)' = Top(g) /\ table'[g] = table[g] /\ life'[g] = "live"
          BY <1>2 DEF Undisturbed, Top
      <2>2. table[g] \in Tables \ {table[h], tgt[h]}
          BY <1>1, <1>2, RowsApart DEF Kept
      <2>3. pt'[table[g]] = pt[table[g]]
          BY <2>2, RowsNext
      <2> QED BY <1>1, <1>2, <2>1, <2>3, SeenKept
  <1>3. CASE life[g] # "live" /\ life'[g] # "live"
      BY <1>3, VisibleIs, VisibleIsNext
  <1> QED BY <1>2, <1>3, OthersNext DEF StaysHidden, Undisturbed

\* A page that a call has filled.
LEMMA FilledKept ==
  ASSUME Typed, Kept, Typed', Kept', MarkKept, NEW g \in Procs,
         pc[g] \in {"grow", "exec"}, pc'[g] = pc[g], tgt'[g] = tgt[g],
         NEW v \in VA, v < idx[g], pt'[tgt[g]][v].pa = pt[tgt[g]][v].pa
  PROVE  mem'[pt'[tgt[g]][v].pa] = mem[pt[tgt[g]][v].pa]
  <1>1. /\ Places /\ Locals /\ Shapes /\ Places' /\ pc[g] # "none" /\ pc[g] \in Loops
        /\ pc[g] \notin Pending /\ pc'[g] \notin Pending /\ pc[g] \in Building
        /\ pc'[g] # "none"
      BY DEF Kept, Loops, OwnPoints, ExecPoints, Pending, Building
  <1>2. life[g] = "live" /\ life'[g] = "live"
      BY <1>1 DEF Places
  <1>3. PICK t \in Tables : t = tgt[g]
      BY <1>1, Here
  <1>4. Valid(t, v)
      BY <1>1, <1>3 DEF Shapes, Shape
  <1>5. Marks[<<t, v>>] = pt[t][v].pa
      BY <1>1, <1>2, <1>3, SeenMark
  <1>6. Marks'[<<t, v>>] = pt'[t][v].pa
      BY <1>1, <1>2, <1>3, SeenMarkNext
  <1> QED BY <1>3, <1>4, <1>5, <1>6, PageKept

\* The page a store fault copies from.
LEMMA SourceKept ==
  ASSUME Typed, Kept, Typed', Kept', MarkKept, NEW g \in Procs,
         pc[g] \in FaultPoints, pc'[g] \in FaultPoints, table'[g] = table[g], idx'[g] = idx[g],
         pt'[table[g]][idx[g]].pa = pt[table[g]][idx[g]].pa
  PROVE  mem'[pt'[table[g]][idx[g]].pa] = mem[pt[table[g]][idx[g]].pa]
  <1>1. /\ Places /\ Locals /\ Shapes /\ Places' /\ pc[g] # "none" /\ pc'[g] # "none"
        /\ pc[g] \notin Pending /\ pc'[g] \notin Pending
      BY DEF Kept, FaultPoints, Pending
  <1>2. life[g] = "live" /\ life'[g] = "live"
      BY <1>1 DEF Places
  <1>3. PICK t \in Tables, v \in VA : t = table[g] /\ v = idx[g]
      BY <1>1, Here
  <1>4. Valid(t, v)
      BY <1>1, <1>3, FaultPage, CowAssumption DEF Valid
  <1>5. Marks[<<t, v>>] = pt[t][v].pa
      BY <1>1, <1>2, <1>3, SeenMark
  <1>6. Marks'[<<t, v>>] = pt'[t][v].pa
      BY <1>1, <1>2, <1>3, SeenMarkNext
  <1> QED BY <1>3, <1>4, <1>5, <1>6, PageKept

LEMMA ContentNone ==
  ASSUME NEW g, pc'[g] \notin {"exec", "grow", "f_map", "fork_ref"}
  PROVE  ContentOf(g)'
  BY DEF ContentOf

\* A process that does not move keeps what it has filled.
LEMMA ContentKept ==
  ASSUME Typed, Kept, Typed', Kept', MarkKept, NEW g \in Procs, Undisturbed(g), ContentOf(g),
         \A t \in {table[g], tgt[g]} : t \in Tables => pt'[t] = pt[t],
         pc[g] = "f_map" => mem'[pg[g]] = mem[pg[g]]
  PROVE  ContentOf(g)'
  <1>1. /\ pc'[g] = pc[g] /\ tgt'[g] = tgt[g] /\ table'[g] = table[g] /\ idx'[g] = idx[g]
        /\ lim'[g] = lim[g] /\ sz'[g] = sz[g] /\ pg'[g] = pg[g]
      BY DEF Undisturbed
  <1>2. pc[g] # "none" => table[g] \in Tables /\ pt'[table[g]] = pt[table[g]]
      BY Here DEF Kept
  <1>3. pc[g] \in Loops => tgt[g] \in Tables /\ pt'[tgt[g]] = pt[tgt[g]]
      <2>1. pc[g] \in Loops => pc[g] # "none"
          BY DEF Loops, ForkPoints, OwnPoints, ExecPoints, ReapPoints
      <2> QED BY <2>1, Here DEF Kept
  <1>4. CASE pc[g] = "exec"
      <2>1. /\ pt'[tgt[g]] = pt[tgt[g]]
            /\ lim[g] > 0 /\ \A v \in VA : v < idx[g] => mem[pt[tgt[g]][v].pa] = Image
          BY <1>3, <1>4 DEF ContentOf, Loops, ExecPoints
      <2>2. ASSUME NEW v \in VA, v < idx[g] PROVE mem'[pt'[tgt[g]][v].pa] = Image
          BY <1>1, <1>4, <2>1, <2>2, FilledKept
      <2> QED BY <1>1, <1>4, <2>1, <2>2 DEF ContentOf
  <1>5. CASE pc[g] = "grow"
      <2>1. /\ pt'[tgt[g]] = pt[tgt[g]] /\ tgt[g] = table[g]
            /\ \A v \in VA : sz[g] <= v /\ v < idx[g] => mem[pt[table[g]][v].pa] = Zero
          BY <1>3, <1>5 DEF ContentOf, Loops, OwnPoints, Kept, Places
      <2>2. ASSUME NEW v \in VA, sz[g] <= v, v < idx[g] PROVE mem'[pt'[table[g]][v].pa] = Zero
          BY <1>1, <1>5, <2>1, <2>2, FilledKept
      <2> QED BY <1>1, <1>5, <2>1, <2>2 DEF ContentOf
  <1>6. CASE pc[g] = "f_map"
      <2>1. mem'[pt'[table[g]][idx[g]].pa] = mem[pt[table[g]][idx[g]].pa]
          BY <1>1, <1>2, <1>6, SourceKept DEF FaultPoints
      <2> QED BY <1>1, <1>6, <2>1 DEF ContentOf
  <1>7. CASE pc[g] = "fork_ref"
      <2>1. pt'[tgt[g]] = pt[tgt[g]] /\ pt'[table[g]] = pt[table[g]]
          BY <1>2, <1>3, <1>7 DEF Loops, ForkPoints
      <2> QED BY <1>1, <1>7, <2>1 DEF ContentOf
  <1> QED BY <1>1, <1>4, <1>5, <1>6, <1>7, ContentNone

LEMMA OthersContent ==
  ASSUME Typed, Kept, Typed', Kept', PageFacts, PageFacts', NEW h \in Procs, Step(h),
         NEW g \in Procs \ {h}, ContentOf(g)
  PROVE  ContentOf(g)'
  <1>1. life[h] = "live" /\ MarkKept /\ CarryKept(h)
      BY StepLive, MemStep DEF MemKept
  <1>2. CASE life'[g] # "live" \/ pc'[g] \in {"none", "user"}
      <2>1. pc'[g] \in {"none", "user"}
          BY <1>2 DEF Kept, Places
      <2> QED BY <2>1, ContentNone
  <1>3. CASE Undisturbed(g) /\ life[g] = "live"
      <2>1. \A t \in {table[g], tgt[g]} : t \in Tables => pt'[t] = pt[t]
          BY <1>1, <1>3, RowsApart, RowsNext DEF Kept
      <2>2. pc[g] = "f_map" => mem'[pg[g]] = mem[pg[g]]
          <3>1. pc[g] = "f_map" => pg[g] \in Pages
              BY Here DEF Kept
          <3> QED BY <1>1, <1>3, <3>1 DEF CarryKept, Undisturbed
      <2> QED BY <1>1, <1>3, <2>1, <2>2, ContentKept
  <1> QED BY <1>2, <1>3, OthersNext DEF StaysHidden, Undisturbed

-----------------------------------------------------------------------------
\* What a step of h does to h.

Own(h) == Visible(h)' = Visible(h) /\ ContentOf(h)'
Steady(h) == life'[h] = life[h] /\ table'[h] = table[h] /\ Top(h)' = Top(h)

LEMMA OwnQuiet ==
  ASSUME Typed, Kept, Typed', Kept', MarkKept, NEW h \in Procs, life[h] = "live", Steady(h),
         pt' = pt, pc'[h] \notin {"exec", "grow", "f_map", "fork_ref"}
  PROVE  Own(h)
  <1>1. Visible(h)' = Visible(h)
      BY SeenKept DEF Steady
  <1> QED BY <1>1, ContentNone DEF Own

LEMMA OwnZombie ==
  ASSUME Typed, NEW h \in Procs, BecomeZombie(h)
  PROVE  Visible(h)' = Dead /\ ContentOf(h)'
  <1>1. life'[h] # "live" /\ pc'[h] = "none"
      BY DEF BecomeZombie, Typed
  <1> QED BY <1>1, VisibleIsNext, ContentNone

LEMMA OwnPanic ==
  ASSUME Typed, Kept, Typed', Kept', MarkKept, NEW h \in Procs, life[h] = "live",
         pc[h] \in {"f_alloc", "grow", "exec"}, Panic(h)
  PROVE  Own(h)
  <1>1. pc'[h] = "panic" /\ pt' = pt /\ UNCHANGED <<life, table, sz, low>>
      BY DEF Panic, Typed, proc, local
  <1>2. Steady(h)
      BY <1>1 DEF Steady, Top
  <1> QED BY <1>1, <1>2, OwnQuiet

LEMMA OwnReturn ==
  ASSUME Typed, NEW h \in Procs, Return(h)
  PROVE  pc'[h] = "user"
  BY DEF Typed, Return

LEMMA OwnStoreFault ==
  ASSUME Typed, Kept, Typed', Kept', MarkKept, NEW h \in Procs, life[h] = "live",
         NEW v \in VA, StoreFault(h, v)
  PROVE  Own(h) \/ BecomeZombie(h)
  <1>1. CASE ~BecomeZombie(h)
      <2>1. /\ pc[h] = "user" /\ pc' = [pc EXCEPT ![h] = "f_alloc"]
            /\ UNCHANGED <<alloc, pt, proc, tgt, lim, low, pg>>
          BY <1>1 DEF StoreFault
      <2>2. pc'[h] = "f_alloc" /\ pt' = pt /\ UNCHANGED <<life, table, sz>>
          BY <2>1 DEF Typed, proc
      <2>3. Steady(h)
          BY <2>1, <2>2 DEF Steady, Top
      <2> QED BY <2>2, <2>3, OwnQuiet
  <1> QED BY <1>1

LEMMA OwnFaultAlloc ==
  ASSUME Typed, Kept, Typed', Kept', MarkKept, NEW h \in Procs, life[h] = "live", FaultAlloc(h)
  PROVE  Own(h) \/ BecomeZombie(h)
  <1>1. pc[h] = "f_alloc"
      BY DEF FaultAlloc
  <1>2. ASSUME NEW q \in free, Kalloc(q, Junk), pg' = [pg EXCEPT ![h] = q],
               pc' = [pc EXCEPT ![h] = "f_copy"], UNCHANGED <<pt, proc, tgt, idx, lim, low>>
        PROVE  Own(h)
      <2>1. pc'[h] = "f_copy" /\ pt' = pt /\ UNCHANGED <<life, table, sz>>
          BY <1>2 DEF Typed, proc
      <2>2. Steady(h)
          BY <1>1, <2>1 DEF Steady, Top
      <2> QED BY <2>1, <2>2, OwnQuiet
  <1> QED BY <1>1, <1>2, OwnPanic DEF FaultAlloc

LEMMA OwnFaultCopy ==
  ASSUME Typed, Kept, Typed', Kept', PageFacts, MarkKept, NEW h \in Procs, life[h] = "live",
         FaultCopy(h)
  PROVE  Own(h)
  <1>1. /\ pc[h] = "f_copy" /\ pc'[h] = "f_map" /\ pt' = pt
        /\ mem' = [mem EXCEPT ![pg[h]] = mem[pt[table[h]][idx[h]].pa]]
        /\ UNCHANGED <<life, table, sz, low, idx, pg>>
      BY DEF FaultCopy, Typed, proc, local
  <1>2. Steady(h)
      BY <1>1 DEF Steady, Top
  <1>3. Visible(h)' = Visible(h)
      BY <1>1, <1>2, SeenKept DEF Steady
  <1>4. mem'[pt'[table[h]][idx[h]].pa] = mem[pt[table[h]][idx[h]].pa]
      BY <1>1, SourceKept DEF FaultPoints
  <1>5. pg[h] \in Pages
      BY <1>1, Here DEF Kept
  <1>6. mem'[pg[h]] = mem[pt[table[h]][idx[h]].pa]
      BY <1>1, <1>5 DEF Typed
  <1>7. ContentOf(h)'
      BY <1>1, <1>4, <1>6 DEF ContentOf
  <1> QED BY <1>3, <1>7 DEF Own

LEMMA OwnFaultMap ==
  ASSUME Typed, Kept, Typed', Kept', NEW h \in Procs, ContentOf(h), life[h] = "live", FaultMap(h)
  PROVE  Own(h)
  <1>1. /\ pc[h] = "f_map" /\ pc'[h] = "f_drop" /\ mem' = mem /\ pc[h] \in FaultPoints
        /\ UNCHANGED <<life, table, sz, low, idx>>
      BY DEF FaultMap, Typed, proc, alloc, FaultPoints
  <1>2. Top(h)' = Top(h) /\ life'[h] = "live" /\ table'[h] = table[h]
      BY <1>1 DEF Top
  <1>3. PICK t \in Tables, u \in VA : t = table[h] /\ u = idx[h]
      BY <1>1, Here DEF Kept
  <1>4. PICK w \in PTE : w.pa = pg[h] /\ w.pa \in Pages /\ SetAt(t, u, w)
      BY <1>3, FaultMapIs DEF Kept
  <1>5. mem[pg[h]] = mem[pt[t][u].pa] /\ pt[t][u].pa \in Pages
      BY <1>1, <1>3, FaultPage DEF ContentOf, Kept
  <1>6. ASSUME NEW v \in 0 .. Top(h) - 1 PROVE At(t, v)' = At(t, v)
      <2>1. v \in VA
          BY TopType
      <2>2. CASE v = u
          <3>1. pt'[t][v] = w
              BY <2>2, <1>4 DEF SetAt
          <3>2. At(t, v)' = mem'[pg[h]] /\ At(t, v) = mem[pt[t][u].pa]
              BY <1>4, <1>5, <2>2, <3>1, CowAssumption DEF At, Valid
          <3> QED BY <1>1, <1>5, <3>2
      <2>3. CASE v # u
          <3>1. pt'[t][v] = pt[t][v]
              BY <2>1, <2>3, <1>4 DEF SetAt
          <3> QED BY <1>1, <3>1 DEF At, Valid
      <2> QED BY <2>2, <2>3
  <1>7. Visible(h)' = Visible(h)
      BY <1>2, <1>3, <1>6, ViewSame
  <1> QED BY <1>1, <1>7, ContentNone DEF Own

LEMMA OwnFaultDrop ==
  ASSUME Typed, Kept, Typed', Kept', MarkKept, NEW h \in Procs, life[h] = "live", FaultDrop(h)
  PROVE  Own(h)
  <1>1. pc[h] = "f_drop" /\ pc'[h] = "user" /\ pt' = pt /\ UNCHANGED <<life, table, sz>>
      BY OwnReturn DEF FaultDrop, proc
  <1>2. Steady(h)
      BY <1>1 DEF Steady, Top
  <1> QED BY <1>1, <1>2, OwnQuiet

\* fork().
LEMMA OwnForkMap ==
  ASSUME Typed, Kept, Typed', Kept', MarkKept, NEW h \in Procs, life[h] = "live", ForkMap(h)
  PROVE  Own(h)
  <1>1. /\ ForkWrites(h) /\ pc[h] = "fork_map" /\ table[h] \in Tables /\ tgt[h] \in Tables
        /\ idx[h] \in VA /\ UNCHANGED <<life, table, sz, tgt>>
      BY ForkMapIs DEF Kept, proc
  <1>2. PICK s \in Tables, t \in Tables, u \in VA : s = table[h] /\ t = tgt[h] /\ u = idx[h]
      BY <1>1
  <1>3. PICK w \in PTE :
          /\ w.pa = pt[s][u].pa /\ w.COW
          /\ \/ /\ \A r \in Tables, v \in VA :
                     pt'[r][v] = IF r \in {s, t} /\ v = u THEN w ELSE pt[r][v]
                /\ pc' = [pc EXCEPT ![h] = "fork_ref"] /\ idx' = idx
             \/ /\ SetAt(s, u, w)
                /\ pc' = [pc EXCEPT ![h] = "undo"]
      BY <1>1, <1>2 DEF ForkWrites
  <1>4. \A v \in VA : pt'[s][v].pa = pt[s][v].pa
      BY <1>3 DEF SetAt
  <1>5. pc'[h] \in {"fork_ref", "undo"}
      BY <1>3 DEF Typed
  <1>6. Top(h)' = Top(h)
      BY <1>1, <1>5 DEF Top
  <1>7. Visible(h)' = Visible(h)
      BY <1>1, <1>2, <1>4, <1>6, SeenKept
  <1>8. ContentOf(h)'
      <2>1. CASE pc'[h] = "fork_ref"
          <3>1. /\ \A r \in Tables, v \in VA :
                     pt'[r][v] = IF r \in {s, t} /\ v = u THEN w ELSE pt[r][v]
                /\ idx' = idx
              BY <1>3, <2>1 DEF Typed
          <3>2. pt'[s][u].COW /\ pt'[t][u].COW /\ table'[h] = s /\ tgt'[h] = t /\ idx'[h] = u
              BY <1>1, <1>2, <1>3, <3>1
          <3> QED BY <2>1, <3>2 DEF ContentOf
      <2> QED BY <1>5, <2>1, ContentNone
  <1> QED BY <1>7, <1>8 DEF Own

LEMMA OwnFork ==
  ASSUME Typed, Kept, Typed', Kept', MarkKept, NEW h \in Procs, life[h] = "live",
         \/ \E c \in Procs, t \in Tables : ForkStart(h, c, t)
         \/ ForkRef(h) \/ ForkDone(h)
  PROVE  Own(h)
  <1>1. CASE \E c \in Procs, t \in Tables : ForkStart(h, c, t)
      <2>1. /\ pc[h] = "user" /\ pc'[h] = "fork_map" /\ pt' = pt /\ sz' = sz
            /\ life'[h] = life[h] /\ table'[h] = table[h]
          BY <1>1 DEF ForkStart, Typed
      <2>2. Steady(h)
          BY <2>1 DEF Steady, Top
      <2> QED BY <2>1, <2>2, OwnQuiet
  <1>2. CASE ForkRef(h)
      <2>1. /\ pc[h] = "fork_ref" /\ pc'[h] = "fork_map" /\ pt' = pt
            /\ UNCHANGED <<life, table, sz>>
          BY <1>2 DEF ForkRef, Typed, proc
      <2>2. Steady(h)
          BY <2>1 DEF Steady, Top
      <2> QED BY <2>1, <2>2, OwnQuiet
  <1>3. CASE ForkDone(h)
      <2>1. PICK c \in Procs : /\ life[c] = "embryo" /\ sz' = [sz EXCEPT ![c] = sz[h]]
                               /\ life' = [life EXCEPT ![c] = "live"]
                               /\ pc' = [pc EXCEPT ![h] = "user", ![c] = "user"]
          BY <1>3 DEF ForkDone
      <2>2. /\ pc[h] = "fork_map" /\ pc'[h] = "user" /\ pt' = pt /\ sz'[h] = sz[h]
            /\ life'[h] = life[h] /\ table'[h] = table[h]
          BY <1>3, <2>1 DEF ForkDone, Typed
      <2>3. Steady(h)
          BY <2>2 DEF Steady, Top
      <2> QED BY <2>2, <2>3, OwnQuiet
  <1> QED BY <1>1, <1>2, <1>3

\* uvmunmap() and its callers.
LEMMA OwnUnmapDec ==
  ASSUME Typed, Kept, Typed', Kept', MarkKept, NEW h \in Procs, life[h] = "live", UnmapDec(h)
  PROVE  Own(h)
  <1>1. /\ pc[h] \in Unmapping /\ pc'[h] = Clearing[pc[h]] /\ pt' = pt
        /\ UNCHANGED <<life, table, sz, low>>
      BY DEF UnmapDec, Typed, proc, local
  <1>2. /\ pc[h] = "dealloc" <=> pc'[h] = "dealloc_clr"
        /\ pc[h] # "dealloc_clr"
        /\ pc'[h] \notin {"exec", "grow", "f_map", "fork_ref", "dealloc"}
      BY <1>1, ClearingIs DEF Unmapping
  <1>3. Steady(h)
      BY <1>1, <1>2 DEF Steady, Top
  <1> QED BY <1>1, <1>2, <1>3, OwnQuiet

LEMMA OwnUnmapClear ==
  ASSUME Typed, Kept, Typed', Kept', MarkKept, NEW h \in Procs, life[h] = "live", UnmapClear(h)
  PROVE  Own(h)
  <1>1. /\ pc[h] \in Pending /\ pc[h] \in Loops /\ SetAt(tgt[h], idx[h], NoPTE)
        /\ RowsBut(tgt[h]) /\ UNCHANGED <<life, table, sz, low>>
      BY UnmapClearIs DEF Kept, proc
  <1>2. PICK k \in Unmapping : pc[h] = Clearing[k] /\ pc' = [pc EXCEPT ![h] = k]
      BY UnmapClearIs DEF Kept
  <1>3. /\ pc'[h] = k /\ (pc[h] = "dealloc_clr" <=> k = "dealloc")
        /\ pc[h] # "dealloc" /\ k # "dealloc_clr"
        /\ k \notin {"exec", "grow", "f_map", "fork_ref"}
      BY <1>2, ClearingIs DEF Unmapping, Typed
  <1>4. Top(h)' = Top(h)
      BY <1>1, <1>3 DEF Top
  <1>5. ASSUME NEW v \in VA, v < Top(h)
        PROVE  pt'[table[h]][v].pa = pt[table[h]][v].pa
      <2>1. table[h] \in Tables
          BY Here DEF Kept, Places
      <2>2. ~(table[h] = tgt[h] /\ v = idx[h])
          BY <1>1, <1>5, SeenIndex DEF Kept
      <2> QED BY <1>1, <2>1, <2>2 DEF SetAt
  <1>6. Visible(h)' = Visible(h)
      BY <1>1, <1>4, <1>5, SeenKept
  <1> QED BY <1>3, <1>6, ContentNone DEF Own

LEMMA OwnEnds ==
  ASSUME Typed, Kept, Typed', Kept', MarkKept, NEW h \in Procs, life[h] = "live",
         FreeProc(h) \/ DeallocDone(h) \/ DiscardDone(h)
  PROVE  Own(h)
  <1>1. pc'[h] = "user" /\ pt' = pt
      BY OwnReturn DEF FreeProc, DeallocDone, DiscardDone
  <1>2. CASE FreeProc(h)
      <2>1. /\ pc[h] \in {"undo", "reap"} /\ sz'[h] = sz[h]
            /\ life'[h] = life[h] /\ table'[h] = table[h]
          BY <1>2 DEF FreeProc, Typed
      <2>2. Steady(h)
          BY <1>1, <2>1 DEF Steady, Top
      <2> QED BY <1>1, <2>2, OwnQuiet
  <1>3. CASE DeallocDone(h)
      <2>1. pc[h] = "dealloc" /\ sz'[h] = low[h] /\ UNCHANGED <<life, table>>
          BY <1>3 DEF DeallocDone, Typed
      <2>2. Steady(h)
          BY <1>1, <2>1 DEF Steady, Top
      <2> QED BY <1>1, <2>2, OwnQuiet
  <1>4. CASE DiscardDone(h)
      <2>1. pc[h] = "discard" /\ UNCHANGED <<life, table, sz>>
          BY <1>4 DEF DiscardDone, proc
      <2>2. Steady(h)
          BY <1>1, <2>1 DEF Steady, Top
      <2> QED BY <1>1, <2>2, OwnQuiet
  <1> QED BY <1>2, <1>3, <1>4

\* The starts that change nothing yet.
LEMMA OwnStarts ==
  ASSUME Typed, Kept, Typed', Kept', MarkKept, NEW h \in Procs, life[h] = "live",
         \/ \E n \in Deltas : GrowStart(h, n)
         \/ \E t \in Tables, n \in ImageSizes : ExecStart(h, t, n)
         \/ \E c \in Procs : ReapStart(h, c)
  PROVE  Own(h)
  <1>1. /\ pc[h] = "user" /\ pc'[h] \in {"grow", "exec", "reap"} /\ pt' = pt
        /\ UNCHANGED <<life, table, sz>>
      BY DEF GrowStart, ExecStart, ReapStart, Typed, proc
  <1>2. Top(h)' = Top(h)
      BY <1>1 DEF Top
  <1>3. Visible(h)' = Visible(h)
      BY <1>1, <1>2, SeenKept
  <1>4. CASE \E n \in Deltas : GrowStart(h, n)
      <2>1. pc'[h] = "grow" /\ idx'[h] = sz[h] /\ sz[h] \in Nat
          BY <1>4 DEF GrowStart, Typed
      <2>2. \A v \in VA : ~(sz'[h] <= v /\ v < idx'[h])
          BY <1>1, <2>1, CowAssumption DEF VA
      <2>3. ContentOf(h)'
          BY <2>1, <2>2 DEF ContentOf
      <2> QED BY <1>3, <2>3 DEF Own
  <1>5. CASE \E t \in Tables, n \in ImageSizes : ExecStart(h, t, n)
      <2>1. PICK n \in ImageSizes : lim' = [lim EXCEPT ![h] = n]
          BY <1>5 DEF ExecStart
      <2>2. pc'[h] = "exec" /\ idx'[h] = 0
          BY <1>5 DEF ExecStart, Typed
      <2>3. lim'[h] > 0
          BY <2>1, CowAssumption DEF Typed
      <2>4. \A v \in VA : ~(v < idx'[h])
          BY <2>2, CowAssumption DEF VA
      <2>5. ContentOf(h)'
          BY <2>2, <2>3, <2>4 DEF ContentOf
      <2> QED BY <1>3, <2>5 DEF Own
  <1>6. CASE \E c \in Procs : ReapStart(h, c)
      <2>1. pc'[h] = "reap"
          BY <1>6 DEF ReapStart, Typed
      <2> QED BY <1>3, <2>1, ContentNone DEF Own
  <1> QED BY <1>4, <1>5, <1>6

\* uvmalloc() for sbrk() and exec().
LEMMA OwnNewPage ==
  ASSUME Typed, Kept, Typed', Kept', MarkKept, NEW h \in Procs, life[h] = "live", ContentOf(h),
         NEW q \in free, NewPage(h, q)
  PROVE  Own(h)
  <1>1. /\ pc[h] \in {"grow", "exec"} /\ idx[h] < lim[h] /\ q \in Pages
        /\ tgt[h] \in Tables /\ idx[h] \in VA
        /\ mem' = [mem EXCEPT ![q] = IF pc[h] = "grow" THEN Zero ELSE Image]
        /\ UNCHANGED <<table, sz, life, pc, tgt, lim, low, pg>>
      BY DEF NewPage
  <1>2. PICK t \in Tables, u \in VA : t = tgt[h] /\ u = idx[h]
      BY <1>1
  <1>3. PICK w \in PTE : w.pa = q /\ SetAt(t, u, w)
      BY <1>2 DEF NewPage
  <1>4. /\ Places /\ Locals /\ pc[h] # "none" /\ pc[h] \in Loops /\ u \in Nat /\ sz[h] \in Nat
        /\ idx'[h] = u + 1 /\ table[h] \in Tables
      <2>1. pc[h] # "none" /\ pc[h] \in Loops
          BY <1>1 DEF Loops, OwnPoints, ExecPoints
      <2>2. idx'[h] = u + 1 /\ u \in Nat /\ sz[h] \in Nat
          BY <1>2, CowAssumption DEF NewPage, Typed, VA
      <2> QED BY <2>1, <2>2, Here DEF Kept
  <1>5. Top(h)' = Top(h) /\ Top(h) = sz[h]
      BY <1>1 DEF Top
  <1>6. ASSUME NEW v \in VA, v < Top(h) PROVE pt'[table[h]][v].pa = pt[table[h]][v].pa
      <2>1. ~(table[h] = t /\ v = u)
          <3>1. CASE pc[h] = "grow"
              <4>1. low[h] = sz[h] /\ low[h] <= u
                  BY <1>2, <1>4, <3>1 DEF Locals
              <4> QED BY <1>4, <1>5, <1>6, <4>1
          <3>2. CASE pc[h] = "exec"
              BY <1>1, <1>2, <1>4, <3>2, CowAssumption DEF Places, OwnPoints, ForkPoints, ReapPoints
          <3> QED BY <1>1, <3>1, <3>2
      <2> QED BY <1>3, <1>4, <2>1 DEF SetAt
  <1>7. Visible(h)' = Visible(h)
      BY <1>1, <1>5, <1>6, SeenKept
  <1>8. mem'[pt'[t][u].pa] = IF pc[h] = "grow" THEN Zero ELSE Image
      BY <1>1, <1>3 DEF SetAt, Typed
  <1>9. ASSUME NEW v \in VA, v < u PROVE mem'[pt'[t][v].pa] = mem[pt[t][v].pa]
      <2>1. pt'[t][v].pa = pt[t][v].pa
          BY <1>3, <1>4, <1>9, CowAssumption DEF SetAt, VA
      <2> QED BY <1>1, <1>2, <1>9, <2>1, FilledKept
  <1>10. ASSUME NEW v \in VA, v < u + 1 PROVE v < u \/ v = u
      BY <1>4, <1>10, CowAssumption DEF VA
  <1>11. CASE pc[h] = "grow"
      <2>1. t = table[h]
          BY <1>2, <1>11 DEF Kept, Places, OwnPoints
      <2>2. \A v \in VA : sz[h] <= v /\ v < u => mem[pt[t][v].pa] = Zero
          BY <1>2, <1>11, <2>1 DEF ContentOf
      <2>3. \A v \in VA : sz[h] <= v /\ v < u + 1 => mem'[pt'[t][v].pa] = Zero
          BY <1>8, <1>9, <1>10, <1>11, <2>2
      <2>4. ContentOf(h)'
          BY <1>1, <1>4, <1>11, <2>1, <2>3 DEF ContentOf
      <2> QED BY <1>7, <2>4 DEF Own
  <1>12. CASE pc[h] = "exec"
      <2>1. lim[h] > 0 /\ \A v \in VA : v < u => mem[pt[t][v].pa] = Image
          BY <1>2, <1>12 DEF ContentOf
      <2>2. \A v \in VA : v < u + 1 => mem'[pt'[t][v].pa] = Image
          BY <1>8, <1>9, <1>10, <1>12, <2>1
      <2>3. ContentOf(h)'
          BY <1>1, <1>2, <1>4, <1>12, <2>1, <2>2 DEF ContentOf
      <2> QED BY <1>7, <2>3 DEF Own
  <1> QED BY <1>1, <1>11, <1>12

LEMMA OwnBuild ==
  ASSUME Typed, Kept, Typed', Kept', MarkKept, NEW h \in Procs, life[h] = "live", ContentOf(h),
         GrowPage(h) \/ ExecPage(h)
  PROVE  Own(h)
  <1>1. CASE pc[h] = "grow" /\ UvmallocFails(h, "dealloc")
      <2>1. pc'[h] = "dealloc" /\ pt' = pt /\ UNCHANGED <<life, table, sz, low>>
          BY <1>1 DEF UvmallocFails, Typed, proc
      <2>2. low[h] = sz[h]
          BY <1>1 DEF Kept, Locals
      <2>3. Steady(h)
          BY <1>1, <2>1, <2>2 DEF Steady, Top
      <2> QED BY <2>1, <2>3, OwnQuiet
  <1>2. CASE pc[h] = "exec" /\ UvmallocFails(h, "discard")
      <2>1. pc'[h] = "discard" /\ pt' = pt /\ UNCHANGED <<life, table, sz>>
          BY <1>2 DEF UvmallocFails, Typed, proc
      <2>2. Steady(h)
          BY <1>2, <2>1 DEF Steady, Top
      <2> QED BY <2>1, <2>2, OwnQuiet
  <1> QED BY <1>1, <1>2, NewPageIs, OwnNewPage, OwnPanic DEF Kept

\* sbrk() takes effect: when it starts to remove pages, or when all it adds are
\* there.
Resized(h) ==
  \E n \in 0 .. NV :
    Visible(h)' = [v \in 0 .. n - 1 |-> IF v \in DOMAIN Visible(h) THEN Visible(h)[v] ELSE Zero]

LEMMA OwnShrink ==
  ASSUME Typed, Kept, NEW h \in Procs, life[h] = "live", NEW n \in Deltas, ShrinkStart(h, n)
  PROVE  Resized(h) /\ ContentOf(h)'
  <1>1. /\ pc[h] = "user" /\ pc'[h] = "dealloc" /\ UNCHANGED <<life, table, pt, mem>>
        /\ low'[h] = sz[h] - n /\ n <= sz[h]
      BY DEF ShrinkStart, Typed, alloc, proc
  <1>2. PICK m \in 0 .. NV : m = sz[h] - n /\ m <= sz[h]
      <2>1. sz[h] \in 0 .. NV /\ n \in 1 .. NV /\ NV \in Nat
          BY CowAssumption DEF Typed
      <2> QED BY <1>1, <2>1
  <1>3. PICK t : t = table[h]
      OBVIOUS
  <1>4. Visible(h)' = [v \in 0 .. m - 1 |-> At(t, v)']
      <2>1. Top(h)' = m
          BY <1>1, <1>2 DEF Top
      <2> QED BY <1>1, <1>3, <2>1, VisibleIsNext
  <1>5. Visible(h) = [v \in 0 .. sz[h] - 1 |-> At(t, v)]
      BY <1>1, <1>3, VisibleIs DEF Top
  <1>6. \A v : At(t, v)' = At(t, v)
      BY <1>1 DEF At, Valid
  <1>7. ASSUME NEW v \in 0 .. m - 1 PROVE v \in DOMAIN Visible(h) /\ Visible(h)[v] = At(t, v)'
      <2>1. v \in 0 .. sz[h] - 1
          BY <1>2, CowAssumption DEF Typed
      <2> QED BY <1>5, <1>6, <2>1
  <1>8. Visible(h)' = [v \in 0 .. m - 1 |->
                         IF v \in DOMAIN Visible(h) THEN Visible(h)[v] ELSE Zero]
      BY <1>4, <1>7
  <1> QED BY <1>1, <1>8, ContentNone DEF Resized

LEMMA OwnGrowDone ==
  ASSUME Typed, Kept, NEW h \in Procs, life[h] = "live", ContentOf(h), GrowDone(h)
  PROVE  Resized(h) /\ ContentOf(h)'
  <1>1. /\ pc[h] = "grow" /\ pc'[h] = "user" /\ idx[h] = lim[h] /\ sz'[h] = lim[h]
        /\ UNCHANGED <<life, table, pt, mem>>
      BY OwnReturn DEF GrowDone, Typed, alloc
  <1>2. PICK m \in 0 .. NV : m = lim[h]
      BY DEF Typed
  <1>3. PICK t : t = table[h]
      OBVIOUS
  <1>4. Visible(h)' = [v \in 0 .. m - 1 |-> At(t, v)']
      <2>1. Top(h)' = m
          BY <1>1, <1>2 DEF Top
      <2> QED BY <1>1, <1>3, <2>1, VisibleIsNext
  <1>5. Visible(h) = [v \in 0 .. sz[h] - 1 |-> At(t, v)]
      BY <1>1, <1>3, VisibleIs DEF Top
  <1>6. \A v : At(t, v)' = At(t, v)
      BY <1>1 DEF At, Valid
  <1>7. ASSUME NEW v \in 0 .. m - 1
        PROVE  At(t, v)' = IF v \in DOMAIN Visible(h) THEN Visible(h)[v] ELSE Zero
      <2>1. CASE v \in 0 .. sz[h] - 1
          BY <1>5, <1>6, <2>1
      <2>2. CASE v \notin 0 .. sz[h] - 1
          <3>1. sz[h] \in Nat /\ NV \in Nat
              BY CowAssumption DEF Typed
          <3>2. v \in VA /\ sz[h] <= v /\ v < idx[h] /\ v \notin DOMAIN Visible(h)
              BY <1>1, <1>2, <1>5, <2>2, <3>1 DEF VA
          <3>3. mem[pt[t][v].pa] = Zero
              BY <1>1, <1>3, <3>2 DEF ContentOf
          <3>4. Valid(t, v)
              BY <1>1, <1>3, <3>2 DEF Kept, Shapes, Shape, Places, Loops, OwnPoints, Building
          <3> QED BY <1>6, <3>2, <3>3, <3>4 DEF At
      <2> QED BY <2>1, <2>2
  <1>8. Visible(h)' = [v \in 0 .. m - 1 |->
                         IF v \in DOMAIN Visible(h) THEN Visible(h)[v] ELSE Zero]
      BY <1>4, <1>7
  <1> QED BY <1>1, <1>8, ContentNone DEF Resized

\* exec() commits to the new page table.
LEMMA OwnExecCommit ==
  ASSUME Typed, Kept, NEW h \in Procs, life[h] = "live", ContentOf(h), ExecCommit(h)
  PROVE  /\ \E n \in 1 .. NV : Visible(h)' = [v \in 0 .. n - 1 |-> Image]
         /\ ContentOf(h)'
  <1>1. /\ pc[h] = "exec" /\ pc'[h] = "discard" /\ idx[h] = lim[h] /\ sz'[h] = lim[h]
        /\ table'[h] = tgt[h] /\ UNCHANGED <<life, pt, mem>> /\ lim[h] > 0
      BY DEF ExecCommit, Typed, alloc, ContentOf
  <1>2. PICK n \in 1 .. NV : n = lim[h]
      BY <1>1, CowAssumption DEF Typed
  <1>3. PICK t : t = tgt[h]
      OBVIOUS
  <1>4. Visible(h)' = [v \in 0 .. n - 1 |-> At(t, v)']
      <2>1. Top(h)' = n
          BY <1>1, <1>2 DEF Top
      <2> QED BY <1>1, <1>3, <2>1, VisibleIsNext
  <1>5. ASSUME NEW v \in 0 .. n - 1 PROVE At(t, v)' = Image
      <2>1. v \in VA /\ v < idx[h]
          BY <1>1, <1>2, CowAssumption DEF VA
      <2>2. mem[pt[t][v].pa] = Image
          BY <1>1, <1>3, <2>1 DEF ContentOf
      <2>3. Valid(t, v)
          BY <1>1, <1>3, <2>1 DEF Kept, Shapes, Shape, Loops, ExecPoints, Building
      <2> QED BY <1>1, <2>2, <2>3 DEF At, Valid
  <1>6. Visible(h)' = [v \in 0 .. n - 1 |-> Image]
      BY <1>4, <1>5
  <1> QED BY <1>1, <1>6, ContentNone

\* The child of fork() starts with what its parent sees at that instant.
LEMMA ChildView ==
  ASSUME Typed, Kept, NEW h \in Procs, life[h] = "live", ForkDone(h)
  PROVE  \E c \in Procs : /\ life[c] = "embryo" /\ table[c] = tgt[h] /\ c # h
                          /\ Visible(c)' = Visible(h)
  <1>1. PICK c \in Procs : /\ life[c] = "embryo" /\ table[c] = tgt[h]
                           /\ sz' = [sz EXCEPT ![c] = sz[h]]
                           /\ life' = [life EXCEPT ![c] = "live"]
                           /\ pc' = [pc EXCEPT ![h] = "user", ![c] = "user"]
      BY DEF ForkDone
  <1>2. /\ pc[h] = "fork_map" /\ idx[h] = lim[h] /\ UNCHANGED <<mem, pt, table>> /\ c # h
        /\ sz'[c] = sz[h] /\ life'[c] = "live" /\ pc'[c] = "user"
      BY <1>1 DEF ForkDone, alloc, Typed
  <1>3. PICK s, t : s = table[h] /\ t = tgt[h]
      OBVIOUS
  <1>4. Visible(h) = [v \in 0 .. sz[h] - 1 |-> At(s, v)]
      BY <1>2, <1>3, VisibleIs DEF Top
  <1>5. Visible(c)' = [v \in 0 .. sz[h] - 1 |-> At(t, v)']
      <2>1. Top(c)' = sz[h]
          BY <1>2 DEF Top
      <2> QED BY <1>1, <1>2, <1>3, <2>1, VisibleIsNext
  <1>6. ASSUME NEW v \in 0 .. sz[h] - 1 PROVE At(t, v)' = At(s, v)
      <2>1. lim[h] = sz[h]
          BY <1>2 DEF Kept, Locals
      <2>2. v \in VA /\ v < idx[h]
          BY <1>2, <2>1, CowAssumption DEF VA, Typed
      <2>3. pt[t][v].pa = pt[s][v].pa
          BY <1>2, <1>3, <2>2 DEF Kept, Copies
      <2> QED BY <1>2, <2>3 DEF At, Valid
  <1>7. Visible(c)' = Visible(h)
      BY <1>4, <1>5, <1>6
  <1> QED BY <1>1, <1>2, <1>7

-----------------------------------------------------------------------------
\* A store of h into its memory reaches a page that only this PTE maps.

Wrote(h) == \E v \in DOMAIN Visible(h), x \in Vals :
              Visible(h)' = [Visible(h) EXCEPT ![v] = x]
StoresAt(h, v, x, p) ==
  /\ pc[h] = "user" /\ Valid(table[h], v) /\ p = pt[table[h]][v].pa
  /\ mem' = [mem EXCEPT ![p] = x]
  /\ UNCHANGED <<free, refs, pt, table, sz, life, pc, tgt, idx, lim, low, pg>>
  /\ \A e \in Entries : Marks[e] = p => e = <<table[h], v>>

LEMMA StoreIs ==
  ASSUME Typed, Kept, PageFacts, Solo, ~CopyoutToShared, NEW h \in Procs, Stores(h)
  PROVE  \E v \in VA, x \in Vals, p \in Pages : StoresAt(h, v, x, p)
  <1>1. PICK v \in VA, x \in Vals : UserStore(h, v, x) \/ Copyout(h, v, x)
      BY DEF Stores
  <1>2. /\ pc[h] = "user" /\ Valid(table[h], v) /\ mem' = [mem EXCEPT ![pt[table[h]][v].pa] = x]
        /\ pt[table[h]][v].W \/ ~pt[table[h]][v].COW
        /\ UNCHANGED <<free, refs, pt, table, sz, life, pc, tgt, idx, lim, low, pg>>
      BY <1>1 DEF UserStore, Copyout, proc, local
  <1>3. life[h] = "live" /\ table[h] \in Tables /\ pc[h] \notin Pending
      BY <1>2, StepLive DEF Pending
  <1>4. PICK p \in Pages : p = pt[table[h]][v].pa
      BY <1>2, <1>3 DEF Typed, Valid, PTE
  <1>5. PICK d \in Entries : d = <<table[h], v>> /\ d[1] = table[h] /\ d[2] = v
      BY <1>3, Entry
  <1>6. Marks[d] = p /\ p # NoPage
      BY <1>3, <1>4, <1>5, SeenMark, CowAssumption DEF Kept
  <1>7. Writes[d] \/ Plains[d]
      BY <1>2, <1>5 DEF Writes, Plains
  <1>8. \A e \in Entries : Marks[e] = p => e = d
      BY <1>6, <1>7 DEF Solo, PageFacts, SoleIs
  <1> QED BY <1>2, <1>4, <1>5, <1>8 DEF StoresAt

\* The pages of other entries keep their contents.
LEMMA StoreElsewhere ==
  ASSUME Typed, NEW h \in Procs, NEW v \in VA, NEW x \in Vals, NEW p \in Pages,
         StoresAt(h, v, x, p), NEW t \in Tables, NEW u \in VA,
         Marks[<<t, u>>] = pt[t][u].pa, t # table[h] \/ u # v
  PROVE  At(t, u)' = At(t, u) /\ (Valid(t, u) => mem'[pt'[t][u].pa] = mem[pt[t][u].pa])
  <1>1. PICK e \in Entries : e = <<t, u>> /\ e[1] = t /\ e[2] = u
      BY Entry
  <1>2. e # <<table[h], v>>
      BY <1>1
  <1>3. pt[t][u].pa # p /\ pt' = pt /\ mem' = [mem EXCEPT ![p] = x]
      BY <1>1, <1>2 DEF StoresAt
  <1>4. Valid(t, u) => pt[t][u].pa \in Pages
      BY DEF Typed, Valid, PTE
  <1> QED BY <1>3, <1>4 DEF At, Valid, Typed

LEMMA StoreOwn ==
  ASSUME Typed, Kept, NEW h \in Procs, NEW v \in VA, NEW x \in Vals, NEW p \in Pages,
         StoresAt(h, v, x, p)
  PROVE  Wrote(h) /\ ContentOf(h)'
  <1>1. /\ pc[h] = "user" /\ Valid(table[h], v) /\ UNCHANGED <<pt, table, sz, life, pc>>
        /\ mem' = [mem EXCEPT ![p] = x] /\ p = pt[table[h]][v].pa
      BY DEF StoresAt
  <1>2. life[h] = "live" /\ pc[h] \notin Pending /\ pc[h] \notin OwnPoints \cup {"panic"}
      BY <1>1 DEF Kept, Places, Pending, OwnPoints
  <1>3. PICK t \in Tables : t = table[h]
      BY <1>1, Here DEF Kept
  <1>4. v < sz[h]
      BY <1>1, <1>2 DEF Kept, Shapes, Exact
  <1>5. Top(h) = sz[h] /\ Top(h)' = sz[h]
      BY <1>1 DEF Top
  <1>6. /\ Visible(h) = [u \in 0 .. sz[h] - 1 |-> At(t, u)]
        /\ Visible(h)' = [u \in 0 .. sz[h] - 1 |-> At(t, u)']
      BY <1>1, <1>2, <1>3, <1>5, VisibleIs, VisibleIsNext
  <1>7. v \in 0 .. sz[h] - 1
      BY <1>4, CowAssumption DEF VA, Typed
  <1>8. ASSUME NEW u \in 0 .. sz[h] - 1 PROVE At(t, u)' = IF u = v THEN x ELSE At(t, u)
      <2>1. u \in VA
          BY <1>5, TopType
      <2>2. CASE u = v
          BY <1>1, <1>3, <2>2 DEF At, Valid, Typed
      <2>3. CASE u # v
          <3>1. Marks[<<t, u>>] = pt[t][u].pa
              BY <1>2, <1>3, <2>1, SeenMark DEF Kept
          <3> QED BY <2>1, <2>3, <3>1, StoreElsewhere
      <2> QED BY <2>2, <2>3
  <1>9. Visible(h)' = [Visible(h) EXCEPT ![v] = x]
      BY <1>6, <1>7, <1>8
  <1> QED BY <1>1, <1>6, <1>7, <1>9, ContentNone DEF Wrote

LEMMA StoreOthersView ==
  ASSUME Typed, Kept, NEW h \in Procs, NEW v \in VA, NEW x \in Vals, NEW p \in Pages,
         StoresAt(h, v, x, p), NEW g \in Procs \ {h}
  PROVE  Visible(g)' = Visible(g)
  <1>1. UNCHANGED <<pt, table, sz, life, pc, low>> /\ pc[h] # "none"
      BY DEF StoresAt
  <1>2. CASE life[g] # "live"
      BY <1>1, <1>2, VisibleIs, VisibleIsNext
  <1>3. CASE life[g] = "live"
      <2>1. life[h] = "live"
          BY <1>1 DEF Kept, Places
      <2>2. PICK t \in Tables : t = table[g] /\ t # table[h]
          BY <1>3, <2>1, RowsApart DEF Kept
      <2>3. Top(g)' = Top(g)
          BY <1>1 DEF Top
      <2>4. ASSUME NEW u \in 0 .. Top(g) - 1 PROVE At(t, u)' = At(t, u)
          <3>1. u \in VA /\ u < Top(g)
              BY TopType
          <3>2. pc[g] \in Pending /\ t = tgt[g] => u # idx[g]
              BY <1>3, <2>2, <3>1, SeenIndex DEF Kept
          <3>3. Marks[<<t, u>>] = pt[t][u].pa
              BY <1>3, <2>2, <3>1, <3>2, SeenMark DEF Kept
          <3> QED BY <2>2, <3>1, <3>3, StoreElsewhere
      <2> QED BY <1>1, <1>3, <2>2, <2>3, <2>4, ViewSame
  <1> QED BY <1>2, <1>3

LEMMA StoreOthersContent ==
  ASSUME Typed, Kept, PageFacts, NEW h \in Procs, NEW v \in VA, NEW x \in Vals, NEW p \in Pages,
         StoresAt(h, v, x, p), NEW g \in Procs \ {h}, ContentOf(g)
  PROVE  ContentOf(g)'
  <1>1. /\ UNCHANGED <<pt, table, sz, life, pc, tgt, idx, lim, pg>> /\ pc[h] # "none"
        /\ mem' = [mem EXCEPT ![p] = x] /\ p = pt[table[h]][v].pa /\ Valid(table[h], v)
        /\ pc[h] = "user"
      BY DEF StoresAt
  <1>2. life[h] = "live" /\ table[h] \in Tables
      BY <1>1, Here DEF Kept
  <1>3. CASE pc[g] \in {"exec", "grow"}
      <2>1. /\ pc[g] # "none" /\ pc[g] \in Loops /\ pc[g] \notin Pending /\ pc[g] \in Building
          BY <1>3 DEF Loops, OwnPoints, ExecPoints, Pending, Building
      <2>2. life[g] = "live" /\ tgt[g] \in Tables
          BY <2>1, Here DEF Kept
      <2>3. PICK t \in Tables : t = tgt[g] /\ t # table[h]
          BY <1>2, <2>2, RowsApart DEF Kept
      <2>4. ASSUME NEW u \in VA, u < idx[g] PROVE mem'[pt'[t][u].pa] = mem[pt[t][u].pa]
          <3>1. Marks[<<t, u>>] = pt[t][u].pa
              BY <2>1, <2>2, <2>3, SeenMark DEF Kept
          <3>2. Valid(t, u)
              BY <2>1, <2>3, <2>4 DEF Kept, Shapes, Shape
          <3> QED BY <2>3, <3>1, <3>2, StoreElsewhere
      <2>5. CASE pc[g] = "exec"
          <3>1. lim[g] > 0 /\ \A u \in VA : u < idx[g] => mem[pt[t][u].pa] = Image
              BY <2>3, <2>5 DEF ContentOf
          <3>2. \A u \in VA : u < idx[g] => mem'[pt'[t][u].pa] = Image
              BY <2>4, <3>1
          <3> QED BY <1>1, <2>3, <2>5, <3>1, <3>2 DEF ContentOf
      <2>6. CASE pc[g] = "grow"
          <3>1. t = table[g]
              BY <2>3, <2>6 DEF Kept, Places, OwnPoints
          <3>2. \A u \in VA : sz[g] <= u /\ u < idx[g] => mem[pt[t][u].pa] = Zero
              BY <2>6, <3>1 DEF ContentOf
          <3>3. \A u \in VA : sz[g] <= u /\ u < idx[g] => mem'[pt'[t][u].pa] = Zero
              BY <2>4, <3>2
          <3> QED BY <1>1, <2>6, <3>1, <3>3 DEF ContentOf
      <2> QED BY <1>3, <2>5, <2>6
  <1>4. CASE pc[g] = "f_map"
      <2>1. /\ pc[g] # "none" /\ pc[g] \in FaultPoints /\ pc[g] \notin Pending /\ g \in Faulting
          BY <1>4 DEF FaultPoints, Pending, Faulting
      <2>2. /\ life[g] = "live" /\ table[g] \in Tables /\ idx[g] \in VA /\ pg[g] \in Pages
            /\ pt[table[g]][idx[g]].pa \in Pages
          BY <1>4, <2>1, Here, FaultPage DEF Kept
      <2>3. PICK t \in Tables, u \in VA : t = table[g] /\ u = idx[g] /\ t # table[h]
          BY <1>2, <2>2, RowsApart DEF Kept
      <2>4. Marks[<<t, u>>] = pt[t][u].pa /\ Valid(t, u)
          BY <2>1, <2>2, <2>3, SeenMark, CowAssumption DEF Kept, Valid
      <2>5. mem'[pt'[t][u].pa] = mem[pt[t][u].pa]
          BY <2>3, <2>4, StoreElsewhere
      <2>6. PICK d \in Entries : d = <<table[h], v>>
          BY <1>2, Entry
      <2>7. Marks[d] = p
          BY <1>1, <1>2, <2>6, SeenMark DEF Kept, Pending
      <2>8. pg[g] # p
          BY <2>1, <2>7 DEF PageFacts, FreshIs, MappingsOf
      <2>9. mem'[pg[g]] = mem[pg[g]]
          BY <1>1, <2>2, <2>8 DEF Typed
      <2>10. mem[pg[g]] = mem[pt[t][u].pa]
          BY <1>4, <2>3 DEF ContentOf
      <2> QED BY <1>1, <1>4, <2>3, <2>5, <2>9, <2>10 DEF ContentOf
  <1>5. CASE pc[g] = "fork_ref"
      BY <1>1, <1>5 DEF ContentOf
  <1> QED BY <1>1, <1>3, <1>4, <1>5, ContentNone

-----------------------------------------------------------------------------
\* Every step is a step of PrivateMem, or invisible.

Views == [g \in Procs |-> Visible(g)]
PrivateStep == Private!Next \/ Views' = Views
OthersSee(S) == \A g \in Procs \ S : Visible(g)' = Visible(g)

LEMMA LiveView ==
  ASSUME Typed, Kept, NEW h \in Procs, life[h] = "live"
  PROVE  Views[h] = Visible(h) /\ Visible(h) # Dead
  <1>1. PICK t \in Tables : t = table[h]
      BY DEF Kept, Places, Typed
  <1>2. PICK n \in 0 .. NV : n = Top(h) /\ \A v \in 0 .. n - 1 : v \in VA
      BY TopType
  <1>3. Visible(h) = [v \in 0 .. n - 1 |-> At(t, v)]
      BY <1>1, <1>2, VisibleIs
  <1>4. \A v \in 0 .. n - 1 : At(t, v) \in Vals \cup {Junk}
      BY <1>2, AtType
  <1>5. Visible(h) \in [0 .. n - 1 -> Vals \cup {Junk}]
      BY <1>3, <1>4
  <1> QED BY <1>5, DeadAssumption DEF Views

LEMMA ViewsChange ==
  ASSUME NEW h \in Procs, OthersSee({h})
  PROVE  Views' = [Views EXCEPT ![h] = Visible(h)']
  BY DEF OthersSee, Views

LEMMA ViewsWrite ==
  ASSUME Typed, Kept, NEW h \in Procs, life[h] = "live", OthersSee({h}), Wrote(h)
  PROVE  Private!Next
  <1>1. PICK v \in DOMAIN Visible(h), x \in Vals : Visible(h)' = [Visible(h) EXCEPT ![v] = x]
      BY DEF Wrote
  <1>2. Views[h] = Visible(h) /\ Views[h] # Dead
      BY LiveView
  <1>3. Views' = [Views EXCEPT ![h][v] = x]
      BY <1>1, <1>2, ViewsChange
  <1>4. Private!Write(h)
      BY <1>1, <1>2, <1>3 DEF Private!Write, Views
  <1> QED BY <1>4 DEF Private!Next

LEMMA ViewsResize ==
  ASSUME Typed, Kept, NEW h \in Procs, life[h] = "live", OthersSee({h}), Resized(h)
  PROVE  Private!Next
  <1>1. PICK n \in 0 .. NV :
          Visible(h)' = [v \in 0 .. n - 1 |->
                           IF v \in DOMAIN Visible(h) THEN Visible(h)[v] ELSE Zero]
      BY DEF Resized
  <1>2. Views[h] = Visible(h) /\ Views[h] # Dead
      BY LiveView
  <1>3. Views' = [Views EXCEPT ![h] = [v \in 0 .. n - 1 |->
                     IF v \in DOMAIN Views[h] THEN Views[h][v] ELSE Zero]]
      BY <1>1, <1>2, ViewsChange
  <1>4. Private!Resize(h)
      BY <1>2, <1>3 DEF Private!Resize, Views
  <1> QED BY <1>4 DEF Private!Next

LEMMA ViewsExec ==
  ASSUME Typed, Kept, NEW h \in Procs, life[h] = "live", OthersSee({h}),
         \E n \in 1 .. NV : Visible(h)' = [v \in 0 .. n - 1 |-> Image]
  PROVE  Private!Next
  <1>1. PICK n \in 1 .. NV : Visible(h)' = [v \in 0 .. n - 1 |-> Image]
      OBVIOUS
  <1>2. Views[h] # Dead
      BY LiveView
  <1>3. Views' = [Views EXCEPT ![h] = [v \in 0 .. n - 1 |-> Image]]
      BY <1>1, ViewsChange
  <1>4. Private!Exec(h)
      BY <1>2, <1>3 DEF Private!Exec, Views
  <1> QED BY <1>4 DEF Private!Next

LEMMA ViewsExit ==
  ASSUME Typed, Kept, NEW h \in Procs, life[h] = "live", OthersSee({h}), Visible(h)' = Dead
  PROVE  Private!Next
  <1>1. Views[h] # Dead /\ Views' = [Views EXCEPT ![h] = Dead]
      BY LiveView, ViewsChange
  <1>2. Private!Exit(h)
      BY <1>1 DEF Private!Exit, Views
  <1> QED BY <1>2 DEF Private!Next

LEMMA ViewsFork ==
  ASSUME Typed, Kept, NEW h \in Procs, life[h] = "live", Visible(h)' = Visible(h),
         NEW c \in Procs, c # h, life[c] = "embryo", Visible(c)' = Visible(h), OthersSee({h, c})
  PROVE  Private!Next
  <1>1. Views[h] # Dead /\ Views[h] = Visible(h)
      BY LiveView
  <1>2. Views[c] = Dead
      BY VisibleIs DEF Views
  <1>3. OthersSee({c})
      BY DEF OthersSee
  <1>4. Views' = [Views EXCEPT ![c] = Views[h]]
      BY <1>1, <1>3, ViewsChange
  <1>5. Private!Fork(h, c)
      BY <1>1, <1>2, <1>4 DEF Private!Fork, Views
  <1> QED BY <1>5 DEF Private!Next

LEMMA ViewsSame ==
  ASSUME NEW h \in Procs, OthersSee({h}), Visible(h)' = Visible(h)
  PROVE  PrivateStep
  BY DEF OthersSee, Views, PrivateStep

\* One step of h in the kernel.
LEMMA StepOwn ==
  ASSUME Typed, Kept, Typed', Kept', PageFacts, PageFacts', NEW h \in Procs, Step(h), ContentOf(h)
  PROVE  /\ ContentOf(h)'
         /\ \/ Visible(h)' \in {Visible(h), Dead} \/ Resized(h)
            \/ \E n \in 1 .. NV : Visible(h)' = [v \in 0 .. n - 1 |-> Image]
         /\ ForkDone(h) => Visible(h)' = Visible(h)
  <1>1. life[h] = "live" /\ MarkKept
      BY StepLive, MemStep DEF MemKept
  <1>2. CASE Own(h)
      BY <1>2 DEF Own
  <1>3. CASE ForkDone(h)
      BY <1>1, <1>2, <1>3, OwnFork
  <1>4. CASE ~ForkDone(h) /\ ~Own(h)
      <2>1. ~ForkMap(h) /\ ~ForkRef(h) /\ ~\E c \in Procs, t \in Tables : ForkStart(h, c, t)
          BY <1>1, <1>4, OwnFork, OwnForkMap
      <2>2. ~UnmapDec(h) /\ ~UnmapClear(h) /\ ~FreeProc(h) /\ ~DeallocDone(h) /\ ~DiscardDone(h)
          BY <1>1, <1>4, OwnUnmapDec, OwnUnmapClear, OwnEnds
      <2>3. /\ ~\E n \in Deltas : GrowStart(h, n)
            /\ ~\E t \in Tables, n \in ImageSizes : ExecStart(h, t, n)
            /\ ~\E c \in Procs : ReapStart(h, c)
          BY <1>1, <1>4, OwnStarts
      <2>4. ~GrowPage(h) /\ ~ExecPage(h) /\ ~FaultCopy(h) /\ ~FaultMap(h) /\ ~FaultDrop(h)
          BY <1>1, <1>4, OwnBuild, OwnFaultCopy, OwnFaultMap, OwnFaultDrop
      <2>5. \/ BecomeZombie(h)
            \/ \E n \in Deltas : ShrinkStart(h, n)
            \/ GrowDone(h) \/ ExecCommit(h)
          BY <1>1, <1>4, <2>1, <2>2, <2>3, <2>4, OwnStoreFault, OwnFaultAlloc DEF Step, Exit
      <2>6. CASE BecomeZombie(h)
          BY <1>4, <2>6, OwnZombie
      <2>7. CASE \E n \in Deltas : ShrinkStart(h, n)
          BY <1>1, <1>4, <2>7, OwnShrink
      <2>8. CASE GrowDone(h)
          BY <1>1, <1>4, <2>8, OwnGrowDone
      <2>9. CASE ExecCommit(h)
          BY <1>1, <1>4, <2>9, OwnExecCommit
      <2> QED BY <2>5, <2>6, <2>7, <2>8, <2>9
  <1> QED BY <1>2, <1>3, <1>4

LEMMA StepPrivate ==
  ASSUME Typed, Kept, Typed', Kept', PageFacts, PageFacts', Contents, NEW h \in Procs, Step(h)
  PROVE  PrivateStep /\ Contents'
  <1>1. life[h] = "live" /\ ContentOf(h)
      BY StepLive DEF Contents
  <1>2. Contents'
      <2>1. \A g \in Procs \ {h} : ContentOf(g)'
          BY OthersContent DEF Contents
      <2>2. ContentOf(h)'
          BY <1>1, StepOwn
      <2> QED BY <2>1, <2>2 DEF Contents
  <1>3. CASE ForkDone(h)
      <2>1. Visible(h)' = Visible(h)
          BY <1>1, <1>3, StepOwn
      <2>2. PICK c \in Procs : /\ life[c] = "embryo" /\ table[c] = tgt[h] /\ c # h
                               /\ Visible(c)' = Visible(h)
          BY <1>1, <1>3, ChildView
      <2>3. \A g \in Procs : table[g] = tgt[h] /\ life[g] = "embryo" => g = c
          BY <2>2 DEF Kept, Places
      <2>4. OthersSee({h, c})
          BY <2>3, OthersView DEF OthersSee
      <2> QED BY <1>1, <1>2, <2>1, <2>2, <2>4, ViewsFork DEF PrivateStep
  <1>4. CASE ~ForkDone(h)
      <2>1. OthersSee({h})
          BY <1>4, OthersView DEF OthersSee
      <2>2. \/ Visible(h)' \in {Visible(h), Dead} \/ Resized(h)
            \/ \E n \in 1 .. NV : Visible(h)' = [v \in 0 .. n - 1 |-> Image]
          BY <1>1, StepOwn
      <2> QED BY <1>1, <1>2, <2>1, <2>2, ViewsSame, ViewsExit, ViewsResize, ViewsExec DEF PrivateStep
  <1> QED BY <1>3, <1>4

LEMMA StorePrivate ==
  ASSUME Typed, Kept, PageFacts, Solo, Contents, ~CopyoutToShared, NEW h \in Procs, Stores(h)
  PROVE  PrivateStep /\ Contents' /\ PlainsNext
  <1>1. PICK v \in VA, x \in Vals, p \in Pages : StoresAt(h, v, x, p)
      BY StoreIs
  <1>2. life[h] = "live" /\ ContentOf(h)
      BY StepLive DEF Contents
  <1>3. Wrote(h) /\ ContentOf(h)'
      BY <1>1, StoreOwn
  <1>4. OthersSee({h})
      BY <1>1, StoreOthersView DEF OthersSee
  <1>5. Private!Next
      BY <1>2, <1>3, <1>4, ViewsWrite
  <1>6. \A g \in Procs \ {h} : ContentOf(g)'
      BY <1>1, StoreOthersContent DEF Contents
  <1>7. PlainsNext
      BY <1>1, PlainsStill DEF StoresAt
  <1> QED BY <1>3, <1>5, <1>6, <1>7 DEF Contents, PrivateStep

-----------------------------------------------------------------------------
\* Copy-on-write implements private memory.

PrivateInv == Typed /\ Kept /\ PageFacts /\ Held /\ Once /\ Solo /\ Contents

LEMMA BootPrivate ==
  ASSUME NEW h \in Procs, NEW t \in Tables, NEW n \in ImageSizes,
         NEW f \in [0 .. n - 1 -> Pages], Boots(h, t, n, f)
  PROVE  Solo /\ Contents /\ Private!Init
  <1>1. Solo
      BY BootMarks DEF Solo, SoleIs
  <1>2. Contents
      BY DEF Boots, Contents, ContentOf
  <1>3. /\ life[h] = "live" /\ table[h] = t /\ pc[h] = "user" /\ sz[h] = n
        /\ \A g \in Procs \ {h} : life[g] # "live"
      BY DEF Boots
  <1>4. n \in 1 .. NV /\ NV \in Nat
      BY BootPTE, CowAssumption
  <1>5. Visible(h) = [v \in 0 .. n - 1 |-> At(t, v)]
      BY <1>3, VisibleIs DEF Top
  <1>6. ASSUME NEW v \in 0 .. n - 1 PROVE At(t, v) = Image
      <2>1. v \in VA /\ v < n
          BY <1>4 DEF VA
      <2>2. pt[t][v].pa = f[v] /\ f[v] \in Pages
          BY <2>1, BootPTE
      <2>3. mem[f[v]] = Image
          BY <2>2 DEF Boots
      <2> QED BY <2>2, <2>3, CowAssumption DEF At, Valid
  <1>7. Visible(h) = [v \in 0 .. n - 1 |-> Image]
      BY <1>5, <1>6
  <1>8. \A g \in Procs \ {h} : Visible(g) = Dead
      BY <1>3, VisibleIs
  <1>9. Views = [g \in Procs |-> IF g = h THEN [v \in 0 .. n - 1 |-> Image] ELSE Dead]
      BY <1>7, <1>8 DEF Views
  <1>10. Private!Init
      BY <1>4, <1>9 DEF Private!Init, Views
  <1> QED BY <1>1, <1>2, <1>10

LEMMA InitPrivate == Init => PrivateInv /\ Private!Init
  BY InitBoots, InitInv, InitOnce, BootPrivate DEF PrivateInv

LEMMA StutterPrivate ==
  ASSUME Solo, Contents, UNCHANGED vars
  PROVE  Solo' /\ Contents' /\ PrivateStep
  <1>1. UNCHANGED <<mem, pt, table, sz, life, pc, tgt, idx, lim, low, pg>>
      BY DEF vars
  <1>2. Marks' = Marks /\ Plains' = Plains
      BY <1>1 DEF Marks, Uncounted, Plains
  <1>3. Solo'
      BY <1>2 DEF Solo, SoleIs
  <1>4. Contents'
      BY <1>1 DEF Contents, ContentOf
  <1>5. \A g \in Procs : Visible(g)' = Visible(g)
      BY <1>1 DEF Visible, Valid
  <1> QED BY <1>3, <1>4, <1>5 DEF PrivateStep, Views

LEMMA NextPrivate ==
  ASSUME ~CopyoutToShared, PrivateInv, [Next]_vars
  PROVE  PrivateInv' /\ PrivateStep
  <1>1. Typed /\ Kept /\ PageFacts /\ Held /\ Once /\ Solo /\ Contents
      BY DEF PrivateInv
  <1>2. Typed' /\ Kept' /\ PageFacts' /\ Held' /\ Once'
      BY <1>1, NextInductive
  <1>3. CASE UNCHANGED vars
      BY <1>1, <1>2, <1>3, StutterPrivate DEF PrivateInv
  <1>4. CASE Next
      <2>1. PICK h \in Procs : Stores(h) \/ Step(h)
          BY <1>4, NextStep
      <2>2. PrivateStep /\ Contents' /\ PlainsNext
          <3>1. CASE Stores(h)
              BY <1>1, <3>1, StorePrivate
          <3>2. CASE Step(h)
              BY <1>1, <1>2, <3>2, StepPrivate, PlainsStep
          <3> QED BY <2>1, <3>1, <3>2
      <2>3. Moves
          BY <1>1, <1>2, <1>4, NextPages DEF Kept
      <2>4. Solo'
          BY <1>1, <2>2, <2>3, SoloNext
      <2> QED BY <1>2, <2>2, <2>4 DEF PrivateInv
  <1> QED BY <1>3, <1>4

\* Copy-on-write is invisible: fork() gives the child the parent's memory as it
\* is at one instant, and then nobody's memory changes but by its own stores,
\* sbrk(), exec() and exit(), however the page loops and store faults of the
\* processes interleave (vm.c:299-330, trap.c:68-95).  The hypothesis is needed:
\* copyout() into a buffer on a shared page breaks it (vm.c:348-368).
THEOREM MemoryAlwaysPrivate ==
  ASSUME ~CopyoutToShared
  PROVE  Spec => MemoryIsPrivate
  <1>1. Init => PrivateInv /\ Private!Init
      BY InitPrivate
  <1>2. PrivateInv /\ [Next]_vars => PrivateInv'
      BY NextPrivate
  <1>3. PrivateInv /\ [Next]_vars => [Private!Next]_[h \in Procs |-> Visible(h)]
      BY NextPrivate DEF PrivateStep, Views
  <1> QED BY <1>1, <1>2, <1>3, PTL DEF Spec, MemoryIsPrivate, Private!Spec
=============================================================================
