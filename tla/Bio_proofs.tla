------------------------------ MODULE Bio_proofs ------------------------------
(***************************************************************************)
(* Proofs about Bio and the disk driver under it, for any number of        *)
(* processes, buffers, blocks and descriptors: references and descriptors  *)
(* are counted exactly, nobody sleeps for what is there already, and the   *)
(* cache implements BlockCache.                                            *)
(***************************************************************************)
EXTENDS Bio, FiniteSetTheorems, WellFoundedInduction, TLAPS

\* In virtio_disk_rw(), and waiting there for the device.
InRw == {"rw", "desc_asleep", "io_asleep", "io", "rw_done"}
Waits(p) == pc[p] \in {"io_asleep", "io"}
Holds(p) == pc[p] \in InRw \cup {"held"}

Commands == [write : BOOLEAN, sector : Blocks \cup {None}, buf : Bufs \cup {None}]

\* The types of what TypeOK leaves out.
Typed ==
  /\ pc \in [Procs -> InRw \cup {"idle", "acquire", "lock_asleep", "held",
                                 "release", "panic"}]
  /\ wr \in [Procs -> BOOLEAN] /\ pins \in [Bufs -> 0 .. 1]
  /\ op \in [Descs -> Commands] /\ DOMAIN chain = Descs

\* A process has a buffer from bget() to brelse(), the buffer stands for a
\* block, and the process that is past acquiresleep() owns its lock.
Owned ==
  /\ \A p \in Procs : /\ cur[p] = None <=> pc[p] \in {"idle", "panic"}
                      /\ cur[p] # None => blockno[cur[p]] # None
                      /\ Holds(p) => lock[cur[p]] = p
  /\ \A b \in Bufs : lock[b] # None => Holds(lock[b]) /\ cur[lock[b]] = b

\* bwrite() is for valid buffers of blocks that are changed, bread() for
\* buffers that are not valid yet; pinned buffers hold changed blocks.
Filled ==
  /\ \A p \in Procs : /\ pc[p] \in InRw => (valid[cur[p]] <=> wr[p])
                      /\ wr[p] => pc[p] \in InRw
                      /\ pc[p] = "held" => valid[cur[p]]
  /\ \A b \in Bufs : valid[b] \/ pins[b] > 0 => blockno[b] # None

OneEach ==
  \A b, c \in Bufs : blockno[b] # None /\ blockno[b] = blockno[c] => b = c

\* The descriptors of a request, its head first; no descriptor is in two.
Has(h, d) == \E j \in 1 .. 3 : chain[h][j] = d
Chains ==
  /\ \A h \in Requests : \E a, b \in Descs : chain[h] = <<h, a, b>>
  /\ \A d \in free, h \in Requests : ~Has(h, d)
  /\ \A d \in Descs \ free : \E h \in Requests : Has(h, d)
  /\ \A h, g \in Requests : \A d \in Descs : Has(h, d) /\ Has(g, d) => h = g

\* A request is in at most one place between driver and device.
InRing(s, h) == \E j \in DOMAIN s : s[j] = h
Queued(h) == InRing(avail, h) \/ h \in inflight \/ InRing(used, h)
Distinct(s) == \A i, j \in DOMAIN s : s[i] = s[j] => i = j
Rings ==
  /\ Distinct(avail) /\ Distinct(used)
  /\ \A h \in Descs : /\ ~(InRing(avail, h) /\ InRing(used, h))
                      /\ h \in inflight => ~InRing(avail, h) /\ ~InRing(used, h)

\* A request is that of the process which waits for it, and its buffer is the
\* disk's as long as the interrupt handler has not seen it done.
Served ==
  /\ \A h \in Descs : info[h] # None <=> h \in Requests
  /\ \A h \in Requests : \E p \in Procs :
       /\ Waits(p) /\ cur[p] = info[h]
       /\ op[h] = [write |-> wr[p], sector |-> blockno[cur[p]], buf |-> cur[p]]
  /\ \A h, g \in Requests : info[h] = info[g] => h = g
  /\ \A h \in Descs : Queued(h) => h \in Requests /\ bdisk[info[h]]

\* What a finished read has left in the buffer is still what is on the disk.
Fetched ==
  /\ \A h \in Requests : ~op[h].write /\ ~InRing(avail, h) /\ h \notin inflight
       => data[op[h].buf] = media[op[h].sector]
  /\ \A p \in Procs : pc[p] = "rw_done" /\ ~wr[p]
       => data[cur[p]] = media[blockno[cur[p]]]

\* The inductive invariant.
IInv ==
  /\ TypeOK /\ Typed /\ Owned /\ Filled /\ OneEach /\ RefcntExact
  /\ Chains /\ Rings /\ Served /\ Fetched /\ NoLostWakeup
-----------------------------------------------------------------------------
\* alloc_desc() finds a lowest free descriptor when there is one.
LEMMA LowestIs ==
  ASSUME NEW S \in SUBSET Nat, S # {}
  PROVE  Lowest(S) \in S
  <1> DEFINE R == {ss \in Nat \X Nat : ss[1] < ss[2]}
  <1>1. IsWellFoundedOn(R, Nat)
      BY NatLessThanWellFounded DEF OpToRel
  <1>2. PICK x \in S : \A y \in S : ~(<<y, x>> \in R)
      BY <1>1, WFMin
  <1>3. ASSUME NEW y \in S PROVE x <= y
      <2>1. <<y, x>>[1] = y /\ <<y, x>>[2] = x /\ <<y, x>> \in Nat \X Nat
          OBVIOUS
      <2>2. y < x => <<y, x>> \in R
          BY <2>1
      <2> QED BY <1>2, <2>2
  <1> QED BY <1>3 DEF Lowest

\* alloc3_desc() finds three.
LEMMA Alloc3Is ==
  ASSUME free \subseteq Descs, Cardinality(free) >= 3
  PROVE  \E a, b, c \in free : /\ a # b /\ a # c /\ b # c /\ Alloc3 = <<a, b, c>>
  <1> DEFINE a == Lowest(free)
             b == Lowest(free \ {a})
             c == Lowest(free \ {a, b})
  <1>1. IsFiniteSet(free) /\ free \subseteq Nat
      <2>1. IsFiniteSet(Descs) /\ Descs \subseteq Nat
          BY BioAssumption, FS_Interval DEF Descs
      <2> QED BY <2>1, FS_Subset
  <1>2. a \in free
      <2>1. free # {}
          BY FS_EmptySet
      <2> QED BY <1>1, <2>1, LowestIs
  <1>3. b \in free \ {a}
      <2>1. Cardinality(free \ {a}) = Cardinality(free) - 1 /\ Cardinality(free) \in Nat
          BY <1>1, <1>2, FS_RemoveElement, FS_CardinalityType
      <2>2. free \ {a} # {}
          BY <2>1, FS_EmptySet
      <2> QED BY <1>1, <2>2, LowestIs
  <1>4. c \in free \ {a, b}
      <2>1. /\ Cardinality(free \ {a}) = Cardinality(free) - 1 /\ Cardinality(free) \in Nat
            /\ IsFiniteSet(free \ {a})
          BY <1>1, <1>2, FS_RemoveElement, FS_CardinalityType
      <2>2. Cardinality((free \ {a}) \ {b}) = Cardinality(free \ {a}) - 1
          BY <1>3, <2>1, FS_RemoveElement
      <2>3. (free \ {a}) \ {b} = free \ {a, b}
          OBVIOUS
      <2>4. Cardinality(free \ {a, b}) = Cardinality(free) - 2
          <3> HIDE DEF a, b
          <3> QED BY <2>1, <2>2, <2>3
      <2>5. free \ {a, b} # {}
          <3> HIDE DEF a, b
          <3> QED BY <2>1, <2>4, FS_EmptySet
      <2> QED BY <1>1, <2>5, LowestIs
  <1>5. Alloc3 = <<a, b, c>>
      BY DEF Alloc3
  <1> HIDE DEF a, b, c
  <1> QED BY <1>2, <1>3, <1>4, <1>5

\* The process and the buffers it may hold.
LEMMA Finite ==
  /\ \A b : IsFiniteSet({p \in Procs : cur[p] = b})
  /\ IsFiniteSet(Descs) /\ Cardinality(Descs) = NUM
  <1>1. \A b : {p \in Procs : cur[p] = b} \in SUBSET Procs
      OBVIOUS
  <1>2. IsFiniteSet(Descs) /\ Cardinality(Descs) = NUM
      BY BioAssumption, FS_Interval DEF Descs
  <1> QED BY <1>1, <1>2, BioAssumption, FS_Subset

LEMMA InitIInv == Init => IInv
  <1> SUFFICES ASSUME Init PROVE IInv
      OBVIOUS
  <1> USE BioAssumption DEF Init, VirtioInit
  <1>1. TypeOK
      <2>1. bdisk \in [Bufs -> BOOLEAN] /\ valid \in [Bufs -> BOOLEAN]
          OBVIOUS
      <2>2. avail \in Seq(Descs) /\ used \in Seq(Descs) /\ free \subseteq Descs
            /\ inflight \subseteq Descs
          OBVIOUS
      <2> QED BY <2>1, <2>2 DEF TypeOK
  <1>2. Typed
      <2>1. wr \in [Procs -> BOOLEAN]
          OBVIOUS
      <2>2. NoOp \in Commands
          BY DEF NoOp, Commands
      <2> QED BY <2>1, <2>2 DEF Typed
  <1>3. Owned /\ Filled /\ OneEach
      BY DEF Owned, Holds, InRw, Filled, OneEach
  <1>4. RefcntExact
      <2> SUFFICES ASSUME NEW b \in Bufs
                   PROVE  refcnt[b] = Cardinality({p \in Procs : cur[p] = b}) + pins[b]
          BY DEF RefcntExact
      <2>1. {p \in Procs : cur[p] = b} = {}
          OBVIOUS
      <2>2. Cardinality({p \in Procs : cur[p] = b}) = 0
          BY <2>1, FS_EmptySet
      <2>3. refcnt[b] = 0 /\ pins[b] = 0
          OBVIOUS
      <2> QED BY <2>2, <2>3
  <1>5. Requests = {}
      BY DEF Requests
  <1>6. Chains /\ Rings
      BY <1>5 DEF Chains, Rings, InRing, Distinct
  <1>7. Served /\ Fetched
      BY <1>5 DEF Served, Fetched, Queued, InRing
  <1>8. NoLostWakeup
      BY DEF NoLostWakeup, InterruptPending
  <1> QED BY <1>1, <1>2, <1>3, <1>4, <1>6, <1>7, <1>8 DEF IInv
-----------------------------------------------------------------------------
\* A step outside the driver: requests, rings and disk stay as they are.
LEMMA DriverStep ==
  ASSUME IInv,
         bdisk' = bdisk, free' = free, chain' = chain, op' = op, info' = info,
         media' = media, avail' = avail, inflight' = inflight, used' = used,
         (irq' = irq /\ intr' = intr) \/ InterruptPending',
         \A p \in Procs : Waits(p) \/ pc'[p] = "rw_done" =>
           /\ cur'[p] = cur[p] /\ wr'[p] = wr[p]
           /\ blockno'[cur[p]] = blockno[cur[p]] /\ data'[cur[p]] = data[cur[p]],
         \A p \in Procs : Waits(p) => Waits(p)',
         \A p \in Procs : pc'[p] \in {"io_asleep", "desc_asleep", "rw_done"} =>
           \/ pc'[p] = pc[p]
           \/ pc'[p] = "desc_asleep" /\ Cardinality(free) < 3
           \/ pc'[p] = "io_asleep" /\ Waits(p) /\ bdisk[cur[p]],
         \A p \in Procs : pc'[p] = "lock_asleep" => lock'[cur'[p]] # None
  PROVE  Chains' /\ Rings' /\ Served' /\ Fetched' /\ NoLostWakeup'
  <1>0. Chains /\ Rings /\ Served /\ Fetched /\ NoLostWakeup
      BY DEF IInv
  <1>1. Requests' = Requests
      BY DEF Requests
  <1>2. Chains' /\ Rings'
      BY <1>0, <1>1 DEF Chains, Has, Rings, InRing, Distinct
  <1>3. Served'
      <2>1. ASSUME NEW h \in Requests
            PROVE  \E p \in Procs :
                     /\ Waits(p)' /\ cur'[p] = info[h]
                     /\ op[h] = [write |-> wr'[p], sector |-> blockno'[cur'[p]],
                                 buf |-> cur'[p]]
          <3>1. PICK p \in Procs :
                  /\ Waits(p) /\ cur[p] = info[h]
                  /\ op[h] = [write |-> wr[p], sector |-> blockno[cur[p]], buf |-> cur[p]]
              BY <1>0 DEF Served
          <3> QED BY <3>1
      <2>2. \A h \in Descs : Queued(h)' = Queued(h)
          BY DEF Queued, InRing
      <2> QED BY <1>0, <1>1, <2>1, <2>2 DEF Served
  <1>4. Fetched'
      <2>1. ASSUME NEW h \in Requests PROVE data'[op[h].buf] = data[op[h].buf]
          <3>1. PICK p \in Procs :
                  /\ Waits(p) /\ cur[p] = info[h]
                  /\ op[h] = [write |-> wr[p], sector |-> blockno[cur[p]], buf |-> cur[p]]
              BY <1>0 DEF Served
          <3>2. op[h].buf = cur[p]
              BY <3>1
          <3> QED BY <3>1, <3>2
      <2>2. \A h \in Requests' : ~op'[h].write /\ ~InRing(avail, h)' /\ h \notin inflight'
              => data'[op'[h].buf] = media'[op'[h].sector]
          BY <1>0, <1>1, <2>1 DEF Fetched, InRing
      <2>3. \A p \in Procs : pc'[p] = "rw_done" /\ ~wr'[p]
              => data'[cur'[p]] = media'[blockno'[cur'[p]]]
          BY <1>0 DEF Fetched
      <2> QED BY <2>2, <2>3 DEF Fetched
  <1>5. NoLostWakeup'
      <2>1. InterruptPending'
          BY <1>0 DEF NoLostWakeup, InterruptPending
      <2>2. ASSUME NEW p \in Procs
            PROVE  /\ pc'[p] = "io_asleep" => bdisk'[cur'[p]]
                   /\ pc'[p] = "desc_asleep" => Cardinality(free') < 3
          BY <1>0 DEF NoLostWakeup, Waits
      <2> QED BY <2>1, <2>2 DEF NoLostWakeup
  <1> QED BY <1>2, <1>3, <1>4, <1>5

\* A step of the driver or the device, or into or out of a sleep: the cache's own
\* state stays as it is.
LEMMA CacheStep ==
  ASSUME IInv, blockno' = blockno, valid' = valid, refcnt' = refcnt,
         lock' = lock, pins' = pins, cur' = cur, wr' = wr,
         pc' \in [Procs -> InRw \cup {"idle", "acquire", "lock_asleep", "held",
                                      "release", "panic"}],
         \A p \in Procs : \/ pc'[p] = pc[p] \/ {pc[p], pc'[p]} \subseteq InRw
                          \/ {pc[p], pc'[p]} \subseteq {"idle", "panic"}
                          \/ {pc[p], pc'[p]} \subseteq {"acquire", "lock_asleep"},
         op' \in [Descs -> Commands], DOMAIN chain' = Descs
  PROVE  Typed' /\ Owned' /\ Filled' /\ OneEach' /\ RefcntExact'
  <1>1. Typed'
      <2>1. wr' \in [Procs -> BOOLEAN]
          BY DEF IInv, Typed
      <2> QED BY <2>1 DEF IInv, Typed
  <1>2. \A p \in Procs : /\ Holds(p)' <=> Holds(p)
                         /\ pc'[p] \in InRw <=> pc[p] \in InRw
                         /\ pc'[p] = "held" <=> pc[p] = "held"
                         /\ pc'[p] \in {"idle", "panic"} <=> pc[p] \in {"idle", "panic"}
      BY DEF Holds, InRw
  <1>3. Owned'
      <2>1. \A b \in Bufs : lock[b] # None => lock[b] \in Procs
          BY DEF IInv, TypeOK
      <2> QED BY <1>2, <2>1 DEF IInv, Owned
  <1>4. Filled'
      BY <1>2 DEF IInv, Filled
  <1>5. OneEach' /\ RefcntExact'
      BY DEF IInv, OneEach, RefcntExact
  <1> QED BY <1>1, <1>3, <1>4, <1>5
-----------------------------------------------------------------------------
\* A process that has a buffer, and one that has none.
LEMMA HasBuf ==
  ASSUME IInv, NEW p \in Procs
  PROVE  /\ pc[p] \notin {"idle", "panic"} => cur[p] \in Bufs /\ blockno[cur[p]] \in Blocks
         /\ Holds(p) => lock[cur[p]] = p
         /\ ~Holds(p) => \A b \in Bufs : lock[b] # p
         /\ pc[p] \notin InRw => ~wr[p]
         /\ \A q \in Procs : Holds(p) /\ Holds(q) /\ cur[p] = cur[q] => p = q
  BY BioAssumption DEF IInv, TypeOK, Typed, Owned, Filled

\* Processes that use a buffer (f is the buffer of each), when one more does ...
Users(f, b) == {q \in Procs : f[q] = b}
LEMMA UserAdded ==
  ASSUME NEW f \in [Procs -> Bufs \cup {None}], NEW p \in Procs, f[p] = None,
         NEW x \in Bufs, NEW g, g[p] = x, \A q \in Procs \ {p} : g[q] = f[q]
  PROVE  /\ Cardinality(Users(g, x)) = Cardinality(Users(f, x)) + 1
         /\ Cardinality(Users(f, x)) \in Nat
         /\ \A b \in Bufs \ {x} : Users(g, b) = Users(f, b)
  <1> DEFINE S == Users(f, x)
  <1>1. IsFiniteSet(S) /\ p \notin S
      <2>1. S \in SUBSET Procs /\ p \notin S
          BY BioAssumption DEF Users
      <2> QED BY <2>1, BioAssumption, FS_Subset
  <1>2. Users(g, x) = S \cup {p}
      BY DEF Users
  <1>3. \A b \in Bufs \ {x} : Users(g, b) = Users(f, b)
      BY BioAssumption DEF Users
  <1> HIDE DEF S
  <1>4. Cardinality(S \cup {p}) = Cardinality(S) + 1 /\ Cardinality(S) \in Nat
      BY <1>1, FS_AddElement, FS_CardinalityType
  <1> QED BY <1>2, <1>3, <1>4 DEF S

\* ... and when one stops.
LEMMA UserGone ==
  ASSUME NEW f \in [Procs -> Bufs \cup {None}], NEW p \in Procs, NEW x \in Bufs,
         f[p] = x, NEW g, g[p] = None, \A q \in Procs \ {p} : g[q] = f[q]
  PROVE  /\ Cardinality(Users(g, x)) = Cardinality(Users(f, x)) - 1
         /\ Cardinality(Users(g, x)) \in Nat
         /\ \A b \in Bufs \ {x} : Users(g, b) = Users(f, b)
  <1> DEFINE S == Users(f, x)
  <1>1. IsFiniteSet(S) /\ p \in S
      <2>1. S \in SUBSET Procs /\ p \in S
          BY DEF Users
      <2> QED BY <2>1, BioAssumption, FS_Subset
  <1>2. Users(g, x) = S \ {p}
      BY BioAssumption DEF Users
  <1>3. \A b \in Bufs \ {x} : Users(g, b) = Users(f, b)
      BY BioAssumption DEF Users
  <1> HIDE DEF S
  <1>4. Cardinality(S \ {p}) = Cardinality(S) - 1 /\ Cardinality(S \ {p}) \in Nat
      BY <1>1, FS_RemoveElement, FS_CardinalityType
  <1> QED BY <1>2, <1>3, <1>4 DEF S

\* bget() finds the block.
LEMMA BgetHitIInv ==
  ASSUME IInv, NEW p \in Procs, NEW k \in Blocks, BgetHit(p, k)
  PROVE  IInv'
  <1>0. /\ TypeOK /\ Typed /\ Owned /\ Filled /\ OneEach /\ RefcntExact
      BY DEF IInv
  <1>1. PICK b \in Bufs : /\ blockno[b] = k
                          /\ refcnt' = [refcnt EXCEPT ![b] = refcnt[b] + 1]
                          /\ cur' = [cur EXCEPT ![p] = b]
      BY DEF BgetHit, Cached
  <1>2. /\ pc[p] = "idle" /\ pc' = [pc EXCEPT ![p] = "acquire"]
        /\ data' = data /\ bdisk' = bdisk /\ free' = free /\ chain' = chain
        /\ op' = op /\ info' = info /\ media' = media /\ avail' = avail
        /\ inflight' = inflight /\ used' = used /\ irq' = irq /\ intr' = intr
        /\ wr' = wr /\ blockno' = blockno /\ valid' = valid /\ lock' = lock
        /\ pins' = pins
      BY DEF BgetHit, Goto, diskVars, driverVars, deviceVars
  <1>3. /\ pc'[p] = "acquire" /\ cur'[p] = b /\ cur[p] = None /\ ~wr[p]
        /\ \A q \in Procs \ {p} : pc'[q] = pc[q] /\ cur'[q] = cur[q]
        /\ \A c \in Bufs : lock[c] # p
        /\ k # None
      <2>1. pc[p] \notin InRw /\ ~Holds(p)
          BY <1>2 DEF InRw, Holds
      <2>2. ~wr[p] /\ \A c \in Bufs : lock[c] # p
          BY <2>1, HasBuf
      <2> QED BY <1>0, <1>1, <1>2, <2>2, BioAssumption DEF TypeOK, Typed, Owned
  <1>4. TypeOK'
      <2>1. bdisk' \in [Bufs -> BOOLEAN] /\ valid' \in [Bufs -> BOOLEAN]
          BY <1>0, <1>2 DEF TypeOK
      <2> QED BY <1>0, <1>1, <1>2, <2>1 DEF TypeOK
  <1>5. Typed'
      <2>1. wr' \in [Procs -> BOOLEAN]
          BY <1>0, <1>2 DEF Typed
      <2> QED BY <1>0, <1>2, <2>1 DEF Typed
  <1>6. Owned'
      <2>1. \A c \in Bufs : lock[c] # None => lock[c] \in Procs \ {p}
          BY <1>0, <1>3 DEF TypeOK
      <2> QED BY <1>0, <1>1, <1>2, <1>3, <2>1, BioAssumption DEF Owned, Holds, InRw
  <1>7. Filled' /\ OneEach'
      BY <1>0, <1>2, <1>3 DEF Filled, OneEach, InRw
  <1>8. RefcntExact'
      <2> SUFFICES ASSUME NEW c \in Bufs
                   PROVE  refcnt'[c] = Cardinality(Users(cur', c)) + pins[c]
          BY <1>2 DEF RefcntExact, Users
      <2>1. /\ cur \in [Procs -> Bufs \cup {None}] /\ refcnt \in [Bufs -> Nat]
            /\ pins[c] \in Nat
            /\ refcnt[c] = Cardinality(Users(cur, c)) + pins[c]
          BY <1>0 DEF TypeOK, Typed, RefcntExact, Users
      <2>2. CASE c = b
          <3>1. /\ Cardinality(Users(cur', b))
                     = Cardinality(Users(cur, b)) + 1
                /\ Cardinality(Users(cur, b)) \in Nat
              BY <1>3, <2>1, UserAdded
          <3>2. refcnt'[c] = refcnt[c] + 1
              BY <1>1, <2>1, <2>2
          <3> QED BY <2>1, <2>2, <3>1, <3>2
      <2>3. CASE c # b
          <3>1. Users(cur', c) = Users(cur, c)
              BY <1>3, <2>1, <2>3, UserAdded
          <3>2. refcnt'[c] = refcnt[c]
              BY <1>1, <2>1, <2>3
          <3> QED BY <2>1, <3>1, <3>2
      <2> QED BY <2>2, <2>3
  <1>9. Chains' /\ Rings' /\ Served' /\ Fetched' /\ NoLostWakeup'
      <2>1. \A q \in Procs : pc'[q] = "lock_asleep" => lock'[cur'[q]] # None
          BY <1>2, <1>3 DEF IInv, NoLostWakeup
      <2>2. \A q \in Procs : Waits(q) \/ pc'[q] = "rw_done" => q # p
          BY <1>2, <1>3 DEF Waits
      <2>3. \A q \in Procs : pc'[q] \in {"io_asleep", "desc_asleep", "rw_done"}
              => pc'[q] = pc[q]
          BY <1>3
      <2>4. \A q \in Procs : Waits(q) => Waits(q)'
          BY <1>3, <2>2 DEF Waits
      <2> QED BY <1>2, <1>3, <2>1, <2>2, <2>3, <2>4, DriverStep
  <1> QED BY <1>4, <1>5, <1>6, <1>7, <1>8, <1>9 DEF IInv

\* bget() recycles a buffer: nobody uses, has pinned or has locked it.
LEMMA BgetMissIInv ==
  ASSUME IInv, NEW p \in Procs, NEW k \in Blocks, BgetMiss(p, k)
  PROVE  IInv'
  <1>0. /\ TypeOK /\ Typed /\ Owned /\ Filled /\ OneEach /\ RefcntExact
      BY DEF IInv
  <1>1. PICK b \in Bufs : /\ refcnt[b] = 0
                          /\ blockno' = [blockno EXCEPT ![b] = k]
                          /\ valid' = [valid EXCEPT ![b] = FALSE]
                          /\ refcnt' = [refcnt EXCEPT ![b] = 1]
                          /\ cur' = [cur EXCEPT ![p] = b]
      BY DEF BgetMiss, Unused
  <1>2. /\ pc[p] = "idle" /\ pc' = [pc EXCEPT ![p] = "acquire"]
        /\ data' = data /\ bdisk' = bdisk /\ free' = free /\ chain' = chain
        /\ op' = op /\ info' = info /\ media' = media /\ avail' = avail
        /\ inflight' = inflight /\ used' = used /\ irq' = irq /\ intr' = intr
        /\ wr' = wr /\ lock' = lock /\ pins' = pins
        /\ \A c \in Bufs : blockno[c] # k
      BY DEF BgetMiss, Goto, diskVars, driverVars, deviceVars, Cached
  <1>3. /\ pc'[p] = "acquire" /\ cur'[p] = b /\ cur[p] = None /\ ~wr[p]
        /\ \A q \in Procs \ {p} : pc'[q] = pc[q] /\ cur'[q] = cur[q]
        /\ \A c \in Bufs : lock[c] # p
        /\ k # None
        /\ blockno'[b] = k /\ ~valid'[b]
        /\ \A c \in Bufs \ {b} : blockno'[c] = blockno[c] /\ valid'[c] = valid[c]
      <2>1. pc[p] \notin InRw /\ ~Holds(p)
          BY <1>2 DEF InRw, Holds
      <2>2. ~wr[p] /\ \A c \in Bufs : lock[c] # p
          BY <2>1, HasBuf
      <2> QED BY <1>0, <1>1, <1>2, <2>2, BioAssumption DEF TypeOK, Typed, Owned
  <1>4. pins[b] = 0 /\ Cardinality(Users(cur, b)) = 0
      <2>1. /\ pins[b] \in 0 .. 1
            /\ refcnt[b] = Cardinality(Users(cur, b)) + pins[b]
          BY <1>0 DEF Typed, RefcntExact, Users
      <2>2. Cardinality(Users(cur, b)) \in Nat
          BY Finite, FS_CardinalityType DEF Users
      <2> QED BY <1>1, <2>1, <2>2
  <1>5. \A q \in Procs : cur[q] # b
      <2>1. Users(cur, b) = {}
          BY <1>4, Finite, FS_EmptySet DEF Users
      <2> QED BY <2>1 DEF Users
  <1>6. TypeOK'
      <2>1. bdisk' \in [Bufs -> BOOLEAN] /\ valid' \in [Bufs -> BOOLEAN]
          BY <1>0, <1>1, <1>2 DEF TypeOK
      <2> QED BY <1>0, <1>1, <1>2, <2>1 DEF TypeOK
  <1>7. Typed'
      <2>1. wr' \in [Procs -> BOOLEAN]
          BY <1>0, <1>2 DEF Typed
      <2> QED BY <1>0, <1>2, <2>1 DEF Typed
  <1>8. Owned'
      <2>1. \A c \in Bufs : lock[c] # None => lock[c] \in Procs \ {p}
          BY <1>0, <1>3 DEF TypeOK
      <2>2. \A q \in Procs \ {p} : cur[q] # None => blockno'[cur[q]] = blockno[cur[q]]
          BY <1>0, <1>3, <1>5 DEF TypeOK
      <2> QED BY <1>0, <1>1, <1>2, <1>3, <2>1, <2>2, BioAssumption DEF Owned, Holds, InRw
  <1>9. Filled'
      <2>1. \A q \in Procs \ {p} : cur[q] # None => valid'[cur[q]] = valid[cur[q]]
          BY <1>0, <1>3, <1>5 DEF TypeOK
      <2>2. \A q \in Procs : pc[q] \in InRw \cup {"held"} => cur[q] # None
          BY <1>0 DEF Owned, InRw
      <2> QED BY <1>0, <1>2, <1>3, <1>4, <2>1, <2>2 DEF Filled, InRw
  <1>10. OneEach'
      BY <1>0, <1>2, <1>3 DEF OneEach
  <1>11. RefcntExact'
      <2> SUFFICES ASSUME NEW c \in Bufs
                   PROVE  refcnt'[c] = Cardinality(Users(cur', c)) + pins[c]
          BY <1>2 DEF RefcntExact, Users
      <2>1. /\ cur \in [Procs -> Bufs \cup {None}] /\ refcnt \in [Bufs -> Nat]
            /\ refcnt[c] = Cardinality(Users(cur, c)) + pins[c]
          BY <1>0 DEF TypeOK, RefcntExact, Users
      <2>2. CASE c = b
          <3>1. Cardinality(Users(cur', b))
                  = Cardinality(Users(cur, b)) + 1
              BY <1>3, <2>1, UserAdded
          <3>2. refcnt'[c] = 1
              BY <1>1, <2>1, <2>2
          <3> QED BY <1>4, <2>2, <3>1, <3>2
      <2>3. CASE c # b
          <3>1. Users(cur', c) = Users(cur, c)
              BY <1>3, <2>1, <2>3, UserAdded
          <3>2. refcnt'[c] = refcnt[c]
              BY <1>1, <2>1, <2>3
          <3> QED BY <2>1, <3>1, <3>2
      <2> QED BY <2>2, <2>3
  <1>12. Chains' /\ Rings' /\ Served' /\ Fetched' /\ NoLostWakeup'
      <2>1. \A q \in Procs : pc'[q] = "lock_asleep" => lock'[cur'[q]] # None
          BY <1>2, <1>3 DEF IInv, NoLostWakeup
      <2>2. \A q \in Procs : Waits(q) \/ pc'[q] = "rw_done" =>
              q # p /\ blockno'[cur[q]] = blockno[cur[q]]
          <3>1. \A q \in Procs : Waits(q) \/ pc'[q] = "rw_done" => q # p /\ cur[q] \in Bufs
              BY <1>2, <1>3, HasBuf DEF Waits
          <3> QED BY <1>3, <1>5, <3>1
      <2>3. \A q \in Procs : pc'[q] \in {"io_asleep", "desc_asleep", "rw_done"}
              => pc'[q] = pc[q]
          BY <1>3
      <2>4. \A q \in Procs : Waits(q) => Waits(q)'
          BY <1>3, <2>2 DEF Waits
      <2> QED BY <1>2, <1>3, <2>1, <2>2, <2>3, <2>4, DriverStep
  <1> QED BY <1>6, <1>7, <1>8, <1>9, <1>10, <1>11, <1>12 DEF IInv

\* bget() panics, acquiresleep() sleeps, or kill() ends a sleep.
LEMMA SleepIInv ==
  ASSUME IInv, NEW p \in Procs,
         \/ \E k \in Blocks : BgetPanic(p, k)
         \/ AcquireSleep(p) /\ lock[cur[p]] # None
         \/ KillWakes(p)
  PROVE  IInv'
  <1>0. TypeOK /\ Typed
      BY DEF IInv
  <1>1. /\ data' = data /\ bdisk' = bdisk /\ free' = free /\ chain' = chain
        /\ op' = op /\ info' = info /\ media' = media /\ avail' = avail
        /\ inflight' = inflight /\ used' = used /\ irq' = irq /\ intr' = intr
        /\ cur' = cur /\ wr' = wr
        /\ blockno' = blockno /\ valid' = valid /\ refcnt' = refcnt /\ lock' = lock
        /\ pins' = pins
      BY DEF BgetPanic, AcquireSleep, KillWakes, Goto, diskVars, driverVars,
             deviceVars, bioVars
  <1>2. PICK x \in {"panic", "lock_asleep", "acquire", "rw", "io"} :
          /\ pc' = [pc EXCEPT ![p] = x]
          /\ x = "panic" => pc[p] = "idle"
          /\ x = "lock_asleep" => pc[p] = "acquire" /\ lock[cur[p]] # None
          /\ x = "acquire" => pc[p] = "lock_asleep"
          /\ x = "rw" => pc[p] = "desc_asleep"
          /\ x = "io" => pc[p] = "io_asleep"
      BY DEF BgetPanic, AcquireSleep, KillWakes, Goto
  <1>3. pc'[p] = x /\ \A q \in Procs \ {p} : pc'[q] = pc[q]
      BY <1>0, <1>2 DEF Typed
  <1>4. TypeOK'
      <2>1. bdisk' \in [Bufs -> BOOLEAN] /\ valid' \in [Bufs -> BOOLEAN]
          BY <1>0, <1>1 DEF TypeOK
      <2> QED BY <1>0, <1>1, <2>1 DEF TypeOK
  <1>5. Typed' /\ Owned' /\ Filled' /\ OneEach' /\ RefcntExact'
      <2>1. pc' \in [Procs -> InRw \cup {"idle", "acquire", "lock_asleep", "held",
                                         "release", "panic"}]
          BY <1>0, <1>2 DEF Typed, InRw
      <2>2. \A q \in Procs : \/ pc'[q] = pc[q] \/ {pc[q], pc'[q]} \subseteq InRw
                             \/ {pc[q], pc'[q]} \subseteq {"idle", "panic"}
                             \/ {pc[q], pc'[q]} \subseteq {"acquire", "lock_asleep"}
          BY <1>2, <1>3 DEF InRw
      <2>3. op' \in [Descs -> Commands] /\ DOMAIN chain' = Descs
          BY <1>0, <1>1 DEF Typed
      <2> QED BY <1>1, <2>1, <2>2, <2>3, CacheStep
  <1>6. Chains' /\ Rings' /\ Served' /\ Fetched' /\ NoLostWakeup'
      <2>1. \A q \in Procs : pc'[q] = "lock_asleep" => lock'[cur'[q]] # None
          BY <1>1, <1>2, <1>3 DEF IInv, NoLostWakeup
      <2>2. \A q \in Procs : pc'[q] \in {"io_asleep", "desc_asleep", "rw_done"}
              => pc'[q] = pc[q]
          BY <1>2, <1>3
      <2>3. \A q \in Procs : Waits(q) => Waits(q)'
          BY <1>2, <1>3 DEF Waits
      <2> QED BY <1>1, <2>1, <2>2, <2>3, DriverStep
  <1> QED BY <1>4, <1>5, <1>6 DEF IInv

\* acquiresleep() takes the lock, bread() goes on.
LEMMA AcquireIInv ==
  ASSUME IInv, NEW p \in Procs, AcquireSleep(p), lock[cur[p]] = None
  PROVE  IInv'
  <1>0. /\ TypeOK /\ Typed /\ Owned /\ Filled /\ OneEach /\ RefcntExact
      BY DEF IInv
  <1>1. /\ pc[p] = "acquire" /\ lock' = [lock EXCEPT ![cur[p]] = p]
        /\ data' = data /\ bdisk' = bdisk /\ free' = free /\ chain' = chain
        /\ op' = op /\ info' = info /\ media' = media /\ avail' = avail
        /\ inflight' = inflight /\ used' = used /\ irq' = irq /\ intr' = intr
        /\ cur' = cur /\ wr' = wr
        /\ blockno' = blockno /\ valid' = valid /\ refcnt' = refcnt /\ pins' = pins
      BY DEF AcquireSleep, diskVars, driverVars, deviceVars
  <1>2. PICK x \in {"held", "rw"} : /\ pc' = [pc EXCEPT ![p] = x]
                                    /\ x = "held" <=> valid[cur[p]]
      BY DEF AcquireSleep, Goto
  <1>3. /\ pc'[p] = x /\ \A q \in Procs \ {p} : pc'[q] = pc[q]
        /\ cur[p] \in Bufs /\ blockno[cur[p]] \in Blocks /\ ~wr[p]
        /\ lock'[cur[p]] = p /\ \A b \in Bufs \ {cur[p]} : lock'[b] = lock[b]
        /\ \A b \in Bufs : lock[b] # p
      <2>1. pc[p] \notin InRw /\ ~Holds(p)
          BY <1>1 DEF InRw, Holds
      <2>2. ~wr[p] /\ \A b \in Bufs : lock[b] # p
          BY <2>1, HasBuf
      <2>3. cur[p] \in Bufs /\ blockno[cur[p]] \in Blocks
          BY <1>1, HasBuf
      <2> QED BY <1>0, <1>1, <1>2, <2>2, <2>3 DEF TypeOK, Typed
  <1>4. TypeOK'
      <2>1. bdisk' \in [Bufs -> BOOLEAN] /\ valid' \in [Bufs -> BOOLEAN]
          BY <1>0, <1>1 DEF TypeOK
      <2> QED BY <1>0, <1>1, <2>1 DEF TypeOK
  <1>5. Typed'
      <2>1. wr' \in [Procs -> BOOLEAN]
          BY <1>0, <1>1 DEF Typed
      <2> QED BY <1>0, <1>1, <1>2, <2>1 DEF Typed, InRw
  <1>6. Owned'
      <2>1. ASSUME NEW q \in Procs
            PROVE  /\ cur[q] = None <=> pc'[q] \in {"idle", "panic"}
                   /\ Holds(q)' => lock'[cur[q]] = q
          <3>1. CASE q = p
              BY <1>0, <1>1, <1>3, <3>1 DEF Owned
          <3>2. CASE q # p
              <4>1. Holds(q)' => Holds(q)
                  BY <1>3, <3>2 DEF Holds
              <4>2. Holds(q) => cur[q] \in Bufs
                  BY HasBuf DEF Holds, InRw
              <4>3. Holds(q) => cur[q] # cur[p]
                  BY <1>0, BioAssumption DEF Owned
              <4> QED BY <1>0, <1>3, <3>2, <4>1, <4>2, <4>3 DEF Owned
          <3> QED BY <3>1, <3>2
      <2>2. ASSUME NEW b \in Bufs, lock'[b] # None
            PROVE  pc'[lock'[b]] \in InRw \cup {"held"} /\ cur[lock'[b]] = b
          <3>1. CASE b = cur[p]
              BY <1>3, <3>1 DEF InRw
          <3>2. CASE b # cur[p]
              <4>1. lock'[b] = lock[b] /\ lock[b] \in Procs \ {p}
                  BY <1>0, <1>3, <2>2, <3>2 DEF TypeOK
              <4> QED BY <1>0, <1>3, <2>2, <4>1 DEF Owned, Holds
          <3> QED BY <3>1, <3>2
      <2> QED BY <1>0, <1>1, <2>1, <2>2 DEF Owned, Holds
  <1>7. Filled' /\ OneEach' /\ RefcntExact'
      <2>1. Filled'
          BY <1>0, <1>1, <1>2, <1>3 DEF Filled, InRw
      <2> QED BY <1>0, <1>1, <2>1 DEF OneEach, RefcntExact
  <1>8. Chains' /\ Rings' /\ Served' /\ Fetched' /\ NoLostWakeup'
      <2>1. \A q \in Procs : pc'[q] = "lock_asleep" => lock'[cur'[q]] # None
          <3>1. \A q \in Procs : pc[q] = "lock_asleep" => cur[q] \in Bufs
              BY HasBuf
          <3> QED BY <1>1, <1>3, <3>1, BioAssumption DEF IInv, NoLostWakeup
      <2>2. \A q \in Procs : pc'[q] \in {"io_asleep", "desc_asleep", "rw_done"}
              => pc'[q] = pc[q]
          BY <1>3
      <2>3. \A q \in Procs : Waits(q) => Waits(q)'
          BY <1>1, <1>3 DEF Waits
      <2> QED BY <1>1, <2>1, <2>2, <2>3, DriverStep
  <1> QED BY <1>4, <1>5, <1>6, <1>7, <1>8 DEF IInv

\* virtio_disk_rw() has returned, or bwrite() calls it.
LEMMA RwEdgeIInv ==
  ASSUME IInv, NEW p \in Procs, RwReturn(p) \/ Bwrite(p)
  PROVE  IInv'
  <1>0. /\ TypeOK /\ Typed /\ Owned /\ Filled /\ OneEach /\ RefcntExact
      BY DEF IInv
  <1>1. /\ data' = data /\ bdisk' = bdisk /\ free' = free /\ chain' = chain
        /\ op' = op /\ info' = info /\ media' = media /\ avail' = avail
        /\ inflight' = inflight /\ used' = used /\ irq' = irq /\ intr' = intr
        /\ cur' = cur /\ lock' = lock
        /\ blockno' = blockno /\ refcnt' = refcnt /\ pins' = pins
      BY DEF RwReturn, Bwrite, diskVars, driverVars, deviceVars, bioVars
  <1>2. PICK x \in {"held", "rw"} :
          /\ pc' = [pc EXCEPT ![p] = x] /\ wr' = [wr EXCEPT ![p] = (x = "rw")]
          /\ x = "held" => pc[p] = "rw_done" /\ valid' = [valid EXCEPT ![cur[p]] = TRUE]
          /\ x = "rw" => pc[p] = "held" /\ valid' = valid
      BY DEF RwReturn, Bwrite, Goto, bioVars
  <1>3. /\ pc'[p] = x /\ (wr'[p] <=> x = "rw") /\ valid'[cur[p]]
        /\ \A q \in Procs \ {p} : pc'[q] = pc[q] /\ wr'[q] = wr[q]
        /\ cur[p] \in Bufs /\ blockno[cur[p]] # None
        /\ \A b \in Bufs \ {cur[p]} : valid'[b] = valid[b]
        /\ Holds(p) /\ Holds(p)'
      <2>1. cur[p] \in Bufs /\ blockno[cur[p]] # None
          BY <1>2, HasBuf, BioAssumption
      <2> QED BY <1>0, <1>2, <2>1 DEF TypeOK, Typed, Holds, InRw, Filled
  <1>4. TypeOK'
      <2>1. bdisk' \in [Bufs -> BOOLEAN] /\ valid' \in [Bufs -> BOOLEAN]
          BY <1>0, <1>1, <1>2 DEF TypeOK
      <2> QED BY <1>0, <1>1, <2>1 DEF TypeOK
  <1>5. Typed'
      <2>1. wr' \in [Procs -> BOOLEAN]
          BY <1>0, <1>2 DEF Typed
      <2> QED BY <1>0, <1>1, <1>2, <2>1 DEF Typed, InRw
  <1>6. Owned' /\ OneEach' /\ RefcntExact'
      <2>1. \A q \in Procs : /\ Holds(q)' <=> Holds(q)
                             /\ pc'[q] \in {"idle", "panic"} <=> pc[q] \in {"idle", "panic"}
          BY <1>2, <1>3 DEF Holds
      <2>2. \A b \in Bufs : lock[b] # None => lock[b] \in Procs
          BY <1>0 DEF TypeOK
      <2> QED BY <1>0, <1>1, <2>1, <2>2 DEF Owned, OneEach, RefcntExact
  <1>7. Filled'
      <2>1. ASSUME NEW q \in Procs \ {p}, Holds(q) PROVE valid'[cur[q]] = valid[cur[q]]
          <3>1. cur[q] \in Bufs
              BY <2>1, HasBuf DEF Holds, InRw
          <3> QED BY <1>3, <2>1, <3>1, HasBuf
      <2>2. ASSUME NEW q \in Procs
            PROVE  /\ pc'[q] \in InRw => (valid'[cur[q]] <=> wr'[q])
                   /\ wr'[q] => pc'[q] \in InRw
                   /\ pc'[q] = "held" => valid'[cur[q]]
          <3>1. CASE q = p
              BY <1>2, <1>3, <3>1 DEF InRw
          <3>2. CASE q # p
              BY <1>0, <1>3, <2>1, <3>2 DEF Filled, Holds
          <3> QED BY <3>1, <3>2
      <2>3. \A b \in Bufs : valid'[b] \/ pins[b] > 0 => blockno[b] # None
          BY <1>0, <1>3 DEF Filled
      <2> QED BY <1>1, <2>2, <2>3 DEF Filled
  <1>8. Chains' /\ Rings' /\ Served' /\ Fetched' /\ NoLostWakeup'
      <2>1. \A q \in Procs : pc'[q] = "lock_asleep" => lock'[cur'[q]] # None
          BY <1>1, <1>2, <1>3 DEF IInv, NoLostWakeup
      <2>2. \A q \in Procs : pc'[q] \in {"io_asleep", "desc_asleep", "rw_done"}
              => pc'[q] = pc[q]
          BY <1>3
      <2>3. \A q \in Procs : Waits(q) => Waits(q)'
          BY <1>2, <1>3 DEF Waits
      <2>4. \A q \in Procs : Waits(q) \/ pc'[q] = "rw_done" => wr'[q] = wr[q]
          BY <1>2, <1>3 DEF Waits
      <2> QED BY <1>1, <2>1, <2>2, <2>3, <2>4, DriverStep
  <1> QED BY <1>4, <1>5, <1>6, <1>7, <1>8 DEF IInv

\* The owner changes the block: nobody else's buffer.
LEMMA ModifyIInv ==
  ASSUME IInv, NEW p \in Procs, NEW v \in Vals, Modify(p, v)
  PROVE  IInv'
  <1>0. /\ TypeOK /\ Typed /\ Owned /\ Filled /\ OneEach /\ RefcntExact
      BY DEF IInv
  <1>1. /\ pc[p] = "held" /\ data' = [data EXCEPT ![cur[p]] = v]
        /\ bdisk' = bdisk /\ free' = free /\ chain' = chain
        /\ op' = op /\ info' = info /\ media' = media /\ avail' = avail
        /\ inflight' = inflight /\ used' = used /\ irq' = irq /\ intr' = intr
        /\ pc' = pc /\ cur' = cur /\ wr' = wr /\ lock' = lock /\ valid' = valid
        /\ blockno' = blockno /\ refcnt' = refcnt /\ pins' = pins
      BY DEF Modify, diskVars, driverVars, deviceVars, bioVars
  <1>2. TypeOK'
      <2>1. bdisk' \in [Bufs -> BOOLEAN] /\ valid' \in [Bufs -> BOOLEAN]
          BY <1>0, <1>1 DEF TypeOK
      <2> QED BY <1>0, <1>1, <2>1 DEF TypeOK
  <1>3. Typed' /\ Owned' /\ Filled' /\ OneEach' /\ RefcntExact'
      <2>1. /\ pc' \in [Procs -> InRw \cup {"idle", "acquire", "lock_asleep", "held",
                                            "release", "panic"}]
            /\ op' \in [Descs -> Commands] /\ DOMAIN chain' = Descs
          BY <1>0, <1>1 DEF Typed
      <2> QED BY <1>1, <2>1, CacheStep
  <1>4. Chains' /\ Rings' /\ Served' /\ Fetched' /\ NoLostWakeup'
      <2>1. \A q \in Procs : pc'[q] = "lock_asleep" => lock'[cur'[q]] # None
          BY <1>1 DEF IInv, NoLostWakeup
      <2>2. ASSUME NEW q \in Procs, Waits(q) \/ pc'[q] = "rw_done"
            PROVE  data'[cur[q]] = data[cur[q]]
          <3>1. Holds(q) /\ Holds(p) /\ q # p
              BY <1>1, <2>2 DEF Waits, Holds, InRw
          <3>2. cur[q] \in Bufs /\ cur[q] # cur[p]
              BY <3>1, HasBuf DEF Holds, InRw
          <3> QED BY <1>0, <1>1, <3>2 DEF TypeOK
      <2>3. \A q \in Procs : Waits(q) => Waits(q)'
          BY <1>1 DEF Waits
      <2> QED BY <1>1, <2>1, <2>2, <2>3, DriverStep
  <1> QED BY <1>2, <1>3, <1>4 DEF IInv

\* bpin() and bunpin() count in refcnt.
LEMMA PinIInv ==
  ASSUME IInv, NEW p \in Procs, Bpin(p) \/ Bunpin(p)
  PROVE  IInv'
  <1>0. /\ TypeOK /\ Typed /\ Owned /\ Filled /\ OneEach /\ RefcntExact
      BY DEF IInv
  <1>1. /\ pc[p] = "held" /\ data' = data
        /\ bdisk' = bdisk /\ free' = free /\ chain' = chain
        /\ op' = op /\ info' = info /\ media' = media /\ avail' = avail
        /\ inflight' = inflight /\ used' = used /\ irq' = irq /\ intr' = intr
        /\ pc' = pc /\ cur' = cur /\ wr' = wr /\ lock' = lock /\ valid' = valid
        /\ blockno' = blockno
      BY DEF Bpin, Bunpin, diskVars, driverVars, deviceVars
  <1>2. cur[p] \in Bufs /\ blockno[cur[p]] # None
      BY <1>1, HasBuf, BioAssumption
  <1>3. /\ cur[p] \in Bufs
        /\ pins[cur[p]] \in 0 .. 1 /\ refcnt[cur[p]] \in Nat
        /\ Cardinality(Users(cur, cur[p])) \in Nat
        /\ refcnt[cur[p]] = Cardinality(Users(cur, cur[p])) + pins[cur[p]]
      <2>1. Cardinality(Users(cur, cur[p])) \in Nat
          BY Finite, FS_CardinalityType DEF Users
      <2> QED BY <1>0, <1>2, <2>1 DEF TypeOK, Typed, RefcntExact, Users
  <1>4. PICK r \in Nat, n \in 0 .. 1 :
          /\ refcnt' = [refcnt EXCEPT ![cur[p]] = r]
          /\ pins' = [pins EXCEPT ![cur[p]] = n]
          /\ r = Cardinality(Users(cur, cur[p])) + n
      <2>1. CASE Bpin(p)
          <3>1. /\ pins[cur[p]] = 0
                /\ refcnt' = [refcnt EXCEPT ![cur[p]] = refcnt[cur[p]] + 1]
                /\ pins' = [pins EXCEPT ![cur[p]] = pins[cur[p]] + 1]
              BY <2>1 DEF Bpin
          <3>2. /\ refcnt[cur[p]] + 1 \in Nat /\ pins[cur[p]] + 1 \in 0 .. 1
                /\ refcnt[cur[p]] + 1
                     = Cardinality(Users(cur, cur[p])) + (pins[cur[p]] + 1)
              BY <1>3, <3>1
          <3> QED BY <3>1, <3>2
      <2>2. CASE Bunpin(p)
          <3>1. /\ pins[cur[p]] > 0
                /\ refcnt' = [refcnt EXCEPT ![cur[p]] = refcnt[cur[p]] - 1]
                /\ pins' = [pins EXCEPT ![cur[p]] = pins[cur[p]] - 1]
              BY <2>2 DEF Bunpin
          <3>2. /\ refcnt[cur[p]] - 1 \in Nat /\ pins[cur[p]] - 1 \in 0 .. 1
                /\ refcnt[cur[p]] - 1
                     = Cardinality(Users(cur, cur[p])) + (pins[cur[p]] - 1)
              BY <1>3, <3>1
          <3> QED BY <3>1, <3>2
      <2> QED BY <2>1, <2>2
  <1>5. TypeOK'
      <2>1. bdisk' \in [Bufs -> BOOLEAN] /\ valid' \in [Bufs -> BOOLEAN]
          BY <1>0, <1>1 DEF TypeOK
      <2> QED BY <1>0, <1>1, <1>4, <2>1 DEF TypeOK
  <1>6. Typed'
      <2>1. wr' \in [Procs -> BOOLEAN]
          BY <1>0, <1>1 DEF Typed
      <2> QED BY <1>0, <1>1, <1>4, <2>1 DEF Typed
  <1>7. Owned' /\ OneEach'
      BY <1>0, <1>1 DEF Owned, Holds, OneEach
  <1>8. Filled'
      BY <1>0, <1>1, <1>2, <1>4 DEF Filled, Typed
  <1>9. RefcntExact'
      <2> SUFFICES ASSUME NEW c \in Bufs
                   PROVE  refcnt'[c] = Cardinality(Users(cur, c)) + pins'[c]
          BY <1>1 DEF RefcntExact, Users
      <2>1. refcnt[c] = Cardinality(Users(cur, c)) + pins[c]
          BY <1>0 DEF RefcntExact, Users
      <2> QED BY <1>0, <1>3, <1>4, <2>1 DEF TypeOK, Typed
  <1>10. Chains' /\ Rings' /\ Served' /\ Fetched' /\ NoLostWakeup'
      <2>1. \A q \in Procs : pc'[q] = "lock_asleep" => lock'[cur'[q]] # None
          BY <1>1 DEF IInv, NoLostWakeup
      <2>2. \A q \in Procs : Waits(q) => Waits(q)'
          BY <1>1 DEF Waits
      <2> QED BY <1>1, <2>1, <2>2, DriverStep
  <1> QED BY <1>5, <1>6, <1>7, <1>8, <1>9, <1>10 DEF IInv

\* releasesleep() wakes everybody who waits for this lock.
LEMMA ReleaseIInv ==
  ASSUME IInv, NEW p \in Procs, ReleaseSleep(p)
  PROVE  IInv'
  <1>0. /\ TypeOK /\ Typed /\ Owned /\ Filled /\ OneEach /\ RefcntExact
      BY DEF IInv
  <1>1. /\ pc[p] = "held" /\ data' = data /\ lock' = [lock EXCEPT ![cur[p]] = None]
        /\ bdisk' = bdisk /\ free' = free /\ chain' = chain
        /\ op' = op /\ info' = info /\ media' = media /\ avail' = avail
        /\ inflight' = inflight /\ used' = used /\ irq' = irq /\ intr' = intr
        /\ cur' = cur /\ wr' = wr /\ valid' = valid
        /\ blockno' = blockno /\ refcnt' = refcnt /\ pins' = pins
      BY DEF ReleaseSleep, diskVars, driverVars, deviceVars
  <1>2. pc' = [[q \in Procs |-> IF pc[q] = "lock_asleep" /\ cur[q] = cur[p]
                                THEN "acquire" ELSE pc[q]] EXCEPT ![p] = "release"]
      BY DEF ReleaseSleep, Wakeup
  <1>3. /\ pc'[p] = "release"
        /\ \A q \in Procs \ {p} : pc'[q] = IF pc[q] = "lock_asleep" /\ cur[q] = cur[p]
                                           THEN "acquire" ELSE pc[q]
      BY <1>2
  <1>4. /\ cur[p] \in Bufs /\ lock[cur[p]] = p /\ ~wr[p] /\ lock'[cur[p]] = None
        /\ \A b \in Bufs \ {cur[p]} : lock'[b] = lock[b] /\ lock[b] # p
      <2>1. cur[p] \in Bufs /\ lock[cur[p]] = p /\ ~wr[p]
          BY <1>1, HasBuf DEF Holds, InRw
      <2> QED BY <1>0, <1>1, <2>1, BioAssumption DEF TypeOK, Owned
  <1>5. TypeOK'
      <2>1. bdisk' \in [Bufs -> BOOLEAN] /\ valid' \in [Bufs -> BOOLEAN]
          BY <1>0, <1>1 DEF TypeOK
      <2> QED BY <1>0, <1>1, <2>1 DEF TypeOK
  <1>6. Typed'
      <2>1. wr' \in [Procs -> BOOLEAN]
          BY <1>0, <1>1 DEF Typed
      <2> QED BY <1>0, <1>1, <1>2, <2>1 DEF Typed
  <1>7. \A q \in Procs \ {p} :
          /\ Holds(q)' <=> Holds(q)
          /\ pc'[q] \in InRw <=> pc[q] \in InRw
          /\ pc'[q] = "held" <=> pc[q] = "held"
          /\ pc'[q] \in {"idle", "panic"} <=> pc[q] \in {"idle", "panic"}
      BY <1>3 DEF Holds, InRw
  <1>8. Owned'
      <2>1. ASSUME NEW q \in Procs
            PROVE  /\ cur[q] = None <=> pc'[q] \in {"idle", "panic"}
                   /\ Holds(q)' => lock'[cur[q]] = q
          <3>1. CASE q = p
              BY <1>0, <1>1, <1>3, <3>1 DEF Owned, Holds, InRw
          <3>2. CASE q # p
              <4>1. Holds(q) => cur[q] \in Bufs /\ cur[q] # cur[p]
                  BY <1>1, <3>2, HasBuf DEF Holds, InRw
              <4> QED BY <1>0, <1>4, <1>7, <3>2, <4>1 DEF Owned
          <3> QED BY <3>1, <3>2
      <2>2. ASSUME NEW b \in Bufs, lock'[b] # None
            PROVE  pc'[lock'[b]] \in InRw \cup {"held"} /\ cur[lock'[b]] = b
          <3>1. b # cur[p] /\ lock'[b] = lock[b] /\ lock[b] \in Procs \ {p}
              BY <1>0, <1>4, <2>2 DEF TypeOK
          <3> QED BY <1>0, <1>7, <2>2, <3>1 DEF Owned, Holds
      <2> QED BY <1>0, <1>1, <2>1, <2>2 DEF Owned, Holds
  <1>9. Filled' /\ OneEach' /\ RefcntExact'
      <2>1. Filled'
          BY <1>0, <1>1, <1>3, <1>4, <1>7 DEF Filled, InRw
      <2> QED BY <1>0, <1>1, <2>1 DEF OneEach, RefcntExact
  <1>10. Chains' /\ Rings' /\ Served' /\ Fetched' /\ NoLostWakeup'
      <2>1. ASSUME NEW q \in Procs, pc'[q] = "lock_asleep" PROVE lock'[cur'[q]] # None
          <3>1. q # p /\ pc[q] = "lock_asleep" /\ cur[q] # cur[p] /\ cur[q] \in Bufs
              BY <1>3, <2>1, HasBuf
          <3> QED BY <1>1, <1>4, <3>1 DEF IInv, NoLostWakeup
      <2>2. \A q \in Procs : pc'[q] \in {"io_asleep", "desc_asleep", "rw_done"}
              => pc'[q] = pc[q]
          BY <1>3
      <2>3. \A q \in Procs : Waits(q) => Waits(q)'
          BY <1>1, <1>3 DEF Waits
      <2> QED BY <1>1, <2>1, <2>2, <2>3, DriverStep
  <1> QED BY <1>5, <1>6, <1>8, <1>9, <1>10 DEF IInv

\* brelse() gives the reference back.
LEMMA BrelseIInv ==
  ASSUME IInv, NEW p \in Procs, Brelse(p)
  PROVE  IInv'
  <1>0. /\ TypeOK /\ Typed /\ Owned /\ Filled /\ OneEach /\ RefcntExact
      BY DEF IInv
  <1>1. /\ pc[p] = "release" /\ pc' = [pc EXCEPT ![p] = "idle"]
        /\ refcnt' = [refcnt EXCEPT ![cur[p]] = refcnt[cur[p]] - 1]
        /\ cur' = [cur EXCEPT ![p] = None]
        /\ data' = data /\ bdisk' = bdisk /\ free' = free /\ chain' = chain
        /\ op' = op /\ info' = info /\ media' = media /\ avail' = avail
        /\ inflight' = inflight /\ used' = used /\ irq' = irq /\ intr' = intr
        /\ wr' = wr /\ blockno' = blockno /\ valid' = valid /\ lock' = lock
        /\ pins' = pins
      BY DEF Brelse, Goto, diskVars, driverVars, deviceVars
  <1>2. /\ cur[p] \in Bufs /\ ~wr[p] /\ \A c \in Bufs : lock[c] # p
        /\ pc'[p] = "idle" /\ cur'[p] = None
        /\ \A q \in Procs \ {p} : pc'[q] = pc[q] /\ cur'[q] = cur[q]
      <2>1. pc[p] \notin InRw /\ ~Holds(p)
          BY <1>1 DEF InRw, Holds
      <2>2. ~wr[p] /\ \A c \in Bufs : lock[c] # p
          BY <2>1, HasBuf
      <2>3. cur[p] \in Bufs
          BY <1>1, HasBuf
      <2> QED BY <1>0, <1>1, <2>2, <2>3 DEF TypeOK, Typed
  <1>3. ASSUME NEW c \in Bufs
        PROVE  refcnt'[c] = Cardinality(Users(cur', c)) + pins[c] /\ refcnt'[c] \in Nat
      <2>1. /\ cur \in [Procs -> Bufs \cup {None}] /\ refcnt \in [Bufs -> Nat]
            /\ pins[c] \in Nat
            /\ refcnt[c] = Cardinality(Users(cur, c)) + pins[c]
          BY <1>0 DEF TypeOK, Typed, RefcntExact, Users
      <2>2. CASE c = cur[p]
          <3>1. /\ Cardinality(Users(cur', cur[p])) = Cardinality(Users(cur, cur[p])) - 1
                /\ Cardinality(Users(cur', cur[p])) \in Nat
              BY <1>2, <2>1, UserGone
          <3>2. refcnt'[c] = refcnt[c] - 1 /\ Cardinality(Users(cur, c)) \in Nat
              BY <1>1, <2>1, <2>2, Finite, FS_CardinalityType DEF Users
          <3> QED BY <2>1, <2>2, <3>1, <3>2
      <2>3. CASE c # cur[p]
          <3>1. Users(cur', c) = Users(cur, c)
              BY <1>2, <2>1, <2>3, UserGone
          <3>2. refcnt'[c] = refcnt[c]
              BY <1>1, <2>1, <2>3
          <3> QED BY <2>1, <3>1, <3>2
      <2> QED BY <2>2, <2>3
  <1>4. TypeOK'
      <2>1. bdisk' \in [Bufs -> BOOLEAN] /\ valid' \in [Bufs -> BOOLEAN]
          BY <1>0, <1>1 DEF TypeOK
      <2>2. refcnt' \in [Bufs -> Nat]
          BY <1>0, <1>1, <1>3 DEF TypeOK
      <2> QED BY <1>0, <1>1, <2>1, <2>2 DEF TypeOK
  <1>5. Typed'
      <2>1. wr' \in [Procs -> BOOLEAN]
          BY <1>0, <1>1 DEF Typed
      <2> QED BY <1>0, <1>1, <2>1 DEF Typed
  <1>6. Owned'
      <2>1. \A c \in Bufs : lock[c] # None => lock[c] \in Procs \ {p}
          BY <1>0, <1>2 DEF TypeOK
      <2> QED BY <1>0, <1>1, <1>2, <2>1, BioAssumption DEF Owned, Holds, InRw
  <1>7. Filled' /\ OneEach'
      BY <1>0, <1>1, <1>2 DEF Filled, OneEach, InRw
  <1>8. RefcntExact'
      BY <1>1, <1>3 DEF RefcntExact, Users
  <1>9. Chains' /\ Rings' /\ Served' /\ Fetched' /\ NoLostWakeup'
      <2>1. \A q \in Procs : pc'[q] = "lock_asleep" => lock'[cur'[q]] # None
          BY <1>1, <1>2 DEF IInv, NoLostWakeup
      <2>2. \A q \in Procs : Waits(q) \/ pc'[q] = "rw_done" => q # p
          BY <1>1, <1>2 DEF Waits
      <2>3. \A q \in Procs : pc'[q] \in {"io_asleep", "desc_asleep", "rw_done"}
              => pc'[q] = pc[q]
          BY <1>2
      <2>4. \A q \in Procs : Waits(q) => Waits(q)'
          BY <1>2, <2>2 DEF Waits
      <2> QED BY <1>1, <1>2, <2>1, <2>2, <2>3, <2>4, DriverStep
  <1> QED BY <1>4, <1>5, <1>6, <1>7, <1>8, <1>9 DEF IInv
-----------------------------------------------------------------------------
\* What is in a ring after an entry is put in, and after one is taken.
LEMMA RingAppend ==
  ASSUME NEW S, NEW s \in Seq(S), NEW x \in S
  PROVE  /\ Append(s, x) \in Seq(S)
         /\ \A h : InRing(Append(s, x), h) <=> InRing(s, h) \/ h = x
         /\ Distinct(s) /\ ~InRing(s, x) => Distinct(Append(s, x))
  <1>1. /\ Append(s, x) \in Seq(S) /\ Len(s) \in Nat
        /\ DOMAIN s = 1 .. Len(s) /\ DOMAIN Append(s, x) = 1 .. Len(s) + 1
        /\ \A i \in 1 .. Len(s) : Append(s, x)[i] = s[i]
        /\ Append(s, x)[Len(s) + 1] = x
      OBVIOUS
  <1>2. ASSUME NEW h PROVE InRing(Append(s, x), h) <=> InRing(s, h) \/ h = x
      <2>1. InRing(Append(s, x), h) => InRing(s, h) \/ h = x
          <3> SUFFICES ASSUME NEW j \in 1 .. Len(s) + 1, Append(s, x)[j] = h
                       PROVE  InRing(s, h) \/ h = x
              BY <1>1 DEF InRing
          <3>1. j \in 1 .. Len(s) \/ j = Len(s) + 1
              BY <1>1
          <3> QED BY <1>1, <3>1 DEF InRing
      <2>2. InRing(s, h) => InRing(Append(s, x), h)
          <3> SUFFICES ASSUME NEW j \in 1 .. Len(s), s[j] = h
                       PROVE  InRing(Append(s, x), h)
              BY <1>1 DEF InRing
          <3>1. j \in 1 .. Len(s) + 1
              BY <1>1
          <3> QED BY <1>1, <3>1 DEF InRing
      <2>3. InRing(Append(s, x), x)
          <3>1. Len(s) + 1 \in 1 .. Len(s) + 1
              BY <1>1
          <3> QED BY <1>1, <3>1 DEF InRing
      <2> QED BY <2>1, <2>2, <2>3
  <1>3. ASSUME Distinct(s), ~InRing(s, x),
               NEW i \in 1 .. Len(s) + 1, NEW j \in 1 .. Len(s) + 1,
               Append(s, x)[i] = Append(s, x)[j]
        PROVE  i = j
      <2>1. /\ i \in 1 .. Len(s) \/ i = Len(s) + 1
            /\ j \in 1 .. Len(s) \/ j = Len(s) + 1
          BY <1>1
      <2>2. \A n \in 1 .. Len(s) : s[n] # x
          BY <1>1, <1>3 DEF InRing
      <2> QED BY <1>1, <1>3, <2>1, <2>2 DEF Distinct
  <1> QED BY <1>1, <1>2, <1>3 DEF Distinct

LEMMA RingTail ==
  ASSUME NEW S, NEW s \in Seq(S), s # <<>>, Distinct(s)
  PROVE  /\ Tail(s) \in Seq(S) /\ Head(s) \in S /\ InRing(s, Head(s))
         /\ \A h : InRing(Tail(s), h) <=> InRing(s, h) /\ h # Head(s)
         /\ Distinct(Tail(s))
  <1>1. /\ Tail(s) \in Seq(S) /\ Len(s) \in Nat /\ Len(s) >= 1
        /\ DOMAIN s = 1 .. Len(s) /\ DOMAIN Tail(s) = 1 .. Len(s) - 1
        /\ \A i \in 1 .. Len(s) - 1 : Tail(s)[i] = s[i + 1]
        /\ Head(s) = s[1]
      OBVIOUS
  <1>2. 1 \in 1 .. Len(s) /\ \A i \in 1 .. Len(s) - 1 : i + 1 \in 1 .. Len(s) /\ i + 1 # 1
      BY <1>1
  <1>3. Head(s) \in S /\ InRing(s, Head(s))
      BY <1>1, <1>2 DEF InRing
  <1>4. ASSUME NEW h PROVE InRing(Tail(s), h) <=> InRing(s, h) /\ h # Head(s)
      <2>1. ASSUME NEW j \in 1 .. Len(s) - 1, Tail(s)[j] = h
            PROVE  InRing(s, h) /\ h # Head(s)
          BY <1>1, <1>2, <2>1 DEF InRing, Distinct
      <2>2. ASSUME NEW j \in 1 .. Len(s), s[j] = h, h # Head(s)
            PROVE  InRing(Tail(s), h)
          <3>1. j # 1
              BY <1>1, <2>2
          <3>2. j - 1 \in 1 .. Len(s) - 1 /\ (j - 1) + 1 = j
              BY <1>1, <3>1
          <3> QED BY <1>1, <2>2, <3>2 DEF InRing
      <2> QED BY <1>1, <2>1, <2>2 DEF InRing
  <1>5. ASSUME NEW i \in 1 .. Len(s) - 1, NEW j \in 1 .. Len(s) - 1,
               Tail(s)[i] = Tail(s)[j]
        PROVE  i = j
      <2>1. i + 1 = j + 1
          BY <1>1, <1>2, <1>5 DEF Distinct
      <2> QED BY <2>1
  <1> QED BY <1>1, <1>3, <1>4, <1>5 DEF Distinct

\* Whose request it is.
LEMMA Request ==
  ASSUME IInv, NEW h \in Requests
  PROVE  \E p \in Procs :
           /\ Waits(p) /\ Holds(p) /\ cur[p] \in Bufs /\ blockno[cur[p]] \in Blocks
           /\ info[h] = cur[p]
           /\ op[h].write = wr[p] /\ op[h].sector = blockno[cur[p]] /\ op[h].buf = cur[p]
  <1>1. PICK p \in Procs :
          /\ Waits(p) /\ cur[p] = info[h]
          /\ op[h] = [write |-> wr[p], sector |-> blockno[cur[p]], buf |-> cur[p]]
      BY DEF IInv, Served
  <1>2. Holds(p) /\ cur[p] \in Bufs /\ blockno[cur[p]] \in Blocks
      BY <1>1, HasBuf DEF Waits, Holds, InRw
  <1> QED BY <1>1, <1>2

\* virtio_disk_rw() sets up a request in three free descriptors.
LEMMA RwStartIInv ==
  ASSUME IInv, NEW p \in Procs, RwStart(p, blockno[cur[p]]), UNCHANGED bioVars
  PROVE  IInv'
  <1>0. /\ TypeOK /\ Typed /\ Owned /\ Filled /\ OneEach /\ RefcntExact
        /\ Chains /\ Rings /\ Served /\ Fetched /\ NoLostWakeup
      BY DEF IInv
  <1>1. PICK a, b, c \in free : a # b /\ a # c /\ b # c /\ Alloc3 = <<a, b, c>>
      BY <1>0, Alloc3Is DEF TypeOK, RwStart
  <1>2. /\ free' = free \ {a, b, c} /\ chain' = [chain EXCEPT ![a] = <<a, b, c>>]
        /\ op' = [op EXCEPT ![a] = [write |-> wr[p], sector |-> blockno[cur[p]],
                                    buf |-> cur[p]]]
        /\ info' = [info EXCEPT ![a] = cur[p]] /\ avail' = Append(avail, a)
      BY <1>1 DEF RwStart
  <1>3. /\ pc[p] = "rw" /\ pc' = [pc EXCEPT ![p] = "io_asleep"]
        /\ bdisk' = [bdisk EXCEPT ![cur[p]] = TRUE]
        /\ media' = media /\ data' = data /\ inflight' = inflight /\ used' = used
        /\ irq' = irq /\ intr' = intr /\ cur' = cur /\ wr' = wr
        /\ blockno' = blockno /\ valid' = valid /\ refcnt' = refcnt /\ lock' = lock
        /\ pins' = pins
      BY DEF RwStart, bioVars
  <1>4. /\ cur[p] \in Bufs /\ blockno[cur[p]] \in Blocks /\ Holds(p)
        /\ a \in Descs /\ b \in Descs /\ c \in Descs
      BY <1>0, <1>3, HasBuf DEF TypeOK, Holds, InRw
  <1>5. /\ pc'[p] = "io_asleep" /\ \A q \in Procs \ {p} : pc'[q] = pc[q]
        /\ bdisk'[cur[p]] /\ \A d \in Bufs : bdisk[d] => bdisk'[d]
        /\ chain'[a] = <<a, b, c>> /\ info'[a] = cur[p]
        /\ op'[a] = [write |-> wr[p], sector |-> blockno[cur[p]], buf |-> cur[p]]
        /\ \A h \in Descs \ {a} : /\ chain'[h] = chain[h] /\ info'[h] = info[h]
                                  /\ op'[h] = op[h]
      BY <1>0, <1>2, <1>3, <1>4 DEF TypeOK, Typed
  <1>6. a \notin Requests /\ ~Queued(a)
      <2>1. ASSUME a \in Requests PROVE Has(a, a)
          <3>1. PICK x, y \in Descs : chain[a] = <<a, x, y>>
              BY <1>0, <2>1 DEF Chains
          <3>2. chain[a][1] = a /\ 1 \in 1 .. 3
              BY <3>1
          <3> QED BY <3>2 DEF Has
      <2> QED BY <1>0, <1>4, <2>1 DEF Chains, Served
  <1>7. Requests' = Requests \cup {a} /\ <<a, b, c>> # <<>>
      <2>1. <<a, b, c>> # <<>>
          OBVIOUS
      <2> QED BY <1>4, <1>5, <2>1 DEF Requests
  <1>8. ASSUME NEW h \in Requests
        PROVE  h \in Descs \ {a} /\ info[h] # cur[p] /\ info[h] \in Bufs
      <2>1. PICK q \in Procs : Waits(q) /\ Holds(q) /\ info[h] = cur[q] /\ cur[q] \in Bufs
          BY Request
      <2>2. q # p
          BY <1>3, <2>1 DEF Waits
      <2> QED BY <1>4, <1>6, <2>1, <2>2, HasBuf DEF Requests
  <1>9. TypeOK'
      <2>1. bdisk' \in [Bufs -> BOOLEAN] /\ valid' \in [Bufs -> BOOLEAN]
          BY <1>0, <1>3 DEF TypeOK
      <2>2. avail' \in Seq(Descs)
          BY <1>0, <1>2, <1>4 DEF TypeOK
      <2>3. free' \subseteq Descs /\ info' \in [Descs -> Bufs \cup {None}]
          BY <1>0, <1>2, <1>4 DEF TypeOK
      <2> QED BY <1>0, <1>3, <2>1, <2>2, <2>3 DEF TypeOK
  <1>10. Typed' /\ Owned' /\ Filled' /\ OneEach' /\ RefcntExact'
      <2>1. pc' \in [Procs -> InRw \cup {"idle", "acquire", "lock_asleep", "held",
                                         "release", "panic"}]
          BY <1>0, <1>3 DEF Typed, InRw
      <2>2. \A q \in Procs : pc'[q] = pc[q] \/ {pc[q], pc'[q]} \subseteq InRw
          BY <1>3, <1>5 DEF InRw
      <2>3. DOMAIN chain' = Descs
          BY <1>0, <1>2 DEF Typed
      <2>4. [write |-> wr[p], sector |-> blockno[cur[p]], buf |-> cur[p]] \in Commands
          <3>1. wr[p] \in BOOLEAN
              BY <1>0 DEF Typed
          <3> QED BY <1>4, <3>1 DEF Commands
      <2>5. op' \in [Descs -> Commands]
          BY <1>0, <1>2, <2>4 DEF Typed
      <2> QED BY <1>3, <2>1, <2>2, <2>3, <2>5, CacheStep
  <1>11. Chains'
      <2>1. \A h \in Requests, d \in Descs : Has(h, d)' <=> Has(h, d)
          BY <1>5, <1>8 DEF Has
      <2>2. \A d \in Descs : Has(a, d)' <=> d \in {a, b, c}
          <3>1. /\ chain'[a][1] = a /\ chain'[a][2] = b /\ chain'[a][3] = c
                /\ 1 \in 1 .. 3 /\ 2 \in 1 .. 3 /\ 3 \in 1 .. 3
                /\ \A j \in 1 .. 3 : j \in {1, 2, 3}
              BY <1>5
          <3> QED BY <3>1 DEF Has
      <2>3. \A h \in Requests' : \E x, y \in Descs : chain'[h] = <<h, x, y>>
          <3>1. \A h \in Requests : \E x, y \in Descs : chain'[h] = <<h, x, y>>
              BY <1>0, <1>5, <1>8 DEF Chains
          <3> QED BY <1>4, <1>5, <1>7, <3>1
      <2>4. \A d \in free', h \in Requests' : ~Has(h, d)'
          <3>1. free' \subseteq Descs
              BY <1>9 DEF TypeOK
          <3> QED BY <1>0, <1>2, <1>7, <2>1, <2>2, <3>1 DEF Chains
      <2>5. \A d \in Descs \ free' : \E h \in Requests' : Has(h, d)'
          BY <1>0, <1>2, <1>7, <2>1, <2>2 DEF Chains
      <2>6. \A h, g \in Requests' : \A d \in Descs : Has(h, d)' /\ Has(g, d)' => h = g
          BY <1>0, <1>1, <1>7, <2>1, <2>2 DEF Chains
      <2> QED BY <2>3, <2>4, <2>5, <2>6 DEF Chains
  <1>12. \A h : InRing(avail, h)' <=> InRing(avail, h) \/ h = a
      <2>1. \A h : InRing(avail', h) <=> InRing(avail, h) \/ h = a
          BY <1>0, <1>2, <1>4, RingAppend DEF TypeOK
      <2> QED BY <2>1 DEF InRing
  <1>13. Rings'
      <2>1. Distinct(avail')
          BY <1>0, <1>2, <1>4, <1>6, RingAppend DEF TypeOK, Rings, Queued
      <2>2. Distinct(avail)' /\ Distinct(used)'
          BY <1>0, <1>3, <2>1 DEF Rings, Distinct
      <2>3. \A h \in Descs : InRing(used, h)' <=> InRing(used, h)
          BY <1>3 DEF InRing
      <2> QED BY <1>0, <1>3, <1>6, <1>12, <2>2, <2>3 DEF Rings, Queued
  <1>14. Served'
      <2>1. \A h \in Descs : info'[h] # None <=> h \in Requests'
          BY <1>0, <1>4, <1>5, <1>7, BioAssumption DEF Served
      <2>2. ASSUME NEW h \in Requests'
            PROVE  \E q \in Procs :
                     /\ Waits(q)' /\ cur'[q] = info'[h]
                     /\ op'[h] = [write |-> wr'[q], sector |-> blockno'[cur'[q]],
                                  buf |-> cur'[q]]
          <3>1. CASE h = a
              BY <1>3, <1>5, <3>1 DEF Waits
          <3>2. CASE h \in Requests
              <4>1. PICK q \in Procs :
                      /\ Waits(q) /\ cur[q] = info[h]
                      /\ op[h] = [write |-> wr[q], sector |-> blockno[cur[q]],
                                  buf |-> cur[q]]
                  BY <1>0, <3>2 DEF Served
              <4>2. Waits(q)'
                  BY <1>5, <4>1 DEF Waits
              <4> QED BY <1>3, <1>5, <1>8, <3>2, <4>1, <4>2
          <3> QED BY <1>7, <3>1, <3>2
      <2>3. \A h, g \in Requests' : info'[h] = info'[g] => h = g
          BY <1>0, <1>5, <1>7, <1>8 DEF Served
      <2>4. ASSUME NEW h \in Descs, Queued(h)' PROVE h \in Requests' /\ bdisk'[info'[h]]
          <3>1. h = a \/ Queued(h)
              BY <1>3, <1>12, <2>4 DEF Queued, InRing
          <3> QED BY <1>0, <1>5, <1>6, <1>7, <1>8, <3>1 DEF Served
      <2> QED BY <2>1, <2>2, <2>3, <2>4 DEF Served
  <1>15. Fetched'
      <2>1. \A h \in Requests' : ~op'[h].write /\ ~InRing(avail, h)' /\ h \notin inflight'
              => data'[op'[h].buf] = media'[op'[h].sector]
          BY <1>0, <1>3, <1>5, <1>7, <1>8, <1>12 DEF Fetched
      <2>2. \A q \in Procs : pc'[q] = "rw_done" /\ ~wr'[q]
              => data'[cur'[q]] = media'[blockno'[cur'[q]]]
          BY <1>0, <1>3, <1>5 DEF Fetched
      <2> QED BY <2>1, <2>2 DEF Fetched
  <1>16. NoLostWakeup'
      <2>1. InterruptPending'
          BY <1>0, <1>3 DEF NoLostWakeup, InterruptPending
      <2>2. ~(Cardinality(free) < 3)
          <3>1. IsFiniteSet(free)
              BY <1>0, Finite, FS_Subset DEF TypeOK
          <3>2. Cardinality(free) \in Nat
              BY <3>1, FS_CardinalityType
          <3> QED BY <3>2 DEF RwStart
      <2>3. ASSUME NEW q \in Procs
            PROVE  /\ pc'[q] = "io_asleep" => bdisk'[cur'[q]]
                   /\ pc'[q] = "desc_asleep" => Cardinality(free') < 3
                   /\ pc'[q] = "lock_asleep" => lock'[cur'[q]] # None
          <3>1. pc[q] = "io_asleep" => cur[q] \in Bufs
              BY HasBuf
          <3> QED BY <1>0, <1>3, <1>5, <2>2, <3>1 DEF NoLostWakeup
      <2> QED BY <2>1, <2>3 DEF NoLostWakeup
  <1> QED BY <1>9, <1>10, <1>11, <1>13, <1>14, <1>15, <1>16 DEF IInv

\* Too few descriptors, or woken too early: back to sleep.
LEMMA RwSleepIInv ==
  ASSUME IInv, NEW p \in Procs, RwWait(p) \/ (RwFinish(p) /\ bdisk[cur[p]]),
         UNCHANGED bioVars
  PROVE  IInv'
  <1>0. TypeOK /\ Typed
      BY DEF IInv
  <1>1. /\ data' = data /\ bdisk' = bdisk /\ free' = free /\ chain' = chain
        /\ op' = op /\ info' = info /\ media' = media /\ avail' = avail
        /\ inflight' = inflight /\ used' = used /\ irq' = irq /\ intr' = intr
        /\ cur' = cur /\ wr' = wr
        /\ blockno' = blockno /\ valid' = valid /\ refcnt' = refcnt /\ lock' = lock
        /\ pins' = pins
      BY DEF RwWait, RwFinish, driverVars, deviceVars, bioVars
  <1>2. /\ pc' \in [Procs -> InRw \cup {"idle", "acquire", "lock_asleep", "held",
                                        "release", "panic"}]
        /\ \A q \in Procs \ {p} : \/ pc'[q] = pc[q]
                                  \/ pc[q] = "desc_asleep" /\ pc'[q] = "rw"
        /\ \/ pc[p] = "rw" /\ pc'[p] = "desc_asleep" /\ Cardinality(free) < 3
           \/ pc[p] = "io" /\ pc'[p] = "io_asleep" /\ bdisk[cur[p]]
      <2>1. CASE RwWait(p)
          BY <1>0, <2>1 DEF RwWait, WakeForDescs, Wakeup, Typed, InRw
      <2>2. CASE RwFinish(p) /\ bdisk[cur[p]]
          BY <1>0, <2>2 DEF RwFinish, Typed, InRw
      <2> QED BY <2>1, <2>2
  <1>3. TypeOK'
      <2>1. bdisk' \in [Bufs -> BOOLEAN] /\ valid' \in [Bufs -> BOOLEAN]
          BY <1>0, <1>1 DEF TypeOK
      <2> QED BY <1>0, <1>1, <2>1 DEF TypeOK
  <1>4. Typed' /\ Owned' /\ Filled' /\ OneEach' /\ RefcntExact'
      <2>1. \A q \in Procs : pc'[q] = pc[q] \/ {pc[q], pc'[q]} \subseteq InRw
          BY <1>2 DEF InRw
      <2>2. op' \in [Descs -> Commands] /\ DOMAIN chain' = Descs
          BY <1>0, <1>1 DEF Typed
      <2> QED BY <1>1, <1>2, <2>1, <2>2, CacheStep
  <1>5. Chains' /\ Rings' /\ Served' /\ Fetched' /\ NoLostWakeup'
      <2>1. \A q \in Procs : pc'[q] = "lock_asleep" => lock'[cur'[q]] # None
          BY <1>1, <1>2 DEF IInv, NoLostWakeup
      <2>2. \A q \in Procs : pc'[q] \in {"io_asleep", "desc_asleep", "rw_done"} =>
              \/ pc'[q] = pc[q]
              \/ pc'[q] = "desc_asleep" /\ Cardinality(free) < 3
              \/ pc'[q] = "io_asleep" /\ Waits(q) /\ bdisk[cur[q]]
          BY <1>2 DEF Waits
      <2>3. \A q \in Procs : Waits(q) => Waits(q)'
          BY <1>2 DEF Waits
      <2> QED BY <1>1, <2>1, <2>2, <2>3, DriverStep
  <1> QED BY <1>3, <1>4, <1>5 DEF IInv

\* The request is over: its descriptors are free and those who wait for some
\* are awake.
LEMMA RwFinishIInv ==
  ASSUME IInv, NEW p \in Procs, RwFinish(p), ~bdisk[cur[p]], UNCHANGED bioVars
  PROVE  IInv'
  <1>0. /\ TypeOK /\ Typed /\ Owned /\ Filled /\ OneEach /\ RefcntExact
        /\ Chains /\ Rings /\ Served /\ Fetched /\ NoLostWakeup
      BY DEF IInv
  <1>1. PICK h \in Descs :
          /\ info[h] = cur[p] /\ info' = [info EXCEPT ![h] = None]
          /\ free' = free \cup {chain[h][j] : j \in DOMAIN chain[h]}
          /\ chain' = [chain EXCEPT ![h] = <<>>] /\ op' = [op EXCEPT ![h] = NoOp]
      BY DEF RwFinish
  <1>2. /\ pc[p] = "io" /\ pc' = [WakeForDescs EXCEPT ![p] = "rw_done"]
        /\ data' = data /\ bdisk' = bdisk /\ media' = media /\ avail' = avail
        /\ inflight' = inflight /\ used' = used /\ irq' = irq /\ intr' = intr
        /\ cur' = cur /\ wr' = wr
        /\ blockno' = blockno /\ valid' = valid /\ refcnt' = refcnt /\ lock' = lock
        /\ pins' = pins
      BY DEF RwFinish, deviceVars, bioVars
  <1>3. /\ pc' \in [Procs -> InRw \cup {"idle", "acquire", "lock_asleep", "held",
                                        "release", "panic"}]
        /\ pc'[p] = "rw_done"
        /\ \A q \in Procs \ {p} : \/ pc'[q] = pc[q] /\ pc[q] # "desc_asleep"
                                  \/ pc[q] = "desc_asleep" /\ pc'[q] = "rw"
      BY <1>0, <1>2 DEF WakeForDescs, Wakeup, Typed, InRw
  <1>4. /\ cur[p] \in Bufs /\ h \in Requests /\ ~Queued(h) /\ Waits(p) /\ Holds(p)
      <2>1. cur[p] \in Bufs /\ Waits(p) /\ Holds(p)
          BY <1>2, HasBuf DEF Waits, Holds, InRw
      <2> QED BY <1>0, <1>1, <2>1, BioAssumption DEF Served
  <1>5. op[h].write = wr[p] /\ op[h].sector = blockno[cur[p]] /\ op[h].buf = cur[p]
      <2>1. PICK q \in Procs :
              /\ Holds(q) /\ info[h] = cur[q]
              /\ op[h].write = wr[q] /\ op[h].sector = blockno[cur[q]]
              /\ op[h].buf = cur[q]
          BY <1>4, Request
      <2>2. q = p
          BY <1>1, <1>4, <2>1, HasBuf
      <2> QED BY <2>1, <2>2
  <1>6. PICK x, y \in Descs : chain[h] = <<h, x, y>>
      BY <1>0, <1>4 DEF Chains
  <1>7. free' = free \cup {h, x, y}
      <2>1. DOMAIN chain[h] = 1 .. 3 /\ chain[h][1] = h /\ chain[h][2] = x /\ chain[h][3] = y
          BY <1>6
      <2>2. 1 .. 3 = {1, 2, 3}
          OBVIOUS
      <2>3. {chain[h][j] : j \in DOMAIN chain[h]} = {h, x, y}
          BY <2>1, <2>2
      <2> QED BY <1>1, <2>3
  <1>8. /\ chain'[h] = <<>> /\ info'[h] = None
        /\ \A g \in Descs \ {h} : /\ chain'[g] = chain[g] /\ info'[g] = info[g]
                                  /\ op'[g] = op[g]
        /\ Requests' = Requests \ {h} /\ Requests \subseteq Descs
      <2>1. /\ chain'[h] = <<>> /\ info'[h] = None
            /\ \A g \in Descs \ {h} : /\ chain'[g] = chain[g] /\ info'[g] = info[g]
                                      /\ op'[g] = op[g]
          BY <1>0, <1>1 DEF TypeOK, Typed
      <2> QED BY <2>1 DEF Requests
  <1>9. TypeOK'
      <2>1. bdisk' \in [Bufs -> BOOLEAN] /\ valid' \in [Bufs -> BOOLEAN]
          BY <1>0, <1>2 DEF TypeOK
      <2>2. free' \subseteq Descs /\ info' \in [Descs -> Bufs \cup {None}]
          BY <1>0, <1>1, <1>6, <1>7 DEF TypeOK
      <2> QED BY <1>0, <1>2, <2>1, <2>2 DEF TypeOK
  <1>10. Typed' /\ Owned' /\ Filled' /\ OneEach' /\ RefcntExact'
      <2>1. \A q \in Procs : pc'[q] = pc[q] \/ {pc[q], pc'[q]} \subseteq InRw
          BY <1>2, <1>3 DEF InRw
      <2>2. op' \in [Descs -> Commands] /\ DOMAIN chain' = Descs
          <3>1. NoOp \in Commands
              BY DEF NoOp, Commands
          <3> QED BY <1>0, <1>1, <3>1 DEF Typed
      <2> QED BY <1>2, <1>3, <2>1, <2>2, CacheStep
  <1>11. Chains'
      <2>1. \A g \in Requests', d \in Descs : Has(g, d)' <=> Has(g, d)
          BY <1>8 DEF Has
      <2>2. \A d \in Descs : Has(h, d) <=> d \in {h, x, y}
          <3>1. /\ chain[h][1] = h /\ chain[h][2] = x /\ chain[h][3] = y
                /\ 1 \in 1 .. 3 /\ 2 \in 1 .. 3 /\ 3 \in 1 .. 3
                /\ \A j \in 1 .. 3 : j \in {1, 2, 3}
              BY <1>6
          <3> QED BY <3>1 DEF Has
      <2>3. \A g \in Requests' : \E u, v \in Descs : chain'[g] = <<g, u, v>>
          BY <1>0, <1>8 DEF Chains
      <2>4. \A d \in free', g \in Requests' : ~Has(g, d)'
          <3>1. free' \subseteq Descs
              BY <1>9 DEF TypeOK
          <3> QED BY <1>0, <1>4, <1>7, <1>8, <2>1, <2>2, <3>1 DEF Chains
      <2>5. \A d \in Descs \ free' : \E g \in Requests' : Has(g, d)'
          BY <1>0, <1>7, <1>8, <2>1, <2>2 DEF Chains
      <2>6. \A e, g \in Requests' : \A d \in Descs : Has(e, d)' /\ Has(g, d)' => e = g
          BY <1>0, <1>8, <2>1 DEF Chains
      <2> QED BY <2>3, <2>4, <2>5, <2>6 DEF Chains
  <1>12. Rings' /\ \A g : /\ InRing(avail, g)' <=> InRing(avail, g)
                          /\ Queued(g)' <=> Queued(g)
      BY <1>0, <1>2 DEF Rings, Distinct, InRing, Queued
  <1>13. Served'
      <2>1. \A g \in Descs : info'[g] # None <=> g \in Requests'
          BY <1>0, <1>8 DEF Served
      <2>2. ASSUME NEW g \in Requests'
            PROVE  \E q \in Procs :
                     /\ Waits(q)' /\ cur'[q] = info'[g]
                     /\ op'[g] = [write |-> wr'[q], sector |-> blockno'[cur'[q]],
                                  buf |-> cur'[q]]
          <3>1. g \in Requests /\ g # h
              BY <1>8
          <3>2. PICK q \in Procs :
                  /\ Waits(q) /\ cur[q] = info[g]
                  /\ op[g] = [write |-> wr[q], sector |-> blockno[cur[q]], buf |-> cur[q]]
              BY <1>0, <3>1 DEF Served
          <3>3. q # p
              BY <1>0, <1>1, <1>4, <3>1, <3>2 DEF Served
          <3>4. Waits(q)'
              BY <1>3, <3>2, <3>3 DEF Waits
          <3> QED BY <1>2, <1>8, <3>1, <3>2, <3>4
      <2>3. \A e, g \in Requests' : info'[e] = info'[g] => e = g
          BY <1>0, <1>8 DEF Served
      <2>4. \A g \in Descs : Queued(g)' => g \in Requests' /\ bdisk'[info'[g]]
          BY <1>0, <1>2, <1>4, <1>8, <1>12 DEF Served
      <2> QED BY <2>1, <2>2, <2>3, <2>4 DEF Served
  <1>14. Fetched'
      <2>1. \A g \in Requests' : ~op'[g].write /\ ~InRing(avail, g)' /\ g \notin inflight'
              => data'[op'[g].buf] = media'[op'[g].sector]
          BY <1>0, <1>2, <1>8, <1>12 DEF Fetched
      <2>2. ASSUME NEW q \in Procs, pc'[q] = "rw_done", ~wr'[q]
            PROVE  data'[cur'[q]] = media'[blockno'[cur'[q]]]
          <3>1. CASE q = p
              BY <1>0, <1>2, <1>4, <1>5, <2>2, <3>1 DEF Fetched, Queued
          <3>2. CASE q # p
              BY <1>0, <1>2, <1>3, <2>2, <3>2 DEF Fetched
          <3> QED BY <3>1, <3>2
      <2> QED BY <2>1, <2>2 DEF Fetched
  <1>15. NoLostWakeup'
      <2>1. InterruptPending'
          BY <1>0, <1>2 DEF NoLostWakeup, InterruptPending
      <2> QED BY <1>0, <1>2, <1>3, <2>1 DEF NoLostWakeup
  <1> QED BY <1>9, <1>10, <1>11, <1>12, <1>13, <1>14, <1>15 DEF IInv
-----------------------------------------------------------------------------
\* The device takes a request from the ring.
LEMMA DeviceTakeIInv ==
  ASSUME IInv, DeviceTake, UNCHANGED bioVars
  PROVE  IInv'
  <1>0. /\ TypeOK /\ Typed /\ Owned /\ Filled /\ OneEach /\ RefcntExact
        /\ Chains /\ Rings /\ Served /\ Fetched /\ NoLostWakeup
      BY DEF IInv
  <1>1. /\ avail # <<>> /\ avail' = Tail(avail)
        /\ inflight' = inflight \cup {Head(avail)}
        /\ data' = data /\ bdisk' = bdisk /\ free' = free /\ chain' = chain
        /\ op' = op /\ info' = info /\ media' = media
        /\ used' = used /\ irq' = irq /\ intr' = intr
        /\ pc' = pc /\ cur' = cur /\ wr' = wr
        /\ blockno' = blockno /\ valid' = valid /\ refcnt' = refcnt /\ lock' = lock
        /\ pins' = pins
      BY DEF DeviceTake, driverVars, bioVars
  <1>2. /\ Tail(avail) \in Seq(Descs) /\ Head(avail) \in Descs
        /\ InRing(avail, Head(avail)) /\ Distinct(Tail(avail))
        /\ \A h : InRing(Tail(avail), h) <=> InRing(avail, h) /\ h # Head(avail)
      BY <1>0, <1>1, RingTail DEF TypeOK, Rings
  <1>3. \A h : /\ InRing(avail, h)' <=> InRing(avail, h) /\ h # Head(avail)
               /\ InRing(used, h)' <=> InRing(used, h)
               /\ Queued(h)' <=> Queued(h)
      <2>1. \A h : /\ InRing(avail', h) <=> InRing(avail, h) /\ h # Head(avail)
                   /\ InRing(used', h) <=> InRing(used, h)
          BY <1>1, <1>2
      <2>2. \A h : /\ InRing(avail, h)' <=> InRing(avail, h) /\ h # Head(avail)
                   /\ InRing(used, h)' <=> InRing(used, h)
          BY <2>1 DEF InRing
      <2> QED BY <1>1, <1>2, <2>2 DEF Queued
  <1>4. TypeOK'
      <2>1. bdisk' \in [Bufs -> BOOLEAN] /\ valid' \in [Bufs -> BOOLEAN]
          BY <1>0, <1>1 DEF TypeOK
      <2>2. avail' \in Seq(Descs) /\ inflight' \subseteq Descs
          BY <1>0, <1>1, <1>2 DEF TypeOK
      <2> QED BY <1>0, <1>1, <2>1, <2>2 DEF TypeOK
  <1>5. Typed' /\ Owned' /\ Filled' /\ OneEach' /\ RefcntExact'
      <2>1. /\ pc' \in [Procs -> InRw \cup {"idle", "acquire", "lock_asleep", "held",
                                            "release", "panic"}]
            /\ op' \in [Descs -> Commands] /\ DOMAIN chain' = Descs
          BY <1>0, <1>1 DEF Typed
      <2> QED BY <1>1, <2>1, CacheStep
  <1>6. Requests' = Requests
      BY <1>1 DEF Requests
  <1>7. Chains'
      BY <1>0, <1>1, <1>6 DEF Chains, Has
  <1>8. Rings'
      <2>1. Distinct(avail') /\ Distinct(used')
          BY <1>0, <1>1, <1>2 DEF Rings
      <2>2. Distinct(avail)' /\ Distinct(used)'
          BY <2>1 DEF Distinct
      <2> QED BY <1>0, <1>1, <1>2, <1>3, <2>2 DEF Rings
  <1>9. Served'
      BY <1>0, <1>1, <1>3, <1>6 DEF Served, Waits
  <1>10. Fetched'
      BY <1>0, <1>1, <1>3, <1>6 DEF Fetched
  <1>11. NoLostWakeup'
      BY <1>0, <1>1 DEF NoLostWakeup, InterruptPending
  <1> QED BY <1>4, <1>5, <1>7, <1>8, <1>9, <1>10, <1>11 DEF IInv

\* The device does a request: only its own block and buffer change.
LEMMA DeviceCompleteIInv ==
  ASSUME IInv, NEW h \in Descs, DeviceComplete(h), UNCHANGED bioVars
  PROVE  IInv'
  <1>0. /\ TypeOK /\ Typed /\ Owned /\ Filled /\ OneEach /\ RefcntExact
        /\ Chains /\ Rings /\ Served /\ Fetched /\ NoLostWakeup
      BY DEF IInv
  <1>1. /\ h \in inflight /\ inflight' = inflight \ {h} /\ used' = Append(used, h)
        /\ irq' = TRUE
        /\ bdisk' = bdisk /\ free' = free /\ chain' = chain
        /\ op' = op /\ info' = info /\ avail' = avail /\ intr' = intr
        /\ pc' = pc /\ cur' = cur /\ wr' = wr
        /\ blockno' = blockno /\ valid' = valid /\ refcnt' = refcnt /\ lock' = lock
        /\ pins' = pins
      BY DEF DeviceComplete, driverVars, bioVars
  <1>2. h \in Requests
      BY <1>0, <1>1 DEF Served, Queued
  <1>3. PICK p \in Procs :
          /\ Waits(p) /\ Holds(p) /\ cur[p] \in Bufs /\ blockno[cur[p]] \in Blocks
          /\ info[h] = cur[p]
          /\ op[h].write = wr[p] /\ op[h].sector = blockno[cur[p]] /\ op[h].buf = cur[p]
      BY <1>2, Request
  <1>4. \/ /\ wr[p] /\ media' = [media EXCEPT ![blockno[cur[p]]] = data[cur[p]]]
           /\ data' = data
        \/ /\ ~wr[p] /\ data' = [data EXCEPT ![cur[p]] = media[blockno[cur[p]]]]
           /\ media' = media
      BY <1>3 DEF DeviceComplete
  <1>5. \A k : /\ InRing(used, k)' <=> InRing(used, k) \/ k = h
               /\ InRing(avail, k)' <=> InRing(avail, k)
               /\ Queued(k)' <=> Queued(k)
      <2>1. \A k : /\ InRing(used', k) <=> InRing(used, k) \/ k = h
                   /\ InRing(avail', k) <=> InRing(avail, k)
          BY <1>0, <1>1, RingAppend DEF TypeOK
      <2>2. \A k : /\ InRing(used, k)' <=> InRing(used, k) \/ k = h
                   /\ InRing(avail, k)' <=> InRing(avail, k)
          BY <2>1 DEF InRing
      <2> QED BY <1>1, <2>2 DEF Queued
  <1>6. TypeOK'
      <2>1. bdisk' \in [Bufs -> BOOLEAN] /\ valid' \in [Bufs -> BOOLEAN]
          BY <1>0, <1>1 DEF TypeOK
      <2>2. used' \in Seq(Descs) /\ inflight' \subseteq Descs
          BY <1>0, <1>1 DEF TypeOK
      <2>3. media' \in [Blocks -> Vals] /\ data' \in [Bufs -> Vals]
          BY <1>0, <1>3, <1>4 DEF TypeOK
      <2> QED BY <1>0, <1>1, <2>1, <2>2, <2>3 DEF TypeOK
  <1>7. Typed' /\ Owned' /\ Filled' /\ OneEach' /\ RefcntExact'
      <2>1. /\ pc' \in [Procs -> InRw \cup {"idle", "acquire", "lock_asleep", "held",
                                            "release", "panic"}]
            /\ op' \in [Descs -> Commands] /\ DOMAIN chain' = Descs
          BY <1>0, <1>1 DEF Typed
      <2> QED BY <1>1, <2>1, CacheStep
  <1>8. Requests' = Requests
      BY <1>1 DEF Requests
  <1>9. Chains'
      BY <1>0, <1>1, <1>8 DEF Chains, Has
  <1>10. Rings'
      <2>1. Distinct(avail') /\ Distinct(used')
          BY <1>0, <1>1, RingAppend DEF Rings, TypeOK
      <2>2. Distinct(avail)' /\ Distinct(used)'
          BY <2>1 DEF Distinct
      <2> QED BY <1>0, <1>1, <1>5, <2>2 DEF Rings
  <1>11. Served'
      BY <1>0, <1>1, <1>5, <1>8 DEF Served, Waits
  <1>12. \A b \in Bufs : b # cur[p] /\ blockno[b] \in Blocks =>
           data'[b] = data[b] /\ media'[blockno[b]] = media[blockno[b]]
      <2>1. \A b \in Bufs : b # cur[p] /\ blockno[b] \in Blocks => blockno[b] # blockno[cur[p]]
          BY <1>0, <1>3, BioAssumption DEF OneEach
      <2> QED BY <1>0, <1>3, <1>4, <2>1 DEF TypeOK
  <1>13. Fetched'
      <2>1. ASSUME NEW g \in Requests, ~op[g].write, ~InRing(avail, g), g \notin inflight'
            PROVE  data'[op[g].buf] = media'[op[g].sector]
          <3>1. CASE g = h
              BY <1>0, <1>3, <1>4, <2>1, <3>1 DEF TypeOK
          <3>2. CASE g # h
              <4>1. PICK q \in Procs :
                      /\ cur[q] \in Bufs /\ blockno[cur[q]] \in Blocks /\ info[g] = cur[q]
                      /\ op[g].sector = blockno[cur[q]] /\ op[g].buf = cur[q]
                  BY Request
              <4>2. cur[q] # cur[p]
                  BY <1>0, <1>2, <1>3, <3>2, <4>1 DEF Served
              <4>3. data[op[g].buf] = media[op[g].sector]
                  BY <1>0, <1>1, <2>1, <3>2 DEF Fetched
              <4> QED BY <1>12, <4>1, <4>2, <4>3
          <3> QED BY <3>1, <3>2
      <2>2. ASSUME NEW q \in Procs, pc[q] = "rw_done", ~wr[q]
            PROVE  data'[cur[q]] = media'[blockno[cur[q]]]
          <3>1. Holds(q) /\ q # p /\ cur[q] \in Bufs /\ blockno[cur[q]] \in Blocks
              BY <1>3, <2>2, HasBuf DEF Waits, Holds, InRw
          <3>2. cur[q] # cur[p]
              BY <1>3, <3>1, HasBuf
          <3> QED BY <1>0, <1>12, <2>2, <3>1, <3>2 DEF Fetched
      <2> QED BY <1>1, <1>5, <1>8, <2>1, <2>2 DEF Fetched
  <1>14. NoLostWakeup'
      BY <1>0, <1>1 DEF NoLostWakeup, InterruptPending
  <1> QED BY <1>6, <1>7, <1>9, <1>10, <1>11, <1>13, <1>14 DEF IInv

\* virtio_disk_intr() acknowledges, and returns when the ring is empty.
LEMMA IntrIInv ==
  ASSUME IInv, IntrAck \/ IntrDone, UNCHANGED bioVars
  PROVE  IInv'
  <1>0. TypeOK /\ Typed
      BY DEF IInv
  <1>1. /\ data' = data /\ bdisk' = bdisk /\ free' = free /\ chain' = chain
        /\ op' = op /\ info' = info /\ media' = media /\ avail' = avail
        /\ inflight' = inflight /\ used' = used /\ pc' = pc /\ cur' = cur /\ wr' = wr
        /\ blockno' = blockno /\ valid' = valid /\ refcnt' = refcnt /\ lock' = lock
        /\ pins' = pins
      BY DEF IntrAck, IntrDone, driverVars, bioVars
  <1>2. InterruptPending'
      <2>1. intr' = TRUE \/ used' = <<>>
          BY DEF IntrAck, IntrDone
      <2> QED BY <2>1 DEF InterruptPending
  <1>3. TypeOK'
      <2>1. bdisk' \in [Bufs -> BOOLEAN] /\ valid' \in [Bufs -> BOOLEAN]
          BY <1>0, <1>1 DEF TypeOK
      <2> QED BY <1>0, <1>1, <2>1 DEF TypeOK
  <1>4. Typed' /\ Owned' /\ Filled' /\ OneEach' /\ RefcntExact'
      <2>1. /\ pc' \in [Procs -> InRw \cup {"idle", "acquire", "lock_asleep", "held",
                                            "release", "panic"}]
            /\ op' \in [Descs -> Commands] /\ DOMAIN chain' = Descs
          BY <1>0, <1>1 DEF Typed
      <2> QED BY <1>1, <2>1, CacheStep
  <1>5. Chains' /\ Rings' /\ Served' /\ Fetched' /\ NoLostWakeup'
      <2>1. \A q \in Procs : pc'[q] = "lock_asleep" => lock'[cur'[q]] # None
          BY <1>1 DEF IInv, NoLostWakeup
      <2>2. \A q \in Procs : Waits(q) => Waits(q)'
          BY <1>1 DEF Waits
      <2> QED BY <1>1, <1>2, <2>1, <2>2, DriverStep
  <1> QED BY <1>3, <1>4, <1>5 DEF IInv

\* It gives the buffer of one finished request back and wakes who waits for it.
LEMMA IntrEntryIInv ==
  ASSUME IInv, IntrEntry, UNCHANGED bioVars
  PROVE  IInv'
  <1> DEFINE h == Head(used)
             b == info[h]
  <1>0. /\ TypeOK /\ Typed /\ Owned /\ Filled /\ OneEach /\ RefcntExact
        /\ Chains /\ Rings /\ Served /\ Fetched /\ NoLostWakeup
      BY DEF IInv
  <1>1. /\ intr /\ used # <<>> /\ used' = Tail(used)
        /\ bdisk' = [bdisk EXCEPT ![b] = FALSE] /\ pc' = WakeForBuf(b)
        /\ data' = data /\ free' = free /\ chain' = chain
        /\ op' = op /\ info' = info /\ media' = media /\ avail' = avail
        /\ inflight' = inflight /\ irq' = irq /\ intr' = intr
        /\ cur' = cur /\ wr' = wr
        /\ blockno' = blockno /\ valid' = valid /\ refcnt' = refcnt /\ lock' = lock
        /\ pins' = pins
      BY DEF IntrEntry, driverVars, bioVars
  <1>2. /\ Tail(used) \in Seq(Descs) /\ h \in Descs
        /\ InRing(used, h) /\ Distinct(Tail(used))
        /\ \A g : InRing(Tail(used), g) <=> InRing(used, g) /\ g # h
      BY <1>0, <1>1, RingTail DEF TypeOK, Rings
  <1>3. h \in Requests /\ b \in Bufs
      <2>1. h \in Requests
          BY <1>0, <1>2 DEF Served, Queued
      <2> QED BY <1>0, <1>2, <2>1 DEF Served, TypeOK
  <1> HIDE DEF h, b
  <1>4. \A g : /\ InRing(avail, g)' <=> InRing(avail, g)
               /\ InRing(used, g)' <=> InRing(used, g) /\ g # h
      <2>1. \A g : /\ InRing(avail', g) <=> InRing(avail, g)
                   /\ InRing(used', g) <=> InRing(used, g) /\ g # h
          BY <1>1, <1>2
      <2> QED BY <2>1 DEF InRing
  <1>5. \A g \in Descs : Queued(g)' => Queued(g) /\ g # h
      <2>1. ~InRing(avail, h) /\ h \notin inflight
          BY <1>0, <1>2 DEF Rings
      <2> QED BY <1>1, <1>4, <2>1 DEF Queued
  <1>6. /\ pc' \in [Procs -> InRw \cup {"idle", "acquire", "lock_asleep", "held",
                                        "release", "panic"}]
        /\ \A q \in Procs : \/ pc'[q] = pc[q] /\ ~(pc[q] = "io_asleep" /\ cur[q] = b)
                            \/ pc[q] = "io_asleep" /\ pc'[q] = "io"
      BY <1>0, <1>1 DEF WakeForBuf, Wakeup, Typed, InRw
  <1>7. TypeOK'
      <2>1. bdisk' \in [Bufs -> BOOLEAN]
          BY <1>0, <1>1 DEF TypeOK
      <2>2. valid' \in [Bufs -> BOOLEAN] /\ used' \in Seq(Descs)
          BY <1>0, <1>1, <1>2 DEF TypeOK
      <2> QED BY <1>0, <1>1, <2>1, <2>2 DEF TypeOK
  <1>8. Typed' /\ Owned' /\ Filled' /\ OneEach' /\ RefcntExact'
      <2>1. \A q \in Procs : pc'[q] = pc[q] \/ {pc[q], pc'[q]} \subseteq InRw
          BY <1>6 DEF InRw
      <2>2. op' \in [Descs -> Commands] /\ DOMAIN chain' = Descs
          BY <1>0, <1>1 DEF Typed
      <2> QED BY <1>1, <1>6, <2>1, <2>2, CacheStep
  <1>9. Requests' = Requests
      BY <1>1 DEF Requests
  <1>10. Chains'
      BY <1>0, <1>1, <1>9 DEF Chains, Has
  <1>11. Rings'
      <2>1. Distinct(avail') /\ Distinct(used')
          BY <1>0, <1>1, <1>2 DEF Rings
      <2>2. Distinct(avail)' /\ Distinct(used)'
          BY <2>1 DEF Distinct
      <2> QED BY <1>0, <1>1, <1>4, <2>2 DEF Rings
  <1>12. \A q \in Procs : Waits(q) => Waits(q)'
      BY <1>6 DEF Waits
  <1>13. Served'
      <2>1. \A g \in Descs : info'[g] # None <=> g \in Requests'
          BY <1>0, <1>1, <1>9 DEF Served
      <2>2. \A g \in Requests' : \E q \in Procs :
              /\ Waits(q)' /\ cur'[q] = info'[g]
              /\ op'[g] = [write |-> wr'[q], sector |-> blockno'[cur'[q]],
                           buf |-> cur'[q]]
          BY <1>0, <1>1, <1>9, <1>12 DEF Served
      <2>3. \A f, g \in Requests' : info'[f] = info'[g] => f = g
          BY <1>0, <1>1, <1>9 DEF Served
      <2>4. ASSUME NEW g \in Descs, Queued(g)' PROVE g \in Requests /\ bdisk'[info[g]]
          <3>1. Queued(g) /\ g # h /\ g \in Requests /\ bdisk[info[g]]
              BY <1>0, <1>5, <2>4 DEF Served
          <3>2. info[g] # b
              BY <1>0, <1>3, <3>1 DEF Served, b
          <3>3. info[g] \in Bufs
              BY <1>0, <3>1 DEF Served, TypeOK
          <3> QED BY <1>0, <1>1, <3>1, <3>2, <3>3 DEF TypeOK
      <2> QED BY <1>1, <1>9, <2>1, <2>2, <2>3, <2>4 DEF Served
  <1>14. Fetched'
      BY <1>0, <1>1, <1>4, <1>6, <1>9 DEF Fetched
  <1>15. NoLostWakeup'
      <2>1. InterruptPending'
          BY <1>1 DEF InterruptPending
      <2>2. ASSUME NEW q \in Procs, pc'[q] = "io_asleep" PROVE bdisk'[cur'[q]]
          <3>1. pc[q] = "io_asleep" /\ cur[q] # b
              BY <1>6, <2>2
          <3>2. cur[q] \in Bufs
              BY <3>1, HasBuf
          <3> QED BY <1>0, <1>1, <3>1, <3>2 DEF NoLostWakeup, TypeOK
      <2>3. \A q \in Procs : /\ pc'[q] = "desc_asleep" => Cardinality(free') < 3
                             /\ pc'[q] = "lock_asleep" => lock'[cur'[q]] # None
          BY <1>0, <1>1, <1>6 DEF NoLostWakeup
      <2> QED BY <2>1, <2>2, <2>3 DEF NoLostWakeup
  <1> QED BY <1>7, <1>8, <1>10, <1>11, <1>13, <1>14, <1>15 DEF IInv
-----------------------------------------------------------------------------
LEMMA NextIInv ==
  ASSUME IInv, Next
  PROVE  IInv'
  <1>1. ASSUME NEW p \in Procs, NEW k \in Blocks,
               BgetHit(p, k) \/ BgetMiss(p, k) \/ BgetPanic(p, k)
        PROVE  IInv'
      BY <1>1, BgetHitIInv, BgetMissIInv, SleepIInv
  <1>2. ASSUME NEW p \in Procs, AcquireSleep(p)
        PROVE  IInv'
      BY <1>2, AcquireIInv, SleepIInv
  <1>3. ASSUME NEW p \in Procs,
               \/ RwReturn(p) \/ Bwrite(p) \/ Bpin(p) \/ Bunpin(p)
               \/ \E v \in Vals : Modify(p, v)
        PROVE  IInv'
      BY <1>3, RwEdgeIInv, PinIInv, ModifyIInv
  <1>4. ASSUME NEW p \in Procs, ReleaseSleep(p) \/ Brelse(p) \/ KillWakes(p)
        PROVE  IInv'
      BY <1>4, ReleaseIInv, BrelseIInv, SleepIInv
  <1>5. ASSUME NEW p \in Procs, UNCHANGED bioVars,
               \/ RwWait(p) \/ RwFinish(p)
               \/ pc[p] = "rw" /\ RwStart(p, blockno[cur[p]])
        PROVE  IInv'
      BY <1>5, RwSleepIInv, RwFinishIInv, RwStartIInv
  <1>6. ASSUME UNCHANGED bioVars,
               \/ DeviceTake \/ (\E h \in Descs : DeviceComplete(h))
               \/ IntrAck \/ IntrEntry \/ IntrDone
        PROVE  IInv'
      BY <1>6, DeviceTakeIInv, DeviceCompleteIInv, IntrIInv, IntrEntryIInv
  <1> QED BY <1>1, <1>2, <1>3, <1>4, <1>5, <1>6 DEF Next

LEMMA Invariance == Spec => []IInv
  <1>1. Init => IInv
      BY InitIInv
  <1>2. IInv /\ [Next]_vars => IInv'
      <2>1. CASE Next
          BY <2>1, NextIInv
      <2>2. CASE UNCHANGED vars
          <3>1. /\ media' = media /\ data' = data /\ bdisk' = bdisk /\ free' = free
                /\ chain' = chain /\ op' = op /\ info' = info /\ avail' = avail
                /\ inflight' = inflight /\ used' = used /\ irq' = irq /\ intr' = intr
                /\ pc' = pc /\ cur' = cur /\ wr' = wr /\ blockno' = blockno
                /\ valid' = valid /\ refcnt' = refcnt /\ lock' = lock /\ pins' = pins
              BY <2>2 DEF vars, driverVars, bioVars
          <3> QED BY <3>1 DEF IInv, TypeOK, Typed, Owned, Holds, Filled, OneEach,
                     RefcntExact, Chains, Has, Requests, Rings, Distinct, InRing, Served,
                     Waits, Queued, Fetched, NoLostWakeup, InterruptPending
      <2> QED BY <2>1, <2>2
  <1> QED BY <1>1, <1>2, PTL DEF Spec
-----------------------------------------------------------------------------
\* Two rings without a common entry have no more entries than there are.
LEMMA RingsFit ==
  ASSUME NEW s \in Seq(Descs), NEW t \in Seq(Descs), Distinct(s), Distinct(t),
         \A h \in Descs : ~(InRing(s, h) /\ InRing(t, h))
  PROVE  Len(s) + Len(t) <= NUM
  <1> DEFINE n == Len(s) + Len(t)
             f == [i \in 1 .. n |-> IF i <= Len(s) THEN s[i] ELSE t[i - Len(s)]]
  <1>1. Len(s) \in Nat /\ Len(t) \in Nat /\ NUM \in Nat
      BY BioAssumption
  <1>2. \A i \in 1 .. n : \/ i <= Len(s) /\ i \in DOMAIN s /\ f[i] = s[i]
                          \/ /\ ~(i <= Len(s)) /\ i - Len(s) \in DOMAIN t
                             /\ f[i] = t[i - Len(s)]
      BY <1>1
  <1>3. f \in [1 .. n -> Descs]
      <2>1. ASSUME NEW i \in 1 .. n PROVE f[i] \in Descs
          BY <1>2
      <2> QED BY <2>1
  <1> HIDE DEF f
  <1>4. ASSUME NEW i \in 1 .. n, NEW j \in 1 .. n, f[i] = f[j] PROVE i = j
      <2>1. CASE i <= Len(s) /\ j <= Len(s)
          BY <1>2, <1>4, <2>1 DEF Distinct
      <2>2. CASE ~(i <= Len(s)) /\ ~(j <= Len(s))
          <3>1. i - Len(s) = j - Len(s)
              BY <1>2, <1>4, <2>2 DEF Distinct
          <3> QED BY <1>1, <3>1
      <2>3. CASE i <= Len(s) /\ ~(j <= Len(s))
          BY <1>2, <1>3, <1>4, <2>3 DEF InRing
      <2>4. CASE ~(i <= Len(s)) /\ j <= Len(s)
          BY <1>2, <1>3, <1>4, <2>4 DEF InRing
      <2> QED BY <2>1, <2>2, <2>3, <2>4
  <1>5. n \in Nat /\ IsFiniteSet(1 .. n) /\ Cardinality(1 .. n) = n
      <2>1. n \in Nat
          BY <1>1
      <2> HIDE DEF n
      <2>2. IsFiniteSet(1 .. n) /\ Cardinality(1 .. n) = IF 1 > n THEN 0 ELSE n - 1 + 1
          BY <2>1, FS_Interval
      <2> QED BY <2>1, <2>2
  <1> HIDE DEF n
  <1>6. ~(NUM < n)
      BY <1>3, <1>4, <1>5, Finite, FS_PigeonHole
  <1>7. n <= NUM
      BY <1>1, <1>5, <1>6
  <1> QED BY <1>7 DEF n

\* What the inductive invariant says of the two pools.
LEMMA Pools ==
  ASSUME IInv
  PROVE  PoolsExact
  <1>0. TypeOK /\ OneEach /\ RefcntExact /\ Chains /\ Rings /\ Served
      BY DEF IInv
  <1>1. ASSUME NEW k \in Blocks PROVE Cardinality(Cached(k)) <= 1
      <2>1. CASE Cached(k) = {}
          BY <2>1, FS_EmptySet
      <2>2. CASE Cached(k) # {}
          <3>1. PICK b \in Bufs : blockno[b] = k
              BY <2>2 DEF Cached
          <3>2. Cached(k) = {b}
              BY <1>0, <3>1, BioAssumption DEF Cached, OneEach
          <3>3. Cardinality(Cached(k)) = 1
              BY <3>2, FS_Singleton
          <3> QED BY <3>3
      <2> QED BY <2>1, <2>2
  <1>2. CacheExact
      BY <1>0, <1>1 DEF CacheExact, OneBufferPerBlock
  <1>3. Len(avail) + Len(used) <= NUM
      BY <1>0, RingsFit DEF TypeOK, Rings
  <1>4. ASSUME NEW d \in Descs
        PROVE  Cardinality({h \in Requests : \E j \in 1 .. 3 : chain[h][j] = d})
                 = IF d \in free THEN 0 ELSE 1
      <2> DEFINE S == {h \in Requests : \E j \in 1 .. 3 : chain[h][j] = d}
      <2>1. CASE d \in free
          <3>1. S = {}
              BY <1>0, <2>1 DEF Chains, Has
          <3> QED BY <2>1, <3>1, FS_EmptySet
      <2>2. CASE d \notin free
          <3>1. PICK h \in Requests : Has(h, d)
              BY <1>0, <2>2 DEF Chains
          <3>2. S = {h}
              BY <1>0, <3>1 DEF Chains, Has
          <3> QED BY <2>2, <3>2, FS_Singleton
      <2> QED BY <2>1, <2>2
  <1>5. ASSUME NEW h \in Descs, Queued(h)
        PROVE  /\ h \in Requests
               /\ \E p \in Procs : /\ pc[p] \in {"io_asleep", "io"}
                                   /\ cur[p] = op[h].buf /\ info[h] = cur[p]
                                   /\ bdisk[cur[p]]
      <2>1. h \in Requests /\ bdisk[info[h]]
          BY <1>0, <1>5 DEF Served
      <2>2. PICK p \in Procs : Waits(p) /\ info[h] = cur[p] /\ op[h].buf = cur[p]
          BY <2>1, Request
      <2> QED BY <2>1, <2>2 DEF Waits
  <1>6. DescriptorsExact
      BY <1>3, <1>4, <1>5 DEF DescriptorsExact, Queued, InRing
  <1> QED BY <1>2, <1>6 DEF PoolsExact

\* Every buffer and every descriptor of the disk driver is accounted for: bget()
\* and brelse() count references exactly and keep one buffer per block, and a
\* descriptor is free or in the chain of one request whose process still waits.
THEOREM PoolsAlwaysExact == Spec => []PoolsExact
  <1>1. IInv => PoolsExact
      BY Pools
  <1> QED BY <1>1, Invariance, PTL

\* acquiresleep(), alloc3_desc() and virtio_disk_rw() never sleep for a lock, for
\* descriptors or for a transfer that is there already, and a completion that the
\* interrupt handler has not seen is announced.
THEOREM DiskWaitersWoken == Spec => []NoLostWakeup
  <1>1. IInv => NoLostWakeup
      BY DEF IInv
  <1> QED BY <1>1, Invariance, PTL
-----------------------------------------------------------------------------
\* The refinement of BlockCache: what the mapping makes of a state.
PinnedBlocks == {blockno[b] : b \in {c \in Bufs : pins[c] > 0}}
Viewed ==
  /\ Content = [k \in Blocks |-> Content[k]] /\ Owner = [k \in Blocks |-> Owner[k]]
  /\ \A k \in Blocks : (\A b \in Bufs : blockno[b] # k) =>
       Content[k] = media[k] /\ Owner[k] = None
  /\ \A b \in Bufs : blockno[b] \in Blocks =>
       /\ Owner[blockno[b]] = lock[b]
       /\ valid[b] => Content[blockno[b]] = data[b]
       /\ ~valid[b] => Content[blockno[b]] = media[blockno[b]]

LEMMA View ==
  ASSUME OneEach
  PROVE  Viewed
  <1>1. Content = [k \in Blocks |-> Content[k]] /\ Owner = [k \in Blocks |-> Owner[k]]
      BY DEF Content, Owner
  <1>2. ASSUME NEW k \in Blocks, \A b \in Bufs : blockno[b] # k
        PROVE  Content[k] = media[k] /\ Owner[k] = None
      <2>1. Cached(k) = {}
          BY <1>2 DEF Cached
      <2> QED BY <2>1 DEF Content, Owner
  <1>3. ASSUME NEW b \in Bufs, blockno[b] \in Blocks
        PROVE  /\ Owner[blockno[b]] = lock[b]
               /\ valid[b] => Content[blockno[b]] = data[b]
               /\ ~valid[b] => Content[blockno[b]] = media[blockno[b]]
      <2>1. Cached(blockno[b]) = {b}
          BY <1>3, BioAssumption DEF Cached, OneEach
      <2>2. Owner[blockno[b]] = lock[b]
          BY <1>3, <2>1 DEF Owner
      <2>3. valid[b] => Content[blockno[b]] = data[b]
          <3>1. ASSUME valid[b] PROVE (CHOOSE c \in Cached(blockno[b]) : valid[c]) = b
              BY <2>1, <3>1
          <3> QED BY <1>3, <2>1, <3>1 DEF Content
      <2>4. ~valid[b] => Content[blockno[b]] = media[blockno[b]]
          BY <1>3, <2>1 DEF Content
      <2> QED BY <2>2, <2>3, <2>4
  <1> QED BY <1>1, <1>2, <1>3 DEF Viewed

\* A lock changes hands.
LEMMA OwnerStep ==
  ASSUME OneEach, Viewed, Viewed', blockno' = blockno, NEW b \in Bufs,
         blockno[b] \in Blocks, \A c \in Bufs \ {b} : lock'[c] = lock[c]
  PROVE  Owner' = [Owner EXCEPT ![blockno[b]] = lock'[b]]
  <1>1. Owner'[blockno[b]] = lock'[b]
      BY DEF Viewed
  <1>2. ASSUME NEW k \in Blocks, k # blockno[b] PROVE Owner'[k] = Owner[k]
      <2>1. CASE \A c \in Bufs : blockno[c] # k
          BY <2>1 DEF Viewed
      <2>2. CASE \E c \in Bufs : blockno[c] = k
          BY <1>2, <2>2 DEF Viewed
      <2> QED BY <2>1, <2>2
  <1>3. Owner = [k \in Blocks |-> Owner[k]] /\ Owner' = [k \in Blocks |-> Owner'[k]]
      BY DEF Viewed
  <1> QED BY <1>1, <1>2, <1>3

\* A buffer is changed, read or written.
LEMMA ContentStep ==
  ASSUME OneEach, Viewed, Viewed', blockno' = blockno, NEW b \in Bufs,
         blockno[b] \in Blocks,
         \A c \in Bufs \ {b} : data'[c] = data[c] /\ valid'[c] = valid[c],
         \A k \in Blocks \ {blockno[b]} : media'[k] = media[k]
  PROVE  Content' = [Content EXCEPT ![blockno[b]] =
                       IF valid'[b] THEN data'[b] ELSE media'[blockno[b]]]
  <1>1. Content'[blockno[b]] = IF valid'[b] THEN data'[b] ELSE media'[blockno[b]]
      BY DEF Viewed
  <1>2. ASSUME NEW k \in Blocks, k # blockno[b] PROVE Content'[k] = Content[k]
      <2>1. CASE \A c \in Bufs : blockno[c] # k
          BY <1>2, <2>1 DEF Viewed
      <2>2. CASE \E c \in Bufs : blockno[c] = k
          BY <1>2, <2>2 DEF Viewed
      <2> QED BY <2>1, <2>2
  <1>3. Content = [k \in Blocks |-> Content[k]] /\ Content' = [k \in Blocks |-> Content'[k]]
      BY DEF Viewed
  <1> QED BY <1>1, <1>2, <1>3

\* acquiresleep() takes a lock, and releasesleep() gives it back.
LEMMA LockRefines ==
  ASSUME IInv, OneEach, Viewed, Viewed', NEW p \in Procs,
         ReleaseSleep(p) \/ (AcquireSleep(p) /\ lock[cur[p]] = None)
  PROVE  Cache!Next
  <1>1. /\ media' = media /\ data' = data /\ blockno' = blockno /\ valid' = valid
        /\ pins' = pins
      BY DEF ReleaseSleep, AcquireSleep, diskVars, deviceVars
  <1>2. cur[p] \in Bufs /\ blockno[cur[p]] \in Blocks
      BY HasBuf DEF ReleaseSleep, AcquireSleep
  <1>3. Content' = Content /\ PinnedBlocks' = PinnedBlocks
      BY <1>1 DEF Content, Cached, PinnedBlocks
  <1>4. CASE AcquireSleep(p) /\ lock[cur[p]] = None
      <2>1. lock'[cur[p]] = p /\ \A c \in Bufs \ {cur[p]} : lock'[c] = lock[c]
          BY <1>2, <1>4 DEF AcquireSleep, IInv, TypeOK
      <2>2. Owner' = [Owner EXCEPT ![blockno[cur[p]]] = p]
          BY <1>1, <1>2, <2>1, OwnerStep
      <2>3. Owner[blockno[cur[p]]] = None
          BY <1>2, <1>4 DEF Viewed
      <2>4. Cache!Acquire(p, blockno[cur[p]])
          BY <1>1, <1>3, <2>2, <2>3 DEF Cache!Acquire, PinnedBlocks
      <2> QED BY <1>2, <2>4 DEF Cache!Next
  <1>5. CASE ReleaseSleep(p)
      <2>1. lock'[cur[p]] = None /\ \A c \in Bufs \ {cur[p]} : lock'[c] = lock[c]
          BY <1>2, <1>5 DEF ReleaseSleep, IInv, TypeOK
      <2>2. Owner' = [Owner EXCEPT ![blockno[cur[p]]] = None]
          BY <1>1, <1>2, <2>1, OwnerStep
      <2>3. Owner[blockno[cur[p]]] = p
          <3>1. Holds(p)
              BY <1>5 DEF ReleaseSleep, Holds
          <3> QED BY <1>2, <3>1, HasBuf DEF Viewed
      <2>4. Cache!Release(p, blockno[cur[p]])
          BY <1>1, <1>3, <2>2, <2>3 DEF Cache!Release, PinnedBlocks
      <2> QED BY <1>2, <2>4 DEF Cache!Next
  <1> QED BY <1>4, <1>5

\* The owner changes the block, or pins it.
LEMMA HeldRefines ==
  ASSUME IInv, OneEach, Viewed, Viewed', NEW p \in Procs,
         (\E v \in Vals : Modify(p, v)) \/ Bpin(p) \/ Bunpin(p)
  PROVE  Cache!Next
  <1>1. media' = media /\ blockno' = blockno /\ valid' = valid /\ lock' = lock
      BY DEF Modify, Bpin, Bunpin, diskVars, deviceVars, bioVars
  <1>2. Holds(p) /\ cur[p] \in Bufs /\ blockno[cur[p]] \in Blocks /\ valid[cur[p]]
      <2>1. pc[p] = "held"
          BY DEF Modify, Bpin, Bunpin
      <2> QED BY <2>1, HasBuf DEF Holds, IInv, Filled
  <1>3. Owner' = Owner /\ Owner[blockno[cur[p]]] = p
      <2>1. Owner' = Owner
          BY <1>1 DEF Owner, Cached
      <2> QED BY <1>2, <2>1, HasBuf DEF Viewed
  <1>4. CASE \E v \in Vals : Modify(p, v)
      <2>1. PICK v \in Vals : Modify(p, v)
          BY <1>4
      <2>2. pins' = pins /\ data'[cur[p]] = v /\ \A c \in Bufs \ {cur[p]} : data'[c] = data[c]
          BY <1>2, <2>1 DEF Modify, bioVars, IInv, TypeOK
      <2>3. Content' = [Content EXCEPT ![blockno[cur[p]]] = v]
          BY <1>1, <1>2, <2>2, ContentStep
      <2>4. PinnedBlocks' = PinnedBlocks
          BY <1>1, <2>2 DEF PinnedBlocks
      <2>5. Cache!Modify(p, blockno[cur[p]], v)
          BY <1>1, <1>3, <2>3, <2>4 DEF Cache!Modify, PinnedBlocks
      <2> QED BY <1>2, <2>5 DEF Cache!Next
  <1>5. CASE Bpin(p) \/ Bunpin(p)
      <2>1. data' = data
          BY <1>5 DEF Bpin, Bunpin
      <2>2. Content' = Content
          BY <1>1, <2>1 DEF Content, Cached
      <2>3. /\ \A c \in Bufs \ {cur[p]} : pins'[c] = pins[c]
            /\ \/ pins'[cur[p]] > 0
               \/ ~(pins'[cur[p]] > 0)
          BY <1>2, <1>5 DEF Bpin, Bunpin, IInv, Typed
      <2>4. \A c \in Bufs : blockno[c] = blockno[cur[p]] => c = cur[p]
          BY <1>2, BioAssumption DEF OneEach
      <2>5. PinnedBlocks' \in {PinnedBlocks \cup {blockno[cur[p]]},
                               PinnedBlocks \ {blockno[cur[p]]}}
          <3>1. CASE pins'[cur[p]] > 0
              <4>1. PinnedBlocks' = PinnedBlocks \cup {blockno[cur[p]]}
                  BY <1>1, <1>2, <2>3, <2>4, <3>1 DEF PinnedBlocks
              <4> QED BY <4>1
          <3>2. CASE ~(pins'[cur[p]] > 0)
              <4>1. PinnedBlocks' = PinnedBlocks \ {blockno[cur[p]]}
                  BY <1>1, <1>2, <2>3, <2>4, <3>2 DEF PinnedBlocks
              <4> QED BY <4>1
          <3> QED BY <3>1, <3>2
      <2>6. PICK k \in Blocks : k = blockno[cur[p]]
          BY <1>2
      <2>7. Cache!Pin(p, k)
          BY <1>1, <1>3, <2>2, <2>5, <2>6 DEF Cache!Pin, PinnedBlocks
      <2> QED BY <2>7 DEF Cache!Next
  <1> QED BY <1>4, <1>5

\* The device writes a block, whose writer has it locked, or fills a buffer with
\* a block that nobody has changed since.
LEMMA DeviceRefines ==
  ASSUME IInv, OneEach, Viewed, Viewed', NEW h \in Descs, DeviceComplete(h),
         UNCHANGED bioVars
  PROVE  [Cache!Next]_Cache!vars
  <1>0. TypeOK /\ Served /\ Filled
      BY DEF IInv
  <1>1. /\ blockno' = blockno /\ valid' = valid /\ lock' = lock /\ pins' = pins
        /\ h \in inflight
      BY DEF DeviceComplete, bioVars
  <1>2. h \in Requests
      BY <1>0, <1>1 DEF Served, Queued
  <1>3. PICK p \in Procs :
          /\ Waits(p) /\ Holds(p) /\ cur[p] \in Bufs /\ blockno[cur[p]] \in Blocks
          /\ info[h] = cur[p]
          /\ op[h].write = wr[p] /\ op[h].sector = blockno[cur[p]] /\ op[h].buf = cur[p]
      BY <1>2, Request
  <1> DEFINE b == cur[p]
             k == blockno[b]
  <1>4. Owner' = Owner /\ PinnedBlocks' = PinnedBlocks
      BY <1>1 DEF Owner, Cached, PinnedBlocks
  <1>5. Owner[k] # None
      <2>1. lock[b] = p
          BY <1>3, HasBuf
      <2>2. Owner[k] = lock[b]
          BY <1>3 DEF Viewed
      <2>3. p # None
          BY BioAssumption
      <2> QED BY <2>1, <2>2, <2>3
  <1>6. valid[b] <=> wr[p]
      BY <1>0, <1>3 DEF Filled, Waits, InRw
  <1>7. CASE wr[p]
      <2>1. media' = [media EXCEPT ![k] = data[b]] /\ data' = data
          BY <1>3, <1>7 DEF DeviceComplete
      <2>2. \A j \in Blocks \ {k} : media'[j] = media[j]
          BY <1>0, <2>1 DEF TypeOK
      <2>3. Content' = [Content EXCEPT ![k] = data[b]] /\ Content[k] = data[b]
          <3>1. Content[k] = data[b]
              BY <1>3, <1>6, <1>7 DEF Viewed
          <3>2. Content' = [Content EXCEPT ![k] = IF valid'[b] THEN data'[b] ELSE media'[k]]
              BY <1>1, <1>3, <2>1, <2>2, ContentStep
          <3> QED BY <1>1, <1>6, <1>7, <2>1, <3>1, <3>2
      <2>4. Content' = Content
          <3>1. Content = [j \in Blocks |-> Content[j]]
              BY DEF Viewed
          <3> QED BY <2>3, <3>1
      <2>5. Cache!Flush(k)
          BY <1>4, <1>5, <2>1, <2>3, <2>4 DEF Cache!Flush, PinnedBlocks
      <2> QED BY <1>3, <2>5 DEF Cache!Next
  <1>8. CASE ~wr[p]
      <2>1. media' = media /\ \A c \in Bufs \ {b} : data'[c] = data[c]
          BY <1>0, <1>3, <1>8 DEF DeviceComplete, TypeOK
      <2>2. Content' = [Content EXCEPT ![k] = IF valid'[b] THEN data'[b] ELSE media'[k]]
          BY <1>1, <1>3, <2>1, ContentStep
      <2>3. Content' = [Content EXCEPT ![k] = media[k]] /\ Content[k] = media[k]
          BY <1>1, <1>3, <1>6, <1>8, <2>1, <2>2 DEF Viewed
      <2>4. Content' = Content
          <3>1. Content = [j \in Blocks |-> Content[j]]
              BY DEF Viewed
          <3> QED BY <2>3, <3>1
      <2> QED BY <1>4, <2>1, <2>4 DEF Cache!vars, PinnedBlocks
  <1> QED BY <1>7, <1>8

\* bread() marks the buffer valid: what it read is what it stood for before.
LEMMA ReturnRefines ==
  ASSUME IInv, OneEach, Viewed, Viewed', NEW p \in Procs, RwReturn(p)
  PROVE  UNCHANGED Cache!vars
  <1> DEFINE b == cur[p]
             k == blockno[b]
  <1>0. TypeOK /\ Fetched /\ Filled
      BY DEF IInv
  <1>1. /\ media' = media /\ data' = data /\ blockno' = blockno /\ lock' = lock
        /\ pins' = pins
      BY DEF RwReturn, diskVars, deviceVars
  <1>2. pc[p] = "rw_done" /\ b \in Bufs /\ k \in Blocks
      BY HasBuf DEF RwReturn
  <1>3. valid'[b] /\ \A c \in Bufs \ {b} : valid'[c] = valid[c]
      BY <1>0, <1>2 DEF RwReturn, TypeOK
  <1>4. Owner' = Owner /\ PinnedBlocks' = PinnedBlocks
      BY <1>1 DEF Owner, Cached, PinnedBlocks
  <1>5. Content[k] = data[b]
      <2>1. valid[b] <=> wr[p]
          BY <1>0, <1>2 DEF Filled, InRw
      <2>2. CASE valid[b]
          BY <1>2, <2>2 DEF Viewed
      <2>3. CASE ~valid[b]
          BY <1>0, <1>2, <2>1, <2>3 DEF Viewed, Fetched
      <2> QED BY <2>2, <2>3
  <1>6. Content' = [Content EXCEPT ![k] = data[b]]
      <2>1. Content' = [Content EXCEPT ![k] = IF valid'[b] THEN data'[b] ELSE media'[k]]
          BY <1>1, <1>2, <1>3, ContentStep
      <2> QED BY <1>1, <1>3, <2>1
  <1>7. Content' = Content
      <2>1. Content = [j \in Blocks |-> Content[j]]
          BY DEF Viewed
      <2> QED BY <1>5, <1>6, <2>1
  <1> QED BY <1>1, <1>4, <1>7 DEF Cache!vars, PinnedBlocks

\* bget() recycles a buffer: its block falls back to what is on the disk.
LEMMA RecycleRefines ==
  ASSUME IInv, OneEach, Viewed, Viewed', NEW p \in Procs, NEW k \in Blocks, BgetMiss(p, k)
  PROVE  [Cache!Next]_Cache!vars
  <1>0. TypeOK /\ Typed /\ Owned /\ RefcntExact
      BY DEF IInv
  <1>1. PICK b \in Bufs : /\ refcnt[b] = 0 /\ blockno' = [blockno EXCEPT ![b] = k]
                          /\ valid' = [valid EXCEPT ![b] = FALSE]
      BY DEF BgetMiss, Unused
  <1>2. /\ media' = media /\ data' = data /\ lock' = lock /\ pins' = pins
        /\ \A c \in Bufs : blockno[c] # k
      BY DEF BgetMiss, diskVars, deviceVars, Cached
  <1>3. /\ blockno'[b] = k /\ ~valid'[b]
        /\ \A c \in Bufs \ {b} : blockno'[c] = blockno[c] /\ valid'[c] = valid[c]
      BY <1>0, <1>1 DEF TypeOK
  <1>4. lock[b] = None /\ ~(pins[b] > 0)
      <2> DEFINE S == {q \in Procs : cur[q] = b}
      <2>1. IsFiniteSet(S)
          BY Finite
      <2>2. 0 = Cardinality(S) + pins[b] /\ pins[b] \in 0 .. 1
          BY <1>0, <1>1 DEF RefcntExact, Typed
      <2>3. lock[b] # None => lock[b] \in S
          BY <1>0 DEF Owned, TypeOK
      <2> HIDE DEF S
      <2>4. Cardinality(S) = 0 /\ ~(pins[b] > 0)
          BY <2>1, <2>2, FS_CardinalityType
      <2>5. S = {}
          BY <2>1, <2>4, FS_EmptySet
      <2> QED BY <2>3, <2>4, <2>5
  <1>5. PinnedBlocks' = PinnedBlocks
      <2>1. \A c \in Bufs : pins[c] > 0 => blockno'[c] = blockno[c]
          BY <1>3, <1>4
      <2> QED BY <1>2, <2>1 DEF PinnedBlocks
  <1>6. ASSUME NEW j \in Blocks
        PROVE  /\ Owner'[j] = Owner[j]
               /\ j # blockno[b] => Content'[j] = Content[j]
               /\ j = blockno[b] => Content'[j] = media[j]
      <2>1. CASE j = k
          <3>1. Owner[j] = None /\ Content[j] = media[j]
              BY <1>2, <2>1 DEF Viewed
          <3>2. Owner'[j] = lock'[b] /\ Content'[j] = media'[j]
              BY <1>3, <2>1 DEF Viewed
          <3> QED BY <1>2, <1>4, <3>1, <3>2
      <2>2. CASE j = blockno[b]
          <3>1. j # k /\ \A c \in Bufs : blockno'[c] # j
              BY <1>2, <1>3, <2>2, BioAssumption DEF OneEach
          <3>2. Owner'[j] = None /\ Content'[j] = media'[j]
              BY <3>1 DEF Viewed
          <3>3. Owner[j] = lock[b]
              BY <2>2 DEF Viewed
          <3> QED BY <1>2, <1>4, <2>2, <3>2, <3>3
      <2>3. CASE j # k /\ j # blockno[b] /\ \E c \in Bufs : blockno[c] = j
          <3>1. PICK c \in Bufs : blockno[c] = j
              BY <2>3
          <3>2. c # b /\ blockno'[c] = j /\ valid'[c] = valid[c]
              BY <1>3, <2>3, <3>1
          <3> QED BY <1>2, <2>3, <3>1, <3>2 DEF Viewed
      <2>4. CASE j # k /\ j # blockno[b] /\ \A c \in Bufs : blockno[c] # j
          <3>1. \A c \in Bufs : blockno'[c] # j
              BY <1>3, <2>4
          <3> QED BY <1>2, <2>4, <3>1 DEF Viewed
      <2> QED BY <2>1, <2>2, <2>3, <2>4
  <1>7. /\ Content = [j \in Blocks |-> Content[j]] /\ Content' = [j \in Blocks |-> Content'[j]]
        /\ Owner = [j \in Blocks |-> Owner[j]] /\ Owner' = [j \in Blocks |-> Owner'[j]]
      BY DEF Viewed
  <1>8. Owner' = Owner
      BY <1>6, <1>7
  <1>9. CASE blockno[b] = None
      <2>1. Content' = Content
          BY <1>6, <1>7, <1>9, BioAssumption
      <2> QED BY <1>2, <1>5, <1>8, <2>1 DEF Cache!vars, PinnedBlocks
  <1>10. CASE blockno[b] # None
      <2>1. blockno[b] \in Blocks
          BY <1>0, <1>10 DEF TypeOK
      <2>2. Content' = [Content EXCEPT ![blockno[b]] = media[blockno[b]]]
          BY <1>6, <1>7, <2>1
      <2>3. Owner[blockno[b]] = None
          BY <1>4, <2>1 DEF Viewed
      <2>4. blockno[b] \notin PinnedBlocks
          BY <1>4, <1>10 DEF PinnedBlocks, OneEach
      <2>5. Cache!Forget(blockno[b])
          BY <1>2, <1>5, <1>8, <2>2, <2>3, <2>4 DEF Cache!Forget, PinnedBlocks
      <2> QED BY <2>1, <2>5 DEF Cache!Next
  <1> QED BY <1>9, <1>10

\* Every other step is none of BlockCache's.
LEMMA QuietRefines ==
  ASSUME media' = media, data' = data, blockno' = blockno, valid' = valid,
         lock' = lock, pins' = pins
  PROVE  UNCHANGED Cache!vars
  <1>1. Content' = Content /\ Owner' = Owner
      BY DEF Content, Owner, Cached
  <1> QED BY <1>1 DEF Cache!vars

LEMMA StepImplements ==
  ASSUME IInv, Viewed, Viewed', [Next]_vars
  PROVE  [Cache!Next]_Cache!vars
  <1>0. OneEach
      BY DEF IInv
  <1>1. ASSUME NEW p \in Procs, NEW k \in Blocks,
               BgetHit(p, k) \/ BgetMiss(p, k) \/ BgetPanic(p, k)
        PROVE  [Cache!Next]_Cache!vars
      <2>1. CASE BgetMiss(p, k)
          BY <1>0, <2>1, RecycleRefines
      <2>2. CASE BgetHit(p, k) \/ BgetPanic(p, k)
          <3>1. UNCHANGED <<media, data, blockno, valid, lock, pins>>
              BY <2>2 DEF BgetHit, BgetPanic, diskVars, deviceVars, bioVars
          <3> QED BY <3>1, QuietRefines
      <2> QED BY <1>1, <2>1, <2>2
  <1>2. ASSUME NEW p \in Procs, AcquireSleep(p) \/ ReleaseSleep(p)
        PROVE  [Cache!Next]_Cache!vars
      <2>1. CASE AcquireSleep(p) /\ lock[cur[p]] # None
          <3>1. UNCHANGED <<media, data, blockno, valid, lock, pins>>
              BY <2>1 DEF AcquireSleep, diskVars, deviceVars
          <3> QED BY <3>1, QuietRefines
      <2>2. CASE ReleaseSleep(p) \/ (AcquireSleep(p) /\ lock[cur[p]] = None)
          BY <1>0, <2>2, LockRefines
      <2> QED BY <1>2, <2>1, <2>2
  <1>3. ASSUME NEW p \in Procs, RwReturn(p)
        PROVE  [Cache!Next]_Cache!vars
      BY <1>0, <1>3, ReturnRefines
  <1>4. ASSUME NEW p \in Procs, (\E v \in Vals : Modify(p, v)) \/ Bpin(p) \/ Bunpin(p)
        PROVE  [Cache!Next]_Cache!vars
      BY <1>0, <1>4, HeldRefines
  <1>5. ASSUME NEW p \in Procs, Bwrite(p) \/ Brelse(p) \/ KillWakes(p)
        PROVE  [Cache!Next]_Cache!vars
      <2>1. UNCHANGED <<media, data, blockno, valid, lock, pins>>
          BY <1>5 DEF Bwrite, Brelse, KillWakes, diskVars, deviceVars, bioVars
      <2> QED BY <2>1, QuietRefines
  <1>6. ASSUME NEW p \in Procs, UNCHANGED bioVars,
               \/ RwWait(p) \/ RwFinish(p)
               \/ pc[p] = "rw" /\ RwStart(p, blockno[cur[p]])
        PROVE  [Cache!Next]_Cache!vars
      <2>1. UNCHANGED <<media, data, blockno, valid, lock, pins>>
          BY <1>6 DEF RwWait, RwFinish, RwStart, deviceVars, bioVars
      <2> QED BY <2>1, QuietRefines
  <1>7. ASSUME UNCHANGED bioVars, DeviceTake \/ IntrAck \/ IntrEntry \/ IntrDone
        PROVE  [Cache!Next]_Cache!vars
      <2>1. UNCHANGED <<media, data, blockno, valid, lock, pins>>
          BY <1>7 DEF DeviceTake, IntrAck, IntrEntry, IntrDone, bioVars
      <2> QED BY <2>1, QuietRefines
  <1>8. ASSUME UNCHANGED bioVars, NEW h \in Descs, DeviceComplete(h)
        PROVE  [Cache!Next]_Cache!vars
      BY <1>0, <1>8, DeviceRefines
  <1>9. CASE UNCHANGED vars
      <2>1. UNCHANGED <<media, data, blockno, valid, lock, pins>>
          BY <1>9 DEF vars, bioVars
      <2> QED BY <2>1, QuietRefines
  <1> QED BY <1>1, <1>2, <1>3, <1>4, <1>5, <1>6, <1>7, <1>8, <1>9 DEF Next

LEMMA InitImplements == Init => Cache!Init
  <1> SUFFICES ASSUME Init PROVE Cache!Init
      OBVIOUS
  <1>1. \A k \in Blocks : Cached(k) = {}
      BY BioAssumption DEF Init, Cached
  <1>2. media \in [Blocks -> Vals] /\ Content = media /\ Owner = [k \in Blocks |-> None]
      BY <1>1, BioAssumption DEF Init, VirtioInit, Content, Owner
  <1>3. PinnedBlocks = {}
      BY DEF Init, PinnedBlocks
  <1> QED BY <1>2, <1>3 DEF Cache!Init, PinnedBlocks

\* bio.c over virtio_disk.c implements BlockCache: one copy of every block, used
\* by one process at a time, which finds there what the last one left, whatever
\* the device, the interrupt handler and the recycling of buffers do meanwhile.
THEOREM CacheIsCoherent == Spec => CoherentCache
  <1>1. Init => Cache!Init
      BY InitImplements
  <1>2. IInv => Viewed
      BY View DEF IInv
  <1>3. IInv /\ Viewed /\ Viewed' /\ [Next]_vars => [Cache!Next]_Cache!vars
      BY StepImplements
  <1> QED BY <1>1, <1>2, <1>3, Invariance, PTL DEF Spec, CoherentCache, Cache!Spec
=============================================================================
