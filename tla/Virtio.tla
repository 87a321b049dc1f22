------------------------------- MODULE Virtio -------------------------------
(***************************************************************************)
(* The virtio disk driver (kernel/virtio_disk.c) and the device as the     *)
(* driver uses it: a pool of NUM descriptors, three for each request; the  *)
(* avail and used rings; completion in any order; the interrupt.           *)
(*                                                                         *)
(* A ring is the sequence of its entries the other side has not looked at: *)
(* its index modulo 2^16 and its slot modulo NUM are left out (that no slot*)
(* is reused too early is part of DescriptorsExact).  vdisk_lock is held   *)
(* for one step, but for the interrupt handler, which the device may       *)
(* overtake.                                                               *)
(* The module is completed by Bio, whose processes make the requests.      *)
(***************************************************************************)
EXTENDS Naturals, Sequences, FiniteSets

CONSTANTS
  Procs, Blocks, Vals, Blank, None,
  Bufs,   \* struct buf (NBUF of them, param.h)
  NUM     \* descriptors (virtio.h)

Descs == 0 .. NUM - 1

VARIABLES
  media,            \* the sectors of the disk
  data, bdisk,      \* b->data, b->disk
  free, chain, op,  \* free[]; the three descriptors and the command at a head
  info,             \* info[head].b
  avail, inflight, used,  \* rings, and what the device is working on
  irq,              \* the device's interrupt line
  intr,             \* virtio_disk_intr() is between its ack and its end
  pc, cur, wr       \* of each process: position, buffer, and whether it writes

driverVars == <<free, chain, op, info>>
deviceVars == <<media, avail, inflight, used, irq, intr>>

NoOp == [write |-> FALSE, sector |-> None, buf |-> None]

VirtioInit ==
  /\ media = [k \in Blocks |-> Blank]
  /\ data = [b \in Bufs |-> Blank]
  /\ bdisk = [b \in Bufs |-> FALSE]
  /\ free = Descs
  /\ chain = [h \in Descs |-> <<>>]
  /\ op = [h \in Descs |-> NoOp]
  /\ info = [h \in Descs |-> None]
  /\ avail = <<>> /\ inflight = {} /\ used = <<>>
  /\ irq = FALSE /\ intr = FALSE
  /\ pc = [p \in Procs |-> "idle"]
  /\ cur = [p \in Procs |-> None]
  /\ wr = [p \in Procs |-> FALSE]

\* wakeup() of everyone asleep at a point for which F holds.
Wakeup(asleep, awake, F(_)) ==
  [p \in Procs |-> IF pc[p] = asleep /\ F(p) THEN awake ELSE pc[p]]
WakeForDescs == Wakeup("desc_asleep", "rw", LAMBDA p : TRUE)
WakeForBuf(b) == Wakeup("io_asleep", "io", LAMBDA p : cur[p] = b)

\* alloc_desc(): the lowest free descriptors first.
Lowest(S) == CHOOSE d \in S : \A e \in S : d <= e
Alloc3 ==
  LET a == Lowest(free)
      b == Lowest(free \ {a})
  IN <<a, b, Lowest(free \ {a, b})>>

-----------------------------------------------------------------------------
\* virtio_disk_rw(cur[p], wr[p]).

\* Three descriptors are free: fill them in, mark the buffer, tell the device
\* and sleep on b.
RwStart(p, k) ==
  /\ pc[p] = "rw" /\ ~intr /\ Cardinality(free) >= 3
  /\ LET idx == Alloc3 IN
       /\ free' = free \ {idx[1], idx[2], idx[3]}
       /\ chain' = [chain EXCEPT ![idx[1]] = idx]
       /\ op' = [op EXCEPT ![idx[1]] =
                   [write |-> wr[p], sector |-> k, buf |-> cur[p]]]
       /\ info' = [info EXCEPT ![idx[1]] = cur[p]]
       /\ avail' = Append(avail, idx[1])
  /\ bdisk' = [bdisk EXCEPT ![cur[p]] = TRUE]
  /\ pc' = [pc EXCEPT ![p] = "io_asleep"]
  /\ UNCHANGED <<media, data, inflight, used, irq, intr, cur, wr>>

\* Too few: alloc3_desc() gives back the ones it took, each with a wakeup of
\* the other waiters, and the process sleeps.
RwWait(p) ==
  /\ pc[p] = "rw" /\ ~intr /\ Cardinality(free) < 3
  /\ pc' = [(IF free = {} THEN pc ELSE WakeForDescs)
              EXCEPT ![p] = "desc_asleep"]
  /\ UNCHANGED <<data, bdisk, driverVars, deviceVars, cur, wr>>

\* MUTANT: free_desc() does not wake those who wait for descriptors.
RwFinishSilent(p) ==
  /\ pc[p] = "io" /\ ~intr /\ ~bdisk[cur[p]]
  /\ \E h \in Descs :
       /\ info[h] = cur[p]
       /\ info' = [info EXCEPT ![h] = None]
       /\ free' = free \cup {chain[h][j] : j \in DOMAIN chain[h]}
       /\ chain' = [chain EXCEPT ![h] = <<>>]
       /\ op' = [op EXCEPT ![h] = NoOp]
  /\ pc' = [pc EXCEPT ![p] = "rw_done"]
  /\ UNCHANGED <<data, bdisk, deviceVars, cur, wr>>

\* MUTANT: the request is over as soon as its process is woken, whoever woke it.
RwFinishEarly(p) ==
  /\ pc[p] = "io" /\ ~intr
  /\ \E h \in Descs :
       /\ info[h] = cur[p]
       /\ info' = [info EXCEPT ![h] = None]
       /\ free' = free \cup {chain[h][j] : j \in DOMAIN chain[h]}
       /\ chain' = [chain EXCEPT ![h] = <<>>]
       /\ op' = [op EXCEPT ![h] = NoOp]
  /\ pc' = [WakeForDescs EXCEPT ![p] = "rw_done"]
  /\ UNCHANGED <<data, bdisk, deviceVars, cur, wr>>

\* Awake and b->disk is clear: forget the request, free_chain() and wake those
\* who wait for descriptors.  Awake for another reason: sleep again.
RwFinish(p) ==
  /\ pc[p] = "io" /\ ~intr
  /\ IF bdisk[cur[p]]
     THEN pc' = [pc EXCEPT ![p] = "io_asleep"] /\ UNCHANGED driverVars
     ELSE /\ \E h \in Descs :
               /\ info[h] = cur[p]
               /\ info' = [info EXCEPT ![h] = None]
               /\ free' = free \cup {chain[h][j] : j \in DOMAIN chain[h]}
               /\ chain' = [chain EXCEPT ![h] = <<>>]
               /\ op' = [op EXCEPT ![h] = NoOp]
          /\ pc' = [WakeForDescs EXCEPT ![p] = "rw_done"]
  /\ UNCHANGED <<data, bdisk, deviceVars, cur, wr>>

-----------------------------------------------------------------------------
\* The device.  It takes requests from the avail ring, completes them in any
\* order, reading or writing the buffer, and raises its interrupt.

DeviceTake ==
  /\ avail # <<>>
  /\ inflight' = inflight \cup {Head(avail)}
  /\ avail' = Tail(avail)
  /\ UNCHANGED <<media, data, bdisk, driverVars, used, irq, intr, pc, cur, wr>>

DeviceComplete(h) ==
  /\ h \in inflight
  /\ IF op[h].write
     THEN media' = [media EXCEPT ![op[h].sector] = data[op[h].buf]]
          /\ UNCHANGED data
     ELSE data' = [data EXCEPT ![op[h].buf] = media[op[h].sector]]
          /\ UNCHANGED media
  /\ inflight' = inflight \ {h}
  /\ used' = Append(used, h)
  /\ irq' = TRUE
  /\ UNCHANGED <<bdisk, driverVars, avail, intr, pc, cur, wr>>

-----------------------------------------------------------------------------
\* virtio_disk_intr().

\* Take vdisk_lock and acknowledge: the device may interrupt again from here.
IntrAck ==
  /\ irq /\ ~intr
  /\ irq' = FALSE /\ intr' = TRUE
  /\ UNCHANGED <<media, data, bdisk, driverVars, avail, inflight, used, pc, cur,
                 wr>>

\* One entry of the used ring: the buffer is no longer the disk's.
IntrEntry ==
  /\ intr /\ used # <<>>
  /\ LET b == info[Head(used)] IN
       /\ bdisk' = [bdisk EXCEPT ![b] = FALSE]
       /\ pc' = WakeForBuf(b)
  /\ used' = Tail(used)
  /\ UNCHANGED <<media, data, driverVars, avail, inflight, irq, intr, cur, wr>>

IntrDone ==
  /\ intr /\ used = <<>>
  /\ intr' = FALSE
  /\ UNCHANGED <<media, data, bdisk, driverVars, avail, inflight, used, irq, pc,
                 cur, wr>>

-----------------------------------------------------------------------------
\* Properties of the driver; Bio's runs check them.

\* Who has a request with the device or waits for its result.
Requests == {h \in Descs : chain[h] # <<>>}

\* Every descriptor is free or in exactly one chain, and every chain belongs to
\* a sleeping or just woken process that waits for its own buffer: no request
\* is freed while the device may still follow its descriptors.  The rings, which
\* have NUM slots, never overflow.
DescriptorsExact ==
  /\ Len(avail) + Len(used) <= NUM
  /\ \A d \in Descs :
       Cardinality({h \in Requests : \E j \in 1 .. 3 : chain[h][j] = d})
         = IF d \in free THEN 0 ELSE 1
  /\ \A h \in Descs : (\/ h \in inflight
                       \/ \E j \in DOMAIN avail : avail[j] = h
                       \/ \E j \in DOMAIN used : used[j] = h) =>
       /\ h \in Requests
       /\ \E p \in Procs : /\ pc[p] \in {"io_asleep", "io"}
                           /\ cur[p] = op[h].buf /\ info[h] = cur[p]
                           /\ bdisk[cur[p]]

\* A completion the handler has not seen will be seen.
InterruptPending == used # <<>> => irq \/ intr
=============================================================================
