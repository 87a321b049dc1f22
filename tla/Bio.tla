--------------------------------- MODULE Bio ---------------------------------
(***************************************************************************)
(* The buffer cache (kernel/bio.c) with its sleep locks (sleeplock.c), on  *)
(* top of the disk driver: processes bread() a block, change it, bwrite(), *)
(* bpin() or bunpin() it and brelse() it.                                  *)
(*                                                                         *)
(* A section under bcache.lock or under a sleep lock's spinlock is one     *)
(* step.  The list that orders the buffers by their last use is left out:  *)
(* any buffer without references may be recycled, not only the oldest, so  *)
(* that what is shown does not depend on the order.                        *)
(***************************************************************************)
EXTENDS Virtio

CONSTANTS
  MaxPins,  \* blocks the log has pinned at once
  Dirty     \* blocks that processes change; the others they only read

ASSUME BioAssumption ==
  /\ Blank \in Vals /\ None \notin Procs \cup Blocks \cup Bufs
  /\ IsFiniteSet(Procs) /\ IsFiniteSet(Bufs)   \* NPROC, NBUF
  /\ NUM \in Nat /\ NUM >= 3
  /\ MaxPins \in Nat /\ Dirty \subseteq Blocks

VARIABLES
  blockno, valid, refcnt, lock,  \* fields of struct buf; lock is b->lock's owner
  pins                           \* how often each buffer is pinned

bioVars == <<blockno, valid, refcnt, lock, pins>>
vars == <<media, data, bdisk, driverVars, avail, inflight, used, irq, intr, pc,
          cur, wr, bioVars>>
diskVars == <<bdisk, driverVars, deviceVars>>

Init ==
  /\ VirtioInit
  /\ blockno = [b \in Bufs |-> None]
  /\ valid = [b \in Bufs |-> FALSE]
  /\ refcnt = [b \in Bufs |-> 0]
  /\ lock = [b \in Bufs |-> None]
  /\ pins = [b \in Bufs |-> 0]

Goto(p, point) == pc' = [pc EXCEPT ![p] = point]

-----------------------------------------------------------------------------
Cached(k) == {b \in Bufs : blockno[b] = k}
Unused == {b \in Bufs : refcnt[b] = 0}

\* MUTANT: a recycled buffer stays valid.
BgetMissValid(p, k) ==
  /\ pc[p] = "idle" /\ Cached(k) = {}
  /\ \E b \in Unused :
       /\ blockno' = [blockno EXCEPT ![b] = k]
       /\ refcnt' = [refcnt EXCEPT ![b] = 1]
       /\ cur' = [cur EXCEPT ![p] = b]
  /\ Goto(p, "acquire")
  /\ UNCHANGED <<data, diskVars, wr, valid, lock, pins>>

\* bget(), the block is cached ...
BgetHit(p, k) ==
  /\ pc[p] = "idle"
  /\ \E b \in Cached(k) :
       /\ refcnt' = [refcnt EXCEPT ![b] = @ + 1]
       /\ cur' = [cur EXCEPT ![p] = b]
  /\ Goto(p, "acquire")
  /\ UNCHANGED <<data, diskVars, wr, blockno, valid, lock, pins>>

\* ... or not: recycle a buffer without references ...
BgetMiss(p, k) ==
  /\ pc[p] = "idle" /\ Cached(k) = {}
  /\ \E b \in Unused :
       /\ blockno' = [blockno EXCEPT ![b] = k]
       /\ valid' = [valid EXCEPT ![b] = FALSE]
       /\ refcnt' = [refcnt EXCEPT ![b] = 1]
       /\ cur' = [cur EXCEPT ![p] = b]
  /\ Goto(p, "acquire")
  /\ UNCHANGED <<data, diskVars, wr, lock, pins>>

\* ... or panic("bget: no buffers").
BgetPanic(p, k) ==
  /\ pc[p] = "idle" /\ Cached(k) = {} /\ Unused = {}
  /\ Goto(p, "panic")
  /\ UNCHANGED <<data, diskVars, cur, wr, bioVars>>

\* acquiresleep(): one turn of its loop; then bread() reads the block unless
\* the buffer is valid.
AcquireSleep(p) ==
  /\ pc[p] = "acquire"
  /\ IF lock[cur[p]] # None
     THEN Goto(p, "lock_asleep") /\ UNCHANGED lock
     ELSE /\ lock' = [lock EXCEPT ![cur[p]] = p]
          /\ Goto(p, IF valid[cur[p]] THEN "held" ELSE "rw")
  /\ UNCHANGED <<data, diskVars, cur, wr, blockno, valid, refcnt, pins>>

\* virtio_disk_rw() has returned to bread() (b->valid = 1) or to bwrite()'s
\* caller.
RwReturn(p) ==
  /\ pc[p] = "rw_done"
  /\ valid' = [valid EXCEPT ![cur[p]] = TRUE]
  /\ wr' = [wr EXCEPT ![p] = FALSE]
  /\ Goto(p, "held")
  /\ UNCHANGED <<data, diskVars, cur, blockno, refcnt, lock, pins>>

\* The caller changes the block.
Modify(p, v) ==
  /\ pc[p] = "held" /\ blockno[cur[p]] \in Dirty
  /\ data' = [data EXCEPT ![cur[p]] = v]
  /\ UNCHANGED <<diskVars, pc, cur, wr, bioVars>>

Bwrite(p) ==
  /\ pc[p] = "held" /\ blockno[cur[p]] \in Dirty
  /\ wr' = [wr EXCEPT ![p] = TRUE]
  /\ Goto(p, "rw")
  /\ UNCHANGED <<data, diskVars, cur, bioVars>>

\* bpin() and bunpin(), as log_write() and install_trans() call them.
Bpin(p) ==
  /\ pc[p] = "held" /\ pins[cur[p]] = 0 /\ blockno[cur[p]] \in Dirty
  /\ Cardinality({b \in Bufs : pins[b] > 0}) < MaxPins
  /\ refcnt' = [refcnt EXCEPT ![cur[p]] = @ + 1]
  /\ pins' = [pins EXCEPT ![cur[p]] = @ + 1]
  /\ UNCHANGED <<data, diskVars, pc, cur, wr, blockno, valid, lock>>

Bunpin(p) ==
  /\ pc[p] = "held" /\ pins[cur[p]] > 0
  /\ refcnt' = [refcnt EXCEPT ![cur[p]] = @ - 1]
  /\ pins' = [pins EXCEPT ![cur[p]] = @ - 1]
  /\ UNCHANGED <<data, diskVars, pc, cur, wr, blockno, valid, lock>>

\* brelse(): releasesleep() first ...
ReleaseSleep(p) ==
  /\ pc[p] = "held"
  /\ lock' = [lock EXCEPT ![cur[p]] = None]
  /\ pc' = [Wakeup("lock_asleep", "acquire", LAMBDA q : cur[q] = cur[p])
              EXCEPT ![p] = "release"]
  /\ UNCHANGED <<data, diskVars, cur, wr, blockno, valid, refcnt, pins>>

\* MUTANT: brelse() keeps the reference of a pinned buffer.
BrelsePinned(p) ==
  /\ pc[p] = "release"
  /\ refcnt' = [refcnt EXCEPT ![cur[p]] = IF pins[cur[p]] > 0 THEN @ ELSE @ - 1]
  /\ cur' = [cur EXCEPT ![p] = None]
  /\ Goto(p, "idle")
  /\ UNCHANGED <<data, diskVars, wr, blockno, valid, lock, pins>>

\* ... then drop the reference.
Brelse(p) ==
  /\ pc[p] = "release"
  /\ refcnt' = [refcnt EXCEPT ![cur[p]] = @ - 1]
  /\ cur' = [cur EXCEPT ![p] = None]
  /\ Goto(p, "idle")
  /\ UNCHANGED <<data, diskVars, wr, blockno, valid, lock, pins>>

\* kill() wakes a process wherever it sleeps; every sleep is in a loop.
KillWakes(p) ==
  /\ \/ pc[p] = "lock_asleep" /\ Goto(p, "acquire")
     \/ pc[p] = "desc_asleep" /\ Goto(p, "rw")
     \/ pc[p] = "io_asleep" /\ Goto(p, "io")
  /\ UNCHANGED <<data, diskVars, cur, wr, bioVars>>

-----------------------------------------------------------------------------
Next ==
  \/ \E p \in Procs :
       \/ \E k \in Blocks : BgetHit(p, k) \/ BgetMiss(p, k) \/ BgetPanic(p, k)
       \/ AcquireSleep(p) \/ RwReturn(p) \/ Bwrite(p) \/ Bpin(p) \/ Bunpin(p)
       \/ \E v \in Vals : Modify(p, v)
       \/ ReleaseSleep(p) \/ Brelse(p) \/ KillWakes(p)
       \/ /\ \/ RwWait(p) \/ RwFinish(p)
             \/ pc[p] = "rw" /\ RwStart(p, blockno[cur[p]])
          /\ UNCHANGED bioVars
  \/ /\ DeviceTake \/ (\E h \in Descs : DeviceComplete(h))
        \/ IntrAck \/ IntrEntry \/ IntrDone
     /\ UNCHANGED bioVars

Spec == Init /\ [][Next]_vars

-----------------------------------------------------------------------------
\* Properties.

\* Every variable has its type.
TypeOK ==
  /\ media \in [Blocks -> Vals] /\ data \in [Bufs -> Vals]
  /\ bdisk \in [Bufs -> BOOLEAN] /\ valid \in [Bufs -> BOOLEAN]
  /\ free \subseteq Descs /\ inflight \subseteq Descs
  /\ avail \in Seq(Descs) /\ used \in Seq(Descs)
  /\ info \in [Descs -> Bufs \cup {None}]
  /\ blockno \in [Bufs -> Blocks \cup {None}]
  /\ refcnt \in [Bufs -> Nat] /\ lock \in [Bufs -> Procs \cup {None}]
  /\ cur \in [Procs -> Bufs \cup {None}]

\* bget() never creates a second buffer for a block.
OneBufferPerBlock == \A k \in Blocks : Cardinality(Cached(k)) <= 1

\* A buffer's reference count is the number of processes between bget() and
\* brelse() plus its pins, so that a buffer in use is not recycled.
RefcntExact ==
  \A b \in Bufs : refcnt[b] = Cardinality({p \in Procs : cur[p] = b}) + pins[b]

\* The cache's bookkeeping: types, one buffer per block, exact counts.
CacheExact == TypeOK /\ OneBufferPerBlock /\ RefcntExact

\* Both pools are exact: the buffers of the cache and the descriptors of the
\* driver under it.
PoolsExact == CacheExact /\ DescriptorsExact

\* With vdisk_lock free nobody sleeps for what is there already: a buffer the
\* disk has finished, three free descriptors, a sleep lock that is free.
NoLostWakeup ==
  /\ InterruptPending
  /\ \A p \in Procs :
       /\ pc[p] = "io_asleep" => bdisk[cur[p]]
       /\ pc[p] = "desc_asleep" => Cardinality(free) < 3
       /\ pc[p] = "lock_asleep" => lock[cur[p]] # None

\* The cache implements BlockCache.
Content ==
  [k \in Blocks |-> IF \E b \in Cached(k) : valid[b]
                    THEN data[CHOOSE b \in Cached(k) : valid[b]] ELSE media[k]]
Owner ==
  [k \in Blocks |-> IF Cached(k) = {} THEN None
                    ELSE lock[CHOOSE b \in Cached(k) : TRUE]]
Cache == INSTANCE BlockCache WITH
           disk <- media, content <- Content, owner <- Owner,
           pinned <- {blockno[b] : b \in {c \in Bufs : pins[c] > 0}}
CoherentCache == Cache!Spec
=============================================================================
