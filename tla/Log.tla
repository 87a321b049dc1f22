--------------------------------- MODULE Log ---------------------------------
(***************************************************************************)
(* The write-ahead log (kernel/log.c) over the buffer cache and the disk:  *)
(* begin_op(), log_write(), end_op(), commit(), and recovery after a crash *)
(* at any point, recovery included.                                        *)
(*                                                                         *)
(* A section under log.lock is one step, and so is every bwrite(): it is   *)
(* synchronous and a block write is atomic.  The cache may drop any block  *)
(* that is not pinned; a dropped block is read again from its home.        *)
(***************************************************************************)
EXTENDS Naturals, Sequences, FiniteSets

CONSTANTS
  Procs,        \* processes that make file system calls
  Blocks, Vals, Blank,
  MAXOPBLOCKS,  \* blocks begin_op() reserves for one call (param.h)
  OpBlocks,     \* blocks a call really writes, at most
  LOGSIZE,      \* param.h
  NLOG,         \* log.size: blocks of the log on disk, header included (mkfs)
  MaxCrashes    \* bound on the crashes of a run

ASSUME LogAssumption ==
  /\ Blank \in Vals
  /\ IsFiniteSet(Procs)
  /\ MAXOPBLOCKS \in Nat /\ LOGSIZE \in Nat /\ NLOG \in Nat
  /\ 2 * MAXOPBLOCKS <= LOGSIZE /\ LOGSIZE <= NLOG   \* 10, 30 and 30
  /\ OpBlocks \in 0 .. MAXOPBLOCKS - 1               \* filewrite() needs 7
  /\ MaxCrashes \in Nat

VARIABLES
  disk,        \* home blocks
  dhead,       \* the header block on disk: <<block numbers>>
  dlog,        \* the data blocks of the log on disk
  cache,       \* what bread() returns for a block
  pinned,      \* blocks bpin()ned by log_write()
  lh,          \* log.lh: block numbers of the open transaction
  outstanding, committing,
  pc,          \* position of each process
  wrote,       \* blocks a system call has written
  step, tail,  \* progress of commit() or of recover_from_log()
  crashes

vars == <<disk, dhead, dlog, cache, pinned, lh, outstanding, committing, pc,
          wrote, step, tail, crashes>>
onDisk == <<disk, dhead, dlog>>

Members(s) == {s[i] : i \in DOMAIN s}

\* A freshly made file system, after recovery found an empty log.
Init ==
  /\ disk = [b \in Blocks |-> Blank]
  /\ dhead = <<>>
  /\ dlog = [i \in 1 .. LOGSIZE |-> Blank]
  /\ cache = disk /\ pinned = {} /\ lh = <<>>
  /\ outstanding = 0 /\ committing = FALSE
  /\ pc = [p \in Procs |-> "out"]
  /\ wrote = [p \in Procs |-> {}]
  /\ step = "none" /\ tail = 1 /\ crashes = 0

-----------------------------------------------------------------------------
\* System calls.

\* MUTANT: begin_op() reserves for itself only.
BeginOpNoReserve(p) ==
  /\ pc[p] \in {"out", "woken"}
  /\ IF committing \/ Len(lh) + MAXOPBLOCKS > LOGSIZE
     THEN pc' = [pc EXCEPT ![p] = "asleep"] /\ UNCHANGED outstanding
     ELSE /\ outstanding' = outstanding + 1
          /\ pc' = [pc EXCEPT ![p] = "in"]
  /\ UNCHANGED <<onDisk, cache, pinned, lh, committing, wrote, step, tail,
                 crashes>>

\* MUTANT: begin_op() does not count itself in.
BeginOpUncounted(p) ==
  /\ pc[p] \in {"out", "woken"}
  /\ pc' = [pc EXCEPT ![p] =
       IF committing \/ Len(lh) + (outstanding + 1) * MAXOPBLOCKS > LOGSIZE
       THEN "asleep" ELSE "in"]
  /\ UNCHANGED <<onDisk, cache, pinned, lh, outstanding, committing, wrote,
                 step, tail, crashes>>

\* begin_op(): one turn of the loop.  Sleep on &log while a commit runs or
\* the log might overflow, else join the transaction.
BeginOp(p) ==
  /\ pc[p] \in {"out", "woken"}
  /\ IF committing \/ Len(lh) + (outstanding + 1) * MAXOPBLOCKS > LOGSIZE
     THEN pc' = [pc EXCEPT ![p] = "asleep"] /\ UNCHANGED outstanding
     ELSE /\ outstanding' = outstanding + 1
          /\ pc' = [pc EXCEPT ![p] = "in"]
  /\ UNCHANGED <<onDisk, cache, pinned, lh, committing, wrote, step, tail,
                 crashes>>

\* kill() of a process asleep in begin_op() makes it test the condition again.
KillWakes(p) ==
  /\ pc[p] = "asleep"
  /\ pc' = [pc EXCEPT ![p] = "woken"]
  /\ UNCHANGED <<onDisk, cache, pinned, lh, outstanding, committing, wrote,
                 step, tail, crashes>>

LogFull == Len(lh) >= LOGSIZE \/ Len(lh) >= NLOG - 1

\* bread(), modify, log_write(), brelse(): absorb the block if it is in the
\* transaction already, else append and pin it; panic when the log is full
\* (the test comes before the search, so absorbing can panic as well).
Write(p, b, x) ==
  /\ pc[p] = "in" /\ Cardinality(wrote[p] \cup {b}) <= OpBlocks
  /\ cache' = [cache EXCEPT ![b] = x]
  /\ wrote' = [wrote EXCEPT ![p] = @ \cup {b}]
  /\ IF LogFull THEN pc' = [pc EXCEPT ![p] = "panic"] /\ UNCHANGED <<lh, pinned>>
     ELSE /\ lh' = IF b \in Members(lh) THEN lh ELSE Append(lh, b)
          /\ pinned' = pinned \cup {b}
          /\ UNCHANGED pc
  /\ UNCHANGED <<onDisk, outstanding, committing, step, tail, crashes>>

\* wakeup(&log).
Woken(f) == [p \in Procs |-> IF f[p] = "asleep" THEN "woken" ELSE f[p]]

\* MUTANT: the last end_op() wakes nobody when it does not commit.
EndOpSilent(p) ==
  /\ pc[p] = "in"
  /\ outstanding' = outstanding - 1
  /\ wrote' = [wrote EXCEPT ![p] = {}]
  /\ IF outstanding = 1 /\ lh # <<>>
     THEN /\ committing' = TRUE /\ step' = "write_log"
          /\ pc' = [pc EXCEPT ![p] = "commit"]
     ELSE /\ pc' = [pc EXCEPT ![p] = "out"]
          /\ UNCHANGED <<committing, step>>
  /\ UNCHANGED <<onDisk, cache, pinned, lh, tail, crashes>>

\* end_op(): the last call starts commit() (which does nothing when no block
\* was logged); any other wakes those who wait for log space.
EndOp(p) ==
  /\ pc[p] = "in"
  /\ outstanding' = outstanding - 1
  /\ wrote' = [wrote EXCEPT ![p] = {}]
  /\ IF outstanding = 1
     THEN /\ committing' = TRUE /\ tail' = 1
          /\ step' = IF lh = <<>> THEN "done" ELSE "write_log"
          /\ pc' = [pc EXCEPT ![p] = "commit"]
     ELSE /\ pc' = Woken([pc EXCEPT ![p] = "out"])
          /\ UNCHANGED <<committing, step, tail>>
  /\ UNCHANGED <<onDisk, cache, pinned, lh, crashes>>

-----------------------------------------------------------------------------
\* commit(), run by the process whose pc is "commit".

Unlogged == <<lh, outstanding, pc, wrote, crashes>>

\* MUTANT: the header is written before the log blocks.
WriteLogHeadFirst ==
  /\ step = "write_log"
  /\ dhead' = lh
  /\ dlog' = [dlog EXCEPT ![tail] = cache[lh[tail]]]
  /\ IF tail = Len(lh) THEN step' = "write_head" /\ tail' = 1
     ELSE tail' = tail + 1 /\ UNCHANGED step
  /\ UNCHANGED <<disk, cache, pinned, committing, Unlogged>>

\* write_log(): the next cached block goes to its log block.
WriteLog ==
  /\ step = "write_log"
  /\ dlog' = [dlog EXCEPT ![tail] = cache[lh[tail]]]
  /\ IF tail = Len(lh) THEN step' = "write_head" /\ tail' = 1
     ELSE tail' = tail + 1 /\ UNCHANGED step
  /\ UNCHANGED <<disk, dhead, cache, pinned, committing, Unlogged>>

\* write_head(): "the real commit".
WriteHead ==
  /\ step = "write_head"
  /\ dhead' = lh
  /\ step' = "install"
  /\ UNCHANGED <<disk, dlog, cache, pinned, committing, tail, Unlogged>>

\* MUTANT: install_trans() stops after the first block.
InstallFirst ==
  /\ step = "install"
  /\ disk' = [disk EXCEPT ![lh[1]] = dlog[1]]
  /\ pinned' = pinned \ Members(lh)
  /\ step' = "clear"
  /\ UNCHANGED <<dhead, dlog, cache, committing, tail, Unlogged>>

\* install_trans(0): log block to home block, then bunpin().
Install ==
  /\ step = "install"
  /\ cache' = [cache EXCEPT ![lh[tail]] = dlog[tail]]
  /\ disk' = [disk EXCEPT ![lh[tail]] = dlog[tail]]
  /\ pinned' = pinned \ {lh[tail]}
  /\ IF tail = Len(lh) THEN step' = "clear" /\ tail' = 1
     ELSE tail' = tail + 1 /\ UNCHANGED step
  /\ UNCHANGED <<dhead, dlog, committing, Unlogged>>

\* lh.n = 0; write_head() erases the transaction.
ClearHead ==
  /\ step = "clear"
  /\ lh' = <<>> /\ dhead' = <<>>
  /\ step' = "done"
  /\ UNCHANGED <<disk, dlog, cache, pinned, committing, tail, outstanding, pc,
                 wrote, crashes>>

\* Back in end_op(): committing = 0, wakeup(&log).
CommitDone ==
  /\ step = "done"
  /\ committing' = FALSE /\ step' = "none"
  /\ pc' = Woken([p \in Procs |-> IF pc[p] = "commit" THEN "out" ELSE pc[p]])
  /\ UNCHANGED <<onDisk, cache, pinned, lh, outstanding, tail, wrote, crashes>>

-----------------------------------------------------------------------------
\* The buffer cache recycles a buffer nobody has pinned.
Evict(b) ==
  /\ step # "recover" /\ b \notin pinned
  /\ cache' = [cache EXCEPT ![b] = disk[b]]
  /\ UNCHANGED <<onDisk, pinned, lh, outstanding, committing, pc, wrote, step,
                 tail, crashes>>

\* Power fails: only the disk survives.  The next boot starts recovery.
Crash ==
  /\ crashes < MaxCrashes
  /\ crashes' = crashes + 1
  /\ cache' = disk /\ pinned' = {}
  /\ lh' = dhead       \* read_head(), the first thing recovery does
  /\ outstanding' = 0 /\ committing' = TRUE \* no call starts before recovery
  /\ pc' = [p \in Procs |-> "boot"]
  /\ wrote' = [p \in Procs |-> {}]
  /\ step' = "recover" /\ tail' = 1
  /\ UNCHANGED onDisk

\* recover_from_log(): install_trans(1), one block at a time ...
RecoverBlock ==
  /\ step = "recover" /\ tail <= Len(lh)
  /\ disk' = [disk EXCEPT ![lh[tail]] = dlog[tail]]
  /\ cache' = [cache EXCEPT ![lh[tail]] = dlog[tail]]
  /\ tail' = tail + 1
  /\ UNCHANGED <<dhead, dlog, pinned, lh, outstanding, committing, pc, wrote,
                 step, crashes>>

\* ... then clear the log; processes run from here on.
RecoverDone ==
  /\ step = "recover" /\ tail > Len(lh)
  /\ lh' = <<>> /\ dhead' = <<>>
  /\ step' = "none" /\ tail' = 1 /\ committing' = FALSE
  /\ pc' = [p \in Procs |-> "out"]
  /\ UNCHANGED <<disk, dlog, cache, pinned, outstanding, wrote, crashes>>

-----------------------------------------------------------------------------
Next ==
  \/ \E p \in Procs : \/ BeginOp(p) \/ EndOp(p) \/ KillWakes(p)
                      \/ \E b \in Blocks, x \in Vals : Write(p, b, x)
  \/ WriteLog \/ WriteHead \/ Install \/ ClearHead \/ CommitDone
  \/ \E b \in Blocks : Evict(b)
  \/ Crash \/ RecoverBlock \/ RecoverDone

Spec == Init /\ [][Next]_vars

-----------------------------------------------------------------------------
\* Properties.

\* Every variable has its type.
TypeOK ==
  /\ disk \in [Blocks -> Vals] /\ cache \in [Blocks -> Vals]
  /\ dlog \in [1 .. LOGSIZE -> Vals]
  /\ dhead \in Seq(Blocks) /\ lh \in Seq(Blocks)
  /\ Len(lh) <= LOGSIZE /\ Len(dhead) <= LOGSIZE
  /\ pinned \subseteq Blocks
  /\ outstanding \in 0 .. Cardinality(Procs)
  /\ committing \in BOOLEAN
  /\ pc \in [Procs -> {"out", "asleep", "woken", "in", "commit", "panic",
                       "boot"}]
  /\ wrote \in [Procs -> SUBSET Blocks]
  /\ step \in {"none", "write_log", "write_head", "install", "clear", "done",
               "recover"}
  /\ tail \in 1 .. LOGSIZE + 1
  /\ crashes \in 0 .. MaxCrashes

\* What a crash now would leave after recovery.
Recovered ==
  [b \in Blocks |-> IF \E i \in DOMAIN dhead : dhead[i] = b
                    THEN dlog[CHOOSE i \in DOMAIN dhead : dhead[i] = b]
                    ELSE disk[b]]

\* The log makes system calls atomic with respect to crashes: the detailed
\* log, with crashes between any two disk writes, implements AtomicFS.
FS == INSTANCE AtomicFS WITH
        stable <- Recovered,
        now    <- IF step = "recover" THEN Recovered ELSE cache,
        active <- {p \in Procs : pc[p] \in {"in", "panic"}}
CrashAtomic == FS!Spec

\* end_op() returns from a commit only when what it wrote is durable, and a
\* quiet system has nothing to lose.
DurableWhenQuiet ==
  step = "none" /\ lh = <<>> => Recovered = cache

\* No process sleeps in begin_op() with nobody left to wake it.
NoLostWakeup ==
  (\E p \in Procs : pc[p] = "asleep") => committing \/ outstanding > 0

\* The reservation in begin_op() keeps log_write() from its panic "too big a
\* transaction".
LogFits == \A p \in Procs : pc[p] # "panic"

\* The log is sound: everything has its type, the counters included, and no
\* transaction outgrows it.
LogSound == TypeOK /\ LogFits
=============================================================================
