----------------------------- MODULE Proc_proofs -----------------------------
(***************************************************************************)
(* Proofs about Proc, for any size of the process table and any number of  *)
(* CPUs: a process is on one CPU at a time and has a live parent, wait()   *)
(* misses no exit(), and no slot of the table is reused while in use.      *)
(***************************************************************************)
EXTENDS Proc, TLAPS

\* Where a switch back to a process ends up: it still holds its own lock.
Resuming == {"forkret", "yielded", "slept"}

\* Program points with wait_lock.
WaitLocked == {"reparent", "wake_init", "wake_parent", "zombie", "scan", "sleep",
               "ps_scan", "ps_parent"}

\* Where the thread is, or will be when it runs again after a yield().
Pos(s) == IF ppc[s] = "yielded" THEN cont[s] ELSE ppc[s]

\* A CPU runs a process or is in its scheduler, and no two run the same.
CpuSound ==
  /\ \A c \in CPUs : cpc[c] = "sched" <=> cur[c] = None
  /\ \A c, d \in CPUs : cur[c] # None /\ cur[c] = cur[d] => c = d

\* RUNNING is being on a CPU, but for a process that is switching away.
Running ==
  /\ \A s \in Slots : state[s] = "RUNNING" <=> \E c \in CPUs : Runs(c, s)
  /\ \A c \in CPUs : cpc[c] = "back" =>
       state[cur[c]] \in {"RUNNABLE", "SLEEPING", "ZOMBIE"}

\* Who holds p->lock across steps, and wait_lock.
LocksHeld ==
  \A c \in CPUs :
    /\ cpc[c] = "back" => plock[cur[c]] = c
    /\ \A s \in Slots : Runs(c, s) =>
         /\ ppc[s] \in Resuming => plock[s] = c
         /\ ppc[s] = "fork_copy" => plock[np[s]] = c
         /\ ppc[s] = "ps_parent" => k[s] \in Slots /\ plock[k[s]] = c
         /\ ppc[s] \in WaitLocked => wlock = c

\* Where the thread of a process that does not run has stopped.
Resting ==
  \A s \in Slots :
    /\ state[s] \in {"UNUSED", "USED"} => ppc[s] \in {"forkret", "dead"}
    /\ state[s] = "RUNNABLE" => ppc[s] \in Resuming
    /\ state[s] = "SLEEPING" => ppc[s] = "slept" /\ chan[s] = s
    /\ state[s] = "ZOMBIE" => ppc[s] = "dead"
    /\ state[s] = "RUNNING" => ppc[s] # "dead"

\* A fork() under way owns a slot that nobody else touches.
Forking ==
  \A s \in Slots :
    /\ np[s] # None <=> Pos(s) \in {"fork_copy", "fork_parent", "fork_run"}
    /\ np[s] # None => state[np[s]] = "USED"
    /\ \A t \in Slots : np[s] # None /\ np[s] = np[t] => s = t
    /\ Pos(s) = "fork_run" => parent[np[s]] = s

\* init never exits; everybody else has a parent, and parents are alive.
Alive(s) == state[s] \notin {"UNUSED", "USED", "ZOMBIE"}
Parents ==
  /\ Alive(Initproc)
  /\ \A s \in Slots :
       /\ parent[s] # None => Alive(parent[s])
       /\ s # Initproc /\ state[s] \notin {"UNUSED", "USED"} => parent[s] # None
       /\ Pos(s) \in {"exit", "reparent", "wake_init", "wake_parent", "zombie"}
            => s # Initproc

\* exit() has given its children away, up to where reparent() has come.
Orphans ==
  \A s, n \in Slots : parent[n] = s =>
    /\ ppc[s] \in {"reparent", "wake_init"} => n >= k[s]
    /\ ppc[s] \notin {"wake_parent", "zombie"}

\* A ZOMBIE's parent does not sleep, unless it is init and the wakeup() of
\* reparent() has yet to reach it; wait() has seen no ZOMBIE so far, and
\* exit() has woken the parent if it has passed it.
Waking ==
  /\ \A s, n \in Slots : parent[n] = s /\ state[n] = "ZOMBIE" =>
       /\ state[s] = "SLEEPING" =>
            /\ s = Initproc
            /\ \E e \in Slots : ppc[e] = "wake_init" /\ wk[e] = Initproc
       /\ ppc[s] = "scan" => n >= k[s]
       /\ ppc[s] # "sleep"
  /\ \A s \in Slots : parent[s] # None /\ state[parent[s]] = "SLEEPING" =>
       /\ ppc[s] = "wake_parent" => wk[s] <= parent[s]
       /\ ppc[s] # "zombie"

\* The inductive invariant.
IInv ==
  /\ TypeOK /\ CpuSound /\ Running /\ LocksHeld /\ Resting /\ Forking
  /\ Parents /\ Orphans /\ Waking
-----------------------------------------------------------------------------
\* The table has its first slot, and None is no slot and no CPU.
LEMMA Basics ==
  /\ Initproc \in Slots /\ Initproc = 1 /\ N \in Nat \ {0}
  /\ None \notin Slots /\ None \notin CPUs
  /\ \A s \in Slots : s \in Nat /\ s >= 1 /\ s <= N
  BY ProcAssumption DEF Initproc, Slots

\* A running process is RUNNING, on its CPU only.
LEMMA RunsAlone ==
  ASSUME IInv, NEW c \in CPUs, NEW s \in Slots, Runs(c, s)
  PROVE  /\ state[s] = "RUNNING" /\ cur[c] = s /\ cpc[c] = "run"
         /\ ppc[s] # "dead"
         /\ \A d \in CPUs : cur[d] = s => d = c
         /\ \A t \in Slots : Runs(c, t) => t = s
  BY Basics DEF IInv, Running, CpuSound, Resting, Runs

\* A thread at a point where it holds a lock, or is not switched away, runs.
LEMMA MidwayRuns ==
  ASSUME IInv, NEW t \in Slots, ppc[t] \notin Resuming \cup {"dead"}
  PROVE  \E d \in CPUs : Runs(d, t)
  <1>1. state[t] = "RUNNING"
      BY DEF IInv, Resting, TypeOK, States, Resuming
  <1> QED BY <1>1 DEF IInv, Running

\* A slot without a started process is on no CPU.
LEMMA OffCpu ==
  ASSUME IInv, NEW n \in Slots, state[n] \in {"UNUSED", "USED"}
  PROVE  \A d \in CPUs : cur[d] # n
  BY Basics DEF IInv, Running, CpuSound, Runs, TypeOK

\* wait_lock excludes.
LEMMA OnlyHolder ==
  ASSUME IInv, NEW c \in CPUs, NEW s \in Slots, Runs(c, s),
         ppc[s] \in WaitLocked
  PROVE  /\ wlock = c /\ wlock # None
         /\ \A t \in Slots : ppc[t] \in WaitLocked => t = s
  <1>1. wlock = c
      BY DEF IInv, LocksHeld
  <1>2. ASSUME NEW t \in Slots, ppc[t] \in WaitLocked PROVE t = s
      <2>1. PICK d \in CPUs : Runs(d, t)
          BY <1>2, MidwayRuns DEF WaitLocked, Resuming
      <2>2. wlock = d
          BY <1>2, <2>1 DEF IInv, LocksHeld
      <2> QED BY <1>1, <2>1, <2>2, RunsAlone
  <1> QED BY <1>1, <1>2, Basics

LEMMA NoHolder ==
  ASSUME IInv, wlock = None
  PROVE  \A t \in Slots : ppc[t] \notin WaitLocked
  <1> SUFFICES ASSUME NEW t \in Slots, ppc[t] \in WaitLocked PROVE FALSE
      OBVIOUS
  <1>1. PICK d \in CPUs : Runs(d, t)
      BY MidwayRuns DEF WaitLocked, Resuming
  <1>2. wlock = d
      BY <1>1 DEF IInv, LocksHeld
  <1> QED BY <1>2, Basics

\* Only its own thread moves, and no state changes.
LEMMA QuietStep ==
  ASSUME IInv, NEW s \in Slots, state[s] = "RUNNING",
         state' = state, chan' = chan, cur' = cur, cpc' = cpc,
         \A t \in Slots \ {s} : ppc'[t] = ppc[t], ppc'[s] # "dead"
  PROVE  CpuSound' /\ Running' /\ Resting'
  <1>1. CpuSound'
      BY DEF IInv, CpuSound
  <1>2. Running'
      BY DEF IInv, Running, Runs
  <1>3. Resting'
      BY DEF IInv, Resting
  <1> QED BY <1>1, <1>2, <1>3

LEMMA InitIInv == Init => IInv
  <1> SUFFICES ASSUME Init PROVE IInv
      OBVIOUS
  <1> USE Basics DEF Init
  <1>1. TypeOK
      <2>1. killed \in [Slots -> BOOLEAN]
          OBVIOUS
      <2>2. /\ state \in [Slots -> States] /\ parent \in [Slots -> Slots \cup {None}]
            /\ chan \in [Slots -> Slots \cup {None}]
            /\ plock \in [Slots -> CPUs \cup {None}] /\ wlock \in CPUs \cup {None}
            /\ cur \in [CPUs -> Slots \cup {None}]
            /\ cpc \in [CPUs -> {"sched", "run", "back"}]
            /\ np \in [Slots -> Slots \cup {None}]
          BY DEF States
      <2>3. ppc \in [Slots -> Points] /\ cont \in [Slots -> Unlocked]
          BY DEF Points, Unlocked
      <2>4. k \in [Slots -> 1 .. N + 1] /\ wk \in [Slots -> 1 .. N]
          OBVIOUS
      <2> QED BY <2>1, <2>2, <2>3, <2>4 DEF TypeOK
  <1>2. CpuSound /\ Running /\ LocksHeld
      BY DEF CpuSound, Running, LocksHeld, Runs
  <1>3. Resting /\ Forking
      BY DEF Resting, Resuming, Forking, Pos
  <1>4. Parents /\ Orphans /\ Waking
      BY DEF Parents, Alive, Orphans, Waking, Pos
  <1> QED BY <1>1, <1>2, <1>3, <1>4 DEF IInv
-----------------------------------------------------------------------------
\* The scheduler takes a process that is nowhere else.
LEMMA ScheduleIInv ==
  ASSUME IInv, NEW c \in CPUs, NEW s \in Slots, Schedule(c, s)
  PROVE  IInv'
  <1>0. /\ TypeOK /\ CpuSound /\ Running /\ LocksHeld /\ Resting /\ Forking
        /\ Parents /\ Orphans /\ Waking
      BY DEF IInv
  <1>1. /\ cpc[c] = "sched" /\ plock[s] = None /\ state[s] = "RUNNABLE"
        /\ plock' = [plock EXCEPT ![s] = c]
        /\ state' = [state EXCEPT ![s] = "RUNNING"]
        /\ cur' = [cur EXCEPT ![c] = s]
        /\ cpc' = [cpc EXCEPT ![c] = "run"]
        /\ parent' = parent /\ chan' = chan /\ killed' = killed /\ wlock' = wlock
        /\ ppc' = ppc /\ cont' = cont /\ k' = k /\ wk' = wk /\ np' = np
      BY DEF Schedule, loopVars
  <1>2. \A d \in CPUs : cur[d] # s
      BY <1>0, <1>1, Basics DEF CpuSound, Running, LocksHeld, Runs, TypeOK
  <1>3. TypeOK'
      <2>1. killed' \in [Slots -> BOOLEAN]
          BY <1>0, <1>1 DEF TypeOK
      <2> QED BY <1>0, <1>1, <2>1 DEF TypeOK, States
  <1>4. CpuSound'
      BY <1>0, <1>1, <1>2, Basics DEF CpuSound, TypeOK
  <1>5. Running'
      BY <1>0, <1>1, <1>2, Basics DEF Running, CpuSound, TypeOK, Runs
  <1>6. LocksHeld'
      BY <1>0, <1>1, <1>2, Basics DEF LocksHeld, Resting, TypeOK, Runs, Forking,
         Resuming, WaitLocked
  <1>7. Resting'
      BY <1>0, <1>1 DEF Resting, TypeOK, Resuming
  <1>8. Forking'
      BY <1>0, <1>1 DEF Forking, TypeOK, Pos
  <1>9. Parents' /\ Orphans'
      BY <1>0, <1>1 DEF Parents, Orphans, TypeOK, Pos, Alive
  <1>10. Waking'
      BY <1>0, <1>1 DEF Waking, TypeOK
  <1> QED BY <1>3, <1>4, <1>5, <1>6, <1>7, <1>8, <1>9, <1>10 DEF IInv

\* The scheduler gives up the lock of the process it has left.
LEMMA SwitchBackIInv ==
  ASSUME IInv, NEW c \in CPUs, SwitchBack(c)
  PROVE  IInv'
  <1>0. /\ TypeOK /\ CpuSound /\ Running /\ LocksHeld /\ Resting /\ Forking
        /\ Parents /\ Orphans /\ Waking
      BY DEF IInv
  <1>1. /\ cpc[c] = "back" /\ cur[c] \in Slots
        /\ plock' = [plock EXCEPT ![cur[c]] = None]
        /\ cur' = [cur EXCEPT ![c] = None] /\ cpc' = [cpc EXCEPT ![c] = "sched"]
        /\ state' = state /\ parent' = parent /\ chan' = chan /\ killed' = killed
        /\ wlock' = wlock /\ ppc' = ppc /\ cont' = cont /\ k' = k /\ wk' = wk
        /\ np' = np
      BY <1>0 DEF SwitchBack, loopVars, procVars, CpuSound, TypeOK
  <1>2. TypeOK'
      <2>1. killed' \in [Slots -> BOOLEAN]
          BY <1>0, <1>1 DEF TypeOK
      <2> QED BY <1>0, <1>1, <2>1 DEF TypeOK
  <1>3. CpuSound'
      BY <1>0, <1>1, Basics DEF CpuSound, TypeOK
  <1>4. Running'
      BY <1>0, <1>1, Basics DEF Running, CpuSound, TypeOK, Runs
  <1>5. LocksHeld'
      BY <1>0, <1>1, Basics DEF LocksHeld, TypeOK, Runs, CpuSound, Forking, Pos
  <1>6. Resting' /\ Forking'
      BY <1>0, <1>1 DEF Resting, Forking, Pos
  <1>7. Parents' /\ Orphans' /\ Waking'
      BY <1>0, <1>1 DEF Parents, Orphans, Waking, Pos, Alive
  <1> QED BY <1>2, <1>3, <1>4, <1>5, <1>6, <1>7 DEF IInv

\* yield() keeps the lock across swtch(); the thread will go on where it was.
LEMMA YieldIInv ==
  ASSUME IInv, NEW c \in CPUs, NEW s \in Slots, Yield(c, s)
  PROVE  IInv'
  <1>0. /\ TypeOK /\ CpuSound /\ Running /\ LocksHeld /\ Resting /\ Forking
        /\ Parents /\ Orphans /\ Waking
      BY DEF IInv
  <1>1. /\ ppc[s] \in Unlocked /\ plock[s] = None /\ Runs(c, s)
        /\ plock' = [plock EXCEPT ![s] = c]
        /\ state' = [state EXCEPT ![s] = "RUNNABLE"]
        /\ cont' = [cont EXCEPT ![s] = ppc[s]]
        /\ ppc' = [ppc EXCEPT ![s] = "yielded"]
        /\ cpc' = [cpc EXCEPT ![c] = "back"]
        /\ parent' = parent /\ chan' = chan /\ killed' = killed /\ wlock' = wlock
        /\ cur' = cur /\ k' = k /\ wk' = wk /\ np' = np
      BY DEF Yield, Goto
  <1>2. /\ state[s] = "RUNNING" /\ cur[c] = s /\ cpc[c] = "run"
        /\ \A d \in CPUs : cur[d] = s => d = c
      BY <1>1, RunsAlone
  <1>3. TypeOK'
      <2>1. killed' \in [Slots -> BOOLEAN]
          BY <1>0, <1>1 DEF TypeOK
      <2> QED BY <1>0, <1>1, <2>1 DEF TypeOK, States, Points
  <1>4. \A t \in Slots : Pos(t)' = Pos(t)
      BY <1>0, <1>1 DEF Pos, TypeOK, Unlocked
  <1>5. CpuSound'
      BY <1>0, <1>1, <1>2, Basics DEF CpuSound, TypeOK
  <1>6. Running'
      BY <1>0, <1>1, <1>2, Basics DEF Running, TypeOK, Runs
  <1>7. LocksHeld'
      BY <1>0, <1>1, <1>2, Basics DEF LocksHeld, TypeOK, Runs
  <1>8. Resting'
      BY <1>0, <1>1 DEF Resting, TypeOK, Resuming
  <1>9. Forking'
      <2>1. \A t \in Slots : np[t] # None => np[t] # s
          BY <1>0, <1>2 DEF Forking
      <2> QED BY <1>0, <1>1, <1>4, <2>1 DEF Forking, TypeOK
  <1>10. Parents'
      BY <1>0, <1>1, <1>2, <1>4 DEF Parents, TypeOK, Alive
  <1>11. Orphans'
      BY <1>0, <1>1 DEF Orphans, TypeOK
  <1>12. Waking'
      BY <1>0, <1>1, <1>2 DEF Waking, TypeOK, Unlocked
  <1> QED BY <1>3, <1>5, <1>6, <1>7, <1>8, <1>9, <1>10, <1>11, <1>12 DEF IInv

\* The thread goes on and lets its lock go.
LEMMA ResumeIInv ==
  ASSUME IInv, NEW c \in CPUs, NEW s \in Slots, Resume(c, s)
  PROVE  IInv'
  <1>0. /\ TypeOK /\ CpuSound /\ Running /\ LocksHeld /\ Resting /\ Forking
        /\ Parents /\ Orphans /\ Waking
      BY DEF IInv
  <1>1. /\ Runs(c, s) /\ ppc[s] \in Resuming
        /\ plock' = [plock EXCEPT ![s] = None]
        /\ state' = state /\ parent' = parent /\ killed' = killed
        /\ wlock' = wlock /\ cur' = cur /\ cpc' = cpc /\ cont' = cont /\ k' = k
        /\ wk' = wk /\ np' = np
      BY DEF Resume, At, Resuming, cpuVars, loopVars
  <1>2. PICK x \in {"user", "wait", cont[s]} : ppc' = [ppc EXCEPT ![s] = x]
      BY DEF Resume, Goto
  <1>3. /\ Pos(s)' = Pos(s) \/ Pos(s)' \in {"user", "wait"}
        /\ Pos(s) \in {"forkret", "slept"} \/ Pos(s)' = Pos(s)
        /\ ppc'[s] \in Unlocked
      BY <1>0, <1>1 DEF Resume, At, Goto, Pos, TypeOK, Unlocked
  <1>4. chan' = chan \/ chan' = [chan EXCEPT ![s] = None]
      BY DEF Resume
  <1>5. state[s] = "RUNNING" /\ cur[c] = s /\ \A d \in CPUs : cur[d] = s => d = c
      BY <1>1, RunsAlone
  <1>6. TypeOK'
      <2>1. killed' \in [Slots -> BOOLEAN]
          BY <1>0, <1>1 DEF TypeOK
      <2>2. ppc' \in [Slots -> Points]
          BY <1>0, <1>2, <1>3 DEF TypeOK, Points
      <2> QED BY <1>0, <1>1, <1>4, <2>1, <2>2 DEF TypeOK
  <1>7. CpuSound' /\ Running'
      BY <1>0, <1>1 DEF CpuSound, Running, Runs
  <1>8. LocksHeld'
      <2>1. \A t \in Slots \ {s} : ppc'[t] = ppc[t]
          BY <1>0, <1>2 DEF TypeOK
      <2>2. ppc'[s] \notin Resuming \cup WaitLocked \cup {"fork_copy", "ps_parent"}
          BY <1>3 DEF Unlocked, Resuming, WaitLocked
      <2>3. plock[s] = c
          BY <1>0, <1>1 DEF LocksHeld
      <2>4. \A t \in Slots \ {s}, d \in CPUs : Runs(d, t) => d # c
          BY <1>1, RunsAlone
      <2>5. \A d \in CPUs : cpc[d] = "back" => cur[d] # s
          BY <1>0, <1>5 DEF Running
      <2> QED BY <1>0, <1>1, <2>1, <2>2, <2>3, <2>4, <2>5, Basics
              DEF LocksHeld, TypeOK, Runs
  <1>9. Resting'
      BY <1>0, <1>1, <1>2, <1>3, <1>4, <1>5 DEF Resting, TypeOK, Unlocked
  <1>10. Forking'
      <2>1. /\ \A t \in Slots \ {s} : Pos(t)' = Pos(t)
            /\ Pos(s)' = Pos(s) \/ /\ Pos(s) \notin {"fork_copy", "fork_parent", "fork_run"}
                                   /\ Pos(s)' \notin {"fork_copy", "fork_parent", "fork_run"}
          BY <1>0, <1>1, <1>2, <1>3 DEF Pos, TypeOK
      <2> QED BY <1>0, <1>1, <2>1 DEF Forking
  <1>11. Parents'
      <2>1. \A t \in Slots \ {s} : Pos(t)' = Pos(t)
          BY <1>0, <1>1, <1>2 DEF Pos, TypeOK
      <2> QED BY <1>0, <1>1, <1>3, <2>1 DEF Parents, Alive
  <1>12. Orphans'
      BY <1>0, <1>1, <1>2, <1>3 DEF Orphans, TypeOK, Unlocked
  <1>13. Waking'
      <2>1. /\ \A t \in Slots \ {s} : ppc'[t] = ppc[t]
            /\ ppc[s] # "wake_init"
            /\ ppc'[s] \notin {"scan", "sleep", "wake_parent", "zombie"}
          BY <1>0, <1>1, <1>2, <1>3 DEF TypeOK, Unlocked, Resuming
      <2> QED BY <1>0, <1>1, <2>1 DEF Waking
  <1> QED BY <1>6, <1>7, <1>8, <1>9, <1>10, <1>11, <1>12, <1>13 DEF IInv

\* allocproc(): the new slot was free.
LEMMA ForkIInv ==
  ASSUME IInv, NEW c \in CPUs, NEW s \in Slots, Fork(c, s)
  PROVE  IInv'
  <1>0. /\ TypeOK /\ CpuSound /\ Running /\ LocksHeld /\ Resting /\ Forking
        /\ Parents /\ Orphans /\ Waking
      BY DEF IInv
  <1>1. PICK n \in Slots :
          /\ plock[n] = None /\ state[n] = "UNUSED"
          /\ plock' = [plock EXCEPT ![n] = c]
          /\ state' = [state EXCEPT ![n] = "USED"]
          /\ np' = [np EXCEPT ![s] = n]
      BY DEF Fork
  <1>2. /\ Runs(c, s) /\ ppc[s] = "user"
        /\ ppc' = [ppc EXCEPT ![s] = "fork_copy"]
        /\ parent' = parent /\ chan' = chan /\ killed' = killed /\ wlock' = wlock
        /\ cur' = cur /\ cpc' = cpc /\ cont' = cont /\ k' = k /\ wk' = wk
      BY DEF Fork, Goto, Syscall, At, cpuVars
  <1>3. state[s] = "RUNNING" /\ cur[c] = s /\ n # s /\ n # Initproc /\ n # None
      BY <1>0, <1>1, <1>2, RunsAlone, Basics DEF Parents, Alive
  <1>4. \A d \in CPUs : cur[d] # n
      BY <1>1, OffCpu
  <1>5. TypeOK'
      <2>1. killed' \in [Slots -> BOOLEAN]
          BY <1>0, <1>2 DEF TypeOK
      <2> QED BY <1>0, <1>1, <1>2, <2>1 DEF TypeOK, States, Points
  <1>6. CpuSound'
      BY <1>0, <1>2 DEF CpuSound
  <1>7. Running'
      BY <1>0, <1>1, <1>2, <1>4 DEF Running, Runs, TypeOK, CpuSound
  <1>8. LocksHeld'
      <2>1. \A d \in CPUs : Runs(d, s) => d = c
          BY <1>2, RunsAlone DEF Runs
      <2>2. \A t \in Slots \ {s} : ppc'[t] = ppc[t] /\ np'[t] = np[t]
          BY <1>0, <1>1, <1>2 DEF TypeOK
      <2>3. \A x \in Slots : plock[x] # None => plock'[x] = plock[x]
          BY <1>0, <1>1 DEF TypeOK
      <2>4. ppc'[s] = "fork_copy" /\ np'[s] = n /\ plock'[n] = c
          BY <1>0, <1>1, <1>2 DEF TypeOK
      <2>5. \A t \in Slots : ppc[t] = "fork_copy" => np[t] \in Slots
          BY <1>0 DEF Forking, Pos, TypeOK
      <2>6. ASSUME NEW d \in CPUs, cpc[d] = "back" PROVE plock'[cur[d]] = d
          <3>1. plock[cur[d]] = d /\ cur[d] \in Slots
              BY <1>0, <2>6 DEF LocksHeld, CpuSound, TypeOK
          <3> QED BY <2>3, <3>1, Basics
      <2>7. ASSUME NEW d \in CPUs, NEW t \in Slots, Runs(d, t)
            PROVE  /\ ppc'[t] \in Resuming => plock'[t] = d
                   /\ ppc'[t] = "fork_copy" => plock'[np'[t]] = d
                   /\ ppc'[t] = "ps_parent" => k[t] \in Slots /\ plock'[k[t]] = d
                   /\ ppc'[t] \in WaitLocked => wlock = d
          <3>1. CASE t = s
              BY <2>1, <2>4, <2>7, <3>1 DEF Resuming, WaitLocked
          <3>2. CASE t # s
              <4>1. ppc'[t] = ppc[t] /\ np'[t] = np[t] /\ d # None
                  BY <2>2, <3>2, Basics
              <4>2. /\ ppc[t] \in Resuming => plock[t] = d
                    /\ ppc[t] = "fork_copy" => plock[np[t]] = d
                    /\ ppc[t] = "ps_parent" => k[t] \in Slots /\ plock[k[t]] = d
                    /\ ppc[t] \in WaitLocked => wlock = d
                  BY <1>0, <2>7 DEF LocksHeld
              <4> QED BY <2>3, <2>5, <4>1, <4>2
          <3> QED BY <3>1, <3>2
      <2> QED BY <1>2, <2>6, <2>7 DEF LocksHeld, Runs
  <1>9. Resting'
      BY <1>0, <1>1, <1>2, <1>3 DEF Resting, TypeOK
  <1>10. Forking'
      <2>1. \A t \in Slots : np[t] # n
          BY <1>0, <1>1, <1>3 DEF Forking
      <2>2. np[s] = None
          BY <1>0, <1>2 DEF Forking, Pos
      <2> QED BY <1>0, <1>1, <1>2, <1>3, <2>1, <2>2 DEF Forking, TypeOK, Pos
  <1>11. Parents'
      BY <1>0, <1>1, <1>2, <1>3 DEF Parents, Alive, TypeOK, Pos
  <1>12. Orphans'
      BY <1>0, <1>1, <1>2 DEF Orphans, TypeOK
  <1>13. Waking'
      BY <1>0, <1>1, <1>2, <1>3 DEF Waking, TypeOK
  <1> QED BY <1>5, <1>6, <1>7, <1>8, <1>9, <1>10, <1>11, <1>12, <1>13 DEF IInv

\* fork() goes on with its slot, or gives it back.
LEMMA ForkCopyIInv ==
  ASSUME IInv, NEW c \in CPUs, NEW s \in Slots, ForkCopy(c, s)
  PROVE  IInv'
  <1>0. /\ TypeOK /\ CpuSound /\ Running /\ LocksHeld /\ Resting /\ Forking
        /\ Parents /\ Orphans /\ Waking
      BY DEF IInv
  <1> DEFINE n == np[s]
  <1>1. /\ Runs(c, s) /\ ppc[s] = "fork_copy"
        /\ plock' = [plock EXCEPT ![n] = None]
        /\ wlock' = wlock /\ cur' = cur /\ cpc' = cpc /\ cont' = cont
        /\ k' = k /\ wk' = wk
      BY DEF ForkCopy, At, cpuVars
  <1>2. /\ n \in Slots /\ n # None /\ state[n] = "USED" /\ plock[n] = c
        /\ \A t \in Slots : np[t] = n => t = s
      BY <1>0, <1>1, Basics DEF Forking, Pos, TypeOK, LocksHeld
  <1>3. state[s] = "RUNNING" /\ cur[c] = s /\ n # s /\ n # Initproc
      BY <1>0, <1>1, <1>2, RunsAlone, Basics DEF Parents, Alive
  <1>4. \A d \in CPUs : cur[d] # n
      BY <1>2, OffCpu
  <1> HIDE DEF n
  <1>5. CASE /\ ppc' = [ppc EXCEPT ![s] = "fork_parent"] /\ np' = np
             /\ state' = state /\ parent' = parent /\ chan' = chan
             /\ killed' = killed
      <2>1. TypeOK'
          <3>1. killed' \in [Slots -> BOOLEAN]
              BY <1>0, <1>5 DEF TypeOK
          <3> QED BY <1>0, <1>1, <1>2, <1>5, <3>1 DEF TypeOK, Points, Unlocked
      <2>2. CpuSound' /\ Running' /\ Resting'
          BY <1>0, <1>1, <1>3, <1>5, QuietStep DEF TypeOK
      <2>3. LocksHeld'
          <3>1. \A t \in Slots : Runs(c, t) => t = s
              BY <1>1, RunsAlone
          <3> QED BY <1>0, <1>1, <1>2, <1>3, <1>4, <1>5, <3>1, Basics
                  DEF LocksHeld, Runs, TypeOK, Resuming, WaitLocked
      <2>4. Forking'
          BY <1>0, <1>1, <1>5 DEF Forking, TypeOK, Pos
      <2>5. Parents' /\ Orphans' /\ Waking'
          BY <1>0, <1>1, <1>5 DEF Parents, Orphans, Waking, Alive, TypeOK, Pos
      <2> QED BY <2>1, <2>2, <2>3, <2>4, <2>5 DEF IInv
  <1>6. CASE /\ ppc' = [ppc EXCEPT ![s] = "user"]
             /\ np' = [np EXCEPT ![s] = None]
             /\ state' = [state EXCEPT ![n] = "UNUSED"]
             /\ parent' = [parent EXCEPT ![n] = None]
             /\ chan' = [chan EXCEPT ![n] = None]
             /\ killed' = [killed EXCEPT ![n] = FALSE]
      <2>1. TypeOK'
          <3>1. killed' \in [Slots -> BOOLEAN]
              BY <1>0, <1>6 DEF TypeOK
          <3> QED BY <1>0, <1>1, <1>2, <1>6, <3>1
                  DEF TypeOK, Points, Unlocked, States
      <2>2. CpuSound'
          BY <1>0, <1>1 DEF CpuSound
      <2>3. Running'
          BY <1>0, <1>1, <1>2, <1>4, <1>6 DEF Running, Runs, TypeOK, CpuSound
      <2>4. LocksHeld'
          <3>1. \A t \in Slots : Runs(c, t) => t = s
              BY <1>1, RunsAlone
          <3> QED BY <1>0, <1>1, <1>2, <1>3, <1>4, <1>6, <3>1, Basics
                  DEF LocksHeld, Runs, TypeOK, Resuming, WaitLocked, Forking
      <2>5. Resting'
          BY <1>0, <1>1, <1>2, <1>3, <1>6 DEF Resting, TypeOK
      <2>6. Forking'
          <3>1. \A t \in Slots \ {s} : np[t] # n
              BY <1>2
          <3> QED BY <1>0, <1>1, <1>2, <1>3, <1>6, <3>1 DEF Forking, TypeOK, Pos
      <2>7. Parents'
          BY <1>0, <1>1, <1>2, <1>3, <1>6 DEF Parents, Alive, TypeOK, Pos
      <2>8. Orphans'
          BY <1>0, <1>1, <1>2, <1>6, Basics DEF Orphans, TypeOK
      <2>9. Waking'
          BY <1>0, <1>1, <1>2, <1>3, <1>6, Basics DEF Waking, TypeOK
      <2> QED BY <2>1, <2>2, <2>3, <2>4, <2>5, <2>6, <2>7, <2>8, <2>9 DEF IInv
  <1> QED BY <1>5, <1>6 DEF ForkCopy, Goto, Freed, procVars, n

\* The child gets its parent; nobody has wait_lock.
LEMMA ForkParentIInv ==
  ASSUME IInv, NEW c \in CPUs, NEW s \in Slots, ForkParent(c, s)
  PROVE  IInv'
  <1>0. /\ TypeOK /\ CpuSound /\ Running /\ LocksHeld /\ Resting /\ Forking
        /\ Parents /\ Orphans /\ Waking
      BY DEF IInv
  <1> DEFINE n == np[s]
  <1>1. /\ Runs(c, s) /\ ppc[s] = "fork_parent" /\ wlock = None
        /\ parent' = [parent EXCEPT ![n] = s]
        /\ ppc' = [ppc EXCEPT ![s] = "fork_run"]
        /\ state' = state /\ chan' = chan /\ killed' = killed /\ plock' = plock
        /\ wlock' = wlock /\ cur' = cur /\ cpc' = cpc /\ cont' = cont /\ k' = k
        /\ wk' = wk /\ np' = np
      BY DEF ForkParent, At, Goto, cpuVars, loopVars
  <1>2. /\ n \in Slots /\ n # None /\ state[n] = "USED"
        /\ \A t \in Slots : np[t] = n => t = s
      BY <1>0, <1>1, Basics DEF Forking, Pos, TypeOK
  <1>3. state[s] = "RUNNING" /\ n # s
      BY <1>1, <1>2, RunsAlone
  <1>4. \A t \in Slots : ppc[t] \notin WaitLocked
      BY <1>1, NoHolder
  <1>5. Forking'
      BY <1>0, <1>1, <1>2 DEF Forking, TypeOK, Pos
  <1> HIDE DEF n
  <1>6. TypeOK'
      <2>1. killed' \in [Slots -> BOOLEAN]
          BY <1>0, <1>1 DEF TypeOK
      <2> QED BY <1>0, <1>1, <1>2, <2>1 DEF TypeOK, Points, Unlocked
  <1>7. CpuSound' /\ Running' /\ Resting'
      BY <1>0, <1>1, <1>3, QuietStep DEF TypeOK
  <1>8. LocksHeld'
      BY <1>0, <1>1 DEF LocksHeld, Runs, TypeOK, Resuming, WaitLocked
  <1>9. Parents'
      BY <1>0, <1>1, <1>2, <1>3, Basics DEF Parents, Alive, TypeOK, Pos
  <1>10. Orphans'
      BY <1>0, <1>1, <1>2, <1>4 DEF Orphans, TypeOK, WaitLocked
  <1>11. Waking'
      BY <1>0, <1>1, <1>2, <1>3, <1>4 DEF Waking, TypeOK, WaitLocked
  <1> QED BY <1>5, <1>6, <1>7, <1>8, <1>9, <1>10, <1>11 DEF IInv

\* The child is RUNNABLE.
LEMMA ForkRunIInv ==
  ASSUME IInv, NEW c \in CPUs, NEW s \in Slots, ForkRun(c, s)
  PROVE  IInv'
  <1>0. /\ TypeOK /\ CpuSound /\ Running /\ LocksHeld /\ Resting /\ Forking
        /\ Parents /\ Orphans /\ Waking
      BY DEF IInv
  <1> DEFINE n == np[s]
  <1>1. /\ Runs(c, s) /\ ppc[s] = "fork_run" /\ plock[n] = None
        /\ state' = [state EXCEPT ![n] = "RUNNABLE"]
        /\ ppc' = [ppc EXCEPT ![s] = "user", ![n] = "forkret"]
        /\ np' = [np EXCEPT ![s] = None]
        /\ parent' = parent /\ chan' = chan /\ killed' = killed /\ plock' = plock
        /\ wlock' = wlock /\ cur' = cur /\ cpc' = cpc /\ cont' = cont /\ k' = k
        /\ wk' = wk
      BY DEF ForkRun, At, cpuVars
  <1>2. /\ n \in Slots /\ n # None /\ state[n] = "USED" /\ parent[n] = s
        /\ \A t \in Slots : np[t] = n => t = s
        /\ ppc[n] \in {"forkret", "dead"} /\ np[n] = None
      <2>1. n # None
          BY <1>0, <1>1 DEF Forking, Pos
      <2>2. n \in Slots
          BY <1>0, <2>1 DEF TypeOK
      <2>3. /\ state[n] = "USED" /\ parent[n] = s
            /\ \A t \in Slots : np[t] = n => t = s
          BY <1>0, <1>1, <2>1 DEF Forking, Pos
      <2>4. ppc[n] \in {"forkret", "dead"}
          BY <1>0, <2>2, <2>3 DEF Resting
      <2> QED BY <1>0, <2>1, <2>2, <2>3, <2>4 DEF Forking, Pos
  <1>3. state[s] = "RUNNING" /\ n # s /\ n # Initproc
      BY <1>0, <1>1, <1>2, RunsAlone DEF Parents, Alive
  <1>4. \A d \in CPUs : cur[d] # n
      BY <1>2, OffCpu
  <1> HIDE DEF n
  <1>5. TypeOK'
      <2>1. killed' \in [Slots -> BOOLEAN]
          BY <1>0, <1>1 DEF TypeOK
      <2> QED BY <1>0, <1>1, <1>2, <2>1 DEF TypeOK, Points, Unlocked, States
  <1>6. CpuSound'
      BY <1>0, <1>1 DEF CpuSound
  <1>7. Running'
      BY <1>0, <1>1, <1>2, <1>4 DEF Running, Runs, TypeOK, CpuSound
  <1>8. LocksHeld'
      BY <1>0, <1>1, <1>2, <1>4 DEF LocksHeld, Runs, TypeOK, Resuming, WaitLocked
  <1>9. Resting'
      BY <1>0, <1>1, <1>2, <1>3 DEF Resting, TypeOK, Resuming
  <1>10. Forking'
      <2>1. \A t \in Slots \ {s} : np[t] # n
          BY <1>2
      <2> QED BY <1>0, <1>1, <1>2, <1>3, <2>1 DEF Forking, TypeOK, Pos
  <1>11. Parents'
      BY <1>0, <1>1, <1>2, <1>3, Basics DEF Parents, Alive, TypeOK, Pos
  <1>12. Orphans'
      BY <1>0, <1>1, <1>2 DEF Orphans, TypeOK
  <1>13. Waking'
      BY <1>0, <1>1, <1>2, <1>3 DEF Waking, TypeOK
  <1> QED BY <1>5, <1>6, <1>7, <1>8, <1>9, <1>10, <1>11, <1>12, <1>13 DEF IInv

\* kill() makes a sleeper RUNNABLE.
LEMMA KillIInv ==
  ASSUME IInv, NEW c \in CPUs, NEW s \in Slots, NEW v \in Killable, Kill(c, s, v)
  PROVE  IInv'
  <1>0. /\ TypeOK /\ CpuSound /\ Running /\ LocksHeld /\ Resting /\ Forking
        /\ Parents /\ Orphans /\ Waking
      BY DEF IInv
  <1>1. /\ v \in Slots /\ plock[v] = None
        /\ killed' = [killed EXCEPT ![v] = TRUE]
        /\ state' = [state EXCEPT ![v] =
                       IF state[v] = "SLEEPING" THEN "RUNNABLE" ELSE state[v]]
        /\ parent' = parent /\ chan' = chan /\ plock' = plock /\ wlock' = wlock
        /\ cur' = cur /\ cpc' = cpc /\ ppc' = ppc /\ cont' = cont /\ k' = k
        /\ wk' = wk /\ np' = np
      BY <1>0, ProcAssumption DEF Kill, cpuVars, loopVars, TypeOK, Slots
  <1>2. TypeOK'
      <2>1. killed' \in [Slots -> BOOLEAN]
          BY <1>0, <1>1 DEF TypeOK
      <2> QED BY <1>0, <1>1, <2>1 DEF TypeOK, States
  <1>3. CpuSound' /\ LocksHeld'
      BY <1>0, <1>1 DEF CpuSound, LocksHeld, Runs
  <1>4. Running'
      BY <1>0, <1>1, Basics DEF Running, Runs, TypeOK, CpuSound
  <1>5. Resting'
      BY <1>0, <1>1 DEF Resting, TypeOK, Resuming
  <1>6. Forking'
      BY <1>0, <1>1 DEF Forking, TypeOK, Pos
  <1>7. Parents' /\ Orphans'
      BY <1>0, <1>1 DEF Parents, Orphans, Alive, TypeOK, Pos
  <1>8. Waking'
      BY <1>0, <1>1 DEF Waking, TypeOK
  <1> QED BY <1>2, <1>3, <1>4, <1>5, <1>6, <1>7, <1>8 DEF IInv
-----------------------------------------------------------------------------
\* A step of a running thread that takes or releases no p->lock.
LEMMA LocksStep ==
  ASSUME IInv, NEW c \in CPUs, NEW s \in Slots, Runs(c, s),
         cur' = cur, cpc' = cpc, plock' = plock, np' = np,
         \A t \in Slots \ {s} : ppc'[t] = ppc[t] /\ k'[t] = k[t],
         wlock' = wlock \/ wlock = None \/ ppc[s] \in WaitLocked,
         ppc'[s] \notin Resuming \cup {"fork_copy", "ps_parent"},
         ppc'[s] \in WaitLocked => wlock' = c
  PROVE  LocksHeld'
  <1>1. \A d \in CPUs : Runs(d, s) => d = c
      BY RunsAlone DEF Runs
  <1>2. ASSUME NEW t \in Slots \ {s}, ppc[t] \in WaitLocked PROVE wlock' = wlock
      BY <1>2, OnlyHolder, NoHolder
  <1>3. ASSUME NEW d \in CPUs, NEW t \in Slots, Runs(d, t)
        PROVE  /\ ppc'[t] \in Resuming => plock[t] = d
               /\ ppc'[t] = "fork_copy" => plock[np[t]] = d
               /\ ppc'[t] = "ps_parent" => k'[t] \in Slots /\ plock[k'[t]] = d
               /\ ppc'[t] \in WaitLocked => wlock' = d
      <2>1. CASE t = s
          BY <1>1, <1>3, <2>1
      <2>2. CASE t # s
          BY <1>2, <1>3, <2>2 DEF IInv, LocksHeld
      <2> QED BY <2>1, <2>2
  <1>4. \A d \in CPUs : cpc[d] = "back" => plock[cur[d]] = d
      BY DEF IInv, LocksHeld
  <1> QED BY <1>3, <1>4 DEF LocksHeld, Runs

\* A step of a running thread, not in fork() or in the wakeup() of reparent(),
\* to a point of which the table's invariants say nothing.
LEMMA EasyStep ==
  ASSUME IInv, NEW s \in Slots, state[s] = "RUNNING",
         state' = state, parent' = parent, np' = np, cont' = cont,
         \A t \in Slots \ {s} : ppc'[t] = ppc[t] /\ k'[t] = k[t] /\ wk'[t] = wk[t],
         ppc[s] \notin {"yielded", "fork_copy", "fork_parent", "fork_run",
                        "wake_init"},
         ppc'[s] \in {"user", "wait", "ps", "ps_scan", "ps_parent"}
  PROVE  Forking' /\ Parents' /\ Orphans' /\ Waking'
  <1>1. /\ \A t \in Slots \ {s} : Pos(t)' = Pos(t)
        /\ Pos(s)' = ppc'[s] /\ Pos(s) = ppc[s]
      BY DEF Pos
  <1>2. Forking'
      BY <1>1 DEF IInv, Forking
  <1>3. Parents'
      BY <1>1 DEF IInv, Parents, Alive
  <1>4. Orphans'
      BY DEF IInv, Orphans
  <1>5. Waking'
      BY DEF IInv, Waking
  <1> QED BY <1>2, <1>3, <1>4, <1>5

\* exit(), wait() and ps() begin.
LEMMA SyscallIInv ==
  ASSUME IInv, NEW c \in CPUs, NEW s \in Slots, Exit(c, s) \/ Wait(c, s) \/ Ps(c, s)
  PROVE  IInv'
  <1>0. /\ TypeOK /\ CpuSound /\ Running /\ LocksHeld /\ Resting /\ Forking
        /\ Parents /\ Orphans /\ Waking
      BY DEF IInv
  <1>1. /\ Runs(c, s) /\ ppc[s] = "user"
        /\ state' = state /\ parent' = parent /\ chan' = chan /\ killed' = killed
        /\ plock' = plock /\ wlock' = wlock /\ cur' = cur /\ cpc' = cpc
        /\ cont' = cont /\ k' = k /\ wk' = wk /\ np' = np
      BY DEF Exit, Wait, Ps, Syscall, At, procVars, cpuVars, loopVars
  <1>2. PICK x \in {"exit", "wait", "ps"} :
          ppc' = [ppc EXCEPT ![s] = x] /\ (x = "exit" => s # Initproc)
      BY DEF Exit, Wait, Ps, Goto
  <1>3. /\ ppc'[s] = x /\ \A t \in Slots \ {s} : ppc'[t] = ppc[t]
        /\ state[s] = "RUNNING"
      BY <1>0, <1>1, <1>2, RunsAlone DEF TypeOK
  <1>4. TypeOK'
      <2>1. killed' \in [Slots -> BOOLEAN]
          BY <1>0, <1>1 DEF TypeOK
      <2> QED BY <1>0, <1>1, <1>2, <2>1 DEF TypeOK, Points, Unlocked
  <1>5. CpuSound' /\ Running' /\ Resting'
      BY <1>1, <1>3, QuietStep
  <1>6. LocksHeld'
      BY <1>1, <1>3, LocksStep DEF Resuming, WaitLocked
  <1>7. Forking' /\ Parents' /\ Orphans' /\ Waking'
      <2>1. CASE x # "exit"
          BY <1>1, <1>3, <2>1, EasyStep
      <2>2. CASE x = "exit"
          <3>1. /\ \A t \in Slots \ {s} : Pos(t)' = Pos(t)
                /\ Pos(s)' = "exit" /\ Pos(s) = "user"
              BY <1>1, <1>3, <2>2 DEF Pos
          <3>2. Forking'
              BY <1>0, <1>1, <3>1 DEF Forking
          <3>3. Parents'
              BY <1>0, <1>1, <1>2, <2>2, <3>1 DEF Parents, Alive
          <3>4. Orphans' /\ Waking'
              BY <1>0, <1>1, <1>3, <2>2 DEF Orphans, Waking
          <3> QED BY <3>2, <3>3, <3>4
      <2> QED BY <2>1, <2>2
  <1> QED BY <1>4, <1>5, <1>6, <1>7 DEF IInv

\* exit() and wait() take wait_lock.
LEMMA TakeWaitLockIInv ==
  ASSUME IInv, NEW c \in CPUs, NEW s \in Slots, ExitLock(c, s) \/ WaitLock(c, s)
  PROVE  IInv'
  <1>0. /\ TypeOK /\ CpuSound /\ Running /\ LocksHeld /\ Resting /\ Forking
        /\ Parents /\ Orphans /\ Waking
      BY DEF IInv
  <1>1. /\ Runs(c, s) /\ wlock = None /\ wlock' = c
        /\ k' = [k EXCEPT ![s] = 1]
        /\ state' = state /\ parent' = parent /\ chan' = chan /\ killed' = killed
        /\ plock' = plock /\ cur' = cur /\ cpc' = cpc
        /\ cont' = cont /\ wk' = wk /\ np' = np
      BY DEF ExitLock, WaitLock, At, procVars, cpuVars
  <1>2. PICK x \in {"reparent", "scan"} :
          /\ ppc' = [ppc EXCEPT ![s] = x]
          /\ ppc[s] = IF x = "scan" THEN "wait" ELSE "exit"
      BY DEF ExitLock, WaitLock, At, Goto
  <1>3. /\ ppc'[s] = x /\ k'[s] = 1 /\ state[s] = "RUNNING"
        /\ \A t \in Slots \ {s} : ppc'[t] = ppc[t] /\ k'[t] = k[t]
      BY <1>0, <1>1, <1>2, RunsAlone DEF TypeOK
  <1>4. TypeOK'
      <2>1. killed' \in [Slots -> BOOLEAN]
          BY <1>0, <1>1 DEF TypeOK
      <2>2. 1 \in 1 .. N + 1
          BY Basics
      <2> QED BY <1>0, <1>1, <1>2, <2>1, <2>2 DEF TypeOK, Points
  <1>5. CpuSound' /\ Running' /\ Resting'
      BY <1>1, <1>3, QuietStep
  <1>6. LocksHeld'
      BY <1>1, <1>3, LocksStep DEF Resuming, WaitLocked
  <1>7. /\ \A t \in Slots \ {s} : Pos(t)' = Pos(t)
        /\ Pos(s)' = x /\ Pos(s) = ppc[s]
      BY <1>1, <1>2, <1>3 DEF Pos
  <1>8. Forking'
      BY <1>0, <1>1, <1>2, <1>7 DEF Forking
  <1>9. Parents'
      BY <1>0, <1>1, <1>2, <1>7 DEF Parents, Alive
  <1>10. Orphans'
      BY <1>0, <1>1, <1>3, Basics DEF Orphans
  <1>11. Waking'
      BY <1>0, <1>1, <1>2, <1>3, Basics DEF Waking
  <1> QED BY <1>4, <1>5, <1>6, <1>8, <1>9, <1>10, <1>11 DEF IInv

\* reparent(), one slot.
LEMMA ReparentIInv ==
  ASSUME IInv, NEW c \in CPUs, NEW s \in Slots, Reparent(c, s)
  PROVE  IInv'
  <1>0. /\ TypeOK /\ CpuSound /\ Running /\ LocksHeld /\ Resting /\ Forking
        /\ Parents /\ Orphans /\ Waking
      BY DEF IInv
  <1>1. /\ Runs(c, s) /\ ppc[s] = "reparent"
        /\ state' = state /\ chan' = chan /\ killed' = killed
        /\ plock' = plock /\ wlock' = wlock /\ cur' = cur /\ cpc' = cpc
        /\ cont' = cont /\ np' = np
      BY DEF Reparent, At, cpuVars
  <1>2. /\ wlock = c /\ state[s] = "RUNNING" /\ s # Initproc
        /\ \A t \in Slots : ppc[t] \in WaitLocked => t = s
        /\ k[s] \in 1 .. N + 1 /\ np[s] = None
      BY <1>0, <1>1, OnlyHolder, RunsAlone
         DEF WaitLocked, Parents, Pos, TypeOK, Forking
  <1>3. \A a, n \in Slots : ~(parent[n] = a /\ state[n] = "ZOMBIE" /\ state[a] = "SLEEPING")
      BY <1>0, <1>1, <1>2 DEF Waking, WaitLocked
  <1>4. CASE /\ k[s] > N
             /\ wk' = [wk EXCEPT ![s] = 1] /\ ppc' = [ppc EXCEPT ![s] = "wake_parent"]
             /\ parent' = parent /\ k' = k
      <2>1. /\ ppc'[s] = "wake_parent" /\ wk'[s] = 1
            /\ \A t \in Slots \ {s} : ppc'[t] = ppc[t] /\ k'[t] = k[t]
          BY <1>0, <1>4 DEF TypeOK
      <2>2. TypeOK'
          <3>1. killed' \in [Slots -> BOOLEAN]
              BY <1>0, <1>1 DEF TypeOK
          <3>2. wk' \in [Slots -> 1 .. N]
              BY <1>0, <1>4, Basics DEF TypeOK
          <3> QED BY <1>0, <1>1, <1>4, <3>1, <3>2 DEF TypeOK, Points
      <2>3. CpuSound' /\ Running' /\ Resting'
          BY <1>1, <1>2, <2>1, QuietStep
      <2>4. LocksHeld'
          BY <1>1, <1>2, <2>1, LocksStep DEF Resuming, WaitLocked
      <2>5. Pos(s)' = "wake_parent" /\ \A t \in Slots \ {s} : Pos(t)' = Pos(t)
          BY <1>1, <2>1 DEF Pos
      <2>6. Forking' /\ Parents'
          BY <1>0, <1>1, <1>2, <1>4, <2>5 DEF Forking, Parents, Alive
      <2>7. Orphans'
          BY <1>0, <1>1, <1>4, <2>1, Basics DEF Orphans, TypeOK
      <2>8. Waking'
          <3>1. \A t \in Slots : parent[t] # None => parent[t] >= 1
              BY <1>0, Basics DEF TypeOK
          <3> QED BY <1>0, <1>1, <1>2, <1>3, <1>4, <2>1, <3>1
                  DEF Waking, WaitLocked
      <2> QED BY <2>2, <2>3, <2>4, <2>6, <2>7, <2>8 DEF IInv
  <1>5. CASE /\ k[s] <= N /\ parent[k[s]] = s
             /\ parent' = [parent EXCEPT ![k[s]] = Initproc]
             /\ k' = [k EXCEPT ![s] = k[s] + 1]
             /\ wk' = [wk EXCEPT ![s] = 1] /\ ppc' = [ppc EXCEPT ![s] = "wake_init"]
      <2>1. /\ ppc'[s] = "wake_init" /\ wk'[s] = 1 /\ k'[s] = k[s] + 1
            /\ \A t \in Slots \ {s} :
                 ppc'[t] = ppc[t] /\ k'[t] = k[t] /\ wk'[t] = wk[t]
            /\ k[s] \in Slots /\ parent'[k[s]] = Initproc
            /\ \A n \in Slots \ {k[s]} : parent'[n] = parent[n]
          BY <1>0, <1>2, <1>5 DEF TypeOK, Slots
      <2>2. TypeOK'
          <3>1. killed' \in [Slots -> BOOLEAN]
              BY <1>0, <1>1 DEF TypeOK
          <3>2. wk' \in [Slots -> 1 .. N]
              BY <1>0, <1>5, Basics DEF TypeOK
          <3>3. k' \in [Slots -> 1 .. N + 1]
              BY <1>0, <1>2, <1>5, Basics DEF TypeOK
          <3> QED BY <1>0, <1>1, <1>5, <2>1, <3>1, <3>2, <3>3, Basics
                  DEF TypeOK, Points
      <2>3. CpuSound' /\ Running' /\ Resting'
          BY <1>1, <1>2, <2>1, QuietStep
      <2>4. LocksHeld'
          BY <1>1, <1>2, <2>1, LocksStep DEF Resuming, WaitLocked
      <2>5. Pos(s)' = "wake_init" /\ \A t \in Slots \ {s} : Pos(t)' = Pos(t)
          BY <1>1, <2>1 DEF Pos
      <2>6. Forking'
          <3>1. \A t \in Slots : Pos(t) = "fork_run" => np[t] # k[s]
              BY <1>0, <1>1, <1>5 DEF Forking, Pos
          <3>2. \A t \in Slots : Pos(t) = "fork_run" => np[t] \in Slots
              BY <1>0 DEF Forking, TypeOK
          <3> QED BY <1>0, <1>1, <1>2, <2>1, <2>5, <3>1, <3>2 DEF Forking
      <2>7. Parents'
          BY <1>0, <1>1, <1>2, <2>1, <2>5, Basics DEF Parents, Alive
      <2>8. Orphans'
          <3>1. ppc[Initproc] \notin WaitLocked
              BY <1>2, Basics
          <3>2. \A n \in Slots : parent'[n] = s => n # k[s] /\ parent[n] = s /\ n >= k[s]
              BY <1>0, <1>1, <1>2, <2>1 DEF Orphans
          <3>3. \A n \in Slots : parent'[n] = s => n >= k[s] + 1
              BY <1>2, <3>2, Basics
          <3> QED BY <1>0, <1>2, <2>1, <3>1, <3>3 DEF Orphans, WaitLocked
      <2>9. Waking'
          <3>1. \A t \in Slots \ {s} : ppc'[t] \notin WaitLocked
              BY <1>2, <2>1
          <3>2. ASSUME NEW a \in Slots, NEW n \in Slots,
                       parent'[n] = a, state[n] = "ZOMBIE", state[a] = "SLEEPING"
                PROVE  a = Initproc
              BY <1>3, <2>1, <3>2
          <3> QED BY <1>1, <2>1, <3>1, <3>2, Basics DEF Waking, WaitLocked
      <2> QED BY <2>2, <2>3, <2>4, <2>6, <2>7, <2>8, <2>9 DEF IInv
  <1>6. CASE /\ k[s] <= N /\ parent[k[s]] # s
             /\ k' = [k EXCEPT ![s] = k[s] + 1]
             /\ parent' = parent /\ wk' = wk /\ ppc' = ppc
      <2>1. /\ k'[s] = k[s] + 1 /\ \A t \in Slots \ {s} : k'[t] = k[t]
            /\ k[s] \in Slots
          BY <1>0, <1>2, <1>6 DEF TypeOK, Slots
      <2>2. TypeOK'
          <3>1. killed' \in [Slots -> BOOLEAN]
              BY <1>0, <1>1 DEF TypeOK
          <3>2. k' \in [Slots -> 1 .. N + 1]
              BY <1>0, <1>2, <1>6, Basics DEF TypeOK
          <3> QED BY <1>0, <1>1, <1>6, <3>1, <3>2 DEF TypeOK
      <2>3. CpuSound' /\ Running' /\ Resting'
          BY <1>1, <1>2, <1>6, QuietStep
      <2>4. LocksHeld'
          BY <1>1, <1>2, <1>6, <2>1, LocksStep DEF Resuming, WaitLocked
      <2>5. Forking' /\ Parents'
          BY <1>0, <1>1, <1>6 DEF Forking, Parents, Alive, Pos
      <2>6. Orphans'
          <3>1. \A n \in Slots : parent[n] = s => n >= k[s] /\ n # k[s]
              BY <1>0, <1>1, <1>6 DEF Orphans
          <3>2. \A n \in Slots : parent[n] = s => n >= k[s] + 1
              BY <1>2, <3>1, Basics
          <3> QED BY <1>0, <1>6, <2>1, <3>2 DEF Orphans
      <2>7. Waking'
          BY <1>0, <1>1, <1>6, <2>1 DEF Waking
      <2> QED BY <2>2, <2>3, <2>4, <2>5, <2>6, <2>7 DEF IInv
  <1>7. k[s] \in Nat
      BY <1>2
  <1> QED
      <2>1. parent \in [Slots -> Slots \cup {None}] /\ k \in [Slots -> 1 .. N + 1]
          BY <1>0 DEF TypeOK
      <2> QED BY <1>4, <1>5, <1>6, <2>1 DEF Reparent, Goto

\* wakeup(), one slot: whoever sleeps on the target and is reached is woken.
LEMMA WakeupIInv ==
  ASSUME IInv, NEW c \in CPUs, NEW s \in Slots, Wakeup(c, s)
  PROVE  IInv'
  <1>0. /\ TypeOK /\ CpuSound /\ Running /\ LocksHeld /\ Resting /\ Forking
        /\ Parents /\ Orphans /\ Waking
      BY DEF IInv
  <1> DEFINE target == IF ppc[s] = "wake_init" THEN Initproc ELSE parent[s]
             w == wk[s]
             last == IF ppc[s] = "wake_init" THEN "reparent" ELSE "zombie"
  <1>1. /\ Runs(c, s) /\ ppc[s] \in {"wake_init", "wake_parent"}
        /\ parent' = parent /\ chan' = chan /\ killed' = killed
        /\ plock' = plock /\ wlock' = wlock /\ cur' = cur /\ cpc' = cpc
        /\ cont' = cont /\ k' = k /\ np' = np
      BY DEF Wakeup, At, cpuVars
  <1>2. /\ wlock = c /\ state[s] = "RUNNING" /\ s # Initproc
        /\ \A t \in Slots : ppc[t] \in WaitLocked => t = s
        /\ w \in Slots /\ np[s] = None
      BY <1>0, <1>1, OnlyHolder, RunsAlone
         DEF WaitLocked, Parents, Pos, TypeOK, Forking, Slots
  <1>3. \/ state' = state /\ (w = s \/ state[w] # "SLEEPING" \/ chan[w] # target)
        \/ /\ state[w] = "SLEEPING" /\ state' = [state EXCEPT ![w] = "RUNNABLE"]
      <2>1. state = [state EXCEPT ![w] = state[w]]
          BY <1>0, <1>2 DEF TypeOK
      <2> QED BY <2>1 DEF Wakeup
  <1>4. /\ \A t \in Slots : \/ state'[t] = state[t]
                            \/ state[t] = "SLEEPING" /\ state'[t] = "RUNNABLE"
        /\ target = w => state'[w] # "SLEEPING"
        /\ state' \in [Slots -> States]
      <2>1. state \in [Slots -> States] /\ (state[w] = "SLEEPING" => chan[w] = w)
          BY <1>0, <1>2 DEF TypeOK, Resting
      <2> QED BY <1>2, <1>3, <2>1 DEF States
  <1>5. \/ /\ w = N /\ ppc' = [ppc EXCEPT ![s] = last] /\ wk' = [wk EXCEPT ![s] = 1]
        \/ /\ w # N /\ ppc' = ppc /\ wk' = [wk EXCEPT ![s] = w + 1]
      BY DEF Wakeup, Goto
  <1>6. /\ \A t \in Slots \ {s} : ppc'[t] = ppc[t] /\ wk'[t] = wk[t]
        /\ \/ w = N /\ ppc'[s] = last /\ wk'[s] = 1
           \/ w # N /\ ppc'[s] = ppc[s] /\ wk'[s] = w + 1
        /\ ppc'[s] \in WaitLocked \ {"scan", "sleep", "ps_scan", "ps_parent"}
      BY <1>0, <1>1, <1>5 DEF TypeOK, WaitLocked
  <1> HIDE DEF w, target, last
  <1>7. TypeOK'
      <2>1. killed' \in [Slots -> BOOLEAN]
          BY <1>0, <1>1 DEF TypeOK
      <2>2. wk' \in [Slots -> 1 .. N]
          <3>1. 1 \in 1 .. N /\ (w # N => w + 1 \in 1 .. N)
              BY <1>2, Basics DEF Slots
          <3>2. wk \in [Slots -> 1 .. N]
              BY <1>0 DEF TypeOK
          <3> QED BY <1>5, <3>1, <3>2
      <2>3. ppc' \in [Slots -> Points]
          BY <1>0, <1>5 DEF TypeOK, Points, last
      <2> QED BY <1>0, <1>1, <1>4, <2>1, <2>2, <2>3 DEF TypeOK
  <1>8. CpuSound'
      BY <1>0, <1>1 DEF CpuSound
  <1>9. Running'
      <2>1. \A d \in CPUs : cpc[d] = "back" => cur[d] \in Slots
          BY <1>0 DEF CpuSound, TypeOK
      <2> QED BY <1>0, <1>1, <1>4, <2>1 DEF Running, Runs
  <1>10. Resting'
      <2>1. ppc'[s] \notin Resuming \cup {"dead"}
          BY <1>6 DEF WaitLocked, Resuming
      <2>2. state'[s] = "RUNNING"
          BY <1>2, <1>4
      <2>3. ASSUME NEW t \in Slots \ {s}
            PROVE  /\ state'[t] \in {"UNUSED", "USED"} => ppc'[t] \in {"forkret", "dead"}
                   /\ state'[t] = "RUNNABLE" => ppc'[t] \in Resuming
                   /\ state'[t] = "SLEEPING" => ppc'[t] = "slept" /\ chan'[t] = t
                   /\ state'[t] = "ZOMBIE" => ppc'[t] = "dead"
                   /\ state'[t] = "RUNNING" => ppc'[t] # "dead"
          BY <1>0, <1>1, <1>4, <1>6 DEF Resting, Resuming
      <2> QED BY <2>1, <2>2, <2>3 DEF Resting
  <1>11. LocksHeld'
      BY <1>1, <1>2, <1>6, LocksStep DEF Resuming, WaitLocked
  <1>12. /\ \A t \in Slots \ {s} : Pos(t)' = Pos(t)
         /\ Pos(s)' = ppc'[s] /\ Pos(s) = ppc[s]
      BY <1>1, <1>6 DEF Pos, WaitLocked
  <1>13. Forking'
      <2>1. \A t \in Slots : np[t] # None => state'[np[t]] = state[np[t]]
          BY <1>0, <1>4 DEF Forking, TypeOK
      <2> QED BY <1>0, <1>1, <1>2, <1>6, <1>12, <2>1 DEF Forking, WaitLocked
  <1>14. Parents'
      <2>1. \A t \in Slots : Alive(t) => Alive(t)'
          BY <1>4 DEF Alive
      <2>2. \A t \in Slots : state'[t] \notin {"UNUSED", "USED"}
                               => state[t] \notin {"UNUSED", "USED"}
          BY <1>4
      <2>3. parent \in [Slots -> Slots \cup {None}]
          BY <1>0 DEF TypeOK
      <2> QED BY <1>0, <1>1, <1>2, <1>12, <2>1, <2>2, <2>3, Basics DEF Parents
  <1>15. Orphans'
      BY <1>0, <1>1, <1>6 DEF Orphans, last
  <1>16. Waking'
      <2>1. ASSUME NEW a \in Slots, NEW n \in Slots, parent[n] = a, state'[n] = "ZOMBIE"
            PROVE  state'[a] # "SLEEPING" /\ ppc'[a] \notin {"scan", "sleep"}
          <3>1. state[n] = "ZOMBIE" /\ (state'[a] = "SLEEPING" => state[a] = "SLEEPING")
              BY <1>4, <2>1
          <3>2. ASSUME state'[a] = "SLEEPING" PROVE FALSE
              <4>1. a = Initproc /\ \E e \in Slots : ppc[e] = "wake_init" /\ wk[e] = Initproc
                  BY <1>0, <2>1, <3>1, <3>2 DEF Waking
              <4>2. ppc[s] = "wake_init" /\ w = Initproc
                  BY <1>2, <4>1 DEF WaitLocked, w
              <4> QED BY <1>4, <3>2, <4>1, <4>2 DEF target
          <3>3. ppc'[a] \notin {"scan", "sleep"}
              BY <1>2, <1>6 DEF WaitLocked
          <3> QED BY <3>2, <3>3
      <2>2. ASSUME NEW t \in Slots, parent[t] # None, state'[parent[t]] = "SLEEPING"
            PROVE  /\ ppc'[t] = "wake_parent" => wk'[t] <= parent[t]
                   /\ ppc'[t] # "zombie"
          <3>1. parent[t] \in Slots /\ state[parent[t]] = "SLEEPING"
              BY <1>0, <1>4, <2>2 DEF TypeOK
          <3>2. CASE t # s
              BY <1>2, <1>6, <3>2 DEF WaitLocked
          <3>3. CASE t = s
              <4>1. ppc'[s] \in {"wake_parent", "zombie"} => ppc[s] = "wake_parent"
                  BY <1>1, <1>6 DEF last
              <4>2. ppc[s] = "wake_parent" => w <= parent[s] /\ w # parent[s]
                  BY <1>0, <1>4, <2>2, <3>1, <3>3 DEF Waking, target, w
              <4>3. ppc[s] = "wake_parent" => w + 1 <= parent[s] /\ w # N
                  <5>1. /\ w \in Nat /\ parent[s] \in Nat /\ N \in Nat
                        /\ parent[s] <= N
                      BY <1>2, <3>1, <3>3, Basics
                  <5> QED BY <4>2, <5>1
              <4> QED BY <1>1, <1>6, <3>3, <4>1, <4>3
          <3> QED BY <3>2, <3>3
      <2> QED BY <1>1, <2>1, <2>2 DEF Waking
  <1> QED BY <1>7, <1>8, <1>9, <1>10, <1>11, <1>13, <1>14, <1>15, <1>16 DEF IInv

\* exit() ends: the process has no children left and its parent is awake.
LEMMA ZombieIInv ==
  ASSUME IInv, NEW c \in CPUs, NEW s \in Slots, Zombie(c, s)
  PROVE  IInv'
  <1>0. /\ TypeOK /\ CpuSound /\ Running /\ LocksHeld /\ Resting /\ Forking
        /\ Parents /\ Orphans /\ Waking
      BY DEF IInv
  <1>1. /\ Runs(c, s) /\ ppc[s] = "zombie" /\ plock[s] = None
        /\ plock' = [plock EXCEPT ![s] = c] /\ wlock' = None
        /\ state' = [state EXCEPT ![s] = "ZOMBIE"]
        /\ cpc' = [cpc EXCEPT ![c] = "back"]
        /\ ppc' = [ppc EXCEPT ![s] = "dead"] /\ k' = [k EXCEPT ![s] = 1]
        /\ parent' = parent /\ chan' = chan /\ killed' = killed /\ cur' = cur
        /\ cont' = cont /\ wk' = wk /\ np' = np
      BY DEF Zombie, At, Goto
  <1>2. /\ wlock = c /\ s # Initproc /\ np[s] = None
        /\ \A t \in Slots : ppc[t] \in WaitLocked => t = s
        /\ state[s] = "RUNNING" /\ cur[c] = s /\ cpc[c] = "run"
        /\ \A d \in CPUs : cur[d] = s => d = c
      BY <1>0, <1>1, OnlyHolder, RunsAlone DEF WaitLocked, Parents, Pos, Forking
  <1>3. /\ state'[s] = "ZOMBIE" /\ ppc'[s] = "dead" /\ plock'[s] = c
        /\ \A t \in Slots \ {s} : /\ state'[t] = state[t] /\ ppc'[t] = ppc[t]
                                  /\ plock'[t] = plock[t] /\ k'[t] = k[t]
        /\ \A t \in Slots \ {s} : ppc'[t] \notin WaitLocked
        /\ cpc'[c] = "back" /\ \A d \in CPUs \ {c} : cpc'[d] = cpc[d]
      BY <1>0, <1>1, <1>2 DEF TypeOK
  <1>4. TypeOK'
      <2>1. killed' \in [Slots -> BOOLEAN]
          BY <1>0, <1>1 DEF TypeOK
      <2>2. 1 \in 1 .. N + 1
          BY Basics
      <2> QED BY <1>0, <1>1, <2>1, <2>2 DEF TypeOK, States, Points
  <1>5. CpuSound'
      BY <1>0, <1>1, <1>2, <1>3, Basics DEF CpuSound
  <1>6. Running'
      BY <1>0, <1>1, <1>2, <1>3, Basics DEF Running, Runs, CpuSound, TypeOK
  <1>7. LocksHeld'
      <2>1. ASSUME NEW d \in CPUs, NEW t \in Slots, Runs(d, t)'
            PROVE  /\ ppc'[t] \in Resuming => plock'[t] = d
                   /\ ppc'[t] = "fork_copy" => plock'[np'[t]] = d
                   /\ ppc'[t] = "ps_parent" => k'[t] \in Slots /\ plock'[k'[t]] = d
                   /\ ppc'[t] \in WaitLocked => wlock' = d
          <3>1. d # c /\ Runs(d, t) /\ t # s
              BY <1>1, <1>2, <1>3, <2>1 DEF Runs
          <3>2. ppc[t] = "fork_copy" => np[t] \in Slots /\ np[t] # s
              BY <1>0, <1>2, <3>1 DEF Forking, Pos, TypeOK
          <3>3. ppc[t] # "ps_parent" /\ ppc'[t] \notin WaitLocked
              BY <1>2, <1>3, <3>1 DEF WaitLocked
          <3> QED BY <1>0, <1>1, <1>3, <3>1, <3>2, <3>3 DEF LocksHeld
      <2>2. ASSUME NEW d \in CPUs, cpc'[d] = "back" PROVE plock'[cur'[d]] = d
          <3>1. CASE d = c
              BY <1>1, <1>2, <1>3, <3>1
          <3>2. CASE d # c
              BY <1>0, <1>1, <1>2, <1>3, <2>2, <3>2 DEF LocksHeld, CpuSound, TypeOK
          <3> QED BY <3>1, <3>2
      <2> QED BY <2>1, <2>2 DEF LocksHeld
  <1>8. Resting'
      BY <1>0, <1>1, <1>3 DEF Resting
  <1>9. /\ \A t \in Slots \ {s} : Pos(t)' = Pos(t)
        /\ Pos(s)' = "dead" /\ Pos(s) = "zombie"
      BY <1>1, <1>3 DEF Pos
  <1>10. Forking'
      <2>1. \A t \in Slots : np[t] # None => np[t] \in Slots \ {s}
          BY <1>0, <1>2 DEF Forking, TypeOK
      <2> QED BY <1>0, <1>1, <1>2, <1>3, <1>9, <2>1 DEF Forking
  <1>11. \A t \in Slots : parent[t] # s /\ (parent[t] # None => parent[t] \in Slots)
      BY <1>0, <1>1 DEF Orphans, TypeOK
  <1>12. Parents'
      <2>1. \A t \in Slots \ {s} : Alive(t) => Alive(t)'
          BY <1>3 DEF Alive
      <2>2. \A t \in Slots : state'[t] \notin {"UNUSED", "USED"}
                               => state[t] \notin {"UNUSED", "USED"}
          BY <1>2, <1>3
      <2>3. \A t \in Slots : parent'[t] # None => Alive(parent[t])'
          BY <1>0, <1>1, <1>11, <2>1 DEF Parents
      <2>4. Alive(Initproc)'
          BY <1>0, <1>2, <2>1, Basics DEF Parents
      <2> QED BY <1>0, <1>1, <1>9, <2>2, <2>3, <2>4 DEF Parents
  <1>13. Orphans'
      BY <1>1, <1>3, <1>11 DEF Orphans, WaitLocked
  <1>14. Waking'
      <2>1. ASSUME NEW a \in Slots, NEW n \in Slots, parent[n] = a, state'[n] = "ZOMBIE"
            PROVE  state'[a] # "SLEEPING" /\ ppc'[a] \notin {"scan", "sleep"}
          <3>1. a # s
              BY <1>11, <2>1
          <3>2. state[a] # "SLEEPING"
              <4>1. CASE n = s
                  BY <1>0, <1>1, <2>1, <4>1, Basics DEF Waking
              <4>2. CASE n # s
                  BY <1>0, <1>1, <1>2, <1>3, <2>1, <4>2 DEF Waking, WaitLocked
              <4> QED BY <4>1, <4>2
          <3> QED BY <1>3, <3>1, <3>2 DEF WaitLocked
      <2>2. \A t \in Slots : ppc'[t] \notin {"wake_parent", "zombie"}
          BY <1>3 DEF WaitLocked
      <2> QED BY <1>1, <2>1, <2>2 DEF Waking
  <1> QED BY <1>4, <1>5, <1>6, <1>7, <1>8, <1>10, <1>12, <1>13, <1>14 DEF IInv

\* sleep(): wait_lock is released when no child is a ZOMBIE.
LEMMA SleepIInv ==
  ASSUME IInv, NEW c \in CPUs, NEW s \in Slots, Sleep(c, s)
  PROVE  IInv'
  <1>0. /\ TypeOK /\ CpuSound /\ Running /\ LocksHeld /\ Resting /\ Forking
        /\ Parents /\ Orphans /\ Waking
      BY DEF IInv
  <1>1. /\ Runs(c, s) /\ ppc[s] = "sleep" /\ plock[s] = None
        /\ plock' = [plock EXCEPT ![s] = c] /\ wlock' = None
        /\ chan' = [chan EXCEPT ![s] = s]
        /\ state' = [state EXCEPT ![s] = "SLEEPING"]
        /\ cpc' = [cpc EXCEPT ![c] = "back"]
        /\ ppc' = [ppc EXCEPT ![s] = "slept"]
        /\ parent' = parent /\ killed' = killed /\ cur' = cur
        /\ cont' = cont /\ k' = k /\ wk' = wk /\ np' = np
      BY DEF Sleep, At, Goto, loopVars
  <1>2. /\ wlock = c /\ np[s] = None
        /\ \A t \in Slots : ppc[t] \in WaitLocked => t = s
        /\ state[s] = "RUNNING" /\ cur[c] = s /\ cpc[c] = "run"
        /\ \A d \in CPUs : cur[d] = s => d = c
      BY <1>0, <1>1, OnlyHolder, RunsAlone DEF WaitLocked, Pos, Forking
  <1>3. /\ state'[s] = "SLEEPING" /\ ppc'[s] = "slept" /\ plock'[s] = c
        /\ chan'[s] = s
        /\ \A t \in Slots \ {s} : /\ state'[t] = state[t] /\ ppc'[t] = ppc[t]
                                  /\ plock'[t] = plock[t] /\ chan'[t] = chan[t]
        /\ \A t \in Slots : ppc'[t] \notin WaitLocked
        /\ cpc'[c] = "back" /\ \A d \in CPUs \ {c} : cpc'[d] = cpc[d]
      BY <1>0, <1>1, <1>2 DEF TypeOK, WaitLocked
  <1>4. TypeOK'
      <2>1. killed' \in [Slots -> BOOLEAN]
          BY <1>0, <1>1 DEF TypeOK
      <2> QED BY <1>0, <1>1, <2>1 DEF TypeOK, States, Points
  <1>5. CpuSound'
      BY <1>0, <1>1, <1>2, <1>3, Basics DEF CpuSound
  <1>6. Running'
      BY <1>0, <1>1, <1>2, <1>3, Basics DEF Running, Runs, CpuSound, TypeOK
  <1>7. LocksHeld'
      <2>1. ASSUME NEW d \in CPUs, NEW t \in Slots, Runs(d, t)'
            PROVE  /\ ppc'[t] \in Resuming => plock'[t] = d
                   /\ ppc'[t] = "fork_copy" => plock'[np'[t]] = d
                   /\ ppc'[t] = "ps_parent" => k'[t] \in Slots /\ plock'[k'[t]] = d
                   /\ ppc'[t] \in WaitLocked => wlock' = d
          <3>1. d # c /\ Runs(d, t) /\ t # s
              BY <1>1, <1>2, <1>3, <2>1 DEF Runs
          <3>2. ppc[t] = "fork_copy" => np[t] \in Slots /\ np[t] # s
              BY <1>0, <1>2, <3>1 DEF Forking, Pos, TypeOK
          <3>3. ppc[t] # "ps_parent" /\ ppc'[t] \notin WaitLocked
              BY <1>2, <1>3, <3>1 DEF WaitLocked
          <3> QED BY <1>0, <1>1, <1>3, <3>1, <3>2, <3>3 DEF LocksHeld
      <2>2. ASSUME NEW d \in CPUs, cpc'[d] = "back" PROVE plock'[cur'[d]] = d
          <3>1. CASE d = c
              BY <1>1, <1>2, <1>3, <3>1
          <3>2. CASE d # c
              BY <1>0, <1>1, <1>2, <1>3, <2>2, <3>2 DEF LocksHeld, CpuSound, TypeOK
          <3> QED BY <3>1, <3>2
      <2> QED BY <2>1, <2>2 DEF LocksHeld
  <1>8. Resting'
      BY <1>0, <1>1, <1>3 DEF Resting
  <1>9. /\ \A t \in Slots \ {s} : Pos(t)' = Pos(t)
        /\ Pos(s)' = "slept" /\ Pos(s) = "sleep"
      BY <1>1, <1>3 DEF Pos
  <1>10. Forking'
      <2>1. \A t \in Slots : np[t] # None => np[t] \in Slots \ {s}
          BY <1>0, <1>2 DEF Forking, TypeOK
      <2> QED BY <1>0, <1>1, <1>2, <1>3, <1>9, <2>1 DEF Forking
  <1>11. Parents'
      <2>1. \A t \in Slots : Alive(t) => Alive(t)'
          BY <1>3 DEF Alive
      <2>2. \A t \in Slots : parent[t] # None => parent[t] \in Slots
          BY <1>0 DEF TypeOK
      <2>3. \A t \in Slots : state'[t] \notin {"UNUSED", "USED"}
                               => state[t] \notin {"UNUSED", "USED"}
          BY <1>2, <1>3
      <2> QED BY <1>0, <1>1, <1>9, <2>1, <2>2, <2>3, Basics DEF Parents
  <1>12. Orphans'
      BY <1>0, <1>3 DEF Orphans, WaitLocked
  <1>13. Waking'
      <2>1. ASSUME NEW a \in Slots, NEW n \in Slots, parent[n] = a, state'[n] = "ZOMBIE"
            PROVE  state'[a] # "SLEEPING"
          <3>1. n # s /\ state[n] = "ZOMBIE"
              BY <1>3, <2>1
          <3>2. a # s
              BY <1>0, <1>1, <2>1, <3>1 DEF Waking
          <3>3. state[a] # "SLEEPING"
              BY <1>0, <1>1, <1>2, <2>1, <3>1 DEF Waking, WaitLocked
          <3> QED BY <1>3, <3>2, <3>3
      <2>2. \A t \in Slots : ppc'[t] \notin {"wake_parent", "zombie", "scan", "sleep"}
          BY <1>3 DEF WaitLocked
      <2> QED BY <1>1, <2>1, <2>2 DEF Waking
  <1> QED BY <1>4, <1>5, <1>6, <1>7, <1>8, <1>10, <1>11, <1>12, <1>13 DEF IInv

\* wait(), one slot of its scan: a ZOMBIE that is reaped is nobody's parent and
\* on no CPU.
LEMMA ScanIInv ==
  ASSUME IInv, NEW c \in CPUs, NEW s \in Slots, Scan(c, s)
  PROVE  IInv'
  <1>0. /\ TypeOK /\ CpuSound /\ Running /\ LocksHeld /\ Resting /\ Forking
        /\ Parents /\ Orphans /\ Waking
      BY DEF IInv
  <1> DEFINE pp == k[s]
  <1>1. /\ Runs(c, s) /\ ppc[s] = "scan" /\ pp <= N
        /\ plock' = plock /\ cur' = cur /\ cpc' = cpc
        /\ cont' = cont /\ wk' = wk /\ np' = np
      BY DEF Scan, At, cpuVars
  <1>2. /\ wlock = c /\ state[s] = "RUNNING" /\ np[s] = None
        /\ \A t \in Slots : ppc[t] \in WaitLocked => t = s
        /\ pp \in Slots
      BY <1>0, <1>1, OnlyHolder, RunsAlone
         DEF WaitLocked, Pos, TypeOK, Forking, Slots
  <1>3. CASE /\ parent[pp] # s \/ state[pp] # "ZOMBIE"
             /\ k' = [k EXCEPT ![s] = pp + 1] /\ ppc' = ppc /\ wlock' = wlock
             /\ state' = state /\ parent' = parent /\ chan' = chan /\ killed' = killed
      <2>1. k'[s] = pp + 1 /\ \A t \in Slots \ {s} : k'[t] = k[t]
          BY <1>0, <1>3 DEF TypeOK
      <2>2. TypeOK'
          <3>1. killed' \in [Slots -> BOOLEAN]
              BY <1>0, <1>3 DEF TypeOK
          <3>2. k' \in [Slots -> 1 .. N + 1]
              <4>1. pp + 1 \in 1 .. N + 1
                  BY <1>2, Basics DEF Slots
              <4>2. k \in [Slots -> 1 .. N + 1]
                  BY <1>0 DEF TypeOK
              <4> HIDE DEF pp
              <4> QED BY <1>3, <4>1, <4>2
          <3> QED BY <1>0, <1>1, <1>3, <3>1, <3>2 DEF TypeOK
      <2>3. CpuSound' /\ Running' /\ Resting'
          BY <1>1, <1>2, <1>3, QuietStep
      <2>4. LocksHeld'
          BY <1>1, <1>2, <1>3, <2>1, LocksStep DEF Resuming, WaitLocked
      <2>5. Forking' /\ Parents' /\ Orphans'
          BY <1>0, <1>1, <1>3, <2>1 DEF Forking, Parents, Orphans, Alive, Pos
      <2>6. Waking'
          <3>1. \A n \in Slots : parent[n] = s /\ state[n] = "ZOMBIE" => n >= pp /\ n # pp
              BY <1>0, <1>1, <1>3 DEF Waking
          <3>2. \A n \in Slots : n >= pp /\ n # pp => n >= pp + 1
              <4> HIDE DEF pp
              <4> QED BY <1>2, Basics DEF Slots
          <3> QED BY <1>0, <1>1, <1>3, <2>1, <3>1, <3>2 DEF Waking
      <2> QED BY <2>2, <2>3, <2>4, <2>5, <2>6 DEF IInv
  <1>4. CASE /\ wlock' = None /\ ppc' = [ppc EXCEPT ![s] = "user"]
             /\ k' = [k EXCEPT ![s] = 1]
             /\ state' = state /\ parent' = parent /\ chan' = chan /\ killed' = killed
      <2>1. /\ ppc'[s] = "user"
            /\ \A t \in Slots \ {s} : ppc'[t] = ppc[t] /\ k'[t] = k[t]
          BY <1>0, <1>4 DEF TypeOK
      <2>2. TypeOK'
          <3>1. killed' \in [Slots -> BOOLEAN]
              BY <1>0, <1>4 DEF TypeOK
          <3>2. 1 \in 1 .. N + 1
              BY Basics
          <3> QED BY <1>0, <1>1, <1>4, <3>1, <3>2 DEF TypeOK, Points, Unlocked
      <2>3. CpuSound' /\ Running' /\ Resting'
          BY <1>1, <1>2, <1>4, <2>1, QuietStep
      <2>4. LocksHeld'
          BY <1>1, <2>1, LocksStep DEF Resuming, WaitLocked
      <2>5. Forking' /\ Parents' /\ Orphans' /\ Waking'
          BY <1>1, <1>2, <1>4, <2>1, EasyStep
      <2> QED BY <2>2, <2>3, <2>4, <2>5 DEF IInv
  <1>5. CASE /\ parent[pp] = s /\ plock[pp] = None /\ state[pp] = "ZOMBIE" /\ Freed(pp)
             /\ wlock' = None /\ ppc' = [ppc EXCEPT ![s] = "user"]
             /\ k' = [k EXCEPT ![s] = 1]
      <2>1. /\ state' = [state EXCEPT ![pp] = "UNUSED"]
            /\ parent' = [parent EXCEPT ![pp] = None]
            /\ chan' = [chan EXCEPT ![pp] = None]
            /\ killed' = [killed EXCEPT ![pp] = FALSE]
          BY <1>5 DEF Freed
      <2>2. /\ ppc'[s] = "user" /\ pp # s
            /\ \A t \in Slots \ {s} : ppc'[t] = ppc[t] /\ k'[t] = k[t]
            /\ \A t \in Slots \ {s} : ppc'[t] \notin WaitLocked
            /\ state'[pp] = "UNUSED" /\ parent'[pp] = None
            /\ \A t \in Slots \ {pp} : /\ state'[t] = state[t] /\ parent'[t] = parent[t]
                                       /\ chan'[t] = chan[t]
          BY <1>0, <1>2, <1>5, <2>1 DEF TypeOK
      <2>3. TypeOK'
          <3>1. killed' \in [Slots -> BOOLEAN]
              BY <1>0, <2>1 DEF TypeOK
          <3>2. 1 \in 1 .. N + 1
              BY Basics
          <3> QED BY <1>0, <1>1, <1>5, <2>1, <3>1, <3>2
                  DEF TypeOK, Points, Unlocked, States
      <2>4. CpuSound'
          BY <1>0, <1>1 DEF CpuSound
      <2>5. Running'
          <3>1. \A d \in CPUs : cpc[d] = "back" => cur[d] \in Slots \ {pp}
              BY <1>0, <1>5, Basics DEF LocksHeld, CpuSound, TypeOK
          <3> QED BY <1>0, <1>1, <1>5, <2>2, <3>1 DEF Running, Runs
      <2>6. LocksHeld'
          BY <1>1, <2>2, LocksStep DEF Resuming, WaitLocked
      <2>7. Resting'
          <3>1. ppc'[pp] = "dead"
              BY <1>0, <1>2, <1>5, <2>2 DEF Resting
          <3> QED BY <1>0, <1>2, <2>2, <3>1 DEF Resting
      <2>8. /\ \A t \in Slots \ {s} : Pos(t)' = Pos(t)
            /\ Pos(s)' = "user" /\ Pos(s) = "scan"
          BY <1>1, <2>2 DEF Pos
      <2>9. Forking'
          <3>1. \A t \in Slots : np[t] # None => np[t] \in Slots \ {pp}
              BY <1>0, <1>5 DEF Forking, TypeOK
          <3>2. \A t \in Slots : Pos(t) = "fork_run" => np[t] # None
              BY <1>0 DEF Forking
          <3> QED BY <1>0, <1>1, <1>2, <2>2, <2>8, <3>1, <3>2 DEF Forking
      <2>10. Parents'
          <3>1. \A t \in Slots \ {pp} : Alive(t) => Alive(t)'
              BY <2>2 DEF Alive
          <3>2. ~Alive(pp)
              BY <1>5 DEF Alive
          <3>3. \A t \in Slots : parent'[t] # None =>
                  parent'[t] = parent[t] /\ parent[t] \in Slots \ {pp}
              BY <1>0, <2>2, <3>2 DEF Parents, TypeOK
          <3>4. Alive(Initproc)' /\ \A t \in Slots : parent'[t] # None => Alive(parent[t])'
              BY <1>0, <3>1, <3>2, <3>3, Basics DEF Parents
          <3> QED BY <1>0, <2>2, <2>8, <3>3, <3>4 DEF Parents
      <2>11. Orphans'
          BY <1>0, <1>2, <2>2, Basics DEF Orphans, WaitLocked
      <2>12. Waking'
          <3>1. ASSUME NEW a \in Slots, NEW n \in Slots,
                       parent'[n] = a, state'[n] = "ZOMBIE"
                PROVE  state'[a] # "SLEEPING"
              <4>1. n # pp /\ parent[n] = a /\ state[n] = "ZOMBIE"
                  BY <2>2, <3>1
              <4>2. state[a] # "SLEEPING"
                  BY <1>0, <1>1, <1>2, <4>1 DEF Waking, WaitLocked
              <4> QED BY <2>2, <4>2
          <3>2. \A t \in Slots : ppc'[t] \notin {"wake_parent", "zombie", "scan", "sleep"}
              BY <2>2 DEF WaitLocked
          <3> QED BY <3>1, <3>2 DEF Waking
      <2> QED BY <2>3, <2>4, <2>5, <2>6, <2>7, <2>9, <2>10, <2>11, <2>12 DEF IInv
  <1> QED
      BY <1>3, <1>4, <1>5 DEF Scan, Goto, procVars

\* wait() ends its scan: it has seen every child.
LEMMA ScanEndIInv ==
  ASSUME IInv, NEW c \in CPUs, NEW s \in Slots, ScanEnd(c, s)
  PROVE  IInv'
  <1>0. /\ TypeOK /\ CpuSound /\ Running /\ LocksHeld /\ Resting /\ Forking
        /\ Parents /\ Orphans /\ Waking
      BY DEF IInv
  <1>1. /\ Runs(c, s) /\ ppc[s] = "scan" /\ k[s] > N
        /\ k' = [k EXCEPT ![s] = 1]
        /\ state' = state /\ parent' = parent /\ chan' = chan /\ killed' = killed
        /\ plock' = plock /\ cur' = cur /\ cpc' = cpc
        /\ cont' = cont /\ wk' = wk /\ np' = np
      BY DEF ScanEnd, At, procVars, cpuVars
  <1>2. PICK x \in {"user", "sleep"} :
          /\ ppc' = [ppc EXCEPT ![s] = x]
          /\ wlock' = IF x = "user" THEN None ELSE wlock
      BY DEF ScanEnd, Goto
  <1>3. /\ ppc'[s] = x /\ state[s] = "RUNNING" /\ wlock = c /\ np[s] = None
        /\ \A t \in Slots \ {s} : ppc'[t] = ppc[t] /\ k'[t] = k[t]
      BY <1>0, <1>1, <1>2, RunsAlone DEF TypeOK, LocksHeld, WaitLocked, Forking, Pos
  <1>4. TypeOK'
      <2>1. killed' \in [Slots -> BOOLEAN]
          BY <1>0, <1>1 DEF TypeOK
      <2>2. 1 \in 1 .. N + 1
          BY Basics
      <2>3. wlock' \in CPUs \cup {None}
          BY <1>2, <1>3
      <2> QED BY <1>0, <1>1, <1>2, <2>1, <2>2, <2>3 DEF TypeOK, Points, Unlocked
  <1>5. CpuSound' /\ Running' /\ Resting'
      BY <1>1, <1>3, QuietStep
  <1>6. LocksHeld'
      BY <1>1, <1>2, <1>3, LocksStep DEF Resuming, WaitLocked
  <1>7. CASE x = "user"
      <2>1. Forking' /\ Parents' /\ Orphans' /\ Waking'
          BY <1>1, <1>3, <1>7, EasyStep
      <2> QED BY <1>4, <1>5, <1>6, <2>1 DEF IInv
  <1>8. CASE x = "sleep"
      <2>1. /\ \A t \in Slots \ {s} : Pos(t)' = Pos(t)
            /\ Pos(s)' = "sleep" /\ Pos(s) = "scan"
          BY <1>1, <1>3, <1>8 DEF Pos
      <2>2. Forking' /\ Parents'
          BY <1>0, <1>1, <2>1 DEF Forking, Parents, Alive
      <2>3. Orphans'
          BY <1>0, <1>1, <1>3, <1>8 DEF Orphans
      <2>4. Waking'
          <3>1. \A n \in Slots : ~(n >= k[s])
              BY <1>0, <1>1, Basics DEF TypeOK
          <3>2. \A n \in Slots : ~(parent[n] = s /\ state[n] = "ZOMBIE")
              BY <1>0, <1>1, <3>1 DEF Waking
          <3> QED BY <1>0, <1>1, <1>3, <1>8, <3>2 DEF Waking
      <2> QED BY <1>4, <1>5, <1>6, <2>2, <2>3, <2>4 DEF IInv
  <1> QED BY <1>7, <1>8
-----------------------------------------------------------------------------
\* ps() takes wait_lock.
LEMMA PsLockIInv ==
  ASSUME IInv, NEW c \in CPUs, NEW s \in Slots, PsLock(c, s)
  PROVE  IInv'
  <1>0. TypeOK
      BY DEF IInv
  <1>1. /\ Runs(c, s) /\ ppc[s] = "ps" /\ wlock = None /\ wlock' = c
        /\ ppc' = [ppc EXCEPT ![s] = "ps_scan"]
        /\ state' = state /\ parent' = parent /\ chan' = chan /\ killed' = killed
        /\ plock' = plock /\ cur' = cur /\ cpc' = cpc /\ cont' = cont /\ np' = np
      BY DEF PsLock, At, Goto, procVars, cpuVars
  <1>2. PICK start \in Slots, last \in Slots :
          k' = [k EXCEPT ![s] = start] /\ wk' = [wk EXCEPT ![s] = last]
      BY DEF PsLock
  <1>3. /\ ppc'[s] = "ps_scan" /\ state[s] = "RUNNING"
        /\ \A t \in Slots \ {s} : ppc'[t] = ppc[t] /\ k'[t] = k[t] /\ wk'[t] = wk[t]
      BY <1>0, <1>1, <1>2, RunsAlone DEF TypeOK
  <1>4. TypeOK'
      <2>1. killed' \in [Slots -> BOOLEAN]
          BY <1>0, <1>1 DEF TypeOK
      <2>2. start \in 1 .. N + 1 /\ last \in 1 .. N
          BY Basics DEF Slots
      <2> QED BY <1>0, <1>1, <1>2, <2>1, <2>2 DEF TypeOK, Points
  <1>5. CpuSound' /\ Running' /\ Resting'
      BY <1>1, <1>3, QuietStep
  <1>6. LocksHeld'
      BY <1>1, <1>3, LocksStep DEF Resuming, WaitLocked
  <1>7. Forking' /\ Parents' /\ Orphans' /\ Waking'
      BY <1>1, <1>3, EasyStep
  <1> QED BY <1>4, <1>5, <1>6, <1>7 DEF IInv

\* A slot without a parent is passed, and ps() ends.
LEMMA PsStepIInv ==
  ASSUME IInv, NEW c \in CPUs, NEW s \in Slots,
         PsEnd(c, s) \/ (PsSlot(c, s) /\ parent[k[s]] = None)
  PROVE  IInv'
  <1>0. TypeOK
      BY DEF IInv
  <1>1. /\ Runs(c, s) /\ ppc[s] = "ps_scan"
        /\ state' = state /\ parent' = parent /\ chan' = chan /\ killed' = killed
        /\ plock' = plock /\ cur' = cur /\ cpc' = cpc /\ cont' = cont /\ np' = np
      BY DEF PsEnd, PsSlot, At, procVars, cpuVars
  <1>2. k[s] \in 1 .. N + 1 /\ wk[s] \in 1 .. N /\ N \in Nat
      BY <1>0, Basics DEF TypeOK
  <1>3. PICK i \in 1 .. N + 1, j \in 1 .. N, x \in {"ps_scan", "user"} :
          /\ k' = [k EXCEPT ![s] = i] /\ wk' = [wk EXCEPT ![s] = j]
          /\ ppc' = [ppc EXCEPT ![s] = x]
          /\ wlock' = IF x = "user" THEN None ELSE wlock
      <2>1. CASE PsEnd(c, s)
          <3>1. 1 \in 1 .. N + 1 /\ 1 \in 1 .. N
              BY <1>2
          <3> QED BY <2>1, <3>1 DEF PsEnd, Goto
      <2>2. CASE PsSlot(c, s) /\ parent[k[s]] = None
          <3>1. k[s] <= wk[s] /\ k' = [k EXCEPT ![s] = k[s] + 1] /\ wk' = wk
                /\ ppc' = ppc /\ wlock' = wlock
              BY <2>2 DEF PsSlot
          <3>2. k[s] + 1 \in 1 .. N + 1
              BY <1>2, <3>1
          <3>3. wk = [wk EXCEPT ![s] = wk[s]] /\ ppc = [ppc EXCEPT ![s] = "ps_scan"]
              BY <1>0, <1>1 DEF TypeOK
          <3> QED BY <1>2, <3>1, <3>2, <3>3
      <2> QED BY <2>1, <2>2
  <1>4. /\ ppc'[s] = x /\ state[s] = "RUNNING" /\ wlock = c
        /\ \A t \in Slots \ {s} : ppc'[t] = ppc[t] /\ k'[t] = k[t] /\ wk'[t] = wk[t]
      BY <1>0, <1>1, <1>3, RunsAlone, OnlyHolder DEF TypeOK, WaitLocked
  <1>5. TypeOK'
      <2>1. killed' \in [Slots -> BOOLEAN]
          BY <1>0, <1>1 DEF TypeOK
      <2> QED BY <1>0, <1>1, <1>3, <2>1 DEF TypeOK, Points, Unlocked
  <1>6. CpuSound' /\ Running' /\ Resting'
      BY <1>1, <1>4, QuietStep
  <1>7. LocksHeld'
      BY <1>1, <1>3, <1>4, LocksStep DEF Resuming, WaitLocked
  <1>8. Forking' /\ Parents' /\ Orphans' /\ Waking'
      BY <1>1, <1>4, EasyStep
  <1> QED BY <1>5, <1>6, <1>7, <1>8 DEF IInv

\* ps() takes the lock of a slot that has a parent, and releases it.
LEMMA PsParentIInv ==
  ASSUME IInv, NEW c \in CPUs, NEW s \in Slots,
         PsParent(c, s) \/ (PsSlot(c, s) /\ parent[k[s]] # None)
  PROVE  IInv'
  <1>0. TypeOK /\ LocksHeld /\ CpuSound
      BY DEF IInv
  <1>1. /\ Runs(c, s) /\ ppc[s] \in {"ps_scan", "ps_parent"}
        /\ state' = state /\ parent' = parent /\ chan' = chan /\ killed' = killed
        /\ wlock' = wlock /\ cur' = cur /\ cpc' = cpc /\ cont' = cont /\ np' = np
        /\ wk' = wk
      BY DEF PsParent, PsSlot, At, procVars, cpuVars
  <1>2. /\ k[s] \in 1 .. N + 1 /\ wk[s] \in 1 .. N /\ N \in Nat
        /\ state[s] = "RUNNING" /\ wlock = c
        /\ \A t \in Slots : ppc[t] \in WaitLocked => t = s
        /\ \A d \in CPUs : Runs(d, s) => d = c
      BY <1>0, <1>1, Basics, OnlyHolder, RunsAlone DEF TypeOK, WaitLocked, Runs
  <1>3. PICK x \in {"ps_scan", "ps_parent"}, o \in CPUs \cup {None}, i \in 1 .. N + 1 :
          /\ k[s] \in Slots
          /\ ppc' = [ppc EXCEPT ![s] = x] /\ k' = [k EXCEPT ![s] = i]
          /\ plock' = [plock EXCEPT ![k[s]] = o]
          /\ x = "ps_parent" => i = k[s] /\ o = c /\ plock[k[s]] = None
          /\ x = "ps_scan" => plock[k[s]] = c /\ o = None /\ ppc[s] = "ps_parent"
      <2>1. CASE PsParent(c, s)
          <3>1. k[s] \in Slots /\ plock[k[s]] = c
              BY <1>0, <1>1, <2>1 DEF PsParent, At, LocksHeld
          <3>2. k[s] + 1 \in 1 .. N + 1
              BY <1>2, <3>1 DEF Slots
          <3> QED BY <2>1, <3>1, <3>2 DEF PsParent, At, Goto
      <2>2. CASE PsSlot(c, s) /\ parent[k[s]] # None
          <3>1. k[s] <= wk[s] /\ k' = k /\ plock' = [plock EXCEPT ![k[s]] = c]
                /\ ppc' = [ppc EXCEPT ![s] = "ps_parent"] /\ plock[k[s]] = None
              BY <2>2 DEF PsSlot, Goto
          <3>2. k[s] \in Slots
              BY <1>2, <3>1 DEF Slots
          <3>3. k = [k EXCEPT ![s] = k[s]]
              BY <1>0 DEF TypeOK
          <3> QED BY <1>2, <3>1, <3>2, <3>3
      <2> QED BY <2>1, <2>2
  <1>4. /\ ppc'[s] = x /\ k'[s] = i /\ plock'[k[s]] = o
        /\ \A t \in Slots \ {s} : ppc'[t] = ppc[t] /\ k'[t] = k[t] /\ wk'[t] = wk[t]
        /\ \A t \in Slots \ {k[s]} : plock'[t] = plock[t]
      BY <1>0, <1>1, <1>3 DEF TypeOK
  <1>5. TypeOK'
      <2>1. killed' \in [Slots -> BOOLEAN]
          BY <1>0, <1>1 DEF TypeOK
      <2> QED BY <1>0, <1>1, <1>3, <2>1 DEF TypeOK, Points, Unlocked
  <1>6. CpuSound' /\ Running' /\ Resting'
      BY <1>1, <1>2, <1>4, QuietStep
  <1>7. LocksHeld'
      <2>1. \A d \in CPUs \ {c} : plock[k[s]] # d
          BY <1>3, Basics
      <2>2. ASSUME NEW d \in CPUs, d # c, NEW t \in Slots, plock[t] = d
            PROVE  plock'[t] = d
          BY <1>4, <2>1, <2>2
      <2>3. ASSUME NEW d \in CPUs, NEW t \in Slots, Runs(d, t)
            PROVE  /\ ppc'[t] \in Resuming => plock'[t] = d
                   /\ ppc'[t] = "fork_copy" => plock'[np[t]] = d
                   /\ ppc'[t] = "ps_parent" => k'[t] \in Slots /\ plock'[k'[t]] = d
                   /\ ppc'[t] \in WaitLocked => wlock' = d
          <3>1. CASE t = s
              BY <1>1, <1>2, <1>3, <1>4, <2>3, <3>1 DEF Resuming
          <3>2. CASE t # s
              <4>1. d # c
                  BY <1>1, <2>3, <3>2, RunsAlone
              <4>2. ppc[t] \notin WaitLocked /\ ppc[t] = ppc'[t]
                  BY <1>2, <1>4, <3>2
              <4>3. ppc[t] = "fork_copy" => np[t] \in Slots
                  BY <1>0 DEF IInv, Forking, Pos, TypeOK
              <4> QED BY <1>0, <1>1, <2>2, <2>3, <4>1, <4>2, <4>3
                      DEF LocksHeld, WaitLocked
          <3> QED BY <3>1, <3>2
      <2>4. ASSUME NEW d \in CPUs, cpc[d] = "back" PROVE plock'[cur[d]] = d
          <3>1. d # c /\ cur[d] \in Slots /\ plock[cur[d]] = d
              BY <1>0, <1>1, <2>4 DEF Runs, CpuSound, TypeOK, LocksHeld
          <3> QED BY <2>2, <3>1
      <2> QED BY <1>1, <2>3, <2>4 DEF LocksHeld, Runs
  <1>8. Forking' /\ Parents' /\ Orphans' /\ Waking'
      BY <1>1, <1>2, <1>4, EasyStep
  <1> QED BY <1>5, <1>6, <1>7, <1>8 DEF IInv
-----------------------------------------------------------------------------
LEMMA NextIInv == IInv /\ [Next]_vars => IInv'
  <1> SUFFICES ASSUME IInv, [Next]_vars PROVE IInv'
      OBVIOUS
  <1>1. CASE Next
      <2>1. PICK c \in CPUs :
              \/ SwitchBack(c)
              \/ \E s \in Slots : \/ Schedule(c, s) \/ Yield(c, s) \/ Resume(c, s)
                                  \/ Kernel(c, s) \/ User(c, s)
          BY <1>1 DEF Next
      <2>2. CASE SwitchBack(c)
          BY <2>2, SwitchBackIInv
      <2>3. ASSUME NEW s \in Slots, Schedule(c, s) \/ Yield(c, s) \/ Resume(c, s)
            PROVE  IInv'
          BY <2>3, ScheduleIInv, YieldIInv, ResumeIInv
      <2>4. ASSUME NEW s \in Slots, Kernel(c, s) PROVE IInv'
          <3>1. CASE ForkCopy(c, s) \/ ForkParent(c, s) \/ ForkRun(c, s)
              BY <3>1, ForkCopyIInv, ForkParentIInv, ForkRunIInv
          <3>2. CASE ExitLock(c, s) \/ Reparent(c, s) \/ Wakeup(c, s) \/ Zombie(c, s)
              BY <3>2, TakeWaitLockIInv, ReparentIInv, WakeupIInv, ZombieIInv
          <3>3. CASE WaitLock(c, s) \/ Scan(c, s) \/ ScanEnd(c, s) \/ Sleep(c, s)
              BY <3>3, TakeWaitLockIInv, ScanIInv, ScanEndIInv, SleepIInv
          <3>4. CASE PsLock(c, s) \/ PsSlot(c, s) \/ PsParent(c, s) \/ PsEnd(c, s)
              BY <3>4, PsLockIInv, PsStepIInv, PsParentIInv
          <3> QED BY <2>4, <3>1, <3>2, <3>3, <3>4 DEF Kernel
      <2>5. ASSUME NEW s \in Slots, User(c, s) PROVE IInv'
          BY <2>5, ForkIInv, SyscallIInv, KillIInv DEF User
      <2> QED BY <2>1, <2>2, <2>3, <2>4, <2>5
  <1>2. CASE UNCHANGED vars
      BY <1>2 DEF vars, IInv, TypeOK, CpuSound, Running, LocksHeld, Resting,
         Forking, Parents, Orphans, Waking, Runs, Pos, Alive
  <1> QED BY <1>1, <1>2

LEMMA Invariance == Spec => []IInv
  BY InitIInv, NextIInv, PTL DEF Spec

\* A process is on one CPU's stack at a time, RUNNING exactly when it runs, and
\* has a parent that can still wait() for it: what the hand-over of p->lock
\* across swtch() and reparent() under wait_lock in exit() are for.
THEOREM ProcessTableSound == Spec => []TableSound
  <1>1. IInv => TableSound
      <2> SUFFICES ASSUME IInv PROVE TableSound
          OBVIOUS
      <2>1. RunsOnce
          BY DEF IInv, RunsOnce, OneCPU, CpuSound, Running
      <2>2. HasLiveParent
          BY DEF IInv, HasLiveParent, Parents, Alive
      <2> QED BY <2>1, <2>2 DEF TableSound
  <1> QED BY <1>1, Invariance, PTL

\* No exit() is missed: with wait_lock free, no parent of a ZOMBIE sleeps.
THEOREM ParentWoken == Spec => []NoLostWakeup
  <1>1. IInv => NoLostWakeup
      <2> SUFFICES ASSUME IInv, wlock = None, NEW s \in Slots, NEW n \in Slots,
                          state[s] = "SLEEPING", parent[n] = s, state[n] = "ZOMBIE"
                   PROVE  FALSE
          BY DEF NoLostWakeup
      <2>1. PICK e \in Slots : ppc[e] = "wake_init"
          BY DEF IInv, Waking
      <2> QED BY <2>1, NoHolder DEF WaitLocked
  <1> QED BY <1>1, Invariance, PTL

\* allocproc() takes only UNUSED slots; freeproc() is for a child whose fork()
\* failed, or for a ZOMBIE that no CPU is on any more.
THEOREM SlotsReusedWhenFree == Spec => SlotLifecycle
  <1> DEFINE Step ==
        \A s \in Slots :
          /\ state'[s] = "USED" /\ state[s] # "USED" => state[s] = "UNUSED"
          /\ state'[s] = "UNUSED" /\ state[s] # "UNUSED"
               => \/ state[s] = "USED"
                  \/ /\ state[s] = "ZOMBIE" /\ plock[s] = None
                     /\ \A c \in CPUs : cur[c] # s
  <1>1. IInv /\ Next => Step
      <2> SUFFICES ASSUME IInv, Next, NEW t \in Slots
                   PROVE  /\ state'[t] = "USED" /\ state[t] # "USED" => state[t] = "UNUSED"
                          /\ state'[t] = "UNUSED" /\ state[t] # "UNUSED"
                               => \/ state[t] = "USED"
                                  \/ /\ state[t] = "ZOMBIE" /\ plock[t] = None
                                     /\ \A c \in CPUs : cur[c] # t
          OBVIOUS
      <2>0. TypeOK
          BY DEF IInv
      <2>1. PICK c \in CPUs :
              \/ SwitchBack(c)
              \/ \E s \in Slots : \/ Schedule(c, s) \/ Yield(c, s) \/ Resume(c, s)
                                  \/ Kernel(c, s) \/ User(c, s)
          BY DEF Next
      <2>2. CASE SwitchBack(c)
          BY <2>2 DEF SwitchBack, procVars
      <2>3. ASSUME NEW s \in Slots, Schedule(c, s) \/ Yield(c, s) \/ Resume(c, s)
            PROVE  state'[t] = state[t] \/ state'[t] \notin {"USED", "UNUSED"}
          BY <2>0, <2>3 DEF Schedule, Yield, Resume, TypeOK
      <2>4. ASSUME NEW s \in Slots, ForkCopy(c, s)
            PROVE  state'[t] = state[t] \/ (state[t] = "USED" /\ state'[t] = "UNUSED")
          <3>1. state[np[s]] = "USED"
              BY <2>4 DEF ForkCopy, At, IInv, Forking, Pos
          <3> QED BY <2>0, <2>4, <3>1 DEF ForkCopy, Freed, procVars, TypeOK
      <2>5. ASSUME NEW s \in Slots, Scan(c, s)
            PROVE  \/ state'[t] = state[t]
                   \/ /\ state'[t] = "UNUSED" /\ state[t] = "ZOMBIE" /\ plock[t] = None
                      /\ \A d \in CPUs : cur[d] # t
          <3>1. \/ state' = state
                \/ /\ state' = [state EXCEPT ![k[s]] = "UNUSED"]
                   /\ state[k[s]] = "ZOMBIE" /\ plock[k[s]] = None
              BY <2>5 DEF Scan, Freed, procVars
          <3>2. state[t] = "ZOMBIE" /\ plock[t] = None => \A d \in CPUs : cur[d] # t
              BY Basics DEF IInv, CpuSound, Running, LocksHeld, Runs, TypeOK
          <3> QED BY <2>0, <3>1, <3>2 DEF TypeOK
      <2>6. ASSUME NEW s \in Slots,
                   \/ ForkParent(c, s) \/ ForkRun(c, s) \/ ExitLock(c, s)
                   \/ Reparent(c, s) \/ Zombie(c, s) \/ WaitLock(c, s)
                   \/ ScanEnd(c, s) \/ Sleep(c, s) \/ PsLock(c, s)
                   \/ PsSlot(c, s) \/ PsParent(c, s) \/ PsEnd(c, s)
            PROVE  state'[t] = state[t] \/ state'[t] \notin {"USED", "UNUSED"}
          BY <2>0, <2>6 DEF ForkParent, ForkRun, ExitLock, Reparent, Zombie, WaitLock,
             ScanEnd, Sleep, PsLock, PsSlot, PsParent, PsEnd, procVars, TypeOK
      <2>7. ASSUME NEW s \in Slots, Wakeup(c, s)
            PROVE  state'[t] = state[t] \/ state'[t] \notin {"USED", "UNUSED"}
          BY <2>0, <2>7 DEF Wakeup, TypeOK
      <2>8. ASSUME NEW s \in Slots, User(c, s)
            PROVE  \/ state'[t] = state[t] \/ state'[t] \notin {"USED", "UNUSED"}
                   \/ state'[t] = "USED" /\ state[t] = "UNUSED"
          BY <2>0, <2>8 DEF User, Fork, Wait, Exit, Ps, Kill, procVars, TypeOK
      <2> QED BY <2>1, <2>2, <2>3, <2>4, <2>5, <2>6, <2>7, <2>8 DEF Kernel
  <1>2. IInv /\ [Next]_vars => [Step]_vars
      BY <1>1
  <1> QED BY <1>2, Invariance, PTL DEF Spec, SlotLifecycle
=============================================================================
