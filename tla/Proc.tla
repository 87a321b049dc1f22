-------------------------------- MODULE Proc --------------------------------
(***************************************************************************)
(* Processes and scheduling (kernel/proc.c): fork(), exit(), wait(),       *)
(* kill(), sleep()/wakeup() as wait() and exit() use them, the per-CPU     *)
(* scheduler, the hand-over of p->lock across swtch(), and ps().           *)
(*                                                                         *)
(* A spinlock is owned by a CPU (lk->cpu).  A section that acquires a lock *)
(* and releases it without taking another is one step, guarded by the lock *)
(* being free; a lock that is held across steps is a variable.  Timer      *)
(* interrupts preempt a process wherever it holds no lock.                 *)
(***************************************************************************)
EXTENDS Naturals, FiniteSets

CONSTANTS
  N,        \* NPROC: the process table is slots 1..N, slot 1 is initproc
  CPUs,
  None,
  Killable, \* the processes user programs call kill() on
  Observers \* the processes that call ps()

ASSUME ProcAssumption ==
  /\ N \in Nat \ {0}
  /\ None \notin CPUs /\ None \notin 1 .. N
  /\ Killable \subseteq 2 .. N   \* killing init panics by design (proc.c:449)
  /\ Observers \subseteq 1 .. N

Slots == 1 .. N
Initproc == 1

VARIABLES
  state, parent, chan, killed, \* fields of struct proc
  plock,   \* owner of p->lock: a CPU or None
  wlock,   \* owner of wait_lock
  cur,     \* c->proc
  cpc,     \* the CPU: in the scheduler, running cur, or just switched back
  ppc,     \* where the kernel thread of a process is
  cont,    \* where it was when a timer interrupt made it yield()
  k, wk,   \* loop variables: pp in reparent()/wait(), p in wakeup()
  np       \* the child being made by fork()

vars == <<state, parent, chan, killed, plock, wlock, cur, cpc, ppc, cont,
          k, wk, np>>

States == {"UNUSED", "USED", "SLEEPING", "RUNNABLE", "RUNNING", "ZOMBIE"}

\* Program points where the thread holds no lock and interrupts are on.
Unlocked == {"user", "fork_parent", "fork_run", "exit", "wait", "ps"}

\* userinit(): initproc alone is RUNNABLE; every CPU is in its scheduler.
Init ==
  /\ state = [s \in Slots |-> IF s = Initproc THEN "RUNNABLE" ELSE "UNUSED"]
  /\ parent = [s \in Slots |-> None]
  /\ chan = [s \in Slots |-> None]
  /\ killed = [s \in Slots |-> FALSE]
  /\ plock = [s \in Slots |-> None] /\ wlock = None
  /\ cur = [c \in CPUs |-> None]
  /\ cpc = [c \in CPUs |-> "sched"]
  /\ ppc = [s \in Slots |-> "forkret"]
  /\ cont = [s \in Slots |-> "user"]
  /\ k = [s \in Slots |-> 1] /\ wk = [s \in Slots |-> 1]
  /\ np = [s \in Slots |-> None]

\* Process s executes on CPU c.
Runs(c, s) == cpc[c] = "run" /\ cur[c] = s
At(c, s, point) == Runs(c, s) /\ ppc[s] = point
Goto(s, point) == ppc' = [ppc EXCEPT ![s] = point]

cpuVars  == <<cur, cpc>>
procVars == <<state, parent, chan, killed>>
loopVars == <<cont, k, wk, np>>

-----------------------------------------------------------------------------
\* The scheduler and swtch().

\* rr_scheduler(): lock a RUNNABLE process and switch to it, lock held.
Schedule(c, s) ==
  /\ cpc[c] = "sched" /\ plock[s] = None /\ state[s] = "RUNNABLE"
  /\ plock' = [plock EXCEPT ![s] = c]
  /\ state' = [state EXCEPT ![s] = "RUNNING"]
  /\ cur' = [cur EXCEPT ![c] = s]
  /\ cpc' = [cpc EXCEPT ![c] = "run"]
  /\ UNCHANGED <<parent, chan, killed, wlock, ppc, loopVars>>

\* Back in the scheduler after swtch(): c->proc = 0, release(&p->lock).
SwitchBack(c) ==
  /\ cpc[c] = "back"
  /\ plock' = [plock EXCEPT ![cur[c]] = None]
  /\ cur' = [cur EXCEPT ![c] = None]
  /\ cpc' = [cpc EXCEPT ![c] = "sched"]
  /\ UNCHANGED <<procVars, wlock, ppc, loopVars>>

\* The process's first act after being switched to is to release its lock:
\* in forkret(), at the end of yield(), or in sleep() (which then reacquires
\* wait_lock; it is at the top of wait()'s loop again).
Resume(c, s) ==
  /\ \/ At(c, s, "forkret") /\ Goto(s, "user") /\ UNCHANGED chan
     \/ At(c, s, "yielded") /\ Goto(s, cont[s]) /\ UNCHANGED chan
     \/ /\ At(c, s, "slept") /\ Goto(s, "wait")
        /\ chan' = [chan EXCEPT ![s] = None]
  /\ plock' = [plock EXCEPT ![s] = None]
  /\ UNCHANGED <<state, parent, killed, wlock, cpuVars, loopVars>>

\* MUTANT: yield() does not keep p->lock across swtch().
YieldUnlocked(c, s) ==
  /\ Runs(c, s) /\ ppc[s] \in Unlocked /\ plock[s] = None
  /\ state' = [state EXCEPT ![s] = "RUNNABLE"]
  /\ cont' = [cont EXCEPT ![s] = ppc[s]]
  /\ Goto(s, "yielded")
  /\ cpc' = [cpc EXCEPT ![c] = "back"]
  /\ UNCHANGED <<parent, chan, killed, plock, wlock, cur, k, wk, np>>

\* A timer interrupt in user mode or in unlocked kernel code: yield().
Yield(c, s) ==
  /\ Runs(c, s) /\ ppc[s] \in Unlocked /\ plock[s] = None
  /\ plock' = [plock EXCEPT ![s] = c]
  /\ state' = [state EXCEPT ![s] = "RUNNABLE"]
  /\ cont' = [cont EXCEPT ![s] = ppc[s]]
  /\ Goto(s, "yielded")
  /\ cpc' = [cpc EXCEPT ![c] = "back"]
  /\ UNCHANGED <<parent, chan, killed, wlock, cur, k, wk, np>>

-----------------------------------------------------------------------------
\* System calls, from user mode.  A killed process exits at its next trap.

Syscall(c, s) == At(c, s, "user") /\ ~killed[s]

\* allocproc(): find an UNUSED slot, return with its lock held.
Fork(c, s) ==
  /\ Syscall(c, s)
  /\ \E n \in Slots :
       /\ plock[n] = None /\ state[n] = "UNUSED"
       /\ plock' = [plock EXCEPT ![n] = c]
       /\ state' = [state EXCEPT ![n] = "USED"]
       /\ np' = [np EXCEPT ![s] = n]
  /\ Goto(s, "fork_copy")
  /\ UNCHANGED <<parent, chan, killed, wlock, cpuVars, cont, k, wk>>

\* freeproc() as far as the scheduler's state goes.
Freed(n) ==
  /\ state' = [state EXCEPT ![n] = "UNUSED"]
  /\ parent' = [parent EXCEPT ![n] = None]
  /\ chan' = [chan EXCEPT ![n] = None]
  /\ killed' = [killed EXCEPT ![n] = FALSE]

\* uvmcopy() and the rest of the setup under np->lock; failure frees the slot.
ForkCopy(c, s) ==
  /\ At(c, s, "fork_copy")
  /\ \/ /\ Goto(s, "fork_parent")
        /\ UNCHANGED <<procVars, np>>
     \/ /\ Freed(np[s])
        /\ Goto(s, "user")
        /\ np' = [np EXCEPT ![s] = None]
  /\ plock' = [plock EXCEPT ![np[s]] = None]
  /\ UNCHANGED <<wlock, cpuVars, cont, k, wk>>

\* np->parent = p under wait_lock.
ForkParent(c, s) ==
  /\ At(c, s, "fork_parent") /\ wlock = None
  /\ parent' = [parent EXCEPT ![np[s]] = s]
  /\ Goto(s, "fork_run")
  /\ UNCHANGED <<state, chan, killed, plock, wlock, cpuVars, loopVars>>

\* np->state = RUNNABLE under np->lock; the child starts in forkret().
ForkRun(c, s) ==
  /\ At(c, s, "fork_run") /\ plock[np[s]] = None
  /\ state' = [state EXCEPT ![np[s]] = "RUNNABLE"]
  /\ ppc' = [ppc EXCEPT ![s] = "user", ![np[s]] = "forkret"]
  /\ np' = [np EXCEPT ![s] = None]
  /\ UNCHANGED <<parent, chan, killed, plock, wlock, cpuVars, cont, k, wk>>

\* kill(pid): mark the victim and make it RUNNABLE if it sleeps.
Kill(c, s, v) ==
  /\ Syscall(c, s) /\ plock[v] = None /\ state[v] # "UNUSED"
  /\ killed' = [killed EXCEPT ![v] = TRUE]
  /\ state' = [state EXCEPT ![v] = IF @ = "SLEEPING" THEN "RUNNABLE" ELSE @]
  /\ UNCHANGED <<parent, chan, plock, wlock, cpuVars, ppc, loopVars>>

-----------------------------------------------------------------------------
\* exit().

\* exit(status) by the program, or exit(-1) in usertrap() when killed; files
\* and cwd are closed before wait_lock is taken.  init never calls it.
Exit(c, s) ==
  /\ At(c, s, "user") /\ s # Initproc
  /\ Goto(s, "exit")
  /\ UNCHANGED <<procVars, plock, wlock, cpuVars, loopVars>>

\* MUTANT: exit() does not reparent.
ExitLockNoReparent(c, s) ==
  /\ At(c, s, "exit") /\ wlock = None
  /\ wlock' = c
  /\ wk' = [wk EXCEPT ![s] = 1]
  /\ Goto(s, "wake_parent")
  /\ UNCHANGED <<procVars, plock, cpuVars, cont, k, np>>

\* acquire(&wait_lock); reparent(p) follows.
ExitLock(c, s) ==
  /\ At(c, s, "exit") /\ wlock = None
  /\ wlock' = c
  /\ k' = [k EXCEPT ![s] = 1]
  /\ Goto(s, "reparent")
  /\ UNCHANGED <<procVars, plock, cpuVars, cont, wk, np>>

\* reparent(): each child goes to init, which is woken for each.
Reparent(c, s) ==
  /\ At(c, s, "reparent")
  /\ \/ /\ k[s] > N
        /\ wk' = [wk EXCEPT ![s] = 1] /\ Goto(s, "wake_parent")
        /\ UNCHANGED <<parent, k>>
     \/ /\ k[s] <= N /\ parent[k[s]] = s
        /\ parent' = [parent EXCEPT ![k[s]] = Initproc]
        /\ k' = [k EXCEPT ![s] = @ + 1]
        /\ wk' = [wk EXCEPT ![s] = 1] /\ Goto(s, "wake_init")
     \/ /\ k[s] <= N /\ parent[k[s]] # s
        /\ k' = [k EXCEPT ![s] = @ + 1]
        /\ UNCHANGED <<parent, wk, ppc>>
  /\ UNCHANGED <<state, chan, killed, plock, wlock, cpuVars, cont, np>>

\* One slot of wakeup(chan), under that slot's lock; the caller is skipped.
Wakeup(c, s) ==
  /\ At(c, s, "wake_init") \/ At(c, s, "wake_parent")
  /\ LET target == IF ppc[s] = "wake_init" THEN Initproc ELSE parent[s]
         w == wk[s]
     IN  IF w = s THEN UNCHANGED state
         ELSE /\ plock[w] = None
              /\ state' = [state EXCEPT ![w] =
                   IF @ = "SLEEPING" /\ chan[w] = target THEN "RUNNABLE" ELSE @]
  /\ IF wk[s] = N
     THEN /\ Goto(s, IF ppc[s] = "wake_init" THEN "reparent" ELSE "zombie")
          /\ wk' = [wk EXCEPT ![s] = 1]
     ELSE wk' = [wk EXCEPT ![s] = @ + 1] /\ UNCHANGED ppc
  /\ UNCHANGED <<parent, chan, killed, plock, wlock, cpuVars, cont, k, np>>

\* Become a ZOMBIE under p->lock, release wait_lock, swtch() for good.
Zombie(c, s) ==
  /\ At(c, s, "zombie") /\ plock[s] = None
  /\ plock' = [plock EXCEPT ![s] = c]
  /\ wlock' = None
  /\ state' = [state EXCEPT ![s] = "ZOMBIE"]
  /\ cpc' = [cpc EXCEPT ![c] = "back"]
  /\ Goto(s, "dead")
  /\ k' = [k EXCEPT ![s] = 1]
  /\ UNCHANGED <<parent, chan, killed, cur, cont, wk, np>>

-----------------------------------------------------------------------------
\* wait().

Wait(c, s) ==
  /\ Syscall(c, s)
  /\ Goto(s, "wait")
  /\ UNCHANGED <<procVars, plock, wlock, cpuVars, loopVars>>

WaitLock(c, s) ==
  /\ At(c, s, "wait") /\ wlock = None
  /\ wlock' = c
  /\ k' = [k EXCEPT ![s] = 1]
  /\ Goto(s, "scan")
  /\ UNCHANGED <<procVars, plock, cpuVars, cont, wk, np>>

\* MUTANT: wait() looks at a child's state without its lock.
ScanUnlocked(c, s) ==
  /\ At(c, s, "scan") /\ k[s] <= N
  /\ LET pp == k[s]
     IN  \/ /\ parent[pp] # s \/ state[pp] # "ZOMBIE"
            /\ k' = [k EXCEPT ![s] = @ + 1]
            /\ UNCHANGED <<procVars, wlock, ppc>>
         \/ /\ parent[pp] = s /\ state[pp] = "ZOMBIE"
            /\ \/ Freed(pp)
               \/ s # Initproc /\ UNCHANGED procVars
            /\ wlock' = None
            /\ Goto(s, "user")
            /\ k' = [k EXCEPT ![s] = 1]
  /\ UNCHANGED <<plock, cpuVars, cont, wk, np>>

\* MUTANT: wait() stops its scan one slot early and returns -1 on failure.
ScanOffByOne(c, s) ==
  /\ At(c, s, "scan") /\ k[s] <= N
  /\ LET pp == k[s]
     IN  \/ /\ pp < N
            /\ parent[pp] # s \/ (plock[pp] = None /\ state[pp] # "ZOMBIE")
            /\ k' = [k EXCEPT ![s] = @ + 1]
            /\ UNCHANGED <<procVars, wlock, ppc>>
         \/ /\ \/ pp = N /\ UNCHANGED procVars
               \/ /\ pp < N /\ parent[pp] = s /\ plock[pp] = None
                  /\ state[pp] = "ZOMBIE" /\ Freed(pp)
            /\ wlock' = None
            /\ Goto(s, "user")
            /\ k' = [k EXCEPT ![s] = 1]
  /\ UNCHANGED <<plock, cpuVars, cont, wk, np>>

\* One slot of the scan: a ZOMBIE child is freed and wait() returns its pid
\* (or -1, the child kept, when copyout() of its status fails; init.c passes
\* a null address, so not for init).
Scan(c, s) ==
  /\ At(c, s, "scan") /\ k[s] <= N
  /\ LET pp == k[s]
     IN  \/ /\ parent[pp] # s \/ (plock[pp] = None /\ state[pp] # "ZOMBIE")
            /\ k' = [k EXCEPT ![s] = @ + 1]
            /\ UNCHANGED <<procVars, wlock, ppc>>
         \/ /\ parent[pp] = s /\ plock[pp] = None /\ state[pp] = "ZOMBIE"
            /\ \/ Freed(pp)
               \/ s # Initproc /\ UNCHANGED procVars
            /\ wlock' = None
            /\ Goto(s, "user")
            /\ k' = [k EXCEPT ![s] = 1]
  /\ UNCHANGED <<plock, cpuVars, cont, wk, np>>

\* After the scan: return -1 without children or when killed, else sleep.
\* p->parent cannot have changed since the scan began: wait_lock is held.
ScanEnd(c, s) ==
  /\ At(c, s, "scan") /\ k[s] > N /\ plock[s] = None
  /\ k' = [k EXCEPT ![s] = 1]
  /\ IF killed[s] \/ \A n \in Slots : parent[n] # s
     THEN wlock' = None /\ Goto(s, "user")
     ELSE Goto(s, "sleep") /\ UNCHANGED wlock
  /\ UNCHANGED <<procVars, plock, cpuVars, cont, wk, np>>

\* MUTANT: sleep() releases wait_lock first and takes p->lock later.
SleepUnlockFirst(c, s) ==
  \/ /\ At(c, s, "sleep") /\ wlock = c
     /\ wlock' = None
     /\ UNCHANGED <<procVars, plock, cpuVars, ppc, loopVars>>
  \/ /\ At(c, s, "sleep") /\ wlock # c /\ plock[s] = None
     /\ plock' = [plock EXCEPT ![s] = c]
     /\ chan' = [chan EXCEPT ![s] = s]
     /\ state' = [state EXCEPT ![s] = "SLEEPING"]
     /\ cpc' = [cpc EXCEPT ![c] = "back"]
     /\ Goto(s, "slept")
     /\ UNCHANGED <<parent, killed, wlock, cur, loopVars>>

\* sleep(p, &wait_lock): p->lock is taken before wait_lock is released, and
\* kept until the scheduler has switched away.
Sleep(c, s) ==
  /\ At(c, s, "sleep") /\ plock[s] = None
  /\ plock' = [plock EXCEPT ![s] = c]
  /\ wlock' = None
  /\ chan' = [chan EXCEPT ![s] = s]
  /\ state' = [state EXCEPT ![s] = "SLEEPING"]
  /\ cpc' = [cpc EXCEPT ![c] = "back"]
  /\ Goto(s, "slept")
  /\ UNCHANGED <<parent, killed, cur, loopVars>>

-----------------------------------------------------------------------------
\* ps(start, count): the table from slot start on, for at most count slots.
\* The memory it grows by for the result is not part of the model.

Ps(c, s) ==
  /\ Syscall(c, s) /\ s \in Observers
  /\ Goto(s, "ps")
  /\ UNCHANGED <<procVars, plock, wlock, cpuVars, loopVars>>

\* The slots from start on, k to wk.
PsLock(c, s) ==
  /\ At(c, s, "ps") /\ wlock = None
  /\ wlock' = c
  /\ \E start \in Slots, last \in Slots :
       /\ start <= last
       /\ k' = [k EXCEPT ![s] = start] /\ wk' = [wk EXCEPT ![s] = last]
  /\ Goto(s, "ps_scan")
  /\ UNCHANGED <<procVars, plock, cpuVars, cont, np>>

\* A slot is copied under its lock, which is kept while the parent's is taken.
PsSlot(c, s) ==
  /\ At(c, s, "ps_scan") /\ k[s] <= wk[s] /\ plock[k[s]] = None
  /\ state[k[s]] # "UNUSED"
  /\ IF parent[k[s]] = None
     THEN k' = [k EXCEPT ![s] = @ + 1] /\ UNCHANGED <<plock, ppc>>
     ELSE /\ plock' = [plock EXCEPT ![k[s]] = c]
          /\ Goto(s, "ps_parent") /\ UNCHANGED k
  /\ UNCHANGED <<procVars, wlock, cpuVars, cont, wk, np>>

\* acquire(&p->parent->lock), copy its pid, release both.
PsParent(c, s) ==
  /\ At(c, s, "ps_parent") /\ plock[parent[k[s]]] = None
  /\ plock' = [plock EXCEPT ![k[s]] = None]
  /\ k' = [k EXCEPT ![s] = @ + 1]
  /\ Goto(s, "ps_scan")
  /\ UNCHANGED <<procVars, wlock, cpuVars, cont, wk, np>>

\* An UNUSED slot or enough of them.
PsEnd(c, s) ==
  /\ At(c, s, "ps_scan")
  /\ k[s] <= wk[s] => plock[k[s]] = None /\ state[k[s]] = "UNUSED"
  /\ wlock' = None
  /\ k' = [k EXCEPT ![s] = 1] /\ wk' = [wk EXCEPT ![s] = 1]
  /\ Goto(s, "user")
  /\ UNCHANGED <<procVars, plock, cpuVars, cont, np>>

-----------------------------------------------------------------------------
\* What the kernel code does by itself once a process is in it.
Kernel(c, s) ==
  \/ ForkCopy(c, s) \/ ForkParent(c, s) \/ ForkRun(c, s)
  \/ ExitLock(c, s) \/ Reparent(c, s) \/ Wakeup(c, s) \/ Zombie(c, s)
  \/ WaitLock(c, s) \/ Scan(c, s) \/ ScanEnd(c, s) \/ Sleep(c, s)
  \/ PsLock(c, s) \/ PsSlot(c, s) \/ PsParent(c, s) \/ PsEnd(c, s)

\* What user programs choose to do.
User(c, s) ==
  \/ Fork(c, s) \/ Wait(c, s) \/ Exit(c, s) \/ Ps(c, s)
  \/ \E v \in Killable : Kill(c, s, v)

Next ==
  \E c \in CPUs :
    \/ SwitchBack(c)
    \/ \E s \in Slots : \/ Schedule(c, s) \/ Yield(c, s)
                        \/ Resume(c, s)
                        \/ Kernel(c, s) \/ User(c, s)

\* The CPU does not stop in swtch() or on the way out of it; the round-robin
\* scan reaches every RUNNABLE process; a spinning acquire() is not overtaken
\* for ever and a time slice is long enough for a step of kernel code; a timer
\* interrupt stays pending until interrupts are on; a killed process traps,
\* and init.c calls wait() in an endless loop.
Fairness ==
  /\ \A c \in CPUs :
       /\ WF_vars(SwitchBack(c) \/ \E s \in Slots : Resume(c, s))
       /\ SF_vars(\E s \in Slots : Yield(c, s))
  /\ \A s \in Slots :
       /\ SF_vars(\E c \in CPUs : Schedule(c, s))
       /\ SF_vars(\E c \in CPUs : Kernel(c, s))
  /\ \A s \in Killable : SF_vars(\E c \in CPUs : killed[s] /\ Exit(c, s))
  /\ SF_vars(\E c \in CPUs : Wait(c, Initproc))

Spec == Init /\ [][Next]_vars /\ Fairness

-----------------------------------------------------------------------------
\* Properties.

Points == Unlocked \cup {"forkret", "yielded", "slept", "fork_copy", "reparent",
                         "wake_init", "wake_parent", "zombie", "dead", "scan",
                         "sleep", "ps_scan", "ps_parent"}

\* Every variable has its type.
TypeOK ==
  /\ state \in [Slots -> States]
  /\ parent \in [Slots -> Slots \cup {None}]
  /\ chan \in [Slots -> Slots \cup {None}]
  /\ killed \in [Slots -> BOOLEAN]
  /\ plock \in [Slots -> CPUs \cup {None}]
  /\ wlock \in CPUs \cup {None}
  /\ cur \in [CPUs -> Slots \cup {None}]
  /\ cpc \in [CPUs -> {"sched", "run", "back"}]
  /\ ppc \in [Slots -> Points] /\ cont \in [Slots -> Unlocked]
  /\ k \in [Slots -> 1 .. N + 1] /\ wk \in [Slots -> 1 .. N]
  /\ np \in [Slots -> Slots \cup {None}]

\* A process is on at most one CPU's stack, and one whose lock is free is on a
\* CPU exactly when it is RUNNING: what holding p->lock across swtch() is for.
OneCPU ==
  /\ \A c, d \in CPUs : cur[c] # None /\ cur[c] = cur[d] => c = d
  /\ \A s \in Slots : plock[s] = None =>
       (state[s] = "RUNNING" <=> \E c \in CPUs : Runs(c, s))

\* The same, with the type of every variable.
RunsOnce == TypeOK /\ OneCPU

\* No wakeup is lost: when wait_lock is free, a parent with a ZOMBIE child is
\* not asleep in wait() (exit() wakes before it becomes ZOMBIE, under
\* wait_lock; sleep() takes p->lock before it lets wait_lock go).
NoLostWakeup ==
  wlock = None =>
    \A s, n \in Slots :
      ~(state[s] = "SLEEPING" /\ parent[n] = s /\ state[n] = "ZOMBIE")

\* Every process that was started has a parent that can still wait() for it,
\* and orphans belong to init, whenever wait_lock is free or ps() has it: the
\* parent whose pid ps() reports is no ZOMBIE and no reused slot.
HasLiveParent ==
  wlock = None \/ (\E s \in Slots : ppc[s] \in {"ps_scan", "ps_parent"}) =>
    \A n \in Slots \ {Initproc} :
      state[n] \notin {"UNUSED", "USED"} =>
        /\ parent[n] # None
        /\ state[parent[n]] \notin {"UNUSED", "USED", "ZOMBIE"}

\* The process table is sound: one CPU per process, a live parent for each.
TableSound == RunsOnce /\ HasLiveParent

\* A slot in use is never taken by fork(), and a process leaves the table only
\* as a ZOMBIE whose parent waits or as a child whose fork() failed.
SlotLifecycle ==
  [][\A s \in Slots :
       /\ state'[s] = "USED" /\ state[s] # "USED" => state[s] = "UNUSED"
       /\ state'[s] = "UNUSED" /\ state[s] # "UNUSED"
            => \/ state[s] = "USED"
               \/ /\ state[s] = "ZOMBIE" /\ plock[s] = None
                  /\ \A c \in CPUs : cur[c] # s]_vars

\* init does not leave ZOMBIEs it inherited or forked: once the programs stop
\* calling fork(), it reaps them all.  (While they go on, wait(), which returns the
\* first ZOMBIE of its scan, can keep finding a new one in a lower slot.)
ZombiesReaped ==
  <>[](\A s \in Slots : ppc[s] # "fork_copy") =>
    []<>(\A s \in Slots : ~(state[s] = "ZOMBIE" /\ parent[s] = Initproc))
=============================================================================
