------------------------------- MODULE Clock --------------------------------
(***************************************************************************)
(* The clock (kernel/trap.c: clockintr) and sleep() for a number of ticks  *)
(* (kernel/sysproc.c: sys_sleep), with kill() at any moment.               *)
(*                                                                         *)
(* ticks is a uint and wraps at M (2^32 in the code); the argument of      *)
(* sleep() is an int, which the comparison with a uint converts.  That     *)
(* sleep(&ticks, &tickslock) loses no wakeup is what Proc shows of sleep() *)
(* and wakeup(); here it is one step.                                      *)
(***************************************************************************)
EXTENDS Integers

CONSTANTS
  Sleepers, \* the processes that call sleep()
  M,        \* 2^32: the values of a uint
  Delays,   \* the arguments of sleep(), ints
  Latency,  \* ticks a process may wait for a CPU or for tickslock
  Nobody

ASSUME ClockAssumption ==
  /\ M \in Nat \ {0, 1} /\ Latency \in Nat
  /\ Delays \subseteq -(M \div 2) .. (M \div 2) - 1
  /\ Latency < M \div 2   \* 2^31 ticks of a tenth of a second: seven years
  /\ Nobody \notin Sleepers /\ "clock" \notin Sleepers \cup {Nobody}

VARIABLES
  ticks,
  tickslock,  \* a process, "clock" for clockintr(), or Nobody
  spc,        \* where a process is: in user mode or in sys_sleep()
  ticks0, n,  \* locals of sys_sleep()
  struck,     \* p->killed
  passed,     \* history: ticks since sys_sleep() began
  ready,      \* history: ticks since the process was woken
  late        \* history: ticks since sleep() has had a reason to return

clockVars == <<ticks, tickslock, spc, ticks0, n, struck, passed, ready, late>>

ClockInit ==
  /\ ticks = 0 /\ tickslock = Nobody
  /\ spc = [s \in Sleepers |-> "user"]
  /\ ticks0 = [s \in Sleepers |-> 0] /\ n = [s \in Sleepers |-> 0]
  /\ struck = [s \in Sleepers |-> FALSE]
  /\ passed = [s \in Sleepers |-> 0] /\ ready = [s \in Sleepers |-> 0]
  /\ late = [s \in Sleepers |-> 0]

InSleep(s) == spc[s] # "user"

\* Killed, or the time is over (a negative argument is a huge uint).
Due(s) == InSleep(s) /\ (struck[s] \/ (n[s] >= 0 /\ passed[s] >= n[s]))

\* The histories count no further than the properties can tell.
Counted(h) == IF h < M THEN h + 1 ELSE h

-----------------------------------------------------------------------------
\* sys_sleep(): ticks0 = ticks under tickslock.
SysSleep(s) ==
  /\ spc[s] = "user" /\ ~struck[s] /\ tickslock = Nobody
  /\ tickslock' = s
  /\ ticks0' = [ticks0 EXCEPT ![s] = ticks]
  /\ n' \in {[n EXCEPT ![s] = d] : d \in Delays}
  /\ spc' = [spc EXCEPT ![s] = "test"]
  /\ UNCHANGED <<ticks, struck, passed, ready, late>>

\* MUTANT: the deadline is computed once and compared with the clock.
BeforeDeadline(s) == ticks < (ticks0[s] + n[s]) % M

\* MUTANT: the loop ends only when exactly n ticks have passed.
NotExactly(s) == (ticks - ticks0[s]) % M # n[s] % M

\* ticks - ticks0 < n, in unsigned arithmetic.
TooEarly(s) == (ticks - ticks0[s]) % M < n[s] % M

\* The loop: return 0 when the time is over, -1 when killed, else sleep.
SleepTest(s) ==
  /\ spc[s] = "test"
  /\ IF TooEarly(s) /\ ~struck[s]
     THEN /\ spc' = [spc EXCEPT ![s] = "doze"]
          /\ UNCHANGED <<tickslock, n, ticks0, passed, late>>
     ELSE /\ spc' = [spc EXCEPT ![s] = "user"]
          /\ tickslock' = Nobody
          /\ n' = [n EXCEPT ![s] = 0] /\ ticks0' = [ticks0 EXCEPT ![s] = 0]
          /\ passed' = [passed EXCEPT ![s] = 0] /\ late' = [late EXCEPT ![s] = 0]
  /\ UNCHANGED <<ticks, struck, ready>>

\* sleep(&ticks, &tickslock), which takes no notice of p->killed.
Doze(s) ==
  /\ spc[s] = "doze"
  /\ spc' = [spc EXCEPT ![s] = "asleep"]
  /\ tickslock' = Nobody
  /\ UNCHANGED <<ticks, ticks0, n, struck, passed, ready, late>>

\* Woken and scheduled: sleep() takes tickslock again.
SleepAgain(s) ==
  /\ spc[s] = "woken" /\ tickslock = Nobody
  /\ spc' = [spc EXCEPT ![s] = "test"]
  /\ tickslock' = s
  /\ ready' = [ready EXCEPT ![s] = 0]
  /\ UNCHANGED <<ticks, ticks0, n, struck, passed, late>>

\* clockintr(): hart 0 takes tickslock and counts.  No process waits longer
\* than Latency ticks to go on.
ClockIntr ==
  /\ tickslock = Nobody
  /\ \A s \in Sleepers : ready[s] < Latency
  /\ tickslock' = "clock"
  /\ ticks' = (ticks + 1) % M
  /\ passed' = [s \in Sleepers |-> IF InSleep(s) THEN Counted(passed[s]) ELSE passed[s]]
  /\ ready' = [s \in Sleepers |-> IF spc[s] = "woken" THEN ready[s] + 1 ELSE ready[s]]
  /\ late' = [s \in Sleepers |-> IF Due(s) THEN Counted(late[s]) ELSE late[s]]
  /\ UNCHANGED <<spc, ticks0, n, struck>>

\* wakeup(&ticks); release(&tickslock).  Nobody can go to sleep on &ticks
\* during the scan; kill() may wake any sleeper before it.
ClockWakes ==
  /\ tickslock = "clock"
  /\ spc' = [s \in Sleepers |-> IF spc[s] = "asleep" THEN "woken" ELSE spc[s]]
  /\ tickslock' = Nobody
  /\ UNCHANGED <<ticks, ticks0, n, struck, passed, ready, late>>

\* kill(): takes p->lock only, so it may strike between two steps of sleep().
Strike(s) ==
  /\ ~struck[s]
  /\ struck' = [struck EXCEPT ![s] = TRUE]
  /\ spc' = [spc EXCEPT ![s] = IF @ = "asleep" THEN "woken" ELSE @]
  /\ UNCHANGED <<ticks, tickslock, ticks0, n, passed, ready, late>>

\* A killed process exits in usertrap(); another program takes its place.
Replaced(s) ==
  /\ spc[s] = "user" /\ struck[s]
  /\ struck' = [struck EXCEPT ![s] = FALSE]
  /\ UNCHANGED <<ticks, tickslock, spc, ticks0, n, passed, ready, late>>

InKernel(s) == SleepTest(s) \/ Doze(s) \/ SleepAgain(s)

ClockNext ==
  \/ ClockIntr \/ ClockWakes
  \/ \E s \in Sleepers : SysSleep(s) \/ InKernel(s) \/ Strike(s) \/ Replaced(s)

ClockSpec == ClockInit /\ [][ClockNext]_clockVars

-----------------------------------------------------------------------------
\* sleep(n) by a process that is not killed takes at least the ticks it asked
\* for, across the wrap of the clock (a negative n is a huge uint); and no call
\* with a reason to return, its time over or its process killed, even between
\* the test of p->killed and the switch away, stays longer than one more tick
\* and the latency.
SleepsAsAsked ==
  [][\A s \in Sleepers :
       /\ InSleep(s) /\ spc'[s] = "user" /\ ~struck[s] => passed[s] >= n[s] % M
       /\ late'[s] <= 1 + Latency]_clockVars
=============================================================================
