------------------------------ MODULE AtomicFS ------------------------------
(***************************************************************************)
(* What the log promises to the file system: blocks survive a crash in a   *)
(* state between system calls.  Writes go to the current contents; a       *)
(* commit makes them durable all at once and only when no system call is   *)
(* in progress; a crash falls back to the last commit.                     *)
(***************************************************************************)
CONSTANTS Procs, Blocks, Vals, Blank

VARIABLES
  stable,  \* contents after a crash
  now,     \* contents system calls see
  active   \* system calls between begin_op() and end_op()

vars == <<stable, now, active>>

Init ==
  /\ stable = [b \in Blocks |-> Blank]
  /\ now = stable
  /\ active = {}

Begin(p) == p \notin active /\ active' = active \cup {p}
            /\ UNCHANGED <<stable, now>>

Write(p) == /\ p \in active
            /\ \E b \in Blocks, x \in Vals : now' = [now EXCEPT ![b] = x]
            /\ UNCHANGED <<stable, active>>

End(p) == p \in active /\ active' = active \ {p} /\ UNCHANGED <<stable, now>>

Commit == active = {} /\ stable' = now /\ UNCHANGED <<now, active>>

Crash == now' = stable /\ active' = {} /\ UNCHANGED stable

Next == \/ \E p \in Procs : Begin(p) \/ Write(p) \/ End(p)
        \/ Commit \/ Crash

Spec == Init /\ [][Next]_vars
=============================================================================
