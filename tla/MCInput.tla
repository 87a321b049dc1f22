------------------------------ MODULE MCInput -------------------------------
(* Console and Clock for TLC, the two users of sleep() that an interrupt    *)
(* wakes: a behaviour is of the one or of the other.                        *)
EXTENDS Console, Clock, TLC

VARIABLE part

MCDelays == {-1, 0, 1, 3}

InputInit == part \in {"keys", "clock"} /\ Init /\ ClockInit

InputNext ==
  \/ part = "keys" /\ Next /\ UNCHANGED <<clockVars, part>>
  \/ part = "clock" /\ ClockNext /\ UNCHANGED <<vars, part>>

InputSpec == InputInit /\ [][InputNext]_<<vars, clockVars, part>>

Symmetry == Permutations(Readers) \cup Permutations(Plain) \cup
            Permutations(Sleepers)
=============================================================================
