------------------------------- MODULE MCCow -------------------------------
(* Cow for TLC: address spaces of a few pages, few physical pages so that   *)
(* memory runs out in the middle of every loop.                             *)
EXTENDS Cow, TLC

Symmetry == Permutations(Procs) \cup Permutations(Tables)
              \cup Permutations(Pages)
=============================================================================
