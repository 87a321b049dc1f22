------------------------------- MODULE MCProc -------------------------------
(* Proc for TLC. *)
EXTENDS Proc, TLC

Symmetry == Permutations(CPUs)
=============================================================================
