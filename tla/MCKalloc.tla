------------------------------ MODULE MCKalloc ------------------------------
(* Kalloc for TLC.  The uint8 and uint64 moduli are scaled down to values   *)
(* that are still larger than the number of processes and of pages.         *)
EXTENDS Kalloc, TLC

Symmetry == Permutations(Procs) \cup Permutations(Pages)
=============================================================================
