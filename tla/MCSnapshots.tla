----------------------------- MODULE MCSnapshots -----------------------------
(* A small instance of ScheduledSnapshots for TLC. *)
EXTENDS ScheduledSnapshots, TLC

Symmetry == Permutations(Requests)
=============================================================================
