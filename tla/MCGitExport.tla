----------------------------- MODULE MCGitExport -----------------------------
(* A small instance of GitExport for TLC. *)
EXTENDS GitExport, TLC

CONSTANTS d1, d2, f1, f2

\* A repository that holds more of one item than CloudBolt will, and an empty one.
MCTrees == {[d \in Contents |-> IF d = d1 THEN {f1, f2} ELSE {f1}],
            [d \in Contents |-> {}]}

Symmetry == Permutations(Exporters)
=============================================================================
