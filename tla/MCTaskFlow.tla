----------------------------- MODULE MCTaskFlow -----------------------------
(***************************************************************************)
(* Model-checking instance of TaskFlow.                                    *)
(***************************************************************************)
EXTENDS TaskFlow, TLC

MCOneOutcome == {[status |-> "completed", code |-> "none"]}

Symmetry == Permutations(Nodes) \cup Permutations(Conns) \cup Permutations(Tasks)
=============================================================================
