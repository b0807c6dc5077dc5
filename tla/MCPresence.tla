----------------------------- MODULE MCPresence -----------------------------
(***************************************************************************)
(* Model-checking instance of Presence.  The unit of time is 15 s.         *)
(***************************************************************************)
EXTENDS Presence, TLC

\* Streams of one node only differ by name.
Symmetry == Permutations(Nodes) \cup Permutations(Conns)
=============================================================================
