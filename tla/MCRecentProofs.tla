--------------------------- MODULE MCRecentProofs ---------------------------
(* A small instance of RecentProofs for TLC. *)
EXTENDS RecentProofs, TLC

Symmetry == Permutations(Tabs) \cup Permutations(Proofs)
=============================================================================
