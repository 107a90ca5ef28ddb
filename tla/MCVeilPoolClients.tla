-------------------------- MODULE MCVeilPoolClients --------------------------
(* Small instances of VeilPoolClients for TLC: one note more than the tree has
   leaves, and a ring of two roots that is overwritten before the tree is
   full. *)
EXTENDS VeilPoolClients, TLC

CONSTANTS n1, n2, n3, n4, m1, d1, d2, s1, s2

MCTrees == SeqOf(Notes, TreeCapacity)

\* A note that can be proved with two nullifiers.
MCNullifiersOf == [n \in Notes |-> IF n = n1 THEN {n1, m1} ELSE {n}]
=============================================================================
