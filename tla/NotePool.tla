------------------------------ MODULE NotePool ------------------------------
(***************************************************************************)
(* What the pool program promises: an append-only log of tree roots, of    *)
(* which a spend may name one of the last Window, and a list of spends no  *)
(* two of which burn the same nullifier.  Until Window roots have been     *)
(* logged the unused places of the window hold Filler, which a spend may   *)
(* name too.                                                               *)
(***************************************************************************)
EXTENDS Naturals, Sequences

CONSTANTS Roots, Nullifiers, Filler, Window, Capacity

VARIABLES
  log,      \* every root since the empty tree's, in order; <<>> before that
  spends    \* the spends, in order: the nullifier burnt and the root named

vars == <<log, spends>>

Init == log = <<>> /\ spends = <<>>

\* The j-th last root of the log, j = 0 being the latest.
Recent(j) == IF j < Len(log) THEN log[Len(log) - j] ELSE Filler

Accepted(root) == \E j \in 0 .. Window - 1 : Recent(j) = root

Create(root) ==
  /\ log = <<>>
  /\ log' = <<root>>
  /\ UNCHANGED spends

Insert(root) ==
  /\ log # <<>> /\ Len(log) <= Capacity
  /\ log' = Append(log, root)
  /\ UNCHANGED spends

Spend(n, root) ==
  /\ log # <<>> /\ Accepted(root)
  /\ \A i \in 1 .. Len(spends) : spends[i].nullifier # n
  /\ spends' = Append(spends, [nullifier |-> n, root |-> root])
  /\ UNCHANGED log

Next ==
  \/ \E root \in Roots : Create(root) \/ Insert(root)
  \/ \E root \in Roots \cup {Filler}, n \in Nullifiers : Spend(n, root)

Spec == Init /\ [][Next]_vars

=============================================================================
