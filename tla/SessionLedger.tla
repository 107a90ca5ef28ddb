---------------------------- MODULE SessionLedger ----------------------------
(***************************************************************************)
(* What the session program promises, apart from how accounts are laid     *)
(* out: a session is opened once, an open session is settled at most once, *)
(* and each settlement consumes a nullifier hash no settlement used        *)
(* before.                                                                 *)
(***************************************************************************)
CONSTANTS
  Roots,      \* session roots
  Hashes      \* nullifier hashes

VARIABLES
  phase,      \* phase[r]: how far the session r has come
  settled     \* the pairs <<h, r>>: nullifier hash h settled session r

vars == <<phase, settled>>

Init ==
  /\ phase = [r \in Roots |-> "unopened"]
  /\ settled = {}

Open(r) ==
  /\ phase[r] = "unopened"
  /\ phase' = [phase EXCEPT ![r] = "open"]
  /\ UNCHANGED settled

Settle(r, h) ==
  /\ phase[r] = "open"
  /\ \A p \in settled : p[1] # h
  /\ phase' = [phase EXCEPT ![r] = "closed"]
  /\ settled' = settled \cup {<<h, r>>}

Next ==
  \E r \in Roots : Open(r) \/ \E h \in Hashes : Settle(r, h)

Spec == Init /\ [][Next]_vars

=============================================================================
