----------------------------- MODULE VeilSession -----------------------------
(***************************************************************************)
(* The veil-session program: the lifecycle of a payment session between    *)
(* two agents, and the nullifier a close burns.  Both peers may try to     *)
(* close the same session; the instructions of all clients interleave.     *)
(***************************************************************************)
EXTENDS SolanaAccounts

CONSTANTS
  Roots,        \* session roots
  Hashes,       \* nullifier hashes
  Peers,        \* peer commitments
  Notionals,    \* values of max_notional a client may pass, 0 among them
  Epochs,       \* values of epoch a client may pass
  Digests,      \* attestation digests, ZeroBytes among them
  Commits,      \* net commitments
  ZeroBytes     \* the all-zero 32 bytes

ASSUME SessionConstants ==
  /\ Notionals \subseteq U64 /\ Epochs \subseteq U64
  /\ ZeroBytes \in Digests

VARIABLES
  slot,         \* the slot Clock::get() returns
  sessions,     \* sessions[r]: the account at seeds "session", r
  nullifiers    \* nullifiers[h]: the account at seeds "nullifier", h

vars == <<slot, sessions, nullifiers>>

Open == 1       \* SessionState
Closed == 2

Session ==
  [session_root: Roots, peer_commitment: Peers, max_notional: Notionals,
   epoch: Epochs, proof_attestation: Digests,
   completion_attestation: Digests, net_commit: Commits \cup {ZeroBytes},
   opened_slot: U64, closed_slot: U64, state: {Open, Closed}]

Nullifier == [session_root: Roots, nullifier_hash: Hashes]

-----------------------------------------------------------------------------
Init ==
  /\ slot = 0
  /\ sessions = NoAccounts
  /\ nullifiers = NoAccounts

\* The cluster produces the next slot.
NextSlot ==
  /\ slot < MaxU64
  /\ slot' = slot + 1
  /\ UNCHANGED <<sessions, nullifiers>>

\* Mutation: `init_if_needed' on the session account.
SessionMayExist(r) == TRUE

\* The `init' constraint on the session account.
SessionIsNew(r) == r \notin DOMAIN sessions

\* A new account is zeroed; the handler fills in what the opener submits.
Opened(r, peer, notional, epoch, attestation, now) ==
  [session_root |-> r, peer_commitment |-> peer, max_notional |-> notional,
   epoch |-> epoch, proof_attestation |-> attestation,
   completion_attestation |-> ZeroBytes, net_commit |-> ZeroBytes,
   opened_slot |-> now, closed_slot |-> 0, state |-> Open]

open_session(r, peer, notional, epoch, attestation) ==
  /\ SessionIsNew(r)
  /\ notional > 0
  /\ sessions' = Put(sessions, r,
                     Opened(r, peer, notional, epoch, attestation, slot))
  /\ UNCHANGED <<slot, nullifiers>>

\* Mutations: the state is not checked; the opener's attestation is not.
MayCloseInAnyState(s, attestation) ==
  attestation # ZeroBytes /\ s.proof_attestation # ZeroBytes
MayCloseUnattested(s, attestation) ==
  s.state = Open /\ attestation # ZeroBytes

\* The three `require!'s of close_session.
MayClose(s, attestation) ==
  /\ s.state = Open
  /\ attestation # ZeroBytes
  /\ s.proof_attestation # ZeroBytes

\* Mutation: `init_if_needed' on the nullifier account.
NullifierMayExist(h) == TRUE

\* The `init' constraint on the nullifier account.
NullifierIsNew(h) == h \notin DOMAIN nullifiers

close_session(r, h, net, attestation) ==
  /\ r \in DOMAIN sessions
  /\ NullifierIsNew(h)
  /\ MayClose(sessions[r], attestation)
  /\ nullifiers' = Put(nullifiers, h,
                       [session_root |-> sessions[r].session_root,
                        nullifier_hash |-> h])
  /\ sessions' = [sessions EXCEPT
                    ![r].net_commit = net,
                    ![r].completion_attestation = attestation,
                    ![r].closed_slot = slot,
                    ![r].state = Closed]
  /\ UNCHANGED slot

Next ==
  \/ NextSlot
  \/ \E r \in Roots, attestation \in Digests :
       \/ \E peer \in Peers, notional \in Notionals, epoch \in Epochs :
            open_session(r, peer, notional, epoch, attestation)
       \/ \E h \in Hashes, net \in Commits :
            close_session(r, h, net, attestation)

Spec == Init /\ [][Next]_vars

-----------------------------------------------------------------------------
TypeOK ==
  /\ slot \in U64
  /\ IsAccountMap(sessions, Roots, Session)
  /\ IsAccountMap(nullifiers, Hashes, Nullifier)

ClosedSessions == {r \in DOMAIN sessions : sessions[r].state = Closed}

\* Settlement and nullifiers are two families of accounts written by one
\* instruction: every nullifier names a closed session, every closed session
\* burned a nullifier, and never two, although both peers may race to close
\* the same session with different hashes.
NullifiersMatchClosings ==
  /\ \A h \in DOMAIN nullifiers :
       /\ nullifiers[h].session_root \in ClosedSessions
       /\ nullifiers[h].nullifier_hash = h
  /\ \A r \in ClosedSessions :
       \E h \in DOMAIN nullifiers : nullifiers[h].session_root = r
  /\ \A h1, h2 \in DOMAIN nullifiers :
       nullifiers[h1].session_root = nullifiers[h2].session_root => h1 = h2

\* The record of a session tells one story in time: it was opened at a past
\* slot under its own seed, and it is closed only at or after that slot, with
\* both attestations present; an open one shows no trace of a closing.
SessionTimeline ==
  \A r \in DOMAIN sessions :
    LET s == sessions[r] IN
    /\ s.session_root = r /\ s.max_notional > 0 /\ s.opened_slot <= slot
    /\ IF s.state = Closed
       THEN /\ s.opened_slot <= s.closed_slot /\ s.closed_slot <= slot
            /\ s.proof_attestation # ZeroBytes
            /\ s.completion_attestation # ZeroBytes
       ELSE s.completion_attestation = ZeroBytes /\ s.closed_slot = 0

\* The fields the opener submits.
OpeningTerms(s) ==
  <<s.session_root, s.peer_commitment, s.max_notional, s.epoch,
    s.proof_attestation, s.opened_slot>>

\* What the opener agreed to never changes afterwards, a closed session and a
\* burned nullifier are final, and no account disappears.
TermsFixedStep ==
  /\ \A r \in DOMAIN sessions :
       /\ r \in DOMAIN sessions'
       /\ OpeningTerms(sessions'[r]) = OpeningTerms(sessions[r])
       /\ sessions[r].state = Closed => sessions'[r] = sessions[r]
  /\ \A h \in DOMAIN nullifiers :
       h \in DOMAIN nullifiers' /\ nullifiers'[h] = nullifiers[h]

SessionTermsFixed == [][TermsFixedStep]_vars

\* The accounts seen as the abstract ledger.
phaseOf ==
  [r \in Roots |-> IF r \notin DOMAIN sessions THEN "unopened"
                   ELSE IF sessions[r].state = Open THEN "open" ELSE "closed"]
settledBy == {<<h, nullifiers[h].session_root>> : h \in DOMAIN nullifiers}

Ledger == INSTANCE SessionLedger WITH phase <- phaseOf, settled <- settledBy

\* The program implements the abstract ledger.
ImplementsLedger == Ledger!Spec

=============================================================================
