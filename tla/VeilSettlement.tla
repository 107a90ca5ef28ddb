--------------------------- MODULE VeilSettlement ---------------------------
(***************************************************************************)
(* Sessions from end to end: agents use the SDK to open sessions and to    *)
(* prove transfers, put what they proved on chain, and close with the      *)
(* public signals of a completion proof.  Other callers open and close     *)
(* sessions too, with any arguments: roots, hashes and commitments are     *)
(* public once used, and the program checks no proof, so another caller    *)
(* may open an agent's root, with another ceiling, and close a session     *)
(* with the nullifier hash of a proof for another.                         *)
(*                                                                         *)
(* The agents and their use of the program are external: the repository    *)
(* has the SDK that proves and the program that stores, not the caller in  *)
(* between, which is taken from the comments on both.                      *)
(***************************************************************************)
EXTENDS VeilSession, VeilCircuits

CONSTANTS
  SessionIds,         \* values randomFieldElement may give a session id
  SecretKeys,         \* and a secret key
  Salt, PeerKey,      \* a salt, the peer's key
  TransferValues,     \* amounts a caller of the SDK may pass
  NetValues,          \* the net amounts it may claim
  Ceilings            \* and the maxNotional it may open or prove a session with

RootFor(id, epoch, sk) == SessionRootOf([sessionId |-> id, registryEpoch |-> epoch,
                                         agentSk |-> sk, agentSalt |-> Salt])
HashFor(id, sk) == NullifierOf([sessionId |-> id, agentSk |-> sk])

\* A u64 is what 64 bits hold, and the arguments of the program's
\* instructions include the signals of every agent's proofs.
ASSUME SettlementConstants ==
  /\ MaxU64 = AmountLimit - 1 /\ Notionals = U64
  /\ TransferValues \subseteq Field /\ NetValues \subseteq Field
  /\ Ceilings \subseteq Field
  /\ \A id \in SessionIds, sk \in SecretKeys :
       /\ \A epoch \in Epochs : RootFor(id, epoch, sk) \in Roots
       /\ HashFor(id, sk) \in Hashes
  /\ \A net \in TransferValues \cup NetValues : Poseidon(<<net, Salt>>) \in Commits
  /\ Poseidon(<<PeerKey, Salt>>) \in Peers

VARIABLES
  handles,      \* handles[id]: the Session openSession returned
  bundles       \* bundles[id]: the last completion proof made for it

agentVars == <<handles, bundles>>
allVars == <<vars, agentVars>>

SettlementInit == Init /\ handles = NoAccounts /\ bundles = NoAccounts

-----------------------------------------------------------------------------
(* The SDK. *)

\* A session id is fresh: 254 random bits do not repeat.
openSession(id, sk, max, epoch) ==
  LET signals == AuthSignals(
        [agentSk |-> sk, agentSalt |-> Salt, peerPubKey |-> PeerKey,
         peerSalt |-> Salt, sessionId |-> id, registryEpoch |-> epoch,
         maxNotional |-> max])
  IN
  /\ id \notin DOMAIN handles
  /\ VeilAuthProof(signals)
  /\ handles' = Put(handles, id,
       [sessionRoot |-> signals.sessionRoot,
        peerCommitment |-> signals.peerCommitment, maxNotional |-> max,
        epoch |-> epoch, sessionId |-> id, agentSk |-> sk, agentSalt |-> Salt])
  /\ UNCHANGED <<vars, bundles>>

\* The input a caller makes from its session; the ceiling is the caller's to say.
CompletionInput(session, transfers, net, max) ==
  [agentSk |-> session.agentSk, agentSalt |-> session.agentSalt,
   registryEpoch |-> session.epoch, sessionId |-> session.sessionId,
   transfers |-> transfers, netAmount |-> net, netSalt |-> Salt,
   maxNotional |-> max, sessionRoot |-> session.sessionRoot]

generateCompletionProof(id, transfers, net, max) ==
  LET signals == CompletionSignals(CompletionInput(handles[id], transfers, net, max)) IN
  /\ id \in DOMAIN handles
  /\ VeilCompletionProof(signals)
  /\ bundles' = Put(bundles, id,
       [nullifierHash |-> signals.nullifierHash,
        netCommit |-> signals.netCommit, maxNotional |-> signals.maxNotional,
        transfers |-> transfers])
  /\ UNCHANGED <<vars, handles>>

\* The amount and zeros after it, under the ceiling of the session.
proveTransfer(id, amount) ==
  /\ id \in DOMAIN handles
  /\ generateCompletionProof(
       id, [i \in 1 .. TransferSlots |-> IF i = 1 THEN amount ELSE 0], amount,
       handles[id].maxNotional)

-----------------------------------------------------------------------------
(* The calls of the session program. *)

OpenOnChain(id, attestation) ==
  /\ id \in DOMAIN handles
  /\ open_session(handles[id].sessionRoot, handles[id].peerCommitment,
                  handles[id].maxNotional, handles[id].epoch, attestation)
  /\ UNCHANGED agentVars

CloseOnChain(id, attestation) ==
  /\ id \in DOMAIN bundles
  /\ close_session(handles[id].sessionRoot, bundles[id].nullifierHash,
                   bundles[id].netCommit, attestation)
  /\ UNCHANGED agentVars

OtherOpens(attestation) ==
  /\ \E r \in Roots, peer \in Peers, notional \in Notionals, epoch \in Epochs :
       open_session(r, peer, notional, epoch, attestation)
  /\ UNCHANGED agentVars

OtherCloses(attestation) ==
  /\ \E r \in Roots, h \in Hashes, net \in Commits :
       close_session(r, h, net, attestation)
  /\ UNCHANGED agentVars

SettlementNext ==
  \/ NextSlot /\ UNCHANGED agentVars
  \/ \E id \in SessionIds :
       \/ \E sk \in SecretKeys, max \in Ceilings, epoch \in Epochs :
            openSession(id, sk, max, epoch)
       \/ \E amount \in TransferValues : proveTransfer(id, amount)
       \/ \E transfers \in [1 .. TransferSlots -> TransferValues],
             net \in NetValues, max \in Ceilings :
            generateCompletionProof(id, transfers, net, max)
       \/ \E attestation \in Digests \ {ZeroBytes} :
            OpenOnChain(id, attestation) \/ CloseOnChain(id, attestation)
  \/ \E attestation \in Digests : OtherOpens(attestation) \/ OtherCloses(attestation)

SettlementSpec == SettlementInit /\ [][SettlementNext]_allVars

-----------------------------------------------------------------------------
\* The sum over the integers, without the field's modulus.
Total(transfers) ==
  LET sum[i \in 0 .. TransferSlots] ==
        IF i = 0 THEN 0 ELSE sum[i - 1] + transfers[i]
  IN  sum[TransferSlots]

\* The program compares nothing with a proof, and anybody may have opened the
\* root and closed the session.  But whoever holds the account against the public
\* signals of a completion proof for its root, and finds the ceiling and the net
\* commitment of the proof there, knows that the amount committed to is money, not
\* a field element: the transfers behind it add up to it over the integers, and to
\* no more than the ceiling the account has shown since it was opened.
SettledWithinCeiling ==
  \A id \in DOMAIN bundles :
    LET r == handles[id].sessionRoot
        p == bundles[id] IN
    /\ r \in ClosedSessions
    /\ sessions[r].net_commit = p.netCommit
    /\ sessions[r].max_notional = p.maxNotional
    => /\ Total(p.transfers) <= sessions[r].max_notional
       /\ sessions[r].net_commit = Poseidon(<<Total(p.transfers), Salt>>)

\* The other way round: whatever amounts within 64 bits and the ceiling a
\* session spends, a proof of it exists, so no honest agent is left with a
\* session it cannot settle.
CeilingIsReachable ==
  \A id \in DOMAIN handles :
    \A transfers \in [1 .. TransferSlots -> TransferValues \cap U64] :
      Total(transfers) <= handles[id].maxNotional =>
        VeilCompletionProof(CompletionSignals(
          CompletionInput(handles[id], transfers, Total(transfers),
                          handles[id].maxNotional)))

\* An agent that closes one session burns the nullifier of no proof it has for
\* another, although its sessions may share a secret key: the hash binds the
\* session id, so its own closings never stand in each other's way.  (Another
\* caller may burn the hash: it is public, and close_session takes any.)
OwnClosingsStayApart ==
  [][\A x \in SessionIds, attestation \in Digests : CloseOnChain(x, attestation) =>
       \A id \in DOMAIN bundles :
         bundles[id].nullifierHash \in DOMAIN nullifiers' \ DOMAIN nullifiers =>
           nullifiers'[bundles[id].nullifierHash].session_root = handles[id].sessionRoot]_allVars

=============================================================================
