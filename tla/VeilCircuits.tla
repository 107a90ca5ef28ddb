---------------------------- MODULE VeilCircuits ----------------------------
(***************************************************************************)
(* The three circuits as predicates over their signals, and the inputs the *)
(* SDK computes for them.  A proof exists exactly when the predicate holds *)
(* of the signals; without one snarkjs's fullProve throws.                 *)
(*                                                                         *)
(* Poseidon is taken to be free of collisions: the hash of a list is the   *)
(* list.  Sums are sums in the field; a bit decomposition is the bound it  *)
(* enforces.                                                               *)
(***************************************************************************)
EXTENDS Integers, Sequences

CONSTANTS
  FieldOrder,       \* the order of the BN254 scalar field
  AmountLimit,      \* 2^64: Num2Bits(64) accepts what is below
  TransferSlots,    \* transfers of a session: 16
  Depth             \* levels of the note tree: 28

\* Room in the field for the sum of all transfers and for the comparison.
ASSUME CircuitConstants ==
  /\ FieldOrder \in Nat /\ AmountLimit \in Nat /\ TransferSlots \in Nat \ {0}
  /\ Depth \in Nat \ {0} /\ AmountLimit > 0
  /\ TransferSlots * AmountLimit + 2 * AmountLimit <= FieldOrder

Field == 0 .. FieldOrder - 1

Poseidon(inputs) == inputs

\* circomlib's Num2Bits(64).
Num2Bits64(x) == x < AmountLimit

\* Mutation: LessThan in the place of LessEqThan.
LessThan65(a, b) == (a + 2 * AmountLimit - b) % FieldOrder < 2 * AmountLimit

\* circomlib's LessEqThan(65), its output forced to 1.
LessEqThan65(a, b) == (a + 2 * AmountLimit - (b + 1)) % FieldOrder < 2 * AmountLimit

\* Mutation: the range check is forgotten.
Unranged(transfers) == TRUE

\* The 64-bit check of every transfer.
RangedTransfers(transfers) == \A i \in DOMAIN transfers : Num2Bits64(transfers[i])

\* The last signal of the chain accum[0], accum[1], ...
Accumulated(transfers) ==
  LET accum[i \in 0 .. TransferSlots] ==
        IF i = 0 THEN 0 ELSE (accum[i - 1] + transfers[i]) % FieldOrder
  IN  accum[TransferSlots]

-----------------------------------------------------------------------------
(* Derivations the circuits and the SDK share. *)

AgentCommitment(s) == Poseidon(<<s.agentSk, s.agentSalt>>)
SessionRootOf(s) ==
  Poseidon(<<s.sessionId, s.registryEpoch, AgentCommitment(s)>>)

\* Mutation: the session is left out of the nullifier.
NullifierOfAgent(s) == Poseidon(<<s.agentSk>>)

NullifierOf(s) == Poseidon(<<s.sessionId, s.agentSk>>)

-----------------------------------------------------------------------------
(* The circuits. *)

VeilAuthProof(s) ==
  /\ s.epoch = s.registryEpoch
  /\ Poseidon(<<s.peerPubKey, s.peerSalt>>) = s.peerCommitment
  /\ SessionRootOf(s) = s.sessionRoot
  /\ Num2Bits64(s.maxNotional)

VeilCompletionProof(s) ==
  /\ NullifierOf(s) = s.nullifierHash
  /\ RangedTransfers(s.transfers)
  /\ Accumulated(s.transfers) = s.netAmount
  /\ LessEqThan65(s.netAmount, s.maxNotional)
  /\ Poseidon(<<s.netAmount, s.netSalt>>) = s.netCommit
  /\ SessionRootOf(s) = s.sessionRoot

\* The hash of the path from the leaf up, one level at a time.
RootFrom(leaf, elements, indices) ==
  LET level[i \in 0 .. Depth] ==
        IF i = 0 THEN leaf
        ELSE IF indices[i] = 0 THEN Poseidon(<<level[i - 1], elements[i]>>)
        ELSE Poseidon(<<elements[i], level[i - 1]>>)
  IN  level[Depth]

VeilPoolNote(s) ==
  /\ Num2Bits64(s.amount) /\ Num2Bits64(s.newAmount) /\ Num2Bits64(s.fee)
  /\ s.amount = (s.newAmount + s.fee) % FieldOrder
  /\ Poseidon(<<s.noteSecret, s.leafIndex>>) = s.nullifier
  /\ \A i \in 1 .. Depth : s.pathIndices[i] \in {0, 1}
  /\ RootFrom(Poseidon(<<s.amount, s.ownerPk, s.salt>>),
              s.pathElements, s.pathIndices) = s.merkleRoot
  /\ Poseidon(<<s.newAmount, s.newOwnerPk, s.newSalt>>) = s.newCommitment
  /\ Poseidon(<<s.fee, s.feeSalt>>) = s.feeCommit

-----------------------------------------------------------------------------
(* The signals the SDK passes: the caller's input and what it hashes. *)

AuthSignals(in) ==
  [sessionRoot |-> SessionRootOf(in),
   peerCommitment |-> Poseidon(<<in.peerPubKey, in.peerSalt>>),
   maxNotional |-> in.maxNotional, epoch |-> in.registryEpoch,
   agentSk |-> in.agentSk, agentSalt |-> in.agentSalt,
   peerPubKey |-> in.peerPubKey, peerSalt |-> in.peerSalt,
   sessionId |-> in.sessionId, registryEpoch |-> in.registryEpoch]

CompletionSignals(in) ==
  [sessionRoot |-> in.sessionRoot, nullifierHash |-> NullifierOf(in),
   netCommit |-> Poseidon(<<in.netAmount, in.netSalt>>),
   maxNotional |-> in.maxNotional, agentSk |-> in.agentSk,
   agentSalt |-> in.agentSalt, registryEpoch |-> in.registryEpoch,
   sessionId |-> in.sessionId, transfers |-> in.transfers,
   netAmount |-> in.netAmount, netSalt |-> in.netSalt]

\* The new commitment hashes the note's secret with the rest: four inputs.
PoolNoteSignals(in) ==
  [merkleRoot |-> in.merkleRoot,
   nullifier |-> Poseidon(<<in.noteSecret, in.leafIndex>>),
   newCommitment |->
     Poseidon(<<in.newAmount, in.newOwnerPk, in.newSalt, in.noteSecret>>),
   feeCommit |-> Poseidon(<<in.fee, in.feeSalt>>),
   amount |-> in.amount, noteSecret |-> in.noteSecret,
   ownerPk |-> in.ownerPk, salt |-> in.salt, leafIndex |-> in.leafIndex,
   pathElements |-> in.pathElements, pathIndices |-> in.pathIndices,
   newAmount |-> in.newAmount, newOwnerPk |-> in.newOwnerPk,
   newSalt |-> in.newSalt, fee |-> in.fee, feeSalt |-> in.feeSalt]
=============================================================================
