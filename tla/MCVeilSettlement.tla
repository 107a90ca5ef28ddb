-------------------------- MODULE MCVeilSettlement --------------------------
(* A small instance of VeilSettlement for TLC: a field of 13 elements in   *)
(* which amounts are below 3, two transfers a session, -1 = 12 among the   *)
(* amounts and 3 among the ceilings a caller may pass.                     *)
EXTENDS VeilSettlement, TLC

CONSTANTS s1, s2, k1, d1

MCNetValues == {0, 1}
MCCeilings == {1, 3}
MCEpochs == {1}
MCDigests == {ZeroBytes, d1}
MCNotionals == 0 .. 2
MCTransferValues == {0, 1, 12}
MCRoots == {RootFor(id, epoch, sk) :
              id \in SessionIds, epoch \in Epochs, sk \in SecretKeys}
MCHashes == {HashFor(id, sk) : id \in SessionIds, sk \in SecretKeys}
MCCommits == {Poseidon(<<net, Salt>>) : net \in TransferValues}
Symmetry == Permutations({s1, s2})
MCPeers == {Poseidon(<<PeerKey, Salt>>)}
=============================================================================
