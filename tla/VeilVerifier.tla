---------------------------- MODULE VeilVerifier ----------------------------
(***************************************************************************)
(* The veil-verifier program: one verification key account per circuit     *)
(* tag, overwritten in place by every upload, and the Groth16 check that   *)
(* reads it.                                                               *)
(*                                                                         *)
(* Bytes are counted in units of 64, the size of a G1 point: 7 units of    *)
(* header (alpha 1, beta 2, gamma 2, delta 2), then ic[0], ic[1], ...  A   *)
(* unit of an account is known by the key file it was copied from.  The    *)
(* pairing equation holds for a proof exactly when every unit it involves  *)
(* comes from the key the proof was made for and the public inputs are the *)
(* proof's; inputs left out count as zero.                                 *)
(*                                                                         *)
(* Specification, variables and types carry the program's name, because    *)
(* VeilClient extends this module beside VeilRegistry.                     *)
(***************************************************************************)
EXTENDS SolanaAccounts

CONSTANTS
  Tags,         \* circuit_id values in use
  KeyFiles,     \* key files
  Blank,        \* content of a unit never written
  NoEvent,      \* the last instruction emitted none
  VkLen,        \* VkLen[k]: units in key file k
  MaxVkUnits    \* MAX_VK_BYTES / 64

HeaderUnits == 7

ASSUME VerifierConstants ==
  /\ Tags \subseteq Nat /\ Blank \notin KeyFiles
  /\ VkLen \in [KeyFiles -> Nat] /\ MaxVkUnits \in Nat

VARIABLES
  vks,       \* vks[t]: the account at seeds "vk", t
  event,     \* the ProofVerified event of the last instruction, and its entry point
  latest     \* history: latest[t] is the key file last uploaded under tag t

verifierVars == <<vks, event, latest>>

Vk ==
  [circuit_id: Tags, bytes_len: 0 .. MaxVkUnits,
   bytes: [0 .. MaxVkUnits - 1 -> KeyFiles \cup {Blank}]]

\* Public inputs a key file has an ic point for.
InputsOf(k) == VkLen[k] - (HeaderUnits + 1)

\* A proof was made for one key; `used' is the index of its last public input
\* that is not zero.
Proofs == {p \in [key: KeyFiles, used: 0 .. MaxVkUnits] :
             VkLen[p.key] > HeaderUnits /\ p.used <= InputsOf(p.key)}

\* The tag each entry point requires; `verify' takes any.
Entries == {"verify_auth", "verify_completion", "verify_pool", "verify"}
RequiredTag(entry, t) ==
  CASE entry = "verify_auth"       -> t = 0
    [] entry = "verify_completion" -> t = 1
    [] entry = "verify_pool"       -> t = 2
    [] entry = "verify"            -> TRUE

-----------------------------------------------------------------------------
VerifierInit ==
  /\ vks = NoAccounts
  /\ event = NoEvent
  /\ latest = NoAccounts

\* The content of the account before the upload; a new one is zeroed.
BytesAt(t) ==
  IF t \in DOMAIN vks THEN vks[t].bytes
  ELSE [u \in 0 .. MaxVkUnits - 1 |-> Blank]

\* copy_from_slice overwrites a prefix and leaves the tail of what was there.
Uploaded(t, k) ==
  [circuit_id |-> t, bytes_len |-> VkLen[k],
   bytes |-> [u \in 0 .. MaxVkUnits - 1 |->
                IF u < VkLen[k] THEN k ELSE BytesAt(t)[u]]]

Fits(k) == VkLen[k] <= MaxVkUnits

upload_vk(t, k) ==
  /\ Fits(k)                                             \* else VkTooLarge
  /\ vks' = Put(vks, t, Uploaded(t, k))
  /\ latest' = Put(latest, t, k)
  /\ event' = NoEvent

\* Mutation: the whole byte array is read, the tail of an older key included.
ReadableWholeAccount(vk) == MaxVkUnits

\* Units verify_inner may read: vk = &v.bytes[..v.bytes_len].
Readable(vk) == vk.bytes_len

\* The header and ic[0] are sliced without a check, and a slice out of range
\* aborts; each further ic point is checked, else IcOutOfRange.
InRange(vk, n) == HeaderUnits + 1 + n <= Readable(vk)

\* alt_bn128_pairing over the units involved gives one.
PairingHolds(vk, proof, n) ==
  /\ \A u \in 0 .. HeaderUnits + n : vk.bytes[u] = proof.key
  /\ proof.used <= n

\* verify_inner succeeds with n public inputs.
verify_inner(vk, proof, n) == InRange(vk, n) /\ PairingHolds(vk, proof, n)

\* The Verify accounts: the account passed lies at the address of its own tag.
AtOwnAddress(t) == t \in DOMAIN vks /\ vks[t].circuit_id = t

\* Mutation: the tag is not compared with the entry point's.
AnyTag(entry, t) == TRUE

\* The `require!' on the tag, if the entry point has one.
RightCircuit(entry, t) == RequiredTag(entry, vks[t].circuit_id)

verify(entry, t, proof, n) ==
  /\ AtOwnAddress(t)
  /\ RightCircuit(entry, t)
  /\ verify_inner(vks[t], proof, n)
  /\ event' = [entry |-> entry, circuit_id |-> vks[t].circuit_id, key |-> proof.key]
  /\ UNCHANGED <<vks, latest>>

VerifierNext ==
  \E t \in Tags :
    \/ \E k \in KeyFiles : upload_vk(t, k)
    \/ \E entry \in Entries, proof \in Proofs, n \in 0 .. MaxVkUnits :
         verify(entry, t, proof, n)

VerifierSpec == VerifierInit /\ [][VerifierNext]_verifierVars

-----------------------------------------------------------------------------
VerifierTypeOK ==
  /\ IsAccountMap(vks, Tags, Vk)
  /\ IsAccountMap(latest, Tags, KeyFiles)
  /\ DOMAIN latest = DOMAIN vks
  /\ event \in [entry: Entries, circuit_id: Tags, key: KeyFiles] \cup {NoEvent}

\* Whatever keys an account has held, the check depends on the last upload
\* alone, and is exact: it accepts the proofs made for that key, with enough
\* public inputs to cover those that are not zero and no more than the key
\* has, and it never reads what an older, longer key left behind.
VerifyIsExact ==
  \A t \in DOMAIN vks, proof \in Proofs, n \in 0 .. MaxVkUnits :
    AtOwnAddress(t) /\ verify_inner(vks[t], proof, n) <=>
      /\ proof.key = latest[t]
      /\ proof.used <= n /\ n <= InputsOf(proof.key)

\* An event is emitted only for a proof of the key in force at that moment
\* under the tag of the event, and an entry point speaks of its circuit only.
VerifiedUnderLatestKey ==
  event # NoEvent =>
    /\ event.circuit_id \in DOMAIN latest
    /\ latest[event.circuit_id] = event.key
    /\ event.entry = "verify_auth" => event.circuit_id = 0
    /\ event.entry = "verify_completion" => event.circuit_id = 1
    /\ event.entry = "verify_pool" => event.circuit_id = 2

=============================================================================
