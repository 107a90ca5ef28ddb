----------------------------- MODULE VeilClient -----------------------------
(***************************************************************************)
(* The SDK client against the deployed programs: what happens between the  *)
(* moment openSession reads the registry epoch and the moment the proof    *)
(* made with it reaches the verifier.  Meanwhile the authority rotates the *)
(* epoch, operators upload verification keys and publish proving keys, and *)
(* the init-registry migration runs, perhaps on two machines.              *)
(*                                                                         *)
(* Extends VeilRegistry and composes it with VeilVerifier: a step on chain *)
(* is a step of one of them.  A client awaits the RPC, the prover, the     *)
(* wallet and the cluster; at each await the others may move.              *)
(***************************************************************************)
EXTENDS VeilRegistry, VeilVerifier

CONSTANTS
  Clients,       \* SDK clients, one session each at a time
  Deployers,     \* machines that run the init-registry migration
  Circuits,      \* circuit names the SDK proves: "auth", "completion"
  CircuitOf,     \* CircuitOf[k]: the circuit key file k belongs to
  FirstKey       \* FirstKey[z]: the key file of z the site is first built with

ASSUME ClientConstants ==
  /\ "auth" \in Circuits /\ Circuits \subseteq {"auth", "completion"}
  /\ CircuitOf \in [KeyFiles -> Circuits]
  /\ FirstKey \in [Circuits -> KeyFiles]
  /\ Deployers \subseteq Keys

VARIABLES
  site,                       \* site[z]: the zkey the site serves for z
  clients,                    \* what each SDK client holds and awaits
  deployers                   \* how far each run of the migration has got

allVars == <<vars, verifierVars, site, clients, deployers>>

\* Mutation: CIRCUIT_IDS in place of VERIFIER_CIRCUIT_TAG.
CircuitId(circuit) == IF circuit = "auth" THEN 1 ELSE 2

\* VERIFIER_CIRCUIT_TAG, the SDK's table of tags.
Tag(circuit) == IF circuit = "auth" THEN 0 ELSE 1

\* The table of tags of upload-vk.sh.
UploadTag(circuit) == IF circuit = "auth" THEN 0 ELSE 1

\* METHOD_NAME.
Entry(circuit) == IF circuit = "auth" THEN "verify_auth" ELSE "verify_completion"

\* A client awaits nothing (idle), the prover (fetched), the wallet (proved)
\* or the cluster (sent).  `epoch' is the session's, 0 without a session;
\* `bundle' is the proof held, if any; `result' is what became of the last.
Client ==
  [at: {"idle", "fetched", "proved", "sent"}, epoch: 0 .. MaxU64,
   bundle: {{}} \cup {{b} : b \in [circuit: Circuits, key: KeyFiles, epoch: 1 .. MaxU64]},
   result: {"none", "verified", "refused", "lost"}]

-----------------------------------------------------------------------------
SystemInit ==
  /\ Init /\ VerifierInit
  /\ site = FirstKey
  /\ clients = [c \in Clients |->
       [at |-> "idle", epoch |-> 0, bundle |-> {}, result |-> "none"]]
  /\ deployers = [d \in Deployers |-> "idle"]

ChainStaysPut == UNCHANGED <<vars, verifierVars>>

\* fetchEpoch: what getAccountInfo returns, or 1 when there is no account.
EpochRead == IF registry.exists THEN registry.epoch ELSE 1

\* openSession reads the epoch; everything it builds afterwards uses it.
openSession(c) ==
  /\ clients[c].at = "idle"
  /\ clients' = [clients EXCEPT ![c] =
       [at |-> "fetched", epoch |-> EpochRead, bundle |-> {}, result |-> "none"]]
  /\ ChainStaysPut /\ UNCHANGED <<site, deployers>>

\* proveTransfer starts from the session held, whatever its epoch.
proveTransfer(c) ==
  /\ clients[c].at = "idle" /\ clients[c].epoch > 0
  /\ "completion" \in Circuits
  /\ clients' = [clients EXCEPT ![c] =
       [@ EXCEPT !.at = "proved", !.result = "none",
                 !.bundle = {[circuit |-> "completion", key |-> site["completion"],
                              epoch |-> clients[c].epoch]}]]
  /\ ChainStaysPut /\ UNCHANGED <<site, deployers>>

\* fullProve for the auth circuit, with the zkey the site serves by then.
ProveAuth(c) ==
  /\ clients[c].at = "fetched"
  /\ clients' = [clients EXCEPT ![c].at = "proved",
       ![c].bundle = {[circuit |-> "auth", key |-> site["auth"],
                       epoch |-> clients[c].epoch]}]
  /\ ChainStaysPut /\ UNCHANGED <<site, deployers>>

\* The proof and the number of public inputs of the instruction for b.
ProofOf(b) == [key |-> b.key, used |-> InputsOf(b.key)]

\* Whether the verifier, as it stands, takes the instruction built for b.
Taken(b) ==
  /\ AtOwnAddress(Tag(b.circuit))
  /\ RightCircuit(Entry(b.circuit), Tag(b.circuit))
  /\ verify_inner(vks[Tag(b.circuit)], ProofOf(b), InputsOf(b.key))

\* submitProof: sendRawTransaction simulates the transaction first and throws
\* if it fails; otherwise it returns a signature and awaits nothing more.
submit(c) ==
  /\ clients[c].at = "proved"
  /\ \E b \in clients[c].bundle :
       clients' = [clients EXCEPT ![c] =
         IF Taken(b) THEN [@ EXCEPT !.at = "sent"]
         ELSE [@ EXCEPT !.at = "idle", !.result = "refused"]]
  /\ ChainStaysPut /\ UNCHANGED <<site, deployers>>

\* The prover throws, and openSession with it: there is no session.
ProverFails(c) ==
  /\ clients[c].at = "fetched"
  /\ clients' = [clients EXCEPT ![c] =
       [at |-> "idle", epoch |-> 0, bundle |-> {}, result |-> "none"]]
  /\ ChainStaysPut /\ UNCHANGED <<site, deployers>>

\* The caller submits a bundle again that was refused or lost.
Resubmit(c) ==
  /\ clients[c].at = "idle" /\ clients[c].result \in {"refused", "lost"}
  /\ clients' = [clients EXCEPT ![c].at = "proved", ![c].result = "none"]
  /\ ChainStaysPut /\ UNCHANGED <<site, deployers>>

\* The cluster executes the transaction: the verifier accepts or fails it.
Land(c) ==
  /\ clients[c].at = "sent"
  /\ \E b \in clients[c].bundle :
       \/ /\ verify(Entry(b.circuit), Tag(b.circuit), ProofOf(b), InputsOf(b.key))
          /\ clients' = [clients EXCEPT ![c].at = "idle", ![c].result = "verified"]
       \/ /\ ~Taken(b)
          /\ UNCHANGED verifierVars
          /\ clients' = [clients EXCEPT ![c].at = "idle", ![c].result = "refused"]
  /\ UNCHANGED <<vars, site, deployers>>

\* The wallet refuses to sign, or the blockhash expires before the transaction
\* lands, and it never will.
Lose(c) ==
  /\ clients[c].at \in {"proved", "sent"}
  /\ clients' = [clients EXCEPT ![c].at = "idle", ![c].result = "lost"]
  /\ ChainStaysPut /\ UNCHANGED <<site, deployers>>

-----------------------------------------------------------------------------
\* init-registry reads the account, and stops if it is there.
CheckRegistry(d) ==
  /\ deployers[d] = "idle"
  /\ deployers' = [deployers EXCEPT ![d] =
       IF registry.exists THEN "done" ELSE "sending"]
  /\ ChainStaysPut /\ UNCHANGED <<site, clients>>

\* It then sends `initialize', which fails if another run came first.
SendInitialize(d) ==
  /\ deployers[d] = "sending"
  /\ \/ initialize(d) /\ deployers' = [deployers EXCEPT ![d] = "done"]
     \/ /\ ~RegistryIsNew
        /\ deployers' = [deployers EXCEPT ![d] = "idle"]
        /\ UNCHANGED vars
  /\ UNCHANGED <<verifierVars, site, clients>>

\* Everybody else's transactions to the registry, and the clock.
RegistryMoves ==
  /\ \/ NextSlot
     \/ \E key \in Keys : rotate_epoch(key)
     \/ \E c \in Commitments : register_agent(c)
  /\ UNCHANGED <<verifierVars, site, clients, deployers>>

\* upload-vk.sh uploads a key under its circuit's tag.
UploadVk(k) ==
  /\ upload_vk(UploadTag(CircuitOf[k]), k)
  /\ UNCHANGED <<vars, site, clients, deployers>>

\* The site is rebuilt with another proving key.
PublishSite(k) ==
  /\ site' = [site EXCEPT ![CircuitOf[k]] = k]
  /\ ChainStaysPut /\ UNCHANGED <<clients, deployers>>

SystemNext ==
  \/ \E c \in Clients : \/ openSession(c) \/ ProveAuth(c) \/ proveTransfer(c)
                        \/ submit(c) \/ Resubmit(c) \/ Land(c) \/ Lose(c)
                        \/ ProverFails(c)
  \/ \E d \in Deployers : CheckRegistry(d) \/ SendInitialize(d)
  \/ \E k \in KeyFiles : UploadVk(k) \/ PublishSite(k)
  \/ RegistryMoves

SystemSpec == SystemInit /\ [][SystemNext]_allVars

-----------------------------------------------------------------------------
\* A session's epoch is one the registry has reached, even when it was opened
\* before the registry account existed and even when two migrations race: an
\* epoch once read can fall behind, never run ahead.
SessionEpochReached ==
  \A c \in Clients :
    /\ clients[c].epoch > 0 /\ registry.exists => clients[c].epoch <= registry.epoch
    /\ \A b \in clients[c].bundle : b.epoch = clients[c].epoch /\ b.epoch >= 1

\* A proof is refused only when the verifier does not hold, at that moment, the
\* key the proof was made for: the tag, the entry point and the number of
\* inputs that the SDK chooses never cause a refusal.
RefusalStep ==
  \A c \in Clients :
    clients'[c].result = "refused" /\ clients[c].result # "refused" =>
      \A b \in clients[c].bundle :
        LET tag == IF b.circuit = "auth" THEN 0 ELSE 1
        IN  tag \notin DOMAIN latest \/ latest[tag] # b.key

RefusedOnlyForOtherKey == [][RefusalStep]_allVars

\* A migration that reports success leaves an initialised registry, and no
\* later run, however it interleaved, takes the authority over.
MigrationStep ==
  /\ (\E d \in Deployers : deployers'[d] = "done") => registry'.exists
  /\ registry.exists => registry'.authority = registry.authority

MigrationIsSafe == [][MigrationStep]_allVars

\* What the documentation of rotate_epoch says: a rotation makes every proof
\* authored against an earlier epoch worthless.
RotationStep ==
  \A c \in Clients :
    clients'[c].result = "verified" /\ clients[c].result # "verified" =>
      \A b \in clients[c].bundle : b.circuit = "auth" => b.epoch = registry.epoch

RotationInvalidatesProofs == [][registry.exists => RotationStep]_allVars

=============================================================================
