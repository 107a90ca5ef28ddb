-------------------------- MODULE VeilClientProofs --------------------------
(***************************************************************************)
(* Theorems of the registry program, for every set of keys and commitments, *)
(* every width of u64 and every rotation interval; of the verifier program, *)
(* for every set of tags and keys, every length of a key file and every    *)
(* size of the account; and of their callers: clients, deployers, operators *)
(* and the two programs together implement each program, the epoch of a    *)
(* session is one the registry has reached, racing migrations do no harm,  *)
(* and only another key causes a refusal, for any number of each.          *)
(***************************************************************************)
EXTENDS VeilClient, FiniteSetTheorems, TLAPS

-----------------------------------------------------------------------------
(* The registry program. *)

\* Creating an account keeps a family of accounts well formed: the domain
\* grows by that address, and every other account is as it was.
LEMMA PutAccount ==
  ASSUME NEW K, NEW R, NEW m, IsAccountMap(m, K, R), NEW k \in K, NEW v \in R
  PROVE  /\ IsAccountMap(Put(m, k, v), K, R)
         /\ DOMAIN Put(m, k, v) = DOMAIN m \cup {k}
         /\ Put(m, k, v)[k] = v
         /\ \A x \in DOMAIN m : x # k => Put(m, k, v)[x] = m[x]
  BY DEF IsAccountMap, Put

\* The invariant is inductive only with the types and with the finiteness of
\* the set of agent accounts, which its cardinality needs.
IInv ==
  /\ TypeOK
  /\ IsFiniteSet(DOMAIN agents)
  /\ AgentCountExact
  /\ EpochIsPaced
  /\ AgentEpochsReached
  /\ ~registry.exists => registry.agent_count = 0

\* A registered agent is counted: Cardinality grows with the counter.
LEMMA RegisterCounts ==
  ASSUME IInv, NEW c \in Commitments, register_agent(c)
  PROVE  /\ DOMAIN agents' = DOMAIN agents \cup {c}
         /\ IsFiniteSet(DOMAIN agents')
         /\ AgentCountExact'
<1> DEFINE rec == [commitment |-> c, epoch_registered |-> registry.epoch]
<1>1. rec \in Agent
  BY DEF IInv, TypeOK, Registry, Agent
<1>2. DOMAIN agents' = DOMAIN agents \cup {c}
  BY <1>1, PutAccount DEF IInv, TypeOK, register_agent
<1>3. /\ IsFiniteSet(DOMAIN agents \cup {c})
      /\ Cardinality(DOMAIN agents \cup {c}) = Cardinality(DOMAIN agents) + 1
  BY FS_AddElement DEF IInv, register_agent, AgentIsNew
<1>4. registry'.agent_count = registry.agent_count + 1
  BY DEF IInv, TypeOK, Registry, register_agent
<1> QED BY <1>2, <1>3, <1>4 DEF IInv, AgentCountExact

LEMMA InitIInv == Init => IInv
<1> SUFFICES ASSUME Init PROVE IInv
  OBVIOUS
<1>1. DOMAIN agents = {}
  BY DEF Init, NoAccounts
<1>2. TypeOK
  BY MaxU64Assumption, <1>1 DEF Init, TypeOK, Registry, IsAccountMap, NoAccounts, U64
<1>3. IsFiniteSet(DOMAIN agents) /\ Cardinality(DOMAIN agents) = 0
  BY <1>1, FS_EmptySet
<1> QED BY <1>1, <1>2, <1>3
     DEF Init, IInv, AgentCountExact, EpochIsPaced, AgentEpochsReached

LEMMA NextIInv == IInv /\ [Next]_vars => IInv'
<1> SUFFICES ASSUME IInv, [Next]_vars PROVE IInv'
  OBVIOUS
<1>1. CASE UNCHANGED vars
  BY <1>1 DEF IInv, TypeOK, AgentCountExact, EpochIsPaced, AgentEpochsReached, vars
<1>2. CASE NextSlot
  BY <1>2, MaxU64Assumption
     DEF NextSlot, IInv, TypeOK, AgentCountExact, EpochIsPaced,
         AgentEpochsReached, U64, Registry
<1>3. ASSUME NEW key \in Keys, initialize(key) PROVE IInv'
  <2>1. TypeOK'
    BY <1>3, MaxU64Assumption DEF initialize, IInv, TypeOK, Registry, U64
  <2>2. DOMAIN agents = {}
    BY <1>3 DEF initialize, RegistryIsNew, IInv, AgentEpochsReached
  <2>3. AgentCountExact'
    BY <1>3, <2>2, FS_EmptySet DEF initialize, AgentCountExact
  <2>4. EpochIsPaced'
    BY <1>3, MinRotateAssumption DEF initialize, EpochIsPaced, IInv, TypeOK, U64
  <2> QED
    BY <1>3, <2>1, <2>2, <2>3, <2>4 DEF initialize, IInv, AgentEpochsReached
<1>4. ASSUME NEW c \in Commitments, register_agent(c) PROVE IInv'
  <2> DEFINE rec == [commitment |-> c, epoch_registered |-> registry.epoch]
  <2>1. rec \in Agent
    BY DEF IInv, TypeOK, Registry, Agent
  <2>2. /\ IsAccountMap(agents', Commitments, Agent)
        /\ agents'[c] = rec
        /\ \A x \in DOMAIN agents : x # c => agents'[x] = agents[x]
    <3>1. IsAccountMap(agents, Commitments, Agent)
      BY DEF IInv, TypeOK
    <3>2. agents' = Put(agents, c, rec)
      BY <1>4 DEF register_agent
    <3> HIDE DEF rec
    <3>3. /\ IsAccountMap(Put(agents, c, rec), Commitments, Agent)
          /\ Put(agents, c, rec)[c] = rec
          /\ \A x \in DOMAIN agents : x # c => Put(agents, c, rec)[x] = agents[x]
      BY <2>1, <3>1 DEF IsAccountMap, Put
    <3> QED BY <3>2, <3>3
  <2>3. TypeOK'
    BY <1>4, <2>2, MaxU64Assumption DEF register_agent, IInv, TypeOK, Registry, U64
  <2>4. EpochIsPaced'
    BY <1>4 DEF register_agent, EpochIsPaced, IInv, TypeOK, Registry
  <2>5. registry'.epoch = registry.epoch /\ registry'.exists
    BY <1>4 DEF register_agent, IInv, TypeOK, Registry
  <2>6. AgentEpochsReached'
    <3>1. c # ZeroBytes /\ registry.epoch \in 1 .. registry.epoch
      BY <1>4 DEF register_agent, EpochIsPaced, IInv, TypeOK, Registry, U64
    <3>2. rec.commitment = c /\ rec.epoch_registered = registry.epoch
      OBVIOUS
    <3>3. DOMAIN agents' = DOMAIN agents \cup {c}
      BY <1>4, RegisterCounts
    <3> HIDE DEF rec
    <3>4. ASSUME NEW x \in DOMAIN agents'
          PROVE  /\ agents'[x].epoch_registered \in 1 .. registry.epoch
                 /\ agents'[x].commitment = x /\ x # ZeroBytes
      BY <2>2, <3>1, <3>2, <3>3 DEF IInv, AgentEpochsReached
    <3> QED BY <2>5, <3>4 DEF AgentEpochsReached
  <2> QED
    BY <1>4, <2>3, <2>4, <2>5, <2>6, RegisterCounts DEF IInv
<1>5. ASSUME NEW key \in Keys, rotate_epoch(key) PROVE IInv'
  <2>1. /\ registry.epoch \in Nat /\ registry.last_rotated_slot \in Nat /\ slot \in Nat
        /\ registry.last_rotated_slot <= slot
        /\ registry.epoch >= 1
        /\ (registry.epoch - 1) * MinRotateSlots <= registry.last_rotated_slot
    BY <1>5 DEF rotate_epoch, IInv, TypeOK, Registry, U64, EpochIsPaced
  <2>2. slot >= registry.last_rotated_slot + MinRotateSlots
    BY <1>5, <2>1, MinRotateAssumption DEF rotate_epoch, SaturatingSub
  <2>3. /\ registry'.epoch = registry.epoch + 1
        /\ registry'.last_rotated_slot = slot
        /\ registry'.agent_count = registry.agent_count
        /\ registry'.exists
        /\ slot' = slot /\ agents' = agents
    BY <1>5 DEF rotate_epoch, Rotated, IInv, TypeOK, Registry
  <2>4. TypeOK'
    <3>1. registry.epoch + 1 \in U64 /\ slot \in U64
      BY <1>5, <2>1, MaxU64Assumption DEF rotate_epoch, IInv, TypeOK, U64
    <3>2. registry' \in Registry
      BY <1>5, <3>1 DEF rotate_epoch, Rotated, IInv, TypeOK, Registry
    <3> QED BY <1>5, <3>2 DEF rotate_epoch, IInv, TypeOK
  <2>5. EpochIsPaced'
    <3>1. registry.epoch * MinRotateSlots
            = (registry.epoch - 1) * MinRotateSlots + MinRotateSlots
      BY <2>1, MinRotateAssumption
    <3>2. registry.epoch * MinRotateSlots \in Nat
      BY <2>1, MinRotateAssumption
    <3>3. (registry.epoch - 1) * MinRotateSlots \in Nat
      BY <2>1, MinRotateAssumption
    <3> QED
      BY <2>1, <2>2, <2>3, <3>1, <3>2, <3>3, MinRotateAssumption DEF EpochIsPaced
  <2>6. AgentEpochsReached'
    BY <2>1, <2>3 DEF IInv, TypeOK, AgentEpochsReached
  <2> QED
    BY <2>3, <2>4, <2>5, <2>6 DEF IInv, AgentCountExact
<1> QED BY <1>1, <1>2, <1>3, <1>4, <1>5 DEF Next

\* The registry's accounts keep their types, its counter matches the accounts,
\* its epoch is paced by the clock and no agent claims an epoch to come.
THEOREM RegistryInvariant ==
  Spec => [](TypeOK /\ AgentCountExact /\ EpochIsPaced /\ AgentEpochsReached)
<1>1. IInv => TypeOK /\ AgentCountExact /\ EpochIsPaced /\ AgentEpochsReached
  BY DEF IInv
<1> QED BY <1>1, InitIInv, NextIInv, PTL DEF Spec

\* The registry is never reset, and what it says of an agent never changes.
THEOREM RegistryKeepsItsAccounts == Spec => RegistryNeverRestarts
<1>1. ASSUME IInv, Next PROVE NeverRestartsStep
  <2> USE <1>1
  <2>1. registry \in Registry /\ registry.epoch \in Nat /\ registry.agent_count \in Nat
    BY DEF IInv, TypeOK, Registry, U64
  <2>2. CASE NextSlot
    BY <2>1, <2>2 DEF NextSlot, NeverRestartsStep
  <2>3. ASSUME NEW key \in Keys, initialize(key) PROVE NeverRestartsStep
    BY <2>3 DEF initialize, RegistryIsNew, NeverRestartsStep
  <2>4. ASSUME NEW c \in Commitments, register_agent(c) PROVE NeverRestartsStep
    <3>1. \A x \in DOMAIN agents : x \in DOMAIN agents' /\ agents'[x] = agents[x]
      BY <2>4 DEF register_agent, AgentIsNew, Put
    <3> QED
      BY <2>1, <2>4, <3>1 DEF register_agent, NeverRestartsStep, Registry
  <2>5. ASSUME NEW key \in Keys, rotate_epoch(key) PROVE NeverRestartsStep
    BY <2>1, <2>5 DEF rotate_epoch, Rotated, NeverRestartsStep, Registry
  <2> QED BY <2>2, <2>3, <2>4, <2>5 DEF Next
<1>2. IInv /\ [Next]_vars => [NeverRestartsStep]_vars
  BY <1>1
<1> QED BY <1>2, InitIInv, NextIInv, PTL DEF Spec, RegistryNeverRestarts

-----------------------------------------------------------------------------
(* The program with its callers. *)

\* An epoch is used with the proofs it was read for, and before there is a
\* registry it can only have been read as the first.
ClientSound(s) ==
  /\ s.at = "fetched" => s.epoch >= 1
  /\ \A b \in s.bundle : b.epoch = s.epoch /\ b.epoch >= 1
  /\ s.epoch > 0 => IF registry.exists THEN s.epoch <= registry.epoch ELSE s.epoch = 1

ClientsSound ==
  /\ site \in [Circuits -> KeyFiles]
  /\ clients \in [Clients -> Client]
  /\ \A c \in Clients : ClientSound(clients[c])

DeployersSound ==
  /\ deployers \in [Deployers -> {"idle", "sending", "done"}]
  /\ (\E d \in Deployers : deployers[d] = "done") => registry.exists

\* IInv is of the program.
SInv == IInv /\ ClientsSound /\ DeployersSound

LEMMA InitSInv == SystemInit => SInv
<1> SUFFICES ASSUME SystemInit PROVE SInv
  OBVIOUS
<1>1. IInv /\ ~registry.exists
  BY InitIInv DEF SystemInit, Init
<1>2. 0 \in 0 .. MaxU64
  BY MaxU64Assumption
<1>3. ClientsSound
  BY <1>2, ClientConstants DEF SystemInit, ClientsSound, ClientSound, Client
<1> QED BY <1>1, <1>3 DEF SystemInit, SInv, DeployersSound

-----------------------------------------------------------------------------
(* What a step does to the registry. *)

LEMMA ProgramStep == [SystemNext]_allVars => [Next]_vars
<1> SUFFICES ASSUME [SystemNext]_allVars PROVE [Next]_vars
  OBVIOUS
<1>1. CASE UNCHANGED allVars
  BY <1>1 DEF allVars
<1>2. ASSUME NEW c \in Clients,
             \/ openSession(c) \/ ProveAuth(c) \/ proveTransfer(c) \/ submit(c)
             \/ Resubmit(c) \/ Land(c) \/ Lose(c) \/ ProverFails(c)
      PROVE  UNCHANGED vars
  BY <1>2 DEF openSession, ProveAuth, proveTransfer, submit, Resubmit, Land, Lose,
              ProverFails, ChainStaysPut
<1>3. ASSUME NEW d \in Deployers, CheckRegistry(d) \/ SendInitialize(d)
      PROVE  [Next]_vars
  <2>1. d \in Keys
    BY <1>3, ClientConstants
  <2> QED BY <1>3, <2>1 DEF CheckRegistry, SendInitialize, ChainStaysPut, Next
<1>4. ASSUME NEW k \in KeyFiles, UploadVk(k) \/ PublishSite(k) PROVE UNCHANGED vars
  BY <1>4 DEF UploadVk, PublishSite, ChainStaysPut
<1>5. CASE RegistryMoves
  BY <1>5 DEF RegistryMoves, Next
<1> QED BY <1>1, <1>2, <1>3, <1>4, <1>5 DEF SystemNext

\* The registry comes into being at epoch 1 and its epoch never falls.
RegistryOnward ==
  /\ registry.exists =>
       /\ registry'.exists /\ registry'.epoch >= registry.epoch
       /\ registry'.authority = registry.authority
  /\ ~registry.exists /\ registry'.exists => registry'.epoch = 1

LEMMA Onward ==
  ASSUME IInv, [Next]_vars
  PROVE  RegistryOnward
<1>1. registry \in Registry /\ registry.epoch \in Nat
  BY DEF IInv, TypeOK, Registry, U64
<1>2. CASE UNCHANGED vars
  BY <1>1, <1>2 DEF vars, RegistryOnward
<1>3. CASE NextSlot
  BY <1>1, <1>3 DEF NextSlot, RegistryOnward
<1>4. ASSUME NEW key \in Keys, initialize(key) PROVE RegistryOnward
  BY <1>4 DEF initialize, RegistryIsNew, RegistryOnward
<1>5. ASSUME NEW c \in Commitments, register_agent(c) PROVE RegistryOnward
  BY <1>1, <1>5 DEF register_agent, RegistryOnward, Registry
<1>6. ASSUME NEW key \in Keys, rotate_epoch(key) PROVE RegistryOnward
  BY <1>1, <1>6 DEF rotate_epoch, Rotated, RegistryOnward, Registry
<1> QED BY <1>2, <1>3, <1>4, <1>5, <1>6 DEF Next

\* Whatever a sound client holds stays sound as the registry moves on.
LEMMA StaysSound ==
  ASSUME SInv, [SystemNext]_allVars, NEW s \in Client, ClientSound(s)
  PROVE  ClientSound(s)'
<1>1. RegistryOnward
  BY ProgramStep, Onward DEF SInv
<1>2. s.epoch \in Nat /\ registry.epoch \in Nat /\ registry'.epoch \in Nat
  <2>1. TypeOK /\ TypeOK'
    BY ProgramStep, NextIInv DEF SInv, IInv
  <2> QED BY <2>1, MaxU64Assumption DEF Client, TypeOK, Registry, U64
<1> QED BY <1>1, <1>2 DEF ClientSound, RegistryOnward

\* Setting both what is awaited and the result keeps the rest.
LEMMA ClientFields ==
  ASSUME NEW s \in Client, NEW a, NEW r
  PROVE  [s EXCEPT !.at = a, !.result = r]
           = [at |-> a, epoch |-> s.epoch, bundle |-> s.bundle, result |-> r]
<1> DEFINE e == [s EXCEPT !.at = a, !.result = r]
<1>1. DOMAIN s = {"at", "epoch", "bundle", "result"}
  BY DEF Client
<1>2. /\ DOMAIN e = {"at", "epoch", "bundle", "result"}
      /\ e = [f \in {"at", "epoch", "bundle", "result"} |-> e[f]]
  BY <1>1
<1>3. e.at = a /\ e.result = r /\ e.epoch = s.epoch /\ e.bundle = s.bundle
  BY <1>1
<1> HIDE DEF e
<1>4. e = [at |-> a, epoch |-> s.epoch, bundle |-> s.bundle, result |-> r]
  BY <1>2, <1>3
<1> QED BY <1>4 DEF e

\* One client moves, to something sound.
Moves(c, s) ==
  /\ s \in Client /\ ClientSound(s)
  /\ clients' = [clients EXCEPT ![c] = s]
  /\ UNCHANGED <<vars, site, deployers>>

LEMMA ReadMoves ==
  ASSUME SInv, NEW c \in Clients, openSession(c) \/ ProverFails(c)
  PROVE  \E s : Moves(c, s)
<1>1. UNCHANGED <<vars, site, deployers>>
  BY DEF openSession, ProverFails, ChainStaysPut
<1>2. EpochRead \in 1 .. MaxU64 /\ 0 \in 0 .. MaxU64 /\ 1 \in Nat
  BY MaxU64Assumption DEF SInv, IInv, TypeOK, Registry, U64, EpochIsPaced, EpochRead
<1>3. ASSUME openSession(c) PROVE \E s : Moves(c, s)
  <2> DEFINE s == [at |-> "fetched", epoch |-> EpochRead, bundle |-> {}, result |-> "none"]
  <2>1. clients' = [clients EXCEPT ![c] = s]
    BY <1>3 DEF openSession
  <2>2. s \in Client
    BY <1>2 DEF Client
  <2>3. ClientSound(s)
    <3>1. registry.exists => EpochRead <= registry.epoch
      BY DEF EpochRead, SInv, IInv, TypeOK, Registry, U64
    <3>2. ~registry.exists => EpochRead = 1
      BY DEF EpochRead
    <3> QED BY <1>2, <3>1, <3>2 DEF ClientSound
  <2> HIDE DEF s
  <2> QED BY <1>1, <2>1, <2>2, <2>3 DEF Moves
<1>4. ASSUME ProverFails(c) PROVE \E s : Moves(c, s)
  <2> DEFINE s == [at |-> "idle", epoch |-> 0, bundle |-> {}, result |-> "none"]
  <2>1. clients' = [clients EXCEPT ![c] = s]
    BY <1>4 DEF ProverFails
  <2>2. s \in Client /\ ClientSound(s)
    BY <1>2 DEF Client, ClientSound
  <2> HIDE DEF s
  <2> QED BY <1>1, <2>1, <2>2 DEF Moves
<1> QED BY <1>3, <1>4

LEMMA ProveMoves ==
  ASSUME SInv, NEW c \in Clients, ProveAuth(c) \/ proveTransfer(c)
  PROVE  \E s : Moves(c, s)
<1> DEFINE z == IF clients[c].at = "fetched" THEN "auth" ELSE "completion"
           b == [circuit |-> z, key |-> site[z], epoch |-> clients[c].epoch]
           s == [at |-> "proved", epoch |-> clients[c].epoch, bundle |-> {b},
                 result |-> IF clients[c].at = "fetched" THEN clients[c].result ELSE "none"]
<1>1. /\ clients[c] \in Client /\ ClientSound(clients[c]) /\ clients \in [Clients -> Client]
      /\ site \in [Circuits -> KeyFiles]
  BY DEF SInv, ClientsSound
<1>2. clients' = [clients EXCEPT ![c] = s] /\ UNCHANGED <<vars, site, deployers>>
  BY <1>1 DEF ProveAuth, proveTransfer, ChainStaysPut, Client
<1>3. z \in Circuits
  BY ClientConstants DEF ProveAuth, proveTransfer
<1>4. clients[c].epoch \in 1 .. MaxU64
  BY <1>1, MaxU64Assumption DEF ProveAuth, proveTransfer, ClientSound, Client
<1>5. b \in [circuit: Circuits, key: KeyFiles, epoch: 1 .. MaxU64]
      /\ b.epoch = clients[c].epoch
  BY <1>1, <1>3, <1>4
<1> HIDE DEF b, z
<1>6. s \in Client
  BY <1>1, <1>5 DEF Client
<1>7. ClientSound(s)
  BY <1>1, <1>4, <1>5 DEF ClientSound
<1> HIDE DEF s
<1> QED BY <1>2, <1>6, <1>7 DEF Moves

LEMMA SubmitMoves ==
  ASSUME SInv, NEW c \in Clients, submit(c) \/ Resubmit(c) \/ Land(c) \/ Lose(c)
  PROVE  \E s : Moves(c, s)
<1>1. /\ clients[c] \in Client /\ ClientSound(clients[c]) /\ clients \in [Clients -> Client]
  BY DEF SInv, ClientsSound
<1>2. UNCHANGED <<vars, site, deployers>>
  BY DEF submit, Resubmit, Land, Lose, ChainStaysPut
\* The session and its proof stay; only what is awaited and the result change.
<1> DEFINE to(at, result) == [at |-> at, epoch |-> clients[c].epoch,
                              bundle |-> clients[c].bundle, result |-> result]
<1>3. \A at \in {"idle", "proved", "sent"}, result \in {"none", "verified", "refused", "lost"} :
        [clients[c] EXCEPT !.at = at, !.result = result] = to(at, result)
  BY <1>1, ClientFields
<1>4. \A at : [clients[c] EXCEPT !.at = at] = to(at, clients[c].result)
  BY <1>1 DEF Client
<1>5. PICK at \in {"idle", "proved", "sent"},
           result \in {"none", "verified", "refused", "lost"} :
        clients' = [clients EXCEPT ![c] = to(at, result)]
  <2> HIDE DEF to
  <2>1. clients[c].result \in {"none", "verified", "refused", "lost"}
    BY <1>1 DEF Client
  <2>2. CASE submit(c)
    <3>1. \/ clients' = [clients EXCEPT ![c] = [clients[c] EXCEPT !.at = "sent"]]
          \/ clients' = [clients EXCEPT ![c] =
                           [clients[c] EXCEPT !.at = "idle", !.result = "refused"]]
      BY <2>2 DEF submit
    <3> QED BY <1>3, <1>4, <2>1, <3>1
  <2>3. CASE Resubmit(c)
    <3>1. clients' = [clients EXCEPT ![c] =
                       [clients[c] EXCEPT !.at = "proved", !.result = "none"]]
      BY <1>1, <2>3 DEF Resubmit, Client
    <3> QED BY <1>3, <3>1
  <2>4. CASE Land(c)
    <3>1. \E result \in {"verified", "refused"} :
            clients' = [clients EXCEPT ![c] =
                         [clients[c] EXCEPT !.at = "idle", !.result = result]]
      BY <1>1, <2>4 DEF Land, Client
    <3> QED BY <1>3, <3>1
  <2>5. CASE Lose(c)
    <3>1. clients' = [clients EXCEPT ![c] =
                       [clients[c] EXCEPT !.at = "idle", !.result = "lost"]]
      BY <1>1, <2>5 DEF Lose, Client
    <3> QED BY <1>3, <3>1
  <2> QED BY <2>2, <2>3, <2>4, <2>5
<1>6. to(at, result) \in Client
  BY <1>1 DEF Client
<1>7. ClientSound(to(at, result))
  BY <1>1, <1>5 DEF ClientSound
<1> HIDE DEF to
<1> QED BY <1>2, <1>5, <1>6, <1>7 DEF Moves

LEMMA NextSInv == SInv /\ [SystemNext]_allVars => SInv'
<1> SUFFICES ASSUME SInv, [SystemNext]_allVars PROVE SInv'
  OBVIOUS
<1>1. IInv' /\ RegistryOnward
  BY ProgramStep, NextIInv, Onward DEF SInv
<1>2. ASSUME site' \in [Circuits -> KeyFiles], clients' = clients PROVE ClientsSound'
  <2>1. \A s \in Client : ClientSound(s) => ClientSound(s)'
    BY StaysSound
  <2>2. \A c \in Clients : clients'[c] \in Client /\ ClientSound(clients'[c])
    BY <1>2 DEF SInv, ClientsSound
  <2> QED BY <1>2, <2>1, <2>2 DEF SInv, ClientsSound, ClientSound
<1>3. ASSUME deployers' = deployers PROVE DeployersSound'
  BY <1>1, <1>3 DEF SInv, DeployersSound, RegistryOnward
<1>4. ASSUME NEW c \in Clients, NEW s, Moves(c, s) PROVE SInv'
  <2>1. \A x \in Clients : clients'[x] \in Client /\ ClientSound(clients'[x])
    BY <1>4 DEF Moves, SInv, ClientsSound
  <2>2. clients' \in [Clients -> Client] /\ site' \in [Circuits -> KeyFiles]
    BY <1>4 DEF Moves, SInv, ClientsSound
  <2>3. registry' = registry /\ deployers' = deployers
    BY <1>4 DEF Moves, vars
  <2>4. ClientsSound'
    BY <2>1, <2>2, <2>3 DEF ClientsSound, ClientSound
  <2> QED BY <1>1, <1>3, <2>3, <2>4 DEF SInv
<1>5. CASE UNCHANGED allVars
  <2>1. site' \in [Circuits -> KeyFiles] /\ clients' = clients /\ deployers' = deployers
    BY <1>5 DEF allVars, SInv, ClientsSound
  <2> QED BY <1>1, <1>2, <1>3, <2>1 DEF SInv
<1>6. ASSUME NEW d \in Deployers, CheckRegistry(d) \/ SendInitialize(d) PROVE SInv'
  <2>1. site' \in [Circuits -> KeyFiles] /\ clients' = clients
    BY <1>6 DEF CheckRegistry, SendInitialize, SInv, ClientsSound
  <2>2. DeployersSound'
    <3>1. PICK x \in {"idle", "sending", "done"} :
            deployers' = [deployers EXCEPT ![d] = x] /\ (x = "done" => registry'.exists)
      <4>1. CASE CheckRegistry(d)
        BY <4>1, <1>1 DEF CheckRegistry, RegistryOnward
      <4>2. CASE SendInitialize(d)
        BY <4>2 DEF SendInitialize, initialize
      <4> QED BY <1>6, <4>1, <4>2
    <3> QED BY <1>1, <3>1 DEF SInv, DeployersSound, RegistryOnward
  <2> QED BY <1>1, <1>2, <2>1, <2>2 DEF SInv
<1>7. ASSUME NEW k \in KeyFiles, UploadVk(k) \/ PublishSite(k) PROVE SInv'
  <2>1. clients' = clients /\ deployers' = deployers
        /\ (site' = site \/ site' = [site EXCEPT ![CircuitOf[k]] = k])
    BY <1>7 DEF UploadVk, PublishSite
  <2>2. site' \in [Circuits -> KeyFiles]
    BY <2>1, ClientConstants DEF SInv, ClientsSound
  <2> QED BY <1>1, <1>2, <1>3, <2>1, <2>2 DEF SInv
<1>8. CASE RegistryMoves
  <2>1. site' \in [Circuits -> KeyFiles] /\ clients' = clients /\ deployers' = deployers
    BY <1>8 DEF RegistryMoves, SInv, ClientsSound
  <2> QED BY <1>1, <1>2, <1>3, <2>1 DEF SInv
<1> QED BY <1>4, <1>5, <1>6, <1>7, <1>8, ReadMoves, ProveMoves, SubmitMoves DEF SystemNext

-----------------------------------------------------------------------------
\* Clients, deployers, operators and the verifier together take only steps of
\* the registry program: every theorem about it holds of the composition.
THEOREM SystemImplementsRegistry == SystemSpec => Spec
<1>1. SystemInit => Init
  BY DEF SystemInit
<1> QED BY <1>1, ProgramStep, PTL DEF SystemSpec, Spec

\* A session's epoch is one the registry has reached, however long the proof
\* took, and even if the session was opened before there was a registry.
THEOREM SessionEpochsAreReached == SystemSpec => []SessionEpochReached
<1>1. SInv => SessionEpochReached
  BY DEF SInv, ClientsSound, ClientSound, SessionEpochReached
<1> QED BY <1>1, InitSInv, NextSInv, PTL DEF SystemSpec

\* A migration reports success only over an initialised registry, and none
\* takes the authority over, however many of them race.
THEOREM MigrationsAreSafe == SystemSpec => MigrationIsSafe
<1>1. SInv /\ SInv' /\ [SystemNext]_allVars => [MigrationStep]_allVars
  BY ProgramStep, Onward DEF SInv, DeployersSound, RegistryOnward, MigrationStep
<1> QED BY <1>1, InitSInv, NextSInv, PTL DEF SystemSpec, MigrationIsSafe

-----------------------------------------------------------------------------
(* The verifier program. *)

\* Each key account holds the key uploaded last, whole, under its own tag, and
\* whatever older keys left behind it.  This is what makes the check exact.
KeysHeld ==
  /\ DOMAIN latest = DOMAIN vks
  /\ \A t \in DOMAIN vks :
       /\ vks[t].circuit_id = t /\ latest[t] \in KeyFiles
       /\ VkLen[latest[t]] <= MaxVkUnits
       /\ vks[t].bytes_len = VkLen[latest[t]]
       /\ \A u \in 0 .. MaxVkUnits - 1 :
            u < VkLen[latest[t]] => vks[t].bytes[u] = latest[t]

LEMMA UploadHolds ==
  ASSUME KeysHeld, NEW t, NEW k \in KeyFiles, upload_vk(t, k)
  PROVE  KeysHeld'
<1> DEFINE vk == Uploaded(t, k)
<1>1. /\ VkLen[k] <= MaxVkUnits
      /\ vks' = Put(vks, t, vk) /\ latest' = Put(latest, t, k)
  BY DEF upload_vk, Fits, Put
<1>2. /\ vk.circuit_id = t /\ vk.bytes_len = VkLen[k]
      /\ \A u \in 0 .. MaxVkUnits - 1 : u < VkLen[k] => vk.bytes[u] = k
  BY DEF Uploaded
<1> HIDE DEF vk
<1>3. /\ DOMAIN vks' = DOMAIN vks \cup {t} /\ DOMAIN latest' = DOMAIN latest \cup {t}
      /\ vks'[t] = vk /\ latest'[t] = k
      /\ \A x \in DOMAIN vks \ {t} : vks'[x] = vks[x]
      /\ \A x \in DOMAIN latest \ {t} : latest'[x] = latest[x]
  BY <1>1 DEF Put
<1> QED BY <1>1, <1>2, <1>3 DEF KeysHeld

VInv == VerifierTypeOK /\ KeysHeld /\ VerifiedUnderLatestKey

\* An account that holds the latest key accepts exactly its proofs: enough
\* inputs to cover those that are not zero, and no more than the key has.
LEMMA HeldKeyIsExact ==
  ASSUME VerifierTypeOK, KeysHeld,
         NEW t \in DOMAIN vks, NEW proof \in Proofs, NEW n \in 0 .. MaxVkUnits
  PROVE  AtOwnAddress(t) /\ verify_inner(vks[t], proof, n) <=>
           /\ proof.key = latest[t]
           /\ proof.used <= n /\ n <= InputsOf(proof.key)
<1> DEFINE k == latest[t]
           len == VkLen[k]
<1>1. /\ vks[t].circuit_id = t /\ vks[t].bytes_len = len /\ len <= MaxVkUnits
      /\ \A u \in 0 .. MaxVkUnits - 1 : u < len => vks[t].bytes[u] = k
  BY DEF KeysHeld
<1>2. k \in KeyFiles /\ len \in Nat
  BY VerifierConstants DEF VerifierTypeOK, IsAccountMap
<1>3. n \in Nat /\ MaxVkUnits \in Nat /\ proof.used \in Nat /\ proof.key \in KeyFiles
  BY VerifierConstants DEF Proofs
<1> HIDE DEF k, len
<1>4. AtOwnAddress(t)
  BY <1>1 DEF AtOwnAddress
<1>5. InRange(vks[t], n) <=> 8 + n <= len
  BY <1>1, <1>2, <1>3 DEF InRange, Readable, HeaderUnits
<1>6. ASSUME 8 + n <= len
      PROVE  PairingHolds(vks[t], proof, n) <=> proof.key = k /\ proof.used <= n
  <2>1. \A u \in 0 .. 7 + n : vks[t].bytes[u] = k
    <3> TAKE u \in 0 .. 7 + n
    <3>1. u \in 0 .. MaxVkUnits - 1 /\ u < len
      BY <1>1, <1>2, <1>3, <1>6
    <3> QED BY <1>1, <3>1
  <2>2. 0 \in 0 .. 7 + n
    BY <1>3
  <2> QED BY <2>1, <2>2 DEF PairingHolds, HeaderUnits
<1>7. proof.key = k => (n <= InputsOf(proof.key) <=> 8 + n <= len)
  BY <1>2, <1>3 DEF InputsOf, HeaderUnits, len
<1> QED BY <1>4, <1>5, <1>6, <1>7 DEF verify_inner, k

LEMMA InitVInv == VerifierInit => VInv
BY VerifierConstants
   DEF VerifierInit, VInv, VerifierTypeOK, KeysHeld, VerifiedUnderLatestKey, NoAccounts, IsAccountMap

LEMMA UploadVInv ==
  ASSUME VInv, NEW t \in Tags, NEW k \in KeyFiles, upload_vk(t, k)
  PROVE  VInv'
<1> DEFINE vk == Uploaded(t, k)
<1>1. /\ VkLen[k] \in Nat /\ VkLen[k] <= MaxVkUnits /\ MaxVkUnits \in Nat
      /\ vks' = Put(vks, t, vk) /\ latest' = Put(latest, t, k) /\ event' = NoEvent
  BY VerifierConstants DEF upload_vk, Fits
<1>2. BytesAt(t) \in [0 .. MaxVkUnits - 1 -> KeyFiles \cup {Blank}]
  BY DEF VInv, VerifierTypeOK, IsAccountMap, Vk, BytesAt
<1>3. vk \in Vk
  BY <1>1, <1>2 DEF Uploaded, Vk
<1> HIDE DEF vk
<1>4. /\ DOMAIN vks' = DOMAIN vks \cup {t}
      /\ DOMAIN latest' = DOMAIN latest \cup {t}
      /\ \A x \in DOMAIN vks' : vks'[x] = IF x = t THEN vk ELSE vks[x]
      /\ \A x \in DOMAIN latest' : latest'[x] = IF x = t THEN k ELSE latest[x]
  BY <1>1 DEF Put
<1>5. VerifierTypeOK'
  BY <1>1, <1>3, <1>4 DEF VInv, VerifierTypeOK, IsAccountMap, Put
<1>6. KeysHeld'
  BY UploadHolds DEF VInv
<1> QED BY <1>1, <1>5, <1>6 DEF VInv, VerifiedUnderLatestKey

LEMMA VerifyVInv ==
  ASSUME VInv, NEW t \in Tags, NEW entry \in Entries, NEW proof \in Proofs,
         NEW n \in 0 .. MaxVkUnits, verify(entry, t, proof, n)
  PROVE  VInv'
<1>1. /\ t \in DOMAIN vks /\ vks[t].circuit_id = t
      /\ RequiredTag(entry, t) /\ verify_inner(vks[t], proof, n) /\ AtOwnAddress(t)
      /\ event' = [entry |-> entry, circuit_id |-> t, key |-> proof.key]
      /\ vks' = vks /\ latest' = latest
  BY DEF verify, AtOwnAddress, RightCircuit
<1>2. proof.key = latest[t]
  BY <1>1, HeldKeyIsExact DEF VInv
<1>3. proof.key \in KeyFiles
  BY DEF Proofs
<1>4. VerifierTypeOK' /\ KeysHeld'
  BY <1>1, <1>3 DEF VInv, VerifierTypeOK, KeysHeld, IsAccountMap
<1>5. /\ entry = "verify_auth" => t = 0
      /\ entry = "verify_completion" => t = 1
      /\ entry = "verify_pool" => t = 2
  BY <1>1 DEF RequiredTag
<1>6. VerifiedUnderLatestKey'
  BY <1>1, <1>2, <1>5 DEF VInv, VerifierTypeOK, VerifiedUnderLatestKey
<1> QED BY <1>4, <1>6 DEF VInv

LEMMA NextVInv == VInv /\ [VerifierNext]_verifierVars => VInv'
<1> SUFFICES ASSUME VInv, [VerifierNext]_verifierVars PROVE VInv'
  OBVIOUS
<1>1. CASE UNCHANGED verifierVars
  BY <1>1 DEF VInv, VerifierTypeOK, KeysHeld, VerifiedUnderLatestKey, IsAccountMap, verifierVars
<1> QED BY <1>1, UploadVInv, VerifyVInv DEF VerifierNext

\* Whatever keys were uploaded over one another, the Groth16 check accepts the
\* proofs of the last upload and no others, reads nothing an older key left,
\* and an event is emitted only for a proof of the key in force.
THEOREM VerifierInvariant ==
  VerifierSpec => [](VerifierTypeOK /\ VerifyIsExact /\ VerifiedUnderLatestKey)
<1>1. VInv => VerifierTypeOK /\ VerifyIsExact /\ VerifiedUnderLatestKey
  BY HeldKeyIsExact DEF VInv, VerifyIsExact
<1> QED BY <1>1, InitVInv, NextVInv, PTL DEF VerifierSpec

-----------------------------------------------------------------------------
(* The verifier with its callers. *)

LEMMA NextKeysHeld == KeysHeld /\ [SystemNext]_allVars => KeysHeld'
<1> SUFFICES ASSUME KeysHeld, [SystemNext]_allVars PROVE KeysHeld'
  OBVIOUS
<1>1. CASE UNCHANGED <<vks, latest>>
  BY <1>1 DEF KeysHeld
<1>2. CASE \E k \in KeyFiles : UploadVk(k)
  BY <1>2, UploadHolds DEF UploadVk
<1>3. CASE \E c \in Clients : Land(c)
  <2>1. UNCHANGED <<vks, latest>>
    BY <1>3 DEF Land, verify, verifierVars
  <2> QED BY <1>1, <2>1
<1>4. CASE \E c \in Clients : \/ openSession(c) \/ ProveAuth(c) \/ proveTransfer(c)
                              \/ submit(c) \/ Resubmit(c) \/ Lose(c) \/ ProverFails(c)
  <2>1. UNCHANGED <<vks, latest>>
    BY <1>4 DEF openSession, ProveAuth, proveTransfer, submit, Resubmit, Lose, ProverFails,
         ChainStaysPut, verifierVars
  <2> QED BY <1>1, <2>1
<1>5. CASE \/ UNCHANGED allVars \/ RegistryMoves \/ \E k \in KeyFiles : PublishSite(k)
           \/ \E d \in Deployers : CheckRegistry(d) \/ SendInitialize(d)
  <2>1. UNCHANGED <<vks, latest>>
    BY <1>5 DEF allVars, RegistryMoves, PublishSite, CheckRegistry, SendInitialize,
         ChainStaysPut, verifierVars
  <2> QED BY <1>1, <2>1
<1> QED BY <1>2, <1>3, <1>4, <1>5 DEF SystemNext

\* Only uploads and the transactions of clients reach the verifier, and what a
\* client sends is an instruction of the program if keys have a point at least.
LEMMA VerifierStep ==
  ASSUME SInv, KeysHeld, [SystemNext]_allVars,
         {0, 1} \subseteq Tags, \A k \in KeyFiles : VkLen[k] > HeaderUnits
  PROVE  [VerifierNext]_verifierVars
<1>1. ASSUME NEW k \in KeyFiles, UploadVk(k) PROVE VerifierNext
  <2>1. UploadTag(CircuitOf[k]) \in Tags
    BY DEF UploadTag
  <2> QED BY <1>1, <2>1 DEF UploadVk, VerifierNext
<1>2. ASSUME NEW c \in Clients, Land(c) PROVE [VerifierNext]_verifierVars
  <2>1. PICK b \in clients[c].bundle :
          \/ verify(Entry(b.circuit), Tag(b.circuit), ProofOf(b), InputsOf(b.key))
          \/ UNCHANGED verifierVars
    BY <1>2 DEF Land
  <2>2. b.key \in KeyFiles
    <3>1. clients[c] \in Client
      BY DEF SInv, ClientsSound
    <3>2. clients[c].bundle \in
            {{}} \cup {{x} : x \in [circuit: Circuits, key: KeyFiles, epoch: 1 .. MaxU64]}
      BY <3>1 DEF Client
    <3> QED BY <3>2
  <2>3. CASE verify(Entry(b.circuit), Tag(b.circuit), ProofOf(b), InputsOf(b.key))
    <3> DEFINE t == Tag(b.circuit)
               n == InputsOf(b.key)
    <3>1. t \in Tags /\ Entry(b.circuit) \in Entries
      BY DEF Tag, Entry, Entries
    <3>2. t \in DOMAIN vks /\ HeaderUnits + 1 + n <= vks[t].bytes_len
      BY <2>3 DEF verify, AtOwnAddress, verify_inner, InRange, Readable
    <3>3. /\ vks[t].bytes_len <= MaxVkUnits /\ vks[t].bytes_len = VkLen[latest[t]]
         /\ VkLen[latest[t]] \in Nat
      BY <3>2, VerifierConstants DEF KeysHeld
    <3>4. n \in 0 .. MaxVkUnits
      <4>1. VkLen[b.key] \in Nat /\ VkLen[b.key] > 7 /\ n = VkLen[b.key] - 8
        BY <2>2, VerifierConstants DEF InputsOf, HeaderUnits
      <4>2. MaxVkUnits \in Nat /\ 8 + n <= MaxVkUnits
        BY <3>2, <3>3, <4>1, VerifierConstants DEF HeaderUnits
      <4> HIDE DEF n
      <4> QED BY <4>1, <4>2
    <3>5. ProofOf(b) \in Proofs
      BY <2>2, <3>4 DEF ProofOf, Proofs
    <3> QED BY <2>3, <3>1, <3>4, <3>5 DEF VerifierNext
  <2> QED BY <2>1, <2>3
<1>3. CASE \E c \in Clients : \/ openSession(c) \/ ProveAuth(c) \/ proveTransfer(c)
                              \/ submit(c) \/ Resubmit(c) \/ Lose(c) \/ ProverFails(c)
  BY <1>3 DEF openSession, ProveAuth, proveTransfer, submit, Resubmit, Lose, ProverFails,
       ChainStaysPut, verifierVars
<1>4. CASE \/ UNCHANGED allVars \/ RegistryMoves \/ \E k \in KeyFiles : PublishSite(k)
           \/ \E d \in Deployers : CheckRegistry(d) \/ SendInitialize(d)
  BY <1>4 DEF allVars, RegistryMoves, PublishSite, CheckRegistry, SendInitialize,
       ChainStaysPut, verifierVars
<1> QED BY <1>1, <1>2, <1>3, <1>4 DEF SystemNext

\* With keys that have a header and one point, whatever clients and operators do
\* is done by instructions of the verifier program, so that what is proved of
\* the program (VerifierInvariant) holds with its callers.
THEOREM SystemImplementsVerifier ==
  ASSUME {0, 1} \subseteq Tags, \A k \in KeyFiles : VkLen[k] > HeaderUnits
  PROVE  SystemSpec => VerifierSpec
<1>1. SystemInit => VerifierInit /\ SInv /\ KeysHeld
  BY InitSInv DEF SystemInit, VerifierInit, NoAccounts, KeysHeld
<1>2. SInv /\ KeysHeld /\ [SystemNext]_allVars =>
        SInv' /\ KeysHeld' /\ [VerifierNext]_verifierVars
  BY NextSInv, NextKeysHeld, VerifierStep
<1> QED BY <1>1, <1>2, PTL DEF SystemSpec, VerifierSpec

\* What the SDK sends is taken by a verifier that holds the key of the proof.
LEMMA HeldKeyTakes ==
  ASSUME KeysHeld, NEW b, b.circuit \in Circuits, b.key \in KeyFiles,
         Tag(b.circuit) \in DOMAIN latest, latest[Tag(b.circuit)] = b.key
  PROVE  Taken(b)
<1> DEFINE t == Tag(b.circuit)
           len == VkLen[b.key]
           n == InputsOf(b.key)
<1>1. /\ t \in DOMAIN vks /\ vks[t].circuit_id = t /\ vks[t].bytes_len = len
      /\ len <= MaxVkUnits
      /\ \A u \in 0 .. MaxVkUnits - 1 : u < len => vks[t].bytes[u] = b.key
  BY DEF KeysHeld
<1>2. len \in Nat /\ MaxVkUnits \in Nat
  BY VerifierConstants
<1>3. n = len - 8
  BY DEF InputsOf, HeaderUnits
<1>4. AtOwnAddress(t)
  BY <1>1 DEF AtOwnAddress
<1>5. RightCircuit(Entry(b.circuit), t)
  <2>1. b.circuit = "auth" \/ b.circuit = "completion"
    BY ClientConstants
  <2> QED BY <1>1, <2>1 DEF RightCircuit, RequiredTag, Entry, Tag
<1>6. InRange(vks[t], n)
  BY <1>1, <1>2, <1>3 DEF InRange, Readable, HeaderUnits
<1>7. PairingHolds(vks[t], ProofOf(b), n)
  <2>1. ProofOf(b).key = b.key /\ ProofOf(b).used = n /\ n <= n
    BY <1>2, <1>3 DEF ProofOf
  <2>2. ASSUME NEW u \in 0 .. 7 + n PROVE vks[t].bytes[u] = b.key
    <3>1. u \in 0 .. MaxVkUnits - 1 /\ u < len
      BY <1>1, <1>2, <1>3
    <3> QED BY <1>1, <3>1
  <2> QED BY <2>1, <2>2 DEF PairingHolds, HeaderUnits
<1> QED BY <1>4, <1>5, <1>6, <1>7 DEF Taken, verify_inner

LEMMA RefusalIsDeserved == SInv /\ KeysHeld /\ [SystemNext]_allVars => [RefusalStep]_allVars
<1> SUFFICES ASSUME SInv, KeysHeld, [SystemNext]_allVars, NEW c \in Clients,
                    clients'[c].result = "refused", clients[c].result # "refused",
                    NEW b \in clients[c].bundle,
                    Tag(b.circuit) \in DOMAIN latest, latest[Tag(b.circuit)] = b.key
             PROVE  FALSE
  BY DEF RefusalStep, Tag
<1>1. /\ clients \in [Clients -> Client] /\ clients[c] \in Client
      /\ clients[c].bundle = {b} /\ b \in [circuit: Circuits, key: KeyFiles, epoch: 1 .. MaxU64]
  <2>1. clients \in [Clients -> Client] /\ clients[c] \in Client
    BY DEF SInv, ClientsSound
  <2>2. clients[c].bundle \in
          {{}} \cup {{x} : x \in [circuit: Circuits, key: KeyFiles, epoch: 1 .. MaxU64]}
    BY <2>1 DEF Client
  <2> QED BY <2>1, <2>2
<1>2. Taken(b)
  BY <1>1, HeldKeyTakes
<1>3. ~submit(c) /\ ~Land(c)
  <2>1. ASSUME submit(c) PROVE FALSE
    <3>1. clients' = [clients EXCEPT ![c] = [clients[c] EXCEPT !.at = "sent"]]
      BY <1>1, <1>2, <2>1 DEF submit
    <3> QED BY <1>1, <3>1 DEF Client
  <2>2. ASSUME Land(c) PROVE FALSE
    <3>1. clients' = [clients EXCEPT ![c].at = "idle", ![c].result = "verified"]
      BY <1>1, <1>2, <2>2 DEF Land
    <3> QED BY <1>1, <3>1 DEF Client
  <2> QED BY <2>1, <2>2
<1>4. clients' # clients
  OBVIOUS
<1>5. ASSUME NEW d \in Clients, \/ openSession(d) \/ ProveAuth(d) \/ proveTransfer(d)
                               \/ Resubmit(d) \/ Lose(d) \/ ProverFails(d)
      PROVE  FALSE
  <2>1. CASE d = c
    <3>1. CASE openSession(c) \/ ProverFails(c)
      BY <1>1, <3>1 DEF openSession, ProverFails
    <3>2. CASE ProveAuth(c)
      BY <1>1, <3>2 DEF ProveAuth, Client
    <3>3. CASE proveTransfer(c)
      BY <1>1, <3>3 DEF proveTransfer, Client
    <3>4. CASE Resubmit(c) \/ Lose(c)
      BY <1>1, <3>4 DEF Resubmit, Lose, Client
    <3> QED BY <1>5, <2>1, <3>1, <3>2, <3>3, <3>4
  <2>2. CASE d # c
    <3>1. clients'[c] = clients[c]
      BY <1>1, <1>5, <2>2 DEF openSession, ProveAuth, proveTransfer, Resubmit, Lose, ProverFails
    <3> QED BY <3>1
  <2> QED BY <2>1, <2>2
<1>6. ASSUME NEW d \in Clients, submit(d) \/ Land(d) PROVE FALSE
  <2>1. d # c
    BY <1>3, <1>6
  <2>2. clients'[c] = clients[c]
    BY <1>1, <1>6, <2>1 DEF submit, Land
  <2> QED BY <2>2
<1>7. ASSUME NEW d \in Deployers, CheckRegistry(d) \/ SendInitialize(d) PROVE FALSE
  BY <1>4, <1>7 DEF CheckRegistry, SendInitialize
<1>8. ASSUME NEW k \in KeyFiles, UploadVk(k) \/ PublishSite(k) PROVE FALSE
  BY <1>4, <1>8 DEF UploadVk, PublishSite
<1>9. ~RegistryMoves /\ ~UNCHANGED allVars
  BY <1>4 DEF RegistryMoves, allVars
<1> QED BY <1>5, <1>6, <1>7, <1>8, <1>9 DEF SystemNext

\* A proof is refused, when it is sent or when it lands, only if the verifier does
\* not hold its key at that moment (sdk submit.ts, verify_inner of veil_verifier):
\* tag, entry point and number of inputs are right for every circuit and key.
THEOREM RefusalsAreDeserved == SystemSpec => RefusedOnlyForOtherKey
<1>1. SystemInit => SInv /\ KeysHeld
  BY InitSInv DEF SystemInit, VerifierInit, NoAccounts, KeysHeld
<1>2. SInv /\ KeysHeld /\ [SystemNext]_allVars => SInv' /\ KeysHeld' /\ [RefusalStep]_allVars
  BY NextSInv, NextKeysHeld, RefusalIsDeserved
<1>3. SystemSpec => [][RefusalStep]_allVars
  BY <1>1, <1>2, PTL DEF SystemSpec
<1> QED BY <1>3 DEF RefusedOnlyForOtherKey

=============================================================================
