---------------------------- MODULE VeilRegistry ----------------------------
(***************************************************************************)
(* The veil-registry program: the singleton that holds the rolling epoch,  *)
(* and one account per registered agent commitment.                        *)
(***************************************************************************)
EXTENDS SolanaAccounts, FiniteSets

CONSTANTS
  Keys,             \* signers that may send an instruction
  NoKey,            \* the zeroed pubkey of an account not yet initialised
  Commitments,      \* 32-byte commitments a client may submit, ZeroBytes among them
  ZeroBytes,        \* the all-zero 32 bytes
  MinRotateSlots    \* MIN_ROTATE_SLOTS

ASSUME MinRotateAssumption == MinRotateSlots \in Nat
ASSUME KeysAssumption == NoKey \notin Keys

VARIABLES
  slot,      \* the slot Clock::get() returns
  registry,  \* the account at seed "registry"
  agents     \* agents[c]: the account at seeds "agent", c

vars == <<slot, registry, agents>>

Registry ==
  [exists: BOOLEAN, authority: Keys \cup {NoKey}, epoch: U64,
   agent_count: U64, last_rotated_slot: U64]

Agent == [commitment: Commitments, epoch_registered: U64]

-----------------------------------------------------------------------------
Init ==
  /\ slot = 0
  /\ registry = [exists |-> FALSE, authority |-> NoKey, epoch |-> 0,
                 agent_count |-> 0, last_rotated_slot |-> 0]
  /\ agents = NoAccounts

\* The cluster produces the next slot.
NextSlot ==
  /\ slot < MaxU64
  /\ slot' = slot + 1
  /\ UNCHANGED <<registry, agents>>

\* Mutation: `init_if_needed' instead of `init'.
RegistryMayExist == TRUE

\* The `init' constraint on the registry account.
RegistryIsNew == ~registry.exists

initialize(key) ==
  /\ RegistryIsNew
  /\ registry' = [exists |-> TRUE, authority |-> key, epoch |-> 1,
                  agent_count |-> 0, last_rotated_slot |-> slot]
  /\ UNCHANGED <<slot, agents>>

\* Mutation: `init_if_needed' instead of `init'.
AgentMayExist(c) == TRUE

\* The `init' constraint on the agent account: one account per commitment.
AgentIsNew(c) == c \notin DOMAIN agents

register_agent(c) ==
  /\ registry.exists
  /\ c # ZeroBytes
  /\ AgentIsNew(c)
  /\ registry.agent_count < MaxU64            \* checked_add(1).unwrap()
  /\ agents' = Put(agents, c, [commitment |-> c,
                               epoch_registered |-> registry.epoch])
  /\ registry' = [registry EXCEPT !.agent_count = @ + 1]
  /\ UNCHANGED slot

\* Mutation: the rotation slot is not saved.
RotatedUnstamped(now) == [registry EXCEPT !.epoch = @ + 1]

\* The registry as rotate_epoch leaves it when it runs at slot now.
Rotated(now) ==
  [registry EXCEPT !.epoch = @ + 1, !.last_rotated_slot = now]

rotate_epoch(key) ==
  /\ registry.exists
  /\ key = registry.authority
  /\ SaturatingSub(slot, registry.last_rotated_slot) >= MinRotateSlots
  /\ registry.epoch < MaxU64                  \* checked_add(1).unwrap()
  /\ registry' = Rotated(slot)
  /\ UNCHANGED <<slot, agents>>

Next ==
  \/ NextSlot
  \/ \E key \in Keys : initialize(key) \/ rotate_epoch(key)
  \/ \E c \in Commitments : register_agent(c)

Spec == Init /\ [][Next]_vars

-----------------------------------------------------------------------------
TypeOK ==
  /\ slot \in U64
  /\ registry \in Registry
  /\ IsAccountMap(agents, Commitments, Agent)

\* agent_count is a redundant counter kept beside the agent accounts by three
\* different instructions; it always equals the number of accounts that exist.
AgentCountExact ==
  registry.agent_count = Cardinality(DOMAIN agents)

\* Rotations are spaced: reaching epoch e takes e - 1 rotations, each at least
\* MinRotateSlots after the one before, so the epoch can never run ahead of
\* the clock, however instructions and slots interleave.
EpochIsPaced ==
  registry.exists =>
    /\ registry.epoch >= 1
    /\ (registry.epoch - 1) * MinRotateSlots <= registry.last_rotated_slot
    /\ registry.last_rotated_slot <= slot

\* Two accounts agree: no agent claims an epoch the registry has not reached,
\* and no agent predates the registry.
AgentEpochsReached ==
  \A c \in DOMAIN agents :
    /\ registry.exists
    /\ agents[c].epoch_registered \in 1 .. registry.epoch
    /\ agents[c].commitment = c /\ c # ZeroBytes

\* Once initialised the registry never restarts: the authority stays, the
\* epoch and the count never fall, and no agent account is rewritten, even
\* when two deployers race to run the migration.
NeverRestartsStep ==
  registry.exists =>
    /\ registry'.exists
    /\ registry'.authority = registry.authority
    /\ registry'.epoch >= registry.epoch
    /\ registry'.agent_count >= registry.agent_count
    /\ \A c \in DOMAIN agents : c \in DOMAIN agents' /\ agents'[c] = agents[c]

RegistryNeverRestarts == [][NeverRestartsStep]_vars

=============================================================================
