SPECIFICATION SystemSpec
CONSTANTS
  Tags = {0, 1, 2}
  MaxU64 = 5
  Keys = {d1, d2}
  NoKey = NoKey
  Commitments = {a1, a2, ZeroBytes}
  ZeroBytes = ZeroBytes
  a1 = a1  a2 = a2
  MinRotateSlots = 2
  authOld = authOld
  authNew = authNew
  completionKey = completionKey
  KeyFiles = {authOld, authNew, completionKey}
  Blank = Blank
  NoEvent = NoEvent
  VkLen <- MCVkLen
  MaxVkUnits = 9
  Clients = {c1}
  Deployers = {d1, d2}
  Circuits = {"auth", "completion"}
  CircuitOf <- MCCircuitOf
  FirstKey <- MCFirstKey
INVARIANTS
  AgentCountExact
  EpochIsPaced
  SessionEpochReached
PROPERTIES
  RegistryNeverRestarts
  RefusedOnlyForOtherKey
  MigrationIsSafe
