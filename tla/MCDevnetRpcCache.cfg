SPECIFICATION FairSpec
CONSTANTS
  Callers = {c1, c2}
  slotKey = slotKey
  accountKey = accountKey
  Keys = {slotKey, accountKey}
  NoKey = NoKey
  Ids = {1, 2}
  NoId = 0
  Ttl <- MCTtl
  Statuses = {200, 429}
  MaxNow = 1
  MaxSlot = 1
INVARIANTS
  HitsAreSound
  IdsLineUp
PROPERTIES
  ImplementsOrderedReads
  EveryRequestAnswered
