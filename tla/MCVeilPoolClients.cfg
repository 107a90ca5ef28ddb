SPECIFICATION ClientsSpec
CONSTANTS
  n1 = n1  n2 = n2  n3 = n3  n4 = n4  m1 = m1
  d1 = d1  d2 = d2  s1 = s1  s2 = s2
  None = None
  ZeroBytes = ZeroBytes
  Notes = {n1, n2, n3, n4}
  Nullifiers = {n1, n2, n3, n4, m1}
  NullifiersOf <- MCNullifiersOf
  Roots <- MCTrees
  Depositors = {d1}
  Spenders = {s1, s2}
  RootHistoryLen = 2
  TreeCapacity = 3
  MaxU64 = 5
INVARIANTS
  RingIsWindow
  CountersAgree
  NoDoubleSpend
  LatestRootHoldsAllNotes
PROPERTIES
  ImplementsNotePool
  DepositedNotesGetSpent
CHECK_DEADLOCK FALSE
