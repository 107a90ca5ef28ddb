SPECIFICATION SettlementSpec
CONSTANTS
  s1 = s1  s2 = s2  k1 = k1  d1 = d1
  ZeroBytes = ZeroBytes
  Salt = salt
  PeerKey = peer
  SessionIds = {s1, s2}
  SecretKeys = {k1}
  NetValues <- MCNetValues
  Ceilings <- MCCeilings
  Roots <- MCRoots
  Hashes <- MCHashes
  Peers <- MCPeers
  Notionals <- MCNotionals
  Epochs <- MCEpochs
  Digests <- MCDigests
  Commits <- MCCommits
  TransferValues <- MCTransferValues
  MaxU64 = 2
  FieldOrder = 13
  AmountLimit = 3
  TransferSlots = 2
  Depth = 1
SYMMETRY Symmetry
INVARIANTS
  NullifiersMatchClosings
  SessionTimeline
  SettledWithinCeiling
  CeilingIsReachable
PROPERTIES
  SessionTermsFixed
  OwnClosingsStayApart
  ImplementsLedger
CHECK_DEADLOCK FALSE
