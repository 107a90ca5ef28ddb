SPECIFICATION Spec
CONSTANTS
  Circuits = {auth}
  Names = {alice, bob}
  NoName = NoName
  Pot = Pot
  MinContributors = 2
  NoJob = NoJob
  NoFile = NoFile
  Dev = Dev
  Torn = Torn
  MaxFiles = 3
  MaxRuns = 3
SYMMETRY Symmetry
INVARIANTS
  LoggedIsInChain
  FinalKeysEarned
  PublishedIsTrue
PROPERTY KeysFitPot
