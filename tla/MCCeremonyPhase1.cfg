SPECIFICATION Spec
CONSTANTS
  Circuits = {auth}
  Names = {alice}
  NoName = NoName
  Pot = Pot
  MinContributors = 1
  NoJob = NoJob
  NoFile = NoFile
  Dev = Dev
  Torn = Torn
  MaxFiles = 2
  MaxRuns = 2
INVARIANT KeysRestOnVerifiedPot
