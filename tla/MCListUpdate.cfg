CONSTANTS
  Votes = {a, b}
  Suffixes = {0, 1}
  NoSuffix = 0
  Seeds = {0, 1}
  FirstSeed = 0
  MaxValidators = 2
  ChunkSize = 1
  Clients = {c1}
  ModeChoices <- StaleOrJs
  MaxEpoch = 1
SPECIFICATION FairSpec
INVARIANTS
  FreshMeansCounted
  OneEntryPerVote
  UpToDateMeansFresh
  CompleteUpdate
PROPERTIES
  PoolCatchesUp
