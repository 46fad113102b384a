\* Two builders side by side, one more load or patch, one change of the rules.
SPECIFICATION LoadedSerialSpec
CONSTANTS
  pg = pg
  bf = bf
  paid = paid
  future = future
  b1 = b1
  b2 = b2
  None = None
  Staging <- OnlyBf
  Relations <- MCRelations
  StagingInputs <- MCStagingInputs
  ReadsCurrent <- MCReadsCurrent
  TempReads <- MCTempReads
  Patched = {bf}
  Deduped = {}
  Builders <- MCBuilders
  Versions = {"v1"}
  Batches = 1
  MaxRuns = 2
  MaxBuilds = 2
  MaxRules = 1
INVARIANTS
  CurrentIsFaithful
  StampNamesOrigin
PROPERTY
  RowsMoveTheirStamp
SYMMETRY BuilderSymmetry
CHECK_DEADLOCK FALSE
