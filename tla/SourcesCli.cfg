\* One more load or patch, a refresh rebuilding the relation beside the canonical build.
SPECIFICATION InUseSpec
CONSTANTS
  bf = bf
  bmf = bmf
  cur = cur
  me = me
  refresh = refresh
  None = None
  Me = me
  Cli = refresh
  Direct = {bmf}
  Deferred = {}
  Basic <- MCRelations
  Staging <- MCStaging
  Relations <- MCRelations
  StagingInputs <- MCStagingInputs
  ReadsCurrent <- MCReadsCurrent
  TempReads <- MCTempReads
  Statements <- MCStatements
  Patched = {bf}
  Deduped = {}
  Builders <- MCBuilders
  Versions = {1, 2}
  Batches = 1
  MaxRuns = 4
  MaxBuilds = 3
  MaxRules = 0
  MaxCanon = 1
INVARIANTS
  BuildRowTellsTheTables
  StampNamesItsLoad
  ZeroExitMeansDone
  ShownAsLoadedIsLoaded
CHECK_DEADLOCK FALSE
