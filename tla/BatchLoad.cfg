\* Two loaders on two machines, two postings, two concordances, two commands more.
SPECIFICATION LoadedSpec
CONSTANTS
  c1 = c1
  c2 = c2
  old = old
  new = new
  Loaders = {l1, l2}
  Caches <- MCCaches
  Concordances <- MCConcordances
  None = None
  MaxArchives = 2
  SizeOf <- OtherSize
  MaxJobs = 3
SYMMETRY Alike
INVARIANTS
  RowsAreLatestLoad
  SideTablesHoldOneWrite
  OneRunPerVersion
  ArchiveStaysWhileUsed
  CopiesAreTheLoaded
CHECK_DEADLOCK FALSE
