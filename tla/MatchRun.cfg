SPECIFICATION Spec
CONSTANTS
  pg = pg
  bfpf = bfpf
  privategrants_current = privategrants_current
  privategrants_future_current = privategrants_future_current
  Matchers = {m1, m2}
  Direct = {bfpf}
  GrantsOf = {pg, bfpf}
  Derived = {privategrants_current, privategrants_future_current}
  Paid = privategrants_current
  ViewTables = {privategrants_current}
  ReadsCurrent <- FutureReadsPaid
  Policies = {p1, p2}
  Chunks = {1, 2}
  Sizes = {50}
  Concurrent = FALSE
  MaxBuilds = 2
  MaxChanges = 1
  None = None
SYMMETRY Alike
INVARIANTS
  
  OutputsAreOnePair
CHECK_DEADLOCK FALSE
