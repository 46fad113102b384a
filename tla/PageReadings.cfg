\* One call at a time, three in a row over the same pages.
SPECIFICATION Spec
CONSTANTS
  p1 = p1
  p2 = p2
  p3 = p3
  f1 = f1
  f2 = f2
  q1 = q1
  q2 = q2
  answer = answer
  None = None
  Pages <- MCPages
  Filings = {f1, f2}
  FilingOf <- MCFilingOf
  Answers = {answer}
  Procs = {q1}
  Overlap = FALSE
  Workers = 2
  Chunk = 2
  MaxErrors = 2
  BreakerRows = 2
  BreakerFilings = 2
  MaxReads = 3
INVARIANTS
  MoneyBuysReadings
  TripCostsNothing
  ReportIsTable
PROPERTY
  KeepsReadings
SYMMETRY SameFiling
CHECK_DEADLOCK FALSE
