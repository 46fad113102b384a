\* One page, the whole policy, any number of stops, a parser improved at any time.
SPECIFICATION Spec
CONSTANTS
  p1 = p1
  qwen = qwen
  lite = lite
  flash = flash
  sonnet = sonnet
  list = list
  longer = longer
  other = other
  None = None
  Pages = {p1}
  Base <- MCBase
  Escalation <- MCEscalation
  LoadSingle = TRUE
  EmptyOther = TRUE
  Answers = {list, longer, other}
  Empty = {other}
  Others = {other}
  Lists = {list, longer}
  Garbled = {other}
  MaxErrors = 2
INVARIANTS
  VerdictsFollowPolicy
  ReportTellsEscalation
PROPERTIES
  VerdictsStay
  RunCompletes
CHECK_DEADLOCK FALSE
