SPECIFICATION Spec
CONSTANTS
    y1 = y1
    y2 = y2
    o1 = o1
    o2 = o2
    o3 = o3
    p1 = p1
    p2 = p2
    Policies = {p1, p2}
    Objects = {o1, o3}
    YearOf <- OneVersion
    Excluded = {}
    Findable <- Lists
    Amounts <- Stated
    DeclaredPaid <- LineOf
    Tolerance = 5
    Batch = 2
    None = None
    MaxDrops = 2
    MaxChanges = 3
    MaxLoads = 2
    MaxStops = 1
INVARIANTS OnlyTheViewCommandDecides
CHECK_DEADLOCK FALSE
