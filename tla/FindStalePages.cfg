SPECIFICATION Spec
CONSTANTS
    f1 = f1
    i1 = i1
    i2 = i2
    Filings = {f1}
    Images = {i1, i2}
    None = None
    Workers = 2
    Chunk = 2
    RefusalsToStop = 2
    MaxAttempts = 2
    MaxCalls = 2
    MaxStops = 0
    MaxReads = 2
INVARIANTS ReadingsAreOfTheirImage
CHECK_DEADLOCK FALSE
