SPECIFICATION Spec
CONSTANTS
    f1 = f1
    f2 = f2
    f3 = f3
    i1 = i1
    i2 = i2
    Filings = {f1, f2, f3}
    Images = {i1, i2}
    None = None
    Workers = 2
    Chunk = 2
    RefusalsToStop = 2
    MaxAttempts = 2
    MaxCalls = 2
    MaxStops = 1
    MaxReads = 1
SYMMETRY Alike
INVARIANTS BytesAreRows TriesAreTold ReadPagesAreCut
CHECK_DEADLOCK FALSE
