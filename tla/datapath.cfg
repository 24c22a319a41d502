SPECIFICATION Spec
CONSTANTS
    c1 = c1
    t1 = t1
    t2 = t2
    Conn = {c1}
    Target = {t1, t2}
    NoTarget = NoTarget
    Timeout = 2
    Selector = {"consistent_hash", "lc"}
    Weight = {1, 2}
    WeightCap = 2
    Bucket = {0, 1}
    Score <- Scores
    HashOf <- Hashes
    CursorSize = 2
    MinRemaining = 0
    MaxRecords = 1
    MaxTime = 4
    MaxEvents = 2
INVARIANTS SettledSelects LoadsSettle NoFlowOutlivesTimeout
PROPERTIES FlowKeepsTarget
