SPECIFICATION FairSpec
CONSTANTS
    Gateway = {A, B}
    Conn = {c1}
    Target = {t1}
    NoTarget = NoTarget
    Timeout = 1
    RingSize = 2
    BatchSize = 1
    MaxTime = 3
    MaxFaults = 1
INVARIANTS AckedIsHeld
PROPERTIES NeverRegresses EventuallyReplicated
