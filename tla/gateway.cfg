SPECIFICATION FairSpec
CONSTANTS
    t1 = t1
    t2 = t2
    Order <- TwoBackends
    FirstConfig <- Monitored
    Probe = {p1}
    NoProbe = NoProbe
    NoTarget = NoTarget
    Retries = 1
    MaxRounds = 1
    MaxEvents = 2
INVARIANTS QuietIsProgrammed
PROPERTIES EventuallyProgrammed
