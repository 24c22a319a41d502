SPECIFICATION FairSpec
CONSTANTS
    a = a
    b = b
    Node = {a, b}
    Peer <- MCPeer
    Preferred = a
    Skew <- PreferredAhead
    Apart = TRUE
    QueueCap = 1
    MaxSwitches = 1
    MaxOutages = 1
    MaxLosses = 1
    MaxVipErrors = 1
    Spent <- SwitchOrOutage
INVARIANT TypeOK
PROPERTIES StartupNonPreemptive VipFollowsSelection
