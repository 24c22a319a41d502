SPECIFICATION FairSpec
CONSTANTS
    a = a
    b = b
    Node = {a, b}
    Peer <- MCPeer
    Preferred = a
    Skew <- NoSkew
    Apart = TRUE
    QueueCap = 8
    MaxSwitches = 2
    MaxOutages = 2
    MaxLosses = 0
    MaxVipErrors = 1
    Spent <- OneKind
INVARIANT QuietHasOneOwner
PROPERTY EventuallyOneOwner
