SPECIFICATION FairSpec
CONSTANTS
    a = a
    b = b
    Node = {a, b}
    Peer <- MCPeer
    Worker = {w}
    Replica = r
    Roles <- MCRoles
    Item = {i}
    QueueCap = 1
    MaxRequests = 2
    MaxFaults = 1
INVARIANTS TypeOK NoWaitCycle AnsweredIsDone
PROPERTIES EventuallyAnswered
