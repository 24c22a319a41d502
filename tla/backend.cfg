SPECIFICATION FairSpec
CONSTANTS
    Gateways = 2
    Nodes = 2
    Dscp = {1, 2, 3}
    StreamId = {1, 2}
    QueueSize = 1
    MaxEvents = 2
INVARIANTS TypeOK AppliedIsInstalled LiveIsRegistered
PROPERTIES EventuallyInstalled
