SPECIFICATION FairSpec
CONSTANTS
    a = a
    b = b
    g = g
    x = x
    Group = {g}
    Targets = {x}
    Listener = {}
    Vip = {}
    NoTargets = NoTargets
    NoGroup = NoGroup
    Node = {a, b}
    Peer <- MCPeer
    NoNode = NoNode
    FileConfig <- MCSameFile
    Worker = {w}
    Sender = Sender
    Receiver = Receiver
    Token = {t1}
    StartPaired = TRUE
    NoToken = NoToken
    NoHash = NoHash
    None = None
    Failed = Failed
    MaxSequence = 6
    MaxTries = 2
    MaxWrites = 1
    MaxSwitches = 1
    MaxFaults = 1
    MaxInFlight = 1
PROPERTIES
    EventuallyReplicated
