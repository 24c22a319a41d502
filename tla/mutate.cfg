SPECIFICATION Spec
CONSTANTS
    a = a
    b = b
    g = g
    x = x
    Group = {g}
    Targets = {x, y}
    Listener = {l}
    Vip = {v}
    NoTargets = NoTargets
    NoGroup = NoGroup
    Node = {a, b}
    Peer <- MCPeer
    NoNode = NoNode
    FileConfig <- MCFileConfig
    Worker = {w1,w2}
    Sender = Sender
    Receiver = Receiver
    Token = {t1}
    StartPaired = TRUE
    NoToken = NoToken
    NoHash = NoHash
    None = None
    Failed = Failed
    MaxSequence = 3
    MaxTries = 3
    MaxWrites = 3
    MaxSwitches = 0
    MaxFaults = 0
    MaxInFlight = 1
INVARIANTS
    ReferencesResolve
PROPERTIES
    NoLostUpdate LastSequenceIsFinal
