SPECIFICATION FairSpec
CONSTANTS
    Client = {d, w}
    Dispatcher = d
    Key <- MCKey
    History <- MCHistory
    Payload <- MCPayload
    Channel = {ch}
    Coded = {ch}
    ChannelCap = 1
    EventCap = 1
    MaxRetries = 2
    KeepLatest = 1
    MaxEvents = 2
    MaxCalls = 2
    MaxFaults = 1
    MaxRevision = 5
INVARIANTS TypeOK KeepsLatest
PROPERTIES ImplementsDocuments EventuallyDispatched
