SPECIFICATION RedirectFairSpec
CONSTANTS
    Slot = {k1}
    Address = {a1, a2}
    NoAddress = NoAddress
    Path = {p1, p2}
    Unconfirmed = Unconfirmed
    Unreachable = Unreachable
    Lease = 2
    MaxChanges = 2
    MaxFaults = 1
INVARIANTS CacheMatchesSlots StaleOnlyWithinLease RedirectsToFlowTarget
PROPERTIES EventuallyPublished
