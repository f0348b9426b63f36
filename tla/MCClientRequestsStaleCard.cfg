SPECIFICATION Spec
CONSTANTS
    MaxPending = 2
    CommandCapacity = 1
    EventCapacity = 2
    MaxAsks = 1
    MaxRequests = 2
    MaxServers = 2
    MaxFailures = 0
    MaxEscapes = 0
    MaxArchives = 0
INVARIANT OnlyTheVisibleRequest
