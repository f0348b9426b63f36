SPECIFICATION FairSpec
CONSTANTS
    MaxPending = 2
    CommandCapacity = 1
    EventCapacity = 2
    MaxAsks = 3
    MaxRequests = 3
    MaxServers = 2
    MaxFailures = 1
    MaxEscapes = 1
    MaxArchives = 1
INVARIANT TypeOK TableIsExact AnsweredOnce CardsMatchRequests
PROPERTY EveryRequestIsAnswered
