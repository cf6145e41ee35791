\* One stream, one request, two events, one link that breaks.
SPECIFICATION FairSpec
CONSTANTS
    k1 = k1
    r1 = r1
    Clients <- MCClient1
    Requests <- MCRequests
    None = None
    MaxEvents = 2
    MaxBreaks = 1
INVARIANTS
    SubscribersAreOpen
PROPERTIES
    ImplementsFeed
    CatchesUp
    EndsTogether
    StopEnds
\* The stream, the request and the events run out.
CHECK_DEADLOCK FALSE
