\* Two windows, two calls, one crash or failing step; the address is the same.
SPECIFICATION FairSpec
CONSTANTS
    Window = {w1, w2}
    MaxCalls = 2
    MaxFaults = 1
INVARIANTS
    PartsFollowLifecycle
    NoHubLeftBehind
    OneHubForAll
PROPERTIES
    CallsEnd
\* Once the calls are used up and have ended, nothing is left to do.
CHECK_DEADLOCK FALSE
