\* Two URLs, two retries, two requests of the store.
SPECIFICATION FairSpec
CONSTANTS
    MaxUrls = 2
    MaxSockets = 4
    MaxRequests = 2
INVARIANTS
    NoOrphanRequest
    TalksToItsSession
PROPERTIES
    ProcessReaped
    CallsSettle
\* A stopped client is never started again.
CHECK_DEADLOCK FALSE
