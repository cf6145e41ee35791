\* One tick is just under 2 s: the TTL of 15 s is 8 ticks, heartbeats are 2 ticks
\* apart and may overlap, as an exchange takes up to 2 ticks. The TTL is exactly
\* 2 * HeartbeatEvery + 2 * MaxLatency; with a tick less, Recovers fails.
SPECIFICATION FairSpec
CONSTANTS
    Port <- MCPort
    Ttl = 8
    MaxInstances = 2
    HeartbeatEvery = 2
    RetryBase = 1
    RetryMax = 4
    MaxLatency = 2
    MaxFaults = 2
INVARIANTS
    OneAttemptAtATime
    ListedMeansRecentlyAlive
    NoFalseOffline
PROPERTIES
    Recovers
