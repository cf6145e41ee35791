SPECIFICATION ViewSpec
CONSTANTS
    t1 = t1
    t2 = t2
    NoThread = NoThread
    Thread <- MCThread2
    MaxTurns = 1
    MaxLoads = 0
    MaxFaults = 0
INVARIANTS
    StopMeansSelectedThread
