SPECIFICATION FairViewSpec
CONSTANTS
    t1 = t1
    t2 = t2
    NoThread = NoThread
    Thread <- MCThread
    MaxTurns = 1
    MaxLoads = 0
    MaxFaults = 1
PROPERTIES
    ThinkingSettles
    StreamComesBack
