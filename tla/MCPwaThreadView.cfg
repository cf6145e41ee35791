SPECIFICATION ViewSpec
CONSTANTS
    t1 = t1
    t2 = t2
    NoThread = NoThread
    Thread <- MCThread2
    MaxTurns = 1
    MaxLoads = 1
    MaxFaults = 0
SYMMETRY MCSymmetry
PROPERTIES
    ForeignDetailIsRead
    StreamSurvivesLaggingRead
