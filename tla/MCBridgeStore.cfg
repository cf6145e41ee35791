SPECIFICATION FairSpec
CONSTANTS
    t1 = t1
    t2 = t2
    u1 = u1
    u2 = u2
    u3 = u3
    Thread <- MCThread
    Turn <- MCTurn2
    NoTurn = NoTurn
    NoThread = NoThread
    Draft = Draft
    Chunks = 2
    MaxSteers = 2
    FullAccessAutoApprove = TRUE
INVARIANTS
    LockAgreement
    ConsentBeforeOutput
    NoStuckTurn
    TranscriptMatchesOutcome
    OneActiveUnlessFinishedTwice
PROPERTIES
    RunningTurnEnds
    ImplementsGate
\* Once every turn id is used and every turn has ended, nothing is left to do.
CHECK_DEADLOCK FALSE
