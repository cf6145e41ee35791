\* Two calls and two threads, each of which may be out of memory twice under a call.
SPECIFICATION Spec
CONSTANTS
    c1 = c1
    c2 = c2
    t1 = t1
    t2 = t2
    Calls <- MCCalls
    Threads <- MCThreads
    Draft = Draft
    None = None
    MaxUnloads = 2
SYMMETRY MCSymmetry
INVARIANTS
    OneTurnPerCall
    StaysInThread
    UnloadedOnceIsNoFailure
\* The calls run out.
CHECK_DEADLOCK FALSE
