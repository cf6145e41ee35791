\* docs/ARCHITECTURE.md 9.1 on plan-only, while a socket read may carry the response
\* to turn/start and the frames that follow it.
SPECIFICATION Spec
CONSTANTS
    t1 = t1
    u1 = u1
    u2 = u2
    a1 = a1
    a2 = a2
    NoTurn = NoTurn
    Thread <- MCThread
    Turn <- MCTurn
    Approval <- MCApproval1
    MaxCalls = 1
    FullAccessAutoApprove = TRUE
INVARIANTS
    PlanOnlyAsksUser
CHECK_DEADLOCK FALSE
