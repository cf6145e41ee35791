\* Two turns of one thread, two approvals, two client calls.
SPECIFICATION Spec
CONSTANTS
    t1 = t1
    u1 = u1
    u2 = u2
    a1 = a1
    a2 = a2
    NoTurn = NoTurn
    Thread <- MCThread
    Turn <- MCTurn
    Approval <- MCApproval2
    MaxCalls = 2
    FullAccessAutoApprove = TRUE
SYMMETRY MCSymmetry
INVARIANTS
    TypeOK
    AnswerMatchesRecord
    ApprovalStaysDecidable
    RecordsCatchUp
PROPERTIES
    PointerKept
    ReadRepairsPointer
\* The bounds end every run: the calls, the turns and the approvals run out.
CHECK_DEADLOCK FALSE
