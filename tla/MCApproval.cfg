CONSTANTS
    Approval = {p}
    p = p
    None = None
    Timeout = 1
    WriteResult = {"ok", "lost", "unsure"}
    MayRestart = TRUE
    MaxTime = 2
    MaxCalls = 2
SPECIFICATION LiveSpec
INVARIANTS
    ReturnsAreRecorded
    FirstAnswerWins
    SweptRunsAreClosed
PROPERTIES
    EveryRequestReturns
    ResolvedOnce
CHECK_DEADLOCK FALSE
