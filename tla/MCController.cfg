CONSTANTS
    TxResult = {"ok", "lost", "unsure"}
    Steering = TRUE
    MayClose = TRUE
    MaxRuns = 2
    MaxTurns = 3
SPECIFICATION LiveSpec
INVARIANTS
    RecordsKeepUp
PROPERTIES
    EndedRunsStayEnded
    AbortedRunsDispatchNothing
    RunsEnd
CHECK_DEADLOCK FALSE
