CONSTANTS
    t1 = t1
    w1 = w1
    Task = {t1}
    Worker = {w1}
    Consumer = consumer
    None = none
    Scope <- OneScope
    InitEnabled = TRUE
    Signals = {"KILL", "TERM"}
    Forced = FALSE
    Columns = {"OPEN", "BACKLOG"}
    MaxStop = 2
SPECIFICATION SupervisorSpec
CHECK_DEADLOCK FALSE
INVARIANTS
    StopLeavesNoExecutor
PROPERTIES
    RunsEnd
    StopCompletes
