CONSTANTS
    t1 = t1
    t2 = t2
    w1 = w1
    w2 = w2
    Task = {t1}
    Worker = {w1, w2}
    Consumer = consumer
    None = none
    Scope <- OneScope
    InitEnabled = FALSE
    Signals = {"KILL"}
    Forced = FALSE
    Columns = {"OPEN", "BACKLOG"}
SPECIFICATION Spec
SYMMETRY Symmetry
CHECK_DEADLOCK FALSE
INVARIANTS
    DeathInAgentBlocks
