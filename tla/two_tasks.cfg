CONSTANTS
    t1 = t1
    t2 = t2
    w1 = w1
    w2 = w2
    Task = {t1, t2}
    Worker = {w1, w2}
    Consumer = consumer
    None = none
    Scope <- NoConsumer
    InitEnabled = TRUE
    Signals = {"KILL", "TERM"}
    Forced = TRUE
    Columns = {"OPEN", "BACKLOG", "DONE"}
SPECIFICATION Spec
SYMMETRY Symmetry
CHECK_DEADLOCK FALSE
INVARIANTS
    IInv
    NoUntrackedAgent
    InitNotRepeated
    OneHolder
    ExclusiveAgent
    MarksAgree
    InProgressIsOwned
PROPERTIES
    ClosedIsFinal
    ReviewIsEarned
    ClosedByRightProcess
