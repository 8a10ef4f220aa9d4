CONSTANTS
    t1 = t1
    t2 = t2
    Task = {t1, t2}
    Saves = TRUE
    MaxVersion = 2
    MaxGen = 4
    None = none
    Failed = failed
SPECIFICATION Spec
CHECK_DEADLOCK FALSE
INVARIANTS
    ShowsOwnTask
