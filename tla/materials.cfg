CONSTANTS
    File = {f1, f2}
    MaxBorn = 2
    TaskMd = taskmd
    None = none
SPECIFICATION Spec
SYMMETRY Symmetry
INVARIANTS
    RowsHaveFiles
    NoFileLeftOver
    OwnDirectory
    MirrorIsExact
    DeletedLeavesNoFiles
CHECK_DEADLOCK FALSE
