CONSTANTS
    MaxTask = 3
    MaxOrder = 2
    MaxPosition = 2
    Columns = {"OPEN", "BACKLOG"}
    Cli = {"OPEN"}
    None = none
SPECIFICATION FairSpec
CHECK_DEADLOCK FALSE
PROPERTIES
    OvertakenByHand
    OthersKeepOrder
    CliMovesLast
    QueueServes
