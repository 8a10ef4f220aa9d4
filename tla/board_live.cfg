CONSTANTS
    r1 = r1
    r2 = r2
    Request = {r1, r2}
    MaxVersion = 3
    MaxSource = 3
    MaxLoss = 1
    None = none
SPECIFICATION FairSpec
CHECK_DEADLOCK FALSE
PROPERTIES
    OnlyLateAnswersGoBack
    DragIsUndisturbed
    BoardFollows
