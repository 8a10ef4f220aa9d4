SPECIFICATION FairSpec
CHECK_DEADLOCK FALSE
INVARIANTS
    Conversation
    SuccessIsClean
PROPERTIES
    NoPromptAfterCancel
    ImplementsAgentPhase
    CleanupCompletes
