CONSTANTS
    r1 = r1
    r2 = r2
    r3 = r3
    Request = {r1, r2, r3}
    RepoOf <- OneRepo
SPECIFICATION Spec
CHECK_DEADLOCK FALSE
INVARIANTS
    OnlyHolderWorks
PROPERTIES
    RequestsEnd
    ImplementsProxyAnswer
