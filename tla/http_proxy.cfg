CONSTANTS
    p1 = p1
    p2 = p2
    u1 = u1
    u2 = u2
    Port = {p1, p2}
    Remote = {u1, u2}
    Editor = {e1, e2}
    Config <- Configs
    MaxSave = 2
    None = none
    Request = {r1}
SPECIFICATION Spec
INVARIANTS
    SavedIsInForce
    RestartIsTold
PROPERTIES
    DisconnectEnds
    ImplementsProxyAnswer
