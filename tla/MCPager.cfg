SPECIFICATION Spec
CONSTANTS
    c1 = c1
    c2 = c2
    Conn = {c1, c2}
    NoConn = NoConn
    SHM_NLOCK = 0
    MaxPage = 3
    MaxBlock = 8
    Limits <- Scenarios
INVARIANTS
    AlwaysRecoverable
    HotIsDead
PROPERTIES
    PagerImplementsStore
