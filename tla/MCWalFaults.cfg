SPECIFICATION Spec
CONSTANTS
    c1 = c1
    c2 = c2
    Conn = {c1, c2}
    NoConn = NoConn
    SHM_NLOCK = 5
    MaxPage = 2
    MaxFrame = 4
    Limits <- Faults
SYMMETRY Peers
VIEW Reduced
PROPERTIES
    ImplementsStore
    KillLosesNothing
