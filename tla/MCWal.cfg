SPECIFICATION Spec
CONSTANTS
    c1 = c1
    c2 = c2
    Conn = {c1, c2}
    NoConn = NoConn
    SHM_NLOCK = 6
    MaxPage = 2
    MaxFrame = 4
    Limits <- Interleavings
SYMMETRY Peers
VIEW Reduced
INVARIANTS
    CacheFresh
    ReadersKeepTheLog
PROPERTIES
    ImplementsStore
