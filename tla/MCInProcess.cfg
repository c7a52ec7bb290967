CONSTANTS
    c1 = c1
    c2 = c2
    c3 = c3
    Conn <- MCConn
    NoConn = NoConn
    SHM_NLOCK = 3
    base = 16
    ARENA_BYTES = 64
    WALINDEX_PGSZ = 20
    name <- MCName
    Region = {0, 1}
    MaxSessions = 6
    main = main
    mem = mem
    Thread <- MCConn
    Path <- MCPath
    Memory = mem
    SharedPort = FALSE
    Child = {w1, w2, w3}
    Runtime = {r1, r2, r3}
    NoRuntime = NoRuntime
    NoThread = NoThread
    Nothing = Nothing
SPECIFICATION MCSpec
SYMMETRY Perms
CHECK_DEADLOCK FALSE
INVARIANTS
    LevelsCompatible
    IndexAgreement
    LivePortOnOpenRuntime
    NoLockLeak
PROPERTIES
    SlotsAreRwLocks
