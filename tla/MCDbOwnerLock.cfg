CONSTANTS
    a1 = a1
    a2 = a2
    a3 = a3
    p1 = p1
    p2 = p2
    i1 = i1
    i2 = i2
    i3 = i3
    i4 = i4
    Acq <- MCAcq
    Proc = {p1, p2}
    procOf <- MCProcOf
    Inode <- MCInode
    NoInode = NoInode
    NoAcq = NoAcq
    MaxTries = 2
    CloseDropsLocks = FALSE
SPECIFICATION OwnerSpec
SYMMETRY MCSymmetry
INVARIANTS
    SoleOwner
PROPERTIES
    DeletesOwnSidecar
