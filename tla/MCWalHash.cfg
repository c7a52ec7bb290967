SPECIFICATION Spec
CONSTANTS
    Page = {1, 2}
    HASHTABLE_NPAGE = 4
    HASHTABLE_NPAGE_ONE = 1
    MaxFrame = 4
INVARIANTS
    FindsSnapshotFrame
    FramesReachable
    IteratorReturnsNewest
