SPECIFICATION FairSpec
CONSTANTS
    p1 = p1
    p2 = p2
    p3 = p3
    NoOne = NoOne
    Proc = {p1, p2, p3}
    Crashable = {p3}
    StaleMs = 1
    TimeoutMs = 1
INVARIANTS
    OverlapOnlyAfterEviction
PROPERTIES
    ReleaseEvictsOnlyAfterEviction
    CallTerminates
    OrphanedLockIsReclaimed
