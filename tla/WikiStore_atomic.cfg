SPECIFICATION StoreSpec
CONSTANTS
    p1 = p1
    p2 = p2
    a = a
    k = k
    NoOne = NoOne
    NoJob = NoJob
    Proc = {p1, p2}
    Crashable = {p2}
    Page = {a}
    Key = {k}
    StaleMs = 0
    TimeoutMs = 0
CONSTRAINT UntilFirstEviction
INVARIANTS
    TocFollowsIndex
    OneOpenItemPerKey
PROPERTY
    UpdatesAreAtomic
