SPECIFICATION Spec
CONSTANTS
    p1 = p1
    p2 = p2
    Proc = {p1, p2}
    Root = {"r1", "r2", "r3"}
    Page = {"x", "y"}
    Content <- MCContent
    Initially <- MCInitially
    Preset = {"performance", "quality"}
    Settings = {"performance"}
    Registry <- MCRegistry
    Name = {1, 2, 3, 4}
    MaxEdits <- MCEdits
    MaxRuns = 2
    MaxChoices = 1
    MaxChanges = 2
    MaxMishaps = 1
SYMMETRY Symmetry
CHECK_DEADLOCK FALSE
INVARIANTS
    RowsStayHome
    UndisturbedRunsAreExact
