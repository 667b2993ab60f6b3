SPECIFICATION Spec
CONSTANTS
    p1 = p1
    p2 = p2
    Proc = {p1, p2}
    Root = {"r1", "r2"}
    Page = {"x", "y"}
    Content <- MCContent
    Initially <- MCInitially
    Preset = {"performance", "quality"}
    Settings = {"default"}
    Registry <- MCRegistry
    Name = {1, 2, 3}
    MaxEdits <- MCEdits
    MaxRuns = 1
    MaxChoices = 1
    MaxChanges = 1
    MaxMishaps = 0
SYMMETRY Symmetry
CHECK_DEADLOCK FALSE
INVARIANTS
    ActiveClaimsAreFound
