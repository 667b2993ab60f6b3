SPECIFICATION FairSpec
CONSTANTS
    Proc = {"p1", "p2"}
    Wiki = {"w1", "w2"}
    Home <- MCHome
    Cadences <- MCCadences
    OnCompact = {"p1"}
    Headless = {"p1"}
    Enough = 1
    MaxMessages <- MCMessages
    MaxEdits <- MCEdits
    MaxSessions <- MCSessions
    MaxCommits = 1
    MaxBriefs = 2
    MaxEvents = 1
CHECK_DEADLOCK FALSE
INVARIANTS
    RoutedByItsEdits
    BriefsWait
PROPERTIES
    CapturesArePaced
    TasksAreCaptured
