SPECIFICATION Spec
CONSTANTS
    Tasks = 1
    Arms <- ControlAndTreatments
    Repeats = 1
    Samples = 1
    LinkDeps = TRUE
    DepsIgnored = FALSE
    MaxFaults = 2
INVARIANTS
    AnswerIsHidden
    PatchIsTheAgents
    PairsShareDependencies
    JudgedIsCounted
PROPERTIES
    EveryCellIsMeasured
