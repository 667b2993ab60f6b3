SPECIFICATION Spec
CONSTANTS
    AutoAccept = 80
    MinSupport = 70
    MinDerivable = 50
    FramingImportance = 60
    MinImportance = 1
    AutoAcceptUserStated = TRUE
    EscalateCriticality = 85
    MinFit = 60
    NewPageConfidence = 70
    Ingest = {"i1", "i2", "i3"}
    Capture = {"k1", "k2", "k3"}
    Input <- MCInput
    Title <- MCTitle
    Items <- MCItems
    Page = {"home", "new"}
    Held <- MCHeld
    Alike <- MCAlike
    Invented = {"b"}
    Answers <- MCAnswers
    RequestedMode = "auto"
    Recurs = 2
    MaxItems = 2
    MaxFaults = 1
CHECK_DEADLOCK FALSE
INVARIANTS
    PagesAreBacked
    OpenQuestionsAreQueued
    RecurringIsRaised
    NothingIngestedIsDropped
PROPERTIES
    LossesAreStaleWrites
