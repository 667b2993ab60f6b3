SPECIFICATION Spec
CONSTANTS
    Page = {"x", "y"}
    Existing = {"x"}
    Flaky = {"x"}
    Text = {"question"}
    Semantic <- MCSemantic
    Weights <- MCWeights
    Limit = 3
    MaxCandidates = 2
    Room = 1
    MaxRetries = 1
    MaxTime = 2
INVARIANTS
    CacheCoversTheWiki
    FusionIsSound
    InjectedIsBacked
    AsksDegrade
PROPERTIES
    EveryQueryEnds
