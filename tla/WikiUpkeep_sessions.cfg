SPECIFICATION Spec
CONSTANTS
    c1 = c1
    c2 = c2
    s1 = s1
    s2 = s2
    Claim = {c1, c2}
    UserStated = {}
    Session = {s1, s2}
    WithUI = {s1}
    MaxClaims = 1
    Verdicts = {"no_impact", "needs_recheck", "contradict"}
    Asked = {"accept", "out_of_scope"}
    MaxCommits = 2
    MaxFiles = 1
    MaxItems = 1
SYMMETRY Interchangeable
INVARIANTS
    BaselineIsChecked
    InvalidatedIsQueued
PROPERTY CriticalItemsAreConfirmed
