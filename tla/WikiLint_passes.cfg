SPECIFICATION Spec
CONSTANTS
    p1 = p1
    p2 = p2
    c1 = c1
    c2 = c2
    C10 = C10
    s1 = s1
    Page <- TwoPages
    Claim <- ThreeClaims
    Linter = {s1}
    PageOf <- TwoOnOnePage
    Place <- FirstThenSecond
    Loose = {c2}
    Mentions <- FoundById
    Quotes <- FoundByWords
    ByHand = {c1}
    Filed = {C10}
    Shares <- BothOfOneFile
    Overlap <- TwoAlike
    Modes <- ReportOrFix
    MaxPairs = 1
    MaxMerges = 1
INVARIANTS
    FiledClaimsAreNotQueued
PROPERTIES
    RewritesLoseOnlyLateEdits
    UnbackedAreRaised
    UnbackedSettle
