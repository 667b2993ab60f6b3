SPECIFICATION TocFairSpec
CONSTANTS
    s1 = s1
    s2 = s2
    a = a
    b = b
    Unheld = Unheld
    Session = {s1, s2}
    PageFile = {a, b}
    MaxVersion = 2
    MaxFailures = 1
INVARIANT TocTypeOK
PROPERTY IndexConverges
