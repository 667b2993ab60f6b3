SPECIFICATION EmbedderFairSpec
CONSTANTS
    d1 = d1
    d2 = d2
    c1 = c1
    c2 = c2
    k1 = k1
    k2 = k2
    k3 = k3
    m1 = m1
    m2 = m2
    NoOne = NoOne
    Dead = Dead
    Daemon = {d1, d2}
    Client = {c1, c2}
    Caller = {k1, k2, k3}
    Host <- Sessions
    Identity = {m1, m2}
    Wanted <- SameModel
    Peeking = {c2}
    MaxFaults = 1
INVARIANTS
    CheckedVectorsMatch
    OneEmbedderServes
PROPERTY CallsAreServed
