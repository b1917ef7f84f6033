SPECIFICATION Spec
CONSTANTS
    k1 = k1
    k2 = k2
    Sessions = {s1, s2}
    Kids = {k1, k2}
    Tokens <- MCTokens
    Environments <- MCEnvironments
    CacheSize = 1
    Absent = Absent
SYMMETRY Symmetry
INVARIANTS
    TypeOK
    GateHolds
    RefusalHasCause
    LinkIsOnRecord
    FlagMeansStream
