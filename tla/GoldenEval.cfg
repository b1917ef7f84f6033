SPECIFICATION FairSpec
CONSTANTS
    Absent = Absent
    TBD = "TBD"
    Goldens <- MCGoldens
    Trees <- MCAllTrees
    ModelSays <- MCModelSays
    MaxRuns = 3
    MaxCalls = 6
INVARIANTS
    TypeOK
    GateIsEarned
    StabilityIsEarned
    ReportIsObserved
    HeaderFirst
PROPERTIES
    EvaluationEnds
\* No invocation fits into what is left of MaxCalls.
CHECK_DEADLOCK FALSE
