SPECIFICATION FairSpec
CONSTANTS
    Codex <- MCCodex
    KiroModels <- MCKiroModels
    Lenses <- MCLenses
    RETRIES = 2
    DiffOverCap = TRUE
INVARIANTS
    TypeOK
    PassIsEarned
    DiffWithheld
    FlagsAreOfThisRun
    GateFindsVerdict
PROPERTIES
    ReviewEnds
\* A review ends at the gate or with a failed step.
CHECK_DEADLOCK FALSE
