SPECIFICATION FairSpec
CONSTANTS
    c1 = c1
    k1 = k1
    Calls = {c1}
    Keys = {k1}
    CallOf <- MCCallOf
    Execs = {e1, e2}
    Codes <- MCCodes
    Confidences = {79, 80}
    PromptVersions = {"v1.0", "v1.1"}
    MaxAttempts <- MCOneRetry
    PutAttempts = 2
    HasFirehose = TRUE
    Absent = Absent
INVARIANTS
    TypeOK
    RowJustified
    SkipLeavesNoTrace
    SuccessAccounted
    UnpublishedRowTraceable
    BoundedDuplicates
PROPERTIES
    PromptVersionPreserved
    EveryExecutionEnds
\* Every notification the bound allows has been delivered and has ended.
CHECK_DEADLOCK FALSE
