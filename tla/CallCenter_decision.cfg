SPECIFICATION CenterSpec
CONSTANTS
    c1 = c1
    k1 = k1
    k2 = k2
    Calls = {c1}
    Keys = {k1, k2}
    CallOf <- MCCallOf
    Execs = {e1, e2}
    Codes <- MCCodes
    Confidences = {79, 80}
    PromptVersions = {"v1.0"}
    MaxAttempts <- MCNoRetry
    PutAttempts = 1
    HasFirehose = FALSE
    Reviewers = {r1}
    Absent = Absent
PROPERTIES
    DecisionIsFinal
\* Every notification the bound allows has ended and every call is decided.
CHECK_DEADLOCK FALSE
