SPECIFICATION Spec
CONSTANTS
    Calls = {c1, c2}
    Reviewers = {r1, r2}
    Codes = {a}
    Absent = Absent
INVARIANTS
    DecisionOnShownCall
\* Every call may be decided, with no page left open.
CHECK_DEADLOCK FALSE
