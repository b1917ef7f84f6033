SPECIFICATION Spec
CONSTANTS
    Calls = {c1, c2}
    Reviewers = {r1, r2}
    Codes = {a, b}
    Absent = Absent
SYMMETRY Symmetry
INVARIANTS
    TypeOK
    AuditedIsEffective
PROPERTIES
    FirstWriteWins
    CodesOfOwnCall
\* Every call may be decided, with no page left open.
CHECK_DEADLOCK FALSE
