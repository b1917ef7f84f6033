SPECIFICATION Spec
CONSTANTS
    MaxRows = 3
INVARIANTS
    CascadeFollowsTree
\* A workbook is parsed once, and a choice made once.
CHECK_DEADLOCK FALSE
