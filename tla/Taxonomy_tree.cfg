SPECIFICATION Spec
CONSTANTS
    MaxRows = 5
INVARIANTS
    TypeOK
    TreeIsOfSheet
    InheritsNearest
    LinksAgree
\* A workbook is parsed once, and a choice made once.
CHECK_DEADLOCK FALSE
