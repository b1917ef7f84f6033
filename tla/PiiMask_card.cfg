SPECIFICATION Spec
CONSTANTS
    Texts <- MCCardTexts
INVARIANTS
    CardIsMasked
CHECK_DEADLOCK FALSE
