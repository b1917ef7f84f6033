SPECIFICATION Spec
CONSTANTS
    Texts <- MCTexts
INVARIANTS
    NothingLeft
PROPERTIES
    LoneCardMasked
\* When the last pattern has had its turn, mask() returns.
CHECK_DEADLOCK FALSE
