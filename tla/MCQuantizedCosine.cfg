CONSTANTS
    WordBits = 64
    MaxWords = 10
SPECIFICATION Spec
INVARIANTS
    ItselfComesFirst
CHECK_DEADLOCK FALSE
