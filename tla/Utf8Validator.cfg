SPECIFICATION Spec
CONSTANTS
    Bytes = {"A", "L2", "E0", "E1", "ED", "F0", "F1", "F4", "X2", "X4", "X", "C1", "C2", "C3"}
    MaxPiece = 2
    MaxText = 5
INVARIANTS
    SameAsWhole
    PartialIsTheTail
    FirstByteIsALead
CHECK_DEADLOCK FALSE
