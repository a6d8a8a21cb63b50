SPECIFICATION CheckerSpec
CONSTANTS
    FieldNames <- MCFieldNames
    Variables <- MCVariables
    Literals <- MCLiterals
    Depth = 2
    Calls <- MCCalls
    Ground <- GroundTypes
INVARIANTS
    Acyclic
    Solved
    MostGeneral
    Sound
    GlobalsClosed
CHECK_DEADLOCK FALSE
