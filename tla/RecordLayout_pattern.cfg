SPECIFICATION PatternSpec
CONSTANTS
    FieldNames <- MCFields
    Size <- MCSize
    Counted = {"name", "tags"}
INVARIANT ReadsNamed
CHECK_DEADLOCK FALSE
