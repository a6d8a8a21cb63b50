SPECIFICATION ComparisonSpec
CONSTANTS
    MaxElems = 1
    Operands <- MCOperands
    Deep = 3
    Bits = 1
INVARIANT DiscriminantsFirst
CHECK_DEADLOCK FALSE
