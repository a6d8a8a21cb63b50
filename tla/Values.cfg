SPECIFICATION ValuesSpec
CONSTANTS
    Depth = 4
    FieldNames <- MCFields
    Size <- MCSize
    Counted = {"name", "tags"}
    Kinds    = {"tag", "tuple", "record", "prim"}
    Variants = 3
    Literals = {0, 1, 2}
    Fields   = {0, 1}
    AnySub   = AnySub
    MaxArms  = 3
    Ints = {1, 2}
    MaxElems = 2
    Crossing <- MCCrossing
    Levels <- MCLevels
    Addresses = {a1, a2}
    Functions = {f1, f2}
    None = None
    MaxRefs = 2
    Operands <- MCOperands
    Deep = 3
    Bits = 2
    Width <- MCWidth
    Written = {0, 1, 2, 3, 4, 7, 8, 15, 16, 17, 31, 32, 33, 64}
    Signatures <- MCSignatures
    Beginnings <- MCBeginnings
    MaxFrames = 3
    MaxObjects = 2
    MaxLength = 2
INVARIANTS
    FirstMatch
    TagsNeverTrap
    TablesAgree
    KeepsMeaning
    ReadsInOrder
    FreesWhole
    ArrivesWhole
    SameAsDirect
    NeverAnother
    ComparesByValue
    ComputesAsWritten
    EverythingArrives
CHECK_DEADLOCK FALSE
