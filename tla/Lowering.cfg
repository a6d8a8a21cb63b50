\* Every body two deep, and every order of three bindings.
SPECIFICATION LoweringSpec
CONSTANTS
    Depth = 2
    FunctionBodies <- Bodies
    first = first
    second = second
    third = third
    NoArgs = NoArgs
    Decls <- MCDecls
    Poly <- MCPoly
    Ident <- MCIdent
    Bases <- MCBases
    Text <- MCText
    MaxArrays = 3
    I32 = "I32"
    Programs <- MCPrograms
INVARIANTS
    NoUseAfterFree
    NeverShort
    NoLeak
    DefinedOnce
    RightOne
    LeastClosure
PROPERTY
    Terminates
CHECK_DEADLOCK FALSE
