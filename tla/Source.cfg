SPECIFICATION SourceSpec
CONSTANTS
    Lower = {"a", "b"}
    Upper = {"A", "B"}
    Literals = {"str"}
    Sources <- MCSources
    MaxRuns = 2
    MaxSoup = 4
    Spelled <- MCSpelled
    ChunkTexts <- MCChunks
    MaxTokens = 1
    MaxInHole = 2
    Uris = {u, v}
    InFlight = 4
    MaxSent = 2
    Refused = {2}
    Alphabet <- MCAlphabet
    MaxLength = 2
    MaxNodes = 2
INVARIANTS
    Understood
    FormatKeeps
    ReadYourEdits
    TokensAsWritten
    ShownWhereItIs
    FindsInnermost
PROPERTIES
    Settles
    NeverBack
    Converges
CHECK_DEADLOCK FALSE
