SPECIFICATION MethodSpec
CONSTANT Depth = 2
INVARIANT MeansWhatItSays
CHECK_DEADLOCK FALSE
