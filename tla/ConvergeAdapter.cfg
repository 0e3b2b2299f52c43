SPECIFICATION Spec
CONSTANTS
    Loops <- MCLoops
    MaxTroubles = 0
INVARIANTS
    OneWispPerIteration
CHECK_DEADLOCK FALSE
