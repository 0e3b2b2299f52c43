SPECIFICATION FairSpec
CONSTANTS
    Loops <- MCLoops
    MaxTroubles = 2
INVARIANTS
    KeysAreIdempotent
    OneAgentAtWork
    NoIterationSkipped
    StraightBudget
    ReportsAgree
    EndIsAnnounced
    NoWorkLeftBehind
PROPERTIES
    LoopSettles
CHECK_DEADLOCK FALSE
