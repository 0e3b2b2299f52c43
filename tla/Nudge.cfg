SPECIFICATION Spec
CONSTANTS
    w = w
    a = a
    b = b
    c = c
    p1 = p1
    p2 = p2
    WaitNudge = w
    Plain <- Sent
    NoShadow <- Bare
    SameRef <- Pair
    Cases <- EachCase
    Workers <- MCWorkers
    MaxTries = 2
    MaxLapses = 1
    MaxShadows = 2
    MaxEpoch = 2
    MaxTrouble = 1
SYMMETRY Interchangeable
INVARIANTS RedeliveryIsExplained ClosedMeansDelivered NoNudgeVanishes
PROPERTIES DeadLettersLeaveARecord
