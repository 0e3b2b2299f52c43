SPECIFICATION FairSpec
CONSTANTS
    w = w
    a = a
    b = b
    c = c
    p1 = p1
    p2 = p2
    WaitNudge = w
    Plain <- Nobody
    NoShadow <- Nobody
    SameRef <- Nobody
    Cases <- OnlyWait
    Workers <- OneWorker
    MaxTries = 2
    MaxLapses = 0
    MaxShadows = 2
    MaxEpoch = 1
    MaxTrouble = 1
PROPERTIES NudgesSettle 
