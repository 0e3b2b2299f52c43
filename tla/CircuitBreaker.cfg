SPECIFICATION Spec
CONSTANTS
    c1 = c1
    c2 = c2
    c3 = c3
    Callers <- MCCallers
    ConsecutiveFailures = 2
    OpenBase = 1
    OpenMax = 3
    HalfOpenInterval = 2
    TripCap = 3
    MaxMishaps = 2
    MaxOutages = 2
INVARIANTS TypeOK BackoffIsEarned ProbesAreSpaced
SYMMETRY Interchangeable
