SPECIFICATION Spec
CONSTANTS
    Risk = "Q0"
    RequireGates = {}
    QAGate <- MCQAGate
    RunIds = {r1, r2}
    Repertoire <- MCRepertoire
    MaxLines = 4
    CarriesOn = TRUE
    MaxTears = 2
INVARIANTS
    TearLosesOneRecord
PROPERTIES
    RunsAreSeparate
CHECK_DEADLOCK FALSE
