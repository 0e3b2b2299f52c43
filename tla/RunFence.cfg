SPECIFICATION Spec
CONSTANTS
    N = 2
    Needs <- MCNeeds
    Band <- MCBand
    MaxAttempts <- MCOneAttempt
    MaxResumes <- MCMaxResumes
    QAGate <- MCQAGate
    Bounded = {}
    AuthBounded = {}
    Signatures = {"code-defect"}
    Reported = {"max_turns", "none"}
    Risk = "Q0"
    RequireGates = {"unit-test"}
    Procs = {p1, p2}
    Nobody = Nobody
    Mutates = {1}
    Supervised = {1}
    MayCancel = FALSE
    MaxFaults = 1
    MaxBegins = 2
    MaxRev = 2
    MaxOutside = 1
INVARIANTS
    TypeOK
    OneRunner
PROPERTIES
    StrayNeverAbsorbed
    CompletionIsBacked
SYMMETRY Interchangeable
CHECK_DEADLOCK FALSE
