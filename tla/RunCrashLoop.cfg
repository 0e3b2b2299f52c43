SPECIFICATION Spec
CONSTANTS
    N = 2
    Needs <- MCNeeds
    Band <- MCBand
    MaxAttempts <- MCMaxAttempts
    MaxResumes <- MCMaxResumes
    QAGate <- MCQAGate
    Bounded = {}
    AuthBounded = {}
    Signatures = {"code-defect"}
    Reported = {"none"}
    Risk = "Q0"
    RequireGates = {"unit-test"}
    Procs = {p1}
    Nobody = Nobody
    Mutates = {1}
    Supervised = {1}
    MayCancel = FALSE
    MaxFaults = 0
    MaxBegins = 3
    MaxRev = 2
    MaxOutside = 0
INVARIANT
    CrashLoopIsBounded
CHECK_DEADLOCK FALSE
