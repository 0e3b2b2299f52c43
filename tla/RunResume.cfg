SPECIFICATION Spec
CONSTANTS
    N = 2
    Needs <- MCNeeds
    Band <- MCBand
    MaxAttempts <- MCMaxAttempts
    MaxResumes <- MCMaxResumes
    QAGate <- MCQAGate
    Bounded = {2}
    AuthBounded = {2}
    Signatures = {"code-defect", "irreversible-boundary"}
    Reported = {"max_turns", "authentication_failed", "none"}
    Risk = "Q0"
    RequireGates = {"unit-test"}
    Procs = {p1}
    Nobody = Nobody
    Mutates = {1}
    Supervised = {1}
    MayCancel = TRUE
    MaxFaults = 0
    MaxBegins = 3
    MaxRev = 2
    MaxOutside = 0
INVARIANTS
    NeverRepeated
    CompletedIsProved
    ResumeIsExact
    ResumesBounded
    StartsOnDurableNeeds
PROPERTIES
    RunEnds
CHECK_DEADLOCK FALSE
