SPECIFICATION Spec
CONSTANTS
    N = 4
    Needs <- MCNeeds
    Band <- MCBand
    MaxAttempts <- MCMaxAttempts
    MaxResumes <- MCMaxResumes
    Bounded = {2}
    Supervised = {1, 3}
    LeftoverResumes = 2
    Signatures = {"code-defect", "governance", "irreversible-boundary"}
    Reported = {"max_turns", "authentication_failed", "none"}
INVARIANTS
    DrainedMeansSettled
    
PROPERTIES
    InterruptionIsFree
    SuccessIsDeclared
    Drains
CHECK_DEADLOCK FALSE
