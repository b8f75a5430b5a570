SPECIFICATION Spec
CONSTANTS
    None = None
    NoScore = NoScore
    MaxId = 4
    Axes <- MCAxes
    Artifacts = {"seed", "new"}
    PrimaryAxis = "primary"
    GuardAxes <- MCGuardAxes
    RegisteredGate <- MCGate
    SuiteDigest = "s"
    Evaluator = "judge"
    Policy <- MCPolicy
    Genesis <- MCGenesis
    Evidence <- MCEvidence
    Scores = {}
    HealthSamples <- MCSamples
    MaxCycles = 2
    MaxRefusals = 2
    ShadowRuns = 1
    MaxRestarts = 1
    MaxFaults = 1
INVARIANTS JournalReplays
PROPERTIES DurableAuthority
CHECK_DEADLOCK FALSE
