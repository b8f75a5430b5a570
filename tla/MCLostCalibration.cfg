SPECIFICATION Spec
CONSTANTS
    None = None
    NoScore = NoScore
    MaxId = 5
    Axes <- MCAxes
    Artifacts = {"seed"}
    PrimaryAxis = "primary"
    GuardAxes <- MCGuardAxes
    RegisteredGate <- MCCanaryFree
    SuiteDigest = "s"
    Evaluator = "judge"
    Policy <- MCQuick
    Genesis <- MCGenesis
    Evidence <- MCEvidence
    Scores = {0, 2}
    HealthSamples <- MCHealthy
    MaxCycles = 3
    MaxRefusals = 4
    ShadowRuns = 0
    MaxRestarts = 0
    MaxFaults = 1
INVARIANTS JournalReplays
CHECK_DEADLOCK FALSE
