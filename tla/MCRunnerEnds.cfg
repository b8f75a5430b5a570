SPECIFICATION Spec
CONSTANTS
    None = None
    NoScore = NoScore
    MaxId = 3
    Axes <- MCAxes
    Artifacts = {"seed", "new"}
    PrimaryAxis = "primary"
    GuardAxes <- MCGuardAxes
    RegisteredGate <- MCGate
    SuiteDigest = "s"
    Evaluator = "judge"
    Policy <- MCPolicy
    Genesis <- MCEmpty
    Evidence <- MCEvidence
    Scores = {}
    HealthSamples <- MCAllSamples
    MaxCycles = 3
    MaxRefusals = 2
    ShadowRuns = 1
    MaxRestarts = 0
    MaxFaults = 0
INVARIANTS RecordedFailureEndsAuthority SupervisedBeforeProposing
PROPERTIES RunsEnd
CHECK_DEADLOCK FALSE
