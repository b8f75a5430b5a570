SPECIFICATION Spec
CONSTANTS
    None = None
    NoScore = NoScore
    MaxId = 4
    Axes <- MCAxes
    Artifacts = {"seed", "new"}
    PrimaryAxis = "primary"
    GuardAxes <- MCGuardAxes
    RegisteredGate <- MCGate
    SuiteDigest = "s"
    Evaluator = "judge"
    Policy <- MCPolicy
    Genesis <- MCGenesis
    Evidence <- MCEvidence
    Scores = {2}
    HealthSamples <- MCSamples
    MaxCycles = 2
    MaxRefusals = 2
    ShadowRuns = 1
    MaxRestarts = 1
    MaxFaults = 0
INVARIANTS TypeOK TallySurvives ReplayFollowsLive PromotionsHavePaperTrail ReportAnchorsJournal
CHECK_DEADLOCK FALSE
