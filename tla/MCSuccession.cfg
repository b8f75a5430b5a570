SPECIFICATION Spec
CONSTANTS
    None = None
    MaxId = 3
    Axes <- MCAxes
    Artifacts = {a1}
    PrimaryAxis = "primary"
    GuardAxes <- MCGuardAxes
    RegisteredGate <- MCShadowGate
    SuiteDigest = "s"
    Evaluator = "judge"
    Evidence <- MCEvidence
    LiveGates <- MCEdits
    MaxShadow = 1
    MaxEvents = 3
INVARIANTS TypeOK RecordExplainsAuthority PromotionsEarned AncestryRatchet
PROPERTIES HistoryAppendOnly FallbackIsRunnable RefinesAuthority
CHECK_DEADLOCK FALSE
