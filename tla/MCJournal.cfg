SPECIFICATION Spec
CONSTANTS
    Entries = {e1, e2}
    Genesis = Genesis
    CrashModes <- AllModes
    FaultModes <- AllModes
    MaxLines = 3
    MaxHarm = 3
INVARIANTS EditsAreEvident AnchorsPinHistory AckedSurvive
CHECK_DEADLOCK FALSE
