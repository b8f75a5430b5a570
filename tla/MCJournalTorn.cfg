SPECIFICATION Spec
CONSTANTS
    Entries = {e1, e2}
    Genesis = Genesis
    CrashModes <- AllModes
    FaultModes <- NoModes
    MaxLines = 3
    MaxHarm = 1
INVARIANTS TornTailCostsOneRecord
CHECK_DEADLOCK FALSE
