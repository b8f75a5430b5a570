SPECIFICATION Spec
CONSTANTS
    None = None
    Source = Source
    Builder = {gpu}
    Action <- MCAction
    Order <- MCOrder
    Deps <- MCDeps
    Pinned = {"tune"}
    OptedIn = {"tune"}
    Unpinned = {"compile"}
    Flaky = {}
    Gpu = {gpu}
    Shared = FALSE
    MaxRot = 1
    MaxCrashes = 0
INVARIANTS CorruptionIsHealed
CHECK_DEADLOCK FALSE
