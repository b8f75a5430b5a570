SPECIFICATION Spec
CONSTANTS
    None = None
    Source = Source
    Builder = {cpu, gpu}
    Action <- MCAction
    Order <- MCOrder
    Deps <- MCDeps
    Pinned = {"tune"}
    OptedIn = {"tune"}
    Unpinned = {"compile"}
    Flaky = {"tune"}
    Gpu = {gpu}
    Shared = TRUE
    MaxRot = 1
    MaxCrashes = 1
INVARIANTS TypeOK ClaimsTrue BuildsAreFaithful FailureIsContained
PROPERTIES BuildsEnd
CHECK_DEADLOCK FALSE
