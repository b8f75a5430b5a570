SPECIFICATION Spec
CONSTANTS
    Node = {n1, n2, n3}
    None = None
    MaxTerm = 2
    MaxElections = 2
    MaxLog = 2
    MaxAppends = 2
SYMMETRY NodeSymmetry
INVARIANTS LeaderCompleteness
CHECK_DEADLOCK FALSE
