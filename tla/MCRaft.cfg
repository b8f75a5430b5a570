SPECIFICATION Spec
CONSTANTS
    Node = {n1, n2, n3}
    None = None
    MaxTerm = 3
    MaxElections = 3
    MaxLog = 2
    MaxAppends = 1
SYMMETRY NodeSymmetry
INVARIANTS TypeOK ElectionSafety LogMatching
PROPERTIES LeaderAppendOnly
CHECK_DEADLOCK FALSE
