SPECIFICATION AuthoritySpec
CONSTANTS
    Operators = {o1, o2}
    Versions = {v1, v2}
    LiveVersions = {}
    LoopsIn <- LoopsOfFile
    DecisionRefs = {d1}
    ParitySets <- Comparisons
    Fields = 1
    MaxTransitions = 2
    None = None
    o1 = o1
    o2 = o2
    v1 = v1
    v2 = v2
    v3 = v3
SYMMETRY OperatorSymmetry
CHECK_DEADLOCK FALSE
PROPERTIES
    RestoreNeedsCutover
