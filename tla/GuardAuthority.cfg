SPECIFICATION AuthoritySpec
CONSTANTS
    Operators = {o1, o2}
    Versions = {v1, v2, v3}
    LiveVersions = {v3}
    LoopsIn <- LoopsOfFile
    DecisionRefs = {d1}
    ParitySets <- Comparisons
    Fields = 2
    MaxTransitions = 2
    None = None
    o1 = o1
    o2 = o2
    v1 = v1
    v2 = v2
    v3 = v3
SYMMETRY OperatorSymmetry
CHECK_DEADLOCK FALSE
INVARIANTS
    AuthorityTypeOK
    RollbackStaysPossible
PROPERTIES
    TransitionsAreExact
