SPECIFICATION MCSpec
CONSTANTS
    Loops = {f1}
    Grants = {g1, g2}
    Owners = {o1, o2}
    Revisions = {r1, r2}
    Bases = {b1, b2}
    Evidence = {e1, e2}
    b1 = b1
    Requests <- ToldApart
    Unasked = Unasked
    MaxProbeAttempts = 3
    MaxGeneration = 2
    MaxClaims = 4
    NoLoop = NoLoop
    NoGrant = NoGrant
    NoOwner = NoOwner
    NoBasis = NoBasis
SYMMETRY Symmetry
INVARIANTS
    TypeOK
    GrantsMatchLoops
    SpentGrantsDiffer
    RepeatedFailureWithholdsPass
    ProbeColumnsAgree
    PassIsEarned
    FailuresOnlyTighten
    AdviceNeverOpens
PROPERTIES
    BudgetNeedsGrant
    LiveProbeIsExclusive
    ImplementsLedger
