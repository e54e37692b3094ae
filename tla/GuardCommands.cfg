SPECIFICATION GuardSpec
CONSTANTS
    Loops = {f1}
    F = f1
    Grants <- NameableGrants
    Owners = {o1}
    Revisions = {v1}
    Bases = {r1, r2}
    Evidence = {r1, r2}
    Agents = {a1, a2}
    Files = {p1}
    Checkpoints = {k1}
    Texts = {t1}
    MaxProbeAttempts = 3
    MaxGeneration = 1
    MaxClaims = 2
    NoLoop = NoLoop
    NoGrant = NoGrant
    NoOwner = NoOwner
    NoBasis = NoBasis
    Histories <- TwoReviews
    r1 = r1
    r2 = r2
    None = None
SYMMETRY Symmetry
CONSTRAINT FilesAgeApart
INVARIANTS
    GuardTypeOK
    ProbeContextKept
PROPERTIES
    DirectionPrecedesArchitecture
    DirectionIsAnswered
    AdviceIsForItsReview

