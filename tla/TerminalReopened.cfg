SPECIFICATION StoreSpec
CONSTANTS
    Loops = {f1}
    Grants = {g1}
    Owners = {o1}
    Revisions = {r1}
    Bases = {b1}
    Evidence = {e1}
    MaxProbeAttempts = 3
    MaxGeneration = 1
    MaxClaims = 4
    b1 = b1
    Requests = {}
    Unasked = Unasked
    NoLoop = NoLoop
    NoGrant = NoGrant
    NoOwner = NoOwner
    NoBasis = NoBasis
PROPERTIES
    TerminalIsFinal
