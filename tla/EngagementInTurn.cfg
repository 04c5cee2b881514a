SPECIFICATION HSpec
CONSTANTS
    a = a b = b d = d e = e x = x y = y z = z
    interested = interested
    applied = applied
    Sources = {x, y, z}
    Kinds <- TwoKinds
    Interested = interested
    Unrelated = Unrelated
    Calls = {c1}
    Jobs = {a, b, d, e}
    Looks <- SomeAlike
    InitialList <- ThreeInterested
    Pages = {p1}
    Paginated = TRUE
    UserWaits = TRUE
    NoScan = NoScan
    NoTarget = NoTarget
    NoPage = NoPage
    Unopened = Unopened
    Closed = Closed
    Elsewhere = Elsewhere
    MaxJobs = 2
    MaxCalls = 3
    MaxEdits = 1
    MaxMoves = 0
    MaxReturns = 0
    MaxRestarts = 1
PROPERTIES ScopedToCategory EndedScanIsStored InterestMatchesCategory
