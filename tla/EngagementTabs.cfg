SPECIFICATION HSpec
CONSTANTS
    a = a b = b d = d e = e x = x y = y z = z
    interested = interested
    applied = applied
    Sources = {x}
    Kinds <- TwoKinds
    Interested = interested
    Unrelated = Unrelated
    Calls = {c1}
    Jobs = {a}
    Looks <- Single
    InitialList <- OneInterested
    Pages = {p1, p2}
    Paginated = TRUE
    UserWaits = TRUE
    NoScan = NoScan
    NoTarget = NoTarget
    NoPage = NoPage
    Unopened = Unopened
    Closed = Closed
    Elsewhere = Elsewhere
    MaxJobs = 2
    MaxCalls = 3
    MaxEdits = 0
    MaxMoves = 2
    MaxReturns = 1
    MaxRestarts = 1
PROPERTIES RedirectWaitsForUser
