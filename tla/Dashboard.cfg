CONSTANTS
    n1 = n1
    n2 = n2
    p1 = p1
    p2 = p2
    NoRow = NoRow
    NoForm = NoForm
    NoCall = NoCall
    Names = {n1, n2}
    Platforms = {p1, p2}
    Known <- OneIntent
    Drafts <- OneDraft
    OthersAsk <- MCOthers
    Filters = {"all", "tracked"}
    MaxRows = 2
    MaxPages = 2
    MaxChanges = 2
    MaxVisits = 1
    MaxCalls = 1
    MaxFaults = 1
SPECIFICATION Spec
INVARIANTS ContextInv ShowsWhatIsAsked
PROPERTIES ChangesRecorded DashboardCatchesUp
