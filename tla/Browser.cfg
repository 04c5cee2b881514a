SPECIFICATION Spec
CONSTANTS
    p1 = p1
    p2 = p2
    c1 = c1
    c2 = c2
    j1 = j1
    NoPage = NoPage
    Pages = {p1, p2}
    TabIds = {1, 2, 3, 4}
    Jobs = {j1}
    CardSelector = FALSE
    MaximumCards = 2
    Calls = {c1, c2}
    MaxCalls = 3
    MaxRounds = 2
    MaxEvents = 1
SYMMETRY Symmetric
INVARIANTS
    RegistryInv
    EvidenceOfItsPage
PROPERTIES
    ActsOnCaptured
    ActionsExpire
    HandsOverLogin
CHECK_DEADLOCK FALSE
