SPECIFICATION Spec
CONSTANTS
    s1 = s1
    s2 = s2
    in = in
    out = out
    Sites <- TwoSites
    Assessments <- MCAssessments
    NoObservation = NoObservation
    MaxClock = 2
    MaxObservations = 2
    MaxFailures = 1
    MaxRestarts = 1
    MaxPosts = 1
INVARIANTS DeliveryInv HistoryIsTimeline
PROPERTIES PendingLeavesCovered PendingDrains HistoryOnlyGrows
