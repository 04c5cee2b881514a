SPECIFICATION Spec
CONSTANTS
    p = p q = q c = c l = l t = t u = u x = x y = y
    Absent = Absent
    Words <- MCWords
    Cards <- MCCards
    Descriptions <- MCDescriptions
    MaxTime = 3
    MaxSaves = 5
    MaxCrashes = 1
INVARIANTS TypeOK JobsFollowEvidence SourcesAreFound
PROPERTIES EvidenceMovesForward GroupsOnCompleteIdentity ChangesAreRecorded
