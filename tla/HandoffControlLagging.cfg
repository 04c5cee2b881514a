SPECIFICATION Spec
CONSTANTS
    p1 = p1
    p2 = p2
    p3 = p3
    c1 = c1
    c2 = c2
    r1 = r1
    r2 = r2
    i1 = i1
    i2 = i2
    Preparers <- MCPreparers
    Collectors <- MCCollectors
    ReturnCalls <- MCReturnCalls
    Interruptions <- MCInterruptions
    NoInterruption = NoInterruption
    NoPreparer = NoPreparer
    PromptWake = FALSE
INVARIANTS InterruptionPauses BlockedHasOwner IInv
PROPERTIES RefinesAuthority BlockedEnds
