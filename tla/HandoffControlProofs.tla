------------------------ MODULE HandoffControlProofs ------------------------
(***************************************************************************)
(* Theorems about HandoffControl, for any sets of callers, collections and *)
(* interruptions.  IInv is inductive; the safety properties are conjuncts  *)
(* of it, the exclusion of collections needs PromptWake on top of it, and  *)
(* the refinement needs only that a retained interruption pauses.  The     *)
(* last part is about HandoffOwnership, the same protocol with the history *)
(* of whose pause is in force.                                             *)
(***************************************************************************)
EXTENDS HandoffOwnership, FiniteSetTheorems, TLAPS

USE DEF States, PreparePoints

(* Every action but the start and the end of a collection leaves the       *)
(* running collections and their count alone.                              *)
LEMMA CountStays ==
    ASSUME CountIsExact, UNCHANGED <<activeCollectionCount, collecting>>
    PROVE  CountIsExact'
  BY DEF CountIsExact

(* Counting follows a collection's start and end. *)
LEMMA CountFollows ==
    ASSUME TypeOK, CountIsExact, NEW c \in Collectors
    PROVE  /\ StartCollection(c) => CountIsExact'
           /\ EndCollection(c) => CountIsExact' /\ activeCollectionCount > 0
  <1>1. IsFiniteSet(collecting)
    BY ConstantsAssumption, FS_Subset DEF TypeOK
  <1>2. StartCollection(c) => CountIsExact'
    BY <1>1, FS_AddElement DEF StartCollection, CountIsExact
  <1>3. EndCollection(c) => CountIsExact' /\ activeCollectionCount > 0
    <2> SUFFICES ASSUME EndCollection(c)
                 PROVE  CountIsExact' /\ activeCollectionCount > 0
      OBVIOUS
    <2>1. c \in collecting /\ collecting' = collecting \ {c}
      BY DEF EndCollection
    <2>2. Cardinality(collecting') = Cardinality(collecting) - 1
      BY <1>1, <2>1, FS_RemoveElement
    <2>3. Cardinality(collecting) # 0
      BY <1>1, <2>1, FS_EmptySet
    <2> QED
      BY <2>2, <2>3 DEF EndCollection, CountIsExact, TypeOK
  <1> QED
    BY <1>2, <1>3

LEMMA InitIInv == Init => IInv
  <1> SUFFICES ASSUME Init PROVE IInv
    OBVIOUS
  <1>1. CountIsExact
    BY FS_EmptySet DEF Init, CountIsExact
  <1>2. TypeOK
    BY DEF Init, TypeOK
  <1> QED
    BY <1>1, <1>2, ConstantsAssumption
    DEF Init, IInv, InterruptionPauses, BlockedHasOwner, ResolverIsLive

LEMMA NextIInv == IInv /\ [Next]_vars => IInv'
  <1> SUFFICES ASSUME IInv, [Next]_vars PROVE IInv'
    OBVIOUS
  <1> USE ConstantsAssumption DEF IInv
  <1>1. ASSUME NEW p \in Preparers, PauseForUserHandoff(p) PROVE IInv'
    <2>1. TypeOK'
      BY <1>1 DEF PauseForUserHandoff, PrepareMoves, TypeOK
    <2>2. BlockedHasOwner'
      BY <1>1 DEF PauseForUserHandoff, PrepareMoves, TypeOK, BlockedHasOwner, Resumable
    <2>3. ResolverIsLive'
      BY <1>1 DEF PauseForUserHandoff, PrepareMoves, TypeOK, ResolverIsLive
    <2> QED
      BY <1>1, <2>1, <2>2, <2>3, CountStays DEF PauseForUserHandoff, InterruptionPauses
  <1>2. ASSUME NEW p \in Preparers, ResumePreparation(p) PROVE IInv'
    <2>1. TypeOK'
      BY <1>2 DEF ResumePreparation, PrepareMoves, TypeOK
    <2>2. BlockedHasOwner'
      BY <1>2 DEF ResumePreparation, PrepareMoves, TypeOK, BlockedHasOwner
    <2> QED
      BY <1>2, <2>1, <2>2, CountStays
      DEF ResumePreparation, InterruptionPauses, ResolverIsLive
  <1>3. ASSUME NEW p \in Preparers, ResumeRefused(p) PROVE IInv'
    <2>1. TypeOK'
      BY <1>3 DEF ResumeRefused, CancelUserHandoff, PrepareMoves, TypeOK
    <2> QED
      BY <1>3, <2>1, CountStays
      DEF ResumeRefused, CancelUserHandoff, InterruptionPauses, ResolverIsLive,
          BlockedHasOwner, TypeOK
  <1>4. ASSUME NEW p \in Preparers, PreparationEnds(p) PROVE IInv'
    <2>1. /\ PrepareMoves(p, "preparing", "idle")
          /\ UNCHANGED <<activeCollectionCount, resolveQuiescence, collecting, returning>>
      BY <1>4 DEF PreparationEnds, HandoffReady, PreparationEndsWithoutHandoff,
                  PreparationInterrupted
    <2>2. state' \in {"active", "user-handoff"}
      BY <1>4 DEF PreparationEnds, HandoffReady, PreparationEndsWithoutHandoff,
                  PreparationInterrupted, CancelUserHandoff, ObserveAccess, TypeOK
    <2>3. TypeOK' /\ InterruptionPauses'
      BY <1>4, <2>1, <2>2
      DEF PreparationEnds, HandoffReady, PreparationEndsWithoutHandoff, PreparationInterrupted,
          CancelUserHandoff, ObserveAccess, PrepareMoves, TypeOK, InterruptionPauses
    <2>4. BlockedHasOwner'
      BY <2>2 DEF BlockedHasOwner
    <2>5. ResolverIsLive'
      BY <2>1 DEF PrepareMoves, ResolverIsLive, TypeOK
    <2> QED
      BY <2>1, <2>3, <2>4, <2>5, CountStays
  <1>5. ASSUME NEW c \in Collectors, StartCollection(c) PROVE IInv'
    <2>1. TypeOK'
      BY <1>5 DEF StartCollection, control, TypeOK
    <2> QED
      BY <1>5, <2>1, CountFollows
      DEF StartCollection, control, InterruptionPauses, BlockedHasOwner, ResolverIsLive
  <1>6. ASSUME NEW c \in Collectors, EndCollection(c) PROVE IInv'
    <2>1. CountIsExact' /\ activeCollectionCount > 0
      BY <1>6, CountFollows
    <2>2. TypeOK'
      BY <1>6, <2>1 DEF EndCollection, Resolve, control, TypeOK
    <2>3. \A p \in Preparers :
             \/ prepareAt'[p] = prepareAt[p]
             \/ prepareAt[p] # "preparing" /\ prepareAt'[p] = "resumable"
      BY <1>6 DEF EndCollection, Resolve, ResolverIsLive, TypeOK
    <2>4. BlockedHasOwner'
      <3>1. state' = state /\ resolveQuiescence' = resolveQuiescence
        BY <1>6 DEF EndCollection, control
      <3>2. state = "preparing-handoff" => \E p \in Preparers : prepareAt'[p] = "preparing"
        BY <2>3 DEF BlockedHasOwner
      <3>3. Resumable \subseteq Resumable'
        BY <2>3 DEF Resumable
      <3>4. activeCollectionCount' = 0 /\ resolveQuiescence # NoPreparer => Resumable' # {}
        BY <1>6 DEF EndCollection, Resolve, Resumable, TypeOK
      <3>5. activeCollectionCount' \in Nat
        BY <2>2 DEF TypeOK
      <3> QED
        BY <3>1, <3>2, <3>3, <3>4, <3>5 DEF BlockedHasOwner
    <2>5. ResolverIsLive'
      BY <1>6, <2>3 DEF EndCollection, ResolverIsLive, TypeOK
    <2> QED
      BY <1>6, <2>1, <2>2, <2>4, <2>5 DEF EndCollection, control, InterruptionPauses
  <1>7. ASSUME NEW i \in Interruptions, Interrupted(i) PROVE IInv'
    BY <1>7, CountStays
    DEF Interrupted, ObserveAccess, TypeOK, InterruptionPauses, BlockedHasOwner, ResolverIsLive
  <1>8. ASSUME NEW r \in ReturnCalls, StartReturn(r) \/ ReturnWithoutEffect(r) PROVE IInv'
    <2>1. TypeOK'
      BY <1>8 DEF StartReturn, ReturnWithoutEffect, control, TypeOK
    <2> QED
      BY <1>8, <2>1, CountStays
      DEF StartReturn, ReturnWithoutEffect, control, InterruptionPauses, BlockedHasOwner,
          ResolverIsLive, Resumable
  <1>9. ASSUME NEW r \in ReturnCalls, NEW seen \in Interruptions \cup {NoInterruption},
               FinishReturn(r, seen)
        PROVE  IInv'
    <2>1. TypeOK'
      BY <1>9 DEF FinishReturn, ObserveAccess, control, TypeOK
    <2> QED
      BY <1>9, <2>1, CountStays
      DEF FinishReturn, ObserveAccess, control, InterruptionPauses, BlockedHasOwner,
          ResolverIsLive, Resumable
  <1>10. CASE UNCHANGED vars
    BY <1>10, CountStays
    DEF vars, TypeOK, InterruptionPauses, BlockedHasOwner, ResolverIsLive, Resumable
  <1> QED
    BY <1>1, <1>2, <1>3, <1>4, <1>5, <1>6, <1>7, <1>8, <1>9, <1>10
    DEF Next, PreparationResumes

(* IInv, and with it each of its conjuncts, is an invariant whether or not *)
(* outside events may come between a resolved wait and its resumption.     *)
THEOREM Invariance == Spec => []IInv
  BY InitIInv, NextIInv, PTL DEF Spec

(* The variables keep the types the class declares. *)
THEOREM TypeCorrect == Spec => []TypeOK
  BY Invariance, PTL DEF IInv

(* A recognised interruption keeps the session paused for the user; no     *)
(* outcome of a preparation resumes collection over it.                    *)
THEOREM InterruptionsPause == Spec => []InterruptionPauses
  BY Invariance, PTL DEF IInv

(* A blocked session always has a call that can unblock it. *)
THEOREM BlockedIsOwned == Spec => []BlockedHasOwner
  BY Invariance, PTL DEF IInv
-----------------------------------------------------------------------------
QuietInv == PreparingIsQuiet /\ ResumableIsQuiet

LEMMA NextQuiet ==
    ASSUME PromptWake, IInv, QuietInv, [Next]_vars
    PROVE  QuietInv'
  <1> USE DEF QuietInv
  <1>0. IsFiniteSet(collecting) /\ activeCollectionCount \in Nat
    BY ConstantsAssumption, FS_Subset DEF IInv, TypeOK
  <1>1. ASSUME NEW p \in Preparers, PauseForUserHandoff(p) PROVE QuietInv'
    <2>1. Resumable = {}
      BY <1>1 DEF PauseForUserHandoff, OutsideEvent
    <2>2. activeCollectionCount # 0 => Resumable' = {}
      BY <1>1, <2>1 DEF PauseForUserHandoff, PrepareMoves, Resumable, IInv, TypeOK
    <2> QED
      BY <1>1, <2>2 DEF PauseForUserHandoff, PreparingIsQuiet, ResumableIsQuiet
  <1>2. ASSUME NEW p \in Preparers, PreparationResumes(p) PROVE QuietInv'
    <2>1. p \in Resumable
      BY <1>2 DEF PreparationResumes, ResumePreparation, ResumeRefused, PrepareMoves, Resumable
    <2>2. activeCollectionCount = 0 /\ collecting = {}
      BY <1>0, <2>1, FS_EmptySet DEF ResumableIsQuiet, IInv, CountIsExact
    <2> QED
      BY <1>2, <2>2
      DEF PreparationResumes, ResumePreparation, ResumeRefused, PreparingIsQuiet, ResumableIsQuiet
  <1>3. ASSUME NEW p \in Preparers, PreparationEnds(p) PROVE QuietInv'
    <2>1. state' # "preparing-handoff" /\ activeCollectionCount' = activeCollectionCount
      BY <1>3 DEF PreparationEnds, HandoffReady, PreparationEndsWithoutHandoff,
                  PreparationInterrupted, CancelUserHandoff, ObserveAccess
    <2>2. Resumable' \subseteq Resumable
      BY <1>3 DEF PreparationEnds, HandoffReady, PreparationEndsWithoutHandoff,
                  PreparationInterrupted, PrepareMoves, Resumable, IInv, TypeOK
    <2> QED
      BY <2>1, <2>2 DEF PreparingIsQuiet, ResumableIsQuiet
  <1>4. ASSUME NEW c \in Collectors, StartCollection(c) PROVE QuietInv'
    <2>1. Resumable = {} /\ prepareAt' = prepareAt /\ state' = "active"
      BY <1>4 DEF StartCollection, OutsideEvent, control
    <2>2. Resumable' = {}
      BY <2>1 DEF Resumable
    <2> QED
      BY <2>1, <2>2 DEF PreparingIsQuiet, ResumableIsQuiet
  <1>5. ASSUME NEW c \in Collectors, EndCollection(c) PROVE QuietInv'
    <2>1. Resumable = {} /\ state' = state /\ collecting' \subseteq collecting
      BY <1>5 DEF EndCollection, OutsideEvent, control
    <2>2. activeCollectionCount' # 0 => Resumable' = Resumable
      BY <1>5 DEF EndCollection, Resumable
    <2> QED
      BY <2>1, <2>2 DEF PreparingIsQuiet, ResumableIsQuiet
  <1>6. ASSUME NEW i \in Interruptions, Interrupted(i) PROVE QuietInv'
    BY <1>6 DEF Interrupted, ObserveAccess, PreparingIsQuiet, ResumableIsQuiet, Resumable
  <1>7. ASSUME NEW r \in ReturnCalls,
               \/ StartReturn(r)
               \/ ReturnWithoutEffect(r)
               \/ \E seen \in Interruptions \cup {NoInterruption} : FinishReturn(r, seen)
        PROVE  QuietInv'
    BY <1>7
    DEF StartReturn, ReturnWithoutEffect, FinishReturn, ObserveAccess, control,
        PreparingIsQuiet, ResumableIsQuiet, Resumable
  <1>8. CASE UNCHANGED vars
    BY <1>8 DEF vars, PreparingIsQuiet, ResumableIsQuiet, Resumable
  <1> QED
    BY <1>1, <1>2, <1>3, <1>4, <1>5, <1>6, <1>7, <1>8 DEF Next

(* A login interface is never prepared while a collection reads a page, if *)
(* a call that waited for the collections resumes before outside events.   *)
THEOREM PreparationExcludesCollections ==
    ASSUME PromptWake
    PROVE  Spec => []PreparingIsQuiet
  <1>1. Init => QuietInv
    BY DEF Init, QuietInv, PreparingIsQuiet, ResumableIsQuiet, Resumable
  <1>2. IInv /\ QuietInv /\ [Next]_vars => QuietInv'
    BY NextQuiet
  <1>3. QuietInv => PreparingIsQuiet
    BY DEF QuietInv
  <1> QED
    BY <1>1, <1>2, <1>3, Invariance, PTL DEF Spec

-----------------------------------------------------------------------------
LEMMA StepRefines ==
    ASSUME IInv, [Next]_vars
    PROVE  [Authority!Next]_(Authority!vars)
  <1> USE DEF Authority!vars
  <1>1. ASSUME NEW p \in Preparers, PauseForUserHandoff(p)
        PROVE  UNCHANGED Authority!vars
    BY <1>1 DEF PauseForUserHandoff
  <1>2. ASSUME NEW p \in Preparers, PreparationResumes(p)
        PROVE  UNCHANGED Authority!vars
    BY <1>2 DEF PreparationResumes, ResumePreparation, ResumeRefused, CancelUserHandoff
  <1>3. ASSUME NEW p \in Preparers, HandoffReady(p)
        PROVE  Authority!HandOver \/ UNCHANGED Authority!vars
    <2>1. CASE state = "preparing-handoff"
      <3>1. interruption = NoInterruption
        BY <2>1 DEF IInv, InterruptionPauses
      <3> QED
        BY <1>3, <2>1, <3>1 DEF HandoffReady, Authority!HandOver
    <2>2. CASE state # "preparing-handoff"
      BY <1>3, <2>2 DEF HandoffReady, CancelUserHandoff
    <2> QED
      BY <2>1, <2>2
  <1>4. ASSUME NEW p \in Preparers, PreparationEndsWithoutHandoff(p)
        PROVE  UNCHANGED Authority!vars
    BY <1>4 DEF PreparationEndsWithoutHandoff, CancelUserHandoff
  <1>5. ASSUME NEW p \in Preparers, NEW i \in Interruptions, PreparationInterrupted(p, i)
        PROVE  Authority!Interrupt(i)
    BY <1>5 DEF PreparationInterrupted, ObserveAccess, Authority!Interrupt
  <1>6. ASSUME NEW c \in Collectors, StartCollection(c) \/ EndCollection(c)
        PROVE  UNCHANGED Authority!vars
    BY <1>6 DEF StartCollection, EndCollection, control
  <1>7. ASSUME NEW i \in Interruptions, Interrupted(i)
        PROVE  Authority!Interrupt(i)
    BY <1>7 DEF Interrupted, ObserveAccess, Authority!Interrupt
  <1>8. ASSUME NEW r \in ReturnCalls, StartReturn(r)
        PROVE  Authority!RequestReturn(r)
    BY <1>8 DEF StartReturn, control, Authority!RequestReturn
  <1>9. ASSUME NEW r \in ReturnCalls, ReturnWithoutEffect(r)
        PROVE  Authority!Withdraw(r)
    BY <1>9 DEF ReturnWithoutEffect, control, Authority!Withdraw
  <1>10. ASSUME NEW r \in ReturnCalls, NEW seen \in Interruptions \cup {NoInterruption},
                FinishReturn(r, seen)
         PROVE  Authority!Return(r, seen) \/ Authority!Withdraw(r)
    BY <1>10
    DEF FinishReturn, ObserveAccess, control, Authority!Return, Authority!Withdraw
  <1>11. CASE UNCHANGED vars
    BY <1>11 DEF vars
  <1> QED
    BY <1>1, <1>2, <1>3, <1>4, <1>5, <1>6, <1>7, <1>8, <1>9, <1>10, <1>11
    DEF Next, PreparationEnds, Authority!Next

(* The control protocol implements BrowserAuthority: the user gets the     *)
(* browser by a ready login interface or a recognised interruption, and    *)
(* only a call that reports the user's return takes it away again.         *)
THEOREM Refinement == Spec => RefinesAuthority
  <1>1. Init => Authority!Init
    BY DEF Init, Authority!Init
  <1>2. IInv /\ [Next]_vars => [Authority!Next]_(Authority!vars)
    BY StepRefines
  <1> QED
    BY <1>1, <1>2, Invariance, PTL DEF Spec, RefinesAuthority, Authority!Spec

-----------------------------------------------------------------------------
(* A step of HandoffOwnership is one of HandoffControl. *)
LEMMA OwnershipKeepsIInv == IInv /\ [HNext]_hvars => IInv'
  BY NextIInv DEF HNext, hvars, vars

(* A preparation is in charge of the pause: it waits for the collections   *)
(* in a session that is quiescing, or prepares in one that is preparing.   *)
InCharge(p) ==
    \/ state = "quiescing" /\ prepareAt[p] \in {"waiting", "resumable"}
    \/ state = "preparing-handoff" /\ prepareAt[p] = "preparing"

HolderInCharge == holder # NoPreparer => holder \in Preparers /\ InCharge(holder)

(* A preparation that takes the pause is in charge of it. *)
LEMMA TakingIsInCharge ==
    ASSUME IInv, Next, NEW p \in Preparers, TakesPause(p)
    PROVE  InCharge(p)'
  <1>1. TypeOK
    BY DEF IInv
  <1>2. ASSUME NEW q \in Preparers, PauseForUserHandoff(q) PROVE InCharge(p)'
    <2>1. /\ state' = "quiescing"
          /\ prepareAt'[q] \in {"waiting", "resumable"}
          /\ \A r \in Preparers \ {q} : prepareAt'[r] = prepareAt[r]
          /\ prepareAt[q] = "idle"
      BY <1>1, <1>2 DEF PauseForUserHandoff, PrepareMoves, TypeOK
    <2> QED
      BY <2>1 DEF TakesPause, InCharge
  <1>3. ASSUME NEW q \in Preparers, ResumePreparation(q) PROVE InCharge(p)'
    <2>1. /\ state' = "preparing-handoff"
          /\ prepareAt'[q] = "preparing"
          /\ \A r \in Preparers \ {q} : prepareAt'[r] = prepareAt[r]
      BY <1>1, <1>3 DEF ResumePreparation, PrepareMoves, TypeOK
    <2> QED
      BY <2>1 DEF TakesPause, InCharge
  <1>4. ASSUME NEW q \in Preparers, ResumeRefused(q) \/ PreparationEnds(q) PROVE FALSE
    <2>1. prepareAt[q] # "idle" /\ prepareAt' = [prepareAt EXCEPT ![q] = "idle"]
      BY <1>4
      DEF ResumeRefused, PreparationEnds, HandoffReady, PreparationEndsWithoutHandoff,
          PreparationInterrupted, PrepareMoves
    <2> QED
      BY <1>1, <2>1 DEF TakesPause, TypeOK
  <1>5. ASSUME NEW c \in Collectors, EndCollection(c) PROVE FALSE
    <2>1. \/ prepareAt' = prepareAt
          \/ /\ resolveQuiescence \in Preparers
             /\ prepareAt[resolveQuiescence] \in {"waiting", "resumable"}
             /\ prepareAt' = [prepareAt EXCEPT ![resolveQuiescence] = "resumable"]
      BY <1>1, <1>5 DEF EndCollection, Resolve, TypeOK, IInv, ResolverIsLive
    <2> QED
      BY <1>1, <2>1 DEF TakesPause, TypeOK
  <1>6. ASSUME UNCHANGED prepareAt PROVE FALSE
    BY <1>6 DEF TakesPause
  <1>7. ASSUME NEW c \in Collectors, StartCollection(c) PROVE UNCHANGED prepareAt
    BY <1>7 DEF StartCollection
  <1>8. ASSUME NEW i \in Interruptions, Interrupted(i) PROVE UNCHANGED prepareAt
    BY <1>8 DEF Interrupted
  <1>9. ASSUME NEW r \in ReturnCalls,
               \/ StartReturn(r)
               \/ ReturnWithoutEffect(r)
               \/ \E seen \in Interruptions \cup {NoInterruption} : FinishReturn(r, seen)
        PROVE  UNCHANGED prepareAt
    BY <1>9 DEF StartReturn, ReturnWithoutEffect, FinishReturn
  <1> QED
    BY <1>2, <1>3, <1>4, <1>5, <1>6, <1>7, <1>8, <1>9 DEF Next, PreparationResumes

(* The pause of the only preparation outlives a step that neither takes it *)
(* over nor ends it.                                                       *)
LEMMA PauseOutlives ==
    ASSUME IInv, Next, \A p, q \in Preparers : p = q,
           NEW h \in Preparers, holder = h, InCharge(h),
           \A p \in Preparers : ~TakesPause(p), ~HolderStops
    PROVE  InCharge(h)'
  <1>1. TypeOK
    BY DEF IInv
  <1>2. state' # "user-handoff" /\ prepareAt'[h] # "idle"
    BY ConstantsAssumption DEF HolderStops
  <1>3. state \in {"quiescing", "preparing-handoff"}
    BY DEF InCharge
  <1>4. ASSUME NEW p \in Preparers,
               PauseForUserHandoff(p) \/ ResumePreparation(p)
        PROVE  FALSE
    <2>1. prepareAt[p] = "resumable" /\ prepareAt' = [prepareAt EXCEPT ![p] = "preparing"]
      BY <1>3, <1>4 DEF PauseForUserHandoff, ResumePreparation, PrepareMoves
    <2> QED
      BY <1>1, <2>1 DEF TakesPause, TypeOK
  <1>5. ASSUME NEW p \in Preparers, ResumeRefused(p) \/ PreparationEnds(p) PROVE FALSE
    <2>1. prepareAt' = [prepareAt EXCEPT ![p] = "idle"]
      BY <1>5
      DEF ResumeRefused, PreparationEnds, HandoffReady, PreparationEndsWithoutHandoff,
          PreparationInterrupted, PrepareMoves
    <2> QED
      BY <1>1, <1>2, <2>1 DEF TypeOK
  <1>6. ASSUME NEW c \in Collectors, EndCollection(c) PROVE InCharge(h)'
    <2>1. state' = state
      BY <1>6 DEF EndCollection, control
    <2>2. \/ prepareAt' = prepareAt
          \/ /\ resolveQuiescence \in Preparers
             /\ prepareAt[resolveQuiescence] \in {"waiting", "resumable"}
             /\ prepareAt' = [prepareAt EXCEPT ![resolveQuiescence] = "resumable"]
      BY <1>1, <1>6 DEF EndCollection, Resolve, TypeOK, IInv, ResolverIsLive
    <2>3. \/ prepareAt'[h] = prepareAt[h]
          \/ prepareAt[h] \in {"waiting", "resumable"} /\ prepareAt'[h] = "resumable"
      BY <1>1, <2>2 DEF TypeOK
    <2> QED
      BY <1>1, <2>1, <2>3 DEF InCharge
  <1>7. ASSUME UNCHANGED <<state, prepareAt>> PROVE InCharge(h)'
    BY <1>1, <1>7 DEF InCharge
  <1>8. ASSUME NEW c \in Collectors, StartCollection(c) PROVE UNCHANGED <<state, prepareAt>>
    BY <1>8 DEF StartCollection, control
  <1>9. ASSUME NEW i \in Interruptions, Interrupted(i) PROVE FALSE
    BY <1>2, <1>9 DEF Interrupted, ObserveAccess
  <1>10. ASSUME NEW r \in ReturnCalls,
                \/ StartReturn(r)
                \/ ReturnWithoutEffect(r)
                \/ \E seen \in Interruptions \cup {NoInterruption} : FinishReturn(r, seen)
         PROVE  UNCHANGED <<state, prepareAt>>
    BY <1>2, <1>3, <1>10
    DEF StartReturn, ReturnWithoutEffect, FinishReturn, ObserveAccess, control
  <1> QED
    BY <1>1, <1>4, <1>5, <1>6, <1>7, <1>8, <1>9, <1>10 DEF Next, PreparationResumes

(* With one browser_prepare_login call at a time its pause holds: no       *)
(* collection that ends, return of the user or end of a wait resumes agent *)
(* activity under it.  The hypothesis is needed: a second call that is     *)
(* left over from an earlier pause would end this one when it fails.       *)
THEOREM SinglePreparationHoldsItsPause ==
    ASSUME \A p, q \in Preparers : p = q
    PROVE  HSpec => []PauseHeld
  <1>1. HInit => IInv /\ HolderInCharge
    BY InitIInv DEF HInit, HolderInCharge
  <1>2. ASSUME IInv, HolderInCharge, HNext PROVE HolderInCharge'
    <2>1. CASE \E p \in Preparers : TakesPause(p) /\ holder' = p
      <3>1. PICK p \in Preparers : TakesPause(p) /\ holder' = p
        BY <2>1
      <3>2. InCharge(p)'
        BY <1>2, <3>1, TakingIsInCharge DEF HNext
      <3> QED
        BY <3>1, <3>2 DEF HolderInCharge, InCharge
    <2>2. CASE /\ \A p \in Preparers : ~TakesPause(p)
               /\ holder' = IF HolderStops THEN NoPreparer ELSE holder
      <3> SUFFICES ASSUME holder' # NoPreparer PROVE holder' \in Preparers /\ InCharge(holder)'
        BY DEF HolderInCharge
      <3>1. holder' = holder /\ holder # NoPreparer /\ ~HolderStops
        BY <2>2
      <3>2. PICK h \in Preparers : holder = h /\ InCharge(h)
        BY <1>2, <3>1 DEF HolderInCharge
      <3>3. InCharge(h)'
        BY <1>2, <2>2, <3>1, <3>2, PauseOutlives DEF HNext
      <3> QED
        BY <3>1, <3>2, <3>3 DEF InCharge
    <2> QED
      BY <1>2, <2>1, <2>2 DEF HNext, TrackHolder
  <1>3. IInv /\ HolderInCharge /\ [HNext]_hvars => (IInv /\ HolderInCharge)'
    <2>1. HolderInCharge /\ UNCHANGED hvars => HolderInCharge'
      BY DEF HolderInCharge, InCharge, hvars, vars
    <2> QED
      BY <1>2, <2>1, OwnershipKeepsIInv
  <1>4. HolderInCharge => PauseHeld
    BY DEF HolderInCharge, InCharge, PauseHeld
  <1> QED
    BY <1>1, <1>3, <1>4, PTL DEF HSpec
=============================================================================
