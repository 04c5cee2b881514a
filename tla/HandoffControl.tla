--------------------------- MODULE HandoffControl ---------------------------
(***************************************************************************)
(* BackgroundCollectionControl and the callers that share it: concurrent   *)
(* browser_prepare_login calls, background collections (the passive        *)
(* collector and engagement syncs), browser_snapshot calls that report the *)
(* user's return, and the access interruptions that page reads and         *)
(* navigation responses bring.                                             *)
(*                                                                         *)
(* Every caller is a coroutine of one JavaScript thread, so an action is   *)
(* what runs between two suspensions.  A future that is resolved makes the *)
(* coroutine waiting for it runnable; it resumes in a step of its own.     *)
(* PromptWake tells whether events from outside the process (answers of    *)
(* the browser, HTTP requests, timers) may be handled before it resumes.   *)
(***************************************************************************)
EXTENDS Integers, FiniteSets

CONSTANTS
    Preparers,      \* outstanding calls of browser_prepare_login
    Collectors,     \* background collections that may run at once
    ReturnCalls,    \* outstanding snapshots with userReturnedControl=true
    Interruptions,  \* access interruptions an adapter can recognise
    NoInterruption, \* the null of #interruption
    NoPreparer,     \* the null of #resolveQuiescence
    PromptWake      \* a runnable coroutine resumes before outside events

ASSUME ConstantsAssumption ==
    /\ IsFiniteSet(Collectors)
    /\ NoInterruption \notin Interruptions
    /\ NoPreparer \notin Preparers
    /\ PromptWake \in BOOLEAN

VARIABLES
    state,                  \* #state
    activeCollectionCount,  \* #activeCollectionCount
    resolveQuiescence,      \* the call whose future #resolveQuiescence resolves
    interruption,           \* #interruption
    prepareAt,              \* where each browser_prepare_login call stands
    collecting,             \* the collections inside runCollection
    returning               \* the return snapshots that are being captured

control == <<state, interruption>>
vars == <<state, activeCollectionCount, resolveQuiescence, interruption,
          prepareAt, collecting, returning>>

States == {"active", "quiescing", "preparing-handoff", "user-handoff"}

(* "waiting" for the quiescence future, "resumable" once it is resolved,   *)
(* "preparing" while it looks for or opens a login page.                   *)
PreparePoints == {"idle", "waiting", "resumable", "preparing"}

Init ==
    /\ state = "active"
    /\ activeCollectionCount = 0
    /\ resolveQuiescence = NoPreparer
    /\ interruption = NoInterruption
    /\ prepareAt = [p \in Preparers |-> "idle"]
    /\ collecting = {}
    /\ returning = {}

(***************************************************************************)
(* The methods of BackgroundCollectionControl the callers share.           *)
(***************************************************************************)
Resumable == {p \in Preparers : prepareAt[p] = "resumable"}

(* An event from outside is delivered. *)
OutsideEvent == PromptWake => Resumable = {}

ObserveAccess(i) ==
    /\ state' = "user-handoff"
    /\ interruption' = i

(* Mutant: the cancellation does not look at the state first. *)
CancelFromAnyState ==
    /\ state' = "active"
    /\ UNCHANGED interruption

CancelUserHandoff ==
    /\ state' = IF state \in {"quiescing", "preparing-handoff"} THEN "active" ELSE state
    /\ UNCHANGED interruption

PrepareMoves(p, from, to) ==
    /\ prepareAt[p] = from
    /\ prepareAt' = [prepareAt EXCEPT ![p] = to]

(***************************************************************************)
(* browser_prepare_login.                                                  *)
(***************************************************************************)
(* Mutant: the future is never resolved at once. *)
PauseAlwaysWaits(p) ==
    /\ OutsideEvent
    /\ state = "active"
    /\ state' = "quiescing"
    /\ PrepareMoves(p, "idle", "waiting")
    /\ resolveQuiescence' = p
    /\ UNCHANGED <<activeCollectionCount, interruption, collecting, returning>>

PauseForUserHandoff(p) ==
    /\ OutsideEvent
    /\ state = "active"
    /\ state' = "quiescing"
    /\ IF activeCollectionCount = 0
       THEN PrepareMoves(p, "idle", "resumable") /\ UNCHANGED resolveQuiescence
       ELSE PrepareMoves(p, "idle", "waiting") /\ resolveQuiescence' = p
    /\ UNCHANGED <<activeCollectionCount, interruption, collecting, returning>>

(* The wait returns.  Only a pause by another preparation or by the user   *)
(* is an error; a pause that was lifted meanwhile is taken again.          *)
ResumePreparation(p) ==
    /\ state \in {"quiescing", "active"}
    /\ PrepareMoves(p, "resumable", "preparing")
    /\ state' = "preparing-handoff"
    /\ resolveQuiescence' = NoPreparer
    /\ UNCHANGED <<activeCollectionCount, interruption, collecting, returning>>

ResumeRefused(p) ==
    /\ state \notin {"quiescing", "active"}
    /\ PrepareMoves(p, "resumable", "idle")
    /\ CancelUserHandoff
    /\ resolveQuiescence' = NoPreparer
    /\ UNCHANGED <<activeCollectionCount, collecting, returning>>

(* A login interface is ready.  completeUserHandoff throws when the state  *)
(* is no longer preparing-handoff, and the catch block cancels.            *)
HandoffReady(p) ==
    /\ OutsideEvent
    /\ PrepareMoves(p, "preparing", "idle")
    /\ \/ /\ state = "preparing-handoff"
          /\ state' = "user-handoff"
          /\ UNCHANGED interruption
       \/ /\ state # "preparing-handoff"
          /\ CancelUserHandoff
    /\ UNCHANGED <<activeCollectionCount, resolveQuiescence, collecting, returning>>

(* Authentication was observed, or the preparation failed. *)
PreparationEndsWithoutHandoff(p) ==
    /\ OutsideEvent
    /\ PrepareMoves(p, "preparing", "idle")
    /\ CancelUserHandoff
    /\ UNCHANGED <<activeCollectionCount, resolveQuiescence, collecting, returning>>

(* A page the preparation reads shows an interruption: it is observed, the *)
(* assertion after it throws, and the cancellation finds user-handoff.     *)
PreparationInterrupted(p, i) ==
    /\ OutsideEvent
    /\ PrepareMoves(p, "preparing", "idle")
    /\ ObserveAccess(i)
    /\ UNCHANGED <<activeCollectionCount, resolveQuiescence, collecting, returning>>

(***************************************************************************)
(* runCollection, as the passive collector and engagement syncs call it.   *)
(***************************************************************************)
(* Mutant: the collection is not counted. *)
StartUncounted(c) ==
    /\ OutsideEvent
    /\ c \notin collecting
    /\ state = "active"
    /\ collecting' = collecting \cup {c}
    /\ UNCHANGED <<control, activeCollectionCount, resolveQuiescence, prepareAt, returning>>

StartCollection(c) ==
    /\ OutsideEvent
    /\ c \notin collecting
    /\ state = "active"
    /\ collecting' = collecting \cup {c}
    /\ activeCollectionCount' = activeCollectionCount + 1
    /\ UNCHANGED <<control, resolveQuiescence, prepareAt, returning>>

Resolve(preparer) == [prepareAt EXCEPT ![preparer] = "resumable"]

(* Mutants: nobody is woken; a collection that throws stays counted.       *)
EndWithoutWake(c) ==
    /\ OutsideEvent
    /\ c \in collecting
    /\ collecting' = collecting \ {c}
    /\ activeCollectionCount' = activeCollectionCount - 1
    /\ UNCHANGED <<control, resolveQuiescence, prepareAt, returning>>

ThrowKeepsCount(c) ==
    /\ OutsideEvent
    /\ c \in collecting
    /\ collecting' = collecting \ {c}
    /\ UNCHANGED <<control, activeCollectionCount, resolveQuiescence, prepareAt, returning>>

(* The collection returned or threw: the finally block. *)
EndCollection(c) ==
    /\ OutsideEvent
    /\ c \in collecting
    /\ collecting' = collecting \ {c}
    /\ activeCollectionCount' = activeCollectionCount - 1
    /\ prepareAt' =
          IF activeCollectionCount' = 0 /\ resolveQuiescence # NoPreparer
          THEN Resolve(resolveQuiescence)
          ELSE prepareAt
    /\ UNCHANGED <<control, resolveQuiescence, returning>>

(***************************************************************************)
(* An interruption that a navigation response, a collection's page read or *)
(* the read of any tool call in flight brings.                             *)
(***************************************************************************)
Interrupted(i) ==
    /\ OutsideEvent
    /\ ObserveAccess(i)
    /\ UNCHANGED <<activeCollectionCount, resolveQuiescence, prepareAt, collecting, returning>>

(***************************************************************************)
(* browser_snapshot with userReturnedControl=true.                         *)
(***************************************************************************)
StartReturn(r) ==
    /\ OutsideEvent
    /\ r \notin returning
    /\ state \in {"active", "user-handoff"}
    /\ returning' = returning \cup {r}
    /\ UNCHANGED <<control, activeCollectionCount, resolveQuiescence, prepareAt, collecting>>

(* Mutants: control returns from any state; the interruption is kept. *)
ReturnFromAnyState(r, seen) ==
    /\ OutsideEvent
    /\ r \in returning
    /\ returning' = returning \ {r}
    /\ IF seen # NoInterruption
       THEN ObserveAccess(seen)
       ELSE state' = "active" /\ interruption' = NoInterruption
    /\ UNCHANGED <<activeCollectionCount, resolveQuiescence, prepareAt, collecting>>

ReturnKeepsInterruption(r, seen) ==
    /\ OutsideEvent
    /\ r \in returning
    /\ returning' = returning \ {r}
    /\ IF seen # NoInterruption
       THEN ObserveAccess(seen)
       ELSE /\ state' = IF state = "user-handoff" THEN "active" ELSE state
            /\ UNCHANGED interruption
    /\ UNCHANGED <<activeCollectionCount, resolveQuiescence, prepareAt, collecting>>

(* The capture of a platform page answers: control returns if the state is *)
(* user-handoff by now, then the captured page itself is assessed.         *)
FinishReturn(r, seen) ==
    /\ OutsideEvent
    /\ r \in returning
    /\ returning' = returning \ {r}
    /\ IF seen # NoInterruption
       THEN ObserveAccess(seen)
       ELSE IF state = "user-handoff"
            THEN state' = "active" /\ interruption' = NoInterruption
            ELSE UNCHANGED control
    /\ UNCHANGED <<activeCollectionCount, resolveQuiescence, prepareAt, collecting>>

(* The capture fails, or shows a page of no platform. *)
ReturnWithoutEffect(r) ==
    /\ OutsideEvent
    /\ r \in returning
    /\ returning' = returning \ {r}
    /\ UNCHANGED <<control, activeCollectionCount, resolveQuiescence, prepareAt, collecting>>

PreparationResumes(p) == ResumePreparation(p) \/ ResumeRefused(p)

PreparationEnds(p) ==
    \/ HandoffReady(p)
    \/ PreparationEndsWithoutHandoff(p)
    \/ \E i \in Interruptions : PreparationInterrupted(p, i)

Next ==
    \/ \E p \in Preparers :
          PauseForUserHandoff(p) \/ PreparationResumes(p) \/ PreparationEnds(p)
    \/ \E c \in Collectors : StartCollection(c) \/ EndCollection(c)
    \/ \E i \in Interruptions : Interrupted(i)
    \/ \E r \in ReturnCalls :
          \/ StartReturn(r)
          \/ ReturnWithoutEffect(r)
          \/ \E seen \in Interruptions \cup {NoInterruption} : FinishReturn(r, seen)

(***************************************************************************)
(* A runnable coroutine is resumed.  Page reads answer, fail or run into a *)
(* limit, so a collection and a preparation end (the preparation observes  *)
(* each candidate a bounded number of times).  Nothing else is owed: no    *)
(* call has to come, no interruption, and the user need not return.        *)
(***************************************************************************)
Fairness ==
    /\ \A p \in Preparers : WF_vars(PreparationResumes(p)) /\ WF_vars(PreparationEnds(p))
    /\ \A c \in Collectors : WF_vars(EndCollection(c))

Spec == Init /\ [][Next]_vars /\ Fairness

-----------------------------------------------------------------------------
(* The variables range over what the class declares. *)
TypeOK ==
    /\ state \in States
    /\ activeCollectionCount \in Nat
    /\ resolveQuiescence \in Preparers \cup {NoPreparer}
    /\ interruption \in Interruptions \cup {NoInterruption}
    /\ prepareAt \in [Preparers -> PreparePoints]
    /\ collecting \in SUBSET Collectors
    /\ returning \in SUBSET ReturnCalls

(* A retained interruption means the session is paused for the user: no    *)
(* late outcome of a preparation (failure, authentication, completion, a   *)
(* wait that ends) resumes collection over a recognised interruption.      *)
InterruptionPauses == interruption # NoInterruption => state = "user-handoff"

(* A session that is blocked for a preparation has someone to unblock it:  *)
(* in quiescing a waiting call whose future the last running collection    *)
(* will resolve, or that is resolved already; in preparing-handoff a call  *)
(* that is preparing.  Concurrent preparations overwrite and clear         *)
(* #resolveQuiescence, and yet leave one of them in charge.                *)
BlockedHasOwner ==
    /\ state = "quiescing" =>
          \/ Resumable # {}
          \/ resolveQuiescence # NoPreparer /\ activeCollectionCount > 0
    /\ state = "preparing-handoff" => \E p \in Preparers : prepareAt[p] = "preparing"

(* While a login interface is being prepared no collection reads a page:   *)
(* preparation waits for the collections in flight, also when the pause it *)
(* waited under was lifted and taken again.                                *)
PreparingIsQuiet == state = "preparing-handoff" => collecting = {}

(* A pause taken for a preparation ends: the session comes back to the     *)
(* agent or to the user, with any number of preparations in each other's   *)
(* way.                                                                    *)
BlockedEnds ==
    state \in {"quiescing", "preparing-handoff"} ~> state \in {"active", "user-handoff"}

(* Every preparation that waits for collections to finish gets on. *)
PreparationGetsOn ==
    \A p \in Preparers : prepareAt[p] = "waiting" ~> prepareAt[p] # "waiting"

-----------------------------------------------------------------------------
(* Seen from outside, the protocol is BrowserAuthority. *)
Authority == INSTANCE BrowserAuthority WITH
    authority <- IF state = "user-handoff" THEN "user" ELSE "agent"

(* Control passes to the user and back exactly as BrowserAuthority allows. *)
RefinesAuthority == Authority!Spec

-----------------------------------------------------------------------------
(* The inductive invariant behind the safety properties. *)

CountIsExact == activeCollectionCount = Cardinality(collecting)

(* The resolver belongs to a call that still waits or is about to resume. *)
ResolverIsLive ==
    resolveQuiescence # NoPreparer => prepareAt[resolveQuiescence] \in {"waiting", "resumable"}

IInv ==
    /\ TypeOK
    /\ InterruptionPauses
    /\ BlockedHasOwner
    /\ CountIsExact
    /\ ResolverIsLive

(* Under PromptWake nothing starts between the last collection's end and   *)
(* the preparation that waited for it.                                     *)
ResumableIsQuiet == Resumable # {} => activeCollectionCount = 0
=============================================================================
