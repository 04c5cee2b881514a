-------------------------- MODULE AccessReporting ---------------------------
(***************************************************************************)
(* The way of a platform-access observation from the page to the history:  *)
(* PlatformAccessObserver keeps the pending observations, newest per       *)
(* platform and URL; PlatformAccessObservationReporter puts a copy of them *)
(* to the Workspace Service one at a time and acknowledges each; the       *)
(* service reconciles it with the history, to which an agent may post too. *)
(* Requests fail, are applied without an answer reaching the reporter, or  *)
(* are applied late; the browser and the whole process restart.            *)
(*                                                                         *)
(* The pending list is in the order of observation, so it is a set of      *)
(* observations numbered by id; the id also stands for object identity.    *)
(***************************************************************************)
EXTENDS Integers, Sequences

CONSTANTS
    Sites,              \* pairs of a platform and a source URL
    Assessments,        \* authentication or interruption, with its evidence
    NoObservation,
    MaxClock,           \* bound on the clock, in milliseconds that matter
    MaxObservations,    \* bound on what the browser observes
    MaxFailures,        \* bound on requests that fail
    MaxRestarts,        \* bound on restarts of the browser or the process
    MaxPosts            \* bound on observations an agent posts

ASSUME BoundsAssumption ==
    /\ MaxClock \in Nat
    /\ MaxObservations \in Nat
    /\ MaxFailures \in Nat
    /\ MaxRestarts \in Nat
    /\ MaxPosts \in Nat

Times == 0 .. MaxClock

Observations ==
    [id : 1 .. MaxObservations, site : Sites, assessment : Assessments, at : Times]

ASSUME NoObservationAssumption == NoObservation \notin Observations

VARIABLES
    clock,      \* Date.now()
    observed,   \* how many observations the browser has made
    pending,    \* #observations of the current observer
    generation, \* which observer and browser context is the current one
    round,      \* the rest of the copy the reporter works through
    current,    \* the observation whose request is in progress
    answered,   \* its request was applied, the answer has not been read
    late,       \* requests given up that the service may still apply
    failures,
    posts,
    rows        \* the table platform_access_observations

browser == <<pending, generation>>
reporter == <<round, current, answered>>
vars == <<clock, observed, browser, reporter, late, failures, posts, rows>>

Init ==
    /\ clock = 0
    /\ observed = 0
    /\ pending = {}
    /\ generation = 0
    /\ round = {}
    /\ current = NoObservation
    /\ answered = FALSE
    /\ late = {}
    /\ failures = 0
    /\ posts = 0
    /\ rows = <<>>

Tick ==
    /\ clock < MaxClock
    /\ clock' = clock + 1
    /\ UNCHANGED <<observed, browser, reporter, late, failures, posts, rows>>

(***************************************************************************)
(* PlatformAccessObserver.                                                 *)
(***************************************************************************)
OtherSites(o) == {p \in pending : p.site # o.site}

(* A page read or a navigation response is conclusive; the observation     *)
(* replaces the pending one of its site.                                   *)
Record(s, a) ==
    /\ observed < MaxObservations
    /\ observed' = observed + 1
    /\ LET o == [id |-> observed + 1, site |-> s, assessment |-> a, at |-> clock]
       IN  pending' = OtherSites(o) \cup {o}
    /\ UNCHANGED <<clock, generation, reporter, late, failures, posts, rows>>

(* Mutants: the acknowledgement forgets whatever is pending for the site;  *)
(* nothing.                                                                *)
AcknowledgeSite(o) == pending' = OtherSites(o)
AcknowledgeNothing(o) == UNCHANGED pending

Acknowledge(o) == pending' = pending \ {o}

(***************************************************************************)
(* PlatformAccessObservationReporter.                                      *)
(***************************************************************************)
IsOldest(o, S) == o \in S /\ \A p \in S : o.id <= p.id

(* The reporter turns to the next observation of the copy, or is done. *)
SendNextOf(S) ==
    /\ answered' = FALSE
    /\ \/ S = {} /\ current' = NoObservation /\ round' = {}
       \/ \E o \in S : IsOldest(o, S) /\ current' = o /\ round' = S \ {o}

(* Every five seconds; a round over an empty list does nothing. *)
StartRound ==
    /\ current = NoObservation
    /\ SendNextOf(pending)
    /\ UNCHANGED <<clock, observed, browser, late, failures, posts, rows>>

ReadAnswer ==
    /\ answered
    /\ Acknowledge(current)
    /\ SendNextOf(round)
    /\ UNCHANGED <<clock, observed, generation, late, failures, posts, rows>>

(* The reporter stops waiting; the request may still reach the service. *)
AbandonRequest ==
    /\ round' = {}
    /\ current' = NoObservation
    /\ answered' = FALSE
    /\ late' \in {late} \cup {late \cup {o} : o \in {current} \ {NoObservation}}

(* Connection lost, request rejected or an unreadable answer: the error    *)
(* ends the round, and everything pending waits for the next one.          *)
RoundFails ==
    /\ failures < MaxFailures
    /\ failures' = failures + 1
    /\ current # NoObservation
    /\ AbandonRequest
    /\ UNCHANGED <<clock, observed, browser, posts, rows>>

(* The window closes and a new context gets a new observer; the reporter   *)
(* is not interrupted.                                                     *)
ReplaceBrowser ==
    /\ generation < MaxRestarts
    /\ generation' = generation + 1
    /\ pending' = {}
    /\ UNCHANGED <<clock, observed, reporter, late, failures, posts, rows>>

RestartProcess ==
    /\ generation < MaxRestarts
    /\ generation' = generation + 1
    /\ pending' = {}
    /\ AbandonRequest
    /\ UNCHANGED <<clock, observed, failures, posts, rows>>

(***************************************************************************)
(* PlatformAccessRepository.                                               *)
(***************************************************************************)
RowsOf(s) == {i \in DOMAIN rows : rows[i].site = s}

(* Ordered by lastObservedAt, then by id, row i of the site comes last. *)
IsLatest(i, s) ==
    /\ i \in RowsOf(s)
    /\ \A j \in RowsOf(s) :
          \/ rows[j].lastObservedAt < rows[i].lastObservedAt
          \/ rows[j].lastObservedAt = rows[i].lastObservedAt /\ j <= i

Insert(o) ==
    rows' = Append(rows, [site |-> o.site, assessment |-> o.assessment,
                          observedAt |-> o.at, lastObservedAt |-> o.at])

Refresh(i, o) == rows' = [rows EXCEPT ![i].lastObservedAt = o.at]

(* Mutants: an old observation is not recognised as old; every newer one   *)
(* is inserted; none but the first is.                                     *)
ReconcileUnordered(o) ==
    \/ RowsOf(o.site) = {} /\ Insert(o)
    \/ \E i \in RowsOf(o.site) :
          /\ IsLatest(i, o.site)
          /\ IF rows[i].assessment = o.assessment THEN Refresh(i, o) ELSE Insert(o)

ReconcileInsertsAlways(o) ==
    \/ RowsOf(o.site) = {} /\ Insert(o)
    \/ \E i \in RowsOf(o.site) :
          /\ IsLatest(i, o.site)
          /\ IF o.at <= rows[i].lastObservedAt THEN UNCHANGED rows ELSE Insert(o)

ReconcileNever(o) ==
    \/ RowsOf(o.site) = {} /\ Insert(o)
    \/ RowsOf(o.site) # {} /\ UNCHANGED rows

Reconcile(o) ==
    \/ RowsOf(o.site) = {} /\ Insert(o)
    \/ \E i \in RowsOf(o.site) :
          /\ IsLatest(i, o.site)
          /\ \/ o.at <= rows[i].lastObservedAt /\ UNCHANGED rows
             \/ /\ o.at > rows[i].lastObservedAt
                /\ IF rows[i].assessment = o.assessment THEN Refresh(i, o) ELSE Insert(o)

(* The reporter's request is applied. *)
Apply ==
    /\ current # NoObservation
    /\ ~answered
    /\ Reconcile(current)
    /\ answered' = TRUE
    /\ UNCHANGED <<clock, observed, browser, round, current, late, failures, posts>>

ApplyLate(o) ==
    /\ o \in late
    /\ late' = late \ {o}
    /\ Reconcile(o)
    /\ UNCHANGED <<clock, observed, browser, reporter, failures, posts>>

(* An agent posts evidence it interpreted, with a time of its own: the     *)
(* record is appended whatever the history holds.                          *)
Post(s, a, t) ==
    /\ posts < MaxPosts
    /\ posts' = posts + 1
    /\ Insert([site |-> s, assessment |-> a, at |-> t])
    /\ UNCHANGED <<clock, observed, browser, reporter, late, failures>>

Next ==
    \/ Tick
    \/ \E s \in Sites, a \in Assessments : Record(s, a)
    \/ StartRound
    \/ ReadAnswer
    \/ RoundFails
    \/ ReplaceBrowser
    \/ RestartProcess
    \/ Apply
    \/ \E o \in late : ApplyLate(o)
    \/ \E s \in Sites, a \in Assessments, t \in Times : Post(s, a, t)

(* The reporter's loop runs every five seconds and the service answers the *)
(* requests it gets; how often it fails to is bounded by MaxFailures.      *)
Fairness == WF_vars(StartRound) /\ WF_vars(ReadAnswer) /\ WF_vars(Apply)

Spec == Init /\ [][Next]_vars /\ Fairness

-----------------------------------------------------------------------------
RowType ==
    [site : Sites, assessment : Assessments, observedAt : Times, lastObservedAt : Times]

(* The variables have the types of the code's fields and table columns. *)
TypeOK ==
    /\ clock \in Times
    /\ observed \in 0 .. MaxObservations
    /\ pending \in SUBSET Observations
    /\ generation \in 0 .. MaxRestarts
    /\ round \in SUBSET Observations
    /\ current \in Observations \cup {NoObservation}
    /\ answered \in BOOLEAN
    /\ late \in SUBSET Observations
    /\ failures \in 0 .. MaxFailures
    /\ posts \in 0 .. MaxPosts
    /\ rows \in Seq(RowType)

(* The history knows the site at least as late as the observation. *)
Covered(o) == \E i \in RowsOf(o.site) : o.at <= rows[i].lastObservedAt

(* What the reporter takes an answer for is in the history. *)
AnsweredIsCovered == answered => current # NoObservation /\ Covered(current)

PendingIsOld == \A o \in pending : o.id <= observed

(* The inductive invariant of the delivery. *)
DeliveryInv == TypeOK /\ AnsweredIsCovered /\ PendingIsOld

(* An observation leaves the pending list only when a newer one of its     *)
(* site replaces it, when its browser is gone, or when the history covers  *)
(* it: an acknowledgement never drops the newer capture that was recorded  *)
(* while an older one was being submitted.                                 *)
PendingLeavesCovered ==
    [][\A o \in pending \ pending' :
          \/ Covered(o)
          \/ generation' # generation
          \/ \E p \in pending' : p.site = o.site /\ p.id > o.id]_vars

Grows ==
    \A i \in DOMAIN rows :
        /\ i \in DOMAIN rows'
        /\ rows'[i].lastObservedAt >= rows[i].lastObservedAt
        /\ rows'[i] = [rows[i] EXCEPT !.lastObservedAt = rows'[i].lastObservedAt]

(* The history is append-only but for lastObservedAt, which never goes     *)
(* back, with requests applied late and agents posting old or future       *)
(* times.                                                                  *)
HistoryOnlyGrows == [][Grows]_vars

(* Record j of a site comes after record i, and if it comes next it tells  *)
(* something else.                                                         *)
Follows(j, i) ==
    /\ rows[i].lastObservedAt < rows[j].observedAt
    /\ \/ rows[i].assessment # rows[j].assessment
       \/ \E k \in RowsOf(rows[i].site) : i < k /\ k < j

IsTimeline ==
    /\ \A i \in DOMAIN rows : rows[i].observedAt <= rows[i].lastObservedAt
    /\ \A i, j \in DOMAIN rows : i < j /\ rows[i].site = rows[j].site => Follows(j, i)

(* What the reporter alone writes is a timeline per site: the records'     *)
(* intervals follow each other, and neighbours differ in their assessment, *)
(* whatever requests fail, are repeated or are applied late.               *)
HistoryIsTimeline == posts = 0 => IsTimeline

(* Every pending observation is submitted, replaced or lost with its       *)
(* browser: failures only delay it.                                        *)
PendingDrains ==
    \A n \in 1 .. MaxObservations :
        (\E o \in pending : o.id = n) ~> (\A o \in pending : o.id # n)
=============================================================================
