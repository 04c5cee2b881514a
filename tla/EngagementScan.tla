--------------------------- MODULE EngagementScan ---------------------------
(***************************************************************************)
(* Engagement synchronisation of one platform: JobEngagementCollector with *)
(* its scans and the tab that ManagedPageTargets assigns to the platform,  *)
(* and the writes of its snapshots to the Workspace Service.               *)
(*                                                                         *)
(* Every browser_sync_job_engagement call is a coroutine: it reads the     *)
(* scan of its category, waits for a new page, for the tab to come to the  *)
(* front, for a navigation and for one second, captures the cards, moves   *)
(* the scan on, and then writes. The user and the platform move, redirect  *)
(* and close tabs and edit the categories meanwhile. Cards are rendered    *)
(* lazily and pages overlap, so a batch is any part of the category.       *)
(***************************************************************************)
EXTENDS EngagementRelations

CONSTANTS
    Calls,        \* calls that may be outstanding at a time
    Jobs,         \* jobs on the platform
    Looks,        \* the identity of each job's card: jobs without links may look alike
    InitialList,  \* the jobs in each category at first
    Pages,        \* browser pages, in the order they are opened
    Paginated,    \* the platform catalog gives the categories pages
    UserWaits,    \* the user leaves a tab alone while a call works with it
    NoScan, NoTarget, NoPage, Unopened, Closed, Elsewhere,
    MaxJobs,      \* maximumJobsPerEngagementScan
    MaxCalls, MaxEdits, MaxMoves, MaxReturns, MaxRestarts  \* bounds

ASSUME ScanAssumption ==
    /\ IsFiniteSet(Jobs)
    /\ Looks \in [Jobs -> Sources]
    /\ InitialList \in [Kinds -> SUBSET Jobs]
    /\ Paginated \in BOOLEAN
    /\ UserWaits \in BOOLEAN
    /\ MaxJobs \in Nat \ {0}
    /\ MaxCalls \in Nat

VARIABLES
    list,     \* the categories as the platform keeps them
    url,      \* where each page is
    revision, \* the platform's entry in #returnedControlRevisions
    target,   \* the platform's entry in #targets
    scans,    \* #scans
    pc,       \* where each call is
    call,     \* its local variables
    clock,    \* new Date() at the latest capture
    calls, edits, moves, restarts

tabs == <<url, target>>
bounds == <<edits, moves, restarts>>
vars == <<list, url, revision, target, scans, pc, call, clock, calls, edits, moves,
          restarts, relations>>

Places == [kind : Kinds, page : 1 .. MaxCalls + 1]

ASSUME PlacesAssumption == {Unopened, Closed, Elsewhere} \cap Places = {}

FirstPage == [jobs |-> {}, page |-> 1]

(* Mutant: the scan is kept per platform, not per category. *)
ScanOfPlatform(k) ==
    IF \A l \in Kinds : scans[l] = NoScan THEN FirstPage
    ELSE scans[CHOOSE l \in Kinds : scans[l] # NoScan]

ScanOf(k) == IF scans[k] = NoScan THEN FirstPage ELSE scans[k]
IsOpen(p) == url[p] \notin {Unopened, Closed}
IsEngagementPage(p) == url[p] \in Places
Requested(c) == [kind |-> call[c].kind, page |-> call[c].scan.page]
Matches(c) == url[call[c].tab] = Requested(c)

NoSnapshot == [kind |-> Interested, jobs |-> {}, at |-> 0, complete |-> FALSE]
NoCall == [kind |-> Interested, scan |-> FirstPage, tab |-> NoPage, fresh |-> FALSE,
           ended |-> FALSE, snapshot |-> NoSnapshot]

Init ==
    /\ RelationsInit
    /\ list = InitialList
    /\ url = [p \in Pages |-> Unopened]
    /\ revision = 0
    /\ target = NoTarget
    /\ scans = [k \in Kinds |-> NoScan]
    /\ pc = [c \in Calls |-> "idle"]
    /\ call = [c \in Calls |-> NoCall]
    /\ clock = 0
    /\ calls = 0
    /\ edits = 0
    /\ moves = 0
    /\ restarts = 0

(***************************************************************************)
(* ManagedPageTargets: which tab a call works with.                        *)
(***************************************************************************)
Assigned == target # NoTarget /\ IsOpen(target.page)

Observation(p) ==
    [page |-> p, revision |-> revision,
     state |-> IF url[p] \in Places THEN "ready" ELSE "redirected"]

Claim(p) == [page |-> p, revision |-> revision, state |-> "navigating"]

(* Mutant: a redirected tab is navigated again without the user. *)
RecoversAlways == target.state = "redirected" /\ revision >= target.revision

MayRecover == target.state = "redirected" /\ revision > target.revision

(* The tab is on a category page, or one that may be navigated again.      *)
ResolvesTo(p) ==
    \/ /\ Assigned
       /\ p = target.page
       /\ \/ IsEngagementPage(p) /\ target' = Observation(p)
          \/ /\ ~IsEngagementPage(p)
             /\ target.state = "navigating" \/ MayRecover
             /\ UNCHANGED target
    \/ /\ ~Assigned
       /\ IsOpen(p)
       /\ IsEngagementPage(p)
       /\ target' = Observation(p)

ResolvesToNone ==
    /\ ~Assigned
    /\ \A p \in Pages : ~IsEngagementPage(p)
    /\ target' = NoTarget

(***************************************************************************)
(* The steps of a call.                                                    *)
(***************************************************************************)
Returns(c) ==
    /\ pc' = [pc EXCEPT ![c] = "idle"]
    /\ call' = [call EXCEPT ![c] = NoCall]

Starts(c, k) ==
    /\ pc[c] = "idle"
    /\ calls < MaxCalls
    /\ calls' = calls + 1

(* A category page is open, or the assigned tab may be navigated: the call *)
(* brings it to the front.                                                 *)
Reuse(c, k) ==
    /\ Starts(c, k)
    /\ \E p \in Pages :
          /\ ResolvesTo(p)
          /\ call' = [call EXCEPT ![c].kind = k, ![c].scan = ScanOf(k), ![c].tab = p,
                                  ![c].fresh = FALSE]
    /\ pc' = [pc EXCEPT ![c] = "selecting"]
    /\ UNCHANGED <<list, url, revision, scans, clock, bounds, relations>>

Open(c, k) ==
    /\ Starts(c, k)
    /\ ResolvesToNone
    /\ call' = [call EXCEPT ![c].kind = k, ![c].scan = ScanOf(k), ![c].tab = NoPage,
                            ![c].fresh = TRUE]
    /\ pc' = [pc EXCEPT ![c] = "opening"]
    /\ UNCHANGED <<list, url, revision, scans, clock, bounds, relations>>

(* The tab waits for the user, or the user controls the browser: refused.  *)
Refused(c) == pc[c] = "idle" /\ UNCHANGED vars

Opened(c) ==
    /\ pc[c] = "opening"
    /\ \E p \in Pages :
          /\ url[p] = Unopened
          /\ url' = [url EXCEPT ![p] = Elsewhere]
          /\ target' = Claim(p)
          /\ call' = [call EXCEPT ![c].tab = p]
    /\ pc' = [pc EXCEPT ![c] = "selecting"]
    /\ UNCHANGED <<list, revision, scans, clock, calls, bounds, relations>>

(* The tab is in front; it is navigated unless it shows the scan's page.   *)
(* page.goto makes an earlier one on the same page fail.                   *)
Overtaken(c, d) == d # c /\ pc[d] = "navigating" /\ call[d].tab = call[c].tab

Selected(c) ==
    /\ pc[c] = "selecting"
    /\ \/ /\ Matches(c)
          /\ pc' = [pc EXCEPT ![c] = "capturing"]
          /\ UNCHANGED <<target, call>>
       \/ /\ ~Matches(c)
          /\ target' = IF call[c].fresh THEN target ELSE Claim(call[c].tab)
          /\ pc' = [d \in Calls |->
                IF d = c THEN "navigating" ELSE IF Overtaken(c, d) THEN "idle" ELSE pc[d]]
          /\ call' = [d \in Calls |-> IF Overtaken(c, d) THEN NoCall ELSE call[d]]
    /\ UNCHANGED <<list, url, revision, scans, clock, calls, bounds, relations>>

(* page.goto has resolved, on the requested page or on another.            *)
Navigated(c) ==
    /\ pc[c] = "navigating"
    /\ IsOpen(call[c].tab)
    /\ \E place \in {Elsewhere} \cup Places :
          /\ url' = [url EXCEPT ![call[c].tab] = place]
          /\ target' = [page |-> call[c].tab, revision |-> revision,
                        state |-> IF place \in Places THEN "ready" ELSE "redirected"]
          /\ IF place = Requested(c)
             THEN pc' = [pc EXCEPT ![c] = "capturing"] /\ UNCHANGED call
             ELSE Returns(c)
    /\ UNCHANGED <<list, revision, scans, clock, calls, bounds, relations>>

(* A page that does not open, navigate or stay where it is, and cards that *)
(* contradict the total the page states, end the call with an error.       *)
Fails(c) ==
    /\ pc[c] \in {"opening", "selecting", "navigating", "capturing"}
    /\ Returns(c)
    /\ UNCHANGED <<list, tabs, revision, scans, clock, calls, bounds, relations>>

(***************************************************************************)
(* One batch: the cards of the page the tab shows, the total it states if  *)
(* it states one and all its cards were read, and what this makes of the   *)
(* scan the call began with.                                               *)
(***************************************************************************)
Batch(cards) == {Looks[j] : j \in cards}

(* An empty first page is evidence only with a total of zero.              *)
Readable(place, cards, counted) ==
    cards = {} /\ place.page = 1 => counted /\ list[place.kind] = {}

(* Mutant: an unreadable total passes for completeness. *)
CompleteUncounted(merged, kind, counted) ==
    Cardinality(merged) >= Cardinality(list[kind]) \/ ~counted

IsComplete(merged, kind, counted) ==
    counted /\ Cardinality(merged) = Cardinality(list[kind]) /\ Cardinality(merged) <= MaxJobs

ScanEnds(merged, batch, complete) ==
    \/ complete
    \/ Cardinality(merged) >= MaxJobs
    \/ batch = {}
    \/ ~Paginated

(* Mutant: the last snapshot carries the last batch only. *)
LatestBatch(earlier, merged) == {merged \ earlier}

(* The first MaxJobs jobs of a scan: those of its earlier batches first.   *)
Bounded(earlier, merged) ==
    {kept \in SUBSET merged :
        /\ earlier \subseteq kept
        /\ Cardinality(kept) = IF Cardinality(merged) < MaxJobs THEN Cardinality(merged)
                               ELSE MaxJobs}

Capture(c) ==
    /\ pc[c] = "capturing"
    /\ IsEngagementPage(call[c].tab)
    /\ \E cards \in SUBSET list[url[call[c].tab].kind], counted \in BOOLEAN :
          LET place    == url[call[c].tab]
              earlier  == call[c].scan.jobs
              merged   == earlier \cup Batch(cards)
              complete == IsComplete(merged, place.kind, counted)
              ended    == ScanEnds(merged, Batch(cards), complete)
          IN
          /\ Cardinality(cards) <= MaxJobs
          /\ Readable(place, cards, counted)
          /\ scans' = [scans EXCEPT ![call[c].kind] =
                IF ended THEN NoScan ELSE [jobs |-> merged, page |-> call[c].scan.page + 1]]
          /\ \E kept \in Bounded(earlier, merged) :
                call' = [call EXCEPT ![c].ended = ended, ![c].snapshot =
                    [kind |-> place.kind,
                     jobs |-> IF ended THEN kept ELSE Batch(cards),
                     at |-> clock + 1,
                     complete |-> IF ended THEN complete
                                  ELSE counted /\ cards = list[place.kind]]]
    /\ clock' = clock + 1
    /\ pc' = [pc EXCEPT ![c] = "writing"]
    /\ UNCHANGED <<list, tabs, revision, calls, bounds, relations>>

(* The collection has ended and the snapshot is put to the service. The    *)
(* request may fail before the service has applied it, or after.           *)
Write(c) ==
    /\ pc[c] = "writing"
    /\ Synchronize(call[c].snapshot)
    /\ pc' = [pc EXCEPT ![c] = "answering"]
    /\ UNCHANGED <<list, tabs, revision, scans, call, clock, calls, bounds>>

EndWrite(c) ==
    /\ pc[c] \in {"writing", "answering"}
    /\ Returns(c)
    /\ UNCHANGED <<list, tabs, revision, scans, clock, calls, bounds, relations>>

(***************************************************************************)
(* The user, the platform and the process.                                 *)
(***************************************************************************)
EditCategory(k, jobs) ==
    /\ edits < MaxEdits
    /\ jobs # list[k]
    /\ list' = [list EXCEPT ![k] = jobs]
    /\ edits' = edits + 1
    /\ UNCHANGED <<tabs, revision, scans, pc, call, clock, calls, moves, restarts, relations>>

Uses(c, p) == pc[c] \in {"selecting", "navigating", "capturing"} /\ call[c].tab = p

UserMoves(p, place) ==
    /\ moves < MaxMoves
    /\ IsOpen(p)
    /\ UserWaits => \A c \in Calls : ~Uses(c, p)
    /\ url' = [url EXCEPT ![p] = place]
    /\ moves' = moves + 1
    /\ UNCHANGED <<list, target, revision, scans, pc, call, clock, calls, edits, restarts,
                   relations>>

PlatformRedirects(p) ==
    /\ moves < MaxMoves
    /\ IsEngagementPage(p)
    /\ url' = [url EXCEPT ![p] = Elsewhere]
    /\ moves' = moves + 1
    /\ UNCHANGED <<list, target, revision, scans, pc, call, clock, calls, edits, restarts,
                   relations>>

(* A snapshot with userReturnedControl on one of the platform's pages.     *)
UserReturnsControl ==
    /\ revision < MaxReturns
    /\ revision' = revision + 1
    /\ UNCHANGED <<list, tabs, scans, pc, call, clock, calls, bounds, relations>>

HasCaptured(c) == pc[c] \in {"writing", "answering"}

(* The browser is launched again: a new collector, no pages. Calls fail    *)
(* unless they have only their write left.                                 *)
ReplaceBrowser ==
    /\ restarts < MaxRestarts
    /\ restarts' = restarts + 1
    /\ url' = [p \in Pages |-> IF IsOpen(p) THEN Closed ELSE url[p]]
    /\ target' = NoTarget
    /\ revision' = 0
    /\ scans' = [k \in Kinds |-> NoScan]
    /\ pc' = [c \in Calls |-> IF HasCaptured(c) THEN pc[c] ELSE "idle"]
    /\ call' = [c \in Calls |-> IF HasCaptured(c) THEN call[c] ELSE NoCall]
    /\ UNCHANGED <<list, clock, calls, edits, moves, relations>>

Next ==
    \/ \E c \in Calls :
          \/ \E k \in Kinds : Reuse(c, k) \/ Open(c, k)
          \/ Refused(c)
          \/ Opened(c)
          \/ Selected(c)
          \/ Navigated(c)
          \/ Fails(c)
          \/ Capture(c)
          \/ Write(c)
          \/ EndWrite(c)
    \/ \E k \in Kinds, jobs \in SUBSET Jobs : EditCategory(k, jobs)
    \/ \E p \in Pages, place \in {Elsewhere, Closed} \cup Places : UserMoves(p, place)
    \/ \E p \in Pages : PlatformRedirects(p)
    \/ UserReturnsControl
    \/ ReplaceBrowser

Spec == Init /\ [][Next]_vars

(***************************************************************************)
(* Properties.                                                             *)
(***************************************************************************)

(* When calls are made one after another:                                  *)
(* A call begins to navigate a tab it found on another page only if that   *)
(* tab was never redirected, or the user has returned control since: a     *)
(* redirected tab is the user's until then (collector.ts,                  *)
(* #ensureEngagementPage, and the state of ManagedPageTargets).            *)
RedirectWaitsForUser ==
    [][\A c \in Calls :
          pc[c] = "selecting" /\ pc'[c] = "navigating" =>
              \/ target = NoTarget
              \/ target.page # call[c].tab
              \/ target.state # "redirected"
              \/ revision > target.revision]_vars
=============================================================================
