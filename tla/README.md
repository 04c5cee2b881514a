# TLA+ models of Job Boardwalk

Job Boardwalk lets an agent and its user share one visible browser to research
jobs, and keeps what was seen in a local database. The interesting code is the
coordination: who may drive the browser, what happens to work in flight when
control changes hands, and how evidence captured at one moment is stored at
another. These modules model that coordination; TLC checks it on small
instances and TLAPS proves the central parts for all instances.

## Inventory of the system

Paths are below `src/apps/`.

| Component | State it keeps | Operations | What is hard |
| --- | --- | --- | --- |
| Browser control and handoff (`browser-session/src/browser/background-collection-control.ts`, `tool-executor.ts`) | `#state` (active, quiescing, preparing-handoff, user-handoff), `#activeCollectionCount`, `#resolveQuiescence`, `#interruption` | pause, complete, cancel, return, runCollection, observeAccess | every MCP call is a coroutine of its own, so all callers interleave at every `yield*`; interruptions arrive as events |
| Login preparation (`login-handoff.ts`, `browser-tabs.ts`) | candidate pages, diagnostics | classify existing pages, observe candidates up to six times, open a login page | pages navigate and close between reads; an interruption may be recognised in any read |
| Tools, tabs, element references (`tool-executor.ts`, `browser-tabs.ts`, `click-popup.ts`) | page ids, selected page, references and the diagnostics of the last expired batch | snapshot, click, fill, select, reveal, scroll, navigate, tab actions | a reference is verified by a fresh read and used after it |
| Passive collection (`job-observation/passive-collector.ts`) | none between rounds | every 30 s read each open job page, then write the evidence | the handoff starts between two pages; writes run after the collection has ended |
| Engagement synchronisation (`job-engagement/collector.ts`, `managed-page-targets.ts`) | the scan of each platform and category; the tab that belongs to each platform | capture one batch, continue or end the scan, write the snapshot | a scan is read before several waits and written after them; the write may fail after the scan has moved on |
| Access observation and reporting (`platform-access-observer.ts`, `platform-access-observation-reporter.ts`) | pending observations, newest per platform and URL | record, report every 5 s, acknowledge | an observation is replaced while its predecessor is being submitted; requests fail or arrive late |
| Browser lifecycle (`managed-browser.ts`) | phase, last failure, the current context and executor | launch, run, close, retry with backoff | the window closes at any time, also while closing |
| Access history (`workspace-service/src/persistence/platform-access-repository.ts`) | table of assessments with first and last time | reconcile (PUT), record (POST) | repeated, late and agent-supplied times |
| Job library (`job-observation-repository.ts`, `job-observation-write.ts`, `job-source-identity.ts`, `job-evidence.ts`, `job-library/identity.ts`) | jobs, sources, the identities a source is found by, change log | save a card or description observation, bind a description to a source | jobs merge when their evidence comes to agree, observations arrive in any order, the change log is written outside the transaction |
| Engagement relations (`job-engagement-repository.ts`) | relations between sources and categories | synchronise a partial or complete snapshot | an old complete snapshot may be delivered late |
| Search intents, profile facts, reports (`job-search-intent-repository.ts`, `profile-fact-repository.ts`, `research-report-repository.ts`) | rows; at most one selected intent; the platform pages of an intent; the change log | save, select, delete | selection is exclusive and may name an intent that is gone; every change leaves one log entry |
| Desktop manager (`desktop-manager/src/service_supervisor.rs`, `main.rs`, `service_plan.rs`, `desktop_settings.rs`) and service host | child processes, controller phase, command channel, queue of window updates, settings in three places | start, stop, exit, save settings, child events, health polls | cancellation in every stage of a start, a child's exit while others start, updates of the window that are applied late |
| Dashboard (`dashboard/src/polled-read.ts`, `workspace-service-client.ts`, `personal-context/`) | what the page asks for and shows, the read and the changes in flight | navigate, poll, retry, edit intents and facts | answers that arrive late, fail or are lost; changes by other clients |
| Endpoints, adapters, contracts | none | validation, classification of pages | - |

Interactions: the agent calls Browser Session over MCP and Workspace Service
over HTTP or MCP; Browser Session writes evidence to Workspace Service over
HTTP; inside Browser Session the tool executor, the two collectors and the
access observer share one `BackgroundCollectionControl` and one browser
context; the desktop manager starts and stops the services as child processes.

What makes each component correct:

- Control: a recognised interruption pauses until the user is back, and no tool
  call is admitted meanwhile that does not report the return (one admitted before
  runs on, so that the two may still overlap); nothing reads a page while a login
  interface is prepared; a session blocked for a preparation comes free again.
- Access: no observation is acknowledged before the history covers it or
  because of an older one; failures only delay; the history is a timeline.
- Engagement: a scan stays within its category and its limit and ends; what it
  captured is stored; a complete snapshot removes only what is gone; a tab that
  was redirected waits for the user.
- Job library: jobs are a function of what their sources retain; evidence never
  goes back; a page has one source; jobs merge on complete evidence only;
  changes are recorded.
- Browser: every open page has one tab; an element that is acted on is the one
  its reference was granted for; references do not outlive a page action; a page
  handed over for login was at the login when it was chosen, and no call that
  begins later takes it elsewhere; evidence describes the page it names.
- Lifecycle: a lost or failed browser is launched again until the session is
  asked to stop; a session that ended has closed its browser, unless closing
  failed or a launch was given up.
- Desktop manager: services start in order and stop in reverse, also when the
  start is cancelled or one of them exits; none is left running unowned; Stop
  and the end of the program are obeyed at any moment; the window tells the
  truth once its updates have run.
- Personal context and dashboard: at most one intent is current, pages follow
  their intent, every change is logged under the row it is about and touches no
  other; the page never falls back to an older
  answer or one to another question, and it catches up.

## Modules

| Module | Models | How |
| --- | --- | --- |
| `BrowserAuthority` | the abstract promise: who drives the browser | agent, user, interruption, return calls; five actions |
| `HandoffControl` | `BackgroundCollectionControl` and everything that calls it | the fields under their names; an action is what a coroutine does between two suspensions; `prepareAt` is where each `browser_prepare_login` call stands, `collecting` the collections inside `runCollection`, `returning` the snapshots with `userReturnedControl=true`; implements `BrowserAuthority` with `authority` read off `state` |
| `HandoffOwnership` | `HandoffControl` and two history variables | whose pause is in force; which return calls are older than the handoff |
| `HandoffControlProofs` | theorems | see below |
| `AccessReporting` | `PlatformAccessObserver`, `PlatformAccessObservationReporter`, `PlatformAccessRepository` | the pending list is a set of observations numbered in order, the reporter's copy is `round`, one request at a time is `current`; a request given up may be applied later (`late`); `rows` is the table |
| `AccessReportingProofs` | theorems | see below |
| `EngagementRelations` | the relations transaction of `JobEngagementRepository` | relations of one platform, by category and source |
| `EngagementScan` | `JobEngagementCollector`, `ManagedPageTargets`, `WorkspaceJobEngagementWriter` | a call is at a program counter between its awaits (`opening`, `selecting`, `navigating`, `capturing`, `writing`, `answering`) with its locals in `call`; `scans` and `target` are the shared maps for one platform |
| `EngagementClaims` | what the documents promise of it | history variables: identities a category showed, showed all along, and that were captured since its scan began |
| `EngagementProofs` | theorems | see below |
| `JobEvidence` | `identity.ts`, `job-evidence.ts` | pure operators: keys, the evidence of a source, the canonical values of a job |
| `JobLibrary` | `JobObservationRepository`, `job-observation-write.ts`, `job-source-identity.ts` | the tables as functions of ids; a transaction is one step, the insertion of the change a second one, a crash may come between |
| `JobLibraryProofs` | theorems | see below |
| `BrowserTabs` | `BrowserTabs`, the pages behind it | a page is open at a place of an address, shows something, and holds elements with identities; a tab is a number that is never reused |
| `PageEvidence` | card and description captures (`card-page-capture.ts`, `card-snapshot.ts`, `description-*.ts`) | what a capture makes of the elements of a page: job cards, duplicates, limits, the address it must have kept |
| `ToolCalls` | `BrowserToolExecutor` | each tool call is a coroutine at a program counter between its awaits, with the tab, page, reference and capture it holds in `call` |
| `LoginPreparation` | `#prepareLogin`, `BrowserTabs.prepareLogin`, `login-handoff.ts` | the loop over the pages, the choice among those that were judged, rounds of observation, the page that is opened |
| `PassiveCollection` | `PassiveJobObservationCollector` | a round reads page after page, then writes item after item |
| `Browser` | Browser Session at work | composes the four modules above with what the user and the pages do of themselves |
| `BrowserProofs` | theorems | see below |
| `BrowserLifecycle` | `ManagedBrowser.supervise`, `#runContext`, the process around them | the stages of the loop; a delay is the number of failures that determines it; a window that a failed close or an abandoned launch leaves behind stays until it closes, and its profile lock keeps another launch from succeeding |
| `DesktopPlan` | `desktop_settings.rs`, `browser_discovery.rs`, `service_plan.rs` | pure operators: which settings are valid, which browser is found, which services are planned with which configured ports |
| `ServiceGroup` | the abstract promise of the supervisor | services owned and alive: acquired in order, given up in reverse |
| `DesktopManager` | `main.rs`, `service_supervisor.rs`, `caddy_lifecycle.rs`, the service host | the controller's thread at a program counter, the event loop with its queue of updates, the channel between them, three processes; implements `ServiceGroup` |
| `Desktop` | the desktop product | `DesktopManager` with `BrowserLifecycle` inside its third service |
| `DesktopManagerProofs`, `DesktopProofs` | theorems | see below |
| `PersonalContext` | the repositories of intents, facts and reports | the tables as functions of ids; every request is one transaction that commits, refuses or has nothing to delete; of the log its length and last entry; `Known` are intents of an earlier session |
| `Dashboard` | the dashboard's page, its client, the service's answers | `question`, `shown` and `read` are a polled read; `call` and `orphans` the changes in flight; `kept` is a document in the back/forward cache |
| `DashboardProofs` | theorems | see below |
| `MC...` | instances for TLC | constants only |

Composition: `HandoffControl` holds the control object together with all its
callers, reduced to what they do to it. `EngagementScan` extends
`EngagementRelations`, so that the scan, the write and the table are one
behaviour. `JobLibrary` stands alone: the service runs one synchronous
operation after another, so whoever calls it, its steps do not interleave.
`Browser` extends `PassiveCollection`, which extends `LoginPreparation`,
`ToolCalls` and `BrowserTabs`: all of them share the pages, the tabs, the
references and a control state. In `HandoffControl` the control state is exact
and the pages are left out, in `Browser` it is the other way round, with one
login preparation at a time. `Desktop` joins manager and lifecycle in steps
of which each names what the other does: a process that starts boots the
lifecycle, a closed standard input aborts it, and its status is the health
answer. `Dashboard` extends `PersonalContext`: the page and every other client
send requests to the same tables.

## What the runs check

| Run | Question | Bounds, and why they are enough |
| --- | --- | --- |
| `HandoffControlLagging` | safety of the control state, its inductive invariant, refinement of `BrowserAuthority`, every pause for a preparation ends | three preparations, two collections, two return calls, two interruptions: one preparation can overwrite the resolver of another while a third is late; two collections make the count matter. `PromptWake = FALSE`: a resolved wait may resume after any other event |
| `SinglePreparation` | with one preparation and one collection: its pause holds, no collection reads meanwhile, it gets past its wait | the intended use; the next two runs show what more callers do |
| `StrandedPreparation` (violation) | a second preparation strands the first | two preparations, one collection |
| `OutdatedReturn` (violation) | a return call ends a handoff younger than itself | one preparation, two return calls, two interruptions |
| `AccessDelivery` | acknowledgement, replacement and draining of pending observations; the history is a timeline and only grows | two sites with two observations each, three instants: one can be replaced while it is submitted, with another site's behind it; repeats and late requests meet alternating assessments; a failure, a restart and a post of an agent |
| `EngagementInTurn` | scope, storage and removal of engagement scans | one call at a time, two categories, four jobs two of which look alike, limit 2 below the size of the category, three calls, an edit, a new browser, lost writes |
| `EngagementTabs` | redirected tabs wait for the user | two pages, moves and redirections by user and platform, a return of control, a new browser |
| `MixedCategories` (violation) | a scan captures another category | two calls at a time |
| `JobLibrary` | evidence, identities, merges, change log | five saves of six facts at three instants: the least with which refreshed facts make a job take the key of another one and merge; one crash |
| `Browser` | tabs stay registered once; what is acted on is what was captured; references expire; what is chosen for the user is a login, and leaves it before it is handed over only by itself, the user or a call under way; evidence is of its page | two pages and four tabs, so that a tab closes while another call waits to select it; two calls among three (a login preparation counts for two) and a round of collection, which is what it takes for one to change what another has read; two rounds of observation; one event of the user or a page; calls and pages are symmetric |
| `Desktop` | nothing runs unowned, configured ports differ, the window tells the truth, a stopped session has closed its browser unless a close failed or a launch was given up; refinement of `ServiceGroup`; Stop is obeyed, the browser is shown and comes back | two clicks (Start and Stop in any order and at any stage), one saved setting out of a valid and two invalid ones, a file that clashes, one fault: a crash, an unanswered health request, a lost window, a failed launch, or a close that leaves its window open |
| `Dashboard` | tables stay consistent, the page shows what it asks for, the log accounts for every change, the page catches up | two intents, facts and reports; the current intent is there from the start, so that two changes can move the selection to another and back; two changes by the page or by others, one of the page's in flight; one move to another page, by which the document is discarded or kept; one fault, a failed read or a lost answer |

Deadlock is checked in every run but `Browser`; `JobLibrary` has a step `Done`,
`EngagementScan` a refused call, `DesktopManager` the step `Gone` of a program that
has ended and `Dashboard` its polling as the steps that remain when the bounds
are used up. `Browser` has none: with all calls made and all events spent nothing
is left to do, and a call that would open a page beyond the bound `Pages` stops
there.

Assumptions the models make about what is not in this repository are named:
`PromptWake` (the scheduler of shajara resumes a resolved wait before outside
events; only `PreparingIsQuiet` needs it), `UserWaits` (the user leaves a tab alone
while a call works with it), `Overtaken` (a navigation makes an earlier one
on its page fail).

### Fairness

- `HandoffControl`: a resumable preparation resumes, a preparation ends (it
  observes each candidate at most six times), a collection ends (Chromium
  answers `page.evaluate` or the context closes). Nothing makes a call come, an
  interruption appear or the user return. With several collectors a
  preparation may starve when interruptions and returns keep lifting the pause
  and new collections start, so `PreparationGetsOn` is stated for one.
- `AccessReporting`: the reporter's five-second loop goes on and the service
  answers; `MaxFailures` bounds how often it does not.
- `Desktop`: the event loop runs its updates and the controller goes on (threads
  that do not end), the browser's supervision goes on (timers fire, Playwright
  answers), and a health request is made every second while services run, which
  is strong because other steps disable it in between. No fault, click or crash
  is forced, and none ends: `BrowserComesBack` holds because faults are bounded; it
  excepts a window that was left behind, which nothing in the code closes.
- `Dashboard`: the page polls, the service serves what it was asked, and an
  answer takes less than a poll interval again and again. That one is strong
  fairness, since each poll aborts the read before it: a service that is always
  slower than the interval would never be shown. A document in the
  back/forward cache runs nothing: `DashboardCatchesUp` is about one that is shown. No change is ever forced to be
  answered.
- `EngagementScan`, `JobLibrary` and `Browser` are checked for safety only.

## What the runs found

- A second `browser_prepare_login` overwrites `#resolveQuiescence`; when the first
  call still waits, it never returns (`StrandedPreparation`).
- A `browser_snapshot` with `userReturnedControl=true` that was admitted before a
  handoff began ends that handoff (`OutdatedReturn`).
- Two engagement calls of different categories share the platform's tab; one
  can capture the other's category into its own scan (`MixedCategories`).

- Saving settings while services run offers Start, which is then ignored
  (`DesktopManager`, `SaveSettings`; `main.rs`:322).
- A tab that closes before the call that created or chose it selects it is
  registered again under a new number, and no close event removes it
  (`SelectPage`; `browser-tabs.ts`:63). `browser_tabs` with `ensure` may then pick it,
  as it does not ask whether a page is open.
- Two overlapping snapshots leave the references of both valid, although a new
  one should expire those of the previous (`SnapshotBegins`; the README of Browser
  Session, :300). Each is still verified when it is used.
- A second engagement call that chose the platform's tab before the first one's
  navigation was redirected navigates it all the same, without the user
  (`Selected`; `collector.ts`:205): `RedirectWaitsForUser` is about calls in turn, and fails
  in `EngagementTabs` with a second member in `Calls`.

- The writes of overlapping engagement calls are not ordered: `upsert` sets
  `lastObservedAt` to the time of whichever is stored last and `firstObservedAt` to that
  of the first one stored, so `lastObservedAt` can go back and even precede
  `firstObservedAt` (`Upserted`; `job-engagement-repository.ts`:157). The README of Workspace
  Service (:332) says that a relation records when it was first and most recently
  observed. For calls in turn nothing can go wrong, so no property is about it.

The last five were met while modelling and are not runs of their own; the
hazards of `PROJECT.json` list them.
Where the code makes no promise, the properties say so: after an edit in the
middle of a scan `InterestMatchesCategory` claims only that nothing foreign
stays related; and a crash between a library
transaction and its log entry loses the entry, which `ChangesAreRecorded` counts
as owed, not as recorded. `ActsOnCaptured` is about pages that stayed as they were
between the verification of a reference and its use: afterwards only a position
counts.

## What is proved

For every value of the constants, from the `ASSUME`s of the modules only:

- `HandoffControlProofs`. The inductive invariant `IInv` adds to types,
  `InterruptionPauses` and `BlockedHasOwner` that the count equals the number of
  running collections and that a retained resolver belongs to a call that
  waits or is about to resume. Without the count, the last collection could
  end without waking anybody; without the resolver's liveness, it could wake a
  call that is gone, and a quiescing session would have no owner. From it:
  `TypeCorrect`, `InterruptionsPause`, `BlockedIsOwned`. `PreparationExcludesCollections`
  assumes `PromptWake` and strengthens `IInv` with `ResumableIsQuiet`: once a wait is
  resolved nothing runs until it resumes. `Refinement` maps each step to a step
  of `BrowserAuthority` or a stutter. `SinglePreparationHoldsItsPause` states `PauseHeld` of
  `HandoffOwnership` for sessions with at most one call of `browser_prepare_login`: the
  call whose pause is in force is then the only one that could resume collection,
  and it stays where it is until it ends or the user takes over. With two calls it
  is false: one that the user overtook may fail after the user has returned and
  the other has begun, and its late failure resumes collection under the other.
- `AccessReportingProofs`. `Delivery`: `AnsweredIsCovered` is inductive because
  `lastObservedAt` never goes back (`HistoryGrows`), so what was covered when the
  service answered still is when the reporter reads the answer, late requests
  and posts included. `PendingIsNotDropped` follows from it, with the ids of
  pending observations below the counter. `Timeline`: as long as no agent has
  posted, the record that is latest by time is the last by id, an insertion
  comes after everything and differs from its predecessor, and a refresh
  extends the last interval only.
- `JobLibraryProofs`. All properties of `JobLibrary`, for any observations and any
  number of them. `IInv` adds that everything retained is filed under its key, that
  a key has one source, and that every job has a latest piece of evidence. The
  argument: evidence never becomes older, so the latest of a job's sources after
  an update is the old latest or the updated one; the latest of two merged jobs
  is that of one of them, and as both have the same key, the owner keeps its key
  and stays the only job with it (`JobsFollow`). A source's evidence has the key of
  something the source retains, since a description always has a link
  (`SourcesFound`); so two sources share a job key only by a complete identity
  (`CompleteGroups`). `EvidenceForward`, `ChangesRecorded` and `TypeCorrect` follow per
  operation.

- `DesktopManagerProofs`. `Supervision`: `ManagerInv` is inductive. Its part `ControlOK`
  says, for each place the controller can be at, which services it has started;
  without it, nothing ties what runs to what will be stopped. Configured
  ports differ because settings are validated where they enter, and everything in force was
  validated. `Refinement`: each step acquires or gives up one service of
  `ServiceGroup`, is the end of a process, or stutters. `WindowTruth` needs what the
  window will show once it has applied every queued update, whatever their number.
  The queue is folded by a recursive function; as the library's induction theorems
  take operators, the induction runs over least elements of sets of numbers
  (`UpTo`, by well-foundedness of `<`). What replaying tells of services and browser
  does not depend on the buttons a save has changed in between (`ReplayedTold`); the
  invariant adds that the tracker has no availability unless services run or are
  being started (`TrackerOK`).
  `StopComesNearer` and `StopsEnd` are the safety half of `StopIsObeyed`. While a Stop
  waits in the channel, each step of the controller takes it, takes a Start before
  it, or lowers `Turns`, which is never more than 9; what it begins takes two steps
  for each service to stop and one to end, and starts nothing. What liveness adds
  is only that the controller's thread keeps running.
- `DesktopProofs`. `Composition`: the desktop product implements the manager as it is
  specified for a service that becomes healthy and fails as it likes, so all these
  results carry over (`DesktopSupervision`, `DesktopWindow`, `DesktopStops`). `BrowserClosed`
  needs that the lifecycle runs exactly while its process does (`Linked`). It claims
  nothing of a session in which a close failed or a launch was given up (`unclosed`):
  what they leave is a window that only its user, or the end of the process, closes.
- `DashboardProofs`. `Consistent`: `ContextInv` is inductive, for any requests of any
  clients. `Logged`: each request that changes anything leaves exactly one entry,
  and there is a row which the entry names, to which was done what the entry
  says (it came, got the name, got the selection, went), while no other row comes,
  goes, is renamed or changes its pages, and another intent loses the selection
  only to this one. `Shown`: `ShowsWhatIsAsked` needs that an acknowledgement is never ahead of
  the log (`CallsAreKnown`), that a read in flight was asked for by the question the
  page has now (`AnswersItsQuestion`), and that changes are made from the overview
  only, where the page is read again after each.
- `BrowserProofs`. All of `Browser`, whatever runs at the same time. `Moves` says what
  any step may do to pages and tabs: it keeps `RegistryInv` because tabs are given
  out in order, and because a page that a call or the login preparation will
  select after an await has appeared by then, open or not (`Born`), so that the
  tab it may be given is one of a page there is (`Registry`). `CallOK` follows the
  local variables of a call: the position it acts on is that of its reference in
  what it read (`ActsOnTarget`), and from the time it expires the references until
  it returns none is older than the call, since the others only grant new ones
  (`Expired`). `EvidenceIsOfItsPage` needs what a reading of a page may return:
  job cards of elements that were there together, each once, up to a limit. That
  those are in the order of the page rests on a lemma about `InOrder`, which ranks
  the members of a finite set by counting the smaller ones (`Ranked`); the ranks are
  all of them because an injection between sets of one size is a surjection.
  `RoundOK` and `ReadsOK` follow what is read until it is written.
  `LoginIsHandedOver` needs that a page the preparation opened itself is the only one
  it observes afterwards (`OpenedOK`); a page that was found is asked where it is when
  it is chosen. Between that and the handover the code waits for `bringToFront` and
  does not ask again, so nothing says where the page is then; what is proved is
  that the preparation does nothing else meanwhile, that only the user, the page or
  a call that was running already can take it from the login
  (`RunningCallsMove`), and that it is open when it is handed over (`ComingToFront`).
  `SessionIsAuthorised`: the composition at the level of pages implements
  `BrowserAuthority`, as the control protocol does by itself. `ReferencesAreGivenOnce`
  covers snapshots that overlap. `RoundsEnd` and `PreparationsEnd` give measures that the
  steps of a round, or of a preparation, lower and that no other step touches. They
  are what `HandoffControl` assumes when it is fair to the end of collections and of
  preparations: neither can go on forever, as long as pages answer or time out.

- `EngagementProofs`. The claims about engagement, as long as calls are made one after
  another (`InTurn`; `MixedCategories` shows that they need not hold otherwise), for any
  edits, redirects, lost writes and restarts between. `HInv` says that a scan carries
  on what its batches captured, which gives `Stored`. What a scan has is part of
  what its category has shown since it began, if the tab stays on the page of the
  scan: so `Scoped` and `MatchesCategory` also assume that the user leaves the tab to the
  call that works with it (`UserWaits`). That a complete snapshot of a category that
  stays as it is has all of it is an argument by counting, as in the code: as many
  identities as the page states, all of them on the category, are all there are
  (`BatchFills`). `RedirectsWait` needs that a call which selects a tab found it ready, or
  might navigate it already then.

Every invariant and every action property that a passing run checks is a theorem.
`PauseHeld` is one for a single preparation only, as it is true for no more.
Model-checked only: liveness (`BlockedEnds`, `PreparationGetsOn`, `PendingDrains`,
`StopIsObeyed`, `BrowserIsShown`, `BrowserComesBack`, `DashboardCatchesUp`), which is out of
the prover's reach. Of `StopIsObeyed` the part that no fairness is needed for is proved.

## What is not modelled

Reading and classifying pages (`recruiting-platform-adapters.ts`, `platforms/`):
the scopes of addresses are modelled, the verdicts on texts are chosen freely.
HTTP, MCP and request validation: every call may come at any time with any valid
argument. The search of the job library and the content of its rows on the
dashboard; forms, texts and styles. Lengths of delays and intervals: a timer may
fire at any time, and fairness says where it must. The order in which Workspace
Service closes its server and its database. Log files, the choice of a rendering
backend, packaging, contracts and the platform catalogue. The admin port
of Caddy: the system chooses a free one, which is released before Caddy starts and
is not compared with the configured ports, so `AddressesDiffer` is about these only. In `ToolCalls`, the
diagnostics of expired references. In `JobLibrary`, `createdAt` and `updatedAt`, and
the capture time of a description apart from its observation time (the
collector sets both to the same instant). In `EngagementScan`, more than one
platform: scans, targets and relations are kept per platform. In `Browser` there is
one platform as well, since adapters only select pages.

## Plan

Done: `HandoffControl`, `AccessReporting`, `EngagementScan`, `JobLibrary`; `DesktopManager`,
`BrowserLifecycle`, `Desktop`; `BrowserTabs`, `ToolCalls`, `LoginPreparation`,
`PassiveCollection`, `Browser`; `PersonalContext`, `Dashboard`; the proofs listed above.

Left, in this order:

1. The safety half of the other liveness properties, as for `StopIsObeyed`: that pending
   observations drain when posts succeed (`PendingDrains`), that a page behind
   the log is nearer to it with each read that succeeds (`DashboardCatchesUp`), and that a
   lost browser is nearer to its next launch with each step (`BrowserComesBack`).
2. Pages read and classified, as far as their verdicts are rules and not texts.
