------------------------------ MODULE Dashboard ------------------------------
(***************************************************************************)
(* The dashboard over the workspace service: one page of the browser that  *)
(* shows the overview, the job library, the reports or one report, reads   *)
(* it again every few seconds, and on the overview lets the user edit      *)
(* intents and facts.  The page, the service and every other client run on *)
(* their own: a request is served some time after it was sent, its answer  *)
(* arrives some time later, and either may be lost.                        *)
(*                                                                         *)
(* A read is aborted by the next one of the same page.  A change in flight *)
(* is not: it completes even if the user has closed its editor.            *)
(*                                                                         *)
(* The module follows one document from when it is loaded until it is      *)
(* discarded for the next.  When the user goes elsewhere the browser may   *)
(* keep the document as it is, with the answer it shows and what it has    *)
(* sent, and the user may come back to it.  What the user does in other    *)
(* documents meanwhile is what other clients of the service do.            *)
(***************************************************************************)
EXTENDS PersonalContext

CONSTANTS
    Drafts,      \* what the user types: [name, pages]
    OthersAsk,   \* what other clients ask for
    Filters,     \* what the job library can be narrowed to
    MaxPages,    \* bound: pages of jobs a filter can have
    MaxVisits,   \* bound: how often the user goes elsewhere
    MaxCalls,    \* bound: changes the user asks for
    MaxFaults,   \* bound: reads that fail and changes whose answer is lost
    NoForm,      \* no form is open in a section
    NoCall       \* no change is in flight

ASSUME DashboardAssumption ==
    /\ Drafts \subseteq [name : Names, pages : SUBSET Platforms]
    /\ Drafts # {}
    /\ OthersAsk \subseteq Requests
    /\ MaxPages \in Nat \ {0}
    /\ MaxVisits \in Nat /\ MaxCalls \in Nat /\ MaxFaults \in Nat

VARIABLES
    question,  \* what the page asks for: a view and what it depends on
    shown,     \* the answer it shows, Loading, Failed or Gone
    read,      \* the read in flight: Nothing, Asked or its answer
    managing,  \* is the dialog with the two sections open
    form,      \* per section: the open form [kind, id], or NoForm
    call,      \* per section: the change in flight [request, phase, at]
    orphans,   \* changes in flight whose dialog was closed
    seen,      \* the last change the service acknowledged to the page
    kept,      \* is the document in the back/forward cache, and not shown
    visits, calls, faults

pageVars == <<question, shown, read, managing, form, call, orphans, seen, kept>>
budgets == <<visits, calls, faults>>
vars == <<contextVars, pageVars, budgets>>

Sections == {"intents", "facts"}

Overview == [view |-> "overview"]
Reports == [view |-> "reports"]
Report(i) == [view |-> "report", id |-> i]
Jobs(f, n) == [view |-> "jobs", filter |-> f, page |-> n]
Addresses == {Overview, Reports} \cup {Report(i) : i \in Ids}
                \cup {Jobs(f, 1) : f \in Filters}

(* What the page shows is an answer, or one of these: before the first     *)
(* answer, for a failure that can be retried, for a report that does not   *)
(* exist.                                                                  *)
Loading == [state |-> "loading"]
Failed == [state |-> "failed"]
Gone == [state |-> "gone"]

(* No read is in flight; one is and was not served yet. *)
Nothing == [state |-> "none"]
Asked == [state |-> "asked"]

IsAnswer(a) == a.state = "answer"

(* The rows of a view.  The library itself is not part of this module: its *)
(* answer is the number of pages the filter has, any number.               *)
RowsOf(q) ==
    CASE q.view = "overview" -> {[intents |-> intents, facts |-> facts]}
      [] q.view = "reports"  -> {reports}
      [] q.view = "report"   -> {reports[q.id]}
      [] q.view = "jobs"     -> 1..MaxPages

(* The service answers from one state of its database; the model notes how *)
(* many changes had been recorded then.                                    *)
Answers(q) == {[state |-> "answer", question |-> q, version |-> changes, rows |-> rows] :
                    rows \in RowsOf(q)}

Missing(a) == a.question.view = "report" /\ a.rows = NoRow

DashboardInit ==
    /\ ContextInit
    /\ question = Overview
    /\ shown = Loading
    /\ read = Asked
    /\ managing = FALSE
    /\ form = [s \in Sections |-> NoForm]
    /\ call = [s \in Sections |-> NoCall]
    /\ orphans = {}
    /\ seen = 0
    /\ kept = FALSE
    /\ visits = 0 /\ calls = 0 /\ faults = 0

-----------------------------------------------------------------------------
(* Reading *)

(* Mutant: a read under way is left to finish. *)
RefreshUnlessReading == read' = IF read = Nothing THEN Asked ELSE read

(* The document runs: it is shown, and stays so. *)
Present == ~kept /\ UNCHANGED kept

(* The memo runs again: it aborts the read in flight and starts another. *)
Refresh == read' = Asked

Faulty == faults < MaxFaults /\ faults' = faults + 1

(* Mutant: the interval ends with the first read that fails. *)
PollWhileShown ==
    /\ Present
    /\ IF shown = Failed THEN UNCHANGED read ELSE Refresh
    /\ UNCHANGED <<contextVars, question, shown, managing, form, call, orphans, seen, budgets>>

(* Every interval, whatever the page shows. *)
Poll ==
    /\ Present
    /\ Refresh
    /\ UNCHANGED <<contextVars, question, shown, managing, form, call, orphans, seen, budgets>>

(* The button of a failure that can be retried. *)
Retry ==
    /\ Present
    /\ shown = Failed
    /\ Refresh
    /\ UNCHANGED <<contextVars, question, shown, managing, form, call, orphans, seen, budgets>>

ServeRead ==
    /\ read = Asked
    /\ read' \in Answers(question)
    /\ UNCHANGED <<contextVars, question, shown, managing, form, call, orphans, seen, kept, budgets>>

InFlight(cs) == {cs[s] : s \in Sections} \ {NoCall}

(* The dialog goes away: its forms are lost, its changes in flight are not. *)
Unmounted ==
    /\ managing' = FALSE
    /\ form' = [s \in Sections |-> NoForm]
    /\ call' = [s \in Sections |-> NoCall]
    /\ orphans' = orphans \cup InFlight(call)

Mounted == UNCHANGED <<managing, form, call, orphans>>

(* A failure takes the place of the data, and of the dialog over them. *)
ReadArrives ==
    /\ Present
    /\ IsAnswer(read)
    /\ shown' = IF Missing(read) THEN Gone ELSE read
    /\ read' = Nothing
    /\ Mounted
    /\ UNCHANGED <<contextVars, question, seen, budgets>>

ReadFails ==
    /\ Present
    /\ read # Nothing
    /\ Faulty
    /\ shown' = Failed
    /\ read' = Nothing
    /\ Unmounted
    /\ UNCHANGED <<contextVars, question, seen, visits, calls>>

-----------------------------------------------------------------------------
(* Going to other pages *)

(* The user follows a link or types an address, and the browser keeps the  *)
(* document: nothing is closed, and nothing in it runs until it is shown   *)
(* again.  What it has sent may be served.                                 *)
Leave ==
    /\ ~kept /\ kept' = TRUE
    /\ visits < MaxVisits /\ visits' = visits + 1
    /\ UNCHANGED <<contextVars, question, shown, read, managing, form, call, orphans, seen,
                   calls, faults>>

(* Back: the document goes on where it was. *)
ComeBack ==
    /\ kept /\ kept' = FALSE
    /\ UNCHANGED <<contextVars, question, shown, read, managing, form, call, orphans, seen, budgets>>

(* The document is discarded, when it is left or after a while in the      *)
(* cache: its reads and changes are aborted.  What was sent may have been  *)
(* served.  The user is at another one, loaded afresh.                     *)
Visit ==
    /\ visits < MaxVisits /\ visits' = visits + 1
    /\ question' \in Addresses
    /\ shown' = Loading
    /\ read' = Asked
    /\ managing' = FALSE
    /\ form' = [s \in Sections |-> NoForm]
    /\ call' = [s \in Sections |-> NoCall]
    /\ orphans' = {}
    /\ kept' = FALSE
    /\ UNCHANGED <<contextVars, seen, calls, faults>>

(* A filter or a keyword, also the one there is, starts at the first page  *)
(* of the results, and nothing happens if that is what the page asks for   *)
(* already.  The last answer stays until the next one arrives.             *)
ChangeFilter ==
    /\ Present
    /\ question.view = "jobs"
    /\ question' \in {Jobs(f, 1) : f \in Filters} \ {question}
    /\ Refresh
    /\ UNCHANGED <<contextVars, shown, managing, form, call, orphans, seen, budgets>>

(* The buttons compare the page the answer is about with its page count. *)
ChangePage ==
    /\ Present
    /\ question.view = "jobs" /\ IsAnswer(shown)
    /\ \E n \in {shown.question.page - 1, shown.question.page + 1} :
            /\ n >= 1
            /\ n > shown.question.page => shown.question.page < shown.rows
            /\ question' = Jobs(question.filter, n)
    /\ Refresh
    /\ UNCHANGED <<contextVars, shown, managing, form, call, orphans, seen, budgets>>

-----------------------------------------------------------------------------
(* Editing intents and facts *)

OnOverview == question = Overview /\ IsAnswer(shown)
Rows(s) == {i \in Ids : shown.rows[s][i] # NoRow}

OpenManager ==
    /\ Present
    /\ OnOverview /\ ~managing
    /\ managing' = TRUE
    /\ UNCHANGED <<contextVars, question, shown, read, form, call, orphans, seen, budgets>>

CloseManager ==
    /\ Present
    /\ managing
    /\ Unmounted
    /\ UNCHANGED <<contextVars, question, shown, read, seen, budgets>>

(* A form can be opened or cancelled while a change is in flight. *)
OpensForm(s) ==
    /\ Present
    /\ managing
    /\ \/ \E i \in Rows(s) \cup {0} : form' = [form EXCEPT ![s] = [kind |-> "edit", id |-> i]]
       \/ \E i \in Rows(s) : form' = [form EXCEPT ![s] = [kind |-> "remove", id |-> i]]
    /\ UNCHANGED <<contextVars, question, shown, read, managing, call, orphans, seen, budgets>>

Cancels(s) ==
    /\ Present
    /\ form[s] # NoForm
    /\ form' = [form EXCEPT ![s] = NoForm]
    /\ UNCHANGED <<contextVars, question, shown, read, managing, call, orphans, seen, budgets>>

(* An edited intent is saved as current if the overview last shown says it *)
(* is; one it does not have, if it shows none at all.                      *)
SavesAsCurrent(i) ==
    IF i \in Rows("intents") THEN shown.rows["intents"][i].selected
    ELSE Rows("intents") = {}

Request(op, i, draft, selected) ==
    [op |-> op, id |-> i, name |-> draft.name, pages |-> draft.pages, selected |-> selected]

(* A draft of an intent without a page is not sent. *)
Saves(s, i) ==
    IF s = "intents"
    THEN {Request("save-intent", i, d, SavesAsCurrent(i)) : d \in {d \in Drafts : d.pages # {}}}
    ELSE {Request("save-fact", i, d, FALSE) : d \in Drafts}

(* Of these only the id is sent. *)
SomeDraft == CHOOSE d \in Drafts : TRUE
Removal(s, i) ==
    Request(IF s = "intents" THEN "delete-intent" ELSE "delete-fact", i, SomeDraft, FALSE)
Selection(i) == Request("select-intent", i, SomeDraft, FALSE)

(* The requests the open form or the cards of a section can send. *)
Offered(s) ==
    (IF form[s] = NoForm THEN {}
     ELSE IF form[s].kind = "edit" THEN Saves(s, form[s].id)
     ELSE {Removal(s, form[s].id)})
    \cup {Selection(i) : i \in {j \in Rows("intents") :
                                s = "intents" /\ ~shown.rows["intents"][j].selected}}

(* The buttons are disabled while a change of their section is pending. *)
Submits(s) ==
    /\ Present
    /\ managing
    /\ call[s] = NoCall
    /\ calls < MaxCalls /\ calls' = calls + 1
    /\ \E r \in Offered(s) :
            call' = [call EXCEPT ![s] = [request |-> r, phase |-> "sent", at |-> 0]]
    /\ UNCHANGED <<contextVars, question, shown, read, managing, form, orphans, seen, visits, faults>>

-----------------------------------------------------------------------------
(* The service and the answers to the page's changes *)

(* Serving a change: done is the call as its answer travels back. *)
Serves(c, done) ==
    /\ c.phase = "sent"
    /\ \/ Commits(c.request) /\ done = [c EXCEPT !.phase = "accepted", !.at = changes + 1]
       \/ NothingToDelete(c.request) /\ done = [c EXCEPT !.phase = "accepted", !.at = changes]
       \/ Refuses(c.request) /\ done = [c EXCEPT !.phase = "refused"]

Served(c) == [request : {c.request}, phase : {"accepted", "refused"}, at : 0..MaxChanges]

ServeChange(s) ==
    /\ call[s] # NoCall
    /\ \E done \in Served(call[s]) :
            /\ Serves(call[s], done)
            /\ call' = [call EXCEPT ![s] = done]
    /\ UNCHANGED <<question, shown, read, managing, form, orphans, seen, kept, budgets>>

ServeOrphan(c) ==
    /\ \E done \in Served(c) :
            /\ Serves(c, done)
            /\ orphans' = (orphans \ {c}) \cup {done}
    /\ UNCHANGED <<question, shown, read, managing, form, call, seen, kept, budgets>>

Acknowledged(c) == seen' = IF c.at > seen THEN c.at ELSE seen

(* A change that was made closes the form that is open now, whichever it   *)
(* is, unless it was a selection, and reads the overview again.            *)
ChangeArrives(s) ==
    /\ Present
    /\ call[s] # NoCall /\ call[s].phase = "accepted"
    /\ call' = [call EXCEPT ![s] = NoCall]
    /\ form' = IF call[s].request.op = "select-intent" THEN form
               ELSE [form EXCEPT ![s] = NoForm]
    /\ Refresh
    /\ Acknowledged(call[s])
    /\ UNCHANGED <<contextVars, question, shown, managing, orphans, budgets>>

OrphanArrives(c) ==
    /\ Present
    /\ c.phase = "accepted"
    /\ orphans' = orphans \ {c}
    /\ Refresh
    /\ Acknowledged(c)
    /\ UNCHANGED <<contextVars, question, shown, managing, form, call, budgets>>

(* The service refused it, or no answer came, before or after the service  *)
(* made it: the form stays, with an error, and nothing is read.            *)
ChangeFails(s) ==
    /\ Present
    /\ call[s] # NoCall
    /\ \/ call[s].phase = "refused" /\ UNCHANGED faults
       \/ call[s].phase # "refused" /\ Faulty
    /\ call' = [call EXCEPT ![s] = NoCall]
    /\ UNCHANGED <<contextVars, question, shown, read, managing, form, orphans, seen, visits, calls>>

OrphanFails(c) ==
    /\ Present
    /\ \/ c.phase = "refused" /\ UNCHANGED faults
       \/ c.phase # "refused" /\ Faulty
    /\ orphans' = orphans \ {c}
    /\ UNCHANGED <<contextVars, question, shown, read, managing, form, call, seen, visits, calls>>

-----------------------------------------------------------------------------
(* Other clients of the service: the agent, another dashboard *)

OtherClient ==
    /\ \E r \in OthersAsk : Commits(r)
    /\ UNCHANGED <<pageVars, budgets>>

DashboardNext ==
    \/ Poll \/ Retry \/ ServeRead \/ ReadArrives \/ ReadFails
    \/ Leave \/ ComeBack \/ Visit \/ ChangeFilter \/ ChangePage
    \/ OpenManager \/ CloseManager
    \/ \E s \in Sections :
        \/ OpensForm(s) \/ Cancels(s) \/ Submits(s)
        \/ ServeChange(s) \/ ChangeArrives(s) \/ ChangeFails(s)
    \/ \E c \in orphans : ServeOrphan(c) \/ OrphanArrives(c) \/ OrphanFails(c)
    \/ OtherClient

(* The page keeps polling and the service keeps answering.  Each new read  *)
(* aborts the last, so that answers arrive is strong fairness: an answer   *)
(* of the local service takes less than an interval again and again.       *)
Fairness ==
    /\ WF_vars(Poll)
    /\ WF_vars(ServeRead)
    /\ SF_vars(ReadArrives)

Spec == DashboardInit /\ [][DashboardNext]_vars /\ Fairness

-----------------------------------------------------------------------------
(* Properties *)

(* What the page shows, once no read is in flight, answers what it asks    *)
(* for now, and is no older than a change the service has acknowledged to  *)
(* it; an answer under way will not take the page back either.             *)
UpToDate(a) == a.question = question /\ a.version >= seen

ShowsWhatIsAsked ==
    /\ IsAnswer(read) => UpToDate(read)
    /\ read = Nothing /\ IsAnswer(shown) => UpToDate(shown)

(* The log of changes is an account of the tables (RecordsChange), however *)
(* the requests of all clients follow each other: creations, renamings,    *)
(* moves of the selection and cascading deletions, also of rows that       *)
(* another client has changed since they were read                         *)
(* (job-search-intent-repository.ts, profile-fact-repository.ts,           *)
(* research-report-repository.ts).                                         *)
ChangesRecorded == [][RecordsChange]_contextVars

(* Once the database stays as it is, the page comes to show it: failures,  *)
(* pages gone to, a document that was kept for a while and changes of      *)
(* others included.                                                        *)
DashboardCatchesUp ==
    <>[](kept \/
         IF question.view = "report" /\ reports[question.id] = NoRow
         THEN shown = Gone
         ELSE IsAnswer(shown) /\ shown.version = changes)
=============================================================================
