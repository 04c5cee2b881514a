------------------------------ MODULE ToolCalls ------------------------------
(***************************************************************************)
(* The browser tools of Browser Session (BrowserToolExecutor).  Every call *)
(* is a coroutine: it runs without interruption between two awaits, and    *)
(* anything may happen at an await.  References to elements belong to the  *)
(* session; an element is found again by its signature (its node, the URL  *)
(* and its content), and acted on by its position in the document.         *)
(***************************************************************************)
EXTENDS PageEvidence

CONSTANTS
    Calls,
    MaxCalls    \* tool calls and collection rounds in a behaviour

ASSUME CallsAssumption == MaxCalls \in Nat

VARIABLES
    refs,       \* #elementReferences
    nextRef,    \* #nextElementReference
    call,       \* call -> its local variables
    calls,      \* tool calls and collection rounds begun
    control     \* the control state: who may use the browser

toolVars == <<refs, nextRef, call, calls, control>>

(* A call: its tool and where it is in it, the tab and the page it is      *)
(* about, the reference it was given, what it read of the page and where,  *)
(* the position it acts on, the popup it caught, whether it closes the     *)
(* selected tab, whether the user returns control with it, and the first   *)
(* reference granted after it began.                                       *)
Idle == [op |-> "none", pc |-> "idle", tab |-> 0, page |-> NoPage, ref |-> [ref |-> 0],
         from |-> "blank", at |-> "blank", seen |-> <<>>, index |-> 0, popup |-> NoPage,
         wasSelected |-> FALSE, returning |-> FALSE, since |-> 0]

Now(c, op, pc) == call[c].op = op /\ call[c].pc = pc

(* #assertToolControl: a request is admitted while the agent has control. *)
Admitted(c) == call[c].op = "none" /\ control = "active" /\ calls < MaxCalls

Begins(c, op, pc, t) ==
    /\ calls' = calls + 1
    /\ call' = [call EXCEPT ![c] = [Idle EXCEPT !.op = op, !.pc = pc, !.tab = t, !.page = tabs[t],
                    !.from = IF op = "read" THEN page[tabs[t]].at ELSE "blank", !.since = nextRef]]

Goes(c, pc) == call' = [call EXCEPT ![c].pc = pc]
Returns(c) == call' = [call EXCEPT ![c] = Idle]

ClearElementReferences == refs' = {}

-----------------------------------------------------------------------------
(* browser_snapshot: expires every reference, reads the page after its     *)
(* settling time, and grants a reference to each element.  With            *)
(* userReturnedControl it is admitted while the user has control, and      *)
(* takes it back once a page of a platform has been read.                  *)

SnapshotBegins(c) ==
    \E t \in Registered \cup {0}, returning \in BOOLEAN :
        \E id \in Resolved(t) :
            /\ \/ Admitted(c)
               \/ call[c].op = "none" /\ returning /\ control = "user-handoff" /\ calls < MaxCalls
            /\ calls' = calls + 1
            /\ call' = [call EXCEPT ![c] = [Idle EXCEPT !.op = "snapshot", !.pc = "evaluate",
                            !.tab = id, !.page = tabs[id], !.returning = returning]]
            /\ MarkSelected(id)
            /\ ClearElementReferences
            /\ UNCHANGED <<page, nextNode, tabs, nextTab, nextRef, control>>

Granted(c, i) == [ref |-> nextRef + i - 1, tab |-> call[c].tab, at |-> call[c].at,
                  id |-> call[c].seen[i].id, href |-> call[c].seen[i].href]

SnapshotEnds(c) ==
    /\ Now(c, "snapshot", "evaluated")
    /\ refs' = refs \cup {Granted(c, i) : i \in Elements(call[c].seen)}
    /\ nextRef' = nextRef + Len(call[c].seen)
    /\ control' = IF call[c].returning /\ InScope(call[c].at) /\ control = "user-handoff"
                  THEN "active" ELSE control
    /\ Returns(c)
    /\ UNCHANGED <<browserVars, calls>>

-----------------------------------------------------------------------------
(* Reading a document, for a snapshot, to verify a reference or for job    *)
(* evidence.                                                               *)

Evaluate(c) ==
    /\ call[c].pc = "evaluate"
    /\ LET p == page[call[c].page] IN
        /\ p.state = "open"
        /\ call' = [call EXCEPT ![c].pc = "evaluated", ![c].seen = p.nodes, ![c].at = p.at]
    /\ UNCHANGED <<browserVars, refs, nextRef, calls, control>>

(* The page is closed, or does not answer in time. *)
Unreadable(c) ==
    /\ call[c].pc = "evaluate"
    /\ Returns(c)
    /\ UNCHANGED <<browserVars, refs, nextRef, calls, control>>

-----------------------------------------------------------------------------
(* browser_job_card_snapshot and browser_job_description_snapshot read the *)
(* evidence of a list or of a detail; the second one saves it.             *)

ReadBegins(c) ==
    \E t \in Registered \cup {0} :
        \E id \in Resolved(t) :
            /\ Admitted(c)
            /\ MarkSelected(id)
            /\ \/ Eligible(tabs[id]) /\ Begins(c, "read", "evaluate", id)
               \/ ~Eligible(tabs[id]) /\ calls' = calls + 1 /\ UNCHANGED call
            /\ UNCHANGED <<page, nextNode, tabs, nextTab, refs, nextRef, control>>

NoCardYet(c) == call[c].at = "list" /\ JobCards(call[c].seen) = <<>>

(* The page is another one, control has passed to the user, the evidence   *)
(* is missing, or the page was sent elsewhere while a first card was       *)
(* waited for.                                                             *)
EvidenceUnavailable(c) ==
    /\ Now(c, "read", "evaluated")
    /\ \/ ~SamePage(call[c].from, call[c].at)
       \/ control # "active"
       \/ Incomplete(call[c].at)
       \/ NoCardYet(c) /\ page[call[c].page].at # call[c].from
    /\ Returns(c)
    /\ UNCHANGED <<browserVars, refs, nextRef, calls, control>>

EvidenceRead(c) ==
    /\ Now(c, "read", "evaluated")
    /\ SamePage(call[c].from, call[c].at) /\ control = "active"
    /\ Goes(c, "saving")
    /\ UNCHANGED <<browserVars, refs, nextRef, calls, control>>

(* waitFor: no card yet, and the read is tried again within its budget,    *)
(* unless the page has been sent elsewhere.                                *)
ReadAgain(c) ==
    /\ Now(c, "read", "evaluated")
    /\ SamePage(call[c].from, call[c].at) /\ control = "active"
    /\ NoCardYet(c) /\ page[call[c].page].at = call[c].from
    /\ Goes(c, "evaluate")
    /\ UNCHANGED <<browserVars, refs, nextRef, calls, control>>

Saved(c) ==
    /\ Now(c, "read", "saving")
    /\ Returns(c)
    /\ UNCHANGED <<browserVars, refs, nextRef, calls, control>>

-----------------------------------------------------------------------------
(* Actions on an element: browser_click, browser_scroll with a reference,  *)
(* and, alike in control, browser_fill, browser_select and browser_reveal. *)

RefOps == {"click", "use", "scroll"}

ActionBegins(c) ==
    \E op \in RefOps, r \in refs :
        /\ Usable(r.tab) /\ Admitted(c)
        /\ calls' = calls + 1
        /\ call' = [call EXCEPT ![c] = [Idle EXCEPT !.op = op, !.pc = "evaluate", !.tab = r.tab,
                        !.page = tabs[r.tab], !.ref = r, !.since = nextRef]]
        /\ UNCHANGED <<browserVars, refs, nextRef, control>>

(* Mutant: the first element that looks like the one referred to. *)
MatchesContent(node, r, at) == node.href = r.href /\ at = r.at

(* The signature: the node, the URL of the document and its content. *)
Matches(node, r, at) == node.id = r.id /\ node.href = r.href /\ at = r.at

(* Where the element is by now: 0 if it is not there any more. *)
Positions(c) ==
    {i \in Elements(call[c].seen) : Matches(call[c].seen[i], call[c].ref, call[c].at)}

Verifies(c) == call[c].op \in RefOps /\ call[c].pc = "evaluated"

(* The reference no longer denotes an element: every reference expires.    *)
ReferenceChanged(c) ==
    /\ Verifies(c) /\ Positions(c) = {}
    /\ ClearElementReferences
    /\ Returns(c)
    /\ UNCHANGED <<browserVars, nextRef, calls, control>>

(* The tab was closed, or left the platform, while it was verified. *)
TargetLost(c) ==
    /\ Verifies(c) /\ Positions(c) # {}
    /\ call[c].op \in {"click", "scroll"} /\ ~Usable(call[c].tab)
    /\ Returns(c)
    /\ UNCHANGED <<browserVars, refs, nextRef, calls, control>>

LinkRefused(c) ==
    /\ Verifies(c) /\ Positions(c) # {}
    /\ call[c].op = "click" /\ Usable(call[c].tab)
    /\ call[c].ref.href = "outside"
    /\ ClearElementReferences
    /\ Returns(c)
    /\ UNCHANGED <<browserVars, nextRef, calls, control>>

Verified(c) ==
    /\ Verifies(c)
    /\ call[c].op \in {"click", "scroll"} => Usable(call[c].tab)
    /\ call[c].op = "click" => call[c].ref.href # "outside"
    /\ \E i \in First(Positions(c)) : call' = [call EXCEPT ![c].pc = "act", ![c].index = i]
    /\ selected' = IF call[c].op = "scroll" THEN call[c].tab ELSE selected
    /\ UNCHANGED <<page, nextNode, tabs, nextTab, refs, nextRef, calls, control>>

ScrollDocument(c) ==
    \E t \in Registered \cup {0} :
        \E id \in Resolved(t) :
            /\ Admitted(c)
            /\ Begins(c, "scroll", "act", id)
            /\ MarkSelected(id)
            /\ UNCHANGED <<page, nextNode, tabs, nextTab, refs, nextRef, control>>

(* The driver acts on whatever is at the position by now.                  *)
Present(c) ==
    /\ page[call[c].page].state = "open"
    /\ call[c].index \in DOMAIN page[call[c].page].nodes \cup {0}

Acted(c, popup) ==
    call' = [call EXCEPT ![c] = [Idle EXCEPT !.op = call[c].op, !.pc = "acted", !.tab = call[c].tab,
                                           !.popup = popup, !.since = call[c].since]]

Act(c) ==
    /\ call[c].pc = "act" /\ Present(c)
    /\ Acted(c, NoPage)
    /\ UNCHANGED <<browserVars, refs, nextRef, calls, control>>

(* A click loads a document in the page, or opens a popup, whose event     *)
(* comes within the time the call waits for it.                            *)
ClickLoads(c) ==
    /\ Now(c, "click", "act") /\ Present(c)
    /\ Loads(call[c].page, "detail", "plain", "none")
    /\ Acted(c, NoPage)
    /\ UNCHANGED <<tabVars, refs, nextRef, calls, control>>

ClickOpens(c) ==
    /\ Now(c, "click", "act") /\ Present(c)
    /\ \E p \in Pages, place \in {"detail", "blank"} :
        /\ Appears(p, place)
        /\ Acted(c, p)
    /\ UNCHANGED <<refs, nextRef, calls, control>>

SelectPopup(c) ==
    /\ Now(c, "click", "acted") /\ call[c].popup # NoPage
    /\ SelectPage(call[c].popup)
    /\ Goes(c, "selected")
    /\ UNCHANGED <<page, nextNode, refs, nextRef, calls, control>>

(* Mutant: an error after the action leaves the references. *)
ActionEndsWell(c) ==
    /\ call[c].pc = "selected" \/ (call[c].pc = "acted" /\ call[c].popup = NoPage)
    /\ refs' = IF Usable(call[c].tab) THEN {} ELSE refs
    /\ Returns(c)
    /\ UNCHANGED <<browserVars, nextRef, calls, control>>

(* However it ends: what follows the action may fail. *)
ActionEnds(c) ==
    /\ call[c].pc = "selected" \/ (call[c].pc = "acted" /\ call[c].popup = NoPage)
    /\ ClearElementReferences
    /\ Returns(c)
    /\ UNCHANGED <<browserVars, nextRef, calls, control>>

(* The element is gone, or does not become actionable in time. *)
ActionFails(c) ==
    /\ call[c].pc = "act"
    /\ ClearElementReferences
    /\ Returns(c)
    /\ UNCHANGED <<browserVars, nextRef, calls, control>>

-----------------------------------------------------------------------------
(* browser_navigate, and how a page is sent somewhere.                     *)

NavigateBegins(c) ==
    \E t \in Registered \cup {0} :
        \E id \in Resolved(t) :
            /\ Admitted(c)
            /\ Begins(c, "navigate", "front", id)
            /\ MarkSelected(id)
            /\ UNCHANGED <<page, nextNode, tabs, nextTab, refs, nextRef, control>>

BroughtToFront(c) ==
    /\ Now(c, "navigate", "front")
    /\ page[call[c].page].state = "open"
    /\ ClearElementReferences
    /\ Goes(c, "goto")
    /\ UNCHANGED <<browserVars, nextRef, calls, control>>

FrontFails(c) ==
    /\ Now(c, "navigate", "front")
    /\ page[call[c].page].state = "closed"
    /\ Returns(c)
    /\ UNCHANGED <<browserVars, refs, nextRef, calls, control>>

(* The document that loads may not be the one asked for. *)
Goto(c) ==
    /\ call[c].op \in {"navigate", "ensure"} /\ call[c].pc = "goto"
    /\ page[call[c].page].state = "open"
    /\ \/ \E place \in {"login", "outside"} : Loads(call[c].page, place, "plain", "none")
       \/ \E href \in Jobs : Loads(call[c].page, "list", "plain", href)
    /\ Returns(c)
    /\ UNCHANGED <<tabVars, refs, nextRef, calls, control>>

(* It times out, or the page is closed. *)
GotoFails(c) ==
    /\ call[c].op \in {"navigate", "ensure"} /\ call[c].pc = "goto"
    /\ Returns(c)
    /\ UNCHANGED <<browserVars, refs, nextRef, calls, control>>

-----------------------------------------------------------------------------
(* browser_tabs.  Everything but list expires the references first, also   *)
(* when it fails; so does browser_sync_job_engagement, which then does not *)
(* concern the tabs.                                                       *)

Activate(c) ==
    \E t \in Registered \cup {0} :
        /\ Admitted(c)
        /\ calls' = calls + 1
        /\ \/ \E id \in Resolved(t) : MarkSelected(id)
           \/ Resolved(t) = {} /\ UNCHANGED selected
        /\ ClearElementReferences
        /\ UNCHANGED <<page, nextNode, tabs, nextTab, nextRef, call, control>>

SynchronizeBegins(c) ==
    /\ Admitted(c)
    /\ calls' = calls + 1
    /\ ClearElementReferences
    /\ UNCHANGED <<browserVars, nextRef, call, control>>

EnsureSelects(c) ==
    /\ Admitted(c)
    /\ \E id \in Ensured : SelectPage(tabs[id])
    /\ calls' = calls + 1
    /\ ClearElementReferences
    /\ UNCHANGED <<page, nextNode, nextRef, call, control>>

EnsureNavigates(c) ==
    \E id \in IF Ensured # {} THEN Ensured ELSE BlankTab :
        /\ Admitted(c)
        /\ Begins(c, "ensure", "goto", id)
        /\ MarkSelected(id)
        /\ ClearElementReferences
        /\ UNCHANGED <<page, nextNode, tabs, nextTab, nextRef, control>>

EnsureCreates(c) ==
    /\ Admitted(c)
    /\ Ensured = {} /\ BlankTab = {}
    /\ calls' = calls + 1
    /\ call' = [call EXCEPT ![c] = [Idle EXCEPT !.op = "ensure", !.pc = "create",
                                              !.since = nextRef]]
    /\ ClearElementReferences
    /\ UNCHANGED <<browserVars, nextRef, control>>

NewPage(c) ==
    /\ call[c].pc = "create"
    /\ \E p \in Pages :
        /\ Appears(p, "blank")
        /\ call' = [call EXCEPT ![c].pc = "created", ![c].page = p]
    /\ UNCHANGED <<refs, nextRef, calls, control>>

Created(c) ==
    /\ call[c].pc = "created"
    /\ SelectPage(call[c].page)
    /\ call' = [call EXCEPT ![c].pc = "goto", ![c].tab = selected']
    /\ UNCHANGED <<page, nextNode, refs, nextRef, calls, control>>

CloseBegins(c) ==
    \E t \in Registered :
        /\ Usable(t) /\ Admitted(c)
        /\ calls' = calls + 1
        /\ call' = [call EXCEPT ![c] = [Idle EXCEPT !.op = "close", !.pc = "closing", !.tab = t,
                        !.page = tabs[t], !.wasSelected = (selected = t)]]
        /\ ClearElementReferences
        /\ UNCHANGED <<browserVars, nextRef, control>>

ClosePage(c) ==
    /\ Now(c, "close", "closing")
    /\ \/ Closes(call[c].page)
       \/ page[call[c].page].state = "closed" /\ UNCHANGED browserVars
    /\ Goes(c, "closed")
    /\ UNCHANGED <<refs, nextRef, calls, control>>

(* Closing the selected tab selects a remaining one. *)
CloseEnds(c) ==
    /\ Now(c, "close", "closed")
    /\ LET remaining == First({t \in Registered : Usable(t)})
       IN  \/ call[c].wasSelected /\ \E t \in remaining : MarkSelected(t)
           \/ ~(call[c].wasSelected /\ remaining # {}) /\ UNCHANGED selected
    /\ Returns(c)
    /\ UNCHANGED <<page, nextNode, tabs, nextTab, refs, nextRef, calls, control>>

-----------------------------------------------------------------------------
ToolCallNext(c) ==
    \/ SnapshotBegins(c) \/ SnapshotEnds(c) \/ Evaluate(c) \/ Unreadable(c)
    \/ ActionBegins(c) \/ ReferenceChanged(c) \/ TargetLost(c) \/ LinkRefused(c)
    \/ Verified(c) \/ ScrollDocument(c) \/ Act(c) \/ ClickLoads(c) \/ ClickOpens(c)
    \/ SelectPopup(c) \/ ActionEnds(c) \/ ActionFails(c)
    \/ NavigateBegins(c) \/ BroughtToFront(c) \/ FrontFails(c) \/ Goto(c) \/ GotoFails(c)
    \/ ReadBegins(c) \/ EvidenceUnavailable(c) \/ EvidenceRead(c) \/ ReadAgain(c) \/ Saved(c)
    \/ Activate(c) \/ SynchronizeBegins(c) \/ EnsureSelects(c) \/ EnsureNavigates(c) \/ EnsureCreates(c)
    \/ NewPage(c) \/ Created(c) \/ CloseBegins(c) \/ ClosePage(c) \/ CloseEnds(c)

-----------------------------------------------------------------------------
(* What is acted on is the element the reference was granted for, in every *)
(* document that has not changed since it was verified: a position alone   *)
(* says nothing when elements come and go above it.                        *)
ActsAsCaptured(c) ==
    LET p == page[call[c].page] IN
    (/\ call[c].pc = "act" /\ call'[c].pc = "acted" /\ call[c].index # 0
     /\ p.nodes = call[c].seen /\ p.at = call[c].at)
        => p.nodes[call[c].index].id = call[c].ref.id

ActsOnCaptured == [][\A c \in Calls : ActsAsCaptured(c)]_<<browserVars, toolVars>>

(* When a call that acted on a page, or sent it somewhere, is over, no     *)
(* reference of the time it began is left, whichever way it ended and      *)
(* whatever other calls granted or expired meanwhile.                      *)
Expires(c) ==
    (call[c].pc \in {"acted", "selected", "goto"} /\ call'[c].pc = "idle")
        => \A r \in refs' : r.ref >= call[c].since

ActionsExpire == [][\A c \in Calls : Expires(c)]_<<browserVars, toolVars>>
=============================================================================
