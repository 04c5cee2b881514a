---------------------------- MODULE BrowserTabs ----------------------------
(***************************************************************************)
(* The pages of the browser and the tabs Browser Session knows them by.    *)
(* A page is a document at a place: the sequence of its elements, what it  *)
(* shows of the login, and whether it is open.  A tab is a number that is  *)
(* never given to another page; the context's "page" event registers a new *)
(* page at once, the page's "close" event removes it.                      *)
(***************************************************************************)
EXTENDS Naturals, Sequences, FiniteSets

CONSTANTS
    Pages,      \* the page objects the browser may have
    NoPage,
    TabIds,     \* an initial segment of the positive integers
    Jobs        \* destinations of the job links of the platform

ASSUME TabsAssumption == NoPage \notin Pages /\ 1 \in TabIds /\ TabIds \subseteq Nat \ {0}

VARIABLES
    page,       \* page -> its state and its document
    nextNode,   \* the next DOM node
    tabs,       \* tab -> its page (#pages and its inverse #pageIds)
    nextTab,    \* #nextPageId
    selected    \* #selectedPageId, 0 for null

tabVars == <<tabs, nextTab, selected>>
browserVars == <<page, nextNode, tabs, nextTab, selected>>

(* Where a page can be: on the platform (a list of jobs, the detail of a   *)
(* job, its login route, anything else), empty, or outside.                *)
Platform == {"list", "detail", "login", "entry"}
Places == Platform \cup {"blank", "outside"}
InScope(place) == place \in Platform

(* An element: its node, where its link goes, if anywhere, and whether it  *)
(* is rendered.                                                            *)
Hrefs == Jobs \cup {"none", "outside"}

(* What a document shows: evidence of an account, an enabled control for   *)
(* the user, or neither.                                                   *)
Shows == {"account", "control", "plain"}

Unborn == [state |-> "none", at |-> "blank", shows |-> "plain", nodes |-> <<>>]

Open == {p \in Pages : page[p].state = "open"}

(* A new document: one element if it is on the platform, or none. *)
Loads(p, place, shows, href) ==
    /\ page' = [page EXCEPT ![p] =
           [state |-> "open", at |-> place, shows |-> shows,
            nodes |-> IF InScope(place)
                      THEN <<[id |-> nextNode, href |-> href, rendered |-> TRUE]>> ELSE <<>>]]
    /\ nextNode' = nextNode + (IF InScope(place) THEN 1 ELSE 0)

-----------------------------------------------------------------------------
(* The registry.                                                           *)

Registered == {t \in TabIds : tabs[t] # NoPage}

TabOf(p) == {t \in Registered : tabs[t] = p}

MarkSelected(t) == selected' = t

(* #register for a page that has no tab.  Nothing removes the tab of a     *)
(* page that is closed already: its close event has been.                  *)
NewTab(p) ==
    /\ nextTab \in TabIds
    /\ tabs' = [tabs EXCEPT ![nextTab] = p]
    /\ nextTab' = nextTab + 1

(* selectPage: a page that lost its tab gets another one. *)
SelectPage(p) ==
    \/ /\ TabOf(p) # {}
       /\ \E t \in TabOf(p) : MarkSelected(t)
       /\ UNCHANGED <<tabs, nextTab>>
    \/ /\ TabOf(p) = {}
       /\ NewTab(p)
       /\ MarkSelected(nextTab)

(* A page appears: the "page" event registers it, and selects it if it is  *)
(* on the platform already.                                                *)
Appears(p, place) ==
    /\ page[p].state = "none"
    /\ Loads(p, place, "plain", "none")
    /\ NewTab(p)
    /\ selected' = IF InScope(place) THEN nextTab ELSE selected

(* Mutant: the tab of a closed page stays selected. *)
ClosesSelected(p) ==
    /\ page[p].state = "open"
    /\ page' = [page EXCEPT ![p].state = "closed"]
    /\ tabs' = [t \in TabIds |-> IF tabs[t] = p THEN NoPage ELSE tabs[t]]
    /\ UNCHANGED <<nextNode, nextTab, selected>>

Closes(p) ==
    /\ page[p].state = "open"
    /\ page' = [page EXCEPT ![p].state = "closed"]
    /\ tabs' = [t \in TabIds |-> IF tabs[t] = p THEN NoPage ELSE tabs[t]]
    /\ selected' = IF selected \in TabOf(p) THEN 0 ELSE selected
    /\ UNCHANGED <<nextNode, nextTab>>

-----------------------------------------------------------------------------
(* How a call finds its tab.  A closed page keeps its last place.          *)

(* requireNavigationPage *)
Usable(t) ==
    /\ t \in Registered
    /\ page[tabs[t]].state = "open"
    /\ InScope(page[tabs[t]].at)

(* The first of some tabs: pages are found in the order of their tabs. *)
First(ts) == {t \in ts : \A u \in ts : t <= u}

(* What f has at some numbers, in the order of these. *)
InOrder(f, S) ==
    [k \in 1..Cardinality(S) |-> f[CHOOSE i \in S : Cardinality({j \in S : j < i}) = k - 1]]

(* resolveNavigationPage: the tab asked for, or the selected one, or the   *)
(* first; none if the call fails.                                          *)
Resolved(t) ==
    IF t # 0 THEN {u \in {t} : Usable(u)}
    ELSE IF selected # 0 /\ Usable(selected) THEN {selected}
    ELSE First({u \in Registered : Usable(u)})

(* The tab browser_tabs ensure reuses, or the empty one it navigates: it   *)
(* does not ask whether the page is open.                                  *)
Ensured == First({t \in Registered : InScope(page[tabs[t]].at)})

BlankTab == First({t \in Registered : page[tabs[t]].at = "blank"})

-----------------------------------------------------------------------------
(* Invariant (BrowserTabs): every open page has one tab, no tab is given   *)
(* twice, and the selected tab is one there is, whatever opens and closes  *)
(* while a call that will select it is waiting.                            *)
RegistryInv ==
    /\ \A p \in Open : TabOf(p) # {}
    /\ \A t, u \in Registered : tabs[t] = tabs[u] => t = u
    /\ \A t \in Registered : t < nextTab /\ page[tabs[t]].state # "none"
    /\ selected # 0 => selected \in Registered
=============================================================================
