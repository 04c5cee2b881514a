------------------------------ MODULE Browser ------------------------------
(***************************************************************************)
(* Browser Session at work: tool calls, the preparation of a login and     *)
(* rounds of passive collection share the pages, the tabs and the control  *)
(* state, while the user and the pages themselves go on.                   *)
(***************************************************************************)
EXTENDS PassiveCollection

CONSTANT MaxEvents      \* what the user and the pages do of themselves

ASSUME EventsAssumption == MaxEvents \in Nat

VARIABLE events

vars == <<browserVars, toolVars, login, round, events>>

sessionVars == <<toolVars, login, round>>

(* The context starts with a page, wherever its session was left. *)
Init ==
    /\ nextTab = 2 /\ nextNode = 2
    /\ \E first \in Pages, place \in {"blank", "list", "login"} :
        /\ tabs = [t \in TabIds |-> IF t = 1 THEN first ELSE NoPage]
        /\ page = [p \in Pages |-> IF p # first THEN Unborn ELSE
               [state |-> "open", at |-> place, shows |-> "plain",
                nodes |-> IF InScope(place)
                          THEN <<[id |-> 1, href |-> "none", rendered |-> TRUE]>> ELSE <<>>]]
        /\ selected = IF InScope(place) THEN 1 ELSE 0
    /\ refs = {} /\ nextRef = 1 /\ calls = 0 /\ control = "active"
    /\ call = [c \in Calls |-> Idle]
    /\ login = NoLogin /\ round = NoRound /\ events = 0

-----------------------------------------------------------------------------
(* The user and the pages.                                                 *)

Happens == events < MaxEvents /\ events' = events + 1 /\ UNCHANGED sessionVars

PageAppears == Happens /\ \E p \in Pages, place \in {"detail", "login"} : Appears(p, place)

PageCloses == Happens /\ \E p \in Pages : Closes(p)

PageLoads ==
    /\ Happens
    /\ \E p \in Open, place \in {"list", "login", "outside"}, shows \in Shows :
           /\ shows = "plain" \/ place = "login"
           /\ \E href \in IF place = "list" THEN Jobs \cup {"outside"} ELSE {"none"} : Loads(p, place, shows, href)
    /\ UNCHANGED tabVars

(* The script of the page puts an element before the others. *)
ElementAppears ==
    /\ Happens
    /\ \E p \in Open :
        /\ page[p].nodes # <<>>
        /\ \E rendered \in BOOLEAN :
               page' = [page EXCEPT ![p].nodes =
                           <<[id |-> nextNode, href |-> Head(@).href, rendered |-> rendered]>> \o @]
    /\ nextNode' = nextNode + 1
    /\ UNCHANGED tabVars

(* An observation of an interruption hands control to the user. *)
Interrupted ==
    /\ events < MaxEvents /\ events' = events + 1
    /\ control # "user-handoff"
    /\ control' = "user-handoff"
    /\ UNCHANGED <<browserVars, refs, nextRef, call, calls, login, round>>

Environment == PageAppears \/ PageCloses \/ PageLoads \/ ElementAppears \/ Interrupted

ToolCall == \E c \in Calls : ToolCallNext(c) /\ UNCHANGED <<login, round, events>>

Next ==
    \/ Environment
    \/ ToolCall
    \/ LoginNext(Collecting) /\ UNCHANGED <<round, events>>
    \/ CollectionNext /\ UNCHANGED events

Spec == Init /\ [][Next]_vars
=============================================================================
