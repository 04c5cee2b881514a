---------------------------- MODULE BrowserProofs ----------------------------
(***************************************************************************)
(* Browser Session at work, for any pages, tabs, calls, jobs and bounds:   *)
(* the registry of tabs stays consistent, what is acted on is what a       *)
(* reference was granted for, and no reference survives a page action;     *)
(* what is kept is evidence of its page, what is handed over is at the     *)
(* login, rounds and preparations come to their end, and the user's        *)
(* control is only taken back as BrowserAuthority allows.                  *)
(***************************************************************************)
EXTENDS Browser, FiniteSetTheorems, TLAPS

-----------------------------------------------------------------------------
(* The inductive invariant                                                 *)

Nodes == [id : Nat, href : Hrefs, rendered : BOOLEAN]

Documents == [state : {"none", "open", "closed"}, at : Places, shows : Shows, nodes : Seq(Nodes)]

Typed ==
    /\ page \in [Pages -> Documents]
    /\ nextNode \in Nat
    /\ tabs \in [TabIds -> Pages \cup {NoPage}]
    /\ nextTab \in Nat
    /\ nextRef \in Nat
    /\ \A r \in refs : r.ref \in Nat

(* A page that a coroutine will select, and that may need a tab then.      *)
Born(p) == p \in Pages /\ page[p].state # "none"

IsCall(x) ==
    x = [op |-> x.op, pc |-> x.pc, tab |-> x.tab, page |-> x.page, ref |-> x.ref,
         from |-> x.from, at |-> x.at, seen |-> x.seen, index |-> x.index, popup |-> x.popup,
         wasSelected |-> x.wasSelected, returning |-> x.returning, since |-> x.since]

(* A position that a call acts on is, in what it read, that of the element *)
(* its reference was granted for.                                          *)
Aimed(x) == x.index # 0 => x.seen[x.index].id = x.ref.id

(* No reference is older than the call. *)
Younger(x) == \A r \in refs : r.ref >= x.since

CallOK(x) ==
    /\ IsCall(x)
    /\ x.seen \in Seq(Nodes)
    /\ x.since \in Nat /\ x.since <= nextRef
    /\ x.op = "none" => x = Idle
    /\ x.popup # NoPage => Born(x.popup)
    /\ x.pc \in {"evaluate", "evaluated"} => x.page \in Pages
    /\ x.pc = "created" => Born(x.page)
    /\ x.pc = "act" => Aimed(x)
    /\ x.pc \in {"create", "created", "goto"} => Younger(x)

CallsOK == call = [c \in Calls |-> call[c]] /\ \A c \in Calls : CallOK(call[c])

IsLogin(x) ==
    x = [pc |-> x.pc, pages |-> x.pages, ready |-> x.ready, candidates |-> x.candidates,
         round |-> x.round, page |-> x.page, opened |-> x.opened, handoff |-> x.handoff,
         read |-> x.read]

LoginOK == IsLogin(login) /\ (login.pc = "created" => Born(login.page))

BrowserInv == Typed /\ RegistryInv /\ CallsOK /\ LoginOK

-----------------------------------------------------------------------------
(* What stands in order at some numbers                                    *)

(* Those of S that come before i. *)
Below(S, i) == {j \in S : j < i}

LEMMA BelowGrows ==
    ASSUME NEW S \in SUBSET Nat, IsFiniteSet(S), NEW i \in S, NEW k \in S, i < k
    PROVE  Cardinality(Below(S, i)) # Cardinality(Below(S, k))
<1>1. IsFiniteSet(Below(S, k))
  BY FS_Subset DEF Below
<1>2. Below(S, i) \subseteq Below(S, k) /\ i \in Below(S, k) /\ i \notin Below(S, i)
  <2>1. i \in Nat /\ k \in Nat /\ \A j \in S : j \in Nat
    OBVIOUS
  <2>2. ~(i < i) /\ \A j \in S : j < i => j < k
    BY <2>1
  <2> QED
    BY <2>2 DEF Below
<1> QED
  BY <1>1, <1>2, FS_Subset

(* Every number below the cardinality of a finite set of numbers is the    *)
(* rank of one of them.                                                    *)
LEMMA Ranked ==
    ASSUME NEW S \in SUBSET Nat, IsFiniteSet(S)
    PROVE  /\ Cardinality(S) \in Nat
           /\ \A k \in 1 .. Cardinality(S) : \E i \in S : Cardinality(Below(S, i)) = k - 1
<1> DEFINE n == Cardinality(S)
           rank == [i \in S |-> Cardinality(Below(S, i))]
<1>1. n \in Nat
  BY FS_CardinalityType
<1>2. ASSUME NEW i \in S
      PROVE  Cardinality(Below(S, i)) \in 0 .. (n - 1)
  <2>1. Below(S, i) \in SUBSET S /\ Below(S, i) # S
    BY DEF Below
  <2>2. IsFiniteSet(Below(S, i)) /\ Cardinality(Below(S, i)) <= n /\ Cardinality(Below(S, i)) # n
    BY <2>1, FS_Subset
  <2>3. Cardinality(Below(S, i)) \in Nat
    BY <2>2, FS_CardinalityType
  <2> QED
    BY <1>1, <2>2, <2>3
<1>3. rank \in Injection(S, 0 .. (n - 1))
  <2>1. rank \in [S -> 0 .. (n - 1)]
    BY <1>2
  <2>2. \A i, k \in S : rank[i] = rank[k] => i = k
    <3>1. \A i, k \in S : i < k \/ k < i \/ i = k
      OBVIOUS
    <3> QED
      BY <3>1, BelowGrows
  <2> QED
    BY <2>1, <2>2, Zenon DEF Injection, IsInjective
<1>4. IsFiniteSet(0 .. (n - 1)) /\ Cardinality(0 .. (n - 1)) = n
  <2>1. 0 \in Int /\ n - 1 \in Int
    BY <1>1
  <2>2. (IF 0 > n - 1 THEN 0 ELSE (n - 1) - 0 + 1) = n
    BY <1>1
  <2> QED
    BY <2>1, <2>2, FS_Interval
<1>5. rank \in Surjection(S, 0 .. (n - 1))
  <2> HIDE DEF rank
  <2> QED
    BY <1>3, <1>4, FS_Injection
<1>6. \A k \in 0 .. (n - 1) : \E i \in S : rank[i] = k
  BY <1>5 DEF Surjection
<1> QED
  BY <1>1, <1>6

(* What stands in order at some numbers: each at its rank.                 *)
LEMMA Ordered ==
    ASSUME NEW f, NEW S \in SUBSET Nat, IsFiniteSet(S)
    PROVE  /\ Cardinality(S) \in Nat
           /\ InOrder(f, S) = [k \in 1 .. Cardinality(S) |-> InOrder(f, S)[k]]
           /\ \A k \in 1 .. Cardinality(S) :
                 \E i \in S : Cardinality(Below(S, i)) = k - 1 /\ InOrder(f, S)[k] = f[i]
<1>1. Cardinality(S) \in Nat
  BY Ranked
<1>2. InOrder(f, S) = [k \in 1 .. Cardinality(S) |-> InOrder(f, S)[k]]
  BY DEF InOrder
<1>3. ASSUME NEW k \in 1 .. Cardinality(S)
      PROVE  \E i \in S : Cardinality(Below(S, i)) = k - 1 /\ InOrder(f, S)[k] = f[i]
  <2>1. \E i \in S : Cardinality({j \in S : j < i}) = k - 1
    BY Ranked DEF Below
  <2>2. PICK i : i = CHOOSE e \in S : Cardinality({j \in S : j < e}) = k - 1
    OBVIOUS
  <2>3. i \in S /\ Cardinality({j \in S : j < i}) = k - 1
    BY <2>1, <2>2
  <2>4. InOrder(f, S)[k] = f[i]
    BY <2>2 DEF InOrder
  <2> QED
    BY <2>3, <2>4 DEF Below
<1> QED
  BY <1>1, <1>2, <1>3

LEMMA OrderedSeq ==
    ASSUME NEW f, NEW S \in SUBSET Nat, IsFiniteSet(S), NEW T, \A i \in S : f[i] \in T
    PROVE  InOrder(f, S) \in Seq(T)
<1>1. \A k \in 1 .. Cardinality(S) : InOrder(f, S)[k] \in T
  BY Ordered
<1>2. PICK n \in Nat : n = Cardinality(S)
  BY Ordered
<1>3. InOrder(f, S) \in [1 .. n -> T]
  BY <1>1, <1>2, Ordered
<1> QED
  BY <1>3

-----------------------------------------------------------------------------
(* What a step does to the pages and their tabs: documents load and the    *)
(* selection moves, or a page appears, closes or is selected.              *)

KeepsStates ==
    /\ page' \in [Pages -> Documents] /\ nextNode' \in Nat
    /\ \A p \in Pages : page'[p].state = page[p].state

Selects == selected' = selected \/ selected' \in Registered

Moves ==
    \/ KeepsStates /\ Selects /\ UNCHANGED <<tabs, nextTab>>
    \/ \E p \in Pages, place \in Places : Appears(p, place)
    \/ \E p \in Pages : Closes(p)
    \/ \E p \in Pages : Born(p) /\ SelectPage(p) /\ UNCHANGED <<page, nextNode>>

(* A document of the right kind loads. *)
LEMMA LoadsDocument ==
    ASSUME Typed, NEW p, NEW place \in Places, NEW shows \in Shows, NEW href \in Hrefs,
           Loads(p, place, shows, href)
    PROVE  /\ page' \in [Pages -> Documents] /\ nextNode' \in Nat
           /\ \A q \in Pages : q # p => page'[q] = page[q]
           /\ p \in Pages => page'[p].state = "open"
<1> DEFINE new == [state |-> "open", at |-> place, shows |-> shows,
                   nodes |-> IF InScope(place)
                             THEN <<[id |-> nextNode, href |-> href, rendered |-> TRUE]>> ELSE <<>>]
<1>1. <<[id |-> nextNode, href |-> href, rendered |-> TRUE]>> \in Seq(Nodes)
  BY DEF Typed, Nodes
<1>2. new \in Documents
  BY <1>1 DEF Documents
<1>3. page' = [page EXCEPT ![p] = new]
  BY DEF Loads
<1>4. nextNode' \in Nat
  BY DEF Loads, Typed
<1>5. new.state = "open"
  OBVIOUS
<1> HIDE DEF new
<1> QED
  BY <1>2, <1>3, <1>4, <1>5 DEF Typed

(* A page that is open stays so when another document loads in it. *)
LEMMA LoadsInPlace ==
    ASSUME Typed, NEW p, NEW place \in Places, NEW shows \in Shows, NEW href \in Hrefs,
           Loads(p, place, shows, href), page[p].state = "open"
    PROVE  KeepsStates
BY LoadsDocument DEF KeepsStates

(* Nothing is removed from the registry for a page that is none. *)
LEMMA ClosesAny ==
    ASSUME Typed, NEW p, Closes(p)
    PROVE  Moves
<1>1. CASE p \in Pages
  BY <1>1 DEF Moves
<1>2. CASE p \notin Pages
  <2>1. page' = page
    BY <1>2 DEF Closes, Typed
  <2>2. tabs' = tabs
    BY <1>2 DEF Closes, Typed
  <2>3. selected' = selected
    BY <1>2 DEF Closes, TabOf, Registered, Typed
  <2> QED
    BY <2>1, <2>2, <2>3 DEF Moves, KeepsStates, Selects, Closes, Typed
<1> QED
  BY <1>1, <1>2

LEMMA MovesKeep ==
    ASSUME Typed, RegistryInv, Moves
    PROVE  /\ page' \in [Pages -> Documents] /\ nextNode' \in Nat
           /\ tabs' \in [TabIds -> Pages \cup {NoPage}] /\ nextTab' \in Nat
           /\ RegistryInv'
           /\ \A p : Born(p) => Born(p)'
<1> USE TabsAssumption
<1>1. CASE KeepsStates /\ Selects /\ UNCHANGED <<tabs, nextTab>>
  BY <1>1 DEF KeepsStates, Selects, RegistryInv, Registered, TabOf, Open, Born, Typed
<1>2. ASSUME NEW p \in Pages, NEW place \in Places, Appears(p, place)
      PROVE  /\ page' \in [Pages -> Documents] /\ nextNode' \in Nat
             /\ tabs' \in [TabIds -> Pages \cup {NoPage}] /\ nextTab' \in Nat
             /\ RegistryInv'
             /\ \A q : Born(q) => Born(q)'
  <2>1. /\ page' \in [Pages -> Documents] /\ nextNode' \in Nat
        /\ \A q \in Pages : q # p => page'[q] = page[q]
        /\ page'[p].state = "open"
    <3>1. "plain" \in Shows /\ "none" \in Hrefs
      BY DEF Shows, Hrefs
    <3>2. Loads(p, place, "plain", "none")
      BY <1>2 DEF Appears
    <3> QED
      BY <3>1, <3>2, LoadsDocument
  <2>2. /\ nextTab \in TabIds /\ tabs' = [tabs EXCEPT ![nextTab] = p] /\ nextTab' = nextTab + 1
        /\ page[p].state = "none"
        /\ selected' \in {nextTab, selected}
    BY <1>2 DEF Appears, NewTab
  <2>3. tabs[nextTab] = NoPage /\ \A t \in Registered : tabs[t] # p
    BY <2>2 DEF RegistryInv, Registered, Typed
  <2>4. Registered' = Registered \cup {nextTab} /\ tabs'[nextTab] = p
        /\ \A t \in Registered : tabs'[t] = tabs[t]
    BY <2>2, <2>3 DEF Registered, Typed
  <2>5. \A q \in Open' : TabOf(q)' # {}
    BY <2>1, <2>4 DEF RegistryInv, Open, TabOf
  <2>6. \A t, u \in Registered' : tabs'[t] = tabs'[u] => t = u
    BY <2>3, <2>4 DEF RegistryInv
  <2>7. \A t \in Registered' : t < nextTab' /\ page'[tabs'[t]].state # "none"
    <3>1. \A t \in Registered : t \in Nat /\ tabs[t] \in Pages
      BY DEF Registered, Typed
    <3> QED
      BY <2>1, <2>2, <2>3, <2>4, <3>1 DEF RegistryInv, Typed
  <2>8. selected' # 0 => selected' \in Registered'
    BY <2>2, <2>4 DEF RegistryInv
  <2> QED
    BY <2>1, <2>2, <2>5, <2>6, <2>7, <2>8 DEF RegistryInv, Born, Typed
<1>3. ASSUME NEW p \in Pages, Closes(p)
      PROVE  /\ page' \in [Pages -> Documents] /\ nextNode' \in Nat
             /\ tabs' \in [TabIds -> Pages \cup {NoPage}] /\ nextTab' \in Nat
             /\ RegistryInv'
             /\ \A q : Born(q) => Born(q)'
  <2>1. /\ page' \in [Pages -> Documents]
        /\ \A q \in Pages : q # p => page'[q] = page[q]
        /\ page'[p].state = "closed"
    <3>1. page' = [page EXCEPT ![p].state = "closed"]
      BY <1>3 DEF Closes
    <3> QED
      BY <3>1 DEF Typed, Documents
  <2>2. /\ tabs' = [t \in TabIds |-> IF tabs[t] = p THEN NoPage ELSE tabs[t]]
        /\ selected' = IF selected \in TabOf(p) THEN 0 ELSE selected
        /\ nextTab' = nextTab /\ nextNode' = nextNode
    BY <1>3 DEF Closes
  <2>3. Registered' = Registered \ TabOf(p) /\ \A t \in Registered' : tabs'[t] = tabs[t] /\ tabs[t] # p
    BY <2>2 DEF Registered, TabOf, Typed
  <2>4. \A q \in Open' : TabOf(q)' # {}
    <3> SUFFICES ASSUME NEW q \in Pages, page'[q].state = "open"
                 PROVE  \E t \in Registered' : tabs'[t] = q
      BY DEF Open, TabOf
    <3>1. q # p /\ q \in Open
      BY <2>1 DEF Open
    <3>2. PICK t \in Registered : tabs[t] = q
      BY <3>1 DEF RegistryInv, TabOf
    <3> QED
      BY <2>2, <3>1, <3>2 DEF Registered, Typed
  <2>5. \A t, u \in Registered' : tabs'[t] = tabs'[u] => t = u
    BY <2>3 DEF RegistryInv
  <2>6. \A t \in Registered' : t < nextTab' /\ page'[tabs'[t]].state # "none"
    BY <2>1, <2>2, <2>3 DEF RegistryInv, Registered, Typed
  <2>7. selected' # 0 => selected' \in Registered'
    BY <2>2, <2>3 DEF RegistryInv
  <2> QED
    BY <2>1, <2>2, <2>4, <2>5, <2>6, <2>7 DEF RegistryInv, Born, Typed
<1>4. ASSUME NEW p \in Pages, Born(p), SelectPage(p), UNCHANGED <<page, nextNode>>
      PROVE  /\ tabs' \in [TabIds -> Pages \cup {NoPage}] /\ nextTab' \in Nat
             /\ RegistryInv'
  <2>1. CASE \E t \in TabOf(p) : selected' = t /\ UNCHANGED <<tabs, nextTab>>
    <3>1. tabs' = tabs /\ nextTab' = nextTab /\ page' = page /\ selected' \in Registered
      BY <2>1, <1>4 DEF TabOf
    <3> QED
      BY <3>1 DEF RegistryInv, Registered, TabOf, Open, Typed
  <2>2. CASE TabOf(p) = {} /\ NewTab(p) /\ selected' = nextTab
    <3>1. nextTab \in TabIds /\ tabs' = [tabs EXCEPT ![nextTab] = p] /\ nextTab' = nextTab + 1
      BY <2>2 DEF NewTab
    <3>2. tabs[nextTab] = NoPage /\ \A t \in Registered : tabs[t] # p
      BY <2>2, <3>1 DEF RegistryInv, Registered, TabOf, Typed
    <3>3. Registered' = Registered \cup {nextTab} /\ tabs'[nextTab] = p
          /\ \A t \in Registered : tabs'[t] = tabs[t]
      BY <3>1, <3>2 DEF Registered, Typed
    <3>4. \A q \in Open' : TabOf(q)' # {}
      BY <1>4, <3>3 DEF RegistryInv, Open, TabOf
    <3>5. \A t, u \in Registered' : tabs'[t] = tabs'[u] => t = u
      BY <3>2, <3>3 DEF RegistryInv
    <3>6. \A t \in Registered' : t < nextTab' /\ page'[tabs'[t]].state # "none"
      <4>1. \A t \in Registered : t \in Nat
        BY DEF Registered
      <4> QED
        BY <1>4, <3>1, <3>2, <3>3, <4>1 DEF RegistryInv, Born, Typed
    <3> QED
      BY <2>2, <3>1, <3>3, <3>4, <3>5, <3>6 DEF RegistryInv, Typed
  <2> QED
    BY <1>4, <2>1, <2>2 DEF SelectPage, MarkSelected
<1> QED
  BY <1>1, <1>2, <1>3, <1>4 DEF Moves, Born, Typed

-----------------------------------------------------------------------------
(* The calls                                                               *)

(* References are only added with numbers that are new. *)
RefsGrow ==
    /\ nextRef' \in Nat /\ nextRef <= nextRef'
    /\ \A r \in refs' : r \in refs \/ (r.ref \in Nat /\ r.ref >= nextRef)

(* What the step of a call may do. *)
CallStep(c) ==
    /\ Moves
    /\ RefsGrow
    /\ call' = [call EXCEPT ![c] = call'[c]]
    /\ CallOK(call[c])'
    /\ Expires(c)

LEMMA OthersStay ==
    ASSUME Typed, NEW c \in Calls, CallOK(call[c]), call'[c] = call[c], RefsGrow,
           \A p : Born(p) => Born(p)'
    PROVE  CallOK(call[c])'
<1>1. Younger(call[c]) => Younger(call[c])'
  BY DEF RefsGrow, CallOK, Younger, Typed
<1>2. call[c].since <= nextRef'
  BY DEF RefsGrow, CallOK, Typed
<1>3. Born(call[c].popup) => Born(call[c].popup)'
  BY DEF Born
<1>4. Born(call[c].page) => Born(call[c].page)'
  BY DEF Born
<1> QED
  BY <1>1, <1>2, <1>3, <1>4 DEF CallOK, Aimed, IsCall

LEMMA RefsStay ==
    ASSUME Typed, UNCHANGED nextRef, refs' = refs \/ refs' = {}
    PROVE  RefsGrow
BY DEF RefsGrow, Typed

LEMMA PagesStay ==
    ASSUME Typed, UNCHANGED <<page, nextNode, tabs, nextTab>>, Selects
    PROVE  Moves
BY DEF Moves, KeepsStates, Typed

LEMMA ResolvedIsRegistered ==
    ASSUME NEW t \in Registered \cup {0}
    PROVE  Resolved(t) \subseteq Registered
BY DEF Resolved, First, Usable

LEMMA IdleOK == nextRef \in Nat => CallOK(Idle)
BY DEF CallOK, IsCall, Idle, Aimed

(* A call without a tool is idle. *)
LEMMA AtRest ==
    ASSUME CallsOK, NEW c \in Calls, call[c].op = "none"
    PROVE  call[c].pc = "idle"
BY DEF CallsOK, CallOK, Idle

(* A call that returns. *)
LEMMA ReturnsOK ==
    ASSUME NEW c \in Calls, CallsOK, Returns(c), nextRef' \in Nat
    PROVE  /\ call' = [call EXCEPT ![c] = call'[c]]
           /\ call'[c] = Idle
           /\ CallOK(call[c])'
<1>1. call' = [call EXCEPT ![c] = call'[c]] /\ call'[c] = Idle
  BY DEF Returns, CallsOK
<1> QED
  BY <1>1 DEF CallOK, IsCall, Idle, Aimed

(* A call that goes on to a place without conditions of its own. *)
LEMMA GoesOK ==
    ASSUME BrowserInv, NEW c \in Calls, NEW pc, Goes(c, pc), RefsGrow, \A p : Born(p) => Born(p)',
           call[c].op # "none", pc \notin {"idle", "act", "create", "created", "goto", "evaluated"},
           pc = "evaluate" => call[c].page \in Pages
    PROVE  /\ call' = [call EXCEPT ![c] = call'[c]]
           /\ call'[c].pc = pc
           /\ CallOK(call[c])'
<1>1. IsCall(call[c]) /\ call' = [call EXCEPT ![c] = [call[c] EXCEPT !.pc = pc]]
  BY DEF Goes, BrowserInv, CallsOK, CallOK
<1>2. call' = [call EXCEPT ![c] = call'[c]] /\ call'[c] = [call[c] EXCEPT !.pc = pc]
  BY <1>1 DEF BrowserInv, CallsOK
<1>3. /\ IsCall(call'[c]) /\ call'[c].pc = pc
      /\ call'[c].op = call[c].op /\ call'[c].seen = call[c].seen
      /\ call'[c].since = call[c].since /\ call'[c].popup = call[c].popup
      /\ call'[c].page = call[c].page
  BY <1>1, <1>2 DEF IsCall
<1>4. call[c].since <= nextRef' /\ call[c].since \in Nat
  BY DEF BrowserInv, CallsOK, CallOK, RefsGrow, Typed
<1>5. CallOK(call[c])
  BY DEF BrowserInv, CallsOK
<1>6. Born(call[c].popup) => Born(call[c].popup)'
  <2> DEFINE q == call[c].popup
  <2>1. Born(q) => q \in Pages /\ page'[q].state # "none"
    BY DEF Born
  <2> QED
    BY <1>3, <2>1 DEF Born
<1> QED
  BY <1>2, <1>3, <1>4, <1>5, <1>6 DEF CallOK, Born, IsCall

(* A call that begins: what it did not say is as in an idle one. *)
LEMMA BeginsOK ==
    ASSUME BrowserInv, NEW c \in Calls, NEW op, NEW pc, NEW t,
           Begins(c, op, pc, t), call[c].op = "none",
           UNCHANGED nextRef, op # "none", pc \notin {"idle", "create", "created"},
           tabs[t] \in Pages,
           pc = "goto" => refs' = {}
    PROVE  /\ call' = [call EXCEPT ![c] = call'[c]]
           /\ CallOK(call[c])'
<1> DEFINE from == IF op = "read" THEN page[tabs[t]].at ELSE "blank"
<1>1. PICK x : x = [Idle EXCEPT !.op = op, !.pc = pc, !.tab = t, !.page = tabs[t],
                               !.from = from, !.since = nextRef]
  OBVIOUS
<1>2. call' = [call EXCEPT ![c] = x]
  BY <1>1 DEF Begins
<1> HIDE DEF from
<1>3. x = [op |-> op, pc |-> pc, tab |-> t, page |-> tabs[t], ref |-> [ref |-> 0],
           from |-> from, at |-> "blank", seen |-> <<>>, index |-> 0, popup |-> NoPage,
           wasSelected |-> FALSE, returning |-> FALSE, since |-> nextRef]
  BY <1>1 DEF Idle
<1>4. /\ IsCall(x) /\ x.op = op /\ x.pc = pc /\ x.seen = <<>> /\ x.index = 0
      /\ x.popup = NoPage /\ x.since = nextRef /\ x.page = tabs[t]
  BY <1>3 DEF IsCall
<1>5. nextRef \in Nat /\ nextRef <= nextRef'
  BY DEF BrowserInv, Typed
<1>6. call' = [call EXCEPT ![c] = call'[c]] /\ call'[c] = x
  BY <1>2 DEF BrowserInv, CallsOK
<1>7. pc = "goto" => Younger(call[c])'
  BY DEF Younger
<1>8. <<>> \in Seq(Nodes)
  OBVIOUS
<1> QED
  BY <1>4, <1>5, <1>6, <1>7, <1>8 DEF CallOK, Aimed

(* The calls that return. *)
LEMMA ReturningSteps ==
    ASSUME BrowserInv, NEW c \in Calls,
           \/ Unreadable(c) \/ EvidenceUnavailable(c) \/ Saved(c) \/ FrontFails(c) \/ GotoFails(c)
           \/ ReferenceChanged(c) \/ TargetLost(c) \/ LinkRefused(c)
           \/ ActionEnds(c) \/ ActionFails(c)
    PROVE  CallStep(c)
<1> USE DEF BrowserInv
<1>1. Typed /\ CallOK(call[c]) /\ nextRef \in Nat /\ (call[c].op = "none" => call[c].pc = "idle")
  BY AtRest DEF CallsOK, Typed
<1>2. CASE Unreadable(c)
  <2> USE <1>2
  <2>1. Moves
    BY PagesStay DEF Unreadable, Selects, browserVars
  <2>2. RefsGrow
    BY RefsStay DEF Unreadable
  <2>3. call' = [call EXCEPT ![c] = call'[c]] /\ CallOK(call[c])'
    BY ReturnsOK, <1>1 DEF Unreadable
  <2>4. Expires(c)
    BY DEF Unreadable, Expires
  <2> QED
    BY <2>1, <2>2, <2>3, <2>4 DEF CallStep
<1>3. CASE EvidenceUnavailable(c)
  <2> USE <1>3
  <2>1. Moves
    BY PagesStay DEF EvidenceUnavailable, Selects, browserVars
  <2>2. RefsGrow
    BY RefsStay DEF EvidenceUnavailable
  <2>3. call' = [call EXCEPT ![c] = call'[c]] /\ CallOK(call[c])'
    BY ReturnsOK, <1>1 DEF EvidenceUnavailable
  <2>4. Expires(c)
    BY DEF EvidenceUnavailable, Expires, Now
  <2> QED
    BY <2>1, <2>2, <2>3, <2>4 DEF CallStep
<1>4. CASE Saved(c)
  <2> USE <1>4
  <2>1. Moves
    BY PagesStay DEF Saved, Selects, browserVars
  <2>2. RefsGrow
    BY RefsStay DEF Saved
  <2>3. call' = [call EXCEPT ![c] = call'[c]] /\ CallOK(call[c])'
    BY ReturnsOK, <1>1 DEF Saved
  <2>4. Expires(c)
    BY DEF Saved, Expires, Now
  <2> QED
    BY <2>1, <2>2, <2>3, <2>4 DEF CallStep
<1>5. CASE ReferenceChanged(c)
  <2> USE <1>5
  <2>1. Moves
    BY PagesStay DEF ReferenceChanged, Selects, browserVars
  <2>2. RefsGrow
    BY RefsStay DEF ReferenceChanged, ClearElementReferences
  <2>3. call' = [call EXCEPT ![c] = call'[c]] /\ CallOK(call[c])'
    BY ReturnsOK, <1>1 DEF ReferenceChanged
  <2>4. Expires(c)
    BY DEF ReferenceChanged, Expires, Verifies
  <2> QED
    BY <2>1, <2>2, <2>3, <2>4 DEF CallStep
<1>6. CASE TargetLost(c)
  <2> USE <1>6
  <2>1. Moves
    BY PagesStay DEF TargetLost, Selects, browserVars
  <2>2. RefsGrow
    BY RefsStay DEF TargetLost
  <2>3. call' = [call EXCEPT ![c] = call'[c]] /\ CallOK(call[c])'
    BY ReturnsOK, <1>1 DEF TargetLost
  <2>4. Expires(c)
    BY DEF TargetLost, Expires, Verifies
  <2> QED
    BY <2>1, <2>2, <2>3, <2>4 DEF CallStep
<1>7. CASE LinkRefused(c)
  <2> USE <1>7
  <2>1. Moves
    BY PagesStay DEF LinkRefused, Selects, browserVars
  <2>2. RefsGrow
    BY RefsStay DEF LinkRefused, ClearElementReferences
  <2>3. call' = [call EXCEPT ![c] = call'[c]] /\ CallOK(call[c])'
    BY ReturnsOK, <1>1 DEF LinkRefused
  <2>4. Expires(c)
    BY DEF LinkRefused, Expires, Verifies
  <2> QED
    BY <2>1, <2>2, <2>3, <2>4 DEF CallStep
<1>8. CASE ActionEnds(c)
  <2> USE <1>8
  <2>1. Moves
    BY PagesStay DEF ActionEnds, Selects, browserVars
  <2>2. RefsGrow
    BY RefsStay DEF ActionEnds, ClearElementReferences
  <2>3. call' = [call EXCEPT ![c] = call'[c]] /\ CallOK(call[c])'
    BY ReturnsOK, <1>1 DEF ActionEnds
  <2>4. Expires(c)
    BY DEF ActionEnds, ClearElementReferences, Expires
  <2> QED
    BY <2>1, <2>2, <2>3, <2>4 DEF CallStep
<1>9. CASE ActionFails(c)
  <2> USE <1>9
  <2>1. Moves
    BY PagesStay DEF ActionFails, Selects, browserVars
  <2>2. RefsGrow
    BY RefsStay DEF ActionFails, ClearElementReferences
  <2>3. call' = [call EXCEPT ![c] = call'[c]] /\ CallOK(call[c])'
    BY ReturnsOK, <1>1 DEF ActionFails
  <2>4. Expires(c)
    BY DEF ActionFails, Expires
  <2> QED
    BY <2>1, <2>2, <2>3, <2>4 DEF CallStep
<1>10. CASE FrontFails(c)
  <2> USE <1>10
  <2>1. Moves
    BY PagesStay DEF FrontFails, Selects, browserVars
  <2>2. RefsGrow
    BY RefsStay DEF FrontFails
  <2>3. call' = [call EXCEPT ![c] = call'[c]] /\ CallOK(call[c])'
    BY ReturnsOK, <1>1 DEF FrontFails
  <2>4. Expires(c)
    BY DEF FrontFails, Expires, Now
  <2> QED
    BY <2>1, <2>2, <2>3, <2>4 DEF CallStep
<1>11. CASE GotoFails(c)
  <2> USE <1>11
  <2>1. Moves
    BY PagesStay DEF GotoFails, Selects, browserVars
  <2>2. RefsGrow
    BY RefsStay DEF GotoFails
  <2>3. call' = [call EXCEPT ![c] = call'[c]] /\ CallOK(call[c])'
    BY ReturnsOK, <1>1 DEF GotoFails
  <2>4. Expires(c)
    BY <1>1 DEF GotoFails, Expires, CallOK, Younger
  <2> QED
    BY <2>1, <2>2, <2>3, <2>4 DEF CallStep
<1> QED
  BY <1>2, <1>3, <1>4, <1>5, <1>6, <1>7, <1>8, <1>9, <1>10, <1>11

(* The calls that return when they have granted references, loaded a page  *)
(* or selected a tab.                                                      *)
LEMMA EndingSteps ==
    ASSUME BrowserInv, NEW c \in Calls,
           SnapshotEnds(c) \/ Goto(c) \/ CloseEnds(c)
    PROVE  CallStep(c)
<1> USE DEF BrowserInv
<1>1. Typed /\ CallOK(call[c]) /\ nextRef \in Nat /\ (call[c].op = "none" => call[c].pc = "idle")
  BY AtRest DEF CallsOK, Typed
<1>2. CASE SnapshotEnds(c)
  <2> USE <1>2
  <2>1. Moves
    BY PagesStay DEF SnapshotEnds, Selects, browserVars
  <2>2. RefsGrow
    <3>1. call[c].seen \in Seq(Nodes)
      BY <1>1 DEF CallOK
    <3>2. Len(call[c].seen) \in Nat /\ DOMAIN call[c].seen = 1 .. Len(call[c].seen)
      BY <3>1
    <3>3. \A i \in Elements(call[c].seen) : Granted(c, i).ref \in Nat /\ Granted(c, i).ref >= nextRef
      BY <1>1, <3>2 DEF Elements, Granted
    <3> QED
      BY <1>1, <3>2, <3>3 DEF SnapshotEnds, RefsGrow
  <2>3. call' = [call EXCEPT ![c] = call'[c]] /\ CallOK(call[c])'
    <3>1. nextRef' \in Nat
      BY <2>2 DEF RefsGrow
    <3> QED
      BY ReturnsOK, <3>1 DEF SnapshotEnds
  <2>4. Expires(c)
    BY DEF SnapshotEnds, Expires, Now
  <2> QED
    BY <2>1, <2>2, <2>3, <2>4 DEF CallStep
<1>3. CASE Goto(c)
  <2> USE <1>3
  <2>1. Moves
    <3>1. PICK place \in Places, href \in Hrefs : Loads(call[c].page, place, "plain", href)
      BY DEF Goto, Places, Platform, Hrefs
    <3>2. "plain" \in Shows
      BY DEF Shows
    <3>3. KeepsStates
      BY <1>1, <3>1, <3>2, LoadsInPlace DEF Goto
    <3> QED
      BY <3>3 DEF Moves, Selects, Goto, tabVars
  <2>2. RefsGrow
    BY RefsStay DEF Goto
  <2>3. call' = [call EXCEPT ![c] = call'[c]] /\ CallOK(call[c])'
    BY ReturnsOK, <1>1 DEF Goto
  <2>4. Expires(c)
    BY <1>1 DEF Goto, Expires, CallOK, Younger
  <2> QED
    BY <2>1, <2>2, <2>3, <2>4 DEF CallStep
<1>4. CASE CloseEnds(c)
  <2> USE <1>4
  <2>1. Moves
    BY PagesStay DEF CloseEnds, Selects, MarkSelected, First
  <2>2. RefsGrow
    BY RefsStay DEF CloseEnds
  <2>3. call' = [call EXCEPT ![c] = call'[c]] /\ CallOK(call[c])'
    BY ReturnsOK, <1>1 DEF CloseEnds
  <2>4. Expires(c)
    BY DEF CloseEnds, Expires, Now
  <2> QED
    BY <2>1, <2>2, <2>3, <2>4 DEF CallStep
<1> QED
  BY <1>2, <1>3, <1>4

(* The calls that go on. *)
LEMMA GoingSteps ==
    ASSUME BrowserInv, NEW c \in Calls,
           EvidenceRead(c) \/ ReadAgain(c) \/ SelectPopup(c) \/ ClosePage(c)
    PROVE  CallStep(c)
<1> USE DEF BrowserInv
<1>1. Typed /\ CallOK(call[c]) /\ nextRef \in Nat /\ (call[c].op = "none" => call[c].pc = "idle")
  BY AtRest DEF CallsOK, Typed
<1>2. CASE EvidenceRead(c)
  <2> USE <1>2
  <2>1. Moves
    BY PagesStay DEF EvidenceRead, Selects, browserVars
  <2>2. RefsGrow
    BY RefsStay DEF EvidenceRead
  <2>3. call' = [call EXCEPT ![c] = call'[c]] /\ CallOK(call[c])'
    <3>1. \A p : Born(p) => Born(p)'
      BY <1>1, <2>1, MovesKeep
    <3> QED
      BY GoesOK, <2>2, <3>1, <1>1 DEF EvidenceRead, Now
  <2>4. Expires(c)
    BY DEF EvidenceRead, Expires, Now
  <2> QED
    BY <2>1, <2>2, <2>3, <2>4 DEF CallStep
<1>3. CASE ReadAgain(c)
  <2> USE <1>3
  <2>1. Moves
    BY PagesStay DEF ReadAgain, Selects, browserVars
  <2>2. RefsGrow
    BY RefsStay DEF ReadAgain
  <2>3. call' = [call EXCEPT ![c] = call'[c]] /\ CallOK(call[c])'
    <3>1. \A p : Born(p) => Born(p)'
      BY <1>1, <2>1, MovesKeep
    <3> QED
      BY GoesOK, <2>2, <3>1, <1>1 DEF ReadAgain, Now, CallOK
  <2>4. Expires(c)
    BY DEF ReadAgain, Expires, Now
  <2> QED
    BY <2>1, <2>2, <2>3, <2>4 DEF CallStep
<1>4. CASE SelectPopup(c)
  <2> USE <1>4
  <2>1. Moves
    <3>1. Born(call[c].popup)
      BY <1>1 DEF SelectPopup, CallOK
    <3> QED
      BY <3>1 DEF SelectPopup, Moves, Born
  <2>2. RefsGrow
    BY RefsStay DEF SelectPopup
  <2>3. call' = [call EXCEPT ![c] = call'[c]] /\ CallOK(call[c])'
    <3>1. \A p : Born(p) => Born(p)'
      BY <1>1, <2>1, MovesKeep
    <3> QED
      BY GoesOK, <2>2, <3>1, <1>1 DEF SelectPopup, Now
  <2>4. Expires(c)
    BY <1>1 DEF SelectPopup, Expires, Goes, CallsOK, CallOK, IsCall
  <2> QED
    BY <2>1, <2>2, <2>3, <2>4 DEF CallStep
<1>5. CASE ClosePage(c)
  <2> USE <1>5
  <2>1. Moves
    BY <1>1, ClosesAny, PagesStay DEF ClosePage, Selects, browserVars
  <2>2. RefsGrow
    BY RefsStay DEF ClosePage
  <2>3. call' = [call EXCEPT ![c] = call'[c]] /\ CallOK(call[c])'
    <3>1. \A p : Born(p) => Born(p)'
      BY <1>1, <2>1, MovesKeep
    <3> QED
      BY GoesOK, <2>2, <3>1, <1>1 DEF ClosePage, Now
  <2>4. Expires(c)
    BY DEF ClosePage, Expires, Now
  <2> QED
    BY <2>1, <2>2, <2>3, <2>4 DEF CallStep
<1> QED
  BY <1>2, <1>3, <1>4, <1>5

(* The calls that begin, and those that are over at once. *)
LEMMA BeginningSteps ==
    ASSUME BrowserInv, NEW c \in Calls,
           \/ ScrollDocument(c) \/ NavigateBegins(c) \/ EnsureNavigates(c) \/ ReadBegins(c)
           \/ Activate(c) \/ SynchronizeBegins(c) \/ EnsureSelects(c)
    PROVE  CallStep(c)
<1> USE DEF BrowserInv
<1>1. Typed /\ CallOK(call[c]) /\ nextRef \in Nat /\ (call[c].op = "none" => call[c].pc = "idle")
  BY AtRest DEF CallsOK, Typed
<1>2. CASE ScrollDocument(c)
  <2> USE <1>2
  <2>1. Moves
    BY PagesStay, ResolvedIsRegistered DEF ScrollDocument, Selects, MarkSelected
  <2>2. RefsGrow
    BY RefsStay DEF ScrollDocument
  <2>3. call' = [call EXCEPT ![c] = call'[c]] /\ CallOK(call[c])'
    BY <1>1, BeginsOK, ResolvedIsRegistered DEF ScrollDocument, Admitted, Registered, Typed
  <2>4. Expires(c)
    BY <1>1 DEF ScrollDocument, Admitted, Expires
  <2> QED
    BY <2>1, <2>2, <2>3, <2>4 DEF CallStep
<1>3. CASE NavigateBegins(c)
  <2> USE <1>3
  <2>1. Moves
    BY PagesStay, ResolvedIsRegistered DEF NavigateBegins, Selects, MarkSelected
  <2>2. RefsGrow
    BY RefsStay DEF NavigateBegins
  <2>3. call' = [call EXCEPT ![c] = call'[c]] /\ CallOK(call[c])'
    BY <1>1, BeginsOK, ResolvedIsRegistered DEF NavigateBegins, Admitted, Registered, Typed
  <2>4. Expires(c)
    BY <1>1 DEF NavigateBegins, Admitted, Expires
  <2> QED
    BY <2>1, <2>2, <2>3, <2>4 DEF CallStep
<1>4. CASE EnsureNavigates(c)
  <2> USE <1>4
  <2>1. Moves
    BY PagesStay DEF EnsureNavigates, Selects, MarkSelected, Ensured, BlankTab, First
  <2>2. RefsGrow
    BY RefsStay DEF EnsureNavigates, ClearElementReferences
  <2>3. call' = [call EXCEPT ![c] = call'[c]] /\ CallOK(call[c])'
    <3>1. PICK id \in Registered : Begins(c, "ensure", "goto", id)
      BY DEF EnsureNavigates, Ensured, BlankTab, First
    <3>2. tabs[id] \in Pages
      BY <1>1 DEF Registered, Typed
    <3> QED
      BY <3>1, <3>2, BeginsOK DEF EnsureNavigates, Admitted, ClearElementReferences
  <2>4. Expires(c)
    BY <1>1 DEF EnsureNavigates, Admitted, Expires
  <2> QED
    BY <2>1, <2>2, <2>3, <2>4 DEF CallStep
<1>5. CASE ReadBegins(c)
  <2> USE <1>5
  <2>1. Moves
    BY PagesStay, ResolvedIsRegistered DEF ReadBegins, Selects, MarkSelected
  <2>2. RefsGrow
    BY RefsStay DEF ReadBegins
  <2>3. call' = [call EXCEPT ![c] = call'[c]] /\ CallOK(call[c])'
    <3>1. CASE call' = call
      BY <3>1, <1>1, OthersStay, <2>1, <2>2, MovesKeep DEF CallsOK
    <3>2. CASE call' # call
      <4>1. PICK id \in Registered : Begins(c, "read", "evaluate", id)
        BY <3>2, ResolvedIsRegistered DEF ReadBegins
      <4>2. tabs[id] \in Pages
        BY <1>1 DEF Registered, Typed
      <4> QED
        BY <4>1, <4>2, BeginsOK DEF ReadBegins, Admitted
    <3> QED
      BY <3>1, <3>2
  <2>4. Expires(c)
    BY <1>1 DEF ReadBegins, Admitted, Expires
  <2> QED
    BY <2>1, <2>2, <2>3, <2>4 DEF CallStep
<1>6. CASE Activate(c)
  <2> USE <1>6
  <2>1. Moves
    BY PagesStay, ResolvedIsRegistered DEF Activate, Selects, MarkSelected
  <2>2. RefsGrow
    BY RefsStay DEF Activate, ClearElementReferences
  <2>3. call' = [call EXCEPT ![c] = call'[c]] /\ CallOK(call[c])'
    BY <1>1, OthersStay, <2>1, <2>2, MovesKeep DEF CallsOK, Activate
  <2>4. Expires(c)
    BY DEF Activate, Expires
  <2> QED
    BY <2>1, <2>2, <2>3, <2>4 DEF CallStep
<1>7. CASE SynchronizeBegins(c)
  <2> USE <1>7
  <2>1. Moves
    BY PagesStay DEF SynchronizeBegins, Selects, browserVars
  <2>2. RefsGrow
    BY RefsStay DEF SynchronizeBegins, ClearElementReferences
  <2>3. call' = [call EXCEPT ![c] = call'[c]] /\ CallOK(call[c])'
    BY <1>1, OthersStay, <2>1, <2>2, MovesKeep DEF CallsOK, SynchronizeBegins
  <2>4. Expires(c)
    BY DEF SynchronizeBegins, Expires
  <2> QED
    BY <2>1, <2>2, <2>3, <2>4 DEF CallStep
<1>8. CASE EnsureSelects(c)
  <2> USE <1>8
  <2>1. Moves
    <3>1. PICK id \in Registered : SelectPage(tabs[id])
      BY DEF EnsureSelects, Ensured, First
    <3>2. Born(tabs[id])
      BY <1>1, <3>1 DEF Born, RegistryInv, Registered, Typed
    <3> QED
      BY <3>1, <3>2 DEF Moves, Born, EnsureSelects
  <2>2. RefsGrow
    BY RefsStay DEF EnsureSelects, ClearElementReferences
  <2>3. call' = [call EXCEPT ![c] = call'[c]] /\ CallOK(call[c])'
    BY <1>1, OthersStay, <2>1, <2>2, MovesKeep DEF CallsOK, EnsureSelects
  <2>4. Expires(c)
    BY DEF EnsureSelects, Expires
  <2> QED
    BY <2>1, <2>2, <2>3, <2>4 DEF CallStep
<1> QED
  BY <1>2, <1>3, <1>4, <1>5, <1>6, <1>7, <1>8

(* A call that has read nothing yet, or nothing that counts. *)
LEMMA FreshOK ==
    ASSUME BrowserInv, NEW c \in Calls, NEW x, call' = [call EXCEPT ![c] = x],
           IsCall(x), x.op # "none", x.seen = <<>>, x.index = 0,
           x.popup # NoPage => Born(x.popup)',
           x.since \in Nat, x.since <= nextRef',
           x.pc \notin {"created", "goto", "evaluated"}, x.pc = "create" => refs' = {},
           x.pc = "evaluate" => x.page \in Pages
    PROVE  /\ call' = [call EXCEPT ![c] = call'[c]]
           /\ call'[c] = x
           /\ CallOK(call[c])'
<1>1. call' = [call EXCEPT ![c] = call'[c]] /\ call'[c] = x
  BY DEF BrowserInv, CallsOK
<1>2. <<>> \in Seq(Nodes)
  OBVIOUS
<1>3. x.pc = "create" => \A r \in refs' : r.ref >= x.since
  OBVIOUS
<1>4. x.popup # NoPage => x.popup \in Pages /\ page'[x.popup].state # "none"
  BY DEF Born
<1> QED
  BY <1>1, <1>2, <1>3, <1>4 DEF CallOK, Aimed, Younger, IsCall, Born

(* The calls that begin with a record of their own. *)
LEMMA FirstSteps ==
    ASSUME BrowserInv, NEW c \in Calls,
           EnsureCreates(c) \/ SnapshotBegins(c) \/ ActionBegins(c) \/ CloseBegins(c)
    PROVE  CallStep(c)
<1> USE DEF BrowserInv
<1>1. Typed /\ CallOK(call[c]) /\ nextRef \in Nat /\ (call[c].op = "none" => call[c].pc = "idle")
  BY AtRest DEF CallsOK, Typed
<1>2. CASE EnsureCreates(c)
  <2> USE <1>2
  <2>1. Moves
    BY PagesStay DEF EnsureCreates, Selects, browserVars
  <2>2. RefsGrow
    BY RefsStay DEF EnsureCreates, ClearElementReferences
  <2>3. call' = [call EXCEPT ![c] = call'[c]] /\ CallOK(call[c])'
    <3>1. PICK x : x = [Idle EXCEPT !.op = "ensure", !.pc = "create", !.since = nextRef]
      OBVIOUS
    <3>2. x = [op |-> "ensure", pc |-> "create", tab |-> 0, page |-> NoPage, ref |-> [ref |-> 0],
               from |-> "blank", at |-> "blank", seen |-> <<>>, index |-> 0, popup |-> NoPage,
               wasSelected |-> FALSE, returning |-> FALSE, since |-> nextRef]
      BY <3>1 DEF Idle
    <3>3. /\ IsCall(x) /\ x.op = "ensure" /\ x.pc = "create" /\ x.seen = <<>> /\ x.index = 0
          /\ x.popup = NoPage /\ x.since = nextRef
      BY <3>2 DEF IsCall
    <3>4. call' = [call EXCEPT ![c] = x]
      BY <3>1 DEF EnsureCreates
    <3>5. /\ x.since \in Nat /\ x.since <= nextRef' /\ x.op # "none"
          /\ x.pc \notin {"created", "goto", "evaluated"} /\ (x.pc = "create" => refs' = {})
      BY <3>3, <1>1 DEF EnsureCreates, ClearElementReferences
    <3> QED
      BY <3>3, <3>4, <3>5, FreshOK
  <2>4. Expires(c)
    BY <1>1 DEF EnsureCreates, Admitted, Expires
  <2> QED
    BY <2>1, <2>2, <2>3, <2>4 DEF CallStep
<1>3. CASE SnapshotBegins(c)
  <2> USE <1>3
  <2>1. Moves
    BY PagesStay, ResolvedIsRegistered DEF SnapshotBegins, Selects, MarkSelected
  <2>2. RefsGrow
    BY RefsStay DEF SnapshotBegins, ClearElementReferences
  <2>3. call' = [call EXCEPT ![c] = call'[c]] /\ CallOK(call[c])'
    <3>1. PICK id \in Registered, returning \in BOOLEAN :
             call' = [call EXCEPT ![c] = [Idle EXCEPT !.op = "snapshot", !.pc = "evaluate",
                         !.tab = id, !.page = tabs[id], !.returning = returning]]
      BY ResolvedIsRegistered DEF SnapshotBegins
    <3>2. PICK x : x = [Idle EXCEPT !.op = "snapshot", !.pc = "evaluate",
                         !.tab = id, !.page = tabs[id], !.returning = returning]
      OBVIOUS
    <3>3. x = [op |-> "snapshot", pc |-> "evaluate", tab |-> id, page |-> tabs[id], ref |-> [ref |-> 0],
               from |-> "blank", at |-> "blank", seen |-> <<>>, index |-> 0, popup |-> NoPage,
               wasSelected |-> FALSE, returning |-> returning, since |-> 0]
      BY <3>2 DEF Idle
    <3>4. /\ IsCall(x) /\ x.op = "snapshot" /\ x.pc = "evaluate" /\ x.seen = <<>> /\ x.index = 0
          /\ x.popup = NoPage /\ x.since = 0 /\ x.page = tabs[id]
      BY <3>3 DEF IsCall
    <3>5. call' = [call EXCEPT ![c] = x]
      BY <3>1, <3>2
    <3>6. nextRef' \in Nat /\ tabs[id] \in Pages
      BY <1>1 DEF SnapshotBegins, Registered, Typed
    <3>7. /\ x.since \in Nat /\ x.since <= nextRef' /\ x.op # "none"
          /\ x.pc \notin {"created", "goto", "evaluated"} /\ (x.pc = "create" => refs' = {})
          /\ (x.pc = "evaluate" => x.page \in Pages)
      BY <3>4, <3>6
    <3> QED
      BY <3>4, <3>5, <3>7, FreshOK
  <2>4. Expires(c)
    BY <1>1 DEF SnapshotBegins, Admitted, Expires
  <2> QED
    BY <2>1, <2>2, <2>3, <2>4 DEF CallStep
<1>4. CASE ActionBegins(c)
  <2> USE <1>4
  <2>1. Moves
    BY PagesStay DEF ActionBegins, Selects, browserVars
  <2>2. RefsGrow
    BY RefsStay DEF ActionBegins
  <2>3. call' = [call EXCEPT ![c] = call'[c]] /\ CallOK(call[c])'
    <3>1. PICK op \in RefOps, r \in refs :
             Usable(r.tab) /\
             call' = [call EXCEPT ![c] = [Idle EXCEPT !.op = op, !.pc = "evaluate", !.tab = r.tab,
                         !.page = tabs[r.tab], !.ref = r, !.since = nextRef]]
      BY DEF ActionBegins
    <3>2. PICK x : x = [Idle EXCEPT !.op = op, !.pc = "evaluate", !.tab = r.tab,
                         !.page = tabs[r.tab], !.ref = r, !.since = nextRef]
      OBVIOUS
    <3>3. x = [op |-> op, pc |-> "evaluate", tab |-> r.tab, page |-> tabs[r.tab], ref |-> r,
               from |-> "blank", at |-> "blank", seen |-> <<>>, index |-> 0, popup |-> NoPage,
               wasSelected |-> FALSE, returning |-> FALSE, since |-> nextRef]
      BY <3>2 DEF Idle
    <3>4. /\ IsCall(x) /\ x.op = op /\ x.pc = "evaluate" /\ x.seen = <<>> /\ x.index = 0
          /\ x.popup = NoPage /\ x.since = nextRef /\ x.page = tabs[r.tab]
      BY <3>3 DEF IsCall
    <3>5. call' = [call EXCEPT ![c] = x]
      BY <3>1, <3>2
    <3>6. nextRef' = nextRef /\ op # "none" /\ tabs[r.tab] \in Pages
      BY <3>1, <1>1 DEF ActionBegins, RefOps, Usable, Registered, Typed
    <3>7. /\ x.since \in Nat /\ x.since <= nextRef' /\ x.op # "none"
          /\ x.pc \notin {"created", "goto", "evaluated"} /\ (x.pc = "create" => refs' = {})
          /\ (x.pc = "evaluate" => x.page \in Pages)
      BY <3>4, <3>6, <1>1
    <3> QED
      BY <3>4, <3>5, <3>7, FreshOK
  <2>4. Expires(c)
    BY <1>1 DEF ActionBegins, Admitted, Expires
  <2> QED
    BY <2>1, <2>2, <2>3, <2>4 DEF CallStep
<1>5. CASE CloseBegins(c)
  <2> USE <1>5
  <2>1. Moves
    BY PagesStay DEF CloseBegins, Selects, browserVars
  <2>2. RefsGrow
    BY RefsStay DEF CloseBegins, ClearElementReferences
  <2>3. call' = [call EXCEPT ![c] = call'[c]] /\ CallOK(call[c])'
    <3>1. PICK t \in Registered :
             call' = [call EXCEPT ![c] = [Idle EXCEPT !.op = "close", !.pc = "closing", !.tab = t,
                         !.page = tabs[t], !.wasSelected = (selected = t)]]
      BY DEF CloseBegins
    <3> DEFINE was == (selected = t)
    <3>2. PICK x : x = [Idle EXCEPT !.op = "close", !.pc = "closing", !.tab = t,
                         !.page = tabs[t], !.wasSelected = was]
      OBVIOUS
    <3>3. call' = [call EXCEPT ![c] = x]
      BY <3>1, <3>2
    <3> HIDE DEF was
    <3>4. x = [op |-> "close", pc |-> "closing", tab |-> t, page |-> tabs[t], ref |-> [ref |-> 0],
               from |-> "blank", at |-> "blank", seen |-> <<>>, index |-> 0, popup |-> NoPage,
               wasSelected |-> was, returning |-> FALSE, since |-> 0]
      BY <3>2 DEF Idle
    <3>5. /\ IsCall(x) /\ x.op = "close" /\ x.pc = "closing" /\ x.seen = <<>> /\ x.index = 0
          /\ x.popup = NoPage /\ x.since = 0
      BY <3>4 DEF IsCall
    <3>6. nextRef' \in Nat
      BY <1>1 DEF CloseBegins
    <3>7. /\ x.since \in Nat /\ x.since <= nextRef' /\ x.op # "none"
          /\ x.pc \notin {"created", "goto", "evaluated"} /\ (x.pc = "create" => refs' = {})
      BY <3>5, <3>6
    <3> QED
      BY <3>3, <3>5, <3>7, FreshOK
  <2>4. Expires(c)
    BY <1>1 DEF CloseBegins, Admitted, Expires
  <2> QED
    BY <2>1, <2>2, <2>3, <2>4 DEF CallStep
<1> QED
  BY <1>2, <1>3, <1>4, <1>5

(* A call that has acted. *)
LEMMA ActedOK ==
    ASSUME BrowserInv, NEW c \in Calls, NEW popup, Acted(c, popup), popup # NoPage => Born(popup)',
           UNCHANGED nextRef, call[c].op # "none"
    PROVE  /\ call' = [call EXCEPT ![c] = call'[c]]
           /\ CallOK(call[c])'
           /\ call'[c].pc = "acted"
<1>1. PICK x : x = [Idle EXCEPT !.op = call[c].op, !.pc = "acted", !.tab = call[c].tab,
                               !.popup = popup, !.since = call[c].since]
  OBVIOUS
<1>2. x = [op |-> call[c].op, pc |-> "acted", tab |-> call[c].tab, page |-> NoPage,
           ref |-> [ref |-> 0], from |-> "blank", at |-> "blank", seen |-> <<>>, index |-> 0,
           popup |-> popup, wasSelected |-> FALSE, returning |-> FALSE, since |-> call[c].since]
  BY <1>1 DEF Idle
<1>3. /\ IsCall(x) /\ x.op = call[c].op /\ x.pc = "acted" /\ x.seen = <<>> /\ x.index = 0
      /\ x.popup = popup /\ x.since = call[c].since
  BY <1>2 DEF IsCall
<1>4. call' = [call EXCEPT ![c] = x]
  BY <1>1 DEF Acted
<1>5. call[c].since \in Nat /\ call[c].since <= nextRef'
  BY DEF BrowserInv, CallsOK, CallOK
<1> QED
  BY <1>3, <1>4, <1>5, FreshOK

(* The calls that act on an element. *)
LEMMA ActingSteps ==
    ASSUME BrowserInv, NEW c \in Calls,
           Act(c) \/ ClickLoads(c) \/ ClickOpens(c)
    PROVE  CallStep(c)
<1> USE DEF BrowserInv
<1>1. /\ Typed /\ CallOK(call[c]) /\ nextRef \in Nat /\ (call[c].op = "none" => call[c].pc = "idle")
      /\ call[c].op # "none"
  BY AtRest DEF CallsOK, Typed, Act, ClickLoads, ClickOpens, Now
<1>2. "plain" \in Shows /\ "none" \in Hrefs /\ {"detail", "blank"} \subseteq Places
  BY DEF Places, Platform, Shows, Hrefs
<1>3. CASE Act(c)
  <2> USE <1>3
  <2>1. Moves
    BY PagesStay DEF Act, Selects, browserVars
  <2>2. RefsGrow
    BY RefsStay DEF Act
  <2>3. call' = [call EXCEPT ![c] = call'[c]] /\ CallOK(call[c])'
    BY <1>1, ActedOK DEF Act
  <2>4. Expires(c)
    BY DEF Act, Expires
  <2> QED
    BY <2>1, <2>2, <2>3, <2>4 DEF CallStep
<1>4. CASE ClickLoads(c)
  <2> USE <1>4
  <2>1. Moves
    <3>1. Loads(call[c].page, "detail", "plain", "none") /\ page[call[c].page].state = "open"
      BY DEF ClickLoads, Present
    <3>2. KeepsStates
      BY <1>1, <1>2, <3>1, LoadsInPlace
    <3> QED
      BY <3>2 DEF Moves, Selects, ClickLoads, tabVars
  <2>2. RefsGrow
    BY RefsStay DEF ClickLoads
  <2>3. call' = [call EXCEPT ![c] = call'[c]] /\ CallOK(call[c])'
    BY <1>1, ActedOK DEF ClickLoads
  <2>4. Expires(c)
    BY DEF ClickLoads, Expires, Now
  <2> QED
    BY <2>1, <2>2, <2>3, <2>4 DEF CallStep
<1>5. CASE ClickOpens(c)
  <2> USE <1>5
  <2>1. PICK p \in Pages, place \in {"detail", "blank"} : Appears(p, place) /\ Acted(c, p)
    BY DEF ClickOpens
  <2>2. Moves
    BY <1>2, <2>1 DEF Moves
  <2>3. RefsGrow
    BY RefsStay DEF ClickOpens
  <2>4. call' = [call EXCEPT ![c] = call'[c]] /\ CallOK(call[c])'
    <3>1. page'[p].state = "open"
      BY <1>1, <1>2, <2>1, LoadsDocument DEF Appears
    <3>2. Born(p)'
      BY <3>1 DEF Born
    <3> QED
      BY <1>1, <2>1, <3>2, ActedOK DEF ClickOpens
  <2>5. Expires(c)
    BY DEF ClickOpens, Expires, Now
  <2> QED
    BY <2>2, <2>3, <2>4, <2>5 DEF CallStep
<1> QED
  BY <1>3, <1>4, <1>5

(* A call that goes on with what it has. *)
LEMMA AdvanceOK ==
    ASSUME BrowserInv, NEW c \in Calls, NEW x, call' = [call EXCEPT ![c] = x],
           IsCall(x), x.op # "none", x.seen \in Seq(Nodes),
           x.popup = call[c].popup, x.since = call[c].since,
           RefsGrow, \A p : Born(p) => Born(p)',
           x.pc \in {"evaluate", "evaluated"} => x.page \in Pages,
           x.pc = "created" => Born(x.page)',
           x.pc = "act" => Aimed(x),
           x.pc \in {"create", "created", "goto"} => Younger(call[c]) \/ refs' = {}
    PROVE  /\ call' = [call EXCEPT ![c] = call'[c]]
           /\ call'[c] = x
           /\ CallOK(call[c])'
<1>1. call' = [call EXCEPT ![c] = call'[c]] /\ call'[c] = x
  BY DEF BrowserInv, CallsOK
<1>2. x.since \in Nat /\ x.since <= nextRef /\ nextRef <= nextRef' /\ nextRef \in Nat /\ nextRef' \in Nat
  BY DEF BrowserInv, CallsOK, CallOK, RefsGrow, Typed
<1>3. x.since <= nextRef'
  BY <1>2
<1>4. Younger(call[c]) \/ refs' = {} => \A r \in refs' : r.ref >= x.since
  BY <1>2 DEF Younger, RefsGrow
<1>5. x.popup # NoPage => x.popup \in Pages /\ page'[x.popup].state # "none"
  BY DEF BrowserInv, CallsOK, CallOK, Born
<1>6. x.pc = "created" => x.page \in Pages /\ page'[x.page].state # "none"
  BY DEF Born
<1> QED
  BY <1>1, <1>2, <1>3, <1>4, <1>5, <1>6 DEF CallOK, Younger, Aimed, IsCall, Born

(* The calls that go on with something new. *)
LEMMA AdvancingSteps ==
    ASSUME BrowserInv, NEW c \in Calls,
           Evaluate(c) \/ Verified(c) \/ BroughtToFront(c) \/ NewPage(c) \/ Created(c)
    PROVE  CallStep(c)
<1> USE DEF BrowserInv
<1>1. /\ Typed /\ CallOK(call[c]) /\ nextRef \in Nat /\ call[c].op # "none"
      /\ IsCall(call[c]) /\ call[c].seen \in Seq(Nodes) /\ call = [d \in Calls |-> call[d]]
  BY AtRest DEF CallsOK, CallOK, Typed, Evaluate, Verified, Verifies, RefOps, BroughtToFront,
     NewPage, Created, Now
<1>2. CASE Evaluate(c)
  <2> USE <1>2
  <2>1. Moves
    BY PagesStay DEF Evaluate, Selects, browserVars
  <2>2. RefsGrow
    BY RefsStay DEF Evaluate
  <2>3. \A p : Born(p) => Born(p)'
    BY <1>1, <2>1, MovesKeep
  <2>4. call' = [call EXCEPT ![c] = call'[c]] /\ CallOK(call[c])'
    <3> DEFINE p == page[call[c].page]
    <3>1. call[c].page \in Pages /\ p.nodes \in Seq(Nodes)
      BY <1>1 DEF CallOK, Evaluate, Typed, Documents
    <3>2. PICK x : x = [call[c] EXCEPT !.pc = "evaluated", !.seen = p.nodes, !.at = p.at]
      OBVIOUS
    <3>3. call' = [call EXCEPT ![c] = x]
      BY <1>1, <3>2 DEF Evaluate
    <3> HIDE DEF p
    <3>4. /\ IsCall(x) /\ x.op = call[c].op /\ x.pc = "evaluated" /\ x.seen = p.nodes
          /\ x.popup = call[c].popup /\ x.since = call[c].since /\ x.page = call[c].page
      BY <1>1, <3>2 DEF IsCall
    <3> QED
      BY <1>1, <2>2, <2>3, <3>1, <3>3, <3>4, AdvanceOK
  <2>5. Expires(c)
    BY DEF Evaluate, Expires
  <2> QED
    BY <2>1, <2>2, <2>4, <2>5 DEF CallStep
<1>3. CASE Verified(c)
  <2> USE <1>3
  <2>1. Moves
    BY PagesStay DEF Verified, Selects, Usable
  <2>2. RefsGrow
    BY RefsStay DEF Verified
  <2>3. \A p : Born(p) => Born(p)'
    BY <1>1, <2>1, MovesKeep
  <2>4. call' = [call EXCEPT ![c] = call'[c]] /\ CallOK(call[c])'
    <3>1. PICK i \in Positions(c) : call' = [call EXCEPT ![c].pc = "act", ![c].index = i]
      BY DEF Verified, First
    <3>2. call[c].seen[i].id = call[c].ref.id
      BY DEF Positions, Matches
    <3>3. PICK x : x = [call[c] EXCEPT !.pc = "act", !.index = i]
      OBVIOUS
    <3>4. call' = [call EXCEPT ![c] = x]
      BY <1>1, <3>1, <3>3
    <3>5. /\ IsCall(x) /\ x.op = call[c].op /\ x.pc = "act" /\ x.seen = call[c].seen
          /\ x.popup = call[c].popup /\ x.since = call[c].since
          /\ x.index = i /\ x.ref = call[c].ref
      BY <1>1, <3>3 DEF IsCall
    <3>6. Aimed(x)
      BY <3>2, <3>5 DEF Aimed
    <3> QED
      BY <1>1, <2>2, <2>3, <3>4, <3>5, <3>6, AdvanceOK
  <2>5. Expires(c)
    BY DEF Verified, Verifies, Expires
  <2> QED
    BY <2>1, <2>2, <2>4, <2>5 DEF CallStep
<1>4. CASE BroughtToFront(c)
  <2> USE <1>4
  <2>1. Moves
    BY PagesStay DEF BroughtToFront, Selects, browserVars
  <2>2. RefsGrow
    BY RefsStay DEF BroughtToFront, ClearElementReferences
  <2>3. \A p : Born(p) => Born(p)'
    BY <1>1, <2>1, MovesKeep
  <2>4. call' = [call EXCEPT ![c] = call'[c]] /\ CallOK(call[c])'
    <3>1. PICK x : x = [call[c] EXCEPT !.pc = "goto"]
      OBVIOUS
    <3>2. call' = [call EXCEPT ![c] = x]
      BY <1>1, <3>1 DEF BroughtToFront, Goes
    <3>3. /\ IsCall(x) /\ x.op = call[c].op /\ x.pc = "goto" /\ x.seen = call[c].seen
          /\ x.popup = call[c].popup /\ x.since = call[c].since
      BY <1>1, <3>1 DEF IsCall
    <3>4. refs' = {}
      BY DEF BroughtToFront, ClearElementReferences
    <3> QED
      BY <1>1, <2>2, <2>3, <3>2, <3>3, <3>4, AdvanceOK
  <2>5. Expires(c)
    BY DEF BroughtToFront, Now, Expires
  <2> QED
    BY <2>1, <2>2, <2>4, <2>5 DEF CallStep
<1>5. CASE NewPage(c)
  <2> USE <1>5
  <2>1. PICK p \in Pages : Appears(p, "blank") /\ call' = [call EXCEPT ![c].pc = "created", ![c].page = p]
    BY DEF NewPage
  <2>2. "plain" \in Shows /\ "none" \in Hrefs /\ "blank" \in Places
    BY DEF Places, Shows, Hrefs
  <2>3. Moves
    BY <2>1, <2>2 DEF Moves
  <2>4. RefsGrow
    BY RefsStay DEF NewPage
  <2>5. \A q : Born(q) => Born(q)'
    BY <1>1, <2>3, MovesKeep
  <2>6. call' = [call EXCEPT ![c] = call'[c]] /\ CallOK(call[c])'
    <3>1. page'[p].state = "open"
      BY <1>1, <2>1, <2>2, LoadsDocument DEF Appears
    <3>2. PICK x : x = [call[c] EXCEPT !.pc = "created", !.page = p]
      OBVIOUS
    <3>3. call' = [call EXCEPT ![c] = x]
      BY <1>1, <2>1, <3>2
    <3>4. /\ IsCall(x) /\ x.op = call[c].op /\ x.pc = "created" /\ x.seen = call[c].seen
          /\ x.popup = call[c].popup /\ x.since = call[c].since /\ x.page = p
      BY <1>1, <3>2 DEF IsCall
    <3>5. Born(x.page)' /\ Younger(call[c])
      BY <1>1, <3>1, <3>4 DEF Born, CallOK, NewPage
    <3> QED
      BY <1>1, <2>4, <2>5, <3>3, <3>4, <3>5, AdvanceOK
  <2>7. Expires(c)
    BY DEF NewPage, Expires
  <2> QED
    BY <2>3, <2>4, <2>6, <2>7 DEF CallStep
<1>6. CASE Created(c)
  <2> USE <1>6
  <2>1. Moves
    <3>1. Born(call[c].page)
      BY <1>1 DEF Created, CallOK
    <3> QED
      BY <3>1 DEF Created, Moves, Born
  <2>2. RefsGrow
    BY RefsStay DEF Created
  <2>3. \A p : Born(p) => Born(p)'
    BY <1>1, <2>1, MovesKeep
  <2>4. call' = [call EXCEPT ![c] = call'[c]] /\ CallOK(call[c])'
    <3>1. PICK x : x = [call[c] EXCEPT !.pc = "goto", !.tab = selected']
      OBVIOUS
    <3>2. call' = [call EXCEPT ![c] = x]
      BY <1>1, <3>1 DEF Created
    <3>3. /\ IsCall(x) /\ x.op = call[c].op /\ x.pc = "goto" /\ x.seen = call[c].seen
          /\ x.popup = call[c].popup /\ x.since = call[c].since
      BY <1>1, <3>1 DEF IsCall
    <3>4. Younger(call[c])
      BY <1>1 DEF CallOK, Created
    <3> QED
      BY <1>1, <2>2, <2>3, <3>2, <3>3, <3>4, AdvanceOK
  <2>5. Expires(c)
    BY DEF Created, Expires
  <2> QED
    BY <2>1, <2>2, <2>4, <2>5 DEF CallStep
<1> QED
  BY <1>2, <1>3, <1>4, <1>5, <1>6

LEMMA CallSteps ==
    ASSUME BrowserInv, NEW c \in Calls, ToolCallNext(c)
    PROVE  CallStep(c)
BY ReturningSteps, EndingSteps, GoingSteps, BeginningSteps, FirstSteps, ActingSteps, AdvancingSteps
   DEF ToolCallNext

-----------------------------------------------------------------------------
(* The preparation of a login                                              *)

LoginStep == Moves /\ RefsGrow /\ UNCHANGED call /\ LoginOK'

(* What a preparation goes on as: it remembers a page to be selected only  *)
(* when that page has just appeared.                                       *)
Proceeds == IsLogin(login') /\ login'.pc # "created"

LEMMA FailsProceeds ==
    ASSUME login' = NoLogin
    PROVE  Proceeds
BY DEF Proceeds, IsLogin, NoLogin

LEMMA StaysPut ==
    ASSUME BrowserInv, UNCHANGED <<browserVars, nextRef, call>>, refs' = refs \/ refs' = {}, Proceeds
    PROVE  LoginStep
<1>1. Moves
  BY PagesStay DEF BrowserInv, Selects, browserVars
<1>2. RefsGrow
  BY RefsStay DEF BrowserInv
<1> QED
  BY <1>1, <1>2 DEF LoginStep, LoginOK, Proceeds

LEMMA SelectsATab ==
    ASSUME BrowserInv, UNCHANGED <<page, nextNode, tabs, nextTab, refs, nextRef, call>>,
           selected' \in Registered, Proceeds
    PROVE  LoginStep
<1>1. Moves
  BY PagesStay DEF BrowserInv, Selects
<1>2. RefsGrow
  BY RefsStay DEF BrowserInv
<1> QED
  BY <1>1, <1>2 DEF LoginStep, LoginOK, Proceeds

LEMMA ChoosesExisting ==
    ASSUME BrowserInv, NEW p, NEW handoff, ChooseExisting(p, handoff)
    PROVE  LoginStep
<1>1. CASE TabOf(p) = {}
  BY <1>1, FailsProceeds, StaysPut DEF ChooseExisting, LoginFails, ClearElementReferences
<1>2. CASE TabOf(p) # {}
  <2>1. selected' \in Registered /\ UNCHANGED <<page, nextNode, tabs, nextTab, refs, nextRef, call>>
    BY <1>2 DEF ChooseExisting, SelectPage, TabOf, MarkSelected, loginRest
  <2>2. Proceeds
    BY <1>2 DEF ChooseExisting, Proceeds, IsLogin, NoLogin
  <2> QED
    BY <2>1, <2>2, SelectsATab
<1> QED
  BY <1>1, <1>2

LEMMA OpensLoginPage ==
    ASSUME BrowserInv, OpenLoginPage
    PROVE  LoginStep
<1> DEFINE blank == First({t \in Registered : page[tabs[t]].state = "open" /\ page[tabs[t]].at = "blank"})
<1>1. blank \subseteq Registered
  BY DEF First
<1>2. CASE blank # {}
  <2>1. PICK t \in blank :
           /\ selected' = t
           /\ login' = [NoLogin EXCEPT !.pc = "goto", !.page = tabs[t], !.opened = TRUE]
           /\ UNCHANGED <<page, nextNode, tabs, nextTab, loginRest>>
    BY <1>2 DEF OpenLoginPage, MarkSelected
  <2>2. Proceeds
    BY <2>1 DEF Proceeds, IsLogin, NoLogin
  <2> QED
    BY <1>1, <2>1, <2>2, SelectsATab DEF loginRest
<1>3. CASE blank = {}
  <2>1. /\ login' = [NoLogin EXCEPT !.pc = "create", !.opened = TRUE]
        /\ UNCHANGED <<browserVars, loginRest>>
    BY <1>3 DEF OpenLoginPage
  <2>2. Proceeds
    BY <2>1 DEF Proceeds, IsLogin, NoLogin
  <2> QED
    BY <2>1, <2>2, StaysPut DEF loginRest
<1> QED
  BY <1>2, <1>3

LEMMA Chooses ==
    ASSUME BrowserInv, NEW ready, NEW candidates, Choose(ready, candidates)
    PROVE  LoginStep
<1>1. CASE FirstReady(ready) # {}
  BY <1>1, ChoosesExisting DEF Choose
<1>2. CASE FirstReady(ready) = {} /\ \E i \in DOMAIN candidates : StillAtLogin(candidates[i])
  <2>1. PICK current : /\ login' = [NoLogin EXCEPT !.pc = "observe", !.pages = current,
                                                  !.candidates = current, !.round = 1]
                       /\ UNCHANGED <<browserVars, loginRest>>
    BY <1>2 DEF Choose
  <2>2. Proceeds
    BY <2>1 DEF Proceeds, IsLogin, NoLogin
  <2> QED
    BY <2>1, <2>2, StaysPut DEF loginRest
<1>3. CASE FirstReady(ready) = {} /\ ~\E i \in DOMAIN candidates : StillAtLogin(candidates[i])
  BY <1>3, OpensLoginPage DEF Choose
<1> QED
  BY <1>1, <1>2, <1>3

LEMMA GoesOnSteps ==
    ASSUME BrowserInv, NEW left, GoesOn(left)
    PROVE  LoginStep
<1> DEFINE rest == Tail(login.pages)
<1>1. IsLogin(login)
  BY DEF BrowserInv, LoginOK
<1>2. CASE rest # <<>>
  <2>1. /\ login' = [login EXCEPT !.pc = "observe", !.pages = rest, !.candidates = left, !.read = Unread]
        /\ UNCHANGED <<browserVars, loginRest>>
    BY <1>2 DEF GoesOn
  <2> HIDE DEF rest
  <2>2. Proceeds
    BY <1>1, <2>1 DEF Proceeds, IsLogin
  <2> QED
    BY <2>1, <2>2, StaysPut DEF loginRest
<1>3. CASE rest = <<>> /\ left # <<>> /\ login.round < MaxRounds
  <2> DEFINE next == login.round + 1
  <2>1. /\ login' = [login EXCEPT !.pc = "observe", !.pages = left, !.candidates = left,
                                  !.round = next, !.read = Unread]
        /\ UNCHANGED <<browserVars, loginRest>>
    BY <1>3 DEF GoesOn
  <2> HIDE DEF next
  <2>2. Proceeds
    BY <1>1, <2>1 DEF Proceeds, IsLogin
  <2> QED
    BY <2>1, <2>2, StaysPut DEF loginRest
<1>4. CASE rest = <<>> /\ ~(left # <<>> /\ login.round < MaxRounds)
  <2>1. LoginFails /\ UNCHANGED <<browserVars, nextRef, call, calls>>
    BY <1>4 DEF GoesOn
  <2> QED
    BY <2>1, FailsProceeds, StaysPut DEF LoginFails, ClearElementReferences
<1> QED
  BY <1>2, <1>3, <1>4

LEMMA ReadsSteps ==
    ASSUME BrowserInv, NEW pc, NEW next, Reads(pc, next), next # "created"
    PROVE  LoginStep
<1>1. IsLogin(login)
  BY DEF BrowserInv, LoginOK
<1>2. PICK read : login' = [login EXCEPT !.pc = next, !.read = read]
  BY DEF Reads
<1>3. Proceeds
  BY <1>1, <1>2 DEF Proceeds, IsLogin
<1> QED
  BY <1>3, StaysPut DEF Reads, loginRest

LEMMA IsChosenSteps ==
    ASSUME BrowserInv, NEW p, NEW handoff, IsChosen(p, handoff)
    PROVE  LoginStep
<1>1. CASE login.opened
  BY <1>1, FailsProceeds, StaysPut DEF IsChosen, LoginCompletes, ClearElementReferences
<1>2. CASE ~login.opened
  BY <1>2, ChoosesExisting DEF IsChosen
<1> QED
  BY <1>1, <1>2

LEMMA LoginSteps ==
    ASSUME BrowserInv, NEW collecting, LoginNext(collecting)
    PROVE  LoginStep
<1>1. Typed /\ IsLogin(login)
  BY DEF BrowserInv, LoginOK
<1>2. CASE PrepareBegins
  <2>1. Proceeds
    BY <1>2 DEF PrepareBegins, Proceeds, IsLogin, NoLogin
  <2> QED
    BY <1>2, <2>1, StaysPut DEF PrepareBegins
<1>3. CASE Quiesced(collecting)
  <2>1. PICK pages : login' = [login EXCEPT !.pc = "judge", !.pages = pages] \/ login' = NoLogin
    BY <1>3 DEF Quiesced
  <2>2. Proceeds
    <3>1. CASE login' = [login EXCEPT !.pc = "judge", !.pages = pages]
      BY <1>1, <3>1 DEF Proceeds, IsLogin
    <3> QED
      BY <2>1, <3>1, FailsProceeds
  <2> QED
    BY <1>3, <2>2, StaysPut DEF Quiesced
<1>4. CASE JudgeReads
  BY <1>4, ReadsSteps DEF JudgeReads
<1>5. CASE InterruptionRead
  BY <1>5, FailsProceeds, StaysPut DEF InterruptionRead, ClearElementReferences
<1>6. CASE NothingToJudge
  BY <1>6, Chooses DEF NothingToJudge
<1>7. CASE Judged
  <2> DEFINE p == Head(login.pages)
             AtLogin == login.read.at = "login"
             ready == IF AtLogin /\ ShowsControl(login.read)
                      THEN Append(login.ready, p) ELSE login.ready
             candidates == IF AtLogin /\ login.read.shows = "plain"
                           THEN Append(login.candidates, p) ELSE login.candidates
             rest == Tail(login.pages)
  <2>1. CASE ShowsAccount(login.read)
    <3>1. ChooseExisting(p, FALSE)
      BY <1>7, <2>1 DEF Judged
    <3> QED
      BY <3>1, ChoosesExisting
  <2>2. CASE ~ShowsAccount(login.read) /\ Len(login.pages) = 1
    <3>1. Choose(ready, candidates)
      BY <1>7, <2>2 DEF Judged
    <3> QED
      BY <3>1, Chooses
  <2>3. CASE ~ShowsAccount(login.read) /\ Len(login.pages) # 1
    <3>1. /\ login' = [login EXCEPT !.pc = "judge", !.pages = rest, !.ready = ready,
                                    !.candidates = candidates, !.read = Unread]
          /\ UNCHANGED <<browserVars, loginRest>>
      BY <1>7, <2>3 DEF Judged
    <3> HIDE DEF ready, candidates, rest
    <3>2. Proceeds
      BY <1>1, <3>1 DEF Proceeds, IsLogin
    <3> QED
      BY <3>1, <3>2, StaysPut DEF loginRest
  <2> QED
    BY <2>1, <2>2, <2>3
<1>8. CASE CandidateClosed
  BY <1>8, GoesOnSteps DEF CandidateClosed
<1>9. CASE CandidateReads
  BY <1>9, ReadsSteps DEF CandidateReads
<1>10. CASE Observed
  BY <1>10, GoesOnSteps, IsChosenSteps DEF Observed
<1>11. CASE BroughtForward
  BY <1>11, FailsProceeds, StaysPut DEF BroughtForward, LoginCompletes, LoginFails, ClearElementReferences
<1>12. CASE LoginPageAppears
  <2>1. PICK p \in Pages : Appears(p, "blank") /\ login' = [login EXCEPT !.pc = "created", !.page = p]
    BY <1>12 DEF LoginPageAppears
  <2>2. "plain" \in Shows /\ "none" \in Hrefs /\ "blank" \in Places
    BY DEF Places, Shows, Hrefs
  <2>3. page'[p].state = "open"
    BY <1>1, <2>1, <2>2, LoadsDocument DEF Appears
  <2>4. LoginOK'
    <3>1. IsLogin(login') /\ login'.page = p
      BY <1>1, <2>1 DEF IsLogin
    <3> QED
      BY <2>3, <3>1 DEF LoginOK, IsLogin, Born
  <2>5. Moves
    BY <2>1, <2>2 DEF Moves
  <2> QED
    BY <1>1, <1>12, <2>4, <2>5, RefsStay DEF LoginStep, LoginPageAppears, loginRest
<1>13. CASE LoginPageCreated
  <2>1. Born(login.page)
    BY <1>13 DEF LoginPageCreated, BrowserInv, LoginOK
  <2>2. Moves
    BY <1>13, <2>1 DEF LoginPageCreated, Moves, Born
  <2>3. Proceeds
    BY <1>1, <1>13 DEF LoginPageCreated, Proceeds, IsLogin
  <2> QED
    BY <1>1, <1>13, <2>2, <2>3, RefsStay DEF LoginStep, LoginOK, Proceeds, LoginPageCreated, loginRest
<1>14. CASE LoginPageLoads
  <2>1. KeepsStates
    <3>1. CASE UNCHANGED <<page, nextNode>>
      BY <1>1, <3>1 DEF KeepsStates, Typed
    <3>2. CASE ~UNCHANGED <<page, nextNode>>
      <4>1. PICK place \in Places, shows \in Shows : Loads(login.page, place, shows, "none")
        BY <1>14, <3>2 DEF LoginPageLoads, Places, Platform, Shows
      <4>2. "none" \in Hrefs /\ page[login.page].state = "open"
        BY <1>14 DEF Hrefs, LoginPageLoads
      <4> QED
        BY <1>1, <4>1, <4>2, LoadsInPlace
    <3> QED
      BY <3>1, <3>2
  <2>2. Moves
    BY <1>14, <2>1 DEF Moves, Selects, LoginPageLoads, tabVars
  <2>3. Proceeds
    BY <1>1, <1>14 DEF LoginPageLoads, Proceeds, IsLogin
  <2> QED
    BY <1>1, <1>14, <2>2, <2>3, RefsStay DEF LoginStep, LoginOK, Proceeds, LoginPageLoads, loginRest
<1>15. CASE LoginPageFails
  BY <1>15, FailsProceeds, StaysPut DEF LoginPageFails, LoginFails, ClearElementReferences
<1>16. CASE LoginPageOpened
  <2>1. CASE login' = [login EXCEPT !.pc = "observe", !.pages = <<login.page>>,
                                    !.candidates = <<login.page>>, !.round = 1]
             /\ UNCHANGED loginRest
    <3>1. Proceeds
      BY <1>1, <2>1 DEF Proceeds, IsLogin
    <3> QED
      BY <1>16, <2>1, <3>1, StaysPut DEF loginRest, LoginPageOpened
  <2>2. CASE LoginFails /\ UNCHANGED <<nextRef, call, calls>>
    BY <1>16, <2>2, FailsProceeds, StaysPut DEF LoginFails, ClearElementReferences, LoginPageOpened
  <2> QED
    BY <1>16, <2>1, <2>2 DEF LoginPageOpened
<1> QED
  BY <1>2, <1>3, <1>4, <1>5, <1>6, <1>7, <1>8, <1>9, <1>10, <1>11, <1>12, <1>13, <1>14, <1>15, <1>16
     DEF LoginNext

-----------------------------------------------------------------------------
(* The user, the pages and the rounds of collection                        *)

LEMMA EnvironmentMoves ==
    ASSUME BrowserInv, Environment
    PROVE  Moves /\ UNCHANGED <<refs, nextRef, call, login>>
<1>1. Typed
  BY DEF BrowserInv
<1>2. CASE PageAppears
  BY <1>2 DEF PageAppears, Happens, sessionVars, toolVars, Moves, Places, Platform
<1>3. CASE PageCloses
  BY <1>3 DEF PageCloses, Happens, sessionVars, toolVars, Moves
<1>4. CASE PageLoads
  <2>1. PICK p \in Open, place \in Places, shows \in Shows, href \in Hrefs : Loads(p, place, shows, href)
    BY <1>4 DEF PageLoads, Places, Platform, Hrefs
  <2>2. KeepsStates
    BY <1>1, <2>1, LoadsInPlace DEF Open
  <2> QED
    BY <1>4, <2>2 DEF PageLoads, Happens, sessionVars, toolVars, tabVars, Moves, Selects
<1>5. CASE ElementAppears
  <2>1. PICK p \in Open, rendered \in BOOLEAN :
           /\ page[p].nodes # <<>>
           /\ page' = [page EXCEPT ![p].nodes =
                          <<[id |-> nextNode, href |-> Head(@).href, rendered |-> rendered]>> \o @]
    BY <1>5 DEF ElementAppears
  <2> DEFINE node == [id |-> nextNode, href |-> Head(page[p].nodes).href, rendered |-> rendered]
  <2>2. p \in Pages /\ page[p] \in Documents /\ page[p].nodes \in Seq(Nodes)
    BY <1>1 DEF Open, Typed, Documents
  <2>3. Head(page[p].nodes) \in Nodes
    BY <2>1, <2>2
  <2>4. node \in Nodes
    BY <1>1, <2>3 DEF Nodes, Typed
  <2>5. page' = [page EXCEPT ![p] = [page[p] EXCEPT !.nodes = <<node>> \o page[p].nodes]]
    BY <1>1, <2>1 DEF Typed
  <2> HIDE DEF node
  <2>6. <<node>> \o page[p].nodes \in Seq(Nodes)
    BY <2>2, <2>4
  <2>7. PICK d : d = [page[p] EXCEPT !.nodes = <<node>> \o page[p].nodes]
    OBVIOUS
  <2>8. d \in Documents /\ d.state = page[p].state
    BY <2>2, <2>6, <2>7 DEF Documents
  <2>9. page' = [page EXCEPT ![p] = d]
    BY <2>5, <2>7
  <2>10. nextNode' \in Nat
    BY <1>1, <1>5 DEF ElementAppears, Typed
  <2>11. KeepsStates
    BY <1>1, <2>2, <2>8, <2>9, <2>10 DEF KeepsStates, Typed
  <2> QED
    BY <1>5, <2>11 DEF ElementAppears, Happens, sessionVars, toolVars, tabVars, Moves, Selects
<1>6. CASE Interrupted
  <2>1. UNCHANGED <<browserVars, refs, nextRef, call, login>>
    BY <1>6 DEF Interrupted
  <2> QED
    BY <1>1, <2>1, PagesStay DEF browserVars, Selects
<1> QED
  BY <1>2, <1>3, <1>4, <1>5, <1>6 DEF Environment

LEMMA CollectionStays ==
    ASSUME CollectionNext
    PROVE  UNCHANGED <<browserVars, refs, nextRef, call, login>>
BY DEF CollectionNext, RoundBegins, CapturesPage, CaptureFails, PassesOver, Keeps, Writes, WriteFails,
   roundRest, toolVars

-----------------------------------------------------------------------------
(* What is read of the pages                                               *)

Evidence == [from : Places, at : Places, cards : Seq(Nodes)]

(* What may be kept of a round. *)
Kept == {e \in Evidence : IsEvidence(e)}

(* No job is twice among the cards, and each is an element of the document. *)
LEMMA CardsOnce ==
    ASSUME NEW nodes \in Seq(Nodes)
    PROVE  /\ JobCards(nodes) \in Seq(Nodes)
           /\ \A i, j \in DOMAIN JobCards(nodes) :
                 Linked(JobCards(nodes)[i]) /\ JobCards(nodes)[i].href = JobCards(nodes)[j].href => i = j
<1> DEFINE C == Counted(nodes)
           taken == {i \in C : Cardinality({j \in C : j < i}) < MaximumCards}
           cards == InOrder(nodes, taken)
<1>1. JobCards(nodes) = cards
  BY DEF JobCards
<1>2. DOMAIN nodes = 1 .. Len(nodes) /\ Len(nodes) \in Nat
  OBVIOUS
<1>3. taken \subseteq DOMAIN nodes /\ taken \in SUBSET Nat /\ IsFiniteSet(taken)
  <2>1. taken \subseteq 1 .. Len(nodes)
    BY <1>2 DEF Counted
  <2>2. IsFiniteSet(1 .. Len(nodes))
    BY <1>2, FS_Interval
  <2> HIDE DEF taken
  <2>3. IsFiniteSet(taken)
    BY <2>1, <2>2, FS_Subset
  <2> QED
    BY <1>2, <2>1, <2>3
<1>4. \A i, j \in taken : Linked(nodes[i]) /\ nodes[i].href = nodes[j].href => i = j
  <2>1. ASSUME NEW i \in taken, NEW j \in taken, i < j, nodes[i].href = nodes[j].href,
               Linked(nodes[i])
        PROVE  FALSE
    <3>1. i \in C /\ j \in C /\ i \in Nat /\ j \in Nat /\ i >= 1
      BY <1>2, <1>3
    <3>2. i \in 1 .. (j - 1)
      BY <2>1, <3>1
    <3>3. Duplicate(nodes, j)
      BY <2>1, <3>2 DEF Duplicate, Linked, JobIdentity
    <3> QED
      BY <3>1, <3>3 DEF Counted
  <2> HIDE DEF taken
  <2>2. \A i, j \in taken : i < j \/ j < i \/ i = j
    <3>1. \A i, j \in Nat : i < j \/ j < i \/ i = j
      OBVIOUS
    <3> QED
      BY <1>3, <3>1
  <2> QED
    BY <2>1, <2>2 DEF Linked
<1> HIDE DEF taken
<1>5. cards \in Seq(Nodes)
  BY <1>3, OrderedSeq
<1>6. ASSUME NEW k \in DOMAIN cards, NEW l \in DOMAIN cards,
             Linked(cards[k]), cards[k].href = cards[l].href
      PROVE  k = l
  <2>1. /\ Cardinality(taken) \in Nat /\ DOMAIN cards = 1 .. Cardinality(taken)
        /\ \A m \in 1 .. Cardinality(taken) :
              \E i \in taken : Cardinality(Below(taken, i)) = m - 1 /\ cards[m] = nodes[i]
    BY <1>3, Ordered
  <2>2. PICK i \in taken : Cardinality(Below(taken, i)) = k - 1 /\ cards[k] = nodes[i]
    BY <2>1
  <2>3. PICK j \in taken : Cardinality(Below(taken, j)) = l - 1 /\ cards[l] = nodes[j]
    BY <2>1
  <2>4. i = j
    BY <1>4, <1>6, <2>2, <2>3
  <2>5. k \in Nat /\ l \in Nat /\ k - 1 = l - 1
    BY <2>1, <2>2, <2>3, <2>4
  <2> QED
    BY <2>5
<1> QED
  BY <1>1, <1>5, <1>6

(* What is read of a page that is still the one the read began at.         *)
LEMMA EvidenceKept ==
    ASSUME NEW at, NEW nodes \in Seq(Nodes)
    PROVE  /\ IsEvidence(EvidenceOf(at, at, nodes))
           /\ at \in Places => EvidenceOf(at, at, nodes) \in Kept
<1> DEFINE e == EvidenceOf(at, at, nodes)
<1>1. e.at = at /\ e.from = at /\ e.cards = IF at = "list" THEN JobCards(nodes) ELSE <<>>
  BY DEF EvidenceOf
<1>2. IsEvidence(e)
  <2>1. CASE at = "list"
    BY <1>1, <2>1, CardsOnce DEF IsEvidence
  <2>2. CASE at # "list"
    BY <1>1, <2>2 DEF IsEvidence
  <2> QED
    BY <2>1, <2>2
<1>3. e.cards \in Seq(Nodes)
  BY <1>1, CardsOnce
<1>4. e = [from |-> e.from, at |-> e.at, cards |-> e.cards]
  BY DEF EvidenceOf
<1> HIDE DEF e
<1>5. at \in Places => e \in Evidence
  BY <1>1, <1>3, <1>4 DEF Evidence
<1> QED
  BY <1>2, <1>5 DEF Kept, e

(* The rounds of collection: what is kept is evidence of its page.         *)
IsRound(x) ==
    x = [pc |-> x.pc, pages |-> x.pages, page |-> x.page, from |-> x.from, at |-> x.at,
         seen |-> x.seen, items |-> x.items]

RoundOK ==
    /\ IsRound(round)
    /\ round.pages \in Seq(Pages) /\ round.seen \in Seq(Nodes)
    /\ round.from \in Places /\ round.at \in Places
    /\ round.pc = "read" => round.page \in Pages
    /\ round.items \in Seq(Kept)
    /\ round.pc = "write" => round.items # <<>>

LEMMA NoRoundOK == round' = NoRound => RoundOK'
<1>1. "blank" \in Places
  BY DEF Places
<1> QED
  BY <1>1 DEF RoundOK, IsRound, NoRound

LEMMA OnwardKeeps ==
    ASSUME Typed, NEW pages \in Seq(Pages), NEW items \in Seq(Kept), Onward(pages, items)
    PROVE  RoundOK'
<1> DEFINE next == First({i \in DOMAIN pages : Eligible(pages[i])})
<1>1. "blank" \in Places
  BY DEF Places
<1>2. CASE control = "active" /\ next # {}
  <2>1. PICK i \in next :
           round' = [NoRound EXCEPT !.pc = "read", !.page = pages[i], !.from = page[pages[i]].at,
                                    !.pages = SubSeq(pages, i + 1, Len(pages)), !.items = items]
    BY <1>2 DEF Onward
  <2>2. i \in DOMAIN pages
    BY DEF First
  <2> DEFINE rest == SubSeq(pages, i + 1, Len(pages))
             from == page[pages[i]].at
  <2>3. pages[i] \in Pages /\ rest \in Seq(Pages)
    BY <2>2
  <2>4. from \in Places
    BY <2>3 DEF Typed, Documents
  <2>5. round' = [NoRound EXCEPT !.pc = "read", !.page = pages[i], !.from = from,
                                 !.pages = rest, !.items = items]
    BY <2>1
  <2> HIDE DEF rest, from
  <2>6. round' = [pc |-> "read", pages |-> rest, page |-> pages[i], from |-> from, at |-> "blank",
                  seen |-> <<>>, items |-> items]
    BY <2>5 DEF NoRound
  <2> QED
    BY <1>1, <2>3, <2>4, <2>6 DEF RoundOK, IsRound
<1>3. CASE ~(control = "active" /\ next # {})
  <2>1. \/ round' = NoRound
        \/ items # <<>> /\ round' = [NoRound EXCEPT !.pc = "write", !.items = items]
    BY <1>3 DEF Onward
  <2>2. CASE items # <<>> /\ round' = [NoRound EXCEPT !.pc = "write", !.items = items]
    <3>1. round' = [pc |-> "write", pages |-> <<>>, page |-> NoPage, from |-> "blank", at |-> "blank",
                    seen |-> <<>>, items |-> items]
      BY <2>2 DEF NoRound
    <3>2. /\ IsRound(round') /\ round'.pc = "write" /\ round'.pages = <<>> /\ round'.seen = <<>>
          /\ round'.from = "blank" /\ round'.at = "blank" /\ round'.items = items
      BY <3>1 DEF IsRound
    <3>3. <<>> \in Seq(Pages) /\ <<>> \in Seq(Nodes)
      OBVIOUS
    <3> QED
      BY <1>1, <2>2, <3>2, <3>3 DEF RoundOK, IsRound
  <2> QED
    BY <2>1, <2>2, NoRoundOK
<1> QED
  BY <1>2, <1>3

(* There are finitely many tabs. *)
LEMMA TabsAreFinite ==
    ASSUME Typed, RegistryInv, NEW ts \in SUBSET Registered
    PROVE  ts \in SUBSET Nat /\ IsFiniteSet(ts)
<1>1. ts \subseteq Registered /\ Registered \subseteq Nat /\ nextTab \in Nat
  BY TabsAssumption DEF Registered, Typed
<1>2. \A t \in ts : t <= nextTab
  <2>1. \A t \in Registered : t \in Nat /\ t < nextTab
    BY <1>1 DEF RegistryInv
  <2>2. \A t \in Registered : t <= nextTab
    BY <1>1, <2>1
  <2> QED
    BY <2>2
<1> QED
  BY <1>1, <1>2, FS_BoundedSetOfNaturals

LEMMA OpenPages ==
    ASSUME Typed, RegistryInv
    PROVE  ContextPages \in Seq(Pages)
<1> DEFINE ts == {t \in Registered : page[tabs[t]].state = "open"}
<1>1. ts \in SUBSET Nat /\ IsFiniteSet(ts)
  BY TabsAreFinite
<1>2. \A t \in ts : tabs[t] \in Pages
  BY DEF Registered, Typed
<1> HIDE DEF ts
<1>3. InOrder(tabs, ts) \in Seq(Pages)
  BY <1>1, <1>2, OrderedSeq
<1> QED
  BY <1>3 DEF ContextPages, ts

LEMMA CollectionSteps ==
    ASSUME Typed, RegistryInv, RoundOK, CollectionNext
    PROVE  RoundOK'
<1>1. CASE RoundBegins
  <2>1. <<>> \in Seq(Kept)
    OBVIOUS
  <2> QED
    BY <1>1, <2>1, OpenPages, OnwardKeeps DEF RoundBegins
<1>2. CASE CapturesPage
  <2> DEFINE p == page[round.page]
  <2>1. p \in Documents
    BY <1>2 DEF CapturesPage, RoundOK, Typed
  <2>2. p.at \in Places /\ p.nodes \in Seq(Nodes)
    BY <2>1 DEF Documents
  <2>3. round' = [round EXCEPT !.pc = "captured", !.at = p.at, !.seen = p.nodes]
    BY <1>2 DEF CapturesPage
  <2> HIDE DEF p
  <2> QED
    BY <2>2, <2>3 DEF RoundOK, IsRound
<1>3. CASE CaptureFails
  BY <1>3, OnwardKeeps DEF CaptureFails, RoundOK
<1>4. CASE PassesOver
  BY <1>4, OnwardKeeps DEF PassesOver, RoundOK
<1>5. CASE Keeps
  <2> DEFINE e == EvidenceOf(round.from, round.at, round.seen)
  <2>1. e \in Kept
    BY <1>5, EvidenceKept DEF Keeps, SamePage, RoundOK
  <2>2. Onward(round.pages, Append(round.items, e))
    BY <1>5 DEF Keeps
  <2> HIDE DEF e
  <2>3. Append(round.items, e) \in Seq(Kept) /\ round.pages \in Seq(Pages)
    BY <2>1 DEF RoundOK
  <2> QED
    BY <2>2, <2>3, OnwardKeeps
<1>6. CASE Writes
  <2>1. PICK rest : rest = Tail(round.items)
    OBVIOUS
  <2>2. \/ round' = NoRound
        \/ Len(round.items) # 1 /\ round' = [round EXCEPT !.items = rest]
    BY <1>6, <2>1 DEF Writes
  <2>3. round.items \in Seq(Kept) /\ round.items # <<>>
    BY <1>6 DEF Writes, RoundOK
  <2>4. Len(round.items) # 1 => rest \in Seq(Kept) /\ rest # <<>>
    <3>1. PICK items \in Seq(Kept) : items = round.items
      BY <2>3
    <3>2. Len(items) \in Nat /\ Len(items) # 0 /\ rest = Tail(items)
      BY <2>1, <2>3, <3>1
    <3>3. rest \in Seq(Kept) /\ Len(rest) = Len(items) - 1
      BY <2>3, <3>1, <3>2
    <3>4. Len(items) # 1 => Len(rest) # 0
      BY <3>2, <3>3
    <3> QED
      BY <3>1, <3>3, <3>4
  <2> QED
    BY <2>2, <2>4, NoRoundOK DEF RoundOK, IsRound
<1>7. CASE WriteFails
  BY <1>7, NoRoundOK DEF WriteFails
<1> QED
  BY <1>1, <1>2, <1>3, <1>4, <1>5, <1>6, <1>7 DEF CollectionNext

-----------------------------------------------------------------------------
(* What a call saves                                                       *)

ReadsOK == \A c \in Calls : Now(c, "read", "saving") => call[c].from = call[c].at

(* A call comes to save only from a read of the page it began at.          *)
LEMMA OnlyReadsAreSaved ==
    ASSUME BrowserInv, NEW c \in Calls, ToolCallNext(c), Now(c, "read", "saving")'
    PROVE  call'[c] = call[c] \/ EvidenceRead(c)
<1>1. /\ IsCall(call[c]) /\ call = [d \in Calls |-> call[d]]
      /\ call'[c].op = "read" /\ call'[c].pc = "saving"
  BY DEF BrowserInv, CallsOK, CallOK, Now
<1>2. CASE Returns(c)
  <2>1. call'[c].pc = "idle"
    BY <1>1, <1>2 DEF Returns, Idle
  <2> QED
    BY <1>1, <2>1
<1>3. CASE \E op, pc, t : pc \in {"act", "front", "goto", "evaluate"} /\ Begins(c, op, pc, t)
  <2>1. call'[c].pc \in {"act", "front", "goto", "evaluate"}
    <3>1. PICK op, pc, t : pc \in {"act", "front", "goto", "evaluate"} /\ Begins(c, op, pc, t)
      BY <1>3
    <3> DEFINE from == IF op = "read" THEN page[tabs[t]].at ELSE "blank"
    <3>2. PICK x : x = [Idle EXCEPT !.op = op, !.pc = pc, !.tab = t, !.page = tabs[t],
                                   !.from = from, !.since = nextRef]
      OBVIOUS
    <3>3. call' = [call EXCEPT ![c] = x]
      BY <3>1, <3>2 DEF Begins
    <3> HIDE DEF from
    <3>4. x.pc = pc
      BY <3>2 DEF Idle
    <3> QED
      BY <1>1, <3>1, <3>3, <3>4
  <2> QED
    BY <1>1, <2>1
<1>4. CASE EnsureCreates(c) \/ SnapshotBegins(c) \/ ActionBegins(c) \/ CloseBegins(c)
  <2>1. call'[c].pc \in {"create", "evaluate", "closing"}
    <3>1. CASE EnsureCreates(c)
      BY <1>1, <3>1 DEF EnsureCreates, Idle
    <3>2. CASE SnapshotBegins(c)
      <4>1. PICK id, returning : call' = [call EXCEPT ![c] =
                  [Idle EXCEPT !.op = "snapshot", !.pc = "evaluate",
                            !.tab = id, !.page = tabs[id], !.returning = returning]]
        BY <3>2 DEF SnapshotBegins
      <4> QED
        BY <1>1, <4>1 DEF Idle
    <3>3. CASE ActionBegins(c)
      <4>1. PICK op, r : call' = [call EXCEPT ![c] =
                  [Idle EXCEPT !.op = op, !.pc = "evaluate", !.tab = r.tab,
                        !.page = tabs[r.tab], !.ref = r, !.since = nextRef]]
        BY <3>3 DEF ActionBegins
      <4> QED
        BY <1>1, <4>1 DEF Idle
    <3>4. CASE CloseBegins(c)
      <4>1. PICK t, was : call' = [call EXCEPT ![c] =
                  [Idle EXCEPT !.op = "close", !.pc = "closing", !.tab = t, !.page = tabs[t],
                               !.wasSelected = was]]
        BY <3>4 DEF CloseBegins
      <4> QED
        BY <1>1, <4>1 DEF Idle
    <3> QED
      BY <1>4, <3>1, <3>2, <3>3, <3>4
  <2> QED
    BY <1>1, <2>1
<1>5. CASE \E popup : Acted(c, popup)
  <2>1. call'[c].pc = "acted"
    BY <1>1, <1>5 DEF Acted, Idle
  <2> QED
    BY <1>1, <2>1
<1>6. CASE \E pc \in {"evaluate", "selected", "closed", "goto"} : Goes(c, pc)
  <2>1. call'[c].pc \in {"evaluate", "selected", "closed", "goto"}
    BY <1>1, <1>6 DEF Goes, IsCall
  <2> QED
    BY <1>1, <2>1
<1>7. CASE Evaluate(c) \/ Verified(c) \/ NewPage(c) \/ Created(c)
  <2>1. call'[c].pc \in {"evaluated", "act", "created", "goto"}
    <3>1. CASE Evaluate(c)
      BY <1>1, <3>1 DEF Evaluate, IsCall
    <3>2. CASE Verified(c)
      BY <1>1, <3>2 DEF Verified, IsCall
    <3>3. CASE NewPage(c)
      BY <1>1, <3>3 DEF NewPage, IsCall
    <3>4. CASE Created(c)
      BY <1>1, <3>4 DEF Created, IsCall
    <3> QED
      BY <1>7, <3>1, <3>2, <3>3, <3>4
  <2> QED
    BY <1>1, <2>1
<1>8. CASE UNCHANGED call \/ EvidenceRead(c)
  BY <1>8
<1>9. CASE \/ SnapshotEnds(c) \/ Unreadable(c) \/ ReferenceChanged(c) \/ TargetLost(c)
           \/ LinkRefused(c) \/ ActionEnds(c) \/ ActionFails(c) \/ FrontFails(c) \/ Goto(c)
           \/ GotoFails(c) \/ EvidenceUnavailable(c) \/ Saved(c) \/ CloseEnds(c)
  BY <1>2, <1>9 DEF SnapshotEnds, Unreadable, ReferenceChanged, TargetLost, LinkRefused, ActionEnds,
     ActionFails, FrontFails, Goto, GotoFails, EvidenceUnavailable, Saved, CloseEnds
<1>10. CASE ScrollDocument(c) \/ NavigateBegins(c) \/ EnsureNavigates(c) \/ ReadBegins(c)
  BY <1>3, <1>8, <1>10 DEF ScrollDocument, NavigateBegins, EnsureNavigates, ReadBegins
<1>11. CASE Act(c) \/ ClickLoads(c) \/ ClickOpens(c)
  BY <1>5, <1>11 DEF Act, ClickLoads, ClickOpens
<1>12. CASE ReadAgain(c) \/ SelectPopup(c) \/ ClosePage(c) \/ BroughtToFront(c)
  BY <1>6, <1>12 DEF ReadAgain, SelectPopup, ClosePage, BroughtToFront
<1>13. CASE Activate(c) \/ SynchronizeBegins(c) \/ EnsureSelects(c)
  BY <1>8, <1>13 DEF Activate, SynchronizeBegins, EnsureSelects
<1> QED
  BY <1>4, <1>7, <1>8, <1>9, <1>10, <1>11, <1>12, <1>13 DEF ToolCallNext

LEMMA ReadsKeep ==
    ASSUME BrowserInv, ReadsOK, NEW c \in Calls, ToolCallNext(c)
    PROVE  ReadsOK'
<1> SUFFICES ASSUME NEW d \in Calls, Now(d, "read", "saving")'
             PROVE  call'[d].from = call'[d].at
  BY DEF ReadsOK
<1>1. CASE call'[d] = call[d]
  BY <1>1 DEF ReadsOK, Now
<1>2. CASE d = c /\ EvidenceRead(c)
  <2>1. IsCall(call[c]) /\ call = [e \in Calls |-> call[e]]
    BY DEF BrowserInv, CallsOK, CallOK
  <2>2. call'[c].from = call[c].from /\ call'[c].at = call[c].at
    BY <1>2, <2>1 DEF EvidenceRead, Goes, IsCall
  <2> QED
    BY <1>2, <2>2 DEF EvidenceRead, SamePage
<1>3. CASE d # c
  <2>1. call'[d] = call[d]
    BY <1>3, CallSteps DEF CallStep, BrowserInv, CallsOK
  <2> QED
    BY <1>1, <2>1
<1> QED
  BY <1>1, <1>2, <1>3, OnlyReadsAreSaved

-----------------------------------------------------------------------------
(* What a preparation hands over                                           *)

(* A page that the preparation opened is the only one it observes.         *)
OpenedOK ==
    login.opened /\ login.pc \in {"observe", "observed"} =>
        /\ login.pages \in Seq({login.page}) /\ login.pages # <<>>
        /\ login.candidates \in Seq({login.page})

Follows == OpenedOK' /\ Chosen

(* Nothing is handed over, and nothing opened is observed.                 *)
LEMMA Quiet ==
    ASSUME login'.pc # "front", login'.pc \notin {"observe", "observed"} \/ ~login'.opened,
           \/ ~(login.opened /\ login.pc = "observed")
           \/ login'.pc # "none" \/ control' = control \/ control' # "user-handoff"
    PROVE  Follows
BY DEF Follows, OpenedOK, Chosen

LEMMA FailsQuietly == LoginFails => Follows
<1> SUFFICES ASSUME LoginFails PROVE Follows
  OBVIOUS
<1>1. login'.pc = "none"
  BY DEF LoginFails, NoLogin
<1>2. control' = control \/ control' = "active"
  BY DEF LoginFails, CancelUserHandoff
<1> QED
  BY <1>1, <1>2, Quiet

LEMMA ChoosesOne ==
    ASSUME NEW p, NEW handoff, ChooseExisting(p, handoff),
           handoff => page[p].at = "login",
           handoff /\ login.pc = "judged" => StillAtLogin(p)
    PROVE  Follows
<1>1. CASE TabOf(p) = {}
  BY <1>1, FailsQuietly DEF ChooseExisting
<1>2. CASE TabOf(p) # {}
  <2>1. login' = [NoLogin EXCEPT !.pc = "front", !.page = p, !.handoff = handoff]
    BY <1>2 DEF ChooseExisting
  <2>2. login'.pc = "front" /\ login'.page = p /\ login'.handoff = handoff
    BY <2>1 DEF NoLogin
  <2>3. tabs[selected'] = p
    BY <1>2 DEF ChooseExisting, SelectPage, TabOf, MarkSelected
  <2> QED
    BY <2>2, <2>3 DEF Follows, OpenedOK, Chosen
<1> QED
  BY <1>1, <1>2

LEMMA ChoiceFollows ==
    ASSUME NEW ready, NEW candidates, Choose(ready, candidates), login.pc # "observed"
    PROVE  Follows
<1>1. CASE FirstReady(ready) # {}
  <2>1. PICK i \in FirstReady(ready) : ChooseExisting(ready[i], TRUE)
    BY <1>1 DEF Choose
  <2>2. StillAtLogin(ready[i])
    BY DEF FirstReady, First
  <2> QED
    BY <2>1, <2>2, ChoosesOne DEF StillAtLogin
<1>2. CASE FirstReady(ready) = {} /\ \E i \in DOMAIN candidates : StillAtLogin(candidates[i])
  <2>1. PICK current : login' = [NoLogin EXCEPT !.pc = "observe", !.pages = current,
                                                !.candidates = current, !.round = 1]
    BY <1>2 DEF Choose
  <2>2. login'.pc = "observe" /\ login'.opened = FALSE
    BY <2>1 DEF NoLogin
  <2> QED
    BY <2>2, Quiet
<1>3. CASE FirstReady(ready) = {} /\ ~\E i \in DOMAIN candidates : StillAtLogin(candidates[i])
  <2>1. OpenLoginPage
    BY <1>3 DEF Choose
  <2>2. login'.pc \in {"goto", "create"}
    BY <2>1 DEF OpenLoginPage, NoLogin
  <2> QED
    BY <2>2, Quiet
<1> QED
  BY <1>1, <1>2, <1>3

LEMMA RemainingSame ==
    ASSUME NEW p, NEW T, login.candidates \in Seq(T)
    PROVE  Remaining(p) \in Seq(T)
<1> DEFINE s == login.candidates
           S == {i \in DOMAIN s : s[i] # p}
<1>1. DOMAIN s = 1 .. Len(s) /\ Len(s) \in Nat /\ \A i \in DOMAIN s : s[i] \in T
  OBVIOUS
<1>2. S \in SUBSET (1 .. Len(s)) /\ S \in SUBSET Nat
  BY <1>1
<1>3. IsFiniteSet(1 .. Len(s))
  BY <1>1, FS_Interval
<1>4. \A i \in S : s[i] \in T
  BY <1>1
<1>5. Remaining(p) = InOrder(s, S)
  BY DEF Remaining
<1> HIDE DEF S, s
<1>6. IsFiniteSet(S)
  BY <1>2, <1>3, FS_Subset
<1> QED
  BY <1>2, <1>4, <1>5, <1>6, OrderedSeq

LEMMA GoingOnFollows ==
    ASSUME IsLogin(login), OpenedOK, NEW left, GoesOn(left), login.pc \in {"observe", "observed"},
           login.opened => left \in Seq({login.page})
    PROVE  Follows
<1>1. PICK rest : rest = Tail(login.pages)
  OBVIOUS
<1>2. login.opened => rest \in Seq({login.page})
  BY <1>1 DEF OpenedOK
<1>3. CASE rest # <<>>
  <2>1. login' = [login EXCEPT !.pc = "observe", !.pages = rest, !.candidates = left, !.read = Unread]
    BY <1>1, <1>3 DEF GoesOn
  <2>2. /\ login'.pc = "observe" /\ login'.pages = rest /\ login'.candidates = left
        /\ login'.page = login.page /\ login'.opened = login.opened
    BY <2>1 DEF IsLogin
  <2> QED
    BY <1>2, <1>3, <2>2 DEF Follows, OpenedOK, Chosen
<1>4. CASE rest = <<>> /\ left # <<>> /\ login.round < MaxRounds
  <2> DEFINE next == login.round + 1
  <2>1. login' = [login EXCEPT !.pc = "observe", !.pages = left, !.candidates = left,
                               !.round = next, !.read = Unread]
    BY <1>1, <1>4 DEF GoesOn
  <2> HIDE DEF next
  <2>2. /\ login'.pc = "observe" /\ login'.pages = left /\ login'.candidates = left
        /\ login'.page = login.page /\ login'.opened = login.opened
    BY <2>1 DEF IsLogin
  <2> QED
    BY <1>4, <2>2 DEF Follows, OpenedOK, Chosen
<1>5. CASE rest = <<>> /\ ~(left # <<>> /\ login.round < MaxRounds)
  BY <1>1, <1>5, FailsQuietly DEF GoesOn
<1> QED
  BY <1>3, <1>4, <1>5

LEMMA ObservedFollows ==
    ASSUME IsLogin(login), OpenedOK, Observed
    PROVE  Follows
<1> DEFINE p == Head(login.pages)
<1>1. login.pc = "observed"
  BY DEF Observed
<1>2. login.opened => login.candidates \in Seq({login.page}) /\ p = login.page
  BY <1>1 DEF OpenedOK
<1>3. ASSUME GoesOn(login.candidates) \/ GoesOn(Remaining(p))
      PROVE  Follows
  BY <1>1, <1>2, <1>3, RemainingSame, GoingOnFollows
<1>4. ASSUME NEW handoff, IsChosen(p, handoff), handoff => page[p].at = "login"
      PROVE  Follows
  <2>1. CASE login.opened
    <3>1. LoginCompletes(handoff)
      BY <1>4, <2>1 DEF IsChosen
    <3>2. login'.pc = "none"
      BY <3>1 DEF LoginCompletes, NoLogin
    <3>3. ~handoff => control' = control \/ control' = "active"
      BY <3>1 DEF LoginCompletes
    <3> QED
      BY <1>2, <1>4, <2>1, <3>2, <3>3 DEF Follows, OpenedOK, Chosen
  <2>2. CASE ~login.opened
    BY <1>1, <1>4, <2>2, ChoosesOne DEF IsChosen
  <2> QED
    BY <2>1, <2>2
<1> HIDE DEF p
<1>5. \/ GoesOn(login.candidates) \/ GoesOn(Remaining(p))
      \/ IsChosen(p, FALSE)
      \/ page[p].at = "login" /\ IsChosen(p, TRUE)
  BY DEF Observed, p
<1> QED
  BY <1>3, <1>4, <1>5

LEMMA LoginFollows ==
    ASSUME IsLogin(login), OpenedOK, NEW collecting, LoginNext(collecting)
    PROVE  Follows
<1>1. CASE PrepareBegins
  <2>1. login'.pc = "quiesce"
    BY <1>1 DEF PrepareBegins, NoLogin
  <2> QED
    BY <2>1, Quiet
<1>2. CASE Quiesced(collecting)
  <2>1. login'.pc \in {"judge", "none"} /\ login.pc = "quiesce"
    <3>1. PICK pages : /\ login' = [login EXCEPT !.pc = "judge", !.pages = pages] \/ login' = NoLogin
                       /\ login.pc = "quiesce"
      BY <1>2 DEF Quiesced
    <3>2. CASE login' = [login EXCEPT !.pc = "judge", !.pages = pages]
      BY <3>1, <3>2 DEF IsLogin
    <3>3. CASE login' = NoLogin
      BY <3>1, <3>3 DEF NoLogin
    <3> QED
      BY <3>1, <3>2, <3>3
  <2> QED
    BY <2>1, Quiet
<1>3. CASE JudgeReads
  <2>1. login'.pc = "judged"
    BY <1>3 DEF JudgeReads, Reads, IsLogin
  <2> QED
    BY <2>1, Quiet
<1>4. CASE InterruptionRead
  <2>1. login'.pc = "none" /\ login.pc # "observed"
    BY <1>4 DEF InterruptionRead, NoLogin
  <2> QED
    BY <2>1, Quiet
<1>5. CASE NothingToJudge
  BY <1>5, ChoiceFollows DEF NothingToJudge
<1>6. CASE Judged
  <2> DEFINE p == Head(login.pages)
             AtLogin == login.read.at = "login"
             ready == IF AtLogin /\ ShowsControl(login.read)
                      THEN Append(login.ready, p) ELSE login.ready
             candidates == IF AtLogin /\ login.read.shows = "plain"
                           THEN Append(login.candidates, p) ELSE login.candidates
             rest == Tail(login.pages)
  <2>1. CASE ChooseExisting(p, FALSE)
    BY <2>1, ChoosesOne
  <2>2. CASE Choose(ready, candidates)
    BY <1>6, <2>2, ChoiceFollows DEF Judged
  <2>3. CASE login' = [login EXCEPT !.pc = "judge", !.pages = rest, !.ready = ready,
                                    !.candidates = candidates, !.read = Unread]
    <3> HIDE DEF ready, candidates, rest
    <3>1. login'.pc = "judge"
      BY <2>3 DEF IsLogin
    <3> QED
      BY <3>1, Quiet
  <2> QED
    BY <1>6, <2>1, <2>2, <2>3 DEF Judged
<1>7. CASE CandidateClosed
  <2>1. GoesOn(Remaining(Head(login.pages))) /\ login.pc = "observe"
    BY <1>7 DEF CandidateClosed
  <2>2. login.opened => Remaining(Head(login.pages)) \in Seq({login.page})
    BY <2>1, RemainingSame DEF OpenedOK
  <2> QED
    BY <2>1, <2>2, GoingOnFollows
<1>8. CASE CandidateReads
  <2>1. PICK read : login' = [login EXCEPT !.pc = "observed", !.read = read] /\ login.pc = "observe"
    BY <1>8 DEF CandidateReads, Reads
  <2>2. /\ login'.pc = "observed" /\ login'.pages = login.pages /\ login'.page = login.page
        /\ login'.candidates = login.candidates /\ login'.opened = login.opened
    BY <2>1 DEF IsLogin
  <2> QED
    BY <2>1, <2>2 DEF Follows, OpenedOK, Chosen
<1>9. CASE Observed
  BY <1>9, ObservedFollows
<1>10. CASE BroughtForward
  <2>1. login'.pc = "none" /\ login.pc = "front"
    BY <1>10 DEF BroughtForward, LoginCompletes, LoginFails, NoLogin
  <2> QED
    BY <2>1, Quiet
<1>11. CASE LoginPageAppears \/ LoginPageCreated \/ LoginPageLoads
  <2>1. login'.pc \in {"created", "goto", "opened"}
    BY <1>11 DEF LoginPageAppears, LoginPageCreated, LoginPageLoads, IsLogin
  <2> QED
    BY <2>1, Quiet
<1>12. CASE LoginPageFails
  BY <1>12, FailsQuietly DEF LoginPageFails
<1>13. CASE LoginPageOpened
  <2>1. CASE LoginFails
    BY <2>1, FailsQuietly
  <2>2. CASE login' = [login EXCEPT !.pc = "observe", !.pages = <<login.page>>,
                                    !.candidates = <<login.page>>, !.round = 1]
    <3>1. PICK one : one = <<login.page>>
      OBVIOUS
    <3>2. login' = [login EXCEPT !.pc = "observe", !.pages = one, !.candidates = one, !.round = 1]
      BY <2>2, <3>1
    <3>3. /\ login'.pc = "observe" /\ login'.pages = one /\ login'.candidates = one
          /\ login'.page = login.page
      BY <3>2 DEF IsLogin
    <3>4. one \in Seq({login.page}) /\ one # <<>>
      BY <3>1
    <3> QED
      BY <3>3, <3>4 DEF Follows, OpenedOK, Chosen
  <2> QED
    BY <1>13, <2>1, <2>2 DEF LoginPageOpened
<1> QED
  BY <1>1, <1>2, <1>3, <1>4, <1>5, <1>6, <1>7, <1>8, <1>9, <1>10, <1>11, <1>12, <1>13 DEF LoginNext

(* Only a call that was running moves a page.                              *)
LEMMA RunningCallsMove ==
    ASSUME BrowserInv, NEW c \in Calls, ToolCallNext(c)
    PROVE  page' = page \/ (call[c].pc # "idle" /\ call'[c] # call[c])
<1>1. IsCall(call[c]) /\ call = [d \in Calls |-> call[d]]
  BY DEF BrowserInv, CallsOK, CallOK
<1>2. CASE \/ SnapshotBegins(c) \/ SnapshotEnds(c) \/ Evaluate(c) \/ Unreadable(c) \/ ActionBegins(c)
           \/ ReferenceChanged(c) \/ TargetLost(c) \/ LinkRefused(c) \/ Verified(c)
  BY <1>2 DEF SnapshotBegins, SnapshotEnds, Evaluate, Unreadable, ActionBegins, ReferenceChanged,
     TargetLost, LinkRefused, Verified, browserVars
<1>3. CASE \/ ScrollDocument(c) \/ Act(c) \/ SelectPopup(c) \/ ActionEnds(c) \/ ActionFails(c)
           \/ NavigateBegins(c) \/ BroughtToFront(c) \/ FrontFails(c) \/ GotoFails(c)
  BY <1>3 DEF ScrollDocument, Act, SelectPopup, ActionEnds, ActionFails, NavigateBegins,
     BroughtToFront, FrontFails, GotoFails, browserVars
<1>4. CASE \/ ReadBegins(c) \/ EvidenceUnavailable(c) \/ EvidenceRead(c) \/ ReadAgain(c) \/ Saved(c)
           \/ Activate(c) \/ SynchronizeBegins(c) \/ EnsureSelects(c) \/ EnsureNavigates(c)
           \/ EnsureCreates(c) \/ Created(c) \/ CloseBegins(c) \/ CloseEnds(c)
  BY <1>4 DEF ReadBegins, EvidenceUnavailable, EvidenceRead, ReadAgain, Saved, Activate,
     SynchronizeBegins, EnsureSelects, EnsureNavigates, EnsureCreates, Created, CloseBegins,
     CloseEnds, browserVars
<1>5. CASE ClickLoads(c) \/ ClickOpens(c)
  <2>1. PICK popup : Acted(c, popup)
    BY <1>5 DEF ClickLoads, ClickOpens
  <2>2. call'[c].pc = "acted"
    BY <1>1, <2>1 DEF Acted, Idle
  <2>3. call[c].pc = "act"
    BY <1>5 DEF ClickLoads, ClickOpens, Now
  <2> QED
    BY <2>2, <2>3
<1>6. CASE Goto(c)
  <2>1. call'[c].pc = "idle"
    BY <1>1, <1>6 DEF Goto, Returns, Idle
  <2> QED
    BY <1>6, <2>1 DEF Goto
<1>7. CASE NewPage(c)
  <2>1. call'[c].pc = "created"
    BY <1>1, <1>7 DEF NewPage, IsCall
  <2> QED
    BY <1>7, <2>1 DEF NewPage
<1>8. CASE ClosePage(c)
  <2>1. call'[c].pc = "closed"
    BY <1>1, <1>8 DEF ClosePage, Goes, IsCall
  <2> QED
    BY <1>8, <2>1 DEF ClosePage, Now
<1> QED
  BY <1>2, <1>3, <1>4, <1>5, <1>6, <1>7, <1>8 DEF ToolCallNext

(* While a page is brought to the front, the preparation only ends.        *)
LEMMA ComingToFront ==
    ASSUME BrowserInv, [Next]_vars
    PROVE  ComesToFront
<1> SUFFICES ASSUME login.pc = "front"
             PROVE  ComesToFront
  BY DEF ComesToFront
<1>1. ASSUME UNCHANGED login, page' = page \/ UNCHANGED toolVars
      PROVE  ComesToFront
  BY <1>1 DEF ComesToFront
<1>2. CASE Environment
  BY <1>1, <1>2 DEF Environment, PageAppears, PageCloses, PageLoads, ElementAppears, Interrupted,
     Happens, sessionVars, browserVars
<1>3. CASE ToolCall
  <2>1. PICK c \in Calls : ToolCallNext(c) /\ UNCHANGED login
    BY <1>3 DEF ToolCall
  <2>2. page' = page \/ (call[c].pc # "idle" /\ call'[c] # call[c])
    BY <2>1, RunningCallsMove
  <2> QED
    BY <2>1, <2>2 DEF ComesToFront
<1>4. CASE LoginNext(Collecting)
  <2>1. BroughtForward
    BY <1>4 DEF LoginNext, PrepareBegins, Quiesced, JudgeReads, CandidateReads, Reads, InterruptionRead,
       NothingToJudge, Judged, CandidateClosed, Observed, LoginPageAppears, LoginPageCreated,
       LoginPageLoads, LoginPageFails, LoginPageOpened
  <2>2. page' = page /\ login'.pc = "none"
    BY <2>1 DEF BroughtForward, LoginCompletes, LoginFails, NoLogin, browserVars
  <2>3. CASE LoginFails
    <3>1. control' = control \/ control' = "active"
      BY <2>3 DEF LoginFails, CancelUserHandoff
    <3> QED
      BY <2>2, <3>1 DEF ComesToFront
  <2>4. CASE page[login.page].state = "open" /\ LoginCompletes(login.handoff)
    <3>1. control' = control \/ control' = "active" \/ login.handoff
      BY <2>4 DEF LoginCompletes
    <3> QED
      BY <2>2, <2>4, <3>1 DEF ComesToFront
  <2> QED
    BY <2>1, <2>3, <2>4 DEF BroughtForward
<1>5. CASE CollectionNext
  BY <1>1, <1>5 DEF CollectionNext, RoundBegins, CapturesPage, CaptureFails, PassesOver, Keeps,
     Writes, WriteFails, roundRest, browserVars
<1>6. CASE UNCHANGED vars
  BY <1>1, <1>6 DEF vars, browserVars
<1> QED
  BY <1>2, <1>3, <1>4, <1>5, <1>6 DEF Next

-----------------------------------------------------------------------------
(* The invariant                                                           *)

LEMMA BrowserStart == Init => BrowserInv
<1> SUFFICES ASSUME Init PROVE BrowserInv
  OBVIOUS
<1> USE TabsAssumption
<1>1. PICK first \in Pages, place \in {"blank", "list", "login"} :
        /\ tabs = [t \in TabIds |-> IF t = 1 THEN first ELSE NoPage]
        /\ page = [p \in Pages |-> IF p # first THEN Unborn ELSE
               [state |-> "open", at |-> place, shows |-> "plain",
                nodes |-> IF InScope(place)
                          THEN <<[id |-> 1, href |-> "none", rendered |-> TRUE]>> ELSE <<>>]]
        /\ selected = IF InScope(place) THEN 1 ELSE 0
  BY DEF Init
<1> DEFINE new == [state |-> "open", at |-> place, shows |-> "plain",
                   nodes |-> IF InScope(place)
                             THEN <<[id |-> 1, href |-> "none", rendered |-> TRUE]>> ELSE <<>>]
<1>2. new \in Documents /\ Unborn \in Documents /\ new.state = "open" /\ Unborn.state = "none"
  <2>1. <<[id |-> 1, href |-> "none", rendered |-> TRUE]>> \in Seq(Nodes)
    BY DEF Nodes, Hrefs
  <2> QED
    BY <2>1 DEF Documents, Unborn, Places, Platform, Shows
<1>3. page = [p \in Pages |-> IF p # first THEN Unborn ELSE new]
  BY <1>1
<1> HIDE DEF new
<1>4. Typed
  <2>1. page \in [Pages -> Documents]
    BY <1>2, <1>3
  <2>2. tabs \in [TabIds -> Pages \cup {NoPage}]
    BY <1>1
  <2>3. nextNode = 2 /\ nextTab = 2 /\ nextRef = 1 /\ refs = {}
    BY DEF Init
  <2> QED
    BY <2>1, <2>2, <2>3 DEF Typed
<1>5. RegistryInv
  <2>1. Registered = {1} /\ tabs[1] = first
    BY <1>1 DEF Registered
  <2>2. page[first].state = "open" /\ \A p \in Pages : p # first => page[p].state = "none"
    BY <1>2, <1>3
  <2>3. \A p \in Open : TabOf(p) # {}
    BY <2>1, <2>2 DEF Open, TabOf
  <2>4. \A t \in Registered : t < nextTab /\ page[tabs[t]].state # "none"
    BY <2>1, <2>2 DEF Init
  <2>5. selected # 0 => selected \in Registered
    BY <1>1, <2>1
  <2> QED
    BY <2>1, <2>3, <2>4, <2>5 DEF RegistryInv
<1>6. CallsOK
  BY IdleOK DEF CallsOK, Init
<1>7. LoginOK
  BY DEF LoginOK, IsLogin, NoLogin, Init
<1> QED
  BY <1>4, <1>5, <1>6, <1>7 DEF BrowserInv

(* What keeps the invariant. *)
LEMMA Keeping ==
    ASSUME BrowserInv, Moves, RefsGrow, UNCHANGED call \/ \E c \in Calls : CallStep(c),
           UNCHANGED login \/ LoginOK'
    PROVE  BrowserInv'
<1>1. Typed /\ RegistryInv /\ CallsOK /\ LoginOK
  BY DEF BrowserInv
<1>2. Typed'
  BY <1>1, MovesKeep DEF Typed, RefsGrow
<1>3. RegistryInv' /\ \A p : Born(p) => Born(p)'
  BY <1>1, MovesKeep
<1>4. CallsOK'
  <2>1. CASE UNCHANGED call
    BY <1>1, <1>3, <2>1, OthersStay DEF CallsOK
  <2>2. ASSUME NEW c \in Calls, CallStep(c)
        PROVE  CallsOK'
    <3>1. CallOK(call[c])' /\ call' = [call EXCEPT ![c] = call'[c]]
      BY <2>2 DEF CallStep
    <3>2. ASSUME NEW d \in Calls, d # c
          PROVE  CallOK(call[d])'
      <4>1. call'[d] = call[d] /\ CallOK(call[d])
        BY <1>1, <3>1, <3>2 DEF CallsOK
      <4> QED
        BY <1>1, <1>3, <4>1, OthersStay
    <3>3. call' = [d \in Calls |-> call'[d]]
      BY <1>1, <3>1 DEF CallsOK
    <3> QED
      BY <3>1, <3>2, <3>3 DEF CallsOK
  <2> QED
    BY <2>1, <2>2
<1>5. LoginOK'
  BY <1>1, <1>3 DEF LoginOK, IsLogin, Born
<1> QED
  BY <1>2, <1>3, <1>4, <1>5 DEF BrowserInv

LEMMA BrowserStep == BrowserInv /\ [Next]_vars => BrowserInv'
<1> SUFFICES ASSUME BrowserInv, [Next]_vars PROVE BrowserInv'
  OBVIOUS
<1>1. CASE Environment
  BY <1>1, EnvironmentMoves, RefsStay, Keeping DEF BrowserInv
<1>2. CASE ToolCall
  <2>1. PICK c \in Calls : ToolCallNext(c) /\ UNCHANGED <<login, round, events>>
    BY <1>2 DEF ToolCall
  <2> QED
    BY <2>1, CallSteps, Keeping DEF CallStep
<1>3. CASE LoginNext(Collecting)
  BY <1>3, LoginSteps, Keeping DEF LoginStep
<1>4. CASE CollectionNext \/ UNCHANGED vars
  <2>1. UNCHANGED <<browserVars, refs, nextRef, call, login>>
    BY <1>4, CollectionStays DEF vars, toolVars
  <2>2. Moves /\ RefsGrow
    BY <2>1, PagesStay, RefsStay DEF BrowserInv, browserVars, Selects
  <2> QED
    BY <2>1, <2>2, Keeping
<1> QED
  BY <1>1, <1>2, <1>3, <1>4 DEF Next

LEMMA BrowserHolds == Spec => []BrowserInv
BY BrowserStart, BrowserStep, PTL DEF Spec

LEMMA EvidenceHolds == Spec => [](RoundOK /\ ReadsOK)
<1>1. Init => RoundOK /\ ReadsOK
  <2>1. ASSUME Init
        PROVE  RoundOK
    <3>1. "blank" \in Places
      BY DEF Places
    <3> QED
      BY <2>1, <3>1 DEF Init, RoundOK, IsRound, NoRound
  <2>2. ASSUME Init
        PROVE  ReadsOK
    BY <2>2 DEF Init, ReadsOK, Now, Idle
  <2> QED
    BY <2>1, <2>2
<1>2. BrowserInv /\ RoundOK /\ ReadsOK /\ [Next]_vars => RoundOK' /\ ReadsOK'
  <2> SUFFICES ASSUME BrowserInv, RoundOK, ReadsOK, [Next]_vars
               PROVE  RoundOK' /\ ReadsOK'
    OBVIOUS
  <2>1. UNCHANGED round => RoundOK'
    BY DEF RoundOK, IsRound
  <2>2. UNCHANGED call => ReadsOK'
    BY DEF ReadsOK, Now
  <2>3. CASE Environment
    <3>1. UNCHANGED round
      BY <2>3 DEF Environment, PageAppears, PageCloses, PageLoads, ElementAppears, Interrupted,
         Happens, sessionVars
    <3> QED
      BY <2>1, <2>2, <2>3, <3>1, EnvironmentMoves
  <2>4. CASE ToolCall
    BY <2>1, <2>4, ReadsKeep DEF ToolCall
  <2>5. CASE LoginNext(Collecting) /\ UNCHANGED <<round, events>>
    BY <2>1, <2>2, <2>5, LoginSteps DEF LoginStep
  <2>6. CASE CollectionNext
    BY <2>2, <2>6, CollectionSteps, CollectionStays DEF BrowserInv
  <2>7. CASE UNCHANGED vars
    BY <2>1, <2>2, <2>7 DEF vars, toolVars
  <2> QED
    BY <2>3, <2>4, <2>5, <2>6, <2>7 DEF Next
<1> QED
  BY <1>1, <1>2, BrowserHolds, PTL DEF Spec

-----------------------------------------------------------------------------
(* Who drives the browser, and what references denote                      *)

(* Seen from outside, the session is BrowserAuthority: an interruption is  *)
(* not told from another one, nor remembered.                              *)
Authority == INSTANCE BrowserAuthority WITH
    ReturnCalls <- Calls, Interruptions <- {NoPage}, NoInterruption <- NoPage,
    authority <- IF control = "user-handoff" THEN "user" ELSE "agent",
    interruption <- NoPage,
    returning <- {c \in Calls : call[c].op = "snapshot" /\ call[c].returning}

(* A number names one element, and was given before.                       *)
RefsOnce ==
    \A r \in refs : r.ref < nextRef /\ \A s \in refs : s.ref = r.ref => s = r

(* Only the end of a snapshot grants references or takes control back.     *)
LEMMA OthersLeave ==
    ASSUME NEW c, ToolCallNext(c), ~SnapshotEnds(c)
    PROVE  control' = control /\ nextRef' = nextRef /\ (refs' = refs \/ refs' = {})
<1>1. CASE \/ SnapshotBegins(c) \/ Evaluate(c) \/ Unreadable(c) \/ ActionBegins(c)
           \/ ReferenceChanged(c) \/ TargetLost(c) \/ LinkRefused(c) \/ Verified(c)
  BY <1>1 DEF SnapshotBegins, Evaluate, Unreadable, ActionBegins, ReferenceChanged, TargetLost,
     LinkRefused, Verified, ClearElementReferences
<1>2. CASE \/ ScrollDocument(c) \/ Act(c) \/ ClickLoads(c) \/ ClickOpens(c) \/ SelectPopup(c)
           \/ ActionEnds(c) \/ ActionFails(c) \/ NavigateBegins(c) \/ BroughtToFront(c)
  BY <1>2 DEF ScrollDocument, Act, ClickLoads, ClickOpens, SelectPopup, ActionEnds, ActionFails,
     NavigateBegins, BroughtToFront, ClearElementReferences
<1>3. CASE \/ FrontFails(c) \/ Goto(c) \/ GotoFails(c) \/ ReadBegins(c) \/ EvidenceUnavailable(c)
           \/ EvidenceRead(c) \/ ReadAgain(c) \/ Saved(c) \/ Activate(c) \/ SynchronizeBegins(c)
  BY <1>3 DEF FrontFails, Goto, GotoFails, ReadBegins, EvidenceUnavailable, EvidenceRead, ReadAgain,
     Saved, Activate, SynchronizeBegins, ClearElementReferences
<1>4. CASE \/ EnsureSelects(c) \/ EnsureNavigates(c) \/ EnsureCreates(c) \/ NewPage(c) \/ Created(c)
           \/ CloseBegins(c) \/ ClosePage(c) \/ CloseEnds(c)
  BY <1>4 DEF EnsureSelects, EnsureNavigates, EnsureCreates, NewPage, Created, CloseBegins,
     ClosePage, CloseEnds, ClearElementReferences
<1> QED
  BY <1>1, <1>2, <1>3, <1>4 DEF ToolCallNext

(* A preparation never takes control from the user, nor grants references. *)
Leaves ==
    /\ control = "user-handoff" => control' = "user-handoff"
    /\ nextRef' = nextRef
    /\ refs' = refs \/ refs' = {}

LEMMA LoginLeaves ==
    ASSUME NEW collecting, LoginNext(collecting)
    PROVE  Leaves
<1> USE DEF Leaves, LoginFails, LoginCompletes, CancelUserHandoff, ClearElementReferences, loginRest
<1>1. ASSUME NEW p, NEW handoff, ChooseExisting(p, handoff)
      PROVE  Leaves
  BY <1>1 DEF ChooseExisting
<1>2. ASSUME OpenLoginPage
      PROVE  Leaves
  BY <1>2 DEF OpenLoginPage
<1>3. ASSUME NEW ready, NEW candidates, Choose(ready, candidates)
      PROVE  Leaves
  BY <1>1, <1>2, <1>3 DEF Choose
<1>4. ASSUME NEW left, GoesOn(left)
      PROVE  Leaves
  BY <1>4 DEF GoesOn
<1>5. ASSUME NEW p, NEW handoff, IsChosen(p, handoff)
      PROVE  Leaves
  BY <1>1, <1>5 DEF IsChosen
<1>6. ASSUME NEW pc, NEW next, Reads(pc, next)
      PROVE  Leaves
  BY <1>6 DEF Reads
<1>7. CASE PrepareBegins \/ Quiesced(collecting) \/ InterruptionRead
  BY <1>7 DEF PrepareBegins, Quiesced, InterruptionRead
<1>8. CASE JudgeReads \/ CandidateReads
  BY <1>6, <1>8 DEF JudgeReads, CandidateReads
<1>9. CASE NothingToJudge \/ Judged
  BY <1>1, <1>3, <1>9 DEF NothingToJudge, Judged
<1>10. CASE CandidateClosed \/ Observed
  BY <1>4, <1>5, <1>10 DEF CandidateClosed, Observed
<1>11. CASE \/ BroughtForward \/ LoginPageAppears \/ LoginPageCreated \/ LoginPageLoads
            \/ LoginPageFails \/ LoginPageOpened
  BY <1>11 DEF BroughtForward, LoginPageAppears, LoginPageCreated, LoginPageLoads, LoginPageFails,
     LoginPageOpened
<1> QED
  BY <1>7, <1>8, <1>9, <1>10, <1>11 DEF LoginNext

(* The step of a call, seen from outside. *)
LEMMA CallsAreAuthorised ==
    ASSUME BrowserInv, NEW c \in Calls, ToolCallNext(c)
    PROVE  [Authority!Next]_(Authority!vars)
<1> DEFINE R == {d \in Calls : call[d].op = "snapshot" /\ call[d].returning}
<1>1. /\ call' = [call EXCEPT ![c] = call'[c]]
      /\ call = [d \in Calls |-> call[d]]
  BY CallSteps DEF CallStep, BrowserInv, CallsOK
<1>2. \A d \in Calls : d # c => call'[d] = call[d]
  BY <1>1
<1>3. R' \ {c} = R \ {c}
  BY <1>2
<1>4. CASE SnapshotEnds(c)
  <2>1. call'[c] = Idle
    BY <1>1, <1>4 DEF SnapshotEnds, Returns
  <2>2. c \notin R'
    BY <2>1 DEF Idle
  <2>3. CASE c \notin R
    <3>1. R' = R
      BY <1>3, <2>2, <2>3
    <3>2. control' = control
      BY <1>4, <2>3 DEF SnapshotEnds, Now
    <3> QED
      BY <3>1, <3>2 DEF Authority!vars
  <2>4. CASE c \in R
    <3>1. R' = R \ {c}
      BY <1>3, <2>2
    <3>2. CASE control' = control
      BY <2>4, <3>1, <3>2 DEF Authority!Next, Authority!Withdraw
    <3>3. CASE control' = "active"
      BY <2>4, <3>1, <3>3 DEF Authority!Next, Authority!Return
    <3> QED
      BY <1>4, <3>2, <3>3 DEF SnapshotEnds
  <2> QED
    BY <2>3, <2>4
<1>5. CASE ~SnapshotEnds(c)
  <2>1. control' = control
    BY <1>5, OthersLeave
  <2>2. CASE c \in R'
    <3>1. R' = R \cup {c}
      BY <1>3, <2>2
    <3> QED
      BY <2>1, <3>1 DEF Authority!Next, Authority!RequestReturn
  <2>3. CASE c \notin R' /\ c \in R
    <3>1. R' = R \ {c}
      BY <1>3, <2>3
    <3> QED
      BY <2>1, <2>3, <3>1 DEF Authority!Next, Authority!Withdraw
  <2>4. CASE c \notin R' /\ c \notin R
    <3>1. R' = R
      BY <1>3, <2>4
    <3> QED
      BY <2>1, <3>1 DEF Authority!vars
  <2> QED
    BY <2>2, <2>3, <2>4
<1> QED
  BY <1>4, <1>5

LEMMA GrantsOnce ==
    ASSUME BrowserInv, RefsOnce, NEW c \in Calls, SnapshotEnds(c)
    PROVE  RefsOnce'
<1> DEFINE seen == call[c].seen
           new == {Granted(c, i) : i \in Elements(seen)}
<1>1. /\ nextRef \in Nat /\ \A r \in refs : r.ref \in Nat
      /\ Len(seen) \in Nat /\ Elements(seen) \subseteq 1 .. Len(seen)
  <2>1. seen \in Seq(Nodes)
    BY DEF BrowserInv, CallsOK, CallOK
  <2>2. Len(seen) \in Nat /\ DOMAIN seen = 1 .. Len(seen)
    BY <2>1
  <2>3. nextRef \in Nat /\ \A r \in refs : r.ref \in Nat
    BY DEF BrowserInv, Typed
  <2>4. Elements(seen) \subseteq 1 .. Len(seen)
    BY <2>2 DEF Elements
  <2> QED
    BY <2>2, <2>3, <2>4
<1>2. refs' = refs \cup new /\ nextRef' = nextRef + Len(seen)
  BY DEF SnapshotEnds
<1>3. \A i \in Elements(seen) : Granted(c, i).ref = nextRef + i - 1
  BY DEF Granted
<1> HIDE DEF seen
<1>4. \A r \in new : nextRef <= r.ref /\ r.ref < nextRef'
  BY <1>1, <1>2, <1>3
<1>5. \A r, s \in new : s.ref = r.ref => s = r
  <2> SUFFICES ASSUME NEW i \in Elements(seen), NEW j \in Elements(seen),
                      Granted(c, i).ref = Granted(c, j).ref
               PROVE  i = j
    OBVIOUS
  <2> QED
    BY <1>1, <1>3
<1> HIDE DEF new
<1>6. \A r \in refs : r.ref < nextRef /\ r.ref < nextRef'
  BY <1>1, <1>2 DEF RefsOnce
<1>7. \A r \in new : r.ref \notin {s.ref : s \in refs}
  BY <1>1, <1>4, <1>6
<1> QED
  BY <1>2, <1>4, <1>5, <1>6, <1>7 DEF RefsOnce

-----------------------------------------------------------------------------
(* How a round comes to its end                                            *)

(* What a round has left to do: each page is read, judged and gives at     *)
(* most one item, and each item is written.                                *)
RoundLeft ==
    IF round.pc = "read" THEN 3 * Len(round.pages) + Len(round.items) + 3
    ELSE IF round.pc = "captured" THEN 3 * Len(round.pages) + Len(round.items) + 2
    ELSE Len(round.items)

LEMMA OnwardLess ==
    ASSUME NEW pages \in Seq(Pages), NEW items \in Seq(Kept), Onward(pages, items)
    PROVE  RoundLeft' <= 3 * Len(pages) + Len(items)
<1> DEFINE next == First({i \in DOMAIN pages : Eligible(pages[i])})
<1>1. Len(pages) \in Nat /\ Len(items) \in Nat /\ DOMAIN pages = 1 .. Len(pages)
  OBVIOUS
<1>2. CASE control = "active" /\ next # {}
  <2>1. PICK i \in next :
           round' = [NoRound EXCEPT !.pc = "read", !.page = pages[i], !.from = page[pages[i]].at,
                                    !.pages = SubSeq(pages, i + 1, Len(pages)), !.items = items]
    BY <1>2 DEF Onward
  <2>2. i \in 1 .. Len(pages)
    BY <1>1 DEF First
  <2> DEFINE from == page[pages[i]].at
             rest == SubSeq(pages, i + 1, Len(pages))
  <2>3. Len(rest) \in Nat /\ Len(rest) <= Len(pages) - 1
    BY <1>1, <2>2
  <2>4. round' = [NoRound EXCEPT !.pc = "read", !.page = pages[i], !.from = from,
                                 !.pages = rest, !.items = items]
    BY <2>1
  <2> HIDE DEF rest, from
  <2>5. round'.pc = "read" /\ round'.pages = rest /\ round'.items = items
    BY <2>4 DEF NoRound
  <2> QED
    BY <1>1, <2>3, <2>5 DEF RoundLeft
<1>3. CASE ~(control = "active" /\ next # {})
  <2>1. \/ round' = NoRound
        \/ round' = [NoRound EXCEPT !.pc = "write", !.items = items]
    BY <1>3 DEF Onward
  <2>2. round'.pc \in {"none", "write"} /\ (round'.items = <<>> \/ round'.items = items)
    <3>1. CASE round' = NoRound
      BY <3>1 DEF NoRound
    <3>2. CASE round' = [NoRound EXCEPT !.pc = "write", !.items = items]
      BY <3>2 DEF NoRound
    <3> QED
      BY <2>1, <3>1, <3>2
  <2>3. RoundLeft' = Len(round'.items)
    BY <2>2 DEF RoundLeft
  <2> QED
    BY <1>1, <2>2, <2>3
<1> QED
  BY <1>2, <1>3

LEMMA RoundLeftIsNatural == RoundOK => RoundLeft \in Nat
<1> SUFFICES ASSUME RoundOK PROVE RoundLeft \in Nat
  OBVIOUS
<1>1. PICK n \in Nat, k \in Nat : n = Len(round.pages) /\ k = Len(round.items)
  BY DEF RoundOK
<1>2. 3 * n + k + 3 \in Nat /\ 3 * n + k + 2 \in Nat
  OBVIOUS
<1> QED
  BY <1>1, <1>2 DEF RoundLeft

LEMMA CollectionAdvances ==
    ASSUME RoundOK, RoundLeft' \in Nat, CollectionNext, round.pc # "none"
    PROVE  RoundLeft' < RoundLeft
<1>1. /\ round.pages \in Seq(Pages) /\ round.items \in Seq(Kept)
      /\ Len(round.pages) \in Nat /\ Len(round.items) \in Nat
  BY DEF RoundOK
<1>6. PICK n \in Nat, k \in Nat : n = Len(round.pages) /\ k = Len(round.items)
  BY <1>1
<1>2. CASE CapturesPage
  <2>1. PICK at, seen : round' = [round EXCEPT !.pc = "captured", !.at = at, !.seen = seen]
    BY <1>2 DEF CapturesPage
  <2>2. round'.pc = "captured" /\ round'.pages = round.pages /\ round'.items = round.items
    BY <2>1 DEF RoundOK, IsRound
  <2>3. round.pc = "read"
    BY <1>2 DEF CapturesPage
  <2>4. /\ RoundLeft = 3 * Len(round.pages) + Len(round.items) + 3
        /\ RoundLeft' = 3 * Len(round.pages) + Len(round.items) + 2
    BY <2>2, <2>3 DEF RoundLeft
  <2>5. RoundLeft = 3 * n + k + 3 /\ RoundLeft' = 3 * n + k + 2
    BY <1>6, <2>4
  <2> QED
    BY <2>5
<1>3. CASE CaptureFails \/ PassesOver
  <2>1. Onward(round.pages, round.items) /\ round.pc \in {"read", "captured"}
    BY <1>3 DEF CaptureFails, PassesOver
  <2>2. RoundLeft' <= 3 * Len(round.pages) + Len(round.items)
    BY <1>1, <2>1, OnwardLess
  <2>3. \/ RoundLeft = 3 * Len(round.pages) + Len(round.items) + 3
        \/ RoundLeft = 3 * Len(round.pages) + Len(round.items) + 2
    BY <2>1 DEF RoundLeft
  <2>4. /\ RoundLeft' <= 3 * n + k
        /\ RoundLeft = 3 * n + k + 3 \/ RoundLeft = 3 * n + k + 2
    BY <1>6, <2>2, <2>3
  <2> QED
    BY <2>4
<1>4. CASE Keeps
  <2> DEFINE new == EvidenceOf(round.from, round.at, round.seen)
             items == Append(round.items, new)
  <2>1. new \in Kept
    BY <1>4, EvidenceKept DEF Keeps, SamePage, RoundOK
  <2>2. items \in Seq(Kept) /\ Len(items) = Len(round.items) + 1
    BY <1>1, <2>1
  <2>3. Onward(round.pages, items) /\ round.pc = "captured"
    BY <1>4 DEF Keeps
  <2> HIDE DEF items
  <2>4. RoundLeft' <= 3 * Len(round.pages) + Len(items)
    BY <1>1, <2>2, <2>3, OnwardLess
  <2>5. RoundLeft = 3 * Len(round.pages) + Len(round.items) + 2
    BY <2>3 DEF RoundLeft
  <2>6. RoundLeft' <= 3 * n + (k + 1) /\ RoundLeft = 3 * n + k + 2
    BY <1>6, <2>2, <2>4, <2>5
  <2> QED
    BY <2>6
<1>5. CASE Writes \/ WriteFails
  <2>1. round.pc = "write" /\ Len(round.items) > 0
    BY <1>1, <1>5 DEF Writes, WriteFails, RoundOK
  <2>2. CASE round' = NoRound
    <3>1. RoundLeft' = 0
      BY <2>2 DEF NoRound, RoundLeft
    <3> QED
      BY <1>1, <2>1, <3>1 DEF RoundLeft
  <2>3. CASE round' = [round EXCEPT !.items = Tail(@)]
    <3>1. PICK rest : rest = Tail(round.items) /\ round' = [round EXCEPT !.items = rest]
      BY <2>3
    <3>2. round'.pc = "write" /\ round'.items = rest
      BY <2>1, <3>1 DEF RoundOK, IsRound
    <3>3. Len(rest) = Len(round.items) - 1
      BY <1>1, <2>1, <3>1
    <3> QED
      BY <1>1, <2>1, <3>2, <3>3 DEF RoundLeft
  <2> QED
    BY <1>5, <2>2, <2>3 DEF Writes, WriteFails
<1> QED
  BY <1>2, <1>3, <1>4, <1>5 DEF CollectionNext, RoundBegins

-----------------------------------------------------------------------------
(* How a preparation comes to its end                                      *)

(* What is still ahead of a preparation at a place.                        *)
Stage(pc) ==
    IF pc = "quiesce" THEN 8 ELSE IF pc \in {"judge", "judged"} THEN 7
    ELSE IF pc = "create" THEN 6 ELSE IF pc = "created" THEN 5
    ELSE IF pc = "goto" THEN 4 ELSE IF pc = "opened" THEN 3
    ELSE IF pc \in {"observe", "observed"} THEN 2 ELSE IF pc = "front" THEN 1 ELSE 0

(* It goes on to a later stage, or begins another round of observation, or *)
(* is done with a page, or has read it.                                    *)
Nearer ==
    \/ Stage(login'.pc) < Stage(login.pc)
    \/ /\ Stage(login'.pc) = Stage(login.pc)
       /\ \/ login.round < login'.round
          \/ login'.round = login.round /\ Len(login'.pages) < Len(login.pages)
          \/ /\ login'.round = login.round /\ login'.pages = login.pages
             /\ login.pc \in {"judge", "observe"} /\ login'.pc \in {"judged", "observed"}

(* What it counts its rounds and its pages by.                             *)
Bounded ==
    /\ login.round \in 0 .. MaxRounds
    /\ login.pages \in Seq(Pages) /\ login.candidates \in Seq(Pages)
    /\ login.pc \in {"judged", "observe", "observed"} => login.pages # <<>>
    /\ login.pc \in {"created", "goto", "opened"} => login.page \in Pages

Ahead == Bounded' /\ Nearer

(* Where it may come to choose a page.                                    *)
Choosing == {"judge", "judged", "observe", "observed"}

LEMMA FailsAhead ==
    ASSUME login' = NoLogin, Stage(login.pc) > 0
    PROVE  Ahead
<1>1. login'.pc = "none" /\ login'.round = 0 /\ login'.pages = <<>> /\ login'.candidates = <<>>
  BY DEF NoLogin
<1>2. Stage(login'.pc) = 0
  BY <1>1 DEF Stage
<1>3. 0 \in 0 .. MaxRounds
  BY LoginAssumption
<1> QED
  BY <1>1, <1>2, <1>3 DEF Ahead, Bounded, Nearer

LEMMA ExistingAhead ==
    ASSUME NEW p, NEW handoff, ChooseExisting(p, handoff), login.pc \in Choosing
    PROVE  Ahead
<1>1. Stage(login.pc) \in {2, 7} /\ Stage("front") = 1
  BY DEF Choosing, Stage
<1>2. CASE LoginFails
  BY <1>1, <1>2, FailsAhead DEF LoginFails
<1>3. CASE login' = [NoLogin EXCEPT !.pc = "front", !.page = p, !.handoff = handoff]
  <2>1. login'.pc = "front" /\ login'.round = 0 /\ login'.pages = <<>> /\ login'.candidates = <<>>
    BY <1>3 DEF NoLogin
  <2>2. 0 \in 0 .. MaxRounds
    BY LoginAssumption
  <2> QED
    BY <1>1, <2>1, <2>2 DEF Ahead, Bounded, Nearer
<1> QED
  BY <1>2, <1>3 DEF ChooseExisting

LEMMA OpeningAhead ==
    ASSUME Typed, OpenLoginPage, login.pc \in {"judge", "judged"}
    PROVE  Ahead
<1>1. Stage(login.pc) = 7 /\ Stage("goto") = 4 /\ Stage("create") = 6
  BY DEF Stage
<1>2. 0 \in 0 .. MaxRounds
  BY LoginAssumption
<1>3. CASE \E t \in Registered :
               login' = [NoLogin EXCEPT !.pc = "goto", !.page = tabs[t], !.opened = TRUE]
  <2>1. PICK t \in Registered :
               login' = [NoLogin EXCEPT !.pc = "goto", !.page = tabs[t], !.opened = TRUE]
    BY <1>3
  <2>2. /\ login'.pc = "goto" /\ login'.round = 0 /\ login'.pages = <<>>
        /\ login'.candidates = <<>> /\ login'.page = tabs[t]
    BY <2>1 DEF NoLogin
  <2>3. tabs[t] \in Pages
    BY DEF Registered, Typed
  <2> QED
    BY <1>1, <1>2, <2>2, <2>3 DEF Ahead, Bounded, Nearer
<1>4. CASE login' = [NoLogin EXCEPT !.pc = "create", !.opened = TRUE]
  <2>1. login'.pc = "create" /\ login'.round = 0 /\ login'.pages = <<>> /\ login'.candidates = <<>>
    BY <1>4 DEF NoLogin
  <2> QED
    BY <1>1, <1>2, <2>1 DEF Ahead, Bounded, Nearer
<1> QED
  BY <1>3, <1>4 DEF OpenLoginPage, First

(* What is left of some pages, in their order. *)
LEMMA SomeOf ==
    ASSUME NEW s \in Seq(Pages), NEW S \in SUBSET DOMAIN s
    PROVE  /\ InOrder(s, S) \in Seq(Pages)
           /\ S # {} => InOrder(s, S) # <<>>
<1>1. DOMAIN s = 1 .. Len(s) /\ Len(s) \in Nat /\ \A i \in DOMAIN s : s[i] \in Pages
  OBVIOUS
<1>2. IsFiniteSet(1 .. Len(s))
  BY <1>1, FS_Interval
<1>3. S \in SUBSET Nat /\ IsFiniteSet(S) /\ \A i \in S : s[i] \in Pages
  BY <1>1, <1>2, FS_Subset
<1>4. InOrder(s, S) \in Seq(Pages)
  BY <1>3, OrderedSeq
<1>5. S # {} => InOrder(s, S) # <<>>
  <2> SUFFICES ASSUME S # {} PROVE InOrder(s, S) # <<>>
    OBVIOUS
  <2>1. Cardinality(S) \in Nat /\ Cardinality(S) # 0
    BY <1>3, FS_CardinalityType, FS_EmptySet
  <2>2. DOMAIN InOrder(s, S) = 1 .. Cardinality(S)
    BY DEF InOrder
  <2>3. 1 \in DOMAIN InOrder(s, S)
    BY <2>1, <2>2
  <2> QED
    BY <2>3
<1> QED
  BY <1>4, <1>5

LEMMA ChoiceAhead ==
    ASSUME Typed, NEW ready, NEW candidates \in Seq(Pages), Choose(ready, candidates),
           login.pc \in {"judge", "judged"}
    PROVE  Ahead
<1>1. login.pc \in Choosing
  BY DEF Choosing
<1>2. CASE \E i : ChooseExisting(ready[i], TRUE)
  BY <1>1, <1>2, ExistingAhead
<1>3. CASE OpenLoginPage
  BY <1>3, OpeningAhead
<1>4. CASE /\ \E i \in DOMAIN candidates : StillAtLogin(candidates[i])
           /\ login' = [NoLogin EXCEPT !.pc = "observe", !.pages = StillThere(candidates),
                                       !.candidates = StillThere(candidates), !.round = 1]
  <2>1. PICK current : /\ current = StillThere(candidates)
                       /\ login' = [NoLogin EXCEPT !.pc = "observe", !.pages = current,
                                                   !.candidates = current, !.round = 1]
    BY <1>4
  <2>2. current \in Seq(Pages) /\ current # <<>>
    BY <1>4, <2>1, SomeOf DEF StillThere
  <2>3. /\ login'.pc = "observe" /\ login'.round = 1 /\ login'.pages = current
        /\ login'.candidates = current
    BY <2>1 DEF NoLogin
  <2>4. 1 \in 0 .. MaxRounds
    BY LoginAssumption
  <2>5. Stage(login'.pc) < Stage(login.pc)
    BY <2>3 DEF Stage
  <2> QED
    BY <2>2, <2>3, <2>4, <2>5 DEF Ahead, Bounded, Nearer
<1> QED
  BY <1>2, <1>3, <1>4 DEF Choose

LEMMA GoingOnAhead ==
    ASSUME IsLogin(login), Bounded, NEW left \in Seq(Pages), GoesOn(left),
           login.pc \in {"observe", "observed"}
    PROVE  Ahead
<1>1. PICK rest : rest = Tail(login.pages)
  OBVIOUS
<1>2. login.pages \in Seq(Pages) /\ login.pages # <<>> /\ login.round \in 0 .. MaxRounds
  BY DEF Bounded
<1>3. rest \in Seq(Pages) /\ Len(rest) < Len(login.pages)
  BY <1>1, <1>2
<1>4. Stage(login.pc) = 2 /\ Stage("observe") = 2
  BY DEF Stage
<1>5. CASE rest # <<>>
  <2>1. login' = [login EXCEPT !.pc = "observe", !.pages = rest, !.candidates = left, !.read = Unread]
    BY <1>1, <1>5 DEF GoesOn
  <2>2. /\ login'.pc = "observe" /\ login'.pages = rest /\ login'.candidates = left
        /\ login'.round = login.round
    BY <2>1 DEF IsLogin
  <2> QED
    BY <1>2, <1>3, <1>4, <1>5, <2>2 DEF Ahead, Bounded, Nearer
<1>6. CASE rest = <<>> /\ left # <<>> /\ login.round < MaxRounds
  <2> DEFINE next == login.round + 1
  <2>1. login' = [login EXCEPT !.pc = "observe", !.pages = left, !.candidates = left,
                               !.round = next, !.read = Unread]
    BY <1>1, <1>6 DEF GoesOn
  <2>2. next \in 0 .. MaxRounds /\ login.round < next
    BY <1>2, <1>6, LoginAssumption
  <2> HIDE DEF next
  <2>3. /\ login'.pc = "observe" /\ login'.pages = left /\ login'.candidates = left
        /\ login'.round = next
    BY <2>1 DEF IsLogin
  <2> QED
    BY <1>4, <1>6, <2>2, <2>3 DEF Ahead, Bounded, Nearer
<1>7. CASE rest = <<>> /\ ~(left # <<>> /\ login.round < MaxRounds)
  <2>1. login' = NoLogin
    BY <1>1, <1>7 DEF GoesOn, LoginFails
  <2> QED
    BY <1>4, <2>1, FailsAhead
<1> QED
  BY <1>5, <1>6, <1>7

LEMMA ObservedAhead ==
    ASSUME IsLogin(login), Bounded, Observed
    PROVE  Ahead
<1> DEFINE p == Head(login.pages)
<1>1. login.pc = "observed" /\ login.candidates \in Seq(Pages)
  BY DEF Observed, Bounded
<1>2. ASSUME GoesOn(login.candidates) \/ GoesOn(Remaining(p))
      PROVE  Ahead
  BY <1>1, <1>2, RemainingSame, GoingOnAhead
<1>3. ASSUME NEW handoff, IsChosen(p, handoff)
      PROVE  Ahead
  <2>1. CASE LoginCompletes(handoff)
    <3>1. Stage(login.pc) = 2 /\ login' = NoLogin
      BY <1>1, <2>1 DEF Stage, LoginCompletes
    <3> QED
      BY <3>1, FailsAhead
  <2>2. CASE ChooseExisting(p, handoff)
    BY <1>1, <2>2, ExistingAhead DEF Choosing
  <2> QED
    BY <1>3, <2>1, <2>2 DEF IsChosen
<1> HIDE DEF p
<1>4. \/ GoesOn(login.candidates) \/ GoesOn(Remaining(p))
      \/ IsChosen(p, FALSE) \/ IsChosen(p, TRUE)
  BY DEF Observed, p
<1> QED
  BY <1>2, <1>3, <1>4

LEMMA JudgedAhead ==
    ASSUME Typed, IsLogin(login), Bounded, Judged
    PROVE  Ahead
<1> DEFINE p == Head(login.pages)
           AtLogin == login.read.at = "login"
           ready == IF AtLogin /\ ShowsControl(login.read)
                    THEN Append(login.ready, p) ELSE login.ready
           candidates == IF AtLogin /\ login.read.shows = "plain"
                         THEN Append(login.candidates, p) ELSE login.candidates
           rest == Tail(login.pages)
<1>1. /\ login.pc = "judged" /\ login.pages \in Seq(Pages) /\ login.pages # <<>>
      /\ login.candidates \in Seq(Pages) /\ login.round \in 0 .. MaxRounds
  BY DEF Judged, Bounded
<1>2. candidates \in Seq(Pages)
  BY <1>1
<1>3. rest \in Seq(Pages) /\ Len(rest) < Len(login.pages)
  BY <1>1
<1>4. Stage("judged") = 7 /\ Stage("judge") = 7
  BY DEF Stage
<1>5. CASE ChooseExisting(p, FALSE)
  BY <1>1, <1>5, ExistingAhead DEF Choosing
<1>6. CASE Choose(ready, candidates)
  BY <1>1, <1>2, <1>6, ChoiceAhead
<1>7. CASE login' = [login EXCEPT !.pc = "judge", !.pages = rest, !.ready = ready,
                                  !.candidates = candidates, !.read = Unread]
  <2> HIDE DEF ready, candidates, rest
  <2>1. /\ login'.pc = "judge" /\ login'.pages = rest /\ login'.candidates = candidates
        /\ login'.round = login.round
    BY <1>7 DEF IsLogin
  <2> QED
    BY <1>1, <1>2, <1>3, <1>4, <2>1 DEF Ahead, Bounded, Nearer
<1> QED
  BY <1>5, <1>6, <1>7 DEF Judged

LEMMA ReadsAhead ==
    ASSUME IsLogin(login), Bounded, JudgeReads \/ CandidateReads
    PROVE  Ahead
<1>1. PICK pc, read : /\ login' = [login EXCEPT !.pc = pc, !.read = read]
                      /\ \/ login.pc = "judge" /\ pc = "judged"
                         \/ login.pc = "observe" /\ pc = "observed"
  BY DEF JudgeReads, CandidateReads, Reads
<1>2. login.pages # <<>>
  BY DEF JudgeReads, CandidateReads, Reads
<1>3. /\ login'.pc = pc /\ login'.pages = login.pages /\ login'.candidates = login.candidates
      /\ login'.round = login.round
  BY <1>1 DEF IsLogin
<1>4. Stage(login'.pc) = Stage(login.pc)
  BY <1>1, <1>3 DEF Stage
<1> QED
  BY <1>1, <1>2, <1>3, <1>4 DEF Ahead, Bounded, Nearer

(* The pages to be judged. *)
LEMMA JudgesPages ==
    ASSUME Typed, RegistryInv
    PROVE  PlatformPages \in Seq(Pages)
<1> DEFINE ts == {t \in Registered : InScope(page[tabs[t]].at)}
<1>1. ts \in SUBSET Nat /\ IsFiniteSet(ts)
  BY TabsAreFinite DEF Registered
<1>2. \A t \in ts : tabs[t] \in Pages
  BY DEF Registered, Typed
<1> HIDE DEF ts
<1>3. InOrder(tabs, ts) \in Seq(Pages)
  BY <1>1, <1>2, OrderedSeq
<1> QED
  BY <1>3 DEF PlatformPages, ts

LEMMA QuiescedAhead ==
    ASSUME Typed, RegistryInv, IsLogin(login), Bounded, NEW collecting, Quiesced(collecting)
    PROVE  Ahead
<1>1. Stage(login.pc) = 8 /\ login.pc = "quiesce" /\ Stage("judge") = 7
  BY DEF Quiesced, Stage
<1>2. CASE login' = NoLogin
  BY <1>1, <1>2, FailsAhead
<1>3. CASE login' = [login EXCEPT !.pc = "judge", !.pages = PlatformPages]
  <2>1. PICK pages \in Seq(Pages) : login' = [login EXCEPT !.pc = "judge", !.pages = pages]
    BY <1>3, JudgesPages
  <2>2. /\ login'.pc = "judge" /\ login'.pages = pages /\ login'.candidates = login.candidates
        /\ login'.round = login.round
    BY <2>1 DEF IsLogin
  <2> QED
    BY <1>1, <2>2 DEF Ahead, Bounded, Nearer
<1> QED
  BY <1>2, <1>3 DEF Quiesced

(* The page that is opened for the login. *)
LEMMA OpenedAhead ==
    ASSUME IsLogin(login), Bounded, LoginPageAppears \/ LoginPageCreated \/ LoginPageLoads
    PROVE  Ahead
<1> DEFINE Same == /\ login'.pages = login.pages /\ login'.candidates = login.candidates
                   /\ login'.round = login.round /\ login'.page \in Pages
<1>1. CASE LoginPageAppears
  <2>1. PICK p \in Pages : login' = [login EXCEPT !.pc = "created", !.page = p]
    BY <1>1 DEF LoginPageAppears
  <2>2. login.pc = "create" /\ login'.pc = "created" /\ Same
    BY <1>1, <2>1 DEF LoginPageAppears, IsLogin
  <2>3. Stage(login'.pc) < Stage(login.pc)
    BY <2>2 DEF Stage
  <2> QED
    BY <2>2, <2>3 DEF Ahead, Bounded, Nearer
<1>2. CASE LoginPageCreated \/ LoginPageLoads
  <2>1. PICK pc : /\ login' = [login EXCEPT !.pc = pc]
                  /\ \/ login.pc = "created" /\ pc = "goto"
                     \/ login.pc = "goto" /\ pc = "opened"
    BY <1>2 DEF LoginPageCreated, LoginPageLoads
  <2>2. login.page \in Pages
    BY <2>1 DEF Bounded
  <2>3. login'.pc = pc /\ Same
    BY <2>1, <2>2 DEF IsLogin
  <2>4. Stage(login'.pc) < Stage(login.pc)
    BY <2>1, <2>3 DEF Stage
  <2> QED
    BY <2>1, <2>3, <2>4 DEF Ahead, Bounded, Nearer
<1> QED
  BY <1>1, <1>2

LEMMA LoginAhead ==
    ASSUME Typed, RegistryInv, IsLogin(login), Bounded, NEW collecting, LoginNext(collecting),
           login.pc # "none"
    PROVE  Ahead
<1>1. CASE Quiesced(collecting)
  BY <1>1, QuiescedAhead
<1>2. CASE JudgeReads \/ CandidateReads
  BY <1>2, ReadsAhead
<1>3. CASE InterruptionRead
  <2>1. login' = NoLogin /\ login.pc \in {"judge", "observe"}
    BY <1>3 DEF InterruptionRead
  <2>2. Stage(login.pc) > 0
    BY <2>1 DEF Stage
  <2> QED
    BY <2>1, <2>2, FailsAhead
<1>4. CASE NothingToJudge
  <2>1. <<>> \in Seq(Pages)
    OBVIOUS
  <2> QED
    BY <1>4, <2>1, ChoiceAhead DEF NothingToJudge
<1>5. CASE Judged
  BY <1>5, JudgedAhead
<1>6. CASE CandidateClosed
  <2>1. login.candidates \in Seq(Pages)
    BY DEF Bounded
  <2> QED
    BY <1>6, <2>1, RemainingSame, GoingOnAhead DEF CandidateClosed
<1>7. CASE Observed
  BY <1>7, ObservedAhead
<1>8. CASE BroughtForward \/ LoginPageFails
  <2>1. login' = NoLogin /\ login.pc \in {"front", "goto"}
    BY <1>8 DEF BroughtForward, LoginPageFails, LoginCompletes, LoginFails
  <2>2. Stage(login.pc) > 0
    BY <2>1 DEF Stage
  <2> QED
    BY <2>1, <2>2, FailsAhead
<1>9. CASE LoginPageAppears \/ LoginPageCreated \/ LoginPageLoads
  BY <1>9, OpenedAhead
<1>10. CASE LoginPageOpened
  <2>1. login.pc = "opened" /\ login.page \in Pages
    BY <1>10 DEF LoginPageOpened, Bounded
  <2>2. Stage(login.pc) = 3 /\ Stage("observe") = 2
    BY <2>1 DEF Stage
  <2>3. CASE LoginFails
    BY <2>2, <2>3, FailsAhead DEF LoginFails
  <2>4. CASE login' = [login EXCEPT !.pc = "observe", !.pages = <<login.page>>,
                                    !.candidates = <<login.page>>, !.round = 1]
    <3>1. PICK one : one = <<login.page>>
      OBVIOUS
    <3>2. login' = [login EXCEPT !.pc = "observe", !.pages = one, !.candidates = one, !.round = 1]
      BY <2>4, <3>1
    <3>3. /\ login'.pc = "observe" /\ login'.pages = one /\ login'.candidates = one
          /\ login'.round = 1
      BY <3>2 DEF IsLogin
    <3>4. one \in Seq(Pages) /\ one # <<>> /\ 1 \in 0 .. MaxRounds
      BY <2>1, <3>1, LoginAssumption
    <3> QED
      BY <2>2, <3>3, <3>4 DEF Ahead, Bounded, Nearer
  <2> QED
    BY <1>10, <2>3, <2>4 DEF LoginPageOpened
<1> QED
  BY <1>1, <1>2, <1>3, <1>4, <1>5, <1>6, <1>7, <1>8, <1>9, <1>10 DEF LoginNext, PrepareBegins

LEMMA LoginBegins ==
    ASSUME Bounded, NEW collecting, LoginNext(collecting), login.pc = "none"
    PROVE  Bounded'
<1>1. PrepareBegins
  BY DEF LoginNext, Quiesced, JudgeReads, CandidateReads, Reads, InterruptionRead, NothingToJudge,
     Judged, CandidateClosed, Observed, BroughtForward, LoginPageAppears, LoginPageCreated,
     LoginPageLoads, LoginPageFails, LoginPageOpened
<1>2. /\ login'.pc = "quiesce" /\ login'.round = 0 /\ login'.pages = <<>>
      /\ login'.candidates = <<>>
  BY <1>1 DEF PrepareBegins, NoLogin
<1>3. 0 \in 0 .. MaxRounds
  BY LoginAssumption
<1> QED
  BY <1>2, <1>3 DEF Bounded

-----------------------------------------------------------------------------
(* The theorems                                                            *)

(* Every open page has one tab, no tab is given twice, and the selected    *)
(* tab is one there is, whatever opens and closes while calls and a login  *)
(* that will select a page are waiting.                                    *)
THEOREM Registry == Spec => []RegistryInv
<1>1. BrowserInv => RegistryInv
  BY DEF BrowserInv
<1> QED
  BY <1>1, BrowserHolds, PTL

(* A call acts, in a document that has not changed since it was verified,  *)
(* on the element its reference was granted for.                           *)
THEOREM ActsOnTarget == Spec => ActsOnCaptured
<1>1. BrowserInv /\ [Next]_vars => [\A c \in Calls : ActsAsCaptured(c)]_<<browserVars, toolVars>>
  <2> SUFFICES ASSUME BrowserInv, NEW c \in Calls
               PROVE  ActsAsCaptured(c)
    OBVIOUS
  <2>1. call[c].pc = "act" => Aimed(call[c])
    BY DEF BrowserInv, CallsOK, CallOK
  <2> QED
    BY <2>1 DEF ActsAsCaptured, Aimed
<1> QED
  BY <1>1, BrowserHolds, PTL DEF Spec, ActsOnCaptured

(* No reference of the time a page action began is left when it is over.   *)
THEOREM Expired == Spec => ActionsExpire
<1>1. BrowserInv /\ [Next]_vars => [\A c \in Calls : Expires(c)]_<<browserVars, toolVars>>
  <2> SUFFICES ASSUME BrowserInv, [Next]_vars, NEW d \in Calls
               PROVE  Expires(d) \/ UNCHANGED <<browserVars, toolVars>>
    OBVIOUS
  <2>1. ASSUME UNCHANGED call
        PROVE  Expires(d)
    BY <2>1 DEF Expires
  <2>2. CASE Environment
    BY <2>1, <2>2, EnvironmentMoves
  <2>3. CASE ToolCall
    <3>1. PICK c \in Calls : ToolCallNext(c)
      BY <2>3 DEF ToolCall
    <3>2. CallStep(c)
      BY <3>1, CallSteps
    <3>3. CASE d = c
      BY <3>2, <3>3 DEF CallStep
    <3>4. CASE d # c
      <4>1. call'[d] = call[d]
        BY <3>2, <3>4 DEF CallStep, BrowserInv, CallsOK
      <4> QED
        BY <4>1 DEF Expires
    <3> QED
      BY <3>3, <3>4
  <2>4. CASE LoginNext(Collecting)
    BY <2>1, <2>4, LoginSteps DEF LoginStep
  <2>5. CASE CollectionNext
    BY <2>1, <2>5, CollectionStays
  <2>6. CASE UNCHANGED vars
    BY <2>6 DEF vars
  <2> QED
    BY <2>2, <2>3, <2>4, <2>5, <2>6 DEF Next
<1> QED
  BY <1>1, BrowserHolds, PTL DEF Spec, ActionsExpire

(* What is on its way to Workspace Service is evidence of the page it is   *)
(* attributed to and names no job twice, though pages navigate and close   *)
(* while calls and rounds read them.                                       *)
THEOREM EvidenceIsOfItsPage == Spec => []EvidenceOfItsPage
<1>1. BrowserInv /\ RoundOK /\ ReadsOK => EvidenceOfItsPage
  <2> SUFFICES ASSUME BrowserInv, RoundOK, ReadsOK
               PROVE  EvidenceOfItsPage
    OBVIOUS
  <2>1. \A i \in DOMAIN round.items : IsEvidence(round.items[i])
    BY DEF RoundOK, Kept
  <2>2. ASSUME NEW c \in Calls, Now(c, "read", "saving")
        PROVE  IsEvidence(EvidenceOf(call[c].from, call[c].at, call[c].seen))
    <3>1. call[c].from = call[c].at
      BY <2>2 DEF ReadsOK
    <3>2. call[c].seen \in Seq(Nodes)
      BY DEF BrowserInv, CallsOK, CallOK
    <3> QED
      BY <3>1, <3>2, EvidenceKept
  <2> QED
    BY <2>1, <2>2 DEF EvidenceOfItsPage
<1> QED
  BY <1>1, EvidenceHolds, BrowserHolds, PTL

(* The page chosen for the user is at the login, and the selected one,     *)
(* when it is chosen, and a page the preparation opened is at the login    *)
(* when it is handed over, however long ago they were judged.  Where a     *)
(* page that was found is when it has come to the front is not asked       *)
(* again: until then only the user, the page itself or a call that was     *)
(* running already can take it from the login, and it is handed over open. *)
THEOREM LoginIsHandedOver == Spec => HandsOverLogin
<1>1. Init => OpenedOK
  BY DEF Init, OpenedOK, NoLogin
<1>2. BrowserInv /\ OpenedOK /\ [Next]_vars => Follows
  <2> SUFFICES ASSUME BrowserInv, OpenedOK, [Next]_vars
               PROVE  Follows
    OBVIOUS
  <2>1. UNCHANGED login => Follows
    BY DEF Follows, OpenedOK, Chosen
  <2>2. CASE Environment \/ CollectionNext
    BY <2>1, <2>2, EnvironmentMoves, CollectionStays
  <2>3. CASE ToolCall
    BY <2>1, <2>3 DEF ToolCall
  <2>4. CASE LoginNext(Collecting)
    BY <2>4, LoginFollows DEF BrowserInv, LoginOK
  <2>5. CASE UNCHANGED vars
    BY <2>1, <2>5 DEF vars
  <2> QED
    BY <2>2, <2>3, <2>4, <2>5 DEF Next
<1>3. BrowserInv /\ OpenedOK /\ [Next]_vars
         => OpenedOK' /\ [HandsOver]_<<browserVars, toolVars, login>>
  BY <1>2, ComingToFront DEF Follows, HandsOver
<1> QED
  BY <1>1, <1>3, BrowserHolds, PTL DEF Spec, HandsOverLogin

(* Calls, preparations and rounds together implement BrowserAuthority: the *)
(* user keeps the browser until a call that reports the return has ended.  *)
THEOREM SessionIsAuthorised == Spec => Authority!Spec
<1>1. Init => Authority!Init
  BY DEF Init, Authority!Init, Idle
<1>2. BrowserInv /\ [Next]_vars => [Authority!Next]_(Authority!vars)
  <2> SUFFICES ASSUME BrowserInv, [Next]_vars
               PROVE  [Authority!Next]_(Authority!vars)
    OBVIOUS
  <2>1. ASSUME UNCHANGED call,
               control = "user-handoff" => control' = "user-handoff"
        PROVE  [Authority!Next]_(Authority!vars)
    BY <2>1 DEF Authority!Next, Authority!Interrupt, Authority!vars
  <2>2. CASE Environment
    <3>1. control = "user-handoff" => control' = "user-handoff"
      BY <2>2 DEF Environment, PageAppears, PageCloses, PageLoads, ElementAppears, Interrupted,
         Happens, sessionVars, toolVars
    <3> QED
      BY <2>1, <2>2, <3>1, EnvironmentMoves
  <2>3. CASE ToolCall
    BY <2>3, CallsAreAuthorised DEF ToolCall
  <2>4. CASE LoginNext(Collecting)
    BY <2>1, <2>4, LoginSteps, LoginLeaves DEF LoginStep, Leaves
  <2>5. CASE CollectionNext
    <3>1. control' = control
      BY <2>5 DEF CollectionNext, RoundBegins, CapturesPage, CaptureFails, PassesOver, Keeps, Writes,
         WriteFails, roundRest, toolVars
    <3> QED
      BY <2>1, <2>5, <3>1, CollectionStays
  <2>6. CASE UNCHANGED vars
    BY <2>1, <2>6 DEF vars, toolVars
  <2> QED
    BY <2>2, <2>3, <2>4, <2>5, <2>6 DEF Next
<1> QED
  BY <1>1, <1>2, BrowserHolds, PTL DEF Spec, Authority!Spec

(* No two references share a number, whatever snapshots overlap: a number  *)
(* that was given denotes the element it was given for, or nothing.        *)
THEOREM ReferencesAreGivenOnce == Spec => [](\A r, s \in refs : r.ref = s.ref => r = s)
<1>1. Init => RefsOnce
  BY DEF Init, RefsOnce
<1>2. BrowserInv /\ RefsOnce /\ [Next]_vars => RefsOnce'
  <2> SUFFICES ASSUME BrowserInv, RefsOnce, [Next]_vars
               PROVE  RefsOnce'
    OBVIOUS
  <2>1. ASSUME nextRef' = nextRef, refs' = refs \/ refs' = {}
        PROVE  RefsOnce'
    BY <2>1 DEF RefsOnce
  <2>2. CASE Environment
    BY <2>1, <2>2, EnvironmentMoves
  <2>3. CASE ToolCall
    BY <2>1, <2>3, OthersLeave, GrantsOnce DEF ToolCall
  <2>4. CASE LoginNext(Collecting)
    BY <2>1, <2>4, LoginLeaves DEF Leaves
  <2>5. CASE CollectionNext
    BY <2>1, <2>5, CollectionStays
  <2>6. CASE UNCHANGED vars
    BY <2>1, <2>6 DEF vars, toolVars
  <2> QED
    BY <2>2, <2>3, <2>4, <2>5, <2>6 DEF Next
<1>3. RefsOnce => \A r, s \in refs : r.ref = s.ref => r = s
  BY DEF RefsOnce
<1> QED
  BY <1>1, <1>2, <1>3, BrowserHolds, PTL DEF Spec

(* A round ends: its own steps bring it nearer, and nothing else delays it *)
(* but the pages it waits for.                                             *)
THEOREM RoundsEnd ==
    Spec => /\ [](RoundLeft \in Nat)
            /\ [][round.pc # "none" => IF CollectionNext THEN RoundLeft' < RoundLeft
                                       ELSE UNCHANGED round]_vars
<1>1. RoundOK => RoundLeft \in Nat
  BY RoundLeftIsNatural
<1>2. RoundOK /\ (RoundLeft \in Nat)' /\ [Next]_vars
         => [round.pc # "none" => IF CollectionNext THEN RoundLeft' < RoundLeft
                                  ELSE UNCHANGED round]_vars
  <2> SUFFICES ASSUME RoundOK, RoundLeft' \in Nat, [Next]_vars, round.pc # "none", vars' # vars
               PROVE  IF CollectionNext THEN RoundLeft' < RoundLeft ELSE UNCHANGED round
    OBVIOUS
  <2>1. CollectionNext => RoundLeft' < RoundLeft
    BY CollectionAdvances
  <2>2. CASE Environment
    <3>1. UNCHANGED round
      BY <2>2 DEF Environment, PageAppears, PageCloses, PageLoads, ElementAppears, Interrupted,
         Happens, sessionVars
    <3> QED
      BY <2>1, <3>1
  <2> QED
    BY <2>1, <2>2 DEF Next, ToolCall
<1> QED
  BY <1>1, <1>2, EvidenceHolds, PTL DEF Spec

(* A preparation ends: every step of its own brings it to a later stage,   *)
(* to its next round, to its next page or past a reading, of which there   *)
(* are so many, and no step of the others sends it back.                   *)
THEOREM PreparationsEnd ==
    Spec => /\ []Bounded
            /\ [][login.pc # "none" => IF LoginNext(Collecting) THEN Nearer
                                       ELSE UNCHANGED login]_vars
<1>1. Init => Bounded
  <2> SUFFICES ASSUME Init PROVE Bounded
    OBVIOUS
  <2>1. 0 \in 0 .. MaxRounds
    BY LoginAssumption
  <2> QED
    BY <2>1 DEF Init, Bounded, NoLogin
<1>2. BrowserInv /\ Bounded /\ [Next]_vars
         => /\ Bounded'
            /\ [login.pc # "none" => IF LoginNext(Collecting) THEN Nearer
                                     ELSE UNCHANGED login]_vars
  <2> SUFFICES ASSUME BrowserInv, Bounded, [Next]_vars
               PROVE  /\ Bounded'
                      /\ \/ login.pc # "none" => IF LoginNext(Collecting) THEN Nearer
                                                ELSE UNCHANGED login
                         \/ UNCHANGED vars
    OBVIOUS
  <2>1. CASE LoginNext(Collecting)
    <3>1. login.pc # "none" => Ahead
      BY <2>1, LoginAhead DEF BrowserInv, LoginOK
    <3>2. login.pc = "none" => Bounded'
      BY <2>1, LoginBegins
    <3> QED
      BY <2>1, <3>1, <3>2 DEF Ahead
  <2>2. CASE ~LoginNext(Collecting)
    <3>1. UNCHANGED login
      <4>1. CASE Environment \/ CollectionNext
        BY <4>1, EnvironmentMoves, CollectionStays
      <4>2. CASE ToolCall \/ UNCHANGED vars
        BY <4>2 DEF ToolCall, vars
      <4> QED
        BY <2>2, <4>1, <4>2 DEF Next
    <3> QED
      BY <2>2, <3>1 DEF Bounded
  <2> QED
    BY <2>1, <2>2
<1> QED
  BY <1>1, <1>2, BrowserHolds, PTL DEF Spec
=============================================================================
