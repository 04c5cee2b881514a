-------------------------- MODULE EngagementProofs --------------------------
(***************************************************************************)
(* What is promised of engagement synchronisation, for any jobs, pages and *)
(* categories and any number of calls, edits, redirects and restarts, as   *)
(* long as calls are made one after another.                               *)
(***************************************************************************)
EXTENDS EngagementClaims, FiniteSetTheorems, TLAPS

(* Calls are made one after another. *)
InTurn == \A c, d \in Calls : c = d

-----------------------------------------------------------------------------
(* The inductive invariant                                                 *)

Active == {"opening", "selecting", "navigating", "capturing"}
WithTab == {"selecting", "navigating", "capturing"}
Captured == {"writing", "answering"}

IsCall(w) ==
    w = [kind |-> w.kind, scan |-> w.scan, tab |-> w.tab, fresh |-> w.fresh,
         ended |-> w.ended, snapshot |-> w.snapshot]

TypesOK ==
    /\ list \in [Kinds -> SUBSET Jobs]
    /\ relations \in [Kinds -> [Sources -> Rows \cup {Unrelated}]]
    /\ clock \in Nat /\ revision \in Nat
    /\ url = [p \in Pages |-> url[p]]
    /\ scans = [k \in Kinds |-> scans[k]]
    /\ pc = [c \in Calls |-> pc[c]]
    /\ call = [c \in Calls |-> call[c]]
    /\ target # NoTarget => target.revision \in Nat

(* What was shown all the time is shown, and that is known to be listed.   *)
ListOK(k) == steady[k] \subseteq Batch(list[k]) /\ Batch(list[k]) \subseteq listed[k]

(* A scan carries on what its batches have captured.                       *)
ScanOK(k) ==
    scans[k] # NoScan =>
        /\ scans[k].jobs \subseteq Sources
        /\ captured[k] \subseteq scans[k].jobs
        /\ UserWaits => scans[k].jobs \subseteq listed[k]

(* The tab of the call may be navigated.                                   *)
MayNavigate(c) ==
    \/ target = NoTarget
    \/ target.page # call[c].tab
    \/ target.state # "redirected"
    \/ revision > target.revision

CallOK(c) ==
    /\ IsCall(call[c])
    /\ pc[c] \in {"idle"} \cup Active \cup Captured
    /\ pc[c] \in Active =>
           /\ call[c].kind \in Kinds
           /\ call[c].scan.jobs \subseteq Sources
           /\ captured[call[c].kind] \subseteq call[c].scan.jobs
    /\ pc[c] \in WithTab => call[c].tab \in Pages
    /\ pc[c] = "selecting" => MayNavigate(c)
    /\ pc[c] = "writing" =>
           /\ call[c].kind \in Kinds /\ call[c].snapshot.kind \in Kinds
           /\ call[c].snapshot.jobs \subseteq Sources
           /\ call[c].snapshot.at \in Nat
           /\ call[c].ended => captured[call[c].kind] \subseteq call[c].snapshot.jobs

(* The tab shows the page of the scan, or none at all.                     *)
OnPage(c) == url[call[c].tab] = Requested(c) \/ url[call[c].tab] \notin Places

(* If the category stays as it is, a complete snapshot carries all of it.  *)
Whole(snapshot) ==
    steady[snapshot.kind] = listed[snapshot.kind] => listed[snapshot.kind] \subseteq snapshot.jobs

ScopeOK(c) ==
    /\ pc[c] \in Active => call[c].scan.jobs \subseteq listed[call[c].kind]
    /\ pc[c] = "capturing" => OnPage(c)
    /\ pc[c] = "writing" =>
           /\ call[c].snapshot.jobs \subseteq listed[call[c].snapshot.kind]
           /\ call[c].snapshot.complete => Whole(call[c].snapshot)

ListsOK == \A k \in Kinds : ListOK(k)
ScansOK == \A k \in Kinds : ScanOK(k)
CallsOK == \A c \in Calls : CallOK(c) /\ (UserWaits => ScopeOK(c))

HInv == TypesOK /\ ListsOK /\ ScansOK /\ CallsOK

-----------------------------------------------------------------------------
(* The history                                                             *)

(* A step in which no scan begins and nothing is captured.                 *)
HistoryKept ==
    \A k \in Kinds :
        /\ Batch(list'[k]) \subseteq listed'[k] /\ listed[k] \subseteq listed'[k]
        /\ steady'[k] \subseteq Batch(list'[k]) /\ steady'[k] \subseteq steady[k]
        /\ captured'[k] = captured[k]

LEMMA HistoryIsKept ==
    ASSUME HNext, \A c \in Calls : \A k \in Kinds : ~Begins(c, k), \A c \in Calls : ~Captures(c)
    PROVE  HistoryKept
<1>1. ASSUME NEW k \in Kinds
      PROVE  /\ listed'[k] = Batch(list'[k]) \cup listed[k]
             /\ steady'[k] = Batch(list'[k]) \cap steady[k]
             /\ captured'[k] = captured[k]
  <2>1. ~BeginsScan(k)
    BY DEF BeginsScan
  <2>2. {d \in Calls : Captures(d) /\ call[d].kind = k} = {}
    OBVIOUS
  <2>3. UNION {call'[c].snapshot.jobs : c \in {d \in Calls : Captures(d) /\ call[d].kind = k}} = {}
    BY <2>2
  <2>4. listed'[k] = Batch(list'[k]) \cup listed[k] /\ steady'[k] = Batch(list'[k]) \cap steady[k]
    BY <2>1 DEF HNext
  <2>5. captured'[k] = captured[k] \cup
            UNION {call'[c].snapshot.jobs : c \in {d \in Calls : Captures(d) /\ call[d].kind = k}}
    BY <2>1 DEF HNext
  <2> QED
    BY <2>3, <2>4, <2>5
<1> QED
  BY <1>1 DEF HistoryKept

LEMMA ListsStay ==
    ASSUME ListsOK, HistoryKept
    PROVE  ListsOK'
BY DEF ListsOK, ListOK, HistoryKept, Batch

LEMMA ScansStay ==
    ASSUME ScansOK, HistoryKept, UNCHANGED scans
    PROVE  ScansOK'
BY DEF ScansOK, ScanOK, HistoryKept

(* A complete snapshot is whole as long as it waits to be written.         *)
LEMMA WholeStays ==
    ASSUME ListsOK, HistoryKept, NEW w, w.kind \in Kinds, Whole(w)
    PROVE  Whole(w)'
BY DEF ListsOK, ListOK, HistoryKept, Whole

-----------------------------------------------------------------------------
(* The calls                                                               *)

LEMMA CallRests ==
    ASSUME NEW c \in Calls, pc'[c] = "idle", IsCall(call'[c])
    PROVE  CallOK(c)' /\ ScopeOK(c)'
BY DEF CallOK, ScopeOK, Active, WithTab, Captured, IsCall

(* A call that something else goes on around. *)
LEMMA CallStays ==
    ASSUME ListsOK, HistoryKept, NEW c \in Calls, CallOK(c), UserWaits => ScopeOK(c),
           pc'[c] = pc[c], call'[c] = call[c], UNCHANGED clock,
           pc[c] = "selecting" => MayNavigate(c)',
           UserWaits /\ pc[c] = "capturing" => OnPage(c)'
    PROVE  CallOK(c)' /\ (UserWaits => ScopeOK(c)')
<1>1. CallOK(c)'
  BY DEF CallOK, HistoryKept, IsCall, Active
<1>2. ASSUME UserWaits
      PROVE  ScopeOK(c)'
  <2>1. pc'[c] \in Active => call'[c].scan.jobs \subseteq listed'[call'[c].kind]
    BY <1>2 DEF CallOK, ScopeOK, HistoryKept
  <2>2. pc'[c] = "writing" =>
            /\ call'[c].snapshot.jobs \subseteq listed'[call'[c].snapshot.kind]
            /\ call'[c].snapshot.complete => Whole(call[c].snapshot)'
    <3> DEFINE w == call[c].snapshot
    <3>1. pc[c] = "writing" => w.kind \in Kinds /\ w.jobs \subseteq listed[w.kind]
                               /\ (w.complete => Whole(w))
      BY <1>2 DEF CallOK, ScopeOK
    <3> QED
      BY <3>1, WholeStays DEF HistoryKept, Whole
  <2> QED
    BY <1>2, <2>1, <2>2 DEF ScopeOK, Whole
<1> QED
  BY <1>1, <1>2

(* A call that goes on before it captures. *)
LEMMA CallGoesOn ==
    ASSUME HistoryKept, NEW c \in Calls, CallOK(c), UserWaits => ScopeOK(c),
           pc[c] \in Active, pc'[c] \in Active, IsCall(call'[c]),
           call'[c].kind = call[c].kind, call'[c].scan = call[c].scan,
           pc'[c] \in WithTab => call'[c].tab \in Pages,
           pc'[c] = "selecting" => MayNavigate(c)',
           pc'[c] = "capturing" => OnPage(c)'
    PROVE  CallOK(c)' /\ (UserWaits => ScopeOK(c)')
<1>1. pc'[c] # "writing"
  BY DEF Active
<1>2. CallOK(c)'
  BY <1>1 DEF CallOK, HistoryKept
<1>3. UserWaits => ScopeOK(c)'
  BY <1>1 DEF CallOK, ScopeOK, HistoryKept
<1> QED
  BY <1>2, <1>3

LEMMA TheOnlyCall ==
    ASSUME InTurn, NEW c \in Calls, CallOK(c)', UserWaits => ScopeOK(c)'
    PROVE  CallsOK'
BY DEF InTurn, CallsOK

(* Between two captures nothing changes what was listed but the category.  *)
LEMMA CallKeepsHistory ==
    ASSUME InTurn, HNext, NEW c \in Calls, pc[c] # "idle" \/ pc'[c] = "idle",
           pc[c] # "capturing" \/ pc'[c] # "writing"
    PROVE  HistoryKept
<1>1. \A d \in Calls : (\A k \in Kinds : ~Begins(d, k)) /\ ~Captures(d)
  BY DEF InTurn, Begins, Captures
<1> QED
  BY <1>1, HistoryIsKept

LEMMA OthersKeepHistory ==
    ASSUME HNext, \A c \in Calls : pc'[c] \in {pc[c], "idle"}
    PROVE  HistoryKept
<1>1. \A d \in Calls : (\A k \in Kinds : ~Begins(d, k)) /\ ~Captures(d)
  BY DEF Begins, Captures
<1> QED
  BY <1>1, HistoryIsKept

LEMMA TypesStay ==
    ASSUME TypesOK, UNCHANGED <<list, revision, scans, clock, relations>>,
           url' = [p \in Pages |-> url'[p]],
           pc' = [c \in Calls |-> pc'[c]], call' = [c \in Calls |-> call'[c]],
           target' # NoTarget => target'.revision \in Nat
    PROVE  TypesOK'
BY DEF TypesOK, Related

-----------------------------------------------------------------------------
(* A call begins                                                           *)

LEMMA BeginningSteps ==
    ASSUME InTurn, HInv, HNext, NEW c \in Calls, NEW k \in Kinds, NEW w,
           NEW step \in {"opening", "selecting"},
           pc[c] = "idle", pc' = [pc EXCEPT ![c] = step], call' = [call EXCEPT ![c] = w],
           IsCall(w), w.kind = k, w.scan = ScanOf(k),
           step = "selecting" => w.tab \in Pages /\ MayNavigate(c)',
           target' # NoTarget => target'.revision \in Nat,
           UNCHANGED <<list, url, revision, scans, clock, relations>>
    PROVE  HInv'
<1>1. TypesOK /\ ListsOK /\ ScansOK /\ CallsOK
  BY DEF HInv
<1>2. pc'[c] = step /\ call'[c] = w /\ \A d \in Calls : d = c
  BY <1>1 DEF TypesOK, InTurn
<1>3. \A l \in Kinds : BeginsScan(l) <=> scans[l] = NoScan /\ l = k
  BY <1>2 DEF BeginsScan, Begins
<1>4. \A d \in Calls : ~Captures(d)
  BY <1>2 DEF Captures
<1>5. ASSUME NEW l \in Kinds, scans[l] # NoScan \/ l # k
      PROVE  /\ listed'[l] = Batch(list[l]) \cup listed[l]
             /\ steady'[l] = Batch(list[l]) \cap steady[l]
             /\ captured'[l] = captured[l]
  <2>1. {d \in Calls : Captures(d) /\ call[d].kind = l} = {}
    BY <1>4
  <2>2. UNION {call'[d].snapshot.jobs : d \in {e \in Calls : Captures(e) /\ call[e].kind = l}} = {}
    BY <2>1
  <2>3. ~BeginsScan(l)
    BY <1>3, <1>5
  <2>4. /\ listed'[l] = Batch(list[l]) \cup listed[l]
        /\ steady'[l] = Batch(list[l]) \cap steady[l]
    BY <2>3 DEF HNext
  <2>5. captured'[l] = captured[l] \cup
            UNION {call'[d].snapshot.jobs : d \in {e \in Calls : Captures(e) /\ call[e].kind = l}}
    BY <2>3 DEF HNext
  <2> QED
    BY <2>2, <2>4, <2>5
<1>6. ASSUME scans[k] = NoScan
      PROVE  listed'[k] = Batch(list[k]) /\ steady'[k] = Batch(list[k]) /\ captured'[k] = {}
  <2>1. BeginsScan(k)
    BY <1>3, <1>6
  <2> QED
    BY <2>1 DEF HNext
<1>7. TypesOK'
  BY <1>1, TypesStay DEF TypesOK
<1>8. ListsOK'
  <2> SUFFICES ASSUME NEW l \in Kinds
               PROVE  ListOK(l)'
    BY DEF ListsOK
  <2>1. CASE scans[l] # NoScan \/ l # k
    BY <1>1, <1>5, <2>1 DEF ListsOK, ListOK, Batch
  <2>2. CASE scans[l] = NoScan /\ l = k
    BY <1>6, <2>2 DEF ListOK, Batch
  <2> QED
    BY <2>1, <2>2
<1>9. ScansOK'
  <2> SUFFICES ASSUME NEW l \in Kinds, scans[l] # NoScan
               PROVE  ScanOK(l)'
    BY DEF ScansOK, ScanOK
  <2> QED
    BY <1>1, <1>5 DEF ScansOK, ScanOK
<1>10. /\ w.scan.jobs \subseteq Sources /\ captured'[k] \subseteq w.scan.jobs
       /\ UserWaits => w.scan.jobs \subseteq listed'[k]
  <2>1. CASE scans[k] = NoScan
    BY <1>6, <2>1 DEF ScanOf, FirstPage
  <2>2. CASE scans[k] # NoScan
    BY <1>1, <1>5, <2>2 DEF ScanOf, ScansOK, ScanOK
  <2> QED
    BY <2>1, <2>2
<1>11. CallOK(c)'
  BY <1>2, <1>10 DEF CallOK, Active, WithTab, Captured
<1>12. UserWaits => ScopeOK(c)'
  BY <1>2, <1>10 DEF ScopeOK, Active
<1> QED
  BY <1>7, <1>8, <1>9, <1>11, <1>12, TheOnlyCall DEF HInv

LEMMA ReuseStep ==
    ASSUME InTurn, HInv, HNext, NEW c \in Calls, NEW k \in Kinds, Reuse(c, k)
    PROVE  HInv'
<1>1. PICK p \in Pages :
        /\ ResolvesTo(p)
        /\ call' = [call EXCEPT ![c].kind = k, ![c].scan = ScanOf(k), ![c].tab = p,
                                ![c].fresh = FALSE]
  BY DEF Reuse
<1>2. TypesOK /\ IsCall(call[c])
  BY DEF HInv, CallsOK, CallOK
<1> DEFINE scan == ScanOf(k)
<1>3. PICK w : w = [call[c] EXCEPT !.kind = k, !.scan = scan, !.tab = p, !.fresh = FALSE]
  OBVIOUS
<1>4. call' = [call EXCEPT ![c] = w]
  BY <1>1, <1>2, <1>3 DEF TypesOK
<1> HIDE DEF scan
<1>5. IsCall(w) /\ w.kind = k /\ w.scan = scan /\ w.tab = p
  BY <1>2, <1>3 DEF IsCall
<1>6. call'[c] = w
  BY <1>2, <1>4 DEF TypesOK
<1>7. (target' # NoTarget => target'.revision \in Nat) /\ MayNavigate(c)'
  <2>1. CASE target' = Observation(p) /\ IsEngagementPage(p)
    BY <1>2, <2>1 DEF Observation, IsEngagementPage, MayNavigate, TypesOK
  <2>2. CASE UNCHANGED target /\ target # NoTarget /\ (target.state = "navigating" \/ MayRecover)
    BY <1>2, <2>2 DEF Reuse, MayRecover, MayNavigate, TypesOK
  <2> QED
    BY <1>1, <2>1, <2>2 DEF ResolvesTo, Assigned
<1> QED
  BY <1>4, <1>5, <1>7, BeginningSteps DEF Reuse, Starts, scan

LEMMA OpenStep ==
    ASSUME InTurn, HInv, HNext, NEW c \in Calls, NEW k \in Kinds, Open(c, k)
    PROVE  HInv'
<1>1. call' = [call EXCEPT ![c].kind = k, ![c].scan = ScanOf(k), ![c].tab = NoPage,
                               ![c].fresh = TRUE]
  BY DEF Open
<1>2. TypesOK /\ IsCall(call[c])
  BY DEF HInv, CallsOK, CallOK
<1> DEFINE scan == ScanOf(k)
<1>3. PICK w : w = [call[c] EXCEPT !.kind = k, !.scan = scan, !.tab = NoPage, !.fresh = TRUE]
  OBVIOUS
<1>4. call' = [call EXCEPT ![c] = w]
  BY <1>1, <1>2, <1>3 DEF TypesOK
<1> HIDE DEF scan
<1>5. IsCall(w) /\ w.kind = k /\ w.scan = scan
  BY <1>2, <1>3 DEF IsCall
<1>6. target' = NoTarget
  BY DEF Open, ResolvesToNone
<1> QED
  BY <1>4, <1>5, <1>6, BeginningSteps DEF Open, Starts, scan

-----------------------------------------------------------------------------
(* A call goes on                                                          *)

LEMMA OpenedStep ==
    ASSUME InTurn, HInv, HNext, NEW c \in Calls, Opened(c)
    PROVE  HInv'
<1>1. TypesOK /\ ListsOK /\ ScansOK /\ CallOK(c) /\ (UserWaits => ScopeOK(c)) /\ IsCall(call[c])
  BY DEF HInv, CallsOK, CallOK
<1>2. PICK p \in Pages : /\ url' = [url EXCEPT ![p] = Elsewhere]
                         /\ target' = Claim(p)
                         /\ call' = [call EXCEPT ![c].tab = p]
  BY DEF Opened
<1>3. pc[c] = "opening" /\ pc' = [pc EXCEPT ![c] = "selecting"] /\ pc'[c] = "selecting"
  BY <1>1 DEF Opened, TypesOK
<1>4. call'[c] = [call[c] EXCEPT !.tab = p]
  BY <1>1, <1>2 DEF TypesOK
<1>5. /\ IsCall(call'[c]) /\ call'[c].kind = call[c].kind /\ call'[c].scan = call[c].scan
     /\ call'[c].tab = p
  BY <1>1, <1>4 DEF IsCall
<1>6. HistoryKept
  BY <1>3, CallKeepsHistory
<1>7. target'.revision \in Nat /\ MayNavigate(c)'
  BY <1>1, <1>2 DEF Claim, MayNavigate, TypesOK
<1>8. TypesOK'
  BY <1>1, <1>2, <1>3, <1>7, TypesStay DEF Opened, TypesOK
<1>9. CallOK(c)' /\ (UserWaits => ScopeOK(c)')
  BY <1>1, <1>3, <1>5, <1>6, <1>7, CallGoesOn DEF Active
<1> QED
  BY <1>1, <1>6, <1>8, <1>9, ListsStay, ScansStay, TheOnlyCall DEF HInv, Opened

LEMMA SelectedStep ==
    ASSUME InTurn, HInv, HNext, NEW c \in Calls, Selected(c)
    PROVE  HInv'
<1>1. TypesOK /\ ListsOK /\ ScansOK /\ CallOK(c) /\ (UserWaits => ScopeOK(c)) /\ IsCall(call[c])
  BY DEF HInv, CallsOK, CallOK
<1>2. pc[c] = "selecting" /\ call[c].tab \in Pages
  BY <1>1 DEF Selected, CallOK, WithTab
<1>3. \A d \in Calls : ~Overtaken(c, d)
  BY DEF Overtaken, InTurn
<1>4. call' = call
  <2>1. CASE Matches(c)
    BY <2>1 DEF Selected
  <2>2. CASE ~Matches(c)
    <3>1. call' = [d \in Calls |-> IF Overtaken(c, d) THEN NoCall ELSE call[d]]
      BY <2>2 DEF Selected
    <3>2. call' = [d \in Calls |-> call[d]]
      BY <1>3, <3>1
    <3> QED
      BY <1>1, <3>2 DEF TypesOK
  <2> QED
    BY <2>1, <2>2
<1>5. /\ pc' = [d \in Calls |-> pc'[d]]
      /\ pc'[c] = IF Matches(c) THEN "capturing" ELSE "navigating"
  BY <1>1 DEF Selected, TypesOK
<1>6. HistoryKept
  BY <1>2, CallKeepsHistory
<1>7. target' # NoTarget => target'.revision \in Nat
  BY <1>1 DEF Selected, TypesOK, Claim
<1>8. pc'[c] = "capturing" => OnPage(c)'
  BY <1>4, <1>5 DEF OnPage, Matches, Requested, Selected
<1>9. TypesOK'
  BY <1>1, <1>4, <1>5, <1>7, TypesStay DEF Selected, TypesOK
<1>10. CallOK(c)' /\ (UserWaits => ScopeOK(c)')
  BY <1>1, <1>2, <1>4, <1>5, <1>6, <1>8, CallGoesOn DEF Active
<1> QED
  BY <1>1, <1>6, <1>9, <1>10, ListsStay, ScansStay, TheOnlyCall DEF HInv, Selected

LEMMA ReturnsOK ==
    ASSUME TypesOK, NEW c \in Calls, Returns(c)
    PROVE  /\ pc' = [d \in Calls |-> pc'[d]] /\ call' = [d \in Calls |-> call'[d]]
           /\ pc'[c] = "idle" /\ CallOK(c)' /\ ScopeOK(c)'
<1>1. /\ pc' = [d \in Calls |-> pc'[d]] /\ call' = [d \in Calls |-> call'[d]]
      /\ pc'[c] = "idle" /\ call'[c] = NoCall
  BY DEF Returns, TypesOK
<1>2. IsCall(call'[c])
  BY <1>1 DEF IsCall, NoCall
<1> QED
  BY <1>1, <1>2, CallRests

LEMMA NavigatedStep ==
    ASSUME InTurn, HInv, HNext, NEW c \in Calls, Navigated(c)
    PROVE  HInv'
<1>1. TypesOK /\ ListsOK /\ ScansOK /\ CallOK(c) /\ (UserWaits => ScopeOK(c)) /\ IsCall(call[c])
  BY DEF HInv, CallsOK, CallOK
<1>2. pc[c] = "navigating" /\ call[c].tab \in Pages
  BY <1>1 DEF Navigated, CallOK, WithTab
<1>3. PICK place :
        /\ url' = [url EXCEPT ![call[c].tab] = place]
        /\ target' = [page |-> call[c].tab, revision |-> revision,
                      state |-> IF place \in Places THEN "ready" ELSE "redirected"]
        /\ IF place = Requested(c)
           THEN pc' = [pc EXCEPT ![c] = "capturing"] /\ UNCHANGED call
           ELSE Returns(c)
  BY DEF Navigated
<1>4. HistoryKept
  BY <1>1, <1>2, <1>3, CallKeepsHistory, ReturnsOK
<1>5. /\ pc' = [d \in Calls |-> pc'[d]] /\ call' = [d \in Calls |-> call'[d]]
      /\ CallOK(c)' /\ (UserWaits => ScopeOK(c)')
  <2>1. CASE place = Requested(c)
    <3>1. pc' = [pc EXCEPT ![c] = "capturing"] /\ call' = call /\ pc'[c] = "capturing"
      BY <1>1, <1>3, <2>1 DEF TypesOK
    <3>2. url'[call[c].tab] = place
      BY <1>1, <1>2, <1>3 DEF TypesOK
    <3>3. OnPage(c)'
      BY <2>1, <3>1, <3>2 DEF OnPage, Requested
    <3>4. CallOK(c)' /\ (UserWaits => ScopeOK(c)')
      BY <1>1, <1>2, <1>4, <3>1, <3>3, CallGoesOn DEF Active
    <3> QED
      BY <1>1, <3>1, <3>4 DEF TypesOK
  <2>2. CASE place # Requested(c)
    BY <1>1, <1>3, <2>2, ReturnsOK
  <2> QED
    BY <2>1, <2>2
<1>6. TypesOK'
  BY <1>1, <1>3, <1>5, TypesStay DEF Navigated, TypesOK
<1> QED
  BY <1>1, <1>4, <1>5, <1>6, ListsStay, ScansStay, TheOnlyCall DEF HInv, Navigated

LEMMA ReturningSteps ==
    ASSUME InTurn, HInv, HNext, NEW c \in Calls, Fails(c) \/ EndWrite(c)
    PROVE  HInv'
<1>1. TypesOK /\ ListsOK /\ ScansOK
  BY DEF HInv
<1>2. Returns(c) /\ UNCHANGED <<list, url, target, revision, scans, clock, relations>>
  BY DEF Fails, EndWrite, tabs
<1>3. /\ pc' = [d \in Calls |-> pc'[d]] /\ call' = [d \in Calls |-> call'[d]]
      /\ pc'[c] = "idle" /\ CallOK(c)' /\ ScopeOK(c)'
  BY <1>1, <1>2, ReturnsOK
<1>4. HistoryKept
  BY <1>3, CallKeepsHistory
<1>5. TypesOK'
  BY <1>1, <1>2, <1>3, TypesStay DEF TypesOK
<1> QED
  BY <1>1, <1>2, <1>3, <1>4, <1>5, ListsStay, ScansStay, TheOnlyCall DEF HInv

-----------------------------------------------------------------------------
(* A call captures                                                         *)

(* As many different cards as there are jobs: none is missing.             *)
LEMMA BatchFills ==
    ASSUME NEW jobs \in SUBSET Jobs, NEW merged \in SUBSET Batch(jobs),
           Cardinality(merged) = Cardinality(jobs)
    PROVE  merged = Batch(jobs)
<1> DEFINE look == [j \in jobs |-> Looks[j]]
<1>1. IsFiniteSet(jobs)
  BY ScanAssumption, FS_Subset
<1>2. look \in Surjection(jobs, Batch(jobs))
  BY DEF Surjection, Batch
<1>3. IsFiniteSet(Batch(jobs)) /\ Cardinality(Batch(jobs)) <= Cardinality(jobs)
  BY <1>1, <1>2, FS_Surjection
<1>4. Cardinality(merged) <= Cardinality(Batch(jobs))
  BY <1>3, FS_Subset
<1>5. Cardinality(jobs) \in Nat /\ Cardinality(Batch(jobs)) \in Nat
  BY <1>1, <1>3, FS_CardinalityType
<1>6. Cardinality(Batch(jobs)) = Cardinality(merged)
  BY <1>3, <1>4, <1>5
<1> QED
  BY <1>3, <1>6, FS_Subset

(* A complete scan within the bound keeps all of it. *)
LEMMA KeepsAll ==
    ASSUME NEW earlier, NEW merged, IsFiniteSet(merged), Cardinality(merged) <= MaxJobs,
           NEW kept \in Bounded(earlier, merged)
    PROVE  kept = merged
<1>1. kept \in SUBSET merged /\ Cardinality(merged) \in Nat
  BY FS_CardinalityType DEF Bounded
<1>2. Cardinality(kept) = IF Cardinality(merged) < MaxJobs THEN Cardinality(merged) ELSE MaxJobs
  BY DEF Bounded
<1>3. Cardinality(kept) = Cardinality(merged)
  BY <1>1, <1>2, ScanAssumption
<1> QED
  BY <1>1, <1>3, FS_Subset

LEMMA CaptureStep ==
    ASSUME InTurn, HInv, HNext, NEW c \in Calls, Capture(c)
    PROVE  HInv'
<1>1. TypesOK /\ ListsOK /\ ScansOK /\ CallOK(c) /\ (UserWaits => ScopeOK(c)) /\ IsCall(call[c])
  BY DEF HInv, CallsOK, CallOK
<1>2. \A d \in Calls : d = c
  BY DEF InTurn
<1> DEFINE place == url[call[c].tab]
           k == call[c].kind
           earlier == call[c].scan.jobs
<1>3. /\ pc[c] = "capturing" /\ place \in Places /\ place.kind \in Kinds /\ k \in Kinds
      /\ earlier \subseteq Sources /\ captured[k] \subseteq earlier
  BY <1>1 DEF Capture, IsEngagementPage, Places, CallOK, Active
<1>4. UserWaits => place.kind = k /\ earlier \subseteq listed[k]
  BY <1>1, <1>3 DEF ScopeOK, OnPage, Requested, Active
<1>5. PICK cards \in SUBSET list[url[call[c].tab].kind], counted \in BOOLEAN :
          LET shown == url[call[c].tab]
              before == call[c].scan.jobs
              after == before \cup Batch(cards)
              complete == IsComplete(after, shown.kind, counted)
              ended == ScanEnds(after, Batch(cards), complete)
          IN
          /\ Cardinality(cards) <= MaxJobs
          /\ Readable(shown, cards, counted)
          /\ scans' = [scans EXCEPT ![call[c].kind] =
                IF ended THEN NoScan ELSE [jobs |-> after, page |-> call[c].scan.page + 1]]
          /\ \E kept \in Bounded(before, after) :
                call' = [call EXCEPT ![c].ended = ended, ![c].snapshot =
                    [kind |-> shown.kind,
                     jobs |-> IF ended THEN kept ELSE Batch(cards),
                     at |-> clock + 1,
                     complete |-> IF ended THEN complete
                                  ELSE counted /\ cards = list[shown.kind]]]
  BY DEF Capture
<1> DEFINE batch == Batch(cards)
           merged == earlier \cup batch
           complete == IsComplete(merged, place.kind, counted)
           ended == ScanEnds(merged, batch, complete)
           whole == IF ended THEN complete ELSE counted /\ cards = list[place.kind]
<1>6. PICK kept \in Bounded(earlier, merged) :
        call' = [call EXCEPT ![c].ended = ended, ![c].snapshot =
                    [kind |-> place.kind, jobs |-> IF ended THEN kept ELSE batch,
                     at |-> clock + 1, complete |-> whole]]
  BY <1>5
<1> DEFINE jobs == IF ended THEN kept ELSE batch
           taken == [kind |-> place.kind, jobs |-> jobs, at |-> clock + 1, complete |-> whole]
<1>7. scans' = [scans EXCEPT ![k] =
          IF ended THEN NoScan ELSE [jobs |-> merged, page |-> call[c].scan.page + 1]]
  BY <1>5
<1>8. /\ UNCHANGED <<list, url, target, revision, relations>>
      /\ clock' = clock + 1 /\ pc' = [pc EXCEPT ![c] = "writing"]
  BY DEF Capture, tabs
<1>9. /\ batch \subseteq Batch(list[place.kind]) /\ batch \subseteq Sources
      /\ earlier \subseteq kept /\ kept \subseteq merged
  <2>1. earlier \subseteq kept /\ kept \subseteq merged
    BY DEF Bounded
  <2>2. batch \subseteq Batch(list[place.kind])
    BY <1>5 DEF Batch
  <2>3. batch \subseteq Sources
    <3>1. cards \subseteq Jobs
      BY <1>1, <1>3 DEF TypesOK
    <3>2. Looks \in [Jobs -> Sources]
      BY ScanAssumption
    <3> QED
      BY <3>1, <3>2 DEF Batch
  <2> QED
    BY <2>1, <2>2, <2>3
<1>10. PICK w : w = taken
  OBVIOUS
<1>11. call'[c] = [call[c] EXCEPT !.ended = ended, !.snapshot = w]
  BY <1>1, <1>6, <1>10 DEF TypesOK
<1> HIDE DEF batch, complete, ended, whole, taken, jobs
<1>12. IsCall(call'[c]) /\ call'[c].kind = k /\ call'[c].snapshot = w /\ call'[c].ended = ended
  BY <1>1, <1>11 DEF IsCall
<1>13. w.kind = place.kind /\ w.jobs = jobs /\ w.at = clock' /\ w.complete = whole
  BY <1>8, <1>10 DEF taken
<1>14. pc'[c] = "writing" /\ jobs \subseteq merged /\ jobs = IF ended THEN kept ELSE batch
  BY <1>1, <1>8, <1>9 DEF TypesOK, jobs
<1>15. ASSUME NEW l \in Kinds
       PROVE  /\ listed'[l] = Batch(list[l]) \cup listed[l]
              /\ steady'[l] = Batch(list[l]) \cap steady[l]
              /\ captured'[l] = captured[l] \cup IF l = k THEN jobs ELSE {}
  <2>1. ~BeginsScan(l)
    BY <1>2, <1>3 DEF BeginsScan, Begins
  <2>2. {d \in Calls : Captures(d) /\ call[d].kind = l} = IF l = k THEN {c} ELSE {}
    BY <1>2, <1>3, <1>14 DEF Captures
  <2>3. UNION {call'[d].snapshot.jobs : d \in {e \in Calls : Captures(e) /\ call[e].kind = l}}
            = IF l = k THEN jobs ELSE {}
    BY <2>2, <1>12, <1>13
  <2>4. /\ listed'[l] = Batch(list'[l]) \cup listed[l]
        /\ steady'[l] = Batch(list'[l]) \cap steady[l]
    BY <2>1 DEF HNext
  <2>5. captured'[l] = captured[l] \cup
            UNION {call'[d].snapshot.jobs : d \in {e \in Calls : Captures(e) /\ call[e].kind = l}}
    BY <2>1 DEF HNext
  <2> QED
    BY <1>8, <2>3, <2>4, <2>5
<1>16. TypesOK'
  <2>1. call' = [d \in Calls |-> call'[d]]
    BY <1>1, <1>6 DEF TypesOK
  <2>2. pc' = [d \in Calls |-> pc'[d]] /\ scans' = [l \in Kinds |-> scans'[l]]
    BY <1>1, <1>7, <1>8 DEF TypesOK
  <2> QED
    BY <1>1, <1>8, <2>1, <2>2 DEF TypesOK
<1>17. ListsOK'
  BY <1>1, <1>8, <1>15 DEF ListsOK, ListOK, Batch
<1>18. ScansOK'
  <2> SUFFICES ASSUME NEW l \in Kinds, scans'[l] # NoScan
               PROVE  ScanOK(l)'
    BY DEF ScansOK, ScanOK
  <2>1. CASE l = k
    <3>1. ~ended /\ scans'[k].jobs = merged
      BY <1>1, <1>3, <1>7, <2>1 DEF TypesOK
    <3>2. merged \subseteq Sources /\ captured'[k] \subseteq merged
      BY <1>3, <1>9, <1>14, <1>15
    <3>3. UserWaits => merged \subseteq listed'[k]
      BY <1>3, <1>4, <1>9, <1>15
    <3> QED
      BY <2>1, <3>1, <3>2, <3>3 DEF ScanOK
  <2>2. CASE l # k
    <3>1. scans'[l] = scans[l]
      BY <1>1, <1>7, <2>2 DEF TypesOK
    <3> QED
      BY <1>1, <1>15, <2>2, <3>1 DEF ScansOK, ScanOK
  <2> QED
    BY <2>1, <2>2
<1>19. CallOK(c)'
  <2>1. jobs \subseteq Sources
    BY <1>3, <1>9, <1>14
  <2>2. ended => captured'[k] \subseteq jobs
    BY <1>3, <1>9, <1>14, <1>15
  <2> QED
    BY <1>3, <1>12, <1>13, <1>14, <1>16, <2>1, <2>2 DEF CallOK, TypesOK, Active, WithTab, Captured
<1>20. UserWaits => ScopeOK(c)'
  <2> SUFFICES ASSUME UserWaits
               PROVE  ScopeOK(c)'
    OBVIOUS
  <2>1. merged \subseteq listed'[k] /\ place.kind = k
    BY <1>3, <1>4, <1>9, <1>15
  <2>2. ASSUME whole, steady'[k] = listed'[k]
        PROVE  listed'[k] \subseteq jobs
    <3>1. listed'[k] = Batch(list[k]) /\ merged \subseteq Batch(list[k])
      <4>1. listed'[k] = Batch(list[k]) \cup listed[k] /\ steady'[k] = Batch(list[k]) \cap steady[k]
        BY <1>3, <1>15
      <4>2. listed'[k] \subseteq Batch(list[k])
        BY <2>2, <4>1
      <4> QED
        BY <2>1, <4>1, <4>2
    <3>2. CASE jobs = batch /\ cards = list[k]
      BY <3>1, <3>2 DEF batch
    <3>3. CASE jobs = kept /\ IsComplete(merged, k, counted)
      <4>1. Cardinality(merged) = Cardinality(list[k]) /\ Cardinality(merged) <= MaxJobs
        BY <3>3 DEF IsComplete
      <4>2. list[k] \in SUBSET Jobs
        BY <1>1, <1>3 DEF TypesOK
      <4>3. merged = Batch(list[k])
        BY <3>1, <4>1, <4>2, BatchFills
      <4>4. IsFiniteSet(merged)
        <5>1. IsFiniteSet(list[k])
          BY <4>2, ScanAssumption, FS_Subset
        <5>2. [j \in list[k] |-> Looks[j]] \in Surjection(list[k], Batch(list[k]))
          BY DEF Surjection, Batch
        <5>3. IsFiniteSet(Batch(list[k]))
          BY <5>1, <5>2, FS_Surjection
        <5> QED
          BY <4>3, <5>3
      <4>5. kept = merged
        BY <1>6, <4>1, <4>4, KeepsAll
      <4> QED
        BY <3>1, <3>3, <4>3, <4>5
    <3>4. CASE ended
      BY <2>1, <2>2, <3>3, <3>4 DEF whole, jobs, complete
    <3>5. CASE ~ended
      BY <2>1, <2>2, <3>2, <3>5 DEF whole, jobs
    <3> QED
      BY <3>4, <3>5
  <2>3. w.complete => Whole(w)'
    <3>1. whole => (steady'[k] = listed'[k] => listed'[k] \subseteq jobs)
      BY <2>2
    <3>2. w.kind = k
      BY <1>13, <2>1
    <3> QED
      BY <1>13, <3>1, <3>2 DEF Whole
  <2>4. w.jobs \subseteq listed'[w.kind]
    BY <1>13, <1>14, <2>1
  <2> QED
    BY <1>12, <1>14, <2>3, <2>4 DEF ScopeOK, Active, Whole
<1> QED
  BY <1>16, <1>17, <1>18, <1>19, <1>20, TheOnlyCall DEF HInv

-----------------------------------------------------------------------------
(* A call writes                                                           *)

(* What is in a snapshot is related afterwards; a complete one of the      *)
(* reversible category leaves nothing else.                                *)
LEMMA SynchronizeRelates ==
    ASSUME TypesOK, NEW w, w.kind \in Kinds, w.jobs \subseteq Sources, w.at \in Nat, Synchronize(w)
    PROVE  /\ relations' \in [Kinds -> [Sources -> Rows \cup {Unrelated}]]
           /\ \A s \in w.jobs : relations'[w.kind][s] # Unrelated
           /\ RemovesMissing(w) =>
                 \A s \in Sources : s \notin w.jobs => relations'[w.kind][s] = Unrelated
<1>1. relations \in [Kinds -> [Sources -> Rows \cup {Unrelated}]]
  BY DEF TypesOK
<1> DEFINE row(s) == IF s \in w.jobs THEN Upserted(w.kind, s, w.at)
                     ELSE IF RemovesMissing(w) THEN Unrelated ELSE relations[w.kind][s]
<1>2. ASSUME NEW s \in Sources
      PROVE  Upserted(w.kind, s, w.at) \in Rows
  <2>1. relations[w.kind][s] \in Rows \cup {Unrelated}
    BY <1>1
  <2>2. relations[w.kind][s] # Unrelated => relations[w.kind][s].first \in Nat
    BY <2>1 DEF Rows
  <2> QED
    BY <1>1, <2>2 DEF Upserted, Rows
<1>3. \A s \in Sources : row(s) \in Rows \cup {Unrelated}
  BY <1>1, <1>2
<1>4. relations' = [relations EXCEPT ![w.kind] = [s \in Sources |-> row(s)]]
  BY <1>1 DEF Synchronize
<1>5. /\ \A s \in Sources : relations'[w.kind][s] = row(s)
      /\ \A k \in Kinds : k # w.kind => relations'[k] = relations[k]
  BY <1>1, <1>4
<1>6. [s \in Sources |-> row(s)] \in [Sources -> Rows \cup {Unrelated}]
  BY <1>3
<1>7. relations' \in [Kinds -> [Sources -> Rows \cup {Unrelated}]]
  <2> HIDE DEF row
  <2> QED
    BY <1>1, <1>4, <1>6
<1>8. ASSUME NEW s \in w.jobs
       PROVE  relations'[w.kind][s] # Unrelated
  BY <1>2, <1>5, RelationsAssumption
<1>9. ASSUME RemovesMissing(w), NEW s \in Sources, s \notin w.jobs
       PROVE  relations'[w.kind][s] = Unrelated
  BY <1>5, <1>9
<1> QED
  BY <1>7, <1>8, <1>9

LEMMA WriteStep ==
    ASSUME InTurn, HInv, HNext, NEW c \in Calls, Write(c)
    PROVE  HInv'
<1>1. TypesOK /\ ListsOK /\ ScansOK /\ CallOK(c) /\ IsCall(call[c])
  BY DEF HInv, CallsOK, CallOK
<1>2. /\ pc[c] = "writing" /\ pc' = [pc EXCEPT ![c] = "answering"] /\ call' = call
      /\ UNCHANGED <<list, url, target, revision, scans, clock>>
  BY DEF Write, tabs
<1>3. pc'[c] = "answering"
  BY <1>1, <1>2 DEF TypesOK
<1>4. HistoryKept
  BY <1>2, CallKeepsHistory
<1>5. TypesOK'
  <2> DEFINE w == call[c].snapshot
  <2>1. w.kind \in Kinds /\ w.jobs \subseteq Sources /\ w.at \in Nat /\ Synchronize(w)
    BY <1>1, <1>2 DEF CallOK, Write
  <2> HIDE DEF w
  <2>2. relations' \in [Kinds -> [Sources -> Rows \cup {Unrelated}]]
    BY <1>1, <2>1, SynchronizeRelates
  <2> QED
    BY <1>1, <1>2, <2>2 DEF TypesOK
<1>6. CallOK(c)' /\ ScopeOK(c)'
  BY <1>1, <1>2, <1>3 DEF CallOK, ScopeOK, Active, WithTab, Captured, IsCall
<1> QED
  BY <1>1, <1>2, <1>4, <1>5, <1>6, ListsStay, ScansStay, TheOnlyCall DEF HInv

-----------------------------------------------------------------------------
(* The user, the platform and the process                                  *)

(* A step that leaves the calls where they are. *)
LEMMA AroundCalls ==
    ASSUME HInv, HNext, UNCHANGED <<pc, call, scans, clock>>, TypesOK',
           \A c \in Calls : CallOK(c) =>
               /\ pc[c] = "selecting" /\ MayNavigate(c) => MayNavigate(c)'
               /\ UserWaits /\ pc[c] = "capturing" /\ OnPage(c) => OnPage(c)'
    PROVE  HInv'
<1>1. TypesOK /\ ListsOK /\ ScansOK /\ CallsOK
  BY DEF HInv
<1>2. HistoryKept
  BY OthersKeepHistory
<1>3. ASSUME NEW c \in Calls
      PROVE  CallOK(c)' /\ (UserWaits => ScopeOK(c)')
  <2>1. CallOK(c) /\ (UserWaits => ScopeOK(c))
    BY <1>1 DEF CallsOK
  <2>2. pc[c] = "selecting" => MayNavigate(c)'
    BY <2>1 DEF CallOK
  <2>3. UserWaits /\ pc[c] = "capturing" => OnPage(c)'
    BY <2>1 DEF ScopeOK
  <2> QED
    BY <1>1, <1>2, <2>1, <2>2, <2>3, CallStays
<1> QED
  BY <1>1, <1>2, <1>3, ListsStay, ScansStay DEF HInv, CallsOK

LEMMA EnvironmentSteps ==
    ASSUME HInv, HNext,
           \/ \E k \in Kinds, jobs \in SUBSET Jobs : EditCategory(k, jobs)
           \/ \E p \in Pages, place \in {Elsewhere, Closed} \cup Places : UserMoves(p, place)
           \/ \E p \in Pages : PlatformRedirects(p)
           \/ UserReturnsControl
           \/ UNCHANGED vars
    PROVE  HInv'
<1>1. TypesOK
  BY DEF HInv
<1>2. ASSUME NEW k \in Kinds, NEW jobs \in SUBSET Jobs, EditCategory(k, jobs)
      PROVE  HInv'
  <2>1. /\ list' = [list EXCEPT ![k] = jobs]
        /\ UNCHANGED <<url, target, revision, scans, pc, call, clock, relations>>
    BY <1>2 DEF EditCategory, tabs
  <2>2. TypesOK'
    BY <1>1, <2>1 DEF TypesOK, Related
  <2> QED
    BY <2>1, <2>2, AroundCalls DEF MayNavigate, OnPage, Requested
<1>3. ASSUME NEW p \in Pages, NEW place, UserMoves(p, place)
      PROVE  HInv'
  <2>1. /\ url' = [url EXCEPT ![p] = place] /\ (UserWaits => \A c \in Calls : ~Uses(c, p))
        /\ UNCHANGED <<list, target, revision, scans, pc, call, clock, relations>>
    BY <1>3 DEF UserMoves
  <2>2. TypesOK'
    BY <1>1, <2>1, TypesStay DEF TypesOK
  <2>3. ASSUME NEW c \in Calls, CallOK(c), UserWaits, pc[c] = "capturing", OnPage(c)
        PROVE  OnPage(c)'
    <3>1. call[c].tab # p /\ call[c].tab \in Pages
      BY <2>1, <2>3 DEF Uses, CallOK, WithTab
    <3>2. url'[call[c].tab] = url[call[c].tab]
      BY <1>1, <2>1, <3>1 DEF TypesOK
    <3> QED
      BY <2>1, <2>3, <3>2 DEF OnPage, Requested
  <2> QED
    BY <2>1, <2>2, <2>3, AroundCalls DEF MayNavigate
<1>4. ASSUME NEW p \in Pages, PlatformRedirects(p)
      PROVE  HInv'
  <2>1. /\ url' = [url EXCEPT ![p] = Elsewhere]
        /\ UNCHANGED <<list, target, revision, scans, pc, call, clock, relations>>
    BY <1>4 DEF PlatformRedirects
  <2>2. TypesOK'
    BY <1>1, <2>1, TypesStay DEF TypesOK
  <2>3. ASSUME NEW c \in Calls, CallOK(c), pc[c] = "capturing", OnPage(c)
        PROVE  OnPage(c)'
    <3>1. call[c].tab \in Pages
      BY <2>3 DEF CallOK, WithTab
    <3>2. url'[call[c].tab] = IF call[c].tab = p THEN Elsewhere ELSE url[call[c].tab]
      BY <1>1, <2>1, <3>1 DEF TypesOK
    <3>3. Elsewhere \notin Places
      BY PlacesAssumption
    <3> QED
      BY <2>1, <2>3, <3>2, <3>3 DEF OnPage, Requested, Places
  <2> QED
    BY <2>1, <2>2, <2>3, AroundCalls DEF MayNavigate
<1>5. CASE UserReturnsControl
  <2>1. /\ revision' = revision + 1
        /\ UNCHANGED <<list, url, target, scans, pc, call, clock, relations>>
    BY <1>5 DEF UserReturnsControl, tabs
  <2>2. TypesOK'
    BY <1>1, <2>1 DEF TypesOK, Related
  <2>3. ASSUME NEW c \in Calls, MayNavigate(c)
        PROVE  MayNavigate(c)'
    BY <1>1, <2>1, <2>3 DEF MayNavigate, TypesOK
  <2> QED
    BY <2>1, <2>2, <2>3, AroundCalls DEF OnPage, Requested
<1>6. CASE UNCHANGED vars
  <2>1. UNCHANGED <<list, url, target, revision, scans, pc, call, clock, relations>>
    BY <1>6 DEF vars
  <2>2. TypesOK'
    BY <1>1, <2>1, TypesStay DEF TypesOK
  <2> QED
    BY <2>1, <2>2, AroundCalls DEF MayNavigate, OnPage, Requested
<1> QED
  BY <1>2, <1>3, <1>4, <1>5, <1>6

LEMMA ReplaceBrowserStep ==
    ASSUME HInv, HNext, ReplaceBrowser
    PROVE  HInv'
<1>1. TypesOK /\ ListsOK /\ ScansOK /\ CallsOK
  BY DEF HInv
<1>2. /\ target' = NoTarget /\ revision' = 0 /\ scans' = [k \in Kinds |-> NoScan]
      /\ url' = [p \in Pages |-> IF IsOpen(p) THEN Closed ELSE url[p]]
      /\ pc' = [c \in Calls |-> IF HasCaptured(c) THEN pc[c] ELSE "idle"]
      /\ call' = [c \in Calls |-> IF HasCaptured(c) THEN call[c] ELSE NoCall]
      /\ UNCHANGED <<list, clock, relations>>
  BY DEF ReplaceBrowser
<1>3. HistoryKept
  BY <1>2, OthersKeepHistory
<1>4. TypesOK'
  BY <1>1, <1>2 DEF TypesOK, Related
<1>5. ScansOK'
  BY <1>2 DEF ScansOK, ScanOK
<1>6. ASSUME NEW c \in Calls
      PROVE  CallOK(c)' /\ (UserWaits => ScopeOK(c)')
  <2>1. CASE HasCaptured(c)
    <3>1. pc'[c] = pc[c] /\ call'[c] = call[c] /\ pc[c] \notin {"selecting", "capturing"}
      BY <1>2, <2>1 DEF HasCaptured
    <3> QED
      BY <1>1, <1>2, <1>3, <3>1, CallStays DEF CallsOK
  <2>2. CASE ~HasCaptured(c)
    <3>1. pc'[c] = "idle" /\ call'[c] = NoCall
      BY <1>2, <2>2
    <3>2. IsCall(call'[c])
      BY <3>1 DEF IsCall, NoCall
    <3> QED
      BY <3>1, <3>2, CallRests
  <2> QED
    BY <2>1, <2>2
<1> QED
  BY <1>1, <1>3, <1>4, <1>5, <1>6, ListsStay DEF HInv, CallsOK

-----------------------------------------------------------------------------
(* The invariant                                                           *)

LEMMA HistoryStart == HInit => HInv
<1> SUFFICES ASSUME HInit PROVE HInv
  OBVIOUS
<1>1. TypesOK
  BY ScanAssumption DEF HInit, Init, RelationsInit, TypesOK, Related
<1>2. ListsOK
  BY DEF HInit, Init, ListsOK, ListOK
<1>3. ScansOK
  BY DEF HInit, Init, ScansOK, ScanOK
<1>4. CallsOK
  <2> SUFFICES ASSUME NEW c \in Calls
               PROVE  CallOK(c) /\ ScopeOK(c)
    BY DEF CallsOK
  <2>1. pc[c] = "idle" /\ call[c] = NoCall
    BY DEF HInit, Init
  <2>2. IsCall(call[c])
    BY <2>1 DEF IsCall, NoCall
  <2> QED
    BY <2>1, <2>2 DEF CallOK, ScopeOK, Active, WithTab, Captured
<1> QED
  BY <1>1, <1>2, <1>3, <1>4 DEF HInv

LEMMA HistoryStep ==
    ASSUME InTurn, HInv, [HNext]_hvars
    PROVE  HInv'
<1>1. CASE UNCHANGED hvars
  <2>1. UNCHANGED <<list, url, target, revision, scans, pc, call, clock, relations,
                    listed, steady, captured>>
    BY <1>1 DEF hvars, vars
  <2> QED
    BY <2>1 DEF HInv, TypesOK, Related, ListsOK, ListOK, ScansOK, ScanOK, CallsOK, CallOK, IsCall,
       MayNavigate, ScopeOK, OnPage, Requested, Whole
<1>2. CASE HNext
  <2>1. Next
    BY <1>2 DEF HNext
  <2>2. ASSUME NEW c \in Calls, NEW k \in Kinds, Reuse(c, k) \/ Open(c, k)
        PROVE  HInv'
    BY <1>2, <2>2, ReuseStep, OpenStep
  <2>3. ASSUME NEW c \in Calls,
               \/ Opened(c) \/ Selected(c) \/ Navigated(c) \/ Fails(c)
               \/ Capture(c) \/ Write(c) \/ EndWrite(c)
        PROVE  HInv'
    BY <1>2, <2>3, OpenedStep, SelectedStep, NavigatedStep, ReturningSteps, CaptureStep, WriteStep
  <2>4. ASSUME NEW c \in Calls, Refused(c)
        PROVE  HInv'
    BY <1>2, <2>4, EnvironmentSteps DEF Refused
  <2> QED
    BY <1>2, <2>1, <2>2, <2>3, <2>4, EnvironmentSteps, ReplaceBrowserStep DEF Next
<1> QED
  BY <1>1, <1>2

LEMMA HistoryHolds ==
    ASSUME InTurn
    PROVE  HSpec => []HInv
<1>1. HInv /\ [HNext]_hvars => HInv'
  BY HistoryStep
<1> QED
  BY <1>1, HistoryStart, PTL DEF HSpec
-----------------------------------------------------------------------------
(* What it implies                                                         *)

(* Only its write applies the snapshot of a call. *)
LEMMA AppliesByWrite ==
    ASSUME InTurn, HInv, HNext, NEW c \in Calls, Applies(c)
    PROVE  Write(c)
<1>1. TypesOK /\ pc[c] = "writing" /\ pc'[c] = "answering" /\ \A d \in Calls : d = c
  BY DEF HInv, Applies, InTurn
<1>2. Next
  BY DEF HNext
<1>3. ASSUME NEW d \in Calls, NEW k \in Kinds, Reuse(d, k) \/ Open(d, k)
      PROVE  FALSE
  BY <1>1, <1>3 DEF Reuse, Open, Starts
<1>4. ASSUME NEW d \in Calls,
             \/ Refused(d) \/ Opened(d) \/ Selected(d) \/ Navigated(d) \/ Fails(d) \/ Capture(d)
      PROVE  FALSE
  BY <1>1, <1>4 DEF Refused, Opened, Selected, Navigated, Fails, Capture
<1>5. ASSUME NEW d \in Calls, EndWrite(d)
      PROVE  FALSE
  BY <1>1, <1>5 DEF EndWrite, Returns, TypesOK
<1>6. ASSUME UNCHANGED pc
      PROVE  FALSE
  BY <1>1, <1>6
<1>7. ~ReplaceBrowser
  BY <1>1 DEF ReplaceBrowser, HasCaptured
<1> QED
  BY <1>1, <1>2, <1>3, <1>4, <1>5, <1>6, <1>7
  DEF Next, EditCategory, UserMoves, PlatformRedirects, UserReturnsControl

(* What the relations are when a snapshot has been applied. *)
LEMMA Applied ==
    ASSUME InTurn, HInv, HNext, NEW c \in Calls, Applies(c), NEW w, w = call[c].snapshot
    PROVE  /\ w.kind \in Kinds /\ w.jobs \subseteq Sources
           /\ UNCHANGED call
           /\ \A s \in w.jobs : relations'[w.kind][s] # Unrelated
           /\ RemovesMissing(w) =>
                 \A s \in Sources : s \notin w.jobs => relations'[w.kind][s] = Unrelated
<1>1. TypesOK /\ CallOK(c) /\ pc[c] = "writing" /\ Write(c)
  BY AppliesByWrite DEF HInv, CallsOK, Applies
<1>2. w.kind \in Kinds /\ w.jobs \subseteq Sources /\ w.at \in Nat /\ Synchronize(w)
  BY <1>1 DEF CallOK, Write
<1>3. UNCHANGED call
  BY <1>1 DEF Write
<1> QED
  BY <1>1, <1>2, <1>3, SynchronizeRelates

(* A redirected tab waits for the user: no call navigates it before they   *)
(* have returned control.                                                  *)
THEOREM RedirectsWait ==
    ASSUME InTurn
    PROVE  HSpec => RedirectWaitsForUser
<1>1. HInv /\ [HNext]_hvars =>
          [\A c \in Calls :
              pc[c] = "selecting" /\ pc'[c] = "navigating" =>
                  \/ target = NoTarget
                  \/ target.page # call[c].tab
                  \/ target.state # "redirected"
                  \/ revision > target.revision]_vars
  BY DEF HInv, CallsOK, CallOK, MayNavigate
<1> QED
  BY <1>1, HistoryHolds, PTL DEF HSpec, RedirectWaitsForUser

(* While the user leaves the tab to the call that uses it, a snapshot has  *)
(* only jobs its own category has shown since the scan began.              *)
THEOREM Scoped ==
    ASSUME InTurn, UserWaits
    PROVE  HSpec => ScopedToCategory
<1>1. HInv /\ [HNext]_hvars =>
          [\A c \in Calls : Captures(c) =>
              LET snapshot == call'[c].snapshot IN
              snapshot.jobs \subseteq listed'[snapshot.kind]]_hvars
  <2> SUFFICES ASSUME HInv, [HNext]_hvars, NEW c \in Calls, Captures(c)
               PROVE  call'[c].snapshot.jobs \subseteq listed'[call'[c].snapshot.kind]
    OBVIOUS
  <2>1. ScopeOK(c)' /\ pc'[c] = "writing"
    BY HistoryStep DEF HInv, CallsOK, Captures
  <2> QED
    BY <2>1 DEF ScopeOK
<1> QED
  BY <1>1, HistoryHolds, PTL DEF HSpec, ScopedToCategory

(* When the last snapshot of a scan has been applied, all that its batches *)
(* captured is related, whichever of their writes were lost.               *)
THEOREM Stored ==
    ASSUME InTurn
    PROVE  HSpec => EndedScanIsStored
<1>1. HInv /\ [HNext]_hvars =>
          [\A c \in Calls : Applies(c) /\ call[c].ended /\ scans[call[c].kind] = NoScan =>
              captured[call[c].kind] \subseteq Related(call[c].snapshot.kind)']_hvars
  <2> SUFFICES ASSUME HInv, HNext, NEW c \in Calls, Applies(c), call[c].ended
               PROVE  captured[call[c].kind] \subseteq Related(call[c].snapshot.kind)'
    OBVIOUS
  <2>1. PICK w : w = call[c].snapshot
    OBVIOUS
  <2>2. captured[call[c].kind] \subseteq w.jobs /\ call[c].kind \in Kinds
    BY <2>1 DEF HInv, CallsOK, CallOK, Applies
  <2>3. /\ w.jobs \subseteq Sources /\ UNCHANGED call
        /\ \A s \in w.jobs : relations'[w.kind][s] # Unrelated
    BY <2>1, Applied
  <2> QED
    BY <2>1, <2>2, <2>3 DEF Related
<1> QED
  BY <1>1, HistoryHolds, PTL DEF HSpec, EndedScanIsStored

(* While the user leaves the tab to the call that uses it, a complete      *)
(* snapshot of the reversible category removes only what the user dropped. *)
THEOREM MatchesCategory ==
    ASSUME InTurn, UserWaits
    PROVE  HSpec => InterestMatchesCategory
<1>1. HInv /\ [HNext]_hvars =>
          [\A c \in Calls : Applies(c) /\ RemovesMissing(call[c].snapshot) =>
              /\ Related(Interested)' \subseteq listed[Interested]
              /\ steady[Interested] = listed[Interested] =>
                    listed[Interested] \subseteq Related(Interested)']_hvars
  <2> SUFFICES ASSUME HInv, HNext, NEW c \in Calls, Applies(c), RemovesMissing(call[c].snapshot)
               PROVE  /\ Related(Interested)' \subseteq listed[Interested]
                      /\ steady[Interested] = listed[Interested] =>
                            listed[Interested] \subseteq Related(Interested)'
    OBVIOUS
  <2>1. PICK w : w = call[c].snapshot
    OBVIOUS
  <2>2. RemovesMissing(w) /\ w.kind = Interested /\ w.complete
    BY <2>1 DEF RemovesMissing
  <2>3. w.jobs \subseteq listed[Interested] /\ Whole(w)
    BY <2>1, <2>2 DEF HInv, CallsOK, ScopeOK, Applies
  <2>4. /\ w.jobs \subseteq Sources
        /\ \A s \in w.jobs : relations'[Interested][s] # Unrelated
        /\ \A s \in Sources : s \notin w.jobs => relations'[Interested][s] = Unrelated
    BY <2>1, <2>2, Applied
  <2> QED
    BY <2>2, <2>3, <2>4 DEF Related, Whole
<1> QED
  BY <1>1, HistoryHolds, PTL DEF HSpec, InterestMatchesCategory
=============================================================================
