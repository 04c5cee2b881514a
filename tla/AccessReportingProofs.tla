----------------------- MODULE AccessReportingProofs ------------------------
(***************************************************************************)
(* Theorems about AccessReporting, for any sites, assessments and bounds.  *)
(* An answer means the history covers the observation (DeliveryInv); that  *)
(* survives because no step makes the history shrink (Grows), so what      *)
(* leaves the pending list by an acknowledgement is in the history.        *)
(***************************************************************************)
EXTENDS AccessReporting, TLAPS

LEMMA InsertProperties ==
    ASSUME TypeOK, NEW o, o.site \in Sites, o.assessment \in Assessments, o.at \in Times,
           Insert(o)
    PROVE  rows' \in Seq(RowType) /\ Grows /\ Covered(o)'
  <1> DEFINE row == [site |-> o.site, assessment |-> o.assessment,
                     observedAt |-> o.at, lastObservedAt |-> o.at]
  <1>1. rows \in Seq(RowType) /\ row \in RowType /\ rows' = Append(rows, row)
    BY DEF TypeOK, RowType, Insert
  <1>2. rows' \in Seq(RowType)
    BY <1>1
  <1>3. /\ Len(rows') = Len(rows) + 1
        /\ rows'[Len(rows) + 1] = row
        /\ \A i \in 1 .. Len(rows) : rows'[i] = rows[i]
    BY <1>1
  <1>4. Grows
    <2> SUFFICES ASSUME NEW i \in DOMAIN rows
                 PROVE  /\ i \in DOMAIN rows'
                        /\ rows'[i].lastObservedAt >= rows[i].lastObservedAt
                        /\ rows'[i] = [rows[i] EXCEPT !.lastObservedAt = rows'[i].lastObservedAt]
      BY DEF Grows
    <2>1. i \in 1 .. Len(rows) /\ i \in DOMAIN rows' /\ rows[i] \in RowType
      BY <1>1, <1>2, <1>3
    <2>2. rows'[i] = rows[i]
      BY <1>3, <2>1
    <2> QED
      BY <2>1, <2>2 DEF RowType, Times
  <1>5. Covered(o)'
    <2>1. Len(rows) + 1 \in DOMAIN rows'
      BY <1>1, <1>2, <1>3
    <2>2. rows'[Len(rows) + 1].site = o.site /\ rows'[Len(rows) + 1].lastObservedAt = o.at
      BY <1>3
    <2> QED
      BY <2>1, <2>2 DEF Covered, RowsOf, Times
  <1> QED
    BY <1>2, <1>4, <1>5

LEMMA RefreshProperties ==
    ASSUME TypeOK, NEW o, o.at \in Times, NEW i \in RowsOf(o.site),
           o.at > rows[i].lastObservedAt, Refresh(i, o)
    PROVE  rows' \in Seq(RowType) /\ Grows /\ Covered(o)'
  <1>1. rows \in Seq(RowType) /\ i \in 1 .. Len(rows) /\ rows[i] \in RowType
    BY DEF TypeOK, RowsOf
  <1>2. rows' = [rows EXCEPT ![i] = [rows[i] EXCEPT !.lastObservedAt = o.at]]
    BY DEF Refresh
  <1>3. [rows[i] EXCEPT !.lastObservedAt = o.at] \in RowType
    BY <1>1 DEF RowType
  <1>4. rows' \in Seq(RowType) /\ DOMAIN rows' = DOMAIN rows
    BY <1>1, <1>2, <1>3
  <1>5. rows'[i] = [rows[i] EXCEPT !.lastObservedAt = o.at]
    BY <1>1, <1>2
  <1>6. rows'[i].lastObservedAt = o.at /\ rows'[i].site = rows[i].site
    BY <1>1, <1>5 DEF RowType
  <1>7. Grows
    <2> SUFFICES ASSUME NEW j \in DOMAIN rows
                 PROVE  /\ j \in DOMAIN rows'
                        /\ rows'[j].lastObservedAt >= rows[j].lastObservedAt
                        /\ rows'[j] = [rows[j] EXCEPT !.lastObservedAt = rows'[j].lastObservedAt]
      BY DEF Grows
    <2>1. rows[j] \in RowType
      BY <1>1
    <2>2. CASE j = i
      BY <1>1, <1>4, <1>5, <1>6, <2>2 DEF RowType, Times
    <2>3. CASE j # i
      <3>1. rows'[j] = rows[j]
        BY <1>1, <1>2, <2>3
      <3> QED
        BY <1>4, <2>1, <3>1 DEF RowType, Times
    <2> QED
      BY <2>2, <2>3
  <1>8. Covered(o)'
    BY <1>4, <1>6 DEF Covered, RowsOf, Times
  <1> QED
    BY <1>4, <1>7, <1>8

LEMMA StutterGrows ==
    ASSUME TypeOK, UNCHANGED rows
    PROVE  rows' \in Seq(RowType) /\ Grows
  <1>1. \A i \in DOMAIN rows : rows[i] \in RowType
    BY DEF TypeOK
  <1> QED
    BY <1>1 DEF TypeOK, Grows, RowType, Times

(* Whatever the history holds, an observation that was reconciled with it  *)
(* is covered, and nothing that was covered is lost.                       *)
LEMMA ReconcileProperties ==
    ASSUME TypeOK, NEW o \in Observations, Reconcile(o)
    PROVE  rows' \in Seq(RowType) /\ Grows /\ Covered(o)'
  <1>1. o.site \in Sites /\ o.assessment \in Assessments /\ o.at \in Times
    BY DEF Observations
  <1>2. CASE Insert(o)
    BY <1>1, <1>2, InsertProperties
  <1>3. ASSUME NEW i \in RowsOf(o.site), o.at <= rows[i].lastObservedAt, UNCHANGED rows
        PROVE  rows' \in Seq(RowType) /\ Grows /\ Covered(o)'
    BY <1>3, StutterGrows DEF Covered, RowsOf
  <1>4. ASSUME NEW i \in RowsOf(o.site), o.at > rows[i].lastObservedAt, Refresh(i, o)
        PROVE  rows' \in Seq(RowType) /\ Grows /\ Covered(o)'
    BY <1>1, <1>4, RefreshProperties
  <1> QED
    BY <1>2, <1>3, <1>4 DEF Reconcile

(* Every step lets the history grow only. *)
LEMMA NextGrows ==
    ASSUME TypeOK, [Next]_vars
    PROVE  rows' \in Seq(RowType) /\ Grows
  <1>1. CASE Apply
    <2>1. current \in Observations
      BY <1>1 DEF Apply, TypeOK
    <2> QED
      BY <1>1, <2>1, ReconcileProperties DEF Apply
  <1>2. ASSUME NEW o \in late, ApplyLate(o) PROVE rows' \in Seq(RowType) /\ Grows
    <2>1. o \in Observations
      BY DEF TypeOK
    <2> QED
      BY <1>2, <2>1, ReconcileProperties DEF ApplyLate
  <1>3. ASSUME NEW s \in Sites, NEW a \in Assessments, NEW t \in Times, Post(s, a, t)
        PROVE  rows' \in Seq(RowType) /\ Grows
    BY <1>3, InsertProperties DEF Post
  <1>4. CASE UNCHANGED rows
    BY <1>4, StutterGrows
  <1> QED
    BY <1>1, <1>2, <1>3, <1>4
    DEF Next, vars, Tick, Record, StartRound, ReadAnswer, RoundFails, ReplaceBrowser,
        RestartProcess

LEMMA CoverageLasts ==
    ASSUME TypeOK, Grows, rows' \in Seq(RowType), NEW o \in Observations, Covered(o)
    PROVE  Covered(o)'
  <1>1. PICK i \in RowsOf(o.site) : o.at <= rows[i].lastObservedAt
    BY DEF Covered
  <1>2. i \in DOMAIN rows /\ rows[i].site = o.site /\ rows[i] \in RowType
    BY DEF RowsOf, TypeOK
  <1>3. /\ i \in DOMAIN rows'
        /\ rows'[i].lastObservedAt >= rows[i].lastObservedAt
        /\ rows'[i] = [rows[i] EXCEPT !.lastObservedAt = rows'[i].lastObservedAt]
    BY <1>2 DEF Grows
  <1>4. rows'[i].site = o.site /\ rows'[i] \in RowType
    BY <1>2, <1>3 DEF RowType
  <1>5. o.at <= rows'[i].lastObservedAt
    BY <1>1, <1>2, <1>3, <1>4 DEF RowType, Times, Observations
  <1> QED
    BY <1>3, <1>4, <1>5 DEF Covered, RowsOf

LEMMA InitDelivery == Init => DeliveryInv
  <1> SUFFICES ASSUME Init PROVE DeliveryInv
    OBVIOUS
  <1>1. rows \in Seq(RowType)
    BY DEF Init
  <1>2. 0 \in Times
    BY BoundsAssumption DEF Times
  <1>3. answered \in BOOLEAN
    BY DEF Init
  <1>4. TypeOK
    BY <1>1, <1>2, <1>3, BoundsAssumption DEF Init, TypeOK
  <1> QED
    BY <1>4 DEF Init, DeliveryInv, AnsweredIsCovered, PendingIsOld

LEMMA SendNextType ==
    ASSUME NEW S \in SUBSET Observations, SendNextOf(S)
    PROVE  /\ round' \in SUBSET Observations
           /\ current' \in Observations \cup {NoObservation}
           /\ answered' = FALSE
  BY DEF SendNextOf, IsOldest

LEMMA AbandonType ==
    ASSUME TypeOK, AbandonRequest
    PROVE  /\ round' = {} /\ current' = NoObservation /\ answered' \in BOOLEAN
           /\ late' \in SUBSET Observations
  <1>0. round' = {} /\ current' = NoObservation /\ answered' \in BOOLEAN
    BY DEF AbandonRequest
  <1>1. late \in SUBSET Observations /\ {current} \ {NoObservation} \in SUBSET Observations
    BY DEF TypeOK
  <1>2. late' = late \/ \E o \in {current} \ {NoObservation} : late' = late \cup {o}
    BY DEF AbandonRequest
  <1>3. late' \in SUBSET Observations
    BY <1>1, <1>2
  <1> QED
    BY <1>0, <1>3

LEMMA NextType ==
    ASSUME DeliveryInv, [Next]_vars
    PROVE  TypeOK' /\ PendingIsOld'
  <1> USE BoundsAssumption DEF DeliveryInv
  <1>0. rows' \in Seq(RowType)
    BY NextGrows
  <1>1. CASE Tick
    BY <1>0, <1>1 DEF Tick, browser, reporter, TypeOK, PendingIsOld, Times
  <1>2. ASSUME NEW s \in Sites, NEW a \in Assessments, Record(s, a)
        PROVE  TypeOK' /\ PendingIsOld'
    <2> DEFINE o == [id |-> observed + 1, site |-> s, assessment |-> a, at |-> clock]
    <2>1. o \in Observations /\ o.id = observed + 1
      BY <1>2 DEF Record, TypeOK, Observations
    <2>2. pending' = OtherSites(o) \cup {o} /\ observed' = observed + 1
      BY <1>2 DEF Record
    <2>3. OtherSites(o) \subseteq pending
      BY DEF OtherSites
    <2>4. pending' \in SUBSET Observations
      BY <2>1, <2>2, <2>3 DEF TypeOK
    <2>5. \A p \in pending' : p.id <= observed'
      <3>1. \A p \in pending : p.id \in 1 .. MaxObservations /\ p.id <= observed
        BY DEF TypeOK, PendingIsOld, Observations
      <3> HIDE DEF o
      <3> QED
        BY <2>1, <2>2, <2>3, <3>1 DEF TypeOK
    <2> QED
      BY <1>0, <1>2, <2>4, <2>5 DEF Record, reporter, TypeOK, PendingIsOld
  <1>3. CASE StartRound
    <2>1. /\ round' \in SUBSET Observations
          /\ current' \in Observations \cup {NoObservation}
          /\ answered' = FALSE
      BY <1>3, SendNextType DEF StartRound, TypeOK
    <2> QED
      BY <1>0, <1>3, <2>1 DEF StartRound, browser, TypeOK, PendingIsOld
  <1>4. CASE ReadAnswer
    <2>1. /\ round' \in SUBSET Observations
          /\ current' \in Observations \cup {NoObservation}
          /\ answered' = FALSE
      BY <1>4, SendNextType DEF ReadAnswer, TypeOK
    <2> QED
      BY <1>0, <1>4, <2>1 DEF ReadAnswer, Acknowledge, TypeOK, PendingIsOld
  <1>5. CASE RoundFails
    <2>1. /\ round' = {} /\ current' = NoObservation /\ answered' \in BOOLEAN
          /\ late' \in SUBSET Observations
      BY <1>5, AbandonType DEF RoundFails
    <2> QED
      BY <1>0, <1>5, <2>1 DEF RoundFails, browser, TypeOK, PendingIsOld
  <1>6. CASE ReplaceBrowser
    BY <1>0, <1>6 DEF ReplaceBrowser, reporter, TypeOK, PendingIsOld
  <1>7. CASE RestartProcess
    <2>1. /\ round' = {} /\ current' = NoObservation /\ answered' \in BOOLEAN
          /\ late' \in SUBSET Observations
      BY <1>7, AbandonType DEF RestartProcess
    <2> QED
      BY <1>0, <1>7, <2>1 DEF RestartProcess, TypeOK, PendingIsOld
  <1>8. CASE Apply
    BY <1>0, <1>8 DEF Apply, browser, TypeOK, PendingIsOld
  <1>9. ASSUME NEW o \in late, ApplyLate(o) PROVE TypeOK' /\ PendingIsOld'
    BY <1>0, <1>9 DEF ApplyLate, browser, reporter, TypeOK, PendingIsOld
  <1>10. ASSUME NEW s \in Sites, NEW a \in Assessments, NEW t \in Times, Post(s, a, t)
         PROVE  TypeOK' /\ PendingIsOld'
    BY <1>0, <1>10 DEF Post, browser, reporter, TypeOK, PendingIsOld
  <1>11. CASE UNCHANGED vars
    BY <1>0, <1>11 DEF vars, browser, reporter, TypeOK, PendingIsOld
  <1> QED
    BY <1>1, <1>2, <1>3, <1>4, <1>5, <1>6, <1>7, <1>8, <1>9, <1>10, <1>11 DEF Next

LEMMA NextAnswered ==
    ASSUME DeliveryInv, [Next]_vars
    PROVE  AnsweredIsCovered'
  <1> USE DEF DeliveryInv
  <1>1. CASE Apply
    <2>1. current \in Observations /\ current' = current /\ current # NoObservation
      BY <1>1 DEF Apply, TypeOK
    <2>2. Covered(current)'
      BY <1>1, <2>1, ReconcileProperties DEF Apply
    <2> QED
      BY <2>1, <2>2 DEF AnsweredIsCovered
  <1>2. CASE answered' = FALSE
    BY <1>2 DEF AnsweredIsCovered
  <1>3. CASE UNCHANGED <<answered, current>>
    <2> SUFFICES ASSUME answered PROVE current' # NoObservation /\ Covered(current)'
      BY <1>3 DEF AnsweredIsCovered
    <2>1. current # NoObservation /\ Covered(current) /\ current \in Observations
      BY DEF AnsweredIsCovered, TypeOK
    <2> QED
      BY <1>3, <2>1, NextGrows, CoverageLasts
  <1> QED
    BY <1>1, <1>2, <1>3
    DEF Next, vars, browser, reporter, Tick, Record, StartRound, ReadAnswer, SendNextOf,
        RoundFails, AbandonRequest, ReplaceBrowser, RestartProcess, ApplyLate, Post

(* The delivery's invariant: types, and an answer the reporter may read is *)
(* about an observation the history covers.                                *)
THEOREM Delivery == Spec => []DeliveryInv
  <1>1. DeliveryInv /\ [Next]_vars => DeliveryInv'
    BY NextType, NextAnswered DEF DeliveryInv
  <1> QED
    BY <1>1, InitDelivery, PTL DEF Spec

(* The history never loses a record or a later time of one. *)
THEOREM HistoryGrows == Spec => HistoryOnlyGrows
  <1>1. DeliveryInv /\ [Next]_vars => [Grows]_vars
    BY NextGrows DEF DeliveryInv
  <1> QED
    BY <1>1, Delivery, PTL DEF Spec, HistoryOnlyGrows

LeavesCovered ==
    \A o \in pending \ pending' :
        \/ Covered(o)
        \/ generation' # generation
        \/ \E p \in pending' : p.site = o.site /\ p.id > o.id

LEMMA NextLeavesCovered ==
    ASSUME DeliveryInv, [Next]_vars
    PROVE  LeavesCovered
  <1> USE DEF DeliveryInv
  <1>1. ASSUME NEW s \in Sites, NEW a \in Assessments, Record(s, a) PROVE LeavesCovered
    <2> DEFINE p == [id |-> observed + 1, site |-> s, assessment |-> a, at |-> clock]
    <2>1. pending' = OtherSites(p) \cup {p}
      BY <1>1 DEF Record
    <2>2. \A o \in pending \ pending' : o.site = p.site
      BY <2>1 DEF OtherSites
    <2>3. \A o \in pending : o.id < p.id
      BY DEF PendingIsOld, TypeOK, Observations
    <2> QED
      BY <2>1, <2>2, <2>3 DEF LeavesCovered, PendingIsOld, TypeOK, Observations
  <1>2. CASE ReadAnswer
    BY <1>2 DEF ReadAnswer, Acknowledge, AnsweredIsCovered, LeavesCovered
  <1>3. CASE ReplaceBrowser \/ RestartProcess
    BY <1>3 DEF ReplaceBrowser, RestartProcess, LeavesCovered, TypeOK
  <1>4. CASE UNCHANGED pending
    BY <1>4 DEF LeavesCovered
  <1> QED
    BY <1>1, <1>2, <1>3, <1>4
    DEF Next, vars, browser, Tick, StartRound, RoundFails, Apply, ApplyLate, Post

(* No acknowledgement drops an observation the history does not cover. *)
THEOREM PendingIsNotDropped == Spec => PendingLeavesCovered
  <1>1. DeliveryInv /\ [Next]_vars => [LeavesCovered]_vars
    BY NextLeavesCovered
  <1> QED
    BY <1>1, Delivery, PTL DEF Spec, PendingLeavesCovered, LeavesCovered
-----------------------------------------------------------------------------
(* Without posts the record that is latest by time is the last by id.      *)
LEMMA LatestIsLast ==
    ASSUME TypeOK, IsTimeline, NEW s \in Sites, NEW i, IsLatest(i, s),
           NEW k \in RowsOf(s)
    PROVE  k <= i /\ (k < i => rows[k].lastObservedAt < rows[i].observedAt)
  <1>1. /\ i \in DOMAIN rows /\ rows[i].site = s /\ rows[i] \in RowType
        /\ k \in DOMAIN rows /\ rows[k].site = s /\ rows[k] \in RowType
    BY DEF IsLatest, RowsOf, TypeOK
  <1>0. i \in Int /\ k \in Int
    BY <1>1 DEF TypeOK
  <1>2. \/ rows[k].lastObservedAt < rows[i].lastObservedAt
        \/ rows[k].lastObservedAt = rows[i].lastObservedAt /\ k <= i
    BY DEF IsLatest
  <1>3. ~ i < k
    <2> SUFFICES ASSUME i < k PROVE FALSE
      OBVIOUS
    <2>1. rows[i].lastObservedAt < rows[k].observedAt
      BY <1>1 DEF IsTimeline, Follows
    <2>2. rows[k].observedAt <= rows[k].lastObservedAt
      BY <1>1 DEF IsTimeline
    <2> QED
      BY <1>1, <1>2, <2>1, <2>2 DEF RowType, Times
  <1>4. k < i => rows[k].lastObservedAt < rows[i].observedAt
    BY <1>1 DEF IsTimeline, Follows
  <1> QED
    BY <1>0, <1>3, <1>4

(* A record is appended whose time is after everything of its site and     *)
(* whose assessment differs from the last record of the site.              *)
LEMMA InsertKeepsTimeline ==
    ASSUME TypeOK, IsTimeline, NEW o \in Observations, Insert(o),
           \/ RowsOf(o.site) = {}
           \/ \E i \in RowsOf(o.site) :
                 /\ IsLatest(i, o.site)
                 /\ o.at > rows[i].lastObservedAt
                 /\ rows[i].assessment # o.assessment
    PROVE  IsTimeline'
  <1> DEFINE n == Len(rows) + 1
             row == [site |-> o.site, assessment |-> o.assessment,
                     observedAt |-> o.at, lastObservedAt |-> o.at]
  <1>1. o.site \in Sites /\ o.assessment \in Assessments /\ o.at \in Times /\ row \in RowType
    BY DEF Observations, RowType
  <1>2. rows \in Seq(RowType) /\ rows' = Append(rows, row)
    BY DEF TypeOK, Insert
  <1>3. /\ DOMAIN rows = 1 .. Len(rows) /\ Len(rows) \in Nat /\ DOMAIN rows' = 1 .. n
        /\ rows'[n] = row
        /\ \A i \in DOMAIN rows : rows'[i] = rows[i] /\ rows[i] \in RowType
    BY <1>1, <1>2
  <1>4. \A i \in DOMAIN rows' : i \in DOMAIN rows \/ i = n
    BY <1>3
  <1>5. \A i \in DOMAIN rows' : rows'[i].observedAt <= rows'[i].lastObservedAt
    BY <1>1, <1>3, <1>4 DEF IsTimeline, Times
  <1>6. \A s : RowsOf(s) \subseteq RowsOf(s)'
    BY <1>3 DEF RowsOf
  <1>7. ASSUME NEW i \in DOMAIN rows', NEW j \in DOMAIN rows', i < j, rows'[i].site = rows'[j].site
        PROVE  Follows(j, i)'
    <2>1. i \in DOMAIN rows
      BY <1>3, <1>4, <1>7
    <2>2. CASE j \in DOMAIN rows
      <3>1. rows'[i] = rows[i] /\ rows'[j] = rows[j]
        BY <1>3, <2>1, <2>2
      <3>2. Follows(j, i)
        BY <1>7, <2>1, <2>2, <3>1 DEF IsTimeline
      <3> QED
        BY <1>6, <3>1, <3>2 DEF Follows
    <2>3. CASE j = n
      <3>1. rows'[j] = row /\ rows'[i] = rows[i] /\ rows[i].site = o.site /\ i \in RowsOf(o.site)
        BY <1>3, <1>7, <2>1, <2>3 DEF RowsOf
      <3>2. PICK l \in RowsOf(o.site) :
               /\ IsLatest(l, o.site)
               /\ o.at > rows[l].lastObservedAt
               /\ rows[l].assessment # o.assessment
        BY <3>1
      <3>3. i <= l /\ l \in DOMAIN rows /\ rows[l] \in RowType
        BY <1>1, <1>3, <3>1, <3>2, LatestIsLast DEF RowsOf
      <3>4. rows[i].lastObservedAt <= rows[l].lastObservedAt
        BY <1>3, <2>1, <3>1, <3>2, <3>3 DEF IsLatest, RowType, Times
      <3>5. rows[i].lastObservedAt < o.at
        BY <1>1, <1>3, <2>1, <3>2, <3>3, <3>4 DEF RowType, Times
      <3>6. CASE i = l
        BY <3>1, <3>2, <3>5, <3>6 DEF Follows
      <3>7. CASE i # l
        <4>1. i < l /\ l < j /\ l \in RowsOf(o.site)'
          BY <1>3, <1>6, <2>1, <2>3, <3>2, <3>3, <3>7
        <4> QED
          BY <3>1, <3>5, <4>1 DEF Follows
      <3> QED
        BY <3>6, <3>7
    <2> QED
      BY <1>4, <2>2, <2>3
  <1> QED
    BY <1>5, <1>7 DEF IsTimeline

LEMMA RefreshKeepsTimeline ==
    ASSUME TypeOK, IsTimeline, NEW o \in Observations, NEW l \in RowsOf(o.site),
           IsLatest(l, o.site), o.at > rows[l].lastObservedAt, Refresh(l, o)
    PROVE  IsTimeline'
  <1>1. o.site \in Sites /\ o.at \in Times
    BY DEF Observations
  <1>2. rows \in Seq(RowType) /\ l \in DOMAIN rows /\ rows[l].site = o.site
    BY DEF TypeOK, RowsOf
  <1>3. /\ DOMAIN rows = 1 .. Len(rows) /\ DOMAIN rows' = DOMAIN rows
        /\ \A i \in DOMAIN rows : rows[i] \in RowType
        /\ \A i \in DOMAIN rows : i # l => rows'[i] = rows[i]
        /\ rows'[l] = [rows[l] EXCEPT !.lastObservedAt = o.at]
    BY <1>2 DEF Refresh
  <1>4. /\ rows'[l].site = rows[l].site /\ rows'[l].assessment = rows[l].assessment
        /\ rows'[l].observedAt = rows[l].observedAt /\ rows'[l].lastObservedAt = o.at
    BY <1>2, <1>3 DEF RowType
  <1>5. \A i \in DOMAIN rows : rows'[i].site = rows[i].site /\ rows'[i].observedAt = rows[i].observedAt
                                /\ rows'[i].assessment = rows[i].assessment
    BY <1>3, <1>4
  <1>6. \A s : RowsOf(s)' = RowsOf(s)
    BY <1>3, <1>5 DEF RowsOf
  <1>7. \A i \in DOMAIN rows' : rows'[i].observedAt <= rows'[i].lastObservedAt
    <2>1. \A i \in DOMAIN rows : rows[i].observedAt <= rows[i].lastObservedAt
      BY DEF IsTimeline
    <2>2. rows[l].observedAt <= o.at
      BY <1>1, <1>2, <1>3, <2>1 DEF RowType, Times
    <2> QED
      BY <1>3, <1>4, <2>1, <2>2
  <1>8. ASSUME NEW i \in DOMAIN rows', NEW j \in DOMAIN rows', i < j, rows'[i].site = rows'[j].site
        PROVE  Follows(j, i)'
    <2>1. i \in DOMAIN rows /\ j \in DOMAIN rows /\ rows[i].site = rows[j].site
      BY <1>3, <1>5, <1>8
    <2>2. Follows(j, i)
      BY <1>8, <2>1 DEF IsTimeline
    <2>3. i # l
      <3> SUFFICES ASSUME i = l PROVE FALSE
        OBVIOUS
      <3>1. j \in RowsOf(o.site)
        BY <1>2, <2>1 DEF RowsOf
      <3>2. j <= l
        BY <1>1, <3>1, LatestIsLast
      <3> QED
        BY <1>3, <1>8, <2>1, <3>2
    <2>4. rows'[i] = rows[i] /\ rows'[j].observedAt = rows[j].observedAt
          /\ rows'[j].assessment = rows[j].assessment
      BY <1>3, <1>5, <2>1, <2>3
    <2> QED
      BY <1>6, <2>2, <2>4 DEF Follows
  <1> QED
    BY <1>7, <1>8 DEF IsTimeline

LEMMA ReconcileKeepsTimeline ==
    ASSUME TypeOK, IsTimeline, NEW o \in Observations, Reconcile(o)
    PROVE  IsTimeline'
  <1>1. CASE RowsOf(o.site) = {} /\ Insert(o)
    BY <1>1, InsertKeepsTimeline
  <1>2. ASSUME NEW i \in RowsOf(o.site), IsLatest(i, o.site), o.at > rows[i].lastObservedAt,
               rows[i].assessment = o.assessment, Refresh(i, o)
        PROVE  IsTimeline'
    BY <1>2, RefreshKeepsTimeline
  <1>3. ASSUME NEW i \in RowsOf(o.site), IsLatest(i, o.site), o.at > rows[i].lastObservedAt,
               rows[i].assessment # o.assessment, Insert(o)
        PROVE  IsTimeline'
    BY <1>3, InsertKeepsTimeline
  <1>4. CASE UNCHANGED rows
    BY <1>4 DEF IsTimeline, Follows, RowsOf
  <1> QED
    BY <1>1, <1>2, <1>3, <1>4 DEF Reconcile

(* What the reporter writes alone is a timeline of each site, however many *)
(* requests are repeated or applied late.                                  *)
THEOREM Timeline == Spec => []HistoryIsTimeline
  <1>1. Init => HistoryIsTimeline
    BY DEF Init, HistoryIsTimeline, IsTimeline
  <1>2. DeliveryInv /\ HistoryIsTimeline /\ [Next]_vars => HistoryIsTimeline'
    <2> SUFFICES ASSUME DeliveryInv, HistoryIsTimeline, [Next]_vars, posts' = 0
                 PROVE  IsTimeline'
      BY DEF HistoryIsTimeline
    <2> USE DEF DeliveryInv
    <2>0. ASSUME posts = 0 PROVE IsTimeline
      BY <2>0 DEF HistoryIsTimeline
    <2>1. CASE Apply
      BY <2>0, <2>1, ReconcileKeepsTimeline DEF Apply, TypeOK
    <2>2. ASSUME NEW o \in late, ApplyLate(o) PROVE IsTimeline'
      BY <2>0, <2>2, ReconcileKeepsTimeline DEF ApplyLate, TypeOK
    <2>3. ASSUME NEW s \in Sites, NEW a \in Assessments, NEW t \in Times, Post(s, a, t)
          PROVE  FALSE
      BY <2>3 DEF Post, TypeOK
    <2>4. CASE UNCHANGED <<rows, posts>>
      BY <2>0, <2>4 DEF IsTimeline, Follows, RowsOf
    <2> QED
      BY <2>1, <2>2, <2>3, <2>4
      DEF Next, vars, Tick, Record, StartRound, ReadAnswer, RoundFails, ReplaceBrowser,
          RestartProcess
  <1> QED
    BY <1>1, <1>2, Delivery, PTL DEF Spec
=============================================================================
