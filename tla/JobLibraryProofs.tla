-------------------------- MODULE JobLibraryProofs --------------------------
(***************************************************************************)
(* Theorems about JobLibrary, for any observations and any number of them. *)
(* IInv is inductive. The lemmas follow the code: what a piece of evidence *)
(* is, which of a job's sources is the latest, what reconciliation does to *)
(* the tables, and then one step per operation.                            *)
(***************************************************************************)
EXTENDS JobLibrary, TLAPS

-----------------------------------------------------------------------------
(* Evidence. *)

LEMMA ObservationsAreFacts ==
    /\ \A o \in Observations.card \cup Observations.description : o \in Facts /\ o.at \in Nat
    /\ \A o \in Observations.description : o.jobUrl # Absent
    /\ Absent \notin Observations.card \cup Observations.description
  <1>1. \A f \in Facts, t \in 1 .. MaxTime :
           SeenAt(f, t) \in Facts /\ SeenAt(f, t).jobUrl = f.jobUrl
    BY LibraryAssumption DEF SeenAt, Facts
  <1>2. /\ Observations.card = {SeenAt(f, t) : f \in Cards, t \in 1 .. MaxTime}
        /\ Observations.description = {SeenAt(f, t) : f \in Descriptions, t \in 1 .. MaxTime}
    BY DEF Observations, Observed
  <1>3. \A o \in Facts : o.at \in Nat
    BY DEF Facts
  <1> QED
    BY <1>1, <1>2, <1>3, LibraryAssumption, AbsentAssumption

(* What identifies and dates a source with a card and a description.       *)
LEMMA DescribedIs ==
    ASSUME NEW c \in Facts, NEW d \in Facts
    PROVE  /\ Described(c, d).at = LaterOf(d.at, c.at)
           /\ Described(c, d).platform = d.platform
           /\ Described(c, d).externalJobId = OrElse(d.externalJobId, c.externalJobId)
           /\ Described(c, d).jobUrl = d.jobUrl
  <1>1. Described(c, d).at = LaterOf(d.at, c.at)
    BY DEF Described, Facts
  <1>2. Described(c, d).platform = d.platform
    BY DEF Described, Facts
  <1>3. Described(c, d).externalJobId = OrElse(d.externalJobId, c.externalJobId)
    BY DEF Described, Facts
  <1>4. Described(c, d).jobUrl = d.jobUrl
    BY DEF Described, Facts
  <1> QED
    BY <1>1, <1>2, <1>3, <1>4

(* What a row of job_posting_sources retains. *)
RetainedIn(row) == {row.card, row.description} \ {Absent}

(* What a source says is of the type of an observation, and as late as the *)
(* later of what it retains.                                               *)
LEMMA EvidenceIsTimed ==
    ASSUME NEW row \in SourceRows, RetainedIn(row) # {}
    PROVE  /\ Evidence(row).at \in Nat
           /\ \A o \in RetainedIn(row) : o \in Facts /\ o.at \in Nat /\ o.at <= Evidence(row).at
           /\ \E o \in RetainedIn(row) : Evidence(row).at = o.at
  <1>1. /\ row.card # Absent => row.card \in Facts /\ row.card.at \in Nat
        /\ row.description # Absent => row.description \in Facts /\ row.description.at \in Nat
    BY ObservationsAreFacts DEF SourceRows
  <1>2. CASE row.description = Absent
    BY <1>1, <1>2 DEF Evidence, RetainedIn
  <1>3. CASE row.description # Absent /\ row.card = Absent
    BY <1>1, <1>3 DEF Evidence, RetainedIn
  <1>4. CASE row.description # Absent /\ row.card # Absent
    BY <1>1, <1>4, DescribedIs DEF Evidence, RetainedIn, LaterOf
  <1> QED
    BY <1>2, <1>3, <1>4

-----------------------------------------------------------------------------
(* The latest of some facts. *)

Timed(facts) ==
    /\ DOMAIN facts \subseteq Nat
    /\ \A i \in DOMAIN facts : facts[i].at \in Nat

LEMMA LatestIsChosen ==
    ASSUME NEW facts, Timed(facts), NEW i, IsLatest(i, facts)
    PROVE  Latest(facts) = facts[i]
  <1>1. \A k \in DOMAIN facts : IsLatest(k, facts) => k = i
    BY DEF IsLatest, Timed
  <1>2. i \in DOMAIN facts
    BY DEF IsLatest
  <1> QED
    BY <1>1, <1>2 DEF Latest

(* Of two groups of facts, the latest of one is the latest of both. *)
LEMMA LatestOfBoth ==
    ASSUME NEW facts, Timed(facts), NEW some, NEW others,
           DOMAIN facts = DOMAIN some \cup DOMAIN others,
           \A i \in DOMAIN some : some[i] = facts[i],
           \A i \in DOMAIN others : others[i] = facts[i],
           NEW i, IsLatest(i, some), NEW k, IsLatest(k, others)
    PROVE  IsLatest(i, facts) \/ IsLatest(k, facts)
  BY DEF IsLatest, Timed

(* When one of the facts is seen later, it is the latest or nothing changes. *)
LEMMA LatestWhenLater ==
    ASSUME NEW facts, Timed(facts), NEW later, Timed(later), DOMAIN later = DOMAIN facts,
           NEW n \in DOMAIN facts, later[n].at >= facts[n].at,
           \A k \in DOMAIN facts : k # n => later[k] = facts[k],
           NEW i, IsLatest(i, facts)
    PROVE  IsLatest(i, later) \/ IsLatest(n, later)
  BY DEF IsLatest, Timed

-----------------------------------------------------------------------------
(* Tables of sources. *)

IsTable(rows) ==
    /\ rows \in [DOMAIN rows -> SourceRows]
    /\ DOMAIN rows \subseteq Nat
    /\ \A i \in DOMAIN rows : RetainedIn(rows[i]) # {}

(* What a row says does not depend on the job it belongs to. *)
SaysTheSame(row, other) == row.card = other.card /\ row.description = other.description

LEMMA EvidenceIsWhatIsSaid ==
    ASSUME NEW row, NEW other, SaysTheSame(row, other)
    PROVE  Evidence(row) = Evidence(other) /\ RetainedIn(row) = RetainedIn(other)
  BY DEF SaysTheSame, Evidence, RetainedIn

LEMMA EvidenceOfTable ==
    ASSUME NEW rows, IsTable(rows), NEW j
    PROVE  /\ Timed(EvidenceOf(rows, j))
           /\ DOMAIN EvidenceOf(rows, j) = SourcesOf(rows, j)
           /\ \A i \in SourcesOf(rows, j) :
                 i \in DOMAIN rows /\ EvidenceOf(rows, j)[i] = Evidence(rows[i])
  <1>1. /\ DOMAIN EvidenceOf(rows, j) = SourcesOf(rows, j)
        /\ \A i \in SourcesOf(rows, j) : EvidenceOf(rows, j)[i] = Evidence(rows[i])
    BY DEF EvidenceOf
  <1>2. \A i \in SourcesOf(rows, j) : i \in DOMAIN rows /\ rows[i] \in SourceRows
    BY DEF SourcesOf, IsTable
  <1>3. \A i \in SourcesOf(rows, j) : Evidence(rows[i]).at \in Nat
    BY <1>2, EvidenceIsTimed DEF IsTable
  <1>4. SourcesOf(rows, j) \subseteq Nat
    BY <1>2 DEF IsTable
  <1> QED
    BY <1>1, <1>2, <1>3, <1>4 DEF Timed

(* A job whose sources say the same in two tables is the same in both.     *)
Agree(rows, table, j) ==
    /\ SourcesOf(rows, j) = SourcesOf(table, j)
    /\ \A i \in SourcesOf(rows, j) : SaysTheSame(rows[i], table[i])

LEMMA AgreementDecides ==
    ASSUME NEW rows, NEW table, NEW j, Agree(rows, table, j)
    PROVE  /\ EvidenceOf(rows, j) = EvidenceOf(table, j)
           /\ LatestEvidence(rows, j) = LatestEvidence(table, j)
           /\ Canonical(rows, j) = Canonical(table, j)
  <1>1. SourcesOf(rows, j) = SourcesOf(table, j)
    BY DEF Agree
  <1>2. \A i \in SourcesOf(rows, j) :
           Evidence(rows[i]) = Evidence(table[i]) /\ rows[i].description = table[i].description
    BY EvidenceIsWhatIsSaid DEF Agree, SaysTheSame
  <1>3. EvidenceOf(rows, j) = EvidenceOf(table, j)
    BY <1>1, <1>2 DEF EvidenceOf
  <1>4. DescriptionsOf(rows, j) = DescriptionsOf(table, j)
    <2> DEFINE described(t) == {i \in SourcesOf(t, j) : t[i].description # Absent}
    <2>1. described(rows) = described(table)
      BY <1>1, <1>2
    <2>2. \A i \in described(rows) : rows[i].description = table[i].description
      BY <1>2
    <2> QED
      BY <2>1, <2>2 DEF DescriptionsOf
  <1> QED
    BY <1>3, <1>4 DEF LatestEvidence, Canonical

(* Moving the sources of a job changes nothing else. *)
LEMMA MovedTable ==
    ASSUME NEW rows, IsTable(rows), NEW j, NEW k \in Nat, j # k
    PROVE  /\ IsTable(Moved(rows, j, k))
           /\ DOMAIN Moved(rows, j, k) = DOMAIN rows
           /\ \A i \in DOMAIN rows :
                 /\ SaysTheSame(Moved(rows, j, k)[i], rows[i])
                 /\ Moved(rows, j, k)[i].platform = rows[i].platform
                 /\ Moved(rows, j, k)[i].lastCheckedAt = rows[i].lastCheckedAt
                 /\ Moved(rows, j, k)[i].job = IF rows[i].job = j THEN k ELSE rows[i].job
           /\ SourcesOf(Moved(rows, j, k), j) = {}
           /\ SourcesOf(Moved(rows, j, k), k) = SourcesOf(rows, j) \cup SourcesOf(rows, k)
           /\ \A h : h \notin {j, k} => Agree(Moved(rows, j, k), rows, h)
  <1> DEFINE moved == Moved(rows, j, k)
  <1>1. DOMAIN moved = DOMAIN rows
    BY DEF Moved
  <1>2. \A i \in DOMAIN rows : rows[i] \in SourceRows
    BY DEF IsTable
  <1>3. \A row \in SourceRows :
           LET there == [row EXCEPT !.job = k]
           IN  /\ there \in SourceRows
               /\ SaysTheSame(there, row)
               /\ there.platform = row.platform
               /\ there.lastCheckedAt = row.lastCheckedAt
               /\ there.job = k
    BY DEF SourceRows, SaysTheSame
  <1>4. \A i \in DOMAIN rows :
           moved[i] = IF rows[i].job = j THEN [rows[i] EXCEPT !.job = k] ELSE rows[i]
    BY DEF Moved
  <1>5. \A i \in DOMAIN rows :
           /\ moved[i] \in SourceRows
           /\ SaysTheSame(moved[i], rows[i])
           /\ moved[i].platform = rows[i].platform
           /\ moved[i].lastCheckedAt = rows[i].lastCheckedAt
           /\ moved[i].job = IF rows[i].job = j THEN k ELSE rows[i].job
    <2> SUFFICES ASSUME NEW i \in DOMAIN rows
                 PROVE  /\ moved[i] \in SourceRows
                        /\ SaysTheSame(moved[i], rows[i])
                        /\ moved[i].platform = rows[i].platform
                        /\ moved[i].lastCheckedAt = rows[i].lastCheckedAt
                        /\ moved[i].job = IF rows[i].job = j THEN k ELSE rows[i].job
      OBVIOUS
    <2>1. CASE rows[i].job = j
      BY <1>2, <1>3, <1>4, <2>1
    <2>2. CASE rows[i].job # j
      BY <1>2, <1>4, <2>2 DEF SaysTheSame
    <2> QED
      BY <2>1, <2>2
  <1>6. IsTable(moved)
    <2>1. moved = [i \in DOMAIN moved |-> moved[i]]
      BY DEF Moved
    <2>2. moved \in [DOMAIN moved -> SourceRows]
      BY <1>1, <1>5, <2>1
    <2>3. \A i \in DOMAIN moved : RetainedIn(moved[i]) # {}
      BY <1>1, <1>5, EvidenceIsWhatIsSaid DEF IsTable
    <2> QED
      BY <1>1, <2>2, <2>3 DEF IsTable
  <1>7. SourcesOf(moved, j) = {}
    BY <1>1, <1>5 DEF SourcesOf
  <1>8. SourcesOf(moved, k) = SourcesOf(rows, j) \cup SourcesOf(rows, k)
    BY <1>1, <1>5 DEF SourcesOf
  <1>9. \A h : h \notin {j, k} => Agree(moved, rows, h)
    BY <1>1, <1>5 DEF SourcesOf, Agree
  <1> HIDE DEF moved
  <1> QED
    BY <1>1, <1>5, <1>6, <1>7, <1>8, <1>9 DEF moved

-----------------------------------------------------------------------------
(* Reconciliation. *)

LEMMA RowsAreLive ==
    \A key, values :
        /\ JobRow(key, values) # Deleted
        /\ JobRow(key, values).identityKey = key
        /\ JobRow(key, values).values = values
  BY DEF JobRow, Deleted

(* The latest evidence of two jobs together is that of one of them. *)
LEMMA LatestOfMerged ==
    ASSUME NEW rows, IsTable(rows), NEW j, NEW k \in Nat, j # k,
           NEW i, IsLatest(i, EvidenceOf(rows, j)),
           NEW n, IsLatest(n, EvidenceOf(rows, k))
    PROVE  LET moved == Moved(rows, j, k)
           IN  /\ \E h : IsLatest(h, EvidenceOf(moved, k))
               /\ LatestEvidence(moved, k) \in {LatestEvidence(rows, j), LatestEvidence(rows, k)}
  <1> DEFINE moved == Moved(rows, j, k)
             both == EvidenceOf(moved, k)
             js == EvidenceOf(rows, j)
             ks == EvidenceOf(rows, k)
  <1>1. IsTable(moved)
    BY MovedTable
  <1>2. DOMAIN both = DOMAIN js \cup DOMAIN ks
    <2>1. SourcesOf(moved, k) = SourcesOf(rows, j) \cup SourcesOf(rows, k)
      BY MovedTable
    <2> QED
      BY <1>1, <2>1, EvidenceOfTable
  <1>3. (\A h \in DOMAIN js : js[h] = both[h]) /\ (\A h \in DOMAIN ks : ks[h] = both[h])
    <2>1. \A h \in DOMAIN rows : Evidence(moved[h]) = Evidence(rows[h])
      BY MovedTable, EvidenceIsWhatIsSaid
    <2> QED
      BY <1>1, <1>2, <2>1, EvidenceOfTable
  <1>4. Timed(both) /\ Timed(js) /\ Timed(ks)
    BY <1>1, EvidenceOfTable
  <1>5. IsLatest(i, both) \/ IsLatest(n, both)
    BY <1>2, <1>3, <1>4, LatestOfBoth
  <1>6. i \in DOMAIN js /\ n \in DOMAIN ks
    BY DEF IsLatest
  <1>7. Latest(js) = js[i] /\ Latest(ks) = ks[n]
    BY <1>4, LatestIsChosen
  <1>8. Latest(both) \in {both[i], both[n]}
    BY <1>4, <1>5, LatestIsChosen
  <1>9. Latest(both) \in {Latest(js), Latest(ks)}
    BY <1>3, <1>6, <1>7, <1>8
  <1> QED
    BY <1>5, <1>9 DEF LatestEvidence

(* Job j has new sources, those of the other jobs are as they were. *)
IsReconcilable(rows, j) ==
    /\ IsTable(rows)
    /\ j \in Live
    /\ \A i \in DOMAIN rows : rows[i].job \in Live
    /\ \A k : k # j => Agree(rows, sources, k)
    /\ \E i : IsLatest(i, EvidenceOf(rows, j))

(* The jobs have different keys, and those of their latest evidence. *)
LEMMA KeyHasOneJob ==
    ASSUME JobsFollowEvidence, NEW j \in Live, NEW k \in Live,
           jobs[j].identityKey = jobs[k].identityKey
    PROVE  j = k
  BY DEF JobsFollowEvidence, JobsWith

(* After it the sources are those of rows, in perhaps another job, and the *)
(* jobs follow them.                                                       *)
Reconciled(rows) ==
    /\ IsTable(sources')
    /\ DOMAIN sources' = DOMAIN rows
    /\ \A i \in DOMAIN rows :
          /\ SaysTheSame(sources'[i], rows[i])
          /\ sources'[i].platform = rows[i].platform
          /\ sources'[i].lastCheckedAt = rows[i].lastCheckedAt
          /\ sources'[i].job \in Live'
    /\ DOMAIN jobs' = DOMAIN jobs
    /\ JobsFollowEvidence'
    /\ JobsHaveLatest'

LEMMA ReconcileFollows ==
    ASSUME TypeOK, JobsFollowEvidence, JobsHaveLatest,
           NEW rows, NEW j, IsReconcilable(rows, j), Reconcile(rows, j)
    PROVE  Reconciled(rows)
  <1> DEFINE key == JobKey(LatestEvidence(rows, j))
             others == JobsWith(key) \ {j}
  <1>1. \A k \in Live \ {j} :
           /\ SourcesOf(rows, k) = SourcesOf(sources, k)
           /\ SourcesOf(rows, k) # {}
           /\ jobs[k].identityKey = JobKey(LatestEvidence(rows, k))
           /\ jobs[k].values = Canonical(rows, k)
           /\ \E i : IsLatest(i, EvidenceOf(rows, k))
    BY AgreementDecides DEF IsReconcilable, Agree, JobsFollowEvidence, JobsHaveLatest
  <1>2. j \in DOMAIN jobs /\ j \in Live /\ Live \subseteq Nat
    BY DEF IsReconcilable, Live, TypeOK
  <1>3. PICK i : IsLatest(i, EvidenceOf(rows, j))
    BY DEF IsReconcilable
  <1>4. SourcesOf(rows, j) # {}
    BY <1>3, EvidenceOfTable DEF IsReconcilable, IsLatest
  <1>5. CASE others = {} /\ sources' = rows
              /\ jobs' = [jobs EXCEPT ![j] = JobRow(key, Canonical(rows, j))]
    <2>1. /\ DOMAIN jobs' = DOMAIN jobs
          /\ jobs'[j] # Deleted
          /\ jobs'[j].identityKey = key
          /\ jobs'[j].values = Canonical(rows, j)
          /\ \A k \in DOMAIN jobs : k # j => jobs'[k] = jobs[k]
      BY <1>2, <1>5, RowsAreLive
    <2>2. Live' = Live
      BY <1>2, <2>1 DEF Live
    <2>3. JobsFollowEvidence'
      <3> SUFFICES ASSUME NEW k \in Live
                   PROVE  /\ SourcesOf(rows, k) # {}
                          /\ jobs'[k].identityKey = JobKey(LatestEvidence(rows, k))
                          /\ jobs'[k].values = Canonical(rows, k)
                          /\ {h \in Live : jobs'[h].identityKey = jobs'[k].identityKey} = {k}
        BY <1>5, <2>2 DEF JobsFollowEvidence, JobsWith
      <3>1. \A h \in Live : h # j => jobs'[h] = jobs[h] /\ jobs[h].identityKey # key
        BY <1>5, <2>1 DEF JobsWith, Live
      <3>2. \A h \in Live : jobs'[h].identityKey = jobs'[k].identityKey => h = k
        BY <2>1, <3>1, KeyHasOneJob
      <3> QED
        BY <1>1, <1>4, <2>1, <3>1, <3>2
    <2>4. JobsHaveLatest'
      <3>1. \A k \in Live : \E h : IsLatest(h, EvidenceOf(rows, k))
        BY <1>1, <1>3
      <3>2. \A k \in Live : \E h \in DOMAIN rows : IsLatest(h, EvidenceOf(rows, k))
        BY <3>1, EvidenceOfTable DEF IsReconcilable, IsLatest
      <3> QED
        BY <1>5, <2>2, <3>2 DEF JobsHaveLatest
    <2> QED
      BY <1>5, <2>1, <2>2, <2>3, <2>4 DEF IsReconcilable, SaysTheSame, Reconciled
  <1>6. ASSUME NEW owner \in others, Merge(rows, j, owner)
        PROVE  Reconciled(rows)
    <2> DEFINE moved == Moved(rows, j, owner)
    <2>1. owner \in Live \ {j} /\ owner \in DOMAIN jobs /\ owner \in Nat /\ owner # j
      BY <1>2 DEF JobsWith, Live
    <2>2. jobs[owner].identityKey = key
      BY DEF JobsWith
    <2>3. /\ DOMAIN jobs' = DOMAIN jobs
          /\ jobs'[j] = Deleted
          /\ jobs'[owner] # Deleted
          /\ jobs'[owner].identityKey = key
          /\ jobs'[owner].values = Canonical(moved, owner)
          /\ \A k \in DOMAIN jobs : k \notin {j, owner} => jobs'[k] = jobs[k]
      BY <1>2, <1>6, <2>1, <2>2, RowsAreLive DEF Merge
    <2>4. Live' = Live \ {j}
      BY <1>2, <2>1, <2>3 DEF Live
    <2>5. sources' = moved
      BY <1>6 DEF Merge
    <2>6. IsTable(rows)
      BY DEF IsReconcilable
    <2>7. /\ IsTable(moved)
          /\ DOMAIN moved = DOMAIN rows
          /\ \A n \in DOMAIN rows :
                /\ SaysTheSame(moved[n], rows[n])
                /\ moved[n].platform = rows[n].platform
                /\ moved[n].lastCheckedAt = rows[n].lastCheckedAt
                /\ moved[n].job = IF rows[n].job = j THEN owner ELSE rows[n].job
          /\ SourcesOf(moved, owner) = SourcesOf(rows, j) \cup SourcesOf(rows, owner)
          /\ \A k : k \notin {j, owner} => Agree(moved, rows, k)
      BY <2>1, <2>6, MovedTable
    <2>8. \A n \in DOMAIN rows : moved[n].job \in Live'
      BY <2>1, <2>4, <2>7 DEF IsReconcilable
    <2>9. /\ \E n : IsLatest(n, EvidenceOf(moved, owner))
          /\ JobKey(LatestEvidence(moved, owner)) = key
      <3>1. PICK n : IsLatest(n, EvidenceOf(rows, owner))
        BY <1>1, <2>1
      <3>2. JobKey(LatestEvidence(rows, owner)) = key
        BY <1>1, <2>1, <2>2
      <3> QED
        BY <1>3, <2>1, <2>6, <3>1, <3>2, LatestOfMerged
    <2>10. \A k \in Live' \ {owner} :
              /\ SourcesOf(moved, k) # {}
              /\ jobs'[k].identityKey = JobKey(LatestEvidence(moved, k))
              /\ jobs'[k].values = Canonical(moved, k)
              /\ \E n : IsLatest(n, EvidenceOf(moved, k))
              /\ jobs'[k] = jobs[k]
      <3> SUFFICES ASSUME NEW k \in Live' \ {owner}
                   PROVE  /\ SourcesOf(moved, k) # {}
                          /\ jobs'[k].identityKey = JobKey(LatestEvidence(moved, k))
                          /\ jobs'[k].values = Canonical(moved, k)
                          /\ \E n : IsLatest(n, EvidenceOf(moved, k))
                          /\ jobs'[k] = jobs[k]
        OBVIOUS
      <3>1. k \in Live \ {j} /\ k \notin {j, owner}
        BY <2>4
      <3>2. Agree(moved, rows, k)
        BY <2>7, <3>1
      <3>3. jobs'[k] = jobs[k]
        BY <2>3, <3>1 DEF Live
      <3> QED
        BY <1>1, <3>1, <3>2, <3>3, AgreementDecides DEF Agree
    <2>11. SourcesOf(moved, owner) # {}
      BY <1>4, <2>7
    <2>12. JobsFollowEvidence'
      <3> SUFFICES ASSUME NEW k \in Live'
                   PROVE  /\ SourcesOf(moved, k) # {}
                          /\ jobs'[k].identityKey = JobKey(LatestEvidence(moved, k))
                          /\ jobs'[k].values = Canonical(moved, k)
                          /\ {h \in Live' : jobs'[h].identityKey = jobs'[k].identityKey} = {k}
        BY <2>5 DEF JobsFollowEvidence, JobsWith
      <3>1. \A h \in Live' : h \in Live /\ jobs'[h].identityKey = jobs[h].identityKey
        BY <2>2, <2>3, <2>4, <2>10
      <3>2. \A h \in Live' : jobs'[h].identityKey = jobs'[k].identityKey => h = k
        BY <3>1, KeyHasOneJob
      <3> QED
        BY <2>3, <2>9, <2>10, <2>11, <3>2
    <2>13. JobsHaveLatest'
      <3>1. \A k \in Live' : \E n : IsLatest(n, EvidenceOf(moved, k))
        BY <2>9, <2>10
      <3>2. \A k \in Live' : \E n \in DOMAIN moved : IsLatest(n, EvidenceOf(moved, k))
        BY <2>7, <3>1, EvidenceOfTable DEF IsLatest
      <3> QED
        BY <2>5, <3>2 DEF JobsHaveLatest
    <2> HIDE DEF moved
    <2> QED
      BY <2>3, <2>5, <2>7, <2>8, <2>12, <2>13 DEF Reconciled
  <1> QED
    BY <1>5, <1>6 DEF Reconcile

-----------------------------------------------------------------------------
(* What an observation does to the table of sources; first the row of a    *)
(* known source.                                                           *)

LEMMA RowWithFields ==
    ASSUME NEW row \in SourceRows, NEW kind \in Kinds, NEW o \in Observations[kind]
    PROVE  /\ RowWith(row, kind, o) \in SourceRows
           /\ RowWith(row, kind, o).job = row.job
           /\ RowWith(row, kind, o).platform = row.platform
           /\ RowWith(row, kind, o).lastCheckedAt = LaterOf(row.lastCheckedAt, o.at)
           /\ RowWith(row, kind, o)[kind] = o
           /\ \A other \in Kinds : other # kind => RowWith(row, kind, o)[other] = row[other]
  <1>1. LaterOf(row.lastCheckedAt, o.at) \in Nat
    BY ObservationsAreFacts DEF LaterOf, SourceRows, Kinds, Observations
  <1>2. CASE kind = "card"
    <2>1. RowWith(row, kind, o) =
             [row EXCEPT !.card = o, !.lastCheckedAt = LaterOf(row.lastCheckedAt, o.at)]
      BY <1>2 DEF SourceRows, RowWith
    <2>2. o \in Observations.card
      BY <1>2
    <2> QED
      BY <1>1, <1>2, <2>1, <2>2 DEF SourceRows, Kinds
  <1>3. CASE kind = "description"
    <2>1. RowWith(row, kind, o) =
             [row EXCEPT !.description = o, !.lastCheckedAt = LaterOf(row.lastCheckedAt, o.at)]
      BY <1>3 DEF SourceRows, RowWith
    <2>2. o \in Observations.description
      BY <1>3
    <2> QED
      BY <1>1, <1>3, <2>1, <2>2 DEF SourceRows, Kinds
  <1> QED
    BY <1>2, <1>3 DEF Kinds

(* What it retains is the observation and what was retained of the other   *)
(* kind; its evidence is as late as before, or later.                      *)
LEMMA RowWithRetains ==
    ASSUME NEW row \in SourceRows, NEW kind \in Kinds, NEW o \in Observations[kind],
           RetainedIn(row) # {}, row[kind] # Absent => o.at >= row[kind].at
    PROVE  /\ o \in RetainedIn(RowWith(row, kind, o))
           /\ RetainedIn(RowWith(row, kind, o)) \subseteq RetainedIn(row) \cup {o}
           /\ Evidence(RowWith(row, kind, o)).at >= Evidence(row).at
  <1> DEFINE new == RowWith(row, kind, o)
  <1>1. o \in Facts /\ o.at \in Nat /\ o # Absent
    BY ObservationsAreFacts DEF Kinds, Observations
  <1>2. /\ new \in SourceRows
        /\ new[kind] = o
        /\ \A other \in Kinds : other # kind => new[other] = row[other]
    BY RowWithFields
  <1>3. /\ RetainedIn(row) = {row[k] : k \in Kinds} \ {Absent}
        /\ RetainedIn(new) = {new[k] : k \in Kinds} \ {Absent}
    BY DEF RetainedIn, Kinds
  <1> HIDE DEF new
  <1>4. o \in RetainedIn(new) /\ RetainedIn(new) \subseteq RetainedIn(row) \cup {o}
    BY <1>1, <1>2, <1>3
  <1>5. PICK old \in RetainedIn(row) : Evidence(row).at = old.at
    BY EvidenceIsTimed
  <1>6. /\ Evidence(new).at \in Nat
        /\ \A r \in RetainedIn(new) : r.at \in Nat /\ r.at <= Evidence(new).at
    BY <1>2, <1>4, EvidenceIsTimed
  <1>7. old.at \in Nat
    BY EvidenceIsTimed
  <1>8. old \in RetainedIn(new) \/ old.at <= o.at
    BY <1>2, <1>3
  <1>9. Evidence(new).at >= Evidence(row).at
    BY <1>1, <1>4, <1>5, <1>6, <1>7, <1>8
  <1> QED
    BY <1>4, <1>9 DEF new

LEMMA SourcesAreTable ==
    ASSUME TypeOK
    PROVE  /\ IsTable(sources)
           /\ \A i \in DOMAIN sources : sources[i].job \in Live
           /\ \A i \in DOMAIN sources : RetainedIn(sources[i]) = Retained(i)
  BY DEF TypeOK, IsTable, Retained, RetainedIn

LEMMA UpdatedTable ==
    ASSUME TypeOK, JobsHaveLatest, NEW i \in DOMAIN sources, NEW kind \in Kinds,
           NEW o \in Observations[kind], Stored(i, kind) # Absent => o.at >= Stored(i, kind).at
    PROVE  /\ DOMAIN Updated(i, kind, o) = DOMAIN sources
           /\ Updated(i, kind, o)[i] = RowWith(sources[i], kind, o)
           /\ \A k \in DOMAIN sources : k # i => Updated(i, kind, o)[k] = sources[k]
           /\ \A k \in DOMAIN sources : Updated(i, kind, o)[k].job = sources[k].job
           /\ IsReconcilable(Updated(i, kind, o), sources[i].job)
  <1> DEFINE rows == Updated(i, kind, o)
             j == sources[i].job
  <1>1. /\ DOMAIN rows = DOMAIN sources
        /\ rows[i] = RowWith(sources[i], kind, o)
        /\ \A k \in DOMAIN sources : k # i => rows[k] = sources[k]
        /\ rows = [k \in DOMAIN rows |-> rows[k]]
    <2>1. rows = [sources EXCEPT ![i] = RowWith(sources[i], kind, o)]
      BY DEF Updated, RowWith
    <2> QED
      BY <2>1 DEF TypeOK
  <1>2. sources[i] \in SourceRows /\ RetainedIn(sources[i]) # {}
    BY SourcesAreTable DEF IsTable
  <1>3. RowWith(sources[i], kind, o) \in SourceRows /\ RowWith(sources[i], kind, o).job = j
    BY <1>2, RowWithFields
  <1>4. /\ RetainedIn(RowWith(sources[i], kind, o)) # {}
        /\ Evidence(RowWith(sources[i], kind, o)).at >= Evidence(sources[i]).at
    BY <1>2, RowWithRetains DEF Stored
  <1> HIDE DEF rows
  <1>5. \A k \in DOMAIN sources : rows[k].job = sources[k].job
    BY <1>1, <1>3
  <1>6. IsTable(rows)
    <2>1. \A k \in DOMAIN rows : rows[k] \in SourceRows /\ RetainedIn(rows[k]) # {}
      BY <1>1, <1>3, <1>4, SourcesAreTable DEF IsTable
    <2>2. rows \in [DOMAIN rows -> SourceRows]
      BY <1>1, <2>1
    <2> QED
      BY <1>1, <2>1, <2>2, SourcesAreTable DEF IsTable
  <1>7. \A k : SourcesOf(rows, k) = SourcesOf(sources, k)
    BY <1>1, <1>5 DEF SourcesOf
  <1>8. \A k : k # j => Agree(rows, sources, k)
    <2>1. \A k : k # j => i \notin SourcesOf(rows, k)
      BY <1>5 DEF SourcesOf
    <2>2. \A k : SourcesOf(rows, k) \subseteq DOMAIN sources
      BY <1>1 DEF SourcesOf
    <2> QED
      BY <1>1, <1>7, <2>1, <2>2 DEF Agree, SaysTheSame
  <1>9. \E k : IsLatest(k, EvidenceOf(rows, j))
    <2> DEFINE before == EvidenceOf(sources, j)
               after == EvidenceOf(rows, j)
    <2>1. /\ Timed(before) /\ Timed(after)
          /\ DOMAIN before = SourcesOf(sources, j)
          /\ DOMAIN after = SourcesOf(sources, j)
          /\ \A k \in SourcesOf(sources, j) :
                k \in DOMAIN sources /\ before[k] = Evidence(sources[k]) /\ after[k] = Evidence(rows[k])
      BY <1>6, <1>7, SourcesAreTable, EvidenceOfTable
    <2>2. i \in DOMAIN before /\ after[i].at >= before[i].at
      BY <1>1, <1>4, <2>1 DEF SourcesOf
    <2>3. \A k \in DOMAIN before : k # i => after[k] = before[k]
      BY <1>1, <2>1
    <2>4. PICK k : IsLatest(k, before)
      BY SourcesAreTable DEF JobsHaveLatest
    <2> HIDE DEF before, after
    <2>5. IsLatest(k, after) \/ IsLatest(i, after)
      BY <2>1, <2>2, <2>3, <2>4, LatestWhenLater
    <2> QED
      BY <2>5 DEF after
  <1>10. j \in Live /\ \A k \in DOMAIN rows : rows[k].job \in Live
    BY <1>1, <1>5, SourcesAreTable
  <1>11. IsReconcilable(rows, j)
    BY <1>6, <1>8, <1>9, <1>10 DEF IsReconcilable
  <1> QED
    BY <1>1, <1>5, <1>11 DEF rows

(* The row of a new source. *)
LEMMA InsertedTable ==
    ASSUME TypeOK, NEW n \in NextId(sources), NEW kind \in Kinds, NEW o \in Observations[kind],
           NEW j \in Nat
    PROVE  LET rows == Inserted(sources, n, SourceRow(kind, o, j))
           IN  /\ IsTable(rows)
               /\ n \notin DOMAIN sources
               /\ DOMAIN rows = DOMAIN sources \cup {n}
               /\ rows[n] = SourceRow(kind, o, j)
               /\ RetainedIn(rows[n]) = {o}
               /\ Evidence(rows[n]) = o
               /\ \A i \in DOMAIN sources : rows[i] = sources[i]
               /\ SourcesOf(rows, j) = SourcesOf(sources, j) \cup {n}
               /\ \A k : k # j => Agree(rows, sources, k)
  <1> DEFINE rows == Inserted(sources, n, SourceRow(kind, o, j))
  <1>1. /\ n \in Nat
        /\ n \notin DOMAIN sources
        /\ DOMAIN rows = DOMAIN sources \cup {n}
        /\ rows[n] = SourceRow(kind, o, j)
        /\ \A i \in DOMAIN sources : rows[i] = sources[i]
        /\ rows = [i \in DOMAIN rows |-> rows[i]]
    BY LibraryAssumption DEF NextId, Inserted
  <1>2. o \in Facts /\ o.at \in Nat /\ o # Absent /\ o.platform \in Words
    BY ObservationsAreFacts DEF Kinds, Observations, Facts
  <1>3. /\ rows[n] \in SourceRows
        /\ rows[n].job = j
        /\ RetainedIn(rows[n]) = {o}
        /\ Evidence(rows[n]) = o
    <2>1. CASE kind = "card"
      <3>1. o \in Observations.card
        BY <2>1
      <3>2. rows[n] = [job |-> j, platform |-> o.platform, lastCheckedAt |-> o.at,
                       card |-> o, description |-> Absent]
        BY <1>1, <2>1 DEF SourceRow
      <3> HIDE DEF rows
      <3> QED
        BY <1>2, <3>1, <3>2 DEF SourceRows, RetainedIn, Evidence
    <2>2. CASE kind = "description"
      <3>1. o \in Observations.description
        BY <2>2
      <3>2. rows[n] = [job |-> j, platform |-> o.platform, lastCheckedAt |-> o.at,
                       card |-> Absent, description |-> o]
        BY <1>1, <2>2 DEF SourceRow
      <3> HIDE DEF rows
      <3> QED
        BY <1>2, <3>1, <3>2 DEF SourceRows, RetainedIn, Evidence
    <2> QED
      BY <2>1, <2>2 DEF Kinds
  <1> HIDE DEF rows
  <1>4. IsTable(rows)
    <2>1. \A k \in DOMAIN rows : rows[k] \in SourceRows /\ RetainedIn(rows[k]) # {}
      BY <1>1, <1>3, SourcesAreTable DEF IsTable
    <2>2. rows \in [DOMAIN rows -> SourceRows]
      BY <1>1, <2>1
    <2> QED
      BY <1>1, <2>1, <2>2, SourcesAreTable DEF IsTable
  <1>5. SourcesOf(rows, j) = SourcesOf(sources, j) \cup {n}
    BY <1>1, <1>3 DEF SourcesOf
  <1>6. \A k : k # j => Agree(rows, sources, k)
    BY <1>1, <1>3 DEF SourcesOf, Agree, SaysTheSame
  <1> QED
    BY <1>1, <1>3, <1>4, <1>5, <1>6 DEF rows

-----------------------------------------------------------------------------
(* Identities. *)

(* RetainedIsFiled and KeysAreOwned of any table and any identities. *)
IsFiled(rows, ids) ==
    /\ \A i \in DOMAIN rows :
          \A o \in RetainedIn(rows[i]) :
             /\ o.platform = rows[i].platform
             /\ o.at <= rows[i].lastCheckedAt
             /\ [key |-> SourceKey(o), source |-> i] \in ids
    /\ \A r \in ids :
          /\ r.source \in DOMAIN rows
          /\ r = [key |-> r.key, source |-> r.source]
          /\ r.key[1] = rows[r.source].platform
          /\ \A s \in ids : s.key = r.key => s = r

LEMMA LibraryIsFiled ==
    /\ TypeOK /\ RetainedIsFiled /\ KeysAreOwned => IsFiled(sources, identities)
    /\ IsFiled(sources', identities') =>
          RetainedIsFiled' /\ KeysAreOwned' /\ \A r \in identities' : r.source \in DOMAIN sources'
  BY DEF TypeOK, RetainedIsFiled, KeysAreOwned, IsFiled, Retained, RetainedIn

(* The key of a source's evidence is that of something it retains: a       *)
(* description always has a link.                                          *)
LEMMA EvidenceIsFiled ==
    ASSUME NEW rows, IsTable(rows), NEW ids, IsFiled(rows, ids), NEW i \in DOMAIN rows
    PROVE  /\ Evidence(rows[i]).platform = rows[i].platform
           /\ [key |-> SourceKey(Evidence(rows[i])), source |-> i] \in ids
  <1> DEFINE c == rows[i].card
             d == rows[i].description
             e == Evidence(rows[i])
  <1>1. rows[i] \in SourceRows
    BY DEF IsTable
  <1>2. /\ c # Absent => c \in Facts
        /\ d # Absent => d \in Facts /\ d.jobUrl # Absent
    BY <1>1, ObservationsAreFacts DEF SourceRows
  <1>3. \A o \in RetainedIn(rows[i]) :
           o.platform = rows[i].platform /\ [key |-> SourceKey(o), source |-> i] \in ids
    BY DEF IsFiled
  <1>4. \E o \in RetainedIn(rows[i]) : e.platform = o.platform /\ SourceKey(e) = SourceKey(o)
    <2>1. CASE d = Absent
      BY <2>1 DEF Evidence, RetainedIn, IsTable
    <2>2. CASE d # Absent /\ c = Absent
      BY <2>2 DEF Evidence, RetainedIn
    <2>3. CASE d # Absent /\ c # Absent
      <3>1. c \in RetainedIn(rows[i]) /\ d \in RetainedIn(rows[i]) /\ c.platform = d.platform
        BY <1>3, <2>3 DEF RetainedIn
      <3>2. /\ e.platform = d.platform
            /\ e.externalJobId = OrElse(d.externalJobId, c.externalJobId)
            /\ e.jobUrl = d.jobUrl
        BY <1>2, <2>3, DescribedIs DEF Evidence
      <3>3. CASE d.externalJobId # Absent
        BY <3>1, <3>2, <3>3 DEF SourceKey, OrElse
      <3>4. CASE d.externalJobId = Absent /\ c.externalJobId # Absent
        BY <3>1, <3>2, <3>4 DEF SourceKey, OrElse
      <3>5. CASE d.externalJobId = Absent /\ c.externalJobId = Absent
        BY <1>2, <2>3, <3>1, <3>2, <3>5 DEF SourceKey, OrElse
      <3> QED
        BY <3>3, <3>4, <3>5
    <2> QED
      BY <2>1, <2>2, <2>3
  <1> QED
    BY <1>3, <1>4

(* Two sources never have the same source key, so jobs of different        *)
(* sources have the same key only by a complete identity.                  *)
LEMMA SameKeyIsComplete ==
    ASSUME NEW rows, IsTable(rows), NEW ids, IsFiled(rows, ids),
           NEW i \in DOMAIN rows, NEW k \in DOMAIN rows, i # k,
           JobKey(Evidence(rows[i])) = JobKey(Evidence(rows[k]))
    PROVE  IsComplete(Evidence(rows[i])) /\ IsComplete(Evidence(rows[k]))
  <1> DEFINE e == Evidence(rows[i])
             f == Evidence(rows[k])
  <1>1. SourceKey(e) # SourceKey(f)
    <2>1. /\ [key |-> SourceKey(e), source |-> i] \in ids
          /\ [key |-> SourceKey(f), source |-> k] \in ids
      BY EvidenceIsFiled
    <2> QED
      BY <2>1 DEF IsFiled
  <1>2. \A o, c, t, l : SourceKey(o) # <<c, t, l>>
    BY DEF SourceKey
  <1> HIDE DEF e, f
  <1> QED
    BY <1>1, <1>2 DEF JobKey, e, f

(* A row that has an observation more, or in the place of an older one.    *)
LEMMA ObservationIsFiled ==
    ASSUME NEW rows, NEW ids, IsFiled(rows, ids), NEW i, NEW o,
           NEW new, DOMAIN new = DOMAIN rows \cup {i},
           \A k \in DOMAIN rows : k # i => new[k] = rows[k],
           \A r \in ids : r.key = SourceKey(o) => r.source = i,
           o.platform = new[i].platform,
           o.at <= new[i].lastCheckedAt,
           \A old \in RetainedIn(new[i]) \ {o} :
              i \in DOMAIN rows /\ old \in RetainedIn(rows[i]) /\ old.at <= new[i].lastCheckedAt,
           i \in DOMAIN rows => new[i].platform = rows[i].platform
    PROVE  IsFiled(new, ids \cup {[key |-> SourceKey(o), source |-> i]})
  <1> DEFINE ours == [key |-> SourceKey(o), source |-> i]
  <1>1. SourceKey(o)[1] = o.platform
    BY DEF SourceKey
  <1>2. \A k \in DOMAIN new : \A old \in RetainedIn(new[k]) :
           /\ old.platform = new[k].platform
           /\ old.at <= new[k].lastCheckedAt
           /\ [key |-> SourceKey(old), source |-> k] \in ids \cup {ours}
    BY DEF IsFiled
  <1>3. \A r \in ids \cup {ours} :
           /\ r.source \in DOMAIN new
           /\ r = [key |-> r.key, source |-> r.source]
           /\ r.key[1] = new[r.source].platform
    BY <1>1 DEF IsFiled
  <1>4. \A r, s \in ids \cup {ours} : s.key = r.key => s = r
    BY <1>3 DEF IsFiled
  <1> QED
    BY <1>2, <1>3, <1>4 DEF IsFiled

(* Moving sources from job to job changes nothing about their identities.  *)
LEMMA MovedIsFiled ==
    ASSUME NEW rows, NEW ids, IsFiled(rows, ids), NEW new, DOMAIN new = DOMAIN rows,
           \A i \in DOMAIN rows :
              /\ SaysTheSame(new[i], rows[i])
              /\ new[i].platform = rows[i].platform
              /\ new[i].lastCheckedAt = rows[i].lastCheckedAt
    PROVE  IsFiled(new, ids)
  <1>1. \A i \in DOMAIN rows : RetainedIn(new[i]) = RetainedIn(rows[i])
    BY EvidenceIsWhatIsSaid
  <1> QED
    BY <1>1 DEF IsFiled

-----------------------------------------------------------------------------
(* What reconciliation does to readers and to groups of sources. *)

LEMMA ReconcileRecords ==
    ASSUME TypeOK, NEW rows, NEW j \in Live, Reconcile(rows, j),
           NEW k \in Live \cup Live',
           k \notin Live \cap Live' \/ Content(jobs'[k].values) # Content(jobs[k].values)
    PROVE  JobChanged(j)
  <1> DEFINE key == JobKey(LatestEvidence(rows, j))
             others == JobsWith(key) \ {j}
  <1>1. j \in DOMAIN jobs
    BY DEF Live
  <1>2. CASE jobs' = [jobs EXCEPT ![j] = JobRow(key, Canonical(rows, j))]
    <2>1. /\ DOMAIN jobs' = DOMAIN jobs
          /\ jobs'[j] # Deleted
          /\ \A h \in DOMAIN jobs : h # j => jobs'[h] = jobs[h]
      BY <1>1, <1>2, RowsAreLive
    <2>2. Live' = Live
      BY <1>1, <2>1 DEF Live
    <2>3. k = j
      BY <2>1, <2>2 DEF Live
    <2> QED
      BY <2>2, <2>3 DEF JobChanged
  <1>3. ASSUME NEW owner \in others, Merge(rows, j, owner) PROVE jobs'[j] = Deleted
    <2>1. owner # j
      OBVIOUS
    <2> QED
      BY <1>1, <1>3, <2>1 DEF Merge
  <1> QED
    BY <1>2, <1>3 DEF Reconcile, JobChanged

LEMMA LatestIsOfSource ==
    ASSUME NEW rows, IsTable(rows), NEW j, \E i : IsLatest(i, EvidenceOf(rows, j))
    PROVE  \E i \in DOMAIN rows : rows[i].job = j /\ LatestEvidence(rows, j) = Evidence(rows[i])
  <1>1. PICK i : IsLatest(i, EvidenceOf(rows, j))
    OBVIOUS
  <1>2. i \in SourcesOf(rows, j)
    BY <1>1, EvidenceOfTable DEF IsLatest
  <1>3. LatestEvidence(rows, j) = EvidenceOf(rows, j)[i]
    BY <1>1, EvidenceOfTable, LatestIsChosen DEF LatestEvidence
  <1>4. i \in DOMAIN rows /\ rows[i].job = j
    BY <1>2 DEF SourcesOf
  <1> QED
    BY <1>2, <1>3, <1>4, EvidenceOfTable

LEMMA ReconcileGroups ==
    ASSUME TypeOK, JobsFollowEvidence, JobsHaveLatest,
           NEW rows, NEW j, IsReconcilable(rows, j), Reconcile(rows, j),
           NEW ids, IsFiled(rows, ids), NEW i \in DOMAIN rows, NEW k \in DOMAIN rows,
           rows[i].job # rows[k].job, sources'[i].job = sources'[k].job
    PROVE  IsComplete(LatestEvidence(sources', sources'[i].job))
  <1> DEFINE key == JobKey(LatestEvidence(rows, j))
  <1>1. PICK owner \in JobsWith(key) \ {j} : Merge(rows, j, owner)
    BY DEF Reconcile
  <1>2. /\ owner \in Live /\ owner \in Nat /\ owner # j
        /\ jobs[owner].identityKey = key
    BY DEF JobsWith, Live, TypeOK
  <1>3. IsTable(rows) /\ sources' = Moved(rows, j, owner)
    BY <1>1 DEF Merge, IsReconcilable
  <1>4. sources'[i].job = owner
    BY <1>2, <1>3, MovedTable
  <1>5. Agree(rows, sources, owner)
    BY <1>2 DEF IsReconcilable
  <1>6. JobKey(LatestEvidence(rows, owner)) = key
    BY <1>2, <1>5, AgreementDecides DEF JobsFollowEvidence
  <1>7. PICK n : IsLatest(n, EvidenceOf(rows, owner))
    BY <1>2, <1>5, AgreementDecides DEF JobsHaveLatest
  <1>8. PICK m : IsLatest(m, EvidenceOf(rows, j))
    BY DEF IsReconcilable
  <1>9. LatestEvidence(sources', owner) \in {LatestEvidence(rows, j), LatestEvidence(rows, owner)}
    BY <1>2, <1>3, <1>7, <1>8, LatestOfMerged
  <1>10. PICK a \in DOMAIN rows :
            rows[a].job = j /\ LatestEvidence(rows, j) = Evidence(rows[a])
    BY <1>3, <1>8, LatestIsOfSource
  <1>11. PICK b \in DOMAIN rows :
            rows[b].job = owner /\ LatestEvidence(rows, owner) = Evidence(rows[b])
    BY <1>3, <1>7, LatestIsOfSource
  <1>12. IsComplete(Evidence(rows[a])) /\ IsComplete(Evidence(rows[b]))
    BY <1>2, <1>3, <1>6, <1>10, <1>11, SameKeyIsComplete
  <1> QED
    BY <1>4, <1>9, <1>10, <1>11, <1>12

-----------------------------------------------------------------------------
(* The invariant of the tables, and the steps that change them. *)

TablesOK ==
    /\ IsTable(sources)
    /\ \A i \in DOMAIN sources : sources[i].job \in Live
    /\ DOMAIN jobs \subseteq Nat
    /\ IsFiled(sources, identities)
    /\ JobsFollowEvidence
    /\ JobsHaveLatest

CountersOK ==
    /\ changes \in Nat
    /\ owed \in BOOLEAN
    /\ saves \in 0 .. MaxSaves
    /\ crashes \in 0 .. MaxCrashes

LEMMA IInvIsTablesAndCounters ==
    /\ IInv => TablesOK /\ CountersOK
    /\ TablesOK' /\ CountersOK' => IInv'
  <1>1. IInv => TablesOK /\ CountersOK
    BY SourcesAreTable, LibraryIsFiled DEF IInv, TablesOK, CountersOK, TypeOK
  <1>2. ASSUME TablesOK', CountersOK' PROVE IInv'
    <2>1. RetainedIsFiled' /\ KeysAreOwned' /\ \A r \in identities' : r.source \in DOMAIN sources'
      BY <1>2, LibraryIsFiled DEF TablesOK
    <2>2. TypeOK'
      BY <1>2, <2>1 DEF TablesOK, CountersOK, TypeOK, IsTable, RetainedIn, Retained
    <2> QED
      BY <1>2, <2>1, <2>2 DEF TablesOK, IInv
  <1> QED
    BY <1>1, <1>2

(* An observation of a known source, unless it is stale. *)
LEMMA KnownStep ==
    ASSUME IInv, NEW i \in DOMAIN sources, NEW kind \in Kinds, NEW o \in Observations[kind],
           o.platform = sources[i].platform,
           \A r \in identities : r.key = SourceKey(o) => r.source = i,
           ~IsStale(i, kind, o),
           Reconcile(Updated(i, kind, o), sources[i].job),
           identities' = identities \cup {[key |-> SourceKey(o), source |-> i]}
    PROVE  /\ TablesOK'
           /\ MovesForward
           /\ GroupsComplete
           /\ (\E k \in Live \cup Live' :
                  k \notin Live \cap Live' \/ Content(jobs'[k].values) # Content(jobs[k].values))
              => JobChanged(sources[i].job)
  <1> DEFINE rows == Updated(i, kind, o)
             j == sources[i].job
             row == sources[i]
  <1>1. /\ TypeOK /\ JobsFollowEvidence /\ JobsHaveLatest /\ IsFiled(sources, identities)
        /\ IsTable(sources)
    BY LibraryIsFiled, SourcesAreTable DEF IInv
  <1>2. row \in SourceRows /\ RetainedIn(row) # {} /\ row.lastCheckedAt \in Nat
    BY <1>1 DEF IsTable, SourceRows
  <1>3. \A k \in Kinds : row[k] # Absent => row[k] \in RetainedIn(row) /\ row[k].at \in Nat
    BY <1>2, EvidenceIsTimed DEF Kinds, RetainedIn
  <1>4. o.at \in Nat /\ o # Absent
    BY ObservationsAreFacts DEF Kinds, Observations
  <1>5. row[kind] # Absent =>
           o.at >= row[kind].at /\ (o.at = row[kind].at => SameFacts(row[kind], o))
    BY <1>3, <1>4 DEF IsStale, Stored
  <1>6. /\ DOMAIN rows = DOMAIN sources
        /\ rows[i] = RowWith(row, kind, o)
        /\ \A k \in DOMAIN sources : k # i => rows[k] = sources[k]
        /\ \A k \in DOMAIN sources : rows[k].job = sources[k].job
        /\ IsReconcilable(rows, j)
    BY <1>1, <1>5, UpdatedTable DEF Stored
  <1>7. /\ rows[i].platform = row.platform
        /\ rows[i].lastCheckedAt = LaterOf(row.lastCheckedAt, o.at)
        /\ rows[i][kind] = o
        /\ \A k \in Kinds : k # kind => rows[i][k] = row[k]
    BY <1>2, <1>6, RowWithFields
  <1>8. RetainedIn(rows[i]) \subseteq RetainedIn(row) \cup {o}
    BY <1>2, <1>5, <1>6, RowWithRetains
  <1>9. \A r \in RetainedIn(row) : r.at \in Nat /\ r.at <= row.lastCheckedAt
    BY <1>1, <1>2, EvidenceIsTimed DEF IsFiled
  <1>10. LaterOf(row.lastCheckedAt, o.at) >= row.lastCheckedAt
           /\ LaterOf(row.lastCheckedAt, o.at) >= o.at
           /\ LaterOf(row.lastCheckedAt, o.at) \in Nat
    BY <1>2, <1>4 DEF LaterOf
  <1> HIDE DEF rows
  <1>11. IsFiled(rows, identities')
    <2>1. \A old \in RetainedIn(rows[i]) \ {o} :
             /\ i \in DOMAIN sources
             /\ old \in RetainedIn(sources[i])
             /\ old.at <= rows[i].lastCheckedAt
      BY <1>2, <1>7, <1>8, <1>9, <1>10
    <2>2. DOMAIN rows = DOMAIN sources \cup {i}
      BY <1>6
    <2>3. o.platform = rows[i].platform /\ o.at <= rows[i].lastCheckedAt
      BY <1>4, <1>7, <1>10
    <2>4. \A k \in DOMAIN sources : k # i => rows[k] = sources[k]
      BY <1>6
    <2>5. i \in DOMAIN sources => rows[i].platform = sources[i].platform
      BY <1>7
    <2>6. IsFiled(sources, identities)
      BY <1>1
    <2>7. IsFiled(rows, identities \cup {[key |-> SourceKey(o), source |-> i]})
      BY <2>1, <2>2, <2>3, <2>4, <2>5, <2>6, ObservationIsFiled, Zenon
    <2> QED
      BY <2>7
  <1>12. /\ IsTable(sources')
         /\ DOMAIN sources' = DOMAIN rows
         /\ \A k \in DOMAIN rows :
               /\ SaysTheSame(sources'[k], rows[k])
               /\ sources'[k].platform = rows[k].platform
               /\ sources'[k].lastCheckedAt = rows[k].lastCheckedAt
               /\ sources'[k].job \in Live'
         /\ DOMAIN jobs' = DOMAIN jobs
         /\ JobsFollowEvidence'
         /\ JobsHaveLatest'
    BY <1>1, <1>6, ReconcileFollows DEF rows, Reconciled
  <1>13. IsFiled(sources', identities')
    BY <1>11, <1>12, MovedIsFiled
  <1>14. TablesOK'
    BY <1>1, <1>12, <1>13 DEF TablesOK, TypeOK
  <1>15. MovesForward
    <2>1. \A k \in DOMAIN sources : \A h \in Kinds : sources'[k][h] = rows[k][h]
      BY <1>6, <1>12 DEF Kinds, SaysTheSame
    <2>2. ASSUME NEW k \in DOMAIN sources, NEW h \in Kinds
          PROVE  LET old == sources[k][h]
                     new == sources'[k][h]
                 IN  /\ new # Absent => new.at <= sources'[k].lastCheckedAt
                     /\ old # Absent =>
                           /\ new # Absent
                           /\ new.at > old.at \/ (new.at = old.at /\ new = old)
      <3>1. ASSUME sources[k][h] # Absent
            PROVE  sources[k][h].at \in Nat /\ sources[k][h].at <= sources[k].lastCheckedAt
        <4>1. sources[k] \in SourceRows /\ RetainedIn(sources[k]) # {}
          BY <1>1 DEF IsTable
        <4>2. sources[k][h] \in RetainedIn(sources[k])
          BY <3>1 DEF Kinds, RetainedIn
        <4> QED
          BY <1>1, <4>1, <4>2, EvidenceIsTimed DEF IsFiled
      <3>2. CASE k # i
        BY <1>6, <1>12, <2>1, <3>1, <3>2
      <3>3. CASE k = i /\ h # kind
        BY <1>2, <1>6, <1>7, <1>10, <1>12, <2>1, <3>1, <3>3
      <3>4. CASE k = i /\ h = kind
        <4>1. sources'[k][h] = o /\ sources'[k].lastCheckedAt >= o.at
          BY <1>6, <1>7, <1>10, <1>12, <2>1, <3>4
        <4>2. \A stored \in Facts : stored.at = o.at /\ SameFacts(stored, o) => stored = o
          BY DEF SameFacts, Facts
        <4>3. row[kind] # Absent => row[kind] \in Facts
          BY <1>2, <1>3, EvidenceIsTimed
        <4> QED
          BY <1>4, <1>5, <1>10, <3>1, <3>4, <4>1, <4>2, <4>3
      <3> QED
        BY <3>2, <3>3, <3>4
    <2>3. \A k \in DOMAIN sources :
             k \in DOMAIN sources' /\ sources'[k].lastCheckedAt >= sources[k].lastCheckedAt
      <3>1. \A k \in DOMAIN sources : sources[k].lastCheckedAt \in Nat
        BY <1>1 DEF IsTable, SourceRows
      <3> QED
        BY <1>6, <1>7, <1>10, <1>12, <3>1
    <2> QED
      BY <2>2, <2>3 DEF MovesForward
  <1>16. GroupsComplete
    <2> SUFFICES ASSUME NEW k \in DOMAIN sources', NEW h \in DOMAIN sources', k # h,
                        sources'[k].job = sources'[h].job,
                        sources[k].job # sources[h].job
                 PROVE  IsComplete(LatestEvidence(sources', sources'[k].job))
      BY <1>6, <1>12 DEF GroupsComplete, IsComplete
    <2>1. k \in DOMAIN rows /\ h \in DOMAIN rows /\ rows[k].job # rows[h].job
      BY <1>6, <1>12
    <2> QED
      BY <1>1, <1>6, <1>11, <2>1, ReconcileGroups DEF rows
  <1>17. j \in Live
    BY <1>1, SourcesAreTable
  <1> QED
    BY <1>1, <1>14, <1>15, <1>16, <1>17, ReconcileRecords

(* An observation of a new source. *)
NewSource(n, kind, o) ==
    /\ IInv
    /\ kind \in Kinds
    /\ o \in Observations[kind]
    /\ Find(SourceKey(o)) = {}
    /\ n \in NextId(sources)
    /\ identities' = identities \cup {[key |-> SourceKey(o), source |-> n]}

(* Whichever job it belongs to, it is filed, and nothing else is touched. *)
LEMMA NewRow ==
    ASSUME NEW n, NEW kind, NEW o, NewSource(n, kind, o), NEW j \in Nat
    PROVE  LET rows == Inserted(sources, n, SourceRow(kind, o, j))
           IN  /\ IsTable(rows)
               /\ n \notin DOMAIN sources
               /\ DOMAIN rows = DOMAIN sources \cup {n}
               /\ rows[n].job = j
               /\ Evidence(rows[n]) = o
               /\ \A i \in DOMAIN sources : rows[i] = sources[i]
               /\ SourcesOf(rows, j) = SourcesOf(sources, j) \cup {n}
               /\ \A k : k # j => Agree(rows, sources, k)
               /\ IsFiled(rows, identities')
  <1> DEFINE rows == Inserted(sources, n, SourceRow(kind, o, j))
  <1>1. /\ TypeOK
        /\ IsFiled(sources, identities)
        /\ n \in NextId(sources) /\ kind \in Kinds /\ o \in Observations[kind]
    BY LibraryIsFiled DEF IInv, NewSource
  <1>2. /\ IsTable(rows)
        /\ n \notin DOMAIN sources
        /\ DOMAIN rows = DOMAIN sources \cup {n}
        /\ rows[n] = SourceRow(kind, o, j)
        /\ RetainedIn(rows[n]) = {o}
        /\ Evidence(rows[n]) = o
        /\ \A i \in DOMAIN sources : rows[i] = sources[i]
        /\ SourcesOf(rows, j) = SourcesOf(sources, j) \cup {n}
        /\ \A k : k # j => Agree(rows, sources, k)
    BY <1>1, InsertedTable
  <1>3. rows[n].job = j /\ rows[n].platform = o.platform /\ rows[n].lastCheckedAt = o.at
    BY <1>2 DEF SourceRow
  <1> HIDE DEF rows
  <1>4. IsFiled(rows, identities')
    <2>1. \A old \in RetainedIn(rows[n]) \ {o} :
             /\ n \in DOMAIN sources
             /\ old \in RetainedIn(sources[n])
             /\ old.at <= rows[n].lastCheckedAt
      BY <1>2
    <2>2. o.at \in Nat
      BY <1>1, ObservationsAreFacts DEF Kinds, Observations
    <2>3. o.platform = rows[n].platform /\ o.at <= rows[n].lastCheckedAt
      BY <1>3, <2>2
    <2>4. \A k \in DOMAIN sources : k # n => rows[k] = sources[k]
      BY <1>2
    <2>5. n \in DOMAIN sources => rows[n].platform = sources[n].platform
      BY <1>2
    <2>6. \A r \in identities : r.key = SourceKey(o) => r.source = n
      BY <1>1 DEF NewSource, Find, IsFiled
    <2>7. IsFiled(rows, identities \cup {[key |-> SourceKey(o), source |-> n]})
      BY <1>1, <1>2, <2>1, <2>3, <2>4, <2>5, <2>6, ObservationIsFiled, Zenon
    <2> QED
      BY <2>7 DEF NewSource
  <1> QED
    BY <1>2, <1>3, <1>4 DEF rows

(* It moves forward whatever becomes of the new row. *)
LEMMA NewMovesForward ==
    ASSUME IInv, \A i \in DOMAIN sources :
              /\ i \in DOMAIN sources'
              /\ SaysTheSame(sources'[i], sources[i])
              /\ sources'[i].lastCheckedAt = sources[i].lastCheckedAt
    PROVE  MovesForward
  <1>1. IsTable(sources) /\ IsFiled(sources, identities)
    BY SourcesAreTable, LibraryIsFiled DEF IInv
  <1>2. \A i \in DOMAIN sources : \A kind \in Kinds : sources'[i][kind] = sources[i][kind]
    BY DEF SaysTheSame, Kinds
  <1>3. \A i \in DOMAIN sources : sources[i].lastCheckedAt \in Nat
    BY <1>1 DEF IsTable, SourceRows
  <1>4. ASSUME NEW i \in DOMAIN sources, NEW kind \in Kinds, sources[i][kind] # Absent
        PROVE  sources[i][kind].at \in Nat /\ sources[i][kind].at <= sources[i].lastCheckedAt
    <2>1. sources[i] \in SourceRows /\ RetainedIn(sources[i]) # {}
      BY <1>1 DEF IsTable
    <2>2. sources[i][kind] \in RetainedIn(sources[i])
      BY <1>4 DEF Kinds, RetainedIn
    <2> QED
      BY <1>1, <2>1, <2>2, EvidenceIsTimed DEF IsFiled
  <1> QED
    BY <1>2, <1>3, <1>4 DEF MovesForward

LEMMA JoinStep ==
    ASSUME NEW n, NEW kind, NEW o, NewSource(n, kind, o), Join(n, kind, o)
    PROVE  TablesOK' /\ MovesForward /\ GroupsComplete
  <1>1. PICK j \in JobsWith(JobKey(o)) : Reconcile(Inserted(sources, n, SourceRow(kind, o, j)), j)
    BY DEF Join
  <1> DEFINE rows == Inserted(sources, n, SourceRow(kind, o, j))
             key == JobKey(LatestEvidence(rows, j))
  <1>2. /\ IInv /\ TypeOK /\ JobsFollowEvidence /\ JobsHaveLatest
        /\ IsTable(sources) /\ \A i \in DOMAIN sources : sources[i].job \in Live
        /\ o.at \in Nat
    BY SourcesAreTable, ObservationsAreFacts DEF IInv, NewSource, Kinds, Observations
  <1>3. j \in Live /\ j \in Nat /\ jobs[j].identityKey = JobKey(o)
    BY <1>2 DEF JobsWith, Live, TypeOK
  <1>4. /\ IsTable(rows)
        /\ n \notin DOMAIN sources
        /\ DOMAIN rows = DOMAIN sources \cup {n}
        /\ rows[n].job = j
        /\ Evidence(rows[n]) = o
        /\ \A i \in DOMAIN sources : rows[i] = sources[i]
        /\ SourcesOf(rows, j) = SourcesOf(sources, j) \cup {n}
        /\ \A k : k # j => Agree(rows, sources, k)
        /\ IsFiled(rows, identities')
    BY <1>3, NewRow
  <1>5. Reconcile(rows, j)
    BY <1>1
  <1> HIDE DEF rows
  <1>6. PICK a \in DOMAIN sources : IsLatest(a, EvidenceOf(sources, j))
    BY <1>2, <1>3 DEF JobsHaveLatest
  <1>7. /\ a # n /\ a \in DOMAIN rows
        /\ LatestEvidence(sources, j) = Evidence(rows[a])
    <2>1. LatestEvidence(sources, j) = EvidenceOf(sources, j)[a]
      BY <1>2, <1>6, EvidenceOfTable, LatestIsChosen DEF LatestEvidence
    <2>2. a \in SourcesOf(sources, j)
      BY <1>2, <1>6, EvidenceOfTable DEF IsLatest
    <2> QED
      BY <1>2, <1>4, <2>1, <2>2, EvidenceOfTable
  <1>8. IsLatest(a, EvidenceOf(rows, j)) \/ IsLatest(n, EvidenceOf(rows, j))
    <2> DEFINE alone == [i \in {n} |-> o]
               both == EvidenceOf(rows, j)
               some == EvidenceOf(sources, j)
    <2>1. Timed(both) /\ DOMAIN both = DOMAIN some \cup {n}
      BY <1>2, <1>4, EvidenceOfTable
    <2>2. \A i \in DOMAIN some : some[i] = both[i]
      BY <1>2, <1>4, EvidenceOfTable
    <2>3. both[n] = o
      BY <1>4, EvidenceOfTable
    <2>4. DOMAIN alone = {n} /\ alone[n] = o
      OBVIOUS
    <2>5. n \in Nat
      BY <1>4 DEF IsTable
    <2>6. IsLatest(n, alone)
      BY <1>2, <2>4, <2>5 DEF IsLatest
    <2> HIDE DEF alone, both, some
    <2>7. IsLatest(a, some)
      BY <1>6 DEF some
    <2>8. IsLatest(a, both) \/ IsLatest(n, both)
      BY <2>1, <2>2, <2>3, <2>4, <2>6, <2>7, LatestOfBoth
    <2> QED
      BY <2>8 DEF both
  <1>9. LatestEvidence(rows, j) \in {Evidence(rows[a]), Evidence(rows[n])}
    <2>1. /\ IsLatest(a, EvidenceOf(rows, j)) => LatestEvidence(rows, j) = EvidenceOf(rows, j)[a]
          /\ IsLatest(n, EvidenceOf(rows, j)) => LatestEvidence(rows, j) = EvidenceOf(rows, j)[n]
      BY <1>4, EvidenceOfTable, LatestIsChosen DEF LatestEvidence
    <2>2. /\ IsLatest(a, EvidenceOf(rows, j)) => a \in SourcesOf(rows, j)
          /\ IsLatest(n, EvidenceOf(rows, j)) => n \in SourcesOf(rows, j)
      BY <1>4, EvidenceOfTable DEF IsLatest
    <2> QED
      BY <1>4, <1>8, <2>1, <2>2, EvidenceOfTable
  <1>10. JobKey(Evidence(rows[a])) = JobKey(o)
    BY <1>2, <1>3, <1>7 DEF JobsFollowEvidence
  <1>11. key = JobKey(o) /\ IsComplete(LatestEvidence(rows, j))
    <2>1. IsComplete(Evidence(rows[a])) /\ IsComplete(Evidence(rows[n]))
      BY <1>4, <1>7, <1>10, SameKeyIsComplete
    <2> QED
      BY <1>4, <1>9, <1>10, <2>1
  <1>12. IsReconcilable(rows, j)
    <2>1. \A i \in DOMAIN rows : rows[i].job \in Live
      BY <1>2, <1>3, <1>4
    <2> QED
      BY <1>3, <1>4, <1>8, <2>1 DEF IsReconcilable
  <1>13. sources' = rows
    <2>1. JobsWith(JobKey(o)) = {j}
      BY <1>2, <1>3 DEF JobsFollowEvidence
    <2> QED
      BY <1>5, <1>11, <2>1 DEF Reconcile
  <1>14. /\ \A i \in DOMAIN rows : sources'[i].job \in Live'
         /\ DOMAIN jobs' = DOMAIN jobs
         /\ JobsFollowEvidence'
         /\ JobsHaveLatest'
    BY <1>2, <1>5, <1>12, ReconcileFollows DEF Reconciled
  <1>15. TablesOK'
    BY <1>2, <1>4, <1>13, <1>14 DEF TablesOK, TypeOK
  <1>16. MovesForward
    BY <1>2, <1>4, <1>13, NewMovesForward DEF SaysTheSame
  <1>17. GroupsComplete
    <2> SUFFICES ASSUME NEW k \in DOMAIN rows, NEW h \in DOMAIN rows, k # h,
                        rows[k].job = rows[h].job,
                        {k, h} \subseteq DOMAIN sources => sources[k].job # sources[h].job
                 PROVE  IsComplete(LatestEvidence(rows, rows[k].job))
      BY <1>13 DEF GroupsComplete, IsComplete
    <2>1. k = n \/ h = n
      BY <1>4
    <2>2. rows[k].job = j
      BY <1>4, <2>1
    <2> QED
      BY <1>11, <2>2
  <1> QED
    BY <1>15, <1>16, <1>17

LEMMA CreateStep ==
    ASSUME NEW n, NEW kind, NEW o, NewSource(n, kind, o), Create(n, kind, o)
    PROVE  TablesOK' /\ MovesForward /\ GroupsComplete
  <1>1. PICK j \in NextId(jobs) :
           /\ sources' = Inserted(sources, n, SourceRow(kind, o, j))
           /\ jobs' = Inserted(jobs, j, JobRow(JobKey(o), Canonical(sources', j)))
    BY DEF Create
  <1> DEFINE rows == Inserted(sources, n, SourceRow(kind, o, j))
  <1>2. /\ IInv /\ TypeOK /\ JobsFollowEvidence /\ JobsHaveLatest
        /\ IsTable(sources) /\ \A i \in DOMAIN sources : sources[i].job \in Live
        /\ o.at \in Nat
    BY SourcesAreTable, ObservationsAreFacts DEF IInv, NewSource, Kinds, Observations
  <1>3. /\ j \in Nat
        /\ j \notin DOMAIN jobs
        /\ DOMAIN jobs' = DOMAIN jobs \cup {j}
        /\ jobs'[j] = JobRow(JobKey(o), Canonical(rows, j))
        /\ \A k \in DOMAIN jobs : jobs'[k] = jobs[k]
    BY <1>1, LibraryAssumption DEF NextId, Inserted
  <1>4. /\ jobs'[j] # Deleted
        /\ jobs'[j].identityKey = JobKey(o)
        /\ jobs'[j].values = Canonical(rows, j)
    BY <1>3, RowsAreLive
  <1>5. Live' = Live \cup {j} /\ j \notin Live
    BY <1>3, <1>4 DEF Live
  <1>6. /\ IsTable(rows)
        /\ n \notin DOMAIN sources
        /\ DOMAIN rows = DOMAIN sources \cup {n}
        /\ rows[n].job = j
        /\ Evidence(rows[n]) = o
        /\ \A i \in DOMAIN sources : rows[i] = sources[i]
        /\ SourcesOf(rows, j) = SourcesOf(sources, j) \cup {n}
        /\ \A k : k # j => Agree(rows, sources, k)
        /\ IsFiled(rows, identities')
    BY <1>3, NewRow
  <1>7. sources' = rows
    BY <1>1
  <1> HIDE DEF rows
  <1>8. SourcesOf(rows, j) = {n}
    BY <1>2, <1>5, <1>6 DEF SourcesOf
  <1>9. IsLatest(n, EvidenceOf(rows, j)) /\ LatestEvidence(rows, j) = o
    <2>1. /\ DOMAIN EvidenceOf(rows, j) = {n}
          /\ EvidenceOf(rows, j)[n] = o
          /\ Timed(EvidenceOf(rows, j))
      BY <1>6, <1>8, EvidenceOfTable
    <2>2. IsLatest(n, EvidenceOf(rows, j))
      BY <1>2, <2>1 DEF IsLatest, Timed
    <2> QED
      BY <2>1, <2>2, LatestIsChosen DEF LatestEvidence
  <1>10. \A k \in Live :
            /\ SourcesOf(rows, k) # {}
            /\ jobs'[k].identityKey = JobKey(LatestEvidence(rows, k))
            /\ jobs'[k].values = Canonical(rows, k)
            /\ \E i : IsLatest(i, EvidenceOf(rows, k))
            /\ jobs'[k].identityKey # JobKey(o)
            /\ jobs'[k] = jobs[k]
    <2> SUFFICES ASSUME NEW k \in Live
                 PROVE  /\ SourcesOf(rows, k) # {}
                        /\ jobs'[k].identityKey = JobKey(LatestEvidence(rows, k))
                        /\ jobs'[k].values = Canonical(rows, k)
                        /\ \E i : IsLatest(i, EvidenceOf(rows, k))
                        /\ jobs'[k].identityKey # JobKey(o)
                        /\ jobs'[k] = jobs[k]
      OBVIOUS
    <2>1. k # j /\ jobs'[k] = jobs[k] /\ Agree(rows, sources, k)
      BY <1>3, <1>5, <1>6 DEF Live
    <2>2. jobs[k].identityKey # JobKey(o)
      BY DEF Create, JobsWith
    <2> QED
      BY <1>2, <2>1, <2>2, AgreementDecides DEF Agree, JobsFollowEvidence, JobsHaveLatest
  <1>11. JobsFollowEvidence'
    <2> SUFFICES ASSUME NEW k \in Live'
                 PROVE  /\ SourcesOf(rows, k) # {}
                        /\ jobs'[k].identityKey = JobKey(LatestEvidence(rows, k))
                        /\ jobs'[k].values = Canonical(rows, k)
                        /\ {h \in Live' : jobs'[h].identityKey = jobs'[k].identityKey} = {k}
      BY <1>7 DEF JobsFollowEvidence, JobsWith
    <2>1. \A h \in Live' : jobs'[h].identityKey = jobs'[k].identityKey => h = k
      BY <1>2, <1>4, <1>5, <1>10, KeyHasOneJob
    <2> QED
      BY <1>4, <1>5, <1>8, <1>9, <1>10, <2>1
  <1>12. JobsHaveLatest'
    <2>1. \A k \in Live' : \E i : IsLatest(i, EvidenceOf(rows, k))
      BY <1>5, <1>9, <1>10
    <2>2. \A k \in Live' : \E i \in DOMAIN rows : IsLatest(i, EvidenceOf(rows, k))
      BY <1>6, <2>1, EvidenceOfTable DEF IsLatest
    <2> QED
      BY <1>7, <2>2 DEF JobsHaveLatest
  <1>13. TablesOK'
    BY <1>2, <1>3, <1>5, <1>6, <1>7, <1>11, <1>12 DEF TablesOK, TypeOK
  <1>14. MovesForward
    BY <1>2, <1>6, <1>7, NewMovesForward DEF SaysTheSame
  <1>15. GroupsComplete
    <2> SUFFICES ASSUME NEW k \in DOMAIN rows, NEW h \in DOMAIN rows, k # h,
                        rows[k].job = rows[h].job,
                        {k, h} \subseteq DOMAIN sources => sources[k].job # sources[h].job
                 PROVE  FALSE
      BY <1>7 DEF GroupsComplete
    <2>1. k = n \/ h = n
      BY <1>6
    <2>2. {k, h} \subseteq SourcesOf(rows, j)
      BY <1>6, <2>1 DEF SourcesOf
    <2> QED
      BY <1>8, <2>2
  <1> QED
    BY <1>13, <1>14, <1>15

LEMMA UnchangedTables ==
    ASSUME IInv, UNCHANGED tables
    PROVE  TablesOK' /\ MovesForward /\ GroupsComplete /\ RecordsChange
  <1>1. sources' = sources /\ identities' = identities /\ jobs' = jobs
    BY DEF tables
  <1>2. Live' = Live
    BY <1>1 DEF Live
  <1>3. TablesOK
    BY IInvIsTablesAndCounters
  <1>4. TablesOK'
    BY <1>1, <1>2, <1>3 DEF TablesOK, JobsFollowEvidence, JobsHaveLatest, JobsWith
  <1>5. MovesForward
    BY <1>1, NewMovesForward DEF SaysTheSame
  <1> QED
    BY <1>1, <1>2, <1>4, <1>5 DEF GroupsComplete, RecordsChange

-----------------------------------------------------------------------------
(* The operations. *)

LEMMA SaveKnownStep ==
    ASSUME IInv, NEW kind \in Kinds, NEW o \in Observations[kind],
           NEW i \in Find(SourceKey(o)), SaveKnown(i, kind, o)
    PROVE  TablesOK' /\ MovesForward /\ GroupsComplete /\ RecordsChange
  <1>1. IsFiled(sources, identities)
    BY LibraryIsFiled DEF IInv
  <1>2. i \in DOMAIN sources /\ [key |-> SourceKey(o), source |-> i] \in identities
    BY DEF Find
  <1>3. /\ o.platform = sources[i].platform
        /\ \A r \in identities : r.key = SourceKey(o) => r.source = i
    <2>1. SourceKey(o)[1] = o.platform
      BY DEF SourceKey
    <2> QED
      BY <1>1, <1>2, <2>1 DEF IsFiled
  <1>4. CASE IsStale(i, kind, o)
    BY <1>4, UnchangedTables DEF SaveKnown
  <1>5. CASE ~IsStale(i, kind, o) /\ Refresh(i, kind, o)
    <2>1. /\ Reconcile(Updated(i, kind, o), sources[i].job)
          /\ identities' = identities \cup {[key |-> SourceKey(o), source |-> i]}
          /\ changes' = IF JobChanged(sources[i].job) THEN changes + 1 ELSE changes
      BY <1>2, <1>5 DEF Refresh
    <2> QED
      BY <1>2, <1>3, <1>5, <2>1, KnownStep DEF RecordsChange
  <1>6. CASE ~IsStale(i, kind, o) /\ Replace(i, kind, o)
    <2>1. /\ Reconcile(Updated(i, kind, o), sources[i].job)
          /\ identities' = identities \cup {[key |-> SourceKey(o), source |-> i]}
          /\ owed'
      BY <1>6 DEF Replace, Attach
    <2> QED
      BY <1>2, <1>3, <1>6, <2>1, KnownStep DEF RecordsChange
  <1> QED
    BY <1>4, <1>5, <1>6 DEF SaveKnown

LEMMA SaveNewStep ==
    ASSUME IInv, NEW kind \in Kinds, NEW o \in Observations[kind],
           Find(SourceKey(o)) = {}, SaveNew(kind, o)
    PROVE  TablesOK' /\ MovesForward /\ GroupsComplete /\ RecordsChange
  <1>1. PICK n \in NextId(sources) : (Join(n, kind, o) \/ Create(n, kind, o)) /\ Attach(n, o)
    BY DEF SaveNew
  <1>2. NewSource(n, kind, o)
    BY <1>1 DEF NewSource, Attach
  <1>3. RecordsChange
    BY DEF SaveNew, RecordsChange
  <1> QED
    BY <1>1, <1>2, <1>3, JoinStep, CreateStep

LEMMA BindStep ==
    ASSUME IInv, NEW o \in Observations.description, NEW i \in DOMAIN sources, Bind(i, o)
    PROVE  TablesOK' /\ MovesForward /\ GroupsComplete /\ RecordsChange
  <1>1. "description" \in Kinds /\ o \in Observations["description"]
    BY DEF Kinds
  <1>2. /\ o.platform = sources[i].platform
        /\ sources[i].description = Absent
        /\ Find(SourceKey(o)) \subseteq {i}
        /\ Reconcile(Updated(i, "description", o), sources[i].job)
        /\ identities' = identities \cup {[key |-> SourceKey(o), source |-> i]}
        /\ owed'
    BY DEF Bind, CanBind, Replace, Attach
  <1>3. ~IsStale(i, "description", o)
    BY <1>2 DEF IsStale, Stored
  <1>4. \A r \in identities : r.key = SourceKey(o) => r.source = i
    <2>1. IsFiled(sources, identities)
      BY LibraryIsFiled DEF IInv
    <2> QED
      BY <1>2, <2>1 DEF IsFiled, Find
  <1> QED
    BY <1>1, <1>2, <1>3, <1>4, KnownStep DEF RecordsChange

LEMMA CountersStay ==
    ASSUME IInv, Next
    PROVE  CountersOK'
  <1>1. CountersOK
    BY IInvIsTablesAndCounters
  <1>2. ASSUME Operates PROVE saves' \in 0 .. MaxSaves /\ crashes' \in 0 .. MaxCrashes
    BY <1>1, <1>2, LibraryAssumption DEF Operates, CountersOK
  <1>3. ASSUME NEW i, NEW kind, NEW o, SaveKnown(i, kind, o)
        PROVE  changes' \in Nat /\ owed' \in BOOLEAN
    <2>1. CASE UNCHANGED <<changes, owed>>
      BY <1>1, <2>1 DEF CountersOK
    <2>2. CASE Refresh(i, kind, o)
      BY <1>1, <2>2 DEF CountersOK, Refresh
    <2>3. CASE Replace(i, kind, o)
      BY <1>1, <2>3 DEF CountersOK, Replace
    <2> QED
      BY <1>3, <2>1, <2>2, <2>3 DEF SaveKnown
  <1>4. ASSUME NEW kind, NEW o, Save(kind, o) PROVE CountersOK'
    <2>1. CASE SaveNew(kind, o)
      BY <1>1, <1>2, <1>4, <2>1 DEF Save, SaveNew, CountersOK
    <2>2. CASE \E i \in Find(SourceKey(o)) : SaveKnown(i, kind, o)
      BY <1>2, <1>3, <1>4, <2>2 DEF Save, CountersOK
    <2> QED
      BY <1>4, <2>1, <2>2 DEF Save
  <1>5. ASSUME NEW o, NEW i, Bind(i, o) PROVE CountersOK'
    BY <1>1, <1>2, <1>5 DEF Bind, Replace, CountersOK
  <1>6. CASE RecordChange
    <2>1. owed' = FALSE /\ changes' = changes + 1 /\ saves' = saves /\ crashes' = crashes
      BY <1>6, Zenon DEF RecordChange
    <2>2. owed' \in BOOLEAN
      BY <2>1, Zenon
    <2> QED
      BY <1>1, <2>1, <2>2 DEF CountersOK
  <1>7. CASE Crash
    <2>1. /\ owed' = FALSE /\ changes' = changes /\ saves' = saves
          /\ crashes < MaxCrashes /\ crashes' = crashes + 1
      BY <1>7, Zenon DEF Crash
    <2>2. owed' \in BOOLEAN
      BY <2>1, Zenon
    <2> QED
      BY <1>1, <2>1, <2>2, LibraryAssumption DEF CountersOK
  <1>8. CASE Done
    BY <1>1, <1>8 DEF Done, vars, CountersOK
  <1> QED
    BY <1>4, <1>5, <1>6, <1>7, <1>8 DEF Next

(* Every step keeps the invariant and obeys the action properties. *)
LEMMA NextStep ==
    ASSUME IInv, Next
    PROVE  IInv' /\ MovesForward /\ GroupsComplete /\ RecordsChange
  <1>1. ASSUME NEW kind \in Kinds, NEW o \in Observations[kind], Save(kind, o)
        PROVE  TablesOK' /\ MovesForward /\ GroupsComplete /\ RecordsChange
    BY <1>1, SaveNewStep, SaveKnownStep DEF Save
  <1>2. ASSUME NEW o \in Observations.description, NEW i \in DOMAIN sources, Bind(i, o)
        PROVE  TablesOK' /\ MovesForward /\ GroupsComplete /\ RecordsChange
    BY <1>2, BindStep
  <1>3. ASSUME RecordChange \/ Crash \/ Done
        PROVE  TablesOK' /\ MovesForward /\ GroupsComplete /\ RecordsChange
    <2>1. UNCHANGED tables
      BY <1>3, Zenon DEF RecordChange, Crash, Done, vars, tables
    <2> QED
      BY <2>1, UnchangedTables
  <1>4. TablesOK' /\ MovesForward /\ GroupsComplete /\ RecordsChange
    BY <1>1, <1>2, <1>3 DEF Next
  <1> QED
    BY <1>4, CountersStay, IInvIsTablesAndCounters

LEMMA InitIInv == Init => IInv
  <1> SUFFICES ASSUME Init PROVE IInv
    OBVIOUS
  <1>1. DOMAIN sources = {} /\ DOMAIN jobs = {} /\ Live = {} /\ identities = {}
    BY DEF Init, Live
  <1>2. TypeOK
    <2>1. sources \in [DOMAIN sources -> SourceRows]
      BY DEF Init
    <2>2. CountersOK
      <3>1. changes = 0 /\ owed = FALSE /\ saves = 0 /\ crashes = 0
        BY Zenon DEF Init
      <3>2. owed \in BOOLEAN
        BY <3>1, Zenon
      <3> QED
        BY <3>1, <3>2, LibraryAssumption DEF CountersOK
    <2> QED
      BY <1>1, <2>1, <2>2 DEF TypeOK, CountersOK
  <1> QED
    BY <1>1, <1>2 DEF IInv, RetainedIsFiled, KeysAreOwned, JobsHaveLatest, JobsFollowEvidence

LEMMA IInvHolds == Spec => []IInv
  <1>1. IInv /\ [Next]_vars => IInv'
    <2> SUFFICES ASSUME IInv, [Next]_vars PROVE IInv'
      OBVIOUS
    <2>1. CASE UNCHANGED vars
      <3>1. TablesOK' /\ CountersOK'
        BY <2>1, UnchangedTables, IInvIsTablesAndCounters DEF vars, tables, CountersOK
      <3> QED
        BY <3>1, IInvIsTablesAndCounters
    <2> QED
      BY <2>1, NextStep
  <1> QED
    BY <1>1, InitIInv, PTL DEF Spec

-----------------------------------------------------------------------------
(* The tables keep their types, references and checks: a source always has *)
(* a job that was not deleted, also while jobs are merged.                 *)
THEOREM TypeCorrect == Spec => []TypeOK
  <1>1. IInv => TypeOK
    BY DEF IInv
  <1> QED
    BY <1>1, IInvHolds, PTL

(* Every job is what its sources say, and no two jobs have the same key. *)
THEOREM JobsFollow == Spec => []JobsFollowEvidence
  <1>1. IInv => JobsFollowEvidence
    BY DEF IInv
  <1> QED
    BY <1>1, IInvHolds, PTL

(* What a source retains and what its card and description say together    *)
(* finds that source and no other.                                         *)
THEOREM SourcesFound == Spec => []SourcesAreFound
  <1>1. IInv => SourcesAreFound
    <2> SUFFICES ASSUME IInv, NEW i \in DOMAIN sources,
                        NEW o \in Retained(i) \cup {Evidence(sources[i])}
                 PROVE  o.platform = sources[i].platform /\ Find(SourceKey(o)) = {i}
      BY DEF SourcesAreFound
    <2>1. /\ IsTable(sources) /\ IsFiled(sources, identities)
          /\ RetainedIn(sources[i]) = Retained(i)
      BY SourcesAreTable, LibraryIsFiled DEF IInv
    <2>2. /\ o.platform = sources[i].platform
          /\ [key |-> SourceKey(o), source |-> i] \in identities
      BY <2>1, EvidenceIsFiled DEF IsFiled
    <2>3. \A k \in Find(SourceKey(o)) : k = i
      BY <2>1, <2>2 DEF Find, IsFiled
    <2> QED
      BY <2>2, <2>3 DEF Find
  <1> QED
    BY <1>1, IInvHolds, PTL

(* No source is lost, and what it retains is replaced only by something    *)
(* newer or by the same facts.                                             *)
THEOREM EvidenceForward == Spec => EvidenceMovesForward
  <1>1. IInv /\ [Next]_vars => [MovesForward]_vars
    BY NextStep
  <1> QED
    BY <1>1, IInvHolds, PTL DEF Spec, EvidenceMovesForward

(* Sources come together in one job only on a complete identity. *)
THEOREM CompleteGroups == Spec => GroupsOnCompleteIdentity
  <1>1. IInv /\ [Next]_vars => [GroupsComplete]_vars
    BY NextStep
  <1> QED
    BY <1>1, IInvHolds, PTL DEF Spec, GroupsOnCompleteIdentity

(* What a reader sees does not change without a record, made or owed. *)
THEOREM ChangesRecorded == Spec => ChangesAreRecorded
  <1>1. IInv /\ [Next]_vars => [RecordsChange]_vars
    BY NextStep
  <1> QED
    BY <1>1, IInvHolds, PTL DEF Spec, ChangesAreRecorded
=============================================================================
