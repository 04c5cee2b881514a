--------------------------- MODULE DashboardProofs ---------------------------
(***************************************************************************)
(* Proofs about PersonalContext and Dashboard: the tables are consistent   *)
(* and every change of them is recorded, whatever the clients ask for and  *)
(* however many rows, platforms and changes there are; and the page shows  *)
(* what it asks for, no older than its own changes.                        *)
(***************************************************************************)
EXTENDS Dashboard, TLAPS

-----------------------------------------------------------------------------
(* One operation at a time *)

(* Saving a row of the intents, new or not, keeps the tables consistent. *)
LEMMA StoringKeeps ==
    ASSUME NEW id \in Ids, NEW r \in Requests, ContextInv, StoresIntent(id, r),
           last' \in [Tables -> 0..MaxRows],
           \A t \in Tables : last[t] <= last'[t],
           id <= last'["intents"], changes' \in 0..MaxChanges,
           change' \in Changes \cup {NoChange}
    PROVE  ContextInv'
<1> USE DEF Requests
<1>1. r.name \in Names /\ r.pages \in SUBSET Platforms /\ r.selected \in BOOLEAN
  OBVIOUS
<1>2. [name |-> r.name, selected |-> r.selected] \in Intents
  BY <1>1 DEF Intents
<1>3. [name |-> r.name, selected |-> r.selected] # NoRow
  BY <1>2, ContextAssumption DEF Intents
<1>4. \A i \in Ids \ {id} : intents'[i] = intents[i] \/ intents'[i] = Unselected(intents[i])
  BY DEF StoresIntent
<1>5. intents'[id] = [name |-> r.name, selected |-> r.selected]
  BY DEF StoresIntent
<1>6. \A i \in Ids : intents[i] \in Intents \cup {NoRow}
  BY DEF ContextInv, RowsOfTheirType
<1>7. \A i \in Ids : /\ Unselected(intents[i]) \in Intents \cup {NoRow}
                     /\ intents[i] = NoRow <=> Unselected(intents[i]) = NoRow
                     /\ intents[i] # NoRow => /\ Unselected(intents[i]).name = intents[i].name
                                              /\ Unselected(intents[i]).selected = FALSE
  <2> TAKE i \in Ids
  <2>1. CASE intents[i] = NoRow
    BY <2>1 DEF Unselected
  <2>2. CASE intents[i] # NoRow
    <3>1. intents[i] \in Intents
      BY <1>6, <2>2
    <3>2. PICK row : row = intents[i]
      OBVIOUS
    <3>3. PICK new : new = [row EXCEPT !.selected = FALSE]
      OBVIOUS
    <3>4. new \in Intents /\ new.name = row.name /\ new.selected = FALSE
      BY <3>1, <3>2, <3>3 DEF Intents
    <3>5. new # NoRow
      BY <3>4, ContextAssumption DEF Intents
    <3>6. Unselected(intents[i]) = new
      BY <2>2, <3>2, <3>3 DEF Unselected
    <3> QED
      BY <2>2, <3>2, <3>4, <3>5, <3>6
  <2> QED
    BY <2>1, <2>2
<1>8. \A i \in Ids \ {id} : /\ intents'[i] \in Intents \cup {NoRow}
                            /\ intents'[i] = NoRow <=> intents[i] = NoRow
                            /\ intents[i] # NoRow => intents'[i].name = intents[i].name
  BY <1>4, <1>6, <1>7
<1>9. RowsOfTheirType'
  <2>1. intents' \in [Ids -> Intents \cup {NoRow}]
    BY <1>2, <1>5, <1>8 DEF StoresIntent
  <2>2. pages' \in SUBSET (Ids \X Platforms)
    BY <1>1 DEF StoresIntent, ContextInv, RowsOfTheirType
  <2> QED
    BY <2>1, <2>2 DEF StoresIntent, ContextInv, RowsOfTheirType
<1>10. OneSelected'
  <2>1. \A i \in Ids \ {id} : (intents'[i] # NoRow /\ intents'[i].selected) =>
            /\ ~r.selected
            /\ Selected(i)
    <3> TAKE i \in Ids \ {id}
    <3>1. CASE r.selected
      <4>1. intents'[i] = Unselected(intents[i])
        BY <3>1 DEF StoresIntent
      <4> QED
        BY <4>1, <1>7
    <3>2. CASE ~r.selected
      <4>1. intents'[i] = intents[i]
        BY <3>2 DEF StoresIntent
      <4> QED
        BY <4>1, <3>2 DEF Selected
    <3> QED
      BY <3>1, <3>2
  <2>2. intents'[id].selected = r.selected
    BY <1>5
  <2> QED
    BY <2>1, <2>2 DEF OneSelected, Selected, ContextInv
<1>11. NamesAreUnique'
  <2>1. \A i \in Ids \ {id} : intents[i] # NoRow => intents[i].name # r.name
    BY DEF StoresIntent, Named, NamedIn
  <2>2. intents'[id].name = r.name /\ intents'[id] # NoRow
    BY <1>5, <1>3
  <2>3. facts' = facts
    BY DEF StoresIntent
  <2>4. ASSUME NEW i \in Ids, NEW j \in Ids, i # j, intents'[i] # NoRow, intents'[j] # NoRow
        PROVE  intents'[i].name # intents'[j].name
    <3>1. CASE i = id
      BY <3>1, <2>1, <2>2, <2>4, <1>8
    <3>2. CASE j = id
      BY <3>2, <2>1, <2>2, <2>4, <1>8
    <3>3. CASE i # id /\ j # id
      <4>1. intents[i] # NoRow /\ intents[j] # NoRow
        BY <3>3, <2>4, <1>8
      <4>2. intents[i].name # intents[j].name
        BY <4>1, <2>4 DEF ContextInv, NamesAreUnique, Named, NamedIn
      <4> QED
        BY <3>3, <4>1, <4>2, <1>8
    <3> QED
      BY <3>1, <3>2, <3>3
  <2> QED
    BY <2>3, <2>4 DEF ContextInv, NamesAreUnique, Named, NamedIn
<1>12. PagesFollowIntents'
  <2>1. \A i \in Ids \ {id}, q \in Platforms : <<i, q>> \in pages' <=> <<i, q>> \in pages
    BY DEF StoresIntent
  <2>2. \A q \in Platforms : q \in r.pages => <<id, q>> \in pages'
    BY DEF StoresIntent
  <2>3. \E q \in Platforms : <<id, q>> \in pages'
    BY <2>2, <1>1 DEF StoresIntent
  <2>4. intents'[id] # NoRow
    BY <1>5, <1>3
  <2> QED
    BY <2>1, <2>3, <2>4, <1>8 DEF ContextInv, PagesFollowIntents
<1>13. IdsAreGivenOut'
  <2>1. \A t \in Tables : last[t] \in Nat /\ last'[t] \in Nat
    BY ContextAssumption DEF ContextInv, RowsOfTheirType, Tables
  <2>2. facts' = facts /\ reports' = reports
    BY DEF StoresIntent
  <2>3. Ids \subseteq Nat
    BY DEF Ids
  <2>4. ASSUME NEW i \in Ids, intents'[i] # NoRow
        PROVE  i <= last'["intents"]
    <3>1. CASE i = id
      BY <3>1
    <3>2. CASE i # id
      <4>1. i <= last["intents"]
        BY <3>2, <2>4, <1>8 DEF ContextInv, IdsAreGivenOut
      <4>2. last["intents"] <= last'["intents"]
        BY DEF Tables
      <4>3. i \in Nat /\ last["intents"] \in Nat /\ last'["intents"] \in Nat
        BY <2>1, <2>3 DEF Tables
      <4> QED
        BY <4>1, <4>2, <4>3
    <3> QED
      BY <3>1, <3>2
  <2>5. ASSUME NEW i \in Ids, facts[i] # NoRow
        PROVE  i <= last'["facts"]
    <3>1. i <= last["facts"] /\ last["facts"] <= last'["facts"]
      BY <2>5 DEF ContextInv, IdsAreGivenOut, Tables
    <3>2. i \in Nat /\ last["facts"] \in Nat /\ last'["facts"] \in Nat
      BY <2>1, <2>3 DEF Tables
    <3> QED
      BY <3>1, <3>2
  <2>6. ASSUME NEW i \in Ids, reports[i] # NoRow
        PROVE  i <= last'["reports"]
    <3>1. i <= last["reports"] /\ last["reports"] <= last'["reports"]
      BY <2>6 DEF ContextInv, IdsAreGivenOut, Tables
    <3>2. i \in Nat /\ last["reports"] \in Nat /\ last'["reports"] \in Nat
      BY <2>1, <2>3 DEF Tables
    <3> QED
      BY <3>1, <3>2
  <2> QED
    BY <2>2, <2>4, <2>5, <2>6 DEF IdsAreGivenOut
<1> QED
  BY <1>9, <1>10, <1>11, <1>12, <1>13 DEF ContextInv

(* What a table that gives out an id leaves. *)
LEMMA GivingOut ==
    ASSUME ContextInv, NEW t \in Tables, GivesOut(t)
    PROVE  /\ Fresh(t) \in Ids
           /\ last' \in [Tables -> 0..MaxRows]
           /\ \A u \in Tables : last[u] <= last'[u]
           /\ Fresh(t) <= last'[t]
<1>1. \A u \in Tables : last[u] \in 0..MaxRows
  BY DEF ContextInv, RowsOfTheirType
<1>2. last \in [Tables -> 0..MaxRows] /\ MaxRows \in Nat
  BY ContextAssumption DEF ContextInv, RowsOfTheirType
<1> QED
  BY <1>1, <1>2 DEF GivesOut, Fresh, Ids

LEMMA Recording ==
    ASSUME ContextInv, NEW operation \in Operations, NEW subject \in Names,
           Recorded(operation, subject)
    PROVE  changes' \in 0..MaxChanges /\ change' \in Changes \cup {NoChange}
<1>1. changes \in 0..MaxChanges /\ MaxChanges \in Nat
  BY ContextAssumption DEF ContextInv, RowsOfTheirType
<1> QED
  BY <1>1 DEF Recorded, Changes

(* Each operation keeps the tables consistent. *)
LEMMA IntentSaved ==
    ASSUME ContextInv, NEW r \in Requests, CreatesIntent(r) \/ UpdatesIntent(r)
    PROVE  ContextInv'
<1>1. r.name \in Names /\ r.id \in Ids \cup {0}
  BY DEF Requests
<1>2. CASE CreatesIntent(r)
  <2>1. Recorded("create-job-search-intent", r.name) /\ GivesOut("intents")
        /\ StoresIntent(Fresh("intents"), r)
    BY <1>2 DEF CreatesIntent
  <2>2. changes' \in 0..MaxChanges /\ change' \in Changes \cup {NoChange}
    BY <2>1, <1>1, Recording DEF Operations
  <2>3. "intents" \in Tables
    BY DEF Tables
  <2>4. /\ Fresh("intents") \in Ids
        /\ last' \in [Tables -> 0..MaxRows]
        /\ \A t \in Tables : last[t] <= last'[t]
        /\ Fresh("intents") <= last'["intents"]
    BY <2>1, <2>3, GivingOut
  <2> QED
    BY <2>1, <2>2, <2>4, StoringKeeps
<1>3. CASE UpdatesIntent(r)
  <2>1. /\ Recorded("update-job-search-intent", r.name)
        /\ StoresIntent(r.id, r)
        /\ last' = last
        /\ r.id \in Ids
        /\ intents[r.id] # NoRow
    BY <1>1, <1>3 DEF UpdatesIntent
  <2>2. changes' \in 0..MaxChanges /\ change' \in Changes \cup {NoChange}
    BY <2>1, <1>1, Recording DEF Operations
  <2>3. /\ last' \in [Tables -> 0..MaxRows]
        /\ \A t \in Tables : last[t] \in Nat
        /\ r.id <= last'["intents"]
    BY <2>1, ContextAssumption DEF ContextInv, RowsOfTheirType, IdsAreGivenOut
  <2>4. \A t \in Tables : last[t] <= last'[t]
    BY <2>1, <2>3
  <2> QED
    BY <2>1, <2>2, <2>3, <2>4, StoringKeeps
<1> QED
  BY <1>2, <1>3

LEMMA IntentSelected ==
    ASSUME ContextInv, NEW r \in Requests, SelectsIntent(r)
    PROVE  ContextInv'
<1>1. r.id \in Ids /\ intents[r.id] # NoRow
  BY DEF SelectsIntent, Requests
<1>2. \A i \in Ids : intents[i] \in Intents \cup {NoRow}
  BY DEF ContextInv, RowsOfTheirType
<1>3. \A i \in Ids :
        intents'[i] = IF i = r.id THEN [intents[i] EXCEPT !.selected = TRUE]
                      ELSE Unselected(intents[i])
  BY DEF SelectsIntent
<1>4. \A i \in Ids : /\ intents'[i] \in Intents \cup {NoRow}
                     /\ intents'[i] = NoRow <=> intents[i] = NoRow
                     /\ intents[i] # NoRow => intents'[i].name = intents[i].name
                     /\ i # r.id /\ intents[i] # NoRow => intents'[i].selected = FALSE
  <2> TAKE i \in Ids
  <2>1. CASE i = r.id
    <3>1. intents'[i] = [intents[i] EXCEPT !.selected = TRUE] /\ intents[i] \in Intents
      BY <1>1, <1>2, <1>3, <2>1
    <3>2. intents'[i] \in Intents /\ intents'[i].name = intents[i].name
      BY <3>1 DEF Intents
    <3> QED
      BY <3>1, <3>2, <2>1, ContextAssumption DEF Intents
  <2>2. CASE i # r.id
    <3>1. intents'[i] = Unselected(intents[i])
      BY <1>3, <2>2
    <3>2. CASE intents[i] = NoRow
      BY <3>1, <3>2 DEF Unselected
    <3>3. CASE intents[i] # NoRow
      <4>1. intents'[i] = [intents[i] EXCEPT !.selected = FALSE] /\ intents[i] \in Intents
        BY <3>1, <3>3, <1>2 DEF Unselected
      <4>2. intents'[i] \in Intents /\ intents'[i].name = intents[i].name
            /\ intents'[i].selected = FALSE
        BY <4>1 DEF Intents
      <4> QED
        BY <4>2, <3>3, ContextAssumption DEF Intents
    <3> QED
      BY <3>2, <3>3
  <2> QED
    BY <2>1, <2>2
<1>5. Recorded("select-job-search-intent", intents[r.id].name)
  BY DEF SelectsIntent
<1>6. intents[r.id].name \in Names
  BY <1>1, <1>2 DEF Intents
<1>7. changes' \in 0..MaxChanges /\ change' \in Changes \cup {NoChange}
  BY <1>5, <1>6, Recording DEF Operations
<1>8. UNCHANGED <<pages, facts, reports, last>>
  BY DEF SelectsIntent
<1>9. intents' \in [Ids -> Intents \cup {NoRow}]
  BY <1>4 DEF SelectsIntent
<1>10. RowsOfTheirType'
  BY <1>7, <1>8, <1>9 DEF ContextInv, RowsOfTheirType
<1>11. OneSelected'
  BY <1>4 DEF OneSelected, Selected
<1>12. NamesAreUnique'
  BY <1>4, <1>8 DEF ContextInv, NamesAreUnique, Named, NamedIn
<1>13. PagesFollowIntents'
  BY <1>4, <1>8 DEF ContextInv, PagesFollowIntents
<1>14. IdsAreGivenOut'
  BY <1>4, <1>8 DEF ContextInv, IdsAreGivenOut
<1> QED
  BY <1>10, <1>11, <1>12, <1>13, <1>14 DEF ContextInv

LEMMA IntentDeleted ==
    ASSUME ContextInv, NEW r \in Requests, DeletesIntent(r)
    PROVE  ContextInv'
<1>1. r.id \in Ids /\ intents[r.id] # NoRow
  BY DEF DeletesIntent, Requests
<1>2. intents \in [Ids -> Intents \cup {NoRow}]
  BY DEF ContextInv, RowsOfTheirType
<1>3. /\ intents' = [intents EXCEPT ![r.id] = NoRow]
      /\ UNCHANGED <<facts, reports, last>>
      /\ pages' = {p \in pages : p[1] # r.id}
      /\ Recorded("delete-job-search-intent", intents[r.id].name)
  BY DEF DeletesIntent
<1>4. intents[r.id].name \in Names
  BY <1>1, <1>2 DEF Intents
<1>5. changes' \in 0..MaxChanges /\ change' \in Changes \cup {NoChange}
  BY <1>3, <1>4, Recording DEF Operations
<1>6. intents' \in [Ids -> Intents \cup {NoRow}] /\ intents'[r.id] = NoRow
      /\ \A i \in Ids \ {r.id} : intents'[i] = intents[i]
  BY <1>1, <1>2, <1>3
<1>7. pages' \in SUBSET (Ids \X Platforms)
      /\ \A i \in Ids, q \in Platforms : <<i, q>> \in pages' <=> i # r.id /\ <<i, q>> \in pages
  BY <1>3 DEF ContextInv, RowsOfTheirType
<1>8. RowsOfTheirType'
  BY <1>3, <1>5, <1>6, <1>7 DEF ContextInv, RowsOfTheirType
<1>9. OneSelected'
  BY <1>6 DEF ContextInv, OneSelected, Selected
<1>10. NamesAreUnique'
  BY <1>3, <1>6 DEF ContextInv, NamesAreUnique, Named, NamedIn
<1>11. PagesFollowIntents'
  BY <1>6, <1>7 DEF ContextInv, PagesFollowIntents
<1>12. IdsAreGivenOut'
  BY <1>3, <1>6 DEF ContextInv, IdsAreGivenOut
<1> QED
  BY <1>8, <1>9, <1>10, <1>11, <1>12 DEF ContextInv

(* A fact that is stored under a key no other fact has. *)
LEMMA FactStored ==
    ASSUME ContextInv, NEW id \in Ids, NEW key \in Names, StoresFact(id, key),
           last' \in [Tables -> 0..MaxRows],
           \A t \in Tables : last[t] <= last'[t],
           id <= last'["facts"], changes' \in 0..MaxChanges,
           change' \in Changes \cup {NoChange}
    PROVE  ContextInv'
<1>1. /\ facts' = [facts EXCEPT ![id] = key]
      /\ UNCHANGED <<intents, pages, reports>>
      /\ \A i \in Ids \ {id} : facts[i] # key
  BY DEF StoresFact
<1>2. facts \in [Ids -> Names \cup {NoRow}]
  BY DEF ContextInv, RowsOfTheirType
<1>3. /\ facts' \in [Ids -> Names \cup {NoRow}]
      /\ facts'[id] = key
      /\ \A i \in Ids \ {id} : facts'[i] = facts[i]
  BY <1>1, <1>2
<1>4. RowsOfTheirType'
  BY <1>1, <1>3 DEF ContextInv, RowsOfTheirType
<1>5. OneSelected'
  BY <1>1 DEF ContextInv, OneSelected, Selected
<1>6. NamesAreUnique'
  <2>1. \A i, j \in Ids : i # j /\ facts'[i] # NoRow => facts'[j] # facts'[i]
    BY <1>1, <1>3 DEF ContextInv, NamesAreUnique
  <2> QED
    BY <2>1, <1>1 DEF ContextInv, NamesAreUnique, Named, NamedIn
<1>7. PagesFollowIntents'
  BY <1>1 DEF ContextInv, PagesFollowIntents
<1>8. IdsAreGivenOut'
  <2>1. \A t \in Tables : last[t] \in Nat /\ last'[t] \in Nat
    BY ContextAssumption DEF ContextInv, RowsOfTheirType
  <2>2. Ids \subseteq Nat
    BY DEF Ids
  <2> QED
    BY <2>1, <2>2, <1>1, <1>3 DEF ContextInv, IdsAreGivenOut, Tables
<1> QED
  BY <1>4, <1>5, <1>6, <1>7, <1>8 DEF ContextInv

LEMMA FactChanged ==
    ASSUME ContextInv, NEW r \in Requests, CreatesFact(r) \/ UpdatesFact(r) \/ DeletesFact(r)
    PROVE  ContextInv'
<1>1. r.name \in Names /\ r.id \in Ids \cup {0}
  BY DEF Requests
<1>2. facts \in [Ids -> Names \cup {NoRow}]
  BY DEF ContextInv, RowsOfTheirType
<1>3. CASE CreatesFact(r)
  <2>1. Recorded("create-profile-fact", r.name) /\ GivesOut("facts")
        /\ StoresFact(Fresh("facts"), r.name)
    BY <1>3 DEF CreatesFact
  <2>2. changes' \in 0..MaxChanges /\ change' \in Changes \cup {NoChange}
    BY <2>1, <1>1, Recording DEF Operations
  <2>3. "facts" \in Tables
    BY DEF Tables
  <2>4. /\ Fresh("facts") \in Ids
        /\ last' \in [Tables -> 0..MaxRows]
        /\ \A t \in Tables : last[t] <= last'[t]
        /\ Fresh("facts") <= last'["facts"]
    BY <2>1, <2>3, GivingOut
  <2> QED
    BY <2>1, <2>2, <2>4, <1>1, FactStored
<1>4. CASE UpdatesFact(r)
  <2>1. /\ Recorded("update-profile-fact", r.name)
        /\ StoresFact(r.id, r.name)
        /\ last' = last
        /\ r.id \in Ids
        /\ facts[r.id] # NoRow
    BY <1>1, <1>4 DEF UpdatesFact
  <2>2. changes' \in 0..MaxChanges /\ change' \in Changes \cup {NoChange}
    BY <2>1, <1>1, Recording DEF Operations
  <2>3. /\ last' \in [Tables -> 0..MaxRows]
        /\ \A t \in Tables : last[t] \in Nat
        /\ r.id <= last'["facts"]
    BY <2>1, ContextAssumption DEF ContextInv, RowsOfTheirType, IdsAreGivenOut
  <2>4. \A t \in Tables : last[t] <= last'[t]
    BY <2>1, <2>3
  <2> QED
    BY <2>1, <2>2, <2>3, <2>4, <1>1, FactStored
<1>5. CASE DeletesFact(r)
  <2>1. /\ r.id \in Ids /\ facts[r.id] # NoRow
        /\ facts' = [facts EXCEPT ![r.id] = NoRow]
        /\ UNCHANGED <<intents, pages, reports, last>>
        /\ Recorded("delete-profile-fact", facts[r.id])
    BY <1>1, <1>5 DEF DeletesFact
  <2>2. facts[r.id] \in Names
    BY <1>2, <2>1
  <2>3. changes' \in 0..MaxChanges /\ change' \in Changes \cup {NoChange}
    BY <2>1, <2>2, Recording DEF Operations
  <2>4. /\ facts' \in [Ids -> Names \cup {NoRow}]
        /\ facts'[r.id] = NoRow
        /\ \A i \in Ids \ {r.id} : facts'[i] = facts[i]
    BY <1>2, <2>1
  <2>5. RowsOfTheirType'
    BY <2>1, <2>3, <2>4 DEF ContextInv, RowsOfTheirType
  <2>6. OneSelected'
    BY <2>1 DEF ContextInv, OneSelected, Selected
  <2>7. NamesAreUnique'
    <3>1. \A i, j \in Ids : i # j /\ facts'[i] # NoRow => facts'[j] # facts'[i]
      BY <2>4 DEF ContextInv, NamesAreUnique
    <3> QED
      BY <3>1, <2>1 DEF ContextInv, NamesAreUnique, Named, NamedIn
  <2>8. PagesFollowIntents' /\ IdsAreGivenOut'
    BY <2>1, <2>4 DEF ContextInv, PagesFollowIntents, IdsAreGivenOut
  <2> QED
    BY <2>5, <2>6, <2>7, <2>8 DEF ContextInv
<1> QED
  BY <1>3, <1>4, <1>5

LEMMA ReportChanged ==
    ASSUME ContextInv, NEW r \in Requests,
           CreatesReport(r) \/ UpdatesReport(r) \/ DeletesReport(r)
    PROVE  ContextInv'
<1>1. r.name \in Names /\ r.id \in Ids \cup {0}
  BY DEF Requests
<1>2. reports \in [Ids -> Names \cup {NoRow}]
  BY DEF ContextInv, RowsOfTheirType
<1>3. ASSUME NEW id \in Ids, NEW title \in Names \cup {NoRow},
             reports' = [reports EXCEPT ![id] = title],
             UNCHANGED <<intents, pages, facts>>,
             last' \in [Tables -> 0..MaxRows],
             \A t \in Tables : last[t] <= last'[t],
             id <= last'["reports"] \/ title = NoRow,
             changes' \in 0..MaxChanges, change' \in Changes \cup {NoChange}
      PROVE  ContextInv'
  <2>1. /\ reports' \in [Ids -> Names \cup {NoRow}]
        /\ reports'[id] = title
        /\ \A i \in Ids \ {id} : reports'[i] = reports[i]
    BY <1>2, <1>3
  <2>2. RowsOfTheirType'
    BY <1>3, <2>1 DEF ContextInv, RowsOfTheirType
  <2>3. OneSelected'
    BY <1>3 DEF ContextInv, OneSelected, Selected
  <2>4. NamesAreUnique'
    BY <1>3 DEF ContextInv, NamesAreUnique, Named, NamedIn
  <2>5. PagesFollowIntents'
    BY <1>3 DEF ContextInv, PagesFollowIntents
  <2>6. IdsAreGivenOut'
    <3>1. \A t \in Tables : last[t] \in Nat /\ last'[t] \in Nat
      BY <1>3, ContextAssumption DEF ContextInv, RowsOfTheirType
    <3>2. Ids \subseteq Nat
      BY DEF Ids
    <3> QED
      BY <3>1, <3>2, <1>3, <2>1 DEF ContextInv, IdsAreGivenOut, Tables
  <2> QED
    BY <2>2, <2>3, <2>4, <2>5, <2>6 DEF ContextInv
<1>4. CASE CreatesReport(r)
  <2>1. Recorded("create-research-report", r.name) /\ GivesOut("reports")
        /\ reports' = [reports EXCEPT ![Fresh("reports")] = r.name]
        /\ UNCHANGED <<intents, pages, facts>>
    BY <1>4 DEF CreatesReport
  <2>2. changes' \in 0..MaxChanges /\ change' \in Changes \cup {NoChange}
    BY <2>1, <1>1, Recording DEF Operations
  <2>3. "reports" \in Tables
    BY DEF Tables
  <2>4. /\ Fresh("reports") \in Ids
        /\ last' \in [Tables -> 0..MaxRows]
        /\ \A t \in Tables : last[t] <= last'[t]
        /\ Fresh("reports") <= last'["reports"]
    BY <2>1, <2>3, GivingOut
  <2> QED
    BY <2>1, <2>2, <2>4, <1>1, <1>3
<1>5. ASSUME UNCHANGED last
      PROVE  /\ last' \in [Tables -> 0..MaxRows]
             /\ \A t \in Tables : last[t] <= last'[t]
  <2>1. \A t \in Tables : last[t] \in Nat
    BY ContextAssumption DEF ContextInv, RowsOfTheirType
  <2> QED
    BY <1>5, <2>1 DEF ContextInv, RowsOfTheirType
<1>6. CASE UpdatesReport(r)
  <2>1. /\ Recorded("update-research-report", r.name)
        /\ r.id \in Ids /\ reports[r.id] # NoRow
        /\ reports' = [reports EXCEPT ![r.id] = r.name]
        /\ UNCHANGED <<intents, pages, facts, last>>
    BY <1>1, <1>6 DEF UpdatesReport
  <2>2. changes' \in 0..MaxChanges /\ change' \in Changes \cup {NoChange}
    BY <2>1, <1>1, Recording DEF Operations
  <2>3. r.id <= last'["reports"]
    BY <2>1 DEF ContextInv, IdsAreGivenOut
  <2> QED
    BY <2>1, <2>2, <2>3, <1>1, <1>3, <1>5
<1>7. CASE DeletesReport(r)
  <2>1. /\ Recorded("delete-research-report", reports[r.id])
        /\ r.id \in Ids /\ reports[r.id] # NoRow
        /\ reports' = [reports EXCEPT ![r.id] = NoRow]
        /\ UNCHANGED <<intents, pages, facts, last>>
    BY <1>1, <1>7 DEF DeletesReport
  <2>2. changes' \in 0..MaxChanges /\ change' \in Changes \cup {NoChange}
    BY <2>1, <1>2, Recording DEF Operations
  <2> QED
    BY <2>1, <2>2, <1>3, <1>5
<1> QED
  BY <1>4, <1>6, <1>7

(* What is served, refused included, keeps the tables consistent. *)
LEMMA ServingKeeps ==
    ASSUME ContextInv, NEW r \in Requests,
           Commits(r) \/ UNCHANGED contextVars
    PROVE  ContextInv'
<1>1. CASE Commits(r)
  BY <1>1, IntentSaved, IntentSelected, IntentDeleted, FactChanged, ReportChanged DEF Commits
<1>2. CASE UNCHANGED contextVars
  BY <1>2 DEF contextVars, ContextInv, RowsOfTheirType, OneSelected, NamesAreUnique,
              PagesFollowIntents, IdsAreGivenOut, Selected, Named, NamedIn
<1> QED
  BY <1>1, <1>2

-----------------------------------------------------------------------------
(* The log *)

(* A request that is served once changes the log by one entry, or nothing. *)
LEMMA CommitsAreCounted ==
    ASSUME ContextInv, NEW r \in Requests, Commits(r)
    PROVE  changes \in Nat /\ changes' = changes + 1
<1>1. changes \in Nat
  BY ContextAssumption DEF ContextInv, RowsOfTheirType
<1> QED
  BY <1>1 DEF Commits, CreatesIntent, UpdatesIntent, SelectsIntent, DeletesIntent,
     CreatesFact, UpdatesFact, DeletesFact, CreatesReport, UpdatesReport, DeletesReport,
     Recorded

(* What the log calls a row of each table, before and after a step. *)
LEMMA Naming ==
    /\ \A i : NameOf("intents", i) = IF intents[i] = NoRow THEN NoRow ELSE intents[i].name
    /\ \A i : NameOf("facts", i) = facts[i]
    /\ \A i : NameOf("reports", i) = reports[i]
    /\ \A i : NameOf("intents", i)' = IF intents'[i] = NoRow THEN NoRow ELSE intents'[i].name
    /\ \A i : NameOf("facts", i)' = facts'[i]
    /\ \A i : NameOf("reports", i)' = reports'[i]
BY DEF NameOf

(* A row of the intents that a step leaves alone, or takes the selection   *)
(* from, keeps its name.                                                   *)
LEMMA LeavingAlone ==
    ASSUME ContextInv, NEW i \in Ids,
           intents'[i] = intents[i] \/ intents'[i] = Unselected(intents[i])
    PROVE  /\ NameOf("intents", i)' = NameOf("intents", i)
           /\ Selected(i)' => Selected(i)
           /\ intents'[i] = Unselected(intents[i]) => ~(Selected(i)')
<1>1. intents[i] \in Intents \cup {NoRow}
  BY DEF ContextInv, RowsOfTheirType
<1>2. CASE intents[i] = NoRow
  <2>1. intents'[i] = NoRow
    BY <1>2 DEF Unselected
  <2> QED
    BY <1>2, <2>1, Naming DEF Selected
<1>3. CASE intents[i] # NoRow
  <2>1. intents[i] \in Intents
    BY <1>1, <1>3
  <2>2. Unselected(intents[i]) = [intents[i] EXCEPT !.selected = FALSE]
    BY <1>3 DEF Unselected
  <2>3. /\ Unselected(intents[i]) \in Intents
        /\ Unselected(intents[i]).name = intents[i].name
        /\ Unselected(intents[i]).selected = FALSE
    BY <2>1, <2>2 DEF Intents
  <2>4. intents'[i] # NoRow /\ intents'[i].name = intents[i].name
    BY <1>3, <2>3, ContextAssumption DEF Intents
  <2>5. Selected(i)' => Selected(i)
    BY <1>3, <2>3 DEF Selected
  <2>6. intents'[i] = Unselected(intents[i]) => ~(Selected(i)')
    BY <2>3 DEF Selected
  <2> QED
    BY <1>3, <2>4, <2>5, <2>6, Naming
<1> QED
  BY <1>2, <1>3

(* A step that keeps the names of the other rows, and of the intents the   *)
(* pages and the selection unless row i gets it, touches row i only.       *)
LEMMA TouchingAnIntent ==
    ASSUME NEW i \in Ids, UNCHANGED <<facts, reports>>,
           \A j \in Ids \ {i} :
              /\ NameOf("intents", j)' = NameOf("intents", j)
              /\ \A q \in Platforms : <<j, q>> \in pages' <=> <<j, q>> \in pages
              /\ Selected(j)' => Selected(j)
              /\ Selected(j) /\ ~(Selected(j)') => Selected(i)'
    PROVE  TouchesOnly("intents", i)
<1>1. \A j \in Ids : /\ NameOf("facts", j)' = NameOf("facts", j)
                     /\ NameOf("reports", j)' = NameOf("reports", j)
  BY Naming
<1>2. ASSUME NEW u \in Tables, NEW j \in Ids, u # "intents" \/ j # i
      PROVE  NameOf(u, j)' = NameOf(u, j)
  BY <1>1, <1>2 DEF Tables
<1> QED
  BY <1>2 DEF TouchesOnly

LEMMA TouchingAFact ==
    ASSUME NEW i \in Ids, UNCHANGED <<intents, pages, reports>>,
           \A j \in Ids \ {i} : facts'[j] = facts[j]
    PROVE  TouchesOnly("facts", i)
<1>1. \A j \in Ids : /\ NameOf("intents", j)' = NameOf("intents", j)
                     /\ NameOf("reports", j)' = NameOf("reports", j)
                     /\ j # i => NameOf("facts", j)' = NameOf("facts", j)
  BY Naming
<1>2. ASSUME NEW u \in Tables, NEW j \in Ids, u # "facts" \/ j # i
      PROVE  NameOf(u, j)' = NameOf(u, j)
  BY <1>1, <1>2 DEF Tables
<1>3. \A j \in Ids : Selected(j)' <=> Selected(j)
  BY DEF Selected
<1> QED
  BY <1>2, <1>3 DEF TouchesOnly

LEMMA TouchingAReport ==
    ASSUME NEW i \in Ids, UNCHANGED <<intents, pages, facts>>,
           \A j \in Ids \ {i} : reports'[j] = reports[j]
    PROVE  TouchesOnly("reports", i)
<1>1. \A j \in Ids : /\ NameOf("intents", j)' = NameOf("intents", j)
                     /\ NameOf("facts", j)' = NameOf("facts", j)
                     /\ j # i => NameOf("reports", j)' = NameOf("reports", j)
  BY Naming
<1>2. ASSUME NEW u \in Tables, NEW j \in Ids, u # "reports" \/ j # i
      PROVE  NameOf(u, j)' = NameOf(u, j)
  BY <1>1, <1>2 DEF Tables
<1>3. \A j \in Ids : Selected(j)' <=> Selected(j)
  BY DEF Selected
<1> QED
  BY <1>2, <1>3 DEF TouchesOnly

(* A fresh id is the id of no row. *)
LEMMA FreshRow ==
    ASSUME ContextInv, NEW t \in Tables, GivesOut(t)
    PROVE  /\ Fresh(t) \in Ids
           /\ NameOf(t, Fresh(t)) = NoRow
           /\ t = "intents" => intents[Fresh(t)] = NoRow
<1>1. Fresh(t) \in Ids /\ last[t] \in Int /\ Fresh(t) = last[t] + 1
  BY GivingOut, ContextAssumption DEF ContextInv, RowsOfTheirType, Fresh
<1>2. ~(Fresh(t) <= last[t])
  BY <1>1
<1>3. CASE t = "intents"
  BY <1>1, <1>2, <1>3, Naming DEF ContextInv, IdsAreGivenOut
<1>4. CASE t = "facts"
  BY <1>1, <1>2, <1>4, Naming DEF ContextInv, IdsAreGivenOut
<1>5. CASE t = "reports"
  BY <1>1, <1>2, <1>5, Naming DEF ContextInv, IdsAreGivenOut
<1> QED
  BY <1>1, <1>3, <1>4, <1>5 DEF Tables

(* An intent that was saved is the one the log names, and another one      *)
(* loses the selection only to it.                                         *)
LEMMA SavingIsRecorded ==
    ASSUME ContextInv, NEW id \in Ids, NEW r \in Requests, NEW operation, StoresIntent(id, r),
           Recorded(operation, r.name),
           \/ operation = "create-job-search-intent" /\ intents[id] = NoRow
           \/ operation = "update-job-search-intent" /\ intents[id] # NoRow
    PROVE  RecordsChange
<1>1. /\ changes' = changes + 1
      /\ change'.subject = r.name /\ change'.operation = operation
      /\ r.name \in Names
  BY DEF Recorded, Requests
<1>2. intents'[id] = [name |-> r.name, selected |-> r.selected]
  BY DEF StoresIntent
<1>3. [name |-> r.name, selected |-> r.selected] # NoRow
  BY ContextAssumption DEF Requests
<1>4. NameOf("intents", id)' = r.name /\ (Selected(id)' <=> r.selected)
  BY <1>2, <1>3, Naming DEF Selected
<1>5. ASSUME NEW j \in Ids \ {id}
      PROVE  /\ NameOf("intents", j)' = NameOf("intents", j)
             /\ \A q \in Platforms : <<j, q>> \in pages' <=> <<j, q>> \in pages
             /\ Selected(j)' => Selected(j)
             /\ Selected(j) /\ ~(Selected(j)') => Selected(id)'
  <2>1. intents'[j] = IF r.selected THEN Unselected(intents[j]) ELSE intents[j]
    BY DEF StoresIntent
  <2>2. ~r.selected => (Selected(j)' <=> Selected(j))
    BY <2>1 DEF Selected
  <2>3. \A q \in Platforms : <<j, q>> \in pages' <=> <<j, q>> \in pages
    BY DEF StoresIntent
  <2> QED
    BY <1>4, <2>1, <2>2, <2>3, LeavingAlone
<1>6. TouchesOnly("intents", id)
  BY <1>5, TouchingAnIntent DEF StoresIntent
<1>7. intents[id] # NoRow => NameOf("intents", id) # NoRow
  BY Naming, ContextAssumption DEF ContextInv, RowsOfTheirType, Intents
<1>8. Describes("intents", id)
  BY <1>1, <1>4, <1>7, Naming DEF Describes, Creation, Update
<1> QED
  BY <1>1, <1>6, <1>8 DEF RecordsChange, Tables

(* So is the one that is made the current one. *)
LEMMA SelectingIsRecorded ==
    ASSUME ContextInv, NEW r \in Requests, SelectsIntent(r)
    PROVE  RecordsChange
<1>1. /\ r.id \in Ids /\ intents[r.id] # NoRow
      /\ change'.subject = intents[r.id].name
      /\ change'.operation = "select-job-search-intent"
      /\ changes' = changes + 1
      /\ UNCHANGED <<pages, facts, reports>>
  BY DEF SelectsIntent, Recorded, Requests
<1>2. intents[r.id] \in Intents
  BY <1>1 DEF ContextInv, RowsOfTheirType
<1>3. intents'[r.id] = [intents[r.id] EXCEPT !.selected = TRUE]
  BY <1>1 DEF SelectsIntent
<1>4. /\ intents'[r.id] \in Intents /\ intents'[r.id].name = intents[r.id].name
      /\ intents'[r.id].selected = TRUE
  BY <1>2, <1>3 DEF Intents
<1>5. intents'[r.id] # NoRow
  BY <1>4, ContextAssumption DEF Intents
<1>6. /\ NameOf("intents", r.id)' = change'.subject
      /\ NameOf("intents", r.id) = change'.subject
      /\ Selected(r.id)'
  BY <1>1, <1>4, <1>5, Naming DEF Selected
<1>7. ASSUME NEW j \in Ids \ {r.id}
      PROVE  /\ NameOf("intents", j)' = NameOf("intents", j)
             /\ Selected(j)' => Selected(j)
  <2>1. intents'[j] = Unselected(intents[j])
    BY DEF SelectsIntent
  <2> QED
    BY <2>1, LeavingAlone
<1>8. TouchesOnly("intents", r.id)
  BY <1>1, <1>6, <1>7, TouchingAnIntent
<1>9. Describes("intents", r.id)
  BY <1>1, <1>6 DEF Describes
<1>10. change'.subject \in Names
  BY <1>1, <1>2 DEF Intents
<1> QED
  BY <1>1, <1>8, <1>9, <1>10 DEF RecordsChange, Tables

(* And the one that is deleted, with its pages. *)
LEMMA DeletingIsRecorded ==
    ASSUME ContextInv, NEW r \in Requests, DeletesIntent(r)
    PROVE  RecordsChange
<1>1. /\ r.id \in Ids /\ intents[r.id] # NoRow
      /\ change'.subject = intents[r.id].name
      /\ change'.operation = "delete-job-search-intent"
      /\ changes' = changes + 1
      /\ intents' = [intents EXCEPT ![r.id] = NoRow]
      /\ pages' = {p \in pages : p[1] # r.id}
      /\ UNCHANGED <<facts, reports>>
  BY DEF DeletesIntent, Recorded, Requests
<1>2. intents \in [Ids -> Intents \cup {NoRow}] /\ intents[r.id] \in Intents
  BY <1>1 DEF ContextInv, RowsOfTheirType
<1>3. intents'[r.id] = NoRow /\ \A j \in Ids \ {r.id} : intents'[j] = intents[j]
  BY <1>1, <1>2
<1>4. NameOf("intents", r.id) = change'.subject /\ NameOf("intents", r.id)' = NoRow
  BY <1>1, <1>3, Naming
<1>5. ASSUME NEW j \in Ids \ {r.id}
      PROVE  /\ NameOf("intents", j)' = NameOf("intents", j)
             /\ \A q \in Platforms : <<j, q>> \in pages' <=> <<j, q>> \in pages
             /\ Selected(j)' <=> Selected(j)
  BY <1>1, <1>3, Naming DEF Selected
<1>6. TouchesOnly("intents", r.id)
  BY <1>1, <1>5, TouchingAnIntent
<1>7. Describes("intents", r.id)
  BY <1>1, <1>4 DEF Describes, Deletion
<1>8. change'.subject \in Names
  BY <1>1, <1>2 DEF Intents
<1> QED
  BY <1>1, <1>6, <1>7, <1>8 DEF RecordsChange, Tables

LEMMA FactIsRecorded ==
    ASSUME ContextInv, NEW r \in Requests, CreatesFact(r) \/ UpdatesFact(r) \/ DeletesFact(r)
    PROVE  RecordsChange
<1>1. r.id \in Ids \cup {0} /\ r.name \in Names
  BY DEF Requests
<1>2. facts \in [Ids -> Names \cup {NoRow}]
  BY DEF ContextInv, RowsOfTheirType
<1>3. ASSUME NEW i \in Ids, NEW row \in Names \cup {NoRow}, facts' = [facts EXCEPT ![i] = row],
             UNCHANGED <<intents, pages, reports>>
      PROVE  /\ TouchesOnly("facts", i)
             /\ NameOf("facts", i) = facts[i] /\ NameOf("facts", i)' = row
  BY <1>2, <1>3, TouchingAFact, Naming
<1>4. CASE CreatesFact(r)
  <2>1. PICK i \in Ids : i = Fresh("facts") /\ NameOf("facts", i) = NoRow
    BY <1>4, FreshRow DEF CreatesFact, Tables
  <2>2. /\ facts' = [facts EXCEPT ![i] = r.name]
        /\ UNCHANGED <<intents, pages, reports>>
        /\ changes' = changes + 1
        /\ change'.subject = r.name /\ change'.operation = "create-profile-fact"
    BY <1>4, <2>1 DEF CreatesFact, StoresFact, Recorded
  <2>3. TouchesOnly("facts", i) /\ Describes("facts", i)
    BY <1>1, <1>3, <2>1, <2>2 DEF Describes, Creation
  <2> QED
    BY <1>1, <2>1, <2>2, <2>3 DEF RecordsChange, Tables
<1>5. CASE UpdatesFact(r)
  <2>1. /\ r.id \in Ids /\ facts[r.id] # NoRow
        /\ facts' = [facts EXCEPT ![r.id] = r.name]
        /\ UNCHANGED <<intents, pages, reports>>
        /\ changes' = changes + 1
        /\ change'.subject = r.name /\ change'.operation = "update-profile-fact"
    BY <1>1, <1>5 DEF UpdatesFact, StoresFact, Recorded
  <2>2. TouchesOnly("facts", r.id) /\ Describes("facts", r.id)
    BY <1>1, <1>3, <2>1 DEF Describes, Update
  <2> QED
    BY <1>1, <2>1, <2>2 DEF RecordsChange, Tables
<1>6. CASE DeletesFact(r)
  <2>1. /\ r.id \in Ids /\ facts[r.id] # NoRow
        /\ facts' = [facts EXCEPT ![r.id] = NoRow]
        /\ UNCHANGED <<intents, pages, reports>>
        /\ changes' = changes + 1
        /\ change'.subject = facts[r.id] /\ change'.operation = "delete-profile-fact"
    BY <1>1, <1>6 DEF DeletesFact, Recorded
  <2>2. TouchesOnly("facts", r.id) /\ Describes("facts", r.id)
    BY <1>3, <2>1 DEF Describes, Deletion
  <2> QED
    BY <1>2, <2>1, <2>2 DEF RecordsChange, Tables
<1> QED
  BY <1>4, <1>5, <1>6

LEMMA ReportIsRecorded ==
    ASSUME ContextInv, NEW r \in Requests,
           CreatesReport(r) \/ UpdatesReport(r) \/ DeletesReport(r)
    PROVE  RecordsChange
<1>1. r.id \in Ids \cup {0} /\ r.name \in Names
  BY DEF Requests
<1>2. reports \in [Ids -> Names \cup {NoRow}]
  BY DEF ContextInv, RowsOfTheirType
<1>3. ASSUME NEW i \in Ids, NEW row \in Names \cup {NoRow},
             reports' = [reports EXCEPT ![i] = row], UNCHANGED <<intents, pages, facts>>
      PROVE  /\ TouchesOnly("reports", i)
             /\ NameOf("reports", i) = reports[i] /\ NameOf("reports", i)' = row
  BY <1>2, <1>3, TouchingAReport, Naming
<1>4. CASE CreatesReport(r)
  <2>1. PICK i \in Ids : i = Fresh("reports") /\ NameOf("reports", i) = NoRow
    BY <1>4, FreshRow DEF CreatesReport, Tables
  <2>2. /\ reports' = [reports EXCEPT ![i] = r.name]
        /\ UNCHANGED <<intents, pages, facts>>
        /\ changes' = changes + 1
        /\ change'.subject = r.name /\ change'.operation = "create-research-report"
    BY <1>4, <2>1 DEF CreatesReport, Recorded
  <2>3. TouchesOnly("reports", i) /\ Describes("reports", i)
    BY <1>1, <1>3, <2>1, <2>2 DEF Describes, Creation
  <2> QED
    BY <1>1, <2>1, <2>2, <2>3 DEF RecordsChange, Tables
<1>5. CASE UpdatesReport(r)
  <2>1. /\ r.id \in Ids /\ reports[r.id] # NoRow
        /\ reports' = [reports EXCEPT ![r.id] = r.name]
        /\ UNCHANGED <<intents, pages, facts>>
        /\ changes' = changes + 1
        /\ change'.subject = r.name /\ change'.operation = "update-research-report"
    BY <1>1, <1>5 DEF UpdatesReport, Recorded
  <2>2. TouchesOnly("reports", r.id) /\ Describes("reports", r.id)
    BY <1>1, <1>3, <2>1 DEF Describes, Update
  <2> QED
    BY <1>1, <2>1, <2>2 DEF RecordsChange, Tables
<1>6. CASE DeletesReport(r)
  <2>1. /\ r.id \in Ids /\ reports[r.id] # NoRow
        /\ reports' = [reports EXCEPT ![r.id] = NoRow]
        /\ UNCHANGED <<intents, pages, facts>>
        /\ changes' = changes + 1
        /\ change'.subject = reports[r.id] /\ change'.operation = "delete-research-report"
    BY <1>1, <1>6 DEF DeletesReport, Recorded
  <2>2. TouchesOnly("reports", r.id) /\ Describes("reports", r.id)
    BY <1>3, <2>1 DEF Describes, Deletion
  <2> QED
    BY <1>2, <2>1, <2>2 DEF RecordsChange, Tables
<1> QED
  BY <1>4, <1>5, <1>6

(* Whatever is served leaves its entry in the log, and the entry says what *)
(* it has done.                                                            *)
LEMMA CommitsAreRecorded ==
    ASSUME ContextInv, NEW r \in Requests, Commits(r)
    PROVE  RecordsChange
<1>1. CASE CreatesIntent(r)
  <2>1. PICK i \in Ids : i = Fresh("intents") /\ intents[i] = NoRow
    BY <1>1, FreshRow DEF CreatesIntent, Tables
  <2> QED
    BY <1>1, <2>1, SavingIsRecorded DEF CreatesIntent
<1>2. CASE UpdatesIntent(r)
  <2>1. r.id \in Ids
    BY <1>2 DEF UpdatesIntent, Requests
  <2> QED
    BY <1>2, <2>1, SavingIsRecorded DEF UpdatesIntent
<1> QED
  BY <1>1, <1>2, SelectingIsRecorded, DeletingIsRecorded, FactIsRecorded, ReportIsRecorded
     DEF Commits

-----------------------------------------------------------------------------
(* The page *)

Calls == [request : Requests, phase : {"sent", "accepted", "refused"}, at : 0..MaxChanges]
Forms == [kind : {"edit", "remove"}, id : Ids \cup {0}]

(* An answer, to a read or shown, that is an overview has the rows of one. *)
OverviewRows(a) ==
    IsAnswer(a) /\ a.question.view = "overview" =>
        a.rows["intents"] \in [Ids -> Intents \cup {NoRow}]

(* What the page shows is about the view it asks for, though not about the *)
(* same filter or page; an answer under way is about the very question.    *)
AnswersItsQuestion ==
    /\ IsAnswer(read) => read.question = question
    /\ IsAnswer(shown) => shown.question.view = question.view
    /\ OverviewRows(read) /\ OverviewRows(shown)

(* The requests under way are ones the service understands, and no answer  *)
(* is about a change that was not recorded.                                *)
CallsAreKnown ==
    /\ form \in [Sections -> Forms \cup {NoForm}]
    /\ call \in [Sections -> Calls \cup {NoCall}]
    /\ orphans \in SUBSET Calls
    /\ \A c \in InFlight(call) \cup orphans : c.at <= changes
    /\ seen \in 0..changes

PageInv ==
    /\ ContextInv
    /\ CallsAreKnown
    /\ AnswersItsQuestion
    /\ managing => OnOverview
    /\ ShowsWhatIsAsked

(* The page shows an overview when its dialog is open. *)
LEMMA ManagedRows ==
    ASSUME PageInv, managing
    PROVE  /\ question.view = "overview"
           /\ shown.rows["intents"] \in [Ids -> Intents \cup {NoRow}]
BY DEF PageInv, OnOverview, Overview, AnswersItsQuestion, OverviewRows

(* Whatever the user submits is a request the service understands. *)
LEMMA OffersRequests ==
    ASSUME PageInv, managing, NEW s \in Sections, NEW r \in Offered(s)
    PROVE  r \in Requests
<1>1. shown.rows["intents"] \in [Ids -> Intents \cup {NoRow}]
  BY ManagedRows
<1>2. \A i : SavesAsCurrent(i) \in BOOLEAN
  <2> TAKE i
  <2>1. CASE i \in Rows("intents")
    <3>1. i \in Ids /\ shown.rows["intents"][i] # NoRow
      BY <2>1 DEF Rows
    <3>2. shown.rows["intents"][i] \in Intents
      BY <1>1, <3>1
    <3>3. shown.rows["intents"][i].selected \in BOOLEAN
      BY <3>2 DEF Intents
    <3> QED
      BY <2>1, <3>3 DEF SavesAsCurrent
  <2>2. CASE i \notin Rows("intents")
    BY <2>2 DEF SavesAsCurrent
  <2> QED
    BY <2>1, <2>2
<1>3. ASSUME NEW op \in {"save-intent", "select-intent", "delete-intent", "save-fact", "delete-fact"},
             NEW i \in Ids \cup {0}, NEW d \in Drafts, NEW b \in BOOLEAN
      PROVE  Request(op, i, d, b) \in Requests
  <2>1. d.name \in Names /\ d.pages \in SUBSET Platforms
    BY DashboardAssumption
  <2> QED
    BY <2>1 DEF Request, Requests
<1>4. SomeDraft \in Drafts
  BY DashboardAssumption DEF SomeDraft
<1>5. CASE \E i \in Rows("intents") : r = Selection(i)
  BY <1>5, <1>4, <1>3 DEF Selection, Rows
<1>6. CASE form[s] # NoForm /\ (r \in Saves(s, form[s].id) \/ r = Removal(s, form[s].id))
  <2>1. form[s] \in Forms
    BY <1>6 DEF PageInv, CallsAreKnown
  <2>2. form[s].id \in Ids \cup {0}
    BY <2>1 DEF Forms
  <2>3. CASE r \in Saves(s, form[s].id)
    <3>1. \/ \E d \in Drafts : r = Request("save-intent", form[s].id, d, SavesAsCurrent(form[s].id))
          \/ \E d \in Drafts : r = Request("save-fact", form[s].id, d, FALSE)
      BY <2>3 DEF Saves
    <3> QED
      BY <3>1, <2>2, <1>2, <1>3
  <2>4. CASE r = Removal(s, form[s].id)
    <3>1. \/ r = Request("delete-intent", form[s].id, SomeDraft, FALSE)
          \/ r = Request("delete-fact", form[s].id, SomeDraft, FALSE)
      BY <2>4 DEF Removal
    <3> QED
      BY <3>1, <2>2, <1>3, <1>4
  <2> QED
    BY <1>6, <2>3, <2>4
<1> QED
  BY <1>5, <1>6 DEF Offered

(* Serving a change is a step of the tables, or leaves them alone. *)
LEMMA ServingIsCommitting ==
    ASSUME PageInv, NEW c \in Calls, NEW done \in Served(c), Serves(c, done), c.at <= changes
    PROVE  /\ Commits(c.request) \/ UNCHANGED contextVars
           /\ c.request \in Requests
           /\ done \in Calls
           /\ done.at <= changes'
           /\ changes <= changes'
<1>1. c.request \in Requests /\ c.at \in Nat
  BY ContextAssumption DEF Calls
<1>2. changes \in Nat
  BY ContextAssumption DEF PageInv, ContextInv, RowsOfTheirType
<1>4. done \in Calls
  BY <1>1 DEF Served, Calls
<1>5. CASE Commits(c.request) /\ done = [c EXCEPT !.phase = "accepted", !.at = changes + 1]
  <2>1. changes' = changes + 1
    BY <1>1, <1>5, CommitsAreCounted DEF PageInv
  <2>2. done.at = changes + 1
    BY <1>5 DEF Calls
  <2> QED
    BY <1>1, <1>2, <1>4, <1>5, <2>1, <2>2
<1>6. CASE NothingToDelete(c.request) /\ done = [c EXCEPT !.phase = "accepted", !.at = changes]
  <2>1. UNCHANGED contextVars /\ done.at = changes
    BY <1>6 DEF NothingToDelete, Calls
  <2> QED
    BY <1>1, <1>2, <1>4, <2>1 DEF contextVars
<1>7. CASE Refuses(c.request) /\ done = [c EXCEPT !.phase = "refused"]
  <2>1. UNCHANGED contextVars /\ done.at = c.at
    BY <1>7 DEF Refuses, Calls
  <2> QED
    BY <1>1, <1>2, <1>4, <2>1 DEF contextVars
<1> QED
  BY <1>5, <1>6, <1>7 DEF Serves

(* Each step changes the tables by one request, or not at all. *)
LEMMA StepsCommit ==
    ASSUME PageInv, [DashboardNext]_vars
    PROVE  \/ \E r \in Requests : Commits(r)
           \/ UNCHANGED contextVars
<1>1. CASE \E s \in Sections : ServeChange(s)
  <2>1. PICK s \in Sections : ServeChange(s)
    BY <1>1
  <2>2. call[s] \in Calls /\ call[s].at <= changes
    BY <2>1 DEF ServeChange, PageInv, CallsAreKnown, InFlight
  <2>3. PICK done \in Served(call[s]) : Serves(call[s], done)
    BY <2>1 DEF ServeChange
  <2> QED
    BY <2>2, <2>3, ServingIsCommitting
<1>2. CASE \E c \in orphans : ServeOrphan(c)
  <2>1. PICK c \in orphans : ServeOrphan(c)
    BY <1>2
  <2>2. c \in Calls /\ c.at <= changes
    BY <2>1 DEF PageInv, CallsAreKnown
  <2>3. PICK done \in Served(c) : Serves(c, done)
    BY <2>1 DEF ServeOrphan
  <2> QED
    BY <2>2, <2>3, ServingIsCommitting
<1>3. CASE OtherClient
  BY <1>3, DashboardAssumption DEF OtherClient
<1>4. CASE UNCHANGED vars
  BY <1>4 DEF vars
<1>5. CASE \/ Poll \/ Retry \/ ServeRead \/ ReadArrives \/ ReadFails
           \/ Leave \/ ComeBack \/ Visit \/ ChangeFilter \/ ChangePage
           \/ OpenManager \/ CloseManager
  BY <1>5 DEF Poll, Retry, ServeRead, ReadArrives, ReadFails, Leave, ComeBack, Visit,
              ChangeFilter, ChangePage, OpenManager, CloseManager
<1>6. CASE \E s \in Sections : OpensForm(s) \/ Cancels(s) \/ Submits(s)
                               \/ ChangeArrives(s) \/ ChangeFails(s)
  BY <1>6 DEF OpensForm, Cancels, Submits, ChangeArrives, ChangeFails
<1>7. CASE \E c \in orphans : OrphanArrives(c) \/ OrphanFails(c)
  BY <1>7 DEF OrphanArrives, OrphanFails
<1> QED
  BY <1>1, <1>2, <1>3, <1>4, <1>5, <1>6, <1>7 DEF DashboardNext

(* No step takes the log back. *)
LEMMA LogGrows ==
    ASSUME PageInv, [DashboardNext]_vars
    PROVE  ContextInv' /\ changes \in Nat /\ changes' \in Nat /\ changes <= changes'
<1>1. changes \in Nat
  BY ContextAssumption DEF PageInv, ContextInv, RowsOfTheirType
<1>2. CASE \E r \in Requests : Commits(r)
  <2>1. PICK r \in Requests : Commits(r)
    BY <1>2
  <2>2. ContextInv'
    BY <2>1, ServingKeeps DEF PageInv
  <2>3. changes' = changes + 1
    BY <2>1, CommitsAreCounted DEF PageInv
  <2> QED
    BY <1>1, <2>2, <2>3
<1>3. CASE UNCHANGED contextVars
  <2>1. changes' = changes
    BY <1>3 DEF contextVars
  <2>2. ContextInv'
    BY <1>3 DEF contextVars, PageInv, ContextInv, RowsOfTheirType, OneSelected, NamesAreUnique,
                PagesFollowIntents, IdsAreGivenOut, Selected, Named, NamedIn
  <2> QED
    BY <1>1, <2>1, <2>2
<1> QED
  BY <1>2, <1>3, StepsCommit

(* Calls that stay, go or are kept as orphans are known in the next state. *)
LEMMA CallsStayKnown ==
    ASSUME PageInv, changes \in Nat, changes' \in Nat, changes <= changes',
           form' \in [Sections -> Forms \cup {NoForm}],
           call' \in [Sections -> Calls \cup {NoCall}],
           InFlight(call') \subseteq InFlight(call),
           orphans' \subseteq orphans \cup InFlight(call),
           seen' \in 0..changes'
    PROVE  CallsAreKnown'
<1>1. InFlight(call) \subseteq Calls
  BY DEF PageInv, CallsAreKnown, InFlight
<1>2. \A c \in InFlight(call) \cup orphans : c \in Calls /\ c.at <= changes
  BY <1>1 DEF PageInv, CallsAreKnown
<1>3. \A c \in InFlight(call') \cup orphans' : c \in Calls /\ c.at <= changes'
  <2> TAKE c \in InFlight(call') \cup orphans'
  <2>1. c \in InFlight(call) \cup orphans
    OBVIOUS
  <2>2. c \in Calls /\ c.at <= changes
    BY <1>2, <2>1
  <2>3. c.at \in Nat
    BY <2>2, ContextAssumption DEF Calls
  <2> QED
    BY <2>2, <2>3
<1>4. \A c \in InFlight(call)' : c \in InFlight(call')
  BY DEF InFlight
<1> QED
  BY <1>3, <1>4 DEF CallsAreKnown

LEMMA CallsStep ==
    ASSUME PageInv, [DashboardNext]_vars
    PROVE  CallsAreKnown'
<1>1. ContextInv' /\ changes \in Nat /\ changes' \in Nat /\ changes <= changes'
  BY LogGrows
<1>2. /\ form \in [Sections -> Forms \cup {NoForm}]
      /\ call \in [Sections -> Calls \cup {NoCall}]
      /\ orphans \in SUBSET Calls
      /\ \A c \in InFlight(call) \cup orphans : c.at <= changes
      /\ seen \in 0..changes
  BY DEF PageInv, CallsAreKnown
<1>3. seen \in 0..changes'
  BY <1>1, <1>2
<1>4. CASE UNCHANGED <<form, call, orphans, seen>>
  BY <1>1, <1>2, <1>3, <1>4, CallsStayKnown
<1>5. CASE Unmounted /\ UNCHANGED seen
  <2>1. InFlight(call') = {}
    BY <1>5 DEF Unmounted, InFlight
  <2>2. /\ form' \in [Sections -> Forms \cup {NoForm}]
        /\ call' \in [Sections -> Calls \cup {NoCall}]
        /\ orphans' = orphans \cup InFlight(call)
    BY <1>5 DEF Unmounted
  <2> QED
    BY <1>1, <1>3, <1>5, <2>1, <2>2, CallsStayKnown
<1>6. CASE Visit
  <2>1. InFlight(call') = {}
    BY <1>6 DEF Visit, InFlight
  <2>2. /\ form' \in [Sections -> Forms \cup {NoForm}]
        /\ call' \in [Sections -> Calls \cup {NoCall}]
        /\ orphans' = {} /\ seen' = seen
    BY <1>6 DEF Visit
  <2> QED
    BY <1>1, <1>3, <2>1, <2>2, CallsStayKnown
<1>7. ASSUME NEW s \in Sections, OpensForm(s) \/ Cancels(s)
      PROVE  CallsAreKnown'
  <2>1. UNCHANGED <<call, orphans, seen>>
    BY <1>7 DEF OpensForm, Cancels
  <2>2. form' \in [Sections -> Forms \cup {NoForm}]
    <3>1. \E f \in Forms \cup {NoForm} : form' = [form EXCEPT ![s] = f]
      BY <1>7 DEF OpensForm, Cancels, Forms, Rows
    <3> QED
      BY <3>1, <1>2
  <2> QED
    BY <1>1, <1>2, <1>3, <2>1, <2>2, CallsStayKnown
<1>8. ASSUME NEW s \in Sections, ChangeArrives(s) \/ ChangeFails(s)
      PROVE  CallsAreKnown'
  <2>1. call[s] # NoCall /\ call' = [call EXCEPT ![s] = NoCall] /\ orphans' = orphans
    BY <1>8 DEF ChangeArrives, ChangeFails
  <2>2. call[s] \in Calls /\ call[s].at <= changes
    BY <1>2, <2>1 DEF InFlight
  <2>3. call[s].at \in Nat
    BY <2>2, ContextAssumption DEF Calls
  <2>4. form' \in [Sections -> Forms \cup {NoForm}]
    BY <1>2, <1>8 DEF ChangeArrives, ChangeFails
  <2>5. call' \in [Sections -> Calls \cup {NoCall}] /\ InFlight(call') \subseteq InFlight(call)
    BY <1>2, <2>1 DEF InFlight
  <2>6. seen' \in 0..changes'
    BY <1>1, <1>2, <1>3, <1>8, <2>2, <2>3 DEF ChangeArrives, ChangeFails, Acknowledged
  <2> QED
    BY <1>1, <2>1, <2>4, <2>5, <2>6, CallsStayKnown
<1>9. ASSUME NEW c \in orphans, OrphanArrives(c) \/ OrphanFails(c)
      PROVE  CallsAreKnown'
  <2>1. c.at <= changes /\ c.at \in Nat
    BY <1>2, ContextAssumption DEF Calls
  <2>2. UNCHANGED <<form, call>> /\ orphans' = orphans \ {c}
    BY <1>9 DEF OrphanArrives, OrphanFails
  <2>3. seen' \in 0..changes'
    BY <1>1, <1>2, <1>3, <1>9, <2>1 DEF OrphanArrives, OrphanFails, Acknowledged
  <2> QED
    BY <1>1, <1>2, <2>2, <2>3, CallsStayKnown
<1>10. ASSUME NEW s \in Sections, NEW c \in Calls, call' = [call EXCEPT ![s] = c],
              c.at <= changes', UNCHANGED <<form, orphans, seen>>
       PROVE  CallsAreKnown'
  <2>1. call' \in [Sections -> Calls \cup {NoCall}]
    BY <1>2, <1>10
  <2>2. \A d \in InFlight(call)' : d = c \/ d \in InFlight(call)
    BY <1>2, <1>10 DEF InFlight
  <2>3. \A d \in InFlight(call) \cup orphans : d \in Calls
    BY <1>2 DEF InFlight
  <2>4. \A d \in InFlight(call) \cup orphans : d.at \in Nat
    BY <2>3, ContextAssumption DEF Calls
  <2>5. \A d \in InFlight(call)' \cup orphans' : d.at <= changes'
    BY <1>1, <1>2, <1>10, <2>2, <2>4
  <2> QED
    BY <1>2, <1>3, <1>10, <2>1, <2>5 DEF CallsAreKnown
<1>11. ASSUME NEW s \in Sections, Submits(s)
       PROVE  CallsAreKnown'
  <2>1. PICK r \in Offered(s) :
            call' = [call EXCEPT ![s] = [request |-> r, phase |-> "sent", at |-> 0]]
    BY <1>11 DEF Submits
  <2>2. r \in Requests
    BY <1>11, OffersRequests DEF Submits
  <2>3. [request |-> r, phase |-> "sent", at |-> 0] \in Calls
    BY <2>2, ContextAssumption DEF Calls
  <2>4. UNCHANGED <<form, orphans, seen>>
    BY <1>11 DEF Submits
  <2>5. [request |-> r, phase |-> "sent", at |-> 0].at <= changes'
    BY <1>1
  <2> QED
    BY <1>10, <2>1, <2>3, <2>4, <2>5
<1>12. ASSUME NEW s \in Sections, ServeChange(s)
       PROVE  CallsAreKnown'
  <2>1. call[s] \in Calls /\ call[s].at <= changes
    BY <1>2, <1>12 DEF ServeChange, InFlight
  <2>2. PICK done \in Served(call[s]) : /\ Serves(call[s], done)
                                        /\ call' = [call EXCEPT ![s] = done]
    BY <1>12 DEF ServeChange
  <2>3. done \in Calls /\ done.at <= changes'
    BY <2>1, <2>2, ServingIsCommitting
  <2>4. UNCHANGED <<form, orphans, seen>>
    BY <1>12 DEF ServeChange
  <2> QED
    BY <1>10, <2>2, <2>3, <2>4
<1>13. ASSUME NEW c \in orphans, ServeOrphan(c)
       PROVE  CallsAreKnown'
  <2>1. PICK done \in Served(c) : Serves(c, done) /\ orphans' = (orphans \ {c}) \cup {done}
    BY <1>13 DEF ServeOrphan
  <2>2. c \in Calls /\ c.at <= changes
    BY <1>2
  <2>3. done \in Calls /\ done.at <= changes'
    BY <2>1, <2>2, ServingIsCommitting
  <2>4. UNCHANGED <<form, call, seen>>
    BY <1>13 DEF ServeOrphan
  <2>5. \A d \in InFlight(call) \cup orphans : d \in Calls
    BY <1>2 DEF InFlight
  <2>6. \A d \in InFlight(call) \cup orphans : d.at \in Nat
    BY <2>5, ContextAssumption DEF Calls
  <2>7. \A d \in InFlight(call)' \cup orphans' : d.at <= changes'
    BY <1>1, <1>2, <2>1, <2>3, <2>4, <2>6 DEF InFlight
  <2>8. orphans' \in SUBSET Calls
    BY <1>2, <2>1, <2>3
  <2> QED
    BY <1>2, <1>3, <2>4, <2>7, <2>8 DEF CallsAreKnown
<1>14. CASE Poll \/ Retry \/ ServeRead \/ ReadArrives \/ Leave \/ ComeBack \/ ChangeFilter
            \/ ChangePage \/ OpenManager \/ OtherClient \/ UNCHANGED vars
  <2>1. UNCHANGED <<form, call, orphans, seen>>
    BY <1>14 DEF Poll, Retry, ServeRead, ReadArrives, Leave, ComeBack, ChangeFilter, ChangePage,
                 OpenManager, OtherClient, Mounted, vars, pageVars
  <2> QED
    BY <1>4, <2>1
<1>15. CASE ReadFails \/ CloseManager
  BY <1>5, <1>15 DEF ReadFails, CloseManager
<1> QED
  BY <1>6, <1>7, <1>8, <1>9, <1>11, <1>12, <1>13, <1>14, <1>15 DEF DashboardNext

(* What the part of the invariant that is about what the page shows says   *)
(* of the next state.                                                      *)
ShowsInv ==
    /\ AnswersItsQuestion
    /\ managing => OnOverview
    /\ ShowsWhatIsAsked

LEMMA AskingAgain ==
    ASSUME PageInv, read' = Asked, UNCHANGED <<question, shown, managing>>
    PROVE  ShowsInv'
BY DEF PageInv, ShowsInv, AnswersItsQuestion, OverviewRows, OnOverview, ShowsWhatIsAsked,
       IsAnswer, Asked, Nothing

LEMMA ShowsStep ==
    ASSUME PageInv, [DashboardNext]_vars
    PROVE  ShowsInv'
<1>1. changes \in Nat /\ seen \in 0..changes
  BY ContextAssumption DEF PageInv, ContextInv, RowsOfTheirType, CallsAreKnown
<1>2. /\ IsAnswer(read) => read.question = question
      /\ IsAnswer(shown) => shown.question.view = question.view
      /\ OverviewRows(read) /\ OverviewRows(shown)
      /\ managing => OnOverview
      /\ ShowsWhatIsAsked
  BY DEF PageInv, AnswersItsQuestion
<1>3. CASE UNCHANGED <<question, shown, read, managing, seen>>
  BY <1>2, <1>3 DEF ShowsInv, AnswersItsQuestion, OverviewRows, OnOverview, ShowsWhatIsAsked,
                    UpToDate
<1>4. CASE Leave \/ ComeBack \/ OtherClient \/ UNCHANGED vars
  BY <1>3, <1>4 DEF Leave, ComeBack, OtherClient, vars, pageVars
<1>5. CASE \E s \in Sections : OpensForm(s) \/ Cancels(s) \/ Submits(s) \/ ServeChange(s)
                               \/ ChangeFails(s)
  BY <1>3, <1>5 DEF OpensForm, Cancels, Submits, ServeChange, ChangeFails
<1>6. CASE \E c \in orphans : ServeOrphan(c) \/ OrphanFails(c)
  BY <1>3, <1>6 DEF ServeOrphan, OrphanFails
<1>7. CASE Poll \/ Retry
  BY <1>7, AskingAgain DEF Poll, Retry, Refresh
<1>8. CASE \/ \E s \in Sections : ChangeArrives(s)
           \/ \E c \in orphans : OrphanArrives(c)
  BY <1>8, AskingAgain DEF ChangeArrives, OrphanArrives, Refresh
<1>9. CASE ServeRead
  <2>1. UNCHANGED <<question, shown, managing, seen>> /\ read = Asked
    BY <1>9 DEF ServeRead
  <2>2. PICK rows \in RowsOf(question) :
            read' = [state |-> "answer", question |-> question, version |-> changes, rows |-> rows]
    BY <1>9 DEF ServeRead, Answers
  <2>3. read'.state = "answer" /\ read'.question = question /\ read'.version = changes
        /\ read'.rows = rows
    BY <2>2
  <2>4. question.view = "overview" => rows["intents"] \in [Ids -> Intents \cup {NoRow}]
    <3>1. intents \in [Ids -> Intents \cup {NoRow}]
      BY DEF PageInv, ContextInv, RowsOfTheirType
    <3>2. question.view = "overview" => rows = [intents |-> intents, facts |-> facts]
      BY DEF RowsOf
    <3> QED
      BY <3>1, <3>2
  <2>5. read' # Nothing
    BY <2>3 DEF Nothing
  <2>6. AnswersItsQuestion'
    BY <1>2, <2>1, <2>3, <2>4 DEF AnswersItsQuestion, OverviewRows, IsAnswer
  <2>7. ShowsWhatIsAsked'
    BY <1>1, <2>1, <2>3, <2>5 DEF ShowsWhatIsAsked, UpToDate
  <2> QED
    BY <1>2, <2>1, <2>6, <2>7 DEF ShowsInv, OnOverview, IsAnswer
<1>10. CASE ReadArrives
  <2>1. /\ IsAnswer(read)
        /\ shown' = IF Missing(read) THEN Gone ELSE read
        /\ read' = Nothing
        /\ UNCHANGED <<managing, question, seen>>
    BY <1>10 DEF ReadArrives, Mounted
  <2>2. read.question = question /\ UpToDate(read)
    BY <1>2, <2>1 DEF ShowsWhatIsAsked
  <2>3. IsAnswer(shown') => shown' = read
    BY <2>1 DEF IsAnswer, Gone
  <2>4. ~IsAnswer(read')
    BY <2>1 DEF IsAnswer, Nothing
  <2>5. AnswersItsQuestion'
    BY <1>2, <2>1, <2>2, <2>3, <2>4 DEF AnswersItsQuestion, OverviewRows, IsAnswer
  <2>6. ShowsWhatIsAsked'
    BY <2>1, <2>2, <2>3, <2>4 DEF ShowsWhatIsAsked, UpToDate, IsAnswer
  <2>7. managing' => OnOverview'
    <3> SUFFICES ASSUME managing PROVE OnOverview'
      BY <2>1
    <3>1. question.view # "report"
      BY <1>2 DEF OnOverview, Overview
    <3>2. shown' = read
      BY <2>1, <2>2, <3>1 DEF Missing
    <3> QED
      BY <1>2, <2>1, <3>2 DEF OnOverview, IsAnswer
  <2> QED
    BY <2>5, <2>6, <2>7 DEF ShowsInv
<1>11. CASE ReadFails
  BY <1>11 DEF ReadFails, Unmounted, ShowsInv, AnswersItsQuestion, OverviewRows,
               ShowsWhatIsAsked, IsAnswer, Nothing, Failed
<1>12. CASE Visit
  BY <1>12 DEF Visit, ShowsInv, AnswersItsQuestion, OverviewRows, ShowsWhatIsAsked, IsAnswer,
               Asked, Nothing, Loading
<1>13. CASE ChangeFilter \/ ChangePage
  <2>1. question.view = "jobs" /\ read' = Asked /\ UNCHANGED <<shown, managing>>
    BY <1>13 DEF ChangeFilter, ChangePage, Refresh
  <2>2. question'.view = "jobs"
    BY <1>13 DEF ChangeFilter, ChangePage, Jobs
  <2>3. ~managing
    BY <1>2, <2>1 DEF OnOverview, Overview
  <2> QED
    BY <1>2, <2>1, <2>2, <2>3 DEF ShowsInv, AnswersItsQuestion, OverviewRows, ShowsWhatIsAsked,
                                 IsAnswer, Asked, Nothing
<1>14. CASE OpenManager \/ CloseManager
  <2>1. UNCHANGED <<question, shown, read, seen>> /\ (managing' => OnOverview)
    BY <1>2, <1>14 DEF OpenManager, CloseManager, Unmounted
  <2> QED
    BY <1>2, <2>1 DEF ShowsInv, AnswersItsQuestion, OverviewRows, OnOverview, ShowsWhatIsAsked,
                      UpToDate
<1> QED
  BY <1>4, <1>5, <1>6, <1>7, <1>8, <1>9, <1>10, <1>11, <1>12, <1>13, <1>14 DEF DashboardNext

-----------------------------------------------------------------------------
(* The theorems *)

(* What an earlier session left is consistent. *)
LEMMA ContextStart ==
    ASSUME ContextInit
    PROVE  ContextInv
<1>1. /\ Len(Known) \in Nat /\ Len(Known) <= MaxRows /\ MaxRows \in Nat
      /\ \A i \in 1..Len(Known) : Known[i] \in Names
      /\ \A i, j \in 1..Len(Known) : Known[i] = Known[j] => i = j
  BY ContextAssumption
<1>2. \A i \in Ids : i <= Len(Known) <=> i \in 1..Len(Known)
  BY <1>1 DEF Ids
<1>3. \A i \in Ids : intents[i] =
          IF i \in 1..Len(Known) THEN [name |-> Known[i], selected |-> i = 1] ELSE NoRow
  BY <1>2 DEF ContextInit
<1>4. ASSUME NEW i \in Ids
      PROVE  /\ intents[i] \in Intents \cup {NoRow}
             /\ intents[i] # NoRow <=> i \in 1..Len(Known)
             /\ intents[i] # NoRow => intents[i].name = Known[i]
             /\ Selected(i) => i = 1
  <2>1. CASE i \notin 1..Len(Known)
    BY <1>3, <2>1 DEF Selected
  <2>2. CASE i \in 1..Len(Known)
    <3>1. PICK first \in BOOLEAN : first <=> i = 1
      OBVIOUS
    <3>2. intents[i] = [name |-> Known[i], selected |-> first]
      BY <1>3, <2>2, <3>1
    <3>3. intents[i] \in Intents
      BY <1>1, <2>2, <3>2 DEF Intents
    <3>4. intents[i].name = Known[i] /\ intents[i].selected = first
      BY <3>2
    <3>5. intents[i] # NoRow
      BY <3>3, ContextAssumption DEF Intents
    <3> QED
      BY <2>2, <3>1, <3>3, <3>4, <3>5 DEF Selected
  <2> QED
    BY <2>1, <2>2
<1>5. \A i \in Ids : intents[i] # NoRow => Platforms # {}
  <2>1. Known = <<>> => Len(Known) = 0
    OBVIOUS
  <2> QED
    BY <1>1, <1>4, <2>1, ContextAssumption
<1>6. RowsOfTheirType
  <2>1. intents \in [Ids -> Intents \cup {NoRow}]
    BY <1>4 DEF ContextInit
  <2>2. pages \in SUBSET (Ids \X Platforms)
    BY <1>1 DEF ContextInit, Ids
  <2>3. last \in [Tables -> 0..MaxRows] /\ changes \in 0..MaxChanges
    BY <1>1, ContextAssumption DEF ContextInit
  <2> QED
    BY <2>1, <2>2, <2>3 DEF ContextInit, RowsOfTheirType
<1>7. OneSelected
  BY <1>4 DEF OneSelected
<1>8. NamesAreUnique
  BY <1>1, <1>4 DEF ContextInit, NamesAreUnique, Named, NamedIn
<1>9. PagesFollowIntents
  BY <1>1, <1>4, <1>5 DEF ContextInit, PagesFollowIntents
<1>10. IdsAreGivenOut
  BY <1>1, <1>4 DEF ContextInit, IdsAreGivenOut, Tables
<1> QED
  BY <1>6, <1>7, <1>8, <1>9, <1>10 DEF ContextInv

LEMMA PageStart == DashboardInit => PageInv
<1> SUFFICES ASSUME DashboardInit PROVE PageInv
  OBVIOUS
<1>1. ContextInv
  BY ContextStart DEF DashboardInit
<1>2. CallsAreKnown
  BY DEF DashboardInit, ContextInit, CallsAreKnown, InFlight
<1>3. AnswersItsQuestion /\ (managing => OnOverview) /\ ShowsWhatIsAsked
  BY DEF DashboardInit, AnswersItsQuestion, OverviewRows, ShowsWhatIsAsked, IsAnswer, Loading,
         Asked, Nothing
<1> QED
  BY <1>1, <1>2, <1>3 DEF PageInv

LEMMA PageStep == PageInv /\ [DashboardNext]_vars => PageInv'
BY LogGrows, CallsStep, ShowsStep DEF PageInv, ShowsInv

LEMMA PageHolds == Spec => []PageInv
BY PageStart, PageStep, PTL DEF Spec

(* The tables of the personal context are consistent in every state,       *)
(* whatever the page and other clients ask for, in whatever order it is    *)
(* served and whichever answers are lost.                                  *)
THEOREM Consistent == Spec => []ContextInv
<1>1. PageInv => ContextInv
  BY DEF PageInv
<1> QED
  BY <1>1, PageHolds, PTL

(* The page never shows what an aborted or overtaken read has answered.    *)
THEOREM Shown == Spec => []ShowsWhatIsAsked
<1>1. PageInv => ShowsWhatIsAsked
  BY DEF PageInv
<1> QED
  BY <1>1, PageHolds, PTL

(* Every change of the tables is in the log, once, and the entry names the *)
(* one row that was touched and what was done to it.                       *)
THEOREM Logged == Spec => ChangesRecorded
<1>1. PageInv /\ [DashboardNext]_vars => [RecordsChange]_contextVars
  BY StepsCommit, CommitsAreRecorded DEF PageInv
<1> QED
  BY <1>1, PageHolds, PTL DEF Spec, ChangesRecorded
=============================================================================
