--------------------------- MODULE PersonalContext ---------------------------
(***************************************************************************)
(* The tables of the workspace database that hold what the user and the    *)
(* agent maintain: job search intents with the platform pages a research   *)
(* starts from, profile facts, and research reports.  Every operation of   *)
(* their three repositories is one transaction: it changes its rows and    *)
(* appends to workspace_changes, or it changes nothing.                    *)
(*                                                                         *)
(* A request is a record [op, id, name, pages, selected].  Id 0 stands for *)
(* a new row; name is the intent's name, the fact's key or the report's    *)
(* title; the empty set of pages stands for every list of pages the route  *)
(* refuses (none, one outside its platform, a platform twice).  The text   *)
(* of the rows is left out.  Of the log the model keeps its length and its *)
(* last entry.                                                             *)
(***************************************************************************)
EXTENDS Integers, Sequences

CONSTANTS
    Names,       \* names of intents, keys of facts, titles of reports
    Platforms,   \* recruiting platforms
    Known,       \* names of the intents an earlier session has left
    MaxRows,     \* bound: rows ever created in each table
    MaxChanges,  \* bound: recorded changes
    NoRow        \* a row that does not exist (any more)

ASSUME ContextAssumption ==
    /\ MaxRows \in Nat
    /\ MaxChanges \in Nat
    /\ NoRow \notin Names
    /\ NoRow \notin [name : Names, selected : BOOLEAN]
    /\ Known \in Seq(Names) /\ Len(Known) <= MaxRows
    /\ \A i, j \in 1..Len(Known) : Known[i] = Known[j] => i = j
    /\ Known # <<>> => Platforms # {}

VARIABLES
    intents,  \* job_search_intents, by id
    pages,    \* job_search_intent_recommendation_pages: <<intent, platform>>
    facts,    \* profile_facts: the key, by id
    reports,  \* research_reports: the title, by id
    last,     \* sqlite_sequence: the last id given out in each table
    changes,  \* how many rows workspace_changes has
    change    \* its last row

contextVars == <<intents, pages, facts, reports, last, changes, change>>

Ids == 1..MaxRows
Tables == {"intents", "facts", "reports"}
Intents == [name : Names, selected : BOOLEAN]
Operations == {"create-job-search-intent", "update-job-search-intent",
    "select-job-search-intent", "delete-job-search-intent",
    "create-profile-fact", "update-profile-fact", "delete-profile-fact",
    "create-research-report", "update-research-report",
    "delete-research-report"}
Changes == [operation : Operations, subject : Names]
NoChange == [operation |-> "none", subject |-> NoRow]

Requests == [op : {"save-intent", "select-intent", "delete-intent", "save-fact",
                   "delete-fact", "save-report", "delete-report"},
             id : Ids \cup {0}, name : Names, pages : SUBSET Platforms,
             selected : BOOLEAN]

(* What the database has when the service starts, of the earlier intents   *)
(* the first is the current one.  Earlier changes are not counted.         *)
ContextInit ==
    /\ intents = [i \in Ids |->
            IF i <= Len(Known) THEN [name |-> Known[i], selected |-> i = 1] ELSE NoRow]
    /\ pages = (1..Len(Known)) \X Platforms
    /\ facts = [i \in Ids |-> NoRow]
    /\ reports = [i \in Ids |-> NoRow]
    /\ last = [t \in Tables |-> IF t = "intents" THEN Len(Known) ELSE 0]
    /\ changes = 0
    /\ change = NoChange

-----------------------------------------------------------------------------
(* A transaction commits with its row of workspace_changes. *)
Recorded(operation, subject) ==
    /\ changes < MaxChanges
    /\ changes' = changes + 1
    /\ change' = [operation |-> operation, subject |-> subject]

(* The next id of an autoincremented table; ids are never used again. *)
Fresh(t) == last[t] + 1
GivesOut(t) ==
    /\ last[t] < MaxRows
    /\ last' = [last EXCEPT ![t] = Fresh(t)]

NamedIn(table, i, name) == table[i] # NoRow /\ table[i].name = name
Named(i, name) == NamedIn(intents, i, name)
Selected(i) == intents[i] # NoRow /\ intents[i].selected

(* A row after "set selected = false" on the whole table. *)
Unselected(row) == IF row = NoRow THEN row ELSE [row EXCEPT !.selected = FALSE]

(* Saving row id of the intents, unless its name is another one's (the     *)
(* unique index rolls the transaction back): all others lose the selection *)
(* if this one is saved as the selected one, and its pages are replaced.   *)
StoresIntent(id, r) ==
    /\ r.pages # {}
    /\ \A i \in Ids \ {id} : ~Named(i, r.name)
    /\ intents' = [i \in Ids |->
            IF i = id THEN [name |-> r.name, selected |-> r.selected]
            ELSE IF r.selected THEN Unselected(intents[i])
            ELSE intents[i]]
    /\ pages' = {p \in pages : p[1] # id} \cup ({id} \X r.pages)
    /\ UNCHANGED <<facts, reports>>

CreatesIntent(r) ==
    /\ r.op = "save-intent" /\ r.id = 0
    /\ GivesOut("intents")
    /\ StoresIntent(Fresh("intents"), r)
    /\ Recorded("create-job-search-intent", r.name)

UpdatesIntent(r) ==
    /\ r.op = "save-intent" /\ r.id # 0
    /\ intents[r.id] # NoRow
    /\ StoresIntent(r.id, r)
    /\ Recorded("update-job-search-intent", r.name)
    /\ UNCHANGED last

(* Mutant: the selection is cleared outside the transaction, and a request *)
(* for an intent that is gone leaves none selected.                        *)
SelectsNothing(r) ==
    /\ r.op = "select-intent" /\ r.id # 0
    /\ \/ /\ intents[r.id] # NoRow
          /\ intents' = [i \in Ids |->
                IF i = r.id THEN [intents[i] EXCEPT !.selected = TRUE]
                ELSE Unselected(intents[i])]
          /\ Recorded("select-job-search-intent", intents[r.id].name)
       \/ /\ intents[r.id] = NoRow
          /\ intents' = [i \in Ids |-> Unselected(intents[i])]
          /\ UNCHANGED <<changes, change>>
    /\ UNCHANGED <<pages, facts, reports, last>>

(* All rows lose the selection, then the one asked for gets it; if there   *)
(* is none the transaction is rolled back.                                 *)
SelectsIntent(r) ==
    /\ r.op = "select-intent" /\ r.id # 0
    /\ intents[r.id] # NoRow
    /\ intents' = [i \in Ids |->
            IF i = r.id THEN [intents[i] EXCEPT !.selected = TRUE]
            ELSE Unselected(intents[i])]
    /\ Recorded("select-job-search-intent", intents[r.id].name)
    /\ UNCHANGED <<pages, facts, reports, last>>

(* Mutant: foreign keys are not enforced, and the pages stay behind. *)
DeleteLeavesPages(r) ==
    /\ r.op = "delete-intent" /\ r.id # 0
    /\ intents[r.id] # NoRow
    /\ intents' = [intents EXCEPT ![r.id] = NoRow]
    /\ Recorded("delete-job-search-intent", intents[r.id].name)
    /\ UNCHANGED <<pages, facts, reports, last>>

(* The pages of an intent go with it (on delete cascade). *)
DeletesIntent(r) ==
    /\ r.op = "delete-intent" /\ r.id # 0
    /\ intents[r.id] # NoRow
    /\ intents' = [intents EXCEPT ![r.id] = NoRow]
    /\ pages' = {p \in pages : p[1] # r.id}
    /\ Recorded("delete-job-search-intent", intents[r.id].name)
    /\ UNCHANGED <<facts, reports, last>>

(* The key of a fact is unique. *)
StoresFact(id, key) ==
    /\ \A i \in Ids \ {id} : facts[i] # key
    /\ facts' = [facts EXCEPT ![id] = key]
    /\ UNCHANGED <<intents, pages, reports>>

CreatesFact(r) ==
    /\ r.op = "save-fact" /\ r.id = 0
    /\ GivesOut("facts")
    /\ StoresFact(Fresh("facts"), r.name)
    /\ Recorded("create-profile-fact", r.name)

UpdatesFact(r) ==
    /\ r.op = "save-fact" /\ r.id # 0
    /\ facts[r.id] # NoRow
    /\ StoresFact(r.id, r.name)
    /\ Recorded("update-profile-fact", r.name)
    /\ UNCHANGED last

DeletesFact(r) ==
    /\ r.op = "delete-fact" /\ r.id # 0
    /\ facts[r.id] # NoRow
    /\ facts' = [facts EXCEPT ![r.id] = NoRow]
    /\ Recorded("delete-profile-fact", facts[r.id])
    /\ UNCHANGED <<intents, pages, reports, last>>

(* Reports may share a title. *)
CreatesReport(r) ==
    /\ r.op = "save-report" /\ r.id = 0
    /\ GivesOut("reports")
    /\ reports' = [reports EXCEPT ![Fresh("reports")] = r.name]
    /\ Recorded("create-research-report", r.name)
    /\ UNCHANGED <<intents, pages, facts>>

UpdatesReport(r) ==
    /\ r.op = "save-report" /\ r.id # 0
    /\ reports[r.id] # NoRow
    /\ reports' = [reports EXCEPT ![r.id] = r.name]
    /\ Recorded("update-research-report", r.name)
    /\ UNCHANGED <<intents, pages, facts, last>>

DeletesReport(r) ==
    /\ r.op = "delete-report" /\ r.id # 0
    /\ reports[r.id] # NoRow
    /\ reports' = [reports EXCEPT ![r.id] = NoRow]
    /\ Recorded("delete-research-report", reports[r.id])
    /\ UNCHANGED <<intents, pages, facts, last>>

(* A request that changes its table. *)
Commits(r) ==
    \/ CreatesIntent(r) \/ UpdatesIntent(r) \/ SelectsIntent(r) \/ DeletesIntent(r)
    \/ CreatesFact(r) \/ UpdatesFact(r) \/ DeletesFact(r)
    \/ CreatesReport(r) \/ UpdatesReport(r) \/ DeletesReport(r)

(* Deleting an intent or a fact that is gone is answered like a deletion. *)
NothingToDelete(r) ==
    /\ r.id # 0
    /\ \/ r.op = "delete-intent" /\ intents[r.id] = NoRow
       \/ r.op = "delete-fact" /\ facts[r.id] = NoRow
    /\ UNCHANGED contextVars

(* What the service answers with an error, its transaction rolled back: no *)
(* valid list of pages, a row that is gone, a name that is taken.          *)
Refuses(r) ==
    /\ \/ /\ r.op = "save-intent"
          /\ \/ r.pages = {}
             \/ r.id # 0 /\ intents[r.id] = NoRow
             \/ \E i \in Ids \ {r.id} : Named(i, r.name)
       \/ r.op = "select-intent" /\ r.id # 0 /\ intents[r.id] = NoRow
       \/ /\ r.op = "save-fact"
          /\ \/ r.id # 0 /\ facts[r.id] = NoRow
             \/ \E i \in Ids \ {r.id} : facts[i] = r.name
       \/ r.op = "save-report" /\ r.id # 0 /\ reports[r.id] = NoRow
       \/ r.op = "delete-report" /\ r.id # 0 /\ reports[r.id] = NoRow
    /\ UNCHANGED contextVars

-----------------------------------------------------------------------------
RowsOfTheirType ==
    /\ intents \in [Ids -> Intents \cup {NoRow}]
    /\ pages \in SUBSET (Ids \X Platforms)
    /\ facts \in [Ids -> Names \cup {NoRow}]
    /\ reports \in [Ids -> Names \cup {NoRow}]
    /\ last \in [Tables -> 0..MaxRows]
    /\ changes \in 0..MaxChanges
    /\ change \in Changes \cup {NoChange}

(* At most one intent is the current one. *)
OneSelected == \A i, j \in Ids : Selected(i) /\ Selected(j) => i = j

(* No two intents share a name, no two facts a key. *)
NamesAreUnique ==
    \A i, j \in Ids : i # j =>
        /\ intents[i] # NoRow => ~Named(j, intents[i].name)
        /\ facts[i] # NoRow => facts[j] # facts[i]

(* A research can start from every stored intent, and no page outlives its *)
(* intent.                                                                 *)
PagesFollowIntents ==
    \A i \in Ids : intents[i] # NoRow <=> \E q \in Platforms : <<i, q>> \in pages

(* No row has an id that was not given out yet. *)
IdsAreGivenOut ==
    \A i \in Ids :
        /\ intents[i] # NoRow => i <= last["intents"]
        /\ facts[i] # NoRow => i <= last["facts"]
        /\ reports[i] # NoRow => i <= last["reports"]

(* The tables stay consistent whatever requests are served in whatever     *)
(* order: the repositories' transactions and the schema's indexes and      *)
(* foreign keys (job-search-intent-repository.ts, schema.ts).              *)
ContextInv ==
    /\ RowsOfTheirType
    /\ OneSelected
    /\ NamesAreUnique
    /\ PagesFollowIntents
    /\ IdsAreGivenOut

-----------------------------------------------------------------------------
(* The log                                                                 *)

(* What the log calls a row: the name of an intent, the key of a fact, the *)
(* title of a report; NoRow for a row that is not there.                   *)
NameOf(t, i) ==
    CASE t = "intents" -> IF intents[i] = NoRow THEN NoRow ELSE intents[i].name
      [] t = "facts"   -> facts[i]
      [] t = "reports" -> reports[i]

Creation(t) ==
    CASE t = "intents" -> "create-job-search-intent"
      [] t = "facts"   -> "create-profile-fact"
      [] t = "reports" -> "create-research-report"
Update(t) ==
    CASE t = "intents" -> "update-job-search-intent"
      [] t = "facts"   -> "update-profile-fact"
      [] t = "reports" -> "update-research-report"
Deletion(t) ==
    CASE t = "intents" -> "delete-job-search-intent"
      [] t = "facts"   -> "delete-profile-fact"
      [] t = "reports" -> "delete-research-report"

(* A step touches row i of table t only: no other row comes, goes or gets  *)
(* another name, no pages of another intent change, and another intent     *)
(* loses the selection only to this one and never gets it.                 *)
TouchesOnly(t, i) ==
    /\ \A u \in Tables, j \in Ids : u # t \/ j # i => NameOf(u, j)' = NameOf(u, j)
    /\ \A j \in Ids : t # "intents" \/ j # i =>
          /\ \A q \in Platforms : <<j, q>> \in pages' <=> <<j, q>> \in pages
          /\ Selected(j)' => Selected(j)
          /\ Selected(j) /\ ~Selected(j)' => t = "intents" /\ Selected(i)'

(* The latest entry of the log says what a step did to that row, under the *)
(* name the row has, or had before it was deleted.                         *)
Describes(t, i) ==
    \/ /\ change'.operation = Creation(t)
       /\ NameOf(t, i) = NoRow /\ NameOf(t, i)' = change'.subject
    \/ /\ change'.operation = Update(t)
       /\ NameOf(t, i) # NoRow /\ NameOf(t, i)' = change'.subject
    \/ /\ change'.operation = "select-job-search-intent" /\ t = "intents"
       /\ NameOf(t, i) = change'.subject /\ NameOf(t, i)' = change'.subject
       /\ Selected(i)'
    \/ /\ change'.operation = Deletion(t)
       /\ NameOf(t, i) = change'.subject /\ NameOf(t, i)' = NoRow

(* The log can be read as an account of the tables: a step that changes    *)
(* anything leaves exactly one entry, which names one row and what was     *)
(* done to it, and no other row was touched.                               *)
RecordsChange ==
    /\ changes' = changes + 1
    /\ change'.subject \in Names
    /\ \E t \in Tables, i \in Ids : TouchesOnly(t, i) /\ Describes(t, i)
=============================================================================
