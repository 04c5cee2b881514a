----------------------------- MODULE JobLibrary -----------------------------
(***************************************************************************)
(* The job library of the Workspace Service: jobs, the platform sources    *)
(* they are made from, the identities a source is found by, and the log of *)
(* changes (JobObservationRepository with its persistence helpers).        *)
(* Observations come from passive collection, engagement snapshots and     *)
(* agents in any order; jobs whose evidence comes to agree are merged.     *)
(*                                                                         *)
(* The service runs one synchronous operation at a time, so a transaction  *)
(* is one step; the log entry of a save is inserted after the transaction  *)
(* and is a step of its own, before which the process may die.             *)
(***************************************************************************)
EXTENDS JobEvidence

CONSTANTS
    Cards, Descriptions,  \* what observations may state (their at is ignored)
    MaxTime,              \* bound on the times of observations
    MaxSaves,             \* bound on the observations that are saved
    MaxCrashes            \* bound on crashes of the process

ASSUME LibraryAssumption ==
    /\ Cards \subseteq Facts
    /\ Descriptions \subseteq Facts
    /\ \A d \in Descriptions : d.jobUrl # Absent
    /\ MaxTime \in Nat
    /\ MaxSaves \in Nat
    /\ MaxCrashes \in Nat

VARIABLES
    sources,     \* job_posting_sources, by id
    identities,  \* job_posting_source_identities
    jobs,        \* job_postings, by id
    changes,     \* how many rows workspace_changes has
    owed,        \* a transaction has committed, its change is not yet inserted
    saves, crashes

tables == <<sources, identities, jobs>>
vars == <<sources, identities, jobs, changes, owed, saves, crashes>>

SeenAt(facts, t) == [facts EXCEPT !.at = t]
Observed(factsSet) == {SeenAt(f, t) : f \in factsSet, t \in 1 .. MaxTime}
Observations == [card |-> Observed(Cards), description |-> Observed(Descriptions)]
Kinds == {"card", "description"}

(* A row of job_postings, and one that was merged into another and deleted. *)
JobRow(key, values) == [identityKey |-> key, values |-> values]
Deleted == [merged |-> TRUE]

Init ==
    /\ sources = [i \in {} |-> Absent]
    /\ identities = {}
    /\ jobs = [j \in {} |-> Deleted]
    /\ changes = 0
    /\ owed = FALSE
    /\ saves = 0
    /\ crashes = 0

(* Ids are given out in order and never again. *)
NextId(table) == {n \in 1 .. MaxSaves : DOMAIN table = 1 .. n - 1}
Inserted(table, n, row) == [k \in 1 .. n |-> IF k = n THEN row ELSE table[k]]

Live == {j \in DOMAIN jobs : jobs[j] # Deleted}
JobsWith(key) == {j \in Live : jobs[j].identityKey = key}

(* The source a platform identity belongs to, if any; a key names its      *)
(* platform.                                                               *)
Find(key) == {i \in DOMAIN sources : [key |-> key, source |-> i] \in identities}

Attach(i, o) == identities' = identities \cup {[key |-> SourceKey(o), source |-> i]}

(***************************************************************************)
(* Reconciliation of job j, once its sources are as in rows: the job takes *)
(* the key of its latest evidence; if another job has that key, its        *)
(* sources move there and it is deleted.                                   *)
(***************************************************************************)
Moved(rows, j, k) ==
    [i \in DOMAIN rows |-> IF rows[i].job = j THEN [rows[i] EXCEPT !.job = k] ELSE rows[i]]

(* Mutant: the job is deleted, its sources are not moved. *)
DeleteWithoutMove(rows, j, owner) ==
    /\ sources' = rows
    /\ jobs' = [jobs EXCEPT ![j] = Deleted]

Merge(rows, j, owner) ==
    /\ sources' = Moved(rows, j, owner)
    /\ jobs' = [jobs EXCEPT
          ![j] = Deleted,
          ![owner] = JobRow(@.identityKey, Canonical(Moved(rows, j, owner), owner))]

(* Mutant: the key the job was created with stays. *)
ReconcileKeepsKey(rows, j) ==
    /\ sources' = rows
    /\ jobs' = [jobs EXCEPT ![j] = JobRow(@.identityKey, Canonical(rows, j))]

Reconcile(rows, j) ==
    LET key == JobKey(LatestEvidence(rows, j))
        others == JobsWith(key) \ {j}
    IN  \/ /\ others = {}
           /\ sources' = rows
           /\ jobs' = [jobs EXCEPT ![j] = JobRow(key, Canonical(rows, j))]
        \/ \E owner \in others : Merge(rows, j, owner)

(* Mutant: only a merge counts as a change. *)
OnlyMerged(j) == jobs'[j] = Deleted

JobChanged(j) == jobs'[j] = Deleted \/ Content(jobs'[j].values) # Content(jobs[j].values)

(***************************************************************************)
(* An observation of a source that is known.                               *)
(***************************************************************************)
Stored(i, kind) == sources[i][kind]

(* Older than what is retained, or in conflict with it at the same time.   *)
IsStale(i, kind, o) ==
    /\ Stored(i, kind) # Absent
    /\ \/ o.at < Stored(i, kind).at
       \/ o.at = Stored(i, kind).at /\ ~SameFacts(Stored(i, kind), o)

Repeats(i, kind, o) == Stored(i, kind) # Absent /\ SameFacts(Stored(i, kind), o)

(* Mutant: the time of the last check is that of the observation. *)
CheckedNow(row, kind, o) == [row EXCEPT ![kind] = o, !.lastCheckedAt = o.at]

RowWith(row, kind, o) == [row EXCEPT ![kind] = o, !.lastCheckedAt = LaterOf(@, o.at)]

Updated(i, kind, o) == [sources EXCEPT ![i] = RowWith(@, kind, o)]

(* The same facts again: the change of the job, if there is one, is        *)
(* recorded in the transaction.                                            *)
Refresh(i, kind, o) ==
    /\ Repeats(i, kind, o)
    /\ Reconcile(Updated(i, kind, o), sources[i].job)
    /\ changes' = IF JobChanged(sources[i].job) THEN changes + 1 ELSE changes
    /\ UNCHANGED <<identities, owed>>

(* The observation replaces what is retained, or is the first of its kind. *)
Replace(i, kind, o) ==
    /\ ~Repeats(i, kind, o)
    /\ Attach(i, o)
    /\ Reconcile(Updated(i, kind, o), sources[i].job)
    /\ owed' = TRUE
    /\ UNCHANGED changes

SaveKnown(i, kind, o) ==
    \/ IsStale(i, kind, o) /\ UNCHANGED <<tables, changes, owed>>
    \/ ~IsStale(i, kind, o) /\ (Refresh(i, kind, o) \/ Replace(i, kind, o))

(***************************************************************************)
(* An observation of a source that is not known: it joins the job with the *)
(* same key, or makes a new one.                                           *)
(***************************************************************************)
SourceRow(kind, o, j) ==
    [job |-> j, platform |-> o.platform, lastCheckedAt |-> o.at,
     card |-> IF kind = "card" THEN o ELSE Absent,
     description |-> IF kind = "description" THEN o ELSE Absent]

Join(n, kind, o) ==
    \E j \in JobsWith(JobKey(o)) : Reconcile(Inserted(sources, n, SourceRow(kind, o, j)), j)

Create(n, kind, o) ==
    /\ JobsWith(JobKey(o)) = {}
    /\ \E j \in NextId(jobs) :
          /\ sources' = Inserted(sources, n, SourceRow(kind, o, j))
          /\ jobs' = Inserted(jobs, j, JobRow(JobKey(o), Canonical(sources', j)))

SaveNew(kind, o) ==
    /\ \E n \in NextId(sources) : (Join(n, kind, o) \/ Create(n, kind, o)) /\ Attach(n, o)
    /\ owed' = TRUE
    /\ UNCHANGED changes

(***************************************************************************)
(* The operations.                                                         *)
(***************************************************************************)
Operates ==
    /\ ~owed
    /\ saves < MaxSaves
    /\ saves' = saves + 1
    /\ UNCHANGED crashes

(* A card, of a page or of an engagement snapshot, or a description.       *)
Save(kind, o) ==
    /\ Operates
    /\ \/ Find(SourceKey(o)) = {} /\ SaveNew(kind, o)
       \/ \E i \in Find(SourceKey(o)) : SaveKnown(i, kind, o)

(* Mutant: it is not asked whether the page belongs to another source.     *)
BindsAnyIdentity(i, o) ==
    LET evidence == Evidence(sources[i])
    IN  /\ sources[i].platform = o.platform
        /\ sources[i].description = Absent
        /\ evidence.externalJobId = Absent
        /\ evidence.jobUrl = Absent
        /\ evidence.title = o.title
        /\ Absent \in {evidence.company, o.company} \/ evidence.company = o.company

CanBind(i, o) ==
    LET evidence == Evidence(sources[i])
    IN  /\ sources[i].platform = o.platform
        /\ sources[i].description = Absent
        /\ evidence.externalJobId = Absent
        /\ evidence.jobUrl = Absent
        /\ evidence.title = o.title
        /\ Absent \in {evidence.company, o.company} \/ evidence.company = o.company
        /\ Find(SourceKey(o)) \subseteq {i}

(* A description with sourceId: the caller says which source it is of.     *)
Bind(i, o) ==
    /\ Operates
    /\ CanBind(i, o)
    /\ Replace(i, "description", o)

RecordChange ==
    /\ owed
    /\ owed' = FALSE
    /\ changes' = changes + 1
    /\ UNCHANGED <<tables, saves, crashes>>

(* A crash at any other time loses nothing. *)
Crash ==
    /\ owed
    /\ crashes < MaxCrashes
    /\ crashes' = crashes + 1
    /\ owed' = FALSE
    /\ UNCHANGED <<tables, changes, saves>>

(* All saves are made. *)
Done == saves = MaxSaves /\ ~owed /\ UNCHANGED vars

Next ==
    \/ \E kind \in Kinds : \E o \in Observations[kind] : Save(kind, o)
    \/ \E o \in Observations.description, i \in DOMAIN sources : Bind(i, o)
    \/ RecordChange
    \/ Crash
    \/ Done

Spec == Init /\ [][Next]_vars

-----------------------------------------------------------------------------
Retained(i) == {sources[i].card, sources[i].description} \ {Absent}

SourceRows ==
    [job : Nat, platform : Words, lastCheckedAt : Nat,
     card : Observations.card \cup {Absent},
     description : Observations.description \cup {Absent}]

(* The tables have the types of their columns, and their references and    *)
(* checks hold: a source has a live job and something that was observed.   *)
TypeOK ==
    /\ sources \in [DOMAIN sources -> SourceRows]
    /\ DOMAIN sources \subseteq Nat
    /\ \A i \in DOMAIN sources : sources[i].job \in Live /\ Retained(i) # {}
    /\ DOMAIN jobs \subseteq Nat
    /\ \A r \in identities : r.source \in DOMAIN sources
    /\ changes \in Nat
    /\ owed \in BOOLEAN
    /\ saves \in 0 .. MaxSaves
    /\ crashes \in 0 .. MaxCrashes

(* Each job is what its sources say now: it has the key and the values of  *)
(* its latest evidence, through replaced evidence, refreshed times, bound  *)
(* descriptions and merges, and no two jobs have the same key              *)
(* (reconcileJobPosting, refreshCanonicalJob and the unique column).       *)
JobsFollowEvidence ==
    \A j \in Live :
        /\ SourcesOf(sources, j) # {}
        /\ jobs[j].identityKey = JobKey(LatestEvidence(sources, j))
        /\ jobs[j].values = Canonical(sources, j)
        /\ JobsWith(jobs[j].identityKey) = {j}

(* Whatever a source retains, and what its card and description say        *)
(* together, finds this source and no other: no later observation of the   *)
(* same page, with or without a link, goes to a second source              *)
(* (findJobPostingSourceByObservedIdentity, attachJobSourceIdentity).      *)
SourcesAreFound ==
    \A i \in DOMAIN sources :
        \A o \in Retained(i) \cup {Evidence(sources[i])} :
            o.platform = sources[i].platform /\ Find(SourceKey(o)) = {i}

(* No source is lost, also when its job is merged and deleted; what it     *)
(* retains is replaced only by something newer, or by the same facts seen  *)
(* again; lastCheckedAt never goes back and covers what is retained        *)
(* (README of workspace-service, observation writes).                      *)
MovesForward ==
    \A i \in DOMAIN sources :
       /\ i \in DOMAIN sources'
       /\ sources'[i].lastCheckedAt >= sources[i].lastCheckedAt
       /\ \A kind \in Kinds :
             LET old == sources[i][kind]
                 new == sources'[i][kind]
             IN  /\ new # Absent => new.at <= sources'[i].lastCheckedAt
                 /\ old # Absent =>
                       /\ new # Absent
                       /\ new.at > old.at \/ (new.at = old.at /\ new = old)

EvidenceMovesForward == [][MovesForward]_vars

(* Sources come together in one job only on a complete identity: company,  *)
(* title and location. Partial cards stay apart (README of                 *)
(* workspace-service, source identity).                                    *)
GroupsComplete ==
    \A i, k \in DOMAIN sources' :
       /\ i # k
       /\ sources'[i].job = sources'[k].job
       /\ {i, k} \subseteq DOMAIN sources => sources[i].job # sources[k].job
       => LET evidence == LatestEvidence(sources', sources'[i].job)
          IN  Absent \notin {evidence.company, evidence.location}

GroupsOnCompleteIdentity == [][GroupsComplete]_vars

(* A change of what a reader sees of the jobs is recorded, or owed by the  *)
(* operation that makes it, also when it comes from the same facts seen    *)
(* again.                                                                  *)
RecordsChange ==
    (\E j \in Live \cup Live' :
        \/ j \notin Live \cap Live'
        \/ Content(jobs'[j].values) # Content(jobs[j].values))
    => changes' = changes + 1 \/ owed'

ChangesAreRecorded == [][RecordsChange]_vars

-----------------------------------------------------------------------------
(* The inductive invariant behind these properties. *)

RetainedIsFiled ==
    \A i \in DOMAIN sources :
        \A o \in Retained(i) :
            /\ o.platform = sources[i].platform
            /\ o.at <= sources[i].lastCheckedAt
            /\ [key |-> SourceKey(o), source |-> i] \in identities

(* A key has one source, of the platform the key names. *)
KeysAreOwned ==
    \A r \in identities :
        /\ r = [key |-> r.key, source |-> r.source]
        /\ r.key[1] = sources[r.source].platform
        /\ \A s \in identities : s.key = r.key => s = r

JobsHaveLatest == \A j \in Live : \E i \in DOMAIN sources : IsLatest(i, EvidenceOf(sources, j))

IInv ==
    /\ TypeOK
    /\ RetainedIsFiled
    /\ KeysAreOwned
    /\ JobsHaveLatest
    /\ JobsFollowEvidence
=============================================================================
