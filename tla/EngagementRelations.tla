------------------------ MODULE EngagementRelations ------------------------
(***************************************************************************)
(* The relations the Workspace Service keeps between the job sources of    *)
(* one platform and the categories of its personal center                  *)
(* (JobEngagementRepository). A source stands for its identity, which is   *)
(* what a card of the platform is matched by.                              *)
(***************************************************************************)
EXTENDS Integers, FiniteSets

CONSTANTS
    Sources,     \* identities of the platform's job sources
    Kinds,       \* categories: contacted, applied, interviewed, interested
    Interested,  \* the category whose relations are reversible
    Unrelated    \* no row for a source and a category

Rows == [first : Nat, last : Nat]

ASSUME RelationsAssumption == Interested \in Kinds /\ Unrelated \notin Rows

VARIABLE relations  \* the table job_source_engagements

Related(k) == {s \in Sources : relations[k][s] # Unrelated}

RelationsInit == relations = [k \in Kinds |-> [s \in Sources |-> Unrelated]]

(* The times are those of the snapshots as they are written, in whatever  *)
(* order they were captured: nothing compares them.                        *)
Upserted(k, s, at) ==
    [first |-> IF relations[k][s] = Unrelated THEN at ELSE relations[k][s].first,
     last  |-> at]

(* A snapshot names its category, the sources on it, when it was captured  *)
(* and whether it is the whole category.                                   *)
RemovesMissing(snapshot) == snapshot.complete /\ snapshot.kind = Interested

Synchronize(snapshot) ==
    relations' = [relations EXCEPT ![snapshot.kind] =
        [s \in Sources |->
            IF s \in snapshot.jobs THEN Upserted(snapshot.kind, s, snapshot.at)
            ELSE IF RemovesMissing(snapshot) THEN Unrelated
            ELSE @[s]]]
=============================================================================
