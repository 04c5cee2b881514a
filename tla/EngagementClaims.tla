-------------------------- MODULE EngagementClaims --------------------------
(***************************************************************************)
(* What the documents promise of engagement synchronisation, over history  *)
(* variables that EngagementScan does not keep.                            *)
(***************************************************************************)
EXTENDS EngagementScan

VARIABLES
    listed,    \* identities a category has shown since its scan began
    steady,    \* identities it has shown all the time since then
    captured   \* identities its snapshots have carried since then

hvars == <<vars, listed, steady, captured>>

Begins(c, k) == pc[c] = "idle" /\ pc'[c] # "idle" /\ call'[c].kind = k
BeginsScan(k) == scans[k] = NoScan /\ \E c \in Calls : Begins(c, k)
Captures(c) == pc[c] = "capturing" /\ pc'[c] = "writing"
Applies(c) == pc[c] = "writing" /\ pc'[c] = "answering"

HInit ==
    /\ Init
    /\ listed = [k \in Kinds |-> Batch(list[k])]
    /\ steady = listed
    /\ captured = [k \in Kinds |-> {}]

HNext ==
    /\ Next
    /\ listed' = [k \in Kinds |->
          Batch(list'[k]) \cup IF BeginsScan(k) THEN {} ELSE listed[k]]
    /\ steady' = [k \in Kinds |->
          Batch(list'[k]) \cap IF BeginsScan(k) THEN Batch(list[k]) ELSE steady[k]]
    /\ captured' = [k \in Kinds |->
          IF BeginsScan(k) THEN {}
          ELSE captured[k] \cup
               UNION {call'[c].snapshot.jobs : c \in {d \in Calls : Captures(d) /\ call[d].kind = k}}]

HSpec == HInit /\ [][HNext]_hvars

(* A scan is scoped to one platform and category (README of browser-       *)
(* session): a snapshot carries only jobs its own category has shown since *)
(* the scan began.                                                         *)
ScopedToCategory ==
    [][\A c \in Calls : Captures(c) =>
          LET snapshot == call'[c].snapshot IN
          snapshot.jobs \subseteq listed'[snapshot.kind]]_hvars

(* When a complete snapshot of the reversible category has been applied,   *)
(* nothing is related that was on it at no time since the scan began; and  *)
(* if the category stayed as it was, all of it is related: only what the   *)
(* user has dropped is removed (removeMissingInterests and the             *)
(* completeness rule of #captureSnapshot).                                 *)
InterestMatchesCategory ==
    [][\A c \in Calls : Applies(c) /\ RemovesMissing(call[c].snapshot) =>
          /\ Related(Interested)' \subseteq listed[Interested]
          /\ steady[Interested] = listed[Interested] =>
                listed[Interested] \subseteq Related(Interested)']_hvars

(* What any batch of a scan has captured is related to the category when   *)
(* the scan's last snapshot is applied, even if writes of earlier batches  *)
(* were lost (the accumulated jobs of collector.ts).                       *)
EndedScanIsStored ==
    [][\A c \in Calls : Applies(c) /\ call[c].ended /\ scans[call[c].kind] = NoScan =>
          captured[call[c].kind] \subseteq Related(call[c].snapshot.kind)']_hvars
=============================================================================
