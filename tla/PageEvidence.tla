---------------------------- MODULE PageEvidence ----------------------------
(***************************************************************************)
(* What is read of a page: the elements a snapshot shows, and the cards of *)
(* the jobs in a list.  A read is one evaluation in the page, so that what *)
(* it returns is of one document; which document is known only by the URL  *)
(* that comes back with it.                                                *)
(***************************************************************************)
EXTENDS BrowserTabs

CONSTANTS
    CardSelector,   \* does the platform mark its cards, or only link to jobs?
    MaximumCards

ASSUME EvidenceAssumption == CardSelector \in BOOLEAN /\ MaximumCards \in Nat

(* The elements of a snapshot: those that are rendered.  Their position    *)
(* counts the others too.                                                  *)
Elements(nodes) == {i \in DOMAIN nodes : nodes[i].rendered}

(* isJobCardCollectionPage, isJobDetailPage *)
Eligible(p) == page[p].at \in {"list", "detail"}

(* A document that lacks the title or the description of the job. *)
Incomplete(at) == at = "detail"

(* Mutant: the page is not compared with the one the read began at. *)
SamePageAssumed(from, at) == at \in {"list", "detail"}

(* The document is the one the read began at: its URL is compared. *)
SamePage(from, at) == at = from

-----------------------------------------------------------------------------
(* captureJobCardMetadata.                                                 *)

JobIdentity(node) == node.href

Linked(node) == node.href \in Jobs

(* A candidate without a link to a job is a card only where the platform   *)
(* marks its cards; it has no identity then, and is never a duplicate.     *)
Recognized(node) == Linked(node) \/ CardSelector

Duplicate(nodes, i) ==
    /\ Linked(nodes[i])
    /\ \E j \in 1..(i - 1) : Linked(nodes[j]) /\ JobIdentity(nodes[j]) = JobIdentity(nodes[i])

Counted(nodes) == {i \in DOMAIN nodes : Recognized(nodes[i]) /\ ~Duplicate(nodes, i)}

(* The cards in the order of the document, up to the limit. *)
JobCards(nodes) ==
    LET Before(i) == {j \in Counted(nodes) : j < i}
    IN  InOrder(nodes, {i \in Counted(nodes) : Cardinality(Before(i)) < MaximumCards})

Truncated(nodes) == Cardinality(Counted(nodes)) > MaximumCards

-----------------------------------------------------------------------------
(* Evidence read of a page that the reader took for one at `from`. *)
EvidenceOf(from, at, nodes) ==
    [from |-> from, at |-> at, cards |-> IF at = "list" THEN JobCards(nodes) ELSE <<>>]

(* It is evidence of that page, and no job is in it twice. *)
IsEvidence(e) ==
    /\ e.at = e.from
    /\ \A i, j \in DOMAIN e.cards :
           Linked(e.cards[i]) /\ e.cards[i].href = e.cards[j].href => i = j
=============================================================================
