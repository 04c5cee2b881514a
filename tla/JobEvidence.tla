---------------------------- MODULE JobEvidence -----------------------------
(***************************************************************************)
(* The pure part of the job library: how observations are identified, how  *)
(* the card and the description of a source make one piece of evidence,    *)
(* and how the sources of a job make its canonical values.                 *)
(*                                                                         *)
(* Card and description observations have the same fields; text stands for *)
(* a card's summary or a description's text, details for everything that   *)
(* is carried along without deciding anything. A company, title or place   *)
(* stands for its normal form, a jobUrl for its path.                      *)
(***************************************************************************)
EXTENDS Integers

CONSTANTS
    Words,  \* what the fields of observations hold
    Absent  \* a field, an observation or a description that is missing

Facts ==
    [platform : Words, externalJobId : Words, jobUrl : Words, company : Words, title : Words,
     location : Words, text : Words, details : SUBSET Words, at : Nat]

ASSUME AbsentAssumption == Absent \notin Facts

SourceKey(o) ==
    IF o.externalJobId # Absent THEN <<o.platform, o.externalJobId>>
    ELSE IF o.jobUrl # Absent THEN <<o.platform, o.jobUrl>>
    ELSE <<o.platform, o.company, o.title, o.location>>

(* Mutant: a card without a place identifies the job. *)
CompleteWithoutPlace(o) == o.company # Absent

IsComplete(o) == o.company # Absent /\ o.location # Absent

JobKey(o) == IF IsComplete(o) THEN <<o.company, o.title, o.location>> ELSE SourceKey(o)

SameFacts(stored, o) == [stored EXCEPT !.at = o.at] = o

OrElse(field, other) == IF field = Absent THEN other ELSE field
LaterOf(t, u) == IF t > u THEN t ELSE u

(* What the description states goes before what the card states, but the   *)
(* card's text stays.                                                      *)
Described(card, description) ==
    [description EXCEPT
        !.externalJobId = OrElse(@, card.externalJobId),
        !.company       = OrElse(@, card.company),
        !.location      = OrElse(@, card.location),
        !.text          = card.text,
        !.details       = @ \cup card.details,
        !.at            = LaterOf(@, card.at)]

Evidence(source) ==
    IF source.description = Absent THEN source.card
    ELSE IF source.card = Absent THEN source.description
    ELSE Described(source.card, source.description)

(* The first of the facts with the latest time, in the order of their ids. *)
IsLatest(i, facts) ==
    /\ i \in DOMAIN facts
    /\ \A k \in DOMAIN facts :
          facts[k].at < facts[i].at \/ (facts[k].at = facts[i].at /\ i <= k)

Latest(facts) == facts[CHOOSE i \in DOMAIN facts : IsLatest(i, facts)]

(* The rows of job_posting_sources that belong to a job, their evidence and *)
(* their descriptions by id, and the values they give the job.             *)
SourcesOf(rows, j) == {i \in DOMAIN rows : rows[i].job = j}

EvidenceOf(rows, j) == [i \in SourcesOf(rows, j) |-> Evidence(rows[i])]

DescriptionsOf(rows, j) ==
    [i \in {i \in SourcesOf(rows, j) : rows[i].description # Absent} |-> rows[i].description]

LatestDescription(descriptions) ==
    IF DOMAIN descriptions = {} THEN Absent
    ELSE [text |-> Latest(descriptions).text, at |-> Latest(descriptions).at]

LatestEvidence(rows, j) == Latest(EvidenceOf(rows, j))

Canonical(rows, j) ==
    LET evidence == EvidenceOf(rows, j)
        latest == Latest(evidence)
    IN  [company     |-> latest.company,
         title       |-> latest.title,
         location    |-> latest.location,
         text        |-> latest.text,
         details     |-> UNION {evidence[i].details : i \in DOMAIN evidence},
         description |-> LatestDescription(DescriptionsOf(rows, j))]

(* What a reader of the job sees; when its description was captured is not *)
(* part of it.                                                             *)
Content(values) ==
    [values EXCEPT !.description = IF @ = Absent THEN Absent ELSE @.text]
=============================================================================
