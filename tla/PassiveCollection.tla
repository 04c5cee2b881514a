------------------------- MODULE PassiveCollection -------------------------
(***************************************************************************)
(* PassiveJobObservationCollector: at intervals, a round reads the job     *)
(* evidence of the pages that are open, in turn, and then writes it item   *)
(* by item.  Pages navigate and close while they are read, and control may *)
(* pass to the user between two pages.                                     *)
(***************************************************************************)
EXTENDS LoginPreparation

VARIABLE round      \* the local variables of the round

NoRound == [pc |-> "none", pages |-> <<>>, page |-> NoPage, from |-> "blank", at |-> "blank",
            seen |-> <<>>, items |-> <<>>]

roundRest == <<browserVars, toolVars, login>>

(* runCollection: a preparation waits while a collection reads. *)
Collecting == round.pc \in {"read", "captured"}

(* context.pages(): the pages that are open, in the order they appeared. *)
ContextPages == InOrder(tabs, {t \in Registered : page[tabs[t]].state = "open"})

(* On to the first page that is in the scope of collection, or to the      *)
(* writes if there is none, or if the agent has lost control.              *)
Onward(pages, items) ==
    LET next == First({i \in DOMAIN pages : Eligible(pages[i])}) IN
    IF control = "active" /\ next # {}
    THEN \E i \in next :
           round' = [NoRound EXCEPT !.pc = "read", !.page = pages[i], !.from = page[pages[i]].at,
                                    !.pages = SubSeq(pages, i + 1, Len(pages)), !.items = items]
    ELSE round' = IF items = <<>> THEN NoRound
                  ELSE [NoRound EXCEPT !.pc = "write", !.items = items]

(* A round that finds nothing to read is over at once. *)
RoundBegins ==
    /\ round.pc = "none" /\ control = "active" /\ calls < MaxCalls
    /\ \E i \in DOMAIN ContextPages : Eligible(ContextPages[i])
    /\ calls' = calls + 1
    /\ Onward(ContextPages, <<>>)
    /\ UNCHANGED <<browserVars, refs, nextRef, call, control, login>>

CapturesPage ==
    /\ round.pc = "read"
    /\ page[round.page].state = "open"
    /\ round' = [round EXCEPT !.pc = "captured", !.at = page[round.page].at,
                              !.seen = page[round.page].nodes]
    /\ UNCHANGED roundRest

CaptureFails ==
    /\ round.pc = "read"
    /\ page[round.page].state = "closed"
    /\ Onward(round.pages, round.items)
    /\ UNCHANGED roundRest

(* The page has changed, or its evidence is missing: it is passed over. *)
PassesOver ==
    /\ round.pc = "captured"
    /\ ~SamePage(round.from, round.at) \/ Incomplete(round.at)
    /\ Onward(round.pages, round.items)
    /\ UNCHANGED roundRest

Keeps ==
    /\ round.pc = "captured"
    /\ SamePage(round.from, round.at)
    /\ Onward(round.pages, Append(round.items, EvidenceOf(round.from, round.at, round.seen)))
    /\ UNCHANGED roundRest

(* One write after the other: a list is written card by card. *)
Writes ==
    /\ round.pc = "write"
    /\ round' = IF Len(round.items) = 1 THEN NoRound ELSE [round EXCEPT !.items = Tail(@)]
    /\ UNCHANGED roundRest

(* A write that fails ends the round: what is left of it is dropped. *)
WriteFails ==
    /\ round.pc = "write"
    /\ round' = NoRound
    /\ UNCHANGED roundRest

CollectionNext ==
    \/ RoundBegins \/ CapturesPage \/ CaptureFails \/ PassesOver \/ Keeps \/ Writes \/ WriteFails

-----------------------------------------------------------------------------
(* Invariant (captureJobCardSnapshot, captureJobDescriptionObservation):   *)
(* what is on its way to Workspace Service is evidence of the page it is   *)
(* attributed to, though pages navigate while they are read, and names no  *)
(* job twice.                                                              *)
EvidenceOfItsPage ==
    /\ \A i \in DOMAIN round.items : IsEvidence(round.items[i])
    /\ \A c \in Calls : Now(c, "read", "saving") =>
           IsEvidence(EvidenceOf(call[c].from, call[c].at, call[c].seen))
=============================================================================
