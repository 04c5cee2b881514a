----------------------------- MODULE MCDashboard -----------------------------
(* Two names and two platforms; an intent that an earlier session left, and *)
(* a draft that differs from it in both.  The other clients create, select  *)
(* and delete intents, and write, rename and delete reports.                *)
EXTENDS Dashboard

CONSTANTS n1, n2, p1, p2

OneIntent == <<n1>>

OneDraft == {[name |-> n2, pages |-> {p2}]}

Ask(op, i, name, selected) ==
    [op |-> op, id |-> i, name |-> name, pages |-> {p2}, selected |-> selected]

MCOthers ==
    {Ask("save-intent", 0, n2, TRUE), Ask("select-intent", 1, n1, TRUE),
     Ask("delete-intent", 1, n1, TRUE), Ask("save-report", 0, n1, TRUE),
     Ask("save-report", 1, n2, TRUE), Ask("delete-report", 1, n1, TRUE)}
=============================================================================
