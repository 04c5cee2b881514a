---------------------------- MODULE MCJobLibrary ----------------------------
(* JobLibrary for model checking. *)
EXTENDS JobLibrary

CONSTANTS p, q, c, l, t, u, x, y

MCWords ==
    {p, q, c, l, t, u, x, y, Absent, "page", "card", "partial", "other", "renamed", "full", "bare"}

Stated(platform, id, url, company, title, location, text) ==
    [platform |-> platform, externalJobId |-> id, jobUrl |-> url, company |-> company,
     title |-> title, location |-> location, text |-> text, details |-> {text}, at |-> 0]

(* A card without a link, a partial one, and on a second platform the same *)
(* job before and after its title has changed and its place is missing.    *)
MCCards ==
    {Stated(p, Absent, Absent, c, t, l, "card"),
     Stated(p, Absent, Absent, c, u, Absent, "partial"),
     Stated(q, y, "page", c, t, l, "other"),
     Stated(q, y, "page", c, u, Absent, "renamed")}

(* The page of the first card, with all facts and with few. *)
MCDescriptions ==
    {Stated(p, x, "page", c, t, l, "full"),
     Stated(p, x, "page", Absent, t, Absent, "bare")}
=============================================================================
