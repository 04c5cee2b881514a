------------------------- MODULE MCAccessReporting -------------------------
(* AccessReporting for model checking. *)
EXTENDS AccessReporting

CONSTANTS s1, s2, in, out

OneSite == {s1}
TwoSites == {s1, s2}
MCAssessments == {in, out}
=============================================================================
