------------------------- MODULE MCHandoffControl --------------------------
(* HandoffControl for model checking. *)
EXTENDS HandoffControl

CONSTANTS p1, p2, p3, c1, c2, r1, r2, i1, i2

OnePreparer == {p1}
TwoPreparers == {p1, p2}
MCPreparers == {p1, p2, p3}
OneCollector == {c1}
MCCollectors == {c1, c2}
MCReturnCalls == {r1, r2}
MCInterruptions == {i1, i2}
=============================================================================
