------------------------ MODULE MCHandoffOwnership -------------------------
(* HandoffOwnership for model checking. *)
EXTENDS HandoffOwnership

CONSTANTS p1, p2, c1, c2, r1, r2, i1, i2

OnePreparer == {p1}
OneCollector == {c1}
MCCollectors == {c1, c2}
MCReturnCalls == {r1, r2}
MCInterruptions == {i1, i2}
=============================================================================
