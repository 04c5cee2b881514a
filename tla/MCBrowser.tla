----------------------------- MODULE MCBrowser -----------------------------
(* Two pages or three, two calls at a time. *)
EXTENDS Browser, TLC

CONSTANTS p1, p2, c1, c2, j1

Symmetric == Permutations(Pages) \cup Permutations(Calls)
=============================================================================
