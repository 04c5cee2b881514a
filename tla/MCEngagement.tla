---------------------------- MODULE MCEngagement ----------------------------
(* EngagementClaims for model checking. *)
EXTENDS EngagementClaims, TLC

CONSTANTS a, b, d, e, x, y, z, interested, applied

TwoKinds == {interested, applied}
Distinct == (a :> x) @@ (b :> y) @@ (d :> z)
SomeAlike == (a :> x) @@ (b :> x) @@ (d :> y) @@ (e :> z)
Single == a :> x
OneInterested == (interested :> {a}) @@ (applied :> {})
OneEach == (interested :> {a}) @@ (applied :> {b})
ThreeInterested == (interested :> {a, b, d}) @@ (applied :> {})
=============================================================================
