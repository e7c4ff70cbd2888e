-------------------------- MODULE MCRelayRefinement --------------------------
(* Model values for RelayRefinement: three users, one of whom reconnects.    *)
EXTENDS RelayRefinement, TLC

CONSTANTS a, b, c, a1, a2, b1, c1, s1, s2

Reconnecting == (a1 :> a) @@ (a2 :> a) @@ (b1 :> b) @@ (c1 :> c)
=============================================================================
