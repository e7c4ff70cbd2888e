---------------------------- MODULE MCRelayInvites ----------------------------
(* Model values for RelayInvites: alice invites, bob comes and goes.         *)
EXTENDS RelayInvites, TLC

CONSTANTS a, b, a1, b1, b2, s1, s2

Guest == (a1 :> a) @@ (b1 :> b)
Returning == Guest @@ (b2 :> b)
=============================================================================
