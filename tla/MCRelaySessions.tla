--------------------------- MODULE MCRelaySessions ---------------------------
(* Model values for RelaySessions and RelayLocks, which are the same handlers *)
(* twice: with their data, and with all of their locks.  `view` says which of *)
(* the two moves.  A user's sockets are the connections its client opens one  *)
(* after the other, or the second before the first closes.  In RelayLocks the *)
(* threads are alike, and there is one session and one user, so that every    *)
(* two accesses of a map compete.                                             *)
EXTENDS RelaySessions, RelayLocks, TLC

CONSTANTS a, b, a1, a2, b1, s1, t1, t2, t3

\* Alice may reconnect, Bob may not.
Reconnecting == (a1 :> a) @@ (a2 :> a) @@ (b1 :> b)

OneShard == [k \in Ids \cup Names |-> 0]

\* Which of Alice's sockets is the first is all one, and so are the threads.
Alike == Permutations({a1, a2}) \cup Permutations(Threads)

VARIABLE view

BothInit == view \in {"data", "locks"} /\ Init /\ LocksInit

BothNext ==
  \/ view = "data" /\ Next /\ UNCHANGED <<view, lockVars>>
  \/ view = "locks" /\ LocksNext /\ UNCHANGED <<view, vars>>

BothSpec == BothInit /\ [][BothNext]_<<view, vars, lockVars>>
=============================================================================
