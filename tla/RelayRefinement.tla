--------------------------- MODULE RelayRefinement ---------------------------
(***************************************************************************)
(* RelaySessions implements RelayMembership when the runtime has a single  *)
(* worker thread: a handler then runs to its end before the next begins,   *)
(* and takes effect, seen from outside, when it returns to its await.      *)
(***************************************************************************)
EXTENDS RelaySessions

VARIABLE seen   \* history: the membership when no handler was running last

Membership ==
    [host   |-> [s \in SessionIds |-> sessions[s].host],
     room   |-> [u \in Users |-> conns[u].session],
     online |-> {u \in Users : Online(u)}]

SeenInit == Init /\ seen = Membership
SeenNext == Next /\ seen' = IF Quiet' THEN Membership' ELSE seen

SeenSpec == SeenInit /\ [][SeenNext]_<<vars, seen>>

Promise == INSTANCE RelayMembership
               WITH host <- seen.host, room <- seen.room, online <- seen.online

\* Every handler that ends has done what one operation of the abstract
\* specification does, and nothing else: create_session, join_session,
\* leave_session, the takeover of a connection and its cleanup.
Implements == Promise!Spec
=============================================================================
