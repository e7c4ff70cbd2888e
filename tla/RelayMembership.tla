--------------------------- MODULE RelayMembership ---------------------------
(***************************************************************************)
(* What the relay promises its clients about watch sessions: who hosts a   *)
(* session and which session each user is in, with every request taking    *)
(* effect at once.  Channels, handlers and locks are RelaySessions'        *)
(* business, which implements this specification when the runtime has one  *)
(* worker thread (RelayRefinement).                                        *)
(***************************************************************************)
CONSTANTS Users, SessionIds, None

\* What the theorem about this specification assumes.
NoneIsNobody == None \notin SessionIds \cup Users

VARIABLES host,    \* the user who hosts each session, None if it is free
          room,    \* the session each user is in, or None
          online   \* the users with a live connection

vars == <<host, room, online>>

Hosts(u) == room[u] # None /\ host[room[u]] = u

\* A host takes everybody out of the session with it; a guest only leaves.
Leavers(u) == {v \in Users : v = u \/ (Hosts(u) /\ room[v] = room[u])}

RoomsWithout(u) == [v \in Users |-> IF v \in Leavers(u) THEN None ELSE room[v]]
HostsWithout(u) == [s \in SessionIds |-> IF host[s] = u THEN None ELSE host[s]]

Init ==
    /\ host = [s \in SessionIds |-> None]
    /\ room = [u \in Users |-> None]
    /\ online = {}

\* A user who connects anew, on top of a connection or not, keeps its place.
Connect(u) ==
    /\ online' = online \cup {u}
    /\ UNCHANGED <<host, room>>

Disconnect(u) ==
    /\ u \in online
    /\ online' = online \ {u}
    /\ room' = RoomsWithout(u)
    /\ host' = HostsWithout(u)

Create(u, s) ==
    /\ u \in online
    /\ host[s] = None
    /\ room' = [RoomsWithout(u) EXCEPT ![u] = s]
    /\ host' = [HostsWithout(u) EXCEPT ![s] = u]
    /\ UNCHANGED online

Join(u, s) ==
    /\ u \in online
    /\ host[s] # None
    /\ room[u] # s
    /\ room' = [RoomsWithout(u) EXCEPT ![u] = s]
    /\ host' = HostsWithout(u)
    /\ UNCHANGED online

Leave(u) ==
    /\ u \in online
    /\ room' = RoomsWithout(u)
    /\ host' = HostsWithout(u)
    /\ UNCHANGED online

Next ==
    \E u \in Users :
        \/ Connect(u) \/ Disconnect(u) \/ Leave(u)
        \/ \E s \in SessionIds : Create(u, s) \/ Join(u, s)

Spec == Init /\ [][Next]_vars

-----------------------------------------------------------------------------

TypeOK ==
    /\ host \in [SessionIds -> Users \cup {None}]
    /\ room \in [Users -> SessionIds \cup {None}]
    /\ online \subseteq Users

\* A session has a host exactly as long as somebody is in it, its host is in
\* it, and whoever is in a session is connected (session.rs leave_session and
\* handle_connection's cleanup).
Membership ==
    /\ \A s \in SessionIds : host[s] # None => room[host[s]] = s
    /\ \A u \in Users : room[u] # None => host[room[u]] # None /\ u \in online
=============================================================================
