------------------------ MODULE RelayRefinementProofs ------------------------
(***************************************************************************)
(* With one worker thread the relay implements RelayMembership, for any    *)
(* users, sockets and session ids: whatever a handler does to the two      *)
(* maps, one access at a time, adds up to one operation on the membership. *)
(***************************************************************************)
EXTENDS RelayRefinement, RelaySessionsProofs, FiniteSetTheorems

-----------------------------------------------------------------------------
(* The inductive invariant says, for every access a handler is about to     *)
(* make, what the two maps look like compared with what was last seen.      *)

\* Hosts h, members by room r, the connections' sessions c, users online o.
Looks(h, r, c, o) ==
    /\ \A t \in SessionIds : sessions[t].host = h[t]
    /\ \A t \in SessionIds : Members(t) = {v \in Users : r[v] = t}
    /\ \A v \in Users : conns[v].session = c[v]
    /\ \A v \in Users : Online(v) <=> v \in o

\* The same of the next state, in terms of this one.
LooksNext(h, r, c, o) ==
    /\ \A t \in SessionIds : sessions'[t].host = h[t]
    /\ \A t \in SessionIds : Members(t)' = {v \in Users : r[v] = t}
    /\ \A v \in Users : conns'[v].session = c[v]
    /\ \A v \in Users : Online(v)' <=> v \in o

\* What a departure of u makes of what was seen.
HostsLeft(u) == Promise!HostsWithout(u)
RoomsLeft(u) == Promise!RoomsWithout(u)

\* Rooms r, but u's is s.
Placed(r, u, s) == [r EXCEPT ![u] = s]

AsSeen == Looks(seen.host, seen.room, seen.room, seen.online)

\* While u is on its way out, its connection is gone (a disconnect) or still
\* names the session (every other departure).
Own(k, r) == Placed(r, UserOf[k], IF task[k].ret = "closed"
                                  THEN None ELSE task[k].handle.session)
Around(k) == IF task[k].ret = "closed" THEN seen.online \ {UserOf[k]}
                                       ELSE seen.online

\* The rooms once u's participant entry is removed, and the connections'
\* sessions while a host's departure is sending the others away.
Out(k)     == Placed(seen.room, UserOf[k], None)
Cleared(k) == [v \in Users |->
                  IF seen.room[v] = task[k].handle.session /\ v \notin task[k].rest
                  THEN None ELSE seen.room[v]]

\* What the handler that is leaving on its way to something else has checked.
Aim(k) ==
    /\ task[k].ret = "create_insert" => seen.host[task[k].arg] = None
    /\ task[k].ret = "join_lookup"   => /\ seen.host[task[k].arg] # None
                                        /\ seen.room[UserOf[k]] # task[k].arg
    /\ task[k].ret = "idle"          => told[k] = None

LeavePcs  == {"leave_remove", "leave_rest", "leave_empty", "leave_tell",
              "leave_clear", "leave_drop", "leave_done"}
CreatePcs == {"create_insert", "create_conn", "create_reply"}
JoinPcs   == {"join_lookup", "join_insert", "join_conn", "join_reply"}
CalmPcs   == {"cleanup", "create_check", "join_check", "media_conn",
              "media_check", "media_set", "leave_conn"}

Hosting(k) == seen.host[task[k].handle.session] = UserOf[k]

OnTakeover(k) ==
    /\ Looks(seen.host, seen.room, Placed(seen.room, UserOf[k], None),
             seen.online \cup {UserOf[k]})
    /\ task[k].handle.session = seen.room[UserOf[k]]
    /\ Live(k) /\ told[k] = None

OnGreet(k) ==
    /\ Looks(seen.host, seen.room, seen.room, seen.online \cup {UserOf[k]})
    /\ told[k] = None

OnCalm(k) == AsSeen /\ (At(k, "cleanup") \/ Live(k))

OnLeave(k) ==
    /\ task[k].handle.session = seen.room[UserOf[k]]
    /\ task[k].handle.sender = k
    /\ UserOf[k] \in seen.online
    /\ task[k].ret # "closed" => Live(k)

OnRemove(k) == Looks(seen.host, seen.room, Own(k, seen.room), Around(k))
OnOut(k)    == Looks(seen.host, Out(k), Own(k, seen.room), Around(k))
OnEmpty(k)  == task[k].rest = IF Hosting(k) THEN Members(task[k].handle.session)
                                            ELSE {}
OnTell(k)   == /\ Hosting(k)
               /\ task[k].rest = Members(task[k].handle.session)
               /\ task[k].rest # {}
OnClear(k)  == /\ Hosting(k)
               /\ task[k].rest \subseteq Members(task[k].handle.session)
               /\ task[k].rest # {}
               /\ Looks(seen.host, Out(k), Own(k, Cleared(k)), Around(k))
               /\ \A j \in Sockets :
                     Live(j) /\ UserOf[j] \in task[k].rest => told[j] = None
OnDrop(k)   == /\ Hosting(k)
               /\ Looks(seen.host, Out(k), Own(k, RoomsLeft(UserOf[k])), Around(k))
OnDone(k)   == /\ task[k].ret # "closed"
               /\ Looks(HostsLeft(UserOf[k]), RoomsLeft(UserOf[k]),
                        Own(k, RoomsLeft(UserOf[k])), seen.online)

\* u has left what it was in and is in nothing yet.
OnFree(k) == Looks(HostsLeft(UserOf[k]), RoomsLeft(UserOf[k]),
                   RoomsLeft(UserOf[k]), seen.online)

HostsMade(k) == Placed(HostsLeft(UserOf[k]), task[k].arg, UserOf[k])
RoomsMade(k) == Placed(RoomsLeft(UserOf[k]), UserOf[k], task[k].arg)

Stage(k) ==
    /\ At(k, "takeover") => OnTakeover(k)
    /\ At(k, "greet") => OnGreet(k)
    /\ task[k].pc \in CalmPcs => OnCalm(k)
    /\ task[k].pc \in LeavePcs \cup {"leave_conn"} => Aim(k)
    /\ task[k].pc \in LeavePcs => OnLeave(k)
    /\ At(k, "leave_remove") => OnRemove(k)
    /\ task[k].pc \in {"leave_rest", "leave_empty", "leave_tell"} => OnOut(k)
    /\ At(k, "leave_empty") => OnEmpty(k)
    /\ At(k, "leave_tell") => OnTell(k)
    /\ At(k, "leave_clear") => OnClear(k)
    /\ At(k, "leave_drop") => OnDrop(k)
    /\ At(k, "leave_done") => OnDone(k)
    /\ task[k].pc \in CreatePcs \cup JoinPcs => Live(k)
    /\ task[k].pc \in CreatePcs => seen.host[task[k].arg] = None
    /\ task[k].pc \in JoinPcs => /\ seen.host[task[k].arg] # None
                                 /\ seen.room[UserOf[k]] # task[k].arg
    /\ task[k].pc \in {"create_insert", "join_lookup", "join_insert"} => OnFree(k)
    /\ At(k, "create_conn") =>
          Looks(HostsMade(k), RoomsMade(k), RoomsLeft(UserOf[k]), seen.online)
    /\ At(k, "create_reply") =>
          Looks(HostsMade(k), RoomsMade(k), RoomsMade(k), seen.online)
    /\ At(k, "join_conn") =>
          Looks(HostsLeft(UserOf[k]), RoomsMade(k), RoomsLeft(UserOf[k]), seen.online)
    /\ At(k, "join_reply") =>
          Looks(HostsLeft(UserOf[k]), RoomsMade(k), RoomsMade(k), seen.online)

\* At most one socket runs a handler.
OneBusy == \A j, k \in Sockets : Busy(j) /\ Busy(k) => j = k

\* An entry's channel is that of its user's connection, or of the one that a
\* takeover or a departure is about to look for.
Handing(k, v, t) ==
    /\ At(k, "takeover") \/ At(k, "leave_remove")
    /\ UserOf[k] = v /\ task[k].handle.session = t

Senders ==
    \A t \in SessionIds : \A v \in Members(t) :
        /\ \A k \in Sockets : Handing(k, v, t) =>
              sessions[t].participants[v].sender = task[k].handle.sender
        /\ (\A k \in Sockets : ~Handing(k, v, t)) =>
              sessions[t].participants[v].sender = conns[v].sender

\* The client of a switch is between its old session and the reply.
Switching(k) ==
    \/ task[k].pc \in CreatePcs \cup JoinPcs
    \/ /\ task[k].pc \in LeavePcs \cup {"leave_conn"}
       /\ task[k].ret \in {"create_insert", "join_lookup"}

Truth ==
    \A j \in Sockets : Live(j) /\ told[j] # None /\ ~Switching(j) =>
        conns[UserOf[j]].session = told[j]

NewUntold == \A j \in Sockets : At(j, "auth") => told[j] = None

\* What is seen is a membership; at rest, it is what there is.
SeenOK == /\ seen \in [host : [SessionIds -> Users \cup {None}],
                        room : [Users -> SessionIds \cup {None}],
                        online : SUBSET Users]
          /\ Promise!Membership

OneIInv ==
    /\ IInv /\ OneBusy /\ SeenOK
    /\ Quiet => AsSeen
    /\ \A k \in Sockets : Busy(k) => Stage(k)
    /\ Senders /\ Truth /\ NewUntold

-----------------------------------------------------------------------------
(* Departures, seen from outside. *)

\* Whoever is in no session leaves nothing behind.
LEMMA LeftNothing ==
    ASSUME SeenOK, NEW u \in Users, seen.room[u] = None
    PROVE  HostsLeft(u) = seen.host /\ RoomsLeft(u) = seen.room
<1>. USE NoneAssumption DEF SeenOK
<1>1. \A t \in SessionIds : seen.host[t] # u
  BY DEF Promise!Membership
<1>2. HostsLeft(u) = seen.host
  BY <1>1 DEF HostsLeft, Promise!HostsWithout
<1>3. RoomsLeft(u) = seen.room
  BY DEF RoomsLeft, Promise!RoomsWithout, Promise!Leavers, Promise!Hosts
<1>. QED  BY <1>2, <1>3

\* A guest leaves alone.
LEMMA GuestLeft ==
    ASSUME SeenOK, NEW u \in Users, seen.room[u] # None,
           seen.host[seen.room[u]] # u
    PROVE  HostsLeft(u) = seen.host /\ RoomsLeft(u) = Placed(seen.room, u, None)
<1>. USE NoneAssumption DEF SeenOK
<1>1. \A t \in SessionIds : seen.host[t] # u
  BY DEF Promise!Membership
<1>2. HostsLeft(u) = seen.host
  BY <1>1 DEF HostsLeft, Promise!HostsWithout
<1>3. RoomsLeft(u) = Placed(seen.room, u, None)
  BY DEF RoomsLeft, Promise!RoomsWithout, Promise!Leavers, Promise!Hosts, Placed
<1>. QED  BY <1>2, <1>3

\* A host takes everybody out.
LEMMA HostLeft ==
    ASSUME SeenOK, NEW u \in Users, seen.room[u] # None,
           seen.host[seen.room[u]] = u
    PROVE  /\ HostsLeft(u) = Placed(seen.host, seen.room[u], None)
           /\ RoomsLeft(u) = [v \in Users |-> IF seen.room[v] = seen.room[u]
                                              THEN None ELSE seen.room[v]]
<1>. USE NoneAssumption DEF SeenOK
<1>1. \A t \in SessionIds : seen.host[t] = u => t = seen.room[u]
  BY DEF Promise!Membership
<1>2. HostsLeft(u) = Placed(seen.host, seen.room[u], None)
  BY <1>1 DEF HostsLeft, Promise!HostsWithout, Placed
<1>3. RoomsLeft(u) = [v \in Users |-> IF seen.room[v] = seen.room[u]
                                     THEN None ELSE seen.room[v]]
  BY DEF RoomsLeft, Promise!RoomsWithout, Promise!Leavers, Promise!Hosts
<1>. QED  BY <1>2, <1>3

\* Whoever has left is in no session, and a session it was not in has kept
\* its host.
LEMMA LeftTypes ==
    ASSUME SeenOK, NEW u \in Users
    PROVE  /\ HostsLeft(u) \in [SessionIds -> Users \cup {None}]
           /\ RoomsLeft(u) \in [Users -> SessionIds \cup {None}]
           /\ RoomsLeft(u)[u] = None
           /\ \A t \in SessionIds : seen.host[t] = None \/ seen.room[u] # t =>
                 HostsLeft(u)[t] = seen.host[t]
           /\ \A v \in Users : RoomsLeft(u)[v] # None => RoomsLeft(u)[v] = seen.room[v]
<1>. USE NoneAssumption DEF SeenOK
<1>1. HostsLeft(u) \in [SessionIds -> Users \cup {None}]
  BY DEF HostsLeft, Promise!HostsWithout
<1>2. RoomsLeft(u) \in [Users -> SessionIds \cup {None}]
  BY DEF RoomsLeft, Promise!RoomsWithout
<1>3. /\ RoomsLeft(u)[u] = None
      /\ \A v \in Users : RoomsLeft(u)[v] # None => RoomsLeft(u)[v] = seen.room[v]
  BY DEF RoomsLeft, Promise!RoomsWithout, Promise!Leavers
<1>4. ASSUME NEW t \in SessionIds, seen.host[t] = None \/ seen.room[u] # t
      PROVE  HostsLeft(u)[t] = seen.host[t]
  BY <1>4 DEF HostsLeft, Promise!HostsWithout, Promise!Membership
<1>. QED  BY <1>1, <1>2, <1>3, <1>4

-----------------------------------------------------------------------------
(* What the accesses do to the maps, as far as Looks tells.                 *)

SessionsKept == /\ \A t \in SessionIds : sessions'[t].host = sessions[t].host
                /\ \A t \in SessionIds : Members(t)' = Members(t)
ConnsKept == \A v \in Users : /\ conns'[v].session = conns[v].session
                              /\ Online(v)' <=> Online(v)

LEMMA LooksKept ==
    ASSUME NEW h, NEW r, NEW c, NEW o, Looks(h, r, c, o), SessionsKept, ConnsKept
    PROVE  LooksNext(h, r, c, o)
BY DEF Looks, LooksNext, SessionsKept, ConnsKept

LEMMA SameSessions == ASSUME UNCHANGED sessions PROVE SessionsKept
BY DEF SessionsKept, Members

LEMMA SameConns == ASSUME UNCHANGED conns PROVE ConnsKept
BY DEF ConnsKept, Online

\* A connection that is there is moved to session s.
LEMMA Moved ==
    ASSUME TypeOK, TypeOK', NEW u \in Users, NEW s \in SessionIds \cup {None},
           Online(u), conns' = SetSession(u, s)
    PROVE  /\ \A v \in Users : conns'[v].session = IF v = u THEN s
                                                   ELSE conns[v].session
           /\ \A v \in Users : conns'[v].sender = conns[v].sender
           /\ \A v \in Users : Online(v)' <=> Online(v)
<1>1. conns[u] \in Handle
  BY ConnType
<1>2. conns' = [conns EXCEPT ![u].session = s]
  BY DEF SetSession
<1>3. /\ \A v \in Users : conns'[v].session = IF v = u THEN s
                                              ELSE conns[v].session
      /\ \A v \in Users : conns'[v].sender = conns[v].sender
  BY <1>1, <1>2 DEF TypeOK, Handle
<1>4. \A v \in Users : /\ Online(v) <=> conns[v].sender # None
                       /\ Online(v)' <=> conns'[v].sender # None
  BY NoneAssumption DEF TypeOK, Handle, NoHandle, Online
<1>. QED  BY <1>3, <1>4

LEMMA LooksMoved ==
    ASSUME TypeOK, TypeOK', NEW u \in Users, NEW s \in SessionIds \cup {None},
           Online(u), conns' = SetSession(u, s), SessionsKept,
           NEW h, NEW r, NEW c, NEW o, Looks(h, r, c, o), DOMAIN c = Users
    PROVE  LooksNext(h, r, [c EXCEPT ![u] = s], o)
BY Moved DEF Looks, LooksNext, SessionsKept

\* An entry's channel is replaced: nobody joins or leaves.
LEMMA TakeoverSessions ==
    ASSUME TypeOK, NEW k \in Sockets, Takeover(k),
           task[k].handle.session \in SessionIds,
           MemberVia(task[k].handle.session, UserOf[k], task[k].handle.sender)
    PROVE  /\ SessionsKept
           /\ \A t \in SessionIds : \A v \in Members(t) :
                 sessions'[t].participants[v].sender =
                     IF t = task[k].handle.session /\ v = UserOf[k] THEN k
                     ELSE sessions[t].participants[v].sender
<1> DEFINE u == UserOf[k]
           s == task[k].handle.session
           r == [sessions[s].participants EXCEPT ![u].sender = k]
<1>1. u \in Members(s) /\ sessions[s] \in Session
  BY ExistsSession DEF MemberVia
<1>2. sessions' = [sessions EXCEPT ![s] = [@ EXCEPT !.participants = r]]
  BY DEF Takeover
<1>3. /\ sessions'[s].host = sessions[s].host /\ sessions'[s].participants = r
      /\ \A t \in SessionIds : t # s => sessions'[t] = sessions[t]
  BY <1>1, <1>2 DEF TypeOK, Session
<1>4. /\ DOMAIN r = Members(s)
      /\ \A v \in Members(s) : r[v].sender = IF v = u THEN k
                                             ELSE sessions[s].participants[v].sender
  <2>1. sessions[s].participants \in [Members(s) -> Participant]
    BY SessionRoster
  <2>. QED  BY <1>1, <2>1 DEF Participant
<1>. QED  BY <1>3, <1>4 DEF SessionsKept, Members

\* u's entry is taken out.
LEMMA RemoveSessions ==
    ASSUME TypeOK, NEW k \in Sockets, LeaveRemove(k),
           task[k].handle.session \in SessionIds,
           MemberVia(task[k].handle.session, UserOf[k], task[k].handle.sender)
    PROVE  /\ \A t \in SessionIds : sessions'[t].host = sessions[t].host
           /\ \A t \in SessionIds : Members(t)' =
                 IF t = task[k].handle.session THEN Members(t) \ {UserOf[k]}
                                               ELSE Members(t)
           /\ \A t \in SessionIds : \A v \in Members(t)' :
                 sessions'[t].participants[v].sender = sessions[t].participants[v].sender
<1> DEFINE u == UserOf[k]
           s == task[k].handle.session
<1>1. sessions[s] \in Session
  BY ExistsSession DEF MemberVia
<1>2. sessions' = [sessions EXCEPT ![s] = [@ EXCEPT !.participants = WithoutMember(s, u)]]
  BY DEF LeaveRemove
<1>3. /\ sessions'[s].host = sessions[s].host
      /\ sessions'[s].participants = WithoutMember(s, u)
      /\ \A t \in SessionIds : t # s => sessions'[t] = sessions[t]
  BY <1>1, <1>2 DEF TypeOK, Session
<1>. QED  BY <1>3 DEF Members, WithoutMember

\* The session object of a host alone.
LEMMA InsertSessions ==
    ASSUME TypeOK, NEW k \in Sockets, CreateInsert(k), task[k].arg \in SessionIds
    PROVE  /\ \A t \in SessionIds : sessions'[t].host =
                 IF t = task[k].arg THEN UserOf[k] ELSE sessions[t].host
           /\ \A t \in SessionIds : Members(t)' =
                 IF t = task[k].arg THEN {UserOf[k]} ELSE Members(t)
           /\ \A t \in SessionIds : \A v \in Members(t)' :
                 sessions'[t].participants[v].sender =
                     IF t = task[k].arg THEN k ELSE sessions[t].participants[v].sender
<1> DEFINE u == UserOf[k]
           g == task[k].arg
           p == [v \in {u} |-> [isHost |-> TRUE, sender |-> k]]
<1>1. sessions' = [sessions EXCEPT ![g] = [host |-> u, media |-> u, participants |-> p]]
  BY DEF CreateInsert
<1>2. /\ sessions'[g].host = u /\ sessions'[g].participants = p
      /\ \A t \in SessionIds : t # g => sessions'[t] = sessions[t]
  BY <1>1 DEF TypeOK
<1>. QED  BY <1>2 DEF Members

\* u's entry is put into a session that is there.
LEMMA JoinSessions ==
    ASSUME TypeOK, GuardedExists, NEW k \in Sockets, JoinInsert(k),
           task[k].arg \in SessionIds
    PROVE  /\ \A t \in SessionIds : sessions'[t].host = sessions[t].host
           /\ \A t \in SessionIds : Members(t)' =
                 IF t = task[k].arg THEN Members(t) \cup {UserOf[k]} ELSE Members(t)
           /\ \A t \in SessionIds : \A v \in Members(t)' :
                 sessions'[t].participants[v].sender =
                     IF t = task[k].arg /\ v = UserOf[k] THEN k
                     ELSE sessions[t].participants[v].sender
<1> DEFINE u == UserOf[k]
           g == task[k].arg
           r == WithMember(g, u, [isHost |-> FALSE, sender |-> k])
<1>1. sessions[g] \in Session
  BY ExistsSession DEF GuardedExists, Guarding, JoinInsert
<1>2. sessions' = [sessions EXCEPT ![g] = [@ EXCEPT !.participants = r]]
  BY DEF JoinInsert
<1>3. /\ sessions'[g].host = sessions[g].host /\ sessions'[g].participants = r
      /\ \A t \in SessionIds : t # g => sessions'[t] = sessions[t]
  BY <1>1, <1>2 DEF TypeOK, Session
<1>. QED  BY <1>3 DEF Members, WithMember

\* The entry of a session is gone.
LEMMA DropSessions ==
    ASSUME TypeOK, NEW k \in Sockets, LeaveDrop(k),
           task[k].handle.session \in SessionIds
    PROVE  /\ \A t \in SessionIds : sessions'[t].host =
                 IF t = task[k].handle.session THEN None ELSE sessions[t].host
           /\ \A t \in SessionIds : Members(t)' =
                 IF t = task[k].handle.session THEN {} ELSE Members(t)
           /\ \A t \in SessionIds : \A v \in Members(t)' :
                 sessions'[t].participants[v].sender = sessions[t].participants[v].sender
<1>1. /\ sessions'[task[k].handle.session] = NoSession
      /\ \A t \in SessionIds : t # task[k].handle.session => sessions'[t] = sessions[t]
  BY DEF LeaveDrop, TypeOK
<1>. QED  BY <1>1 DEF Members, NoSession

\* Other media, the same people.
LEMMA MediaSessions ==
    ASSUME TypeOK, NEW k \in Sockets, MediaSet(k), task[k].arg \in SessionIds
    PROVE  /\ SessionsKept
           /\ \A t \in SessionIds : \A v \in Members(t) :
                 sessions'[t].participants[v].sender = sessions[t].participants[v].sender
<1> DEFINE g == task[k].arg
<1>1. CASE Exists(g)
  <2>1. sessions[g] \in Session
    BY <1>1, ExistsSession
  <2>2. sessions' = [sessions EXCEPT ![g] = [@ EXCEPT !.media = UserOf[k]]]
    BY <1>1 DEF MediaSet
  <2>3. /\ sessions'[g].host = sessions[g].host
        /\ sessions'[g].participants = sessions[g].participants
        /\ \A t \in SessionIds : t # g => sessions'[t] = sessions[t]
    BY <2>1, <2>2 DEF TypeOK, Session
  <2>. QED  BY <2>3 DEF SessionsKept, Members
<1>2. CASE ~Exists(g)
  BY <1>2 DEF MediaSet, SessionsKept, Members
<1>. QED  BY <1>1, <1>2

-----------------------------------------------------------------------------
(* A handler that runs is alone. *)

\* With one worker, a worker is free only if nobody runs.
LEMMA FreeMeansQuiet ==
    ASSUME Workers = 1, OneBusy, WorkerFree
    PROVE  Quiet
<1> SUFFICES ASSUME NEW k \in Sockets, Busy(k) PROVE FALSE
  BY DEF Quiet
<1>1. {l \in Sockets : Busy(l)} = {k}
  BY DEF OneBusy
<1>. QED  BY <1>1, FS_Singleton DEF WorkerFree

\* A socket wakes when nobody runs, unless all it does is to give up.
LEMMA WakeQuiet ==
    ASSUME Workers = 1, OneBusy, NEW k \in Sockets, Wake(k), ~AuthFail(k)
    PROVE  Quiet
BY FreeMeansQuiet DEF Wake, Register, Break, ReceiveCreate, ReceiveJoin,
                      ReceiveLeave, ReceiveNewMedia, Receive

LEMMA RunBusy ==
    ASSUME NEW k \in Sockets, Run(k)
    PROVE  Busy(k)
BY DEF Run, Busy, Running, At, Takeover, Greet, Cleanup, CreateCheck,
       CreateInsert, CreateConn, CreateReply, JoinCheck, JoinLookup, JoinInsert,
       JoinConn, JoinReply, LeaveConn, LeaveRemove, LeaveRest, LeaveEmpty,
       LeaveTell, LeaveClear, LeaveDrop, LeaveDone, MediaConn, MediaCheck, MediaSet

LEMMA GiveUp ==
    ASSUME TypeOK, NEW k \in Sockets, AuthFail(k)
    PROVE  task[k].pc = "auth" /\ task'[k].pc = "closed"
BY GotoFrame DEF AuthFail, At, Awaiting

\* Whoever is running after a step that was not a failed authentication is
\* the socket that made it.
LEMMA BusyNext ==
    ASSUME Workers = 1, TypeOK, OneBusy, NEW k \in Sockets, Wake(k) \/ Run(k),
           ~AuthFail(k), NEW j \in Sockets, Busy(j)'
    PROVE  j = k
<1> SUFFICES ASSUME j # k PROVE FALSE
  OBVIOUS
<1>1. Busy(j)
  BY OthersKept DEF Busy
<1>. QED  BY <1>1, WakeQuiet, RunBusy DEF OneBusy, Quiet

LEMMA OneBusyStep ==
    ASSUME Workers = 1, TypeOK, OneBusy, NEW k \in Sockets, Wake(k) \/ Run(k)
    PROVE  OneBusy'
<1>1. CASE AuthFail(k)
  BY <1>1, GiveUp, OthersKept DEF OneBusy, Busy, Running
<1>2. CASE ~AuthFail(k)
  BY <1>2, BusyNext DEF OneBusy
<1>. QED  BY <1>1, <1>2

-----------------------------------------------------------------------------
(* A handler begins: from what was seen. *)

\* What was seen stands while a handler runs.
LEMMA SeenStands ==
    ASSUME seen' = seen, NEW u \in Users
    PROVE  HostsLeft(u)' = HostsLeft(u) /\ RoomsLeft(u)' = RoomsLeft(u)
BY DEF HostsLeft, RoomsLeft, Promise!HostsWithout, Promise!RoomsWithout,
       Promise!Leavers, Promise!Hosts

LEMMA StageRegister ==
    ASSUME OneIInv, Quiet, NEW k \in Sockets, Register(k), TypeOK', seen' = seen
    PROVE  Stage(k)'
<1> DEFINE u == UserOf[k]
           r == Placed(seen.room, u, None)
<1>1. TypeOK /\ SeenOK /\ AsSeen /\ u \in Users /\ told[k] = None
  BY UserOfAssumption DEF OneIInv, IInv, NewUntold, Register
<1>2. conns' = [conns EXCEPT ![u] = [session |-> None, sender |-> k]]
  BY DEF Register
<1>3. /\ \A v \in Users : conns'[v].session = r[v]
      /\ \A v \in Users : Online(v)' <=> v \in seen.online \cup {u}
      /\ Live(k)'
  BY <1>1, <1>2, NoneAssumption
     DEF TypeOK, SeenOK, AsSeen, Looks, Placed, Online, NoHandle, Live
<1>4. SessionsKept /\ UNCHANGED told
  BY SameSessions DEF Register
<1>5. /\ \A t \in SessionIds : sessions'[t].host = seen.host[t]
      /\ \A t \in SessionIds : Members(t)' = {v \in Users : seen.room[v] = t}
  BY <1>1, <1>4 DEF AsSeen, Looks, SessionsKept
<1>6. CASE conns[u].session # None
  <2>1. Carry(k, "takeover", conns[u], "idle", {})
    BY <1>6 DEF Register
  <2>2. task'[k].pc = "takeover" /\ task'[k].handle.session = seen.room[u]
    BY <1>1, <2>1, CarryFrame DEF AsSeen, Looks
  <2>3. OnTakeover(k)'
    BY <1>1, <1>3, <1>4, <1>5, <2>2 DEF OnTakeover, Looks
  <2>. QED  BY <2>2, <2>3 DEF Stage, At, CalmPcs, LeavePcs, CreatePcs, JoinPcs
<1>7. CASE conns[u].session = None
  <2>1. Goto(k, "greet")
    BY <1>7 DEF Register
  <2>2. task'[k].pc = "greet"
    BY <1>1, <2>1, GotoFrame
  <2>3. r = seen.room
    BY <1>1, <1>7 DEF AsSeen, Looks, SeenOK, Placed
  <2>4. OnGreet(k)'
    BY <1>1, <1>3, <1>4, <1>5, <2>3 DEF OnGreet, Looks
  <2>. QED  BY <2>2, <2>4 DEF Stage, At, CalmPcs, LeavePcs, CreatePcs, JoinPcs
<1>. QED  BY <1>6, <1>7

\* What was seen is still what there is.
LEMMA AsSeenKept ==
    ASSUME AsSeen, SessionsKept, ConnsKept, seen' = seen
    PROVE  AsSeen'
<1>1. LooksNext(seen.host, seen.room, seen.room, seen.online)
  BY LooksKept DEF AsSeen
<1>. QED  BY <1>1 DEF AsSeen, Looks, LooksNext

LEMMA StageMessage ==
    ASSUME OneIInv, Quiet, NEW k \in Sockets,
           Wake(k), ~AuthFail(k), ~Register(k), TypeOK', seen' = seen
    PROVE  Stage(k)'
<1>1. TypeOK /\ AsSeen
  BY DEF OneIInv, IInv
<1>2. UNCHANGED <<sessions, conns>>
  BY DEF Wake, Break, ReceiveCreate, ReceiveJoin, ReceiveLeave, ReceiveNewMedia, Receive
<1>3. AsSeen'
  BY <1>1, <1>2, AsSeenKept, SameSessions, SameConns
<1>4. CASE Break(k)
  <2>1. task'[k].pc = "cleanup"
    BY <1>1, <1>4, GotoFrame DEF Break
  <2>. QED  BY <1>3, <2>1 DEF Stage, OnCalm, At, CalmPcs, LeavePcs, CreatePcs, JoinPcs
<1>5. CASE ReceiveLeave(k)
  <2>1. task'[k].pc = "leave_conn" /\ task'[k].ret = "idle" /\ Live(k)'
    BY <1>1, <1>2, <1>5, EnterFrame DEF ReceiveLeave, Receive, Live
  <2>2. told'[k] = None
    BY <1>1, <1>5 DEF ReceiveLeave, TypeOK
  <2>. QED  BY <1>3, <2>1, <2>2 DEF Stage, OnCalm, Aim, At, CalmPcs, LeavePcs,
                                    CreatePcs, JoinPcs
<1>6. CASE \/ \E s \in SessionIds : ReceiveCreate(k, s) \/ ReceiveJoin(k, s)
           \/ ReceiveNewMedia(k)
  <2>1. task'[k].pc \in {"create_check", "join_check", "media_conn"} /\ Live(k)'
    BY <1>1, <1>2, <1>6, EnterFrame
       DEF ReceiveCreate, ReceiveJoin, ReceiveNewMedia, Receive, Live
  <2>. QED  BY <1>3, <2>1 DEF Stage, OnCalm, At, CalmPcs, LeavePcs, CreatePcs, JoinPcs
<1>. QED  BY <1>4, <1>5, <1>6 DEF Wake

-----------------------------------------------------------------------------
(* A handler goes on.  The label it is at, and what that says.             *)

\* What a running handler may use: its frame, and what is known at its label.
LEMMA AtWork ==
    ASSUME OneIInv, NEW k \in Sockets, Run(k)
    PROVE  /\ TypeOK /\ GuardedExists /\ SeenOK /\ FrameOK(k)
           /\ UserOf[k] \in Users /\ Stage(k) /\ Busy(k)
           /\ \A j \in Sockets : j # k => ~Busy(j)
           /\ task[k].ret \in {"create_insert", "join_lookup", "idle", "closed"}
BY RunBusy, FrameType DEF OneIInv, IInv, OneBusy

\* The channel of an entry that nobody is about to hand over.
LEMMA SenderOf ==
    ASSUME OneIInv, NEW k \in Sockets, Busy(k),
           ~At(k, "takeover"), ~At(k, "leave_remove"),
           NEW t \in SessionIds, NEW v \in Members(t)
    PROVE  sessions[t].participants[v].sender = conns[v].sender
<1>1. \A j \in Sockets : ~Handing(j, v, t)
  BY DEF OneIInv, OneBusy, Handing, At, Busy, Running
<1>. QED  BY <1>1 DEF OneIInv, Senders

\* The entry that is about to be handed over, or taken out, is there.
LEMMA HandedOver ==
    ASSUME OneIInv, NEW k \in Sockets, Run(k), At(k, "takeover") \/ At(k, "leave_remove")
    PROVE  /\ task[k].handle.session = seen.room[UserOf[k]]
           /\ task[k].handle.session \in SessionIds
           /\ MemberVia(task[k].handle.session, UserOf[k], task[k].handle.sender)
<1> DEFINE u == UserOf[k]
           s == task[k].handle.session
<1>1. TypeOK /\ FrameOK(k) /\ u \in Users /\ Stage(k)
  BY AtWork
<1>2. s = seen.room[u] /\ s \in SessionIds
  BY <1>1 DEF Stage, OnTakeover, OnLeave, At, LeavePcs, FrameOK
<1>3. Members(s) = {v \in Users : seen.room[v] = s}
  BY <1>1, <1>2 DEF Stage, OnTakeover, OnRemove, Looks, At
<1>4. sessions[s].participants[u].sender = task[k].handle.sender
  BY <1>1, <1>2, <1>3 DEF OneIInv, Senders, Handing
<1>. QED  BY <1>1, <1>2, <1>3, <1>4 DEF MemberVia

LEMMA StageTakeover ==
    ASSUME OneIInv, NEW k \in Sockets, Takeover(k), TypeOK', seen' = seen
    PROVE  Stage(k)'
<1> DEFINE u == UserOf[k]
           s == task[k].handle.session
           c == Placed(seen.room, u, None)
<1>r. Run(k) /\ At(k, "takeover")
  BY DEF Run, Takeover
<1>1. TypeOK /\ SeenOK /\ u \in Users /\ OnTakeover(k)
  BY <1>r, AtWork DEF Stage
<1>2. s = seen.room[u] /\ s \in SessionIds /\ MemberVia(s, u, task[k].handle.sender)
  BY <1>r, HandedOver
<1>3. conns' = SetSession(u, s) /\ Enter(k, "greet", None) /\ UNCHANGED told
  BY <1>2 DEF Takeover
<1>4. Online(u) /\ SessionsKept
  BY <1>1, <1>2, TakeoverSessions DEF OnTakeover, Looks
<1>5. LooksNext(seen.host, seen.room, [c EXCEPT ![u] = s], seen.online \cup {u})
  BY <1>1, <1>2, <1>3, <1>4, LooksMoved DEF OnTakeover, SeenOK, Placed
<1>6. [c EXCEPT ![u] = s] = seen.room
  BY <1>1, <1>2 DEF SeenOK, Placed
<1>7. LooksNext(seen.host, seen.room, seen.room, seen.online \cup {u})
  BY <1>5, <1>6
<1>8. OnGreet(k)'
  BY <1>1, <1>3, <1>7 DEF OnGreet, OnTakeover, Looks, LooksNext
<1>9. task'[k].pc = "greet"
  BY <1>1, <1>3, EnterFrame
<1>. QED  BY <1>8, <1>9 DEF Stage, At, CalmPcs, LeavePcs, CreatePcs, JoinPcs

\* A disconnect begins: the connection is gone, its user still a member.
LEMMA StageCleanup ==
    ASSUME OneIInv, NEW k \in Sockets, Cleanup(k), TypeOK', seen' = seen,
           Live(k), conns[UserOf[k]].session # None
    PROVE  Stage(k)'
<1> DEFINE u == UserOf[k]
<1>r. Run(k) /\ At(k, "cleanup")
  BY DEF Run, Cleanup
<1>1. TypeOK /\ SeenOK /\ u \in Users /\ AsSeen
  BY <1>r, AtWork DEF Stage, OnCalm, CalmPcs, At
<1>2. conns' = [conns EXCEPT ![u] = NoHandle] /\ UNCHANGED sessions
  BY DEF Cleanup
<1>3. /\ \A v \in Users : conns'[v].session = Placed(seen.room, u, None)[v]
      /\ \A v \in Users : Online(v)' <=> v \in seen.online \ {u}
  BY <1>1, <1>2 DEF TypeOK, AsSeen, Looks, SeenOK, Placed, Online, NoHandle
<1>4. Carry(k, "leave_remove", conns[u], "closed", {})
  BY DEF Cleanup
<1>5. /\ task'[k].pc = "leave_remove" /\ task'[k].ret = "closed"
      /\ task'[k].handle = conns[u]
  BY <1>1, <1>4, CarryFrame
<1>6. Online(u)
  BY DEF Online, NoHandle
<1>7. OnLeave(k)'
  BY <1>1, <1>5, <1>6 DEF OnLeave, AsSeen, Looks, Live
<1>8. OnRemove(k)'
  BY <1>1, <1>2, <1>3, <1>5 DEF OnRemove, Looks, AsSeen, Own, Around, Members
<1>9. Aim(k)'
  BY <1>5 DEF Aim
<1>. QED  BY <1>5, <1>7, <1>8, <1>9 DEF Stage, At, CalmPcs, LeavePcs, CreatePcs, JoinPcs

\* A request that has been looked into: what it has seen is true.
LEMMA StageCheck ==
    ASSUME OneIInv, NEW k \in Sockets, TypeOK', seen' = seen, Busy(k)',
           CreateCheck(k) \/ JoinCheck(k) \/ MediaConn(k) \/ MediaCheck(k)
    PROVE  Stage(k)'
<1> DEFINE u == UserOf[k]
           g == task[k].arg
<1>r. Run(k) /\ task[k].pc \in CalmPcs
  BY DEF Run, CreateCheck, JoinCheck, MediaConn, MediaCheck, At, CalmPcs
<1>1. TypeOK /\ SeenOK /\ u \in Users /\ AsSeen /\ FrameOK(k)
  BY <1>r, AtWork DEF Stage, OnCalm
<1>2. Live(k)
  BY <1>r, AtWork DEF Stage, OnCalm, CreateCheck, JoinCheck, MediaConn, MediaCheck, At
<1>3. AsSeen' /\ Live(k)' /\ UNCHANGED <<sessions, conns, told>>
  <2>1. UNCHANGED <<sessions, conns, told>>
    BY DEF CreateCheck, JoinCheck, MediaConn, MediaCheck
  <2>. QED  BY <1>1, <1>2, <2>1, AsSeenKept, SameSessions, SameConns DEF Live
<1>4. ~Await(k)
  BY <1>1, EnterFrame DEF Await, Busy, Running
<1>5. CASE CreateCheck(k)
  <2>1. ~Exists(g) /\ Carry(k, "leave_conn", NoHandle, "create_insert", {})
    BY <1>4, <1>5 DEF CreateCheck
  <2>2. seen.host[g] = None
    BY <1>1, <1>5, <2>1, ExistsSession
       DEF AsSeen, Looks, SeenOK, FrameOK, CreateCheck, At
  <2>3. /\ task'[k].pc = "leave_conn" /\ task'[k].ret = "create_insert"
        /\ task'[k].arg = g
    BY <1>1, <2>1, CarryFrame
  <2>4. Aim(k)'
    BY <2>2, <2>3 DEF Aim
  <2>. QED  BY <1>3, <2>3, <2>4 DEF Stage, OnCalm, At, CalmPcs, LeavePcs, CreatePcs, JoinPcs
<1>6. CASE JoinCheck(k)
  <2>1. /\ Exists(g) /\ u \notin Members(g)
        /\ Carry(k, "leave_conn", NoHandle, "join_lookup", {})
    BY <1>4, <1>6 DEF JoinCheck
  <2>2. seen.host[g] # None /\ seen.room[u] # g
    BY <1>1, <1>6, <2>1, ExistsSession, NoneAssumption
       DEF AsSeen, Looks, SeenOK, FrameOK, JoinCheck, At
  <2>3. /\ task'[k].pc = "leave_conn" /\ task'[k].ret = "join_lookup"
        /\ task'[k].arg = g
    BY <1>1, <2>1, CarryFrame
  <2>4. Aim(k)'
    BY <2>2, <2>3 DEF Aim
  <2>. QED  BY <1>3, <2>3, <2>4 DEF Stage, OnCalm, At, CalmPcs, LeavePcs, CreatePcs, JoinPcs
<1>7. CASE MediaConn(k) \/ MediaCheck(k)
  <2>1. task'[k].pc \in {"media_check", "media_set"}
    BY <1>1, <1>4, <1>7, EnterFrame, GotoFrame DEF MediaConn, MediaCheck
  <2>. QED  BY <1>3, <2>1 DEF Stage, OnCalm, At, CalmPcs, LeavePcs, CreatePcs, JoinPcs
<1>. QED  BY <1>5, <1>6, <1>7

-----------------------------------------------------------------------------
(* A departure goes on. *)

\* What a handler that is leaving knows.
LEMMA AtLeave ==
    ASSUME OneIInv, NEW k \in Sockets, Run(k), task[k].pc \in LeavePcs
    PROVE  /\ OnLeave(k) /\ Aim(k)
           /\ task[k].handle.session \in SessionIds
           /\ seen.room[UserOf[k]] = task[k].handle.session
           /\ seen.host[task[k].handle.session] \in Users
           /\ seen.room[seen.host[task[k].handle.session]] = task[k].handle.session
<1>1. OnLeave(k) /\ Aim(k) /\ SeenOK /\ UserOf[k] \in Users /\ FrameOK(k)
  BY AtWork DEF Stage
<1>2. task[k].handle.session \in SessionIds
  BY <1>1 DEF FrameOK, LeavePcs
<1>. QED  BY <1>1, <1>2, NoneAssumption DEF OnLeave, SeenOK, Promise!Membership

\* The step keeps the locals of the departure.
LocalsKept(k) == /\ task'[k].handle = task[k].handle
                 /\ task'[k].ret = task[k].ret /\ task'[k].arg = task[k].arg

LEMMA LeaveKept ==
    ASSUME NEW k \in Sockets, OnLeave(k), Aim(k), LocalsKept(k), seen' = seen,
           conns'[UserOf[k]].sender = conns[UserOf[k]].sender,
           task[k].ret = "idle" => told'[k] = None
    PROVE  OnLeave(k)' /\ Aim(k)'
BY DEF OnLeave, Aim, LocalsKept, Live

LEMMA StageLeaveConn ==
    ASSUME OneIInv, NEW k \in Sockets, LeaveConn(k), TypeOK', seen' = seen, Busy(k)'
    PROVE  Stage(k)'
<1> DEFINE u == UserOf[k]
<1>r. Run(k) /\ At(k, "leave_conn")
  BY DEF Run, LeaveConn
<1>1. /\ TypeOK /\ SeenOK /\ u \in Users /\ AsSeen /\ Live(k) /\ Aim(k)
      /\ task[k].ret \in {"create_insert", "join_lookup", "idle"}
  BY <1>r, AtWork DEF Stage, OnCalm, CalmPcs, At, FrameOK
<1>2. UNCHANGED <<sessions, conns, told>>
  BY DEF LeaveConn
<1>3. AsSeen' /\ Live(k)'
  BY <1>1, <1>2, AsSeenKept, SameSessions, SameConns DEF Live
<1>4. CASE conns[u].session = None
  <2>1. Enter(k, task[k].ret, task[k].arg)
    BY <1>4 DEF LeaveConn
  <2>2. task'[k].pc = task[k].ret /\ task'[k].arg = task[k].arg
    BY <1>1, <2>1, EnterFrame
  <2>3. task'[k].pc \in {"create_insert", "join_lookup"}
    BY <1>1, <2>2 DEF Busy, Running
  <2>4. HostsLeft(u) = seen.host /\ RoomsLeft(u) = seen.room
    BY <1>1, <1>4, LeftNothing DEF AsSeen, Looks
  <2>5. HostsLeft(u)' = seen.host /\ RoomsLeft(u)' = seen.room
    BY <1>1, <2>4, SeenStands
  <2>6. OnFree(k)'
    BY <1>3, <2>5 DEF OnFree, AsSeen, Looks
  <2>. QED  BY <1>1, <1>3, <2>2, <2>3, <2>6
            DEF Stage, Aim, At, CalmPcs, LeavePcs, CreatePcs, JoinPcs
<1>5. CASE conns[u].session # None
  <2>1. Carry(k, "leave_remove", conns[u], task[k].ret, {})
    BY <1>5 DEF LeaveConn
  <2>2. /\ task'[k].pc = "leave_remove" /\ task'[k].handle = conns[u]
        /\ task'[k].ret = task[k].ret /\ task'[k].arg = task[k].arg
    BY <1>1, <2>1, CarryFrame
  <2>3. Online(u) /\ u \in seen.online /\ conns[u].session = seen.room[u]
    BY <1>1, <1>5 DEF Online, NoHandle, AsSeen, Looks
  <2>4. OnLeave(k)'
    BY <1>1, <1>2, <2>2, <2>3 DEF OnLeave, Live
  <2>5. Placed(seen.room, u, seen.room[u]) = seen.room
    BY <1>1 DEF SeenOK, Placed
  <2>6. Own(k, seen.room)' = seen.room /\ Around(k)' = seen.online
    BY <1>1, <2>2, <2>3, <2>5 DEF Own, Around, Placed
  <2>7. OnRemove(k)'
    BY <1>3, <2>6 DEF OnRemove, AsSeen, Looks
  <2>8. Aim(k)'
    BY <1>1, <1>2, <2>2 DEF Aim
  <2>. QED  BY <1>3, <2>2, <2>4, <2>7, <2>8
            DEF Stage, At, CalmPcs, LeavePcs, CreatePcs, JoinPcs
<1>. QED  BY <1>4, <1>5

LEMMA StageLeaveRemove ==
    ASSUME OneIInv, NEW k \in Sockets, LeaveRemove(k), TypeOK', seen' = seen
    PROVE  Stage(k)'
<1> DEFINE u == UserOf[k]
           s == task[k].handle.session
<1>r. Run(k) /\ At(k, "leave_remove")
  BY DEF Run, LeaveRemove
<1>1. TypeOK /\ SeenOK /\ u \in Users /\ OnRemove(k)
  BY <1>r, AtWork DEF Stage
<1>2. /\ s = seen.room[u] /\ s \in SessionIds /\ MemberVia(s, u, task[k].handle.sender)
      /\ OnLeave(k) /\ Aim(k)
  BY <1>r, HandedOver, AtLeave DEF LeavePcs, At
<1>3. Goto(k, "leave_rest") /\ UNCHANGED <<conns, told>>
  BY <1>2 DEF LeaveRemove
<1>4. task'[k].pc = "leave_rest" /\ LocalsKept(k)
  BY <1>1, <1>3, GotoFrame DEF LocalsKept
<1>5. OnLeave(k)' /\ Aim(k)'
  BY <1>2, <1>3, <1>4, LeaveKept DEF Aim
<1>6. \A t \in SessionIds : sessions'[t].host = seen.host[t]
  BY <1>1, <1>2, RemoveSessions DEF OnRemove, Looks
<1>7. \A t \in SessionIds : Members(t)' = {v \in Users : Out(k)[v] = t}
  <2>1. \A t \in SessionIds : Members(t)' =
            IF t = s THEN {v \in Users : seen.room[v] = t} \ {u}
                     ELSE {v \in Users : seen.room[v] = t}
    BY <1>1, <1>2, RemoveSessions DEF OnRemove, Looks
  <2>. QED  BY <1>1, <1>2, <2>1, NoneAssumption DEF SeenOK, Out, Placed
<1>8. /\ \A v \in Users : conns'[v].session = Own(k, seen.room)[v]
      /\ \A v \in Users : Online(v)' <=> v \in Around(k)
  BY <1>1, <1>3 DEF OnRemove, Looks, Online
<1>9. OnOut(k)'
  BY <1>4, <1>6, <1>7, <1>8 DEF OnOut, Looks, LocalsKept, Own, Around, Out
<1>. QED  BY <1>4, <1>5, <1>9 DEF Stage, At, CalmPcs, LeavePcs, CreatePcs, JoinPcs

\* Nothing in the maps changes while the departure looks about.
LEMMA OutKept ==
    ASSUME NEW k \in Sockets, OnOut(k), LocalsKept(k), seen' = seen,
           UNCHANGED <<sessions, conns>>
    PROVE  OnOut(k)'
BY DEF OnOut, Looks, LocalsKept, Own, Around, Out, Members, Online

LEMMA StageLeaveRest ==
    ASSUME OneIInv, NEW k \in Sockets, LeaveRest(k), TypeOK', seen' = seen
    PROVE  Stage(k)'
<1> DEFINE s == task[k].handle.session
<1>r. Run(k) /\ At(k, "leave_rest")
  BY DEF Run, LeaveRest
<1>1. TypeOK /\ OnOut(k)
  BY <1>r, AtWork DEF Stage, At
<1>2. OnLeave(k) /\ Aim(k) /\ s \in SessionIds
  BY <1>r, AtLeave DEF LeavePcs, At
<1>3. UNCHANGED <<sessions, conns, told>>
  BY DEF LeaveRest
<1>4. /\ task'[k].pc = "leave_empty" /\ LocalsKept(k)
      /\ task'[k].rest = IF WasHost(k) THEN Members(s) ELSE {}
  BY <1>1, CarryFrame DEF LeaveRest, LocalsKept
<1>5. OnLeave(k)' /\ Aim(k)' /\ OnOut(k)'
  BY <1>1, <1>2, <1>3, <1>4, LeaveKept, OutKept DEF Aim
<1>6. WasHost(k) <=> Hosting(k)
  BY <1>1, <1>2 DEF WasHost, Hosting, OnOut, Looks
<1>7. OnEmpty(k)'
  BY <1>3, <1>4, <1>6 DEF OnEmpty, Hosting, LocalsKept, Members
<1>. QED  BY <1>4, <1>5, <1>7 DEF Stage, At, CalmPcs, LeavePcs, CreatePcs, JoinPcs

\* A departure that is over, but for the connection it came from.
LEMMA StageReturn ==
    ASSUME OneIInv, NEW k \in Sockets, Run(k), task[k].pc \in LeavePcs,
           LeaveReturn(k), Busy(k)', TypeOK', seen' = seen, UNCHANGED <<conns, told>>,
           LooksNext(HostsLeft(UserOf[k]), RoomsLeft(UserOf[k]),
                     Own(k, RoomsLeft(UserOf[k])), Around(k))
    PROVE  Stage(k)'
<1> DEFINE u == UserOf[k]
<1>1. TypeOK /\ u \in Users /\ OnLeave(k) /\ Aim(k)
  BY AtWork, AtLeave
<1>2. task[k].ret # "closed" /\ Goto(k, "leave_done")
  BY <1>1, EnterFrame DEF LeaveReturn, Busy, Running
<1>3. task'[k].pc = "leave_done" /\ LocalsKept(k)
  BY <1>1, <1>2, GotoFrame DEF LocalsKept
<1>4. OnLeave(k)' /\ Aim(k)'
  BY <1>1, <1>3, LeaveKept DEF Aim
<1>5. HostsLeft(u)' = HostsLeft(u) /\ RoomsLeft(u)' = RoomsLeft(u)
  BY <1>1, SeenStands
<1>6. Own(k, RoomsLeft(u))' = Own(k, RoomsLeft(u)) /\ Around(k) = seen.online
  BY <1>2, <1>3, <1>5 DEF Own, Around, LocalsKept
<1>7. OnDone(k)'
  BY <1>2, <1>3, <1>5, <1>6 DEF OnDone, Looks, LooksNext, LocalsKept
<1>. QED  BY <1>3, <1>4, <1>7 DEF Stage, At, CalmPcs, LeavePcs, CreatePcs, JoinPcs

\* A guest's departure has changed all there is to change.
LEMMA GuestOut ==
    ASSUME OneIInv, NEW k \in Sockets, Run(k), task[k].pc \in LeavePcs, OnOut(k),
           ~Hosting(k), UNCHANGED <<sessions, conns>>
    PROVE  LooksNext(HostsLeft(UserOf[k]), RoomsLeft(UserOf[k]),
                     Own(k, RoomsLeft(UserOf[k])), Around(k))
<1> DEFINE u == UserOf[k]
           s == task[k].handle.session
<1>1. SeenOK /\ u \in Users /\ seen.room[u] = s /\ s \in SessionIds
  BY AtWork, AtLeave
<1>2. HostsLeft(u) = seen.host /\ RoomsLeft(u) = Out(k)
  BY <1>1, GuestLeft, NoneAssumption DEF Hosting, Out
<1>3. Own(k, RoomsLeft(u)) = Own(k, seen.room)
  BY <1>1, <1>2 DEF Own, Out, Placed, SeenOK
<1>4. LooksNext(seen.host, Out(k), Own(k, seen.room), Around(k))
  BY LooksKept, SameSessions, SameConns DEF OnOut
<1>. QED  BY <1>2, <1>3, <1>4

\* A session that nobody is left in was hosted by who has just left it.
LEMMA EmptyHosted ==
    ASSUME OneIInv, NEW k \in Sockets, Run(k), task[k].pc \in LeavePcs, OnOut(k),
           Members(task[k].handle.session) = {}
    PROVE  /\ Hosting(k)
           /\ Own(k, seen.room) = Own(k, RoomsLeft(UserOf[k]))
<1> DEFINE u == UserOf[k]
           s == task[k].handle.session
<1>1. /\ SeenOK /\ u \in Users /\ seen.room[u] = s /\ s \in SessionIds
      /\ seen.host[s] \in Users /\ seen.room[seen.host[s]] = s
  BY AtWork, AtLeave
<1>2. \A v \in Users : v # u => seen.room[v] # s
  BY <1>1 DEF OnOut, Looks, Out, Placed, SeenOK
<1>3. Hosting(k)
  BY <1>1, <1>2 DEF Hosting
<1>4. RoomsLeft(u) = [v \in Users |-> IF seen.room[v] = s THEN None ELSE seen.room[v]]
  BY <1>1, <1>3, HostLeft, NoneAssumption DEF Hosting
<1>5. Own(k, seen.room) = Own(k, RoomsLeft(u))
  BY <1>1, <1>2, <1>4 DEF Own, Placed, SeenOK
<1>. QED  BY <1>3, <1>5

LEMMA StageLeaveEmpty ==
    ASSUME OneIInv, NEW k \in Sockets, LeaveEmpty(k), TypeOK', seen' = seen, Busy(k)'
    PROVE  Stage(k)'
<1> DEFINE u == UserOf[k]
           s == task[k].handle.session
<1>r. Run(k) /\ At(k, "leave_empty") /\ task[k].pc \in LeavePcs
  BY DEF Run, LeaveEmpty, At, LeavePcs
<1>1. TypeOK /\ OnOut(k) /\ OnEmpty(k) /\ u \in Users /\ SeenOK
  BY <1>r, AtWork DEF Stage, At
<1>2. OnLeave(k) /\ Aim(k) /\ s \in SessionIds
  BY <1>r, AtLeave
<1>3. UNCHANGED <<sessions, conns, told>>
  BY DEF LeaveEmpty
<1>4. WasHost(k) <=> Hosting(k)
  BY <1>1, <1>2 DEF WasHost, Hosting, OnOut, Looks
<1>5. CASE Members(s) = {} /\ Goto(k, "leave_drop")
  <2>1. task'[k].pc = "leave_drop" /\ LocalsKept(k)
    BY <1>1, <1>5, GotoFrame DEF LocalsKept
  <2>2. OnLeave(k)' /\ Aim(k)' /\ OnOut(k)'
    BY <1>1, <1>2, <1>3, <2>1, LeaveKept, OutKept DEF Aim
  <2>3. Hosting(k) /\ Own(k, seen.room) = Own(k, RoomsLeft(u))
    BY <1>r, <1>1, <1>5, EmptyHosted
  <2>4. Own(k, seen.room)' = Own(k, RoomsLeft(u))'
    <3>1. RoomsLeft(u)' = RoomsLeft(u)
      BY <1>1, SeenStands
    <3>. QED  BY <2>1, <2>3, <3>1 DEF Own, LocalsKept
  <2>5. OnDrop(k)'
    BY <2>1, <2>2, <2>3, <2>4 DEF OnDrop, OnOut, Hosting, LocalsKept
  <2>. QED  BY <2>1, <2>2, <2>5 DEF Stage, At, CalmPcs, LeavePcs, CreatePcs, JoinPcs
<1>6. CASE Members(s) # {} /\ WasHost(k) /\ Goto(k, "leave_tell")
  <2>1. task'[k].pc = "leave_tell" /\ LocalsKept(k) /\ task'[k].rest = task[k].rest
    BY <1>1, <1>6, GotoFrame DEF LocalsKept
  <2>2. OnLeave(k)' /\ Aim(k)' /\ OnOut(k)'
    BY <1>1, <1>2, <1>3, <2>1, LeaveKept, OutKept DEF Aim
  <2>3. OnTell(k)'
    BY <1>1, <1>3, <1>4, <1>6, <2>1 DEF OnTell, OnEmpty, Hosting, LocalsKept, Members
  <2>. QED  BY <2>1, <2>2, <2>3 DEF Stage, At, CalmPcs, LeavePcs, CreatePcs, JoinPcs
<1>7. CASE ~WasHost(k) /\ LeaveReturn(k)
  BY <1>r, <1>1, <1>3, <1>4, <1>7, GuestOut, StageReturn
<1>. QED  BY <1>5, <1>6, <1>7 DEF LeaveEmpty

\* The others are told, through the channels they are connected by.
LEMMA StageLeaveTell ==
    ASSUME OneIInv, NEW k \in Sockets, LeaveTell(k), TypeOK', seen' = seen
    PROVE  Stage(k)'
<1> DEFINE u == UserOf[k]
           s == task[k].handle.session
<1>r. Run(k) /\ At(k, "leave_tell") /\ task[k].pc \in LeavePcs /\ Busy(k)
  BY RunBusy DEF Run, LeaveTell, At, LeavePcs
<1>1. TypeOK /\ OnOut(k) /\ OnTell(k) /\ u \in Users /\ SeenOK
  BY <1>r, AtWork DEF Stage, At
<1>2. OnLeave(k) /\ Aim(k) /\ s \in SessionIds /\ seen.room[u] = s
  BY <1>r, AtLeave
<1>3. /\ UNCHANGED <<sessions, conns>>
      /\ told' = [c \in Sockets |->
            IF \E v \in Members(s) : MemberVia(s, v, c) THEN None ELSE told[c]]
      /\ Goto(k, "leave_clear")
  BY <1>1 DEF LeaveTell, OnTell
<1>4. task'[k].pc = "leave_clear" /\ LocalsKept(k) /\ task'[k].rest = task[k].rest
  BY <1>1, <1>3, GotoFrame DEF LocalsKept
<1>5. OnLeave(k)' /\ Aim(k)'
  <2>1. task[k].ret = "idle" => told'[k] = None
    BY <1>2, <1>3 DEF Aim
  <2>. QED  BY <1>2, <1>3, <1>4, <2>1, LeaveKept
<1>6. Own(k, Cleared(k)) = Own(k, seen.room)
  <2>1. task[k].rest = {v \in Users : Out(k)[v] = s}
    BY <1>1, <1>2 DEF OnTell, OnOut, Looks
  <2>2. \A v \in Users : v # u => Cleared(k)[v] = seen.room[v]
    BY <1>1, <2>1 DEF Cleared, Out, Placed, SeenOK
  <2>. QED  BY <1>1, <2>2 DEF Own, Placed, SeenOK, Cleared
<1>7. ASSUME NEW j \in Sockets, Live(j), UserOf[j] \in task[k].rest
      PROVE  told'[j] = None
  <2>1. UserOf[j] \in Members(s)
    BY <1>1, <1>7 DEF OnTell
  <2>2. sessions[s].participants[UserOf[j]].sender = j
    BY <1>r, <1>2, <1>7, <2>1, SenderOf DEF Live, At
  <2>3. MemberVia(s, UserOf[j], j)
    BY <2>1, <2>2 DEF MemberVia
  <2>. QED  BY <1>3, <2>1, <2>3
<1>8. Looks(seen.host, Out(k), Own(k, Cleared(k)), Around(k))'
  <2>1. Own(k, Cleared(k))' = Own(k, Cleared(k))
    BY <1>4 DEF Own, Cleared, LocalsKept
  <2>2. LooksNext(seen.host, Out(k), Own(k, Cleared(k)), Around(k))
    BY <1>1, <1>3, <1>6, LooksKept, SameSessions, SameConns DEF OnOut
  <2>. QED  BY <1>4, <2>1, <2>2 DEF Looks, LooksNext, Out, Around, LocalsKept
<1>9. OnClear(k)'
  BY <1>1, <1>3, <1>4, <1>7, <1>8 DEF OnClear, OnTell, Hosting, LocalsKept, Members, Live
<1>. QED  BY <1>4, <1>5, <1>9 DEF Stage, At, CalmPcs, LeavePcs, CreatePcs, JoinPcs

\* One of the others is sent away, and after the last the session can go.
LEMMA StageLeaveClear ==
    ASSUME OneIInv, NEW k \in Sockets, LeaveClear(k), TypeOK', seen' = seen
    PROVE  Stage(k)'
<1> DEFINE u == UserOf[k]
           s == task[k].handle.session
<1>r. Run(k) /\ At(k, "leave_clear") /\ task[k].pc \in LeavePcs
  BY DEF Run, LeaveClear, At, LeavePcs
<1>1. TypeOK /\ OnClear(k) /\ u \in Users /\ SeenOK
  BY <1>r, AtWork DEF Stage
<1>2. OnLeave(k) /\ Aim(k) /\ s \in SessionIds /\ seen.room[u] = s
  BY <1>r, AtLeave
<1>3. PICK v \in task[k].rest :
        /\ conns' = IF conns[v].session = s THEN SetSession(v, None) ELSE conns
        /\ Carry(k, IF task[k].rest = {v} THEN "leave_drop" ELSE "leave_clear",
                 task[k].handle, task[k].ret, task[k].rest \ {v})
  BY DEF LeaveClear
<1>4. /\ task'[k].pc = IF task[k].rest = {v} THEN "leave_drop" ELSE "leave_clear"
      /\ LocalsKept(k) /\ task'[k].rest = task[k].rest \ {v}
  BY <1>1, <1>3, CarryFrame DEF LocalsKept
<1>5. UNCHANGED <<sessions, told>>
  BY DEF LeaveClear
<1>6. v \in Users /\ v # u /\ seen.room[v] = s
  BY <1>1, <1>2, NoneAssumption DEF OnClear, Looks, Out, Placed, SeenOK
<1>7. conns[v].session = s /\ Online(v)
  <2>1. conns[v].session = s
    BY <1>1, <1>6 DEF OnClear, Looks, Own, Placed, Cleared
  <2>. QED  BY <1>2, <2>1, NoneAssumption DEF Online, NoHandle
<1>8. conns' = SetSession(v, None)
  BY <1>3, <1>7
<1>9. /\ \A w \in Users : conns'[w].sender = conns[w].sender
      /\ LooksNext(seen.host, Out(k), [Own(k, Cleared(k)) EXCEPT ![v] = None], Around(k))
  <2>1. DOMAIN Own(k, Cleared(k)) = Users
    BY DEF Own, Placed, Cleared
  <2>2. SessionsKept
    BY <1>5, SameSessions
  <2>. QED  BY <1>1, <1>6, <1>7, <1>8, <2>1, <2>2, Moved, LooksMoved DEF OnClear
<1>10. OnLeave(k)' /\ Aim(k)'
  BY <1>1, <1>2, <1>4, <1>5, <1>9, LeaveKept DEF Aim
<1>11. Own(k, Cleared(k))' = [Own(k, Cleared(k)) EXCEPT ![v] = None]
  BY <1>1, <1>4, <1>6 DEF Own, Cleared, Placed, LocalsKept
<1>12. Looks(seen.host, Out(k), Own(k, Cleared(k)), Around(k))'
  <2>1. LooksNext(seen.host, Out(k), Own(k, Cleared(k))', Around(k))
    BY <1>9, <1>11
  <2>. QED  BY <1>4, <2>1 DEF Looks, LooksNext, Out, Around, LocalsKept
<1>13. CASE task[k].rest = {v}
  <2>1. Own(k, Cleared(k))' = Own(k, RoomsLeft(u))'
    <3>1. RoomsLeft(u)' = [w \in Users |-> IF seen.room[w] = s THEN None
                                           ELSE seen.room[w]]
      BY <1>1, <1>2, HostLeft, SeenStands, NoneAssumption DEF OnClear, Hosting
    <3>2. Cleared(k)' = [w \in Users |-> IF seen.room[w] = s THEN None
                                         ELSE seen.room[w]]
      BY <1>4, <1>13 DEF Cleared, LocalsKept
    <3>. QED  BY <3>1, <3>2 DEF Own
  <2>2. OnDrop(k)'
    <3>1. Hosting(k)'
      BY <1>1, <1>4 DEF OnClear, Hosting, LocalsKept
    <3>. QED  BY <1>12, <2>1, <3>1 DEF OnDrop
  <2>. QED  BY <1>4, <1>10, <1>13, <2>2
            DEF Stage, At, CalmPcs, LeavePcs, CreatePcs, JoinPcs
<1>14. CASE task[k].rest # {v}
  <2>1. Hosting(k)' /\ task'[k].rest # {} /\ task'[k].rest \subseteq task[k].rest
    BY <1>1, <1>3, <1>4, <1>14 DEF OnClear, Hosting, LocalsKept
  <2>2. task'[k].rest \subseteq Members(task[k].handle.session)'
    BY <1>1, <1>4, <1>5, <2>1 DEF OnClear, Members, LocalsKept
  <2>3. ASSUME NEW j \in Sockets, Live(j)', UserOf[j] \in task'[k].rest
        PROVE  told'[j] = None
    BY <1>1, <1>5, <1>9, <2>1, <2>3, UserOfAssumption DEF OnClear, Live
  <2>4. OnClear(k)'
    BY <1>4, <1>12, <2>1, <2>2, <2>3 DEF OnClear, LocalsKept
  <2>. QED  BY <1>4, <1>10, <1>14, <2>4
            DEF Stage, At, CalmPcs, LeavePcs, CreatePcs, JoinPcs
<1>. QED  BY <1>13, <1>14

\* The session goes with its host, and the departure is over.
LEMMA DropOut ==
    ASSUME OneIInv, NEW k \in Sockets, LeaveDrop(k)
    PROVE  /\ Run(k) /\ task[k].pc \in LeavePcs /\ LeaveReturn(k)
           /\ UNCHANGED <<conns, told>>
           /\ LooksNext(HostsLeft(UserOf[k]), RoomsLeft(UserOf[k]),
                        Own(k, RoomsLeft(UserOf[k])), Around(k))
<1> DEFINE u == UserOf[k]
           s == task[k].handle.session
<1>r. Run(k) /\ At(k, "leave_drop") /\ task[k].pc \in LeavePcs
  BY DEF Run, LeaveDrop, At, LeavePcs
<1>1. TypeOK /\ OnDrop(k) /\ u \in Users /\ SeenOK
  BY <1>r, AtWork DEF Stage
<1>2. s \in SessionIds /\ seen.room[u] = s
  BY <1>r, AtLeave
<1>3. /\ HostsLeft(u) = Placed(seen.host, s, None)
      /\ RoomsLeft(u) = [v \in Users |-> IF seen.room[v] = s THEN None ELSE seen.room[v]]
  BY <1>1, <1>2, HostLeft, NoneAssumption DEF OnDrop, Hosting
<1>4. \A t \in SessionIds : sessions'[t].host = HostsLeft(u)[t]
  BY <1>1, <1>2, <1>3, DropSessions DEF OnDrop, Looks, Placed, SeenOK
<1>5. \A t \in SessionIds : Members(t)' = {v \in Users : RoomsLeft(u)[v] = t}
  <2>1. \A t \in SessionIds : Members(t)' =
            IF t = s THEN {} ELSE {v \in Users : Out(k)[v] = t}
    BY <1>1, <1>2, DropSessions DEF OnDrop, Looks
  <2>2. \A t \in SessionIds : t # None
    BY NoneAssumption
  <2>. QED  BY <1>1, <1>2, <1>3, <2>1, <2>2 DEF Out, Placed, SeenOK
<1>6. /\ \A v \in Users : conns'[v].session = Own(k, RoomsLeft(u))[v]
      /\ \A v \in Users : Online(v)' <=> v \in Around(k)
  BY <1>1 DEF OnDrop, Looks, LeaveDrop, Online
<1>7. LooksNext(HostsLeft(u), RoomsLeft(u), Own(k, RoomsLeft(u)), Around(k))
  BY <1>4, <1>5, <1>6 DEF LooksNext
<1>. QED  BY <1>r, <1>7 DEF LeaveDrop

\* The connection forgets the session: the departure has been made whole.
LEMMA DoneOut ==
    ASSUME OneIInv, NEW k \in Sockets, LeaveDone(k), TypeOK'
    PROVE  /\ Run(k) /\ task[k].pc \in LeavePcs
           /\ task[k].ret \in {"create_insert", "join_lookup", "idle"}
           /\ task'[k].pc = task[k].ret /\ task'[k].arg = task[k].arg
           /\ LooksNext(HostsLeft(UserOf[k]), RoomsLeft(UserOf[k]),
                        RoomsLeft(UserOf[k]), seen.online)
           /\ \A v \in Users : conns'[v].sender = conns[v].sender
<1> DEFINE u == UserOf[k]
           s == task[k].handle.session
<1>r. Run(k) /\ At(k, "leave_done") /\ task[k].pc \in LeavePcs
  BY DEF Run, LeaveDone, At, LeavePcs
<1>1. TypeOK /\ OnDone(k) /\ u \in Users /\ SeenOK
  BY <1>r, AtWork DEF Stage
<1>2. OnLeave(k) /\ s \in SessionIds /\ Live(k)
  BY <1>r, <1>1, AtLeave DEF OnLeave, OnDone
<1>3. Online(u)
  BY <1>1, <1>2, ConnType, NoneAssumption DEF Live
<1>4. conns' = SetSession(u, None)
  BY <1>2 DEF LeaveDone, OnLeave, Live
<1>5. DOMAIN Own(k, RoomsLeft(u)) = Users
  BY <1>1, LeftTypes DEF Own, Placed
<1>6. /\ LooksNext(HostsLeft(u), RoomsLeft(u),
                   [Own(k, RoomsLeft(u)) EXCEPT ![u] = None], seen.online)
      /\ \A v \in Users : conns'[v].sender = conns[v].sender
  <2>1. SessionsKept
    BY SameSessions DEF LeaveDone
  <2>. QED  BY <1>1, <1>3, <1>4, <1>5, <2>1, Moved, LooksMoved DEF OnDone
<1>7. [Own(k, RoomsLeft(u)) EXCEPT ![u] = None] = RoomsLeft(u)
  BY <1>1, LeftTypes DEF Own, Placed
<1>8. task'[k].pc = task[k].ret /\ task'[k].arg = task[k].arg
  BY <1>1, EnterFrame DEF LeaveDone
<1>9. task[k].ret \in {"create_insert", "join_lookup", "idle"}
  BY <1>r, <1>1, AtWork DEF OnDone
<1>10. LooksNext(HostsLeft(u), RoomsLeft(u), RoomsLeft(u), seen.online)
  BY <1>6, <1>7
<1>. QED  BY <1>r, <1>6, <1>8, <1>9, <1>10

LEMMA StageLeaveDone ==
    ASSUME OneIInv, NEW k \in Sockets, LeaveDone(k), TypeOK', seen' = seen, Busy(k)'
    PROVE  Stage(k)'
<1> DEFINE u == UserOf[k]
<1>1. /\ Run(k) /\ task[k].pc \in LeavePcs
      /\ task'[k].pc = task[k].ret /\ task'[k].arg = task[k].arg
      /\ task[k].ret \in {"create_insert", "join_lookup", "idle"}
      /\ LooksNext(HostsLeft(u), RoomsLeft(u), RoomsLeft(u), seen.online)
      /\ \A v \in Users : conns'[v].sender = conns[v].sender
  BY DoneOut
<1>2. OnLeave(k) /\ Aim(k) /\ u \in Users
  BY <1>1, AtLeave, AtWork
<1>3. task'[k].pc \in {"create_insert", "join_lookup"}
  BY <1>1 DEF Busy, Running
<1>4. Live(k)'
  BY <1>1, <1>2, <1>3 DEF OnLeave, Live
<1>5. HostsLeft(u)' = HostsLeft(u) /\ RoomsLeft(u)' = RoomsLeft(u)
  BY <1>2, SeenStands
<1>6. OnFree(k)'
  BY <1>1, <1>5 DEF OnFree, Looks, LooksNext
<1>. QED  BY <1>1, <1>2, <1>3, <1>4, <1>6
          DEF Stage, Aim, At, CalmPcs, LeavePcs, CreatePcs, JoinPcs

-----------------------------------------------------------------------------
(* A user who is free of its old session enters a new one. *)

\* What a handler that creates or joins knows.
LEMMA AtEntering ==
    ASSUME OneIInv, NEW k \in Sockets, Run(k), task[k].pc \in CreatePcs \cup JoinPcs
    PROVE  /\ task[k].arg \in SessionIds
           /\ Live(k) /\ Online(UserOf[k])
           /\ task[k].pc \in CreatePcs => seen.host[task[k].arg] = None
           /\ task[k].pc \in JoinPcs => /\ seen.host[task[k].arg] # None
                                        /\ seen.room[UserOf[k]] # task[k].arg
<1>1. TypeOK /\ FrameOK(k) /\ UserOf[k] \in Users /\ Stage(k)
  BY AtWork
<1>2. Live(k)
  BY <1>1 DEF Stage
<1>3. Online(UserOf[k])
  BY <1>1, <1>2, ConnType, NoneAssumption DEF Live
<1>. QED  BY <1>1, <1>2, <1>3 DEF Stage, FrameOK, CreatePcs, JoinPcs

\* The map's session and members of the two ways in, in terms of Looks.
LEMMA StageCreateInsert ==
    ASSUME OneIInv, NEW k \in Sockets, CreateInsert(k), TypeOK', seen' = seen
    PROVE  Stage(k)'
<1> DEFINE u == UserOf[k]
           g == task[k].arg
<1>r. Run(k) /\ At(k, "create_insert") /\ task[k].pc \in CreatePcs
  BY DEF Run, CreateInsert, At, CreatePcs
<1>1. TypeOK /\ OnFree(k) /\ u \in Users /\ SeenOK
  BY <1>r, AtWork DEF Stage, At
<1>2. g \in SessionIds /\ Live(k) /\ seen.host[g] = None
  BY <1>r, AtEntering
<1>3. \A t \in SessionIds : sessions'[t].host = HostsMade(k)[t]
  BY <1>1, <1>2, InsertSessions, LeftTypes DEF OnFree, Looks, HostsMade, Placed
<1>4. \A t \in SessionIds : Members(t)' = {v \in Users : RoomsMade(k)[v] = t}
  <2>1. \A v \in Users : RoomsLeft(u)[v] # g
    BY <1>1, <1>2, LeftTypes, NoneAssumption DEF SeenOK, Promise!Membership
  <2>2. \A t \in SessionIds : Members(t)' =
            IF t = g THEN {u} ELSE {v \in Users : RoomsLeft(u)[v] = t}
    BY <1>1, <1>2, InsertSessions DEF OnFree, Looks
  <2>3. RoomsLeft(u) \in [Users -> SessionIds \cup {None}] /\ RoomsLeft(u)[u] = None
    BY <1>1, LeftTypes
  <2>. QED  BY <1>1, <1>2, <2>1, <2>2, <2>3, NoneAssumption DEF RoomsMade, Placed
<1>5. UNCHANGED <<conns, told>> /\ Goto(k, "create_conn")
  BY DEF CreateInsert
<1>6. task'[k].pc = "create_conn" /\ task'[k].arg = g
  BY <1>1, <1>5, GotoFrame
<1>7. HostsLeft(u)' = HostsLeft(u) /\ RoomsLeft(u)' = RoomsLeft(u)
  BY <1>1, SeenStands
<1>8. Looks(HostsMade(k), RoomsMade(k), RoomsLeft(u), seen.online)'
  BY <1>1, <1>3, <1>4, <1>5, <1>6, <1>7
     DEF OnFree, Looks, HostsMade, RoomsMade, Online
<1>. QED  BY <1>2, <1>5, <1>6, <1>8
          DEF Stage, At, CalmPcs, LeavePcs, CreatePcs, JoinPcs, Live

LEMMA StageJoinInsert ==
    ASSUME OneIInv, NEW k \in Sockets, JoinInsert(k), TypeOK', seen' = seen
    PROVE  Stage(k)'
<1> DEFINE u == UserOf[k]
           g == task[k].arg
<1>r. Run(k) /\ At(k, "join_insert") /\ task[k].pc \in JoinPcs
  BY DEF Run, JoinInsert, At, JoinPcs
<1>1. TypeOK /\ GuardedExists /\ OnFree(k) /\ u \in Users /\ SeenOK
  BY <1>r, AtWork DEF Stage, At
<1>2. /\ g \in SessionIds /\ Live(k)
      /\ seen.host[g] # None /\ seen.room[u] # g
  BY <1>r, AtEntering
<1>3. \A t \in SessionIds : sessions'[t].host = HostsLeft(u)[t]
  BY <1>1, <1>2, JoinSessions DEF OnFree, Looks
<1>4. \A t \in SessionIds : Members(t)' = {v \in Users : RoomsMade(k)[v] = t}
  <2>1. \A t \in SessionIds : Members(t)' =
            IF t = g THEN {v \in Users : RoomsLeft(u)[v] = t} \cup {u}
                     ELSE {v \in Users : RoomsLeft(u)[v] = t}
    BY <1>1, <1>2, JoinSessions DEF OnFree, Looks
  <2>2. RoomsLeft(u) \in [Users -> SessionIds \cup {None}] /\ RoomsLeft(u)[u] = None
    BY <1>1, LeftTypes
  <2>. QED  BY <1>1, <1>2, <2>1, <2>2, NoneAssumption DEF RoomsMade, Placed
<1>5. UNCHANGED <<conns, told>> /\ Goto(k, "join_conn")
  BY DEF JoinInsert
<1>6. task'[k].pc = "join_conn" /\ task'[k].arg = g
  BY <1>1, <1>5, GotoFrame
<1>7. HostsLeft(u)' = HostsLeft(u) /\ RoomsLeft(u)' = RoomsLeft(u)
  BY <1>1, SeenStands
<1>8. Looks(HostsLeft(u), RoomsMade(k), RoomsLeft(u), seen.online)'
  BY <1>1, <1>3, <1>4, <1>5, <1>6, <1>7 DEF OnFree, Looks, RoomsMade, Online
<1>. QED  BY <1>2, <1>5, <1>6, <1>8
          DEF Stage, At, CalmPcs, LeavePcs, CreatePcs, JoinPcs, Live

\* The connection is told: its session is the new one.
LEMMA StageConn ==
    ASSUME OneIInv, NEW k \in Sockets, CreateConn(k) \/ JoinConn(k), TypeOK',
           seen' = seen
    PROVE  Stage(k)'
<1> DEFINE u == UserOf[k]
           g == task[k].arg
           H == IF At(k, "create_conn") THEN HostsMade(k) ELSE HostsLeft(u)
<1>r. Run(k) /\ task[k].pc \in {"create_conn", "join_conn"}
      /\ task[k].pc \in CreatePcs \cup JoinPcs
  BY DEF Run, CreateConn, JoinConn, At, CreatePcs, JoinPcs
<1>1. /\ TypeOK /\ u \in Users /\ SeenOK
      /\ Looks(H, RoomsMade(k), RoomsLeft(u), seen.online)
  BY <1>r, AtWork DEF Stage, At
<1>2. g \in SessionIds /\ Live(k) /\ Online(u)
  BY <1>r, AtEntering
<1>3. conns' = SetSession(u, g) /\ UNCHANGED <<sessions, told>>
  BY DEF CreateConn, JoinConn
<1>4. DOMAIN RoomsLeft(u) = Users
  BY <1>1, LeftTypes
<1>5. /\ LooksNext(H, RoomsMade(k), [RoomsLeft(u) EXCEPT ![u] = g], seen.online)
      /\ \A v \in Users : conns'[v].sender = conns[v].sender
  BY <1>1, <1>2, <1>3, <1>4, SameSessions, Moved, LooksMoved
<1>6. LooksNext(H, RoomsMade(k), RoomsMade(k), seen.online)
  BY <1>5 DEF RoomsMade, Placed
<1>7. /\ task'[k].pc = IF At(k, "create_conn") THEN "create_reply" ELSE "join_reply"
      /\ task'[k].arg = g
  BY <1>1, GotoFrame DEF CreateConn, JoinConn, At
<1>8. /\ HostsMade(k)' = HostsMade(k) /\ HostsLeft(u)' = HostsLeft(u)
      /\ RoomsMade(k)' = RoomsMade(k)
  BY <1>1, <1>7, SeenStands DEF HostsMade, RoomsMade
<1>9. Live(k)'
  BY <1>1, <1>2, <1>5 DEF Live
<1>10. /\ g \in SessionIds
       /\ task[k].pc = "create_conn" => seen.host[g] = None
       /\ task[k].pc = "join_conn" => seen.host[g] # None /\ seen.room[u] # g
  BY <1>r, AtEntering DEF CreatePcs, JoinPcs
<1>11. CASE At(k, "create_conn")
  <2>1. Looks(HostsMade(k), RoomsMade(k), RoomsMade(k), seen.online)'
    BY <1>6, <1>8, <1>11 DEF Looks, LooksNext
  <2>. QED  BY <1>7, <1>9, <1>10, <1>11, <2>1
            DEF Stage, At, CalmPcs, LeavePcs, CreatePcs, JoinPcs
<1>12. CASE At(k, "join_conn")
  <2>1. Looks(HostsLeft(u), RoomsMade(k), RoomsMade(k), seen.online)'
    BY <1>6, <1>8, <1>12 DEF Looks, LooksNext, At
  <2>. QED  BY <1>7, <1>9, <1>10, <1>12, <2>1
            DEF Stage, At, CalmPcs, LeavePcs, CreatePcs, JoinPcs
<1>. QED  BY <1>r, <1>11, <1>12 DEF At

\* The session to join is still there: the departure was from another.
LEMMA JoinFinds ==
    ASSUME OneIInv, NEW k \in Sockets, JoinLookup(k)
    PROVE  Goto(k, "join_insert")
<1> DEFINE u == UserOf[k]
           g == task[k].arg
<1>r. Run(k) /\ At(k, "join_lookup") /\ task[k].pc \in JoinPcs
  BY DEF Run, JoinLookup, At, JoinPcs
<1>1. TypeOK /\ OnFree(k) /\ u \in Users /\ SeenOK
  BY <1>r, AtWork DEF Stage, At
<1>2. g \in SessionIds /\ seen.host[g] # None /\ seen.room[u] # g
  BY <1>r, AtEntering
<1>3. sessions[g].host \in Users
  BY <1>1, <1>2, LeftTypes DEF OnFree, Looks, SeenOK
<1>. QED  BY <1>1, <1>2, <1>3, ExistsSession DEF JoinLookup

LEMMA StageJoinLookup ==
    ASSUME OneIInv, NEW k \in Sockets, JoinLookup(k), TypeOK', seen' = seen
    PROVE  Stage(k)'
<1> DEFINE u == UserOf[k]
           g == task[k].arg
<1>r. Run(k) /\ At(k, "join_lookup") /\ task[k].pc \in JoinPcs
  BY DEF Run, JoinLookup, At, JoinPcs
<1>1. TypeOK /\ OnFree(k) /\ u \in Users
  BY <1>r, AtWork DEF Stage, At
<1>2. Live(k) /\ seen.host[g] # None /\ seen.room[u] # g
  BY <1>r, AtEntering
<1>3. Goto(k, "join_insert") /\ UNCHANGED <<sessions, conns, told>>
  BY JoinFinds DEF JoinLookup
<1>4. task'[k].pc = "join_insert" /\ task'[k].arg = g
  BY <1>1, <1>3, GotoFrame
<1>5. HostsLeft(u)' = HostsLeft(u) /\ RoomsLeft(u)' = RoomsLeft(u)
  BY <1>1, SeenStands
<1>6. OnFree(k)'
  BY <1>1, <1>3, <1>5 DEF OnFree, Looks, Members, Online
<1>. QED  BY <1>2, <1>3, <1>4, <1>6
          DEF Stage, At, CalmPcs, LeavePcs, CreatePcs, JoinPcs, Live

-----------------------------------------------------------------------------
(* A handler ends: what has become of the maps is one abstract operation.   *)

\* What is seen at rest is what the maps look like.
LEMMA SeenMoves ==
    ASSUME seen' = Membership', NEW h, NEW r, NEW o, LooksNext(h, r, r, o),
           DOMAIN h = SessionIds, h = [s \in SessionIds |-> h[s]],
           DOMAIN r = Users, r = [v \in Users |-> r[v]], o \subseteq Users
    PROVE  /\ seen'.host = h /\ seen'.room = r /\ seen'.online = o
           /\ AsSeen'
<1>1. seen' = [host   |-> [s \in SessionIds |-> sessions'[s].host],
               room   |-> [u \in Users |-> conns'[u].session],
               online |-> {u \in Users : Online(u)'}]
  BY DEF Membership
<1>2. seen'.host = [s \in SessionIds |-> sessions'[s].host] /\ seen'.host = h
  BY <1>1 DEF LooksNext
<1>3. seen'.room = [u \in Users |-> conns'[u].session] /\ seen'.room = r
  BY <1>1 DEF LooksNext
<1>4. seen'.online = {u \in Users : Online(u)'} /\ seen'.online = o
  BY <1>1 DEF LooksNext
<1>5. AsSeen'
  BY <1>2, <1>3, <1>4 DEF AsSeen, Looks, LooksNext
<1>. QED  BY <1>2, <1>3, <1>4, <1>5

\* One operation of the abstract specification, or nothing.
OneOperation == Promise!Next \/ seen' = seen

LEMMA EndNothing ==
    ASSUME SeenOK, AsSeen, SessionsKept, ConnsKept, seen' = Membership', TypeOK'
    PROVE  seen' = seen /\ AsSeen'
<1>1. LooksNext(seen.host, seen.room, seen.room, seen.online)
  BY LooksKept DEF AsSeen
<1>2. /\ seen'.host = seen.host /\ seen'.room = seen.room
      /\ seen'.online = seen.online /\ AsSeen'
  BY <1>1, SeenMoves DEF SeenOK
<1>3. seen' = [host |-> seen'.host, room |-> seen'.room, online |-> seen'.online]
  BY DEF Membership
<1>. QED  BY <1>2, <1>3 DEF SeenOK

\* Greet: a user has connected.
LEMMA EndGreet ==
    ASSUME OneIInv, NEW k \in Sockets, Greet(k), seen' = Membership', TypeOK'
    PROVE  OneOperation /\ AsSeen'
<1> DEFINE u == UserOf[k]
<1>r. Run(k) /\ At(k, "greet")
  BY DEF Run, Greet
<1>1. TypeOK /\ OnGreet(k) /\ u \in Users /\ SeenOK
  BY <1>r, AtWork DEF Stage
<1>2. LooksNext(seen.host, seen.room, seen.room, seen.online \cup {u})
  BY <1>1, LooksKept, SameSessions, SameConns DEF OnGreet, Greet
<1>3. /\ seen'.host = seen.host /\ seen'.room = seen.room
      /\ seen'.online = seen.online \cup {u} /\ AsSeen'
  BY <1>1, <1>2, SeenMoves DEF SeenOK
<1>4. Promise!Connect(u)
  BY <1>3 DEF Promise!Connect
<1>. QED  BY <1>1, <1>3, <1>4 DEF OneOperation, Promise!Next

\* Cleanup of a socket that had been replaced, or had no session.
LEMMA EndCleanup ==
    ASSUME OneIInv, NEW k \in Sockets, Cleanup(k), seen' = Membership', TypeOK',
           ~(Live(k) /\ conns[UserOf[k]].session # None)
    PROVE  OneOperation /\ AsSeen'
<1> DEFINE u == UserOf[k]
<1>r. Run(k) /\ At(k, "cleanup")
  BY DEF Run, Cleanup
<1>1. TypeOK /\ SeenOK /\ u \in Users /\ AsSeen
  BY <1>r, AtWork DEF Stage, OnCalm, CalmPcs, At
<1>2. SessionsKept
  BY SameSessions DEF Cleanup
<1>3. CASE ~Live(k)
  BY <1>1, <1>2, <1>3, EndNothing, SameConns DEF Cleanup, OneOperation
<1>4. CASE Live(k) /\ conns[u].session = None
  <2>1. conns' = [conns EXCEPT ![u] = NoHandle]
    BY <1>4 DEF Cleanup
  <2>2. /\ \A v \in Users : conns'[v].session = seen.room[v]
        /\ \A v \in Users : Online(v)' <=> v \in seen.online \ {u}
    BY <1>1, <1>4, <2>1 DEF TypeOK, AsSeen, Looks, Online, NoHandle
  <2>3. LooksNext(seen.host, seen.room, seen.room, seen.online \ {u})
    BY <1>1, <1>2, <2>2 DEF AsSeen, Looks, LooksNext, SessionsKept
  <2>4. /\ seen'.host = seen.host /\ seen'.room = seen.room
        /\ seen'.online = seen.online \ {u} /\ AsSeen'
    BY <1>1, <2>3, SeenMoves DEF SeenOK
  <2>5. HostsLeft(u) = seen.host /\ RoomsLeft(u) = seen.room
    BY <1>1, <1>4, LeftNothing DEF AsSeen, Looks
  <2>6. u \in seen.online
    BY <1>1, <1>4, ConnType, NoneAssumption DEF AsSeen, Looks, Live
  <2>7. Promise!Disconnect(u)
    BY <2>4, <2>5, <2>6 DEF Promise!Disconnect, HostsLeft, RoomsLeft
  <2>. QED  BY <1>1, <2>4, <2>7 DEF OneOperation, Promise!Next
<1>. QED  BY <1>3, <1>4

\* A request that is refused, and a change of media.
LEMMA EndCalm ==
    ASSUME OneIInv, NEW k \in Sockets, seen' = Membership', TypeOK', ~Busy(k)',
           \/ CreateCheck(k) \/ JoinCheck(k) \/ MediaConn(k) \/ MediaCheck(k)
           \/ MediaSet(k)
    PROVE  OneOperation /\ AsSeen'
<1>r. Run(k) /\ task[k].pc \in CalmPcs
  BY DEF Run, CreateCheck, JoinCheck, MediaConn, MediaCheck, MediaSet, At, CalmPcs
<1>1. TypeOK /\ SeenOK /\ AsSeen /\ FrameOK(k)
  BY <1>r, AtWork DEF Stage, OnCalm
<1>2. SessionsKept
  <2>1. CASE MediaSet(k)
    BY <1>1, <2>1, MediaSessions DEF MediaSet, At, FrameOK
  <2>2. CASE ~MediaSet(k)
    BY <2>2, SameSessions DEF CreateCheck, JoinCheck, MediaConn, MediaCheck
  <2>. QED  BY <2>1, <2>2
<1>3. ConnsKept
  BY SameConns DEF CreateCheck, JoinCheck, MediaConn, MediaCheck, MediaSet
<1>. QED  BY <1>1, <1>2, <1>3, EndNothing DEF OneOperation

\* A departure on request.
LEMMA EndLeave ==
    ASSUME SeenOK, NEW u \in Users, u \in seen.online, seen' = Membership',
           LooksNext(HostsLeft(u), RoomsLeft(u), RoomsLeft(u), seen.online)
    PROVE  OneOperation /\ AsSeen'
<1>1. /\ seen'.host = HostsLeft(u) /\ seen'.room = RoomsLeft(u)
      /\ seen'.online = seen.online /\ AsSeen'
  BY SeenMoves, LeftTypes DEF SeenOK
<1>2. Promise!Leave(u)
  BY <1>1 DEF Promise!Leave, HostsLeft, RoomsLeft
<1>. QED  BY <1>1, <1>2 DEF OneOperation, Promise!Next

\* The departure of a disconnected user.
LEMMA EndReturn ==
    ASSUME OneIInv, NEW k \in Sockets, Run(k), task[k].pc \in LeavePcs,
           LeaveReturn(k), ~Busy(k)', TypeOK', seen' = Membership',
           LooksNext(HostsLeft(UserOf[k]), RoomsLeft(UserOf[k]),
                     Own(k, RoomsLeft(UserOf[k])), Around(k))
    PROVE  OneOperation /\ AsSeen'
<1> DEFINE u == UserOf[k]
<1>1. TypeOK /\ SeenOK /\ u \in Users /\ u \in seen.online
  BY AtWork, AtLeave DEF OnLeave
<1>2. task[k].ret = "closed"
  BY <1>1, GotoFrame DEF LeaveReturn, Busy, Running
<1>3. Own(k, RoomsLeft(u)) = RoomsLeft(u) /\ Around(k) = seen.online \ {u}
  BY <1>1, <1>2, LeftTypes DEF Own, Around, Placed
<1>4. LooksNext(HostsLeft(u), RoomsLeft(u), RoomsLeft(u), seen.online \ {u})
  BY <1>3
<1>5. /\ seen'.host = HostsLeft(u) /\ seen'.room = RoomsLeft(u)
      /\ seen'.online = seen.online \ {u} /\ AsSeen'
  BY <1>1, <1>4, SeenMoves, LeftTypes DEF SeenOK
<1>6. Promise!Disconnect(u)
  BY <1>1, <1>5 DEF Promise!Disconnect, HostsLeft, RoomsLeft
<1>. QED  BY <1>1, <1>5, <1>6 DEF OneOperation, Promise!Next

\* The reply to a create or a join.
LEMMA EndReply ==
    ASSUME OneIInv, NEW k \in Sockets, CreateReply(k) \/ JoinReply(k),
           seen' = Membership', TypeOK'
    PROVE  OneOperation /\ AsSeen'
<1> DEFINE u == UserOf[k]
           g == task[k].arg
           H == IF At(k, "create_reply") THEN HostsMade(k) ELSE HostsLeft(u)
<1>r. /\ Run(k) /\ task[k].pc \in {"create_reply", "join_reply"}
      /\ task[k].pc \in CreatePcs \cup JoinPcs
  BY DEF Run, CreateReply, JoinReply, At, CreatePcs, JoinPcs
<1>1. /\ TypeOK /\ SeenOK /\ u \in Users
      /\ Looks(H, RoomsMade(k), RoomsMade(k), seen.online)
  BY <1>r, AtWork DEF Stage, At
<1>2. LooksNext(H, RoomsMade(k), RoomsMade(k), seen.online)
  BY <1>1, LooksKept, SameSessions, SameConns DEF CreateReply, JoinReply, Reply
<1>3. /\ g \in SessionIds /\ Online(u)
      /\ task[k].pc = "create_reply" => seen.host[g] = None
      /\ task[k].pc = "join_reply" => seen.host[g] # None /\ seen.room[u] # g
  BY <1>r, AtEntering DEF CreatePcs, JoinPcs
<1>4. u \in seen.online
  BY <1>1, <1>3 DEF Looks
<1>5. /\ H = [t \in SessionIds |-> H[t]] /\ DOMAIN H = SessionIds
      /\ RoomsMade(k) = [v \in Users |-> RoomsMade(k)[v]] /\ DOMAIN RoomsMade(k) = Users
  BY <1>1, LeftTypes DEF HostsMade, RoomsMade, Placed
<1>6. /\ seen'.host = H /\ seen'.room = RoomsMade(k)
      /\ seen'.online = seen.online /\ AsSeen'
  <2>1. seen.online \subseteq Users
    BY <1>1 DEF SeenOK
  <2>. HIDE DEF H
  <2>. QED  BY <1>2, <1>5, <2>1, SeenMoves
<1>7. CASE task[k].pc = "create_reply"
  <2>1. Promise!Create(u, g)
    BY <1>3, <1>4, <1>6, <1>7
       DEF Promise!Create, HostsMade, RoomsMade, HostsLeft, RoomsLeft, Placed, At
  <2>. QED  BY <1>1, <1>3, <1>6, <2>1 DEF OneOperation, Promise!Next
<1>8. CASE task[k].pc = "join_reply"
  <2>1. Promise!Join(u, g)
    BY <1>3, <1>4, <1>6, <1>8
       DEF Promise!Join, RoomsMade, HostsLeft, RoomsLeft, Placed, At
  <2>. QED  BY <1>1, <1>3, <1>6, <2>1 DEF OneOperation, Promise!Next
<1>. QED  BY <1>r, <1>7, <1>8

-----------------------------------------------------------------------------
(* Every step of the relay. *)

\* These accesses are never a handler's last.
LEMMA WorkGoesOn ==
    ASSUME OneIInv, NEW k \in Sockets,
           \/ Takeover(k) \/ CreateInsert(k) \/ CreateConn(k)
           \/ JoinLookup(k) \/ JoinInsert(k) \/ JoinConn(k)
           \/ LeaveRemove(k) \/ LeaveRest(k) \/ LeaveTell(k) \/ LeaveClear(k)
    PROVE  Busy(k)'
<1>r. Run(k) /\ TypeOK
  BY DEF Run, OneIInv, IInv
<1>1. CASE LeaveRemove(k)
  <2>1. MemberVia(task[k].handle.session, UserOf[k], task[k].handle.sender)
    BY <1>r, <1>1, HandedOver DEF LeaveRemove
  <2>. QED  BY <1>r, <1>1, <2>1, GotoFrame DEF LeaveRemove, Busy, Running
<1>2. CASE LeaveClear(k)
  <2>1. PICK l \in {"leave_drop", "leave_clear"} :
            \E m : Carry(k, l, task[k].handle, task[k].ret, m)
    BY <1>2 DEF LeaveClear
  <2>. QED  BY <1>r, <2>1, CarryFrame DEF Busy, Running
<1>3. CASE LeaveRest(k)
  BY <1>r, <1>3, CarryFrame DEF LeaveRest, Busy, Running
<1>4. CASE Takeover(k)
  BY <1>r, <1>4, EnterFrame DEF Takeover, Busy, Running
<1>5. CASE CreateInsert(k) \/ CreateConn(k) \/ JoinLookup(k) \/ JoinInsert(k)
           \/ JoinConn(k) \/ LeaveTell(k)
  <2>1. PICK l \in {"create_conn", "create_reply", "join_insert", "join_conn",
                    "join_reply", "leave_drop", "leave_clear"} : Goto(k, l)
    BY <1>5, JoinFinds DEF CreateInsert, CreateConn, JoinInsert, JoinConn, LeaveTell
  <2>. QED  BY <1>r, <2>1, GotoFrame DEF Busy, Running
<1>. QED  BY <1>1, <1>2, <1>3, <1>4, <1>5

\* These are: the task awaits again.
LEMMA WorkEnds ==
    ASSUME TypeOK, NEW k \in Sockets,
           \/ Greet(k) \/ CreateReply(k) \/ JoinReply(k) \/ MediaSet(k)
           \/ Cleanup(k) /\ ~(Live(k) /\ conns[UserOf[k]].session # None)
    PROVE  ~Busy(k)'
<1>1. Await(k) \/ Goto(k, "closed")
  BY DEF Greet, CreateReply, JoinReply, Reply, MediaSet, Cleanup
<1>. QED  BY <1>1, EnterFrame, GotoFrame DEF Await, Busy, Running

LEMMA StageRun ==
    ASSUME OneIInv, NEW k \in Sockets, Run(k), TypeOK', seen' = seen, Busy(k)'
    PROVE  Stage(k)'
<1>1. ~(Greet(k) \/ CreateReply(k) \/ JoinReply(k) \/ MediaSet(k))
  BY WorkEnds DEF OneIInv, IInv
<1>2. CASE Cleanup(k)
  BY <1>2, WorkEnds, StageCleanup DEF OneIInv, IInv
<1>3. CASE CreateCheck(k) \/ JoinCheck(k) \/ MediaConn(k) \/ MediaCheck(k)
  BY <1>3, StageCheck
<1>4. CASE Takeover(k) \/ CreateInsert(k) \/ CreateConn(k) \/ JoinLookup(k)
           \/ JoinInsert(k) \/ JoinConn(k)
  BY <1>4, StageTakeover, StageCreateInsert, StageConn, StageJoinLookup,
     StageJoinInsert
<1>5. CASE LeaveConn(k) \/ LeaveRemove(k) \/ LeaveRest(k) \/ LeaveEmpty(k)
           \/ LeaveTell(k) \/ LeaveClear(k) \/ LeaveDone(k)
  BY <1>5, StageLeaveConn, StageLeaveRemove, StageLeaveRest, StageLeaveEmpty,
     StageLeaveTell, StageLeaveClear, StageLeaveDone
<1>6. CASE LeaveDrop(k)
  BY <1>6, DropOut, StageReturn
<1>. QED  BY <1>1, <1>2, <1>3, <1>4, <1>5, <1>6 DEF Run

LEMMA EndRun ==
    ASSUME OneIInv, NEW k \in Sockets, Run(k), TypeOK', seen' = Membership',
           ~Busy(k)'
    PROVE  OneOperation /\ AsSeen'
<1> DEFINE u == UserOf[k]
<1>1. CASE Greet(k) \/ CreateReply(k) \/ JoinReply(k)
  BY <1>1, EndGreet, EndReply
<1>2. CASE Cleanup(k)
  <2>1. ~(Live(k) /\ conns[u].session # None)
    <3> SUFFICES ASSUME Live(k), conns[u].session # None PROVE FALSE
      OBVIOUS
    <3>1. Carry(k, "leave_remove", conns[u], "closed", {}) /\ TypeOK
      BY <1>2 DEF Cleanup, OneIInv, IInv
    <3>. QED  BY <3>1, CarryFrame DEF Busy, Running
  <2>. QED  BY <1>2, <2>1, EndCleanup
<1>3. CASE CreateCheck(k) \/ JoinCheck(k) \/ MediaConn(k) \/ MediaCheck(k) \/ MediaSet(k)
  BY <1>3, EndCalm
<1>4. CASE LeaveConn(k)
  <2>1. /\ TypeOK /\ SeenOK /\ u \in Users /\ AsSeen /\ Live(k)
    BY <1>4, AtWork DEF Stage, OnCalm, CalmPcs, At, LeaveConn
  <2>2. conns[u].session = None
    <3> SUFFICES ASSUME conns[u].session # None PROVE FALSE
      OBVIOUS
    <3>1. Carry(k, "leave_remove", conns[u], task[k].ret, {})
      BY <1>4 DEF LeaveConn
    <3>. QED  BY <2>1, <3>1, CarryFrame DEF Busy, Running
  <2>3. HostsLeft(u) = seen.host /\ RoomsLeft(u) = seen.room
    BY <2>1, <2>2, LeftNothing DEF AsSeen, Looks
  <2>4. LooksNext(seen.host, seen.room, seen.room, seen.online)
    BY <1>4, <2>1, LooksKept, SameSessions, SameConns DEF AsSeen, LeaveConn
  <2>5. u \in seen.online
    BY <2>1, ConnType, NoneAssumption DEF AsSeen, Looks, Live
  <2>. QED  BY <2>1, <2>3, <2>4, <2>5, EndLeave
<1>5. CASE LeaveEmpty(k)
  <2>1. TypeOK /\ OnOut(k) /\ task[k].pc \in LeavePcs
    BY <1>5, AtWork DEF Stage, At, LeaveEmpty, LeavePcs
  <2>2. ~WasHost(k) /\ LeaveReturn(k) /\ UNCHANGED <<sessions, conns>>
    <3>1. ~Goto(k, "leave_drop") /\ ~Goto(k, "leave_tell")
      BY <2>1, GotoFrame DEF Busy, Running
    <3>. QED  BY <1>5, <3>1 DEF LeaveEmpty
  <2>3. ~Hosting(k)
    BY <2>1, <2>2, AtLeave DEF WasHost, Hosting, OnOut, Looks
  <2>. QED  BY <2>1, <2>2, <2>3, GuestOut, EndReturn
<1>6. CASE LeaveDrop(k)
  BY <1>6, DropOut, EndReturn
<1>7. CASE LeaveDone(k)
  <2>1. LooksNext(HostsLeft(u), RoomsLeft(u), RoomsLeft(u), seen.online)
        /\ task[k].pc \in LeavePcs
    BY <1>7, DoneOut
  <2>2. SeenOK /\ u \in Users /\ u \in seen.online
    BY <2>1, AtWork, AtLeave DEF OnLeave
  <2>. QED  BY <2>1, <2>2, EndLeave
<1>. QED  BY <1>1, <1>2, <1>3, <1>4, <1>5, <1>6, <1>7, WorkGoesOn DEF Run

\* A socket that wakes runs, unless it gives up.
LEMMA WakeBusy ==
    ASSUME TypeOK, NEW k \in Sockets, Wake(k), ~AuthFail(k)
    PROVE  Busy(k)'
<1>1. CASE Register(k)
  BY <1>1, CarryFrame, GotoFrame DEF Register, Busy, Running
<1>2. CASE Break(k)
  BY <1>2, GotoFrame DEF Break, Busy, Running
<1>3. CASE ReceiveLeave(k) \/ ReceiveNewMedia(k)
           \/ \E s \in SessionIds : ReceiveCreate(k, s) \/ ReceiveJoin(k, s)
  <2>1. PICK l \in {"create_check", "join_check", "media_conn", "leave_conn"} :
            \E s : Enter(k, l, s)
    BY <1>3 DEF ReceiveCreate, ReceiveJoin, ReceiveLeave, ReceiveNewMedia, Receive
  <2>. QED  BY <2>1, EnterFrame DEF Busy, Running
<1>. QED  BY <1>1, <1>2, <1>3 DEF Wake

\* What is known at a label stays known while nothing but another socket's
\* frame changes.
LEMMA StageKept ==
    ASSUME NEW j \in Sockets, Stage(j), task'[j] = task[j],
           UNCHANGED <<sessions, conns, told, seen>>
    PROVE  Stage(j)'
<1>1. /\ HostsLeft(UserOf[j])' = HostsLeft(UserOf[j])
      /\ RoomsLeft(UserOf[j])' = RoomsLeft(UserOf[j])
  BY DEF HostsLeft, RoomsLeft, Promise!HostsWithout, Promise!RoomsWithout,
         Promise!Leavers, Promise!Hosts
<1>2. /\ (OnTakeover(j) => OnTakeover(j)') /\ (OnGreet(j) => OnGreet(j)')
      /\ (OnCalm(j) => OnCalm(j)') /\ (Aim(j) => Aim(j)')
      /\ (OnLeave(j) => OnLeave(j)') /\ (OnRemove(j) => OnRemove(j)')
  BY DEF OnTakeover, OnGreet, OnCalm, AsSeen, Looks, Aim, OnLeave, OnRemove, Own,
         Around, Members, Online, Live, At
<1>3. /\ (OnOut(j) => OnOut(j)') /\ (OnEmpty(j) => OnEmpty(j)')
      /\ (OnTell(j) => OnTell(j)') /\ (OnClear(j) => OnClear(j)')
  BY DEF OnOut, OnEmpty, OnTell, OnClear, Looks, Own, Around, Out, Cleared,
         Hosting, Members, Online, Live
<1>4. /\ (OnDrop(j) => OnDrop(j)') /\ (OnDone(j) => OnDone(j)')
      /\ (OnFree(j) => OnFree(j)')
  BY <1>1 DEF OnDrop, OnDone, OnFree, Looks, Own, Around, Out, Hosting, Members,
              Online
<1>5. HostsMade(j)' = HostsMade(j) /\ RoomsMade(j)' = RoomsMade(j)
  BY <1>1 DEF HostsMade, RoomsMade
<1>. DEFINE R(h, r, c) == Looks(h, r, c, seen.online)
<1>6. /\ (R(HostsMade(j), RoomsMade(j), RoomsLeft(UserOf[j]))
             => R(HostsMade(j), RoomsMade(j), RoomsLeft(UserOf[j]))')
      /\ (R(HostsMade(j), RoomsMade(j), RoomsMade(j))
             => R(HostsMade(j), RoomsMade(j), RoomsMade(j))')
      /\ (R(HostsLeft(UserOf[j]), RoomsMade(j), RoomsLeft(UserOf[j]))
             => R(HostsLeft(UserOf[j]), RoomsMade(j), RoomsLeft(UserOf[j]))')
      /\ (R(HostsLeft(UserOf[j]), RoomsMade(j), RoomsMade(j))
             => R(HostsLeft(UserOf[j]), RoomsMade(j), RoomsMade(j))')
  BY <1>1, <1>5 DEF Looks, Members, Online
<1>7. Live(j)' <=> Live(j)
  BY DEF Live
<1>. QED  BY <1>2, <1>3, <1>4, <1>6, <1>7 DEF Stage, At

\* What is seen at rest is a membership: the host is present in every session
\* that exists, and who is in a session is connected.
LEMMA SeenOKStep ==
    ASSUME TypeOK', HostPresent', Quiet', AsSeen', seen' = Membership'
    PROVE  SeenOK'
<1>1. seen' = [host   |-> [s \in SessionIds |-> sessions'[s].host],
               room   |-> [u \in Users |-> conns'[u].session],
               online |-> {u \in Users : Online(u)'}]
  BY DEF Membership
<1>2. /\ \A s \in SessionIds : sessions'[s].host \in Users \cup {None}
      /\ \A u \in Users : conns'[u].session \in SessionIds \cup {None}
  BY DEF TypeOK, Session, NoSession, Handle, NoHandle
<1>3. seen' \in [host : [SessionIds -> Users \cup {None}],
                 room : [Users -> SessionIds \cup {None}],
                 online : SUBSET Users]
  BY <1>1, <1>2
<1>4. /\ \A s \in SessionIds : sessions'[s].host = seen'.host[s]
      /\ \A s \in SessionIds : Members(s)' = {v \in Users : seen'.room[v] = s}
      /\ \A v \in Users : conns'[v].session = seen'.room[v]
      /\ \A v \in Users : Online(v)' <=> v \in seen'.online
  BY DEF AsSeen, Looks
<1>5. ASSUME NEW s \in SessionIds, seen'.host[s] # None
      PROVE  seen'.room[seen'.host[s]] = s
  <2>1. Exists(s)'
    BY <1>4, <1>5 DEF Exists, NoSession
  <2>2. sessions'[s].host \in Members(s)'
    BY <2>1 DEF HostPresent, Leaving, Quiet, Busy, Running
  <2>. QED  BY <1>4, <2>2
<1>6. ASSUME NEW u \in Users, NEW s \in SessionIds, seen'.room[u] = s
      PROVE  seen'.host[s] # None /\ u \in seen'.online
  <2>1. u \in Members(s)' /\ s # None
    BY <1>4, <1>6, NoneAssumption
  <2>2. sessions'[s] # NoSession
    BY <2>1 DEF Members, NoSession
  <2>3. sessions'[s].host # None
    BY <2>1, <2>2, NoneAssumption DEF TypeOK, Session
  <2>4. Online(u)'
    <3>1. conns'[u].session = s
      BY <1>4, <1>6
    <3>. QED  BY <2>1, <3>1 DEF Online, NoHandle
  <2>. QED  BY <1>4, <2>3, <2>4
<1>7. \A u \in Users : seen'.room[u] # None =>
         seen'.host[seen'.room[u]] # None /\ u \in seen'.online
  BY <1>3, <1>6
<1>. QED  BY <1>3, <1>5, <1>7 DEF SeenOK, Promise!Membership

\* A failed authentication is seen by nobody.
LEMMA SeenGiveUp ==
    ASSUME OneIInv, NEW k \in Sockets, AuthFail(k), TypeOK',
           seen' = IF Quiet' THEN Membership' ELSE seen
    PROVE  /\ seen' = seen /\ (Quiet' => AsSeen')
           /\ \A j \in Sockets : Busy(j)' => Stage(j)'
<1>1. TypeOK /\ SeenOK /\ Wake(k) /\ UNCHANGED <<sessions, conns, told>>
  BY DEF OneIInv, IInv, Wake, AuthFail
<1>2. /\ ~Busy(k) /\ ~Busy(k)'
      /\ \A j \in Sockets : j # k => task'[j] = task[j]
  BY <1>1, GiveUp, OthersKept DEF Busy, Running
<1>3. SessionsKept /\ ConnsKept
  BY <1>1, SameSessions, SameConns
<1>4. CASE Quiet'
  <2>1. Quiet
    BY <1>2, <1>4 DEF Quiet, Busy
  <2>2. AsSeen
    BY <2>1 DEF OneIInv
  <2>3. seen' = Membership'
    BY <1>4
  <2>4. seen' = seen /\ AsSeen'
    BY <1>1, <1>3, <2>2, <2>3, EndNothing
  <2>. QED  BY <1>4, <2>4 DEF Quiet
<1>5. CASE ~Quiet'
  <2>1. seen' = seen
    BY <1>5
  <2>2. ASSUME NEW j \in Sockets, Busy(j)'
        PROVE  Stage(j)'
    <3>1. j # k /\ Busy(j) /\ task'[j] = task[j]
      BY <1>2, <2>2 DEF Busy
    <3>2. Stage(j)
      BY <3>1 DEF OneIInv
    <3>. QED  BY <1>1, <2>1, <3>1, <3>2, StageKept
  <2>. QED  BY <1>5, <2>1, <2>2
<1>. QED  BY <1>4, <1>5

\* A handler that goes on keeps what was seen, and its label tells what it has
\* done so far; one that ends has done one operation.
LEMMA SeenStep ==
    ASSUME Workers = 1, OneIInv, NEW k \in Sockets, Wake(k) \/ Run(k),
           TypeOK', HostPresent', seen' = IF Quiet' THEN Membership' ELSE seen
    PROVE  /\ OneOperation /\ SeenOK' /\ (Quiet' => AsSeen')
           /\ \A j \in Sockets : Busy(j)' => Stage(j)'
<1>1. TypeOK /\ SeenOK /\ OneBusy
  BY DEF OneIInv, IInv
<1>2. CASE AuthFail(k)
  BY <1>1, <1>2, SeenGiveUp DEF OneOperation, SeenOK, Promise!Membership
<1>3. CASE ~AuthFail(k) /\ Busy(k)'
  <2>1. ~Quiet' /\ seen' = seen
    BY <1>3 DEF Quiet
  <2>2. Stage(k)'
    <3>1. CASE Run(k)
      BY <1>3, <2>1, <3>1, StageRun
    <3>2. CASE Wake(k)
      <4>1. Quiet
        BY <1>1, <1>3, <3>2, WakeQuiet
      <4>. QED  BY <1>3, <2>1, <3>2, <4>1, StageRegister, StageMessage
    <3>. QED  BY <3>1, <3>2
  <2>3. \A j \in Sockets : Busy(j)' => Stage(j)'
    BY <1>1, <1>3, <2>2, BusyNext
  <2>. QED  BY <1>1, <2>1, <2>3 DEF OneOperation, SeenOK, Promise!Membership
<1>4. CASE ~AuthFail(k) /\ ~Busy(k)'
  <2>1. Quiet' /\ seen' = Membership'
    BY <1>1, <1>4, BusyNext DEF Quiet
  <2>2. Run(k)
    BY <1>1, <1>4, WakeBusy
  <2>3. OneOperation /\ AsSeen'
    BY <1>4, <2>1, <2>2, EndRun
  <2>4. SeenOK'
    BY <2>1, <2>3, SeenOKStep
  <2>. QED  BY <2>1, <2>3, <2>4 DEF Quiet
<1>. QED  BY <1>2, <1>3, <1>4

-----------------------------------------------------------------------------
(* Channels, and what the clients have been told.                          *)

\* A handler never goes back to authenticating or taking over, and looks for
\* an entry to take out when its user's connection has a session.
LEMMA RunLabel ==
    ASSUME TypeOK, NEW k \in Sockets, Run(k), FrameOK(k)
    PROVE  /\ task'[k].pc # "auth" /\ task'[k].pc # "takeover"
           /\ task'[k].pc = "leave_remove" =>
                 /\ LeaveConn(k) \/ (Cleanup(k) /\ Live(k))
                 /\ conns[UserOf[k]].session # None
                 /\ task'[k].handle = conns[UserOf[k]]
<1>0. /\ task[k].ret \in {"create_insert", "join_lookup", "idle", "closed"}
  BY FrameType
<1>1. CASE \/ Takeover(k) \/ Greet(k) \/ CreateReply(k) \/ JoinReply(k)
           \/ MediaConn(k) \/ MediaSet(k)
  <2>1. \/ Await(k) \/ Enter(k, "greet", None)
        \/ Enter(k, "media_check", conns[UserOf[k]].session)
    BY <1>1, Zenon DEF Takeover, Greet, CreateReply, JoinReply, Reply, MediaConn, MediaSet
  <2>2. task'[k].pc \in {"idle", "greet", "media_check"}
    BY <2>1, EnterFrame DEF Await
  <2>. QED  BY <2>2
<1>2. CASE \/ CreateInsert(k) \/ CreateConn(k) \/ JoinInsert(k) \/ JoinConn(k)
  BY <1>2, GotoFrame DEF CreateInsert, CreateConn, JoinInsert, JoinConn
<1>3. CASE \/ CreateCheck(k) \/ JoinCheck(k) \/ JoinLookup(k) \/ MediaCheck(k)
  BY <1>3, EnterFrame, CarryFrame, GotoFrame
     DEF CreateCheck, JoinCheck, JoinLookup, MediaCheck, Await
<1>4. CASE Cleanup(k) \/ LeaveConn(k)
  <2>1. CASE conns[UserOf[k]].session # None /\ (LeaveConn(k) \/ Live(k))
    <3>1. \E r : Carry(k, "leave_remove", conns[UserOf[k]], r, {})
      BY <1>4, <2>1 DEF Cleanup, LeaveConn
    <3>2. task'[k].pc = "leave_remove" /\ task'[k].handle = conns[UserOf[k]]
      BY <3>1, CarryFrame
    <3>. QED  BY <1>4, <2>1, <3>2
  <2>2. CASE ~(conns[UserOf[k]].session # None /\ (LeaveConn(k) \/ Live(k)))
    <3>1. Goto(k, "closed") \/ Enter(k, task[k].ret, task[k].arg)
      BY <1>4, <2>2 DEF Cleanup, LeaveConn
    <3>2. task'[k].pc \in {"closed", task[k].ret}
      BY <3>1, GotoFrame, EnterFrame
    <3>. QED  BY <1>0, <3>2
  <2>. QED  BY <2>1, <2>2
<1>5. CASE LeaveRemove(k) \/ LeaveEmpty(k) \/ LeaveDrop(k)
  <2>1. \/ \E l \in {"leave_rest", "leave_drop", "leave_tell", "leave_done"} : Goto(k, l)
        \/ Enter(k, "closed", None)
    BY <1>5, Zenon DEF LeaveRemove, LeaveEmpty, LeaveDrop, LeaveReturn
  <2>2. task'[k].pc \in {"leave_rest", "leave_drop", "leave_tell", "leave_done", "closed"}
    BY <2>1, GotoFrame, EnterFrame
  <2>. QED  BY <2>2
<1>6. CASE LeaveRest(k) \/ LeaveTell(k) \/ LeaveClear(k) \/ LeaveDone(k)
  <2>1. \/ \E l \in {"leave_empty", "leave_drop", "leave_clear"} :
              Goto(k, l) \/ \E h, r, m : Carry(k, l, h, r, m)
        \/ Enter(k, task[k].ret, task[k].arg)
    BY <1>6 DEF LeaveRest, LeaveTell, LeaveClear, LeaveDone
  <2>2. task'[k].pc \in {"leave_empty", "leave_drop", "leave_clear", task[k].ret}
    BY <2>1, GotoFrame, EnterFrame, CarryFrame
  <2>. QED  BY <1>0, <2>2
<1>. QED  BY <1>1, <1>2, <1>3, <1>4, <1>5, <1>6 DEF Run

\* A connection's channel changes when its user registers or goes.
LEMMA SendersOfConns ==
    ASSUME TypeOK, TypeOK', NEW k \in Sockets, Wake(k) \/ Run(k)
    PROVE  \A v \in Users :
              \/ conns'[v].sender = conns[v].sender
              \/ v = UserOf[k] /\ Register(k) /\ conns'[v].sender = k
              \/ v = UserOf[k] /\ Cleanup(k) /\ Live(k) /\ conns'[v].sender = None
<1>. USE DEF TypeOK
<1>0. UserOf[k] \in Users
  BY UserOfAssumption
<1>1. CASE Register(k)
  BY <1>0, <1>1 DEF Register
<1>2. CASE Cleanup(k)
  BY <1>0, <1>2 DEF Cleanup, NoHandle
<1>3. ASSUME NEW u, NEW s, conns' = SetSession(u, s)
      PROVE  \A v \in Users : conns'[v].sender = conns[v].sender
  <2>1. CASE Online(u) /\ u \in Users
    <3>1. conns[u] \in Handle
      BY <2>1, ConnType
    <3>. QED  BY <1>3, <2>1, <3>1 DEF SetSession, Handle
  <2>2. CASE ~Online(u)
    BY <1>3, <2>2 DEF SetSession
  <2>3. CASE u \notin Users
    BY <1>3, <2>3 DEF SetSession
  <2>. QED  BY <2>1, <2>2, <2>3
<1>4. CASE Takeover(k) \/ CreateConn(k) \/ JoinConn(k) \/ LeaveClear(k) \/ LeaveDone(k)
  BY <1>3, <1>4 DEF Takeover, CreateConn, JoinConn, LeaveClear, LeaveDone
<1>5. CASE UNCHANGED conns
  BY <1>5
<1>. QED
  BY <1>1, <1>2, <1>4, <1>5
     DEF Wake, Run, AuthFail, Break, ReceiveCreate, ReceiveJoin, ReceiveLeave,
         ReceiveNewMedia, Receive, Greet, CreateCheck, CreateInsert, CreateReply,
         JoinCheck, JoinLookup, JoinInsert, JoinReply, Reply, LeaveConn,
         LeaveRemove, LeaveRest, LeaveEmpty, LeaveTell, LeaveDrop, MediaConn,
         MediaCheck, MediaSet

\* The channels of the entries after a step of k that leaves k before no
\* handing over.
LEMMA SendersPlain ==
    ASSUME Workers = 1, TypeOK, OneBusy, NEW k \in Sockets, Wake(k) \/ Run(k),
           ~AuthFail(k), task'[k].pc \notin {"takeover", "leave_remove"},
           \A t \in SessionIds : \A v \in Members(t)' :
              sessions'[t].participants[v].sender = conns'[v].sender
    PROVE  Senders'
<1>1. ASSUME NEW j \in Sockets, NEW v, NEW t PROVE ~Handing(j, v, t)'
  <2>1. SUFFICES ASSUME Handing(j, v, t)' PROVE FALSE
    OBVIOUS
  <2>2. Busy(j)'
    BY <2>1 DEF Handing, At, Busy, Running
  <2>3. j = k
    BY <2>2, BusyNext
  <2>. QED  BY <2>1, <2>3 DEF Handing, At
<1>. QED  BY <1>1 DEF Senders

\* The same when k is about to hand over, or take out, an entry of its user.
LEMMA SendersHanding ==
    ASSUME Workers = 1, TypeOK, OneBusy, NEW k \in Sockets, Wake(k) \/ Run(k),
           ~AuthFail(k), task'[k].pc \in {"takeover", "leave_remove"},
           \A t \in SessionIds : \A v \in Members(t)' :
              IF v = UserOf[k]
              THEN /\ t = task'[k].handle.session
                   /\ sessions'[t].participants[v].sender = task'[k].handle.sender
              ELSE sessions'[t].participants[v].sender = conns'[v].sender
    PROVE  Senders'
<1> SUFFICES ASSUME NEW t \in SessionIds, NEW v \in Members(t)'
             PROVE  /\ \A j \in Sockets : Handing(j, v, t)' =>
                          sessions'[t].participants[v].sender = task'[j].handle.sender
                    /\ (\A j \in Sockets : ~Handing(j, v, t)') =>
                          sessions'[t].participants[v].sender = conns'[v].sender
  BY DEF Senders
<1>1. ASSUME NEW j \in Sockets, Handing(j, v, t)' PROVE j = k
  <2>1. Busy(j)'
    BY <1>1 DEF Handing, At, Busy, Running
  <2>. QED  BY <2>1, BusyNext
<1>2. CASE v = UserOf[k]
  <2>1. Handing(k, v, t)'
    BY <1>2 DEF Handing, At
  <2>. QED  BY <1>1, <1>2, <2>1
<1>3. CASE v # UserOf[k]
  BY <1>1, <1>3 DEF Handing
<1>. QED  BY <1>2, <1>3

\* At rest an entry's channel is that of its user's connection.
LEMMA SenderAtRest ==
    ASSUME OneIInv, Quiet, NEW t \in SessionIds, NEW v \in Members(t)
    PROVE  sessions[t].participants[v].sender = conns[v].sender
<1>1. \A j \in Sockets : ~Handing(j, v, t)
  BY DEF Quiet, Handing, At, Busy, Running
<1>. QED  BY <1>1 DEF OneIInv, Senders

\* A step that leaves the entries alone and lets its user's connection be
\* replaced, or removed, or read, to hand its entry over.
LEMMA SendersAsideFrom ==
    ASSUME OneIInv, Workers = 1, NEW k \in Sockets, Wake(k) \/ Run(k),
           ~AuthFail(k), AsSeen, UNCHANGED sessions,
           task'[k].pc \in {"takeover", "leave_remove"},
           task'[k].handle = conns[UserOf[k]],
           \A v \in Users : v # UserOf[k] => conns'[v].sender = conns[v].sender,
           \A t \in SessionIds : \A v \in Members(t) :
              sessions[t].participants[v].sender = conns[v].sender
    PROVE  Senders'
<1>1. TypeOK /\ OneBusy /\ SeenOK
  BY DEF OneIInv, IInv
<1>2. ASSUME NEW t \in SessionIds, NEW v \in Members(t)'
      PROVE  /\ v \in Users /\ v \in Members(t) /\ conns[v].session = t
             /\ sessions'[t].participants[v].sender = conns[v].sender
  <2>1. v \in Members(t) /\ sessions'[t] = sessions[t]
    BY <1>2 DEF Members
  <2>2. v \in Users /\ conns[v].session = t
    BY <2>1 DEF AsSeen, Looks
  <2>. QED  BY <2>1, <2>2
<1>. QED  BY <1>1, <1>2, SendersHanding

LEMMA SendersWake ==
    ASSUME OneIInv, Workers = 1, NEW k \in Sockets, Wake(k), TypeOK'
    PROVE  Senders'
<1>1. TypeOK /\ OneBusy /\ SeenOK /\ Senders /\ UserOf[k] \in Users
  BY UserOfAssumption DEF OneIInv, IInv
<1>2. CASE AuthFail(k)
  <2>1. /\ UNCHANGED <<sessions, conns>>
        /\ \A j \in Sockets : j # k => task'[j] = task[j]
    BY <1>1, <1>2, OthersKept DEF AuthFail
  <2>2. /\ task[k].pc = "auth" /\ task'[k].pc = "closed"
    BY <1>1, <1>2, GiveUp
  <2>3. \A j \in Sockets : \A v, t : Handing(j, v, t)' <=> Handing(j, v, t)
    BY <2>1, <2>2 DEF Handing, At
  <2>4. \A j \in Sockets : \A v, t : Handing(j, v, t) => task'[j] = task[j]
    BY <2>1, <2>2 DEF Handing, At
  <2>. QED  BY <1>1, <2>1, <2>3, <2>4 DEF Senders, Members
<1>3. CASE ~AuthFail(k)
  <2>1. Quiet /\ AsSeen
    BY <1>1, <1>3, WakeQuiet DEF OneIInv
  <2>2. \A t \in SessionIds : \A v \in Members(t) :
           sessions[t].participants[v].sender = conns[v].sender
    BY <2>1, SenderAtRest
  <2>3. UNCHANGED sessions
    BY <1>3 DEF Wake, Register, Break, ReceiveCreate, ReceiveJoin, ReceiveLeave,
                ReceiveNewMedia, Receive
  <2>4. CASE Register(k)
    <3>1. \A v \in Users : v # UserOf[k] => conns'[v] = conns[v]
      BY <2>4 DEF Register, TypeOK
    <3>2. CASE conns[UserOf[k]].session # None
      <4>1. Carry(k, "takeover", conns[UserOf[k]], "idle", {})
        BY <2>4, <3>2 DEF Register
      <4>2. task'[k].pc = "takeover" /\ task'[k].handle = conns[UserOf[k]]
        BY <1>1, <4>1, CarryFrame
      <4>. QED  BY <1>3, <2>1, <2>2, <2>3, <3>1, <4>2, SendersAsideFrom
    <3>3. CASE conns[UserOf[k]].session = None
      <4>1. Goto(k, "greet")
        BY <2>4, <3>3 DEF Register
      <4>2. task'[k].pc = "greet"
        BY <1>1, <4>1, GotoFrame
      <4>3. \A t \in SessionIds : UserOf[k] \notin Members(t)
        BY <2>1, <3>3, NoneAssumption DEF AsSeen, Looks
      <4>4. \A t \in SessionIds : \A v \in Members(t)' :
               sessions'[t].participants[v].sender = conns'[v].sender
        BY <1>1, <2>2, <2>3, <3>1, <4>3, SessionRoster DEF Members
      <4>. QED  BY <1>1, <1>3, <4>2, <4>4, SendersPlain
    <3>. QED  BY <3>2, <3>3
  <2>5. CASE ~Register(k)
    <3>1. UNCHANGED conns
      BY <1>3, <2>5 DEF Wake, Break, ReceiveCreate, ReceiveJoin, ReceiveLeave,
                        ReceiveNewMedia, Receive
    <3>2. \/ Goto(k, "cleanup")
          \/ \E l \in {"create_check", "join_check", "leave_conn", "media_conn"} :
             \E s : Enter(k, l, s)
      BY <1>3, <2>5 DEF Wake, Break, ReceiveCreate, ReceiveJoin, ReceiveLeave,
                        ReceiveNewMedia, Receive
    <3>3. task'[k].pc \notin {"takeover", "leave_remove"}
      BY <1>1, <3>2, GotoFrame, EnterFrame
    <3>4. \A t \in SessionIds : \A v \in Members(t)' :
             sessions'[t].participants[v].sender = conns'[v].sender
      BY <2>2, <2>3, <3>1 DEF Members
    <3>. QED  BY <1>1, <1>3, <3>3, <3>4, SendersPlain
  <2>. QED  BY <2>4, <2>5
<1>. QED  BY <1>2, <1>3

\* The entries keep their channels, except the one that is handed over.
LEMMA SendersRun ==
    ASSUME OneIInv, Workers = 1, NEW k \in Sockets, Run(k), TypeOK'
    PROVE  Senders'
<1> DEFINE u == UserOf[k]
           s == task[k].handle.session
           g == task[k].arg
<1>1. /\ TypeOK /\ GuardedExists /\ OneBusy /\ SeenOK /\ FrameOK(k) /\ u \in Users
      /\ Stage(k) /\ Busy(k)
  BY AtWork DEF OneIInv
<1>2. ~AuthFail(k) /\ ~Register(k) /\ ~Wake(k)
  BY <1>1 DEF Wake, Register, Break, ReceiveCreate, ReceiveJoin, ReceiveLeave,
              ReceiveNewMedia, Receive, AuthFail, Busy, Running, At
<1>3. task'[k].pc # "takeover"
  BY <1>1, RunLabel
<1>4. \A v \in Users : \/ conns'[v].sender = conns[v].sender
                       \/ v = u /\ Cleanup(k) /\ Live(k)
  BY <1>1, <1>2, SendersOfConns
<1>5. \A t \in SessionIds : Members(t) \subseteq Users /\ Members(t)' \subseteq Users
  BY <1>1, SessionRoster DEF TypeOK, Session, NoSession, Members, Roster
<1>6. CASE task'[k].pc = "leave_remove"
  <2>1. /\ LeaveConn(k) \/ (Cleanup(k) /\ Live(k))
        /\ task'[k].handle = conns[u]
    BY <1>1, <1>6, RunLabel
  <2>2. task[k].pc \in {"leave_conn", "cleanup"} /\ UNCHANGED sessions
    BY <2>1 DEF LeaveConn, Cleanup, At
  <2>3. AsSeen
    BY <1>1, <2>2 DEF Stage, OnCalm, CalmPcs
  <2>4. \A t \in SessionIds : \A v \in Members(t) :
           sessions[t].participants[v].sender = conns[v].sender
    BY <1>1, <2>2, SenderOf DEF At
  <2>. QED  BY <1>2, <1>4, <1>6, <2>1, <2>2, <2>3, <2>4, SendersAsideFrom
<1>7. CASE task'[k].pc # "leave_remove"
  <2>1. SUFFICES ASSUME NEW t \in SessionIds, NEW v \in Members(t)'
                 PROVE  sessions'[t].participants[v].sender = conns'[v].sender
    BY <1>1, <1>2, <1>3, <1>7, SendersPlain
  <2>2. v \in Users
    BY <1>5
  <2>3. CASE Takeover(k)
    <3>1. At(k, "takeover")
      BY <2>3 DEF Takeover
    <3>2. /\ s = seen.room[u] /\ s \in SessionIds
          /\ MemberVia(s, u, task[k].handle.sender)
      BY <3>1, HandedOver
    <3>3. /\ SessionsKept
          /\ \A w \in Members(t) :
                sessions'[t].participants[w].sender =
                    IF t = s /\ w = u THEN k ELSE sessions[t].participants[w].sender
      BY <1>1, <2>3, <3>2, TakeoverSessions
    <3>4. v \in Members(t)
      BY <3>3 DEF SessionsKept
    <3>5. conns'[v].sender = conns[v].sender
      BY <1>4, <2>2, <3>1 DEF Cleanup, At
    <3>6. CASE t = s /\ v = u
      BY <1>1, <3>1, <3>3, <3>4, <3>5, <3>6 DEF Stage, OnTakeover, Live
    <3>7. CASE ~(t = s /\ v = u)
      <4>1. \A j \in Sockets : ~Handing(j, v, t)
        <5>1. ~Handing(k, v, t)
          BY <3>7 DEF Handing
        <5>2. \A j \in Sockets : j # k => ~Handing(j, v, t)
          BY AtWork DEF Handing, At, Busy, Running
        <5>. QED  BY <5>1, <5>2
      <4>2. sessions[t].participants[v].sender = conns[v].sender
        BY <3>4, <4>1 DEF OneIInv, Senders
      <4>. QED  BY <3>3, <3>4, <3>5, <3>7, <4>2
    <3>. QED  BY <3>6, <3>7
  <2>4. CASE LeaveRemove(k)
    <3>1. At(k, "leave_remove")
      BY <2>4 DEF LeaveRemove
    <3>2. s \in SessionIds /\ MemberVia(s, u, task[k].handle.sender)
      BY <3>1, HandedOver
    <3>3. /\ v \in Members(t) /\ ~(t = s /\ v = u)
          /\ sessions'[t].participants[v].sender = sessions[t].participants[v].sender
      BY <1>1, <2>4, <3>2, RemoveSessions
    <3>4. \A j \in Sockets : ~Handing(j, v, t)
      <4>1. ~Handing(k, v, t)
        BY <3>3 DEF Handing
      <4>2. \A j \in Sockets : j # k => ~Handing(j, v, t)
        BY AtWork DEF Handing, At, Busy, Running
      <4>. QED  BY <4>1, <4>2
    <3>5. sessions[t].participants[v].sender = conns[v].sender
      BY <3>3, <3>4 DEF OneIInv, Senders
    <3>. QED  BY <2>4, <3>3, <3>5 DEF LeaveRemove
  <2>5. CASE CreateInsert(k) \/ JoinInsert(k)
    <3>1. /\ task[k].pc \in CreatePcs \cup JoinPcs /\ UNCHANGED conns
          /\ ~At(k, "takeover") /\ ~At(k, "leave_remove")
      BY <2>5 DEF CreateInsert, JoinInsert, At, CreatePcs, JoinPcs
    <3>2. g \in SessionIds /\ Live(k)
      BY <3>1, AtEntering
    <3>3. CASE t = g /\ v = u
      BY <1>1, <2>5, <3>1, <3>2, <3>3, InsertSessions, JoinSessions DEF Live
    <3>4. CASE ~(t = g /\ v = u)
      <4>1. /\ v \in Members(t)
            /\ sessions'[t].participants[v].sender = sessions[t].participants[v].sender
        BY <1>1, <2>5, <3>2, <3>4, InsertSessions, JoinSessions
      <4>2. sessions[t].participants[v].sender = conns[v].sender
        BY <1>1, <3>1, <4>1, SenderOf
      <4>. QED  BY <3>1, <4>1, <4>2
    <3>. QED  BY <3>3, <3>4
  <2>6. CASE ~Takeover(k) /\ ~LeaveRemove(k) /\ ~CreateInsert(k) /\ ~JoinInsert(k)
    <3>1. /\ v \in Members(t)
          /\ sessions'[t].participants[v].sender = sessions[t].participants[v].sender
      <4>1. CASE LeaveDrop(k)
        <5>1. s \in SessionIds
          BY <1>1, <4>1 DEF FrameOK, LeaveDrop, At
        <5>. QED  BY <1>1, <4>1, <5>1, DropSessions
      <4>2. CASE MediaSet(k)
        <5>1. g \in SessionIds
          BY <1>1, <4>2 DEF FrameOK, MediaSet, At
        <5>. QED  BY <1>1, <4>2, <5>1, MediaSessions DEF SessionsKept
      <4>3. CASE UNCHANGED sessions
        BY <4>3 DEF Members
      <4>. QED
        BY <2>6, <4>1, <4>2, <4>3
           DEF Run, Greet, Cleanup, CreateCheck, CreateConn, CreateReply, JoinCheck,
               JoinLookup, JoinConn, JoinReply, Reply, LeaveConn, LeaveRest,
               LeaveEmpty, LeaveTell, LeaveClear, LeaveDone, MediaConn, MediaCheck
    <3>2. ~At(k, "takeover") /\ ~At(k, "leave_remove")
      BY <2>6 DEF Run, Greet, Cleanup, CreateCheck, CreateConn, CreateReply, JoinCheck,
                  JoinLookup, JoinConn, JoinReply, LeaveConn, LeaveRest, LeaveEmpty,
                  LeaveTell, LeaveClear, LeaveDrop, LeaveDone, MediaConn, MediaCheck,
                  MediaSet, At
    <3>3. sessions[t].participants[v].sender = conns[v].sender
      BY <1>1, <3>1, <3>2, SenderOf
    <3>4. conns'[v].sender = conns[v].sender
      <4>1. CASE v = u /\ Cleanup(k) /\ Live(k)
        <5>1. conns[u].session = None
          <6>1. CASE conns[u].session # None
            <7>1. Carry(k, "leave_remove", conns[u], "closed", {})
              BY <4>1, <6>1 DEF Cleanup
            <7>. QED  BY <1>1, <1>7, <7>1, CarryFrame
          <6>. QED  BY <6>1
        <5>2. AsSeen
          BY <1>1, <4>1 DEF Stage, OnCalm, CalmPcs, Cleanup, At
        <5>. QED  BY <1>1, <3>1, <4>1, <5>1, <5>2, NoneAssumption DEF AsSeen, Looks
      <4>. QED  BY <1>4, <2>2, <4>1
    <3>. QED  BY <3>1, <3>3, <3>4
  <2>. QED  BY <2>3, <2>4, <2>5, <2>6
<1>. QED  BY <1>6, <1>7

\* The client of a socket hears what its own handler replies, and from others
\* that its session is gone.
LEMMA ToldBy ==
    ASSUME OneIInv, NEW k \in Sockets, Wake(k) \/ Run(k), NEW j \in Sockets
    PROVE  \/ told'[j] \in {told[j], None}
           \/ /\ j = k /\ (CreateReply(k) \/ JoinReply(k))
              /\ told'[k] = task[k].arg
<1>. USE DEF TypeOK
<1>1. TypeOK
  BY DEF OneIInv, IInv
<1>2. CASE CreateReply(k) \/ JoinReply(k)
  <2>1. Run(k) /\ task[k].pc \in CreatePcs \cup JoinPcs
    BY <1>2 DEF Run, CreateReply, JoinReply, At, CreatePcs, JoinPcs
  <2>2. Live(k) /\ Online(UserOf[k])
    BY <2>1, AtEntering
  <2>. QED  BY <1>1, <1>2, <2>2 DEF CreateReply, JoinReply, Reply, Live
<1>3. CASE LeaveTell(k) \/ ReceiveLeave(k) \/ Cleanup(k)
  BY <1>1, <1>3 DEF LeaveTell, ReceiveLeave, Cleanup
<1>4. CASE UNCHANGED told
  BY <1>4
<1>. QED
  BY <1>2, <1>3, <1>4
     DEF Wake, Run, AuthFail, Register, Break, ReceiveCreate, ReceiveJoin,
         ReceiveNewMedia, Takeover, Greet, CreateCheck, CreateInsert, CreateConn,
         JoinCheck, JoinLookup, JoinInsert, JoinConn, LeaveConn, LeaveRemove,
         LeaveRest, LeaveEmpty, LeaveClear, LeaveDrop, LeaveDone, MediaConn,
         MediaCheck, MediaSet

LEMMA NewUntoldStep ==
    ASSUME OneIInv, NEW k \in Sockets, Wake(k) \/ Run(k)
    PROVE  NewUntold'
<1>1. TypeOK /\ FrameOK(k) /\ NewUntold
  BY DEF OneIInv, IInv, TypeOK
<1>2. task'[k].pc # "auth"
  BY <1>1, RunLabel, WakeBusy, GiveUp DEF Busy, Running
<1>3. ASSUME NEW j \in Sockets, At(j, "auth")' PROVE told'[j] = None
  <2>1. j # k /\ At(j, "auth")
    BY <1>1, <1>2, <1>3, OthersKept DEF At
  <2>. QED  BY <1>1, <2>1, ToldBy DEF NewUntold
<1>. QED  BY <1>3 DEF NewUntold

\* Whose connections a step moves.
LEMMA MovedBy ==
    ASSUME OneIInv, NEW k \in Sockets, Wake(k) \/ Run(k), NEW v \in Users
    PROVE  \/ conns'[v].session = conns[v].session
           \/ v = UserOf[k] /\ (Register(k) \/ Live(k))
           \/ LeaveClear(k) /\ v \in task[k].rest
<1>. USE DEF TypeOK
<1>1. TypeOK /\ UserOf[k] \in Users
  BY UserOfAssumption DEF OneIInv, IInv
<1>2. ASSUME NEW u, NEW s, conns' = SetSession(u, s), v # u
      PROVE  conns'[v].session = conns[v].session
  BY <1>1, <1>2 DEF SetSession
<1>3. CASE Register(k) \/ Cleanup(k)
  BY <1>1, <1>3 DEF Register, Cleanup
<1>4. CASE Takeover(k)
  <2>1. Run(k) /\ At(k, "takeover")
    BY <1>4 DEF Run, Takeover
  <2>2. Live(k)
    BY <2>1, AtWork DEF Stage, OnTakeover
  <2>. QED  BY <1>2, <1>4, <2>2 DEF Takeover
<1>5. CASE CreateConn(k) \/ JoinConn(k)
  <2>1. Run(k) /\ task[k].pc \in CreatePcs \cup JoinPcs
    BY <1>5 DEF Run, CreateConn, JoinConn, At, CreatePcs, JoinPcs
  <2>. QED  BY <1>2, <1>5, <2>1, AtEntering DEF CreateConn, JoinConn
<1>6. CASE LeaveClear(k)
  BY <1>2, <1>6 DEF LeaveClear
<1>7. CASE LeaveDone(k)
  <2>1. Run(k) /\ At(k, "leave_done")
    BY <1>7 DEF Run, LeaveDone
  <2>2. OnDone(k) /\ OnLeave(k)
    BY <2>1, AtWork DEF Stage, LeavePcs, At
  <2>. QED  BY <1>2, <1>7, <2>2 DEF LeaveDone, OnDone, OnLeave
<1>8. CASE UNCHANGED conns
  BY <1>8
<1>. QED
  BY <1>3, <1>4, <1>5, <1>6, <1>7, <1>8
     DEF Wake, Run, AuthFail, Break, ReceiveCreate, ReceiveJoin, ReceiveLeave,
         ReceiveNewMedia, Receive, Greet, CreateCheck, CreateInsert, CreateReply,
         JoinCheck, JoinLookup, JoinInsert, JoinReply, Reply, LeaveConn,
         LeaveRemove, LeaveRest, LeaveEmpty, LeaveTell, LeaveDrop, MediaConn,
         MediaCheck, MediaSet

\* The truth that another client has been told stays true.
LEMMA TruthOfOthers ==
    ASSUME OneIInv, TypeOK', NEW k \in Sockets, Wake(k) \/ Run(k),
           NEW j \in Sockets, j # k, Live(j)', told'[j] # None, ~Switching(j)'
    PROVE  conns'[UserOf[j]].session = told'[j]
<1> DEFINE v == UserOf[j]
<1>1. TypeOK /\ v \in Users /\ Truth
  BY UserOfAssumption DEF OneIInv, IInv
<1>2. told'[j] = told[j] /\ told[j] # None
  BY ToldBy
<1>3. Live(j)
  BY <1>1, SendersOfConns, NoneAssumption DEF Live
<1>4. ~Switching(j)
  BY <1>1, OthersKept DEF Switching
<1>5. conns[v].session = told[j]
  BY <1>1, <1>2, <1>3, <1>4 DEF Truth
<1>6. ~(v = UserOf[k] /\ (Register(k) \/ Live(k)))
  <2>1. CASE v = UserOf[k] /\ Register(k)
    BY <1>1, <2>1 DEF Register, Live, TypeOK
  <2>2. CASE v = UserOf[k] /\ Live(k)
    BY <1>3, <2>2 DEF Live
  <2>. QED  BY <2>1, <2>2
<1>7. ~(LeaveClear(k) /\ v \in task[k].rest)
  <2>1. SUFFICES ASSUME LeaveClear(k), v \in task[k].rest PROVE FALSE
    OBVIOUS
  <2>2. Run(k) /\ At(k, "leave_clear")
    BY <2>1 DEF Run, LeaveClear
  <2>3. OnClear(k)
    BY <2>2, AtWork DEF Stage
  <2>. QED  BY <1>2, <1>3, <2>1, <2>3 DEF OnClear
<1>. QED  BY <1>1, <1>2, <1>5, <1>6, <1>7, MovedBy

\* Whoever is leaving because its socket has closed is not connected.
LEMMA ClosedOffline ==
    ASSUME OneIInv, NEW k \in Sockets, Run(k), task[k].pc \in LeavePcs,
           task[k].ret = "closed"
    PROVE  ~Online(UserOf[k])
<1>1. Stage(k) /\ UserOf[k] \in Users
  BY AtWork
<1>2. UserOf[k] \notin Around(k)
  BY DEF Around
<1>3. task[k].pc # "leave_done"
  BY <1>1 DEF Stage, OnDone, At
<1>. QED
  BY <1>1, <1>2, <1>3
     DEF Stage, LeavePcs, At, OnRemove, OnOut, OnClear, OnDrop, Looks

\* A departure says nothing new to the client that leaves.
LEMMA TruthOfLeaver ==
    ASSUME OneIInv, TypeOK', NEW k \in Sockets, Run(k), task[k].pc \in LeavePcs,
           Live(k)', told'[k] # None, ~Switching(k)'
    PROVE  FALSE
<1>1. /\ TypeOK /\ FrameOK(k) /\ Aim(k) /\ UserOf[k] \in Users
      /\ task[k].ret \in {"create_insert", "join_lookup", "idle", "closed"}
  BY AtWork, AtLeave
<1>2. ~CreateReply(k) /\ ~JoinReply(k) /\ ~Cleanup(k) /\ ~Register(k)
  BY DEF CreateReply, JoinReply, Cleanup, Register, At, LeavePcs
<1>3. told'[k] = told[k]
  BY <1>2, ToldBy
<1>4. Live(k)
  BY <1>1, <1>2, SendersOfConns DEF Live
<1>5. task[k].ret \in {"create_insert", "join_lookup"}
  <2>1. task[k].ret # "idle"
    BY <1>1, <1>3 DEF Aim
  <2>2. task[k].ret # "closed"
    BY <1>1, <1>4, ClosedOffline, NoneAssumption DEF Live, Online, NoHandle
  <2>. QED  BY <1>1, <2>1, <2>2
<1>6. CASE LeaveDone(k)
  <2>1. task'[k].pc \in {"create_insert", "join_lookup"}
    BY <1>1, <1>5, <1>6, EnterFrame DEF LeaveDone
  <2>. QED  BY <2>1 DEF Switching, CreatePcs, JoinPcs
<1>7. CASE ~LeaveDone(k)
  <2>1. \/ \E l \in LeavePcs :
              Goto(k, l) \/ \E h, m : Carry(k, l, h, task[k].ret, m)
    BY <1>5, <1>7
       DEF Run, LeavePcs, At, Takeover, Greet, Cleanup, CreateCheck, CreateInsert,
           CreateConn, CreateReply, JoinCheck, JoinLookup, JoinInsert, JoinConn,
           JoinReply, LeaveConn, LeaveRemove, LeaveRest, LeaveEmpty, LeaveTell,
           LeaveClear, LeaveDrop, MediaConn, MediaCheck, MediaSet, LeaveReturn
  <2>2. task'[k].pc \in LeavePcs /\ task'[k].ret = task[k].ret
    BY <1>1, <2>1, GotoFrame, CarryFrame
  <2>. QED  BY <1>5, <2>2 DEF Switching
<1>. QED  BY <1>6, <1>7

\* Nor does any other step but the reply, which says where the user now is.
LEMMA TruthOfOwner ==
    ASSUME OneIInv, TypeOK', NEW k \in Sockets, Wake(k) \/ Run(k),
           Live(k)', told'[k] # None, ~Switching(k)'
    PROVE  conns'[UserOf[k]].session = told'[k]
<1> DEFINE u == UserOf[k]
<1>1. TypeOK /\ u \in Users /\ Truth /\ NewUntold /\ FrameOK(k)
  BY UserOfAssumption DEF OneIInv, IInv, TypeOK
<1>2. CASE CreateReply(k) \/ JoinReply(k)
  <2>1. /\ Run(k) /\ task[k].pc \in {"create_reply", "join_reply"}
        /\ UNCHANGED conns
    BY <1>2 DEF Run, CreateReply, JoinReply, At, Reply
  <2>2. conns[u].session = RoomsMade(k)[u] /\ task[k].arg \in SessionIds
    BY <1>1, <2>1, AtWork DEF Stage, At, Looks, FrameOK
  <2>3. RoomsMade(k)[u] = task[k].arg
    BY <1>1, AtWork, LeftTypes, <2>1 DEF RoomsMade, Placed
  <2>4. Live(k) /\ Online(u)
    BY <2>1, AtEntering DEF CreatePcs, JoinPcs
  <2>5. told'[k] = task[k].arg
    BY <1>1, <1>2, <2>4 DEF CreateReply, JoinReply, Reply, Live, TypeOK
  <2>. QED  BY <2>1, <2>2, <2>3, <2>5
<1>3. CASE ~CreateReply(k) /\ ~JoinReply(k)
  <2>1. told[k] # None /\ told'[k] = told[k]
    BY <1>3, ToldBy
  <2>2. CASE Wake(k)
    <3>1. task[k].pc = "idle" /\ ~Register(k)
      BY <1>1, <2>1, <2>2
         DEF Wake, AuthFail, Register, Break, ReceiveCreate, ReceiveJoin, ReceiveLeave,
             ReceiveNewMedia, Receive, NewUntold, At
    <3>2. UNCHANGED conns
      BY <2>2, <3>1
         DEF Wake, AuthFail, Register, Break, ReceiveCreate, ReceiveJoin, ReceiveLeave,
             ReceiveNewMedia, Receive, At
    <3>3. Live(k) /\ ~Switching(k)
      BY <3>1, <3>2 DEF Live, Switching, CreatePcs, JoinPcs, LeavePcs
    <3>. QED  BY <1>1, <2>1, <3>2, <3>3 DEF Truth
  <2>3. CASE Run(k) /\ task[k].pc \in LeavePcs
    BY <2>3, TruthOfLeaver
  <2>4. CASE Takeover(k) \/ Greet(k) \/ Cleanup(k)
    <3>1. CASE Takeover(k)
      BY <2>1, <3>1, AtWork DEF Run, Takeover, Stage, OnTakeover
    <3>2. CASE Greet(k)
      BY <2>1, <3>2, AtWork DEF Run, Greet, Stage, OnGreet
    <3>3. CASE Cleanup(k)
      BY <1>1, <2>1, <3>3 DEF Cleanup, TypeOK
    <3>. QED  BY <2>4, <3>1, <3>2, <3>3
  <2>5. CASE LeaveConn(k)
    <3>1. Run(k) /\ At(k, "leave_conn") /\ UNCHANGED conns
      BY <2>5 DEF Run, LeaveConn
    <3>2. /\ Aim(k) /\ task[k].ret # "closed"
          /\ task[k].ret \in {"create_insert", "join_lookup", "idle", "closed"}
      BY <3>1, AtWork DEF Stage, FrameOK, At
    <3>3. task[k].ret \in {"create_insert", "join_lookup"}
      BY <2>1, <3>2 DEF Aim
    <3>4. \/ Enter(k, task[k].ret, task[k].arg)
          \/ Carry(k, "leave_remove", conns[u], task[k].ret, {})
      BY <2>5 DEF LeaveConn
    <3>5. \/ task'[k].pc \in {"create_insert", "join_lookup"}
          \/ task'[k].pc = "leave_remove" /\ task'[k].ret = task[k].ret
      BY <1>1, <3>3, <3>4, EnterFrame, CarryFrame
    <3>. QED  BY <3>3, <3>5 DEF Switching, CreatePcs, JoinPcs, LeavePcs
  <2>6. CASE CreateInsert(k) \/ CreateConn(k) \/ JoinLookup(k) \/ JoinInsert(k) \/ JoinConn(k)
    <3>1. \E l \in CreatePcs \cup JoinPcs : Goto(k, l)
      BY <2>6, JoinFinds
         DEF CreateInsert, CreateConn, JoinInsert, JoinConn, CreatePcs, JoinPcs
    <3>2. task'[k].pc \in CreatePcs \cup JoinPcs
      BY <1>1, <3>1, GotoFrame
    <3>. QED  BY <3>2 DEF Switching
  <2>7. CASE \/ CreateCheck(k) \/ JoinCheck(k) \/ MediaConn(k) \/ MediaCheck(k)
             \/ MediaSet(k)
    <3>1. /\ task[k].pc \in {"create_check", "join_check", "media_conn",
                             "media_check", "media_set"}
          /\ UNCHANGED conns
      BY <2>7 DEF CreateCheck, JoinCheck, MediaConn, MediaCheck, MediaSet, At
    <3>2. Live(k) /\ ~Switching(k)
      BY <3>1 DEF Live, Switching, CreatePcs, JoinPcs, LeavePcs
    <3>. QED  BY <1>1, <2>1, <3>1, <3>2 DEF Truth
  <2>. QED
    BY <1>3, <2>2, <2>3, <2>4, <2>5, <2>6, <2>7
       DEF Run, LeavePcs, LeaveRemove, LeaveRest, LeaveEmpty, LeaveTell, LeaveClear,
           LeaveDrop, LeaveDone, At
<1>. QED  BY <1>2, <1>3

LEMMA TruthStep ==
    ASSUME OneIInv, TypeOK', NEW k \in Sockets, Wake(k) \/ Run(k)
    PROVE  Truth'
BY TruthOfOthers, TruthOfOwner DEF Truth

-----------------------------------------------------------------------------
(* The invariant, and what it gives. *)

LEMMA OneInit == SeenInit => OneIInv
<1>. SUFFICES ASSUME SeenInit PROVE OneIInv
  OBVIOUS
<1>. USE DEF SeenInit
<1>1. IInv
  BY IInvInit
<1>2. \A k \in Sockets : /\ task[k].pc = "auth" /\ ~Busy(k) /\ told[k] = None
                         /\ ~At(k, "takeover") /\ ~At(k, "leave_remove")
  BY DEF Init, NewFrame, Busy, Running, At
<1>3. Quiet /\ OneBusy /\ NewUntold /\ Truth
  BY <1>2 DEF Quiet, OneBusy, NewUntold, Truth
<1>4. /\ \A t \in SessionIds : sessions[t].host = None /\ Members(t) = {}
      /\ \A v \in Users : conns[v].session = None /\ ~Online(v)
  BY DEF Init, NoSession, Members, NoHandle, Online
<1>5. seen = [host   |-> [s \in SessionIds |-> None],
              room   |-> [u \in Users |-> None], online |-> {}]
  BY <1>4 DEF Membership
<1>6. SeenOK
  BY <1>5 DEF SeenOK, Promise!Membership
<1>7. AsSeen
  BY <1>4, <1>5, NoneAssumption DEF AsSeen, Looks
<1>8. Senders
  BY <1>4 DEF Senders
<1>. QED  BY <1>1, <1>2, <1>3, <1>6, <1>7, <1>8 DEF OneIInv

LEMMA OneStutter ==
    ASSUME OneIInv, UNCHANGED <<vars, seen>>
    PROVE  OneIInv'
<1>1. UNCHANGED <<sessions, conns, task, told, seen>>
  BY DEF vars
<1>2. IInv'
  BY IInvNext DEF OneIInv
<1>3. OneBusy' /\ (Quiet' => Quiet)
  BY <1>1 DEF OneIInv, OneBusy, Quiet, Busy
<1>4. SeenOK'
  BY <1>1 DEF OneIInv, SeenOK, Promise!Membership
<1>5. Quiet' => AsSeen'
  BY <1>1, <1>3, AsSeenKept, SameSessions, SameConns DEF OneIInv
<1>6. \A k \in Sockets : Busy(k)' => Stage(k)'
  BY <1>1, StageKept DEF OneIInv, Busy
<1>7. Senders'
  BY <1>1 DEF OneIInv, Senders, Handing, Members, At
<1>8. Truth' /\ NewUntold'
  BY <1>1 DEF OneIInv, Truth, NewUntold, Live, Switching, At
<1>. QED  BY <1>2, <1>3, <1>4, <1>5, <1>6, <1>7, <1>8 DEF OneIInv

LEMMA OneNext ==
    ASSUME Workers = 1, OneIInv, [SeenNext]_<<vars, seen>>
    PROVE  OneIInv' /\ OneOperation
<1>1. CASE UNCHANGED <<vars, seen>>
  BY <1>1, OneStutter DEF OneOperation
<1>2. CASE SeenNext
  <2>1. PICK k \in Sockets : Wake(k) \/ Run(k)
    BY <1>2 DEF SeenNext, Next
  <2>2. seen' = IF Quiet' THEN Membership' ELSE seen
    BY <1>2 DEF SeenNext
  <2>3. TypeOK /\ OneBusy
    BY DEF OneIInv, IInv
  <2>4. IInv'
    BY <1>2, IInvNext DEF OneIInv, SeenNext
  <2>5. TypeOK' /\ HostPresent'
    BY <2>4 DEF IInv
  <2>6. /\ OneOperation /\ SeenOK' /\ (Quiet' => AsSeen')
        /\ \A j \in Sockets : Busy(j)' => Stage(j)'
    BY <2>1, <2>2, <2>5, SeenStep
  <2>7. OneBusy'
    BY <2>1, <2>3, OneBusyStep
  <2>8. Senders'
    BY <2>1, <2>5, SendersWake, SendersRun
  <2>9. Truth' /\ NewUntold'
    BY <2>1, <2>5, TruthStep, NewUntoldStep
  <2>. QED  BY <2>4, <2>6, <2>7, <2>8, <2>9 DEF OneIInv
<1>. QED  BY <1>1, <1>2

LEMMA OneInvariant == ASSUME Workers = 1 PROVE SeenSpec => []OneIInv
<1>1. OneIInv /\ [SeenNext]_<<vars, seen>> => OneIInv'
  BY OneNext
<1>. QED  BY <1>1, OneInit, PTL DEF SeenSpec

\* No ghosts with one worker: between two handlers every entry in a session is
\* that of its user's live connection and names its channel, and every
\* connection that has a session is in it, whatever reconnections, closed
\* sockets, hosts that leave and switches came before (CHANGELOG.md:274-277).
THEOREM OneWorkerNoGhosts == ASSUME Workers = 1 PROVE SeenSpec => []NoGhosts
<1>1. OneIInv => NoGhosts
  <2>. SUFFICES ASSUME OneIInv, Quiet PROVE NoGhosts
    BY DEF NoGhosts
  <2>1. AsSeen /\ SeenOK /\ TypeOK
    BY DEF OneIInv, IInv
  <2>2. ASSUME NEW s \in SessionIds, NEW u \in Members(s)
        PROVE  conns[u].session = s /\ MemberVia(s, u, conns[u].sender)
    BY <2>1, <2>2, SenderAtRest DEF AsSeen, Looks, MemberVia
  <2>3. ASSUME NEW u \in Users, conns[u].session # None
        PROVE  u \in Members(conns[u].session)
    BY <2>1, <2>3, ConnType DEF AsSeen, Looks
  <2>. QED  BY <2>2, <2>3 DEF NoGhosts
<1>. QED  BY <1>1, OneInvariant, PTL

\* What a client was told is true with one worker: between two handlers a
\* connected client that was last told it is in a session is in it.
THEOREM OneWorkerToldTruth == ASSUME Workers = 1 PROVE SeenSpec => []ToldTruth
<1>1. OneIInv => ToldTruth
  <2>. SUFFICES ASSUME OneIInv, Quiet, NEW k \in Sockets, Live(k), told[k] # None
                PROVE  conns[UserOf[k]].session = told[k]
    BY DEF ToldTruth
  <2>1. ~Busy(k) /\ Truth
    BY DEF Quiet, OneIInv
  <2>2. ~Switching(k)
    BY <2>1 DEF Switching, Busy, Running, CreatePcs, JoinPcs, LeavePcs
  <2>. QED  BY <2>1, <2>2 DEF Truth
<1>. QED  BY <1>1, OneInvariant, PTL

\* With one worker, for any users, sockets and session ids, every handler that
\* ends has done what one operation of RelayMembership does, all of it and
\* nothing else: the relay implements it.
THEOREM OneWorkerImplements == ASSUME Workers = 1 PROVE SeenSpec => Implements
<1>1. SeenInit => Promise!Init
  <2>. SUFFICES ASSUME SeenInit PROVE Promise!Init
    OBVIOUS
  <2>1. /\ \A t \in SessionIds : sessions[t].host = None
        /\ \A v \in Users : conns[v].session = None /\ ~Online(v)
    BY DEF SeenInit, Init, NoSession, NoHandle, Online
  <2>2. seen = [host   |-> [s \in SessionIds |-> None],
                room   |-> [u \in Users |-> None], online |-> {}]
    BY <2>1 DEF SeenInit, Membership
  <2>. QED  BY <2>2 DEF Promise!Init
<1>2. OneIInv /\ [SeenNext]_<<vars, seen>> => [Promise!Next]_(Promise!vars)
  <2>1. seen' = seen => UNCHANGED Promise!vars
    BY DEF Promise!vars
  <2>. QED  BY <2>1, OneNext DEF OneOperation
<1>. QED  BY <1>1, <1>2, OneInvariant, PTL DEF SeenSpec, Implements, Promise!Spec
=============================================================================
