---------------------------- MODULE RelaySessions ----------------------------
(***************************************************************************)
(* The watch-session core of the relay server (relay-server/src):          *)
(* registration and takeover of connections, create, join, leave, change   *)
(* of media, and the cleanup of a closed socket.                           *)
(*                                                                         *)
(* A socket is one tokio task.  Between two messages it awaits; a handler  *)
(* contains no await, so a worker thread runs it to its end, but handlers  *)
(* on different workers interleave between any two accesses to the shared  *)
(* DashMaps.  Every action below is one such access (or a few accesses     *)
(* made under one lock that excludes everybody else), and task[k].pc names *)
(* the access socket k makes next.                                         *)
(***************************************************************************)
EXTENDS Naturals, FiniteSets

CONSTANTS Users,       \* Plex usernames
          Sockets,     \* WebSockets; each one also stands for its channel
          SessionIds,  \* session ids the clients name in their messages
          UserOf,      \* the user whose token a socket presents
          Workers,     \* worker threads of the tokio runtime
          None         \* Rust's None

ASSUME UserOfAssumption == UserOf \in [Sockets -> Users]
ASSUME WorkersAssumption == Workers \in Nat \ {0}
ASSUME NoneAssumption == None \notin SessionIds \cup Sockets \cup Users

VARIABLES sessions,   \* AppState.sessions
          conns,      \* AppState.connections
          task,       \* what the task of each socket is doing
          told        \* the session each client last heard it is in

vars == <<sessions, conns, task, told>>

-----------------------------------------------------------------------------
(* The data. *)

\* A connection that is not in the map, or a local that is not in use.
NoHandle == [session |-> None, sender |-> None]

\* ConnectionHandle, of which the username is the key of the map.
Handle == [session : SessionIds \cup {None}, sender : Sockets]

\* Participant, without its thumbnail and playback state.
Participant == [isHost : BOOLEAN, sender : Sockets]

\* Session; `media` stands for who set the media fields last.
Roster  == UNION {[P -> Participant] : P \in SUBSET Users}
Session == [host : Users, media : Users, participants : Roster]

NoSession == [host |-> None, media |-> None,
              participants |-> [u \in {} |-> None]]

Exists(s)  == sessions[s] # NoSession
Members(s) == DOMAIN sessions[s].participants

\* The participants of s with u's entry inserted (or overwritten), or removed.
WithMember(s, u, p) ==
    [v \in Members(s) \cup {u} |->
        IF v = u THEN p ELSE sessions[s].participants[v]]
WithoutMember(s, u) ==
    [v \in Members(s) \ {u} |-> sessions[s].participants[v]]

\* u's entry in s carries channel k.
MemberVia(s, u, k) ==
    u \in Members(s) /\ sessions[s].participants[u].sender = k

Online(u) == conns[u] # NoHandle
Live(k)   == conns[UserOf[k]].sender = k

\* The connections after u's entry, if there is one, is moved to session s.
SetSession(u, s) ==
    IF Online(u) THEN [conns EXCEPT ![u].session = s] ELSE conns

-----------------------------------------------------------------------------
(* The control. *)

Awaiting == {"auth", "idle", "closed"}

Running == {"takeover", "greet", "cleanup",
            "create_check", "create_insert", "create_conn", "create_reply",
            "join_check", "join_lookup", "join_insert", "join_conn",
            "join_reply", "media_conn", "media_check", "media_set",
            "leave_conn", "leave_remove", "leave_rest", "leave_empty",
            "leave_tell", "leave_clear", "leave_drop", "leave_done"}

\* arg: the session id of the message in hand; handle: the connection that
\* was replaced or is leaving; ret: the caller of leave_session_inner; rest:
\* `remaining` of leave_session_inner.
Frame == [pc : Awaiting \cup Running, arg : SessionIds \cup {None},
          handle : Handle \cup {NoHandle},
          ret : {"create_insert", "join_lookup", "idle", "closed"},
          rest : SUBSET Users]

\* The locals of a call that starts with s, and none of anybody else's.
NewFrame(label, s) == [pc |-> label, arg |-> s, handle |-> NoHandle,
                       ret |-> "idle", rest |-> {}]

At(k, label)       == task[k].pc = label
Goto(k, label)     == task' = [task EXCEPT ![k].pc = label]
Enter(k, label, s) == task' = [task EXCEPT ![k] = NewFrame(label, s)]
Await(k)           == Enter(k, "idle", None)

\* The task goes on with its message and these locals.
Carry(k, label, h, r, m) ==
    task' = [task EXCEPT ![k] = [pc |-> label, arg |-> task[k].arg,
                                 handle |-> h, ret |-> r, rest |-> m]]

Busy(k) == task[k].pc \in Running

\* A worker thread is free to poll one more task.
WorkerFree == Cardinality({k \in Sockets : Busy(k)}) < Workers

\* A read guard on sessions[s] kept over several accesses: `session` in
\* join_session and in leave_session_inner.
Guarding(k, s) ==
    \/ At(k, "join_insert") /\ task[k].arg = s
    \/ task[k].pc \in {"leave_rest", "leave_empty"} /\ task[k].handle.session = s

\* A write to sessions[s] waits for every read guard on it.
Unguarded(s) == \A k \in Sockets : ~Guarding(k, s)

-----------------------------------------------------------------------------
(* Connection registration: handle_connection, until the reader loop.      *)

\* No valid auth message within ten seconds, or a token plex.tv rejects.
AuthFail(k) ==
    /\ At(k, "auth")
    /\ Goto(k, "closed")
    /\ UNCHANGED <<sessions, conns, told>>

Register(k) ==
    LET u == UserOf[k] IN
    /\ At(k, "auth")
    /\ WorkerFree
    /\ conns' = [conns EXCEPT ![u] = [session |-> None, sender |-> k]]
    /\ IF conns[u].session # None
       THEN Carry(k, "takeover", conns[u], "idle", {})
       ELSE Goto(k, "greet")
    /\ UNCHANGED <<sessions, told>>

\* Mutant: the new connection is not given the session.
TakeoverEntryOnly(k) ==
    LET u == UserOf[k]
        s == task[k].handle.session
    IN
    /\ At(k, "takeover")
    /\ sessions' = IF MemberVia(s, u, task[k].handle.sender)
                   THEN [sessions EXCEPT ![s].participants =
                            [@ EXCEPT ![u].sender = k]]
                   ELSE sessions
    /\ Enter(k, "greet", None)
    /\ UNCHANGED <<conns, told>>

\* The replaced connection's place in its session goes to this socket, if
\* the entry still carries the replaced channel.  The guards on the session,
\* the participant and the connection are all held at the last access.
Takeover(k) ==
    LET u == UserOf[k]
        s == task[k].handle.session
    IN
    /\ At(k, "takeover")
    /\ IF MemberVia(s, u, task[k].handle.sender)
       THEN /\ sessions' = [sessions EXCEPT ![s].participants =
                               [@ EXCEPT ![u].sender = k]]
            /\ conns' = SetSession(u, s)
       ELSE UNCHANGED <<sessions, conns>>
    /\ Enter(k, "greet", None)
    /\ UNCHANGED told

\* AuthOk and the pending invites are queued, the writer task is spawned.
Greet(k) ==
    /\ At(k, "greet")
    /\ Await(k)
    /\ UNCHANGED <<sessions, conns, told>>

-----------------------------------------------------------------------------
(* The reader loop: a message is handled only if the socket is still the   *)
(* live one when the message arrives.                                      *)

Receive(k, label, s) ==
    /\ At(k, "idle")
    /\ WorkerFree
    /\ Live(k)
    /\ Enter(k, label, s)
    /\ UNCHANGED <<sessions, conns>>

ReceiveCreate(k, s) == Receive(k, "create_check", s) /\ UNCHANGED told
ReceiveJoin(k, s)   == Receive(k, "join_check", s) /\ UNCHANGED told
ReceiveNewMedia(k)  == Receive(k, "media_conn", None) /\ UNCHANGED told

\* A client that leaves knows it is in no session any more.
ReceiveLeave(k) ==
    Receive(k, "leave_conn", None) /\ told' = [told EXCEPT ![k] = None]

\* The loop breaks: a replaced socket's message, a close frame, an error,
\* the idle timeout, the rate limit or a full writer channel.
Break(k) ==
    /\ At(k, "idle")
    /\ WorkerFree
    /\ Goto(k, "cleanup")
    /\ UNCHANGED <<sessions, conns, told>>

\* Mutant: a closed socket's user stays in its session.
CleanupNoLeave(k) ==
    /\ At(k, "cleanup")
    /\ conns' = IF Live(k) THEN [conns EXCEPT ![UserOf[k]] = NoHandle] ELSE conns
    /\ Goto(k, "closed")
    /\ told' = [told EXCEPT ![k] = None]
    /\ UNCHANGED sessions

\* The connection is removed unless another socket has replaced it.
Cleanup(k) ==
    LET u == UserOf[k] IN
    /\ At(k, "cleanup")
    /\ conns' = IF Live(k) THEN [conns EXCEPT ![u] = NoHandle] ELSE conns
    /\ IF Live(k) /\ conns[u].session # None
       THEN Carry(k, "leave_remove", conns[u], "closed", {})
       ELSE Goto(k, "closed")
    /\ told' = [told EXCEPT ![k] = None]
    /\ UNCHANGED sessions

-----------------------------------------------------------------------------
(* create_session *)

CreateCheck(k) ==
    /\ At(k, "create_check")
    /\ IF Exists(task[k].arg) THEN Await(k)
       ELSE Carry(k, "leave_conn", NoHandle, "create_insert", {})
    /\ UNCHANGED <<sessions, conns, told>>

CreateInsert(k) ==
    LET u == UserOf[k] IN
    /\ At(k, "create_insert")
    /\ Unguarded(task[k].arg)
    /\ sessions' = [sessions EXCEPT ![task[k].arg] =
            [host |-> u, media |-> u,
             participants |-> [v \in {u} |-> [isHost |-> TRUE, sender |-> k]]]]
    /\ Goto(k, "create_conn")
    /\ UNCHANGED <<conns, told>>

\* state.connections.get_mut(username): the entry of the user, whichever
\* socket it belongs to by now.
CreateConn(k) ==
    /\ At(k, "create_conn")
    /\ conns' = SetSession(UserOf[k], task[k].arg)
    /\ Goto(k, "create_reply")
    /\ UNCHANGED <<sessions, told>>

\* send_to_user: whichever socket the user is connected by now hears it.
Reply(k) ==
    LET u == UserOf[k] IN
    /\ told' = IF Online(u) THEN [told EXCEPT ![conns[u].sender] = task[k].arg]
                            ELSE told
    /\ Await(k)
    /\ UNCHANGED <<sessions, conns>>

CreateReply(k) == At(k, "create_reply") /\ Reply(k)

-----------------------------------------------------------------------------
(* join_session *)

\* Mutant: a user who switches sessions does not leave the old one.
JoinCheckNoLeave(k) ==
    /\ At(k, "join_check")
    /\ IF ~Exists(task[k].arg) \/ UserOf[k] \in Members(task[k].arg)
       THEN Await(k)
       ELSE Goto(k, "join_lookup")
    /\ UNCHANGED <<sessions, conns, told>>

JoinCheck(k) ==
    /\ At(k, "join_check")
    /\ IF ~Exists(task[k].arg) \/ UserOf[k] \in Members(task[k].arg)
       THEN Await(k)
       ELSE Carry(k, "leave_conn", NoHandle, "join_lookup", {})
    /\ UNCHANGED <<sessions, conns, told>>

\* The second lookup.  A session that has gone meanwhile ends the handler
\* without a reply; otherwise its guard is kept until the insertion.
JoinLookup(k) ==
    /\ At(k, "join_lookup")
    /\ IF Exists(task[k].arg) THEN Goto(k, "join_insert") ELSE Await(k)
    /\ UNCHANGED <<sessions, conns, told>>

JoinInsert(k) ==
    LET s == task[k].arg IN
    /\ At(k, "join_insert")
    /\ sessions' = [sessions EXCEPT ![s].participants =
            WithMember(s, UserOf[k], [isHost |-> FALSE, sender |-> k])]
    /\ Goto(k, "join_conn")
    /\ UNCHANGED <<conns, told>>

JoinConn(k) ==
    /\ At(k, "join_conn")
    /\ conns' = SetSession(UserOf[k], task[k].arg)
    /\ Goto(k, "join_reply")
    /\ UNCHANGED <<sessions, told>>

JoinReply(k) == At(k, "join_reply") /\ Reply(k)

-----------------------------------------------------------------------------
(* leave_session and leave_session_inner *)

LeaveConn(k) ==
    LET u == UserOf[k] IN
    /\ At(k, "leave_conn")
    /\ IF conns[u].session = None
       THEN Enter(k, task[k].ret, task[k].arg)
       ELSE Carry(k, "leave_remove", conns[u], task[k].ret, {})
    /\ UNCHANGED <<sessions, conns, told>>

\* leave_session_inner returns: leave_session goes on to the connection, the
\* disconnect path has nothing left to do.
LeaveReturn(k) ==
    IF task[k].ret = "closed" THEN Enter(k, "closed", None)
                              ELSE Goto(k, "leave_done")

LeaveRemove(k) ==
    LET u == UserOf[k]
        s == task[k].handle.session
    IN
    /\ At(k, "leave_remove")
    /\ IF MemberVia(s, u, task[k].handle.sender)
       THEN /\ sessions' = [sessions EXCEPT ![s].participants =
                               WithoutMember(s, u)]
            /\ Goto(k, "leave_rest")
       ELSE UNCHANGED sessions /\ LeaveReturn(k)
    /\ UNCHANGED <<conns, told>>

\* was_host compares names; host_username never changes in a session object.
WasHost(k) == sessions[task[k].handle.session].host = UserOf[k]

LeaveRest(k) ==
    /\ At(k, "leave_rest")
    /\ Carry(k, "leave_empty", task[k].handle, task[k].ret,
             IF WasHost(k) THEN Members(task[k].handle.session) ELSE {})
    /\ UNCHANGED <<sessions, conns, told>>

\* Mutant: a host who leaves others behind is treated like a guest.
LeaveEmptyAnyone(k) ==
    LET empty == Members(task[k].handle.session) = {} IN
    /\ At(k, "leave_empty")
    /\ \/ empty /\ Goto(k, "leave_drop")
       \/ ~empty /\ LeaveReturn(k)
    /\ UNCHANGED <<sessions, conns, told>>

\* A guest who leaves others behind only tells them so.
LeaveEmpty(k) ==
    LET empty == Members(task[k].handle.session) = {} IN
    /\ At(k, "leave_empty")
    /\ \/ empty /\ Goto(k, "leave_drop")
       \/ ~empty /\ WasHost(k) /\ Goto(k, "leave_tell")
       \/ ~empty /\ ~WasHost(k) /\ LeaveReturn(k)
    /\ UNCHANGED <<sessions, conns, told>>

\* Mutant: the participants are not told.
LeaveTellNobody(k) ==
    /\ At(k, "leave_tell")
    /\ Goto(k, IF task[k].rest = {} THEN "leave_drop" ELSE "leave_clear")
    /\ UNCHANGED <<sessions, conns, told>>

\* broadcast_to_session(SessionDestroyed)
LeaveTell(k) ==
    LET s == task[k].handle.session IN
    /\ At(k, "leave_tell")
    /\ told' = [c \in Sockets |->
            IF \E v \in Members(s) : MemberVia(s, v, c) THEN None ELSE told[c]]
    /\ Goto(k, IF task[k].rest = {} THEN "leave_drop" ELSE "leave_clear")
    /\ UNCHANGED <<sessions, conns>>

LeaveClear(k) ==
    /\ At(k, "leave_clear")
    /\ \E v \in task[k].rest :
        /\ conns' = IF conns[v].session = task[k].handle.session
                    THEN SetSession(v, None) ELSE conns
        /\ Carry(k, IF task[k].rest = {v} THEN "leave_drop" ELSE "leave_clear",
                 task[k].handle, task[k].ret, task[k].rest \ {v})
    /\ UNCHANGED <<sessions, told>>

LeaveDrop(k) ==
    LET s == task[k].handle.session IN
    /\ At(k, "leave_drop")
    /\ Unguarded(s)
    /\ sessions' = [sessions EXCEPT ![s] = NoSession]
    /\ LeaveReturn(k)
    /\ UNCHANGED <<conns, told>>

\* The connection is reset only if it is still the one that was read.
LeaveDone(k) ==
    LET u == UserOf[k] IN
    /\ At(k, "leave_done")
    /\ conns' = IF conns[u].sender = task[k].handle.sender
                THEN SetSession(u, None) ELSE conns
    /\ Enter(k, task[k].ret, task[k].arg)
    /\ UNCHANGED <<sessions, told>>

-----------------------------------------------------------------------------
(* handle_new_media *)

MediaConn(k) ==
    LET s == conns[UserOf[k]].session IN
    /\ At(k, "media_conn")
    /\ IF s = None THEN Await(k) ELSE Enter(k, "media_check", s)
    /\ UNCHANGED <<sessions, conns, told>>

\* A session that is gone passes the check.
MediaCheck(k) ==
    LET s == task[k].arg IN
    /\ At(k, "media_check")
    /\ IF Exists(s) /\ sessions[s].host # UserOf[k]
       THEN Await(k) ELSE Goto(k, "media_set")
    /\ UNCHANGED <<sessions, conns, told>>

MediaSet(k) ==
    LET s == task[k].arg IN
    /\ At(k, "media_set")
    /\ Unguarded(s)
    /\ sessions' = IF Exists(s) THEN [sessions EXCEPT ![s].media = UserOf[k]]
                                ELSE sessions
    /\ Await(k)
    /\ UNCHANGED <<conns, told>>

-----------------------------------------------------------------------------
(* The specification. *)

Init ==
    /\ sessions = [s \in SessionIds |-> NoSession]
    /\ conns    = [u \in Users |-> NoHandle]
    /\ task     = [k \in Sockets |-> NewFrame("auth", None)]
    /\ told     = [k \in Sockets |-> None]

\* What wakes a socket's task.
Wake(k) ==
    \/ AuthFail(k) \/ Register(k) \/ Break(k)
    \/ \E s \in SessionIds : ReceiveCreate(k, s) \/ ReceiveJoin(k, s)
    \/ ReceiveLeave(k) \/ ReceiveNewMedia(k)

\* What it then does without awaiting again.
Run(k) ==
    \/ Takeover(k) \/ Greet(k) \/ Cleanup(k)
    \/ CreateCheck(k) \/ CreateInsert(k) \/ CreateConn(k) \/ CreateReply(k)
    \/ JoinCheck(k) \/ JoinLookup(k) \/ JoinInsert(k) \/ JoinConn(k)
    \/ JoinReply(k)
    \/ LeaveConn(k) \/ LeaveRemove(k) \/ LeaveRest(k) \/ LeaveEmpty(k)
    \/ LeaveTell(k) \/ LeaveClear(k) \/ LeaveDrop(k) \/ LeaveDone(k)
    \/ MediaConn(k) \/ MediaCheck(k) \/ MediaSet(k)

Next == \E k \in Sockets : Wake(k) \/ Run(k)

Spec == Init /\ [][Next]_vars

-----------------------------------------------------------------------------
(* What holds whatever the number of workers. *)

\* Where a task is about to work on a session, its locals name one.
FrameOK(k) ==
    /\ \/ task[k].pc \in {"create_check", "create_insert", "create_conn",
                          "create_reply", "join_check", "join_lookup",
                          "join_insert", "join_conn", "join_reply",
                          "media_check", "media_set"}
       \/ task[k].ret \in {"create_insert", "join_lookup"}
       => task[k].arg \in SessionIds
    /\ task[k].pc \in {"takeover", "leave_remove", "leave_rest",
                       "leave_empty", "leave_tell", "leave_clear",
                       "leave_drop", "leave_done"}
       => task[k].handle.session \in SessionIds
    /\ task[k].pc = "leave_conn" => task[k].ret # "closed"

TypeOK ==
    /\ sessions \in [SessionIds -> Session \cup {NoSession}]
    /\ conns \in [Users -> Handle \cup {NoHandle}]
    /\ task \in [Sockets -> Frame]
    /\ told \in [Sockets -> SessionIds \cup {None}]
    /\ \A k \in Sockets : FrameOK(k)

\* A handler of user u has taken u out of s and has not returned yet.
Leaving(k, s) ==
    /\ task[k].pc \in {"leave_rest", "leave_empty", "leave_tell",
                       "leave_clear", "leave_drop"}
    /\ task[k].handle.session = s

\* A session in the map has its host among its participants, or a handler of
\* the host is on its way to removing it: no interleaving of
\* leave_session_inner with joins, creations and takeovers strands a session
\* that nobody can end.
HostPresent ==
    \A s \in SessionIds : Exists(s) =>
        LET h == sessions[s].host IN
        \/ h \in Members(s)
        \/ \E k \in Sockets : UserOf[k] = h /\ Leaving(k, s)

\* What Unguarded is for, and HostPresent rests on: a session stays in the map
\* under the handlers that keep a guard on it.
GuardedExists ==
    \A k \in Sockets, s \in SessionIds : Guarding(k, s) => Exists(s)

-----------------------------------------------------------------------------
(* What the server promises between handlers. *)

Quiet == \A k \in Sockets : ~Busy(k)

\* No ghosts: at rest, an entry in a session is that of its user's live
\* connection, and the connection knows (CHANGELOG.md:274-277); and the other
\* way round, a connection that has a session is in it.
NoGhosts ==
    Quiet =>
        /\ \A s \in SessionIds : \A u \in Members(s) :
                /\ conns[u].session = s
                /\ MemberVia(s, u, conns[u].sender)
        /\ \A u \in Users : conns[u].session # None =>
                u \in Members(conns[u].session)

\* u has not had two connections.
ConnectedOnce(u) ==
    \A j, k \in Sockets :
        UserOf[j] = u /\ UserOf[k] = u /\ ~At(j, "auth") /\ ~At(k, "auth")
            => j = k

\* However handlers interleave, only a user who has reconnected can leave a
\* ghost: an entry of any other user is that of its connection, whatever
\* reconnections, creations and removals of others it meets with.
GhostsReconnected ==
    Quiet => \A s \in SessionIds : \A u \in Members(s) :
                ConnectedOnce(u) =>
                    /\ conns[u].session = s
                    /\ MemberVia(s, u, conns[u].sender)

\* A connected client that was last told it is in a session is in it.
ToldTruth ==
    Quiet => \A k \in Sockets : Live(k) /\ told[k] # None =>
                conns[UserOf[k]].session = told[k]
=============================================================================
