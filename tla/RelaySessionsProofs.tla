------------------------- MODULE RelaySessionsProofs -------------------------
(* Proofs about RelaySessions and RelayLocks, for any users, sockets, ids,  *)
(* workers and shards.                                                      *)
EXTENDS RelaySessions, RelayLocks, TLAPS

-----------------------------------------------------------------------------
(* What the operators on the data return. *)

\* A function from users to participants is a roster.
LEMMA RosterIntro ==
    ASSUME NEW P \in SUBSET Users, NEW f \in [P -> Participant]
    PROVE  f \in Roster
BY DEF Roster

\* A roster's domain is a set of users and its values are participants.
LEMMA RosterElim ==
    ASSUME NEW f \in Roster
    PROVE  /\ DOMAIN f \subseteq Users
           /\ f \in [DOMAIN f -> Participant]
BY DEF Roster

\* The empty roster of NoSession is one.
LEMMA EmptyRoster == [u \in {} |-> None] \in Roster
<1>1. [u \in {} |-> None] \in [{} -> Participant]
  OBVIOUS
<1> QED BY <1>1, RosterIntro

\* Every entry of the sessions map, present or not, has a roster.
LEMMA SessionRoster ==
    ASSUME TypeOK, NEW s \in SessionIds
    PROVE  /\ sessions[s].participants \in Roster
           /\ Members(s) \subseteq Users
           /\ sessions[s].participants \in [Members(s) -> Participant]
<1>1. sessions[s].participants \in Roster
  <2>1. CASE sessions[s] \in Session
    BY <2>1 DEF Session
  <2>2. CASE sessions[s] = NoSession
    BY <2>2, EmptyRoster DEF NoSession
  <2> QED BY <2>1, <2>2 DEF TypeOK
<1> QED BY <1>1, RosterElim DEF Members

\* A session is in the map exactly if its host is a user.
LEMMA ExistsSession ==
    ASSUME TypeOK, NEW s \in SessionIds
    PROVE  /\ Exists(s) <=> sessions[s] \in Session
           /\ Exists(s) <=> sessions[s].host \in Users
           /\ Members(s) # {} => Exists(s)
<1>1. NoSession \notin Session /\ NoSession.host \notin Users
  BY NoneAssumption DEF NoSession, Session
<1>2. DOMAIN NoSession.participants = {}
  BY DEF NoSession
<1>3. sessions[s] \in Session \cup {NoSession}
  BY DEF TypeOK
<1> QED BY <1>1, <1>2, <1>3 DEF Exists, Members, Session

\* Inserting a participant gives a roster with one more member.
LEMMA WithMemberRoster ==
    ASSUME TypeOK, NEW s \in SessionIds, NEW u \in Users,
           NEW p \in Participant
    PROVE  /\ WithMember(s, u, p) \in Roster
           /\ DOMAIN WithMember(s, u, p) = Members(s) \cup {u}
<1>1. WithMember(s, u, p) \in [Members(s) \cup {u} -> Participant]
  BY SessionRoster DEF WithMember
<1>2. Members(s) \cup {u} \in SUBSET Users
  BY SessionRoster
<1> QED BY <1>1, <1>2, RosterIntro

\* Removing one gives a roster without that member.
LEMMA WithoutMemberRoster ==
    ASSUME TypeOK, NEW s \in SessionIds, NEW u \in Users
    PROVE  /\ WithoutMember(s, u) \in Roster
           /\ DOMAIN WithoutMember(s, u) = Members(s) \ {u}
<1>1. WithoutMember(s, u) \in [Members(s) \ {u} -> Participant]
  BY SessionRoster DEF WithoutMember
<1>2. Members(s) \ {u} \in SUBSET Users
  BY SessionRoster
<1> QED BY <1>1, <1>2, RosterIntro

\* A connection's session is an id or None, whether or not it is there.
LEMMA ConnType ==
    ASSUME TypeOK, NEW u \in Users
    PROVE  /\ conns[u] \in Handle \cup {NoHandle}
           /\ conns[u].session \in SessionIds \cup {None}
           /\ conns[u].sender \in Sockets \cup {None}
           /\ conns[u].session # None => conns[u] \in Handle
           /\ Online(u) <=> conns[u].sender # None
           /\ Online(u) => conns[u] \in Handle
BY NoneAssumption DEF TypeOK, Handle, NoHandle, Online

\* Moving a connection to a session keeps the map well typed.
LEMMA SetSessionType ==
    ASSUME TypeOK, NEW u \in Users, NEW s \in SessionIds \cup {None}
    PROVE  SetSession(u, s) \in [Users -> Handle \cup {NoHandle}]
BY ConnType DEF TypeOK, SetSession, Handle, Online

-----------------------------------------------------------------------------
(* Type correctness. *)

\* A task that goes on to another access keeps its locals.
LEMMA GotoType ==
    ASSUME TypeOK, NEW k \in Sockets, NEW l \in Awaiting \cup Running,
           Goto(k, l)
    PROVE  task' \in [Sockets -> Frame]
<1>1. task[k] \in Frame
  BY DEF TypeOK
<1>2. [task[k] EXCEPT !.pc = l] \in Frame
  BY <1>1 DEF Frame
<1>. QED  BY <1>2 DEF TypeOK, Goto

\* A task that starts or ends a call has a new frame.
LEMMA EnterType ==
    ASSUME TypeOK, NEW k \in Sockets, NEW l \in Awaiting \cup Running,
           NEW s \in SessionIds \cup {None}, Enter(k, l, s)
    PROVE  task' \in [Sockets -> Frame]
<1>1. NewFrame(l, s) \in Frame
  BY DEF NewFrame, Frame
<1> QED BY <1>1 DEF TypeOK, Enter

\* The locals of a task have the types of a frame, and name a session where
\* the task is about to work on one.
LEMMA FrameType ==
    ASSUME TypeOK, NEW k \in Sockets
    PROVE  /\ task[k] \in Frame
           /\ task[k].pc \in Awaiting \cup Running
           /\ task[k].arg \in SessionIds \cup {None}
           /\ task[k].handle \in Handle \cup {NoHandle}
           /\ task[k].handle.session \in SessionIds \cup {None}
           /\ task[k].ret \in {"create_insert", "join_lookup", "idle", "closed"}
           /\ task[k].ret \in Awaiting \cup Running
           /\ task[k].rest \in SUBSET Users
           /\ UserOf[k] \in Users
           /\ FrameOK(k)
BY UserOfAssumption
   DEF TypeOK, Frame, Handle, NoHandle, Awaiting, Running

LEMMA TypeInit == Init => TypeOK
<1> SUFFICES ASSUME Init PROVE TypeOK
  OBVIOUS
<1>1. NewFrame("auth", None) \in Frame
  BY DEF NewFrame, Frame, Awaiting, Running
<1>2. \A k \in Sockets : FrameOK(k)
  BY DEF Init, FrameOK, NewFrame
<1> QED BY <1>1, <1>2 DEF Init, TypeOK

\* The frames after a step of socket k are well typed.
FramesNext(k) ==
    /\ task' \in [Sockets -> Frame]
    /\ \A j \in Sockets : FrameOK(j)'

\* A step of one socket leaves the frames of the others as they are.
LEMMA FramesUpdate ==
    ASSUME TypeOK, NEW k \in Sockets, NEW f \in Frame,
           task' = [task EXCEPT ![k] = f], FrameOK(k)'
    PROVE  FramesNext(k)
BY DEF TypeOK, FrameOK, FramesNext

LEMMA GotoFrames ==
    ASSUME TypeOK, NEW k \in Sockets, NEW l \in Awaiting \cup Running,
           Goto(k, l), FrameOK(k)'
    PROVE  FramesNext(k)
<1>1. [task[k] EXCEPT !.pc = l] \in Frame
  BY DEF TypeOK, Frame
<1> QED BY <1>1, FramesUpdate DEF Goto

LEMMA EnterFrames ==
    ASSUME TypeOK, NEW k \in Sockets, NEW l \in Awaiting \cup Running,
           NEW s \in SessionIds \cup {None}, Enter(k, l, s), FrameOK(k)'
    PROVE  FramesNext(k)
<1>1. NewFrame(l, s) \in Frame
  BY DEF NewFrame, Frame
<1> QED BY <1>1, FramesUpdate DEF Enter

LEMMA CarryFrames ==
    ASSUME TypeOK, NEW k \in Sockets, NEW l \in Awaiting \cup Running,
           NEW h \in Handle \cup {NoHandle},
           NEW r \in {"create_insert", "join_lookup", "idle", "closed"},
           NEW m \in SUBSET Users, Carry(k, l, h, r, m), FrameOK(k)'
    PROVE  FramesNext(k)
<1>1. [pc |-> l, arg |-> task[k].arg, handle |-> h, ret |-> r, rest |-> m] \in Frame
  BY FrameType DEF Frame
<1> QED BY <1>1, FramesUpdate DEF Carry

\* The frame of the task that moved.
LEMMA GotoFrame ==
    ASSUME TypeOK, NEW k \in Sockets, NEW l, Goto(k, l)
    PROVE  /\ task'[k].pc = l
           /\ task'[k].arg = task[k].arg
           /\ task'[k].handle = task[k].handle
           /\ task'[k].ret = task[k].ret
           /\ task'[k].rest = task[k].rest
BY DEF TypeOK, Goto, Frame

LEMMA EnterFrame ==
    ASSUME TypeOK, NEW k \in Sockets, NEW l, NEW s, Enter(k, l, s)
    PROVE  /\ task'[k].pc = l
           /\ task'[k].arg = s
           /\ task'[k].handle = NoHandle
           /\ task'[k].ret = "idle"
           /\ task'[k].rest = {}
BY DEF TypeOK, Enter, NewFrame

LEMMA CarryFrame ==
    ASSUME TypeOK, NEW k \in Sockets, NEW l, NEW h, NEW r, NEW m,
           Carry(k, l, h, r, m)
    PROVE  /\ task'[k].pc = l
           /\ task'[k].arg = task[k].arg
           /\ task'[k].handle = h
           /\ task'[k].ret = r
           /\ task'[k].rest = m
BY DEF TypeOK, Carry

\* Together with the shared maps and what was told, that is the type.
LEMMA TypeIntro ==
    ASSUME NEW k \in Sockets, FramesNext(k),
           sessions' \in [SessionIds -> Session \cup {NoSession}],
           conns' \in [Users -> Handle \cup {NoHandle}],
           told' \in [Sockets -> SessionIds \cup {None}]
    PROVE  TypeOK'
BY DEF FramesNext, TypeOK

\* Every step of a task goes on with a well-typed frame.
LEMMA FramesStep ==
    ASSUME TypeOK, NEW k \in Sockets, Wake(k) \/ Run(k)
    PROVE  FramesNext(k)
<1> DEFINE u == UserOf[k]
<1> USE DEF Awaiting, Running
<1>f. /\ task[k] \in Frame
      /\ task[k].arg \in SessionIds \cup {None}
      /\ task[k].handle \in Handle \cup {NoHandle}
      /\ task[k].handle.session \in SessionIds \cup {None}
      /\ task[k].ret \in {"create_insert", "join_lookup", "idle", "closed"}
      /\ task[k].rest \in SUBSET Users
      /\ u \in Users
      /\ FrameOK(k)
  BY FrameType
<1>c. /\ conns[u] \in Handle \cup {NoHandle}
      /\ conns[u].session \in SessionIds \cup {None}
      /\ conns[u].session # None => conns[u] \in Handle
  BY <1>f, ConnType
<1>await. ASSUME Await(k) PROVE FramesNext(k)
  <2>1. Enter(k, "idle", None)
    BY <1>await DEF Await
  <2>2. FrameOK(k)'
    BY <2>1, EnterFrame DEF FrameOK
  <2> QED BY <2>1, <2>2, EnterFrames
<1>1. CASE AuthFail(k)
  BY <1>1, <1>f, GotoFrames, GotoFrame DEF AuthFail, FrameOK, At
<1>2. CASE Register(k)
  <2>1. CASE conns[u].session # None
    <3>1. Carry(k, "takeover", conns[u], "idle", {})
      BY <1>2, <2>1 DEF Register
    <3>2. FrameOK(k)'
      BY <1>c, <2>1, <3>1, CarryFrame DEF FrameOK
    <3> QED BY <1>c, <2>1, <3>1, <3>2, CarryFrames
  <2>2. CASE conns[u].session = None
    <3>1. Goto(k, "greet")
      BY <1>2, <2>2 DEF Register
    <3> QED BY <3>1, <1>2, <1>f, GotoFrames, GotoFrame DEF FrameOK, At, Register
  <2> QED BY <2>1, <2>2
<1>3. CASE Break(k)
  BY <1>3, <1>f, GotoFrames, GotoFrame DEF Break, FrameOK, At
<1>4. CASE \E s \in SessionIds : ReceiveCreate(k, s) \/ ReceiveJoin(k, s)
  <2>1. PICK s \in SessionIds :
            Enter(k, "create_check", s) \/ Enter(k, "join_check", s)
    BY <1>4 DEF ReceiveCreate, ReceiveJoin, Receive
  <2>2. FrameOK(k)'
    BY <2>1, EnterFrame DEF FrameOK
  <2> QED BY <2>1, <2>2, EnterFrames
<1>5. CASE ReceiveLeave(k) \/ ReceiveNewMedia(k)
  <2>1. Enter(k, "leave_conn", None) \/ Enter(k, "media_conn", None)
    BY <1>5 DEF ReceiveLeave, ReceiveNewMedia, Receive
  <2>2. FrameOK(k)'
    BY <2>1, EnterFrame DEF FrameOK
  <2> QED BY <2>1, <2>2, EnterFrames
<1>6. CASE Takeover(k)
  <2>1. Enter(k, "greet", None)
    BY <1>6 DEF Takeover
  <2>2. FrameOK(k)'
    BY <2>1, EnterFrame DEF FrameOK
  <2> QED BY <2>1, <2>2, EnterFrames
<1>7. CASE Greet(k) \/ CreateReply(k) \/ JoinReply(k) \/ MediaSet(k)
  BY <1>7, <1>await DEF Greet, CreateReply, JoinReply, MediaSet, Reply
<1>8. CASE Cleanup(k)
  <2>1. CASE Live(k) /\ conns[u].session # None
    <3>1. Carry(k, "leave_remove", conns[u], "closed", {})
      BY <1>8, <2>1 DEF Cleanup
    <3>2. FrameOK(k)'
      BY <1>c, <2>1, <3>1, CarryFrame DEF FrameOK
    <3> QED BY <1>c, <2>1, <3>1, <3>2, CarryFrames
  <2>2. CASE ~(Live(k) /\ conns[u].session # None)
    <3>1. Goto(k, "closed")
      BY <1>8, <2>2 DEF Cleanup
    <3> QED BY <3>1, <1>8, <1>f, GotoFrames, GotoFrame DEF FrameOK, At, Cleanup
  <2> QED BY <2>1, <2>2
<1>9. CASE CreateCheck(k) \/ JoinCheck(k)
  <2>1. CASE Await(k)
    BY <2>1, <1>await
  <2>2. CASE \E r \in {"create_insert", "join_lookup"} :
                Carry(k, "leave_conn", NoHandle, r, {})
    <3>1. PICK r \in {"create_insert", "join_lookup"} :
                Carry(k, "leave_conn", NoHandle, r, {})
      BY <2>2
    <3>2. FrameOK(k)'
      BY <1>9, <1>f, <3>1, CarryFrame DEF FrameOK, CreateCheck, JoinCheck, At
    <3> QED BY <3>1, <3>2, CarryFrames
  <2> QED BY <1>9, <2>1, <2>2 DEF CreateCheck, JoinCheck
<1>10. CASE CreateInsert(k) \/ CreateConn(k) \/ JoinInsert(k) \/ JoinConn(k)
  <2>1. PICK l \in {"create_conn", "create_reply", "join_conn", "join_reply"} :
            Goto(k, l)
    BY <1>10 DEF CreateInsert, CreateConn, JoinInsert, JoinConn
  <2>2. FrameOK(k)'
    BY <1>10, <1>f, <2>1, GotoFrame
    DEF FrameOK, CreateInsert, CreateConn, JoinInsert, JoinConn, At
  <2> QED BY <2>1, <2>2, GotoFrames
<1>11. CASE JoinLookup(k) \/ MediaCheck(k)
  <2>1. CASE Await(k)
    BY <2>1, <1>await
  <2>2. CASE \E l \in {"join_insert", "media_set"} : Goto(k, l)
    <3>1. PICK l \in {"join_insert", "media_set"} : Goto(k, l)
      BY <2>2
    <3>2. FrameOK(k)'
      BY <1>11, <1>f, <3>1, GotoFrame DEF FrameOK, JoinLookup, MediaCheck, At
    <3> QED BY <3>1, <3>2, GotoFrames
  <2> QED BY <1>11, <2>1, <2>2 DEF JoinLookup, MediaCheck
<1>12. CASE LeaveConn(k)
  <2>1. CASE conns[u].session = None
    <3>1. Enter(k, task[k].ret, task[k].arg)
      BY <1>12, <2>1 DEF LeaveConn
    <3>2. FrameOK(k)'
      BY <1>f, <3>1, EnterFrame DEF FrameOK
    <3> QED BY <1>f, <3>1, <3>2, EnterFrames
  <2>2. CASE conns[u].session # None
    <3>1. Carry(k, "leave_remove", conns[u], task[k].ret, {})
      BY <1>12, <2>2 DEF LeaveConn
    <3>2. FrameOK(k)'
      BY <1>c, <1>f, <2>2, <3>1, CarryFrame DEF FrameOK
    <3> QED BY <1>c, <1>f, <2>2, <3>1, <3>2, CarryFrames
  <2> QED BY <2>1, <2>2
<1>return. ASSUME LeaveReturn(k), task[k].handle.session \in SessionIds
           PROVE  FramesNext(k)
  <2>1. CASE Enter(k, "closed", None)
    <3>1. FrameOK(k)'
      BY <2>1, EnterFrame DEF FrameOK
    <3> QED BY <2>1, <3>1, EnterFrames
  <2>2. CASE Goto(k, "leave_done")
    <3>1. FrameOK(k)'
      BY <1>return, <1>f, <2>2, GotoFrame DEF FrameOK
    <3> QED BY <2>2, <3>1, GotoFrames
  <2> QED BY <1>return, <2>1, <2>2 DEF LeaveReturn
<1>13. CASE LeaveRemove(k) \/ LeaveEmpty(k) \/ LeaveDrop(k) \/ LeaveTell(k)
  <2>1. task[k].handle.session \in SessionIds
    BY <1>13, <1>f DEF FrameOK, LeaveRemove, LeaveEmpty, LeaveDrop, LeaveTell, At
  <2>2. CASE LeaveReturn(k)
    BY <2>1, <2>2, <1>return
  <2>3. CASE \E l \in {"leave_rest", "leave_drop", "leave_tell", "leave_clear"} :
                Goto(k, l)
    <3>1. PICK l \in {"leave_rest", "leave_drop", "leave_tell", "leave_clear"} :
                Goto(k, l)
      BY <2>3
    <3>2. FrameOK(k)'
      BY <1>f, <2>1, <3>1, GotoFrame DEF FrameOK
    <3> QED BY <3>1, <3>2, GotoFrames
  <2> QED BY <1>13, <2>2, <2>3 DEF LeaveRemove, LeaveEmpty, LeaveDrop, LeaveTell
<1>14. CASE LeaveRest(k) \/ LeaveClear(k)
  <2>1. task[k].handle.session \in SessionIds
    BY <1>14, <1>f DEF FrameOK, LeaveRest, LeaveClear, At
  <2>2. Members(task[k].handle.session) \in SUBSET Users
    BY <2>1, SessionRoster
  <2>3. PICK l \in {"leave_empty", "leave_drop", "leave_clear"},
             m \in SUBSET Users :
                Carry(k, l, task[k].handle, task[k].ret, m)
    <3>1. CASE LeaveRest(k)
      BY <3>1, <2>2 DEF LeaveRest
    <3>2. CASE LeaveClear(k)
      BY <3>2, <1>f DEF LeaveClear
    <3> QED BY <1>14, <3>1, <3>2
  <2>4. FrameOK(k)'
    BY <1>f, <2>1, <2>3, CarryFrame DEF FrameOK
  <2> QED BY <1>f, <2>3, <2>4, CarryFrames
<1>15. CASE LeaveDone(k)
  <2>1. Enter(k, task[k].ret, task[k].arg)
    BY <1>15 DEF LeaveDone
  <2>2. FrameOK(k)'
    BY <1>f, <2>1, EnterFrame DEF FrameOK
  <2> QED BY <1>f, <2>1, <2>2, EnterFrames
<1>16. CASE MediaConn(k)
  <2>1. CASE Await(k)
    BY <2>1, <1>await
  <2>2. CASE conns[u].session # None /\ Enter(k, "media_check", conns[u].session)
    <3>1. FrameOK(k)'
      BY <1>c, <2>2, EnterFrame DEF FrameOK
    <3> QED BY <1>c, <2>2, <3>1, EnterFrames
  <2> QED BY <1>16, <2>1, <2>2 DEF MediaConn
<1> QED
  BY <1>1, <1>2, <1>3, <1>4, <1>5, <1>6, <1>7, <1>8, <1>9, <1>10, <1>11,
     <1>12, <1>13, <1>14, <1>15, <1>16 DEF Wake, Run

\* Every step keeps the sessions map well typed: the insertion of a join is
\* made under a guard on a session that exists.
LEMMA SessionsStep ==
    ASSUME TypeOK, GuardedExists, NEW k \in Sockets, Wake(k) \/ Run(k)
    PROVE  sessions' \in [SessionIds -> Session \cup {NoSession}]
<1> DEFINE u == UserOf[k]
           g == task[k].arg
           s == task[k].handle.session
<1>f. u \in Users /\ FrameOK(k)
  BY FrameType
<1>1. CASE UNCHANGED sessions
  BY <1>1 DEF TypeOK
<1>2. CASE Takeover(k) /\ MemberVia(s, u, task[k].handle.sender)
  <2> DEFINE r == [sessions[s].participants EXCEPT ![u].sender = k]
  <2>1. s \in SessionIds
    BY <1>2, <1>f DEF Takeover, At, FrameOK
  <2>2. u \in Members(s) /\ sessions[s] \in Session
    BY <1>2, <2>1, ExistsSession DEF MemberVia
  <2>3. r \in [Members(s) -> Participant]
    <3>1. sessions[s].participants \in [Members(s) -> Participant]
      BY <2>1, <2>2, SessionRoster
    <3>2. [sessions[s].participants[u] EXCEPT !.sender = k] \in Participant
      BY <2>2, <3>1 DEF Participant
    <3>. QED  BY <3>1, <3>2
  <2>4. r \in Roster
    BY <2>1, <2>3, SessionRoster, RosterIntro
  <2>5. [sessions[s] EXCEPT !.participants = r] \in Session
    BY <2>2, <2>4 DEF Session
  <2>6. sessions' = [sessions EXCEPT ![s] = [@ EXCEPT !.participants = r]]
    BY <1>2 DEF Takeover
  <2> QED BY <2>5, <2>6 DEF TypeOK
<1>3. CASE CreateInsert(k)
  <2> DEFINE p == [v \in {u} |-> [isHost |-> TRUE, sender |-> k]]
  <2>1. p \in Roster
    <3>1. p \in [{u} -> Participant]
      BY DEF Participant
    <3> QED BY <1>f, <3>1, RosterIntro
  <2>2. [host |-> u, media |-> u, participants |-> p] \in Session
    BY <1>f, <2>1 DEF Session
  <2>3. sessions' = [sessions EXCEPT ![g] = [host |-> u, media |-> u, participants |-> p]]
    BY <1>3 DEF CreateInsert
  <2> QED BY <2>2, <2>3 DEF TypeOK
<1>4. CASE JoinInsert(k)
  <2> DEFINE r == WithMember(g, u, [isHost |-> FALSE, sender |-> k])
  <2>1. g \in SessionIds
    BY <1>4, <1>f DEF JoinInsert, At, FrameOK
  <2>e. Exists(g)
    BY <1>4, <2>1 DEF GuardedExists, Guarding, JoinInsert
  <2>2. r \in Roster
    <3>1. [isHost |-> FALSE, sender |-> k] \in Participant
      BY DEF Participant
    <3> QED BY <1>f, <2>1, <3>1, WithMemberRoster
  <2>3. [sessions[g] EXCEPT !.participants = r] \in Session
    BY <2>e, <2>1, <2>2, ExistsSession DEF Session
  <2>4. sessions' = [sessions EXCEPT ![g] = [@ EXCEPT !.participants = r]]
    BY <1>4 DEF JoinInsert
  <2> QED BY <2>3, <2>4 DEF TypeOK
<1>5. CASE LeaveRemove(k) /\ MemberVia(s, u, task[k].handle.sender)
  <2> DEFINE r == WithoutMember(s, u)
  <2>1. s \in SessionIds
    BY <1>5, <1>f DEF LeaveRemove, At, FrameOK
  <2>2. r \in Roster
    BY <1>f, <2>1, WithoutMemberRoster
  <2>3. sessions[s] \in Session
    BY <1>5, <2>1, ExistsSession DEF MemberVia
  <2>4. [sessions[s] EXCEPT !.participants = r] \in Session
    BY <2>2, <2>3 DEF Session
  <2>5. sessions' = [sessions EXCEPT ![s] = [@ EXCEPT !.participants = r]]
    BY <1>5 DEF LeaveRemove
  <2> QED BY <2>4, <2>5 DEF TypeOK
<1>6. CASE LeaveDrop(k)
  <2>1. sessions' = [sessions EXCEPT ![s] = NoSession]
    BY <1>6 DEF LeaveDrop
  <2> QED BY <2>1 DEF TypeOK
<1>7. CASE MediaSet(k)
  <2>1. CASE Exists(g)
    <3>1. g \in SessionIds
      BY <1>7, <1>f DEF MediaSet, At, FrameOK
    <3>2. [sessions[g] EXCEPT !.media = u] \in Session
      BY <1>f, <2>1, <3>1, ExistsSession DEF Session
    <3>3. sessions' = [sessions EXCEPT ![g] = [@ EXCEPT !.media = u]]
      BY <1>7, <2>1 DEF MediaSet
    <3> QED BY <3>2, <3>3 DEF TypeOK
  <2>2. CASE ~Exists(g)
    BY <1>7, <2>2, <1>1 DEF MediaSet
  <2> QED BY <2>1, <2>2
<1> QED
  <2>1. CASE Wake(k)
    BY <2>1, <1>1 DEF Wake, AuthFail, Register, Break, ReceiveCreate,
          ReceiveJoin, ReceiveLeave, ReceiveNewMedia, Receive
  <2>2. CASE Run(k)
    BY <2>2, <1>1, <1>2, <1>3, <1>4, <1>5, <1>6, <1>7
    DEF Run, Takeover, Greet, Cleanup, CreateCheck, CreateConn, CreateReply,
        JoinCheck, JoinLookup, JoinConn, JoinReply, Reply, LeaveConn,
        LeaveRemove, LeaveRest, LeaveEmpty, LeaveTell, LeaveClear, LeaveDone,
        MediaConn, MediaCheck
  <2> QED BY <2>1, <2>2

\* Every step keeps the connections map well typed.
LEMMA ConnsStep ==
    ASSUME TypeOK, NEW k \in Sockets, Wake(k) \/ Run(k)
    PROVE  conns' \in [Users -> Handle \cup {NoHandle}]
<1> DEFINE u == UserOf[k]
<1>f. u \in Users /\ FrameOK(k) /\ task[k].rest \in SUBSET Users
  BY FrameType
<1>1. CASE UNCHANGED conns
  BY <1>1 DEF TypeOK
<1>2. CASE \E v \in Users, s \in SessionIds \cup {None} : conns' = SetSession(v, s)
  BY <1>2, SetSessionType
<1>3. CASE Register(k)
  BY <1>3, <1>f DEF Register, TypeOK, Handle
<1>4. CASE Cleanup(k)
  BY <1>4, <1>f DEF Cleanup, TypeOK
<1>5. CASE Takeover(k) \/ CreateConn(k) \/ JoinConn(k) \/ LeaveClear(k) \/ LeaveDone(k)
  BY <1>5, <1>1, <1>2, <1>f
  DEF Takeover, CreateConn, JoinConn, LeaveClear, LeaveDone, FrameOK, At
<1> QED
  <2>1. CASE Wake(k)
    BY <2>1, <1>1, <1>3 DEF Wake, AuthFail, Break, ReceiveCreate,
          ReceiveJoin, ReceiveLeave, ReceiveNewMedia, Receive
  <2>2. CASE Run(k)
    BY <2>2, <1>1, <1>4, <1>5
    DEF Run, Greet, CreateCheck, CreateInsert, CreateReply, JoinCheck,
        JoinLookup, JoinInsert, JoinReply, Reply, LeaveConn, LeaveRemove,
        LeaveRest, LeaveEmpty, LeaveTell, LeaveDrop, MediaConn, MediaCheck,
        MediaSet
  <2> QED BY <2>1, <2>2

\* Clients are only told of session ids.
LEMMA ToldStep ==
    ASSUME TypeOK, NEW k \in Sockets, Wake(k) \/ Run(k)
    PROVE  told' \in [Sockets -> SessionIds \cup {None}]
<1>f. UserOf[k] \in Users /\ FrameOK(k)
  BY FrameType
<1>1. CASE UNCHANGED told
  BY <1>1 DEF TypeOK
<1>2. CASE ReceiveLeave(k) \/ Cleanup(k) \/ LeaveTell(k)
  BY <1>2 DEF ReceiveLeave, Cleanup, LeaveTell, TypeOK
<1>3. CASE CreateReply(k) \/ JoinReply(k)
  <2>1. task[k].arg \in SessionIds
    BY <1>3, <1>f DEF CreateReply, JoinReply, At, FrameOK
  <2> QED BY <1>3, <2>1 DEF CreateReply, JoinReply, Reply, TypeOK
<1> QED
  <2>1. CASE Wake(k)
    BY <2>1, <1>1, <1>2 DEF Wake, AuthFail, Register, Break, ReceiveCreate,
          ReceiveJoin, ReceiveNewMedia
  <2>2. CASE Run(k)
    BY <2>2, <1>1, <1>2, <1>3
    DEF Run, Takeover, Greet, CreateCheck, CreateInsert, CreateConn,
        JoinCheck, JoinLookup, JoinInsert, JoinConn, LeaveConn, LeaveRemove,
        LeaveRest, LeaveEmpty, LeaveClear, LeaveDrop, LeaveDone, MediaConn,
        MediaCheck, MediaSet
  <2> QED BY <2>1, <2>2

LEMMA TypeStep ==
    ASSUME TypeOK, GuardedExists, NEW k \in Sockets, Wake(k) \/ Run(k)
    PROVE  TypeOK'
BY FramesStep, SessionsStep, ConnsStep, ToldStep, TypeIntro

-----------------------------------------------------------------------------
(* The session a guard refers to, and the host of a session. *)

\* A step of socket k leaves the tasks of the others alone.
LEMMA OthersKept ==
    ASSUME TypeOK, NEW k \in Sockets, Wake(k) \/ Run(k),
           NEW j \in Sockets, j # k
    PROVE  task'[j] = task[j]
<1>1. \E f : task' = [task EXCEPT ![k] = f]
  <2>1. CASE Wake(k)
    BY <2>1 DEF Wake, AuthFail, Register, Break, ReceiveCreate, ReceiveJoin,
          ReceiveLeave, ReceiveNewMedia, Receive, Goto, Enter, Carry
  <2>2. CASE Run(k)
    BY <2>2
    DEF Run, Takeover, Greet, Cleanup, CreateCheck, CreateInsert, CreateConn,
        CreateReply, JoinCheck, JoinLookup, JoinInsert, JoinConn, JoinReply,
        Reply, LeaveConn, LeaveRemove, LeaveRest, LeaveEmpty, LeaveTell,
        LeaveClear, LeaveDrop, LeaveDone, LeaveReturn, MediaConn, MediaCheck,
        MediaSet, Goto, Enter, Carry, Await
  <2> QED BY <2>1, <2>2
<1> QED BY <1>1 DEF TypeOK

\* What a step does to one entry of the sessions map: nothing, a change of
\* channel, of media or of participants, a removal, or a new session.
Retained(s)    == /\ Exists(s)'
                  /\ sessions'[s].host = sessions[s].host
                  /\ Members(s) \subseteq Members(s)'
LeftBy(k, s)   == /\ At(k, "leave_remove") /\ task'[k].pc = "leave_rest"
                  /\ task[k].handle.session = s /\ task'[k].handle = task[k].handle
                  /\ Exists(s) /\ Exists(s)'
                  /\ sessions'[s].host = sessions[s].host
                  /\ Members(s)' = Members(s) \ {UserOf[k]}
DroppedBy(k, s) == LeaveDrop(k) /\ task[k].handle.session = s
CreatedBy(k, s) == /\ CreateInsert(k) /\ Exists(s)'
                   /\ sessions'[s].host \in Members(s)'

LEMMA EntryStep ==
    ASSUME TypeOK, GuardedExists, NEW k \in Sockets, Wake(k) \/ Run(k),
           NEW s \in SessionIds
    PROVE  \/ sessions'[s] = sessions[s]
           \/ Exists(s) /\ Retained(s)
           \/ LeftBy(k, s)
           \/ DroppedBy(k, s)
           \/ CreatedBy(k, s)
<1> DEFINE u == UserOf[k]
           g == task[k].arg
           h == task[k].handle.session
<1>f. u \in Users /\ FrameOK(k)
  BY FrameType
<1>1. CASE UNCHANGED sessions
  BY <1>1
<1>2. CASE Takeover(k) /\ MemberVia(h, u, task[k].handle.sender)
  <2>1. h \in SessionIds
    BY <1>2, <1>f DEF Takeover, At, FrameOK
  <2>2. Exists(h) /\ sessions[h] \in Session
    BY <1>2, <2>1, ExistsSession DEF MemberVia
  <2> DEFINE r == [sessions[h].participants EXCEPT ![u].sender = k]
  <2>3. sessions' = [sessions EXCEPT ![h] = [@ EXCEPT !.participants = r]]
    BY <1>2 DEF Takeover
  <2>4. CASE s # h
    BY <2>3, <2>4 DEF TypeOK
  <2>5. CASE s = h
    <3>1. sessions'[s].host = sessions[s].host /\ sessions'[s].participants = r
      BY <2>1, <2>2, <2>3, <2>5 DEF TypeOK, Session
    <3>2. Members(s)' = Members(s)
      BY <3>1, <2>5 DEF Members
    <3>h. sessions[s].host # None
      BY <2>2, <2>5, NoneAssumption DEF Session
    <3>n. NoSession.host = None
      BY DEF NoSession
    <3>3. Exists(s)'
      BY <3>1, <3>h, <3>n, Zenon DEF Exists
    <3> QED BY <2>2, <2>5, <3>1, <3>2, <3>3 DEF Retained
  <2> QED BY <2>4, <2>5
<1>3. CASE CreateInsert(k)
  <2>1. sessions' = [sessions EXCEPT ![g] =
            [host |-> u, media |-> u,
             participants |-> [v \in {u} |-> [isHost |-> TRUE, sender |-> k]]]]
    BY <1>3 DEF CreateInsert
  <2>2. CASE s # g
    BY <2>1, <2>2 DEF TypeOK
  <2>3. CASE s = g
    <3>1. /\ sessions'[s].host = u
          /\ sessions'[s].participants = [v \in {u} |-> [isHost |-> TRUE, sender |-> k]]
      BY <2>1, <2>3 DEF TypeOK
    <3>2. u \in Members(s)'
      BY <3>1 DEF Members
    <3>3. Exists(s)'
      BY <3>1, <1>f, NoneAssumption DEF Exists, NoSession
    <3> QED BY <1>3, <3>1, <3>2, <3>3 DEF CreatedBy
  <2> QED BY <2>2, <2>3
<1>4. CASE JoinInsert(k)
  <2>1. g \in SessionIds
    BY <1>4, <1>f DEF JoinInsert, At, FrameOK
  <2>2. Exists(g) /\ sessions[g] \in Session
    BY <1>4, <2>1, ExistsSession DEF GuardedExists, Guarding, JoinInsert
  <2> DEFINE r == WithMember(g, u, [isHost |-> FALSE, sender |-> k])
  <2>3. sessions' = [sessions EXCEPT ![g] = [@ EXCEPT !.participants = r]]
    BY <1>4 DEF JoinInsert
  <2>4. CASE s # g
    BY <2>3, <2>4 DEF TypeOK
  <2>5. CASE s = g
    <3>1. sessions'[s].host = sessions[s].host /\ sessions'[s].participants = r
      BY <2>1, <2>2, <2>3, <2>5 DEF TypeOK, Session
    <3>2. Members(s)' = Members(s) \cup {u}
      BY <3>1, <2>5 DEF Members, WithMember
    <3>3. Exists(s)'
      BY <3>1, <2>2, <2>5, NoneAssumption DEF Session, Exists, NoSession
    <3> QED BY <2>2, <2>5, <3>1, <3>2, <3>3 DEF Retained
  <2> QED BY <2>4, <2>5
<1>5. CASE LeaveRemove(k) /\ MemberVia(h, u, task[k].handle.sender)
  <2>1. h \in SessionIds
    BY <1>5, <1>f DEF LeaveRemove, At, FrameOK
  <2>2. Exists(h) /\ sessions[h] \in Session
    BY <1>5, <2>1, ExistsSession DEF MemberVia
  <2>3. sessions' = [sessions EXCEPT ![h] = [@ EXCEPT !.participants = WithoutMember(h, u)]]
    BY <1>5 DEF LeaveRemove
  <2>4. CASE s # h
    BY <2>3, <2>4 DEF TypeOK
  <2>5. CASE s = h
    <3>1. /\ sessions'[s].host = sessions[s].host
          /\ sessions'[s].participants = WithoutMember(h, u)
      BY <2>1, <2>2, <2>3, <2>5 DEF TypeOK, Session
    <3>2. Members(s)' = Members(s) \ {u}
      BY <3>1, <2>5 DEF Members, WithoutMember
    <3>3. Exists(s)'
      BY <3>1, <2>2, <2>5, NoneAssumption DEF Session, Exists, NoSession
    <3>4. Goto(k, "leave_rest") /\ At(k, "leave_remove")
      BY <1>5 DEF LeaveRemove
    <3> QED BY <2>2, <2>5, <3>1, <3>2, <3>3, <3>4, GotoFrame DEF LeftBy
  <2> QED BY <2>4, <2>5
<1>6. CASE LeaveDrop(k)
  <2>1. sessions' = [sessions EXCEPT ![h] = NoSession]
    BY <1>6 DEF LeaveDrop
  <2> QED BY <1>6, <2>1 DEF DroppedBy, TypeOK
<1>7. CASE MediaSet(k) /\ Exists(g)
  <2>1. g \in SessionIds
    BY <1>7, <1>f DEF MediaSet, At, FrameOK
  <2>2. sessions[g] \in Session
    BY <1>7, <2>1, ExistsSession
  <2>3. sessions' = [sessions EXCEPT ![g] = [@ EXCEPT !.media = u]]
    BY <1>7 DEF MediaSet
  <2>4. CASE s # g
    BY <2>3, <2>4 DEF TypeOK
  <2>5. CASE s = g
    <3>1. /\ sessions'[s].host = sessions[s].host
          /\ sessions'[s].participants = sessions[s].participants
      BY <2>1, <2>2, <2>3, <2>5 DEF TypeOK, Session
    <3>2. Members(s)' = Members(s)
      BY <3>1 DEF Members
    <3>3. Exists(s)'
      BY <3>1, <2>2, <2>5, NoneAssumption DEF Session, Exists, NoSession
    <3> QED BY <1>7, <2>5, <3>1, <3>2, <3>3 DEF Retained
  <2> QED BY <2>4, <2>5
<1> QED
  <2>1. CASE Wake(k)
    BY <2>1, <1>1 DEF Wake, AuthFail, Register, Break, ReceiveCreate,
          ReceiveJoin, ReceiveLeave, ReceiveNewMedia, Receive
  <2>2. CASE Run(k)
    BY <2>2, <1>1, <1>2, <1>3, <1>4, <1>5, <1>6, <1>7
    DEF Run, Takeover, Greet, Cleanup, CreateCheck, CreateConn, CreateReply,
        JoinCheck, JoinLookup, JoinConn, JoinReply, Reply, LeaveConn,
        LeaveRemove, LeaveRest, LeaveEmpty, LeaveTell, LeaveClear, LeaveDone,
        MediaConn, MediaCheck, MediaSet
  <2> QED BY <2>1, <2>2

\* Once a handler has taken the host out of its session, it stays on the way
\* to the removal, and the removal ends it.
LEMMA LeavingKept ==
    ASSUME TypeOK, NEW k \in Sockets, Wake(k) \/ Run(k), NEW s \in SessionIds,
           Leaving(k, s), sessions[s].host = UserOf[k]
    PROVE  Leaving(k, s)' \/ DroppedBy(k, s)
<1> DEFINE h == task[k].handle
<1>1. h.session = s /\ WasHost(k)
  BY DEF Leaving, WasHost
<1>2. CASE LeaveRest(k) \/ LeaveClear(k)
  <2>1. PICK l \in {"leave_empty", "leave_drop", "leave_clear"} :
            \E m : Carry(k, l, h, task[k].ret, m)
    BY <1>2 DEF LeaveRest, LeaveClear
  <2>2. PICK m : Carry(k, l, h, task[k].ret, m)
    BY <2>1
  <2> QED BY <1>1, <2>1, <2>2, CarryFrame DEF Leaving
<1>3. CASE LeaveEmpty(k) \/ LeaveTell(k)
  <2>1. PICK l \in {"leave_drop", "leave_tell", "leave_clear"} : Goto(k, l)
    BY <1>1, <1>3 DEF LeaveEmpty, LeaveTell
  <2> QED BY <1>1, <2>1, GotoFrame DEF Leaving
<1>4. CASE LeaveDrop(k)
  BY <1>1, <1>4 DEF DroppedBy
<1> QED
  BY <1>2, <1>3, <1>4
  DEF Leaving, Wake, Run, At, AuthFail, Register, Break, ReceiveCreate,
      ReceiveJoin, ReceiveLeave, ReceiveNewMedia, Receive, Takeover, Greet,
      Cleanup, CreateCheck, CreateInsert, CreateConn, CreateReply, JoinCheck,
      JoinLookup, JoinInsert, JoinConn, JoinReply, LeaveConn, LeaveRemove,
      LeaveDone, MediaConn, MediaCheck, MediaSet

\* A removal leaves nothing behind.
LEMMA DroppedGone ==
    ASSUME TypeOK, NEW k \in Sockets, NEW s \in SessionIds, DroppedBy(k, s)
    PROVE  ~Exists(s)'
BY DEF DroppedBy, LeaveDrop, TypeOK, Exists

\* The host stays, or the handler that removes the session does.
LEMMA HostStep ==
    ASSUME TypeOK, GuardedExists, HostPresent,
           NEW k \in Sockets, Wake(k) \/ Run(k)
    PROVE  HostPresent'
<1> SUFFICES ASSUME NEW s \in SessionIds, Exists(s)'
             PROVE  \/ sessions'[s].host \in Members(s)'
                    \/ \E j \in Sockets : /\ UserOf[j] = sessions'[s].host
                                          /\ Leaving(j, s)'
  BY DEF HostPresent
<1>1. ~DroppedBy(k, s)
  BY DroppedGone
<1>2. ASSUME Exists(s), sessions'[s].host = sessions[s].host,
             sessions[s].host \notin Members(s)
      PROVE  \E j \in Sockets : UserOf[j] = sessions'[s].host /\ Leaving(j, s)'
  <2>1. PICK j \in Sockets : UserOf[j] = sessions[s].host /\ Leaving(j, s)
    BY <1>2 DEF HostPresent
  <2>2. Leaving(j, s)'
    <3>1. CASE j = k
      BY <1>1, <2>1, <3>1, LeavingKept
    <3>2. CASE j # k
      BY <2>1, <3>2, OthersKept DEF Leaving
    <3> QED BY <3>1, <3>2
  <2> QED BY <1>2, <2>1, <2>2
<1>3. CASE sessions'[s] = sessions[s]
  BY <1>2, <1>3 DEF Exists, Members
<1>4. CASE Exists(s) /\ Retained(s)
  BY <1>2, <1>4 DEF Retained
<1>5. CASE LeftBy(k, s)
  <2>1. Leaving(k, s)'
    BY <1>5 DEF LeftBy, Leaving
  <2>2. CASE sessions[s].host = UserOf[k]
    BY <1>5, <2>1, <2>2 DEF LeftBy
  <2>3. CASE sessions[s].host # UserOf[k] /\ sessions[s].host \in Members(s)
    BY <1>5, <2>3 DEF LeftBy
  <2>4. CASE sessions[s].host # UserOf[k] /\ sessions[s].host \notin Members(s)
    BY <1>2, <1>5, <2>4 DEF LeftBy
  <2> QED BY <2>2, <2>3, <2>4
<1>6. CASE CreatedBy(k, s)
  BY <1>6 DEF CreatedBy
<1> QED BY <1>1, <1>3, <1>4, <1>5, <1>6, EntryStep

\* A guard keeps its session in the map.
LEMMA GuardStep ==
    ASSUME TypeOK, GuardedExists, NEW k \in Sockets, Wake(k) \/ Run(k)
    PROVE  GuardedExists'
<1> SUFFICES ASSUME NEW j \in Sockets, NEW s \in SessionIds, Guarding(j, s)'
             PROVE  Exists(s)'
  BY DEF GuardedExists
<1>1. ASSUME Exists(s), ~DroppedBy(k, s) PROVE Exists(s)'
  BY <1>1, EntryStep DEF Retained, LeftBy, CreatedBy, Exists
<1>2. CASE Guarding(j, s)
  <2>1. Exists(s)
    BY <1>2 DEF GuardedExists
  <2>2. ~DroppedBy(k, s)
    BY <1>2 DEF DroppedBy, LeaveDrop, Unguarded
  <2> QED BY <1>1, <2>1, <2>2
<1>3. CASE ~Guarding(j, s)
  <2>1. j = k
    BY <1>3, OthersKept DEF Guarding, At
  <2>2. CASE JoinLookup(k)
    <3>1. CASE Exists(task[k].arg) /\ Goto(k, "join_insert")
      <4>1. task[k].arg = s
        BY <2>1, <3>1, GotoFrame DEF Guarding, At
      <4> QED BY <1>1, <2>2, <3>1, <4>1 DEF JoinLookup, DroppedBy, LeaveDrop, At
    <3>2. CASE Await(k)
      BY <2>1, <3>2, EnterFrame DEF Await, Guarding, At
    <3> QED BY <2>2, <3>1, <3>2 DEF JoinLookup
  <2>3. CASE LeaveRemove(k)
    <3> DEFINE h == task[k].handle.session
    <3>1. CASE MemberVia(h, UserOf[k], task[k].handle.sender) /\ Goto(k, "leave_rest")
      <4>1. h = s
        BY <2>1, <3>1, GotoFrame DEF Guarding, At
      <4>2. Exists(s)
        BY <3>1, <4>1, ExistsSession DEF MemberVia
      <4> QED BY <1>1, <2>3, <4>2 DEF LeaveRemove, DroppedBy, LeaveDrop, At
    <3>2. CASE LeaveReturn(k)
      BY <2>1, <3>2, EnterFrame, GotoFrame DEF LeaveReturn, Guarding, At
    <3> QED BY <2>3, <3>1, <3>2 DEF LeaveRemove
  <2>4. CASE LeaveRest(k)
    <3>1. task'[k].handle = task[k].handle
      BY <2>4, CarryFrame DEF LeaveRest
    <3>2. task'[k].pc = "leave_empty"
      BY <2>4, CarryFrame DEF LeaveRest
    <3> QED BY <1>3, <2>1, <2>4, <3>1, <3>2 DEF LeaveRest, Guarding, At
  <2>5. ASSUME task'[k].pc \notin {"join_insert", "leave_rest", "leave_empty"}
        PROVE  FALSE
    BY <2>1, <2>5 DEF Guarding, At
  <2>6. CASE Await(k)
    BY <2>5, <2>6, EnterFrame DEF Await
  <2>7. CASE Takeover(k) \/ LeaveConn(k) \/ LeaveDone(k) \/ MediaConn(k)
             \/ \E g \in SessionIds : ReceiveCreate(k, g) \/ ReceiveJoin(k, g)
             \/ ReceiveLeave(k) \/ ReceiveNewMedia(k)
    <3>1. CASE \E l \in {"greet", "create_check", "join_check", "leave_conn",
                         "media_conn", "media_check"} : \E g : Enter(k, l, g)
      BY <2>5, <3>1, EnterFrame
    <3>2. CASE Enter(k, task[k].ret, task[k].arg)
      BY <2>5, <3>2, EnterFrame, FrameType
    <3>3. CASE Carry(k, "leave_remove", conns[UserOf[k]], task[k].ret, {})
      BY <2>5, <3>3, CarryFrame
    <3> QED BY <2>6, <2>7, <3>1, <3>2, <3>3
            DEF Takeover, LeaveConn, LeaveDone, MediaConn, ReceiveCreate,
                ReceiveJoin, ReceiveLeave, ReceiveNewMedia, Receive
  <2>8. CASE AuthFail(k) \/ Break(k) \/ CreateInsert(k) \/ CreateConn(k)
             \/ JoinInsert(k) \/ JoinConn(k) \/ LeaveEmpty(k) \/ LeaveTell(k)
             \/ LeaveDrop(k) \/ MediaCheck(k)
    <3>1. CASE \E l \in {"closed", "cleanup", "create_conn", "create_reply",
                         "join_conn", "join_reply", "leave_drop", "leave_tell",
                         "leave_clear", "leave_done", "media_set"} : Goto(k, l)
      BY <2>5, <3>1, GotoFrame
    <3>2. CASE LeaveReturn(k)
      BY <2>5, <3>1, <3>2, EnterFrame DEF LeaveReturn
    <3> QED BY <2>6, <2>8, <3>1, <3>2
            DEF AuthFail, Break, CreateInsert, CreateConn, JoinInsert,
                JoinConn, LeaveEmpty, LeaveTell, LeaveDrop, MediaCheck
  <2>9. CASE Register(k) \/ Cleanup(k) \/ CreateCheck(k) \/ JoinCheck(k)
             \/ LeaveClear(k)
    <3>1. CASE \E l \in {"greet", "closed"} : Goto(k, l)
      BY <2>5, <3>1, GotoFrame
    <3>2. CASE \E l \in {"takeover", "leave_remove", "leave_conn",
                         "leave_drop", "leave_clear"} :
                    \E h, r, m : Carry(k, l, h, r, m)
      BY <2>5, <3>2, CarryFrame
    <3> QED BY <2>6, <2>9, <3>1, <3>2
            DEF Register, Cleanup, CreateCheck, JoinCheck, LeaveClear
  <2> QED BY <2>2, <2>3, <2>4, <2>6, <2>7, <2>8, <2>9
          DEF Wake, Run, Greet, CreateReply, JoinReply, Reply, MediaSet
<1> QED BY <1>2, <1>3

-----------------------------------------------------------------------------
(* The inductive invariant.  HostPresent needs the guards (a session does    *)
(* not vanish between a leave's accesses), and so does type correctness (a   *)
(* join inserts into a session that is there).                               *)

IInv == TypeOK /\ GuardedExists /\ HostPresent

LEMMA IInvInit == Init => IInv
<1> SUFFICES ASSUME Init PROVE IInv
  OBVIOUS
<1>1. TypeOK
  BY TypeInit
<1>2. GuardedExists
  BY DEF Init, GuardedExists, Guarding, At, NewFrame
<1>3. HostPresent
  BY DEF Init, HostPresent, Exists
<1> QED BY <1>1, <1>2, <1>3 DEF IInv

LEMMA IInvNext == IInv /\ [Next]_vars => IInv'
<1> SUFFICES ASSUME IInv, [Next]_vars PROVE IInv'
  OBVIOUS
<1>1. CASE Next
  <2>1. PICK k \in Sockets : Wake(k) \/ Run(k)
    BY <1>1 DEF Next
  <2> QED BY <2>1, TypeStep, GuardStep, HostStep DEF IInv
<1>2. CASE UNCHANGED vars
  <2>1. TypeOK'
    BY <1>2 DEF IInv, TypeOK, vars, FrameOK
  <2>2. GuardedExists'
    BY <1>2 DEF IInv, GuardedExists, Guarding, At, Exists, vars
  <2>3. HostPresent'
    BY <1>2 DEF IInv, HostPresent, Leaving, Exists, Members, vars
  <2> QED BY <2>1, <2>2, <2>3 DEF IInv
<1> QED BY <1>1, <1>2

LEMMA IInvInvariant == Spec => []IInv
BY IInvInit, IInvNext, PTL DEF Spec

\* The shared maps and the locals of every handler are always well formed.
THEOREM TypeCorrect == Spec => []TypeOK
BY IInvInvariant, PTL DEF IInv

\* A session in the map always has its host in it, or a handler of the host
\* about to remove it: with any number of users, sockets and workers no
\* interleaving leaves a session without the one user who can end it.
THEOREM HostsStay == Spec => []HostPresent
BY IInvInvariant, PTL DEF IInv

-----------------------------------------------------------------------------
(* GhostsReconnected, for any number of workers.  A user who has opened one  *)
(* connection only has one handler at work at a time, so that its entries    *)
(* stand or fall with that handler; what others do to them is LeaveClear,    *)
(* which reaches the connection before LeaveDrop reaches the entry.          *)

\* Some handler clears the connections of s and then removes it.
Dropping(s) == \E j \in Sockets : /\ task[j].pc \in {"leave_clear", "leave_drop"}
                                  /\ task[j].handle.session = s

\* Where socket k's task is while its entries and its connection agree.
Settled == {"idle", "greet", "cleanup", "create_check", "join_check",
            "leave_conn", "create_reply", "join_reply", "media_conn",
            "media_check", "media_set"}

\* An entry in s through channel k: the session is on its way out, the
\* connection has it, or k's handler is about to set the one after the other.
Anchored(k, s) ==
    \/ Dropping(s)
    \/ /\ task[k].pc \in Settled
       /\ conns[UserOf[k]].session = s
       /\ Live(k)
    \/ task[k].pc \in {"create_conn", "join_conn"} /\ task[k].arg = s
    \/ /\ At(k, "leave_remove")
       /\ task[k].handle.session = s
       /\ task[k].handle.sender = k

\* Socket k has closed, or its cleanup has removed the connection.
Gone(k) ==
    \/ At(k, "closed")
    \/ /\ task[k].ret = "closed"
       /\ task[k].pc \in {"leave_remove", "leave_rest", "leave_empty",
                          "leave_tell", "leave_clear", "leave_drop"}

\* Connections and entries carry registered sockets of their users.
OwnConns   == \A u \in Users : Online(u) =>
                 UserOf[conns[u].sender] = u /\ ~At(conns[u].sender, "auth")
OwnEntries == \A s \in SessionIds : \A u \in Members(s) :
                 LET e == sessions[s].participants[u].sender
                 IN  UserOf[e] = u /\ ~At(e, "auth")

\* Only a second connection takes anything over.
TakenOver == \A k \in Sockets : At(k, "takeover") => ~ConnectedOnce(UserOf[k])

\* The only socket of its user is live until it cleans up.
SoleLive == \A k \in Sockets :
    ConnectedOnce(UserOf[k]) /\ ~At(k, "auth") /\ ~Gone(k) => Live(k)

AllAnchored == \A s \in SessionIds : \A u \in Members(s) :
    ConnectedOnce(u) => Anchored(sessions[s].participants[u].sender, s)

GhostIInv ==
    IInv /\ OwnConns /\ OwnEntries /\ TakenOver /\ SoleLive /\ AllAnchored

\* How a step of socket k goes on: never back to where it came from.
LEMMA NotBack ==
    ASSUME TypeOK, NEW k \in Sockets, Wake(k) \/ Run(k)
    PROVE  task'[k].pc # "auth"
<1>f. task[k].ret # "auth"
  BY FrameType
<1>1. ASSUME NEW l, l # "auth", Goto(k, l) PROVE task'[k].pc # "auth"
  BY <1>1, GotoFrame
<1>2. ASSUME NEW l, NEW s, l # "auth", Enter(k, l, s) PROVE task'[k].pc # "auth"
  BY <1>2, EnterFrame
<1>3. ASSUME NEW l, NEW h, NEW r, NEW m, l # "auth", Carry(k, l, h, r, m)
      PROVE  task'[k].pc # "auth"
  BY <1>3, CarryFrame
<1>4. ASSUME Await(k) PROVE task'[k].pc # "auth"
  BY <1>2, <1>4 DEF Await
<1>5. ASSUME LeaveReturn(k) PROVE task'[k].pc # "auth"
  BY <1>1, <1>2, <1>5 DEF LeaveReturn
<1>6. CASE Wake(k)
  BY <1>6, <1>1, <1>2, <1>3 DEF Wake, AuthFail, Register, Break,
     ReceiveCreate, ReceiveJoin, ReceiveLeave, ReceiveNewMedia, Receive
<1>7. CASE Takeover(k) \/ Greet(k) \/ Cleanup(k) \/ CreateCheck(k)
           \/ CreateInsert(k) \/ CreateConn(k) \/ CreateReply(k)
  BY <1>7, <1>1, <1>2, <1>3, <1>4
  DEF Takeover, Greet, Cleanup, CreateCheck, CreateInsert, CreateConn,
      CreateReply, Reply
<1>8. CASE JoinCheck(k) \/ JoinLookup(k) \/ JoinInsert(k) \/ JoinConn(k)
           \/ JoinReply(k) \/ MediaConn(k) \/ MediaCheck(k) \/ MediaSet(k)
  BY <1>8, <1>1, <1>2, <1>3, <1>4
  DEF JoinCheck, JoinLookup, JoinInsert, JoinConn, JoinReply, Reply,
      MediaConn, MediaCheck, MediaSet
<1>9. CASE LeaveConn(k) \/ LeaveRemove(k) \/ LeaveRest(k) \/ LeaveEmpty(k)
           \/ LeaveDone(k)
  BY <1>9, <1>f, <1>1, <1>2, <1>3, <1>5
  DEF LeaveConn, LeaveRemove, LeaveRest, LeaveEmpty, LeaveDone
<1>10. CASE LeaveTell(k)
  BY <1>10, <1>1 DEF LeaveTell
<1>11. CASE LeaveClear(k)
  <2>1. PICK v \in task[k].rest : \E l \in {"leave_drop", "leave_clear"} :
            Carry(k, l, task[k].handle, task[k].ret, task[k].rest \ {v})
    BY <1>11 DEF LeaveClear
  <2> QED BY <2>1, <1>3
<1>12. CASE LeaveDrop(k)
  BY <1>12, <1>5 DEF LeaveDrop
<1> QED
  BY <1>6, <1>7, <1>8, <1>9, <1>10, <1>11, <1>12 DEF Run

\* A socket that has registered stays registered.
LEMMA RegisteredStays ==
    ASSUME TypeOK, NEW k \in Sockets, Wake(k) \/ Run(k),
           NEW j \in Sockets, ~At(j, "auth") \/ j = k
    PROVE  task'[j].pc # "auth"
BY NotBack, OthersKept DEF At

\* So who has connected once now had connected once before, and of one user's
\* sockets only the one that has registered moves.
LEMMA OnceBefore ==
    ASSUME TypeOK, NEW k \in Sockets, Wake(k) \/ Run(k),
           NEW u \in Users, ConnectedOnce(u)'
    PROVE  /\ ConnectedOnce(u)
           /\ \A j \in Sockets : UserOf[j] = u /\ ~At(j, "auth") =>
                 j = k \/ UserOf[k] # u
<1>1. \A i, j \in Sockets :
         (/\ UserOf[i] = u /\ UserOf[j] = u
          /\ task'[i].pc # "auth" /\ task'[j].pc # "auth") => i = j
  BY DEF ConnectedOnce, At
<1> QED BY <1>1, RegisteredStays DEF ConnectedOnce

\* An entry after a step was there before, with its channel, or is one that
\* socket k has just made its own.
Claims(k, s) == Takeover(k) \/ ((JoinInsert(k) \/ CreateInsert(k)) /\ task[k].arg = s)

LEMMA EntryFrom ==
    ASSUME TypeOK, GuardedExists, NEW k \in Sockets, Wake(k) \/ Run(k),
           NEW s \in SessionIds, NEW v \in Members(s)'
    PROVE  \/ /\ v \in Members(s)
              /\ sessions'[s].participants[v].sender = sessions[s].participants[v].sender
           \/ /\ v = UserOf[k]
              /\ sessions'[s].participants[v].sender = k
              /\ Claims(k, s)
<1> DEFINE u == UserOf[k]
           g == task[k].arg
           h == task[k].handle.session
<1>f. u \in Users /\ FrameOK(k)
  BY FrameType
<1>k. ASSUME sessions'[s] = sessions[s]
      PROVE  /\ v \in Members(s)
             /\ sessions'[s].participants[v].sender = sessions[s].participants[v].sender
  BY <1>k DEF Members
<1>1. CASE UNCHANGED sessions
  BY <1>1, <1>k
<1>2. CASE Takeover(k) /\ MemberVia(h, u, task[k].handle.sender)
  <2>1. h \in SessionIds /\ u \in Members(h)
    BY <1>2, <1>f DEF Takeover, At, FrameOK, MemberVia
  <2>2. sessions[h] \in Session
    BY <2>1, ExistsSession
  <2>t. sessions[h].participants \in [Members(h) -> Participant]
    BY <2>1, SessionRoster
  <2> DEFINE r == [sessions[h].participants EXCEPT ![u].sender = k]
  <2>3. sessions' = [sessions EXCEPT ![h] = [@ EXCEPT !.participants = r]]
    BY <1>2 DEF Takeover
  <2>4. CASE s # h
    BY <2>3, <2>4, <1>k DEF TypeOK
  <2>5. CASE s = h
    <3>1. sessions'[s].participants = r
      BY <2>1, <2>2, <2>3, <2>5 DEF TypeOK, Session
    <3>2. v \in Members(s)
      BY <3>1, <2>5 DEF Members
    <3>3. CASE v = u
      <4>1. r[u] = [sessions[h].participants[u] EXCEPT !.sender = k]
        BY <2>1, <2>t
      <4>2. sessions[h].participants[u] \in Participant
        BY <2>1, <2>t
      <4>3. r[u].sender = k
        BY <4>1, <4>2 DEF Participant
      <4> QED BY <1>2, <3>1, <3>3, <4>3 DEF Claims
    <3>4. CASE v # u
      BY <2>t, <2>5, <3>1, <3>2, <3>4
    <3> QED BY <3>3, <3>4
  <2> QED BY <2>4, <2>5
<1>3. CASE CreateInsert(k)
  <2>1. sessions' = [sessions EXCEPT ![g] =
            [host |-> u, media |-> u,
             participants |-> [w \in {u} |-> [isHost |-> TRUE, sender |-> k]]]]
    BY <1>3 DEF CreateInsert
  <2>2. CASE s # g
    BY <2>1, <2>2, <1>k DEF TypeOK
  <2>3. CASE s = g
    <3>1. sessions'[s].participants = [w \in {u} |-> [isHost |-> TRUE, sender |-> k]]
      BY <2>1, <2>3 DEF TypeOK
    <3>2. v = u
      BY <3>1 DEF Members
    <3> QED BY <1>3, <2>3, <3>1, <3>2 DEF Claims
  <2> QED BY <2>2, <2>3
<1>4. CASE JoinInsert(k)
  <2>1. g \in SessionIds
    BY <1>4, <1>f DEF JoinInsert, At, FrameOK
  <2>2. sessions[g] \in Session
    BY <1>4, <2>1, ExistsSession DEF GuardedExists, Guarding, JoinInsert
  <2> DEFINE r == WithMember(g, u, [isHost |-> FALSE, sender |-> k])
  <2>3. sessions' = [sessions EXCEPT ![g] = [@ EXCEPT !.participants = r]]
    BY <1>4 DEF JoinInsert
  <2>4. CASE s # g
    BY <2>3, <2>4, <1>k DEF TypeOK
  <2>5. CASE s = g
    <3>1. sessions'[s].participants = r
      BY <2>1, <2>2, <2>3, <2>5 DEF TypeOK, Session
    <3>2. v \in Members(s) \cup {u}
      BY <3>1, <2>5 DEF Members, WithMember
    <3>3. CASE v = u
      BY <1>4, <2>5, <3>1, <3>3 DEF WithMember, Claims
    <3>4. CASE v # u
      BY <2>5, <3>1, <3>2, <3>4 DEF WithMember
    <3> QED BY <3>3, <3>4
  <2> QED BY <2>4, <2>5
<1>5. CASE LeaveRemove(k) /\ MemberVia(h, u, task[k].handle.sender)
  <2>1. h \in SessionIds
    BY <1>5, <1>f DEF LeaveRemove, At, FrameOK
  <2>2. sessions[h] \in Session
    BY <1>5, <2>1, ExistsSession DEF MemberVia
  <2>3. sessions' = [sessions EXCEPT ![h] = [@ EXCEPT !.participants = WithoutMember(h, u)]]
    BY <1>5 DEF LeaveRemove
  <2>4. CASE s # h
    BY <2>3, <2>4, <1>k DEF TypeOK
  <2>5. CASE s = h
    <3>1. sessions'[s].participants = WithoutMember(h, u)
      BY <2>1, <2>2, <2>3, <2>5 DEF TypeOK, Session
    <3>2. v \in Members(s) \ {u}
      BY <3>1, <2>5 DEF Members, WithoutMember
    <3> QED BY <2>5, <3>1, <3>2 DEF WithoutMember
  <2> QED BY <2>4, <2>5
<1>6. CASE LeaveDrop(k)
  <2>1. sessions' = [sessions EXCEPT ![h] = NoSession]
    BY <1>6 DEF LeaveDrop
  <2>2. CASE s # h
    BY <2>1, <2>2, <1>k DEF TypeOK
  <2>3. CASE s = h
    <3>1. Members(s)' = {}
      BY <2>1, <2>3 DEF Members, TypeOK, NoSession
    <3> QED BY <3>1
  <2> QED BY <2>2, <2>3
<1>7. CASE MediaSet(k) /\ Exists(g)
  <2>1. g \in SessionIds
    BY <1>7, <1>f DEF MediaSet, At, FrameOK
  <2>2. sessions[g] \in Session
    BY <1>7, <2>1, ExistsSession
  <2>3. sessions' = [sessions EXCEPT ![g] = [@ EXCEPT !.media = u]]
    BY <1>7 DEF MediaSet
  <2>4. sessions'[s].participants = sessions[s].participants
    BY <2>1, <2>2, <2>3 DEF TypeOK, Session
  <2> QED BY <2>4 DEF Members
<1> QED
  <2>1. CASE Wake(k)
    BY <2>1, <1>1 DEF Wake, AuthFail, Register, Break, ReceiveCreate,
          ReceiveJoin, ReceiveLeave, ReceiveNewMedia, Receive
  <2>2. CASE Run(k)
    BY <2>2, <1>1, <1>2, <1>3, <1>4, <1>5, <1>6, <1>7
    DEF Run, Takeover, Greet, Cleanup, CreateCheck, CreateConn, CreateReply,
        JoinCheck, JoinLookup, JoinConn, JoinReply, Reply, LeaveConn,
        LeaveRemove, LeaveRest, LeaveEmpty, LeaveTell, LeaveClear, LeaveDone,
        MediaConn, MediaCheck, MediaSet
  <2> QED BY <2>1, <2>2

\* A step takes a connection out of the session its handler clears, or is one
\* of the few that touch the connection of socket k's own user.
LEMMA ConnFrom ==
    ASSUME TypeOK, NEW k \in Sockets, Wake(k) \/ Run(k), NEW v \in Users
    PROVE  \/ conns'[v] = conns[v]
           \/ /\ LeaveClear(k) /\ conns[v].session = task[k].handle.session
              /\ Online(v) /\ conns'[v].sender = conns[v].sender
           \/ /\ v = UserOf[k]
              /\ \/ Register(k) /\ conns'[v].sender = k
                 \/ Cleanup(k) /\ conns'[v] = NoHandle
                 \/ /\ \/ Takeover(k) \/ LeaveDone(k)
                       \/ CreateConn(k) \/ JoinConn(k)
                    /\ conns'[v].sender = conns[v].sender
<1> DEFINE u == UserOf[k]
<1>f. u \in Users /\ FrameOK(k) /\ task[k].rest \in SUBSET Users
  BY FrameType
<1>1. CASE UNCHANGED conns
  BY <1>1
<1>2. ASSUME NEW w \in Users, NEW s, conns' = SetSession(w, s)
      PROVE  \/ conns'[v] = conns[v]
             \/ v = w /\ Online(v) /\ conns'[v].sender = conns[v].sender
  <2>1. conns[w] \in Handle \cup {NoHandle}
    BY ConnType
  <2> QED BY <1>2, <2>1 DEF SetSession, TypeOK, Handle, NoHandle, Online
<1>3. CASE Register(k)
  BY <1>3, <1>f DEF Register, TypeOK
<1>4. CASE Cleanup(k)
  BY <1>4, <1>f DEF Cleanup, TypeOK
<1>5. CASE Takeover(k) \/ CreateConn(k) \/ JoinConn(k) \/ LeaveDone(k)
  BY <1>5, <1>1, <1>2, <1>f DEF Takeover, CreateConn, JoinConn, LeaveDone
<1>6. CASE LeaveClear(k)
  BY <1>6, <1>1, <1>2, <1>f DEF LeaveClear
<1> QED
  <2>1. CASE Wake(k)
    BY <2>1, <1>1, <1>3 DEF Wake, AuthFail, Break, ReceiveCreate,
          ReceiveJoin, ReceiveLeave, ReceiveNewMedia, Receive
  <2>2. CASE Run(k)
    BY <2>2, <1>1, <1>4, <1>5, <1>6
    DEF Run, Greet, CreateCheck, CreateInsert, CreateReply, JoinCheck,
        JoinLookup, JoinInsert, JoinReply, Reply, LeaveConn, LeaveRemove,
        LeaveRest, LeaveEmpty, LeaveTell, LeaveDrop, MediaConn, MediaCheck,
        MediaSet
  <2> QED BY <2>1, <2>2

LEMMA OwnConnsStep ==
    ASSUME TypeOK, OwnConns, NEW k \in Sockets, Wake(k) \/ Run(k)
    PROVE  OwnConns'
<1> SUFFICES ASSUME NEW v \in Users, Online(v)'
             PROVE  /\ UserOf[conns'[v].sender] = v
                    /\ task'[conns'[v].sender].pc # "auth"
  BY DEF OwnConns, At
<1>1. Online(v) => conns[v].sender \in Sockets
  BY ConnType DEF Handle
<1>2. CASE Online(v) /\ conns'[v].sender = conns[v].sender
  BY <1>1, <1>2, RegisteredStays DEF OwnConns
<1>3. CASE v = UserOf[k] /\ conns'[v].sender = k
  BY <1>3, RegisteredStays
<1>4. CASE conns'[v].sender = conns[v].sender
  <2>1. conns'[v] \in Handle \cup {NoHandle}
    BY ConnsStep
  <2>2. conns'[v].sender # None
    BY <2>1, NoneAssumption DEF Online, Handle
  <2> QED BY <1>2, <1>4, <2>2, ConnType
<1>5. conns'[v] # NoHandle
  BY DEF Online
<1> QED BY <1>3, <1>4, <1>5, ConnFrom

LEMMA OwnEntriesStep ==
    ASSUME TypeOK, GuardedExists, OwnEntries, NEW k \in Sockets, Wake(k) \/ Run(k)
    PROVE  OwnEntries'
<1> SUFFICES ASSUME NEW s \in SessionIds, NEW v \in Members(s)'
             PROVE  /\ UserOf[sessions'[s].participants[v].sender] = v
                    /\ task'[sessions'[s].participants[v].sender].pc # "auth"
  BY DEF OwnEntries, At
<1>1. ASSUME v \in Members(s) PROVE sessions[s].participants[v].sender \in Sockets
  BY <1>1, SessionRoster DEF Participant
<1> QED BY <1>1, EntryFrom, RegisteredStays DEF OwnEntries

\* A takeover follows upon a registration that has found a session.
LEMMA TakeoverAfter ==
    ASSUME TypeOK, NEW k \in Sockets, Wake(k) \/ Run(k), At(k, "takeover")'
    PROVE  Register(k) /\ conns[UserOf[k]].session # None
<1>t. task'[k].pc = "takeover"
  BY DEF At
<1>f. task[k].ret # "takeover"
  BY FrameType
<1>1. ASSUME NEW l, l # "takeover", Goto(k, l) PROVE FALSE
  BY <1>1, <1>t, GotoFrame
<1>2. ASSUME NEW l, NEW s, l # "takeover", Enter(k, l, s) PROVE FALSE
  BY <1>2, <1>t, EnterFrame
<1>3. ASSUME NEW l, NEW h, NEW r, NEW m, l # "takeover", Carry(k, l, h, r, m)
      PROVE  FALSE
  BY <1>3, <1>t, CarryFrame
<1>4. ASSUME Await(k) PROVE FALSE
  BY <1>2, <1>4 DEF Await
<1>5. ASSUME LeaveReturn(k) PROVE FALSE
  BY <1>1, <1>2, <1>5 DEF LeaveReturn
<1>6. CASE Wake(k)
  BY <1>6, <1>1, <1>2, <1>3 DEF Wake, AuthFail, Register, Break,
     ReceiveCreate, ReceiveJoin, ReceiveLeave, ReceiveNewMedia, Receive
<1>7. CASE Takeover(k) \/ Greet(k) \/ Cleanup(k) \/ CreateCheck(k)
           \/ CreateInsert(k) \/ CreateConn(k) \/ CreateReply(k)
  BY <1>7, <1>1, <1>2, <1>3, <1>4
  DEF Takeover, Greet, Cleanup, CreateCheck, CreateInsert, CreateConn,
      CreateReply, Reply
<1>8. CASE JoinCheck(k) \/ JoinLookup(k) \/ JoinInsert(k) \/ JoinConn(k)
           \/ JoinReply(k) \/ MediaConn(k) \/ MediaCheck(k) \/ MediaSet(k)
  BY <1>8, <1>1, <1>2, <1>3, <1>4
  DEF JoinCheck, JoinLookup, JoinInsert, JoinConn, JoinReply, Reply,
      MediaConn, MediaCheck, MediaSet
<1>9. CASE LeaveConn(k) \/ LeaveRemove(k) \/ LeaveRest(k) \/ LeaveEmpty(k)
           \/ LeaveDone(k)
  BY <1>9, <1>f, <1>1, <1>2, <1>3, <1>5
  DEF LeaveConn, LeaveRemove, LeaveRest, LeaveEmpty, LeaveDone
<1>10. CASE LeaveTell(k)
  BY <1>10, <1>1 DEF LeaveTell
<1>11. CASE LeaveClear(k)
  <2>1. PICK v \in task[k].rest : \E l \in {"leave_drop", "leave_clear"} :
            Carry(k, l, task[k].handle, task[k].ret, task[k].rest \ {v})
    BY <1>11 DEF LeaveClear
  <2> QED BY <2>1, <1>3
<1>12. CASE LeaveDrop(k)
  BY <1>12, <1>5 DEF LeaveDrop
<1> QED
  BY <1>6, <1>7, <1>8, <1>9, <1>10, <1>11, <1>12 DEF Run

LEMMA TakenOverStep ==
    ASSUME TypeOK, OwnConns, TakenOver, NEW k \in Sockets, Wake(k) \/ Run(k)
    PROVE  TakenOver'
<1> SUFFICES ASSUME NEW j \in Sockets, At(j, "takeover")', ConnectedOnce(UserOf[j])'
             PROVE  FALSE
  BY DEF TakenOver
<1>f. UserOf[j] \in Users
  BY UserOfAssumption
<1>1. CASE j # k
  <2>1. At(j, "takeover")
    BY <1>1, OthersKept DEF At
  <2> QED BY <1>f, <2>1, OnceBefore DEF TakenOver
<1>2. CASE j = k
  <2>1. Register(k) /\ conns[UserOf[k]].session # None
    BY <1>2, TakeoverAfter
  <2>2. Online(UserOf[k]) /\ conns[UserOf[k]].sender \in Sockets
    BY <1>2, <1>f, <2>1, ConnType, NoneAssumption DEF Handle
  <2>3. PICK i \in Sockets : UserOf[i] = UserOf[k] /\ ~At(i, "auth")
    BY <1>2, <1>f, <2>2 DEF OwnConns
  <2>4. i # k
    BY <2>1, <2>3 DEF Register
  <2>5. task'[i].pc # "auth" /\ task'[k].pc # "auth"
    BY <2>3, RegisteredStays
  <2> QED BY <1>2, <2>3, <2>4, <2>5 DEF ConnectedOnce, At
<1> QED BY <1>1, <1>2

\* A socket that has cleaned up stays away.
LEMMA GoneStays ==
    ASSUME TypeOK, NEW k \in Sockets, Wake(k) \/ Run(k), Gone(k)
    PROVE  Gone(k)'
<1>1. ~At(k, "closed")
  BY DEF At, Wake, Run, AuthFail, Register, Break, ReceiveCreate,
     ReceiveJoin, ReceiveLeave, ReceiveNewMedia, Receive, Takeover, Greet,
     Cleanup, CreateCheck, CreateInsert, CreateConn, CreateReply, JoinCheck,
     JoinLookup, JoinInsert, JoinConn, JoinReply, LeaveConn, LeaveRemove,
     LeaveRest, LeaveEmpty, LeaveTell, LeaveClear, LeaveDrop, LeaveDone,
     MediaConn, MediaCheck, MediaSet
<1>2. task[k].ret = "closed"
  BY <1>1 DEF Gone
<1>3. CASE LeaveReturn(k)
  <2>1. Enter(k, "closed", None)
    BY <1>2, <1>3 DEF LeaveReturn
  <2> QED BY <2>1, EnterFrame DEF Gone, At
<1>4. CASE LeaveRest(k) \/ LeaveClear(k)
  <2>1. PICK l \in {"leave_empty", "leave_drop", "leave_clear"} :
            \E m : Carry(k, l, task[k].handle, task[k].ret, m)
    BY <1>4 DEF LeaveRest, LeaveClear
  <2>2. PICK m : Carry(k, l, task[k].handle, task[k].ret, m)
    BY <2>1
  <2> QED BY <1>2, <2>1, <2>2, CarryFrame DEF Gone
<1>5. CASE LeaveRemove(k) \/ LeaveEmpty(k) \/ LeaveTell(k) \/ LeaveDrop(k)
  <2>1. CASE \E l \in {"leave_rest", "leave_drop", "leave_tell", "leave_clear"} :
                 Goto(k, l)
    BY <1>2, <2>1, GotoFrame DEF Gone
  <2> QED BY <1>3, <1>5, <2>1 DEF LeaveRemove, LeaveEmpty, LeaveTell, LeaveDrop
<1> QED
  BY <1>1, <1>4, <1>5
  DEF Gone, Wake, Run, At, AuthFail, Register, Break, ReceiveCreate,
      ReceiveJoin, ReceiveLeave, ReceiveNewMedia, Receive, Takeover, Greet,
      Cleanup, CreateCheck, CreateInsert, CreateConn, CreateReply, JoinCheck,
      JoinLookup, JoinInsert, JoinConn, JoinReply, LeaveConn, LeaveDone,
      MediaConn, MediaCheck, MediaSet

\* The only socket of its user is live until its own cleanup.
LEMMA SoleLiveStep ==
    ASSUME TypeOK, SoleLive, NEW k \in Sockets, Wake(k) \/ Run(k)
    PROVE  SoleLive'
<1> SUFFICES ASSUME NEW j \in Sockets, ConnectedOnce(UserOf[j])',
                    ~At(j, "auth")', ~Gone(j)'
             PROVE  Live(j)'
  BY DEF SoleLive
<1> DEFINE u == UserOf[j]
<1>f. u \in Users
  BY UserOfAssumption
<1>1. CASE j # k
  <2>1. task'[j] = task[j]
    BY <1>1, OthersKept
  <2>2. ~At(j, "auth") /\ ~Gone(j)
    BY <2>1 DEF At, Gone
  <2>3. Live(j) /\ UserOf[k] # u
    BY <1>1, <1>f, <2>2, OnceBefore DEF SoleLive
  <2> QED BY <1>f, <2>3, ConnFrom DEF Live
<1>2. CASE j = k /\ Register(k)
  BY <1>2, <1>f DEF Register, Live, TypeOK
<1>3. CASE j = k /\ ~Register(k)
  <2>1. ~AuthFail(k)
    BY <1>3, GotoFrame DEF AuthFail, Gone, At
  <2>2. ~At(k, "auth")
    BY <1>3, <2>1
    DEF At, Wake, Run, Break, ReceiveCreate, ReceiveJoin, ReceiveLeave,
        ReceiveNewMedia, Receive, Takeover, Greet, Cleanup, CreateCheck,
        CreateInsert, CreateConn, CreateReply, JoinCheck, JoinLookup,
        JoinInsert, JoinConn, JoinReply, LeaveConn, LeaveRemove, LeaveRest,
        LeaveEmpty, LeaveTell, LeaveClear, LeaveDrop, LeaveDone, MediaConn,
        MediaCheck, MediaSet
  <2>3. Live(k)
    BY <1>3, <1>f, <2>2, GoneStays, OnceBefore DEF SoleLive
  <2>4. ~Cleanup(k)
    <3>1. SUFFICES ASSUME Cleanup(k) PROVE Gone(k)'
      BY <1>3
    <3>2. CASE Carry(k, "leave_remove", conns[u], "closed", {})
      BY <3>2, CarryFrame DEF Gone
    <3>3. CASE Goto(k, "closed")
      BY <3>3, GotoFrame DEF Gone, At
    <3> QED BY <1>3, <3>1, <3>2, <3>3 DEF Cleanup
  <2> QED BY <1>3, <1>f, <2>3, <2>4, ConnFrom DEF Live
<1> QED BY <1>1, <1>2, <1>3

\* A removal that has begun to clear the connections ends with the session.
LEMMA DroppingKept ==
    ASSUME TypeOK, NEW k \in Sockets, Wake(k) \/ Run(k), NEW s \in SessionIds,
           Dropping(s)
    PROVE  Dropping(s)' \/ DroppedBy(k, s)
<1>1. PICK j \in Sockets : /\ task[j].pc \in {"leave_clear", "leave_drop"}
                           /\ task[j].handle.session = s
  BY DEF Dropping
<1>2. CASE j # k
  BY <1>1, <1>2, OthersKept DEF Dropping
<1>3. CASE j = k /\ LeaveClear(k)
  <2>1. PICK l \in {"leave_drop", "leave_clear"} :
            \E m : Carry(k, l, task[k].handle, task[k].ret, m)
    BY <1>3 DEF LeaveClear
  <2>2. PICK m : Carry(k, l, task[k].handle, task[k].ret, m)
    BY <2>1
  <2> QED BY <1>1, <1>3, <2>1, <2>2, CarryFrame DEF Dropping
<1>4. CASE j = k /\ LeaveDrop(k)
  BY <1>1, <1>4 DEF DroppedBy
<1> QED
  BY <1>1, <1>2, <1>3, <1>4
  DEF Wake, Run, At, AuthFail, Register, Break, ReceiveCreate, ReceiveJoin,
      ReceiveLeave, ReceiveNewMedia, Receive, Takeover, Greet, Cleanup,
      CreateCheck, CreateInsert, CreateConn, CreateReply, JoinCheck,
      JoinLookup, JoinInsert, JoinConn, JoinReply, LeaveConn, LeaveRemove,
      LeaveRest, LeaveEmpty, LeaveTell, LeaveDone, MediaConn, MediaCheck,
      MediaSet

\* And leaves no entry in it.
LEMMA DroppedEmpty ==
    ASSUME TypeOK, NEW k \in Sockets, NEW s \in SessionIds, DroppedBy(k, s)
    PROVE  Members(s)' = {}
BY DEF DroppedBy, LeaveDrop, TypeOK, Members, NoSession

\* Between two settled points a handler leaves its user's connection alone.
LEMMA SettledStep ==
    ASSUME TypeOK, NEW k \in Sockets, Wake(k) \/ Run(k),
           task[k].pc \in Settled, NEW s \in SessionIds,
           conns[UserOf[k]].session = s, Live(k)
    PROVE  \/ task'[k].pc \in Settled /\ UNCHANGED conns
           \/ /\ At(k, "leave_remove")'
              /\ task'[k].handle = conns[UserOf[k]]
<1> USE DEF Settled
<1>n. s # None
  BY NoneAssumption
<1>1. ASSUME NEW l \in Settled, Goto(k, l) PROVE task'[k].pc \in Settled
  BY <1>1, GotoFrame
<1>2. ASSUME NEW l \in Settled, NEW g, Enter(k, l, g) PROVE task'[k].pc \in Settled
  BY <1>2, EnterFrame
<1>3. ASSUME NEW l \in Settled, NEW h, NEW r, NEW m, Carry(k, l, h, r, m)
      PROVE  task'[k].pc \in Settled
  BY <1>3, CarryFrame
<1>4. ASSUME Await(k) PROVE task'[k].pc \in Settled
  BY <1>2, <1>4 DEF Await
<1>5. CASE Cleanup(k) \/ LeaveConn(k)
  <2>1. PICK r : Carry(k, "leave_remove", conns[UserOf[k]], r, {})
    BY <1>5, <1>n DEF Cleanup, LeaveConn
  <2> QED BY <2>1, CarryFrame DEF At
<1>6. CASE Wake(k)
  BY <1>6, <1>1, <1>2
  DEF Wake, AuthFail, Register, Break, ReceiveCreate, ReceiveJoin,
      ReceiveLeave, ReceiveNewMedia, Receive, At
<1>7. CASE Greet(k) \/ CreateCheck(k) \/ CreateReply(k) \/ JoinCheck(k)
           \/ JoinReply(k)
  BY <1>7, <1>1, <1>3, <1>4
  DEF Greet, CreateCheck, CreateReply, JoinCheck, JoinReply, Reply
<1>8. CASE MediaConn(k) \/ MediaCheck(k) \/ MediaSet(k)
  BY <1>8, <1>1, <1>2, <1>4 DEF MediaConn, MediaCheck, MediaSet
<1> QED
  BY <1>5, <1>6, <1>7, <1>8
  DEF Run, At, Takeover, CreateInsert, CreateConn, JoinLookup, JoinInsert,
      JoinConn, LeaveRemove, LeaveRest, LeaveEmpty, LeaveTell, LeaveClear,
      LeaveDrop, LeaveDone

\* Socket k's step and an entry through its own channel.
LEMMA AnchoredOwn ==
    ASSUME TypeOK, SoleLive, NEW k \in Sockets, Wake(k) \/ Run(k),
           NEW s \in SessionIds, ConnectedOnce(UserOf[k]), ~At(k, "auth"),
           UserOf[k] \in Members(s)', MemberVia(s, UserOf[k], k),
           Anchored(k, s), ~Dropping(s)
    PROVE  Anchored(k, s)'
<1> DEFINE u == UserOf[k]
<1>f. u \in Users /\ s # None
  BY FrameType, NoneAssumption
<1>1. CASE task[k].pc \in Settled /\ conns[u].session = s /\ Live(k)
  BY <1>1, SettledStep DEF Anchored, Live
<1>2. CASE task[k].pc \in {"create_conn", "join_conn"} /\ task[k].arg = s
  <2>1. Live(k)
    BY <1>2 DEF SoleLive, Gone, At
  <2>2. conns[u] \in Handle /\ Online(u)
    BY <1>f, <2>1, ConnType, NoneAssumption DEF Live
  <2>3. CreateConn(k) \/ JoinConn(k)
    BY <1>2
    DEF At, Wake, Run, AuthFail, Register, Break, ReceiveCreate, ReceiveJoin,
        ReceiveLeave, ReceiveNewMedia, Receive, Takeover, Greet, Cleanup,
        CreateCheck, CreateInsert, CreateReply, JoinCheck, JoinLookup,
        JoinInsert, JoinReply, LeaveConn, LeaveRemove, LeaveRest, LeaveEmpty,
        LeaveTell, LeaveClear, LeaveDrop, LeaveDone, MediaConn, MediaCheck,
        MediaSet
  <2>4. conns' = [conns EXCEPT ![u].session = s]
    BY <1>2, <2>2, <2>3 DEF CreateConn, JoinConn, SetSession
  <2>5. conns'[u].session = s /\ conns'[u].sender = k
    BY <1>f, <2>1, <2>2, <2>4 DEF TypeOK, Handle, Live
  <2>6. task'[k].pc \in Settled
    BY <2>3, GotoFrame DEF CreateConn, JoinConn, Settled
  <2> QED BY <2>5, <2>6 DEF Anchored, Live
<1>3. CASE At(k, "leave_remove") /\ task[k].handle.session = s
           /\ task[k].handle.sender = k
  <2>1. LeaveRemove(k)
    BY <1>3
    DEF At, Wake, Run, AuthFail, Register, Break, ReceiveCreate, ReceiveJoin,
        ReceiveLeave, ReceiveNewMedia, Receive, Takeover, Greet, Cleanup,
        CreateCheck, CreateInsert, CreateConn, CreateReply, JoinCheck,
        JoinLookup, JoinInsert, JoinConn, JoinReply, LeaveConn, LeaveRest,
        LeaveEmpty, LeaveTell, LeaveClear, LeaveDrop, LeaveDone, MediaConn,
        MediaCheck, MediaSet
  <2>2. sessions' = [sessions EXCEPT ![s] = [@ EXCEPT !.participants = WithoutMember(s, u)]]
    BY <1>3, <2>1 DEF LeaveRemove
  <2>3. sessions[s] \in Session
    BY ExistsSession DEF MemberVia
  <2>4. Members(s)' = Members(s) \ {u}
    BY <2>2, <2>3 DEF TypeOK, Session, Members, WithoutMember
  <2> QED BY <2>4
<1> QED BY <1>1, <1>2, <1>3 DEF Anchored

\* And one through another channel, of a user other than k's.
LEMMA AnchoredOther ==
    ASSUME TypeOK, NEW k \in Sockets, Wake(k) \/ Run(k),
           NEW s \in SessionIds, NEW e \in Sockets, e # k,
           UserOf[e] # UserOf[k], Anchored(e, s), ~Dropping(s)
    PROVE  Anchored(e, s)'
<1> DEFINE v == UserOf[e]
<1>f. v \in Users
  BY UserOfAssumption
<1>1. task'[e] = task[e]
  BY OthersKept
<1>2. CASE task[e].pc \in Settled /\ conns[v].session = s /\ Live(e)
  <2>1. ~(LeaveClear(k) /\ task[k].handle.session = s)
    BY DEF LeaveClear, At, Dropping
  <2>2. conns'[v] = conns[v]
    BY <1>2, <1>f, <2>1, ConnFrom
  <2> QED BY <1>1, <1>2, <2>2 DEF Anchored, Live
<1> QED BY <1>1, <1>2 DEF Anchored, At

\* What a claim makes of an entry: its handler is about to set the connection.
LEMMA AnchoredClaim ==
    ASSUME TypeOK, TakenOver, NEW k \in Sockets, Wake(k) \/ Run(k),
           NEW s \in SessionIds, ConnectedOnce(UserOf[k]), Claims(k, s)
    PROVE  Anchored(k, s)'
<1>1. JoinInsert(k) \/ CreateInsert(k)
  BY DEF Claims, TakenOver, Takeover
<1>2. task[k].arg = s
  BY <1>1 DEF Claims, Takeover, JoinInsert, CreateInsert, At
<1>3. Goto(k, "join_conn") \/ Goto(k, "create_conn")
  BY <1>1 DEF JoinInsert, CreateInsert
<1> QED BY <1>2, <1>3, GotoFrame DEF Anchored

LEMMA AllAnchoredStep ==
    ASSUME GhostIInv, NEW k \in Sockets, Wake(k) \/ Run(k)
    PROVE  AllAnchored'
<1> SUFFICES ASSUME NEW s \in SessionIds, NEW v \in Members(s)',
                    ConnectedOnce(v)'
             PROVE  Anchored(sessions[s].participants[v].sender, s)'
  BY DEF AllAnchored
<1> PICK e : e = sessions'[s].participants[v].sender
  OBVIOUS
<1> SUFFICES Anchored(e, s)'
  BY DEF Anchored, Live, Dropping, At
<1> USE DEF GhostIInv, IInv
<1>0. v \in Users
  <2>1. v \in Members(s) \/ v = UserOf[k]
    BY EntryFrom
  <2> QED BY <2>1, SessionRoster, UserOfAssumption
<1>1. ConnectedOnce(v) /\ \A j \in Sockets : UserOf[j] = v /\ ~At(j, "auth") =>
                              j = k \/ UserOf[k] # v
  BY <1>0, OnceBefore
<1>2. CASE v = UserOf[k] /\ e = k /\ Claims(k, s)
  BY <1>1, <1>2, AnchoredClaim
<1>3. CASE v \in Members(s) /\ e = sessions[s].participants[v].sender
  <2>1. e \in Sockets /\ UserOf[e] = v /\ ~At(e, "auth") /\ Anchored(e, s)
    BY <1>1, <1>3, SessionRoster DEF Participant, OwnEntries, AllAnchored
  <2>2. ~DroppedBy(k, s)
    BY DroppedEmpty
  <2>3. CASE Dropping(s)
    BY <2>2, <2>3, DroppingKept DEF Anchored
  <2>4. CASE ~Dropping(s) /\ e = k
    BY <1>1, <1>3, <2>1, <2>4, AnchoredOwn DEF MemberVia
  <2>5. CASE ~Dropping(s) /\ e # k
    BY <1>1, <2>1, <2>5, AnchoredOther
  <2> QED BY <2>3, <2>4, <2>5
<1> QED BY <1>2, <1>3, EntryFrom

-----------------------------------------------------------------------------

LEMMA GhostInit == Init => GhostIInv
<1> SUFFICES ASSUME Init PROVE GhostIInv
  OBVIOUS
<1>1. \A s \in SessionIds : Members(s) = {}
  BY DEF Init, Members, NoSession
<1>2. \A u \in Users : ~Online(u)
  BY DEF Init, Online
<1>3. \A k \in Sockets : At(k, "auth")
  BY DEF Init, At, NewFrame
<1>4. TakenOver
  BY <1>3 DEF TakenOver, At
<1> QED BY <1>1, <1>2, <1>3, <1>4, IInvInit
        DEF GhostIInv, OwnConns, OwnEntries, SoleLive, AllAnchored

LEMMA GhostNext == GhostIInv /\ [Next]_vars => GhostIInv'
<1> SUFFICES ASSUME GhostIInv, [Next]_vars PROVE GhostIInv'
  OBVIOUS
<1>0. IInv'
  BY IInvNext DEF GhostIInv
<1>1. CASE Next
  <2>1. PICK k \in Sockets : Wake(k) \/ Run(k)
    BY <1>1 DEF Next
  <2>2. OwnConns' /\ OwnEntries' /\ TakenOver' /\ SoleLive'
    BY <2>1, OwnConnsStep, OwnEntriesStep, TakenOverStep, SoleLiveStep
    DEF GhostIInv, IInv
  <2> QED BY <1>0, <2>1, <2>2, AllAnchoredStep DEF GhostIInv
<1>2. CASE UNCHANGED vars
  <2> USE <1>2 DEF GhostIInv, vars
  <2>1. OwnConns'
    BY DEF OwnConns, Online, At
  <2>2. OwnEntries'
    BY DEF OwnEntries, Members, At
  <2>3. TakenOver'
    BY DEF TakenOver, ConnectedOnce, At
  <2>4. SoleLive'
    BY DEF SoleLive, ConnectedOnce, Gone, Live, At
  <2>5. AllAnchored'
    <3>1. UNCHANGED sessions /\ UNCHANGED conns /\ UNCHANGED task
      OBVIOUS
    <3>2. \A u : ConnectedOnce(u)' <=> ConnectedOnce(u)
      BY <3>1 DEF ConnectedOnce, At
    <3> SUFFICES ASSUME NEW s \in SessionIds, NEW u \in Members(s)',
                        ConnectedOnce(u)'
                 PROVE  Anchored(sessions[s].participants[u].sender, s)'
      BY DEF AllAnchored
    <3>3. Anchored(sessions[s].participants[u].sender, s)
      BY <3>1, <3>2 DEF AllAnchored, Members
    <3> QED BY <3>1, <3>3 DEF Anchored, Dropping, Live, At
  <2> QED BY <1>0, <2>1, <2>2, <2>3, <2>4, <2>5
<1> QED BY <1>1, <1>2

\* At rest no session is being dropped and no handler is about to set a
\* connection, so that an entry of such a user is its connection's.
LEMMA GhostAtRest == GhostIInv => GhostsReconnected
<1> SUFFICES ASSUME GhostIInv, Quiet, NEW s \in SessionIds,
                    NEW v \in Members(s), ConnectedOnce(v)
             PROVE  /\ conns[v].session = s
                    /\ MemberVia(s, v, conns[v].sender)
  BY DEF GhostsReconnected
<1> DEFINE e == sessions[s].participants[v].sender
<1>1. e \in Sockets /\ UserOf[e] = v /\ Anchored(e, s)
  BY SessionRoster DEF GhostIInv, IInv, Participant, OwnEntries, AllAnchored
<1>2. ~Dropping(s)
  BY DEF Quiet, Busy, Running, Dropping
<1>3. task[e].pc \notin {"create_conn", "join_conn", "leave_remove"}
  BY <1>1 DEF Quiet, Busy, Running
<1>4. conns[v].session = s /\ conns[v].sender = e
  BY <1>1, <1>2, <1>3 DEF Anchored, At, Live
<1> QED BY <1>4 DEF MemberVia

\* However the handlers of any number of workers interleave, a user who has
\* not reconnected leaves no ghost: at rest its only entry is that of its
\* connection, in the session that connection names.
THEOREM OnlyReconnectedLeaveGhosts == Spec => []GhostsReconnected
<1>1. Spec => []GhostIInv
  BY GhostInit, GhostNext, PTL DEF Spec
<1> QED BY <1>1, GhostAtRest, PTL

-----------------------------------------------------------------------------
(* RelayLocks: locks are taken in one order by every handler. *)

Rank == [sessions |-> 1, roster |-> 2, connections |-> 3, store |-> 4]

Maps == {"sessions", "roster", "connections", "store"}

RowOK(r) ==
    /\ r.mode \in {"read", "write"} /\ r.map \in Maps
    /\ \A m \in r.keeps : m \in Maps /\ Rank[m] < Rank[r.map]
    /\ r.map = "roster" => "sessions" \in r.keeps

\* What a thread keeps comes before what it asks for.
Ascends(t) ==
    /\ holds[t] \in SUBSET Guard
    /\ wants[t] \in Guard \cup {Nobody}
    /\ Waiting(t) => \A h \in holds[t] : Rank[h.map] < Rank[wants[t].map]

Ordered ==
    /\ holds \in [Threads -> SUBSET Guard]
    /\ wants \in [Threads -> Guard \cup {Nobody}]
    /\ at = [t \in Threads |-> at[t]]
    /\ \A t \in Threads : Ascends(t)
    /\ \A t \in Threads : at[t] = "idle" => holds[t] = {} /\ ~Waiting(t)

LEMMA RowsOrdered == \A r \in Rows : RowOK(r) /\ r.label # "idle"
<1> DEFINE Fine(r) == RowOK(r) /\ r.label # "idle"
<1>1. \A r \in ConnectionRows : Fine(r)
  BY DEF ConnectionRows, Row, RowOK, Maps, Rank
<1>2. \A r \in SendRows : Fine(r)
  BY DEF SendRows, Row, RowOK, Maps, Rank
<1>3. \A r \in CreateRows : Fine(r)
  BY DEF CreateRows, Row, RowOK, Maps, Rank
<1>4. \A r \in JoinRows : Fine(r)
  BY DEF JoinRows, Row, RowOK, Maps, Rank
<1>5. \A r \in LeaveRows : Fine(r)
  BY DEF LeaveRows, Row, RowOK, Maps, Rank
<1>6. \A r \in InviteRows : Fine(r)
  BY DEF InviteRows, Row, RowOK, Maps, Rank
<1>7. \A r \in PlaybackRows : Fine(r)
  BY DEF PlaybackRows, Row, RowOK, Maps, Rank
<1>8. \A r \in OtherRows : Fine(r)
  BY DEF OtherRows, Row, RowOK, Maps, Rank
<1>. QED  BY <1>1, <1>2, <1>3, <1>4, <1>5, <1>6, <1>7, <1>8 DEF Rows

LEMMA ComesOrdered ==
    ASSUME Ordered, NEW t \in Threads, NEW r \in Rows, Comes(t, r)
    PROVE  Ordered'
<1> DEFINE kept == {g \in holds[t] : g.map \in r.keeps}
<1>1. RowOK(r) /\ r.label # "idle"
  BY RowsOrdered
<1>2. kept \in SUBSET Guard
  BY DEF Ordered
<1>3. PICK k : /\ k \in KeysOf(r.map, kept)
               /\ wants' = [wants EXCEPT ![t] =
                              [mode |-> r.mode, map |-> r.map, key |-> k]]
  BY DEF Comes
<1>4. k \in Ids \cup Names \cup {Nobody}
  <2>1. \A g \in kept : g.key \in Ids \cup Names \cup {Nobody}
    BY <1>2 DEF Guard
  <2>2. r.map \in Maps
    BY <1>1 DEF RowOK
  <2>3. CASE r.map = "roster"
    <3>1. KeysOf(r.map, kept) = {g.key : g \in kept}
      BY <2>3 DEF KeysOf
    <3>. QED  BY <3>1, <1>3, <2>1
  <2>4. CASE r.map = "sessions"
    BY <1>3, <2>4 DEF KeysOf
  <2>5. CASE r.map = "connections"
    BY <1>3, <2>5 DEF KeysOf
  <2>6. CASE r.map = "store"
    BY <1>3, <2>6 DEF KeysOf
  <2>. QED  BY <2>2, <2>3, <2>4, <2>5, <2>6 DEF Maps
<1> DEFINE g == [mode |-> r.mode, map |-> r.map, key |-> k]
<1>5. g \in Guard
  BY <1>1, <1>4 DEF RowOK, Guard, Maps
<1>6. \A h \in kept : Rank[h.map] < Rank[g.map]
  BY <1>1 DEF RowOK
<1>7. holds' = [holds EXCEPT ![t] = kept] /\ at' = [at EXCEPT ![t] = r.label]
  BY DEF Comes
<1>8. ASSUME NEW u \in Threads PROVE Ascends(u)'
  <2>1. CASE u = t
    <3>1. holds'[u] = kept /\ wants'[u] = g
      BY <2>1, <1>3, <1>7 DEF Ordered
    <3>. QED  BY <3>1, <1>2, <1>5, <1>6 DEF Ascends, Waiting
  <2>2. CASE u # t
    <3>1. holds'[u] = holds[u] /\ wants'[u] = wants[u]
      BY <2>2, <1>3, <1>7 DEF Ordered
    <3>. QED  BY <3>1 DEF Ordered, Ascends, Waiting
  <2>. QED  BY <2>1, <2>2
<1>9. /\ holds' \in [Threads -> SUBSET Guard]
      /\ wants' \in [Threads -> Guard \cup {Nobody}]
      /\ at' = [u \in Threads |-> at'[u]]
  BY <1>1, <1>2, <1>3, <1>5, <1>7 DEF Ordered
<1>10. ASSUME NEW u \in Threads, at'[u] = "idle"
       PROVE  holds'[u] = {} /\ ~Waiting(u)'
  <2>1. u # t
    BY <1>1, <1>7, <1>10 DEF Ordered
  <2>2. holds'[u] = holds[u] /\ wants'[u] = wants[u] /\ at'[u] = at[u]
    BY <2>1, <1>3, <1>7 DEF Ordered
  <2>. QED  BY <2>2, <1>10 DEF Ordered, Waiting
<1>. QED  BY <1>8, <1>9, <1>10 DEF Ordered

LEMMA OrderedNext == Ordered /\ [LocksNext]_lockVars => Ordered'
<1> SUFFICES ASSUME Ordered, [LocksNext]_lockVars PROVE Ordered'
  OBVIOUS
<1>1. ASSUME NEW t \in Threads, Start(t) PROVE Ordered'
  BY <1>1, ComesOrdered DEF Start
<1>2. ASSUME NEW t \in Threads, Acquire(t) PROVE Ordered'
  <2>1. /\ wants' = [wants EXCEPT ![t] = Nobody] /\ at' = at
        /\ holds' = [holds EXCEPT ![t] = @ \cup {wants[t]}]
        /\ wants[t] \in Guard
    BY <1>2 DEF Acquire, Ordered, Waiting
  <2>2. /\ holds' \in [Threads -> SUBSET Guard]
        /\ wants' \in [Threads -> Guard \cup {Nobody}]
    BY <2>1 DEF Ordered
  <2>3. at[t] # "idle"
    BY <1>2 DEF Ordered, Acquire
  <2>4. ASSUME NEW u \in Threads
        PROVE  /\ Ascends(u)'
               /\ at'[u] = "idle" => holds'[u] = {} /\ ~Waiting(u)'
    <3>1. CASE u = t
      BY <3>1, <2>1, <2>2, <2>3 DEF Ordered, Ascends, Waiting
    <3>2. CASE u # t
      <4>1. holds'[u] = holds[u] /\ wants'[u] = wants[u] /\ at'[u] = at[u]
        BY <3>2, <2>1 DEF Ordered
      <4>. QED  BY <4>1 DEF Ordered, Ascends, Waiting
    <3>. QED  BY <3>1, <3>2
  <2>. QED  BY <2>1, <2>2, <2>4 DEF Ordered
<1>3. ASSUME NEW t \in Threads, Proceed(t) PROVE Ordered'
  <2>1. CASE \E n \in Rows : Comes(t, n)
    BY <2>1, ComesOrdered
  <2>2. CASE /\ at' = [at EXCEPT ![t] = "idle"]
             /\ holds' = [holds EXCEPT ![t] = {}]
             /\ UNCHANGED wants
    <3>1. ~Waiting(t)
      BY <1>3 DEF Proceed
    <3>2. ASSUME NEW u \in Threads
          PROVE  /\ Ascends(u)'
                 /\ at'[u] = "idle" => holds'[u] = {} /\ ~Waiting(u)'
      <4>1. CASE u = t
        BY <4>1, <3>1, <2>2 DEF Ordered, Ascends, Waiting
      <4>2. CASE u # t
        <5>1. holds'[u] = holds[u] /\ wants'[u] = wants[u] /\ at'[u] = at[u]
          BY <4>2, <2>2 DEF Ordered
        <5>. QED  BY <5>1 DEF Ordered, Ascends, Waiting
      <4>. QED  BY <4>1, <4>2
    <3>. QED  BY <3>2, <2>2 DEF Ordered
  <2>. QED  BY <1>3, <2>1, <2>2 DEF Proceed
<1>4. CASE UNCHANGED lockVars
  BY <1>4 DEF lockVars, Ordered, Ascends, Waiting
<1>. QED  BY <1>1, <1>2, <1>3, <1>4 DEF LocksNext

\* Of threads that wait, one that waits for a lock of the highest rank, for
\* writing if any of these does, waits for none of them.
LEMMA HighestGoesOn == Ordered => NoCircle
<1> SUFFICES ASSUME Ordered,
                    NEW S \in SUBSET {t \in Threads : Waiting(t)}, S # {}
             PROVE  \E t \in S : \A u \in S : ~WaitsFor(t, u)
  BY DEF NoCircle
<1> DEFINE rank(t) == Rank[wants[t].map]
<1>1. \A t \in S : t \in Threads /\ Waiting(t) /\ wants[t] \in Guard
  BY DEF Ordered, Waiting
<1>2. \A t \in S : rank(t) \in 1..4
  BY <1>1 DEF Guard, Rank
<1>3. PICK t \in S : \A u \in S : rank(u) <= rank(t)
  <2>1. CASE \E t \in S : rank(t) = 4
    BY <1>2, <2>1
  <2>2. CASE ~(\E t \in S : rank(t) = 4) /\ \E t \in S : rank(t) = 3
    BY <1>2, <2>2
  <2>3. CASE ~(\E t \in S : rank(t) \in {3, 4}) /\ \E t \in S : rank(t) = 2
    BY <1>2, <2>3
  <2>4. CASE ~(\E t \in S : rank(t) \in {2, 3, 4})
    BY <1>2, <2>4
  <2>. QED  BY <2>1, <2>2, <2>3, <2>4
<1> DEFINE Top(u) == rank(u) = rank(t)
<1>4. PICK w \in S : /\ Top(w)
                     /\ wants[w].mode = "write"
                        \/ \A u \in S : Top(u) => wants[u].mode # "write"
  <2>1. CASE \E u \in S : Top(u) /\ wants[u].mode = "write"
    BY <2>1
  <2>2. CASE ~\E u \in S : Top(u) /\ wants[u].mode = "write"
    BY <2>2
  <2>. QED  BY <2>1, <2>2
<1>5. ASSUME NEW u \in S, WaitsFor(w, u) PROVE FALSE
  <2>1. CASE Excludes(u, w)
    <3>1. PICK h \in holds[u] : SameLock(h, wants[w])
      BY <2>1 DEF Excludes
    <3>2. h.map = wants[w].map
      BY <3>1 DEF SameLock
    <3>3. Rank[h.map] < rank(u)
      BY <1>1 DEF Ordered, Ascends
    <3>. QED  BY <3>2, <3>3, <1>2, <1>3, <1>4
  <2>2. CASE /\ SameLock(wants[u], wants[w])
             /\ wants[u].mode = "write" /\ wants[w].mode = "read"
    <3>1. Top(u)
      BY <2>2, <1>4 DEF SameLock
    <3>. QED  BY <3>1, <2>2, <1>4
  <2>. QED  BY <1>5, <2>1, <2>2 DEF WaitsFor
<1>. QED  BY <1>5

\* No handlers ever wait for each other in a circle: for any number of
\* threads, however keys fall into shards, and whichever order the locks serve.
THEOREM NobodyWaitsInACircle == LocksSpec => []NoCircle
<1>1. LocksInit => Ordered
  <2> SUFFICES ASSUME LocksInit PROVE Ordered
    OBVIOUS
  <2>1. \A t \in Threads : at[t] = "idle" /\ holds[t] = {} /\ wants[t] = Nobody
    BY DEF LocksInit
  <2>2. /\ holds \in [Threads -> SUBSET Guard]
        /\ wants \in [Threads -> Guard \cup {Nobody}]
        /\ at = [t \in Threads |-> at[t]]
    BY DEF LocksInit
  <2>3. \A t \in Threads : Ascends(t)
    BY <2>1 DEF Ascends, Waiting
  <2>. QED  BY <2>1, <2>2, <2>3 DEF Ordered, Waiting
<1>. QED  BY <1>1, OrderedNext, HighestGoesOn, PTL DEF LocksSpec
=============================================================================
