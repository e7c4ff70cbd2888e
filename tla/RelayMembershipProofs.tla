------------------------ MODULE RelayMembershipProofs ------------------------
(* Proofs about RelayMembership, for any users and session ids.              *)
EXTENDS RelayMembership, TLAPS

Inv == TypeOK /\ Membership

LEMMA InvInit == ASSUME NoneIsNobody PROVE Init => Inv
BY DEF NoneIsNobody, Init, Inv, TypeOK, Membership

\* When u has left, nobody is in a session u hosted, and all the others are
\* where they were.
LEMMA WithoutLeaves ==
    ASSUME NoneIsNobody, Inv, NEW u \in Users
    PROVE  /\ RoomsWithout(u) \in [Users -> SessionIds \cup {None}]
           /\ HostsWithout(u) \in [SessionIds -> Users \cup {None}]
           /\ RoomsWithout(u)[u] = None
           /\ \A s \in SessionIds : HostsWithout(u)[s] # None =>
                 /\ HostsWithout(u)[s] = host[s]
                 /\ RoomsWithout(u)[host[s]] = s
           /\ \A v \in Users : RoomsWithout(u)[v] # None =>
                 /\ RoomsWithout(u)[v] = room[v]
                 /\ HostsWithout(u)[room[v]] # None
<1> USE DEF NoneIsNobody, Inv, TypeOK
<1>1. RoomsWithout(u) \in [Users -> SessionIds \cup {None}]
  BY DEF RoomsWithout
<1>2. HostsWithout(u) \in [SessionIds -> Users \cup {None}]
  BY DEF HostsWithout
<1>3. RoomsWithout(u)[u] = None
  BY DEF RoomsWithout, Leavers
<1>4. ASSUME NEW s \in SessionIds, HostsWithout(u)[s] # None
      PROVE  HostsWithout(u)[s] = host[s] /\ RoomsWithout(u)[host[s]] = s
  <2>1. host[s] # u /\ host[s] # None /\ HostsWithout(u)[s] = host[s]
    BY <1>4 DEF HostsWithout
  <2>2. room[host[s]] = s
    BY <2>1 DEF Membership
  <2>3. host[s] \notin Leavers(u)
    BY <2>1, <2>2 DEF Leavers, Hosts
  <2> QED BY <2>1, <2>2, <2>3 DEF RoomsWithout
<1>5. ASSUME NEW v \in Users, RoomsWithout(u)[v] # None
      PROVE  RoomsWithout(u)[v] = room[v] /\ HostsWithout(u)[room[v]] # None
  <2>1. v \notin Leavers(u) /\ RoomsWithout(u)[v] = room[v] /\ room[v] \in SessionIds
    BY <1>5 DEF RoomsWithout
  <2>2. host[room[v]] # None
    BY <2>1 DEF Membership
  <2>3. host[room[v]] # u
    <3>1. SUFFICES ASSUME host[room[v]] = u PROVE FALSE
      OBVIOUS
    <3>2. room[u] = room[v]
      BY <2>1, <3>1 DEF Membership
    <3> QED BY <2>1, <3>1, <3>2 DEF Leavers, Hosts
  <2> QED BY <2>1, <2>2, <2>3 DEF HostsWithout
<1> QED BY <1>1, <1>2, <1>3, <1>4, <1>5

LEMMA InvNext == ASSUME NoneIsNobody PROVE Inv /\ [Next]_vars => Inv'
<1> SUFFICES ASSUME Inv, [Next]_vars PROVE Inv'
  OBVIOUS
<1> USE DEF NoneIsNobody
<1>1. ASSUME NEW u \in Users, Connect(u) PROVE Inv'
  BY <1>1 DEF Inv, TypeOK, Membership, Connect
<1>2. ASSUME NEW u \in Users, Disconnect(u) PROVE Inv'
  <2>1. TypeOK'
    BY <1>2, WithoutLeaves DEF Inv, TypeOK, Disconnect
  <2>2. Membership'
    <3>1. \A s \in SessionIds : host'[s] # None => room'[host'[s]] = s
      BY <1>2, WithoutLeaves DEF Disconnect
    <3>2. \A v \in Users : room'[v] # None => host'[room'[v]] # None /\ v \in online'
      BY <1>2, WithoutLeaves DEF Disconnect, Inv, Membership
    <3> QED BY <3>1, <3>2 DEF Membership
  <2> QED BY <2>1, <2>2 DEF Inv
<1>3. ASSUME NEW u \in Users, Leave(u) PROVE Inv'
  <2>1. TypeOK'
    BY <1>3, WithoutLeaves DEF Inv, TypeOK, Leave
  <2>2. Membership'
    BY <1>3, WithoutLeaves DEF Leave, Inv, Membership
  <2> QED BY <2>1, <2>2 DEF Inv
<1>4. ASSUME NEW u \in Users, NEW s \in SessionIds, Create(u, s) PROVE Inv'
  <2>1. TypeOK'
    BY <1>4, WithoutLeaves DEF Inv, TypeOK, Create
  <2>2. HostsWithout(u)[s] = None
    BY <1>4 DEF Create, HostsWithout, Inv, TypeOK
  <2>3. \A r \in SessionIds : host'[r] # None => room'[host'[r]] = r
    <3>1. SUFFICES ASSUME NEW r \in SessionIds, host'[r] # None
                   PROVE  room'[host'[r]] = r
      OBVIOUS
    <3>2. CASE r = s
      BY <1>4, <3>2, WithoutLeaves DEF Create, Inv, TypeOK
    <3>3. CASE r # s
      <4>1. host'[r] = HostsWithout(u)[r] /\ host'[r] = host[r]
        BY <1>4, <3>1, <3>3, WithoutLeaves DEF Create, Inv, TypeOK
      <4>2. host[r] # u
        BY <3>1, <4>1 DEF HostsWithout, Inv, TypeOK
      <4> QED BY <1>4, <3>1, <4>1, <4>2, WithoutLeaves DEF Create, Inv, TypeOK
    <3> QED BY <3>2, <3>3
  <2>4. ASSUME NEW v \in Users, room'[v] # None
        PROVE  host'[room'[v]] # None /\ v \in online'
    <3>1. CASE v = u
      BY <1>4, <3>1, WithoutLeaves DEF Create, Inv, TypeOK
    <3>2. CASE v # u
      <4>1. room'[v] = RoomsWithout(u)[v] /\ room'[v] = room[v]
        BY <1>4, <2>4, <3>2, WithoutLeaves DEF Create
      <4>2. room[v] \in SessionIds /\ RoomsWithout(u)[v] # None
        BY <2>4, <4>1 DEF Inv, TypeOK
      <4>5. HostsWithout(u)[room[v]] # None
        BY <4>1, <4>2, WithoutLeaves
      <4>3. v \in online'
        BY <1>4, <2>4, <4>1 DEF Create, Inv, Membership
      <4> QED BY <1>4, <2>2, <4>1, <4>2, <4>3, <4>5, WithoutLeaves DEF Create
    <3> QED BY <3>1, <3>2
  <2> QED BY <2>1, <2>3, <2>4 DEF Inv, Membership
<1>5. ASSUME NEW u \in Users, NEW s \in SessionIds, Join(u, s) PROVE Inv'
  <2>1. TypeOK'
    BY <1>5, WithoutLeaves DEF Inv, TypeOK, Join
  <2>2. host[s] # u
    BY <1>5 DEF Join, Inv, TypeOK, Membership
  <2>3. HostsWithout(u)[s] # None
    BY <1>5, <2>2 DEF Join, HostsWithout, Inv, TypeOK
  <2>4. ASSUME NEW r \in SessionIds, host'[r] # None PROVE room'[host'[r]] = r
    <3>1. host'[r] = host[r] /\ RoomsWithout(u)[host[r]] = r
      BY <1>5, <2>4, WithoutLeaves DEF Join
    <3>2. host[r] # u
      BY <1>5, <2>4, <3>1 DEF Join, HostsWithout, Inv, TypeOK
    <3> QED BY <1>5, <2>4, <3>1, <3>2, WithoutLeaves DEF Join, Inv, TypeOK
  <2>5. ASSUME NEW v \in Users, room'[v] # None
        PROVE  host'[room'[v]] # None /\ v \in online'
    <3>1. CASE v = u
      BY <1>5, <2>3, <3>1, WithoutLeaves DEF Join, Inv, TypeOK
    <3>2. CASE v # u
      BY <1>5, <2>5, <3>2, WithoutLeaves DEF Join, Inv, TypeOK, Membership
    <3> QED BY <3>1, <3>2
  <2> QED BY <2>1, <2>4, <2>5 DEF Inv, Membership
<1>6. CASE UNCHANGED vars
  BY <1>6 DEF Inv, TypeOK, Membership, vars
<1> QED BY <1>1, <1>2, <1>3, <1>4, <1>5, <1>6 DEF Next

\* A session has a host exactly as long as somebody is in it, the host is in
\* it, and only connected users are in sessions: what create, join, leave and
\* disconnect promise, for any number of users and sessions.
THEOREM MembershipHolds == ASSUME NoneIsNobody PROVE Spec => []Membership
<1>1. Inv => Membership
  BY DEF Inv
<1> QED BY <1>1, InvInit, InvNext, PTL DEF Spec
=============================================================================
