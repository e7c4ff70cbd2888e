-------------------------- MODULE RelayInvitesProofs --------------------------
(***************************************************************************)
(* The store of offline invitations, for any users, sessions, limits and   *)
(* clock: its limits, and that each invitation leaves it for a reason.     *)
(* Then the relay's handlers: they use the store as it is specified, and   *)
(* an invitation that does not cross with its target's connection reaches  *)
(* its target or waits for it.                                             *)
(***************************************************************************)
EXTENDS RelayInvites, FiniteSetTheorems, TLAPS

\* The inductive invariant: counting needs the store to be finite, and an
\* insertion keeps the limits only because every earlier one did.
IInv == StoreTypeOK /\ IsFiniteSet(pending) /\ Bounded /\ OnePerKey

-----------------------------------------------------------------------------
(* What the operations do to a store within its limits. *)

\* The store's limits and keys, as facts about any set of invitations.
Within(S) == /\ IsFiniteSet(S)
             /\ Cardinality(S) <= Total
             /\ \A u \in Users : /\ Cardinality(For(u, S)) <= PerTarget
                                 /\ Cardinality(By(u, S)) <= PerSender
             /\ \A i, j \in S : Same(i, j) => i = j

\* Counting a subset: the finite sets the limits are about.
LEMMA SmallerCount ==
    ASSUME NEW S, IsFiniteSet(S), NEW T \in SUBSET S
    PROVE  /\ IsFiniteSet(T)
           /\ Cardinality(T) \in Nat /\ Cardinality(S) \in Nat
           /\ Cardinality(T) <= Cardinality(S)
BY FS_Subset, FS_CardinalityType

\* Dropping invitations, by expiry or by delivery, breaks no limit.
LEMMA SubsetWithin ==
    ASSUME NEW S, Within(S), NEW T \in SUBSET S
    PROVE  Within(T)
<1>1. IsFiniteSet(T) /\ Cardinality(T) <= Total
  BY SmallerCount, LimitsAssumption DEF Within
<1>2. ASSUME NEW u \in Users
      PROVE  /\ Cardinality(For(u, T)) <= PerTarget
             /\ Cardinality(By(u, T)) <= PerSender
  <2>1. /\ For(u, S) \in SUBSET S /\ For(u, T) \in SUBSET For(u, S)
        /\ By(u, S) \in SUBSET S /\ By(u, T) \in SUBSET By(u, S)
    BY DEF For, By
  <2>2. IsFiniteSet(For(u, S)) /\ IsFiniteSet(By(u, S))
    BY <2>1, SmallerCount DEF Within
  <2>3. /\ Cardinality(For(u, T)) \in Nat /\ Cardinality(For(u, S)) \in Nat
        /\ Cardinality(For(u, T)) <= Cardinality(For(u, S))
    BY <2>1, <2>2, SmallerCount
  <2>4. /\ Cardinality(By(u, T)) \in Nat /\ Cardinality(By(u, S)) \in Nat
        /\ Cardinality(By(u, T)) <= Cardinality(By(u, S))
    BY <2>1, <2>2, SmallerCount
  <2>. QED  BY <2>3, <2>4, LimitsAssumption DEF Within
<1>3. \A i, j \in T : Same(i, j) => i = j
  BY DEF Within
<1>. QED  BY <1>1, <1>2, <1>3 DEF Within

\* One more element is at most one more in the count.
LEMMA OneMore ==
    ASSUME NEW S, IsFiniteSet(S), NEW x, NEW n \in Nat, Cardinality(S) < n
    PROVE  Cardinality(S \cup {x}) <= n
<1>1. Cardinality(S) \in Nat
  BY FS_CardinalityType
<1>2. Cardinality(S \cup {x}) = IF x \in S THEN Cardinality(S)
                                ELSE Cardinality(S) + 1
  BY FS_AddElement
<1>. QED  BY <1>1, <1>2

\* Adding an invitation that has no duplicate and that no limit excludes.
LEMMA AddWithin ==
    ASSUME NEW S, Within(S), NEW i \in Invite, ~Full(i, S),
           \A j \in S : ~Same(i, j)
    PROVE  Within(S \cup {i})
<1>. DEFINE T == S \cup {i}
<1>1. /\ Cardinality(S) < Total
      /\ Cardinality(For(i.target, S)) < PerTarget
      /\ Cardinality(By(i.sender, S)) < PerSender
  <2>1. For(i.target, S) \in SUBSET S /\ By(i.sender, S) \in SUBSET S
    BY DEF For, By
  <2>2. /\ Cardinality(S) \in Nat /\ Cardinality(For(i.target, S)) \in Nat
        /\ Cardinality(By(i.sender, S)) \in Nat
    BY <2>1, SmallerCount, FS_CardinalityType DEF Within
  <2>. QED  BY <2>2, LimitsAssumption DEF Full
<1>2. IsFiniteSet(T) /\ Cardinality(T) <= Total
  BY <1>1, OneMore, FS_AddElement, LimitsAssumption DEF Within
<1>3. ASSUME NEW u \in Users
      PROVE  Cardinality(For(u, T)) <= PerTarget
  <2>1. IsFiniteSet(For(u, S))
    BY SmallerCount DEF Within, For
  <2>2. CASE i.target = u
    <3>1. For(u, T) = For(u, S) \cup {i}
      BY <2>2 DEF For
    <3>. QED  BY <1>1, <2>1, <2>2, <3>1, OneMore, LimitsAssumption
  <2>3. CASE i.target # u
    <3>1. For(u, T) = For(u, S)
      BY <2>3 DEF For
    <3>. QED  BY <3>1 DEF Within
  <2>. QED  BY <2>2, <2>3
<1>4. ASSUME NEW u \in Users
      PROVE  Cardinality(By(u, T)) <= PerSender
  <2>1. IsFiniteSet(By(u, S))
    BY SmallerCount DEF Within, By
  <2>2. CASE i.sender = u
    <3>1. By(u, T) = By(u, S) \cup {i}
      BY <2>2 DEF By
    <3>. QED  BY <1>1, <2>1, <2>2, <3>1, OneMore, LimitsAssumption
  <2>3. CASE i.sender # u
    <3>1. By(u, T) = By(u, S)
      BY <2>3 DEF By
    <3>. QED  BY <3>1 DEF Within
  <2>. QED  BY <2>2, <2>3
<1>5. \A j, k \in T : Same(j, k) => j = k
  BY DEF Within, Same
<1>. QED  BY <1>2, <1>3, <1>4, <1>5 DEF Within

LEMMA WithinIsBounded ==
    Within(pending) <=> IsFiniteSet(pending) /\ Bounded /\ OnePerKey
BY DEF Within, Bounded, OnePerKey

-----------------------------------------------------------------------------
(* The invariant. *)

LEMMA InitIInv == StoreInit => IInv
<1> SUFFICES ASSUME StoreInit PROVE IInv
  OBVIOUS
<1>1. StoreTypeOK
  BY TimeAssumption DEF StoreInit, StoreTypeOK, Clock
<1>2. IsFiniteSet(pending) /\ Cardinality(pending) = 0
  BY FS_EmptySet DEF StoreInit
<1>3. \A u \in Users : For(u, pending) = {} /\ By(u, pending) = {}
  BY DEF StoreInit, For, By
<1>4. Bounded
  BY <1>2, <1>3, FS_EmptySet, LimitsAssumption DEF Bounded
<1>5. OnePerKey
  BY DEF StoreInit, OnePerKey
<1>. QED  BY <1>1, <1>2, <1>4, <1>5 DEF IInv

\* The four steps of the store leave it well-typed and within its limits.
LEMMA InsertStep ==
    ASSUME StoreTypeOK, Within(pending), NEW i \in Invite, Insert(i)
    PROVE  StoreTypeOK' /\ Within(pending')
<1>1. Unexpired \in SUBSET pending
  BY DEF Unexpired
<1>2. Within(Unexpired) /\ Unexpired \in SUBSET Invite
  BY <1>1, SubsetWithin DEF StoreTypeOK
<1>3. CASE InsertDuplicate(i)
  BY <1>2, <1>3 DEF InsertDuplicate, Insert, Returns, ClockKept, StoreTypeOK
<1>4. CASE InsertRefused(i)
  BY <1>2, <1>4 DEF InsertRefused, Insert, Returns, ClockKept, StoreTypeOK
<1>5. CASE InsertAdded(i)
  <2>1. Within(pending')
    BY <1>2, <1>5, AddWithin DEF InsertAdded
  <2>2. StoreTypeOK'
    BY <1>2, <1>5 DEF InsertAdded, Insert, Returns, ClockKept, StoreTypeOK
  <2>. QED  BY <2>1, <2>2
<1>. QED  BY <1>3, <1>4, <1>5 DEF Insert

LEMMA TakeStep ==
    ASSUME StoreTypeOK, Within(pending), NEW u \in Users, Take(u)
    PROVE  StoreTypeOK' /\ Within(pending')
<1>1. pending' \in SUBSET pending /\ For(u, Unexpired) \in SUBSET Invite
  BY DEF Take, Unexpired, For, StoreTypeOK
<1>2. Within(pending')
  BY <1>1, SubsetWithin
<1>3. StoreTypeOK'
  BY <1>1 DEF Take, Returns, ClockKept, StoreTypeOK
<1>. QED  BY <1>2, <1>3

LEMMA CleanupStep ==
    ASSUME StoreTypeOK, Within(pending), Cleanup
    PROVE  StoreTypeOK' /\ Within(pending')
<1>1. pending' \in SUBSET pending
  BY DEF Cleanup, Unexpired
<1>2. Within(pending')
  BY <1>1, SubsetWithin
<1>3. StoreTypeOK'
  BY <1>1 DEF Cleanup, Returns, ClockKept, StoreTypeOK
<1>. QED  BY <1>2, <1>3

LEMMA ClockStep ==
    ASSUME StoreTypeOK, Within(pending), Tick \/ TurnBack
    PROVE  StoreTypeOK' /\ Within(pending')
<1>1. pending' = pending
  BY DEF Tick, TurnBack
<1>2. CASE Tick
  BY <1>1, <1>2, TimeAssumption DEF Tick, Returns, StoreTypeOK, Clock
<1>3. CASE TurnBack
  BY <1>1, <1>3, TimeAssumption DEF TurnBack, Returns, StoreTypeOK, Clock
<1>. QED  BY <1>1, <1>2, <1>3

LEMMA NextIInv == IInv /\ [StoreNext]_storeVars => IInv'
<1> SUFFICES ASSUME IInv, [StoreNext]_storeVars PROVE IInv'
  OBVIOUS
<1>1. StoreTypeOK /\ Within(pending)
  BY WithinIsBounded DEF IInv
<1>2. StoreTypeOK' /\ Within(pending')
  <2>1. ASSUME NEW i \in Invite, Insert(i) PROVE StoreTypeOK' /\ Within(pending')
    BY <1>1, <2>1, InsertStep
  <2>2. ASSUME NEW u \in Users, Take(u) PROVE StoreTypeOK' /\ Within(pending')
    BY <1>1, <2>2, TakeStep
  <2>3. CASE Cleanup
    BY <1>1, <2>3, CleanupStep
  <2>4. CASE Tick \/ TurnBack
    BY <1>1, <2>4, ClockStep
  <2>5. CASE UNCHANGED storeVars
    BY <1>1, <2>5 DEF storeVars, StoreTypeOK
  <2>. QED  BY <2>1, <2>2, <2>3, <2>4, <2>5 DEF StoreNext, Store
<1>3. IsFiniteSet(pending') /\ Bounded' /\ OnePerKey'
  BY <1>2 DEF Within, Bounded, OnePerKey, For, By, Same
<1>. QED  BY <1>2, <1>3 DEF IInv

\* Every clock reading, stored time and answer is what the code's types say.
THEOREM TypeCorrect == StoreSpec => []StoreTypeOK
<1>. QED  BY InitIInv, NextIInv, PTL DEF StoreSpec, IInv

\* The limits per target, per sender and in total hold together for ever,
\* whatever the limits are and however the clock is set (Bounded).
THEOREM LimitsHold == StoreSpec => []Bounded
<1>. QED  BY InitIInv, NextIInv, PTL DEF StoreSpec, IInv

\* No invitation is ever queued twice (OnePerKey).
THEOREM KeysUnique == StoreSpec => []OnePerKey
<1>. QED  BY InitIInv, NextIInv, PTL DEF StoreSpec, IInv

-----------------------------------------------------------------------------
(* Action properties. *)

\* No step loses an invitation that could still be delivered
\* (LeavesForAReason).
THEOREM NothingLost == StoreSpec => LeavesForAReason
<1>1. ASSUME [StoreNext]_storeVars, NEW i \in pending \ pending'
      PROVE  ~Fresh(i) \/ (answer'.result = "taken" /\ i \in answer'.invites)
  <2>1. ASSUME NEW n \in Invite, Insert(n) PROVE ~Fresh(i)
    BY <2>1, <1>1 DEF Insert, InsertDuplicate, InsertRefused, InsertAdded,
                      Unexpired
  <2>2. ASSUME NEW u \in Users, Take(u)
        PROVE  ~Fresh(i) \/ (answer'.result = "taken" /\ i \in answer'.invites)
    BY <2>2, <1>1 DEF Take, Returns, Unexpired
  <2>3. ASSUME Cleanup PROVE ~Fresh(i)
    BY <2>3, <1>1 DEF Cleanup, Unexpired
  <2>4. ~(Tick \/ TurnBack \/ UNCHANGED storeVars)
    BY <1>1 DEF Tick, TurnBack, storeVars
  <2>. QED  BY <1>1, <2>1, <2>2, <2>3, <2>4 DEF StoreNext, Store
<1>2. [StoreNext]_storeVars => [\A i \in pending \ pending' :
                         \/ ~Fresh(i)
                         \/ answer'.result = "taken" /\ i \in answer'.invites]_storeVars
  BY <1>1
<1>. QED  BY <1>2, PTL DEF StoreSpec, LeavesForAReason

\* A sender is refused only for invitations that could still be delivered
\* (RefusedWhenFull).
THEOREM RefusalsJustified == StoreSpec => RefusedWhenFull
<1>1. ASSUME [StoreNext]_storeVars, ~UNCHANGED storeVars, answer'.result = "refused"
      PROVE  /\ \A i \in pending' : Fresh(i)'
             /\ \A i \in answer'.invites : Full(i, pending')
  <2>1. PICK n \in Invite : InsertRefused(n) /\ ClockKept
    BY <1>1 DEF StoreNext, Store, Insert, InsertDuplicate, InsertAdded, Take,
                Cleanup, Tick, TurnBack, Returns
  <2>2. \A i \in pending' : Fresh(i)'
    BY <2>1 DEF InsertRefused, ClockKept, Unexpired, Fresh, Age
  <2>3. answer'.invites = {n} /\ Full(n, pending')
    BY <2>1 DEF InsertRefused, Returns
  <2>. QED  BY <2>2, <2>3
<1>2. [StoreNext]_storeVars => [answer'.result = "refused" =>
                         /\ \A i \in pending' : Fresh(i)'
                         /\ \A i \in answer'.invites : Full(i, pending')]_storeVars
  BY <1>1
<1>. QED  BY <1>2, PTL DEF StoreSpec, RefusedWhenFull
-----------------------------------------------------------------------------
(* The handlers.  What a task holds, and which channels are registered.    *)

Labels == {"auth", "idle", "closed"} \cup Running

\* The labels at which a task holds the invitation it has built.
Carrying == {"route", "send", "queue"}

\* An invitation in a task's hands is whole and no later than the clock has
\* been: what lets the store's operations be used as they are specified.
TaskTypeOK ==
    /\ conns \in [Users -> Sockets \cup {None}]
    /\ task \in [Sockets -> [pc : Labels, invite : Invite \cup {NoInvite}]]
    /\ \A k \in Sockets : task[k].pc \in Carrying =>
          task[k].invite \in Invite /\ task[k].invite.sentAt <= latest

\* The clock's history only grows.
LEMMA LatestGrows ==
    ASSUME StoreTypeOK, [StoreNext]_storeVars
    PROVE  latest <= latest'
<1>. USE TimeAssumption DEF StoreTypeOK, Clock
<1>1. CASE Tick
  BY <1>1 DEF Tick
<1>2. CASE ~Tick
  BY <1>2 DEF StoreNext, Store, Insert, Take, Cleanup, ClockKept, TurnBack, storeVars
<1>. QED  BY <1>1, <1>2

\* Every step of the relay is a step of the store, or leaves it alone.
LEMMA StoreSteps ==
    ASSUME StoreTypeOK, TaskTypeOK, [Next]_vars
    PROVE  [StoreNext]_storeVars
<1>1. ASSUME NEW k \in Sockets, Greet(k) PROVE StoreNext
  BY <1>1, UserOfAssumption DEF Greet, StoreNext, Store
<1>2. ASSUME NEW k \in Sockets, Queue(k) PROVE StoreNext
  BY <1>2 DEF Queue, At, Carrying, TaskTypeOK, StoreNext, Store
<1>3. ASSUME NEW k \in Sockets,
             \/ Register(k) \/ AuthFail(k) \/ Receive(k) \/ Break(k)
             \/ Disconnect(k) \/ Check(k) \/ Build(k) \/ Route(k) \/ Send(k)
      PROVE  UNCHANGED storeVars
  BY <1>3 DEF Register, AuthFail, Receive, Break, Disconnect, Check, Build, Route, Send
<1>4. CASE Background
  BY <1>4 DEF Background, StoreNext, Store
<1>5. CASE UNCHANGED vars
  BY <1>5 DEF vars
<1>. QED  BY <1>1, <1>2, <1>3, <1>4, <1>5 DEF Next, Run

\* What a step does to the tasks: it writes the one of its socket only.
LEMMA TaskKept ==
    ASSUME NEW k \in Sockets, NEW l \in Sockets, l # k, TaskTypeOK,
           \/ Register(k) \/ AuthFail(k) \/ Receive(k) \/ Break(k) \/ Run(k)
    PROVE  task'[l] = task[l]
<1>. USE DEF TaskTypeOK, Goto, Await
<1>1. CASE Register(k) \/ AuthFail(k) \/ Receive(k) \/ Break(k)
  BY <1>1 DEF Register, AuthFail, Receive, Break
<1>2. CASE Greet(k) \/ Disconnect(k) \/ Check(k) \/ Build(k)
  BY <1>2 DEF Greet, Disconnect, Check, Build
<1>3. CASE Route(k) \/ Send(k) \/ Queue(k)
  BY <1>3 DEF Route, Send, Queue
<1>. QED  BY <1>1, <1>2, <1>3 DEF Run

\* The frame a task is left with, by the labels it can go on to.
LEMMA TaskTyped ==
    ASSUME NEW k \in Sockets, StoreTypeOK, TaskTypeOK,
           \/ Register(k) \/ AuthFail(k) \/ Receive(k) \/ Break(k) \/ Run(k)
    PROVE  /\ task' \in [Sockets -> [pc : Labels, invite : Invite \cup {NoInvite}]]
           /\ task'[k].pc \in Carrying =>
                 task'[k].invite \in Invite /\ task'[k].invite.sentAt <= latest
<1>. USE DEF TaskTypeOK, Labels, Running, Carrying, At, Goto, Await
<1>1. CASE Register(k) \/ AuthFail(k) \/ Receive(k) \/ Break(k)
  BY <1>1 DEF Register, AuthFail, Receive, Break
<1>2. CASE Greet(k) \/ Send(k) \/ Queue(k)
  BY <1>2 DEF Greet, Send, Queue
<1>3. CASE Disconnect(k) \/ Check(k)
  BY <1>3 DEF Disconnect, Check
<1>4. CASE Route(k)
  BY <1>4 DEF Route
<1>5. CASE Build(k)
  <2>1. CASE Await(k)
    BY <2>1
  <2>2. ASSUME NEW u \in Users, NEW s \in SessionIds,
               task' = [task EXCEPT ![k] =
                          [pc |-> "route",
                           invite |-> [target |-> u, sender |-> UserOf[k],
                                       session |-> s, sentAt |-> now]]]
        PROVE  /\ task' \in [Sockets -> [pc : Labels, invite : Invite \cup {NoInvite}]]
               /\ task'[k].pc \in Carrying =>
                     task'[k].invite \in Invite /\ task'[k].invite.sentAt <= latest
    <3>. DEFINE i == [target |-> u, sender |-> UserOf[k], session |-> s,
                      sentAt |-> now]
    <3>1. i \in Invite /\ i.sentAt <= latest
      BY UserOfAssumption DEF Invite, StoreTypeOK
    <3>. HIDE DEF i
    <3>2. task' = [task EXCEPT ![k] = [pc |-> "route", invite |-> i]]
      BY <2>2 DEF i
    <3>. QED  BY <3>1, <3>2
  <2>. QED  BY <1>5, <2>1, <2>2 DEF Build
<1>. QED  BY <1>1, <1>2, <1>3, <1>4, <1>5 DEF Run

LEMMA ConnsTyped ==
    ASSUME TaskTypeOK, [Next]_vars
    PROVE  conns' \in [Users -> Sockets \cup {None}]
<1>. USE UserOfAssumption DEF TaskTypeOK
<1>1. ASSUME NEW k \in Sockets,
             \/ Register(k) \/ AuthFail(k) \/ Receive(k) \/ Break(k) \/ Run(k)
      PROVE  conns' \in [Users -> Sockets \cup {None}]
  BY <1>1 DEF Register, AuthFail, Receive, Break, Run, Greet, Disconnect, Check,
              Build, Route, Send, Queue
<1>. QED  BY <1>1 DEF Next, Background, vars

LEMMA NextTaskType ==
    ASSUME StoreTypeOK, StoreTypeOK', TaskTypeOK, [Next]_vars
    PROVE  TaskTypeOK'
<1>1. latest <= latest' /\ latest \in Clock /\ latest' \in Clock
  BY StoreSteps, LatestGrows DEF StoreTypeOK
<1>2. conns' \in [Users -> Sockets \cup {None}]
  BY ConnsTyped
<1>3. ASSUME NEW k \in Sockets,
             \/ Register(k) \/ AuthFail(k) \/ Receive(k) \/ Break(k) \/ Run(k)
      PROVE  TaskTypeOK'
  <2>1. task' \in [Sockets -> [pc : Labels, invite : Invite \cup {NoInvite}]]
    BY <1>3, TaskTyped
  <2>2. ASSUME NEW l \in Sockets, task'[l].pc \in Carrying
        PROVE  task'[l].invite \in Invite /\ task'[l].invite.sentAt <= latest
    <3>1. CASE l = k
      BY <1>3, <2>2, <3>1, TaskTyped
    <3>2. CASE l # k
      BY <1>3, <2>2, <3>2, TaskKept DEF TaskTypeOK
    <3>. QED  BY <3>1, <3>2
  <2>3. \A l \in Sockets : task'[l].pc \in Carrying =>
           task'[l].invite \in Invite /\ task'[l].invite.sentAt <= latest'
    BY <1>1, <2>2, TimeAssumption DEF Invite, Clock
  <2>. QED  BY <1>2, <2>1, <2>3 DEF TaskTypeOK
<1>4. CASE Background \/ UNCHANGED vars
  <2>1. task' = task
    BY <1>4 DEF Background, vars
  <2>2. \A l \in Sockets : task[l].pc \in Carrying =>
           task[l].invite \in Invite /\ task[l].invite.sentAt <= latest'
    BY <1>1, TimeAssumption DEF TaskTypeOK, Invite, Clock
  <2>. QED  BY <1>2, <2>1, <2>2 DEF TaskTypeOK
<1>. QED  BY <1>3, <1>4 DEF Next

\* The relay's invariant for any number of workers: the store's, and the
\* tasks' types.
RelayIInv == IInv /\ TaskTypeOK

LEMMA InitRelayIInv == Init => RelayIInv
<1> SUFFICES ASSUME Init PROVE RelayIInv
  OBVIOUS
<1>1. IInv
  BY InitIInv DEF Init
<1>2. TaskTypeOK
  BY DEF Init, TaskTypeOK, Labels, Carrying
<1>. QED  BY <1>1, <1>2 DEF RelayIInv

LEMMA NextRelayIInv == RelayIInv /\ [Next]_vars => RelayIInv'
<1> SUFFICES ASSUME RelayIInv, [Next]_vars PROVE RelayIInv'
  OBVIOUS
<1>1. IInv'
  BY StoreSteps, NextIInv DEF RelayIInv, IInv
<1>. QED  BY <1>1, NextTaskType DEF RelayIInv, IInv

LEMMA RelayInvariant == Spec => []RelayIInv
<1>. QED  BY InitRelayIInv, NextRelayIInv, PTL DEF Spec

\* The handlers use the store as PendingInvites specifies it, however many
\* of them interleave: every step of the relay is a step of the store or
\* leaves it alone, so all that is proved of the store holds in the relay.
THEOREM RelayUsesStore == Spec => StoreSpec
<1>1. Init => StoreInit
  BY DEF Init
<1>2. RelayIInv /\ [Next]_vars => [StoreNext]_storeVars
  BY StoreSteps DEF RelayIInv, IInv
<1>. QED  BY <1>1, <1>2, RelayInvariant, PTL DEF Spec, StoreSpec

\* The limits hold under the relay's own traffic (Bounded).
THEOREM RelayLimitsHold == Spec => []Bounded
<1>. QED  BY RelayUsesStore, LimitsHold, PTL

\* No handler makes an invitation vanish from the store that its target
\* could still be given (LeavesForAReason).
THEOREM RelayLosesNothing == Spec => LeavesForAReason
<1>. QED  BY RelayUsesStore, NothingLost, PTL

-----------------------------------------------------------------------------
(* Invitations and connections that cross, for any number of workers. *)

\* What a handler has seen of its target stays true until it has queued the
\* invitation, unless the two cross.
LookHolds ==
    \A k \in Sockets :
        At(k, "queue") => \/ ~Online(task[k].invite.target)
                          \/ task[k].invite \in crossed

\* An invitation, expired or not, that did not cross waits only for a user
\* who is absent, or whose new connection is about to take it.
Awaited ==
    \A i \in pending : Online(i.target) =>
        \/ i \in crossed
        \/ \E k \in Sockets : At(k, "greet") /\ UserOf[k] = i.target

\* The inductive invariant.
CrossIInv == RelayIInv /\ LookHolds /\ Awaited

\* The history grows, by whatever crosses in the step.
LEMMA CrossedGrows ==
    ASSUME Next \/ UNCHANGED vars
    PROVE  /\ crossed \subseteq crossed'
           /\ \A k \in Sockets :
                 /\ At(k, "queue")
                 /\ conns'[task[k].invite.target] # None
                 /\ conns'[task[k].invite.target] # conns[task[k].invite.target]
                 => task[k].invite \in crossed'
BY DEF Next, Remember, vars

LEMMA LookStep ==
    ASSUME RelayIInv, LookHolds, [Next]_vars
    PROVE  LookHolds'
<1>. USE DEF LookHolds, At, Online
<1>1. ASSUME NEW k \in Sockets, task'[k] = task[k], task[k].pc = "queue"
      PROVE  \/ conns'[task'[k].invite.target] = None
             \/ task'[k].invite \in crossed'
  <2>1. CASE conns'[task[k].invite.target] = conns[task[k].invite.target]
    BY <1>1, <2>1, CrossedGrows
  <2>2. CASE conns'[task[k].invite.target] # conns[task[k].invite.target]
    BY <1>1, <2>2, CrossedGrows
  <2>. QED  BY <2>1, <2>2
<1>2. ASSUME NEW k \in Sockets,
             \/ Register(k) \/ AuthFail(k) \/ Receive(k) \/ Break(k) \/ Run(k)
      PROVE  task'[k].pc = "queue" =>
                conns'[task'[k].invite.target] = None
  <2>. USE DEF RelayIInv, TaskTypeOK, Goto, Await
  <2>1. CASE Route(k)
    BY <2>1 DEF Route
  <2>2. CASE Register(k) \/ AuthFail(k) \/ Receive(k) \/ Break(k) \/ Disconnect(k)
    BY <2>2 DEF Register, AuthFail, Receive, Break, Disconnect
  <2>3. CASE Greet(k) \/ Check(k) \/ Send(k) \/ Queue(k)
    BY <2>3 DEF Greet, Check, Send, Queue
  <2>4. CASE Build(k)
    BY <2>4 DEF Build
  <2>. QED  BY <1>2, <2>1, <2>2, <2>3, <2>4 DEF Run
<1>3. ASSUME NEW k \in Sockets, NEW l \in Sockets, l # k,
             \/ Register(k) \/ AuthFail(k) \/ Receive(k) \/ Break(k) \/ Run(k)
      PROVE  task'[l] = task[l]
  BY <1>3, TaskKept DEF RelayIInv
<1>4. CASE \E k \in Sockets :
               \/ Register(k) \/ AuthFail(k) \/ Receive(k) \/ Break(k) \/ Run(k)
  BY <1>1, <1>2, <1>3, <1>4
<1>5. CASE Background \/ UNCHANGED vars
  <2>1. task' = task
    BY <1>5 DEF Background, vars
  <2>. QED  BY <1>1, <2>1
<1>. QED  BY <1>4, <1>5 DEF Next

LEMMA AwaitedStep ==
    ASSUME RelayIInv, LookHolds, Awaited, [Next]_vars
    PROVE  Awaited'
<1> SUFFICES ASSUME NEW i \in pending', conns'[i.target] # None,
                    i \notin crossed'
             PROVE  \E k \in Sockets : task'[k].pc = "greet" /\ UserOf[k] = i.target
  BY DEF Awaited, Online, At
<1>. USE DEF Awaited, Online, At
<1>0. i \notin crossed
  BY CrossedGrows
<1>1. ASSUME NEW k \in Sockets, NEW l \in Sockets, l # k,
             task[l].pc = "greet", UserOf[l] = i.target,
             \/ Register(k) \/ AuthFail(k) \/ Receive(k) \/ Break(k) \/ Run(k)
      PROVE  task'[l].pc = "greet"
  BY <1>1, TaskKept DEF RelayIInv
<1>2. ASSUME NEW k \in Sockets, Register(k)
      PROVE  \E l \in Sockets : task'[l].pc = "greet" /\ UserOf[l] = i.target
  <2>1. i \in pending /\ task'[k].pc = "greet"
    BY <1>2 DEF Register, Goto, storeVars, RelayIInv, TaskTypeOK
  <2>2. CASE UserOf[k] = i.target
    BY <2>1, <2>2
  <2>3. CASE UserOf[k] # i.target
    <3>1. conns'[i.target] = conns[i.target]
      BY <1>2, <2>1, <2>3 DEF Register, RelayIInv, IInv, TaskTypeOK, StoreTypeOK, Invite
    <3>2. PICK l \in Sockets : task[l].pc = "greet" /\ UserOf[l] = i.target
      BY <1>0, <2>1, <3>1
    <3>. QED  BY <1>1, <1>2, <2>3, <3>2
  <2>. QED  BY <2>2, <2>3
<1>3. ASSUME NEW k \in Sockets, Greet(k)
      PROVE  \E l \in Sockets : task'[l].pc = "greet" /\ UserOf[l] = i.target
  <2>1. i \in pending /\ i.target # UserOf[k] /\ conns' = conns
    BY <1>3 DEF Greet, Take, Unexpired, For
  <2>2. PICK l \in Sockets : task[l].pc = "greet" /\ UserOf[l] = i.target
    BY <1>0, <2>1
  <2>. QED  BY <1>1, <1>3, <2>1, <2>2 DEF Run
<1>4. ASSUME NEW k \in Sockets, Queue(k)
      PROVE  \E l \in Sockets : task'[l].pc = "greet" /\ UserOf[l] = i.target
  <2>1. i \in pending \/ i = task[k].invite
    BY <1>4 DEF Queue, Insert, InsertDuplicate, InsertRefused, InsertAdded, Unexpired
  <2>2. conns[i.target] # None /\ i # task[k].invite
    BY <1>0, <1>4 DEF Queue, LookHolds
  <2>3. PICK l \in Sockets : task[l].pc = "greet" /\ UserOf[l] = i.target
    BY <1>0, <2>1, <2>2
  <2>. QED  BY <1>1, <1>4, <2>3 DEF Queue, Run
<1>5. ASSUME NEW k \in Sockets,
             \/ AuthFail(k) \/ Receive(k) \/ Break(k) \/ Disconnect(k)
             \/ Check(k) \/ Build(k) \/ Route(k) \/ Send(k)
      PROVE  \E l \in Sockets : task'[l].pc = "greet" /\ UserOf[l] = i.target
  <2>1. i \in pending /\ task[k].pc # "greet"
    BY <1>5 DEF AuthFail, Receive, Break, Disconnect, Check, Build, Route, Send,
                storeVars
  <2>2. conns[i.target] # None
    <3>1. i.target \in Users
      BY <2>1 DEF RelayIInv, IInv, StoreTypeOK, Invite
    <3>. QED  BY <1>5, <3>1 DEF AuthFail, Receive, Break, Disconnect, Check, Build,
                                Route, Send, RelayIInv, TaskTypeOK
  <2>3. PICK l \in Sockets : task[l].pc = "greet" /\ UserOf[l] = i.target
    BY <1>0, <2>1, <2>2
  <2>. QED  BY <1>1, <1>5, <2>1, <2>3 DEF Run
<1>6. CASE Background \/ UNCHANGED vars
  BY <1>0, <1>6 DEF Background, vars, storeVars, Cleanup, Tick, TurnBack, Unexpired
<1>. QED  BY <1>2, <1>3, <1>4, <1>5, <1>6 DEF Next, Run

LEMMA CrossInvariant == Spec => []CrossIInv
<1>1. Init => CrossIInv
  <2>1. Init => LookHolds /\ Awaited
    BY DEF Init, StoreInit, LookHolds, Awaited, At
  <2>. QED  BY <2>1, InitRelayIInv DEF CrossIInv
<1>2. CrossIInv /\ [Next]_vars => CrossIInv'
  BY NextRelayIInv, LookStep, AwaitedStep DEF CrossIInv
<1>. QED  BY <1>1, <1>2, PTL DEF Spec

\* However the handlers of any number of workers interleave, at rest only
\* invitations that crossed with their target's connection are stranded
\* (OnlyCrossedStrand): whoever queues another has seen that its target is
\* absent, and whoever connects takes what is queued.
THEOREM OthersReachTheirTarget == Spec => []OnlyCrossedStrand
<1>1. CrossIInv => OnlyCrossedStrand
  BY DEF CrossIInv, Awaited, OnlyCrossedStrand, Quiet, Busy, Running, At
<1>. QED  BY <1>1, CrossInvariant, PTL

-----------------------------------------------------------------------------
(* One worker: a handler that runs is alone, and nothing crosses. *)

\* At most one socket runs a handler.
OneBusy == \A j, k \in Sockets : Busy(j) /\ Busy(k) => j = k

AloneIInv == CrossIInv /\ OneBusy /\ crossed = {}

\* With one worker, a worker is free only if nobody runs.
LEMMA FreeMeansQuiet ==
    ASSUME Workers = 1, OneBusy, WorkerFree
    PROVE  Quiet
<1> SUFFICES ASSUME NEW k \in Sockets, Busy(k) PROVE FALSE
  BY DEF Quiet
<1>1. {l \in Sockets : Busy(l)} = {k}
  BY DEF OneBusy
<1>2. Cardinality({k}) = 1
  BY FS_Singleton
<1>. QED  BY <1>1, <1>2 DEF WorkerFree

\* A handler begins when nobody runs; a running one goes on alone.
LEMMA OneBusyStep ==
    ASSUME Workers = 1, TaskTypeOK, OneBusy, [Next]_vars
    PROVE  OneBusy'
<1>1. ASSUME NEW k \in Sockets,
             \/ Register(k) \/ AuthFail(k) \/ Receive(k) \/ Break(k) \/ Run(k)
      PROVE  OneBusy'
  <2>1. \A l \in Sockets : l # k => task'[l] = task[l]
    BY <1>1, TaskKept
  <2>2. CASE Quiet
    BY <2>1, <2>2 DEF Quiet, OneBusy, Busy
  <2>3. CASE AuthFail(k)
    BY <2>1, <2>3 DEF AuthFail, Goto, TaskTypeOK, OneBusy, Busy, Running
  <2>4. CASE Run(k)
    <3>1. Busy(k)
      BY <2>4 DEF Run, Greet, Disconnect, Check, Build, Route, Send, Queue, At,
                  Busy, Running
    <3>. QED  BY <2>1, <3>1 DEF OneBusy, Busy
  <2>5. CASE Register(k) \/ Receive(k) \/ Break(k)
    BY <2>2, <2>5, FreeMeansQuiet DEF Register, Receive, Break
  <2>. QED  BY <1>1, <2>3, <2>4, <2>5
<1>2. CASE Background \/ UNCHANGED vars
  BY <1>2 DEF Background, vars, OneBusy, Busy
<1>. QED  BY <1>1, <1>2 DEF Next

\* Nobody queues while somebody registers.
LEMMA NothingCrosses ==
    ASSUME Workers = 1, TaskTypeOK, OneBusy, crossed = {}, [Next]_vars
    PROVE  crossed' = {}
<1>1. ASSUME NEW k \in Sockets, At(k, "queue"),
             conns'[task[k].invite.target] # None,
             conns'[task[k].invite.target] # conns[task[k].invite.target]
      PROVE  FALSE
  <2>1. ~Quiet
    BY <1>1 DEF Quiet, Busy, Running, At
  <2>2. \A l \in Sockets : ~Register(l)
    BY <2>1, FreeMeansQuiet DEF Register
  <2>3. \A l \in Sockets : Disconnect(l) => FALSE
    <3>1. ASSUME NEW l \in Sockets, Disconnect(l) PROVE l = k
      BY <1>1, <3>1 DEF Disconnect, At, OneBusy, Busy, Running
    <3>. QED  BY <1>1, <3>1 DEF Disconnect, At
  <2>4. conns' = conns
    BY <2>2, <2>3 DEF Next, vars, Run, AuthFail, Receive, Break, Greet, Check,
                      Build, Route, Send, Queue, Background
  <2>. QED  BY <1>1, <2>4
<1>2. CASE Next
  BY <1>1, <1>2 DEF Next, Remember
<1>3. CASE UNCHANGED vars
  BY <1>3 DEF vars
<1>. QED  BY <1>2, <1>3

LEMMA AloneInvariant == ASSUME Workers = 1 PROVE Spec => []AloneIInv
<1>1. Init => AloneIInv
  <2>1. Init => OneBusy /\ crossed = {} /\ LookHolds /\ Awaited
    BY DEF Init, StoreInit, OneBusy, LookHolds, Awaited, At, Busy, Running
  <2>. QED  BY <2>1, InitRelayIInv DEF AloneIInv, CrossIInv
<1>2. AloneIInv /\ [Next]_vars => AloneIInv'
  <2>1. AloneIInv /\ [Next]_vars => OneBusy' /\ crossed' = {}
    BY OneBusyStep, NothingCrosses DEF AloneIInv, CrossIInv, RelayIInv
  <2>. QED  BY <2>1, NextRelayIInv, LookStep, AwaitedStep DEF AloneIInv, CrossIInv
<1>. QED  BY <1>1, <1>2, PTL DEF Spec

\* With one worker nobody who is connected has an invitation waiting
\* (NoneStranded).
THEOREM OneWorkerNoneStranded == ASSUME Workers = 1 PROVE Spec => []NoneStranded
<1>1. AloneIInv => NoneStranded
  BY DEF AloneIInv, CrossIInv, Awaited, NoneStranded, Quiet, Busy, Running, At
<1>. QED  BY <1>1, AloneInvariant, PTL
=============================================================================
