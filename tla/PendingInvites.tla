---------------------------- MODULE PendingInvites ----------------------------
(***************************************************************************)
(* The relay's store of invitations to users who are not connected         *)
(* (relay-server/src/pending_invites.rs).  One mutex guards it, so every   *)
(* operation is one action; what can go wrong is how the operations add    *)
(* up, over a wall clock that may be set back.                             *)
(*                                                                         *)
(* The map from targets to vectors is the set of its invitations; their    *)
(* order, their media and their size are left out.                         *)
(***************************************************************************)
EXTENDS Naturals, FiniteSets

CONSTANTS Users, SessionIds,
          PerTarget,  \* MAX_PER_TARGET
          PerSender,  \* MAX_PER_SENDER
          Total,      \* MAX_TOTAL
          TTL,        \* TTL_MS
          MaxClock,   \* bound: the wall clock stops here
          MaxSetBack  \* bound: how often the wall clock is set back

ASSUME LimitsAssumption == /\ PerTarget \in Nat \ {0}
                           /\ PerSender \in Nat \ {0}
                           /\ Total \in Nat \ {0}
ASSUME TimeAssumption   == TTL \in Nat /\ MaxClock \in Nat /\ MaxSetBack \in Nat

VARIABLES pending,  \* PendingInvites.invites
          now,      \* now_ms()
          latest,   \* the latest time the clock has shown
          setBack,  \* how often it has been set back
          answer    \* what the last operation returned, and for which
                    \* invitations: the one offered, or those taken

storeVars == <<pending, now, latest, setBack, answer>>

Clock  == 0..MaxClock
Invite == [target : Users, sender : Users, session : SessionIds, sentAt : Clock]

\* saturating_sub: an invitation from the future has just been sent.
Age(i) == IF i.sentAt <= now THEN now - i.sentAt ELSE 0
Fresh(i) == Age(i) < TTL

\* The store after `expire`, which every operation starts with.
Unexpired == {i \in pending : Fresh(i)}

\* The key by which invitations are deduplicated.
Same(i, j) == /\ i.target  = j.target
              /\ i.session = j.session
              /\ i.sender  = j.sender

For(u, S) == {i \in S : i.target = u}
By(u, S)  == {i \in S : i.sender = u}

\* Mutant: the limits are found full one too late.
FullOneLate(i, S) == \/ Cardinality(For(i.target, S)) > PerTarget
                     \/ Cardinality(S) > Total
                     \/ Cardinality(By(i.sender, S)) > PerSender

\* Some limit leaves no room for i in S.
Full(i, S) == \/ Cardinality(For(i.target, S)) >= PerTarget
              \/ Cardinality(S) >= Total
              \/ Cardinality(By(i.sender, S)) >= PerSender

Returns(r, S) == answer' = [result |-> r, invites |-> S]

ClockKept == UNCHANGED <<now, latest, setBack>>

-----------------------------------------------------------------------------
(* insert *)

\* Mutant: the repeated invitation takes the place of the first.
InsertDuplicateNewer(i) ==
    /\ \E j \in Unexpired : Same(i, j)
    /\ pending' = {j \in Unexpired : ~Same(i, j)} \cup {i}
    /\ Returns("ok", {i})

InsertDuplicate(i) ==
    /\ \E j \in Unexpired : Same(i, j)
    /\ pending' = Unexpired
    /\ Returns("ok", {i})

InsertRefused(i) ==
    /\ \A j \in Unexpired : ~Same(i, j)
    /\ Full(i, Unexpired)
    /\ pending' = Unexpired
    /\ Returns("refused", {i})

InsertAdded(i) ==
    /\ \A j \in Unexpired : ~Same(i, j)
    /\ ~Full(i, Unexpired)
    /\ pending' = Unexpired \cup {i}
    /\ Returns("ok", {i})

Insert(i) == /\ InsertDuplicate(i) \/ InsertRefused(i) \/ InsertAdded(i)
             /\ ClockKept

(* take *)
Take(u) == /\ pending' = Unexpired \ For(u, Unexpired)
           /\ Returns("taken", For(u, Unexpired))
           /\ ClockKept

\* Mutant: the task looks and drops nothing.
CleanupNothing == /\ UNCHANGED pending
                  /\ Returns("none", {})
                  /\ ClockKept

(* cleanup, the task that runs every minute *)
Cleanup == /\ pending' = Unexpired
           /\ Returns("none", {})
           /\ ClockKept

(* The wall clock, which nothing keeps from being set back. *)
Tick == /\ now < MaxClock
        /\ now' = now + 1
        /\ latest' = IF now' > latest THEN now' ELSE latest
        /\ Returns("none", {})
        /\ UNCHANGED <<pending, setBack>>

TurnBack == /\ setBack < MaxSetBack
            /\ setBack' = setBack + 1
            /\ \E t \in Clock : t < now /\ now' = t
            /\ Returns("none", {})
            /\ UNCHANGED <<pending, latest>>

-----------------------------------------------------------------------------
StoreInit == /\ pending = {} /\ now = 0 /\ latest = 0 /\ setBack = 0
             /\ answer = [result |-> "none", invites |-> {}]

\* An invitation carries the time at which its handler built it, which may
\* be any time the clock has shown when it reaches the lock.
Store == \/ \E i \in Invite : i.sentAt <= latest /\ Insert(i)
         \/ \E u \in Users : Take(u)
         \/ Cleanup

StoreNext == Store \/ Tick \/ TurnBack

StoreSpec == StoreInit /\ [][StoreNext]_storeVars

\* Time passes and the minute's task runs; clients need not do anything.
FairStore == StoreSpec /\ WF_storeVars(Tick) /\ WF_storeVars(Cleanup)

-----------------------------------------------------------------------------
(* Properties. *)

StoreTypeOK ==
    /\ pending \in SUBSET Invite
    /\ now \in Clock /\ latest \in Clock /\ now <= latest
    /\ setBack \in 0..MaxSetBack
    /\ answer \in [result : {"none", "ok", "refused", "taken"},
                   invites : SUBSET Invite]

\* The three limits of pending_invites.rs:9-11 hold at once, for every
\* target and every sender, whatever was inserted, taken and expired.
Bounded ==
    /\ Cardinality(pending) <= Total
    /\ \A u \in Users : /\ Cardinality(For(u, pending)) <= PerTarget
                        /\ Cardinality(By(u, pending)) <= PerSender

\* No two pending invitations have the same target, session and sender: the
\* queue never holds two, and the first one's time stands, so a sender
\* cannot keep an invitation alive by repeating it.
OnePerKey == \A i, j \in pending : Same(i, j) => i = j

\* An invitation leaves the store only to its target, or because its time
\* was up: no insertion, no other user's connection, no setting of the clock
\* drops or replaces it.
LeavesForAReason ==
    [][\A i \in pending \ pending' :
           \/ ~Fresh(i)
           \/ answer'.result = "taken" /\ i \in answer'.invites]_storeVars

\* A sender is refused only when invitations that could all still be
\* delivered fill a limit: expired ones never take anybody's place.
RefusedWhenFull ==
    [][answer'.result = "refused" =>
           /\ \A i \in pending' : Fresh(i)'
           /\ \A i \in answer'.invites : Full(i, pending')]_storeVars

\* Places that are taken are given back: again and again all that could
\* expire is gone, though no target connects and the clock was set back.
CapacityReturns == []<>(\A i \in pending : i.sentAt + TTL > MaxClock)
=============================================================================
