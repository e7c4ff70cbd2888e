----------------------------- MODULE RelayInvites -----------------------------
(***************************************************************************)
(* How an invitation reaches its target: handle_invite, which sends to a   *)
(* connected target and queues for an absent one, against the connections  *)
(* that come and go (relay-server/src: session.rs, connection.rs).         *)
(*                                                                         *)
(* As in RelaySessions, one action is one access to shared state, and at   *)
(* most Workers handlers are between two of their accesses.  Whether the   *)
(* sender belongs to the session it invites to is RelaySessions' business: *)
(* here it may or may not.  The store's own steps are PendingInvites'.     *)
(***************************************************************************)
EXTENDS PendingInvites

CONSTANTS Sockets,  \* WebSockets, each with its channel
          UserOf,   \* the user whose token a socket presents
          Workers,  \* worker threads of the tokio runtime
          None      \* Rust's None

ASSUME UserOfAssumption == UserOf \in [Sockets -> Users]
ASSUME WorkersAssumption == Workers \in Nat \ {0}
ASSUME NoneAssumption == None \notin Sockets

VARIABLES conns,  \* the channel of AppState.connections[u], if there is one
          task,   \* what the task of each socket is doing
          crossed \* history: the invitations that found their target absent
                  \* and were not queued yet when it connected

vars == <<conns, task, crossed, storeVars>>

\* A local that holds no invitation.
NoInvite == [target |-> None]

Running == {"greet", "check", "build", "route", "send", "queue", "cleanup"}

At(k, label) == task[k].pc = label
Goto(k, label) == task' = [task EXCEPT ![k].pc = label]
Await(k)       == task' = [task EXCEPT ![k] = [pc |-> "idle", invite |-> NoInvite]]

Busy(k)    == task[k].pc \in Running
WorkerFree == Cardinality({k \in Sockets : Busy(k)}) < Workers

Online(u) == conns[u] # None
Live(k)   == conns[UserOf[k]] = k

-----------------------------------------------------------------------------
(* A connection's life. *)

\* The token is validated and the user is reachable from here on; the one
\* who was there before is superseded.
Register(k) ==
    /\ At(k, "auth") /\ WorkerFree
    /\ conns' = [conns EXCEPT ![UserOf[k]] = k]
    /\ Goto(k, "greet")
    /\ UNCHANGED storeVars

\* Deliver any pending invites, and go on to the reader loop.
Greet(k) ==
    /\ At(k, "greet")
    /\ Take(UserOf[k])
    /\ Await(k)
    /\ UNCHANGED conns

\* The loop is left: closed, broken, idle for too long, or superseded.
Break(k) ==
    /\ At(k, "idle") /\ WorkerFree
    /\ Goto(k, "cleanup")
    /\ UNCHANGED <<conns, storeVars>>

\* Authentication fails or times out.
AuthFail(k) ==
    /\ At(k, "auth")
    /\ Goto(k, "closed")
    /\ UNCHANGED <<conns, storeVars>>

\* remove_if(same_channel)
Disconnect(k) ==
    /\ At(k, "cleanup")
    /\ conns' = IF Live(k) THEN [conns EXCEPT ![UserOf[k]] = None] ELSE conns
    /\ Goto(k, "closed")
    /\ UNCHANGED storeVars

-----------------------------------------------------------------------------
(* handle_invite *)

\* An invite message arrives on a socket that has not been replaced.
Receive(k) ==
    /\ At(k, "idle") /\ WorkerFree
    /\ Live(k)
    /\ Goto(k, "check")
    /\ UNCHANGED <<conns, storeVars>>

\* in_session, read from the sender's connection.
Check(k) ==
    /\ At(k, "check")
    /\ \/ Online(UserOf[k]) /\ Goto(k, "build")
       \/ Await(k)
    /\ UNCHANGED <<conns, storeVars>>

\* The session is there and the sender is in it; the invitation is dated.
Build(k) ==
    /\ At(k, "build")
    /\ \/ \E u \in Users, s \in SessionIds :
             task' = [task EXCEPT ![k] =
                        [pc |-> "route",
                         invite |-> [target |-> u, sender |-> UserOf[k],
                                     session |-> s, sentAt |-> now]]]
       \/ Await(k)
    /\ UNCHANGED <<conns, storeVars>>

\* Mutant: every invitation is queued.
RouteAlwaysQueues(k) ==
    /\ At(k, "route")
    /\ Goto(k, "queue")
    /\ UNCHANGED <<conns, storeVars>>

\* connections.contains_key(target)
Route(k) ==
    /\ At(k, "route")
    /\ Goto(k, IF Online(task[k].invite.target) THEN "send" ELSE "queue")
    /\ UNCHANGED <<conns, storeVars>>

\* send_to_user: to whichever channel the target has now, or to nobody.
Send(k) ==
    /\ At(k, "send")
    /\ Await(k)
    /\ UNCHANGED <<conns, storeVars>>

\* pending_invites.insert; a refusal is reported to the sender.
Queue(k) ==
    /\ At(k, "queue")
    /\ Insert(task[k].invite)
    /\ Await(k)
    /\ UNCHANGED conns

-----------------------------------------------------------------------------
(* The minute's task and the wall clock. *)

Background == /\ Cleanup \/ Tick \/ TurnBack
              /\ UNCHANGED <<conns, task>>

\* The history: a new channel for the target of an invitation at "queue".
Remember ==
    LET overtaken == {k \in Sockets :
            /\ At(k, "queue")
            /\ conns'[task[k].invite.target] \notin
                   {None, conns[task[k].invite.target]}}
    IN crossed' = crossed \cup {task[k].invite : k \in overtaken}

Init == /\ StoreInit
        /\ conns = [u \in Users |-> None]
        /\ crossed = {}
        /\ task = [k \in Sockets |-> [pc |-> "auth", invite |-> NoInvite]]

Run(k) == \/ Greet(k) \/ Disconnect(k) \/ Check(k) \/ Build(k) \/ Route(k)
          \/ Send(k) \/ Queue(k)

Next == /\ \/ \E k \in Sockets :
                 \/ Register(k) \/ AuthFail(k) \/ Receive(k) \/ Break(k) \/ Run(k)
           \/ Background
        /\ Remember

\* Time passes and the minute's task runs; clients need not do anything.
Spec == Init /\ [][Next]_vars /\ WF_storeVars(Tick) /\ WF_storeVars(Cleanup)

-----------------------------------------------------------------------------
(* Properties. *)

Quiet == \A k \in Sockets : ~Busy(k)

\* However handlers interleave, at rest a deliverable invitation waits for a
\* user who is connected only if it crossed with that connection: its sender
\* looked before the target connected and queued after (session.rs:350,366).
\* Superseded sockets, late cleanups and drains of other connections strand
\* none (connection.rs:106, "Deliver any pending invites").
OnlyCrossedStrand ==
    Quiet => \A i \in pending : Fresh(i) /\ Online(i.target) => i \in crossed

\* With one worker none does: such a user has nothing more to do to be given
\* the invitation, and no step of the relay would.
NoneStranded ==
    Quiet => \A i \in pending : Fresh(i) => ~Online(i.target)
=============================================================================
