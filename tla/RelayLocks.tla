----------------------------- MODULE RelayLocks -----------------------------
(***************************************************************************)
(* The locks of the relay server's handlers (relay-server/src: session.rs, *)
(* connection.rs).  A DashMap is split into shards, each with a lock for   *)
(* readers or one writer: `get`, `contains_key` and `iter` read, `insert`, *)
(* `get_mut`, `remove` and `remove_if` write, and a reference they return  *)
(* keeps the lock until it is dropped.  The participants of a session are  *)
(* a map of their own, the pending invitations are behind one mutex.       *)
(*                                                                         *)
(* A handler is a path through Rows: one row for each access, with what    *)
(* the handler keeps locked meanwhile, and the rows that may come next.    *)
(* What the data decide is left open: which row comes next, and which      *)
(* session or user it is about.                                            *)
(***************************************************************************)
EXTENDS Naturals

CONSTANTS Threads,  \* worker threads of the tokio runtime
          Ids,      \* session ids
          Names,    \* Plex usernames
          ShardOf,  \* the shard of a key: two keys may share one
          Nobody    \* no lock

ASSUME ShardsAssumption == ShardOf \in [Ids \cup Names -> Nat]

VARIABLES at,      \* the access a thread makes or waits to make, or "idle"
          caller,  \* where leave_session returns to
          holds,   \* the locks a thread has
          wants    \* the one it waits for, or Nobody

lockVars == <<at, caller, holds, wants>>

-----------------------------------------------------------------------------
(* The accesses of the handlers. *)

Row(label, mode, map, keeps, next) ==
    [label |-> label, mode |-> mode, map |-> map, keeps |-> keeps, next |-> next]

\* handle_connection: registration and takeover, the look at each message,
\* the cleanup.
ConnectionRows == {
    Row("register", "write", "connections", {}, {"takeover_session", "greet"}),
    Row("takeover_session", "read", "sessions", {}, {"takeover_entry", "greet"}),
    Row("takeover_entry", "write", "roster", {"sessions"},
        {"takeover_conn", "greet"}),
    Row("takeover_conn", "write", "connections", {"sessions", "roster"}, {"greet"}),
    Row("greet", "write", "store", {}, {"idle"}),
    Row("live", "read", "connections", {},
        {"idle", "create_check", "join_check", "leave", "reply", "invite_sender",
         "playback", "media"}),
    Row("disconnect", "write", "connections", {}, {"leave_session", "idle"})}

\* send_to_user, with a session still locked or not; broadcast_to_session.
SendRows == {
    Row("reply", "read", "connections", {}, {"idle"}),
    Row("reply_held", "read", "connections", {"sessions"}, {"idle"}),
    Row("tell", "read", "sessions", {}, {"tell_each", "idle"}),
    Row("tell_each", "read", "roster", {"sessions"}, {"idle"})}

CreateRows == {
    Row("create_check", "read", "sessions", {}, {"reply", "leave"}),
    Row("create_insert", "write", "sessions", {}, {"create_conn"}),
    Row("create_conn", "write", "connections", {}, {"reply"})}

JoinRows == {
    Row("join_check", "read", "sessions", {}, {"reply", "join_member"}),
    Row("join_member", "read", "roster", {"sessions"}, {"reply_held", "leave"}),
    Row("join_lookup", "read", "sessions", {}, {"join_collect", "idle"}),
    Row("join_collect", "read", "roster", {"sessions"}, {"join_insert"}),
    Row("join_insert", "write", "roster", {"sessions"}, {"join_conn"}),
    Row("join_conn", "write", "connections", {}, {"join_reply"}),
    Row("join_reply", "read", "connections", {}, {"join_tell"}),
    Row("join_tell", "read", "sessions", {}, {"join_tell_each", "idle"}),
    Row("join_tell_each", "read", "roster", {"sessions"}, {"idle"})}

\* leave_session and leave_session_inner.
LeaveRows == {
    Row("leave", "read", "connections", {}, {"leave_session", "return"}),
    Row("leave_session", "read", "sessions", {}, {"leave_remove", "left"}),
    Row("leave_remove", "write", "roster", {"sessions"},
        {"leave_rest", "leave_empty", "left"}),
    Row("leave_rest", "read", "roster", {"sessions"}, {"leave_empty"}),
    Row("leave_empty", "read", "roster", {"sessions"},
        {"destroy_tell", "left_tell", "leave_drop"}),
    Row("destroy_tell", "read", "sessions", {},
        {"destroy_tell_each", "leave_clear", "leave_drop"}),
    Row("destroy_tell_each", "read", "roster", {"sessions"},
        {"leave_clear", "leave_drop"}),
    Row("leave_clear", "write", "connections", {}, {"leave_clear", "leave_drop"}),
    Row("leave_drop", "write", "sessions", {}, {"left"}),
    Row("left_tell", "read", "sessions", {}, {"left_tell_each", "left"}),
    Row("left_tell_each", "read", "roster", {"sessions"}, {"left"}),
    Row("leave_done", "write", "connections", {}, {"return"})}

InviteRows == {
    Row("invite_sender", "read", "connections", {}, {"invite_session"}),
    Row("invite_session", "read", "sessions", {},
        {"invite_member", "reply", "reply_held"}),
    Row("invite_member", "read", "roster", {"sessions"},
        {"invite_look", "reply", "reply_held"}),
    Row("invite_look", "read", "connections", {}, {"reply", "invite_queue"}),
    Row("invite_queue", "write", "store", {}, {"reply", "idle"})}

\* relay_playback_event and handle_new_media.
PlaybackRows == {
    Row("playback", "read", "connections", {}, {"playback_session", "idle"}),
    Row("playback_session", "read", "sessions", {}, {"playback_entry", "tell"}),
    Row("playback_entry", "write", "roster", {"sessions"}, {"tell"}),
    Row("media", "read", "connections", {}, {"media_check", "idle"}),
    Row("media_check", "read", "sessions", {}, {"reply_held", "media_set"}),
    Row("media_set", "write", "sessions", {}, {"tell"})}

\* The minute's task and the health check.
OtherRows == {
    Row("expire", "write", "store", {}, {"idle"}),
    Row("health", "read", "sessions", {}, {"health_connections"}),
    Row("health_connections", "read", "connections", {}, {"idle"})}

\* Mutant: join_session keeps the session locked while it tells the others.
RowsJoinHeld ==
    {IF r.label \in {"join_conn", "join_reply", "join_tell"}
     THEN [r EXCEPT !.keeps = {"sessions"}] ELSE r :
     r \in ConnectionRows \cup SendRows \cup CreateRows \cup JoinRows
           \cup LeaveRows \cup InviteRows \cup PlaybackRows \cup OtherRows}

Rows == ConnectionRows \cup SendRows \cup CreateRows \cup JoinRows
        \cup LeaveRows \cup InviteRows \cup PlaybackRows \cup OtherRows

\* Where a thread that is idle may begin.
Begins == {"register", "live", "disconnect", "expire", "health"}

\* Where leave_session goes on when these have called it, and what comes
\* after leave_session_inner: a disconnect has no connection to reset.
Callers == [create_check |-> "create_insert", join_member |-> "join_lookup",
            live |-> "idle", disconnect |-> "idle"]
Resumed(t, label) ==
    CASE label = "return" -> Callers[caller[t]]
      [] label = "left" -> IF caller[t] = "disconnect" THEN "idle" ELSE "leave_done"
      [] OTHER -> label

-----------------------------------------------------------------------------
(* The locks. *)

Guard == [mode : {"read", "write"},
          map : {"sessions", "roster", "connections", "store"},
          key : Ids \cup Names \cup {Nobody}]

ASSUME NobodyAssumption == Nobody \notin Guard

SameLock(g, h) ==
    /\ g.map = h.map
    /\ \/ g.key = h.key
       \/ g.map \in {"sessions", "connections"} /\ ShardOf[g.key] = ShardOf[h.key]

Waiting(t) == wants[t] # Nobody

\* u has what t waits for.  (A thread that already has it waits for itself.)
Excludes(u, t) ==
    \E h \in holds[u] :
        SameLock(h, wants[t]) /\ "write" \in {h.mode, wants[t].mode}

\* t waits for u: u has the lock, or the lock makes readers wait behind a
\* writer that waits.  (Whether DashMap's does is its own business.)
WaitsFor(t, u) ==
    \/ Excludes(u, t)
    \/ /\ Waiting(u) /\ SameLock(wants[u], wants[t])
       /\ wants[u].mode = "write" /\ wants[t].mode = "read"

-----------------------------------------------------------------------------
(* The steps. *)

\* What an access of a map may be about: a roster is that of a session kept.
KeysOf(map, kept) ==
    CASE map = "sessions" -> Ids
      [] map = "roster" -> {g.key : g \in kept}
      [] map = "connections" -> Names
      [] map = "store" -> {Nobody}

\* The thread comes to row r, drops what it does not keep there, and asks for
\* the lock of r: of the session it keeps, or of any.
Comes(t, r) ==
    LET kept == {g \in holds[t] : g.map \in r.keeps} IN
    /\ at' = [at EXCEPT ![t] = r.label]
    /\ holds' = [holds EXCEPT ![t] = kept]
    /\ \E k \in KeysOf(r.map, kept) :
          wants' = [wants EXCEPT ![t] = [mode |-> r.mode, map |-> r.map, key |-> k]]

\* The runtime gives the thread a task that can go on.
Start(t) ==
    /\ at[t] = "idle"
    /\ \E r \in Rows : r.label \in Begins /\ Comes(t, r)
    /\ UNCHANGED caller

Acquire(t) ==
    /\ Waiting(t)
    /\ \A u \in Threads : ~Excludes(u, t)
    /\ holds' = [holds EXCEPT ![t] = @ \cup {wants[t]}]
    /\ wants' = [wants EXCEPT ![t] = Nobody]
    /\ UNCHANGED <<at, caller>>

\* The access is over, and the handler goes on to the next or returns.
Proceed(t) ==
    /\ at[t] # "idle" /\ ~Waiting(t)
    /\ \E r \in Rows : r.label = at[t] /\ \E label \in r.next :
          /\ IF Resumed(t, label) = "idle"
             THEN /\ at' = [at EXCEPT ![t] = "idle"]
                  /\ holds' = [holds EXCEPT ![t] = {}]
                  /\ UNCHANGED wants
             ELSE \E n \in Rows : n.label = Resumed(t, label) /\ Comes(t, n)
          /\ caller' = [caller EXCEPT ![t] =
                CASE label \in {"leave", "leave_session"} /\ at[t] # "leave" -> at[t]
                  [] at'[t] = "idle" \/ label = "return" -> "live"
                  [] OTHER -> @]

LocksInit ==
    /\ at = [t \in Threads |-> "idle"]
    /\ caller = [t \in Threads |-> "live"]
    /\ holds = [t \in Threads |-> {}]
    /\ wants = [t \in Threads |-> Nobody]

LocksNext == \E t \in Threads : Start(t) \/ Acquire(t) \/ Proceed(t)

LocksSpec == LocksInit /\ [][LocksNext]_lockVars

-----------------------------------------------------------------------------
(* Properties. *)

\* No circle: of any threads that wait for locks, one waits for none of the
\* others, whichever keys share a shard, and also where readers have to wait
\* behind a writer.  So a lock that joins, takeovers, broadcasts and removals
\* of one session compete for is free again ("avoid deadlock", session.rs:176).
NoCircle ==
    \A S \in SUBSET {t \in Threads : Waiting(t)} :
        S # {} => \E t \in S : \A u \in S : ~WaitsFor(t, u)
=============================================================================
