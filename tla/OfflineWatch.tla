----------------------------- MODULE OfflineWatch ------------------------------
(* What was watched from a downloaded file: the list in localStorage         *)
(* (storage/watch-sync.ts), the ends of files that add to it, and the hook   *)
(* that uploads it to the server (useWatchSync.ts).                          *)
(*                                                                           *)
(* localStorage answers at once, so what a function reads, changes and       *)
(* writes back is one step; markAsWatched is a request.                      *)
EXTENDS Webview, Naturals, SequencesExt

CONSTANTS Downloaded,  \* rating keys of downloaded items
          Servers,     \* the servers the user chooses from
          MaxRestarts  \* bound: restarts, changes of server

VARIABLES pendingWatch, \* the stored list
          server,       \* auth.server
          syncs,        \* the syncs that run: what is left of the list they
                        \* read, and whether syncingRef tells of them
          scrobbled,    \* history: what a server was told
          finished,     \* history: what was watched to its end offline
          restarts      \* restarts and changes of server so far

offlineVars == <<pendingWatch, server, syncs, scrobbled, finished, restarts>>

ASSUME RestartsAssumption == MaxRestarts \in Nat

OfflineTypeOK ==
  /\ pendingWatch \in Seq(Downloaded) /\ IsInjective(pendingWatch)
  /\ server \in Servers \cup {None}
  /\ syncs \subseteq [todo : Seq(Downloaded) \ {<<>>}, known : BOOLEAN]
  /\ scrobbled \subseteq Downloaded /\ finished \subseteq Downloaded
  /\ restarts \in 0..MaxRestarts

OfflineInit ==
  /\ pendingWatch = <<>>
  /\ server \in Servers \cup {None}
  /\ syncs = {}
  /\ scrobbled = {} /\ finished = {} /\ restarts = 0

\* Mutant: an item watched again is added again.
FinishesOfflineMutant(key) ==
  /\ pendingWatch' = Append(pendingWatch, key)
  /\ finished' = finished \cup {key}
  /\ UNCHANGED <<server, syncs, scrobbled, restarts>>

\* eof of a local file: addPendingWatchSync.
FinishesOffline(key) ==
  /\ pendingWatch' = IF key \in Range(pendingWatch) THEN pendingWatch
                     ELSE Append(pendingWatch, key)
  /\ finished' = finished \cup {key}
  /\ UNCHANGED <<server, syncs, scrobbled, restarts>>

\* The effect of useWatchSync, `running` the syncs it finds: nothing while one
\* it knows of runs, and nothing for an empty list.
Starts(srv, running) ==
  syncs' = IF srv = None \/ pendingWatch = <<>> \/ \E s \in running : s.known
           THEN running
           ELSE running \cup {[todo |-> pendingWatch, known |-> TRUE]}

\* auth.server changes: selected, read again, lost.
ChangesServer(srv) ==
  /\ restarts < MaxRestarts /\ restarts' = restarts + 1
  /\ server' = srv
  /\ Starts(srv, syncs)
  /\ UNCHANGED <<pendingWatch, scrobbled, finished>>

\* AppLayout is mounted anew, with a syncingRef of its own; a sync goes on.
Remounts(srv) ==
  /\ restarts < MaxRestarts /\ restarts' = restarts + 1
  /\ server' = srv
  /\ Starts(srv, {[s EXCEPT !.known = FALSE] : s \in syncs})
  /\ UNCHANGED <<pendingWatch, scrobbled, finished>>

\* The application ends and begins again, perhaps between an answer and the
\* removal; the list is what was written.
Restarts(srv) ==
  /\ restarts < MaxRestarts /\ restarts' = restarts + 1
  /\ server' = srv
  /\ Starts(srv, {})
  /\ UNCHANGED <<pendingWatch, scrobbled, finished>>

\* removePendingWatchSync reads the list again, and filters it: an item is in
\* it once at most (OfflineTypeOK).
\* Mutant: what the sync has read is written back without the entry.
RemovedMutant(s) == Tail(s.todo)
Removed(s) == RemoveFirst(pendingWatch, Head(s.todo))

\* markAsWatched is answered, by whichever server it is, and the entry removed.
Marked(s) ==
  /\ scrobbled' = scrobbled \cup {Head(s.todo)}
  /\ pendingWatch' = Removed(s)
  /\ syncs' = (syncs \ {s}) \cup
       (IF Len(s.todo) = 1 THEN {} ELSE {[s EXCEPT !.todo = Tail(s.todo)]})
  /\ UNCHANGED <<server, finished, restarts>>

\* It fails, or its answer is lost: the sync ends, the rest stays.
MarkFails(s) ==
  /\ scrobbled' \in {scrobbled, scrobbled \cup {Head(s.todo)}}
  /\ syncs' = syncs \ {s}
  /\ UNCHANGED <<pendingWatch, server, finished, restarts>>

OfflineNext ==
  \/ \E key \in Downloaded : FinishesOffline(key)
  \/ \E srv \in Servers \cup {None} :
       ChangesServer(srv) \/ Remounts(srv) \/ Restarts(srv)
  \/ \E s \in syncs : Marked(s) \/ MarkFails(s)

OfflineSpec == OfflineInit /\ [][OfflineNext]_offlineVars

\* What was watched offline stays in the list until a server has been told,
\* whatever ends while a sync runs and wherever a sync breaks off.
NothingUnreported == finished \subseteq Range(pendingWatch) \cup scrobbled
=============================================================================
