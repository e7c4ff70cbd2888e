------------------------------- MODULE Rosters --------------------------------
(* The participants of a session and the lists its clients show: the joining *)
(* and leaving handlers of the relay with what they send, the channel of     *)
(* each connection, and useWatchParticipants.                                *)
(*                                                                           *)
(* One session, from its creation to its end.  Connections stay (RelaySocket *)
(* and RelaySessions have those that do not), and a user's handlers run one  *)
(* after the other.  The states "buffering" and "ready" are left out.        *)
EXTENDS Webview, Naturals, Sequences, FiniteSets

CONSTANTS Watchers,      \* users
          Owner,         \* the host
          Capacity,      \* messages a connection's channel holds
          RosterWorkers, \* handlers that run at once
          MaxVisits      \* bound: pages opened

VARIABLES exists,   \* the relay has the session
          inside,   \* its participants
          handler,  \* the handler of a user's message that runs, if any
          requests, \* what a user has sent
          channel,  \* what the relay has sent to a user
          watching, \* the session's page is open, and listens
          people,   \* participants, as the page has them: how often each
          missed,   \* history: a message after the last roster was not taken
          crossed,  \* history: another handler ran while the last roster was
                    \* collected and sent
          visits    \* pages opened so far

relayVars == <<exists, inside, handler>>
rosterVars == <<relayVars, requests, channel, watching, people, missed,
                crossed, visits>>

Steps == [at : {"insert", "tell"}, seen : SUBSET Watchers]
         \cup [at : {"announce", "left", "destroyed", "remove"}]
RosterMessages ==
  [type : {"session_joined"}, all : SUBSET Watchers]
  \cup [type : {"participant_joined", "participant_left"}, who : Watchers]
  \cup [type : {"session_destroyed"}]

ASSUME RostersAssumption ==
  Owner \in Watchers /\ None \notin Steps /\ Capacity \in Nat
ASSUME VisitsAssumption == MaxVisits \in Nat

\* A list with each of a set once.
Once(set) == [u \in Watchers |-> IF u \in set THEN 1 ELSE 0]

RostersTypeOK ==
  /\ exists \in BOOLEAN /\ inside \subseteq Watchers
  /\ handler \in [Watchers -> Steps \cup {None}]
  /\ requests \in [Watchers -> Seq({"join", "leave"})]
  /\ channel \in [Watchers -> Seq(RosterMessages)]
  /\ \A u \in Watchers : Len(channel[u]) <= Capacity
  /\ {watching, missed, crossed} \subseteq [Watchers -> BOOLEAN]
  /\ people \in [Watchers -> [Watchers -> 0..MaxVisits]]
  /\ visits \in 0..MaxVisits

\* The host has created the session, and its page is open or about to open.
RostersInit ==
  /\ exists = TRUE /\ inside = {Owner}
  /\ handler = [u \in Watchers |-> None]
  /\ requests = [u \in Watchers |-> <<>>] /\ channel = [u \in Watchers |-> <<>>]
  /\ watching \in {[u \in Watchers |-> open /\ u = Owner] : open \in BOOLEAN}
  /\ people = [u \in Watchers |-> Once({})]
  /\ missed = [u \in Watchers |-> FALSE] /\ crossed = [u \in Watchers |-> FALSE]
  /\ visits = 0

-----------------------------------------------------------------------------
(* The relay                                                                 *)

\* try_send to each of `to`: a full channel takes no message.
Sends(message, to) ==
  LET full == {u \in to : Len(channel[u]) >= Capacity} IN
  /\ channel' = [u \in Watchers |->
       IF u \in to \ full THEN Append(channel[u], message) ELSE channel[u]]
  /\ missed' = [u \in Watchers |->
       \/ u \in full
       \/ missed[u] /\ (u \in to => message.type # "session_joined")]

\* broadcast_to_session finds the session or does nothing.
Broadcasts(message, but) == Sends(message, IF exists THEN inside \ but ELSE {})

Proceeds(u, step) == handler' = [handler EXCEPT ![u] = step]
IsAt(u, at) == handler[u] # None /\ handler[u].at = at

Takes(u, message) ==
  /\ handler[u] = None
  /\ Cardinality({v \in Watchers : handler[v] # None}) < RosterWorkers
  /\ requests[u] # <<>> /\ Head(requests[u]) = message
  /\ requests' = [requests EXCEPT ![u] = Tail(@)]

\* A handler of u's begins: what another that joins has collected, or one that
\* joins now collects, may be out of date when it is told.
Crosses(u, joins) ==
  crossed' = [v \in Watchers |->
    IF v = u
    THEN joins /\ \E w \in Watchers :
                    IsAt(w, "insert") \/ IsAt(w, "tell") \/ IsAt(w, "announce")
    ELSE crossed[v] \/ IsAt(v, "insert") \/ IsAt(v, "tell")]

\* join_session: refused, or it collects the participants there are.
TakesJoin(u) ==
  /\ Takes(u, "join") /\ Crosses(u, TRUE)
  /\ Proceeds(u, IF exists /\ u \notin inside
                 THEN [at |-> "insert", seen |-> inside] ELSE None)
  /\ UNCHANGED <<exists, inside, channel, watching, people, missed, visits>>

\* It enters itself, with the session still held.
Inserts(u) ==
  /\ IsAt(u, "insert")
  /\ inside' = inside \cup {u}
  /\ Proceeds(u, [handler[u] EXCEPT !.at = "tell"])
  /\ UNCHANGED <<exists, requests, channel, watching, people, missed, visits,
                 crossed>>

TellsRoster(u) ==
  /\ IsAt(u, "tell")
  /\ Sends([type |-> "session_joined", all |-> handler[u].seen], {u})
  /\ Proceeds(u, [at |-> "announce"])
  /\ UNCHANGED <<exists, inside, requests, watching, people, visits, crossed>>

Announces(u) ==
  /\ IsAt(u, "announce")
  /\ Broadcasts([type |-> "participant_joined", who |-> u], {u})
  /\ Proceeds(u, None)
  /\ UNCHANGED <<exists, inside, requests, watching, people, visits, crossed>>

\* leave_session: the host's ends the session for everybody.
TakesLeave(u) ==
  /\ Takes(u, "leave") /\ Crosses(u, FALSE)
  /\ inside' = inside \ {u}
  /\ Proceeds(u, CASE u \notin inside -> None
               [] inside = {u} -> [at |-> "remove"]
               [] u = Owner /\ inside # {u} -> [at |-> "destroyed"]
               [] OTHER -> [at |-> "left"])
  /\ UNCHANGED <<exists, channel, watching, people, missed, visits>>

AnnouncesLeft(u) ==
  /\ IsAt(u, "left")
  /\ Broadcasts([type |-> "participant_left", who |-> u], {})
  /\ Proceeds(u, None)
  /\ UNCHANGED <<exists, inside, requests, watching, people, visits, crossed>>

AnnouncesEnd(u) ==
  /\ IsAt(u, "destroyed")
  /\ Broadcasts([type |-> "session_destroyed"], {})
  /\ Proceeds(u, [at |-> "remove"])
  /\ UNCHANGED <<exists, inside, requests, watching, people, visits, crossed>>

\* It waits for the guards of those who are about to enter.
RemovesSession(u) ==
  /\ IsAt(u, "remove")
  /\ \A v \in Watchers : ~IsAt(v, "insert")
  /\ exists' = FALSE /\ inside' = {}
  /\ Proceeds(u, None)
  /\ UNCHANGED <<requests, channel, watching, people, missed, visits, crossed>>

-----------------------------------------------------------------------------
(* The client                                                                *)

\* The page of the session: a guest's joins, the host's finds it created.
OpensPage(u) ==
  /\ ~watching[u] /\ visits < MaxVisits
  /\ visits' = visits + 1
  /\ watching' = [watching EXCEPT ![u] = TRUE]
  /\ people' = [people EXCEPT ![u] = Once({})]
  /\ requests' = IF u = Owner THEN requests
                 ELSE [requests EXCEPT ![u] = Append(@, "join")]
  /\ UNCHANGED <<relayVars, channel, missed, crossed>>

ClosesPage(u) ==
  /\ watching[u]
  /\ watching' = [watching EXCEPT ![u] = FALSE]
  /\ people' = [people EXCEPT ![u] = Once({})]
  /\ requests' = [requests EXCEPT ![u] = Append(@, "leave")]
  /\ UNCHANGED <<relayVars, channel, missed, visits, crossed>>

\* The roster of session_joined replaces what is listed.
\* Mutant: it is added to it.
RosterMutant(list, all) == [v \in Watchers |-> list[v] + Once(all)[v]]
Roster(list, all) == Once(all)

\* useWatchParticipants.
Shown(list, message) ==
  CASE message.type = "session_joined" -> Roster(list, message.all)
    [] message.type = "participant_joined" ->
         [list EXCEPT ![message.who] = @ + 1]
    [] message.type = "participant_left" -> [list EXCEPT ![message.who] = 0]
    [] message.type = "session_destroyed" -> Once({})

Receives(u) ==
  /\ channel[u] # <<>>
  /\ channel' = [channel EXCEPT ![u] = Tail(@)]
  /\ people' = [people EXCEPT ![u] =
       IF watching[u] THEN Shown(@, Head(channel[u])) ELSE @]
  /\ missed' = [missed EXCEPT ![u] = @ \/ ~watching[u]]
  /\ UNCHANGED <<relayVars, requests, watching, visits, crossed>>

RostersNext == \E u \in Watchers :
  \/ TakesJoin(u) \/ Inserts(u) \/ TellsRoster(u) \/ Announces(u)
  \/ TakesLeave(u) \/ AnnouncesLeft(u) \/ AnnouncesEnd(u) \/ RemovesSession(u)
  \/ OpensPage(u) \/ ClosesPage(u) \/ Receives(u)

RostersSpec == RostersInit /\ [][RostersNext]_rosterVars

\* When nothing is under way, the page of a participant lists the others, each
\* once, unless its user's join crossed another handler at the relay, or a
\* message was dropped at a full channel or came while no page listened.
RostersAgree ==
  (\A u \in Watchers :
     handler[u] = None /\ requests[u] = <<>> /\ channel[u] = <<>>)
  => \A u \in inside : watching[u] /\ ~missed[u] /\ ~crossed[u] =>
       people[u] = Once(inside \ {u})
=============================================================================
