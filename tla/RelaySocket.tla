----------------------------- MODULE RelaySocket ------------------------------
(***************************************************************************)
(* The webview's one connection to a relay (src/services/watch-sync.ts),   *)
(* and the two that share it: the invitations (src/hooks/useInvites.ts),   *)
(* who keep it open while somebody is signed in, and the Watch Together    *)
(* page (watch-together/useWatchTogetherSession.ts), which may move it to  *)
(* the relay an invitation names and joins a session over it.              *)
(*                                                                         *)
(* A socket that was discarded or broke has no handlers left, but the      *)
(* relay (relay-server/src/connection.rs) has not heard of that yet: it    *)
(* goes on with what was sent, and to the user's next socket it hands over *)
(* the session of the last.  Of the relay the model keeps what it knows of *)
(* this client, a handler being one step; one that rejects the token or is *)
(* rid of an idle client closes the connection, and so breaks it.          *)
(***************************************************************************)
EXTENDS Webview, Naturals, Sequences

CONSTANTS Home, Invited,  \* the relays: the user's own, an invitation's
          MaxBackoff,     \* doublings of the delay until maxReconnectDelay
          Slots,          \* bound: connections a relay has not ended yet
          MaxFaults,      \* bound: connections that fail or break
          MaxMoves        \* bound: what users do

Stages == {"user", "auth", "in", "failed"}

Messages == {"auth", "join", "leave"}

\* A connection that its client has left behind.
Connection == [relay : {Home, Invited}, outbox : Seq(Messages), registered : BOOLEAN]

ASSUME SocketAssumption ==
    /\ {MaxBackoff, MaxFaults, MaxMoves} \cup Slots \subseteq Nat
    /\ None \notin Stages \cup Connection \cup {Home, Invited}

VARIABLES ws,              \* the socket: none, connecting, open or closed
          url, shouldReconnect, authenticated,
          reconnectTimer, reconnectDelay, pingInterval,
          outbox, inbox,   \* messages under way on the socket
          heard,           \* what the relay makes of it: nothing yet, the user's
                           \* registered connection, or a superseded one
          old,             \* connections left behind that a relay still serves
          members,         \* the relays that have the user in the session
          unheard,         \* history: a page was left and no relay may hear of it
          signedIn,        \* useInviteState has a token
          looking,         \* connectToRelay's that await the user and the URL
          refreshTimer,    \* refreshInvites' half second
          joining,         \* joinSession of the page that is open, or nothing
          stray,           \* one whose page was left
          syncStatus,
          faults, moves

timers == <<reconnectTimer, reconnectDelay>>
wire == <<outbox, inbox, heard, old, members, unheard>>
service == <<ws, url, shouldReconnect, authenticated, timers, pingInterval, wire>>
invitesVars == <<signedIn, looking, refreshTimer>>
sessionVars == <<joining, stray, syncStatus>>
socketVars == <<service, invitesVars, sessionVars, faults, moves>>

isConnected == ws = "open" /\ authenticated

-----------------------------------------------------------------------------
(* The service *)

\* A connection that a relay may still hear something on, and what: one that
\* is neither registered nor about to be does nothing more.
Left(messages) ==
    IF heard = "registered" \/ (heard = "no" /\ messages # <<>>)
    THEN \E k \in Slots :
         /\ old[k] = None /\ \A j \in Slots : j < k => old[j] # None
         /\ old' = [old EXCEPT ![k] = [relay |-> url, outbox |-> messages,
                                       registered |-> heard = "registered"]]
    ELSE UNCHANGED old

NoSocket == outbox' = <<>> /\ inbox' = <<>> /\ heard' = "no"

\* A relay has the user in a session, or a connection left behind.
Lingers == members # {} \/ \E k \in Slots : old[k] # None

\* The history: lost says that a leave_session came to nothing.
Unheard(lost) == unheard' = ((unheard \/ lost) /\ Lingers')

LeaveIn(messages) == \E i \in DOMAIN messages : messages[i] = "leave"

\* discardSocket: what was sent before close() still arrives.
DiscardSocket ==
    /\ Left(outbox) /\ NoSocket
    /\ UNCHANGED <<members, unheard>>

\* The timer that is due or cleared is none; createConnection, whose
\* constructor may throw, and scheduleReconnect then.
CreateConnection(throws) ==
    /\ pingInterval' = FALSE
    /\ DiscardSocket
    /\ reconnectTimer' = throws
    /\ IF throws
       THEN /\ faults < MaxFaults /\ faults' = faults + 1
            /\ ws' = "none"
            /\ reconnectDelay' = IF reconnectDelay < MaxBackoff
                                 THEN reconnectDelay + 1 ELSE reconnectDelay
       ELSE /\ ws' = "connecting"
            /\ UNCHANGED <<reconnectDelay, faults>>

\* Mutant: a socket that has closed is taken for one that serves.
ConnectToMutant(to, throws) ==
    /\ url' = to
    /\ shouldReconnect' = TRUE
    /\ IF url = to /\ ws # "none"
       THEN /\ ~throws /\ reconnectTimer' = FALSE
            /\ UNCHANGED <<ws, authenticated, reconnectDelay, pingInterval, wire,
                           faults>>
       ELSE authenticated' = FALSE /\ CreateConnection(throws)

\* connect, to the relay to.
ConnectTo(to, throws) ==
    /\ url' = to
    /\ shouldReconnect' = TRUE
    /\ IF url = to /\ ws \in {"open", "connecting"}
       THEN /\ ~throws /\ reconnectTimer' = FALSE
            /\ UNCHANGED <<ws, authenticated, reconnectDelay, pingInterval, wire,
                           faults>>
       ELSE authenticated' = FALSE /\ CreateConnection(throws)

\* Mutant: the reconnect timer survives.
DisconnectMutant ==
    /\ shouldReconnect' = FALSE /\ authenticated' = FALSE
    /\ pingInterval' = FALSE
    /\ ws' = "none"
    /\ DiscardSocket
    /\ UNCHANGED <<url, timers>>

\* disconnect.
Disconnect ==
    /\ shouldReconnect' = FALSE /\ authenticated' = FALSE
    /\ reconnectTimer' = FALSE /\ pingInterval' = FALSE
    /\ ws' = "none"
    /\ DiscardSocket
    /\ UNCHANGED <<url, reconnectDelay>>

\* scheduleReconnect.
ScheduleReconnect ==
    /\ reconnectTimer' = TRUE
    /\ reconnectDelay' =
          IF ~reconnectTimer /\ reconnectDelay < MaxBackoff
          THEN reconnectDelay + 1 ELSE reconnectDelay

\* What listeners of "disconnected" do to the page.
ToldDisconnected ==
    syncStatus' = IF joining # None THEN "disconnected" ELSE syncStatus

\* onopen: the backoff starts over, and auth is sent at once.
SocketOpens ==
    /\ ws = "connecting"
    /\ ws' = "open"
    /\ reconnectDelay' = 0
    /\ pingInterval' = TRUE
    /\ outbox' = <<"auth">>
    /\ syncStatus' = IF joining # None THEN "syncing" ELSE syncStatus
    /\ UNCHANGED <<url, shouldReconnect, authenticated, reconnectTimer, inbox,
                   heard, old, members, unheard, invitesVars, joining, stray,
                   faults, moves>>

\* onclose, of a connection that fails or breaks, and with it the messages
\* from some on, or that the relay ends as superseded.
SocketCloses ==
    /\ ws \in {"connecting", "open"}
    /\ IF heard = "superseded" THEN UNCHANGED faults
       ELSE faults < MaxFaults /\ faults' = faults + 1
    /\ ws' = "closed"
    /\ authenticated' = FALSE /\ pingInterval' = FALSE
    /\ NoSocket
    /\ ToldDisconnected
    /\ IF shouldReconnect THEN ScheduleReconnect ELSE UNCHANGED timers
    /\ UNCHANGED <<url, shouldReconnect, members, invitesVars, joining, stray, moves>>
    /\ \E n \in 0..Len(outbox) :
          /\ Left(SubSeq(outbox, 1, n))
          /\ Unheard(LeaveIn(SubSeq(outbox, n + 1, Len(outbox))))

\* The timer fires.
Reconnect(throws) ==
    /\ reconnectTimer
    /\ CreateConnection(throws)
    /\ UNCHANGED <<url, shouldReconnect, authenticated, invitesVars, sessionVars,
                   moves>>

-----------------------------------------------------------------------------
(* The relay *)

webviewVars == <<ws, url, shouldReconnect, authenticated, timers, pingInterval,
                 invitesVars, sessionVars, moves>>

Registered(r) == {k \in Slots : old[k] # None /\ old[k].relay = r /\ old[k].registered}

\* auth on the socket: it is registered, and is in the session its
\* predecessor was in.
RelayRegisters ==
    /\ outbox # <<>> /\ Head(outbox) = "auth"
    /\ outbox' = Tail(outbox)
    /\ inbox' = Append(inbox, "auth_ok")
    /\ heard' = "registered"
    /\ old' = [k \in Slots |-> IF k \in Registered(url) THEN None ELSE old[k]]
    /\ UNCHANGED <<webviewVars, members, faults>>
    /\ Unheard(\E k \in Registered(url) : LeaveIn(old[k].outbox))

\* join_session and leave_session of the registered connection.
MembersAfter(message, r) ==
    IF message = "join" THEN members \cup {r} ELSE members \ {r}

RelayHandles ==
    /\ outbox # <<>> /\ Head(outbox) # "auth"
    /\ outbox' = Tail(outbox)
    /\ members' = MembersAfter(Head(outbox), url)
    /\ UNCHANGED <<webviewVars, inbox, heard, old, faults>>
    /\ Unheard(FALSE)

\* The same, late, on a connection that is no more.
RelayRegistersLate(k) ==
    LET w == old[k] IN
    /\ w # None /\ w.outbox # <<>> /\ Head(w.outbox) = "auth"
    /\ old' = [j \in Slots |->
                 IF j = k THEN [w EXCEPT !.outbox = Tail(@), !.registered = TRUE]
                 ELSE IF j \in Registered(w.relay) THEN None ELSE old[j]]
    /\ UNCHANGED <<webviewVars, inbox, members, faults>>
    /\ IF heard = "registered" /\ w.relay = url
       THEN heard' = "superseded" /\ outbox' = <<>> /\ Unheard(LeaveIn(outbox))
       ELSE /\ UNCHANGED <<heard, outbox>>
            /\ Unheard(\E j \in Registered(w.relay) : LeaveIn(old[j].outbox))

RelayHandlesLate(k) ==
    LET w == old[k] IN
    /\ w # None /\ w.outbox # <<>> /\ Head(w.outbox) # "auth"
    /\ old' = [old EXCEPT ![k].outbox = Tail(@)]
    /\ members' = MembersAfter(Head(w.outbox), w.relay)
    /\ UNCHANGED <<webviewVars, outbox, inbox, heard, faults>>
    /\ Unheard(FALSE)

\* The relay finds that the connection is gone, and cleans up.
RelayEnds(k) ==
    LET w == old[k] IN
    /\ w # None
    /\ IF w.outbox = <<>> THEN UNCHANGED faults
       ELSE faults < MaxFaults /\ faults' = faults + 1
    /\ old' = [old EXCEPT ![k] = None]
    /\ members' = IF w.registered THEN members \ {w.relay} ELSE members
    /\ UNCHANGED <<webviewVars, outbox, inbox, heard>>
    /\ Unheard(LeaveIn(w.outbox))

\* send: a message goes nowhere unless the socket is open, and comes to
\* nothing if the relay has superseded it.
Sent(message) ==
    IF ws = "open" /\ heard # "superseded" THEN Append(outbox, message) ELSE outbox

-----------------------------------------------------------------------------
(* Joining *)

\* Mutant: it joins although its page was left.
ProceedMutant(cancelled) ==
    /\ outbox' = Sent("join")
    /\ joining' = IF cancelled THEN joining ELSE "in"
    /\ syncStatus' = IF cancelled THEN syncStatus ELSE "synced"

\* joinSession goes on, connected: unless its page was left, it joins.
Proceed(cancelled) ==
    IF cancelled THEN UNCHANGED <<outbox, joining, syncStatus>>
    ELSE /\ outbox' = Sent("join")
         /\ joining' = "in"
         /\ syncStatus' = "synced"

\* auth_ok: the joins that wait for it go on.
AuthOk ==
    /\ inbox # <<>> /\ Head(inbox) = "auth_ok"
    /\ inbox' = Tail(inbox)
    /\ authenticated' = TRUE
    /\ stray' = IF stray = "auth" THEN None ELSE stray
    /\ IF "auth" \in {joining, stray} THEN Proceed(joining # "auth")
       ELSE UNCHANGED <<outbox, joining, syncStatus>>
    /\ UNCHANGED <<ws, url, shouldReconnect, timers, pingInterval, heard, old,
                   members, unheard, invitesVars, faults, moves>>

\* The user opens a session an invitation names: a guest's page.
OpenSession ==
    /\ joining = None
    /\ moves < MaxMoves /\ moves' = moves + 1
    /\ IF isConnected THEN Proceed(FALSE)
       ELSE joining' = "user" /\ UNCHANGED <<outbox, syncStatus>>
    /\ UNCHANGED <<ws, url, shouldReconnect, authenticated, timers, pingInterval,
                   inbox, heard, old, members, unheard, invitesVars, stray, faults>>

\* getPlexUser returns: connect, and wait for auth_ok, unless the connection
\* was made meanwhile.  The page may have been left: connect all the same.
Identified(throws) ==
    /\ joining = "user"
    /\ IF url = Invited /\ isConnected
       THEN /\ ~throws
            /\ reconnectTimer' = FALSE
            /\ Proceed(FALSE)
            /\ UNCHANGED <<ws, url, shouldReconnect, authenticated,
                           reconnectDelay, pingInterval, inbox, heard, old,
                           members, unheard, faults>>
       ELSE ConnectTo(Invited, throws) /\ joining' = "auth" /\ UNCHANGED syncStatus
    /\ UNCHANGED <<invitesVars, stray, moves>>

StrayIdentified(throws) ==
    /\ stray = "user"
    /\ stray' = IF url = Invited /\ isConnected THEN None ELSE "auth"
    /\ ConnectTo(Invited, throws)
    /\ UNCHANGED <<invitesVars, joining, syncStatus, moves>>

\* getPlexUser fails, or five seconds pass without auth_ok.
JoinFails ==
    /\ faults < MaxFaults /\ faults' = faults + 1
    /\ \/ /\ joining \in {"user", "auth"}
          /\ joining' = "failed" /\ syncStatus' = "disconnected"
          /\ UNCHANGED stray
       \/ /\ stray # None /\ stray' = None
          /\ UNCHANGED <<joining, syncStatus>>
    /\ UNCHANGED <<service, invitesVars, moves>>

\* The page is left: whatever it had come to, leave_session is sent.  It may
\* come to nothing, or not to the connection that is in the session.
CloseSession ==
    /\ joining # None
    /\ joining \in {"user", "auth"} => stray = None
    /\ stray' = IF joining \in {"user", "auth"} THEN joining ELSE stray
    /\ joining' = None
    /\ syncStatus' = "disconnected"
    /\ outbox' = Sent("leave")
    /\ UNCHANGED <<ws, url, shouldReconnect, authenticated, timers, pingInterval,
                   inbox, heard, old, members, invitesVars, faults, moves>>
    /\ Unheard(outbox' = outbox \/ \E k \in Slots : old[k] # None)

-----------------------------------------------------------------------------
(* Invitations *)

\* connectToRelay begins: at sign-in, and when refreshInvites' timer fires.
SignIn ==
    /\ ~signedIn
    /\ moves < MaxMoves /\ moves' = moves + 1
    /\ signedIn' = TRUE
    /\ looking' = looking + 1
    /\ UNCHANGED <<service, refreshTimer, sessionVars, faults>>

RefreshFires ==
    /\ refreshTimer
    /\ refreshTimer' = FALSE
    /\ looking' = looking + 1
    /\ UNCHANGED <<service, signedIn, sessionVars, faults, moves>>

\* The user and the relay's URL are known.
LookedUp(throws) ==
    /\ looking > 0
    /\ looking' = looking - 1
    /\ ConnectTo(Home, throws)
    /\ UNCHANGED <<signedIn, refreshTimer, sessionVars, moves>>

\* Or they cannot be found out.
LookupFails ==
    /\ looking > 0
    /\ looking' = looking - 1
    /\ faults < MaxFaults /\ faults' = faults + 1
    /\ UNCHANGED <<service, signedIn, refreshTimer, sessionVars, moves>>

\* The effect's cleanup.  (Session pages are left first.)
SignOut ==
    /\ signedIn /\ joining = None
    /\ moves < MaxMoves /\ moves' = moves + 1
    /\ signedIn' = FALSE
    /\ Disconnect
    /\ UNCHANGED <<looking, refreshTimer, sessionVars, faults>>

\* refreshInvites: the relay's address was changed in the settings.
RefreshInvites ==
    /\ signedIn /\ ~refreshTimer
    /\ moves < MaxMoves /\ moves' = moves + 1
    /\ Disconnect
    /\ IF ws # "none" THEN ToldDisconnected ELSE UNCHANGED syncStatus
    /\ refreshTimer' = TRUE
    /\ UNCHANGED <<signedIn, looking, joining, stray, faults>>

SocketInit ==
    /\ ws = "none" /\ url = None /\ shouldReconnect = FALSE
    /\ authenticated = FALSE
    /\ reconnectTimer = FALSE /\ reconnectDelay = 0 /\ pingInterval = FALSE
    /\ outbox = <<>> /\ inbox = <<>> /\ heard = "no"
    /\ old = [k \in Slots |-> None] /\ members = {} /\ unheard = FALSE
    /\ signedIn = FALSE /\ looking = 0 /\ refreshTimer = FALSE
    /\ joining = None /\ stray = None /\ syncStatus = "disconnected"
    /\ faults = 0 /\ moves = 0

\* What the network, the relays, timers and answers do.
SocketProgress ==
    \/ SocketOpens \/ (heard = "superseded" /\ SocketCloses)
    \/ Reconnect(FALSE) \/ RefreshFires
    \/ RelayRegisters \/ RelayHandles
    \/ \E k \in Slots : RelayRegistersLate(k) \/ RelayHandlesLate(k) \/ RelayEnds(k)
    \/ AuthOk \/ Identified(FALSE) \/ StrayIdentified(FALSE) \/ LookedUp(FALSE)

SocketNext ==
    \/ SocketProgress
    \/ SocketCloses \/ Reconnect(TRUE) \/ Identified(TRUE) \/ StrayIdentified(TRUE)
    \/ LookedUp(TRUE) \/ LookupFails \/ JoinFails
    \/ OpenSession \/ CloseSession
    \/ SignIn \/ SignOut \/ RefreshInvites

SocketSpec == SocketInit /\ [][SocketNext]_socketVars

\* Timers fire, requests are answered, and the relay serves who it can.
FairSocket == SocketSpec /\ WF_socketVars(SocketProgress)

-----------------------------------------------------------------------------
(* Properties *)

\* Every variable has its type (the fields of wsService, the hooks' state).
SocketTypeOK ==
    /\ ws \in {"none", "connecting", "open", "closed"}
    /\ url \in {Home, Invited, None}
    /\ {shouldReconnect, authenticated, reconnectTimer, pingInterval, unheard,
        signedIn, refreshTimer} \subseteq BOOLEAN
    /\ reconnectDelay \in 0..MaxBackoff
    /\ \A i \in DOMAIN outbox : outbox[i] \in Messages
    /\ inbox \in {<<>>, <<"auth_ok">>}
    /\ heard \in {"no", "registered", "superseded"}
    /\ \A k \in Slots : old[k] = None \/ old[k] \in Connection
    /\ members \subseteq {Home, Invited}
    /\ looking \in 0..(2 * MaxMoves)
    /\ joining \in Stages \cup {None} /\ stray \in {"user", "auth", None}
    /\ syncStatus \in {"disconnected", "syncing", "synced"}

\* However connects, disconnects, broken connections and the timer interleave:
\* the service is never wedged with nothing under way while it ought to
\* reconnect, nothing is left running once it was told to stop, it pings
\* exactly while the socket is open, and it takes itself for authenticated
\* only on a socket that the relay has registered.
SocketSound ==
    /\ shouldReconnect => ws \in {"connecting", "open"} \/ reconnectTimer
    /\ ~shouldReconnect => ws = "none" /\ ~reconnectTimer
    /\ pingInterval <=> ws = "open"
    /\ authenticated => ws = "open" /\ heard # "no"

\* Nothing is under way between the webview and the relays.
NothingUnderWay == outbox = <<>> /\ \A k \in Slots : old[k] = None

\* The relay has a user in a session only while its page is open, once it has
\* ended the connections left behind: "Leave session on unmount"
\* (useWatchTogetherSession.ts:100).
LeftOnUnmount == NothingUnderWay /\ members # {} => joining # None

\* So it is unless leave_session was not heard: a join whose page was left
\* before it was done sends nothing; and a leave that is sent over the only
\* connection reaches the relay before the next socket takes the session
\* over, or the session is left when the relay ends the connection.
MemberHasPage == NothingUnderWay /\ members # {} => joining # None \/ unheard

\* Whoever ought to be connected is in the end, when no more connections
\* break: no backoff, discarded socket or forgotten timer leaves the service
\* waiting for ever.
ConnectsInTheEnd == shouldReconnect ~> isConnected \/ ~shouldReconnect
=============================================================================
