---------------------------- MODULE WatchPlayback -----------------------------
(* Play, pause and seek in a watch-together session: each participant's      *)
(* player, the effect that broadcasts what changed in it                     *)
(* (useRemotePlayback), the listeners that apply what the others broadcast,  *)
(* the drift check, and the relay that passes an event to everyone else.     *)
(*                                                                           *)
(* Positions are left out: a seek moves nothing here, but it sets the guard. *)
EXTENDS Webview, Integers, Sequences

CONSTANTS Viewers,     \* the participants of one session
          MaxLocal     \* bound: loads, joins and clicks, all viewers together

VARIABLES engine,       \* viewer -> mpv is playing
          loaded,       \* viewer -> the media has a duration
          reports,      \* viewer -> paused events of mpv on their way, FIFO
          isPlaying,    \* viewer -> the state as last set
          shown,        \* viewer -> the state as rendered: playerRef
          broadcast,    \* viewer -> the state the broadcast effect last ran on
          isInSession,  \* viewer -> the hook's state
          remoteAction, \* viewer -> remoteActionRef, the echo guard
          lastSync,     \* viewer -> lastRemoteSyncRef is set
          remoteEvents, \* viewer -> events the relay has sent it, FIFO
          locals        \* history: loads, joins and clicks so far

playbackVars ==
  <<engine, loaded, reports, isPlaying, shown, broadcast, isInSession,
    remoteAction, lastSync, remoteEvents, locals>>

Events == {"play", "pause", "seek"}

ASSUME LocalAssumption == MaxLocal \in Nat

PlaybackTypeOK ==
  /\ {engine, loaded, isPlaying, shown, broadcast, isInSession, remoteAction,
      lastSync} \subseteq [Viewers -> BOOLEAN]
  /\ reports \in [Viewers -> Seq(BOOLEAN)]
  /\ remoteEvents \in [Viewers -> Seq(Events)]
  /\ locals \in 0..MaxLocal

PlaybackInit ==
  /\ engine = [v \in Viewers |-> FALSE]
  /\ loaded = engine /\ isPlaying = engine /\ shown = engine
  /\ broadcast = engine /\ isInSession = engine
  /\ remoteAction = engine /\ lastSync = engine
  /\ reports = [v \in Viewers |-> <<>>]
  /\ remoteEvents = [v \in Viewers |-> <<>>]
  /\ locals = 0

\* Something the viewer v did, or its player did on its own account.
Local == locals < MaxLocal /\ locals' = locals + 1

\* mpv is told to play or pause, and reports the change if there is one.
Drive(v, on) ==
  /\ engine' = [engine EXCEPT ![v] = on]
  /\ reports' = IF engine[v] = on THEN reports
                ELSE [reports EXCEPT ![v] = Append(@, on)]

\* togglePlay: the command is the opposite of what was last rendered.
TogglePlay(v) == Drive(v, ~shown[v])

\* relay_playback_event: to every other participant of the session.
Relay(v, event) ==
  remoteEvents' = [w \in Viewers |->
              IF w # v /\ isInSession[w] THEN Append(remoteEvents[w], event)
              ELSE remoteEvents[w]]

-----------------------------------------------------------------------------

\* The media is ready and starts to play.
Load(v) ==
  /\ ~loaded[v]
  /\ Local
  /\ loaded' = [loaded EXCEPT ![v] = TRUE]
  /\ Drive(v, TRUE)
  /\ UNCHANGED <<isPlaying, shown, broadcast, isInSession, remoteAction,
                 lastSync, remoteEvents>>

\* player://paused: setIsPlaying. React may fold several into one render.
PausedEvent(v) ==
  /\ reports[v] # <<>>
  /\ isPlaying' = [isPlaying EXCEPT ![v] = Head(reports[v])]
  /\ reports' = [reports EXCEPT ![v] = Tail(@)]
  /\ UNCHANGED <<engine, loaded, shown, broadcast, isInSession, remoteAction,
                 lastSync, remoteEvents, locals>>

\* The render: React has run the effects of the last one before it.
Render(v) ==
  /\ broadcast[v] = shown[v]
  /\ isPlaying[v] # shown[v]
  /\ shown' = [shown EXCEPT ![v] = isPlaying[v]]
  /\ UNCHANGED <<engine, loaded, reports, isPlaying, broadcast, isInSession,
                 remoteAction, lastSync, remoteEvents, locals>>

\* The broadcast effect: a change under the guard is the echo of a remote
\* event and clears the guard; any other is announced, a pause only if media
\* is loaded.
Announce(v) ==
  IF remoteAction[v]
    THEN /\ remoteAction' = [remoteAction EXCEPT ![v] = FALSE]
         /\ UNCHANGED remoteEvents
    ELSE /\ UNCHANGED remoteAction
         /\ IF shown[v] \/ loaded[v]
              THEN Relay(v, IF shown[v] THEN "play" ELSE "pause")
              ELSE UNCHANGED remoteEvents

BroadcastEffect(v) ==
  /\ broadcast[v] # shown[v]
  /\ broadcast' = [broadcast EXCEPT ![v] = shown[v]]
  /\ UNCHANGED <<engine, loaded, reports, isPlaying, shown, isInSession,
                 lastSync, locals>>
  /\ IF isInSession[v] THEN Announce(v) ELSE UNCHANGED <<remoteAction,
                                                         remoteEvents>>

\* session_joined: the effect runs because isInSession changed.
EnterSession(v) ==
  /\ ~isInSession[v]
  /\ Local
  /\ isInSession' = [isInSession EXCEPT ![v] = TRUE]
  /\ broadcast' = [broadcast EXCEPT ![v] = shown[v]]
  /\ Announce(v)
  /\ UNCHANGED <<engine, loaded, reports, isPlaying, shown, lastSync>>

-----------------------------------------------------------------------------

\* syncTogglePlay: the play button or the space bar.
SyncTogglePlay(v) ==
  /\ loaded[v]
  /\ Local
  /\ TogglePlay(v)
  /\ UNCHANGED <<loaded, isPlaying, shown, broadcast, isInSession,
                 remoteAction, lastSync, remoteEvents>>

\* syncSeek: the guard is left alone, nothing of isPlaying changes.
SyncSeek(v) ==
  /\ loaded[v]
  /\ isInSession[v]
  /\ Local
  /\ Relay(v, "seek")
  /\ lastSync' = [lastSync EXCEPT ![v] = TRUE]
  /\ UNCHANGED <<engine, loaded, reports, isPlaying, shown, broadcast,
                 isInSession, remoteAction>>

\* The drift check: a viewer that plays more than two seconds away from the
\* last sync point is moved, under the guard.
DriftCheck(v) ==
  /\ isInSession[v] /\ shown[v]
  /\ lastSync[v]
  /\ remoteAction' = [remoteAction EXCEPT ![v] = TRUE]
  /\ UNCHANGED <<engine, loaded, reports, isPlaying, shown, broadcast,
                 isInSession, lastSync, remoteEvents, locals>>

\* Mutant: only a seek sets the guard.
GuardsMutant(event) == event = "seek"

\* Which remote events set the guard.
Guards(event) == event \in Events

\* remote_play, remote_pause and remote_seek: the guard goes up, and the
\* player is toggled if what it last rendered differs.
RemoteEvent(v) ==
  /\ remoteEvents[v] # <<>>
  /\ LET event == Head(remoteEvents[v])
     IN /\ remoteAction' = [remoteAction EXCEPT ![v] = @ \/ Guards(event)]
        /\ IF event \in {"play", "pause"} /\ shown[v] # (event = "play")
             THEN TogglePlay(v)
             ELSE UNCHANGED <<engine, reports>>
        /\ lastSync' = [lastSync EXCEPT ![v] = event # "pause"]
  /\ remoteEvents' = [remoteEvents EXCEPT ![v] = Tail(@)]
  /\ UNCHANGED <<loaded, isPlaying, shown, broadcast, isInSession, locals>>

-----------------------------------------------------------------------------

\* What mpv, React and the network do.
PlaybackWorks(v) ==
  PausedEvent(v) \/ Render(v) \/ BroadcastEffect(v) \/ RemoteEvent(v)

PlaybackNext ==
  \E v \in Viewers :
    \/ PlaybackWorks(v)
    \/ Load(v) \/ EnterSession(v) \/ DriftCheck(v)
    \/ SyncTogglePlay(v) \/ SyncSeek(v)

PlaybackSpec == PlaybackInit /\ [][PlaybackNext]_playbackVars

FairPlayback ==
  PlaybackSpec /\ \A v \in Viewers : WF_playbackVars(PlaybackWorks(v))

-----------------------------------------------------------------------------

(* The exchange dies out: once nobody touches anything, the players stop     *)
(* answering each other.                                                     *)
Quiets == <>[](\A v \in Viewers : remoteEvents[v] = <<>>)
=============================================================================
