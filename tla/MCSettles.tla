------------------------------- MODULE MCSettles -------------------------------
(* The parts of the webview that have to settle, the offline watch state and  *)
(* the pop-out window, one at a time, as in MCWebview.                        *)
EXTENDS LibraryPages, RelaySocket, WatchPlayback, OfflineWatch, LinuxPopout

CONSTANTS Parts, byTitle, unwatched

MCChunksOf == (byTitle :> 2) @@ (unwatched :> 4)

VARIABLE part

vars == <<part, libraryVars, socketVars, playbackVars, offlineVars, popoutVars>>

Init ==
  /\ part \in Parts
  /\ LibraryInit /\ SocketInit /\ PlaybackInit /\ OfflineInit /\ PopoutInit
  /\ part # "offline" => server = None
  /\ part # "popout" => ~win.maxed

Next ==
  \/ /\ part = "library" /\ LibraryNext
     /\ UNCHANGED <<part, socketVars, playbackVars, offlineVars, popoutVars>>
  \/ /\ part = "socket" /\ SocketNext
     /\ UNCHANGED <<part, libraryVars, playbackVars, offlineVars, popoutVars>>
  \/ /\ part = "playback" /\ PlaybackNext
     /\ UNCHANGED <<part, libraryVars, socketVars, offlineVars, popoutVars>>
  \/ /\ part = "offline" /\ OfflineNext
     /\ UNCHANGED <<part, libraryVars, socketVars, playbackVars, popoutVars>>
  \/ /\ part = "popout" /\ PopoutNext
     /\ UNCHANGED <<part, libraryVars, socketVars, playbackVars, offlineVars>>

\* Each part with the fairness of its own specification.
Spec ==
  /\ Init /\ [][Next]_vars
  /\ WF_libraryVars(LibraryProgress)
  /\ WF_socketVars(SocketProgress)
  /\ \A v \in Viewers : WF_playbackVars(PlaybackWorks(v))

\* What the part that moves holds is what its module says.
SettlesTypeOK ==
  /\ part = "library" => LibraryTypeOK
  /\ part = "socket" => SocketTypeOK
  /\ part = "playback" => PlaybackTypeOK
  /\ part = "offline" => OfflineTypeOK
  /\ part = "popout" => PopoutTypeOK
=============================================================================
