----------------------------- MODULE NativePlayer ------------------------------
(* The native player between React and mpv: useNativePlayer's initPlayback,  *)
(* its cleanups and the reveal mute of Linux, the session of PlayerContext   *)
(* and the exit of usePlayerLifecycle, with the commands player_load_url,    *)
(* player_stop, player_unload and player_set_muted as Rust runs them: on the *)
(* threads of its runtime, in any order.                                     *)
(*                                                                           *)
(* Positions and what is reported of them, tracks, subtitles, volume and the *)
(* HTML5 fallback are left out.                                              *)
EXTENDS Webview, Integers

CONSTANTS Items,       \* rating keys
          MaxInits,    \* bound: initGenRef
          MaxToggles,  \* bound: clicks on the mute button
          MaxCalls     \* bound: commands of one kind that wait

VARIABLES linux,     \* IS_LINUX_NATIVE_PLAYER, fixed at the start
          ratingKey, \* the session's ratingKey, None: no player mounted
          exiting,   \* lifecycle.exit has unloaded and is about to stop
          initGen,   \* initGenRef
          inits,     \* the initPlayback calls that await something
          playError, \* playbackError is set
          isMuted,   \* the user's choice
          muteArmed, \* revealMuteArmedRef
          settling,  \* the init whose reveal mute waits for the first frame
                     \* or its timer
          loads,     \* player_load_url calls inside Rust
          builder,   \* the call that holds init_lock
          mpv,       \* the handle, its file and its mute, or None
          calls,     \* the other commands that are invoked and have not run
          toggles,   \* clicks on mute so far
          overtaken  \* history: a load or a mute was overtaken

playerVars == <<linux, ratingKey, exiting, initGen, inits, playError, isMuted,
                muteArmed, settling, loads, builder, mpv, calls, toggles,
                overtaken>>

Gens == 0..MaxInits
WarmUp == 0         \* as a builder: the warm-up thread of app_ready
Handle == [file : Items \cup {None}, muted : BOOLEAN]
Idle == [file |-> None, muted |-> FALSE]
Commands == {"stop", "unload", "mute", "unmute"}

ASSUME PlayerAssumption ==
  /\ MaxInits \in Nat /\ MaxToggles \in Nat /\ MaxCalls \in Nat \ {0}
  /\ None \notin Items \cup Gens \cup Handle

PlayerTypeOK ==
  /\ {linux, exiting, playError, isMuted, muteArmed, overtaken}
       \subseteq BOOLEAN
  /\ ratingKey \in Items \cup {None}
  /\ initGen \in Gens
  /\ inits \subseteq [gen : Gens, item : Items,
                      at : {"source", "listen", "load", "loaded", "refused",
                            "volume"}]
  /\ loads \subseteq [gen : Gens, item : Items, at : {"ensure", "built"}]
  /\ {settling, builder} \subseteq Gens \cup {None}
  /\ mpv \in Handle \cup {None}
  /\ calls \in [Commands -> 0..MaxCalls]
  /\ toggles \in 0..MaxToggles

PlayerInit ==
  /\ linux \in BOOLEAN
  /\ ratingKey = None /\ exiting = FALSE
  /\ initGen = 0 /\ inits = {} /\ playError = FALSE
  /\ isMuted = FALSE /\ muteArmed = FALSE /\ settling = None
  /\ loads = {} /\ builder \in {None, WarmUp} /\ mpv = None
  /\ calls = [c \in Commands |-> 0] /\ toggles = 0 /\ overtaken = FALSE

-----------------------------------------------------------------------------
(* Rust                                                                      *)

\* player_stop: the handle stays, muted and without a file.
Stopped(handle) == IF handle = None THEN None ELSE [file |-> None, muted |-> TRUE]

\* player_set_muted: an error, and no effect, without a handle.
Muting(handle, muted) ==
  IF handle = None THEN None ELSE [handle EXCEPT !.muted = muted]

Runs(c) ==
  /\ calls[c] > 0
  /\ calls' = [calls EXCEPT ![c] = @ - 1]
  /\ mpv' = CASE c = "stop" -> Stopped(mpv)
              [] c = "unload" -> None
              [] c \in {"mute", "unmute"} -> Muting(mpv, c = "mute")
  /\ UNCHANGED <<linux, ratingKey, exiting, initGen, inits, playError, isMuted,
                 muteArmed, settling, loads, builder, toggles, overtaken>>

Invokes(c) ==
  /\ calls[c] < MaxCalls
  /\ calls' = [calls EXCEPT ![c] = @ + 1]
MuteTo(muted) == IF muted THEN "mute" ELSE "unmute"
Stopping == calls["stop"] > 0 \/ calls["unload"] > 0

\* An unload meets a load that has not reached mpv.
Overtakes == overtaken' = (overtaken \/ loads # {})

\* A mute meets the opposite one, and the last to run wins.
Mutes(muted) ==
  /\ Invokes(MuteTo(muted))
  /\ overtaken' = (overtaken \/ calls[MuteTo(~muted)] > 0)

\* ensure_init without a handle: the first caller builds it under init_lock,
\* which destroy does not take.
BuildMpv(l) ==
  /\ mpv = None /\ builder = None
  /\ l.at = "ensure"
  /\ builder' = l.gen
  /\ UNCHANGED <<linux, ratingKey, exiting, initGen, inits, playError, isMuted,
                 muteArmed, settling, loads, mpv, calls, toggles, overtaken>>

MpvBuilt(l) ==
  /\ builder = l.gen
  /\ builder' = None
  /\ mpv' = Idle
  /\ loads' = (loads \ {l}) \cup {[l EXCEPT !.at = "built"]}
  /\ UNCHANGED <<linux, ratingKey, exiting, initGen, inits, playError, isMuted,
                 muteArmed, settling, calls, toggles, overtaken>>

\* The init that waits for load l gets an error.
Refused(l) == {IF n.gen = l.gen THEN [n EXCEPT !.at = "refused"] ELSE n : n \in inits}

BuildFails(l) ==
  /\ builder = l.gen
  /\ builder' = None
  /\ loads' = loads \ {l}
  /\ inits' = Refused(l)
  /\ UNCHANGED <<linux, ratingKey, exiting, initGen, playError, isMuted,
                 muteArmed, settling, mpv, calls, toggles, overtaken>>

\* The warm-up has built the handle that waits for the first load, or failed.
WarmedUp(ok) ==
  /\ builder = WarmUp
  /\ builder' = None
  /\ mpv' = IF ok THEN Idle ELSE mpv
  /\ UNCHANGED <<linux, ratingKey, exiting, initGen, inits, playError, isMuted,
                 muteArmed, settling, loads, calls, toggles, overtaken>>

\* The rest of player_load_url: mute (Linux), loadfile.
LoadFile(l) ==
  /\ mpv # None
  /\ loads' = loads \ {l}
  /\ mpv' = [file |-> l.item, muted |-> linux \/ mpv.muted]
  /\ inits' = {IF n.gen = l.gen THEN [n EXCEPT !.at = "loaded"] ELSE n : n \in inits}
  /\ UNCHANGED <<linux, ratingKey, exiting, initGen, playError, isMuted,
                 muteArmed, settling, builder, calls, toggles, overtaken>>

\* The handle has gone since ensure_init, or mpv refuses the headers or the
\* mute, the file after it, or the last property with the file loaded.
LoadFails(l) ==
  /\ mpv # None \/ l.at = "built"
  /\ loads' = loads \ {l}
  /\ IF mpv = None THEN UNCHANGED mpv
     ELSE \E played \in {mpv.file, l.item}, muted \in {mpv.muted, linux \/ mpv.muted} :
            mpv' = [file |-> played, muted |-> muted]
  /\ inits' = Refused(l)
  /\ UNCHANGED <<linux, ratingKey, exiting, initGen, playError, isMuted,
                 muteArmed, settling, builder, calls, toggles, overtaken>>

-----------------------------------------------------------------------------
(* initPlayback                                                              *)

\* The start of initPlayback, up to the await of prepareSource.
Begin(gen, key) ==
  /\ gen <= MaxInits
  /\ initGen' = gen
  /\ inits' = inits \cup {[gen |-> gen, item |-> key, at |-> "source"]}
  /\ playError' = FALSE

Goes(n, at) == inits' = (inits \ {n}) \cup {[n EXCEPT !.at = at]}
Ends(n) == inits' = inits \ {n}
Superseded(n) == n.gen # initGen

CallLoad(n) ==
  /\ loads' = loads \cup {[gen |-> n.gen, item |-> n.item, at |-> "ensure"]}
  /\ Goes(n, "load")

\* A load is sent before another has reached mpv, or before the stop or the
\* unload of the last playback has run.
LoadCrosses == loads # {} \/ Stopping

\* Mutant: no checkpoint.
StopsHereMutant(n) == FALSE

\* The checkpoint after an await: a superseded init ends there.
StopsHere(n) == Superseded(n)

\* prepareSource answers.  Off Linux the load follows at once; on Linux the
\* reveal mute is armed and its listener registered first.
SourceReady(n) ==
  /\ n.at = "source"
  /\ UNCHANGED <<linux, ratingKey, exiting, initGen, playError, isMuted,
                 builder, mpv, toggles>>
  /\ IF StopsHere(n)
       THEN Ends(n) /\ UNCHANGED <<muteArmed, settling, loads, calls, overtaken>>
       ELSE /\ muteArmed' = linux
            /\ settling' = IF linux THEN n.gen ELSE None
            /\ IF linux
                 THEN /\ Invokes("mute")
                      /\ Goes(n, "listen")
                      /\ UNCHANGED <<loads, overtaken>>
                 ELSE /\ CallLoad(n)
                      /\ overtaken' = (overtaken \/ LoadCrosses)
                      /\ UNCHANGED calls

SourceFails(n) ==
  /\ n.at = "source"
  /\ Ends(n)
  /\ playError' = (playError \/ ~Superseded(n))
  /\ UNCHANGED <<linux, ratingKey, exiting, initGen, isMuted, muteArmed,
                 settling, loads, builder, mpv, calls, toggles, overtaken>>

\* listen has returned: player_load_url follows without a checkpoint.
Listening(n) ==
  /\ n.at = "listen"
  /\ CallLoad(n)
  /\ overtaken' = (overtaken \/ LoadCrosses \/ Superseded(n))
  /\ UNCHANGED <<linux, ratingKey, exiting, initGen, playError, isMuted,
                 muteArmed, settling, builder, mpv, calls, toggles>>

\* player_load_url has returned; the volume is set next.
Loaded(n) ==
  /\ n.at = "loaded"
  /\ IF Superseded(n) THEN Ends(n) ELSE Goes(n, "volume")
  /\ UNCHANGED <<linux, ratingKey, exiting, initGen, playError, isMuted,
                 muteArmed, settling, loads, builder, mpv, calls, toggles, overtaken>>

LoadRefused(n) ==
  /\ n.at = "refused"
  /\ Ends(n)
  /\ playError' = (playError \/ ~Superseded(n))
  /\ UNCHANGED <<linux, ratingKey, exiting, initGen, isMuted, muteArmed,
                 settling, loads, builder, mpv, calls, toggles, overtaken>>

\* applyMuted: deferred while the reveal mute is armed.
ApplyMuted(muted) ==
  IF muteArmed THEN UNCHANGED <<calls, overtaken>> ELSE Mutes(muted)

\* The volume is set; without a handle the command fails and so does the init.
VolumeSet(n) ==
  /\ n.at = "volume"
  /\ Ends(n)
  /\ IF Superseded(n)
       THEN UNCHANGED <<playError, calls, overtaken>>
       ELSE /\ playError' = (mpv = None)
            /\ IF mpv = None THEN UNCHANGED <<calls, overtaken>>
               ELSE ApplyMuted(isMuted)
  /\ UNCHANGED <<linux, ratingKey, exiting, initGen, isMuted, muteArmed,
                 settling, loads, builder, mpv, toggles>>

-----------------------------------------------------------------------------
(* The session                                                               *)

\* The cleanup of the effect on initPlayback, reveal mute included.
CleanUp == muteArmed' = FALSE /\ settling' = None

\* play on a closed player: it mounts.
Mount(key) ==
  /\ ratingKey = None
  /\ ratingKey' = key
  /\ Begin(initGen + 1, key)
  /\ UNCHANGED <<linux, exiting, isMuted, muteArmed, settling, loads, builder,
                 mpv, calls, toggles, overtaken>>

\* play, replaceRatingKey: the player stays mounted, the old effect cleans up
\* and the new one starts.
Handoff(key) ==
  /\ ratingKey \notin {None, key}
  /\ ratingKey' = key
  /\ CleanUp
  /\ Invokes("stop")
  /\ Begin(initGen + 2, key)
  /\ UNCHANGED <<linux, exiting, isMuted, loads, builder, mpv, toggles,
                 overtaken>>

Retry ==
  /\ playError
  /\ ratingKey # None
  /\ Begin(initGen + 1, ratingKey)
  /\ UNCHANGED <<linux, ratingKey, exiting, isMuted, muteArmed, settling,
                 loads, builder, mpv, calls, toggles, overtaken>>

\* lifecycle.exit: the unload is awaited, then the session is closed.
Exit ==
  /\ ratingKey # None
  /\ ~exiting
  /\ exiting' = TRUE
  /\ Invokes("unload")
  /\ Overtakes
  /\ UNCHANGED <<linux, ratingKey, initGen, inits, playError, isMuted,
                 muteArmed, settling, loads, builder, mpv, toggles>>

\* session.stop: the player unmounts, cleans up, stops and unloads again; what
\* it held in state is gone, the mute included.
Unmount ==
  /\ exiting /\ calls["unload"] = 0
  /\ exiting' = FALSE
  /\ ratingKey' = None
  /\ CleanUp
  /\ initGen < MaxInits
  /\ initGen' = initGen + 1
  /\ calls["stop"] < MaxCalls
  /\ calls' = [calls EXCEPT !["stop"] = @ + 1, !["unload"] = @ + 1]
  /\ Overtakes
  /\ isMuted' = FALSE /\ playError' = FALSE
  /\ UNCHANGED <<linux, inits, loads, builder, mpv, toggles>>

ToggleMute ==
  /\ ratingKey # None
  /\ toggles < MaxToggles
  /\ toggles' = toggles + 1
  /\ isMuted' = ~isMuted
  /\ ApplyMuted(~isMuted)
  /\ UNCHANGED <<linux, ratingKey, exiting, initGen, inits, playError,
                 muteArmed, settling, loads, builder, mpv>>

\* host-window-ready, of whatever load or mode change, or the fallback timer:
\* the user's mute is restored, unless a retry has begun.
Settle ==
  /\ settling # None
  /\ settling' = None
  /\ IF settling = initGen
       THEN muteArmed' = FALSE /\ Mutes(isMuted)
       ELSE UNCHANGED <<muteArmed, calls, overtaken>>
  /\ UNCHANGED <<linux, ratingKey, exiting, initGen, inits, playError, isMuted,
                 loads, builder, mpv, toggles>>

-----------------------------------------------------------------------------

PlayerNext ==
  \/ \E key \in Items : Mount(key) \/ Handoff(key)
  \/ Retry \/ Exit \/ Unmount \/ ToggleMute \/ Settle
  \/ \E n \in inits : \/ SourceReady(n) \/ SourceFails(n) \/ Listening(n)
                      \/ Loaded(n) \/ LoadRefused(n) \/ VolumeSet(n)
  \/ \E l \in loads : BuildMpv(l) \/ MpvBuilt(l) \/ BuildFails(l)
                       \/ LoadFile(l) \/ LoadFails(l)
  \/ \E ok \in BOOLEAN : WarmedUp(ok)
  \/ \E c \in Commands : Runs(c)

PlayerSpec == PlayerInit /\ [][PlayerNext]_playerVars

-----------------------------------------------------------------------------

PlayerAtRest ==
  /\ inits = {} /\ loads = {} /\ ~exiting /\ settling = None
  /\ \A c \in Commands : calls[c] = 0

(* When the player has come to rest, mpv plays the item that is open, muted  *)
(* as the user wants, and it plays nothing when the player is closed,        *)
(* whatever switches, exits, failures and clicks on mute crossed the awaits  *)
(* of initPlayback; the exceptions are a load overtaken inside Rust, or sent *)
(* by an init superseded while it registered its listener or before the stop *)
(* of the last playback has run, and two opposite mutes sent at once.        *)
PlaysWhatIsOpen ==
  PlayerAtRest /\ ~overtaken =>
    /\ ratingKey = None => mpv = None \/ mpv.file = None
    /\ ratingKey # None /\ ~playError
         => mpv = [file |-> ratingKey, muted |-> isMuted]
=============================================================================
