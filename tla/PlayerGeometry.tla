---------------------------- MODULE PlayerGeometry -----------------------------
(* The rectangle of the video in the window (Windows): the window events of  *)
(* events.rs, the throttle and the dedup cache of geometry.rs, the task that *)
(* flushes what was throttled, and the commands that change size or inset.   *)
(*                                                                           *)
(* A rectangle is the window's size and whether the mini player's inset is   *)
(* applied to it.  Left out: position and scale, a window minimized by the   *)
(* system, the latch of the focus events, and the swapchain, which follows   *)
(* at the video thread's leisure.                                            *)
EXTENDS Webview, Integers, Sequences

CONSTANTS Sizes,      \* sizes of the window
          MaxResizes  \* bound: resizes, toggles, loads and unloads

VARIABLES winSize,    \* the window's size
          mode,       \* normal, maximized or fullscreen
          wasMode,    \* was_maximized, was_fullscreen: at the last Resized
          normalSize, \* last_normal_rect
          moved,      \* a Moved event is to be handled
          resized,    \* a Resized event is to be handled
          dropped,    \* history: the guard on reapplying_rect has dropped one,
                      \* and none was handled since
          inMini,     \* geom.minimize is set
          inFull,     \* fullscreen_transition
          settlings,  \* calls of player_set_fullscreen that sleep
          lastRect,   \* geom.last_geometry
          pending,    \* geom.pending_geometry
          shut,       \* less than the interval has passed since geom.last_sync
          scheduled,  \* trailing_scheduled
          notified,   \* the permit of flusher_notify
          flusher,    \* the flusher task: "outlasted" by the throttle if
                      \* last_sync is later than the beginning of its sleep
          mainTasks,  \* closures handed to the main thread
          render,     \* the video thread: none, started, or known to `inner`
          video,      \* the rectangle of the video, None: as installed
          astray,     \* history: a sync was lost, see Loses
          resizes     \* acts so far

windowVars == <<winSize, mode, wasMode, normalSize, moved, resized, dropped>>
geomVars == <<lastRect, pending, shut>>
flusherVars == <<scheduled, notified, flusher>>
actVars == <<inMini, inFull, settlings, resizes>>
geometryVars == <<windowVars, geomVars, flusherVars, actVars, mainTasks,
                  render, video, astray>>

Rects == [size : Sizes, mini : BOOLEAN]
Modes == {"normal", "maximized", "fullscreen"}

ASSUME GeometryAssumption == None \notin Sizes \cup Rects
ASSUME ResizesAssumption == MaxResizes \in Nat

GeometryTypeOK ==
  /\ winSize \in Sizes /\ {mode, wasMode} \subseteq Modes
  /\ {pending, normalSize} \subseteq Sizes \cup {None}
  /\ {moved, resized, dropped, inMini, inFull, shut, scheduled, notified, astray}
       \subseteq BOOLEAN
  /\ settlings \in 0..MaxResizes
  /\ {lastRect, video} \subseteq Rects \cup {None}
  /\ flusher \in {"gone", "parked", "asleep", "outlasted"}
  /\ mainTasks \in Seq([do : {"initial", "flush", "early"}] \cup
                       [do : {"fullscreen", "resync"}, size : Sizes])
  /\ render \in {"none", "started", "on"}

\* attach_window_handlers has started the flusher.
GeometryInit ==
  /\ winSize \in Sizes /\ mode = "normal" /\ wasMode = "normal"
  /\ normalSize = None
  /\ moved = FALSE /\ resized = FALSE /\ dropped = FALSE
  /\ inMini = FALSE /\ inFull = FALSE /\ settlings = 0
  /\ lastRect = None /\ pending = None /\ shut = FALSE
  /\ scheduled = FALSE /\ notified = FALSE /\ flusher = "parked"
  /\ mainTasks = <<>> /\ render = "none" /\ video = None
  /\ astray = FALSE /\ resizes = 0

-----------------------------------------------------------------------------
(* The syncs, on the main thread.  `held`: a command holds `inner`, so that  *)
(* try_lock fails.                                                           *)

Inset(size) == [size |-> size, mini |-> inMini]

\* A sync that the video needed is lost, and nothing in the code knows.
Loses(reason) ==
  astray' = IF video' = Inset(winSize) /\ lastRect' = video'
            THEN astray /\ pending' # None
            ELSE astray \/ reason

\* last_geometry is set whether or not the video thread gets the rectangle.
Applies(rect, held) ==
  /\ lastRect' = rect
  /\ video' = IF render = "on" /\ ~held THEN rect ELSE video

\* plan_sync past the throttle, and plan_sync_immediate.
PassesThrottle(size, held, left) ==
  /\ pending' = left
  /\ shut' = TRUE
  /\ flusher' = IF flusher = "asleep" THEN "outlasted" ELSE flusher
  /\ IF lastRect = Inset(size) THEN UNCHANGED <<lastRect, video>>
     ELSE Applies(Inset(size), held)
  /\ Loses(lastRect # Inset(size) /\ (held \/ render = "started"))

NotApplied == UNCHANGED <<shut, flusher, lastRect, video>>

\* sync_geometry; `again`: the flush's, which has taken what was pending, and
\* after which the flusher parks.
sync_geometry(size, held, again) ==
  \/ /\ inFull
     /\ pending' = (IF again THEN None ELSE pending)
     /\ NotApplied /\ Loses(TRUE)
  \/ /\ ~inFull /\ shut
     /\ pending' = size /\ NotApplied
     /\ Loses(again \/ flusher = "gone")
  \/ ~inFull /\ ~shut /\ PassesThrottle(size, held, None)

\* sync_geometry_now, and the sync_geometry that follows it in handle_resized:
\* by then the throttle is shut and the rectangle pending.
SyncedTwice(size, held) ==
  \/ inFull /\ UNCHANGED pending /\ NotApplied /\ Loses(TRUE)
  \/ ~inFull /\ PassesThrottle(size, held, size)

\* apply_host_geometry: no throttle, no dedup, and it waits for `inner`.
apply_host_geometry(size) ==
  /\ UNCHANGED <<shut, flusher, pending>>
  /\ Applies(Inset(size), FALSE)
  /\ Loses(size # winSize \/ render = "started")

-----------------------------------------------------------------------------
(* Window events                                                             *)

\* The window gets a size, and Resized comes, mostly with Moved.
Becomes(size, now) ==
  /\ winSize' = size /\ mode' = now
  /\ resized' = TRUE /\ moved' \in {moved, TRUE}

Another == resizes < MaxResizes /\ resizes' = resizes + 1

\* A drag, a snap, maximize or restore; in fullscreen there is no frame.
Resize(size, now) ==
  /\ Another
  /\ mode # "fullscreen" /\ now # "fullscreen"
  /\ size # winSize
  /\ Becomes(size, now)
  /\ UNCHANGED <<wasMode, normalSize, dropped, inMini, inFull, settlings,
                 geomVars, flusherVars, mainTasks, render, video, astray>>

\* plan_move finds another size than the last: inset ones have one size.
SizeChanged ==
  /\ lastRect # None
  /\ lastRect # Inset(winSize)
  /\ ~(inMini /\ lastRect.mini)

\* Moved: sync_geometry_move.
Moved(held) ==
  /\ moved
  /\ moved' = FALSE
  /\ IF SizeChanged /\ ~inFull
     THEN sync_geometry(winSize, held, FALSE)
     ELSE UNCHANGED <<geomVars, flusher, video, astray>>
  /\ UNCHANGED <<winSize, mode, wasMode, normalSize, resized, dropped, actVars,
                 scheduled, notified, mainTasks, render>>

\* claim_trailing_schedule and wake_flusher, once in a burst.
ClaimsFlush == scheduled' = TRUE /\ notified' = (notified \/ ~scheduled)

\* Resized: handle_resized.  Restored from maximized, the window gets its last
\* normal size back; this event syncs the size it read before.  That change is
\* another event, which comes after this one or, if the platform delivers it
\* within, is dropped.
Resized(held) ==
  /\ resized
  /\ wasMode' = mode
  /\ IF wasMode = "maximized" /\ mode = "normal"
     THEN /\ winSize' = IF normalSize = None THEN winSize ELSE normalSize
          /\ UNCHANGED normalSize
     ELSE /\ normalSize' = IF mode = "normal" THEN winSize ELSE normalSize
          /\ UNCHANGED winSize
  /\ \E within \in BOOLEAN : /\ resized' = (winSize' # winSize /\ ~within)
                             /\ dropped' = (winSize' # winSize /\ within)
  /\ moved' \in {moved, moved \/ winSize' # winSize}
  /\ IF mode # wasMode THEN SyncedTwice(winSize, held)
     ELSE sync_geometry(winSize, held, FALSE)
  /\ ClaimsFlush
  /\ UNCHANGED <<mode, actVars, mainTasks, render>>

\* Focused(true) after a loss: reassert_host_on_focus.
Refocused ==
  /\ render = "on"
  /\ apply_host_geometry(winSize)
  /\ UNCHANGED <<windowVars, actVars, scheduled, notified, mainTasks, render>>

-----------------------------------------------------------------------------
(* The flusher and the clock                                                 *)

FlusherWakes ==
  /\ flusher = "parked" /\ notified
  /\ flusher' = "asleep" /\ notified' = FALSE
  /\ UNCHANGED <<windowVars, geomVars, actVars, scheduled, mainTasks, render,
                 video, astray>>

\* An interval has passed since its sleep began, and since any earlier sync.
SleepEnds ==
  /\ flusher \in {"asleep", "outlasted"}
  /\ shut' = (shut /\ flusher = "outlasted")
  /\ flusher' = "parked"
  /\ mainTasks' = Append(mainTasks, [do |-> "flush"])
  /\ UNCHANGED <<windowVars, actVars, lastRect, pending, scheduled, notified,
                 render, video, astray>>

IntervalPasses ==
  /\ shut /\ flusher # "outlasted"
  /\ shut' = FALSE
  /\ UNCHANGED <<windowVars, actVars, lastRect, pending, flusherVars,
                 mainTasks, render, video, astray>>

NextTask(do) ==
  /\ mainTasks # <<>> /\ Head(mainTasks).do = do
  /\ mainTasks' = Tail(mainTasks)

\* flush_pending_geometry; throttled, it puts back what it took.
FlushPending(held) ==
  /\ NextTask("flush")
  /\ scheduled' = FALSE
  /\ IF pending = None THEN UNCHANGED <<geomVars, flusher, video, astray>>
     ELSE sync_geometry(pending, held, TRUE)
  /\ UNCHANGED <<windowVars, actVars, notified, render>>

-----------------------------------------------------------------------------
(* ensure_init and destroy                                                   *)

\* A fresh video thread, at the size of its installation.
\* Mutant: the dedup cache of the last playback stays.
ForgetsRectMutant == lastRect' = lastRect
ForgetsRect == lastRect' = None

VideoStarts ==
  /\ Another
  /\ render = "none"
  /\ render' = "started" /\ video' = None
  /\ ForgetsRect
  /\ UNCHANGED <<windowVars, inMini, inFull, settlings, pending, shut,
                 flusherVars, mainTasks, astray>>

PlayerReady ==
  /\ render = "started"
  /\ render' = "on"
  /\ mainTasks' = Append(mainTasks, [do |-> "initial"])
  /\ UNCHANGED <<windowVars, actVars, geomVars, flusherVars, video, astray>>

\* The sync that ensure_init schedules: sync_geometry_now.
InitialSync(held) ==
  /\ NextTask("initial")
  /\ \/ inFull /\ UNCHANGED pending /\ NotApplied /\ Loses(TRUE)
     \/ ~inFull /\ PassesThrottle(winSize, held, None)
  /\ UNCHANGED <<windowVars, actVars, scheduled, notified, render>>

\* player_unload: destroy ends the flusher, which is started once.
Destroy ==
  /\ Another
  /\ inMini' = FALSE
  /\ flusher' = "gone"
  /\ IF render = "on" THEN render' = "none" /\ video' = None
     ELSE UNCHANGED <<render, video>>
  /\ astray' = (astray \/ pending # None)
  /\ UNCHANGED <<windowVars, inFull, settlings, geomVars, scheduled, notified,
                 mainTasks>>

-----------------------------------------------------------------------------
(* Commands                                                                  *)

\* player_enter_minimize, _update_mini_geometry, _exit_minimize; resync_host
\* reads the size here and applies it on the main thread.
SetMinimize(mini) ==
  /\ Another
  /\ inMini' = mini
  /\ mainTasks' = Append(mainTasks, [do |-> "resync", size |-> winSize])
  /\ UNCHANGED <<windowVars, inFull, settlings, geomVars, flusherVars, render,
                 video, astray>>

\* player_enter_popout and _exit_popout: another size, without inset.
Popout(size) ==
  /\ Another
  /\ mode # "fullscreen"
  /\ inMini' = FALSE
  /\ Becomes(size, "normal")
  /\ mainTasks' = Append(mainTasks, [do |-> "resync", size |-> size])
  /\ UNCHANGED <<wasMode, normalSize, dropped, inFull, settlings, geomVars,
                 flusherVars, render, video, astray>>

Resync ==
  /\ NextTask("resync")
  /\ apply_host_geometry(Head(mainTasks).size)
  /\ UNCHANGED <<windowVars, actVars, scheduled, notified, render>>

\* player_set_fullscreen.  Without a player only the window changes.
SetFullscreen(size) ==
  /\ Another
  /\ LET toggle == [do |-> "fullscreen", size |-> size] IN
     IF render = "on"
     THEN /\ inFull' = TRUE /\ settlings' = settlings + 1
          /\ mainTasks' = mainTasks \o <<toggle, [do |-> "early"]>>
     ELSE /\ UNCHANGED <<inFull, settlings>>
          /\ mainTasks' = Append(mainTasks, toggle)
  /\ UNCHANGED <<windowVars, inMini, geomVars, flusherVars, render, video,
                 astray>>

Toggled ==
  /\ NextTask("fullscreen")
  /\ Becomes(Head(mainTasks).size,
             IF mode = "fullscreen" THEN "normal" ELSE "fullscreen")
  /\ UNCHANGED <<wasMode, normalSize, dropped, actVars, geomVars, flusherVars,
                 render, video, astray>>

EarlySync ==
  /\ NextTask("early")
  /\ apply_host_geometry(winSize)
  /\ UNCHANGED <<windowVars, actVars, scheduled, notified, render>>

\* 350 ms later, whatever other toggle is under way.  A rectangle pending from
\* before it is there only if the main thread has not run for so long.
Settled ==
  /\ settlings > 0
  /\ settlings' = settlings - 1
  /\ inFull' = FALSE
  /\ astray' = (astray \/ pending \notin {None, winSize})
  /\ UNCHANGED <<windowVars, inMini, resizes, geomVars, flusherVars, mainTasks,
                 render, video>>

-----------------------------------------------------------------------------

GeometryNext ==
  \/ \E size \in Sizes :
       \/ \E now \in Modes : Resize(size, now)
       \/ Popout(size) \/ SetFullscreen(size)
  \/ \E held \in BOOLEAN :
       \/ Moved(held) \/ Resized(held)
       \/ FlushPending(held) \/ InitialSync(held)
  \/ Refocused \/ FlusherWakes \/ SleepEnds \/ IntervalPasses
  \/ VideoStarts \/ PlayerReady \/ Destroy
  \/ \E mini \in BOOLEAN : SetMinimize(mini)
  \/ Resync \/ Toggled \/ EarlySync \/ Settled

GeometrySpec == GeometryInit /\ [][GeometryNext]_geometryVars

\* Nothing is to be handled any more, whatever time passes.
AtRest ==
  /\ ~moved /\ ~resized /\ mainTasks = <<>>
  /\ flusher = "gone" \/ (flusher = "parked" /\ ~notified)

\* plan_sync keeps what it throttles "so the trailing edge is never lost": when
\* the window has come to rest, the video has its rectangle, inset or not,
\* except after one of the losses that Loses names, and after a restore whose
\* own Resized was dropped.
FollowsWindow ==
  AtRest /\ render = "on" /\ ~astray /\ ~dropped
    => video = [size |-> winSize, mini |-> inMini]
=============================================================================
