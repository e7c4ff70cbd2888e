# Prexu: a verification project

TLA+ models of Prexu, checked with TLC and proved with TLAPS.  Prexu is a
desktop client for Plex (React in a Tauri webview, Rust behind it) with a
relay server (`relay-server/`, Rust) that lets several users watch together.
Paths below are relative to the repository.

1. [The system](#1-the-system)
2. [The modules](#2-the-modules)
3. [The relay's sessions](#3-the-relays-sessions)
4. [Invitations](#4-invitations)
5. [Downloads](#5-downloads)
6. [The webview](#6-the-webview)
7. [Runs](#7-runs)
8. [Disagreements between the code and what is said of it](#8-disagreements-between-the-code-and-what-is-said-of-it)
9. [Proofs](#9-proofs)
10. [What is not modelled, and the plan](#10-what-is-not-modelled-and-the-plan)

## 1. The system

| Part | State it keeps | Operations | Modelled by |
|---|---|---|---|
| Relay: connections and sessions (`relay-server/src/connection.rs`, `session.rs`, `state.rs`) | `connections`: user → session, channel; `sessions`: id → host, media, participants with their channels | register / take over a connection, create, join, leave, new media, clean up | `RelaySessions`, `RelayMembership`, `RelayRefinement`; the locks of all handlers: `RelayLocks` |
| Relay: invitations (`pending_invites.rs`, `session.rs`) | pending invites per target, under one mutex | invite, take on connect, expire every minute | `PendingInvites`, `RelayInvites` |
| Relay: playback and rosters (`session.rs`) | each participant's playback state | play, pause, seek, buffering, ready; SessionJoined, ParticipantJoined, ParticipantLeft | `WatchPlayback`, `Rosters` |
| Relay: rate limiters (`connection.rs`, `state.rs`) | queues of recent timestamps | admit or refuse | no |
| Relay: HTTP (`tmdb_proxy.rs`, `plex_auth.rs`, `server.rs`) | none of its own | TMDb proxy, token validation, health | no |
| Watch Together client (`src/services/watch-sync.ts`, `src/hooks/useInvites.ts`, `src/hooks/watch-together/`) | socket, reconnect timer and delay, `shouldReconnect`; the echo guard; participants | connect, disconnect, reconnect, join, leave, remote and local playback | `RelaySocket`, `WatchPlayback`, `Rosters` |
| Downloads (`src-tauri/src/downloads.rs`, `src/hooks/useDownloads.ts`) | webview: items and statuses, `processingRef`, retry counts, timers; Rust: active transfers, files | queue, start, progress, cancel, delete, retry, restart | `DownloadTransfers`, `Downloads` |
| Library view and detail page (`src/hooks/usePaginatedLibrary.ts`, `library-range.ts`, `useItemDetailData.ts`) | a sparse list with its generation, requests in flight, the fill; the item, its shelves and collection | select, scroll, retry, answers in any order; navigate, revalidate, refresh, warm | `LibraryPages`, `DetailPage` |
| Caches (`src/services/api-cache.ts`, `cache-invalidators.ts`) | entries with a time to live, offset floors | get, set, patch, invalidate | `ResumeOffsets`, `LibraryPages`, `DetailPage` |
| Playback queue (`src/contexts/QueueContext.tsx`, `src/hooks/player/useQueueAutoPopulate.ts`, `usePostPlay.ts`) | items, index, source; neighbours; the overlay and its latch | build, populate, play next, jump, remove, reorder, end of file | `PlaybackQueue` |
| Native player core (`src-tauri/src/player/`) | the mpv handle, `init_lock`, geometry throttle, flusher | initialise, load, stop, unload, destroy, sync geometry | `NativePlayer`, `PlayerGeometry` |
| Player in the webview (`src/contexts/PlayerContext.tsx`, `src/hooks/player/`) | the session, `initGenRef`, the reveal mute; what plays | open, switch, exit, retry, mute, report the timeline | `NativePlayer`, `ResumeOffsets`, `PlaybackQueue` |
| Pop-out and mini player (`src-tauri/src/player/commands/popout.rs`, `minimize.rs`, `src/hooks/player/usePopOutPlayer.ts`, `src/pages/Player.tsx`) | the geometry and the maximized flag before the pop-out, the margin, the saved size; `isPopOut`, `isMinimized` | enter and exit, with their retry loops; minimise, restore; the player's exit | `LinuxPopout` (Linux), `PlayerGeometry` (Windows) |
| Offline watch state (`src/hooks/useWatchSync.ts`, `src/services/storage/watch-sync.ts`) | pending list in localStorage | add, upload, remove | `OfflineWatch` |

How the parts interact.  The webview calls commands of the Tauri shell
(`invoke`, a promise) and hears its events (`download-progress`,
`player-*`); commands run as tasks on a thread pool, so they interleave.  The
Watch Together client talks to the relay over one WebSocket per application,
in JSON messages; several installations of one user compete for that user's
place at the relay.  Parts of the webview share nothing but React state,
`useRef` cells and `localStorage`.

What makes each part hard, and what would make it correct:

* **Relay sessions.**  Handlers of different sockets run on several threads
  and touch three kinds of concurrent maps in several accesses each.
  Connections, sessions and participants must agree afterwards, a user who
  reconnects must neither be thrown out of a session nor leave a ghost in it,
  and no guard may be waited for in a circle.
* **Invitations.**  A bounded store over a wall clock, and a race between an
  invitation and its target's connection.  None is lost, repeated or stranded,
  and no limit is exceeded or left full for ever.
* **Downloads.**  Commands, events, results, timers and the user, in any
  order; a failure at any await; a restart at any moment.  One transfer per
  item and one at a time, nothing left behind on the disk, nothing stuck in the
  list, and one honest notice to the user.
* **Watch Together client.**  A reconnect timer, a socket that closes late,
  two users of one connection, and `disconnect`, in any order; and two players
  that answer each other's play and pause.  The service is never wedged or left
  running, a user is in a session only while its page is open or could not be left, and the
  exchange of two players dies out.
* **Library view and detail page.**  Answers of ranges, batches, shelves and
  cached frames arrive in any order, while the user selects, scrolls and
  navigates.  No list spliced from two selections, no page of two items, and
  nothing that waits for ever.
* **Caches.**  The server acknowledges a write before its answers show it.  An
  answer that raced a report must not undo what the player reported.
* **Native player.**  Initialisers that await, an exit, a retry and a mute that
  cross them, a warm-up thread, and a lock the teardown does not take.  What
  plays in the end is what is open, as loud as the user wants.  The rectangle of
  the video passes a throttle, a cache and a task that flushes, between window
  events and commands; the last size of a drag must arrive.
* **Playback queue.**  The session's item and the queue's index are two states,
  and three sources fill the queue.  The queue stays at the item that plays, and
  an item never ends in a black frame.
* **Pop-out on Linux.**  Two commands, their retry loops and the mini player's
  commands change one window and one margin side by side, and the compositor answers
  late or not at all.  When all is over the button, the window and the margin agree, and the
  window comes back as it was.
* **Rosters.**  Broadcasts are dropped when a client's channel is full; rosters
  and notices of joins travel separately.  A page that missed nothing lists
  everybody once.
* **Offline watch state.**  A list that is uploaded from a copy while it grows and
  syncs end in the middle.  Nothing leaves it before a server has been told.

`PROJECT.json` lists each hazard at its line, with the properties that cover it
or the reason why none does yet.

## 2. The modules

```
RelayMembership  <--refines--  RelayRefinement --extends--> RelaySessions
PendingInvites   <--extends--- RelayInvites
DownloadTransfers <-instance-- Downloads
RelayLocks
Webview <--extends-- DetailPage, ResumeOffsets, NativePlayer, PlaybackQueue,
                     PlayerGeometry, Rosters             <--extends-- MCWebview
Webview <--extends-- LibraryPages, RelaySocket, WatchPlayback, OfflineWatch,
                     LinuxPopout                         <--extends-- MCSettles
```

`<Module>Proofs` holds the theorems about `<Module>`; there are eight such modules.
`RelayInvitesProofs` has those about `PendingInvites` too, `RelaySessionsProofs` those about `RelayLocks`, `WebviewProofs` those about
`MCWebview` and the parts it runs, and `SettlesProofs` those about `MCSettles` and its parts.

`MCWebview` and `MCSettles` put eleven parts around the webview side by side: `part`
names the one that moves, and the constant `Parts` those that may.  They share no
state, so what a property of one of them says holds of all of them running together.
`MCSettles` has the parts that must settle, each with the fairness of its own
specification, `OfflineWatch` and `LinuxPopout`.  `MCRelaySessions` runs `RelaySessions`
and `RelayLocks` in the same way: the same handlers, once with their data and once with
all of their locks (`view`).  Every other `MC*` module only declares model values and
their symmetry for TLC, and the `.cfg` files instantiate the constants.  Definitions named `...Forgetful`,
`...Unchecked` and the like, each marked "Mutant" in its comment, are wrong
variants of the definition after them: no specification uses them; putting one
in the place of its definition must break a named property (`PROJECT.json`,
"mutants"), which shows that the property depends on the code.

## 3. The relay's sessions

**`RelaySessions`** has one process per WebSocket.  `conns` is
`AppState.connections`, `sessions` is `AppState.sessions`, `task[k]` is what the
task of socket `k` is doing, with its locals, `told` the last thing each channel
has been told of membership.

No handler contains an await, so a handler holds its worker thread from its
first statement to its last, and with one thread handlers are atomic.  With
more, they interleave wherever they touch a `DashMap`.  Hence one action is one
access to shared state (`CreateCheck`, `CreateInsert`, `CreateConn`, ...), at
most `Workers` sockets are between two of their accesses, and the number of
workers decides what can go wrong: some properties hold for one worker only, and
their runs say so.

What of the code's locking this module keeps.  `join_session` keeps a guard on
its session from the lookup to the insertion, `leave_session_inner` from the
removal of the participant to the test for emptiness; a writer of that session
(`sessions.insert`, `remove`, `get_mut`) waits for them (`Unguarded`).
`takeover` is atomic: it changes the two maps under guards of both.  That the
waiting comes to an end is the business of `RelayLocks`.

What it abstracts.  Iterating over a map is one access.  Two keys of one shard
block one another for a moment: here a delay, not a behaviour.  A message about
membership is never dropped (a channel holds 256).  Playback states,
thumbnails, titles are left out; the broadcasts of ParticipantJoined and
ParticipantLeft and the roster in SessionJoined are in `Rosters` (section 6).  Rate limiting, idle time and
a closed socket all just end the loop (`Break`), at any time.  Every message
may arrive at any time from every socket, with any session id.

**`RelayMembership`** says what the relay promises: users connect, disconnect,
create, join and leave, each in one step; a session exists exactly while its
host is in it; everybody in a session is connected.

**`RelayRefinement`** adds what one worker's handlers have last completed, and
the mapping: the session of a connection in `RelayMembership` is the one of the
last moment at which no handler was running.  `Implements` is
`RelayMembership!Spec` under it.

Properties: `NoGhosts` (at rest each participant is there by the channel of a
connection in that session, and each connection in a session has its participant), `ToldTruth` (at rest what each client was last told of
its session is so), `HostPresent` (a session without its host is being removed by
the host's handler), `GhostsReconnected` (where `NoGhosts` fails, it fails for a
user who has reconnected).

**`RelayLocks`** is about nothing but locks, of all the handlers, the minute's task and
the health check.  A handler is a path through a table (`Rows`): one row for each
access of a map, which says whether it reads or writes, what the handler keeps locked
meanwhile, and which rows may come next.  The maps are those of sessions and connections,
whose locks are those of a key's shard (`ShardOf`: two keys may share one), the participants
of each session, and the one mutex of the invitations.  Data is left open: any
row that may come next comes, about any session or user.  A thread waits for another
(`WaitsFor`) that has the lock, unless both read, and also, as a reader, for one that waits
to write, since a lock may let writers go first; and a thread that asks for
a lock it has already waits for itself.
`NoCircle`: of any threads that wait, one waits for none of the others.  Each handler asks
for its locks in the order sessions, participants, connections, store, and drops its guard of a
session before it comes back to the session map (`session.rs:176`, "Release read lock before
write operations to avoid deadlock"); the mutant is a `join_session` that keeps it while it
tells the others.

## 4. Invitations

**`PendingInvites`** is the store.  A mutex guards it, so each of `insert`,
`take`, `cleanup` is an action; `Insert` is the code's three outcomes, in the
code's order: expire, duplicate, limits, push.  The clock is the wall clock:
`Tick` advances it, `TurnBack` sets it back by any amount, and `Age` is
`saturating_sub`.  `latest` is history: an invitation is never dated later than
any time the clock has shown.  `answer` is what the last operation returned.
Refused for its size or its target, an invitation changes nothing: such calls are
left out.

**`RelayInvites`** is `handle_invite` against connections that come and go, one
action per access as in section 3, over the store, which it extends: its steps, the
clock's and the minute's task's among them, are the store's, and what is checked of the
store is checked under this traffic.  Whether the
sender is in the session is `RelaySessions`' business; here either may be the
case.  `crossed` is history (`Remember`): the invitations whose target got a new channel
between their sender's look and its queueing.

Properties: `Bounded`, `OnePerKey` (proved, in no run), `LeavesForAReason` (an invitation leaves the
store expired, or to its target), `RefusedWhenFull` (a refusal means that
unexpired invitations fill a limit: proved, in no run), `CapacityReturns` (liveness: whatever is
sent and however the clock is set, no expired invitation keeps a place for
ever), `OnlyCrossedStrand` (with any number of workers, an
invitation that waits at rest for a connected user crossed with that user's connecting; superseded
sockets, late cleanups and drains of other connections strand none), `NoneStranded`
(with one worker, none waits at all: proved, in no run).

## 5. Downloads

**`DownloadTransfers`** is the shell: each call of `download_media` is a
process, and one action is the code between two points where another task can
interfere (an await, the lock of the map, a file operation).  `active` is
`DownloadManager.active`; an entry stands for the cancel sender of the transfer
it names.  `disk[k]` is the directory of an item: whether it exists, whether the
finished file does, and who created the `.part` file.  Every fallible step
fails in one of its branches; leaving by any path passes through the drop of
`DownloadGuard`, which is two actions (`Release`, `Unlink`) because it is two
accesses.  `Cancel` and `Delete` are commands that run some time after they
were asked for.  `Restart` is the end of the process at any moment; the disk
survives.  In `Spec` the webview does anything at any time.

**`Downloads`** is the hook `useDownloadsState` over an instance of the shell.
JavaScript handlers run to their end, so each is one action.  `downloads` is
the list with all updates applied, which is what the updaters see;
`shown` is the list of the last commit, which is what the screen, the user and
the effects see; `Render` and `Effects` are React's two steps between them, and
other handlers run in between.  `processing`, `attempts`, `timers` are the
refs.  `saved` is what `localStorage` has.  `wish`, `toasts` and `undone` are
history: what the user last wanted of each item, the notices since, and what
users did to it besides queueing it.  The last lets a property say what the
code does promise where a disagreement of section 8 refutes the plain form.

What is assumed of the platform.  Tauri delivers events in the order they were
emitted, and a result not before the events its own invocation emitted.  The
listener is registered before the first download.  The load of the saved list
at the start is over before the user can act (it is a chain of microtasks).
`remove_dir_all` removes a directory or fails; `remove_file` of one's own
`.part` file succeeds (the code can only log if it does not).  A `downloading` event
behind another undelivered one of the same transfer changes nothing, so a
transfer has at most one under way.  Users press the buttons the page shows
for the status on the screen; `queueDownload` may be called for any item, as a
bulk download does.

Properties: `OneTransferPerKey` (the map and the transfers agree, on every
path), `PartsOwned` (no `.part` file without somebody who will deal with it),
`OneGetUndisturbed` (two transfers at once only if the user did more than queue
one of the two items), `ToldOnce` (one notice of the outcome of an item that
was neither retried nor deleted), `NoStall` (when nothing moves,
nothing waits), `CompleteOnDisk` (what is shown or saved as complete is there),
`QueueDrains` (liveness).  What is proved of the shell holds under this webview too
(`QueueKeepsShell`, section 9).

## 6. The webview

JavaScript handlers run to their end, so one action is one handler, or the code
between two awaits; a request is made, answered and delivered in actions of
its own, and its answer meets whatever the state has become.  Requests that the
code aborts have no effect and are dropped when they are aborted.

**`LibraryPages`** is `usePaginatedLibrary` over the helpers of `library-range.ts` and
the cache.  Its unit is a chunk, the range of one request; slot `i` of
`listing` holds what the server has there, or nothing.  `OpenLibrary`, `SelectOther`
and `RetryListing` start a generation (the effect, with its cleanup);
`EnsureRange` is `ensureRange` with the aborts of what scrolled away;
`ChunkArrives`, `ChunkFails` its answers; `FirstArrives`, `BatchArrives`,
`FillEnds` the progressive fill of `loadAll` with its workers and `tryFlush`;
`ApplyFrame` the cached list that waits for an animation frame.  `LeaveLibrary` aborts what is
under way, except that a view that began with a cached list only cancels its animation frame
(`usePaginatedLibrary.ts:383`): its ranges go on, and one of them may yet reach the cache
(`leftBehind`, `LeftBehindArrives`; of the updates to a view that is gone React
evaluates at most the first, and the merge writes the cache).  The server's listing
does not change.
`NoSplice`: no list, shown or cached, is of two selections or out of order.
`WantedAccounted`: every slot the grid last asked for is there, on its way or has
failed.  `SettlesUndisturbed` (liveness): the view settles on the selection of the
moment, or on an error.  The last two do not hold after the grid has reported a range
while the list of the last selection was still on the screen (section 8): the history
variable `strayed` says so, and nothing else excuses them.

**`DetailPage`** is `useItemDetailData`: the primary effect with its cached bundle
and its revalidation, the effects of the shelves and of the collection, `refreshItem`,
the move to the only season of a show, and `warmItemDetailCache`.  An
effect and the renderings it causes are one action, for no answer can arrive in
between.  `PageOfOneItem`: the item, its shelves, its collection and what is on its
way belong to the address.  `NothingHangs`: a page without an item loads or reports
an error, a skeleton stands for a request; the exception (`refreshed`) is a page the
user refreshed, section 8.

**`ResumeOffsets`** follows one offset of one item: the server (`written`, and
`listed`, what its answers say, which lags behind), the player's stop, the patches of the
caches, the floors of `offsetFloors`, the delayed sweep of the deck, the
deck's two copies, the deck and the page on the screen, their requests and a
prefetch.  `ShownIsReported`: no answer older than a stop, and no entry cached
before it, undoes what the player reported, anywhere.  It is claimed for stops that
are resets or ahead of every answer to come (`ahead`): for a stop after a seek
backwards the code lets the larger offset win.  Environment assumption: a
floor expires (`FloorExpires`) when the server has ingested the stop and older answers
have arrived, which is what the constants of `cache-invalidators.ts` are sized for.

**`RelaySocket`** is the service of `watch-sync.ts` with its two users: `useInvites`, which
connects to the home relay while somebody is signed in, and
`useWatchTogetherSession`, which may take the connection to the relay of an
invitation and joins over it.  `ConnectTo`, `Disconnect`, `Reconnect`,
`ScheduleReconnect` are the methods, with a constructor of the socket that may throw
(`CreateConnection`, `watch-sync.ts:222-226`); `looking`, `joining` and `stray` the hooks'
continuations that await
the user's name, with a page that may have been left meanwhile.  A socket
may fail or break at any moment, with what was sent from some message on.

What the relay knows of a client outlives its socket.  `outbox` and `inbox` are what
is under way on the present one and `heard` what the relay makes of it.  A
socket that is discarded or breaks becomes a connection left behind (`old`), if anything may
still be heard on it: the relay goes on with its messages, even with its auth
(`RelayRegistersLate`, `RelayHandlesLate`), until it notices the end and cleans up
(`RelayEnds`), at any time.  `members` says which relays have the user in the session.  It does
not change when a socket breaks: the relay hands the session of the connection it has to the
next that registers (`RelayRegisters`, `connection.rs:73-96`), and only
the end of a registered connection or a `leave_session` takes it away.
`SocketSound`: never wedged with nothing under way while it ought to reconnect, never
running after `disconnect`, pinging exactly while open, authenticated only on a socket
that the relay has registered.  `MemberHasPage`: when nothing is under way any more, a user is in a
session only with its page open, or after a `leave_session` that came to nothing
(`unheard`: it was sent while the socket was not open, was lost with the connection, or
went over another than the one that was in the session); without the exception it is
`LeftOnUnmount`, violated: section 8.  `ConnectsInTheEnd` (liveness).

**`WatchPlayback`** is a session's participants and the relay between them: `engine`
is mpv, `reports` its property events, `isPlaying` React's state, `shown` what was
rendered and `playerRef` therefore holds, `remoteAction` the echo guard.
`BroadcastEffect` is the effect of `useRemotePlayback`, `RemoteEvent` its listeners,
`Relay` is `relay_playback_event`.  `Quiets` (liveness): however what both do crosses
on the wire, the players stop answering each other.  They do not always agree when
they have (section 8), and no property says so.

**`NativePlayer`** is `initPlayback` of `useNativePlayer` with its checkpoints
(`inits`: one record for each call that awaits something), the effects that start
and clean it up, the exit of `usePlayerLifecycle`, the reveal mute of Linux, and the
Rust commands with `ensure_init`, the warm-up thread and `init_lock` (`builder`).  Commands are
asynchronous: what is invoked waits in `calls` or `loads` and runs, on the threads of the
runtime, in any order.  A load may fail at each of its calls of mpv (`LoadFails`).
`PlaysWhatIsOpen`: at rest, mpv plays the item that is open with the mute the user
chose, and nothing when none is.  The exceptions (`overtaken`) are a load that another
load or an unload overtakes, or that is sent by a superseded initialisation or before the stop
or unload of the last playback has run, and two opposite mutes sent at once (section 8).

**`PlaybackQueue`** is `QueueContext` with everything that fills it and moves in it:
Play All, `useQueueAutoPopulate`, `useEpisodeNavigation`, `usePostPlay`, the handlers of
the player page, and the queue panel.  `nowPlaying` (the session) and `queue.at` (the
index, counted from 1) are the two states that must agree; `overlay` distinguishes
a hidden overlay from one whose latch is spent.  A commit and its effects are one
action with the update.  What a load or an exit awaits is `NativePlayer`'s, and a
Watch Together session, where the host drives, is left out.
`InStep`: when an episode of the queue plays, the queue is at its entry.
`NeverBlack`: at the end of an item with an entry after it, the overlay is shown or
the next item plays, in the mini player too.  Excused by `displaced`: the current
entry was removed, a season answered late, the entry after it is the same item, or
the overlay's latch is spent with only Plex's next episode to go to (section 8).
`PlayAllGoesOn`, violated: section 8.

**`PlayerGeometry`** is the rectangle of the video on Windows: the window events of
`events.rs` (`Moved`, `Resized`, `Refocused`), `sync_geometry` and its variants with the
throttle (`shut`), what it has put off (`pending`) and the cache of the last rectangle
(`lastRect`), the task that flushes (`flusher`), what `ensure_init` and `destroy` do to
them, and the commands for fullscreen, mini player and popout.  A rectangle is a window
size, with the mini player's inset or without.  `held` says that a command holds `inner`
at the moment of a sync, so that its `try_lock` fails.  The size that the handler of a restore gives the
window comes back as another event, after the handler or within it; in the second case the
guard `reapplying_rect` drops it (`events.rs:310-313`, `dropped`).
`FollowsWindow`: when no event, task or flush is outstanding, the video has the
rectangle of the window.  The exception (`astray`) is a sync that the code is built to
lose, each a disjunct of `Loses` or of its uses: during the fullscreen transition, at a
moment when `inner` is held or not yet set, from a flush that is itself throttled, or with
the flusher gone (section 8); one that gets through afterwards ends the exception.  The other
is `dropped`: the handler whose own event was dropped has synced the size it read before.

**`LinuxPopout`** is the pop-out on Linux.  `player_enter_popout` and
`player_exit_popout` run on the runtime's threads beside the mini player's commands and
the retry loops they leave on GTK's thread, so each is cut where another can come between:
`EnterBegins`, `EnterStashes`, `EnterApplies` or `EnterFails`, `EnterSaves`; `ExitClears`,
`ExitPersists`, `ExitTakes`, `ExitRestores` or `ExitFails`; `Inset`, `Uninset`, `Unload`; `EnterTick` and `ExitTick` are
one look of a loop.  `win` is the window as the compositor has it, `asked` what it was last
asked for: `Configure` grants it some time, or never the size while the window is
maximized, and `Drops` gives it up for another layout, which is what the loops are there
for.  The loops tick at one interval on one thread (`popout.rs:1246`, `:1347`, `:1482`), so
the loop of an enter has looked once more, and ended because the stash is taken, before the
loop of the exit that took it looks first: that is the guard of `ExitTick`, and without
it an old loop would outlive the exit that is to undo what it asks for.  `stash` and `wasMaxed` are what the enter leaves for the exit, `margin` is
`linux_margin`.  The user's clicks (`TogglePopOut`, `Minimize`, `RestoreFromMinimize`,
`OpenOrClose`) invoke the commands the page does, without waiting for one before the
next.
`PopoutAgrees`: when all is over the button tells the truth, the margin is that of the mode,
and a window that was popped out and back is what it was before, maximized or not.  The
exception (`excepted`) is history, and each of its disjuncts is a place where the code
does not hold that (section 8): a click before the last one was answered or while the
window settles from an exit (`Hurries`), a command that clears the margin another command
of the same click has set (`Overtaken`), a tick of the enter that sets the strip between the
exit's clear and its taking of the stash, or over the mini player's inset (`EnterTick`), a
stash of a size that is not the one before the pop-out (`EnterStashes`), a command that fails
when the stash is taken (`NoWorkArea`, `EnterFails`) or restored (`ExitFails`).  Each ends the exploration where `Early` is FALSE; where it
is TRUE, for `popout_reentry`, the run goes on.

**`Rosters`** is one session at the relay with the handlers of joining and leaving, one
action per access as in section 3, a bounded channel for each connection, and the
list of `useWatchParticipants`.  `people` counts how often a page lists each user, since
`participant_joined` appends without looking.  A user's page may close and open again
while its messages are on their way.  `RostersAgree`: when all is delivered, the page of
a participant lists the others once each.  Two exceptions are history: `missed`, a
message dropped at a full channel or arrived while no page listened, since the last
roster; and `crossed`, a join with another handler running between the collection
of its roster and its announcement (both section 8).

**`OfflineWatch`** is the list of `storage/watch-sync.ts`, the end of a downloaded file,
which adds to it, and `useWatchSync`.  `syncs` are the loops that run, each with the rest
of the list it read; `known` says whether the mounted `syncingRef` stops another from
starting.  A request may fail, or succeed and lose its answer; the server changes,
the layout is mounted anew, and the application restarts at any moment.
`NothingUnreported`: what was watched to its end offline is in the list or has been
reported.

## 7. Runs

| Run | Question | Instance | States |
|---|---|---|---|
| `relay_one_worker` | is every handler one operation of the abstract relay, and is everything consistent at rest? | 3 users, 4 sockets (one user has two), 2 ids, 1 worker | 82 K |
| `relay_reconnect` | hosts and ghosts, when handlers interleave and users reconnect; does any handler wait for another in a circle? | 2 users, 3 sockets, 1 id, 2 workers; of the locks 3 threads, 1 session, 1 user | 905 K |
| `invites_delivery` | delivery when handlers interleave; safety and liveness of the store | 2 users, 3 sockets, 2 workers, 2 ids, limits 2/2/3, TTL 1, clock 0..1, set back once, fair | 2.7 M |
| `downloads_transfers` | safety of the shell | 1 item, 3 transfers | 751 K |
| `downloads_users` | does anything get stuck, is what is shown on the disk? | 1 item, 2 transfers, 3 operations (any) | 883 K |
| `downloads_drain` | serialisation, notices, liveness | 2 items, 2 transfers, 2 operations (any), fair | 200 K |
| `webview` | safety of the detail page, resume offsets, the native player (whatever order its commands run in), the queue, the video's geometry and the rosters | below, six parts | 2.2 M |
| `webview_settles` | safety and liveness of the library view, the socket and the exchange of players; the offline list; the pop-out on Linux | below, five parts, three of them fair | 511 K |

The other four runs, `downloads_two_gets`, `queue_edit`, `popout_reentry` and
`session_left`, are counterexamples, section 8.

**The instance of the webview.**  `LibraryPages`: a selection of two chunks and a
filtered one of four, `LOAD_ALL_CONCURRENCY` 2, so that a fill has more batches than
workers and its answers overtake one another; three generations in a visit (0 to
`MaxGen` = 2), which is one to return to a selection and its cache.  `DetailPage`: a
movie with a collection, another with shelves only, a show with one season (which
the page moves on to) and the season; one edit.  `ResumeOffsets`: offsets 0 and 1,
one sweep pending: an answer is older, newer or the same.
`RelaySocket`: two relays, two delays (0 to `MaxBackoff` = 1), two connections left behind
(`Slots`; a third is not left while both are served), two faults and three things users do: opening a page, closing it and a sign-in
or a refresh beside them, with a reconnection between.  `WatchPlayback`: two viewers, five
loads, joins and clicks: both may start in the session, their starts cross, and a
click of either crosses them.
`NativePlayer`: two items, four initialisations (a switch, a retry and another
switch), one click on mute, one command of each kind that waits (`MaxCalls`; stop,
unload and the two mutes pass one another, and loads pass them all), with and without Linux.  `PlaybackQueue`: two seasons
(two episodes and one), a movie, and two play lists, one with a movie twice; three
acts of the user, ends of files and answers beside them.  `PlayerGeometry`: two sizes,
three resizes, toggles, loads or unloads.  `Rosters`: a host and two guests, two
handlers at once, channels of two messages, and two pages opened beside the host's, which
are two guests who cross or one who returns.  `OfflineWatch`: three items, a server
that comes and goes, two restarts or changes.  `LinuxPopout`: three looks of a retry
loop, as in the code (`POPOUT_RESIZE_RETRY_MAX_ATTEMPTS`), two requests the compositor
drops, so that the last look can still settle it, and four things the user does (out,
back, and two more before, between or after), from a window that is maximized or is not.
In `popout_reentry` nothing is dropped.  With one part at a time
the states add up and are not multiplied, so each of these could be chosen by itself.

**Why the bounds are enough.**  The races of the relay are between two handlers,
and between a handler and the takeover of its own socket; three users give a
host, a guest and somebody who creates the same id, four sockets a reconnection
on top.  Two ids let one user invite another twice, which is
as many as the limits on a target and on a sender allow; a third invitation of that sender
meets a full store (that each limit holds by itself, for any limits, is proved:
`LimitsHold`); the clock
passes the TTL and can be set back across it.  Two items give the queue its order and
its slot; a transfer that is settled is used again, so two or three are as many
at a time, not in all; `MAX_AUTO_RETRIES` is 1, so both branches of the
rejection are taken.  `MaxOps`, `MaxClock`, `MaxSetBack` bound user operations
and the clock.  Larger instances, too slow to repeat at every change, gave the same
answers: `NoStall` with two items and three operations (3.9 M states) and with one
item and four operations (6.0 M), `HostPresent` and `GhostsReconnected` with three workers (5.0 M),
`NoGhosts` with two workers for three users with one socket each (356 K), `RostersAgree` with three visits (15.9 M), and
`FollowsWindow` with three sizes and four acts (1.6 M).  Where the symmetry of sockets, threads or items is used, the
properties are safety properties.

**Deadlock** is not checked where the system may really stop: every socket may
have closed for good, the users may be done.  It is checked for
`downloads_transfers`.  That the relay's handlers do not wait for one another for ever is
`NoCircle`, an invariant.

**Fairness.**  No fairness of clients: nobody has to send,
connect or close.  `invites_delivery`: time passes and the minute's task runs
(`spawn_cleanup_task`).  `webview_settles`: `LibraryProgress` (each request is
answered or fails, and animation frames come), `SocketProgress` (timers fire, the
network delivers, the relay answers, hears out what is left behind and ends it; that connections stop
breaking is the bound `MaxFaults`), and `PlaybackWorks` of each viewer (messages
arrive, mpv reports, React renders).  `downloads_drain`: React renders and runs effects, the
engine delivers events, results and timers, commands run, and a transfer goes
on: `GoesOn` leaves out the step that only reports progress, so a stream ends,
fails or is cancelled some time.  The code sets no timeout for that; a server
that keeps a stream open for ever blocks the queue, as it does in the program.
No fairness of users.

## 8. Disagreements between the code and what is said of it

Four have a run that violates one property (`PROJECT.json`, "findings"):

* `downloads_two_gets`: deleting a running download frees the slot but does not
  end the transfer, and two run at once.  `useDownloads.ts:37-39` says they are
  "Serialized on purpose".
* `queue_edit`: `types/queue.ts:16-18` says of a queue of Play All that "PostPlay
  should fire for any item type when there's another item next."  Removing or
  moving an entry (`QueueContext.tsx:128-161`) builds the queue anew without its
  `source`, and after that the player closes at the end of a movie, with
  entries left.
* `popout_reentry`: a user who pops out again while the window settles from an exit
  "simply supersedes whatever this loop's next tick would have set"
  (`popout.rs:1460-1462`).  The next tick finds the window at another size than it was
  scheduled with and asks for the old one again; the two loops take turns until one has
  used its attempts.
* `session_left`: "Leave session on unmount" (`useWatchTogetherSession.ts:100`).  A page that is
  closed while the socket is down sends `leave_session` nowhere (`watch-sync.ts:173-179`), and the relay
  hands the session to the socket that reconnects: the user stays a participant, without a page.

The others were met while modelling; the actions named show them in the model,
and no run is kept for them.

Relay and downloads:

* A reconnection inside a create or join leaves a participant that no cleanup
  removes (`connection.rs:154`, `session.rs:250`), which the changelog
  (`CHANGELOG.md:274-277`) says does not happen any more (`CreateConn`, `JoinConn`
  with two workers; `GhostsReconnected` says where it happens).
* *"A replaced socket must not mutate the live connection's session"*
  (`connection.rs:153`): the check comes before the handler, not with its writes
  to the connection (`session.rs:98`, `:180`; `CreateConn`, `JoinConn`).
* Two creations of one id both pass the check (`session.rs:61`) and the second
  replaces the first (`:95`; `CreateCheck`, `CreateInsert`).
* The host is checked on one lookup of the session (`session.rs:418`), the
  media is set on another (`:434`; `MediaCheck`, `MediaSet`), with time for
  the session to end and begin again under another host.
* A target that connects between the look at `connections` and the queueing
  (`session.rs:350`) has taken its pending invitations already, and gets this one
  at its next connection only; one that leaves there loses it, though the log
  says "delivered" (`Route`, `Queue`, `Send`; `crossed`).
* The guard frees the key (`downloads.rs:155`) before it removes the file
  (`:159`), which may be the next transfer's by then (`Release`, `Unlink`).
* A retry pressed between the "error" event and the rejection of the same
  transfer is a second way to two transfers at once (`useDownloads.ts:224`).
* A cancelled download may be reported as failed, where the test plan expects
  "NO toast" (`docs/linux-on-hardware-test-plan.md:263-264`, `useDownloads.ts:224`).
* A late "cancelled" event undoes a retry (`useDownloads.ts:147`).

Library view, detail page and caches:

* "settles on the LAST selection" (`usePaginatedLibrary.ts:178-183`): a range that is
  reported over the list of the last selection asks for the new one beside its
  first request, and may be aborted or forgotten with it (`EnsureRange`, `strayed`).
* A cached list applied at an animation frame can overwrite a chunk fetched
  meanwhile (`ApplyFrame`).
* `refreshItem` on a page that shows a cached item can leave a skeleton without a
  request (`refreshed`).
* Floors and patches are kept in memory only, the patch of the deck does not
  reach its copy in `localStorage`, and after a seek backwards a larger stale
  offset wins (`ResumeOffsets`).

Watch Together client:

* `connectToRelay` connects after its component is gone or has asked for something
  else, and takes the socket from a session (`LookedUp`, `StrayIdentified`).
* A session that finds the service connected does not look at which relay it is
  connected to; nobody goes back to the home relay after a session elsewhere,
  and nobody rejoins after a reconnection (`Identified`, `AuthOk`).
* A relay that rejects the token closes the socket, which had opened and so reset
  the delay: the client tries again about every second, for ever.
* The echo guard "prevents re-broadcasting events we received from remote"
  (`useRemotePlayback.ts:25`).  An event whose state is the present one leaves the guard
  set, and the next change, the user's own, is swallowed; two clicks in one
  rendering leave the players in different states at rest.
* `useContentRequests` sends and awaits messages that the relay does not know.
* A broadcast that finds a channel full is dropped and never repeated
  (`session.rs:40`), and a host whose page opens after a guest has joined is sent no
  roster: only a new join mends a list (`missed`).
* Two joins at once, or a join and a leave, may list a user twice, not at all, or after
  it has left: the roster is collected, the user entered, and the others told in three
  accesses (`session.rs:148-207`, `crossed`).

Player and queue:

* An unload while a cold `ensure_init` builds the player is followed by that load,
  which plays with no page open (`mod.rs:767`); two loads may reach mpv in either
  order; on Linux an initialisation superseded while it registers its listener loads
  all the same (`useNativePlayer.ts:524-546`).  `player_load_url`, `player_stop`, `player_unload`
  and `player_set_muted` are asynchronous commands that nothing orders (`playback.rs:161`): a load may run before the
  stop that was invoked first, and of two opposite mutes the wrong one last.  `overtaken` stands for these.
* Opening an item during the exit of the last one is undone by the exit's stop, and
  the position of one item may be reported under the key of the next
  (`useNativePlayer.ts:336`, `:655-660`).
* A retry that fails while the reveal mute of its predecessor waits leaves the mute
  deferred (`useNativePlayer.ts:496`).
* A season that answers late replaces a newer queue; removing the current entry makes
  Next skip one; a jump to a movie leaves the index behind; a queue with one item twice
  goes to its first place; and at the end of an episode whose next one
  only Plex knows, the overlay is latched and not rendered, although
  `useQueueAutoPopulate.ts:82-85` relies on it (`displaced`, `MovesTo`).

Geometry of the player (Windows):

* `plan_sync` stashes what it throttles "so the trailing edge is never lost"
  (`geometry.rs:38`, `:163`).  A flush that is itself throttled stashes the rectangle
  again and wakes nobody (`mod.rs:1112-1131`, `FlushPending`): it waits for the next event.
* `destroy` ends the flusher, which "only runs when the window is closing"
  (`mod.rs:781-795`); `player_unload` calls it at every exit of the player
  (`playback.rs:374-380`), and the flusher is started once (`events.rs:131-134`).  After the first
  playback nothing flushes (`Destroy`).
* The second sync of a maximize or restore "dedup-skips" (`events.rs:370-371`); the throttle
  comes first and stashes it (`SyncedTwice`).
* `last_geometry` is set before `inner.try_lock`: a sync that finds `inner` held, or
  not set yet, is lost, and later ones with the same rectangle are taken for done, though
  `mod.rs:617-620` wants the first one applied (`Applies`).
* `resync_host` applies a size it read before it was scheduled (`Resync`); the end of one
  fullscreen transition lifts the suppression of the next, and a resize within a
  transition is dropped (`Settled`).
* If the resize of a restore is delivered within its handler, as `events.rs:285-293` reckons with,
  the guard drops that event and the handler then syncs the size it read before it (`events.rs:310-313`):
  the video keeps that size until the next event (`Resized`, `dropped`).

Pop-out on Linux:

* A pop-out's exit "never leaves an inset ghost behind" (`popout.rs:2013-2016`): a tick of the
  enter's loop that has read the stash before the exit takes it (`:2133-2137`) sets the strip after
  the exit's clear (`:2022`), and nothing clears it (`EnterTick`, `Exiting`).
* "pop-out and in-window minimize are mutually exclusive" (`:2016-2018`): `handleMinimize`
  invokes `player_exit_popout` and `player_enter_minimize` together
  (`Player.tsx:226-235`), and if the second runs first, the first clears its inset;
  `togglePiP` does the same with the exit of the mini player (`Overtaken`).
* `unmaximize` is answered some time after the call, and the stash is read at once
  (`:1804-1875`): the geometry to come back to may be the maximized one; and a second enter
  stashes the pop-out's own (`EnterStashes`).
* `linux_work_area` may fail (`:1892`) when the stash is taken and the window unmaximized; so may the
  size or the decorations (`:1945-1948`), with the window on top by then, and those of the exit, with
  the stash gone.  The command fails, and nothing restores what it has changed (`NoWorkArea`,
  `EnterFails`, `ExitFails`).
* The exit's clear, its answer and its loop are not waited for: a drag while the window
  settles is undone by the loop (`ExitTick`, `Hurries`).

Offline watch state:

* `useWatchSync.ts:4-6` "processes the queue when the server becomes available": it
  looks when `auth.server` changes or the layout is mounted, and not when a server that
  was unreachable answers again.  A change of server during a sync is ignored, one item
  that keeps failing holds up all behind it, and an entry does not say of which server
  it is (`Starts`, `MarkFails`).

The races of the relay need two worker threads (`#[tokio::main]` gives one per
core).  With one, `relay_one_worker` shows that
those of the sessions are absent, and `OneWorkerNoneStranded` that of the invitations.

## 9. Proofs

All proofs hold for every value of the constants, under the named assumptions of
the modules: sockets belong to users (`UserOfAssumption`), there is at least one
worker (`WorkersAssumption`), limits are positive (`LimitsAssumption`), times and
bounds are natural numbers (`TimeAssumption`, `RetriesAssumption`, `ResizesAssumption`,
`VisitsAssumption`, `RestartsAssumption`, `LocalAssumption`), shards are numbered
(`ShardsAssumption`), and `None` is none
of the values it stands beside (`NoneAssumption`, `NobodyAssumption`, `TransfersAssumption`,
`PlayerAssumption`, `GeometryAssumption`, `SocketAssumption`, `ResumeAssumption`, which
bound their counters by natural numbers where they have one).  A few say more about
the data: there is something to select and each selection has a chunk
(`LibraryAssumption`), and one of them has the most, as in any finite library
(`ChunksAssumption`); a show's only season is an item that is not such a show
(`TitlesAssumption`); seasons are sequences of episodes and a list to play is not empty
(`QueueAssumption`); the owner of a party is one of its watchers (`RostersAssumption`); a retry loop looks at
least once (`PopoutAssumption`).

Each proof goes the same way: an inductive invariant, the property among or behind its
conjuncts, one lemma for each action, and under it one step for each conjunct that
the action can disturb.

### The relay

* **`RelaySessionsProofs`**: `TypeCorrect`,
  `HostsStay` (`HostPresent`), for any users, sockets, ids and number of
  workers.  Behind the second stands `GuardedExists`, that the session of a guard is in the
  map: that a session is only removed by the leaving handler of its host needs that the
  guard's session is still the one whose participants the handler has seen.
  The three together are inductive, and none of them is alone.
  On top of them, `OnlyReconnectedLeaveGhosts` (`GhostsReconnected`), which needs of any
  number of workers what `OneIInv` below says of one.  A user who has connected once has
  one handler at work at a time, so its entries stand or fall with that handler; what others
  do to them is the removal of a session, which clears the connection (`LeaveClear`) before
  it drops the entry (`LeaveDrop`).  The invariant `GhostIInv` says so: each entry of
  such a user is anchored (`Anchored`), which is to say that its session is on its way
  out, or the connection names it, or the user's handler is about to set the one after the
  other.  Beside it stand that connections and entries carry sockets of their own user
  (`OwnConns`, `OwnEntries`), that only a second connection takes anything over
  (`TakenOver`), and that the only socket of a user is live until it cleans up (`SoleLive`).
  Of the locks, `NobodyWaitsInACircle` (`NoCircle`), for any number of threads, any sessions and
  users, and whichever of them share a shard.  The maps have a rank; that each row asks for
  a lock above all that it keeps, and that two rows in succession keep only what was had
  (`RowsOrdered`), makes it an invariant that a thread wants a lock above all it has (`Ordered`); and of the threads that wait, one that wants
  the highest lock waits for none of the others.
* **`RelayMembershipProofs`**: `MembershipHolds` (`Membership`, what the abstract
  relay promises), from the hypothesis `NoneIsNobody`.
* **`RelayRefinementProofs`**: with one worker, `OneWorkerImplements` (`Implements`),
  `OneWorkerNoGhosts` (`NoGhosts`) and `OneWorkerToldTruth` (`ToldTruth`).  The
  invariant `OneIInv` says for each point of each handler what that handler has done
  so far and has still to do: everything between its first access and its last is a
  detour from a state in which the maps agree, and it comes back to one.  `seen` is the
  abstract state, taken over when a handler is done.
* **`RelayInvitesProofs`**: of the store alone `TypeCorrect`, `LimitsHold` (`Bounded`),
  `KeysUnique` (`OnePerKey`), `NothingLost` (`LeavesForAReason`), `RefusalsJustified`
  (`RefusedWhenFull`), for any limits, users, ids, time to live, and however the
  clock is set; `Bounded` rests on the cardinality of a set with one more element, and
  the action properties follow from the step with the type invariant.
  `RelayUsesStore` then shows that every step of every handler is an operation of the
  store or leaves it alone, so `RelayLimitsHold` and `RelayLosesNothing` carry over
  to the relay with any number of workers.  So does
  `OthersReachTheirTarget` (`OnlyCrossedStrand`): an invitation that waits is on its way to the
  store or in it, a new channel still has its drain to come, and a handler that is about to queue
  has seen its target absent or has been crossed (`CrossIInv`).  With one worker,
  `OneWorkerNoneStranded` (`NoneStranded`): no
  connection can drain between the check of presence and the queueing.

### Downloads

* **`DownloadTransfersProofs`**: `TypeCorrect`, `ActiveInStep`
  (`OneTransferPerKey`), `NoPartLeft` (`PartsOwned`), for any items and any
  number of invocations, with cancellations, deletions and restarts at any
  moment.  The three are inductive together: the entry of the map determines
  its transfer because an invocation never changes its item.  Most actions are
  covered by one lemma (`MoveOnly`): a transfer that neither claims nor
  releases on its way disturbs nothing.
* **`DownloadsProofs`**: `QueueTypeCorrect` (`TypeOK`); `QueueKeepsShell`, that the
  invariants of `DownloadTransfers` hold under the queue as under any webview, which the others
  rest on; `CompleteIsOnDisk` (`CompleteOnDisk`), because an event that is under way
  tells the truth about its transfer (`EventsTrue`) and whoever says that an item is
  complete, or is about to, has a file to show for it (`OnDisk`); `QueueNeverStalls` (`NoStall`), because each item that is
  waiting or downloading has a transfer, an event, a commit or an effect behind it
  (`LookedAfter`, `NothingMissed`); `OneGetWhenUndisturbed` (`OneGetUndisturbed`), because
  an item that is left alone and has a transfer is not waiting (`Alone`), and one
  at work is seen by the queue, which then starts no other (`WorkSeen`, `OneAtWork`); and `UserToldOnce` (`ToldOnce`), which counts the notice
  that was given and the one that will be (`Told`, `NoCancel`, `WillTell`).

### The parts that settle (`SettlesProofs`)

* **`RelaySocket`**: `ConnectionSound` (`SocketSound`), `MembersHavePages`
  (`MemberHasPage`), for any relays, backoff, faults and things users do.  `SocketSound`
  is inductive with `WireInOrder`: messages are under way only on an open
  socket, and the timer runs only while none serves.  The second rests on it and on
  `PageInv`: who is in a session at a relay, or asked to be on any connection the relay may still hear,
  has its page open, or has a leave behind that join on its way, or was not heard
  (`Linked`, `AuthComes`, `LeavesFollow`); the handing over of a session moves the claim from one connection to
  the next.
  `SocketTypeCorrect` adds that auth_ok comes once, since no auth is sent behind another
  message (`AuthOnce`), and that a relay is looked up at most as often as users asked for it,
  counting the refresh that waits for its timer (`Lookups`).
* **`WatchPlayback`**: `WatchPlaybackTypeCorrect`, for any viewers.
* **`LibraryPages`**: `NothingForgotten` (`WantedAccounted`), for any selections, sizes
  and number of generations.  The invariant: what is under way is of the present
  generation (`Fresh`), the lists that ranges are merged into have the size of their
  selection (`Sizes`), and what counts as loaded is there, since a cached list is shown
  before a range is asked for and so has nothing to overwrite (`Accounts`).
  And `OneSelection` (`NoSplice`), on top of it: with `Belongs`, which says that a
  cached list on its way to the screen is of the present selection and that what a
  fill has flushed are the batches behind the first page, in order, however its
  workers finish (`FlushInOrder`), no step merges anything from elsewhere
  (`MergedOf`).  `LibraryTypeCorrect` follows from the two: a list without a gap in its
  domain (`Dense`) whose items are at their own places is one of the library's
  (`DenseTyped`), and no range or request goes beyond the longest (`Ranging`).
* **`OfflineWatch`**: `NothingWatchedIsLost` (`NothingUnreported`), for any items, servers
  and restarts: what a sync has taken out of the list was reported, and what it holds
  in its copy is still in the list or was reported by itself.  And `OfflineTypeCorrect`.
* **`LinuxPopout`**: `PopoutTypeCorrect` and `WindowComesBack`
  (`PopoutAgrees`), for any number of clicks, looks of a loop and lost requests.  As long as
  nothing excepted has happened, one call at a time moves the window (`OneMoves`), and the
  invariant says for each point of it where the window is (`Stage`): at home, away with the
  stash taken from home (`Away`), or on its way back (`Back`).  On the way back a lost
  request leaves the window as it is, and the exit's loop has another look to come
  (`Looking`); the calls of the mini player beside it are accounted for by the margin they
  will set (`MarginFits`), a strip that is missing by the loop that will set it (`HasStrip`).
  The attempt at this proof is what showed the need of the guard of `ExitTick`: without
  it four clicks lead to a window that does not come back, and the code excludes them.

### The rest of the webview (`WebviewProofs`)

* **`DetailPage`**: `DetailTypeCorrect`, `OneItem` (`PageOfOneItem`), `NeverHangs` (`NothingHangs`), for
  any titles, shelves, collections and edits.  Beside the two, the invariant says
  that a request for the bundle knows whether the page shows the item already,
  and that a page without an item has no other request (`RequestsFit`): without
  it an answer could leave a skeleton with nothing behind it.
* **`ResumeOffsets`**: `ResumeTypeCorrect`, `ShownIsWhatWasReported`
  (`ShownIsReported`), for any offsets and any number of sweeps.  The invariant
  says why no place can fall back: while a stop is ahead, no answer that is
  listed or under way lies beyond it (`NoneBeyond`), and as soon as its floor is
  gone, every answer to come is exactly it (`OnlyAnswer`); so whether a floor
  is applied or has expired, what arrives is what was reported.
* **`NativePlayer`**: `PlayerTypeCorrect`, `PlayerPlaysWhatIsOpen` (`PlaysWhatIsOpen`), for
  any items and any number of initialisations and toggles.  No two initialisations
  have one generation, and the one of the present generation is for the item that is
  open (`GensFit`); the warm-up builds the first handle or none (`WarmUpFirst`); and
  unless a load was overtaken, a closed player has nothing loaded (`Closed`) and mpv has
  what the present initialisation has done by the point it has reached (`Opened`), once the commands
  that are invoked have run: the invariant says of each of them what it can still change.
* **`PlaybackQueue`**: `PlaybackTypeCorrect`, `QueueInStep` (`InStep`), `NoBlackFrame`
  (`NeverBlack`), for any shows, movies and lists to play.  They rest on lemmas about what a list
  is after an entry has been removed, inserted or moved (`IsRemoved`, `IsInserted`,
  `IsRelocated`): that the index is adjusted so as to name the same entry (`Follows`) is a
  statement about all positions of both lists.  `NeverBlack` needs that the
  overlay is spent only on an item that has lost its place, and is no longer armed once
  the end of the item has been handled (`Latch`).
* **`PlayerGeometry`**: `GeometryTypeCorrect`, `VideoFollows` (`FollowsWindow`), for any sizes and number of
  resizes.  The cache says what the video has (`CacheFits`), a flush that is
  claimed comes as long as there is a flusher (`ClaimHolds`), a size that waits for it is
  the window's or is soon replaced or not applied (`PendingFits`), and so whenever the
  video does not have its rectangle something under way will give it, or a dropped event was
  to (`RectOwed`).
* **`Rosters`**: `PagesAgree` (`RostersAgree`), for any watchers, capacity, workers and
  visits.  Joins, rosters and departures reach a page through one channel but are put
  there by handlers that cross.  The invariant looks through the channel: it says what the
  page's list becomes when all that is queued has been received (`Becomes`), and that
  this is the party, but for what the handlers still at work have to announce
  (`ListsFit`), for a page that has seen a roster of its visit (`SeenFits`).
  `RostersTypeCorrect` bounds what a page lists, which takes a tally (`Tallied`): the times a
  page lists somebody, the announcements of them on their way to it and the joins that they have asked
  for or that are being handled are together no more than the pages that were opened, and while
  a page awaits its roster one of these is to spare; and nobody hears of itself (`NotItself`).

### The compositions

`MCWebview` and `MCSettles` run parts that share no variable, one of them in each
behaviour.  `WebviewImplementsParts` and `SettlesImplementsParts`: the composition
implements the specification of each of its parts.  So every theorem above holds in
them: `WebviewTypeCorrect` and `SettlesTypeCorrect` (`WebviewTypeOK`, `SettlesTypeOK`), and
`WebviewCorrect` and `SettlesCorrect`, which put together the safety invariants that the
runs of the two modules check and expect to hold.

### Only model-checked

All liveness, which is out of the proof system's reach together with `ENABLED`: what a
store, a queue, a page or a socket does in the end (`CapacityReturns`,
`QueueDrains`, `SettlesUndisturbed`, `ConnectsInTheEnd`, `Quiets`) is checked by TLC
within the bounds of section 7.  Every safety invariant and action property that a run
checks and expects to hold is stated by a theorem; `NoGhosts` and
`ToldTruth` for one worker, as their run checks them, because
with two they do not hold (section 8).  The properties that the code violates have no
theorem, of course.

## 10. What is not modelled, and the plan

Most of the code is rendering, pages and settings, requests to Plex and TMDb
and the shaping of their answers, and, in the shell, calls of GTK, Win32,
DirectComposition and mpv.  It keeps no state that several steps build up, and
what could go wrong in it is seen at once or lies with a system outside: a model of it
would repeat it.  So the modules cover a small part of the lines, and most of the
places where order, failure and timing decide.

Of the parts that are modelled, left out: the states "buffering" and "ready" of a
participant, the list of invitations and the switch of media in the Watch Together client; tracks, subtitles,
volume, skipping and the HTML5 fallback of the player; positions, corners and the tile
break of the pop-out; the watch-state patches on a
page's episodes; the rows of the dashboard other than the deck; `addToQueue`,
which nothing calls; and the queue an earlier run of the application saved (the
queue outlives a player within a run, which leads to the same states).

What the plan has left, in order of weight:

1. **The switch of media** in a session: the host's next item against guests that
   still load the last one.
2. **Rate limiters**: sliding windows of one task each, of little interest.

Of the proofs nothing is left that the proof system can do for what is modelled.
