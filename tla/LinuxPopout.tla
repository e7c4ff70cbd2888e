------------------------------ MODULE LinuxPopout ------------------------------
(* The pop-out of the player on Linux: player_enter_popout and _exit_popout,  *)
(* their verify-and-retry loops on GTK's thread, the commands of the mini     *)
(* player, which share the margin with them, the button that shows which one  *)
(* is in effect, and a compositor that grants a size late or not at all.      *)
(*                                                                            *)
(* Commands run side by side on the runtime's threads.  Left out: positions   *)
(* and corners, the tile break (the order of two requests depends on it) and  *)
(* the ratios at mpv, which follow the margin.                                *)
EXTENDS Webview, Integers, Sequences, FiniteSets, Functions

CONSTANTS Attempts,   \* POPOUT_RESIZE_RETRY_MAX_ATTEMPTS
          MaxClicks,  \* bound: what the user does
          MaxLost,    \* bound: requests the compositor drops
          Early       \* bound: a run goes on after what sets `excepted`

\* Bound: commands and loops at a time.
Tasks == 1..3

VARIABLES win,       \* the window as the compositor has it
          asked,     \* what it was last asked for
          onTop,     \* always on top
          bare,      \* neither decorations nor the configured minimum size
          margin,    \* linux_margin: the mini player's inset, or the strip
                     \* below the subtitles of the pop-out
          stash,     \* pre_popout_geometry
          wasMaxed,  \* pre_popout_maximized
          saved,     \* the size in popout-player.json
          command,   \* the commands under way
          loop,      \* the loop each of them has started
          isOpen,    \* the player is
          isPopOut,  \* what usePopOutPlayer says
          isMini,    \* isMinimized
          home,      \* history: the window before it was popped out
          excepted,  \* history: a step that PopoutAgrees excepts
          lost, clicks

windowAsk == <<win, asked, onTop, bare, lost>>
stashVars == <<stash, wasMaxed>>
buttonVars == <<isOpen, isPopOut, isMini>>
historyVars == <<home, excepted, clicks>>
popoutVars == <<windowAsk, margin, stashVars, saved, command, loop, buttonVars,
                historyVars>>

\* full: that of the work area, too large for a pop-out.
WinSizes == {"windowed", "small", "dragged", "full"}
Window == [size : WinSizes, maxed : BOOLEAN]
Anywhere == [size |-> "windowed", maxed |-> FALSE]

ASSUME PopoutAssumption ==
  None \notin WinSizes \cup {"inset", "strip"} /\ Attempts \in Nat \ {0}

NoTask == [pc |-> "none", to |-> Anywhere, heard |-> FALSE]
NoLoop == [of |-> "none", left |-> 0, size |-> "windowed"]

PopoutTypeOK ==
  /\ {win, asked, home} \subseteq Window
  /\ {onTop, bare, wasMaxed, isOpen, isPopOut, isMini, excepted}
       \subseteq BOOLEAN
  /\ margin \in {None, "inset", "strip"}
  /\ stash \in WinSizes \cup {None} /\ saved \in WinSizes \ {"full"}
  /\ command \in [Tasks ->
       [pc : {"none", "enter", "stash", "apply", "save", "entered", "exit",
              "persist", "take", "restore", "exited", "failed", "inset",
              "uninset", "unload"},
        to : Window, heard : BOOLEAN]]
  /\ loop \in [Tasks -> [of : {"none", "enter", "exit"}, left : 0..Attempts,
                         size : WinSizes]]

PopoutInit ==
  /\ win \in {Anywhere, [size |-> "full", maxed |-> TRUE]}
  /\ asked = [Anywhere EXCEPT !.maxed = win.maxed] /\ home = asked
  /\ onTop = FALSE /\ bare = FALSE /\ margin = None
  /\ stash = None /\ wasMaxed = FALSE /\ saved = "small"
  /\ command = [t \in Tasks |-> NoTask] /\ loop = [t \in Tasks |-> NoLoop]
  /\ isOpen = TRUE /\ isPopOut = FALSE /\ isMini = FALSE
  /\ excepted = FALSE /\ lost = 0 /\ clicks = 0

At(t, pc) == command[t].pc = pc
Goto(t, pc) == command' = [command EXCEPT ![t].pc = pc]
Idle(t) == command[t] = NoTask /\ loop[t] = NoLoop
AskSize(size) == asked' = [asked EXCEPT !.size = size]

\* What a request for it makes of the window: maximized, the size waits.
Granted(w) == IF w.maxed THEN [w EXCEPT !.size = "full"] ELSE w
Unsettled == win # Granted(asked)

-----------------------------------------------------------------------------
(* player_enter_popout *)

\* The inset is cleared, a maximized window is to be unmaximized, and the size
\* of the last pop-out is read.
EnterBegins(t) ==
  /\ At(t, "enter")
  /\ margin' = IF margin = "inset" THEN None ELSE margin
  /\ wasMaxed' = win.maxed
  /\ asked' = [asked EXCEPT !.maxed = @ /\ ~win.maxed]
  /\ command' = [command EXCEPT ![t].pc = "stash", ![t].to.size = saved]
  /\ UNCHANGED <<win, onTop, bare, lost, stash, saved, loop, buttonVars,
                 historyVars>>

\* The geometry to come back to; without a work area, the command fails.
EnterStashes(t) ==
  /\ At(t, "stash")
  /\ stash' = win.size
  /\ excepted' = (excepted \/ stash' # home.size)
  /\ Goto(t, "apply")
  /\ UNCHANGED <<windowAsk, margin, wasMaxed, saved, loop, buttonVars, home,
                 clicks>>

NoWorkArea(t) ==
  /\ At(t, "apply")
  /\ Goto(t, "failed")
  /\ excepted' = TRUE
  /\ UNCHANGED <<windowAsk, margin, stashVars, saved, loop, buttonVars, home,
                 clicks>>

EnterApplies(t) ==
  /\ At(t, "apply")
  /\ onTop' = TRUE /\ bare' = TRUE
  /\ AskSize(command[t].to.size)
  /\ loop' = [loop EXCEPT ![t] = [of |-> "enter", left |-> Attempts,
                                   size |-> command[t].to.size]]
  /\ Goto(t, "save")
  /\ UNCHANGED <<win, lost, margin, stashVars, saved, buttonVars, historyVars>>

\* The size, or the decorations after it, are refused: the window is on top.
EnterFails(t) ==
  /\ At(t, "apply")
  /\ onTop' = TRUE
  /\ UNCHANGED asked \/ AskSize(command[t].to.size)
  /\ Goto(t, "failed")
  /\ excepted' = TRUE
  /\ UNCHANGED <<win, bare, lost, margin, stashVars, saved, loop, buttonVars,
                 home, clicks>>

EnterSaves(t) ==
  /\ At(t, "save")
  /\ saved' = command[t].to.size
  /\ Goto(t, "entered")
  /\ UNCHANGED <<windowAsk, margin, stashVars, loop, buttonVars, historyVars>>

-----------------------------------------------------------------------------
(* player_exit_popout *)

\* A command clears a margin that another command of the same click has set.
Overtaken(of) == excepted' = (excepted \/ margin = of)

ExitClears(t) ==
  /\ At(t, "exit")
  /\ margin' = None /\ Overtaken("inset")
  /\ Goto(t, "persist")
  /\ UNCHANGED <<windowAsk, stashVars, saved, loop, buttonVars, home, clicks>>

\* tao's size may be stale: what was asked for, or what was before it.
ExitPersists(t) ==
  /\ At(t, "persist")
  /\ \E size \in {win.size, asked.size} :
       saved' = IF size = "full" THEN saved ELSE size
  /\ onTop' = FALSE
  /\ Goto(t, "take")
  /\ UNCHANGED <<win, asked, bare, lost, margin, stashVars, loop, buttonVars,
                 historyVars>>

ExitTakes(t) ==
  /\ At(t, "take")
  /\ stash' = None /\ wasMaxed' = FALSE
  /\ command' = [command EXCEPT
       ![t].pc = IF stash = None THEN "exited" ELSE "restore",
       ![t].to = IF stash = None THEN @
                 ELSE [size |-> stash, maxed |-> wasMaxed]]
  /\ UNCHANGED <<windowAsk, margin, saved, loop, buttonVars,
                 historyVars>>

\* The size, and then maximized if it was.
\* Mutant: it stays windowed.
AskBackMutant(w) == asked' = [asked EXCEPT !.size = w.size]
AskBack(w) == asked' = [size |-> w.size, maxed |-> asked.maxed \/ w.maxed]

ExitRestores(t) ==
  /\ At(t, "restore")
  /\ bare' = FALSE
  /\ AskBack(command[t].to)
  /\ loop' = [loop EXCEPT ![t] = [of |-> "exit", left |-> Attempts,
                                   size |-> command[t].to.size]]
  /\ Goto(t, "exited")
  /\ UNCHANGED <<win, onTop, lost, margin, stashVars, saved, buttonVars,
                 historyVars>>

\* The decorations or the size are refused, in this order or, after a tile, in
\* the other: there is no loop, and the window is not maximized again.
ExitFails(t) ==
  /\ At(t, "restore")
  /\ \/ UNCHANGED <<bare, asked>>
     \/ bare' = FALSE /\ UNCHANGED asked
     \/ UNCHANGED bare /\ AskSize(command[t].to.size)
  /\ Goto(t, "failed")
  /\ excepted' = TRUE
  /\ UNCHANGED <<win, onTop, lost, margin, stashVars, saved, loop, buttonVars,
                 home, clicks>>

-----------------------------------------------------------------------------
(* player_enter_minimize, player_exit_minimize, and the promises *)

Inset(t) ==
  /\ At(t, "inset")
  /\ margin' = "inset" /\ Overtaken("strip")
  /\ command' = [command EXCEPT ![t] = NoTask]
  /\ UNCHANGED <<windowAsk, stashVars, saved, loop, buttonVars, home, clicks>>

Uninset(t) ==
  /\ At(t, "uninset")
  /\ margin' = None /\ Overtaken("strip")
  /\ command' = [command EXCEPT ![t] = NoTask]
  /\ UNCHANGED <<windowAsk, stashVars, saved, loop, buttonVars, home, clicks>>

\* player_unload: destroy drops the margin.
Unload(t) ==
  /\ At(t, "unload")
  /\ margin' = None
  /\ command' = [command EXCEPT ![t] = NoTask]
  /\ UNCHANGED <<windowAsk, stashVars, saved, loop, buttonVars, historyVars>>

\* The button follows the answer, if the player that asked is still there.
Answered(t) ==
  /\ command[t].pc \in {"entered", "exited", "failed"}
  /\ isPopOut' = IF command[t].heard /\ ~At(t, "failed") THEN At(t, "entered")
                 ELSE isPopOut
  /\ command' = [command EXCEPT ![t] = NoTask]
  /\ UNCHANGED <<windowAsk, margin, stashVars, saved, loop, isOpen, isMini,
                 historyVars>>

-----------------------------------------------------------------------------
(* The loops and the compositor *)

\* decide_popout_resize_retry, of the size it has seen.
Ends(t, seen) == seen = loop[t].size \/ loop[t].left = 1
Breaks(t) == loop' = [loop EXCEPT ![t] = NoLoop] /\ UNCHANGED asked
Retries(t) == loop' = [loop EXCEPT ![t].left = @ - 1] /\ AskSize(loop[t].size)

\* An exit has cleared the margin and not yet taken the stash.
Exiting == \E t \in Tasks : command[t].pc \in {"persist", "take"}

\* Cancelled by the exit's taking the stash; otherwise its end sets the strip.
EnterTick(t) ==
  /\ loop[t].of = "enter"
  /\ \E seen \in {win.size, asked.size} :
       IF stash = None THEN Breaks(t) /\ UNCHANGED margin
       ELSE IF Ends(t, seen) THEN Breaks(t) /\ margin' = "strip"
       ELSE Retries(t) /\ UNCHANGED margin
  /\ excepted' = (excepted \/ (margin' # margin /\ (Exiting \/ isMini)))
  /\ UNCHANGED <<win, onTop, bare, lost, stashVars, saved, command, buttonVars,
                 home, clicks>>

\* Nothing cancels it, and it sees what GTK has.  The loops tick at one interval
\* on one thread: those of an enter before it have looked, and seen that the
\* stash is taken, before it looks first.
ExitTick(t) ==
  /\ loop[t].of = "exit"
  /\ loop[t].left = Attempts /\ stash = None => \A u \in Tasks : loop[u].of # "enter"
  /\ IF Ends(t, win.size) THEN Breaks(t) ELSE Retries(t)
  /\ UNCHANGED <<win, onTop, bare, lost, margin, stashVars, saved, command,
                 buttonVars, historyVars>>

Configure ==
  /\ Unsettled
  /\ win' = Granted(asked)
  /\ UNCHANGED <<asked, onTop, bare, lost, margin, stashVars, saved, command,
                 loop, buttonVars, historyVars>>

\* A new size loses to the layout that other requests cause; not after the last
\* look of its loop, when the decorations have long been changed.
Drops ==
  /\ Unsettled /\ ~asked.maxed /\ ~win.maxed
  /\ \E t \in Tasks : loop[t].left > 1 /\ loop[t].size = asked.size
  /\ lost < MaxLost
  /\ lost' = lost + 1
  /\ asked' = win
  /\ UNCHANGED <<win, onTop, bare, margin, stashVars, saved, command, loop,
                 buttonVars, historyVars>>

-----------------------------------------------------------------------------
(* The user *)

AtRest == (\A t \in Tasks : Idle(t)) /\ ~Unsettled

\* The user acts before the last act has been answered, or while the window
\* still settles from an exit.
Hurries ==
  /\ clicks < MaxClicks /\ clicks' = clicks + 1
  /\ excepted' =
       \/ excepted
       \/ Unsettled /\ ~isPopOut
       \/ \E t \in Tasks : command[t] # NoTask \/ loop[t].of = "exit"

Least(S) == CHOOSE t \in S : \A u \in S : t <= u

\* The invocations of one click; a player that is closed hears no answer.
Invokes(pcs, stays) ==
  LET free == {t \in Tasks : Idle(t)}
      Place(pc) == Least(IF pc = pcs[1] THEN free ELSE free \ {Least(free)})
  IN /\ Cardinality(free) >= Len(pcs)
     /\ command' = [t \in Tasks |->
          IF \E i \in DOMAIN pcs : Place(pcs[i]) = t
          THEN [NoTask EXCEPT !.heard = stays,
                              !.pc = CHOOSE pc \in Range(pcs) : Place(pc) = t]
          ELSE [command[t] EXCEPT !.heard = @ /\ stays]]

Exits == IF isPopOut THEN <<"exit">> ELSE <<>>

\* togglePiP: out of the mini player first.
TogglePopOut ==
  /\ isOpen
  /\ Hurries
  /\ Invokes((IF isMini THEN <<"uninset">> ELSE <<>>)
             \o (IF isPopOut THEN <<"exit">> ELSE <<"enter">>), TRUE)
  /\ isMini' = FALSE
  /\ home' = IF isPopOut THEN home ELSE asked
  /\ UNCHANGED <<windowAsk, margin, stashVars, saved, loop, isOpen, isPopOut>>

\* handleMinimize: out of the pop-out first.
Minimize ==
  /\ isOpen /\ ~isMini
  /\ Hurries
  /\ Invokes(Exits \o <<"inset">>, TRUE)
  /\ isMini' = TRUE
  /\ UNCHANGED <<windowAsk, margin, stashVars, saved, loop, isOpen, isPopOut,
                 home>>

RestoreFromMinimize ==
  /\ isMini
  /\ Hurries
  /\ Invokes(<<"uninset">>, TRUE)
  /\ isMini' = FALSE
  /\ UNCHANGED <<windowAsk, margin, stashVars, saved, loop, isOpen, isPopOut,
                 home>>

\* exit, out of the pop-out first, or the next player.
OpenOrClose ==
  /\ Hurries
  /\ isOpen' = ~isOpen
  /\ IF isOpen THEN Invokes(Exits \o <<"unload">>, FALSE) ELSE UNCHANGED command
  /\ isPopOut' = FALSE /\ isMini' = FALSE
  /\ UNCHANGED <<windowAsk, margin, stashVars, saved, loop, home>>

\* The window is resized by its edge.
Drag ==
  /\ ~win.maxed
  /\ Hurries
  /\ win' = [win EXCEPT !.size = "dragged"] /\ asked' = win'
  /\ home' = IF isPopOut THEN home ELSE win'
  /\ UNCHANGED <<onTop, bare, lost, margin, stashVars, saved, command, loop,
                 buttonVars>>

-----------------------------------------------------------------------------

PopoutNext ==
  /\ Early \/ ~excepted
  /\ \/ \E t \in Tasks :
          \/ EnterBegins(t) \/ EnterStashes(t) \/ NoWorkArea(t)
          \/ EnterApplies(t) \/ EnterFails(t) \/ EnterSaves(t)
          \/ ExitClears(t) \/ ExitPersists(t) \/ ExitTakes(t) \/ ExitRestores(t)
          \/ ExitFails(t)
          \/ Inset(t) \/ Uninset(t) \/ Unload(t) \/ Answered(t)
          \/ EnterTick(t) \/ ExitTick(t)
     \/ Configure \/ Drops
     \/ TogglePopOut \/ Minimize \/ RestoreFromMinimize \/ OpenOrClose \/ Drag

PopoutSpec == PopoutInit /\ [][PopoutNext]_popoutVars

\* The button, the window and the margin agree, and the window comes back as
\* it was before, though requests get lost: when all has settled, and no click
\* came too early, no command was overtaken and none failed.
PopoutAgrees ==
  AtRest /\ ~excepted =>
    IF isPopOut
    THEN /\ onTop /\ bare /\ ~win.maxed
         /\ stash = home.size /\ margin = "strip"
    ELSE /\ ~onTop /\ ~bare /\ stash = None
         /\ asked = home
         /\ margin = IF isMini THEN "inset" ELSE None

\* popout.rs:1460-1462: a user who pops back out while the window settles from
\* an exit supersedes what the loop of that exit would set.
ReentrySupersedes ==
  [][\A t \in Tasks :
       /\ loop[t].of = "exit" /\ loop'[t] # loop[t]
       /\ isPopOut /\ \A u \in Tasks : command[u] = NoTask
       => UNCHANGED asked]_popoutVars
=============================================================================
