---------------------------- MODULE PlaybackQueue -----------------------------
(* What plays after the item that is open: the queue of QueueContext, the    *)
(* automatic queue of useQueueAutoPopulate, the neighbours of                *)
(* useEpisodeNavigation, the overlay of usePostPlay with its hand-over in    *)
(* the mini player, and the handlers of Player and QueuePanel.               *)
(*                                                                           *)
(* A commit and its effects are one step with the update that caused them.   *)
(* Indices count from 1, 0 is no entry.  Watch Together, where the host      *)
(* drives, and what a load or an exit awaits (NativePlayer) are left out.    *)
EXTENDS Webview, Integers, SequencesExt

CONSTANTS Seasons,    \* the seasons of a show, each the sequence of its episodes
          Movies,
          PlayLists,  \* what Play All and Shuffle can build
          MaxActs     \* bound: what the user does

VARIABLES nowPlaying,   \* the session's ratingKey, None: no player mounted
          file,         \* what mpv makes of it
          itemType,     \* player.itemType: of the item prepared last
          queue,        \* QueueContext; built: by Play All, edits or not
          populatedFor, \* populatedRef
          populating,   \* the items whose season is being fetched
          neighbours,   \* prevEp and nextEp
          navFor,       \* the item whose neighbours are awaited
          overlay,      \* "armed", "shown", or "spent": hidden but latched
          minimized,    autoPlay,
          eof,          \* player://eof is on its way
          acts,         \* what the user has done so far
          displaced     \* history: the item has lost its place, see MovesTo

queueVars == <<nowPlaying, file, itemType, queue, populatedFor, populating,
               neighbours, navFor, overlay, minimized, autoPlay, eof, acts,
               displaced>>

Keys == Movies \cup UNION {Range(s) : s \in Range(Seasons)}
KindOf(key) == IF key \in Movies THEN "movie" ELSE "episode"
Place(s, key) == SelectInSeq(s, LAMBDA k : k = key)

\* playAll and shuffle play nothing when there is nothing to build.
ASSUME QueueAssumption ==
  /\ Seasons \in Seq(Seq(Keys)) /\ PlayLists \subseteq Seq(Keys) \ {<<>>}
  /\ None \notin Keys /\ MaxActs \in Nat

QueueTypeOK ==
  /\ nowPlaying \in Keys \cup {None}
  /\ file \in {"none", "loading", "plays", "ended"}
  /\ (file = "none") = (nowPlaying = None)
  /\ itemType \in {"", "movie", "episode"}
  /\ queue.items \in Seq(Keys) /\ queue.at \in 0..Len(queue.items)
  /\ queue.source \in {None, "auto-episodes", "user-built"}
  /\ {populatedFor, navFor} \subseteq Keys \cup {None}
  /\ populating \subseteq Keys
  /\ Range(neighbours) \subseteq Keys \cup {None}
  /\ overlay \in {"armed", "shown", "spent"}
  /\ {minimized, autoPlay, eof, displaced, queue.built} \subseteq BOOLEAN
  /\ acts \in 0..MaxActs

EmptyQueue == [items |-> <<>>, at |-> 0, source |-> None, built |-> FALSE]
Alone == [prev |-> None, next |-> None]

QueueInit ==
  /\ nowPlaying = None /\ file = "none" /\ itemType = ""
  /\ queue = EmptyQueue
  /\ populatedFor = None /\ populating = {}
  /\ neighbours = Alone /\ navFor = None
  /\ overlay = "armed" /\ minimized = FALSE /\ autoPlay \in BOOLEAN
  /\ eof = FALSE /\ acts = 0 /\ displaced = FALSE

HasEntryAfter == queue.at < Len(queue.items)
AtItsEntry == queue.at > 0 /\ queue.items[queue.at] = nowPlaying

HasNextItem ==
  \/ itemType = "episode" /\ (HasEntryAfter \/ neighbours.next # None)
  \/ queue.source = "user-built" /\ HasEntryAfter /\ AtItsEntry

\* The overlay needs an entry to show.
Screen == overlay = "shown" /\ ~minimized /\ HasEntryAfter

-----------------------------------------------------------------------------
(* The effects on the item and its type                                      *)

\* useQueueAutoPopulate, on a queue q: it goes to the item's entry, or is
\* cleared and fetched anew.
AutoPopulate(key, type, q) ==
  IF type # "episode" \/ populatedFor = key
    THEN queue' = q /\ UNCHANGED <<populatedFor, populating>>
    ELSE /\ populatedFor' = key
         /\ IF key \in Range(q.items)
              THEN /\ queue' = [q EXCEPT !.at = Place(q.items, key)]
                   /\ UNCHANGED populating
              ELSE /\ queue' = [EmptyQueue EXCEPT !.source = "auto-episodes"]
                   /\ populating' = populating \cup {key}

\* useEpisodeNavigation: the neighbours of the item before stay until the
\* answer.
Navigation(key, type) ==
  IF type = "episode" THEN navFor' = key /\ UNCHANGED neighbours
                      ELSE navFor' = None /\ neighbours' = Alone

\* The session's ratingKey becomes key, the queue q and the overlay o.  The
\* same item again changes nothing, and the player stays where it is.
MovesTo(key, q, o) ==
  /\ nowPlaying' = key
  /\ UNCHANGED itemType
  /\ IF key = nowPlaying
       THEN /\ queue' = q /\ overlay' = o
            /\ displaced' = TRUE
            /\ UNCHANGED <<file, populatedFor, populating, neighbours, navFor>>
       ELSE /\ file' = "loading" /\ overlay' = "armed"
            /\ displaced' = FALSE
            /\ AutoPopulate(key, itemType, q)
            /\ Navigation(key, itemType)

\* prepareSource answers, and with it the type.
Prepared ==
  /\ file = "loading"
  /\ file' = "plays"
  /\ itemType' = KindOf(nowPlaying)
  /\ IF itemType' = itemType
       THEN UNCHANGED <<queue, populatedFor, populating, neighbours, navFor>>
       ELSE /\ AutoPopulate(nowPlaying, itemType', queue)
            /\ Navigation(nowPlaying, itemType')
  /\ UNCHANGED <<nowPlaying, overlay, minimized, autoPlay, eof, acts,
                 displaced>>

SeasonOf(key) == SelectInSeq(Seasons, LAMBDA s : key \in Range(s))

\* From the item to the end of its season, and after its last episode the
\* next season, if the answer comes.
Remaining(key) ==
  LET n == SeasonOf(key)
      rest == SubSeq(Seasons[n], Place(Seasons[n], key), Len(Seasons[n]))
  IN IF Len(rest) = 1 /\ n < Len(Seasons) THEN {rest, rest \o Seasons[n + 1]}
                                          ELSE {rest}

\* The season's answer replaces the queue, whatever plays by now.
Populated(key) ==
  /\ populating' = populating \ {key}
  /\ \/ /\ KindOf(key) = "episode"
        /\ \E items \in Remaining(key) :
             queue' = [items |-> items, at |-> 1, source |-> "auto-episodes",
                       built |-> FALSE]
        /\ displaced' = (displaced \/ key # nowPlaying)
     \/ UNCHANGED <<queue, displaced>>  \* it fails, or is no episode
  /\ UNCHANGED <<nowPlaying, file, itemType, populatedFor, neighbours, navFor,
                 overlay, minimized, autoPlay, eof, acts>>

\* The other episodes of the season, and past its ends the seasons beside it.
EpisodeIn(n, i) == IF n \in DOMAIN Seasons /\ i \in DOMAIN Seasons[n]
                   THEN Seasons[n][i] ELSE None

NextEpisode(key) ==
  LET n == SeasonOf(key)
      i == Place(Seasons[n], key)
  IN IF i < Len(Seasons[n]) THEN EpisodeIn(n, i + 1) ELSE EpisodeIn(n + 1, 1)

PreviousEpisode(key) ==
  LET n == SeasonOf(key)
      i == Place(Seasons[n], key)
  IN IF i > 1 THEN EpisodeIn(n, i - 1)
     ELSE IF n > 1 THEN EpisodeIn(n - 1, Len(Seasons[n - 1])) ELSE None

\* The neighbours arrive, either None when its own request failed; or the
\* first request fails.
Navigated ==
  /\ navFor # None
  /\ navFor' = None
  /\ \/ /\ KindOf(navFor) = "episode"
        /\ \E p \in {None, PreviousEpisode(navFor)},
              n \in {None, NextEpisode(navFor)} :
             neighbours' = [prev |-> p, next |-> n]
     \/ UNCHANGED neighbours
  /\ UNCHANGED <<nowPlaying, file, itemType, queue, populatedFor, populating,
                 overlay, minimized, autoPlay, eof, acts, displaced>>

-----------------------------------------------------------------------------
(* Next and previous                                                         *)

At(i) == [queue EXCEPT !.at = i]

\* handleNextEpisode, with the overlay o and the player minimised or not.
\* Navigating opens the item as a new session.
AdvanceNext(o, mini) ==
  IF HasEntryAfter
    THEN /\ MovesTo(queue.items[queue.at + 1], At(queue.at + 1), o)
         /\ minimized' = mini
  ELSE IF neighbours.next # None
    THEN MovesTo(neighbours.next, queue, o) /\ minimized' = FALSE
  ELSE /\ overlay' = o /\ minimized' = mini
       /\ displaced' = (displaced \/ o = "spent")
       /\ UNCHANGED <<nowPlaying, file, itemType, queue, populatedFor,
                      populating, neighbours, navFor>>

\* handlePrevEpisode
AdvancePrev ==
  IF queue.at > 1
    THEN MovesTo(queue.items[queue.at - 1], At(queue.at - 1), overlay)
         /\ UNCHANGED minimized
    ELSE /\ neighbours.prev # None
         /\ MovesTo(neighbours.prev, queue, overlay)
         /\ minimized' = FALSE

\* lifecycle.exit: the queue outlives the player.
Closes ==
  /\ nowPlaying' = None /\ file' = "none" /\ itemType' = ""
  /\ populatedFor' = None /\ neighbours' = Alone /\ navFor' = None
  /\ overlay' = "armed" /\ minimized' = FALSE /\ displaced' = FALSE
  /\ UNCHANGED <<queue, populating>>

\* Mutant: the mini player gets an overlay it does not show.
OverlayInMutant(mini) ==
  /\ overlay' = "shown" /\ minimized' = mini
  /\ UNCHANGED <<nowPlaying, file, itemType, queue, populatedFor, populating,
                 neighbours, navFor, displaced>>

\* The overlay is up: the mini player moves on at once, or is restored.
OverlayIn(mini) ==
  IF mini /\ autoPlay
    THEN AdvanceNext("spent", TRUE)
    ELSE /\ overlay' = "shown" /\ minimized' = FALSE
         /\ UNCHANGED <<nowPlaying, file, itemType, queue, populatedFor,
                        populating, neighbours, navFor, displaced>>

\* mpv reaches the end of the file, and says so.
ReachesEnd ==
  /\ file = "plays" /\ ~eof
  /\ file' = "ended" /\ eof' = TRUE
  /\ UNCHANGED <<nowPlaying, itemType, queue, populatedFor, populating,
                 neighbours, navFor, overlay, minimized, autoPlay, acts,
                 displaced>>

\* handleEnded, whatever is open by now.
Eof ==
  /\ eof /\ eof' = FALSE
  /\ \/ ~HasNextItem /\ Closes
     \/ HasNextItem /\ overlay = "armed" /\ OverlayIn(minimized)
     \/ /\ HasNextItem /\ overlay # "armed"
        /\ UNCHANGED <<nowPlaying, file, itemType, queue, populatedFor,
                       populating, neighbours, navFor, overlay, minimized,
                       displaced>>
  /\ UNCHANGED <<autoPlay, acts>>

-----------------------------------------------------------------------------
(* The user                                                                  *)

Acts == acts < MaxActs /\ acts' = acts + 1

\* What a click in the player leaves alone.
Stays == UNCHANGED <<eof, autoPlay>>

\* Play on a page, which the user reaches with the player closed or small.
Play(key) ==
  /\ Acts /\ Stays
  /\ nowPlaying = None \/ minimized
  /\ MovesTo(key, queue, overlay)
  /\ minimized' = FALSE

\* playAll, shuffle
PlayAll(items) ==
  /\ Acts /\ Stays
  /\ nowPlaying = None \/ minimized
  /\ MovesTo(items[1], [items |-> items, at |-> 1, source |-> "user-built",
                        built |-> TRUE], overlay)
  /\ minimized' = FALSE

\* Play Now, or the countdown of autoplay.
PlayNow ==
  /\ Screen
  /\ Stays /\ UNCHANGED acts
  /\ AdvanceNext("spent", FALSE)

\* The buttons and keys for next and previous, under the overlay too.
Skip ==
  /\ Acts /\ Stays
  /\ nowPlaying # None
  /\ AdvanceNext(overlay, minimized) \/ AdvancePrev

\* Stop and exit.
Close ==
  /\ Acts
  /\ nowPlaying # None
  /\ Closes
  /\ eof' = FALSE
  /\ UNCHANGED autoPlay

\* A seek back from the end.
Rewind ==
  /\ Acts /\ Stays
  /\ file = "ended"
  /\ file' = "plays"
  /\ UNCHANGED <<nowPlaying, itemType, queue, populatedFor, populating,
                 neighbours, navFor, overlay, minimized, displaced>>

Minimize ==
  /\ Acts /\ Stays
  /\ nowPlaying # None /\ ~minimized
  /\ IF overlay = "shown"
       THEN OverlayIn(TRUE)
       ELSE /\ minimized' = TRUE
            /\ UNCHANGED <<nowPlaying, file, itemType, queue, populatedFor,
                           populating, neighbours, navFor, overlay, displaced>>

RestoreFromMinimize ==
  /\ minimized
  /\ minimized' = FALSE
  /\ Acts /\ Stays
  /\ UNCHANGED <<nowPlaying, file, itemType, queue, populatedFor, populating,
                 neighbours, navFor, overlay, displaced>>

ToggleAutoPlay ==
  /\ Acts
  /\ autoPlay' = ~autoPlay
  /\ UNCHANGED <<eof, nowPlaying, file, itemType, queue, populatedFor,
                 populating, neighbours, navFor, overlay, minimized,
                 displaced>>

-----------------------------------------------------------------------------
(* The queue panel                                                           *)

\* An edit of the queue.
Edits(q) ==
  /\ Acts /\ Stays
  /\ nowPlaying # None /\ ~minimized
  /\ queue' = q
  /\ UNCHANGED <<nowPlaying, file, itemType, populatedFor, populating,
                 neighbours, navFor, overlay, minimized>>

\* Mutant: the last entry is the current one, and its index stays.
RemoveFromQueueMutant(i) ==
  /\ LET items == RemoveAt(queue.items, i)
         at == IF i < queue.at THEN queue.at - 1 ELSE queue.at
     IN Edits([items |-> items, at |-> at, source |-> None,
               built |-> queue.built])
  /\ displaced' = (displaced \/ i = queue.at)

\* removeFromQueue, which drops the source.
RemoveFromQueue(i) ==
  /\ LET items == RemoveAt(queue.items, i)
         at == IF i < queue.at THEN queue.at - 1
               ELSE IF i = queue.at /\ i > Len(items) THEN Len(items)
               ELSE queue.at
     IN Edits([items |-> items, at |-> at, source |-> None,
               built |-> queue.built])
  /\ displaced' = (displaced \/ i = queue.at)

\* Mutant: the current entry moves, its index does not.
ReorderQueueMutant(from, to) ==
  /\ LET moved == InsertAt(RemoveAt(queue.items, from), to, queue.items[from])
         at == IF from < queue.at /\ to >= queue.at THEN queue.at - 1
               ELSE IF from > queue.at /\ to <= queue.at THEN queue.at + 1
               ELSE queue.at
     IN Edits([items |-> moved, at |-> at, source |-> None,
               built |-> queue.built])
  /\ UNCHANGED displaced

\* reorderQueue, which drops the source too.
ReorderQueue(from, to) ==
  /\ LET moved == InsertAt(RemoveAt(queue.items, from), to, queue.items[from])
         at == IF from = queue.at THEN to
               ELSE IF from < queue.at /\ to >= queue.at THEN queue.at - 1
               ELSE IF from > queue.at /\ to <= queue.at THEN queue.at + 1
               ELSE queue.at
     IN Edits([items |-> moved, at |-> at, source |-> None,
               built |-> queue.built])
  /\ UNCHANGED displaced

ClearQueue ==
  /\ queue.items # <<>>
  /\ Edits(EmptyQueue)
  /\ UNCHANGED displaced

\* A click on an entry: replaceRatingKey, and the queue stays.
Jump(i) ==
  /\ Acts /\ Stays
  /\ nowPlaying # None /\ ~minimized
  /\ MovesTo(queue.items[i], queue, overlay)
  /\ UNCHANGED minimized

Panel ==
  \/ \E i \in DOMAIN queue.items :
       \/ RemoveFromQueue(i) \/ Jump(i)
       \/ i > 1 /\ ReorderQueue(i, i - 1)
       \/ i < Len(queue.items) /\ ReorderQueue(i, i + 1)
  \/ ClearQueue

QueueNext ==
  \/ Prepared \/ ReachesEnd \/ Eof \/ PlayNow
  \/ \E key \in populating : Populated(key)
  \/ Navigated
  \/ \E key \in Keys : Play(key)
  \/ \E items \in PlayLists : PlayAll(items)
  \/ Skip \/ Close \/ Rewind \/ Minimize \/ RestoreFromMinimize \/ ToggleAutoPlay
  \/ Panel

QueueSpec == QueueInit /\ [][QueueNext]_queueVars

-----------------------------------------------------------------------------

(* The session's item and the queue's index are kept apart: when an episode  *)
(* plays that is in the queue, the queue is at its entry, whatever opened    *)
(* it and however the queue was edited; except after its own entry has been  *)
(* removed, after a season answered late, or when it was moved to itself.    *)
InStep ==
  file \in {"plays", "ended"} /\ nowPlaying \in Range(queue.items) \ Movies
    => displaced \/ AtItsEntry

(* At the end of an item with another entry after it in the queue, the user  *)
(* is shown the overlay or hears the next item, in the mini player too, and  *)
(* is never left with a black frame; with the same exceptions.               *)
NeverBlack ==
  file = "ended" /\ ~eof /\ HasEntryAfter => displaced \/ Screen

(* When an item ends that is the current entry of a queue Play All has       *)
(* built, and another one follows, PostPlay fires, whatever its type.        *)
PlayAllGoesOn ==
  file = "ended" /\ eof /\ queue.built /\ HasEntryAfter /\ AtItsEntry
    => HasNextItem
=============================================================================
