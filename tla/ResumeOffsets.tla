--------------------------- MODULE ResumeOffsets ------------------------------
(***************************************************************************)
(* The resume offset of one item, from the player that reports it to the   *)
(* places that show it: the deck (src/hooks/useDashboard.ts) and the       *)
(* detail page (useItemDetailData.ts) over their caches (api-cache.ts),    *)
(* with the optimistic patch and the floor of cache-invalidators.ts.       *)
(*                                                                         *)
(* The server acknowledges a write before what it answers reflects it      *)
(* (written, listed).  A request is asked, answered with what is listed    *)
(* then, and arrives later.                                                *)
(***************************************************************************)
EXTENDS Webview, Naturals, FiniteSets

CONSTANTS MaxOffset,   \* offsets are 0..MaxOffset
          MaxSweeps    \* bound: stops whose deck sweep is still to come

ASSUME ResumeAssumption ==
    /\ MaxOffset \in Nat /\ MaxSweeps \in Nat
    /\ None \notin 0..MaxOffset
    /\ None \notin [offset : 0..MaxOffset, reset : BOOLEAN]
    /\ None \notin [answer : 0..MaxOffset \cup {None}]

VARIABLES written,   \* the server's record of the offset
          listed,    \* what its answers say
          stopping,  \* a stop the server has written, not yet acknowledged
          playing,   \* the player plays the item
          floor,     \* offsetFloors: [offset, reset] or nothing
          sweeps,    \* the timers of the delayed deck invalidation
          deckMem,   deckDisk, \* the deck's cache entry and its localStorage copy
          dashboard, \* the dashboard is mounted
          deckView,  \* onDeck, as far as this item goes
          deckFetch, \* fetchDeck under way
          deckTimer, \* deckRefreshTimerRef
          bundle,    \* the item-detail cache entry
          page,      \* the detail page of the item is open
          pageView,  \* its item
          pageFetch, \* its fetchDetailBundle under way
          warmFetch, \* a prefetch of the bundle under way
          reported,  \* history: the offset of the last stop the client
                     \* heard of, if the item has not been played since
          ahead      \* history: it was a reset, or no answer that the server
                     \* could still give or has given lies beyond it

deckVars == <<deckMem, deckDisk, dashboard, deckView, deckFetch, deckTimer>>
pageVars == <<bundle, page, pageView, pageFetch, warmFetch>>
playVars == <<written, listed, stopping, playing, reported, ahead>>
resumeVars == <<playVars, floor, sweeps, deckVars, pageVars>>

Offsets == 0..MaxOffset
Asked == [answer |-> None]          \* a request that is not answered yet
Requests == {deckFetch, pageFetch, warmFetch} \ {None}

-----------------------------------------------------------------------------
(* The floor *)

\* Mutant: the larger offset wins, whatever it was that the player reported.
FlooredMutant(answer) ==
    IF floor = None THEN answer
    ELSE IF floor.offset > answer THEN floor.offset
    ELSE answer

\* applyOffsetFloors, for an answer that has arrived.
Floored(answer) ==
    IF floor = None THEN answer
    ELSE IF floor.reset \/ floor.offset > answer THEN floor.offset
    ELSE answer

\* A listing has no more to say than the last write.
StaleAnswers == {listed} \cup {r.answer : r \in Requests \ {Asked}}

\* The window of a floor (DECK_INVALIDATION_DELAY_MS and 5 s) passes.  It is
\* sized so that by then the sweeps have run, the server lists the write, and
\* what it answered before has arrived: the model assumes it, unless the item
\* is played again.
FloorExpires ==
    /\ floor # None
    /\ \/ playing \/ stopping # None
       \/ sweeps = 0 /\ ~deckTimer /\ StaleAnswers = {written}
    /\ floor' = None
    /\ UNCHANGED <<playVars, sweeps, deckVars, pageVars>>

-----------------------------------------------------------------------------
(* The player *)

\* The history of the last stop ends.
Forget == reported' = None /\ ahead' = FALSE

\* A timeline report during playback.
PlayTo(o) ==
    /\ stopping = None
    /\ playing' = TRUE
    /\ written' = o
    /\ Forget
    /\ UNCHANGED <<listed, stopping, floor, sweeps, deckVars, pageVars>>

\* reportStopped: the server records the offset, or clears the marker of an
\* item that was stopped early.
StopAt(o, reset) ==
    /\ playing
    /\ reset => o = 0
    /\ playing' = FALSE
    /\ written' = o
    /\ stopping' = [offset |-> o, reset |-> reset]
    /\ UNCHANGED <<listed, reported, ahead, floor, sweeps, deckVars, pageVars>>

\* An early stop of an item that was watched before, or a stop before the
\* duration is known: the server records nothing and nobody is told.
StopUnreported ==
    /\ playing
    /\ playing' = FALSE
    /\ UNCHANGED <<written, listed, stopping, reported, ahead, floor, sweeps,
                   deckVars, pageVars>>

\* The listeners of emitWatchStateChanged, in the order they subscribed: the
\* invalidator registers the floor, patches the entries in memory and
\* schedules the sweep; the dashboard and the page patch what they show.
StopAcknowledged ==
    /\ stopping # None
    /\ sweeps < MaxSweeps
    /\ LET o == stopping.offset
       IN /\ floor' = stopping
          /\ deckMem' = IF deckMem = None THEN None ELSE o
          /\ bundle' = IF bundle = None THEN None ELSE o
          /\ deckView' = IF deckView = None THEN None ELSE o
          /\ pageView' = IF pageView = None THEN None ELSE o
          /\ reported' = o
          /\ ahead' = (stopping.reset \/ \A v \in StaleAnswers : v <= o)
    /\ sweeps' = sweeps + 1
    /\ deckTimer' = dashboard
    /\ stopping' = None
    /\ UNCHANGED <<written, listed, playing, deckDisk, dashboard, deckFetch,
                   page, pageFetch, warmFetch>>

\* The answer to the stop is lost: nobody is told.
StopLost ==
    /\ stopping # None
    /\ stopping' = None
    /\ UNCHANGED <<written, listed, playing, reported, ahead, floor, sweeps,
                   deckVars, pageVars>>

\* The server's answers catch up with its record.
Ingest ==
    /\ listed' = written
    /\ UNCHANGED <<written, stopping, playing, reported, ahead, floor, sweeps,
                   deckVars, pageVars>>

-----------------------------------------------------------------------------
(* The deck *)

\* The deck effect: show what is cached, and ask unless it is fresh.
DeckEffect(mem, fresh) ==
    /\ deckView' = IF mem # None THEN mem ELSE deckView
    /\ deckFetch' = IF mem # None /\ fresh THEN None ELSE Asked

\* cacheGet: memory, or the copy on the disk, which memory takes over.
OpenDashboard(fresh) ==
    LET mem == IF deckMem # None THEN deckMem ELSE deckDisk
    IN /\ ~dashboard
       /\ dashboard' = TRUE
       /\ deckMem' = mem
       /\ DeckEffect(mem, fresh)
       /\ UNCHANGED <<playVars, floor, sweeps, deckDisk, deckTimer, pageVars>>

CloseDashboard ==
    /\ dashboard
    /\ dashboard' = FALSE
    /\ deckView' = None /\ deckFetch' = None /\ deckTimer' = FALSE
    /\ UNCHANGED <<playVars, floor, sweeps, deckMem, deckDisk, pageVars>>

\* refresh("deck"), by the timer of a stop or by anybody else.
RefreshDeck(timer) ==
    /\ dashboard
    /\ timer => deckTimer /\ sweeps = 0
    /\ deckTimer' = (deckTimer /\ ~timer)
    /\ deckMem' = None /\ deckDisk' = None
    /\ DeckEffect(None, FALSE)
    /\ UNCHANGED <<playVars, floor, sweeps, dashboard, pageVars>>

DeckArrives ==
    /\ deckFetch # None /\ deckFetch # Asked
    /\ deckView' = Floored(deckFetch.answer)
    /\ deckMem' = deckView' /\ deckDisk' = deckView'
    /\ deckFetch' = None
    /\ UNCHANGED <<playVars, floor, sweeps, dashboard, deckTimer, pageVars>>

\* invalidateDeckCaches, DECK_INVALIDATION_DELAY_MS after a stop.
SweepDeck ==
    /\ sweeps > 0
    /\ sweeps' = sweeps - 1
    /\ deckMem' = None /\ deckDisk' = None
    /\ UNCHANGED <<playVars, floor, dashboard, deckView, deckFetch, deckTimer,
                   pageVars>>

-----------------------------------------------------------------------------
(* The detail page *)

OpenPage(stale) ==
    /\ ~page
    /\ page' = TRUE
    /\ pageView' = bundle
    /\ pageFetch' = IF bundle # None /\ ~stale THEN None ELSE Asked
    /\ UNCHANGED <<playVars, floor, sweeps, deckVars, bundle, warmFetch>>

ClosePage ==
    /\ page
    /\ page' = FALSE /\ pageView' = None /\ pageFetch' = None
    /\ UNCHANGED <<playVars, floor, sweeps, deckVars, bundle, warmFetch>>

PageArrives ==
    /\ pageFetch # None /\ pageFetch # Asked
    /\ bundle' = Floored(pageFetch.answer)
    /\ pageView' = bundle'
    /\ pageFetch' = None
    /\ UNCHANGED <<playVars, floor, sweeps, deckVars, page, warmFetch>>

\* warmItemDetailCache, when there is no fresh bundle: somewhere else than on
\* the page, whose shelves leave the item out.
WarmBundle ==
    /\ warmFetch = None /\ ~page
    /\ warmFetch' = Asked
    /\ UNCHANGED <<playVars, floor, sweeps, deckVars, bundle, page, pageView,
                   pageFetch>>

WarmBundleArrives ==
    /\ warmFetch # None /\ warmFetch # Asked
    /\ bundle' = Floored(warmFetch.answer)
    /\ warmFetch' = None
    /\ UNCHANGED <<playVars, floor, sweeps, deckVars, page, pageView,
                   pageFetch>>

-----------------------------------------------------------------------------
(* Requests, and restarts *)

Answer ==
    /\ \/ /\ deckFetch = Asked /\ deckFetch' = [answer |-> listed]
          /\ UNCHANGED <<pageFetch, warmFetch>>
       \/ /\ pageFetch = Asked /\ pageFetch' = [answer |-> listed]
          /\ UNCHANGED <<deckFetch, warmFetch>>
       \/ /\ warmFetch = Asked /\ warmFetch' = [answer |-> listed]
          /\ UNCHANGED <<deckFetch, pageFetch>>
    /\ UNCHANGED <<playVars, floor, sweeps, deckMem, deckDisk, dashboard,
                   deckView, deckTimer, bundle, page, pageView>>

\* A request fails: what is shown and cached stays.
RequestFails ==
    /\ \/ deckFetch # None /\ deckFetch' = None /\ UNCHANGED <<pageFetch,
                                                               warmFetch>>
       \/ pageFetch # None /\ pageFetch' = None /\ UNCHANGED <<deckFetch,
                                                               warmFetch>>
       \/ warmFetch # None /\ warmFetch' = None /\ UNCHANGED <<deckFetch,
                                                               pageFetch>>
    /\ UNCHANGED <<playVars, floor, sweeps, deckMem, deckDisk, dashboard,
                   deckView, deckTimer, bundle, page, pageView>>

\* The application ends and starts again, with the dashboard: the deck's copy
\* on the disk is all that is left, whatever was reported since it was made.
Restart(fresh) ==
    /\ playing' = FALSE /\ stopping' = None
    /\ floor' = None /\ sweeps' = 0
    /\ deckMem' = deckDisk /\ dashboard' = TRUE /\ deckTimer' = FALSE
    /\ deckView' = deckDisk
    /\ deckFetch' = IF deckDisk # None /\ fresh THEN None ELSE Asked
    /\ bundle' = None /\ page' = FALSE /\ pageView' = None
    /\ pageFetch' = None /\ warmFetch' = None
    /\ IF floor = None THEN UNCHANGED <<reported, ahead>> ELSE Forget
    /\ UNCHANGED <<written, listed, deckDisk>>

\* The TTL of the deck's entry passes, of both copies.
ExpireDeck ==
    /\ deckMem # None \/ deckDisk # None
    /\ deckMem' = None /\ deckDisk' = None
    /\ UNCHANGED <<playVars, floor, sweeps, dashboard, deckView, deckFetch,
                   deckTimer, pageVars>>

ResumeInit ==
    /\ written = 0 /\ listed = 0
    /\ stopping = None /\ playing = FALSE
    /\ reported = None /\ ahead = FALSE
    /\ floor = None /\ sweeps = 0
    /\ deckMem = None /\ deckDisk = None
    /\ dashboard = FALSE /\ deckView = None /\ deckFetch = None
    /\ deckTimer = FALSE
    /\ bundle = None /\ page = FALSE /\ pageView = None
    /\ pageFetch = None /\ warmFetch = None

ResumeNext ==
    \/ \E o \in Offsets : PlayTo(o) \/ \E reset \in BOOLEAN : StopAt(o, reset)
    \/ StopUnreported \/ StopAcknowledged \/ StopLost
    \/ Ingest \/ FloorExpires
    \/ \E b \in BOOLEAN : OpenDashboard(b) \/ RefreshDeck(b) \/ OpenPage(b)
                         \/ Restart(b)
    \/ CloseDashboard \/ DeckArrives \/ SweepDeck \/ ExpireDeck
    \/ ClosePage \/ PageArrives \/ WarmBundle \/ WarmBundleArrives
    \/ Answer \/ RequestFails

ResumeSpec == ResumeInit /\ [][ResumeNext]_resumeVars

-----------------------------------------------------------------------------
(* Properties *)

\* Every variable has its type.
ResumeTypeOK ==
    /\ {written, listed} \subseteq Offsets
    /\ {deckMem, deckDisk, deckView, bundle, pageView, reported}
          \subseteq Offsets \cup {None}
    /\ {stopping, floor} \subseteq [offset : Offsets, reset : BOOLEAN] \cup {None}
    /\ Requests \subseteq [answer : Offsets \cup {None}]
    /\ {playing, dashboard, page, deckTimer, ahead} \subseteq BOOLEAN
    /\ sweeps \in 0..MaxSweeps

\* Whatever the item's resume offset is shown by, or will be taken from, it
\* is the one the player last reported: no answer that the server gave before
\* it had ingested the stop, and no entry cached before, brings an older one
\* back, on the deck, on the page or in a cache.  The copy on the disk follows
\* when the sweeps have run.  (A stop after a seek backwards is not ahead of
\* what was listed, and the larger offset wins there.)
ShownIsReported ==
    (reported # None /\ ahead)
        => /\ {deckMem, deckView, bundle, pageView} \subseteq {None, reported}
           /\ sweeps = 0 => deckDisk \in {None, reported}
=============================================================================
