---------------------------- MODULE LibraryPages ------------------------------
(***************************************************************************)
(* The pages of a library view (src/hooks/usePaginatedLibrary.ts with      *)
(* library-range.ts over api-cache.ts): a sparse list of the selected      *)
(* section, filled by ranges as the user scrolls, or as a whole when a     *)
(* filter is active (LibraryView passes loadAll exactly then).             *)
(*                                                                         *)
(* The unit is a chunk: a selection has Size[k] chunks of items, and slot  *)
(* i of the list holds what the server has there, <<k, i>>, or nothing.    *)
(* Requests that are aborted have no effect and are dropped when they are. *)
(* The server's listing does not change and its batches are full;          *)
(* isLoadingMore, which no page reads, is left out.                        *)
(***************************************************************************)
EXTENDS Webview, Naturals, Sequences, FiniteSets

CONSTANTS Selections,           \* section, sort and filters together
          Filtered,                 \* the selections with an active filter
          ChunksOf,                 \* how many chunks each has
          LOAD_ALL_CONCURRENCY,
          BatchesFail,          \* a background batch may fail in this model
          MaxGen                \* bound: generations of one visit

ASSUME LibraryAssumption ==
    /\ Filtered \subseteq Selections /\ None \notin Selections
    /\ Selections # {}
    /\ ChunksOf \in [Selections -> Nat \ {0}]
    /\ LOAD_ALL_CONCURRENCY \in Nat \ {0}
    /\ MaxGen \in Nat \ {0}

VARIABLES selection,       \* the selection of the mounted view, or nothing
          generation,      \* generationRef
          listing,         \* the sparse list: a sequence of slots
          storeGeneration, \* storeGenerationRef
          listLoading,     \* isLoading
          listError,       \* error
          inFlight,        \* inFlightRef: the range requests that are not aborted
          loadedChunks,    \* loadedChunksRef
          fill,            \* the background fill of loadAll
          cachedFrame,     \* a cached list that waits for the next animation frame
          fromCache,       \* the effect's cleanup only cancels that frame
          leftBehind,      \* a range that answers a view that is left, merged
          listCache,       \* the api-cache's entry of each selection
          wanted,          \* history: the range the grid last reported
          failedChunks,    \* history: the chunks that failed since
          strayed          \* history: it reported one while an older list was shown

libraryVars == <<selection, generation, listing, storeGeneration, listLoading,
                 listError, inFlight, loadedChunks, fill, cachedFrame,
                 fromCache, leftBehind, listCache, wanted, failedChunks, strayed>>

viewVars == <<selection, generation, listing, storeGeneration, listLoading,
              listError, inFlight, loadedChunks, fill, cachedFrame, fromCache,
              wanted, failedChunks, strayed>>
aside == <<fromCache, leftBehind>>

EmptySlot == <<>>            \* an undefined slot
Chunk(k, i) == <<k, i>>

MaxChunks == CHOOSE n \in {ChunksOf[k] : k \in Selections} :
               \A k \in Selections : ChunksOf[k] <= n

\* A server's library is finite: one of its selections has the most chunks.
ASSUME ChunksAssumption ==
    \E n \in {ChunksOf[k] : k \in Selections} :
      \A k \in Selections : ChunksOf[k] <= n

NoFill == [stage |-> "none", busy |-> {}, ready |-> {}, cursor |-> 0,
         flushed |-> <<>>, stopped |-> FALSE]

-----------------------------------------------------------------------------
(* Lists *)

Present(list) == {i \in DOMAIN list : list[i] # EmptySlot}

\* mergeChunk: the chunks of batch from slot i on, in a list of n slots.
MergeChunk(list, i, batch, n) ==
    [j \in 1..n |->
        IF j - i + 1 \in DOMAIN batch THEN batch[j - i + 1]
        ELSE IF j \in DOMAIN list THEN list[j] ELSE EmptySlot]

\* Mutant: the list of an earlier generation is kept.
StoreBaseAlways(g) == listing

\* The list that chunk i of k becomes part of: that of an earlier generation
\* is replaced.
StoreBase(g) == IF storeGeneration = g THEN listing ELSE <<>>

-----------------------------------------------------------------------------
(* Selecting *)

\* The effect of a new selection, or of a retry: everything of the last
\* generation is aborted, and the list is filled from the cache, as a whole
\* or from its first chunk.
StartGeneration(k, stored) ==
    /\ generation' = generation + 1
    /\ loadedChunks' = {} /\ wanted' = {} /\ failedChunks' = {}
    /\ listError' = FALSE
    /\ strayed' = FALSE
    /\ fromCache' = (stored[k] # None)
    /\ IF stored[k] # None
       THEN /\ cachedFrame' = [gen |-> generation + 1, list |-> stored[k]]
            /\ inFlight' = {} /\ fill' = NoFill
            /\ UNCHANGED listLoading
       ELSE /\ cachedFrame' = None
            /\ listLoading' = TRUE
            /\ IF k \in Filtered
               THEN inFlight' = {} /\ fill' = [NoFill EXCEPT !.stage = "first"]
               ELSE /\ inFlight' = {[key |-> k, at |-> 1, gen |-> generation + 1]}
                    /\ fill' = NoFill

\* The view is mounted with nothing but the cache.
OpenLibrary(k) ==
    /\ selection = None
    /\ selection' = k
    /\ generation' = 1
    /\ listing' = <<>> /\ storeGeneration' = 0
    /\ loadedChunks' = {} /\ wanted' = {} /\ failedChunks' = {}
    /\ listError' = FALSE
    /\ strayed' = FALSE
    /\ listLoading' = TRUE
    /\ fromCache' = (listCache[k] # None)
    /\ cachedFrame' = IF listCache[k] # None
                      THEN [gen |-> 1, list |-> listCache[k]] ELSE None
    /\ inFlight' = IF listCache[k] = None /\ k \notin Filtered
                   THEN {[key |-> k, at |-> 1, gen |-> 1]} ELSE {}
    /\ fill' = IF listCache[k] = None /\ k \in Filtered
               THEN [NoFill EXCEPT !.stage = "first"] ELSE NoFill
    /\ UNCHANGED <<leftBehind, listCache>>

SelectOther(k) ==
    /\ selection \notin {None, k}
    /\ generation < MaxGen
    /\ selection' = k
    /\ StartGeneration(k, listCache)
    /\ UNCHANGED <<listing, storeGeneration, leftBehind, listCache>>

\* retry forgets the cached list first.
RetryListing ==
    /\ selection # None
    /\ generation < MaxGen
    /\ listCache' = [listCache EXCEPT ![selection] = None]
    /\ StartGeneration(selection, listCache')
    /\ UNCHANGED <<selection, listing, storeGeneration, leftBehind>>

\* The list with what answers request f.
Merged(f) ==
    MergeChunk(StoreBase(generation), f.at,
               IF f.at <= ChunksOf[f.key] THEN <<Chunk(f.key, f.at)>> ELSE <<>>,
               ChunksOf[f.key])

\* The user leaves the page: what was asked for is aborted, unless the list came
\* from the cache.  Of the ranges that are not, one may still matter: React
\* evaluates at most the first update of a view that is gone.
LeaveLibrary ==
    /\ selection # None
    /\ leftBehind' \in {leftBehind} \cup
          IF fromCache THEN {[key |-> f.key, list |-> Merged(f)] : f \in inFlight} ELSE {}
    /\ fromCache' = FALSE
    /\ selection' = None
    /\ generation' = 0 /\ storeGeneration' = 0 /\ listing' = <<>>
    /\ listLoading' = TRUE /\ listError' = FALSE
    /\ inFlight' = {} /\ loadedChunks' = {} /\ fill' = NoFill /\ cachedFrame' = None
    /\ wanted' = {} /\ failedChunks' = {} /\ strayed' = FALSE
    /\ UNCHANGED listCache

\* A cached list is shown one animation frame later, if it is still of this
\* generation.
ApplyFrame ==
    /\ cachedFrame # None
    /\ cachedFrame' = None
    /\ IF cachedFrame.gen # generation
       THEN UNCHANGED <<listing, storeGeneration, listLoading, loadedChunks>>
       ELSE /\ listing' = cachedFrame.list
            /\ storeGeneration' = generation
            /\ listLoading' = FALSE
            /\ loadedChunks' = loadedChunks \cup Present(cachedFrame.list)
    /\ UNCHANGED <<aside, selection, generation, listError, inFlight, fill, listCache,
                   wanted, failedChunks, strayed>>

ExpireListing(k) ==
    /\ listCache[k] # None
    /\ listCache' = [listCache EXCEPT ![k] = None]
    /\ UNCHANGED <<viewVars, leftBehind>>

\* The range is merged all the same, into the cache.
LeftBehindArrives ==
    /\ leftBehind # None
    /\ listCache' = [listCache EXCEPT ![leftBehind.key] = leftBehind.list]
    /\ leftBehind' = None
    /\ UNCHANGED viewVars

-----------------------------------------------------------------------------
(* Ranges *)

\* Mutant: a slot of the list counts, whether or not it holds an item.
HasItemsMutant(i) == i \in DOMAIN listing

\* Chunk i is there without having been fetched: it came from the cache.
HasItems(i) == listing[i] # EmptySlot

\* The grid reports a visible range, with its overscan the slots lo..hi: what
\* is in flight outside of it is aborted, what is missing in it is asked for.
EnsureRange(lo, hi) ==
    LET needed  == lo..(IF hi > Len(listing) THEN Len(listing) ELSE hi)
        kept    == {f \in inFlight : f.at \in needed}
        known   == loadedChunks \cup {f.at : f \in kept}
        already == {i \in needed \ known : HasItems(i)}
    IN /\ selection # None /\ selection \notin Filtered
       /\ lo \in DOMAIN listing
       /\ loadedChunks' = loadedChunks \cup already
       /\ inFlight' = kept \cup {[key |-> selection, at |-> i, gen |-> generation] :
                                     i \in needed \ (known \cup already)}
       /\ wanted' = needed
       /\ failedChunks' = failedChunks \ needed
       /\ strayed' = (strayed \/ storeGeneration # generation)
       /\ UNCHANGED <<aside, selection, generation, listing, storeGeneration,
                      listLoading, listError, fill, cachedFrame, listCache>>

ChunkArrives(f) ==
    /\ f \in inFlight
    /\ IF f.gen # generation
       THEN UNCHANGED <<listing, storeGeneration, listLoading, inFlight,
                        loadedChunks, listCache>>
       ELSE /\ inFlight' = inFlight \ {f}
            /\ loadedChunks' = loadedChunks \cup {f.at}
            /\ listing' = Merged(f)
            /\ storeGeneration' = generation
            /\ listCache' = [listCache EXCEPT ![f.key] = listing']
            /\ listLoading' = FALSE
    /\ UNCHANGED <<aside, selection, generation, listError, fill, cachedFrame, wanted,
                   failedChunks, strayed>>

\* Mutant: a failed request leaves the view loading.
ChunkFailsMutant(f) ==
    /\ f \in inFlight
    /\ inFlight' = inFlight \ {f}
    /\ failedChunks' = failedChunks \cup {f.at}
    /\ UNCHANGED <<aside, selection, generation, listing, storeGeneration,
                   listLoading, listError, loadedChunks, fill, cachedFrame,
                   listCache, wanted, strayed>>

ChunkFails(f) ==
    /\ f \in inFlight
    /\ inFlight' = inFlight \ {f}
    /\ failedChunks' = failedChunks \cup {f.at}
    /\ IF f.gen = generation THEN listError' = TRUE /\ listLoading' = FALSE
       ELSE UNCHANGED <<listError, listLoading>>
    /\ UNCHANGED <<aside, selection, generation, listing, storeGeneration,
                   loadedChunks, fill, cachedFrame, listCache, wanted,
                   strayed>>

-----------------------------------------------------------------------------
(* loadAll *)

\* The workers of a fill that begins at slot 2 take one batch each.
FillWorkers == 2..(IF LOAD_ALL_CONCURRENCY < ChunksOf[selection] - 1
               THEN LOAD_ALL_CONCURRENCY + 1 ELSE ChunksOf[selection])

FirstArrives ==
    /\ fill.stage = "first"
    /\ listing' = MergeChunk(<<>>, 1, <<Chunk(selection, 1)>>, ChunksOf[selection])
    /\ storeGeneration' = generation
    /\ listLoading' = FALSE
    /\ listCache' = [listCache EXCEPT ![selection] = listing']
    /\ fill' = IF ChunksOf[selection] = 1 THEN NoFill
               ELSE [NoFill EXCEPT !.stage = "rest", !.busy = FillWorkers,
                                 !.cursor = Cardinality(FillWorkers) + 2]
    /\ UNCHANGED <<aside, selection, generation, listError, inFlight, loadedChunks,
                   cachedFrame, wanted, failedChunks, strayed>>

FirstFails ==
    /\ fill.stage = "first"
    /\ listError' = TRUE /\ listLoading' = FALSE
    /\ fill' = NoFill
    /\ UNCHANGED <<aside, selection, generation, listing, storeGeneration, inFlight,
                   loadedChunks, cachedFrame, listCache, wanted, failedChunks,
                   strayed>>

\* tryFlush: the batches that follow what is flushed without a gap; the first
\* after it is at slot Len(flushed) + 2.
Flushable(f) ==
    LET next == Len(f.flushed) + 2
    IN {i \in f.ready : \A j \in next..i : j \in f.ready}

Flush(f) ==
    [f EXCEPT !.flushed = @ \o [n \in 1..Cardinality(Flushable(f)) |->
                                    Chunk(selection, Len(f.flushed) + 1 + n)],
              !.ready = @ \ Flushable(f)]

\* The worker that fetched batch i goes on to the next one.
NextBatch(f, i) ==
    IF f.stopped \/ f.cursor > ChunksOf[selection]
    THEN [f EXCEPT !.busy = @ \ {i}]
    ELSE [f EXCEPT !.busy = (@ \ {i}) \cup {f.cursor}, !.cursor = @ + 1]

\* The first page, and behind it what is flushed.
FirstPage == MergeChunk(<<>>, 1, <<Chunk(selection, 1)>>, ChunksOf[selection])
Filled(f) == MergeChunk(FirstPage, 2, f.flushed, ChunksOf[selection])

BatchArrives(i) ==
    /\ fill.stage = "rest" /\ i \in fill.busy
    /\ LET got == Flush([fill EXCEPT !.ready = @ \cup {i}])
       IN /\ fill' = NextBatch(got, i)
          /\ listing' = IF got.flushed # fill.flushed THEN Filled(got) ELSE listing
    /\ UNCHANGED <<aside, selection, generation, storeGeneration, listLoading,
                   listError, inFlight, loadedChunks, cachedFrame, listCache,
                   wanted, failedChunks, strayed>>

BatchFails(i) ==
    /\ BatchesFail
    /\ fill.stage = "rest" /\ i \in fill.busy
    /\ fill' = [fill EXCEPT !.busy = @ \ {i}, !.stopped = TRUE]
    /\ UNCHANGED <<aside, selection, generation, listing, storeGeneration,
                   listLoading, listError, inFlight, loadedChunks, cachedFrame,
                   listCache, wanted, failedChunks, strayed>>

\* All workers have returned: what has been flushed is cached.
FillEnds ==
    /\ fill.stage = "rest" /\ fill.busy = {}
    /\ listing' = Filled(fill)
    /\ listCache' = [listCache EXCEPT ![selection] = listing']
    /\ listLoading' = FALSE
    /\ fill' = NoFill
    /\ UNCHANGED <<aside, selection, generation, storeGeneration, listError, inFlight,
                   loadedChunks, cachedFrame, wanted, failedChunks, strayed>>

-----------------------------------------------------------------------------
LibraryInit ==
    /\ selection = None /\ generation = 0 /\ listing = <<>> /\ storeGeneration = 0
    /\ listLoading = TRUE /\ listError = FALSE
    /\ inFlight = {} /\ loadedChunks = {} /\ fill = NoFill /\ cachedFrame = None
    /\ fromCache = FALSE /\ leftBehind = None
    /\ listCache = [k \in Selections |-> None]
    /\ wanted = {} /\ failedChunks = {} /\ strayed = FALSE

\* What the network and the browser do.
LibraryProgress ==
    \/ ApplyFrame
    \/ \E f \in inFlight : ChunkArrives(f) \/ ChunkFails(f)
    \/ FirstArrives \/ FirstFails
    \/ \E i \in 2..MaxChunks : BatchArrives(i) \/ BatchFails(i)
    \/ FillEnds

\* What the user and the clock do, and React for a view that is gone.
LibraryVisitor ==
    \/ \E k \in Selections : OpenLibrary(k) \/ SelectOther(k) \/ ExpireListing(k)
    \/ RetryListing \/ LeaveLibrary \/ LeftBehindArrives
    \/ \E lo, hi \in 1..MaxChunks : lo <= hi /\ EnsureRange(lo, hi)

LibraryNext == LibraryProgress \/ LibraryVisitor

LibrarySpec == LibraryInit /\ [][LibraryNext]_libraryVars

\* Requests are answered or fail, and a visible page gets animation frames.
FairLibrary == LibrarySpec /\ WF_libraryVars(LibraryProgress)

-----------------------------------------------------------------------------
(* Properties *)

ListSlots == {EmptySlot} \cup {Chunk(k, i) : k \in Selections, i \in 1..MaxChunks}
Listings == UNION {[1..n -> ListSlots] : n \in 0..MaxChunks}

\* Every variable has its type (usePaginatedLibrary's state and refs).
LibraryTypeOK ==
    /\ selection \in Selections \cup {None}
    /\ generation \in 0..MaxGen /\ storeGeneration \in 0..MaxGen
    /\ listing \in Listings
    /\ listLoading \in BOOLEAN /\ listError \in BOOLEAN
    /\ inFlight \subseteq [key : Selections, at : 1..MaxChunks, gen : 1..MaxGen]
    /\ loadedChunks \subseteq 1..MaxChunks
    /\ fromCache \in BOOLEAN
    /\ leftBehind = None \/ leftBehind \in [key : Selections, list : Listings]
    /\ \A k \in Selections : listCache[k] \in Listings \cup {None}
    /\ wanted \subseteq 1..MaxChunks /\ failedChunks \subseteq 1..MaxChunks

\* A list of chunks of selection k, each at its own place.
ListOf(list, k) ==
    \A i \in Present(list) : list[i] = Chunk(k, i)

\* No list is spliced from two selections and none is out of order, on the
\* screen or in the cache, whatever order the answers of ranges, batches and
\* cached frames of several generations arrive in; and a list of the present
\* generation is one of the present selection.
NoSplice ==
    /\ \A k \in Selections : listCache[k] # None => ListOf(listCache[k], k)
    /\ \E k \in Selections : ListOf(listing, k)
    /\ (selection # None /\ storeGeneration = generation) => ListOf(listing, selection)

\* What the grid last asked for is never forgotten: every slot of the range
\* is in the list, on its way or has failed since, through aborts, repeated
\* reports, cached lists and chunks of any order.  The exception is a range
\* reported while the list of an earlier selection was still shown.
WantedAccounted ==
    (selection # None /\ ~strayed)
        => wanted \subseteq Present(listing) \cup failedChunks
                            \cup {f.at : f \in inFlight}

\* The view settles on the selection of this moment: it stops loading, and
\* shows that selection or an error.
ListSettled ==
    /\ ~listLoading
    /\ listError \/ (storeGeneration = generation /\ ListOf(listing, selection))

\* It does, unless the user leaves, or has scrolled in the list of the
\* selection before.  (A visit has at most MaxGen selections.)
SettlesUndisturbed ==
    (selection # None /\ ~ListSettled) ~> (selection = None \/ strayed \/ ListSettled)
=============================================================================
