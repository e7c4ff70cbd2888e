--------------------------- MODULE SettlesProofs ----------------------------
(***************************************************************************)
(* Theorems about the parts of the webview that MCSettles runs one by one. *)
(***************************************************************************)
EXTENDS MCSettles, SequenceTheorems, FiniteSetTheorems, TLAPS

-----------------------------------------------------------------------------
(* LibraryPages: a view forgets nothing the grid has asked for and mixes no*)
(* two selections, for any selections, sizes and number of generations.    *)

\* A list with a slot for each chunk of selection k.
Sized(list, k) == list = [j \in 1..ChunksOf[k] |-> list[j]]

\* Unfiltered: ranges are requested, and there is no fill.
Ranged == selection \in Selections \ Filtered

\* The list shown is one of the present generation.
Current == storeGeneration = generation

\* Generations go up, and what is under way is of the present one.
Fresh ==
    /\ selection \in Selections \cup {None}
    /\ generation \in Nat /\ storeGeneration \in Nat
    /\ storeGeneration <= generation
    /\ selection # None => generation > 0
    /\ \A f \in inFlight : f.key = selection /\ f.gen = generation
    /\ inFlight # {} => Ranged
    /\ fill.stage # "none" => selection \in Filtered
    /\ ~Ranged => wanted = {}

\* Lists that ranges are merged into have the size of their selection.
Sizes ==
    /\ listCache = [k \in Selections |-> listCache[k]]
    /\ \A k \in Selections \ Filtered :
          listCache[k] # None => Sized(listCache[k], k)
    /\ Ranged /\ cachedFrame # None => /\ cachedFrame.gen = generation
                                       /\ Sized(cachedFrame.list, selection)
    /\ Ranged /\ Current => Sized(listing, selection)
    /\ leftBehind # None => /\ leftBehind.key \in Selections
                            /\ Sized(leftBehind.list, leftBehind.key)

\* A cached list is shown before a range is requested, so that nothing it
\* could overwrite has been fetched; and what counts as loaded is there.
Accounts ==
    Ranged /\ ~strayed =>
        /\ \A f \in inFlight : f.at \in 1..ChunksOf[selection]
        /\ cachedFrame # None => inFlight = {} /\ loadedChunks = {} /\ ~Current
        /\ Current => loadedChunks \subseteq Present(listing)
        /\ ~Current => loadedChunks = {} /\ wanted = {}
        /\ wanted \subseteq Present(listing) \cup failedChunks
                                \cup {f.at : f \in inFlight}

\* The inductive invariant.
LInv == Fresh /\ Sizes /\ Accounts

-----------------------------------------------------------------------------
(* Lists *)

LEMMA SizedLength ==
    ASSUME NEW k \in Selections, NEW list, Sized(list, k)
    PROVE  Len(list) = ChunksOf[k] /\ DOMAIN list = 1..ChunksOf[k]
<1> DEFINE n == ChunksOf[k]
           S == {list[j] : j \in 1..n}
<1>1. n \in Nat
  BY LibraryAssumption
<1>2. DOMAIN list = 1..n
  BY DEF Sized
<1>3. list \in [1..n -> S]
  BY DEF Sized
<1>4. list \in Seq(S)
  BY <1>1, <1>3, SeqDef
<1>5. Len(list) \in Nat /\ DOMAIN list = 1..Len(list)
  BY <1>4, LenProperties
<1>. QED  BY <1>1, <1>2, <1>5

\* Merging makes a list of the size asked for.
LEMMA MergedSized ==
    ASSUME NEW k \in Selections, NEW list, NEW i, NEW batch
    PROVE  Sized(MergeChunk(list, i, batch, ChunksOf[k]), k)
BY DEF Sized, MergeChunk

\* A merged chunk is there.
LEMMA MergedThere ==
    ASSUME NEW k \in Selections, NEW list, NEW i \in 1..ChunksOf[k]
    PROVE  LET m == MergeChunk(list, i, <<Chunk(k, i)>>, ChunksOf[k])
           IN /\ i \in Present(m)
              /\ Sized(list, k) => Present(list) \subseteq Present(m)
<1> DEFINE batch == <<Chunk(k, i)>>
           m == MergeChunk(list, i, batch, ChunksOf[k])
<1>1. /\ DOMAIN m = 1..ChunksOf[k]
      /\ \A j \in 1..ChunksOf[k] :
            m[j] = IF j - i + 1 \in DOMAIN batch THEN batch[j - i + 1]
                   ELSE IF j \in DOMAIN list THEN list[j] ELSE EmptySlot
  BY DEF MergeChunk
<1>2. ChunksOf[k] \in Nat /\ DOMAIN batch = {1} /\ batch[1] = Chunk(k, i)
  BY LibraryAssumption
<1> HIDE DEF batch, m
<1>3. i \in Present(m)
  <2>1. i - i + 1 = 1
    BY <1>2
  <2>2. m[i] = Chunk(k, i)
    BY <1>1, <1>2, <2>1
  <2>. QED  BY <1>1, <2>2 DEF Present, Chunk, EmptySlot
<1>4. ASSUME Sized(list, k), NEW j \in Present(list), j # i
      PROVE  j \in Present(m)
  <2>1. DOMAIN list = 1..ChunksOf[k]
    BY <1>4 DEF Sized
  <2>2. j \in 1..ChunksOf[k] /\ j \in DOMAIN list /\ list[j] # EmptySlot
    BY <1>4, <2>1 DEF Present
  <2>3. j - i + 1 \notin DOMAIN batch
    BY <1>2, <1>4, <2>2
  <2>4. m[j] = list[j]
    BY <1>1, <2>2, <2>3
  <2>. QED  BY <1>1, <2>2, <2>4 DEF Present
<1>. QED  BY <1>3, <1>4 DEF batch, m

-----------------------------------------------------------------------------
(* Selecting *)

LEMMA LibraryInitially == LibraryInit => LInv
BY LibraryAssumption DEF LibraryInit, LInv, Fresh, Sizes, Accounts, Ranged,
                         Current, NoFill

\* What the cache holds of an unfiltered selection has its size.
CacheSized(cache) ==
    /\ cache = [k \in Selections |-> cache[k]]
    /\ \A k \in Selections \ Filtered : cache[k] # None => Sized(cache[k], k)

\* A generation begins with nothing under way but its own, if its selection
\* is one of the model's.
LEMMA Begins ==
    ASSUME LInv, NEW k \in Selections, selection # None, selection' = k,
           CacheSized(listCache'), StartGeneration(k, listCache'),
           UNCHANGED <<listing, storeGeneration, leftBehind>>
    PROVE  LInv'
<1> DEFINE first == [key |-> k, at |-> 1, gen |-> generation + 1]
<1>1. /\ generation' = generation + 1 /\ generation \in Nat
      /\ storeGeneration' \in Nat /\ storeGeneration' < generation'
      /\ wanted' = {} /\ loadedChunks' = {}
  BY DEF StartGeneration, LInv, Fresh
<1>2. 1 \in 1..ChunksOf[k]
  BY LibraryAssumption
<1>3. /\ \/ inFlight' = {}
         \/ inFlight' = {first} /\ k \notin Filtered /\ cachedFrame' = None
      /\ fill'.stage # "none" => k \in Filtered
  BY DEF StartGeneration, NoFill
<1>4. cachedFrame' # None
         => /\ cachedFrame'.gen = generation' /\ cachedFrame'.list = listCache'[k]
            /\ listCache'[k] # None /\ inFlight' = {}
  BY DEF StartGeneration
<1>5. Fresh'
  BY <1>1, <1>3 DEF Fresh, Ranged
<1>6. Sizes'
  BY <1>1, <1>4 DEF LInv, Sizes, Ranged, Current, CacheSized
<1>7. Accounts'
  BY <1>1, <1>2, <1>3, <1>4 DEF Accounts, Ranged, Current
<1>. QED  BY <1>5, <1>6, <1>7 DEF LInv

LEMMA OpenSound ==
    ASSUME LInv, NEW k \in Selections, OpenLibrary(k)
    PROVE  LInv'
<1> DEFINE first == [key |-> k, at |-> 1, gen |-> 1]
<1>1. /\ selection' = k /\ generation' = 1 /\ storeGeneration' = 0
      /\ wanted' = {} /\ loadedChunks' = {} /\ UNCHANGED <<leftBehind, listCache>>
  BY DEF OpenLibrary
<1>2. 1 \in 1..ChunksOf[k]
  BY LibraryAssumption
<1>3. /\ \/ inFlight' = {}
         \/ inFlight' = {first} /\ k \notin Filtered /\ cachedFrame' = None
      /\ fill'.stage # "none" => k \in Filtered
  BY DEF OpenLibrary, NoFill
<1>4. cachedFrame' # None
         => /\ cachedFrame'.gen = generation' /\ cachedFrame'.list = listCache[k]
            /\ listCache[k] # None /\ inFlight' = {}
  BY DEF OpenLibrary
<1>5. Fresh'
  BY <1>1, <1>3 DEF Fresh, Ranged
<1>6. Sizes'
  BY <1>1, <1>4 DEF LInv, Sizes, Ranged, Current
<1>7. Accounts'
  BY <1>1, <1>2, <1>3, <1>4 DEF Accounts, Ranged, Current
<1>. QED  BY <1>5, <1>6, <1>7 DEF LInv

\* retry, and what expires, take entries out of the cache.
LEMMA ForgottenSized ==
    ASSUME CacheSized(listCache), NEW k,
           listCache' = [listCache EXCEPT ![k] = None]
    PROVE  CacheSized(listCache')
BY DEF CacheSized

LEMMA SelectSound ==
    ASSUME LInv, NEW k \in Selections, SelectOther(k)
    PROVE  LInv'
<1>1. CacheSized(listCache')
  BY DEF SelectOther, LInv, Sizes, CacheSized
<1>2. StartGeneration(k, listCache')
  BY DEF SelectOther
<1>. QED  BY <1>1, <1>2, Begins DEF SelectOther

LEMMA RetrySound == LInv /\ RetryListing => LInv'
<1> SUFFICES ASSUME LInv, RetryListing PROVE LInv'
  OBVIOUS
<1>1. CacheSized(listCache) /\ selection \in Selections
  BY DEF RetryListing, LInv, Sizes, Fresh, CacheSized
<1>2. CacheSized(listCache')
  BY <1>1, ForgottenSized DEF RetryListing
<1>. QED  BY <1>1, <1>2, Begins DEF RetryListing

LEMMA LeaveSound == LInv /\ LeaveLibrary => LInv'
<1> SUFFICES ASSUME LInv, LeaveLibrary PROVE LInv'
  OBVIOUS
<1>1. Fresh'
  BY DEF LeaveLibrary, Fresh, NoFill
<1>2. \A f \in inFlight : f.key \in Selections /\ Sized(Merged(f), f.key)
  BY MergedSized DEF LInv, Fresh, Ranged, Merged
<1>3. leftBehind' # None => /\ leftBehind'.key \in Selections
                            /\ Sized(leftBehind'.list, leftBehind'.key)
  <2>1. CASE leftBehind' = leftBehind
    BY <2>1 DEF LInv, Sizes
  <2>2. ASSUME NEW f \in inFlight, leftBehind' = [key |-> f.key, list |-> Merged(f)]
        PROVE  /\ leftBehind'.key \in Selections
               /\ Sized(leftBehind'.list, leftBehind'.key)
    BY <1>2, <2>2
  <2>. QED  BY <2>1, <2>2 DEF LeaveLibrary
<1>4. Sizes' /\ Accounts'
  BY <1>3, LibraryAssumption DEF LeaveLibrary, LInv, Sizes, Accounts, Ranged, Current
<1>. QED  BY <1>1, <1>4 DEF LInv

LEMMA FrameSound == LInv /\ ApplyFrame => LInv'
<1> SUFFICES ASSUME LInv, ApplyFrame PROVE LInv'
  OBVIOUS
<1> USE DEF LInv, Fresh, Sizes, Accounts, Ranged, Current, ApplyFrame, aside
<1>1. CASE cachedFrame.gen # generation
  BY <1>1
<1>2. CASE cachedFrame.gen = generation
  BY <1>2
<1>. QED  BY <1>1, <1>2

LEMMA ExpireSound ==
    ASSUME LInv, NEW k \in Selections, ExpireListing(k)
    PROVE  LInv'
<1>1. CacheSized(listCache')
  BY ForgottenSized DEF LInv, Sizes, CacheSized, ExpireListing
<1>2. UNCHANGED viewVars /\ UNCHANGED leftBehind
  BY DEF ExpireListing
<1>3. Fresh' /\ Accounts'
  BY <1>2 DEF viewVars, LInv, Fresh, Accounts, Ranged, Current
<1>4. Sizes'
  BY <1>1, <1>2 DEF viewVars, LInv, Sizes, CacheSized, Ranged, Current
<1>. QED  BY <1>3, <1>4 DEF LInv

\* What arrives for a view that was left has the size of its selection.
LEMMA LateSound == LInv /\ LeftBehindArrives => LInv'
<1> SUFFICES ASSUME LInv, LeftBehindArrives PROVE LInv'
  OBVIOUS
<1>1. UNCHANGED viewVars /\ leftBehind' = None
  BY DEF LeftBehindArrives
<1>2. CacheSized(listCache')
  BY DEF LeftBehindArrives, LInv, Sizes, CacheSized
<1>3. Fresh' /\ Accounts'
  BY <1>1 DEF viewVars, LInv, Fresh, Accounts, Ranged, Current
<1>4. Sizes'
  BY <1>1, <1>2 DEF viewVars, LInv, Sizes, CacheSized, Ranged, Current
<1>. QED  BY <1>3, <1>4 DEF LInv

-----------------------------------------------------------------------------
(* Ranges *)

\* A range over the list of this generation is accounted for at once; one
\* over an older list is not claimed to be.
LEMMA RangeSound ==
    ASSUME LInv, NEW lo, NEW hi \in Nat, EnsureRange(lo, hi)
    PROVE  LInv'
<1> DEFINE needed  == lo..(IF hi > Len(listing) THEN Len(listing) ELSE hi)
           kept    == {f \in inFlight : f.at \in needed}
           known   == loadedChunks \cup {f.at : f \in kept}
           already == {i \in needed \ known : HasItems(i)}
           requested == {[key |-> selection, at |-> i, gen |-> generation] :
                          i \in needed \ (known \cup already)}
<1>1. /\ Ranged
      /\ lo \in DOMAIN listing
      /\ loadedChunks' = loadedChunks \cup already
      /\ inFlight' = kept \cup requested
      /\ wanted' = needed
      /\ failedChunks' = failedChunks \ needed
      /\ strayed' = (strayed \/ storeGeneration # generation)
      /\ UNCHANGED <<selection, generation, listing, storeGeneration, fill,
                     cachedFrame, leftBehind, listCache>>
  BY DEF EnsureRange, LInv, Fresh, Ranged, aside
<1>2. \A f \in kept \cup requested : f.key = selection /\ f.gen = generation
  BY DEF LInv, Fresh
<1> HIDE DEF requested
<1>3. Fresh'
  BY <1>1, <1>2 DEF LInv, Fresh, Ranged
<1>4. Sizes'
  BY <1>1 DEF LInv, Sizes, Ranged, Current
<1>5. ASSUME ~strayed'
      PROVE  /\ \A f \in inFlight' : f.at \in 1..ChunksOf[selection]
             /\ cachedFrame' = None
             /\ Current'
             /\ loadedChunks' \subseteq Present(listing)
             /\ wanted' \subseteq Present(listing) \cup failedChunks'
                            \cup {f.at : f \in inFlight'}
  <2>1. Current /\ ~strayed /\ cachedFrame = None /\ Current'
    BY <1>1, <1>5 DEF LInv, Accounts, Current
  <2>2. /\ Len(listing) = ChunksOf[selection]
        /\ DOMAIN listing = 1..ChunksOf[selection]
        /\ ChunksOf[selection] \in Nat
    BY <1>1, <2>1, SizedLength, LibraryAssumption DEF LInv, Sizes, Ranged
  <2>3. needed \subseteq 1..ChunksOf[selection]
    BY <1>1, <2>2
  <2>4. already \subseteq Present(listing)
    BY <2>2, <2>3 DEF HasItems, Present
  <2>5. loadedChunks \subseteq Present(listing)
    BY <1>1, <2>1 DEF LInv, Accounts
  <2> HIDE DEF needed, already
  <2>6. \A i \in needed \ (known \cup already) : \E f \in requested : f.at = i
    <3> USE DEF requested
    <3> TAKE i \in needed \ (known \cup already)
    <3> WITNESS [key |-> selection, at |-> i, gen |-> generation] \in requested
    <3>. QED  OBVIOUS
  <2>7. \A f \in requested : f.at \in needed
    BY DEF requested
  <2>8. \A f \in inFlight' : f.at \in 1..ChunksOf[selection]
    BY <1>1, <2>3, <2>7
  <2>9. wanted' \subseteq Present(listing) \cup {f.at : f \in inFlight'}
    <3> SUFFICES ASSUME NEW i \in needed
                 PROVE  i \in Present(listing) \/ \E f \in inFlight' : f.at = i
      BY <1>1
    <3>1. CASE i \in loadedChunks \cup already
      BY <2>4, <2>5, <3>1
    <3>2. CASE \E f \in kept : f.at = i
      BY <1>1, <3>2
    <3>3. CASE i \notin known \cup already
      BY <1>1, <2>6, <3>3
    <3>. QED  BY <3>1, <3>2, <3>3
  <2>. QED  BY <1>1, <2>1, <2>4, <2>5, <2>8, <2>9
<1>6. Accounts'
  BY <1>1, <1>5 DEF Accounts, Ranged, Current
<1>. QED  BY <1>3, <1>4, <1>6 DEF LInv

LEMMA ArrivesSound ==
    ASSUME LInv, NEW f \in inFlight, ChunkArrives(f)
    PROVE  LInv'
<1> DEFINE merged == Merged(f)
<1>1. f.gen = generation /\ f.key = selection /\ Ranged
      /\ selection \in Selections
  BY DEF LInv, Fresh, Ranged
<1>2. /\ inFlight' = inFlight \ {f}
      /\ loadedChunks' = loadedChunks \cup {f.at}
      /\ listing' = merged
      /\ storeGeneration' = generation
      /\ listCache' = [listCache EXCEPT ![f.key] = merged]
      /\ UNCHANGED <<selection, generation, fill, cachedFrame, leftBehind, wanted,
                     failedChunks, strayed>>
  BY <1>1 DEF ChunkArrives, aside
<1>3. Sized(merged, selection)
  BY <1>1, MergedSized DEF Merged
<1> HIDE DEF merged
<1>4. Fresh'
  BY <1>1, <1>2 DEF LInv, Fresh, Ranged
<1>5. Sizes'
  BY <1>1, <1>2, <1>3 DEF LInv, Sizes, Ranged, Current
<1>6. ASSUME ~strayed
      PROVE  /\ cachedFrame = None
             /\ f.at \in Present(merged)
             /\ Current => Present(listing) \subseteq Present(merged)
  <2>1. f.at \in 1..ChunksOf[selection] /\ cachedFrame = None
    BY <1>1, <1>6 DEF LInv, Accounts
  <2>2. merged = MergeChunk(StoreBase(generation), f.at,
                            <<Chunk(selection, f.at)>>, ChunksOf[selection])
    BY <1>1, <2>1, LibraryAssumption DEF merged, Merged
  <2>3. Current => StoreBase(generation) = listing /\ Sized(listing, selection)
    BY <1>1 DEF LInv, Sizes, StoreBase, Current
  <2>. QED  BY <1>1, <2>1, <2>2, <2>3, MergedThere
<1>7. ASSUME ~strayed
      PROVE  /\ loadedChunks' \subseteq Present(merged)
             /\ wanted \subseteq Present(merged) \cup failedChunks
                          \cup {g.at : g \in inFlight'}
             /\ \A g \in inFlight' : g.at \in 1..ChunksOf[selection]
  BY <1>1, <1>2, <1>6, <1>7 DEF LInv, Accounts
<1>8. Accounts'
  BY <1>2, <1>6, <1>7 DEF Accounts, Ranged, Current
<1>. QED  BY <1>4, <1>5, <1>8 DEF LInv

LEMMA FailsSound ==
    ASSUME LInv, NEW f \in inFlight, ChunkFails(f)
    PROVE  LInv'
<1>0. /\ inFlight' = inFlight \ {f} /\ failedChunks' = failedChunks \cup {f.at}
      /\ UNCHANGED <<selection, generation, listing, storeGeneration, loadedChunks,
                     fill, cachedFrame, leftBehind, listCache, wanted, strayed>>
  BY DEF ChunkFails, aside
<1>1. Fresh'
  BY <1>0 DEF LInv, Fresh, Ranged
<1>2. Sizes'
  BY <1>0 DEF LInv, Sizes, Ranged, Current
<1>3. Accounts'
  BY <1>0 DEF LInv, Accounts, Ranged, Current
<1>. QED  BY <1>1, <1>2, <1>3 DEF LInv

-----------------------------------------------------------------------------
(* loadAll, for filtered selections only *)

LEMMA FillSound ==
    ASSUME LInv, FirstArrives \/ FirstFails \/ FillEnds
                 \/ \E i \in 2..MaxChunks : BatchArrives(i) \/ BatchFails(i)
    PROVE  LInv'
<1>1. fill.stage # "none" /\ selection \in Filtered
      /\ UNCHANGED <<selection, generation, inFlight, wanted, cachedFrame,
                     leftBehind, loadedChunks, failedChunks, strayed>>
  BY DEF LInv, Fresh, FirstArrives, FirstFails, FillEnds, BatchArrives,
         BatchFails, aside
<1>2. storeGeneration' \in {storeGeneration, generation}
  BY DEF FirstArrives, FirstFails, FillEnds, BatchArrives, BatchFails
<1>3. \/ UNCHANGED listCache
      \/ \E list : listCache' = [listCache EXCEPT ![selection] = list]
  BY DEF FirstArrives, FirstFails, FillEnds, BatchArrives, BatchFails
<1>4. Fresh'
  BY <1>1, <1>2 DEF LInv, Fresh, Ranged
<1>5. Sizes'
  BY <1>1, <1>3 DEF LInv, Sizes, Ranged
<1>6. Accounts'
  BY <1>1 DEF Accounts, Ranged
<1>. QED  BY <1>4, <1>5, <1>6 DEF LInv

-----------------------------------------------------------------------------

LEMMA LibraryInductive == LInv /\ [LibraryNext]_libraryVars => LInv'
<1> SUFFICES ASSUME LInv, [LibraryNext]_libraryVars PROVE LInv'
  OBVIOUS
<1>1. CASE LibraryProgress
  BY <1>1, FrameSound, ArrivesSound, FailsSound, FillSound DEF LibraryProgress
<1>2. CASE LibraryVisitor
  <2>1. ASSUME NEW lo \in 1..MaxChunks, NEW hi \in 1..MaxChunks,
               EnsureRange(lo, hi)
        PROVE  LInv'
    <3>1. hi \in Nat
      OBVIOUS
    <3>. QED  BY <2>1, <3>1, RangeSound
  <2>. QED
    BY <1>2, <2>1, OpenSound, SelectSound, ExpireSound, RetrySound, LeaveSound,
       LateSound
       DEF LibraryVisitor
<1>3. CASE UNCHANGED libraryVars
  BY <1>3 DEF libraryVars, LInv, Fresh, Sizes, Accounts, Ranged, Current
<1>. QED  BY <1>1, <1>2, <1>3 DEF LibraryNext

\* Every slot of the range that the grid last asked for is in the list, on its
\* way or has failed since, whatever was aborted, answered late or cached
\* (ensureRange in usePaginatedLibrary.ts).
THEOREM NothingForgotten == LibrarySpec => []WantedAccounted
<1>1. LInv => WantedAccounted
  BY DEF LInv, Fresh, Accounts, Ranged, WantedAccounted
<1>. QED  BY <1>1, LibraryInitially, LibraryInductive, PTL DEF LibrarySpec

-----------------------------------------------------------------------------
(* No list is spliced                                                        *)

\* A fill, with the fields of NoFill.
Shaped(f) == f = [stage |-> f.stage, busy |-> f.busy, ready |-> f.ready,
                  cursor |-> f.cursor, flushed |-> f.flushed,
                  stopped |-> f.stopped]

\* What is flushed are the batches behind the first page, in order.
InOrder(f) ==
    /\ Shaped(f)
    /\ IsFiniteSet(f.ready)
    /\ \E n \in Nat : f.flushed = [j \in 1..n |-> Chunk(selection, j + 1)]

\* What will become part of the list belongs to the selection.
Belongs ==
    /\ cachedFrame # None => /\ selection # None
                             /\ cachedFrame.gen = generation
                             /\ ListOf(cachedFrame.list, selection)
    /\ \A f \in inFlight : f.at \in Int
    /\ fill.stage = "rest" => InOrder(fill)
    /\ leftBehind # None => ListOf(leftBehind.list, leftBehind.key)

\* With the first invariant an inductive one.
SInv == NoSplice /\ Belongs

CacheOf(cache) == \A k \in Selections : cache[k] # None => ListOf(cache[k], k)

LEMMA EmptyOf == \A k \in Selections : ListOf(<<>>, k)
BY DEF ListOf, Present

\* Chunks at their places, merged into a list of the same selection.
LEMMA MergedOf ==
    ASSUME NEW k \in Selections, NEW list, ListOf(list, k),
           NEW i \in Int, NEW batch,
           \A n \in DOMAIN batch : batch[n] = Chunk(k, i + n - 1)
    PROVE  ListOf(MergeChunk(list, i, batch, ChunksOf[k]), k)
<1> DEFINE m == MergeChunk(list, i, batch, ChunksOf[k])
<1>1. /\ DOMAIN m = 1..ChunksOf[k]
      /\ \A j \in 1..ChunksOf[k] :
            m[j] = IF j - i + 1 \in DOMAIN batch THEN batch[j - i + 1]
                   ELSE IF j \in DOMAIN list THEN list[j] ELSE EmptySlot
  BY DEF MergeChunk
<1> HIDE DEF m
<1> SUFFICES ASSUME NEW j \in 1..ChunksOf[k], m[j] # EmptySlot
             PROVE  m[j] = Chunk(k, j)
  BY <1>1 DEF ListOf, Present, m
<1>2. CASE j - i + 1 \in DOMAIN batch
  <2>1. i + (j - i + 1) - 1 = j
    OBVIOUS
  <2>. QED  BY <1>1, <1>2, <2>1
<1>3. CASE j - i + 1 \notin DOMAIN batch
  BY <1>1, <1>3 DEF ListOf, Present
<1>. QED  BY <1>2, <1>3

LEMMA FirstPageOf ==
    ASSUME selection \in Selections
    PROVE  ListOf(FirstPage, selection)
<1> DEFINE batch == <<Chunk(selection, 1)>>
<1>1. \A n \in DOMAIN batch : batch[n] = Chunk(selection, 1 + n - 1)
  OBVIOUS
<1>2. ListOf(<<>>, selection)
  BY EmptyOf
<1> HIDE DEF batch
<1>3. ListOf(MergeChunk(<<>>, 1, batch, ChunksOf[selection]), selection)
  BY <1>1, <1>2, MergedOf
<1>. QED  BY <1>3 DEF FirstPage, batch

LEMMA FilledOf ==
    ASSUME selection \in Selections, NEW f, InOrder(f)
    PROVE  ListOf(Filled(f), selection)
<1>1. \A n \in DOMAIN f.flushed : f.flushed[n] = Chunk(selection, 2 + n - 1)
  <2>1. PICK n \in Nat : f.flushed = [j \in 1..n |-> Chunk(selection, j + 1)]
    BY DEF InOrder
  <2>2. \A j \in 1..n : 2 + j - 1 = j + 1
    OBVIOUS
  <2>. QED  BY <2>1, <2>2
<1>2. ListOf(FirstPage, selection)
  BY FirstPageOf
<1> DEFINE list == FirstPage
           batch == f.flushed
<1> HIDE DEF list, batch
<1>3. ListOf(MergeChunk(list, 2, batch, ChunksOf[selection]), selection)
  <2>1. /\ ListOf(list, selection) /\ 2 \in Int
        /\ \A n \in DOMAIN batch : batch[n] = Chunk(selection, 2 + n - 1)
    BY <1>1, <1>2 DEF list, batch
  <2>. QED  BY <2>1, MergedOf
<1>. QED  BY <1>3 DEF Filled, list, batch

\* A flush goes on where the last one ended.
LEMMA FlushInOrder ==
    ASSUME NEW f, InOrder(f)
    PROVE  InOrder(Flush(f)) /\ Flush(f).stage = f.stage
<1> DEFINE c == Cardinality(Flushable(f))
           more == [n \in 1..c |-> Chunk(selection, Len(f.flushed) + 1 + n)]
<1>1. PICK n \in Nat : f.flushed = [j \in 1..n |-> Chunk(selection, j + 1)]
  BY DEF InOrder
<1>2. c \in Nat
  <2>1. IsFiniteSet(Flushable(f))
    BY FS_Subset DEF InOrder, Flushable
  <2>. QED  BY <2>1, FS_CardinalityType
<1> HIDE DEF c
<1> DEFINE S == {Chunk(selection, j) : j \in Int}
<1>3. f.flushed \in Seq(S) /\ Len(f.flushed) = n
  <2>1. f.flushed \in [1..n -> S]
    BY <1>1
  <2>2. f.flushed \in Seq(S)
    BY <2>1, SeqDef
  <2>. QED  BY <2>1, <2>2, LenProperties
<1>4. more \in Seq(S) /\ Len(more) = c
  <2>1. more \in [1..c -> S]
    BY <1>2, <1>3
  <2>2. more \in Seq(S)
    BY <1>2, <2>1, SeqDef
  <2>. QED  BY <1>2, <2>1, <2>2, LenProperties
<1>5. f.flushed \o more = [j \in 1..(n + c) |-> Chunk(selection, j + 1)]
  <2> DEFINE sent == f.flushed
             both == sent \o more
  <2>1. both \in Seq(S) /\ Len(both) = n + c
        /\ \A j \in 1..(n + c) :
              both[j] = IF j <= n THEN f.flushed[j] ELSE more[j - n]
    <3>1. sent \in Seq(S) /\ Len(sent) = n /\ more \in Seq(S) /\ Len(more) = c
      BY <1>3, <1>4
    <3> HIDE DEF more, S, both
    <3>2. /\ sent \o more \in Seq(S)
          /\ Len(sent \o more) = Len(sent) + Len(more)
          /\ \A j \in 1..(Len(sent) + Len(more)) :
                (sent \o more)[j] = IF j <= Len(sent) THEN sent[j]
                                                    ELSE more[j - Len(sent)]
      BY <3>1, ConcatProperties
    <3>. QED  BY <3>1, <3>2 DEF both
  <2>2. both = [j \in 1..(n + c) |-> both[j]]
    <3> HIDE DEF more, S, both
    <3>1. both \in [1..(n + c) -> S]
      BY <2>1, LenProperties
    <3>. QED  BY <3>1
  <2>3. ASSUME NEW j \in 1..(n + c) PROVE both[j] = Chunk(selection, j + 1)
    <3>1. CASE j <= n
      BY <1>1, <2>1, <3>1
    <3>2. CASE ~(j <= n)
      <4>1. j - n \in 1..c /\ n + 1 + (j - n) = j + 1
        BY <1>2, <3>2
      <4>2. more[j - n] = Chunk(selection, n + 1 + (j - n))
        BY <1>3, <4>1
      <4>. QED  BY <2>1, <3>2, <4>1, <4>2
    <3>. QED  BY <3>1, <3>2
  <2> HIDE DEF both
  <2>4. both = [j \in 1..(n + c) |-> Chunk(selection, j + 1)]
    BY <2>2, <2>3
  <2>. QED  BY <2>4 DEF both
<1>6. /\ Flush(f).flushed = f.flushed \o more
      /\ Flush(f).ready = f.ready \ Flushable(f)
      /\ Flush(f).stage = f.stage
      /\ Shaped(Flush(f))
  <2> DEFINE left == f.ready \ Flushable(f)
             flushed == f.flushed \o more
             mid == [f EXCEPT !.flushed = flushed]
  <2>1. Flush(f) = [mid EXCEPT !.ready = left]
    BY DEF Flush, c
  <2> HIDE DEF more, left, flushed, mid
  <2>2. PICK stage, busy, ready, cursor, was, stopped :
           f = [stage |-> stage, busy |-> busy, ready |-> ready,
                cursor |-> cursor, flushed |-> was, stopped |-> stopped]
    BY DEF InOrder, Shaped
  <2>3. mid = [stage |-> stage, busy |-> busy, ready |-> ready,
               cursor |-> cursor, flushed |-> flushed, stopped |-> stopped]
    BY <2>2 DEF mid
  <2>4. [mid EXCEPT !.ready = left]
          = [stage |-> stage, busy |-> busy, ready |-> left,
             cursor |-> cursor, flushed |-> flushed, stopped |-> stopped]
    BY <2>3
  <2>5. /\ Shaped(Flush(f)) /\ Flush(f).flushed = flushed
        /\ Flush(f).ready = left /\ Flush(f).stage = f.stage
    BY <2>1, <2>2, <2>4 DEF Shaped
  <2>. QED  BY <2>5 DEF left, flushed
<1>7. IsFiniteSet(f.ready \ Flushable(f))
  BY FS_Subset DEF InOrder
<1>8. Flush(f).flushed = [j \in 1..(n + c) |-> Chunk(selection, j + 1)]
  BY <1>5, <1>6
<1> DEFINE g == Flush(f)
<1>9. Shaped(g) /\ g.ready = f.ready \ Flushable(f) /\ g.stage = f.stage
  BY <1>6
<1>10. g.flushed = [j \in 1..(n + c) |-> Chunk(selection, j + 1)]
  BY <1>8
<1>11. n + c \in Nat
  BY <1>2
<1> HIDE DEF g, more, S
<1>12. IsFiniteSet(g.ready)
  BY <1>7, <1>9
<1>13. InOrder(g)
  BY <1>9, <1>10, <1>11, <1>12 DEF InOrder
<1>. QED  BY <1>9, <1>13 DEF g

-----------------------------------------------------------------------------
(* Its steps                                                                 *)

LEMMA SplicesInitially == LibraryInit => SInv
BY LibraryAssumption, EmptyOf DEF LibraryInit, SInv, NoSplice, Belongs, NoFill

LEMMA BeginsUnspliced ==
    ASSUME LInv, SInv, NEW k \in Selections, selection # None, selection' = k,
           CacheOf(listCache'), StartGeneration(k, listCache'),
           UNCHANGED <<listing, storeGeneration, leftBehind>>
    PROVE  SInv'
<1>1. /\ generation' = generation + 1 /\ storeGeneration' # generation'
      /\ selection' # None
  BY LibraryAssumption DEF StartGeneration, LInv, Fresh
<1>2. NoSplice'
  BY <1>1 DEF SInv, NoSplice, CacheOf
<1>3. /\ \A f \in inFlight' : f.at \in Int
      /\ fill'.stage # "rest"
  BY DEF StartGeneration, NoFill
<1>4. cachedFrame' # None => /\ cachedFrame'.gen = generation'
                             /\ ListOf(cachedFrame'.list, selection')
  BY <1>1 DEF StartGeneration, CacheOf
<1>. QED  BY <1>1, <1>2, <1>3, <1>4 DEF SInv, Belongs

LEMMA SelectingUnspliced ==
    ASSUME LInv, SInv,
           \/ \E k \in Selections : SelectOther(k)
           \/ RetryListing
    PROVE  SInv'
<1>1. CacheOf(listCache)
  BY DEF SInv, NoSplice, CacheOf
<1>2. ASSUME NEW k \in Selections, SelectOther(k) PROVE SInv'
  <2>1. CacheOf(listCache') /\ StartGeneration(k, listCache')
    BY <1>1, <1>2 DEF SelectOther
  <2>. QED  BY <1>2, <2>1, BeginsUnspliced DEF SelectOther
<1>3. CASE RetryListing
  <2>1. selection \in Selections
    BY <1>3 DEF RetryListing, LInv, Fresh
  <2>2. CacheOf(listCache')
    BY <1>1, <1>3 DEF RetryListing, CacheOf, LInv, Sizes
  <2>. QED  BY <1>3, <2>1, <2>2, BeginsUnspliced DEF RetryListing
<1>. QED  BY <1>2, <1>3

\* An answer makes a list of the selection it was asked for.
LEMMA MergedUnspliced ==
    ASSUME LInv, SInv, NEW f \in inFlight
    PROVE  ListOf(Merged(f), f.key)
<1> DEFINE batch == IF f.at <= ChunksOf[f.key] THEN <<Chunk(f.key, f.at)>>
                    ELSE <<>>
           base  == StoreBase(generation)
<1>1. /\ f.key = selection /\ f.at \in Int
      /\ selection \in Selections /\ selection # None
  BY LibraryAssumption DEF LInv, Fresh, Ranged, SInv, Belongs
<1>2. ListOf(base, f.key)
  BY <1>1, EmptyOf DEF StoreBase, SInv, NoSplice
<1>3. \A n \in DOMAIN batch : batch[n] = Chunk(f.key, f.at + n - 1)
  BY <1>1
<1>4. Merged(f) = MergeChunk(base, f.at, batch, ChunksOf[f.key])
  BY DEF Merged
<1> HIDE DEF batch, base
<1>. QED  BY <1>1, <1>2, <1>3, <1>4, MergedOf

LEMMA VisitingUnspliced ==
    ASSUME LInv, SInv,
           \/ \E k \in Selections : OpenLibrary(k) \/ ExpireListing(k)
           \/ LeaveLibrary \/ LeftBehindArrives
    PROVE  SInv'
<1>1. CASE LeaveLibrary
  <2>1. leftBehind' # None => ListOf(leftBehind'.list, leftBehind'.key)
    <3>1. CASE leftBehind' = leftBehind
      BY <3>1 DEF SInv, Belongs
    <3>2. ASSUME NEW f \in inFlight, leftBehind' = [key |-> f.key, list |-> Merged(f)]
          PROVE  ListOf(leftBehind'.list, leftBehind'.key)
      BY <3>2, MergedUnspliced
    <3>. QED  BY <1>1, <3>1, <3>2 DEF LeaveLibrary
  <2>. QED  BY <1>1, <2>1, EmptyOf, LibraryAssumption
            DEF LeaveLibrary, SInv, NoSplice, Belongs, NoFill
<1>4. CASE LeftBehindArrives
  <2>1. /\ UNCHANGED viewVars /\ leftBehind' = None /\ leftBehind # None
        /\ listCache' = [listCache EXCEPT ![leftBehind.key] = leftBehind.list]
    BY <1>4 DEF LeftBehindArrives
  <2>2. NoSplice'
    BY <2>1 DEF viewVars, SInv, NoSplice, Belongs, LInv, Sizes
  <2>3. Belongs'
    BY <2>1 DEF viewVars, SInv, Belongs, InOrder
  <2>. QED  BY <2>2, <2>3 DEF SInv
<1>2. ASSUME NEW k \in Selections, ExpireListing(k) PROVE SInv'
  <2>1. NoSplice'
    BY <1>2 DEF ExpireListing, viewVars, SInv, NoSplice, LInv, Sizes
  <2>2. Belongs'
    BY <1>2 DEF ExpireListing, viewVars, SInv, Belongs, InOrder
  <2>. QED  BY <2>1, <2>2 DEF SInv
<1>3. ASSUME NEW k \in Selections, OpenLibrary(k) PROVE SInv'
  <2>1. NoSplice'
    BY <1>3, EmptyOf DEF OpenLibrary, SInv, NoSplice
  <2>2. selection' # None
    BY <1>3, LibraryAssumption DEF OpenLibrary
  <2>3. /\ \A f \in inFlight' : f.at \in Int
        /\ fill'.stage # "rest"
        /\ cachedFrame' # None => /\ cachedFrame'.gen = generation'
                                  /\ ListOf(cachedFrame'.list, selection')
    BY <1>3 DEF OpenLibrary, NoFill, SInv, NoSplice
  <2>4. UNCHANGED leftBehind
    BY <1>3 DEF OpenLibrary
  <2>. QED  BY <2>1, <2>2, <2>3, <2>4 DEF SInv, Belongs
<1>. QED  BY <1>1, <1>2, <1>3, <1>4

LEMMA FrameUnspliced == LInv /\ SInv /\ ApplyFrame => SInv'
<1> SUFFICES ASSUME LInv, SInv, ApplyFrame PROVE SInv'
  OBVIOUS
<1>1. selection \in Selections /\ cachedFrame.gen = generation
      /\ ListOf(cachedFrame.list, selection)
  BY DEF SInv, Belongs, ApplyFrame, LInv, Fresh
<1>2. NoSplice'
  BY <1>1 DEF ApplyFrame, SInv, NoSplice
<1>3. Belongs'
  BY DEF ApplyFrame, SInv, Belongs, InOrder, aside
<1>. QED  BY <1>2, <1>3 DEF SInv

LEMMA RangesUnspliced ==
    ASSUME LInv, SInv,
           \/ \E lo, hi \in 1..MaxChunks : EnsureRange(lo, hi)
           \/ \E f \in inFlight : ChunkArrives(f) \/ ChunkFails(f)
    PROVE  SInv'
<1>1. ASSUME NEW lo \in 1..MaxChunks, NEW hi \in 1..MaxChunks,
             EnsureRange(lo, hi)
      PROVE  SInv'
  <2>1. NoSplice'
    BY <1>1 DEF EnsureRange, SInv, NoSplice
  <2>2. \A f \in inFlight' : f.at \in Int
    BY <1>1 DEF EnsureRange, SInv, Belongs
  <2>. QED  BY <1>1, <2>1, <2>2 DEF EnsureRange, SInv, Belongs, InOrder, aside
<1>2. ASSUME NEW f \in inFlight, ChunkFails(f) PROVE SInv'
  <2>1. NoSplice'
    BY <1>2 DEF ChunkFails, SInv, NoSplice
  <2>. QED  BY <1>2, <2>1 DEF ChunkFails, SInv, Belongs, InOrder, aside
<1>3. ASSUME NEW f \in inFlight, ChunkArrives(f) PROVE SInv'
  <2> DEFINE merged == Merged(f)
  <2>1. /\ f.gen = generation /\ f.key = selection
        /\ selection \in Selections /\ selection # None
    BY LibraryAssumption DEF LInv, Fresh, Ranged
  <2>2. /\ listing' = merged /\ storeGeneration' = generation
        /\ listCache' = [listCache EXCEPT ![f.key] = merged]
        /\ inFlight' = inFlight \ {f}
        /\ UNCHANGED <<selection, generation, fill, cachedFrame, leftBehind>>
    BY <1>3, <2>1 DEF ChunkArrives, aside
  <2>3. ListOf(merged, f.key)
    BY MergedUnspliced
  <2> HIDE DEF merged
  <2>4. NoSplice'
    BY <2>1, <2>2, <2>3 DEF SInv, NoSplice, LInv, Sizes
  <2>. QED  BY <2>2, <2>4 DEF SInv, Belongs, InOrder
<1>. QED  BY <1>1, <1>2, <1>3

\* The list of a fill is one of its selection.
LEMMA FillsUnspliced ==
    ASSUME LInv, SInv, FirstArrives \/ FirstFails \/ FillEnds
    PROVE  SInv'
<1>1. selection \in Selections
  BY LibraryAssumption DEF LInv, Fresh, FirstArrives, FirstFails, FillEnds
<1>2. CASE FirstFails
  BY <1>2 DEF FirstFails, SInv, NoSplice, Belongs, NoFill, aside
<1>3. CASE FillEnds
  <2>1. ListOf(listing', selection)
    BY <1>1, <1>3, FilledOf DEF FillEnds, SInv, Belongs
  <2>2. NoSplice'
    BY <1>1, <1>3, <2>1 DEF FillEnds, SInv, NoSplice, LInv, Sizes
  <2>. QED  BY <1>3, <2>2 DEF FillEnds, SInv, Belongs, NoFill, aside
<1>4. CASE FirstArrives
  <2>1. ListOf(listing', selection)
    BY <1>1, <1>4, FirstPageOf DEF FirstArrives, FirstPage
  <2>2. NoSplice'
    BY <1>1, <1>4, <2>1 DEF FirstArrives, SInv, NoSplice, LInv, Sizes
  <2>3. fill'.stage = "rest" => InOrder(fill)'
    <3>1. SUFFICES ASSUME ChunksOf[selection] # 1
                   PROVE  InOrder(fill)'
      BY <1>4 DEF FirstArrives, NoFill
    <3>2. fill' = [stage |-> "rest", busy |-> FillWorkers, ready |-> {},
                   cursor |-> Cardinality(FillWorkers) + 2, flushed |-> <<>>,
                   stopped |-> FALSE]
      BY <1>4, <3>1 DEF FirstArrives, NoFill
    <3>3. Shaped(fill') /\ fill'.ready = {} /\ fill'.flushed = <<>>
      BY <3>2 DEF Shaped
    <3>4. <<>> = [j \in 1..0 |-> Chunk(selection', j + 1)]
      OBVIOUS
    <3>. QED  BY <3>3, <3>4, FS_EmptySet DEF InOrder
  <2>. QED  BY <1>4, <2>2, <2>3 DEF FirstArrives, SInv, Belongs, aside
<1>. QED  BY <1>2, <1>3, <1>4

LEMMA BatchesUnspliced ==
    ASSUME LInv, SInv, NEW i, BatchArrives(i) \/ BatchFails(i)
    PROVE  SInv'
<1>1. selection \in Selections /\ InOrder(fill) /\ fill.stage = "rest"
  BY LibraryAssumption
     DEF LInv, Fresh, SInv, Belongs, BatchArrives, BatchFails
<1>2. CASE BatchFails(i)
  <2>1. InOrder(fill)'
    BY <1>1, <1>2 DEF BatchFails, InOrder, Shaped
  <2>. QED  BY <1>2, <2>1 DEF BatchFails, SInv, NoSplice, Belongs, aside
<1>3. CASE BatchArrives(i)
  <2> DEFINE requested == [fill EXCEPT !.ready = @ \cup {i}]
             got       == Flush(requested)
  <2>1. InOrder(requested)
    <3>1. /\ Shaped(requested) /\ requested.flushed = fill.flushed
          /\ requested.ready = fill.ready \cup {i}
      <4>1. PICK stage, busy, ready, cursor, flushed, stopped :
               fill = [stage |-> stage, busy |-> busy, ready |-> ready,
                       cursor |-> cursor, flushed |-> flushed,
                       stopped |-> stopped]
        BY <1>1 DEF InOrder, Shaped
      <4>2. requested = [stage |-> stage, busy |-> busy, ready |-> ready \cup {i},
                     cursor |-> cursor, flushed |-> flushed,
                     stopped |-> stopped]
        BY <4>1
      <4>. QED  BY <4>1, <4>2 DEF Shaped
    <3>2. IsFiniteSet(fill.ready \cup {i})
      BY <1>1, FS_AddElement DEF InOrder
    <3> HIDE DEF requested
    <3>. QED  BY <1>1, <3>1, <3>2 DEF InOrder
  <2>2. InOrder(got)
    BY <2>1, FlushInOrder
  <2>3. /\ fill' = NextBatch(got, i)
        /\ listing' = IF got.flushed # fill.flushed THEN Filled(got) ELSE listing
        /\ UNCHANGED <<selection, generation, storeGeneration, inFlight,
                       cachedFrame, leftBehind, listCache>>
    BY <1>3 DEF BatchArrives, aside
  <2> HIDE DEF got, requested
  <2>4. ListOf(Filled(got), selection)
    BY <1>1, <2>2, FilledOf
  <2>5. NoSplice'
    BY <1>1, <2>3, <2>4 DEF SInv, NoSplice
  <2>6. InOrder(fill)'
    <3>1. /\ Shaped(fill') /\ fill'.ready = got.ready
          /\ fill'.flushed = got.flushed
      BY <2>2, <2>3 DEF NextBatch, InOrder, Shaped
    <3>. QED  BY <2>2, <2>3, <3>1 DEF InOrder
  <2>. QED  BY <2>3, <2>5, <2>6 DEF SInv, Belongs
<1>. QED  BY <1>2, <1>3

LEMMA Unspliced == LInv /\ SInv /\ [LibraryNext]_libraryVars => SInv'
<1> SUFFICES ASSUME LInv, SInv, [LibraryNext]_libraryVars PROVE SInv'
  OBVIOUS
<1>1. CASE LibraryProgress
  BY <1>1, FrameUnspliced, RangesUnspliced, FillsUnspliced, BatchesUnspliced
     DEF LibraryProgress
<1>2. CASE LibraryVisitor
  BY <1>2, SelectingUnspliced, VisitingUnspliced, RangesUnspliced
     DEF LibraryVisitor
<1>3. CASE UNCHANGED libraryVars
  BY <1>3 DEF libraryVars, SInv, NoSplice, Belongs, InOrder
<1>. QED  BY <1>1, <1>2, <1>3 DEF LibraryNext

\* No list on the screen or in the cache holds items of two selections, or
\* one at another's place, in whatever order ranges, batches and cached frames
\* of several generations are answered (mergeChunk, tryFlush and the
\* generation checks of usePaginatedLibrary.ts).
THEOREM OneSelection == LibrarySpec => []NoSplice
<1>1. LInv /\ LibraryInit => SInv
  BY SplicesInitially
<1>2. SInv => NoSplice
  BY DEF SInv
<1>. QED
  BY <1>1, <1>2, LibraryInitially, LibraryInductive, Unspliced, PTL DEF LibrarySpec

-----------------------------------------------------------------------------
(* RelaySocket: a connection is never wedged, and a user is in a session   *)
(* only while its page is open or its leave was not heard, for any relays, *)
(* backoff, faults and connections left behind.                            *)

\* What is under way is under way on an open socket, the relay answers who it
\* knows, and the timer runs while there is no socket that serves.
WireInOrder ==
    /\ outbox \in Seq(Messages) /\ inbox \in Seq({"auth_ok"})
    /\ heard \in {"no", "registered", "superseded"}
    /\ inbox # <<>> => heard # "no"
    /\ heard # "no" \/ outbox # <<>> => ws = "open"
    /\ reconnectTimer => ws \in {"none", "closed"}
    /\ shouldReconnect => url \in {Home, Invited}

\* The inductive invariant of the service.
ServiceInv == SocketSound /\ WireInOrder

LEMMA ServiceInitially == SocketInit => ServiceInv
BY DEF SocketInit, ServiceInv, SocketSound, WireInOrder

\* connect and disconnect leave a service in order.
LEMMA CreateSound ==
    ASSUME ServiceInv, NEW throws \in BOOLEAN, CreateConnection(throws),
           shouldReconnect', url' \in {Home, Invited}, ~authenticated'
    PROVE  ServiceInv'
<1>1. /\ pingInterval' = FALSE /\ NoSocket
      /\ \/ ws' = "connecting" /\ reconnectTimer' = FALSE
         \/ ws' = "none" /\ reconnectTimer' = TRUE
  BY DEF CreateConnection, DiscardSocket
<1>. QED  BY <1>1 DEF ServiceInv, SocketSound, WireInOrder, NoSocket

LEMMA ConnectSound ==
    ASSUME ServiceInv, NEW to \in {Home, Invited}, NEW throws \in BOOLEAN,
           ConnectTo(to, throws)
    PROVE  ServiceInv'
<1>1. CASE url = to /\ ws \in {"open", "connecting"}
  BY <1>1 DEF ServiceInv, SocketSound, WireInOrder, ConnectTo, wire
<1>2. CASE ~(url = to /\ ws \in {"open", "connecting"})
  BY <1>2, CreateSound DEF ConnectTo
<1>. QED  BY <1>1, <1>2

LEMMA DisconnectSound ==
    ASSUME ServiceInv, Disconnect
    PROVE  ServiceInv'
BY DEF ServiceInv, SocketSound, WireInOrder, Disconnect, DiscardSocket, NoSocket

\* So does what is sent over it.
LEMMA SendSound ==
    ASSUME ServiceInv, NEW message \in Messages,
           outbox' = Sent(message) \/ UNCHANGED outbox,
           UNCHANGED <<ws, url, shouldReconnect, authenticated, reconnectTimer,
                       pingInterval, inbox, heard>>
    PROVE  ServiceInv'
BY DEF ServiceInv, SocketSound, WireInOrder, Sent

LEMMA ServiceStays ==
    ASSUME ServiceInv,
           UNCHANGED <<ws, url, shouldReconnect, authenticated, reconnectTimer,
                       pingInterval, inbox>>,
           \/ UNCHANGED <<outbox, heard>>
           \/ heard = "registered" /\ heard' = "superseded" /\ outbox' = <<>>
    PROVE  ServiceInv'
<1>1. CASE UNCHANGED <<outbox, heard>>
  BY <1>1 DEF ServiceInv, SocketSound, WireInOrder
<1>2. CASE heard = "registered" /\ heard' = "superseded" /\ outbox' = <<>>
  BY <1>2 DEF ServiceInv, SocketSound, WireInOrder
<1>. QED  BY <1>1, <1>2

LEMMA ServiceStep == ServiceInv /\ [SocketNext]_socketVars => ServiceInv'
<1> SUFFICES ASSUME ServiceInv, [SocketNext]_socketVars PROVE ServiceInv'
  OBVIOUS
<1> USE DEF ServiceInv, SocketSound, WireInOrder
<1>1. CASE SocketOpens
  BY <1>1 DEF SocketOpens, Messages
<1>2. CASE SocketCloses
  <2>1. WireInOrder'
    BY <1>2 DEF SocketCloses, NoSocket
  <2>2. /\ ws' = "closed" /\ authenticated' = FALSE /\ pingInterval' = FALSE
        /\ UNCHANGED shouldReconnect /\ shouldReconnect /\ reconnectTimer' = TRUE
    BY <1>2 DEF SocketCloses, ScheduleReconnect
  <2>. QED  BY <2>1, <2>2
<1>3. ASSUME NEW throws \in BOOLEAN, Reconnect(throws) PROVE ServiceInv'
  <2>1. shouldReconnect /\ ~authenticated
    BY <1>3 DEF Reconnect
  <2>. QED  BY <1>3, <2>1, CreateSound DEF Reconnect
<1>4. CASE RelayRegisters \/ RelayHandles
  <2>1. /\ outbox # <<>> /\ outbox' = Tail(outbox)
        /\ UNCHANGED <<ws, url, shouldReconnect, authenticated, reconnectTimer,
                       pingInterval>>
    BY <1>4 DEF RelayRegisters, RelayHandles, webviewVars, timers
  <2>2. outbox' \in Seq(Messages)
    BY <2>1
  <2>3. \/ heard' = "registered" /\ inbox' = Append(inbox, "auth_ok")
        \/ UNCHANGED heard /\ UNCHANGED inbox
    BY <1>4 DEF RelayRegisters, RelayHandles
  <2>4. inbox' \in Seq({"auth_ok"}) /\ (heard # "no" => heard' # "no")
    BY <2>3
  <2>5. (inbox' # <<>> => heard' # "no") /\ heard' \in {"no", "registered", "superseded"}
    BY <2>3
  <2>. QED  BY <2>1, <2>2, <2>4, <2>5
<1>5. CASE AuthOk
  <2>1. /\ inbox # <<>> /\ inbox' = Tail(inbox) /\ authenticated' = TRUE
        /\ UNCHANGED <<ws, url, shouldReconnect, reconnectTimer, pingInterval, heard>>
    BY <1>5 DEF AuthOk, timers
  <2>2. outbox' \in {outbox, Append(outbox, "join")}
    BY <1>5, <2>1 DEF AuthOk, Proceed, Sent
  <2>3. outbox' \in Seq(Messages) /\ inbox' \in Seq({"auth_ok"})
    BY <2>1, <2>2, SMTT(20) DEF Messages
  <2>. QED  BY <2>1, <2>3
<1>6. CASE OpenSession
  BY <1>6, SendSound DEF OpenSession, Proceed, timers, Messages
<1>7. ASSUME NEW throws \in BOOLEAN, Identified(throws) PROVE ServiceInv'
  <2>1. CASE url = Invited /\ isConnected
    BY <1>7, <2>1 DEF Identified, Proceed, Sent, Messages, isConnected
  <2>2. CASE ~(url = Invited /\ isConnected)
    BY <1>7, <2>2, ConnectSound DEF Identified
  <2>. QED  BY <2>1, <2>2
<1>8. ASSUME NEW throws \in BOOLEAN, StrayIdentified(throws) \/ LookedUp(throws)
      PROVE  ServiceInv'
  BY <1>8, ConnectSound DEF StrayIdentified, LookedUp
<1>9. CASE CloseSession
  BY <1>9, SendSound DEF CloseSession, timers, Messages
<1>10. CASE SignOut \/ RefreshInvites
  BY <1>10, DisconnectSound DEF SignOut, RefreshInvites
<1>11. ASSUME NEW k \in Slots,
              RelayRegistersLate(k) \/ RelayHandlesLate(k) \/ RelayEnds(k)
       PROVE  ServiceInv'
  <2>1. UNCHANGED <<ws, url, shouldReconnect, authenticated, reconnectTimer,
                    pingInterval, inbox>>
    BY <1>11 DEF RelayRegistersLate, RelayHandlesLate, RelayEnds, webviewVars, timers
  <2>2. \/ UNCHANGED <<outbox, heard>>
        \/ heard = "registered" /\ heard' = "superseded" /\ outbox' = <<>>
    BY <1>11 DEF RelayRegistersLate, RelayHandlesLate, RelayEnds
  <2>. QED  BY <2>1, <2>2, ServiceStays
<1>12. CASE JoinFails \/ SignIn \/ RefreshFires \/ LookupFails \/ UNCHANGED socketVars
  BY <1>12, ServiceStays
     DEF JoinFails, SignIn, RefreshFires, LookupFails, socketVars, service, wire, timers
<1>. QED
  BY <1>1, <1>2, <1>3, <1>4, <1>5, <1>6, <1>7, <1>8, <1>9, <1>10, <1>11, <1>12
     DEF SocketNext, SocketProgress

\* However connects, disconnects, broken connections and the reconnect timer
\* of watch-sync.ts interleave, the service is not wedged and not left running.
THEOREM ConnectionSound == SocketSpec => []SocketSound
<1>1. ServiceInv => SocketSound
  BY DEF ServiceInv
<1>. QED  BY <1>1, ServiceInitially, ServiceStep, PTL DEF SocketSpec

-----------------------------------------------------------------------------
(* Members and pages *)

\* No join is under way in the messages s.
NoJoin(s) == \A i \in 1..Len(s) : s[i] # "join"

\* A leave is, and no join behind it.
LeaveLast(s) == \E i \in 1..Len(s) :
                   /\ s[i] = "leave"
                   /\ \A j \in 1..Len(s) : j > i => s[j] # "join"

\* What the relay r will have heard at the end of the messages s of the
\* user's registered connection: the user has left.
Bye(s, r) == r \in members \/ ~NoJoin(s) => LeaveLast(s)

AuthAhead(s) == s # <<>> /\ Head(s) = "auth" /\ NoJoin(s)

OldTyped ==
    /\ old = [k \in Slots |-> old[k]]
    /\ \A k \in Slots : old[k] # None => old[k] \in Connection
    /\ members \in SUBSET {Home, Invited}

\* A user is in a session by their registered connection, of which a relay
\* has one.
Linked ==
    /\ \A r \in members :
          (heard = "registered" /\ url = r) \/ Registered(r) # {}
    /\ heard = "registered" => Registered(url) = {}
    /\ \A r \in {Home, Invited} : \A j, k \in Registered(r) : j = k

\* A connection that is not registered sends auth first, and joins no session.
AuthComes ==
    /\ heard = "no" /\ ws = "open" => AuthAhead(outbox)
    /\ heard = "superseded" => outbox = <<>>
    /\ \A k \in Slots : old[k] # None /\ ~old[k].registered => AuthAhead(old[k].outbox)

\* While no page is open, every join under way on the socket is followed by a
\* leave; and unless one was not heard, so is membership on every connection.
LeavesFollow ==
    /\ joining = None /\ ~NoJoin(outbox) => LeaveLast(outbox)
    /\ joining = None /\ ~unheard =>
          /\ heard = "registered" => Bye(outbox, url)
          /\ \A k \in Slots : old[k] # None /\ old[k].registered =>
                                 Bye(old[k].outbox, old[k].relay)

PageInv == OldTyped /\ Linked /\ AuthComes /\ LeavesFollow

MemberInv == ServiceInv /\ PageInv

\* The relay reads a message: the leave is still behind, or it was this one
\* and no join is left.
LEMMA LeaveRead ==
    ASSUME NEW s \in Seq(Messages), s # <<>>
    PROVE  /\ Tail(s) \in Seq(Messages) /\ Head(s) \in Messages
           /\ LeaveLast(s) => \/ LeaveLast(Tail(s))
                              \/ Head(s) = "leave" /\ NoJoin(Tail(s))
           /\ NoJoin(s) => NoJoin(Tail(s)) /\ Head(s) # "join"
<1>1. /\ Len(s) \in Nat \ {0} /\ Len(Tail(s)) = Len(s) - 1
      /\ Head(s) = s[1] /\ \A i \in 1..Len(Tail(s)) : Tail(s)[i] = s[i + 1]
  BY HeadTailProperties, EmptySeq
<1>2. ASSUME NoJoin(s) PROVE NoJoin(Tail(s)) /\ Head(s) # "join"
  BY <1>1, <1>2 DEF NoJoin
<1>3. ASSUME NEW i \in 1..Len(s), s[i] = "leave",
             \A j \in 1..Len(s) : j > i => s[j] # "join"
      PROVE  LeaveLast(Tail(s)) \/ (Head(s) = "leave" /\ NoJoin(Tail(s)))
  <2>1. CASE i = 1
    BY <1>1, <1>3, <2>1 DEF NoJoin
  <2>2. CASE i # 1
    <3>1. i - 1 \in 1..Len(Tail(s)) /\ Tail(s)[i - 1] = "leave"
      BY <1>1, <1>3, <2>2
    <3>2. \A j \in 1..Len(Tail(s)) : j > i - 1 => Tail(s)[j] # "join"
      BY <1>1, <1>3
    <3>. QED  BY <3>1, <3>2 DEF LeaveLast
  <2>. QED  BY <2>1, <2>2
<1>4. Tail(s) \in Seq(Messages) /\ Head(s) \in Messages
  BY HeadTailProperties
<1>. QED  BY <1>2, <1>3, <1>4 DEF LeaveLast

LEMMA LeaveSent ==
    ASSUME NEW s \in Seq(Messages)
    PROVE  /\ LeaveLast(Append(s, "leave"))
           /\ AuthAhead(s) => AuthAhead(Append(s, "leave"))
           /\ Append(s, "leave") # s
<1>1. /\ Len(s) \in Nat /\ Len(Append(s, "leave")) = Len(s) + 1
      /\ Append(s, "leave")[Len(s) + 1] = "leave"
      /\ \A i \in 1..Len(s) : Append(s, "leave")[i] = s[i]
  BY AppendProperties DEF Messages
<1>2. ASSUME AuthAhead(s) PROVE AuthAhead(Append(s, "leave"))
  <2>1. Len(s) >= 1 /\ s[1] = "auth"
    BY <1>1, <1>2, EmptySeq DEF AuthAhead
  <2>2. Append(s, "leave")[1] = "auth" /\ Append(s, "leave") # <<>>
    BY <1>1, <2>1
  <2>3. NoJoin(Append(s, "leave"))
    BY <1>1, <1>2 DEF AuthAhead, NoJoin
  <2>. QED  BY <2>2, <2>3 DEF AuthAhead
<1>. QED  BY <1>1, <1>2 DEF LeaveLast

\* A connection breaks: the first n messages still come.  Joins among them are
\* followed by a leave as before, unless a leave is lost.
LEMMA Cut ==
    ASSUME NEW s \in Seq(Messages), NEW n \in 0..Len(s)
    PROVE  LET p == SubSeq(s, 1, n) IN
           /\ p \in Seq(Messages)
           /\ p # <<>> /\ AuthAhead(s) => AuthAhead(p)
           /\ NoJoin(s) => NoJoin(p)
           /\ LeaveLast(s) => LeaveLast(p) \/ LeaveIn(SubSeq(s, n + 1, Len(s)))
<1>. DEFINE p == SubSeq(s, 1, n)
<1>. DEFINE q == SubSeq(s, n + 1, Len(s))
<1>0. Len(s) \in Nat
  OBVIOUS
<1>1. /\ p \in Seq(Messages) /\ Len(p) = n
      /\ \A i \in 1..n : p[i] = s[i]
  BY <1>0, SubSeqProperties
<1>2. /\ Len(q) = Len(s) - n
      /\ \A i \in 1..(Len(s) - n) : q[i] = s[n + i]
      /\ DOMAIN q = 1..(Len(s) - n)
  BY <1>0, SubSeqProperties
<1>3. NoJoin(s) => NoJoin(p)
  BY <1>0, <1>1 DEF NoJoin
<1>4. ASSUME p # <<>>, AuthAhead(s) PROVE AuthAhead(p)
  <2>1. n >= 1
    BY <1>0, <1>1, <1>4, EmptySeq
  <2>2. Head(p) = Head(s)
    BY <1>0, <1>1, <2>1
  <2>. QED  BY <1>3, <1>4, <2>2 DEF AuthAhead
<1>5. ASSUME NEW i \in 1..Len(s), s[i] = "leave",
             \A j \in 1..Len(s) : j > i => s[j] # "join"
      PROVE  LeaveLast(p) \/ LeaveIn(q)
  <2>1. CASE i <= n
    BY <1>0, <1>1, <1>5, <2>1 DEF LeaveLast
  <2>2. CASE i > n
    <3>1. i - n \in 1..(Len(s) - n) /\ q[i - n] = "leave"
      BY <1>0, <1>2, <1>5, <2>2
    <3>. QED  BY <1>2, <3>1 DEF LeaveIn
  <2>. QED  BY <1>0, <2>1, <2>2
<1>. QED  BY <1>1, <1>3, <1>4, <1>5 DEF LeaveLast

LEMMA LeaveLastIn ==
    ASSUME NEW s \in Seq(Messages), LeaveLast(s)
    PROVE  LeaveIn(s)
BY DEF LeaveLast, LeaveIn

\* With nobody in a session and nothing left behind, membership is no matter.
LEMMA NothingLingers ==
    ASSUME OldTyped', ~Lingers',
           joining' = None /\ ~NoJoin(outbox') => LeaveLast(outbox')
    PROVE  LeavesFollow'

BY DEF OldTyped, Lingers, LeavesFollow, Bye
\* The socket is left: what is on its way on it, or a first part of that, is
\* on a connection left behind.
LEMMA LeftKeeps ==
    ASSUME MemberInv, NEW p \in Seq(Messages),
           Left(p), NoSocket, UNCHANGED members, ws' # "open",
           p # <<>> /\ AuthAhead(outbox) => AuthAhead(p),
           heard = "no" => (outbox = <<>> => p = <<>>),
           joining' = None => joining = None,
           joining' = None /\ ~unheard' /\ Lingers' =>
              /\ ~unheard
              /\ NoJoin(outbox) => NoJoin(p)
              /\ LeaveLast(outbox) => LeaveLast(p)
    PROVE  PageInv'
<1>. DEFINE w == [relay |-> url, outbox |-> p, registered |-> heard = "registered"]
<1>0. /\ OldTyped /\ Linked /\ AuthComes /\ LeavesFollow
      /\ heard \in {"no", "registered", "superseded"}
      /\ outbox' = <<>> /\ heard' = "no" /\ members' = members
  BY DEF MemberInv, PageInv, ServiceInv, WireInOrder, NoSocket
<1>1. CASE UNCHANGED old /\ heard # "registered"
  <2>1. OldTyped' /\ Linked'
    BY <1>0, <1>1 DEF OldTyped, Linked, Registered
  <2>2. AuthComes'
    BY <1>0, <1>1 DEF AuthComes
  <2>3. joining' = None /\ ~NoJoin(outbox') => LeaveLast(outbox')
    BY <1>0 DEF NoJoin
  <2>4. LeavesFollow'
    <3>1. CASE Lingers'
      BY <1>0, <1>1, <2>3, <3>1 DEF LeavesFollow, Bye
    <3>2. CASE ~Lingers'
      BY <2>1, <2>3, <3>2, NothingLingers
    <3>. QED  BY <3>1, <3>2
  <2>. QED  BY <2>1, <2>2, <2>4 DEF PageInv
<1>2. ASSUME NEW k \in Slots, old[k] = None, old' = [old EXCEPT ![k] = w],
             heard = "registered" \/ (heard = "no" /\ p # <<>>)
      PROVE  PageInv'
  <2>1. ws = "open" /\ url \in {Home, Invited}
    BY <1>2, EmptySeq DEF MemberInv, ServiceInv, WireInOrder, SocketSound
  <2>2. w \in Connection /\ w # None
    <3>1. w \in Connection
      BY <2>1 DEF Connection
    <3>. QED  BY <3>1, SocketAssumption
  <2>3. /\ old'[k] = w
        /\ \A j \in Slots : j # k => old'[j] = old[j]
        /\ old' = [j \in Slots |-> old'[j]]
    BY <1>0, <1>2 DEF OldTyped
  <2>. HIDE DEF w
  <2>4. w.relay = url /\ w.outbox = p /\ (w.registered <=> heard = "registered")
    BY DEF w
  <2>5. OldTyped'
    BY <1>0, <2>2, <2>3 DEF OldTyped
  <2>6. /\ \A r : heard = "registered" /\ r = url => Registered(r)' = Registered(r) \cup {k}
        /\ \A r : ~(heard = "registered" /\ r = url) => Registered(r)' = Registered(r)
    BY <1>2, <2>2, <2>3, <2>4 DEF Registered
  <2>7. Linked'
    BY <1>0, <2>1, <2>6 DEF Linked
  <2>8. AuthComes'
    <3>1. heard = "no" => AuthAhead(p)
      BY <1>0, <1>2, <2>1 DEF AuthComes
    <3>2. ASSUME NEW j \in Slots, old'[j] # None, ~old'[j].registered
          PROVE  AuthAhead(old'[j].outbox)
      <4>1. CASE j = k
        <5>1. heard = "no"
          BY <1>2, <2>3, <2>4, <3>2, <4>1
        <5>. QED  BY <2>3, <2>4, <3>1, <4>1, <5>1
      <4>2. CASE j # k
        BY <1>0, <2>3, <3>2, <4>2 DEF AuthComes
      <4>. QED  BY <4>1, <4>2
    <3>. QED  BY <1>0, <3>2 DEF AuthComes
  <2>9. LeavesFollow'
    <3>1. joining' = None /\ ~NoJoin(outbox') => LeaveLast(outbox')
      BY <1>0 DEF NoJoin
    <3>2. Lingers'
      BY <2>2, <2>3 DEF Lingers
    <3>3. ASSUME joining' = None, ~unheard', NEW j \in Slots, old'[j] # None,
                 old'[j].registered
          PROVE  old'[j].relay \in members' \/ ~NoJoin(old'[j].outbox) =>
                    LeaveLast(old'[j].outbox)
      <4>1. CASE j = k
        <5>1. heard = "registered" /\ (url \in members \/ ~NoJoin(outbox) => LeaveLast(outbox))
          BY <1>0, <2>3, <2>4, <3>2, <3>3, <4>1 DEF LeavesFollow, Bye
        <5>2. url \in members' \/ ~NoJoin(p) => LeaveLast(p)
          BY <1>0, <3>2, <3>3, <5>1
        <5>. QED  BY <2>3, <2>4, <4>1, <5>2
      <4>2. CASE j # k
        BY <1>0, <2>3, <3>2, <3>3, <4>2 DEF LeavesFollow, Bye
      <4>. QED  BY <4>1, <4>2
    <3>. QED  BY <1>0, <3>1, <3>3 DEF LeavesFollow, Bye
  <2>. QED  BY <2>5, <2>7, <2>8, <2>9 DEF PageInv
<1>. QED  BY <1>1, <1>2 DEF Left

LEMMA DiscardKeeps ==
    ASSUME MemberInv, DiscardSocket, ws' # "open",
           joining' = None => joining = None
    PROVE  PageInv'
<1>1. outbox \in Seq(Messages)
  BY DEF MemberInv, ServiceInv, WireInOrder
<1>. QED  BY <1>1, LeftKeeps DEF DiscardSocket

LEMMA BreakKeeps == MemberInv /\ SocketCloses => PageInv'
<1> SUFFICES ASSUME MemberInv, SocketCloses PROVE PageInv'
  OBVIOUS
<1>1. outbox \in Seq(Messages)
  BY DEF MemberInv, ServiceInv, WireInOrder
<1>2. PICK n \in 0..Len(outbox) :
         /\ Left(SubSeq(outbox, 1, n))
         /\ Unheard(LeaveIn(SubSeq(outbox, n + 1, Len(outbox))))
  BY DEF SocketCloses
<1>3. /\ NoSocket /\ UNCHANGED members /\ ws' # "open" /\ UNCHANGED joining
  BY DEF SocketCloses
<1>. DEFINE p == SubSeq(outbox, 1, n)
<1>4. /\ p \in Seq(Messages)
      /\ p # <<>> /\ AuthAhead(outbox) => AuthAhead(p)
      /\ NoJoin(outbox) => NoJoin(p)
      /\ LeaveLast(outbox) => LeaveLast(p) \/ LeaveIn(SubSeq(outbox, n + 1, Len(outbox)))
  BY <1>1, Cut
<1>5. outbox = <<>> => p = <<>>
  <2>1. outbox = <<>> => n = 0
    BY EmptySeq
  <2>. QED  BY <1>1, <2>1
<1>6. ~unheard' /\ Lingers' => /\ ~unheard
                               /\ ~LeaveIn(SubSeq(outbox, n + 1, Len(outbox)))
  BY <1>2 DEF Unheard
<1>. HIDE DEF p
<1>7. Left(p)
  BY <1>2 DEF p
<1>. QED  BY <1>3, <1>4, <1>5, <1>6, <1>7, LeftKeeps

LEMMA ConnectKeeps ==
    ASSUME MemberInv, NEW to, NEW throws, ConnectTo(to, throws),
           joining' = None => joining = None
    PROVE  PageInv'
<1>1. CASE url = to /\ ws \in {"open", "connecting"}
  <2>1. UNCHANGED <<url, ws, outbox, heard, old, members, unheard>>
    BY <1>1 DEF ConnectTo, wire
  <2>. QED  BY <2>1 DEF MemberInv, PageInv, OldTyped, Linked, Registered, AuthComes,
                        LeavesFollow, Bye
<1>2. CASE ~(url = to /\ ws \in {"open", "connecting"})
  <2>1. DiscardSocket /\ ws' # "open"
    BY <1>2 DEF ConnectTo, CreateConnection
  <2>. QED  BY <2>1, DiscardKeeps
<1>. QED  BY <1>1, <1>2

\* What a step leaves alone stays in order.
LEMMA PageStays ==
    ASSUME MemberInv, UNCHANGED <<ws, url, outbox, heard, old, members, unheard>>,
           joining' = None => joining = None
    PROVE  PageInv'
BY DEF MemberInv, PageInv, OldTyped, Linked, Registered, AuthComes, LeavesFollow, Bye

LEMMA SendKeeps ==
    ASSUME MemberInv, UNCHANGED <<ws, url, heard, old, members, unheard>>,
           joining' # None,
           outbox' = outbox \/ (heard # "no" /\ outbox' = Sent("join"))
    PROVE  PageInv'
BY DEF MemberInv, PageInv, OldTyped, Linked, Registered, AuthComes, LeavesFollow, Sent

LEMMA OpenKeeps == MemberInv /\ SocketOpens => PageInv'
<1> SUFFICES ASSUME MemberInv, SocketOpens PROVE PageInv'
  OBVIOUS
<1>1. /\ heard = "no" /\ outbox' = <<"auth">>
      /\ UNCHANGED <<url, heard, old, members, unheard, joining>>
  BY DEF SocketOpens, MemberInv, ServiceInv, WireInOrder
<1>2. NoJoin(<<"auth">>) /\ AuthAhead(<<"auth">>)
  BY DEF NoJoin, AuthAhead
<1>. QED
  BY <1>1, <1>2 DEF MemberInv, PageInv, OldTyped, Linked, Registered, AuthComes,
                    LeavesFollow, Bye

\* What a relay's session loses by reading a message of its member.
LEMMA ByeRead ==
    ASSUME NEW s \in Seq(Messages), s # <<>>, Head(s) # "auth", NEW r, Bye(s, r),
           members' = MembersAfter(Head(s), r)
    PROVE  r \in members' \/ ~NoJoin(Tail(s)) => LeaveLast(Tail(s))
<1>1. Head(s) \in {"join", "leave"}
  BY LeaveRead DEF Messages
<1>2. CASE Head(s) = "join"
  BY <1>2, LeaveRead DEF Bye
<1>3. CASE Head(s) = "leave"
  <2>1. r \notin members'
    BY <1>3 DEF MembersAfter
  <2>. QED  BY <2>1, LeaveRead DEF Bye
<1>. QED  BY <1>1, <1>2, <1>3

LEMMA RegisterKeeps == MemberInv /\ RelayRegisters => PageInv'
<1> SUFFICES ASSUME MemberInv, RelayRegisters PROVE PageInv'
  OBVIOUS
<1>. DEFINE gone == \E k \in Registered(url) : LeaveIn(old[k].outbox)
<1>0. /\ OldTyped /\ Linked /\ AuthComes /\ LeavesFollow
      /\ heard \in {"no", "registered", "superseded"} /\ ws = "open"
      /\ url \in {Home, Invited} /\ outbox \in Seq(Messages)
  BY DEF RelayRegisters, MemberInv, PageInv, ServiceInv, WireInOrder, SocketSound
<1>1. /\ outbox # <<>> /\ Head(outbox) = "auth" /\ outbox' = Tail(outbox)
      /\ heard' = "registered"
      /\ old' = [k \in Slots |-> IF k \in Registered(url) THEN None ELSE old[k]]
      /\ UNCHANGED <<url, joining, members>> /\ Unheard(gone)
  BY DEF RelayRegisters, webviewVars, sessionVars
<1>2. /\ LeaveLast(outbox) => LeaveLast(outbox')
      /\ NoJoin(outbox) => NoJoin(outbox')
  BY <1>0, <1>1, LeaveRead
<1>3. OldTyped'
  BY <1>0, <1>1 DEF OldTyped
<1>4. /\ Registered(url)' = {}
      /\ \A r : r # url => Registered(r)' = Registered(r)
  BY <1>1 DEF Registered
<1>5. Linked'
  BY <1>0, <1>1, <1>4 DEF Linked
<1>6. AuthComes'
  BY <1>1, <1>0 DEF AuthComes
<1>7. joining' = None /\ ~NoJoin(outbox') => LeaveLast(outbox')
  BY <1>0, <1>1, <1>2 DEF LeavesFollow
<1>8. ASSUME Lingers', joining' = None, ~unheard'
      PROVE  url \in members \/ ~NoJoin(outbox') => LeaveLast(outbox')
  <2>1. ~unheard /\ ~gone
    BY <1>1, <1>8 DEF Unheard
  <2>2. CASE heard = "registered"
    BY <1>0, <1>1, <1>2, <1>8, <2>1, <2>2 DEF LeavesFollow, Bye
  <2>3. CASE heard # "registered"
    <3>1. NoJoin(outbox)
      BY <1>0, <1>1, <2>3 DEF AuthComes, AuthAhead
    <3>2. ASSUME url \in members PROVE FALSE
      <4>1. PICK k \in Registered(url) : TRUE
        BY <1>0, <2>3, <3>2 DEF Linked
      <4>2. /\ k \in Slots /\ old[k] # None /\ old[k].relay = url
            /\ old[k].registered /\ old[k].outbox \in Seq(Messages)
        BY <1>0, <4>1 DEF Registered, OldTyped, Connection
      <4>3. LeaveLast(old[k].outbox)
        BY <1>0, <1>1, <1>8, <2>1, <3>2, <4>2 DEF LeavesFollow, Bye
      <4>. QED  BY <2>1, <4>1, <4>2, <4>3, LeaveLastIn
    <3>. QED  BY <1>2, <3>1, <3>2
  <2>. QED  BY <2>2, <2>3
<1>9. LeavesFollow'
  <2>1. CASE Lingers'
    <3>1. ~unheard' => ~unheard
      BY <1>1, <2>1 DEF Unheard
    <3>. QED  BY <1>0, <1>1, <1>7, <1>8, <2>1, <3>1 DEF LeavesFollow, Bye
  <2>2. CASE ~Lingers'
    BY <1>3, <1>7, <2>2, NothingLingers
  <2>. QED  BY <2>1, <2>2
<1>. QED  BY <1>3, <1>5, <1>6, <1>9 DEF PageInv

LEMMA HandleKeeps == MemberInv /\ RelayHandles => PageInv'
<1> SUFFICES ASSUME MemberInv, RelayHandles PROVE PageInv'
  OBVIOUS
<1>0. /\ OldTyped /\ Linked /\ AuthComes /\ LeavesFollow
      /\ heard \in {"no", "registered", "superseded"} /\ ws = "open"
      /\ url \in {Home, Invited} /\ outbox \in Seq(Messages)
  BY DEF RelayHandles, MemberInv, PageInv, ServiceInv, WireInOrder, SocketSound
<1>1. /\ outbox # <<>> /\ Head(outbox) # "auth" /\ outbox' = Tail(outbox)
      /\ members' = MembersAfter(Head(outbox), url)
      /\ UNCHANGED <<url, joining, heard, old>> /\ Unheard(FALSE)
  BY DEF RelayHandles, webviewVars, sessionVars
<1>2. heard = "registered"
  BY <1>0, <1>1 DEF AuthComes, AuthAhead
<1>3. OldTyped'
  BY <1>0, <1>1 DEF OldTyped, MembersAfter
<1>4. /\ \A r : Registered(r)' = Registered(r)
      /\ \A r : r # url => (r \in members' <=> r \in members)
  BY <1>1 DEF Registered, MembersAfter
<1>5. Linked'
  BY <1>0, <1>1, <1>2, <1>4 DEF Linked
<1>6. AuthComes'
  BY <1>0, <1>1, <1>2 DEF AuthComes
<1>7. joining' = None /\ ~NoJoin(outbox') => LeaveLast(outbox')
  BY <1>0, <1>1, LeaveRead DEF LeavesFollow
<1>8. LeavesFollow'
  <2>1. CASE Lingers'
    <3>1. ~unheard' => ~unheard
      BY <1>1, <2>1 DEF Unheard
    <3>2. ASSUME joining' = None, ~unheard'
          PROVE  url \in members' \/ ~NoJoin(outbox') => LeaveLast(outbox')
      BY <1>0, <1>1, <1>2, <3>1, <3>2, ByeRead DEF LeavesFollow
    <3>3. \A k \in Slots : old[k] # None /\ old[k].registered => old[k].relay # url
      BY <1>0, <1>2 DEF Linked, Registered
    <3>. QED  BY <1>0, <1>1, <1>4, <1>7, <3>1, <3>2, <3>3 DEF LeavesFollow, Bye
  <2>2. CASE ~Lingers'
    BY <1>3, <1>7, <2>2, NothingLingers
  <2>. QED  BY <2>1, <2>2
<1>. QED  BY <1>3, <1>5, <1>6, <1>8 DEF PageInv

LEMMA LateRegisterKeeps ==
    ASSUME MemberInv, NEW k \in Slots, RelayRegistersLate(k)
    PROVE  PageInv'
<1>. DEFINE w == old[k]
<1>. DEFINE first == heard = "registered" /\ w.relay = url
<1>. DEFINE gone == IF first THEN LeaveIn(outbox)
                    ELSE \E j \in Registered(w.relay) : LeaveIn(old[j].outbox)
<1>0. /\ OldTyped /\ Linked /\ AuthComes /\ LeavesFollow
      /\ heard \in {"no", "registered", "superseded"} /\ outbox \in Seq(Messages)
  BY DEF MemberInv, PageInv, ServiceInv, WireInOrder
<1>1. w \in Connection /\ w # None /\ w.outbox \in Seq(Messages) /\ w.outbox # <<>>
  BY <1>0 DEF RelayRegistersLate, OldTyped, Connection
<1>. DEFINE v == [w EXCEPT !.outbox = Tail(@), !.registered = TRUE]
<1>2. /\ v \in Connection /\ v # None /\ v.registered
      /\ v.relay = w.relay /\ v.outbox = Tail(w.outbox)
  <2>1. v \in Connection
    BY <1>1, LeaveRead DEF Connection
  <2>. QED  BY <1>1, <2>1, SocketAssumption DEF Connection
<1>3. /\ old' = [j \in Slots |-> IF j = k THEN v
                                 ELSE IF j \in Registered(w.relay) THEN None ELSE old[j]]
      /\ UNCHANGED <<url, ws, joining, members>> /\ Unheard(gone)
      /\ first => heard' = "superseded" /\ outbox' = <<>>
      /\ ~first => UNCHANGED <<heard, outbox>>
  BY DEF RelayRegistersLate, webviewVars, sessionVars
<1>. HIDE DEF w, v
<1>4. OldTyped'
  BY <1>0, <1>2, <1>3 DEF OldTyped
<1>5. /\ \A r : r = w.relay => Registered(r)' = {k}
      /\ \A r : r # w.relay => Registered(r)' = Registered(r)
  BY <1>2, <1>3 DEF Registered, w
<1>6. Linked'
  <2>1. ASSUME NEW r \in members'
        PROVE  (heard' = "registered" /\ url' = r) \/ Registered(r)' # {}
    <3>1. CASE r = w.relay
      BY <1>5, <3>1
    <3>2. CASE r # w.relay
      <4>1. Registered(r)' = Registered(r) /\ r \in members
        BY <1>3, <1>5, <2>1, <3>2
      <4>2. heard = "registered" /\ url = r => heard' = "registered" /\ url' = r
        BY <1>3, <3>2
      <4>. QED  BY <1>0, <4>1, <4>2 DEF Linked
    <3>. QED  BY <3>1, <3>2
  <2>2. heard' = "registered" => Registered(url)' = {}
    BY <1>0, <1>3, <1>5 DEF Linked
  <2>3. \A r \in {Home, Invited} : \A i, j \in Registered(r)' : i = j
    <3>1. ASSUME NEW r \in {Home, Invited}, NEW i \in Registered(r)',
                 NEW j \in Registered(r)'
          PROVE  i = j
      <4>1. CASE r = w.relay
        BY <1>5, <3>1, <4>1
      <4>2. CASE r # w.relay
        <5>1. i \in Registered(r) /\ j \in Registered(r)
          BY <1>5, <3>1, <4>2
        <5>. QED  BY <1>0, <5>1 DEF Linked
      <4>. QED  BY <4>1, <4>2
    <3>. QED  BY <3>1
  <2>. QED  BY <1>3, <2>1, <2>2, <2>3 DEF Linked
<1>7. AuthComes'
  BY <1>0, <1>2, <1>3 DEF AuthComes
<1>8. joining' = None /\ ~NoJoin(outbox') => LeaveLast(outbox')
  BY <1>0, <1>3 DEF LeavesFollow, NoJoin
<1>9. ASSUME Lingers', joining' = None, ~unheard'
      PROVE  w.relay \notin members /\ NoJoin(w.outbox)
  <2>1. ~unheard /\ ~gone
    BY <1>3, <1>9 DEF Unheard
  <2>2. ASSUME NEW j \in Registered(w.relay), ~first
        PROVE  w.relay \notin members /\ NoJoin(old[j].outbox)
    <3>1. /\ j \in Slots /\ old[j] # None /\ old[j].registered
          /\ old[j].relay = w.relay /\ old[j].outbox \in Seq(Messages)
      BY <1>0, <2>2 DEF Registered, OldTyped, Connection
    <3>2. ~LeaveLast(old[j].outbox)
      BY <2>1, <2>2, <3>1, LeaveLastIn
    <3>. QED  BY <1>0, <1>3, <1>9, <2>1, <3>1, <3>2 DEF LeavesFollow, Bye
  <2>3. ASSUME first PROVE w.relay \notin members
    <3>1. ~LeaveLast(outbox)
      BY <1>0, <2>1, <2>3, LeaveLastIn
    <3>. QED  BY <1>0, <1>3, <1>9, <2>1, <2>3, <3>1 DEF LeavesFollow, Bye
  <2>4. w.relay \notin members
    <3>1. CASE first
      BY <2>3, <3>1
    <3>2. CASE ~first
      BY <1>0, <2>2, <3>2 DEF Linked
    <3>. QED  BY <3>1, <3>2
  <2>5. NoJoin(w.outbox)
    <3>1. CASE w.registered
      <4>1. k \in Registered(w.relay)
        BY <1>1, <3>1 DEF Registered, w
      <4>2. ~first
        BY <1>0, <4>1 DEF Linked
      <4>. QED  BY <2>2, <4>1, <4>2 DEF w
    <3>2. CASE ~w.registered
      BY <1>0, <1>1, <3>2 DEF AuthComes, AuthAhead, w
    <3>. QED  BY <3>1, <3>2
  <2>. QED  BY <2>4, <2>5
<1>10. LeavesFollow'
  <2>1. CASE Lingers'
    <3>1. ~unheard' => ~unheard
      BY <1>3, <2>1 DEF Unheard
    <3>2. ASSUME joining' = None, ~unheard', NEW j \in Slots, old'[j] # None,
                 old'[j].registered
          PROVE  old'[j].relay \in members' \/ ~NoJoin(old'[j].outbox) =>
                    LeaveLast(old'[j].outbox)
      <4>1. CASE j = k
        <5>1. w.relay \notin members /\ NoJoin(w.outbox)
          BY <1>9, <2>1, <3>2
        <5>2. NoJoin(Tail(w.outbox))
          BY <1>1, <5>1, LeaveRead
        <5>. QED  BY <1>2, <1>3, <4>1, <5>1, <5>2
      <4>2. CASE j # k
        <5>1. old'[j] = old[j]
          BY <1>3, <3>2, <4>2
        <5>. QED  BY <1>0, <1>3, <3>1, <3>2, <5>1 DEF LeavesFollow, Bye
      <4>. QED  BY <4>1, <4>2
    <3>3. joining' = None /\ ~unheard' /\ heard' = "registered" =>
             (url' \in members' \/ ~NoJoin(outbox') => LeaveLast(outbox'))
      BY <1>0, <1>3, <3>1 DEF LeavesFollow, Bye
    <3>. QED  BY <1>8, <3>2, <3>3 DEF LeavesFollow, Bye
  <2>2. CASE ~Lingers'
    BY <1>4, <1>8, <2>2, NothingLingers
  <2>. QED  BY <2>1, <2>2
<1>. QED  BY <1>4, <1>6, <1>7, <1>10 DEF PageInv

LEMMA LateHandleKeeps ==
    ASSUME MemberInv, NEW k \in Slots, RelayHandlesLate(k)
    PROVE  PageInv'
<1>. DEFINE w == old[k]
<1>0. /\ OldTyped /\ Linked /\ AuthComes /\ LeavesFollow
  BY DEF MemberInv, PageInv
<1>1. /\ w \in Connection /\ w # None /\ w.outbox \in Seq(Messages)
      /\ w.relay \in {Home, Invited} /\ w.outbox # <<>> /\ Head(w.outbox) # "auth"
      /\ w.registered
  BY <1>0 DEF RelayHandlesLate, OldTyped, Connection, AuthComes, AuthAhead
<1>. DEFINE v == [w EXCEPT !.outbox = Tail(@)]
<1>2. /\ v \in Connection /\ v # None /\ v.registered
      /\ v.relay = w.relay /\ v.outbox = Tail(w.outbox)
  <2>1. v \in Connection
    BY <1>1, LeaveRead DEF Connection
  <2>. QED  BY <1>1, <2>1, SocketAssumption DEF Connection
<1>3. /\ old' = [old EXCEPT ![k] = v]
      /\ members' = MembersAfter(Head(w.outbox), w.relay)
      /\ UNCHANGED <<url, ws, joining, heard, outbox>> /\ Unheard(FALSE)
  BY DEF RelayHandlesLate, webviewVars, sessionVars
<1>. HIDE DEF v
<1>4. OldTyped' /\ old'[k] = v /\ \A j \in Slots : j # k => old'[j] = old[j]
  BY <1>0, <1>1, <1>2, <1>3 DEF OldTyped, MembersAfter
<1>5. /\ \A r : Registered(r)' = Registered(r)
      /\ k \in Registered(w.relay)
      /\ \A r : r # w.relay => (r \in members' <=> r \in members)
  BY <1>1, <1>2, <1>3, <1>4 DEF Registered, MembersAfter
<1>6. Linked'
  BY <1>0, <1>3, <1>5 DEF Linked, MembersAfter
<1>7. AuthComes'
  BY <1>0, <1>2, <1>3, <1>4 DEF AuthComes
<1>8. joining' = None /\ ~NoJoin(outbox') => LeaveLast(outbox')
  BY <1>0, <1>3 DEF LeavesFollow
<1>9. LeavesFollow'
  <2>1. CASE Lingers'
    <3>1. ~unheard' => ~unheard
      BY <1>3, <2>1 DEF Unheard
    <3>2. ASSUME joining' = None, ~unheard', NEW j \in Slots, old'[j] # None,
                 old'[j].registered
          PROVE  old'[j].relay \in members' \/ ~NoJoin(old'[j].outbox) =>
                    LeaveLast(old'[j].outbox)
      <4>1. CASE j = k
        <5>1. Bye(w.outbox, w.relay)
          BY <1>0, <1>1, <1>3, <3>1, <3>2 DEF LeavesFollow
        <5>2. w.relay \in members' \/ ~NoJoin(Tail(w.outbox)) => LeaveLast(Tail(w.outbox))
          BY <1>1, <1>3, <5>1, ByeRead
        <5>. QED  BY <1>2, <1>4, <4>1, <5>2
      <4>2. CASE j # k
        <5>1. old'[j] = old[j] /\ old[j].relay \in {Home, Invited}
          BY <1>0, <1>4, <3>2, <4>2 DEF OldTyped, Connection
        <5>2. old[j].relay # w.relay
          BY <1>0, <1>5, <3>2, <4>2, <5>1 DEF Linked, Registered
        <5>. QED  BY <1>0, <1>3, <1>5, <3>1, <3>2, <5>1, <5>2 DEF LeavesFollow, Bye
      <4>. QED  BY <4>1, <4>2
    <3>3. heard = "registered" => url # w.relay
      BY <1>0, <1>5 DEF Linked
    <3>4. joining' = None /\ ~unheard' /\ heard' = "registered" =>
             (url' \in members' \/ ~NoJoin(outbox') => LeaveLast(outbox'))
      BY <1>0, <1>3, <1>5, <3>1, <3>3 DEF LeavesFollow, Bye
    <3>. QED  BY <1>8, <3>2, <3>4 DEF LeavesFollow, Bye
  <2>2. CASE ~Lingers'
    BY <1>4, <1>8, <2>2, NothingLingers
  <2>. QED  BY <2>1, <2>2
<1>. QED  BY <1>4, <1>6, <1>7, <1>9 DEF PageInv

LEMMA EndKeeps ==
    ASSUME MemberInv, NEW k \in Slots, RelayEnds(k)
    PROVE  PageInv'
<1>. DEFINE w == old[k]
<1>0. /\ OldTyped /\ Linked /\ AuthComes /\ LeavesFollow
  BY DEF MemberInv, PageInv
<1>1. /\ w # None /\ old' = [old EXCEPT ![k] = None]
      /\ members' = IF w.registered THEN members \ {w.relay} ELSE members
      /\ UNCHANGED <<url, ws, joining, heard, outbox>>
      /\ Unheard(LeaveIn(w.outbox))
  BY DEF RelayEnds, webviewVars, sessionVars
<1>2. /\ old'[k] = None /\ \A j \in Slots : j # k => old'[j] = old[j]
      /\ members' \subseteq members /\ OldTyped'
  BY <1>0, <1>1 DEF OldTyped
<1>3. \A r : Registered(r)' = Registered(r) \ {k}
  BY <1>2 DEF Registered
<1>4. Linked'
  <2>1. ASSUME NEW r \in members'
        PROVE  (heard' = "registered" /\ url' = r) \/ Registered(r)' # {}
    <3>1. k \notin Registered(r)
      BY <1>1, <2>1 DEF Registered
    <3>. QED  BY <1>0, <1>1, <1>2, <1>3, <2>1, <3>1 DEF Linked
  <2>. QED  BY <1>0, <1>1, <1>3, <2>1 DEF Linked
<1>5. AuthComes'
  BY <1>0, <1>1, <1>2 DEF AuthComes
<1>6. joining' = None /\ ~NoJoin(outbox') => LeaveLast(outbox')
  BY <1>0, <1>1 DEF LeavesFollow
<1>7. LeavesFollow'
  <2>1. CASE Lingers'
    <3>1. ~unheard' => ~unheard
      BY <1>1, <2>1 DEF Unheard
    <3>. QED  BY <1>0, <1>1, <1>2, <1>6, <3>1 DEF LeavesFollow, Bye
  <2>2. CASE ~Lingers'
    BY <1>2, <1>6, <2>2, NothingLingers
  <2>. QED  BY <2>1, <2>2
<1>. QED  BY <1>2, <1>4, <1>5, <1>7 DEF PageInv

LEMMA AuthOkKeeps == MemberInv /\ AuthOk => PageInv'
<1> SUFFICES ASSUME MemberInv, AuthOk PROVE PageInv'
  OBVIOUS
<1>1. heard # "no" /\ UNCHANGED <<ws, url, heard, old, members, unheard>>
  BY DEF AuthOk, MemberInv, ServiceInv, WireInOrder
<1>2. \/ UNCHANGED <<outbox, joining>>
      \/ outbox' = Sent("join") /\ joining' = "in"
  BY DEF AuthOk, Proceed
<1>3. "in" # None
  BY SocketAssumption DEF Stages
<1>. QED  BY <1>1, <1>2, <1>3, PageStays, SendKeeps

LEMMA OpenSessionKeeps == MemberInv /\ OpenSession => PageInv'
<1> SUFFICES ASSUME MemberInv, OpenSession PROVE PageInv'
  OBVIOUS
<1>1. joining' \in Stages /\ joining' # None
  BY SocketAssumption DEF OpenSession, Proceed, Stages
<1>2. UNCHANGED <<ws, url, heard, old, members, unheard>>
  BY DEF OpenSession
<1>3. outbox' = outbox \/ (heard # "no" /\ outbox' = Sent("join"))
  BY DEF OpenSession, Proceed, isConnected, MemberInv, ServiceInv, SocketSound
<1>. QED  BY <1>1, <1>2, <1>3, SendKeeps

LEMMA IdentifiedKeeps ==
    ASSUME MemberInv, NEW throws, Identified(throws)
    PROVE  PageInv'
<1>1. "in" # None /\ "auth" # None
  BY SocketAssumption DEF Stages
<1>2. CASE url = Invited /\ isConnected
  <2>1. /\ heard # "no" /\ joining' = "in" /\ outbox' = Sent("join")
        /\ UNCHANGED <<ws, url, heard, old, members, unheard>>
    BY <1>2 DEF Identified, Proceed, isConnected, MemberInv, ServiceInv, SocketSound
  <2>. QED  BY <1>1, <2>1, SendKeeps
<1>3. CASE ~(url = Invited /\ isConnected)
  <2>1. ConnectTo(Invited, throws) /\ joining' = "auth"
    BY <1>3 DEF Identified
  <2>. QED  BY <1>1, <2>1, ConnectKeeps
<1>. QED  BY <1>2, <1>3

LEMMA CloseKeeps == MemberInv /\ CloseSession => PageInv'
<1> SUFFICES ASSUME MemberInv, CloseSession PROVE PageInv'
  OBVIOUS
<1>0. /\ OldTyped /\ Linked /\ AuthComes /\ LeavesFollow
      /\ outbox \in Seq(Messages) /\ (outbox # <<>> => ws = "open")
  BY DEF MemberInv, PageInv, ServiceInv, WireInOrder
<1>1. /\ outbox' = Sent("leave") /\ UNCHANGED <<ws, url, heard, old, members>>
      /\ Unheard(outbox' = outbox \/ \E k \in Slots : old[k] # None)
  BY DEF CloseSession
<1>2. \/ outbox' = outbox /\ outbox = <<>>
      \/ outbox' = Append(outbox, "leave") /\ heard # "superseded"
  BY <1>0, <1>1 DEF Sent, AuthComes
<1>3. OldTyped' /\ Linked'
  BY <1>0, <1>1 DEF OldTyped, Linked, Registered
<1>4. AuthComes'
  BY <1>0, <1>1, <1>2, LeaveSent DEF AuthComes
<1>5. joining' = None /\ ~NoJoin(outbox') => LeaveLast(outbox')
  <2>1. NoJoin(<<>>)
    BY DEF NoJoin
  <2>. QED  BY <1>0, <1>2, <2>1, LeaveSent
<1>6. LeavesFollow'
  <2>1. CASE Lingers'
    <3>1. ASSUME ~unheard'
          PROVE  LeaveLast(outbox') /\ \A k \in Slots : old[k] = None
      BY <1>0, <1>1, <1>2, <2>1, <3>1, LeaveSent DEF Unheard
    <3>. QED  BY <1>1, <1>5, <3>1 DEF LeavesFollow, Bye
  <2>2. CASE ~Lingers'
    BY <1>3, <1>5, <2>2, NothingLingers
  <2>. QED  BY <2>1, <2>2
<1>. QED  BY <1>3, <1>4, <1>6 DEF PageInv

LEMMA PageInitially == SocketInit => PageInv
<1>1. NoJoin(<<>>)
  BY DEF NoJoin
<1>. QED
  BY <1>1 DEF SocketInit, PageInv, OldTyped, Linked, Registered, AuthComes,
              LeavesFollow, Bye

LEMMA PageStep == MemberInv /\ [SocketNext]_socketVars => PageInv'
<1> SUFFICES ASSUME MemberInv, [SocketNext]_socketVars PROVE PageInv'
  OBVIOUS
<1>1. ASSUME NEW throws, Reconnect(throws) PROVE PageInv'
  <2>1. DiscardSocket /\ ws' # "open" /\ UNCHANGED joining
    BY <1>1 DEF Reconnect, CreateConnection, sessionVars
  <2>. QED  BY <2>1, DiscardKeeps
<1>2. ASSUME NEW throws, StrayIdentified(throws) \/ LookedUp(throws) PROVE PageInv'
  BY <1>2, ConnectKeeps DEF StrayIdentified, LookedUp, sessionVars
<1>3. CASE SignOut \/ RefreshInvites
  <2>1. DiscardSocket /\ ws' # "open" /\ UNCHANGED joining
    BY <1>3 DEF SignOut, RefreshInvites, Disconnect, sessionVars
  <2>. QED  BY <2>1, DiscardKeeps
<1>4. CASE JoinFails \/ SignIn \/ RefreshFires \/ LookupFails \/ UNCHANGED socketVars
  <2>1. UNCHANGED <<ws, url, outbox, heard, old, members, unheard>>
    BY <1>4 DEF JoinFails, SignIn, RefreshFires, LookupFails, socketVars, service, wire
  <2>2. joining' = joining \/ joining' = "failed"
    BY <1>4 DEF JoinFails, SignIn, RefreshFires, LookupFails, socketVars, sessionVars
  <2>3. joining' = None => joining = None
    BY <2>2, SocketAssumption DEF Stages
  <2>. QED  BY <2>1, <2>3, PageStays
<1>. QED
  BY <1>1, <1>2, <1>3, <1>4, OpenKeeps, BreakKeeps, RegisterKeeps, HandleKeeps,
     LateRegisterKeeps, LateHandleKeeps, EndKeeps, AuthOkKeeps, OpenSessionKeeps,
     IdentifiedKeeps, CloseKeeps
     DEF SocketNext, SocketProgress

\* Without a page of theirs, and with nothing under way any more, users are in
\* no session, unless their leave was not heard.
LEMMA MembersNeedPages == MemberInv => MemberHasPage
<1> SUFFICES ASSUME MemberInv, NothingUnderWay, NEW r \in members, joining = None, ~unheard
             PROVE  FALSE
  BY DEF MemberHasPage
<1>1. heard = "registered" /\ url = r /\ outbox = <<>>
  BY DEF MemberInv, PageInv, Linked, Registered, NothingUnderWay
<1>2. LeaveLast(<<>>)
  BY <1>1 DEF MemberInv, PageInv, LeavesFollow, Bye
<1>. QED  BY <1>2 DEF LeaveLast

\* Whatever was on its way when a page was left or a connection broke, the
\* relays have nobody in a session without a page, unless the leave_session
\* of useWatchTogetherSession.ts was not heard.
THEOREM MembersHavePages == SocketSpec => []MemberHasPage
<1>1. SocketInit => MemberInv
  BY ServiceInitially, PageInitially DEF MemberInv
<1>2. MemberInv /\ [SocketNext]_socketVars => MemberInv'
  BY ServiceStep, PageStep DEF MemberInv
<1>. QED  BY <1>1, <1>2, MembersNeedPages, PTL DEF SocketSpec

-----------------------------------------------------------------------------
(* OfflineWatch: nothing that was watched offline is lost before a server   *)
(* has been told, for any items, servers and number of restarts.            *)

\* The list without one of its entries has all the others, each once.
LEMMA OthersStay ==
    ASSUME NEW S, NEW list \in Seq(S), IsInjective(list), NEW e
    PROVE  /\ RemoveFirst(list, e) \in Seq(S)
           /\ IsInjective(RemoveFirst(list, e))
           /\ Range(list) \subseteq Range(RemoveFirst(list, e)) \cup {e}
<1>1. CASE \A i \in 1..Len(list) : list[i] # e
  BY <1>1 DEF RemoveFirst
<1>2. CASE \E i \in 1..Len(list) : list[i] = e
  <2>1. PICK i \in 1..Len(list) : list[i] = e
    BY <1>2
  <2>2. \A j \in 1..Len(list) : list[j] = e <=> j = i
    BY <2>1 DEF IsInjective
  <2>3. SelectInSeq(list, LAMBDA v : v = e) = i
    <3>1. {j \in 1..Len(list) : list[j] = e} = {i}
      BY <2>2
    <3>2. Min({i}) = i
      BY DEF Min
    <3>. QED  BY <3>1, <3>2 DEF SelectInSeq
  <2>4. RemoveFirst(list, e) = SubSeq(list, 1, i - 1) \o SubSeq(list, i + 1, Len(list))
    BY <1>2, <2>3 DEF RemoveFirst, RemoveAt
  <2> DEFINE rest == SubSeq(list, 1, i - 1) \o SubSeq(list, i + 1, Len(list))
  <2>5. /\ rest \in Seq(S) /\ Len(rest) = Len(list) - 1
        /\ \A j \in 1..Len(rest) : rest[j] = list[IF j < i THEN j ELSE j + 1]
    <3> DEFINE l == SubSeq(list, 1, i - 1)
               r == SubSeq(list, i + 1, Len(list))
    <3>1. l \in Seq(S) /\ Len(l) = i - 1 /\ \A j \in 1..(i - 1) : l[j] = list[j]
      OBVIOUS
    <3>2. /\ r \in Seq(S) /\ Len(r) = Len(list) - i
          /\ \A j \in 1..(Len(list) - i) : r[j] = list[i + j]
      OBVIOUS
    <3>. HIDE DEF l, r
    <3>3. /\ l \o r \in Seq(S) /\ Len(l \o r) = Len(list) - 1
          /\ \A j \in 1..Len(l \o r) : (l \o r)[j] = list[IF j < i THEN j ELSE j + 1]
      <4>1. l \o r \in Seq(S) /\ Len(l \o r) = Len(l) + Len(r)
        BY <3>1, <3>2, ConcatProperties
      <4>2. \A j \in 1..Len(l \o r) :
               (l \o r)[j] = IF j <= Len(l) THEN l[j] ELSE r[j - Len(l)]
        BY <3>1, <3>2, ConcatProperties
      <4>. QED  BY <3>1, <3>2, <4>1, <4>2
    <3>. QED  BY <3>3 DEF l, r
  <2>. HIDE DEF rest
  <2>6. IsInjective(rest)
    <3>1. SUFFICES ASSUME NEW j \in 1..Len(rest), NEW k \in 1..Len(rest), rest[j] = rest[k]
                   PROVE  j = k
      <4>1. DOMAIN rest = 1..Len(rest)
        BY <2>5
      <4>. QED  BY <4>1, Zenon DEF IsInjective
    <3> DEFINE up(n) == IF n < i THEN n ELSE n + 1
    <3>2. Len(list) \in Nat /\ Len(rest) = Len(list) - 1
      BY <2>5
    <3>3. \A n \in 1..Len(rest) : up(n) \in 1..Len(list)
      BY <3>2
    <3>4. rest[j] = list[up(j)] /\ rest[k] = list[up(k)]
      BY <2>5
    <3>5. list[up(j)] = list[up(k)]
      BY <3>1, <3>4
    <3>6. up(j) = up(k)
      BY <3>3, <3>5 DEF IsInjective
    <3>. QED  BY <3>2, <3>6
  <2>7. ASSUME NEW x \in Range(list), x # e PROVE x \in Range(rest)
    <3>1. PICK j \in 1..Len(list) : list[j] = x
      BY DEF Range
    <3>2. j # i
      BY <2>1, <2>7, <3>1
    <3>3. CASE j < i
      BY <2>5, <3>1, <3>3 DEF Range
    <3>4. CASE j > i
      <4>1. j - 1 \in 1..Len(rest) /\ rest[j - 1] = list[j]
        BY <2>5, <3>4
      <4>. QED  BY <2>5, <3>1, <4>1 DEF Range
    <3>. QED  BY <3>2, <3>3, <3>4
  <2>. QED  BY <2>4, <2>5, <2>6, <2>7 DEF rest
<1>. QED  BY <1>1, <1>2

\* The inductive invariant.
OInv ==
    /\ pendingWatch \in Seq(Downloaded) /\ IsInjective(pendingWatch)
    /\ syncs \subseteq [todo : Seq(Downloaded) \ {<<>>}, known : BOOLEAN]
    /\ NothingUnreported

LEMMA OfflineInitially == OfflineInit => OInv
BY DEF OfflineInit, OInv, IsInjective, NothingUnreported

LEMMA OfflineInductive == OInv /\ [OfflineNext]_offlineVars => OInv'
<1>. SUFFICES ASSUME OInv, [OfflineNext]_offlineVars PROVE OInv'
  OBVIOUS
<1>. USE DEF OInv
<1>1. ASSUME NEW key \in Downloaded, FinishesOffline(key) PROVE OInv'
  <2>1. UNCHANGED <<syncs, scrobbled>> /\ finished' = finished \cup {key}
    BY <1>1 DEF FinishesOffline
  <2>2. CASE key \in Range(pendingWatch)
    BY <1>1, <2>1, <2>2 DEF FinishesOffline, NothingUnreported
  <2>3. CASE key \notin Range(pendingWatch)
    <3>1. pendingWatch' = Append(pendingWatch, key)
      BY <1>1, <2>3 DEF FinishesOffline
    <3>2. /\ pendingWatch' \in Seq(Downloaded) /\ Len(pendingWatch') = Len(pendingWatch) + 1
          /\ \A i \in 1..Len(pendingWatch') :
                pendingWatch'[i] = IF i <= Len(pendingWatch) THEN pendingWatch[i] ELSE key
      BY <3>1
    <3>3. \A i \in 1..Len(pendingWatch) : pendingWatch[i] # key
      BY <2>3 DEF Range
    <3>4. IsInjective(pendingWatch)'
      BY <3>2, <3>3 DEF IsInjective
    <3>5. Range(pendingWatch)' = Range(pendingWatch) \cup {key}
      BY <3>2 DEF Range
    <3>. QED  BY <2>1, <3>2, <3>4, <3>5 DEF NothingUnreported
  <2>. QED  BY <2>2, <2>3
<1>2. ASSUME NEW srv \in Servers \cup {None},
             ChangesServer(srv) \/ Remounts(srv) \/ Restarts(srv)
      PROVE  OInv'
  <2>1. UNCHANGED <<pendingWatch, scrobbled, finished>>
    BY <1>2 DEF ChangesServer, Remounts, Restarts
  <2> DEFINE Syncs == [todo : Seq(Downloaded) \ {<<>>}, known : BOOLEAN]
  <2>2. ASSUME NEW running \in SUBSET Syncs, Starts(srv, running)
        PROVE  syncs' \subseteq Syncs
    <3>1. pendingWatch # <<>> => [todo |-> pendingWatch, known |-> TRUE] \in Syncs
      OBVIOUS
    <3>. QED  BY <2>2, <3>1, Zenon DEF Starts
  <2>3. {[t EXCEPT !.known = FALSE] : t \in syncs} \subseteq Syncs
    OBVIOUS
  <2>4. syncs' \subseteq Syncs
    BY <1>2, <2>2, <2>3 DEF ChangesServer, Remounts, Restarts
  <2>. QED  BY <2>1, <2>4 DEF NothingUnreported
<1>3. ASSUME NEW s \in syncs, Marked(s) PROVE OInv'
  <2>1. s.todo \in Seq(Downloaded) /\ s.todo # <<>> /\ Head(s.todo) \in Downloaded
    OBVIOUS
  <2>2. pendingWatch' = RemoveFirst(pendingWatch, Head(s.todo))
    BY <1>3 DEF Marked, Removed
  <2>3. /\ pendingWatch' \in Seq(Downloaded) /\ IsInjective(pendingWatch)'
        /\ Range(pendingWatch) \subseteq Range(pendingWatch)' \cup {Head(s.todo)}
    BY <2>2, OthersStay
  <2>4. NothingUnreported'
    BY <1>3, <2>3 DEF Marked, NothingUnreported
  <2>5. syncs' \subseteq [todo : Seq(Downloaded) \ {<<>>}, known : BOOLEAN]
    <3>1. Len(s.todo) # 1 => Tail(s.todo) \in Seq(Downloaded) \ {<<>>}
      <4>1. Tail(s.todo) \in Seq(Downloaded) /\ Len(Tail(s.todo)) = Len(s.todo) - 1
        BY <2>1
      <4>2. Len(s.todo) \in Nat /\ Len(s.todo) # 0
        BY <2>1, EmptySeq
      <4>3. Len(s.todo) # 1 => Len(Tail(s.todo)) # 0
        BY <4>1, <4>2
      <4>. QED  BY <4>1, <4>3
    <3>2. Len(s.todo) # 1 => [s EXCEPT !.todo = Tail(s.todo)]
                                \in [todo : Seq(Downloaded) \ {<<>>}, known : BOOLEAN]
      <4>1. s = [todo |-> s.todo, known |-> s.known] /\ s.known \in BOOLEAN
        OBVIOUS
      <4>2. [s EXCEPT !.todo = Tail(s.todo)] = [todo |-> Tail(s.todo), known |-> s.known]
        BY <4>1
      <4>. QED  BY <3>1, <4>1, <4>2
    <3>. QED  BY <1>3, <3>2, Zenon DEF Marked
  <2>. QED  BY <2>3, <2>4, <2>5
<1>4. ASSUME NEW s \in syncs, MarkFails(s) PROVE OInv'
  BY <1>4 DEF MarkFails, NothingUnreported
<1>5. CASE UNCHANGED offlineVars
  BY <1>5 DEF offlineVars, NothingUnreported
<1>. QED  BY <1>1, <1>2, <1>3, <1>4, <1>5 DEF OfflineNext

\* What was watched offline is in the list or a server has been told, whatever
\* ends while a sync runs and wherever a sync breaks off: the removal of an
\* entry reads the list again (services/storage/watch-sync.ts).
THEOREM NothingWatchedIsLost == OfflineSpec => []NothingUnreported
<1>1. OInv => NothingUnreported
  BY DEF OInv
<1>. QED  BY <1>1, OfflineInitially, OfflineInductive, PTL DEF OfflineSpec

-----------------------------------------------------------------------------
(* LinuxPopout: when all is over the button, the window and the margin agree, *)
(* for any number of looks of a loop, clicks and lost requests.               *)

\* The calls that move the window, and those of the mini player.
WinCalls == {"enter", "stash", "apply", "save", "entered", "exit", "persist", "take",
             "restore", "exited", "failed"}
MiniCalls == {"inset", "uninset", "unload"}
Moving(t) == command[t].pc \in WinCalls
Minis == \E t \in Tasks : command[t].pc \in MiniCalls
NoLoops(of) == \A t \in Tasks : loop[t].of # of

\* PopoutTypeOK, one variable at a time.
Calls == [pc : {"none"} \cup WinCalls \cup MiniCalls, to : Window, heard : BOOLEAN]
LoopStates == [of : {"none", "enter", "exit"}, left : 0..Attempts, size : WinSizes]
ToSave(t) == command[t].pc \in {"stash", "apply", "save"}
PopoutTyped ==
    /\ win \in Window /\ asked \in Window /\ home \in Window
    /\ onTop \in BOOLEAN /\ bare \in BOOLEAN /\ wasMaxed \in BOOLEAN /\ isOpen \in BOOLEAN
    /\ isPopOut \in BOOLEAN /\ isMini \in BOOLEAN /\ excepted \in BOOLEAN
    /\ margin \in {None, "inset", "strip"}
    /\ stash \in WinSizes \cup {None} /\ saved \in WinSizes \ {"full"}
    /\ command \in [Tasks -> Calls] /\ loop \in [Tasks -> LoopStates]
    /\ \A t \in Tasks : loop[t].left > 0 <=> loop[t].of # "none"
    /\ \A t \in Tasks : ToSave(t) => command[t].to.size # "full"

\* The window at home, away from it, and on its way back.
AtHome == ~onTop /\ ~bare /\ stash = None /\ NoLoops("enter") /\ NoLoops("exit")
Away == /\ stash = home.size /\ wasMaxed = home.maxed
        /\ ~asked.maxed /\ ~win.maxed /\ NoLoops("exit")
Out == Away /\ onTop /\ bare
Looking(left) == \E t \in Tasks : loop[t].of = "exit" /\ left <= loop[t].left
Back == /\ ~onTop /\ ~bare /\ stash = None /\ asked.maxed = home.maxed
        /\ \A t \in Tasks : loop[t].of = "exit" => loop[t].size = home.size
        /\ asked # home => win = asked /\ Looking(2)
        /\ NoLoops("enter") \/ Looking(Attempts)

\* No size is that of the work area but a maximized window's.
SizesFit == /\ asked.size # "full" /\ home.size # "full"
            /\ win.maxed <=> win.size = "full"
            /\ \A t \in Tasks : loop[t].size # "full" /\ command[t].to.size # "full"

\* The margin: the mini player's, if a call of it is not still to come, and the
\* strip of the pop-out, if no loop is still to set it.
MarginFits == margin # "strip" /\ (~Minis => margin = IF isMini THEN "inset" ELSE None)
HasStrip == NoLoops("enter") => margin = "strip"

PlayerFits ==
    /\ isPopOut \/ isMini => isOpen
    /\ \A t \in Tasks : /\ Moving(t) /\ command[t].heard => isOpen
                        /\ At(t, "inset") => isMini
                        /\ At(t, "uninset") \/ At(t, "unload") => ~isMini
                        /\ At(t, "unload") => ~isOpen

\* What is true at each point of the one call that moves the window.
Enters(t) == command[t].heard /\ ~isPopOut /\ ~isMini
Leaves(t) == command[t].heard \/ ~isPopOut
Stage(t) ==
    /\ At(t, "enter") => /\ AtHome /\ asked = home /\ win = Granted(asked)
                         /\ Enters(t) /\ MarginFits
    /\ At(t, "stash") => /\ AtHome /\ asked = [home EXCEPT !.maxed = FALSE]
                         /\ wasMaxed = home.maxed /\ Enters(t) /\ MarginFits
    /\ At(t, "apply") => Away /\ NoLoops("enter") /\ Enters(t) /\ MarginFits
    /\ At(t, "save") \/ At(t, "entered") => Out /\ Enters(t) /\ HasStrip
    /\ At(t, "exit") => Out /\ Leaves(t) /\ (isMini /\ ~Minis => margin = "inset")
    /\ At(t, "persist") => Out /\ Leaves(t) /\ MarginFits
    /\ At(t, "take") => Away /\ ~onTop /\ bare /\ Leaves(t) /\ MarginFits
    /\ At(t, "restore") => /\ command[t].to = home /\ stash = None /\ ~onTop
                           /\ ~asked.maxed /\ ~win.maxed /\ NoLoops("exit")
                           /\ Leaves(t) /\ MarginFits
    /\ At(t, "exited") => Back /\ Leaves(t) /\ MarginFits
    /\ ~At(t, "failed")

\* And when there is none.
Resting == IF isPopOut THEN Out /\ HasStrip /\ ~isMini ELSE Back /\ MarginFits

OneMoves == \A t, u \in Tasks : Moving(t) /\ Moving(u) => t = u
AllStages == /\ \A t \in Tasks : Moving(t) => Stage(t)
             /\ (\A t \in Tasks : ~Moving(t)) => Resting
Orderly == SizesFit /\ PlayerFits /\ OneMoves /\ AllStages

\* The inductive invariant.
PopoutInv == PopoutTyped /\ (~excepted => Orderly)

LEMMA PopoutTypesAre == PopoutTyped => PopoutTypeOK
<1>1. Calls = [pc : {"none", "enter", "stash", "apply", "save", "entered", "exit",
                     "persist", "take", "restore", "exited", "failed", "inset",
                     "uninset", "unload"}, to : Window, heard : BOOLEAN]
  BY DEF Calls, WinCalls, MiniCalls
<1>2. SUFFICES ASSUME PopoutTyped PROVE PopoutTypeOK
  OBVIOUS
<1>3. /\ {win, asked, home} \subseteq Window
      /\ {onTop, bare, wasMaxed, isOpen, isPopOut, isMini, excepted} \subseteq BOOLEAN
  BY <1>2, Zenon DEF PopoutTyped
<1>. QED  BY <1>1, <1>2, <1>3, Zenon DEF PopoutTyped, PopoutTypeOK, LoopStates

\* Windows are their size and whether they are maximized.
LEMMA WindowIs ==
    /\ \A w \in Window : w.size \in WinSizes /\ w.maxed \in BOOLEAN
    /\ \A v, w \in Window : v.size = w.size /\ v.maxed = w.maxed => v = w
    /\ \A w \in Window, s \in WinSizes :
         /\ [w EXCEPT !.size = s] \in Window
         /\ [w EXCEPT !.size = s].size = s /\ [w EXCEPT !.size = s].maxed = w.maxed
    /\ \A w \in Window, b \in BOOLEAN :
         /\ [w EXCEPT !.maxed = b] \in Window
         /\ [w EXCEPT !.maxed = b].size = w.size /\ [w EXCEPT !.maxed = b].maxed = b
    /\ \A s \in WinSizes, b \in BOOLEAN :
         LET w == [size |-> s, maxed |-> b] IN w \in Window /\ w.size = s /\ w.maxed = b
<1>1. \A w \in Window : w.size \in WinSizes /\ w.maxed \in BOOLEAN
  BY DEF Window
<1>2. \A v, w \in Window : v.size = w.size /\ v.maxed = w.maxed => v = w
  BY DEF Window
<1>3. \A w \in Window, s \in WinSizes :
         /\ [w EXCEPT !.size = s] \in Window
         /\ [w EXCEPT !.size = s].size = s /\ [w EXCEPT !.size = s].maxed = w.maxed
  BY DEF Window
<1>4. \A w \in Window, b \in BOOLEAN :
         /\ [w EXCEPT !.maxed = b] \in Window
         /\ [w EXCEPT !.maxed = b].size = w.size /\ [w EXCEPT !.maxed = b].maxed = b
  BY DEF Window
<1>5. \A s \in WinSizes, b \in BOOLEAN :
         LET w == [size |-> s, maxed |-> b] IN w \in Window /\ w.size = s /\ w.maxed = b
  BY DEF Window
<1>. QED  BY <1>1, <1>2, <1>3, <1>4, <1>5, Zenon

LEMMA PopoutInitially == PopoutInit => PopoutInv
<1> SUFFICES ASSUME PopoutInit PROVE PopoutInv
  OBVIOUS
<1>. USE PopoutAssumption
<1>1. Anywhere \in Window /\ NoTask \in Calls /\ NoLoop \in LoopStates
  BY DEF Anywhere, Window, WinSizes, NoTask, Calls, NoLoop, LoopStates
<1>2. /\ \A t \in Tasks : command[t] = NoTask /\ loop[t] = NoLoop
      /\ \A t \in Tasks : ~Moving(t) /\ ~(command[t].pc \in MiniCalls)
  BY DEF PopoutInit, Moving, WinCalls, MiniCalls, NoTask
<1>3. /\ win \in Window /\ win.maxed \in BOOLEAN /\ (win.maxed <=> win.size = "full")
      /\ asked \in Window /\ asked.size = "windowed" /\ asked.maxed = win.maxed
      /\ home = asked
  <2>1. win \in Window /\ (win.maxed <=> win.size = "full")
    <3>1. CASE win = Anywhere
      BY <1>1, <3>1 DEF Anywhere
    <3>2. CASE win = [size |-> "full", maxed |-> TRUE]
      BY <3>2 DEF Window, WinSizes
    <3>. QED  BY <3>1, <3>2 DEF PopoutInit
  <2>. QED  BY <1>1, <2>1, WindowIs DEF PopoutInit, Anywhere
<1>4. PopoutTyped
  <2>1. saved \in WinSizes \ {"full"}
    BY DEF WinSizes, PopoutInit
  <2>2. command \in [Tasks -> Calls] /\ loop \in [Tasks -> LoopStates]
    BY <1>1 DEF PopoutInit
  <2>3. \A t \in Tasks : loop[t].left > 0 <=> loop[t].of # "none"
    BY <1>2 DEF NoLoop
  <2>. QED  BY <1>2, <1>3, <2>1, <2>2, <2>3 DEF PopoutTyped, PopoutInit, ToSave, NoTask
<1>5. SizesFit /\ PlayerFits /\ OneMoves
  BY <1>2, <1>3 DEF SizesFit, PlayerFits, OneMoves, PopoutInit, NoTask, NoLoop, Anywhere, At
<1>6. Back /\ MarginFits
  BY <1>2, <1>3 DEF Back, MarginFits, Minis, PopoutInit, NoLoops, NoLoop
<1>. QED  BY <1>2, <1>4, <1>5, <1>6 DEF PopoutInv, Orderly, AllStages, Resting, PopoutInit

-----------------------------------------------------------------------------
\* What steps do to the calls and the loops: only t's moves.
Moves(t, pc, to, told) ==
    /\ command' \in [Tasks -> Calls]
    /\ command'[t].pc = pc /\ command'[t].to = to /\ command'[t].heard = told
    /\ \A u \in Tasks \ {t} : command'[u] = command[u]
Loops(t, of, left, size) ==
    /\ loop' \in [Tasks -> LoopStates]
    /\ loop'[t].of = of /\ loop'[t].left = left /\ loop'[t].size = size
    /\ \A u \in Tasks \ {t} : loop'[u] = loop[u]

LEMMA CallIs ==
    /\ \A c \in Calls : /\ c.pc \in {"none"} \cup WinCalls \cup MiniCalls
                        /\ c.to \in Window /\ c.heard \in BOOLEAN
    /\ NoTask \in Calls /\ NoTask.pc = "none" /\ NoTask.to = Anywhere /\ NoTask.heard = FALSE
    /\ Anywhere \in Window /\ Anywhere.size = "windowed"
BY DEF Calls, NoTask, Anywhere, Window, WinSizes

LEMMA GotoIs ==
    ASSUME PopoutTyped, NEW t \in Tasks,
           NEW pc \in {"none"} \cup WinCalls \cup MiniCalls, Goto(t, pc)
    PROVE  Moves(t, pc, command[t].to, command[t].heard)
<1>1. command[t] \in Calls
  BY DEF PopoutTyped
<1>2. [command[t] EXCEPT !.pc = pc] \in Calls
  BY <1>1 DEF Calls
<1>3. command' = [command EXCEPT ![t] = [command[t] EXCEPT !.pc = pc]]
  BY DEF Goto
<1>4. /\ command' \in [Tasks -> Calls] /\ command'[t] = [command[t] EXCEPT !.pc = pc]
      /\ \A u \in Tasks \ {t} : command'[u] = command[u]
  BY <1>2, <1>3 DEF PopoutTyped
<1>5. LET c == [command[t] EXCEPT !.pc = pc] IN
      c.pc = pc /\ c.to = command[t].to /\ c.heard = command[t].heard
  BY <1>1 DEF Calls
<1>. QED  BY <1>4, <1>5 DEF Moves

LEMMA DoneIs ==
    ASSUME PopoutTyped, NEW t \in Tasks, command' = [command EXCEPT ![t] = NoTask]
    PROVE  Moves(t, "none", Anywhere, FALSE)
BY CallIs DEF PopoutTyped, Moves

LEMMA LoopIs ==
    ASSUME PopoutTyped, NEW t \in Tasks, NEW of \in {"none", "enter", "exit"},
           NEW left \in 0..Attempts, NEW size \in WinSizes,
           loop' = [loop EXCEPT ![t] = [of |-> of, left |-> left, size |-> size]]
    PROVE  Loops(t, of, left, size)
<1>1. [of |-> of, left |-> left, size |-> size] \in LoopStates
  BY DEF LoopStates
<1>. QED  BY <1>1 DEF PopoutTyped, Loops

LEMMA BreaksIs ==
    ASSUME PopoutTyped, NEW t \in Tasks, Breaks(t)
    PROVE  Loops(t, "none", 0, "windowed") /\ asked' = asked
<1>1. 0 \in 0..Attempts /\ "windowed" \in WinSizes
  BY PopoutAssumption DEF WinSizes
<1>. QED  BY <1>1, LoopIs DEF Breaks, NoLoop

LEMMA RetriesIs ==
    ASSUME PopoutTyped, NEW t \in Tasks, NEW seen, loop[t].of # "none",
           ~Ends(t, seen), Retries(t)
    PROVE  /\ Loops(t, loop[t].of, loop[t].left - 1, loop[t].size)
           /\ loop[t].left > 1 /\ seen # loop[t].size
           /\ asked' \in Window /\ asked'.size = loop[t].size
           /\ asked'.maxed = asked.maxed
<1>1. /\ loop[t] \in LoopStates /\ loop[t].left \in 0..Attempts
      /\ loop[t].left > 0 /\ loop[t].size \in WinSizes
  BY DEF PopoutTyped, LoopStates
<1>2. loop[t].left > 1 /\ seen # loop[t].size
  BY <1>1, PopoutAssumption DEF Ends
<1>3. [loop[t] EXCEPT !.left = loop[t].left - 1] \in LoopStates
  BY <1>1, <1>2, PopoutAssumption DEF LoopStates
<1>4. LET l == [loop[t] EXCEPT !.left = loop[t].left - 1] IN
      l.of = loop[t].of /\ l.left = loop[t].left - 1 /\ l.size = loop[t].size
  BY <1>1 DEF LoopStates
<1>5. loop' = [loop EXCEPT ![t] = [loop[t] EXCEPT !.left = loop[t].left - 1]]
  BY DEF Retries
<1>6. Loops(t, loop[t].of, loop[t].left - 1, loop[t].size)
  BY <1>3, <1>4, <1>5 DEF PopoutTyped, Loops
<1>7. /\ asked' \in Window /\ asked'.size = loop[t].size /\ asked'.maxed = asked.maxed
  BY <1>1, WindowIs DEF PopoutTyped, Retries, AskSize
<1>. QED  BY <1>2, <1>6, <1>7

\* The call that moves the window moves on, or is done.
LEMMA MinisKept ==
    ASSUME NEW t \in Tasks, Moving(t), NEW pc \in {"none"} \cup WinCalls, NEW to, NEW told,
           Moves(t, pc, to, told)
    PROVE  Minis' <=> Minis
<1>1. /\ command[t].pc \notin MiniCalls /\ command'[t].pc \notin MiniCalls
      /\ \A u \in Tasks : u # t => command'[u] = command[u]
  BY DEF Moving, WinCalls, MiniCalls, Moves
<1>. QED  BY <1>1 DEF Minis

LEMMA Advances ==
    ASSUME Orderly, NEW t \in Tasks, Moving(t), NEW pc \in {"none"} \cup WinCalls,
           NEW to, NEW told, Moves(t, pc, to, told), told => isOpen,
           isOpen' = isOpen, isMini' = isMini, isPopOut' => isOpen, SizesFit',
           pc # "none" => Stage(t)', pc = "none" => Resting'
    PROVE  Orderly'
<1>1. \A u \in Tasks : u # t => ~Moving(u) /\ command'[u] = command[u]
  BY DEF Orderly, OneMoves, Moves
<1>2. /\ \A u \in Tasks : u # t => ~Moving(u)'
      /\ Moving(t)' <=> pc # "none"
  BY <1>1 DEF Moving, Moves, WinCalls
<1>3. OneMoves'
  BY <1>2 DEF OneMoves
<1>4. PlayerFits'
  <2>1. isPopOut' \/ isMini' => isOpen'
    BY DEF Orderly, PlayerFits
  <2>2. ASSUME NEW u \in Tasks
        PROVE  /\ Moving(u)' /\ command'[u].heard => isOpen'
               /\ At(u, "inset")' => isMini'
               /\ At(u, "uninset")' \/ At(u, "unload")' => ~isMini'
               /\ At(u, "unload")' => ~isOpen'
    <3>1. CASE u = t
      BY <3>1 DEF Moves, At, WinCalls
    <3>2. CASE u # t
      BY <1>1, <1>2, <3>2 DEF Orderly, PlayerFits, At
    <3>. QED  BY <3>1, <3>2
  <2>. QED  BY <2>1, <2>2 DEF PlayerFits
<1>5. AllStages'
  BY <1>2 DEF AllStages
<1>. QED  BY <1>3, <1>4, <1>5 DEF Orderly

\* What the call at a point finds.
LEMMA Finds ==
    ASSUME PopoutInv, ~excepted, NEW t \in Tasks, Moving(t)
    PROVE  Orderly /\ Stage(t) /\ SizesFit /\ PlayerFits
<1>1. Orderly
  BY DEF PopoutInv
<1>. QED  BY <1>1 DEF Orderly, AllStages

LEMMA EnterBeginsKeeps ==
    ASSUME PopoutInv, NEW t \in Tasks, EnterBegins(t)
    PROVE  PopoutInv'
<1>1. command' = [command EXCEPT ![t] = [command[t] EXCEPT !.pc = "stash", !.to =
                                           [command[t].to EXCEPT !.size = saved]]]
  BY DEF EnterBegins
<1>2. /\ command[t] \in Calls /\ command[t].to \in Window /\ saved \in WinSizes \ {"full"}
      /\ PopoutTyped /\ win.maxed \in BOOLEAN /\ asked.maxed \in BOOLEAN
  BY CallIs, WindowIs DEF PopoutInv, PopoutTyped
<1> DEFINE to == [command[t].to EXCEPT !.size = saved]
<1>3. to \in Window /\ to.size = saved
  BY <1>2, WindowIs
<1>4. Moves(t, "stash", to, command[t].heard)
  <2>. HIDE DEF to
  <2>1. LET c == [command[t] EXCEPT !.pc = "stash", !.to = to] IN
        c \in Calls /\ c.pc = "stash" /\ c.to = to /\ c.heard = command[t].heard
    BY <1>2, <1>3 DEF Calls, WinCalls
  <2>2. command' = [command EXCEPT ![t] = [command[t] EXCEPT !.pc = "stash", !.to = to]]
    BY <1>1 DEF to
  <2>. QED  BY <1>2, <2>1, <2>2 DEF PopoutTyped, Moves
<1>. HIDE DEF to
<1>5. /\ asked' \in Window /\ asked'.size = asked.size
      /\ asked'.maxed = (asked.maxed /\ ~win.maxed)
  <2> DEFINE b == asked.maxed /\ ~win.maxed
  <2>1. asked' = [asked EXCEPT !.maxed = b]
    BY DEF EnterBegins
  <2>2. asked \in Window /\ b \in BOOLEAN
    BY <1>2 DEF PopoutTyped
  <2>3. asked' \in Window /\ asked'.size = asked.size /\ asked'.maxed = b
    <3>. HIDE DEF b
    <3>. QED  BY <2>1, <2>2, WindowIs
  <2>. QED  BY <2>3
<1>6. PopoutTyped'
  BY <1>2, <1>4, <1>5 DEF EnterBegins, windowAsk, buttonVars, historyVars, PopoutTyped, Moves, ToSave
<1>7. ASSUME ~excepted
      PROVE  Orderly'
  <2>1. Moving(t) /\ Orderly /\ Stage(t) /\ SizesFit /\ PlayerFits
    BY <1>7, Finds DEF EnterBegins, At, Moving, WinCalls
  <2>2. /\ AtHome /\ asked = home /\ win = Granted(asked) /\ Enters(t) /\ MarginFits
    BY <2>1 DEF Stage, EnterBegins
  <2>3. win.maxed = asked.maxed
    BY <1>2, <2>2, WindowIs DEF Granted, PopoutTyped
  <2>4. SizesFit'
    BY <1>2, <1>3, <1>4, <1>5, <2>1 DEF SizesFit, EnterBegins, historyVars, Moves
  <2>5. Minis' <=> Minis
    BY <1>4, <2>1, MinisKept DEF WinCalls
  <2>6. asked' = [home EXCEPT !.maxed = FALSE]'
    BY <1>2, <1>5, <2>2, <2>3, WindowIs DEF PopoutTyped, EnterBegins, historyVars
  <2>7. AtHome' /\ Enters(t)' /\ MarginFits' /\ wasMaxed' = home'.maxed
    BY <1>4, <2>2, <2>3, <2>5, PopoutAssumption
       DEF AtHome, NoLoops, Enters, MarginFits, EnterBegins, historyVars, buttonVars, Moves
  <2>8. Stage(t)'
    BY <1>4, <2>6, <2>7 DEF Stage, At, Moves
  <2>. QED  BY <1>4, <2>1, <2>4, <2>8, Advances
            DEF EnterBegins, buttonVars, PlayerFits, WinCalls
<1>. QED  BY <1>6, <1>7 DEF PopoutInv, EnterBegins, historyVars

LEMMA EnterStashesKeeps ==
    ASSUME PopoutInv, NEW t \in Tasks, EnterStashes(t)
    PROVE  PopoutInv'
<1>1. Moves(t, "apply", command[t].to, command[t].heard) /\ PopoutTyped
  BY GotoIs DEF EnterStashes, PopoutInv, WinCalls
<1>2. PopoutTyped'
  BY <1>1, WindowIs DEF EnterStashes, windowAsk, buttonVars, PopoutTyped, Moves,
                         ToSave, At
<1>3. ASSUME ~excepted'
      PROVE  Orderly'
  <2>1. ~excepted /\ Moving(t) /\ Orderly /\ Stage(t) /\ SizesFit /\ PlayerFits
    BY <1>3, Finds DEF EnterStashes, At, Moving, WinCalls
  <2>2. /\ AtHome /\ asked = [home EXCEPT !.maxed = FALSE] /\ wasMaxed = home.maxed
        /\ Enters(t) /\ MarginFits
    BY <2>1 DEF Stage, EnterStashes
  <2>3. stash' = home'.size /\ win.size = home.size
    BY <1>3, <2>1 DEF EnterStashes
  <2>4. SizesFit'
    BY <1>1, <2>1 DEF SizesFit, EnterStashes, windowAsk, Moves
  <2>5. Minis' <=> Minis
    BY <1>1, <2>1, MinisKept DEF WinCalls
  <2>6. ~asked.maxed /\ ~win.maxed
    BY <1>1, <2>1, <2>2, <2>3, WindowIs DEF PopoutTyped, SizesFit
  <2>7. Away' /\ NoLoops("enter")' /\ Enters(t)' /\ MarginFits'
    BY <1>1, <2>2, <2>3, <2>5, <2>6
       DEF Away, AtHome, NoLoops, Enters, MarginFits, EnterStashes, windowAsk, buttonVars, Moves
  <2>8. Stage(t)'
    BY <1>1, <2>7 DEF Stage, At, Moves
  <2>. QED  BY <1>1, <2>1, <2>4, <2>8, Advances
            DEF EnterStashes, buttonVars, PlayerFits, WinCalls
<1>. QED  BY <1>2, <1>3 DEF PopoutInv

LEMMA NoWorkAreaKeeps ==
    ASSUME PopoutInv, NEW t \in Tasks, NoWorkArea(t)
    PROVE  PopoutInv'
<1>1. Moves(t, "failed", command[t].to, command[t].heard)
  BY GotoIs DEF NoWorkArea, PopoutInv, WinCalls
<1>2. PopoutTyped'
  BY <1>1 DEF NoWorkArea, windowAsk, stashVars, buttonVars, PopoutTyped, Moves, PopoutInv, ToSave
<1>. QED  BY <1>2 DEF PopoutInv, NoWorkArea

LEMMA EnterFailsKeeps ==
    ASSUME PopoutInv, NEW t \in Tasks, EnterFails(t)
    PROVE  PopoutInv'
<1>1. /\ Moves(t, "failed", command[t].to, command[t].heard) /\ PopoutTyped
      /\ command[t] \in Calls /\ command[t].to \in Window
      /\ command[t].to.size \in WinSizes
  BY GotoIs, CallIs, WindowIs DEF EnterFails, PopoutInv, WinCalls, PopoutTyped
<1>2. asked' \in Window
  BY <1>1, WindowIs DEF EnterFails, AskSize, PopoutTyped
<1>3. PopoutTyped'
  BY <1>1, <1>2 DEF EnterFails, stashVars, buttonVars, PopoutTyped, Moves, ToSave, At
<1>. QED  BY <1>3 DEF PopoutInv, EnterFails

LEMMA ExitFailsKeeps ==
    ASSUME PopoutInv, NEW t \in Tasks, ExitFails(t)
    PROVE  PopoutInv'
<1>1. /\ Moves(t, "failed", command[t].to, command[t].heard) /\ PopoutTyped
      /\ command[t] \in Calls /\ command[t].to \in Window
      /\ command[t].to.size \in WinSizes
  BY GotoIs, CallIs, WindowIs DEF ExitFails, PopoutInv, WinCalls, PopoutTyped
<1>2. asked' \in Window
  BY <1>1, WindowIs DEF ExitFails, AskSize, PopoutTyped
<1>3. bare' \in BOOLEAN
  BY <1>1, Zenon DEF ExitFails, PopoutTyped
<1>4. PopoutTyped'
  BY <1>1, <1>2, <1>3 DEF ExitFails, stashVars, buttonVars, PopoutTyped, Moves, ToSave, At
<1>. QED  BY <1>4 DEF PopoutInv, ExitFails

LEMMA EnterAppliesKeeps ==
    ASSUME PopoutInv, NEW t \in Tasks, EnterApplies(t)
    PROVE  PopoutInv'
<1>1. /\ Moves(t, "save", command[t].to, command[t].heard) /\ PopoutTyped
      /\ command[t] \in Calls /\ command[t].to \in Window
      /\ command[t].to.size \in WinSizes
  BY GotoIs, CallIs, WindowIs DEF EnterApplies, PopoutInv, WinCalls, PopoutTyped
<1>2. Loops(t, "enter", Attempts, command[t].to.size)
  <2>1. Attempts \in 0..Attempts
    BY PopoutAssumption
  <2>2. loop' = [loop EXCEPT ![t] = [of |-> "enter", left |-> Attempts,
                                     size |-> command[t].to.size]]
    BY DEF EnterApplies
  <2>. QED  BY <1>1, <2>1, <2>2, LoopIs
<1>3. /\ asked' \in Window /\ asked'.size = command[t].to.size
      /\ asked'.maxed = asked.maxed
  BY <1>1, WindowIs DEF EnterApplies, AskSize, PopoutTyped
<1>4. PopoutTyped'
  <2>1. \A u \in Tasks : loop'[u].left > 0 <=> loop'[u].of # "none"
    BY <1>1, <1>2, PopoutAssumption DEF PopoutTyped, Loops
  <2>. QED  BY <1>1, <1>2, <1>3, <2>1
            DEF EnterApplies, stashVars, buttonVars, historyVars, PopoutTyped, Moves, Loops,
                ToSave, At
<1>5. ASSUME ~excepted
      PROVE  Orderly'
  <2>1. Moving(t) /\ Orderly /\ Stage(t) /\ SizesFit /\ PlayerFits
    BY <1>5, Finds DEF EnterApplies, At, Moving, WinCalls
  <2>2. Away /\ NoLoops("enter") /\ Enters(t) /\ MarginFits
    BY <2>1 DEF Stage, EnterApplies
  <2>3. SizesFit'
    BY <1>1, <1>2, <1>3, <2>1 DEF SizesFit, EnterApplies, historyVars, Moves, Loops
  <2>4. NoLoops("exit")' /\ ~NoLoops("enter")'
    BY <1>2, <2>2 DEF Away, NoLoops, Loops
  <2>5. Out' /\ Enters(t)' /\ HasStrip'
    BY <1>1, <1>3, <2>2, <2>4
       DEF Out, Away, Enters, HasStrip, EnterApplies, stashVars, historyVars, buttonVars, Moves
  <2>6. Stage(t)'
    BY <1>1, <2>5 DEF Stage, At, Moves
  <2>. QED  BY <1>1, <2>1, <2>3, <2>6, Advances
            DEF EnterApplies, buttonVars, PlayerFits, WinCalls
<1>. QED  BY <1>4, <1>5 DEF PopoutInv, EnterApplies, historyVars

LEMMA EnterSavesKeeps ==
    ASSUME PopoutInv, NEW t \in Tasks, EnterSaves(t)
    PROVE  PopoutInv'
<1>1. /\ Moves(t, "entered", command[t].to, command[t].heard) /\ PopoutTyped
      /\ command[t].to.size \in WinSizes \ {"full"}
  BY GotoIs, CallIs, WindowIs DEF EnterSaves, PopoutInv, WinCalls, PopoutTyped, ToSave, At
<1>2. PopoutTyped'
  BY <1>1 DEF EnterSaves, windowAsk, stashVars, buttonVars, historyVars, PopoutTyped, Moves,
              ToSave
<1>3. ASSUME ~excepted
      PROVE  Orderly'
  <2>1. Moving(t) /\ Orderly /\ Stage(t) /\ SizesFit /\ PlayerFits
    BY <1>3, Finds DEF EnterSaves, At, Moving, WinCalls
  <2>2. Out /\ Enters(t) /\ HasStrip
    BY <2>1 DEF Stage, EnterSaves
  <2>3. SizesFit'
    BY <1>1, <2>1 DEF SizesFit, EnterSaves, windowAsk, historyVars, Moves
  <2>4. Out' /\ Enters(t)' /\ HasStrip'
    BY <1>1, <2>2 DEF Out, Away, Enters, HasStrip, NoLoops, EnterSaves, windowAsk, stashVars,
                      historyVars, buttonVars, Moves
  <2>5. Stage(t)'
    BY <1>1, <2>4 DEF Stage, At, Moves
  <2>. QED  BY <1>1, <2>1, <2>3, <2>5, Advances
            DEF EnterSaves, buttonVars, PlayerFits, WinCalls
<1>. QED  BY <1>2, <1>3 DEF PopoutInv, EnterSaves, historyVars

-----------------------------------------------------------------------------
LEMMA ExitClearsKeeps ==
    ASSUME PopoutInv, NEW t \in Tasks, ExitClears(t)
    PROVE  PopoutInv'
<1>1. Moves(t, "persist", command[t].to, command[t].heard) /\ PopoutTyped
  BY GotoIs DEF ExitClears, PopoutInv, WinCalls
<1>2. PopoutTyped'
  BY <1>1 DEF ExitClears, windowAsk, stashVars, buttonVars, PopoutTyped, Moves, ToSave, Overtaken
<1>3. ASSUME ~excepted'
      PROVE  Orderly'
  <2>1. /\ ~excepted /\ margin # "inset"
        /\ Moving(t) /\ Orderly /\ Stage(t) /\ SizesFit /\ PlayerFits
    BY <1>3, Finds DEF ExitClears, Overtaken, At, Moving, WinCalls
  <2>2. Out /\ Leaves(t) /\ (isMini => Minis)
    BY <2>1 DEF Stage, ExitClears
  <2>3. SizesFit'
    BY <1>1, <2>1 DEF SizesFit, ExitClears, windowAsk, Moves
  <2>4. Minis' <=> Minis
    BY <1>1, <2>1, MinisKept DEF WinCalls
  <2>5. Out' /\ Leaves(t)' /\ MarginFits'
    BY <1>1, <2>2, <2>4, PopoutAssumption
       DEF Out, Away, NoLoops, Leaves, MarginFits, ExitClears, windowAsk, stashVars,
           buttonVars, Moves
  <2>6. Stage(t)'
    BY <1>1, <2>5 DEF Stage, At, Moves
  <2>. QED  BY <1>1, <2>1, <2>3, <2>6, Advances
            DEF ExitClears, buttonVars, PlayerFits, WinCalls
<1>. QED  BY <1>2, <1>3 DEF PopoutInv

LEMMA ExitPersistsKeeps ==
    ASSUME PopoutInv, NEW t \in Tasks, ExitPersists(t)
    PROVE  PopoutInv'
<1>1. Moves(t, "take", command[t].to, command[t].heard) /\ PopoutTyped
  BY GotoIs DEF ExitPersists, PopoutInv, WinCalls
<1>2. saved' \in WinSizes \ {"full"}
  BY <1>1, WindowIs DEF ExitPersists, PopoutTyped
<1>3. PopoutTyped'
  BY <1>1, <1>2 DEF ExitPersists, stashVars, buttonVars, historyVars, PopoutTyped, Moves, ToSave
<1>4. ASSUME ~excepted
      PROVE  Orderly'
  <2>1. Moving(t) /\ Orderly /\ Stage(t) /\ SizesFit /\ PlayerFits
    BY <1>4, Finds DEF ExitPersists, At, Moving, WinCalls
  <2>2. Out /\ Leaves(t) /\ MarginFits
    BY <2>1 DEF Stage, ExitPersists
  <2>3. SizesFit'
    BY <1>1, <2>1 DEF SizesFit, ExitPersists, historyVars, Moves
  <2>4. Minis' <=> Minis
    BY <1>1, <2>1, MinisKept DEF WinCalls
  <2>5. Away' /\ ~onTop' /\ bare' /\ Leaves(t)' /\ MarginFits'
    BY <1>1, <2>2, <2>4
       DEF Out, Away, NoLoops, Leaves, MarginFits, ExitPersists, stashVars, buttonVars,
           historyVars, Moves
  <2>6. Stage(t)'
    BY <1>1, <2>5 DEF Stage, At, Moves
  <2>. QED  BY <1>1, <2>1, <2>3, <2>6, Advances
            DEF ExitPersists, buttonVars, PlayerFits, WinCalls
<1>. QED  BY <1>3, <1>4 DEF PopoutInv, ExitPersists, historyVars

LEMMA ExitTakesKeeps ==
    ASSUME PopoutInv, NEW t \in Tasks, ExitTakes(t)
    PROVE  PopoutInv'
<1> DEFINE pc == IF stash = None THEN "exited" ELSE "restore"
           to == IF stash = None THEN command[t].to ELSE [size |-> stash, maxed |-> wasMaxed]
<1>1. PopoutTyped /\ command[t] \in Calls /\ command[t].to \in Window
  BY CallIs DEF PopoutInv, PopoutTyped
<1>2. to \in Window /\ pc \in WinCalls /\ (stash # None => to.size = stash /\ to.maxed = wasMaxed)
  BY <1>1, WindowIs DEF PopoutTyped, WinCalls
<1>3. Moves(t, pc, to, command[t].heard)
  <2>1. command' = [command EXCEPT ![t] = [command[t] EXCEPT !.pc = pc, !.to = to]]
    BY DEF ExitTakes
  <2>. HIDE DEF pc, to
  <2>2. LET c == [command[t] EXCEPT !.pc = pc, !.to = to] IN
        c \in Calls /\ c.pc = pc /\ c.to = to /\ c.heard = command[t].heard
    BY <1>1, <1>2 DEF Calls
  <2>. QED  BY <1>1, <2>1, <2>2 DEF PopoutTyped, Moves
<1>4. PopoutTyped'
  <2>1. pc \notin {"stash", "apply", "save"}
    OBVIOUS
  <2>. HIDE DEF pc, to
  <2>. QED  BY <1>1, <1>3, <2>1
            DEF ExitTakes, windowAsk, buttonVars, historyVars, PopoutTyped, Moves, ToSave
<1>5. ASSUME ~excepted
      PROVE  Orderly'
  <2>1. Moving(t) /\ Orderly /\ Stage(t) /\ SizesFit /\ PlayerFits
    BY <1>5, Finds DEF ExitTakes, At, Moving, WinCalls
  <2>2. Away /\ ~onTop /\ bare /\ Leaves(t) /\ MarginFits
    BY <2>1 DEF Stage, ExitTakes
  <2>3. stash # None /\ pc = "restore" /\ to = home
    BY <1>1, <1>2, <2>2, WindowIs, PopoutAssumption DEF Away, PopoutTyped
  <2>. HIDE DEF pc, to
  <2>4. SizesFit'
    BY <1>3, <2>1, <2>3 DEF SizesFit, ExitTakes, windowAsk, historyVars, Moves
  <2>5. Minis' <=> Minis
    BY <1>2, <1>3, <2>1, MinisKept
  <2>6. /\ command'[t].to = home' /\ stash' = None /\ ~onTop' /\ ~asked'.maxed /\ ~win'.maxed
        /\ NoLoops("exit")' /\ Leaves(t)' /\ MarginFits'
    BY <1>3, <2>2, <2>3, <2>5
       DEF Away, NoLoops, Leaves, MarginFits, ExitTakes, windowAsk, buttonVars, historyVars, Moves
  <2>7. Stage(t)'
    BY <1>3, <2>3, <2>6 DEF Stage, At, Moves
  <2>. QED  BY <1>2, <1>3, <2>1, <2>4, <2>7, Advances
            DEF ExitTakes, buttonVars, PlayerFits, WinCalls
<1>. QED  BY <1>4, <1>5 DEF PopoutInv, ExitTakes, historyVars

LEMMA ExitRestoresKeeps ==
    ASSUME PopoutInv, NEW t \in Tasks, ExitRestores(t)
    PROVE  PopoutInv'
<1>1. /\ Moves(t, "exited", command[t].to, command[t].heard) /\ PopoutTyped
      /\ command[t] \in Calls /\ command[t].to \in Window
      /\ command[t].to.size \in WinSizes
  BY GotoIs, CallIs, WindowIs DEF ExitRestores, PopoutInv, WinCalls, PopoutTyped
<1>2. Loops(t, "exit", Attempts, command[t].to.size)
  <2>1. Attempts \in 0..Attempts
    BY PopoutAssumption
  <2>2. loop' = [loop EXCEPT ![t] = [of |-> "exit", left |-> Attempts,
                                     size |-> command[t].to.size]]
    BY DEF ExitRestores
  <2>. QED  BY <1>1, <2>1, <2>2, LoopIs
<1>3. /\ asked' \in Window /\ asked'.size = command[t].to.size
      /\ asked'.maxed = (asked.maxed \/ command[t].to.maxed)
  <2>1. asked' = [size |-> command[t].to.size, maxed |-> asked.maxed \/ command[t].to.maxed]
    BY DEF ExitRestores, AskBack
  <2>2. (asked.maxed \/ command[t].to.maxed) \in BOOLEAN
    BY <1>1, WindowIs DEF PopoutTyped
  <2>. QED  BY <1>1, <2>1, <2>2, WindowIs, Zenon
<1>4. PopoutTyped'
  <2>1. \A u \in Tasks : loop'[u].left > 0 <=> loop'[u].of # "none"
    BY <1>1, <1>2, PopoutAssumption DEF PopoutTyped, Loops
  <2>. QED  BY <1>1, <1>2, <1>3, <2>1
            DEF ExitRestores, stashVars, buttonVars, historyVars, PopoutTyped, Moves, Loops, ToSave
<1>5. ASSUME ~excepted
      PROVE  Orderly'
  <2>1. Moving(t) /\ Orderly /\ Stage(t) /\ SizesFit /\ PlayerFits
    BY <1>5, Finds DEF ExitRestores, At, Moving, WinCalls
  <2>2. /\ command[t].to = home /\ stash = None /\ ~onTop /\ ~asked.maxed /\ ~win.maxed
        /\ NoLoops("exit") /\ Leaves(t) /\ MarginFits
    BY <2>1 DEF Stage, ExitRestores
  <2>3. asked' = home /\ home' = home
    BY <1>1, <1>3, <2>2, WindowIs DEF PopoutTyped, ExitRestores, historyVars
  <2>4. SizesFit'
    BY <1>1, <1>2, <1>3, <2>1 DEF SizesFit, ExitRestores, historyVars, Moves, Loops
  <2>5. Minis' <=> Minis
    BY <1>1, <2>1, MinisKept DEF WinCalls
  <2>6. Looking(Attempts)'
    BY <1>2, PopoutAssumption DEF Looking, Loops
  <2>7. \A u \in Tasks : loop'[u].of = "exit" => loop'[u].size = home'.size
    BY <1>2, <2>2, <2>3 DEF NoLoops, Loops
  <2>8. Back' /\ Leaves(t)' /\ MarginFits'
    BY <1>1, <2>2, <2>3, <2>5, <2>6, <2>7
       DEF Back, Leaves, MarginFits, ExitRestores, stashVars, buttonVars, Moves
  <2>9. Stage(t)'
    BY <1>1, <2>8 DEF Stage, At, Moves
  <2>. QED  BY <1>1, <2>1, <2>4, <2>9, Advances
            DEF ExitRestores, buttonVars, PlayerFits, WinCalls
<1>. QED  BY <1>4, <1>5 DEF PopoutInv, ExitRestores, historyVars

LEMMA AnsweredKeeps ==
    ASSUME PopoutInv, NEW t \in Tasks, Answered(t)
    PROVE  PopoutInv'
<1>1. Moves(t, "none", Anywhere, FALSE) /\ PopoutTyped /\ command[t].heard \in BOOLEAN
  BY DoneIs, CallIs DEF Answered, PopoutInv, PopoutTyped
<1>2. isPopOut' \in BOOLEAN
  BY <1>1 DEF Answered, At, PopoutTyped
<1>3. PopoutTyped'
  BY <1>1, <1>2 DEF Answered, windowAsk, stashVars, historyVars, PopoutTyped, Moves, ToSave
<1>4. ASSUME ~excepted
      PROVE  Orderly'
  <2>1. Moving(t) /\ Orderly /\ Stage(t) /\ SizesFit /\ PlayerFits /\ ~At(t, "failed")
    BY <1>4, Finds DEF Answered, At, Moving, WinCalls, Stage
  <2>2. SizesFit'
    BY <1>1, <2>1, CallIs DEF SizesFit, Answered, windowAsk, historyVars, Moves
  <2>3. Minis' <=> Minis
    BY <1>1, <2>1, MinisKept DEF WinCalls
  <2>4. Resting' /\ (isPopOut' => isOpen)
    <3>1. CASE At(t, "entered")
      <4>1. Out /\ Enters(t) /\ HasStrip
        BY <2>1, <3>1 DEF Stage
      <4>2. isPopOut' /\ Out' /\ HasStrip' /\ ~isMini'
        BY <3>1, <4>1 DEF Out, Away, NoLoops, Enters, HasStrip, Answered, At, windowAsk,
                          stashVars, historyVars
      <4>. QED  BY <2>1, <4>1, <4>2 DEF Resting, PlayerFits, Enters
    <3>2. CASE At(t, "exited")
      <4>1. Back /\ Leaves(t) /\ MarginFits
        BY <2>1, <3>2 DEF Stage
      <4>2. ~isPopOut'
        BY <3>2, <4>1 DEF Leaves, Answered, At
      <4>3. Back' /\ MarginFits'
        BY <2>3, <4>1 DEF Back, Looking, NoLoops, MarginFits, Answered, windowAsk, stashVars,
                          historyVars
      <4>. QED  BY <4>2, <4>3 DEF Resting
    <3>. QED  BY <2>1, <3>1, <3>2 DEF Answered, At
  <2>. QED  BY <1>1, <2>1, <2>2, <2>4, Advances DEF Answered
<1>. QED  BY <1>3, <1>4 DEF PopoutInv, Answered, historyVars

-----------------------------------------------------------------------------
\* A step beside the call that moves the window: of the mini player, t, or, if
\* there is none, of a loop or the compositor.
LEMMA Beside ==
    ASSUME Orderly, isPopOut' = isPopOut, isOpen' = isOpen, isMini' = isMini, SizesFit',
           \A u \in Tasks : command'[u].pc = "none" \/ command'[u] = command[u],
           \A u \in Tasks : Moving(u) => command'[u] = command[u],
           \A u \in Tasks : Moving(u) /\ Stage(u) => Stage(u)', Resting => Resting'
    PROVE  Orderly'
<1>1. \A u \in Tasks : Moving(u)' <=> Moving(u)
  BY DEF Moving, WinCalls
<1>2. OneMoves' /\ AllStages'
  BY <1>1 DEF Orderly, OneMoves, AllStages
<1>3. \A u \in Tasks : \A pc \in MiniCalls : At(u, pc)' => At(u, pc)
  BY DEF At, MiniCalls
<1>4. \A u \in Tasks : Moving(u)' => Moving(u) /\ command'[u] = command[u]
  BY <1>1
<1>5. PlayerFits'
  BY <1>3, <1>4 DEF Orderly, PlayerFits, MiniCalls
<1>. QED  BY <1>2, <1>5 DEF Orderly

\* A call of the mini player is done: the margin is as it should be.
LEMMA MiniDone ==
    ASSUME PopoutTyped, Orderly, NEW t \in Tasks, command[t].pc \in MiniCalls,
           Moves(t, "none", Anywhere, FALSE),
           margin' = IF isMini THEN "inset" ELSE None,
           UNCHANGED <<windowAsk, stashVars, saved, loop, buttonVars, home>>,
           margin # "strip" \/ ~isOpen
    PROVE  Orderly'
<1>1. SizesFit'
  BY CallIs DEF Orderly, SizesFit, windowAsk, Moves
<1>2. ~Moving(t)
  BY DEF Moving, MiniCalls, WinCalls
<1>3. \A u \in Tasks : u # t => command'[u] = command[u]
  BY DEF Moves
<1>4. MarginFits'
  BY PopoutAssumption DEF MarginFits, buttonVars
<1>5. /\ AtHome' <=> AtHome
      /\ Away' <=> Away
      /\ Out' <=> Out
      /\ Back' <=> Back
      /\ NoLoops("enter")' <=> NoLoops("enter")
      /\ NoLoops("exit")' <=> NoLoops("exit")
      /\ Granted(asked)' = Granted(asked)
  BY DEF AtHome, Away, Out, Back, Looking, NoLoops, windowAsk, stashVars, Granted
<1>6. isOpen => (HasStrip => HasStrip')
  BY <1>5 DEF HasStrip
<1>7. ASSUME NEW u \in Tasks, Moving(u), Stage(u)
      PROVE  Stage(u)'
  <2>1. /\ \A pc \in WinCalls : At(u, pc)' <=> At(u, pc)
        /\ Enters(u)' <=> Enters(u)
        /\ Leaves(u)' <=> Leaves(u)
        /\ command'[u] = command[u]
    BY <1>2, <1>3, <1>7 DEF At, Enters, Leaves, buttonVars
  <2>2. Enters(u) => isOpen
    BY <1>7 DEF Orderly, PlayerFits, Enters
  <2>3. isMini' => margin' = "inset"
    BY DEF buttonVars
  <2>. QED  BY <1>4, <1>5, <1>6, <1>7, <2>1, <2>2, <2>3
            DEF Stage, WinCalls, windowAsk, stashVars
<1>8. Resting => Resting'
  BY <1>4, <1>5, <1>6 DEF Resting, buttonVars, Orderly, PlayerFits
<1>. QED  BY <1>1, <1>2, <1>3, <1>7, <1>8, Beside DEF buttonVars, Moves

LEMMA MiniKeeps ==
    ASSUME PopoutInv, NEW t \in Tasks, Inset(t) \/ Uninset(t) \/ Unload(t)
    PROVE  PopoutInv'
<1>1. /\ command[t].pc \in MiniCalls /\ PopoutTyped
      /\ UNCHANGED <<windowAsk, stashVars, saved, loop, buttonVars, home>>
      /\ margin' \in {None, "inset"} /\ excepted' \in BOOLEAN
  BY DEF Inset, Uninset, Unload, At, MiniCalls, historyVars, PopoutInv, Overtaken, PopoutTyped
<1>2. Moves(t, "none", Anywhere, FALSE)
  BY <1>1, DoneIs DEF Inset, Uninset, Unload
<1>3. PopoutTyped'
  BY <1>1, <1>2 DEF windowAsk, stashVars, buttonVars, PopoutTyped, Moves, ToSave
<1>4. ASSUME ~excepted'
      PROVE  Orderly'
  <2>1. ~excepted /\ (Unload(t) \/ margin # "strip")
    <3>1. CASE Inset(t)
      BY <1>4, <3>1 DEF Inset, Overtaken
    <3>2. CASE Uninset(t)
      BY <1>4, <3>2 DEF Uninset, Overtaken
    <3>3. CASE Unload(t)
      BY <1>4, <3>3 DEF Unload, historyVars
    <3>. QED  BY <3>1, <3>2, <3>3
  <2>2. Orderly
    BY <2>1 DEF PopoutInv
  <2>3. /\ margin' = IF isMini THEN "inset" ELSE None
        /\ Unload(t) => ~isOpen
    BY <2>2 DEF Orderly, PlayerFits, Inset, Uninset, Unload
  <2>. QED  BY <1>1, <1>2, <2>1, <2>2, <2>3, MiniDone
<1>. QED  BY <1>3, <1>4 DEF PopoutInv

-----------------------------------------------------------------------------
\* What a tick, the compositor and a drop leave to be shown.
LEMMA Around ==
    ASSUME PopoutTyped, Orderly, SizesFit',
           UNCHANGED <<onTop, bare, stashVars, command, buttonVars, home>>,
           AtHome => AtHome' /\ asked' = asked /\ (win = Granted(asked) => win' = win),
           Away => Away', Back => Back', Out /\ HasStrip => HasStrip',
           NoLoops("enter") => NoLoops("enter")',
           margin' # margin => /\ ~Exiting /\ ~isMini /\ stash # None
                               /\ ~NoLoops("enter"),
           stash = None /\ ~asked.maxed /\ ~win.maxed /\ NoLoops("exit") =>
             ~asked'.maxed /\ ~win'.maxed /\ NoLoops("exit")'
    PROVE  Orderly'
<1>1. /\ Minis' <=> Minis
      /\ \A u \in Tasks, pc \in WinCalls : At(u, pc)' <=> At(u, pc)
      /\ \A u \in Tasks : /\ Enters(u)' <=> Enters(u)
                          /\ Leaves(u)' <=> Leaves(u)
  BY DEF Minis, At, Enters, Leaves, buttonVars
<1>2. (margin' = margin) => (MarginFits' <=> MarginFits)
  BY <1>1 DEF MarginFits, buttonVars
<1>3. Out => Out'
  BY DEF Out
<1>4. ASSUME NEW u \in Tasks, Moving(u), Stage(u)
      PROVE  Stage(u)'
  <2>1. CASE At(u, "enter") \/ At(u, "stash") \/ At(u, "apply")
    <3>1. margin' = margin
      BY <1>4, <2>1 DEF Stage, AtHome
    <3>. QED  BY <1>1, <1>2, <1>4, <2>1, <3>1
              DEF Stage, At, stashVars, Granted, Enters, buttonVars, AtHome
  <2>2. CASE At(u, "save") \/ At(u, "entered")
    BY <1>1, <1>3, <1>4, <2>2 DEF Stage, At
  <2>3. CASE At(u, "exit")
    <3>1. isMini => margin' = margin
      OBVIOUS
    <3>. QED  BY <1>1, <1>3, <1>4, <2>3, <3>1 DEF Stage, At, buttonVars
  <2>4. CASE At(u, "persist") \/ At(u, "take")
    <3>1. margin' = margin
      BY <2>4 DEF Exiting, At
    <3>. QED  BY <1>1, <1>2, <1>3, <1>4, <2>4, <3>1 DEF Stage, At
  <2>5. CASE At(u, "restore") \/ At(u, "exited")
    <3>1. margin' = margin
      BY <1>4, <2>5 DEF Stage, Back
    <3>. QED  BY <1>1, <1>2, <1>4, <2>5, <3>1 DEF Stage, At, stashVars
  <2>. QED  BY <1>4, <2>1, <2>2, <2>3, <2>4, <2>5 DEF Moving, At, WinCalls, Stage
<1>5. ASSUME Resting PROVE Resting'
  <2>1. CASE isPopOut
    BY <1>3, <1>5, <2>1 DEF Resting, buttonVars
  <2>2. CASE ~isPopOut
    <3>1. margin' = margin
      BY <1>5, <2>2 DEF Resting, Back
    <3>. QED  BY <1>2, <1>5, <2>2, <3>1 DEF Resting, buttonVars
  <2>. QED  BY <2>1, <2>2
<1>. QED  BY <1>4, <1>5, Beside DEF buttonVars

LEMMA ConfigureKeeps ==
    ASSUME PopoutInv, Configure
    PROVE  PopoutInv'
<1>1. PopoutTyped /\ win \in Window /\ asked \in Window /\ home \in Window
  BY DEF PopoutInv, PopoutTyped
<1>2. /\ win' \in Window /\ win'.maxed = asked.maxed
      /\ win'.size = IF asked.maxed THEN "full" ELSE asked.size
  <2>1. "full" \in WinSizes
    BY DEF WinSizes
  <2>. QED  BY <1>1, <2>1, WindowIs DEF Configure, Granted
<1>3. PopoutTyped'
  BY <1>1, <1>2 DEF Configure, stashVars, buttonVars, historyVars, PopoutTyped, ToSave
<1>4. ASSUME ~excepted
      PROVE  Orderly'
  <2>1. Orderly /\ SizesFit
    BY <1>4 DEF PopoutInv, Orderly
  <2>2. SizesFit'
    BY <1>1, <1>2, <2>1, WindowIs DEF SizesFit, Configure, historyVars
  <2>3. /\ NoLoops("enter")' <=> NoLoops("enter")
        /\ NoLoops("exit")' <=> NoLoops("exit")
        /\ HasStrip' <=> HasStrip
    BY DEF NoLoops, HasStrip, Configure
  <2>4. AtHome => AtHome'
    BY <2>3 DEF AtHome, Configure, stashVars
  <2>5. Away => Away'
    BY <1>2, <2>3 DEF Away, Configure, stashVars, historyVars
  <2>6. Back => Back'
    <3>1. SUFFICES ASSUME Back PROVE Back'
      OBVIOUS
    <3>2. asked = home
      <4>1. SUFFICES ASSUME asked # home PROVE FALSE
        OBVIOUS
      <4>2. win = asked
        BY <3>1, <4>1 DEF Back
      <4>3. ~win.maxed
        BY <2>1, <4>2 DEF SizesFit
      <4>. QED  BY <4>2, <4>3 DEF Configure, Unsettled, Granted
    <3>. QED  BY <2>3, <3>1, <3>2 DEF Back, Looking, Configure, stashVars, historyVars
  <2>. QED  BY <1>1, <1>2, <2>1, <2>2, <2>3, <2>4, <2>5, <2>6, Around
            DEF Configure, Unsettled, historyVars, NoLoops
<1>. QED  BY <1>3, <1>4 DEF PopoutInv, Configure, historyVars

LEMMA DropsKeeps ==
    ASSUME PopoutInv, Drops
    PROVE  PopoutInv'
<1>1. PopoutTyped /\ win \in Window /\ asked \in Window /\ home \in Window
  BY DEF PopoutInv, PopoutTyped
<1>2. PopoutTyped'
  BY <1>1 DEF Drops, stashVars, buttonVars, historyVars, PopoutTyped, ToSave
<1>3. PICK t \in Tasks : loop[t].left > 1 /\ loop[t].size = asked.size
  BY DEF Drops
<1>4. loop[t].of \in {"enter", "exit"} /\ loop[t].left \in Nat /\ loop[t].left <= Attempts
  BY <1>1, <1>3, PopoutAssumption DEF PopoutTyped, LoopStates
<1>5. ASSUME ~excepted
      PROVE  Orderly'
  <2>1. Orderly /\ SizesFit
    BY <1>5 DEF PopoutInv, Orderly
  <2>2. SizesFit'
    BY <2>1 DEF SizesFit, Drops, historyVars
  <2>3. /\ NoLoops("enter")' <=> NoLoops("enter")
        /\ NoLoops("exit")' <=> NoLoops("exit")
        /\ HasStrip' <=> HasStrip
        /\ ~(NoLoops("enter") /\ NoLoops("exit"))
    BY <1>4 DEF NoLoops, HasStrip, Drops
  <2>4. ~AtHome
    BY <2>3 DEF AtHome
  <2>5. Away => Away'
    BY <2>3 DEF Away, Drops, stashVars, historyVars
  <2>6. Back => Back'
    <3>1. SUFFICES ASSUME Back PROVE Back'
      OBVIOUS
    <3>2. Looking(2)
      <4>1. CASE loop[t].of = "exit"
        BY <1>3, <1>4, <4>1 DEF Looking
      <4>2. CASE loop[t].of = "enter"
        <5>1. PICK u \in Tasks : loop[u].of = "exit" /\ Attempts <= loop[u].left
          BY <3>1, <4>2 DEF Back, NoLoops, Looking
        <5>2. loop[u].left \in Nat
          BY <1>1 DEF PopoutTyped, LoopStates
        <5>. QED  BY <1>3, <1>4, <5>1, <5>2, PopoutAssumption DEF Looking
      <4>. QED  BY <1>4, <4>1, <4>2
    <3>3. asked'.maxed = home'.maxed /\ win' = asked'
      BY <1>1, <3>1, WindowIs DEF Back, Drops, historyVars
    <3>. QED  BY <2>3, <3>1, <3>2, <3>3 DEF Back, Looking, Drops, stashVars, historyVars
  <2>. QED  BY <1>1, <2>1, <2>2, <2>3, <2>4, <2>5, <2>6, Around DEF Drops, historyVars
<1>. QED  BY <1>2, <1>5 DEF PopoutInv, Drops, historyVars

\* A tick of t's loop: it goes on, or is over.
Ticks(t, of) ==
    /\ loop' \in [Tasks -> LoopStates]
    /\ \A u \in Tasks \ {t} : loop'[u] = loop[u]
    /\ loop'[t].of \in {"none", of}
    /\ loop'[t].of = of => loop'[t].size = loop[t].size /\ loop'[t].left = loop[t].left - 1
    /\ \A u \in Tasks : /\ loop'[u].left > 0 <=> loop'[u].of # "none"
                        /\ loop'[u].size # "full" \/ loop'[u].size = loop[u].size

LEMMA TickIs ==
    ASSUME PopoutTyped, NEW t \in Tasks, NEW of \in {"enter", "exit"}, loop[t].of = of,
           NEW seen, Breaks(t) \/ (~Ends(t, seen) /\ Retries(t))
    PROVE  /\ Ticks(t, of) /\ asked' \in Window /\ asked'.maxed = asked.maxed
           /\ asked'.size \in {asked.size, loop[t].size}
           /\ Breaks(t) => asked' = asked /\ loop'[t].of = "none"
           /\ ~Ends(t, seen) /\ Retries(t) =>
                /\ asked'.size = loop[t].size /\ loop[t].left > 1
                /\ seen # loop[t].size /\ loop'[t].of = of
<1>1. asked \in Window /\ \A u \in Tasks : loop[u].left > 0 <=> loop[u].of # "none"
  BY DEF PopoutTyped
<1>2. ASSUME Breaks(t)
      PROVE  Ticks(t, of) /\ asked' = asked /\ loop'[t].of = "none"
  <2>1. Loops(t, "none", 0, "windowed") /\ asked' = asked
    BY <1>2, BreaksIs
  <2>. QED  BY <1>1, <2>1 DEF Loops, Ticks
<1>3. ASSUME ~Ends(t, seen), Retries(t)
      PROVE  /\ Ticks(t, of) /\ loop'[t].of = of /\ loop[t].left > 1 /\ seen # loop[t].size
             /\ asked' \in Window /\ asked'.size = loop[t].size
             /\ asked'.maxed = asked.maxed
  <2>1. /\ Loops(t, of, loop[t].left - 1, loop[t].size)
        /\ loop[t].left > 1 /\ seen # loop[t].size
        /\ asked' \in Window /\ asked'.size = loop[t].size
        /\ asked'.maxed = asked.maxed
    BY <1>3, RetriesIs
  <2>2. loop[t].left \in Nat
    BY PopoutAssumption DEF PopoutTyped, LoopStates
  <2>. QED  BY <1>1, <2>1, <2>2 DEF Loops, Ticks
<1>. QED  BY <1>1, <1>2, <1>3, Zenon

LEMMA EnterTickKeeps ==
    ASSUME PopoutInv, NEW t \in Tasks, EnterTick(t)
    PROVE  PopoutInv'
<1>1. PopoutTyped /\ loop[t].of = "enter"
  BY DEF PopoutInv, EnterTick
<1>2. PICK seen \in {win.size, asked.size} :
         IF stash = None THEN Breaks(t) /\ UNCHANGED margin
         ELSE IF Ends(t, seen) THEN Breaks(t) /\ margin' = "strip"
         ELSE Retries(t) /\ UNCHANGED margin
  BY DEF EnterTick
<1>3. /\ Breaks(t) \/ (~Ends(t, seen) /\ Retries(t))
      /\ margin' = margin \/ (margin' = "strip" /\ stash # None)
      /\ margin' = "strip" \/ (~Ends(t, seen) /\ Retries(t)) \/ stash = None
      /\ stash = None => Breaks(t)
  BY <1>2
<1>4. /\ Ticks(t, "enter") /\ asked' \in Window /\ asked'.maxed = asked.maxed
      /\ asked'.size \in {asked.size, loop[t].size}
      /\ Breaks(t) => asked' = asked
      /\ ~Ends(t, seen) /\ Retries(t) => loop'[t].of = "enter"
  BY <1>1, <1>3, TickIs
<1>5. PopoutTyped'
  <2>1. margin' \in {None, "inset", "strip"} /\ excepted' \in BOOLEAN
    BY <1>1, <1>3 DEF EnterTick, PopoutTyped
  <2>. QED  BY <1>1, <1>4, <2>1
            DEF EnterTick, stashVars, buttonVars, PopoutTyped, Ticks, ToSave
<1>6. ASSUME ~excepted'
      PROVE  Orderly'
  <2>1. ~excepted /\ (margin' # margin => ~Exiting /\ ~isMini)
    BY <1>6 DEF EnterTick
  <2>2. Orderly /\ SizesFit
    BY <2>1 DEF PopoutInv, Orderly
  <2>3. SizesFit'
    BY <1>4, <2>2 DEF SizesFit, EnterTick, Ticks
  <2>4. /\ ~NoLoops("enter") /\ ~AtHome
        /\ NoLoops("exit")' <=> NoLoops("exit")
        /\ \A left : Looking(left)' <=> Looking(left)
    BY <1>1, <1>4 DEF NoLoops, AtHome, Ticks, Looking
  <2>5. Away => Away'
    BY <1>4, <2>4 DEF Away, EnterTick, stashVars
  <2>6. Back => Back'
    <3>1. SUFFICES ASSUME Back PROVE Back'
      OBVIOUS
    <3>2. asked' = asked /\ Looking(Attempts)
      BY <1>3, <1>4, <2>4, <3>1 DEF Back
    <3>3. \A u \in Tasks : loop'[u].of = "exit" => loop'[u].size = home.size
      BY <1>4, <3>1 DEF Back, Ticks
    <3>. QED  BY <2>4, <3>1, <3>2, <3>3 DEF Back, EnterTick, stashVars
  <2>7. Out /\ HasStrip => HasStrip'
    <3>1. Out => stash # None
      BY <1>1, PopoutAssumption, WindowIs DEF Out, Away, PopoutTyped
    <3>. QED  BY <1>3, <1>4, <3>1 DEF HasStrip, NoLoops
  <2>. QED  BY <1>1, <1>3, <1>4, <2>1, <2>2, <2>3, <2>4, <2>5, <2>6, <2>7, Around
            DEF EnterTick, stashVars, buttonVars
<1>. QED  BY <1>5, <1>6 DEF PopoutInv

LEMMA ExitTickKeeps ==
    ASSUME PopoutInv, NEW t \in Tasks, ExitTick(t)
    PROVE  PopoutInv'
<1>1. PopoutTyped /\ loop[t].of = "exit" /\ loop[t].left \in Nat /\ loop[t].left <= Attempts
  BY PopoutAssumption DEF PopoutInv, ExitTick, PopoutTyped, LoopStates
<1>2. \/ Breaks(t) /\ (win.size = loop[t].size \/ loop[t].left = 1)
      \/ ~Ends(t, win.size) /\ Retries(t)
  BY DEF ExitTick, Ends
<1>3. /\ Ticks(t, "exit") /\ asked' \in Window /\ asked'.maxed = asked.maxed
      /\ asked'.size \in {asked.size, loop[t].size}
      /\ Breaks(t) => asked' = asked
      /\ ~Ends(t, win.size) /\ Retries(t) => asked'.size = loop[t].size
  BY <1>1, <1>2, TickIs
<1>4. PopoutTyped'
  BY <1>1, <1>3 DEF ExitTick, stashVars, buttonVars, historyVars, PopoutTyped, Ticks, ToSave
<1>5. ASSUME ~excepted
      PROVE  Orderly'
  <2>1. Orderly /\ SizesFit
    BY <1>5 DEF PopoutInv, Orderly
  <2>2. SizesFit'
    BY <1>3, <2>1 DEF SizesFit, ExitTick, historyVars, Ticks
  <2>3. /\ ~NoLoops("exit") /\ ~AtHome /\ ~Away
        /\ NoLoops("enter")' <=> NoLoops("enter")
    BY <1>1, <1>3 DEF NoLoops, AtHome, Away, Ticks
  <2>4. Back => Back'
    <3>1. SUFFICES ASSUME Back PROVE Back'
      OBVIOUS
    <3>2. NoLoops("enter")' \/ Looking(Attempts)'
      <4>1. CASE NoLoops("enter")
        BY <2>3, <4>1
      <4>2. CASE ~NoLoops("enter")
        <5>1. PICK u \in Tasks : loop[u].of = "exit" /\ Attempts <= loop[u].left
          BY <3>1, <4>2 DEF Back, Looking
        <5>2. loop[t].left # Attempts
          BY <3>1, <4>2 DEF Back, ExitTick, NoLoops
        <5>3. u # t
          BY <1>1, <5>1, <5>2, PopoutAssumption
        <5>. QED  BY <1>3, <5>1, <5>3 DEF Ticks, Looking
      <4>. QED  BY <4>1, <4>2
    <3>3. \A u \in Tasks : loop'[u].of = "exit" => loop'[u].size = home.size
      BY <1>1, <1>3, <3>1 DEF Back, Ticks
    <3>4. CASE ~Ends(t, win.size) /\ Retries(t)
      <4>1. asked' = home
        BY <1>1, <1>3, <3>1, <3>4, WindowIs DEF Back, PopoutTyped
      <4>. QED  BY <1>3, <3>1, <3>2, <3>3, <4>1 DEF Back, ExitTick, stashVars, historyVars
    <3>5. CASE Breaks(t) /\ (win.size = loop[t].size \/ loop[t].left = 1)
      <4>1. asked # home => Looking(2)'
        <5>1. SUFFICES ASSUME asked # home PROVE Looking(2)'
          OBVIOUS
        <5>2. PICK u \in Tasks : loop[u].of = "exit" /\ 2 <= loop[u].left
          BY <3>1, <5>1 DEF Back, Looking
        <5>3. win = asked /\ win.maxed = home.maxed /\ loop[t].size = home.size
          BY <1>1, <3>1, <5>1 DEF Back
        <5>4. win.size # loop[t].size
          BY <1>1, <5>1, <5>3, WindowIs DEF PopoutTyped
        <5>5. u # t
          BY <3>5, <5>2, <5>4
        <5>. QED  BY <1>3, <5>2, <5>5 DEF Ticks, Looking
      <4>. QED  BY <1>3, <3>1, <3>2, <3>3, <3>5, <4>1
                DEF Back, ExitTick, stashVars, historyVars
    <3>. QED  BY <1>2, <3>4, <3>5
  <2>5. ~Out
    BY <2>3 DEF Out
  <2>. QED  BY <1>1, <2>1, <2>2, <2>3, <2>4, <2>5, Around DEF ExitTick, historyVars
<1>. QED  BY <1>4, <1>5 DEF PopoutInv, ExitTick, historyVars

-----------------------------------------------------------------------------
\* What a click calls: each of the calls pcs once, and nothing else.
Calling(pcs, stays) ==
    /\ command' \in [Tasks -> Calls]
    /\ \A t \in Tasks :
         \/ command'[t] = NoTask
         \/ /\ command'[t].pc \in pcs /\ command'[t].to = Anywhere
            /\ command'[t].heard = stays
    /\ \A pc \in pcs : \E t \in Tasks : command'[t].pc = pc
    /\ \A t, u \in Tasks : command'[t].pc \in pcs /\ command'[t].pc = command'[u].pc => t = u

LEMMA LeastIs ==
    ASSUME NEW S \in SUBSET Tasks, S # {}
    PROVE  Least(S) \in S
<1>1. \E t \in S : \A u \in S : t <= u
  <2>1. CASE 1 \in S
    BY <2>1 DEF Tasks
  <2>2. CASE 1 \notin S /\ 2 \in S
    BY <2>2 DEF Tasks
  <2>3. CASE 1 \notin S /\ 2 \notin S
    <3>1. \A u \in S : u = 3
      BY <2>3 DEF Tasks
    <3>2. PICK t \in S : TRUE
      OBVIOUS
    <3>. QED  BY <3>1, <3>2
  <2>. QED  BY <2>1, <2>2, <2>3
<1>. QED  BY <1>1, Zenon DEF Least

LEMMA InvokesIs ==
    ASSUME PopoutTyped, \A t \in Tasks : command[t] = NoTask,
           NEW pcs \in Seq(WinCalls \cup MiniCalls), Len(pcs) \in {1, 2},
           Len(pcs) = 2 => pcs[1] # pcs[2], NEW stays \in BOOLEAN, Invokes(pcs, stays)
    PROVE  Calling(Range(pcs), stays)
<1> DEFINE free == {t \in Tasks : Idle(t)}
           Place(pc) == Least(IF pc = pcs[1] THEN free ELSE free \ {Least(free)})
           chosen(t) == CHOOSE pc \in Range(pcs) : Place(pc) = t
<1>1. Cardinality(free) >= Len(pcs) /\ free \subseteq Tasks
  BY DEF Invokes
<1>2. command' = [t \in Tasks |->
                    IF \E i \in DOMAIN pcs : Place(pcs[i]) = t
                    THEN [NoTask EXCEPT !.heard = stays, !.pc = chosen(t)]
                    ELSE [command[t] EXCEPT !.heard = command[t].heard /\ stays]]
  BY Zenon DEF Invokes
<1>3. Range(pcs) = IF Len(pcs) = 1 THEN {pcs[1]} ELSE {pcs[1], pcs[2]}
  BY DEF Range
<1>4. Range(pcs) \subseteq WinCalls \cup MiniCalls /\ pcs[1] \in Range(pcs)
  BY <1>3
<1>5. free # {}
  <2>1. SUFFICES ASSUME free = {} PROVE FALSE
    OBVIOUS
  <2>2. Cardinality(free) = 0
    BY <2>1, FS_EmptySet
  <2>. HIDE DEF free
  <2>. QED  BY <1>1, <2>2
<1>6. Least(free) \in free
  BY <1>1, <1>5, LeastIs
<1>7. Len(pcs) = 2 => free \ {Least(free)} # {}
  <2>1. SUFFICES ASSUME Len(pcs) = 2, free \ {Least(free)} = {} PROVE FALSE
    OBVIOUS
  <2>2. free = {Least(free)}
    BY <1>6, <2>1
  <2>3. Cardinality(free) = 1
    BY <2>2, FS_Singleton
  <2>. QED  BY <1>1, <2>1, <2>3
<1>8. Len(pcs) = 2 => Least(free \ {Least(free)}) \in free \ {Least(free)}
  BY <1>1, <1>7, LeastIs
<1>9. /\ \A pc \in Range(pcs) : Place(pc) \in Tasks
      /\ \A p, q \in Range(pcs) : Place(p) = Place(q) => p = q
  <2>1. Place(pcs[1]) = Least(free)
    OBVIOUS
  <2>2. Len(pcs) = 2 => Place(pcs[2]) = Least(free \ {Least(free)})
    OBVIOUS
  <2>. HIDE DEF Place, free
  <2>. QED  BY <1>1, <1>3, <1>6, <1>8, <2>1, <2>2
<1>. HIDE DEF Place
<1>10. \A pc \in Range(pcs) : chosen(Place(pc)) = pc
  BY <1>9
<1>. HIDE DEF chosen
<1>11. \A t \in Tasks :
          (\E i \in DOMAIN pcs : Place(pcs[i]) = t) <=> (\E pc \in Range(pcs) : Place(pc) = t)
  BY DEF Range
<1>12. \A pc \in WinCalls \cup MiniCalls :
          LET c == [NoTask EXCEPT !.heard = stays, !.pc = pc] IN
          c \in Calls /\ c.pc = pc /\ c.to = Anywhere /\ c.heard = stays
  BY CallIs DEF NoTask, Calls
<1>13. [NoTask EXCEPT !.heard = NoTask.heard /\ stays] = NoTask /\ NoTask \in Calls
  BY CallIs DEF NoTask
<1>14. \A t \in Tasks : (\A pc \in Range(pcs) : Place(pc) # t) => command'[t] = NoTask
  BY <1>2, <1>11, <1>13
<1>15. \A pc \in Range(pcs) :
          /\ command'[Place(pc)] \in Calls
          /\ command'[Place(pc)].pc = pc /\ command'[Place(pc)].to = Anywhere
          /\ command'[Place(pc)].heard = stays
  <2>1. SUFFICES ASSUME NEW pc \in Range(pcs)
                 PROVE  /\ command'[Place(pc)] \in Calls
                        /\ command'[Place(pc)].pc = pc /\ command'[Place(pc)].to = Anywhere
                        /\ command'[Place(pc)].heard = stays
    OBVIOUS
  <2>2. command'[Place(pc)] = [NoTask EXCEPT !.heard = stays, !.pc = pc]
    BY <1>2, <1>9, <1>10, <1>11
  <2>3. pc \in WinCalls \cup MiniCalls
    BY <1>4
  <2>4. LET c == [NoTask EXCEPT !.heard = stays, !.pc = pc] IN
        c \in Calls /\ c.pc = pc /\ c.to = Anywhere /\ c.heard = stays
    BY <1>12, <2>3, Zenon
  <2>. QED  BY <2>2, <2>4
<1>16. command' \in [Tasks -> Calls]
  <2>1. \A t \in Tasks : command'[t] \in Calls
    BY <1>13, <1>14, <1>15
  <2>2. command' = [t \in Tasks |-> command'[t]]
    BY <1>2
  <2>. QED  BY <2>1, <2>2
<1>17. "none" \notin Range(pcs)
  BY <1>4 DEF WinCalls, MiniCalls
<1>. QED  BY <1>9, <1>14, <1>15, <1>16, <1>17, CallIs DEF Calling

\* A click that changes the outcome of nothing before it finds everything done.
LEMMA ClickFinds ==
    ASSUME PopoutInv, Hurries, ~excepted'
    PROVE  /\ PopoutTyped /\ ~excepted /\ SizesFit
           /\ \A t \in Tasks : command[t] = NoTask
           /\ isPopOut \/ isMini => isOpen
           /\ isPopOut => Out /\ HasStrip /\ ~isMini
           /\ ~isPopOut => /\ AtHome /\ asked = home /\ win = Granted(asked)
                           /\ margin = IF isMini THEN "inset" ELSE None
<1>1. /\ ~excepted /\ (isPopOut \/ ~Unsettled)
      /\ \A t \in Tasks : command[t] = NoTask /\ loop[t].of # "exit"
  BY DEF Hurries
<1>2. Orderly /\ SizesFit /\ PlayerFits
  BY <1>1 DEF PopoutInv, Orderly
<1>3. (\A t \in Tasks : ~Moving(t)) /\ ~Minis
  BY <1>1, CallIs DEF Moving, Minis, WinCalls, MiniCalls
<1>4. Resting
  BY <1>2, <1>3 DEF Orderly, AllStages
<1>5. ASSUME ~isPopOut
      PROVE  /\ AtHome /\ asked = home /\ win = Granted(asked)
             /\ margin = IF isMini THEN "inset" ELSE None
  <2>1. Back /\ MarginFits
    BY <1>4, <1>5 DEF Resting
  <2>. QED  BY <1>1, <1>3, <1>5, <2>1 DEF Back, MarginFits, AtHome, Looking, NoLoops, Unsettled
<1>. QED  BY <1>1, <1>2, <1>4, <1>5 DEF PopoutInv, Resting, PlayerFits

\* The window has been called to move, by one call or none.
LEMMA Called ==
    ASSUME NEW pcs \in SUBSET (WinCalls \cup MiniCalls), NEW stays, Calling(pcs, stays),
           NEW pc \in pcs, pc \in WinCalls, pcs \cap WinCalls = {pc}
    PROVE  /\ \E t \in Tasks : Moving(t)'
           /\ OneMoves'
           /\ \A t \in Tasks : Moving(t)' => At(t, pc)' /\ command'[t].heard = stays
<1>1. \A t \in Tasks : command'[t].pc \in pcs \cup {"none"} /\ "none" \notin WinCalls
  BY CallIs DEF Calling, WinCalls
<1>2. \A t \in Tasks : Moving(t)' => command'[t].pc = pc
  BY <1>1 DEF Moving
<1>. QED  BY <1>2, CallIs DEF Calling, OneMoves, Moving, At, WinCalls

ClickCalls == {"enter", "exit"} \cup MiniCalls

LEMMA InvokesTyped ==
    ASSUME PopoutTyped, NEW pcs \in Seq(ClickCalls), NEW stays \in BOOLEAN, Invokes(pcs, stays)
    PROVE  /\ command' \in [Tasks -> Calls]
           /\ \A t \in Tasks : ToSave(t)' => command'[t].to.size # "full"
<1> DEFINE free == {t \in Tasks : Idle(t)}
           Place(pc) == Least(IF pc = pcs[1] THEN free ELSE free \ {Least(free)})
           chosen(t) == CHOOSE pc \in Range(pcs) : Place(pc) = t
           new(t) == IF \E i \in DOMAIN pcs : Place(pcs[i]) = t
                     THEN [NoTask EXCEPT !.heard = stays, !.pc = chosen(t)]
                     ELSE [command[t] EXCEPT !.heard = command[t].heard /\ stays]
<1>1. command' = [t \in Tasks |-> new(t)]
  BY Zenon DEF Invokes
<1>. HIDE DEF Place
<1>2. \A t \in Tasks : (\E i \in DOMAIN pcs : Place(pcs[i]) = t) => chosen(t) \in ClickCalls
  <2>1. ASSUME NEW t \in Tasks, NEW i \in DOMAIN pcs, Place(pcs[i]) = t
        PROVE  chosen(t) \in Range(pcs)
    <3>1. pcs[i] \in Range(pcs)
      BY DEF Range
    <3>. QED  BY <2>1, <3>1
  <2>2. Range(pcs) \subseteq ClickCalls
    BY DEF Range
  <2>. QED  BY <2>1, <2>2
<1>. HIDE DEF chosen
<1>3. ASSUME NEW t \in Tasks
      PROVE  new(t) \in Calls /\ (new(t).pc \in {"stash", "apply", "save"} =>
                                    new(t).to.size # "full")
  <2>1. CASE \E i \in DOMAIN pcs : Place(pcs[i]) = t
    <3>1. /\ chosen(t) \in ClickCalls
          /\ new(t) = [NoTask EXCEPT !.heard = stays, !.pc = chosen(t)]
      BY <1>2, <2>1
    <3>2. new(t) \in Calls /\ new(t).pc = chosen(t)
      BY <3>1, CallIs DEF NoTask, Calls, ClickCalls, WinCalls, MiniCalls
    <3>. QED  BY <3>1, <3>2 DEF ClickCalls, MiniCalls
  <2>2. CASE ~\E i \in DOMAIN pcs : Place(pcs[i]) = t
    <3>1. new(t) = [command[t] EXCEPT !.heard = command[t].heard /\ stays]
      BY <2>2
    <3>2. command[t] \in Calls /\ (ToSave(t) => command[t].to.size # "full")
      BY DEF PopoutTyped
    <3>3. new(t) \in Calls /\ new(t).pc = command[t].pc /\ new(t).to = command[t].to
      <4> DEFINE b == command[t].heard /\ stays
      <4>1. b \in BOOLEAN
        BY <3>2, CallIs
      <4>. HIDE DEF b
      <4>2. [command[t] EXCEPT !.heard = b] \in Calls
        BY <3>2, <4>1 DEF Calls
      <4>3. /\ [command[t] EXCEPT !.heard = b].pc = command[t].pc
            /\ [command[t] EXCEPT !.heard = b].to = command[t].to
        BY <3>2 DEF Calls
      <4>. QED  BY <3>1, <4>2, <4>3 DEF b
    <3>. QED  BY <3>2, <3>3 DEF ToSave
  <2>. QED  BY <2>1, <2>2
<1>. HIDE DEF new
<1>4. command' \in [Tasks -> Calls]
  BY <1>1, <1>3
<1>5. \A t \in Tasks : command'[t] = new(t)
  BY <1>1
<1>. QED  BY <1>3, <1>4, <1>5 DEF ToSave

\* The sequences of calls of a click.
LEMMA ClicksAre ==
    ASSUME NEW a \in ClickCalls, NEW b \in ClickCalls
    PROVE  /\ <<>> \o <<a>> = <<a>> /\ <<a>> \in Seq(ClickCalls)
           /\ <<a>> \o <<b>> = <<a, b>> /\ <<a, b>> \in Seq(ClickCalls)
<1>1. <<a>> \in Seq(ClickCalls) /\ <<a, b>> \in Seq(ClickCalls) /\ <<b>> \in Seq(ClickCalls)
  OBVIOUS
<1>2. <<>> \o <<a>> = <<a>>
  BY <1>1
<1>3. <<a>> \o <<b>> = <<a, b>>
  <2>1. /\ <<a>> \o <<b>> \in Seq(ClickCalls) /\ Len(<<a>> \o <<b>>) = 2
        /\ (<<a>> \o <<b>>)[1] = a /\ (<<a>> \o <<b>>)[2] = b
    BY <1>1
  <2>2. Len(<<a, b>>) = 2 /\ <<a, b>>[1] = a /\ <<a, b>>[2] = b
    OBVIOUS
  <2>3. \A i \in 1..2 : (<<a>> \o <<b>>)[i] = <<a, b>>[i]
    BY <2>1, <2>2
  <2>. HIDE DEF ClickCalls
  <2>. QED  BY <1>1, <2>1, <2>2, <2>3, SeqEqual
<1>. QED  BY <1>1, <1>2, <1>3

\* What is called when everything is done.
LEMMA OneCalled ==
    ASSUME PopoutTyped, \A t \in Tasks : command[t] = NoTask,
           NEW a \in ClickCalls, NEW stays \in BOOLEAN, Invokes(<<a>>, stays)
    PROVE  Calling({a}, stays)
<1>1. <<a>> \in Seq(WinCalls \cup MiniCalls)
  BY DEF ClickCalls, WinCalls
<1>2. Len(<<a>>) = 1
  OBVIOUS
<1>3. Range(<<a>>) = {a}
  <2>1. DOMAIN <<a>> = {1} /\ <<a>>[1] = a
    OBVIOUS
  <2>. QED  BY <2>1 DEF Range
<1>4. Len(<<a>>) \in {1, 2} /\ (Len(<<a>>) = 2 => <<a>>[1] # <<a>>[2])
  BY <1>2
<1>5. Calling(Range(<<a>>), stays)
  BY <1>1, <1>4, InvokesIs
<1>. QED  BY <1>3, <1>5

LEMMA TwoCalled ==
    ASSUME PopoutTyped, \A t \in Tasks : command[t] = NoTask,
           NEW a \in ClickCalls, NEW b \in ClickCalls, a # b,
           NEW stays \in BOOLEAN, Invokes(<<a, b>>, stays)
    PROVE  Calling({a, b}, stays)
<1>1. <<a, b>> \in Seq(WinCalls \cup MiniCalls)
  BY DEF ClickCalls, WinCalls
<1>2. Len(<<a, b>>) = 2 /\ <<a, b>>[1] = a /\ <<a, b>>[2] = b
  OBVIOUS
<1>3. Range(<<a, b>>) = {a, b}
  <2>1. DOMAIN <<a, b>> = {1, 2}
    OBVIOUS
  <2>. QED  BY <1>2, <2>1 DEF Range
<1>. QED  BY <1>1, <1>2, <1>3, InvokesIs

\* What a click leaves, if all was done before it.
LEMMA Clicked ==
    ASSUME PopoutTyped, SizesFit, NEW pcs \in SUBSET ClickCalls, NEW stays \in BOOLEAN,
           Calling(pcs, stays), ~({"enter", "exit"} \subseteq pcs),
           home' = home \/ home' = asked, UNCHANGED <<win, asked, loop>>
    PROVE  /\ SizesFit' /\ OneMoves'
           /\ \A t \in Tasks : Moving(t)' =>
                /\ (At(t, "enter")' /\ "enter" \in pcs) \/ (At(t, "exit")' /\ "exit" \in pcs)
                /\ command'[t].heard = stays
           /\ \A t \in Tasks : \A pc \in MiniCalls : At(t, pc)' => pc \in pcs
           /\ \A pc \in pcs : \E t \in Tasks : At(t, pc)'
<1>1. \A t \in Tasks : command'[t].to = Anywhere /\ command'[t].pc \in pcs \cup {"none"}
  BY CallIs DEF Calling
<1>2. SizesFit'
  BY <1>1, CallIs DEF SizesFit
<1>3. \A t \in Tasks : Moving(t)' =>
                /\ (At(t, "enter")' /\ "enter" \in pcs) \/ (At(t, "exit")' /\ "exit" \in pcs)
                /\ command'[t].heard = stays
  BY <1>1, CallIs DEF Calling, Moving, At, WinCalls, MiniCalls, ClickCalls
<1>4. OneMoves'
  BY <1>3 DEF Calling, OneMoves, At
<1>5. \A t \in Tasks : \A pc \in MiniCalls : At(t, pc)' => pc \in pcs
  BY <1>1 DEF At, MiniCalls
<1>. QED  BY <1>2, <1>3, <1>4, <1>5 DEF Calling, At

LEMMA HurriesTyped ==
    ASSUME PopoutTyped, Hurries
    PROVE  excepted' \in BOOLEAN
BY DEF Hurries, PopoutTyped

LEMMA TogglePopOutKeeps ==
    ASSUME PopoutInv, TogglePopOut
    PROVE  PopoutInv'
<1> DEFINE last == IF isPopOut THEN "exit" ELSE "enter"
           pcs == IF isMini THEN <<"uninset", last>> ELSE <<last>>
<1>1. /\ PopoutTyped /\ isOpen /\ Hurries /\ excepted' \in BOOLEAN
      /\ last \in ClickCalls /\ "uninset" \in ClickCalls
  BY HurriesTyped DEF TogglePopOut, PopoutInv, ClickCalls, MiniCalls
<1>2. pcs \in Seq(ClickCalls) /\ Invokes(pcs, TRUE)
  <2>1. Invokes((IF isMini THEN <<"uninset">> ELSE <<>>) \o <<last>>, TRUE)
    <3>1. (IF isPopOut THEN <<"exit">> ELSE <<"enter">>) = <<last>>
      OBVIOUS
    <3>2. Invokes((IF isMini THEN <<"uninset">> ELSE <<>>)
                    \o (IF isPopOut THEN <<"exit">> ELSE <<"enter">>), TRUE)
      BY DEF TogglePopOut
    <3>. QED  BY <3>1, <3>2, Zenon
  <2>. HIDE DEF last
  <2>2. (IF isMini THEN <<"uninset">> ELSE <<>>) \o <<last>> = pcs
    BY <1>1, ClicksAre
  <2>3. pcs \in Seq(ClickCalls)
    BY <1>1, ClicksAre
  <2>. HIDE DEF pcs
  <2>. QED  BY <2>1, <2>2, <2>3
<1>3. PopoutTyped'
  <2>1. home' \in Window
    BY <1>1 DEF TogglePopOut, PopoutTyped
  <2>2. /\ command' \in [Tasks -> Calls]
        /\ \A t \in Tasks : ToSave(t)' => command'[t].to.size # "full"
    BY <1>1, <1>2, InvokesTyped
  <2>. QED  BY <1>1, <2>1, <2>2 DEF TogglePopOut, windowAsk, stashVars, PopoutTyped
<1>4. ASSUME ~excepted'
      PROVE  Orderly'
  <2>1. /\ SizesFit /\ \A t \in Tasks : command[t] = NoTask
        /\ isPopOut => Out /\ HasStrip /\ ~isMini
        /\ ~isPopOut => /\ AtHome /\ asked = home /\ win = Granted(asked)
                        /\ margin = IF isMini THEN "inset" ELSE None
    BY <1>1, <1>4, ClickFinds
  <2>2. PICK called \in SUBSET ClickCalls :
           /\ Calling(called, TRUE) /\ last \in called /\ called \subseteq {"uninset", last}
           /\ isMini <=> "uninset" \in called
    <3>1. CASE isMini
      <4>1. Invokes(<<"uninset", last>>, TRUE) /\ "uninset" # last
        BY <1>2, <3>1
      <4>2. Calling({"uninset", last}, TRUE)
        BY <1>1, <2>1, <4>1, TwoCalled
      <4>. QED  BY <1>1, <3>1, <4>2
    <3>2. CASE ~isMini
      <4>1. Invokes(<<last>>, TRUE) /\ "uninset" # last
        BY <1>2, <3>2
      <4>2. Calling({last}, TRUE)
        BY <1>1, <2>1, <4>1, OneCalled
      <4>3. {last} \in SUBSET ClickCalls /\ "uninset" \notin {last}
        BY <1>1, <4>1
      <4>. HIDE DEF last
      <4>. QED  BY <3>2, <4>2, <4>3
    <3>. QED  BY <3>1, <3>2
  <2>3. /\ SizesFit' /\ OneMoves'
        /\ \A t \in Tasks : Moving(t)' =>
             /\ (At(t, "enter")' /\ "enter" \in called) \/ (At(t, "exit")' /\ "exit" \in called)
             /\ command'[t].heard = TRUE
        /\ \A t \in Tasks : \A pc \in MiniCalls : At(t, pc)' => pc \in called
        /\ \A pc \in called : \E t \in Tasks : At(t, pc)'
    <3>1. ~({"enter", "exit"} \subseteq called)
      BY <2>2
    <3>. HIDE DEF last, pcs
    <3>. QED  BY <1>1, <2>1, <2>2, <3>1, Clicked DEF TogglePopOut, windowAsk
  <2>4. \E t \in Tasks : Moving(t)'
    BY <2>2, <2>3 DEF Moving, At, WinCalls
  <2>5. isMini => Minis'
    BY <2>2, <2>3 DEF Minis, At, MiniCalls
  <2>6. PlayerFits'
    BY <1>1, <2>2, <2>3 DEF PlayerFits, TogglePopOut, MiniCalls
  <2>7. ASSUME NEW t \in Tasks, Moving(t)'
        PROVE  Stage(t)'
    <3>1. CASE isPopOut
      <4>1. At(t, "exit")' /\ Leaves(t)' /\ ~isMini'
        BY <2>2, <2>3, <2>7, <3>1 DEF Leaves, TogglePopOut
      <4>2. Out'
        BY <2>1, <3>1 DEF Out, Away, NoLoops, TogglePopOut, windowAsk, stashVars
      <4>. QED  BY <4>1, <4>2 DEF Stage, At
    <3>2. CASE ~isPopOut
      <4>1. At(t, "enter")' /\ Enters(t)'
        BY <2>2, <2>3, <2>7, <3>2 DEF Enters, TogglePopOut
      <4>2. AtHome' /\ asked' = home' /\ win' = Granted(asked)'
        BY <2>1, <3>2 DEF AtHome, NoLoops, TogglePopOut, windowAsk, stashVars, Granted
      <4>3. MarginFits'
        BY <2>1, <2>5, <3>2, PopoutAssumption DEF MarginFits, TogglePopOut
      <4>. QED  BY <4>1, <4>2, <4>3 DEF Stage, At
    <3>. QED  BY <3>1, <3>2
  <2>. QED  BY <2>3, <2>4, <2>6, <2>7 DEF Orderly, AllStages
<1>. QED  BY <1>3, <1>4 DEF PopoutInv

LEMMA MinimizeKeeps ==
    ASSUME PopoutInv, Minimize
    PROVE  PopoutInv'
<1> DEFINE pcs == IF isPopOut THEN <<"exit", "inset">> ELSE <<"inset">>
<1>1. /\ PopoutTyped /\ isOpen /\ ~isMini /\ Hurries /\ excepted' \in BOOLEAN
      /\ "exit" \in ClickCalls /\ "inset" \in ClickCalls /\ "exit" # "inset"
  BY HurriesTyped DEF Minimize, PopoutInv, ClickCalls, MiniCalls
<1>2. pcs \in Seq(ClickCalls) /\ Invokes(pcs, TRUE)
  <2>1. Exits \o <<"inset">> = pcs
    BY <1>1, ClicksAre DEF Exits
  <2>2. pcs \in Seq(ClickCalls)
    BY <1>1, ClicksAre
  <2>. HIDE DEF pcs
  <2>. QED  BY <2>1, <2>2 DEF Minimize
<1>3. PopoutTyped'
  <2>1. /\ command' \in [Tasks -> Calls]
        /\ \A t \in Tasks : ToSave(t)' => command'[t].to.size # "full"
    BY <1>1, <1>2, InvokesTyped
  <2>. QED  BY <1>1, <2>1 DEF Minimize, windowAsk, stashVars, PopoutTyped
<1>4. ASSUME ~excepted'
      PROVE  Orderly'
  <2>1. /\ SizesFit /\ \A t \in Tasks : command[t] = NoTask
        /\ isPopOut => Out /\ HasStrip /\ ~isMini
        /\ ~isPopOut => /\ AtHome /\ asked = home /\ win = Granted(asked)
                        /\ margin = IF isMini THEN "inset" ELSE None
    BY <1>1, <1>4, ClickFinds
  <2>2. PICK called \in SUBSET ClickCalls :
           /\ Calling(called, TRUE) /\ "inset" \in called /\ called \subseteq {"exit", "inset"}
           /\ isPopOut <=> "exit" \in called
    <3>1. CASE isPopOut
      <4>1. Calling({"exit", "inset"}, TRUE)
        BY <1>1, <1>2, <2>1, <3>1, TwoCalled
      <4>. QED  BY <1>1, <3>1, <4>1
    <3>2. CASE ~isPopOut
      <4>1. Calling({"inset"}, TRUE)
        BY <1>1, <1>2, <2>1, <3>2, OneCalled
      <4>2. {"inset"} \in SUBSET ClickCalls /\ "exit" \notin {"inset"}
        BY <1>1
      <4>. QED  BY <3>2, <4>1, <4>2
    <3>. QED  BY <3>1, <3>2
  <2>3. /\ SizesFit' /\ OneMoves'
        /\ \A t \in Tasks : Moving(t)' =>
             /\ (At(t, "enter")' /\ "enter" \in called) \/ (At(t, "exit")' /\ "exit" \in called)
             /\ command'[t].heard = TRUE
        /\ \A t \in Tasks : \A pc \in MiniCalls : At(t, pc)' => pc \in called
        /\ \A pc \in called : \E t \in Tasks : At(t, pc)'
    <3>1. ~({"enter", "exit"} \subseteq called)
      BY <2>2
    <3>. HIDE DEF pcs
    <3>. QED  BY <1>1, <2>1, <2>2, <3>1, Clicked DEF Minimize, windowAsk
  <2>4. isPopOut <=> \E t \in Tasks : Moving(t)'
    BY <2>2, <2>3 DEF Moving, At, WinCalls
  <2>5. Minis'
    BY <2>2, <2>3 DEF Minis, At, MiniCalls
  <2>6. PlayerFits'
    BY <1>1, <2>2, <2>3 DEF PlayerFits, Minimize, MiniCalls
  <2>7. ASSUME NEW t \in Tasks, Moving(t)'
        PROVE  Stage(t)'
    <3>1. At(t, "exit")' /\ Leaves(t)'
      BY <2>2, <2>3, <2>7 DEF Leaves
    <3>2. isPopOut
      BY <2>4, <2>7
    <3>3. Out'
      BY <2>1, <3>2 DEF Out, Away, NoLoops, Minimize, windowAsk, stashVars
    <3>. QED  BY <2>5, <3>1, <3>3 DEF Stage, At
  <2>8. ~isPopOut => Resting'
    <3>1. SUFFICES ASSUME ~isPopOut PROVE Resting'
      OBVIOUS
    <3>2. Back' /\ ~isPopOut'
      BY <2>1, <3>1 DEF AtHome, Back, NoLoops, Minimize, windowAsk, stashVars
    <3>3. MarginFits'
      BY <1>1, <2>1, <2>5, <3>1, PopoutAssumption DEF MarginFits, Minimize
    <3>. QED  BY <3>2, <3>3 DEF Resting
  <2>. QED  BY <2>3, <2>4, <2>6, <2>7, <2>8 DEF Orderly, AllStages
<1>. QED  BY <1>3, <1>4 DEF PopoutInv

LEMMA RestoreKeeps ==
    ASSUME PopoutInv, RestoreFromMinimize
    PROVE  PopoutInv'
<1>1. /\ PopoutTyped /\ isMini /\ Hurries /\ excepted' \in BOOLEAN
      /\ "uninset" \in ClickCalls /\ <<"uninset">> \in Seq(ClickCalls)
      /\ Invokes(<<"uninset">>, TRUE)
  BY HurriesTyped, ClicksAre DEF RestoreFromMinimize, PopoutInv, ClickCalls, MiniCalls
<1>2. PopoutTyped'
  <2>1. /\ command' \in [Tasks -> Calls]
        /\ \A t \in Tasks : ToSave(t)' => command'[t].to.size # "full"
    BY <1>1, InvokesTyped
  <2>. QED  BY <1>1, <2>1 DEF RestoreFromMinimize, windowAsk, stashVars, PopoutTyped
<1>3. ASSUME ~excepted'
      PROVE  Orderly'
  <2>1. /\ SizesFit /\ \A t \in Tasks : command[t] = NoTask
        /\ isOpen /\ ~isPopOut /\ AtHome /\ asked = home /\ win = Granted(asked)
        /\ margin = "inset"
    BY <1>1, <1>3, ClickFinds
  <2>2. Calling({"uninset"}, TRUE)
    BY <1>1, <2>1, OneCalled
  <2>3. /\ SizesFit' /\ OneMoves'
        /\ \A t \in Tasks : ~Moving(t)'
        /\ \A t \in Tasks : \A pc \in MiniCalls : At(t, pc)' => pc = "uninset"
        /\ \E t \in Tasks : At(t, "uninset")'
    <3>1. {"uninset"} \in SUBSET ClickCalls
      BY <1>1
    <3>. QED  BY <1>1, <2>1, <2>2, <3>1, Clicked DEF RestoreFromMinimize, windowAsk
  <2>4. Minis'
    BY <2>3 DEF Minis, At, MiniCalls
  <2>5. PlayerFits'
    BY <1>1, <2>1, <2>3 DEF PlayerFits, RestoreFromMinimize, MiniCalls
  <2>6. Back' /\ ~isPopOut'
    BY <2>1 DEF AtHome, Back, NoLoops, RestoreFromMinimize, windowAsk, stashVars
  <2>7. MarginFits'
    BY <2>1, <2>4, PopoutAssumption DEF MarginFits, RestoreFromMinimize
  <2>. QED  BY <2>3, <2>5, <2>6, <2>7 DEF Orderly, AllStages, Resting
<1>. QED  BY <1>2, <1>3 DEF PopoutInv

LEMMA OpenOrCloseKeeps ==
    ASSUME PopoutInv, OpenOrClose
    PROVE  PopoutInv'
<1> DEFINE pcs == IF isPopOut THEN <<"exit", "unload">> ELSE <<"unload">>
<1>1. /\ PopoutTyped /\ Hurries /\ excepted' \in BOOLEAN /\ isOpen' = ~isOpen
      /\ ~isPopOut' /\ ~isMini' /\ isPopOut' \in BOOLEAN /\ isMini' \in BOOLEAN
      /\ UNCHANGED <<windowAsk, margin, stashVars, saved, loop, home>>
      /\ "exit" \in ClickCalls /\ "unload" \in ClickCalls /\ "exit" # "unload"
  BY HurriesTyped DEF OpenOrClose, PopoutInv, ClickCalls, MiniCalls
<1>2. isOpen => pcs \in Seq(ClickCalls) /\ Invokes(pcs, FALSE)
  <2>1. Exits \o <<"unload">> = pcs
    BY <1>1, ClicksAre DEF Exits
  <2>2. pcs \in Seq(ClickCalls)
    BY <1>1, ClicksAre
  <2>. HIDE DEF pcs
  <2>. QED  BY <2>1, <2>2 DEF OpenOrClose
<1>3. PopoutTyped'
  <2>1. /\ command' \in [Tasks -> Calls]
        /\ \A t \in Tasks : ToSave(t)' => command'[t].to.size # "full"
    <3>1. CASE isOpen
      <4>. HIDE DEF pcs
      <4>. QED  BY <1>1, <1>2, <3>1, InvokesTyped
    <3>2. CASE ~isOpen
      BY <1>1, <3>2 DEF OpenOrClose, PopoutTyped, ToSave
    <3>. QED  BY <3>1, <3>2
  <2>. HIDE DEF pcs
  <2>. QED  BY <1>1, <2>1 DEF windowAsk, stashVars, PopoutTyped
<1>4. ASSUME ~excepted'
      PROVE  Orderly'
  <2>1. /\ SizesFit /\ \A t \in Tasks : command[t] = NoTask
        /\ isPopOut \/ isMini => isOpen
        /\ isPopOut => Out /\ HasStrip /\ ~isMini
        /\ ~isPopOut => /\ AtHome /\ asked = home /\ win = Granted(asked)
                        /\ margin = IF isMini THEN "inset" ELSE None
    BY <1>1, <1>4, ClickFinds
  <2>2. ~isPopOut => Back'
    BY <1>1, <2>1 DEF AtHome, Back, NoLoops, windowAsk, stashVars
  <2>3. CASE ~isOpen
    <3>1. /\ command' = command /\ ~isPopOut /\ ~isMini
          /\ \A t \in Tasks : command'[t].pc = "none"
      BY <2>1, <2>3, CallIs DEF OpenOrClose
    <3>2. /\ \A t \in Tasks : ~Moving(t)'
          /\ OneMoves' /\ PlayerFits'
      BY <1>1, <3>1 DEF Moving, OneMoves, PlayerFits, At, WinCalls
    <3>3. SizesFit' /\ MarginFits'
      BY <1>1, <2>1, <3>1, PopoutAssumption DEF SizesFit, MarginFits, windowAsk
    <3>. QED  BY <1>1, <2>2, <3>1, <3>2, <3>3 DEF Orderly, AllStages, Resting
  <2>4. CASE isOpen
    <3>1. PICK called \in SUBSET ClickCalls :
             /\ Calling(called, FALSE) /\ "unload" \in called
             /\ called \subseteq {"exit", "unload"} /\ (isPopOut <=> "exit" \in called)
      <4>1. CASE isPopOut
        <5>1. Calling({"exit", "unload"}, FALSE)
          BY <1>1, <1>2, <2>1, <2>4, <4>1, TwoCalled
        <5>. QED  BY <1>1, <4>1, <5>1
      <4>2. CASE ~isPopOut
        <5>1. Calling({"unload"}, FALSE)
          BY <1>1, <1>2, <2>1, <2>4, <4>2, OneCalled
        <5>2. {"unload"} \in SUBSET ClickCalls /\ "exit" \notin {"unload"}
          BY <1>1
        <5>. QED  BY <4>2, <5>1, <5>2
      <4>. QED  BY <4>1, <4>2
    <3>2. /\ SizesFit' /\ OneMoves'
          /\ \A t \in Tasks : Moving(t)' =>
               /\ (At(t, "enter")' /\ "enter" \in called)
                    \/ (At(t, "exit")' /\ "exit" \in called)
               /\ command'[t].heard = FALSE
          /\ \A t \in Tasks : \A pc \in MiniCalls : At(t, pc)' => pc \in called
          /\ \A pc \in called : \E t \in Tasks : At(t, pc)'
      <4>1. ~({"enter", "exit"} \subseteq called)
        BY <3>1
      <4>. HIDE DEF pcs
      <4>. QED  BY <1>1, <2>1, <3>1, <4>1, Clicked DEF windowAsk
    <3>3. isPopOut <=> \E t \in Tasks : Moving(t)'
      BY <3>1, <3>2 DEF Moving, At, WinCalls
    <3>4. Minis'
      BY <3>1, <3>2 DEF Minis, At, MiniCalls
    <3>5. PlayerFits'
      BY <1>1, <2>4, <3>1, <3>2 DEF PlayerFits, MiniCalls
    <3>6. ASSUME NEW t \in Tasks, Moving(t)'
          PROVE  Stage(t)'
      <4>1. At(t, "exit")' /\ Leaves(t)'
        BY <1>1, <3>1, <3>2, <3>6 DEF Leaves
      <4>2. Out'
        BY <1>1, <2>1, <3>3, <3>6 DEF Out, Away, NoLoops, windowAsk, stashVars
      <4>. QED  BY <3>4, <4>1, <4>2 DEF Stage, At
    <3>7. ~isPopOut => MarginFits'
      BY <1>1, <2>1, <3>4, PopoutAssumption DEF MarginFits
    <3>. QED  BY <1>1, <2>2, <3>2, <3>3, <3>5, <3>6, <3>7 DEF Orderly, AllStages, Resting
  <2>. QED  BY <2>3, <2>4
<1>. QED  BY <1>3, <1>4 DEF PopoutInv

LEMMA DragKeeps ==
    ASSUME PopoutInv, Drag
    PROVE  PopoutInv'
<1>1. /\ PopoutTyped /\ Hurries /\ excepted' \in BOOLEAN /\ "dragged" \in WinSizes
      /\ win \in Window /\ home \in Window
  BY HurriesTyped DEF Drag, PopoutInv, WinSizes, PopoutTyped
<1>2. /\ win' \in Window /\ win'.size = "dragged" /\ ~win'.maxed /\ asked' = win'
      /\ home' = IF isPopOut THEN home ELSE win'
  BY <1>1, WindowIs DEF Drag
<1>3. PopoutTyped'
  <2>1. home' \in Window
    BY <1>1, <1>2
  <2>. QED  BY <1>1, <1>2, <2>1 DEF Drag, stashVars, buttonVars, PopoutTyped, ToSave
<1>4. ASSUME ~excepted'
      PROVE  Orderly'
  <2>1. /\ SizesFit /\ \A t \in Tasks : command[t] = NoTask
        /\ isPopOut \/ isMini => isOpen
        /\ isPopOut => Out /\ HasStrip /\ ~isMini
        /\ ~isPopOut => /\ AtHome /\ asked = home /\ win = Granted(asked)
                        /\ margin = IF isMini THEN "inset" ELSE None
    BY <1>1, <1>4, ClickFinds
  <2>2. \A t \in Tasks : command'[t].pc = "none" /\ command'[t] = command[t]
    BY <2>1, CallIs DEF Drag
  <2>3. /\ \A t \in Tasks : ~Moving(t)'
        /\ OneMoves' /\ PlayerFits'
    BY <2>1, <2>2 DEF Moving, OneMoves, PlayerFits, At, WinCalls, Drag, buttonVars
  <2>4. SizesFit'
    BY <1>2, <2>1, <2>2 DEF SizesFit, Drag
  <2>5. Resting'
    <3>1. CASE isPopOut
      BY <1>2, <2>1, <3>1
      DEF Resting, Out, Away, NoLoops, HasStrip, Drag, buttonVars, stashVars
    <3>2. CASE ~isPopOut
      <4>1. Back'
        BY <1>2, <2>1, <3>2 DEF AtHome, Back, NoLoops, Drag, stashVars
      <4>2. MarginFits'
        BY <2>1, <3>2, PopoutAssumption DEF MarginFits, Drag, buttonVars
      <4>. QED  BY <3>2, <4>1, <4>2 DEF Resting, Drag, buttonVars
    <3>. QED  BY <3>1, <3>2
  <2>. QED  BY <2>3, <2>4, <2>5 DEF Orderly, AllStages
<1>. QED  BY <1>3, <1>4 DEF PopoutInv

-----------------------------------------------------------------------------
LEMMA PopoutStep == PopoutInv /\ [PopoutNext]_popoutVars => PopoutInv'
<1> SUFFICES ASSUME PopoutInv, [PopoutNext]_popoutVars PROVE PopoutInv'
  OBVIOUS
<1>1. CASE UNCHANGED popoutVars
  <2>1. /\ UNCHANGED <<win, asked, onTop, bare, lost, margin, stash, wasMaxed, saved>>
        /\ UNCHANGED <<command, loop, isOpen, isPopOut, isMini, home, excepted>>
    BY <1>1 DEF popoutVars, windowAsk, stashVars, buttonVars, historyVars
  <2>2. PopoutTyped'
    BY <2>1 DEF PopoutInv, PopoutTyped, ToSave
  <2>3. ASSUME ~excepted
        PROVE  Orderly'
    <3>1. Orderly
      BY <2>3 DEF PopoutInv
    <3>2. SizesFit' /\ PlayerFits' /\ OneMoves'
      BY <2>1, <3>1 DEF Orderly, SizesFit, PlayerFits, OneMoves, Moving, At
    <3>3. /\ \A t \in Tasks : Moving(t)' <=> Moving(t)
          /\ AtHome' <=> AtHome
          /\ Away' <=> Away
          /\ Out' <=> Out
          /\ Back' <=> Back
          /\ NoLoops("enter")' <=> NoLoops("enter")
          /\ NoLoops("exit")' <=> NoLoops("exit")
          /\ HasStrip' <=> HasStrip
          /\ Minis' <=> Minis
          /\ MarginFits' <=> MarginFits
          /\ Granted(asked)' = Granted(asked)
          /\ Resting' <=> Resting
      BY <2>1 DEF Moving, AtHome, Away, Out, Back, Looking, NoLoops, HasStrip, Minis, MarginFits,
                  Granted, Resting
    <3>4. ASSUME NEW t \in Tasks, Stage(t)
          PROVE  Stage(t)'
      BY <2>1, <3>3, <3>4 DEF Stage, At, Enters, Leaves
    <3>. QED  BY <3>1, <3>2, <3>3, <3>4 DEF Orderly, AllStages
  <2>. QED  BY <2>1, <2>2, <2>3 DEF PopoutInv
<1>2. CASE PopoutNext
  <2>1. ASSUME NEW t \in Tasks,
               \/ EnterBegins(t) \/ EnterStashes(t) \/ NoWorkArea(t)
               \/ EnterApplies(t) \/ EnterFails(t) \/ EnterSaves(t)
               \/ ExitClears(t) \/ ExitPersists(t) \/ ExitTakes(t) \/ ExitRestores(t)
               \/ ExitFails(t)
               \/ Inset(t) \/ Uninset(t) \/ Unload(t) \/ Answered(t)
               \/ EnterTick(t) \/ ExitTick(t)
        PROVE  PopoutInv'
    BY <2>1, EnterBeginsKeeps, EnterStashesKeeps, NoWorkAreaKeeps, EnterAppliesKeeps,
       EnterFailsKeeps, ExitFailsKeeps, EnterSavesKeeps, ExitClearsKeeps, ExitPersistsKeeps, ExitTakesKeeps, ExitRestoresKeeps,
       MiniKeeps, AnsweredKeeps, EnterTickKeeps, ExitTickKeeps, Zenon
  <2>2. CASE Configure \/ Drops
    BY <2>2, ConfigureKeeps, DropsKeeps, Zenon
  <2>3. CASE TogglePopOut \/ Minimize \/ RestoreFromMinimize \/ OpenOrClose \/ Drag
    BY <2>3, TogglePopOutKeeps, MinimizeKeeps, RestoreKeeps, OpenOrCloseKeeps, DragKeeps, Zenon
  <2>. QED  BY <1>2, <2>1, <2>2, <2>3, Zenon DEF PopoutNext
<1>. QED  BY <1>1, <1>2

LEMMA PopoutSettled == PopoutInv => PopoutAgrees
<1> SUFFICES ASSUME PopoutInv, AtRest, ~excepted
             PROVE  IF isPopOut
                    THEN /\ onTop /\ bare /\ ~win.maxed
                         /\ stash = home.size /\ margin = "strip"
                    ELSE /\ ~onTop /\ ~bare /\ stash = None
                         /\ asked = home
                         /\ margin = IF isMini THEN "inset" ELSE None
  BY DEF PopoutAgrees
<1>1. /\ \A t \in Tasks : command[t].pc = "none" /\ loop[t].of = "none"
  BY CallIs DEF AtRest, Idle, NoLoop
<1>2. /\ \A t \in Tasks : ~Moving(t)
      /\ ~Minis /\ NoLoops("enter") /\ NoLoops("exit") /\ ~Looking(2)
  BY <1>1 DEF Moving, Minis, NoLoops, Looking, WinCalls, MiniCalls
<1>3. Resting
  BY <1>2 DEF PopoutInv, Orderly, AllStages
<1>. QED  BY <1>2, <1>3 DEF Resting, Out, Away, HasStrip, Back, MarginFits

\* LinuxPopout: the state of the window, the margin and the calls is as declared.
THEOREM PopoutTypeCorrect == PopoutSpec => []PopoutTypeOK
<1>1. PopoutInv => PopoutTypeOK
  BY PopoutTypesAre DEF PopoutInv
<1>. QED  BY <1>1, PopoutInitially, PopoutStep, PTL DEF PopoutSpec

\* player_enter_popout, player_exit_popout and their loops: whatever requests
\* the compositor drops, when all has settled the button, the window and the
\* margin agree, and the window is what it was before it was popped out.
THEOREM WindowComesBack == PopoutSpec => []PopoutAgrees
BY PopoutInitially, PopoutStep, PopoutSettled, PTL DEF PopoutSpec

-----------------------------------------------------------------------------
(* The types of the other parts                                              *)

OfflineCounts ==
    /\ server \in Servers \cup {None}
    /\ scrobbled \subseteq Downloaded /\ finished \subseteq Downloaded
    /\ restarts \in 0..MaxRestarts

LEMMA OfflineCountsKept ==
    OInv /\ OfflineCounts /\ [OfflineNext]_offlineVars => OfflineCounts'
<1>. SUFFICES ASSUME OInv, OfflineCounts, [OfflineNext]_offlineVars PROVE OfflineCounts'
  OBVIOUS
<1>. USE DEF OfflineCounts
<1>1. ASSUME NEW key \in Downloaded, FinishesOffline(key) PROVE OfflineCounts'
  BY <1>1 DEF FinishesOffline
<1>2. ASSUME NEW srv \in Servers \cup {None},
             ChangesServer(srv) \/ Remounts(srv) \/ Restarts(srv)
      PROVE  OfflineCounts'
  BY <1>2, RestartsAssumption DEF ChangesServer, Remounts, Restarts
<1>3. ASSUME NEW s \in syncs, Marked(s) \/ MarkFails(s) PROVE OfflineCounts'
  <2>1. s.todo \in Seq(Downloaded) /\ s.todo # <<>>
    BY DEF OInv
  <2>2. Head(s.todo) \in Downloaded
    BY <2>1
  <2>. QED  BY <1>3, <2>2 DEF Marked, MarkFails
<1>4. CASE UNCHANGED offlineVars
  BY <1>4 DEF offlineVars
<1>. QED  BY <1>1, <1>2, <1>3, <1>4 DEF OfflineNext

\* The stored list holds downloaded items, each once at most, and a sync that
\* runs has something left to do (services/storage/watch-sync.ts).
THEOREM OfflineTypeCorrect == OfflineSpec => []OfflineTypeOK
<1>1. OfflineInit => OfflineCounts
  BY RestartsAssumption DEF OfflineInit, OfflineCounts
<1>2. OInv /\ OfflineCounts => OfflineTypeOK
  BY DEF OInv, OfflineCounts, OfflineTypeOK
<1>. QED  BY <1>1, <1>2, OfflineInitially, OfflineInductive, OfflineCountsKept, PTL
          DEF OfflineSpec

-----------------------------------------------------------------------------
\* WatchPlayback's, conjunct by conjunct.
Flags == [Viewers -> BOOLEAN]
PlaybackTyped ==
    /\ engine \in Flags /\ loaded \in Flags /\ isPlaying \in Flags /\ shown \in Flags
    /\ broadcast \in Flags /\ isInSession \in Flags /\ remoteAction \in Flags
    /\ lastSync \in Flags
    /\ reports \in [Viewers -> Seq(BOOLEAN)]
    /\ remoteEvents \in [Viewers -> Seq(Events)]
    /\ locals \in 0..MaxLocal

LEMMA DriveTyped ==
    ASSUME PlaybackTyped, NEW v \in Viewers, NEW on \in BOOLEAN, Drive(v, on)
    PROVE  engine' \in Flags /\ reports' \in [Viewers -> Seq(BOOLEAN)]
BY DEF PlaybackTyped, Drive, Flags

LEMMA RelayTyped ==
    ASSUME PlaybackTyped, NEW v \in Viewers, NEW event \in Events, Relay(v, event)
    PROVE  remoteEvents' \in [Viewers -> Seq(Events)]
BY DEF PlaybackTyped, Relay

LEMMA AnnounceTyped ==
    ASSUME PlaybackTyped, NEW v \in Viewers, Announce(v)
    PROVE  remoteAction' \in Flags /\ remoteEvents' \in [Viewers -> Seq(Events)]
<1>1. remoteAction' \in Flags
  BY DEF PlaybackTyped, Announce, Flags
<1>2. UNCHANGED remoteEvents \/ \E event \in {"play", "pause"} : Relay(v, event)
  BY DEF Announce
<1>. QED  BY <1>1, <1>2, RelayTyped DEF PlaybackTyped, Events

LEMMA PlaybackTypedKept ==
    PlaybackTyped /\ [PlaybackNext]_playbackVars => PlaybackTyped'
<1>. SUFFICES ASSUME PlaybackTyped, [PlaybackNext]_playbackVars PROVE PlaybackTyped'
  OBVIOUS
<1>. USE DEF PlaybackTyped
<1>1. ASSUME NEW v \in Viewers, Load(v) \/ SyncTogglePlay(v) PROVE PlaybackTyped'
  <2>2. engine' \in Flags /\ reports' \in [Viewers -> Seq(BOOLEAN)]
    <3>1. TRUE \in BOOLEAN /\ (~shown[v]) \in BOOLEAN
      OBVIOUS
    <3>2. Drive(v, TRUE) \/ Drive(v, ~shown[v])
      BY <1>1 DEF Load, SyncTogglePlay, TogglePlay
    <3>. QED  BY <3>1, <3>2, DriveTyped
  <2>3. loaded' \in Flags
    <3>1. loaded' = [loaded EXCEPT ![v] = TRUE] \/ UNCHANGED loaded
      BY <1>1 DEF Load, SyncTogglePlay
    <3>. QED  BY <3>1 DEF Flags
  <2>4. locals' \in 0..MaxLocal
    <3>1. Local
      BY <1>1 DEF Load, SyncTogglePlay
    <3>. QED  BY <3>1, LocalAssumption DEF Local
  <2>. QED  BY <1>1, <2>2, <2>3, <2>4 DEF Load, SyncTogglePlay
<1>2. ASSUME NEW v \in Viewers, PausedEvent(v) PROVE PlaybackTyped'
  <2>1. Head(reports[v]) \in BOOLEAN /\ Tail(reports[v]) \in Seq(BOOLEAN)
    BY <1>2 DEF PausedEvent
  <2>. QED  BY <1>2, <2>1 DEF PausedEvent, Flags
<1>3. ASSUME NEW v \in Viewers, Render(v) \/ DriftCheck(v) PROVE PlaybackTyped'
  BY <1>3 DEF Render, DriftCheck, Flags
<1>4. ASSUME NEW v \in Viewers, BroadcastEffect(v) PROVE PlaybackTyped'
  <2>1. broadcast' \in Flags
    BY <1>4 DEF BroadcastEffect, Flags
  <2>2. remoteAction' \in Flags /\ remoteEvents' \in [Viewers -> Seq(Events)]
    BY <1>4, AnnounceTyped DEF BroadcastEffect
  <2>. QED  BY <1>4, <2>1, <2>2 DEF BroadcastEffect
<1>5. ASSUME NEW v \in Viewers, EnterSession(v) PROVE PlaybackTyped'
  <2>1. broadcast' \in Flags /\ isInSession' \in Flags
    BY <1>5 DEF EnterSession, Flags
  <2>2. remoteAction' \in Flags /\ remoteEvents' \in [Viewers -> Seq(Events)]
    BY <1>5, AnnounceTyped DEF EnterSession
  <2>3. locals' \in 0..MaxLocal
    BY <1>5, LocalAssumption DEF EnterSession, Local
  <2>. QED  BY <1>5, <2>1, <2>2, <2>3 DEF EnterSession
<1>6. ASSUME NEW v \in Viewers, SyncSeek(v) PROVE PlaybackTyped'
  <2>1. remoteEvents' \in [Viewers -> Seq(Events)]
    BY <1>6, RelayTyped DEF SyncSeek, Events
  <2>2. lastSync' \in Flags
    BY <1>6 DEF SyncSeek, Flags
  <2>3. locals' \in 0..MaxLocal
    BY <1>6, LocalAssumption DEF SyncSeek, Local
  <2>. QED  BY <1>6, <2>1, <2>2, <2>3 DEF SyncSeek
<1>7. ASSUME NEW v \in Viewers, RemoteEvent(v) PROVE PlaybackTyped'
  <2>1. PICK event \in Events : event = Head(remoteEvents[v])
    BY <1>7 DEF RemoteEvent
  <2>2. remoteAction' \in Flags
    <3>1. (remoteAction[v] \/ Guards(event)) \in BOOLEAN
      OBVIOUS
    <3>2. remoteAction' = [remoteAction EXCEPT ![v] = (remoteAction[v] \/ Guards(event))]
      BY <1>7, <2>1 DEF RemoteEvent
    <3>. QED  BY <3>1, <3>2 DEF Flags
  <2>3. lastSync' \in Flags
    <3>1. (event # "pause") \in BOOLEAN
      OBVIOUS
    <3>2. lastSync' = [lastSync EXCEPT ![v] = (event # "pause")]
      BY <1>7, <2>1 DEF RemoteEvent
    <3>. QED  BY <3>1, <3>2 DEF Flags
  <2>4. remoteEvents' \in [Viewers -> Seq(Events)]
    BY <1>7 DEF RemoteEvent
  <2>5. engine' \in Flags /\ reports' \in [Viewers -> Seq(BOOLEAN)]
    <3>1. TogglePlay(v) \/ UNCHANGED <<engine, reports>>
      BY <1>7 DEF RemoteEvent
    <3>2. (~shown[v]) \in BOOLEAN
      OBVIOUS
    <3>. QED  BY <3>1, <3>2, DriveTyped DEF TogglePlay
  <2>. QED  BY <1>7, <2>2, <2>3, <2>4, <2>5 DEF RemoteEvent
<1>8. CASE UNCHANGED playbackVars
  BY <1>8 DEF playbackVars
<1>. QED
  BY <1>1, <1>2, <1>3, <1>4, <1>5, <1>6, <1>7, <1>8, Zenon DEF PlaybackNext, PlaybackWorks

\* Only play, pause and seek are passed on, to viewers (useRemotePlayback,
\* relay_playback_event).
THEOREM WatchPlaybackTypeCorrect == PlaybackSpec => []PlaybackTypeOK
<1>1. PlaybackInit => PlaybackTyped
  BY LocalAssumption DEF PlaybackInit, PlaybackTyped, Flags
<1>2. PlaybackTyped => PlaybackTypeOK
  <2>1. PlaybackTyped =>
          {engine, loaded, isPlaying, shown, broadcast, isInSession, remoteAction,
           lastSync} \subseteq [Viewers -> BOOLEAN]
    BY Zenon DEF PlaybackTyped, Flags
  <2>. QED  BY <2>1, Zenon DEF PlaybackTyped, PlaybackTypeOK
<1>. QED  BY <1>1, <1>2, PlaybackTypedKept, PTL DEF PlaybackSpec

-----------------------------------------------------------------------------
\* RelaySocket's: auth is the first message on a socket and is answered once,
\* and a relay is looked up once for each sign-in and each refresh.
AuthOnce ==
    /\ inbox \in {<<>>, <<"auth_ok">>}
    /\ \A i \in 1..Len(outbox) : outbox[i] = "auth" => i = 1 /\ inbox = <<>>
Lookups ==
    /\ moves \in 0..MaxMoves /\ looking \in Nat
    /\ looking + (IF refreshTimer THEN 1 ELSE 0) <= moves
SocketFlags ==
    /\ shouldReconnect \in BOOLEAN /\ authenticated \in BOOLEAN
    /\ reconnectTimer \in BOOLEAN /\ pingInterval \in BOOLEAN
    /\ unheard \in BOOLEAN /\ signedIn \in BOOLEAN /\ refreshTimer \in BOOLEAN
SocketStates ==
    /\ ws \in {"none", "connecting", "open", "closed"}
    /\ url \in {Home, Invited, None}
    /\ reconnectDelay \in 0..MaxBackoff
    /\ joining \in Stages \cup {None} /\ stray \in {"user", "auth", None}
    /\ syncStatus \in {"disconnected", "syncing", "synced"}

LEMMA UnheardTyped ==
    ASSUME unheard \in BOOLEAN, NEW gone \in BOOLEAN, Unheard(gone)
    PROVE  unheard' \in BOOLEAN
<1>1. Lingers' \in BOOLEAN
  BY DEF Lingers
<1>. QED  BY <1>1 DEF Unheard

LEMMA SocketFlagsKept ==
    ASSUME ServiceInv, SocketFlags, [SocketNext]_socketVars
    PROVE  SocketFlags'
<1>. USE DEF SocketFlags
<1>0. CASE UNCHANGED <<shouldReconnect, authenticated, reconnectTimer, pingInterval,
                       unheard, signedIn, refreshTimer>>
  BY <1>0
<1>1. ASSUME NEW to, NEW throws \in BOOLEAN, ConnectTo(to, throws)
      PROVE  /\ shouldReconnect' \in BOOLEAN /\ authenticated' \in BOOLEAN
             /\ reconnectTimer' \in BOOLEAN /\ pingInterval' \in BOOLEAN
             /\ unheard' \in BOOLEAN
  BY <1>1 DEF ConnectTo, CreateConnection, DiscardSocket, wire
<1>2. CASE SocketOpens \/ AuthOk \/ OpenSession
  <2>1. CASE SocketOpens \/ AuthOk
    BY <2>1 DEF SocketOpens, AuthOk, invitesVars, timers
  <2>2. CASE OpenSession
    BY <2>2 DEF OpenSession, invitesVars, timers
  <2>. QED  BY <1>2, <2>1, <2>2
<1>3. CASE SocketCloses
  <2>1. PICK n \in 0..Len(outbox) : Unheard(LeaveIn(SubSeq(outbox, n + 1, Len(outbox))))
    BY <1>3 DEF SocketCloses
  <2>2. LeaveIn(SubSeq(outbox, n + 1, Len(outbox))) \in BOOLEAN
    BY DEF LeaveIn
  <2>3. unheard' \in BOOLEAN
    BY <2>1, <2>2, UnheardTyped
  <2>4. /\ UNCHANGED <<shouldReconnect, signedIn, refreshTimer>>
        /\ authenticated' = FALSE /\ pingInterval' = FALSE
        /\ reconnectTimer' \in BOOLEAN
    BY <1>3 DEF SocketCloses, ScheduleReconnect, timers, invitesVars
  <2>. QED  BY <2>3, <2>4
<1>4. ASSUME NEW throws \in BOOLEAN, Reconnect(throws) PROVE SocketFlags'
  BY <1>4 DEF Reconnect, CreateConnection, DiscardSocket, invitesVars
<1>5. ASSUME UNCHANGED webviewVars, NEW gone \in BOOLEAN, Unheard(gone)
      PROVE  SocketFlags'
  BY <1>5, UnheardTyped DEF webviewVars, timers, invitesVars
<1>6. ASSUME RelayRegisters \/ RelayHandles \/ \E k \in Slots :
                RelayRegistersLate(k) \/ RelayHandlesLate(k) \/ RelayEnds(k)
      PROVE  SocketFlags'
  <2>1. UNCHANGED webviewVars
    BY <1>6 DEF RelayRegisters, RelayHandles, RelayRegistersLate, RelayHandlesLate,
                RelayEnds, webviewVars, timers, invitesVars, sessionVars
  <2>2. CASE RelayRegisters
    BY <1>5, <2>1, <2>2 DEF RelayRegisters
  <2>3. CASE RelayHandles
    BY <1>5, <2>1, <2>3 DEF RelayHandles
  <2>4. ASSUME NEW k \in Slots, RelayRegistersLate(k) PROVE SocketFlags'
    <3>1. PICK gone \in {LeaveIn(outbox),
                         \E j \in Registered(old[k].relay) : LeaveIn(old[j].outbox)} :
             Unheard(gone)
      BY <2>4 DEF RelayRegistersLate
    <3>2. gone \in BOOLEAN
      BY DEF LeaveIn
    <3>. QED  BY <1>5, <2>1, <3>1, <3>2
  <2>5. ASSUME NEW k \in Slots, RelayHandlesLate(k) PROVE SocketFlags'
    BY <1>5, <2>1, <2>5 DEF RelayHandlesLate
  <2>6. ASSUME NEW k \in Slots, RelayEnds(k) PROVE SocketFlags'
    <3>1. Unheard(LeaveIn(old[k].outbox)) /\ LeaveIn(old[k].outbox) \in BOOLEAN
      BY <2>6 DEF RelayEnds, LeaveIn
    <3>. QED  BY <1>5, <2>1, <3>1
  <2>. QED  BY <1>6, <2>2, <2>3, <2>4, <2>5, <2>6
<1>7. ASSUME NEW throws \in BOOLEAN, Identified(throws) PROVE SocketFlags'
  <2>1. CASE url = Invited /\ isConnected
    BY <1>7, <2>1 DEF Identified, invitesVars
  <2>2. CASE ~(url = Invited /\ isConnected)
    BY <1>1, <1>7, <2>2 DEF Identified, invitesVars
  <2>. QED  BY <2>1, <2>2
<1>8. ASSUME NEW throws \in BOOLEAN, StrayIdentified(throws) \/ LookedUp(throws)
      PROVE  SocketFlags'
  <2>1. UNCHANGED <<signedIn, refreshTimer>>
    BY <1>8 DEF StrayIdentified, LookedUp, invitesVars
  <2>. QED  BY <1>1, <1>8, <2>1 DEF StrayIdentified, LookedUp
<1>9. CASE SignIn \/ RefreshFires \/ JoinFails \/ LookupFails
  <2>1. CASE SignIn \/ RefreshFires
    BY <2>1 DEF SignIn, RefreshFires, service, timers, wire
  <2>2. CASE JoinFails \/ LookupFails
    BY <2>2 DEF JoinFails, LookupFails, service, timers, wire, invitesVars
  <2>. QED  BY <1>9, <2>1, <2>2
<1>10. CASE SignOut \/ RefreshInvites
  BY <1>10 DEF SignOut, RefreshInvites, Disconnect, DiscardSocket
<1>11. CASE CloseSession
  <2>1. (outbox' = outbox \/ \E k \in Slots : old[k] # None) \in BOOLEAN
    OBVIOUS
  <2>2. Unheard(outbox' = outbox \/ \E k \in Slots : old[k] # None)
    BY <1>11 DEF CloseSession
  <2>3. unheard' \in BOOLEAN
    BY <2>1, <2>2, UnheardTyped
  <2>. QED  BY <1>11, <2>3 DEF CloseSession, invitesVars, timers
<1>12. CASE UNCHANGED socketVars
  BY <1>12 DEF socketVars, service, timers, wire, invitesVars
<1>. QED
  BY <1>2, <1>3, <1>4, <1>6, <1>7, <1>8, <1>9, <1>10, <1>11, <1>12
     DEF SocketNext, SocketProgress

LEMMA SocketStatesKept ==
    ASSUME SocketStates, [SocketNext]_socketVars
    PROVE  SocketStates'
<1>. USE SocketAssumption DEF SocketStates, Stages
<1>1. ASSUME NEW to \in {Home, Invited}, NEW throws \in BOOLEAN, ConnectTo(to, throws)
      PROVE  /\ ws' \in {"none", "connecting", "open", "closed"}
             /\ url' \in {Home, Invited, None} /\ reconnectDelay' \in 0..MaxBackoff
  BY <1>1 DEF ConnectTo, CreateConnection
<1>2. CASE SocketOpens
  BY <1>2 DEF SocketOpens
<1>3. ASSUME NEW cancelled \in BOOLEAN, Proceed(cancelled)
      PROVE  /\ joining' \in Stages \cup {None}
             /\ syncStatus' \in {"disconnected", "syncing", "synced"}
  BY <1>3 DEF Proceed
<1>4. CASE AuthOk
  <2>1. UNCHANGED <<ws, url, reconnectDelay>> /\ stray' \in {"user", "auth", None}
    BY <1>4 DEF AuthOk, timers
  <2>2. (\E cancelled \in BOOLEAN : Proceed(cancelled)) \/ UNCHANGED <<joining, syncStatus>>
    BY <1>4 DEF AuthOk
  <2>. QED  BY <1>3, <2>1, <2>2
<1>5. CASE OpenSession
  <2>1. UNCHANGED <<ws, url, reconnectDelay, stray>>
    BY <1>5 DEF OpenSession, timers
  <2>2. Proceed(FALSE) \/ (joining' = "user" /\ UNCHANGED syncStatus)
    BY <1>5 DEF OpenSession
  <2>. QED  BY <1>3, <2>1, <2>2
<1>6. CASE SocketCloses
  <2>1. reconnectDelay' \in 0..MaxBackoff
    <3>1. \/ UNCHANGED reconnectDelay
          \/ reconnectDelay < MaxBackoff /\ reconnectDelay' = reconnectDelay + 1
      BY <1>6 DEF SocketCloses, ScheduleReconnect, timers
    <3>2. MaxBackoff \in Nat
      OBVIOUS
    <3>. QED  BY <3>1, <3>2
  <2>2. ws' = "closed" /\ UNCHANGED <<url, joining, stray>>
        /\ syncStatus' \in {"disconnected", syncStatus}
    BY <1>6 DEF SocketCloses, ToldDisconnected
  <2>. QED  BY <2>1, <2>2
<1>7. ASSUME NEW throws \in BOOLEAN, Reconnect(throws) PROVE SocketStates'
  <2>1. /\ ws' \in {"none", "connecting"} /\ reconnectDelay' \in 0..MaxBackoff
        /\ UNCHANGED <<url, joining, stray, syncStatus>>
    BY <1>7 DEF Reconnect, CreateConnection, sessionVars
  <2>. QED  BY <2>1
<1>8. CASE \/ RelayRegisters \/ RelayHandles
           \/ \E k \in Slots :
                 RelayRegistersLate(k) \/ RelayHandlesLate(k) \/ RelayEnds(k)
  <2>1. UNCHANGED webviewVars
    BY <1>8 DEF RelayRegisters, RelayHandles, RelayRegistersLate, RelayHandlesLate,
                RelayEnds, webviewVars, timers, invitesVars, sessionVars
  <2>. QED  BY <2>1 DEF webviewVars, timers, sessionVars
<1>9. ASSUME NEW throws \in BOOLEAN, Identified(throws) PROVE SocketStates'
  <2>1. CASE url = Invited /\ isConnected
    BY <1>3, <1>9, <2>1 DEF Identified
  <2>2. CASE ~(url = Invited /\ isConnected)
    BY <1>1, <1>9, <2>2 DEF Identified
  <2>. QED  BY <2>1, <2>2
<1>10. ASSUME NEW throws \in BOOLEAN, StrayIdentified(throws) \/ LookedUp(throws)
       PROVE  SocketStates'
  <2>1. /\ UNCHANGED <<joining, syncStatus>>
        /\ stray' \in {"user", "auth", None}
    BY <1>10 DEF StrayIdentified, LookedUp, sessionVars
  <2>. QED  BY <1>1, <1>10, <2>1 DEF StrayIdentified, LookedUp
<1>11. CASE CloseSession
  BY <1>11 DEF CloseSession, timers
<1>12. CASE SignIn \/ RefreshFires \/ JoinFails \/ LookupFails
  BY <1>12 DEF SignIn, RefreshFires, JoinFails, LookupFails, service, timers, sessionVars
<1>13. CASE SignOut \/ RefreshInvites
  <2>1. ws' = "none" /\ UNCHANGED <<url, reconnectDelay, joining, stray>>
    BY <1>13 DEF SignOut, RefreshInvites, Disconnect, sessionVars
  <2>2. syncStatus' \in {"disconnected", syncStatus}
    BY <1>13 DEF SignOut, RefreshInvites, ToldDisconnected, sessionVars
  <2>. QED  BY <2>1, <2>2
<1>14. CASE UNCHANGED socketVars
  BY <1>14 DEF socketVars, service, timers, sessionVars
<1>. QED
  BY <1>2, <1>4, <1>5, <1>6, <1>7, <1>8, <1>9, <1>10, <1>11, <1>12, <1>13, <1>14
     DEF SocketNext, SocketProgress

\* No auth is under way in the messages s but, perhaps, the first.
AuthFirst(s) == \A i \in 1..Len(s) : s[i] = "auth" => i = 1
NoAuth(s) == \A i \in 1..Len(s) : s[i] # "auth"

LEMMA AuthsBehind ==
    ASSUME NEW s \in Seq(Messages)
    PROVE  /\ s # <<>> /\ AuthFirst(s) => NoAuth(Tail(s))
           /\ \A m \in {"join", "leave"} :
                 /\ AuthFirst(s) => AuthFirst(Append(s, m))
                 /\ NoAuth(s) => NoAuth(Append(s, m))
<1>1. ASSUME s # <<>>, AuthFirst(s) PROVE NoAuth(Tail(s))
  <2>1. /\ Len(s) \in Nat \ {0} /\ Len(Tail(s)) = Len(s) - 1
        /\ \A i \in 1..Len(Tail(s)) : Tail(s)[i] = s[i + 1]
    BY <1>1, HeadTailProperties, EmptySeq
  <2>. QED  BY <1>1, <2>1 DEF AuthFirst, NoAuth
<1>2. ASSUME NEW m \in {"join", "leave"}
      PROVE  /\ AuthFirst(s) => AuthFirst(Append(s, m))
             /\ NoAuth(s) => NoAuth(Append(s, m))
  <2>1. /\ Len(s) \in Nat /\ Len(Append(s, m)) = Len(s) + 1
        /\ Append(s, m)[Len(s) + 1] = m
        /\ \A i \in 1..Len(s) : Append(s, m)[i] = s[i]
    BY AppendProperties DEF Messages
  <2>. QED  BY <2>1 DEF AuthFirst, NoAuth
<1>. QED  BY <1>1, <1>2

LEMMA AuthOnceKept ==
    ASSUME ServiceInv, AuthOnce, [SocketNext]_socketVars
    PROVE  AuthOnce'
<1>0. /\ inbox \in {<<>>, <<"auth_ok">>} /\ AuthFirst(outbox)
      /\ inbox = <<>> \/ NoAuth(outbox)
      /\ outbox \in Seq(Messages)
  BY DEF AuthOnce, AuthFirst, NoAuth, ServiceInv, WireInOrder
<1>. DEFINE Once ==
       /\ inbox' \in {<<>>, <<"auth_ok">>} /\ AuthFirst(outbox')
       /\ inbox' = <<>> \/ NoAuth(outbox')
<1>1. SUFFICES Once
  BY DEF AuthOnce, AuthFirst, NoAuth
<1>2. CASE UNCHANGED <<outbox, inbox>>
  BY <1>0, <1>2
<1>3. CASE NoSocket \/ (outbox' = <<>> /\ UNCHANGED inbox)
  BY <1>0, <1>3 DEF NoSocket, AuthFirst, NoAuth
<1>4. CASE \E m \in {"join", "leave"} : outbox' = Sent(m) /\ UNCHANGED inbox
  BY <1>0, <1>2, <1>4, AuthsBehind DEF Sent
<1>5. ASSUME NEW to, NEW throws, ConnectTo(to, throws)
      PROVE  UNCHANGED <<outbox, inbox>> \/ NoSocket
  BY <1>5 DEF ConnectTo, CreateConnection, DiscardSocket, wire
<1>6. CASE SocketOpens
  <2>1. inbox = <<>>
    BY <1>6 DEF SocketOpens, ServiceInv, WireInOrder
  <2>. QED  BY <1>6, <2>1 DEF SocketOpens, AuthFirst
<1>7. CASE RelayRegisters \/ RelayHandles
  <2>1. outbox # <<>> /\ outbox' = Tail(outbox) /\ Head(outbox) \in Messages
    <3>1. outbox # <<>> /\ outbox' = Tail(outbox)
      BY <1>7 DEF RelayRegisters, RelayHandles
    <3>. QED  BY <1>0, <3>1, LeaveRead
  <2>2. NoAuth(outbox') /\ AuthFirst(outbox')
    BY <1>0, <2>1, AuthsBehind DEF NoAuth, AuthFirst
  <2>3. inbox' \in {<<>>, <<"auth_ok">>}
    <3>1. CASE RelayRegisters
      <4>1. inbox = <<>>
        BY <1>0, <3>1 DEF NoAuth, RelayRegisters
      <4>2. inbox' = Append(inbox, "auth_ok")
        BY <3>1 DEF RelayRegisters
      <4>. QED  BY <4>1, <4>2
    <3>2. CASE RelayHandles
      BY <1>0, <3>2 DEF RelayHandles
    <3>. QED  BY <1>7, <3>1, <3>2
  <2>. QED  BY <2>2, <2>3
<1>8. CASE AuthOk
  <2>0. inbox # <<>> /\ inbox' = Tail(inbox)
    BY <1>8 DEF AuthOk
  <2>1. inbox = <<"auth_ok">> /\ inbox' = <<>>
    <3>1. inbox = <<"auth_ok">>
      BY <1>0, <2>0
    <3>. QED  BY <2>0, <3>1
  <2>2. outbox' = Sent("join") \/ UNCHANGED outbox
    BY <1>8 DEF AuthOk, Proceed
  <2>3. AuthFirst(outbox')
    BY <1>0, <2>2, AuthsBehind DEF Sent
  <2>. QED  BY <2>1, <2>3
<1>9. CASE OpenSession \/ CloseSession
  BY <1>2, <1>4, <1>9 DEF OpenSession, CloseSession, Proceed
<1>10. ASSUME NEW throws \in BOOLEAN, Identified(throws) PROVE Once
  <2>1. CASE url = Invited /\ isConnected
    BY <1>2, <1>4, <1>10, <2>1 DEF Identified, Proceed
  <2>2. CASE ~(url = Invited /\ isConnected)
    BY <1>2, <1>3, <1>5, <1>10, <2>2 DEF Identified
  <2>. QED  BY <2>1, <2>2
<1>11. ASSUME NEW throws \in BOOLEAN, StrayIdentified(throws) \/ LookedUp(throws)
       PROVE  Once
  BY <1>2, <1>3, <1>5, <1>11 DEF StrayIdentified, LookedUp
<1>12. ASSUME NEW k \in Slots,
              RelayRegistersLate(k) \/ RelayHandlesLate(k) \/ RelayEnds(k)
       PROVE  Once
  <2>1. UNCHANGED inbox /\ (UNCHANGED outbox \/ outbox' = <<>>)
    BY <1>12 DEF RelayRegistersLate, RelayHandlesLate, RelayEnds
  <2>. QED  BY <1>2, <1>3, <2>1
<1>13. CASE \/ SocketCloses \/ (\E throws \in BOOLEAN : Reconnect(throws))
            \/ SignOut \/ RefreshInvites
  BY <1>3, <1>13 DEF SocketCloses, Reconnect, CreateConnection, SignOut,
                     RefreshInvites, Disconnect, DiscardSocket
<1>14. CASE JoinFails \/ SignIn \/ RefreshFires \/ LookupFails \/ UNCHANGED socketVars
  BY <1>2, <1>14 DEF JoinFails, SignIn, RefreshFires, LookupFails, socketVars, service, wire
<1>. QED
  BY <1>6, <1>7, <1>8, <1>9, <1>10, <1>11, <1>12, <1>13, <1>14
     DEF SocketNext, SocketProgress

LEMMA LookupsKept ==
    ASSUME Lookups, [SocketNext]_socketVars
    PROVE  Lookups'
<1>. USE SocketAssumption DEF Lookups
<1>1. CASE UNCHANGED <<looking, refreshTimer, moves>>
  BY <1>1
<1>2. CASE SignIn
  BY <1>2 DEF SignIn
<1>3. CASE RefreshFires
  BY <1>3 DEF RefreshFires
<1>4. ASSUME NEW throws \in BOOLEAN, LookedUp(throws) \/ LookupFails PROVE Lookups'
  BY <1>4 DEF LookedUp, LookupFails
<1>5. CASE RefreshInvites
  BY <1>5 DEF RefreshInvites
<1>6. CASE OpenSession \/ SignOut
  <2>1. moves < MaxMoves /\ moves' = moves + 1 /\ UNCHANGED <<looking, refreshTimer>>
    BY <1>6 DEF OpenSession, SignOut, invitesVars
  <2>. QED  BY <2>1
<1>7. CASE \/ SocketOpens \/ SocketCloses \/ AuthOk \/ JoinFails \/ CloseSession
           \/ UNCHANGED socketVars
  BY <1>1, <1>7, Zenon
     DEF SocketOpens, SocketCloses, AuthOk, JoinFails, CloseSession, invitesVars,
         socketVars
<1>8. ASSUME NEW throws \in BOOLEAN,
             Reconnect(throws) \/ Identified(throws) \/ StrayIdentified(throws)
      PROVE  Lookups'
  BY <1>1, <1>8, Zenon DEF Reconnect, Identified, StrayIdentified, invitesVars
<1>9. CASE \/ RelayRegisters \/ RelayHandles
           \/ \E k \in Slots :
                 RelayRegistersLate(k) \/ RelayHandlesLate(k) \/ RelayEnds(k)
  <2>1. UNCHANGED webviewVars
    BY <1>9 DEF RelayRegisters, RelayHandles, RelayRegistersLate, RelayHandlesLate,
                RelayEnds, webviewVars, timers, invitesVars, sessionVars
  <2>. QED  BY <1>1, <2>1 DEF webviewVars, invitesVars
<1>. QED
  BY <1>2, <1>3, <1>4, <1>5, <1>6, <1>7, <1>8, <1>9 DEF SocketNext, SocketProgress

SocketIInv ==
    MemberInv /\ SocketFlags /\ SocketStates /\ AuthOnce /\ Lookups

\* Whatever the network, the relays and users do: what the service, the two
\* that share it and the relays keep is of its type, auth_ok comes once, and no
\* more relays are looked up than users asked for (watch-sync.ts,
\* useInvites.ts).
THEOREM SocketTypeCorrect == SocketSpec => []SocketTypeOK
<1>1. SocketInit => SocketIInv
  <2> SUFFICES ASSUME SocketInit PROVE SocketIInv
    OBVIOUS
  <2>0. reconnectDelay \in 0..MaxBackoff
    BY SocketAssumption DEF SocketInit
  <2>1. SocketFlags /\ SocketStates
    BY <2>0, Zenon DEF SocketInit, SocketFlags, SocketStates
  <2>2. AuthOnce /\ Lookups
    BY SocketAssumption DEF SocketInit, AuthOnce, Lookups
  <2>. QED  BY <2>1, <2>2, ServiceInitially, PageInitially DEF SocketIInv, MemberInv
<1>2. SocketIInv /\ [SocketNext]_socketVars => SocketIInv'
  <2> SUFFICES ASSUME SocketIInv, [SocketNext]_socketVars PROVE SocketIInv'
    OBVIOUS
  <2>1. MemberInv'
    BY ServiceStep, PageStep DEF SocketIInv, MemberInv
  <2>2. /\ ServiceInv /\ SocketFlags /\ SocketStates /\ AuthOnce /\ Lookups
    BY DEF SocketIInv, MemberInv
  <2>3. SocketFlags' /\ SocketStates' /\ AuthOnce' /\ Lookups'
    BY <2>2, SocketFlagsKept, SocketStatesKept, AuthOnceKept, LookupsKept, Zenon
  <2>. QED  BY <2>1, <2>3 DEF SocketIInv
<1>3. SocketIInv => SocketTypeOK
  <2> SUFFICES ASSUME SocketIInv PROVE SocketTypeOK
    OBVIOUS
  <2>1. {shouldReconnect, authenticated, reconnectTimer, pingInterval, unheard,
         signedIn, refreshTimer} \subseteq BOOLEAN
    BY Zenon DEF SocketIInv, SocketFlags
  <2>2. /\ \A i \in DOMAIN outbox : outbox[i] \in Messages
        /\ heard \in {"no", "registered", "superseded"}
    BY DEF SocketIInv, MemberInv, ServiceInv, WireInOrder
  <2>3. looking \in 0..(2 * MaxMoves)
    BY SocketAssumption DEF SocketIInv, Lookups
  <2>4. /\ \A k \in Slots : old[k] = None \/ old[k] \in Connection
        /\ members \subseteq {Home, Invited}
    BY DEF SocketIInv, MemberInv, PageInv, OldTyped
  <2>. QED  BY <2>1, <2>2, <2>3, <2>4, Zenon
       DEF SocketIInv, SocketStates, AuthOnce, SocketTypeOK
<1>. QED  BY <1>1, <1>2, <1>3, PTL DEF SocketSpec

-----------------------------------------------------------------------------
(* LibraryPages again: its lists have a slot for each chunk of a selection,  *)
(* and its requests are for chunks that a selection may have.                *)

\* No selection has more chunks than MaxChunks.
LEMMA MostChunks ==
    /\ MaxChunks \in Nat \ {0}
    /\ \A k \in Selections : ChunksOf[k] \in 1..MaxChunks
<1>1. /\ MaxChunks \in {ChunksOf[k] : k \in Selections}
      /\ \A k \in Selections : ChunksOf[k] <= MaxChunks
  BY ChunksAssumption DEF MaxChunks
<1>. QED  BY <1>1, LibraryAssumption

\* A list of no more slots than a selection has chunks.
Dense(list) == \E n \in 0..MaxChunks : list = [j \in 1..n |-> list[j]]

Requests == [key : Selections, at : 1..MaxChunks, gen : 1..MaxGen]

DenseLists ==
    /\ Dense(listing)
    /\ \A k \in Selections : listCache[k] # None => Dense(listCache[k])
    /\ cachedFrame # None => Dense(cachedFrame.list)
Ranging ==
    /\ inFlight \subseteq Requests
    /\ loadedChunks \subseteq 1..MaxChunks
    /\ wanted \subseteq 1..MaxChunks /\ failedChunks \subseteq 1..MaxChunks
ViewFlags ==
    /\ generation \in 0..MaxGen
    /\ listLoading \in BOOLEAN /\ listError \in BOOLEAN /\ fromCache \in BOOLEAN
    /\ leftBehind # None => leftBehind = [key |-> leftBehind.key, list |-> leftBehind.list]

LEMMA DenseEmpty == Dense(<<>>)
<1>1. <<>> = [j \in 1..0 |-> <<>>[j]]
  OBVIOUS
<1>2. 0 \in 0..MaxChunks
  BY MostChunks
<1>. QED  BY <1>1, <1>2 DEF Dense

LEMMA DenseMerged ==
    ASSUME NEW k \in Selections, NEW list, NEW i, NEW batch
    PROVE  Dense(MergeChunk(list, i, batch, ChunksOf[k]))
<1>1. Sized(MergeChunk(list, i, batch, ChunksOf[k]), k)
  BY MergedSized
<1>2. ChunksOf[k] \in 0..MaxChunks
  BY MostChunks
<1>. QED  BY <1>1, <1>2 DEF Dense, Sized

LEMMA DenseLength ==
    ASSUME NEW list, Dense(list)
    PROVE  /\ Len(list) \in 0..MaxChunks /\ DOMAIN list = 1..Len(list)
           /\ DOMAIN list \subseteq 1..MaxChunks
<1>1. PICK n \in 0..MaxChunks : list = [j \in 1..n |-> list[j]]
  BY DEF Dense
<1>. DEFINE S == {list[j] : j \in 1..n}
<1>2. n \in Nat /\ 1..n \subseteq 1..MaxChunks
  BY MostChunks
<1>3. list \in [1..n -> S]
  BY <1>1
<1>4. list \in Seq(S)
  BY <1>2, <1>3, SeqDef
<1>5. Len(list) \in Nat /\ DOMAIN list = 1..Len(list)
  BY <1>4, LenProperties
<1>6. DOMAIN list = 1..n
  BY <1>1
<1>. QED  BY <1>2, <1>5, <1>6

\* A list of chunks at their own places is one of the model's.
LEMMA DenseTyped ==
    ASSUME NEW k \in Selections, NEW list, Dense(list), ListOf(list, k)
    PROVE  list \in Listings
<1>1. PICK n \in 0..MaxChunks : list = [j \in 1..n |-> list[j]]
  BY DEF Dense
<1>2. ASSUME NEW j \in 1..n PROVE list[j] \in ListSlots
  <2>1. CASE list[j] = EmptySlot
    BY <2>1 DEF ListSlots
  <2>2. CASE list[j] # EmptySlot
    <3>1. j \in Present(list)
      BY <1>1, <2>2 DEF Present
    <3>2. list[j] = Chunk(k, j)
      BY <3>1 DEF ListOf
    <3>3. j \in 1..MaxChunks
      BY MostChunks
    <3>. QED  BY <3>2, <3>3 DEF ListSlots
  <2>. QED  BY <2>1, <2>2
<1>3. list \in [1..n -> ListSlots]
  BY <1>1, <1>2
<1>. QED  BY <1>3 DEF Listings

LEMMA DenseListsKept ==
    ASSUME LInv, DenseLists, [LibraryNext]_libraryVars
    PROVE  DenseLists'
<1>. USE DEF DenseLists
<1>0. /\ selection \in Selections \cup {None} /\ None \notin Selections
      /\ listCache = [k \in Selections |-> listCache[k]]
  BY LibraryAssumption DEF LInv, Fresh, Sizes
<1>1. ASSUME NEW k, NEW stored, StartGeneration(k, stored), cachedFrame' # None
      PROVE  cachedFrame'.list = stored[k] /\ stored[k] # None
  BY <1>1 DEF StartGeneration
<1>2. ASSUME NEW k \in Selections, OpenLibrary(k) PROVE DenseLists'
  BY <1>2, DenseEmpty DEF OpenLibrary
<1>3. ASSUME NEW k \in Selections, SelectOther(k) PROVE DenseLists'
  BY <1>1, <1>3 DEF SelectOther
<1>4. CASE RetryListing
  <2>1. /\ selection \in Selections /\ UNCHANGED listing
        /\ listCache' = [listCache EXCEPT ![selection] = None]
        /\ StartGeneration(selection, listCache')
    BY <1>0, <1>4 DEF RetryListing
  <2>2. listCache'[selection] = None
    BY <1>0, <2>1
  <2>3. cachedFrame' = None
    BY <1>1, <2>1, <2>2
  <2>. QED  BY <1>0, <2>1, <2>3
<1>5. CASE LeaveLibrary
  BY <1>5, DenseEmpty DEF LeaveLibrary
<1>6. ASSUME NEW k \in Selections, ExpireListing(k) PROVE DenseLists'
  BY <1>0, <1>6 DEF ExpireListing, viewVars
<1>7. CASE ApplyFrame
  BY <1>7 DEF ApplyFrame
<1>8. ASSUME NEW lo, NEW hi, EnsureRange(lo, hi) PROVE DenseLists'
  BY <1>8 DEF EnsureRange
<1>9. ASSUME NEW f \in inFlight, ChunkArrives(f) PROVE DenseLists'
  <2>1. f.gen = generation /\ f.key \in Selections
    BY DEF LInv, Fresh, Ranged
  <2>2. Dense(listing') /\ listCache' = [listCache EXCEPT ![f.key] = listing']
        /\ UNCHANGED cachedFrame
    BY <1>9, <2>1, DenseMerged DEF ChunkArrives, Merged
  <2>. QED  BY <1>0, <2>1, <2>2
<1>10. ASSUME NEW f \in inFlight, ChunkFails(f) PROVE DenseLists'
  BY <1>10 DEF ChunkFails
<1>11. CASE FirstArrives \/ FirstFails \/ FillEnds
            \/ (\E i \in 2..MaxChunks : BatchArrives(i) \/ BatchFails(i))
  <2>1. selection \in Selections
    <3>1. fill.stage # "none"
      BY <1>11 DEF FirstArrives, FirstFails, FillEnds, BatchArrives, BatchFails
    <3>. QED  BY <3>1, LibraryAssumption DEF LInv, Fresh
  <2>2. UNCHANGED cachedFrame
    BY <1>11 DEF FirstArrives, FirstFails, FillEnds, BatchArrives, BatchFails
  <2>3. \A f : Dense(Filled(f))
    BY <2>1, DenseMerged DEF Filled
  <2>4. Dense(MergeChunk(<<>>, 1, <<Chunk(selection, 1)>>, ChunksOf[selection]))
    BY <2>1, DenseMerged
  <2>5. \/ UNCHANGED listing
        \/ listing' = MergeChunk(<<>>, 1, <<Chunk(selection, 1)>>, ChunksOf[selection])
        \/ \E f : listing' = Filled(f)
    BY <1>11 DEF FirstArrives, FirstFails, FillEnds, BatchArrives, BatchFails
  <2>6. Dense(listing')
    BY <2>3, <2>4, <2>5
  <2>7. \/ UNCHANGED listCache
        \/ listCache' = [listCache EXCEPT ![selection] = listing']
    BY <1>11 DEF FirstArrives, FirstFails, FillEnds, BatchArrives, BatchFails
  <2>. QED  BY <1>0, <2>1, <2>2, <2>6, <2>7
<1>12. CASE UNCHANGED libraryVars
  BY <1>12 DEF libraryVars
<1>13. CASE LeftBehindArrives
  <2>1. Dense(leftBehind.list)
    <3>1. leftBehind.key \in Selections /\ Sized(leftBehind.list, leftBehind.key)
      BY <1>13 DEF LeftBehindArrives, LInv, Sizes
    <3>2. ChunksOf[leftBehind.key] \in 0..MaxChunks
      BY <3>1, MostChunks
    <3>. QED  BY <3>1, <3>2 DEF Dense, Sized
  <2>. QED  BY <1>0, <1>13, <2>1 DEF LeftBehindArrives, viewVars
<1>. QED
  BY <1>2, <1>3, <1>4, <1>5, <1>6, <1>7, <1>8, <1>9, <1>10, <1>11, <1>12, <1>13
     DEF LibraryNext, LibraryProgress, LibraryVisitor

LEMMA ViewFlagsKept ==
    ASSUME ViewFlags, [LibraryNext]_libraryVars
    PROVE  ViewFlags'
<1>. USE LibraryAssumption
<1>. DEFINE Entry(l) == l # None => l = [key |-> l.key, list |-> l.list]
<1>0. /\ generation \in 0..MaxGen /\ listLoading \in BOOLEAN /\ listError \in BOOLEAN
      /\ fromCache \in BOOLEAN /\ Entry(leftBehind)
  BY DEF ViewFlags
<1>. DEFINE Kept == /\ generation' \in 0..MaxGen /\ listLoading' \in BOOLEAN
                    /\ listError' \in BOOLEAN /\ fromCache' \in BOOLEAN
                    /\ Entry(leftBehind')
<1>. SUFFICES Kept
  BY DEF ViewFlags
<1>1. ASSUME NEW k, NEW stored, StartGeneration(k, stored), generation < MaxGen,
             UNCHANGED leftBehind
      PROVE  Kept
  <2>1. generation' = generation + 1 /\ listError' = FALSE
        /\ listLoading' \in {TRUE, listLoading} /\ fromCache' = (stored[k] # None)
    BY <1>1 DEF StartGeneration
  <2>2. generation' \in 0..MaxGen
    BY <1>0, <1>1, <2>1
  <2>. QED  BY <1>0, <1>1, <2>1, <2>2, Zenon
<1>2. ASSUME NEW k \in Selections, OpenLibrary(k) PROVE Kept
  <2>1. generation' = 1 /\ listError' = FALSE /\ listLoading' = TRUE
        /\ fromCache' = (listCache[k] # None) /\ UNCHANGED leftBehind
    BY <1>2 DEF OpenLibrary
  <2>2. generation' \in 0..MaxGen
    BY <2>1
  <2>. QED  BY <1>0, <2>1, <2>2, Zenon
<1>3. ASSUME NEW k \in Selections, SelectOther(k) PROVE Kept
  BY <1>1, <1>3 DEF SelectOther
<1>4. CASE RetryListing
  BY <1>1, <1>4 DEF RetryListing
<1>5. CASE LeaveLibrary
  <2>1. generation' = 0 /\ listError' = FALSE /\ listLoading' = TRUE /\ fromCache' = FALSE
    BY <1>5 DEF LeaveLibrary
  <2>2. generation' \in 0..MaxGen
    BY <2>1
  <2>3. Entry(leftBehind')
    <3>1. CASE leftBehind' = leftBehind
      BY <1>0, <3>1
    <3>2. ASSUME NEW f \in inFlight, leftBehind' = [key |-> f.key, list |-> Merged(f)]
          PROVE  Entry(leftBehind')
      BY <3>2
    <3>. QED  BY <1>5, <3>1, <3>2 DEF LeaveLibrary
  <2>. QED  BY <2>1, <2>2, <2>3, Zenon
<1>6. CASE LeftBehindArrives \/ \E k \in Selections : ExpireListing(k)
  <2>1. UNCHANGED viewVars /\ leftBehind' \in {leftBehind, None}
    BY <1>6 DEF LeftBehindArrives, ExpireListing
  <2>. QED  BY <1>0, <2>1 DEF viewVars
<1>7. CASE ApplyFrame
  BY <1>0, <1>7 DEF ApplyFrame, aside
<1>8. ASSUME NEW lo, NEW hi, EnsureRange(lo, hi) PROVE Kept
  BY <1>0, <1>8 DEF EnsureRange, aside
<1>9. ASSUME NEW f \in inFlight, ChunkArrives(f) \/ ChunkFails(f) PROVE Kept
  BY <1>0, <1>9 DEF ChunkArrives, ChunkFails, aside
<1>10. CASE FirstArrives \/ FirstFails \/ FillEnds
            \/ (\E i \in 2..MaxChunks : BatchArrives(i) \/ BatchFails(i))
  BY <1>0, <1>10 DEF FirstArrives, FirstFails, FillEnds, BatchArrives, BatchFails, aside
<1>11. CASE UNCHANGED libraryVars
  BY <1>0, <1>11 DEF libraryVars
<1>. QED
  BY <1>2, <1>3, <1>4, <1>5, <1>6, <1>7, <1>8, <1>9, <1>10, <1>11
     DEF LibraryNext, LibraryProgress, LibraryVisitor

LEMMA RangingKept ==
    ASSUME LInv, DenseLists, Ranging, ViewFlags, [LibraryNext]_libraryVars
    PROVE  Ranging'
<1>. USE DEF Ranging
<1>0. 1 \in 1..MaxChunks
  BY MostChunks
<1>1. ASSUME NEW k \in Selections, NEW stored, StartGeneration(k, stored),
             generation < MaxGen
      PROVE  Ranging'
  <2>1. generation + 1 \in 1..MaxGen
    BY <1>1, LibraryAssumption DEF ViewFlags
  <2>2. [key |-> k, at |-> 1, gen |-> generation + 1] \in Requests
    BY <1>0, <2>1 DEF Requests
  <2>3. inFlight' \subseteq Requests
    BY <1>1, <2>2 DEF StartGeneration
  <2>. QED  BY <1>1, <2>3 DEF StartGeneration
<1>2. ASSUME NEW k \in Selections, OpenLibrary(k) PROVE Ranging'
  <2>1. [key |-> k, at |-> 1, gen |-> 1] \in Requests
    BY <1>0, LibraryAssumption DEF Requests
  <2>. QED  BY <1>2, <2>1 DEF OpenLibrary
<1>3. ASSUME NEW k \in Selections, SelectOther(k) PROVE Ranging'
  BY <1>1, <1>3 DEF SelectOther
<1>4. CASE RetryListing
  <2>1. selection \in Selections
    BY <1>4 DEF RetryListing, LInv, Fresh
  <2>. QED  BY <1>1, <1>4, <2>1 DEF RetryListing
<1>5. CASE LeaveLibrary
  BY <1>5 DEF LeaveLibrary
<1>6. CASE LeftBehindArrives \/ \E k \in Selections : ExpireListing(k)
  BY <1>6 DEF LeftBehindArrives, ExpireListing, viewVars
<1>7. CASE ApplyFrame
  <2>1. Present(cachedFrame.list) \subseteq 1..MaxChunks
    BY <1>7, DenseLength DEF ApplyFrame, DenseLists, Present
  <2>. QED  BY <1>7, <2>1 DEF ApplyFrame
<1>8. ASSUME NEW lo \in 1..MaxChunks, NEW hi \in 1..MaxChunks, EnsureRange(lo, hi)
      PROVE  Ranging'
  <2>. DEFINE needed  == lo..(IF hi > Len(listing) THEN Len(listing) ELSE hi)
              kept    == {f \in inFlight : f.at \in needed}
              known   == loadedChunks \cup {f.at : f \in kept}
              already == {i \in needed \ known : HasItems(i)}
              missing == needed \ (known \cup already)
  <2>1. needed \subseteq 1..MaxChunks
    <3>1. Len(listing) \in 0..MaxChunks
      BY DenseLength DEF DenseLists
    <3>2. MaxChunks \in Nat
      BY MostChunks
    <3>. QED  BY <3>1, <3>2
  <2>2. already \subseteq 1..MaxChunks /\ missing \subseteq 1..MaxChunks
    BY <2>1
  <2>3. selection \in Selections /\ generation \in 1..MaxGen
    BY <1>8, LibraryAssumption DEF EnsureRange, LInv, Fresh, ViewFlags
  <2>4. /\ loadedChunks' = loadedChunks \cup already
        /\ inFlight' = kept \cup {[key |-> selection, at |-> i, gen |-> generation] :
                                      i \in missing}
        /\ wanted' = needed /\ failedChunks' = failedChunks \ needed
    BY <1>8 DEF EnsureRange
  <2>. HIDE DEF already, missing, needed
  <2>5. \A i \in missing : [key |-> selection, at |-> i, gen |-> generation] \in Requests
    BY <2>2, <2>3 DEF Requests
  <2>. QED  BY <2>1, <2>2, <2>4, <2>5
<1>9. ASSUME NEW f \in inFlight, ChunkArrives(f) \/ ChunkFails(f) PROVE Ranging'
  <2>1. f.at \in 1..MaxChunks
    BY <1>9 DEF Requests
  <2>. QED  BY <1>9, <2>1 DEF ChunkArrives, ChunkFails
<1>10. CASE FirstArrives \/ FirstFails \/ FillEnds
            \/ (\E i \in 2..MaxChunks : BatchArrives(i) \/ BatchFails(i))
  BY <1>10 DEF FirstArrives, FirstFails, FillEnds, BatchArrives, BatchFails
<1>11. CASE UNCHANGED libraryVars
  BY <1>11 DEF libraryVars
<1>. QED
  BY <1>2, <1>3, <1>4, <1>5, <1>6, <1>7, <1>8, <1>9, <1>10, <1>11
     DEF LibraryNext, LibraryProgress, LibraryVisitor

LibraryIInv == LInv /\ SInv /\ DenseLists /\ Ranging /\ ViewFlags

\* Every list the view shows, caches or will show has slots for chunks of the
\* library alone, and every request is for one of them
\* (usePaginatedLibrary.ts, library-range.ts).
THEOREM LibraryTypeCorrect == LibrarySpec => []LibraryTypeOK
<1>1. LibraryInit => LibraryIInv
  <2> SUFFICES ASSUME LibraryInit PROVE LibraryIInv
    OBVIOUS
  <2>1. DenseLists
    BY DenseEmpty DEF LibraryInit, DenseLists
  <2>2. Ranging
    BY DEF LibraryInit, Ranging
  <2>3. generation \in 0..MaxGen
    BY LibraryAssumption DEF LibraryInit
  <2>4. ViewFlags
    BY <2>3, Zenon DEF LibraryInit, ViewFlags
  <2>. QED  BY <2>1, <2>2, <2>4, LibraryInitially, SplicesInitially DEF LibraryIInv
<1>2. LibraryIInv /\ [LibraryNext]_libraryVars => LibraryIInv'
  BY LibraryInductive, Unspliced, DenseListsKept, RangingKept, ViewFlagsKept, Zenon
     DEF LibraryIInv
<1>3. LibraryIInv => LibraryTypeOK
  <2> SUFFICES ASSUME LibraryIInv PROVE LibraryTypeOK
    OBVIOUS
  <2>1. listing \in Listings
    BY DenseTyped DEF LibraryIInv, DenseLists, SInv, NoSplice
  <2>2. \A k \in Selections : listCache[k] \in Listings \cup {None}
    BY DenseTyped DEF LibraryIInv, DenseLists, SInv, NoSplice
  <2>3. storeGeneration \in 0..MaxGen
    BY LibraryAssumption DEF LibraryIInv, ViewFlags, LInv, Fresh
  <2>4. selection \in Selections \cup {None}
    BY DEF LibraryIInv, LInv, Fresh
  <2>5. ASSUME leftBehind # None
        PROVE  leftBehind \in [key : Selections, list : Listings]
    <3>1. /\ leftBehind = [key |-> leftBehind.key, list |-> leftBehind.list]
          /\ leftBehind.key \in Selections /\ Dense(leftBehind.list)
          /\ ListOf(leftBehind.list, leftBehind.key)
      <4>1. leftBehind.key \in Selections /\ Sized(leftBehind.list, leftBehind.key)
        BY <2>5 DEF LibraryIInv, LInv, Sizes
      <4>2. ChunksOf[leftBehind.key] \in 0..MaxChunks
        BY <4>1, MostChunks
      <4>3. Dense(leftBehind.list)
        BY <4>1, <4>2 DEF Dense, Sized
      <4>. QED  BY <2>5, <4>1, <4>3 DEF LibraryIInv, ViewFlags, SInv, Belongs
    <3>2. leftBehind.list \in Listings
      BY <3>1, DenseTyped
    <3>. QED  BY <3>1, <3>2
  <2>. QED  BY <2>1, <2>2, <2>3, <2>4, <2>5, Zenon
       DEF LibraryIInv, Ranging, ViewFlags, LibraryTypeOK, Requests
<1>. QED  BY <1>1, <1>2, <1>3, PTL DEF LibrarySpec

-----------------------------------------------------------------------------
(* MCSettles: the parts are composed so that one of them moves.              *)

LEMMA SettlesPartsBegin ==
    Init => LibraryInit /\ SocketInit /\ PlaybackInit /\ OfflineInit /\ PopoutInit
BY DEF Init

LEMMA SettlesPartsStep ==
    [Next]_vars => /\ [LibraryNext]_libraryVars /\ [SocketNext]_socketVars
                   /\ [PlaybackNext]_playbackVars /\ [OfflineNext]_offlineVars
                   /\ [PopoutNext]_popoutVars
BY Zenon DEF Next, vars

\* The composition implements each of its parts.
THEOREM SettlesImplementsParts ==
    Spec => LibrarySpec /\ SocketSpec /\ PlaybackSpec /\ OfflineSpec /\ PopoutSpec
<1>1. Spec => Init /\ [][Next]_vars
  BY PTL DEF Spec
<1>. QED
  BY <1>1, SettlesPartsBegin, SettlesPartsStep, PTL
     DEF LibrarySpec, SocketSpec, PlaybackSpec, OfflineSpec, PopoutSpec

\* Whichever part moves has its types.
THEOREM SettlesTypeCorrect == Spec => []SettlesTypeOK
<1>1. LibraryTypeOK /\ SocketTypeOK /\ PlaybackTypeOK /\ OfflineTypeOK /\ PopoutTypeOK
        => SettlesTypeOK
  BY DEF SettlesTypeOK
<1>. QED  BY <1>1, SettlesImplementsParts, LibraryTypeCorrect, SocketTypeCorrect,
             WatchPlaybackTypeCorrect, OfflineTypeCorrect, PopoutTypeCorrect, PTL

\* What the runs check of the whole, but for liveness, holds of it for every
\* value of the constants.
THEOREM SettlesCorrect ==
    Spec => [](/\ NoSplice /\ WantedAccounted /\ SocketSound /\ MemberHasPage
               /\ NothingUnreported /\ PopoutAgrees)
BY SettlesImplementsParts, OneSelection, NothingForgotten, ConnectionSound,
   MembersHavePages, NothingWatchedIsLost, WindowComesBack, PTL
=============================================================================
