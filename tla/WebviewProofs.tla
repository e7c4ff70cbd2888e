--------------------------- MODULE WebviewProofs ----------------------------
(***************************************************************************)
(* Theorems about the parts of the webview that MCWebview runs one by one. *)
(***************************************************************************)
EXTENDS MCWebview, SequenceTheorems, FiniteSetTheorems, WellFoundedInduction,
        TLAPS

-----------------------------------------------------------------------------
(* DetailPage: a detail page is of one item and never hangs, for any       *)
(* titles, shelves, collections, shows and number of edits.                *)

Contents == [key : Titles, version : 0..MaxEdits]
Bundles == [version : 0..MaxEdits, stale : BOOLEAN]

\* What is not Boolean and matters to the page.
DetailTyped ==
    /\ route \in Titles \cup {None} /\ item \in Contents \cup {None}
    /\ bundleFetch \in [key : Titles, shown : 0..MaxEdits \cup {None}] \cup {None}
    /\ bundles \in [Titles -> Bundles \cup {None}]
    /\ metadata \in [Titles -> 0..MaxEdits]

\* A request for a bundle knows whether the page shows the item already, and
\* without an item, or a page, there are no other requests.
RequestsFit ==
    /\ bundleFetch # None => (bundleFetch.shown = None <=> item = None)
    /\ item = None => shelfFetch = None /\ collectionFetch = None
    /\ route = None => item = None /\ bundleFetch = None

\* The inductive invariant.
DInv == DetailTyped /\ RequestsFit /\ PageOfOneItem /\ NothingHangs

LEMMA DetailInitially == DetailInit => DInv
<1>1. 0 \in 0..MaxEdits
  BY TitlesAssumption
<1>2. DetailInit => DetailTyped
  BY <1>1 DEF DetailInit, DetailTyped
<1>. QED
  BY <1>2 DEF DetailInit, DInv, RequestsFit, PageOfOneItem, NothingHangs

\* The single season of a show is a title, and so is where a link leads.
LEMMA Leads ==
    ASSUME NEW k \in Titles
    PROVE  /\ Destination(k) \in Titles
           /\ k \in DOMAIN OnlySeason => OnlySeason[k] \in Titles
BY TitlesAssumption DEF Destination

-----------------------------------------------------------------------------
(* The primary effect *)

\* A page of another item, from the cache or cold.
LEMMA Fresh ==
    ASSUME DInv, NEW k \in Titles, route' = k, refreshed' = FALSE,
           bundles' \in [Titles -> Bundles \cup {None}],
           metadata' \in [Titles -> 0..MaxEdits],
           \/ bundles[k] # None /\ ServeCached(k, FALSE, TRUE)
           \/ LoadCold(k, TRUE)
    PROVE  DInv'
<1>1. CASE bundles[k] # None /\ ServeCached(k, FALSE, TRUE)
  <2> DEFINE v == bundles[k].version
  <2>1. v \in 0..MaxEdits /\ v # None
    BY <1>1, TitlesAssumption DEF DInv, DetailTyped, Bundles
  <2>2. /\ item' = [key |-> k, version |-> v]
        /\ bundleFetch' \in {None, [key |-> k, shown |-> v]}
        /\ related' = None /\ collection' = None
        /\ shelfFetch' = IF k \in Shelved THEN k ELSE None
        /\ collectionFetch' = IF HasCollection(k) THEN k ELSE None
        /\ shelvesLoading' = (k \in Shelved)
        /\ collectionLoading' = HasCollection(k)
    BY <1>1 DEF ServeCached, ClearShelves, ShelvesFor
  <2>3. item' \in Contents /\ item' # None /\ item'.key = k /\ k # None
    BY <2>1, <2>2, TitlesAssumption DEF Contents
  <2>4. DetailTyped'
    BY <2>1, <2>2, <2>3 DEF DetailTyped
  <2>5. RequestsFit'
    BY <2>1, <2>2, <2>3 DEF RequestsFit
  <2>6. PageOfOneItem'
    BY <2>2, <2>3 DEF PageOfOneItem
  <2>7. NothingHangs'
    BY <2>2, <2>3 DEF NothingHangs
  <2>. QED  BY <2>4, <2>5, <2>6, <2>7 DEF DInv
<1>2. CASE LoadCold(k, TRUE)
  <2>1. /\ item' = None /\ bundleFetch' = [key |-> k, shown |-> None]
        /\ shelfFetch' = None /\ collectionFetch' = None
        /\ related' = None /\ collection' = None
    BY <1>2 DEF LoadCold, ClearShelves
  <2>2. bundleFetch' # None
    BY <2>1, TitlesAssumption
  <2>. QED
    BY <2>1, <2>2, TitlesAssumption
       DEF DInv, DetailTyped, RequestsFit, PageOfOneItem, NothingHangs
<1>. QED  BY <1>1, <1>2

LEMMA Entered ==
    ASSUME DInv, NEW k \in Titles, Enter(k)
    PROVE  DInv'
BY Fresh DEF Enter, DInv, DetailTyped

\* refreshItem, on the page of the item.
LEMMA Refreshed ==
    ASSUME DInv, route # None, refreshed' = TRUE,
           \/ bundles[route] # None /\ ServeCached(route, TRUE, FALSE)
           \/ LoadCold(route, FALSE),
           UNCHANGED <<route, bundles, metadata>>
    PROVE  DInv'
<1>0. /\ route \in Titles /\ route' = route
      /\ bundles' = bundles /\ metadata' = metadata
  BY DEF DInv, DetailTyped
<1>1. CASE bundles[route] # None /\ ServeCached(route, TRUE, FALSE)
  <2> DEFINE v == bundles[route].version
  <2>1. v \in 0..MaxEdits /\ v # None
    BY <1>0, <1>1, TitlesAssumption DEF DInv, DetailTyped, Bundles
  <2>2. /\ item' = [key |-> route, version |-> v]
        /\ bundleFetch' = [key |-> route, shown |-> v]
        /\ related' = related /\ collection' = collection
    BY <1>1 DEF ServeCached
  <2>3. \/ /\ item = None
           /\ shelfFetch' = IF route \in Shelved THEN route ELSE None
           /\ collectionFetch' = IF HasCollection(route) THEN route ELSE None
        \/ /\ item # None
           /\ shelfFetch' = shelfFetch /\ collectionFetch' = collectionFetch
    BY <1>1 DEF ServeCached, ShelvesFor
  <2>4. item' \in Contents /\ item' # None /\ item'.key = route
    BY <1>0, <2>1, <2>2, TitlesAssumption DEF Contents
  <2>5. DetailTyped'
    BY <1>0, <2>1, <2>2, <2>4 DEF DInv, DetailTyped
  <2>6. RequestsFit'
    BY <1>0, <2>1, <2>2, <2>4 DEF RequestsFit
  <2>7. PageOfOneItem'
    BY <1>0, <2>2, <2>3, <2>4 DEF DInv, PageOfOneItem
  <2>8. NothingHangs'
    BY <2>4 DEF NothingHangs
  <2>. QED  BY <2>5, <2>6, <2>7, <2>8 DEF DInv
<1>2. CASE LoadCold(route, FALSE)
  <2>1. /\ item' = None /\ bundleFetch' = [key |-> route, shown |-> None]
        /\ shelfFetch' = None /\ collectionFetch' = None
        /\ related' = related /\ collection' = collection
    BY <1>2 DEF LoadCold
  <2>2. bundleFetch' # None
    BY <1>0, <2>1, TitlesAssumption
  <2>. QED
    BY <1>0, <2>1, <2>2, TitlesAssumption
       DEF DInv, DetailTyped, RequestsFit, PageOfOneItem, NothingHangs
<1>. QED  BY <1>1, <1>2

-----------------------------------------------------------------------------
(* The answers *)

LEMMA BundleStep == DInv /\ BundleArrives => DInv'
<1> SUFFICES ASSUME DInv, BundleArrives PROVE DInv'
  OBVIOUS
<1> DEFINE k == bundleFetch.key
           now == metadata[k]
<1>0. /\ bundleFetch # None /\ k \in Titles /\ k = route
      /\ now \in 0..MaxEdits /\ now # None
      /\ metadata' = metadata
      /\ bundles' = [bundles EXCEPT ![k] = [version |-> now, stale |-> FALSE]]
      /\ bundles' \in [Titles -> Bundles \cup {None}]
  <2>1. bundleFetch # None /\ k \in Titles /\ k = route /\ metadata' = metadata
    BY DEF BundleArrives, DInv, DetailTyped, PageOfOneItem
  <2>2. now \in 0..MaxEdits /\ now # None
    BY <2>1, TitlesAssumption DEF DInv, DetailTyped
  <2>3. bundles' = [bundles EXCEPT ![k] = [version |-> now, stale |-> FALSE]]
    BY DEF BundleArrives
  <2>. QED  BY <2>1, <2>2, <2>3 DEF DInv, DetailTyped, Bundles
<1>1. CASE bundleFetch.shown # now /\ k \in DOMAIN OnlySeason
  <2>1. /\ route' = OnlySeason[k] /\ refreshed' = FALSE
        /\ \/ /\ bundles[OnlySeason[k]] # None
              /\ ServeCached(OnlySeason[k], FALSE, TRUE)
           \/ LoadCold(OnlySeason[k], TRUE)
    BY <1>1 DEF BundleArrives
  <2>. QED  BY <1>0, <1>1, <2>1, Leads, Fresh DEF DInv, DetailTyped
<1>2. CASE ~(bundleFetch.shown # now /\ k \in DOMAIN OnlySeason)
  <2>1. /\ bundleFetch' = None /\ route' = route /\ refreshed' = refreshed
        /\ related' = related /\ collection' = collection
        /\ item' = IF bundleFetch.shown = now THEN item
                   ELSE [key |-> k, version |-> now]
    BY <1>2 DEF BundleArrives
  <2>2. item' \in Contents /\ item' # None /\ item'.key = k
    <3>1. CASE bundleFetch.shown = now
      BY <1>0, <2>1, <3>1 DEF DInv, DetailTyped, RequestsFit, PageOfOneItem
    <3>2. CASE bundleFetch.shown # now
      BY <1>0, <2>1, <3>2, TitlesAssumption DEF Contents
    <3>. QED  BY <3>1, <3>2
  <2>3. DetailTyped' /\ RequestsFit'
    BY <1>0, <2>1, <2>2 DEF DInv, DetailTyped, RequestsFit
  <2>4. CASE bundleFetch.shown = None
    <3>1. /\ shelfFetch' = IF k \in Shelved THEN k ELSE None
          /\ collectionFetch' = IF HasCollection(k) THEN k ELSE None
          /\ shelvesLoading' = (k \in Shelved)
          /\ collectionLoading' = HasCollection(k)
      BY <1>2, <2>4 DEF BundleArrives, ShelvesFor
    <3>2. PageOfOneItem'
      BY <1>0, <2>1, <2>2, <3>1 DEF DInv, PageOfOneItem
    <3>3. NothingHangs'
      BY <1>0, <2>2, <3>1, TitlesAssumption DEF NothingHangs
    <3>. QED  BY <2>3, <3>2, <3>3 DEF DInv
  <2>5. CASE bundleFetch.shown # None
    <3>1. item # None /\ item.key = route
      BY <1>0, <2>5 DEF DInv, RequestsFit, PageOfOneItem
    <3>2. /\ shelfFetch' = shelfFetch /\ collectionFetch' = collectionFetch
          /\ UNCHANGED shelvesLoading /\ UNCHANGED collectionLoading
      BY <1>2, <2>5 DEF BundleArrives
    <3>3. PageOfOneItem'
      BY <1>0, <2>1, <2>2, <3>1, <3>2 DEF DInv, PageOfOneItem
    <3>4. NothingHangs'
      BY <2>1, <2>2, <3>1, <3>2 DEF DInv, NothingHangs
    <3>. QED  BY <2>3, <3>3, <3>4 DEF DInv
  <2>. QED  BY <2>4, <2>5
<1>. QED  BY <1>1, <1>2

\* The other steps of a page: none of them changes its address or its item.
LEMMA OtherSteps ==
    ASSUME DInv,
           \/ BundleFails \/ ShelvesArrive \/ SectionsChange
           \/ \E found \in BOOLEAN : CollectionArrives(found)
    PROVE  DInv'
<1> USE DEF DInv, DetailTyped, RequestsFit, PageOfOneItem, NothingHangs
<1>1. CASE BundleFails
  BY <1>1 DEF BundleFails
<1>2. CASE ShelvesArrive
  BY <1>2 DEF ShelvesArrive
<1>3. CASE SectionsChange
  BY <1>3 DEF SectionsChange, detail
<1>4. ASSUME NEW found \in BOOLEAN, CollectionArrives(found) PROVE DInv'
  BY <1>4 DEF CollectionArrives
<1>. QED  BY <1>1, <1>2, <1>3, <1>4

\* The page does not see the cache and the server.
LEMMA Elsewhere ==
    ASSUME DInv, UNCHANGED <<route, detail, fetches, refreshed>>,
           bundles' \in [Titles -> Bundles \cup {None}],
           metadata' \in [Titles -> 0..MaxEdits]
    PROVE  DInv'
BY DEF DInv, DetailTyped, RequestsFit, PageOfOneItem, NothingHangs, detail, fetches

LEMMA WorldSteps ==
    ASSUME DInv, NEW k \in Titles,
           \/ Warm(k) \/ GrowStale(k) \/ Edit(k)
           \/ \E ok \in BOOLEAN : WarmArrives(k, ok)
    PROVE  DInv'
<1>1. /\ UNCHANGED <<route, detail, fetches, refreshed>>
  BY DEF Warm, GrowStale, Edit, WarmArrives
<1>2. metadata' \in [Titles -> 0..MaxEdits]
  BY TitlesAssumption DEF Warm, GrowStale, Edit, WarmArrives, DInv, DetailTyped
<1>3. bundles' \in [Titles -> Bundles \cup {None}]
  <2>1. CASE Warm(k) \/ Edit(k)
    BY <2>1 DEF Warm, Edit, DInv, DetailTyped
  <2>2. CASE GrowStale(k)
    <3>1. bundles[k] \in Bundles
      BY <2>2 DEF GrowStale, DInv, DetailTyped
    <3>2. [bundles[k] EXCEPT !.stale = TRUE] \in Bundles
      BY <3>1 DEF Bundles
    <3>. QED  BY <2>2, <3>2 DEF GrowStale, DInv, DetailTyped
  <2>3. ASSUME NEW ok \in BOOLEAN, WarmArrives(k, ok)
        PROVE  bundles' \in [Titles -> Bundles \cup {None}]
    <3>1. [version |-> metadata[k], stale |-> FALSE] \in Bundles
      BY DEF DInv, DetailTyped, Bundles
    <3>. QED  BY <2>3, <3>1 DEF WarmArrives, DInv, DetailTyped
  <2>. QED  BY <2>1, <2>2, <2>3
<1>. QED  BY <1>1, <1>2, <1>3, Elsewhere

LEMMA Left == DInv /\ LeaveDetail => DInv'
<1> SUFFICES ASSUME DInv, LeaveDetail PROVE DInv'
  OBVIOUS
<1>1. /\ route' = None /\ item' = None /\ related' = None /\ collection' = None
      /\ bundleFetch' = None /\ shelfFetch' = None /\ collectionFetch' = None
      /\ bundles' = bundles /\ metadata' = metadata
  BY DEF LeaveDetail, ClearShelves
<1>. QED
  BY <1>1 DEF DInv, DetailTyped, RequestsFit, PageOfOneItem, NothingHangs

LEMMA DetailInductive == DInv /\ [DetailNext]_detailVars => DInv'
<1> SUFFICES ASSUME DInv, [DetailNext]_detailVars PROVE DInv'
  OBVIOUS
<1>1. ASSUME NEW k \in Titles, OpenDetail(k) PROVE DInv'
  BY <1>1, Leads, Entered DEF OpenDetail
<1>2. CASE RefreshItem
  <2>1. route \in Titles /\ route # None
    BY <1>2 DEF RefreshItem, DInv, DetailTyped
  <2>2. CASE Destination(route) # route
    BY <1>2, <2>1, <2>2, Leads, Entered DEF RefreshItem
  <2>3. CASE Destination(route) = route
    BY <1>2, <2>1, <2>3, Refreshed DEF RefreshItem
  <2>. QED  BY <2>2, <2>3
<1>3. CASE UNCHANGED detailVars
  BY <1>3, Elsewhere DEF detailVars, DInv, DetailTyped
<1>. QED
  BY <1>1, <1>2, <1>3, Left, BundleStep, OtherSteps, WorldSteps DEF DetailNext

\* Everything on the page, and everything on its way to it, is of the item in
\* its address (useItemDetailData.ts).
THEOREM OneItem == DetailSpec => []PageOfOneItem
<1>1. DInv => PageOfOneItem
  BY DEF DInv
<1>. QED  BY <1>1, DetailInitially, DetailInductive, PTL DEF DetailSpec

\* A page without an item is loading or reports an error, and a skeleton
\* stands for a request unless the item was refreshed.
THEOREM NeverHangs == DetailSpec => []NothingHangs
<1>1. DInv => NothingHangs
  BY DEF DInv
<1>. QED  BY <1>1, DetailInitially, DetailInductive, PTL DEF DetailSpec

\* The flags of the page, and what is being prefetched.
DetailFlags ==
    /\ pageLoading \in BOOLEAN /\ pageError \in BOOLEAN
    /\ shelvesLoading \in BOOLEAN /\ collectionLoading \in BOOLEAN
    /\ refreshed \in BOOLEAN /\ warming \subseteq Titles

LEMMA DetailFlagsKept == DetailFlags /\ [DetailNext]_detailVars => DetailFlags'
<1> SUFFICES ASSUME DetailFlags, [DetailNext]_detailVars PROVE DetailFlags'
  OBVIOUS
<1>0. ASSUME NEW k, shelvesLoading' = (k \in Shelved),
             collectionLoading' = HasCollection(k)
      PROVE  shelvesLoading' \in BOOLEAN /\ collectionLoading' \in BOOLEAN
  <2>1. (k \in Shelved) \in BOOLEAN /\ HasCollection(k) \in BOOLEAN
    BY DEF HasCollection
  <2>. QED  BY <1>0, <2>1, Zenon
<1>1. ASSUME NEW k, NEW b \in BOOLEAN, NEW d \in BOOLEAN,
             ServeCached(k, b, d) \/ LoadCold(k, d)
      PROVE  /\ pageLoading' \in BOOLEAN /\ pageError' \in BOOLEAN
             /\ shelvesLoading' \in BOOLEAN /\ collectionLoading' \in BOOLEAN
  <2>1. CASE ServeCached(k, b, d)
    BY <1>0, <2>1 DEF ServeCached
  <2>2. CASE LoadCold(k, d)
    BY <2>2 DEF LoadCold, DetailFlags
  <2>. QED  BY <1>1, <2>1, <2>2
<1>2. ASSUME NEW k, Enter(k) PROVE DetailFlags'
  BY <1>1, <1>2 DEF Enter, DetailFlags
<1>3. ASSUME NEW k, OpenDetail(k) PROVE DetailFlags'
  BY <1>2, <1>3 DEF OpenDetail
<1>4. ASSUME NEW k \in Titles, Warm(k) \/ GrowStale(k) \/ Edit(k) PROVE DetailFlags'
  BY <1>4 DEF Warm, GrowStale, Edit, DetailFlags, detail
<1>5. ASSUME NEW k, NEW ok, WarmArrives(k, ok) PROVE DetailFlags'
  BY <1>5 DEF WarmArrives, DetailFlags, detail
<1>6. CASE LeaveDetail
  BY <1>6 DEF LeaveDetail, DetailFlags
<1>7. CASE RefreshItem
  BY <1>7, <1>1, <1>2 DEF RefreshItem, DetailFlags
<1>8. CASE BundleArrives
  <2> DEFINE s == OnlySeason[bundleFetch.key]
  <2>1. CASE /\ refreshed' = FALSE
             /\ ServeCached(s, FALSE, TRUE) \/ LoadCold(s, TRUE)
    BY <1>1, <1>8, <2>1 DEF BundleArrives, DetailFlags
  <2>2. CASE /\ pageLoading' = FALSE
             /\ UNCHANGED <<refreshed, pageError>>
             /\ \/ /\ shelvesLoading' = (bundleFetch.key \in Shelved)
                   /\ collectionLoading' = HasCollection(bundleFetch.key)
                \/ UNCHANGED <<shelvesLoading, collectionLoading>>
    BY <1>0, <1>8, <2>2 DEF BundleArrives, DetailFlags
  <2>. QED  BY <1>8, <2>1, <2>2 DEF BundleArrives
<1>9. CASE BundleFails \/ ShelvesArrive \/ SectionsChange
  BY <1>9 DEF BundleFails, ShelvesArrive, SectionsChange, DetailFlags, detail
<1>10. ASSUME NEW found, CollectionArrives(found) PROVE DetailFlags'
  BY <1>10 DEF CollectionArrives, DetailFlags
<1>11. CASE UNCHANGED detailVars
  BY <1>11 DEF detailVars, detail, DetailFlags
<1>. QED
  BY <1>3, <1>4, <1>5, <1>6, <1>7, <1>8, <1>9, <1>10, <1>11 DEF DetailNext

LEMMA DetailTypesAre == DInv /\ DetailFlags => DetailTypeOK
<1> SUFFICES ASSUME DInv, DetailFlags PROVE DetailTypeOK
  OBVIOUS
<1>1. {related, collection, shelfFetch, collectionFetch} \subseteq Titles \cup {None}
  BY DEF DInv, DetailTyped, PageOfOneItem
<1>2. {pageLoading, pageError, shelvesLoading, collectionLoading, refreshed}
         \subseteq BOOLEAN
  BY Zenon DEF DetailFlags
<1>3. /\ route \in Titles \cup {None}
      /\ item \in [key : Titles, version : 0..MaxEdits] \cup {None}
      /\ bundles \in [Titles -> [version : 0..MaxEdits, stale : BOOLEAN] \cup {None}]
  BY DEF DInv, DetailTyped, Contents, Bundles
<1>. QED  BY <1>1, <1>2, <1>3, Zenon DEF DetailTypeOK, DetailFlags

\* The state of useItemDetailData is what its types say.
THEOREM DetailTypeCorrect == DetailSpec => []DetailTypeOK
<1>1. DetailInit => DetailFlags
  BY DEF DetailInit, DetailFlags
<1>. QED  BY <1>1, DetailInitially, DetailInductive, DetailFlagsKept,
             DetailTypesAre, PTL DEF DetailSpec

-----------------------------------------------------------------------------
(* ResumeOffsets: a resume offset ahead of what the server lists is never  *)
(* undone by an older answer, for any offsets and number of sweeps.        *)

Stops == [offset : Offsets, reset : BOOLEAN]
Requested == [answer : Offsets \cup {None}]

\* The type invariant, spelt out: what is not Boolean, and what is.
Values ==
    /\ written \in Offsets /\ listed \in Offsets
    /\ deckMem \in Offsets \cup {None} /\ deckDisk \in Offsets \cup {None}
    /\ deckView \in Offsets \cup {None}
    /\ bundle \in Offsets \cup {None} /\ pageView \in Offsets \cup {None}
    /\ reported \in Offsets \cup {None}
    /\ stopping \in Stops \cup {None} /\ floor \in Stops \cup {None}
    /\ deckFetch \in Requested \cup {None}
    /\ pageFetch \in Requested \cup {None}
    /\ warmFetch \in Requested \cup {None}
    /\ sweeps \in 0..MaxSweeps

Flags ==
    /\ playing \in BOOLEAN /\ dashboard \in BOOLEAN /\ page \in BOOLEAN
    /\ deckTimer \in BOOLEAN /\ ahead \in BOOLEAN

ResumeTyped == Values /\ Flags

\* What a stop has recorded stays recorded until the item is played again.
StopsInOrder ==
    /\ stopping # None => ~playing /\ written = stopping.offset
    /\ reported # None => ~playing /\ stopping = None /\ written = reported

\* No answer beyond the offset o is to come.
NoneBeyond(o) ==
    /\ listed <= o
    /\ deckFetch \notin {None, Asked} => deckFetch.answer <= o
    /\ pageFetch \notin {None, Asked} => pageFetch.answer <= o
    /\ warmFetch \notin {None, Asked} => warmFetch.answer <= o

\* Nor any but o.
OnlyAnswer(o) ==
    /\ listed = o
    /\ deckFetch \notin {None, Asked} => deckFetch.answer = o
    /\ pageFetch \notin {None, Asked} => pageFetch.answer = o
    /\ warmFetch \notin {None, Asked} => warmFetch.answer = o

\* A floor stands between the reported offset and every answer that could be
\* older; when it is gone, there is no such answer.
Guarded ==
    \/ /\ floor # None /\ floor.offset = reported
       /\ floor.reset \/ NoneBeyond(reported)
    \/ floor = None /\ OnlyAnswer(reported) /\ sweeps = 0

\* What is shown and cached is what was reported.
Views ==
    /\ deckMem \in {None, reported} /\ deckView \in {None, reported}
    /\ bundle \in {None, reported} /\ pageView \in {None, reported}
    /\ sweeps = 0 => deckDisk \in {None, reported}

\* No older offset comes back.
Covered == reported # None /\ ahead => Guarded /\ Views

\* The two copies of the deck come and go together.
TwoCopies == deckMem = None => deckDisk = None

\* The inductive invariant.
RInv == ResumeTyped /\ StopsInOrder /\ Covered /\ TwoCopies

-----------------------------------------------------------------------------

\* The answers that are or may be given, one request after the other.
LEMMA Stale ==
    ASSUME ResumeTyped
    PROVE  /\ \A o \in Offsets : (\A v \in StaleAnswers : v <= o) <=> NoneBeyond(o)
           /\ \A o \in Offsets : StaleAnswers = {o} <=> OnlyAnswer(o)
<1>1. StaleAnswers = {listed}
          \cup {r.answer : r \in {deckFetch, pageFetch, warmFetch} \ {None, Asked}}
  BY DEF StaleAnswers, Requests
<1>2. \A o \in Offsets : (\A v \in StaleAnswers : v <= o) <=> NoneBeyond(o)
  BY <1>1 DEF NoneBeyond
<1>3. \A o \in Offsets : StaleAnswers = {o} <=> OnlyAnswer(o)
  BY <1>1 DEF OnlyAnswer
<1>. QED  BY <1>2, <1>3

\* applyOffsetFloors makes the reported offset of an answer.
LEMMA FlooredReported ==
    ASSUME ResumeTyped, Guarded, reported \in Offsets,
           NEW a \in Offsets,
           NoneBeyond(reported) => a <= reported,
           OnlyAnswer(reported) => a = reported
    PROVE  Floored(a) = reported
BY DEF ResumeTyped, Values, Guarded, Floored, Stops, Offsets

\* An answer that arrives, with its floor, is an offset.
LEMMA FlooredTyped ==
    ASSUME ResumeTyped, NEW a \in Offsets
    PROVE  Floored(a) \in Offsets
BY DEF ResumeTyped, Values, Floored, Stops

-----------------------------------------------------------------------------
(* Every variable keeps its type. *)

LEMMA TypedInitially == ResumeInit => ResumeTyped
<1>1. 0 \in Offsets /\ 0 \in 0..MaxSweeps
  BY ResumeAssumption DEF Offsets
<1>. QED  BY <1>1 DEF ResumeInit, ResumeTyped, Values, Flags

LEMMA ValuesStep == ResumeTyped /\ [ResumeNext]_resumeVars => Values'
<1> SUFFICES ASSUME ResumeTyped, [ResumeNext]_resumeVars PROVE Values'
  OBVIOUS
<1> USE ResumeAssumption DEF ResumeTyped, Values
<1>1. ASSUME NEW o \in Offsets, PlayTo(o) PROVE Values'
    BY <1>1 DEF PlayTo, Forget, deckVars, pageVars
<1>2. ASSUME NEW o \in Offsets, NEW reset \in BOOLEAN, StopAt(o, reset) PROVE Values'
    BY <1>2 DEF StopAt, deckVars, pageVars, Stops
<1>3. CASE StopAcknowledged
    BY <1>3 DEF StopAcknowledged, Stops
<1>4. CASE StopUnreported \/ StopLost \/ Ingest
    BY <1>4 DEF StopUnreported, StopLost, Ingest, deckVars, pageVars
<1>5. CASE FloorExpires
    BY <1>5 DEF FloorExpires, playVars, deckVars, pageVars
<1>6. ASSUME NEW b \in BOOLEAN, OpenDashboard(b) PROVE Values'
    BY <1>6 DEF OpenDashboard, DeckEffect, playVars, pageVars, Asked,
       Requested
<1>7. ASSUME NEW b \in BOOLEAN, RefreshDeck(b) PROVE Values'
    BY <1>7 DEF RefreshDeck, DeckEffect, playVars, pageVars, Asked, Requested
<1>8. ASSUME NEW b \in BOOLEAN, OpenPage(b) PROVE Values'
    BY <1>8 DEF OpenPage, playVars, deckVars, Asked, Requested
<1>9. ASSUME NEW b \in BOOLEAN, Restart(b) PROVE Values'
    BY <1>9 DEF Restart, Forget, Asked, Requested
<1>10. CASE CloseDashboard
    BY <1>10 DEF CloseDashboard, playVars, pageVars
<1>11. CASE SweepDeck
    BY <1>11 DEF SweepDeck, playVars, pageVars
<1>12. CASE ExpireDeck
    BY <1>12 DEF ExpireDeck, playVars, pageVars
<1>13. CASE DeckArrives
    BY <1>13, FlooredTyped DEF DeckArrives, playVars, pageVars, Asked,
       Requested
<1>14. CASE PageArrives
    BY <1>14, FlooredTyped DEF PageArrives, playVars, deckVars, Asked,
       Requested
<1>15. CASE WarmBundleArrives
    BY <1>15, FlooredTyped DEF WarmBundleArrives, playVars, deckVars,
       pageVars, Asked, Requested
<1>16. CASE ClosePage
    BY <1>16 DEF ClosePage, playVars, deckVars
<1>17. CASE WarmBundle
    BY <1>17 DEF WarmBundle, playVars, deckVars, Asked, Requested
<1>18. CASE Answer
    BY <1>18 DEF Answer, playVars, Requested
<1>19. CASE RequestFails
    BY <1>19 DEF RequestFails, playVars
<1>20. CASE UNCHANGED resumeVars
    BY <1>20 DEF resumeVars, playVars, deckVars, pageVars
<1>. QED
  BY <1>1, <1>2, <1>3, <1>4, <1>5, <1>6, <1>7, <1>8, <1>9, <1>10, <1>11,
     <1>12, <1>13, <1>14, <1>15, <1>16, <1>17, <1>18, <1>19, <1>20 DEF
     ResumeNext

LEMMA FlagsStep == ResumeTyped /\ [ResumeNext]_resumeVars => Flags'
<1> SUFFICES ASSUME ResumeTyped, [ResumeNext]_resumeVars PROVE Flags'
  OBVIOUS
<1> USE ResumeAssumption DEF ResumeTyped, Flags
<1>1. ASSUME NEW o \in Offsets, PlayTo(o) PROVE Flags'
    BY <1>1 DEF PlayTo, Forget, deckVars, pageVars
<1>2. ASSUME NEW o \in Offsets, NEW reset \in BOOLEAN, StopAt(o, reset) PROVE Flags'
    BY <1>2 DEF StopAt, deckVars, pageVars
<1>3. CASE StopAcknowledged
    BY <1>3 DEF StopAcknowledged
<1>4. CASE StopUnreported \/ StopLost \/ Ingest
    BY <1>4 DEF StopUnreported, StopLost, Ingest, deckVars, pageVars
<1>5. CASE FloorExpires
    BY <1>5 DEF FloorExpires, playVars, deckVars, pageVars
<1>6. ASSUME NEW b \in BOOLEAN, OpenDashboard(b) PROVE Flags'
    BY <1>6 DEF OpenDashboard, DeckEffect, playVars, pageVars
<1>7. ASSUME NEW b \in BOOLEAN, RefreshDeck(b) PROVE Flags'
    BY <1>7 DEF RefreshDeck, DeckEffect, playVars, pageVars
<1>8. ASSUME NEW b \in BOOLEAN, OpenPage(b) PROVE Flags'
    BY <1>8 DEF OpenPage, playVars, deckVars
<1>9. ASSUME NEW b \in BOOLEAN, Restart(b) PROVE Flags'
    BY <1>9 DEF Restart, Forget
<1>10. CASE CloseDashboard
    BY <1>10 DEF CloseDashboard, playVars, pageVars
<1>11. CASE SweepDeck
    BY <1>11 DEF SweepDeck, playVars, pageVars
<1>12. CASE ExpireDeck
    BY <1>12 DEF ExpireDeck, playVars, pageVars
<1>13. CASE DeckArrives
    BY <1>13 DEF DeckArrives, playVars, pageVars
<1>14. CASE PageArrives
    BY <1>14 DEF PageArrives, playVars, deckVars
<1>15. CASE WarmBundleArrives
    BY <1>15 DEF WarmBundleArrives, playVars, deckVars, pageVars
<1>16. CASE ClosePage
    BY <1>16 DEF ClosePage, playVars, deckVars
<1>17. CASE WarmBundle
    BY <1>17 DEF WarmBundle, playVars, deckVars
<1>18. CASE Answer
    BY <1>18 DEF Answer, playVars
<1>19. CASE RequestFails
    BY <1>19 DEF RequestFails, playVars
<1>20. CASE UNCHANGED resumeVars
    BY <1>20 DEF resumeVars, playVars, deckVars, pageVars
<1>. QED
  BY <1>1, <1>2, <1>3, <1>4, <1>5, <1>6, <1>7, <1>8, <1>9, <1>10, <1>11,
     <1>12, <1>13, <1>14, <1>15, <1>16, <1>17, <1>18, <1>19, <1>20 DEF
     ResumeNext

\* Every variable of the resume offset's model keeps its type.
THEOREM ResumeTypeCorrect == ResumeSpec => []ResumeTypeOK
<1>1. ResumeTyped => ResumeTypeOK
  BY DEF ResumeTyped, Values, Flags, ResumeTypeOK, Requests, Stops, Requested
<1>2. ResumeTyped /\ [ResumeNext]_resumeVars => ResumeTyped'
  BY ValuesStep, FlagsStep DEF ResumeTyped
<1>. QED  BY <1>1, <1>2, TypedInitially, PTL DEF ResumeSpec

-----------------------------------------------------------------------------
(* The order of a stop, and the deck's two copies. *)

LEMMA StopsStep == RInv /\ [ResumeNext]_resumeVars => StopsInOrder'
<1> SUFFICES ASSUME RInv, [ResumeNext]_resumeVars PROVE StopsInOrder'
  OBVIOUS
<1> USE DEF RInv, StopsInOrder
<1>1. ASSUME NEW o \in Offsets, PlayTo(o) PROVE StopsInOrder'
  BY <1>1 DEF PlayTo, Forget
<1>2. ASSUME NEW o \in Offsets, NEW reset \in BOOLEAN, StopAt(o, reset)
      PROVE  StopsInOrder'
  <2>1. reported' = None /\ playing' = FALSE
    BY <1>2 DEF StopAt
  <2>2. stopping'.offset = written'
    BY <1>2 DEF StopAt
  <2>. QED  BY <2>1, <2>2
<1>3. CASE StopAcknowledged
  <2>1. /\ ~playing' /\ stopping' = None
        /\ reported' = stopping.offset /\ written' = stopping.offset
    BY <1>3 DEF StopAcknowledged
  <2>. QED  BY <2>1
<1>4. CASE StopUnreported \/ StopLost \/ Ingest
  BY <1>4 DEF StopUnreported, StopLost, Ingest
<1>5. ASSUME NEW b \in BOOLEAN, Restart(b) PROVE StopsInOrder'
  <2>1. /\ playing' = FALSE /\ stopping' = None /\ written' = written
        /\ reported' \in {reported, None}
    BY <1>5 DEF Restart, Forget
  <2>. QED  BY <2>1
<1>6. CASE UNCHANGED playVars
  BY <1>6 DEF playVars
<1>. QED
  BY <1>1, <1>2, <1>3, <1>4, <1>5, <1>6
     DEF ResumeNext, FloorExpires, OpenDashboard, RefreshDeck, OpenPage,
         CloseDashboard, DeckArrives, SweepDeck, ExpireDeck, ClosePage,
         PageArrives, WarmBundle, WarmBundleArrives, Answer, RequestFails,
         resumeVars

LEMMA CopiesStep == RInv /\ [ResumeNext]_resumeVars => TwoCopies'
<1> SUFFICES ASSUME RInv, [ResumeNext]_resumeVars PROVE TwoCopies'
  OBVIOUS
<1> USE DEF RInv, TwoCopies
<1>1. CASE StopAcknowledged
  <2>1. stopping.offset # None
    BY <1>1, ResumeAssumption DEF StopAcknowledged, ResumeTyped, Values, Stops, Offsets
  <2>. QED  BY <1>1, <2>1 DEF StopAcknowledged
<1>2. ASSUME NEW b \in BOOLEAN, OpenDashboard(b) \/ RefreshDeck(b) \/ Restart(b)
      PROVE  TwoCopies'
  BY <1>2 DEF OpenDashboard, RefreshDeck, Restart
<1>3. CASE DeckArrives \/ SweepDeck \/ ExpireDeck
  BY <1>3 DEF DeckArrives, SweepDeck, ExpireDeck
<1>4. CASE UNCHANGED deckMem /\ UNCHANGED deckDisk
  BY <1>4
<1>. QED
  BY <1>1, <1>2, <1>3, <1>4
     DEF ResumeNext, PlayTo, StopAt, StopUnreported, StopLost, Ingest,
         FloorExpires, OpenPage,
         CloseDashboard, ClosePage, PageArrives, WarmBundle, WarmBundleArrives,
         Answer, RequestFails, resumeVars, deckVars

-----------------------------------------------------------------------------
(* No older offset comes back. *)

\* A floor, and the answers behind it, survive new and abandoned requests.
LEMMA GuardedKept ==
    ASSUME Guarded, floor' = floor, sweeps' = sweeps, listed' = listed,
           reported' = reported,
           deckFetch' \in {deckFetch, None, Asked},
           pageFetch' \in {pageFetch, None, Asked},
           warmFetch' \in {warmFetch, None, Asked}
    PROVE  Guarded'
BY DEF Guarded, NoneBeyond, OnlyAnswer

\* An answer that has arrived is made the reported offset.
LEMMA Arrival ==
    ASSUME RInv, reported # None, ahead,
           NEW r \in {deckFetch, pageFetch, warmFetch}, r # None, r # Asked
    PROVE  Floored(r.answer) = reported
<1>1. r.answer \in Offsets /\ reported \in Offsets /\ ResumeTyped /\ Guarded
  BY DEF RInv, Covered, ResumeTyped, Values, Requested, Asked
<1>2. /\ NoneBeyond(reported) => r.answer <= reported
      /\ OnlyAnswer(reported) => r.answer = reported
  BY DEF NoneBeyond, OnlyAnswer
<1>. QED  BY <1>1, <1>2, FlooredReported

LEMMA CoveredStep == RInv /\ [ResumeNext]_resumeVars => Covered'
<1> SUFFICES ASSUME RInv, [ResumeNext]_resumeVars, reported' # None, ahead'
             PROVE  Guarded' /\ Views'
  BY DEF Covered
<1> DEFINE Before == reported # None /\ ahead /\ Guarded /\ Views
                     /\ ~playing /\ stopping = None /\ written = reported
                     /\ reported' = reported
<1>0. /\ UNCHANGED reported /\ UNCHANGED ahead => Before
      /\ ResumeTyped /\ (deckMem = None => deckDisk = None)
  BY DEF RInv, Covered, StopsInOrder, TwoCopies
<1>1. ASSUME NEW o \in Offsets, PlayTo(o) PROVE FALSE
  BY <1>1 DEF PlayTo, Forget
<1>2. ASSUME NEW o \in Offsets, NEW reset \in BOOLEAN, StopAt(o, reset)
      PROVE  FALSE
  BY <1>0, <1>2 DEF StopAt
<1>3. CASE StopUnreported \/ StopLost
  BY <1>0, <1>3 DEF StopUnreported, StopLost
<1>4. CASE StopAcknowledged
  <2> DEFINE o == stopping.offset
  <2>1. /\ reported' = o /\ floor' = stopping /\ stopping # None
        /\ sweeps' = sweeps + 1
        /\ ahead' = (stopping.reset \/ \A v \in StaleAnswers : v <= o)
        /\ UNCHANGED listed /\ UNCHANGED deckFetch /\ UNCHANGED pageFetch
        /\ UNCHANGED warmFetch
    BY <1>4 DEF StopAcknowledged
  <2>2. o \in Offsets /\ sweeps' # 0
    BY <1>0, <2>1 DEF ResumeTyped, Values, Stops
  <2>3. stopping.reset \/ NoneBeyond(o)
    BY <1>0, <2>1, <2>2, Stale
  <2>4. NoneBeyond(o) => NoneBeyond(reported)'
    BY <2>1 DEF NoneBeyond
  <2>5. Guarded'
    BY <2>1, <2>3, <2>4 DEF Guarded
  <2>6. Views'
    BY <1>4, <2>1, <2>2 DEF StopAcknowledged, Views
  <2>. QED  BY <2>5, <2>6
<1>5. CASE Ingest
  <2>1. Before /\ listed' = reported /\ reported \in Offsets
        /\ UNCHANGED <<floor, sweeps, deckFetch, pageFetch, warmFetch, deckMem,
                       deckView, bundle, pageView, deckDisk>>
    BY <1>0, <1>5 DEF Ingest, deckVars, pageVars, ResumeTyped, Values
  <2>2. Guarded'
    BY <2>1 DEF Guarded, NoneBeyond, OnlyAnswer, Offsets
  <2>3. Views'
    BY <2>1 DEF Views
  <2>. QED  BY <2>2, <2>3
<1>6. CASE FloorExpires
  <2>1. Before /\ sweeps = 0 /\ StaleAnswers = {reported} /\ floor' = None
        /\ UNCHANGED <<playVars, sweeps, deckVars, pageVars>>
    BY <1>0, <1>6 DEF FloorExpires, playVars
  <2>2. OnlyAnswer(reported)
    BY <1>0, <2>1, Stale DEF ResumeTyped, Values
  <2>. QED
    BY <2>1, <2>2 DEF Guarded, Views, OnlyAnswer, playVars, deckVars, pageVars
<1>7. ASSUME NEW b \in BOOLEAN, OpenDashboard(b) PROVE Guarded' /\ Views'
  <2>1. Before /\ UNCHANGED <<listed, floor, sweeps, pageFetch, warmFetch,
                              deckDisk, bundle, pageView>>
        /\ deckMem' = deckMem /\ deckView' \in {deckMem, deckView}
        /\ deckFetch' \in {None, Asked}
    BY <1>0, <1>7 DEF OpenDashboard, DeckEffect, playVars, pageVars
  <2>. QED  BY <2>1, GuardedKept DEF Views
<1>8. ASSUME NEW b \in BOOLEAN, RefreshDeck(b) PROVE Guarded' /\ Views'
  <2>1. Before /\ UNCHANGED <<listed, floor, sweeps, pageFetch, warmFetch,
                              bundle, pageView>>
        /\ deckMem' = None /\ deckDisk' = None /\ deckView' = deckView
        /\ deckFetch' = Asked
    BY <1>0, <1>8 DEF RefreshDeck, DeckEffect, playVars, pageVars
  <2>. QED  BY <2>1, GuardedKept DEF Views
<1>9. ASSUME NEW b \in BOOLEAN, OpenPage(b) PROVE Guarded' /\ Views'
  <2>1. Before /\ UNCHANGED <<listed, floor, sweeps, deckVars, bundle, warmFetch>>
        /\ pageView' = bundle /\ pageFetch' \in {None, Asked}
    BY <1>0, <1>9 DEF OpenPage, playVars
  <2>. QED  BY <2>1, GuardedKept DEF Views, deckVars
<1>10. ASSUME NEW b \in BOOLEAN, Restart(b) PROVE Guarded' /\ Views'
  <2>1. floor = None /\ Before
    BY <1>0, <1>10 DEF Restart, Forget
  <2>2. /\ floor' = None /\ sweeps' = 0 /\ UNCHANGED listed
        /\ deckFetch' \in {None, Asked} /\ pageFetch' = None /\ warmFetch' = None
        /\ deckMem' = deckDisk /\ deckView' = deckDisk /\ deckDisk' = deckDisk
        /\ bundle' = None /\ pageView' = None
    BY <1>10 DEF Restart
  <2>3. OnlyAnswer(reported) /\ sweeps = 0
    BY <2>1 DEF Guarded
  <2>. QED  BY <2>1, <2>2, <2>3 DEF Guarded, Views, OnlyAnswer
<1>11. CASE CloseDashboard
  <2>1. Before /\ UNCHANGED <<listed, floor, sweeps, deckMem, deckDisk, pageVars>>
        /\ deckView' = None /\ deckFetch' = None
    BY <1>0, <1>11 DEF CloseDashboard, playVars
  <2>. QED  BY <2>1, GuardedKept DEF Views, pageVars
<1>12. CASE DeckArrives
  <2>1. Before /\ UNCHANGED <<listed, floor, sweeps, pageVars>>
        /\ deckFetch \notin {None, Asked} /\ deckFetch' = None
        /\ deckMem' = Floored(deckFetch.answer)
        /\ deckView' = deckMem' /\ deckDisk' = deckMem'
    BY <1>0, <1>12 DEF DeckArrives, playVars
  <2>2. deckMem' = reported
    BY <2>1, Arrival
  <2>. QED  BY <2>1, <2>2, GuardedKept DEF Views, pageVars
<1>13. CASE SweepDeck
  <2>1. Before /\ UNCHANGED <<listed, floor, deckView, deckFetch, pageVars>>
        /\ deckMem' = None /\ deckDisk' = None
    BY <1>0, <1>13 DEF SweepDeck, playVars
  <2>2. sweeps # 0
    BY <1>0, <1>13 DEF SweepDeck, ResumeTyped, Values
  <2>. QED  BY <2>1, <2>2 DEF Guarded, NoneBeyond, Views, pageVars
<1>14. CASE ExpireDeck
  <2>1. Before /\ UNCHANGED <<listed, floor, sweeps, deckView, deckFetch, pageVars>>
        /\ deckMem' = None /\ deckDisk' = None
    BY <1>0, <1>14 DEF ExpireDeck, playVars
  <2>. QED  BY <2>1, GuardedKept DEF Views, pageVars
<1>15. CASE ClosePage \/ WarmBundle
  <2>1. Before /\ UNCHANGED <<listed, floor, sweeps, deckVars, bundle>>
        /\ pageView' \in {pageView, None}
        /\ pageFetch' \in {pageFetch, None} /\ warmFetch' \in {warmFetch, Asked}
    BY <1>0, <1>15 DEF ClosePage, WarmBundle, playVars
  <2>. QED  BY <2>1, GuardedKept DEF Views, deckVars
<1>16. CASE PageArrives
  <2>1. Before /\ UNCHANGED <<listed, floor, sweeps, deckVars, warmFetch>>
        /\ pageFetch \notin {None, Asked} /\ pageFetch' = None
        /\ bundle' = Floored(pageFetch.answer) /\ pageView' = bundle'
    BY <1>0, <1>16 DEF PageArrives, playVars
  <2>2. bundle' = reported
    BY <2>1, Arrival
  <2>. QED  BY <2>1, <2>2, GuardedKept DEF Views, deckVars
<1>17. CASE WarmBundleArrives
  <2>1. Before /\ UNCHANGED <<listed, floor, sweeps, deckVars, pageView, pageFetch>>
        /\ warmFetch \notin {None, Asked} /\ warmFetch' = None
        /\ bundle' = Floored(warmFetch.answer)
    BY <1>0, <1>17 DEF WarmBundleArrives, playVars
  <2>2. bundle' = reported
    BY <2>1, Arrival
  <2>. QED  BY <2>1, <2>2, GuardedKept DEF Views, deckVars
<1>18. CASE Answer
  <2>1. Before /\ UNCHANGED <<listed, floor, sweeps, deckMem, deckDisk, deckView,
                              bundle, pageView>>
        /\ deckFetch' \in {deckFetch, [answer |-> listed]}
        /\ pageFetch' \in {pageFetch, [answer |-> listed]}
        /\ warmFetch' \in {warmFetch, [answer |-> listed]}
    BY <1>0, <1>18 DEF Answer, playVars
  <2>2. NoneBeyond(reported) => NoneBeyond(reported)'
    BY <2>1 DEF NoneBeyond
  <2>3. OnlyAnswer(reported) => OnlyAnswer(reported)'
    BY <2>1 DEF OnlyAnswer
  <2>. QED  BY <2>1, <2>2, <2>3 DEF Guarded, Views
<1>19. CASE RequestFails
  <2>1. Before /\ UNCHANGED <<listed, floor, sweeps, deckMem, deckDisk, deckView,
                              bundle, pageView>>
        /\ deckFetch' \in {deckFetch, None}
        /\ pageFetch' \in {pageFetch, None} /\ warmFetch' \in {warmFetch, None}
    BY <1>0, <1>19 DEF RequestFails, playVars
  <2>. QED  BY <2>1, GuardedKept DEF Views
<1>20. CASE UNCHANGED resumeVars
  BY <1>0, <1>20, GuardedKept DEF resumeVars, playVars, deckVars, pageVars, Views
<1>. QED
  BY <1>1, <1>2, <1>3, <1>4, <1>5, <1>6, <1>7, <1>8, <1>9, <1>10, <1>11,
     <1>12, <1>13, <1>14, <1>15, <1>16, <1>17, <1>18, <1>19, <1>20
     DEF ResumeNext

\* No answer the server gave before it had ingested a stop, and no entry
\* cached before, brings an older offset back: on the deck, on the page or in
\* a cache (offsetFloors in cache-invalidators.ts).
THEOREM ShownIsWhatWasReported == ResumeSpec => []ShownIsReported
<1>1. ResumeInit => RInv
  BY TypedInitially DEF ResumeInit, RInv, StopsInOrder, Covered, TwoCopies
<1>2. RInv /\ [ResumeNext]_resumeVars => RInv'
  <2> SUFFICES ASSUME RInv, [ResumeNext]_resumeVars PROVE RInv'
    OBVIOUS
  <2>1. Values' /\ Flags'
    BY ValuesStep, FlagsStep DEF RInv
  <2>. QED
    BY <2>1, StopsStep, CoveredStep, CopiesStep DEF RInv, ResumeTyped
<1>3. RInv => ShownIsReported
  BY DEF RInv, Covered, Views, ShownIsReported
<1>. QED  BY <1>1, <1>2, <1>3, PTL DEF ResumeSpec

-----------------------------------------------------------------------------
(* NativePlayer: when the player comes to rest mpv plays what is open, for *)
(* any items, number of initialisations and of clicks on mute.             *)

\* No two initialisations have one generation, and the one of the present
\* generation, if there is one, is for the item that is open.
GensFit ==
    /\ \A n, m \in inits : n.gen = m.gen => n = m
    /\ \A n \in inits \cup loads : 0 < n.gen /\ n.gen <= initGen
    /\ \A n \in inits : n.gen = initGen => n.item = ratingKey /\ ratingKey # None
    /\ exiting => ratingKey # None

\* The warm-up builds the first handle or none.
WarmUpFirst == builder = WarmUp => mpv = None

PlaysItem == mpv # None /\ mpv.file = ratingKey

\* What waits for the reveal is the present initialisation's.
RevealIsOurs == muteArmed => settling = initGen

\* The user's mute has reached mpv, or will when what waits has run.
MuteArrives ==
    \/ mpv.muted = isMuted /\ calls["mute"] = 0 /\ calls["unmute"] = 0
    \/ calls[MuteTo(isMuted)] > 0 /\ calls[MuteTo(~isMuted)] = 0

\* A closed player.
Closed == ratingKey = None =>
    loads = {} /\ (mpv = None \/ mpv.file = None \/ calls["unload"] > 0)

\* What is true of mpv and the loads at each point of the present
\* initialisation n.
OnCourse(n) ==
    /\ n.at \in {"source", "listen"} => \A l \in loads : l.gen # initGen
    /\ n.at # "source" => RevealIsOurs
    /\ n.at = "load" => \A l \in loads : /\ l.gen = initGen /\ l.item = ratingKey
                                         /\ loads = {l}
    /\ n.at \in {"loaded", "refused", "volume"} => loads = {}
    /\ n.at \in {"loaded", "volume"} => PlaysItem
    /\ n.at \notin {"source", "listen"} => ~Stopping

\* And after it, if it did not fail.
Arrived == /\ loads = {} /\ PlaysItem /\ RevealIsOurs /\ ~Stopping
           /\ ~muteArmed => MuteArrives

Opened ==
    ratingKey # None /\ ~exiting =>
        /\ \A n \in inits : n.gen = initGen => OnCourse(n)
        /\ (\A n \in inits : n.gen # initGen) /\ ~playError => Arrived

\* PlayerTypeOK, one variable at a time.
InitOf(n) == /\ n.gen \in Gens /\ n.item \in Items
             /\ n.at \in {"source", "listen", "load", "loaded", "refused", "volume"}
             /\ n = [gen |-> n.gen, item |-> n.item, at |-> n.at]
LoadOf(l) == /\ l.gen \in Gens /\ l.item \in Items /\ l.at \in {"ensure", "built"}
             /\ l = [gen |-> l.gen, item |-> l.item, at |-> l.at]

PlayerFlags ==
    /\ linux \in BOOLEAN /\ exiting \in BOOLEAN /\ playError \in BOOLEAN
    /\ isMuted \in BOOLEAN /\ muteArmed \in BOOLEAN /\ overtaken \in BOOLEAN

PlayerTyped ==
    /\ PlayerFlags
    /\ ratingKey \in Items \cup {None} /\ initGen \in Gens
    /\ \A n \in inits : InitOf(n)
    /\ \A l \in loads : LoadOf(l)
    /\ settling \in Gens \cup {None} /\ builder \in Gens \cup {None}
    /\ mpv \in Handle \cup {None}
    /\ calls \in [Commands -> 0..MaxCalls]
    /\ toggles \in 0..MaxToggles

LEMMA PlayerTypesAre == PlayerTypeOK <=> PlayerTyped
<1>1. ASSUME NEW n
      PROVE  InitOf(n) <=>
               n \in [gen : Gens, item : Items,
                      at : {"source", "listen", "load", "loaded", "refused", "volume"}]
  BY DEF InitOf
<1>2. ASSUME NEW l
      PROVE  LoadOf(l) <=> l \in [gen : Gens, item : Items, at : {"ensure", "built"}]
  BY DEF LoadOf
<1>3. /\ {linux, exiting, playError, isMuted, muteArmed, overtaken} \subseteq BOOLEAN
        <=> PlayerFlags
      /\ {settling, builder} \subseteq Gens \cup {None}
        <=> settling \in Gens \cup {None} /\ builder \in Gens \cup {None}
  BY Zenon DEF PlayerFlags
<1>. QED  BY <1>1, <1>2, <1>3, Zenon DEF PlayerTypeOK, PlayerTyped

\* The inductive invariant.
PInv == /\ PlayerTyped /\ GensFit /\ WarmUpFirst
        /\ ~overtaken => Closed /\ Opened

LEMMA PlayerInitially == PlayerInit => PInv
<1> SUFFICES ASSUME PlayerInit PROVE PInv
  OBVIOUS
<1>1. PlayerTyped
  <2>1. PlayerFlags
    BY Zenon DEF PlayerInit, PlayerFlags
  <2>2. 0 \in Gens /\ 0 \in 0..MaxToggles /\ 0 \in 0..MaxCalls
    BY PlayerAssumption DEF Gens
  <2>3. calls \in [Commands -> 0..MaxCalls]
    BY <2>2 DEF PlayerInit
  <2>. QED  BY <2>1, <2>2, <2>3, Zenon DEF PlayerInit, PlayerTyped, WarmUp
<1>2. GensFit /\ WarmUpFirst /\ Closed /\ Opened
  BY DEF PlayerInit, GensFit, WarmUpFirst, Closed, Opened
<1>. QED  BY <1>1, <1>2 DEF PInv

\* What becomes of load l.
LoadSteps(l) ==
    BuildMpv(l) \/ MpvBuilt(l) \/ BuildFails(l) \/ LoadFile(l) \/ LoadFails(l)

LEMMA PlayerFlagsStep == PlayerFlags /\ [PlayerNext]_playerVars => PlayerFlags'
<1> SUFFICES ASSUME PlayerFlags, [PlayerNext]_playerVars PROVE PlayerFlags'
  OBVIOUS
<1>. USE DEF PlayerFlags
<1>1. CASE UNCHANGED playerVars
  BY <1>1, Zenon DEF playerVars
<1>2. ASSUME NEW key \in Items, Mount(key) \/ Handoff(key) PROVE PlayerFlags'
  BY <1>2, Zenon DEF Mount, Handoff, Begin, CleanUp
<1>3. CASE Retry \/ Exit \/ Unmount
  BY <1>3, Zenon DEF Retry, Exit, Unmount, Begin, CleanUp, Overtakes
<1>4. CASE ToggleMute \/ Settle
  BY <1>4, Zenon DEF ToggleMute, Settle, ApplyMuted, Mutes
<1>5. ASSUME NEW n \in inits, SourceReady(n) PROVE PlayerFlags'
  BY <1>5, Zenon DEF SourceReady, Overtakes
<1>6. ASSUME NEW n \in inits,
             \/ SourceFails(n) \/ Listening(n) \/ Loaded(n) \/ LoadRefused(n)
             \/ VolumeSet(n)
      PROVE  PlayerFlags'
  BY <1>6, Zenon DEF SourceFails, Listening, Loaded, LoadRefused, VolumeSet, ApplyMuted, Mutes
<1>7. ASSUME NEW l \in loads, LoadSteps(l) PROVE PlayerFlags'
  BY <1>7, Zenon DEF LoadSteps, BuildMpv, MpvBuilt, BuildFails, LoadFile, LoadFails
<1>8. ASSUME NEW ok \in BOOLEAN, WarmedUp(ok) PROVE PlayerFlags'
  BY <1>8, Zenon DEF WarmedUp
<1>9. ASSUME NEW c \in Commands, Runs(c) PROVE PlayerFlags'
  BY <1>9, Zenon DEF Runs
<1>. QED
  BY <1>1, <1>2, <1>3, <1>4, <1>5, <1>6, <1>7, <1>8, <1>9, Zenon DEF PlayerNext, LoadSteps

LEMMA MutingIs ==
    ASSUME NEW handle \in Handle \cup {None}, NEW muted \in BOOLEAN
    PROVE  /\ Muting(handle, muted) \in Handle \cup {None}
           /\ handle = None => Muting(handle, muted) = None
           /\ handle # None =>
                /\ Muting(handle, muted) # None
                /\ Muting(handle, muted).file = handle.file
                /\ Muting(handle, muted).muted = muted
<1>1. CASE handle = None
  BY <1>1 DEF Muting
<1>2. CASE handle # None
  <2>1. handle \in Handle /\ Muting(handle, muted) = [handle EXCEPT !.muted = muted]
    BY <1>2 DEF Muting
  <2>2. Muting(handle, muted) \in Handle
    BY <2>1 DEF Handle
  <2>. QED  BY <1>2, <2>1, <2>2, PlayerAssumption DEF Handle
<1>. QED  BY <1>1, <1>2

LEMMA StoppedIs ==
    ASSUME NEW handle \in Handle \cup {None}
    PROVE  /\ Stopped(handle) \in Handle \cup {None}
           /\ handle = None => Stopped(handle) = None
<1>1. TRUE \in BOOLEAN
  BY Zenon
<1>2. \A muted \in BOOLEAN : [file |-> None, muted |-> muted] \in Handle
  BY DEF Handle
<1>3. [file |-> None, muted |-> TRUE] \in Handle
  BY <1>1, <1>2, Zenon
<1>. QED  BY <1>3 DEF Stopped

\* The actions with flags, said of the other variables.
Begins(gen, key) ==
    /\ gen <= MaxInits /\ initGen' = gen
    /\ inits' = inits \cup {[gen |-> gen, item |-> key, at |-> "source"]}
    /\ ~playError'

LEMMA MountIs ==
    ASSUME NEW key, Mount(key)
    PROVE  /\ ratingKey = None /\ ratingKey' = key /\ Begins(initGen + 1, key)
           /\ UNCHANGED <<exiting, muteArmed, settling, loads, builder, mpv, calls,
                          toggles, overtaken>>
BY Zenon DEF Mount, Begin, Begins

LEMMA HandoffIs ==
    ASSUME NEW key, Handoff(key)
    PROVE  /\ ratingKey \notin {None, key} /\ ratingKey' = key
           /\ Begins(initGen + 2, key) /\ Invokes("stop")
           /\ ~muteArmed' /\ settling' = None
           /\ UNCHANGED <<exiting, loads, builder, mpv, toggles, overtaken>>
BY Zenon DEF Handoff, Begin, Begins, CleanUp

LEMMA RetryPlayIs ==
    ASSUME Retry
    PROVE  /\ ratingKey # None /\ Begins(initGen + 1, ratingKey)
           /\ UNCHANGED <<ratingKey, exiting, muteArmed, settling, loads, builder, mpv,
                          calls, toggles, overtaken>>
BY Zenon DEF Retry, Begin, Begins

LEMMA ExitIs ==
    ASSUME Exit
    PROVE  /\ ratingKey # None /\ exiting' /\ Invokes("unload")
           /\ ~overtaken' => ~overtaken
           /\ UNCHANGED <<ratingKey, initGen, inits, playError, muteArmed, settling,
                          loads, builder, mpv, toggles>>
BY Zenon DEF Exit, Overtakes

LEMMA UnmountIs ==
    ASSUME Unmount
    PROVE  /\ ~exiting' /\ ratingKey' = None /\ ~muteArmed' /\ settling' = None
           /\ initGen < MaxInits /\ initGen' = initGen + 1
           /\ calls["unload"] = 0 /\ calls["stop"] < MaxCalls
           /\ calls' = [calls EXCEPT !["stop"] = @ + 1, !["unload"] = @ + 1]
           /\ ~overtaken' => ~overtaken /\ loads = {}
           /\ UNCHANGED <<inits, loads, builder, mpv, toggles>>
BY Zenon DEF Unmount, CleanUp, Overtakes

LEMMA ToggleMuteIs ==
    ASSUME ToggleMute
    PROVE  /\ ratingKey # None /\ toggles < MaxToggles /\ toggles' = toggles + 1
           /\ isMuted' = ~isMuted
           /\ muteArmed => UNCHANGED <<calls, overtaken>>
           /\ ~muteArmed => Mutes(~isMuted)
           /\ UNCHANGED <<ratingKey, exiting, initGen, inits, playError, muteArmed,
                          settling, loads, builder, mpv>>
BY Zenon DEF ToggleMute, ApplyMuted

LEMMA SettleIs ==
    ASSUME Settle
    PROVE  /\ settling # None /\ settling' = None
           /\ settling = initGen => ~muteArmed' /\ Mutes(isMuted)
           /\ settling # initGen => UNCHANGED <<muteArmed, calls, overtaken>>
           /\ UNCHANGED <<ratingKey, exiting, initGen, inits, playError, isMuted,
                          loads, builder, mpv, toggles>>
BY Zenon DEF Settle

LEMMA SourceReadyIs ==
    ASSUME NEW n, SourceReady(n)
    PROVE  /\ n.at = "source"
           /\ UNCHANGED <<ratingKey, exiting, initGen, playError, isMuted, builder,
                          mpv, toggles>>
           /\ \/ /\ n.gen # initGen /\ Ends(n)
                 /\ UNCHANGED <<muteArmed, settling, loads, calls, overtaken>>
              \/ /\ n.gen = initGen /\ muteArmed' /\ settling' = n.gen
                 /\ Invokes("mute") /\ Goes(n, "listen")
                 /\ UNCHANGED <<loads, overtaken>>
              \/ /\ n.gen = initGen /\ ~muteArmed' /\ settling' = None
                 /\ CallLoad(n) /\ calls' = calls
                 /\ ~overtaken' => ~overtaken /\ loads = {} /\ ~Stopping
<1>1. CASE StopsHere(n)
  BY <1>1, Zenon DEF SourceReady, StopsHere, Superseded
<1>2. CASE ~StopsHere(n) /\ linux
  BY <1>2, Zenon DEF SourceReady, StopsHere, Superseded
<1>3. CASE ~StopsHere(n) /\ ~linux
  BY <1>3, Zenon DEF SourceReady, StopsHere, Superseded, LoadCrosses
<1>. QED  BY <1>1, <1>2, <1>3

LEMMA SourceFailsIs ==
    ASSUME NEW n, SourceFails(n) \/ LoadRefused(n)
    PROVE  /\ Ends(n)
           /\ n.gen = initGen => playError'
           /\ ~playError' => ~playError
           /\ UNCHANGED <<ratingKey, exiting, initGen, isMuted, muteArmed, settling,
                          loads, builder, mpv, calls, toggles, overtaken>>
BY Zenon DEF SourceFails, LoadRefused, Superseded

LEMMA ListeningIs ==
    ASSUME NEW n, Listening(n)
    PROVE  /\ n.at = "listen" /\ CallLoad(n)
           /\ ~overtaken' => ~overtaken /\ loads = {} /\ ~Stopping /\ n.gen = initGen
           /\ UNCHANGED <<ratingKey, exiting, initGen, playError, isMuted, muteArmed,
                          settling, builder, mpv, calls, toggles>>
BY Zenon DEF Listening, Superseded, LoadCrosses

LEMMA LoadedIs ==
    ASSUME NEW n, Loaded(n)
    PROVE  /\ n.at = "loaded"
           /\ \/ n.gen # initGen /\ Ends(n)
              \/ n.gen = initGen /\ Goes(n, "volume")
           /\ UNCHANGED <<ratingKey, exiting, initGen, playError, isMuted, muteArmed,
                          settling, loads, builder, mpv, calls, toggles, overtaken>>
BY Zenon DEF Loaded, Superseded

LEMMA VolumeSetIs ==
    ASSUME NEW n, VolumeSet(n)
    PROVE  /\ n.at = "volume" /\ Ends(n)
           /\ n.gen # initGen => UNCHANGED <<calls, playError, overtaken>>
           /\ n.gen = initGen =>
                 /\ muteArmed \/ mpv = None => UNCHANGED <<calls, overtaken>>
                 /\ ~muteArmed /\ mpv # None => Mutes(isMuted)
           /\ UNCHANGED <<ratingKey, exiting, initGen, isMuted, muteArmed, settling,
                          loads, builder, mpv, toggles>>
BY Zenon DEF VolumeSet, Superseded, ApplyMuted

\* What load l comes to: the handle, and what its initialisation hears.
LEMMA LoadIs ==
    ASSUME NEW l, LoadSteps(l)
    PROVE  /\ BuildMpv(l) => /\ mpv = None /\ builder' = l.gen
                             /\ UNCHANGED <<inits, loads, mpv>>
           /\ MpvBuilt(l) => /\ builder = l.gen /\ builder' = None /\ mpv' = Idle
                             /\ loads' = (loads \ {l}) \cup {[l EXCEPT !.at = "built"]}
                             /\ inits' = inits
           /\ BuildFails(l) => /\ builder' = None /\ loads' = loads \ {l}
                               /\ inits' = Refused(l) /\ mpv' = mpv
           /\ LoadFile(l) => /\ builder' = builder /\ loads' = loads \ {l}
                             /\ mpv # None
                             /\ mpv' = [file |-> l.item, muted |-> linux \/ mpv.muted]
                             /\ inits' = {IF n.gen = l.gen
                                          THEN [n EXCEPT !.at = "loaded"] ELSE n :
                                             n \in inits}
           /\ LoadFails(l) => /\ builder' = builder /\ loads' = loads \ {l}
                              /\ inits' = Refused(l)
                              /\ mpv = None => mpv' = None
                              /\ mpv # None =>
                                   \E played \in {mpv.file, l.item},
                                      muted \in {mpv.muted, linux \/ mpv.muted} :
                                     mpv' = [file |-> played, muted |-> muted]
           /\ UNCHANGED <<ratingKey, exiting, initGen, playError, isMuted, muteArmed,
                          settling, calls, toggles, overtaken>>
BY Zenon DEF LoadSteps, BuildMpv, MpvBuilt, BuildFails, LoadFile, LoadFails

LEMMA RunsIs ==
    ASSUME NEW c \in Commands, Runs(c)
    PROVE  /\ calls[c] > 0 /\ calls' = [calls EXCEPT ![c] = @ - 1]
           /\ c = "stop" => mpv' = Stopped(mpv)
           /\ c = "unload" => mpv' = None
           /\ c \in {"mute", "unmute"} => mpv' = Muting(mpv, c = "mute")
           /\ UNCHANGED <<ratingKey, exiting, initGen, inits, playError, isMuted,
                          muteArmed, settling, loads, builder, toggles, overtaken>>
BY DEF Runs

LEMMA WarmedUpIs ==
    ASSUME NEW ok \in BOOLEAN, WarmedUp(ok)
    PROVE  /\ builder = WarmUp /\ builder' = None
           /\ mpv' = mpv \/ mpv' = Idle
           /\ UNCHANGED <<ratingKey, exiting, initGen, inits, playError, isMuted,
                          muteArmed, settling, loads, calls, toggles, overtaken>>
BY Zenon DEF WarmedUp

LEMMA SetOfInits ==
    ASSUME PlayerTyped
    PROVE  \A at \in {"source", "listen", "load", "loaded", "refused", "volume"} :
             \A n \in inits :
               LET m == [n EXCEPT !.at = at] IN
               InitOf(m) /\ m.gen = n.gen /\ m.item = n.item /\ m.at = at
BY DEF PlayerTyped, InitOf

LEMMA SetOfLoads ==
    ASSUME PlayerTyped
    PROVE  \A l \in loads :
             LET m == [l EXCEPT !.at = "built"] IN
             LoadOf(m) /\ m.gen = l.gen /\ m.item = l.item /\ m.at = "built"
BY DEF PlayerTyped, LoadOf

\* A command is invoked, and no other kind of command.
LEMMA InvokesIs ==
    ASSUME PlayerTyped, NEW c \in Commands, Invokes(c)
    PROVE  /\ calls' \in [Commands -> 0..MaxCalls]
           /\ calls[c] \in Nat /\ calls'[c] = calls[c] + 1
           /\ \A d \in Commands \ {c} : calls'[d] = calls[d]
BY PlayerAssumption DEF PlayerTyped, Invokes

\* A mute is sent, and the last to run will be what it says.
LEMMA MutesIs ==
    ASSUME PlayerTyped, NEW muted \in BOOLEAN, Mutes(muted)
    PROVE  /\ calls' \in [Commands -> 0..MaxCalls]
           /\ calls'["stop"] = calls["stop"] /\ calls'["unload"] = calls["unload"]
           /\ ~overtaken' => /\ ~overtaken
                             /\ calls'[MuteTo(muted)] > 0 /\ calls'[MuteTo(~muted)] = 0
<1>1. \/ MuteTo(muted) = "mute" /\ MuteTo(~muted) = "unmute"
      \/ MuteTo(muted) = "unmute" /\ MuteTo(~muted) = "mute"
  BY Zenon DEF MuteTo
<1>2. ~overtaken' => ~overtaken /\ ~(calls[MuteTo(~muted)] > 0)
  BY Zenon DEF Mutes
<1>3. Invokes(MuteTo(muted))
  BY Zenon DEF Mutes
<1>4. calls["mute"] \in Nat /\ calls["unmute"] \in Nat
  BY PlayerAssumption DEF PlayerTyped, Commands
<1>5. MuteTo(muted) \in Commands
  BY <1>1 DEF Commands
<1>6. \A d \in Commands \ {MuteTo(muted)} : calls'[d] = calls[d]
  BY <1>3, <1>5, InvokesIs
<1>7. /\ calls' \in [Commands -> 0..MaxCalls]
      /\ calls'[MuteTo(muted)] = calls[MuteTo(muted)] + 1
  BY <1>3, <1>5, InvokesIs
<1>8. /\ calls'["stop"] = calls["stop"] /\ calls'["unload"] = calls["unload"]
      /\ calls'[MuteTo(~muted)] = calls[MuteTo(~muted)]
  BY <1>1, <1>6 DEF Commands
<1>. QED  BY <1>1, <1>2, <1>4, <1>7, <1>8

\* A command runs, and no other kind of command.
LEMMA RunsCalls ==
    ASSUME PlayerTyped, NEW c \in Commands, Runs(c)
    PROVE  /\ calls' \in [Commands -> 0..MaxCalls]
           /\ calls[c] \in Nat \ {0} /\ calls'[c] = calls[c] - 1
           /\ \A d \in Commands \ {c} : calls'[d] = calls[d]
<1>1. calls[c] > 0 /\ calls' = [calls EXCEPT ![c] = @ - 1]
  BY RunsIs
<1>. QED  BY <1>1, PlayerAssumption DEF PlayerTyped

\* Both commands of an unmount are invoked.
LEMMA UnmountCalls ==
    ASSUME PlayerTyped, Unmount
    PROVE  /\ calls' \in [Commands -> 0..MaxCalls]
           /\ calls'["unload"] > 0
<1>1. /\ calls["unload"] = 0 /\ calls["stop"] < MaxCalls
      /\ calls' = [calls EXCEPT !["stop"] = @ + 1, !["unload"] = @ + 1]
  BY UnmountIs
<1>. QED  BY <1>1, PlayerAssumption DEF PlayerTyped, Commands

LEMMA PlayerTypesStep ==
    PlayerTyped /\ [PlayerNext]_playerVars => PlayerTyped'
<1> SUFFICES ASSUME PlayerTyped, [PlayerNext]_playerVars PROVE PlayerTyped'
  OBVIOUS
<1>0. /\ PlayerFlags /\ PlayerFlags' /\ MaxInits \in Nat /\ MaxToggles \in Nat
      /\ initGen \in Nat /\ toggles \in Nat
  BY PlayerFlagsStep, PlayerAssumption DEF PlayerTyped, Gens
<1>a. Idle \in Handle
  BY DEF Idle, Handle
<1>m. \A muted \in BOOLEAN : Muting(mpv, muted) \in Handle \cup {None}
  BY MutingIs DEF PlayerTyped
<1>k. "stop" \in Commands /\ "unload" \in Commands /\ "mute" \in Commands
  BY DEF Commands
<1>b. ASSUME NEW gen \in Nat, NEW key \in Items, Begins(gen, key)
      PROVE  initGen' \in Gens /\ \A n \in inits' : InitOf(n)
  BY <1>0, <1>b DEF Begins, PlayerTyped, InitOf, Gens
<1>c. ASSUME NEW n \in inits, NEW at \in {"listen", "load", "volume"}, Ends(n) \/ Goes(n, at)
      PROVE  \A m \in inits' : InitOf(m)
  BY <1>c, SetOfInits DEF Ends, Goes, PlayerTyped
<1>d. ASSUME NEW n \in inits, CallLoad(n)
      PROVE  (\A m \in inits' : InitOf(m)) /\ \A l \in loads' : LoadOf(l)
  BY <1>d, <1>c DEF CallLoad, PlayerTyped, InitOf, LoadOf
<1>1. CASE UNCHANGED playerVars
  <2>1. UNCHANGED <<ratingKey, initGen, inits, settling, loads, builder, mpv, calls,
                    toggles>>
    BY <1>1, Zenon DEF playerVars
  <2>. QED  BY <1>0, <2>1 DEF PlayerTyped
<1>2. ASSUME NEW key \in Items, Mount(key) PROVE PlayerTyped'
  BY <1>0, <1>2, <1>b, MountIs DEF PlayerTyped
<1>3. ASSUME NEW key \in Items, Handoff(key) PROVE PlayerTyped'
  <2>1. calls' \in [Commands -> 0..MaxCalls]
    BY <1>3, <1>k, HandoffIs, InvokesIs
  <2>. QED  BY <1>0, <1>3, <1>b, <2>1, HandoffIs DEF PlayerTyped
<1>4. CASE Retry
  BY <1>0, <1>4, <1>b, RetryPlayIs DEF PlayerTyped
<1>5. CASE Exit
  <2>1. calls' \in [Commands -> 0..MaxCalls]
    BY <1>5, <1>k, ExitIs, InvokesIs
  <2>. QED  BY <1>0, <1>5, <2>1, ExitIs DEF PlayerTyped
<1>6. CASE Unmount
  BY <1>0, <1>6, UnmountIs, UnmountCalls DEF PlayerTyped, Gens
<1>7. CASE ToggleMute
  <2>1. (~isMuted) \in BOOLEAN
    BY Zenon
  <2>2. calls' \in [Commands -> 0..MaxCalls]
    BY <1>7, <2>1, ToggleMuteIs, MutesIs, Zenon DEF PlayerTyped
  <2>. QED  BY <1>0, <1>7, <2>2, ToggleMuteIs DEF PlayerTyped
<1>8. CASE Settle
  <2>1. calls' \in [Commands -> 0..MaxCalls]
    BY <1>0, <1>8, SettleIs, MutesIs, Zenon DEF PlayerTyped, PlayerFlags
  <2>. QED  BY <1>0, <1>8, <2>1, SettleIs DEF PlayerTyped
<1>9. ASSUME NEW n \in inits, SourceReady(n) PROVE PlayerTyped'
  <2>1. (\A m \in inits' : InitOf(m)) /\ \A l \in loads' : LoadOf(l)
    BY <1>9, <1>c, <1>d, SourceReadyIs DEF PlayerTyped
  <2>2. Invokes("mute") => calls' \in [Commands -> 0..MaxCalls]
    BY <1>k, InvokesIs
  <2>3. calls' \in [Commands -> 0..MaxCalls] /\ settling' \in Gens \cup {None}
    BY <1>9, <2>2, SourceReadyIs DEF PlayerTyped, InitOf
  <2>. QED  BY <1>0, <1>9, <2>1, <2>3, SourceReadyIs DEF PlayerTyped
<1>10. ASSUME NEW n \in inits, SourceFails(n) \/ LoadRefused(n) PROVE PlayerTyped'
  BY <1>0, <1>10, <1>c, SourceFailsIs DEF PlayerTyped
<1>11. ASSUME NEW n \in inits, Listening(n) PROVE PlayerTyped'
  BY <1>0, <1>11, <1>d, ListeningIs DEF PlayerTyped
<1>12. ASSUME NEW n \in inits, Loaded(n) PROVE PlayerTyped'
  BY <1>0, <1>12, <1>c, LoadedIs DEF PlayerTyped
<1>13. ASSUME NEW n \in inits, VolumeSet(n) PROVE PlayerTyped'
  <2>1. calls' \in [Commands -> 0..MaxCalls]
    BY <1>0, <1>13, VolumeSetIs, MutesIs, Zenon DEF PlayerTyped, PlayerFlags
  <2>. QED  BY <1>0, <1>13, <1>c, <2>1, VolumeSetIs DEF PlayerTyped
<1>14. ASSUME NEW l \in loads, BuildMpv(l) PROVE PlayerTyped'
  BY <1>0, <1>14, LoadIs DEF LoadSteps, PlayerTyped, LoadOf
<1>15. ASSUME NEW l \in loads, MpvBuilt(l) PROVE PlayerTyped'
  BY <1>0, <1>15, <1>a, LoadIs, SetOfLoads DEF LoadSteps, PlayerTyped
<1>e. ASSUME NEW l, inits' = Refused(l) PROVE \A n \in inits' : InitOf(n)
  BY <1>e, SetOfInits DEF Refused, PlayerTyped
<1>16. ASSUME NEW l \in loads, BuildFails(l) PROVE PlayerTyped'
  BY <1>0, <1>16, <1>e, LoadIs DEF LoadSteps, PlayerTyped
<1>17. ASSUME NEW l \in loads, LoadFile(l) PROVE PlayerTyped'
  <2>1. /\ mpv # None /\ mpv' = [file |-> l.item, muted |-> linux \/ mpv.muted]
        /\ inits' = {IF n.gen = l.gen THEN [n EXCEPT !.at = "loaded"] ELSE n : n \in inits}
    BY <1>17, LoadIs DEF LoadSteps
  <2>2. (linux \/ mpv.muted) \in BOOLEAN
    BY Zenon
  <2>3. mpv' \in Handle
    BY <2>1, <2>2 DEF Handle, PlayerTyped, LoadOf
  <2>4. \A n \in inits' : InitOf(n)
    BY <2>1, SetOfInits DEF PlayerTyped
  <2>. QED  BY <1>0, <1>17, <2>3, <2>4, LoadIs DEF LoadSteps, PlayerTyped
<1>18. ASSUME NEW l \in loads, LoadFails(l) PROVE PlayerTyped'
  <2>1. mpv' \in Handle \cup {None}
    <3>1. CASE mpv = None
      BY <1>18, <3>1, LoadIs DEF LoadSteps
    <3>2. CASE mpv # None
      <4>1. PICK played \in {mpv.file, l.item}, muted \in {mpv.muted, linux \/ mpv.muted} :
                   mpv' = [file |-> played, muted |-> muted]
        BY <1>18, <3>2, LoadIs DEF LoadSteps
      <4>2. mpv.muted \in BOOLEAN /\ mpv.file \in Items \cup {None} /\ l.item \in Items
        BY <3>2 DEF PlayerTyped, Handle, LoadOf
      <4>3. (linux \/ mpv.muted) \in BOOLEAN
        BY Zenon
      <4>4. muted \in BOOLEAN
        BY <4>2, <4>3, Zenon
      <4>. QED  BY <4>1, <4>2, <4>4 DEF Handle
    <3>. QED  BY <3>1, <3>2
  <2>. QED  BY <1>0, <1>18, <1>e, <2>1, LoadIs DEF LoadSteps, PlayerTyped
<1>19. ASSUME NEW ok \in BOOLEAN, WarmedUp(ok) PROVE PlayerTyped'
  BY <1>0, <1>19, <1>a, WarmedUpIs DEF PlayerTyped
<1>20. ASSUME NEW c \in Commands, Runs(c) PROVE PlayerTyped'
  <2>1. mpv' \in Handle \cup {None}
    <3>1. CASE c = "stop"
      BY <1>20, <3>1, RunsIs, StoppedIs DEF PlayerTyped
    <3>2. CASE c = "unload"
      BY <1>20, <3>2, RunsIs
    <3>3. CASE c \in {"mute", "unmute"}
      <4>1. (c = "mute") \in BOOLEAN
        BY Zenon
      <4>2. mpv' = Muting(mpv, c = "mute")
        BY <1>20, <3>3, RunsIs
      <4>. QED  BY <1>m, <4>1, <4>2, Zenon
    <3>. QED  BY <3>1, <3>2, <3>3 DEF Commands
  <2>. QED  BY <1>0, <1>20, <2>1, RunsIs, RunsCalls DEF PlayerTyped
<1>. QED
  BY <1>1, <1>2, <1>3, <1>4, <1>5, <1>6, <1>7, <1>8, <1>9, <1>10, <1>11, <1>12,
     <1>13, <1>14, <1>15, <1>16, <1>17, <1>18, <1>19, <1>20, Zenon DEF PlayerNext

\* What an initialisation comes to keeps its generation and its item.
Derived == /\ \A m \in inits' : \E n \in inits : m.gen = n.gen /\ m.item = n.item
           /\ \A m, k \in inits' : m.gen = k.gen => m = k

LEMMA DerivedOne ==
    ASSUME PlayerTyped, GensFit, NEW n \in inits,
           NEW at \in {"listen", "load", "volume"}, Ends(n) \/ Goes(n, at)
    PROVE  Derived
<1>1. CASE Ends(n)
  BY <1>1 DEF Ends, Derived, GensFit
<1>2. CASE Goes(n, at)
  <2>. DEFINE m == [n EXCEPT !.at = at]
  <2>1. m.gen = n.gen /\ m.item = n.item
    BY SetOfInits
  <2>2. inits' = (inits \ {n}) \cup {m}
    BY <1>2 DEF Goes
  <2>. HIDE DEF m
  <2>. QED  BY <2>1, <2>2 DEF Derived, GensFit
<1>. QED  BY <1>1, <1>2

LEMMA DerivedAll ==
    ASSUME PlayerTyped, GensFit, NEW l, NEW at \in {"refused", "loaded"},
           inits' = {IF n.gen = l.gen THEN [n EXCEPT !.at = at] ELSE n : n \in inits}
    PROVE  Derived
<1>1. \A m \in inits' : \E n \in inits :
         m.gen = n.gen /\ m.item = n.item
         /\ m = IF n.gen = l.gen THEN [n EXCEPT !.at = at] ELSE n
  <2>1. \A n \in inits : [n EXCEPT !.at = at].gen = n.gen
                        /\ [n EXCEPT !.at = at].item = n.item
    BY SetOfInits
  <2>2. ASSUME NEW m \in inits'
        PROVE  \E n \in inits : m = IF n.gen = l.gen THEN [n EXCEPT !.at = at] ELSE n
    OBVIOUS
  <2>3. ASSUME NEW n \in inits, NEW m, m = IF n.gen = l.gen THEN [n EXCEPT !.at = at] ELSE n
        PROVE  m.gen = n.gen /\ m.item = n.item
    <3>1. CASE n.gen = l.gen
      BY <2>1, <2>3, <3>1, Zenon
    <3>2. CASE n.gen # l.gen
      BY <2>3, <3>2, Zenon
    <3>. QED  BY <3>1, <3>2
  <2>4. ASSUME NEW m \in inits'
        PROVE  \E n \in inits :
                 m.gen = n.gen /\ m.item = n.item
                 /\ m = IF n.gen = l.gen THEN [n EXCEPT !.at = at] ELSE n
    <3>1. PICK n \in inits : m = IF n.gen = l.gen THEN [n EXCEPT !.at = at] ELSE n
      BY <2>2, Zenon
    <3>2. m.gen = n.gen /\ m.item = n.item
      BY <2>3, <3>1, Zenon
    <3>. QED  BY <3>1, <3>2, Zenon
  <2>. QED  BY <2>4, Zenon
<1>. QED  BY <1>1 DEF Derived, GensFit

LEMMA RefusedIs ==
    ASSUME NEW l
    PROVE  Refused(l)
             = {IF n.gen = l.gen THEN [n EXCEPT !.at = "refused"] ELSE n : n \in inits}
BY DEF Refused

LEMMA DerivedFits ==
    ASSUME PlayerTyped, GensFit, Derived,
           \A l \in loads' : \E m \in inits \cup loads : l.gen = m.gen,
           UNCHANGED <<ratingKey, initGen>>, exiting' => ratingKey # None
    PROVE  GensFit'
BY DEF Derived, GensFit

LEMMA BeginsFits ==
    ASSUME PlayerTyped, GensFit, NEW gen, NEW key,
           gen \in {initGen + 1, initGen + 2}, Begins(gen, key), ratingKey' = key, key # None,
           loads' = loads
    PROVE  GensFit'
<1>1. initGen \in Nat /\ gen \in Nat /\ initGen < gen /\ initGen' = gen
  BY DEF PlayerTyped, Gens, Begins
<1>. DEFINE m == [gen |-> gen, item |-> key, at |-> "source"]
<1>2. inits' = inits \cup {m} /\ m.gen = gen /\ m.item = key
  BY DEF Begins
<1>. HIDE DEF m
<1>3. \A n \in inits \cup loads : n.gen \in Nat /\ 0 < n.gen /\ n.gen < gen
  BY <1>1 DEF PlayerTyped, GensFit, InitOf, LoadOf, Gens
<1>. QED  BY <1>1, <1>2, <1>3 DEF GensFit

LEMMA GensFitStep ==
    PlayerTyped /\ GensFit /\ [PlayerNext]_playerVars => GensFit'
<1> SUFFICES ASSUME PlayerTyped, GensFit, [PlayerNext]_playerVars PROVE GensFit'
  OBVIOUS
<1>0. \A key \in Items : key # None
  BY PlayerAssumption
<1>1. CASE UNCHANGED playerVars
  <2>1. UNCHANGED <<ratingKey, exiting, initGen, inits, loads>>
    BY <1>1, Zenon DEF playerVars
  <2>. QED  BY <2>1 DEF GensFit
<1>2. ASSUME NEW key \in Items, Mount(key) \/ Handoff(key) PROVE GensFit'
  BY <1>0, <1>2, MountIs, HandoffIs, BeginsFits
<1>3. CASE Retry
  BY <1>3, RetryPlayIs, BeginsFits
<1>4. CASE Exit
  BY <1>4, ExitIs DEF GensFit
<1>5. CASE Unmount
  BY <1>5, UnmountIs DEF GensFit, PlayerTyped, Gens, InitOf, LoadOf
<1>6. CASE ToggleMute \/ Settle
  BY <1>6, ToggleMuteIs, SettleIs DEF GensFit
<1>c. ASSUME NEW n \in inits, CallLoad(n)
      PROVE  Derived /\ \A l \in loads' : \E m \in inits \cup loads : l.gen = m.gen
  BY <1>c, DerivedOne DEF CallLoad
<1>e. exiting => ratingKey # None
  BY DEF GensFit
<1>7. ASSUME NEW n \in inits, SourceReady(n) PROVE GensFit'
  BY <1>7, <1>c, <1>e, SourceReadyIs, DerivedOne, DerivedFits
<1>8. ASSUME NEW n \in inits, SourceFails(n) \/ LoadRefused(n) PROVE GensFit'
  BY <1>8, <1>e, SourceFailsIs, DerivedOne, DerivedFits
<1>9. ASSUME NEW n \in inits, Listening(n) PROVE GensFit'
  BY <1>9, <1>c, <1>e, ListeningIs, DerivedFits
<1>10. ASSUME NEW n \in inits, Loaded(n) \/ VolumeSet(n) PROVE GensFit'
  BY <1>10, <1>e, LoadedIs, VolumeSetIs, DerivedOne, DerivedFits
<1>11. ASSUME NEW l \in loads, BuildMpv(l) \/ MpvBuilt(l) PROVE GensFit'
  <2>1. CASE BuildMpv(l)
    BY <2>1, LoadIs DEF LoadSteps, GensFit
  <2>2. CASE MpvBuilt(l)
    <3>. DEFINE m == [l EXCEPT !.at = "built"]
    <3>1. m.gen = l.gen
      BY SetOfLoads
    <3>2. loads' = (loads \ {l}) \cup {m}
      BY <2>2, LoadIs DEF LoadSteps
    <3>. HIDE DEF m
    <3>. QED  BY <2>2, <3>1, <3>2, LoadIs DEF LoadSteps, GensFit
  <2>. QED  BY <1>11, <2>1, <2>2
<1>12. ASSUME NEW l \in loads, BuildFails(l) \/ LoadFile(l) \/ LoadFails(l) PROVE GensFit'
  <2>1. LoadSteps(l) /\ loads' = loads \ {l} /\ Derived
    BY <1>12, LoadIs, RefusedIs, DerivedAll DEF LoadSteps
  <2>. QED  BY <1>e, <2>1, LoadIs, DerivedFits
<1>13. ASSUME NEW ok \in BOOLEAN, WarmedUp(ok) PROVE GensFit'
  BY <1>13, WarmedUpIs DEF GensFit
<1>14. ASSUME NEW c \in Commands, Runs(c) PROVE GensFit'
  BY <1>14, RunsIs DEF GensFit
<1>. QED
  BY <1>1, <1>2, <1>3, <1>4, <1>5, <1>6, <1>7, <1>8, <1>9, <1>10, <1>11, <1>12, <1>13,
     <1>14, Zenon DEF PlayerNext

LEMMA WarmUpStep ==
    PlayerTyped /\ GensFit /\ WarmUpFirst /\ [PlayerNext]_playerVars => WarmUpFirst'
<1> SUFFICES ASSUME PlayerTyped, GensFit, WarmUpFirst, [PlayerNext]_playerVars
             PROVE  WarmUpFirst'
  OBVIOUS
<1>0. None # WarmUp
  BY PlayerAssumption DEF WarmUp, Gens
<1>1. CASE UNCHANGED playerVars
  BY <1>1, Zenon DEF WarmUpFirst, playerVars
<1>2. ASSUME NEW key \in Items, Mount(key) \/ Handoff(key) PROVE WarmUpFirst'
  BY <1>2, MountIs, HandoffIs DEF WarmUpFirst
<1>3. CASE Retry \/ Exit \/ Unmount
  BY <1>3, RetryPlayIs, ExitIs, UnmountIs, Zenon DEF WarmUpFirst
<1>4. CASE ToggleMute \/ Settle
  BY <1>4, ToggleMuteIs, SettleIs, Zenon DEF WarmUpFirst
<1>5. ASSUME NEW n \in inits, SourceReady(n) PROVE WarmUpFirst'
  BY <1>5, SourceReadyIs, Zenon DEF WarmUpFirst
<1>6. ASSUME NEW n \in inits,
             \/ SourceFails(n) \/ Listening(n) \/ Loaded(n) \/ LoadRefused(n)
             \/ VolumeSet(n)
      PROVE  WarmUpFirst'
  BY <1>6, SourceFailsIs, ListeningIs, LoadedIs, VolumeSetIs, Zenon DEF WarmUpFirst
<1>7. ASSUME NEW l \in loads, LoadSteps(l) PROVE WarmUpFirst'
  <2>1. l.gen # WarmUp
    BY DEF GensFit, WarmUp
  <2>. QED  BY <1>0, <1>7, <2>1, LoadIs, Zenon DEF LoadSteps, WarmUpFirst
<1>8. ASSUME NEW ok \in BOOLEAN, WarmedUp(ok) PROVE WarmUpFirst'
  BY <1>0, <1>8, WarmedUpIs DEF WarmUpFirst
<1>9. ASSUME NEW c \in Commands, Runs(c) PROVE WarmUpFirst'
  BY <1>9, RunsIs DEF WarmUpFirst, Commands, Stopped, Muting
<1>. QED
  BY <1>1, <1>2, <1>3, <1>4, <1>5, <1>6, <1>7, <1>8, <1>9, Zenon DEF PlayerNext, LoadSteps

\* A mute that runs leaves the file, and there is still a handle or none.
LEMMA RunsMute ==
    ASSUME PlayerTyped, NEW c \in {"mute", "unmute"}, Runs(c)
    PROVE  /\ mpv' = None <=> mpv = None
           /\ mpv # None => mpv'.file = mpv.file /\ mpv'.muted = (c = "mute")
<1>1. (c = "mute") \in BOOLEAN /\ c \in Commands
  BY Zenon DEF Commands
<1>2. mpv' = Muting(mpv, c = "mute")
  BY <1>1, RunsIs
<1>. QED  BY <1>1, <1>2, MutingIs, Zenon DEF PlayerTyped

LEMMA ClosedStep ==
    ASSUME PlayerTyped, GensFit, Closed, ~overtaken', [PlayerNext]_playerVars
    PROVE  Closed'
<1>0. \A key \in Items : key # None
  BY PlayerAssumption
<1>k. "unload" \in Commands /\ "mute" \in Commands
  BY DEF Commands
<1>1. CASE UNCHANGED playerVars
  <2>1. UNCHANGED <<ratingKey, loads, mpv, calls>>
    BY <1>1, Zenon DEF playerVars
  <2>. QED  BY <2>1 DEF Closed
<1>2. ASSUME NEW key \in Items, Mount(key) \/ Handoff(key) PROVE Closed'
  BY <1>0, <1>2, MountIs, HandoffIs DEF Closed
<1>3. CASE Retry \/ Exit \/ ToggleMute
  BY <1>3, RetryPlayIs, ExitIs, ToggleMuteIs, Zenon DEF Closed
<1>4. CASE Unmount
  BY <1>4, UnmountIs, UnmountCalls DEF Closed
<1>5. CASE Settle
  <2>1. isMuted \in BOOLEAN
    BY Zenon DEF PlayerTyped, PlayerFlags
  <2>2. calls'["unload"] = calls["unload"] \/ calls' = calls
    BY <1>5, <2>1, SettleIs, MutesIs, Zenon
  <2>3. calls'["unload"] = calls["unload"]
    BY <2>2
  <2>. QED  BY <1>5, <2>3, SettleIs DEF Closed
<1>o. \A n \in inits : n.gen = initGen => ratingKey # None
  BY DEF GensFit
<1>6. ASSUME NEW n \in inits, SourceReady(n) PROVE Closed'
  BY <1>o, <1>6, SourceReadyIs, Zenon DEF Closed
<1>7. ASSUME NEW n \in inits,
             SourceFails(n) \/ LoadRefused(n) \/ Listening(n) \/ Loaded(n) \/ VolumeSet(n)
      PROVE  Closed'
  <2>1. CASE SourceFails(n) \/ LoadRefused(n)
    BY <2>1, SourceFailsIs, Zenon DEF Closed
  <2>2. CASE Listening(n)
    BY <1>o, <2>2, ListeningIs, Zenon DEF Closed
  <2>3. CASE Loaded(n)
    BY <2>3, LoadedIs, Zenon DEF Closed
  <2>4. CASE VolumeSet(n)
    BY <1>o, <2>4, VolumeSetIs, Zenon DEF Closed
  <2>. QED  BY <1>7, <2>1, <2>2, <2>3, <2>4
<1>8. ASSUME NEW l \in loads, LoadSteps(l) PROVE Closed'
  <2>1. ratingKey # None /\ ratingKey' = ratingKey
    BY <1>8, LoadIs DEF Closed
  <2>. QED  BY <2>1 DEF Closed
<1>9. ASSUME NEW ok \in BOOLEAN, WarmedUp(ok) PROVE Closed'
  BY <1>9, WarmedUpIs DEF Closed, Idle
<1>10. ASSUME NEW c \in Commands, Runs(c) PROVE Closed'
  <2>1. UNCHANGED <<ratingKey, loads>>
    BY <1>10, RunsIs
  <2>2. CASE c = "unload"
    BY <1>10, <2>1, <2>2, RunsIs DEF Closed
  <2>3. CASE c = "stop"
    <3>1. mpv' = Stopped(mpv) /\ calls'["unload"] = calls["unload"]
      BY <1>10, <1>k, <2>3, RunsIs, RunsCalls
    <3>2. mpv' = None \/ mpv'.file = None
      BY <3>1 DEF Stopped
    <3>. QED  BY <2>1, <3>2 DEF Closed
  <2>4. CASE c \in {"mute", "unmute"}
    <3>1. calls'["unload"] = calls["unload"]
      BY <1>10, <1>k, <2>4, RunsCalls
    <3>2. mpv = None \/ mpv.file = None => mpv' = None \/ mpv'.file = None
      BY <1>10, <2>4, RunsMute
    <3>. QED  BY <2>1, <3>1, <3>2 DEF Closed
  <2>. QED  BY <2>2, <2>3, <2>4 DEF Commands
<1>. QED
  BY <1>1, <1>2, <1>3, <1>4, <1>5, <1>6, <1>7, <1>8, <1>9, <1>10, Zenon
     DEF PlayerNext, LoadSteps

\* An initialisation begins where no load is of its generation.
LEMMA BeginsOpen ==
    ASSUME PlayerTyped, GensFit, NEW gen, NEW key,
           gen \in {initGen + 1, initGen + 2}, Begins(gen, key), loads' = loads
    PROVE  Opened'
<1>1. initGen \in Nat /\ gen \in Nat /\ initGen < gen /\ initGen' = gen
  BY DEF PlayerTyped, Gens, Begins
<1>. DEFINE m == [gen |-> gen, item |-> key, at |-> "source"]
<1>2. inits' = inits \cup {m} /\ m.gen = gen /\ m.at = "source"
  BY DEF Begins
<1>. HIDE DEF m
<1>3. \A n \in inits \cup loads : n.gen \in Nat /\ n.gen < gen /\ n.gen # gen
  BY <1>1 DEF PlayerTyped, GensFit, InitOf, LoadOf, Gens
<1>4. \A n \in inits' : n.gen = initGen' => n = m
  BY <1>1, <1>2, <1>3
<1>5. \A l \in loads' : l.gen # initGen'
  BY <1>1, <1>3
<1>6. OnCourse(m)'
  BY <1>2, <1>5 DEF OnCourse
<1>. QED  BY <1>1, <1>2, <1>4, <1>6 DEF Opened

\* Nothing moves that the present initialisation stands on.
LEMMA Undisturbed ==
    ASSUME Opened, UNCHANGED <<ratingKey, exiting, initGen, inits, playError, loads>>,
           PlaysItem => PlaysItem', RevealIsOurs => RevealIsOurs', Stopping' => Stopping,
           Arrived /\ ~muteArmed' => MuteArrives'
    PROVE  Opened'
<1>1. \A n : OnCourse(n) => OnCourse(n)'
  BY DEF OnCourse
<1>2. Arrived => Arrived'
  BY Zenon DEF Arrived
<1>. QED  BY <1>1, <1>2, Zenon DEF Opened

\* A mute is sent that is what the user wants then.
LEMMA MuteSent ==
    ASSUME PlayerTyped, NEW muted \in BOOLEAN, Mutes(muted), isMuted' = muted, ~overtaken'
    PROVE  MuteArrives' /\ (Stopping' => Stopping)
<1>1. /\ calls'["stop"] = calls["stop"] /\ calls'["unload"] = calls["unload"]
      /\ calls'[MuteTo(muted)] > 0 /\ calls'[MuteTo(~muted)] = 0
  BY MutesIs
<1>. QED  BY <1>1 DEF MuteArrives, MuteTo, Stopping

\* The steps that are not the present initialisation's.
LEMMA OpenedElsewhere ==
    ASSUME PlayerTyped, GensFit, WarmUpFirst, Closed, Opened, ~overtaken',
           \/ \E key \in Items : Mount(key) \/ Handoff(key)
           \/ Retry \/ Exit \/ Unmount \/ ToggleMute \/ Settle
           \/ \E ok \in BOOLEAN : WarmedUp(ok)
    PROVE  Opened'
<1>n. isMuted \in BOOLEAN /\ (~isMuted) \in BOOLEAN
  BY Zenon DEF PlayerTyped, PlayerFlags
<1>1. ASSUME NEW key \in Items, Mount(key) \/ Handoff(key) PROVE Opened'
  BY <1>1, MountIs, HandoffIs, BeginsOpen
<1>2. CASE Retry
  BY <1>2, RetryPlayIs, BeginsOpen
<1>3. CASE Exit \/ Unmount
  BY <1>3, ExitIs, UnmountIs, Zenon DEF Opened
<1>4. CASE ToggleMute
  <2>1. UNCHANGED <<ratingKey, exiting, initGen, inits, playError, muteArmed, settling,
                    loads, mpv>>
    BY <1>4, ToggleMuteIs
  <2>2. PlaysItem' = PlaysItem /\ RevealIsOurs' = RevealIsOurs
    BY <2>1 DEF PlaysItem, RevealIsOurs
  <2>3. CASE muteArmed
    <3>1. calls' = calls
      BY <1>4, <2>3, ToggleMuteIs
    <3>. QED  BY <2>1, <2>2, <2>3, <3>1, Undisturbed DEF Stopping
  <2>4. CASE ~muteArmed
    <3>1. Mutes(~isMuted) /\ isMuted' = ~isMuted
      BY <1>4, <2>4, ToggleMuteIs
    <3>2. MuteArrives' /\ (Stopping' => Stopping)
      BY <1>n, <3>1, MuteSent
    <3>. QED  BY <2>1, <2>2, <3>2, Undisturbed
  <2>. QED  BY <2>3, <2>4
<1>5. CASE Settle
  <2>1. UNCHANGED <<ratingKey, exiting, initGen, inits, playError, isMuted, loads, mpv>>
    BY <1>5, SettleIs
  <2>2. PlaysItem' = PlaysItem
    BY <2>1 DEF PlaysItem
  <2>3. CASE settling = initGen
    <3>1. ~muteArmed' /\ Mutes(isMuted)
      BY <1>5, <2>3, SettleIs
    <3>2. MuteArrives' /\ (Stopping' => Stopping)
      BY <1>n, <2>1, <3>1, MuteSent
    <3>3. RevealIsOurs'
      BY <3>1 DEF RevealIsOurs
    <3>. QED  BY <2>1, <2>2, <3>2, <3>3, Undisturbed
  <2>4. CASE settling # initGen
    <3>1. UNCHANGED <<muteArmed, calls>>
      BY <1>5, <2>4, SettleIs
    <3>2. RevealIsOurs => RevealIsOurs'
      BY <2>4, <3>1 DEF RevealIsOurs
    <3>3. Arrived => MuteArrives'
      BY <2>1, <2>4, <3>1 DEF Arrived, RevealIsOurs, MuteArrives
    <3>. QED  BY <2>1, <2>2, <3>1, <3>2, <3>3, Undisturbed DEF Stopping
  <2>. QED  BY <2>3, <2>4
<1>6. ASSUME NEW ok \in BOOLEAN, WarmedUp(ok) PROVE Opened'
  <2>1. ~PlaysItem
    BY <1>6, WarmedUpIs DEF WarmUpFirst, PlaysItem
  <2>2. UNCHANGED <<ratingKey, exiting, initGen, inits, playError, muteArmed, settling,
                    loads, calls>>
    BY <1>6, WarmedUpIs
  <2>3. RevealIsOurs => RevealIsOurs'
    BY <2>2 DEF RevealIsOurs
  <2>. QED  BY <2>1, <2>2, <2>3, Undisturbed DEF Arrived, Stopping
<1>. QED  BY <1>1, <1>2, <1>3, <1>4, <1>5, <1>6, Zenon

\* An initialisation that is not the present one ends: nothing else moves.
LEMMA OthersEnd ==
    ASSUME Opened, NEW n \in inits, n.gen # initGen, Ends(n),
           ~playError' => ~playError,
           UNCHANGED <<ratingKey, exiting, initGen, isMuted, muteArmed, settling, loads,
                       mpv, calls>>
    PROVE  Opened'
<1>1. \A m : OnCourse(m) => OnCourse(m)'
  BY DEF OnCourse, PlaysItem, RevealIsOurs, Stopping
<1>2. Arrived => Arrived'
  BY DEF Arrived, PlaysItem, RevealIsOurs, Stopping, MuteArrives
<1>3. \A m \in inits' : m \in inits
  BY DEF Ends
<1>4. (\A m \in inits' : m.gen # initGen) => \A m \in inits : m.gen # initGen
  BY DEF Ends
<1>. QED  BY <1>1, <1>2, <1>3, <1>4, Zenon DEF Opened

\* The present one goes on: it is still the only one.
LEMMA OursGoesOn ==
    ASSUME PlayerTyped, GensFit, NEW n \in inits, n.gen = initGen, initGen' = initGen,
           NEW at \in {"listen", "load", "volume"}, Goes(n, at)
    PROVE  /\ \A m \in inits' : m.gen = initGen' => m.gen = initGen /\ m.item = n.item
                                                    /\ m.at = at
           /\ \E m \in inits' : m.gen = initGen'
<1>. DEFINE k == [n EXCEPT !.at = at]
<1>1. k.gen = n.gen /\ k.item = n.item /\ k.at = at
  BY SetOfInits
<1>2. inits' = (inits \ {n}) \cup {k}
  BY DEF Goes
<1>. HIDE DEF k
<1>. QED  BY <1>1, <1>2 DEF GensFit

LEMMA OursEnds ==
    ASSUME GensFit, NEW n \in inits, n.gen = initGen, initGen' = initGen, Ends(n)
    PROVE  \A m \in inits' : m.gen # initGen'
BY DEF GensFit, Ends

\* The steps of initPlayback.
LEMMA OpenedInits ==
    ASSUME PlayerTyped, GensFit, Opened, ~overtaken', NEW n \in inits,
           \/ SourceReady(n) \/ SourceFails(n) \/ Listening(n) \/ Loaded(n)
           \/ LoadRefused(n) \/ VolumeSet(n)
    PROVE  Opened'
<1>n. isMuted \in BOOLEAN
  BY Zenon DEF PlayerTyped, PlayerFlags
<1> SUFFICES ASSUME ratingKey' # None, ~exiting' PROVE Opened'
  BY DEF Opened
<1>u. UNCHANGED <<ratingKey, exiting, initGen, isMuted>>
  BY SourceReadyIs, SourceFailsIs, ListeningIs, LoadedIs, VolumeSetIs
<1>c. n.gen = initGen => OnCourse(n) /\ n.item = ratingKey
  BY <1>u DEF Opened, GensFit
<1>l. ASSUME CallLoad(n), loads = {}, n.gen = initGen, RevealIsOurs', ~Stopping, calls' = calls
      PROVE  Opened'
  <2>. DEFINE k == [gen |-> n.gen, item |-> n.item, at |-> "ensure"]
  <2>1. loads' = {k} /\ k.gen = initGen' /\ k.item = ratingKey'
    BY <1>l, <1>u, <1>c DEF CallLoad
  <2>. HIDE DEF k
  <2>2. \A m \in inits' : m.gen = initGen' => m.at = "load"
    BY <1>l, <1>u, OursGoesOn DEF CallLoad
  <2>3. \E m \in inits' : m.gen = initGen'
    BY <1>l, <1>u, OursGoesOn DEF CallLoad
  <2>4. \A m \in inits' : m.gen = initGen' => OnCourse(m)'
    BY <1>l, <2>1, <2>2 DEF OnCourse, Stopping
  <2>. QED  BY <2>3, <2>4, Zenon DEF Opened
<1>1. CASE SourceReady(n)
  <2>1. CASE n.gen # initGen
    <3>1. Ends(n) /\ UNCHANGED <<playError, muteArmed, settling, loads, mpv, calls>>
      BY <1>1, <2>1, SourceReadyIs
    <3>. QED  BY <1>u, <2>1, <3>1, OthersEnd
  <2>2. CASE n.gen = initGen /\ muteArmed'
    <3>1. RevealIsOurs' /\ Goes(n, "listen") /\ loads' = loads
      BY <1>1, <1>u, <2>2, SourceReadyIs DEF RevealIsOurs
    <3>2. \A l \in loads' : l.gen # initGen'
      BY <1>1, <1>c, <1>u, <2>2, <3>1, SourceReadyIs DEF OnCourse
    <3>3. \A m \in inits' : m.gen = initGen' => m.at = "listen"
      BY <1>u, <2>2, <3>1, OursGoesOn
    <3>4. \E m \in inits' : m.gen = initGen'
      BY <1>u, <2>2, <3>1, OursGoesOn
    <3>5. \A m \in inits' : m.gen = initGen' => OnCourse(m)'
      BY <3>1, <3>2, <3>3 DEF OnCourse
    <3>. QED  BY <3>4, <3>5, Zenon DEF Opened
  <2>3. CASE n.gen = initGen /\ ~muteArmed'
    <3>1. RevealIsOurs' /\ CallLoad(n) /\ loads = {} /\ ~Stopping /\ calls' = calls
      BY <1>1, <2>3, SourceReadyIs DEF RevealIsOurs
    <3>. QED  BY <1>l, <2>3, <3>1
  <2>. QED  BY <2>1, <2>2, <2>3
<1>2. CASE SourceFails(n) \/ LoadRefused(n)
  <2>1. CASE n.gen # initGen
    BY <1>2, <2>1, SourceFailsIs, OthersEnd
  <2>2. CASE n.gen = initGen
    BY <1>2, <1>u, <2>2, SourceFailsIs, OursEnds, Zenon DEF Opened
  <2>. QED  BY <2>1, <2>2
<1>3. CASE Listening(n)
  <2>1. n.at = "listen" /\ n.gen = initGen /\ CallLoad(n) /\ loads = {} /\ ~Stopping
        /\ UNCHANGED <<muteArmed, settling, calls>>
    BY <1>3, ListeningIs
  <2>2. RevealIsOurs
    BY <1>c, <2>1 DEF OnCourse
  <2>3. RevealIsOurs'
    BY <1>u, <2>1, <2>2, Zenon DEF RevealIsOurs
  <2>. QED  BY <1>l, <2>1, <2>3
<1>4. CASE Loaded(n)
  <2>1. UNCHANGED <<playError, muteArmed, settling, loads, mpv, calls>>
    BY <1>4, LoadedIs
  <2>2. CASE n.gen # initGen
    BY <1>4, <1>u, <2>1, <2>2, LoadedIs, OthersEnd
  <2>3. CASE n.gen = initGen
    <3>1. Goes(n, "volume") /\ n.at = "loaded"
      BY <1>4, <2>3, LoadedIs
    <3>2. RevealIsOurs /\ loads = {} /\ PlaysItem /\ ~Stopping
      BY <1>c, <2>3, <3>1 DEF OnCourse
    <3>3. RevealIsOurs' /\ loads' = {} /\ PlaysItem' /\ ~Stopping'
      BY <1>u, <2>1, <3>2, Zenon DEF RevealIsOurs, PlaysItem, Stopping
    <3>4. \A m \in inits' : m.gen = initGen' => m.at = "volume"
      BY <1>u, <2>3, <3>1, OursGoesOn
    <3>5. \E m \in inits' : m.gen = initGen'
      BY <1>u, <2>3, <3>1, OursGoesOn
    <3>6. \A m \in inits' : m.gen = initGen' => OnCourse(m)'
      BY <3>3, <3>4 DEF OnCourse
    <3>. QED  BY <3>5, <3>6, Zenon DEF Opened
  <2>. QED  BY <2>2, <2>3
<1>5. CASE VolumeSet(n)
  <2>1. UNCHANGED <<muteArmed, settling, loads, mpv>> /\ Ends(n) /\ n.at = "volume"
    BY <1>5, VolumeSetIs
  <2>2. CASE n.gen # initGen
    <3>1. calls' = calls /\ (~playError' => ~playError)
      BY <1>5, <2>2, VolumeSetIs, Zenon
    <3>. QED  BY <1>u, <2>1, <2>2, <3>1, OthersEnd
  <2>3. CASE n.gen = initGen
    <3>1. RevealIsOurs /\ loads = {} /\ PlaysItem /\ ~Stopping
      BY <1>c, <2>1, <2>3 DEF OnCourse
    <3>2. RevealIsOurs' /\ PlaysItem'
      BY <1>u, <2>1, <3>1 DEF RevealIsOurs, PlaysItem
    <3>3. ~Stopping' /\ (~muteArmed' => MuteArrives')
      <4>1. CASE muteArmed
        BY <1>5, <2>1, <2>3, <3>1, <4>1, VolumeSetIs DEF Stopping
      <4>2. CASE ~muteArmed
        <5>1. Mutes(isMuted)
          BY <1>5, <2>3, <3>1, <4>2, VolumeSetIs DEF PlaysItem
        <5>. QED  BY <1>n, <1>u, <3>1, <5>1, MuteSent
      <4>. QED  BY <4>1, <4>2
    <3>4. Arrived'
      BY <2>1, <3>1, <3>2, <3>3, Zenon DEF Arrived
    <3>5. \A m \in inits' : m.gen # initGen'
      BY <1>u, <2>1, <2>3, OursEnds
    <3>. QED  BY <3>4, <3>5, Zenon DEF Opened
  <2>. QED  BY <2>2, <2>3
<1>. QED  BY <1>1, <1>2, <1>3, <1>4, <1>5

\* While a load is under way the present initialisation has not passed it, and
\* if there is none the player has not arrived.
LEMMA UnderWay ==
    ASSUME Opened, NEW l \in loads, ratingKey # None, ~exiting
    PROVE  /\ \A n \in inits :
                n.gen = initGen =>
                  \/ n.at \in {"source", "listen"} /\ l.gen # initGen
                  \/ /\ n.at = "load" /\ RevealIsOurs
                     /\ l.gen = initGen /\ l.item = ratingKey /\ loads = {l}
                     /\ ~Stopping
                  \/ n.at \notin {"source", "listen", "load", "loaded", "refused", "volume"}
           /\ (\A n \in inits : n.gen # initGen) => playError
BY DEF Opened, OnCourse, Arrived

\* Load l has ended, and its initialisation hears of it.
LEMMA LoadEnds ==
    ASSUME PlayerTyped, GensFit, Opened, NEW l \in loads, NEW at \in {"refused", "loaded"},
           inits' = {IF n.gen = l.gen THEN [n EXCEPT !.at = at] ELSE n : n \in inits},
           loads' = loads \ {l}, ratingKey # None, ~exiting,
           at = "loaded" => mpv' # None /\ mpv'.file = l.item,
           UNCHANGED <<ratingKey, exiting, initGen, playError, muteArmed, settling, calls>>
    PROVE  Opened'
<1>1. ASSUME NEW m \in inits', m.gen = initGen' PROVE OnCourse(m)'
  <2>1. PICK n \in inits : m = IF n.gen = l.gen THEN [n EXCEPT !.at = at] ELSE n
    OBVIOUS
  <2>. DEFINE k == [n EXCEPT !.at = at]
  <2>2. k.gen = n.gen /\ k.at = at
    BY SetOfInits
  <2>3. m = IF n.gen = l.gen THEN k ELSE n
    BY <2>1
  <2>. HIDE DEF k
  <2>4. n.gen = initGen
    BY <1>1, <2>2, <2>3
  <2>5. n.at \in {"source", "listen", "load", "loaded", "refused", "volume"}
    BY DEF PlayerTyped, InitOf
  <2>6. CASE n.at \in {"source", "listen"} /\ l.gen # initGen
    <3>1. m = n
      BY <2>3, <2>4, <2>6
    <3>2. OnCourse(n)
      BY <2>4 DEF Opened
    <3>3. \A j \in loads' : j.gen # initGen'
      BY <2>6, <3>2 DEF OnCourse
    <3>4. n.at # "source" => RevealIsOurs'
      BY <3>2 DEF OnCourse, RevealIsOurs
    <3>. QED  BY <2>6, <3>1, <3>3, <3>4 DEF OnCourse
  <2>7. CASE n.at = "load" /\ RevealIsOurs /\ l.gen = initGen /\ l.item = ratingKey
             /\ loads = {l} /\ ~Stopping
    <3>1. m.at = at
      BY <2>2, <2>3, <2>4, <2>7
    <3>2. loads' = {}
      BY <2>7
    <3>3. at = "loaded" => PlaysItem'
      BY <2>7 DEF PlaysItem
    <3>4. RevealIsOurs' /\ ~Stopping'
      BY <2>7, Zenon DEF RevealIsOurs, Stopping
    <3>. QED  BY <3>1, <3>2, <3>3, <3>4 DEF OnCourse
  <2>. QED  BY <2>4, <2>5, <2>6, <2>7, UnderWay
<1>2. (\A m \in inits' : m.gen # initGen') => playError'
  <2>1. \A n \in inits : [n EXCEPT !.at = at].gen = n.gen
    BY SetOfInits
  <2>2. ASSUME NEW n \in inits, n.gen = initGen PROVE \E m \in inits' : m.gen = initGen'
    <3>. DEFINE m == IF n.gen = l.gen THEN [n EXCEPT !.at = at] ELSE n
    <3>1. m.gen = n.gen
      BY <2>1
    <3>2. m \in inits'
      OBVIOUS
    <3>. HIDE DEF m
    <3>. QED  BY <2>2, <3>1, <3>2
  <2>3. ASSUME \A m \in inits' : m.gen # initGen' PROVE playError'
    <3>1. \A n \in inits : n.gen # initGen
      BY <2>2, <2>3, Zenon
    <3>. QED  BY <3>1, UnderWay, Zenon
  <2>. QED  BY <2>3
<1>. QED  BY <1>1, <1>2, Zenon DEF Opened

\* The steps of a load in Rust.
LEMMA OpenedLoads ==
    ASSUME PlayerTyped, GensFit, Opened, NEW l \in loads, LoadSteps(l)
    PROVE  Opened'
<1>u. UNCHANGED <<ratingKey, exiting, initGen, playError, isMuted, muteArmed, settling,
                  calls>>
  BY LoadIs, Zenon
<1> SUFFICES ASSUME ratingKey # None, ~exiting PROVE Opened'
  BY <1>u, Zenon DEF Opened
<1>1. CASE BuildMpv(l)
  <2>1. UNCHANGED <<inits, loads, mpv>>
    BY <1>1, LoadIs, Zenon
  <2>2. PlaysItem' = PlaysItem /\ RevealIsOurs' = RevealIsOurs /\ Stopping' = Stopping
    BY <1>u, <2>1 DEF PlaysItem, RevealIsOurs, Stopping
  <2>3. MuteArrives => MuteArrives'
    BY <1>u, <2>1 DEF MuteArrives
  <2>. QED  BY <1>u, <2>1, <2>2, <2>3, Undisturbed DEF Arrived
<1>2. CASE MpvBuilt(l)
  <2>. DEFINE k == [l EXCEPT !.at = "built"]
  <2>1. k.gen = l.gen /\ k.item = l.item
    BY SetOfLoads
  <2>2. loads' = (loads \ {l}) \cup {k} /\ inits' = inits
    BY <1>2, LoadIs
  <2>. HIDE DEF k
  <2>3. ASSUME NEW n \in inits, n.gen = initGen PROVE OnCourse(n)'
    <3>1. OnCourse(n) /\ n.at \in {"source", "listen", "load", "loaded", "refused", "volume"}
      BY <2>3 DEF Opened, PlayerTyped, InitOf
    <3>2. n.at \in {"source", "listen"} \/ n.at = "load"
      BY <3>1 DEF OnCourse
    <3>3. n.at # "source" => RevealIsOurs'
      BY <1>u, <3>1, Zenon DEF OnCourse, RevealIsOurs
    <3>4. n.at \in {"source", "listen"} => \A j \in loads' : j.gen # initGen'
      BY <1>u, <2>1, <2>2, <3>1 DEF OnCourse
    <3>5. n.at = "load" => /\ \A j \in loads' : /\ j.gen = initGen' /\ j.item = ratingKey'
                                                /\ loads' = {j}
      BY <1>u, <2>1, <2>2, <3>1 DEF OnCourse
    <3>6. n.at = "load" => ~Stopping'
      BY <1>u, <3>1 DEF OnCourse, Stopping
    <3>. QED  BY <3>2, <3>3, <3>4, <3>5, <3>6 DEF OnCourse
  <2>4. (\A n \in inits : n.gen # initGen) => playError
    BY UnderWay, Zenon
  <2>. QED  BY <1>u, <2>2, <2>3, <2>4, Zenon DEF Opened
<1>3. CASE BuildFails(l) \/ LoadFails(l)
  <2>1. /\ inits' = {IF n.gen = l.gen THEN [n EXCEPT !.at = "refused"] ELSE n : n \in inits}
        /\ loads' = loads \ {l}
    BY <1>3, LoadIs, RefusedIs
  <2>. QED  BY <1>u, <2>1, LoadEnds
<1>4. CASE LoadFile(l)
  <2>1. /\ loads' = loads \ {l}
        /\ mpv # None /\ mpv' = [file |-> l.item, muted |-> linux \/ mpv.muted]
        /\ inits' = {IF n.gen = l.gen THEN [n EXCEPT !.at = "loaded"] ELSE n : n \in inits}
    BY <1>4, LoadIs
  <2>2. (linux \/ mpv.muted) \in BOOLEAN
    BY Zenon
  <2>3. mpv' \in Handle
    BY <2>1, <2>2 DEF Handle, PlayerTyped, LoadOf
  <2>4. mpv' # None /\ mpv'.file = l.item
    BY <2>1, <2>3, PlayerAssumption
  <2>. QED  BY <1>u, <2>1, <2>4, LoadEnds
<1>. QED  BY <1>1, <1>2, <1>3, <1>4 DEF LoadSteps

\* A command runs.  A stop finds nothing that the present initialisation has
\* loaded; the mute that runs is what the user wants.
LEMMA OpenedRuns ==
    ASSUME PlayerTyped, Opened, NEW c \in Commands, Runs(c)
    PROVE  Opened'
<1>1. /\ UNCHANGED <<ratingKey, exiting, initGen, inits, playError, isMuted, muteArmed,
                     settling, loads>>
      /\ RevealIsOurs' = RevealIsOurs
  BY RunsIs DEF RevealIsOurs
<1>2. /\ calls[c] \in Nat \ {0} /\ calls'[c] = calls[c] - 1
      /\ \A d \in Commands \ {c} : calls'[d] = calls[d]
  BY RunsCalls
<1>3. CASE c \in {"stop", "unload"}
  <2>1. Stopping
    BY <1>2, <1>3 DEF Stopping
  <2>2. \A n : OnCourse(n) => OnCourse(n)'
    BY <1>1, <2>1 DEF OnCourse
  <2>. QED  BY <1>1, <2>1, <2>2, Zenon DEF Opened, Arrived
<1>4. CASE c \in {"mute", "unmute"}
  <2>1. /\ mpv' = None <=> mpv = None
        /\ mpv # None => mpv'.file = mpv.file /\ mpv'.muted = (c = "mute")
    BY <1>4, RunsMute
  <2>2. PlaysItem => PlaysItem'
    BY <1>1, <2>1 DEF PlaysItem
  <2>3. calls'["stop"] = calls["stop"] /\ calls'["unload"] = calls["unload"]
    BY <1>2, <1>4 DEF Commands
  <2>4. Stopping' => Stopping
    BY <2>3 DEF Stopping
  <2>5. ASSUME Arrived, ~muteArmed PROVE MuteArrives'
    <3>1. mpv # None /\ MuteArrives
      BY <2>5 DEF Arrived, PlaysItem
    <3>2. isMuted \in BOOLEAN
      BY Zenon DEF PlayerTyped, PlayerFlags
    <3>3. /\ c = MuteTo(isMuted) /\ calls[MuteTo(~isMuted)] = 0
          /\ MuteTo(~isMuted) \in Commands \ {c}
      BY <1>2, <1>4, <3>1, <3>2 DEF MuteArrives, MuteTo, Commands
    <3>4. mpv'.muted = isMuted'
      BY <1>1, <2>1, <3>1, <3>2, <3>3 DEF MuteTo
    <3>5. calls'[MuteTo(~isMuted)] = 0
      BY <1>2, <3>3
    <3>6. \/ calls'["mute"] = 0 /\ calls'["unmute"] = 0
          \/ calls'[MuteTo(isMuted)] > 0
      BY <1>2, <3>2, <3>3, <3>5 DEF MuteTo
    <3>. QED  BY <1>1, <3>4, <3>5, <3>6 DEF MuteArrives, MuteTo
  <2>. QED  BY <1>1, <2>2, <2>4, <2>5, Undisturbed
<1>. QED  BY <1>3, <1>4 DEF Commands

LEMMA OpenedStep ==
    ASSUME PInv, ~overtaken, ~overtaken', [PlayerNext]_playerVars
    PROVE  Opened'
<1>0. PlayerTyped /\ GensFit /\ WarmUpFirst /\ Closed /\ Opened
  BY DEF PInv
<1>1. CASE UNCHANGED playerVars
  <2>1. UNCHANGED <<ratingKey, exiting, initGen, inits, playError, isMuted, muteArmed,
                    settling, loads, mpv, calls>>
    BY <1>1, Zenon DEF playerVars
  <2>2. PlaysItem' = PlaysItem /\ RevealIsOurs' = RevealIsOurs /\ Stopping' = Stopping
    BY <2>1 DEF PlaysItem, RevealIsOurs, Stopping
  <2>3. MuteArrives => MuteArrives'
    BY <2>1 DEF MuteArrives
  <2>. QED  BY <1>0, <2>1, <2>2, <2>3, Undisturbed DEF Arrived
<1>2. CASE \/ \E key \in Items : Mount(key) \/ Handoff(key)
           \/ Retry \/ Exit \/ Unmount \/ ToggleMute \/ Settle
           \/ \E ok \in BOOLEAN : WarmedUp(ok)
  BY <1>0, <1>2, OpenedElsewhere
<1>3. ASSUME NEW n \in inits,
             \/ SourceReady(n) \/ SourceFails(n) \/ Listening(n) \/ Loaded(n)
             \/ LoadRefused(n) \/ VolumeSet(n)
      PROVE  Opened'
  BY <1>0, <1>3, OpenedInits
<1>4. ASSUME NEW l \in loads, LoadSteps(l) PROVE Opened'
  BY <1>0, <1>4, OpenedLoads
<1>5. ASSUME NEW c \in Commands, Runs(c) PROVE Opened'
  BY <1>0, <1>5, OpenedRuns
<1>. QED  BY <1>1, <1>2, <1>3, <1>4, <1>5, Zenon DEF PlayerNext, LoadSteps

\* What was overtaken once stays so.
LEMMA OvertakenStays ==
    ASSUME [PlayerNext]_playerVars, ~overtaken' PROVE ~overtaken
<1>1. CASE UNCHANGED playerVars
  BY <1>1, Zenon DEF playerVars
<1>2. ASSUME NEW key \in Items, Mount(key) \/ Handoff(key) PROVE ~overtaken
  BY <1>2, MountIs, HandoffIs, Zenon
<1>m. ASSUME NEW muted, Mutes(muted) PROVE ~overtaken
  BY <1>m, Zenon DEF Mutes
<1>3. CASE Retry \/ Exit \/ Unmount
  BY <1>3, RetryPlayIs, ExitIs, UnmountIs, Zenon
<1>4. CASE ToggleMute \/ Settle
  BY <1>4, <1>m, ToggleMuteIs, SettleIs, Zenon
<1>5. ASSUME NEW n \in inits,
             \/ SourceReady(n) \/ SourceFails(n) \/ Listening(n) \/ Loaded(n)
             \/ LoadRefused(n)
      PROVE  ~overtaken
  BY <1>5, SourceReadyIs, SourceFailsIs, ListeningIs, LoadedIs, Zenon
<1>6. ASSUME NEW n \in inits, VolumeSet(n) PROVE ~overtaken
  BY <1>6, <1>m, VolumeSetIs, Zenon
<1>7. ASSUME NEW l \in loads, LoadSteps(l) PROVE ~overtaken
  BY <1>7, LoadIs, Zenon
<1>8. ASSUME NEW ok \in BOOLEAN, WarmedUp(ok) PROVE ~overtaken
  BY <1>8, WarmedUpIs, Zenon
<1>9. ASSUME NEW c \in Commands, Runs(c) PROVE ~overtaken
  BY <1>9, RunsIs, Zenon
<1>. QED
  BY <1>1, <1>2, <1>3, <1>4, <1>5, <1>6, <1>7, <1>8, <1>9, Zenon DEF PlayerNext, LoadSteps

LEMMA PlayerStep == PInv /\ [PlayerNext]_playerVars => PInv'
<1> SUFFICES ASSUME PInv, [PlayerNext]_playerVars PROVE PInv'
  OBVIOUS
<1>1. PlayerTyped' /\ GensFit' /\ WarmUpFirst'
  BY PlayerTypesStep, GensFitStep, WarmUpStep DEF PInv
<1>2. ASSUME ~overtaken' PROVE Closed' /\ Opened'
  BY <1>2, OvertakenStays, ClosedStep, OpenedStep DEF PInv
<1>. QED  BY <1>1, <1>2, Zenon DEF PInv

LEMMA PlayerAlways == PlayerSpec => []PInv
<1>1. PlayerInit => PInv
  BY PlayerInitially
<1>2. PInv /\ [PlayerNext]_playerVars => PInv'
  BY PlayerStep
<1>. QED  BY <1>1, <1>2, PTL DEF PlayerSpec

\* The player's state has its types: no initialisation has a generation the
\* counter never gave, and mpv is a handle or none.
THEOREM PlayerTypeCorrect == PlayerSpec => []PlayerTypeOK
<1>1. PInv => PlayerTypeOK
  BY PlayerTypesAre DEF PInv
<1>. QED  BY <1>1, PlayerAlways, PTL

\* Whatever switches, retries, exits, failures and clicks on mute cross the
\* awaits of initPlayback, once the player is at rest mpv plays the item that
\* is open, muted as the user wants, and a closed player plays nothing; unless
\* a load was overtaken inside Rust, or sent by a superseded initialisation or
\* before the last stop had run, or two opposite mutes were sent at once.
THEOREM PlayerPlaysWhatIsOpen == PlayerSpec => []PlaysWhatIsOpen
<1>1. ASSUME PInv PROVE PlaysWhatIsOpen
  <2> SUFFICES ASSUME PlayerAtRest, ~overtaken
               PROVE  /\ ratingKey = None => mpv = None \/ mpv.file = None
                      /\ ratingKey # None /\ ~playError
                           => mpv = [file |-> ratingKey, muted |-> isMuted]
    BY DEF PlaysWhatIsOpen
  <2>1. /\ Closed /\ Opened /\ inits = {} /\ ~exiting /\ settling = None
        /\ calls["unload"] = 0 /\ calls["mute"] = 0 /\ calls["unmute"] = 0
    BY <1>1 DEF PInv, PlayerAtRest, Commands
  <2>2. ratingKey = None => mpv = None \/ mpv.file = None
    BY <2>1 DEF Closed
  <2>3. ASSUME ratingKey # None, ~playError
        PROVE  mpv = [file |-> ratingKey, muted |-> isMuted]
    <3>1. Arrived
      BY <2>1, <2>3 DEF Opened
    <3>2. initGen # None
      BY <1>1, PlayerAssumption DEF PInv, PlayerTyped
    <3>3. ~muteArmed
      BY <2>1, <3>1, <3>2 DEF Arrived, RevealIsOurs
    <3>4. mpv # None /\ mpv.file = ratingKey /\ mpv.muted = isMuted
      BY <2>1, <3>1, <3>3 DEF Arrived, PlaysItem, MuteArrives, MuteTo
    <3>5. mpv \in Handle
      BY <1>1, <3>4 DEF PInv, PlayerTyped
    <3>6. mpv = [file |-> mpv.file, muted |-> mpv.muted]
      BY <3>5 DEF Handle
    <3>. QED  BY <3>4, <3>6, Zenon
  <2>. QED  BY <2>2, <2>3
<1>. QED  BY <1>1, PlayerAlways, PTL

-----------------------------------------------------------------------------
(* PlaybackQueue: the queue keeps step with what plays, and the end of an  *)
(* item never leaves a black frame, for any seasons, movies, lists to play *)
(* and number of acts.                                                     *)

\* A set of numbers that is not empty has a smallest.
LEMMA SmallestExists ==
    ASSUME NEW S \in SUBSET Nat, S # {}
    PROVE  \E m \in S : \A n \in S : m <= n
<1>. DEFINE less == OpToRel(<, Nat)
<1>1. \A n, m \in Nat : n < m => <<n, m>> \in less
  BY DEF OpToRel
<1>2. IsWellFoundedOn(less, Nat)
  BY NatLessThanWellFounded
<1>. HIDE DEF less
<1>3. PICK m \in S : \A n \in S : <<n, m>> \notin less
  BY <1>2, WFMin
<1>4. \A n \in S : ~(n < m)
  BY <1>1, <1>3
<1>. QED  BY <1>4

\* The place of a key in a sequence, and the season of an episode.
LEMMA PlaceIs ==
    ASSUME NEW S, NEW s \in Seq(S), NEW key \in Range(s)
    PROVE  Place(s, key) \in 1..Len(s) /\ s[Place(s, key)] = key
<1>. DEFINE I == {i \in 1..Len(s) : s[i] = key}
<1>1. I \subseteq Nat /\ I # {}
  BY DEF Range
<1>2. \E m \in I : \A n \in I : m <= n
  BY <1>1, SmallestExists
<1>3. Min(I) \in I
  BY <1>2 DEF Min
<1>4. Place(s, key) = Min(I)
  BY <1>1 DEF Place, SelectInSeq
<1>. QED  BY <1>3, <1>4

LEMMA KeysAre ==
    /\ \A n \in 1..Len(Seasons) : Seasons[n] \in Seq(Keys) /\ Range(Seasons[n]) \subseteq Keys
    /\ \A key \in Keys \ Movies : \E n \in 1..Len(Seasons) : key \in Range(Seasons[n])
<1>1. \A n \in 1..Len(Seasons) : Seasons[n] \in Seq(Keys)
  BY QueueAssumption
<1>2. DOMAIN Seasons = 1..Len(Seasons)
  BY QueueAssumption
<1>3. \A n \in 1..Len(Seasons) : Range(Seasons[n]) \subseteq Keys
  BY <1>1 DEF Range
<1>4. \A key \in Keys \ Movies : \E s \in Range(Seasons) : key \in Range(s)
  BY DEF Keys
<1>5. \A s \in Range(Seasons) : \E n \in 1..Len(Seasons) : s = Seasons[n]
  BY <1>2 DEF Range
<1>. QED  BY <1>1, <1>3, <1>4, <1>5

LEMMA SeasonIs ==
    ASSUME NEW key \in Keys \ Movies
    PROVE  SeasonOf(key) \in 1..Len(Seasons) /\ key \in Range(Seasons[SeasonOf(key)])
<1>. DEFINE I == {n \in 1..Len(Seasons) : key \in Range(Seasons[n])}
<1>0. I \subseteq 1..Len(Seasons) /\ \E n \in 1..Len(Seasons) : n \in I
  BY KeysAre
<1>1. I \subseteq Nat /\ I # {}
  BY <1>0
<1>2. \E m \in I : \A n \in I : m <= n
  BY <1>1, SmallestExists
<1>3. Min(I) \in I
  BY <1>2 DEF Min
<1>4. SeasonOf(key) = Min(I)
  BY <1>1 DEF SeasonOf, SelectInSeq
<1>. QED  BY <1>3, <1>4

\* What remains of a season begins with the episode it was asked for.
LEMMA RemainingIs ==
    ASSUME NEW key \in Keys \ Movies, NEW items \in Remaining(key)
    PROVE  items \in Seq(Keys) /\ Len(items) > 0 /\ items[1] = key
<1>. DEFINE n == SeasonOf(key)
            s == Seasons[n]
            p == Place(s, key)
            rest == SubSeq(s, p, Len(s))
<1>1. n \in 1..Len(Seasons) /\ s \in Seq(Keys) /\ p \in 1..Len(s) /\ s[p] = key
  BY SeasonIs, KeysAre, PlaceIs
<1>2. items = rest \/ (n < Len(Seasons) /\ items = rest \o Seasons[n + 1])
  BY DEF Remaining
<1>3. n < Len(Seasons) => Seasons[n + 1] \in Seq(Keys)
  BY <1>1, KeysAre, QueueAssumption
<1>. HIDE DEF n, s, p
<1>4. rest \in Seq(Keys) /\ Len(rest) > 0 /\ rest[1] = key
  BY <1>1
<1>. HIDE DEF rest
<1>5. CASE items = rest
  BY <1>4, <1>5
<1>6. CASE n < Len(Seasons) /\ items = rest \o Seasons[n + 1]
  <2>. DEFINE t == Seasons[n + 1]
  <2>1. t \in Seq(Keys) /\ items = rest \o t
    BY <1>3, <1>6
  <2>. HIDE DEF t
  <2>. QED  BY <1>4, <2>1, ConcatProperties
<1>. QED  BY <1>2, <1>5, <1>6

LEMMA NeighboursAre ==
    ASSUME NEW key
    PROVE  NextEpisode(key) \in Keys \cup {None} /\ PreviousEpisode(key) \in Keys \cup {None}
<1>1. \A n, i : EpisodeIn(n, i) \in Keys \cup {None}
  BY KeysAre, QueueAssumption DEF EpisodeIn, Range
<1>. QED  BY <1>1 DEF NextEpisode, PreviousEpisode

\* A queue without its i-th entry, and one with another entry in i-th place.
LEMMA RemoveAtIs ==
    ASSUME NEW S, NEW list \in Seq(S), NEW i \in 1..Len(list)
    PROVE  /\ RemoveAt(list, i) \in Seq(S)
           /\ Len(RemoveAt(list, i)) = Len(list) - 1
           /\ \A j \in 1..(Len(list) - 1) :
                 RemoveAt(list, i)[j] = list[IF j < i THEN j ELSE j + 1]
<1> DEFINE l == SubSeq(list, 1, i - 1)
           r == SubSeq(list, i + 1, Len(list))
<1>1. l \in Seq(S) /\ Len(l) = i - 1 /\ \A j \in 1..(i - 1) : l[j] = list[j]
  OBVIOUS
<1>2. /\ r \in Seq(S) /\ Len(r) = Len(list) - i
      /\ \A j \in 1..(Len(list) - i) : r[j] = list[i + j]
  OBVIOUS
<1>3. RemoveAt(list, i) = l \o r
  BY DEF RemoveAt
<1>. HIDE DEF l, r
<1>4. l \o r \in Seq(S) /\ Len(l \o r) = Len(l) + Len(r)
  BY <1>1, <1>2, ConcatProperties
<1>5. \A j \in 1..Len(l \o r) :
         (l \o r)[j] = IF j <= Len(l) THEN l[j] ELSE r[j - Len(l)]
  BY <1>1, <1>2, ConcatProperties
<1>6. ASSUME NEW j \in 1..(Len(list) - 1)
      PROVE  (l \o r)[j] = list[IF j < i THEN j ELSE j + 1]
  <2>1. CASE j < i
    BY <1>1, <1>2, <1>4, <1>5, <2>1
  <2>2. CASE ~(j < i)
    <3>1. j \in 1..Len(l \o r) /\ j - Len(l) \in 1..(Len(list) - i) /\ ~(j <= Len(l))
      BY <1>1, <1>2, <1>4, <2>2
    <3>2. (l \o r)[j] = r[j - Len(l)]
      BY <1>5, <3>1
    <3>3. r[j - Len(l)] = list[i + (j - Len(l))] /\ i + (j - Len(l)) = j + 1
      BY <1>1, <1>2, <3>1
    <3>. QED  BY <2>2, <3>2, <3>3
  <2>. QED  BY <2>1, <2>2
<1>7. Len(l \o r) = Len(list) - 1
  BY <1>1, <1>2, <1>4
<1>. QED  BY <1>3, <1>4, <1>6, <1>7

IsInserted(new, S, list, n, i, e) ==
    /\ new \in Seq(S) /\ Len(new) = n /\ new[i] = e
    /\ \A j \in 1..n :
          /\ j < i => new[j] = list[j]
          /\ j > i => new[j] = list[j - 1]

LEMMA InsertAtIs ==
    ASSUME NEW S, NEW list \in Seq(S), NEW n, Len(list) + 1 = n, NEW i \in 1..n, NEW e \in S
    PROVE  IsInserted(InsertAt(list, i, e), S, list, n, i, e)
<1> DEFINE l == SubSeq(list, 1, i - 1)
           r == SubSeq(list, i, Len(list))
           m == l \o <<e>>
<1>1. l \in Seq(S) /\ Len(l) = i - 1 /\ \A j \in 1..(i - 1) : l[j] = list[j]
  OBVIOUS
<1>2. /\ r \in Seq(S) /\ Len(r) = Len(list) - i + 1
      /\ \A j \in 1..(Len(list) - i + 1) : r[j] = list[i + j - 1]
  OBVIOUS
<1>3. InsertAt(list, i, e) = m \o r
  BY DEF InsertAt
<1>. HIDE DEF l, r
<1>4. m \in Seq(S) /\ Len(m) = i /\ m[i] = e /\ \A j \in 1..(i - 1) : m[j] = list[j]
  <2>1. <<e>> \in Seq(S) /\ Len(<<e>>) = 1 /\ <<e>>[1] = e
    OBVIOUS
  <2>2. /\ l \o <<e>> \in Seq(S) /\ Len(l \o <<e>>) = Len(l) + 1
        /\ \A j \in 1..Len(l \o <<e>>) :
              (l \o <<e>>)[j] = IF j <= Len(l) THEN l[j] ELSE <<e>>[j - Len(l)]
    BY <1>1, <2>1, ConcatProperties
  <2>. HIDE DEF m
  <2>3. m = l \o <<e>>
    BY DEF m
  <2>4. m \in Seq(S) /\ Len(m) = i
    BY <1>1, <2>2, <2>3
  <2>5. m[i] = e
    BY <1>1, <2>1, <2>2, <2>3, <2>4
  <2>6. \A j \in 1..(i - 1) : m[j] = list[j]
    BY <1>1, <2>2, <2>3, <2>4
  <2>. QED  BY <2>4, <2>5, <2>6
<1>. HIDE DEF m
<1>5. m \o r \in Seq(S) /\ Len(m \o r) = Len(m) + Len(r)
  BY <1>2, <1>4, ConcatProperties
<1>6. \A j \in 1..Len(m \o r) :
         (m \o r)[j] = IF j <= Len(m) THEN m[j] ELSE r[j - Len(m)]
  BY <1>2, <1>4, ConcatProperties
<1>7. ASSUME NEW j \in 1..n
      PROVE  /\ j < i => (m \o r)[j] = list[j]
             /\ j > i => (m \o r)[j] = list[j - 1]
  <2>1. CASE j < i
    BY <1>2, <1>4, <1>5, <1>6, <2>1
  <2>2. CASE j > i
    <3>1. j \in 1..Len(m \o r) /\ j - Len(m) \in 1..(Len(list) - i + 1) /\ ~(j <= Len(m))
      BY <1>2, <1>4, <1>5, <2>2
    <3>2. (m \o r)[j] = r[j - Len(m)]
      BY <1>6, <3>1
    <3>3. r[j - Len(m)] = list[i + (j - Len(m)) - 1] /\ i + (j - Len(m)) - 1 = j - 1
      BY <1>2, <1>4, <3>1
    <3>. QED  BY <2>2, <3>2, <3>3
  <2>. QED  BY <2>1, <2>2
<1>8. (m \o r)[i] = e /\ Len(m \o r) = n
  BY <1>2, <1>4, <1>5, <1>6
<1>. QED  BY <1>3, <1>5, <1>7, <1>8, Zenon DEF IsInserted

Sources == {None, "auto-episodes", "user-built"}
Queues == {q \in [items : Seq(Keys), at : Nat, source : Sources, built : BOOLEAN] :
             q.at <= Len(q.items)}

\* QueueTypeOK, one variable at a time.
QueueFlags == /\ minimized \in BOOLEAN /\ autoPlay \in BOOLEAN
              /\ eof \in BOOLEAN /\ displaced \in BOOLEAN
QueueTyped ==
    /\ nowPlaying \in Keys \cup {None} /\ file \in {"none", "loading", "plays", "ended"}
    /\ file = "none" <=> nowPlaying = None
    /\ itemType \in {"", "movie", "episode"}
    /\ queue \in Queues
    /\ populatedFor \in Keys \cup {None} /\ navFor \in Keys \cup {None}
    /\ populating \subseteq Keys
    /\ neighbours \in [prev : Keys \cup {None}, next : Keys \cup {None}]
    /\ overlay \in {"armed", "shown", "spent"}
    /\ acts \in 0..MaxActs

\* The effects have run for the item and the type there are: the queue is at
\* the episode's entry, or the episode has lost its place.
Follows ==
    /\ itemType = "episode" => populatedFor = nowPlaying
    /\ itemType # "episode" => populatedFor \in Movies \cup {None}
    /\ file = "none" => itemType = ""
    /\ file \in {"plays", "ended"} => itemType = KindOf(nowPlaying)
    /\ itemType = "episode" /\ nowPlaying \in Range(queue.items) \ Movies
         => displaced \/ AtItsEntry

\* The overlay is spent only on an item that has lost its place, shows only in
\* the large player, and is no longer armed when the end of the item has been
\* handled.
Latch ==
    /\ overlay = "spent" => displaced
    /\ overlay = "shown" => ~minimized
    /\ file = "ended" /\ ~eof => overlay # "armed"

LEMMA QueueMade ==
    ASSUME NEW items \in Seq(Keys), NEW at \in 0..Len(items), NEW source \in Sources,
           NEW built \in BOOLEAN
    PROVE  LET q == [items |-> items, at |-> at, source |-> source, built |-> built] IN
           /\ q \in Queues /\ q.items = items /\ q.at = at
BY DEF Queues

LEMMA EmptyIs ==
    /\ EmptyQueue \in Queues /\ EmptyQueue.items = <<>>
    /\ [EmptyQueue EXCEPT !.source = "auto-episodes"] \in Queues
    /\ [EmptyQueue EXCEPT !.source = "auto-episodes"].items = <<>>
<1>1. \A built \in BOOLEAN :
         LET q == [items |-> <<>>, at |-> 0, source |-> None, built |-> built] IN
         /\ q \in Queues /\ q.items = <<>>
         /\ [q EXCEPT !.source = "auto-episodes"] \in Queues
         /\ [q EXCEPT !.source = "auto-episodes"].items = <<>>
  <2> SUFFICES ASSUME NEW built \in BOOLEAN
               PROVE  LET q == [items |-> <<>>, at |-> 0, source |-> None, built |-> built] IN
                      /\ q \in Queues /\ q.items = <<>>
                      /\ [q EXCEPT !.source = "auto-episodes"] \in Queues
                      /\ [q EXCEPT !.source = "auto-episodes"].items = <<>>
    OBVIOUS
  <2>. DEFINE q == [items |-> <<>>, at |-> 0, source |-> None, built |-> built]
  <2>1. <<>> \in Seq(Keys) /\ 0 \in 0..Len(<<>>) /\ None \in Sources
    BY DEF Sources
  <2>2. q \in Queues /\ q.items = <<>>
    BY <2>1, QueueMade
  <2>. HIDE DEF q
  <2>3. /\ [q EXCEPT !.source = "auto-episodes"] \in Queues
        /\ [q EXCEPT !.source = "auto-episodes"].items = <<>>
    BY <2>2 DEF Queues, Sources
  <2>. QED  BY <2>2, <2>3 DEF q
<1>2. FALSE \in BOOLEAN
  BY Zenon
<1>. QED  BY <1>1, <1>2, Zenon DEF EmptyQueue

LEMMA AtIs ==
    ASSUME NEW q \in Queues, NEW i \in 0..Len(q.items)
    PROVE  /\ [q EXCEPT !.at = i] \in Queues
           /\ [q EXCEPT !.at = i].items = q.items /\ [q EXCEPT !.at = i].at = i
BY DEF Queues

LEMMA AutoPopulateIs ==
    ASSUME QueueTyped, NEW key \in Keys, NEW type, NEW q \in Queues, AutoPopulate(key, type, q)
    PROVE  /\ queue' \in Queues /\ populating' \subseteq Keys
           /\ populatedFor' \in Keys \cup {None}
           /\ type # "episode" => queue' = q /\ populatedFor' = populatedFor
           /\ type = "episode" /\ populatedFor # key =>
                /\ populatedFor' = key
                /\ key \in Range(queue'.items) =>
                     queue'.at > 0 /\ queue'.items[queue'.at] = key
<1>1. CASE type # "episode" \/ populatedFor = key
  <2>1. queue' = q /\ UNCHANGED <<populatedFor, populating>>
    BY <1>1, Zenon DEF AutoPopulate
  <2>. QED  BY <1>1, <2>1 DEF QueueTyped
<1>2. CASE ~(type # "episode" \/ populatedFor = key)
  <2>1. populatedFor' = key
    BY <1>2, Zenon DEF AutoPopulate
  <2>2. CASE key \in Range(q.items)
    <3>1. queue' = [q EXCEPT !.at = Place(q.items, key)] /\ populating' = populating
      BY <1>2, <2>2, Zenon DEF AutoPopulate
    <3>2. q.items \in Seq(Keys)
      BY DEF Queues
    <3>3. /\ Place(q.items, key) \in 1..Len(q.items)
          /\ q.items[Place(q.items, key)] = key
      BY <2>2, <3>2, PlaceIs
    <3>4. Place(q.items, key) \in 0..Len(q.items) /\ Place(q.items, key) > 0
      BY <3>2, <3>3
    <3>5. /\ queue' \in Queues /\ queue'.items = q.items
          /\ queue'.at = Place(q.items, key)
      BY <3>1, <3>4, AtIs
    <3>. QED  BY <1>2, <2>1, <3>1, <3>3, <3>4, <3>5 DEF QueueTyped
  <2>3. CASE key \notin Range(q.items)
    <3>1. /\ queue' = [EmptyQueue EXCEPT !.source = "auto-episodes"]
          /\ populating' = populating \cup {key}
      BY <1>2, <2>3, Zenon DEF AutoPopulate
    <3>2. queue' \in Queues /\ queue'.items = <<>>
      BY <3>1, EmptyIs, Zenon
    <3>3. key \notin Range(queue'.items)
      BY <3>2 DEF Range
    <3>. QED  BY <1>2, <2>1, <3>1, <3>2, <3>3 DEF QueueTyped
  <2>. QED  BY <2>2, <2>3
<1>. QED  BY <1>1, <1>2

LEMMA NavigationIs ==
    ASSUME QueueTyped, NEW key \in Keys, NEW type, Navigation(key, type)
    PROVE  /\ navFor' \in Keys \cup {None}
           /\ neighbours' \in [prev : Keys \cup {None}, next : Keys \cup {None}]
<1>1. Alone \in [prev : Keys \cup {None}, next : Keys \cup {None}]
  BY DEF Alone
<1>. QED  BY <1>1 DEF Navigation, QueueTyped

\* What it takes to move to another item, and to be opened again.
LEMMA MovesToAnother ==
    ASSUME NEW key, NEW q, NEW o, MovesTo(key, q, o), key # nowPlaying
    PROVE  /\ nowPlaying' = key /\ itemType' = itemType /\ file' = "loading"
           /\ overlay' = "armed" /\ ~displaced'
           /\ AutoPopulate(key, itemType, q) /\ Navigation(key, itemType)
BY Zenon DEF MovesTo

LEMMA MovesToSame ==
    ASSUME NEW q, NEW o, MovesTo(nowPlaying, q, o)
    PROVE  /\ queue' = q /\ overlay' = o /\ displaced'
           /\ UNCHANGED <<nowPlaying, itemType, file, populatedFor, populating, neighbours,
                          navFor>>
BY Zenon DEF MovesTo

LEMMA MovesToTyped ==
    ASSUME QueueTyped, NEW key \in Keys, NEW q \in Queues,
           NEW o \in {"armed", "shown", "spent"}, MovesTo(key, q, o), acts' \in 0..MaxActs
    PROVE  QueueTyped'
<1>1. CASE key = nowPlaying
  <2>1. /\ queue' = q /\ overlay' = o
        /\ UNCHANGED <<nowPlaying, itemType, file, populatedFor, populating, neighbours,
                       navFor>>
    BY <1>1, MovesToSame, Zenon
  <2>. QED  BY <2>1 DEF QueueTyped
<1>2. CASE key # nowPlaying
  <2>1. /\ nowPlaying' = key /\ itemType' = itemType /\ file' = "loading"
        /\ overlay' = "armed" /\ AutoPopulate(key, itemType, q) /\ Navigation(key, itemType)
    BY <1>2, MovesToAnother
  <2>2. key # None
    BY QueueAssumption
  <2>. QED  BY <2>1, <2>2, AutoPopulateIs, NavigationIs DEF QueueTyped
<1>. QED  BY <1>1, <1>2

LEMMA MovesToFollows ==
    ASSUME QueueTyped, Follows, NEW key \in Keys, NEW q \in Queues, NEW o, MovesTo(key, q, o)
    PROVE  Follows'
<1>0. key # None
  BY QueueAssumption
<1>1. CASE key = nowPlaying
  <2>1. /\ displaced'
        /\ UNCHANGED <<nowPlaying, itemType, file, populatedFor>>
    BY <1>1, MovesToSame, Zenon
  <2>. QED  BY <2>1, Zenon DEF Follows
<1>2. CASE key # nowPlaying
  <2>1. /\ nowPlaying' = key /\ itemType' = itemType /\ file' = "loading"
        /\ AutoPopulate(key, itemType, q)
    BY <1>2, MovesToAnother
  <2>2. CASE itemType = "episode"
    <3>1. populatedFor # key
      BY <1>2, <2>2 DEF Follows
    <3>. QED  BY <2>1, <2>2, <3>1, AutoPopulateIs DEF Follows, AtItsEntry
  <2>3. CASE itemType # "episode"
    BY <2>1, <2>3, AutoPopulateIs DEF Follows
  <2>. QED  BY <2>2, <2>3
<1>. QED  BY <1>1, <1>2

\* Of the overlay it matters what it was, and who sees it.
LEMMA MovesToLatch ==
    ASSUME Latch, NEW key, NEW q, NEW o \in {overlay, "spent"}, MovesTo(key, q, o),
           o = "shown" => ~minimized', eof' = eof \/ o = "spent"
    PROVE  Latch'
<1>1. CASE key = nowPlaying
  <2>1. overlay' = o /\ displaced' /\ file' = file
    BY <1>1, MovesToSame, Zenon
  <2>. QED  BY <2>1 DEF Latch
<1>2. CASE key # nowPlaying
  <2>1. file' = "loading" /\ overlay' = "armed"
    BY <1>2, MovesToAnother
  <2>. QED  BY <2>1 DEF Latch
<1>. QED  BY <1>1, <1>2

\* The player moves to an item, or stays with the one there is.
Shifts ==
    \E key \in Keys, q \in Queues, o \in {overlay, "spent"} :
      /\ MovesTo(key, q, o)
      /\ o = "shown" => ~minimized'
      /\ eof' = eof \/ o = "spent"
Stands ==
    /\ UNCHANGED <<nowPlaying, itemType, queue, populatedFor, populating, neighbours, navFor>>
    /\ file' = file \/ (file \in {"plays", "ended"} /\ file' \in {"plays", "ended"})
    /\ displaced => displaced'
    /\ overlay' \in {"armed", "shown", "spent"}
    /\ Latch'

LEMMA ShiftsKeeps ==
    ASSUME QueueTyped, Follows, Latch, Shifts, acts' \in 0..MaxActs
    PROVE  QueueTyped' /\ Follows' /\ Latch'
<1>1. PICK key \in Keys, q \in Queues, o \in {overlay, "spent"} :
         /\ MovesTo(key, q, o) /\ (o = "shown" => ~minimized')
         /\ eof' = eof \/ o = "spent"
  BY DEF Shifts
<1>2. o \in {"armed", "shown", "spent"}
  BY DEF QueueTyped
<1>. QED  BY <1>1, <1>2, MovesToTyped, MovesToFollows, MovesToLatch

LEMMA StandsKeeps ==
    ASSUME QueueTyped, Follows, Stands, acts' \in 0..MaxActs
    PROVE  QueueTyped' /\ Follows' /\ Latch'
<1>1. QueueTyped'
  <2>1. file' = "none" <=> file = "none"
    BY DEF Stands
  <2>2. file' \in {"none", "loading", "plays", "ended"}
    BY DEF Stands, QueueTyped
  <2>. QED  BY <2>1, <2>2 DEF Stands, QueueTyped
<1>2. Follows'
  <2>1. AtItsEntry' <=> AtItsEntry
    BY DEF Stands, AtItsEntry
  <2>2. file' \in {"plays", "ended"} => file \in {"plays", "ended"}
    BY DEF Stands
  <2>3. file' = "none" => file = "none"
    BY DEF Stands
  <2>. QED  BY <2>1, <2>2, <2>3, Zenon DEF Follows, Stands
<1>. QED  BY <1>1, <1>2 DEF Stands

LEMMA AdvanceNextIs ==
    ASSUME QueueTyped, NEW o, NEW mini, AdvanceNext(o, mini)
    PROVE  \/ /\ \E key \in Keys, q \in Queues : MovesTo(key, q, o)
              /\ minimized' = mini \/ ~minimized'
           \/ /\ overlay' = o /\ minimized' = mini
              /\ displaced' = (displaced \/ o = "spent")
              /\ UNCHANGED <<nowPlaying, file, itemType, queue, populatedFor, populating,
                             neighbours, navFor>>
<1>1. CASE HasEntryAfter
  <2>1. /\ MovesTo(queue.items[queue.at + 1], At(queue.at + 1), o)
        /\ minimized' = mini
    BY <1>1, Zenon DEF AdvanceNext
  <2>2. queue \in Queues /\ queue.at < Len(queue.items)
    BY <1>1 DEF QueueTyped, HasEntryAfter
  <2>3. queue.at \in Nat /\ queue.items \in Seq(Keys) /\ Len(queue.items) \in Nat
    BY <2>2 DEF Queues
  <2>4. queue.items[queue.at + 1] \in Keys /\ queue.at + 1 \in 0..Len(queue.items)
    BY <2>2, <2>3
  <2>5. At(queue.at + 1) \in Queues
    BY <2>2, <2>4, AtIs DEF At
  <2>. QED  BY <2>1, <2>4, <2>5, Zenon
<1>2. CASE ~HasEntryAfter /\ neighbours.next # None
  <2>1. MovesTo(neighbours.next, queue, o) /\ ~minimized'
    BY <1>2, Zenon DEF AdvanceNext
  <2>2. neighbours.next \in Keys /\ queue \in Queues
    BY <1>2 DEF QueueTyped
  <2>. QED  BY <2>1, <2>2, Zenon
<1>3. CASE ~HasEntryAfter /\ neighbours.next = None
  BY <1>3, Zenon DEF AdvanceNext
<1>. QED  BY <1>1, <1>2, <1>3

LEMMA AdvancePrevIs ==
    ASSUME QueueTyped, AdvancePrev
    PROVE  /\ \E key \in Keys, q \in Queues : MovesTo(key, q, overlay)
           /\ minimized' = minimized \/ ~minimized'
<1>1. CASE queue.at > 1
  <2>1. /\ MovesTo(queue.items[queue.at - 1], At(queue.at - 1), overlay)
        /\ minimized' = minimized
    BY <1>1, Zenon DEF AdvancePrev
  <2>2. queue \in Queues
    BY DEF QueueTyped
  <2>3. /\ queue.at \in Nat /\ queue.items \in Seq(Keys) /\ Len(queue.items) \in Nat
        /\ queue.at <= Len(queue.items)
    BY <2>2 DEF Queues
  <2>4. queue.items[queue.at - 1] \in Keys /\ queue.at - 1 \in 0..Len(queue.items)
    BY <1>1, <2>3
  <2>5. At(queue.at - 1) \in Queues
    BY <2>2, <2>4, AtIs DEF At
  <2>. QED  BY <2>1, <2>4, <2>5, Zenon
<1>2. CASE ~(queue.at > 1)
  <2>1. neighbours.prev # None /\ MovesTo(neighbours.prev, queue, overlay) /\ ~minimized'
    BY <1>2, Zenon DEF AdvancePrev
  <2>2. neighbours.prev \in Keys /\ queue \in Queues
    BY <2>1 DEF QueueTyped
  <2>. QED  BY <2>1, <2>2, Zenon
<1>. QED  BY <1>1, <1>2

LEMMA OverlayInIs ==
    ASSUME QueueTyped, Latch, NEW mini, OverlayIn(mini)
    PROVE  Shifts \/ (Stands /\ overlay' # "armed")
<1>1. CASE mini /\ autoPlay
  <2>1. AdvanceNext("spent", TRUE)
    BY <1>1, Zenon DEF OverlayIn
  <2>2. CASE \E key \in Keys, q \in Queues : MovesTo(key, q, "spent")
    BY <2>2, Zenon DEF Shifts
  <2>3. CASE /\ overlay' = "spent" /\ displaced' = (displaced \/ "spent" = "spent")
             /\ UNCHANGED <<nowPlaying, file, itemType, queue, populatedFor, populating,
                            neighbours, navFor>>
    BY <2>3 DEF Stands, Latch
  <2>. QED  BY <2>1, <2>2, <2>3, AdvanceNextIs
<1>2. CASE ~(mini /\ autoPlay)
  <2>1. /\ overlay' = "shown" /\ ~minimized'
        /\ UNCHANGED <<nowPlaying, file, itemType, queue, populatedFor, populating,
                       neighbours, navFor, displaced>>
    BY <1>2, Zenon DEF OverlayIn
  <2>. QED  BY <2>1 DEF Stands, Latch
<1>. QED  BY <1>1, <1>2

\* The steps that shift the player or leave it where it is.
LEMMA MovingSteps ==
    ASSUME QueueTyped, Latch,
           \/ ReachesEnd \/ PlayNow \/ \E key \in Keys : Play(key)
           \/ \E items \in PlayLists : PlayAll(items)
           \/ Skip \/ Rewind \/ Minimize \/ RestoreFromMinimize \/ ToggleAutoPlay
           \/ \E i \in DOMAIN queue.items : Jump(i)
           \/ UNCHANGED queueVars
    PROVE  Shifts \/ Stands
<1>0. /\ queue \in Queues /\ overlay \in {"armed", "shown", "spent"}
      /\ overlay = "shown" => ~minimized
  BY DEF QueueTyped, Latch
<1>1. CASE ReachesEnd
  <2>1. /\ file = "plays" /\ file' = "ended" /\ eof'
        /\ UNCHANGED <<nowPlaying, itemType, queue, populatedFor, populating, neighbours,
                       navFor, overlay, minimized, displaced>>
    BY <1>1, Zenon DEF ReachesEnd
  <2>. QED  BY <1>0, <2>1 DEF Stands, Latch
<1>2. CASE PlayNow
  <2>1. AdvanceNext("spent", FALSE)
    BY <1>2, Zenon DEF PlayNow
  <2>2. CASE \E key \in Keys, q \in Queues : MovesTo(key, q, "spent")
    BY <2>2, Zenon DEF Shifts
  <2>3. CASE /\ overlay' = "spent" /\ displaced' = (displaced \/ "spent" = "spent")
             /\ UNCHANGED <<nowPlaying, file, itemType, queue, populatedFor, populating,
                            neighbours, navFor>>
    BY <2>3 DEF Stands, Latch
  <2>. QED  BY <2>1, <2>2, <2>3, AdvanceNextIs
<1>3. ASSUME NEW key \in Keys, Play(key) PROVE Shifts
  <2>1. MovesTo(key, queue, overlay) /\ ~minimized' /\ eof' = eof
    BY <1>3, Zenon DEF Play, Stays
  <2>. QED  BY <1>0, <2>1, Zenon DEF Shifts
<1>4. ASSUME NEW items \in PlayLists, PlayAll(items) PROVE Shifts
  <2>1. /\ MovesTo(items[1], [items |-> items, at |-> 1, source |-> "user-built",
                              built |-> TRUE], overlay)
        /\ ~minimized' /\ eof' = eof
    BY <1>4, Zenon DEF PlayAll, Stays
  <2>2. items \in Seq(Keys) /\ items # <<>>
    BY QueueAssumption
  <2>3. items[1] \in Keys /\ 1 \in 0..Len(items) /\ "user-built" \in Sources
    BY <2>2 DEF Sources
  <2>4. TRUE \in BOOLEAN
    BY Zenon
  <2>5. [items |-> items, at |-> 1, source |-> "user-built", built |-> TRUE] \in Queues
    BY <2>2, <2>3, <2>4, QueueMade, Zenon
  <2>. QED  BY <1>0, <2>1, <2>3, <2>5, Zenon DEF Shifts
<1>5. CASE Skip
  <2>1. eof' = eof /\ (AdvanceNext(overlay, minimized) \/ AdvancePrev)
    BY <1>5, Zenon DEF Skip, Stays
  <2>2. CASE /\ \E key \in Keys, q \in Queues : MovesTo(key, q, overlay)
             /\ minimized' = minimized \/ ~minimized'
    <3>1. PICK key \in Keys, q \in Queues : MovesTo(key, q, overlay)
      BY <2>2
    <3>2. overlay = "shown" => ~minimized'
      BY <1>0, <2>2, Zenon
    <3>3. overlay \in {overlay, "spent"}
      OBVIOUS
    <3>. QED  BY <2>1, <3>1, <3>2, <3>3, Zenon DEF Shifts
  <2>3. CASE /\ overlay' = overlay /\ minimized' = minimized
             /\ displaced' = (displaced \/ overlay = "spent")
             /\ UNCHANGED <<nowPlaying, file, itemType, queue, populatedFor, populating,
                            neighbours, navFor>>
    BY <1>0, <2>1, <2>3 DEF Stands, Latch
  <2>. QED  BY <2>1, <2>2, <2>3, AdvanceNextIs, AdvancePrevIs
<1>6. CASE Rewind
  <2>1. /\ file = "ended" /\ file' = "plays"
        /\ UNCHANGED <<nowPlaying, itemType, queue, populatedFor, populating, neighbours,
                       navFor, overlay, minimized, displaced>>
    BY <1>6, Zenon DEF Rewind
  <2>. QED  BY <1>0, <2>1 DEF Stands, Latch
<1>7. CASE Minimize
  <2>1. CASE overlay = "shown"
    <3>1. OverlayIn(TRUE)
      BY <1>7, <2>1, Zenon DEF Minimize
    <3>. QED  BY <3>1, OverlayInIs
  <2>2. CASE overlay # "shown"
    <3>1. /\ eof' = eof
          /\ UNCHANGED <<nowPlaying, file, itemType, queue, populatedFor, populating,
                         neighbours, navFor, overlay, displaced>>
      BY <1>7, <2>2, Zenon DEF Minimize, Stays
    <3>. QED  BY <1>0, <2>2, <3>1 DEF Stands, Latch
  <2>. QED  BY <2>1, <2>2
<1>8. CASE RestoreFromMinimize
  <2>1. /\ eof' = eof /\ ~minimized'
        /\ UNCHANGED <<nowPlaying, file, itemType, queue, populatedFor, populating,
                       neighbours, navFor, overlay, displaced>>
    BY <1>8, Zenon DEF RestoreFromMinimize, Stays
  <2>. QED  BY <1>0, <2>1 DEF Stands, Latch
<1>9. CASE ToggleAutoPlay \/ UNCHANGED queueVars
  <2>1. UNCHANGED <<nowPlaying, file, itemType, queue, populatedFor, populating,
                    neighbours, navFor, overlay, minimized, eof, displaced>>
    BY <1>9, Zenon DEF ToggleAutoPlay, queueVars
  <2>. QED  BY <1>0, <2>1 DEF Stands, Latch
<1>10. ASSUME NEW i \in DOMAIN queue.items, Jump(i) PROVE Shifts
  <2>1. MovesTo(queue.items[i], queue, overlay) /\ minimized' = minimized /\ eof' = eof
    BY <1>10, Zenon DEF Jump, Stays
  <2>2. queue.items[i] \in Keys
    BY <1>0 DEF Queues
  <2>. QED  BY <1>0, <2>1, <2>2, Zenon DEF Shifts
<1>. QED
  BY <1>1, <1>2, <1>3, <1>4, <1>5, <1>6, <1>7, <1>8, <1>9, <1>10

\* The end of a file, and the player closed.
LEMMA ClosesKeeps ==
    ASSUME QueueTyped, Closes, acts' \in 0..MaxActs
    PROVE  QueueTyped' /\ Follows' /\ Latch'
<1>1. /\ nowPlaying' = None /\ file' = "none" /\ itemType' = "" /\ populatedFor' = None
      /\ neighbours' = Alone /\ navFor' = None /\ overlay' = "armed"
      /\ UNCHANGED <<queue, populating>>
  BY Zenon DEF Closes
<1>2. Alone \in [prev : Keys \cup {None}, next : Keys \cup {None}]
  BY DEF Alone
<1>. QED  BY <1>1, <1>2 DEF QueueTyped, Follows, Latch

LEMMA EofKeeps ==
    ASSUME QueueTyped, Follows, Latch, Eof, acts' \in 0..MaxActs
    PROVE  QueueTyped' /\ Follows' /\ Latch'
<1>1. ~eof'
  BY Zenon DEF Eof
<1>2. CASE Closes
  BY <1>2, ClosesKeeps
<1>3. CASE OverlayIn(minimized)
  <2>1. Shifts \/ Stands
    BY <1>3, OverlayInIs
  <2>. QED  BY <2>1, ShiftsKeeps, StandsKeeps
<1>4. CASE /\ overlay # "armed"
           /\ UNCHANGED <<nowPlaying, file, itemType, queue, populatedFor, populating,
                          neighbours, navFor, overlay, minimized, displaced>>
  <2>1. Stands
    BY <1>4 DEF Stands, Latch, QueueTyped
  <2>. QED  BY <2>1, StandsKeeps
<1>5. \/ Closes \/ OverlayIn(minimized)
      \/ /\ overlay # "armed"
         /\ UNCHANGED <<nowPlaying, file, itemType, queue, populatedFor, populating,
                        neighbours, navFor, overlay, minimized, displaced>>
  BY Zenon DEF Eof
<1>. QED  BY <1>2, <1>3, <1>4, <1>5

\* The answers.
LEMMA PreparedKeeps ==
    ASSUME QueueTyped, Follows, Latch, Prepared
    PROVE  QueueTyped' /\ Follows' /\ Latch'
<1>1. /\ file = "loading" /\ file' = "plays" /\ itemType' = KindOf(nowPlaying)
      /\ UNCHANGED <<nowPlaying, overlay, minimized, eof, acts, displaced>>
  BY Zenon DEF Prepared
<1>2. nowPlaying \in Keys /\ nowPlaying # None
  BY <1>1 DEF QueueTyped
<1>3. /\ itemType' \in {"movie", "episode"}
      /\ itemType' = "episode" <=> nowPlaying \notin Movies
  BY <1>1 DEF KindOf
<1>4. CASE itemType' = itemType
  <2>1. UNCHANGED <<queue, populatedFor, populating, neighbours, navFor>>
    BY <1>4, Zenon DEF Prepared
  <2>. QED  BY <1>1, <1>2, <1>3, <1>4, <2>1 DEF QueueTyped, Follows, Latch, AtItsEntry
<1>5. CASE itemType' # itemType
  <2>1. AutoPopulate(nowPlaying, itemType', queue) /\ Navigation(nowPlaying, itemType')
    BY <1>5, Zenon DEF Prepared
  <2>2. queue \in Queues
    BY DEF QueueTyped
  <2>3. /\ queue' \in Queues /\ populating' \subseteq Keys
        /\ populatedFor' \in Keys \cup {None}
        /\ itemType' # "episode" => queue' = queue /\ populatedFor' = populatedFor
        /\ itemType' = "episode" /\ populatedFor # nowPlaying =>
             /\ populatedFor' = nowPlaying
             /\ nowPlaying \in Range(queue'.items) =>
                  queue'.at > 0 /\ queue'.items[queue'.at] = nowPlaying
    BY <1>2, <2>1, <2>2, AutoPopulateIs
  <2>4. /\ navFor' \in Keys \cup {None}
        /\ neighbours' \in [prev : Keys \cup {None}, next : Keys \cup {None}]
    BY <1>2, <2>1, NavigationIs
  <2>5. QueueTyped'
    BY <1>1, <1>2, <1>3, <2>3, <2>4 DEF QueueTyped
  <2>6. CASE itemType' = "episode"
    <3>1. populatedFor # nowPlaying
      BY <1>2, <1>3, <1>5, <2>6 DEF Follows
    <3>. QED  BY <1>1, <1>2, <1>3, <2>3, <2>5, <2>6, <3>1 DEF Follows, Latch, AtItsEntry
  <2>7. CASE itemType' = "movie"
    <3>1. populatedFor' \in Movies \cup {None}
      <4>1. populatedFor' = populatedFor
        BY <2>3, <2>7
      <4>. QED  BY <1>2, <1>3, <2>7, <4>1 DEF Follows
    <3>. QED  BY <1>1, <2>5, <2>7, <3>1 DEF Follows, Latch
  <2>. QED  BY <1>3, <2>6, <2>7
<1>. QED  BY <1>4, <1>5

LEMMA PopulatedKeeps ==
    ASSUME QueueTyped, Follows, Latch, NEW key \in populating, Populated(key)
    PROVE  QueueTyped' /\ Follows' /\ Latch'
<1>1. /\ populating' = populating \ {key}
      /\ UNCHANGED <<nowPlaying, file, itemType, populatedFor, neighbours, navFor, overlay,
                     minimized, eof, acts>>
  BY Zenon DEF Populated
<1>2. CASE UNCHANGED <<queue, displaced>>
  <2>1. QueueTyped'
    BY <1>1, <1>2 DEF QueueTyped
  <2>2. AtItsEntry' <=> AtItsEntry
    BY <1>1, <1>2 DEF AtItsEntry
  <2>3. Follows' /\ Latch'
    BY <1>1, <1>2, <2>2, Zenon DEF Follows, Latch
  <2>. QED  BY <2>1, <2>3
<1>3. ASSUME KindOf(key) = "episode", NEW items \in Remaining(key),
             queue' = [items |-> items, at |-> 1, source |-> "auto-episodes", built |-> FALSE],
             displaced' = (displaced \/ key # nowPlaying)
      PROVE  QueueTyped' /\ Follows' /\ Latch'
  <2>1. key \in Keys \ Movies
    BY <1>3 DEF QueueTyped, KindOf
  <2>2. items \in Seq(Keys) /\ Len(items) > 0 /\ items[1] = key
    BY <2>1, RemainingIs
  <2>3. 1 \in 0..Len(items) /\ "auto-episodes" \in Sources
    BY <2>2 DEF Sources
  <2>4. FALSE \in BOOLEAN
    BY Zenon
  <2>5. queue' \in Queues /\ queue'.items = items /\ queue'.at = 1
    BY <1>3, <2>2, <2>3, <2>4, QueueMade, Zenon
  <2>6. /\ displaced => displaced'
        /\ key = nowPlaying \/ displaced'
    BY <1>3, Zenon
  <2>7. key = nowPlaying => AtItsEntry'
    BY <1>1, <2>2, <2>5 DEF AtItsEntry
  <2>8. QueueTyped'
    BY <1>1, <2>5 DEF QueueTyped
  <2>9. Follows'
    BY <1>1, <2>6, <2>7, Zenon DEF Follows
  <2>10. Latch'
    BY <1>1, <2>6, Zenon DEF Latch
  <2>. QED  BY <2>8, <2>9, <2>10
<1>4. \/ UNCHANGED <<queue, displaced>>
      \/ /\ KindOf(key) = "episode"
         /\ \E items \in Remaining(key) :
              queue' = [items |-> items, at |-> 1, source |-> "auto-episodes",
                        built |-> FALSE]
         /\ displaced' = (displaced \/ key # nowPlaying)
  BY Zenon DEF Populated
<1>. QED  BY <1>2, <1>3, <1>4

LEMMA NavigatedKeeps ==
    ASSUME QueueTyped, Follows, Latch, Navigated
    PROVE  QueueTyped' /\ Follows' /\ Latch'
<1>1. /\ navFor' = None
      /\ UNCHANGED <<nowPlaying, file, itemType, queue, populatedFor, populating, overlay,
                     minimized, eof, acts, displaced>>
  BY Zenon DEF Navigated
<1>2. neighbours' \in [prev : Keys \cup {None}, next : Keys \cup {None}]
  <2>1. \/ neighbours' = neighbours
        \/ \E p \in {None, PreviousEpisode(navFor)}, n \in {None, NextEpisode(navFor)} :
             neighbours' = [prev |-> p, next |-> n]
    BY Zenon DEF Navigated
  <2>2. \A p \in {None, PreviousEpisode(navFor)}, n \in {None, NextEpisode(navFor)} :
           p \in Keys \cup {None} /\ n \in Keys \cup {None}
    BY NeighboursAre
  <2>3. CASE neighbours' = neighbours
    BY <2>3 DEF QueueTyped
  <2>4. ASSUME NEW p \in Keys \cup {None}, NEW n \in Keys \cup {None},
               neighbours' = [prev |-> p, next |-> n]
        PROVE  neighbours' \in [prev : Keys \cup {None}, next : Keys \cup {None}]
    BY <2>4
  <2>. QED  BY <2>1, <2>2, <2>3, <2>4, Zenon
<1>3. QueueTyped'
  BY <1>1, <1>2 DEF QueueTyped
<1>4. AtItsEntry' <=> AtItsEntry
  BY <1>1 DEF AtItsEntry
<1>5. Follows' /\ Latch'
  BY <1>1, <1>4, Zenon DEF Follows, Latch
<1>. QED  BY <1>3, <1>5

\* The edits: the entry that the queue is at stays the one it was, or the item
\* has lost its place.
LEMMA EditsKeeps ==
    ASSUME QueueTyped, Follows, Latch, NEW q \in Queues, Edits(q), acts' \in 0..MaxActs,
           displaced => displaced',
           Range(q.items) \subseteq Range(queue.items),
           queue.at > 0 =>
             displaced' \/ (q.at > 0 /\ q.items[q.at] = queue.items[queue.at])
    PROVE  QueueTyped' /\ Follows' /\ Latch'
<1>1. /\ queue' = q /\ eof' = eof
      /\ UNCHANGED <<nowPlaying, file, itemType, populatedFor, populating, neighbours,
                     navFor, overlay, minimized>>
  BY Zenon DEF Edits, Stays
<1>2. AtItsEntry => displaced' \/ AtItsEntry'
  <2>1. AtItsEntry => queue.at > 0 /\ queue.items[queue.at] = nowPlaying
    BY Zenon DEF AtItsEntry
  <2>2. q.at > 0 /\ q.items[q.at] = nowPlaying => AtItsEntry'
    BY <1>1, Zenon DEF AtItsEntry
  <2>. QED  BY <2>1, <2>2, Zenon
<1>3. QueueTyped'
  BY <1>1 DEF QueueTyped
<1>4. \A key : key \in Range(queue'.items) \ Movies => key \in Range(queue.items) \ Movies
  BY <1>1
<1>5. Follows'
  BY <1>1, <1>2, <1>4, Zenon DEF Follows
<1>6. Latch'
  BY <1>1, Zenon DEF Latch
<1>. QED  BY <1>3, <1>5, <1>6

\* What a queue is made of.
LEMMA QueueIs ==
    ASSUME QueueTyped
    PROVE  /\ queue.items \in Seq(Keys) /\ queue.at \in 0..Len(queue.items)
           /\ queue.source \in Sources /\ queue.built \in BOOLEAN
           /\ Len(queue.items) \in Nat /\ DOMAIN queue.items = 1..Len(queue.items)
<1>1. queue \in Queues
  BY DEF QueueTyped
<1>2. /\ queue.items \in Seq(Keys) /\ queue.at \in Nat /\ queue.at <= Len(queue.items)
      /\ queue.source \in Sources
  BY <1>1 DEF Queues
<1>3. queue.built \in BOOLEAN
  <2>1. queue \in [items : Seq(Keys), at : Nat, source : Sources, built : BOOLEAN]
    BY <1>1 DEF Queues
  <2>. QED  BY <2>1, Zenon
<1>. QED  BY <1>2, <1>3

LEMMA RemoveFromQueueKeeps ==
    ASSUME QueueTyped, Follows, Latch, NEW i \in DOMAIN queue.items, RemoveFromQueue(i),
           acts' \in 0..MaxActs
    PROVE  QueueTyped' /\ Follows' /\ Latch'
<1>. DEFINE items == RemoveAt(queue.items, i)
            at == IF i < queue.at THEN queue.at - 1
                  ELSE IF i = queue.at /\ i > Len(items) THEN Len(items)
                  ELSE queue.at
            q == [items |-> items, at |-> at, source |-> None, built |-> queue.built]
<1>1. Edits(q) /\ displaced' = (displaced \/ i = queue.at)
  BY Zenon DEF RemoveFromQueue
<1>2. /\ queue.items \in Seq(Keys) /\ queue.at \in 0..Len(queue.items)
      /\ queue.built \in BOOLEAN /\ Len(queue.items) \in Nat
      /\ i \in 1..Len(queue.items)
  BY QueueIs, Zenon
<1>3. /\ items \in Seq(Keys) /\ Len(items) = Len(queue.items) - 1
      /\ \A j \in 1..(Len(queue.items) - 1) :
            items[j] = queue.items[IF j < i THEN j ELSE j + 1]
  BY <1>2, RemoveAtIs
<1>. HIDE DEF items
<1>4. at \in 0..Len(items)
  BY <1>2, <1>3
<1>8. queue.at > 0 /\ i # queue.at =>
         /\ at \in 1..(Len(queue.items) - 1)
         /\ (IF at < i THEN at ELSE at + 1) = queue.at
  BY <1>2, <1>3
<1>9. None \in Sources
  BY DEF Sources
<1>. HIDE DEF at
<1>10. queue.at > 0 /\ i # queue.at => at > 0 /\ items[at] = queue.items[queue.at]
  BY <1>3, <1>8
<1>5. q \in Queues /\ q.items = items /\ q.at = at
  BY <1>2, <1>3, <1>4, <1>9, QueueMade
<1>. HIDE DEF q
<1>6. Range(q.items) \subseteq Range(queue.items)
  BY <1>2, <1>3, <1>5 DEF Range
<1>7. (displaced => displaced') /\ (i = queue.at => displaced')
  BY <1>1, Zenon
<1>. QED  BY <1>1, <1>10, <1>5, <1>6, <1>7, EditsKeeps

\* An entry moved to another place.
Relocated(list, from, to) == InsertAt(RemoveAt(list, from), to, list[from])
Was(from, j) == IF j < from THEN j ELSE j + 1

IsRelocated(list2, list, n, from, to) ==
    /\ list2 \in Seq(Keys) /\ Len(list2) = n /\ list2[to] = list[from]
    /\ \A j \in 1..n : j < to => list2[j] = list[Was(from, j)]
    /\ \A j \in 1..n : j > to => list2[j] = list[Was(from, j - 1)]

LEMMA RelocatedIs ==
    ASSUME NEW list \in Seq(Keys), NEW n, n = Len(list), NEW from \in 1..n, NEW to \in 1..n
    PROVE  IsRelocated(Relocated(list, from, to), list, n, from, to)
<1>. DEFINE rest == RemoveAt(list, from)
            list2 == InsertAt(rest, to, list[from])
<1>1. n \in Nat /\ from \in 1..n /\ to \in 1..n /\ list[from] \in Keys
  OBVIOUS
<1>2. /\ rest \in Seq(Keys) /\ Len(rest) = n - 1
      /\ \A j \in 1..(n - 1) : rest[j] = list[IF j < from THEN j ELSE j + 1]
  BY RemoveAtIs
<1>. HIDE DEF rest
<1>3. Len(rest) + 1 = n
  BY <1>1, <1>2
<1>4. /\ list2 \in Seq(Keys) /\ Len(list2) = n /\ list2[to] = list[from]
      /\ \A j \in 1..n : /\ j < to => list2[j] = rest[j]
                         /\ j > to => list2[j] = rest[j - 1]
  <2>1. IsInserted(list2, Keys, rest, n, to, list[from])
    BY <1>1, <1>2, <1>3, InsertAtIs
  <2>. QED  BY <2>1, Zenon DEF IsInserted
<1>. HIDE DEF list2
<1>5. ASSUME NEW j \in 1..n, j < to PROVE list2[j] = list[IF j < from THEN j ELSE j + 1]
  <2>1. j \in 1..(n - 1) /\ list2[j] = rest[j]
    BY <1>1, <1>4, <1>5
  <2>. QED  BY <1>2, <2>1
<1>6. ASSUME NEW j \in 1..n, j > to
      PROVE  list2[j] = list[IF j - 1 < from THEN j - 1 ELSE j - 1 + 1]
  <2>1. j - 1 \in 1..(n - 1) /\ list2[j] = rest[j - 1]
    BY <1>1, <1>4, <1>6
  <2>. QED  BY <1>2, <2>1
<1>7. list2 = Relocated(list, from, to)
  BY Zenon DEF list2, rest, Relocated
<1>8. /\ \A j \in 1..n : j < to => list2[j] = list[Was(from, j)]
      /\ \A j \in 1..n : j > to => list2[j] = list[Was(from, j - 1)]
  BY <1>5, <1>6, Zenon DEF Was
<1>. QED  BY <1>4, <1>7, <1>8, Zenon DEF IsRelocated

LEMMA ReorderQueueKeeps ==
    ASSUME QueueTyped, Follows, Latch, NEW from \in 1..Len(queue.items),
           NEW to \in 1..Len(queue.items), ReorderQueue(from, to), acts' \in 0..MaxActs
    PROVE  QueueTyped' /\ Follows' /\ Latch'
<1>. DEFINE list2 == Relocated(queue.items, from, to)
            at == IF from = queue.at THEN to
                  ELSE IF from < queue.at /\ to >= queue.at THEN queue.at - 1
                  ELSE IF from > queue.at /\ to <= queue.at THEN queue.at + 1
                  ELSE queue.at
            n == Len(queue.items)
            q == [items |-> list2, at |-> at, source |-> None, built |-> queue.built]
<1>1. Edits(q) /\ displaced' = displaced
  BY Zenon DEF ReorderQueue, Relocated
<1>2. /\ queue.items \in Seq(Keys) /\ queue.at \in 0..n /\ n \in Nat
      /\ from \in 1..n /\ to \in 1..n
  BY QueueIs, Zenon
<1>3. queue.built \in BOOLEAN /\ DOMAIN queue.items = 1..n
  BY QueueIs, Zenon
<1>4. /\ list2 \in Seq(Keys) /\ Len(list2) = n /\ list2[to] = queue.items[from]
      /\ \A j \in 1..n : j < to => list2[j] = queue.items[Was(from, j)]
      /\ \A j \in 1..n : j > to => list2[j] = queue.items[Was(from, j - 1)]
  <2>1. IsRelocated(list2, queue.items, n, from, to)
    BY <1>2, RelocatedIs
  <2>. QED  BY <2>1, Zenon DEF IsRelocated
<1>. HIDE DEF list2, n
<1>5. \A j \in 1..n : j < to => Was(from, j) \in 1..n
  BY <1>2 DEF Was
<1>6. \A j \in 1..n : j > to => Was(from, j - 1) \in 1..n
  BY <1>2 DEF Was
<1>7. at \in 0..n /\ (queue.at > 0 => at \in 1..n)
  BY <1>2, SMTT(20)
<1>8. queue.at > 0 => \/ at = to /\ from = queue.at
                      \/ at < to /\ Was(from, at) = queue.at
                      \/ at > to /\ Was(from, at - 1) = queue.at
  BY <1>2 DEF Was
<1>. HIDE DEF at
<1>9. queue.at > 0 => at > 0 /\ list2[at] = queue.items[queue.at]
  BY <1>4, <1>7, <1>8
<1>10. \A j \in 1..n : \E i \in 1..n : list2[j] = queue.items[i]
  <2> SUFFICES ASSUME NEW j \in 1..n PROVE \E i \in 1..n : list2[j] = queue.items[i]
    OBVIOUS
  <2>1. j < to \/ j = to \/ j > to
    BY <1>2
  <2>. QED  BY <1>2, <1>4, <1>5, <1>6, <2>1, Zenon
<1>11. None \in Sources
  BY DEF Sources
<1>12. q \in Queues /\ q.items = list2 /\ q.at = at
  BY <1>3, <1>4, <1>7, <1>11, QueueMade
<1>. HIDE DEF q
<1>13. DOMAIN q.items = 1..n
  BY <1>4, <1>12
<1>14. Range(q.items) \subseteq Range(queue.items)
  BY <1>3, <1>10, <1>12, <1>13, SMTT(20) DEF Range
<1>. QED  BY <1>1, <1>9, <1>12, <1>14, EditsKeeps, Zenon

LEMMA ClearQueueKeeps ==
    ASSUME QueueTyped, Follows, Latch, ClearQueue, acts' \in 0..MaxActs
    PROVE  QueueTyped' /\ Follows' /\ Latch'
<1>1. /\ queue' = EmptyQueue /\ eof' = eof
      /\ UNCHANGED <<nowPlaying, file, itemType, populatedFor, populating, neighbours,
                     navFor, overlay, minimized, displaced>>
  BY Zenon DEF ClearQueue, Edits, Stays
<1>2. queue' \in Queues /\ nowPlaying \notin Range(queue'.items)
  BY <1>1, EmptyIs DEF Range
<1>3. QueueTyped'
  BY <1>1, <1>2 DEF QueueTyped
<1>4. Follows' /\ Latch'
  BY <1>1, <1>2, Zenon DEF Follows, Latch
<1>. QED  BY <1>3, <1>4

\* The number of acts, and the flags.
LEMMA ActsKept ==
    ASSUME acts \in 0..MaxActs, QueueNext \/ UNCHANGED queueVars
    PROVE  acts' \in 0..MaxActs
<1>1. Acts => acts' \in 0..MaxActs
  BY QueueAssumption DEF Acts
<1>2. \A q : Edits(q) => Acts
  BY Zenon DEF Edits
<1>3. Panel => Acts
  BY <1>2, Zenon DEF Panel, RemoveFromQueue, ReorderQueue, ClearQueue, Jump
<1>4. \/ Acts \/ acts' = acts
  BY <1>3, Zenon DEF QueueNext, Prepared, ReachesEnd, Eof, PlayNow, Populated, Navigated, Play,
     PlayAll, Skip, Close, Rewind, Minimize, RestoreFromMinimize, ToggleAutoPlay, queueVars
<1>. QED  BY <1>1, <1>4

LEMMA FlagsMoved ==
    ASSUME QueueFlags, NEW key, NEW q, NEW o, MovesTo(key, q, o)
    PROVE  displaced' \in BOOLEAN
BY Zenon DEF MovesTo

LEMMA FlagsAdvanced ==
    ASSUME QueueFlags, NEW o, NEW mini \in BOOLEAN,
           AdvanceNext(o, mini) \/ AdvancePrev \/ OverlayIn(mini)
    PROVE  minimized' \in BOOLEAN /\ displaced' \in BOOLEAN
<1>1. ASSUME NEW p, NEW m \in BOOLEAN, AdvanceNext(p, m)
      PROVE  minimized' \in BOOLEAN /\ displaced' \in BOOLEAN
  BY <1>1, FlagsMoved, Zenon DEF AdvanceNext, QueueFlags
<1>2. CASE AdvancePrev
  BY <1>2, FlagsMoved, Zenon DEF AdvancePrev, QueueFlags
<1>3. CASE OverlayIn(mini)
  BY <1>1, <1>3, Zenon DEF OverlayIn, QueueFlags
<1>. QED  BY <1>1, <1>2, <1>3, Zenon

LEMMA FlagsKept ==
    ASSUME QueueFlags, QueueNext \/ UNCHANGED queueVars
    PROVE  QueueFlags'
<1>1. CASE \/ Prepared \/ Navigated \/ Close \/ Rewind \/ RestoreFromMinimize \/ ToggleAutoPlay
           \/ ReachesEnd \/ \E key \in populating : Populated(key)
           \/ UNCHANGED queueVars
  BY <1>1, Zenon DEF QueueFlags, Prepared, Navigated, Close, Closes, Rewind, RestoreFromMinimize,
     ToggleAutoPlay, ReachesEnd, Populated, Stays, queueVars
<1>2. CASE \/ \E key \in Keys : Play(key)
           \/ \E items \in PlayLists : PlayAll(items)
           \/ \E i \in DOMAIN queue.items : Jump(i)
  BY <1>2, FlagsMoved, Zenon DEF QueueFlags, Play, PlayAll, Jump, Stays
<1>3. CASE PlayNow \/ Skip \/ Minimize
  BY <1>3, FlagsAdvanced, Zenon DEF QueueFlags, PlayNow, Skip, Minimize, Stays
<1>4. CASE Eof
  BY <1>4, FlagsAdvanced, Zenon DEF QueueFlags, Eof, Closes
<1>5. CASE \/ \E i, j : ReorderQueue(i, j)
           \/ \E i : RemoveFromQueue(i)
           \/ ClearQueue
  BY <1>5, Zenon DEF QueueFlags, ReorderQueue, RemoveFromQueue, ClearQueue, Edits, Stays
<1>. QED  BY <1>1, <1>2, <1>3, <1>4, <1>5, Zenon DEF QueueNext, Panel

QueueIInv == QueueTyped /\ QueueFlags /\ Follows /\ Latch

LEMMA QueueInitially ==
    ASSUME QueueInit
    PROVE  QueueIInv
<1>1. QueueTyped
  <2>1. queue \in Queues
    BY EmptyIs DEF QueueInit
  <2>2. 0 \in 0..MaxActs
    BY QueueAssumption
  <2>. QED  BY <2>1, <2>2 DEF QueueInit, QueueTyped, Alone
<1>2. QueueFlags
  BY Zenon DEF QueueInit, QueueFlags
<1>3. Follows /\ Latch
  BY DEF QueueInit, Follows, Latch
<1>. QED  BY <1>1, <1>2, <1>3 DEF QueueIInv

LEMMA QueueStep ==
    ASSUME QueueIInv, [QueueNext]_queueVars
    PROVE  QueueIInv'
<1>0. QueueTyped /\ QueueFlags /\ Follows /\ Latch
  BY DEF QueueIInv
<1>1. acts' \in 0..MaxActs
  <2>1. acts \in 0..MaxActs
    BY <1>0, Zenon DEF QueueTyped
  <2>. QED  BY <2>1, ActsKept, Zenon
<1>2. QueueFlags'
  BY <1>0, FlagsKept, Zenon
<1>3. CASE \/ ReachesEnd \/ PlayNow \/ \E key \in Keys : Play(key)
           \/ \E items \in PlayLists : PlayAll(items)
           \/ Skip \/ Rewind \/ Minimize \/ RestoreFromMinimize \/ ToggleAutoPlay
           \/ \E i \in DOMAIN queue.items : Jump(i)
           \/ UNCHANGED queueVars
  <2>1. Shifts \/ Stands
    BY <1>0, <1>3, MovingSteps, Zenon
  <2>. QED  BY <1>0, <1>1, <1>2, <2>1, ShiftsKeeps, StandsKeeps, Zenon DEF QueueIInv
<1>4. CASE Eof
  BY <1>0, <1>1, <1>2, <1>4, EofKeeps, Zenon DEF QueueIInv
<1>5. CASE Close
  <2>1. Closes
    BY <1>5, Zenon DEF Close
  <2>. QED  BY <1>0, <1>1, <1>2, <2>1, ClosesKeeps, Zenon DEF QueueIInv
<1>6. CASE Prepared
  BY <1>0, <1>2, <1>6, PreparedKeeps, Zenon DEF QueueIInv
<1>7. CASE \E key \in populating : Populated(key)
  <2>1. PICK key \in populating : Populated(key)
    BY <1>7
  <2>2. QueueTyped' /\ Follows' /\ Latch'
    BY <1>0, <2>1, PopulatedKeeps
  <2>. QED  BY <1>2, <2>2 DEF QueueIInv
<1>8. CASE Navigated
  BY <1>0, <1>2, <1>8, NavigatedKeeps, Zenon DEF QueueIInv
<1>9. CASE \E i \in DOMAIN queue.items : RemoveFromQueue(i)
  <2>1. PICK i \in DOMAIN queue.items : RemoveFromQueue(i)
    BY <1>9
  <2>2. QueueTyped' /\ Follows' /\ Latch'
    BY <1>0, <1>1, <2>1, RemoveFromQueueKeeps
  <2>. QED  BY <1>2, <2>2 DEF QueueIInv
<1>10. ASSUME NEW i \in DOMAIN queue.items,
              \/ i > 1 /\ ReorderQueue(i, i - 1)
              \/ i < Len(queue.items) /\ ReorderQueue(i, i + 1)
       PROVE  QueueIInv'
  <2>1. i \in 1..Len(queue.items) /\ Len(queue.items) \in Nat
    BY <1>0, QueueIs
  <2>2. i > 1 => i - 1 \in 1..Len(queue.items)
    BY <2>1
  <2>3. i < Len(queue.items) => i + 1 \in 1..Len(queue.items)
    BY <2>1
  <2>. QED  BY <1>0, <1>1, <1>2, <1>10, <2>1, <2>2, <2>3, ReorderQueueKeeps, Zenon DEF QueueIInv
<1>11. CASE ClearQueue
  BY <1>0, <1>1, <1>2, <1>11, ClearQueueKeeps, Zenon DEF QueueIInv
<1>12. CASE Panel
  BY <1>3, <1>9, <1>10, <1>11, <1>12, Zenon DEF Panel
<1>. QED
  BY <1>3, <1>4, <1>5, <1>6, <1>7, <1>8, <1>12, Zenon DEF QueueNext

LEMMA QueueAlways == QueueSpec => []QueueIInv
<1>1. QueueInit => QueueIInv
  BY QueueInitially
<1>2. QueueIInv /\ [QueueNext]_queueVars => QueueIInv'
  BY QueueStep
<1>. QED  BY <1>1, <1>2, PTL DEF QueueSpec

\* PlaybackQueue's type invariant.
THEOREM PlaybackTypeCorrect == QueueSpec => []QueueTypeOK
<1>1. ASSUME QueueIInv PROVE QueueTypeOK
  <2>1. QueueTyped /\ QueueFlags
    BY <1>1 DEF QueueIInv
  <2>2. /\ queue.items \in Seq(Keys) /\ queue.at \in 0..Len(queue.items)
        /\ queue.source \in {None, "auto-episodes", "user-built"}
    BY <2>1, QueueIs DEF Sources
  <2>3. {minimized, autoPlay, eof, displaced, queue.built} \subseteq BOOLEAN
    <3>1. queue.built \in BOOLEAN
      BY <2>1, QueueIs, Zenon
    <3>. QED  BY <2>1, <3>1, Zenon DEF QueueFlags
  <2>4. Range(neighbours) \subseteq Keys \cup {None}
    BY <2>1 DEF QueueTyped, Range
  <2>5. (file = "none") = (nowPlaying = None)
    BY <2>1 DEF QueueTyped
  <2>. QED  BY <2>1, <2>2, <2>3, <2>4, <2>5, Zenon DEF QueueTyped, QueueTypeOK
<1>. QED  BY <1>1, QueueAlways, PTL

\* When an episode plays that is in the queue, the queue is at its entry,
\* whatever opened it and however the queue was edited (QueueContext,
\* useQueueAutoPopulate), but for the exceptions displaced names.
THEOREM QueueInStep == QueueSpec => []InStep
<1>1. ASSUME QueueIInv PROVE InStep
  <2>1. Follows
    BY <1>1 DEF QueueIInv
  <2>2. nowPlaying \notin Movies => KindOf(nowPlaying) = "episode"
    BY DEF KindOf
  <2>3. nowPlaying \in Range(queue.items) \ Movies => nowPlaying \notin Movies
    OBVIOUS
  <2>. QED  BY <2>1, <2>2, <2>3, Zenon DEF Follows, InStep
<1>. QED  BY <1>1, QueueAlways, PTL

\* At the end of an item with another entry after it, the overlay is up or the
\* next item is open (usePostPlay, Player's handleEnded); never a black frame.
THEOREM NoBlackFrame == QueueSpec => []NeverBlack
<1>1. ASSUME QueueIInv PROVE NeverBlack
  <2>1. Latch /\ overlay \in {"armed", "shown", "spent"}
    BY <1>1 DEF QueueIInv, QueueTyped
  <2>. QED  BY <2>1 DEF Latch, NeverBlack, Screen
<1>. QED  BY <1>1, QueueAlways, PTL

-----------------------------------------------------------------------------
(* PlayerGeometry: when all is at rest the video has the window's rectangle, *)
(* for any sizes and number of resizes.                                      *)

GeometryTasks ==
    [do : {"initial", "flush", "early"}] \cup [do : {"fullscreen", "resync"}, size : Sizes]

\* What is not Boolean and matters to the rectangle.
GeometryTyped ==
    /\ winSize \in Sizes /\ inMini \in BOOLEAN
    /\ pending \in Sizes \cup {None} /\ normalSize \in Sizes \cup {None}
    /\ lastRect \in Rects \cup {None} /\ video \in Rects \cup {None}
    /\ flusher \in {"gone", "parked", "asleep", "outlasted"}
    /\ mainTasks \in Seq(GeometryTasks)

\* The main thread has a closure that does one of these.
HasTask(does) == \E i \in 1..Len(mainTasks) : mainTasks[i].do \in does

\* Another sync of the size there is will come, or was dropped; or the flush
\* will come.
SyncComes == resized \/ dropped \/ HasTask({"initial", "early", "resync", "fullscreen"})
FlushComes ==
    \/ flusher \in {"asleep", "outlasted"}
    \/ flusher = "parked" /\ notified
    \/ HasTask({"flush"})

\* The dedup cache says what a video thread has, if there is one.
CacheFits ==
    /\ render # "on" => video = None
    /\ render = "started" /\ ~astray => lastRect = None
    /\ render = "on" /\ ~astray => lastRect = video

\* A flush that is claimed comes as long as there is a flusher.
ClaimHolds == scheduled => flusher = "gone" \/ FlushComes

\* What is pending is what the window has, or is soon replaced or not applied.
PendingFits ==
    ~astray => pending \in {None, winSize} \/ resized \/ dropped \/ inFull

\* The video has its rectangle or is to get it.
RectOwed ==
    render = "on" /\ ~astray =>
      \/ video = Inset(winSize)
      \/ SyncComes
      \/ pending = winSize /\ FlushComes

\* The inductive invariant.
GeometryInv == GeometryTyped /\ CacheFits /\ ClaimHolds /\ PendingFits /\ RectOwed

-----------------------------------------------------------------------------
\* A closure is run, and one more is handed over.
LEMMA TaskRun ==
    ASSUME GeometryTyped, NEW do, NextTask(do)
    PROVE  /\ mainTasks' \in Seq(GeometryTasks)
           /\ Head(mainTasks) \in GeometryTasks /\ Head(mainTasks).do = do
           /\ \A does : do \notin does => (HasTask(does)' <=> HasTask(does))
<1>1. /\ mainTasks \in Seq(GeometryTasks) /\ mainTasks # <<>>
      /\ Head(mainTasks).do = do /\ mainTasks' = Tail(mainTasks)
  BY DEF NextTask, GeometryTyped
<1>2. mainTasks' \in Seq(GeometryTasks) /\ Head(mainTasks) \in GeometryTasks
  BY <1>1
<1>. DEFINE n == Len(mainTasks)
<1>3. /\ n \in Nat /\ n > 0 /\ mainTasks[1].do = do /\ Len(mainTasks') = n - 1
      /\ \A i \in 1..(n - 1) : mainTasks'[i] = mainTasks[i + 1]
  BY <1>1
<1>. HIDE DEF n
<1>4. ASSUME NEW does, do \notin does PROVE HasTask(does)' <=> HasTask(does)
  <2>1. ASSUME HasTask(does) PROVE HasTask(does)'
    <3>1. PICK i \in 1..n : mainTasks[i].do \in does
      BY <2>1 DEF HasTask, n
    <3>2. i - 1 \in 1..(n - 1) /\ (i - 1) + 1 = i
      BY <1>3, <1>4, <3>1
    <3>3. mainTasks'[i - 1] = mainTasks[i]
      BY <1>3, <3>2
    <3>. QED  BY <1>3, <3>1, <3>2, <3>3 DEF HasTask
  <2>2. ASSUME HasTask(does)' PROVE HasTask(does)
    <3>1. PICK i \in 1..(n - 1) : mainTasks'[i].do \in does
      BY <1>3, <2>2 DEF HasTask
    <3>2. i + 1 \in 1..n /\ mainTasks[i + 1].do \in does
      BY <1>3, <3>1
    <3>. QED  BY <3>2 DEF HasTask, n
  <2>. QED  BY <2>1, <2>2
<1>. QED  BY <1>1, <1>2, <1>4

LEMMA TaskGiven ==
    ASSUME GeometryTyped, NEW task \in GeometryTasks, mainTasks' = Append(mainTasks, task)
    PROVE  /\ mainTasks' \in Seq(GeometryTasks)
           /\ \A does : HasTask(does)' <=> HasTask(does) \/ task.do \in does
<1>. DEFINE n == Len(mainTasks)
<1>1. mainTasks \in Seq(GeometryTasks) /\ n \in Nat
  BY DEF GeometryTyped
<1>2. /\ mainTasks' \in Seq(GeometryTasks) /\ Len(mainTasks') = n + 1
      /\ mainTasks'[n + 1] = task /\ \A i \in 1..n : mainTasks'[i] = mainTasks[i]
  BY <1>1
<1>. HIDE DEF n
<1>3. ASSUME NEW does PROVE HasTask(does)' <=> HasTask(does) \/ task.do \in does
  <2>1. ASSUME HasTask(does) \/ task.do \in does PROVE HasTask(does)'
    <3>1. CASE task.do \in does
      BY <1>1, <1>2, <3>1 DEF HasTask
    <3>2. CASE HasTask(does)
      <4>1. PICK i \in 1..n : mainTasks[i].do \in does
        BY <3>2 DEF HasTask, n
      <4>2. i \in 1..(n + 1) /\ mainTasks'[i] = mainTasks[i]
        BY <1>1, <1>2
      <4>. QED  BY <1>2, <4>1, <4>2 DEF HasTask
    <3>. QED  BY <2>1, <3>1, <3>2
  <2>2. ASSUME HasTask(does)', task.do \notin does PROVE HasTask(does)
    <3>1. PICK i \in 1..(n + 1) : mainTasks'[i].do \in does
      BY <1>2, <2>2 DEF HasTask
    <3>2. i \in 1..n
      BY <1>1, <1>2, <2>2, <3>1
    <3>. QED  BY <1>2, <3>1, <3>2 DEF HasTask, n
  <2>. QED  BY <2>1, <2>2
<1>. QED  BY <1>2, <1>3

LEMMA TasksSame ==
    ASSUME UNCHANGED mainTasks PROVE \A does : HasTask(does)' <=> HasTask(does)
BY DEF HasTask

-----------------------------------------------------------------------------
\* What every sync does to the cache, the video and the flusher.
Syncs ==
    /\ lastRect' \in Rects \cup {None} /\ video' \in Rects \cup {None}
    /\ pending' \in Sizes \cup {None}
    /\ render # "on" => video' = None
    /\ render = "started" /\ ~astray' => lastRect' = None
    /\ render = "on" /\ ~astray' => lastRect' = video'
    /\ flusher' = flusher \/ (flusher = "asleep" /\ flusher' = "outlasted")
    /\ astray /\ ~astray' => video' = Inset(winSize) /\ pending' = None

LEMMA InsetIs ==
    ASSUME GeometryTyped, NEW size \in Sizes
    PROVE  Inset(size) \in Rects /\ Inset(size) # None
BY GeometryAssumption DEF GeometryTyped, Inset, Rects

LEMMA LosesIs ==
    ASSUME NEW reason, Loses(reason), ~astray'
    PROVE  \/ /\ video' = Inset(winSize) /\ lastRect' = video'
              /\ ~astray \/ pending' = None
           \/ ~astray /\ ~reason
BY Zenon DEF Loses

LEMMA PassesIs ==
    ASSUME GeometryInv, NEW size \in Sizes, NEW held, NEW left \in Sizes \cup {None},
           PassesThrottle(size, held, left)
    PROVE  /\ Syncs /\ pending' = left
           /\ render = "on" /\ ~astray' /\ size = winSize => video' = Inset(winSize)
<1>1. /\ pending' = left
      /\ flusher' = flusher \/ (flusher = "asleep" /\ flusher' = "outlasted")
      /\ lastRect = Inset(size) => lastRect' = lastRect /\ video' = video
      /\ lastRect # Inset(size) =>
           /\ lastRect' = Inset(size)
           /\ video' = IF render = "on" /\ ~held THEN Inset(size) ELSE video
      /\ Loses(lastRect # Inset(size) /\ (held \/ render = "started"))
  BY DEF PassesThrottle, Applies
<1>2. ASSUME ~astray'
      PROVE  \/ /\ video' = Inset(winSize) /\ lastRect' = video'
                /\ ~astray \/ pending' = None
             \/ ~astray /\ ~(lastRect # Inset(size) /\ (held \/ render = "started"))
  BY <1>1, <1>2, LosesIs
<1>3. Inset(size) \in Rects /\ Inset(size) # None /\ Inset(winSize) # None
  BY InsetIs DEF GeometryInv, GeometryTyped
<1>4. lastRect' \in Rects \cup {None} /\ video' \in Rects \cup {None}
  BY <1>1, <1>3 DEF GeometryInv, GeometryTyped
<1>5. render # "on" => video' = None
  BY <1>1 DEF GeometryInv, CacheFits
<1>6. render = "started" => astray'
  <2>. SUFFICES ASSUME render = "started", ~astray' PROVE FALSE
    OBVIOUS
  <2>1. ~astray /\ lastRect = Inset(size)
    BY <1>2, <1>3, <1>5
  <2>. QED  BY <1>3, <2>1 DEF GeometryInv, CacheFits
<1>7. render = "on" /\ ~astray' => lastRect' = video'
  BY <1>1, <1>2 DEF GeometryInv, CacheFits
<1>8. astray /\ ~astray' => video' = Inset(winSize) /\ pending' = None
  BY <1>2
<1>9. render = "on" /\ ~astray' /\ size = winSize => video' = Inset(winSize)
  BY <1>1, <1>2, <1>7
<1>. QED  BY <1>1, <1>4, <1>5, <1>6, <1>7, <1>8, <1>9 DEF Syncs

\* No sync, for a reason that counts if the video has not its rectangle.
LEMMA NotAppliedIs ==
    ASSUME GeometryInv, NEW reason, NotApplied, pending' \in Sizes \cup {None},
           Loses(reason)
    PROVE  /\ Syncs
           /\ ~astray' => video' = Inset(winSize) \/ (~astray /\ ~reason)
<1>1. lastRect' = lastRect /\ video' = video /\ flusher' = flusher
  BY DEF NotApplied
<1>2. ASSUME ~astray'
      PROVE  \/ /\ video' = Inset(winSize) /\ lastRect' = video'
                /\ ~astray \/ pending' = None
             \/ ~astray /\ ~reason
  BY <1>2, LosesIs
<1>3. Inset(winSize) # None
  BY InsetIs DEF GeometryInv, GeometryTyped
<1>. QED  BY <1>1, <1>2, <1>3 DEF Syncs, GeometryInv, GeometryTyped, CacheFits

LEMMA SyncIs ==
    ASSUME GeometryInv, NEW size \in Sizes, NEW held, NEW again \in BOOLEAN,
           sync_geometry(size, held, again)
    PROVE  /\ Syncs
           /\ inFull => pending' \in {pending, None}
           /\ ~inFull => pending' \in {size, None}
           /\ render = "on" /\ ~astray' /\ (inFull \/ size = winSize) =>
                \/ video' = Inset(winSize)
                \/ pending' = size /\ video' = video /\ flusher # "gone" /\ ~again
<1>1. CASE inFull /\ pending' = (IF again THEN None ELSE pending) /\ NotApplied /\ Loses(TRUE)
  <2>1. pending' \in Sizes \cup {None} /\ pending' \in {pending, None}
    BY <1>1 DEF GeometryInv, GeometryTyped
  <2>2. Syncs /\ (~astray' => video' = Inset(winSize))
    BY <1>1, <2>1, NotAppliedIs
  <2>. QED  BY <1>1, <2>1, <2>2
<1>2. CASE /\ ~inFull /\ pending' = size /\ NotApplied
           /\ Loses(again \/ flusher = "gone")
  <2>1. /\ Syncs
        /\ ~astray' => video' = Inset(winSize) \/ (~astray /\ ~(again \/ flusher = "gone"))
    BY <1>2, NotAppliedIs
  <2>. QED  BY <1>2, <2>1 DEF NotApplied
<1>3. CASE ~inFull /\ PassesThrottle(size, held, None)
  <2>1. /\ Syncs /\ pending' = None
        /\ render = "on" /\ ~astray' /\ size = winSize => video' = Inset(winSize)
    BY <1>3, PassesIs
  <2>. QED  BY <1>3, <2>1
<1>. QED  BY <1>1, <1>2, <1>3, Zenon DEF sync_geometry

LEMMA AppliesHostIs ==
    ASSUME GeometryInv, NEW size \in Sizes, apply_host_geometry(size)
    PROVE  /\ Syncs /\ pending' = pending
           /\ render = "on" /\ ~astray' => video' = Inset(winSize)
<1>1. /\ flusher' = flusher /\ pending' = pending /\ lastRect' = Inset(size)
      /\ video' = IF render = "on" THEN Inset(size) ELSE video
      /\ Loses(size # winSize \/ render = "started")
  BY DEF apply_host_geometry, Applies
<1>2. ASSUME ~astray'
      PROVE  \/ /\ video' = Inset(winSize) /\ lastRect' = video'
                /\ ~astray \/ pending' = None
             \/ ~astray /\ ~(size # winSize \/ render = "started")
  BY <1>1, <1>2, LosesIs
<1>3. Inset(size) \in Rects /\ Inset(winSize) # None
  BY InsetIs DEF GeometryInv, GeometryTyped
<1>. QED  BY <1>1, <1>2, <1>3 DEF Syncs, GeometryInv, GeometryTyped, CacheFits

-----------------------------------------------------------------------------
\* What steps that do not sync leave alone.
Leaves == UNCHANGED <<lastRect, video, render, astray>>

LEMMA CacheKept ==
    ASSUME CacheFits, (Syncs /\ UNCHANGED render) \/ Leaves
    PROVE  CacheFits'
BY DEF CacheFits, Syncs, Leaves

LEMMA FlushKept ==
    ASSUME flusher' = flusher \/ (flusher = "asleep" /\ flusher' = "outlasted"),
           notified => notified', HasTask({"flush"}) => HasTask({"flush"})'
    PROVE  /\ FlushComes => FlushComes'
           /\ flusher' = "gone" <=> flusher = "gone"
BY DEF FlushComes

\* The window changes: the event of the change is to come.
LEMMA ResizeKeeps ==
    ASSUME GeometryInv, NEW size \in Sizes, NEW now, Resize(size, now)
    PROVE  GeometryInv'
<1>1. /\ winSize' = size /\ resized'
      /\ UNCHANGED <<normalSize, inMini, inFull, geomVars, flusherVars, mainTasks, render,
                     video, astray>>
  BY DEF Resize, Becomes
<1>2. GeometryTyped'
  BY <1>1 DEF GeometryInv, GeometryTyped, geomVars, flusherVars
<1>3. CacheFits'
  BY <1>1, CacheKept DEF GeometryInv, Leaves, geomVars
<1>4. ClaimHolds'
  BY <1>1, TasksSame DEF GeometryInv, ClaimHolds, FlushComes, flusherVars
<1>5. PendingFits' /\ RectOwed'
  BY <1>1 DEF PendingFits, RectOwed, SyncComes
<1>. QED  BY <1>2, <1>3, <1>4, <1>5 DEF GeometryInv

LEMMA PopoutKeeps ==
    ASSUME GeometryInv, NEW size \in Sizes, Popout(size)
    PROVE  GeometryInv'
<1>. DEFINE task == [do |-> "resync", size |-> size]
<1>1. /\ winSize' = size /\ resized' /\ inMini' = FALSE
      /\ mainTasks' = Append(mainTasks, task)
      /\ UNCHANGED <<normalSize, inFull, geomVars, flusherVars, render, video, astray>>
  BY DEF Popout, Becomes
<1>2. task \in GeometryTasks
  BY DEF GeometryTasks
<1>3. /\ mainTasks' \in Seq(GeometryTasks)
      /\ \A does : HasTask(does) => HasTask(does)'
  BY <1>1, <1>2, TaskGiven DEF GeometryInv
<1>4. GeometryTyped'
  BY <1>1, <1>3 DEF GeometryInv, GeometryTyped, geomVars, flusherVars
<1>5. CacheFits'
  BY <1>1, CacheKept DEF GeometryInv, Leaves, geomVars
<1>6. ClaimHolds'
  BY <1>1, <1>3 DEF GeometryInv, ClaimHolds, FlushComes, flusherVars
<1>7. PendingFits' /\ RectOwed'
  BY <1>1 DEF PendingFits, RectOwed, SyncComes
<1>. QED  BY <1>4, <1>5, <1>6, <1>7 DEF GeometryInv

\* A closure that changes or syncs is handed to the main thread.
LEMMA SetFullscreenKeeps ==
    ASSUME GeometryInv, NEW size \in Sizes, SetFullscreen(size)
    PROVE  GeometryInv'
<1>. DEFINE toggle == [do |-> "fullscreen", size |-> size]
            early == [do |-> "early"]
<1>1. /\ \/ inFull' /\ mainTasks' = mainTasks \o <<toggle, early>>
         \/ UNCHANGED inFull /\ mainTasks' = Append(mainTasks, toggle)
      /\ UNCHANGED <<windowVars, inMini, geomVars, flusherVars, render, video, astray>>
  BY DEF SetFullscreen
<1>2. toggle \in GeometryTasks /\ early \in GeometryTasks
  BY DEF GeometryTasks
<1>3. toggle.do = "fullscreen"
  OBVIOUS
<1>4. mainTasks \in Seq(GeometryTasks)
  BY DEF GeometryInv, GeometryTyped
<1>. DEFINE n == Len(mainTasks)
<1>5. /\ n \in Nat /\ Len(mainTasks') \in Nat /\ Len(mainTasks') > n
      /\ mainTasks' \in Seq(GeometryTasks)
      /\ mainTasks'[n + 1] = toggle /\ \A i \in 1..n : mainTasks'[i] = mainTasks[i]
  <2>. HIDE DEF toggle, early
  <2>1. CASE mainTasks' = Append(mainTasks, toggle)
    BY <1>2, <1>4, <2>1
  <2>2. CASE mainTasks' = mainTasks \o <<toggle, early>>
    <3>1. <<toggle, early>> \in Seq(GeometryTasks)
      BY <1>2
    <3>. QED  BY <1>2, <1>4, <2>2, <3>1
  <2>. QED  BY <1>1, <2>1, <2>2
<1>. HIDE DEF toggle, early, n
<1>6. HasTask({"flush"}) => HasTask({"flush"})'
  <2>1. SUFFICES ASSUME NEW i \in 1..n, mainTasks[i].do = "flush"
                 PROVE  \E j \in 1..Len(mainTasks') : mainTasks'[j].do \in {"flush"}
    BY DEF HasTask, n
  <2>2. i \in 1..Len(mainTasks')
    BY <1>5
  <2>. QED  BY <1>5, <2>1, <2>2
<1>7. SyncComes'
  <2>1. n + 1 \in 1..Len(mainTasks')
    BY <1>5
  <2>. QED  BY <1>3, <1>5, <2>1 DEF SyncComes, HasTask
<1>8. GeometryTyped'
  BY <1>1, <1>5 DEF GeometryInv, GeometryTyped, geomVars, flusherVars, windowVars
<1>9. CacheFits'
  BY <1>1, CacheKept DEF GeometryInv, Leaves, geomVars
<1>10. ClaimHolds'
  BY <1>1, <1>6 DEF GeometryInv, ClaimHolds, FlushComes, flusherVars
<1>11. PendingFits'
  BY <1>1 DEF GeometryInv, PendingFits, geomVars, windowVars
<1>12. RectOwed'
  BY <1>7 DEF RectOwed
<1>. QED  BY <1>8, <1>9, <1>10, <1>11, <1>12 DEF GeometryInv

LEMMA SetMinimizeKeeps ==
    ASSUME GeometryInv, NEW mini \in BOOLEAN, SetMinimize(mini)
    PROVE  GeometryInv'
<1>. DEFINE task == [do |-> "resync", size |-> winSize]
<1>1. /\ inMini' = mini /\ mainTasks' = Append(mainTasks, task)
      /\ UNCHANGED <<windowVars, inFull, geomVars, flusherVars, render, video, astray>>
  BY DEF SetMinimize
<1>2. task \in GeometryTasks /\ task.do = "resync"
  BY DEF GeometryTasks, GeometryInv, GeometryTyped
<1>3. /\ mainTasks' \in Seq(GeometryTasks)
      /\ \A does : HasTask(does)' <=> HasTask(does) \/ task.do \in does
  BY <1>1, <1>2, TaskGiven DEF GeometryInv
<1>. HIDE DEF task
<1>4. GeometryTyped'
  BY <1>1, <1>3 DEF GeometryInv, GeometryTyped, geomVars, flusherVars, windowVars
<1>5. CacheFits'
  BY <1>1, CacheKept DEF GeometryInv, Leaves, geomVars
<1>6. ClaimHolds'
  BY <1>1, <1>3 DEF GeometryInv, ClaimHolds, FlushComes, flusherVars
<1>7. PendingFits'
  BY <1>1 DEF GeometryInv, PendingFits, geomVars, windowVars
<1>8. RectOwed'
  BY <1>2, <1>3 DEF RectOwed, SyncComes
<1>. QED  BY <1>4, <1>5, <1>6, <1>7, <1>8 DEF GeometryInv

\* The toggle is done on the main thread: the window changes.
LEMMA ToggledKeeps ==
    ASSUME GeometryInv, Toggled
    PROVE  GeometryInv'
<1>1. /\ NextTask("fullscreen") /\ winSize' = Head(mainTasks).size /\ resized'
      /\ UNCHANGED <<normalSize, inMini, inFull, geomVars, flusherVars, render, video, astray>>
  BY DEF Toggled, Becomes, actVars
<1>2. /\ mainTasks' \in Seq(GeometryTasks)
      /\ Head(mainTasks) \in GeometryTasks /\ Head(mainTasks).do = "fullscreen"
      /\ HasTask({"flush"})' <=> HasTask({"flush"})
  BY <1>1, TaskRun DEF GeometryInv
<1>3. winSize' \in Sizes
  BY <1>1, <1>2 DEF GeometryTasks
<1>4. GeometryTyped'
  BY <1>1, <1>2, <1>3 DEF GeometryInv, GeometryTyped, geomVars, flusherVars
<1>5. CacheFits'
  BY <1>1, CacheKept DEF GeometryInv, Leaves, geomVars
<1>6. ClaimHolds'
  BY <1>1, <1>2 DEF GeometryInv, ClaimHolds, FlushComes, flusherVars
<1>7. PendingFits' /\ RectOwed'
  BY <1>1 DEF PendingFits, RectOwed, SyncComes
<1>. QED  BY <1>4, <1>5, <1>6, <1>7 DEF GeometryInv

\* The steps that sync.
LEMMA SyncTyped ==
    ASSUME GeometryInv, Syncs
    PROVE  /\ pending' \in Sizes \cup {None} /\ lastRect' \in Rects \cup {None}
           /\ video' \in Rects \cup {None}
           /\ flusher' \in {"gone", "parked", "asleep", "outlasted"}
BY DEF GeometryInv, GeometryTyped, Syncs

LEMMA MovedKeeps ==
    ASSUME GeometryInv, NEW held, Moved(held)
    PROVE  GeometryInv'
<1>1. /\ \/ ~inFull /\ sync_geometry(winSize, held, FALSE)
         \/ UNCHANGED <<geomVars, flusher, video, astray>>
      /\ UNCHANGED <<winSize, normalSize, resized, dropped, actVars, scheduled,
                     notified, mainTasks, render>>
  BY DEF Moved
<1>2. \A does : HasTask(does)' <=> HasTask(does)
  BY <1>1, TasksSame
<1>3. inMini' = inMini /\ inFull' = inFull /\ SyncComes' = SyncComes
  BY <1>1 DEF actVars, SyncComes, HasTask
<1>4. CASE UNCHANGED <<geomVars, flusher, video, astray>>
  <2>1. GeometryTyped'
    BY <1>1, <1>3, <1>4 DEF GeometryInv, GeometryTyped, geomVars
  <2>2. CacheFits'
    BY <1>1, <1>4, CacheKept DEF GeometryInv, Leaves, geomVars
  <2>3. FlushComes' <=> FlushComes
    BY <1>1, <1>2, <1>4 DEF FlushComes
  <2>4. ClaimHolds'
    BY <1>1, <1>4, <2>3 DEF GeometryInv, ClaimHolds
  <2>5. PendingFits'
    BY <1>1, <1>3, <1>4 DEF GeometryInv, PendingFits, geomVars
  <2>6. RectOwed'
    BY <1>1, <1>3, <1>4, <2>3 DEF GeometryInv, RectOwed, geomVars, Inset
  <2>. QED  BY <2>1, <2>2, <2>4, <2>5, <2>6 DEF GeometryInv
<1>5. CASE ~inFull /\ sync_geometry(winSize, held, FALSE)
  <2>1. /\ Syncs /\ pending' \in {winSize, None}
        /\ render = "on" /\ ~astray' =>
             \/ video' = Inset(winSize)
             \/ pending' = winSize /\ video' = video
    BY <1>5, SyncIs DEF GeometryInv, GeometryTyped
  <2>2. GeometryTyped'
    BY <1>1, <1>3, <2>1, SyncTyped DEF GeometryInv, GeometryTyped
  <2>3. CacheFits'
    BY <1>1, <2>1, CacheKept DEF GeometryInv
  <2>4. (FlushComes => FlushComes') /\ (flusher' = "gone" <=> flusher = "gone")
    BY <1>1, <1>2, <2>1, FlushKept DEF Syncs
  <2>5. ClaimHolds'
    BY <1>1, <2>4 DEF GeometryInv, ClaimHolds
  <2>6. PendingFits'
    BY <1>1, <2>1 DEF PendingFits
  <2>7. RectOwed'
    <3>. SUFFICES ASSUME render = "on", ~astray', video' # Inset(winSize)
                  PROVE  SyncComes \/ (pending' = winSize /\ FlushComes')
      BY <1>1, <1>3 DEF RectOwed, Inset
    <3>1. ~astray /\ pending' = winSize /\ video # Inset(winSize)
      BY <2>1 DEF Syncs
    <3>. QED  BY <2>4, <3>1 DEF GeometryInv, RectOwed
  <2>. QED  BY <2>2, <2>3, <2>5, <2>6, <2>7 DEF GeometryInv
<1>. QED  BY <1>1, <1>4, <1>5

LEMMA ResizedKeeps ==
    ASSUME GeometryInv, NEW held, Resized(held)
    PROVE  GeometryInv'
<1>1. /\ \/ winSize' = winSize \/ (winSize' = normalSize /\ normalSize # None)
      /\ normalSize' = normalSize \/ normalSize' = winSize
      /\ resized' \/ dropped' <=> winSize' # winSize
      /\ SyncedTwice(winSize, held) \/ sync_geometry(winSize, held, FALSE)
      /\ ClaimsFlush
      /\ UNCHANGED <<inMini, inFull, mainTasks, render>>
  BY Zenon DEF Resized, actVars
<1>2. \A does : HasTask(does)' <=> HasTask(does)
  BY <1>1, TasksSame
<1>3. /\ Syncs
      /\ inFull \/ pending' \in {winSize, None}
      /\ render = "on" /\ ~astray' =>
           \/ video' = Inset(winSize)
           \/ pending' = winSize /\ flusher # "gone"
  <2>0. winSize \in Sizes
    BY DEF GeometryInv, GeometryTyped
  <2>1. CASE inFull /\ UNCHANGED pending /\ NotApplied /\ Loses(TRUE)
    <3>1. pending' \in Sizes \cup {None}
      BY <2>1 DEF GeometryInv, GeometryTyped
    <3>. QED  BY <2>1, <3>1, NotAppliedIs
  <2>2. CASE ~inFull /\ PassesThrottle(winSize, held, winSize)
    BY <2>0, <2>2, PassesIs
  <2>3. CASE sync_geometry(winSize, held, FALSE)
    <3>1. /\ Syncs /\ (~inFull => pending' \in {winSize, None})
          /\ render = "on" /\ ~astray' =>
               \/ video' = Inset(winSize)
               \/ pending' = winSize /\ video' = video /\ flusher # "gone" /\ ~FALSE
      BY <2>0, <2>3, SyncIs
    <3>. QED  BY <3>1
  <2>. QED  BY <1>1, <2>1, <2>2, <2>3, Zenon DEF SyncedTwice
<1>4. GeometryTyped'
  BY <1>1, <1>3, SyncTyped DEF GeometryInv, GeometryTyped
<1>5. CacheFits'
  BY <1>1, <1>3, CacheKept DEF GeometryInv
<1>6. flusher' = "gone" \/ FlushComes'
  <2>1. notified' <=> notified \/ ~scheduled
    BY <1>1 DEF ClaimsFlush
  <2>2. (FlushComes => FlushComes') /\ (flusher' = "gone" <=> flusher = "gone")
    BY <1>2, <1>3, <2>1, FlushKept DEF Syncs
  <2>3. CASE scheduled
    BY <2>2, <2>3 DEF GeometryInv, ClaimHolds
  <2>4. CASE ~scheduled
    BY <1>4, <2>1, <2>4 DEF GeometryTyped, FlushComes
  <2>. QED  BY <2>3, <2>4
<1>7. ClaimHolds'
  BY <1>6 DEF ClaimHolds
<1>8. PendingFits'
  BY <1>1, <1>3 DEF PendingFits
<1>9. RectOwed'
  <2>. SUFFICES ASSUME render = "on", ~astray', ~resized', ~dropped',
                       video' # Inset(winSize)
                PROVE  pending' = winSize /\ FlushComes'
    BY <1>1 DEF RectOwed, SyncComes, Inset
  <2>. QED  BY <1>3, <1>6 DEF Syncs
<1>. QED  BY <1>4, <1>5, <1>7, <1>8, <1>9 DEF GeometryInv

\* What throttled the flush, or held it up, is excepted or to be mended.
LEMMA FlushPendingKeeps ==
    ASSUME GeometryInv, NEW held, FlushPending(held)
    PROVE  GeometryInv'
<1>1. /\ NextTask("flush") /\ scheduled' = FALSE
      /\ \/ pending = None /\ UNCHANGED <<geomVars, flusher, video, astray>>
         \/ pending # None /\ sync_geometry(pending, held, TRUE)
      /\ UNCHANGED <<winSize, normalSize, resized, dropped, inMini, inFull, render>>
  BY DEF FlushPending, windowVars, actVars
<1>2. /\ mainTasks' \in Seq(GeometryTasks) /\ (SyncComes' <=> SyncComes)
  BY <1>1, TaskRun DEF GeometryInv, SyncComes
<1>3. ClaimHolds'
  BY <1>1 DEF ClaimHolds
<1>4. winSize # None
  BY GeometryAssumption DEF GeometryInv, GeometryTyped
<1>5. CASE pending = None /\ UNCHANGED <<geomVars, flusher, video, astray>>
  <2>1. GeometryTyped'
    BY <1>1, <1>2, <1>5 DEF GeometryInv, GeometryTyped, geomVars
  <2>2. CacheFits'
    BY <1>1, <1>5, CacheKept DEF GeometryInv, Leaves, geomVars
  <2>3. PendingFits'
    BY <1>5 DEF PendingFits, geomVars
  <2>4. RectOwed'
    BY <1>1, <1>2, <1>4, <1>5 DEF GeometryInv, RectOwed, geomVars, Inset
  <2>. QED  BY <1>3, <2>1, <2>2, <2>3, <2>4 DEF GeometryInv
<1>6. CASE pending # None /\ sync_geometry(pending, held, TRUE)
  <2>1. /\ Syncs /\ pending' \in {pending, None}
        /\ render = "on" /\ ~astray' /\ (inFull \/ pending = winSize) =>
             video' = Inset(winSize)
    <3>1. pending \in Sizes
      BY <1>6 DEF GeometryInv, GeometryTyped
    <3>. QED  BY <1>6, <3>1, SyncIs
  <2>2. GeometryTyped'
    BY <1>1, <1>2, <2>1, SyncTyped DEF GeometryInv, GeometryTyped
  <2>3. CacheFits'
    BY <1>1, <2>1, CacheKept DEF GeometryInv
  <2>4. PendingFits'
    BY <1>1, <2>1 DEF GeometryInv, PendingFits, Syncs
  <2>5. RectOwed'
    <3>. SUFFICES ASSUME render = "on", ~astray', video' # Inset(winSize)
                  PROVE  SyncComes
      BY <1>1, <1>2 DEF RectOwed, Inset
    <3>1. ~astray /\ ~inFull /\ pending # winSize
      BY <2>1 DEF Syncs
    <3>. QED  BY <1>6, <3>1 DEF GeometryInv, PendingFits, SyncComes
  <2>. QED  BY <1>3, <2>2, <2>3, <2>4, <2>5 DEF GeometryInv
<1>. QED  BY <1>1, <1>5, <1>6

\* A closure, or the focus event, syncs the size there is, or is excepted.
LEMMA MendedKeeps ==
    ASSUME GeometryInv, Syncs,
           render = "on" /\ ~astray' => video' = Inset(winSize),
           inFull \/ pending' = None \/ pending' = pending,
           mainTasks' \in Seq(GeometryTasks),
           HasTask({"flush"})' <=> HasTask({"flush"}),
           UNCHANGED <<winSize, normalSize, resized, dropped, inMini, inFull, scheduled,
                       notified, render>>
    PROVE  GeometryInv'
<1>1. GeometryTyped'
  BY SyncTyped DEF GeometryInv, GeometryTyped
<1>2. CacheFits'
  BY CacheKept DEF GeometryInv
<1>3. ClaimHolds'
  BY FlushKept DEF GeometryInv, ClaimHolds, Syncs
<1>4. PendingFits'
  BY DEF GeometryInv, PendingFits, Syncs
<1>5. RectOwed'
  BY DEF RectOwed, Inset
<1>. QED  BY <1>1, <1>2, <1>3, <1>4, <1>5 DEF GeometryInv

LEMMA InitialSyncKeeps ==
    ASSUME GeometryInv, NEW held, InitialSync(held)
    PROVE  GeometryInv'
<1>1. /\ NextTask("initial")
      /\ \/ inFull /\ UNCHANGED pending /\ NotApplied /\ Loses(TRUE)
         \/ ~inFull /\ PassesThrottle(winSize, held, None)
      /\ UNCHANGED <<winSize, normalSize, resized, dropped, inMini, inFull, scheduled,
                       notified, render>>
  BY Zenon DEF InitialSync, windowVars, actVars
<1>2. /\ mainTasks' \in Seq(GeometryTasks)
      /\ HasTask({"flush"})' <=> HasTask({"flush"})
  BY <1>1, TaskRun DEF GeometryInv
<1>3. /\ Syncs
      /\ inFull \/ pending' = None
      /\ render = "on" /\ ~astray' => video' = Inset(winSize)
  <2>1. pending \in Sizes \cup {None} /\ winSize \in Sizes
    BY DEF GeometryInv, GeometryTyped
  <2>2. CASE inFull /\ UNCHANGED pending /\ NotApplied /\ Loses(TRUE)
    BY <2>1, <2>2, NotAppliedIs
  <2>3. CASE PassesThrottle(winSize, held, None)
    BY <2>1, <2>3, PassesIs
  <2>. QED  BY <1>1, <2>2, <2>3
<1>. QED  BY <1>1, <1>2, <1>3, MendedKeeps

LEMMA RefocusedKeeps ==
    ASSUME GeometryInv, Refocused
    PROVE  GeometryInv'
<1>1. /\ apply_host_geometry(winSize)
      /\ UNCHANGED <<winSize, normalSize, resized, dropped, inMini, inFull, scheduled,
                     notified, render, mainTasks>>
  BY DEF Refocused, windowVars, actVars
<1>2. /\ Syncs /\ pending' = pending
      /\ render = "on" /\ ~astray' => video' = Inset(winSize)
  BY <1>1, AppliesHostIs DEF GeometryInv, GeometryTyped
<1>3. /\ mainTasks' \in Seq(GeometryTasks)
      /\ HasTask({"flush"})' <=> HasTask({"flush"})
  BY <1>1, TasksSame DEF GeometryInv, GeometryTyped
<1>. QED  BY <1>1, <1>2, <1>3, MendedKeeps

LEMMA ResyncKeeps ==
    ASSUME GeometryInv, Resync \/ EarlySync
    PROVE  GeometryInv'
<1>1. /\ UNCHANGED <<winSize, normalSize, resized, dropped, inMini, inFull, scheduled,
                       notified, render>>
      /\ \/ NextTask("resync") /\ apply_host_geometry(Head(mainTasks).size)
         \/ NextTask("early") /\ apply_host_geometry(winSize)
  BY DEF Resync, EarlySync, windowVars, actVars
<1>2. PICK size \in Sizes : apply_host_geometry(size)
  <2>1. CASE NextTask("resync") /\ apply_host_geometry(Head(mainTasks).size)
    <3>1. Head(mainTasks) \in GeometryTasks /\ Head(mainTasks).do = "resync"
      BY <2>1, TaskRun DEF GeometryInv
    <3>2. Head(mainTasks).size \in Sizes
      BY <3>1 DEF GeometryTasks
    <3>. QED  BY <2>1, <3>2
  <2>2. CASE apply_host_geometry(winSize)
    BY <2>2 DEF GeometryInv, GeometryTyped
  <2>. QED  BY <1>1, <2>1, <2>2
<1>3. /\ Syncs /\ pending' = pending
      /\ render = "on" /\ ~astray' => video' = Inset(winSize)
  BY <1>2, AppliesHostIs
<1>4. /\ mainTasks' \in Seq(GeometryTasks)
      /\ HasTask({"flush"})' <=> HasTask({"flush"})
  <2>1. PICK do \in {"resync", "early"} : NextTask(do)
    BY <1>1
  <2>. QED  BY <2>1, TaskRun DEF GeometryInv
<1>. QED  BY <1>1, <1>3, <1>4, MendedKeeps

\* The flusher, the video thread and the end of a toggle.
LEMMA FlusherKeeps ==
    ASSUME GeometryInv, FlusherWakes \/ SleepEnds \/ IntervalPasses
    PROVE  GeometryInv'
<1>1. /\ UNCHANGED <<winSize, normalSize, resized, dropped, inMini, inFull, lastRect, pending,
                     scheduled, render, video, astray>>
      /\ \/ flusher' = "asleep" /\ UNCHANGED mainTasks
         \/ flusher' = "parked" /\ mainTasks' = Append(mainTasks, [do |-> "flush"])
         \/ UNCHANGED <<flusher, notified, mainTasks>>
  BY DEF FlusherWakes, SleepEnds, IntervalPasses, windowVars, actVars, geomVars, flusherVars
<1>2. [do |-> "flush"] \in GeometryTasks
  BY DEF GeometryTasks
<1>3. /\ mainTasks' \in Seq(GeometryTasks)
      /\ \A does : HasTask(does) => HasTask(does)'
      /\ FlushComes' \/ (flusher' = flusher /\ (FlushComes => FlushComes'))
  <2>1. CASE flusher' = "asleep" /\ UNCHANGED mainTasks
    BY <2>1, TasksSame DEF GeometryInv, GeometryTyped, FlushComes
  <2>2. CASE mainTasks' = Append(mainTasks, [do |-> "flush"])
    BY <1>2, <2>2, TaskGiven DEF GeometryInv, FlushComes
  <2>3. CASE UNCHANGED <<flusher, notified, mainTasks>>
    BY <2>3, TasksSame DEF GeometryInv, GeometryTyped, FlushComes
  <2>. QED  BY <1>1, <2>1, <2>2, <2>3
<1>4. GeometryTyped'
  BY <1>1, <1>3 DEF GeometryInv, GeometryTyped
<1>5. CacheFits'
  BY <1>1, CacheKept DEF GeometryInv, Leaves
<1>6. ClaimHolds'
  BY <1>1, <1>3 DEF GeometryInv, ClaimHolds
<1>7. PendingFits'
  BY <1>1 DEF GeometryInv, PendingFits
<1>8. RectOwed'
  BY <1>1, <1>3 DEF GeometryInv, RectOwed, SyncComes, Inset
<1>. QED  BY <1>4, <1>5, <1>6, <1>7, <1>8 DEF GeometryInv

LEMMA VideoStartsKeeps ==
    ASSUME GeometryInv, VideoStarts
    PROVE  GeometryInv'
<1>1. /\ render' = "started" /\ video' = None /\ lastRect' = None
      /\ UNCHANGED <<winSize, normalSize, resized, dropped, inMini, inFull, pending, flusherVars,
                     mainTasks, astray>>
  BY DEF VideoStarts, ForgetsRect, windowVars
<1>2. GeometryTyped'
  BY <1>1 DEF GeometryInv, GeometryTyped, flusherVars
<1>3. CacheFits'
  BY <1>1 DEF CacheFits
<1>4. ClaimHolds'
  BY <1>1, TasksSame DEF GeometryInv, ClaimHolds, FlushComes, flusherVars
<1>5. PendingFits' /\ RectOwed'
  BY <1>1 DEF GeometryInv, PendingFits, RectOwed
<1>. QED  BY <1>2, <1>3, <1>4, <1>5 DEF GeometryInv

LEMMA PlayerReadyKeeps ==
    ASSUME GeometryInv, PlayerReady
    PROVE  GeometryInv'
<1>. DEFINE task == [do |-> "initial"]
<1>1. /\ render = "started" /\ mainTasks' = Append(mainTasks, task)
      /\ UNCHANGED <<windowVars, actVars, geomVars, flusherVars, video, astray>>
  BY DEF PlayerReady
<1>2. task \in GeometryTasks /\ task.do = "initial"
  BY DEF GeometryTasks
<1>3. /\ mainTasks' \in Seq(GeometryTasks)
      /\ \A does : HasTask(does)' <=> HasTask(does) \/ task.do \in does
  BY <1>1, <1>2, TaskGiven DEF GeometryInv
<1>. HIDE DEF task
<1>4. GeometryTyped'
  BY <1>1, <1>3 DEF GeometryInv, GeometryTyped, geomVars, flusherVars, windowVars, actVars
<1>5. CacheFits'
  BY <1>1 DEF GeometryInv, CacheFits, geomVars, PlayerReady
<1>6. ClaimHolds'
  BY <1>1, <1>3 DEF GeometryInv, ClaimHolds, FlushComes, flusherVars
<1>7. PendingFits'
  BY <1>1 DEF GeometryInv, PendingFits, geomVars, windowVars, actVars
<1>8. RectOwed'
  BY <1>2, <1>3 DEF RectOwed, SyncComes
<1>. QED  BY <1>4, <1>5, <1>6, <1>7, <1>8 DEF GeometryInv

LEMMA DestroyKeeps ==
    ASSUME GeometryInv, Destroy
    PROVE  GeometryInv'
<1>1. /\ inMini' = FALSE /\ flusher' = "gone"
      /\ \/ render' = "none" /\ video' = None
         \/ render # "on" /\ UNCHANGED <<render, video>>
      /\ astray' = (astray \/ pending # None)
      /\ UNCHANGED <<windowVars, inFull, geomVars, mainTasks>>
  BY DEF Destroy
<1>2. GeometryTyped'
  BY <1>1 DEF GeometryInv, GeometryTyped, windowVars, geomVars
<1>3. CacheFits'
  BY <1>1 DEF GeometryInv, CacheFits, geomVars
<1>4. ClaimHolds'
  BY <1>1 DEF ClaimHolds
<1>5. PendingFits' /\ RectOwed'
  BY <1>1 DEF PendingFits, RectOwed, geomVars
<1>. QED  BY <1>2, <1>3, <1>4, <1>5 DEF GeometryInv

LEMMA SettledKeeps ==
    ASSUME GeometryInv, Settled
    PROVE  GeometryInv'
<1>1. /\ astray' = (astray \/ pending \notin {None, winSize})
      /\ UNCHANGED <<windowVars, inMini, geomVars, flusherVars, mainTasks, render, video>>
  BY DEF Settled
<1>2. GeometryTyped'
  BY <1>1 DEF GeometryInv, GeometryTyped, windowVars, geomVars, flusherVars
<1>3. CacheFits'
  BY <1>1 DEF GeometryInv, CacheFits, geomVars
<1>4. SyncComes' <=> SyncComes
  BY <1>1, TasksSame DEF SyncComes, windowVars
<1>5. FlushComes' <=> FlushComes
  BY <1>1, TasksSame DEF FlushComes, flusherVars
<1>6. ClaimHolds'
  BY <1>1, <1>5 DEF GeometryInv, ClaimHolds, flusherVars
<1>7. PendingFits'
  BY <1>1 DEF PendingFits, windowVars, geomVars
<1>8. RectOwed'
  BY <1>1, <1>4, <1>5 DEF GeometryInv, RectOwed, Inset, windowVars, geomVars
<1>. QED  BY <1>2, <1>3, <1>6, <1>7, <1>8 DEF GeometryInv

-----------------------------------------------------------------------------
LEMMA GeometryInitially == GeometryInit => GeometryInv
<1>1. GeometryInit => GeometryTyped
  <2>1. <<>> \in Seq(GeometryTasks)
    OBVIOUS
  <2>2. GeometryInit =>
          /\ winSize \in Sizes /\ normalSize = None /\ inMini = FALSE /\ lastRect = None
          /\ pending = None /\ flusher = "parked" /\ mainTasks = <<>> /\ video = None
    BY DEF GeometryInit
  <2>. QED  BY <2>1, <2>2 DEF GeometryTyped
<1>2. GeometryInit => CacheFits /\ ClaimHolds /\ PendingFits /\ RectOwed
  BY DEF GeometryInit, CacheFits, ClaimHolds, PendingFits, RectOwed
<1>. QED  BY <1>1, <1>2 DEF GeometryInv

LEMMA GeometryKept == GeometryInv /\ [GeometryNext]_geometryVars => GeometryInv'
<1>. SUFFICES ASSUME GeometryInv, [GeometryNext]_geometryVars PROVE GeometryInv'
  OBVIOUS
<1>1. CASE UNCHANGED geometryVars
  BY <1>1 DEF geometryVars, windowVars, geomVars, flusherVars, actVars, GeometryInv,
              GeometryTyped, CacheFits, ClaimHolds, PendingFits, RectOwed, SyncComes,
              FlushComes, HasTask, Inset
<1>2. ASSUME NEW size \in Sizes, NEW now,
             Resize(size, now) \/ Popout(size) \/ SetFullscreen(size)
      PROVE  GeometryInv'
  BY <1>2, ResizeKeeps, PopoutKeeps, SetFullscreenKeeps
<1>3. ASSUME NEW held,
             Moved(held) \/ Resized(held) \/ FlushPending(held) \/ InitialSync(held)
      PROVE  GeometryInv'
  BY <1>3, MovedKeeps, ResizedKeeps, FlushPendingKeeps, InitialSyncKeeps
<1>4. ASSUME NEW mini \in BOOLEAN, SetMinimize(mini) PROVE GeometryInv'
  BY <1>4, SetMinimizeKeeps
<1>5. ASSUME \/ Refocused \/ FlusherWakes \/ SleepEnds \/ IntervalPasses
             \/ VideoStarts \/ PlayerReady \/ Destroy
             \/ Resync \/ Toggled \/ EarlySync \/ Settled
      PROVE  GeometryInv'
  BY <1>5, RefocusedKeeps, FlusherKeeps, VideoStartsKeeps, PlayerReadyKeeps, DestroyKeeps,
     ResyncKeeps, ToggledKeeps, SettledKeeps
<1>. QED  BY <1>1, <1>2, <1>3, <1>4, <1>5, Zenon DEF GeometryNext

LEMMA GeometryInvFollows == GeometryInv => FollowsWindow
<1>. SUFFICES ASSUME GeometryInv, AtRest, render = "on", ~astray, ~dropped
              PROVE  video = Inset(winSize)
  BY DEF FollowsWindow, Inset
<1>1. \A does : ~HasTask(does)
  BY DEF AtRest, HasTask
<1>2. ~SyncComes /\ ~FlushComes
  BY <1>1 DEF AtRest, SyncComes, FlushComes
<1>. QED  BY <1>2 DEF GeometryInv, RectOwed

\* When the window has come to rest and no sync was lost, the video has its
\* rectangle: the throttle, the flusher and the dedup cache of geometry.rs never
\* keep the last size back, whatever the window, the commands and the video
\* thread did before.
THEOREM VideoFollows == GeometrySpec => []FollowsWindow
<1>1. GeometryInit => GeometryInv
  BY GeometryInitially
<1>2. GeometryInv /\ [GeometryNext]_geometryVars => GeometryInv'
  BY GeometryKept
<1>. QED  BY <1>1, <1>2, GeometryInvFollows, PTL DEF GeometrySpec

\* The modes, the flags, the stages of the video thread and the bound.
GeometryFlags ==
    /\ moved \in BOOLEAN /\ resized \in BOOLEAN /\ dropped \in BOOLEAN
    /\ inFull \in BOOLEAN
    /\ shut \in BOOLEAN /\ scheduled \in BOOLEAN /\ notified \in BOOLEAN
    /\ astray \in BOOLEAN
GeometryPlain ==
    /\ mode \in Modes /\ wasMode \in Modes
    /\ render \in {"none", "started", "on"}
    /\ resizes \in 0..MaxResizes /\ settlings \in 0..resizes

\* What a sync does to the flags.
LEMMA LosesType ==
    ASSUME GeometryFlags, NEW reason, Loses(reason)
    PROVE  astray' \in BOOLEAN
BY DEF Loses, GeometryFlags

LEMMA SyncFlags ==
    ASSUME GeometryFlags, NEW size, NEW held, NEW again,
           \/ sync_geometry(size, held, again) \/ SyncedTwice(size, held)
           \/ PassesThrottle(size, held, None) \/ apply_host_geometry(size)
    PROVE  astray' \in BOOLEAN /\ shut' \in BOOLEAN
<1>1. \E reason : Loses(reason)
  BY DEF sync_geometry, SyncedTwice, PassesThrottle, apply_host_geometry
<1>2. shut' = TRUE \/ shut' = shut
  BY DEF sync_geometry, SyncedTwice, PassesThrottle, apply_host_geometry, NotApplied
<1>. QED  BY <1>1, <1>2, LosesType DEF GeometryFlags

LEMMA GeometryFlagsKept == GeometryFlags /\ [GeometryNext]_geometryVars => GeometryFlags'
<1> SUFFICES ASSUME GeometryFlags, [GeometryNext]_geometryVars PROVE GeometryFlags'
  OBVIOUS
<1> USE DEF GeometryFlags, windowVars, geomVars, flusherVars, actVars
<1>1. ASSUME NEW size, NEW now, Resize(size, now) \/ Popout(size) PROVE GeometryFlags'
  BY <1>1 DEF Resize, Popout, Becomes
<1>2. ASSUME NEW size, SetFullscreen(size) PROVE GeometryFlags'
  BY <1>2 DEF SetFullscreen
<1>3. ASSUME NEW held, Moved(held) PROVE GeometryFlags'
  <2>1. astray' \in BOOLEAN /\ shut' \in BOOLEAN
    BY <1>3, SyncFlags DEF Moved
  <2>. QED  BY <1>3, <2>1 DEF Moved
<1>4. ASSUME NEW held, Resized(held) PROVE GeometryFlags'
  <2>1. astray' \in BOOLEAN /\ shut' \in BOOLEAN
    BY <1>4, SyncFlags DEF Resized
  <2>2. /\ moved' \in BOOLEAN /\ resized' \in BOOLEAN /\ dropped' \in BOOLEAN
        /\ scheduled' \in BOOLEAN /\ notified' \in BOOLEAN
    BY <1>4 DEF Resized, ClaimsFlush
  <2>. QED  BY <1>4, <2>1, <2>2 DEF Resized
<1>5. ASSUME NEW held, FlushPending(held) PROVE GeometryFlags'
  <2>1. astray' \in BOOLEAN /\ shut' \in BOOLEAN
    BY <1>5, SyncFlags DEF FlushPending
  <2>. QED  BY <1>5, <2>1 DEF FlushPending
<1>6. ASSUME NEW held, InitialSync(held) PROVE GeometryFlags'
  <2>1. astray' \in BOOLEAN /\ shut' \in BOOLEAN
    BY <1>6, SyncFlags, LosesType DEF InitialSync, NotApplied
  <2>. QED  BY <1>6, <2>1 DEF InitialSync
<1>7. CASE Refocused \/ Resync \/ EarlySync
  <2>1. astray' \in BOOLEAN /\ shut' \in BOOLEAN
    BY <1>7, SyncFlags DEF Refocused, Resync, EarlySync
  <2>. QED  BY <1>7, <2>1 DEF Refocused, Resync, EarlySync
<1>8. CASE FlusherWakes \/ SleepEnds \/ IntervalPasses
  BY <1>8 DEF FlusherWakes, SleepEnds, IntervalPasses
<1>9. CASE VideoStarts \/ PlayerReady \/ Toggled
  BY <1>9 DEF VideoStarts, PlayerReady, Toggled, Becomes
<1>10. CASE Destroy \/ Settled
  BY <1>10 DEF Destroy, Settled
<1>11. ASSUME NEW mini, SetMinimize(mini) PROVE GeometryFlags'
  BY <1>11 DEF SetMinimize
<1>12. CASE UNCHANGED geometryVars
  BY <1>12 DEF geometryVars
<1>. QED
  BY <1>1, <1>2, <1>3, <1>4, <1>5, <1>6, <1>7, <1>8, <1>9, <1>10, <1>11, <1>12
  DEF GeometryNext

\* No more fullscreen commands sleep than acts have been made.
LEMMA GeometryPlainKept == GeometryPlain /\ [GeometryNext]_geometryVars => GeometryPlain'
<1> SUFFICES ASSUME GeometryPlain, [GeometryNext]_geometryVars PROVE GeometryPlain'
  OBVIOUS
<1> USE ResizesAssumption DEF GeometryPlain, windowVars, actVars, Modes
<1>1. ASSUME NEW size, NEW now \in Modes, Resize(size, now) \/ Popout(size)
      PROVE  GeometryPlain'
  <2>1. mode' \in Modes /\ UNCHANGED <<wasMode, render, settlings>>
    BY <1>1 DEF Resize, Popout, Becomes
  <2>2. resizes' \in 0..MaxResizes /\ resizes' = resizes + 1
    BY <1>1 DEF Resize, Popout, Another
  <2>. QED  BY <2>1, <2>2
<1>2. ASSUME NEW size, SetFullscreen(size) PROVE GeometryPlain'
  BY <1>2 DEF SetFullscreen, Another
<1>3. ASSUME NEW held, \/ Moved(held) \/ Resized(held)
                       \/ FlushPending(held) \/ InitialSync(held)
      PROVE  GeometryPlain'
  BY <1>3 DEF Moved, Resized, FlushPending, InitialSync
<1>4. CASE \/ Refocused \/ Resync \/ EarlySync \/ FlusherWakes \/ SleepEnds
           \/ IntervalPasses \/ PlayerReady \/ Toggled
  BY <1>4 DEF Refocused, Resync, EarlySync, FlusherWakes, SleepEnds,
              IntervalPasses, PlayerReady, Toggled, Becomes
<1>5. ASSUME NEW mini, SetMinimize(mini) \/ VideoStarts \/ Destroy \/ Settled
      PROVE  GeometryPlain'
  BY <1>5 DEF SetMinimize, VideoStarts, Destroy, Settled, Another
<1>6. CASE UNCHANGED geometryVars
  BY <1>6 DEF geometryVars
<1>. QED
  BY <1>1, <1>2, <1>3, <1>4, <1>5, <1>6 DEF GeometryNext

LEMMA GeometryTypesAre ==
    GeometryInv /\ GeometryFlags /\ GeometryPlain => GeometryTypeOK
<1> SUFFICES ASSUME GeometryInv, GeometryFlags, GeometryPlain PROVE GeometryTypeOK
  OBVIOUS
<1>1. inMini \in BOOLEAN
  BY DEF GeometryInv, GeometryTyped
<1>2. {moved, resized, dropped, inMini, inFull, shut, scheduled, notified, astray}
         \subseteq BOOLEAN
  BY <1>1, Zenon DEF GeometryFlags
<1>3. settlings \in 0..MaxResizes
  BY ResizesAssumption DEF GeometryPlain
<1>4. {mode, wasMode} \subseteq Modes /\ render \in {"none", "started", "on"}
  BY DEF GeometryPlain
<1>5. /\ winSize \in Sizes /\ {pending, normalSize} \subseteq Sizes \cup {None}
      /\ {lastRect, video} \subseteq Rects \cup {None}
      /\ flusher \in {"gone", "parked", "asleep", "outlasted"}
      /\ mainTasks \in Seq([do : {"initial", "flush", "early"}] \cup
                           [do : {"fullscreen", "resync"}, size : Sizes])
  BY DEF GeometryInv, GeometryTyped, GeometryTasks
<1>. QED  BY <1>2, <1>3, <1>4, <1>5, Zenon DEF GeometryTypeOK

\* The geometry, the flusher and the closures for the main thread have their
\* types (geometry.rs, events.rs).
THEOREM GeometryTypeCorrect == GeometrySpec => []GeometryTypeOK
<1>1. GeometryInit => GeometryFlags /\ GeometryPlain
  <2>1. GeometryInit => GeometryFlags
    BY DEF GeometryInit, GeometryFlags
  <2>2. GeometryInit => resizes \in 0..MaxResizes /\ settlings \in 0..resizes
    BY ResizesAssumption DEF GeometryInit
  <2>3. GeometryInit =>
          mode \in Modes /\ wasMode \in Modes /\ render \in {"none", "started", "on"}
    BY DEF GeometryInit, Modes
  <2>. QED  BY <2>1, <2>2, <2>3, Zenon DEF GeometryPlain
<1>. QED  BY <1>1, GeometryInitially, GeometryKept, GeometryFlagsKept,
             GeometryPlainKept, GeometryTypesAre, PTL DEF GeometrySpec

-----------------------------------------------------------------------------
(* Rosters: at rest every page that has missed nothing lists the others of *)
(* its session, for any users, capacity and number of handlers at once.    *)

Lists == [Watchers -> Nat]
RostersTyped ==
    /\ inside \subseteq Watchers
    /\ handler \in [Watchers -> Steps \cup {None}]
    /\ requests \in [Watchers -> Seq({"join", "leave"})]
    /\ channel \in [Watchers -> Seq(RosterMessages)]
    /\ people \in [Watchers -> Lists]
    /\ watching \in [Watchers -> BOOLEAN] /\ missed \in [Watchers -> BOOLEAN]

\* What becomes of a list p when the messages c are received: from the last
\* roster in c on, or from p if there is none, one message after the other.
LeadsTo(p, c, l) ==
    \E k \in 0..Len(c) : \E f \in [k..Len(c) -> Lists] :
      /\ f[k] = IF k = 0 THEN p ELSE Once(c[k].all)
      /\ k # 0 => c[k].type = "session_joined"
      /\ \A i \in (k + 1)..Len(c) : f[i] = Shown(f[i - 1], c[i])
      /\ f[Len(c)] = l

LEMMA OnceIs ==
    ASSUME NEW set
    PROVE  Once(set) \in Lists /\ \A u \in Watchers : Once(set)[u] = IF u \in set THEN 1 ELSE 0
BY DEF Once, Lists

LEMMA MessageIs ==
    ASSUME NEW m \in RosterMessages
    PROVE  \/ m.type = "session_joined" /\ m.all \subseteq Watchers
           \/ m.type = "participant_joined" /\ m.who \in Watchers
           \/ m.type = "participant_left" /\ m.who \in Watchers
           \/ m.type = "session_destroyed"
BY DEF RosterMessages

LEMMA ShownIs ==
    ASSUME NEW l \in Lists, NEW m \in RosterMessages
    PROVE  /\ Shown(l, m) \in Lists
           /\ m.type = "session_joined" => Shown(l, m) = Once(m.all)
           /\ m.type = "participant_joined" => Shown(l, m) = [l EXCEPT ![m.who] = @ + 1]
           /\ m.type = "participant_left" => Shown(l, m) = [l EXCEPT ![m.who] = 0]
<1>1. CASE m.type = "session_joined"
  BY <1>1, OnceIs DEF Shown, Roster
<1>2. CASE m.type = "participant_joined" /\ m.who \in Watchers
  BY <1>2 DEF Shown, Lists
<1>3. CASE m.type = "participant_left" /\ m.who \in Watchers
  BY <1>3 DEF Shown, Lists
<1>4. CASE m.type = "session_destroyed"
  BY <1>4, OnceIs DEF Shown
<1>. QED  BY <1>1, <1>2, <1>3, <1>4, MessageIs

\* An empty channel, a message more, a roster, and the first message received.
LEMMA LeadsToNothing ==
    ASSUME NEW p \in Lists, NEW l
    PROVE  LeadsTo(p, <<>>, l) <=> l = p
<1>1. ASSUME LeadsTo(p, <<>>, l) PROVE l = p
  BY <1>1 DEF LeadsTo
<1>2. LeadsTo(p, <<>>, p)
  <2>. DEFINE f == [i \in 0..0 |-> p]
  <2>1. f \in [0..0 -> Lists] /\ f[0] = p
    OBVIOUS
  <2>. HIDE DEF f
  <2>. QED  BY <2>1 DEF LeadsTo
<1>. QED  BY <1>1, <1>2

LEMMA LeadsToMore ==
    ASSUME NEW p, NEW c \in Seq(RosterMessages), NEW l \in Lists, NEW m \in RosterMessages,
           LeadsTo(p, c, l)
    PROVE  LeadsTo(p, Append(c, m), Shown(l, m))
<1>. DEFINE n == Len(c)
            d == Append(c, m)
<1>0. PICK k \in 0..n : \E f \in [k..n -> Lists] :
         /\ f[k] = IF k = 0 THEN p ELSE Once(c[k].all)
         /\ k # 0 => c[k].type = "session_joined"
         /\ \A i \in (k + 1)..n : f[i] = Shown(f[i - 1], c[i])
         /\ f[n] = l
  BY DEF LeadsTo
<1>1. PICK f \in [k..n -> Lists] :
         /\ f[k] = IF k = 0 THEN p ELSE Once(c[k].all)
         /\ k # 0 => c[k].type = "session_joined"
         /\ \A i \in (k + 1)..n : f[i] = Shown(f[i - 1], c[i])
         /\ f[n] = l
  BY <1>0
<1>2. n \in Nat /\ Len(d) = n + 1 /\ d[n + 1] = m /\ \A i \in 1..n : d[i] = c[i]
  OBVIOUS
<1>3. Shown(l, m) \in Lists
  BY ShownIs
<1>. DEFINE g == [i \in k..(n + 1) |-> IF i = n + 1 THEN Shown(l, m) ELSE f[i]]
<1>4. /\ g \in [k..(n + 1) -> Lists] /\ g[n + 1] = Shown(l, m)
      /\ \A i \in k..n : g[i] = f[i]
  BY <1>2, <1>3
<1>. HIDE DEF n, d, g
<1>5. g[k] = IF k = 0 THEN p ELSE Once(d[k].all)
  BY <1>1, <1>2, <1>4
<1>6. k # 0 => d[k].type = "session_joined"
  BY <1>1, <1>2
<1>7. ASSUME NEW i \in (k + 1)..(n + 1) PROVE g[i] = Shown(g[i - 1], d[i])
  <2>1. CASE i = n + 1
    <3>1. g[i - 1] = l
      BY <1>1, <1>2, <1>4, <2>1
    <3>. QED  BY <1>2, <1>4, <2>1, <3>1
  <2>2. CASE i # n + 1
    <3>1. i \in (k + 1)..n /\ i \in 1..n /\ i \in k..n /\ i - 1 \in k..n
      BY <1>2, <2>2
    <3>. QED  BY <1>1, <1>2, <1>4, <3>1
  <2>. QED  BY <2>1, <2>2
<1>8. k \in 0..(n + 1)
  BY <1>2
<1>. QED  BY <1>2, <1>4, <1>5, <1>6, <1>7, <1>8 DEF LeadsTo, d

LEMMA LeadsToRoster ==
    ASSUME NEW p, NEW c \in Seq(RosterMessages), NEW m \in RosterMessages,
           m.type = "session_joined"
    PROVE  LeadsTo(p, Append(c, m), Once(m.all))
<1>. DEFINE n == Len(c) + 1
            d == Append(c, m)
            f == [i \in n..n |-> Once(m.all)]
<1>1. n \in Nat /\ n # 0 /\ Len(d) = n /\ d[n] = m /\ n \in 0..n
  OBVIOUS
<1>2. f \in [n..n -> Lists] /\ f[n] = Once(m.all)
  BY <1>1, OnceIs
<1>. HIDE DEF n, d, f
<1>3. \A i \in (n + 1)..n : FALSE
  BY <1>1
<1>. QED  BY <1>1, <1>2, <1>3 DEF LeadsTo, d

LEMMA LeadsToLess ==
    ASSUME NEW p, NEW c \in Seq(RosterMessages), c # <<>>, NEW l, LeadsTo(p, c, l)
    PROVE  LeadsTo(Shown(p, Head(c)), Tail(c), l)
<1>. DEFINE n == Len(c)
            d == Tail(c)
            q == Shown(p, Head(c))
<1>0. PICK k \in 0..n : \E f \in [k..n -> Lists] :
         /\ f[k] = IF k = 0 THEN p ELSE Once(c[k].all)
         /\ k # 0 => c[k].type = "session_joined"
         /\ \A i \in (k + 1)..n : f[i] = Shown(f[i - 1], c[i])
         /\ f[n] = l
  BY DEF LeadsTo
<1>1. PICK f \in [k..n -> Lists] :
         /\ f[k] = IF k = 0 THEN p ELSE Once(c[k].all)
         /\ k # 0 => c[k].type = "session_joined"
         /\ \A i \in (k + 1)..n : f[i] = Shown(f[i - 1], c[i])
         /\ f[n] = l
  BY <1>0
<1>2. n \in Nat /\ n >= 1 /\ Len(d) = n - 1 /\ \A i \in 1..(n - 1) : d[i] = c[i + 1]
  OBVIOUS
<1>3. Head(c) = c[1]
  OBVIOUS
<1>. DEFINE j == IF k = 0 THEN 0 ELSE k - 1
            g == [i \in j..(n - 1) |-> f[i + 1]]
<1>4. j \in 0..(n - 1) /\ \A i \in j..(n - 1) : i + 1 \in k..n
  BY <1>2
<1>5. g \in [j..(n - 1) -> Lists] /\ \A i \in j..(n - 1) : g[i] = f[i + 1]
  BY <1>4
<1>. HIDE DEF n, d, g
<1>6. /\ g[j] = IF j = 0 THEN q ELSE Once(d[j].all)
      /\ j # 0 => d[j].type = "session_joined"
  <2>1. CASE k = 0
    <3>1. j = 0 /\ g[0] = f[1] /\ 1 \in (k + 1)..n
      BY <1>2, <1>4, <1>5, <2>1
    <3>2. f[1] = Shown(f[1 - 1], c[1])
      BY <1>1, <3>1
    <3>3. f[1 - 1] = p
      BY <1>1, <2>1
    <3>. QED  BY <1>3, <3>1, <3>2, <3>3
  <2>2. CASE k = 1
    <3>1. j = 0 /\ g[0] = f[1]
      BY <1>2, <1>4, <1>5, <2>2
    <3>2. f[1] = Once(c[1].all) /\ c[1].type = "session_joined"
      BY <1>1, <2>2
    <3>3. q = Once(c[1].all)
      BY <1>3, <3>2 DEF Shown, Roster
    <3>. QED  BY <3>1, <3>2, <3>3
  <2>3. CASE k > 1
    <3>1. j # 0 /\ j \in 1..(n - 1) /\ j + 1 = k
      BY <1>2, <2>3
    <3>2. g[j] = f[k] /\ d[j] = c[k]
      BY <1>2, <1>4, <1>5, <3>1
    <3>. QED  BY <1>1, <2>3, <3>1, <3>2
  <2>. QED  BY <1>2, <2>1, <2>2, <2>3
<1>7. ASSUME NEW i \in (j + 1)..(n - 1) PROVE g[i] = Shown(g[i - 1], d[i])
  <2>1. /\ i \in j..(n - 1) /\ i - 1 \in j..(n - 1) /\ i \in 1..(n - 1)
        /\ i + 1 \in (k + 1)..n /\ (i - 1) + 1 = i /\ (i + 1) - 1 = i
    BY <1>2, <1>4
  <2>2. g[i] = f[i + 1] /\ g[i - 1] = f[i] /\ d[i] = c[i + 1]
    BY <1>2, <1>5, <2>1
  <2>3. f[i + 1] = Shown(f[(i + 1) - 1], c[i + 1])
    BY <1>1, <2>1
  <2>. QED  BY <2>1, <2>2, <2>3
<1>8. g[n - 1] = l
  BY <1>1, <1>2, <1>4, <1>5
<1>. HIDE DEF j, q
<1>. QED  BY <1>2, <1>4, <1>5, <1>6, <1>7, <1>8 DEF LeadsTo, d, q

-----------------------------------------------------------------------------
\* The handlers.  A handler is at one stage, and nobody's or one of these.
HandlerStages == {"insert", "tell", "announce", "left", "destroyed", "remove"}
Entering(v) == IsAt(v, "insert") \/ IsAt(v, "tell") \/ IsAt(v, "announce")

HandlersFit ==
    /\ ~Entering(Owner) /\ ~IsAt(Owner, "left")
    /\ \A u \in Watchers : IsAt(u, "insert") \/ IsAt(u, "left") => u \notin inside
    /\ Owner \in inside =>
         /\ exists
         /\ \A u \in Watchers :
              /\ ~IsAt(u, "destroyed") /\ ~IsAt(u, "remove")
              /\ IsAt(u, "tell") \/ IsAt(u, "announce") => u \in inside
    /\ exists => Owner \in inside \/ IsAt(Owner, "destroyed") \/ IsAt(Owner, "remove")
    /\ ~exists => inside = {} /\ \A u \in Watchers : ~IsAt(u, "insert")

\* What a user has sent: the host only leaves, a guest joins and leaves in
\* turns, the last as the page is, and joins only when it is out.
SentFits(u) ==
    IF u = Owner THEN \A i \in 1..Len(requests[u]) : requests[u][i] = "leave"
    ELSE /\ \A i \in 1..(Len(requests[u]) - 1) : requests[u][i] # requests[u][i + 1]
         /\ Len(requests[u]) > 0 => (requests[u][Len(requests[u])] = "join" <=> watching[u])
IsOut(u) ==
    \/ Len(requests[u]) > 0 /\ requests[u][1] = "join"
    \/ Len(requests[u]) = 0 /\ ~watching[u]
VisitsFit ==
    \A u \in Watchers :
      SentFits(u) /\ (u # Owner /\ IsOut(u) => u \notin inside /\ ~Entering(u))

ShutLists == \A u \in Watchers : ~watching[u] => people[u] = Once({})

\* Whoever joins without another handler beside has seen who there is.
SeenFits ==
    \A u \in Watchers :
      (IsAt(u, "insert") \/ IsAt(u, "tell")) /\ ~crossed[u] /\ Owner \in inside =>
        /\ handler[u].seen = inside \ {u}
        /\ \A v \in Watchers \ {u} : ~Entering(v)

\* The list l of u's is right but for what handlers have yet to announce.
Listed(v) == v \in inside /\ ~IsAt(v, "tell") /\ ~IsAt(v, "announce")
AddsUp(u, l) ==
    /\ l[u] = 0
    /\ \A v \in Watchers \ {u} :
         ~IsAt(v, "left") => l[v] = IF Listed(v) THEN 1 ELSE 0

\* A participant who has been sent the roster and everything since.
Followed(u) ==
    /\ Owner \in inside /\ u \in inside /\ ~IsAt(u, "tell")
    /\ ~missed[u] /\ ~crossed[u]
    /\ \A i \in 1..Len(requests[u]) : requests[u][i] # "leave"

ListsFit ==
    \A u \in Watchers : Followed(u) =>
      \E l \in Lists : LeadsTo(people[u], channel[u], l) /\ AddsUp(u, l)

\* What steps do to the handlers: only u's moves, to a stage or to none.
OnlyMoves(u, at) ==
    /\ handler' \in [Watchers -> Steps \cup {None}]
    /\ \A v \in Watchers \ {u} :
         handler'[v] = handler[v] /\ \A x \in HandlerStages : IsAt(v, x)' <=> IsAt(v, x)
    /\ \A x \in HandlerStages : IsAt(u, x)' <=> x = at

LEMMA StageIs ==
    ASSUME NEW u, NEW x, NEW y, IsAt(u, x), IsAt(u, y)
    PROVE  x = y
BY DEF IsAt

LEMMA StepIs ==
    /\ \A seen \in SUBSET Watchers : \A x \in {"insert", "tell"} :
         [at |-> x, seen |-> seen] \in Steps /\ [at |-> x, seen |-> seen] # None
    /\ \A x \in {"announce", "left", "destroyed", "remove"} :
         [at |-> x] \in Steps /\ [at |-> x] # None
BY RostersAssumption DEF Steps

LEMMA HandlerMoves ==
    ASSUME RostersTyped, NEW u \in Watchers, NEW step \in Steps \cup {None}, Proceeds(u, step)
    PROVE  /\ handler'[u] = step
           /\ step = None => OnlyMoves(u, "none")
           /\ step # None => OnlyMoves(u, step.at)
<1>1. /\ handler' \in [Watchers -> Steps \cup {None}] /\ handler'[u] = step
      /\ \A v \in Watchers \ {u} : handler'[v] = handler[v]
  BY DEF Proceeds, RostersTyped
<1>2. \A v \in Watchers \ {u} : \A x : IsAt(v, x)' <=> IsAt(v, x)
  BY <1>1 DEF IsAt
<1>3. \A x : IsAt(u, x)' <=> step # None /\ step.at = x
  BY <1>1 DEF IsAt
<1>4. "none" \notin HandlerStages
  BY DEF HandlerStages
<1>. QED  BY <1>1, <1>2, <1>3, <1>4 DEF OnlyMoves

LEMMA TakesIs ==
    ASSUME RostersTyped, NEW u \in Watchers, NEW message, Takes(u, message)
    PROVE  /\ \A x : ~IsAt(u, x)
           /\ Len(requests[u]) > 0 /\ requests[u][1] = message
           /\ requests' \in [Watchers -> Seq({"join", "leave"})]
           /\ \A v \in Watchers \ {u} : requests'[v] = requests[v]
           /\ Len(requests'[u]) = Len(requests[u]) - 1
           /\ \A i \in 1..(Len(requests[u]) - 1) : requests'[u][i] = requests[u][i + 1]
<1>1. \A x : ~IsAt(u, x)
  BY DEF Takes, IsAt
<1>2. /\ requests[u] \in Seq({"join", "leave"}) /\ requests[u] # <<>>
      /\ Head(requests[u]) = message
      /\ requests' = [requests EXCEPT ![u] = Tail(requests[u])]
  BY DEF Takes, RostersTyped
<1>3. /\ requests' \in [Watchers -> Seq({"join", "leave"})]
      /\ requests'[u] = Tail(requests[u])
      /\ \A v \in Watchers \ {u} : requests'[v] = requests[v]
  BY <1>2 DEF RostersTyped
<1>. QED  BY <1>1, <1>2, <1>3

\* What each handler's step does to the handlers and to who is inside.
LEMMA TakesJoinIs ==
    ASSUME RostersTyped, NEW u \in Watchers, TakesJoin(u)
    PROVE  \/ exists /\ u \notin inside /\ OnlyMoves(u, "insert") /\ handler'[u].seen = inside
           \/ ~(exists /\ u \notin inside) /\ OnlyMoves(u, "none")
<1>1. CASE exists /\ u \notin inside
  <2>. DEFINE step == [at |-> "insert", seen |-> inside]
  <2>1. Proceeds(u, step)
    BY <1>1, Zenon DEF TakesJoin
  <2>2. step \in Steps /\ step # None
    BY StepIs DEF RostersTyped
  <2>3. step.at = "insert" /\ step.seen = inside
    OBVIOUS
  <2>. HIDE DEF step
  <2>. QED  BY <1>1, <2>1, <2>2, <2>3, HandlerMoves
<1>2. CASE ~(exists /\ u \notin inside)
  <2>1. Proceeds(u, None)
    BY <1>2, Zenon DEF TakesJoin
  <2>. QED  BY <1>2, <2>1, HandlerMoves
<1>. QED  BY <1>1, <1>2

LEMMA InsertsIs ==
    ASSUME RostersTyped, NEW u \in Watchers, Inserts(u)
    PROVE  IsAt(u, "insert") /\ OnlyMoves(u, "tell") /\ handler'[u].seen = handler[u].seen
<1>1. IsAt(u, "insert") /\ Proceeds(u, [handler[u] EXCEPT !.at = "tell"])
  BY Zenon DEF Inserts
<1>2. handler[u] \in [at : {"insert", "tell"}, seen : SUBSET Watchers]
  BY <1>1 DEF RostersTyped, IsAt, Steps
<1>3. PICK s \in SUBSET Watchers : handler[u].seen = s
  BY <1>2
<1>. DEFINE step == [at |-> "tell", seen |-> s]
<1>4. [handler[u] EXCEPT !.at = "tell"] = step
  BY <1>2, <1>3
<1>5. step \in Steps /\ step # None /\ step.at = "tell" /\ step.seen = s
  BY StepIs
<1>. HIDE DEF step
<1>. QED  BY <1>1, <1>3, <1>4, <1>5, HandlerMoves

LEMMA TellsRosterIs ==
    ASSUME RostersTyped, NEW u \in Watchers, TellsRoster(u)
    PROVE  IsAt(u, "tell") /\ OnlyMoves(u, "announce") /\ handler[u].seen \subseteq Watchers
<1>1. IsAt(u, "tell") /\ Proceeds(u, [at |-> "announce"])
  BY Zenon DEF TellsRoster
<1>2. handler[u] \in [at : {"insert", "tell"}, seen : SUBSET Watchers]
  BY <1>1 DEF RostersTyped, IsAt, Steps
<1>3. [at |-> "announce"] \in Steps /\ [at |-> "announce"] # None
  BY StepIs
<1>. QED  BY <1>1, <1>2, <1>3, HandlerMoves

LEMMA EndsIs ==
    ASSUME RostersTyped, NEW u \in Watchers
    PROVE  /\ Announces(u) => IsAt(u, "announce") /\ OnlyMoves(u, "none")
           /\ AnnouncesLeft(u) => IsAt(u, "left") /\ OnlyMoves(u, "none")
           /\ RemovesSession(u) => IsAt(u, "remove") /\ OnlyMoves(u, "none")
           /\ AnnouncesEnd(u) => IsAt(u, "destroyed") /\ OnlyMoves(u, "remove")
<1>1. Proceeds(u, None) => OnlyMoves(u, "none")
  BY HandlerMoves
<1>2. [at |-> "remove"] \in Steps /\ [at |-> "remove"] # None
  BY StepIs
<1>3. Proceeds(u, [at |-> "remove"]) => OnlyMoves(u, "remove")
  BY <1>2, HandlerMoves
<1>. QED
  BY <1>1, <1>3, Zenon DEF Announces, AnnouncesLeft, RemovesSession, AnnouncesEnd

LEMMA TakesLeaveIs ==
    ASSUME RostersTyped, NEW u \in Watchers, TakesLeave(u)
    PROVE  /\ inside' = inside \ {u}
           /\ \/ u \notin inside /\ OnlyMoves(u, "none")
              \/ inside = {u} /\ OnlyMoves(u, "remove")
              \/ u = Owner /\ OnlyMoves(u, "destroyed")
              \/ u \in inside /\ inside # {u} /\ u # Owner /\ OnlyMoves(u, "left")
<1>. DEFINE step == CASE u \notin inside -> None
               [] inside = {u} -> [at |-> "remove"]
               [] u = Owner /\ inside # {u} -> [at |-> "destroyed"]
               [] OTHER -> [at |-> "left"]
<1>1. Proceeds(u, step) /\ inside' = inside \ {u}
  BY Zenon DEF TakesLeave
<1>2. \A x \in {"remove", "destroyed", "left"} : [at |-> x] \in Steps /\ [at |-> x] # None
  BY StepIs
<1>3. \/ u \notin inside /\ step = None
      \/ inside = {u} /\ step = [at |-> "remove"]
      \/ u = Owner /\ step = [at |-> "destroyed"]
      \/ u \in inside /\ inside # {u} /\ u # Owner /\ step = [at |-> "left"]
  OBVIOUS
<1>. HIDE DEF step
<1>4. step \in Steps \cup {None}
  BY <1>2, <1>3
<1>5. /\ step = [at |-> "remove"] => OnlyMoves(u, "remove")
      /\ step = [at |-> "destroyed"] => OnlyMoves(u, "destroyed")
      /\ step = [at |-> "left"] => OnlyMoves(u, "left")
      /\ step = None => OnlyMoves(u, "none")
  BY <1>1, <1>2, <1>4, HandlerMoves
<1>. QED  BY <1>1, <1>3, <1>5

\* The inductive invariant.
RostersInv == RostersTyped /\ HandlersFit /\ VisitsFit /\ ShutLists /\ SeenFits /\ ListsFit

\* What is left of what a user sent when its first is taken.
LEMMA TakenFits ==
    ASSUME RostersTyped, VisitsFit, NEW w \in Watchers, NEW message, Takes(w, message),
           watching' = watching
    PROVE  /\ \A u \in Watchers : SentFits(u)' /\ (u # w => (IsOut(u)' <=> IsOut(u)))
           /\ message = "join" => w # Owner /\ IsOut(w) /\ ~IsOut(w)'
<1>. DEFINE r == requests[w]
            n == Len(r)
            s == requests'[w]
<1>1. /\ n > 0 /\ r[1] = message /\ Len(s) = n - 1
      /\ \A i \in 1..(n - 1) : s[i] = r[i + 1]
      /\ \A v \in Watchers \ {w} : requests'[v] = requests[v]
  BY TakesIs
<1>2. n \in Nat
  BY DEF RostersTyped
<1>3. SentFits(w)
  BY DEF VisitsFit
<1>4. ASSUME NEW u \in Watchers, u # w PROVE SentFits(u)' /\ (IsOut(u)' <=> IsOut(u))
  <2>1. requests'[u] = requests[u] /\ SentFits(u)
    BY <1>1, <1>4 DEF VisitsFit
  <2>. QED  BY <2>1 DEF SentFits, IsOut
<1>. HIDE DEF r, n, s
<1>5. CASE w = Owner
  <2>1. \A i \in 1..n : r[i] = "leave"
    BY <1>3, <1>5 DEF SentFits, r, n
  <2>2. \A i \in 1..(n - 1) : s[i] = "leave"
    BY <1>1, <1>2, <2>1
  <2>3. SentFits(w)'
    BY <1>1, <1>5, <2>2 DEF SentFits, s
  <2>4. message # "join"
    BY <1>1, <1>2, <2>1
  <2>. QED  BY <1>4, <2>3, <2>4
<1>6. CASE w # Owner
  <2>1. /\ \A i \in 1..(n - 1) : r[i] # r[i + 1]
        /\ r[n] = "join" <=> watching[w]
    BY <1>1, <1>3, <1>6 DEF SentFits, r, n
  <2>2. \A i \in 1..(n - 2) : s[i] # s[i + 1]
    BY <1>1, <1>2, <2>1
  <2>3. n - 1 > 0 => s[n - 1] = r[n]
    BY <1>1, <1>2
  <2>4. SentFits(w)'
    BY <1>1, <1>2, <1>6, <2>1, <2>2, <2>3 DEF SentFits, s
  <2>5. message = "join" => n > 0 /\ r[1] = "join"
    BY <1>1
  <2>6. message = "join" /\ n - 1 > 0 => s[1] # "join"
    BY <1>1, <1>2, <2>1
  <2>7. message = "join" /\ n - 1 = 0 => watching[w]
    BY <1>1, <1>2, <2>1
  <2>8. message = "join" => IsOut(w) /\ ~IsOut(w)'
    BY <1>1, <1>2, <2>5, <2>6, <2>7 DEF IsOut, r, n, s
  <2>. QED  BY <1>4, <1>6, <2>4, <2>8
<1>. QED  BY <1>5, <1>6

LEMMA SendsIs ==
    ASSUME RostersTyped, NEW m \in RosterMessages, NEW to \in SUBSET Watchers, Sends(m, to)
    PROVE  /\ channel' \in [Watchers -> Seq(RosterMessages)] /\ missed' \in [Watchers -> BOOLEAN]
           /\ \A u \in Watchers :
                /\ u \notin to => channel'[u] = channel[u] /\ (missed[u] => missed'[u])
                /\ u \in to /\ ~missed'[u] =>
                     /\ channel'[u] = Append(channel[u], m)
                     /\ m.type # "session_joined" => ~missed[u]
<1>. DEFINE full == {u \in to : Len(channel[u]) >= Capacity}
<1>1. /\ channel' = [u \in Watchers |->
           IF u \in to \ full THEN Append(channel[u], m) ELSE channel[u]]
      /\ missed' = [u \in Watchers |->
           \/ u \in full
           \/ missed[u] /\ (u \in to => m.type # "session_joined")]
  BY DEF Sends
<1>. HIDE DEF full
<1>2. channel' \in [Watchers -> Seq(RosterMessages)]
  BY <1>1 DEF RostersTyped
<1>3. missed' \in [Watchers -> BOOLEAN]
  BY <1>1
<1>4. ASSUME NEW u \in Watchers
      PROVE  /\ u \notin to => channel'[u] = channel[u] /\ (missed[u] => missed'[u])
             /\ u \in to /\ ~missed'[u] =>
                  /\ channel'[u] = Append(channel[u], m)
                  /\ m.type # "session_joined" => ~missed[u]
  <2>1. channel'[u] = IF u \in to \ full THEN Append(channel[u], m) ELSE channel[u]
    BY <1>1
  <2>2. missed'[u] <=> u \in full \/ (missed[u] /\ (u \in to => m.type # "session_joined"))
    BY <1>1
  <2>. QED  BY <2>1, <2>2 DEF full
<1>. QED  BY <1>2, <1>3, <1>4

\* A list is as right as it was after a step that sends and shows nothing.
LEMMA ListKept ==
    ASSUME ListsFit, NEW u \in Watchers, Followed(u),
           people'[u] = people[u], channel'[u] = channel[u],
           \A v \in Watchers \ {u} :
             ~IsAt(v, "left")' => ~IsAt(v, "left") /\ (Listed(v)' <=> Listed(v))
    PROVE  \E l \in Lists : LeadsTo(people'[u], channel'[u], l) /\ AddsUp(u, l)'
<1>1. PICK l \in Lists : LeadsTo(people[u], channel[u], l) /\ AddsUp(u, l)
  BY DEF ListsFit
<1>2. AddsUp(u, l)'
  BY <1>1 DEF AddsUp
<1>. QED  BY <1>1, <1>2

-----------------------------------------------------------------------------
(* Each step keeps the invariant.                                            *)

LEMMA TakesJoinKeeps ==
    ASSUME RostersInv, NEW w \in Watchers, TakesJoin(w)
    PROVE  RostersInv'
<1>1. /\ Takes(w, "join") /\ Crosses(w, TRUE)
      /\ UNCHANGED <<exists, inside, channel, watching, people, missed>>
  BY DEF TakesJoin
<1>2. /\ \A u \in Watchers : SentFits(u)' /\ (u # w => (IsOut(u)' <=> IsOut(u)))
      /\ w # Owner /\ IsOut(w) /\ ~IsOut(w)'
  BY <1>1, TakenFits DEF RostersInv
<1>3. /\ \A x : ~IsAt(w, x)
      /\ requests' \in [Watchers -> Seq({"join", "leave"})]
      /\ \A v \in Watchers \ {w} : requests'[v] = requests[v]
  BY <1>1, TakesIs DEF RostersInv
<1>4. w \notin inside
  BY <1>2 DEF RostersInv, VisitsFit
<1>5. \/ exists /\ OnlyMoves(w, "insert") /\ handler'[w].seen = inside
      \/ OnlyMoves(w, "none")
  BY TakesJoinIs DEF RostersInv
<1>6. /\ handler' \in [Watchers -> Steps \cup {None}]
      /\ \A v \in Watchers \ {w} :
           handler'[v] = handler[v] /\ \A x \in HandlerStages : IsAt(v, x)' <=> IsAt(v, x)
      /\ \A x \in HandlerStages \ {"insert"} : ~IsAt(w, x)'
      /\ IsAt(w, "insert")' => exists /\ handler'[w].seen = inside
  BY <1>5 DEF OnlyMoves, HandlerStages
<1>7. RostersTyped'
  BY <1>1, <1>3, <1>6 DEF RostersInv, RostersTyped
<1>8. HandlersFit'
  BY <1>1, <1>2, <1>3, <1>4, <1>6, RostersAssumption
     DEF RostersInv, HandlersFit, Entering, HandlerStages
<1>9. VisitsFit'
  BY <1>1, <1>2, <1>6 DEF RostersInv, VisitsFit, Entering, HandlerStages
<1>10. ShutLists'
  BY <1>1 DEF RostersInv, ShutLists
<1>11. ASSUME NEW u \in Watchers
       PROVE  /\ u # w /\ ~crossed'[u] => ~crossed[u] /\ ~IsAt(u, "insert") /\ ~IsAt(u, "tell")
              /\ u = w /\ ~crossed'[u] => \A v \in Watchers : ~Entering(v)
  BY <1>1 DEF Crosses, Entering
<1>12. SeenFits'
  <2>. SUFFICES ASSUME NEW u \in Watchers, (IsAt(u, "insert") \/ IsAt(u, "tell"))',
                       ~crossed'[u], Owner \in inside'
                PROVE  /\ handler'[u].seen = inside' \ {u}
                       /\ \A v \in Watchers \ {u} : ~Entering(v)'
    BY DEF SeenFits
  <2>1. u = w /\ IsAt(w, "insert")'
    BY <1>6, <1>11 DEF HandlerStages
  <2>. QED  BY <1>1, <1>4, <1>6, <1>11, <2>1 DEF Entering, HandlerStages
<1>13. ListsFit'
  <2>. SUFFICES ASSUME NEW u \in Watchers, Followed(u)'
                PROVE  \E l \in Lists : LeadsTo(people'[u], channel'[u], l) /\ AddsUp(u, l)'
    BY DEF ListsFit
  <2>1. u # w
    BY <1>1, <1>4 DEF Followed
  <2>2. Followed(u)
    BY <1>1, <1>3, <1>6, <1>11, <2>1 DEF Followed, HandlerStages
  <2>3. \A v \in Watchers \ {u} :
          ~IsAt(v, "left")' => ~IsAt(v, "left") /\ (Listed(v)' <=> Listed(v))
    BY <1>1, <1>3, <1>4, <1>6 DEF Listed, HandlerStages
  <2>. QED  BY <1>1, <2>2, <2>3, ListKept DEF RostersInv
<1>. QED  BY <1>7, <1>8, <1>9, <1>10, <1>12, <1>13 DEF RostersInv

LEMMA InsertsKeeps ==
    ASSUME RostersInv, NEW w \in Watchers, Inserts(w)
    PROVE  RostersInv'
<1>1. /\ inside' = inside \cup {w}
      /\ UNCHANGED <<exists, requests, channel, watching, people, missed, crossed>>
  BY DEF Inserts
<1>2. IsAt(w, "insert") /\ OnlyMoves(w, "tell") /\ handler'[w].seen = handler[w].seen
  BY InsertsIs DEF RostersInv
<1>3. /\ handler' \in [Watchers -> Steps \cup {None}]
      /\ \A v \in Watchers \ {w} :
           handler'[v] = handler[v] /\ \A x \in HandlerStages : IsAt(v, x)' <=> IsAt(v, x)
      /\ \A x \in HandlerStages \ {"tell"} : ~IsAt(w, x)'
      /\ IsAt(w, "tell")'
  BY <1>2 DEF OnlyMoves, HandlerStages
<1>4. w # Owner /\ w \notin inside /\ exists /\ Entering(w)
  BY <1>2 DEF RostersInv, HandlersFit, Entering
<1>5. \A x \in HandlerStages \ {"insert"} : ~IsAt(w, x)
  BY <1>2, StageIs DEF HandlerStages
<1>6. RostersTyped'
  BY <1>1, <1>3 DEF RostersInv, RostersTyped
<1>7. HandlersFit'
  BY <1>1, <1>3, <1>4, RostersAssumption DEF RostersInv, HandlersFit, Entering, HandlerStages
<1>8. VisitsFit'
  <2>1. \A u \in Watchers : SentFits(u)' <=> SentFits(u)
    BY <1>1 DEF SentFits
  <2>2. \A u \in Watchers : IsOut(u)' <=> IsOut(u)
    BY <1>1 DEF IsOut
  <2>3. ~IsOut(w)
    BY <1>4 DEF RostersInv, VisitsFit
  <2>. QED  BY <1>1, <1>3, <2>1, <2>2, <2>3 DEF RostersInv, VisitsFit, Entering, HandlerStages
<1>9. ShutLists'
  BY <1>1 DEF RostersInv, ShutLists
<1>10. SeenFits'
  <2>. SUFFICES ASSUME NEW u \in Watchers, (IsAt(u, "insert") \/ IsAt(u, "tell"))',
                       ~crossed'[u], Owner \in inside'
                PROVE  /\ handler'[u].seen = inside' \ {u}
                       /\ \A v \in Watchers \ {u} : ~Entering(v)'
    BY DEF SeenFits
  <2>1. IsAt(u, "insert") \/ IsAt(u, "tell")
    BY <1>2, <1>3 DEF HandlerStages
  <2>2. /\ handler[u].seen = inside \ {u}
        /\ \A v \in Watchers \ {u} : ~Entering(v)
    BY <1>1, <1>4, <2>1 DEF RostersInv, SeenFits
  <2>3. u = w
    BY <1>4, <2>2
  <2>. QED  BY <1>1, <1>2, <1>3, <2>2, <2>3 DEF Entering, HandlerStages
<1>11. ListsFit'
  <2>. SUFFICES ASSUME NEW u \in Watchers, Followed(u)'
                PROVE  \E l \in Lists : LeadsTo(people'[u], channel'[u], l) /\ AddsUp(u, l)'
    BY DEF ListsFit
  <2>1. u # w
    BY <1>3 DEF Followed
  <2>2. Followed(u)
    BY <1>1, <1>3, <1>4, <2>1 DEF Followed, HandlerStages
  <2>3. \A v \in Watchers \ {u} :
          ~IsAt(v, "left")' => ~IsAt(v, "left") /\ (Listed(v)' <=> Listed(v))
    BY <1>1, <1>3, <1>4, <1>5 DEF Listed, HandlerStages
  <2>. QED  BY <1>1, <2>2, <2>3, ListKept DEF RostersInv
<1>. QED  BY <1>6, <1>7, <1>8, <1>9, <1>10, <1>11 DEF RostersInv

LEMMA TellsRosterKeeps ==
    ASSUME RostersInv, NEW w \in Watchers, TellsRoster(w)
    PROVE  RostersInv'
<1>. DEFINE m == [type |-> "session_joined", all |-> handler[w].seen]
<1>1. /\ Sends(m, {w})
      /\ UNCHANGED <<exists, inside, requests, watching, people, crossed>>
  BY DEF TellsRoster
<1>2. IsAt(w, "tell") /\ OnlyMoves(w, "announce") /\ handler[w].seen \subseteq Watchers
  BY TellsRosterIs DEF RostersInv
<1>3. m \in RosterMessages /\ m.type = "session_joined" /\ m.all = handler[w].seen
  BY <1>2 DEF RosterMessages
<1>. HIDE DEF m
<1>4. /\ handler' \in [Watchers -> Steps \cup {None}]
      /\ \A v \in Watchers \ {w} :
           handler'[v] = handler[v] /\ \A x \in HandlerStages : IsAt(v, x)' <=> IsAt(v, x)
      /\ \A x \in HandlerStages \ {"announce"} : ~IsAt(w, x)'
      /\ IsAt(w, "announce")'
  BY <1>2 DEF OnlyMoves, HandlerStages
<1>5. w # Owner /\ Entering(w) /\ \A x \in HandlerStages \ {"tell"} : ~IsAt(w, x)
  BY <1>2, StageIs DEF RostersInv, HandlersFit, Entering, HandlerStages
<1>6. /\ channel' \in [Watchers -> Seq(RosterMessages)] /\ missed' \in [Watchers -> BOOLEAN]
      /\ \A u \in Watchers :
           /\ u # w => channel'[u] = channel[u] /\ (missed[u] => missed'[u])
           /\ u = w /\ ~missed'[u] => channel'[u] = Append(channel[u], m)
  BY <1>1, <1>3, SendsIs DEF RostersInv
<1>7. RostersTyped'
  BY <1>1, <1>4, <1>6 DEF RostersInv, RostersTyped
<1>8. HandlersFit'
  BY <1>1, <1>2, <1>4, <1>5, RostersAssumption DEF RostersInv, HandlersFit, Entering, HandlerStages
<1>9. VisitsFit'
  <2>1. \A u \in Watchers : (SentFits(u)' <=> SentFits(u)) /\ (IsOut(u)' <=> IsOut(u))
    BY <1>1 DEF SentFits, IsOut
  <2>. QED  BY <1>1, <1>4, <1>5, <2>1 DEF RostersInv, VisitsFit, Entering, HandlerStages
<1>10. ShutLists'
  BY <1>1 DEF RostersInv, ShutLists
<1>11. SeenFits'
  <2>. SUFFICES ASSUME NEW u \in Watchers, (IsAt(u, "insert") \/ IsAt(u, "tell"))',
                       ~crossed'[u], Owner \in inside'
                PROVE  FALSE
    BY DEF SeenFits
  <2>1. u # w /\ (IsAt(u, "insert") \/ IsAt(u, "tell"))
    BY <1>4 DEF HandlerStages
  <2>2. \A v \in Watchers \ {u} : ~Entering(v)
    BY <1>1, <2>1 DEF RostersInv, SeenFits
  <2>. QED  BY <1>5, <2>1, <2>2
<1>12. ListsFit'
  <2>. SUFFICES ASSUME NEW u \in Watchers, Followed(u)'
                PROVE  \E l \in Lists : LeadsTo(people'[u], channel'[u], l) /\ AddsUp(u, l)'
    BY DEF ListsFit
  <2>1. CASE u # w
    <3>1. Followed(u)
      BY <1>1, <1>4, <1>6, <2>1 DEF Followed, HandlerStages
    <3>2. \A v \in Watchers \ {u} :
            ~IsAt(v, "left")' => ~IsAt(v, "left") /\ (Listed(v)' <=> Listed(v))
      BY <1>1, <1>2, <1>4, <1>5 DEF Listed, HandlerStages
    <3>. QED  BY <1>1, <1>6, <2>1, <3>1, <3>2, ListKept DEF RostersInv
  <2>2. CASE u = w
    <3>1. /\ handler[w].seen = inside \ {w}
          /\ \A v \in Watchers \ {w} : ~Entering(v)
      BY <1>1, <1>2, <2>2 DEF RostersInv, SeenFits, Followed
    <3>2. channel'[w] = Append(channel[w], m)
      BY <1>6, <2>2 DEF Followed
    <3>3. LeadsTo(people[w], Append(channel[w], m), Once(m.all))
      BY <1>3, LeadsToRoster DEF RostersInv, RostersTyped
    <3>4. AddsUp(w, Once(inside \ {w}))'
      BY <1>1, <1>4, <3>1, OnceIs DEF AddsUp, Listed, Entering, HandlerStages
    <3>. QED  BY <1>1, <1>3, <2>2, <3>1, <3>2, <3>3, <3>4, OnceIs
  <2>. QED  BY <2>1, <2>2
<1>. QED  BY <1>7, <1>8, <1>9, <1>10, <1>11, <1>12 DEF RostersInv

LEMMA AnnouncesKeeps ==
    ASSUME RostersInv, NEW w \in Watchers, Announces(w)
    PROVE  RostersInv'
<1>. DEFINE m == [type |-> "participant_joined", who |-> w]
            to == IF exists THEN inside \ {w} ELSE {}
<1>1. /\ Sends(m, to)
      /\ UNCHANGED <<exists, inside, requests, watching, people, crossed>>
  BY DEF Announces, Broadcasts
<1>2. IsAt(w, "announce") /\ OnlyMoves(w, "none")
  BY EndsIs DEF RostersInv
<1>3. m \in RosterMessages /\ m.type = "participant_joined" /\ m.who = w
  BY DEF RosterMessages
<1>4. /\ handler' \in [Watchers -> Steps \cup {None}]
      /\ \A v \in Watchers \ {w} :
           handler'[v] = handler[v] /\ \A x \in HandlerStages : IsAt(v, x)' <=> IsAt(v, x)
      /\ \A x \in HandlerStages : ~IsAt(w, x)'
  BY <1>2 DEF OnlyMoves, HandlerStages
<1>5. w # Owner /\ Entering(w) /\ \A x \in HandlerStages \ {"announce"} : ~IsAt(w, x)
  BY <1>2, StageIs DEF RostersInv, HandlersFit, Entering, HandlerStages
<1>6. to \in SUBSET Watchers
  BY DEF RostersInv, RostersTyped
<1>. HIDE DEF m
<1>7. /\ channel' \in [Watchers -> Seq(RosterMessages)] /\ missed' \in [Watchers -> BOOLEAN]
      /\ \A u \in Watchers :
           /\ u \notin to => channel'[u] = channel[u] /\ (missed[u] => missed'[u])
           /\ u \in to /\ ~missed'[u] => channel'[u] = Append(channel[u], m) /\ ~missed[u]
  BY <1>1, <1>3, <1>6, SendsIs DEF RostersInv
<1>8. RostersTyped'
  BY <1>1, <1>4, <1>7 DEF RostersInv, RostersTyped
<1>9. HandlersFit'
  BY <1>1, <1>4, <1>5, RostersAssumption DEF RostersInv, HandlersFit, Entering, HandlerStages
<1>10. VisitsFit'
  <2>1. \A u \in Watchers : (SentFits(u)' <=> SentFits(u)) /\ (IsOut(u)' <=> IsOut(u))
    BY <1>1 DEF SentFits, IsOut
  <2>. QED  BY <1>1, <1>4, <1>5, <2>1 DEF RostersInv, VisitsFit, Entering, HandlerStages
<1>11. ShutLists'
  BY <1>1 DEF RostersInv, ShutLists
<1>12. SeenFits'
  BY <1>1, <1>4 DEF RostersInv, SeenFits, Entering, HandlerStages
<1>13. ListsFit'
  <2>. SUFFICES ASSUME NEW u \in Watchers, Followed(u)'
                PROVE  \E l \in Lists : LeadsTo(people'[u], channel'[u], l) /\ AddsUp(u, l)'
    BY DEF ListsFit
  <2>1. exists /\ w \in inside
    BY <1>1, <1>2 DEF RostersInv, HandlersFit, Followed
  <2>2. Followed(u)
    <3>1. ~IsAt(u, "tell")
      BY <1>4, <1>5 DEF Followed, HandlerStages
    <3>2. ~missed[u]
      BY <1>7 DEF Followed
    <3>. QED  BY <1>1, <3>1, <3>2 DEF Followed
  <2>3. CASE u = w
    <3>1. \A v \in Watchers \ {u} :
            ~IsAt(v, "left")' => ~IsAt(v, "left") /\ (Listed(v)' <=> Listed(v))
      BY <1>1, <1>4, <2>3 DEF Listed, HandlerStages
    <3>2. channel'[u] = channel[u]
      BY <1>7, <2>3
    <3>. QED  BY <1>1, <2>2, <3>1, <3>2, ListKept DEF RostersInv
  <2>4. CASE u # w
    <3>1. channel'[u] = Append(channel[u], m)
      BY <1>1, <1>7, <2>1, <2>4 DEF Followed
    <3>2. PICK l \in Lists : LeadsTo(people[u], channel[u], l) /\ AddsUp(u, l)
      BY <2>2 DEF RostersInv, ListsFit
    <3>3. Shown(l, m) \in Lists /\ Shown(l, m) = [l EXCEPT ![w] = @ + 1]
      BY <1>3, ShownIs
    <3>4. LeadsTo(people[u], Append(channel[u], m), Shown(l, m))
      BY <1>3, <3>2, LeadsToMore DEF RostersInv, RostersTyped
    <3>5. l[w] = 0
      BY <1>2, <1>5, <2>4, <3>2 DEF AddsUp, Listed, HandlerStages
    <3>6. Shown(l, m)[w] = 1 /\ \A v \in Watchers \ {w} : Shown(l, m)[v] = l[v]
      BY <3>2, <3>3, <3>5 DEF Lists
    <3>7. Listed(w)'
      BY <1>1, <1>4, <2>1 DEF Listed, HandlerStages
    <3>8. \A v \in Watchers \ {w} : (IsAt(v, "left")' <=> IsAt(v, "left")) /\ (Listed(v)' <=> Listed(v))
      BY <1>1, <1>4 DEF Listed, HandlerStages
    <3>9. AddsUp(u, Shown(l, m))'
      BY <2>4, <3>2, <3>6, <3>7, <3>8 DEF AddsUp
    <3>. QED  BY <1>1, <3>1, <3>3, <3>4, <3>9
  <2>. QED  BY <2>3, <2>4
<1>. QED  BY <1>8, <1>9, <1>10, <1>11, <1>12, <1>13 DEF RostersInv

LEMMA AnnouncesLeftKeeps ==
    ASSUME RostersInv, NEW w \in Watchers, AnnouncesLeft(w)
    PROVE  RostersInv'
<1>. DEFINE m == [type |-> "participant_left", who |-> w]
            to == IF exists THEN inside \ {} ELSE {}
<1>1. /\ Sends(m, to)
      /\ UNCHANGED <<exists, inside, requests, watching, people, crossed>>
  BY DEF AnnouncesLeft, Broadcasts
<1>2. IsAt(w, "left") /\ OnlyMoves(w, "none")
  BY EndsIs DEF RostersInv
<1>3. m \in RosterMessages /\ m.type = "participant_left" /\ m.who = w
  BY DEF RosterMessages
<1>4. /\ handler' \in [Watchers -> Steps \cup {None}]
      /\ \A v \in Watchers \ {w} :
           handler'[v] = handler[v] /\ \A x \in HandlerStages : IsAt(v, x)' <=> IsAt(v, x)
      /\ \A x \in HandlerStages : ~IsAt(w, x)'
  BY <1>2 DEF OnlyMoves, HandlerStages
<1>5. w # Owner /\ w \notin inside /\ \A x \in HandlerStages \ {"left"} : ~IsAt(w, x)
  BY <1>2, StageIs DEF RostersInv, HandlersFit, HandlerStages
<1>6. to \in SUBSET Watchers
  BY DEF RostersInv, RostersTyped
<1>. HIDE DEF m
<1>7. /\ channel' \in [Watchers -> Seq(RosterMessages)] /\ missed' \in [Watchers -> BOOLEAN]
      /\ \A u \in Watchers :
           /\ u \notin to => (missed[u] => missed'[u])
           /\ u \in to /\ ~missed'[u] => channel'[u] = Append(channel[u], m) /\ ~missed[u]
  BY <1>1, <1>3, <1>6, SendsIs DEF RostersInv
<1>8. RostersTyped'
  BY <1>1, <1>4, <1>7 DEF RostersInv, RostersTyped
<1>9. HandlersFit'
  BY <1>1, <1>4, <1>5, RostersAssumption DEF RostersInv, HandlersFit, Entering, HandlerStages
<1>10. VisitsFit'
  <2>1. \A u \in Watchers : (SentFits(u)' <=> SentFits(u)) /\ (IsOut(u)' <=> IsOut(u))
    BY <1>1 DEF SentFits, IsOut
  <2>. QED  BY <1>1, <1>4, <1>5, <2>1 DEF RostersInv, VisitsFit, Entering, HandlerStages
<1>11. ShutLists'
  BY <1>1 DEF RostersInv, ShutLists
<1>12. SeenFits'
  BY <1>1, <1>4 DEF RostersInv, SeenFits, Entering, HandlerStages
<1>13. ListsFit'
  <2>. SUFFICES ASSUME NEW u \in Watchers, Followed(u)'
                PROVE  \E l \in Lists : LeadsTo(people'[u], channel'[u], l) /\ AddsUp(u, l)'
    BY DEF ListsFit
  <2>1. exists /\ u # w /\ u \in to
    BY <1>1, <1>5 DEF RostersInv, HandlersFit, Followed
  <2>2. Followed(u)
    <3>1. ~IsAt(u, "tell")
      BY <1>4, <1>5 DEF Followed, HandlerStages
    <3>2. ~missed[u]
      BY <1>7 DEF Followed
    <3>. QED  BY <1>1, <3>1, <3>2 DEF Followed
  <2>3. channel'[u] = Append(channel[u], m)
    BY <1>7, <2>1 DEF Followed
  <2>4. PICK l \in Lists : LeadsTo(people[u], channel[u], l) /\ AddsUp(u, l)
    BY <2>2 DEF RostersInv, ListsFit
  <2>5. Shown(l, m) \in Lists /\ Shown(l, m) = [l EXCEPT ![w] = 0]
    BY <1>3, ShownIs
  <2>6. LeadsTo(people[u], Append(channel[u], m), Shown(l, m))
    BY <1>3, <2>4, LeadsToMore DEF RostersInv, RostersTyped
  <2>7. Shown(l, m)[w] = 0 /\ \A v \in Watchers \ {w} : Shown(l, m)[v] = l[v]
    BY <2>4, <2>5 DEF Lists
  <2>8. ~Listed(w)'
    BY <1>1, <1>5 DEF Listed
  <2>9. \A v \in Watchers \ {w} : (IsAt(v, "left")' <=> IsAt(v, "left")) /\ (Listed(v)' <=> Listed(v))
    BY <1>1, <1>4 DEF Listed, HandlerStages
  <2>10. AddsUp(u, Shown(l, m))'
    BY <2>1, <2>4, <2>7, <2>8, <2>9 DEF AddsUp
  <2>. QED  BY <1>1, <2>3, <2>5, <2>6, <2>10
<1>. QED  BY <1>8, <1>9, <1>10, <1>11, <1>12, <1>13 DEF RostersInv

LEMMA TakesLeaveKeeps ==
    ASSUME RostersInv, NEW w \in Watchers, TakesLeave(w)
    PROVE  RostersInv'
<1>1. /\ Takes(w, "leave") /\ Crosses(w, FALSE)
      /\ UNCHANGED <<exists, channel, watching, people, missed>>
  BY DEF TakesLeave
<1>2. \A u \in Watchers : SentFits(u)' /\ (u # w => (IsOut(u)' <=> IsOut(u)))
  BY <1>1, TakenFits DEF RostersInv
<1>3. /\ \A x : ~IsAt(w, x)
      /\ requests' \in [Watchers -> Seq({"join", "leave"})]
      /\ \A v \in Watchers \ {w} : requests'[v] = requests[v]
  BY <1>1, TakesIs DEF RostersInv
<1>4. /\ inside' = inside \ {w}
      /\ \/ w \notin inside /\ OnlyMoves(w, "none")
         \/ inside = {w} /\ OnlyMoves(w, "remove")
         \/ w = Owner /\ OnlyMoves(w, "destroyed")
         \/ w \in inside /\ inside # {w} /\ w # Owner /\ OnlyMoves(w, "left")
  BY TakesLeaveIs DEF RostersInv
<1>5. /\ handler' \in [Watchers -> Steps \cup {None}]
      /\ \A v \in Watchers \ {w} :
           handler'[v] = handler[v] /\ \A x \in HandlerStages : IsAt(v, x)' <=> IsAt(v, x)
      /\ ~Entering(w)'
      /\ IsAt(w, "left")' => w # Owner
      /\ IsAt(w, "destroyed")' => w = Owner
      /\ IsAt(w, "remove")' => inside = {w}
      /\ w = Owner /\ w \in inside => IsAt(w, "remove")' \/ IsAt(w, "destroyed")'
  BY <1>4 DEF OnlyMoves, HandlerStages, Entering
<1>6. RostersTyped'
  BY <1>1, <1>3, <1>4, <1>5 DEF RostersInv, RostersTyped
<1>7. HandlersFit'
  BY <1>1, <1>3, <1>4, <1>5, RostersAssumption DEF RostersInv, HandlersFit, Entering, HandlerStages
<1>8. VisitsFit'
  BY <1>1, <1>2, <1>4, <1>5 DEF RostersInv, VisitsFit, Entering, HandlerStages
<1>9. ShutLists'
  BY <1>1 DEF RostersInv, ShutLists
<1>10. ASSUME NEW u \in Watchers, u # w, ~crossed'[u]
       PROVE  ~crossed[u] /\ ~IsAt(u, "insert") /\ ~IsAt(u, "tell")
  BY <1>1, <1>10 DEF Crosses
<1>11. SeenFits'
  BY <1>5, <1>10 DEF SeenFits, Entering, HandlerStages
<1>12. ListsFit'
  <2>. SUFFICES ASSUME NEW u \in Watchers, Followed(u)'
                PROVE  \E l \in Lists : LeadsTo(people'[u], channel'[u], l) /\ AddsUp(u, l)'
    BY DEF ListsFit
  <2>1. u # w
    BY <1>4 DEF Followed
  <2>2. Followed(u)
    BY <1>1, <1>3, <1>4, <1>5, <1>10, <2>1 DEF Followed, HandlerStages
  <2>3. \A v \in Watchers \ {u} :
          ~IsAt(v, "left")' => ~IsAt(v, "left") /\ (Listed(v)' <=> Listed(v))
    <3>1. ~IsAt(w, "left")' => ~Listed(w)
      BY <1>3, <1>4, <2>1, <2>2 DEF Listed, Followed, OnlyMoves, HandlerStages
    <3>. QED  BY <1>3, <1>4, <1>5, <3>1 DEF Listed, HandlerStages
  <2>. QED  BY <1>1, <2>2, <2>3, ListKept DEF RostersInv
<1>. QED  BY <1>6, <1>7, <1>8, <1>9, <1>11, <1>12 DEF RostersInv

\* The end of the session is for pages that follow it no more.
LEMMA AnnouncesEndKeeps ==
    ASSUME RostersInv, NEW w \in Watchers, AnnouncesEnd(w)
    PROVE  RostersInv'
<1>. DEFINE m == [type |-> "session_destroyed"]
            to == IF exists THEN inside \ {} ELSE {}
<1>1. /\ Sends(m, to)
      /\ UNCHANGED <<exists, inside, requests, watching, people, crossed>>
  BY DEF AnnouncesEnd, Broadcasts
<1>2. IsAt(w, "destroyed") /\ OnlyMoves(w, "remove")
  BY EndsIs DEF RostersInv
<1>3. m \in RosterMessages
  BY DEF RosterMessages
<1>4. to \in SUBSET Watchers
  BY DEF RostersInv, RostersTyped
<1>. HIDE DEF m, to
<1>5. /\ handler' \in [Watchers -> Steps \cup {None}]
      /\ \A v \in Watchers \ {w} :
           handler'[v] = handler[v] /\ \A x \in HandlerStages : IsAt(v, x)' <=> IsAt(v, x)
      /\ \A x \in HandlerStages \ {"remove"} : ~IsAt(w, x)'
      /\ IsAt(w, "remove")'
  BY <1>2 DEF OnlyMoves, HandlerStages
<1>6. Owner \notin inside
  BY <1>2 DEF RostersInv, HandlersFit
<1>7. channel' \in [Watchers -> Seq(RosterMessages)] /\ missed' \in [Watchers -> BOOLEAN]
  BY <1>1, <1>3, <1>4, SendsIs DEF RostersInv
<1>8. RostersTyped'
  BY <1>1, <1>5, <1>7 DEF RostersInv, RostersTyped
<1>9. HandlersFit'
  BY <1>1, <1>5, <1>6, RostersAssumption DEF RostersInv, HandlersFit, Entering, HandlerStages
<1>10. VisitsFit'
  <2>1. \A u \in Watchers : (SentFits(u)' <=> SentFits(u)) /\ (IsOut(u)' <=> IsOut(u))
    BY <1>1 DEF SentFits, IsOut
  <2>. QED  BY <1>1, <1>5, <2>1 DEF RostersInv, VisitsFit, Entering, HandlerStages
<1>11. ShutLists'
  BY <1>1 DEF RostersInv, ShutLists
<1>12. SeenFits' /\ ListsFit'
  BY <1>1, <1>6 DEF SeenFits, ListsFit, Followed
<1>. QED  BY <1>8, <1>9, <1>10, <1>11, <1>12 DEF RostersInv

LEMMA RemovesSessionKeeps ==
    ASSUME RostersInv, NEW w \in Watchers, RemovesSession(w)
    PROVE  RostersInv'
<1>1. /\ \A v \in Watchers : ~IsAt(v, "insert")
      /\ exists' = FALSE /\ inside' = {}
      /\ UNCHANGED <<requests, channel, watching, people, missed, crossed>>
  BY DEF RemovesSession
<1>2. OnlyMoves(w, "none")
  BY EndsIs DEF RostersInv
<1>3. /\ handler' \in [Watchers -> Steps \cup {None}]
      /\ \A v \in Watchers \ {w} : \A x \in HandlerStages : IsAt(v, x)' <=> IsAt(v, x)
      /\ \A x \in HandlerStages : ~IsAt(w, x)'
  BY <1>2 DEF OnlyMoves, HandlerStages
<1>4. RostersTyped'
  BY <1>1, <1>3 DEF RostersInv, RostersTyped
<1>5. HandlersFit'
  BY <1>1, <1>3, RostersAssumption DEF RostersInv, HandlersFit, Entering, HandlerStages
<1>6. VisitsFit'
  <2>1. \A u \in Watchers : (SentFits(u)' <=> SentFits(u)) /\ (IsOut(u)' <=> IsOut(u))
    BY <1>1 DEF SentFits, IsOut
  <2>. QED  BY <1>1, <1>3, <2>1 DEF RostersInv, VisitsFit, Entering, HandlerStages
<1>7. ShutLists'
  BY <1>1 DEF RostersInv, ShutLists
<1>8. SeenFits' /\ ListsFit'
  BY <1>1 DEF SeenFits, ListsFit, Followed
<1>. QED  BY <1>4, <1>5, <1>6, <1>7, <1>8 DEF RostersInv

\* What a user has sent with one more.
LEMMA AskedFits ==
    ASSUME RostersInv, NEW w \in Watchers, NEW message \in {"join", "leave"},
           requests' = [requests EXCEPT ![w] = Append(@, message)],
           watching' = [watching EXCEPT ![w] = (message = "join")],
           w = Owner => message = "leave",
           message = "leave" <=> watching[w]
    PROVE  /\ requests' \in [Watchers -> Seq({"join", "leave"})]
           /\ \A v \in Watchers \ {w} : requests'[v] = requests[v]
           /\ requests'[w] = Append(requests[w], message)
           /\ \A u \in Watchers : SentFits(u)' /\ (IsOut(u)' => IsOut(u))
<1>. DEFINE r == requests[w]
            n == Len(r)
            s == requests'[w]
<1>1. /\ requests' \in [Watchers -> Seq({"join", "leave"})]
      /\ \A v \in Watchers \ {w} : requests'[v] = requests[v] /\ watching'[v] = watching[v]
      /\ s = Append(r, message) /\ watching'[w] = (message = "join")
  BY DEF RostersInv, RostersTyped
<1>2. /\ n \in Nat /\ Len(s) = n + 1 /\ s[n + 1] = message
      /\ \A i \in 1..n : s[i] = r[i]
  BY <1>1 DEF RostersInv, RostersTyped
<1>3. ASSUME NEW u \in Watchers, u # w PROVE SentFits(u)' /\ (IsOut(u)' => IsOut(u))
  <2>1. requests'[u] = requests[u] /\ watching'[u] = watching[u] /\ SentFits(u)
    BY <1>1, <1>3 DEF RostersInv, VisitsFit
  <2>. QED  BY <2>1 DEF SentFits, IsOut
<1>. HIDE DEF r, n, s
<1>4. SentFits(w)
  BY DEF RostersInv, VisitsFit
<1>5. SentFits(w)'
  <2>1. CASE w = Owner
    <3>1. \A i \in 1..n : r[i] = "leave"
      BY <1>4, <2>1 DEF SentFits, r, n
    <3>2. \A i \in 1..(n + 1) : s[i] = "leave"
      BY <1>2, <2>1, <3>1
    <3>. QED  BY <1>2, <2>1, <3>2 DEF SentFits, s
  <2>2. CASE w # Owner
    <3>1. /\ \A i \in 1..(n - 1) : r[i] # r[i + 1]
          /\ n > 0 => (r[n] = "join" <=> watching[w])
      BY <1>4, <2>2 DEF SentFits, r, n
    <3>2. n > 0 => r[n] # message
      BY <3>1
    <3>3. \A i \in 1..n : s[i] # s[i + 1]
      BY <1>2, <3>1, <3>2
    <3>4. s[n + 1] = "join" <=> watching'[w]
      BY <1>1, <1>2
    <3>5. n + 1 - 1 = n
      BY <1>2
    <3>. QED  BY <1>2, <2>2, <3>3, <3>4, <3>5 DEF SentFits, s
  <2>. QED  BY <2>1, <2>2
<1>6. IsOut(w)' => IsOut(w)
  <2>1. SUFFICES ASSUME s[1] = "join" PROVE IsOut(w)
    BY <1>2 DEF IsOut, s
  <2>2. CASE n = 0
    BY <1>2, <2>1, <2>2 DEF IsOut, r, n
  <2>3. CASE n > 0
    BY <1>2, <2>1, <2>3 DEF IsOut, r, n
  <2>. QED  BY <1>2, <2>2, <2>3
<1>. QED  BY <1>1, <1>3, <1>5, <1>6 DEF r, s

LEMMA OpensPageKeeps ==
    ASSUME RostersInv, NEW w \in Watchers, OpensPage(w)
    PROVE  RostersInv'
<1>1. /\ ~watching[w]
      /\ watching' = [watching EXCEPT ![w] = TRUE]
      /\ people' = [people EXCEPT ![w] = Once({})]
      /\ requests' = IF w = Owner THEN requests
                     ELSE [requests EXCEPT ![w] = Append(@, "join")]
      /\ UNCHANGED <<exists, inside, handler, channel, missed, crossed>>
  BY DEF OpensPage, relayVars
<1>2. people' = people
  <2>1. people[w] = Once({})
    BY <1>1 DEF RostersInv, ShutLists
  <2>. QED  BY <1>1, <2>1 DEF RostersInv, RostersTyped
<1>3. /\ watching' \in [Watchers -> BOOLEAN] /\ watching'[w]
      /\ \A v \in Watchers \ {w} : watching'[v] = watching[v]
  BY <1>1 DEF RostersInv, RostersTyped
<1>4. /\ requests' \in [Watchers -> Seq({"join", "leave"})]
      /\ \A u \in Watchers : SentFits(u)' /\ (u # Owner /\ IsOut(u)' => IsOut(u))
      /\ \A u \in Watchers : \A i \in 1..Len(requests[u]) :
           i \in 1..Len(requests'[u]) /\ requests'[u][i] = requests[u][i]
  <2>1. CASE w = Owner
    <3>1. requests' = requests
      BY <1>1, <2>1
    <3>2. \A u \in Watchers : SentFits(u)
      BY DEF RostersInv, VisitsFit
    <3>3. \A u \in Watchers \ {Owner} : SentFits(u)' /\ (IsOut(u)' => IsOut(u))
      BY <1>3, <2>1, <3>1, <3>2 DEF SentFits, IsOut
    <3>4. SentFits(Owner)'
      BY <2>1, <3>1, <3>2 DEF SentFits
    <3>5. requests' \in [Watchers -> Seq({"join", "leave"})]
      BY <3>1 DEF RostersInv, RostersTyped
    <3>. QED  BY <3>1, <3>3, <3>4, <3>5
  <2>2. CASE w # Owner
    <3>1. requests' = [requests EXCEPT ![w] = Append(@, "join")]
      BY <1>1, <2>2
    <3>2. watching' = [watching EXCEPT ![w] = ("join" = "join")]
      BY <1>1
    <3>3. /\ requests' \in [Watchers -> Seq({"join", "leave"})]
          /\ \A v \in Watchers \ {w} : requests'[v] = requests[v]
          /\ requests'[w] = Append(requests[w], "join")
          /\ \A u \in Watchers : SentFits(u)' /\ (IsOut(u)' => IsOut(u))
      BY <1>1, <2>2, <3>1, <3>2, AskedFits
    <3>4. \A i \in 1..Len(requests[w]) :
            i \in 1..Len(requests'[w]) /\ requests'[w][i] = requests[w][i]
      BY <3>3 DEF RostersInv, RostersTyped
    <3>5. ASSUME NEW u \in Watchers, NEW i \in 1..Len(requests[u])
          PROVE  i \in 1..Len(requests'[u]) /\ requests'[u][i] = requests[u][i]
      BY <3>3, <3>4
    <3>. QED  BY <3>3, <3>5
  <2>. QED  BY <2>1, <2>2
<1>5. \A v \in Watchers : \A x : IsAt(v, x)' <=> IsAt(v, x)
  BY <1>1 DEF IsAt
<1>6. RostersTyped'
  BY <1>1, <1>2, <1>3, <1>4 DEF RostersInv, RostersTyped
<1>7. HandlersFit' /\ SeenFits'
  BY <1>1, <1>5, RostersAssumption DEF RostersInv, HandlersFit, SeenFits, Entering
<1>8. VisitsFit'
  BY <1>1, <1>4, <1>5 DEF RostersInv, VisitsFit, Entering
<1>9. ShutLists'
  BY <1>2, <1>3 DEF RostersInv, ShutLists
<1>10. ListsFit'
  <2>. SUFFICES ASSUME NEW u \in Watchers, Followed(u)'
                PROVE  \E l \in Lists : LeadsTo(people'[u], channel'[u], l) /\ AddsUp(u, l)'
    BY DEF ListsFit
  <2>1. Followed(u)
    BY <1>1, <1>4, <1>5 DEF Followed
  <2>2. \A v \in Watchers \ {u} :
          ~IsAt(v, "left")' => ~IsAt(v, "left") /\ (Listed(v)' <=> Listed(v))
    BY <1>1, <1>5 DEF Listed
  <2>. QED  BY <1>1, <1>2, <2>1, <2>2, ListKept DEF RostersInv
<1>. QED  BY <1>6, <1>7, <1>8, <1>9, <1>10 DEF RostersInv

LEMMA ClosesPageKeeps ==
    ASSUME RostersInv, NEW w \in Watchers, ClosesPage(w)
    PROVE  RostersInv'
<1>1. /\ watching[w]
      /\ watching' = [watching EXCEPT ![w] = FALSE]
      /\ people' = [people EXCEPT ![w] = Once({})]
      /\ requests' = [requests EXCEPT ![w] = Append(@, "leave")]
      /\ UNCHANGED <<exists, inside, handler, channel, missed, crossed>>
  BY DEF ClosesPage, relayVars
<1>2. /\ people' \in [Watchers -> Lists] /\ people'[w] = Once({})
      /\ \A v \in Watchers \ {w} : people'[v] = people[v]
  BY <1>1, OnceIs DEF RostersInv, RostersTyped
<1>3. /\ watching' \in [Watchers -> BOOLEAN]
      /\ \A v \in Watchers \ {w} : watching'[v] = watching[v]
  BY <1>1 DEF RostersInv, RostersTyped
<1>4. /\ requests' \in [Watchers -> Seq({"join", "leave"})]
      /\ \A v \in Watchers \ {w} : requests'[v] = requests[v]
      /\ requests'[w] = Append(requests[w], "leave")
      /\ \A u \in Watchers : SentFits(u)' /\ (IsOut(u)' => IsOut(u))
  <2>1. watching' = [watching EXCEPT ![w] = ("leave" = "join")]
    BY <1>1
  <2>. QED  BY <1>1, <2>1, AskedFits
<1>5. \A v \in Watchers : \A x : IsAt(v, x)' <=> IsAt(v, x)
  BY <1>1 DEF IsAt
<1>6. RostersTyped'
  BY <1>1, <1>2, <1>3, <1>4 DEF RostersInv, RostersTyped
<1>7. HandlersFit' /\ SeenFits'
  BY <1>1, <1>5, RostersAssumption DEF RostersInv, HandlersFit, SeenFits, Entering
<1>8. VisitsFit'
  BY <1>1, <1>4, <1>5 DEF RostersInv, VisitsFit, Entering
<1>9. ShutLists'
  BY <1>2, <1>3 DEF RostersInv, ShutLists
<1>10. ListsFit'
  <2>. SUFFICES ASSUME NEW u \in Watchers, Followed(u)'
                PROVE  \E l \in Lists : LeadsTo(people'[u], channel'[u], l) /\ AddsUp(u, l)'
    BY DEF ListsFit
  <2>1. u # w
    <3>. DEFINE n == Len(requests[w])
    <3>1. n \in Nat /\ Len(requests'[w]) = n + 1 /\ requests'[w][n + 1] = "leave"
      BY <1>4 DEF RostersInv, RostersTyped
    <3>. QED  BY <3>1 DEF Followed
  <2>2. Followed(u)
    BY <1>1, <1>4, <1>5, <2>1 DEF Followed
  <2>3. \A v \in Watchers \ {u} :
          ~IsAt(v, "left")' => ~IsAt(v, "left") /\ (Listed(v)' <=> Listed(v))
    BY <1>1, <1>5 DEF Listed
  <2>. QED  BY <1>1, <1>2, <2>1, <2>2, <2>3, ListKept DEF RostersInv
<1>. QED  BY <1>6, <1>7, <1>8, <1>9, <1>10 DEF RostersInv

LEMMA ReceivesKeeps ==
    ASSUME RostersInv, NEW w \in Watchers, Receives(w)
    PROVE  RostersInv'
<1>1. /\ channel[w] # <<>>
      /\ channel' = [channel EXCEPT ![w] = Tail(@)]
      /\ people' = [people EXCEPT ![w] =
           IF watching[w] THEN Shown(@, Head(channel[w])) ELSE @]
      /\ missed' = [missed EXCEPT ![w] = @ \/ ~watching[w]]
      /\ UNCHANGED <<exists, inside, handler, requests, watching, crossed>>
  BY DEF Receives, relayVars
<1>2. channel[w] \in Seq(RosterMessages) /\ people[w] \in Lists
  BY DEF RostersInv, RostersTyped
<1>3. Head(channel[w]) \in RosterMessages /\ Tail(channel[w]) \in Seq(RosterMessages)
  BY <1>1, <1>2
<1>4. Shown(people[w], Head(channel[w])) \in Lists
  BY <1>2, <1>3, ShownIs
<1>5. /\ channel' \in [Watchers -> Seq(RosterMessages)] /\ channel'[w] = Tail(channel[w])
      /\ \A v \in Watchers \ {w} : channel'[v] = channel[v]
  BY <1>1, <1>3 DEF RostersInv, RostersTyped
<1>6. /\ people' \in [Watchers -> Lists]
      /\ \A v \in Watchers \ {w} : people'[v] = people[v]
      /\ watching[w] => people'[w] = Shown(people[w], Head(channel[w]))
      /\ ~watching[w] => people'[w] = people[w]
  BY <1>1, <1>4 DEF RostersInv, RostersTyped
<1>7. /\ missed' \in [Watchers -> BOOLEAN]
      /\ \A v \in Watchers \ {w} : missed'[v] = missed[v]
      /\ ~missed'[w] => ~missed[w] /\ watching[w]
  BY <1>1 DEF RostersInv, RostersTyped
<1>8. \A v \in Watchers : \A x : IsAt(v, x)' <=> IsAt(v, x)
  BY <1>1 DEF IsAt
<1>9. RostersTyped'
  BY <1>1, <1>5, <1>6, <1>7 DEF RostersInv, RostersTyped
<1>10. HandlersFit' /\ SeenFits'
  BY <1>1, <1>8, RostersAssumption DEF RostersInv, HandlersFit, SeenFits, Entering
<1>11. VisitsFit'
  <2>1. \A u \in Watchers : (SentFits(u)' <=> SentFits(u)) /\ (IsOut(u)' <=> IsOut(u))
    BY <1>1 DEF SentFits, IsOut
  <2>. QED  BY <1>1, <1>8, <2>1 DEF RostersInv, VisitsFit, Entering
<1>12. ShutLists'
  BY <1>1, <1>6 DEF RostersInv, ShutLists
<1>13. ListsFit'
  <2>. SUFFICES ASSUME NEW u \in Watchers, Followed(u)'
                PROVE  \E l \in Lists : LeadsTo(people'[u], channel'[u], l) /\ AddsUp(u, l)'
    BY DEF ListsFit
  <2>1. Followed(u)
    BY <1>1, <1>7, <1>8 DEF Followed
  <2>2. \A v \in Watchers : (IsAt(v, "left")' <=> IsAt(v, "left")) /\ (Listed(v)' <=> Listed(v))
    BY <1>1, <1>8 DEF Listed
  <2>3. CASE u # w
    BY <1>5, <1>6, <2>1, <2>2, <2>3, ListKept DEF RostersInv
  <2>4. CASE u = w
    <3>1. people'[w] = Shown(people[w], Head(channel[w]))
      BY <1>6, <1>7, <2>4 DEF Followed
    <3>2. PICK l \in Lists : LeadsTo(people[w], channel[w], l) /\ AddsUp(w, l)
      BY <2>1, <2>4 DEF RostersInv, ListsFit
    <3>3. LeadsTo(Shown(people[w], Head(channel[w])), Tail(channel[w]), l)
      BY <1>1, <1>2, <3>2, LeadsToLess
    <3>4. AddsUp(w, l)'
      BY <2>2, <3>2 DEF AddsUp
    <3>. QED  BY <1>5, <2>4, <3>1, <3>3, <3>4
  <2>. QED  BY <2>3, <2>4
<1>. QED  BY <1>9, <1>10, <1>11, <1>12, <1>13 DEF RostersInv

-----------------------------------------------------------------------------
LEMMA RostersInitially == RostersInit => RostersInv
<1>. SUFFICES ASSUME RostersInit PROVE RostersInv
  OBVIOUS
<1>1. /\ exists = TRUE /\ inside = {Owner}
      /\ handler = [u \in Watchers |-> None]
      /\ requests = [u \in Watchers |-> <<>>] /\ channel = [u \in Watchers |-> <<>>]
      /\ people = [u \in Watchers |-> Once({})]
      /\ missed = [u \in Watchers |-> FALSE]
  BY DEF RostersInit
<1>2. PICK open \in BOOLEAN : watching = [u \in Watchers |-> open /\ u = Owner]
  BY DEF RostersInit
<1>3. watching \in [Watchers -> BOOLEAN] /\ \A u \in Watchers \ {Owner} : ~watching[u]
  BY <1>2
<1>4. \A u \in Watchers : \A x : ~IsAt(u, x)
  BY <1>1 DEF IsAt
<1>5. RostersTyped
  BY <1>1, <1>3, OnceIs, RostersAssumption DEF RostersTyped
<1>6. HandlersFit
  BY <1>1, <1>4, RostersAssumption DEF HandlersFit, Entering
<1>7. VisitsFit
  BY <1>1, <1>4 DEF VisitsFit, SentFits, Entering
<1>8. ShutLists
  BY <1>1 DEF ShutLists
<1>9. SeenFits
  BY <1>4 DEF SeenFits
<1>10. ListsFit
  <2>. SUFFICES ASSUME NEW u \in Watchers, Followed(u)
                PROVE  \E l \in Lists : LeadsTo(people[u], channel[u], l) /\ AddsUp(u, l)
    BY DEF ListsFit
  <2>1. u = Owner
    BY <1>1 DEF Followed
  <2>2. LeadsTo(people[u], channel[u], Once({}))
    BY <1>1, OnceIs, LeadsToNothing
  <2>3. AddsUp(u, Once({}))
    BY <1>1, <2>1, OnceIs DEF AddsUp, Listed
  <2>. QED  BY <2>2, <2>3, OnceIs
<1>. QED  BY <1>5, <1>6, <1>7, <1>8, <1>9, <1>10 DEF RostersInv

LEMMA RostersKept == RostersInv /\ [RostersNext]_rosterVars => RostersInv'
<1>. SUFFICES ASSUME RostersInv, [RostersNext]_rosterVars PROVE RostersInv'
  OBVIOUS
<1>1. CASE UNCHANGED rosterVars
  BY <1>1 DEF rosterVars, relayVars, RostersInv, RostersTyped, HandlersFit, VisitsFit,
              SentFits, IsOut, ShutLists, SeenFits, ListsFit, Followed, AddsUp, Listed,
              Entering, IsAt
<1>2. ASSUME NEW w \in Watchers,
             \/ TakesJoin(w) \/ Inserts(w) \/ TellsRoster(w) \/ Announces(w)
             \/ TakesLeave(w) \/ AnnouncesLeft(w) \/ AnnouncesEnd(w) \/ RemovesSession(w)
             \/ OpensPage(w) \/ ClosesPage(w) \/ Receives(w)
      PROVE  RostersInv'
  BY <1>2, TakesJoinKeeps, InsertsKeeps, TellsRosterKeeps, AnnouncesKeeps, TakesLeaveKeeps,
     AnnouncesLeftKeeps, AnnouncesEndKeeps, RemovesSessionKeeps, OpensPageKeeps,
     ClosesPageKeeps, ReceivesKeeps
<1>. QED  BY <1>1, <1>2, Zenon DEF RostersNext

LEMMA RostersInvAgrees == RostersInv => RostersAgree
<1>. SUFFICES ASSUME RostersInv,
                     \A u \in Watchers :
                       handler[u] = None /\ requests[u] = <<>> /\ channel[u] = <<>>,
                     NEW u \in inside, watching[u] /\ ~missed[u] /\ ~crossed[u]
              PROVE  people[u] = Once(inside \ {u})
  BY DEF RostersAgree
<1>1. \A v \in Watchers : \A x : ~IsAt(v, x)
  BY DEF IsAt
<1>2. u \in Watchers
  BY DEF RostersInv, RostersTyped
<1>3. Owner \in inside
  BY <1>1, RostersAssumption DEF RostersInv, HandlersFit
<1>4. Followed(u)
  BY <1>1, <1>2, <1>3 DEF Followed
<1>5. PICK l \in Lists : LeadsTo(people[u], <<>>, l) /\ AddsUp(u, l)
  BY <1>2, <1>4 DEF RostersInv, ListsFit
<1>6. l = people[u]
  BY <1>2, <1>5, LeadsToNothing DEF RostersInv, RostersTyped
<1>7. \A v \in Watchers : people[u][v] = Once(inside \ {u})[v]
  BY <1>1, <1>2, <1>5, <1>6, OnceIs DEF AddsUp, Listed
<1>8. people[u] \in Lists /\ Once(inside \ {u}) \in Lists
  BY <1>2, OnceIs DEF RostersInv, RostersTyped
<1>9. \A a, b \in Lists : (\A v \in Watchers : a[v] = b[v]) => a = b
  BY DEF Lists
<1>. QED  BY <1>7, <1>8, <1>9

\* When nothing is under way, the page of every participant that has heard
\* everything since its roster lists the others, each once: what the joins and
\* leaves of the others became on the way to it (useWatchParticipants).
THEOREM PagesAgree == RostersSpec => []RostersAgree
<1>1. RostersInit => RostersInv
  BY RostersInitially
<1>2. RostersInv /\ [RostersNext]_rosterVars => RostersInv'
  BY RostersKept
<1>. QED  BY <1>1, <1>2, RostersInvAgrees, PTL DEF RostersSpec

-----------------------------------------------------------------------------
(* The types of the rosters.  That a page counts nobody more often than pages *)
(* have been opened takes a tally of the joins on their way to it.            *)

\* How often e is in s.
Times(e, s) == Cardinality({i \in 1..Len(s) : s[i] = e})
Joined(v) == [type |-> "participant_joined", who |-> v]

\* How often the page of u may still count v, for the pages v has opened; and
\* that u has opened one whose roster is still to come.
Owed(u, v) ==
    Times(Joined(v), channel[u]) + Times("join", requests[v])
      + (IF Entering(v) THEN 1 ELSE 0)
Asks(u) ==
    \/ \E i \in 1..Len(requests[u]) : requests[u][i] = "join"
    \/ IsAt(u, "insert") \/ IsAt(u, "tell")
    \/ \E i \in 1..Len(channel[u]) : channel[u][i].type = "session_joined"
Tallied(u, v) ==
    /\ people[u][v] + Owed(u, v) <= visits
    /\ Asks(u) => 1 + Owed(u, v) <= visits

\* Nobody hears of itself.
NotItself(u) ==
    /\ people[u][u] = 0
    /\ IsAt(u, "insert") \/ IsAt(u, "tell") => u \notin handler[u].seen
    /\ \A i \in 1..Len(channel[u]) :
         /\ channel[u][i].type = "participant_joined" => channel[u][i].who # u
         /\ channel[u][i].type = "session_joined" => u \notin channel[u][i].all
RostersFlags ==
    /\ exists \in BOOLEAN /\ crossed \in [Watchers -> BOOLEAN]
    /\ \A u \in Watchers : Len(channel[u]) <= Capacity
    /\ visits \in 0..MaxVisits
RostersTallies ==
    \A u \in Watchers :
      NotItself(u) /\ \A v \in Watchers \ {u} : Tallied(u, v)

LEMMA TimesIs ==
    ASSUME NEW S, NEW s \in Seq(S), NEW e
    PROVE  Times(e, s) \in Nat /\ IsFiniteSet({i \in 1..Len(s) : s[i] = e})
<1>1. IsFiniteSet(1..Len(s))
  BY FS_Interval
<1>2. IsFiniteSet({i \in 1..Len(s) : s[i] = e})
  BY <1>1, FS_Subset
<1>. QED  BY <1>2, FS_CardinalityType DEF Times

LEMMA TimesOfNothing ==
    ASSUME NEW e
    PROVE  Times(e, <<>>) = 0
<1>1. {i \in 1..Len(<<>>) : <<>>[i] = e} = {}
  OBVIOUS
<1>. QED  BY <1>1, FS_EmptySet DEF Times

LEMMA TimesMore ==
    ASSUME NEW S, NEW s \in Seq(S), NEW m \in S, NEW e
    PROVE  Times(e, Append(s, m)) = Times(e, s) + (IF m = e THEN 1 ELSE 0)
<1>. DEFINE n == Len(s)
            A == {i \in 1..n : s[i] = e}
            B == {i \in 1..Len(Append(s, m)) : Append(s, m)[i] = e}
<1>1. /\ n \in Nat /\ Len(Append(s, m)) = n + 1 /\ Append(s, m)[n + 1] = m
      /\ \A i \in 1..n : Append(s, m)[i] = s[i]
  OBVIOUS
<1>2. IsFiniteSet(A) /\ Cardinality(A) \in Nat
  BY TimesIs DEF Times
<1>0. Times(e, s) = Cardinality(A) /\ Times(e, Append(s, m)) = Cardinality(B)
  BY DEF Times
<1>3. CASE m = e
  <2>1. B = A \cup {n + 1}
    BY <1>1, <1>3
  <2>2. n + 1 \notin A
    BY <1>1
  <2>3. Cardinality(B) = Cardinality(A) + 1
    BY <1>2, <2>1, <2>2, FS_AddElement
  <2>. HIDE DEF A, B
  <2>. QED  BY <1>0, <1>3, <2>3
<1>4. CASE m # e
  <2>1. B = A
    BY <1>1, <1>4
  <2>. HIDE DEF A, B
  <2>. QED  BY <1>0, <1>2, <1>4, <2>1
<1>. QED  BY <1>3, <1>4

LEMMA TimesLess ==
    ASSUME NEW S, NEW s \in Seq(S), s # <<>>, NEW e
    PROVE  Times(e, s) = Times(e, Tail(s)) + (IF Head(s) = e THEN 1 ELSE 0)
<1>. DEFINE n == Len(s)
            A == {i \in 1..Len(Tail(s)) : Tail(s)[i] = e}
            B == {i \in 1..n : s[i] = e}
            f == [i \in A |-> i + 1]
<1>1. /\ n \in Nat /\ n >= 1 /\ Len(Tail(s)) = n - 1 /\ Head(s) = s[1]
      /\ \A i \in 1..(n - 1) : Tail(s)[i] = s[i + 1]
      /\ Tail(s) \in Seq(S)
  OBVIOUS
<1>2. IsFiniteSet(A) /\ Cardinality(A) \in Nat
  BY <1>1, TimesIs DEF Times
<1>3. f \in Bijection(A, B \ {1})
  <2>1. \A i \in A : i + 1 \in B \ {1}
    BY <1>1
  <2>2. \A j \in B \ {1} : j - 1 \in A /\ j = (j - 1) + 1
    BY <1>1
  <2>3. \A i, j \in A : i + 1 = j + 1 => i = j
    BY <1>1
  <2>. HIDE DEF A, B
  <2>. QED  BY <2>1, <2>2, <2>3 DEF Bijection, Injection, Surjection, IsInjective
<1>0. Times(e, s) = Cardinality(B) /\ Times(e, Tail(s)) = Cardinality(A)
  BY DEF Times
<1>4. IsFiniteSet(B \ {1}) /\ Cardinality(B \ {1}) = Cardinality(A)
  <2>. HIDE DEF A, B, f
  <2>1. ExistsBijection(A, B \ {1})
    BY <1>3 DEF ExistsBijection
  <2>. QED  BY <1>2, <2>1, FS_Bijection
<1>5. CASE Head(s) = e
  <2>1. B = (B \ {1}) \cup {1}
    BY <1>1, <1>5
  <2>2. Cardinality(B) = Cardinality(A) + 1
    BY <1>4, <2>1, FS_AddElement
  <2>. HIDE DEF A, B
  <2>. QED  BY <1>0, <1>5, <2>2
<1>6. CASE Head(s) # e
  <2>1. B = B \ {1}
    BY <1>1, <1>6
  <2>. HIDE DEF A, B
  <2>2. Cardinality(B) = Cardinality(A)
    BY <1>4, <2>1, Zenon
  <2>. QED  BY <1>0, <1>2, <1>6, <2>2
<1>. QED  BY <1>5, <1>6

LEMMA OwedIs ==
    ASSUME RostersTyped, NEW u \in Watchers, NEW v \in Watchers
    PROVE  /\ Times(Joined(v), channel[u]) \in Nat
           /\ Times("join", requests[v]) \in Nat
           /\ Owed(u, v) \in Nat
<1>1. channel[u] \in Seq(RosterMessages) /\ requests[v] \in Seq({"join", "leave"})
  BY DEF RostersTyped
<1>2. Times(Joined(v), channel[u]) \in Nat /\ Times("join", requests[v]) \in Nat
  BY <1>1, TimesIs
<1>. QED  BY <1>2 DEF Owed

LEMMA OwedNat == RostersTyped => \A u, v \in Watchers : Owed(u, v) \in Nat
BY OwedIs

LEMMA OwedNatNext == RostersTyped' => (\A u, v \in Watchers : Owed(u, v) \in Nat)'
BY OwedNat, PTL

\* What a message adds to what a page is owed, if it is taken at all.
LEMMA SentIs ==
    ASSUME RostersTyped, NEW m \in RosterMessages, NEW to, Sends(m, to), NEW u \in Watchers
    PROVE  \/ channel'[u] = channel[u]
           \/ /\ u \in to /\ channel'[u] = Append(channel[u], m)
              /\ Len(channel[u]) < Capacity
BY RostersAssumption DEF Sends, RostersTyped

LEMMA SentOwed ==
    ASSUME RostersTyped, NEW m \in RosterMessages, NEW to, Sends(m, to),
           NEW u \in Watchers, NEW v \in Watchers
    PROVE  /\ Times(Joined(v), channel'[u]) \in
                {Times(Joined(v), channel[u]),
                 Times(Joined(v), channel[u]) + (IF m = Joined(v) THEN 1 ELSE 0)}
           /\ \A i \in 1..Len(channel'[u]) :
                \/ \E j \in 1..Len(channel[u]) : channel'[u][i] = channel[u][j]
                \/ u \in to /\ channel'[u][i] = m
<1>1. channel[u] \in Seq(RosterMessages)
  BY DEF RostersTyped
<1>2. CASE channel'[u] = channel[u]
  BY <1>2
<1>3. CASE u \in to /\ channel'[u] = Append(channel[u], m)
  <2>1. Times(Joined(v), channel'[u])
          = Times(Joined(v), channel[u]) + (IF m = Joined(v) THEN 1 ELSE 0)
    BY <1>1, <1>3, TimesMore
  <2>. QED  BY <1>1, <1>3, <2>1
<1>. QED  BY <1>2, <1>3, SentIs

\* The steps after which a page is owed no more, and asks only if it asked.
Falls(u, v) == Owed(u, v)' <= Owed(u, v) /\ (Asks(u)' => Asks(u))

LEMMA TakenFalls ==
    ASSUME RostersTyped, NEW w \in Watchers, TakesJoin(w) \/ TakesLeave(w),
           NEW u \in Watchers, NEW v \in Watchers
    PROVE  Falls(u, v)
<1>1. PICK message \in {"join", "leave"} :
        /\ Takes(w, message)
        /\ message = "join" => TakesJoin(w)
        /\ message = "leave" => TakesLeave(w)
  BY DEF TakesJoin, TakesLeave
<1>2. UNCHANGED channel
  BY DEF TakesJoin, TakesLeave
<1>3. /\ requests[w] \in Seq({"join", "leave"}) /\ requests[w] # <<>>
      /\ Head(requests[w]) = message /\ requests'[w] = Tail(requests[w])
      /\ \A x \in Watchers \ {w} : requests'[x] = requests[x]
  BY <1>1 DEF Takes, RostersTyped
<1>4. Times("join", requests[w])
        = Times("join", requests'[w]) + (IF message = "join" THEN 1 ELSE 0)
  BY <1>3, TimesLess
<1>5. /\ \A x : ~IsAt(w, x)
      /\ \A x \in Watchers \ {w} : \A s \in HandlerStages : IsAt(x, s)' <=> IsAt(x, s)
      /\ ~IsAt(w, "tell")' /\ ~IsAt(w, "announce")'
      /\ message = "leave" => ~IsAt(w, "insert")'
  BY <1>1, TakesIs, TakesJoinIs, TakesLeaveIs DEF OnlyMoves, HandlerStages
<1>6. Owed(u, v)' <= Owed(u, v)
  <2>1. /\ Times(Joined(v), channel[u]) \in Nat /\ Times("join", requests[v]) \in Nat
        /\ Times("join", requests'[v]) \in Nat
    <3>1. requests'[v] \in Seq({"join", "leave"})
      BY <1>1, TakesIs
    <3>. QED  BY <3>1, OwedIs, TimesIs
  <2>2. CASE v = w
    BY <1>1, <1>2, <1>4, <1>5, <2>1, <2>2 DEF Owed, Entering
  <2>3. CASE v # w
    <3>1. Entering(v)' <=> Entering(v)
      BY <1>5, <2>3 DEF Entering, HandlerStages
    <3>. QED  BY <1>2, <1>3, <2>1, <2>3, <3>1 DEF Owed
  <2>. QED  BY <2>2, <2>3
<1>7. Asks(u)' => Asks(u)
  <2>1. CASE u = w
    <3>1. \A i \in 1..Len(requests'[u]) :
            i + 1 \in 1..Len(requests[u]) /\ requests'[u][i] = requests[u][i + 1]
      <4>1. Len(requests[w]) \in Nat
        BY <1>3
      <4>. QED  BY <1>1, <2>1, <4>1, TakesIs
    <3>2. message = "join" => 1 \in 1..Len(requests[u]) /\ requests[u][1] = "join"
      BY <1>3, <2>1
    <3>. QED  BY <1>1, <1>2, <1>5, <2>1, <3>1, <3>2 DEF Asks
  <2>2. CASE u # w
    BY <1>2, <1>3, <1>5, <2>2 DEF Asks, HandlerStages
  <2>. QED  BY <2>1, <2>2
<1>. QED  BY <1>6, <1>7 DEF Falls

LEMMA HandledFalls ==
    ASSUME RostersTyped, NEW w \in Watchers,
           \/ Inserts(w) \/ TellsRoster(w) \/ Announces(w)
           \/ AnnouncesLeft(w) \/ AnnouncesEnd(w) \/ RemovesSession(w),
           NEW u \in Watchers, NEW v \in Watchers
    PROVE  Falls(u, v)
<1>1. UNCHANGED requests
  BY DEF Inserts, TellsRoster, Announces, AnnouncesLeft, AnnouncesEnd, RemovesSession
<1>2. /\ Times(Joined(v), channel[u]) \in Nat /\ Times("join", requests[v]) \in Nat
  BY OwedIs
<1>3. CASE Inserts(w)
  <2>1. IsAt(w, "insert") /\ OnlyMoves(w, "tell") /\ UNCHANGED channel
    BY <1>3, InsertsIs DEF Inserts
  <2>2. \A x \in Watchers : Entering(x)' <=> Entering(x)
    BY <2>1 DEF OnlyMoves, Entering, HandlerStages
  <2>3. \A x \in Watchers : (IsAt(x, "insert") \/ IsAt(x, "tell"))' => IsAt(x, "insert") \/ IsAt(x, "tell")
    BY <2>1 DEF OnlyMoves, HandlerStages
  <2>. QED  BY <1>1, <1>2, <2>1, <2>2, <2>3 DEF Falls, Owed, Asks
<1>4. CASE RemovesSession(w)
  <2>1. IsAt(w, "remove") /\ OnlyMoves(w, "none") /\ UNCHANGED channel
    BY <1>4, EndsIs DEF RemovesSession
  <2>2. \A x \in Watchers : \A s \in {"insert", "tell", "announce"} : IsAt(x, s)' => IsAt(x, s)
    BY <2>1 DEF OnlyMoves, HandlerStages
  <2>. QED  BY <1>1, <1>2, <2>1, <2>2 DEF Falls, Owed, Asks, Entering
<1>5. CASE TellsRoster(w)
  <2>. DEFINE m == [type |-> "session_joined", all |-> handler[w].seen]
  <2>1. IsAt(w, "tell") /\ OnlyMoves(w, "announce") /\ Sends(m, {w}) /\ m \in RosterMessages
    BY <1>5, TellsRosterIs DEF TellsRoster, RosterMessages
  <2>2. m # Joined(v)
    BY DEF Joined
  <2>. HIDE DEF m
  <2>3. Times(Joined(v), channel'[u]) = Times(Joined(v), channel[u])
    BY <1>2, <2>1, <2>2, SentOwed
  <2>4. \A x \in Watchers : Entering(x)' <=> Entering(x)
    BY <2>1 DEF OnlyMoves, Entering, HandlerStages
  <2>5. Owed(u, v)' <= Owed(u, v)
    BY <1>1, <1>2, <2>3, <2>4 DEF Owed
  <2>6. CASE u = w
    BY <2>1, <2>5, <2>6 DEF Falls, Asks
  <2>7. CASE u # w
    <3>1. channel'[u] = channel[u]
      BY <2>1, <2>7, SentIs
    <3>2. (IsAt(u, "insert")' <=> IsAt(u, "insert")) /\ (IsAt(u, "tell")' <=> IsAt(u, "tell"))
      BY <2>1, <2>7 DEF OnlyMoves, HandlerStages
    <3>. QED  BY <1>1, <2>5, <3>1, <3>2 DEF Falls, Asks
  <2>. QED  BY <2>6, <2>7
<1>6. ASSUME NEW m \in RosterMessages, NEW to, Sends(m, to), m.type # "session_joined",
             NEW at \in {"none", "remove"}, OnlyMoves(w, at),
             m = Joined(v) => v = w /\ Entering(w)
      PROVE  Falls(u, v)
  <2>1. \A x \in Watchers : \A s \in {"insert", "tell", "announce"} : IsAt(x, s)' => IsAt(x, s)
    BY <1>6 DEF OnlyMoves, HandlerStages
  <2>2. ~Entering(w)'
    BY <1>6 DEF OnlyMoves, HandlerStages, Entering
  <2>3. Owed(u, v)' <= Owed(u, v)
    <3>1. Times(Joined(v), channel'[u]) \in
            {Times(Joined(v), channel[u]),
             Times(Joined(v), channel[u]) + (IF m = Joined(v) THEN 1 ELSE 0)}
      BY <1>6, SentOwed
    <3>2. CASE m = Joined(v)
      BY <1>1, <1>2, <1>6, <2>2, <3>1, <3>2 DEF Owed
    <3>3. CASE m # Joined(v)
      <4>1. Times(Joined(v), channel'[u]) = Times(Joined(v), channel[u])
        BY <1>2, <3>1, <3>3
      <4>2. Entering(v)' => Entering(v)
        BY <2>1 DEF Entering
      <4>. QED  BY <1>1, <1>2, <4>1, <4>2 DEF Owed
    <3>. QED  BY <3>2, <3>3
  <2>4. \A i \in 1..Len(channel'[u]) :
          \/ \E j \in 1..Len(channel[u]) : channel'[u][i] = channel[u][j]
          \/ channel'[u][i] = m
    BY <1>6, SentOwed
  <2>5. Asks(u)' => Asks(u)
    BY <1>1, <1>6, <2>1, <2>4 DEF Asks
  <2>. QED  BY <2>3, <2>5 DEF Falls
<1>7. CASE Announces(w)
  <2>. DEFINE m == [type |-> "participant_joined", who |-> w]
  <2>1. IsAt(w, "announce") /\ OnlyMoves(w, "none") /\ m \in RosterMessages
    BY <1>7, EndsIs DEF RosterMessages
  <2>2. PICK to : Sends(m, to)
    BY <1>7 DEF Announces, Broadcasts
  <2>3. m.type # "session_joined" /\ (m = Joined(v) => v = w /\ Entering(w))
    BY <2>1 DEF Joined, Entering
  <2>. HIDE DEF m
  <2>. QED  BY <1>6, <2>1, <2>2, <2>3
<1>8. CASE AnnouncesLeft(w)
  <2>. DEFINE m == [type |-> "participant_left", who |-> w]
  <2>1. OnlyMoves(w, "none") /\ m \in RosterMessages
    BY <1>8, EndsIs DEF RosterMessages
  <2>2. PICK to : Sends(m, to)
    BY <1>8 DEF AnnouncesLeft, Broadcasts
  <2>3. m.type # "session_joined" /\ m # Joined(v)
    BY DEF Joined
  <2>. HIDE DEF m
  <2>. QED  BY <1>6, <2>1, <2>2, <2>3
<1>9. CASE AnnouncesEnd(w)
  <2>. DEFINE m == [type |-> "session_destroyed"]
  <2>1. OnlyMoves(w, "remove") /\ m \in RosterMessages
    BY <1>9, EndsIs DEF RosterMessages
  <2>2. PICK to : Sends(m, to)
    BY <1>9 DEF AnnouncesEnd, Broadcasts
  <2>3. m.type # "session_joined" /\ m # Joined(v)
    BY DEF Joined
  <2>. HIDE DEF m
  <2>. QED  BY <1>6, <2>1, <2>2, <2>3
<1>. QED  BY <1>3, <1>4, <1>5, <1>7, <1>8, <1>9

\* A page that opens or closes lists nobody.
LEMMA EmptiedLess ==
    ASSUME RostersTyped, NEW w \in Watchers, people' = [people EXCEPT ![w] = Once({})],
           NEW u \in Watchers, NEW v \in Watchers
    PROVE  /\ people[u][v] \in Nat /\ people'[u][v] \in Nat
           /\ people'[u][v] <= people[u][v]
<1>1. people[u][v] \in Nat
  BY DEF RostersTyped, Lists
<1>2. people'[u] = IF u = w THEN Once({}) ELSE people[u]
  BY DEF RostersTyped
<1>3. people'[u][v] = 0 \/ people'[u][v] = people[u][v]
  BY <1>2, OnceIs
<1>. QED  BY <1>1, <1>3

\* A step of the relay leaves the tally as it is, or lower.
LEMMA HandledTallies ==
    ASSUME RostersTyped, NEW w \in Watchers,
           \/ TakesJoin(w) \/ TakesLeave(w) \/ Inserts(w) \/ TellsRoster(w) \/ Announces(w)
           \/ AnnouncesLeft(w) \/ AnnouncesEnd(w) \/ RemovesSession(w),
           RostersTyped', visits \in Nat,
           NEW u \in Watchers, NEW v \in Watchers, Tallied(u, v)
    PROVE  Tallied(u, v)'
<1>1. Falls(u, v)
  BY TakenFalls, HandledFalls
<1>2. UNCHANGED <<people, visits>>
  BY DEF TakesJoin, TakesLeave, Inserts, TellsRoster, Announces, AnnouncesLeft,
         AnnouncesEnd, RemovesSession
<1>3. people[u][v] \in Nat
  BY DEF RostersTyped, Lists
<1>4. Owed(u, v) \in Nat /\ Owed(u, v)' \in Nat
  BY OwedNat, OwedNatNext
<1>. QED  BY <1>1, <1>2, <1>3, <1>4 DEF Falls, Tallied

LEMMA ClosesTallies ==
    ASSUME RostersTyped, NEW w \in Watchers, ClosesPage(w), visits \in Nat,
           NEW u \in Watchers, NEW v \in Watchers, Tallied(u, v)
    PROVE  Tallied(u, v)'
<1>1. /\ requests' = [requests EXCEPT ![w] = Append(@, "leave")]
      /\ people' = [people EXCEPT ![w] = Once({})]
      /\ UNCHANGED <<handler, channel, visits>>
  BY DEF ClosesPage, relayVars
<1>2. \A x \in Watchers : requests[x] \in Seq({"join", "leave"})
  BY DEF RostersTyped
<1>3. ASSUME NEW x \in Watchers
      PROVE  /\ Times("join", requests'[x]) = Times("join", requests[x])
             /\ \A i \in 1..Len(requests'[x]) :
                  requests'[x][i] = "join" => \E j \in 1..Len(requests[x]) : requests[x][j] = "join"
  <2>1. CASE x = w
    <3>1. requests'[x] = Append(requests[x], "leave")
      BY <1>1, <2>1 DEF RostersTyped
    <3>2. Times("join", requests'[x]) = Times("join", requests[x])
      <4>1. requests[x] \in Seq({"join", "leave"}) /\ Times("join", requests[x]) \in Nat
        BY <1>2, OwedIs
      <4>. QED  BY <3>1, <4>1, TimesMore
    <3>. QED  BY <1>2, <3>1, <3>2
  <2>2. CASE x # w
    <3>1. requests'[x] = requests[x]
      BY <1>1, <2>2 DEF RostersTyped
    <3>. QED  BY <3>1
  <2>. QED  BY <2>1, <2>2
<1>4. Owed(u, v)' = Owed(u, v)
  BY <1>1, <1>3 DEF Owed, Entering, IsAt
<1>5. Asks(u)' => Asks(u)
  BY <1>1, <1>3 DEF Asks, IsAt
<1>6. people'[u][v] \in Nat /\ people'[u][v] <= people[u][v] /\ people[u][v] \in Nat
  BY <1>1, EmptiedLess
<1>7. Owed(u, v) \in Nat
  BY OwedIs
<1>. QED  BY <1>1, <1>4, <1>5, <1>6, <1>7 DEF Tallied

\* A page more, and one join more.
LEMMA OpensTallies ==
    ASSUME RostersTyped, NEW w \in Watchers, OpensPage(w), visits \in Nat,
           NEW u \in Watchers, NEW v \in Watchers \ {u}, Tallied(u, v)
    PROVE  Tallied(u, v)'
<1>1. /\ requests' = IF w = Owner THEN requests
                     ELSE [requests EXCEPT ![w] = Append(@, "join")]
      /\ people' = [people EXCEPT ![w] = Once({})]
      /\ visits' = visits + 1
      /\ UNCHANGED <<handler, channel>>
  BY DEF OpensPage, relayVars
<1>2. \A x \in Watchers : requests[x] \in Seq({"join", "leave"})
  BY DEF RostersTyped
<1>3. ASSUME NEW x \in Watchers
      PROVE  /\ Times("join", requests'[x]) <= Times("join", requests[x]) + 1
             /\ x # w => requests'[x] = requests[x]
             /\ Times("join", requests[x]) \in Nat /\ Times("join", requests'[x]) \in Nat
  <2>1. CASE x = w /\ w # Owner
    <3>1. requests'[x] = Append(requests[x], "join")
      BY <1>1, <2>1 DEF RostersTyped
    <3>2. Times("join", requests'[x]) = Times("join", requests[x]) + 1
      BY <1>2, <3>1, TimesMore
    <3>. QED  BY <2>1, <3>2, OwedIs
  <2>2. CASE x # w \/ w = Owner
    <3>1. requests'[x] = requests[x]
      BY <1>1, <2>2 DEF RostersTyped
    <3>. QED  BY <3>1, OwedIs
  <2>. QED  BY <2>1, <2>2
<1>4. /\ v # w => Owed(u, v)' = Owed(u, v)
      /\ Owed(u, v)' <= Owed(u, v) + 1 /\ Owed(u, v) \in Nat /\ Owed(u, v)' \in Nat
  <2>1. Times(Joined(v), channel[u]) \in Nat
    BY OwedIs
  <2>2. Entering(v)' <=> Entering(v)
    BY <1>1 DEF Entering, IsAt
  <2>3. Times(Joined(v), channel'[u]) = Times(Joined(v), channel[u])
    BY <1>1
  <2>4. PICK n \in {0, 1} :
          /\ Owed(u, v) = Times(Joined(v), channel[u]) + Times("join", requests[v]) + n
          /\ Owed(u, v)' = Times(Joined(v), channel[u]) + Times("join", requests'[v]) + n
    BY <2>2, <2>3 DEF Owed, Joined
  <2>5. v # w => Times("join", requests'[v]) = Times("join", requests[v])
    BY <1>3
  <2>. QED  BY <1>3, <2>1, <2>4, <2>5
<1>5. u # w /\ Asks(u)' => Asks(u)
  BY <1>1, <1>3 DEF Asks, IsAt
<1>6. people'[u][v] \in Nat /\ people'[u][v] <= people[u][v] /\ people[u][v] \in Nat
  BY <1>1, EmptiedLess
<1>7. people'[u][v] + Owed(u, v)' <= visits'
  BY <1>1, <1>4, <1>6 DEF Tallied
<1>8. Asks(u)' => 1 + Owed(u, v)' <= visits'
  <2>1. CASE u = w
    BY <1>1, <1>4, <1>6, <2>1 DEF Tallied
  <2>2. CASE u # w
    BY <1>1, <1>4, <1>5, <2>2 DEF Tallied
  <2>. QED  BY <2>1, <2>2
<1>. QED  BY <1>7, <1>8 DEF Tallied

LEMMA ReceivesTallies ==
    ASSUME RostersTyped, NEW w \in Watchers, Receives(w), visits \in Nat,
           NEW u \in Watchers, NEW v \in Watchers, Tallied(u, v)
    PROVE  Tallied(u, v)'
<1>1. /\ channel[w] # <<>>
      /\ channel' = [channel EXCEPT ![w] = Tail(@)]
      /\ people' = [people EXCEPT ![w] =
           IF watching[w] THEN Shown(@, Head(channel[w])) ELSE @]
      /\ UNCHANGED <<handler, requests, visits>>
  BY DEF Receives, relayVars
<1>2. channel[u] \in Seq(RosterMessages) /\ people[u] \in Lists /\ people[u][v] \in Nat
  BY DEF RostersTyped, Lists
<1>3. Owed(u, v) \in Nat /\ Times(Joined(v), channel[u]) \in Nat
      /\ Times("join", requests[v]) \in Nat
  BY OwedIs
<1>4. CASE u # w
  <2>1. channel'[u] = channel[u] /\ people'[u] = people[u]
    BY <1>1, <1>4 DEF RostersTyped
  <2>. QED  BY <1>1, <2>1 DEF Tallied, Owed, Asks, Entering, IsAt
<1>5. CASE u = w
  <2>. DEFINE m == Head(channel[u])
  <2>1. /\ m \in RosterMessages /\ m = channel[u][1] /\ 1 \in 1..Len(channel[u])
        /\ channel'[u] = Tail(channel[u]) /\ Tail(channel[u]) \in Seq(RosterMessages)
        /\ \A i \in 1..Len(Tail(channel[u])) :
             i + 1 \in 1..Len(channel[u]) /\ Tail(channel[u])[i] = channel[u][i + 1]
    BY <1>1, <1>2, <1>5 DEF RostersTyped
  <2>2. /\ Times(Joined(v), channel[u])
             = Times(Joined(v), channel'[u]) + (IF m = Joined(v) THEN 1 ELSE 0)
        /\ Times(Joined(v), channel'[u]) \in Nat
    <3>1. channel[u] # <<>>
      BY <1>1, <1>5
    <3>. QED  BY <1>2, <2>1, <3>1, TimesLess, TimesIs
  <2>3. people'[u] = IF watching[u] THEN Shown(people[u], m) ELSE people[u]
    BY <1>1, <1>5 DEF RostersTyped
  <2>. HIDE DEF m
  <2>4. /\ Owed(u, v)' \in Nat
        /\ Owed(u, v) = Owed(u, v)' + (IF m = Joined(v) THEN 1 ELSE 0)
    BY <1>1, <1>3, <2>2 DEF Owed, Entering, IsAt
  <2>5. Asks(u)' => Asks(u)
    BY <1>1, <2>1 DEF Asks, IsAt
  <2>6. m.type = "session_joined" => Asks(u)
    BY <2>1 DEF Asks
  <2>7. people'[u][v] + Owed(u, v)' <= visits
    <3>1. CASE ~watching[u]
      BY <1>2, <2>3, <2>4, <3>1 DEF Tallied
    <3>2. CASE watching[u] /\ m.type = "session_joined"
      <4>1. people'[u] = Once(m.all)
        BY <1>2, <2>1, <2>3, <3>2, ShownIs
      <4>2. people'[u][v] \in {0, 1}
        BY <4>1, OnceIs
      <4>. QED  BY <2>4, <2>6, <3>2, <4>2 DEF Tallied
    <3>3. CASE watching[u] /\ m.type = "participant_joined"
      <4>1. people'[u] = [people[u] EXCEPT ![m.who] = @ + 1]
        BY <1>2, <2>1, <2>3, <3>3, ShownIs
      <4>2. m.who = v => m = Joined(v)
        BY <2>1, <3>3 DEF RosterMessages, Joined
      <4>3. people'[u][v] = people[u][v] + (IF m.who = v THEN 1 ELSE 0)
        BY <1>2, <4>1 DEF Lists
      <4>. QED  BY <1>2, <2>4, <4>2, <4>3 DEF Tallied
    <3>4. CASE watching[u] /\ m.type = "participant_left"
      <4>1. people'[u] = [people[u] EXCEPT ![m.who] = 0]
        BY <1>2, <2>1, <2>3, <3>4, ShownIs
      <4>2. people'[u][v] \in {0, people[u][v]}
        BY <1>2, <4>1 DEF Lists
      <4>. QED  BY <1>2, <2>4, <4>2 DEF Tallied
    <3>5. CASE watching[u] /\ m.type = "session_destroyed"
      <4>1. people'[u][v] = 0
        BY <2>3, <3>5, OnceIs DEF Shown
      <4>. QED  BY <1>2, <2>4, <4>1 DEF Tallied
    <3>. QED  BY <2>1, <3>1, <3>2, <3>3, <3>4, <3>5, MessageIs
  <2>8. Asks(u)' => 1 + Owed(u, v)' <= visits
    BY <2>4, <2>5 DEF Tallied
  <2>. QED  BY <1>1, <2>7, <2>8 DEF Tallied
<1>. QED  BY <1>4, <1>5

\* Nobody is told of itself.
LEMMA NotItselfKept ==
    ASSUME RostersTyped, [RostersNext]_rosterVars, \A u \in Watchers : NotItself(u),
           NEW u \in Watchers
    PROVE  NotItself(u)'
<1>0. NotItself(u) /\ channel[u] \in Seq(RosterMessages) /\ people[u] \in Lists
  BY DEF RostersTyped
<1>1. CASE UNCHANGED rosterVars
  BY <1>0, <1>1 DEF rosterVars, relayVars, NotItself, IsAt
<1>2. ASSUME NEW w \in Watchers, TakesJoin(w) PROVE NotItself(u)'
  <2>1. UNCHANGED <<channel, people>>
    BY <1>2 DEF TakesJoin
  <2>2. (IsAt(u, "insert") \/ IsAt(u, "tell"))' => u \notin handler'[u].seen
    BY <1>0, <1>2, TakesJoinIs DEF OnlyMoves, HandlerStages, NotItself
  <2>. QED  BY <1>0, <2>1, <2>2 DEF NotItself
<1>3. ASSUME NEW w \in Watchers, TakesLeave(w) \/ Inserts(w) \/ RemovesSession(w)
      PROVE  NotItself(u)'
  <2>1. UNCHANGED <<channel, people>>
    BY <1>3 DEF TakesLeave, Inserts, RemovesSession
  <2>2. (IsAt(u, "insert") \/ IsAt(u, "tell"))' => u \notin handler'[u].seen
    <3>1. CASE Inserts(w)
      BY <1>0, <3>1, InsertsIs DEF OnlyMoves, HandlerStages, NotItself
    <3>2. CASE TakesLeave(w)
      BY <1>0, <3>2, TakesLeaveIs DEF OnlyMoves, HandlerStages, NotItself
    <3>3. CASE RemovesSession(w)
      BY <1>0, <3>3, EndsIs DEF OnlyMoves, HandlerStages, NotItself
    <3>. QED  BY <1>3, <3>1, <3>2, <3>3
  <2>. QED  BY <1>0, <2>1, <2>2 DEF NotItself
<1>4. ASSUME NEW w \in Watchers, NEW m \in RosterMessages, NEW to, Sends(m, to),
             NEW at \in {"none", "remove", "announce"}, OnlyMoves(w, at), UNCHANGED people,
             m.type = "participant_joined" /\ u \in to => m.who # u,
             m.type = "session_joined" /\ u \in to => u \notin m.all
      PROVE  NotItself(u)'
  <2>1. \A i \in 1..Len(channel'[u]) :
          \/ \E j \in 1..Len(channel[u]) : channel'[u][i] = channel[u][j]
          \/ u \in to /\ channel'[u][i] = m
    <3>. u \in Watchers /\ Sends(m, to) /\ m \in RosterMessages
      BY <1>4
    <3>. QED  BY SentOwed
  <2>2. (IsAt(u, "insert") \/ IsAt(u, "tell"))' => u \notin handler'[u].seen
    <3>1. (IsAt(u, "insert") \/ IsAt(u, "tell"))' =>
            handler'[u] = handler[u] /\ (IsAt(u, "insert") \/ IsAt(u, "tell"))
      <4>1. CASE u = w
        BY <1>4, <4>1 DEF OnlyMoves, HandlerStages
      <4>2. CASE u # w
        BY <1>4, <4>2 DEF OnlyMoves, HandlerStages
      <4>. QED  BY <4>1, <4>2
    <3>. QED  BY <1>0, <3>1 DEF NotItself
  <2>. QED  BY <1>0, <1>4, <2>1, <2>2 DEF NotItself
<1>5. ASSUME NEW w \in Watchers, TellsRoster(w) PROVE NotItself(u)'
  <2>. DEFINE m == [type |-> "session_joined", all |-> handler[w].seen]
  <2>1. /\ IsAt(w, "tell") /\ OnlyMoves(w, "announce") /\ Sends(m, {w}) /\ m \in RosterMessages
        /\ UNCHANGED people
    BY <1>5, TellsRosterIs DEF TellsRoster, RosterMessages
  <2>2. m.type = "session_joined" /\ (u \in {w} => u \notin m.all)
    BY <2>1 DEF NotItself
  <2>. HIDE DEF m
  <2>. QED  BY <1>4, <2>1, <2>2
<1>6. ASSUME NEW w \in Watchers, Announces(w) PROVE NotItself(u)'
  <2>. DEFINE m == [type |-> "participant_joined", who |-> w]
              to == IF exists THEN inside \ {w} ELSE {}
  <2>1. /\ OnlyMoves(w, "none") /\ Sends(m, to) /\ m \in RosterMessages /\ UNCHANGED people
    BY <1>6, EndsIs DEF Announces, Broadcasts, RosterMessages
  <2>2. m.type = "participant_joined" /\ (u \in to => m.who # u)
    OBVIOUS
  <2>. HIDE DEF m, to
  <2>. QED  BY <1>4, <2>1, <2>2
<1>7. ASSUME NEW w \in Watchers, AnnouncesLeft(w) \/ AnnouncesEnd(w) PROVE NotItself(u)'
  <2>1. CASE AnnouncesLeft(w)
    <3>. DEFINE m == [type |-> "participant_left", who |-> w]
    <3>1. OnlyMoves(w, "none") /\ m \in RosterMessages /\ UNCHANGED people
      BY <2>1, EndsIs DEF AnnouncesLeft, RosterMessages
    <3>2. PICK to : Sends(m, to)
      BY <2>1 DEF AnnouncesLeft, Broadcasts
    <3>3. m.type = "participant_left"
      OBVIOUS
    <3>. HIDE DEF m
    <3>. QED  BY <1>4, <3>1, <3>2, <3>3
  <2>2. CASE AnnouncesEnd(w)
    <3>. DEFINE m == [type |-> "session_destroyed"]
    <3>1. OnlyMoves(w, "remove") /\ m \in RosterMessages /\ UNCHANGED people
      BY <2>2, EndsIs DEF AnnouncesEnd, RosterMessages
    <3>2. PICK to : Sends(m, to)
      BY <2>2 DEF AnnouncesEnd, Broadcasts
    <3>3. m.type = "session_destroyed"
      OBVIOUS
    <3>. HIDE DEF m
    <3>. QED  BY <1>4, <3>1, <3>2, <3>3
  <2>. QED  BY <1>7, <2>1, <2>2
<1>8. ASSUME NEW w \in Watchers, OpensPage(w) \/ ClosesPage(w) PROVE NotItself(u)'
  <2>1. people' = [people EXCEPT ![w] = Once({})] /\ UNCHANGED <<handler, channel>>
    BY <1>8 DEF OpensPage, ClosesPage, relayVars
  <2>2. people'[u][u] = 0
    BY <1>0, <2>1, OnceIs DEF RostersTyped, NotItself
  <2>. QED  BY <1>0, <2>1, <2>2 DEF NotItself, IsAt
<1>9. ASSUME NEW w \in Watchers, Receives(w) PROVE NotItself(u)'
  <2>1. /\ channel[w] # <<>>
        /\ channel' = [channel EXCEPT ![w] = Tail(@)]
        /\ people' = [people EXCEPT ![w] =
             IF watching[w] THEN Shown(@, Head(channel[w])) ELSE @]
        /\ UNCHANGED handler
    BY <1>9 DEF Receives, relayVars
  <2>2. CASE u # w
    <3>1. channel'[u] = channel[u] /\ people'[u] = people[u]
      BY <2>1, <2>2 DEF RostersTyped
    <3>. QED  BY <1>0, <2>1, <3>1 DEF NotItself, IsAt
  <2>3. CASE u = w
    <3>. DEFINE m == Head(channel[u])
    <3>1. /\ m \in RosterMessages /\ m = channel[u][1] /\ 1 \in 1..Len(channel[u])
          /\ channel'[u] = Tail(channel[u])
          /\ \A i \in 1..Len(Tail(channel[u])) :
               i + 1 \in 1..Len(channel[u]) /\ Tail(channel[u])[i] = channel[u][i + 1]
      BY <1>0, <2>1, <2>3 DEF RostersTyped
    <3>2. people'[u] = IF watching[u] THEN Shown(people[u], m) ELSE people[u]
      BY <2>1, <2>3 DEF RostersTyped
    <3>. HIDE DEF m
    <3>3. \A i \in 1..Len(channel'[u]) :
            /\ channel'[u][i].type = "participant_joined" => channel'[u][i].who # u
            /\ channel'[u][i].type = "session_joined" => u \notin channel'[u][i].all
      BY <1>0, <3>1 DEF NotItself
    <3>4. /\ m.type = "participant_joined" => m.who # u
          /\ m.type = "session_joined" => u \notin m.all
      BY <1>0, <3>1 DEF NotItself
    <3>5. people'[u][u] = 0
      <4>1. people[u][u] = 0
        BY <1>0 DEF NotItself
      <4>2. CASE m.type = "session_joined"
        BY <1>0, <3>1, <3>2, <3>4, <4>1, <4>2, ShownIs, OnceIs
      <4>3. CASE m.type = "participant_joined" \/ m.type = "participant_left"
        <5>1. people[u] \in Lists
          BY <1>0 DEF RostersTyped
        <5>2. \/ m.who # u /\ Shown(people[u], m) = [people[u] EXCEPT ![m.who] = @ + 1]
              \/ Shown(people[u], m) = [people[u] EXCEPT ![m.who] = 0]
          BY <3>1, <3>4, <4>3, <5>1, ShownIs
        <5>3. Shown(people[u], m)[u] = 0
          BY <4>1, <5>1, <5>2 DEF Lists
        <5>. QED  BY <3>2, <4>1, <5>3
      <4>4. CASE m.type = "session_destroyed"
        BY <3>2, <4>1, <4>4, OnceIs DEF Shown
      <4>. QED  BY <3>1, <4>2, <4>3, <4>4, MessageIs
    <3>. QED  BY <1>0, <2>1, <3>3, <3>5 DEF NotItself, IsAt
  <2>. QED  BY <2>2, <2>3
<1>. QED
  BY <1>1, <1>2, <1>3, <1>5, <1>6, <1>7, <1>8, <1>9, Zenon DEF RostersNext

\* What is left of the types.
LEMMA RostersFlagsKept ==
    RostersTyped /\ RostersFlags /\ [RostersNext]_rosterVars => RostersFlags'
<1>. SUFFICES ASSUME RostersTyped, RostersFlags, [RostersNext]_rosterVars PROVE RostersFlags'
  OBVIOUS
<1>1. exists' \in BOOLEAN
  BY DEF RostersFlags, RostersNext, rosterVars, relayVars, TakesJoin, TakesLeave, Inserts,
         TellsRoster, Announces, AnnouncesLeft, AnnouncesEnd, RemovesSession, OpensPage,
         ClosesPage, Receives
<1>2. visits' \in 0..MaxVisits
  <2>1. visits' = visits \/ (visits < MaxVisits /\ visits' = visits + 1)
    BY DEF RostersNext, rosterVars, relayVars, TakesJoin, TakesLeave, Inserts,
         TellsRoster, Announces, AnnouncesLeft, AnnouncesEnd, RemovesSession, OpensPage,
         ClosesPage, Receives
  <2>. QED  BY <2>1, VisitsAssumption DEF RostersFlags
<1>3. crossed' \in [Watchers -> BOOLEAN]
  <2>1. UNCHANGED crossed \/ \E u \in Watchers : \E joins \in BOOLEAN : Crosses(u, joins)
    BY DEF RostersNext, rosterVars, relayVars, TakesJoin, TakesLeave, Inserts,
           TellsRoster, Announces, AnnouncesLeft, AnnouncesEnd, RemovesSession, OpensPage,
           ClosesPage, Receives
  <2>2. ASSUME NEW u \in Watchers, NEW joins \in BOOLEAN, Crosses(u, joins)
        PROVE  crossed' \in [Watchers -> BOOLEAN]
    <3>. DEFINE C(v) == IF v = u
            THEN joins /\ \E x \in Watchers :
                            IsAt(x, "insert") \/ IsAt(x, "tell") \/ IsAt(x, "announce")
            ELSE crossed[v] \/ IsAt(v, "insert") \/ IsAt(v, "tell")
    <3>1. \A v \in Watchers : C(v) \in BOOLEAN
      OBVIOUS
    <3>2. crossed' = [v \in Watchers |-> C(v)]
      BY <2>2 DEF Crosses
    <3>. HIDE DEF C
    <3>. QED  BY <3>1, <3>2
  <2>. QED  BY <2>1, <2>2 DEF RostersFlags
<1>4. ASSUME NEW u \in Watchers PROVE Len(channel'[u]) <= Capacity
  <2>1. channel[u] \in Seq(RosterMessages) /\ Len(channel[u]) <= Capacity
    BY DEF RostersTyped, RostersFlags
  <2>2. ASSUME NEW m \in RosterMessages, NEW to, Sends(m, to)
        PROVE  Len(channel'[u]) <= Capacity
    <3>1. CASE channel'[u] = channel[u]
      BY <2>1, <3>1
    <3>2. CASE channel'[u] = Append(channel[u], m) /\ Len(channel[u]) < Capacity
      BY <2>1, <3>2, RostersAssumption
    <3>. QED  BY <2>2, <3>1, <3>2, SentIs
  <2>3. ASSUME NEW w \in Watchers, TellsRoster(w) PROVE Len(channel'[u]) <= Capacity
    <3>1. /\ Sends([type |-> "session_joined", all |-> handler[w].seen], {w})
          /\ handler[w].seen \subseteq Watchers
      BY <2>3, TellsRosterIs DEF TellsRoster
    <3>2. [type |-> "session_joined", all |-> handler[w].seen] \in RosterMessages
      BY <3>1 DEF RosterMessages
    <3>. QED  BY <2>2, <3>1, <3>2
  <2>4. ASSUME NEW w \in Watchers, Announces(w) \/ AnnouncesLeft(w) \/ AnnouncesEnd(w)
        PROVE  Len(channel'[u]) <= Capacity
    <3>1. \E m \in RosterMessages : \E to : Sends(m, to)
      <4>1. /\ [type |-> "participant_joined", who |-> w] \in RosterMessages
            /\ [type |-> "participant_left", who |-> w] \in RosterMessages
            /\ [type |-> "session_destroyed"] \in RosterMessages
        BY DEF RosterMessages
      <4>. QED  BY <2>4, <4>1 DEF Announces, AnnouncesLeft, AnnouncesEnd, Broadcasts
    <3>. QED  BY <2>2, <3>1
  <2>5. ASSUME NEW w \in Watchers, Receives(w) PROVE Len(channel'[u]) <= Capacity
    <3>1. channel[w] # <<>> /\ channel' = [channel EXCEPT ![w] = Tail(@)]
      BY <2>5 DEF Receives
    <3>2. \/ channel'[u] = channel[u]
          \/ channel[u] # <<>> /\ channel'[u] = Tail(channel[u])
      BY <3>1 DEF RostersTyped
    <3>3. channel[u] # <<>> => Len(Tail(channel[u])) = Len(channel[u]) - 1
      BY <2>1
    <3>4. Len(channel[u]) \in Nat
      BY <2>1
    <3>5. CASE channel'[u] = channel[u]
      BY <2>1, <3>5
    <3>6. CASE channel[u] # <<>> /\ channel'[u] = Tail(channel[u])
      <4>1. Len(channel'[u]) = Len(channel[u]) - 1
        BY <3>3, <3>6
      <4>2. Capacity \in Nat /\ Len(channel[u]) <= Capacity
        BY <2>1, RostersAssumption
      <4>. QED  BY <3>4, <4>1, <4>2
    <3>. QED  BY <3>2, <3>5, <3>6
  <2>6. ASSUME NEW w \in Watchers,
               \/ TakesJoin(w) \/ TakesLeave(w) \/ Inserts(w) \/ RemovesSession(w)
               \/ OpensPage(w) \/ ClosesPage(w)
        PROVE  Len(channel'[u]) <= Capacity
    BY <2>1, <2>6 DEF TakesJoin, TakesLeave, Inserts, RemovesSession, OpensPage, ClosesPage
  <2>7. CASE UNCHANGED rosterVars
    BY <2>1, <2>7 DEF rosterVars
  <2>. QED  BY <2>3, <2>4, <2>5, <2>6, <2>7 DEF RostersNext
<1>. QED  BY <1>1, <1>2, <1>3, <1>4 DEF RostersFlags

LEMMA RostersTalliesKept ==
    RostersInv /\ RostersFlags /\ RostersTallies /\ [RostersNext]_rosterVars
      => RostersTallies'
<1>. SUFFICES ASSUME RostersInv, RostersFlags, RostersTallies, [RostersNext]_rosterVars,
                     NEW u \in Watchers
              PROVE  NotItself(u)' /\ \A v \in Watchers \ {u} : Tallied(u, v)'
  BY DEF RostersTallies
<1>1. RostersTyped /\ RostersTyped' /\ visits \in Nat
  BY RostersKept, VisitsAssumption DEF RostersInv, RostersFlags
<1>2. NotItself(u)'
  BY <1>1, NotItselfKept DEF RostersTallies
<1>3. ASSUME NEW v \in Watchers \ {u} PROVE Tallied(u, v)'
  <2>1. Tallied(u, v)
    BY DEF RostersTallies
  <2>2. CASE UNCHANGED rosterVars
    BY <2>1, <2>2 DEF rosterVars, relayVars, Tallied, Owed, Asks, Entering, IsAt
  <2>3. ASSUME NEW w \in Watchers,
               \/ TakesJoin(w) \/ TakesLeave(w) \/ Inserts(w) \/ TellsRoster(w)
               \/ Announces(w) \/ AnnouncesLeft(w) \/ AnnouncesEnd(w) \/ RemovesSession(w)
        PROVE  Tallied(u, v)'
    BY <1>1, <2>1, <2>3, HandledTallies
  <2>4. ASSUME NEW w \in Watchers, OpensPage(w) \/ ClosesPage(w) \/ Receives(w)
        PROVE  Tallied(u, v)'
    BY <1>1, <2>1, <2>4, OpensTallies, ClosesTallies, ReceivesTallies
  <2>. QED  BY <2>2, <2>3, <2>4, Zenon DEF RostersNext
<1>. QED  BY <1>2, <1>3

LEMMA RostersTalliesInit == RostersInit => RostersFlags /\ RostersTallies
<1>. SUFFICES ASSUME RostersInit PROVE RostersFlags /\ RostersTallies
  OBVIOUS
<1>1. RostersFlags
  BY RostersAssumption, VisitsAssumption DEF RostersInit, RostersFlags
<1>2. ASSUME NEW u \in Watchers
      PROVE  /\ channel[u] = <<>> /\ requests[u] = <<>> /\ \A x : ~IsAt(u, x)
             /\ \A v \in Watchers : people[u][v] = 0
  BY OnceIs DEF RostersInit, IsAt
<1>3. ASSUME NEW u \in Watchers PROVE NotItself(u)
  BY <1>2 DEF NotItself
<1>4. ASSUME NEW u \in Watchers, NEW v \in Watchers PROVE Tallied(u, v)
  <2>1. Owed(u, v) = 0
    BY <1>2, TimesOfNothing DEF Owed, Entering
  <2>2. ~Asks(u)
    BY <1>2 DEF Asks
  <2>3. visits = 0
    BY DEF RostersInit
  <2>. QED  BY <1>2, <2>1, <2>2, <2>3 DEF Tallied
<1>. QED  BY <1>1, <1>3, <1>4 DEF RostersTallies

LEMMA RostersTypesAre ==
    RostersInv /\ RostersFlags /\ RostersTallies => RostersTypeOK
<1>. SUFFICES ASSUME RostersInv, RostersFlags, RostersTallies PROVE RostersTypeOK
  OBVIOUS
<1>1. ASSUME NEW u \in Watchers, NEW v \in Watchers PROVE people[u][v] \in 0..MaxVisits
  <2>1. people[u][v] \in Nat /\ Owed(u, v) \in Nat
    BY OwedIs DEF RostersInv, RostersTyped, Lists
  <2>2. people[u][v] <= visits
    BY <2>1, VisitsAssumption DEF RostersTallies, NotItself, Tallied, RostersFlags
  <2>. QED  BY <2>1, <2>2, VisitsAssumption DEF RostersFlags
<1>2. people \in [Watchers -> [Watchers -> 0..MaxVisits]]
  BY <1>1 DEF RostersInv, RostersTyped, Lists
<1>3. {watching, missed, crossed} \subseteq [Watchers -> BOOLEAN]
  BY Zenon DEF RostersInv, RostersTyped, RostersFlags
<1>. QED  BY <1>2, <1>3 DEF RostersInv, RostersTyped, RostersFlags, RostersTypeOK

\* Whoever's page it is, it counts nobody more often than pages of the session
\* have been opened, and no channel holds more than its capacity
\* (session.rs, useWatchParticipants).
THEOREM RostersTypeCorrect == RostersSpec => []RostersTypeOK
<1>1. RostersInit => RostersInv /\ RostersFlags /\ RostersTallies
  BY RostersInitially, RostersTalliesInit
<1>2. RostersInv /\ RostersFlags /\ RostersTallies /\ [RostersNext]_rosterVars
        => (RostersInv /\ RostersFlags /\ RostersTallies)'
  BY RostersKept, RostersFlagsKept, RostersTalliesKept DEF RostersInv
<1>. QED  BY <1>1, <1>2, RostersTypesAre, PTL DEF RostersSpec

-----------------------------------------------------------------------------
(* The parts together.  A step of the whole is a step of one part, and the    *)
(* others stutter: what is proved of a part holds of the whole.               *)

LEMMA PartsBegin ==
    Init => /\ DetailInit /\ ResumeInit /\ PlayerInit /\ QueueInit /\ GeometryInit
            /\ RostersInit
BY DEF Init

LEMMA PartsStep ==
    [Next]_vars => /\ [DetailNext]_detailVars /\ [ResumeNext]_resumeVars
                   /\ [PlayerNext]_playerVars /\ [QueueNext]_queueVars
                   /\ [GeometryNext]_geometryVars /\ [RostersNext]_rosterVars
BY Zenon DEF Next, vars

\* The composition implements each of its parts.
THEOREM WebviewImplementsParts ==
    Spec => /\ DetailSpec /\ ResumeSpec /\ PlayerSpec /\ QueueSpec /\ GeometrySpec
            /\ RostersSpec
BY PartsBegin, PartsStep, PTL
   DEF Spec, DetailSpec, ResumeSpec, PlayerSpec, QueueSpec, GeometrySpec, RostersSpec

\* Whichever part moves has its types.
THEOREM WebviewTypeCorrect == Spec => []WebviewTypeOK
<1>1. DetailTypeOK /\ ResumeTypeOK /\ PlayerTypeOK /\ QueueTypeOK /\ GeometryTypeOK
        /\ RostersTypeOK
        => WebviewTypeOK
  BY DEF WebviewTypeOK
<1>. QED  BY <1>1, WebviewImplementsParts, DetailTypeCorrect, ResumeTypeCorrect,
             PlayerTypeCorrect, PlaybackTypeCorrect, GeometryTypeCorrect,
             RostersTypeCorrect, PTL

\* What the runs check of the whole holds of it for every value of the constants.
THEOREM WebviewCorrect ==
    Spec => [](/\ PageOfOneItem /\ NothingHangs /\ ShownIsReported /\ PlaysWhatIsOpen
               /\ InStep /\ NeverBlack /\ FollowsWindow /\ RostersAgree)
BY WebviewImplementsParts, OneItem, NeverHangs, ShownIsWhatWasReported,
   PlayerPlaysWhatIsOpen, QueueInStep, NoBlackFrame, VideoFollows, PagesAgree, PTL
=============================================================================
