----------------------------- MODULE DetailPage -------------------------------
(***************************************************************************)
(* The detail page of an item (src/hooks/useItemDetailData.ts over the     *)
(* cache of bundles): stale-while-revalidate of the item and its children, *)
(* and the shelves below, "related" and "collection", which are fetched by *)
(* effects of their own and covered by skeletons meanwhile.                *)
(*                                                                         *)
(* A bundle is the version of the item it was made from.  An effect and    *)
(* the renderings it causes are one step: requests cannot be answered in   *)
(* between.  What is aborted has no effect and is dropped.  The server     *)
(* does not change (AppLayout mounts the page anew when it does).          *)
(***************************************************************************)
EXTENDS Webview, Naturals

CONSTANTS Titles,        \* ratingKeys
          Shelved,       \* those of a type with shelves (SHELF_ELIGIBLE_TYPES)
          Collected,     \* the movies that belong to a collection
          OnlySeason,    \* shows with a single season, to that season
          MaxEdits       \* bound: changes of metadata, of one item

ASSUME TitlesAssumption ==
    /\ Collected \subseteq Shelved /\ Shelved \subseteq Titles
    /\ DOMAIN OnlySeason \subseteq Titles
    /\ \A t \in DOMAIN OnlySeason : OnlySeason[t] \in Titles \ DOMAIN OnlySeason
    /\ MaxEdits \in Nat
    /\ None \notin Titles /\ None \notin 0..MaxEdits
    /\ None \notin [key : Titles, version : 0..MaxEdits]
    /\ None \notin [version : 0..MaxEdits, stale : BOOLEAN]
    /\ None \notin [key : Titles, shown : 0..MaxEdits \cup {None}]

VARIABLES route,       \* the ratingKey of the page, or nothing
          item,        \* the item shown, [key, version]
          pageLoading, \* isLoading
          pageError,   \* error
          related,     \* whose shelves are shown
          collection,  \* whose collection is shown
          shelvesLoading, collectionLoading,
          bundleFetch, \* the request for the bundle, with the version shown
                       \* from the cache when it was made
          shelfFetch,  \* whose shelves are on their way
          collectionFetch,
          warming,     \* warmItemDetailCache: the prefetch under way (bound: one)
          bundles,     \* the cache, [version, stale] or nothing
          metadata,    \* the version of each item on the server
          refreshed    \* history: refreshItem was called on this page

detail == <<item, pageLoading, pageError, related, collection,
            shelvesLoading, collectionLoading>>
fetches == <<bundleFetch, shelfFetch, collectionFetch>>
detailVars == <<route, detail, fetches, warming, bundles, metadata, refreshed>>

-----------------------------------------------------------------------------
(* The effects *)

\* isCollectionEligible, and whether the effect finds something to ask for.
HasCollection(k) == k \in Collected

\* The shelf and collection effects run when the item or the route changed:
\* for the item that is shown now, for nothing while there is none.
ShelvesFor(k) ==
    /\ shelfFetch' = IF k \in Shelved THEN k ELSE None
    /\ collectionFetch' = IF HasCollection(k) THEN k ELSE None

\* Mutant: the shelves of the last item stay.
ClearShelvesMutant == UNCHANGED <<related, collection>>

\* A page for another item starts with empty shelves and skeletons.
ClearShelves ==
    related' = None /\ collection' = None

\* The primary effect for item k, whose bundle is cached: show it, set the
\* skeletons by its type, and revalidate it if it is stale or has to be.
ServeCached(k, force, different) ==
    /\ item' = [key |-> k, version |-> bundles[k].version]
    /\ pageError' = FALSE /\ pageLoading' = FALSE
    /\ shelvesLoading' = (k \in Shelved)
    /\ collectionLoading' = HasCollection(k)
    /\ bundleFetch' = IF bundles[k].stale \/ force
                      THEN [key |-> k, shown |-> bundles[k].version] ELSE None
    /\ IF different THEN ClearShelves ELSE UNCHANGED <<related, collection>>
    /\ IF different \/ item = None THEN ShelvesFor(k)
       ELSE UNCHANGED <<shelfFetch, collectionFetch>>

\* Nothing is cached: a cold load.
LoadCold(k, different) ==
    /\ item' = None
    /\ pageLoading' = TRUE /\ pageError' = FALSE
    /\ bundleFetch' = [key |-> k, shown |-> None]
    /\ shelfFetch' = None /\ collectionFetch' = None
    /\ IF different
       THEN ClearShelves /\ shelvesLoading' = TRUE /\ collectionLoading' = TRUE
       ELSE UNCHANGED <<related, collection, shelvesLoading, collectionLoading>>

\* A cached show with a single season sends the user on to the season.
Destination(k) ==
    IF k \in DOMAIN OnlySeason /\ bundles[k] # None THEN OnlySeason[k] ELSE k

Enter(k) ==
    /\ route' = k
    /\ refreshed' = FALSE
    /\ IF bundles[k] # None THEN ServeCached(k, FALSE, TRUE) ELSE LoadCold(k, TRUE)
    /\ UNCHANGED <<warming, bundles, metadata>>

\* The user opens the page of k, or goes there from another page.
OpenDetail(k) == route # k /\ Enter(Destination(k))

LeaveDetail ==
    /\ route # None
    /\ route' = None /\ refreshed' = FALSE
    /\ item' = None /\ pageLoading' = TRUE /\ pageError' = FALSE
    /\ ClearShelves /\ shelvesLoading' = TRUE /\ collectionLoading' = TRUE
    /\ bundleFetch' = None /\ shelfFetch' = None /\ collectionFetch' = None
    /\ UNCHANGED <<warming, bundles, metadata>>

\* refreshItem: a watched toggle, a new subtitle, a fixed match.
RefreshItem ==
    /\ route # None
    /\ IF Destination(route) # route
       THEN Enter(Destination(route))
       ELSE /\ refreshed' = TRUE
            /\ IF bundles[route] # None THEN ServeCached(route, TRUE, FALSE)
               ELSE LoadCold(route, FALSE)
            /\ UNCHANGED <<route, warming, bundles, metadata>>

-----------------------------------------------------------------------------
(* Answers *)

\* fetchDetailBundle returns: the bundle is cached; a cold page shows it, a
\* revalidated one what has changed in it.
BundleArrives ==
    /\ bundleFetch # None
    /\ LET k   == bundleFetch.key
           now == metadata[k]
       IN /\ bundles' = [bundles EXCEPT ![k] = [version |-> now, stale |-> FALSE]]
          /\ IF bundleFetch.shown # now /\ k \in DOMAIN OnlySeason
             THEN \* navigate(..., { replace: true })
                  /\ route' = OnlySeason[k]
                  /\ refreshed' = FALSE
                  /\ IF bundles[OnlySeason[k]] # None
                     THEN ServeCached(OnlySeason[k], FALSE, TRUE)
                     ELSE LoadCold(OnlySeason[k], TRUE)
             ELSE /\ bundleFetch' = None
                  /\ pageLoading' = FALSE
                  /\ item' = IF bundleFetch.shown = now THEN item
                             ELSE [key |-> k, version |-> now]
                  /\ IF bundleFetch.shown = None
                     THEN /\ shelvesLoading' = (k \in Shelved)
                          /\ collectionLoading' = HasCollection(k)
                          /\ ShelvesFor(k)
                     ELSE UNCHANGED <<shelvesLoading, collectionLoading,
                                      shelfFetch, collectionFetch>>
                  /\ UNCHANGED <<route, refreshed, pageError, related, collection>>
    /\ UNCHANGED <<warming, metadata>>

BundleFails ==
    /\ bundleFetch # None
    /\ bundleFetch' = None
    /\ pageLoading' = FALSE
    /\ pageError' = (bundleFetch.shown = None)
    /\ UNCHANGED <<route, item, related, collection, shelvesLoading,
                   collectionLoading, shelfFetch, collectionFetch, warming,
                   bundles, metadata, refreshed>>

\* Related titles, extras and the actors' titles, each of which may fail.
ShelvesArrive ==
    /\ shelfFetch # None
    /\ shelfFetch' = None
    /\ related' = shelfFetch
    /\ shelvesLoading' = FALSE
    /\ UNCHANGED <<route, item, pageLoading, pageError, collection,
                   collectionLoading, bundleFetch, collectionFetch, warming,
                   bundles, metadata, refreshed>>

\* Mutant: a collection that is found nowhere leaves its skeleton.
CollectionArrivesMutant(found) ==
    /\ collectionFetch # None
    /\ collectionFetch' = None
    /\ collection' = IF found THEN collectionFetch ELSE collection
    /\ collectionLoading' = (collectionLoading /\ ~found)
    /\ UNCHANGED <<route, item, pageLoading, pageError, related, shelvesLoading,
                   bundleFetch, shelfFetch, warming, bundles, metadata, refreshed>>

\* The collection is found in a section, or in none.
CollectionArrives(found) ==
    /\ collectionFetch # None
    /\ collectionFetch' = None
    /\ collection' = IF found THEN collectionFetch ELSE collection
    /\ collectionLoading' = FALSE
    /\ UNCHANGED <<route, item, pageLoading, pageError, related, shelvesLoading,
                   bundleFetch, shelfFetch, warming, bundles, metadata, refreshed>>

\* The list of sections changed: the collection's effect runs again.
SectionsChange ==
    /\ item # None /\ HasCollection(item.key)
    /\ collectionFetch' = item.key
    /\ UNCHANGED <<route, detail, bundleFetch, shelfFetch, warming, bundles,
                   metadata, refreshed>>

-----------------------------------------------------------------------------
(* Prefetching, and the world *)

Warm(k) ==
    /\ warming = {}
    /\ bundles[k] # None => bundles[k].stale
    /\ warming' = warming \cup {k}
    /\ UNCHANGED <<route, detail, fetches, bundles, metadata, refreshed>>

WarmArrives(k, ok) ==
    /\ k \in warming
    /\ warming' = warming \ {k}
    /\ bundles' = IF ok
                  THEN [bundles EXCEPT ![k] = [version |-> metadata[k], stale |-> FALSE]]
                  ELSE bundles
    /\ UNCHANGED <<route, detail, fetches, metadata, refreshed>>

\* The TTL of a bundle passes.
GrowStale(k) ==
    /\ bundles[k] # None
    /\ bundles' = [bundles EXCEPT ![k].stale = TRUE]
    /\ UNCHANGED <<route, detail, fetches, warming, metadata, refreshed>>

Edit(k) ==
    /\ metadata[k] < MaxEdits
    /\ \A t \in Titles \ {k} : metadata[t] = 0
    /\ metadata' = [metadata EXCEPT ![k] = @ + 1]
    /\ UNCHANGED <<route, detail, fetches, warming, bundles, refreshed>>

DetailInit ==
    /\ route = None /\ item = None
    /\ pageLoading = TRUE /\ pageError = FALSE
    /\ related = None /\ collection = None
    /\ shelvesLoading = TRUE /\ collectionLoading = TRUE
    /\ bundleFetch = None /\ shelfFetch = None /\ collectionFetch = None
    /\ warming = {}
    /\ bundles = [k \in Titles |-> None]
    /\ metadata = [k \in Titles |-> 0]
    /\ refreshed = FALSE

DetailNext ==
    \/ \E k \in Titles :
          \/ OpenDetail(k) \/ Warm(k) \/ GrowStale(k) \/ Edit(k)
          \/ \E ok \in BOOLEAN : WarmArrives(k, ok)
    \/ LeaveDetail \/ RefreshItem
    \/ BundleArrives \/ BundleFails \/ ShelvesArrive \/ SectionsChange
    \/ \E found \in BOOLEAN : CollectionArrives(found)

DetailSpec == DetailInit /\ [][DetailNext]_detailVars

-----------------------------------------------------------------------------
(* Properties *)

\* Every variable has its type (the state of useItemDetailData).
DetailTypeOK ==
    /\ route \in Titles \cup {None}
    /\ item \in [key : Titles, version : 0..MaxEdits] \cup {None}
    /\ {related, collection, shelfFetch, collectionFetch} \subseteq Titles \cup {None}
    /\ {pageLoading, pageError, shelvesLoading, collectionLoading, refreshed}
          \subseteq BOOLEAN
    /\ bundles \in [Titles -> [version : 0..MaxEdits, stale : BOOLEAN] \cup {None}]
    /\ warming \subseteq Titles

\* Everything on the page belongs to its address: the item, the shelves, the
\* collection and whatever is still on its way, however quickly the user goes
\* from one item to the next and is sent on to a season; and an item with
\* shelves has them, or they are on their way.
PageOfOneItem ==
    /\ item # None => item.key = route
    /\ {related, collection, shelfFetch, collectionFetch} \subseteq {route, None}
    /\ bundleFetch # None => bundleFetch.key = route
    /\ (item # None /\ item.key \in Shelved) => route \in {related, shelfFetch}

\* A page never waits for ever: one without an item is loading or reports an
\* error, and a skeleton on a page with one stands for a request that is
\* under way, as long as the user has not refreshed the item.
NothingHangs ==
    /\ (route # None /\ item = None) => pageError \/ bundleFetch # None
    /\ (item # None /\ ~refreshed)
          => /\ shelvesLoading => shelfFetch # None
             /\ collectionLoading => collectionFetch # None
=============================================================================
