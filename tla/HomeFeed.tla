------------------------------ MODULE HomeFeed ------------------------------
(***************************************************************************)
(* The home screen and its view model: a first load of three requests in a *)
(* DispatchGroup (and one outside it), pages of products as the user       *)
(* scrolls, and the products of a category, cached once they arrived.      *)
(* Requests overlap and are answered in any order; when the group is empty *)
(* a block that shows the table waits for its turn.  A skeleton covers the *)
(* table while something is awaited; a failure presents an alert offering  *)
(* to load again, unless something else, or the last alert on its way out, *)
(* is in front of the screen.                                              *)
(***************************************************************************)
EXTENDS Integers, FiniteSets

CONSTANTS
    Categories,   \* the categories a user may select
    Default,      \* Constants.defaultCategoryId, selected at first
    NoCategory,   \* nothing cached, nothing shown
    MaxPage,      \* bound: pages asked for
    MaxLoads,     \* bound: calls of fetchFirst
    MaxTaps       \* bound: selections of a category that ask the server

ASSUME FeedAssumption ==
    /\ Default \in Categories
    /\ NoCategory \notin Categories
    /\ MaxPage \in Nat \ {0} /\ MaxLoads \in Nat \ {0} /\ MaxTaps \in Nat

VARIABLES
    group,        \* the count of dataFetchGroup
    flying,       \* requests that have not been answered
    notices,      \* how often the group's block waits in the main queue; those of
                  \* loads that waited for the group together run in one turn
    page,
    feed,         \* productData: how often each page was appended
    popular,      \* is there anything in popularData?
    cache,        \* cachedProductData: whose products are kept for a category
    shown,        \* productCategorySelectedData: whose products they are
    selected,     \* selectedCategoryId
    skeleton,     \* does the skeleton cover the table?
    front,        \* what is in front: home, its alert, other, or closing (the alert
                  \* on its way out)
    missed,       \* was the last failure's alert kept away by something else?
    loads,        \* calls of fetchFirst since the process started
    taps          \* selections that asked the server

data == <<feed, popular, cache, shown>>
counts == <<loads, taps>>
vars == <<group, flying, notices, page, feed, popular, cache, shown, selected,
          skeleton, front, missed, loads, taps>>

Pages == 1 .. MaxPage

\* A request is known by what it asks and by the call that made it.
Requests ==
    [kind : {"user", "category", "popular"}, load : 1 .. MaxLoads]
      \cup [kind : {"first"}, page : Pages, load : 1 .. MaxLoads]
      \cup [kind : {"more"}, page : Pages]
      \cup [kind : {"products"}, of : Categories, tap : 1 .. MaxTaps]

\* Requests that hold the group, and leave it when they are answered.
Legs == {r \in flying : r.kind \in {"user", "category", "first"}}

TypeOK ==
    /\ group \in Nat
    /\ flying \subseteq Requests
    /\ notices \in Nat
    /\ page \in Pages
    /\ feed \in [Pages -> Nat]
    /\ popular \in BOOLEAN
    /\ cache \in [Categories -> Categories \cup {NoCategory}]
    /\ shown \in Categories \cup {NoCategory}
    /\ selected \in Categories
    /\ skeleton \in BOOLEAN
    /\ front \in {"home", "alert", "closing", "other"}
    /\ missed \in BOOLEAN
    /\ loads \in 1 .. MaxLoads
    /\ taps \in 0 .. MaxTaps

\* The requests of fetchFirst; popular products are asked for until they came.
FirstRequests(n, pg, pop) ==
    {[kind |-> "user", load |-> n], [kind |-> "category", load |-> n],
     [kind |-> "first", page |-> pg, load |-> n]}
      \cup (IF pop THEN {} ELSE {[kind |-> "popular", load |-> n]})

Init ==
    /\ group = 3 /\ flying = FirstRequests(1, 1, FALSE) /\ notices = 0
    /\ page = 1 /\ feed = [p \in Pages |-> 0] /\ popular = FALSE
    /\ cache = [c \in Categories |-> NoCategory]
    /\ shown = NoCategory /\ selected = Default
    /\ skeleton = TRUE /\ front = "home" /\ missed = FALSE
    /\ loads = 1 /\ taps = 0

\* The X of the alert ends the process; it is started again.
Quit ==
    /\ front = "alert"
    /\ group' = 3 /\ flying' = FirstRequests(1, 1, FALSE) /\ notices' = 0
    /\ page' = 1 /\ feed' = [p \in Pages |-> 0] /\ popular' = FALSE
    /\ cache' = [c \in Categories |-> NoCategory]
    /\ shown' = NoCategory /\ selected' = Default
    /\ skeleton' = TRUE /\ front' = "home" /\ missed' = FALSE
    /\ loads' = 1 /\ taps' = 0

-----------------------------------------------------------------------------
(* The user.                                                               *)

\* fetchFirst once more: the page that was reached last, whatever is missing.
\* The requests start before the alert is gone.
Refresh ==
    /\ front = "alert"
    /\ loads < MaxLoads
    /\ front' = "closing"
    /\ loads' = loads + 1
    /\ group' = group + 3
    /\ flying' = flying \cup FirstRequests(loads + 1, page, popular)
    /\ UNCHANGED <<notices, page, data, selected, skeleton, missed, taps>>

AlertGone ==
    /\ front = "closing"
    /\ front' = "home"
    /\ UNCHANGED <<group, flying, notices, page, data, selected, skeleton, missed, counts>>

\* The skeleton takes the touches of the table.
Usable == front = "home" /\ ~skeleton

LoadMore_SamePage ==
    /\ Usable
    /\ page < MaxPage
    /\ page' = page + 1
    /\ flying' = flying \cup {[kind |-> "more", page |-> page]}
    /\ UNCHANGED <<group, notices, data, selected, skeleton, front, missed, counts>>

\* loadMoreData: isLoading is false again before the request is even sent.
LoadMore ==
    /\ Usable
    /\ page < MaxPage
    /\ page' = page + 1
    /\ flying' = flying \cup {[kind |-> "more", page |-> page + 1]}
    /\ UNCHANGED <<group, notices, data, selected, skeleton, front, missed, counts>>

SelectCached(c) ==
    /\ cache[c] # NoCategory
    /\ shown' = cache[c]
    /\ UNCHANGED <<flying, skeleton, taps>>

SelectUnknown(c) ==
    /\ cache[c] = NoCategory
    /\ taps < MaxTaps
    /\ taps' = taps + 1
    /\ flying' = flying \cup {[kind |-> "products", of |-> c, tap |-> taps + 1]}
    /\ skeleton' = TRUE
    /\ UNCHANGED shown

\* categorySelected, fetchProductWithCategory
Select(c) ==
    /\ Usable
    /\ selected' = c
    /\ SelectCached(c) \/ SelectUnknown(c)
    /\ UNCHANGED <<group, notices, page, feed, popular, cache, front, missed, loads>>

\* Another tab, a product, the PIN of a new user.
Cover ==
    /\ front = "home"
    /\ front' = "other"
    /\ UNCHANGED <<group, flying, notices, page, data, selected, skeleton, missed, counts>>

Uncover ==
    /\ front = "other"
    /\ front' = "home"
    /\ UNCHANGED <<group, flying, notices, page, data, selected, skeleton, missed, counts>>

-----------------------------------------------------------------------------
(* The answers.                                                            *)

CategoryArrived_AsSelected(r) ==
    /\ cache' = [cache EXCEPT ![selected] = r.of]
    /\ shown' = r.of
    /\ UNCHANGED <<feed, popular>>

\* The category is the one of the request, not the one selected by now; shown
\* is what arrived last.
CategoryArrived(r) ==
    /\ cache' = [cache EXCEPT ![r.of] = r.of]
    /\ shown' = r.of
    /\ UNCHANGED <<feed, popular>>

Arrived(r) ==
    \/ /\ r.kind \in {"user", "category"}
       /\ UNCHANGED data
    \/ /\ r.kind \in {"first", "more"}
       /\ feed' = [feed EXCEPT ![r.page] = @ + 1]
       /\ UNCHANGED <<popular, cache, shown>>
    \/ /\ r.kind = "popular"
       /\ popular' = TRUE
       /\ UNCHANGED <<feed, cache, shown>>
    \/ /\ r.kind = "products"
       /\ CategoryArrived(r)

\* dataFetchGroup.leave, which hands the blocks that wait for the group to the
\* main queue when it was the last to leave.
Leave(leaves) ==
    /\ group' = IF leaves THEN group - 1 ELSE group
    /\ notices' = IF leaves /\ group' = 0 THEN notices + 1 ELSE notices

\* updateHandler reloads the table and takes the skeleton away.
Success(r) ==
    /\ r \in flying
    /\ flying' = flying \ {r}
    /\ Leave(r \in Legs)
    /\ Arrived(r)
    /\ skeleton' = FALSE /\ missed' = FALSE
    /\ UNCHANGED <<page, selected, front, counts>>

LeavesOnFailure_All(r) == TRUE

\* performProduct reports the failure and forgets the completion that leaves.
LeavesOnFailure(r) == r.kind \in {"user", "category"}

Alert_OnlyFirst ==
    \/ /\ front \in {"home", "closing"}
       /\ front' = IF page = 1 THEN "alert" ELSE front
       /\ missed' = FALSE
    \/ front \in {"closing", "other"} /\ UNCHANGED front /\ missed' = TRUE
    \/ front = "alert" /\ UNCHANGED <<front, missed>>

\* didFailFetch: nothing is presented over something else, and perhaps nothing
\* while the last alert goes.
Alert ==
    \/ front \in {"home", "closing"} /\ front' = "alert" /\ missed' = FALSE
    \/ front \in {"closing", "other"} /\ UNCHANGED front /\ missed' = TRUE
    \/ front = "alert" /\ UNCHANGED <<front, missed>>

Failure(r) ==
    /\ r \in flying
    /\ flying' = flying \ {r}
    /\ Leave(LeavesOnFailure(r))
    /\ skeleton' = TRUE
    /\ Alert
    /\ UNCHANGED <<page, data, selected, counts>>

\* The block of dataFetchGroup.notify: updateHandler, whether the last to leave
\* the group had succeeded or failed.
Notify ==
    /\ notices > 0
    /\ notices' = notices - 1
    /\ skeleton' = FALSE /\ missed' = FALSE
    /\ UNCHANGED <<group, flying, page, data, selected, front, counts>>

-----------------------------------------------------------------------------
Next ==
    \/ Quit
    \/ Refresh
    \/ AlertGone
    \/ LoadMore
    \/ \E c \in Categories : Select(c)
    \/ Cover
    \/ Uncover
    \/ \E r \in flying : Success(r)
    \/ \E r \in flying : Failure(r)
    \/ Notify

Spec == Init /\ [][Next]_vars

-----------------------------------------------------------------------------
(* What the screen promises.                                               *)

\* The group is never left more often than it was entered (libdispatch traps
\* on that): however loads overlap and fail, it still counts every request that
\* will leave it.
GroupCoversLegs == group >= Cardinality(Legs)

\* The cache is never poisoned: what is kept for a category are its products,
\* although the user may have selected others while they were on their way.
CacheIsTrue == \A c \in Categories : cache[c] \in {c, NoCategory}

\* As long as the user did not load again, no page of products is listed twice,
\* however fast the user scrolls and in whatever order the pages arrive.
NoPageTwice == loads = 1 => \A p \in Pages : feed[p] <= 1

\* A skeleton is never the end: something is on its way, or the alert offers to
\* load again, unless an alert could not be presented.
SkeletonExplained == skeleton => flying # {} \/ front = "alert" \/ missed
=============================================================================
