-------------------------- MODULE HomeFeedProofs ---------------------------
(***************************************************************************)
(* Safety of HomeFeed for any categories, numbers of pages, loads and      *)
(* selections.                                                             *)
(***************************************************************************)
EXTENDS HomeFeed, FiniteSetTheorems, TLAPS

\* Requests are numbered by the counters that made them.
Numbered ==
    \A r \in flying :
        /\ r.kind \in {"user", "category", "popular", "first"} => r.load <= loads
        /\ r.kind = "products" => r.tap <= taps

AsksPage(r) == r.kind \in {"first", "more"}

\* Before a second load, the first page is asked for once and every later one
\* at most once; a page that came is not asked for.
EachOnce ==
    /\ \A r \in flying : /\ r.kind = "first" => r.page = 1
                         /\ r.kind = "more" => r.page \in 2 .. page
    /\ \A p \in Pages :
          /\ feed[p] <= 1
          /\ p > page => feed[p] = 0
          /\ feed[p] = 1 => \A r \in flying : AsksPage(r) => r.page # p

OnePage == loads = 1 => EachOnce

IInv ==
    /\ TypeOK
    /\ IsFiniteSet(flying)
    /\ GroupCoversLegs
    /\ CacheIsTrue
    /\ SkeletonExplained
    /\ Numbered
    /\ OnePage

-----------------------------------------------------------------------------
(* Requests.                                                               *)

LEMMA RequestFields ==
  ASSUME NEW r \in Requests
  PROVE  /\ r.kind \in {"user", "category", "popular", "first", "more", "products"}
         /\ r.kind \in {"user", "category", "popular", "first"} => r.load \in 1 .. MaxLoads
         /\ r.kind \in {"first", "more"} => r.page \in Pages
         /\ r.kind = "products" => r.of \in Categories /\ r.tap \in 1 .. MaxTaps
  BY DEF Requests

\* A page request is known by its page and, for the first, by its load.
LEMMA SamePage ==
  ASSUME NEW r \in Requests, NEW s \in Requests, AsksPage(r), s.kind = r.kind,
         r.page = s.page, r.kind = "first" => r.load = s.load
  PROVE  r = s
<1>1. CASE r.kind = "first"
  <2>1. /\ r \in [kind : {"first"}, page : Pages, load : 1 .. MaxLoads]
        /\ s \in [kind : {"first"}, page : Pages, load : 1 .. MaxLoads]
    BY <1>1 DEF Requests
  <2>. QED
    BY <1>1, <2>1
<1>2. CASE r.kind = "more"
  <2>1. r \in [kind : {"more"}, page : Pages] /\ s \in [kind : {"more"}, page : Pages]
    BY <1>2 DEF Requests
  <2>. QED
    BY <1>2, <2>1
<1>. QED
  BY <1>1, <1>2 DEF AsksPage

LEMMA FirstRequestsType ==
  ASSUME NEW n \in 1 .. MaxLoads, NEW pg \in Pages, NEW pop \in BOOLEAN
  PROVE  /\ FirstRequests(n, pg, pop) \subseteq Requests
         /\ \A r \in FirstRequests(n, pg, pop) :
              /\ r.kind \in {"user", "category", "popular", "first"} /\ r.load = n
              /\ r.kind = "first" => r.page = pg
         /\ IsFiniteSet(FirstRequests(n, pg, pop))
<1>. DEFINE u == [kind |-> "user", load |-> n]
            c == [kind |-> "category", load |-> n]
            f == [kind |-> "first", page |-> pg, load |-> n]
            o == [kind |-> "popular", load |-> n]
<1>1. FirstRequests(n, pg, pop) \subseteq {u, c, f, o}
  BY DEF FirstRequests
<1>2. {u, c, f, o} \subseteq Requests
  BY DEF Requests
<1>3. IsFiniteSet({u, c, f, o})
  <2>. HIDE DEF u, c, f, o
  <2>1. IsFiniteSet({u})
    BY FS_Singleton
  <2>2. IsFiniteSet({u} \cup {c})
    BY <2>1, FS_AddElement
  <2>3. IsFiniteSet(({u} \cup {c}) \cup {f})
    BY <2>2, FS_AddElement
  <2>4. IsFiniteSet((({u} \cup {c}) \cup {f}) \cup {o})
    BY <2>3, FS_AddElement
  <2>5. {u, c, f, o} = (({u} \cup {c}) \cup {f}) \cup {o}
    OBVIOUS
  <2>. QED
    BY <2>4, <2>5
<1>. QED
  BY <1>1, <1>2, <1>3, FS_Subset

-----------------------------------------------------------------------------
(* The group.                                                              *)

LegsOf(F) == {r \in F : r.kind \in {"user", "category", "first"}}

LEMMA LegsAre == Legs = LegsOf(flying) /\ Legs' = LegsOf(flying')
  BY DEF Legs, LegsOf

\* An answer takes its request out of the legs.
LEMMA OneLess ==
  ASSUME NEW F, IsFiniteSet(F), NEW r \in F
  PROVE  /\ IsFiniteSet(F \ {r})
         /\ Cardinality(LegsOf(F)) \in Nat
         /\ Cardinality(LegsOf(F \ {r})) =
              IF r \in LegsOf(F) THEN Cardinality(LegsOf(F)) - 1 ELSE Cardinality(LegsOf(F))
<1>1. IsFiniteSet(LegsOf(F)) /\ LegsOf(F \ {r}) = LegsOf(F) \ {r}
  BY FS_Subset DEF LegsOf
<1>. QED
  BY <1>1, FS_RemoveElement, FS_CardinalityType

LEMMA OneMore ==
  ASSUME NEW S, NEW x, IsFiniteSet(S)
  PROVE  /\ IsFiniteSet(S \cup {x})
         /\ Cardinality(S) \in Nat /\ Cardinality(S \cup {x}) \in Nat
         /\ Cardinality(S \cup {x}) <= Cardinality(S) + 1
  BY FS_AddElement, FS_CardinalityType

\* A load brings three legs at most.
LEMMA ThreeMore ==
  ASSUME NEW F, IsFiniteSet(F), NEW n, NEW pg, NEW pop
  PROVE  /\ Cardinality(LegsOf(F)) \in Nat
         /\ Cardinality(LegsOf(F \cup FirstRequests(n, pg, pop))) \in Nat
         /\ Cardinality(LegsOf(F \cup FirstRequests(n, pg, pop))) <= Cardinality(LegsOf(F)) + 3
<1>1. PICK u, c, f : LegsOf(F \cup FirstRequests(n, pg, pop)) = ((LegsOf(F) \cup {u}) \cup {c}) \cup {f}
  <2>1. LegsOf(F \cup FirstRequests(n, pg, pop)) =
          ((LegsOf(F) \cup {[kind |-> "user", load |-> n]}) \cup {[kind |-> "category", load |-> n]})
            \cup {[kind |-> "first", page |-> pg, load |-> n]}
    BY DEF LegsOf, FirstRequests
  <2>. QED
    BY <2>1
<1>2. IsFiniteSet(LegsOf(F)) /\ Cardinality(LegsOf(F)) \in Nat
  BY FS_Subset, FS_CardinalityType DEF LegsOf
<1>3. /\ IsFiniteSet(LegsOf(F) \cup {u}) /\ Cardinality(LegsOf(F) \cup {u}) \in Nat
      /\ Cardinality(LegsOf(F) \cup {u}) <= Cardinality(LegsOf(F)) + 1
  BY <1>2, OneMore
<1>4. /\ IsFiniteSet((LegsOf(F) \cup {u}) \cup {c})
      /\ Cardinality((LegsOf(F) \cup {u}) \cup {c}) \in Nat
      /\ Cardinality((LegsOf(F) \cup {u}) \cup {c}) <= Cardinality(LegsOf(F) \cup {u}) + 1
  BY <1>3, OneMore
<1>5. /\ Cardinality(((LegsOf(F) \cup {u}) \cup {c}) \cup {f}) \in Nat
      /\ Cardinality(((LegsOf(F) \cup {u}) \cup {c}) \cup {f})
           <= Cardinality((LegsOf(F) \cup {u}) \cup {c}) + 1
  BY <1>4, OneMore
<1>6. ASSUME NEW w \in Nat, NEW x \in Nat, NEW y \in Nat, NEW z \in Nat,
             x <= w + 1, y <= x + 1, z <= y + 1
      PROVE  z <= w + 3
  BY <1>6
<1>7. Cardinality(((LegsOf(F) \cup {u}) \cup {c}) \cup {f}) <= Cardinality(LegsOf(F)) + 3
  BY <1>2, <1>3, <1>4, <1>5, <1>6
<1>. QED
  BY <1>1, <1>2, <1>5, <1>7, Zenon

\* Other requests hold nothing.
LEMMA NoMore ==
  ASSUME NEW F, NEW r, r.kind \notin {"user", "category", "first"}
  PROVE  LegsOf(F \cup {r}) = LegsOf(F)
  BY DEF LegsOf

\* What the group is about.
Group == /\ group \in Nat /\ flying \subseteq Requests /\ IsFiniteSet(flying)
         /\ group >= Cardinality(LegsOf(flying))

LEMMA FreshGroup ==
  ASSUME NEW F, F = FirstRequests(1, 1, FALSE)
  PROVE  /\ F \subseteq Requests /\ IsFiniteSet(F) /\ 3 >= Cardinality(LegsOf(F))
         /\ Cardinality(LegsOf(F)) \in Nat
<1>1. 1 \in 1 .. MaxLoads /\ 1 \in Pages
  BY FeedAssumption DEF Pages
<1>2. F \subseteq Requests /\ IsFiniteSet(F)
  BY <1>1, FirstRequestsType
<1>3. LegsOf({}) = {} /\ {} \cup F = F
  BY DEF LegsOf
<1>4. IsFiniteSet({}) /\ Cardinality(LegsOf({})) = 0
  BY <1>3, FS_EmptySet
<1>5. /\ Cardinality(LegsOf({} \cup FirstRequests(1, 1, FALSE))) \in Nat
      /\ Cardinality(LegsOf({} \cup FirstRequests(1, 1, FALSE))) <= Cardinality(LegsOf({})) + 3
  BY <1>4, ThreeMore
<1>6. {} \cup FirstRequests(1, 1, FALSE) = F
  OBVIOUS
<1>7. Cardinality(LegsOf(F)) \in Nat /\ Cardinality(LegsOf(F)) <= Cardinality(LegsOf({})) + 3
  BY <1>5, <1>6, Zenon
<1>8. ASSUME NEW x \in Nat, NEW y, y = 0, x <= y + 3 PROVE 3 >= x
  BY <1>8
<1>9. 3 >= Cardinality(LegsOf(F))
  BY <1>4, <1>7, <1>8
<1>. QED
  BY <1>2, <1>7, <1>9, Zenon

\* The group counts at least the requests that will leave it, in every step.
LEMMA GroupStep ==
  ASSUME TypeOK, Group, [Next]_vars
  PROVE  Group'
<1>. USE DEF Group
<1>1. CASE Quit
  BY <1>1, FreshGroup DEF Quit
<1>2. CASE Refresh
  <2>1. FirstRequests(loads + 1, page, popular) \subseteq Requests
        /\ IsFiniteSet(FirstRequests(loads + 1, page, popular))
    BY <1>2, FirstRequestsType, FeedAssumption DEF TypeOK, Refresh
  <2>2. IsFiniteSet(flying') /\ flying' \subseteq Requests
    BY <1>2, <2>1, FS_Union DEF Refresh
  <2>3. /\ Cardinality(LegsOf(flying)) \in Nat
        /\ Cardinality(LegsOf(flying')) \in Nat
        /\ Cardinality(LegsOf(flying')) <= Cardinality(LegsOf(flying)) + 3
    BY <1>2, ThreeMore DEF Refresh
  <2>. QED
    BY <1>2, <2>2, <2>3 DEF Refresh
<1>3. CASE LoadMore
  <2>1. [kind |-> "more", page |-> page + 1] \in Requests
    BY <1>3, FeedAssumption DEF TypeOK, LoadMore, Requests, Pages
  <2>2. IsFiniteSet(flying') /\ flying' \subseteq Requests
    BY <1>3, <2>1, FS_AddElement DEF LoadMore
  <2>3. LegsOf(flying') = LegsOf(flying)
    BY <1>3, NoMore DEF LoadMore
  <2>. QED
    BY <1>3, <2>2, <2>3 DEF LoadMore
<1>4. ASSUME NEW c \in Categories, Select(c) PROVE Group'
  <2>1. CASE SelectCached(c)
    BY <1>4, <2>1 DEF Select, SelectCached
  <2>2. CASE SelectUnknown(c)
    <3>1. [kind |-> "products", of |-> c, tap |-> taps + 1] \in Requests
      BY <2>2, FeedAssumption DEF TypeOK, SelectUnknown, Requests
    <3>2. IsFiniteSet(flying') /\ flying' \subseteq Requests
      BY <2>2, <3>1, FS_AddElement DEF SelectUnknown
    <3>3. LegsOf(flying') = LegsOf(flying)
      BY <2>2, NoMore DEF SelectUnknown
    <3>. QED
      BY <1>4, <3>2, <3>3 DEF Select
  <2>. QED
    BY <1>4, <2>1, <2>2 DEF Select
<1>5. ASSUME NEW r \in flying, Success(r) \/ Failure(r) PROVE Group'
  <2>1. /\ flying' = flying \ {r}
        /\ IsFiniteSet(flying')
        /\ Cardinality(LegsOf(flying)) \in Nat
        /\ Cardinality(LegsOf(flying')) =
             IF r \in LegsOf(flying) THEN Cardinality(LegsOf(flying)) - 1
                                     ELSE Cardinality(LegsOf(flying))
    BY <1>5, OneLess DEF Success, Failure
  <2>2. /\ group' \in {group, group - 1}
        /\ group' = group - 1 => r \in LegsOf(flying)
    BY <1>5 DEF Success, Failure, Leave, LeavesOnFailure, Legs, LegsOf
  <2>3. r \in LegsOf(flying) => Cardinality(LegsOf(flying)) >= 1
    <3>1. IsFiniteSet(LegsOf(flying))
      BY FS_Subset DEF LegsOf
    <3>. QED
      BY <2>1, <3>1, FS_EmptySet
  <2>. QED
    BY <2>1, <2>2, <2>3
<1>6. CASE AlertGone \/ Cover \/ Uncover \/ Notify \/ UNCHANGED vars
  BY <1>6 DEF AlertGone, Cover, Uncover, Notify, vars
<1>. QED
  BY <1>1, <1>2, <1>3, <1>4, <1>5, <1>6 DEF Next

-----------------------------------------------------------------------------
(* What is shown and kept.                                                 *)

\* Types and the cache.
LEMMA DataStep ==
  ASSUME TypeOK, CacheIsTrue, flying' \subseteq Requests, group' \in Nat, [Next]_vars
  PROVE  TypeOK' /\ CacheIsTrue'
<1>. USE FeedAssumption DEF TypeOK, CacheIsTrue, Pages
<1>1. CASE Quit
  <2>1. /\ page' \in Pages /\ feed' \in [Pages -> Nat] /\ loads' \in 1 .. MaxLoads
        /\ taps' \in 0 .. MaxTaps
    BY <1>1 DEF Quit
  <2>2. /\ cache' \in [Categories -> Categories \cup {NoCategory}] /\ CacheIsTrue'
    BY <1>1 DEF Quit
  <2>. QED
    BY <1>1, <2>1, <2>2 DEF Quit
<1>2. CASE Refresh
  BY <1>2 DEF Refresh, data
<1>3. CASE LoadMore
  BY <1>3 DEF LoadMore, data, counts
<1>4. ASSUME NEW c \in Categories, Select(c) PROVE TypeOK' /\ CacheIsTrue'
  <2>1. shown' \in Categories \cup {NoCategory} /\ taps' \in 0 .. MaxTaps /\ skeleton' \in BOOLEAN
    <3>1. CASE SelectCached(c)
      BY <3>1 DEF SelectCached
    <3>2. CASE SelectUnknown(c)
      BY <3>2 DEF SelectUnknown
    <3>. QED
      BY <1>4, <3>1, <3>2 DEF Select
  <2>. QED
    BY <1>4, <2>1 DEF Select
<1>5. ASSUME NEW r \in flying, Success(r) PROVE TypeOK' /\ CacheIsTrue'
  <2>1. /\ feed' \in [Pages -> Nat] /\ popular' \in BOOLEAN
        /\ cache' \in [Categories -> Categories \cup {NoCategory}]
        /\ shown' \in Categories \cup {NoCategory}
        /\ CacheIsTrue'
    <3>1. CASE r.kind \in {"user", "category"} /\ UNCHANGED data
      BY <3>1, Zenon DEF data
    <3>2. CASE r.kind \in {"first", "more"} /\ feed' = [feed EXCEPT ![r.page] = @ + 1]
               /\ UNCHANGED <<popular, cache, shown>>
      <4>1. r.page \in Pages
        BY <3>2, RequestFields
      <4>2. feed' \in [Pages -> Nat]
        BY <3>2, <4>1
      <4>. QED
        BY <3>2, <4>2
    <3>3. CASE popular' = TRUE /\ UNCHANGED <<feed, cache, shown>>
      BY <3>3
    <3>4. CASE r.kind = "products" /\ CategoryArrived(r)
      <4>1. r.of \in Categories
        BY <3>4, RequestFields
      <4>. QED
        BY <3>4, <4>1 DEF CategoryArrived
    <3>. QED
      BY <1>5, <3>1, <3>2, <3>3, <3>4 DEF Success, Arrived
  <2>2. notices' \in Nat
    <3>1. notices' \in {notices, notices + 1}
      BY <1>5, Zenon DEF Success, Leave
    <3>. QED
      BY <3>1
  <2>. QED
    BY <1>5, <2>1, <2>2 DEF Success, counts
<1>6. ASSUME NEW r \in flying, Failure(r) PROVE TypeOK' /\ CacheIsTrue'
  <2>1. notices' \in Nat
    <3>1. notices' \in {notices, notices + 1}
      BY <1>6, Zenon DEF Failure, Leave
    <3>. QED
      BY <3>1
  <2>2. front' \in {"home", "alert", "closing", "other"} /\ missed' \in BOOLEAN
    BY <1>6 DEF Failure, Alert
  <2>3. /\ skeleton' = TRUE
        /\ UNCHANGED <<page, feed, popular, cache, shown, selected, loads, taps>>
    BY <1>6 DEF Failure, data, counts
  <2>4. CacheIsTrue'
    BY <2>3
  <2>5. /\ page' \in Pages /\ feed' \in [Pages -> Nat] /\ popular' \in BOOLEAN
        /\ cache' \in [Categories -> Categories \cup {NoCategory}]
        /\ shown' \in Categories \cup {NoCategory} /\ selected' \in Categories
        /\ loads' \in 1 .. MaxLoads /\ taps' \in 0 .. MaxTaps
    BY <2>3
  <2>. QED
    BY <2>1, <2>2, <2>3, <2>4, <2>5
<1>7. CASE AlertGone \/ Cover \/ Uncover \/ UNCHANGED vars
  BY <1>7 DEF AlertGone, Cover, Uncover, vars, data, counts
<1>8. CASE Notify
  <2>1. notices' \in Nat
    BY <1>8 DEF Notify
  <2>. QED
    BY <1>8, <2>1 DEF Notify, data, counts
<1>. QED
  BY <1>1, <1>2, <1>3, <1>4, <1>5, <1>6, <1>7, <1>8 DEF Next

\* A skeleton has its explanation.
LEMMA SkeletonStep ==
  ASSUME TypeOK, SkeletonExplained, [Next]_vars
  PROVE  SkeletonExplained'
<1>. USE DEF SkeletonExplained
<1>1. FirstRequests(1, 1, FALSE) # {} /\ FirstRequests(loads + 1, page, popular) # {}
  BY DEF FirstRequests
<1>2. CASE Quit \/ Refresh
  BY <1>1, <1>2 DEF Quit, Refresh
<1>3. CASE LoadMore
  BY <1>3 DEF LoadMore
<1>4. ASSUME NEW c \in Categories, Select(c) PROVE SkeletonExplained'
  BY <1>4 DEF Select, SelectCached, SelectUnknown, Usable
<1>5. ASSUME NEW r \in flying, Success(r) PROVE SkeletonExplained'
  BY <1>5 DEF Success
<1>6. ASSUME NEW r \in flying, Failure(r) PROVE SkeletonExplained'
  BY <1>6 DEF Failure, Alert
<1>7. CASE AlertGone \/ Cover \/ Uncover \/ Notify \/ UNCHANGED vars
  BY <1>7 DEF AlertGone, Cover, Uncover, Notify, vars
<1>. QED
  BY <1>2, <1>3, <1>4, <1>5, <1>6, <1>7 DEF Next

-----------------------------------------------------------------------------
(* Pages.                                                                  *)

\* No page is asked for twice, or again after it came, unless the user loads
\* again.
LEMMA PagesStep ==
  ASSUME TypeOK, Numbered, OnePage, [Next]_vars
  PROVE  Numbered' /\ OnePage'
<1>. USE FeedAssumption
<1>0. /\ 1 \in 1 .. MaxLoads /\ 1 \in Pages /\ loads \in 1 .. MaxLoads /\ page \in Pages
      /\ taps \in 0 .. MaxTaps /\ feed \in [Pages -> Nat] /\ popular \in BOOLEAN
      /\ flying \subseteq Requests
  BY DEF TypeOK, Pages
<1>1. CASE Quit
  <2>1. \A r \in flying' :
            /\ r.kind \in {"user", "category", "popular", "first"} /\ r.load = 1
            /\ r.kind = "first" => r.page = 1
    BY <1>0, <1>1, FirstRequestsType DEF Quit
  <2>2. loads' = 1 /\ \A p \in Pages : feed'[p] = 0
    BY <1>1 DEF Quit
  <2>. QED
    BY <2>1, <2>2 DEF Numbered, OnePage, EachOnce
<1>2. CASE Refresh
  <2>1. \A r \in FirstRequests(loads + 1, page, popular) :
            r.kind \in {"user", "category", "popular", "first"} /\ r.load = loads + 1
    BY <1>0, <1>2, FirstRequestsType DEF Refresh
  <2>2. loads' = loads + 1 /\ taps' = taps /\ loads' # 1
    BY <1>0, <1>2 DEF Refresh
  <2>3. Numbered'
    <3>. SUFFICES ASSUME NEW r \in flying'
                  PROVE  /\ r.kind \in {"user", "category", "popular", "first"} => r.load <= loads'
                         /\ r.kind = "products" => r.tap <= taps'
      BY DEF Numbered
    <3>1. CASE r \in flying
      BY <1>0, <2>2, <3>1, RequestFields DEF Numbered
    <3>2. CASE r \in FirstRequests(loads + 1, page, popular)
      BY <1>0, <2>1, <2>2, <3>2
    <3>. QED
      BY <1>2, <3>1, <3>2 DEF Refresh
  <2>. QED
    BY <2>2, <2>3 DEF OnePage
<1>3. CASE LoadMore
  <2>1. DEFINE n == [kind |-> "more", page |-> page + 1]
  <2>2. /\ flying' = flying \cup {n} /\ page' = page + 1 /\ n.kind = "more" /\ n.page = page + 1
        /\ UNCHANGED <<feed, loads, taps>>
    BY <1>3 DEF LoadMore, data, counts
  <2>. HIDE DEF n
  <2>3. Numbered'
    BY <2>2 DEF Numbered
  <2>4. OnePage'
    <3>. SUFFICES ASSUME loads = 1 PROVE EachOnce'
      BY <2>2 DEF OnePage
    <3>1. EachOnce
      BY DEF OnePage
    <3>2. \A p \in Pages : feed[p] = 1 => p <= page
      BY <1>0, <3>1 DEF EachOnce, Pages
    <3>. QED
      BY <1>0, <2>2, <3>1, <3>2 DEF EachOnce, Pages
  <2>. QED
    BY <2>3, <2>4
<1>4. ASSUME NEW c \in Categories, Select(c) PROVE Numbered' /\ OnePage'
  <2>1. UNCHANGED <<feed, loads, page>>
    BY <1>4 DEF Select
  <2>2. CASE SelectCached(c)
    BY <2>1, <2>2 DEF SelectCached, Numbered, OnePage, EachOnce
  <2>3. CASE SelectUnknown(c)
    <3>1. DEFINE n == [kind |-> "products", of |-> c, tap |-> taps + 1]
    <3>2. /\ flying' = flying \cup {n} /\ taps' = taps + 1
          /\ n.kind = "products" /\ n.tap = taps + 1
      BY <2>3 DEF SelectUnknown
    <3>. HIDE DEF n
    <3>3. Numbered'
      BY <1>0, <2>1, <3>2, RequestFields DEF Numbered
    <3>4. OnePage'
      BY <2>1, <3>2 DEF OnePage, EachOnce, AsksPage
    <3>. QED
      BY <3>3, <3>4
  <2>. QED
    BY <1>4, <2>2, <2>3 DEF Select
<1>5. ASSUME NEW r \in flying, Success(r) PROVE Numbered' /\ OnePage'
  <2>1. flying' = flying \ {r} /\ UNCHANGED <<page, loads, taps>>
    BY <1>5 DEF Success, counts
  <2>2. Numbered'
    BY <2>1 DEF Numbered
  <2>3. CASE ~AsksPage(r)
    <3>1. feed' = feed
      BY <1>5, <2>3 DEF Success, Arrived, CategoryArrived, AsksPage, data
    <3>. QED
      BY <2>1, <2>2, <3>1 DEF OnePage, EachOnce
  <2>4. CASE AsksPage(r)
    <3>1. r.page \in Pages /\ feed' = [feed EXCEPT ![r.page] = @ + 1]
      BY <1>0, <1>5, <2>4, RequestFields DEF Success, Arrived, AsksPage
    <3>2. OnePage'
      <4>. SUFFICES ASSUME loads = 1 PROVE EachOnce'
        BY <2>1 DEF OnePage
      <4>1. EachOnce
        BY DEF OnePage
      <4>2. feed[r.page] = 0 /\ feed'[r.page] = 1
        BY <1>0, <2>4, <3>1, <4>1 DEF EachOnce
      <4>3. \A p \in Pages \ {r.page} : feed'[p] = feed[p]
        BY <1>0, <3>1
      <4>4. r.page <= page
        BY <1>0, <2>4, <3>1, <4>1 DEF EachOnce, AsksPage, Pages
      <4>5. ASSUME NEW q \in flying, AsksPage(q), q.page = r.page PROVE q = r
        <5>1. q.kind = r.kind
          BY <1>0, <2>4, <4>1, <4>5 DEF EachOnce, AsksPage, Pages
        <5>2. q.kind = "first" => q.load = r.load
          <6>. SUFFICES ASSUME q.kind = "first" PROVE q.load = r.load
            OBVIOUS
          <6>1. q.load \in 1 .. MaxLoads /\ r.load \in 1 .. MaxLoads
            BY <1>0, <5>1, RequestFields
          <6>2. q.load <= 1 /\ r.load <= 1
            BY <5>1 DEF Numbered
          <6>. QED
            BY <6>1, <6>2
        <5>. QED
          BY <1>0, <4>5, <5>1, <5>2, SamePage
      <4>. QED
        BY <1>0, <2>1, <4>1, <4>2, <4>3, <4>4, <4>5 DEF EachOnce, Pages
    <3>. QED
      BY <2>2, <3>2
  <2>. QED
    BY <2>3, <2>4
<1>6. ASSUME NEW r \in flying, Failure(r) PROVE Numbered' /\ OnePage'
  BY <1>6 DEF Failure, data, counts, Numbered, OnePage, EachOnce
<1>7. CASE AlertGone \/ Cover \/ Uncover \/ Notify \/ UNCHANGED vars
  BY <1>7 DEF AlertGone, Cover, Uncover, Notify, vars, data, counts, Numbered, OnePage, EachOnce
<1>. QED
  BY <1>1, <1>2, <1>3, <1>4, <1>5, <1>6, <1>7 DEF Next

-----------------------------------------------------------------------------
(* The theorems.                                                           *)

\* The strengthened invariant holds throughout.
THEOREM Inductive == Spec => []IInv
<1>0. IInv <=> /\ TypeOK /\ Group /\ CacheIsTrue /\ SkeletonExplained /\ Numbered /\ OnePage
  BY LegsAre, Zenon DEF IInv, Group, GroupCoversLegs, TypeOK
<1>1. Init => IInv
  <2>. SUFFICES ASSUME Init PROVE IInv
    OBVIOUS
  <2>. USE FeedAssumption
  <2>1. 1 \in 1 .. MaxLoads /\ 1 \in Pages
    BY DEF Pages
  <2>2. Group
    BY FreshGroup DEF Init, Group
  <2>3. /\ feed \in [Pages -> Nat] /\ cache \in [Categories -> Categories \cup {NoCategory}]
        /\ CacheIsTrue
    BY DEF Init, CacheIsTrue
  <2>4. TypeOK
    <3>1. page \in Pages /\ loads \in 1 .. MaxLoads /\ taps \in 0 .. MaxTaps
      BY <2>1 DEF Init
    <3>2. shown \in Categories \cup {NoCategory} /\ selected \in Categories
      BY DEF Init
    <3>. QED
      BY <2>2, <2>3, <3>1, <3>2 DEF Init, TypeOK, Group
  <2>5. \A r \in flying :
            /\ r.kind \in {"user", "category", "popular", "first"} /\ r.load = 1
            /\ r.kind = "first" => r.page = 1
    BY <2>1, FirstRequestsType DEF Init
  <2>6. Numbered /\ OnePage
    <3>1. \A p \in Pages : feed[p] = 0
      BY DEF Init
    <3>2. Numbered
      <4>1. loads = 1
        BY DEF Init
      <4>. QED
        BY <2>5, <4>1 DEF Numbered
    <3>3. EachOnce
      BY <2>5, <3>1 DEF EachOnce
    <3>. QED
      BY <3>2, <3>3 DEF OnePage
  <2>7. SkeletonExplained
    BY DEF Init, SkeletonExplained, FirstRequests
  <2>. QED
    BY <1>0, <2>2, <2>3, <2>4, <2>6, <2>7
<1>2. IInv /\ [Next]_vars => IInv'
  <2>. SUFFICES ASSUME IInv, [Next]_vars PROVE IInv'
    OBVIOUS
  <2>1. Group'
    BY <1>0, GroupStep
  <2>2. TypeOK' /\ CacheIsTrue'
    BY <1>0, <2>1, DataStep DEF Group
  <2>3. GroupCoversLegs' /\ IsFiniteSet(flying)'
    BY <2>1, LegsAre, Zenon DEF Group, GroupCoversLegs
  <2>. QED
    BY <1>0, <2>2, <2>3, SkeletonStep, PagesStep DEF IInv
<1>. QED
  BY <1>1, <1>2, PTL DEF Spec

\* Every variable keeps its type; in particular the group's count is never
\* negative, which libdispatch would trap on.
THEOREM TypeCorrect == Spec => []TypeOK
<1>1. IInv => TypeOK
  BY DEF IInv
<1>. QED
  BY Inductive, <1>1, PTL

\* The group counts every request that will leave it.
THEOREM GroupIsNeverLeftTooOften == Spec => []GroupCoversLegs
<1>1. IInv => GroupCoversLegs
  BY DEF IInv
<1>. QED
  BY Inductive, <1>1, PTL

\* The cache of a category holds its own products.
THEOREM CacheNeverPoisoned == Spec => []CacheIsTrue
<1>1. IInv => CacheIsTrue
  BY DEF IInv
<1>. QED
  BY Inductive, <1>1, PTL

\* Without a second load no page is listed twice.
THEOREM EveryPageOnce == Spec => []NoPageTwice
<1>1. IInv => NoPageTwice
  BY DEF IInv, OnePage, EachOnce, NoPageTwice
<1>. QED
  BY Inductive, <1>1, PTL

\* A skeleton always has a request, the alert or a lost alert behind it.
THEOREM SkeletonHasAReason == Spec => []SkeletonExplained
<1>1. IInv => SkeletonExplained
  BY DEF IInv
<1>. QED
  BY Inductive, <1>1, PTL
=============================================================================
