-------------------------- MODULE YourOrdersProofs -------------------------
(***************************************************************************)
(* The screen of the orders, for any orders and any number of requests and *)
(* chains.  First what it shows when nothing is on the way any more, where *)
(* an answer may be any value; then what the answers and the orders of its *)
(* rows have to do with each other, which rests on what sorting gives.     *)
(***************************************************************************)
EXTENDS YourOrders, FiniteSetTheorems, WellFoundedInduction, TLAPS

\* What the proofs need of types: requests and chains are functions, and a
\* chain is at some position of what it goes through.
Shaped ==
    /\ lists = [l \in Lists |-> lists[l]]
    /\ chain = [c \in Chains |-> [list |-> chain[c].list, at |-> chain[c].at]]
    /\ \A c \in Chains : chain[c].at \in Nat

\* The inductive invariant.
IInv == Shaped /\ LoadingExplained /\ QuietTableIsCurrent

\* A chain that has a request out is at work.
LEMMA OnTheWayIsNotIdle ==
    ASSUME NEW list, NEW at \in Nat
    PROVE  [list |-> list, at |-> at + 1] # Idle
BY DEF Idle

\* A chain that was stepped to its end reloads the table and ends the refresh,
\* and one that was not is still at work.
LEMMA SteppedOn ==
    ASSUME Shaped, NEW c \in Chains, Working(c), Advance(c)
    PROVE  /\ \/ Working(c)'
              \/ rows' = RowsOf(data', gate', filter') /\ ~refreshing'
           /\ chain' = [d \in Chains |-> [list |-> chain'[d].list, at |-> chain'[d].at]]
           /\ \A d \in Chains : chain'[d].at \in Nat
<1>1. CASE Ends(c)
  <2>1. chain' = [chain EXCEPT ![c] = Idle]
    BY <1>1 DEF Advance, Step
  <2>2. rows' = RowsOf(data', gate', filter')
    BY <1>1 DEF Advance, ReloadIf
  <2>3. ~refreshing'
    BY <1>1 DEF Advance
  <2>4. chain' = [d \in Chains |-> [list |-> chain'[d].list, at |-> chain'[d].at]]
    BY <2>1 DEF Shaped, Idle
  <2>5. \A d \in Chains : chain'[d].at \in Nat
    BY <2>1 DEF Shaped, Idle
  <2>6. QED
    BY <2>2, <2>3, <2>4, <2>5 DEF Shaped
<1>2. CASE ~Ends(c)
  <2> DEFINE next == [list |-> chain[c].list, at |-> chain[c].at + 1]
  <2>1. chain' = [chain EXCEPT ![c] = next]
    BY <1>2 DEF Advance, Step, Shaped
  <2>2. chain[c].at \in Nat
    BY DEF Shaped
  <2>3. next # Idle
    BY <2>2, OnTheWayIsNotIdle
  <2>4. chain'[c] = next
    BY <2>1 DEF Shaped
  <2>5. chain' = [d \in Chains |-> [list |-> chain'[d].list, at |-> chain'[d].at]]
    BY <2>1 DEF Shaped
  <2>6. \A d \in Chains : chain'[d].at \in Nat
    BY <2>1, <2>2 DEF Shaped
  <2>7. QED
    BY <2>3, <2>4, <2>5, <2>6 DEF Shaped, Working, Idle
<1>3. QED
  BY <1>1, <1>2

\* A chain that begins is at work.
LEMMA Begun ==
    ASSUME Shaped, NEW c \in Chains, StartChain(c)
    PROVE  /\ Working(c)'
           /\ chain' = [d \in Chains |-> [list |-> chain'[d].list, at |-> chain'[d].at]]
           /\ \A d \in Chains : chain'[d].at \in Nat
<1> DEFINE first == [list |-> Sorted(data'), at |-> 1]
<1>1. chain' = [chain EXCEPT ![c] = first]
  BY DEF StartChain
<1>2. first # Idle
  BY DEF Idle
<1>3. chain'[c] = first
  BY <1>1 DEF Shaped
<1>4. QED
  BY <1>1, <1>2, <1>3 DEF Shaped, Working, Idle

LEMMA Initially == Init => IInv
BY DEF Init, IInv, Shaped, LoadingExplained, QuietTableIsCurrent, ShowsAnswers, Quiet, Idle

LEMMA Preserved == IInv /\ [Next]_vars => IInv'
<1> SUFFICES ASSUME IInv, [Next]_vars PROVE IInv'
  OBVIOUS
<1> USE DEF IInv, table
<1>1. ASSUME NEW o \in Orders, Placed(o) \/ Deleted(o) \/ Settle(o) PROVE IInv'
  BY <1>1 DEF Placed, Deleted, Settle, Shaped, LoadingExplained, QuietTableIsCurrent, ShowsAnswers,
              Quiet, Working, Idle, Alive, lookouts, history, servers
<1>2. ASSUME NEW l \in Lists, ShopLists(l) PROVE IInv'
  <2>1. lists' = [lists EXCEPT ![l] = <<"answer", OldestFirst(shop)>>]
    BY <1>2 DEF ShopLists
  <2>2. <<"answer", OldestFirst(shop)>> # <<"free">>
    OBVIOUS
  <2>3. Shaped' /\ ~Quiet'
    BY <2>1, <2>2, <1>2 DEF Shaped, Quiet, ShopLists
  <2>4. QED
    BY <1>2, <2>3 DEF ShopLists, LoadingExplained, QuietTableIsCurrent, ShowsAnswers, Working, Idle,
                      Alive, lookouts, history, servers
<1>3. ASSUME NEW l \in Lists, NEW c \in Chains, ListAnswered(l, c) PROVE IInv'
  <2>1. lists' = [m \in Lists |-> lists'[m]]
    BY <1>3 DEF ListAnswered, Shaped
  <2>2. CASE /\ data' = <<>> /\ popup' = FALSE /\ skeleton' = FALSE /\ refreshing' = FALSE
            /\ UNCHANGED <<chain, gate, filter>> /\ ReloadIf(skeleton)
    <3>1. Shaped' /\ LoadingExplained'
      BY <2>1, <2>2 DEF Shaped, LoadingExplained
    <3>2. CASE skeleton
      BY <2>2, <3>1, <3>2 DEF ReloadIf, QuietTableIsCurrent
    <3>3. CASE ~skeleton
      <4>1. rows' = rows
        BY <2>2, <3>3 DEF ReloadIf
      <4>2. data # <<>> /\ rows = RowsOf(data, gate, filter) => ShowsAnswers
        BY DEF RowsOf, ShowsAnswers
      <4>3. data = <<>> /\ rows = RowsOf(data, gate, filter) => rows' = RowsOf(data', gate', filter')
        BY <2>2, <4>1
      <4>4. ShowsAnswers' <=> ShowsAnswers
        BY <2>2, <4>1 DEF ShowsAnswers
      <4>5. (\A d \in Chains : ~Working(d))' => \A d \in Chains : ~Working(d)
        BY <2>2 DEF Working, Idle
      <4>6. Alive
        BY <1>3 DEF ListAnswered
      <4>7. QED
        BY <2>2, <3>1, <3>3, <4>2, <4>3, <4>4, <4>5, <4>6 DEF QuietTableIsCurrent
    <3>4. QED
      BY <3>2, <3>3
  <2>3. CASE StartChain(c)
    BY <2>1, <2>3, Begun DEF Shaped, LoadingExplained, QuietTableIsCurrent, Quiet
  <2>4. QED
    BY <1>3, <2>2, <2>3 DEF ListAnswered
<1>4. ASSUME NEW l \in Lists, ListFails(l) PROVE IInv'
  BY <1>4 DEF ListFails, Shaped, LoadingExplained, QuietTableIsCurrent, ShowsAnswers, Working, Idle,
              Alive, lookouts, servers
<1>5. ASSUME NEW c \in Chains, StatusAnswered(c) PROVE IInv'
  <2>1. Working(c) /\ Advance(c) /\ lists' = lists /\ ~popup' /\ ~skeleton'
    BY <1>5 DEF StatusAnswered
  <2>2. Shaped'
    BY <2>1, SteppedOn DEF Shaped
  <2>3. QED
    BY <2>1, <2>2, SteppedOn DEF LoadingExplained, QuietTableIsCurrent, Quiet
<1>6. ASSUME NEW c \in Chains, StatusFails(c) PROVE IInv'
  <2>1. Working(c) /\ Advance(c) /\ lists' = lists /\ skipped'
    BY <1>6 DEF StatusFails
  <2>2. Shaped'
    BY <2>1, SteppedOn DEF Shaped
  <2>3. QED
    BY <2>1, <2>2, SteppedOn DEF LoadingExplained, QuietTableIsCurrent, Quiet
<1>7. ASSUME NEW l \in Lists, Refresh(l) PROVE IInv'
  <2>1. Shaped' /\ ~Quiet'
    BY <1>7 DEF Refresh, Shaped, Quiet
  <2>2. QED
    BY <1>7, <2>1 DEF Refresh, LoadingExplained, QuietTableIsCurrent, ShowsAnswers, Working, Idle,
                      Alive, servers
<1>8. ASSUME (\E f \in Statuses \cup {"all"} : Filter(f)) \/ FilterOnOff PROVE IInv'
  BY <1>8 DEF Filter, FilterOnOff, ReloadIf, Shaped, LoadingExplained,
              QuietTableIsCurrent, Quiet, Working, Idle, Alive, lookouts, history, servers
<1>9. ASSUME NEW i \in 1 .. Len(rows), Open(i) PROVE IInv'
  <2>1. UNCHANGED <<lists, chain, data, gate, filter, rows, lookouts, history>> /\ Alive
    BY <1>9 DEF Open, Alive
  <2>2. QED
    BY <2>1 DEF Shaped, LoadingExplained, QuietTableIsCurrent, ShowsAnswers, Quiet, Working, Idle,
                Alive, lookouts, history
<1>10. CASE Return \/ Back \/ Gone
  BY <1>10 DEF Return, Back, Gone, Shaped, LoadingExplained, QuietTableIsCurrent, ShowsAnswers, Quiet,
               Working, Idle, Alive, lookouts, history, servers
<1>11. CASE UNCHANGED vars
  BY <1>11 DEF vars, Shaped, LoadingExplained, QuietTableIsCurrent, ShowsAnswers, Quiet, Working, Idle,
               Alive
<1>12. QED
  BY <1>1, <1>2, <1>3, <1>4, <1>5, <1>6, <1>7, <1>8, <1>9, <1>10, <1>11 DEF Next

\* What is shown when nothing is on the way follows from the failures and
\* from what has arrived.
THEOREM Inductive == Spec => []IInv
<1>1. QED
  BY Initially, Preserved, PTL DEF Spec

\* LoadingExplained: the loading popup and the skeleton of the screen end,
\* whatever the order of refreshes and answers, unless a request failed.
THEOREM LoadingHasAReason == Spec => []LoadingExplained
<1>1. IInv => LoadingExplained
  BY DEF IInv
<1>2. QED
  BY <1>1, Inductive, PTL

\* QuietTableIsCurrent: once the last request of a chain has ended the table is
\* what its arrays make of it, or a refresh found no transactions and its rows
\* are left over, with the answers that a tap on them opens.
THEOREM TableIsCurrent == Spec => []QuietTableIsCurrent
<1>1. IInv => QuietTableIsCurrent
  BY DEF IInv
<1>2. QED
  BY <1>1, Inductive, PTL

-----------------------------------------------------------------------------
(* Sorting.                                                                *)

\* Any set of naturals that is not empty has a least member.
LEMMA Least ==
    ASSUME NEW T \in SUBSET Nat, T # {}
    PROVE  \E n \in T : \A m \in T : n <= m
<1>1. PICK n \in T : \A m \in T : ~(<<m, n>> \in OpToRel(<, Nat))
  BY NatLessThanWellFounded, WFMin, Zenon
<1>2. \A m \in T : ~(m < n)
  BY <1>1 DEF OpToRel
<1>3. QED
  BY <1>2

\* A finite set of orders is what some ascending sequence goes through: the
\* place of an order is the number of those that are not younger.
LEMMA AscendingExists ==
    ASSUME NEW S \in SUBSET Nat, IsFiniteSet(S)
    PROVE  \E s \in [1 .. Cardinality(S) -> S] : Ascending(s)
<1> DEFINE n == Cardinality(S)
           UpTo(x) == {y \in S : y <= x}
           rank == [x \in S |-> Cardinality(UpTo(x))]
<1>1. n \in Nat
  BY FS_CardinalityType
<1>2. \A x \in S : IsFiniteSet(UpTo(x)) /\ rank[x] \in 1 .. n
  <2> TAKE x \in S
  <2>1. IsFiniteSet(UpTo(x)) /\ Cardinality(UpTo(x)) <= n
    BY FS_Subset
  <2>2. Cardinality(UpTo(x)) \in Nat /\ Cardinality(UpTo(x)) # 0
    BY <2>1, FS_CardinalityType, FS_EmptySet
  <2>3. QED
    BY <1>1, <2>1, <2>2
<1>3. \A x, y \in S : x < y => rank[x] < rank[y]
  <2> SUFFICES ASSUME NEW x \in S, NEW y \in S, x < y PROVE rank[x] < rank[y]
    OBVIOUS
  <2>1. UpTo(x) \in SUBSET UpTo(y) /\ UpTo(x) # UpTo(y)
    <3>1. x \in Nat /\ y \in Nat /\ \A z \in S : z \in Nat
      OBVIOUS
    <3>2. y \in UpTo(y) /\ y \notin UpTo(x)
      BY <3>1
    <3>3. \A z \in UpTo(x) : z \in UpTo(y)
      BY <3>1
    <3>4. QED
      BY <3>2, <3>3
  <2>2. Cardinality(UpTo(x)) <= Cardinality(UpTo(y))
    BY <1>2, <2>1, FS_Subset
  <2>3. Cardinality(UpTo(x)) # Cardinality(UpTo(y))
    BY <1>2, <2>1, FS_Subset
  <2>4. QED
    BY <1>2, <2>2, <2>3
<1> HIDE DEF rank
<1>4. rank \in [S -> 1 .. n]
  BY <1>2 DEF rank
<1>5. rank \in Injection(S, 1 .. n)
  BY <1>3, <1>4 DEF Injection, IsInjective
<1>6. rank \in Surjection(S, 1 .. n)
  <2>1. IsFiniteSet(1 .. n) /\ Cardinality(1 .. n) = n
    BY <1>1, FS_Interval
  <2>2. QED
    BY <1>5, <2>1, FS_Injection
<1> DEFINE s == [i \in 1 .. n |-> CHOOSE x \in S : rank[x] = i]
<1>7. \A i \in 1 .. n : s[i] \in S /\ rank[s[i]] = i
  BY <1>6 DEF Surjection
<1> HIDE DEF s
<1>8. s \in [1 .. n -> S]
  BY <1>7 DEF s
<1>9. Ascending(s)
  <2> SUFFICES ASSUME NEW i \in 1 .. n, NEW j \in 1 .. n, i < j PROVE s[i] < s[j]
    BY <1>8 DEF Ascending
  <2>1. s[i] \in S /\ s[j] \in S /\ rank[s[i]] = i /\ rank[s[j]] = j
    BY <1>7
  <2>2. i \in Nat /\ j \in Nat /\ s[i] \in Nat /\ s[j] \in Nat
    <3>1. i \in Nat /\ j \in Nat
      BY <1>1
    <3>2. \A x \in S : x \in Nat
      OBVIOUS
    <3>3. QED
      BY <2>1, <3>1, <3>2
  <2>3. ~(s[j] < s[i])
    BY <1>3, <2>1, <2>2
  <2>4. s[i] # s[j]
    BY <2>1, <2>2
  <2>5. QED
    BY <2>2, <2>3, <2>4
<1>10. QED
  BY <1>8, <1>9

\* What the shop's answer is: its orders, the oldest first.
LEMMA OldestFirstAscends ==
    ASSUME NEW S \in SUBSET Orders
    PROVE  /\ OldestFirst(S) \in Seq(S)
           /\ Ascending(OldestFirst(S))
<1>1. IsFiniteSet(S) /\ S \in SUBSET Nat
  BY OrdersAssumption, FS_Subset
<1>2. /\ OldestFirst(S) \in [1 .. Cardinality(S) -> S]
      /\ Ascending(OldestFirst(S))
  BY <1>1, AscendingExists DEF OldestFirst
<1>3. Cardinality(S) \in Nat
  BY <1>1, FS_CardinalityType
<1>4. QED
  BY <1>2, <1>3

\* Turned around, it is in the order the screen sorts by.
LEMMA ReverseDescends ==
    ASSUME NEW S \in SUBSET Nat, NEW s \in Seq(S), Ascending(s)
    PROVE  Reverse(s) \in Seq(S) /\ Descending(Reverse(s))
<1>1. Reverse(s) \in [1 .. Len(s) -> S]
  BY DEF Reverse
<1>2. ASSUME NEW i \in 1 .. Len(s), NEW j \in 1 .. Len(s), i < j
      PROVE  Reverse(s)[i] > Reverse(s)[j]
  <2>1. /\ Len(s) - i + 1 \in 1 .. Len(s) /\ Len(s) - j + 1 \in 1 .. Len(s)
        /\ Len(s) - j + 1 < Len(s) - i + 1
    BY <1>2
  <2>2. s[Len(s) - j + 1] < s[Len(s) - i + 1]
    BY <2>1 DEF Ascending
  <2>3. s[Len(s) - j + 1] \in S /\ s[Len(s) - i + 1] \in S
    BY <2>1
  <2>4. QED
    BY <2>2, <2>3 DEF Reverse
<1>3. QED
  BY <1>1, <1>2 DEF Descending

\* A descending sequence goes through its members once.
LEMMA DescendingIsInjective ==
    ASSUME NEW n \in Nat, NEW S \in SUBSET Nat
    PROVE  \A s \in [1 .. n -> S] :
             Descending(s) => \A i, j \in 1 .. n : s[i] = s[j] => i = j
<1> SUFFICES ASSUME NEW s \in [1 .. n -> S], Descending(s),
                    NEW i \in 1 .. n, NEW j \in 1 .. n, s[i] = s[j], i # j
             PROVE  FALSE
  OBVIOUS
<1>1. s[i] \in S /\ s[i] \in Nat /\ DOMAIN s = 1 .. n
  OBVIOUS
<1>2. i < j \/ j < i
  OBVIOUS
<1>3. s[i] > s[j] \/ s[j] > s[i]
  BY <1>1, <1>2 DEF Descending
<1>4. QED
  BY <1>1, <1>3

\* Two descending sequences of the same members are the same: at the first
\* index where they differ one of them lacks what the other has there.
LEMMA DescendingIsUnique ==
    ASSUME NEW n \in Nat, NEW S \in SUBSET Nat,
           NEW d \in [1 .. n -> S], Descending(d), \A x \in S : \E i \in 1 .. n : d[i] = x,
           NEW s \in [1 .. n -> S], Descending(s)
    PROVE  s = d
<1>0. \A t \in [1 .. n -> S] :
        Descending(t) => \A i, j \in 1 .. n : t[i] = t[j] => i = j
  BY DescendingIsInjective
<1> DEFINE D == {i \in 1 .. n : s[i] # d[i]}
<1> SUFFICES ASSUME D # {} PROVE FALSE
  OBVIOUS
<1>1. PICK i \in D : \A j \in D : i <= j
  <2>1. D \in SUBSET Nat
    OBVIOUS
  <2> HIDE DEF D
  <2>2. QED
    BY <2>1, Least
<1>2. i \in 1 .. n /\ s[i] # d[i] /\ s[i] \in Nat /\ d[i] \in Nat
  BY <1>1
<1>3. \A j \in 1 .. n : j < i => s[j] = d[j]
  BY <1>1
<1>4. \A x \in S : \E j \in 1 .. n : s[j] = x
  <2>1. d \in Injection(1 .. n, S) /\ d \in Surjection(1 .. n, S)
    <3>1. \A i1, i2 \in 1 .. n : d[i1] = d[i2] => i1 = i2
      BY <1>0
    <3>2. QED
      BY <3>1 DEF Injection, IsInjective, Surjection
  <2>2. IsFiniteSet(1 .. n)
    BY FS_Interval
  <2>3. IsFiniteSet(S) /\ Cardinality(1 .. n) = Cardinality(S)
    BY <2>1, <2>2, FS_Surjection
  <2>4. s \in Injection(1 .. n, S)
    <3>1. \A i1, i2 \in 1 .. n : s[i1] = s[i2] => i1 = i2
      BY <1>0
    <3>2. QED
      BY <3>1 DEF Injection, IsInjective
  <2>5. s \in Surjection(1 .. n, S)
    BY <2>3, <2>4, FS_Injection
  <2>6. QED
    BY <2>5 DEF Surjection
<1>5. \A j, k \in 1 .. n : (s[j] = s[k] => j = k) /\ (d[j] = d[k] => j = k)
  BY <1>0
<1>6. CASE s[i] > d[i]
  <2>1. PICK j \in 1 .. n : d[j] = s[i]
    BY <1>2
  <2>2. j < i
    BY <1>2, <1>6, <2>1 DEF Descending
  <2>3. QED
    BY <1>2, <1>3, <1>5, <2>1, <2>2
<1>7. CASE s[i] < d[i]
  <2>1. PICK j \in 1 .. n : s[j] = d[i]
    BY <1>2, <1>4
  <2>2. j < i
    BY <1>2, <1>7, <2>1 DEF Descending
  <2>3. QED
    BY <1>2, <1>3, <1>5, <2>1, <2>2
<1>8. QED
  BY <1>2, <1>6, <1>7

\* The chain asks in the order of transactionData: sorting what is sorted
\* changes nothing.
LEMMA SortedIsSame ==
    ASSUME NEW d \in Seq(Orders), Descending(d)
    PROVE  Sorted(d) = d
<1> DEFINE n == Len(d)
           S == ToSet(d)
<1>1. n \in Nat /\ DOMAIN d = 1 .. n /\ S \in SUBSET Nat
  <2>1. n \in Nat /\ DOMAIN d = 1 .. n /\ \A i \in 1 .. n : d[i] \in Orders
    OBVIOUS
  <2>2. \A x \in S : x \in Orders
    BY <2>1 DEF ToSet
  <2>3. QED
    BY <2>1, <2>2, OrdersAssumption
<1>2. d \in [1 .. n -> S] /\ \A x \in S : \E i \in 1 .. n : d[i] = x
  BY <1>1 DEF ToSet
<1>3. Sorted(d) \in [1 .. n -> S] /\ Descending(Sorted(d))
  BY <1>1, <1>2 DEF Sorted
<1> HIDE DEF n, S
<1>4. QED
  BY <1>1, <1>2, <1>3, DescendingIsUnique

-----------------------------------------------------------------------------
(* Filtering.                                                              *)

\* Induction over the naturals, as a fact about sets of them.
LEMMA AllNaturals ==
    ASSUME NEW T \in SUBSET Nat, 0 \in T, \A n \in T : n + 1 \in T
    PROVE  \A n \in Nat : n \in T
<1> DEFINE Rest == Nat \ T
<1> SUFFICES ASSUME Rest # {} PROVE FALSE
  OBVIOUS
<1>1. Rest \in SUBSET Nat
  OBVIOUS
<1> HIDE DEF Rest
<1>2. PICK m \in Rest : \A k \in Rest : m <= k
  BY <1>1, Least
<1>3. m \in Nat \ {0} /\ m - 1 \notin Rest
  BY <1>1, <1>2 DEF Rest
<1>4. m - 1 \in T /\ m \notin T
  BY <1>2, <1>3 DEF Rest
<1>5. QED
  BY <1>3, <1>4

\* Filtering leaves answers that have arrived, and only those.
LEMMA FilteredArrived ==
    ASSUME NEW X, NEW g \in Seq(X), NEW f
    PROVE  Filtered(g, f) \in Seq(ToSet(g))
<1> DEFINE L == Len(g)
           R == ToSet(g)
           passes(n) == IF f \in {"all", g[n].status} THEN <<g[n]>> ELSE <<>>
           body(h, n) == IF n = 0 THEN <<>> ELSE h[n - 1] \o passes(n)
<1>1. L \in Nat /\ \A n \in 1 .. L : passes(n) \in Seq(R)
  <2>1. L \in Nat /\ \A n \in 1 .. L : g[n] \in R
    BY DEF ToSet
  <2>2. QED
    BY <2>1
<1> HIDE DEF L, R, passes
<1>0. \A h, n : body(h, n) = IF n = 0 THEN <<>> ELSE h[n - 1] \o passes(n)
  OBVIOUS
<1> HIDE DEF body
<1> DEFINE T == {n \in Nat : n <= L =>
                   \E h \in [0 .. n -> Seq(R)] : \A k \in 0 .. n : h[k] = body(h, k)}
<1>2. 0 \in T
  <2> DEFINE h == [k \in 0 .. 0 |-> <<>>]
  <2>1. h \in [0 .. 0 -> Seq(R)] /\ \A k \in 0 .. 0 : h[k] = body(h, k)
    BY <1>0
  <2>2. QED
    BY <2>1
<1>3. ASSUME NEW n \in T PROVE n + 1 \in T
  <2>0. n \in Nat /\ n + 1 \in Nat
    OBVIOUS
  <2> SUFFICES ASSUME n + 1 <= L
               PROVE  \E h \in [0 .. n + 1 -> Seq(R)] : \A k \in 0 .. n + 1 : h[k] = body(h, k)
    BY <2>0
  <2>1. n \in Nat /\ n <= L /\ n + 1 \in 1 .. L
    BY <1>1, <2>0
  <2>2. PICK h \in [0 .. n -> Seq(R)] : \A k \in 0 .. n : h[k] = body(h, k)
    BY <2>1
  <2> DEFINE e == [k \in 0 .. n + 1 |-> IF k = n + 1 THEN h[n] \o passes(n + 1) ELSE h[k]]
  <2>3. h[n] \o passes(n + 1) \in Seq(R)
    BY <1>1, <2>1
  <2>4. e \in [0 .. n + 1 -> Seq(R)]
    BY <2>1, <2>3
  <2>5. \A k \in 0 .. n + 1 : e[k] = body(e, k)
    <3> SUFFICES ASSUME NEW k \in 0 .. n + 1 PROVE e[k] = body(e, k)
      OBVIOUS
    <3>1. CASE k = n + 1
      <4>1. k # 0 /\ k - 1 = n /\ n \in 0 .. n + 1 /\ n # n + 1
        BY <2>1, <3>1
      <4>2. e[k] = h[n] \o passes(k) /\ e[n] = h[n]
        BY <3>1, <4>1
      <4>3. QED
        BY <1>0, <4>1, <4>2
    <3>2. CASE k # n + 1
      <4>1. k \in 0 .. n /\ (k # 0 => k - 1 \in 0 .. n /\ k - 1 # n + 1)
        BY <2>1, <3>2
      <4>2. e[k] = h[k] /\ (k # 0 => e[k - 1] = h[k - 1])
        BY <3>2, <4>1
      <4>3. QED
        BY <1>0, <2>2, <4>1, <4>2
    <3>3. QED
      BY <3>1, <3>2
  <2>6. QED
    BY <2>4, <2>5
<1>4. PICK h \in [0 .. L -> Seq(R)] : \A k \in 0 .. L : h[k] = body(h, k)
  <2>1. L \in T
    <3> HIDE DEF T
    <3>1. QED
      BY <1>1, <1>2, <1>3, AllNaturals DEF T
  <2>2. L <= L
    BY <1>1
  <2>3. QED
    BY <2>1, <2>2
<1> DEFINE first == CHOOSE p : p = [n \in 0 .. L |-> body(p, n)]
<1>5. first = [n \in 0 .. L |-> body(first, n)]
  <2>1. h = [n \in 0 .. L |-> body(h, n)]
    BY <1>4
  <2>2. QED
    BY <2>1
<1>6. Filtered(g, f) = first[L]
  BY DEF Filtered, L, passes, body
<1> HIDE DEF first
<1> DEFINE U == {n \in Nat : n <= L => first[n] \in Seq(R)}
<1>7. 0 \in U
  <2>1. 0 \in 0 .. L
    BY <1>1
  <2>2. first[0] = <<>>
    BY <1>0, <1>5, <2>1
  <2>3. <<>> \in Seq(R)
    OBVIOUS
  <2>4. QED
    BY <2>2, <2>3
<1>8. ASSUME NEW n \in U PROVE n + 1 \in U
  <2> SUFFICES ASSUME n + 1 <= L PROVE first[n + 1] \in Seq(R)
    OBVIOUS
  <2>1. n \in Nat /\ n <= L /\ n + 1 \in 1 .. L /\ first[n] \in Seq(R)
    BY <1>1
  <2>2. first[n + 1] = first[n] \o passes(n + 1)
    <3>1. n + 1 \in 0 .. L /\ n + 1 # 0 /\ (n + 1) - 1 = n
      BY <1>1, <2>1
    <3>2. first[n + 1] = body(first, n + 1)
      BY <1>5, <3>1
    <3>3. QED
      BY <1>0, <3>1, <3>2
  <2>3. QED
    BY <1>1, <2>1, <2>2
<1>9. L \in U
  <2> HIDE DEF U
  <2>1. QED
    BY <1>1, <1>7, <1>8, AllNaturals DEF U
<1>10. QED
  BY <1>1, <1>6, <1>9 DEF R

-----------------------------------------------------------------------------
(* Where the orders of a row come from.                                    *)

USE DEF table

\* The gateway has a status for every order in the sequence.
Known(s) == \A i \in DOMAIN s : status[s[i]] \in Statuses

\* Lists on the way are in the shop's order, the stored one is in the order
\* of the screen, and nothing is asked that the gateway never heard of.
InOrder ==
    /\ Descending(data)
    /\ \A o \in shop : status[o] \in Statuses
    /\ \A l \in Lists : lists[l][1] = "answer" => Ascending(lists[l][2]) /\ Known(lists[l][2])
    /\ \A c \in Chains : Known(chain[c].list) /\ (Working(c) => chain[c].at # 0)

\* Chains mix only when one begins while another is at work.
OneAtATime == ~mixed => \A c, d \in Chains : Working(c) /\ Working(d) => c = d

\* The chain at work goes through the stored list, and what it has received
\* is the beginning of it; an empty list takes the orders from under the
\* chain, and the list after that begins another.
Paired ==
    ~mixed /\ data # <<>> =>
        /\ \A c \in Chains : Working(c) => chain[c].list = data
        /\ \A i \in DOMAIN gate : gate[i].order \in ToSet(data)
        /\ ~skipped =>
            /\ Len(gate) <= Len(data)
            /\ \A i \in DOMAIN gate : gate[i].order = data[i]
            /\ \A c \in Chains : Working(c) => Len(gate) = chain[c].at - 1

\* The inductive invariant for the rows.
RowInv == Shaped /\ TypeOK /\ InOrder /\ OneAtATime /\ Paired

LEMMA RowsInitially == Init => RowInv
<1> SUFFICES ASSUME Init PROVE RowInv
  OBVIOUS
<1>1. /\ data = <<>> /\ gate = <<>> /\ rows = <<>> /\ skeleton /\ ~mixed
      /\ chain = [c \in Chains |-> Idle]
      /\ \A l \in Lists : lists[l] \in {<<"free">>, <<"sent">>}
      /\ lists = [l \in Lists |-> lists[l]]
  BY DEF Init
<1>2. Shaped
  BY <1>1 DEF Shaped, Idle
<1>3. TypeOK
  <2>1. \A c \in Chains : chain[c].list \in Seq(Orders) /\ chain[c].at \in 0 .. Len(chain[c].list)
    <3>1. <<>> \in Seq(Orders) /\ Len(<<>>) = 0
      OBVIOUS
    <3>2. \A c \in Chains : chain[c].list = <<>> /\ chain[c].at = 0
      BY <1>1 DEF Idle
    <3>3. ASSUME NEW c \in Chains
          PROVE  chain[c].list \in Seq(Orders) /\ Len(chain[c].list) = 0
      BY <3>1, <3>2
    <3>4. QED
      BY <3>2, <3>3
  <2>2. status \in [Orders -> Statuses \cup {"none"}] /\ shop \subseteq Orders
    BY DEF Init, Statuses
  <2>3. top \in [kind : {"none", "payment", "details"}, order : Orders \cup {None},
                 items : SUBSET Orders]
    BY DEF Init, NoTop
  <2>4. data \in Seq(Orders) /\ gate \in Seq(Answer) /\ rows \in Seq(Row)
    BY <1>1
  <2>5. \A l \in Lists : lists[l] \in {<<"free">>, <<"sent">>} \cup ({"answer"} \X Seq(Orders))
    BY <1>1
  <2>6. {listed, refreshing, skeleton, popup, mixed, skipped, listLost} \subseteq BOOLEAN
    BY DEF Init
  <2>7. /\ host \in {"profile", "home", "outer"}
        /\ place \in {"front", "behind", "covered", "gone"}
        /\ filter \in Statuses \cup {"all"}
    BY DEF Init
  <2>8. QED
    BY <2>1, <2>2, <2>3, <2>4, <2>5, <2>6, <2>7 DEF TypeOK
<1>4. InOrder
  <2>1. \A c \in Chains : ~Working(c) /\ Known(chain[c].list)
    BY <1>1 DEF Working, Known, Idle
  <2>2. Descending(data)
    BY <1>1 DEF Descending
  <2>3. \A o \in shop : status[o] \in Statuses
    BY DEF Init, Statuses
  <2>4. \A l \in Lists : lists[l][1] # "answer"
    BY <1>1
  <2>5. QED
    BY <2>1, <2>2, <2>3, <2>4 DEF InOrder
<1>5. OneAtATime /\ Paired
  BY <1>1 DEF OneAtATime, Paired, Working
<1>6. QED
  BY <1>2, <1>3, <1>4, <1>5 DEF RowInv

\* Rows are made of answers and orders.
LEMMA RowsTyped ==
    ASSUME NEW d \in Seq(Orders), NEW g \in Seq(Answer), NEW f
    PROVE  RowsOf(d, g, f) \in Seq(Row)
<1>1. Filtered(g, f) \in Seq(ToSet(g))
  BY FilteredArrived
<1>2. \A a \in ToSet(g) : a \in Answer
  BY DEF ToSet
<1> DEFINE answers == Filtered(g, f)
<1>3. Len(answers) \in Nat /\ \A i \in 1 .. Len(answers) : answers[i] \in Answer
  BY <1>1, <1>2
<1> HIDE DEF answers
<1> DEFINE made == [i \in 1 .. Len(answers) |->
                       [answer |-> answers[i], of |-> IF i <= Len(d) THEN d[i] ELSE None]]
<1>4. made \in Seq(Row)
  <2>1. \A i \in 1 .. Len(answers) :
          [answer |-> answers[i], of |-> IF i <= Len(d) THEN d[i] ELSE None] \in Row
    BY <1>3 DEF Row
  <2>2. QED
    BY <1>3, <2>1
<1>5. RowsOf(d, g, f) = IF d = <<>> THEN <<>> ELSE made
  BY DEF RowsOf, answers
<1>6. QED
  BY <1>4, <1>5

LEMMA ReloadTyped ==
    ASSUME RowInv, NEW reload, ReloadIf(reload), data' \in Seq(Orders), gate' \in Seq(Answer)
    PROVE  rows' \in Seq(Row) /\ listed' \in BOOLEAN
BY RowsTyped DEF ReloadIf, RowInv, TypeOK

\* What a step that leaves the chains and their arrays alone keeps.
LEMMA ArraysLeftAlone ==
    ASSUME RowInv, UNCHANGED <<chain, data, gate, mixed>>,
           skipped' = skipped \/ skipped'
    PROVE  /\ Descending(data') /\ OneAtATime' /\ Paired'
           /\ chain' = [c \in Chains |-> [list |-> chain'[c].list, at |-> chain'[c].at]]
           /\ \A c \in Chains : chain'[c].at \in Nat
BY DEF RowInv, Shaped, InOrder, OneAtATime, Paired, Working, Idle

\* An order that the gateway has heard of is not forgotten.
LEMMA StaysKnown ==
    ASSUME RowInv, UNCHANGED <<lists, chain, data>>, shop' \subseteq Orders,
           status' \in [Orders -> Statuses \cup {"none"}],
           \A o \in Orders : status[o] \in Statuses => status'[o] \in Statuses,
           \A o \in shop' : status'[o] \in Statuses
    PROVE  InOrder'
<1>1. ASSUME NEW s \in Seq(Orders), Known(s)
      PROVE  \A i \in DOMAIN s : status'[s[i]] \in Statuses
  BY <1>1 DEF Known
<1>2. ASSUME NEW l \in Lists, lists[l][1] = "answer"
      PROVE  \A i \in DOMAIN lists[l][2] : status'[lists[l][2][i]] \in Statuses
  <2>1. lists[l][2] \in Seq(Orders) /\ Known(lists[l][2])
    BY <1>2 DEF RowInv, TypeOK, InOrder
  <2>2. QED
    BY <1>1, <2>1
<1>3. ASSUME NEW c \in Chains
      PROVE  \A i \in DOMAIN chain[c].list : status'[chain[c].list[i]] \in Statuses
  <2>1. chain[c].list \in Seq(Orders) /\ Known(chain[c].list)
    BY DEF RowInv, TypeOK, InOrder
  <2>2. QED
    BY <1>1, <2>1
<1>4. QED
  BY <1>2, <1>3 DEF RowInv, InOrder, Known, Working

\* One request further: the chain is where it was plus one, or at its end.
LEMMA SteppedInList ==
    ASSUME RowInv, NEW c \in Chains, Working(c), Step(c)
    PROVE  /\ chain[c].at \in 1 .. Len(chain[c].list)
           /\ \A d \in Chains : /\ chain'[d].list \in Seq(Orders) /\ Known(chain'[d].list)
                                /\ chain'[d].at \in 0 .. Len(chain'[d].list)
                                /\ chain'[d] = [list |-> chain'[d].list, at |-> chain'[d].at]
           /\ chain' = [d \in Chains |-> chain'[d]]
           /\ \A d \in Chains : Working(d)' =>
                /\ Working(d) /\ chain'[d].list = chain[d].list /\ chain'[d].at # 0
                /\ d = c => chain'[d].at = chain[d].at + 1
<1>1. /\ chain[c].list \in Seq(Orders) /\ Known(chain[c].list)
      /\ chain[c].at \in 1 .. Len(chain[c].list)
  BY DEF RowInv, TypeOK, InOrder
<1>2. /\ chain = [d \in Chains |-> [list |-> chain[d].list, at |-> chain[d].at]]
      /\ \A d \in Chains : /\ chain[d].list \in Seq(Orders) /\ Known(chain[d].list)
                           /\ chain[d].at \in 0 .. Len(chain[d].list)
                           /\ Working(d) => chain[d].at # 0
  BY DEF RowInv, Shaped, TypeOK, InOrder
<1> DEFINE next == IF Ends(c) THEN Idle
                   ELSE [list |-> chain[c].list, at |-> chain[c].at + 1]
<1>3. chain' = [chain EXCEPT ![c] = next]
  BY DEF Step
<1>4. /\ next.list \in Seq(Orders) /\ Known(next.list) /\ next.at \in 0 .. Len(next.list)
      /\ next = [list |-> next.list, at |-> next.at]
      /\ next # Idle => /\ next.list = chain[c].list /\ next.at = chain[c].at + 1
                        /\ next.at # 0
  <2>1. CASE Ends(c)
    <3>1. <<>> \in Seq(Orders) /\ Len(<<>>) = 0 /\ Known(<<>>)
      BY DEF Known
    <3>2. next = Idle /\ next.list = <<>> /\ next.at = 0
      BY <2>1 DEF Idle
    <3>3. next = [list |-> next.list, at |-> next.at]
      BY <3>2 DEF Idle
    <3> HIDE DEF next
    <3>4. next.list \in Seq(Orders) /\ Known(next.list) /\ Len(next.list) = 0
      BY <3>1, <3>2
    <3>5. QED
      BY <3>2, <3>3, <3>4
  <2>2. CASE ~Ends(c)
    <3>1. chain[c].at + 1 \in 0 .. Len(chain[c].list) /\ chain[c].at + 1 # 0
      BY <1>1, <2>2 DEF Ends
    <3>2. next = [list |-> chain[c].list, at |-> chain[c].at + 1]
      BY <2>2
    <3>3. next.list = chain[c].list /\ next.at = chain[c].at + 1
      BY <3>2
    <3> HIDE DEF next
    <3>4. QED
      BY <1>1, <3>1, <3>2, <3>3
  <2>3. QED
    BY <2>1, <2>2
<1> HIDE DEF next
<1>5. \A d \in Chains : chain'[d] = IF d = c THEN next ELSE chain[d]
  BY <1>2, <1>3
<1>6. chain' = [d \in Chains |-> chain'[d]]
  BY <1>2, <1>3
<1>7. ASSUME NEW d \in Chains
      PROVE  /\ chain'[d].list \in Seq(Orders) /\ Known(chain'[d].list)
             /\ chain'[d].at \in 0 .. Len(chain'[d].list)
             /\ chain'[d] = [list |-> chain'[d].list, at |-> chain'[d].at]
  <2>1. chain[d] = [list |-> chain[d].list, at |-> chain[d].at]
    BY <1>2
  <2>2. CASE d = c
    BY <1>4, <1>5, <2>2
  <2>3. CASE d # c
    BY <1>2, <1>5, <2>1, <2>3
  <2>4. QED
    BY <2>2, <2>3
<1>8. ASSUME NEW d \in Chains, Working(d)'
      PROVE  /\ Working(d) /\ chain'[d].list = chain[d].list /\ chain'[d].at # 0
             /\ d = c => chain'[d].at = chain[d].at + 1
  <2>1. chain'[d] # Idle
    BY <1>8 DEF Working, Idle
  <2>2. CASE d = c
    BY <1>4, <1>5, <2>1, <2>2
  <2>3. CASE d # c
    BY <1>2, <1>5, <2>1, <2>3 DEF Working
  <2>4. QED
    BY <2>2, <2>3
<1>9. QED
  BY <1>1, <1>6, <1>7, <1>8

\* An answer of the chain at work is appended where its transaction is.
LEMMA AnswerIsPaired ==
    ASSUME RowInv, NEW c \in Chains, StatusAnswered(c)
    PROVE  RowInv'
<1> DEFINE o == chain[c].list[chain[c].at]
           a == [order |-> o, status |-> status[o]]
<1>1. Working(c) /\ Step(c) /\ gate' = Append(gate, a)
  BY DEF StatusAnswered, Advance, Received
<1>2. UNCHANGED <<shop, status, host, place, top, lists, data, filter, mixed, skipped, listLost>>
  BY DEF StatusAnswered, Advance, servers, history
<1>3. /\ chain[c].at \in 1 .. Len(chain[c].list)
      /\ \A d \in Chains : /\ chain'[d].list \in Seq(Orders) /\ Known(chain'[d].list)
                           /\ chain'[d].at \in 0 .. Len(chain'[d].list)
                           /\ chain'[d] = [list |-> chain'[d].list, at |-> chain'[d].at]
      /\ chain' = [d \in Chains |-> chain'[d]]
      /\ \A d \in Chains : Working(d)' =>
           /\ Working(d) /\ chain'[d].list = chain[d].list /\ chain'[d].at # 0
           /\ d = c => chain'[d].at = chain[d].at + 1
  BY <1>1, SteppedInList
<1>4. chain[c].list \in Seq(Orders) /\ Known(chain[c].list)
  BY DEF RowInv, TypeOK, InOrder
<1>5. o \in Orders /\ a \in Answer /\ a.order = o
  <2>1. o \in Orders /\ status[o] \in Statuses
    BY <1>3, <1>4 DEF Known
  <2>2. QED
    BY <2>1 DEF Answer
<1> HIDE DEF a
<1>6. /\ gate \in Seq(Answer) /\ gate' \in Seq(Answer) /\ data \in Seq(Orders)
      /\ Len(gate') = Len(gate) + 1 /\ gate'[Len(gate) + 1] = a
      /\ \A i \in 1 .. Len(gate) : gate'[i] = gate[i]
  BY <1>1, <1>5 DEF RowInv, TypeOK
<1>7. rows' \in Seq(Row) /\ listed' \in BOOLEAN
  BY <1>2, <1>6, ReloadTyped DEF StatusAnswered, Advance, RowInv, TypeOK
<1>8. Shaped'
  BY <1>2, <1>3 DEF RowInv, Shaped
<1>9. TypeOK'
  <2>1. {refreshing', skeleton', popup'} \subseteq BOOLEAN
    BY DEF RowInv, TypeOK, StatusAnswered, Advance
  <2>2. QED
    BY <1>2, <1>3, <1>6, <1>7, <2>1 DEF RowInv, TypeOK
<1>10. InOrder'
  BY <1>2, <1>3 DEF RowInv, InOrder, Known, Descending, Ascending
<1>11. OneAtATime'
  BY <1>2, <1>3 DEF RowInv, OneAtATime
<1>12. Paired'
  <2> SUFFICES ASSUME ~mixed, data # <<>> PROVE Paired'
    BY <1>2 DEF Paired
  <2>1. /\ chain[c].list = data
        /\ \A i \in DOMAIN gate : gate[i].order \in ToSet(data)
        /\ ~skipped => /\ Len(gate) = chain[c].at - 1
                       /\ \A i \in DOMAIN gate : gate[i].order = data[i]
    BY <1>1 DEF RowInv, Paired
  <2>2. \A d \in Chains : Working(d)' => chain'[d].list = data
    BY <1>3 DEF RowInv, Paired
  <2>3. \A d \in Chains : Working(d)' => d = c
    BY <1>1, <1>3 DEF RowInv, OneAtATime
  <2>4. o \in ToSet(data) /\ o = data[chain[c].at]
    BY <1>3, <1>6, <2>1 DEF ToSet
  <2>5. \A i \in DOMAIN gate' : gate'[i].order \in ToSet(data)
    BY <1>5, <1>6, <2>1, <2>4
  <2>6. ~skipped => /\ Len(gate') <= Len(data)
                    /\ \A i \in DOMAIN gate' : gate'[i].order = data[i]
                    /\ \A d \in Chains : Working(d)' => Len(gate') = chain'[d].at - 1
    <3> SUFFICES ASSUME ~skipped PROVE /\ Len(gate') <= Len(data)
                                       /\ \A i \in DOMAIN gate' : gate'[i].order = data[i]
                                       /\ \A d \in Chains : Working(d)' => Len(gate') = chain'[d].at - 1
      OBVIOUS
    <3>1. Len(gate') = chain[c].at /\ chain[c].at <= Len(data)
      BY <1>3, <1>6, <2>1
    <3>2. \A i \in DOMAIN gate' : gate'[i].order = data[i]
      BY <1>5, <1>6, <2>1, <2>4, <3>1
    <3>3. \A d \in Chains : Working(d)' => Len(gate') = chain'[d].at - 1
      BY <1>3, <2>3, <3>1
    <3>4. QED
      BY <3>1, <3>2, <3>3
  <2>7. QED
    BY <1>2, <2>2, <2>5, <2>6 DEF Paired
<1>13. QED
  BY <1>8, <1>9, <1>10, <1>11, <1>12 DEF RowInv

\* A failure is skipped: the answers that are there stay of orders in the list.
LEMMA FailureIsSkipped ==
    ASSUME RowInv, NEW c \in Chains, StatusFails(c)
    PROVE  RowInv'
<1>1. Working(c) /\ Step(c) /\ skipped' = TRUE
  BY DEF StatusFails, Advance
<1>2. UNCHANGED <<shop, status, host, place, top, lists, data, gate, filter, skeleton,
                  popup, mixed, listLost>>
  BY DEF StatusFails, Advance, servers
<1>3. /\ \A d \in Chains : /\ chain'[d].list \in Seq(Orders) /\ Known(chain'[d].list)
                           /\ chain'[d].at \in 0 .. Len(chain'[d].list)
                           /\ chain'[d] = [list |-> chain'[d].list, at |-> chain'[d].at]
      /\ chain' = [d \in Chains |-> chain'[d]]
      /\ \A d \in Chains : Working(d)' =>
           Working(d) /\ chain'[d].list = chain[d].list /\ chain'[d].at # 0
  BY <1>1, SteppedInList
<1>4. rows' \in Seq(Row) /\ listed' \in BOOLEAN
  BY <1>2, ReloadTyped DEF StatusFails, Advance, RowInv, TypeOK
<1>5. Shaped'
  BY <1>2, <1>3 DEF RowInv, Shaped
<1>6. TypeOK'
  <2>1. {refreshing', skipped'} \subseteq BOOLEAN
    BY DEF RowInv, TypeOK, StatusFails, Advance
  <2>2. QED
    BY <1>2, <1>3, <1>4, <2>1 DEF RowInv, TypeOK
<1>7. InOrder'
  BY <1>2, <1>3 DEF RowInv, InOrder, Known, Descending, Ascending
<1>8. OneAtATime' /\ Paired'
  BY <1>1, <1>2, <1>3 DEF RowInv, OneAtATime, Paired
<1>9. QED
  BY <1>5, <1>6, <1>7, <1>8 DEF RowInv

\* A list that arrives is stored in the order of the screen, and begins a
\* chain through it or, when it is empty, leaves the chain at work as it is.
LEMMA ListIsStored ==
    ASSUME RowInv, NEW l \in Lists, NEW c \in Chains, ListAnswered(l, c)
    PROVE  RowInv'
<1> DEFINE answer == lists[l][2]
<1>1. answer \in Seq(Orders) /\ Ascending(answer) /\ Known(answer)
  BY DEF ListAnswered, RowInv, TypeOK, InOrder
<1>2. /\ data' = Reverse(answer)
      /\ lists' = [lists EXCEPT ![l] = <<"free">>]
      /\ UNCHANGED <<shop, status, host, place, top, filter, listLost>>
  BY DEF ListAnswered, servers
<1> HIDE DEF answer
<1>3. data' \in Seq(Orders) /\ Descending(data') /\ Known(data')
  <2>1. data' \in Seq(Orders) /\ Descending(data')
    BY <1>1, <1>2, ReverseDescends, OrdersAssumption
  <2>2. \A i \in 1 .. Len(answer) : status[answer[i]] \in Statuses
    BY <1>1 DEF Known
  <2>3. /\ DOMAIN data' = 1 .. Len(answer)
        /\ \A i \in 1 .. Len(answer) : /\ Len(answer) - i + 1 \in 1 .. Len(answer)
                                       /\ data'[i] = answer[Len(answer) - i + 1]
    BY <1>1, <1>2 DEF Reverse
  <2>4. QED
    BY <2>1, <2>2, <2>3 DEF Known
<1>4. /\ lists = [m \in Lists |-> lists[m]]
      /\ \A m \in Lists : /\ lists[m] \in {<<"free">>, <<"sent">>} \cup ({"answer"} \X Seq(Orders))
                          /\ lists[m][1] = "answer" => Ascending(lists[m][2]) /\ Known(lists[m][2])
  BY DEF RowInv, Shaped, TypeOK, InOrder
<1>5. /\ lists' = [m \in Lists |-> lists'[m]]
      /\ \A m \in Lists : /\ lists'[m] \in {<<"free">>, <<"sent">>} \cup ({"answer"} \X Seq(Orders))
                          /\ lists'[m][1] = "answer" => Ascending(lists'[m][2]) /\ Known(lists'[m][2])
  <2>1. \A m \in Lists : lists'[m] = IF m = l THEN <<"free">> ELSE lists[m]
    BY <1>2, <1>4
  <2>2. <<"free">>[1] # "answer"
    OBVIOUS
  <2>3. QED
    BY <1>2, <1>4, <2>1, <2>2
<1>6. CASE /\ data' = <<>> /\ popup' = FALSE /\ skeleton' = FALSE /\ refreshing' = FALSE
           /\ UNCHANGED <<gate, chain, mixed, skipped>>
           /\ ReloadIf(skeleton)
  <2>1. rows' \in Seq(Row) /\ listed' \in BOOLEAN
    BY <1>3, <1>6, ReloadTyped DEF RowInv, TypeOK
  <2>2. Shaped' /\ TypeOK'
    BY <1>2, <1>3, <1>5, <1>6, <2>1 DEF RowInv, Shaped, TypeOK
  <2>3. InOrder'
    BY <1>2, <1>3, <1>5, <1>6 DEF RowInv, InOrder, Known, Working
  <2>4. OneAtATime' /\ Paired'
    BY <1>6 DEF RowInv, OneAtATime, Paired, Working
  <2>5. QED
    BY <2>2, <2>3, <2>4 DEF RowInv
<1>7. CASE data' # <<>> /\ StartChain(c) /\ UNCHANGED <<lookouts, table>>
  <2> DEFINE first == [list |-> data', at |-> 1]
  <2>1. chain' = [chain EXCEPT ![c] = first] /\ gate' = <<>> /\ ~skipped'
    BY <1>3, <1>7, SortedIsSame DEF StartChain
  <2>2. mixed' = \E other \in Chains : Working(other)
    BY <1>7 DEF StartChain
  <2>3. /\ chain = [d \in Chains |-> [list |-> chain[d].list, at |-> chain[d].at]]
        /\ \A d \in Chains : /\ chain[d].list \in Seq(Orders) /\ Known(chain[d].list)
                             /\ chain[d].at \in 0 .. Len(chain[d].list)
                             /\ Working(d) => chain[d].at # 0
    BY DEF RowInv, Shaped, TypeOK, InOrder
  <2>4. \A d \in Chains : chain'[d] = IF d = c THEN first ELSE chain[d]
    BY <2>1, <2>3
  <2>5. first.list = data' /\ first.at = 1 /\ first = [list |-> first.list, at |-> first.at]
    OBVIOUS
  <2>6. Len(data') # 0 /\ Len(data') \in Nat
    BY <1>3, <1>7
  <2> HIDE DEF first
  <2>7. \A d \in Chains : /\ chain'[d].list \in Seq(Orders) /\ Known(chain'[d].list)
                          /\ chain'[d].at \in 0 .. Len(chain'[d].list)
                          /\ chain'[d] = [list |-> chain'[d].list, at |-> chain'[d].at]
    <3> TAKE d \in Chains
    <3>1. CASE d = c
      BY <1>3, <2>4, <2>5, <2>6, <3>1
    <3>2. CASE d # c
      <4>1. chain[d] = [list |-> chain[d].list, at |-> chain[d].at]
        BY <2>3
      <4>2. QED
        BY <2>3, <2>4, <3>2, <4>1
    <3>3. QED
      BY <3>1, <3>2
  <2>8. chain' = [d \in Chains |-> chain'[d]]
    BY <2>1, <2>3
  <2>9. \A d \in Chains : Working(d)' => IF d = c THEN chain'[d].at = 1 ELSE Working(d)
    BY <2>4, <2>5 DEF Working, Idle
  <2>10. Shaped'
    BY <1>5, <2>7, <2>8 DEF Shaped
  <2>11. TypeOK'
    <3>1. mixed' \in BOOLEAN
      BY <2>2, Zenon
    <3>2. <<>> \in Seq(Answer)
      OBVIOUS
    <3>3. gate' \in Seq(Answer)
      BY <2>1, <3>2
    <3>4. skipped' \in BOOLEAN
      BY <1>7 DEF StartChain
    <3>5. QED
      BY <1>2, <1>3, <1>5, <1>7, <2>7, <3>1, <3>3, <3>4 DEF RowInv, TypeOK, lookouts
  <2>12. InOrder'
    <3>1. ASSUME NEW d \in Chains, Working(d)' PROVE chain'[d].at # 0
      <4>1. CASE d = c
        BY <2>9, <3>1, <4>1
      <4>2. CASE d # c
        BY <2>3, <2>4, <2>9, <3>1, <4>2
      <4>3. QED
        BY <4>1, <4>2
    <3>2. QED
      BY <1>2, <1>3, <1>5, <2>7, <3>1 DEF RowInv, InOrder, Known
  <2>13. OneAtATime'
    BY <2>2, <2>9 DEF OneAtATime
  <2>14. Paired'
    <3> SUFFICES ASSUME ~mixed' PROVE Paired'
      BY DEF Paired
    <3>1. \A d \in Chains : Working(d)' => d = c /\ chain'[d].at = 1 /\ chain'[d].list = data'
      BY <2>2, <2>4, <2>5, <2>9
    <3>2. Len(gate') = 0 /\ DOMAIN gate' = {}
      BY <2>1
    <3>3. QED
      BY <2>6, <3>1, <3>2 DEF Paired
  <2>15. QED
    BY <2>10, <2>11, <2>12, <2>13, <2>14 DEF RowInv
<1>8. QED
  BY <1>6, <1>7 DEF ListAnswered

-----------------------------------------------------------------------------
(* Every step.                                                             *)

LEMMA RowsPreserved == RowInv /\ [Next]_vars => RowInv'
<1> SUFFICES ASSUME RowInv, [Next]_vars PROVE RowInv'
  OBVIOUS
<1>1. ASSUME NEW o \in Orders, Placed(o) \/ Deleted(o) \/ Settle(o) PROVE RowInv'
  <2>1. UNCHANGED <<host, place, top, lists, chain, data, gate, filter, table,
                    lookouts, history>>
    BY <1>1 DEF Placed, Deleted, Settle
  <2>2. /\ shop \subseteq Orders /\ status \in [Orders -> Statuses \cup {"none"}]
        /\ \A p \in shop : status[p] \in Statuses
    BY DEF RowInv, TypeOK, InOrder
  <2>3. /\ shop' \subseteq Orders /\ status' \in [Orders -> Statuses \cup {"none"}]
        /\ \A p \in Orders : status[p] \in Statuses => status'[p] \in Statuses
        /\ \A p \in shop' : status'[p] \in Statuses
    <3>1. CASE Placed(o)
      <4>1. /\ shop' = shop \cup {o}
            /\ \A p \in Orders : status'[p] = IF p = o THEN "pending" ELSE status[p]
            /\ status' \in [Orders -> Statuses \cup {"none"}]
        BY <2>2, <3>1 DEF Placed, Statuses
      <4>2. QED
        BY <2>2, <4>1 DEF Statuses
    <3>2. CASE Deleted(o)
      BY <2>2, <3>2 DEF Deleted
    <3>3. CASE Settle(o)
      BY <2>2, <3>3 DEF Settle, Statuses
    <3>4. QED
      BY <1>1, <3>1, <3>2, <3>3
  <2>4. InOrder'
    BY <2>1, <2>3, StaysKnown
  <2>5. Shaped' /\ OneAtATime' /\ Paired'
    BY <2>1, ArraysLeftAlone DEF history, RowInv, Shaped
  <2>6. TypeOK'
    BY <2>1, <2>3 DEF RowInv, TypeOK, lookouts, history
  <2>7. QED
    BY <2>4, <2>5, <2>6 DEF RowInv
<1>2. ASSUME NEW l \in Lists,
             \/ ShopLists(l)
             \/ ListFails(l)
             \/ Refresh(l)
      PROVE  RowInv'
  <2>1. /\ UNCHANGED <<shop, status, host, place, top, chain, data, gate, filter, table,
                       skeleton, popup, mixed, skipped>>
        /\ refreshing' \in BOOLEAN /\ listLost' \in BOOLEAN
    BY <1>2 DEF ShopLists, ListFails, Refresh, servers, lookouts, history, RowInv, TypeOK
  <2>2. OldestFirst(shop) \in Seq(Orders) /\ Ascending(OldestFirst(shop)) /\ Known(OldestFirst(shop))
    <3>1. shop \in SUBSET Orders /\ \A o \in shop : status[o] \in Statuses
      BY DEF RowInv, TypeOK, InOrder
    <3>2. OldestFirst(shop) \in Seq(shop) /\ Ascending(OldestFirst(shop))
      BY <3>1, OldestFirstAscends
    <3>3. QED
      BY <3>1, <3>2 DEF Known
  <2>3. PICK v \in {<<"free">>, <<"sent">>, <<"answer", OldestFirst(shop)>>} :
          lists' = [lists EXCEPT ![l] = v]
    BY <1>2 DEF ShopLists, ListFails, Refresh
  <2>4. /\ v \in {<<"free">>, <<"sent">>} \cup ({"answer"} \X Seq(Orders))
        /\ v[1] = "answer" => Ascending(v[2]) /\ Known(v[2])
    BY <2>2
  <2>5. /\ lists = [m \in Lists |-> lists[m]]
        /\ \A m \in Lists : /\ lists[m] \in {<<"free">>, <<"sent">>} \cup ({"answer"} \X Seq(Orders))
                            /\ lists[m][1] = "answer" => Ascending(lists[m][2]) /\ Known(lists[m][2])
    BY DEF RowInv, Shaped, TypeOK, InOrder
  <2>6. /\ lists' = [m \in Lists |-> lists'[m]]
        /\ \A m \in Lists : /\ lists'[m] \in {<<"free">>, <<"sent">>} \cup ({"answer"} \X Seq(Orders))
                            /\ lists'[m][1] = "answer" => Ascending(lists'[m][2]) /\ Known(lists'[m][2])
    <3>1. \A m \in Lists : lists'[m] = IF m = l THEN v ELSE lists[m]
      BY <2>3, <2>5
    <3>2. QED
      BY <2>3, <2>4, <2>5, <3>1
  <2>7. Descending(data') /\ OneAtATime' /\ Paired'
    BY <2>1, ArraysLeftAlone
  <2>8. Shaped' /\ TypeOK'
    BY <2>1, <2>6 DEF RowInv, Shaped, TypeOK
  <2>9. InOrder'
    BY <2>1, <2>6, <2>7 DEF RowInv, InOrder, Known, Working
  <2>10. QED
    BY <2>7, <2>8, <2>9 DEF RowInv
<1>3. ASSUME NEW l \in Lists, NEW c \in Chains, ListAnswered(l, c) PROVE RowInv'
  BY <1>3, ListIsStored
<1>4. ASSUME NEW c \in Chains, StatusAnswered(c) PROVE RowInv'
  BY <1>4, AnswerIsPaired
<1>5. ASSUME NEW c \in Chains, StatusFails(c) PROVE RowInv'
  BY <1>5, FailureIsSkipped
<1>6. ASSUME UNCHANGED <<servers, lists, chain, data, gate, history>>,
             top' \in [kind : {"none", "payment", "details"}, order : Orders \cup {None},
                       items : SUBSET Orders],
             place' \in {"front", "behind", "covered", "gone"},
             filter' \in Statuses \cup {"all"}, rows' \in Seq(Row),
             {listed', popup'} \subseteq BOOLEAN,
             UNCHANGED <<host, refreshing, skeleton>>
      PROVE  RowInv'
  <2>1. UNCHANGED <<shop, status, mixed, skipped, listLost, lists, chain, data, gate>>
    BY <1>6 DEF servers, history
  <2>2. OneAtATime' /\ Paired' /\ Shaped'
    BY <2>1, ArraysLeftAlone DEF RowInv, Shaped
  <2>3. InOrder'
    BY <2>1, StaysKnown DEF RowInv, TypeOK, InOrder
  <2>4. TypeOK'
    BY <1>6, <2>1 DEF RowInv, TypeOK
  <2>5. QED
    BY <2>2, <2>3, <2>4 DEF RowInv
<1>7. ASSUME (\E f \in Statuses \cup {"all"} : Filter(f)) \/ FilterOnOff PROVE RowInv'
  <2>1. /\ UNCHANGED <<servers, host, place, top, lists, chain, data, gate, lookouts, history>>
        /\ filter' \in Statuses \cup {"all"} /\ ReloadIf(TRUE)
    BY <1>7 DEF Filter, FilterOnOff, RowInv, TypeOK
  <2>2. rows' \in Seq(Row) /\ listed' \in BOOLEAN
    BY <2>1, ReloadTyped DEF RowInv, TypeOK
  <2>3. QED
    BY <1>6, <2>1, <2>2 DEF lookouts, RowInv, TypeOK
<1>8. ASSUME NEW i \in 1 .. Len(rows), Open(i) PROVE RowInv'
  <2> DEFINE answers == Filtered(gate, filter)
             a == answers[i]
  <2>1. answers \in Seq(Answer)
    <3>1. answers \in Seq(ToSet(gate)) /\ gate \in Seq(Answer)
      BY FilteredArrived DEF RowInv, TypeOK
    <3> HIDE DEF answers
    <3>2. \A x \in ToSet(gate) : x \in Answer
      BY <3>1 DEF ToSet
    <3>3. QED
      BY <3>1, <3>2
  <2>2. a.order \in Orders
    <3>1. i \in 1 .. Len(answers)
      BY <1>8, <2>1 DEF Open
    <3> HIDE DEF answers
    <3>2. answers[i] \in Answer
      BY <2>1, <3>1
    <3>3. QED
      BY <3>2 DEF Answer
  <2>3. ItemsOf(data, a.order) \in SUBSET Orders
    BY DEF ItemsOf, ToSet, RowInv, TypeOK
  <2>4. top' = IF a.status = "pending"
               THEN [kind |-> "payment", order |-> a.order, items |-> {}]
               ELSE [kind |-> "details", order |-> a.order, items |-> ItemsOf(data, a.order)]
    BY <1>8 DEF Open
  <2> HIDE DEF a
  <2>5. top' \in [kind : {"none", "payment", "details"}, order : Orders \cup {None},
                  items : SUBSET Orders]
    BY <2>2, <2>3, <2>4
  <2>6. QED
    BY <1>6, <1>8, <2>5 DEF Open, lookouts, RowInv, TypeOK
<1>9. CASE Return \/ Gone
  BY <1>6, <1>9 DEF Return, Gone, NoTop, lookouts, RowInv, TypeOK
<1>10. CASE Back
  BY <1>6, <1>10 DEF Back, RowInv, TypeOK
<1>11. CASE UNCHANGED vars
  BY <1>6, <1>11 DEF vars, servers, history, RowInv, TypeOK
<1>12. QED
  BY <1>1, <1>2, <1>3, <1>4, <1>5, <1>7, <1>8, <1>9, <1>10, <1>11 DEF Next

\* How the orders of the rows and the transactions below them are matched is
\* an invariant of every interleaving of refreshes, answers and failures.
THEOREM RowsInductive == Spec => []RowInv
<1>1. QED
  BY RowsInitially, RowsPreserved, PTL DEF Spec

\* TypeOK: what arrives is stored and shown with its type, and no chain asks
\* for an order that was never placed.
THEOREM TypeCorrect == Spec => []TypeOK
<1>1. RowInv => TypeOK
  BY DEF RowInv
<1>2. QED
  BY <1>1, RowsInductive, PTL

\* RowsAreOwn: gate[i] and data[i], which make one row, are of one order
\* unless a status request failed or two chains mixed their answers.
THEOREM RowsPairTheirOwn == Spec => []RowsAreOwn
<1>1. RowInv => RowsAreOwn
  <2> SUFFICES ASSUME RowInv, ~mixed, ~skipped, NEW i \in DOMAIN gate, i <= Len(data)
               PROVE  gate[i].order = data[i]
    BY DEF RowsAreOwn
  <2>1. gate \in Seq(Answer) /\ data \in Seq(Orders)
    BY DEF RowInv, TypeOK
  <2>2. i \in Nat /\ i # 0
    BY <2>1
  <2>3. data # <<>>
    BY <2>1, <2>2
  <2>4. QED
    BY <2>3 DEF RowInv, Paired
<1>2. QED
  BY <1>1, RowsInductive, PTL

-----------------------------------------------------------------------------
(* The details page.                                                       *)

\* What a row opens is found in the list the page is given.
LEMMA OpenedIsListed ==
    ASSUME RowInv, NEW i \in 1 .. Len(rows), Open(i), ~mixed, data # <<>>,
           top'.kind = "details"
    PROVE  top'.items # {}
<1> DEFINE answers == Filtered(gate, filter)
           a == answers[i]
<1>1. answers \in Seq(ToSet(gate)) /\ gate \in Seq(Answer)
  BY FilteredArrived DEF RowInv, TypeOK
<1>2. i \in 1 .. Len(answers)
  BY <1>1 DEF Open
<1>3. top' = IF a.status = "pending"
             THEN [kind |-> "payment", order |-> a.order, items |-> {}]
             ELSE [kind |-> "details", order |-> a.order, items |-> ItemsOf(data, a.order)]
  BY DEF Open
<1>4. a \in ToSet(gate)
  <2> HIDE DEF answers
  <2>1. QED
    BY <1>1, <1>2
<1> HIDE DEF a
<1>5. PICK j \in DOMAIN gate : gate[j] = a
  BY <1>4 DEF ToSet
<1>6. a.order \in ToSet(data)
  BY <1>5 DEF RowInv, Paired
<1>7. top'.items = ItemsOf(data, a.order)
  BY <1>3
<1>8. QED
  BY <1>6, <1>7 DEF ItemsOf

\* Nothing but a row opens the details.
LEMMA OnlyOpenOpens ==
    ASSUME [Next]_vars, top'.kind = "details", top.kind # "details"
    PROVE  \E i \in 1 .. Len(rows) : Open(i)
<1>1. UNCHANGED top \/ top' = NoTop \/ \E i \in 1 .. Len(rows) : Open(i)
  <2>1. ASSUME NEW o \in Orders, Placed(o) \/ Deleted(o) \/ Settle(o) PROVE UNCHANGED top
    BY <2>1 DEF Placed, Deleted, Settle
  <2>2. ASSUME NEW l \in Lists, ShopLists(l) \/ ListFails(l) \/ Refresh(l) PROVE UNCHANGED top
    BY <2>2 DEF ShopLists, ListFails, Refresh
  <2>3. ASSUME NEW l \in Lists, NEW c \in Chains, ListAnswered(l, c) PROVE UNCHANGED top
    BY <2>3 DEF ListAnswered
  <2>4. ASSUME NEW c \in Chains, StatusAnswered(c) \/ StatusFails(c) PROVE UNCHANGED top
    BY <2>4 DEF StatusAnswered, StatusFails
  <2>5. ASSUME (\E f \in Statuses \cup {"all"} : Filter(f)) \/ FilterOnOff PROVE UNCHANGED top
    BY <2>5 DEF Filter, FilterOnOff
  <2>6. CASE Return \/ Back \/ Gone \/ UNCHANGED vars
    BY <2>6 DEF Return, Back, Gone, vars
  <2>7. QED
    BY <2>1, <2>2, <2>3, <2>4, <2>5, <2>6 DEF Next
<1>2. QED
  BY <1>1 DEF NoTop

\* DetailsHaveItems: the details page opened from a row finds the items of its
\* order in the list of transactions it was given, unless two chains mixed their
\* answers or a refresh found no transactions any more and left the row.
THEOREM DetailsAreFound == Spec => DetailsHaveItems
<1>1. RowInv /\ [Next]_vars =>
        [top'.kind = "details" /\ top.kind # "details" /\ ~mixed
           => top'.items # {} \/ data = <<>>]_vars
  BY OpenedIsListed, OnlyOpenOpens
<1>2. QED
  BY <1>1, RowsInductive, PTL DEF Spec, DetailsHaveItems
=============================================================================
