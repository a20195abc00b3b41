----------------------------- MODULE YourOrders -----------------------------
(***************************************************************************)
(* The screen of the user's orders.  It asks the shop for the list of      *)
(* transactions and then the gateway for the status of one after another:  *)
(* a chain of requests.  Answers are appended to an array of their own,    *)
(* and a row puts the answer and the transaction of one index together.    *)
(* A refresh starts over while an earlier chain goes on.                   *)
(*                                                                         *)
(* Orders are numbers, in the order they were placed: a payment id is the  *)
(* time to the second.  The shop lists them oldest first.  All rows of the *)
(* table are taken to be visible.                                          *)
(***************************************************************************)
EXTENDS Integers, Sequences, FiniteSets, SequencesExt

CONSTANTS
    Orders,       \* the user's orders
    Lists,        \* bound: requests of the list in flight
    Chains,       \* bound: chains at work
    None          \* no order

ASSUME OrdersAssumption ==
    Orders \subseteq Nat /\ IsFiniteSet(Orders) /\ None \notin Orders

VARIABLES
    shop,         \* orders the shop has
    status,       \* of each order at the gateway, "none" before it is placed
    host,         \* the navigation controller the screen is in
    place,        \* the screen: front, behind, covered, gone
    top,          \* the screen opened from a row
    lists,        \* each list request: free, sent, or the answer on its way
    chain,        \* each chain: the orders it goes through and where it is
    data,         \* transactionData
    gate,         \* paymentGateData
    filter,       \* selectedFilter, "all" for nil
    rows,         \* what the table shows since its last reload
    listed,       \* there were transactions at its last reload
    refreshing, skeleton, popup,
    \* History.
    mixed,        \* a chain began while another was at work
    skipped,      \* a status request failed
    listLost      \* the list failed since the last refresh

servers == <<shop, status>>
table == <<rows, listed>>
lookouts == <<refreshing, skeleton, popup>>
history == <<mixed, skipped, listLost>>
vars == <<shop, status, host, place, top, lists, chain, data, gate, filter, table,
          refreshing, skeleton, popup, mixed, skipped, listLost>>

Statuses == {"pending", "settlement"}
Answer == [order : Orders, status : Statuses]
Row == [answer : Answer, of : Orders \cup {None}]
Idle == [list |-> <<>>, at |-> 0]
Working(c) == chain[c] # Idle
Alive == place # "gone"

TypeOK ==
    /\ shop \subseteq Orders /\ status \in [Orders -> Statuses \cup {"none"}]
    /\ host \in {"profile", "home", "outer"}
    /\ place \in {"front", "behind", "covered", "gone"}
    /\ top \in [kind : {"none", "payment", "details"}, order : Orders \cup {None},
                items : SUBSET Orders]
    /\ \A l \in Lists : lists[l] \in {<<"free">>, <<"sent">>} \cup ({"answer"} \X Seq(Orders))
    /\ \A c \in Chains : /\ chain[c].list \in Seq(Orders)
                         /\ chain[c].at \in 0 .. Len(chain[c].list)
    /\ data \in Seq(Orders) /\ gate \in Seq(Answer)
    /\ filter \in Statuses \cup {"all"} /\ rows \in Seq(Row)
    /\ {listed, refreshing, skeleton, popup, mixed, skipped, listLost} \subseteq BOOLEAN

NoTop == [kind |-> "none", order |-> None, items |-> {}]

\* viewDidLoad.
Init ==
    /\ shop \in SUBSET Orders
    /\ status = [o \in Orders |-> IF o \in shop THEN "pending" ELSE "none"]
    /\ host \in {"profile", "home", "outer"} /\ place = "front" /\ top = NoTop
    /\ \E l \in Lists : lists = [m \in Lists |-> IF m = l THEN <<"sent">> ELSE <<"free">>]
    /\ chain = [c \in Chains |-> Idle]
    /\ data = <<>> /\ gate = <<>> /\ filter = "all" /\ rows = <<>> /\ listed = FALSE
    /\ refreshing = FALSE /\ skeleton = TRUE /\ popup = TRUE
    /\ mixed = FALSE /\ skipped = FALSE /\ listLost = FALSE

-----------------------------------------------------------------------------
(* The servers.                                                            *)

\* Bought on this device, in another tab, or on another one.
Placed(o) ==
    /\ \A p \in Orders : p >= o => status[p] = "none"
    /\ shop' = shop \cup {o}
    /\ status' = [status EXCEPT ![o] = "pending"]
    /\ UNCHANGED <<host, place, top, lists, chain, data, gate, filter, table,
                   lookouts, history>>

Deleted(o) ==
    /\ o \in shop
    /\ shop' = shop \ {o}
    /\ UNCHANGED <<status, host, place, top, lists, chain, data, gate, filter, table,
                   lookouts, history>>

Settle(o) ==
    /\ status[o] = "pending"
    /\ status' = [status EXCEPT ![o] = "settlement"]
    /\ UNCHANGED <<shop, host, place, top, lists, chain, data, gate, filter, table,
                   lookouts, history>>

Ascending(s) == \A i, j \in DOMAIN s : i < j => s[i] < s[j]
Descending(s) == \A i, j \in DOMAIN s : i < j => s[i] > s[j]

OldestFirst(S) == CHOOSE s \in [1 .. Cardinality(S) -> S] : Ascending(s)

ShopLists(l) ==
    /\ lists[l] = <<"sent">>
    /\ lists' = [lists EXCEPT ![l] = <<"answer", OldestFirst(shop)>>]
    /\ UNCHANGED <<servers, host, place, top, chain, data, gate, filter, table,
                   lookouts, history>>

-----------------------------------------------------------------------------
(* The table.                                                              *)

\* filteredData; passed[n] is what is left of the first n answers.
Filtered(g, f) ==
    LET passed[n \in 0 .. Len(g)] ==
            IF n = 0 THEN <<>>
            ELSE passed[n - 1] \o (IF f \in {"all", g[n].status} THEN <<g[n]>> ELSE <<>>)
    IN  passed[Len(g)]

\* numberOfRowsInSection and cellForRowAt: answer and transaction of one index.
RowsOf(d, g, f) ==
    LET answers == Filtered(g, f) IN
    IF d = <<>> THEN <<>>
    ELSE [i \in 1 .. Len(answers) |->
            [answer |-> answers[i], of |-> IF i <= Len(d) THEN d[i] ELSE None]]

\* reloadData, and hideSkeleton when a skeleton is shown.
ReloadIf(reload) ==
    /\ rows' = IF reload THEN RowsOf(data', gate', filter') ELSE rows
    /\ listed' = IF reload THEN data' # <<>> ELSE listed

-----------------------------------------------------------------------------
(* The list.                                                               *)

\* sorted { $0.paymentId > $1.paymentId }; no order is twice in the list.
Sorted_OldestFirst(d) == CHOOSE s \in [DOMAIN d -> ToSet(d)] : Ascending(s)
Sorted(d) == CHOOSE s \in [DOMAIN d -> ToSet(d)] : Descending(s)

\* fetchPaymentGateData
StartChain_KeepsAnswers(c) ==
    /\ gate' = gate
    /\ chain' = [chain EXCEPT ![c] = [list |-> Sorted(data'), at |-> 1]]
    /\ mixed' = (\E other \in Chains : Working(other))
    /\ skipped' = FALSE

StartChain(c) ==
    /\ gate' = <<>>
    /\ chain' = [chain EXCEPT ![c] = [list |-> Sorted(data'), at |-> 1]]
    /\ mixed' = (\E other \in Chains : Working(other))
    /\ skipped' = FALSE

\* transactionOnMyApiStatus, success.  An empty list takes a skeleton away, which
\* reloads the table; without one the table keeps the rows it has.
ListAnswered(l, c) ==
    /\ lists[l][1] = "answer" /\ Alive
    /\ ~Working(c)
    /\ lists' = [lists EXCEPT ![l] = <<"free">>]
    /\ data' = Reverse(lists[l][2])
    /\ \/ /\ data' = <<>>
          /\ popup' = FALSE /\ skeleton' = FALSE /\ refreshing' = FALSE
          /\ UNCHANGED <<gate, chain, filter, mixed, skipped>>
          /\ ReloadIf(skeleton)
       \/ /\ data' # <<>>
          /\ StartChain(c)
          /\ UNCHANGED <<lookouts, filter, table>>
    /\ UNCHANGED <<servers, host, place, top, listLost>>

\* Nothing is told to the user, and nothing ends.
ListFails(l) ==
    /\ lists[l] # <<"free">> /\ Alive
    /\ lists' = [lists EXCEPT ![l] = <<"free">>]
    /\ listLost' = TRUE
    /\ UNCHANGED <<servers, host, place, top, chain, data, gate, filter, table,
                   lookouts, mixed, skipped>>

-----------------------------------------------------------------------------
(* The chain.                                                              *)

Ends(c) == chain[c].at = Len(chain[c].list)

Step(c) ==
    chain' = [chain EXCEPT ![c] = IF Ends(c) THEN Idle
                                  ELSE [list |-> chain[c].list, at |-> chain[c].at + 1]]

Advance_NoReload(c) ==
    /\ Step(c)
    /\ refreshing' = (refreshing /\ ~Ends(c))
    /\ UNCHANGED filter
    /\ ReloadIf(skeleton # skeleton')

\* fetchTransactionStatus after an answer: the next request, or the end.
Advance(c) ==
    /\ Step(c)
    /\ refreshing' = (refreshing /\ ~Ends(c))
    /\ UNCHANGED filter
    /\ ReloadIf(Ends(c) \/ skeleton # skeleton')

Received(c) ==
    LET o == chain[c].list[chain[c].at] IN
    gate' = Append(gate, [order |-> o, status |-> status[o]])

StatusAnswered_KeepsLoading(c) ==
    /\ Working(c) /\ Alive
    /\ Received(c)
    /\ popup' = popup /\ skeleton' = FALSE
    /\ UNCHANGED data
    /\ Advance(c)
    /\ UNCHANGED <<servers, host, place, top, lists, history>>

StatusAnswered(c) ==
    /\ Working(c) /\ Alive
    /\ Received(c)
    /\ popup' = FALSE /\ skeleton' = FALSE
    /\ UNCHANGED data
    /\ Advance(c)
    /\ UNCHANGED <<servers, host, place, top, lists, history>>

\* The failure is skipped: the answers that follow move up by one.
StatusFails(c) ==
    /\ Working(c) /\ Alive
    /\ skipped' = TRUE
    /\ UNCHANGED <<data, gate, skeleton>>
    /\ Advance(c)
    /\ UNCHANGED <<servers, host, place, top, lists, popup, mixed, listLost>>

-----------------------------------------------------------------------------
(* The user.                                                               *)

\* A skeleton takes the table's touches, and a control that refreshes is not
\* pulled again.
Refresh(l) ==
    /\ place = "front" /\ ~skeleton /\ ~refreshing
    /\ lists[l] = <<"free">>
    /\ refreshing' = TRUE
    /\ lists' = [lists EXCEPT ![l] = <<"sent">>]
    /\ listLost' = FALSE
    /\ UNCHANGED <<servers, host, place, top, chain, data, gate, filter, table,
                   skeleton, popup, mixed, skipped>>

\* didSelectFilterOption; the cell is in the table as it was last reloaded,
\* under the skeleton.
Filter(f) ==
    /\ place = "front" /\ ~skeleton /\ listed
    /\ filter # f
    /\ filter' = f
    /\ UNCHANGED <<data, gate>>
    /\ ReloadIf(TRUE)
    /\ UNCHANGED <<servers, host, place, top, lists, chain, lookouts, history>>

\* filterOnOff: only the row of filters comes or goes, but the table reloads.
FilterOnOff ==
    /\ place = "front" /\ ~skeleton
    /\ UNCHANGED <<data, gate, filter>>
    /\ ReloadIf(TRUE)
    /\ UNCHANGED <<servers, host, place, top, lists, chain, lookouts, history>>

\* OrderDetailsViewController.filterTransaction
ItemsOf(d, o) == {t \in ToSet(d) : t = o}

\* didSelectRowAt: the answer that has the index now.
Open(i) ==
    /\ place = "front" /\ ~skeleton
    /\ i \in 1 .. Len(rows) /\ i <= Len(Filtered(gate, filter))
    /\ place' = "covered"
    /\ LET a == Filtered(gate, filter)[i] IN
       top' = IF a.status = "pending"
              THEN [kind |-> "payment", order |-> a.order, items |-> {}]
              ELSE [kind |-> "details", order |-> a.order, items |-> ItemsOf(data, a.order)]
    /\ UNCHANGED <<servers, host, lists, chain, data, gate, filter, table, lookouts, history>>

\* Nothing is asked again.
Return ==
    /\ place \in {"covered", "behind"}
    /\ place' = "front" /\ top' = NoTop
    /\ UNCHANGED <<servers, host, lists, chain, data, gate, filter, table, lookouts, history>>

\* backBtn: only the navigation controller of the home tab is popped.  In the
\* profile's the screen stays behind; in the outer one there is no tab bar.
Back ==
    /\ place = "front"
    /\ popup' = FALSE
    /\ place' = CASE host = "home" -> "gone"
                  [] host = "profile" -> "behind"
                  [] host = "outer" -> "front"
    /\ UNCHANGED <<servers, host, top, lists, chain, data, gate, filter, table,
                   refreshing, skeleton, history>>

\* Popped to the root from here or from above, or the root is replaced.
Gone ==
    /\ Alive
    /\ place' = "gone" /\ top' = NoTop
    /\ UNCHANGED <<servers, host, lists, chain, data, gate, filter, table, lookouts, history>>

-----------------------------------------------------------------------------
Next ==
    \/ \E o \in Orders : Placed(o) \/ Deleted(o) \/ Settle(o)
    \/ \E l \in Lists : ShopLists(l)
    \/ \E l \in Lists, c \in Chains : ListAnswered(l, c)
    \/ \E l \in Lists : ListFails(l)
    \/ \E c \in Chains : StatusAnswered(c)
    \/ \E c \in Chains : StatusFails(c)
    \/ \E l \in Lists : Refresh(l)
    \/ \E f \in Statuses \cup {"all"} : Filter(f)
    \/ FilterOnOff
    \/ \E i \in 1 .. Len(rows) : Open(i)
    \/ Return
    \/ Back
    \/ Gone

Spec == Init /\ [][Next]_vars

-----------------------------------------------------------------------------
(* Properties.                                                             *)

\* Without a filter a row takes its status from gate[i] and its order from
\* data[i], two arrays filled by different requests: unless a status request
\* failed or a second chain began in the middle of the first, they are of the
\* same order, whatever was placed, deleted or refreshed meanwhile.
RowsAreOwn ==
    ~mixed /\ ~skipped =>
        \A i \in DOMAIN gate : i <= Len(data) => gate[i].order = data[i]

\* The details page gets the whole list and picks its order's items from it by
\* payment id.  It finds them when one chain runs at a time, status requests that
\* failed or not, unless the list it gets is empty: a refresh after the last
\* order was deleted empties the list and not the table, and a tap on a row that
\* is still there opens a page without items.  (So may a tap while chains mix.)
DetailsHaveItems ==
    [][top'.kind = "details" /\ top.kind # "details" /\ ~mixed
        => top'.items # {} \/ data = <<>>]_vars

\* The answers the table shows are those that are there.
ShowsAnswers ==
    LET answers == Filtered(gate, filter) IN
    /\ DOMAIN rows = 1 .. Len(answers)
    /\ \A i \in DOMAIN rows : rows[i].answer = answers[i]

\* When no request of a chain is left the table shows what has arrived, whatever
\* the order of answers, failures and filters, with one exception: a list that
\* comes back empty without a skeleton does not reload the table.  The orders it
\* showed before stay on the screen then, and each row still has the answer that
\* a tap on it opens.
QuietTableIsCurrent ==
    Alive /\ ~skeleton /\ (\A c \in Chains : ~Working(c)) =>
        \/ rows = RowsOf(data, gate, filter)
        \/ data = <<>> /\ ShowsAnswers

Quiet == (\A l \in Lists : lists[l] = <<"free">>) /\ (\A c \in Chains : ~Working(c))

\* The loading popup and the skeleton stay on with nothing on the way only
\* after a failure: no failed request tells the user, so success must.  The
\* refresh control goes on turning only when the list itself failed: an empty
\* list ends it, and so does a chain whose every status request failed.
LoadingExplained ==
    Alive /\ Quiet =>
        /\ popup \/ skeleton => listLost \/ skipped
        /\ refreshing => listLost
=============================================================================
