----------------------------- MODULE LocalData ------------------------------
(***************************************************************************)
(* Shoee's local database and the screens that read it: the product page   *)
(* with its heart, the favourites tab, the cart and the checkout.  They    *)
(* share one managed object context.  A change is made in the context and  *)
(* saved; a save commits everything the context holds, also what earlier   *)
(* saves could not, and may fail.  The screens end the process when their  *)
(* own save fails, CoreDataHelper forgets the failure and goes on.  Of the *)
(* fetches that may fail only the two of the checkout's cleanup are here.  *)
(***************************************************************************)
EXTENDS Integers

CONSTANTS
    Products,
    Pictured,     \* products with the fourth picture a favourite needs
    None,         \* no product page on the stack
    NotLoaded     \* the favourites tab was not shown yet

ASSUME LocalAssumption ==
    /\ Pictured \subseteq Products
    /\ None \notin Products
    /\ NotLoaded \notin [Products -> 0 .. 1]

VARIABLES
    ctx,          \* the tables as every fetch sees them
    disk,         \* the tables as the next process will find them
    place,        \* what is on top: the tabs, a screen over them, or "down"
    tab,          \* the selected tab
    shown,        \* the product of the product page on the stack
    heart,        \* is its button pink?
    list,         \* favoriteData, rows per product
    rows,         \* cartItems of the cart screen
    due,          \* the attempt under way that will empty the cart: "no", one
                  \* of the checkout screen on the stack, or of one that left
    spared        \* history: a cleanup could not fetch the items, and no save has
                  \* stored a draft since

copies == <<ctx, disk>>
tables == <<copies, spared>>
vars == <<ctx, disk, place, tab, shown, heart, list, rows, due, spared>>

\* Items, CheckOut and FavoriteProduct; User and AddressList of this user.
Tables == [cart : SUBSET Products, draft : {"none", "unset", "chosen"},
           favs : [Products -> 0 .. 1], pin : BOOLEAN, addresses : BOOLEAN]

NoFavs == [p \in Products |-> 0]
Empty == [cart |-> {}, draft |-> "none", favs |-> NoFavs,
          pin |-> FALSE, addresses |-> FALSE]

\* One row of FavoriteProduct per product, in the context and on disk.
TypeOK ==
    /\ ctx \in Tables /\ disk \in Tables
    /\ place \in {"tabs", "detail", "cart", "checkout", "payment", "down"}
    /\ tab \in {"home", "favorites"}
    /\ shown \in Products \cup {None}
    /\ heart \in BOOLEAN
    /\ list \in [Products -> 0 .. 1] \cup {NotLoaded}
    /\ rows \subseteq Products
    /\ due \in {"no", "own", "orphan"} /\ spared \in BOOLEAN

Init ==
    /\ ctx = Empty /\ disk = Empty
    /\ place = "tabs" /\ tab = "home"
    /\ shown = None /\ heart = FALSE
    /\ list = NotLoaded /\ rows = {} /\ due = "no" /\ spared = FALSE

-----------------------------------------------------------------------------
(* Saving.                                                                 *)

Observed_Never == UNCHANGED list

\* ObjectsDidChange: a loaded favourites list fetches again.
Observed ==
    list' = IF list = NotLoaded \/ ctx' = ctx THEN list ELSE ctx'.favs

Committed(t) == ctx' = t /\ disk' = t /\ spared' = (spared /\ t.draft = "none")
Pending(t) == ctx' = t /\ UNCHANGED <<disk, spared>>

\* A new process, or what is left to one, knows what is on disk.
Gone ==
    /\ place' = "down" /\ tab' = "home"
    /\ ctx' = disk'
    /\ shown' = None /\ heart' = FALSE
    /\ list' = NotLoaded /\ rows' = {} /\ due' = "no"
    /\ UNCHANGED spared

\* fatalError in the catch block of a screen.
Die == UNCHANGED disk /\ Gone

\* CoreDataHelper.saveContext: a failure is swallowed.
Swallow(t) == (Committed(t) \/ Pending(t)) /\ Observed

-----------------------------------------------------------------------------
(* The tabs and the product page.                                          *)

SelectTab(t) ==
    /\ place = "tabs"
    /\ tab' = t
    /\ list' = IF t = "favorites" /\ list = NotLoaded THEN ctx.favs ELSE list
    /\ UNCHANGED <<tables, place, shown, heart, rows, due>>

OpenDetail(p) ==
    /\ place = "tabs" /\ tab = "home"
    /\ place' = "detail"
    /\ shown' = p
    /\ heart' = (ctx.favs[p] # 0)
    /\ UNCHANGED <<tables, tab, list, rows, due>>

Similar_KeepsHeart(p) ==
    /\ place = "detail"
    /\ shown' = p
    /\ UNCHANGED <<tables, place, tab, heart, list, rows, due>>

\* A similar shoe takes the place of the product on the same page.
Similar(p) ==
    /\ place = "detail"
    /\ shown' = p
    /\ heart' = (ctx.favs[p] # 0)
    /\ UNCHANGED <<tables, place, tab, list, rows, due>>

CloseDetail ==
    /\ place = "detail"
    /\ place' = "tabs"
    /\ shown' = None /\ heart' = FALSE
    /\ UNCHANGED <<tables, tab, list, rows, due>>

\* Without its fourth picture a product is not stored, and nobody is told.
Toggled ==
    IF shown \in Pictured \/ ctx.favs[shown] # 0
      THEN [ctx EXCEPT !.favs[shown] = IF @ # 0 THEN 0 ELSE 1]
      ELSE ctx

\* favoriteButton: what the helper swallowed the page's own save tries again.
ToggleHeart ==
    /\ place = "detail"
    /\ \/ /\ Toggled # ctx
          /\ Committed(Toggled)
          /\ heart' = (ctx'.favs[shown] # 0)
          /\ Observed
          /\ UNCHANGED <<place, tab, shown, rows, due>>
       \/ Toggled # ctx /\ Die
       \/ /\ Toggled = ctx
          /\ heart' = (ctx.favs[shown] # 0)
          /\ UNCHANGED <<tables, place, tab, shown, list, rows, due>>

Added == [ctx EXCEPT !.cart = @ \cup {shown}, !.draft = "unset"]

AddToCart_Swallows ==
    /\ place = "detail"
    /\ Swallow(Added)
    /\ UNCHANGED <<place, tab, shown, heart, rows, due>>

\* btnAddToCart
AddToCart ==
    /\ place = "detail"
    /\ \/ /\ Committed(Added)
          /\ Observed
          /\ UNCHANGED <<place, tab, shown, heart, rows, due>>
       \/ Die

\* deleteButtonTapped of the favourites tab: the row that was fetched.
DeleteFavorite(p) ==
    /\ place = "tabs" /\ tab = "favorites"
    /\ list[p] # 0
    /\ \/ /\ Committed([ctx EXCEPT !.favs[p] = 0])
          /\ list' = ctx'.favs
          /\ UNCHANGED <<place, tab, shown, heart, rows, due>>
       \/ Die

-----------------------------------------------------------------------------
(* The cart and the checkout.                                              *)

\* The middle button of the tab bar, or "View My Cart" on the product page.
OpenCart ==
    /\ place \in {"tabs", "detail"}
    /\ place' = "cart"
    /\ rows' = ctx.cart
    /\ UNCHANGED <<tables, tab, shown, heart, list, due>>

Beneath == IF shown = None THEN "tabs" ELSE "detail"

CloseCart ==
    /\ place = "cart"
    /\ place' = Beneath
    /\ rows' = {}
    /\ UNCHANGED <<tables, tab, shown, heart, list, due>>

\* btnAction of an empty cart makes a new root.
LeaveEmptyCart ==
    /\ place = "cart" /\ rows = {}
    /\ place' = "tabs" /\ tab' = "home"
    /\ shown' = None /\ heart' = FALSE /\ list' = NotLoaded
    /\ UNCHANGED <<tables, rows, due>>

DeleteRow_KeepsObject(p) ==
    /\ place = "cart" /\ p \in rows
    /\ Committed(ctx)
    /\ rows' = rows \ {p}
    /\ UNCHANGED <<place, tab, shown, heart, list, due>>

\* deleteItem: the rows are fetched again.
DeleteRow(p) ==
    /\ place = "cart" /\ p \in rows
    /\ \/ /\ Committed([ctx EXCEPT !.cart = @ \ {p}])
          /\ rows' = ctx'.cart
          /\ Observed
          /\ UNCHANGED <<place, tab, shown, heart, due>>
       \/ Die

\* saveChangesToCoreData after a new quantity, on whatever row is shown.
Recount(p) ==
    /\ place = "cart" /\ p \in rows
    /\ \/ Committed(ctx) /\ UNCHANGED <<place, tab, shown, heart, list, rows, due>>
       \/ Die

OpenCheckout ==
    /\ place = "cart"
    /\ place' = "checkout"
    /\ UNCHANGED <<tables, tab, shown, heart, list, rows, due>>

CloseCheckout ==
    /\ place = "checkout"
    /\ place' = "cart"
    /\ due' = IF due = "own" THEN "orphan" ELSE due
    /\ UNCHANGED <<tables, tab, shown, heart, list, rows>>

\* didTapAddNewAddress
AddAddress ==
    /\ place = "checkout"
    /\ Swallow([ctx EXCEPT !.addresses = TRUE])
    /\ UNCHANGED <<place, tab, shown, heart, rows, due>>

\* updateCheckOutAddress: the first draft, if there is one.
ChooseAddress ==
    /\ place = "checkout" /\ ctx.addresses
    /\ ctx.draft # "none"
    /\ Swallow([ctx EXCEPT !.draft = "chosen"])
    /\ UNCHANGED <<place, tab, shown, heart, rows, due>>

\* checkPinOnCoreData for a user without a row.
CreatePin ==
    /\ place = "checkout" /\ ~ctx.pin
    /\ Swallow([ctx EXCEPT !.pin = TRUE])
    /\ UNCHANGED <<place, tab, shown, heart, rows, due>>

\* checkOutALL; its end is Wipe, wherever the user is by then.  Bound: one
\* attempt at a time.
Submit ==
    /\ place = "checkout" /\ ctx.pin
    /\ ctx.draft # "unset"
    /\ due = "no"
    /\ due' = "own"
    /\ UNCHANGED <<tables, place, tab, shown, heart, list, rows>>

\* deleteAllData of a table it could fetch, from the copies c to t: the save may
\* fail.
Deleted(c, t) == {<<t, c[2]>>, <<t, t>>}
NoItems(c) == Deleted(c, [c[1] EXCEPT !.cart = {}])
NoDraft(c) == Deleted(c, [c[1] EXCEPT !.draft = "none"])

Wiped_DraftFirst(fetched) ==
    UNION {IF fetched THEN NoItems(c) ELSE {c} : c \in NoDraft(copies) \cup {copies}}

\* What deleteAllData of Items, which may be fetched or not, and then that of
\* CheckOut, likewise, leave.
Wiped(fetched) ==
    UNION {NoDraft(c) \cup {c} : c \in IF fetched THEN NoItems(copies) ELSE {copies}}

\* The notify block: both deletions forget a fetch or a save that fails.
Wipe ==
    /\ due # "no"
    /\ due' = "no"
    /\ \E fetched \in BOOLEAN :
          /\ \E c \in Wiped(fetched) : ctx' = c[1] /\ disk' = c[2]
          /\ spared' = (spared \/ ~fetched)
    /\ Observed
    /\ place' = IF due = "own" THEN "payment" ELSE place
    /\ UNCHANGED <<tab, shown, heart, rows>>

\* The process ends between the two.
WipeCut ==
    /\ due # "no"
    /\ \E c \in NoItems(copies) \cup {copies} : disk' = c[2]
    /\ Gone

\* goToHome pops to the root of its stack: the tabs.
LeavePayment ==
    /\ place = "payment"
    /\ place' = "tabs"
    /\ shown' = None /\ heart' = FALSE /\ rows' = {}
    /\ UNCHANGED <<tables, tab, list, due>>

\* A settled payment makes a new root.
PaymentSettles ==
    /\ place = "payment"
    /\ place' = "tabs" /\ tab' = "home"
    /\ shown' = None /\ heart' = FALSE /\ rows' = {} /\ list' = NotLoaded
    /\ UNCHANGED <<tables, due>>

-----------------------------------------------------------------------------
(* The process.                                                            *)

\* sceneDidEnterBackground saves what is pending, or ends the process.
Background ==
    /\ place # "down"
    /\ ctx # disk
    /\ \/ Committed(ctx) /\ UNCHANGED <<place, tab, shown, heart, list, rows, due>>
       \/ Die

Kill ==
    /\ place # "down"
    /\ Die

Relaunch ==
    /\ place = "down"
    /\ place' = "tabs"
    /\ UNCHANGED <<tables, tab, shown, heart, list, rows, due>>

Next ==
    \/ \E t \in {"home", "favorites"} : SelectTab(t)
    \/ \E p \in Products : OpenDetail(p)
    \/ \E p \in Products : Similar(p)
    \/ CloseDetail
    \/ ToggleHeart
    \/ AddToCart
    \/ \E p \in Products : DeleteFavorite(p)
    \/ OpenCart
    \/ CloseCart
    \/ LeaveEmptyCart
    \/ \E p \in Products : DeleteRow(p)
    \/ \E p \in Products : Recount(p)
    \/ OpenCheckout
    \/ CloseCheckout
    \/ AddAddress
    \/ ChooseAddress
    \/ CreatePin
    \/ Submit
    \/ Wipe
    \/ WipeCut
    \/ LeavePayment
    \/ PaymentSettles
    \/ Background
    \/ Kill
    \/ Relaunch

Spec == Init /\ [][Next]_vars

-----------------------------------------------------------------------------
(* What the screens and the database promise.                              *)

\* The heart of the product on top, and the favourites tab once it was shown,
\* agree with the table, although the heart is only set when the page is opened,
\* tapped or given another product and the list follows by a notification.
FavoritesAgree ==
    /\ place = "detail" => heart = (ctx.favs[shown] # 0)
    /\ list # NotLoaded => list = ctx.favs

\* The cart screen may show rows that a checkout has deleted meanwhile, but it
\* never hides one that the next checkout would order.
CartHidesNothing == place \in {"cart", "checkout"} => ctx.cart \subseteq rows

\* A save that fails never loses what the user put in the cart or among the
\* favourites; what it can do is bring a cart back that was already ordered.
FailuresLoseNothing == ctx.cart \subseteq disk.cart /\ ctx.favs = disk.favs

\* In whatever order saves fail and the process ends, a cart that is found
\* again has its draft, without which an order is not posted but still billed.
\* The one exception is a cleanup that deletes the draft after it could not
\* fetch the items, until a save stores a draft again.
CartComesWithDraft ==
    ~spared => /\ ctx.cart # {} => ctx.draft # "none"
               /\ disk.cart # {} => disk.draft # "none"
=============================================================================
