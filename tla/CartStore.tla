----------------------------- MODULE CartStore -----------------------------
(***************************************************************************)
(* The two Core Data tables the purchase flow lives on: Items (one row per *)
(* product in the cart) and CheckOut (at most one row, the draft of the    *)
(* order).  They outlive the process.  The operators are the statements    *)
(* the screens run on them; the screens themselves are in Checkout.        *)
(***************************************************************************)
EXTENDS Integers, FiniteSetsExt

CONSTANTS
    Products,     \* the products a user may put in the cart
    Price,        \* Price[p], in minor units (the code keeps a Double)
    Unit,         \* minor units in a dollar: Int16(x) and Int(x) drop the rest
    Int16Max,     \* 32767 in the code; quantities and totals are Int16
    Addresses,    \* the addresses saved in AddressList
    Placeholder,  \* the text "Your Address" the draft starts with
    NoDraft       \* no row in CheckOut (and the nil address read from it)

ASSUME StoreAssumption ==
    /\ IsFiniteSet(Products) /\ Price \in [Products -> Nat]
    /\ Unit \in Nat \ {0}
    /\ Int16Max \in Nat \ {0}
    /\ Placeholder \notin Addresses
    /\ NoDraft \notin Addresses \cup {Placeholder}

VARIABLES
    items,        \* Items: quantity per product, 0 when there is no row
    draft         \* CheckOut: the address of its row, or NoDraft

store == <<items, draft>>

Carts == [Products -> 0 .. Int16Max]
NoItems == [p \in Products |-> 0]

StoreTypeOK ==
    /\ items \in Carts
    /\ draft \in Addresses \cup {Placeholder, NoDraft}

StoreInit == items = NoItems /\ draft = NoDraft

(***************************************************************************)
(* Sums over the cart.  Dollars is Int16 of the Double sum; Lines adds the *)
(* per-item prices after each was truncated on its own, which is what the  *)
(* payment gateway is sent as item details.                                *)
(***************************************************************************)
Dollars(cart) == MapThenSumSet(LAMBDA p : Price[p] * cart[p], Products) \div Unit
Lines_RoundsUp(cart) ==
    MapThenSumSet(LAMBDA p : ((Price[p] + Unit - 1) \div Unit) * cart[p], Products)
Lines(cart) == MapThenSumSet(LAMBDA p : (Price[p] \div Unit) * cart[p], Products)
Units(cart) == MapThenSumSet(LAMBDA p : cart[p], Products)

\* The conversions to Int16 trap when the value does not fit.
Overflows(cart) == Dollars(cart) > Int16Max \/ Units(cart) > Int16Max

\* Adding a product resets the address of an existing draft.
AddItem(p) ==
    /\ items' = [items EXCEPT ![p] = @ + 1]
    /\ draft' = Placeholder

SetQuantity(p, q) ==
    /\ items' = [items EXCEPT ![p] = q]
    /\ UNCHANGED draft

\* Deleting the rows of a product leaves the draft as it is.
DeleteItem(p) == SetQuantity(p, 0)

\* updateCheckOutAddress: the first draft, if there is one.
SetAddress(addr) ==
    /\ draft # NoDraft
    /\ draft' = addr
    /\ UNCHANGED items

\* The end of a checkout: deleteAllData of Items, then of CheckOut.
DeleteAllItems == items' = NoItems
DeleteAllDrafts == draft' = NoDraft
=============================================================================
