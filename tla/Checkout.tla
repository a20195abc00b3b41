------------------------------ MODULE Checkout ------------------------------
(***************************************************************************)
(* Buying: the cart, the checkout screen with its view model, and the two  *)
(* servers a checkout calls.  An attempt is one call of checkOutALL: it    *)
(* posts the order to the shop and the bill to the payment gateway at the  *)
(* same time, waits for both in a DispatchGroup, empties the cart and asks *)
(* the screen to open the payment page.  Nothing blocks the screen in the  *)
(* meantime (the loading popup has an empty frame), so attempts overlap,   *)
(* the user may walk away, and the process may be killed.                  *)
(***************************************************************************)
EXTENDS CartStore

CONSTANTS
    Attempts,     \* calls of checkOutALL; also their order identifiers
    None          \* nil: no attempt, no request body

ASSUME AttemptAssumption == None \notin Attempts

VARIABLES
    place,        \* what the navigation stack shows; "down": no process
    pin,          \* the PIN screen over it: closed, open, or leaving after a match
    vm,           \* the view model of the checkout screen on the stack
    mine,         \* attempts made by that screen
    pushes,       \* those whose successCheckOut block waits in the main queue
    page,         \* the order and the payment the payment page was built with
    job,          \* life of each attempt
    group,        \* its DispatchGroup: the legs that have not left yet
    order,        \* body of the request to the shop
    bill,         \* body of the request to the gateway
    shop,         \* what the shop did with the order
    pay           \* what the gateway did with the bill

screen == <<place, pin, vm, mine, pushes, page>>
client == <<job, group, order, bill>>
servers == <<shop, pay>>
vars == <<items, draft, place, pin, vm, mine, pushes, page,
          job, group, order, bill, shop, pay>>

Places == {"shop", "cart", "checkout", "payment", "down"}
Legs == {"shop", "pay"}
Fates == {"unsent", "sent", "accepted", "refused"}

FreshVM == [selected |-> FALSE, user |-> FALSE, orderId |-> None, bca |-> None]
NoPage == [id |-> None, bca |-> None]

TypeOK ==
    /\ StoreTypeOK
    /\ place \in Places
    /\ pin \in {"closed", "open", "leaving"}
    /\ vm \in [selected : BOOLEAN, user : BOOLEAN,
               orderId : Attempts \cup {None}, bca : Attempts \cup {None}]
    /\ mine \subseteq Attempts
    /\ pushes \subseteq mine
    /\ page \in [id : Attempts \cup {None}, bca : Attempts \cup {None}]
    /\ job \in [Attempts -> {"idle", "running", "closed", "lost"}]
    /\ group \in [Attempts -> SUBSET Legs]
    /\ DOMAIN order = Attempts /\ DOMAIN bill = Attempts
    /\ shop \in [Attempts -> Fates]
    /\ pay \in [Attempts -> Fates]

Init ==
    /\ StoreInit
    /\ place = "shop" /\ pin = "closed"
    /\ vm = FreshVM /\ mine = {} /\ pushes = {} /\ page = NoPage
    /\ job = [a \in Attempts |-> "idle"]
    /\ group = [a \in Attempts |-> {}]
    /\ order = [a \in Attempts |-> None]
    /\ bill = [a \in Attempts |-> None]
    /\ shop = [a \in Attempts |-> "unsent"]
    /\ pay = [a \in Attempts |-> "unsent"]

-----------------------------------------------------------------------------
(* Leaving a screen and losing the process.                                *)

GoTo_KeepsResponse(p) ==
    /\ place' = p
    /\ pin' = "closed"
    /\ vm' = [FreshVM EXCEPT !.bca = vm.bca]
    /\ mine' = {}
    /\ pushes' = {}
    /\ page' = NoPage

\* The checkout screen leaves the stack: its attempts run on without it.
GoTo(p) ==
    /\ place' = p
    /\ pin' = "closed"
    /\ vm' = FreshVM
    /\ mine' = {}
    /\ pushes' = {}
    /\ page' = NoPage

Abandoned_Survive == job
Abandoned == [a \in Attempts |-> IF job[a] = "running" THEN "lost" ELSE job[a]]

\* The process ends: callbacks that were still to come never run.
Die ==
    /\ GoTo("down")
    /\ job' = Abandoned

Kill ==
    /\ place # "down"
    /\ Die
    /\ UNCHANGED <<items, draft, group, order, bill, shop, pay>>

Relaunch ==
    /\ place = "down"
    /\ GoTo("shop")
    /\ UNCHANGED <<items, draft, job, group, order, bill, shop, pay>>

-----------------------------------------------------------------------------
(* The product page and the cart.                                          *)

\* btnAddToCart; the Int16 quantity traps at its limit.
AddToCart(p) ==
    /\ place = "shop"
    /\ \/ /\ items[p] < Int16Max
          /\ AddItem(p)
          /\ UNCHANGED <<screen, job>>
       \/ /\ items[p] = Int16Max
          /\ Die
          /\ UNCHANGED store
    /\ UNCHANGED <<group, order, bill, servers>>

OpenCart ==
    /\ place = "shop"
    /\ GoTo("cart")
    /\ UNCHANGED <<items, draft, client, servers>>

CloseCart ==
    /\ place = "cart"
    /\ GoTo("shop")
    /\ UNCHANGED <<items, draft, client, servers>>

\* The plus button; Int16(newQuantity) traps above the limit.
Increase(p) ==
    /\ place = "cart"
    /\ items[p] > 0
    /\ \/ /\ items[p] < Int16Max
          /\ SetQuantity(p, items[p] + 1)
          /\ UNCHANGED <<screen, job>>
       \/ /\ items[p] = Int16Max
          /\ Die
          /\ UNCHANGED store
    /\ UNCHANGED <<group, order, bill, servers>>

Decrease(p) ==
    /\ place = "cart"
    /\ items[p] > 1
    /\ SetQuantity(p, items[p] - 1)
    /\ UNCHANGED <<screen, client, servers>>

Delete(p) ==
    /\ place = "cart"
    /\ items[p] > 0
    /\ DeleteItem(p)
    /\ UNCHANGED <<screen, client, servers>>

-----------------------------------------------------------------------------
(* The checkout screen.                                                    *)

\* fetchData of a new view model; the totals trap when they do not fit.
OpenCheckout ==
    /\ place = "cart"
    /\ IF Overflows(items)
         THEN Die
         ELSE GoTo("checkout") /\ UNCHANGED job
    /\ UNCHANGED <<items, draft, group, order, bill, servers>>

Back ==
    /\ place = "checkout" /\ pin # "open"
    /\ GoTo("cart")
    /\ UNCHANGED <<items, draft, client, servers>>

\* The answer to fetchUsers; a failed one changes nothing.
UserLoaded ==
    /\ place \in {"checkout", "payment"}
    /\ vm' = [vm EXCEPT !.user = TRUE]
    /\ UNCHANGED <<items, draft, place, pin, mine, pushes, page, client, servers>>

SelectPayment ==
    /\ place = "checkout" /\ pin # "open"
    /\ vm' = [vm EXCEPT !.selected = TRUE]
    /\ UNCHANGED <<items, draft, place, pin, mine, pushes, page, client, servers>>

SelectAddress(addr) ==
    /\ place = "checkout" /\ pin # "open"
    /\ SetAddress(addr)
    /\ UNCHANGED <<screen, client, servers>>

TapCheckout_AnyAddress ==
    /\ place = "checkout" /\ pin # "open"
    /\ vm.selected
    /\ pin' = "open"
    /\ UNCHANGED <<items, draft, place, vm, mine, pushes, page, client, servers>>

\* checkOutButtonTapped: an address that is nil passes, only the text is refused.
TapCheckout ==
    /\ place = "checkout" /\ pin # "open"
    /\ vm.selected
    /\ draft # Placeholder
    /\ pin' = "open"
    /\ UNCHANGED <<items, draft, place, vm, mine, pushes, page, client, servers>>

\* A user without a PIN creates one; the screen closes and nothing is bought.
PinCreated ==
    /\ pin = "open"
    /\ pin' = "closed"
    /\ UNCHANGED <<items, draft, place, vm, mine, pushes, page, client, servers>>

\* The PIN screen that was passed is released; until then a second match of
\* it, typed during the animation, runs the completion again.
PinGone ==
    /\ pin = "leaving"
    /\ pin' = "closed"
    /\ UNCHANGED <<items, draft, place, vm, mine, pushes, page, client, servers>>

-----------------------------------------------------------------------------
(* checkOutALL.  The view model's items and draft are live objects of the  *)
(* context: reading them after another attempt deleted them gives zero and *)
(* nil, which is what the tables say.                                      *)

OrderBody == [cart |-> items, address |-> draft, total |-> Dollars(items)]
BillBody == [cart |-> items, lines |-> Lines(items), gross |-> Dollars(items)]

\* checkOutData: without an address its leg leaves at once and posts nothing.
PostOrder(a) ==
    IF draft = NoDraft
      THEN UNCHANGED <<order, shop>>
      ELSE /\ order' = [order EXCEPT ![a] = OrderBody]
           /\ shop' = [shop EXCEPT ![a] = "sent"]

PostBill(a) ==
    /\ bill' = [bill EXCEPT ![a] = BillBody]
    /\ pay' = [pay EXCEPT ![a] = "sent"]

LegsOf_NoEarlyLeave == Legs
LegsOf == IF draft = NoDraft THEN {"pay"} ELSE Legs

Submit(a) ==
    /\ pin # "closed"
    /\ job[a] = "idle"
    /\ vm.user
    /\ pin' = "leaving"
    /\ vm' = [vm EXCEPT !.orderId = a]
    /\ mine' = mine \cup {a}
    /\ job' = [job EXCEPT ![a] = "running"]
    /\ group' = [group EXCEPT ![a] = LegsOf]
    /\ PostOrder(a)
    /\ PostBill(a)
    /\ UNCHANGED <<items, draft, place, pushes, page>>

\* userData! traps in bcaCheckout, after the order was handed to the network.
SubmitTraps(a) ==
    /\ pin # "closed"
    /\ job[a] = "idle"
    /\ ~vm.user
    /\ PostOrder(a)
    /\ GoTo("down")
    /\ job' = [Abandoned EXCEPT ![a] = "lost"]
    /\ UNCHANGED <<items, draft, group, bill, pay>>

\* The shop handles a request whether or not the app still waits for it.
ShopServes(a) ==
    /\ shop[a] = "sent"
    /\ \E fate \in {"accepted", "refused"} : shop' = [shop EXCEPT ![a] = fate]
    /\ UNCHANGED <<items, draft, screen, client, pay>>

GatewayServes(a) ==
    /\ pay[a] = "sent"
    /\ \E fate \in {"accepted", "refused"} : pay' = [pay EXCEPT ![a] = fate]
    /\ UNCHANGED <<items, draft, screen, client, shop>>

Leave(a, leg) ==
    /\ job[a] = "running"
    /\ leg \in group[a]
    /\ group' = [group EXCEPT ![a] = @ \ {leg}]

\* Success, refusal, timeout and a lost answer all run the same completion.
ShopAnswers(a) ==
    /\ shop[a] # "unsent"
    /\ Leave(a, "shop")
    /\ UNCHANGED <<items, draft, screen, job, order, bill, servers>>

\* Only a success stores the response in the view model.
GatewayAnswers(a) ==
    /\ pay[a] # "unsent"
    /\ Leave(a, "pay")
    /\ \/ /\ pay[a] = "accepted" /\ a \in mine
          /\ vm' = [vm EXCEPT !.bca = a]
       \/ UNCHANGED vm
    /\ UNCHANGED <<items, draft, place, pin, mine, pushes, page,
                   job, order, bill, servers>>

Answered(a) == job[a] = "running" /\ group[a] = {}

Notify_LastCleansUp(a) ==
    /\ Answered(a)
    /\ IF \E b \in Attempts \ {a} : job[b] = "running"
         THEN UNCHANGED store
         ELSE DeleteAllItems /\ DeleteAllDrafts
    /\ job' = [job EXCEPT ![a] = "closed"]
    /\ pushes' = pushes \cup ({a} \cap mine)
    /\ UNCHANGED <<place, pin, vm, mine, page, group, order, bill, servers>>

Notify_NoDelegate(a) ==
    /\ Answered(a)
    /\ DeleteAllItems
    /\ DeleteAllDrafts
    /\ job' = [job EXCEPT ![a] = "closed"]
    /\ UNCHANGED <<screen, group, order, bill, servers>>

\* The block of dispatchGroup.notify; the delegate is nil once its screen left.
Notify(a) ==
    /\ Answered(a)
    /\ DeleteAllItems
    /\ DeleteAllDrafts
    /\ job' = [job EXCEPT ![a] = "closed"]
    /\ pushes' = pushes \cup ({a} \cap mine)
    /\ UNCHANGED <<place, pin, vm, mine, page, group, order, bill, servers>>

NotifyCut_DraftFirst(a) ==
    /\ Answered(a)
    /\ DeleteAllDrafts
    /\ Die
    /\ UNCHANGED <<items, group, order, bill, servers>>

\* The process is killed between the two saves.
NotifyCut(a) ==
    /\ Answered(a)
    /\ DeleteAllItems
    /\ Die
    /\ UNCHANGED <<draft, group, order, bill, servers>>

\* The block of successCheckOut: it reads the identifier and the response then.
OpenPayment(a) ==
    /\ a \in pushes
    /\ pushes' = pushes \ {a}
    /\ place' = "payment"
    /\ page' = [id |-> vm.orderId, bca |-> vm.bca]
    /\ UNCHANGED <<items, draft, pin, vm, mine, client, servers>>

LeavePayment ==
    /\ place = "payment" /\ pin # "open"
    /\ GoTo("shop")
    /\ UNCHANGED <<items, draft, client, servers>>

-----------------------------------------------------------------------------
Next ==
    \/ Kill
    \/ Relaunch
    \/ \E p \in Products : AddToCart(p)
    \/ OpenCart
    \/ CloseCart
    \/ \E p \in Products : Increase(p)
    \/ \E p \in Products : Decrease(p)
    \/ \E p \in Products : Delete(p)
    \/ OpenCheckout
    \/ Back
    \/ UserLoaded
    \/ SelectPayment
    \/ \E addr \in Addresses : SelectAddress(addr)
    \/ TapCheckout
    \/ PinCreated
    \/ PinGone
    \/ \E a \in Attempts : Submit(a)
    \/ \E a \in Attempts : SubmitTraps(a)
    \/ \E a \in Attempts : ShopServes(a)
    \/ \E a \in Attempts : GatewayServes(a)
    \/ \E a \in Attempts : ShopAnswers(a)
    \/ \E a \in Attempts : GatewayAnswers(a)
    \/ \E a \in Attempts : Notify(a)
    \/ \E a \in Attempts : NotifyCut(a)
    \/ \E a \in Attempts : OpenPayment(a)
    \/ LeavePayment

Spec == Init /\ [][Next]_vars

\* Every request ends (the client times out) and the main queue is drained.
Fairness ==
    \A a \in Attempts :
        /\ WF_vars(ShopAnswers(a))
        /\ WF_vars(GatewayAnswers(a))
        /\ WF_vars(Notify(a))
        /\ WF_vars(OpenPayment(a))

FairSpec == Spec /\ Fairness

-----------------------------------------------------------------------------
(* What a checkout promises.                                               *)

\* Every order posted to the shop carries an address the user chose: neither
\* the placeholder nor nil, whatever happened to the draft between the button,
\* the PIN and the request.
OrdersAddressed ==
    \A a \in Attempts : shop[a] # "unsent" => order[a].address \in Addresses

\* A bill that lists anything never reaches the gateway without its order, for
\* the same cart and amount, on its way to the shop: the silent early return of checkOutData (a
\* nil address) only ever meets an empty cart, also after a crash between the
\* two deletes that end a checkout.
ChargedOrdersExist ==
    \A a \in Attempts : pay[a] # "unsent" /\ bill[a].cart # NoItems =>
        /\ shop[a] # "unsent"
        /\ order[a].cart = bill[a].cart
        /\ order[a].total = bill[a].gross

\* What ChargedOrdersExist rests on: items in the cart always have a draft.
ItemsHaveDraft == items # NoItems => draft # NoDraft

\* While the payment page is up, or about to be, nothing is left in the cart:
\* the user is never asked to pay for items that could be ordered again.
PaymentMeansEmptyCart ==
    place = "payment" \/ pushes # {} => items = NoItems /\ draft = NoDraft

\* The payment page shows an order this very screen submitted, and a payment
\* only if the gateway accepted one for this screen: never a request of an
\* earlier visit, whose answer may still arrive.
PageIsOwn ==
    place = "payment" =>
        /\ page.id \in mine
        /\ page.bca # None => page.bca \in mine /\ pay[page.bca] = "accepted"

\* The gross amount covers the item details: truncating each price loses less
\* than a dollar per unit and never adds one, and the total fits its Int16.
GrossCoversLines ==
    \A a \in Attempts : pay[a] # "unsent" =>
        /\ bill[a].lines <= bill[a].gross
        /\ bill[a].gross <= bill[a].lines + Units(bill[a].cart)
        /\ bill[a].gross <= Int16Max

\* Outside the cart screen, where the user deletes rows, the cart is emptied
\* only by an attempt whose two requests have both ended.
EmptiedWhenAnswered ==
    [][items # NoItems /\ items' = NoItems /\ place # "cart" =>
         \E a \in Attempts : /\ job[a] = "running" /\ group[a] = {}
                             /\ job'[a] # "running"]_vars

\* A user who stays on the checkout screen gets to the payment page.
PaymentPageOpens ==
    \A a \in Attempts :
        a \in mine /\ job[a] = "running" ~> place = "payment" \/ a \notin mine

-----------------------------------------------------------------------------
(* Checkout implements OrderContract.                                      *)

Where ==
    CASE place \in {"shop", "cart"} -> "shopping"
      [] place = "checkout" -> "buying"
      [] place = "payment" -> "paying"
      [] place = "down" -> "off"

Contract == INSTANCE OrderContract WITH where <- Where, basket <- items # NoItems

\* Every behaviour of the app is one the contract allows.
KeepsContract == Contract!CSpec
=============================================================================
