--------------------------- MODULE PurchaseProofs ---------------------------
(***************************************************************************)
(* Safety of a purchase and of its two halves: of Checkout for any         *)
(* products, prices, addresses and number of overlapping attempts, of the  *)
(* PIN screen for every keypad, PIN length, number of attempts and         *)
(* duration of the lockout, and of Purchase, which joins them.             *)
(***************************************************************************)
EXTENDS Purchase, FiniteSetTheorems, WellFoundedInduction, TLAPS

-----------------------------------------------------------------------------
(* Checkout.                                                               *)

\* The PIN screen is only there over a draft that is not the placeholder, and the screen
\* whose attempts are counted in mine is on the stack.
PinGuardsDraft ==
    pin # "closed" => place \in {"checkout", "payment"} /\ draft # Placeholder

ScreenOwns ==
    /\ mine # {} => place \in {"checkout", "payment"} /\ vm.orderId \in mine
    /\ \A a \in mine : job[a] # "idle"
    /\ \A a \in pushes : job[a] = "closed"
    /\ vm.bca # None => vm.bca \in mine /\ pay[vm.bca] = "accepted"

\* What an attempt has not started has not been asked of a server.
NothingSentWhenIdle ==
    \A a \in Attempts : job[a] = "idle" => shop[a] = "unsent" /\ pay[a] = "unsent"

\* Without a process nothing runs.
DownRunsNothing == place = "down" => \A a \in Attempts : job[a] # "running"

IInv ==
    /\ TypeOK
    /\ NothingSentWhenIdle
    /\ DownRunsNothing
    /\ ItemsHaveDraft
    /\ PinGuardsDraft
    /\ ScreenOwns
    /\ OrdersAddressed
    /\ ChargedOrdersExist
    /\ PaymentMeansEmptyCart
    /\ PageIsOwn

-----------------------------------------------------------------------------
\* Every variable keeps its type: in particular quantities never leave Int16,
\* the traps of the code being the only way past the limit.
THEOREM TypeCorrect == Spec => []TypeOK
<1>. USE StoreAssumption, AttemptAssumption
<1>1. Init => TypeOK
  BY DEF Init, StoreInit, TypeOK, StoreTypeOK, Carts, NoItems, Places, Legs, Fates,
         FreshVM, NoPage
<1>2. TypeOK /\ [Next]_vars => TypeOK'
  <2>. SUFFICES ASSUME TypeOK, [Next]_vars PROVE TypeOK'
    OBVIOUS
  <2>. USE DEF TypeOK, StoreTypeOK, Carts, Places, Legs, Fates
  <2>a. \A p : p \in Places /\ GoTo(p) =>
          /\ place' \in Places /\ pin' \in {"closed", "open", "leaving"}
          /\ vm' \in [selected : BOOLEAN, user : BOOLEAN,
                      orderId : Attempts \cup {None}, bca : Attempts \cup {None}]
          /\ mine' \subseteq Attempts /\ pushes' \subseteq mine'
          /\ page' \in [id : Attempts \cup {None}, bca : Attempts \cup {None}]
    BY DEF GoTo, FreshVM, NoPage
  <2>b. Abandoned \in [Attempts -> {"idle", "running", "closed", "lost"}]
    BY DEF Abandoned
  <2>1. CASE Kill
    BY <2>a, <2>b, <2>1 DEF Kill, Die
  <2>2. CASE Relaunch
    BY <2>a, <2>2 DEF Relaunch
  <2>3. ASSUME NEW p \in Products, AddToCart(p) PROVE TypeOK'
    BY <2>a, <2>b, <2>3 DEF AddToCart, AddItem, Die, store, screen, servers
  <2>4. CASE OpenCart
    BY <2>a, <2>4 DEF OpenCart, client, servers
  <2>5. CASE CloseCart
    BY <2>a, <2>5 DEF CloseCart, client, servers
  <2>6. ASSUME NEW p \in Products, Increase(p) PROVE TypeOK'
    BY <2>a, <2>b, <2>6 DEF Increase, SetQuantity, Die, store, screen, servers
  <2>7. ASSUME NEW p \in Products, Decrease(p) PROVE TypeOK'
    BY <2>7 DEF Decrease, SetQuantity, screen, client, servers
  <2>8. ASSUME NEW p \in Products, Delete(p) PROVE TypeOK'
    BY <2>8 DEF Delete, DeleteItem, SetQuantity, screen, client, servers
  <2>9. CASE OpenCheckout
    BY <2>a, <2>b, <2>9 DEF OpenCheckout, Die, servers
  <2>10. CASE Back
    BY <2>a, <2>10 DEF Back, client, servers
  <2>11. CASE UserLoaded
    BY <2>11 DEF UserLoaded, client, servers
  <2>12. CASE SelectPayment
    BY <2>12 DEF SelectPayment, client, servers
  <2>13. ASSUME NEW addr \in Addresses, SelectAddress(addr) PROVE TypeOK'
    BY <2>13 DEF SelectAddress, SetAddress, screen, client, servers
  <2>14. CASE TapCheckout
    BY <2>14 DEF TapCheckout, client, servers
  <2>15. CASE PinCreated
    BY <2>15 DEF PinCreated, client, servers
  <2>16. ASSUME NEW a \in Attempts, Submit(a) PROVE TypeOK'
    BY <2>16 DEF Submit, PostOrder, PostBill, LegsOf
  <2>17. ASSUME NEW a \in Attempts, SubmitTraps(a) PROVE TypeOK'
    BY <2>a, <2>b, <2>17 DEF SubmitTraps, PostOrder
  <2>18. ASSUME NEW a \in Attempts, ShopServes(a) PROVE TypeOK'
    BY <2>18 DEF ShopServes, screen, client
  <2>19. ASSUME NEW a \in Attempts, GatewayServes(a) PROVE TypeOK'
    BY <2>19 DEF GatewayServes, screen, client
  <2>20. ASSUME NEW a \in Attempts, ShopAnswers(a) PROVE TypeOK'
    BY <2>20 DEF ShopAnswers, Leave, screen, servers
  <2>21. ASSUME NEW a \in Attempts, GatewayAnswers(a) PROVE TypeOK'
    BY <2>21 DEF GatewayAnswers, Leave, servers
  <2>22. ASSUME NEW a \in Attempts, Notify(a) PROVE TypeOK'
    BY <2>22 DEF Notify, Answered, DeleteAllItems, DeleteAllDrafts, NoItems, servers
  <2>23. ASSUME NEW a \in Attempts, NotifyCut(a) PROVE TypeOK'
    BY <2>a, <2>b, <2>23 DEF NotifyCut, DeleteAllItems, NoItems, Die, servers
  <2>24. ASSUME NEW a \in Attempts, OpenPayment(a) PROVE TypeOK'
    BY <2>24 DEF OpenPayment, client, servers
  <2>25. CASE LeavePayment
    BY <2>a, <2>25 DEF LeavePayment, client, servers
  <2>26. CASE PinGone
    BY <2>26 DEF PinGone, client, servers
  <2>27. CASE UNCHANGED vars
    BY <2>27 DEF vars
  <2>. QED
    BY <2>1, <2>2, <2>3, <2>4, <2>5, <2>6, <2>7, <2>8, <2>9, <2>10, <2>11, <2>12,
       <2>13, <2>14, <2>15, <2>16, <2>17, <2>18, <2>19, <2>20, <2>21, <2>22, <2>23,
       <2>24, <2>25, <2>26, <2>27 DEF Next
<1>. QED
  BY <1>1, <1>2, PTL DEF Spec

-----------------------------------------------------------------------------
\* The inductive step for the conjuncts about the cart, the draft and the
\* requests; TypeOK has its own theorem above.
LEMMA IInvStep ==
  ASSUME IInv, TypeOK', [Next]_vars
  PROVE  IInv'
<1>. USE StoreAssumption, AttemptAssumption
<1>. USE DEF IInv, TypeOK, StoreTypeOK, Carts, NoItems, Places, Legs, Fates, FreshVM,
         NoPage,
         NothingSentWhenIdle, DownRunsNothing, ItemsHaveDraft, PinGuardsDraft, ScreenOwns,
         OrdersAddressed, ChargedOrdersExist, PaymentMeansEmptyCart, PageIsOwn
<1>a. Abandoned \in [Attempts -> {"idle", "running", "closed", "lost"}]
     /\ \A a \in Attempts : /\ job[a] = "idle" <=> Abandoned[a] = "idle"
                            /\ Abandoned[a] # "running"
  BY DEF Abandoned
<1>1. CASE Kill
  BY <1>1, <1>a DEF Kill, Die, GoTo
<1>2. CASE Relaunch
  BY <1>2 DEF Relaunch, GoTo
<1>3. ASSUME NEW p \in Products, AddToCart(p) PROVE IInv'
  BY <1>3, <1>a DEF AddToCart, AddItem, Die, GoTo, store, screen, servers
<1>4. CASE OpenCart
  BY <1>4 DEF OpenCart, GoTo, client, servers
<1>5. CASE CloseCart
  BY <1>5 DEF CloseCart, GoTo, client, servers
<1>6. ASSUME NEW p \in Products, Increase(p) PROVE IInv'
  BY <1>6, <1>a DEF Increase, SetQuantity, Die, GoTo, store, screen, servers
<1>7. ASSUME NEW p \in Products, Decrease(p) PROVE IInv'
  BY <1>7 DEF Decrease, SetQuantity, screen, client, servers
<1>8. ASSUME NEW p \in Products, Delete(p) PROVE IInv'
  BY <1>8 DEF Delete, DeleteItem, SetQuantity, screen, client, servers
<1>9. CASE OpenCheckout
  BY <1>9, <1>a DEF OpenCheckout, Die, GoTo, servers
<1>10. CASE Back
  BY <1>10 DEF Back, GoTo, client, servers
<1>11. CASE UserLoaded
  BY <1>11 DEF UserLoaded, client, servers
<1>12. CASE SelectPayment
  BY <1>12 DEF SelectPayment, client, servers
<1>13. ASSUME NEW addr \in Addresses, SelectAddress(addr) PROVE IInv'
  BY <1>13 DEF SelectAddress, SetAddress, screen, client, servers
<1>14. CASE TapCheckout
  BY <1>14 DEF TapCheckout, client, servers
<1>15. CASE PinCreated
  BY <1>15 DEF PinCreated, client, servers
<1>16. ASSUME NEW a \in Attempts, Submit(a) PROVE IInv'
  BY <1>16 DEF Submit, PostOrder, PostBill, OrderBody, BillBody
<1>17. ASSUME NEW a \in Attempts, SubmitTraps(a) PROVE IInv'
  BY <1>17, <1>a DEF SubmitTraps, PostOrder, OrderBody, GoTo
<1>18. ASSUME NEW a \in Attempts, ShopServes(a) PROVE IInv'
  BY <1>18 DEF ShopServes, screen, client
<1>19. ASSUME NEW a \in Attempts, GatewayServes(a) PROVE IInv'
  BY <1>19 DEF GatewayServes, screen, client
<1>20. ASSUME NEW a \in Attempts, ShopAnswers(a) PROVE IInv'
  BY <1>20 DEF ShopAnswers, Leave, screen, servers
<1>21. ASSUME NEW a \in Attempts, GatewayAnswers(a) PROVE IInv'
  BY <1>21 DEF GatewayAnswers, Leave, servers
<1>22. ASSUME NEW a \in Attempts, Notify(a) PROVE IInv'
  BY <1>22 DEF Notify, Answered, DeleteAllItems, DeleteAllDrafts, servers
<1>23. ASSUME NEW a \in Attempts, NotifyCut(a) PROVE IInv'
  BY <1>23, <1>a DEF NotifyCut, DeleteAllItems, Die, GoTo, servers
<1>24. ASSUME NEW a \in Attempts, OpenPayment(a) PROVE IInv'
  BY <1>24 DEF OpenPayment, client, servers
<1>25. CASE LeavePayment
  BY <1>25 DEF LeavePayment, GoTo, client, servers
<1>26. CASE PinGone
  BY <1>26 DEF PinGone, client, servers
<1>27. CASE UNCHANGED vars
  BY <1>27 DEF vars
<1>. QED
  BY <1>1, <1>2, <1>3, <1>4, <1>5, <1>6, <1>7, <1>8, <1>9, <1>10, <1>11, <1>12, <1>13, <1>14, <1>15, <1>16, <1>17, <1>18, <1>19, <1>20, <1>21, <1>22, <1>23, <1>24, <1>25, <1>26, <1>27 DEF Next

\* The strengthened invariant holds throughout.
THEOREM Inductive == Spec => []IInv
<1>1. Init => IInv
  <2>. SUFFICES ASSUME Init PROVE IInv
    OBVIOUS
  <2>1. TypeOK
    BY StoreAssumption DEF Init, StoreInit, TypeOK, StoreTypeOK, Carts, NoItems,
       Places, Legs, Fates, FreshVM, NoPage
  <2>. QED
    BY <2>1, AttemptAssumption
    DEF Init, StoreInit, FreshVM, IInv, NothingSentWhenIdle, DownRunsNothing,
        ItemsHaveDraft, PinGuardsDraft, ScreenOwns, OrdersAddressed, ChargedOrdersExist,
        PaymentMeansEmptyCart, PageIsOwn
<1>2. IInv /\ TypeOK' /\ [Next]_vars => IInv'
  BY IInvStep
<1>. QED
  BY TypeCorrect, <1>1, <1>2, PTL DEF Spec

\* No order reaches the shop with the placeholder or without an address.
THEOREM EveryOrderIsAddressed == Spec => []OrdersAddressed
<1>1. IInv => OrdersAddressed
  BY DEF IInv
<1>. QED
  BY Inductive, <1>1, PTL

\* No bill that lists anything reaches the gateway without its order.
THEOREM EveryBillHasItsOrder == Spec => []ChargedOrdersExist
<1>1. IInv => ChargedOrdersExist
  BY DEF IInv
<1>. QED
  BY Inductive, <1>1, PTL

\* Items in the cart always have a draft, whatever was killed when.
THEOREM CartHasDraft == Spec => []ItemsHaveDraft
<1>1. IInv => ItemsHaveDraft
  BY DEF IInv
<1>. QED
  BY Inductive, <1>1, PTL

\* The payment page, shown or about to be, comes with an empty cart.
THEOREM PaymentPageFindsCartEmpty == Spec => []PaymentMeansEmptyCart
<1>1. IInv => PaymentMeansEmptyCart
  BY DEF IInv
<1>. QED
  BY Inductive, <1>1, PTL

\* The payment page shows an order and a payment of its own screen.
THEOREM PaymentPageShowsItsOwn == Spec => []PageIsOwn
<1>1. IInv => PageIsOwn
  BY DEF IInv
<1>. QED
  BY Inductive, <1>1, PTL

-----------------------------------------------------------------------------
\* Away from the cart screen only a fully answered attempt empties the cart.
THEOREM CartEmptiedOnlyWhenAnswered == Spec => EmptiedWhenAnswered
<1>. DEFINE ByAnAttempt == \E a \in Attempts : /\ job[a] = "running" /\ group[a] = {}
                                               /\ job'[a] # "running"
            Emptied == items # NoItems /\ items' = NoItems /\ place # "cart"
<1>1. TypeOK /\ [Next]_vars => [Emptied => ByAnAttempt]_vars
  <2>. SUFFICES ASSUME TypeOK, Next, Emptied PROVE ByAnAttempt
    BY DEF vars
  <2>. USE DEF TypeOK, StoreTypeOK, Carts, NoItems
  <2>1. ASSUME NEW a \in Attempts, Notify(a) PROVE ByAnAttempt
    BY <2>1 DEF Notify, Answered
  <2>2. ASSUME NEW a \in Attempts, NotifyCut(a) PROVE ByAnAttempt
    BY <2>2 DEF NotifyCut, Answered, Die, Abandoned
  <2>3. ASSUME NEW p \in Products, AddToCart(p) PROVE FALSE
    BY <2>3, StoreAssumption DEF AddToCart, AddItem, store
  <2>4. ASSUME NEW p \in Products, Increase(p) \/ Decrease(p) \/ Delete(p) PROVE FALSE
    BY <2>4 DEF Increase, Decrease, Delete
  <2>5. ASSUME NEW addr \in Addresses, SelectAddress(addr) PROVE FALSE
    BY <2>5 DEF SelectAddress, SetAddress
  <2>6. ASSUME UNCHANGED items PROVE FALSE
    BY <2>6
  <2>. QED
    BY <2>1, <2>2, <2>3, <2>4, <2>5, <2>6
    DEF Next, Kill, Relaunch, OpenCart, CloseCart, OpenCheckout, Back, UserLoaded,
        SelectPayment, TapCheckout, PinCreated, PinGone, Submit, SubmitTraps, ShopServes,
        GatewayServes, ShopAnswers, GatewayAnswers, OpenPayment, LeavePayment
<1>. QED
  BY TypeCorrect, <1>1, PTL DEF Spec, EmptiedWhenAnswered

-----------------------------------------------------------------------------
\* Checkout implements OrderContract: every step is a step of the contract or
\* leaves where, basket and job as they are.
LEMMA WhereIs ==
  ASSUME place \in Places
  PROVE  /\ Where = "shopping" <=> place \in {"shop", "cart"}
         /\ Where = "buying" <=> place = "checkout"
         /\ Where = "paying" <=> place = "payment"
         /\ Where = "off" <=> place = "down"
  BY DEF Where, Places

LEMMA WhereIsNext ==
  ASSUME place' \in Places
  PROVE  /\ Where' = "shopping" <=> place' \in {"shop", "cart"}
         /\ Where' = "buying" <=> place' = "checkout"
         /\ Where' = "paying" <=> place' = "payment"
         /\ Where' = "off" <=> place' = "down"
  BY DEF Where, Places

LEMMA ContractStep ==
  ASSUME IInv, TypeOK', [Next]_vars
  PROVE  [Contract!CNext]_(Contract!cvars)
<1>. USE StoreAssumption, AttemptAssumption, WhereIs, WhereIsNext
<1>. USE DEF IInv, TypeOK, StoreTypeOK, Carts, NoItems, Places,
         Contract!CNext, Contract!cvars
<1>a. ASSUME place # "down", Die, UNCHANGED items PROVE Contract!Crash
  <2>1. job' = [a \in Attempts |->
                  IF a \in Contract!Running \cup {} THEN "lost" ELSE job[a]]
    BY <1>a DEF Die, Abandoned, Contract!Running
  <2>. QED
    BY <1>a, <2>1 DEF Die, GoTo, Contract!Crash
<1>b. ASSUME place = place', UNCHANGED job, items # NoItems <=> items' # NoItems
      PROVE  UNCHANGED <<Where, items # NoItems, job>>
  BY <1>b DEF Where
<1>c. ASSUME place \in {"shop", "cart"}, UNCHANGED <<place, job>> PROVE Contract!Edit
  BY <1>c DEF Contract!Edit, Where
<1>d. ASSUME NEW p \in Places, GoTo(p), UNCHANGED <<items, job>>,
             <<place, p>> \in {<<"down", "shop">>, <<"cart", "checkout">>,
                               <<"checkout", "cart">>, <<"payment", "shop">>}
      PROVE  Contract!Move
  BY <1>d DEF GoTo, Contract!Move, Where
<1>1. CASE Kill
  BY <1>1, <1>a DEF Kill
<1>2. CASE Relaunch
  BY <1>2, <1>d DEF Relaunch
<1>3. ASSUME NEW p \in Products, AddToCart(p) PROVE Contract!Edit \/ Contract!Crash
  BY <1>3, <1>a, <1>c DEF AddToCart, store, screen
<1>4. CASE OpenCart \/ CloseCart
  BY <1>4 DEF OpenCart, CloseCart, GoTo, client, Where
<1>5. ASSUME NEW p \in Products, Increase(p) PROVE Contract!Edit \/ Contract!Crash
  BY <1>5, <1>a, <1>c DEF Increase, store, screen
<1>6. ASSUME NEW p \in Products, Decrease(p) \/ Delete(p) PROVE Contract!Edit
  BY <1>6, <1>c DEF Decrease, Delete, screen, client
<1>7. CASE OpenCheckout
  BY <1>7, <1>a, <1>d DEF OpenCheckout
<1>8. CASE Back \/ LeavePayment
  BY <1>8, <1>d DEF Back, LeavePayment, client
<1>9. CASE UserLoaded \/ SelectPayment \/ TapCheckout \/ PinCreated \/ PinGone
  BY <1>9, <1>b DEF UserLoaded, SelectPayment, TapCheckout, PinCreated, PinGone, client
<1>10. ASSUME NEW addr \in Addresses, SelectAddress(addr)
       PROVE  UNCHANGED <<Where, items # NoItems, job>>
  BY <1>10, <1>b DEF SelectAddress, SetAddress, screen, client
<1>11. ASSUME NEW a \in Attempts, Submit(a) PROVE Contract!Begin(a)
  BY <1>11 DEF Submit, PinGuardsDraft, Contract!Begin, Where
<1>12. ASSUME NEW a \in Attempts, SubmitTraps(a) PROVE Contract!Crash
  <2>1. {a} \in SUBSET {b \in Attempts : job[b] = "idle"}
    BY <1>12 DEF SubmitTraps
  <2>2. job' = [b \in Attempts |->
                  IF b \in Contract!Running \cup {a} THEN "lost" ELSE job[b]]
    BY <1>12 DEF SubmitTraps, Abandoned, Contract!Running
  <2>. QED
    BY <1>12, <2>1, <2>2 DEF SubmitTraps, GoTo, PinGuardsDraft, Contract!Crash
<1>13. ASSUME NEW a \in Attempts,
              ShopServes(a) \/ GatewayServes(a) \/ ShopAnswers(a) \/ GatewayAnswers(a)
       PROVE  UNCHANGED <<Where, items # NoItems, job>>
  BY <1>13, <1>b DEF ShopServes, GatewayServes, ShopAnswers, GatewayAnswers, screen, client
<1>14. ASSUME NEW a \in Attempts, Notify(a) PROVE Contract!Close(a)
  BY <1>14 DEF Notify, Answered, DeleteAllItems, DownRunsNothing, Contract!Close,
               Contract!Running, Where
<1>15. ASSUME NEW a \in Attempts, NotifyCut(a) PROVE Contract!Crash
  <2>1. job' = [b \in Attempts |->
                  IF b \in Contract!Running \cup {} THEN "lost" ELSE job[b]]
    BY <1>15 DEF NotifyCut, Die, Abandoned, Contract!Running
  <2>2. Contract!Running # {}
    BY <1>15 DEF NotifyCut, Answered, Contract!Running
  <2>3. Where # "off" /\ Where' = "off" /\ (items' # NoItems) = FALSE
    BY <1>15 DEF NotifyCut, Answered, DeleteAllItems, Die, GoTo, DownRunsNothing
  <2>. QED
    BY <2>1, <2>2, <2>3 DEF Contract!Crash
<1>16. ASSUME NEW a \in Attempts, OpenPayment(a) PROVE Contract!ShowPayment
  BY <1>16 DEF OpenPayment, client, ScreenOwns, PaymentMeansEmptyCart,
               Contract!ShowPayment, Contract!Closed, Where
<1>17. CASE UNCHANGED vars
  BY <1>17, <1>b DEF vars
<1>. QED
  BY <1>1, <1>2, <1>3, <1>4, <1>5, <1>6, <1>7, <1>8, <1>9, <1>10, <1>11, <1>12,
     <1>13, <1>14, <1>15, <1>16, <1>17 DEF Next

\* The app never does what the contract of buying does not allow.
THEOREM ImplementsContract == Spec => KeepsContract
<1>1. Init => Contract!CInit
  BY DEF Init, StoreInit, Where, Contract!CInit
<1>2. IInv /\ TypeOK' /\ [Next]_vars => [Contract!CNext]_(Contract!cvars)
  BY ContractStep
<1>. QED
  BY Inductive, TypeCorrect, <1>1, <1>2, PTL DEF Spec, KeepsContract, Contract!CSpec

-----------------------------------------------------------------------------
(* Sums over the cart.                                                     *)

\* The member of s a sum takes first.
Pick(s) == CHOOSE x \in s : TRUE

\* h gives the sum of v over every subset of S, the way the cart is summed.
Sums(h, v, S) ==
    h = [s \in SUBSET S |-> IF s = {} THEN 0 ELSE v[Pick(s)] + h[s \ {Pick(s)}]]

\* Counting from zero reaches every natural: a set that misses one misses a
\* least one.
LEMMA CountUp ==
    ASSUME NEW T \in SUBSET Nat, 0 \in T, \A n \in T : n + 1 \in T
    PROVE  \A n \in Nat : n \in T
<1> DEFINE Missed == Nat \ T
<1> SUFFICES ASSUME Missed # {} PROVE FALSE
  OBVIOUS
<1>1. Missed \in SUBSET Nat
  OBVIOUS
<1> HIDE DEF Missed
<1>2. PICK m \in Missed : \A k \in Missed : ~(<<k, m>> \in OpToRel(<, Nat))
  BY <1>1, NatLessThanWellFounded, WFMin, Zenon
<1>3. m \in Nat /\ m \notin T
  BY <1>1, <1>2 DEF Missed
<1>4. m # 0 /\ m - 1 \in Nat /\ m - 1 < m
  BY <1>3
<1>5. m - 1 \notin Missed
  BY <1>2, <1>3, <1>4 DEF OpToRel
<1>6. m - 1 \in T
  BY <1>4, <1>5 DEF Missed
<1>7. QED
  BY <1>3, <1>4, <1>6

\* Taking the first member away leaves a smaller subset.
LEMMA WithoutFirst ==
    ASSUME NEW S, IsFiniteSet(S), NEW s \in SUBSET S, s # {}
    PROVE  /\ Pick(s) \in s /\ s \ {Pick(s)} \in SUBSET S
           /\ Cardinality(s) \in Nat \ {0}
           /\ Cardinality(s \ {Pick(s)}) = Cardinality(s) - 1
<1>1. Pick(s) \in s
  BY DEF Pick
<1>2. IsFiniteSet(s)
  BY FS_Subset
<1>3. Cardinality(s) \in Nat /\ Cardinality(s) # 0
  BY <1>2, FS_CardinalityType, FS_EmptySet
<1>4. QED
  BY <1>1, <1>2, <1>3, FS_RemoveElement

\* What holds of the empty cart and of every cart without its first member
\* holds of the cart.
LEMMA OneByOne ==
    ASSUME NEW S, IsFiniteSet(S), NEW Q, {} \in Q,
           \A s \in SUBSET S : s # {} /\ s \ {Pick(s)} \in Q => s \in Q
    PROVE  S \in Q
<1> DEFINE T == {n \in Nat : \A s \in SUBSET S : Cardinality(s) = n => s \in Q}
<1>1. 0 \in T
  <2>1. ASSUME NEW s \in SUBSET S, Cardinality(s) = 0 PROVE s = {}
    BY <2>1, FS_Subset, FS_EmptySet
  <2>2. QED
    BY <2>1
<1>2. ASSUME NEW n \in T PROVE n + 1 \in T
  <2>1. n \in Nat /\ n + 1 \in Nat
    OBVIOUS
  <2>2. ASSUME NEW s \in SUBSET S, Cardinality(s) = n + 1 PROVE s \in Q
    <3>1. s # {}
      BY <2>1, <2>2, FS_EmptySet
    <3>2. s \ {Pick(s)} \in SUBSET S /\ Cardinality(s \ {Pick(s)}) = n
      BY <2>1, <2>2, <3>1, WithoutFirst
    <3>3. QED
      BY <3>1, <3>2
  <2>3. QED
    BY <2>1, <2>2
<1>3. Cardinality(S) \in Nat
  BY FS_CardinalityType
<1>4. Cardinality(S) \in T
  <2> HIDE DEF T
  <2>1. QED
    BY <1>1, <1>2, <1>3, CountUp DEF T
<1>5. QED
  BY <1>4

\* Finite sums exist.
LEMMA SumExists ==
    ASSUME NEW S, IsFiniteSet(S), NEW v \in [S -> Nat]
    PROVE  \E h : Sums(h, v, S)
<1> DEFINE Small(n) == {s \in SUBSET S : Cardinality(s) <= n}
           body(h, s) == IF s = {} THEN 0 ELSE v[Pick(s)] + h[s \ {Pick(s)}]
           T == {n \in Nat : \E h \in [Small(n) -> Nat] : \A s \in Small(n) : h[s] = body(h, s)}
<1>1. 0 \in T
  <2> DEFINE h == [s \in Small(0) |-> 0]
  <2>1. ASSUME NEW s \in Small(0) PROVE s = {}
    <3>1. IsFiniteSet(s) /\ Cardinality(s) <= 0
      BY FS_Subset
    <3>2. Cardinality(s) = 0
      BY <3>1, FS_CardinalityType
    <3>3. QED
      BY <3>1, <3>2, FS_EmptySet
  <2>2. h \in [Small(0) -> Nat] /\ \A s \in Small(0) : h[s] = body(h, s)
    BY <2>1
  <2>3. QED
    BY <2>2
<1>2. ASSUME NEW n \in T PROVE n + 1 \in T
  <2>1. n \in Nat /\ n + 1 \in Nat
    OBVIOUS
  <2>2. PICK h \in [Small(n) -> Nat] : \A s \in Small(n) : h[s] = body(h, s)
    OBVIOUS
  <2> DEFINE e == [s \in Small(n + 1) |-> body(h, s)]
  <2>3. ASSUME NEW s \in Small(n + 1), s # {}
        PROVE  /\ Pick(s) \in S /\ s \ {Pick(s)} \in Small(n)
               /\ s \ {Pick(s)} \in Small(n + 1)
    <3>1. /\ Pick(s) \in s /\ s \ {Pick(s)} \in SUBSET S
          /\ Cardinality(s) \in Nat /\ Cardinality(s) <= n + 1
          /\ Cardinality(s \ {Pick(s)}) = Cardinality(s) - 1
      BY <2>3, WithoutFirst
    <3>2. QED
      BY <2>1, <3>1
  <2>4. e \in [Small(n + 1) -> Nat]
    <3>1. ASSUME NEW s \in Small(n + 1) PROVE body(h, s) \in Nat
      BY <2>3
    <3>2. QED
      BY <3>1
  <2>5. ASSUME NEW s \in Small(n + 1) PROVE e[s] = body(e, s)
    <3>1. CASE s = {}
      BY <3>1
    <3>2. CASE s # {}
      <4> DEFINE r == s \ {Pick(s)}
      <4>1. r \in Small(n) /\ r \in Small(n + 1)
        BY <2>3, <3>2
      <4>2. e[r] = h[r]
        <5>1. e[r] = body(h, r) /\ h[r] = body(h, r)
          BY <2>2, <4>1
        <5>2. QED
          BY <5>1
      <4>3. e[s] = v[Pick(s)] + h[r]
        BY <3>2
      <4> HIDE DEF e
      <4>4. QED
        BY <3>2, <4>2, <4>3
    <3>3. QED
      BY <3>1, <3>2
  <2> HIDE DEF e
  <2>6. QED
    BY <2>1, <2>4, <2>5
<1>3. Cardinality(S) \in T
  <2>1. Cardinality(S) \in Nat
    BY FS_CardinalityType
  <2> HIDE DEF T
  <2>2. QED
    BY <1>1, <1>2, <2>1, CountUp DEF T
<1>4. Small(Cardinality(S)) = SUBSET S
  BY FS_Subset
<1>5. PICK h \in [SUBSET S -> Nat] : \A s \in SUBSET S : h[s] = body(h, s)
  BY <1>3, <1>4
<1>6. h = [s \in SUBSET S |-> body(h, s)]
  BY <1>5
<1>7. QED
  BY <1>6 DEF Sums

\* Summing keeps bounds: of every term, truncated to d and short of less than
\* q, and so of the sums.
LEMMA SumsCompare ==
    ASSUME NEW S, IsFiniteSet(S), NEW U \in Nat,
           NEW d \in [S -> Nat], NEW q \in [S -> Nat], NEW t \in [S -> Nat],
           \A p \in S : U * d[p] <= t[p] /\ t[p] <= U * d[p] + U * q[p],
           NEW hd, Sums(hd, d, S), NEW hq, Sums(hq, q, S), NEW ht, Sums(ht, t, S)
    PROVE  /\ hd[S] \in Nat /\ hq[S] \in Nat /\ ht[S] \in Nat
           /\ U * hd[S] <= ht[S] /\ ht[S] <= U * hd[S] + U * hq[S]
<1> DEFINE Holds(s) == /\ hd[s] \in Nat /\ hq[s] \in Nat /\ ht[s] \in Nat
                       /\ U * hd[s] <= ht[s] /\ ht[s] <= U * hd[s] + U * hq[s]
           Q == {s \in SUBSET S : Holds(s)}
<1>1. {} \in Q
  <2>1. hd[{}] = 0 /\ hq[{}] = 0 /\ ht[{}] = 0
    BY DEF Sums
  <2>2. U * 0 = 0
    OBVIOUS
  <2>3. Holds({})
    BY <2>1, <2>2
  <2>4. QED
    BY <2>3
<1>2. ASSUME NEW s \in SUBSET S, s # {}, s \ {Pick(s)} \in Q PROVE s \in Q
  <2> DEFINE x == Pick(s)
             r == s \ {Pick(s)}
  <2>1. hd[s] = d[x] + hd[r] /\ hq[s] = q[x] + hq[r] /\ ht[s] = t[x] + ht[r]
    BY <1>2 DEF Sums
  <2>2. x \in S
    BY <1>2, WithoutFirst
  <2>3. /\ d[x] \in Nat /\ q[x] \in Nat /\ t[x] \in Nat
        /\ U * d[x] <= t[x] /\ t[x] <= U * d[x] + U * q[x]
    BY <2>2
  <2>4. Holds(r)
    BY <1>2
  <2> HIDE DEF x, r
  <2>5. U * (d[x] + hd[r]) = U * d[x] + U * hd[r] /\ U * (q[x] + hq[r]) = U * q[x] + U * hq[r]
    BY <2>3, <2>4
  <2>6. Holds(s)
    BY <2>1, <2>3, <2>4, <2>5
  <2>7. QED
    BY <2>6
<1>3. S \in Q
  <2> HIDE DEF Q
  <2>1. QED
    BY <1>1, <1>2, OneByOne
<1>4. QED
  BY <1>3

\* A sum of nothing is nothing.
LEMMA SumOfZeros ==
    ASSUME NEW S, IsFiniteSet(S), NEW v \in [S -> Nat], \A p \in S : v[p] = 0,
           NEW h, Sums(h, v, S)
    PROVE  h[S] = 0
<1> DEFINE Q == {s \in SUBSET S : h[s] = 0}
<1>1. {} \in Q
  <2>1. h[{}] = 0
    BY DEF Sums
  <2>2. QED
    BY <2>1
<1>2. ASSUME NEW s \in SUBSET S, s # {}, s \ {Pick(s)} \in Q PROVE s \in Q
  <2>1. h[s] = v[Pick(s)] + h[s \ {Pick(s)}]
    BY <1>2 DEF Sums
  <2>2. v[Pick(s)] = 0 /\ h[s \ {Pick(s)}] = 0
    BY <1>2, WithoutFirst
  <2>3. QED
    BY <2>1, <2>2
<1>3. S \in Q
  <2> HIDE DEF Q
  <2>1. QED
    BY <1>1, <1>2, OneByOne
<1>4. QED
  BY <1>3

\* The three sums of a cart, each of a price per line.
LEMMA CartSums ==
    ASSUME NEW cart \in Carts
    PROVE  /\ \E h : /\ Sums(h, [p \in Products |-> (Price[p] \div Unit) * cart[p]], Products)
                     /\ Lines(cart) = h[Products]
           /\ \E h : /\ Sums(h, [p \in Products |-> cart[p]], Products)
                     /\ Units(cart) = h[Products]
           /\ \E h : /\ Sums(h, [p \in Products |-> Price[p] * cart[p]], Products)
                     /\ Dollars(cart) = h[Products] \div Unit
<1> USE StoreAssumption
<1> DEFINE lineOf == [p \in Products |-> (Price[p] \div Unit) * cart[p]]
           unitsOf == [p \in Products |-> cart[p]]
           priceOf == [p \in Products |-> Price[p] * cart[p]]
<1>0. /\ \A p \in Products : Price[p] \in Nat /\ cart[p] \in Nat
      /\ \A p \in Products : Price[p] \div Unit \in Nat
  BY DEF Carts
<1>1. /\ lineOf \in [Products -> Nat] /\ unitsOf \in [Products -> Nat]
      /\ priceOf \in [Products -> Nat]
  BY <1>0
<1>2. \A s \in SUBSET Products : s # {} => (CHOOSE x \in s : TRUE) \in Products
  OBVIOUS
<1>3. \E h : Sums(h, lineOf, Products) /\ Lines(cart) = h[Products]
  <2> DEFINE IsIter(h) == h = [s \in SUBSET Products |->
                IF s = {} THEN 0
                ELSE (Price[CHOOSE x \in s : TRUE] \div Unit) * cart[CHOOSE x \in s : TRUE]
                     + h[s \ {CHOOSE x \in s : TRUE}]]
             iter == CHOOSE h : IsIter(h)
  <2>1. \A h : IsIter(h) <=> Sums(h, lineOf, Products)
    BY <1>2 DEF Sums, Pick
  <2>2. \E h : Sums(h, lineOf, Products)
    BY <1>1, SumExists
  <2>3. Lines(cart) = iter[Products]
    BY DEF Lines, MapThenSumSet, MapThenFoldSet
  <2> HIDE DEF IsIter
  <2>4. QED
    BY <2>1, <2>2, <2>3
<1>4. \E h : Sums(h, unitsOf, Products) /\ Units(cart) = h[Products]
  <2> DEFINE IsIter(h) == h = [s \in SUBSET Products |->
                IF s = {} THEN 0
                ELSE cart[CHOOSE x \in s : TRUE] + h[s \ {CHOOSE x \in s : TRUE}]]
             iter == CHOOSE h : IsIter(h)
  <2>1. \A h : IsIter(h) <=> Sums(h, unitsOf, Products)
    BY <1>2 DEF Sums, Pick
  <2>2. \E h : Sums(h, unitsOf, Products)
    BY <1>1, SumExists
  <2>3. Units(cart) = iter[Products]
    BY DEF Units, MapThenSumSet, MapThenFoldSet
  <2> HIDE DEF IsIter
  <2>4. QED
    BY <2>1, <2>2, <2>3
<1>5. \E h : Sums(h, priceOf, Products) /\ Dollars(cart) = h[Products] \div Unit
  <2> DEFINE IsIter(h) == h = [s \in SUBSET Products |->
                IF s = {} THEN 0
                ELSE Price[CHOOSE x \in s : TRUE] * cart[CHOOSE x \in s : TRUE]
                     + h[s \ {CHOOSE x \in s : TRUE}]]
             iter == CHOOSE h : IsIter(h)
  <2>1. \A h : IsIter(h) <=> Sums(h, priceOf, Products)
    BY <1>2 DEF Sums, Pick
  <2>2. \E h : Sums(h, priceOf, Products)
    BY <1>1, SumExists
  <2>3. Dollars(cart) = iter[Products] \div Unit
    BY DEF Dollars, MapThenSumSet, MapThenFoldSet
  <2> HIDE DEF IsIter
  <2>4. QED
    BY <2>1, <2>2, <2>3
<1>6. QED
  BY <1>3, <1>4, <1>5

\* Division by the minor units of a dollar.
LEMMA Division ==
    ASSUME NEW U \in Nat \ {0}, NEW n \in Nat
    PROVE  /\ n \div U \in Nat /\ U * (n \div U) <= n
           /\ n < U * (n \div U) + U
OBVIOUS

LEMMA Scaling ==
    ASSUME NEW U \in Nat \ {0}, NEW a \in Nat, NEW b \in Nat
    PROVE  /\ a <= b => U * a <= U * b
           /\ U * a < U * b + U => a <= b
OBVIOUS

\* Truncating the sum loses what truncating the prices loses, but less than a
\* dollar for every unit.
LEMMA DollarsCoverLines ==
    ASSUME NEW cart \in Carts
    PROVE  /\ Lines(cart) \in Nat /\ Units(cart) \in Nat /\ Dollars(cart) \in Nat
           /\ Lines(cart) <= Dollars(cart)
           /\ Dollars(cart) <= Lines(cart) + Units(cart)
<1> USE StoreAssumption
<1> DEFINE d == [p \in Products |-> (Price[p] \div Unit) * cart[p]]
           q == [p \in Products |-> cart[p]]
           t == [p \in Products |-> Price[p] * cart[p]]
<1>1. PICK hd : Sums(hd, d, Products) /\ Lines(cart) = hd[Products]
  BY CartSums
<1>2. PICK hq : Sums(hq, q, Products) /\ Units(cart) = hq[Products]
  BY CartSums
<1>3. PICK ht : Sums(ht, t, Products) /\ Dollars(cart) = ht[Products] \div Unit
  BY CartSums
<1>4. ASSUME NEW p \in Products
      PROVE  /\ d[p] \in Nat /\ q[p] \in Nat /\ t[p] \in Nat
             /\ Unit * d[p] <= t[p] /\ t[p] <= Unit * d[p] + Unit * q[p]
  <2> DEFINE c == Price[p] \div Unit
             n == cart[p]
  <2>1. Price[p] \in Nat /\ n \in Nat
    BY DEF Carts
  <2>2. c \in Nat /\ Unit * c <= Price[p] /\ Price[p] < Unit * c + Unit
    BY <2>1, Division
  <2>3. d[p] = c * n /\ q[p] = n /\ t[p] = Price[p] * n
    OBVIOUS
  <2> HIDE DEF c, n, d, q, t
  <2>4. (Unit * c) * n <= Price[p] * n /\ Price[p] * n <= (Unit * c + Unit) * n
    BY <2>1, <2>2
  <2>5. (Unit * c) * n = Unit * (c * n) /\ (Unit * c + Unit) * n = Unit * (c * n) + Unit * n
    BY <2>1, <2>2
  <2>6. QED
    BY <2>1, <2>2, <2>3, <2>4, <2>5
<1>5. d \in [Products -> Nat] /\ q \in [Products -> Nat] /\ t \in [Products -> Nat]
  BY <1>4
<1> HIDE DEF d, q, t
<1>6. /\ hd[Products] \in Nat /\ hq[Products] \in Nat /\ ht[Products] \in Nat
      /\ Unit * hd[Products] <= ht[Products]
      /\ ht[Products] <= Unit * hd[Products] + Unit * hq[Products]
  BY <1>1, <1>2, <1>3, <1>4, <1>5, SumsCompare
<1> DEFINE L == hd[Products]
           N == hq[Products]
           P == ht[Products]
           D == P \div Unit
<1>7. D \in Nat /\ Unit * D <= P /\ P < Unit * D + Unit
  BY <1>6, Division
<1>8. Unit * L + Unit * N = Unit * (L + N) /\ L + N \in Nat
  BY <1>6
<1> HIDE DEF L, N, P, D
<1>9. L \in Nat /\ N \in Nat /\ P \in Nat /\ Unit * L <= P /\ P <= Unit * L + Unit * N
  BY <1>6 DEF L, N, P
<1>10. L <= D
  <2>1. Unit * L \in Nat /\ Unit * D \in Nat
    BY <1>7, <1>9
  <2>2. Unit * L < Unit * D + Unit
    BY <1>7, <1>9, <2>1
  <2>3. QED
    BY <1>7, <1>9, <2>2, Scaling
<1>11. D <= L + N
  <2>1. Unit * D \in Nat /\ Unit * (L + N) \in Nat
    BY <1>7, <1>8
  <2>2. Unit * D < Unit * (L + N) + Unit
    BY <1>7, <1>8, <1>9, <2>1
  <2>3. QED
    BY <1>7, <1>8, <2>2, Scaling
<1>12. QED
  BY <1>1, <1>2, <1>3, <1>7, <1>9, <1>10, <1>11 DEF L, N, P, D

\* An empty cart costs nothing.
LEMMA NothingCostsNothing == Dollars(NoItems) = 0
<1> USE StoreAssumption
<1>1. NoItems \in Carts
  BY DEF NoItems, Carts
<1> DEFINE t == [p \in Products |-> Price[p] * NoItems[p]]
<1>2. PICK h : Sums(h, t, Products) /\ Dollars(NoItems) = h[Products] \div Unit
  BY <1>1, CartSums
<1>3. t \in [Products -> Nat] /\ \A p \in Products : t[p] = 0
  BY DEF NoItems
<1> HIDE DEF t
<1>4. h[Products] = 0
  BY <1>2, <1>3, SumOfZeros
<1>5. 0 \div Unit = 0
  OBVIOUS
<1>6. QED
  BY <1>2, <1>4, <1>5

\* The total of the cart fits its Int16 from the moment the checkout screen
\* has computed it: nothing is added to a cart that is being paid for.
TotalFits == place \in {"checkout", "payment"} => Dollars(items) <= Int16Max

\* A step that sends no bill and adds nothing to a cart on its way to payment.
LEMMA BillsStay ==
    ASSUME TotalFits, GrossCoversLines, TypeOK,
           \A a \in Attempts : pay'[a] # "unsent" => pay[a] # "unsent",
           UNCHANGED bill,
           \/ place' \notin {"checkout", "payment"}
           \/ items' = NoItems
           \/ items' = items /\ place \in {"checkout", "payment"}
           \/ items' = items /\ Dollars(items) <= Int16Max
    PROVE  TotalFits' /\ GrossCoversLines'
<1>1. GrossCoversLines'
  BY DEF GrossCoversLines
<1>2. TotalFits'
  BY NothingCostsNothing, StoreAssumption DEF TotalFits
<1>3. QED
  BY <1>1, <1>2

LEMMA BillsStep ==
    ASSUME IInv, TotalFits, GrossCoversLines, [Next]_vars
    PROVE  TotalFits' /\ GrossCoversLines'
<1> DEFINE Fits == TotalFits' /\ GrossCoversLines'
<1>0. TypeOK /\ (place \in {"checkout", "payment"} => Dollars(items) <= Int16Max)
  BY DEF IInv, TotalFits
<1>1. ASSUME UNCHANGED <<bill, pay>>, place' \notin {"checkout", "payment"} PROVE Fits
  BY <1>0, <1>1, BillsStay
<1>2. ASSUME UNCHANGED <<bill, pay, items, place>> PROVE Fits
  <2>1. CASE place \in {"checkout", "payment"}
    BY <1>0, <1>2, <2>1, BillsStay
  <2>2. CASE place \notin {"checkout", "payment"}
    BY <1>1, <1>2, <2>2
  <2>3. QED
    BY <2>1, <2>2
<1>3. CASE Kill \/ Relaunch \/ OpenCart \/ CloseCart \/ Back \/ LeavePayment
  BY <1>1, <1>3 DEF Kill, Relaunch, OpenCart, CloseCart, Back, LeavePayment, Die, GoTo,
                    client, servers
<1>4. ASSUME NEW p \in Products, AddToCart(p) \/ Increase(p) \/ Decrease(p) \/ Delete(p)
      PROVE  Fits
  BY <1>1, <1>4 DEF AddToCart, Increase, Decrease, Delete, Die, GoTo, screen, client, servers
<1>5. CASE OpenCheckout
  <2>1. UNCHANGED <<bill, pay, items>>
    BY <1>5 DEF OpenCheckout, servers
  <2>2. CASE Overflows(items)
    BY <1>1, <1>5, <2>1, <2>2 DEF OpenCheckout, Die, GoTo
  <2>3. CASE ~Overflows(items)
    <3>1. items \in Carts
      BY <1>0 DEF TypeOK, StoreTypeOK
    <3>2. Dollars(items) \in Nat /\ ~(Dollars(items) > Int16Max)
      BY <2>3, <3>1, DollarsCoverLines DEF Overflows
    <3>3. Dollars(items) <= Int16Max
      BY <3>2, StoreAssumption
    <3>4. QED
      BY <1>0, <2>1, <3>3, BillsStay
  <2>4. QED
    BY <2>2, <2>3
<1>6. CASE UserLoaded \/ SelectPayment \/ TapCheckout \/ PinCreated \/ PinGone \/ UNCHANGED vars
  BY <1>2, <1>6 DEF UserLoaded, SelectPayment, TapCheckout, PinCreated, PinGone, client,
                    servers, vars
<1>7. ASSUME NEW addr \in Addresses, SelectAddress(addr) PROVE Fits
  BY <1>2, <1>7 DEF SelectAddress, SetAddress, screen, client, servers
<1>8. ASSUME NEW a \in Attempts, Submit(a) PROVE Fits
  <2>1. /\ bill' = [bill EXCEPT ![a] = BillBody]
        /\ pay' = [pay EXCEPT ![a] = "sent"]
        /\ UNCHANGED <<items, place>>
    BY <1>8 DEF Submit, PostBill
  <2>2. place \in {"checkout", "payment"}
    BY <1>8 DEF Submit, IInv, PinGuardsDraft
  <2>3. /\ BillBody.lines <= BillBody.gross
        /\ BillBody.gross <= BillBody.lines + Units(BillBody.cart)
        /\ BillBody.gross <= Int16Max
    <3>1. items \in Carts /\ Dollars(items) <= Int16Max
      BY <1>0, <2>2 DEF TypeOK, StoreTypeOK
    <3>2. QED
      BY <3>1, DollarsCoverLines DEF BillBody
  <2> HIDE DEF BillBody
  <2>4. GrossCoversLines'
    <3> SUFFICES ASSUME NEW b \in Attempts, pay'[b] # "unsent"
                 PROVE  /\ bill'[b].lines <= bill'[b].gross
                        /\ bill'[b].gross <= bill'[b].lines + Units(bill'[b].cart)
                        /\ bill'[b].gross <= Int16Max
      BY DEF GrossCoversLines
    <3>1. DOMAIN bill = Attempts /\ pay \in [Attempts -> Fates]
      BY <1>0 DEF TypeOK
    <3>2. CASE b = a
      <4>1. bill'[b] = BillBody
        BY <2>1, <3>1, <3>2
      <4>2. QED
        BY <2>3, <4>1
    <3>3. CASE b # a
      <4>1. bill'[b] = bill[b] /\ pay'[b] = pay[b]
        BY <2>1, <3>1, <3>3
      <4>2. QED
        BY <4>1 DEF GrossCoversLines
    <3>4. QED
      BY <3>2, <3>3
  <2>5. TotalFits'
    BY <2>1 DEF TotalFits
  <2>6. QED
    BY <2>4, <2>5
<1>9. ASSUME NEW a \in Attempts, SubmitTraps(a) PROVE Fits
  BY <1>1, <1>9 DEF SubmitTraps, GoTo
<1>10. ASSUME NEW a \in Attempts, ShopServes(a) \/ ShopAnswers(a) \/ GatewayAnswers(a)
       PROVE  Fits
  BY <1>2, <1>10 DEF ShopServes, ShopAnswers, GatewayAnswers, screen, client, servers
<1>11. ASSUME NEW a \in Attempts, GatewayServes(a) PROVE Fits
  <2>1. \A b \in Attempts : pay'[b] # "unsent" => pay[b] # "unsent"
    BY <1>0, <1>11 DEF GatewayServes, TypeOK
  <2>2. UNCHANGED <<bill, items, place>>
    BY <1>11 DEF GatewayServes, screen, client
  <2>3. QED
    BY <1>0, <2>1, <2>2, BillsStay
<1>12. ASSUME NEW a \in Attempts, Notify(a) \/ NotifyCut(a) PROVE Fits
  <2>1. items' = NoItems /\ UNCHANGED <<bill, pay>>
    BY <1>12 DEF Notify, NotifyCut, DeleteAllItems, servers
  <2>2. QED
    BY <1>0, <2>1, BillsStay
<1>13. ASSUME NEW a \in Attempts, OpenPayment(a) PROVE Fits
  <2>1. UNCHANGED <<bill, pay, items>>
    BY <1>13 DEF OpenPayment, client, servers
  <2>2. place \in {"checkout", "payment"}
    BY <1>13 DEF OpenPayment, IInv, ScreenOwns, TypeOK
  <2>3. QED
    BY <1>0, <2>1, <2>2, BillsStay
<1>14. QED
  BY <1>3, <1>4, <1>5, <1>6, <1>7, <1>8, <1>9, <1>10, <1>11, <1>12, <1>13 DEF Next

\* GrossCoversLines: for every price list and cart, and in every interleaving
\* of edits, attempts and crashes, the gross amount sent to the gateway covers
\* the lines it is sent with, exceeds them by at most a dollar per unit, and fits
\* Int16.
THEOREM GrossIsEnough == Spec => []GrossCoversLines
<1>1. Init => TotalFits /\ GrossCoversLines
  BY DEF Init, TotalFits, GrossCoversLines
<1>2. IInv /\ TotalFits /\ GrossCoversLines /\ [Next]_vars => (TotalFits /\ GrossCoversLines)'
  BY BillsStep
<1>3. QED
  BY <1>1, <1>2, Inductive, PTL DEF Spec

-----------------------------------------------------------------------------
(* The PIN screen.                                                         *)

\* A controller that is not on screen is as good as new.
AsNew ==
    phase = "none" => keys /\ ~delete /\ digits = <<>> /\ ~locked /\ ~created

\* Nothing can be matched before a PIN is stored.
NothingToMatch == stored = NoPin => matches = 0 /\ passes = 0 /\ ~locked

\* The screen that created a PIN is on its way out, with no lockout to hold it.
CreatorLeaves == created => phase = "closing" /\ ~locked

\* The bound on full matches.
Bounded == matches + passes <= MaxMatches

\* The inductive invariant.
PinIInv ==
    /\ PinTypeOK
    /\ LockoutExact
    /\ KeypadUsable
    /\ CreationOpensNothing
    /\ AsNew
    /\ NothingToMatch
    /\ CreatorLeaves
    /\ Bounded

USE PinAssumption DEF PinAssumption

LEMMA EmptyRow == <<>> \in Seq(Digits) /\ Len(<<>>) = 0
  OBVIOUS

\* Releasing the controller keeps the inductive invariant.
LEMMA ReleaseStep == ASSUME PinIInv, Release, UNCHANGED stored PROVE PinIInv'
<1>1. stored' = NoPin \/ (stored' \in Seq(Digits) /\ Len(stored') = MaxDigits)
  BY DEF PinIInv, PinTypeOK, Full
<1>2. digits' \in Seq(Digits) /\ Len(digits') <= MaxDigits
  BY EmptyRow DEF Release
<1>3. attempts' \in 0 .. MaxAttempts /\ remaining' \in 0 .. LockoutTime
  BY DEF Release
<1>4. matches' \in 0 .. MaxMatches /\ passes' \in 0 .. MaxMatches
  BY DEF Release
<1>5. /\ keys' \in BOOLEAN /\ delete' \in BOOLEAN
      /\ locked' \in BOOLEAN /\ created' \in BOOLEAN
  BY DEF Release
<1>6. phase' \in {"none", "up", "closing", "held"}
  BY DEF Release
<1>7. PinTypeOK'
  BY <1>1, <1>2, <1>3, <1>4, <1>5, <1>6 DEF PinTypeOK, Full
<1>8. LockoutExact' /\ KeypadUsable' /\ CreationOpensNothing'
  BY DEF Release, LockoutExact, KeypadUsable, CreationOpensNothing
<1>9. AsNew' /\ NothingToMatch' /\ CreatorLeaves' /\ Bounded'
  BY DEF Release, AsNew, NothingToMatch, CreatorLeaves, Bounded
<1>10. QED
  BY <1>7, <1>8, <1>9 DEF PinIInv

\* Where a change of the digits may lead: the facts about Tap and TapDelete.
LEMMA DigitsBecomeStep ==
    ASSUME PinIInv, phase = "up", NEW s \in Seq(Digits), Len(s) <= MaxDigits,
           DigitsBecome(s)
    PROVE  PinIInv'
<1>1. CASE stored = NoPin
  <2>1. NewUser(s)
    BY <1>1 DEF DigitsBecome
  <2>2. ~locked /\ matches = 0 /\ passes = 0
    BY <1>1 DEF PinIInv, NothingToMatch
  <2>3. keys /\ ~created
    BY <2>2 DEF PinIInv, KeypadUsable, CreatorLeaves
  <2>4. CASE Full(s)
    BY <2>1, <2>2, <2>3, <2>4
    DEF NewUser, CreatePin, PinIInv, PinTypeOK, LockoutExact, KeypadUsable,
        CreationOpensNothing, AsNew, NothingToMatch, CreatorLeaves, Bounded,
        Full, lockout
  <2>5. CASE ~Full(s)
    BY <2>1, <2>2, <2>3, <2>5, <1>1
    DEF NewUser, PinIInv, PinTypeOK, LockoutExact, KeypadUsable,
        CreationOpensNothing, AsNew, NothingToMatch, CreatorLeaves, Bounded,
        Full, lockout
  <2>6. QED
    BY <2>4, <2>5
<1>2. CASE stored # NoPin
  <2>1. Examine(s) /\ UNCHANGED <<stored, phase, keys, passes, created>>
    BY <1>2 DEF DigitsBecome, KnownUser
  <2>2. ~created /\ ~created'
    BY <2>1 DEF PinIInv, CreatorLeaves
  <2>3. CASE /\ locked
             /\ digits' = s
             /\ UNCHANGED <<delete, lockout, matches>>
    BY <2>1, <2>2, <2>3, <1>2
    DEF PinIInv, PinTypeOK, LockoutExact, KeypadUsable, CreationOpensNothing,
        AsNew, NothingToMatch, CreatorLeaves, Bounded, Full, lockout
  <2>4. CASE /\ ~locked /\ ~Full(s)
             /\ digits' = s
             /\ delete' = (s # <<>>)
             /\ UNCHANGED <<lockout, matches>>
    BY <2>1, <2>2, <2>4, <1>2
    DEF PinIInv, PinTypeOK, LockoutExact, KeypadUsable, CreationOpensNothing,
        AsNew, NothingToMatch, CreatorLeaves, Bounded, Full, lockout
  <2>5. CASE ~locked /\ Full(s) /\ s = stored /\ Match(s)
    <3>1. s # <<>>
      BY <2>5 DEF Full
    <3>2. QED
      BY <2>1, <2>2, <2>5, <3>1, <1>2
      DEF Match, PinIInv, PinTypeOK, LockoutExact, KeypadUsable, CreationOpensNothing,
          AsNew, NothingToMatch, CreatorLeaves, Bounded, Full, lockout
  <2>6. CASE ~locked /\ Full(s) /\ s # stored /\ Mismatch
    <3>1. attempts + 1 \in 0 .. MaxAttempts /\ remaining = 0
      BY <2>6 DEF PinIInv, PinTypeOK, LockoutExact
    <3>a. locked' <=> attempts + 1 >= MaxAttempts
      BY <2>6, Zenon DEF Mismatch
    <3>2. locked' <=> attempts' = MaxAttempts
      BY <2>6, <3>1, <3>a DEF Mismatch
    <3>3. locked' <=> remaining' > 0
      BY <2>6, <3>1 DEF Mismatch
    <3>4. attempts' \in 0 .. MaxAttempts /\ remaining' \in 0 .. LockoutTime
      BY <2>6, <3>1 DEF Mismatch
    <3>5. locked' \in BOOLEAN /\ delete' = locked'
      BY <2>6 DEF Mismatch
    <3>6. digits' = <<>> /\ matches' = matches
      BY <2>6 DEF Mismatch
    <3>7. QED
      BY <2>1, <2>2, <2>6, <1>2, <3>2, <3>3, <3>4, <3>5, <3>6
      DEF PinIInv, PinTypeOK, LockoutExact, KeypadUsable, CreationOpensNothing,
          AsNew, NothingToMatch, CreatorLeaves, Bounded, Full
  <2>7. QED
    BY <2>1, <2>3, <2>4, <2>5, <2>6, Zenon DEF Examine
<1>3. QED
  BY <1>1, <1>2

\* Every step keeps the inductive invariant.
LEMMA PinIInvStep == PinIInv /\ [PinNext]_pinVars => PinIInv'
<1> SUFFICES ASSUME PinIInv, [PinNext]_pinVars PROVE PinIInv'
  OBVIOUS
<1>a. ASSUME NEW d \in Digits, Tap(d) PROVE PinIInv'
  <2>1. Append(digits, d) \in Seq(Digits) /\ Len(Append(digits, d)) <= MaxDigits
    BY <1>a DEF Tap, PinIInv, PinTypeOK
  <2>2. QED
    BY <1>a, <2>1, DigitsBecomeStep DEF Tap
<1>b. CASE TapDelete
  <2> DEFINE rest == SubSeq(digits, 1, Len(digits) - 1)
  <2>1. digits \in Seq(Digits) /\ Len(digits) \in Nat /\ Len(digits) >= 1
    BY <1>b DEF TapDelete, PinIInv, PinTypeOK
  <2>2. rest \in Seq(Digits) /\ Len(rest) <= MaxDigits
    BY <2>1 DEF PinIInv, PinTypeOK
  <2>3. DigitsBecome(rest) /\ phase = "up"
    BY <1>b DEF TapDelete
  <2>4. QED
    BY <2>2, <2>3, DigitsBecomeStep
<1>c. Release /\ UNCHANGED stored => PinIInv'
  BY ReleaseStep
<1>d. CASE Tick
  <2>1. CASE remaining > 1
    <3>1. /\ remaining' = remaining - 1 /\ ~keys' /\ ~delete'
          /\ UNCHANGED <<stored, phase, digits, attempts, locked, matches, passes, created>>
      BY <1>d, <2>1 DEF Tick, outcome
    <3>a. keys' \in BOOLEAN /\ delete' \in BOOLEAN
      <4>1. remaining # 1
        BY <2>1
      <4>2. QED
        BY <1>d, <4>1, Zenon DEF Tick
    <3>b. remaining' \in 0 .. LockoutTime
      BY <2>1, <3>1 DEF PinIInv, PinTypeOK
    <3>2. PinTypeOK'
      BY <3>1, <3>a, <3>b DEF PinIInv, PinTypeOK, Full
    <3>3. locked /\ LockoutExact'
      BY <2>1, <3>1 DEF PinIInv, PinTypeOK, LockoutExact
    <3>4. QED
      BY <3>1, <3>2, <3>3
      DEF PinIInv, KeypadUsable, CreationOpensNothing, AsNew, NothingToMatch,
          CreatorLeaves, Bounded
  <2>2. CASE remaining = 1 /\ phase # "held"
    <3>1. /\ remaining' = 0 /\ attempts' = 0 /\ ~locked' /\ keys'
          /\ UNCHANGED <<stored, phase, digits, matches, passes, created>>
      BY <1>d, <2>2 DEF Tick, Unlock, outcome
    <3>a. Unlock
      BY <1>d, <2>2 DEF Tick
    <3>2. delete' <=> digits # <<>>
      BY <3>a, Zenon DEF Unlock
    <3>3. keys' \in BOOLEAN /\ delete' \in BOOLEAN /\ locked' \in BOOLEAN
      BY <3>a DEF Unlock
    <3>4. PinTypeOK'
      BY <3>1, <3>3 DEF PinIInv, PinTypeOK, Full
    <3>5. locked /\ LockoutExact'
      BY <2>2, <3>1 DEF PinIInv, LockoutExact
    <3>6. QED
      BY <3>1, <3>2, <3>4, <3>5
      DEF PinIInv, KeypadUsable, CreationOpensNothing, AsNew, NothingToMatch,
          CreatorLeaves, Bounded
  <2>3. CASE remaining = 1 /\ phase = "held"
    BY <1>d, <2>3, <1>c DEF Tick
  <2>4. remaining > 0 /\ remaining \in Nat
    BY <1>d DEF Tick, PinIInv, PinTypeOK
  <2>5. QED
    BY <2>1, <2>2, <2>3, <2>4
<1> USE DEF PinIInv, PinTypeOK, LockoutExact, KeypadUsable, CreationOpensNothing,
            AsNew, NothingToMatch, CreatorLeaves, Bounded, Full
<1>1. CASE Present
  BY <1>1 DEF Present, keypad, lockout, outcome
<1>2. CASE PinKill
  BY <1>2, <1>c DEF PinKill
<1>6. CASE Success
  BY <1>6 DEF Success, Open, keypad, lockout
<1>7. CASE Dismissed
  <2>1. CASE remaining > 0
    BY <1>7, <2>1 DEF Dismissed, keypad, lockout, outcome
  <2>2. CASE remaining = 0
    BY <1>7, <2>2, <1>c DEF Dismissed
  <2>3. QED
    BY <1>7, <2>1, <2>2 DEF Dismissed
<1>8. CASE UNCHANGED pinVars
  BY <1>8 DEF pinVars
<1>9. QED
  BY <1>a, <1>b, <1>d, <1>1, <1>2, <1>6, <1>7, <1>8 DEF PinNext

\* A screen that was never shown.
LEMMA PinInitially == PinInit => PinIInv
<1> SUFFICES ASSUME PinInit PROVE PinIInv
  OBVIOUS
<1>1. digits \in Seq(Digits) /\ Len(digits) <= MaxDigits
  BY EmptyRow DEF PinInit
<1>a. attempts \in 0 .. MaxAttempts /\ remaining \in 0 .. LockoutTime
  BY DEF PinInit
<1>b. matches \in 0 .. MaxMatches /\ passes \in 0 .. MaxMatches
  BY DEF PinInit
<1>c. keys \in BOOLEAN /\ delete \in BOOLEAN /\ locked \in BOOLEAN /\ created \in BOOLEAN
  BY DEF PinInit
<1>d. stored = NoPin /\ phase = "none"
  BY DEF PinInit
<1>2. PinTypeOK
  BY <1>1, <1>a, <1>b, <1>c, <1>d DEF PinTypeOK
<1>3. LockoutExact /\ KeypadUsable /\ CreationOpensNothing
  BY DEF PinInit, LockoutExact, KeypadUsable, CreationOpensNothing
<1>4. AsNew /\ NothingToMatch /\ CreatorLeaves /\ Bounded
  BY DEF PinInit, AsNew, NothingToMatch, CreatorLeaves, Bounded
<1>5. QED
  BY <1>2, <1>3, <1>4 DEF PinIInv

\* The inductive invariant holds in every reachable state.
THEOREM PinInductive == PinSpec => []PinIInv
<1>1. PinInit => PinIInv
  BY PinInitially
<1>2. QED
  BY <1>1, PinIInvStep, PTL DEF PinSpec

\* Type correctness.
THEOREM PinTypeCorrect == PinSpec => []PinTypeOK
<1>1. PinIInv => PinTypeOK
  BY DEF PinIInv
<1>2. QED
  BY <1>1, PinInductive, PTL

\* The screen is locked exactly while its timer runs, after exactly
\* MaxAttempts wrong entries.
THEOREM LockoutIsExact == PinSpec => []LockoutExact
<1>1. PinIInv => LockoutExact
  BY DEF PinIInv
<1>2. QED
  BY <1>1, PinInductive, PTL

\* Outside a lockout the keypad can always be used.
THEOREM KeypadNeverDead == PinSpec => []KeypadUsable
<1>1. PinIInv => KeypadUsable
  BY DEF PinIInv
<1>2. QED
  BY <1>1, PinInductive, PTL

\* The screen that created a PIN lets nothing through.
THEOREM CreationIsNoEntry == PinSpec => []CreationOpensNothing
<1>1. PinIInv => CreationOpensNothing
  BY DEF PinIInv
<1>2. QED
  BY <1>1, PinInductive, PTL

\* During a lockout nothing that is typed counts.
THEOREM LockoutHolds == PinSpec => NoGuessWhileLocked
<1>1. PinIInv /\ [PinNext]_pinVars =>
        [locked /\ locked' => attempts' = attempts /\ matches' <= matches]_pinVars
  <2> SUFFICES ASSUME PinIInv, PinNext, locked, locked'
               PROVE  attempts' = attempts /\ matches' <= matches
    BY DEF pinVars
  <2> USE DEF PinIInv, PinTypeOK, LockoutExact, NothingToMatch
  <2>1. CASE Present
    BY <2>1 DEF Present, lockout, outcome
  <2>2. CASE PinKill
    BY <2>2 DEF PinKill, Release
  <2>3. ASSUME NEW s, DigitsBecome(s) PROVE attempts' = attempts /\ matches' <= matches
    <3>1. Examine(s)
      BY <2>3 DEF DigitsBecome, KnownUser
    <3>2. QED
      BY <3>1 DEF Examine, lockout
  <2>4. ASSUME NEW d \in Digits, Tap(d)
        PROVE  attempts' = attempts /\ matches' <= matches
    BY <2>3, <2>4 DEF Tap
  <2>5. CASE TapDelete
    BY <2>3, <2>5 DEF TapDelete
  <2>6. CASE Tick
    BY <2>6 DEF Tick, Unlock, Release, outcome
  <2>7. CASE Success
    BY <2>7 DEF Success, lockout
  <2>8. CASE Dismissed
    BY <2>8 DEF Dismissed, Release, lockout, outcome
  <2>9. QED
    BY <2>1, <2>2, <2>4, <2>5, <2>6, <2>7, <2>8 DEF PinNext
<1>2. QED
  BY <1>1, PinInductive, PTL DEF PinSpec, NoGuessWhileLocked

-----------------------------------------------------------------------------
(* The two together.                                                       *)

\* What a purchase does to the screen underneath is what Checkout does: its
\* theorems hold of a purchase.
THEOREM PurchaseIsCheckout == PurchaseSpec => Spec
<1>1. PurchaseInit => Init
  BY DEF PurchaseInit
<1>2. [PurchaseNext]_purchaseVars => [Next]_vars
  <2>1. CASE Touch
    BY <2>1 DEF Touch, Next
  <2>2. CASE Background
    BY <2>2 DEF Background, Next
  <2>3. CASE ShowPIN
    BY <2>3 DEF ShowPIN, Next
  <2>4. CASE Key
    BY <2>4 DEF Key, Next
  <2>5. ASSUME NEW released, Order(released) PROVE Next
    BY <2>5 DEF Order, Next
  <2>6. CASE SuccessBlock
    BY <2>5, <2>6 DEF SuccessBlock
  <2>7. Released => [Next]_vars
    BY DEF Released, Next
  <2>8. CASE Late
    BY <2>5, <2>7, <2>8 DEF Late
  <2>9. CASE Settle
    BY <2>7, <2>9 DEF Settle
  <2>10. CASE UNCHANGED purchaseVars
    BY <2>10 DEF purchaseVars
  <2>11. QED
    BY <2>1, <2>2, <2>3, <2>4, <2>6, <2>8, <2>9, <2>10 DEF PurchaseNext
<1>3. QED
  BY <1>1, <1>2, PTL DEF PurchaseSpec, Spec

\* The screens agree on whether the keypad is up, and as long as right entries
\* are counted, each stands for an attempt, a block that may run the closure,
\* or one that was spent.
Counted ==
    right < Cardinality(Attempts) => Cardinality(Started) + matches + late <= right

PurchaseIInv ==
    /\ PinIInv
    /\ late \in 0 .. MaxMatches
    /\ right \in 0 .. Cardinality(Attempts)
    /\ phase = "up" <=> pin = "open"
    /\ Counted

Untouched == \A a \in Attempts : job'[a] = "idle" <=> job[a] = "idle"

\* Attempts are counted by numbers, and never more than there are.
LEMMA Counting ==
  /\ Cardinality(Attempts) \in Nat
  /\ \A S \in SUBSET Attempts : IsFiniteSet(S) /\ Cardinality(S) \in 0 .. Cardinality(Attempts)
<1>1. IsFiniteSet(Attempts)
  BY PurchaseAssumption DEF PurchaseAssumption
<1>2. ASSUME NEW S \in SUBSET Attempts
      PROVE  IsFiniteSet(S) /\ Cardinality(S) \in 0 .. Cardinality(Attempts)
  BY <1>1, FS_Subset, FS_CardinalityType
<1>. QED
  BY <1>1, <1>2, FS_CardinalityType

\* A step that starts no attempt leaves the number of those that were started.
LEMMA NoneStarted == ASSUME Untouched PROVE Cardinality(Started') = Cardinality(Started)
<1>1. Started' = Started
  BY DEF Untouched, Started
<1>. QED
  BY <1>1

\* checkOutALL starts one, also when it traps.
LEMMA OneStarted ==
  ASSUME TypeOK, NEW a \in Attempts, Submit(a) \/ SubmitTraps(a)
  PROVE  Cardinality(Started') = Cardinality(Started) + 1
<1>a. job[a] = "idle" /\ job \in [Attempts -> {"idle", "running", "closed", "lost"}]
  BY DEF Submit, SubmitTraps, TypeOK
<1>b. \/ job' = [job EXCEPT ![a] = "running"]
     \/ job' = [Abandoned EXCEPT ![a] = "lost"]
  BY DEF Submit, SubmitTraps
<1>c. \A b \in Attempts : job'[b] = "idle" <=> job[b] = "idle" /\ b # a
  BY <1>a, <1>b DEF Abandoned
<1>1. Started' = Started \cup {a} /\ a \notin Started
  BY <1>a, <1>c DEF Started
<1>2. IsFiniteSet(Started)
  BY Counting DEF Started
<1>3. Cardinality(Started) \in Nat
  BY <1>2, FS_CardinalityType
<1>. QED
  BY <1>1, <1>2, <1>3, FS_AddElement

\* A step that releases the screen, or does nothing to it.
LEMMA AlongsideStep ==
  ASSUME PurchaseIInv, Alongside, right' = right, Untouched,
         pin' # "open" <=> pin # "open" \/ place' = "down"
  PROVE  PurchaseIInv'
<1>1. MaxMatches \in Nat
  BY PinAssumption DEF PinAssumption
<1>2. Cardinality(Started') = Cardinality(Started) /\ Cardinality(Started) \in Nat
  BY NoneStarted, Counting DEF Started
<1>3. matches \in Nat
  BY <1>1 DEF PurchaseIInv, PinIInv, PinTypeOK
<1>4. CASE place' = "down"
  <2>1. PinIInv'
    BY <1>4, ReleaseStep DEF PurchaseIInv, Alongside
  <2>2. phase' = "none" /\ matches' = 0 /\ late' = 0
    BY <1>4 DEF Alongside, Release
  <2>3. Counted'
    BY <1>2, <1>3, <2>2, Counting DEF PurchaseIInv, Counted
  <2>. QED
    BY <1>1, <1>4, <2>1, <2>2, <2>3 DEF PurchaseIInv
<1>5. CASE place' # "down"
  <2>1. UNCHANGED <<pinVars, late>>
    BY <1>5 DEF Alongside
  <2>2. PinIInv'
    BY <2>1, PinIInvStep DEF PurchaseIInv
  <2>3. UNCHANGED <<matches, phase>>
    BY <2>1 DEF pinVars
  <2>. QED
    BY <1>2, <1>5, <2>1, <2>2, <2>3 DEF PurchaseIInv, Counted
<1>. QED
  BY <1>4, <1>5

\* Leaving a screen, losing the process and everything that is not the PIN
\* screen's starts no attempt and shows no PIN screen.
LEMMA TouchStep ==
  ASSUME TypeOK, PurchaseIInv, Touch
  PROVE  PurchaseIInv'
<1>. USE DEF Untouched, TypeOK
<1>a. pin # "open"
  BY DEF Touch, PurchaseIInv
<1>b. Die => Untouched
  BY DEF Die, Abandoned
<1>c. \A p : GoTo(p) => pin' # "open"
  BY DEF GoTo
<1>1. ASSUME NEW p \in Products, AddToCart(p) \/ Increase(p) PROVE Untouched /\ pin' # "open"
  BY <1>1, <1>a, <1>b, <1>c DEF AddToCart, Increase, Die, screen
<1>2. ASSUME NEW p \in Products, Decrease(p) \/ Delete(p) PROVE Untouched /\ pin' # "open"
  BY <1>2, <1>a DEF Decrease, Delete, screen, client
<1>3. CASE OpenCart \/ CloseCart \/ Back \/ LeavePayment
  <2>1. Untouched /\ pin' # "open"
    BY <1>3, <1>c DEF OpenCart, CloseCart, Back, LeavePayment, client
  <2>. QED
    BY <2>1, <1>a, AlongsideStep DEF Touch
<1>4. CASE OpenCheckout
  <2>1. Untouched /\ pin' # "open"
    BY <1>4, <1>b, <1>c DEF OpenCheckout, Die
  <2>. QED
    BY <2>1, <1>a, AlongsideStep DEF Touch
<1>5. CASE SelectPayment \/ \E addr \in Addresses : SelectAddress(addr)
  <2>1. Untouched /\ pin' # "open"
    BY <1>5, <1>a DEF SelectPayment, SelectAddress, screen, client
  <2>. QED
    BY <2>1, <1>a, AlongsideStep DEF Touch
<1>. QED
  BY <1>a, <1>1, <1>2, <1>3, <1>4, <1>5, AlongsideStep DEF Touch

LEMMA BackgroundStep ==
  ASSUME IInv, PurchaseIInv, Background
  PROVE  PurchaseIInv'
<1>. DEFINE Goal == Untouched /\ (pin' # "open" <=> pin # "open" \/ place' = "down")
<1>a. place = "down" => pin # "open"
  BY DEF IInv, PinGuardsDraft
<1>b. Die => Goal
  BY DEF Die, GoTo, Abandoned, Untouched, IInv, TypeOK
<1>1. Kill => Goal
  BY <1>b DEF Kill
<1>2. Relaunch => Goal
  BY <1>a DEF Relaunch, GoTo, Untouched
<1>3. UserLoaded => Goal
  BY <1>a DEF UserLoaded, client, Untouched
<1>4. ASSUME NEW a \in Attempts,
             ShopServes(a) \/ GatewayServes(a) \/ ShopAnswers(a) \/ GatewayAnswers(a)
      PROVE  Goal
  BY <1>4, <1>a DEF ShopServes, GatewayServes, ShopAnswers, GatewayAnswers, screen, client,
                    Untouched
<1>5. ASSUME NEW a \in Attempts, Notify(a) PROVE Goal
  BY <1>5, <1>a DEF Notify, Answered, Untouched, IInv, TypeOK
<1>6. ASSUME NEW a \in Attempts, NotifyCut(a) PROVE Goal
  BY <1>6, <1>b DEF NotifyCut
<1>7. ASSUME NEW a \in Attempts, OpenPayment(a) PROVE Goal
  <2>1. place # "down"
    BY <1>7 DEF OpenPayment, IInv, TypeOK, ScreenOwns
  <2>. QED
    BY <1>7, <2>1 DEF OpenPayment, client, Untouched
<1>. QED
  BY <1>1, <1>2, <1>3, <1>4, <1>5, <1>6, <1>7, AlongsideStep DEF Background

\* A screen that takes the place of one that is locked out hands its blocks on.
LEMMA ShowPINStep ==
  ASSUME TypeOK, PurchaseIInv, ShowPIN
  PROVE  PurchaseIInv'
<1>. USE PinAssumption DEF PinAssumption
<1>1. /\ pin' = "open" /\ phase' = "up" /\ right' = right
      /\ Cardinality(Started') = Cardinality(Started) /\ Cardinality(Started) \in Nat
  BY NoneStarted, Counting DEF ShowPIN, TapCheckout, client, Present, Untouched, Started
<1>2. matches \in Nat /\ late \in Nat
  BY DEF PurchaseIInv, PinIInv, PinTypeOK
<1>3. CASE Present /\ UNCHANGED late
  <2>1. PinIInv'
    BY <1>3, PinIInvStep DEF PurchaseIInv, PinNext
  <2>2. matches' = matches
    BY <1>3 DEF Present, outcome
  <2>. QED
    BY <1>1, <1>3, <2>1, <2>2 DEF PurchaseIInv, Counted
<1>4. CASE phase = "held"
  <2>1. /\ late + matches <= MaxMatches /\ late' = late + matches
        /\ digits' = <<>> /\ keys' = TRUE /\ delete' = FALSE
        /\ attempts' = 0 /\ locked' = FALSE /\ remaining' = 0
        /\ matches' = 0 /\ passes' = 0 /\ created' = FALSE
        /\ UNCHANGED stored
    BY <1>4 DEF ShowPIN, Present
  <2>a. stored' = NoPin \/ (stored' \in Seq(Digits) /\ Len(stored') = MaxDigits)
    BY <2>1 DEF PurchaseIInv, PinIInv, PinTypeOK, Full
  <2>b. digits' \in Seq(Digits) /\ Len(digits') <= MaxDigits
    BY <2>1, EmptyRow
  <2>c. /\ attempts' \in 0 .. MaxAttempts /\ remaining' \in 0 .. LockoutTime
        /\ matches' \in 0 .. MaxMatches /\ passes' \in 0 .. MaxMatches
    BY <2>1
  <2>2. PinTypeOK'
    BY <1>1, <2>1, <2>a, <2>b, <2>c DEF PinTypeOK, Full
  <2>3. PinIInv'
    BY <1>1, <2>1, <2>2 DEF PinIInv, LockoutExact, KeypadUsable, CreationOpensNothing,
                            AsNew, NothingToMatch, CreatorLeaves, Bounded
  <2>. QED
    BY <1>1, <1>2, <2>1, <2>3 DEF PurchaseIInv, Counted
<1>. QED
  BY <1>3, <1>4 DEF ShowPIN

\* A right entry adds a block, and is counted; the entry that creates a PIN
\* takes the screen away.
LEMMA KeyStep ==
  ASSUME TypeOK, PurchaseIInv, Key
  PROVE  PurchaseIInv'
<1>1. PinIInv'
  BY PinIInvStep DEF Key, PinNext, PurchaseIInv
<1>2. phase = "up" /\ ~created /\ pin = "open"
  BY DEF Key, Tap, TapDelete, PurchaseIInv, PinIInv, CreatorLeaves
<1>3. PICK s : DigitsBecome(s)
  BY DEF Key, Tap, TapDelete
<1>4. matches' = matches \/ matches' = matches + 1
  BY <1>3 DEF DigitsBecome, NewUser, KnownUser, Examine, Match, Mismatch
<1>5. ~created' => phase' = "up"
  BY <1>2, <1>3 DEF DigitsBecome, NewUser, CreatePin, KnownUser
<1>6. created' => phase' # "up"
  BY <1>1 DEF PinIInv, CreatorLeaves
<1>7. /\ late' = late
      /\ right' = IF matches' > matches /\ right < Cardinality(Attempts)
                    THEN right + 1 ELSE right
      /\ created' => pin' = "closed" /\ job' = job
      /\ ~created' => pin' = pin /\ job' = job
  BY DEF Key, PinCreated, client, vars
<1>8. Cardinality(Started') = Cardinality(Started) /\ Cardinality(Started) \in Nat
  BY <1>7, NoneStarted, Counting DEF Untouched, Started
<1>9. matches \in Nat /\ late \in Nat /\ right \in Nat /\ Cardinality(Attempts) \in Nat
  BY Counting, PinAssumption DEF PinAssumption, PurchaseIInv, PinIInv, PinTypeOK
<1>10. right' \in 0 .. Cardinality(Attempts)
  BY <1>7, <1>9 DEF PurchaseIInv
<1>11. Counted'
  BY <1>4, <1>7, <1>8, <1>9 DEF PurchaseIInv, Counted
<1>. QED
  BY <1>1, <1>2, <1>5, <1>6, <1>7, <1>10, <1>11 DEF PurchaseIInv

\* A block that runs the closure is spent on the attempt it starts; one that
\* traps takes the process along, and with it every other block.
LEMMA SuccessBlockStep ==
  ASSUME TypeOK, PurchaseIInv, SuccessBlock
  PROVE  PurchaseIInv'
<1>. USE PinAssumption DEF PinAssumption
<1>1. /\ matches \in Nat /\ late \in Nat /\ right \in Nat /\ passes \in Nat
      /\ Cardinality(Attempts) \in Nat /\ Cardinality(Started) \in Nat
  BY Counting DEF PurchaseIInv, PinIInv, PinTypeOK, Started
<1>2. matches > 0 /\ right' = right
  BY DEF SuccessBlock
<1>3. Success => PinIInv' /\ matches' = matches - 1
  BY PinIInvStep DEF PurchaseIInv, PinNext, Success
<1>4. Success => phase' # "up" \/ (phase' = "up" /\ phase = "closing")
  BY DEF Success, Open
<1>5. ASSUME NEW a \in Attempts, Submit(a), Success, UNCHANGED late
      PROVE  PurchaseIInv'
  <2>1. Cardinality(Started') = Cardinality(Started) + 1
    BY <1>5, OneStarted
  <2>2. pin' = "leaving"
    BY <1>5 DEF Submit
  <2>3. phase' # "up"
    BY <1>5 DEF Success, Open
  <2>4. Counted'
    BY <1>1, <1>2, <1>3, <1>5, <2>1 DEF PurchaseIInv, Counted
  <2>. QED
    BY <1>2, <1>3, <1>5, <2>2, <2>3, <2>4 DEF PurchaseIInv
<1>6. ASSUME NEW a \in Attempts, SubmitTraps(a), Release, late' = 0, UNCHANGED stored
      PROVE  PurchaseIInv'
  <2>1. Cardinality(Started') = Cardinality(Started) + 1
    BY <1>6, OneStarted
  <2>2. pin' = "closed"
    BY <1>6 DEF SubmitTraps, GoTo
  <2>3. phase' = "none" /\ matches' = 0
    BY <1>6 DEF Release
  <2>4. PinIInv'
    BY <1>6, ReleaseStep DEF PurchaseIInv
  <2>5. Counted'
    BY <1>1, <1>2, <1>6, <2>1, <2>3 DEF PurchaseIInv, Counted
  <2>. QED
    BY <1>2, <1>6, <2>2, <2>3, <2>4, <2>5 DEF PurchaseIInv
<1>7. CASE Success /\ passes' = passes /\ UNCHANGED <<vars, late>>
  <2>1. UNCHANGED <<job, pin, late>>
    BY <1>7 DEF vars
  <2>2. Cardinality(Started') = Cardinality(Started)
    BY <2>1, NoneStarted DEF Untouched
  <2>3. phase' = phase /\ phase # "up"
    BY <1>1, <1>7 DEF Success, Open
  <2>4. Counted'
    BY <1>1, <1>2, <1>3, <1>7, <2>1, <2>2 DEF PurchaseIInv, Counted
  <2>. QED
    BY <1>2, <1>3, <1>7, <2>1, <2>3, <2>4 DEF PurchaseIInv
<1>. QED
  BY <1>5, <1>6, <1>7 DEF SuccessBlock, Order

\* So is a block of a screen that was replaced, which may take the new one away.
LEMMA LateStep ==
  ASSUME TypeOK, PurchaseIInv, Late
  PROVE  PurchaseIInv'
<1>. USE PinAssumption DEF PinAssumption
<1>1. /\ matches \in Nat /\ late \in Nat /\ right \in Nat
      /\ Cardinality(Attempts) \in Nat /\ Cardinality(Started) \in Nat
  BY Counting DEF PurchaseIInv, PinIInv, PinTypeOK, Started
<1>2. late > 0 /\ right' = right
  BY DEF Late
<1>3. ASSUME NEW a \in Attempts, Submit(a),
             phase' = IF phase = "up" THEN "closing" ELSE phase,
             late' = late - 1,
             UNCHANGED <<stored, digits, attempts, locked, remaining, keys, delete,
                         matches, passes, created>>
      PROVE  PurchaseIInv'
  <2>1. Cardinality(Started') = Cardinality(Started) + 1
    BY <1>3, OneStarted
  <2>2. pin' = "leaving" /\ phase' # "up"
    BY <1>3 DEF Submit
  <2>3. PinTypeOK'
    BY <1>3 DEF PurchaseIInv, PinIInv, PinTypeOK, Full
  <2>4. PinIInv'
    BY <1>3, <2>2, <2>3
    DEF PurchaseIInv, PinIInv, LockoutExact, KeypadUsable, CreationOpensNothing,
        AsNew, NothingToMatch, CreatorLeaves, Bounded, PinTypeOK
  <2>5. Counted'
    BY <1>1, <1>2, <1>3, <2>1 DEF PurchaseIInv, Counted
  <2>. QED
    BY <1>2, <1>3, <2>2, <2>4, <2>5 DEF PurchaseIInv
<1>4. ASSUME NEW a \in Attempts, SubmitTraps(a), Release, late' = 0, UNCHANGED stored
      PROVE  PurchaseIInv'
  <2>1. Cardinality(Started') = Cardinality(Started) + 1
    BY <1>4, OneStarted
  <2>2. pin' = "closed"
    BY <1>4 DEF SubmitTraps, GoTo
  <2>3. phase' = "none" /\ matches' = 0
    BY <1>4 DEF Release
  <2>4. PinIInv'
    BY <1>4, ReleaseStep DEF PurchaseIInv
  <2>5. Counted'
    BY <1>1, <1>2, <1>4, <2>1, <2>3 DEF PurchaseIInv, Counted
  <2>. QED
    BY <1>2, <1>4, <2>2, <2>3, <2>4, <2>5 DEF PurchaseIInv
<1>5. CASE phase # "up" /\ late' = late - 1 /\ UNCHANGED pinVars /\ Released
  <2>1. UNCHANGED <<phase, matches>>
    BY <1>5 DEF pinVars
  <2>2. PinIInv'
    BY <1>5, PinIInvStep DEF PurchaseIInv
  <2>3. job' = job /\ pin' # "open"
    BY <1>5 DEF Released, PinGone, client, vars, PurchaseIInv
  <2>4. Cardinality(Started') = Cardinality(Started)
    BY <2>3, NoneStarted DEF Untouched
  <2>5. Counted'
    BY <1>1, <1>2, <1>5, <2>1, <2>4 DEF PurchaseIInv, Counted
  <2>. QED
    BY <1>1, <1>2, <1>5, <2>1, <2>2, <2>3, <2>5 DEF PurchaseIInv
<1>. QED
  BY <1>3, <1>4, <1>5 DEF Late, Order

\* The end of a dismissal and of a lockout let go of the blocks they end.
LEMMA SettleStep ==
  ASSUME TypeOK, PurchaseIInv, Settle
  PROVE  PurchaseIInv'
<1>1. PinIInv'
  BY PinIInvStep DEF Settle, PinNext, PurchaseIInv
<1>2. /\ matches \in Nat /\ late \in Nat /\ right \in Nat /\ matches' \in Nat
      /\ Cardinality(Attempts) \in Nat /\ Cardinality(Started) \in Nat
  BY <1>1, Counting, PinAssumption
  DEF PinAssumption, PurchaseIInv, PinIInv, PinTypeOK, Started
<1>3. matches' <= matches
  BY <1>2 DEF Settle, Dismissed, Tick, outcome, Release
<1>4. phase' = phase \/ (phase # "up" /\ phase' # "up")
  BY DEF Settle, Dismissed, Tick, Release
<1>5. job' = job /\ (pin' = "open" <=> pin = "open")
  BY DEF Settle, Released, PinGone, client, vars
<1>6. Cardinality(Started') = Cardinality(Started)
  BY <1>5, NoneStarted DEF Untouched
<1>7. UNCHANGED <<late, right>>
  BY DEF Settle
<1>8. Counted'
  BY <1>2, <1>3, <1>6, <1>7 DEF PurchaseIInv, Counted
<1>. QED
  BY <1>1, <1>4, <1>5, <1>7, <1>8 DEF PurchaseIInv

LEMMA PurchaseIInvStep ==
  ASSUME IInv, PurchaseIInv, [PurchaseNext]_purchaseVars
  PROVE  PurchaseIInv'
<1>1. TypeOK
  BY DEF IInv
<1>2. CASE UNCHANGED purchaseVars
  <2>1. UNCHANGED <<vars, pinVars, late, right>>
    BY <1>2 DEF purchaseVars
  <2>2. PinIInv'
    BY <2>1, PinIInvStep DEF PurchaseIInv
  <2>3. UNCHANGED <<job, pin, phase, matches>>
    BY <2>1 DEF vars, pinVars
  <2>4. Started' = Started
    BY <2>3 DEF Started
  <2>. QED
    BY <2>1, <2>2, <2>3, <2>4 DEF PurchaseIInv, Counted
<1>. QED
  BY <1>1, <1>2, TouchStep, BackgroundStep, ShowPINStep, KeyStep, SuccessBlockStep,
     LateStep, SettleStep DEF PurchaseNext

THEOREM PurchaseInductive == PurchaseSpec => []PurchaseIInv
<1>1. PurchaseInit => PurchaseIInv
  <2>. SUFFICES ASSUME PurchaseInit PROVE PurchaseIInv
    OBVIOUS
  <2>1. PinIInv
    BY PinInitially DEF PurchaseInit
  <2>2. Started = {}
    BY DEF PurchaseInit, Init, Started
  <2>3. Cardinality(Started) = 0
    BY <2>2, FS_EmptySet
  <2>4. Cardinality(Attempts) \in Nat /\ MaxMatches \in Nat
    BY Counting, PinAssumption DEF PinAssumption
  <2>. QED
    BY <2>1, <2>3, <2>4 DEF PurchaseInit, Init, PinInit, PurchaseIInv, Counted
<1>2. IInv /\ PurchaseIInv /\ [PurchaseNext]_purchaseVars => PurchaseIInv'
  BY PurchaseIInvStep
<1>. QED
  BY <1>1, <1>2, PurchaseIsCheckout, Inductive, PTL DEF PurchaseSpec

\* The two halves keep their types, and a keypad is up exactly while the
\* checkout screen waits under one.
THEOREM HalvesAgree == PurchaseSpec => []PurchaseTypeOK
<1>1. TypeOK /\ PurchaseIInv => PurchaseTypeOK
  BY DEF PurchaseIInv, PinIInv, PurchaseTypeOK
<1>. QED
  BY <1>1, PurchaseIsCheckout, TypeCorrect, PurchaseInductive, PTL

\* EveryAttemptWasEntered: entries, blocks, closures and attempts are four
\* things, and still no attempt is started without an entry of its own.
THEOREM NoOrderWithoutPIN == PurchaseSpec => []EveryAttemptWasEntered
<1>1. PurchaseIInv => EveryAttemptWasEntered
  <2>. SUFFICES ASSUME PurchaseIInv PROVE Cardinality(Started) <= right
    BY DEF EveryAttemptWasEntered
  <2>1. Cardinality(Started) \in 0 .. Cardinality(Attempts) /\ Cardinality(Attempts) \in Nat
    BY Counting DEF Started
  <2>2. matches \in Nat /\ late \in Nat
    BY PinAssumption DEF PinAssumption, PurchaseIInv, PinIInv, PinTypeOK
  <2>. QED
    BY <2>1, <2>2 DEF PurchaseIInv, Counted
<1>. QED
  BY <1>1, PurchaseInductive, PTL

\* What the PIN screen promises by itself it also keeps in a purchase, where
\* the process may end under it and a screen may replace one that is locked.
THEOREM LockoutIsExactInPurchase == PurchaseSpec => []LockoutExact
<1>1. PurchaseIInv => LockoutExact
  BY DEF PurchaseIInv, PinIInv
<1>. QED
  BY <1>1, PurchaseInductive, PTL

\* A bill has its order and an order its address, also with the PIN screen in
\* between: Checkout's theorems, of a purchase.
COROLLARY PurchasesAreWhole ==
  PurchaseSpec => [](OrdersAddressed /\ ChargedOrdersExist)
<1>1. IInv => OrdersAddressed /\ ChargedOrdersExist
  BY DEF IInv
<1>. QED
  BY <1>1, PurchaseIsCheckout, Inductive, PTL

=============================================================================
