------------------------------ MODULE Purchase ------------------------------
(***************************************************************************)
(* A purchase from the checkout button to the payment page: the checkout   *)
(* flow and the PIN screen it presents, each as its own module has it,     *)
(* joined where one calls the other.  showCustomPIN hands the screen a     *)
(* closure that dismisses it and runs checkOutALL; the screen calls the    *)
(* closure from blocks that run five seconds after a right entry, as often *)
(* as there were right entries, and one that was locked out lives on until *)
(* its timer ends, when the user may have another one up.                  *)
(***************************************************************************)
EXTENDS Checkout, PinEntry

VARIABLES
    late,         \* success blocks of a locked-out screen that another replaced
    right         \* right entries typed so far, as far as they matter

purchaseVars == <<vars, pinVars, late, right>>

\* Every count of attempts, TLC's and the proofs', is of finitely many.
ASSUME PurchaseAssumption == IsFiniteSet(Attempts)

Started == {a \in Attempts : job[a] # "idle"}

\* Bound: every attempt of this instance was made, and the user stops.
Exhausted == Started = Attempts

\* The two halves agree on whether the keypad is up.
PurchaseTypeOK ==
    /\ TypeOK
    /\ PinTypeOK
    /\ late \in 0 .. MaxMatches
    /\ right \in 0 .. Cardinality(Attempts)
    /\ phase = "up" <=> pin = "open"

PurchaseInit ==
    /\ Init
    /\ PinInit
    /\ late = 0 /\ right = 0

-----------------------------------------------------------------------------
(* The screen underneath.                                                  *)

\* The process takes the PIN screen and its blocks along.
Alongside ==
    IF place' = "down"
      THEN Release /\ late' = 0 /\ UNCHANGED stored
      ELSE UNCHANGED <<pinVars, late>>

\* What the user does; a presented screen, and one being dismissed, is in the way.
Touch ==
    /\ phase \in {"none", "held"} /\ ~Exhausted
    /\ \/ \E p \in Products : AddToCart(p) \/ Increase(p) \/ Decrease(p) \/ Delete(p)
       \/ OpenCart \/ CloseCart
       \/ OpenCheckout \/ Back \/ LeavePayment
       \/ SelectPayment
       \/ \E addr \in Addresses : SelectAddress(addr)
    /\ Alongside
    /\ UNCHANGED right

\* What happens by itself goes on under the PIN screen.
Background ==
    /\ \/ Kill \/ Relaunch
       \/ UserLoaded
       \/ \E a \in Attempts :
            \/ ShopServes(a) \/ GatewayServes(a)
            \/ ShopAnswers(a) \/ GatewayAnswers(a)
            \/ Notify(a) \/ NotifyCut(a)
            \/ OpenPayment(a)
    /\ Alongside
    /\ UNCHANGED right

-----------------------------------------------------------------------------
(* The PIN screen over it.                                                 *)

\* showCustomPIN: every call makes a new controller; one that is still locked
\* out keeps counting, and keeps the success blocks it has, behind the new one.
ShowPIN ==
    /\ TapCheckout /\ ~Exhausted
    /\ \/ Present /\ UNCHANGED late
       \/ /\ phase = "held"
          /\ late + matches <= MaxMatches
          /\ late' = late + matches
          /\ phase' = "up"
          /\ digits' = <<>> /\ keys' = TRUE /\ delete' = FALSE
          /\ attempts' = 0 /\ locked' = FALSE /\ remaining' = 0
          /\ matches' = 0 /\ passes' = 0 /\ created' = FALSE
          /\ UNCHANGED stored
    /\ UNCHANGED right

Key_CreatedStays ==
    /\ TapDelete \/ \E d \in Digits : Tap(d)
    /\ UNCHANGED vars
    /\ right' = IF matches' > matches /\ right < Cardinality(Attempts)
                  THEN right + 1 ELSE right
    /\ UNCHANGED late

\* A key; the entry that completes a new user's PIN closes the screen.
Key ==
    /\ TapDelete \/ \E d \in Digits : Tap(d)
    /\ IF created' THEN PinCreated ELSE UNCHANGED vars
    /\ right' = IF matches' > matches /\ right < Cardinality(Attempts)
                  THEN right + 1 ELSE right
    /\ UNCHANGED late

\* The closure ran its completion: checkOutALL, with whatever it traps on.
Order(released) ==
    \E a \in Attempts :
        \/ Submit(a) /\ released
        \/ SubmitTraps(a) /\ Release /\ late' = 0 /\ UNCHANGED stored

\* When no screen and no block is left, nothing runs the closure any more.
Released ==
    IF phase' = "none" /\ late' = 0 /\ pin = "leaving" THEN PinGone ELSE UNCHANGED vars

SuccessBlock_BlockStays ==
    /\ matches > 0
    /\ Order(/\ phase' = IF phase = "up" THEN "closing" ELSE phase
             /\ UNCHANGED <<stored, digits, attempts, locked, remaining, keys, delete,
                            matches, passes, created, late>>)
    /\ UNCHANGED right

\* A success block of the screen that is up, or was up last.
SuccessBlock ==
    /\ matches > 0
    /\ \/ Order(Success /\ passes' = passes + 1 /\ UNCHANGED late)
       \/ Success /\ passes' = passes /\ UNCHANGED <<vars, late>>
    /\ UNCHANGED right

\* A success block of a replaced screen: it dismisses whatever is presented.
Late ==
    /\ late > 0
    /\ \/ Order(/\ phase' = IF phase = "up" THEN "closing" ELSE phase
                /\ late' = late - 1
                /\ UNCHANGED <<stored, digits, attempts, locked, remaining, keys, delete,
                               matches, passes, created>>)
       \/ phase # "up" /\ late' = late - 1 /\ UNCHANGED pinVars /\ Released
    /\ UNCHANGED right

\* The end of the dismissal and the lockout timer; the last of a screen.
Settle ==
    /\ Dismissed \/ Tick
    /\ UNCHANGED <<late, right>>
    /\ Released

-----------------------------------------------------------------------------
PurchaseNext ==
    \/ Touch
    \/ Background
    \/ ShowPIN
    \/ Key
    \/ SuccessBlock
    \/ Late
    \/ Settle

PurchaseSpec == PurchaseInit /\ [][PurchaseNext]_purchaseVars

-----------------------------------------------------------------------------
(* What a purchase promises.                                               *)

\* Nobody is ordered for without the PIN: the app has started no more attempts
\* than right entries were typed, although entries, blocks, closures and
\* attempts are four different things, a screen may run its closure more than
\* once, and one that was replaced still runs its own.
EveryAttemptWasEntered == Cardinality(Started) <= right
=============================================================================
