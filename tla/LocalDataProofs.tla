-------------------------- MODULE LocalDataProofs ---------------------------
(***************************************************************************)
(* Safety of LocalData for any products, whichever saves fail and whenever *)
(* the process ends.                                                       *)
(***************************************************************************)
EXTENDS LocalData, TLAPS

\* Which screens are on the stack: what FavoritesAgree needs of the ones that
\* are not on top.
Stack ==
    /\ place = "tabs" => shown = None
    /\ place = "detail" => shown # None
    /\ shown # None => heart = (ctx.favs[shown] # 0)
    /\ place = "down" => list = NotLoaded /\ shown = None

IInv ==
    /\ TypeOK
    /\ Stack
    /\ list # NotLoaded => list = ctx.favs
    /\ CartHidesNothing
    /\ FailuresLoseNothing
    /\ CartComesWithDraft

\* The tables, and what each operation makes of them, are of their type.
LEMMA TablesType ==
  ASSUME TypeOK
  PROVE  /\ [ctx EXCEPT !.cart = {}] \in Tables
         /\ shown # None => Toggled \in Tables /\ Added \in Tables
<1>. USE DEF TypeOK, Tables
<1>1. [ctx EXCEPT !.cart = {}] \in Tables
  OBVIOUS
<1>4. ASSUME NEW p \in Products, NEW n \in 0 .. 1
      PROVE  [ctx EXCEPT !.favs[p] = n] \in Tables
  OBVIOUS
<1>5. ASSUME shown # None PROVE Toggled \in Tables
  <2>1. Toggled \in {ctx, [ctx EXCEPT !.favs[shown] = 0], [ctx EXCEPT !.favs[shown] = 1]}
    BY DEF Toggled
  <2>. QED
    BY <1>4, <1>5, <2>1
<1>6. ASSUME shown # None PROVE Added \in Tables
  BY <1>6 DEF Added
<1>. QED
  BY <1>1, <1>5, <1>6

\* A process that ends finds on disk what the invariant asks of the context.
LEMMA EndOfProcess ==
  ASSUME IInv, disk' \in Tables, Gone,
         ~spared /\ disk'.cart # {} => disk'.draft # "none"
  PROVE  IInv'
  BY DEF IInv, Gone, TypeOK, Tables, Stack, CartHidesNothing, FailuresLoseNothing,
         CartComesWithDraft

LEMMA DeathKeeps ==
  ASSUME IInv, Die
  PROVE  IInv'
  BY EndOfProcess DEF Die, IInv, TypeOK, CartComesWithDraft

LEMMA CutKeeps ==
  ASSUME IInv, WipeCut
  PROVE  IInv'
<1>1. [ctx EXCEPT !.cart = {}] \in Tables /\ [ctx EXCEPT !.cart = {}].cart = {}
  BY TablesType DEF IInv, TypeOK, Tables
<1>2. disk' = disk \/ disk' = [ctx EXCEPT !.cart = {}]
  BY DEF WipeCut, NoItems, Deleted, copies
<1>3. disk' \in Tables /\ (~spared /\ disk'.cart # {} => disk'.draft # "none")
  BY <1>1, <1>2 DEF IInv, TypeOK, CartComesWithDraft
<1>. QED
  BY <1>3, EndOfProcess DEF WipeCut

\* A commit leaves nothing behind; the draft comes with the cart unless it was
\* lost before and is not stored now.
LEMMA CommitKeeps ==
  ASSUME IInv, NEW t \in Tables, Committed(t),
         t.draft # "none" \/ (t.cart \subseteq ctx.cart /\ t.draft = ctx.draft)
  PROVE  /\ ctx' = t /\ disk' = t /\ spared' \in BOOLEAN
         /\ FailuresLoseNothing' /\ CartComesWithDraft'
<1>1. ctx' = t /\ disk' = t
  BY DEF Committed
<1>2. spared' \in BOOLEAN
  BY Zenon DEF Committed
<1>3. ~spared' => ~spared \/ t.draft # "none"
  BY Zenon DEF Committed
<1>4. CartComesWithDraft'
  BY <1>1, <1>3 DEF IInv, CartComesWithDraft
<1>. QED
  BY <1>1, <1>2, <1>4 DEF FailuresLoseNothing

\* So does a save of CoreDataHelper that commits or fails.
LEMMA SwallowKeeps ==
  ASSUME IInv, NEW t \in Tables, Swallow(t), t.cart = ctx.cart, t.favs = ctx.favs,
         t.draft \in {"chosen", ctx.draft}
  PROVE  /\ ctx' = t /\ disk' \in Tables /\ spared' \in BOOLEAN
         /\ FailuresLoseNothing' /\ CartComesWithDraft'
         /\ list' \in {list, ctx.favs} /\ (list = NotLoaded => list' = NotLoaded)
<1>1. CASE Committed(t)
  <2>1. t.draft # "none" \/ (t.cart \subseteq ctx.cart /\ t.draft = ctx.draft)
    OBVIOUS
  <2>2. ctx' = t /\ disk' = t /\ spared' \in BOOLEAN
        /\ FailuresLoseNothing' /\ CartComesWithDraft'
    BY <1>1, <2>1, CommitKeeps
  <2>. QED
    BY <2>2 DEF Swallow, Observed
<1>2. CASE Pending(t)
  <2>1. ctx' = t /\ UNCHANGED <<disk, spared>>
    BY <1>2 DEF Pending
  <2>2. FailuresLoseNothing' /\ CartComesWithDraft'
    BY <2>1 DEF IInv, FailuresLoseNothing, CartComesWithDraft
  <2>. QED
    BY <2>1, <2>2 DEF IInv, TypeOK, Swallow, Observed
<1>. QED
  BY <1>1, <1>2 DEF Swallow

\* The cleanup only takes items away, and a draft that it takes from a cart it
\* fetched goes with the cart.
LEMMA WipedTables ==
  ASSUME IInv, NEW fetched \in BOOLEAN, NEW c \in Wiped(fetched),
         ctx' = c[1], disk' = c[2], spared' = (spared \/ ~fetched)
  PROVE  /\ ctx' \in Tables /\ ctx'.cart \subseteq ctx.cart /\ ctx'.favs = ctx.favs
         /\ disk' \in Tables /\ FailuresLoseNothing' /\ CartComesWithDraft'
<1>. USE DEF IInv, TypeOK, Tables, FailuresLoseNothing, CartComesWithDraft
<1>1. DEFINE I == [ctx EXCEPT !.cart = {}]
<1>2. PICK s \in (IF fetched THEN NoItems(copies) ELSE {copies}) :
          c \in NoDraft(s) \cup {s}
  BY DEF Wiped
<1>3. \/ ~fetched /\ s[1] = ctx /\ s[2] = disk
      \/ fetched /\ s[1] = I /\ s[2] \in {disk, I}
  BY <1>2 DEF NoItems, Deleted, copies
<1>4. DEFINE D == [s[1] EXCEPT !.draft = "none"]
<1>5. \/ ctx' = s[1] /\ disk' = s[2]
      \/ ctx' = D /\ disk' \in {s[2], D}
  BY <1>2 DEF NoDraft, Deleted
<1>6. /\ s[1] \in Tables /\ s[1].cart \subseteq ctx.cart /\ s[1].favs = ctx.favs
      /\ s[2] \in Tables /\ s[1].cart \subseteq s[2].cart /\ s[2].favs = ctx.favs
      /\ ~spared' => s[1].cart = {} /\ (s[2].cart # {} => s[2].draft # "none")
  BY <1>3
<1>7. /\ D \in Tables /\ D.cart = s[1].cart /\ D.favs = s[1].favs
  BY <1>6
<1>. HIDE DEF D
<1>. QED
  BY <1>5, <1>6, <1>7

\* The inductive step.
LEMMA IInvStep ==
  ASSUME IInv, [Next]_vars
  PROVE  IInv'
<1>. USE LocalAssumption
<1>. USE DEF IInv, TypeOK, Tables, Stack, CartHidesNothing, FailuresLoseNothing,
         CartComesWithDraft, tables, copies
<1>1. ASSUME NEW t \in {"home", "favorites"}, SelectTab(t) PROVE IInv'
  BY <1>1 DEF SelectTab
<1>2. ASSUME NEW p \in Products, OpenDetail(p) PROVE IInv'
  BY <1>2 DEF OpenDetail
<1>3. ASSUME NEW p \in Products, Similar(p) PROVE IInv'
  BY <1>3 DEF Similar
<1>4. CASE CloseDetail
  <2>1. UNCHANGED <<ctx, disk, tab, list, rows, due, spared>>
    BY <1>4 DEF CloseDetail
  <2>2. TypeOK'
    BY <1>4, <2>1 DEF CloseDetail
  <2>3. Stack'
    BY <1>4, <2>1 DEF CloseDetail
  <2>4. CartHidesNothing' /\ FailuresLoseNothing' /\ CartComesWithDraft'
    BY <1>4, <2>1 DEF CloseDetail
  <2>. QED
    BY <2>1, <2>2, <2>3, <2>4
<1>5. CASE ToggleHeart
  <2>1. CASE Die
    BY <2>1, DeathKeeps
  <2>2. CASE Toggled # ctx /\ ~Die
    <3>1. /\ Toggled \in Tables /\ Toggled.cart = ctx.cart /\ Toggled.draft = ctx.draft
          /\ Toggled.favs \in [Products -> 0 .. 1]
      BY <1>5, TablesType DEF ToggleHeart, Toggled
    <3>2. Committed(Toggled) /\ shown' = shown /\ place' = "detail"
      BY <1>5, <2>2, Zenon DEF ToggleHeart
    <3>3. /\ ctx' = Toggled /\ disk' = Toggled /\ spared' \in BOOLEAN
          /\ FailuresLoseNothing' /\ CartComesWithDraft'
      BY <3>1, <3>2, CommitKeeps
    <3>4. /\ shown' # None => heart' = (ctx'.favs[shown'] # 0)
          /\ heart' \in BOOLEAN
      BY <1>5, <2>2, <3>3, Zenon DEF ToggleHeart
    <3>5. /\ list' \in [Products -> 0 .. 1] \cup {NotLoaded}
          /\ list' # NotLoaded => list' = ctx'.favs
      BY <1>5, <2>2, <3>1, <3>3 DEF ToggleHeart, Observed
    <3>6. TypeOK'
      BY <1>5, <2>2, <3>1, <3>3, <3>4, <3>5 DEF ToggleHeart
    <3>7. Stack'
      BY <1>5, <3>2, <3>4 DEF ToggleHeart
    <3>8. CartHidesNothing'
      BY <3>2
    <3>. QED
      BY <3>3, <3>5, <3>6, <3>7, <3>8
  <2>3. CASE Toggled = ctx /\ ~Die
    BY <1>5, <2>3 DEF ToggleHeart
  <2>. QED
    BY <2>1, <2>2, <2>3
<1>6. CASE AddToCart
  <2>1. CASE Die
    BY <2>1, DeathKeeps
  <2>2. CASE ~Die
    <3>1. Committed(Added) /\ place = "detail"
      BY <1>6, <2>2, Zenon DEF AddToCart
    <3>2. /\ Added \in Tables /\ Added.favs = ctx.favs
          /\ Added.draft # "none"
      BY <3>1, TablesType DEF Added
    <3>3. /\ ctx' \in Tables /\ disk' = ctx' /\ ctx'.favs = ctx.favs
          /\ spared' \in BOOLEAN /\ FailuresLoseNothing' /\ CartComesWithDraft'
      BY <3>1, <3>2, CommitKeeps
    <3>4. heart' = (ctx'.favs[shown'] # 0)
      BY <1>6, <2>2, <3>3, Zenon DEF AddToCart
    <3>5. /\ list' \in [Products -> 0 .. 1] \cup {NotLoaded}
          /\ list' # NotLoaded => list' = ctx'.favs
      BY <1>6, <2>2, <3>3 DEF AddToCart, Observed
    <3>. QED
      BY <1>6, <2>2, <3>3, <3>4, <3>5 DEF AddToCart
  <2>. QED
    BY <2>1, <2>2
<1>7. ASSUME NEW p \in Products, DeleteFavorite(p) PROVE IInv'
  <2>1. CASE Die
    BY <2>1, DeathKeeps
  <2>2. CASE ~Die
    <3>1. DEFINE F == [ctx EXCEPT !.favs[p] = 0]
    <3>2. F \in Tables /\ F.cart = ctx.cart /\ F.draft = ctx.draft
      OBVIOUS
    <3>3. Committed(F) /\ list' = ctx'.favs
      BY <1>7, <2>2, Zenon DEF DeleteFavorite
    <3>. HIDE DEF F
    <3>4. /\ ctx' = F /\ disk' = F /\ spared' \in BOOLEAN
          /\ FailuresLoseNothing' /\ CartComesWithDraft'
      BY <3>2, <3>3, CommitKeeps
    <3>. QED
      BY <1>7, <2>2, <3>2, <3>3, <3>4 DEF DeleteFavorite
  <2>. QED
    BY <2>1, <2>2
<1>8. CASE OpenCart
  BY <1>8 DEF OpenCart
<1>9. CASE CloseCart
  BY <1>9 DEF CloseCart, Beneath
<1>10. CASE LeaveEmptyCart
  BY <1>10 DEF LeaveEmptyCart
<1>11. ASSUME NEW p \in Products, DeleteRow(p) PROVE IInv'
  <2>1. CASE Die
    BY <2>1, DeathKeeps
  <2>2. CASE ~Die
    <3>1. DEFINE C == [ctx EXCEPT !.cart = @ \ {p}]
    <3>2. /\ C \in Tables /\ C.cart \subseteq ctx.cart
          /\ C.draft = ctx.draft /\ C.favs = ctx.favs
      OBVIOUS
    <3>3. Committed(C) /\ Observed
      BY <1>11, <2>2, Zenon DEF DeleteRow
    <3>. HIDE DEF C
    <3>4. /\ ctx' = C /\ disk' = C /\ spared' \in BOOLEAN
          /\ FailuresLoseNothing' /\ CartComesWithDraft'
      BY <3>2, <3>3, CommitKeeps
    <3>. QED
      BY <1>11, <2>2, <3>2, <3>3, <3>4 DEF DeleteRow, Observed
  <2>. QED
    BY <2>1, <2>2
<1>12. ASSUME NEW p \in Products, Recount(p) PROVE IInv'
  <2>1. CASE Die
    BY <2>1, DeathKeeps
  <2>2. CASE ~Die
    <3>1. Committed(ctx) /\ UNCHANGED <<place, tab, shown, heart, list, rows, due>>
      BY <1>12, <2>2, Zenon DEF Recount
    <3>2. /\ ctx' = ctx /\ disk' = ctx /\ spared' \in BOOLEAN
          /\ FailuresLoseNothing' /\ CartComesWithDraft'
      BY <3>1, CommitKeeps
    <3>. QED
      BY <3>1, <3>2
  <2>. QED
    BY <2>1, <2>2
<1>13. CASE OpenCheckout
  BY <1>13 DEF OpenCheckout
<1>14. CASE CloseCheckout
  BY <1>14 DEF CloseCheckout
<1>15. CASE AddAddress
  <2>1. DEFINE N == [ctx EXCEPT !.addresses = TRUE]
  <2>2. /\ N \in Tables /\ N.cart = ctx.cart /\ N.favs = ctx.favs
        /\ N.draft \in {"chosen", ctx.draft}
    OBVIOUS
  <2>3. Swallow(N) /\ UNCHANGED <<place, tab, shown, heart, rows, due>>
    BY <1>15 DEF AddAddress
  <2>. HIDE DEF N
  <2>4. /\ ctx' = N /\ disk' \in Tables /\ spared' \in BOOLEAN
        /\ FailuresLoseNothing' /\ CartComesWithDraft'
        /\ list' \in {list, ctx.favs} /\ (list = NotLoaded => list' = NotLoaded)
    BY <2>2, <2>3, SwallowKeeps
  <2>. QED
    BY <2>2, <2>3, <2>4
<1>16. CASE ChooseAddress
  <2>1. DEFINE N == [ctx EXCEPT !.draft = "chosen"]
  <2>2. /\ N \in Tables /\ N.cart = ctx.cart /\ N.favs = ctx.favs
        /\ N.draft \in {"chosen", ctx.draft}
    OBVIOUS
  <2>3. Swallow(N) /\ UNCHANGED <<place, tab, shown, heart, rows, due>>
    BY <1>16 DEF ChooseAddress
  <2>. HIDE DEF N
  <2>4. /\ ctx' = N /\ disk' \in Tables /\ spared' \in BOOLEAN
        /\ FailuresLoseNothing' /\ CartComesWithDraft'
        /\ list' \in {list, ctx.favs} /\ (list = NotLoaded => list' = NotLoaded)
    BY <2>2, <2>3, SwallowKeeps
  <2>. QED
    BY <2>2, <2>3, <2>4
<1>17. CASE CreatePin
  <2>1. DEFINE N == [ctx EXCEPT !.pin = TRUE]
  <2>2. /\ N \in Tables /\ N.cart = ctx.cart /\ N.favs = ctx.favs
        /\ N.draft \in {"chosen", ctx.draft}
    OBVIOUS
  <2>3. Swallow(N) /\ UNCHANGED <<place, tab, shown, heart, rows, due>>
    BY <1>17 DEF CreatePin
  <2>. HIDE DEF N
  <2>4. /\ ctx' = N /\ disk' \in Tables /\ spared' \in BOOLEAN
        /\ FailuresLoseNothing' /\ CartComesWithDraft'
        /\ list' \in {list, ctx.favs} /\ (list = NotLoaded => list' = NotLoaded)
    BY <2>2, <2>3, SwallowKeeps
  <2>. QED
    BY <2>2, <2>3, <2>4
<1>18. CASE Submit
  BY <1>18 DEF Submit
<1>19. CASE Wipe
  <2>1. PICK fetched \in BOOLEAN :
            /\ \E c \in Wiped(fetched) : ctx' = c[1] /\ disk' = c[2]
            /\ spared' = (spared \/ ~fetched)
    BY <1>19 DEF Wipe
  <2>2. /\ ctx' \in Tables /\ ctx'.cart \subseteq ctx.cart /\ ctx'.favs = ctx.favs
        /\ disk' \in Tables /\ FailuresLoseNothing' /\ CartComesWithDraft'
    BY <2>1, WipedTables
  <2>3. list' # NotLoaded => list' = ctx'.favs
    BY <1>19, <2>2 DEF Wipe, Observed
  <2>4. list' \in [Products -> 0 .. 1] \cup {NotLoaded}
    BY <2>2, <2>3
  <2>5. heart' \in BOOLEAN /\ (shown' # None => heart' = (ctx'.favs[shown'] # 0))
    BY <1>19, <2>2, Zenon DEF Wipe
  <2>6. spared' \in BOOLEAN
    BY <2>1, Zenon
  <2>7. TypeOK'
    BY <1>19, <2>2, <2>4, <2>5, <2>6 DEF Wipe
  <2>8. Stack'
    BY <1>19, <2>2, <2>3, <2>5 DEF Wipe, Observed
  <2>9. CartHidesNothing'
    BY <1>19, <2>2 DEF Wipe
  <2>. QED
    BY <2>2, <2>3, <2>7, <2>8, <2>9
<1>20. CASE WipeCut
  BY <1>20, CutKeeps
<1>21. CASE LeavePayment
  <2>1. UNCHANGED <<ctx, disk, tab, list, due, spared>>
    BY <1>21 DEF LeavePayment
  <2>2. TypeOK'
    BY <1>21, <2>1 DEF LeavePayment
  <2>3. Stack'
    BY <1>21, <2>1 DEF LeavePayment
  <2>4. CartHidesNothing' /\ FailuresLoseNothing' /\ CartComesWithDraft'
    BY <1>21, <2>1 DEF LeavePayment
  <2>. QED
    BY <2>1, <2>2, <2>3, <2>4
<1>22. CASE PaymentSettles
  BY <1>22 DEF PaymentSettles
<1>23. CASE Background
  <2>1. CASE Die
    BY <2>1, DeathKeeps
  <2>2. CASE ~Die
    <3>1. Committed(ctx) /\ UNCHANGED <<place, tab, shown, heart, list, rows, due>>
      BY <1>23, <2>2, Zenon DEF Background
    <3>2. /\ ctx' = ctx /\ disk' = ctx /\ spared' \in BOOLEAN
          /\ FailuresLoseNothing' /\ CartComesWithDraft'
      BY <3>1, CommitKeeps
    <3>. QED
      BY <3>1, <3>2
  <2>. QED
    BY <2>1, <2>2
<1>24. CASE Kill
  BY <1>24, DeathKeeps DEF Kill
<1>25. CASE Relaunch
  BY <1>25 DEF Relaunch
<1>26. CASE UNCHANGED vars
  BY <1>26 DEF vars
<1>. QED
  BY <1>1, <1>2, <1>3, <1>4, <1>5, <1>6, <1>7, <1>8, <1>9, <1>10, <1>11, <1>12,
     <1>13, <1>14, <1>15, <1>16, <1>17, <1>18, <1>19, <1>20, <1>21, <1>22, <1>23,
     <1>24, <1>25, <1>26 DEF Next

\* The strengthened invariant holds throughout.
THEOREM Inductive == Spec => []IInv
<1>1. Init => IInv
  <2>. SUFFICES ASSUME Init PROVE IInv
    OBVIOUS
  <2>1. Empty \in Tables
    BY DEF Tables, Empty, NoFavs
  <2>2. TypeOK
    BY <2>1 DEF Init, TypeOK
  <2>. QED
    BY <2>2, LocalAssumption
    DEF Init, IInv, Empty, Stack, CartHidesNothing, FailuresLoseNothing,
        CartComesWithDraft
<1>2. IInv /\ [Next]_vars => IInv'
  BY IInvStep
<1>. QED
  BY <1>1, <1>2, PTL DEF Spec

\* Every table and screen keeps its type; a product never has two rows among
\* the favourites, in the context or on disk.
THEOREM TypeCorrect == Spec => []TypeOK
<1>1. IInv => TypeOK
  BY DEF IInv
<1>. QED
  BY Inductive, <1>1, PTL

\* The heart and the favourites tab agree with the table.
THEOREM HeartAndListAgree == Spec => []FavoritesAgree
<1>1. IInv => FavoritesAgree
  BY DEF IInv, Stack, FavoritesAgree
<1>. QED
  BY Inductive, <1>1, PTL

\* The cart screen hides nothing a checkout would order.
THEOREM CartScreenIsComplete == Spec => []CartHidesNothing
<1>1. IInv => CartHidesNothing
  BY DEF IInv
<1>. QED
  BY Inductive, <1>1, PTL

\* Whatever saves fail and wherever the process ends, no item or favourite is
\* lost.
THEOREM LocalDataSurvives == Spec => []FailuresLoseNothing
<1>1. IInv => FailuresLoseNothing
  BY DEF IInv
<1>. QED
  BY Inductive, <1>1, PTL

\* A cart that is found again has its draft, unless a cleanup could not fetch
\* the items and deleted the draft.
THEOREM DraftIsFoundWithCart == Spec => []CartComesWithDraft
<1>1. IInv => CartComesWithDraft
  BY DEF IInv
<1>. QED
  BY Inductive, <1>1, PTL
=============================================================================
