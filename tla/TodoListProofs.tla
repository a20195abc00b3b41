--------------------------- MODULE TodoListProofs ---------------------------
(***************************************************************************)
(* What the to-do list keeps when saves and fetches fail in any order, for *)
(* any items and names.                                                    *)
(***************************************************************************)
EXTENDS TodoList, TLAPS

\* A menu about an item is about one.
MenuHasItem == menu \in {"sheet", "edit"} => held \in Items

\* The context is what the user asked for, and it differs from the store only
\* in what no save has stored yet.
PendingIsUnsaved ==
    /\ asked = ctx
    /\ \A i \in Items : ctx[i] # disk[i] => i \in unsaved

\* What no save has stored no fetch has shown; of the rest the rows are right,
\* in the background as well: the save on the way there stores only the rest.
ShownIsStored ==
    /\ unsaved \subseteq unshown
    /\ app # "down" => \A i \in Items \ unshown : cells[i] = disk[i]

\* A process that is not there has nothing pending.
DownIsClean == app = "down" => unsaved = {}

\* The inductive invariant.
IInv == TypeOK /\ MenuHasItem /\ PendingIsUnsaved /\ ShownIsStored /\ DownIsClean

LEMMA Initially == Init => IInv
BY DEF Init, IInv, TypeOK, MenuHasItem, PendingIsUnsaved, ShownIsStored, DownIsClean,
       Contents, Nothing

-----------------------------------------------------------------------------
(* The steps the handlers end with.                                        *)

\* A save and the fetch after it keep the invariant, whatever became of the
\* one item that was changed.
LEMMA SaveKeeps ==
    ASSUME IInv, NEW i \in Items, Save(i), Closed, app' = app, app = "active",
           asked' = ctx', ctx' \in Contents,
           \A j \in Items \ {i} : ctx'[j] = ctx[j]
    PROVE  IInv'
<1>1. TypeOK'
  BY ItemsAssumption
  DEF IInv, TypeOK, Save, Stored, NotStored, GetAllItems, Closed
<1>2. CASE Stored(i)
  BY <1>1, <1>2
  DEF IInv, TypeOK, Stored, GetAllItems, Closed, MenuHasItem, PendingIsUnsaved,
      ShownIsStored, DownIsClean
<1>3. CASE NotStored(i)
  BY <1>1, <1>3
  DEF IInv, NotStored, Closed, MenuHasItem, PendingIsUnsaved, ShownIsStored, DownIsClean
<1>4. QED
  BY <1>2, <1>3 DEF Save

\* The end of the process keeps the invariant.
LEMMA DieKeeps ==
    ASSUME IInv, Die, disk' = disk
    PROVE  IInv'
BY DEF IInv, Die, Closed, TypeOK, Contents, Nothing, MenuHasItem, PendingIsUnsaved,
       ShownIsStored, DownIsClean

-----------------------------------------------------------------------------
(* Every step.                                                             *)

LEMMA Preserved == IInv /\ [Next]_vars => IInv'
<1> SUFFICES ASSUME IInv, [Next]_vars PROVE IInv'
  OBVIOUS
<1>1. CASE DidTapAdd \/ Dismiss \/ Edit \/ EnterForeground
  BY <1>1
  DEF DidTapAdd, Dismiss, Edit, EnterForeground, Closed, IInv, TypeOK, MenuHasItem,
      PendingIsUnsaved, ShownIsStored, DownIsClean
<1>2. ASSUME NEW i \in Items, NEW name \in Names, CreateItem(i, name) PROVE IInv'
  <2>1. /\ ctx' = [ctx EXCEPT ![i] = name]
        /\ asked' = [ctx EXCEPT ![i] = name]
        /\ ctx \in Contents
    BY <1>2 DEF CreateItem, IInv, PendingIsUnsaved, TypeOK
  <2>2. asked' = ctx' /\ ctx' \in Contents /\ \A j \in Items \ {i} : ctx'[j] = ctx[j]
    BY <2>1 DEF Contents
  <2>3. QED
    BY <1>2, <2>2, SaveKeeps DEF CreateItem
<1>3. ASSUME NEW i \in Items, DidSelectRow(i) PROVE IInv'
  BY <1>3
  DEF DidSelectRow, IInv, TypeOK, MenuHasItem, PendingIsUnsaved, ShownIsStored, DownIsClean
<1>4. ASSUME NEW name \in Names, UpdateItem(name) PROVE IInv'
  <2>1. held \in Items /\ ctx \in Contents /\ asked = ctx
    BY <1>4 DEF UpdateItem, IInv, TypeOK, MenuHasItem, PendingIsUnsaved
  <2>2. asked' = ctx' /\ ctx' \in Contents /\ \A j \in Items \ {held} : ctx'[j] = ctx[j]
    BY <1>4, <2>1 DEF UpdateItem, Contents
  <2>3. QED
    BY <1>4, <2>1, <2>2, SaveKeeps DEF UpdateItem
<1>5. CASE DeleteItem
  <2>1. held \in Items /\ ctx \in Contents /\ asked = ctx
    BY <1>5 DEF DeleteItem, IInv, TypeOK, MenuHasItem, PendingIsUnsaved
  <2>2. asked' = ctx' /\ ctx' \in Contents /\ \A j \in Items \ {held} : ctx'[j] = ctx[j]
    BY <1>5, <2>1 DEF DeleteItem, Contents
  <2>3. QED
    BY <1>5, <2>1, <2>2, SaveKeeps DEF DeleteItem
<1>6. CASE Launch
  <2>1. unsaved = {} /\ \A i \in Items : ctx[i] = disk[i]
    BY <1>6 DEF Launch, IInv, PendingIsUnsaved, DownIsClean
  <2>2. QED
    BY <1>6, <2>1
    DEF Launch, GetAllItems, IInv, TypeOK, MenuHasItem, PendingIsUnsaved, ShownIsStored,
        DownIsClean
<1>7. CASE DeleteRefused \/ Kill
  BY <1>7, DieKeeps DEF DeleteRefused, Kill
<1>8. CASE EnterBackground
  <2>1. CASE Die /\ UNCHANGED disk
    BY <2>1, DieKeeps
  <2>2. CASE /\ app' = "background" /\ disk' = ctx /\ unsaved' = {}
             /\ UNCHANGED <<ctx, cells, menu, held, asked, unshown>>
    BY <1>8, <2>2
    DEF EnterBackground, IInv, TypeOK, MenuHasItem, PendingIsUnsaved, ShownIsStored,
        DownIsClean
  <2>3. QED
    BY <1>8, <2>1, <2>2 DEF EnterBackground
<1>9. CASE UNCHANGED vars
  BY <1>9
  DEF vars, IInv, TypeOK, MenuHasItem, PendingIsUnsaved, ShownIsStored, DownIsClean
<1>10. QED
  BY <1>1, <1>2, <1>3, <1>4, <1>5, <1>6, <1>7, <1>8, <1>9 DEF Next

\* What a failed save or fetch leaves behind is what the histories say, in
\* every state of the to-do list.
THEOREM Inductive == Spec => []IInv
<1>1. QED
  BY Initially, Preserved, PTL DEF Spec

\* TypeOK: the names in the context, the store and the rows are names, and the
\* menu is about an item or nothing.
THEOREM TypeCorrect == Spec => []TypeOK
<1>1. IInv => TypeOK
  BY DEF IInv
<1>2. QED
  BY <1>1, Inductive, PTL

\* AskedIsStored: what the user asked for is in the store from the first save
\* that works after it, however many failed before.
THEOREM AskedReachesTheStore == Spec => []AskedIsStored
<1>1. IInv => AskedIsStored
  BY DEF IInv, PendingIsUnsaved, AskedIsStored
<1>2. QED
  BY <1>1, Inductive, PTL

\* RowsAreStored: only a change or a fetch that failed leaves a row that
\* differs from the store.
THEOREM RowsFollowTheStore == Spec => []RowsAreStored
<1>1. IInv => RowsAreStored
  BY DEF IInv, ShownIsStored, RowsAreStored
<1>2. QED
  BY <1>1, Inductive, PTL

-----------------------------------------------------------------------------
(* Deletions.                                                              *)

\* The name the store has of an item that is deleted in the context stays what
\* it is or goes, in every step that leaves the process up.
LEMMA DeletedStaysDeleted ==
    ASSUME IInv, [Next]_vars, NEW i \in Items,
           asked[i] = None, disk[i] # None, app' # "down"
    PROVE  disk'[i] \in {disk[i], None} /\ ctx'[i] = None
<1> DEFINE Kept == disk'[i] \in {disk[i], None} /\ ctx'[i] = None
<1>1. ctx[i] = None /\ ctx \in Contents /\ app # "down"
  BY DEF IInv, PendingIsUnsaved, TypeOK, DownIsClean
<1>2. ASSUME ctx'[i] = None, NEW j, Save(j) PROVE Kept
  BY <1>2 DEF Save, Stored, NotStored
<1>3. ASSUME NEW j \in Items, NEW name \in Names, CreateItem(j, name) PROVE Kept
  <2>1. j # i
    BY <1>3 DEF CreateItem, Unused
  <2>2. ctx'[i] = None
    BY <1>1, <1>3, <2>1 DEF CreateItem, Contents
  <2>3. QED
    BY <1>2, <1>3, <2>2 DEF CreateItem
<1>4. ASSUME NEW name \in Names, UpdateItem(name) PROVE Kept
  <2>1. ctx'[i] = None
    BY <1>1, <1>4 DEF UpdateItem, Contents
  <2>2. QED
    BY <1>2, <1>4, <2>1 DEF UpdateItem
<1>5. CASE DeleteItem
  <2>1. ctx'[i] = None
    BY <1>1, <1>5 DEF DeleteItem, Contents
  <2>2. QED
    BY <1>2, <1>5, <2>1 DEF DeleteItem
<1>6. CASE DidTapAdd \/ Dismiss \/ Edit \/ EnterForeground \/ UNCHANGED vars
  BY <1>1, <1>6 DEF DidTapAdd, Dismiss, Edit, EnterForeground, vars
<1>7. ASSUME NEW j \in Items, DidSelectRow(j) PROVE Kept
  BY <1>1, <1>7 DEF DidSelectRow
<1>8. CASE EnterBackground
  BY <1>1, <1>8 DEF EnterBackground, Die
<1>9. ~Launch /\ ~DeleteRefused /\ ~Kill
  BY <1>1 DEF Launch, DeleteRefused, Kill, Die
<1>10. QED
  BY <1>3, <1>4, <1>5, <1>6, <1>7, <1>8, <1>9 DEF Next

\* DeletionIsFinal: a deletion that could not be saved is never undone by an
\* edit of the row that is still shown.
THEOREM DeletionStands == Spec => DeletionIsFinal
<1>1. IInv /\ [Next]_vars =>
        [\A i \in Items : asked[i] = None /\ disk[i] # None /\ app' # "down"
            => disk'[i] \in {disk[i], None} /\ ctx'[i] = None]_vars
  BY DeletedStaysDeleted
<1>2. QED
  BY <1>1, Inductive, PTL DEF Spec, DeletionIsFinal
=============================================================================
