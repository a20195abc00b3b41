------------------------------ MODULE TodoList ------------------------------
(***************************************************************************)
(* The to-do list: one screen over one Core Data context.  A change is     *)
(* made in the context and saved at once; when the save fails nobody is    *)
(* told, the change stays in the context, and it is saved with the next    *)
(* change or when the app goes to the background.                          *)
(*                                                                         *)
(* The reload of the table, the next block of the main queue, is taken     *)
(* with the fetch that asks for it: no tap comes in between.  The name of  *)
(* an item is all there is to it, and the order of the rows is left out:   *)
(* the fetch asks for none.                                                *)
(***************************************************************************)
CONSTANTS
    Items,        \* managed objects; one that is gone may stand for a new one
    Names,        \* names that are not empty
    None          \* no name, no item

ASSUME ItemsAssumption == None \notin Items \cup Names

VARIABLES
    app,          \* active, background, down
    ctx,          \* the name of each object in the context, None without it
    disk,         \* the same in the store
    cells,        \* the rows: the objects in models, as they were shown
    menu,         \* what is presented: none, new, sheet, edit
    held,         \* the item the sheet or the edit is about
    \* History.
    asked,        \* what the user last asked for an item; a deletion is final
    unsaved,      \* items changed by the user since the last save that worked
    unshown       \* items changed by the user since the last fetch that worked

vars == <<app, ctx, disk, cells, menu, held, asked, unsaved, unshown>>

Contents == [Items -> Names \cup {None}]
Listed == {i \in Items : cells[i] # None}

TypeOK ==
    /\ app \in {"active", "background", "down"}
    /\ {ctx, disk, cells, asked} \subseteq Contents
    /\ menu \in {"none", "new", "sheet", "edit"} /\ held \in Items \cup {None}
    /\ unsaved \subseteq Items /\ unshown \subseteq Items

Nothing == [i \in Items |-> None]

\* Before the first launch.
Init ==
    /\ app = "down"
    /\ ctx = Nothing /\ disk = Nothing /\ cells = Nothing
    /\ menu = "none" /\ held = None
    /\ asked = Nothing /\ unsaved = {} /\ unshown = {}

-----------------------------------------------------------------------------
(* The context and the table.                                              *)

\* getAlltems: what the context holds; a fetch that fails changes nothing.
GetAllItems ==
    \/ cells' = ctx' /\ unshown' = {}
    \/ cells' = cells /\ unshown' = Items

Stored_ThisOnly(i) ==
    /\ disk' = [disk EXCEPT ![i] = ctx'[i]]
    /\ unsaved' = {}
    /\ GetAllItems

Stored(i) ==
    /\ disk' = ctx'
    /\ unsaved' = {}
    /\ GetAllItems

NotStored(i) ==
    /\ unsaved' = unsaved \cup {i}
    /\ unshown' = unshown \cup {i}
    /\ UNCHANGED <<disk, cells>>

Save_WithoutFetch(i) ==
    \/ disk' = ctx' /\ unsaved' = {} /\ UNCHANGED <<cells, unshown>>
    \/ NotStored(i)

\* try context.save(); getAlltems()
Save(i) == Stored(i) \/ NotStored(i)

Closed == menu' = "none" /\ held' = None

-----------------------------------------------------------------------------
(* The user.                                                               *)

DidTapAdd ==
    /\ app = "active" /\ menu = "none"
    /\ menu' = "new"
    /\ UNCHANGED <<app, ctx, disk, cells, held, asked, unsaved, unshown>>

\* An object of its own.
Unused(i) == ctx[i] = None /\ disk[i] = None /\ cells[i] = None

\* Submit, and createItem.
CreateItem(i, name) ==
    /\ app = "active" /\ menu = "new"
    /\ Unused(i)
    /\ ctx' = [ctx EXCEPT ![i] = name]
    /\ asked' = [asked EXCEPT ![i] = name]
    /\ Save(i)
    /\ Closed
    /\ UNCHANGED app

\* An empty name, or Cencel.
Dismiss ==
    /\ app = "active" /\ menu # "none"
    /\ Closed
    /\ UNCHANGED <<app, ctx, disk, cells, asked, unsaved, unshown>>

\* didSelectRowAt
DidSelectRow(i) ==
    /\ app = "active" /\ menu = "none"
    /\ i \in Listed
    /\ menu' = "sheet" /\ held' = i
    /\ UNCHANGED <<app, ctx, disk, cells, asked, unsaved, unshown>>

Edit ==
    /\ app = "active" /\ menu = "sheet"
    /\ menu' = "edit"
    /\ UNCHANGED <<app, ctx, disk, cells, held, asked, unsaved, unshown>>

UpdateItem_Revives(name) ==
    /\ app = "active" /\ menu = "edit"
    /\ ctx' = [ctx EXCEPT ![held] = name]
    /\ UNCHANGED asked
    /\ Save(held)
    /\ Closed
    /\ UNCHANGED app

\* save, and updateItem.  The row may be of an object that is deleted in the
\* context: the name it is given is deleted with it.
UpdateItem(name) ==
    /\ app = "active" /\ menu = "edit"
    /\ IF ctx[held] = None
       THEN UNCHANGED <<ctx, asked>>
       ELSE /\ ctx' = [ctx EXCEPT ![held] = name]
            /\ asked' = [asked EXCEPT ![held] = name]
    /\ Save(held)
    /\ Closed
    /\ UNCHANGED app

Gone(i) == ctx[i] = None /\ disk[i] = None

\* deleteItem
DeleteItem ==
    /\ app = "active" /\ menu = "sheet"
    /\ ctx' = [ctx EXCEPT ![held] = None]
    /\ asked' = [asked EXCEPT ![held] = None]
    /\ Save(held)
    /\ Closed
    /\ UNCHANGED app

-----------------------------------------------------------------------------
(* The process.                                                            *)

\* Nothing in memory is left.
Die ==
    /\ app' = "down"
    /\ ctx' = disk' /\ asked' = disk'
    /\ cells' = Nothing
    /\ Closed
    /\ unsaved' = {} /\ unshown' = {}

\* viewDidLoad
Launch ==
    /\ app = "down"
    /\ app' = "active"
    /\ UNCHANGED <<ctx, disk, menu, held, asked, unsaved>>
    /\ GetAllItems

\* A deleted object that left the store has no context any more: Core Data
\* may refuse to delete it again.
DeleteRefused ==
    /\ app = "active" /\ menu = "sheet"
    /\ Gone(held)
    /\ UNCHANGED disk
    /\ Die

\* sceneDidEnterBackground and AppDelegate.saveContext: no fetch, and a save
\* that fails is a fatalError.
EnterBackground ==
    /\ app = "active"
    /\ \/ /\ app' = "background"
          /\ disk' = ctx /\ unsaved' = {}
          /\ UNCHANGED <<ctx, cells, menu, held, asked, unshown>>
       \/ /\ ctx # disk
          /\ UNCHANGED disk
          /\ Die

EnterForeground ==
    /\ app = "background"
    /\ app' = "active"
    /\ UNCHANGED <<ctx, disk, cells, menu, held, asked, unsaved, unshown>>

Kill ==
    /\ app # "down"
    /\ UNCHANGED disk
    /\ Die

-----------------------------------------------------------------------------
Next ==
    \/ DidTapAdd
    \/ \E i \in Items, name \in Names : CreateItem(i, name)
    \/ Dismiss
    \/ \E i \in Items : DidSelectRow(i)
    \/ Edit
    \/ \E name \in Names : UpdateItem(name)
    \/ DeleteItem
    \/ Launch
    \/ DeleteRefused
    \/ EnterBackground
    \/ EnterForeground
    \/ Kill

Spec == Init /\ [][Next]_vars

-----------------------------------------------------------------------------
(* Properties.                                                             *)

\* One save that works stores everything the user asked for, also what the
\* saves before it failed to store: a failure is lost only with the process.
AskedIsStored ==
    \A i \in Items : disk[i] # asked[i] => i \in unsaved

\* A row differs from the store only after a failure of its own change or of
\* a fetch: the change that was pending when the app went to the background
\* is stored without its row, and it is the only kind.
RowsAreStored ==
    app = "active" => \A i \in Items \ unshown : cells[i] = disk[i]

\* A deletion that was asked for is never taken back while the app runs: an
\* item whose deletion failed is still shown and may get a new name, but the
\* store never gets that name, and the item stays deleted in the context.
DeletionIsFinal ==
    [][\A i \in Items :
         asked[i] = None /\ disk[i] # None /\ app' # "down"
           => disk'[i] \in {disk[i], None} /\ ctx'[i] = None]_vars
=============================================================================
