# Verification of Shoee

The repository is a bootcamp portfolio: one full application, the Shoee shop
(`src/Shoee/Shoee`, an iOS client), and a number of small exercises. This
directory holds TLA+ models of the client, the TLC runs that check them on small
instances, and TLAPS proofs of what matters most for every instance.

Paths below are relative to `src/Shoee/Shoee` unless they start with `src/`.

## 1. Inventory

### Shoee

Everything of the client runs on the main queue: taps, Alamofire completions,
timers, delayed blocks. What interleaves is what lies between them: requests in
flight, blocks that wait, alerts and animations, and the end of the process at
any moment. What survives the process is Core Data, the keychain, UserDefaults,
and the state of three servers (the shop's API, a payment gateway, a real-time
database).

| Component | State it keeps | Operations | Hard because | Right when |
|---|---|---|---|---|
| Cart and detail (`Module/Cart`, `Module/DetailProduct`) | `Items` (quantity per product), `CheckOut` (at most one draft with an address), both in Core Data | add, change, delete; adding resets the draft's address | Int16 arithmetic, the process ends between saves, edits under a running checkout | items have a draft; nothing leaves its range |
| Checkout (`Module/CheckOutDetails`) | view model: live items and draft, selected payment, user, order id, response | select address and payment, PIN, `checkOutALL`: two concurrent requests joined by a DispatchGroup, wipe of the cart, payment page | attempts overlap, partial failure, the user leaves, the process ends between any two steps | every order is addressed, a bill has its order, the cart is emptied only by an answered attempt, the payment page is the screen's own |
| PIN screen (`Common/Component/PIN`) | digits, attempts, lockout and countdown, keypad, pending success blocks; `User.pin` in Core Data | digit, delete, tick, delayed success, dismissal | the keypad works while a lockout begins and while the success animation plays | nothing counts while locked, the keypad comes back, a match opens, creating a PIN does not |
| Payment page (`Module/PaymentProcess`) | timer, status shown, blocks that will replace the root, the group of a cancellation | poll every half second, settle, cancel, cover, return | overlapping answers, late or out of order, racing a cancellation and the user | going home means settled; a page in view is never stuck; a hidden one asks nothing |
| Orders (`Module/YourOrders`, `Module/OrderDetails`) | transactions, answers of the gateway, filter | a chain of status requests per refresh | a refresh during a chain, skipped answers against row numbers | each row shows one transaction's own status |
| Home feed (`Module/HomeSo`) | pages, popular products, category cache, selection, a DispatchGroup, skeleton and alert | first load, refresh, page, category | requests overlap, failures leave the group or not | group never left too often, cache never poisoned, skeleton never the end |
| Chat (`Module/Chat`) | a list in the tab, a list per conversation; rows on the server keyed by second | send, observe | order of rows, keys that are seconds, in one table for all users, opening while rows arrive | tab shows the latest, but for a second; each row once; no row of the user's missed but one that another user's had taken the place of |
| Session (`Module/Login`, `Module/Register`, `Common/Network/TokenService.swift`, `UserDefault.swift`, `App/SceneDelegate.swift`, logout in `Module/Profile`) | token in the keychain, user id in UserDefaults | login, register, logout, start | two stores written one after the other; ignored keychain errors | token and user id belong together |
| Favourites (`Module/Favorite`) | `FavoriteProduct` in Core Data, the tab's list | toggle, delete, observe changes | the list is reread inside the save that changes it | list equals table |
| Profile editing, shared views, request helpers | form text; popups; none | - | - | - |

Interaction: the detail screen writes the tables the cart edits and the checkout
reads; the checkout presents the PIN screen, which calls back, and pushes the
payment page; the payment page pushes the orders, which push payment pages; the
home screen presents the PIN screen to a new user; detail and tab open chats.

### Other programs

`src/TodoListCoreData` is a list over one Core Data entity, and is modelled.
`src/Atm` is a console program that ends after one transaction: nothing in it
follows anything else. `src/SyariahApp`,
`src/StoryBoardSwiftP1`, `src/produkAwal`, `src/sistem login`, `src/Belajar` and
`src/MateriDasarResource` are static screens, project templates and language
playgrounds; `Pods` directories are vendored, and all the C and C++ of the repository
is in them. None of these is modelled; everything that is modelled is Swift.

## 2. Modules

| Module | Models | Note |
|---|---|---|
| `CartStore` | the tables Items and CheckOut, sums over the cart | statements the screens run |
| `Checkout` | EXTENDS CartStore: cart screen, checkout screen and view model, attempts, both servers, the process | the core |
| `OrderContract` | abstract: where the user is, basket full or empty, life of each attempt | `Checkout` implements it (`KeepsContract`) |
| `PinEntry` | the PIN screen | |
| `Purchase` | EXTENDS Checkout and PinEntry: the two joined where one calls the other, with the blocks of a replaced PIN screen | |
| `PurchaseProofs` | theorems about `Checkout`, `PinEntry` and `Purchase` | each part is proved of the part's own specification, the last of the whole |
| `PaymentProcess`, `PaymentProofs` | the payment page with gateway and shop, theorems about it | |
| `HomeFeed`, `HomeFeedProofs` | home screen and view model, theorems about them | |
| `Chat`, `ChatProofs` | the messages table, the tab and a conversation, theorems about it | |
| `YourOrders`, `YourOrdersProofs` | the orders screen: list, chains of status requests, filter, details | |
| `Session`, `SessionProofs` | token, user id and root screen through login, registration, logout and restarts | |
| `LocalData`, `LocalDataProofs` | the Core Data tables and the screens that show them, with saves that fail | quantities and requests abstracted; `Checkout` has those |
| `TodoList`, `TodoListProofs` | the to-do list exercise, theorems about it | |
| `MC...` | constants and symmetry for TLC, one per specification | |

Definitions whose names end in `_Something` beside a definition of the same name
(`Notify_LastCleansUp` beside `Notify`) are faulty variants: putting one in the place
of the original must break the property it is paired with in `PROJECT.json`.

### Checkout

State and code: `items` and `draft` are the two tables; `vm` is what
`CheckOutViewModel` holds of its own (the view model's items and draft are live
managed objects, so a request body is read from the tables when it is built);
`mine` are the attempts of the checkout screen on the stack and `pushes` their
`successCheckOut` blocks that wait in the main queue; `job`, `group`, `order`,
`bill` are one call of `checkOutALL` each; `shop` and `pay` what the servers did.
Choices a reader should know of:

- The loading popup does not block touches (its cover has an empty frame), so the
  user may check out again, go back and return, or edit the cart during an attempt.
- A nil address lets the button through (`checkOutButtonTapped` compares with the
  placeholder only) and makes `checkOutData` return early; the bill is posted anyway.
- `SubmitTraps` is the force-unwrapped `userData!` after the order was posted; an
  Int16 conversion that does not fit ends the process as well.
- `NotifyCut` ends the process between the two saves of the `notify` block.
- A server handles a request at any time after it was sent, also when the client
  gave up; an answer may be a failure although the server accepted.
- Order ids of two attempts of one user differ: a PIN success takes five seconds,
  and ids have the resolution of a second.

### PinEntry

One controller at a time: `phase` is none, up, closing, or held (off screen but kept
by its lockout timer). Time is abstracted: the five seconds of the success block and
the ticks of the lockout come in any order, more than the clock allows.
The keypad stays usable during the success animation and in the first second of
a lockout; a lockout therefore starts with `keys` on, and the digits typed then stay.
Touches are ignored during a dismissal. UIKit may or may not run the completion of a
second `dismiss` (`Open`).

### PaymentProcess

One page, from the moment it is pushed. `poll` are status requests in flight, each
answered with the status at the time the gateway read it. At the gateway (external) a
settlement is final and only a pending payment can be cancelled or expire. The
alert belongs to the page. `jumps` counts the blocks that will replace the root.

### HomeFeed

`flying` is the set of requests without an answer, `group` the counter of
`dataFetchGroup`, which products requests that fail never leave. When the group gets
empty its `notify` block waits in the main queue (`notices`) and then reloads the table and
takes the skeleton away (`Notify`), also when the last of the group to end had failed.
A skeleton takes the table's touches.
`missed` records that the last failure could not present its alert because another
screen, or the previous alert on its way out, was in front.

### Chat

`rows` is the table at the server; `due` and `coming` are the rows an observer has
still to be told of. An observer is told of a row once, in any order, which is more
than the database allows, and not told when a row that is there is written again.
The app's keys are seconds, and the key and the date of a message are two readings of the
clock, so that a row may be dated a second after its key (`Send`). All users write to one
table: a row is the date of the user's own message or `Theirs`, which observers drop
(`tabDropped` and `talkDropped` remember that they were told of it), and either may overwrite
the other, at any second of the other user's clock. The model abstracts from the text,
assumes that the keys the shop's side uses are none of the app's, that the clock does not go
back, and that one conversation is open at a time.

### Purchase

The module extends `Checkout` and `PinEntry`, whose names do not clash (the PIN
screen's are `PinInit`, `PinNext`, `PinSpec` and so on); each step of the whole is a step
of one or of both. `ShowPIN` joins `TapCheckout` with `Present`; the closure that a success block
runs starts an attempt (`Order`); a created PIN closes the screen. A PIN screen that is
locked out and put aside lives on until its timer ends, and the user may bring up
another one: the success blocks it still has are counted by `late`, and when one runs it
dismisses whatever is presented. Checkout's `pin` is closed, open, or leaving (off the
screen, but its closure may still run); leaving the checkout screen resets it, so a
closure that UIKit runs after its checkout screen has gone is not modelled.
`Exhausted` ends the user's part once all attempts of the instance were made.

### YourOrders

`lists` are requests of the list, `chain` the walks through it, one status request at a
time; `data` and `gate` are the two arrays a row joins by its index, `rows` what the
table showed at its last reload. `host` is the navigation controller the screen was
pushed on: Back works in the home tab's only. `mixed`, `skipped` and `listLost` are
history: they say which of the accidents the code does not handle has happened. A list
that comes back empty ends the loading popup and the refresh control but reloads the table
only if there is a skeleton to hide: otherwise the rows of the previous list stay, as in
the code, and a tap on one hands the details page an empty list. `QuietTableIsCurrent` and
`DetailsHaveItems` name this case (`data = <<>>`) as their exception; the former says that the
rows left over still show the answers a tap on them opens.
What `sort` returns is defined by what it is, the one sequence of the list's
orders from the latest to the oldest, and the filter is a recursive function: both are
forms the prover can open, which the library's `SortSeq` and `SelectSeq` are not.

### Session

The keychain, the user defaults and the server's tokens; `stack` is the root
navigation controller, `tabsUser` the id the tabs were built with. `SecItemAdd` keeps
an existing token, which is what `StoreToken` does. Each oddity in `odd` is an event
after which the code does mix up two accounts: sign-ins that overlap, that end after
their screen, a payment page that brings a signed-in user back to the login screen, a
process that dies between the two writes, a new installation (the keychain survives
one), and a settled payment that replaces the root of a later session. `odd` is emptied
when no token is left. A logout that the client gave up, or that the process did not live
to see the end of, may still get to the server: `late` are the tokens it would revoke
(`GiveUp`, `ServeLate`).

### LocalData

`ctx` is what a fetch sees, `disk` what the next process finds. A save commits the
whole context; where a screen saves it itself a failure is a `fatalError`, while
`CoreDataHelper` drops it and leaves the change pending until any later save. The
cleanup of an attempt is two calls of `deleteAllData`, each of which may also fail to fetch,
and then deletes nothing (`Wiped`); if only the first one does, the cart is left without its
draft. `spared` remembers this until a save stores a draft, and is the exception of
`CartComesWithDraft`. Other fetches do not fail in the models, and in `Checkout` neither
saves nor fetches do.
`FavoriteProduct` is marked abstract in the data model, and the model assumes that its
rows are stored all the same. `due` stands for one attempt of Checkout at a time,
`PaymentSettles` for the payment page; `Recount` is any change of a quantity.

### TodoList

`ctx` and `disk` again; `cells` is the table. A change is saved at once; a failure is
dropped and the change stays in the context. On the way to the background the context
is saved without a fetch, and a failure there ends the process. Deleting an object that
has already left the store does nothing or ends the process, as Core Data decides.

## 3. Runs

| Run | Instance | Question |
|---|---|---|
| `checkout` | 1 product, quantity up to 2, 2 attempts (symmetric) | all safety properties and the refinement |
| `checkout_one` | 2 products at 1.5 and 2.5 dollars, limit 4, 1 attempt | does truncation keep gross and lines together, and does the payment page open? |
| `pin_entry` | 2 keys, PINs of 2 digits, 3 attempts, 3 ticks, 2 matches | the lockout, safety and liveness |
| `payment` | 3 requests in flight, 2 cancellations, 2 pending jumps | safety under late and reordered answers |
| `payment_live` | 1 request, 1 cancellation | cancellation and settlement end |
| `home_feed` | 2 categories, 2 pages, 2 loads, 2 category requests | safety under overlapping loads |
| `chat` | 2 rows of the shop, 2 seconds, 2 messages, any number of other users' | order, uniqueness, and is everything told? |
| `purchase` | 2 attempts, PINs of 1 of 2 digits, 1 wrong entry locks, 2 success blocks | does every attempt have its own right entry? |
| `orders` | 2 orders, 2 list requests, 2 chains | safety under overlapping refreshes |
| `session` | 2 accounts, 3 tokens, 2 sign-ins, 2 logouts, 1 jump | do token, id and tabs belong together? |
| `local_data` | 2 products, one with a fourth picture | do screens, context and store agree when saves fail? |
| `todo_list` | 3 items, 2 names | what is lost when a save fails? |

Why these bounds are enough to be interesting: two attempts are the least with an
overlap, an attempt of an earlier visit and a lost one; a third adds no new pair.
Three status requests give two late answers around a current one, and two
cancellations one that ended beside one that runs. Two loads, with two pages, make
the group count requests of both. Two messages in two seconds allow both in one second,
also dated in different ones, or one in each, and other users' rows before, between
and after them. In `pin_entry` three ticks separate the first, a middle and
the last tick; two matches are the least with a second block. Two orders are enough to
swap, two chains to mix. Three tokens let two sessions follow a first one whose token is
still about. Three items let one change fail, one be saved and one be edited meanwhile.
The largest runs, `purchase`, `checkout`, `orders` and `session`, have one to two million
states. What the bounds hide is
taken up by the proofs, which have none of them except where a bound is a guard
(`MaxMatches`, `MaxJumps`: the counters of pending blocks, a constant any natural
number may be).

Deadlock is checked in every run but `orders`, where the screen may be gone with
everything placed and settled: elsewhere some step is always possible.

### Fairness

Only `Checkout`, `PinEntry`, `PaymentProcess` and `Chat` state fairness.

- Weak fairness on answers: Alamofire ends each request with a value or an error (it
  times out), and `makeAPICall` calls its completion once in either case.
- Weak fairness on `notify` and delayed blocks, timers and the end of animations: the
  main queue is drained.
- `PaymentProcess` asks strong fairness of `GatewayReads` and `PollAnswered`: status
  requests are repeated for ever, and it is assumed that they do not all fail. This is
  an assumption about the network; only `SettledGoesHome` uses it.
- The user is never fair, and neither is a server that handles an order.

## 4. Properties

Checkout: `OrdersAddressed`, `ChargedOrdersExist` (a bill that lists anything goes
with an order for the same cart and amount), `ItemsHaveDraft`,
`PaymentMeansEmptyCart`, `PageIsOwn`, `EmptiedWhenAnswered` (action property),
`KeepsContract` (refinement), `GrossCoversLines`, `PaymentPageOpens`.
The interesting one is `ChargedOrdersExist`: nothing in `checkOutData` prevents a bill
without an order, and it is the order of the two deletes at the end of an attempt,
and the draft that every added item creates, that make it true across crashes.

PinEntry: `LockoutExact`, `KeypadUsable`, `NoGuessWhileLocked`, `CreationOpensNothing`,
`LockoutEnds`, `MatchOpens`. PaymentProcess: `HomeMeansSettled`, `NeverStuck`,
`QuietWhenHidden`, `CancelledPageIsGone`, `CancelEnds`, `SettledGoesHome`. HomeFeed:
`GroupCoversLegs`, `CacheIsTrue`, `NoPageTwice`, `SkeletonExplained`.
Chat: `TabShowsLatest`, `ListedOnce`, `TalkGetsAll`. Each is explained where it is
defined, and `PROJECT.json` pairs it with the hazard it covers.

YourOrders: `RowsAreOwn`, `DetailsHaveItems` (action property), `QuietTableIsCurrent`,
`LoadingExplained`. The rows are right only while one chain runs and no
status request fails; that is what `mixed` and `skipped` in `RowsAreOwn` say, and the
code does nothing about either. Purchase: `EveryAttemptWasEntered`.
Session: `OneAccount`, `RevokedExplained`, `ForgetsOnlyRevoked` (action property).
LocalData: `FavoritesAgree`, `CartHidesNothing`, `FailuresLoseNothing`,
`CartComesWithDraft`. TodoList: `AskedIsStored`, `RowsAreStored`,
`DeletionIsFinal` (action property): an item whose deletion failed is still listed and
can be renamed, and the save of the new name deletes it.

Where a theorem has settled a property for every instance and another one checked by a
run depends on it or implies it, TLC checks the other only: the type invariants,
`ItemsHaveDraft`, `EmptiedWhenAnswered`, `QuietWhenHidden` and `KeypadUsable` are
defined with the rest and proved (section 5). Only `purchase` checks a type invariant,
`PurchaseTypeOK`: it says of both halves at once that each keeps its types when the
other moves it, and that they agree on whether the keypad is up.

Several hazards have no property because the code makes no such promise; they are
listed with a note in `PROJECT.json`. Those the models already contain: an ended
attempt empties a cart that was refilled meanwhile; a settled page replaces the root
again after the user moved on; a settlement can race a cancellation; the category shown
is the one that arrived last; a failure behind another screen leaves the skeleton with no
alert; sign-ins that overlap keep the token of one user with the id of another; a replaced
chat row keeps its old text in an open conversation.

## 5. Proofs

All proofs hold for every value of the constants under the named assumptions of the
modules: `StoreAssumption` (finitely many products, non-negative prices, a positive
dollar and limit), `AttemptAssumption`, `PurchaseAssumption`, `ItemsAssumption`,
`SessionAssumption` and `LocalAssumption` (markers are not values, attempts are finitely
many), `PinAssumption`, `PaymentAssumption`, `ChatAssumption` and `FeedAssumption`
(positive lengths and bounds), `OrdersAssumption` (orders are finitely many numbers, by
which they are sorted).

- `PurchaseProofs`, the checkout. `TypeCorrect` first. The inductive invariant adds to the
  checked properties: `NothingSentWhenIdle` (an attempt that has not started asked nobody),
  `DownRunsNothing`, `PinGuardsDraft` (the PIN is only up over a draft that is not the
  placeholder: this carries the button's check to the request), and `ScreenOwns` (the
  attempts counted as the screen's are on its stack entry, its response is an accepted
  one of them). From it `EveryOrderIsAddressed`, `EveryBillHasItsOrder`, `CartHasDraft`,
  `PaymentPageFindsCartEmpty`, `PaymentPageShowsItsOwn`, the action property
  `CartEmptiedOnlyWhenAnswered`, and `ImplementsContract`: the initial state maps to an
  initial state of `OrderContract`, each step to a step or a stutter.
- `PurchaseProofs`, the sums. `GrossIsEnough` compares two sums over the cart that
  truncate at different places: the total, cut to whole dollars once, and the lines, cut
  one by one. The library's induction theorem is out of reach (it takes an operator), so
  induction is over a set of numbers (`CountUp`, `OneByOne`); from it the recursive sum
  over a finite set exists and obeys its equations (`SumExists`), and three such
  sums of which each summand is bounded are bounded in the same way (`SumsCompare`). With
  two facts about division (`Division`, `Scaling`) that gives `DollarsCoverLines` for any
  cart. The invariant adds `TotalFits`: on the screens that may send a bill the cart's
  total fits Int16, because opening the checkout ends the process where it does not and
  nothing but an attempt changes the cart from there on.
- `PurchaseProofs`, the PIN screen. The invariant adds `AsNew` (a controller that is
  gone is as new), `NothingToMatch` (no match before a PIN exists), `CreatorLeaves` (a
  creating screen is closing, unlocked) and `Bounded`. From it `LockoutIsExact`,
  `KeypadNeverDead` and `CreationIsNoEntry`. `LockoutHolds` is the action property: it
  needs `NothingToMatch`, since creation and examination are told apart by the stored PIN.
- `PurchaseProofs`, the whole. Every step of a purchase is a step or a stutter of the
  checkout (`PurchaseIsCheckout`), so all that is proved of the checkout holds of a
  purchase. It is not one of `PinSpec`, since a PIN screen put aside by a lockout can
  be replaced; so `PurchaseIInv` proves the PIN's invariant again, with `Counted`: the
  attempts started, the blocks that wait and the late ones are no more than the right
  entries, as long as those are counted. From it `NoOrderWithoutPIN`, `HalvesAgree` and
  `LockoutIsExactInPurchase`; `PurchasesAreWhole` lists what carries over.
- `PaymentProofs`. The invariant adds `AnswersAreTrue` (an answer on its way that says
  settled is true, because settled is final: this is what makes late answers harmless
  for `HomeMeansSettled`) and `AlertOnPage`.
- `ChatProofs`. Two lemmas say what a message at either end of a list adds to it. The
  invariant adds `OwnRows` (a row the app wrote is dated with its key or a second later,
  whatever it replaced), `ShopRows` (nobody overwrites a row of the shop), `DatesAreNear`
  (what the tab lists of a shop's row is when it was written, of another one of the two dates
  its key allows), `FirstIsLatest`, `ToldOnce` and `ClosedIsEmpty`. `ShowsLatest` follows from
  `ListedOnce` (a row told of is in the list unless it was another user's) and the facts
  about dates; the second of `Slack` is the one between the two dates of a key.
- `HomeFeedProofs`. The invariant adds `Numbered` (a request carries the number of a load
  or a tap that has happened) and `OnePage` (before a second load, each page is asked for
  and listed at most once, and none past the counter): from these `EveryPageOnce`, and
  from the requests being finitely many `GroupIsNeverLeftTooOften`;
  `CacheNeverPoisoned` and `SkeletonHasAReason` besides.
- `SessionProofs`. Two strengthenings, one per account and one per token. `TokensKept`
  follows the tokens: those on their way are good and nobody else's (`Unstored`), a
  logout asks for the token on the device or for one already refused, and at most one
  was served (`Asked`), and one that was given up can revoke no other token than the one on
  the device (`Abandoned`); it gives `RevokedIsExplained` and `NeverForgetsAValidToken`.
  `Plain` says what the device and the screens look like while `odd` is empty: one of
  six stacks (`Shapes`), at most one sign-in (`Alone`), and signed in, out, or between
  the two; it gives `AlwaysOneAccount`.
- `LocalDataProofs`. The invariant adds `Stack` (what a product page shows is under it,
  and its heart agrees also while covered). `HeartAndListAgree`, `CartScreenIsComplete`,
  `LocalDataSurvives` and `DraftIsFoundWithCart`, the last because the wipe deletes and
  saves the items before the draft (`WipedTables`), unless it could not fetch them.
- `YourOrdersProofs`, loading. `LoadingHasAReason` and `TableIsCurrent` need of types only
  that requests and chains are functions and positions are numbers (`Shaped`): a step of
  a chain leaves it at work or reloads the table.
- `YourOrdersProofs`, rows. First that the sort is sound: a finite set of orders has an
  ascending sequence (`AscendingExists`), a descending one is the only one of its set
  (`DescendingIsUnique`), so sorting what is sorted changes nothing (`SortedIsSame`); and
  that the filter leaves only answers that have arrived
  (`FilteredArrived`). `RowInv` then says that lists and arrays are in order (`InOrder`),
  that one chain works while nothing was mixed (`OneAtATime`), and that until
  something was mixed or skipped the answer at a position is that of the order at it
  (`Paired`). From it `TypeCorrect`, `RowsPairTheirOwn` and the action property
  `DetailsAreFound`.
- `TodoListProofs`. The invariant says that the context differs from the store only in
  what no save has stored (`PendingIsUnsaved`), that what is neither unsaved nor unshown
  is in the rows as it is in the store (`ShownIsStored`), that a menu has its item and that
  an ended process has nothing pending. From it `TypeCorrect`, `AskedReachesTheStore` and
  `RowsFollowTheStore`; `DeletionStands` is the action property.

Only model-checked: the six liveness properties `PaymentPageOpens`, `LockoutEnds`,
`MatchOpens`, `CancelEnds`, `SettledGoesHome` and `TalkGetsAll`, since fairness and ENABLED
are beyond the prover. Every other property of a run is a theorem.

## 6. Not modelled

Layout, formatting, images, logging and keyboards; the servers beyond what the client
can tell apart; the payment page's countdown cell; the image that arrives in a reused
cart cell; the requests of the detail screen; the product attached to a chat question;
profile editing (one form, one request); building URLs, headers and bodies; the ATM
exercise; course material, templates and vendored libraries. `PROJECT.json` gives the
reason for each component. The vendored libraries are the only C and C++ in the
repository, so the share of such lines that is modelled is, and stays, nil.

## 7. Plan

What could follow: Purchase composed with PaymentProcess and YourOrders, so that a
bill is followed to its order's row; the cart's cells; and, as theorems, the safety
facts on which the liveness properties rest (which step is possible whenever the
property waits).
