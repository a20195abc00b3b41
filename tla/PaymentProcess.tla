--------------------------- MODULE PaymentProcess ---------------------------
(***************************************************************************)
(* The payment page.  While it is shown a timer asks the gateway for the   *)
(* status of the payment every half second, without waiting for earlier    *)
(* answers: they overlap, come late and out of order, also after the page  *)
(* left.  A settled payment replaces the root of the window three seconds  *)
(* later.  The user may cancel, which cancels at the gateway and deletes   *)
(* at the shop in one DispatchGroup; nothing blocks the page meanwhile.    *)
(***************************************************************************)
EXTENDS Integers

CONSTANTS
    Polls,        \* bound: status requests in flight
    Cancels,      \* confirmed cancellations
    MaxJumps      \* bound: root replacements scheduled and not yet run

ASSUME PaymentAssumption == MaxJumps \in Nat \ {0}

VARIABLES
    status,       \* of the payment, at the gateway
    record,       \* of the order, at the shop
    phase,        \* the page: up, covered by another screen, or gone
    alert,        \* is the question "are you sure" presented?
    timer,        \* refreshTimer
    poll,         \* each request: free, sent, or the answer on its way
    shown,        \* paymentBCA: the status shown, None before an answer
    jumps,        \* blocks of transactionStatus that will replace the root
    cancel,       \* each cancellation
    waiting,      \* its DispatchGroup: requests not answered yet
    queued        \* its requests the servers have not handled

servers == <<status, record>>
page == <<phase, alert, timer>>
group == <<cancel, waiting, queued>>
vars == <<status, record, phase, alert, timer, poll, shown, jumps,
          cancel, waiting, queued>>

Statuses == {"pending", "settlement", "cancel", "expire"}
Legs == {"gateway", "shop"}

TypeOK ==
    /\ status \in Statuses
    /\ record \in {"kept", "deleted"}
    /\ phase \in {"up", "covered", "gone"}
    /\ alert \in {"none", "asked"} /\ timer \in {"on", "off"}
    /\ poll \in [Polls -> Statuses \cup {"free", "sent"}]
    /\ shown \in Statuses \cup {"none"}
    /\ jumps \in 0 .. MaxJumps
    /\ cancel \in [Cancels -> {"idle", "running", "closed", "lost"}]
    /\ waiting \in [Cancels -> SUBSET Legs]
    /\ queued \in [Cancels -> SUBSET Legs]

\* viewWillAppear: a request at once, and a new timer.
Appear ==
    /\ \E p \in Polls :
         /\ poll[p] = "free"
         /\ poll' = [poll EXCEPT ![p] = "sent"]
    /\ timer' = "on"

\* The page is pushed by the checkout, whose response may be missing, or by
\* the list of orders.
Init ==
    /\ status = "pending" /\ record = "kept"
    /\ phase = "up" /\ alert = "none" /\ timer = "on"
    /\ \E p \in Polls : poll = [q \in Polls |-> IF q = p THEN "sent" ELSE "free"]
    /\ shown \in {"none", "pending"}
    /\ jumps = 0
    /\ cancel = [c \in Cancels |-> "idle"]
    /\ waiting = [c \in Cancels |-> {}]
    /\ queued = [c \in Cancels |-> {}]

-----------------------------------------------------------------------------
(* The servers.                                                            *)

\* The bank transfer arrives, or the payment expires.
Settle(s) ==
    /\ status = "pending"
    /\ status' = s
    /\ UNCHANGED <<record, page, poll, shown, jumps, group>>

GatewayReads(p) ==
    /\ poll[p] = "sent"
    /\ poll' = [poll EXCEPT ![p] = status]
    /\ UNCHANGED <<servers, page, shown, jumps, group>>

\* Only a pending payment can be cancelled.
GatewayCancels(c) ==
    /\ "gateway" \in queued[c]
    /\ queued' = [queued EXCEPT ![c] = @ \ {"gateway"}]
    /\ status' = IF status = "pending" THEN "cancel" ELSE status
    /\ UNCHANGED <<record, page, poll, shown, jumps, cancel, waiting>>

ShopDeletes(c) ==
    /\ "shop" \in queued[c]
    /\ queued' = [queued EXCEPT ![c] = @ \ {"shop"}]
    /\ record' \in {record, "deleted"}
    /\ UNCHANGED <<status, page, poll, shown, jumps, cancel, waiting>>

-----------------------------------------------------------------------------
(* Refreshing.                                                             *)

Tick(p) ==
    /\ timer = "on"
    /\ poll[p] = "free"
    /\ poll' = [poll EXCEPT ![p] = "sent"]
    /\ UNCHANGED <<servers, page, shown, jumps, group>>

Settled_NotPending(s) == s # "pending"
Settled(s) == s = "settlement"

Stop_NoJump ==
    /\ timer' = "off"
    /\ UNCHANGED jumps

\* The page stops its timer and will go home, wherever the user is by then.
Stop ==
    /\ jumps < MaxJumps
    /\ jumps' = jumps + 1
    /\ timer' = "off"

\* transactionStatus: any success is shown, however old; self is held strongly.
PollAnswered(p) ==
    /\ poll[p] \in Statuses
    /\ poll' = [poll EXCEPT ![p] = "free"]
    /\ shown' = poll[p]
    /\ \/ Settled(poll[p]) /\ Stop
       \/ ~Settled(poll[p]) /\ UNCHANGED <<timer, jumps>>
    /\ UNCHANGED <<servers, phase, alert, group>>

PollFails(p) ==
    /\ poll[p] # "free"
    /\ poll' = [poll EXCEPT ![p] = "free"]
    /\ UNCHANGED <<servers, page, shown, jumps, group>>

\* The block of asyncAfter: a new root, without the page.
Jump ==
    /\ jumps > 0
    /\ jumps' = jumps - 1
    /\ phase' = "gone" /\ alert' = "none" /\ timer' = "off"
    /\ UNCHANGED <<servers, poll, shown, group>>

-----------------------------------------------------------------------------
(* The user.                                                               *)

\* goToOrderDetails, btnAction: viewWillDisappear ends the timer.
Cover ==
    /\ phase = "up" /\ alert = "none"
    /\ phase' = "covered" /\ timer' = "off"
    /\ UNCHANGED <<servers, alert, poll, shown, jumps, group>>

Return ==
    /\ phase = "covered"
    /\ phase' = "up"
    /\ Appear
    /\ UNCHANGED <<servers, alert, shown, jumps, group>>

\* goToHome, and leaving from a screen that covers the page.
Leave ==
    /\ phase # "gone" /\ alert = "none"
    /\ phase' = "gone" /\ timer' = "off"
    /\ UNCHANGED <<servers, alert, poll, shown, jumps, group>>

\* The button is in a cell that needs a response.
AskCancel ==
    /\ phase = "up" /\ alert = "none"
    /\ shown # "none"
    /\ alert' = "asked"
    /\ UNCHANGED <<servers, phase, timer, poll, shown, jumps, group>>

Refuse ==
    /\ alert = "asked"
    /\ alert' = "none"
    /\ UNCHANGED <<servers, phase, timer, poll, shown, jumps, group>>

\* cencelPaymentBtn: both requests, whatever the status has become.
Confirm(c) ==
    /\ alert = "asked"
    /\ cancel[c] = "idle"
    /\ alert' = "none"
    /\ cancel' = [cancel EXCEPT ![c] = "running"]
    /\ waiting' = [waiting EXCEPT ![c] = Legs]
    /\ queued' = [queued EXCEPT ![c] = Legs]
    /\ UNCHANGED <<servers, phase, timer, poll, shown, jumps>>

Answer_ShopSuccessOnly(c, leg) ==
    /\ cancel[c] = "running"
    /\ leg \in waiting[c]
    /\ leg = "shop" => record = "deleted"
    /\ waiting' = [waiting EXCEPT ![c] = @ \ {leg}]
    /\ UNCHANGED <<servers, page, poll, shown, jumps, cancel, queued>>

\* A success, a refusal, a timeout: the leg leaves.
Answer(c, leg) ==
    /\ cancel[c] = "running"
    /\ leg \in waiting[c]
    /\ waiting' = [waiting EXCEPT ![c] = @ \ {leg}]
    /\ UNCHANGED <<servers, page, poll, shown, jumps, cancel, queued>>

Pop_OnlyVisible ==
    /\ phase' = IF phase = "up" THEN "gone" ELSE phase
    /\ timer' = "off" /\ alert' = "none"

\* popToRootViewController: whatever is on top of the page goes with it.
Pop == phase' = "gone" /\ timer' = "off" /\ alert' = "none"

Notify(c) ==
    /\ cancel[c] = "running" /\ waiting[c] = {}
    /\ cancel' = [cancel EXCEPT ![c] = "closed"]
    /\ Pop
    /\ UNCHANGED <<servers, poll, shown, jumps, waiting, queued>>

\* The process ends.  Requests that are on their way may still be handled.
Kill ==
    /\ phase' = "gone" /\ timer' = "off" /\ alert' = "none"
    /\ poll' = [p \in Polls |-> "free"]
    /\ jumps' = 0
    /\ cancel' = [c \in Cancels |-> IF cancel[c] = "running" THEN "lost" ELSE cancel[c]]
    /\ UNCHANGED <<servers, shown, waiting, queued>>

-----------------------------------------------------------------------------
Next ==
    \/ \E s \in {"settlement", "expire"} : Settle(s)
    \/ \E p \in Polls : GatewayReads(p)
    \/ \E c \in Cancels : GatewayCancels(c)
    \/ \E c \in Cancels : ShopDeletes(c)
    \/ \E p \in Polls : Tick(p)
    \/ \E p \in Polls : PollAnswered(p)
    \/ \E p \in Polls : PollFails(p)
    \/ Jump
    \/ Cover
    \/ Return
    \/ Leave
    \/ AskCancel
    \/ Refuse
    \/ \E c \in Cancels : Confirm(c)
    \/ \E c \in Cancels, leg \in Legs : Answer(c, leg)
    \/ \E c \in Cancels : Notify(c)
    \/ Kill

Spec == Init /\ [][Next]_vars

\* Timers fire, delayed blocks run, every request of a cancellation ends by
\* itself (the client times out), and a status request that is repeated for
\* ever is not refused for ever.
Fairness ==
    /\ \A p \in Polls : /\ WF_vars(Tick(p))
                        /\ SF_vars(GatewayReads(p))
                        /\ SF_vars(PollAnswered(p))
    /\ WF_vars(Jump)
    /\ \A c \in Cancels : /\ \A leg \in Legs : WF_vars(Answer(c, leg))
                          /\ WF_vars(Notify(c))

FairSpec == Spec /\ Fairness

-----------------------------------------------------------------------------
(* What the page promises.                                                 *)

\* The success animation, and the way home it announces, only ever follow a
\* payment the gateway settled: not a late answer, not a cancellation in between.
HomeMeansSettled == jumps > 0 => status = "settlement"

\* A page in view never goes stale for good: it keeps asking, or it is about to
\* be replaced, also when late answers overwrite the settled one and when the
\* user left and came back in the meantime.
NeverStuck == phase = "up" => timer = "on" \/ jumps > 0

\* No timer outlives the visit: a page that is covered or gone asks nothing
\* more, however late the answers to its earlier questions come.
QuietWhenHidden == timer = "on" => phase = "up"

\* Once a cancellation has ended its page is off the stack, wherever the user
\* had gone while it ran, and does not come back.
CancelledPageIsGone == \A c \in Cancels : cancel[c] = "closed" => phase = "gone"

\* Both requests of a cancellation end, and so does the wait for them.
CancelEnds == \A c \in Cancels : cancel[c] = "running" ~> cancel[c] # "running"

\* A user who keeps looking at the page of a settled payment is taken home.
SettledGoesHome == status = "settlement" /\ phase = "up" ~> phase # "up"
=============================================================================
