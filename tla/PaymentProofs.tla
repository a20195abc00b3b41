--------------------------- MODULE PaymentProofs ----------------------------
(***************************************************************************)
(* Proofs about the payment page, for any number of overlapping status     *)
(* requests and cancellations.                                             *)
(***************************************************************************)
EXTENDS PaymentProcess, TLAPS

\* An answer that says settled is true now: settled is final.
AnswersAreTrue == \A p \in Polls : poll[p] = "settlement" => status = "settlement"

\* The question is asked on the page itself.
AlertOnPage == alert = "asked" => phase = "up"

\* The inductive invariant.
IInv ==
    /\ TypeOK
    /\ AnswersAreTrue
    /\ AlertOnPage
    /\ HomeMeansSettled
    /\ NeverStuck
    /\ QuietWhenHidden
    /\ CancelledPageIsGone

USE PaymentAssumption DEF PaymentAssumption

\* Types: one action at a time.
LEMMA TypeStep == TypeOK /\ [Next]_vars => TypeOK'
<1> SUFFICES ASSUME TypeOK, [Next]_vars PROVE TypeOK'
  OBVIOUS
<1> USE DEF TypeOK, Statuses, Legs, servers, page, group
<1>1. ASSUME NEW s \in {"settlement", "expire"}, Settle(s) PROVE TypeOK'
  BY <1>1 DEF Settle
<1>2. ASSUME NEW p \in Polls, GatewayReads(p) PROVE TypeOK'
  BY <1>2 DEF GatewayReads
<1>3. ASSUME NEW c \in Cancels, GatewayCancels(c) PROVE TypeOK'
  BY <1>3 DEF GatewayCancels
<1>4. ASSUME NEW c \in Cancels, ShopDeletes(c) PROVE TypeOK'
  BY <1>4 DEF ShopDeletes
<1>5. ASSUME NEW p \in Polls, Tick(p) PROVE TypeOK'
  BY <1>5 DEF Tick
<1>6. ASSUME NEW p \in Polls, PollAnswered(p) PROVE TypeOK'
  BY <1>6 DEF PollAnswered, Settled, Stop
<1>7. ASSUME NEW p \in Polls, PollFails(p) PROVE TypeOK'
  BY <1>7 DEF PollFails
<1>8. CASE Jump
  BY <1>8 DEF Jump
<1>9. CASE Cover
  BY <1>9 DEF Cover
<1>10. CASE Return
  BY <1>10 DEF Return, Appear
<1>11. CASE Leave
  BY <1>11 DEF Leave
<1>12. CASE AskCancel
  BY <1>12 DEF AskCancel
<1>13. CASE Refuse
  BY <1>13 DEF Refuse
<1>14. ASSUME NEW c \in Cancels, Confirm(c) PROVE TypeOK'
  BY <1>14 DEF Confirm
<1>15. ASSUME NEW c \in Cancels, NEW leg \in Legs, Answer(c, leg) PROVE TypeOK'
  BY <1>15 DEF Answer
<1>16. ASSUME NEW c \in Cancels, Notify(c) PROVE TypeOK'
  BY <1>16 DEF Notify, Pop
<1>17. CASE Kill
  BY <1>17 DEF Kill
<1>18. CASE UNCHANGED vars
  BY <1>18 DEF vars
<1>19. QED
  BY <1>1, <1>2, <1>3, <1>4, <1>5, <1>6, <1>7, <1>8, <1>9, <1>10, <1>11, <1>12,
     <1>13, <1>14, <1>15, <1>16, <1>17, <1>18, Zenon DEF Next

\* The other conjuncts.
LEMMA IInvStep == IInv /\ [Next]_vars => IInv'
<1> SUFFICES ASSUME IInv, [Next]_vars PROVE IInv'
  OBVIOUS
<1> DEFINE Rest == /\ AnswersAreTrue /\ AlertOnPage /\ HomeMeansSettled
                   /\ NeverStuck /\ QuietWhenHidden /\ CancelledPageIsGone
<1>t. TypeOK /\ TypeOK'
  BY TypeStep DEF IInv
<1>r. Rest
  BY DEF IInv
<1>s. SUFFICES Rest'
  BY <1>t DEF IInv
<1> HIDE DEF Rest
<1>1. ASSUME NEW s \in {"settlement", "expire"}, Settle(s) PROVE Rest'
  BY <1>1, <1>t, <1>r
  DEF Rest, Settle, page, group, TypeOK, AnswersAreTrue, AlertOnPage,
      HomeMeansSettled, NeverStuck, QuietWhenHidden, CancelledPageIsGone
<1>2. ASSUME NEW p \in Polls, GatewayReads(p) PROVE Rest'
  BY <1>2, <1>t, <1>r
  DEF Rest, GatewayReads, servers, page, group, TypeOK, AnswersAreTrue, AlertOnPage,
      HomeMeansSettled, NeverStuck, QuietWhenHidden, CancelledPageIsGone
<1>3. ASSUME NEW c \in Cancels, GatewayCancels(c) PROVE Rest'
  BY <1>3, <1>t, <1>r
  DEF Rest, GatewayCancels, page, TypeOK, AnswersAreTrue, AlertOnPage,
      HomeMeansSettled, NeverStuck, QuietWhenHidden, CancelledPageIsGone
<1>4. ASSUME NEW c \in Cancels, ShopDeletes(c) PROVE Rest'
  BY <1>4, <1>t, <1>r
  DEF Rest, ShopDeletes, page, AnswersAreTrue, AlertOnPage,
      HomeMeansSettled, NeverStuck, QuietWhenHidden, CancelledPageIsGone
<1>5. ASSUME NEW p \in Polls, Tick(p) PROVE Rest'
  BY <1>5, <1>t, <1>r
  DEF Rest, Tick, servers, page, group, TypeOK, AnswersAreTrue, AlertOnPage,
      HomeMeansSettled, NeverStuck, QuietWhenHidden, CancelledPageIsGone
<1>6. ASSUME NEW p \in Polls, PollAnswered(p) PROVE Rest'
  BY <1>6, <1>t, <1>r
  DEF Rest, PollAnswered, Settled, Stop, servers, group, TypeOK, AnswersAreTrue,
      AlertOnPage, HomeMeansSettled, NeverStuck, QuietWhenHidden, CancelledPageIsGone
<1>7. ASSUME NEW p \in Polls, PollFails(p) PROVE Rest'
  BY <1>7, <1>t, <1>r
  DEF Rest, PollFails, servers, page, group, TypeOK, AnswersAreTrue, AlertOnPage,
      HomeMeansSettled, NeverStuck, QuietWhenHidden, CancelledPageIsGone
<1>8. CASE Jump
  BY <1>8, <1>t, <1>r
  DEF Rest, Jump, servers, group, TypeOK, AnswersAreTrue, AlertOnPage,
      HomeMeansSettled, NeverStuck, QuietWhenHidden, CancelledPageIsGone
<1>9. CASE Cover
  BY <1>9, <1>t, <1>r
  DEF Rest, Cover, servers, group, AnswersAreTrue, AlertOnPage,
      HomeMeansSettled, NeverStuck, QuietWhenHidden, CancelledPageIsGone
<1>10. CASE Return
  BY <1>10, <1>t, <1>r
  DEF Rest, Return, Appear, servers, group, TypeOK, AnswersAreTrue, AlertOnPage,
      HomeMeansSettled, NeverStuck, QuietWhenHidden, CancelledPageIsGone
<1>11. CASE Leave
  BY <1>11, <1>t, <1>r
  DEF Rest, Leave, servers, group, AnswersAreTrue, AlertOnPage,
      HomeMeansSettled, NeverStuck, QuietWhenHidden, CancelledPageIsGone
<1>12. CASE AskCancel
  BY <1>12, <1>t, <1>r
  DEF Rest, AskCancel, servers, group, AnswersAreTrue, AlertOnPage,
      HomeMeansSettled, NeverStuck, QuietWhenHidden, CancelledPageIsGone
<1>13. CASE Refuse
  BY <1>13, <1>t, <1>r
  DEF Rest, Refuse, servers, group, AnswersAreTrue, AlertOnPage,
      HomeMeansSettled, NeverStuck, QuietWhenHidden, CancelledPageIsGone
<1>14. ASSUME NEW c \in Cancels, Confirm(c) PROVE Rest'
  BY <1>14, <1>t, <1>r
  DEF Rest, Confirm, servers, TypeOK, AnswersAreTrue, AlertOnPage,
      HomeMeansSettled, NeverStuck, QuietWhenHidden, CancelledPageIsGone
<1>15. ASSUME NEW c \in Cancels, NEW leg \in Legs, Answer(c, leg) PROVE Rest'
  BY <1>15, <1>t, <1>r
  DEF Rest, Answer, servers, page, AnswersAreTrue, AlertOnPage,
      HomeMeansSettled, NeverStuck, QuietWhenHidden, CancelledPageIsGone
<1>16. ASSUME NEW c \in Cancels, Notify(c) PROVE Rest'
  BY <1>16, <1>t, <1>r
  DEF Rest, Notify, Pop, servers, TypeOK, AnswersAreTrue, AlertOnPage,
      HomeMeansSettled, NeverStuck, QuietWhenHidden, CancelledPageIsGone
<1>17. CASE Kill
  BY <1>17, <1>t, <1>r
  DEF Rest, Kill, servers, TypeOK, AnswersAreTrue, AlertOnPage,
      HomeMeansSettled, NeverStuck, QuietWhenHidden, CancelledPageIsGone
<1>18. CASE UNCHANGED vars
  BY <1>18, <1>r
  DEF Rest, vars, AnswersAreTrue, AlertOnPage,
      HomeMeansSettled, NeverStuck, QuietWhenHidden, CancelledPageIsGone
<1>19. QED
  BY <1>1, <1>2, <1>3, <1>4, <1>5, <1>6, <1>7, <1>8, <1>9, <1>10, <1>11, <1>12,
     <1>13, <1>14, <1>15, <1>16, <1>17, <1>18, Zenon DEF Next

\* The inductive invariant holds in every reachable state.
THEOREM Inductive == Spec => []IInv
<1>1. Init => IInv
  <2> SUFFICES ASSUME Init PROVE IInv
    OBVIOUS
  <2>1. PICK p \in Polls : poll = [q \in Polls |-> IF q = p THEN "sent" ELSE "free"]
    BY DEF Init
  <2>2. poll \in [Polls -> {"free", "sent"}]
    BY <2>1
  <2>3. TypeOK
    BY <2>2 DEF Init, TypeOK, Statuses, Legs
  <2>4. AnswersAreTrue
    BY <2>2 DEF AnswersAreTrue
  <2>5. QED
    BY <2>3, <2>4
    DEF Init, IInv, AlertOnPage, HomeMeansSettled, NeverStuck, QuietWhenHidden,
        CancelledPageIsGone
<1>2. QED
  BY <1>1, IInvStep, PTL DEF Spec

\* Type correctness.
THEOREM TypeCorrect == Spec => []TypeOK
<1>1. IInv => TypeOK
  BY DEF IInv
<1>2. QED
  BY <1>1, Inductive, PTL

\* The way home is only ever announced for a settled payment.
THEOREM HomeOnlyWhenSettled == Spec => []HomeMeansSettled
<1>1. IInv => HomeMeansSettled
  BY DEF IInv
<1>2. QED
  BY <1>1, Inductive, PTL

\* A page in view keeps asking or is about to be replaced.
THEOREM PageNeverStuck == Spec => []NeverStuck
<1>1. IInv => NeverStuck
  BY DEF IInv
<1>2. QED
  BY <1>1, Inductive, PTL

\* No timer runs for a page that is not in view.
THEOREM HiddenPageIsQuiet == Spec => []QuietWhenHidden
<1>1. IInv => QuietWhenHidden
  BY DEF IInv
<1>2. QED
  BY <1>1, Inductive, PTL

\* A cancellation that ended took the page off the stack for good.
THEOREM CancelTakesPageAway == Spec => []CancelledPageIsGone
<1>1. IInv => CancelledPageIsGone
  BY DEF IInv
<1>2. QED
  BY <1>1, Inductive, PTL
=============================================================================
