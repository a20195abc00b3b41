--------------------------- MODULE OrderContract ---------------------------
(***************************************************************************)
(* What buying promises the user, without tables, screens or servers: the  *)
(* basket, where the user is, and the life of each attempt to buy it.      *)
(*                                                                         *)
(*   - the basket changes only while shopping, or is emptied by an attempt *)
(*     that was running;                                                   *)
(*   - an attempt starts once, from the checkout, and ends once;           *)
(*   - paying is reached only with an empty basket, after some attempt     *)
(*     closed;                                                             *)
(*   - a crash ends every running attempt at once.                         *)
(***************************************************************************)
CONSTANT Attempts

VARIABLES
    where,      \* "shopping", "buying", "paying" or "off"
    basket,     \* is there anything in the basket?
    job         \* life of each attempt

cvars == <<where, basket, job>>

CInit ==
    /\ where = "shopping"
    /\ basket = FALSE
    /\ job = [a \in Attempts |-> "idle"]

Running == {a \in Attempts : job[a] = "running"}
Closed == {a \in Attempts : job[a] = "closed"}

Edit ==
    /\ where = "shopping"
    /\ basket' \in BOOLEAN
    /\ UNCHANGED <<where, job>>

\* Between shopping and buying and back, and home from paying.
Move ==
    /\ <<where, where'>> \in {<<"shopping", "buying">>, <<"buying", "shopping">>,
                              <<"paying", "shopping">>, <<"off", "shopping">>}
    /\ UNCHANGED <<basket, job>>

Begin(a) ==
    /\ where \in {"buying", "paying"}
    /\ job[a] = "idle"
    /\ job' = [job EXCEPT ![a] = "running"]
    /\ UNCHANGED <<where, basket>>

Close(a) ==
    /\ where # "off"
    /\ a \in Running
    /\ job' = [job EXCEPT ![a] = "closed"]
    /\ basket' = FALSE
    /\ UNCHANGED where

ShowPayment ==
    /\ where \in {"buying", "paying"}
    /\ ~basket
    /\ Closed # {}
    /\ where' = "paying"
    /\ UNCHANGED <<basket, job>>

\* A running attempt may have emptied the basket before it was lost, and one
\* that was about to start may be lost with the others.
Crash ==
    /\ where # "off"
    /\ where' = "off"
    /\ \E started \in SUBSET {a \in Attempts : job[a] = "idle"} :
         job' = [a \in Attempts |->
                   IF a \in Running \cup started THEN "lost" ELSE job[a]]
    /\ \/ UNCHANGED basket
       \/ Running # {} /\ basket' = FALSE

CNext ==
    \/ Edit
    \/ Move
    \/ \E a \in Attempts : Begin(a)
    \/ \E a \in Attempts : Close(a)
    \/ ShowPayment
    \/ Crash

CSpec == CInit /\ [][CNext]_cvars
=============================================================================
