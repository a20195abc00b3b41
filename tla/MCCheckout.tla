----------------------------- MODULE MCCheckout -----------------------------
(* Small instances of Checkout for TLC. *)
EXTENDS Checkout, TLC

CONSTANTS a1, a2

\* One product at a dollar, two attempts: the interleavings.
OnePrice == [p \in Products |-> 1]

\* Two products at 1.5 and 2.5 dollars: what truncation loses.
HalfPrices == [p \in Products |-> IF p = "shoe" THEN 3 ELSE 5]

AttemptSymmetry == Permutations({a1, a2})
=============================================================================
