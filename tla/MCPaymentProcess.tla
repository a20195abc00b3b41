-------------------------- MODULE MCPaymentProcess --------------------------
(* PaymentProcess for TLC: requests and cancellations are interchangeable. *)
EXTENDS PaymentProcess, TLC
Interchangeable == Permutations(Polls) \cup Permutations(Cancels)
=============================================================================
