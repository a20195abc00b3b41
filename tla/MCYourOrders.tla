---------------------------- MODULE MCYourOrders ----------------------------
(* YourOrders for TLC: requests and chains are interchangeable. *)
EXTENDS YourOrders, TLC
Interchangeable == Permutations(Lists) \cup Permutations(Chains)
=============================================================================
