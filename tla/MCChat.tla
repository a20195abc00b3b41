------------------------------- MODULE MCChat -------------------------------
(* Chat for TLC: the shop's rows are interchangeable. *)
EXTENDS Chat, TLC
Interchangeable == Permutations(ShopKeys)
=============================================================================
