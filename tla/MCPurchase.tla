----------------------------- MODULE MCPurchase -----------------------------
(* Small instances of Purchase for TLC. *)
EXTENDS Purchase, TLC

CONSTANTS a1, a2, d1, d2

OnePrice == [p \in Products |-> 1]

Interchangeable == Permutations({a1, a2}) \cup Permutations({d1, d2})
=============================================================================
