----------------------------- MODULE MCTodoList -----------------------------
(* TodoList for TLC: items and names are interchangeable. *)
EXTENDS TodoList, TLC
Interchangeable == Permutations(Items) \cup Permutations(Names)
=============================================================================
