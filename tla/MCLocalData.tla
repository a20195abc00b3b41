---------------------------- MODULE MCLocalData -----------------------------
(* A small instance of LocalData for TLC. *)
EXTENDS LocalData, TLC
=============================================================================
