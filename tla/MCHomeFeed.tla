----------------------------- MODULE MCHomeFeed -----------------------------
(* HomeFeed for TLC. *)
EXTENDS HomeFeed
MCCategories == {"all", "run"}
=============================================================================
