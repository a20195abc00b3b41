----------------------------- MODULE MCSession -----------------------------
(* Session for TLC: accounts, tokens and requests are interchangeable. *)
EXTENDS Session, TLC
Interchangeable ==
    Permutations(Accounts) \cup Permutations(Tokens)
        \cup Permutations(SignIns) \cup Permutations(Logouts)
=============================================================================
