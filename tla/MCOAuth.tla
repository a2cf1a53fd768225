------------------------------- MODULE MCOAuth -------------------------------
(* Small instances of OAuth for TLC. *)
EXTENDS OAuth, TLC

Symmetry == Permutations(Threads) \cup Permutations(Clients)
            \cup Permutations(Emails) \cup Permutations(Sites)
=============================================================================
