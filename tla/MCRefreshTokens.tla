-------------------------- MODULE MCRefreshTokens --------------------------
(* Bounds.  Two users and two sessions, so that a browser can hold the     *)
(* cookies of both and one user can name the other's token; one browser,   *)
(* as cookies of different browsers meet only in the table; two requests   *)
(* in flight for every overlap of two handlers.                            *)
EXTENDS RefreshTokens, TLC

Symmetry == Permutations(Users) \cup Permutations(Tokens)
                \cup Permutations(Browsers) \cup Permutations(Requests)
=============================================================================
