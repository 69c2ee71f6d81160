----------------------------- MODULE MCAccounts -----------------------------
(* Bounds.  One row and two requests are enough for every overlap of two   *)
(* handlers on a row; two rows and two codes for a code that is in use;    *)
(* a clock of one tick separates a valid link from an expired one.         *)
EXTENDS Accounts, TLC

Symmetry == Permutations(Users) \cup Permutations(Requests)
                \cup Permutations(Tokens) \cup Permutations(Passwords)
=============================================================================
