---------------------------- MODULE MCTwoFactor ----------------------------
(* Bounds.  One user and two requests: every overlap of two handlers on a  *)
(* row, and of a handler with the token a request carries.  Two secrets: a *)
(* code of the stored one and a code of another.  One tick ends the        *)
(* throttle.                                                               *)
EXTENDS TwoFactor, TLC

Symmetry == Permutations(Requests) \cup Permutations(Secrets)
=============================================================================
