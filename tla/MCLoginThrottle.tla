-------------------------- MODULE MCLoginThrottle --------------------------
(* Two keys so that one can be blocked while the other is used, two logins *)
(* in flight and a limit of two: enough for both to pass the check on the  *)
(* last free point and for a later one to find the key blocked.  No        *)
(* symmetry: the run checks liveness.                                      *)
EXTENDS LoginThrottle
=============================================================================
