---------------------------- MODULE LoginBudget ----------------------------
(***************************************************************************)
(* What the login throttle promises, without saying how: a key (a user     *)
(* name and an IP address) has a budget of Limit verdicts.  Telling a      *)
(* caller that its credentials are wrong spends one unit of the budget; a  *)
(* login that succeeds, or the passing of time, restores it.  Once the     *)
(* budget is spent nobody learns any more whether a password was wrong.    *)
(***************************************************************************)
EXTENDS Naturals

CONSTANTS
    Keys,       \* `${username}_${ip}`
    Requests,   \* the login requests the server works on at one time
    Limit       \* throttle.login.limit of config/default.yml

VARIABLES
    spent,      \* spent[k]: the verdicts given for k since its last reset
    answer      \* answer[r]: what the server told r, "none" before it did

vars == <<spent, answer>>

Refusals == {"tooMany", "error"}
Answers == Refusals \cup {"none", "unauthorized", "cookies"}

TypeOK ==
    /\ spent \in [Keys -> 0 .. Limit]
    /\ answer \in [Requests -> Answers]

Init ==
    /\ spent = [k \in Keys |-> 0]
    /\ answer = [r \in Requests |-> "none"]

(* A wrong password is reported: only within the budget, and it costs one. *)
Verdict(r, k) ==
    /\ answer[r] = "none"
    /\ spent[k] < Limit
    /\ spent' = [spent EXCEPT ![k] = @ + 1]
    /\ answer' = [answer EXCEPT ![r] = "unauthorized"]

(* A refusal tells nothing about the password; it may cost a unit as well, *)
(* or, when the store failed half-way through a reset, restore the budget. *)
Refuse(r, k) ==
    /\ answer[r] = "none"
    /\ \E n \in {0, spent[k], spent[k] + 1} :
          n <= Limit /\ spent' = [spent EXCEPT ![k] = n]
    /\ \E why \in Refusals : answer' = [answer EXCEPT ![r] = why]

Grant(r, k) ==
    /\ answer[r] = "none"
    /\ spent' = [spent EXCEPT ![k] = 0]
    /\ answer' = [answer EXCEPT ![r] = "cookies"]

Forget(k) ==
    /\ spent' = [spent EXCEPT ![k] = 0]
    /\ UNCHANGED answer

Leave(r) ==
    /\ answer' = [answer EXCEPT ![r] = "none"]
    /\ UNCHANGED spent

Next ==
    \/ \E r \in Requests, k \in Keys : Verdict(r, k) \/ Refuse(r, k) \/ Grant(r, k)
    \/ \E k \in Keys : Forget(k)
    \/ \E r \in Requests : Leave(r)

Spec == Init /\ [][Next]_vars
=============================================================================
