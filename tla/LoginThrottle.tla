--------------------------- MODULE LoginThrottle ---------------------------
(***************************************************************************)
(* AuthService.login and the rate limiter it shares with every other login *)
(* in flight.  The event loop runs the code between two awaits as one      *)
(* step, so an action below is one continuation: it starts with the answer *)
(* of the call the handler awaited and ends with the next call or with the *)
(* reply.  The limiter is read before the password is verified and charged *)
(* after it, and the handler keeps no lock between the two.                *)
(*                                                                         *)
(* A request slot is reused, so Requests bounds how many logins are in     *)
(* flight at one time, not how many there are.                             *)
(***************************************************************************)
EXTENDS Naturals, FiniteSets

CONSTANTS
    Keys,       \* usernameIPkey: `${username}_${ip}`
    Requests,   \* logins in flight at one time
    Limit       \* points of the limiter, throttle.login.limit

ASSUME LimitAssumption == Limit \in Nat \ {0}
ASSUME RequestsAssumption == IsFiniteSet(Requests)

VARIABLES
    consumed,   \* consumed[k]: consumedPoints of k in Redis, 0 when k has no entry
    running,    \* running[k]: the entry of k has time to live left
    pc,         \* pc[r]: the await r is suspended in
    key,        \* key[r]: the usernameIPkey of r
    remember,   \* remember[r]: userLoginDto.remember
    answer      \* answer[r]: the response of r, "none" before it is sent

limiter == <<consumed, running>>
vars == <<limiter, pc, key, remember, answer>>

Statuses == {"active", "inactive", "blocked"}
Pcs == {"idle", "get", "verify", "consume", "issue", "delete", "done"}
Answers == {"none", "unauthorized", "cookies", "tooMany", "error"}

TypeOK ==
    /\ consumed \in [Keys -> Nat]
    /\ running \in [Keys -> BOOLEAN]
    /\ pc \in [Requests -> Pcs]
    /\ key \in [Requests -> Keys]
    /\ remember \in [Requests -> BOOLEAN]
    /\ answer \in [Requests -> Answers]

Init ==
    /\ consumed = [k \in Keys |-> 0]
    /\ running = [k \in Keys |-> FALSE]
    /\ pc = [r \in Requests |-> "idle"]
    /\ key \in [Requests -> Keys]
    /\ remember = [r \in Requests |-> FALSE]
    /\ answer = [r \in Requests |-> "none"]

-----------------------------------------------------------------------------
(* Helpers *)

(* "Check if user is already blocked".  (Mutation: off by one.)            *)
IsBlockedLate(k) == consumed[k] > Limit + 1
IsBlocked(k) == consumed[k] > Limit

(* consume(key) of the limiter: it counts the point first, and resolves     *)
(* only while the count is within the points of the factory.               *)
ConsumeAccepts(k) == consumed[k] + 1 <= Limit

(* What consume does to the entry.  Its time to live is set when it is     *)
(* made (duration) and once more when the count passes the points          *)
(* (blockDuration); no other call of the limiter sets it.                  *)
Count(k) ==
    /\ consumed' = [consumed EXCEPT ![k] = @ + 1]
    /\ running' = [running EXCEPT ![k] = @ \/ consumed[k] \in {0, Limit}]

Forget(k) ==
    /\ consumed' = [consumed EXCEPT ![k] = 0]
    /\ running' = [running EXCEPT ![k] = FALSE]

AwaitNext(r, where) == pc' = [pc EXCEPT ![r] = where]

Reply(r, what) ==
    /\ pc' = [pc EXCEPT ![r] = "done"]
    /\ answer' = [answer EXCEPT ![r] = what]

(* The tuple of verifyUser, reduced to its error: "none" when a user is    *)
(* returned.  found: a row has this user name or e-mail; match: the hash   *)
(* of the password under the row's salt is the stored one.                 *)
VerifyUser(found, match, status) ==
    IF ~(found /\ match) THEN "InvalidCredentials"
    ELSE IF status # "active" THEN "UserInactive"
    ELSE "none"

-----------------------------------------------------------------------------
(* login *)

(* POST /auth/login arrives; the handler asks the limiter for the key.     *)
Begin(r) ==
    /\ pc[r] = "idle"
    /\ \E k \in Keys, rem \in BOOLEAN :
          /\ key' = [key EXCEPT ![r] = k]
          /\ remember' = [remember EXCEPT ![r] = rem]
    /\ AwaitNext(r, "get")
    /\ UNCHANGED <<limiter, answer>>

(* The refusal does not touch the entry.  (Mutation: it blocks the key     *)
(* anew.)                                                                  *)
RefuseBlockedAnew(r) ==
    /\ pc[r] = "get"
    /\ IsBlocked(key[r])
    /\ running' = [running EXCEPT ![key[r]] = TRUE]
    /\ Reply(r, "tooMany")
    /\ UNCHANGED <<consumed, key, remember>>
RefuseBlocked(r) ==
    /\ pc[r] = "get"
    /\ IsBlocked(key[r])
    /\ Reply(r, "tooMany")
    /\ UNCHANGED <<limiter, key, remember>>

PassCheck(r) ==
    /\ pc[r] = "get"
    /\ ~IsBlocked(key[r])
    /\ AwaitNext(r, "verify")
    /\ UNCHANGED <<limiter, key, remember, answer>>

(* verifyUser returns.  Users and passwords are not tracked here: any row, *)
(* password and status may be what it meets.                               *)
Verify(r) ==
    /\ pc[r] = "verify"
    /\ \E found, match \in BOOLEAN, status \in Statuses :
          AwaitNext(r, IF VerifyUser(found, match, status) # "none" THEN "consume"
                       ELSE IF remember[r] THEN "issue"
                       ELSE "delete")
    /\ UNCHANGED <<limiter, key, remember, answer>>

(* limitConsumerPromiseHandler resolves with the limiter's verdict.        *)
(* (Mutations: the verdict is ignored; reward is called for consume.)      *)
ChargeUnasked(r) ==
    /\ pc[r] = "consume"
    /\ Count(key[r])
    /\ Reply(r, "unauthorized")
    /\ UNCHANGED <<key, remember>>
ChargeRewards(r) ==
    /\ pc[r] = "consume"
    /\ consumed' = [consumed EXCEPT ![key[r]] = @ - 1]
    /\ Reply(r, IF ConsumeAccepts(key[r]) THEN "unauthorized" ELSE "tooMany")
    /\ UNCHANGED <<running, key, remember>>
Charge(r) ==
    /\ pc[r] = "consume"
    /\ Count(key[r])
    /\ Reply(r, IF ConsumeAccepts(key[r]) THEN "unauthorized" ELSE "tooMany")
    /\ UNCHANGED <<key, remember>>

(* The store fails in consume: the catch resolves [null, error], so the    *)
(* caller is told "too many requests" although no verdict was reached.     *)
(* The point may or may not have been counted, and the block, a command of *)
(* its own, may or may not have been set.  (Mutation: the promise has no   *)
(* catch and never settles.)                                               *)
ChargeFailsUncaught(r) ==
    /\ pc[r] = "consume"
    /\ AwaitNext(r, "pending")
    /\ UNCHANGED <<limiter, key, remember, answer>>
ChargeFails(r) ==
    /\ pc[r] = "consume"
    /\ \/ UNCHANGED limiter
       \/ Count(key[r])
       \/ /\ consumed[key[r]] = Limit
          /\ consumed' = [consumed EXCEPT ![key[r]] = @ + 1]
          /\ UNCHANGED running
    /\ Reply(r, "tooMany")
    /\ UNCHANGED <<key, remember>>

(* generateRefreshToken has stored the row and signed its token.           *)
IssueRefreshToken(r) ==
    /\ pc[r] = "issue"
    /\ AwaitNext(r, "delete")
    /\ UNCHANGED <<limiter, key, remember, answer>>

DeleteKey(r) ==
    /\ pc[r] = "delete"
    /\ Forget(key[r])
    /\ Reply(r, "cookies")
    /\ UNCHANGED <<key, remember>>

(* A call other than consume rejects and nothing catches it.  A delete     *)
(* that failed may still have reached Redis.                               *)
CallFails(r) ==
    /\ pc[r] \in {"get", "verify", "issue", "delete"}
    /\ \/ UNCHANGED limiter
       \/ pc[r] = "delete" /\ Forget(key[r])
    /\ Reply(r, "error")
    /\ UNCHANGED <<key, remember>>

(* The response is on the wire and the slot is free for another request.   *)
Leave(r) ==
    /\ pc[r] = "done"
    /\ AwaitNext(r, "idle")
    /\ remember' = [remember EXCEPT ![r] = FALSE]
    /\ answer' = [answer EXCEPT ![r] = "none"]
    /\ UNCHANGED <<limiter, key>>

-----------------------------------------------------------------------------
(* The time to live of an entry, 30 days from its first failure or         *)
(* blockDuration from the start of its block, is over; Redis drops it.     *)
Elapse(k) ==
    /\ running[k]
    /\ running' = [running EXCEPT ![k] = FALSE]
    /\ UNCHANGED <<consumed, pc, key, remember, answer>>

Expire(k) ==
    /\ consumed[k] > 0 /\ ~running[k]
    /\ Forget(k)
    /\ UNCHANGED <<pc, key, remember, answer>>

Continue(r) ==
    \/ RefuseBlocked(r) \/ PassCheck(r) \/ Verify(r)
    \/ Charge(r) \/ ChargeFails(r)
    \/ IssueRefreshToken(r) \/ DeleteKey(r)
    \/ CallFails(r) \/ Leave(r)

Next ==
    \/ \E r \in Requests : Begin(r) \/ Continue(r)
    \/ \E k \in Keys : Elapse(k) \/ Expire(k)

Spec == Init /\ [][Next]_vars

(* Callers owe nothing, so Begin is not fair.  Node runs a continuation    *)
(* once its call has settled, every call settles (with a value or an       *)
(* error), time passes, and Redis drops a key whose time to live is over;  *)
(* that a time to live is over at some moment does not say that nobody     *)
(* starts it again first.                                                  *)
Fairness ==
    /\ \A r \in Requests : WF_vars(Continue(r))
    /\ \A k \in Keys : WF_vars(Elapse(k)) /\ WF_vars(Expire(k))

FairSpec == Spec /\ Fairness

-----------------------------------------------------------------------------
(* Properties *)

(* Requests whose password will be, or has been, tested and that have not  *)
(* been charged for it yet.                                                *)
Unsettled(k) ==
    {r \in Requests : key[r] = k /\ pc[r] \in {"verify", "consume"}}

(* The check and the charge are two steps, so concurrent logins overshoot  *)
(* the limit; the overshoot is bounded by the logins in flight: points     *)
(* counted and points still owed never exceed Limit + |Requests|.          *)
OvershootBounded ==
    \A k \in Keys :
        consumed[k] + Cardinality(Unsettled(k)) <= Limit + Cardinality(Requests)

(* However logins interleave, a key yields at most Limit answers that tell *)
(* a wrong password from the throttle between two resets of its counter.   *)
Budget == INSTANCE LoginBudget
    WITH spent <- [k \in Keys |-> IF consumed[k] < Limit THEN consumed[k] ELSE Limit]

BudgetSpec == Budget!Spec

(* Every login gets an answer, whatever fails: no path of the handler (in  *)
(* particular the promise built by hand around consume) stays pending.     *)
EveryLoginAnswered ==
    \A r \in Requests : pc[r] # "idle" ~> pc[r] = "idle"

(* A block is temporary, whoever keeps trying: the attempts it refuses do  *)
(* not start its time to live again, nor do those that had passed the      *)
(* check before it and are charged during it.                              *)
BlockEnds == \A k \in Keys : IsBlocked(k) ~> ~IsBlocked(k)
=============================================================================
