------------------------ MODULE LoginThrottleProofs ------------------------
(***************************************************************************)
(* The throttle for any number of keys, any limit and any finite number of *)
(* logins in flight: types, the bound on the overshoot, and the refinement *)
(* of LoginBudget.                                                         *)
(***************************************************************************)
EXTENDS LoginThrottle, FiniteSetTheorems, TLAPS

USE LimitAssumption, RequestsAssumption

LEMMA ForgetTypes ==
    ASSUME TypeOK, NEW k \in Keys, Forget(k)
    PROVE  consumed' \in [Keys -> Nat] /\ running' \in [Keys -> BOOLEAN]
BY DEF TypeOK, Forget

LEMMA CountTypes ==
    ASSUME TypeOK, NEW k \in Keys, Count(k)
    PROVE  consumed' \in [Keys -> Nat] /\ running' \in [Keys -> BOOLEAN]
<1>1. consumed' \in [Keys -> Nat]
  BY DEF TypeOK, Count
<1>2. running' \in [Keys -> BOOLEAN]
  BY DEF TypeOK, Count
<1> QED
  BY <1>1, <1>2

(* Every step of the login handler, and every expiry, keeps the state in   *)
(* its types; in particular consumedPoints stays a natural number.         *)
THEOREM TypeCorrect == Spec => []TypeOK
<1>1. Init => TypeOK
  BY DEF Init, TypeOK, Pcs, Answers
<1>2. TypeOK /\ [Next]_vars => TypeOK'
  <2> SUFFICES ASSUME TypeOK, [Next]_vars PROVE TypeOK'
    OBVIOUS
  <2> USE DEF TypeOK, Pcs, Answers, AwaitNext, Reply, limiter
  <2>1. ASSUME NEW r \in Requests, Begin(r) PROVE TypeOK'
    BY <2>1 DEF Begin
  <2>2. ASSUME NEW r \in Requests, RefuseBlocked(r) PROVE TypeOK'
    BY <2>2 DEF RefuseBlocked
  <2>3. ASSUME NEW r \in Requests, PassCheck(r) PROVE TypeOK'
    BY <2>3 DEF PassCheck
  <2>4. ASSUME NEW r \in Requests, Verify(r) PROVE TypeOK'
    BY <2>4 DEF Verify
  <2>5. ASSUME NEW r \in Requests, Charge(r) PROVE TypeOK'
    BY <2>5, CountTypes DEF Charge
  <2>6. ASSUME NEW r \in Requests, ChargeFails(r) PROVE TypeOK'
    <3>1. consumed' \in [Keys -> Nat] /\ running' \in [Keys -> BOOLEAN]
      BY <2>6, CountTypes DEF ChargeFails
    <3> QED
      BY <2>6, <3>1 DEF ChargeFails
  <2>7. ASSUME NEW r \in Requests, IssueRefreshToken(r) PROVE TypeOK'
    BY <2>7 DEF IssueRefreshToken
  <2>8. ASSUME NEW r \in Requests, DeleteKey(r) PROVE TypeOK'
    BY <2>8, ForgetTypes DEF DeleteKey
  <2>9. ASSUME NEW r \in Requests, CallFails(r) PROVE TypeOK'
    <3>1. consumed' \in [Keys -> Nat] /\ running' \in [Keys -> BOOLEAN]
      BY <2>9, ForgetTypes DEF CallFails
    <3> QED
      BY <2>9, <3>1 DEF CallFails
  <2>10. ASSUME NEW r \in Requests, Leave(r) PROVE TypeOK'
    BY <2>10 DEF Leave
  <2>11. ASSUME NEW k \in Keys, Expire(k) PROVE TypeOK'
    BY <2>11, ForgetTypes DEF Expire
  <2>12. ASSUME NEW k \in Keys, Elapse(k) PROVE TypeOK'
    BY <2>12 DEF Elapse
  <2>13. CASE UNCHANGED vars
    BY <2>13 DEF vars
  <2> QED
    BY <2>1, <2>2, <2>3, <2>4, <2>5, <2>6, <2>7, <2>8, <2>9, <2>10, <2>11, <2>12, <2>13
    DEF Next, Continue
<1> QED
  BY <1>1, <1>2, PTL DEF Spec

-----------------------------------------------------------------------------
(* The requests that owe a point for a key are finitely many, at most all. *)
LEMMA UnsettledFinite ==
    ASSUME NEW k \in Keys
    PROVE  /\ IsFiniteSet(Unsettled(k))
           /\ Cardinality(Unsettled(k)) \in Nat
           /\ Cardinality(Requests) \in Nat
           /\ Cardinality(Unsettled(k)) <= Cardinality(Requests)
<1>1. Unsettled(k) \in SUBSET Requests
  BY DEF Unsettled
<1> QED
  BY <1>1, FS_Subset, FS_CardinalityType

(* A step that leaves the counter alone or lowers it, and lets no request  *)
(* through the check, cannot break the bound.                              *)
LEMMA NoNewDebt ==
    ASSUME TypeOK, TypeOK', OvershootBounded,
           NEW k \in Keys,
           consumed'[k] <= consumed[k],
           Unsettled(k)' \subseteq Unsettled(k)
    PROVE  consumed'[k] + Cardinality(Unsettled(k)') <= Limit + Cardinality(Requests)
<1>1. Cardinality(Unsettled(k)') <= Cardinality(Unsettled(k))
  BY UnsettledFinite, FS_Subset
<1>2. Cardinality(Unsettled(k)') \in Nat
  BY UnsettledFinite, FS_Subset, FS_CardinalityType
<1> QED
  BY <1>1, <1>2, UnsettledFinite DEF OvershootBounded, TypeOK

(* A step that counts a point for k while a request that owed it is        *)
(* answered trades one for the other.                                      *)
LEMMA DebtPaid ==
    ASSUME TypeOK, TypeOK', OvershootBounded,
           NEW k \in Keys, NEW r \in Unsettled(k),
           consumed'[k] <= consumed[k] + 1,
           Unsettled(k)' = Unsettled(k) \ {r}
    PROVE  consumed'[k] + Cardinality(Unsettled(k)') <= Limit + Cardinality(Requests)
<1>1. Cardinality(Unsettled(k) \ {r}) = Cardinality(Unsettled(k)) - 1
  BY UnsettledFinite, FS_RemoveElement
<1> QED
  BY <1>1, UnsettledFinite DEF OvershootBounded, TypeOK

(* A request passes the check only while the counter is within the limit,  *)
(* so the bound holds after it, whatever else is in flight.                *)
LEMMA CheckedBelowLimit ==
    ASSUME TypeOK, NEW k \in Keys, consumed[k] <= Limit,
           consumed' = consumed,
           NEW U \in SUBSET Requests
    PROVE  consumed'[k] + Cardinality(U) <= Limit + Cardinality(Requests)
<1>1. /\ Cardinality(U) \in Nat
      /\ Cardinality(Requests) \in Nat
      /\ Cardinality(U) <= Cardinality(Requests)
  BY FS_Subset, FS_CardinalityType
<1> QED
  BY <1>1 DEF TypeOK

(* Concurrent logins can push a key past throttle.login.limit, because     *)
(* AuthService.login checks the limiter before it verifies and charges it  *)
(* after; they push it by no more than the number of logins in flight.     *)
THEOREM Overshoot == Spec => []OvershootBounded
<1>1. Init => OvershootBounded
  <2> SUFFICES ASSUME Init, NEW k \in Keys
               PROVE  consumed[k] + Cardinality(Unsettled(k)) <= Limit + Cardinality(Requests)
    BY DEF OvershootBounded
  <2>1. Unsettled(k) = {}
    BY DEF Init, Unsettled
  <2> QED
    BY <2>1, FS_EmptySet, FS_CardinalityType DEF Init
<1>2. TypeOK /\ TypeOK' /\ OvershootBounded /\ [Next]_vars => OvershootBounded'
  <2> SUFFICES ASSUME TypeOK, TypeOK', OvershootBounded, [Next]_vars, NEW k \in Keys
               PROVE  consumed'[k] + Cardinality(Unsettled(k)') <= Limit + Cardinality(Requests)
    BY DEF OvershootBounded
  <2> USE DEF AwaitNext, Reply, limiter, Count, Forget
  <2> DEFINE Goal == consumed'[k] + Cardinality(Unsettled(k)') <= Limit + Cardinality(Requests)
             Quiet == consumed'[k] <= consumed[k] /\ Unsettled(k)' \subseteq Unsettled(k)
  <2>q. Quiet => Goal
    BY NoNewDebt
  <2>1. ASSUME NEW r \in Requests, Begin(r) PROVE Goal
    BY <2>1, <2>q DEF Begin, Unsettled, TypeOK
  <2>2. ASSUME NEW r \in Requests, RefuseBlocked(r) PROVE Goal
    BY <2>2, <2>q DEF RefuseBlocked, Unsettled, TypeOK
  <2>3. ASSUME NEW r \in Requests, PassCheck(r) PROVE Goal
    <3>1. CASE key[r] = k
      <4>1. consumed[k] <= Limit /\ consumed' = consumed
        BY <2>3, <3>1 DEF PassCheck, IsBlocked, TypeOK
      <4>2. Unsettled(k)' \in SUBSET Requests
        BY DEF Unsettled
      <4> QED
        BY <4>1, <4>2, CheckedBelowLimit
    <3>2. CASE key[r] # k
      BY <2>3, <3>2, <2>q DEF PassCheck, Unsettled, TypeOK
    <3> QED
      BY <3>1, <3>2
  <2>4. ASSUME NEW r \in Requests, Verify(r) PROVE Goal
    <3>1. UNCHANGED <<consumed, key>> /\ pc[r] = "verify"
      BY <2>4 DEF Verify
    <3>2. \A s \in Requests : s # r => pc'[s] = pc[s]
      BY <2>4 DEF Verify, TypeOK
    <3>3. Unsettled(k)' \subseteq Unsettled(k)
      BY <3>1, <3>2 DEF Unsettled
    <3> QED
      BY <3>1, <3>3, <2>q DEF TypeOK
  <2>5. ASSUME NEW r \in Requests, pc[r] = "consume",
               consumed' \in {consumed, [consumed EXCEPT ![key[r]] = @ + 1]},
               pc' = [pc EXCEPT ![r] = "done"], UNCHANGED key
        PROVE  Goal
    <3>1. CASE key[r] = k
      <4>1. r \in Unsettled(k) /\ Unsettled(k)' = Unsettled(k) \ {r}
        BY <2>5, <3>1 DEF Unsettled, TypeOK
      <4>2. consumed'[k] <= consumed[k] + 1
        BY <2>5 DEF TypeOK
      <4> QED
        BY <4>1, <4>2, DebtPaid
    <3>2. CASE key[r] # k
      <4>1. consumed'[k] = consumed[k]
        BY <2>5, <3>2 DEF TypeOK
      <4>2. Unsettled(k)' \subseteq Unsettled(k)
        BY <2>5, <3>2 DEF Unsettled, TypeOK
      <4> QED
        BY <4>1, <4>2, <2>q DEF TypeOK
    <3> QED
      BY <3>1, <3>2
  <2>6. ASSUME NEW r \in Requests, Charge(r) \/ ChargeFails(r) PROVE Goal
    BY <2>5, <2>6 DEF Charge, ChargeFails
  <2>7. ASSUME NEW r \in Requests, IssueRefreshToken(r) PROVE Goal
    BY <2>7, <2>q DEF IssueRefreshToken, Unsettled, TypeOK
  <2>8. ASSUME NEW r \in Requests, DeleteKey(r) PROVE Goal
    BY <2>8, <2>q DEF DeleteKey, Unsettled, TypeOK
  <2>9. ASSUME NEW r \in Requests, CallFails(r) PROVE Goal
    BY <2>9, <2>q DEF CallFails, Unsettled, TypeOK
  <2>10. ASSUME NEW r \in Requests, Leave(r) PROVE Goal
    BY <2>10, <2>q DEF Leave, Unsettled, TypeOK
  <2>11. ASSUME NEW x \in Keys, Expire(x) PROVE Goal
    BY <2>11, <2>q DEF Expire, Unsettled, TypeOK
  <2>12. ASSUME NEW x \in Keys, Elapse(x) PROVE Goal
    BY <2>12, <2>q DEF Elapse, Unsettled, TypeOK
  <2>13. CASE UNCHANGED vars
    BY <2>13, <2>q DEF vars, Unsettled, TypeOK
  <2> QED
    BY <2>1, <2>2, <2>3, <2>4, <2>6, <2>7, <2>8, <2>9, <2>10, <2>11, <2>12, <2>13
    DEF Next, Continue
<1> QED
  BY <1>1, <1>2, TypeCorrect, PTL DEF Spec

-----------------------------------------------------------------------------
(* The refinement mapping: the budget spent is the count, capped.          *)
Capped(n) == IF n < Limit THEN n ELSE Limit
Spent == [k \in Keys |-> Capped(consumed[k])]

(* A request has no answer before its last step.                           *)
Unanswered == \A r \in Requests : pc[r] # "done" => answer[r] = "none"

LEMMA UnansweredInvariant == Spec => []Unanswered
<1>1. Init => Unanswered
  BY DEF Init, Unanswered
<1>2. TypeOK /\ Unanswered /\ [Next]_vars => Unanswered'
  BY DEF TypeOK, Unanswered, Next, vars, Continue, Begin, RefuseBlocked, PassCheck,
         Verify, Charge, ChargeFails, IssueRefreshToken, DeleteKey, CallFails, Leave,
         Elapse, Expire, AwaitNext, Reply
<1> QED
  BY <1>1, <1>2, TypeCorrect, PTL DEF Spec

LEMMA CappedFacts ==
    /\ Capped(0) = 0
    /\ \A n \in Nat :
          /\ Capped(n) \in Nat /\ Capped(n) <= Limit
          /\ n + 1 <= Limit => Capped(n) < Limit /\ Capped(n + 1) = Capped(n) + 1
          /\ ~(n + 1 <= Limit) => Capped(n + 1) = Capped(n)
BY LimitAssumption DEF Capped

LEMMA SpentUnchanged ==
    ASSUME UNCHANGED consumed
    PROVE  UNCHANGED Spent
BY DEF Spent

(* AuthService.login implements LoginBudget: whatever the interleaving of  *)
(* logins, at most Limit of them are told, between two resets of a key,    *)
(* that their credentials are wrong (LoginBudget!Verdict needs a unit).    *)
THEOREM ThrottleImplementsBudget == Spec => BudgetSpec
<1>1. Init => Budget!Init
  BY DEF Init, Budget!Init
<1>2. TypeOK /\ Unanswered /\ [Next]_vars => [Budget!Next]_(Budget!vars)
  <2> SUFFICES ASSUME TypeOK, Unanswered, [Next]_vars
               PROVE  [Budget!Next]_(Budget!vars)
    OBVIOUS
  <2> USE DEF limiter, Count, Forget
  <2>k. \A k \in Keys : Spent[k] = Capped(consumed[k]) /\ consumed[k] \in Nat
    BY DEF Spent, TypeOK
  <2>same. \A k \in Keys : Spent = [Spent EXCEPT ![k] = Spent[k]]
    BY DEF Spent
  <2>v. \A r \in Requests, k \in Keys :
           /\ answer[r] = "none" /\ Spent[k] < Limit
           /\ Spent' = [Spent EXCEPT ![k] = Spent[k] + 1]
           /\ answer' = [answer EXCEPT ![r] = "unauthorized"]
           => Budget!Next
    BY DEF Budget!Next, Budget!Verdict, Spent, Capped
  <2>r. \A r \in Requests, k \in Keys, n \in Nat, why \in {"tooMany", "error"} :
           /\ answer[r] = "none" /\ n <= Limit
           /\ n = 0 \/ n = Spent[k] \/ n = Spent[k] + 1
           /\ Spent' = [Spent EXCEPT ![k] = n]
           /\ answer' = [answer EXCEPT ![r] = why]
           => Budget!Next
    <3> SUFFICES ASSUME NEW r \in Requests, NEW k \in Keys, NEW n \in Nat,
                        NEW why \in {"tooMany", "error"},
                        answer[r] = "none", n <= Limit,
                        n = 0 \/ n = Spent[k] \/ n = Spent[k] + 1,
                        Spent' = [Spent EXCEPT ![k] = n],
                        answer' = [answer EXCEPT ![r] = why]
                 PROVE  Budget!Refuse(r, k)
      BY DEF Budget!Next
    <3>1. n \in {0, Spent[k], Spent[k] + 1}
      OBVIOUS
    <3> QED
      BY <3>1 DEF Budget!Refuse, Budget!Refusals, Spent, Capped
  <2>g. \A r \in Requests, k \in Keys :
           /\ answer[r] = "none"
           /\ Spent' = [Spent EXCEPT ![k] = 0]
           /\ answer' = [answer EXCEPT ![r] = "cookies"]
           => Budget!Next
    BY DEF Budget!Next, Budget!Grant, Spent, Capped
  <2>f. \A k \in Keys :
           Spent' = [Spent EXCEPT ![k] = 0] /\ UNCHANGED answer => Budget!Next
    BY DEF Budget!Next, Budget!Forget, Spent, Capped
  <2>l. \A r \in Requests :
           UNCHANGED Spent /\ answer' = [answer EXCEPT ![r] = "none"] => Budget!Next
    BY DEF Budget!Next, Budget!Leave, Spent, Capped
  <2>i. ASSUME NEW r \in Requests, NEW k \in Keys, NEW why \in {"tooMany", "error"},
               answer[r] = "none", answer' = [answer EXCEPT ![r] = why],
               UNCHANGED consumed
        PROVE  Budget!Next
    <3>1. Spent' = [Spent EXCEPT ![k] = Spent[k]]
      BY <2>i, <2>same, SpentUnchanged
    <3>2. Spent[k] \in Nat /\ Spent[k] <= Limit
      BY <2>k, CappedFacts
    <3> QED
      BY <2>i, <2>r, <3>1, <3>2
  <2>0. CASE UNCHANGED <<consumed, answer>>
    BY <2>0 DEF Budget!vars
  <2>1. ASSUME NEW r \in Requests,
               Begin(r) \/ PassCheck(r) \/ Verify(r) \/ IssueRefreshToken(r)
        PROVE  UNCHANGED <<consumed, answer>>
    BY <2>1 DEF Begin, PassCheck, Verify, IssueRefreshToken
  <2>2. ASSUME NEW r \in Requests, RefuseBlocked(r) PROVE Budget!Next
    <3>1. answer[r] = "none" /\ key[r] \in Keys /\ answer' = [answer EXCEPT ![r] = "tooMany"]
      BY <2>2 DEF RefuseBlocked, Reply, Unanswered, TypeOK
    <3>2. UNCHANGED consumed
      BY <2>2 DEF RefuseBlocked
    <3> QED
      BY <2>i, <3>1, <3>2
  <2>3. ASSUME NEW r \in Requests, Charge(r) PROVE Budget!Next
    <3>1. consumed' = [consumed EXCEPT ![key[r]] = consumed[key[r]] + 1]
      BY <2>3 DEF Charge, TypeOK
    <3>2. Spent' = [Spent EXCEPT ![key[r]] = Capped(consumed[key[r]] + 1)]
      BY <3>1 DEF Spent, TypeOK
    <3>3. answer[r] = "none" /\ key[r] \in Keys
      BY <2>3 DEF Charge, Unanswered, TypeOK
    <3>4. CASE ConsumeAccepts(key[r])
      BY <2>3, <2>v, <2>k, <3>2, <3>3, <3>4, CappedFacts
      DEF Charge, Reply, ConsumeAccepts
    <3>5. CASE ~ConsumeAccepts(key[r])
      BY <2>3, <2>r, <2>k, <3>2, <3>3, <3>5, CappedFacts
      DEF Charge, Reply, ConsumeAccepts
    <3> QED
      BY <3>4, <3>5
  <2>4. ASSUME NEW r \in Requests, ChargeFails(r) PROVE Budget!Next
    <3>1. answer[r] = "none" /\ key[r] \in Keys /\ answer' = [answer EXCEPT ![r] = "tooMany"]
      BY <2>4 DEF ChargeFails, Reply, Unanswered, TypeOK
    <3>2. CASE UNCHANGED consumed
      BY <2>i, <3>1, <3>2
    <3>3. CASE consumed' = [consumed EXCEPT ![key[r]] = consumed[key[r]] + 1]
      <4>1. Spent' = [Spent EXCEPT ![key[r]] = Capped(consumed[key[r]] + 1)]
        BY <3>1, <3>3 DEF Spent, TypeOK
      <4>2. /\ Capped(consumed[key[r]] + 1) \in Nat
            /\ Capped(consumed[key[r]] + 1) <= Limit
            /\ \/ Capped(consumed[key[r]] + 1) = Spent[key[r]]
               \/ Capped(consumed[key[r]] + 1) = Spent[key[r]] + 1
        BY <2>k, <3>1, CappedFacts
      <4> QED
        BY <2>r, <3>1, <4>1, <4>2
    <3> QED
      BY <2>4, <3>2, <3>3 DEF ChargeFails
  <2>5. ASSUME NEW r \in Requests, DeleteKey(r) PROVE Budget!Next
    <3>1. Spent' = [Spent EXCEPT ![key[r]] = Capped(0)] /\ key[r] \in Keys
      BY <2>5 DEF DeleteKey, Spent, TypeOK
    <3> QED
      BY <2>5, <2>g, <3>1, CappedFacts DEF DeleteKey, Reply, Unanswered
  <2>6. ASSUME NEW r \in Requests, CallFails(r) PROVE Budget!Next
    <3>1. answer[r] = "none" /\ key[r] \in Keys /\ answer' = [answer EXCEPT ![r] = "error"]
      BY <2>6 DEF CallFails, Reply, Unanswered, TypeOK
    <3>2. CASE UNCHANGED consumed
      BY <2>i, <3>1, <3>2
    <3>3. CASE consumed' = [consumed EXCEPT ![key[r]] = 0]
      <4>1. Spent' = [Spent EXCEPT ![key[r]] = 0]
        BY <3>1, <3>3, CappedFacts DEF Spent, TypeOK
      <4>2. 0 \in Nat /\ 0 <= Limit
        BY LimitAssumption
      <4> HIDE LimitAssumption
      <4> QED
        BY <2>r, <3>1, <4>1, <4>2
    <3> QED
      BY <2>6, <3>2, <3>3 DEF CallFails
  <2>7. ASSUME NEW r \in Requests, Leave(r) PROVE Budget!Next
    BY <2>7, <2>l, SpentUnchanged DEF Leave
  <2>8. ASSUME NEW k \in Keys, Expire(k) PROVE Budget!Next
    <3>1. Spent' = [Spent EXCEPT ![k] = 0]
      BY <2>8, CappedFacts DEF Expire, Spent, TypeOK
    <3> QED
      BY <2>8, <2>f, <3>1 DEF Expire
  <2>9. ASSUME NEW k \in Keys, Elapse(k) PROVE UNCHANGED <<consumed, answer>>
    BY <2>9 DEF Elapse
  <2>10. CASE UNCHANGED vars
    BY <2>0, <2>10 DEF vars
  <2> QED
    BY <2>0, <2>1, <2>2, <2>3, <2>4, <2>5, <2>6, <2>7, <2>8, <2>9, <2>10 DEF Next, Continue
<1> QED
  BY <1>1, <1>2, TypeCorrect, UnansweredInvariant, PTL DEF Spec, BudgetSpec, Budget!Spec
=============================================================================
