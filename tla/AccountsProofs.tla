--------------------------- MODULE AccountsProofs ---------------------------
(***************************************************************************)
(* The users table for any number of rows, requests, codes and hours.      *)
(***************************************************************************)
EXTENDS Accounts, TLAPS

USE TimeAssumption, NullAssumption, NoRowAssumption

(* The inputs of an operation carry the fields that operation reads.       *)
LEMMA InputFields ==
    ASSUME NEW i \in Input
    PROVE  /\ i.op = "register" => i.pwd \in Passwords
           /\ i.op = "create" => i.pwd \in Passwords /\ i.status \in Statuses
           /\ i.op = "activate" => i.token \in Tokens \cup {NoToken}
           /\ i.op = "reset" => i.token \in Tokens /\ i.pwd \in Passwords
           /\ i.op = "update" => i.user \in Users /\ i.status \in Statuses
           /\ i.op \in {"enable2fa", "disable2fa"} => i.user \in Users
           /\ i.op \in {"register", "create", "activate", "reset", "update",
                        "enable2fa", "disable2fa", "forgot", "changePassword"}
BY DEF Input, RegisterInput, CreateInput, ActivateInput, ResetInput, UpdateInput,
       TwoFaInput, BrokenInput

LEMMA RequestFields ==
    ASSUME TypeOK, NEW r \in Requests, req[r].op # "idle"
    PROVE  req[r] \in Input
BY DEF TypeOK, NoRequest

LEMMA RowFields ==
    ASSUME NEW row \in Row
    PROVE  /\ row.status \in Statuses /\ row.token \in Tokens
           /\ row.deadline \in Dates /\ row.pwd \in Passwords
           /\ row # NoRow
BY DEF Row

(* The steps that end a request without touching the table.                *)
Quits(r) ==
    \/ RefuseToken(r) \/ NormalRoleMissing(r) \/ RefuseUpdate(r) \/ RefuseAtGuard(r)
    \/ ForgotPassword(r) \/ ChangePassword(r) \/ CallFails(r)

LEMMA QuitsFinish ==
    ASSUME NEW r \in Requests, Quits(r)
    PROVE  \E how \in {"refused", "thrown", "failed"} : FinishOnly(r, how)
BY DEF Quits, RefuseToken, NormalRoleMissing, RefuseUpdate, RefuseAtGuard,
       ForgotPassword, ChangePassword, CallFails

(* The steps that write a whole row and end, and the row they write.       *)
WritesRow(r, row) ==
    \/ UpdateUser(r) /\ row = [users[target[r]] EXCEPT !.status = req[r].status]
    \/ WriteActivated(r)
       /\ row = [copy[r].doc EXCEPT !.status = "active", !.token = newToken[r]]
    \/ WriteReset(r)
       /\ row = [copy[r].doc EXCEPT !.token = newToken[r], !.pwd = req[r].pwd]
    \/ WriteToggle(r) /\ row = copy[r].req

LEMMA WritesRowFinish ==
    ASSUME TypeOK, Holdings, NEW r \in Requests, NEW row, WritesRow(r, row)
    PROVE  /\ row \in Row
           /\ target[r] \in Users
           /\ Exists(target[r])
           /\ pc[r] = "write"
           /\ WriteAndFinish(r, row)
<1>1. pc[r] = "write" /\ WriteAndFinish(r, row)
  BY DEF WritesRow, UpdateUser, WriteActivated, WriteReset, WriteToggle
<1>2. target[r] \in Users /\ Exists(target[r])
  BY <1>1 DEF Holdings, HoldingsOf, AwaitOK, WritesRow, UpdateUser, WriteActivated, WriteReset, WriteToggle
<1>3. CASE UpdateUser(r) /\ row = [users[target[r]] EXCEPT !.status = req[r].status]
  <2>1. users[target[r]] \in Row
    BY <1>2 DEF TypeOK, RowOrNull, Exists
  <2>2. req[r].status \in Statuses
    BY <1>3, RequestFields, InputFields DEF UpdateUser
  <2> QED
    BY <1>1, <1>2, <1>3, <2>1, <2>2 DEF Row
<1>4. CASE WriteActivated(r)
           /\ row = [copy[r].doc EXCEPT !.status = "active", !.token = newToken[r]]
  <2>1. copy[r].doc \in Row /\ newToken[r] \in Tokens
    BY <1>1, <1>4 DEF Holdings, HoldingsOf, WriteActivated
  <2> QED
    BY <1>1, <1>2, <1>4, <2>1 DEF Row, Statuses
<1>5. CASE WriteReset(r)
           /\ row = [copy[r].doc EXCEPT !.token = newToken[r], !.pwd = req[r].pwd]
  <2>1. copy[r].doc \in Row /\ newToken[r] \in Tokens
    BY <1>1, <1>5 DEF Holdings, HoldingsOf, WriteReset
  <2>2. req[r].pwd \in Passwords
    BY <1>5, RequestFields, InputFields DEF WriteReset
  <2> QED
    BY <1>1, <1>2, <1>5, <2>1, <2>2 DEF Row
<1>6. CASE WriteToggle(r) /\ row = copy[r].req
  BY <1>1, <1>2, <1>6 DEF Holdings, HoldingsOf, WriteToggle
<1> QED
  BY <1>3, <1>4, <1>5, <1>6 DEF WritesRow

LEMMA StepCases ==
    ASSUME NEW r \in Requests, Step(r)
    PROVE  \/ Begin(r) \/ FindByToken(r) \/ LookupToken(r) \/ NormalRole(r)
           \/ InsertUser(r) \/ MailCreated(r) \/ LoadUser(r) \/ GuardTwoFa(r)
           \/ ReloadForSecret(r) \/ WriteSecret(r)
           \/ Quits(r)
           \/ \E row : WritesRow(r, row)
BY DEF Step, Quits, WritesRow

-----------------------------------------------------------------------------
(* Types, together with what each handler holds in each of its awaits.     *)
Base == TypeOK /\ Holdings

LEMMA FinishTypes ==
    ASSUME TypeOK, NEW r \in Requests, NEW how \in {"ok", "refused", "thrown", "failed"},
           Finish(r, how)
    PROVE  /\ pc' \in [Requests -> Pcs]
           /\ answer' \in [Requests -> {"none", "ok", "refused", "failed", "thrown"}]
           /\ req' \in [Requests -> Input \cup {NoRequest}]
           /\ target' \in [Requests -> Users \cup {NoUser}]
           /\ copy' \in [Requests -> [Copies -> RowOrNull]]
           /\ newToken' \in [Requests -> Tokens \cup {NoToken}]
           /\ clash' \in [Requests -> BOOLEAN]
BY DEF TypeOK, Finish, Pcs, NoCopies, RowOrNull

LEMMA TypeStep == Base /\ [Next]_vars => TypeOK'
<1> SUFFICES ASSUME TypeOK, Holdings, [Next]_vars PROVE TypeOK'
  BY DEF Base
<1>1. ASSUME NEW r \in Requests, Begin(r) PROVE TypeOK'
  BY <1>1 DEF Begin, FirstAwait, TypeOK, Pcs
<1>2. ASSUME NEW r \in Requests, FindByToken(r) PROVE TypeOK'
  BY <1>2 DEF FindByToken, Await, TypeOK, Pcs, Exists, RowOrNull, Copies
<1>3. ASSUME NEW r \in Requests, LookupToken(r) PROVE TypeOK'
  <2>1. CASE req[r].op = "create"
    <3>1. newToken[r] \in Tokens /\ req[r].pwd \in Passwords /\ req[r].status \in Statuses
      BY <2>1, RequestFields, InputFields DEF Holdings, HoldingsOf
    <3>2. [status |-> req[r].status, token |-> newToken[r],
           deadline |-> 0, pwd |-> req[r].pwd] \in Row
      BY <3>1 DEF Row, Dates
    <3>3. /\ copy' = [copy EXCEPT ![r].doc = [status |-> req[r].status, token |-> newToken[r],
                                              deadline |-> 0, pwd |-> req[r].pwd]]
          /\ pc' = [pc EXCEPT ![r] = "insert"]
          /\ clash' = [clash EXCEPT ![r] = TokenTaken(newToken[r])]
          /\ UNCHANGED <<now, users, mailed, req, target, newToken, answer, overtaken>>
      BY <1>3, <2>1 DEF LookupToken, Await
    <3>4. copy' \in [Requests -> [Copies -> RowOrNull]]
      BY <3>2, <3>3 DEF TypeOK, RowOrNull, Copies
    <3>5. clash' \in [Requests -> BOOLEAN]
      BY <3>3 DEF TypeOK, TokenTaken
    <3> QED
      BY <3>3, <3>4, <3>5 DEF TypeOK, Pcs
  <2>2. CASE req[r].op # "create"
    BY <1>3, <2>2 DEF LookupToken, Await, TypeOK, Pcs, TokenTaken
  <2> QED
    BY <2>1, <2>2
<1>4. ASSUME NEW r \in Requests, NormalRole(r) PROVE TypeOK'
  <2>1. req[r].op = "register"
    BY <1>4 DEF NormalRole, Holdings, HoldingsOf, AwaitOK
  <2>2. newToken[r] \in Tokens /\ req[r].pwd \in Passwords
    BY <2>1, RequestFields, InputFields DEF Holdings, HoldingsOf
  <2>3. [status |-> "inactive", token |-> newToken[r],
         deadline |-> now + 1, pwd |-> req[r].pwd] \in Row
    BY <2>2 DEF Row, Dates, Statuses, TypeOK
  <2> QED
    BY <1>4, <2>3 DEF NormalRole, Await, TypeOK, Pcs, RowOrNull, Copies
<1>5. ASSUME NEW r \in Requests, InsertUser(r) PROVE TypeOK'
  <2>1. copy[r].doc \in Row
    BY <1>5 DEF InsertUser, Holdings, HoldingsOf, AwaitOK
  <2>2. users' \in [Users -> RowOrNull]
    BY <1>5, <2>1 DEF InsertUser, TypeOK, RowOrNull
  <2>3. CASE Finish(r, "failed")
    BY <1>5, <2>2, <2>3, FinishTypes DEF InsertUser, TypeOK
  <2>4. ASSUME NEW u \in Users, target' = [target EXCEPT ![r] = u], Await(r, "mail"),
               UNCHANGED <<req, copy, newToken, clash>>
        PROVE  TypeOK'
    BY <1>5, <2>2, <2>4 DEF InsertUser, TypeOK, Await, Pcs
  <2> QED
    BY <1>5, <2>3, <2>4 DEF InsertUser
<1>6. ASSUME NEW r \in Requests, MailCreated(r) PROVE TypeOK'
  <2>1. \E how \in {"ok", "thrown"} : Finish(r, how)
    BY <1>6 DEF MailCreated
  <2>2. mailed' \in [Users -> {"none", "verify", "reset"}]
    BY <1>6 DEF MailCreated, Link, TypeOK
  <2>3. overtaken' \in [Requests -> SUBSET Copies] /\ UNCHANGED <<now, users>>
    BY <1>6 DEF MailCreated, TypeOK
  <2> QED
    BY <2>1, <2>2, <2>3, FinishTypes DEF TypeOK
<1>7. ASSUME NEW r \in Requests, LoadUser(r) PROVE TypeOK'
  <2>1. req[r].user \in Users
    BY <1>7, RequestFields, InputFields DEF LoadUser, Holdings, HoldingsOf, AwaitOK
  <2> QED
    BY <1>7, <2>1 DEF LoadUser, Await, TypeOK, Pcs
<1>8. ASSUME NEW r \in Requests, GuardTwoFa(r) PROVE TypeOK'
  <2>1. req[r].user \in Users
    BY <1>8, RequestFields, InputFields DEF GuardTwoFa
  <2> QED
    BY <1>8, <2>1 DEF GuardTwoFa, Await, TypeOK, Pcs, RowOrNull, Copies
<1>9. ASSUME NEW r \in Requests, ReloadForSecret(r) PROVE TypeOK'
  <2>1. target[r] \in Users
    BY <1>9 DEF ReloadForSecret, Holdings, HoldingsOf, AwaitOK
  <2> QED
    BY <1>9, <2>1 DEF ReloadForSecret, Await, TypeOK, Pcs, RowOrNull, Copies
<1>10. ASSUME NEW r \in Requests, WriteSecret(r) PROVE TypeOK'
  <2>1. copy[r].doc \in Row
    BY <1>10 DEF WriteSecret, Holdings, HoldingsOf
  <2>2. users' \in [Users -> RowOrNull] /\ UNCHANGED <<now, mailed>>
    BY <1>10, <2>1 DEF WriteSecret, WriteAndFinish, TypeOK, RowOrNull
  <2>3. overtaken' \in [Requests -> SUBSET Copies]
    <3>1. ASSUME WriteAndFinish(r, copy[r].doc) PROVE overtaken' \in [Requests -> SUBSET Copies]
      BY <3>1 DEF WriteAndFinish, Overtake, TypeOK
    <3>2. ASSUME overtaken' = [s \in Requests |->
                    IF s # r /\ target[s] = target[r]
                    THEN overtaken[s] \cup {c \in Copies : copy[s][c] # NoRow}
                    ELSE overtaken[s]]
          PROVE  overtaken' \in [Requests -> SUBSET Copies]
      BY <3>2 DEF TypeOK
    <3> QED
      BY <1>10, <3>1, <3>2 DEF WriteSecret
  <2>4. CASE \E how \in {"ok", "failed"} : Finish(r, how)
    BY <2>2, <2>3, <2>4, FinishTypes DEF TypeOK
  <2>5. CASE Await(r, "write") /\ UNCHANGED localVars
    <3>1. UNCHANGED <<req, target, copy, newToken, clash, answer>>
      BY <2>5 DEF localVars, Await
    <3>2. pc' \in [Requests -> Pcs]
      BY <2>5 DEF Await, TypeOK, Pcs
    <3> QED
      BY <2>2, <2>3, <3>1, <3>2 DEF TypeOK
  <2> QED
    BY <1>10, <2>4, <2>5 DEF WriteSecret, WriteAndFinish
<1>11. ASSUME NEW r \in Requests, Quits(r) PROVE TypeOK'
  <2>1. PICK how \in {"refused", "thrown", "failed"} : FinishOnly(r, how)
    BY <1>11, QuitsFinish
  <2> QED
    BY <2>1, FinishTypes DEF FinishOnly, TypeOK
<1>12. ASSUME NEW r \in Requests, NEW row, WritesRow(r, row) PROVE TypeOK'
  <2>1. row \in Row /\ WriteAndFinish(r, row)
    BY <1>12, WritesRowFinish
  <2>2. users' \in [Users -> RowOrNull] /\ UNCHANGED <<now, mailed>>
    BY <2>1 DEF WriteAndFinish, TypeOK, RowOrNull
  <2>3. overtaken' \in [Requests -> SUBSET Copies]
    BY <2>1 DEF WriteAndFinish, Overtake, TypeOK
  <2> QED
    BY <2>1, <2>2, <2>3, FinishTypes DEF WriteAndFinish, TypeOK
<1>13. CASE Tick
  BY <1>13 DEF Tick, localVars, TypeOK
<1>14. CASE UNCHANGED vars
  BY <1>14 DEF vars, localVars, TypeOK
<1> QED
  BY <1>1, <1>2, <1>3, <1>4, <1>5, <1>6, <1>7, <1>8, <1>9, <1>10, <1>11, <1>12, <1>13,
     <1>14, StepCases DEF Next

-----------------------------------------------------------------------------
(* The two ways HoldingsOf survives a step: the request's own objects are  *)
(* untouched, or the request has just ended.                               *)
Same(r) ==
    /\ req'[r] = req[r] /\ pc'[r] = pc[r] /\ target'[r] = target[r]
    /\ copy'[r] = copy[r] /\ newToken'[r] = newToken[r]

RowsStay == \A u \in Users : Exists(u) => Exists(u)'

LEMMA HoldingsSame ==
    ASSUME TypeOK, NEW r \in Requests, HoldingsOf(r), Same(r), RowsStay
    PROVE  HoldingsOf(r)'
BY DEF TypeOK, HoldingsOf, Same, RowsStay, Exists

LEMMA HoldingsFinished ==
    ASSUME TypeOK, NEW r \in Requests, NEW how, Finish(r, how)
    PROVE  HoldingsOf(r)'
BY DEF TypeOK, HoldingsOf, Finish, AwaitOK, NoRequest

(* Rows are created and rewritten, never removed.                          *)
LEMMA NoRowRemoved ==
    ASSUME Base, [Next]_vars
    PROVE  RowsStay
<1>1. ASSUME NEW r \in Requests, WriteSecret(r) PROVE RowsStay
  <2>1. copy[r].doc # NoRow
    BY <1>1, RowFields DEF Base, Holdings, HoldingsOf, WriteSecret
  <2> QED
    BY <1>1, <2>1 DEF WriteSecret, WriteAndFinish, RowsStay, Exists, Base, TypeOK
<1>2. ASSUME NEW r \in Requests, NEW row, WritesRow(r, row) PROVE RowsStay
  <2>1. row # NoRow /\ users' = [users EXCEPT ![target[r]] = row]
    BY <1>2, WritesRowFinish, RowFields DEF WriteAndFinish, Base
  <2> QED
    BY <2>1 DEF RowsStay, Exists, Base, TypeOK
<1>3. ASSUME NEW r \in Requests, InsertUser(r) PROVE RowsStay
  <2>1. PICK u \in Users : ~Exists(u) /\ users' = [users EXCEPT ![u] = copy[r].doc]
    BY <1>3 DEF InsertUser
  <2> QED
    BY <2>1 DEF RowsStay, Exists, Base, TypeOK
<1>4. ASSUME UNCHANGED users PROVE RowsStay
  BY <1>4 DEF RowsStay, Exists
<1>5. ASSUME NEW r \in Requests,
             \/ Begin(r) \/ FindByToken(r) \/ LookupToken(r) \/ NormalRole(r)
             \/ MailCreated(r) \/ LoadUser(r) \/ GuardTwoFa(r) \/ ReloadForSecret(r)
      PROVE  UNCHANGED users
  BY <1>5 DEF Begin, FindByToken, LookupToken, NormalRole, MailCreated, LoadUser,
              GuardTwoFa, ReloadForSecret
<1>6. ASSUME NEW r \in Requests, Quits(r) PROVE UNCHANGED users
  BY <1>6, QuitsFinish DEF FinishOnly
<1> QED
  BY <1>1, <1>2, <1>3, <1>4, <1>5, <1>6, StepCases DEF Next, Tick, vars, Base

(* A step of one request leaves the objects of the others alone.           *)
LEMMA OthersSame ==
    ASSUME Base, NEW r \in Requests, Step(r), NEW s \in Requests, s # r
    PROVE  Same(s)
<1> USE DEF Base, TypeOK, Same
<1>1. ASSUME NEW how, Finish(r, how) PROVE Same(s)
  BY <1>1 DEF Finish
<1>2. CASE Begin(r) \/ FindByToken(r) \/ LookupToken(r) \/ NormalRole(r) \/ LoadUser(r)
           \/ GuardTwoFa(r) \/ ReloadForSecret(r)
  BY <1>2 DEF Begin, FindByToken, LookupToken, NormalRole, LoadUser, GuardTwoFa,
              ReloadForSecret, Await
<1>3. CASE InsertUser(r) \/ MailCreated(r) \/ WriteSecret(r)
  BY <1>1, <1>3 DEF InsertUser, MailCreated, WriteSecret, WriteAndFinish, Await, localVars
<1>4. CASE Quits(r)
  BY <1>1, <1>4, QuitsFinish DEF FinishOnly
<1>5. ASSUME NEW row, WritesRow(r, row) PROVE Same(s)
  BY <1>1, <1>5, WritesRowFinish DEF WriteAndFinish
<1> QED
  BY <1>2, <1>3, <1>4, <1>5, StepCases

-----------------------------------------------------------------------------
(* What the request that moves holds after its own step.                   *)
LEMMA HoldingsStep == Base /\ [Next]_vars => Holdings'
<1> SUFFICES ASSUME Base, [Next]_vars PROVE Holdings'
  OBVIOUS
<1>0. TypeOK' /\ RowsStay
  BY TypeStep, NoRowRemoved
<1>1. ASSUME NEW r \in Requests, Begin(r) PROVE HoldingsOf(r)'
  <2>1. pc[r] = "idle" /\ HoldingsOf(r)
    BY <1>1 DEF Begin, Base, Holdings
  <2>2. PICK i \in Input :
           /\ req' = [req EXCEPT ![r] = i]
           /\ pc' = [pc EXCEPT ![r] = FirstAwait(i.op)]
           /\ IF i.op \in {"register", "create"}
              THEN \E t \in Tokens : newToken' = [newToken EXCEPT ![r] = t]
              ELSE UNCHANGED newToken
    BY <1>1 DEF Begin
  <2>3. UNCHANGED <<users, target, copy>>
    BY <1>1 DEF Begin
  <2>4. req'[r] = i /\ pc'[r] = FirstAwait(i.op)
        /\ (i.op \in {"register", "create"} => newToken'[r] \in Tokens)
    BY <2>2 DEF Base, TypeOK
  <2>5. target[r] = NoUser /\ copy[r] = NoCopies
    BY <2>1 DEF HoldingsOf
  <2> QED
    BY <2>3, <2>4, <2>5, InputFields DEF HoldingsOf, FirstAwait, AwaitOK
<1>2. ASSUME NEW r \in Requests, FindByToken(r) PROVE HoldingsOf(r)'
  <2>1. PICK u \in Users, t \in Tokens :
           /\ Exists(u)
           /\ Matches(req[r], users[u])
           /\ Accepts(req[r], users[u])
           /\ target' = [target EXCEPT ![r] = u]
           /\ copy' = [copy EXCEPT ![r].doc = users[u]]
           /\ newToken' = [newToken EXCEPT ![r] = t]
    BY <1>2 DEF FindByToken
  <2>2. /\ req[r].op \in {"activate", "reset"} /\ req'[r] = req[r]
        /\ pc'[r] = "lookup" /\ users' = users
        /\ target'[r] = u /\ copy'[r].doc = users[u] /\ newToken'[r] = t
    BY <1>2, <2>1 DEF FindByToken, Await, Base, TypeOK, Copies
  <2>3. users[u] \in Row
    BY <2>1 DEF Exists, Base, TypeOK, RowOrNull
  <2>4. now \in Nat /\ users[u].deadline \in Nat
    BY <2>3, RowFields DEF Base, TypeOK, Dates
  <2>5. /\ req[r].op = "activate" => users[u].status = "inactive"
        /\ req[r].op = "reset" => users[u].deadline > 0
    BY <2>1, <2>4 DEF Accepts
  <2> QED
    BY <2>1, <2>2, <2>3, <2>5 DEF HoldingsOf, AwaitOK, Exists
<1>3. ASSUME NEW r \in Requests, LookupToken(r) PROVE HoldingsOf(r)'
  <2>1. HoldingsOf(r)
    BY DEF Base, Holdings
  <2>2. /\ pc[r] = "lookup" /\ req'[r] = req[r] /\ target'[r] = target[r]
        /\ newToken'[r] = newToken[r] /\ users' = users
    BY <1>3 DEF LookupToken
  <2>3. CASE req[r].op = "create"
    <3>1. req[r].pwd \in Passwords /\ req[r].status \in Statuses /\ newToken[r] \in Tokens
      BY <2>1, <2>3, RequestFields, InputFields DEF Base, HoldingsOf
    <3>2. [status |-> req[r].status, token |-> newToken[r],
           deadline |-> 0, pwd |-> req[r].pwd] \in Row
      BY <3>1 DEF Row, Dates, Base, TypeOK
    <3>3. pc'[r] = "insert"
          /\ copy'[r].doc = [status |-> req[r].status, token |-> newToken[r],
                             deadline |-> 0, pwd |-> req[r].pwd]
      BY <1>3, <2>3 DEF LookupToken, Await, Base, TypeOK, Copies
    <3>4. copy'[r].doc \in Row /\ copy'[r].doc.token = newToken[r]
      BY <3>2, <3>3
    <3> QED
      BY <2>1, <2>2, <2>3, <3>1, <3>3, <3>4 DEF HoldingsOf, AwaitOK, Exists
  <2>4. CASE req[r].op = "register"
    <3>1. pc'[r] = "role" /\ copy'[r] = copy[r]
      BY <1>3, <2>4 DEF LookupToken, Await, Base, TypeOK
    <3> QED
      BY <2>1, <2>2, <2>4, <3>1 DEF HoldingsOf, AwaitOK, Exists
  <2>5. CASE req[r].op \in {"activate", "reset"}
    <3>1. pc'[r] = "write" /\ copy'[r] = copy[r]
      BY <1>3, <2>5 DEF LookupToken, Await, Base, TypeOK
    <3> QED
      BY <2>1, <2>2, <2>5, <3>1 DEF HoldingsOf, AwaitOK, Exists
  <2> QED
    BY <1>3, <2>3, <2>4, <2>5 DEF LookupToken
<1>4. ASSUME NEW r \in Requests, NormalRole(r) PROVE HoldingsOf(r)'
  <2>1. HoldingsOf(r) /\ req[r].op = "register" /\ newToken[r] \in Tokens
    BY <1>4 DEF Base, Holdings, HoldingsOf, AwaitOK, NormalRole
  <2>2. req[r].pwd \in Passwords
    BY <2>1, RequestFields, InputFields DEF Base
  <2>3. [status |-> "inactive", token |-> newToken[r],
         deadline |-> now + 1, pwd |-> req[r].pwd] \in Row
    BY <2>1, <2>2 DEF Row, Dates, Statuses, Base, TypeOK
  <2>4. /\ copy'[r].doc = [status |-> "inactive", token |-> newToken[r],
                           deadline |-> now + 1, pwd |-> req[r].pwd]
        /\ pc[r] = "role" /\ pc'[r] = "insert" /\ req'[r] = req[r]
        /\ target'[r] = target[r] /\ newToken'[r] = newToken[r] /\ users' = users
    BY <1>4 DEF NormalRole, Await, Base, TypeOK, Copies
  <2>5. copy'[r].doc \in Row /\ copy'[r].doc.token = newToken[r]
    BY <2>3, <2>4
  <2> QED
    BY <2>1, <2>4, <2>5 DEF HoldingsOf, AwaitOK, Exists
<1>5. ASSUME NEW r \in Requests, InsertUser(r) PROVE HoldingsOf(r)'
  <2>1. CASE Finish(r, "failed")
    BY <2>1, HoldingsFinished DEF Base
  <2>2. ASSUME NEW u \in Users, ~Exists(u), users' = [users EXCEPT ![u] = copy[r].doc],
               target' = [target EXCEPT ![r] = u], Await(r, "mail"),
               UNCHANGED <<req, copy, newToken, clash>>
        PROVE  HoldingsOf(r)'
    <3>1. /\ HoldingsOf(r) /\ pc[r] = "insert" /\ copy[r].doc \in Row
          /\ req[r].op \in {"register", "create"} /\ newToken[r] \in Tokens
      BY <1>5 DEF Base, Holdings, HoldingsOf, AwaitOK, InsertUser
    <3>2. users'[u] # NoRow /\ target'[r] = u /\ pc'[r] = "mail" /\ req'[r] = req[r]
          /\ newToken'[r] = newToken[r]
      BY <2>2, <3>1, RowFields DEF Base, TypeOK, Await
    <3> QED
      BY <3>1, <3>2 DEF HoldingsOf, AwaitOK, Exists
  <2> QED
    BY <1>5, <2>1, <2>2 DEF InsertUser
<1>6. ASSUME NEW r \in Requests, MailCreated(r) PROVE HoldingsOf(r)'
  BY <1>6, HoldingsFinished DEF MailCreated, Base
<1>7. ASSUME NEW r \in Requests, LoadUser(r) PROVE HoldingsOf(r)'
  <2>1. HoldingsOf(r) /\ pc[r] = "load" /\ req[r].op = "update"
    BY <1>7 DEF Base, Holdings, HoldingsOf, AwaitOK, LoadUser
  <2>2. req[r].user \in Users
    BY <2>1, RequestFields, InputFields DEF Base
  <2>3. /\ target'[r] = req[r].user /\ pc'[r] = "write" /\ req'[r] = req[r]
        /\ users' = users /\ Exists(req[r].user)
    BY <1>7 DEF LoadUser, Await, Base, TypeOK
  <2> QED
    BY <2>1, <2>2, <2>3 DEF HoldingsOf, AwaitOK, Exists
<1>8. ASSUME NEW r \in Requests, GuardTwoFa(r) PROVE HoldingsOf(r)'
  <2>1. /\ req[r].op \in {"enable2fa", "disable2fa"} /\ Exists(req[r].user)
        /\ req[r].user \in Users
    BY <1>8, RequestFields, InputFields DEF Base, GuardTwoFa
  <2>2. users[req[r].user] \in Row
    BY <2>1 DEF Exists, Base, TypeOK, RowOrNull
  <2>3. /\ target'[r] = req[r].user /\ copy'[r].req = users[req[r].user]
        /\ pc'[r] = (IF req[r].op = "enable2fa" THEN "reload" ELSE "write")
        /\ req'[r] = req[r] /\ users' = users
    BY <1>8, <2>1 DEF GuardTwoFa, Await, Base, TypeOK, Copies
  <2> QED
    BY <2>1, <2>2, <2>3 DEF HoldingsOf, AwaitOK, Exists
<1>9. ASSUME NEW r \in Requests, ReloadForSecret(r) PROVE HoldingsOf(r)'
  <2>1. /\ HoldingsOf(r) /\ pc[r] = "reload" /\ req[r].op = "enable2fa"
        /\ target[r] \in Users /\ copy[r].req \in Row
    BY <1>9 DEF Base, Holdings, HoldingsOf, AwaitOK, ReloadForSecret
  <2>2. users[target[r]] \in Row
    BY <2>1 DEF HoldingsOf, Exists, Base, TypeOK, RowOrNull
  <2>3. /\ copy'[r].doc = users[target[r]] /\ copy'[r].req = copy[r].req
        /\ pc'[r] = "rewrite" /\ req'[r] = req[r] /\ target'[r] = target[r]
        /\ users' = users
    BY <1>9, <2>1 DEF ReloadForSecret, Await, Base, TypeOK, Copies
  <2> QED
    BY <2>1, <2>2, <2>3 DEF HoldingsOf, AwaitOK, Exists
<1>10. ASSUME NEW r \in Requests, WriteSecret(r) PROVE HoldingsOf(r)'
  <2>1. CASE \E how \in {"ok", "failed"} : Finish(r, how)
    BY <2>1, HoldingsFinished DEF Base
  <2>2. CASE Await(r, "write") /\ UNCHANGED localVars
    <3>1. /\ HoldingsOf(r) /\ pc[r] = "rewrite" /\ req[r].op = "enable2fa"
          /\ target[r] \in Users /\ copy[r].req \in Row
      BY <1>10 DEF Base, Holdings, HoldingsOf, AwaitOK, WriteSecret
    <3>2. UNCHANGED <<req, target, copy, newToken>> /\ pc'[r] = "write"
      BY <2>2 DEF localVars, Await, Base, TypeOK
    <3> QED
      BY <1>0, <3>1, <3>2 DEF HoldingsOf, AwaitOK, RowsStay, Exists
  <2> QED
    BY <1>10, <2>1, <2>2 DEF WriteSecret, WriteAndFinish
<1>11. ASSUME NEW r \in Requests, Quits(r) PROVE HoldingsOf(r)'
  BY <1>11, QuitsFinish, HoldingsFinished DEF FinishOnly, Base
<1>12. ASSUME NEW r \in Requests, NEW row, WritesRow(r, row) PROVE HoldingsOf(r)'
  BY <1>12, WritesRowFinish, HoldingsFinished DEF WriteAndFinish, Base
<1>13. ASSUME NEW r \in Requests, Step(r) PROVE Holdings'
  <2>1. HoldingsOf(r)'
    BY <1>1, <1>2, <1>3, <1>4, <1>5, <1>6, <1>7, <1>8, <1>9, <1>10, <1>11, <1>12, <1>13,
       StepCases
  <2>2. ASSUME NEW s \in Requests, s # r PROVE HoldingsOf(s)'
    BY <1>0, <1>13, <2>2, OthersSame, HoldingsSame DEF Base, Holdings
  <2> QED
    BY <2>1, <2>2 DEF Holdings
<1>14. CASE Tick \/ UNCHANGED vars
  <2>1. ASSUME NEW s \in Requests PROVE Same(s)
    BY <1>14 DEF Tick, vars, localVars, Same
  <2> QED
    BY <1>0, <2>1, HoldingsSame DEF Base, Holdings
<1> QED
  BY <1>13, <1>14 DEF Next

LEMMA BaseInit == Init => Base
BY DEF Init, Base, TypeOK, Holdings, HoldingsOf, AwaitOK, NoRequest, NoCopies, RowOrNull,
       Pcs, Copies

LEMMA BaseInvariant == Spec => []Base
<1>1. Base /\ [Next]_vars => Base'
  BY TypeStep, HoldingsStep DEF Base
<1> QED
  BY BaseInit, <1>1, PTL DEF Spec

(* Type correctness: in particular no handler ever writes the null row, so *)
(* what the table holds for an account is always a whole row.              *)
THEOREM TypeCorrect == Spec => []TypeOK
<1>1. Base => TypeOK
  BY DEF Base
<1> QED
  BY BaseInvariant, <1>1, PTL

-----------------------------------------------------------------------------
(* The steps that change a row that exists, and the object they write.     *)
Rewrites(r, u) ==
    \/ /\ WriteSecret(r)
       /\ u = target[r] /\ users' = [users EXCEPT ![u] = copy[r].doc]
    \/ \E row \in Row :
          /\ WritesRow(r, row)
          /\ u = target[r] /\ users' = [users EXCEPT ![u] = row]

LEMMA RowChanges ==
    ASSUME Base, NEW r \in Requests, Step(r), NEW u \in Users, Exists(u), users'[u] # users[u]
    PROVE  Rewrites(r, u)
<1> USE DEF Base, TypeOK
<1>1. CASE WriteSecret(r)
  <2>1. target[r] \in Users
    BY <1>1 DEF Holdings, HoldingsOf, AwaitOK, WriteSecret
  <2>2. users' = [users EXCEPT ![target[r]] = copy[r].doc]
    BY <1>1 DEF WriteSecret, WriteAndFinish
  <2> QED
    BY <1>1, <2>1, <2>2 DEF Rewrites
<1>2. ASSUME NEW row, WritesRow(r, row) PROVE Rewrites(r, u)
  <2>1. row \in Row /\ target[r] \in Users /\ users' = [users EXCEPT ![target[r]] = row]
    BY <1>2, WritesRowFinish DEF WriteAndFinish
  <2> QED
    BY <1>2, <2>1 DEF Rewrites
<1>3. CASE InsertUser(r)
  <2>1. PICK v \in Users : ~Exists(v) /\ users' = [users EXCEPT ![v] = copy[r].doc]
    BY <1>3 DEF InsertUser
  <2> QED
    BY <2>1
<1>4. CASE Begin(r) \/ FindByToken(r) \/ LookupToken(r) \/ NormalRole(r) \/ MailCreated(r)
           \/ LoadUser(r) \/ GuardTwoFa(r) \/ ReloadForSecret(r)
  BY <1>4 DEF Begin, FindByToken, LookupToken, NormalRole, MailCreated, LoadUser,
              GuardTwoFa, ReloadForSecret
<1>5. CASE Quits(r)
  BY <1>5, QuitsFinish DEF FinishOnly
<1> QED
  BY <1>1, <1>2, <1>3, <1>4, <1>5, StepCases

(* What a rewrite of row u leaves in it, by operation.                     *)
LEMMA RowWritten ==
    ASSUME Base, NEW r \in Requests, NEW u, Rewrites(r, u)
    PROVE  /\ u \in Users /\ u = target[r] /\ Exists(u) /\ users[u] \in Row
           /\ users' = [users EXCEPT ![u] = users'[u]]
           /\ \/ UpdateUser(r) /\ users'[u] = [users[u] EXCEPT !.status = req[r].status]
              \/ /\ WriteActivated(r) /\ copy[r].doc \in Row /\ copy[r].doc.status = "inactive"
                 /\ users'[u] = [copy[r].doc EXCEPT !.status = "active", !.token = newToken[r]]
              \/ /\ WriteReset(r) /\ copy[r].doc \in Row
                 /\ users'[u] = [copy[r].doc EXCEPT !.token = newToken[r], !.pwd = req[r].pwd]
              \/ WriteToggle(r) /\ copy[r].req \in Row /\ users'[u] = copy[r].req
              \/ WriteSecret(r) /\ copy[r].doc \in Row /\ users'[u] = copy[r].doc
<1> USE DEF Base
<1>1. CASE WriteSecret(r) /\ u = target[r] /\ users' = [users EXCEPT ![u] = copy[r].doc]
  <2>1. u \in Users /\ Exists(u) /\ copy[r].doc \in Row
    BY <1>1 DEF Holdings, HoldingsOf, AwaitOK, WriteSecret
  <2>2. users[u] \in Row
    BY <2>1 DEF TypeOK, RowOrNull, Exists
  <2>3. users'[u] = copy[r].doc
    BY <1>1, <2>1 DEF TypeOK
  <2> QED
    BY <1>1, <2>1, <2>2, <2>3
<1>2. ASSUME NEW row \in Row, WritesRow(r, row), u = target[r], users' = [users EXCEPT ![u] = row]
      PROVE  /\ u \in Users /\ u = target[r] /\ Exists(u) /\ users[u] \in Row
             /\ users' = [users EXCEPT ![u] = users'[u]]
             /\ users'[u] = row
  <2>1. u \in Users /\ Exists(u)
    BY <1>2, WritesRowFinish
  <2> QED
    BY <1>2, <2>1 DEF TypeOK, RowOrNull, Exists
<1>3. /\ WriteActivated(r) => copy[r].doc \in Row /\ copy[r].doc.status = "inactive"
      /\ WriteReset(r) => copy[r].doc \in Row
      /\ WriteToggle(r) => copy[r].req \in Row
  BY DEF Holdings, HoldingsOf, WriteActivated, WriteReset, WriteToggle
<1> QED
  BY <1>1, <1>2, <1>3 DEF Rewrites, WritesRow

-----------------------------------------------------------------------------
(* Validity dates.                                                         *)
HasObjects(r) == pc[r] \in {"lookup", "reload", "rewrite", "write"} /\ target[r] # NoUser

DatesOf(r) ==
    HasObjects(r) =>
        \A c \in Copies : copy[r][c] # NoRow =>
            copy[r][c].deadline = users[target[r]].deadline

LEMMA DatesSplit == DatesFixed <=> \A r \in Requests : DatesOf(r)
BY DEF DatesFixed, DatesOf, HasObjects

KeepsDate(u) == users'[u].deadline = users[u].deadline

LEMMA DateOfWritten ==
    ASSUME Base, DatesFixed, NEW r \in Requests, NEW u, Rewrites(r, u)
    PROVE  KeepsDate(u)
<1>1. /\ target[r] = u /\ u \in Users /\ u # NoUser /\ users[u] \in Row
  BY RowWritten
<1>2. ASSUME NEW c \in Copies, copy[r][c] \in Row, pc[r] \in {"rewrite", "write"}
      PROVE  copy[r][c].deadline = users[u].deadline
  BY <1>1, <1>2, RowFields, DatesSplit DEF DatesOf, HasObjects
<1>3. CASE UpdateUser(r) /\ users'[u] = [users[u] EXCEPT !.status = req[r].status]
  BY <1>1, <1>3 DEF KeepsDate, Row
<1>4. CASE /\ WriteActivated(r) /\ copy[r].doc \in Row
           /\ users'[u] = [copy[r].doc EXCEPT !.status = "active", !.token = newToken[r]]
  <2>1. pc[r] = "write" /\ "doc" \in Copies
    BY <1>4 DEF WriteActivated, Copies
  <2>2. users'[u].deadline = copy[r].doc.deadline
    BY <1>4 DEF Row
  <2> QED
    BY <1>2, <1>4, <2>1, <2>2 DEF KeepsDate
<1>5. CASE /\ WriteReset(r) /\ copy[r].doc \in Row
           /\ users'[u] = [copy[r].doc EXCEPT !.token = newToken[r], !.pwd = req[r].pwd]
  <2>1. pc[r] = "write" /\ "doc" \in Copies
    BY <1>5 DEF WriteReset, Copies
  <2>2. users'[u].deadline = copy[r].doc.deadline
    BY <1>5 DEF Row
  <2> QED
    BY <1>2, <1>5, <2>1, <2>2 DEF KeepsDate
<1>6. CASE WriteToggle(r) /\ copy[r].req \in Row /\ users'[u] = copy[r].req
  <2>1. pc[r] = "write" /\ "req" \in Copies
    BY <1>6 DEF WriteToggle, Copies
  <2> QED
    BY <1>2, <1>6, <2>1 DEF KeepsDate
<1>7. CASE WriteSecret(r) /\ copy[r].doc \in Row /\ users'[u] = copy[r].doc
  <2>1. pc[r] = "rewrite" /\ "doc" \in Copies
    BY <1>7 DEF WriteSecret, Copies
  <2> QED
    BY <1>2, <1>7, <2>1 DEF KeepsDate
<1> QED
  BY <1>3, <1>4, <1>5, <1>6, <1>7, RowWritten

(* A request that still has objects after its step had them before, or has *)
(* just read a row.                                                        *)
Holds(r) == HasObjects(r) /\ copy'[r] = copy[r] /\ target'[r] = target[r]

LEMMA OwnStep ==
    ASSUME Base, NEW r \in Requests, Step(r), HasObjects(r)'
    PROVE  Holds(r) \/ LoadUser(r) \/ FindByToken(r) \/ GuardTwoFa(r) \/ ReloadForSecret(r)
<1> USE DEF Base, TypeOK
<1>1. ASSUME NEW how, Finish(r, how) PROVE FALSE
  BY <1>1 DEF Finish, HasObjects
<1>2. CASE Begin(r)
  BY <1>2 DEF Begin, Holdings, HoldingsOf, HasObjects
<1>3. CASE LookupToken(r)
  <2>1. HoldingsOf(r)
    BY DEF Holdings
  <2>2. target'[r] = target[r] /\ pc[r] = "lookup"
    BY <1>3 DEF LookupToken
  <2>3. CASE req[r].op \in {"register", "create"}
    BY <1>3, <2>1, <2>2, <2>3 DEF HoldingsOf, HasObjects
  <2>4. CASE req[r].op \in {"activate", "reset"}
    BY <1>3, <2>2, <2>4 DEF LookupToken, HasObjects, Holds
  <2> QED
    BY <1>3, <2>3, <2>4 DEF LookupToken
<1>4. CASE NormalRole(r)
  BY <1>4 DEF NormalRole, Await, HasObjects
<1>5. CASE InsertUser(r)
  <2>1. CASE Await(r, "mail")
    BY <2>1 DEF Await, HasObjects
  <2> QED
    BY <1>1, <1>5, <2>1 DEF InsertUser
<1>6. CASE MailCreated(r)
  BY <1>1, <1>6 DEF MailCreated
<1>7. CASE WriteSecret(r)
  <2>1. target[r] \in Users /\ pc[r] = "rewrite"
    BY <1>7 DEF WriteSecret, Holdings, HoldingsOf, AwaitOK
  <2>2. CASE UNCHANGED localVars
    BY <2>1, <2>2 DEF localVars, HasObjects, Holds
  <2> QED
    BY <1>1, <1>7, <2>2 DEF WriteSecret, WriteAndFinish
<1>8. CASE Quits(r)
  BY <1>1, <1>8, QuitsFinish DEF FinishOnly
<1>9. ASSUME NEW row, WritesRow(r, row) PROVE FALSE
  BY <1>1, <1>9, WritesRowFinish DEF WriteAndFinish
<1> QED
  BY <1>2, <1>3, <1>4, <1>5, <1>6, <1>7, <1>8, <1>9, StepCases

LEMMA DatesStep == Base /\ DatesFixed /\ [Next]_vars => DatesFixed'
<1> SUFFICES ASSUME Base, DatesFixed, [Next]_vars PROVE DatesFixed'
  OBVIOUS
<1> USE DEF Base
<1>1. ASSUME NEW r \in Requests, Holds(r), \A u \in Users : Exists(u) => KeepsDate(u)
      PROVE  DatesOf(r)'
  <2>1. target[r] \in Users /\ Exists(target[r])
    BY <1>1 DEF Holds, HasObjects, Holdings, HoldingsOf, TypeOK
  <2>2. KeepsDate(target[r])
    BY <1>1, <2>1
  <2>3. ASSUME NEW c \in Copies, copy'[r][c] # NoRow
        PROVE  copy'[r][c].deadline = users'[target'[r]].deadline
    <3>1. copy[r][c] # NoRow /\ copy'[r][c] = copy[r][c] /\ target'[r] = target[r]
      BY <1>1, <2>3 DEF Holds
    <3>2. copy[r][c].deadline = users[target[r]].deadline
      BY <1>1, <3>1, DatesSplit DEF DatesOf, Holds
    <3> QED
      BY <2>2, <3>1, <3>2 DEF KeepsDate
  <2> QED
    BY <2>3 DEF DatesOf
<1>2. ASSUME NEW r \in Requests, Step(r) PROVE DatesFixed'
  <2>1. \A u \in Users : Exists(u) => KeepsDate(u)
    BY <1>2, RowChanges, DateOfWritten DEF KeepsDate
  <2>2. ASSUME NEW s \in Requests, s # r PROVE DatesOf(s)'
    <3>1. Same(s)
      BY <1>2, <2>2, OthersSame
    <3>2. CASE HasObjects(s)
      BY <1>1, <2>1, <3>1, <3>2 DEF Holds, Same
    <3>3. CASE ~HasObjects(s)
      BY <3>1, <3>3 DEF Same, HasObjects, DatesOf
    <3> QED
      BY <3>2, <3>3
  <2>3. DatesOf(r)'
    <3>1. CASE Holds(r)
      BY <1>1, <2>1, <3>1
    <3>2. CASE LoadUser(r)
      <4>1. copy'[r] = NoCopies
        BY <3>2 DEF LoadUser, Holdings, HoldingsOf
      <4> QED
        BY <4>1 DEF DatesOf, NoCopies
    <3>3. CASE FindByToken(r)
      <4>1. copy[r] = NoCopies
        BY <3>3 DEF FindByToken, Holdings, HoldingsOf
      <4>2. PICK u \in Users : /\ target' = [target EXCEPT ![r] = u]
                              /\ copy' = [copy EXCEPT ![r].doc = users[u]]
                              /\ UNCHANGED users
        BY <3>3 DEF FindByToken
      <4>3. target'[r] = u /\ copy'[r].doc = users[u] /\ copy'[r].req = NoRow
        BY <4>1, <4>2 DEF TypeOK, NoCopies, Copies
      <4> QED
        BY <4>2, <4>3 DEF DatesOf, Copies
    <3>4. CASE GuardTwoFa(r)
      <4>1. copy[r] = NoCopies
        BY <3>4 DEF GuardTwoFa, Holdings, HoldingsOf
      <4>2. UNCHANGED users /\ target'[r] = req[r].user
            /\ copy'[r].req = users[req[r].user] /\ copy'[r].doc = NoRow
        BY <3>4, <4>1 DEF GuardTwoFa, TypeOK, NoCopies, Copies
      <4> QED
        BY <4>2 DEF DatesOf, Copies
    <3>5. CASE ReloadForSecret(r)
      <4>1. HasObjects(r)
        BY <3>5 DEF ReloadForSecret, Holdings, HoldingsOf, AwaitOK, HasObjects, TypeOK
      <4>2. UNCHANGED users /\ target'[r] = target[r]
            /\ copy'[r].doc = users[target[r]] /\ copy'[r].req = copy[r].req
        BY <3>5 DEF ReloadForSecret, TypeOK, Copies
      <4>3. DatesOf(r)
        BY DatesSplit
      <4> QED
        BY <4>1, <4>2, <4>3 DEF DatesOf, Copies
    <3>6. CASE ~HasObjects(r)'
      BY <3>6 DEF DatesOf
    <3> QED
      BY <1>2, <3>1, <3>2, <3>3, <3>4, <3>5, <3>6, OwnStep
  <2> QED
    <3>1. \A s \in Requests : DatesOf(s)'
      BY <2>2, <2>3
    <3> QED
      BY <3>1 DEF DatesFixed, DatesOf, HasObjects
<1>3. CASE Tick \/ UNCHANGED vars
  BY <1>3 DEF Tick, vars, localVars, DatesFixed
<1> QED
  BY <1>2, <1>3 DEF Next

LEMMA DatesInvariant == Spec => []DatesFixed
<1>1. Init => DatesFixed
  BY DEF Init, DatesFixed
<1> QED
  BY <1>1, BaseInvariant, DatesStep, PTL DEF Spec

-----------------------------------------------------------------------------
(* Which objects are as new as their row.                                  *)
FreshOf(r) ==
    /\ HasObjects(r) => \A c \in Copies : Fresh(r, c)
    /\ target[r] = NoUser => overtaken[r] = {}
    /\ \A c \in overtaken[r] : copy[r][c] # NoRow
    /\ "doc" \in overtaken[r] /\ copy[r].req # NoRow => "req" \in overtaken[r]

LEMMA FreshSplit == CopiesFresh <=> \A r \in Requests : FreshOf(r)
BY DEF CopiesFresh, FreshOf, HasObjects

(* The row a request works on is written only while all its objects are    *)
(* marked overtaken.                                                       *)
LEMMA OthersMarked ==
    ASSUME Base, NEW r \in Requests, Step(r), NEW s \in Requests, s # r
    PROVE  \/ /\ overtaken'[s] = overtaken[s]
              /\ target[s] # NoUser => users'[target[s]] = users[target[s]]
           \/ /\ overtaken'[s] = overtaken[s] \cup {c \in Copies : copy[s][c] # NoRow}
              /\ target[s] # NoUser
<1> USE DEF Base, TypeOK
<1>0. target[s] # NoUser => target[s] \in Users /\ Exists(target[s])
  BY DEF Holdings, HoldingsOf
<1>1. CASE Begin(r) \/ FindByToken(r) \/ LookupToken(r) \/ NormalRole(r) \/ LoadUser(r)
           \/ GuardTwoFa(r) \/ ReloadForSecret(r)
  BY <1>1 DEF Begin, FindByToken, LookupToken, NormalRole, LoadUser, GuardTwoFa, ReloadForSecret
<1>2. CASE MailCreated(r)
  BY <1>2 DEF MailCreated
<1>3. CASE Quits(r)
  BY <1>3, QuitsFinish DEF FinishOnly
<1>4. CASE InsertUser(r)
  <2>1. PICK u \in Users : ~Exists(u) /\ users' = [users EXCEPT ![u] = copy[r].doc]
                          /\ overtaken' = overtaken
    BY <1>4 DEF InsertUser
  <2> QED
    BY <1>0, <2>1
<1>5. ASSUME NEW row, WriteAndFinish(r, row), target[r] \in Users
      PROVE  \/ /\ overtaken'[s] = overtaken[s]
                /\ target[s] # NoUser => users'[target[s]] = users[target[s]]
             \/ /\ overtaken'[s] = overtaken[s] \cup {c \in Copies : copy[s][c] # NoRow}
                /\ target[s] # NoUser
  <2>1. users' = [users EXCEPT ![target[r]] = row] /\ Overtake(target[r], r)
    BY <1>5 DEF WriteAndFinish
  <2>2. CASE target[s] = target[r]
    BY <1>5, <2>1, <2>2 DEF Overtake
  <2>3. CASE target[s] # target[r]
    BY <1>0, <2>1, <2>3 DEF Overtake
  <2> QED
    BY <2>2, <2>3
<1>6. ASSUME NEW row, WritesRow(r, row)
      PROVE  WriteAndFinish(r, row) /\ target[r] \in Users
  BY <1>6, WritesRowFinish
<1>7. CASE WriteSecret(r)
  <2>1. target[r] \in Users
    BY <1>7 DEF WriteSecret, Holdings, HoldingsOf, AwaitOK
  <2>2. ASSUME users' = [users EXCEPT ![target[r]] = copy[r].doc],
               overtaken' = [q \in Requests |->
                   IF q # r /\ target[q] = target[r]
                   THEN overtaken[q] \cup {c \in Copies : copy[q][c] # NoRow}
                   ELSE overtaken[q]]
        PROVE  \/ /\ overtaken'[s] = overtaken[s]
                  /\ target[s] # NoUser => users'[target[s]] = users[target[s]]
               \/ /\ overtaken'[s] = overtaken[s] \cup {c \in Copies : copy[s][c] # NoRow}
                  /\ target[s] # NoUser
    <3>1. CASE target[s] = target[r]
      BY <2>1, <2>2, <3>1
    <3>2. CASE target[s] # target[r]
      BY <1>0, <2>2, <3>2
    <3> QED
      BY <3>1, <3>2
  <2> QED
    BY <1>5, <1>7, <2>1, <2>2 DEF WriteSecret
<1> QED
  BY <1>1, <1>2, <1>3, <1>4, <1>5, <1>6, <1>7, StepCases

LEMMA FreshStep == Base /\ CopiesFresh /\ [Next]_vars => CopiesFresh'
<1> SUFFICES ASSUME Base, CopiesFresh, [Next]_vars PROVE CopiesFresh'
  OBVIOUS
<1> USE DEF Base, TypeOK
<1>0. \A r \in Requests : FreshOf(r) /\ HoldingsOf(r)
  BY FreshSplit DEF Holdings
<1>1. ASSUME NEW r \in Requests, target'[r] = NoUser, overtaken'[r] = {}
      PROVE  FreshOf(r)'
  BY <1>1 DEF FreshOf, HasObjects
<1>2. ASSUME NEW r \in Requests, NEW how, Finish(r, how),
             overtaken' = [overtaken EXCEPT ![r] = {}] \/ overtaken'[r] = {}
      PROVE  FreshOf(r)'
  BY <1>1, <1>2 DEF Finish
<1>3. ASSUME NEW r \in Requests, target[r] = NoUser, UNCHANGED overtaken,
             target' = target \/ (\E how : Finish(r, how))
      PROVE  FreshOf(r)'
  BY <1>0, <1>1, <1>3 DEF FreshOf, Finish
<1>4. ASSUME NEW r \in Requests, Begin(r) PROVE FreshOf(r)'
  BY <1>0, <1>3, <1>4 DEF Begin, HoldingsOf
<1>5. ASSUME NEW r \in Requests, LookupToken(r) PROVE FreshOf(r)'
  <2>1. target' = target /\ overtaken' = overtaken /\ users' = users /\ pc[r] = "lookup"
    BY <1>5 DEF LookupToken
  <2>2. CASE req[r].op \in {"register", "create"}
    BY <1>0, <1>3, <2>1, <2>2 DEF HoldingsOf
  <2>3. CASE req[r].op \in {"activate", "reset"}
    <3>1. copy' = copy
      BY <1>5, <2>3 DEF LookupToken
    <3> QED
      BY <1>0, <2>1, <3>1 DEF FreshOf, HasObjects, Fresh
  <2> QED
    BY <1>5, <2>2, <2>3 DEF LookupToken
<1>6. ASSUME NEW r \in Requests, NormalRole(r) PROVE FreshOf(r)'
  <2>1. req[r].op = "register" /\ pc[r] = "role"
    BY <1>0, <1>6 DEF HoldingsOf, AwaitOK, NormalRole
  <2> QED
    BY <1>0, <1>3, <1>6, <2>1 DEF NormalRole, HoldingsOf
<1>7. ASSUME NEW r \in Requests, InsertUser(r) PROVE FreshOf(r)'
  <2>1. target[r] = NoUser /\ overtaken' = overtaken /\ overtaken[r] = {}
    BY <1>0, <1>7 DEF InsertUser, HoldingsOf, AwaitOK, FreshOf
  <2>2. CASE Await(r, "mail")
    BY <2>1, <2>2 DEF Await, FreshOf, HasObjects
  <2> QED
    BY <1>3, <1>7, <2>1, <2>2 DEF InsertUser
<1>8. ASSUME NEW r \in Requests, MailCreated(r) PROVE FreshOf(r)'
  BY <1>2, <1>8 DEF MailCreated
<1>9. ASSUME NEW r \in Requests, LoadUser(r) PROVE FreshOf(r)'
  <2>1. overtaken'[r] = {} /\ copy'[r] = NoCopies
    BY <1>0, <1>9 DEF LoadUser, HoldingsOf, FreshOf
  <2> QED
    BY <2>1 DEF FreshOf, Fresh, NoCopies
<1>10. ASSUME NEW r \in Requests, FindByToken(r) PROVE FreshOf(r)'
  <2>1. copy[r] = NoCopies /\ overtaken'[r] = {}
    BY <1>0, <1>10 DEF FindByToken, HoldingsOf, FreshOf
  <2>2. PICK u \in Users : /\ target' = [target EXCEPT ![r] = u]
                          /\ copy' = [copy EXCEPT ![r].doc = users[u]]
                          /\ UNCHANGED users
    BY <1>10 DEF FindByToken
  <2>3. target'[r] = u /\ copy'[r].doc = users[u] /\ copy'[r].req = NoRow
    BY <2>1, <2>2 DEF NoCopies, Copies
  <2> QED
    BY <2>1, <2>2, <2>3 DEF FreshOf, Fresh, Copies
<1>11. ASSUME NEW r \in Requests, GuardTwoFa(r) PROVE FreshOf(r)'
  <2>1. copy[r] = NoCopies /\ overtaken'[r] = {}
    BY <1>0, <1>11 DEF GuardTwoFa, HoldingsOf, FreshOf
  <2>2. UNCHANGED users /\ target'[r] = req[r].user
        /\ copy'[r].req = users[req[r].user] /\ copy'[r].doc = NoRow
    BY <1>11, <2>1 DEF GuardTwoFa, NoCopies, Copies
  <2> QED
    BY <2>1, <2>2 DEF FreshOf, Fresh, Copies
<1>12. ASSUME NEW r \in Requests, ReloadForSecret(r) PROVE FreshOf(r)'
  <2>1. /\ HasObjects(r) /\ target[r] \in Users /\ users[target[r]] # NoRow
        /\ copy[r].req # NoRow
    BY <1>0, <1>12, RowFields DEF ReloadForSecret, HoldingsOf, AwaitOK, HasObjects, Exists
  <2>2. /\ UNCHANGED users /\ target'[r] = target[r] /\ overtaken'[r] = overtaken[r]
        /\ copy'[r].doc = users[target[r]] /\ copy'[r].req = copy[r].req
    BY <1>12 DEF ReloadForSecret, Copies
  <2> QED
    BY <1>0, <2>1, <2>2 DEF FreshOf, Fresh, Copies
<1>13. ASSUME NEW r \in Requests, WriteSecret(r) PROVE FreshOf(r)'
  <2>1. CASE WriteAndFinish(r, copy[r].doc)
    BY <1>2, <2>1 DEF WriteAndFinish, Overtake
  <2>2. ASSUME Await(r, "write"), UNCHANGED localVars,
               users' = [users EXCEPT ![target[r]] = copy[r].doc],
               overtaken' = [q \in Requests |->
                   IF q # r /\ target[q] = target[r]
                   THEN overtaken[q] \cup {c \in Copies : copy[q][c] # NoRow}
                   ELSE overtaken[q]]
        PROVE  FreshOf(r)'
    <3>1. /\ HasObjects(r) /\ target[r] \in Users /\ copy[r].doc # NoRow
          /\ copy[r].req # NoRow
      BY <1>0, <1>13, RowFields DEF WriteSecret, HoldingsOf, AwaitOK, HasObjects
    <3>2. /\ UNCHANGED <<target, copy>> /\ overtaken'[r] = overtaken[r]
          /\ users'[target[r]] = copy[r].doc
      BY <2>2, <3>1 DEF localVars
    <3>3. "req" \notin overtaken[r] =>
            copy[r].doc = users[target[r]] /\ copy[r].req = users[target[r]]
      BY <1>0, <3>1 DEF FreshOf, Fresh, Copies
    <3> QED
      BY <1>0, <3>1, <3>2, <3>3 DEF FreshOf, Fresh, Copies
  <2> QED
    BY <1>13, <2>1, <2>2 DEF WriteSecret
<1>14. ASSUME NEW r \in Requests, Quits(r) PROVE FreshOf(r)'
  BY <1>2, <1>14, QuitsFinish DEF FinishOnly
<1>15. ASSUME NEW r \in Requests, NEW row, WritesRow(r, row) PROVE FreshOf(r)'
  <2>1. WriteAndFinish(r, row)
    BY <1>15, WritesRowFinish
  <2> QED
    BY <1>2, <2>1 DEF WriteAndFinish, Overtake
<1>16. ASSUME NEW r \in Requests, Step(r) PROVE CopiesFresh'
  <2>1. FreshOf(r)'
    BY <1>4, <1>5, <1>6, <1>7, <1>8, <1>9, <1>10, <1>11, <1>12, <1>13, <1>14, <1>15,
       <1>16, StepCases
  <2>2. ASSUME NEW s \in Requests, s # r PROVE FreshOf(s)'
    <3>1. Same(s) /\ FreshOf(s)
      BY <1>0, <1>16, <2>2, OthersSame
    <3>2. CASE /\ overtaken'[s] = overtaken[s]
               /\ target[s] # NoUser => users'[target[s]] = users[target[s]]
      BY <3>1, <3>2 DEF Same, FreshOf, HasObjects, Fresh
    <3>3. CASE /\ overtaken'[s] = overtaken[s] \cup {c \in Copies : copy[s][c] # NoRow}
               /\ target[s] # NoUser
      BY <3>1, <3>3 DEF Same, FreshOf, HasObjects, Fresh, Copies
    <3> QED
      BY <1>16, <2>2, <3>2, <3>3, OthersMarked
  <2>3. \A s \in Requests : FreshOf(s)'
    BY <2>1, <2>2
  <2> QED
    BY <2>3 DEF CopiesFresh, FreshOf, HasObjects
<1>17. CASE Tick \/ UNCHANGED vars
  BY <1>17 DEF Tick, vars, localVars, CopiesFresh, Fresh
<1> QED
  BY <1>16, <1>17 DEF Next

LEMMA FreshInvariant == Spec => []CopiesFresh
<1>1. Init => CopiesFresh
  BY DEF Init, CopiesFresh
<1> QED
  BY <1>1, BaseInvariant, FreshStep, PTL DEF Spec

(* The inductive invariant: whatever the others did since a handler        *)
(* looked, it waits with the objects its next write needs, those nobody    *)
(* has overtaken equal their row, and all agree with it on its date.       *)
THEOREM AccountInvariantHolds == Spec => []AccountInvariant
<1>1. Base /\ CopiesFresh /\ DatesFixed => AccountInvariant
  BY DEF Base, AccountInvariant
<1> QED
  BY <1>1, BaseInvariant, FreshInvariant, DatesInvariant, PTL

-----------------------------------------------------------------------------
(* An object nobody overtook equals the row it is written to.              *)
LEMMA FreshWhenWritten ==
    ASSUME Base, CopiesFresh, NEW r \in Requests, NEW c \in Copies, WritesFrom(r, c),
           c \notin overtaken[r]
    PROVE  /\ copy[r][c] = users[target[r]] /\ copy[r][c] \in Row /\ target[r] \in Users
           /\ users'[target[r]] \in Row
           /\ Matches(req[r], copy[r][c]) \/ req[r].op \notin {"activate", "reset"}
<1>1. /\ target[r] \in Users /\ copy[r][c] \in Row /\ pc[r] \in {"rewrite", "write"}
      /\ Matches(req[r], copy[r][c]) \/ req[r].op \notin {"activate", "reset"}
  BY DEF WritesFrom, WriteActivated, WriteReset, WriteSecret, WriteToggle, Base, Holdings,
         HoldingsOf, AwaitOK
<1>2. copy[r][c] = users[target[r]]
  BY <1>1, RowFields DEF CopiesFresh, Fresh
<1>3. users' = [users EXCEPT ![target[r]] = users'[target[r]]] /\ users'[target[r]] \in Row
  <2>1. CASE WriteSecret(r)
    <3>1. users' = [users EXCEPT ![target[r]] = copy[r].doc] /\ copy[r].doc \in Row
      BY <2>1 DEF WriteSecret, WriteAndFinish, Base, Holdings, HoldingsOf
    <3> QED
      BY <1>1, <3>1 DEF Base, TypeOK
  <2>2. ASSUME NEW row, WritesRow(r, row)
        PROVE  users' = [users EXCEPT ![target[r]] = users'[target[r]]] /\ users'[target[r]] \in Row
    <3>1. row \in Row /\ users' = [users EXCEPT ![target[r]] = row]
      BY <2>2, WritesRowFinish DEF Base, WriteAndFinish
    <3> QED
      BY <1>1, <3>1 DEF Base, TypeOK
  <2> QED
    BY <2>1, <2>2 DEF WritesFrom, WritesRow
<1> QED
  BY <1>1, <1>2, <1>3

(* An account that is blocked is let in again by an administrator, or by a *)
(* handler that had read the account before the row was last written:      *)
(* nobody who read it as blocked unblocks it.                              *)
THEOREM BlockedUntilAdministrator == Spec => BlockSticks
<1>1. Base /\ CopiesFresh /\ [Next]_vars =>
        [\A u \in Users :
           /\ Exists(u) /\ users[u].status = "blocked"
           /\ users'[u].status # "blocked"
           => \E r \in Requests :
                /\ target[r] = u
                /\ \/ UpdateUser(r)
                   \/ \E c \in Copies : c \in overtaken[r] /\ WritesFrom(r, c)]_vars
  <2> SUFFICES ASSUME Base, CopiesFresh, [Next]_vars, NEW u \in Users,
                      Exists(u), users[u].status = "blocked", users'[u].status # "blocked"
               PROVE  \E r \in Requests :
                        /\ target[r] = u
                        /\ \/ UpdateUser(r)
                           \/ \E c \in Copies : c \in overtaken[r] /\ WritesFrom(r, c)
    OBVIOUS
  <2>1. PICK r \in Requests : Step(r)
    BY DEF Next, Tick, vars
  <2>2. Rewrites(r, u)
    BY <2>1, RowChanges
  <2>3. u = target[r] /\ u \in Users
    BY <2>2, RowWritten
  <2>4. ASSUME NEW c \in Copies, WritesFrom(r, c), c \notin overtaken[r]
        PROVE  copy[r][c] = users[u] /\ copy[r][c].status = "blocked"
    BY <2>3, <2>4, FreshWhenWritten
  <2>5. CASE UpdateUser(r)
    BY <2>3, <2>5
  <2>6. CASE /\ WriteActivated(r) /\ copy[r].doc.status = "inactive"
    BY <2>3, <2>4, <2>6 DEF WritesFrom, Copies
  <2>7. CASE /\ WriteReset(r) /\ copy[r].doc \in Row
             /\ users'[u] = [copy[r].doc EXCEPT !.token = newToken[r], !.pwd = req[r].pwd]
    <3>1. users'[u].status = copy[r].doc.status
      BY <2>7 DEF Row
    <3> QED
      BY <2>3, <2>4, <2>7, <3>1 DEF WritesFrom, Copies
  <2>8. CASE WriteToggle(r) /\ users'[u] = copy[r].req
    BY <2>3, <2>4, <2>8 DEF WritesFrom, Copies
  <2>9. CASE WriteSecret(r) /\ users'[u] = copy[r].doc
    BY <2>3, <2>4, <2>9 DEF WritesFrom, Copies
  <2> QED
    BY <2>2, <2>5, <2>6, <2>7, <2>8, <2>9, RowWritten
<1> QED
  BY <1>1, BaseInvariant, FreshInvariant, PTL DEF Spec, BlockSticks

(* Every lost update needs an overlap.                                     *)
THEOREM NoUpdateLostAlone == Spec => NoLostUpdateAlone
<1>1. Base /\ CopiesFresh /\ [Next]_vars =>
        [\A r \in Requests, c \in Copies :
           WritesFrom(r, c) /\ c \notin overtaken[r] =>
              LET old == users[target[r]]
                  new == users'[target[r]] IN
              /\ new.deadline = old.deadline
              /\ new.pwd # old.pwd => req[r].op = "reset"
              /\ new.status # old.status => req[r].op = "activate"
              /\ new.token # old.token => req[r].op \in {"activate", "reset"}
              /\ req[r].op \in {"activate", "reset"} => Matches(req[r], old)]_vars
  <2> SUFFICES ASSUME Base, CopiesFresh, NEW r \in Requests, NEW c \in Copies,
                      WritesFrom(r, c), c \notin overtaken[r]
               PROVE  LET old == users[target[r]]
                          new == users'[target[r]] IN
                      /\ new.deadline = old.deadline
                      /\ new.pwd # old.pwd => req[r].op = "reset"
                      /\ new.status # old.status => req[r].op = "activate"
                      /\ new.token # old.token => req[r].op \in {"activate", "reset"}
                      /\ req[r].op \in {"activate", "reset"} => Matches(req[r], old)
    OBVIOUS
  <2>1. /\ copy[r][c] = users[target[r]] /\ copy[r][c] \in Row /\ target[r] \in Users
        /\ req[r].op \in {"activate", "reset"} => Matches(req[r], users[target[r]])
    BY FreshWhenWritten
  <2>2. users \in [Users -> RowOrNull]
    BY DEF Base, TypeOK
  <2>3. CASE c = "doc" /\ WriteActivated(r)
    <3>1. users'[target[r]] = [copy[r].doc EXCEPT !.status = "active", !.token = newToken[r]]
      BY <2>1, <2>2, <2>3 DEF WriteActivated, WriteAndFinish
    <3> QED
      BY <2>1, <2>3, <3>1 DEF WriteActivated, Row
  <2>4. CASE c = "doc" /\ WriteReset(r)
    <3>1. users'[target[r]] = [copy[r].doc EXCEPT !.token = newToken[r], !.pwd = req[r].pwd]
      BY <2>1, <2>2, <2>4 DEF WriteReset, WriteAndFinish
    <3> QED
      BY <2>1, <2>4, <3>1 DEF WriteReset, Row
  <2>5. CASE c = "doc" /\ WriteSecret(r)
    <3>1. users'[target[r]] = copy[r].doc
      BY <2>1, <2>2, <2>5 DEF WriteSecret, WriteAndFinish
    <3> QED
      BY <2>1, <2>5, <3>1
  <2>6. CASE c = "req" /\ WriteToggle(r)
    <3>1. users'[target[r]] = copy[r].req
      BY <2>1, <2>2, <2>6 DEF WriteToggle, WriteAndFinish
    <3> QED
      BY <2>1, <2>6, <3>1
  <2> QED
    BY <2>3, <2>4, <2>5, <2>6 DEF WritesFrom
<1> QED
  BY <1>1, BaseInvariant, FreshInvariant, PTL DEF Spec, NoLostUpdateAlone

-----------------------------------------------------------------------------
(* No two accounts share a token: a handler goes on with a code its own    *)
(* lookup found in use, and only the index keeps it off the table; a row   *)
(* written without a new code brings its own token back, which may belong  *)
(* to somebody else by then.                                               *)
THEOREM TokensStayUnique == Spec => []TokensUnique
<1>1. Init => TokensUnique
  BY DEF Init, TokensUnique, Exists
<1>2. Base /\ TokensUnique /\ [Next]_vars => TokensUnique'
  <2> SUFFICES ASSUME Base, TokensUnique, [Next]_vars PROVE TokensUnique'
    OBVIOUS
  <2>1. ASSUME NEW u \in Users, NEW row, row # NoRow, users' = [users EXCEPT ![u] = row],
               \/ TokenIndexAllows(row.token, u)
               \/ Exists(u) /\ row.token = users[u].token
        PROVE  TokensUnique'
    BY <2>1 DEF TokensUnique, TokenIndexAllows, Exists, Base, TypeOK
  <2>2. ASSUME NEW r \in Requests, NEW u, Rewrites(r, u) PROVE TokensUnique'
    <3>1. /\ u \in Users /\ Exists(u) /\ u = target[r] /\ users[u] \in Row
          /\ users' = [users EXCEPT ![u] = users'[u]] /\ users'[u] # NoRow
      BY <2>2, RowWritten, NoRowRemoved DEF RowsStay, Exists
    <3>2. CASE UpdateUser(r) /\ users'[u] = [users[u] EXCEPT !.status = req[r].status]
      <4>1. users'[u].token = users[u].token
        BY <3>1, <3>2 DEF Row
      <4> QED
        BY <2>1, <3>1, <4>1
    <3>3. CASE /\ WriteActivated(r) /\ copy[r].doc \in Row
               /\ users'[u] = [copy[r].doc EXCEPT !.status = "active", !.token = newToken[r]]
      <4>1. TokenIndexAllows(newToken[r], u)
        BY <3>1, <3>3 DEF WriteActivated
      <4>2. users'[u].token = newToken[r]
        BY <3>3 DEF Row
      <4> QED
        BY <2>1, <3>1, <4>1, <4>2
    <3>4. CASE /\ WriteReset(r) /\ copy[r].doc \in Row
               /\ users'[u] = [copy[r].doc EXCEPT !.token = newToken[r], !.pwd = req[r].pwd]
      <4>1. TokenIndexAllows(newToken[r], u)
        BY <3>1, <3>4 DEF WriteReset
      <4>2. users'[u].token = newToken[r]
        BY <3>4 DEF Row
      <4> QED
        BY <2>1, <3>1, <4>1, <4>2
    <3>5. CASE WriteToggle(r) /\ copy[r].req \in Row /\ users'[u] = copy[r].req
      BY <2>1, <3>1, <3>5, RowFields DEF WriteToggle
    <3>6. CASE WriteSecret(r) /\ copy[r].doc \in Row /\ users'[u] = copy[r].doc
      BY <2>1, <3>1, <3>6, RowFields DEF WriteSecret
    <3> QED
      BY <2>2, <3>2, <3>3, <3>4, <3>5, <3>6, RowWritten
  <2>3. ASSUME NEW r \in Requests, InsertUser(r) PROVE TokensUnique'
    <3>1. PICK u \in Users : TokenIndexAllows(newToken[r], u)
                            /\ users' = [users EXCEPT ![u] = copy[r].doc]
      BY <2>3 DEF InsertUser
    <3>2. copy[r].doc \in Row /\ copy[r].doc.token = newToken[r]
      BY <2>3 DEF InsertUser, Base, Holdings, HoldingsOf, AwaitOK
    <3> QED
      BY <2>1, <3>1, <3>2, RowFields
  <2>4. ASSUME users' = users PROVE TokensUnique'
    BY <2>4 DEF TokensUnique, Exists
  <2>5. ASSUME NEW r \in Requests, Step(r), ~InsertUser(r),
               \A u : ~Rewrites(r, u)
        PROVE  users' = users
    <3>2. ~WriteSecret(r)
      BY <2>5 DEF Rewrites, WriteSecret, WriteAndFinish
    <3>1. ASSUME NEW row, WritesRow(r, row) PROVE FALSE
      BY <2>5, <3>1, WritesRowFinish DEF Rewrites, WriteAndFinish, Base
    <3>3. CASE Quits(r)
      BY <3>3, QuitsFinish DEF FinishOnly
    <3> QED
      BY <2>5, <3>1, <3>2, <3>3, StepCases DEF Begin, FindByToken, LookupToken, NormalRole,
         MailCreated, LoadUser, GuardTwoFa, ReloadForSecret
  <2> QED
    BY <2>2, <2>3, <2>4, <2>5 DEF Next, Tick, vars
<1> QED
  BY <1>1, <1>2, BaseInvariant, PTL DEF Spec
=============================================================================
