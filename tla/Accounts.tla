------------------------------ MODULE Accounts ------------------------------
(***************************************************************************)
(* The users table and every handler that writes it: registration and      *)
(* creation by an administrator, activation, password reset, update by an  *)
(* administrator, the two-factor toggle, and the two handlers that were    *)
(* meant to write it and never do (forgotPassword, changePassword).        *)
(*                                                                         *)
(* A handler is a chain of awaited calls.  The code between two awaits is  *)
(* one step; between steps any other handler may run.  A handler reads a   *)
(* row into a local object, changes some columns of the object and writes  *)
(* the whole object back, so a column changed by somebody else in between  *)
(* is overwritten with what the object held.  `copy' is that object and    *)
(* `overtaken' remembers (for the properties only) which objects are older *)
(* than the last write of their row.                                       *)
(*                                                                         *)
(* Columns kept: status, token, tokenValidityDate, password.  Others take  *)
(* part in none of the guards below.  Time counts hours: now stays within  *)
(* MaxTime, and a date is the hour it names (0 for null).                  *)
(***************************************************************************)
EXTENDS Naturals

CONSTANTS
    Users,      \* ids of rows, used or not
    Requests,   \* requests in flight at one time
    Tokens,     \* the codes generateRandomCode can return
    Passwords,  \* (hashes of) passwords
    MaxTime,    \* bound on the clock
    NoRow, NoUser, NoToken

ASSUME TimeAssumption == MaxTime \in Nat
ASSUME NullAssumption == NoUser \notin Users /\ NoToken \notin Tokens

VARIABLES
    now,        \* the hour it is
    users,      \* the table: users[u] is a row, or NoRow
    mailed,     \* mailed[u]: the link of the mail queued when u was created
    req,        \* req[r]: the input r works on
    pc,         \* pc[r]: the await r is suspended in
    target,     \* target[r]: the row r works on, once known
    copy,       \* copy[r].req: request.user of the guard; copy[r].doc: the row read
    newToken,   \* newToken[r]: what generateRandomCode returned to r
    clash,      \* clash[r]: the lookup of that token found a row
    answer,     \* answer[r]: how the last request of slot r ended, "none" during one
    overtaken   \* overtaken[r]: the c such that copy[r][c] is older than its row

localVars == <<req, target, copy, newToken, clash>>
vars == <<now, users, mailed, localVars, pc, answer, overtaken>>

Statuses == {"inactive", "active", "blocked"}
Copies == {"req", "doc"}
Dates == 0 .. MaxTime + 1
Row == [status : Statuses, token : Tokens, deadline : Dates, pwd : Passwords]
RowOrNull == Row \cup {NoRow}

ASSUME NoRowAssumption == NoRow \notin Row

NoRequest == [op |-> "idle"]
RegisterInput == [op : {"register"}, pwd : Passwords]
CreateInput == [op : {"create"}, pwd : Passwords, status : Statuses]
ActivateInput == [op : {"activate"}, token : Tokens \cup {NoToken}]
ResetInput == [op : {"reset"}, token : Tokens, pwd : Passwords]
UpdateInput == [op : {"update"}, user : Users, status : Statuses]
TwoFaInput == [op : {"enable2fa", "disable2fa"}, user : Users]
BrokenInput == [op : {"forgot", "changePassword"}]
Input == RegisterInput \cup CreateInput \cup ActivateInput \cup ResetInput
            \cup UpdateInput \cup TwoFaInput \cup BrokenInput

Pcs == {"idle", "guard", "find", "load", "reload", "lookup", "role",
        "insert", "mail", "write", "rewrite"}

TypeOK ==
    /\ now \in 0 .. MaxTime
    /\ users \in [Users -> RowOrNull]
    /\ mailed \in [Users -> {"none", "verify", "reset"}]
    /\ req \in [Requests -> Input \cup {NoRequest}]
    /\ pc \in [Requests -> Pcs]
    /\ target \in [Requests -> Users \cup {NoUser}]
    /\ copy \in [Requests -> [Copies -> RowOrNull]]
    /\ newToken \in [Requests -> Tokens \cup {NoToken}]
    /\ clash \in [Requests -> BOOLEAN]
    /\ answer \in [Requests -> {"none", "ok", "refused", "failed", "thrown"}]
    /\ overtaken \in [Requests -> SUBSET Copies]

NoCopies == [c \in Copies |-> NoRow]

Init ==
    /\ now = 0
    /\ users = [u \in Users |-> NoRow]
    /\ mailed = [u \in Users |-> "none"]
    /\ req = [r \in Requests |-> NoRequest]
    /\ pc = [r \in Requests |-> "idle"]
    /\ target = [r \in Requests |-> NoUser]
    /\ copy = [r \in Requests |-> NoCopies]
    /\ newToken = [r \in Requests |-> NoToken]
    /\ clash = [r \in Requests |-> FALSE]
    /\ answer = [r \in Requests |-> "none"]
    /\ overtaken = [r \in Requests |-> {}]

-----------------------------------------------------------------------------
(* Helpers *)

Exists(u) == users[u] # NoRow
TokenTaken(t) == \E u \in Users : Exists(u) /\ users[u].token = t

(* The unique index on users.token: may row u hold token t?                *)
TokenIndexAllows(t, u) == \A v \in Users \ {u} : Exists(v) => users[v].token # t

Await(r, where) ==
    /\ pc' = [pc EXCEPT ![r] = where]
    /\ UNCHANGED answer

(* The reply is sent and the objects of the request are dropped.           *)
Finish(r, how) ==
    /\ pc' = [pc EXCEPT ![r] = "idle"]
    /\ answer' = [answer EXCEPT ![r] = how]
    /\ req' = [req EXCEPT ![r] = NoRequest]
    /\ target' = [target EXCEPT ![r] = NoUser]
    /\ copy' = [copy EXCEPT ![r] = NoCopies]
    /\ newToken' = [newToken EXCEPT ![r] = NoToken]
    /\ clash' = [clash EXCEPT ![r] = FALSE]

FinishOnly(r, how) ==
    /\ Finish(r, how)
    /\ overtaken' = [overtaken EXCEPT ![r] = {}]
    /\ UNCHANGED <<now, users, mailed>>

(* r writes row u and ends, successfully or (the reply of the database is  *)
(* lost) not; or goes on to next.  The objects other requests hold of the  *)
(* row are now older than it.                                              *)
Overtake(u, r) ==
    overtaken' = [s \in Requests |->
        IF s = r THEN {}
        ELSE IF target[s] = u
        THEN overtaken[s] \cup {c \in Copies : copy[s][c] # NoRow}
        ELSE overtaken[s]]

WriteAndFinish(r, row) ==
    /\ users' = [users EXCEPT ![target[r]] = row]
    /\ Overtake(target[r], r)
    /\ \E how \in {"ok", "failed"} : Finish(r, how)
    /\ UNCHANGED <<now, mailed>>

(* findBy({fieldName: 'token'}).  The query parameter of the activation is *)
(* validated by nothing: without it the condition is {token: undefined},   *)
(* which every row meets (resetPassword's body is validated).              *)
Matches(i, row) == i.token \in {NoToken, row.token}

(* activateAccount and getUserForResetPassword: is the row with the token  *)
(* accepted?  (Mutations: no status check; no validity check.)             *)
AcceptsAnyStatus(i, row) ==
    \/ i.op = "activate"
    \/ i.op = "reset" /\ row.deadline > now
AcceptsExpired(i, row) ==
    \/ i.op = "activate" /\ row.status = "inactive"
    \/ i.op = "reset"
Accepts(i, row) ==
    \/ i.op = "activate" /\ row.status = "inactive"
    \/ i.op = "reset" /\ row.deadline > now

-----------------------------------------------------------------------------
FirstAwait(op) ==
    IF op \in {"register", "create"} THEN "lookup"
    ELSE IF op \in {"activate", "reset", "forgot"} THEN "find"
    ELSE IF op = "update" THEN "load"
    ELSE "guard"

(* A request arrives.  register and create call generateUniqueToken first, *)
(* and its code is chosen before its first await.                          *)
Begin(r) ==
    /\ pc[r] = "idle"
    /\ \E i \in Input :
          /\ req' = [req EXCEPT ![r] = i]
          /\ pc' = [pc EXCEPT ![r] = FirstAwait(i.op)]
          /\ IF i.op \in {"register", "create"}
             THEN \E t \in Tokens : newToken' = [newToken EXCEPT ![r] = t]
             ELSE UNCHANGED newToken
    /\ answer' = [answer EXCEPT ![r] = "none"]
    /\ UNCHANGED <<now, users, mailed, target, copy, clash, overtaken>>

(* The row found by activateAccount and by resetPassword (of several, any  *)
(* may come first), their checks, and the code generateUniqueToken draws.  *)
FindByToken(r) ==
    /\ pc[r] = "find"
    /\ req[r].op \in {"activate", "reset"}
    /\ \E u \in Users, t \in Tokens :
          /\ Exists(u)
          /\ Matches(req[r], users[u])
          /\ Accepts(req[r], users[u])
          /\ target' = [target EXCEPT ![r] = u]
          /\ copy' = [copy EXCEPT ![r].doc = users[u]]
          /\ newToken' = [newToken EXCEPT ![r] = t]
    /\ Await(r, "lookup")
    /\ UNCHANGED <<now, users, mailed, req, clash, overtaken>>

(* NotFoundException, or ForbiddenException for an account not inactive.   *)
RefuseToken(r) ==
    /\ pc[r] = "find"
    /\ req[r].op \in {"activate", "reset"}
    /\ LET matching == {u \in Users : Exists(u) /\ Matches(req[r], users[u])} IN
       matching = {} \/ \E u \in matching : ~Accepts(req[r], users[u])
    /\ FinishOnly(r, "refused")

(* generateUniqueToken.  When the code is taken the function calls itself, *)
(* drops what that call returns, and returns the code that was taken; the  *)
(* inner calls are reads whose results nobody sees.                        *)
LookupToken(r) ==
    /\ pc[r] = "lookup"
    /\ clash' = [clash EXCEPT ![r] = TokenTaken(newToken[r])]
    /\ \/ /\ req[r].op = "register"
          /\ Await(r, "role")
          /\ UNCHANGED copy
       \/ /\ req[r].op = "create"
          /\ Await(r, "insert")
          /\ copy' = [copy EXCEPT ![r].doc = [status |-> req[r].status, token |-> newToken[r],
                                              deadline |-> 0, pwd |-> req[r].pwd]]
       \/ /\ req[r].op \in {"activate", "reset"}
          /\ Await(r, "write")
          /\ UNCHANGED copy
    /\ UNCHANGED <<now, users, mailed, req, target, newToken, overtaken>>

(* create without a status: the `normal' role, an hour of validity.        *)
(* (Mutation: two hours.)                                                  *)
NormalRoleTwoHours(r) ==
    /\ pc[r] = "role"
    /\ copy' = [copy EXCEPT ![r].doc = [status |-> "inactive", token |-> newToken[r],
                                        deadline |-> now + 2, pwd |-> req[r].pwd]]
    /\ Await(r, "insert")
    /\ UNCHANGED <<now, users, mailed, req, target, newToken, clash, overtaken>>
NormalRole(r) ==
    /\ pc[r] = "role"
    /\ copy' = [copy EXCEPT ![r].doc = [status |-> "inactive", token |-> newToken[r],
                                        deadline |-> now + 1, pwd |-> req[r].pwd]]
    /\ Await(r, "insert")
    /\ UNCHANGED <<now, users, mailed, req, target, newToken, clash, overtaken>>

(* The role was removed or renamed: normalRole.id of null.                 *)
NormalRoleMissing(r) ==
    /\ pc[r] = "role"
    /\ FinishOnly(r, "thrown")

InsertUser(r) ==
    /\ pc[r] = "insert"
    /\ \E u \in Users :
          /\ ~Exists(u)
          /\ TokenIndexAllows(newToken[r], u)
          /\ users' = [users EXCEPT ![u] = copy[r].doc]
          /\ \/ /\ target' = [target EXCEPT ![r] = u]
                /\ Await(r, "mail")
                /\ UNCHANGED <<req, copy, newToken, clash>>
             \/ Finish(r, "failed")
    /\ UNCHANGED <<now, mailed, overtaken>>

(* sendMailToUser.  The row exists already; the mail may be queued, be     *)
(* lost by the queue (sendMail returns false and nobody looks), or its     *)
(* template may be gone (sendMail dereferences null).                      *)
Link(op) == IF op = "create" THEN "verify" ELSE "reset"

MailCreated(r) ==
    /\ pc[r] = "mail"
    /\ \/ /\ mailed' = [mailed EXCEPT ![target[r]] = Link(req[r].op)]
          /\ Finish(r, "ok")
       \/ /\ UNCHANGED mailed
          /\ \E how \in {"ok", "thrown"} : Finish(r, how)
    /\ overtaken' = [overtaken EXCEPT ![r] = {}]
    /\ UNCHANGED <<now, users>>

-----------------------------------------------------------------------------
(* The update at the end of activateAccount: the object it read, with the  *)
(* two columns it assigned.                                                *)
WriteActivated(r) ==
    /\ pc[r] = "write"
    /\ req[r].op = "activate"
    /\ TokenIndexAllows(newToken[r], target[r])
    /\ WriteAndFinish(r, [copy[r].doc EXCEPT !.status = "active", !.token = newToken[r]])

(* The update at the end of resetPassword.  (Mutation: it activates too.)  *)
WriteResetActivates(r) ==
    /\ pc[r] = "write"
    /\ req[r].op = "reset"
    /\ TokenIndexAllows(newToken[r], target[r])
    /\ WriteAndFinish(r, [copy[r].doc EXCEPT !.status = "active", !.token = newToken[r],
                                             !.pwd = req[r].pwd])
WriteReset(r) ==
    /\ pc[r] = "write"
    /\ req[r].op = "reset"
    /\ TokenIndexAllows(newToken[r], target[r])
    /\ WriteAndFinish(r, [copy[r].doc EXCEPT !.token = newToken[r], !.pwd = req[r].pwd])

-----------------------------------------------------------------------------
(* update: the row must exist when it is read, the new user name and       *)
(* e-mail must be found on no row, and only the columns of the dto are     *)
(* written.  An update of the profile, or one without a status, writes     *)
(* none of the columns kept here.                                          *)
LoadUser(r) ==
    /\ pc[r] = "load"
    /\ Exists(req[r].user)
    /\ target' = [target EXCEPT ![r] = req[r].user]
    /\ Await(r, "write")
    /\ UNCHANGED <<now, users, mailed, req, copy, newToken, clash, overtaken>>

(* No such user; or (names are not kept here) one of the two is taken.     *)
RefuseUpdate(r) ==
    /\ pc[r] = "load"
    /\ FinishOnly(r, "refused")

UpdateUser(r) ==
    /\ pc[r] = "write"
    /\ req[r].op = "update"
    /\ WriteAndFinish(r, [users[target[r]] EXCEPT !.status = req[r].status])

-----------------------------------------------------------------------------
(* toggleTwoFa.  Its own columns are not kept here, what it does to the    *)
(* others is: it writes back the object it read (enabling only), then the  *)
(* object the guard read when the request came in.                         *)
GuardTwoFa(r) ==
    /\ pc[r] = "guard"
    /\ req[r].op \in {"enable2fa", "disable2fa"}
    /\ Exists(req[r].user)
    /\ target' = [target EXCEPT ![r] = req[r].user]
    /\ copy' = [copy EXCEPT ![r].req = users[req[r].user]]
    /\ Await(r, IF req[r].op = "enable2fa" THEN "reload" ELSE "write")
    /\ UNCHANGED <<now, users, mailed, req, newToken, clash, overtaken>>

(* No such user, or a new secret was asked for less than a minute ago; the *)
(* password of somebody (who, is not kept) when the table has nobody.      *)
RefuseAtGuard(r) ==
    /\ pc[r] = "guard"
    /\ \/ req[r].op = "enable2fa"
       \/ req[r].op = "disable2fa" /\ ~Exists(req[r].user)
       \/ req[r].op = "changePassword" /\ ~\E u \in Users : Exists(u)
    /\ FinishOnly(r, "refused")

ReloadForSecret(r) ==
    /\ pc[r] = "reload"
    /\ copy' = [copy EXCEPT ![r].doc = users[target[r]]]
    /\ Await(r, "rewrite")
    /\ UNCHANGED <<now, users, mailed, req, target, newToken, clash, overtaken>>

WriteSecret(r) ==
    /\ pc[r] = "rewrite"
    /\ TokenIndexAllows(copy[r].doc.token, target[r])
    /\ \/ /\ Await(r, "write")
          /\ users' = [users EXCEPT ![target[r]] = copy[r].doc]
          /\ overtaken' = [s \in Requests |->
                IF s # r /\ target[s] = target[r]
                THEN overtaken[s] \cup {c \in Copies : copy[s][c] # NoRow}
                ELSE overtaken[s]]
          /\ UNCHANGED <<now, mailed, localVars>>
       \/ WriteAndFinish(r, copy[r].doc)

(* What turnOnTwoFactorAuthentication writes back is request.user.         *)
WriteToggle(r) ==
    /\ pc[r] = "write"
    /\ req[r].op \in {"enable2fa", "disable2fa"}
    /\ TokenIndexAllows(copy[r].req.token, target[r])
    /\ WriteAndFinish(r, copy[r].req)

-----------------------------------------------------------------------------
(* forgotPassword asks for the column 'email,', which the schema does not  *)
(* have: the query is rejected before it reaches the database.             *)
ForgotPassword(r) ==
    /\ pc[r] = "find"
    /\ req[r].op = "forgot"
    /\ FinishOnly(r, "thrown")

(* changePassword calls user.validatePassword, but request.user is the     *)
(* plain record getWithPassword returned, not a UserEntity.                *)
ChangePassword(r) ==
    /\ pc[r] = "guard"
    /\ req[r].op = "changePassword"
    /\ \E u \in Users : Exists(u)
    /\ FinishOnly(r, "thrown")

(* A call rejects without having had an effect: the database is away, an   *)
(* index refuses the write, the ORM refuses the data.                      *)
CallFails(r) ==
    /\ pc[r] # "idle"
    /\ FinishOnly(r, "failed")

Tick ==
    /\ now < MaxTime
    /\ now' = now + 1
    /\ UNCHANGED <<users, mailed, localVars, pc, answer, overtaken>>

Step(r) ==
    \/ Begin(r) \/ FindByToken(r) \/ RefuseToken(r) \/ LookupToken(r)
    \/ NormalRole(r) \/ NormalRoleMissing(r) \/ InsertUser(r) \/ MailCreated(r)
    \/ LoadUser(r) \/ RefuseUpdate(r) \/ UpdateUser(r)
    \/ GuardTwoFa(r) \/ RefuseAtGuard(r) \/ ReloadForSecret(r) \/ WriteSecret(r)
    \/ WriteActivated(r) \/ WriteReset(r) \/ WriteToggle(r)
    \/ ForgotPassword(r) \/ ChangePassword(r) \/ CallFails(r)

Next == Tick \/ \E r \in Requests : Step(r)

Spec == Init /\ [][Next]_vars

-----------------------------------------------------------------------------
(* Properties *)

(* No two accounts share a token, although two requests can draw the same  *)
(* code and generateUniqueToken returns a code it found in use.            *)
TokensUnique ==
    \A u, v \in Users :
        Exists(u) /\ Exists(v) /\ users[u].token = users[v].token => u = v

(* The awaits a handler can be suspended in.                               *)
AwaitOK(op, where) ==
    \/ op = "idle" /\ where = "idle"
    \/ op = "register" /\ where \in {"lookup", "role", "insert", "mail"}
    \/ op = "create" /\ where \in {"lookup", "insert", "mail"}
    \/ op \in {"activate", "reset"} /\ where \in {"find", "lookup", "write"}
    \/ op = "update" /\ where \in {"load", "write"}
    \/ op = "enable2fa" /\ where \in {"guard", "reload", "rewrite", "write"}
    \/ op = "disable2fa" /\ where \in {"guard", "write"}
    \/ op = "forgot" /\ where = "find"
    \/ op = "changePassword" /\ where = "guard"

(* The step in which r writes the row it holds object c of.                *)
WritesFrom(r, c) ==
    \/ c = "doc" /\ (WriteActivated(r) \/ WriteReset(r) \/ WriteSecret(r))
    \/ c = "req" /\ WriteToggle(r)

(* Every lost update needs an overlap: a handler whose row nobody wrote    *)
(* since it was read changes the columns it is about and no other; in      *)
(* particular an activation keeps the password and a reset the status, and *)
(* both still find the token they were called with, if any, on the row.    *)
NoLostUpdateAlone ==
    [][\A r \in Requests, c \in Copies :
         WritesFrom(r, c) /\ c \notin overtaken[r] =>
            LET old == users[target[r]]
                new == users'[target[r]] IN
            /\ new.deadline = old.deadline
            /\ new.pwd # old.pwd => req[r].op = "reset"
            /\ new.status # old.status => req[r].op = "activate"
            /\ new.token # old.token => req[r].op \in {"activate", "reset"}
            /\ req[r].op \in {"activate", "reset"} => Matches(req[r], old)]_vars

(* A blocked account is let in again by an administrator only, or by a     *)
(* handler that had read the row before it was blocked.                    *)
BlockSticks ==
    [][\A u \in Users :
         /\ Exists(u) /\ users[u].status = "blocked"
         /\ users'[u].status # "blocked"
         => \E r \in Requests :
              /\ target[r] = u
              /\ \/ UpdateUser(r)
                 \/ \E c \in Copies : c \in overtaken[r] /\ WritesFrom(r, c)]_vars

-----------------------------------------------------------------------------
(* What a handler knows and holds in each of its awaits.                   *)
HoldingsOf(r) ==
    LET op == req[r].op
        doc == copy[r].doc IN
    /\ AwaitOK(op, pc[r])
    /\ target[r] # NoUser => Exists(target[r])
    /\ pc[r] \in {"idle", "find", "load", "guard"} =>
          target[r] = NoUser /\ copy[r] = NoCopies
    /\ op \in {"register", "create"} =>
          /\ newToken[r] \in Tokens
          /\ pc[r] # "mail" => target[r] = NoUser
          /\ pc[r] = "insert" => doc \in Row /\ doc.token = newToken[r]
    /\ op \in {"activate", "reset"} /\ pc[r] # "find" =>
          /\ newToken[r] \in Tokens /\ target[r] \in Users
          /\ doc \in Row /\ Matches(req[r], doc)
          /\ op = "activate" => doc.status = "inactive"
          /\ op = "reset" => doc.deadline > 0
    /\ op = "update" /\ pc[r] = "write" => target[r] \in Users
    /\ op \in {"enable2fa", "disable2fa"} /\ pc[r] # "guard" =>
          target[r] \in Users /\ copy[r].req \in Row
    /\ pc[r] = "rewrite" => doc \in Row

Holdings == \A r \in Requests : HoldingsOf(r)

(* The object a handler holds is the row, unless somebody wrote the row    *)
(* since it was read; and an object overtakes the ones read before it.     *)
Fresh(r, c) ==
    copy[r][c] # NoRow /\ c \notin overtaken[r] => copy[r][c] = users[target[r]]

CopiesFresh ==
    \A r \in Requests :
        /\ pc[r] \in {"lookup", "reload", "rewrite", "write"} /\ target[r] # NoUser =>
              \A c \in Copies : Fresh(r, c)
        /\ target[r] = NoUser => overtaken[r] = {}
        /\ \A c \in overtaken[r] : copy[r][c] # NoRow
        /\ "doc" \in overtaken[r] /\ copy[r].req # NoRow => "req" \in overtaken[r]

(* A validity date never changes once its row exists.                      *)
DatesFixed ==
    \A r \in Requests, c \in Copies :
        pc[r] \in {"lookup", "reload", "rewrite", "write"} /\ target[r] # NoUser
          /\ copy[r][c] # NoRow =>
            copy[r][c].deadline = users[target[r]].deadline

(* The inductive invariant under the action properties: what every handler *)
(* knows while it waits, although any other handler ran since it looked.   *)
AccountInvariant == Holdings /\ CopiesFresh /\ DatesFixed

-----------------------------------------------------------------------------
(* What the documentation says and the code does not do.                   *)

(* "generate unique token", "recursively find unique tokens": no handler   *)
(* goes on with a code that its own lookup found in use.                   *)
GeneratedTokenUnused ==
    \A r \in Requests : pc[r] \in {"role", "insert", "write"} => ~clash[r]

(* "activate newly register account": the mail a new registration gets     *)
(* carries the activation link.                                            *)
RegistrationMailsActivation ==
    \A u \in Users :
        Exists(u) /\ users[u].deadline # 0 => mailed[u] # "reset"

(* "forget password and send reset code by email", "change password of     *)
(* logged in user": the two handlers do what they are for, or refuse, or a *)
(* call of theirs fails; where there are accounts to serve, they do not    *)
(* fail by themselves.                                                     *)
PasswordRequestsServed ==
    [][\A r \in Requests :
         req[r].op \in {"forgot", "changePassword"} /\ (\E u \in Users : Exists(u))
         => answer'[r] # "thrown"]_vars
=============================================================================
