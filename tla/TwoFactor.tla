----------------------------- MODULE TwoFactor -----------------------------
(***************************************************************************)
(* The second factor: the toggle that stores a secret and turns it on or   *)
(* off, the exchange of a code for a marked access token, and the guard    *)
(* that asks for the mark.  With them, everything else that issues an      *)
(* access token (login, refresh) or writes the row of a user.              *)
(*                                                                         *)
(* As in Accounts, a handler holds objects read from the row: `copy.req'   *)
(* is request.user, read by the guard, and `copy.doc' the row a handler    *)
(* reads itself; `overtaken' remembers, for the properties only, which     *)
(* objects are older than the last write of the row by another request.    *)
(* `may' is for the properties too: what a request asks for was due at     *)
(* some moment since it was sent.                                          *)
(*                                                                         *)
(* Time counts minutes, and a date is the minute it names (0 for null).  A *)
(* code stands for the secret it was computed from; one that grew too old, *)
(* like an access token that did, is refused, which is a call that fails.  *)
(***************************************************************************)
EXTENDS Naturals

CONSTANTS
    Users,      \* accounts (rows are never deleted)
    Requests,   \* requests in flight at one time
    Secrets,    \* what authenticator.generateSecret can return
    MaxTime,    \* bound on the clock
    NoSecret, NoRow

ASSUME TimeAssumption == MaxTime \in Nat
ASSUME SecretAssumption == NoSecret \notin Secrets

VARIABLES
    now,        \* the minute it is
    users,      \* the table: is its status ACTIVE, twoFASecret, twoFAThrottleTime,
                \* isTwoFAEnabled
    sessions,   \* who has a refresh token that is neither revoked nor too old
    tokens,     \* the access tokens issued: owner, isTwoFAAuthenticated
    req, pc,    \* the request in each slot and the await it is suspended in
    copy,       \* copy[r]: the objects r holds
    fresh,      \* fresh[r]: the secret and the date r drew
    overtaken,  \* overtaken[r]: the c such that copy[r][c] is older than its row
    may         \* may[r]: what r asks for was due since it was sent

vars == <<now, users, sessions, tokens, req, pc, copy, fresh, overtaken, may>>

Copies == {"req", "doc"}
Dates == 0 .. MaxTime + 1
Row == [active : BOOLEAN, secret : Secrets \cup {NoSecret}, until : Dates, enabled : BOOLEAN]
ASSUME NoRowAssumption == NoRow \notin Row

Token == [user : Users, marked : BOOLEAN]
Drawn == [secret : Secrets \cup {NoSecret}, until : Dates]
NothingDrawn == [secret |-> NoSecret, until |-> 0]
NoCopies == [c \in Copies |-> NoRow]

NoRequest == [op |-> "idle"]
Input ==
    [op : {"login", "refresh", "enable", "disable", "activate", "reset", "update"},
     user : Users]
    \cup [op : {"visit"}, user : Users, marked : BOOLEAN]
    \cup [op : {"authenticate"}, user : Users, code : Secrets]
(* The routes of the toggle and of authenticate take any access token.     *)
Presents(i) ==
    CASE i.op = "visit" -> {[user |-> i.user, marked |-> i.marked]}
      [] i.op \in {"enable", "disable", "authenticate"} -> [user : {i.user}, marked : BOOLEAN]
      [] OTHER -> {}

FirstAwait(op) ==
    CASE op = "login" -> "verify"
      [] op = "refresh" -> "resolve"
      [] op = "update" -> "column"
      [] op \in {"activate", "reset"} -> "find"
      [] OTHER -> "guard"
Pcs == {"idle", "verify", "resolve", "column", "find", "guard", "check", "session",
        "reply", "reload", "secret", "write", "inside"}

TypeOK ==
    /\ now \in 0 .. MaxTime
    /\ users \in [Users -> Row]
    /\ sessions \subseteq Users
    /\ tokens \subseteq Token
    /\ req \in [Requests -> Input \cup {NoRequest}]
    /\ pc \in [Requests -> Pcs]
    /\ copy \in [Requests -> [Copies -> Row \cup {NoRow}]]
    /\ fresh \in [Requests -> Drawn]
    /\ overtaken \in [Requests -> SUBSET Copies]
    /\ may \in [Requests -> BOOLEAN]

Init ==
    /\ now = 0
    /\ users \in [Users -> [active : BOOLEAN, secret : {NoSecret}, until : {0},
                            enabled : {FALSE}]]
    /\ sessions = {}
    /\ tokens = {}
    /\ req = [r \in Requests |-> NoRequest]
    /\ pc = [r \in Requests |-> "idle"]
    /\ copy = [r \in Requests |-> NoCopies]
    /\ fresh = [r \in Requests |-> NothingDrawn]
    /\ overtaken = [r \in Requests |-> {}]
    /\ may = [r \in Requests |-> FALSE]

-----------------------------------------------------------------------------
(* Helpers *)

RowOf(r) == users[req[r].user]
Keeps == UNCHANGED <<sessions, tokens>>

Await(r, where) ==
    /\ pc' = [pc EXCEPT ![r] = where]
    /\ UNCHANGED <<now, req>>

(* The request is answered, and the objects it holds are dropped.          *)
Finish(r) ==
    /\ pc' = [pc EXCEPT ![r] = "idle"]
    /\ req' = [req EXCEPT ![r] = NoRequest]
    /\ copy' = [copy EXCEPT ![r] = NoCopies]
    /\ fresh' = [fresh EXCEPT ![r] = NothingDrawn]
    /\ UNCHANGED now

Refuse(r) ==
    /\ Finish(r)
    /\ overtaken' = [overtaken EXCEPT ![r] = {}]
    /\ UNCHANGED users /\ Keeps

Read(r, c) ==
    /\ copy' = [copy EXCEPT ![r][c] = RowOf(r)]
    /\ UNCHANGED <<users, fresh, overtaken>>

(* What r goes on to do needs none of the objects it holds.                *)
Drop(r) ==
    /\ copy' = [copy EXCEPT ![r] = NoCopies]
    /\ overtaken' = [overtaken EXCEPT ![r] = {}]
    /\ UNCHANGED <<users, fresh>>

(* The row is written; what others hold of it is overtaken.                *)
Write(r, row, mine) ==
    /\ users' = [users EXCEPT ![req[r].user] = row]
    /\ overtaken' = [s \in Requests |->
          IF s = r THEN mine
          ELSE overtaken[s] \cup
               {c \in Copies : copy[s][c] # NoRow /\ req[s].user = req[r].user}]
    /\ Keeps
WriteLast(r, row) == Write(r, row, {}) /\ Finish(r)

Begin(r) ==
    /\ pc[r] = "idle"
    /\ \E i \in Input :
          /\ Presents(i) # {} => Presents(i) \cap tokens # {}
          /\ req' = [req EXCEPT ![r] = i]
          /\ pc' = [pc EXCEPT ![r] = FirstAwait(i.op)]
    /\ UNCHANGED <<now, users, sessions, tokens, copy, fresh, overtaken>>

-----------------------------------------------------------------------------
(* Access tokens *)

(* AuthService.login: verifyUser, then a refresh token for who asked to be *)
(* remembered.  (Mutation: the status is not looked at.)                   *)
VerifyAnyStatus(r) ==
    /\ pc[r] = "verify"
    /\ \/ Read(r, "doc") /\ Await(r, "session")
       \/ Drop(r) /\ Await(r, "reply")
    /\ Keeps
Verify(r) ==
    /\ pc[r] = "verify"
    /\ RowOf(r).active
    /\ \/ Read(r, "doc") /\ Await(r, "session")
       \/ Drop(r) /\ Await(r, "reply")
    /\ Keeps

OpenSession(r) ==
    /\ pc[r] = "session"
    /\ sessions' = sessions \cup {req[r].user}
    /\ Await(r, "reply")
    /\ Drop(r) /\ UNCHANGED tokens

(* resolveRefreshToken: the session is open; the user is there, whatever   *)
(* its status.                                                             *)
Resolve(r) ==
    /\ pc[r] = "resolve"
    /\ req[r].user \in sessions
    /\ Await(r, "reply")
    /\ UNCHANGED <<users, sessions, tokens, copy, fresh, overtaken>>

(* TwofaController.authenticate: isTwoFACodeValid of the user the guard    *)
(* has read.                                                               *)
CheckCode(r) ==
    /\ pc[r] = "check" /\ req[r].op = "authenticate"
    /\ copy[r].req.secret = req[r].code
    /\ Await(r, "reply")
    /\ Drop(r) /\ Keeps

(* generateAccessToken: only an authentication sets the mark, so a token   *)
(* from a refresh has lost it.  (Mutation: a refresh keeps it.)            *)
Issue(r, marking) ==
    /\ pc[r] = "reply"
    /\ tokens' = tokens \cup {[user |-> req[r].user, marked |-> req[r].op \in marking]}
    /\ Finish(r)
    /\ overtaken' = [overtaken EXCEPT ![r] = {}]
    /\ UNCHANGED <<users, sessions>>
ReplyMarked(r) == Issue(r, {"authenticate", "refresh"})
Reply(r) == Issue(r, {"authenticate"})

-----------------------------------------------------------------------------
(* The guards.  JwtAuthGuard and JwtTwoFactorGuard read the user with role *)
(* and permissions; the row is read first, and the queries for the other   *)
(* two leave time between the row and what is decided from it.             *)
Guard(r) ==
    /\ pc[r] = "guard"
    /\ Read(r, "req")
    /\ Await(r, IF req[r].op = "disable" THEN "write" ELSE "check")
    /\ Keeps

(* JwtTwoFactorStrategy.validate.  (Mutation: of a user with no secret the *)
(* mark is not asked.)                                                     *)
AdmitNoSecret(r) ==
    /\ pc[r] = "check" /\ req[r].op = "visit"
    /\ req[r].marked \/ ~copy[r].req.enabled \/ copy[r].req.secret = NoSecret
    /\ Await(r, "inside")
    /\ Drop(r) /\ Keeps
Admit(r) ==
    /\ pc[r] = "check" /\ req[r].op = "visit"
    /\ req[r].marked \/ ~copy[r].req.enabled
    /\ Await(r, "inside")
    /\ Drop(r) /\ Keeps

-----------------------------------------------------------------------------
(* TwofaController.toggleTwoFa *)

(* generateTwoFASecret: the throttle of the user the guard has read, then  *)
(* a new secret; setTwoFactorAuthenticationSecret takes the time at once.  *)
Draw(r, minutes) ==
    /\ pc[r] = "check" /\ req[r].op = "enable"
    /\ copy[r].req.until <= now
    /\ \E s \in Secrets :
          fresh' = [fresh EXCEPT ![r] = [secret |-> s, until |-> now + minutes]]
    /\ Await(r, "reload")
    /\ UNCHANGED <<users, sessions, tokens, copy, overtaken>>
DrawInSeconds(r) == Draw(r, 60)     \* mutation: minutes taken for seconds
DrawSecret(r) == Draw(r, 1)

(* (Mutation: the row the guard has read is taken for the row.)            *)
ReloadGuarded(r) ==
    /\ pc[r] = "reload"
    /\ copy' = [copy EXCEPT ![r].doc = copy[r].req]
    /\ UNCHANGED <<users, fresh, overtaken>>
    /\ Await(r, "secret")
    /\ Keeps
Reload(r) ==
    /\ pc[r] = "reload"
    /\ Read(r, "doc")
    /\ Await(r, "secret")
    /\ Keeps

(* The row with the new secret.  The object is not used again.  (Mutation: *)
(* a new secret turns the factor off until it is confirmed.)               *)
StoreSecret(r, row) ==
    /\ pc[r] = "secret"
    /\ Write(r, row, overtaken[r] \ {"doc"})
    /\ copy' = [copy EXCEPT ![r].doc = NoRow]
    /\ Await(r, "write")
    /\ UNCHANGED fresh
WithSecret(r) == [copy[r].doc EXCEPT !.secret = fresh[r].secret, !.until = fresh[r].until]
WriteSecretOff(r) == StoreSecret(r, [WithSecret(r) EXCEPT !.enabled = FALSE])
WriteSecret(r) == StoreSecret(r, WithSecret(r))

(* turnOnTwoFactorAuthentication.  The mail with the secret is queued first *)
(* (if that throws, this is a call that fails); then request.user is       *)
(* written back as the guard read it, but for the flag.  (Mutation: turned *)
(* off, the secret is cleared too.)                                        *)
Toggles(r) == pc[r] = "write" /\ req[r].op \in {"enable", "disable"}
WriteToggleClears(r) ==
    /\ Toggles(r)
    /\ WriteLast(r, IF req[r].op = "enable" THEN [copy[r].req EXCEPT !.enabled = TRUE]
                    ELSE [copy[r].req EXCEPT !.enabled = FALSE, !.secret = NoSecret])
WriteToggle(r) ==
    /\ Toggles(r)
    /\ WriteLast(r, [copy[r].req EXCEPT !.enabled = req[r].op = "enable"])

-----------------------------------------------------------------------------
(* Who else writes the row.  activateAccount and resetPassword find it by  *)
(* a token and write the whole of it back; update writes one column.  That *)
(* activateAccount refuses a blocked account is a call that fails.         *)
Find(r) ==
    /\ pc[r] = "find"
    /\ req[r].op = "activate" => ~RowOf(r).active
    /\ Read(r, "doc")
    /\ Await(r, "write")
    /\ Keeps

WriteBack(r) ==
    /\ pc[r] = "write" /\ req[r].op \in {"activate", "reset"}
    /\ WriteLast(r, [copy[r].doc EXCEPT !.active = @ \/ req[r].op = "activate"])

WriteStatus(r) ==
    /\ pc[r] = "column"
    /\ \E active \in BOOLEAN : WriteLast(r, [RowOf(r) EXCEPT !.active = active])

(* A call rejects, a check refuses, or the answer is all that is left.     *)
CallFails(r) == pc[r] # "idle" /\ Refuse(r)

(* Elsewhere: logout, revocation or age ends a session (RefreshTokens).    *)
EndSession(u) ==
    /\ u \in sessions
    /\ sessions' = sessions \ {u}
    /\ UNCHANGED <<now, users, tokens, req, pc, copy, fresh, overtaken>>

Tick ==
    /\ now < MaxTime
    /\ now' = now + 1
    /\ UNCHANGED <<users, sessions, tokens, req, pc, copy, fresh, overtaken>>

Continue(r) ==
    \/ Verify(r) \/ OpenSession(r) \/ Resolve(r) \/ CheckCode(r) \/ Reply(r)
    \/ Guard(r) \/ Admit(r)
    \/ DrawSecret(r) \/ Reload(r) \/ WriteSecret(r) \/ WriteToggle(r)
    \/ Find(r) \/ WriteBack(r) \/ WriteStatus(r)
    \/ CallFails(r)

Step ==
    \/ \E r \in Requests : Begin(r) \/ Continue(r)
    \/ \E u \in Users : EndSession(u)
    \/ Tick

-----------------------------------------------------------------------------
(* Records whether what a request asks for is due, while it is under way.  *)
AskOf(q) ==
    CASE q.op = "visit" -> [kind |-> "visit", user |-> q.user, marked |-> q.marked]
      [] q.op = "authenticate" -> [kind |-> "proof", user |-> q.user, code |-> q.code]
      [] OTHER -> [kind |-> "none"]

Due(a, table) ==
    \/ a.kind = "visit" /\ (a.marked \/ ~table[a.user].enabled)
    \/ a.kind = "proof" /\ a.code = table[a.user].secret

Observe ==
    may' = [r \in Requests |-> LET a == AskOf(req'[r]) IN
                a.kind # "none" /\ (may[r] \/ Due(a, users'))]

Next == Step /\ Observe
Spec == Init /\ [][Next]_vars

-----------------------------------------------------------------------------
(* The second factor as SecondFactor has it: a visit gets past the guard   *)
(* only if, at some moment since it was sent, the factor was off or its    *)
(* token marked, and the mark is given only for a code of the secret that  *)
(* was stored at some moment since the code was sent.                      *)
Abstract == INSTANCE SecondFactor WITH
    factor <- [u \in Users |-> [secret |-> users[u].secret, enabled |-> users[u].enabled]],
    proven <- {u \in Users : [user |-> u, marked |-> TRUE] \in tokens},
    ask <- [r \in Requests |-> AskOf(req[r])],
    could <- may,
    inside <- {r \in Requests : pc[r] = "inside"}
ImplementsSecondFactor == Abstract!Spec

(* The step in which r writes the row it holds object c of.                *)
WritesFrom(r, c) ==
    \/ c = "doc" /\ (WriteSecret(r) \/ WriteBack(r))
    \/ c = "req" /\ WriteToggle(r)

(* The factor of a user is turned off by a toggle that says so, or by a    *)
(* handler that had read the row before somebody else wrote it: storing a  *)
(* secret, an activation and a reset write the flag back as they read it.  *)
FactorSticks ==
    [][\A u \in Users : users[u].enabled /\ ~users'[u].enabled =>
         \E r \in Requests :
            /\ req[r].op # "idle" /\ req[r].user = u
            /\ \/ WriteToggle(r) /\ req[r].op = "disable"
               \/ \E c \in overtaken[r] : WritesFrom(r, c)]_vars

(* A refresh does not look at the status of its user, so that a block is   *)
(* as good as the end of the user's sessions; and it is: a session of an   *)
(* account that is not active is opened by no request but a login that had *)
(* read the row before its status changed.                                 *)
NewSessionNeedsActive ==
    [][\A u \in sessions' \ sessions :
         users[u].active
         \/ \E r \in Requests :
               OpenSession(r) /\ req[r].user = u /\ "doc" \in overtaken[r]]_vars

(* A toggle that nobody overlaps leaves alone what it is not about: the    *)
(* status in both directions, and when it turns the factor off everything  *)
(* but the flag, so that the factor can be turned on again as it was.      *)
ToggleAlone ==
    [][\A r \in Requests : WriteToggle(r) /\ "req" \notin overtaken[r] =>
          LET old == users[req[r].user]
              new == users'[req[r].user] IN
          /\ new.active = old.active
          /\ req[r].op = "disable" => new = [old EXCEPT !.enabled = FALSE]]_vars

-----------------------------------------------------------------------------
(* The awaits a handler can be suspended in, and the objects it then holds.*)
AwaitOK(op, where) ==
    \/ op = "idle" /\ where = "idle"
    \/ op = "login" /\ where \in {"verify", "session", "reply"}
    \/ op = "refresh" /\ where \in {"resolve", "reply"}
    \/ op = "visit" /\ where \in {"guard", "check", "inside"}
    \/ op = "authenticate" /\ where \in {"guard", "check", "reply"}
    \/ op = "enable" /\ where \in {"guard", "check", "reload", "secret", "write"}
    \/ op = "disable" /\ where \in {"guard", "write"}
    \/ op \in {"activate", "reset"} /\ where \in {"find", "write"}
    \/ op = "update" /\ where = "column"

HoldsReq(op, where) ==
    \/ where \in {"check", "reload", "secret"}
    \/ where = "write" /\ op \in {"enable", "disable"}
HoldsDoc(op, where) ==
    \/ where \in {"session", "secret"}
    \/ where = "write" /\ op \in {"activate", "reset"}

HoldingsOf(r) ==
    /\ AwaitOK(req[r].op, pc[r])
    /\ copy[r].req # NoRow <=> HoldsReq(req[r].op, pc[r])
    /\ copy[r].doc # NoRow <=> HoldsDoc(req[r].op, pc[r])
    /\ \A c \in overtaken[r] : copy[r][c] # NoRow
    /\ "doc" \in overtaken[r] /\ copy[r].req # NoRow => "req" \in overtaken[r]
    /\ pc[r] = "session" => copy[r].doc.active

(* What the row is, as far as r knows from object c.                       *)
Known(r, c) ==
    IF pc[r] = "write" /\ req[r].op = "enable"
    THEN [copy[r][c] EXCEPT !.secret = fresh[r].secret, !.until = fresh[r].until]
    ELSE copy[r][c]

(* The inductive invariant under the action properties: an object that     *)
(* nobody overtook still says what the row is, its own secret aside.       *)
FactorInvariant ==
    \A r \in Requests :
        /\ HoldingsOf(r)
        /\ \A c \in Copies : copy[r][c] # NoRow /\ c \notin overtaken[r] =>
                RowOf(r) = Known(r, c)

-----------------------------------------------------------------------------
(* What the documentation says and the code does not do.                   *)

(* "add one minute throttle to generate next two factor token": the date   *)
(* stored with a new secret outlasts the toggle that asked for the secret. *)
(* (The request ends by writing back the row its guard had read.)          *)
ThrottleOutlivesToggle ==
    [][\A r \in Requests :
         WriteToggle(r) /\ req[r].op = "enable" /\ "req" \notin overtaken[r] =>
            users'[req[r].user].until = users[req[r].user].until]_vars
=============================================================================
