--------------------------- MODULE RefreshTokens ---------------------------
(***************************************************************************)
(* Sessions: the tokens table (one row for each refresh token), the four   *)
(* handlers that use it (login with `remember', refresh, logout, revoke by *)
(* id) and the list of active tokens, together with the cookies browsers   *)
(* hold.  A handler is a chain of awaited calls, one step each; its answer *)
(* travels to the browser in a step of its own, so answers overtake one    *)
(* another and may be lost, and only an answer that arrives changes the    *)
(* cookies.                                                                *)
(*                                                                         *)
(* A login starts here where its password was accepted.  The two ways a    *)
(* refresh token ends are the column isRevoked and the age of the JWT that *)
(* carries its id; the column `expires' is written and never read.  Access *)
(* tokens are represented by their owner; that one grew too old shows as a *)
(* refusal of the guard, which is one of the outcomes of a call that fails.*)
(***************************************************************************)
EXTENDS Naturals

CONSTANTS
    Users, Tokens,      \* ids: accounts, rows of the tokens table
    Browsers, Requests, \* cookie jars, requests in flight at one time
    NoUser, NoToken, NoRow

ASSUME NullAssumption == NoUser \notin Users /\ NoToken \notin Tokens

VARIABLES
    tokens,     \* tokens[t]: the row, or NoRow
    expired,    \* the ids whose JWT is too old
    jar,        \* jar[b]: the owner in the cookie Authentication, the id in Refresh
    req,        \* req[r]: what r asks for, the cookies it carried
    pc,         \* pc[r]: the await r is suspended in, "reply" when answered
    reply,      \* reply[r]: the Set-Cookie headers of r's answer
    wasOpen,    \* wasOpen[r]: the session r carried was open when r began (for properties)
    answer      \* answer[r]: what r was told, "none" before

vars == <<tokens, expired, jar, req, pc, reply, wasOpen, answer>>

Row == [user : Users, isRevoked : BOOLEAN]
ASSUME NoRowAssumption == NoRow \notin Row

Jar == [auth : Users \cup {NoUser}, refresh : Tokens \cup {NoToken}]
EmptyJar == [auth |-> NoUser, refresh |-> NoToken]

(* Set-Cookie: nothing, a cookie of each name (buildResponsePayload), or   *)
(* all of them emptied (getCookieForLogOut).                               *)
Keep == [kind |-> "keep"]
Clear == [kind |-> "clear"]
SetAuth(u) == [kind |-> "auth", user |-> u]
SetBoth(u, t) == [kind |-> "both", user |-> u, token |-> t]
Reply == {Keep, Clear} \cup {SetAuth(u) : u \in Users}
            \cup {SetBoth(u, t) : u \in Users, t \in Tokens}

(* For a login `user' is who logs in; for the others it is the owner of    *)
(* the access token.  `token' is the refresh token the request is about:   *)
(* the one its cookie carried, the one its path names, or the one issued.  *)
NoRequest == [op |-> "idle", browser |-> "none", user |-> NoUser, token |-> NoToken,
              remember |-> FALSE]
Ops == {"login", "refresh", "logout", "revoke", "list"}
Req == [op : Ops, browser : Browsers, user : Users \cup {NoUser},
        token : Tokens \cup {NoToken}, remember : BOOLEAN]
Pcs == {"idle", "issue", "forget", "decode", "row", "user", "byId", "write", "list", "reply"}

TypeOK ==
    /\ tokens \in [Tokens -> Row \cup {NoRow}]
    /\ expired \subseteq Tokens
    /\ jar \in [Browsers -> Jar]
    /\ req \in [Requests -> Req \cup {NoRequest}]
    /\ pc \in [Requests -> Pcs]
    /\ reply \in [Requests -> Reply]
    /\ wasOpen \in [Requests -> BOOLEAN]
    /\ answer \in [Requests -> {"none", "granted", "denied", "done", "swallowed",
                                 "refused", "failed"}]

Init ==
    /\ tokens = [t \in Tokens |-> NoRow]
    /\ expired = {}
    /\ jar = [b \in Browsers |-> EmptyJar]
    /\ req = [r \in Requests |-> NoRequest]
    /\ pc = [r \in Requests |-> "idle"]
    /\ reply = [r \in Requests |-> Keep]
    /\ wasOpen = [r \in Requests |-> FALSE]
    /\ answer = [r \in Requests |-> "none"]

-----------------------------------------------------------------------------
Exists(t) == tokens[t] # NoRow
IsOpen(t) == t # NoToken /\ Exists(t) /\ ~tokens[t].isRevoked /\ t \notin expired

Await(r, where) ==
    /\ pc' = [pc EXCEPT ![r] = where]
    /\ UNCHANGED <<jar, reply, wasOpen, answer>>

Send(r, how, headers) ==
    /\ pc' = [pc EXCEPT ![r] = "reply"]
    /\ answer' = [answer EXCEPT ![r] = how]
    /\ reply' = [reply EXCEPT ![r] = headers]
    /\ UNCHANGED <<jar, wasOpen>>

(* How a handler ends when a call of it rejects: login and revoke pass the *)
(* error on, refresh empties the cookies, logout says 204 all the same     *)
(* ("swallowed": the browser cannot tell it from "done").                  *)
SendFailure(r) ==
    LET op == req[r].op IN
    \/ op \in {"login", "revoke", "list"} /\ Send(r, "failed", Keep)
    \/ op = "refresh" /\ Send(r, "denied", Clear)
    \/ op = "logout" /\ Send(r, "swallowed", Clear)

Begin(r, i, where) ==
    /\ pc[r] = "idle"
    /\ req' = [req EXCEPT ![r] = i]
    /\ pc' = [pc EXCEPT ![r] = where]
    /\ wasOpen' = [wasOpen EXCEPT ![r] = IsOpen(i.token)]
    /\ answer' = [answer EXCEPT ![r] = "none"]
    /\ UNCHANGED <<tokens, expired, jar, reply>>

-----------------------------------------------------------------------------
(* login, from the accepted password on                                    *)
BeginLogin(r) ==
    \E b \in Browsers, u \in Users, remember \in BOOLEAN :
        Begin(r, [op |-> "login", browser |-> b, user |-> u, token |-> NoToken,
                  remember |-> remember],
              IF remember THEN "issue" ELSE "forget")

(* generateRefreshToken.  The reply of the database may be lost.           *)
IssueRefreshToken(r) ==
    /\ pc[r] = "issue"
    /\ \E t \in Tokens :
          /\ ~Exists(t)
          /\ tokens' = [tokens EXCEPT ![t] = [user |-> req[r].user, isRevoked |-> FALSE]]
          /\ req' = [req EXCEPT ![r].token = t]
    /\ Await(r, "forget") \/ Send(r, "failed", Keep)
    /\ UNCHANGED expired

(* rateLimiter.delete is the last await: when it rejects, the row is there *)
(* and its token is given to nobody (see CallFails).  (Mutation: the       *)
(* cookie Refresh is set without `remember' too.)                          *)
ForgetAttemptsBoth(r) ==
    /\ pc[r] = "forget"
    /\ Send(r, "done", SetBoth(req[r].user, req[r].token))
    /\ UNCHANGED <<tokens, expired, req>>
ForgetAttempts(r) ==
    /\ pc[r] = "forget"
    /\ Send(r, "done", IF req[r].remember THEN SetBoth(req[r].user, req[r].token)
                       ELSE SetAuth(req[r].user))
    /\ UNCHANGED <<tokens, expired, req>>

-----------------------------------------------------------------------------
(* refresh and logout: resolveRefreshToken on the cookie                   *)
WithCookies(op, b) ==
    [op |-> op, browser |-> b, user |-> jar[b].auth, token |-> jar[b].refresh,
     remember |-> FALSE]

BeginRefresh(r) ==
    \E b \in Browsers : Begin(r, WithCookies("refresh", b), "decode")

BeginLogout(r) ==
    \E b \in Browsers :
        jar[b].refresh # NoToken /\ Begin(r, WithCookies("logout", b), "decode")

(* Without the cookie logout only empties the jar.                         *)
LogoutWithoutCookie(r) ==
    /\ pc[r] = "idle"
    /\ \E b \in Browsers :
          /\ jar[b].refresh = NoToken
          /\ req' = [req EXCEPT ![r] = WithCookies("logout", b)]
    /\ Send(r, "done", Clear)
    /\ UNCHANGED <<tokens, expired>>

(* decodeRefreshToken: the signature and the age of the JWT.  (Mutation:   *)
(* the age is ignored.)                                                    *)
DecodeAnyAge(r) ==
    /\ pc[r] = "decode"
    /\ req[r].token # NoToken
    /\ Await(r, "row")
    /\ UNCHANGED <<tokens, expired, req>>
Decode(r) ==
    /\ pc[r] = "decode"
    /\ req[r].token # NoToken
    /\ req[r].token \notin expired
    /\ Await(r, "row")
    /\ UNCHANGED <<tokens, expired, req>>

DecodeRefuses(r) ==
    /\ pc[r] = "decode"
    /\ req[r].token = NoToken \/ req[r].token \in expired
    /\ SendFailure(r)
    /\ UNCHANGED <<tokens, expired, req>>

(* getStoredTokenFromRefreshTokenPayload and the check of isRevoked.       *)
(* (Mutation: no check.)                                                   *)
ReadRowUnchecked(r) ==
    /\ pc[r] = "row"
    /\ Await(r, "user")
    /\ UNCHANGED <<tokens, expired, req>>
ReadRow(r) ==
    /\ pc[r] = "row"
    /\ Exists(req[r].token)
    /\ ~tokens[req[r].token].isRevoked
    /\ Await(r, "user")
    /\ UNCHANGED <<tokens, expired, req>>

RefuseRevoked(r) ==
    /\ pc[r] = "row"
    /\ Exists(req[r].token) => tokens[req[r].token].isRevoked
    /\ SendFailure(r)
    /\ UNCHANGED <<tokens, expired, req>>

(* getUserFromRefreshTokenPayload; then a new access token is signed, for  *)
(* the owner of the session, without the mark of a second factor; or the   *)
(* row is written (revokeRefreshToken).  (Mutation: signed for the owner   *)
(* of the old access token.)                                               *)
ReadUserOfAccess(r) ==
    /\ pc[r] = "user"
    /\ \/ /\ req[r].op = "refresh"
          /\ Send(r, "granted", SetAuth(req[r].user))
       \/ /\ req[r].op = "logout"
          /\ Await(r, "write")
    /\ UNCHANGED <<tokens, expired, req>>
ReadUser(r) ==
    /\ pc[r] = "user"
    /\ \/ /\ req[r].op = "refresh"
          /\ Send(r, "granted", SetAuth(tokens[req[r].token].user))
       \/ /\ req[r].op = "logout"
          /\ Await(r, "write")
    /\ UNCHANGED <<tokens, expired, req>>

-----------------------------------------------------------------------------
(* PUT /revoke/:id and GET /auth/token-info, for the owner of the access   *)
(* token                                                                   *)
BeginById(r) ==
    \E b \in Browsers, t \in Tokens :
        /\ jar[b].auth # NoUser
        /\ \/ Begin(r, [WithCookies("revoke", b) EXCEPT !.token = t], "byId")
           \/ Begin(r, WithCookies("list", b), "list")

(* (Mutation: anybody's token.)                                            *)
ReadAnyById(r) ==
    /\ pc[r] = "byId"
    /\ Exists(req[r].token)
    /\ Await(r, "write")
    /\ UNCHANGED <<tokens, expired, req>>
ReadById(r) ==
    /\ pc[r] = "byId"
    /\ Exists(req[r].token)
    /\ tokens[req[r].token].user = req[r].user
    /\ Await(r, "write")
    /\ UNCHANGED <<tokens, expired, req>>

RefuseById(r) ==
    /\ pc[r] = "byId"
    /\ Exists(req[r].token) => tokens[req[r].token].user # req[r].user
    /\ Send(r, "refused", Keep)
    /\ UNCHANGED <<tokens, expired, req>>

(* The row is written back as it was read, revoked; no other column of a   *)
(* row ever changes.  The reply of the database may be lost.  (Mutation:   *)
(* isRevoked is left as it was.)                                           *)
SendRevoked(r) ==
    \/ SendFailure(r)
    \/ req[r].op = "revoke" /\ Send(r, "done", Keep)
    \/ req[r].op = "logout" /\ Send(r, "done", Clear)

WriteRevokedUnset(r) ==
    /\ pc[r] = "write"
    /\ SendRevoked(r)
    /\ UNCHANGED <<tokens, expired, req>>
WriteRevoked(r) ==
    /\ pc[r] = "write"
    /\ tokens' = [tokens EXCEPT ![req[r].token].isRevoked = TRUE]
    /\ SendRevoked(r)
    /\ UNCHANGED <<expired, req>>

(* getRefreshTokenByUserId filters on a column named after the user's id:  *)
(* the query is rejected, findAndCount catches that, and the answer is a   *)
(* page without results ("refused" here).                                  *)
ListTokens(r) ==
    /\ pc[r] = "list"
    /\ Send(r, "refused", Keep)
    /\ UNCHANGED <<tokens, expired, req>>

-----------------------------------------------------------------------------
(* A call rejects without effect.                                          *)
CallFails(r) ==
    /\ pc[r] \notin {"idle", "reply"}
    /\ SendFailure(r)
    /\ UNCHANGED <<tokens, expired, req>>

Jarred(j, headers) ==
    IF headers.kind = "keep" THEN j
    ELSE IF headers.kind = "clear" THEN EmptyJar
    ELSE IF headers.kind = "auth" THEN [j EXCEPT !.auth = headers.user]
    ELSE [auth |-> headers.user, refresh |-> headers.token]

End(r) ==
    /\ pc' = [pc EXCEPT ![r] = "idle"]
    /\ req' = [req EXCEPT ![r] = NoRequest]
    /\ reply' = [reply EXCEPT ![r] = Keep]
    /\ UNCHANGED <<tokens, expired, wasOpen, answer>>

(* The answer arrives, or is lost.                                         *)
Deliver(r) ==
    /\ pc[r] = "reply"
    /\ jar' = [jar EXCEPT ![req[r].browser] = Jarred(@, reply[r])]
    /\ End(r)

Lose(r) ==
    /\ pc[r] = "reply"
    /\ UNCHANGED jar
    /\ End(r)

Expire(t) ==
    /\ Exists(t)
    /\ t \notin expired
    /\ expired' = expired \cup {t}
    /\ UNCHANGED <<tokens, jar, req, pc, reply, wasOpen, answer>>

Step(r) ==
    \/ BeginLogin(r) \/ IssueRefreshToken(r) \/ ForgetAttempts(r)
    \/ BeginRefresh(r) \/ BeginLogout(r) \/ LogoutWithoutCookie(r)
    \/ Decode(r) \/ DecodeRefuses(r) \/ ReadRow(r) \/ RefuseRevoked(r) \/ ReadUser(r)
    \/ BeginById(r) \/ ReadById(r) \/ RefuseById(r) \/ WriteRevoked(r) \/ ListTokens(r)
    \/ CallFails(r) \/ Deliver(r) \/ Lose(r)

Next == (\E r \in Requests : Step(r)) \/ (\E t \in Tokens : Expire(t))

Spec == Init /\ [][Next]_vars

-----------------------------------------------------------------------------
(* Properties *)

(* The table implements sessions: closed for good, and a refresh granted   *)
(* only if its session was open when the refresh began.                    *)
Refreshing(r) == req[r].op = "refresh" /\ pc[r] \in {"decode", "row", "user"}

StateOf == [t \in Tokens |->
    IF ~Exists(t) THEN "none" ELSE IF IsOpen(t) THEN "open" ELSE "closed"]

AskOf == [r \in Requests |->
    IF Refreshing(r)
    THEN [token |-> req[r].token, open |-> wasOpen[r], pending |-> TRUE]
    ELSE [token |-> NoToken, open |-> FALSE, pending |-> FALSE]]

VerdictOf == [r \in Requests |->
    IF answer[r] \in {"granted", "denied"} THEN answer[r] ELSE "none"]

Promise == INSTANCE Sessions WITH
    session <- StateOf, ask <- AskOf, verdict <- VerdictOf

SessionsSpec == Promise!Spec

(* A logout closes its session, whatever else works on the session; one    *)
(* that ended in an error leaves it open only if a call failed.            *)
LogoutCloses ==
    [][\A r \in Requests :
         /\ req[r].op = "logout" /\ pc[r] # "reply" /\ pc'[r] = "reply"
         /\ IsOpen(req[r].token)'
         => answer'[r] = "swallowed" /\ CallFails(r)]_vars

(* Whoever revokes a token holds it in the cookie or is its owner; nobody  *)
(* else's request, however it overlaps, ends another's session.            *)
OwnerRevokes ==
    [][\A t \in Tokens :
         Exists(t) /\ ~tokens[t].isRevoked /\ tokens'[t].isRevoked =>
            \E r \in Requests :
                /\ pc[r] = "write" /\ req[r].token = t
                /\ req[r].op = "logout" \/ req[r].user = tokens[t].user]_vars

(* A browser is let in again by a login, or by a refresh that began while  *)
(* its session was open: once a logout has closed the session and its      *)
(* answer arrived, only an answer that was already on its way can undo it. *)
LetInAgain ==
    [][\A b \in Browsers :
         jar[b].auth = NoUser /\ jar'[b].auth # NoUser =>
            \E r \in Requests :
                /\ pc[r] = "reply" /\ req[r].browser = b
                /\ \/ req[r].op = "login"
                   \/ req[r].op = "refresh" /\ wasOpen[r]]_vars

(* The two cookies of a browser name the same account, until a login       *)
(* without `remember' leaves the old cookie Refresh in place, or the       *)
(* answer to a refresh arrives after the cookie Refresh changed.           *)
Agree(b) ==
    jar[b].auth = NoUser \/ jar[b].refresh = NoToken
        \/ tokens[jar[b].refresh].user = jar[b].auth

CookiesAgree ==
    [][\A b \in Browsers : Agree(b) /\ ~Agree(b)' =>
         \E r \in Requests :
            /\ pc[r] = "reply" /\ req[r].browser = b
            /\ \/ req[r].op = "login" /\ ~req[r].remember
               \/ req[r].op = "refresh" /\ req[r].token # jar[b].refresh]_vars

-----------------------------------------------------------------------------
(* What a handler knows in each of its awaits, while the others run.       *)
StageOK(op, where) ==
    \/ op = "idle" /\ where = "idle"
    \/ op = "login" /\ where \in {"issue", "forget", "reply"}
    \/ op = "refresh" /\ where \in {"decode", "row", "user", "reply"}
    \/ op = "logout" /\ where \in {"decode", "row", "user", "write", "reply"}
    \/ op = "revoke" /\ where \in {"byId", "write", "reply"}
    \/ op = "list" /\ where \in {"list", "reply"}

HeldOK(r) ==
    LET op == req[r].op
        t == req[r].token IN
    /\ op # "revoke" /\ t # NoToken => Exists(t)
    /\ pc[r] \in {"byId", "row", "user", "write"} => t # NoToken
    /\ pc[r] \in {"user", "write"} => Exists(t)
    /\ pc[r] = "issue" => req[r].remember
    /\ op = "login" => /\ req[r].user \in Users
                       /\ t # NoToken => tokens[t].user = req[r].user
                       /\ pc[r] = "forget" /\ req[r].remember => t # NoToken
    /\ op = "revoke" /\ pc[r] = "write" => tokens[t].user = req[r].user

(* A refresh whose session was closed when it began can get past the age   *)
(* of its JWT only because the row is revoked, and no further.             *)
RefreshOK(r) ==
    req[r].op = "refresh" /\ ~wasOpen[r] =>
        /\ pc[r] = "decode" => ~IsOpen(req[r].token)
        /\ pc[r] = "row" => tokens[req[r].token].isRevoked
        /\ pc[r] # "user"

ReplyOK(r) ==
    LET op == req[r].op
        t == req[r].token IN
    /\ pc[r] # "reply" => reply[r] = Keep
    /\ reply[r].kind = "auth" =>
          \/ op = "login" /\ ~req[r].remember
          \/ op = "refresh" /\ wasOpen[r] /\ t # NoToken /\ reply[r].user = tokens[t].user
    /\ reply[r].kind = "both" =>
          op = "login" /\ t # NoToken /\ reply[r].token = t /\ reply[r].user = tokens[t].user

(* The inductive invariant under the properties above.                     *)
SessionInvariant ==
    /\ \A r \in Requests :
          StageOK(req[r].op, pc[r]) /\ HeldOK(r) /\ RefreshOK(r) /\ ReplyOK(r)
    /\ \A b \in Browsers : jar[b].refresh # NoToken => Exists(jar[b].refresh)
    /\ \A t \in expired : Exists(t)
=============================================================================
