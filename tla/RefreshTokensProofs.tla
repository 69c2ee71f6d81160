------------------------ MODULE RefreshTokensProofs ------------------------
(***************************************************************************)
(* Sessions and cookies for any number of users, tokens, browsers and      *)
(* requests.                                                               *)
(***************************************************************************)
EXTENDS RefreshTokens, TLAPS

USE NullAssumption, NoRowAssumption

Answers == {"none", "granted", "denied", "done", "swallowed", "refused", "failed"}

LEMMA ReplyFields ==
    ASSUME NEW h \in Reply
    PROVE  /\ h.kind \in {"keep", "clear", "auth", "both"}
           /\ h.kind = "auth" => h.user \in Users
           /\ h.kind = "both" => h.user \in Users /\ h.token \in Tokens
BY DEF Reply, Keep, Clear, SetAuth, SetBoth

LEMMA ReplyKinds ==
    /\ Keep \in Reply /\ Clear \in Reply
    /\ \A u \in Users : SetAuth(u) \in Reply
    /\ \A u \in Users, t \in Tokens : SetBoth(u, t) \in Reply
BY DEF Reply

LEMMA RequestFields ==
    ASSUME TypeOK, NEW r \in Requests
    PROVE  /\ req[r] \in Req \cup {NoRequest}
           /\ req[r].user \in Users \cup {NoUser}
           /\ req[r].token \in Tokens \cup {NoToken}
           /\ req[r].op # "idle" => req[r] \in Req /\ req[r].browser \in Browsers
           /\ req[r].op \in Ops \cup {"idle"}
BY DEF TypeOK, Req, NoRequest

LEMMA SendTypes ==
    ASSUME TypeOK, NEW r \in Requests, NEW how \in Answers, NEW h \in Reply, Send(r, how, h)
    PROVE  /\ pc' \in [Requests -> Pcs] /\ reply' \in [Requests -> Reply]
           /\ answer' \in [Requests -> Answers]
           /\ wasOpen' \in [Requests -> BOOLEAN] /\ jar' \in [Browsers -> Jar]
BY DEF TypeOK, Send, Pcs, Answers

LEMMA FailureTypes ==
    ASSUME TypeOK, NEW r \in Requests, SendFailure(r)
    PROVE  \E how \in Answers, h \in {Keep, Clear} : Send(r, how, h)
BY DEF SendFailure, Answers

LEMMA AwaitTypes ==
    ASSUME TypeOK, NEW r \in Requests, NEW where \in Pcs, Await(r, where)
    PROVE  /\ pc' \in [Requests -> Pcs] /\ reply' \in [Requests -> Reply]
           /\ answer' \in [Requests -> Answers]
           /\ wasOpen' \in [Requests -> BOOLEAN] /\ jar' \in [Browsers -> Jar]
BY DEF TypeOK, Await, Answers

LEMMA BeginTypes ==
    ASSUME TypeOK, NEW r \in Requests, NEW i \in Req, NEW where \in Pcs, Begin(r, i, where)
    PROVE  TypeOK'
<1>1. IsOpen(i.token) \in BOOLEAN
  BY DEF IsOpen
<1>2. /\ req' \in [Requests -> Req \cup {NoRequest}] /\ pc' \in [Requests -> Pcs]
      /\ wasOpen' \in [Requests -> BOOLEAN]
  BY <1>1 DEF TypeOK, Begin
<1> QED
  BY <1>2 DEF TypeOK, Begin

(* The inputs of a request are what its browser holds.                     *)
LEMMA BeginsInput ==
    ASSUME TypeOK, NEW r \in Requests,
           BeginLogin(r) \/ BeginRefresh(r) \/ BeginLogout(r) \/ BeginById(r)
    PROVE  \E i \in Req, where \in {"issue", "forget", "decode", "byId", "list"} :
              /\ Begin(r, i, where) /\ StageOK(i.op, where)
              /\ i.op = "login" => /\ i.user \in Users /\ i.token = NoToken
                                   /\ where = "issue" <=> i.remember
              /\ i.op = "revoke" => i.token # NoToken
              /\ i.op \in {"refresh", "logout", "list"} =>
                    \E b \in Browsers : i.token = jar[b].refresh
<1>1. CASE BeginLogin(r)
  <2>1. PICK b \in Browsers, u \in Users, remember \in BOOLEAN :
          Begin(r, [op |-> "login", browser |-> b, user |-> u, token |-> NoToken,
                    remember |-> remember],
                IF remember THEN "issue" ELSE "forget")
    BY <1>1 DEF BeginLogin
  <2> DEFINE i == [op |-> "login", browser |-> b, user |-> u, token |-> NoToken,
                   remember |-> remember]
             w == IF remember THEN "issue" ELSE "forget"
  <2>2. i \in Req
    BY DEF Req, Ops
  <2>3. w \in {"issue", "forget", "decode", "byId", "list"} /\ StageOK(i.op, w)
    BY DEF StageOK
  <2>4. i.op = "login" /\ i.user \in Users /\ i.token = NoToken /\ (w = "issue" <=> i.remember)
    OBVIOUS
  <2> HIDE DEF i, w
  <2>5. Begin(r, i, w)
    BY <2>1 DEF i, w
  <2> QED
    BY <2>2, <2>3, <2>4, <2>5
<1>2. ASSUME NEW b \in Browsers, NEW op \in {"refresh", "logout", "revoke", "list"}
      PROVE  /\ WithCookies(op, b) \in Req /\ WithCookies(op, b).op = op
             /\ WithCookies(op, b).token = jar[b].refresh
             /\ \A t \in Tokens :
                  [WithCookies(op, b) EXCEPT !.token = t] \in Req
                  /\ [WithCookies(op, b) EXCEPT !.token = t].op = op
                  /\ [WithCookies(op, b) EXCEPT !.token = t].token = t
  BY <1>2 DEF WithCookies, Req, Ops, TypeOK, Jar
<1>3. CASE BeginRefresh(r)
  BY <1>2, <1>3 DEF BeginRefresh, StageOK
<1>4. CASE BeginLogout(r)
  BY <1>2, <1>4 DEF BeginLogout, StageOK
<1>5. CASE BeginById(r)
  <2>1. PICK b \in Browsers, t \in Tokens :
          \/ Begin(r, [WithCookies("revoke", b) EXCEPT !.token = t], "byId")
          \/ Begin(r, WithCookies("list", b), "list")
    BY <1>5 DEF BeginById
  <2>2. CASE Begin(r, WithCookies("list", b), "list")
    BY <1>2, <2>2 DEF StageOK
  <2>3. CASE Begin(r, [WithCookies("revoke", b) EXCEPT !.token = t], "byId")
    <3>1. StageOK("revoke", "byId")
      BY DEF StageOK
    <3> DEFINE i == [WithCookies("revoke", b) EXCEPT !.token = t]
    <3>2. i \in Req /\ i.op = "revoke" /\ i.token # NoToken
      BY <1>2
    <3>3. Begin(r, i, "byId")
      BY <2>3
    <3> HIDE DEF i
    <3> QED
      BY <3>1, <3>2, <3>3
  <2> QED
    BY <2>1, <2>2, <2>3
<1> QED
  BY <1>1, <1>3, <1>4, <1>5

-----------------------------------------------------------------------------
(* The steps of a handler, by what they do.                                *)
KnowsOf(r) == StageOK(req[r].op, pc[r]) /\ HeldOK(r) /\ RefreshOK(r) /\ ReplyOK(r)

Base == TypeOK /\ SessionInvariant

Waits(r) == Decode(r) \/ ReadRow(r) \/ ReadById(r)

(* Answers sent without a change of the table.                             *)
Answering(r) ==
    \/ ForgetAttempts(r) \/ DecodeRefuses(r) \/ RefuseRevoked(r) \/ RefuseById(r)
    \/ ListTokens(r) \/ CallFails(r)

LEMMA StepCases ==
    ASSUME NEW r \in Requests, Step(r)
    PROVE  \/ BeginLogin(r) \/ BeginRefresh(r) \/ BeginLogout(r) \/ BeginById(r)
           \/ IssueRefreshToken(r) \/ LogoutWithoutCookie(r) \/ ReadUser(r)
           \/ WriteRevoked(r) \/ Waits(r) \/ Answering(r) \/ Deliver(r) \/ Lose(r)
BY DEF Step, Waits, Answering

LEMMA WaitsAwait ==
    ASSUME NEW r \in Requests, Waits(r)
    PROVE  /\ \E where \in {"row", "user", "write"} : Await(r, where)
           /\ UNCHANGED <<tokens, expired, req>>
BY DEF Waits, Decode, ReadRow, ReadById

LEMMA AnsweringSends ==
    ASSUME Base, NEW r \in Requests, Answering(r)
    PROVE  /\ \E how \in Answers, h \in Reply : Send(r, how, h)
           /\ UNCHANGED <<tokens, expired, req>>
<1>1. CASE ForgetAttempts(r)
  <2>1. /\ req[r].op = "login" /\ req[r].user \in Users
        /\ req[r].remember => req[r].token \in Tokens
    BY <1>1, RequestFields DEF ForgetAttempts, Base, SessionInvariant, StageOK, HeldOK
  <2>2. (IF req[r].remember THEN SetBoth(req[r].user, req[r].token)
         ELSE SetAuth(req[r].user)) \in Reply
    BY <2>1, ReplyKinds
  <2> QED
    BY <1>1, <2>2 DEF ForgetAttempts, Answers
<1>2. CASE DecodeRefuses(r) \/ RefuseRevoked(r) \/ CallFails(r)
  BY <1>2, FailureTypes, ReplyKinds DEF DecodeRefuses, RefuseRevoked, CallFails, Base
<1>3. CASE RefuseById(r) \/ ListTokens(r)
  BY <1>3, ReplyKinds DEF RefuseById, ListTokens, Answers
<1> QED
  BY <1>1, <1>2, <1>3 DEF Answering

(* Which row a revocation writes, and how it is answered.                  *)
LEMMA RevokesRow ==
    ASSUME Base, NEW r \in Requests, WriteRevoked(r)
    PROVE  /\ req[r].token \in Tokens /\ Exists(req[r].token) /\ tokens[req[r].token] \in Row
           /\ tokens' = [tokens EXCEPT ![req[r].token] = [tokens[req[r].token] EXCEPT !.isRevoked = TRUE]]
           /\ \E how \in Answers, h \in {Keep, Clear} : Send(r, how, h)
           /\ req[r].op \in {"logout", "revoke"} /\ pc[r] = "write"
           /\ UNCHANGED <<expired, req>>
<1>1. /\ pc[r] = "write" /\ req[r].token \in Tokens /\ Exists(req[r].token)
      /\ req[r].op \in {"logout", "revoke"}
  BY RequestFields DEF WriteRevoked, Base, SessionInvariant, StageOK, HeldOK
<1>2. tokens[req[r].token] \in Row
  BY <1>1 DEF Exists, Base, TypeOK
<1>3. \E how \in Answers, h \in {Keep, Clear} : Send(r, how, h)
  BY FailureTypes DEF WriteRevoked, SendRevoked, Answers, Base
<1> QED
  BY <1>1, <1>2, <1>3 DEF WriteRevoked

LEMMA IssuesRow ==
    ASSUME Base, NEW r \in Requests, IssueRefreshToken(r)
    PROVE  \E t \in Tokens :
              /\ ~Exists(t) /\ req[r].op = "login" /\ req[r].user \in Users /\ req[r].remember
              /\ tokens' = [tokens EXCEPT ![t] = [user |-> req[r].user, isRevoked |-> FALSE]]
              /\ req' = [req EXCEPT ![r].token = t]
              /\ req' = [req EXCEPT ![r] = [req[r] EXCEPT !.token = t]]
              /\ [req[r] EXCEPT !.token = t] \in Req
              /\ Await(r, "forget") \/ Send(r, "failed", Keep)
              /\ UNCHANGED expired
<1>1. /\ pc[r] = "issue" /\ req[r].op = "login" /\ req[r].user \in Users /\ req[r].remember
      /\ req[r] \in Req
  BY RequestFields DEF IssueRefreshToken, Base, SessionInvariant, StageOK, HeldOK
<1>2. \A t \in Tokens : [req[r] EXCEPT !.token = t] \in Req
  BY <1>1 DEF Req
<1> QED
  BY <1>1, <1>2 DEF IssueRefreshToken, Base, TypeOK

LEMMA ReadsUser ==
    ASSUME Base, NEW r \in Requests, ReadUser(r)
    PROVE  /\ pc[r] = "user" /\ req[r].token \in Tokens /\ Exists(req[r].token)
           /\ tokens[req[r].token] \in Row /\ tokens[req[r].token].user \in Users
           /\ UNCHANGED <<tokens, expired, req>>
           /\ \/ /\ req[r].op = "refresh" /\ wasOpen[r]
                 /\ Send(r, "granted", SetAuth(tokens[req[r].token].user))
              \/ req[r].op = "logout" /\ Await(r, "write")
<1>1. pc[r] = "user" /\ req[r].token \in Tokens /\ Exists(req[r].token)
  BY RequestFields DEF ReadUser, Base, SessionInvariant, HeldOK
<1>2. tokens[req[r].token] \in Row
  BY <1>1 DEF Exists, Base, TypeOK
<1>3. tokens[req[r].token].user \in Users
  BY <1>2 DEF Row
<1>4. req[r].op = "refresh" => wasOpen[r]
  BY <1>1 DEF Base, SessionInvariant, RefreshOK
<1> QED
  BY <1>1, <1>2, <1>3, <1>4 DEF ReadUser

LEMMA TypeStep == Base /\ [Next]_vars => TypeOK'
<1> SUFFICES ASSUME Base, [Next]_vars PROVE TypeOK'
  OBVIOUS
<1>0. TypeOK
  BY DEF Base
<1>1. ASSUME NEW r \in Requests,
             BeginLogin(r) \/ BeginRefresh(r) \/ BeginLogout(r) \/ BeginById(r)
      PROVE  TypeOK'
  <2>1. PICK i \in Req, where \in Pcs : Begin(r, i, where)
    BY <1>0, <1>1, BeginsInput DEF Pcs
  <2> QED
    BY <1>0, <2>1, BeginTypes
<1>2. ASSUME NEW r \in Requests, NEW how \in Answers, NEW h \in Reply, Send(r, how, h),
             tokens' \in [Tokens -> Row \cup {NoRow}], expired' = expired,
             req' \in [Requests -> Req \cup {NoRequest}]
      PROVE  TypeOK'
  BY <1>0, <1>2, SendTypes DEF TypeOK, Answers
<1>3. ASSUME NEW r \in Requests, NEW where \in Pcs, Await(r, where),
             tokens' \in [Tokens -> Row \cup {NoRow}], expired' = expired,
             req' \in [Requests -> Req \cup {NoRequest}]
      PROVE  TypeOK'
  BY <1>0, <1>3, AwaitTypes DEF TypeOK, Answers
<1>4. ASSUME UNCHANGED <<tokens, req>>
      PROVE  /\ tokens' \in [Tokens -> Row \cup {NoRow}]
             /\ req' \in [Requests -> Req \cup {NoRequest}]
  BY <1>0, <1>4 DEF TypeOK
<1>5. ASSUME NEW r \in Requests, IssueRefreshToken(r) PROVE TypeOK'
  <2>1. PICK t \in Tokens :
              /\ req[r].user \in Users
              /\ tokens' = [tokens EXCEPT ![t] = [user |-> req[r].user, isRevoked |-> FALSE]]
              /\ req' = [req EXCEPT ![r] = [req[r] EXCEPT !.token = t]]
              /\ [req[r] EXCEPT !.token = t] \in Req
              /\ Await(r, "forget") \/ Send(r, "failed", Keep)
              /\ UNCHANGED expired
    BY <1>5, IssuesRow
  <2>2. tokens' \in [Tokens -> Row \cup {NoRow}]
    <3>1. [user |-> req[r].user, isRevoked |-> FALSE] \in Row
      BY <2>1 DEF Row
    <3> QED
      BY <1>0, <2>1, <3>1 DEF TypeOK
  <2>3. req' \in [Requests -> Req \cup {NoRequest}]
    <3> DEFINE i == [req[r] EXCEPT !.token = t]
    <3>1. i \in Req /\ req' = [req EXCEPT ![r] = i]
      BY <2>1
    <3> HIDE DEF i
    <3> QED
      BY <1>0, <3>1 DEF TypeOK
  <2>4. "forget" \in Pcs /\ "failed" \in Answers /\ Keep \in Reply
    BY ReplyKinds DEF Pcs, Answers
  <2> QED
    BY <1>2, <1>3, <2>1, <2>2, <2>3, <2>4
<1>6. ASSUME NEW r \in Requests, LogoutWithoutCookie(r) PROVE TypeOK'
  <2>1. PICK b \in Browsers : req' = [req EXCEPT ![r] = WithCookies("logout", b)]
    BY <1>6 DEF LogoutWithoutCookie
  <2>2. WithCookies("logout", b) \in Req
    BY <1>0 DEF WithCookies, Req, Ops, TypeOK, Jar
  <2>3. req' \in [Requests -> Req \cup {NoRequest}]
    BY <1>0, <2>1, <2>2 DEF TypeOK
  <2>4. tokens' \in [Tokens -> Row \cup {NoRow}]
    BY <1>0, <1>6 DEF LogoutWithoutCookie, TypeOK
  <2> QED
    BY <1>2, <1>6, <2>3, <2>4, ReplyKinds DEF LogoutWithoutCookie, Answers
<1>7. ASSUME NEW r \in Requests, ReadUser(r) PROVE TypeOK'
  BY <1>2, <1>3, <1>4, <1>7, ReadsUser, ReplyKinds DEF Answers, Pcs
<1>8. ASSUME NEW r \in Requests, WriteRevoked(r) PROVE TypeOK'
  <2>1. PICK how \in Answers, h \in {Keep, Clear} : Send(r, how, h)
    BY <1>8, RevokesRow
  <2> DEFINE row == [tokens[req[r].token] EXCEPT !.isRevoked = TRUE]
  <2>2. /\ tokens' = [tokens EXCEPT ![req[r].token] = row] /\ tokens[req[r].token] \in Row
        /\ UNCHANGED <<expired, req>>
    BY <1>8, RevokesRow
  <2>3. row \in Row
    BY <2>2 DEF Row
  <2> HIDE DEF row
  <2>4. tokens' \in [Tokens -> Row \cup {NoRow}]
    BY <1>0, <2>2, <2>3 DEF TypeOK
  <2>5. req' \in [Requests -> Req \cup {NoRequest}]
    BY <1>0, <2>2 DEF TypeOK
  <2> QED
    BY <1>2, <2>1, <2>2, <2>4, <2>5, ReplyKinds
<1>9. ASSUME NEW r \in Requests, Waits(r) PROVE TypeOK'
  BY <1>3, <1>4, <1>9, WaitsAwait DEF Pcs
<1>10. ASSUME NEW r \in Requests, Answering(r) PROVE TypeOK'
  BY <1>2, <1>4, <1>10, AnsweringSends
<1>11. ASSUME NEW r \in Requests, Deliver(r) \/ Lose(r) PROVE TypeOK'
  <2>1. jar' \in [Browsers -> Jar]
    <3>1. CASE Lose(r)
      BY <1>0, <3>1 DEF Lose, TypeOK
    <3>2. CASE Deliver(r)
      <4>1. req[r].browser \in Browsers
        BY <3>2, RequestFields DEF Deliver, Base, SessionInvariant, StageOK
      <4>2. Jarred(jar[req[r].browser], reply[r]) \in Jar
        <5>1. jar[req[r].browser] \in Jar /\ reply[r] \in Reply
          BY <1>0, <4>1 DEF TypeOK
        <5> QED
          BY <5>1, ReplyFields DEF Jarred, Jar, EmptyJar
      <4>3. jar' = [jar EXCEPT ![req[r].browser] = Jarred(jar[req[r].browser], reply[r])]
        BY <3>2 DEF Deliver
      <4> QED
        BY <1>0, <4>1, <4>2, <4>3 DEF TypeOK
    <3> QED
      BY <1>11, <3>1, <3>2
  <2>2. End(r)
    BY <1>11 DEF Deliver, Lose
  <2> QED
    BY <1>0, <2>1, <2>2, ReplyKinds DEF End, TypeOK, Pcs
<1>12. ASSUME NEW t \in Tokens, Expire(t) PROVE TypeOK'
  BY <1>0, <1>12 DEF Expire, TypeOK
<1>13. CASE UNCHANGED vars
  BY <1>0, <1>13 DEF vars, TypeOK
<1> QED
  BY <1>1, <1>5, <1>6, <1>7, <1>8, <1>9, <1>10, <1>11, <1>12, <1>13, StepCases DEF Next

-----------------------------------------------------------------------------
(* Rows are created and revoked, and nothing else happens to them.         *)
TableGrows ==
    /\ \A t \in Tokens : Exists(t) =>
          /\ Exists(t)' /\ tokens'[t].user = tokens[t].user
          /\ tokens[t].isRevoked => tokens'[t].isRevoked
    /\ expired \subseteq expired'

LEMMA TableOnlyGrows ==
    ASSUME Base, [Next]_vars
    PROVE  TableGrows
<1> USE DEF Base, TypeOK
<1>1. ASSUME UNCHANGED <<tokens, expired>> PROVE TableGrows
  BY <1>1 DEF TableGrows, Exists
<1>2. ASSUME NEW r \in Requests, IssueRefreshToken(r) PROVE TableGrows
  <2>1. PICK t \in Tokens :
          /\ ~Exists(t) /\ UNCHANGED expired
          /\ tokens' = [tokens EXCEPT ![t] = [user |-> req[r].user, isRevoked |-> FALSE]]
    BY <1>2, IssuesRow
  <2> QED
    BY <2>1 DEF TableGrows, Exists
<1>3. ASSUME NEW r \in Requests, WriteRevoked(r) PROVE TableGrows
  <2> DEFINE row == [tokens[req[r].token] EXCEPT !.isRevoked = TRUE]
  <2>1. /\ tokens' = [tokens EXCEPT ![req[r].token] = row] /\ tokens[req[r].token] \in Row
        /\ UNCHANGED expired
    BY <1>3, RevokesRow
  <2>2. row \in Row /\ row.user = tokens[req[r].token].user /\ row.isRevoked /\ row # NoRow
    BY <2>1 DEF Row
  <2> HIDE DEF row
  <2> QED
    BY <2>1, <2>2 DEF TableGrows, Exists
<1>4. ASSUME NEW r \in Requests,
             \/ BeginLogin(r) \/ BeginRefresh(r) \/ BeginLogout(r) \/ BeginById(r)
      PROVE  TableGrows
  BY <1>1, <1>4, BeginsInput DEF Begin
<1>5. ASSUME NEW r \in Requests, LogoutWithoutCookie(r) \/ Deliver(r) \/ Lose(r)
      PROVE  TableGrows
  BY <1>1, <1>5 DEF LogoutWithoutCookie, Deliver, Lose, End
<1>6. ASSUME NEW r \in Requests, ReadUser(r) \/ Waits(r) \/ Answering(r) PROVE TableGrows
  BY <1>1, <1>6, WaitsAwait, AnsweringSends, ReadsUser
<1>7. ASSUME NEW t \in Tokens, Expire(t) PROVE TableGrows
  BY <1>7 DEF Expire, TableGrows, Exists
<1> QED
  BY <1>1, <1>2, <1>3, <1>4, <1>5, <1>6, <1>7, StepCases DEF Next, vars

Same(r) ==
    /\ req'[r] = req[r] /\ pc'[r] = pc[r] /\ reply'[r] = reply[r] /\ wasOpen'[r] = wasOpen[r]

(* A step of one request leaves the others alone.                          *)
LEMMA OthersSame ==
    ASSUME Base, NEW r \in Requests, Step(r), NEW s \in Requests, s # r
    PROVE  Same(s) /\ answer'[s] = answer[s]
<1> USE DEF Base, TypeOK, Same
<1>1. ASSUME NEW how, NEW h, Send(r, how, h), req'[s] = req[s]
      PROVE  Same(s) /\ answer'[s] = answer[s]
  BY <1>1 DEF Send
<1>2. ASSUME NEW where, Await(r, where), req'[s] = req[s]
      PROVE  Same(s) /\ answer'[s] = answer[s]
  BY <1>2 DEF Await
<1>3. CASE BeginLogin(r) \/ BeginRefresh(r) \/ BeginLogout(r) \/ BeginById(r)
  BY <1>3, BeginsInput DEF Begin
<1>4. CASE IssueRefreshToken(r)
  <2>1. req'[s] = req[s] /\ (Await(r, "forget") \/ Send(r, "failed", Keep))
    BY <1>4, IssuesRow
  <2> QED
    BY <1>1, <1>2, <2>1
<1>5. CASE LogoutWithoutCookie(r)
  BY <1>1, <1>5 DEF LogoutWithoutCookie
<1>6. CASE Deliver(r) \/ Lose(r)
  BY <1>6 DEF Deliver, Lose, End
<1>7. CASE ReadUser(r)
  <2>1. req' = req
    BY <1>7, ReadsUser
  <2> QED
    BY <1>1, <1>2, <1>7, <2>1, ReadsUser
<1>8. CASE Waits(r)
  BY <1>2, <1>8, WaitsAwait
<1>9. CASE Answering(r)
  BY <1>1, <1>9, AnsweringSends
<1>10. CASE WriteRevoked(r)
  <2>1. (\E how \in Answers, h \in {Keep, Clear} : Send(r, how, h)) /\ req' = req
    BY <1>10, RevokesRow
  <2> QED
    BY <1>1, <2>1
<1> QED
  BY <1>3, <1>4, <1>5, <1>6, <1>7, <1>8, <1>9, <1>10, StepCases

LEMMA KnowsSame ==
    ASSUME TypeOK, NEW r \in Requests, KnowsOf(r), Same(r), TableGrows
    PROVE  KnowsOf(r)'
<1>1. req[r].token \in Tokens \cup {NoToken}
  BY RequestFields
<1>2. StageOK(req'[r].op, pc'[r])
  BY DEF KnowsOf, Same
<1>3. HeldOK(r)'
  BY <1>1 DEF KnowsOf, HeldOK, Same, TableGrows
<1>4. RefreshOK(r)'
  <2> SUFFICES ASSUME req[r].op = "refresh", ~wasOpen[r]
               PROVE  RefreshOK(r)'
    BY DEF RefreshOK, Same
  <2>1. req[r].token # NoToken => req[r].token \in Tokens /\ Exists(req[r].token)
    BY <1>1 DEF KnowsOf, HeldOK
  <2>2. pc[r] = "decode" => ~IsOpen(req[r].token)'
    BY <2>1 DEF KnowsOf, RefreshOK, IsOpen, TableGrows, Same
  <2>3. pc[r] = "row" => tokens'[req[r].token].isRevoked
    BY <2>1 DEF KnowsOf, HeldOK, RefreshOK, TableGrows
  <2> QED
    BY <2>2, <2>3 DEF KnowsOf, RefreshOK, Same, IsOpen, Exists
<1>5. ReplyOK(r)'
  BY <1>1 DEF KnowsOf, HeldOK, ReplyOK, Same, TableGrows
<1> QED
  BY <1>2, <1>3, <1>4, <1>5 DEF KnowsOf

(* A handler that sends its answer.                                        *)
LEMMA KnowsSent ==
    ASSUME TypeOK, NEW r \in Requests, KnowsOf(r), TableGrows,
           NEW how, NEW h, Send(r, how, h), req[r].op # "idle", req'[r] = req[r],
           \/ h \in {Keep, Clear}
           \/ /\ req[r].op = "login" /\ h = SetAuth(req[r].user) /\ ~req[r].remember
           \/ /\ req[r].op = "login" /\ h = SetBoth(req[r].user, req[r].token)
              /\ req[r].token # NoToken
           \/ /\ req[r].op = "refresh" /\ wasOpen[r] /\ req[r].token # NoToken
              /\ h = SetAuth(tokens[req[r].token].user)
    PROVE  KnowsOf(r)'
<1>1. req[r].token \in Tokens \cup {NoToken}
  BY RequestFields
<1>2. pc'[r] = "reply" /\ reply'[r] = h /\ wasOpen'[r] = wasOpen[r]
  BY DEF Send, TypeOK
<1>3. StageOK(req'[r].op, pc'[r])
  BY <1>2 DEF KnowsOf, StageOK
<1>4. HeldOK(r)'
  BY <1>1, <1>2 DEF KnowsOf, HeldOK, TableGrows
<1>5. RefreshOK(r)'
  BY <1>2 DEF RefreshOK
<1>6. ReplyOK(r)'
  BY <1>1, <1>2 DEF KnowsOf, HeldOK, ReplyOK, TableGrows, Keep, Clear, SetAuth, SetBoth
<1> QED
  BY <1>3, <1>4, <1>5, <1>6 DEF KnowsOf

LEMMA FailureSends ==
    ASSUME NEW r \in Requests, SendFailure(r)
    PROVE  req[r].op # "idle" /\ \E how, h : h \in {Keep, Clear} /\ Send(r, how, h)
BY DEF SendFailure

LEMMA OwnStep ==
    ASSUME Base, NEW r \in Requests, Step(r), TableGrows
    PROVE  KnowsOf(r)'
<1>0. TypeOK /\ KnowsOf(r) /\ req[r].token \in Tokens \cup {NoToken}
  BY RequestFields DEF Base, SessionInvariant, KnowsOf
<1>1. CASE BeginLogin(r) \/ BeginRefresh(r) \/ BeginLogout(r) \/ BeginById(r)
  <2>1. PICK i \in Req, where \in {"issue", "forget", "decode", "byId", "list"} :
              /\ Begin(r, i, where) /\ StageOK(i.op, where)
              /\ i.op = "login" => /\ i.user \in Users /\ i.token = NoToken
                                   /\ where = "issue" <=> i.remember
              /\ i.op = "revoke" => i.token # NoToken
              /\ i.op \in {"refresh", "logout", "list"} =>
                    \E b \in Browsers : i.token = jar[b].refresh
    BY <1>0, <1>1, BeginsInput
  <2>2. /\ req'[r] = i /\ pc'[r] = where /\ reply'[r] = Keep /\ wasOpen'[r] = IsOpen(i.token)
        /\ UNCHANGED <<tokens, expired>>
    <3>1. pc[r] = "idle" /\ reply[r] = Keep
      BY <1>0, <2>1 DEF Begin, KnowsOf, ReplyOK
    <3>2. /\ req' = [req EXCEPT ![r] = i] /\ pc' = [pc EXCEPT ![r] = where]
          /\ wasOpen' = [wasOpen EXCEPT ![r] = IsOpen(i.token)]
          /\ UNCHANGED <<tokens, expired, reply>>
      BY <2>1 DEF Begin
    <3>3. req'[r] = i /\ pc'[r] = where
      BY <1>0, <3>2 DEF TypeOK
    <3>4. wasOpen'[r] = IsOpen(i.token)
      BY <1>0, <3>2 DEF TypeOK
    <3> QED
      BY <3>1, <3>2, <3>3, <3>4
  <2>3. i.op \in Ops /\ i.token \in Tokens \cup {NoToken}
    BY DEF Req
  <2>4. i.op # "revoke" /\ i.token # NoToken => Exists(i.token)
    BY <2>1, <2>3 DEF Ops, Base, SessionInvariant
  <2>5. HeldOK(r)'
    BY <2>1, <2>2, <2>4 DEF HeldOK, StageOK, Exists
  <2>6. RefreshOK(r)'
    BY <2>1, <2>2 DEF RefreshOK, StageOK, IsOpen, Exists
  <2>7. ReplyOK(r)'
    BY <2>2 DEF ReplyOK, Keep
  <2> QED
    BY <2>1, <2>2, <2>5, <2>6, <2>7 DEF KnowsOf
<1>2. CASE IssueRefreshToken(r)
  <2>1. PICK t \in Tokens :
              /\ ~Exists(t) /\ req[r].op = "login" /\ req[r].user \in Users /\ req[r].remember
              /\ tokens' = [tokens EXCEPT ![t] = [user |-> req[r].user, isRevoked |-> FALSE]]
              /\ req' = [req EXCEPT ![r] = [req[r] EXCEPT !.token = t]]
              /\ [req[r] EXCEPT !.token = t] \in Req
              /\ Await(r, "forget") \/ Send(r, "failed", Keep)
    BY <1>2, IssuesRow
  <2>2. req[r] \in Req
    BY <1>0, <2>1, RequestFields
  <2>3. /\ req'[r].op = "login" /\ req'[r].user = req[r].user /\ req'[r].token = t
        /\ req'[r].remember = req[r].remember
    BY <1>0, <2>1, <2>2 DEF TypeOK, Req
  <2>4. tokens'[t].user = req[r].user /\ Exists(t)'
    <3>1. tokens'[t] = [user |-> req[r].user, isRevoked |-> FALSE]
      BY <1>0, <2>1 DEF TypeOK
    <3>2. tokens'[t] \in Row
      <4>1. [user |-> req[r].user, isRevoked |-> FALSE] \in [user : Users, isRevoked : BOOLEAN]
        BY <2>1
      <4> QED
        BY <3>1, <4>1 DEF Row
    <3>3. tokens'[t].user = req[r].user
      BY <3>1
    <3>4. tokens'[t] # NoRow
      BY <3>2
    <3> QED
      BY <3>3, <3>4 DEF Exists
  <2>5. pc[r] = "issue" /\ reply[r] = Keep
    BY <1>0, <1>2 DEF IssueRefreshToken, KnowsOf, ReplyOK
  <2>6. pc'[r] \in {"forget", "reply"} /\ reply'[r] = Keep
    BY <1>0, <2>1, <2>5 DEF Await, Send, TypeOK
  <2>7. HeldOK(r)'
    BY <2>1, <2>3, <2>4, <2>6 DEF HeldOK
  <2>8. StageOK(req'[r].op, pc'[r]) /\ RefreshOK(r)' /\ ReplyOK(r)'
    BY <2>3, <2>6 DEF StageOK, RefreshOK, ReplyOK, Keep
  <2> QED
    BY <2>7, <2>8 DEF KnowsOf
<1>3. CASE LogoutWithoutCookie(r)
  <2>1. PICK b \in Browsers : /\ req' = [req EXCEPT ![r] = WithCookies("logout", b)]
                             /\ jar[b].refresh = NoToken
    BY <1>3 DEF LogoutWithoutCookie
  <2>2. /\ req'[r].op = "logout" /\ req'[r].token = NoToken
        /\ pc'[r] = "reply" /\ reply'[r] = Clear
    BY <1>0, <1>3, <2>1 DEF LogoutWithoutCookie, Send, WithCookies, TypeOK
  <2> QED
    BY <2>2 DEF KnowsOf, StageOK, HeldOK, RefreshOK, ReplyOK, Clear
<1>4. CASE Deliver(r) \/ Lose(r)
  <2>1. req'[r] = NoRequest /\ pc'[r] = "idle" /\ reply'[r] = Keep
    BY <1>0, <1>4 DEF Deliver, Lose, End, TypeOK
  <2> QED
    BY <2>1 DEF KnowsOf, StageOK, HeldOK, RefreshOK, ReplyOK, Keep, NoRequest
<1>5. CASE ReadUser(r)
  <2>1. /\ pc[r] = "user" /\ req[r].token \in Tokens /\ Exists(req[r].token)
        /\ UNCHANGED <<tokens, expired, req>>
        /\ \/ /\ req[r].op = "refresh" /\ wasOpen[r]
              /\ Send(r, "granted", SetAuth(tokens[req[r].token].user))
           \/ req[r].op = "logout" /\ Await(r, "write")
    BY <1>5, ReadsUser
  <2>2. CASE req[r].op = "refresh"
    BY <1>0, <2>1, <2>2, KnowsSent
  <2>3. CASE req[r].op = "logout" /\ Await(r, "write")
    <3>1. pc'[r] = "write" /\ reply'[r] = reply[r] /\ reply[r] = Keep
      BY <1>0, <2>1, <2>3 DEF Await, TypeOK, KnowsOf, ReplyOK
    <3> QED
      BY <2>1, <2>3, <3>1 DEF KnowsOf, StageOK, HeldOK, RefreshOK, ReplyOK, Keep, Exists
  <2> QED
    BY <2>1, <2>2, <2>3
<1>6. CASE WriteRevoked(r)
  <2>1. /\ req' = req /\ req[r].op # "idle"
        /\ \E how \in Answers, h \in {Keep, Clear} : Send(r, how, h)
    BY <1>6, RevokesRow
  <2> QED
    BY <1>0, <2>1, KnowsSent
<1>7. CASE Waits(r)
  <2>1. UNCHANGED <<tokens, expired, req, reply, wasOpen>>
    BY <1>7 DEF Waits, Decode, ReadRow, ReadById, Await
  <2>2. pc[r] # "reply" /\ reply[r] = Keep
    BY <1>0, <1>7 DEF Waits, Decode, ReadRow, ReadById, KnowsOf, ReplyOK
  <2>3. CASE Decode(r)
    <3>1. /\ pc[r] = "decode" /\ pc'[r] = "row" /\ req[r].token \in Tokens
          /\ req[r].token \notin expired /\ req[r].op \in {"refresh", "logout"}
      BY <1>0, <2>3 DEF Decode, Await, TypeOK, KnowsOf, StageOK
    <3>2. Exists(req[r].token)
      BY <1>0, <3>1 DEF KnowsOf, HeldOK
    <3>3. RefreshOK(r)'
      BY <1>0, <2>1, <3>1, <3>2 DEF KnowsOf, RefreshOK, IsOpen
    <3> QED
      BY <2>1, <2>2, <3>1, <3>2, <3>3 DEF KnowsOf, StageOK, HeldOK, ReplyOK, Keep, Exists
  <2>4. CASE ReadRow(r)
    <3>1. /\ pc[r] = "row" /\ pc'[r] = "user" /\ req[r].token # NoToken
          /\ Exists(req[r].token) /\ ~tokens[req[r].token].isRevoked
          /\ req[r].op \in {"refresh", "logout"}
      BY <1>0, <2>4 DEF ReadRow, Await, TypeOK, KnowsOf, StageOK, HeldOK
    <3>2. RefreshOK(r)'
      BY <1>0, <2>1, <3>1 DEF KnowsOf, RefreshOK
    <3> QED
      BY <2>1, <2>2, <3>1, <3>2 DEF KnowsOf, StageOK, HeldOK, ReplyOK, Keep, Exists
  <2>5. CASE ReadById(r)
    <3>1. /\ pc[r] = "byId" /\ pc'[r] = "write" /\ Exists(req[r].token)
          /\ tokens[req[r].token].user = req[r].user /\ req[r].op = "revoke"
      BY <1>0, <2>5 DEF ReadById, Await, TypeOK, KnowsOf, StageOK
    <3>2. req[r].token # NoToken
      BY <1>0, <3>1 DEF KnowsOf, HeldOK
    <3> QED
      BY <2>1, <2>2, <3>1, <3>2 DEF KnowsOf, StageOK, HeldOK, RefreshOK, ReplyOK, Keep, Exists
  <2> QED
    BY <1>7, <2>3, <2>4, <2>5 DEF Waits
<1>8. CASE Answering(r)
  <2>1. req' = req
    BY <1>8, AnsweringSends
  <2>2. CASE ForgetAttempts(r)
    <3>1. req[r].op = "login" /\ (req[r].remember => req[r].token # NoToken)
      BY <1>0, <2>2 DEF ForgetAttempts, KnowsOf, StageOK, HeldOK
    <3> QED
      BY <1>0, <2>1, <2>2, <3>1, KnowsSent DEF ForgetAttempts
  <2>3. CASE DecodeRefuses(r) \/ RefuseRevoked(r) \/ CallFails(r)
    BY <1>0, <2>1, <2>3, FailureSends, KnowsSent DEF DecodeRefuses, RefuseRevoked, CallFails
  <2>4. CASE RefuseById(r) \/ ListTokens(r)
    <3>1. req[r].op # "idle"
      BY <1>0, <2>4 DEF RefuseById, ListTokens, KnowsOf, StageOK
    <3> QED
      BY <1>0, <2>1, <2>4, <3>1, KnowsSent DEF RefuseById, ListTokens
  <2> QED
    BY <1>8, <2>2, <2>3, <2>4 DEF Answering
<1> QED
  BY <1>1, <1>2, <1>3, <1>4, <1>5, <1>6, <1>7, <1>8, StepCases

(* Cookies name rows that exist: only an answer that arrives changes them. *)
JarsKnown == \A b \in Browsers : jar[b].refresh # NoToken => Exists(jar[b].refresh)

LEMMA JarChanges ==
    ASSUME Base, NEW r \in Requests, Step(r), ~Deliver(r)
    PROVE  jar' = jar
<1>1. CASE BeginLogin(r) \/ BeginRefresh(r) \/ BeginLogout(r) \/ BeginById(r)
  BY <1>1, BeginsInput DEF Begin, Base
<1>2. CASE IssueRefreshToken(r) \/ LogoutWithoutCookie(r) \/ ReadUser(r)
  BY <1>2 DEF IssueRefreshToken, LogoutWithoutCookie, ReadUser, Await, Send
<1>3. CASE WriteRevoked(r)
  BY <1>3, RevokesRow DEF Send
<1>4. CASE Waits(r)
  BY <1>4, WaitsAwait DEF Await
<1>5. CASE Answering(r)
  BY <1>5, AnsweringSends DEF Send
<1>6. CASE Lose(r)
  BY <1>6 DEF Lose
<1> QED
  BY <1>1, <1>2, <1>3, <1>4, <1>5, <1>6, StepCases

LEMMA Delivered ==
    ASSUME Base, NEW r \in Requests, Deliver(r)
    PROVE  /\ pc[r] = "reply" /\ req[r].browser \in Browsers
           /\ reply[r].kind \in {"keep", "clear", "auth", "both"}
           /\ jar' = [jar EXCEPT ![req[r].browser] = Jarred(jar[req[r].browser], reply[r])]
           /\ UNCHANGED <<tokens, expired>>
           /\ KnowsOf(r)
<1>1. pc[r] = "reply" /\ KnowsOf(r)
  BY DEF Deliver, Base, SessionInvariant, KnowsOf
<1>2. req[r].browser \in Browsers
  BY <1>1, RequestFields DEF Base, KnowsOf, StageOK
<1>3. reply[r].kind \in {"keep", "clear", "auth", "both"}
  BY ReplyFields DEF Base, TypeOK
<1> QED
  BY <1>1, <1>2, <1>3 DEF Deliver, End

LEMMA JarsStep ==
    ASSUME Base, NEW r \in Requests, Step(r), TableGrows
    PROVE  JarsKnown'
<1>1. JarsKnown /\ jar \in [Browsers -> Jar]
  BY DEF Base, SessionInvariant, JarsKnown, TypeOK
<1>2. \A b \in Browsers : jar[b].refresh \in Tokens \cup {NoToken}
  BY <1>1 DEF Jar
<1>3. CASE ~Deliver(r)
  BY <1>1, <1>2, <1>3, JarChanges DEF JarsKnown, TableGrows
<1>4. CASE Deliver(r)
  <2> DEFINE b0 == req[r].browser
             j == Jarred(jar[b0], reply[r])
  <2>1. b0 \in Browsers /\ jar' = [jar EXCEPT ![b0] = j] /\ UNCHANGED tokens
    BY <1>4, Delivered
  <2>2. j.refresh # NoToken => Exists(j.refresh)
    <3>1. jar[b0] \in Jar /\ reply[r].kind \in {"keep", "clear", "auth", "both"}
      BY <1>1, <1>4, <2>1, Delivered
    <3>2. reply[r].kind = "both" => Exists(reply[r].token)
      BY <1>4, Delivered DEF KnowsOf, ReplyOK, HeldOK
    <3> QED
      BY <1>1, <2>1, <3>1, <3>2 DEF Jarred, EmptyJar, Jar, JarsKnown
  <2> HIDE DEF b0, j
  <2>3. ASSUME NEW b \in Browsers, jar'[b].refresh # NoToken PROVE Exists(jar'[b].refresh)
    BY <1>1, <2>1, <2>2, <2>3 DEF JarsKnown
  <2> QED
    BY <2>1, <2>3 DEF JarsKnown, Exists
<1> QED
  BY <1>3, <1>4

LEMMA InvariantStep == Base /\ [Next]_vars => Base'
<1> SUFFICES ASSUME Base, [Next]_vars PROVE Base'
  OBVIOUS
<1>1. TypeOK' /\ TableGrows /\ TypeOK
  BY TypeStep, TableOnlyGrows DEF Base
<1>2. \A s \in Requests : KnowsOf(s)
  BY DEF Base, SessionInvariant, KnowsOf
<1>3. ASSUME \A s \in Requests : KnowsOf(s)', JarsKnown', \A t \in expired' : Exists(t)'
      PROVE  Base'
  BY <1>1, <1>3 DEF Base, SessionInvariant, KnowsOf, JarsKnown
<1>4. ASSUME NEW r \in Requests, Step(r) PROVE Base'
  <2>1. \A s \in Requests : KnowsOf(s)'
    BY <1>1, <1>2, <1>4, OwnStep, OthersSame, KnowsSame
  <2>2. expired' = expired
    <3>1. CASE BeginLogin(r) \/ BeginRefresh(r) \/ BeginLogout(r) \/ BeginById(r)
      BY <1>1, <3>1, BeginsInput DEF Begin
    <3>2. CASE IssueRefreshToken(r) \/ LogoutWithoutCookie(r) \/ ReadUser(r) \/ WriteRevoked(r)
               \/ Deliver(r) \/ Lose(r)
      BY <3>2 DEF IssueRefreshToken, LogoutWithoutCookie, ReadUser, WriteRevoked, Deliver,
                  Lose, End
    <3>3. CASE Waits(r) \/ Answering(r)
      BY <3>3, WaitsAwait, AnsweringSends
    <3> QED
      BY <1>4, <3>1, <3>2, <3>3, StepCases
  <2>3. \A t \in expired' : Exists(t)'
    BY <1>1, <2>2 DEF TableGrows, Base, SessionInvariant, TypeOK
  <2> QED
    BY <1>1, <1>3, <1>4, <2>1, <2>3, JarsStep
<1>5. ASSUME UNCHANGED <<tokens, jar, req, pc, reply, wasOpen>>, \A t \in expired' : Exists(t)
      PROVE  Base'
  <2>1. \A s \in Requests : Same(s)
    BY <1>5 DEF Same
  <2>2. \A s \in Requests : KnowsOf(s)'
    BY <1>1, <1>2, <2>1, KnowsSame
  <2>3. JarsKnown' /\ \A t \in expired' : Exists(t)'
    BY <1>5 DEF Base, SessionInvariant, JarsKnown, Exists
  <2> QED
    BY <1>3, <2>2, <2>3
<1>6. ASSUME NEW t \in Tokens, Expire(t) PROVE Base'
  BY <1>5, <1>6 DEF Expire, Base, SessionInvariant
<1>7. CASE UNCHANGED vars
  BY <1>5, <1>7 DEF vars, Base, SessionInvariant
<1> QED
  BY <1>4, <1>6, <1>7 DEF Next

LEMMA InvariantInit == Init => Base
<1> SUFFICES ASSUME Init PROVE Base
  OBVIOUS
<1>1. TypeOK
  BY ReplyKinds DEF Init, TypeOK, Jar, EmptyJar, Pcs, NoRequest
<1>2. SessionInvariant
  BY DEF Init, SessionInvariant, StageOK, HeldOK, RefreshOK, ReplyOK, NoRequest, Keep, EmptyJar
<1> QED
  BY <1>1, <1>2 DEF Base

LEMMA BaseInvariant == Spec => []Base
BY InvariantInit, InvariantStep, PTL DEF Spec

(* The variables keep their types.                                         *)
THEOREM TypeCorrect == Spec => []TypeOK
<1>1. Base => TypeOK
  BY DEF Base
<1> QED
  BY <1>1, BaseInvariant, PTL

(* What every handler knows while it waits stays true while the others     *)
(* run; in particular no refresh whose session was closed when it began    *)
(* gets past the check of isRevoked.                                       *)
THEOREM SessionInvariantHolds == Spec => [](TypeOK /\ SessionInvariant)
<1>1. Base => TypeOK /\ SessionInvariant
  BY DEF Base
<1> QED
  BY <1>1, BaseInvariant, PTL

-----------------------------------------------------------------------------
(* Nobody is answered before the answer is sent.                           *)
Unanswered == \A r \in Requests : pc[r] \notin {"idle", "reply"} => answer[r] = "none"

LEMMA UnansweredStep == Base /\ Unanswered /\ [Next]_vars => Unanswered'
<1> SUFFICES ASSUME Base, Unanswered, [Next]_vars PROVE Unanswered'
  OBVIOUS
<1> USE DEF Base, TypeOK
<1>1. ASSUME NEW r \in Requests, Step(r) PROVE Unanswered'
  <2>1. \A s \in Requests : s # r => pc'[s] = pc[s] /\ answer'[s] = answer[s]
    BY <1>1, OthersSame DEF Same
  <2>2. ASSUME NEW how, NEW h, Send(r, how, h) PROVE pc'[r] = "reply"
    BY <2>2 DEF Send
  <2>3. ASSUME NEW where, Await(r, where), pc[r] \notin {"idle", "reply"}
        PROVE  answer'[r] = "none"
    BY <2>3 DEF Await, Unanswered
  <2>4. pc'[r] \in {"idle", "reply"} \/ answer'[r] = "none"
    <3>1. CASE BeginLogin(r) \/ BeginRefresh(r) \/ BeginLogout(r) \/ BeginById(r)
      BY <3>1, BeginsInput DEF Begin
    <3>2. CASE IssueRefreshToken(r) \/ LogoutWithoutCookie(r) \/ ReadUser(r)
      BY <2>2, <2>3, <3>2 DEF IssueRefreshToken, LogoutWithoutCookie, ReadUser
    <3>3. CASE WriteRevoked(r)
      BY <2>2, <3>3, RevokesRow
    <3>4. CASE Waits(r)
      BY <2>3, <3>4 DEF Waits, Decode, ReadRow, ReadById
    <3>5. CASE Answering(r)
      BY <2>2, <3>5, AnsweringSends
    <3>6. CASE Deliver(r) \/ Lose(r)
      BY <3>6 DEF Deliver, Lose, End
    <3> QED
      BY <1>1, <3>1, <3>2, <3>3, <3>4, <3>5, <3>6, StepCases
  <2> QED
    BY <2>1, <2>4 DEF Unanswered
<1>2. CASE (\E t \in Tokens : Expire(t)) \/ UNCHANGED vars
  BY <1>2 DEF Expire, vars, Unanswered
<1> QED
  BY <1>1, <1>2 DEF Next

LEMMA UnansweredInvariant == Spec => []Unanswered
<1>1. Init => Unanswered
  BY DEF Init, Unanswered
<1> QED
  BY <1>1, BaseInvariant, UnansweredStep, PTL DEF Spec

-----------------------------------------------------------------------------
(* The table and its handlers implement Sessions.                          *)
LEMMA StateSame ==
    ASSUME UNCHANGED <<tokens, expired>>
    PROVE  StateOf' = StateOf
BY DEF StateOf, Exists, IsOpen

LEMMA StateFacts ==
    ASSUME NEW t \in Tokens
    PROVE  /\ StateOf[t] = "none" <=> ~Exists(t)
           /\ StateOf[t] = "open" <=> IsOpen(t)
           /\ StateOf[t] = "closed" <=> Exists(t) /\ ~IsOpen(t)
BY DEF StateOf, IsOpen, Exists

LEMMA ViewChanges ==
    ASSUME TypeOK, NEW r \in Requests,
           \A s \in Requests : s # r => Same(s) /\ answer'[s] = answer[s]
    PROVE  /\ AskOf' = [AskOf EXCEPT ![r] = AskOf'[r]]
           /\ VerdictOf' = [VerdictOf EXCEPT ![r] = VerdictOf'[r]]
BY DEF AskOf, VerdictOf, Refreshing, Same

LEMMA ViewSame ==
    ASSUME TypeOK, NEW r \in Requests, AskOf' = [AskOf EXCEPT ![r] = AskOf[r]],
           VerdictOf' = [VerdictOf EXCEPT ![r] = VerdictOf[r]]
    PROVE  AskOf' = AskOf /\ VerdictOf' = VerdictOf
BY DEF AskOf, VerdictOf

Idle == [token |-> NoToken, open |-> FALSE, pending |-> FALSE]

(* The five ways a step of a handler shows in the abstract state.          *)
LEMMA Shows ==
    ASSUME NEW r \in Requests,
           AskOf' = [AskOf EXCEPT ![r] = AskOf'[r]],
           VerdictOf' = [VerdictOf EXCEPT ![r] = VerdictOf'[r]],
           StateOf' = StateOf
    PROVE  /\ /\ ~Refreshing(r) /\ AskOf'[r].pending /\ VerdictOf'[r] = "none"
              /\ \E t \in Tokens \cup {NoToken} :
                    AskOf'[r] = [token |-> t, pending |-> TRUE,
                                 open |-> t # NoToken /\ StateOf[t] = "open"]
              => Promise!Ask(r)
           /\ ~Refreshing(r) /\ AskOf'[r] = Idle /\ VerdictOf'[r] = "none" => Promise!Leave(r)
           /\ Refreshing(r) /\ AskOf'[r] = Idle /\ VerdictOf'[r] = "denied"
              => Promise!Answer(r, "denied")
           /\ Refreshing(r) /\ wasOpen[r] /\ AskOf'[r] = Idle /\ VerdictOf'[r] = "granted"
              => Promise!Answer(r, "granted")
<1>1. /\ AskOf[r].pending <=> Refreshing(r)
      /\ Refreshing(r) /\ wasOpen[r] => AskOf[r].open
      /\ ~Refreshing(r) => AskOf[r] = Idle
  BY DEF AskOf, Idle
<1>2. ~Refreshing(r) /\ AskOf'[r] = Idle => AskOf' = AskOf
  <2> SUFFICES ASSUME ~Refreshing(r), AskOf'[r] = Idle PROVE AskOf' = AskOf
    OBVIOUS
  <2>1. AskOf' = [AskOf EXCEPT ![r] = AskOf[r]]
    BY <1>1
  <2> QED
    BY <2>1 DEF AskOf
<1> QED
  BY <1>1, <1>2 DEF Promise!Ask, Promise!Leave, Promise!Answer, Promise!NoAsk, Idle

LEMMA StepImplements ==
    ASSUME Base, Unanswered, NEW r \in Requests, Step(r)
    PROVE  [Promise!Next]_<<StateOf, AskOf, VerdictOf>>
<1>0. TypeOK /\ KnowsOf(r) /\ TableGrows
  BY TableOnlyGrows DEF Base, SessionInvariant, KnowsOf, Next
<1>1. /\ AskOf' = [AskOf EXCEPT ![r] = AskOf'[r]]
      /\ VerdictOf' = [VerdictOf EXCEPT ![r] = VerdictOf'[r]]
  BY <1>0, OthersSame, ViewChanges
<1>2. AskOf'[r] = IF Refreshing(r)' THEN [token |-> req'[r].token, open |-> wasOpen'[r],
                                          pending |-> TRUE]
                  ELSE Idle
  BY DEF AskOf, Idle
<1>3. /\ VerdictOf'[r] = IF answer'[r] \in {"granted", "denied"} THEN answer'[r] ELSE "none"
      /\ VerdictOf[r] = IF answer[r] \in {"granted", "denied"} THEN answer[r] ELSE "none"
      /\ AskOf[r] = IF Refreshing(r) THEN [token |-> req[r].token, open |-> wasOpen[r],
                                           pending |-> TRUE]
                    ELSE Idle
  BY DEF VerdictOf, AskOf, Idle
<1>4. ASSUME StateOf' = StateOf, AskOf'[r] = AskOf[r], VerdictOf'[r] = VerdictOf[r]
      PROVE  UNCHANGED <<StateOf, AskOf, VerdictOf>>
  BY <1>0, <1>1, <1>4, ViewSame
<1>5. ASSUME NEW how, NEW h, Send(r, how, h)
      PROVE  ~Refreshing(r)' /\ answer'[r] = how /\ wasOpen'[r] = wasOpen[r]
  BY <1>0, <1>5 DEF Send, Refreshing, TypeOK
<1>6. ASSUME NEW how, NEW h, Send(r, how, h), UNCHANGED <<tokens, expired>>,
             IF Refreshing(r) THEN how = "denied" \/ (how = "granted" /\ wasOpen[r])
             ELSE how \notin {"granted", "denied"}
      PROVE  Promise!Next
  <2>1. StateOf' = StateOf /\ AskOf'[r] = Idle
    BY <1>2, <1>5, <1>6, StateSame
  <2>2. VerdictOf'[r] = IF Refreshing(r) THEN how ELSE "none"
    BY <1>3, <1>5, <1>6
  <2> QED
    BY <1>1, <1>6, <2>1, <2>2, Shows DEF Promise!Next
<1>7. ASSUME SendFailure(r), UNCHANGED <<tokens, expired>>,
             req[r].op = "refresh" => Refreshing(r)
      PROVE  Promise!Next
  BY <1>6, <1>7 DEF SendFailure, Refreshing
<1>8. CASE BeginLogin(r) \/ BeginRefresh(r) \/ BeginLogout(r) \/ BeginById(r)
  <2>1. PICK i \in Req, where \in {"issue", "forget", "decode", "byId", "list"} :
          Begin(r, i, where) /\ StageOK(i.op, where)
    BY <1>0, <1>8, BeginsInput
  <2>2. /\ pc[r] = "idle" /\ pc'[r] = where /\ req'[r] = i /\ answer'[r] = "none"
        /\ wasOpen'[r] = IsOpen(i.token) /\ UNCHANGED <<tokens, expired>>
    <3>1. /\ req' = [req EXCEPT ![r] = i] /\ pc' = [pc EXCEPT ![r] = where]
          /\ wasOpen' = [wasOpen EXCEPT ![r] = IsOpen(i.token)]
          /\ answer' = [answer EXCEPT ![r] = "none"]
      BY <2>1 DEF Begin
    <3>2. wasOpen'[r] = IsOpen(i.token)
      BY <1>0, <3>1 DEF TypeOK
    <3>3. req'[r] = i /\ pc'[r] = where /\ answer'[r] = "none"
      BY <1>0, <3>1 DEF TypeOK
    <3> QED
      BY <2>1, <3>2, <3>3 DEF Begin
  <2>3. ~Refreshing(r) /\ VerdictOf'[r] = "none" /\ StateOf' = StateOf
    BY <1>3, <2>2, StateSame DEF Refreshing
  <2>4. CASE Refreshing(r)'
    <3>1. i.token \in Tokens \cup {NoToken}
      BY DEF Req
    <3>2. IsOpen(i.token) = (i.token # NoToken /\ StateOf[i.token] = "open")
      <4>1. CASE i.token = NoToken
        BY <4>1 DEF IsOpen
      <4>2. CASE i.token \in Tokens
        BY <4>2, StateFacts DEF IsOpen
      <4> QED
        BY <3>1, <4>1, <4>2
    <3>3. AskOf'[r] = [token |-> i.token, pending |-> TRUE,
                       open |-> i.token # NoToken /\ StateOf[i.token] = "open"]
      BY <1>2, <2>2, <2>4, <3>2
    <3>4. AskOf'[r].pending
      BY <3>3
    <3>5. Promise!Ask(r)
      BY <1>1, <2>3, <3>1, <3>3, <3>4, Shows
    <3> QED
      BY <3>5 DEF Promise!Next
  <2>5. CASE ~Refreshing(r)'
    BY <1>1, <1>2, <2>3, <2>5, Shows DEF Promise!Next
  <2> QED
    BY <2>4, <2>5
<1>9. CASE IssueRefreshToken(r)
  <2>1. PICK t \in Tokens :
          /\ ~Exists(t) /\ req[r].op = "login" /\ UNCHANGED expired
          /\ tokens' = [tokens EXCEPT ![t] = [user |-> req[r].user, isRevoked |-> FALSE]]
          /\ req' = [req EXCEPT ![r] = [req[r] EXCEPT !.token = t]]
          /\ req[r].user \in Users
          /\ Await(r, "forget") \/ Send(r, "failed", Keep)
    BY <1>9, IssuesRow
  <2>2. pc[r] = "issue" /\ answer[r] = "none"
    BY <1>9 DEF IssueRefreshToken, Unanswered
  <2>3. pc'[r] \in {"forget", "reply"} /\ answer'[r] \in {"none", "failed"}
    BY <1>0, <2>1, <2>2 DEF Await, Send, TypeOK
  <2>4. AskOf'[r] = AskOf[r] /\ VerdictOf'[r] = VerdictOf[r]
    BY <1>2, <1>3, <2>2, <2>3 DEF Refreshing
  <2>5. AskOf' = AskOf /\ VerdictOf' = VerdictOf
    BY <1>0, <1>1, <2>4, ViewSame
  <2>6. StateOf' = [StateOf EXCEPT ![t] = "open"]
    <3> DEFINE row == [user |-> req[r].user, isRevoked |-> FALSE]
    <3>1. row \in Row /\ ~row.isRevoked /\ row # NoRow
      <4>1. row \in [user : Users, isRevoked : BOOLEAN]
        BY <2>1
      <4>2. row \in Row
        BY <4>1 DEF Row
      <4> QED
        BY <4>2
    <3>2. t \notin expired
      BY <2>1 DEF Base, SessionInvariant
    <3>3. tokens' = [tokens EXCEPT ![t] = row]
      BY <2>1
    <3> HIDE DEF row
    <3>4. tokens'[t] = row /\ \A s \in Tokens : s # t => tokens'[s] = tokens[s]
      BY <1>0, <3>3 DEF TypeOK
    <3> QED
      BY <2>1, <3>1, <3>2, <3>4 DEF StateOf, IsOpen, Exists
  <2>7. StateOf[t] = "none"
    BY <2>1, StateFacts
  <2> QED
    BY <2>5, <2>6, <2>7 DEF Promise!Next, Promise!Open
<1>10. CASE WriteRevoked(r)
  <2> DEFINE t == req[r].token
             row == [tokens[t] EXCEPT !.isRevoked = TRUE]
  <2>1. /\ t \in Tokens /\ Exists(t) /\ tokens[t] \in Row
        /\ tokens' = [tokens EXCEPT ![t] = row] /\ UNCHANGED expired
        /\ req[r].op \in {"logout", "revoke"} /\ pc[r] = "write"
    BY <1>10, RevokesRow
  <2>2. row.isRevoked /\ row # NoRow
    <3>1. row \in Row /\ row.isRevoked
      BY <2>1 DEF Row
    <3> QED
      BY <3>1
  <2>3. \E how \in {"failed", "done", "swallowed"} : \E h : Send(r, how, h)
    BY <1>10, <2>1 DEF WriteRevoked, SendRevoked, SendFailure
  <2> HIDE DEF t, row
  <2>4. answer'[r] \in {"failed", "done", "swallowed"} /\ ~Refreshing(r)' /\ ~Refreshing(r)
    BY <1>5, <2>1, <2>3 DEF Refreshing
  <2>5. answer[r] = "none"
    BY <2>1 DEF Unanswered
  <2>6. AskOf'[r] = AskOf[r] /\ VerdictOf'[r] = VerdictOf[r]
    BY <1>2, <1>3, <2>4, <2>5
  <2>7. AskOf' = AskOf /\ VerdictOf' = VerdictOf
    BY <1>0, <1>1, <2>6, ViewSame
  <2>8. tokens'[t] = row /\ \A s \in Tokens : s # t => tokens'[s] = tokens[s]
    BY <1>0, <2>1 DEF TypeOK
  <2>9. StateOf' = [StateOf EXCEPT ![t] = "closed"]
    BY <2>1, <2>2, <2>8 DEF StateOf, IsOpen, Exists
  <2>10. StateOf[t] \in {"open", "closed"}
    BY <2>1, StateFacts
  <2>11. CASE StateOf[t] = "open"
    BY <2>1, <2>7, <2>9, <2>11 DEF Promise!Next, Promise!Close
  <2>12. CASE StateOf[t] = "closed"
    <3>1. StateOf' = StateOf
      BY <2>9, <2>12 DEF StateOf
    <3> QED
      BY <2>7, <3>1
  <2> QED
    BY <2>10, <2>11, <2>12
<1>11. CASE LogoutWithoutCookie(r)
  <2>1. Send(r, "done", Clear) /\ pc[r] = "idle" /\ UNCHANGED <<tokens, expired>>
    BY <1>11 DEF LogoutWithoutCookie
  <2> QED
    BY <1>6, <2>1 DEF Refreshing
<1>12. CASE ReadUser(r)
  <2>1. CASE req[r].op = "refresh"
    <3>1. /\ UNCHANGED <<tokens, expired>> /\ wasOpen[r] /\ pc[r] = "user"
          /\ Send(r, "granted", SetAuth(tokens[req[r].token].user))
      BY <1>12, <2>1, ReadsUser
    <3> QED
      BY <1>6, <2>1, <3>1 DEF Refreshing
  <2>2. CASE req[r].op = "logout"
    <3>1. UNCHANGED <<tokens, expired, req, answer>>
      BY <1>12, <2>2 DEF ReadUser, Await
    <3> QED
      BY <1>2, <1>3, <1>4, <2>2, <3>1, StateSame DEF Refreshing
  <2> QED
    BY <1>12, <2>1, <2>2, ReadsUser
<1>13. CASE Waits(r)
  <2>1. UNCHANGED <<tokens, expired, req, wasOpen, answer>>
    BY <1>13 DEF Waits, Decode, ReadRow, ReadById, Await
  <2>2. Refreshing(r)' <=> Refreshing(r)
    <3>1. CASE Decode(r) \/ ReadRow(r)
      BY <1>0, <3>1 DEF Decode, ReadRow, Await, Refreshing, TypeOK
    <3>2. CASE ReadById(r)
      BY <1>0, <3>2 DEF ReadById, Await, Refreshing, TypeOK
    <3> QED
      BY <1>13, <3>1, <3>2 DEF Waits
  <2> QED
    BY <1>2, <1>3, <1>4, <2>1, <2>2, StateSame
<1>14. CASE Answering(r)
  <2>1. UNCHANGED <<tokens, expired>>
    BY <1>14, AnsweringSends
  <2>2. CASE ForgetAttempts(r) \/ RefuseById(r) \/ ListTokens(r)
    BY <1>6, <2>1, <2>2 DEF ForgetAttempts, RefuseById, ListTokens, Refreshing
  <2>3. CASE DecodeRefuses(r) \/ RefuseRevoked(r) \/ CallFails(r)
    BY <1>0, <1>7, <2>1, <2>3 DEF DecodeRefuses, RefuseRevoked, CallFails, Refreshing,
       KnowsOf, StageOK
  <2> QED
    BY <1>14, <2>2, <2>3 DEF Answering
<1>15. CASE Deliver(r) \/ Lose(r)
  <2>1. UNCHANGED <<tokens, expired, answer>> /\ pc[r] = "reply" /\ pc'[r] = "idle"
    BY <1>0, <1>15 DEF Deliver, Lose, End, TypeOK
  <2> QED
    BY <1>2, <1>3, <1>4, <2>1, StateSame DEF Refreshing
<1> QED
  BY <1>8, <1>9, <1>10, <1>11, <1>12, <1>13, <1>14, <1>15, StepCases

(* The handlers implement Sessions: whatever runs in parallel, a session   *)
(* that was closed stays closed, and no refresh is granted for a session   *)
(* that was closed when the refresh began.                                 *)
THEOREM TokensImplementSessions == Spec => SessionsSpec
<1>1. Init => Promise!Init
  BY DEF Init, Promise!Init, Promise!NoAsk, StateOf, AskOf, VerdictOf, Exists, Refreshing,
         NoRequest
<1>2. Base /\ Unanswered /\ [Next]_vars => [Promise!Next]_<<StateOf, AskOf, VerdictOf>>
  <2> SUFFICES ASSUME Base, Unanswered, [Next]_vars
               PROVE  [Promise!Next]_<<StateOf, AskOf, VerdictOf>>
    OBVIOUS
  <2>1. ASSUME NEW t \in Tokens, Expire(t)
        PROVE  [Promise!Next]_<<StateOf, AskOf, VerdictOf>>
    <3>1. Exists(t) /\ expired' = expired \cup {t} /\ UNCHANGED <<tokens, req, pc, wasOpen, answer>>
      BY <2>1 DEF Expire
    <3>2. StateOf' = [StateOf EXCEPT ![t] = "closed"]
      BY <3>1 DEF StateOf, IsOpen, Exists
    <3>3. AskOf' = AskOf /\ VerdictOf' = VerdictOf
      BY <3>1 DEF AskOf, VerdictOf, Refreshing
    <3>4. StateOf[t] \in {"open", "closed"}
      BY <3>1, StateFacts
    <3>5. CASE StateOf[t] = "open"
      BY <3>2, <3>3, <3>5 DEF Promise!Next, Promise!Close
    <3>6. CASE StateOf[t] = "closed"
      <4>1. StateOf' = StateOf
        BY <3>2, <3>6 DEF StateOf
      <4> QED
        BY <3>3, <4>1
    <3> QED
      BY <3>4, <3>5, <3>6
  <2>2. CASE UNCHANGED vars
    BY <2>2 DEF vars, StateOf, AskOf, VerdictOf, Refreshing, Exists, IsOpen
  <2> QED
    BY <2>1, <2>2, StepImplements DEF Next
<1>3. [Promise!Next]_<<StateOf, AskOf, VerdictOf>> => [Promise!Next]_(Promise!sessionVars)
  BY DEF Promise!sessionVars
<1> QED
  BY <1>1, <1>2, <1>3, BaseInvariant, UnansweredInvariant, PTL DEF Spec, SessionsSpec, Promise!Spec

-----------------------------------------------------------------------------
(* A row is only revoked by the write at the end of a logout with its      *)
(* cookie or of a revocation its owner asked for.                          *)
THEOREM OnlyOwnerRevokes == Spec => OwnerRevokes
<1>1. Base /\ [Next]_vars =>
        [\A t \in Tokens :
           Exists(t) /\ ~tokens[t].isRevoked /\ tokens'[t].isRevoked =>
              \E r \in Requests :
                  /\ pc[r] = "write" /\ req[r].token = t
                  /\ req[r].op = "logout" \/ req[r].user = tokens[t].user]_vars
  <2> SUFFICES ASSUME Base, [Next]_vars, NEW t \in Tokens,
                      Exists(t), ~tokens[t].isRevoked, tokens'[t].isRevoked
               PROVE  \E r \in Requests :
                        /\ pc[r] = "write" /\ req[r].token = t
                        /\ req[r].op = "logout" \/ req[r].user = tokens[t].user
    OBVIOUS
  <2>0. tokens \in [Tokens -> Row \cup {NoRow}]
    BY DEF Base, TypeOK
  <2>1. tokens' # tokens
    OBVIOUS
  <2>2. PICK r \in Requests : Step(r)
    BY <2>1 DEF Next, vars, Expire
  <2>3. CASE BeginLogin(r) \/ BeginRefresh(r) \/ BeginLogout(r) \/ BeginById(r)
    BY <2>1, <2>3, BeginsInput DEF Base, Begin
  <2>4. CASE LogoutWithoutCookie(r) \/ Deliver(r) \/ Lose(r)
    BY <2>1, <2>4 DEF LogoutWithoutCookie, Deliver, Lose, End
  <2>5. CASE ReadUser(r) \/ Waits(r) \/ Answering(r)
    BY <2>1, <2>5, WaitsAwait, AnsweringSends, ReadsUser
  <2>6. CASE IssueRefreshToken(r)
    <3>1. PICK n \in Tokens :
            /\ ~Exists(n)
            /\ tokens' = [tokens EXCEPT ![n] = [user |-> req[r].user, isRevoked |-> FALSE]]
      BY <2>6, IssuesRow
    <3> QED
      BY <3>1
  <2>7. CASE WriteRevoked(r)
    <3> DEFINE row == [tokens[req[r].token] EXCEPT !.isRevoked = TRUE]
    <3>1. /\ pc[r] = "write" /\ req[r].op \in {"logout", "revoke"}
          /\ tokens' = [tokens EXCEPT ![req[r].token] = row]
      BY <2>7, RevokesRow
    <3>2. HeldOK(r)
      BY DEF Base, SessionInvariant
    <3> HIDE DEF row
    <3>3. req[r].token = t
      BY <2>0, <3>1
    <3> QED
      BY <3>1, <3>2, <3>3 DEF HeldOK
  <2> QED
    BY <2>2, <2>3, <2>4, <2>5, <2>6, <2>7, StepCases
<1> QED
  BY <1>1, BaseInvariant, PTL DEF Spec, OwnerRevokes

(* A logout that reaches its answer has closed its session, or one of its  *)
(* calls failed and the controller's catch hid that.                       *)
THEOREM LogoutClosesSession == Spec => LogoutCloses
<1>1. Base /\ [Next]_vars =>
        [\A r \in Requests :
           /\ req[r].op = "logout" /\ pc[r] # "reply" /\ pc'[r] = "reply"
           /\ IsOpen(req[r].token)'
           => answer'[r] = "swallowed" /\ CallFails(r)]_vars
  <2> SUFFICES ASSUME Base, [Next]_vars, NEW r \in Requests,
                      req[r].op = "logout", pc[r] # "reply", pc'[r] = "reply",
                      IsOpen(req[r].token)'
               PROVE  answer'[r] = "swallowed" /\ CallFails(r)
    OBVIOUS
  <2>1. pc[r] \in {"decode", "row", "user", "write"} /\ TypeOK
    BY DEF Base, SessionInvariant, StageOK
  <2>2. Step(r)
    <3>1. PICK s \in Requests : Step(s)
      BY DEF Next, vars, Expire
    <3> QED
      BY <3>1, OthersSame DEF Same
  <2>3. req[r].token \in Tokens \cup {NoToken}
    BY <2>1, RequestFields
  <2>4. CASE BeginLogin(r) \/ BeginRefresh(r) \/ BeginLogout(r) \/ BeginById(r)
             \/ LogoutWithoutCookie(r) \/ Deliver(r) \/ Lose(r)
    BY <2>1, <2>4, BeginsInput DEF Begin, LogoutWithoutCookie, Deliver, Lose
  <2>5. CASE IssueRefreshToken(r)
    BY <2>1, <2>5 DEF IssueRefreshToken
  <2>6. CASE ReadUser(r) \/ Waits(r)
    <3>1. \A where : Await(r, where) => pc'[r] = where
      BY <2>1 DEF Await, TypeOK
    <3>2. \E where \in {"row", "user", "write"} : Await(r, where)
      BY <2>6, WaitsAwait, ReadsUser
    <3> QED
      BY <3>1, <3>2
  <2>7. CASE WriteRevoked(r)
    <3> DEFINE row == [tokens[req[r].token] EXCEPT !.isRevoked = TRUE]
    <3>1. /\ tokens' = [tokens EXCEPT ![req[r].token] = row] /\ req' = req
          /\ req[r].token \in Tokens /\ tokens[req[r].token] \in Row
      BY <2>7, RevokesRow
    <3>2. row.isRevoked
      BY <3>1 DEF Row
    <3> HIDE DEF row
    <3> QED
      BY <2>1, <3>1, <3>2 DEF IsOpen, TypeOK
  <2>8. CASE DecodeRefuses(r) \/ RefuseRevoked(r)
    BY <2>8 DEF DecodeRefuses, RefuseRevoked, IsOpen, Exists
  <2>9. CASE ForgetAttempts(r) \/ RefuseById(r) \/ ListTokens(r)
    BY <2>1, <2>9 DEF ForgetAttempts, RefuseById, ListTokens
  <2>10. CASE CallFails(r)
    BY <2>1, <2>10 DEF CallFails, SendFailure, Send, TypeOK
  <2> QED
    BY <2>2, <2>4, <2>5, <2>6, <2>7, <2>8, <2>9, <2>10, StepCases DEF Answering
<1> QED
  BY <1>1, BaseInvariant, PTL DEF Spec, LogoutCloses

(* A browser without an access token gets one from a login, or from a      *)
(* refresh that began while its session was open.                          *)
THEOREM LetInAgainBySession == Spec => LetInAgain
<1>1. Base /\ [Next]_vars =>
        [\A b \in Browsers :
           jar[b].auth = NoUser /\ jar'[b].auth # NoUser =>
              \E r \in Requests :
                  /\ pc[r] = "reply" /\ req[r].browser = b
                  /\ \/ req[r].op = "login"
                     \/ req[r].op = "refresh" /\ wasOpen[r]]_vars
  <2> SUFFICES ASSUME Base, [Next]_vars, NEW b \in Browsers,
                      jar[b].auth = NoUser, jar'[b].auth # NoUser
               PROVE  \E r \in Requests :
                        /\ pc[r] = "reply" /\ req[r].browser = b
                        /\ \/ req[r].op = "login"
                           \/ req[r].op = "refresh" /\ wasOpen[r]
    OBVIOUS
  <2>1. jar' # jar /\ jar \in [Browsers -> Jar]
    BY DEF Base, TypeOK
  <2>2. PICK r \in Requests : Deliver(r)
    BY <2>1, JarChanges DEF Next, vars, Expire
  <2>3. /\ pc[r] = "reply" /\ KnowsOf(r)
        /\ reply[r].kind \in {"keep", "clear", "auth", "both"}
        /\ jar' = [jar EXCEPT ![req[r].browser] = Jarred(jar[req[r].browser], reply[r])]
    BY <2>2, Delivered
  <2>4. b = req[r].browser /\ Jarred(jar[b], reply[r]).auth # NoUser
    BY <2>1, <2>3
  <2>5. reply[r].kind \in {"auth", "both"}
    BY <2>3, <2>4 DEF Jarred, EmptyJar
  <2> QED
    BY <2>3, <2>4, <2>5 DEF KnowsOf, ReplyOK
<1> QED
  BY <1>1, BaseInvariant, PTL DEF Spec, LetInAgain

(* The cookies of a browser come to name two accounts only by a login      *)
(* without `remember' or by a late answer to a refresh.                    *)
THEOREM CookiesStayInAgreement == Spec => CookiesAgree
<1>1. Base /\ [Next]_vars =>
        [\A b \in Browsers : Agree(b) /\ ~Agree(b)' =>
           \E r \in Requests :
              /\ pc[r] = "reply" /\ req[r].browser = b
              /\ \/ req[r].op = "login" /\ ~req[r].remember
                 \/ req[r].op = "refresh" /\ req[r].token # jar[b].refresh]_vars
  <2> SUFFICES ASSUME Base, [Next]_vars, NEW b \in Browsers, Agree(b), ~Agree(b)'
               PROVE  \E r \in Requests :
                        /\ pc[r] = "reply" /\ req[r].browser = b
                        /\ \/ req[r].op = "login" /\ ~req[r].remember
                           \/ req[r].op = "refresh" /\ req[r].token # jar[b].refresh
    OBVIOUS
  <2>1. /\ jar \in [Browsers -> Jar] /\ jar[b].refresh \in Tokens \cup {NoToken}
        /\ jar[b].refresh # NoToken => Exists(jar[b].refresh)
    BY DEF Base, TypeOK, SessionInvariant, Jar
  <2>2. jar'[b] # jar[b]
    BY <2>1, TableOnlyGrows DEF Agree, TableGrows
  <2>3. PICK r \in Requests : Deliver(r)
    BY <2>2, JarChanges DEF Next, vars, Expire
  <2>4. /\ pc[r] = "reply" /\ KnowsOf(r) /\ UNCHANGED tokens
        /\ reply[r].kind \in {"keep", "clear", "auth", "both"}
        /\ jar' = [jar EXCEPT ![req[r].browser] = Jarred(jar[req[r].browser], reply[r])]
    BY <2>3, Delivered
  <2>5. b = req[r].browser /\ jar'[b] = Jarred(jar[b], reply[r])
    BY <2>1, <2>2, <2>4
  <2>6. CASE reply[r].kind \in {"keep", "clear"}
    BY <2>2, <2>5, <2>6 DEF Jarred, EmptyJar, Agree
  <2>7. CASE reply[r].kind = "both"
    <3>1. /\ jar'[b].auth = reply[r].user /\ jar'[b].refresh = reply[r].token
          /\ reply[r].user = tokens[reply[r].token].user
      BY <2>4, <2>5, <2>7 DEF Jarred, KnowsOf, ReplyOK
    <3> QED
      BY <2>4, <3>1 DEF Agree
  <2>8. CASE reply[r].kind = "auth"
    <3>1. jar'[b].auth = reply[r].user /\ jar'[b].refresh = jar[b].refresh
      BY <2>1, <2>5, <2>8 DEF Jarred, Jar
    <3>2. tokens[jar[b].refresh].user # reply[r].user
      BY <2>4, <3>1 DEF Agree
    <3> QED
      BY <2>4, <2>5, <2>8, <3>2 DEF KnowsOf, ReplyOK
  <2> QED
    BY <2>4, <2>6, <2>7, <2>8
<1> QED
  BY <1>1, BaseInvariant, PTL DEF Spec, CookiesAgree
=============================================================================
