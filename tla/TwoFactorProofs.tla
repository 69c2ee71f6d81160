--------------------------- MODULE TwoFactorProofs ---------------------------
(***************************************************************************)
(* Proofs about TwoFactor.  What a handler holds in each await (Base) is   *)
(* inductive with the types; the freshness of its objects follows, since   *)
(* every write marks what the others hold; the action properties and the   *)
(* refinement are read off these two.                                      *)
(***************************************************************************)
EXTENDS TwoFactor, TLAPS

Base == TypeOK /\ \A r \in Requests : HoldingsOf(r)

(* What is known of a request under way.                                   *)
LEMMA InputFields ==
    ASSUME Base, NEW r \in Requests, pc[r] # "idle"
    PROVE  /\ req[r] \in Input
           /\ req[r].user \in Users
           /\ req[r].op = "authenticate" => req[r].code \in Secrets
           /\ req[r].op = "visit" => req[r].marked \in BOOLEAN
           /\ RowOf(r) \in Row
<1>1. req[r] \in Input \cup {NoRequest}
  BY DEF Base, TypeOK
<1>2. req[r].op # "idle"
  BY DEF Base, HoldingsOf, AwaitOK
<1>3. req[r] \in Input
  BY <1>1, <1>2 DEF NoRequest
<1>4. req[r].user \in Users
  BY <1>3 DEF Input
<1>5. RowOf(r) \in Row
  BY <1>4 DEF Base, TypeOK, RowOf
<1> QED
  BY <1>3, <1>4, <1>5 DEF Input

(* An object that is held is a row.                                        *)
LEMMA HeldIsRow ==
    ASSUME TypeOK, NEW r \in Requests, NEW c \in Copies
    PROVE  /\ copy[r] \in [Copies -> Row \cup {NoRow}]
           /\ copy[r][c] # NoRow => copy[r][c] \in Row
  BY DEF TypeOK

LEMMA RowFields ==
    ASSUME NEW row \in Row
    PROVE  /\ row.active \in BOOLEAN /\ row.secret \in Secrets \cup {NoSecret}
           /\ row.until \in Dates /\ row.enabled \in BOOLEAN
           /\ \A b \in BOOLEAN : [row EXCEPT !.active = b] \in Row
           /\ \A b \in BOOLEAN : [row EXCEPT !.enabled = b] \in Row
           /\ \A d \in Drawn : [row EXCEPT !.secret = d.secret, !.until = d.until] \in Row
  BY DEF Row, Drawn

-----------------------------------------------------------------------------
(* Types *)

LEMMA Nothing ==
    /\ NoCopies \in [Copies -> Row \cup {NoRow}]
    /\ NothingDrawn \in Drawn
    /\ "idle" \in Pcs
<1>1. NoCopies \in [Copies -> Row \cup {NoRow}]
  BY DEF NoCopies
<1>2. NothingDrawn \in Drawn
  BY TimeAssumption DEF NothingDrawn, Drawn, Dates
<1>3. "idle" \in Pcs
  BY DEF Pcs
<1> QED
  BY <1>1, <1>2, <1>3

LEMMA BaseInit == Init => Base
<1> SUFFICES ASSUME Init PROVE Base
  OBVIOUS
<1>1. TypeOK
  <2>1. 0 \in Dates /\ 0 \in 0 .. MaxTime
    BY TimeAssumption DEF Dates
  <2>2. users \in [Users -> Row]
    BY <2>1 DEF Init, Row
  <2> QED
    BY <2>1, <2>2, Nothing DEF Init, TypeOK
<1>2. ASSUME NEW r \in Requests PROVE HoldingsOf(r)
  BY DEF Init, HoldingsOf, AwaitOK, HoldsReq, HoldsDoc, NoCopies, NoRequest, Copies
<1> QED
  BY <1>1, <1>2 DEF Base

LEMMA FinishTypes ==
    ASSUME TypeOK, NEW r \in Requests, Finish(r)
    PROVE  /\ now' \in 0 .. MaxTime
           /\ req' \in [Requests -> Input \cup {NoRequest}]
           /\ pc' \in [Requests -> Pcs]
           /\ copy' \in [Requests -> [Copies -> Row \cup {NoRow}]]
           /\ fresh' \in [Requests -> Drawn]
  BY Nothing DEF TypeOK, Finish

LEMMA AwaitTypes ==
    ASSUME TypeOK, NEW r \in Requests, NEW where \in Pcs, Await(r, where)
    PROVE  /\ now' \in 0 .. MaxTime
           /\ req' \in [Requests -> Input \cup {NoRequest}]
           /\ pc' \in [Requests -> Pcs]
  BY DEF TypeOK, Await

LEMMA ReadTypes ==
    ASSUME Base, NEW r \in Requests, pc[r] # "idle", NEW c \in Copies, Read(r, c)
    PROVE  /\ users' \in [Users -> Row]
           /\ copy' \in [Requests -> [Copies -> Row \cup {NoRow}]]
           /\ fresh' \in [Requests -> Drawn]
           /\ overtaken' \in [Requests -> SUBSET Copies]
  BY InputFields DEF Base, TypeOK, Read

LEMMA DropTypes ==
    ASSUME TypeOK, NEW r \in Requests, Drop(r)
    PROVE  /\ users' \in [Users -> Row]
           /\ copy' \in [Requests -> [Copies -> Row \cup {NoRow}]]
           /\ fresh' \in [Requests -> Drawn]
           /\ overtaken' \in [Requests -> SUBSET Copies]
  BY Nothing DEF TypeOK, Drop

LEMMA WriteTypes ==
    ASSUME Base, NEW r \in Requests, pc[r] # "idle", NEW row \in Row,
           NEW mine \in SUBSET Copies, Write(r, row, mine)
    PROVE  /\ users' \in [Users -> Row]
           /\ overtaken' \in [Requests -> SUBSET Copies]
           /\ sessions' \subseteq Users /\ tokens' \subseteq Token
  BY InputFields DEF Base, TypeOK, Write, Keeps

LEMMA WriteLastTypes ==
    ASSUME Base, NEW r \in Requests, pc[r] # "idle", NEW row \in Row, WriteLast(r, row)
    PROVE  /\ users' \in [Users -> Row]
           /\ overtaken' \in [Requests -> SUBSET Copies]
           /\ sessions' \subseteq Users /\ tokens' \subseteq Token
           /\ now' \in 0 .. MaxTime
           /\ req' \in [Requests -> Input \cup {NoRequest}]
           /\ pc' \in [Requests -> Pcs]
           /\ copy' \in [Requests -> [Copies -> Row \cup {NoRow}]]
           /\ fresh' \in [Requests -> Drawn]
  BY WriteTypes, FinishTypes DEF Base, WriteLast

(* The rows the handlers write.                                            *)
LEMMA RowsWritten ==
    ASSUME Base, NEW r \in Requests
    PROVE  /\ pc[r] = "secret" => WithSecret(r) \in Row
           /\ Toggles(r) => [copy[r].req EXCEPT !.enabled = req[r].op = "enable"] \in Row
           /\ pc[r] = "write" /\ req[r].op \in {"activate", "reset"} =>
                [copy[r].doc EXCEPT !.active = @ \/ req[r].op = "activate"] \in Row
           /\ pc[r] = "column" =>
                \A active \in BOOLEAN : [RowOf(r) EXCEPT !.active = active] \in Row
<1>1. ASSUME NEW c \in Copies, copy[r][c] # NoRow PROVE copy[r][c] \in Row
  BY <1>1, HeldIsRow DEF Base
<1>2. HoldsReq(req[r].op, pc[r]) => copy[r].req \in Row
  BY <1>1 DEF Base, HoldingsOf, Copies
<1>3. HoldsDoc(req[r].op, pc[r]) => copy[r].doc \in Row
  BY <1>1 DEF Base, HoldingsOf, Copies
<1>4. pc[r] = "secret" => WithSecret(r) \in Row
  BY <1>3, RowFields DEF HoldsDoc, WithSecret, Base, TypeOK
<1>5. Toggles(r) => [copy[r].req EXCEPT !.enabled = req[r].op = "enable"] \in Row
  BY <1>2, RowFields DEF HoldsReq, Toggles
<1>6. pc[r] = "write" /\ req[r].op \in {"activate", "reset"} =>
        [copy[r].doc EXCEPT !.active = @ \/ req[r].op = "activate"] \in Row
  BY <1>3, RowFields DEF HoldsDoc
<1>7. pc[r] = "column" => \A active \in BOOLEAN : [RowOf(r) EXCEPT !.active = active] \in Row
  BY InputFields, RowFields
<1> QED
  BY <1>4, <1>5, <1>6, <1>7

LEMMA BeginTypes ==
    ASSUME Base, NEW r \in Requests, Begin(r)
    PROVE  /\ now' \in 0 .. MaxTime
           /\ users' \in [Users -> Row]
           /\ sessions' \subseteq Users /\ tokens' \subseteq Token
           /\ req' \in [Requests -> Input \cup {NoRequest}]
           /\ pc' \in [Requests -> Pcs]
           /\ copy' \in [Requests -> [Copies -> Row \cup {NoRow}]]
           /\ fresh' \in [Requests -> Drawn]
           /\ overtaken' \in [Requests -> SUBSET Copies]
<1>1. \A op : FirstAwait(op) \in Pcs
  BY DEF FirstAwait, Pcs
<1> QED
  BY <1>1 DEF Base, TypeOK, Begin

Types ==
    /\ now' \in 0 .. MaxTime
    /\ users' \in [Users -> Row]
    /\ sessions' \subseteq Users /\ tokens' \subseteq Token
    /\ req' \in [Requests -> Input \cup {NoRequest}]
    /\ pc' \in [Requests -> Pcs]
    /\ copy' \in [Requests -> [Copies -> Row \cup {NoRow}]]
    /\ fresh' \in [Requests -> Drawn]
    /\ overtaken' \in [Requests -> SUBSET Copies]

LEMMA StepTypes == ASSUME Base, Step PROVE Types
<1>1. ASSUME NEW r \in Requests, Begin(r) PROVE Types
  BY <1>1, BeginTypes DEF Types
<1>2. ASSUME NEW r \in Requests, Continue(r) PROVE Types
  <2> "req" \in Copies /\ "doc" \in Copies /\ Keeps => sessions' \subseteq Users /\ tokens' \subseteq Token
    BY DEF Copies, Keeps, Base, TypeOK
  <2>a. {"session", "reply", "check", "inside", "write", "reload", "secret"} \subseteq Pcs
    BY DEF Pcs
  <2>1. CASE Verify(r)
    BY <2>1, <2>a, AwaitTypes, ReadTypes, DropTypes DEF Verify, Types, Base, TypeOK, Keeps, Copies
  <2>2. CASE OpenSession(r)
    <3>1. req[r].user \in Users
      BY <2>2, InputFields DEF OpenSession
    <3> QED
      BY <2>2, <2>a, <3>1, AwaitTypes, DropTypes DEF OpenSession, Types, Base, TypeOK
  <2>3. CASE Resolve(r)
    BY <2>3, <2>a, AwaitTypes DEF Resolve, Types, Base, TypeOK
  <2>4. CASE CheckCode(r)
    BY <2>4, <2>a, AwaitTypes, DropTypes DEF CheckCode, Types, Base, TypeOK, Keeps
  <2>5. CASE Reply(r)
    <3>1. req[r].user \in Users
      BY <2>5, InputFields DEF Reply, Issue
    <3>2. [user |-> req[r].user, marked |-> req[r].op \in {"authenticate"}] \in Token
      BY <3>1 DEF Token
    <3>3. tokens' \subseteq Token
      BY <2>5, <3>2 DEF Reply, Issue, Base, TypeOK
    <3> QED
      BY <2>5, <3>3, FinishTypes DEF Reply, Issue, Types, Base, TypeOK
  <2>6. CASE Guard(r)
    BY <2>6, <2>a, AwaitTypes, ReadTypes DEF Guard, Types, Base, TypeOK, Keeps, Copies
  <2>7. CASE Admit(r)
    BY <2>7, <2>a, AwaitTypes, DropTypes DEF Admit, Types, Base, TypeOK, Keeps
  <2>8. CASE DrawSecret(r)
    <3>1. now + 1 \in Dates
      BY TimeAssumption DEF Base, TypeOK, Dates
    <3>2. PICK s \in Secrets : fresh' = [fresh EXCEPT ![r] = [secret |-> s, until |-> now + 1]]
      BY <2>8 DEF DrawSecret, Draw
    <3>3. fresh' \in [Requests -> Drawn]
      BY <3>1, <3>2 DEF Drawn, Base, TypeOK
    <3> QED
      BY <2>8, <2>a, <3>3, AwaitTypes DEF DrawSecret, Draw, Types, Base, TypeOK
  <2>9. CASE Reload(r)
    BY <2>9, <2>a, AwaitTypes, ReadTypes DEF Reload, Types, Base, TypeOK, Keeps, Copies
  <2>10. CASE WriteSecret(r)
    <3>1. overtaken[r] \ {"doc"} \in SUBSET Copies /\ WithSecret(r) \in Row
      BY <2>10, RowsWritten DEF Base, TypeOK, WriteSecret, StoreSecret
    <3>2. copy' \in [Requests -> [Copies -> Row \cup {NoRow}]]
      BY <2>10 DEF WriteSecret, StoreSecret, Base, TypeOK
    <3> QED
      BY <2>10, <2>a, <3>1, <3>2, AwaitTypes, WriteTypes
         DEF WriteSecret, StoreSecret, Types, Base, TypeOK
  <2>11. CASE WriteToggle(r)
    BY <2>11, RowsWritten, WriteLastTypes DEF WriteToggle, Toggles, Types
  <2>12. CASE Find(r)
    BY <2>12, <2>a, AwaitTypes, ReadTypes DEF Find, Types, Base, TypeOK, Keeps, Copies
  <2>13. CASE WriteBack(r)
    BY <2>13, RowsWritten, WriteLastTypes DEF WriteBack, Types
  <2>14. CASE WriteStatus(r)
    BY <2>14, RowsWritten, WriteLastTypes DEF WriteStatus, Types
  <2>15. CASE CallFails(r)
    BY <2>15, FinishTypes DEF CallFails, Refuse, Types, Base, TypeOK, Keeps
  <2> QED
    BY <1>2, <2>1, <2>2, <2>3, <2>4, <2>5, <2>6, <2>7, <2>8, <2>9, <2>10, <2>11, <2>12,
       <2>13, <2>14, <2>15 DEF Continue
<1>3. ASSUME NEW u \in Users, EndSession(u) PROVE Types
  BY <1>3 DEF EndSession, Types, Base, TypeOK
<1>4. CASE Tick
  BY <1>4, TimeAssumption DEF Tick, Types, Base, TypeOK
<1> QED
  BY <1>1, <1>2, <1>3, <1>4 DEF Step

(* What a step of r leaves of the other requests: everything, but that the *)
(* objects they hold may be overtaken.                                     *)
Frame(r) ==
    \A s \in Requests \ {r} :
        /\ pc'[s] = pc[s] /\ req'[s] = req[s] /\ copy'[s] = copy[s] /\ fresh'[s] = fresh[s]
        /\ \/ overtaken'[s] = overtaken[s]
           \/ overtaken'[s] = overtaken[s] \cup {c \in Copies : copy[s][c] # NoRow}

LEMMA WriteFrame ==
    ASSUME Base, NEW r \in Requests, NEW row, NEW mine, Write(r, row, mine)
    PROVE  \A s \in Requests \ {r} :
              \/ overtaken'[s] = overtaken[s]
              \/ overtaken'[s] = overtaken[s] \cup {c \in Copies : copy[s][c] # NoRow}
<1> SUFFICES ASSUME NEW s \in Requests \ {r}
             PROVE  \/ overtaken'[s] = overtaken[s]
                    \/ overtaken'[s] = overtaken[s] \cup {c \in Copies : copy[s][c] # NoRow}
  OBVIOUS
<1>1. overtaken'[s] = overtaken[s] \cup
          {c \in Copies : copy[s][c] # NoRow /\ req[s].user = req[r].user}
  BY DEF Write
<1>2. CASE req[s].user = req[r].user
  BY <1>1, <1>2
<1>3. CASE req[s].user # req[r].user
  BY <1>1, <1>3
<1> QED
  BY <1>2, <1>3

LEMMA StepFrame ==
    ASSUME Base, NEW r \in Requests, Begin(r) \/ Continue(r)
    PROVE  Frame(r)
<1>1. CASE Begin(r)
  BY <1>1 DEF Begin, Frame, Base, TypeOK
<1>2. CASE Verify(r)
  BY <1>2 DEF Verify, Read, Drop, Await, Frame, Base, TypeOK
<1>3. CASE OpenSession(r)
  BY <1>3 DEF OpenSession, Drop, Await, Frame, Base, TypeOK
<1>4. CASE Resolve(r)
  BY <1>4 DEF Resolve, Await, Frame, Base, TypeOK
<1>5. CASE CheckCode(r)
  BY <1>5 DEF CheckCode, Drop, Await, Frame, Base, TypeOK
<1>6. CASE Reply(r)
  BY <1>6 DEF Reply, Issue, Finish, Frame, Base, TypeOK
<1>7. CASE Guard(r)
  BY <1>7 DEF Guard, Read, Await, Frame, Base, TypeOK
<1>8. CASE Admit(r)
  BY <1>8 DEF Admit, Drop, Await, Frame, Base, TypeOK
<1>9. CASE DrawSecret(r)
  BY <1>9 DEF DrawSecret, Draw, Await, Frame, Base, TypeOK
<1>10. CASE Reload(r)
  BY <1>10 DEF Reload, Read, Await, Frame, Base, TypeOK
<1>11. CASE WriteSecret(r)
  <2>1. \A s \in Requests \ {r} :
           pc'[s] = pc[s] /\ req'[s] = req[s] /\ copy'[s] = copy[s] /\ fresh'[s] = fresh[s]
    BY <1>11 DEF WriteSecret, StoreSecret, Await, Base, TypeOK
  <2> QED
    BY <1>11, <2>1, WriteFrame DEF WriteSecret, StoreSecret, Frame
<1>12. ASSUME NEW row, WriteLast(r, row) PROVE Frame(r)
  <2>1. \A s \in Requests \ {r} :
           pc'[s] = pc[s] /\ req'[s] = req[s] /\ copy'[s] = copy[s] /\ fresh'[s] = fresh[s]
    BY <1>12 DEF WriteLast, Finish, Base, TypeOK
  <2> QED
    BY <1>12, <2>1, WriteFrame DEF WriteLast, Frame
<1>13. CASE WriteToggle(r)
  BY <1>12, <1>13 DEF WriteToggle
<1>14. CASE Find(r)
  BY <1>14 DEF Find, Read, Await, Frame, Base, TypeOK
<1>15. CASE WriteBack(r)
  BY <1>12, <1>15 DEF WriteBack
<1>16. CASE WriteStatus(r)
  BY <1>12, <1>16 DEF WriteStatus
<1>17. CASE CallFails(r)
  BY <1>17 DEF CallFails, Refuse, Finish, Frame, Base, TypeOK
<1> QED
  BY <1>1, <1>2, <1>3, <1>4, <1>5, <1>6, <1>7, <1>8, <1>9, <1>10, <1>11, <1>13, <1>14,
     <1>15, <1>16, <1>17 DEF Continue

LEMMA OthersHold ==
    ASSUME Base, NEW r \in Requests, Frame(r), NEW s \in Requests \ {r}
    PROVE  HoldingsOf(s)'
<1>1. HoldingsOf(s)
  BY DEF Base
<1>2. CASE overtaken'[s] = overtaken[s]
  BY <1>1, <1>2 DEF Frame, HoldingsOf
<1>3. CASE overtaken'[s] = overtaken[s] \cup {c \in Copies : copy[s][c] # NoRow}
  BY <1>1, <1>3 DEF Frame, HoldingsOf, Copies
<1> QED
  BY <1>2, <1>3 DEF Frame

(* A request that was answered holds nothing.                              *)
LEMMA FinishedHolds ==
    ASSUME Base, NEW r \in Requests, Finish(r), overtaken'[r] = {}
    PROVE  HoldingsOf(r)'
<1>1. pc'[r] = "idle" /\ req'[r] = NoRequest /\ copy'[r] = NoCopies
  BY DEF Finish, Base, TypeOK
<1> QED
  BY <1>1 DEF HoldingsOf, AwaitOK, HoldsReq, HoldsDoc, NoCopies, NoRequest, Copies

(* The same of one that dropped its objects and needs none.                *)
LEMMA DroppedHolds ==
    ASSUME Base, NEW r \in Requests, NEW where, Await(r, where), Drop(r),
           AwaitOK(req[r].op, where), where \in {"reply", "inside"}
    PROVE  HoldingsOf(r)'
<1>1. pc'[r] = where /\ req'[r] = req[r] /\ copy'[r] = NoCopies /\ overtaken'[r] = {}
  BY DEF Await, Drop, Base, TypeOK
<1> QED
  BY <1>1 DEF HoldingsOf, HoldsReq, HoldsDoc, NoCopies, Copies

LEMMA WriteLastHolds ==
    ASSUME Base, NEW r \in Requests, NEW row, WriteLast(r, row)
    PROVE  HoldingsOf(r)'
  BY FinishedHolds DEF WriteLast, Write, Base, TypeOK

LEMMA MineHolds ==
    ASSUME Base, NEW r \in Requests, Begin(r) \/ Continue(r)
    PROVE  HoldingsOf(r)'
<1> USE DEF Base
<1>0. HoldingsOf(r)
  OBVIOUS
<1>1. CASE Begin(r)
  <2>1. PICK i \in Input : /\ req' = [req EXCEPT ![r] = i]
                           /\ pc' = [pc EXCEPT ![r] = FirstAwait(i.op)]
    BY <1>1 DEF Begin
  <2>2. AwaitOK(i.op, FirstAwait(i.op))
        /\ ~HoldsReq(i.op, FirstAwait(i.op)) /\ ~HoldsDoc(i.op, FirstAwait(i.op))
        /\ FirstAwait(i.op) # "session"
    BY DEF Input, AwaitOK, FirstAwait, HoldsReq, HoldsDoc
  <2>3. copy[r].req = NoRow /\ copy[r].doc = NoRow /\ overtaken[r] = {}
    <3>1. copy[r].req = NoRow /\ copy[r].doc = NoRow
      BY <1>0, <1>1 DEF HoldingsOf, HoldsReq, HoldsDoc, Begin
    <3> QED
      BY <1>0, <3>1 DEF HoldingsOf, TypeOK, Copies
  <2>4. pc'[r] = FirstAwait(i.op) /\ req'[r] = i /\ copy'[r] = copy[r] /\ overtaken'[r] = overtaken[r]
    BY <1>1, <2>1 DEF Begin, TypeOK
  <2> QED
    BY <2>2, <2>3, <2>4 DEF HoldingsOf
<1>2. CASE Verify(r)
  <2>1. req[r].op = "login" /\ copy[r].req = NoRow /\ copy[r].doc = NoRow
    BY <1>0, <1>2 DEF Verify, HoldingsOf, AwaitOK, HoldsReq, HoldsDoc
  <2>2. CASE Read(r, "doc") /\ Await(r, "session")
    <3>1. /\ pc'[r] = "session" /\ req'[r] = req[r] /\ overtaken'[r] = overtaken[r]
          /\ copy'[r] = [copy[r] EXCEPT !["doc"] = RowOf(r)]
      BY <2>2 DEF Read, Await, TypeOK
    <3>2. copy'[r].req = NoRow /\ copy'[r].doc = RowOf(r) /\ RowOf(r) # NoRow
      BY <3>1, <2>1, <1>2, InputFields, HeldIsRow, NoRowAssumption DEF Copies, Verify
    <3>3. overtaken[r] = {}
      BY <1>0, <2>1 DEF HoldingsOf, TypeOK, Copies
    <3> QED
      BY <1>2, <2>1, <3>1, <3>2, <3>3 DEF HoldingsOf, AwaitOK, HoldsReq, HoldsDoc, Verify
  <2>3. CASE Drop(r) /\ Await(r, "reply")
    BY <2>1, <2>3, DroppedHolds DEF AwaitOK
  <2> QED
    BY <1>2, <2>2, <2>3 DEF Verify
<1>3. CASE OpenSession(r)
  BY <1>0, <1>3, DroppedHolds DEF OpenSession, HoldingsOf, AwaitOK
<1>4. CASE Resolve(r)
  <2>1. pc'[r] = "reply" /\ req'[r] = req[r] /\ copy'[r] = copy[r] /\ overtaken'[r] = overtaken[r]
    BY <1>4 DEF Resolve, Await, TypeOK
  <2> QED
    BY <1>0, <1>4, <2>1 DEF Resolve, HoldingsOf, AwaitOK, HoldsReq, HoldsDoc
<1>5. CASE CheckCode(r)
  BY <1>5, DroppedHolds DEF CheckCode, AwaitOK
<1>6. CASE Reply(r)
  BY <1>6, FinishedHolds DEF Reply, Issue, TypeOK
<1>7. CASE Guard(r)
  <2>1. /\ pc'[r] = IF req[r].op = "disable" THEN "write" ELSE "check"
        /\ req'[r] = req[r] /\ overtaken'[r] = overtaken[r]
        /\ copy'[r] = [copy[r] EXCEPT !["req"] = RowOf(r)]
    BY <1>7 DEF Guard, Read, Await, TypeOK
  <2>2. copy[r].req = NoRow /\ copy[r].doc = NoRow
    BY <1>0, <1>7 DEF Guard, HoldingsOf, HoldsReq, HoldsDoc
  <2>3. copy'[r].doc = NoRow /\ copy'[r].req = RowOf(r) /\ RowOf(r) # NoRow
    BY <2>1, <2>2, <1>7, InputFields, HeldIsRow, NoRowAssumption DEF Copies, Guard
  <2>4. overtaken[r] = {}
    BY <1>0, <2>2 DEF HoldingsOf, TypeOK, Copies
  <2>5. req[r].op \in {"visit", "authenticate", "enable", "disable"}
    BY <1>0, <1>7 DEF Guard, HoldingsOf, AwaitOK
  <2> QED
    BY <2>1, <2>3, <2>4, <2>5 DEF HoldingsOf, AwaitOK, HoldsReq, HoldsDoc
<1>8. CASE Admit(r)
  BY <1>8, DroppedHolds DEF Admit, AwaitOK
<1>9. CASE DrawSecret(r)
  <2>1. pc'[r] = "reload" /\ req'[r] = req[r] /\ copy'[r] = copy[r] /\ overtaken'[r] = overtaken[r]
    BY <1>9 DEF DrawSecret, Draw, Await, TypeOK
  <2> QED
    BY <1>0, <1>9, <2>1 DEF DrawSecret, Draw, HoldingsOf, AwaitOK, HoldsReq, HoldsDoc
<1>10. CASE Reload(r)
  <2>1. /\ pc'[r] = "secret" /\ req'[r] = req[r] /\ overtaken'[r] = overtaken[r]
        /\ copy'[r] = [copy[r] EXCEPT !["doc"] = RowOf(r)]
    BY <1>10 DEF Reload, Read, Await, TypeOK
  <2>2. copy[r].req # NoRow /\ copy[r].doc = NoRow /\ req[r].op = "enable"
    BY <1>0, <1>10 DEF Reload, HoldingsOf, HoldsReq, HoldsDoc, AwaitOK
  <2>3. copy'[r].req = copy[r].req /\ copy'[r].doc = RowOf(r) /\ RowOf(r) # NoRow
    BY <2>1, <1>10, InputFields, HeldIsRow, NoRowAssumption DEF Copies, Reload
  <2>4. overtaken[r] \subseteq {"req"}
    BY <1>0, <2>2 DEF HoldingsOf, TypeOK, Copies
  <2> QED
    BY <2>1, <2>2, <2>3, <2>4 DEF HoldingsOf, AwaitOK, HoldsReq, HoldsDoc
<1>11. CASE WriteSecret(r)
  <2>1. /\ pc'[r] = "write" /\ req'[r] = req[r] /\ overtaken'[r] = overtaken[r] \ {"doc"}
        /\ copy'[r] = [copy[r] EXCEPT !["doc"] = NoRow]
    BY <1>11 DEF WriteSecret, StoreSecret, Write, Await, TypeOK
  <2>2. copy[r].req # NoRow /\ req[r].op = "enable"
    BY <1>0, <1>11 DEF WriteSecret, StoreSecret, HoldingsOf, HoldsReq, AwaitOK
  <2>3. copy'[r].req = copy[r].req /\ copy'[r].doc = NoRow
    BY <2>1, HeldIsRow DEF Copies
  <2>4. overtaken'[r] \subseteq {"req"}
    BY <2>1 DEF TypeOK, Copies
  <2> QED
    BY <2>1, <2>2, <2>3, <2>4 DEF HoldingsOf, AwaitOK, HoldsReq, HoldsDoc
<1>12. CASE WriteToggle(r)
  BY <1>12, WriteLastHolds DEF WriteToggle
<1>13. CASE Find(r)
  <2>1. /\ pc'[r] = "write" /\ req'[r] = req[r] /\ overtaken'[r] = overtaken[r]
        /\ copy'[r] = [copy[r] EXCEPT !["doc"] = RowOf(r)]
    BY <1>13 DEF Find, Read, Await, TypeOK
  <2>2. copy[r].req = NoRow /\ copy[r].doc = NoRow /\ req[r].op \in {"activate", "reset"}
    BY <1>0, <1>13 DEF Find, HoldingsOf, HoldsReq, HoldsDoc, AwaitOK
  <2>3. copy'[r].req = NoRow /\ copy'[r].doc = RowOf(r) /\ RowOf(r) # NoRow
    BY <2>1, <2>2, <1>13, InputFields, HeldIsRow, NoRowAssumption DEF Copies, Find
  <2>4. overtaken[r] = {}
    BY <1>0, <2>2 DEF HoldingsOf, TypeOK, Copies
  <2> QED
    BY <2>1, <2>2, <2>3, <2>4 DEF HoldingsOf, AwaitOK, HoldsReq, HoldsDoc
<1>14. CASE WriteBack(r)
  BY <1>14, WriteLastHolds DEF WriteBack
<1>15. CASE WriteStatus(r)
  BY <1>15, WriteLastHolds DEF WriteStatus
<1>16. CASE CallFails(r)
  BY <1>16, FinishedHolds DEF CallFails, Refuse, TypeOK
<1> QED
  BY <1>1, <1>2, <1>3, <1>4, <1>5, <1>6, <1>7, <1>8, <1>9, <1>10, <1>11, <1>12, <1>13, <1>14,
     <1>15, <1>16 DEF Continue

LEMMA ObserveTypes == ASSUME Base, Types, Observe PROVE may' \in [Requests -> BOOLEAN]
  BY DEF Observe

LEMMA BaseStep == Base /\ [Next]_vars => Base'
<1>1. ASSUME Base, Next PROVE Base'
  <2>1. Types
    BY <1>1, StepTypes DEF Next
  <2>2. TypeOK'
    BY <1>1, <2>1, ObserveTypes DEF Next, Types, TypeOK
  <2>3. ASSUME NEW r \in Requests, Begin(r) \/ Continue(r), NEW s \in Requests
        PROVE  HoldingsOf(s)'
    BY <1>1, <2>3, StepFrame, OthersHold, MineHolds
  <2>4. ASSUME UNCHANGED <<req, pc, copy, overtaken>>, NEW s \in Requests
        PROVE  HoldingsOf(s)'
    BY <1>1, <2>4 DEF Base, HoldingsOf
  <2>5. \A s \in Requests : HoldingsOf(s)'
    BY <1>1, <2>3, <2>4 DEF Next, Step, EndSession, Tick
  <2> QED
    BY <2>2, <2>5 DEF Base
<1>2. ASSUME Base, UNCHANGED vars PROVE Base'
  BY <1>2 DEF Base, TypeOK, HoldingsOf, vars
<1> QED
  BY <1>1, <1>2

LEMMA BaseInvariant == Spec => []Base
  BY BaseInit, BaseStep, PTL DEF Spec

(* Every variable keeps its type.                                          *)
THEOREM TypeCorrect == Spec => []TypeOK
<1>1. Base => TypeOK
  BY DEF Base
<1> QED
  BY <1>1, BaseInvariant, PTL

-----------------------------------------------------------------------------
(* Freshness *)

FreshOf(r) ==
    \A c \in Copies : copy[r][c] # NoRow /\ c \notin overtaken[r] => RowOf(r) = Known(r, c)
Freshness == \A r \in Requests : FreshOf(r)

(* A request that holds nothing, or what it held when the row was as now.  *)
LEMMA NothingIsFresh ==
    ASSUME NEW r \in Requests, (\A c \in Copies : copy[r][c] = NoRow)'
    PROVE  FreshOf(r)'
  BY DEF FreshOf

LEMMA SameIsFresh ==
    ASSUME NEW r \in Requests, FreshOf(r), users' = users, req'[r] = req[r],
           copy'[r] = copy[r], overtaken'[r] = overtaken[r], fresh'[r] = fresh[r],
           pc'[r] = "write" /\ req[r].op = "enable" <=> pc[r] = "write" /\ req[r].op = "enable"
    PROVE  FreshOf(r)'
  BY DEF FreshOf, RowOf, Known

LEMMA FinishedIsFresh ==
    ASSUME Base, NEW r \in Requests, Finish(r)
    PROVE  FreshOf(r)'
<1>1. copy'[r] = NoCopies
  BY DEF Finish, Base, TypeOK
<1> QED
  BY <1>1, NothingIsFresh DEF NoCopies

LEMMA DroppedIsFresh ==
    ASSUME Base, NEW r \in Requests, Drop(r)
    PROVE  FreshOf(r)'
<1>1. copy'[r] = NoCopies
  BY DEF Drop, Base, TypeOK
<1> QED
  BY <1>1, NothingIsFresh DEF NoCopies

(* What a step of r does to the rows: nothing, or one write.               *)
LEMMA RowWritten ==
    ASSUME Base, NEW r \in Requests, Begin(r) \/ Continue(r)
    PROVE  \/ users' = users /\ \A s \in Requests \ {r} : overtaken'[s] = overtaken[s]
           \/ \E row, mine : Write(r, row, mine)
<1> USE DEF Base, TypeOK
<1>1. CASE Begin(r)
  BY <1>1 DEF Begin
<1>2. CASE Verify(r)
  BY <1>2 DEF Verify, Read, Drop
<1>3. CASE OpenSession(r) \/ Resolve(r) \/ CheckCode(r) \/ Admit(r)
  BY <1>3 DEF OpenSession, Resolve, CheckCode, Admit, Drop
<1>4. CASE Reply(r) \/ CallFails(r)
  BY <1>4 DEF Reply, Issue, CallFails, Refuse
<1>5. CASE Guard(r) \/ Reload(r) \/ Find(r)
  BY <1>5 DEF Guard, Reload, Find, Read
<1>6. CASE DrawSecret(r)
  BY <1>6 DEF DrawSecret, Draw
<1>7. CASE WriteSecret(r)
  BY <1>7 DEF WriteSecret, StoreSecret
<1>8. CASE WriteToggle(r) \/ WriteBack(r) \/ WriteStatus(r)
  BY <1>8 DEF WriteToggle, WriteBack, WriteStatus, WriteLast
<1> QED
  BY <1>1, <1>2, <1>3, <1>4, <1>5, <1>6, <1>7, <1>8 DEF Continue

LEMMA OthersFresh ==
    ASSUME Base, NEW r \in Requests, Begin(r) \/ Continue(r), NEW s \in Requests \ {r}, FreshOf(s)
    PROVE  FreshOf(s)'
<1>1. pc'[s] = pc[s] /\ req'[s] = req[s] /\ copy'[s] = copy[s] /\ fresh'[s] = fresh[s]
  BY StepFrame DEF Frame
<1>2. CASE users' = users /\ overtaken'[s] = overtaken[s]
  BY <1>1, <1>2, SameIsFresh
<1>3. ASSUME NEW row, NEW mine, Write(r, row, mine) PROVE FreshOf(s)'
  <2>1. overtaken'[s] = overtaken[s] \cup
            {c \in Copies : copy[s][c] # NoRow /\ req[s].user = req[r].user}
    BY <1>3 DEF Write
  <2>2. CASE req[s].user = req[r].user
    BY <1>1, <2>1, <2>2 DEF FreshOf
  <2>3. CASE req[s].user # req[r].user
    <3>1. overtaken'[s] = overtaken[s]
      BY <2>1, <2>3
    <3>2. \A c \in Copies : copy[s][c] # NoRow => pc[s] # "idle"
      BY DEF Base, HoldingsOf, HoldsReq, HoldsDoc, Copies
    <3>3. pc[s] # "idle" => RowOf(s)' = RowOf(s)
      BY <1>1, <1>3, <2>3, InputFields DEF Write, RowOf, Base, TypeOK
    <3>4. \A c \in Copies : Known(s, c)' = Known(s, c)
      BY <1>1 DEF Known
    <3> QED
      BY <1>1, <3>1, <3>2, <3>3, <3>4 DEF FreshOf
  <2> QED
    BY <2>2, <2>3
<1> QED
  BY <1>2, <1>3, RowWritten

(* A row that was just read is fresh.                                      *)
LEMMA ReadIsFresh ==
    ASSUME Base, NEW r \in Requests, NEW c \in Copies, Read(r, c), FreshOf(r),
           req'[r] = req[r], pc[r] # "write", pc'[r] = "write" => req[r].op # "enable"
    PROVE  FreshOf(r)'
<1>1. copy'[r] = [copy[r] EXCEPT ![c] = RowOf(r)] /\ overtaken'[r] = overtaken[r]
  BY DEF Read, Base, TypeOK
<1>2. RowOf(r)' = RowOf(r)
  BY DEF Read, RowOf
<1>3. SUFFICES ASSUME NEW d \in Copies, copy'[r][d] # NoRow, d \notin overtaken[r]
               PROVE  RowOf(r) = copy'[r][d]
  BY <1>1, <1>2 DEF FreshOf, Known
<1>4. CASE d = c
  BY <1>1, <1>4, HeldIsRow DEF Base
<1>5. CASE d # c
  <2>1. copy'[r][d] = copy[r][d]
    BY <1>1, <1>5, HeldIsRow DEF Base
  <2> QED
    BY <1>3, <2>1 DEF FreshOf, Known
<1> QED
  BY <1>4, <1>5

LEMMA MineFresh ==
    ASSUME Base, NEW r \in Requests, Begin(r) \/ Continue(r), FreshOf(r)
    PROVE  FreshOf(r)'
<1> USE DEF Base
<1>0. HoldingsOf(r)
  OBVIOUS
<1>1. CASE Begin(r)
  <2>1. \A c \in Copies : copy'[r][c] = NoRow
    BY <1>0, <1>1 DEF Begin, HoldingsOf, HoldsReq, HoldsDoc, Copies
  <2> QED
    BY <2>1, NothingIsFresh
<1>2. CASE Verify(r)
  <2>1. CASE Read(r, "doc") /\ Await(r, "session")
    BY <1>2, <2>1, ReadIsFresh DEF Verify, Await, Copies, TypeOK
  <2> QED
    BY <1>2, <2>1, DroppedIsFresh DEF Verify
<1>3. CASE OpenSession(r) \/ CheckCode(r) \/ Admit(r)
  BY <1>3, DroppedIsFresh DEF OpenSession, CheckCode, Admit
<1>4. CASE Resolve(r)
  BY <1>4, SameIsFresh DEF Resolve, Await, TypeOK
<1>5. CASE Reply(r) \/ CallFails(r)
  BY <1>5, FinishedIsFresh DEF Reply, Issue, CallFails, Refuse
<1>6. CASE Guard(r)
  BY <1>6, ReadIsFresh DEF Guard, Await, Copies, TypeOK
<1>7. CASE DrawSecret(r)
  <2>1. /\ users' = users /\ req'[r] = req[r] /\ copy'[r] = copy[r] /\ overtaken'[r] = overtaken[r]
        /\ pc[r] = "check" /\ pc'[r] = "reload"
    BY <1>7 DEF DrawSecret, Draw, Await, TypeOK
  <2> QED
    BY <2>1 DEF FreshOf, Known, RowOf
<1>8. CASE Reload(r)
  BY <1>8, ReadIsFresh DEF Reload, Await, Copies, TypeOK
<1>9. CASE WriteSecret(r)
  <2>1. /\ pc[r] = "secret" /\ pc'[r] = "write" /\ req'[r] = req[r] /\ fresh'[r] = fresh[r]
        /\ overtaken'[r] = overtaken[r] \ {"doc"}
        /\ copy'[r] = [copy[r] EXCEPT !["doc"] = NoRow]
        /\ users' = [users EXCEPT ![req[r].user] = WithSecret(r)]
    BY <1>9 DEF WriteSecret, StoreSecret, Write, Await, TypeOK
  <2>2. /\ req[r].op = "enable" /\ copy[r].req # NoRow /\ copy[r].doc # NoRow
        /\ "doc" \in overtaken[r] => "req" \in overtaken[r]
    BY <1>0, <2>1 DEF HoldingsOf, HoldsReq, HoldsDoc, AwaitOK
  <2>3. copy'[r].req = copy[r].req /\ copy'[r].doc = NoRow
    BY <2>1, HeldIsRow DEF Copies
  <2>4. RowOf(r)' = WithSecret(r)
    BY <2>1, InputFields DEF RowOf, TypeOK
  <2>5. "req" \notin overtaken[r] => copy[r].doc = copy[r].req
    BY <2>1, <2>2 DEF FreshOf, Known, Copies
  <2>6. "req" \notin overtaken'[r] => RowOf(r)' = Known(r, "req")'
    BY <2>1, <2>2, <2>3, <2>4, <2>5 DEF Known, WithSecret
  <2> QED
    BY <2>3, <2>6 DEF FreshOf, Copies
<1>10. CASE WriteToggle(r) \/ WriteBack(r) \/ WriteStatus(r)
  BY <1>10, FinishedIsFresh DEF WriteToggle, WriteBack, WriteStatus, WriteLast
<1>11. CASE Find(r)
  BY <1>11, ReadIsFresh DEF Find, Await, Copies, TypeOK, HoldingsOf, AwaitOK
<1> QED
  BY <1>1, <1>2, <1>3, <1>4, <1>5, <1>6, <1>7, <1>8, <1>9, <1>10, <1>11 DEF Continue

Inv == Base /\ Freshness

LEMMA InvStep == Inv /\ [Next]_vars => Inv'
<1>1. ASSUME Inv, Next PROVE Freshness'
  <2>1. ASSUME NEW r \in Requests, Begin(r) \/ Continue(r), NEW s \in Requests PROVE FreshOf(s)'
    BY <1>1, <2>1, MineFresh, OthersFresh DEF Inv, Freshness
  <2>2. ASSUME UNCHANGED <<users, req, pc, copy, fresh, overtaken>>, NEW s \in Requests
        PROVE  FreshOf(s)'
    BY <1>1, <2>2 DEF Inv, Freshness, FreshOf, RowOf, Known
  <2> QED
    BY <1>1, <2>1, <2>2 DEF Next, Step, EndSession, Tick, Freshness
<1>2. ASSUME Inv, UNCHANGED vars PROVE Freshness'
  BY <1>2 DEF Inv, Freshness, FreshOf, RowOf, Known, vars
<1> QED
  BY <1>1, <1>2, BaseStep DEF Inv

LEMMA Invariant == Spec => []Inv
<1>1. Init => Inv
  <2> SUFFICES ASSUME Init, NEW r \in Requests PROVE FreshOf(r)
    BY BaseInit DEF Inv, Freshness
  <2> QED
    BY DEF Init, FreshOf, NoCopies
<1> QED
  BY <1>1, InvStep, PTL DEF Spec

(* An object nobody overtook still says what the row is.                   *)
THEOREM FactorInvariantHolds == Spec => []FactorInvariant
<1>1. Inv => FactorInvariant
  BY DEF Inv, Base, Freshness, FreshOf, FactorInvariant
<1> QED
  BY <1>1, Invariant, PTL

-----------------------------------------------------------------------------
(* A session of an account that is not active is opened by a login that    *)
(* had read the row before it was blocked, and by nothing else.            *)
THEOREM SessionsNeedActive == Spec => NewSessionNeedsActive
<1>1. Inv /\ [Next]_vars =>
        [\A u \in sessions' \ sessions :
            users[u].active
            \/ \E r \in Requests :
                  OpenSession(r) /\ req[r].user = u /\ "doc" \in overtaken[r]]_vars
  <2> SUFFICES ASSUME Inv, Next, NEW u \in sessions' \ sessions, ~users[u].active
               PROVE  \E r \in Requests :
                         OpenSession(r) /\ req[r].user = u /\ "doc" \in overtaken[r]
    OBVIOUS
  <2>1. \E r \in Requests : OpenSession(r)
    BY DEF Next, Step, Begin, Continue, Verify, Resolve, CheckCode, Reply, Issue, Guard, Admit,
           DrawSecret, Draw, Reload, WriteSecret, StoreSecret, WriteToggle, Find, WriteBack,
           WriteStatus, WriteLast, Write, CallFails, Refuse, EndSession, Tick, Keeps
  <2>2. PICK r \in Requests : OpenSession(r)
    BY <2>1
  <2>3. req[r].user = u /\ pc[r] = "session"
    BY <2>2 DEF OpenSession
  <2>4. copy[r].doc # NoRow /\ copy[r].doc.active
    BY <2>3 DEF Inv, Base, HoldingsOf, HoldsDoc
  <2>5. "doc" \notin overtaken[r] => RowOf(r) = copy[r].doc
    BY <2>3, <2>4 DEF Inv, Freshness, FreshOf, Known, Copies
  <2> QED
    BY <2>2, <2>3, <2>4, <2>5 DEF RowOf
<1> QED
  BY <1>1, Invariant, PTL DEF Spec, NewSessionNeedsActive

(* The row of u as a step of r leaves it, if r writes it.                  *)
LEMMA RowAfter ==
    ASSUME Base, NEW r \in Requests, pc[r] # "idle", NEW row, NEW mine, Write(r, row, mine),
           NEW u \in Users
    PROVE  /\ u = req[r].user => users'[u] = row
           /\ u # req[r].user => users'[u] = users[u]
  BY DEF Write, Base, TypeOK

(* The factor is turned off by a toggle that says so, or by a write of an  *)
(* object that was overtaken.                                              *)
THEOREM FactorStays == Spec => FactorSticks
<1>1. Inv /\ [Next]_vars =>
        [\A u \in Users : users[u].enabled /\ ~users'[u].enabled =>
           \E r \in Requests :
              /\ req[r].op # "idle" /\ req[r].user = u
              /\ \/ WriteToggle(r) /\ req[r].op = "disable"
                 \/ \E c \in overtaken[r] : WritesFrom(r, c)]_vars
  <2> SUFFICES ASSUME Inv, Next, NEW u \in Users, users[u].enabled, ~users'[u].enabled
               PROVE  \E r \in Requests :
                         /\ req[r].op # "idle" /\ req[r].user = u
                         /\ \/ WriteToggle(r) /\ req[r].op = "disable"
                            \/ \E c \in overtaken[r] : WritesFrom(r, c)
    OBVIOUS
  <2>1. PICK r \in Requests : Continue(r) /\ users' # users
    BY DEF Next, Step, Begin, EndSession, Tick
  <2>2. WriteSecret(r) \/ WriteToggle(r) \/ WriteBack(r) \/ WriteStatus(r)
    BY <2>1 DEF Continue, Verify, Read, Drop, OpenSession, Resolve, CheckCode, Reply, Issue,
                Guard, Admit, DrawSecret, Draw, Reload, Find, CallFails, Refuse
  <2>3. pc[r] # "idle" /\ req[r].op # "idle"
    BY <2>2 DEF WriteSecret, StoreSecret, WriteToggle, Toggles, WriteBack, WriteStatus,
                Inv, Base, HoldingsOf, AwaitOK
  <2>4. HoldingsOf(r) /\ RowOf(r) \in Row
    BY <2>3, InputFields DEF Inv, Base
  <2>5. CASE WriteSecret(r)
    <3>1. copy[r].doc # NoRow /\ copy[r].doc \in Row
      BY <2>4, <2>5, HeldIsRow DEF WriteSecret, StoreSecret, HoldingsOf, HoldsDoc, Inv, Base, Copies
    <3>2. u = req[r].user /\ users'[u] = WithSecret(r)
      BY <2>3, <2>5, RowAfter DEF WriteSecret, StoreSecret, Inv
    <3>3. users'[u].enabled = copy[r].doc.enabled
      BY <3>1, <3>2 DEF WithSecret, Row
    <3>4. "doc" \in overtaken[r]
      BY <2>5, <3>1, <3>2, <3>3
         DEF Inv, Freshness, FreshOf, Known, RowOf, Copies, WriteSecret, StoreSecret
    <3> QED
      BY <2>3, <2>5, <3>2, <3>4 DEF WritesFrom
  <2>6. CASE WriteToggle(r)
    <3>1. copy[r].req # NoRow /\ copy[r].req \in Row
      BY <2>4, <2>6, HeldIsRow DEF WriteToggle, Toggles, HoldingsOf, HoldsReq, Inv, Base, Copies
    <3>2. u = req[r].user /\ users'[u] = [copy[r].req EXCEPT !.enabled = req[r].op = "enable"]
      BY <2>3, <2>6, RowAfter DEF WriteToggle, WriteLast, Inv
    <3>3. req[r].op = "disable"
      BY <2>6, <3>1, <3>2 DEF Row, WriteToggle, Toggles
    <3> QED
      BY <2>3, <2>6, <3>2, <3>3
  <2>7. CASE WriteBack(r)
    <3>1. copy[r].doc # NoRow /\ copy[r].doc \in Row
      BY <2>4, <2>7, HeldIsRow DEF WriteBack, HoldingsOf, HoldsDoc, Inv, Base, Copies
    <3>2. /\ u = req[r].user
          /\ users'[u] = [copy[r].doc EXCEPT !.active = @ \/ req[r].op = "activate"]
      BY <2>3, <2>7, RowAfter DEF WriteBack, WriteLast, Inv
    <3>3. users'[u].enabled = copy[r].doc.enabled
      BY <3>1, <3>2 DEF Row
    <3>4. "doc" \in overtaken[r]
      BY <2>7, <3>1, <3>2, <3>3 DEF Inv, Freshness, FreshOf, Known, RowOf, Copies, WriteBack
    <3> QED
      BY <2>3, <2>7, <3>2, <3>4 DEF WritesFrom
  <2>8. CASE WriteStatus(r)
    <3>1. PICK active \in BOOLEAN : WriteLast(r, [RowOf(r) EXCEPT !.active = active])
      BY <2>8 DEF WriteStatus
    <3>2. u = req[r].user /\ users'[u] = [RowOf(r) EXCEPT !.active = active]
      BY <2>3, <3>1, RowAfter DEF WriteLast, Inv
    <3> QED
      BY <2>4, <3>2 DEF Row, RowOf
  <2> QED
    BY <2>2, <2>5, <2>6, <2>7, <2>8
<1> QED
  BY <1>1, Invariant, PTL DEF Spec, FactorSticks

(* A toggle nobody overlaps leaves the status as it is, and turns the      *)
(* factor off by its flag alone.                                           *)
THEOREM TogglesAlone == Spec => ToggleAlone
<1>1. Inv /\ [Next]_vars =>
        [\A r \in Requests : WriteToggle(r) /\ "req" \notin overtaken[r] =>
            LET old == users[req[r].user]
                new == users'[req[r].user] IN
            /\ new.active = old.active
            /\ req[r].op = "disable" => new = [old EXCEPT !.enabled = FALSE]]_vars
  <2> SUFFICES ASSUME Inv, NEW r \in Requests, WriteToggle(r), "req" \notin overtaken[r]
               PROVE  LET old == users[req[r].user]
                          new == users'[req[r].user] IN
                      /\ new.active = old.active
                      /\ req[r].op = "disable" => new = [old EXCEPT !.enabled = FALSE]
    OBVIOUS
  <2> DEFINE old == users[req[r].user]
             new == users'[req[r].user]
  <2>1. pc[r] = "write" /\ req[r].op \in {"enable", "disable"}
    BY DEF WriteToggle, Toggles
  <2>2. HoldingsOf(r) /\ req[r].user \in Users
    BY <2>1, InputFields DEF Inv, Base
  <2>3. copy[r].req # NoRow /\ copy[r].req \in Row
    BY <2>1, <2>2, HeldIsRow DEF HoldingsOf, HoldsReq, Inv, Base, Copies
  <2>4. old = Known(r, "req")
    BY <2>3 DEF Inv, Freshness, FreshOf, RowOf, Copies
  <2>5. new = [copy[r].req EXCEPT !.enabled = req[r].op = "enable"]
    BY <2>1, <2>2, RowAfter DEF WriteToggle, WriteLast, Inv
  <2>6. CASE req[r].op = "disable"
    BY <2>3, <2>4, <2>5, <2>6 DEF Known, Row
  <2>7. CASE req[r].op = "enable"
    BY <2>1, <2>3, <2>4, <2>5, <2>7 DEF Known, Row
  <2> QED
    BY <2>1, <2>6, <2>7
<1> QED
  BY <1>1, Invariant, PTL DEF Spec, ToggleAlone

-----------------------------------------------------------------------------
(* The refinement.  A step that writes the row is a Change; asking, being  *)
(* let in, the issue of a marked token and the end of a request are the    *)
(* steps of the same name; all others leave what SecondFactor sees.        *)
(* What the objects of a request that was admitted so far say was due.     *)
MayOf(r) ==
    /\ pc[r] = "check" /\ req[r].op = "visit" =>
          (req[r].marked \/ ~copy[r].req.enabled => may[r])
    /\ pc[r] = "check" /\ req[r].op = "authenticate" =>
          (copy[r].req.secret = req[r].code => may[r])
    /\ pc[r] = "reply" /\ req[r].op = "authenticate" => may[r]
May == \A r \in Requests : MayOf(r)

LEMMA ObserveOne ==
    ASSUME Observe, NEW r \in Requests
    PROVE  may'[r] <=> /\ AskOf(req'[r]).kind # "none"
                       /\ may[r] \/ Due(AskOf(req'[r]), users')
  BY DEF Observe

(* What was due stays so while the request is under way.                   *)
LEMMA MayStays ==
    ASSUME Observe, NEW r \in Requests, req'[r] = req[r], may[r],
           req[r].op \in {"visit", "authenticate"}
    PROVE  may'[r]
  BY ObserveOne DEF AskOf

LEMMA MayStep == Base /\ May /\ [Next]_vars => May'
<1>1. ASSUME Base, May, Next, NEW r \in Requests, NEW s \in Requests \ {r},
             Begin(r) \/ Continue(r)
      PROVE  MayOf(s)'
  <2>1. pc'[s] = pc[s] /\ req'[s] = req[s] /\ copy'[s] = copy[s] /\ MayOf(s)
    BY <1>1, StepFrame DEF Frame, May
  <2> QED
    BY <1>1, <2>1, MayStays DEF MayOf, Next
<1>2. ASSUME Base, May, Next, NEW r \in Requests, Begin(r) \/ Continue(r)
      PROVE  MayOf(r)'
  <2>0. TypeOK /\ HoldingsOf(r)
    BY <1>2 DEF Base
  <2>1. CASE Guard(r)
    <3>1. req'[r] = req[r] /\ users' = users /\ pc'[r] # "reply"
          /\ copy'[r] = [copy[r] EXCEPT !["req"] = RowOf(r)]
      BY <2>0, <2>1 DEF Guard, Read, Await, TypeOK
    <3>2. copy'[r].req = RowOf(r)
      BY <2>0, <3>1, HeldIsRow DEF Copies
    <3>3. may'[r] <=> /\ AskOf(req[r]).kind # "none"
                      /\ may[r] \/ Due(AskOf(req[r]), users)
      BY <1>2, <3>1, ObserveOne DEF Next
    <3> QED
      BY <3>1, <3>2, <3>3 DEF MayOf, AskOf, Due, RowOf
  <2>2. CASE CheckCode(r)
    <3>1. pc'[r] = "reply" /\ req'[r] = req[r] /\ may[r] /\ req[r].op = "authenticate"
      BY <1>2, <2>0, <2>2 DEF CheckCode, Await, TypeOK, May, MayOf
    <3> QED
      BY <1>2, <3>1, MayStays DEF MayOf, Next
  <2>3. CASE Reply(r) \/ CallFails(r) \/ WriteToggle(r) \/ WriteBack(r) \/ WriteStatus(r)
    <3>1. pc'[r] = "idle"
      BY <2>0, <2>3 DEF Reply, Issue, CallFails, Refuse, WriteToggle, WriteBack, WriteStatus,
                        WriteLast, Finish, TypeOK
    <3> QED
      BY <3>1 DEF MayOf
  <2>4. CASE Verify(r) \/ OpenSession(r) \/ Resolve(r)
    <3>1. req'[r] = req[r] /\ req[r].op \in {"login", "refresh"}
      BY <2>0, <2>4 DEF Verify, OpenSession, Resolve, Await, TypeOK, HoldingsOf, AwaitOK
    <3> QED
      BY <3>1 DEF MayOf
  <2>5. CASE Admit(r) \/ DrawSecret(r) \/ Reload(r) \/ WriteSecret(r) \/ Find(r)
    <3>1. pc'[r] \notin {"check", "reply"}
      BY <2>0, <2>5 DEF Admit, DrawSecret, Draw, Reload, WriteSecret, StoreSecret, Find, Await,
                        TypeOK
    <3> QED
      BY <3>1 DEF MayOf
  <2>6. CASE Begin(r)
    <3>1. \A op : FirstAwait(op) \notin {"check", "reply"}
      BY DEF FirstAwait
    <3>2. pc'[r] \notin {"check", "reply"}
      BY <2>0, <2>6, <3>1 DEF Begin, TypeOK
    <3> QED
      BY <3>2 DEF MayOf
  <2> QED
    BY <1>2, <2>1, <2>2, <2>3, <2>4, <2>5, <2>6 DEF Continue
<1>3. ASSUME May, Next, NEW s \in Requests, UNCHANGED <<req, pc, copy>>
      PROVE  MayOf(s)'
  <2>1. MayOf(s) /\ req'[s] = req[s]
    BY <1>3 DEF May
  <2> QED
    BY <1>3, <2>1, MayStays DEF MayOf, Next
<1>4. ASSUME Base, May, Next PROVE May'
  <2>1. CASE \E r \in Requests : Begin(r) \/ Continue(r)
    BY <1>1, <1>2, <1>4, <2>1 DEF May
  <2>2. CASE UNCHANGED <<req, pc, copy>>
    BY <1>3, <1>4, <2>2 DEF May
  <2> QED
    BY <1>4, <2>1, <2>2 DEF Next, Step, EndSession, Tick
<1>5. ASSUME May, UNCHANGED vars PROVE May'
  BY <1>5 DEF May, MayOf, vars
<1> QED
  BY <1>4, <1>5

LEMMA MayInvariant == Spec => [](Base /\ May)
<1>1. Init => Base /\ May
  BY BaseInit DEF Init, May, MayOf
<1> QED
  BY <1>1, BaseStep, MayStep, PTL DEF Spec

LEMMA AbstractInit == Init => Abstract!Init
<1> SUFFICES ASSUME Init PROVE Abstract!Init
  OBVIOUS
<1>1. [u \in Users |-> [secret |-> users[u].secret, enabled |-> users[u].enabled]]
        = [u \in Users |-> [secret |-> NoSecret, enabled |-> FALSE]]
  BY DEF Init
<1>2. [r \in Requests |-> AskOf(req[r])] = [r \in Requests |-> Abstract!NoAsk]
  BY DEF Init, AskOf, NoRequest, Abstract!NoAsk
<1>3. {u \in Users : [user |-> u, marked |-> TRUE] \in tokens} = {}
  BY DEF Init
<1>4. {r \in Requests : pc[r] = "inside"} = {} /\ may = [r \in Requests |-> FALSE]
  BY DEF Init
<1> QED
  BY <1>1, <1>2, <1>3, <1>4 DEF Abstract!Init

(* Both modules remember the same.                                         *)
LEMMA SameMemory ==
    ASSUME Base', Observe
    PROVE  Abstract!Remember
<1>1. ASSUME NEW r \in Requests
      PROVE  /\ AskOf(req'[r]) # Abstract!NoAsk <=> AskOf(req'[r]).kind # "none"
             /\ AskOf(req'[r]).kind # "none" =>
                  (Due(AskOf(req'[r]), users') <=>
                   Abstract!Due(AskOf(req'[r]),
                       [u \in Users |-> [secret |-> users'[u].secret, enabled |-> users'[u].enabled]]))
  <2>1. req'[r] \in Input \cup {NoRequest}
    BY DEF Base, TypeOK
  <2>2. AskOf(req'[r]) # Abstract!NoAsk <=> AskOf(req'[r]).kind # "none"
    BY DEF AskOf, Abstract!NoAsk
  <2>3. AskOf(req'[r]).kind # "none" => AskOf(req'[r]).user \in Users
    BY <2>1 DEF AskOf, Input, NoRequest
  <2> QED
    BY <2>2, <2>3 DEF Due, Abstract!Due
<1>2. may' = [r \in Requests |->
        /\ AskOf(req'[r]) # Abstract!NoAsk
        /\ \/ may[r]
           \/ Abstract!Due(AskOf(req'[r]),
                [u \in Users |-> [secret |-> users'[u].secret, enabled |-> users'[u].enabled]])]
  BY <1>1 DEF Observe
<1> QED
  BY <1>2 DEF Abstract!Remember

(* Of a row written and of everything SecondFactor does not see.           *)
LEMMA IsChange ==
    ASSUME Base', tokens' = tokens \/ \E u : tokens' = tokens \cup {[user |-> u, marked |-> FALSE]},
           \A r \in Requests : /\ AskOf(req'[r]) = AskOf(req[r])
                               /\ pc'[r] = "inside" <=> pc[r] = "inside"
    PROVE  Abstract!Step
<1>1. [u \in Users |-> [secret |-> users'[u].secret, enabled |-> users'[u].enabled]]
        \in [Users -> Abstract!Factor]
  BY DEF Base, TypeOK, Row, Abstract!Factor
<1>2. {u \in Users : [user |-> u, marked |-> TRUE] \in tokens'}
        = {u \in Users : [user |-> u, marked |-> TRUE] \in tokens}
  OBVIOUS
<1>3. [r \in Requests |-> AskOf(req'[r])] = [r \in Requests |-> AskOf(req[r])]
  OBVIOUS
<1>4. {r \in Requests : pc'[r] = "inside"} = {r \in Requests : pc[r] = "inside"}
  OBVIOUS
<1>5. Abstract!Change
  BY <1>1, <1>2, <1>3, <1>4 DEF Abstract!Change
<1> QED
  BY <1>5 DEF Abstract!Step

(* The four steps of a request that SecondFactor sees.                     *)
LEMMA BeginIsAsk ==
    ASSUME Base, Base', NEW r \in Requests, Begin(r)
    PROVE  Abstract!Step
<1>1. PICK i \in Input :
          /\ Presents(i) # {} => Presents(i) \cap tokens # {}
          /\ req' = [req EXCEPT ![r] = i]
          /\ pc' = [pc EXCEPT ![r] = FirstAwait(i.op)]
  BY DEF Begin
<1>2. \A op : FirstAwait(op) # "inside"
  BY DEF FirstAwait
<1>3. req[r] = NoRequest /\ pc[r] = "idle" /\ AskOf(NoRequest) = Abstract!NoAsk
  <2>1. pc[r] = "idle" /\ req[r].op = "idle"
    BY DEF Begin, Base, HoldingsOf, AwaitOK
  <2>2. req[r] = NoRequest
    BY <2>1 DEF Base, TypeOK, Input
  <2>3. AskOf(NoRequest) = Abstract!NoAsk
    BY DEF NoRequest, AskOf, Abstract!NoAsk
  <2> QED
    BY <2>1, <2>2, <2>3
<1>4. \A s \in Requests : /\ req'[s] = IF s = r THEN i ELSE req[s]
                          /\ pc'[s] = "inside" <=> pc[s] = "inside"
  BY <1>1, <1>2, <1>3 DEF Base, TypeOK
<1>5. CASE i.op \notin {"visit", "authenticate"}
  <2>1. AskOf(i) = AskOf(NoRequest)
    BY <1>5 DEF AskOf, NoRequest
  <2> QED
    BY <1>3, <1>4, <2>1, IsChange DEF Begin
<1>6. CASE i.op \in {"visit", "authenticate"}
  <2>1. AskOf(i) \in Abstract!Visit \cup Abstract!Proof
    BY <1>6 DEF AskOf, Input, Abstract!Visit, Abstract!Proof
  <2>2. /\ AskOf(i).kind = "visit" /\ AskOf(i).marked
        => AskOf(i).user \in {u \in Users : [user |-> u, marked |-> TRUE] \in tokens}
    BY <1>1, <1>6 DEF AskOf, Presents, Input
  <2>3. [s \in Requests |-> AskOf(req'[s])]
          = [[s \in Requests |-> AskOf(req[s])] EXCEPT ![r] = AskOf(i)]
    BY <1>4
  <2>4. {s \in Requests : pc'[s] = "inside"} = {s \in Requests : pc[s] = "inside"}
    BY <1>4
  <2>5. [s \in Requests |-> AskOf(req[s])][r] = Abstract!NoAsk
    BY <1>3
  <2>6. Abstract!Ask(r)
    BY <2>1, <2>2, <2>3, <2>4, <2>5 DEF Abstract!Ask, Begin
  <2> QED
    BY <2>6 DEF Abstract!Step
<1> QED
  BY <1>5, <1>6

LEMMA AdmitIsLetIn ==
    ASSUME Base, May, NEW r \in Requests, Admit(r)
    PROVE  Abstract!Step
<1>1. may[r] /\ AskOf(req[r]).kind = "visit"
  BY DEF Admit, May, MayOf, AskOf
<1>2. {s \in Requests : pc'[s] = "inside"} = {s \in Requests : pc[s] = "inside"} \cup {r}
  BY DEF Admit, Await, Base, TypeOK
<1>3. req' = req /\ users' = users /\ tokens' = tokens
  BY DEF Admit, Await, Drop, Keeps
<1>4. Abstract!LetIn(r)
  BY <1>1, <1>2, <1>3 DEF Abstract!LetIn
<1> QED
  BY <1>4 DEF Abstract!Step

LEMMA FinishedAsks ==
    ASSUME Base, NEW r \in Requests, Finish(r)
    PROVE  /\ [s \in Requests |-> AskOf(req'[s])]
                = [[s \in Requests |-> AskOf(req[s])] EXCEPT ![r] = Abstract!NoAsk]
           /\ {s \in Requests : pc'[s] = "inside"} = {s \in Requests : pc[s] = "inside"} \ {r}
<1>1. AskOf(NoRequest) = Abstract!NoAsk
  BY DEF AskOf, NoRequest, Abstract!NoAsk
<1> QED
  BY <1>1 DEF Finish, Base, TypeOK

LEMMA ReplyIsProof ==
    ASSUME Base, Base', May, NEW r \in Requests, Reply(r)
    PROVE  Abstract!Step
<1>1. pc[r] = "reply" /\ Finish(r) /\ users' = users
  BY DEF Reply, Issue
<1>2. req[r].user \in Users /\ req[r].op \in {"login", "refresh", "authenticate"}
  BY <1>1, InputFields DEF Base, HoldingsOf, AwaitOK
<1>3. CASE req[r].op = "authenticate"
  <2>1. may[r] /\ AskOf(req[r]).kind = "proof" /\ AskOf(req[r]).user = req[r].user
    BY <1>1, <1>3 DEF May, MayOf, AskOf
  <2>2. tokens' = tokens \cup {[user |-> req[r].user, marked |-> TRUE]}
    BY <1>3 DEF Reply, Issue
  <2>3. {u \in Users : [user |-> u, marked |-> TRUE] \in tokens'}
          = {u \in Users : [user |-> u, marked |-> TRUE] \in tokens} \cup {req[r].user}
    BY <1>2, <2>2
  <2>4. {s \in Requests : pc'[s] = "inside"} = {s \in Requests : pc[s] = "inside"}
    BY <1>1, FinishedAsks
  <2>5. Abstract!Prove(r)
    BY <1>1, <2>1, <2>3, <2>4, FinishedAsks DEF Abstract!Prove
  <2> QED
    BY <2>5 DEF Abstract!Step
<1>4. CASE req[r].op \in {"login", "refresh"}
  <2>0. (req[r].op \in {"authenticate"}) = FALSE
    BY <1>4
  <2>1. tokens' = tokens \cup {[user |-> req[r].user, marked |-> FALSE]}
    BY <2>0 DEF Reply, Issue
  <2>2. AskOf(req[r]) = AskOf(NoRequest)
    BY <1>4 DEF AskOf, NoRequest
  <2>3. \A s \in Requests : /\ AskOf(req'[s]) = AskOf(req[s])
                            /\ pc'[s] = "inside" <=> pc[s] = "inside"
    BY <1>1, <2>2 DEF Finish, Base, TypeOK
  <2> QED
    BY <2>1, <2>3, IsChange
<1> QED
  BY <1>2, <1>3, <1>4

LEMMA FailureIsLeave ==
    ASSUME Base, NEW r \in Requests, CallFails(r)
    PROVE  Abstract!Step
<1>1. Finish(r) /\ users' = users /\ tokens' = tokens
  BY DEF CallFails, Refuse, Keeps
<1>2. Abstract!Leave(r)
  BY <1>1, FinishedAsks DEF Abstract!Leave
<1> QED
  BY <1>2 DEF Abstract!Step

(* The others change the row of a user, or nothing SecondFactor sees.      *)
LEMMA OthersChange ==
    ASSUME Base, Base', NEW r \in Requests,
           \/ Verify(r) \/ OpenSession(r) \/ Resolve(r) \/ CheckCode(r) \/ Guard(r)
           \/ DrawSecret(r) \/ Reload(r) \/ WriteSecret(r) \/ WriteToggle(r)
           \/ Find(r) \/ WriteBack(r) \/ WriteStatus(r)
    PROVE  Abstract!Step
<1>0. TypeOK /\ HoldingsOf(r)
  BY DEF Base
<1>1. tokens' = tokens
  BY DEF Verify, OpenSession, Resolve, CheckCode, Guard, DrawSecret, Draw, Reload, WriteSecret,
         StoreSecret, WriteToggle, Find, WriteBack, WriteStatus, WriteLast, Write, Keeps
<1>2. pc[r] # "inside"
  BY DEF Verify, OpenSession, Resolve, CheckCode, Guard, DrawSecret, Draw, Reload, WriteSecret,
         StoreSecret, WriteToggle, Toggles, Find, WriteBack, WriteStatus
<1>3. CASE WriteToggle(r) \/ WriteBack(r) \/ WriteStatus(r)
  <2>1. Finish(r) /\ AskOf(req[r]) = AskOf(NoRequest)
    BY <1>0, <1>3 DEF WriteToggle, Toggles, WriteBack, WriteStatus, WriteLast, HoldingsOf,
                      AwaitOK, AskOf, NoRequest
  <2>2. \A s \in Requests : /\ AskOf(req'[s]) = AskOf(req[s])
                            /\ pc'[s] = "inside" <=> pc[s] = "inside"
    BY <1>0, <1>2, <2>1 DEF Finish, TypeOK
  <2> QED
    BY <1>1, <2>2, IsChange
<1>4. ASSUME NEW where, where # "inside", Await(r, where) PROVE Abstract!Step
  <2>1. \A s \in Requests : req'[s] = req[s] /\ (pc'[s] = "inside" <=> pc[s] = "inside")
    BY <1>0, <1>2, <1>4 DEF Await, TypeOK
  <2> QED
    BY <1>1, <2>1, IsChange
<1>5. CASE Verify(r) \/ OpenSession(r) \/ Resolve(r) \/ CheckCode(r)
  BY <1>4, <1>5 DEF Verify, OpenSession, Resolve, CheckCode
<1>6. CASE Guard(r) \/ DrawSecret(r) \/ Reload(r) \/ WriteSecret(r) \/ Find(r)
  BY <1>4, <1>6 DEF Guard, DrawSecret, Draw, Reload, WriteSecret, StoreSecret, Find
<1> QED
  BY <1>3, <1>5, <1>6

LEMMA AbstractStep == Base /\ Base' /\ May /\ [Next]_vars => [Abstract!Next]_(Abstract!secondFactorVars)
<1>1. ASSUME Base, Base', May, Next PROVE Abstract!Next
  <2>1. Abstract!Remember
    BY <1>1, SameMemory DEF Next
  <2>2. ASSUME NEW r \in Requests, Begin(r) \/ Continue(r) PROVE Abstract!Step
    BY <1>1, <2>2, BeginIsAsk, AdmitIsLetIn, ReplyIsProof, FailureIsLeave, OthersChange
       DEF Continue
  <2>3. ASSUME Tick \/ \E u \in Users : EndSession(u) PROVE Abstract!Step
    BY <1>1, <2>3, IsChange DEF Tick, EndSession
  <2>4. Abstract!Step
    BY <1>1, <2>2, <2>3 DEF Next, Step
  <2> QED
    BY <2>1, <2>4 DEF Abstract!Next
<1>2. ASSUME UNCHANGED vars PROVE UNCHANGED Abstract!secondFactorVars
  BY <1>2 DEF vars, Abstract!secondFactorVars
<1> QED
  BY <1>1, <1>2

(* The code keeps what SecondFactor promises: nobody gets past the guard   *)
(* without having had, while asking, nothing to prove or a proof.          *)
THEOREM Refinement == Spec => ImplementsSecondFactor
  BY AbstractInit, AbstractStep, MayInvariant, PTL DEF Spec, ImplementsSecondFactor, Abstract!Spec
=============================================================================
