------------------------------ MODULE Sessions ------------------------------
(***************************************************************************)
(* What refresh tokens promise.  A session is opened by a login and closed *)
(* for good, by revocation or by age; a request for a new access token is  *)
(* granted only if its session was open when the request was made, however *)
(* long the answer takes and whatever happens to the session meanwhile.    *)
(***************************************************************************)
CONSTANTS Tokens, Requests, NoToken

VARIABLES
    session,    \* session[t]: "none", "open" or "closed"
    ask,        \* ask[q]: what q asks for and whether it was open then, or NoAsk
    verdict     \* verdict[q]: how the last request of slot q ended

sessionVars == <<session, ask, verdict>>

NoAsk == [token |-> NoToken, open |-> FALSE, pending |-> FALSE]

Init ==
    /\ session = [t \in Tokens |-> "none"]
    /\ ask = [q \in Requests |-> NoAsk]
    /\ verdict = [q \in Requests |-> "none"]

Open(t) ==
    /\ session[t] = "none"
    /\ session' = [session EXCEPT ![t] = "open"]
    /\ UNCHANGED <<ask, verdict>>

Close(t) ==
    /\ session[t] = "open"
    /\ session' = [session EXCEPT ![t] = "closed"]
    /\ UNCHANGED <<ask, verdict>>

Ask(q) ==
    /\ ~ask[q].pending
    /\ \E t \in Tokens \cup {NoToken} :
          ask' = [ask EXCEPT ![q] = [token |-> t, pending |-> TRUE,
                                     open |-> t # NoToken /\ session[t] = "open"]]
    /\ verdict' = [verdict EXCEPT ![q] = "none"]
    /\ UNCHANGED session

Answer(q, how) ==
    /\ ask[q].pending
    /\ how = "granted" => ask[q].open
    /\ ask' = [ask EXCEPT ![q] = NoAsk]
    /\ verdict' = [verdict EXCEPT ![q] = how]
    /\ UNCHANGED session

(* The slot is used for something else.                                    *)
Leave(q) ==
    /\ ~ask[q].pending
    /\ verdict' = [verdict EXCEPT ![q] = "none"]
    /\ UNCHANGED <<session, ask>>

Next ==
    \/ \E t \in Tokens : Open(t) \/ Close(t)
    \/ \E q \in Requests :
          Ask(q) \/ Leave(q) \/ Answer(q, "granted") \/ Answer(q, "denied")

Spec == Init /\ [][Next]_sessionVars
=============================================================================
