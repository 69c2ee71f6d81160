---------------------------- MODULE SecondFactor ----------------------------
(***************************************************************************)
(* What the second factor promises.  A user is let in who, at some moment  *)
(* between asking and being let in, either had nothing to prove or carried *)
(* a proof; and a proof is given only to who showed a code of the secret   *)
(* that was, at some moment between showing it and the answer, the one     *)
(* stored.  The user may change the factor at any time.                    *)
(***************************************************************************)
CONSTANTS Users, Requests, Secrets, NoSecret

VARIABLES
    factor,     \* factor[u]: the secret stored for u, and whether it is asked for
    proven,     \* the users to whom a proof was given
    ask,        \* ask[r]: to be let in, or for a proof
    could,      \* could[r]: what r asks for was due at some moment since it asked
    inside      \* the requests let in

secondFactorVars == <<factor, proven, ask, could, inside>>

Factor == [secret : Secrets \cup {NoSecret}, enabled : BOOLEAN]
Visit == [kind : {"visit"}, user : Users, marked : BOOLEAN]
Proof == [kind : {"proof"}, user : Users, code : Secrets]
NoAsk == [kind |-> "none"]

Due(a, table) ==
    \/ a.kind = "visit" /\ (a.marked \/ ~table[a.user].enabled)
    \/ a.kind = "proof" /\ a.code = table[a.user].secret

Init ==
    /\ factor = [u \in Users |-> [secret |-> NoSecret, enabled |-> FALSE]]
    /\ proven = {}
    /\ ask = [r \in Requests |-> NoAsk]
    /\ could = [r \in Requests |-> FALSE]
    /\ inside = {}

Change ==
    /\ factor' \in [Users -> Factor]
    /\ UNCHANGED <<proven, ask, inside>>

Ask(r) ==
    /\ ask[r] = NoAsk
    /\ \E a \in Visit \cup Proof :
          /\ a.kind = "visit" /\ a.marked => a.user \in proven
          /\ ask' = [ask EXCEPT ![r] = a]
    /\ UNCHANGED <<factor, proven, inside>>

LetIn(r) ==
    /\ ask[r].kind = "visit" /\ could[r]
    /\ inside' = inside \cup {r}
    /\ UNCHANGED <<factor, proven, ask>>

Prove(r) ==
    /\ ask[r].kind = "proof" /\ could[r]
    /\ proven' = proven \cup {ask[r].user}
    /\ ask' = [ask EXCEPT ![r] = NoAsk]
    /\ UNCHANGED <<factor, inside>>

Leave(r) ==
    /\ ask' = [ask EXCEPT ![r] = NoAsk]
    /\ inside' = inside \ {r}
    /\ UNCHANGED <<factor, proven>>

Remember ==
    could' = [r \in Requests |->
        ask'[r] # NoAsk /\ (could[r] \/ Due(ask'[r], factor'))]

Step == Change \/ \E r \in Requests : Ask(r) \/ LetIn(r) \/ Prove(r) \/ Leave(r)

Next == Step /\ Remember
Spec == Init /\ [][Next]_secondFactorVars
=============================================================================
