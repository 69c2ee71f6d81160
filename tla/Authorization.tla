---------------------------- MODULE Authorization ----------------------------
(***************************************************************************)
(* What the guard and the routes behind it promise.  A request asks for a  *)
(* route; it is let past only if at some moment since it asked its user    *)
(* had the right to that route, and told "forbidden" only if at some       *)
(* moment since then the user had not.                                     *)
(*                                                                         *)
(* Rights change by the hand of requests that were let past: one that      *)
(* assigns a role changes the rights of the user it names, one that        *)
(* removes a role or a permission takes rights away.  They also go back to *)
(* what they were: whoever reads the rights of a user may keep them and    *)
(* give them back later, but then only these, to this user, and without    *)
(* what was taken away from the role or from everybody in the meantime.    *)
(***************************************************************************)
CONSTANTS Users, Requests, Routes,
          Asks,         \* what a request may ask for: a route, and by whom
          NoAsk

VARIABLES
    right,      \* right[u]: the routes open to u
    kept,       \* the rights of users that somebody has read and may give back
    ask,        \* ask[r]: what r asks for
    view,       \* view[r]: whether the right was there, or was not, since r asked
    passed,     \* the requests let past
    forbidden   \* the requests told "forbidden"

authorizationVars == <<right, kept, ask, view, passed, forbidden>>

Unseen == [had |-> FALSE, lacked |-> FALSE]

Init ==
    /\ right \in [Users -> SUBSET Routes]
    /\ kept = {}
    /\ ask = [r \in Requests |-> NoAsk]
    /\ view = [r \in Requests |-> Unseen]
    /\ passed = {}
    /\ forbidden = {}

Looking(r) == ask[r] # NoAsk /\ r \notin passed

Ask(r) ==
    /\ ask[r] = NoAsk
    /\ ask'[r] \in Asks
    /\ ask' = [ask EXCEPT ![r] = ask'[r]]
    /\ forbidden' = forbidden \ {r}
    /\ UNCHANGED <<right, passed>>

Pass(r) ==
    /\ Looking(r) /\ view[r].had
    /\ passed' = passed \cup {r}
    /\ UNCHANGED <<right, ask, forbidden>>

Forbid(r) ==
    /\ Looking(r) /\ view[r].lacked
    /\ forbidden' = forbidden \cup {r}
    /\ ask' = [ask EXCEPT ![r] = NoAsk]
    /\ UNCHANGED <<right, passed>>

(* Requests end, also all at once.                                         *)
Leave(gone) ==
    /\ ask' = [r \in Requests |-> IF r \in gone THEN NoAsk ELSE ask[r]]
    /\ passed' = passed \ gone
    /\ UNCHANGED forbidden

Assign(r) ==
    /\ r \in passed /\ ask[r].op = "assignRole"
    /\ right' \in [Users -> SUBSET Routes]
    /\ \A u \in Users \ {ask[r].target} : right'[u] = right[u]
    /\ Leave({r})

Withdraw(r) ==
    /\ r \in passed /\ ask[r].op \in {"removeRole", "removePermission"}
    /\ right' \in [Users -> SUBSET Routes]
    /\ \A u \in Users : right'[u] \subseteq right[u]
    /\ Leave({r})

(* The rights of a user are what was kept of them.                         *)
Restore(k) ==
    /\ k \in kept
    /\ right' = [right EXCEPT ![k.user] = k.right]
    /\ UNCHANGED <<ask, passed, forbidden>>

(* What is kept was read just now, or was kept before and, if anything,    *)
(* shrinks.                                                                *)
Keep ==
    \A k \in kept' :
        \/ k.right = right[k.user]
        \/ \E old \in kept : old.user = k.user /\ k.right \subseteq old.right

Remember ==
    view' = [r \in Requests |->
        IF Looking(r)'
        THEN [had |-> view[r].had \/ ask'[r].op \in right'[ask'[r].user],
              lacked |-> view[r].lacked \/ ask'[r].op \notin right'[ask'[r].user]]
        ELSE Unseen]

Step ==
    \/ \E gone \in SUBSET Requests : Leave(gone) /\ UNCHANGED right
    \/ \E r \in Requests : Ask(r) \/ Pass(r) \/ Forbid(r) \/ Assign(r) \/ Withdraw(r)
    \/ \E k \in kept : Restore(k)

Next == Step /\ Keep /\ Remember
Spec == Init /\ [][Next]_authorizationVars
=============================================================================
