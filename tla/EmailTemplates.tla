--------------------------- MODULE EmailTemplates ---------------------------
(***************************************************************************)
(* The mail a new account gets: the templates mails are made from, the     *)
(* routes that change them, the creation of an account, which stores the   *)
(* user before it asks for a template, and the queue mails are sent from.  *)
(*                                                                         *)
(* Templates are looked up by slug, and the slug is recomputed from the    *)
(* title whenever a template is written.  The default templates, which the *)
(* code names by their slugs, are protected by a flag: `remove' reads it   *)
(* in one step and deletes in another, `update' may write it.              *)
(*                                                                         *)
(* `touched' and `unlucky' are not in the code: they record, for the       *)
(* properties, the slugs an update took away from a default template and   *)
(* the accounts whose creation met a call that failed.                     *)
(***************************************************************************)
EXTENDS Naturals

CONSTANTS
    Templates,      \* ids of rows; an id is used once
    Titles, Slugs,
    Slugify,        \* Slugify[title]: several titles may have one slug
    Seed,           \* Seed[t]: title of the seeded template t
    Accounts,       \* user names; the row of one is stored once
    Requests,
    NoTitle, NoSlug

ASSUME SlugAssumption == Slugify \in [Titles -> Slugs] /\ NoSlug \notin Slugs /\ NoTitle \notin Titles
ASSUME SeedAssumption ==
    /\ DOMAIN Seed \subseteq Templates
    /\ \A t \in DOMAIN Seed : Seed[t] \in Titles
    /\ \A t, v \in DOMAIN Seed : Slugify[Seed[t]] = Slugify[Seed[v]] => t = v

(* The slugs mails are asked for by.                                       *)
SystemSlugs == {Slugify[Seed[t]] : t \in DOMAIN Seed}

VARIABLES
    templates,      \* rows of emailsTemplate
    accounts,       \* accounts[a]: the slug the mail of a is asked for by, once a is stored
    req, pc,        \* the request in each slot and the await it is suspended in
    mail,           \* mail[a]: state of the job
    stalled,        \* jobs that were active when a process ended
    touched, unlucky

vars == <<templates, accounts, req, pc, mail, stalled, touched, unlucky>>
jobs == <<mail, stalled>>

-----------------------------------------------------------------------------
Template(title, default) ==
    [state |-> "live", title |-> title, slug |-> Slugify[title], isDefault |-> default]
NoTemplate(state) == [state |-> state, title |-> NoTitle, slug |-> NoSlug, isDefault |-> FALSE]

(* The slug of a row is always that of its title.                          *)
Row == {Template(title, default) : title \in Titles, default \in BOOLEAN}
       \cup {NoTemplate("free"), NoTemplate("gone")}

(* A body without isDefault keeps it; no template can be created without.  *)
(* A body without title is NoTitle.                                        *)
Input ==
    [op : {"create"}, title : Titles, isDefault : {"yes", "no"}]
    \cup [op : {"update"}, id : Templates, title : Titles \cup {NoTitle},
          isDefault : {"yes", "no", "kept"}]
    \cup [op : {"remove"}, id : Templates]
    \cup [op : {"account"}, account : Accounts, slug : SystemSlugs]
NoRequest == [op |-> "none"]

Awaits == {"idle", "insert", "find", "title", "write", "delete", "insertUser", "lookup", "enqueue"}
JobStates == {"none", "waiting", "active", "sent", "failed"}

(* Every variable has its type, and every row the slug of its title.       *)
TypeOK ==
    /\ templates \in [Templates -> Row]
    /\ accounts \in [Accounts -> SystemSlugs \cup {NoSlug}]
    /\ req \in [Requests -> Input \cup {NoRequest}]
    /\ pc \in [Requests -> Awaits]
    /\ mail \in [Accounts -> JobStates]
    /\ stalled \subseteq Accounts
    /\ touched \subseteq Slugs
    /\ unlucky \subseteq Accounts

Init ==
    /\ templates = [t \in Templates |->
          IF t \in DOMAIN Seed THEN Template(Seed[t], TRUE) ELSE NoTemplate("free")]
    /\ accounts = [a \in Accounts |-> NoSlug]
    /\ req = [r \in Requests |-> NoRequest]
    /\ pc = [r \in Requests |-> "idle"]
    /\ mail = [a \in Accounts |-> "none"]
    /\ stalled = {} /\ touched = {} /\ unlucky = {}

-----------------------------------------------------------------------------
Live(t) == templates[t].state = "live"

(* The unique columns of emailsTemplate.                                   *)
Allowed(t, title) ==
    \A v \in Templates \ {t} :
        Live(v) => templates[v].title # title /\ templates[v].slug # Slugify[title]

(* A request is at work on the account.                                    *)
Creating(a) == \E r \in Requests : req[r].op = "account" /\ req[r].account = a

Await(r, where) ==
    /\ pc' = [pc EXCEPT ![r] = where]
    /\ UNCHANGED req
Finish(r) ==
    /\ pc' = [pc EXCEPT ![r] = "idle"]
    /\ req' = [req EXCEPT ![r] = NoRequest]

FirstAwait(op) == CASE op = "create" -> "insert"
                    [] op = "account" -> "insertUser"
                    [] OTHER -> "find"

Begin(r) ==
    /\ pc[r] = "idle"
    /\ \E i \in Input : /\ req' = [req EXCEPT ![r] = i]
                        /\ pc' = [pc EXCEPT ![r] = FirstAwait(i.op)]
    /\ UNCHANGED <<templates, accounts, jobs, touched, unlucky>>

-----------------------------------------------------------------------------
(* Templates.  An insert or update that a unique column refuses rejects.   *)

InsertTemplate(r) ==
    /\ pc[r] = "insert"
    /\ \E t \in Templates :
          /\ templates[t].state = "free" /\ Allowed(t, req[r].title)
          /\ templates' = [templates EXCEPT ![t] = Template(req[r].title, req[r].isDefault = "yes")]
    /\ Finish(r)
    /\ UNCHANGED <<accounts, jobs, touched, unlucky>>

FindToUpdate(r) ==
    /\ pc[r] = "find" /\ req[r].op = "update"
    /\ IF Live(req[r].id) THEN Await(r, "title") ELSE Finish(r)
    /\ UNCHANGED <<templates, accounts, jobs, touched, unlucky>>

(* Any row of that title refuses the update, its own included; without a   *)
(* title the query has no condition, and slugify would fail.               *)
FindTitle(r) ==
    /\ pc[r] = "title"
    /\ IF \/ req[r].title = NoTitle
          \/ \E t \in Templates : Live(t) /\ templates[t].title = req[r].title
       THEN Finish(r) ELSE Await(r, "write")
    /\ UNCHANGED <<templates, accounts, jobs, touched, unlucky>>

(* (Mutation: the slug stays what it was.)                                 *)
WriteTemplateSlugKept(r) ==
    /\ pc[r] = "write"
    /\ LET i == req[r]
           row == templates[i.id]
           default == IF i.isDefault = "kept" THEN row.isDefault ELSE i.isDefault = "yes"
       IN  /\ templates' = IF Live(i.id)
                           THEN [templates EXCEPT ![i.id].title = i.title, ![i.id].isDefault = default]
                           ELSE templates
           /\ touched' = IF row.isDefault /\ ~default THEN touched \cup {row.slug} ELSE touched
    /\ Finish(r)
    /\ UNCHANGED <<accounts, jobs, unlucky>>
WriteTemplate(r) ==
    /\ pc[r] = "write"
    /\ LET i == req[r]
           row == templates[i.id]
           default == IF i.isDefault = "kept" THEN row.isDefault ELSE i.isDefault = "yes"
           new == Template(i.title, default)
       IN  IF Live(i.id) /\ Allowed(i.id, i.title)
           THEN /\ templates' = [templates EXCEPT ![i.id] = new]
                /\ touched' = IF row.isDefault /\ (new.slug # row.slug \/ ~default)
                              THEN touched \cup {row.slug} ELSE touched
           ELSE UNCHANGED <<templates, touched>>
    /\ Finish(r)
    /\ UNCHANGED <<accounts, jobs, unlucky>>

(* (Mutation: the flag is not read.)                                       *)
FindToRemoveUnchecked(r) ==
    /\ pc[r] = "find" /\ req[r].op = "remove"
    /\ IF Live(req[r].id) THEN Await(r, "delete") ELSE Finish(r)
    /\ UNCHANGED <<templates, accounts, jobs, touched, unlucky>>
FindToRemove(r) ==
    /\ pc[r] = "find" /\ req[r].op = "remove"
    /\ IF Live(req[r].id) /\ ~templates[req[r].id].isDefault
       THEN Await(r, "delete") ELSE Finish(r)
    /\ UNCHANGED <<templates, accounts, jobs, touched, unlucky>>

DeleteTemplate(r) ==
    /\ pc[r] = "delete"
    /\ templates' = [templates EXCEPT ![req[r].id] =
                        IF Live(req[r].id) THEN NoTemplate("gone") ELSE @]
    /\ Finish(r)
    /\ UNCHANGED <<accounts, jobs, touched, unlucky>>

-----------------------------------------------------------------------------
(* The creation of an account: the row, the template, the job.             *)

(* The unique columns of users refuse a second row for one user name.  The *)
(* row may be stored and the reply lost.                                   *)
InsertUser(r) ==
    /\ pc[r] = "insertUser"
    /\ accounts[req[r].account] = NoSlug
    /\ accounts' = [accounts EXCEPT ![req[r].account] = req[r].slug]
    /\ \/ Await(r, "lookup") /\ UNCHANGED unlucky
       \/ Finish(r) /\ unlucky' = unlucky \cup {req[r].account}
    /\ UNCHANGED <<templates, jobs, touched>>

(* (Mutation: an account that is there already is mailed again.)           *)
UserExistsMails(r) ==
    /\ pc[r] = "insertUser"
    /\ accounts[req[r].account] # NoSlug
    /\ Await(r, "lookup")
    /\ UNCHANGED <<templates, accounts, jobs, touched, unlucky>>

UserExists(r) ==
    /\ pc[r] = "insertUser"
    /\ accounts[req[r].account] # NoSlug
    /\ Finish(r)
    /\ UNCHANGED <<templates, accounts, jobs, touched, unlucky>>

(* sendMail reads the body of the template before it asks whether there is *)
(* one: without a template the request ends with an exception.             *)
FindBySlug(r) ==
    /\ pc[r] = "lookup"
    /\ IF \E t \in Templates : Live(t) /\ templates[t].slug = req[r].slug
       THEN Await(r, "enqueue") ELSE Finish(r)
    /\ UNCHANGED <<templates, accounts, jobs, touched, unlucky>>

(* The job is added, or it is not: sendMail answers false, which nobody    *)
(* reads.                                                                  *)
AddJob(r) ==
    /\ pc[r] = "enqueue"
    /\ LET a == req[r].account IN
          \/ mail' = [mail EXCEPT ![a] = "waiting"] /\ UNCHANGED unlucky
          \/ unlucky' = unlucky \cup {a} /\ UNCHANGED mail
    /\ Finish(r)
    /\ UNCHANGED <<templates, accounts, stalled, touched>>

(* A call rejects and changes nothing.                                     *)
CallFails(r) ==
    /\ pc[r] # "idle"
    /\ unlucky' = IF req[r].op = "account" THEN unlucky \cup {req[r].account} ELSE unlucky
    /\ Finish(r)
    /\ UNCHANGED <<templates, accounts, jobs, touched>>

-----------------------------------------------------------------------------
(* The queue.  Jobs are processed one at a time, and have one attempt:     *)
(* MailProcessor.sendEmail passes an error on, and the job has failed.     *)

Active(a) == mail[a] = "active"

TakeJob(a) ==
    /\ mail[a] = "waiting" /\ \A b \in Accounts : ~Active(b)
    /\ mail' = [mail EXCEPT ![a] = "active"]
    /\ UNCHANGED <<templates, accounts, req, pc, stalled, touched, unlucky>>

SendEmail(a) ==
    /\ Active(a)
    /\ \E outcome \in {"sent", "failed"} : mail' = [mail EXCEPT ![a] = outcome]
    /\ UNCHANGED <<templates, accounts, req, pc, stalled, touched, unlucky>>

(* The process ends and is started again.  A job that was active waits     *)
(* again, once; the second time it has failed.                             *)
(* (Mutation: a job that was active waits again however often.)            *)
RestartUncounted ==
    /\ req' = [r \in Requests |-> NoRequest]
    /\ pc' = [r \in Requests |-> "idle"]
    /\ unlucky' = unlucky \cup {a \in Accounts : Creating(a)}
    /\ mail' = [a \in Accounts |-> IF Active(a) THEN "waiting" ELSE mail[a]]
    /\ UNCHANGED <<templates, accounts, stalled, touched>>
Restart ==
    /\ req' = [r \in Requests |-> NoRequest]
    /\ pc' = [r \in Requests |-> "idle"]
    /\ unlucky' = unlucky \cup {a \in Accounts : Creating(a)}
    /\ mail' = [a \in Accounts |-> IF ~Active(a) THEN mail[a]
                                   ELSE IF a \in stalled THEN "failed" ELSE "waiting"]
    /\ stalled' = stalled \cup {a \in Accounts : Active(a)}
    /\ UNCHANGED <<templates, accounts, touched>>

Continue(r) ==
    \/ InsertTemplate(r)
    \/ FindToUpdate(r) \/ FindTitle(r) \/ WriteTemplate(r)
    \/ FindToRemove(r) \/ DeleteTemplate(r)
    \/ InsertUser(r) \/ UserExists(r) \/ FindBySlug(r) \/ AddJob(r)
    \/ CallFails(r)

Next ==
    \/ \E r \in Requests : Begin(r) \/ Continue(r)
    \/ \E a \in Accounts : TakeJob(a) \/ SendEmail(a)
    \/ Restart

Spec == Init /\ [][Next]_vars

(* A worker that is up takes a job that waits and comes to an end with the *)
(* one it has.  Nothing is said of requests, nor that processes stop       *)
(* ending.                                                                 *)
Fairness == \A a \in Accounts : WF_vars(TakeJob(a)) /\ WF_vars(SendEmail(a))

FairSpec == Spec /\ Fairness

-----------------------------------------------------------------------------
(* A default template can be found by its slug as long as no update took   *)
(* the slug or the flag away from it, whatever else is removed, renamed or *)
(* created meanwhile.                                                      *)
DefaultsKept ==
    \A s \in SystemSlugs \ touched :
        \E t \in Templates : Live(t) /\ templates[t].slug = s /\ templates[t].isDefault

(* The account whose creation is over has its mail in the queue or beyond, *)
(* unless one of its calls failed or an update took its template away.     *)
AccountsMailed ==
    \A a \in Accounts :
        accounts[a] # NoSlug /\ ~Creating(a) =>
            mail[a] # "none" \/ a \in unlucky \/ accounts[a] \in touched

(* How far the mail of an account is from its end.                         *)
Ahead(a) ==
    CASE mail[a] = "none" -> 5
      [] mail[a] = "waiting" -> IF a \in stalled THEN 2 ELSE 4
      [] mail[a] = "active" -> IF a \in stalled THEN 1 ELSE 3
      [] OTHER -> 0

(* The mail of an account only gets nearer its end: it is taken up twice   *)
(* at most, and an account whose mail was queued gets no second, however   *)
(* often its creation is tried again and whenever processes end.           *)
MailAdvances == [][\A a \in Accounts : mail'[a] # mail[a] => Ahead(a)' < Ahead(a)]_vars

(* A mail that is in the queue is sent, or fails, however often processes  *)
(* end: the queue counts how often it took the job up again.               *)
MailSettles == \A a \in Accounts : mail[a] = "waiting" ~> mail[a] \in {"sent", "failed"}
=============================================================================
