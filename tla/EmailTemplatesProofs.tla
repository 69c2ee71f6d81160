------------------------ MODULE EmailTemplatesProofs ------------------------
(***************************************************************************)
(* Proofs about EmailTemplates, for any titles, slugs, templates, accounts *)
(* and requests.                                                           *)
(***************************************************************************)
EXTENDS EmailTemplates, TLAPS

USE SlugAssumption, SeedAssumption

(* Once begun, a request is suspended in an await of its own operation,    *)
(* and an update that comes to its write has a title.                      *)
Suspended ==
    \A r \in Requests :
        /\ pc[r] # "idle" => req[r] \in Input
        /\ pc[r] = "insert" => req[r].op = "create"
        /\ pc[r] = "title" => req[r].op = "update"
        /\ pc[r] = "write" => req[r].op = "update" /\ req[r].title # NoTitle
        /\ pc[r] = "delete" => req[r].op = "remove"
        /\ pc[r] \in {"insertUser", "lookup", "enqueue"} => req[r].op = "account"

TypeInvariant == TypeOK /\ Suspended

LEMMA InputFacts ==
    ASSUME NEW i \in Input
    PROVE  /\ i.op \in {"create", "update", "remove", "account"}
           /\ i.op = "create" => i.title \in Titles /\ i.isDefault \in {"yes", "no"}
           /\ i.op = "update" => /\ i.id \in Templates /\ i.title \in Titles \cup {NoTitle}
                                 /\ i.isDefault \in {"yes", "no", "kept"}
           /\ i.op = "remove" => i.id \in Templates
           /\ i.op = "account" => i.account \in Accounts /\ i.slug \in SystemSlugs
BY DEF Input

LEMMA Templated ==
    ASSUME NEW title \in Titles, NEW d \in BOOLEAN
    PROVE  /\ Template(title, d) \in Row
           /\ Template(title, d).state = "live"
           /\ Template(title, d).slug = Slugify[title] /\ Slugify[title] \in Slugs
           /\ Template(title, d).isDefault = d
BY DEF Template, Row

LEMMA RowFacts ==
    ASSUME NEW row \in Row
    PROVE  /\ row.isDefault \in BOOLEAN
           /\ row.state = "live" => row.slug \in Slugs
           /\ NoTemplate("free") \in Row /\ NoTemplate("gone") \in Row
<1>1. NoTemplate("free") \in Row /\ NoTemplate("gone") \in Row
  BY DEF Row
<1>2. CASE \E title \in Titles, d \in BOOLEAN : row = Template(title, d)
  BY <1>1, <1>2, Templated
<1>3. CASE row = NoTemplate("free") \/ row = NoTemplate("gone")
  <2>1. row.isDefault = FALSE
    BY <1>3 DEF NoTemplate
  <2>2. row.state = "free" \/ row.state = "gone"
    BY <1>3 DEF NoTemplate
  <2> QED
    BY <1>1, <2>1, <2>2
<1> QED
  BY <1>2, <1>3 DEF Row

LEMMA SystemSlugsAreSlugs == SystemSlugs \subseteq Slugs
BY DEF SystemSlugs

LEMMA InitTypes == Init => TypeInvariant
<1> SUFFICES ASSUME Init PROVE TypeInvariant
  OBVIOUS
<1>1. templates \in [Templates -> Row]
  <2>1. NoTemplate("free") \in Row
    BY DEF Row
  <2> QED
    BY <2>1, Templated DEF Init
<1>2. TypeOK
  BY <1>1 DEF Init, TypeOK, Awaits, JobStates
<1>3. Suspended
  BY DEF Init, Suspended
<1> QED
  BY <1>2, <1>3 DEF TypeInvariant

-----------------------------------------------------------------------------
(* What a step of a handler does to the requests: one request begins, goes *)
(* on to an await of its operation, or is over.                            *)

LEMMA BeginTypes ==
    ASSUME TypeInvariant, NEW r \in Requests, Begin(r)
    PROVE  TypeInvariant'
<1>1. PICK i \in Input : /\ req' = [req EXCEPT ![r] = i]
                         /\ pc' = [pc EXCEPT ![r] = FirstAwait(i.op)]
  BY DEF Begin
<1>2. FirstAwait(i.op) \in Awaits
  BY InputFacts DEF FirstAwait, Awaits
<1>3. TypeOK'
  BY <1>1, <1>2 DEF TypeInvariant, TypeOK, Begin, jobs
<1>4. Suspended'
  BY <1>1, InputFacts DEF TypeInvariant, TypeOK, Suspended, FirstAwait
<1> QED
  BY <1>3, <1>4 DEF TypeInvariant

LEMMA FinishTypes ==
    ASSUME TypeInvariant, NEW r \in Requests, Finish(r)
    PROVE  /\ req' \in [Requests -> Input \cup {NoRequest}]
           /\ pc' \in [Requests -> Awaits]
           /\ Suspended'
BY DEF TypeInvariant, TypeOK, Suspended, Finish, Awaits

LEMMA AwaitTypes ==
    ASSUME TypeInvariant, NEW r \in Requests, pc[r] # "idle",
           NEW where \in {"title", "write", "delete", "lookup", "enqueue"}, Await(r, where),
           where = "title" => req[r].op = "update",
           where = "write" => req[r].op = "update" /\ req[r].title # NoTitle,
           where = "delete" => req[r].op = "remove",
           where \in {"lookup", "enqueue"} => req[r].op = "account"
    PROVE  /\ req' \in [Requests -> Input \cup {NoRequest}]
           /\ pc' \in [Requests -> Awaits]
           /\ Suspended'
BY DEF TypeInvariant, TypeOK, Suspended, Await, Awaits

LEMMA StepTypes == TypeInvariant /\ [Next]_vars => TypeInvariant'
<1> SUFFICES ASSUME TypeInvariant, [Next]_vars PROVE TypeInvariant'
  OBVIOUS
<1> USE DEF TypeInvariant
<1>1. ASSUME NEW r \in Requests, Begin(r) PROVE TypeInvariant'
  BY <1>1, BeginTypes
<1>2. ASSUME NEW r \in Requests, InsertTemplate(r) PROVE TypeInvariant'
  <2>1. req[r].title \in Titles
    BY <1>2, InputFacts DEF InsertTemplate, Suspended
  <2>2. templates' \in [Templates -> Row]
    BY <1>2, <2>1, Templated DEF InsertTemplate, TypeOK
  <2> QED
    BY <1>2, <2>2, FinishTypes DEF InsertTemplate, TypeOK, jobs
<1>3. ASSUME NEW r \in Requests, FindToUpdate(r) PROVE TypeInvariant'
  BY <1>3, FinishTypes, AwaitTypes DEF FindToUpdate, TypeOK, jobs
<1>4. ASSUME NEW r \in Requests, FindTitle(r) PROVE TypeInvariant'
  <2>1. req[r].op = "update"
    BY <1>4 DEF FindTitle, Suspended
  <2> QED
    BY <1>4, <2>1, FinishTypes, AwaitTypes DEF FindTitle, TypeOK, jobs
<1>5. ASSUME NEW r \in Requests, WriteTemplate(r) PROVE TypeInvariant'
  <2> DEFINE i == req[r]
             row == templates[i.id]
             default == IF i.isDefault = "kept" THEN row.isDefault ELSE i.isDefault = "yes"
  <2>1. i.id \in Templates /\ i.title \in Titles
    BY <1>5, InputFacts DEF WriteTemplate, Suspended
  <2>2. row \in Row
    BY <2>1 DEF TypeOK
  <2>3. default \in BOOLEAN
    BY <2>2, RowFacts
  <2>4. Template(i.title, default) \in Row
    BY <2>1, <2>3, Templated
  <2>5. templates' \in [Templates -> Row]
    BY <1>5, <2>1, <2>4 DEF WriteTemplate, TypeOK
  <2>6. touched' \subseteq Slugs
    BY <1>5, <2>2, RowFacts DEF WriteTemplate, TypeOK, Live
  <2> QED
    BY <1>5, <2>5, <2>6, FinishTypes DEF WriteTemplate, TypeOK, jobs
<1>6. ASSUME NEW r \in Requests, FindToRemove(r) PROVE TypeInvariant'
  BY <1>6, FinishTypes, AwaitTypes DEF FindToRemove, TypeOK, jobs
<1>7. ASSUME NEW r \in Requests, DeleteTemplate(r) PROVE TypeInvariant'
  <2>1. NoTemplate("gone") \in Row
    BY DEF Row
  <2>2. templates' \in [Templates -> Row]
    BY <1>7, <2>1 DEF DeleteTemplate, TypeOK
  <2> QED
    BY <1>7, <2>2, FinishTypes DEF DeleteTemplate, TypeOK, jobs
<1>8. ASSUME NEW r \in Requests, InsertUser(r) PROVE TypeInvariant'
  <2>1. /\ req[r].op = "account"
        /\ req[r].account \in Accounts /\ req[r].slug \in SystemSlugs
    BY <1>8, InputFacts DEF InsertUser, Suspended
  <2> QED
    BY <1>8, <2>1, FinishTypes, AwaitTypes DEF InsertUser, TypeOK, jobs
<1>9. ASSUME NEW r \in Requests, UserExists(r) PROVE TypeInvariant'
  BY <1>9, FinishTypes DEF UserExists, TypeOK, jobs
<1>10. ASSUME NEW r \in Requests, FindBySlug(r) PROVE TypeInvariant'
  <2>1. req[r].op = "account"
    BY <1>10 DEF FindBySlug, Suspended
  <2> QED
    BY <1>10, <2>1, FinishTypes, AwaitTypes DEF FindBySlug, TypeOK, jobs
<1>11. ASSUME NEW r \in Requests, AddJob(r) PROVE TypeInvariant'
  <2>1. req[r].account \in Accounts
    BY <1>11, InputFacts DEF AddJob, Suspended
  <2> QED
    BY <1>11, <2>1, FinishTypes DEF AddJob, TypeOK, JobStates
<1>12. ASSUME NEW r \in Requests, CallFails(r) PROVE TypeInvariant'
  <2>1. req[r].op = "account" => req[r].account \in Accounts
    BY <1>12, InputFacts DEF CallFails, Suspended
  <2> QED
    BY <1>12, <2>1, FinishTypes DEF CallFails, TypeOK, jobs
<1>13. ASSUME NEW a \in Accounts, TakeJob(a) \/ SendEmail(a) PROVE TypeInvariant'
  BY <1>13 DEF TakeJob, SendEmail, TypeOK, Suspended, JobStates
<1>14. CASE Restart
  <2>1. mail' \in [Accounts -> JobStates]
    BY <1>14 DEF Restart, TypeOK, JobStates
  <2> QED
    BY <1>14, <2>1 DEF Restart, TypeOK, Suspended, Awaits
<1>15. CASE UNCHANGED vars
  BY <1>15 DEF vars, jobs, TypeOK, Suspended
<1> QED
  BY <1>1, <1>2, <1>3, <1>4, <1>5, <1>6, <1>7, <1>8, <1>9, <1>10, <1>11, <1>12, <1>13, <1>14, <1>15
     DEF Next, Continue

LEMMA TypesHold == Spec => []TypeInvariant
BY InitTypes, StepTypes, PTL DEF Spec

(* Every handler, worker and restart keeps the templates, the accounts and *)
(* the queue in their types, and every row with the slug of its title.     *)
THEOREM TypeCorrect == Spec => []TypeOK
<1>1. TypeInvariant => TypeOK
  BY DEF TypeInvariant
<1> QED
  BY <1>1, TypesHold, PTL

-----------------------------------------------------------------------------
(* The row a request is about to delete is none that mails depend on:      *)
(* `remove' read its flag, and an update cannot have made a default of it  *)
(* since, because the slug is still held by the default template that has  *)
(* it.                                                                     *)
RemovalSpares ==
    \A r \in Requests :
        pc[r] = "delete" /\ Live(req[r].id) /\ templates[req[r].id].isDefault =>
            templates[req[r].id].slug \notin SystemSlugs \ touched

KeptInvariant == DefaultsKept /\ RemovalSpares

LEMMA InitKept == Init => KeptInvariant
<1> SUFFICES ASSUME Init PROVE KeptInvariant
  OBVIOUS
<1>1. ASSUME NEW s \in SystemSlugs \ touched
      PROVE  \E t \in Templates : Live(t) /\ templates[t].slug = s /\ templates[t].isDefault
  <2>1. PICK t \in DOMAIN Seed : s = Slugify[Seed[t]]
    BY DEF SystemSlugs
  <2>2. t \in Templates /\ Seed[t] \in Titles
    OBVIOUS
  <2>3. templates[t] = Template(Seed[t], TRUE)
    BY <2>2 DEF Init
  <2>4. /\ Template(Seed[t], TRUE).state = "live"
        /\ Template(Seed[t], TRUE).slug = s
        /\ Template(Seed[t], TRUE).isDefault = TRUE
    BY <2>1, <2>2, Templated
  <2> QED
    BY <2>2, <2>3, <2>4 DEF Live
<1>2. RemovalSpares
  BY DEF Init, RemovalSpares
<1> QED
  BY <1>1, <1>2 DEF KeptInvariant, DefaultsKept

(* A step that leaves the table alone, and begins no removal.              *)
LEMMA TableKept ==
    ASSUME KeptInvariant, UNCHANGED <<templates, touched>>,
           \A r \in Requests : pc'[r] = "delete" =>
               \/ pc[r] = "delete" /\ req'[r] = req[r]
               \/ ~templates[req'[r].id].isDefault
    PROVE  KeptInvariant'
BY DEF KeptInvariant, DefaultsKept, RemovalSpares, Live

(* A row is written, the slug it loses counted as touched if it held it as *)
(* a default.                                                              *)
LEMMA RowWritten ==
    ASSUME TypeInvariant, KeptInvariant, NEW t \in Templates, NEW title \in Titles, NEW d \in BOOLEAN,
           Allowed(t, title),
           templates' = [templates EXCEPT ![t] = Template(title, d)],
           touched \subseteq touched',
           \/ ~Live(t)
           \/ ~templates[t].isDefault
           \/ Slugify[title] = templates[t].slug /\ d
           \/ templates[t].slug \in touched',
           \A r \in Requests : pc'[r] = "delete" => pc[r] = "delete" /\ req'[r] = req[r]
    PROVE  KeptInvariant'
<1>1. templates'[t] = Template(title, d) /\ \A v \in Templates \ {t} : templates'[v] = templates[v]
  BY DEF TypeInvariant, TypeOK
<1>2. Live(t)' /\ templates'[t].slug = Slugify[title] /\ templates'[t].isDefault = d
  BY <1>1, Templated DEF Live
<1>3. DefaultsKept'
  <2> SUFFICES ASSUME NEW s \in SystemSlugs \ touched'
               PROVE  \E v \in Templates :
                          Live(v)' /\ templates'[v].slug = s /\ templates'[v].isDefault
    BY DEF DefaultsKept
  <2>1. PICK v \in Templates : Live(v) /\ templates[v].slug = s /\ templates[v].isDefault
    BY DEF KeptInvariant, DefaultsKept
  <2>2. CASE v # t
    BY <1>1, <2>1, <2>2 DEF Live
  <2>3. CASE v = t
    BY <1>2, <2>1, <2>3
  <2> QED
    BY <2>2, <2>3
<1>4. RemovalSpares'
  <2> SUFFICES ASSUME NEW r \in Requests, pc'[r] = "delete", Live(req[r].id)',
                      templates'[req'[r].id].isDefault,
                      templates'[req'[r].id].slug \in SystemSlugs \ touched'
               PROVE  FALSE
    BY DEF RemovalSpares, Live
  <2>1. pc[r] = "delete" /\ req'[r] = req[r] /\ req[r].id \in Templates
    BY InputFacts DEF TypeInvariant, Suspended
  <2>2. CASE req[r].id # t
    BY <1>1, <2>1, <2>2 DEF KeptInvariant, RemovalSpares, Live
  <2>3. CASE req[r].id = t
    <3>1. Slugify[title] \in SystemSlugs \ touched
      BY <1>2, <2>1, <2>3
    <3>2. PICK v \in Templates :
              Live(v) /\ templates[v].slug = Slugify[title] /\ templates[v].isDefault
      BY <3>1 DEF KeptInvariant, DefaultsKept
    <3>3. v = t
      BY <3>2 DEF Allowed
    <3> QED
      BY <2>1, <2>3, <3>1, <3>2, <3>3 DEF KeptInvariant, RemovalSpares
  <2> QED
    BY <2>2, <2>3
<1> QED
  BY <1>3, <1>4 DEF KeptInvariant

LEMMA StepKept == TypeInvariant /\ KeptInvariant /\ [Next]_vars => KeptInvariant'
<1> SUFFICES ASSUME TypeInvariant, KeptInvariant, [Next]_vars PROVE KeptInvariant'
  OBVIOUS
<1>a. /\ pc \in [Requests -> Awaits] /\ req \in [Requests -> Input \cup {NoRequest}]
      /\ templates \in [Templates -> Row]
  BY DEF TypeInvariant, TypeOK
<1>b. ASSUME NEW r \in Requests, Finish(r)
      PROVE  \A q \in Requests : pc'[q] = "delete" => pc[q] = "delete" /\ req'[q] = req[q]
  BY <1>a, <1>b DEF Finish
<1>1. ASSUME NEW r \in Requests, Begin(r) PROVE KeptInvariant'
  BY <1>1, <1>a, TableKept DEF Begin, FirstAwait
<1>2. ASSUME NEW r \in Requests, InsertTemplate(r) PROVE KeptInvariant'
  <2>1. req[r].title \in Titles
    BY <1>2, InputFacts DEF InsertTemplate, TypeInvariant, Suspended
  <2>2. PICK t \in Templates :
            /\ templates[t].state = "free" /\ Allowed(t, req[r].title)
            /\ templates' = [templates EXCEPT ![t] = Template(req[r].title, req[r].isDefault = "yes")]
    BY <1>2 DEF InsertTemplate
  <2>3. ~Live(t) /\ touched' = touched /\ Finish(r)
    BY <1>2, <2>2 DEF InsertTemplate, Live
  <2>4. (req[r].isDefault = "yes") \in BOOLEAN
    OBVIOUS
  <2> QED
    BY <2>1, <2>2, <2>3, <2>4, <1>b, RowWritten
<1>3. ASSUME NEW r \in Requests,
             \/ FindToUpdate(r) \/ FindTitle(r) \/ UserExists(r) \/ FindBySlug(r)
             \/ AddJob(r) \/ CallFails(r) \/ InsertUser(r)
      PROVE  KeptInvariant'
  <2>1. UNCHANGED <<templates, touched>>
    BY <1>3 DEF FindToUpdate, FindTitle, UserExists, FindBySlug, AddJob, CallFails, InsertUser
  <2>2. Finish(r) \/ \E where \in Awaits \ {"delete"} : Await(r, where)
    BY <1>3 DEF FindToUpdate, FindTitle, UserExists, FindBySlug, AddJob, CallFails, InsertUser, Awaits
  <2>3. \A q \in Requests : pc'[q] = "delete" => pc[q] = "delete" /\ req'[q] = req[q]
    BY <1>a, <1>b, <2>2 DEF Await
  <2> QED
    BY <2>1, <2>3, TableKept
<1>4. ASSUME NEW r \in Requests, WriteTemplate(r) PROVE KeptInvariant'
  <2> DEFINE i == req[r]
             row == templates[i.id]
             default == IF i.isDefault = "kept" THEN row.isDefault ELSE i.isDefault = "yes"
             new == Template(i.title, default)
  <2>1. i.id \in Templates /\ i.title \in Titles
    BY <1>4, InputFacts DEF WriteTemplate, TypeInvariant, Suspended
  <2>2. default \in BOOLEAN
    BY <1>a, <2>1, RowFacts
  <2>3. Finish(r)
    BY <1>4 DEF WriteTemplate
  <2>4. CASE Live(i.id) /\ Allowed(i.id, i.title)
    <3>1. /\ templates' = [templates EXCEPT ![i.id] = new]
          /\ touched' = IF row.isDefault /\ (new.slug # row.slug \/ ~default)
                        THEN touched \cup {row.slug} ELSE touched
      BY <1>4, <2>4 DEF WriteTemplate
    <3>2. new.slug = Slugify[i.title]
      BY <2>1, <2>2, Templated
    <3>3. touched \subseteq touched'
      BY <3>1
    <3>4. \/ ~row.isDefault
          \/ Slugify[i.title] = row.slug /\ default
          \/ row.slug \in touched'
      BY <3>1, <3>2
    <3> HIDE DEF default, row
    <3>5. templates' = [templates EXCEPT ![i.id] = Template(i.title, default)]
      BY <3>1
    <3> QED
      BY <2>1, <2>2, <2>3, <2>4, <3>3, <3>4, <3>5, <1>b, RowWritten DEF row
  <2>5. CASE ~(Live(i.id) /\ Allowed(i.id, i.title))
    BY <1>4, <1>b, <2>3, <2>5, TableKept DEF WriteTemplate
  <2> QED
    BY <2>4, <2>5
<1>5. ASSUME NEW r \in Requests, FindToRemove(r) PROVE KeptInvariant'
  BY <1>5, <1>a, <1>b, TableKept DEF FindToRemove, Await
<1>6. ASSUME NEW r \in Requests, DeleteTemplate(r) PROVE KeptInvariant'
  <2>1. req[r].id \in Templates /\ pc[r] = "delete"
    BY <1>6, InputFacts DEF DeleteTemplate, TypeInvariant, Suspended
  <2>2. /\ \A v \in Templates \ {req[r].id} : templates'[v] = templates[v]
        /\ templates'[req[r].id].state # "live"
        /\ touched' = touched /\ Finish(r)
    <3>1. NoTemplate("gone").state # "live"
      BY DEF NoTemplate
    <3> QED
      BY <1>6, <1>a, <2>1, <3>1 DEF DeleteTemplate, Live
  <2>3. DefaultsKept'
    <3> SUFFICES ASSUME NEW s \in SystemSlugs \ touched
                 PROVE  \E v \in Templates :
                            Live(v)' /\ templates'[v].slug = s /\ templates'[v].isDefault
      BY <2>2 DEF DefaultsKept
    <3>1. PICK v \in Templates : Live(v) /\ templates[v].slug = s /\ templates[v].isDefault
      BY DEF KeptInvariant, DefaultsKept
    <3>2. v # req[r].id
      BY <2>1, <3>1 DEF KeptInvariant, RemovalSpares
    <3> QED
      BY <2>2, <3>1, <3>2 DEF Live
  <2>4. RemovalSpares'
    <3> SUFFICES ASSUME NEW q \in Requests, pc'[q] = "delete", Live(req[q].id)',
                        templates'[req'[q].id].isDefault
                 PROVE  templates'[req'[q].id].slug \notin SystemSlugs \ touched'
      BY DEF RemovalSpares, Live
    <3>1. pc[q] = "delete" /\ req'[q] = req[q] /\ req[q].id \in Templates
      BY <1>b, <2>2, InputFacts DEF TypeInvariant, Suspended
    <3>2. req[q].id # req[r].id
      BY <2>2, <3>1 DEF Live
    <3> QED
      BY <2>2, <3>1, <3>2 DEF KeptInvariant, RemovalSpares, Live
  <2> QED
    BY <2>3, <2>4 DEF KeptInvariant
<1>7. ASSUME NEW a \in Accounts, TakeJob(a) \/ SendEmail(a) PROVE KeptInvariant'
  BY <1>7, TableKept DEF TakeJob, SendEmail
<1>8. CASE Restart
  BY <1>8, TableKept DEF Restart
<1>9. CASE UNCHANGED vars
  BY <1>9, TableKept DEF vars
<1> QED
  BY <1>1, <1>2, <1>3, <1>4, <1>5, <1>6, <1>7, <1>8, <1>9 DEF Next, Continue

LEMMA KeptHolds == Spec => []KeptInvariant
BY InitKept, StepKept, TypesHold, PTL DEF Spec

(* A default template can be found by its slug, whatever else is removed,  *)
(* renamed or created, as long as no update took the slug or the flag away *)
(* from it.                                                                *)
THEOREM DefaultTemplatesStay == Spec => []DefaultsKept
<1>1. KeptInvariant => DefaultsKept
  BY DEF KeptInvariant
<1> QED
  BY <1>1, KeptHolds, PTL

-----------------------------------------------------------------------------
(* An account that has no mail yet, and had no bad luck, has a request     *)
(* that stored it and is now after its template or its job.                *)
Attending(r, a) ==
    /\ pc[r] \in {"lookup", "enqueue"}
    /\ req[r].account = a /\ req[r].slug = accounts[a]
Excused(a) == mail[a] # "none" \/ a \in unlucky \/ accounts[a] \in touched

Attended ==
    \A a \in Accounts :
        accounts[a] # NoSlug => Excused(a) \/ \E r \in Requests : Attending(r, a)

(* A step that stores no account keeps it attended, if the one request     *)
(* that leaves its mail, or each that does, leaves it with an excuse.      *)
LEMMA OneLeaves ==
    ASSUME Attended, accounts' = accounts,
           \A a \in Accounts : Excused(a) => Excused(a)',
           NEW r \in Requests,
           \A q \in Requests \ {r} : pc'[q] = pc[q] /\ req'[q] = req[q],
           \A a \in Accounts : Attending(r, a) => Attending(r, a)' \/ Excused(a)'
    PROVE  Attended'
BY DEF Attended, Attending

LEMMA AllLeave ==
    ASSUME Attended, accounts' = accounts,
           \A a \in Accounts : Excused(a) => Excused(a)',
           \A r \in Requests, a \in Accounts : Attending(r, a) => Attending(r, a)' \/ Excused(a)'
    PROVE  Attended'
BY DEF Attended

LEMMA StepAttended ==
    TypeInvariant /\ KeptInvariant /\ Attended /\ [Next]_vars => Attended'
<1> SUFFICES ASSUME TypeInvariant, KeptInvariant, Attended, [Next]_vars PROVE Attended'
  OBVIOUS
<1>a. /\ pc \in [Requests -> Awaits] /\ req \in [Requests -> Input \cup {NoRequest}]
      /\ mail \in [Accounts -> JobStates] /\ accounts \in [Accounts -> SystemSlugs \cup {NoSlug}]
  BY DEF TypeInvariant, TypeOK
<1>b. ASSUME NEW r \in Requests, Finish(r) \/ \E where : Await(r, where)
      PROVE  \A q \in Requests \ {r} : pc'[q] = pc[q] /\ req'[q] = req[q]
  BY <1>a, <1>b DEF Finish, Await
<1>c. ASSUME NEW r \in Requests, pc[r] \notin {"lookup", "enqueue"}, NEW a \in Accounts
      PROVE  ~Attending(r, a)
  BY <1>c DEF Attending
<1>d. ASSUME UNCHANGED <<accounts, mail>>, unlucky \subseteq unlucky', touched \subseteq touched'
      PROVE  \A a \in Accounts : Excused(a) => Excused(a)'
  BY <1>d DEF Excused
<1>1. ASSUME NEW r \in Requests, Begin(r) PROVE Attended'
  <2>1. /\ pc[r] = "idle" /\ UNCHANGED <<accounts, mail, unlucky, touched>>
        /\ \A q \in Requests \ {r} : pc'[q] = pc[q] /\ req'[q] = req[q]
    BY <1>1, <1>a DEF Begin, jobs
  <2> QED
    BY <2>1, <1>c, <1>d, OneLeaves
<1>2. ASSUME NEW r \in Requests,
             \/ InsertTemplate(r) \/ FindToUpdate(r) \/ FindTitle(r) \/ WriteTemplate(r)
             \/ FindToRemove(r) \/ DeleteTemplate(r) \/ UserExists(r)
      PROVE  Attended'
  <2>1. Finish(r) \/ \E where : Await(r, where)
    BY <1>2 DEF InsertTemplate, FindToUpdate, FindTitle, WriteTemplate, FindToRemove,
                DeleteTemplate, UserExists
  <2>2. /\ pc[r] \notin {"lookup", "enqueue"}
        /\ UNCHANGED <<accounts, mail, unlucky>> /\ touched \subseteq touched'
    BY <1>2 DEF InsertTemplate, FindToUpdate, FindTitle, WriteTemplate, FindToRemove,
                DeleteTemplate, UserExists, jobs
  <2> QED
    BY <2>1, <2>2, <1>b, <1>c, <1>d, OneLeaves
<1>3. ASSUME NEW r \in Requests, InsertUser(r) PROVE Attended'
  <2>0. PICK b \in Accounts : b = req[r].account
    BY <1>3, InputFacts DEF InsertUser, TypeInvariant, Suspended
  <2>1. pc[r] = "insertUser" /\ accounts[b] = NoSlug
    BY <1>3, <2>0 DEF InsertUser
  <2>2. /\ accounts' = [accounts EXCEPT ![b] = req[r].slug]
        /\ UNCHANGED <<mail, touched>>
        /\ \/ Await(r, "lookup") /\ UNCHANGED unlucky
           \/ Finish(r) /\ unlucky' = unlucky \cup {b}
    BY <1>3, <2>0 DEF InsertUser, jobs
  <2>3. ASSUME NEW a \in Accounts, a # b, accounts'[a] # NoSlug
        PROVE  Excused(a)' \/ \E q \in Requests : Attending(q, a)'
    <3>1. accounts'[a] = accounts[a]
      BY <2>2, <2>3, <1>a
    <3>2. CASE Excused(a)
      BY <2>2, <3>1, <3>2 DEF Excused
    <3>3. CASE ~Excused(a)
      <4>1. PICK q \in Requests : Attending(q, a)
        BY <2>3, <3>1, <3>3 DEF Attended
      <4>2. q # r
        BY <2>1, <4>1, <1>c
      <4> QED
        BY <2>2, <3>1, <4>1, <4>2, <1>b DEF Attending
    <3> QED
      BY <3>2, <3>3
  <2>4. Excused(b)' \/ Attending(r, b)'
    <3>1. CASE Await(r, "lookup")
      BY <2>0, <2>1, <2>2, <3>1, <1>a DEF Await, Attending
    <3>2. CASE unlucky' = unlucky \cup {b}
      BY <3>2 DEF Excused
    <3> QED
      BY <2>2, <3>1, <3>2
  <2> QED
    BY <2>3, <2>4 DEF Attended
<1>4. ASSUME NEW r \in Requests, FindBySlug(r) PROVE Attended'
  <2>1. /\ pc[r] = "lookup" /\ UNCHANGED <<templates, accounts, mail, unlucky, touched>>
        /\ Finish(r) \/ \E where : Await(r, where)
    BY <1>4 DEF FindBySlug, jobs
  <2>2. ASSUME NEW a \in Accounts, Attending(r, a) PROVE Attending(r, a)' \/ Excused(a)'
    <3>1. req[r].slug \in SystemSlugs /\ req[r].slug = accounts[a]
      BY <2>1, <2>2, InputFacts DEF Attending, TypeInvariant, Suspended
    <3>2. CASE \E t \in Templates : Live(t) /\ templates[t].slug = req[r].slug
      <4>1. Await(r, "enqueue")
        BY <1>4, <3>2 DEF FindBySlug
      <4> QED
        BY <2>1, <2>2, <4>1, <1>a DEF Await, Attending
    <3>3. CASE ~\E t \in Templates : Live(t) /\ templates[t].slug = req[r].slug
      <4>1. req[r].slug \in touched
        BY <3>1, <3>3 DEF KeptInvariant, DefaultsKept
      <4> QED
        BY <2>1, <3>1, <4>1 DEF Excused
    <3> QED
      BY <3>2, <3>3
  <2> QED
    BY <2>1, <2>2, <1>b, <1>d, OneLeaves
<1>5. ASSUME NEW r \in Requests, AddJob(r) PROVE Attended'
  <2>0. PICK b \in Accounts : b = req[r].account
    BY <1>5, InputFacts DEF AddJob, TypeInvariant, Suspended
  <2>1. Finish(r) /\ accounts' = accounts /\ touched' = touched
    BY <1>5 DEF AddJob
  <2>2. \/ mail' = [mail EXCEPT ![b] = "waiting"] /\ UNCHANGED unlucky
        \/ unlucky' = unlucky \cup {b} /\ UNCHANGED mail
    BY <1>5, <2>0 DEF AddJob
  <2>3. \A a \in Accounts : Excused(a) => Excused(a)'
    BY <2>1, <2>2, <1>a DEF Excused
  <2>4. Excused(b)'
    BY <2>1, <2>2, <1>a DEF Excused
  <2>5. \A a \in Accounts : Attending(r, a) => a = b
    BY <2>0 DEF Attending
  <2> QED
    BY <2>1, <2>3, <2>4, <2>5, <1>b, OneLeaves
<1>6. ASSUME NEW r \in Requests, CallFails(r) PROVE Attended'
  <2>1. /\ Finish(r) /\ UNCHANGED <<accounts, mail, touched>> /\ unlucky \subseteq unlucky'
        /\ req[r].op = "account" => req[r].account \in unlucky'
    BY <1>6 DEF CallFails, jobs
  <2>2. ASSUME NEW a \in Accounts, Attending(r, a) PROVE Excused(a)'
    BY <2>1, <2>2 DEF Attending, Excused, TypeInvariant, Suspended
  <2> QED
    BY <2>1, <2>2, <1>b, <1>d, OneLeaves
<1>7. ASSUME NEW a \in Accounts, TakeJob(a) \/ SendEmail(a) PROVE Attended'
  <2>1. /\ UNCHANGED <<accounts, req, pc, touched, unlucky>>
        /\ mail[a] # "none" /\ \E state \in JobStates \ {"none"} : mail' = [mail EXCEPT ![a] = state]
    BY <1>7 DEF TakeJob, SendEmail, Active, JobStates
  <2>2. \A b \in Accounts : Excused(b) => Excused(b)'
    BY <2>1, <1>a DEF Excused
  <2> QED
    BY <2>1, <2>2, AllLeave DEF Attending
<1>8. CASE Restart
  <2>1. /\ accounts' = accounts /\ touched' = touched
        /\ unlucky' = unlucky \cup {a \in Accounts : Creating(a)}
        /\ \A a \in Accounts : mail[a] # "none" => mail'[a] # "none"
    BY <1>8 DEF Restart, Active
  <2>2. \A a \in Accounts : Excused(a) => Excused(a)'
    BY <2>1 DEF Excused
  <2>3. ASSUME NEW r \in Requests, NEW a \in Accounts, Attending(r, a) PROVE Excused(a)'
    <3>1. Creating(a)
      BY <2>3 DEF Attending, Creating, TypeInvariant, Suspended
    <3> QED
      BY <2>1, <3>1 DEF Excused
  <2> QED
    BY <2>1, <2>2, <2>3, AllLeave
<1>9. CASE UNCHANGED vars
  <2>1. \A a \in Accounts : Excused(a) => Excused(a)'
    BY <1>9 DEF vars, jobs, Excused
  <2> QED
    BY <1>9, <2>1, AllLeave DEF vars, Attending
<1> QED
  BY <1>1, <1>2, <1>3, <1>4, <1>5, <1>6, <1>7, <1>8, <1>9 DEF Next, Continue

(* The account whose creation is over has its mail in the queue or beyond, *)
(* unless one of its calls failed or an update took its template away.     *)
THEOREM CreatedAccountsMailed == Spec => []AccountsMailed
<1>1. Init => Attended
  BY DEF Init, Attended
<1>2. TypeInvariant /\ Attended => AccountsMailed
  <2> SUFFICES ASSUME TypeInvariant, Attended,
                      NEW a \in Accounts, accounts[a] # NoSlug, ~Creating(a)
               PROVE  mail[a] # "none" \/ a \in unlucky \/ accounts[a] \in touched
    BY DEF AccountsMailed
  <2>1. ASSUME NEW r \in Requests, Attending(r, a) PROVE FALSE
    BY <2>1 DEF Attending, Creating, TypeInvariant, Suspended
  <2> QED
    BY <2>1 DEF Attended, Excused
<1> QED
  BY <1>1, <1>2, StepAttended, TypesHold, KeptHolds, PTL DEF Spec

-----------------------------------------------------------------------------
(* A request that is past the insert of an account is the only one: the    *)
(* unique columns of users let no other past it.  Until it adds the job,   *)
(* the account has no mail.                                                *)
Mailing(r, a) == pc[r] \in {"lookup", "enqueue"} /\ req[r].account = a

OneCreator ==
    \A a \in Accounts :
        /\ accounts[a] = NoSlug => mail[a] = "none"
        /\ \A r \in Requests : Mailing(r, a) => accounts[a] # NoSlug /\ mail[a] = "none"
        /\ \A r, q \in Requests : Mailing(r, a) /\ Mailing(q, a) => r = q

LEMMA MailingMoves ==
    ASSUME TypeInvariant, NEW r \in Requests, Finish(r) \/ \E where : Await(r, where)
    PROVE  \A q \in Requests, a \in Accounts : q # r => (Mailing(q, a)' <=> Mailing(q, a))
BY DEF TypeInvariant, TypeOK, Mailing, Finish, Await

LEMMA FinishMails ==
    ASSUME TypeInvariant, NEW r \in Requests, Finish(r)
    PROVE  \A q \in Requests, a \in Accounts : Mailing(q, a)' => q # r /\ Mailing(q, a)
<1>1. pc'[r] = "idle" /\ \A q \in Requests : q # r => pc'[q] = pc[q] /\ req'[q] = req[q]
  BY DEF TypeInvariant, TypeOK, Finish
<1> QED BY <1>1 DEF Mailing

(* A step that leaves accounts and mail alone, and lets no request past    *)
(* the insert.                                                             *)
LEMMA NobodyPassed ==
    ASSUME OneCreator, UNCHANGED <<accounts, mail>>,
           \A q \in Requests, a \in Accounts : Mailing(q, a)' => Mailing(q, a)
    PROVE  OneCreator'
BY DEF OneCreator

LEMMA StepCreator == TypeInvariant /\ OneCreator /\ [Next]_vars => OneCreator'
<1> SUFFICES ASSUME TypeInvariant, OneCreator, [Next]_vars PROVE OneCreator'
  OBVIOUS
<1>a. /\ pc \in [Requests -> Awaits] /\ req \in [Requests -> Input \cup {NoRequest}]
      /\ mail \in [Accounts -> JobStates] /\ accounts \in [Accounts -> SystemSlugs \cup {NoSlug}]
  BY DEF TypeInvariant, TypeOK
<1>b. NoSlug \notin SystemSlugs
  BY SystemSlugsAreSlugs
<1>1. ASSUME NEW r \in Requests, Begin(r) PROVE OneCreator'
  <2>1. \A q \in Requests : q # r => pc'[q] = pc[q] /\ req'[q] = req[q]
    BY <1>1, <1>a DEF Begin
  <2>2. pc'[r] \in {"insert", "insertUser", "find"}
    BY <1>1, <1>a DEF Begin, FirstAwait
  <2> QED BY <1>1, <2>1, <2>2, NobodyPassed DEF Begin, Mailing, jobs
<1>2. ASSUME NEW r \in Requests,
             \/ InsertTemplate(r) \/ FindToUpdate(r) \/ FindTitle(r) \/ WriteTemplate(r)
             \/ FindToRemove(r) \/ DeleteTemplate(r) \/ UserExists(r) \/ FindBySlug(r)
             \/ CallFails(r)
      PROVE  OneCreator'
  <2>1. UNCHANGED <<accounts, mail>>
    BY <1>2 DEF InsertTemplate, FindToUpdate, FindTitle, WriteTemplate, FindToRemove,
                DeleteTemplate, UserExists, FindBySlug, CallFails, jobs
  <2>2. Finish(r) \/ Await(r, "title") \/ Await(r, "write") \/ Await(r, "delete")
        \/ (pc[r] = "lookup" /\ Await(r, "enqueue"))
    BY <1>2 DEF InsertTemplate, FindToUpdate, FindTitle, WriteTemplate, FindToRemove,
                DeleteTemplate, UserExists, FindBySlug, CallFails
  <2>3. \A q \in Requests, a \in Accounts : q # r => (Mailing(q, a)' <=> Mailing(q, a))
    BY <2>2, MailingMoves
  <2>4. \A a \in Accounts : Mailing(r, a)' => Mailing(r, a)
    BY <2>2, <1>a, FinishMails DEF Await, Mailing
  <2> QED BY <2>1, <2>3, <2>4, NobodyPassed
<1>3. ASSUME NEW r \in Requests, InsertUser(r) PROVE OneCreator'
  <2>0. PICK b \in Accounts : b = req[r].account /\ req[r].slug \in SystemSlugs
    BY <1>3, InputFacts DEF InsertUser, TypeInvariant, Suspended
  <2>1. accounts[b] = NoSlug /\ mail' = mail /\ pc[r] = "insertUser"
    BY <1>3, <2>0 DEF InsertUser, jobs
  <2>2. accounts'[b] # NoSlug /\ \A a \in Accounts \ {b} : accounts'[a] = accounts[a]
    BY <1>3, <2>0, <1>a, <1>b DEF InsertUser
  <2>3. Finish(r) \/ \E where : Await(r, where)
    BY <1>3 DEF InsertUser
  <2>4. \A q \in Requests, a \in Accounts : q # r => (Mailing(q, a)' <=> Mailing(q, a))
    BY <2>3, MailingMoves
  <2>5. \A a \in Accounts : Mailing(r, a)' => a = b
    <3>1. CASE Finish(r)
      BY <3>1, FinishMails
    <3>2. CASE Await(r, "lookup")
      BY <3>2, <2>0 DEF Await, Mailing
    <3> QED BY <1>3, <3>1, <3>2 DEF InsertUser
  <2>6. mail[b] = "none" /\ \A q \in Requests : ~ Mailing(q, b)
    BY <2>1 DEF OneCreator
  <2> QED BY <2>1, <2>2, <2>4, <2>5, <2>6 DEF OneCreator
<1>4. ASSUME NEW r \in Requests, AddJob(r) PROVE OneCreator'
  <2>0. PICK b \in Accounts : b = req[r].account
    BY <1>4, InputFacts DEF AddJob, TypeInvariant, Suspended
  <2>1. Finish(r) /\ accounts' = accounts /\ \A a \in Accounts \ {b} : mail'[a] = mail[a]
    BY <1>4, <2>0, <1>a DEF AddJob
  <2>2. Mailing(r, b)
    BY <1>4, <2>0 DEF AddJob, Mailing
  <2>3. accounts[b] # NoSlug /\ \A q \in Requests : Mailing(q, b) => q = r
    BY <2>2 DEF OneCreator
  <2>4. \A q \in Requests, a \in Accounts : Mailing(q, a)' => Mailing(q, a) /\ a # b
    BY <2>1, <2>3, FinishMails
  <2> QED BY <2>1, <2>3, <2>4 DEF OneCreator
<1>5. ASSUME NEW a \in Accounts, TakeJob(a) \/ SendEmail(a) PROVE OneCreator'
  <2>1. UNCHANGED <<accounts, req, pc>> /\ mail[a] # "none"
        /\ \A b \in Accounts \ {a} : mail'[b] = mail[b]
    BY <1>5, <1>a DEF TakeJob, SendEmail, Active
  <2> QED BY <2>1 DEF OneCreator, Mailing
<1>6. CASE Restart
  <2>1. \A q \in Requests, a \in Accounts : ~ Mailing(q, a)'
    BY <1>6 DEF Restart, Mailing
  <2>2. accounts' = accounts /\ \A a \in Accounts : mail[a] = "none" => mail'[a] = "none"
    BY <1>6 DEF Restart, Active
  <2> QED BY <2>1, <2>2 DEF OneCreator
<1>7. CASE UNCHANGED vars
  BY <1>7, NobodyPassed DEF vars, jobs, Mailing
<1> QED
  BY <1>1, <1>2, <1>3, <1>4, <1>5, <1>6, <1>7 DEF Next, Continue

LEMMA CreatorHolds == Spec => []OneCreator
<1>1. Init => OneCreator
  BY DEF Init, OneCreator, Mailing
<1> QED
  BY <1>1, StepCreator, TypesHold, PTL DEF Spec

(* The mail of an account only gets nearer its end, and an account whose   *)
(* mail was queued gets no second, for any number of requests that create  *)
(* it and any number of restarts.                                          *)
THEOREM MailsAdvance == Spec => MailAdvances
<1>1. TypeInvariant /\ OneCreator /\ [Next]_vars
        => [\A a \in Accounts : mail'[a] # mail[a] => Ahead(a)' < Ahead(a)]_vars
  <2> SUFFICES ASSUME TypeInvariant, OneCreator, [Next]_vars,
                      NEW a \in Accounts, mail'[a] # mail[a]
               PROVE  Ahead(a)' < Ahead(a)
    OBVIOUS
  <2>a. mail \in [Accounts -> JobStates]
    BY DEF TypeInvariant, TypeOK
  <2>1. CASE \E r \in Requests : AddJob(r)
    <3>1. PICK r \in Requests : AddJob(r)
      BY <2>1
    <3>2. PICK b \in Accounts : b = req[r].account
      BY <3>1, InputFacts DEF AddJob, TypeInvariant, Suspended
    <3>3. mail' = [mail EXCEPT ![b] = "waiting"]
      BY <3>1, <3>2 DEF AddJob
    <3>4. a = b
      BY <3>3, <2>a
    <3>5. mail[a] = "none" /\ mail'[a] = "waiting"
      BY <3>1, <3>2, <3>3, <3>4, <2>a DEF OneCreator, Mailing, AddJob
    <3> QED BY <3>5 DEF Ahead
  <2>2. CASE \E b \in Accounts : TakeJob(b)
    <3>1. mail[a] = "waiting" /\ mail'[a] = "active" /\ stalled' = stalled
      BY <2>2, <2>a DEF TakeJob
    <3> QED BY <3>1 DEF Ahead
  <2>3. CASE \E b \in Accounts : SendEmail(b)
    <3>1. mail[a] = "active" /\ mail'[a] \in {"sent", "failed"}
      BY <2>3, <2>a DEF SendEmail, Active
    <3> QED BY <3>1 DEF Ahead
  <2>4. CASE Restart
    <3>1. /\ mail[a] = "active" /\ a \in stalled'
          /\ mail'[a] = IF a \in stalled THEN "failed" ELSE "waiting"
      BY <2>4 DEF Restart, Active
    <3> QED BY <3>1 DEF Ahead
  <2>5. mail' = mail \/ (\E r \in Requests : AddJob(r))
        \/ (\E b \in Accounts : TakeJob(b) \/ SendEmail(b)) \/ Restart
    BY DEF Next, Continue, Begin, InsertTemplate, FindToUpdate, FindTitle, WriteTemplate,
           FindToRemove, DeleteTemplate, InsertUser, UserExists, FindBySlug, CallFails, jobs, vars
  <2> QED BY <2>1, <2>2, <2>3, <2>4, <2>5
<1> QED
  BY <1>1, TypesHold, CreatorHolds, PTL DEF Spec, MailAdvances

=============================================================================
