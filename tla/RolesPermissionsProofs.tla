----------------------- MODULE RolesPermissionsProofs -----------------------
(***************************************************************************)
(* Proofs about RolesPermissions, for any users, roles, permissions and    *)
(* requests.                                                               *)
(***************************************************************************)
EXTENDS RolesPermissions, TLAPS

locals == <<req, pc, seen, list, answer>>

USE RoleAssumption, ConfiguredAssumption, MaxFloatingAssumption, AskedAssumption

(* The operations of a request that has begun.                             *)
LEMMA InputFacts ==
    ASSUME NEW i \in Input
    PROVE  /\ i.op \in Operations /\ i.user \in Users
           /\ i # NoRequest
           /\ i.op \in {"updateRole", "removeRole"} => i.role \in Roles
           /\ i.op = "createPermission" => i.row \in PermissionRow
           /\ i.op = "removePermission" => i.permission \in Permissions
           /\ i.op = "assignRole" => i.target \in Users /\ i.role \in Roles
BY DEF Input, NewRow, NoRequest, Operations, PermissionRow, RowStates, Opened, Descriptions,
       Creatable

(* Once begun, a request is suspended in an await of its own operation.    *)
Suspended ==
    \A r \in Requests :
        /\ pc[r] # "idle" => req[r] \in Input
        /\ pc[r] = "sameName" => req[r].op = "updateRole"
        /\ pc[r] = "deleteRole" => req[r].op = "removeRole"
        /\ pc[r] = "insertPermission" => req[r].op = "createPermission"
        /\ pc[r] = "deletePermission" => req[r].op = "removePermission"
        /\ pc[r] = "writeUser" => req[r].op = "assignRole"

TypeInvariant == TypeOK /\ Suspended

LEMMA InitTypes == Init => TypeInvariant
<1> SUFFICES ASSUME Init PROVE TypeInvariant
  OBVIOUS
<1>1. permissions \in [Permissions -> PermissionRow]
  <2>1. permissions = [p \in Permissions |->
            IF \E op \in Configured : Seed[op] = p
            THEN PermissionFor(CHOOSE op \in Configured : Seed[op] = p)
            ELSE Unused]
    BY DEF Init
  <2>2. Unused \in PermissionRow
    BY DEF Unused, PermissionRow, RowStates, Opened, Descriptions
  <2>3. ASSUME NEW op \in Configured PROVE PermissionFor(op) \in PermissionRow
    BY DEF PermissionFor, PermissionRow, RowStates, Opened, Descriptions
  <2> QED
    BY <2>1, <2>2, <2>3
<1>2. roles \in [Roles -> RoleRow]
  BY DEF Init, RoleRow, RowStates
<1>3. /\ roleOf \in [Users -> Roles \cup {NoRole}]
      /\ req \in [Requests -> Input \cup {NoRequest}]
      /\ pc \in [Requests -> {"idle"} \cup Guarding \cup Handling]
      /\ seen \in [Requests -> Roles \cup {NoRole}]
      /\ list \in [Requests -> SUBSET Permissions]
      /\ floating \in 0..MaxFloating
      /\ syncing \in [Configured -> 0..MaxFloating]
      /\ copies \subseteq Copy
      /\ answer \in [Requests -> Answers]
      /\ sight \in [Requests -> [had : BOOLEAN, lacked : BOOLEAN]]
  BY DEF Init, Answers
<1>4. Suspended
  BY DEF Init, Suspended
<1> QED
  BY <1>1, <1>2, <1>3, <1>4 DEF TypeInvariant, TypeOK

LEMMA ObserveTypes ==
    ASSUME TypeOK, Observe
    PROVE  sight' \in [Requests -> [had : BOOLEAN, lacked : BOOLEAN]]
<1>1. ASSUME NEW r \in Requests
      PROVE  sight'[r] \in [had : BOOLEAN, lacked : BOOLEAN]
  <2> DEFINE i == IF pc[r] = "idle" THEN req'[r] ELSE req[r]
             before == IF pc[r] \in Guarding THEN sight[r] ELSE Unseen
             now == [had |-> before.had \/ i.op \in rights'[i.user],
                     lacked |-> before.lacked \/ i.op \notin rights'[i.user]]
  <2>1. before \in [had : BOOLEAN, lacked : BOOLEAN] /\ Unseen \in [had : BOOLEAN, lacked : BOOLEAN]
    BY DEF TypeOK, Unseen
  <2>2. now \in [had : BOOLEAN, lacked : BOOLEAN]
    <3> HIDE DEF i, before
    <3> QED BY <2>1
  <2>3. sight'[r] = now \/ sight'[r] = Unseen \/ sight'[r] = sight[r]
    BY DEF Observe
  <2> QED
    BY <2>1, <2>2, <2>3 DEF TypeOK
<1> QED
  BY <1>1 DEF Observe

(* What a step may do to the tables: a permission is created, removed or   *)
(* left alone; a role loses its permissions, if anything.                  *)
TableStep ==
    /\ \A p \in Permissions :
          \/ permissions'[p] = permissions[p]
          \/ permissions[p].state = "free" /\ permissions'[p].state # "free"
          \/ permissions'[p].state = "gone"
    /\ \A role \in Roles : roles'[role] = roles[role] \/ roles'[role].grants = {}

(* What a step may do to a request.                                        *)
Keeps(s) == req'[s] = req[s] /\ answer'[s] = answer[s]
Moves(s) ==
    \/ pc'[s] = pc[s] /\ Keeps(s) /\ seen'[s] = seen[s] /\ list'[s] = list[s]
    \/ pc[s] = "idle" /\ pc'[s] = "idle" /\ answer'[s] = answer[s] /\ req'[s] = NoRequest
    \/ pc[s] = "idle" /\ pc'[s] = "user" /\ answer'[s] = "other"
    \/ /\ pc[s] = "user" /\ pc'[s] = "role" /\ Keeps(s)
       /\ seen'[s] = roleOf[req[s].user] /\ UNCHANGED tables
    \/ /\ pc[s] = "role" /\ pc'[s] = "permissions" /\ Keeps(s)
       /\ list'[s] = Grants(seen[s]) /\ UNCHANGED tables
    \/ /\ pc[s] = "permissions" /\ pc'[s] = "handler" /\ Keeps(s)
       /\ req[s].op \in Opens(list[s])
    \/ /\ pc[s] = "permissions" /\ pc'[s] = "idle" /\ answer'[s] = "forbidden"
       /\ req[s].op \notin Opens(list[s]) /\ UNCHANGED tables /\ req'[s] = NoRequest
    \/ pc[s] \in Handling /\ pc'[s] \in Handling /\ Keeps(s)
    \/ /\ pc[s] # "idle" /\ pc'[s] = "idle" /\ answer'[s] # "forbidden"
       /\ req'[s] = NoRequest

TableTypes ==
    /\ roleOf \in [Users -> Roles \cup {NoRole}]
    /\ roles \in [Roles -> RoleRow]
    /\ permissions \in [Permissions -> PermissionRow]

RequestTypes ==
    /\ req \in [Requests -> Input \cup {NoRequest}]
    /\ pc \in [Requests -> {"idle"} \cup Guarding \cup Handling]
    /\ seen \in [Requests -> Roles \cup {NoRole}]
    /\ list \in [Requests -> SUBSET Permissions]
    /\ answer \in [Requests -> Answers]
    /\ Suspended

CounterTypes == floating \in 0..MaxFloating /\ syncing \in [Configured -> 0..MaxFloating]

CopyTypes == copies \subseteq Copy

LEMMA TypeParts ==
    TypeInvariant <=> /\ TableTypes /\ RequestTypes /\ CounterTypes /\ CopyTypes
                      /\ sight \in [Requests -> [had : BOOLEAN, lacked : BOOLEAN]]
BY DEF TypeInvariant, TypeOK, TableTypes, RequestTypes, CounterTypes, CopyTypes

LEMMA FinishTypes ==
    ASSUME TypeInvariant, NEW r \in Requests, NEW how \in Answers, Finish(r, how)
    PROVE  RequestTypes'
<1> USE DEF TypeInvariant, TypeOK, Finish
<1>1. pc' \in [Requests -> {"idle"} \cup Guarding \cup Handling]
  BY DEF Guarding, Handling
<1>2. Suspended'
  BY DEF Suspended
<1> QED
  BY <1>1, <1>2 DEF RequestTypes

LEMMA FinishMoves ==
    ASSUME TypeInvariant, NEW r \in Requests, NEW how \in Answers, Finish(r, how),
           how # "forbidden", pc[r] # "idle"
    PROVE  \A s \in Requests : Moves(s)
BY DEF TypeInvariant, TypeOK, Finish, Moves, Keeps

(* An await of a handler's own operation follows.                          *)
Follows(r, where) ==
    /\ where \in Handling /\ pc[r] # "idle"
    /\ where = "sameName" => req[r].op = "updateRole"
    /\ where = "deleteRole" => req[r].op = "removeRole"
    /\ where = "insertPermission" => req[r].op = "createPermission"
    /\ where = "deletePermission" => req[r].op = "removePermission"
    /\ where = "writeUser" => req[r].op = "assignRole"

LEMMA AwaitTypes ==
    ASSUME TypeInvariant, NEW r \in Requests, NEW where, Follows(r, where), Await(r, where)
    PROVE  RequestTypes'
<1> USE DEF TypeInvariant, TypeOK, Await, Follows
<1>1. pc' \in [Requests -> {"idle"} \cup Guarding \cup Handling]
  OBVIOUS
<1>2. Suspended'
  BY DEF Suspended
<1> QED
  BY <1>1, <1>2 DEF RequestTypes

LEMMA AwaitMoves ==
    ASSUME TypeInvariant, NEW r \in Requests, NEW where, Follows(r, where), Await(r, where),
           pc[r] \in Handling
    PROVE  \A s \in Requests : Moves(s)
BY DEF TypeInvariant, TypeOK, Await, Follows, Moves, Keeps

(* A handler's step that leaves the tables and the counters alone.         *)
Good == TableTypes' /\ TableStep /\ RequestTypes' /\ CounterTypes' /\ (\A s \in Requests : Moves(s))

LEMMA SameTables ==
    ASSUME TypeInvariant, UNCHANGED tables
    PROVE  TableTypes' /\ TableStep
BY DEF TypeInvariant, TypeOK, tables, TableTypes, TableStep

LEMMA SameCounters ==
    ASSUME TypeInvariant, NothingFloats
    PROVE  CounterTypes'
BY DEF TypeInvariant, TypeOK, NothingFloats, CounterTypes

LEMMA Finishes ==
    ASSUME TypeInvariant, NEW r \in Requests, pc[r] # "idle",
           Finish(r, "other")
    PROVE  RequestTypes' /\ (\A s \in Requests : Moves(s))
BY FinishTypes, FinishMoves DEF Answers

LEMMA Awaits ==
    ASSUME TypeInvariant, NEW r \in Requests, NEW where, Follows(r, where), Await(r, where),
           pc[r] \in Handling
    PROVE  RequestTypes' /\ (\A s \in Requests : Moves(s))
BY AwaitTypes, AwaitMoves

-----------------------------------------------------------------------------
(* The guard                                                               *)

LEMMA GuardSteps ==
    ASSUME TypeInvariant, NEW r \in Requests,
           Begin(r) \/ ReadUser(r) \/ ReadRole(r) \/ Decide(r)
    PROVE  Good
<1> USE DEF Good
<1>1. CASE Begin(r)
  <2>1. RequestTypes'
    BY <1>1 DEF Begin, TypeInvariant, TypeOK, RequestTypes, Suspended, Guarding, Handling, Answers
  <2>2. \A s \in Requests : Moves(s)
    BY <1>1 DEF Begin, TypeInvariant, TypeOK, Moves, Keeps
  <2> QED
    BY <1>1, <2>1, <2>2, SameTables, SameCounters DEF Begin, tables
<1>2. CASE ReadUser(r)
  <2>1. req[r].user \in Users
    BY <1>2, InputFacts DEF ReadUser, TypeInvariant, Suspended
  <2>2. RequestTypes'
    BY <1>2, <2>1 DEF ReadUser, TypeInvariant, TypeOK, RequestTypes, Suspended, Guarding, Handling
  <2>3. \A s \in Requests : Moves(s)
    BY <1>2 DEF ReadUser, TypeInvariant, TypeOK, Moves, Keeps
  <2> QED
    BY <1>2, <2>2, <2>3, SameTables, SameCounters DEF ReadUser, tables
<1>3. CASE ReadRole(r)
  <2>1. Grants(seen[r]) \in SUBSET Permissions
    BY DEF Grants, TypeInvariant, TypeOK, RoleRow
  <2>2. RequestTypes'
    BY <1>3, <2>1 DEF ReadRole, TypeInvariant, TypeOK, RequestTypes, Suspended, Guarding, Handling
  <2>3. \A s \in Requests : Moves(s)
    BY <1>3 DEF ReadRole, TypeInvariant, TypeOK, Moves, Keeps
  <2> QED
    BY <1>3, <2>2, <2>3, SameTables, SameCounters DEF ReadRole, tables
<1>4. CASE Decide(r)
  <2>1. CASE req[r].op \in Opens(list[r]) /\ Pass(r)
    <3>1. RequestTypes'
      BY <1>4, <2>1
         DEF Decide, Pass, TypeInvariant, TypeOK, RequestTypes, Suspended, Guarding, Handling
    <3>2. \A s \in Requests : Moves(s)
      BY <1>4, <2>1 DEF Decide, Pass, TypeInvariant, TypeOK, Moves, Keeps
    <3> QED
      BY <1>4, <3>1, <3>2, SameTables, SameCounters DEF Decide, tables
  <2>2. CASE req[r].op \notin Opens(list[r]) /\ Finish(r, "forbidden")
    <3>1. RequestTypes'
      BY <2>2, FinishTypes DEF Answers
    <3>2. \A s \in Requests : Moves(s)
      BY <1>4, <2>2 DEF Decide, Finish, TypeInvariant, TypeOK, Moves, Keeps
    <3> QED
      BY <1>4, <3>1, <3>2, SameTables, SameCounters DEF Decide, tables
  <2> QED
    BY <1>4, <2>1, <2>2 DEF Decide
<1> QED
  BY <1>1, <1>2, <1>3, <1>4

-----------------------------------------------------------------------------
(* The handlers                                                            *)

LEMMA ReadSteps ==
    ASSUME TypeInvariant, NEW r \in Requests,
           UpdateRole(r) \/ FindRole(r) \/ CreatePermission(r) \/ FindPermission(r)
              \/ FindUser(r) \/ CallFails(r)
    PROVE  Good
<1>1. UNCHANGED tables /\ NothingFloats
  BY DEF UpdateRole, FindRole, CreatePermission, FindPermission, FindUser, CallFails
<1>2. pc[r] # "idle"
  BY DEF UpdateRole, FindRole, CreatePermission, FindPermission, FindUser, CallFails
<1>3. \/ Finish(r, "other")
      \/ pc[r] \in Handling /\ \E where \in Handling : Follows(r, where) /\ Await(r, where)
  BY <1>2 DEF UpdateRole, FindRole, CreatePermission, FindPermission, FindUser, CallFails,
              Follows, Handling
<1>4. RequestTypes' /\ (\A s \in Requests : Moves(s))
  BY <1>2, <1>3, Finishes, Awaits
<1> QED
  BY <1>1, <1>4, SameTables, SameCounters DEF Good

LEMMA CountingSteps ==
    ASSUME TypeInvariant, NEW r \in Requests,
           CreateRole(r) \/ SameName(r) \/ UpdatePermission(r) \/ SyncPermission(r)
    PROVE  Good
<1>1. UNCHANGED tables
  BY DEF CreateRole, SameName, UpdatePermission, SyncPermission
<1>2. pc[r] # "idle"
  BY DEF CreateRole, SameName, UpdatePermission, SyncPermission
<1>3. \/ Finish(r, "other")
      \/ pc[r] \in Handling /\ \E where \in Handling : Follows(r, where) /\ Await(r, where)
  BY <1>2 DEF CreateRole, SameName, UpdatePermission, SyncPermission, Follows, Handling
<1>4. RequestTypes' /\ (\A s \in Requests : Moves(s))
  BY <1>2, <1>3, Finishes, Awaits
<1>5. CounterTypes'
  <2>1. CASE CreateRole(r)
    BY <2>1 DEF CreateRole, TypeInvariant, TypeOK, CounterTypes
  <2>2. CASE SameName(r)
    BY <2>2 DEF SameName, TypeInvariant, TypeOK, CounterTypes
  <2>3. CASE UpdatePermission(r)
    BY <2>3 DEF UpdatePermission, TypeInvariant, TypeOK, CounterTypes
  <2>4. CASE SyncPermission(r)
    BY <2>4 DEF SyncPermission, TypeInvariant, TypeOK, CounterTypes
  <2> QED
    BY <2>1, <2>2, <2>3, <2>4
<1> QED
  BY <1>1, <1>4, <1>5, SameTables DEF Good

LEMMA RoleWrites ==
    ASSUME TypeInvariant, NEW r \in Requests, InsertRole(r) \/ DeleteRole(r) \/ AssignRole(r)
    PROVE  Good
<1>1. pc[r] # "idle" /\ Finish(r, "other")
  BY DEF InsertRole, DeleteRole, AssignRole
<1>2. RequestTypes' /\ (\A s \in Requests : Moves(s))
  BY <1>1, Finishes
<1>3. CounterTypes'
  BY SameCounters DEF InsertRole, DeleteRole, AssignRole
<1>4. TableTypes' /\ TableStep
  <2> USE DEF TypeInvariant, TypeOK, TableTypes, TableStep
  <2>1. CASE InsertRole(r)
    BY <2>1 DEF InsertRole, RoleRow, RowStates
  <2>2. CASE DeleteRole(r)
    <3>1. req[r].role \in Roles
      BY <2>2, InputFacts DEF DeleteRole, Suspended
    <3>2. CASE UNCHANGED <<roles, roleOf>>
      BY <2>2, <3>2 DEF DeleteRole
    <3>3. CASE roles' = [roles EXCEPT ![req[r].role] = [state |-> "gone", grants |-> {}]]
      <4>1. roleOf' \in [Users -> Roles \cup {NoRole}]
        BY <2>2 DEF DeleteRole
      <4>2. roles' \in [Roles -> RoleRow]
        BY <3>3 DEF RoleRow, RowStates
      <4> QED
        BY <2>2, <3>1, <3>3, <4>1, <4>2 DEF DeleteRole
    <3> QED
      BY <2>2, <3>2, <3>3 DEF DeleteRole
  <2>3. CASE AssignRole(r)
    <3>1. req[r].target \in Users /\ req[r].role \in Roles
      BY <2>3, InputFacts DEF AssignRole, Suspended
    <3> QED
      BY <2>3, <3>1 DEF AssignRole
  <2> QED
    BY <2>1, <2>2, <2>3
<1> QED
  BY <1>2, <1>3, <1>4 DEF Good

LEMMA StoreTables ==
    ASSUME TypeInvariant, NEW row \in PermissionRow, row.state = "live", Store(row),
           UNCHANGED <<roleOf, roles>>
    PROVE  TableTypes' /\ TableStep
BY DEF TypeInvariant, TypeOK, TableTypes, TableStep, Store

LEMMA PermissionWrites ==
    ASSUME TypeInvariant, NEW r \in Requests, InsertPermission(r) \/ DeletePermission(r)
    PROVE  Good
<1>1. pc[r] # "idle" /\ Finish(r, "other")
  BY DEF InsertPermission, DeletePermission
<1>2. RequestTypes' /\ (\A s \in Requests : Moves(s))
  BY <1>1, Finishes
<1>3. CounterTypes'
  BY SameCounters DEF InsertPermission, DeletePermission
<1>4. TableTypes' /\ TableStep
  <2>1. CASE UNCHANGED <<roleOf, roles, permissions>>
    BY <2>1, SameTables DEF tables
  <2>2. CASE InsertPermission(r) /\ Store(req[r].row)
    <3>1. req[r] \in Input /\ req[r].op = "createPermission"
      BY <2>2 DEF InsertPermission, TypeInvariant, Suspended
    <3>2. req[r].row \in PermissionRow
      BY <3>1, InputFacts
    <3>3. req[r].row.state = "live"
      BY <3>1 DEF Input, NewRow
    <3> QED
      BY <2>2, <3>2, <3>3, StoreTables DEF InsertPermission
  <2>3. CASE DeletePermission(r) /\ permissions[req[r].permission].state = "live"
    <3>1. req[r].permission \in Permissions
      BY <2>3, InputFacts DEF DeletePermission, TypeInvariant, Suspended
    <3>2. [Unused EXCEPT !.state = "gone"] \in PermissionRow
      BY DEF Unused, PermissionRow, RowStates, Opened, Descriptions
    <3>3. [Unused EXCEPT !.state = "gone"].state = "gone"
      BY DEF Unused
    <3> QED
      BY <2>3, <3>1, <3>2, <3>3
         DEF DeletePermission, TypeInvariant, TypeOK, TableTypes, TableStep
  <2> QED
    BY <2>1, <2>2, <2>3 DEF InsertPermission, DeletePermission
<1> QED
  BY <1>2, <1>3, <1>4 DEF Good

LEMMA FloatingSteps ==
    ASSUME TypeInvariant,
           FloatingSettles \/ FloatingRejects \/ \E op \in Configured : SyncInsert(op)
    PROVE  Good
<1>1. CASE FloatingSettles
  <2>1. RequestTypes' /\ (\A s \in Requests : Moves(s))
    BY <1>1 DEF FloatingSettles, TypeInvariant, TypeOK, RequestTypes, Suspended, Moves, Keeps
  <2>2. CounterTypes'
    BY <1>1 DEF FloatingSettles, TypeInvariant, TypeOK, CounterTypes
  <2> QED
    BY <1>1, <2>1, <2>2, SameTables DEF FloatingSettles, Good
<1>2. CASE FloatingRejects
  <2>1. RequestTypes'
    BY <1>2 DEF FloatingRejects, TypeInvariant, TypeOK, RequestTypes, Suspended, Answers
  <2>2. \A s \in Requests : Moves(s)
    <3> SUFFICES ASSUME NEW s \in Requests PROVE Moves(s)
      OBVIOUS
    <3>1. pc[s] \in {"idle"} \cup Guarding \cup Handling
      BY DEF TypeInvariant, TypeOK
    <3>2. CASE pc[s] = "idle"
      BY <1>2, <3>2 DEF FloatingRejects, Moves
    <3>3. CASE pc[s] # "idle"
      BY <1>2, <3>3 DEF FloatingRejects, Moves
    <3> QED
      BY <3>2, <3>3
  <2>3. CounterTypes'
    BY <1>2 DEF FloatingRejects, TypeInvariant, TypeOK, CounterTypes
  <2> QED
    BY <1>2, <2>1, <2>2, <2>3, SameTables DEF FloatingRejects, Good
<1>3. ASSUME NEW op \in Configured, SyncInsert(op) PROVE Good
  <2>1. RequestTypes' /\ (\A s \in Requests : Moves(s))
    BY <1>3 DEF SyncInsert, TypeInvariant, TypeOK, RequestTypes, Suspended, Moves, Keeps
  <2>2. CounterTypes'
    BY <1>3 DEF SyncInsert, TypeInvariant, TypeOK, CounterTypes
  <2>3. TableTypes' /\ TableStep
    <3>1. CASE Store(PermissionFor(op))
      <4>1. PermissionFor(op) \in PermissionRow /\ PermissionFor(op).state = "live"
        BY DEF PermissionFor, PermissionRow, RowStates, Opened, Descriptions
      <4> QED
        BY <1>3, <3>1, <4>1, StoreTables DEF SyncInsert
    <3>2. CASE UNCHANGED permissions
      BY <1>3, <3>2, SameTables DEF SyncInsert, tables
    <3> QED
      BY <1>3, <3>1, <3>2 DEF SyncInsert
  <2> QED
    BY <2>1, <2>2, <2>3 DEF Good
<1> QED
  BY <1>1, <1>2, <1>3

(* Somebody else's copy of a row.                                          *)
LEMMA CopySteps ==
    ASSUME TypeInvariant,
           \/ \E u \in Users : ReadRow(u)
           \/ \E c \in copies : WriteRow(c) \/ DropRow(c)
    PROVE  Good
<1>1. UNCHANGED <<roles, permissions, req, pc, seen, list, answer>> /\ NothingFloats
  BY DEF ReadRow, WriteRow, DropRow, Elsewhere
<1>2. RequestTypes' /\ (\A s \in Requests : Moves(s))
  BY <1>1 DEF TypeInvariant, TypeOK, RequestTypes, Suspended, Moves, Keeps
<1>3. CounterTypes'
  BY <1>1, SameCounters
<1>4. roleOf' \in [Users -> Roles \cup {NoRole}]
  <2>1. CASE \E c \in copies : WriteRow(c)
    <3>1. PICK c \in copies : WriteRow(c)
      BY <2>1
    <3>2. c.user \in Users /\ c.role \in Roles \cup {NoRole}
      BY DEF TypeInvariant, TypeOK, Copy
    <3> QED
      BY <3>1, <3>2 DEF WriteRow, TypeInvariant, TypeOK
  <2>2. CASE UNCHANGED roleOf
    BY <2>2 DEF TypeInvariant, TypeOK
  <2> QED
    BY <2>1, <2>2 DEF ReadRow, DropRow
<1>5. TableTypes' /\ TableStep
  BY <1>1, <1>4 DEF TypeInvariant, TypeOK, TableTypes, TableStep
<1> QED
  BY <1>2, <1>3, <1>5 DEF Good

(* Every copy was made before, or is made now of the row as it is.         *)
LEMMA CopiesAreRead ==
    ASSUME TypeInvariant, Step, NEW c \in copies'
    PROVE  \/ c \in copies
           \/ /\ c \in Copy /\ c.role = roleOf[c.user]
              /\ UNCHANGED <<roles, permissions>>
<1>1. CASE \E u \in Users : ReadRow(u)
  <2>1. PICK u \in Users : ReadRow(u)
    BY <1>1
  <2>2. CASE c \in copies
    BY <2>2
  <2>3. CASE c = [user |-> u, role |-> roleOf[u]]
    BY <2>1, <2>3 DEF ReadRow, Elsewhere, Copy, TypeInvariant, TypeOK
  <2> QED
    BY <2>1, <2>2, <2>3 DEF ReadRow
<1>2. CASE copies' \subseteq copies
  BY <1>2
<1>3. copies' \subseteq copies \/ \E u \in Users : ReadRow(u)
  BY DEF Step, FloatingRejects, WriteRow, DropRow
<1> QED
  BY <1>1, <1>2, <1>3

LEMMA StepIsGood == ASSUME TypeInvariant, Step PROVE Good
<1>1. ASSUME NEW r \in Requests, Begin(r) \/ Continue(r) PROVE Good
  BY <1>1, GuardSteps, ReadSteps, CountingSteps, RoleWrites, PermissionWrites DEF Continue
<1> QED
  BY <1>1, FloatingSteps, CopySteps DEF Step

LEMMA NextTypes == ASSUME TypeInvariant, [Next]_vars PROVE TypeInvariant'
<1>1. CASE Next
  <2>1. sight' \in [Requests -> [had : BOOLEAN, lacked : BOOLEAN]]
    BY <1>1, ObserveTypes DEF Next, TypeInvariant
  <2>2. Good
    BY <1>1, StepIsGood DEF Next
  <2>3. copies' \subseteq Copy
    BY <1>1, CopiesAreRead DEF Next, TypeInvariant, TypeOK
  <2> QED
    BY <2>1, <2>2, <2>3 DEF Good, TypeInvariant, TypeOK, TableTypes, RequestTypes, CounterTypes
<1>2. CASE UNCHANGED vars
  BY <1>2 DEF vars, TypeInvariant, TypeOK, Suspended
<1> QED
  BY <1>1, <1>2

(* All variables keep their types, and a request is suspended only in an   *)
(* await of its own handler.                                               *)
THEOREM TypeCorrect == Spec => []TypeOK
<1>1. Spec => []TypeInvariant
  BY InitTypes, NextTypes, PTL DEF Spec
<1>2. TypeInvariant => TypeOK
  BY DEF TypeInvariant
<1> QED
  BY <1>1, <1>2, PTL

-----------------------------------------------------------------------------
(* The guard decides right: the invariant                                  *)

Born(ids) == \A p \in ids : permissions[p].state # "free"

(* Rights only shrink, because an id is used once and roles only lose      *)
(* permissions.  So what the guard has read so far opens an operation only *)
(* if the user could do it when the guard began to look; and it opens the  *)
(* operation still, unless the user has been without the right by now: for *)
(* while the user has it, the superuser's role is what was read.           *)
TablesInvariant == OnlySuperUserHolds /\ \A role \in Roles : Born(roles[role].grants)

RoleRead(r) ==
    /\ req[r].op \in Opens(Grants(seen[r])) => sight[r].had
    /\ req[r].op \notin Opens(Grants(seen[r])) => sight[r].lacked
ListRead(r) ==
    /\ Born(list[r])
    /\ req[r].op \in Opens(list[r]) => sight[r].had
    /\ ~sight[r].lacked => req[r].op \in Opens(list[r]) /\ Grants(SuperUser) \subseteq list[r]

GuardInvariant ==
    /\ TablesInvariant
    /\ \A r \in Requests :
          /\ pc[r] = "role" => RoleRead(r)
          /\ pc[r] = "permissions" => ListRead(r)
          /\ pc[r] \in Handling => sight[r].had
          /\ pc[r] # "idle" => answer[r] = "other"
          /\ answer[r] = "forbidden" => sight[r].lacked

LEMMA InitGuard == Init => GuardInvariant
<1> SUFFICES ASSUME Init PROVE GuardInvariant
  OBVIOUS
<1>1. TablesInvariant
  BY DEF Init, TablesInvariant, OnlySuperUserHolds, Born
<1>2. ASSUME NEW r \in Requests PROVE pc[r] = "idle" /\ answer[r] = "other"
  BY <1>2 DEF Init
<1> QED
  BY <1>1, <1>2 DEF GuardInvariant, Handling

LEMMA TablesKept ==
    ASSUME TypeInvariant, TableStep, TablesInvariant
    PROVE  TablesInvariant'
BY DEF TypeInvariant, TypeOK, RoleRow, TableStep, TablesInvariant, OnlySuperUserHolds, Born

LEMMA OpensShrinks ==
    ASSUME TypeInvariant, TableStep, NEW ids \in SUBSET Permissions, Born(ids)
    PROVE  Born(ids)' /\ Opens(ids)' \subseteq Opens(ids)
<1>1. ASSUME NEW p \in ids
      PROVE  permissions'[p] = permissions[p] \/ permissions'[p].state = "gone"
  BY <1>1 DEF TableStep, Born
<1> QED
  BY <1>1 DEF Born, Opens

LEMMA GrantsShrink ==
    ASSUME TypeInvariant, TableStep, TablesInvariant, NEW role \in Roles \cup {NoRole}
    PROVE  /\ Grants(role)' \subseteq Grants(role)
           /\ Opens(Grants(role))' \subseteq Opens(Grants(role))
<1>1. CASE role = NoRole
  BY <1>1 DEF Grants, Opens
<1>2. CASE role \in Roles /\ roles'[role].grants = {}
  BY <1>2 DEF Grants, Opens
<1>3. CASE role \in Roles /\ roles'[role] = roles[role]
  <2> DEFINE ids == Grants(role)
  <2>1. Grants(role)' = ids
    BY <1>3 DEF Grants
  <2>2. ids \in SUBSET Permissions /\ Born(ids)
    BY <1>3 DEF Grants, TablesInvariant, Born, TypeInvariant, TypeOK, RoleRow
  <2>3. \A x \in SUBSET Permissions : Born(x) =>
            {permissions'[p].opens : p \in {q \in x : permissions'[q].state = "live"}}
              \subseteq Opens(x)
    BY OpensShrinks DEF Opens
  <2> QED
    BY <2>1, <2>2, <2>3 DEF Opens
<1> QED
  BY <1>1, <1>2, <1>3 DEF TableStep

(* Nobody has a right the superuser's role does not give.                  *)
LEMMA RightsBelow ==
    ASSUME TableTypes', TablesInvariant', NEW u \in Users
    PROVE  rights'[u] \subseteq Opens(Grants(SuperUser))'
<1>1. rights'[u] = Opens(Grants(roleOf[u]))'
  BY DEF rights
<1>2. CASE roleOf'[u] = SuperUser
  BY <1>1, <1>2 DEF Opens, Grants
<1>3. CASE roleOf'[u] # SuperUser
  <2>1. Grants(roleOf[u])' = {}
    BY <1>3 DEF Grants, TablesInvariant, OnlySuperUserHolds, TableTypes
  <2> QED
    BY <1>1, <2>1 DEF Opens
<1> QED
  BY <1>2, <1>3

LEMMA ObserveGuarding ==
    ASSUME TypeInvariant, Observe, NEW r \in Requests, pc[r] \in Guarding,
           pc'[r] # "idle" \/ answer'[r] = "forbidden"
    PROVE  /\ sight'[r].had <=> sight[r].had \/ req[r].op \in rights'[req[r].user]
           /\ sight'[r].lacked <=> sight[r].lacked \/ req[r].op \notin rights'[req[r].user]
<1> DEFINE had == sight[r].had \/ req[r].op \in rights'[req[r].user]
           lacked == sight[r].lacked \/ req[r].op \notin rights'[req[r].user]
<1>1. sight'[r] = [had |-> had, lacked |-> lacked]
  BY DEF Observe, Guarding, Handling
<1>2. had \in BOOLEAN /\ lacked \in BOOLEAN
  OBVIOUS
<1>3. sight'[r].had = had /\ sight'[r].lacked = lacked
  <2> HIDE DEF had, lacked
  <2> QED BY <1>1, <1>2
<1> QED
  BY <1>2, <1>3, Zenon

LEMMA ObserveOther ==
    ASSUME TypeInvariant, Observe, NEW r \in Requests, pc[r] \notin Guarding, pc'[r] # "user",
           pc'[r] # "idle" \/ answer'[r] = "forbidden"
    PROVE  sight'[r] = sight[r]
BY DEF Observe

LEMMA GuardKept ==
    ASSUME TypeInvariant, GuardInvariant, Step, Observe
    PROVE  GuardInvariant'
<1> USE DEF Guarding, Handling
<1>1. TableStep /\ TableTypes' /\ \A s \in Requests : Moves(s)
  BY StepIsGood DEF Good
<1>2. TablesInvariant /\ TablesInvariant'
  BY <1>1, TablesKept DEF GuardInvariant
<1> SUFFICES ASSUME NEW r \in Requests
             PROVE  /\ pc'[r] = "role" => RoleRead(r)'
                    /\ pc'[r] = "permissions" => ListRead(r)'
                    /\ pc'[r] \in Handling => sight'[r].had
                    /\ pc'[r] # "idle" => answer'[r] = "other"
                    /\ answer'[r] = "forbidden" => sight'[r].lacked
  BY <1>2 DEF GuardInvariant
<1>3. /\ pc[r] = "role" => RoleRead(r)
      /\ pc[r] = "permissions" => ListRead(r)
      /\ pc[r] \in Handling => sight[r].had
      /\ pc[r] # "idle" => answer[r] = "other"
      /\ answer[r] = "forbidden" => sight[r].lacked
  BY DEF GuardInvariant
<1> DEFINE op == req[r].op
           u == req[r].user
<1>4. pc[r] # "idle" => u \in Users
  BY InputFacts DEF TypeInvariant, Suspended
<1>5. pc[r] # "idle" => rights'[u] \subseteq Opens(Grants(SuperUser))'
  BY <1>1, <1>2, <1>4, RightsBelow
<1>6. seen[r] \in Roles \cup {NoRole} /\ list[r] \in SUBSET Permissions
      /\ pc[r] \in {"idle"} \cup Guarding \cup Handling
  BY DEF TypeInvariant, TypeOK
<1>a. CASE pc'[r] = pc[r] /\ Keeps(r) /\ seen'[r] = seen[r] /\ list'[r] = list[r]
  <2>1. CASE pc[r] = "role"
    <3>1. Opens(Grants(seen[r]))' \subseteq Opens(Grants(seen[r]))
      <4>1. \A role \in Roles \cup {NoRole} :
               {permissions'[p].opens : p \in {q \in IF role # NoRole /\ roles'[role].state = "live"
                        THEN roles'[role].grants ELSE {} : permissions'[q].state = "live"}}
                  \subseteq Opens(Grants(role))
        BY <1>1, <1>2, GrantsShrink DEF Opens, Grants
      <4> QED
        BY <1>a, <1>6, <4>1 DEF Opens, Grants
    <3>2. RoleRead(r)
      BY <1>3, <2>1
    <3>3. op \notin Opens(Grants(seen[r]))' => sight'[r].lacked
      <4>1. CASE op \notin Opens(Grants(seen[r]))
        BY <1>a, <2>1, <3>2, <4>1, ObserveGuarding DEF RoleRead
      <4>2. CASE op \in Opens(Grants(seen[r]))
        <5>1. seen[r] = SuperUser
          BY <1>2, <1>6, <4>2 DEF Opens, Grants, TablesInvariant, OnlySuperUserHolds
        <5>2. Opens(Grants(seen[r]))' = Opens(Grants(SuperUser))'
          BY <1>a, <5>1 DEF Opens, Grants
        <5> QED
          BY <1>5, <1>a, <2>1, <5>2, ObserveGuarding
      <4> QED
        BY <4>1, <4>2
    <3> QED
      BY <1>a, <1>3, <2>1, <3>1, <3>2, <3>3, ObserveGuarding DEF RoleRead, Keeps
  <2>2. CASE pc[r] = "permissions"
    <3>1. ListRead(r)
      BY <1>3, <2>2
    <3>2. Born(list[r])' /\ Opens(list[r])' \subseteq Opens(list[r])
      <4>1. \A x \in SUBSET Permissions : Born(x) =>
               /\ \A p \in x : permissions'[p].state # "free"
               /\ {permissions'[p].opens : p \in {q \in x : permissions'[q].state = "live"}}
                    \subseteq Opens(x)
        BY <1>1, OpensShrinks DEF Opens, Born
      <4> QED
        BY <1>a, <1>6, <3>1, <4>1 DEF Opens, Born, ListRead
    <3>3. Grants(SuperUser)' \subseteq Grants(SuperUser)
      BY <1>1, <1>2, GrantsShrink
    <3>4. ~sight'[r].lacked => op \in Opens(list[r])' /\ Grants(SuperUser)' \subseteq list'[r]
      <4> SUFFICES ASSUME ~sight'[r].lacked
                   PROVE  op \in Opens(list[r])' /\ Grants(SuperUser)' \subseteq list'[r]
        OBVIOUS
      <4>1. ~sight[r].lacked /\ op \in rights'[u]
        BY <1>a, <2>2, ObserveGuarding
      <4>2. Grants(SuperUser)' \subseteq list'[r]
        BY <1>a, <3>1, <3>3, <4>1 DEF ListRead
      <4>3. Opens(Grants(SuperUser))' \subseteq Opens(list[r])'
        BY <4>2 DEF Opens
      <4> QED
        BY <1>5, <2>2, <4>1, <4>2, <4>3
    <3> QED
      BY <1>a, <1>3, <2>2, <3>1, <3>2, <3>4, ObserveGuarding DEF ListRead, Keeps
  <2>3. CASE pc[r] = "user"
    BY <1>a, <1>3, <2>3 DEF Keeps
  <2>4. CASE pc[r] \in Handling \cup {"idle"}
    BY <1>a, <1>3, <2>4, ObserveOther DEF Keeps
  <2> QED
    BY <1>6, <2>1, <2>2, <2>3, <2>4
<1>b. CASE pc[r] = "idle" /\ pc'[r] = "idle" /\ answer'[r] = answer[r] /\ req'[r] = NoRequest
  BY <1>b, <1>3, ObserveOther
<1>c. CASE pc[r] = "idle" /\ pc'[r] = "user" /\ answer'[r] = "other"
  BY <1>c
<1>d. CASE /\ pc[r] = "user" /\ pc'[r] = "role" /\ Keeps(r)
           /\ seen'[r] = roleOf[req[r].user] /\ UNCHANGED tables
  <2>1. rights'[u] = Opens(Grants(seen[r]))'
    BY <1>4, <1>d DEF rights, Opens, Grants, tables
  <2> QED
    BY <1>d, <1>3, <2>1, ObserveGuarding DEF RoleRead, Keeps
<1>e. CASE /\ pc[r] = "role" /\ pc'[r] = "permissions" /\ Keeps(r)
           /\ list'[r] = Grants(seen[r]) /\ UNCHANGED tables
  <2>1. RoleRead(r)
    BY <1>e, <1>3
  <2>2. Opens(list[r])' = Opens(Grants(seen[r]))
    BY <1>e DEF Opens, tables
  <2>3. Born(list[r])'
    BY <1>e, <1>2, <1>6 DEF Born, Grants, TablesInvariant, tables
  <2>4. ~sight'[r].lacked => op \in Opens(list[r])' /\ Grants(SuperUser)' \subseteq list'[r]
    <3> SUFFICES ASSUME ~sight'[r].lacked
                 PROVE  op \in Opens(list[r])' /\ Grants(SuperUser)' \subseteq list'[r]
      OBVIOUS
    <3>1. op \in Opens(Grants(seen[r]))
      BY <1>e, <2>1, ObserveGuarding DEF RoleRead
    <3>2. seen[r] = SuperUser
      BY <1>2, <1>6, <3>1 DEF Opens, Grants, TablesInvariant, OnlySuperUserHolds
    <3> QED
      BY <1>e, <2>2, <3>1, <3>2 DEF Grants, tables
  <2> QED
    BY <1>e, <1>3, <2>1, <2>2, <2>3, <2>4, ObserveGuarding DEF RoleRead, ListRead, Keeps
<1>f. CASE /\ pc[r] = "permissions" /\ pc'[r] = "handler" /\ Keeps(r)
           /\ req[r].op \in Opens(list[r])
  BY <1>f, <1>3, ObserveGuarding DEF ListRead, Keeps
<1>g. CASE /\ pc[r] = "permissions" /\ pc'[r] = "idle" /\ answer'[r] = "forbidden"
           /\ req[r].op \notin Opens(list[r]) /\ UNCHANGED tables /\ req'[r] = NoRequest
  BY <1>g, <1>3, ObserveGuarding DEF ListRead
<1>h. CASE pc[r] \in Handling /\ pc'[r] \in Handling /\ Keeps(r)
  BY <1>h, <1>3, ObserveOther DEF Keeps
<1>i. CASE /\ pc[r] # "idle" /\ pc'[r] = "idle" /\ answer'[r] # "forbidden"
           /\ req'[r] = NoRequest
  BY <1>i
<1> QED
  BY <1>1, <1>a, <1>b, <1>c, <1>d, <1>e, <1>f, <1>g, <1>h, <1>i DEF Moves

LEMMA GuardAlways == Spec => [](TypeInvariant /\ GuardInvariant)
<1>1. Init => TypeInvariant /\ GuardInvariant
  BY InitTypes, InitGuard
<1>2. TypeInvariant /\ GuardInvariant /\ [Next]_vars => (TypeInvariant /\ GuardInvariant)'
  <2> SUFFICES ASSUME TypeInvariant, GuardInvariant, [Next]_vars PROVE GuardInvariant'
    BY NextTypes
  <2>1. CASE Next
    BY <2>1, GuardKept DEF Next
  <2>2. CASE UNCHANGED vars
    BY <2>2 DEF vars, GuardInvariant, TablesInvariant, OnlySuperUserHolds, Born, RoleRead,
                ListRead, Opens, Grants
  <2> QED
    BY <2>1, <2>2
<1> QED
  BY <1>1, <1>2, PTL DEF Spec

(* A request passes the guard only if its user had the right at some       *)
(* moment while the guard looked, and is forbidden only if the user lacked *)
(* it at some moment.                                                      *)
THEOREM VerdictsAreRight == Spec => []VerdictsHeld
<1>1. GuardInvariant => VerdictsHeld
  BY DEF GuardInvariant, VerdictsHeld, AllowedHeld, DeniedLacked
<1> QED
  BY <1>1, GuardAlways, PTL

(* No role but the superuser's ever holds a permission.                    *)
THEOREM RightsComeFromSeeding == Spec => []OnlySuperUserHolds
<1>1. GuardInvariant => OnlySuperUserHolds
  BY DEF GuardInvariant, TablesInvariant
<1> QED
  BY <1>1, GuardAlways, PTL

(* The rights of a user grow only when the user is given another role.     *)
THEOREM NobodyIsGranted == Spec => OnlyAssignmentGrants
<1>1. TypeInvariant /\ GuardInvariant /\ [Next]_vars =>
        [\A u \in Users : rights'[u] \ rights[u] # {} => roleOf'[u] # roleOf[u]]_vars
  <2> SUFFICES ASSUME TypeInvariant, GuardInvariant, Next, NEW u \in Users, roleOf'[u] = roleOf[u]
               PROVE  rights'[u] \ rights[u] = {}
    OBVIOUS
  <2>1. TableStep
    BY StepIsGood DEF Next, Good
  <2>2. \A role \in Roles \cup {NoRole} :
           {permissions'[p].opens : p \in {q \in IF role # NoRole /\ roles'[role].state = "live"
                    THEN roles'[role].grants ELSE {} : permissions'[q].state = "live"}}
              \subseteq Opens(Grants(role))
    BY <2>1, GrantsShrink DEF Opens, Grants, GuardInvariant
  <2>3. roleOf[u] \in Roles \cup {NoRole}
    BY DEF TypeInvariant, TypeOK
  <2> QED
    BY <2>2, <2>3 DEF rights, Opens, Grants
<1> QED
  BY <1>1, GuardAlways, PTL DEF Spec, OnlyAssignmentGrants

-----------------------------------------------------------------------------
(* The code keeps the promise of Authorization                             *)

(* Between two requests a slot asks for nothing.                           *)
IdleAsks == \A r \in Requests : pc[r] = "idle" => req[r] = NoRequest

Base == TypeInvariant /\ GuardInvariant /\ IdleAsks

LEMMA AlwaysBase == Spec => []Base
<1>1. Init => IdleAsks
  BY DEF Init, IdleAsks
<1>2. TypeInvariant /\ IdleAsks /\ [Next]_vars => IdleAsks'
  <2> SUFFICES ASSUME TypeInvariant, IdleAsks, [Next]_vars, NEW r \in Requests
               PROVE  pc'[r] = "idle" => req'[r] = NoRequest
    BY DEF IdleAsks
  <2>1. CASE UNCHANGED vars
    BY <2>1 DEF vars, IdleAsks
  <2>2. CASE Next
    <3>1. Moves(r)
      BY <2>2, StepIsGood DEF Next, Good
    <3> QED
      BY <3>1 DEF Moves, Keeps, IdleAsks, Handling
  <2> QED
    BY <2>1, <2>2
<1> QED
  BY <1>1, <1>2, GuardAlways, PTL DEF Spec, Base

(* What changes the rights.                                                *)
LEMMA RightsTyped ==
    ASSUME TableTypes
    PROVE  rights \in [Users -> SUBSET Opened]
BY DEF TableTypes, rights, Opens, Grants, RoleRow, PermissionRow

LEMMA SameRights ==
    ASSUME UNCHANGED tables
    PROVE  rights' = rights
BY DEF tables, rights, Opens, Grants

(* A new role has no permissions and no users who gained any.              *)
LEMMA NewRoleSameRights ==
    ASSUME Base, NEW r \in Requests, InsertRole(r)
    PROVE  rights' = rights
<1> USE DEF Base, TypeInvariant, TypeOK
<1>1. UNCHANGED <<roleOf, permissions>>
  BY DEF InsertRole
<1>2. ASSUME NEW role \in Roles \cup {NoRole} PROVE Grants(role)' = Grants(role)
  <2>1. PICK new \in Roles : /\ roles[new].state = "free"
                             /\ roles' = [roles EXCEPT ![new] = [state |-> "live", grants |-> {}]]
    BY DEF InsertRole
  <2> QED
    BY <2>1 DEF Grants
<1>3. \A role \in Roles \cup {NoRole} :
         (IF role # NoRole /\ roles'[role].state = "live" THEN roles'[role].grants ELSE {})
            = Grants(role)
  BY <1>2 DEF Grants
<1> QED
  BY <1>1, <1>3 DEF rights, Opens, Grants

(* No role holds the id of a row that is created.                          *)
LEMMA NewPermissionSameRights ==
    ASSUME Base, NEW row, Store(row), UNCHANGED <<roleOf, roles>>
    PROVE  rights' = rights
<1> USE DEF Base, TypeInvariant, TypeOK
<1>1. PICK new \in Permissions :
         permissions[new].state = "free" /\ permissions' = [permissions EXCEPT ![new] = row]
  BY DEF Store
<1>2. ASSUME NEW ids \in SUBSET Permissions, Born(ids)
      PROVE  {permissions'[p].opens : p \in {q \in ids : permissions'[q].state = "live"}} = Opens(ids)
  <2>1. \A p \in ids : permissions'[p] = permissions[p]
    BY <1>1, <1>2 DEF Born
  <2> QED
    BY <2>1 DEF Opens
<1>3. ASSUME NEW u \in Users PROVE rights'[u] = rights[u]
  <2> DEFINE ids == Grants(roleOf[u])
  <2>1. Grants(roleOf[u])' = ids
    BY DEF Grants
  <2>2. ids \in SUBSET Permissions /\ Born(ids)
    BY DEF Grants, RoleRow, GuardInvariant, TablesInvariant, Born
  <2>3. {permissions'[p].opens : p \in {q \in ids : permissions'[q].state = "live"}} = Opens(ids)
    <3> HIDE DEF ids
    <3> QED BY <1>2, <2>2
  <2> QED
    BY <2>1, <2>3 DEF rights, Opens
<1> QED
  BY <1>3 DEF rights

LEMMA DeletesShrinkRights ==
    ASSUME Base, TableStep, NEW r \in Requests, DeleteRole(r) \/ DeletePermission(r), NEW u \in Users
    PROVE  rights'[u] \subseteq rights[u]
<1>1. \A role \in Roles \cup {NoRole} :
         {permissions'[p].opens : p \in {q \in IF role # NoRole /\ roles'[role].state = "live"
                  THEN roles'[role].grants ELSE {} : permissions'[q].state = "live"}}
            \subseteq Opens(Grants(role))
  BY GrantsShrink DEF Base, GuardInvariant, Opens, Grants
<1>2. roleOf[u] \in Roles \cup {NoRole}
  BY DEF Base, TypeInvariant, TypeOK
<1>3. roleOf'[u] = roleOf[u] \/ roleOf'[u] = NoRole
  BY DEF DeleteRole, DeletePermission
<1> QED
  BY <1>1, <1>2, <1>3 DEF rights, Opens, Grants

LEMMA AbstractInit == Init => Abstract!Init
<1> SUFFICES ASSUME Init PROVE Abstract!Init
  OBVIOUS
<1>1. rights \in [Users -> SUBSET Opened]
  BY InitTypes, TypeParts, RightsTyped
<1>2. \A r \in Requests : pc[r] = "idle" /\ answer[r] = "other" /\ req[r] = NoRequest
  BY DEF Init
<1>3. [r \in Requests |-> IF pc[r] \in Guarding THEN sight[r] ELSE Unseen]
        = [r \in Requests |-> Abstract!Unseen]
  BY <1>2 DEF Guarding, Unseen, Abstract!Unseen
<1>4. {r \in Requests : pc[r] \in Handling} = {} /\ {r \in Requests : answer[r] = "forbidden"} = {}
  BY <1>2 DEF Handling
<1>5. req = [r \in Requests |-> NoRequest]
  BY DEF Init
<1>6. {[user |-> c.user, right |-> Opens(Grants(c.role))] : c \in copies} = {}
  BY DEF Init
<1> QED
  BY <1>1, <1>3, <1>4, <1>5, <1>6 DEF Abstract!Init

(* `sight' is kept as Authorization keeps its view.                        *)
LEMMA SameView ==
    ASSUME Base, Base', Observe, \A s \in Requests : Moves(s)
    PROVE  Abstract!Remember
<1> DEFINE view == [r \in Requests |-> IF pc[r] \in Guarding THEN sight[r] ELSE Unseen]
           Looking(r) == req'[r] # NoRequest /\ r \notin {s \in Requests : pc'[s] \in Handling}
           seenBy(r) == [had |-> view[r].had \/ req'[r].op \in rights'[req'[r].user],
                         lacked |-> view[r].lacked \/ req'[r].op \notin rights'[req'[r].user]]
<1>1. ASSUME NEW r \in Requests
      PROVE  (IF pc'[r] \in Guarding THEN sight'[r] ELSE Unseen)
                = (IF Looking(r) THEN seenBy(r) ELSE Unseen)
  <2> USE DEF Guarding, Handling
  <2>0. Moves(r)
    OBVIOUS
  <2>1. CASE pc'[r] \in Guarding
    <3>1. Looking(r)
      BY <2>1, InputFacts DEF Base, TypeInvariant, Suspended
    <3>2. pc[r] \in Guarding \/ (pc[r] = "idle" /\ pc'[r] = "user")
      BY <2>0, <2>1 DEF Moves
    <3>3. (IF pc[r] = "idle" THEN req'[r] ELSE req[r]) = req'[r]
      BY <2>0, <2>1, <3>2 DEF Moves, Keeps
    <3>4. (IF pc[r] \in Guarding THEN sight[r] ELSE Unseen) = view[r]
      OBVIOUS
    <3>5. sight'[r] = seenBy(r)
      <4>1. sight'[r] = LET i == IF pc[r] = "idle" THEN req'[r] ELSE req[r]
                            before == IF pc[r] \in Guarding THEN sight[r] ELSE Unseen
                        IN  [had |-> before.had \/ i.op \in rights'[i.user],
                             lacked |-> before.lacked \/ i.op \notin rights'[i.user]]
        BY <2>1, <3>2 DEF Observe
      <4> HIDE DEF Guarding, view
      <4> QED
        BY <3>3, <3>4, <4>1
    <3> QED
      BY <2>1, <3>1, <3>5
  <2>2. CASE pc'[r] \notin Guarding
    <3>1. ~Looking(r)
      BY <2>2 DEF Base, TypeInvariant, TypeOK, IdleAsks
    <3> QED
      BY <2>2, <3>1
  <2> QED
    BY <2>1, <2>2
<1>2. [r \in Requests |-> IF pc'[r] \in Guarding THEN sight'[r] ELSE Unseen]
        = [r \in Requests |-> IF Looking(r) THEN seenBy(r) ELSE Unseen]
  <2> HIDE DEF Looking, seenBy
  <2> QED BY <1>1
<1>3. Unseen = Abstract!Unseen
  BY DEF Unseen, Abstract!Unseen
<1> QED
  BY <1>2, <1>3 DEF Abstract!Remember, Abstract!Looking

(* Requests that end without an answer of the guard, and those that go on  *)
(* from one await of their handler to the next.                            *)
LEMMA EndIsLeave ==
    ASSUME Base, NEW r \in Requests, pc[r] # "idle",
           Finish(r, "other")
    PROVE  Abstract!Leave({r})
<1> USE DEF Base, TypeInvariant, TypeOK
<1>1. req' = [s \in Requests |-> IF s \in {r} THEN NoRequest ELSE req[s]]
  BY DEF Finish
<1>2. {s \in Requests : pc'[s] \in Handling} = {s \in Requests : pc[s] \in Handling} \ {r}
  BY DEF Finish, Handling
<1>3. {s \in Requests : answer'[s] = "forbidden"} = {s \in Requests : answer[s] = "forbidden"}
  BY DEF Finish, GuardInvariant
<1> QED
  BY <1>1, <1>2, <1>3 DEF Abstract!Leave

LEMMA QuietStep ==
    ASSUME Base, UNCHANGED <<req, answer>>, rights' = rights,
           \A s \in Requests : pc'[s] \in Handling <=> pc[s] \in Handling
    PROVE  Abstract!Step
<1>1. req' = [s \in Requests |-> IF s \in {} THEN NoRequest ELSE req[s]]
  BY DEF Base, TypeInvariant, TypeOK
<1>2. {s \in Requests : pc'[s] \in Handling} = {s \in Requests : pc[s] \in Handling} \ {}
  OBVIOUS
<1>3. {s \in Requests : answer'[s] = "forbidden"} = {s \in Requests : answer[s] = "forbidden"}
  OBVIOUS
<1>4. Abstract!Leave({})
  BY <1>1, <1>2, <1>3 DEF Abstract!Leave
<1> QED
  BY <1>4 DEF Abstract!Step

LEMMA EndStep ==
    ASSUME Base, NEW r \in Requests, pc[r] # "idle", rights' = rights,
           Finish(r, "other")
    PROVE  Abstract!Step
<1>1. Abstract!Leave({r}) /\ {r} \in SUBSET Requests
  BY EndIsLeave
<1> QED
  BY <1>1 DEF Abstract!Step

LEMMA HandlerStep ==
    ASSUME Base, NEW r \in Requests, pc[r] \in Handling, rights' = rights,
           NEW where \in Handling, Await(r, where)
    PROVE  Abstract!Step
<1>1. \A s \in Requests : pc'[s] \in Handling <=> pc[s] \in Handling
  BY DEF Await, Base, TypeInvariant, TypeOK
<1> QED
  BY <1>1, QuietStep DEF Await

(* The guard: a request is begun, looked at, and let past or not.          *)
LEMMA BeginIsAsk ==
    ASSUME Base, NEW r \in Requests, Begin(r)
    PROVE  Abstract!Step
<1> USE DEF Base, TypeInvariant, TypeOK
<1>1. req[r] = NoRequest /\ req'[r] \in Asked /\ req' = [req EXCEPT ![r] = req'[r]]
  BY DEF Begin, IdleAsks
<1>2. {s \in Requests : pc'[s] \in Handling} = {s \in Requests : pc[s] \in Handling}
  BY DEF Begin, Handling
<1>3. {s \in Requests : answer'[s] = "forbidden"}
        = {s \in Requests : answer[s] = "forbidden"} \ {r}
  BY DEF Begin
<1>4. rights' = rights
  BY SameRights DEF Begin
<1>5. Abstract!Ask(r)
  BY <1>1, <1>2, <1>3, <1>4 DEF Abstract!Ask
<1> QED
  BY <1>5 DEF Abstract!Step

LEMMA ReadsAreQuiet ==
    ASSUME Base, NEW r \in Requests, ReadUser(r) \/ ReadRole(r)
    PROVE  Abstract!Step
<1>1. rights' = rights
  BY SameRights DEF ReadUser, ReadRole
<1>2. \A s \in Requests : pc'[s] \in Handling <=> pc[s] \in Handling
  BY DEF ReadUser, ReadRole, Base, TypeInvariant, TypeOK, Handling
<1> QED
  BY <1>1, <1>2, QuietStep DEF ReadUser, ReadRole

LEMMA DecideIsPassOrForbid ==
    ASSUME Base, NEW r \in Requests, Decide(r)
    PROVE  Abstract!Step
<1> USE DEF Base, TypeInvariant, TypeOK
<1>1. pc[r] = "permissions" /\ rights' = rights
  BY SameRights DEF Decide
<1>2. req[r] # NoRequest /\ r \notin {s \in Requests : pc[s] \in Handling}
  BY <1>1, InputFacts DEF Suspended, Handling
<1>3. [s \in Requests |-> IF pc[s] \in Guarding THEN sight[s] ELSE Unseen][r] = sight[r]
  BY <1>1 DEF Guarding
<1>4. ListRead(r)
  BY <1>1 DEF GuardInvariant
<1>5. CASE req[r].op \in Opens(list[r]) /\ Pass(r)
  <2>1. {s \in Requests : pc'[s] \in Handling} = {s \in Requests : pc[s] \in Handling} \cup {r}
    BY <1>5 DEF Pass, Handling
  <2>2. sight[r].had
    BY <1>4, <1>5 DEF ListRead
  <2>3. Abstract!Pass(r)
    BY <1>1, <1>2, <1>3, <1>5, <2>1, <2>2 DEF Abstract!Pass, Abstract!Looking, Pass
  <2> QED
    BY <2>3 DEF Abstract!Step
<1>6. CASE req[r].op \notin Opens(list[r]) /\ Finish(r, "forbidden")
  <2>1. {s \in Requests : pc'[s] \in Handling} = {s \in Requests : pc[s] \in Handling}
    BY <1>1, <1>6 DEF Finish, Handling
  <2>2. {s \in Requests : answer'[s] = "forbidden"}
          = {s \in Requests : answer[s] = "forbidden"} \cup {r}
    BY <1>6 DEF Finish
  <2>3. sight[r].lacked
    BY <1>4, <1>6 DEF ListRead
  <2>4. Abstract!Forbid(r)
    BY <1>1, <1>2, <1>3, <1>6, <2>1, <2>2, <2>3 DEF Abstract!Forbid, Abstract!Looking, Finish
  <2> QED
    BY <2>4 DEF Abstract!Step
<1> QED
  BY <1>5, <1>6 DEF Decide

(* The three writes by which rights change.                                *)
LEMMA AssignIsAssign ==
    ASSUME Base, Base', NEW r \in Requests, AssignRole(r)
    PROVE  Abstract!Step
<1>1. pc[r] = "writeUser" /\ req[r] \in Input /\ req[r].op = "assignRole"
  BY DEF AssignRole, Base, TypeInvariant, Suspended
<1>2. r \in {s \in Requests : pc[s] \in Handling}
  BY <1>1 DEF Handling
<1>3. rights' \in [Users -> SUBSET Opened]
  <2>1. TableTypes'
    BY DEF Base, TypeInvariant, TypeOK, TableTypes
  <2> QED
    BY <2>1 DEF TableTypes, rights, Opens, Grants, RoleRow, PermissionRow
<1>4. \A u \in Users \ {req[r].target} : rights'[u] = rights[u]
  BY DEF AssignRole, rights, Opens, Grants, Base, TypeInvariant, TypeOK
<1>5. Abstract!Leave({r})
  BY <1>1, EndIsLeave DEF AssignRole
<1>6. Abstract!Assign(r)
  BY <1>1, <1>2, <1>3, <1>4, <1>5 DEF Abstract!Assign
<1> QED
  BY <1>6 DEF Abstract!Step

LEMMA DeleteIsWithdraw ==
    ASSUME Base, Base', TableStep, NEW r \in Requests, DeleteRole(r) \/ DeletePermission(r)
    PROVE  Abstract!Step
<1>1. /\ r \in {s \in Requests : pc[s] \in Handling}
      /\ req[r].op \in {"removeRole", "removePermission"}
  BY DEF DeleteRole, DeletePermission, Base, TypeInvariant, Suspended, Handling
<1>2. rights' \in [Users -> SUBSET Opened]
  <2>1. TableTypes'
    BY DEF Base, TypeInvariant, TypeOK, TableTypes
  <2> QED
    BY <2>1 DEF TableTypes, rights, Opens, Grants, RoleRow, PermissionRow
<1>3. \A u \in Users : rights'[u] \subseteq rights[u]
  BY DeletesShrinkRights
<1>4. pc[r] # "idle" /\ Finish(r, "other")
  BY DEF DeleteRole, DeletePermission
<1>5. Abstract!Leave({r})
  BY <1>4, EndIsLeave
<1>6. Abstract!Withdraw(r)
  BY <1>1, <1>2, <1>3, <1>5 DEF Abstract!Withdraw
<1> QED
  BY <1>6 DEF Abstract!Step

(* No other step changes a right.                                          *)
LEMMA OthersKeepRights ==
    ASSUME Base, NEW r \in Requests,
           \/ CreateRole(r) \/ InsertRole(r) \/ UpdateRole(r) \/ SameName(r) \/ FindRole(r)
           \/ CreatePermission(r) \/ InsertPermission(r) \/ UpdatePermission(r)
           \/ FindPermission(r) \/ SyncPermission(r) \/ FindUser(r) \/ CallFails(r)
    PROVE  Abstract!Step
<1>1. rights' = rights
  <2>1. CASE InsertRole(r)
    BY <2>1, NewRoleSameRights
  <2>2. CASE InsertPermission(r)
    <3>1. CASE Store(req[r].row)
      BY <2>2, <3>1, NewPermissionSameRights DEF InsertPermission
    <3>2. CASE UNCHANGED permissions
      BY <2>2, <3>2, SameRights DEF InsertPermission, tables
    <3> QED
      BY <2>2, <3>1, <3>2 DEF InsertPermission
  <2>3. CASE UNCHANGED tables
    BY <2>3, SameRights
  <2> QED
    BY <2>1, <2>2, <2>3
       DEF CreateRole, UpdateRole, SameName, FindRole, CreatePermission, UpdatePermission,
           FindPermission, SyncPermission, FindUser, CallFails, tables
<1>2. pc[r] # "idle"
  BY DEF CreateRole, InsertRole, UpdateRole, SameName, FindRole, CreatePermission,
         InsertPermission, UpdatePermission, FindPermission, SyncPermission, FindUser, CallFails
<1>3. \/ Finish(r, "other")
      \/ pc[r] \in Handling /\ \E where \in Handling : Await(r, where)
  BY DEF CreateRole, InsertRole, UpdateRole, SameName, FindRole, CreatePermission,
         InsertPermission, UpdatePermission, FindPermission, SyncPermission, FindUser, CallFails,
         Handling
<1> QED
  BY <1>1, <1>2, <1>3, EndStep, HandlerStep

LEMMA FloatingIsLeave ==
    ASSUME Base, FloatingSettles \/ FloatingRejects \/ \E op \in Configured : SyncInsert(op)
    PROVE  Abstract!Step
<1>1. CASE FloatingSettles
  BY <1>1, SameRights, QuietStep DEF FloatingSettles
<1>2. CASE FloatingRejects
  <2>1. req' = [s \in Requests |-> IF s \in Requests THEN NoRequest ELSE req[s]]
    BY <1>2 DEF FloatingRejects
  <2>2. {s \in Requests : pc'[s] \in Handling} = {s \in Requests : pc[s] \in Handling} \ Requests
    BY <1>2 DEF FloatingRejects, Handling
  <2>3. {s \in Requests : answer'[s] = "forbidden"} = {s \in Requests : answer[s] = "forbidden"}
    BY <1>2 DEF FloatingRejects, Base, GuardInvariant
  <2>4. Abstract!Leave(Requests)
    BY <2>1, <2>2, <2>3 DEF Abstract!Leave
  <2>5. rights' = rights
    BY <1>2, SameRights DEF FloatingRejects
  <2> QED
    BY <2>4, <2>5 DEF Abstract!Step
<1>3. ASSUME NEW op \in Configured, SyncInsert(op) PROVE Abstract!Step
  <2>1. rights' = rights
    <3>1. CASE Store(PermissionFor(op))
      BY <1>3, <3>1, NewPermissionSameRights DEF SyncInsert
    <3>2. CASE UNCHANGED permissions
      BY <1>3, <3>2, SameRights DEF SyncInsert, tables
    <3> QED
      BY <1>3, <3>1, <3>2 DEF SyncInsert
  <2> QED
    BY <1>3, <2>1, QuietStep DEF SyncInsert
<1> QED
  BY <1>1, <1>2, <1>3

(* What is held of rights was read now, or before and has not grown.       *)
LEMMA CopiesAreKept ==
    ASSUME Base, Step
    PROVE  Abstract!Keep
<1> DEFINE opens(role) ==
        {permissions'[p].opens : p \in {q \in IF role # NoRole /\ roles'[role].state = "live"
                 THEN roles'[role].grants ELSE {} : permissions'[q].state = "live"}}
           kept == {[user |-> c.user, right |-> Opens(Grants(c.role))] : c \in copies}
           keptNow == {[user |-> c.user, right |-> opens(c.role)] : c \in copies'}
<1>1. \A role \in Roles \cup {NoRole} : opens(role) \subseteq Opens(Grants(role))
  BY StepIsGood, GrantsShrink DEF Good, Base, GuardInvariant, Opens, Grants
<1>2. ASSUME NEW c \in copies'
      PROVE  \/ opens(c.role) = rights[c.user]
             \/ \E old \in kept : old.user = c.user /\ opens(c.role) \subseteq old.right
  <2>1. CASE c \in copies
    <3>1. c.role \in Roles \cup {NoRole}
      BY <2>1 DEF Base, TypeInvariant, TypeOK, Copy
    <3>2. [user |-> c.user, right |-> Opens(Grants(c.role))] \in kept
      BY <2>1
    <3>3. opens(c.role) \subseteq Opens(Grants(c.role))
      BY <1>1, <3>1
    <3> HIDE DEF kept, opens
    <3> QED
      BY <3>2, <3>3
  <2>2. CASE c \in Copy /\ c.role = roleOf[c.user] /\ UNCHANGED <<roles, permissions>>
    <3>1. c.user \in Users
      BY <2>2 DEF Copy
    <3> QED
      BY <2>2, <3>1 DEF rights, Opens, Grants
  <2> QED
    BY <2>1, <2>2, CopiesAreRead DEF Base
<1>3. ASSUME NEW k \in keptNow
      PROVE  \/ k.right = rights[k.user]
             \/ \E old \in kept : old.user = k.user /\ k.right \subseteq old.right
  <2>1. PICK c \in copies' : k = [user |-> c.user, right |-> opens(c.role)]
    OBVIOUS
  <2> HIDE DEF opens, kept
  <2> QED
    BY <1>2, <2>1
<1>4. keptNow = {[user |-> c.user, right |-> Opens(Grants(c.role))] : c \in copies}'
  BY DEF Opens, Grants
<1> QED
  BY <1>3, <1>4 DEF Abstract!Keep

(* A row written back restores the rights of the role that was read.       *)
LEMMA CopyIsRestore ==
    ASSUME Base,
           \/ \E u \in Users : ReadRow(u)
           \/ \E c \in copies : WriteRow(c) \/ DropRow(c)
    PROVE  Abstract!Step
<1> USE DEF Base, TypeInvariant, TypeOK
<1>1. UNCHANGED <<roles, permissions, req, pc, answer>>
  BY DEF ReadRow, WriteRow, DropRow, Elsewhere
<1>2. CASE UNCHANGED roleOf
  BY <1>1, <1>2, SameRights, QuietStep DEF tables
<1>3. ASSUME NEW c \in copies, WriteRow(c) PROVE Abstract!Step
  <2> DEFINE k == [user |-> c.user, right |-> Opens(Grants(c.role))]
  <2>1. k \in {[user |-> d.user, right |-> Opens(Grants(d.role))] : d \in copies}
    OBVIOUS
  <2>2. c.user \in Users
    BY DEF Copy
  <2>3. roleOf' = [roleOf EXCEPT ![c.user] = c.role]
    BY <1>3 DEF WriteRow
  <2>4. ASSUME NEW u \in Users
        PROVE  rights'[u] = IF u = c.user THEN Opens(Grants(c.role)) ELSE rights[u]
    <3>1. roleOf'[u] = IF u = c.user THEN c.role ELSE roleOf[u]
      BY <2>3
    <3> QED
      BY <1>1, <3>1 DEF rights, Opens, Grants
  <2>5. rights' = [rights EXCEPT ![k.user] = k.right]
    BY <2>4 DEF rights
  <2>6. Abstract!Restore(k)
    <3> HIDE DEF k
    <3> QED BY <1>1, <2>1, <2>5 DEF Abstract!Restore
  <2> HIDE DEF k
  <2> QED
    BY <2>1, <2>6 DEF Abstract!Step
<1> QED
  BY <1>2, <1>3 DEF ReadRow, DropRow

LEMMA AbstractStep == Base /\ Base' /\ [Next]_vars => [Abstract!Next]_(Abstract!authorizationVars)
<1>1. ASSUME Base, Base', Next PROVE Abstract!Next
  <2>1. TableStep /\ \A s \in Requests : Moves(s)
    BY <1>1, StepIsGood DEF Next, Good, Base
  <2>2. Abstract!Remember
    BY <1>1, <2>1, SameView DEF Next
  <2>3. ASSUME NEW r \in Requests, Begin(r) \/ Continue(r) PROVE Abstract!Step
    BY <1>1, <2>1, <2>3, BeginIsAsk, ReadsAreQuiet, DecideIsPassOrForbid, AssignIsAssign,
       DeleteIsWithdraw, OthersKeepRights DEF Continue
  <2>4. Abstract!Step
    BY <1>1, <2>3, FloatingIsLeave, CopyIsRestore DEF Next, Step
  <2>5. Abstract!Keep
    BY <1>1, CopiesAreKept DEF Next
  <2> QED
    BY <2>2, <2>4, <2>5 DEF Abstract!Next
<1>2. ASSUME UNCHANGED vars PROVE UNCHANGED Abstract!authorizationVars
  BY <1>2 DEF vars, rights, Opens, Grants, Abstract!authorizationVars
<1> QED
  BY <1>1, <1>2

(* The guard and the routes keep what Authorization promises: nobody's     *)
(* rights change but by the hand of a request whose user had the right to  *)
(* change them at some moment while the guard looked, or else go back to   *)
(* what is left of those that a handler of the users table had read.       *)
THEOREM KeepsAuthorization == Spec => ImplementsAuthorization
  BY AbstractInit, AbstractStep, AlwaysBase, PTL
     DEF Spec, ImplementsAuthorization, Abstract!Spec
=============================================================================
