-------------------------- MODULE RolesPermissions --------------------------
(***************************************************************************)
(* Who may do what: roles, permissions, the guard in front of the routes   *)
(* that change them, and these routes.  The guard does not read the role   *)
(* of a user in one step: the strategy's query includes the role and its   *)
(* permissions, and each included table is a query of its own.  Calls that *)
(* nobody awaits (whereInIds, syncPermission, the lookup of a permission's *)
(* update) outlive their request; one that rejects with no handler ends    *)
(* the process, and every request under way with it.                       *)
(*                                                                         *)
(* A user's role is written by the route that assigns it, and by handlers  *)
(* of the users table that are about other columns (activateAccount,       *)
(* resetPassword, the two writes of the two-factor toggle; no permission   *)
(* is asked on their routes): they write back the whole row they read,     *)
(* roleId included.  Of such a handler `copies' has what it holds.  Users  *)
(* are those whose row exists; what creates one gives no right to another. *)
(*                                                                         *)
(* An operation stands for its route (path and method), which is what a    *)
(* permission row opens.  `sight' is not in the code: it records what was  *)
(* true of the user while the guard looked, for the properties.            *)
(***************************************************************************)
EXTENDS Naturals, FiniteSets

CONSTANTS
    Users, Requests,
    Roles, Permissions,     \* ids of rows; an id is used once
    SuperUser, Normal,      \* ids of the roles the seeding creates
    NoRole,
    Configured,             \* operations whose permissions are seeded and synchronised
    Seed,                   \* Seed[op]: the row the seeding creates for op
    Asked,                  \* what requests may ask for
    MaxFloating,            \* calls of one kind that nobody awaits, at one time
    MaxCopies               \* different copies of rows of users held at one time

Operations == {"createRole", "updateRole", "removeRole", "createPermission",
               "updatePermission", "removePermission", "sync", "assignRole"}

ASSUME RoleAssumption == /\ SuperUser \in Roles /\ Normal \in Roles
                         /\ SuperUser # Normal /\ NoRole \notin Roles
ASSUME ConfiguredAssumption == Configured \subseteq Operations
ASSUME SeedAssumption == /\ Seed \in [Configured -> Permissions]
                         /\ \A a, b \in Configured : Seed[a] = Seed[b] => a = b
ASSUME MaxFloatingAssumption == MaxFloating \in Nat

VARIABLES
    roleOf,         \* users: the column roleId
    roles,          \* roles: state of the row, ids of its permissions
    permissions,    \* permissions: state of the row, what it opens, its description
    req, pc,        \* the request in each slot and the await it is suspended in
    seen, list,     \* what the guard's query has read and still needs: the role id,
                    \* then the permission ids
    floating,       \* lookups in flight that nobody awaits
    copies,         \* what handlers that will write a user's row back read in it
    syncing,        \* syncing[op]: inserts in flight of syncPermission
    answer,         \* what each request was told
    sight           \* what held while the guard looked (for properties)

vars == <<roleOf, roles, permissions, req, pc, seen, list, floating, syncing, copies,
          answer, sight>>
tables == <<roleOf, roles, permissions>>

-----------------------------------------------------------------------------
RowStates == {"free", "live", "gone"}
RoleRow == [state : RowStates, grants : SUBSET Permissions]

(* A permission with the method `any' or `options' opens nothing here.     *)
Opened == Operations \cup {"nothing"}

(* The configuration describes every operation in a way of its own.        *)
Descriptions == Operations \cup {"custom"}
PermissionRow == [state : RowStates, opens : Opened, description : Descriptions]
Unused == [state |-> "free", opens |-> "nothing", description |-> "custom"]
PermissionFor(op) == [state |-> "live", opens |-> op, description |-> op]

(* CreatePermissionDto accepts the methods get, post, any, delete and      *)
(* options (twice), not put: no row for an update can be created.          *)
Creatable == {"createRole", "removeRole", "createPermission", "removePermission", "sync"}

NewRow == [state : {"live"}, opens : Creatable \cup {"nothing"}, description : Descriptions]

(* `asked': the array `permissions' of the body is missing, empty, or has  *)
(* elements.  It is validated as an array of numbers, so the ids taken     *)
(* from its elements are undefined and a lookup finds any row or none.     *)
Input ==
    [op : {"createRole"}, user : Users, asked : {"missing", "empty", "some"}]
    \cup [op : {"updateRole", "removeRole"}, user : Users, role : Roles]
    \cup [op : {"createPermission"}, user : Users, row : NewRow]
    \cup [op : {"removePermission"}, user : Users, permission : Permissions]
    \cup [op : {"updatePermission", "sync"}, user : Users]
    \cup [op : {"assignRole"}, user : Users, target : Users, role : Roles]
NoRequest == [op |-> "none"]

ASSUME AskedAssumption == Asked \subseteq Input

Copy == [user : Users, role : Roles \cup {NoRole}]

Guarding == {"user", "role", "permissions"}
Handling == {"handler", "insertRole", "sameName", "deleteRole", "insertPermission",
             "deletePermission", "writeUser"}
(* "other": done, 404 or 422, an error, or no answer (yet); no property    *)
(* tells these apart.                                                      *)
Answers == {"forbidden", "other"}

TypeOK ==
    /\ roleOf \in [Users -> Roles \cup {NoRole}]
    /\ roles \in [Roles -> RoleRow]
    /\ permissions \in [Permissions -> PermissionRow]
    /\ req \in [Requests -> Input \cup {NoRequest}]
    /\ pc \in [Requests -> {"idle"} \cup Guarding \cup Handling]
    /\ seen \in [Requests -> Roles \cup {NoRole}]
    /\ list \in [Requests -> SUBSET Permissions]
    /\ floating \in 0..MaxFloating
    /\ syncing \in [Configured -> 0..MaxFloating]
    /\ copies \subseteq Copy
    /\ answer \in [Requests -> Answers]
    /\ sight \in [Requests -> [had : BOOLEAN, lacked : BOOLEAN]]

(* After the seeding: a permission for each configured operation, all of   *)
(* them granted to the superuser; a normal role with none; no other row.   *)
Init ==
    /\ roleOf \in [Users -> {SuperUser, Normal}]
    /\ permissions = [p \in Permissions |->
          IF \E op \in Configured : Seed[op] = p
          THEN PermissionFor(CHOOSE op \in Configured : Seed[op] = p)
          ELSE Unused]
    /\ roles = [role \in Roles |->
          [state |-> IF role \in {SuperUser, Normal} THEN "live" ELSE "free",
           grants |-> IF role = SuperUser
                      THEN {p \in Permissions : permissions[p].state = "live"} ELSE {}]]
    /\ req = [r \in Requests |-> NoRequest]
    /\ pc = [r \in Requests |-> "idle"]
    /\ seen = [r \in Requests |-> NoRole]
    /\ list = [r \in Requests |-> {}]
    /\ floating = 0
    /\ syncing = [op \in Configured |-> 0]
    /\ copies = {}
    /\ answer = [r \in Requests |-> "other"]
    /\ sight = [r \in Requests |-> [had |-> FALSE, lacked |-> FALSE]]

-----------------------------------------------------------------------------
Grants(role) == IF role # NoRole /\ roles[role].state = "live" THEN roles[role].grants ELSE {}
Opens(ids) == {permissions[p].opens : p \in {q \in ids : permissions[q].state = "live"}}
DescriptionTaken(d) ==
    \E p \in Permissions : permissions[p].state = "live" /\ permissions[p].description = d

(* What each user may do, were the guard to look now.                      *)
rights == [u \in Users |-> Opens(Grants(roleOf[u]))]

Await(r, where) ==
    /\ pc' = [pc EXCEPT ![r] = where]
    /\ UNCHANGED <<req, seen, list, answer>>

Finish(r, how) ==
    /\ pc' = [pc EXCEPT ![r] = "idle"]
    /\ answer' = [answer EXCEPT ![r] = how]
    /\ seen' = [seen EXCEPT ![r] = NoRole]
    /\ list' = [list EXCEPT ![r] = {}]
    /\ req' = [req EXCEPT ![r] = NoRequest]

NothingFloats == UNCHANGED <<floating, syncing>>

Begin(r) ==
    /\ pc[r] = "idle"
    /\ \E i \in Asked : req' = [req EXCEPT ![r] = i]
    /\ pc' = [pc EXCEPT ![r] = "user"]
    /\ answer' = [answer EXCEPT ![r] = "other"]
    /\ UNCHANGED <<tables, seen, list>> /\ NothingFloats

-----------------------------------------------------------------------------
(* The guards.  JwtTwoFactorStrategy.validate (getWithPassword) asks for   *)
(* the user with role and permissions: three queries.  findOne turns an    *)
(* error of any of them into null, on which validate throws.               *)
ReadUserRow(r) ==       \* mutation: keeps the row of the role instead of its id
    /\ pc[r] = "user"
    /\ seen' = [seen EXCEPT ![r] = IF roleOf[req[r].user] = NoRole THEN NoRole
                                   ELSE roles[roleOf[req[r].user]]]
    /\ pc' = [pc EXCEPT ![r] = "role"]
    /\ UNCHANGED <<tables, req, list, answer>> /\ NothingFloats
ReadUser(r) ==
    /\ pc[r] = "user"
    /\ seen' = [seen EXCEPT ![r] = roleOf[req[r].user]]
    /\ pc' = [pc EXCEPT ![r] = "role"]
    /\ UNCHANGED <<tables, req, list, answer>> /\ NothingFloats

ReadRole(r) ==
    /\ pc[r] = "role"
    /\ list' = [list EXCEPT ![r] = Grants(seen[r])]
    /\ seen' = [seen EXCEPT ![r] = NoRole]
    /\ pc' = [pc EXCEPT ![r] = "permissions"]
    /\ UNCHANGED <<tables, req, answer>> /\ NothingFloats

(* The answer of the last query and PermissionGuard.canActivate.  None of  *)
(* the routes here is one of the configuration's defaultRoutes, and none   *)
(* of their handlers looks at the user again.  (Mutation: `every' in the   *)
(* place of `some'.)                                                       *)
Pass(r) ==
    /\ pc' = [pc EXCEPT ![r] = "handler"]
    /\ list' = [list EXCEPT ![r] = {}]
    /\ UNCHANGED <<req, seen, answer>>
DecideEvery(r) ==
    /\ pc[r] = "permissions"
    /\ IF Opens(list[r]) \subseteq {req[r].op} THEN Pass(r) ELSE Finish(r, "forbidden")
    /\ UNCHANGED tables /\ NothingFloats
Decide(r) ==
    /\ pc[r] = "permissions"
    /\ IF req[r].op \in Opens(list[r]) THEN Pass(r) ELSE Finish(r, "forbidden")
    /\ UNCHANGED tables /\ NothingFloats

-----------------------------------------------------------------------------
(* Roles                                                                   *)

(* RolesService.create.  Without `permissions' its map throws; with some,  *)
(* whereInIds starts a lookup for each and returns its array, still empty. *)
CreateRole(r) ==
    /\ pc[r] = "handler" /\ req[r].op = "createRole"
    /\ \/ /\ req[r].asked = "missing"
          /\ Finish(r, "other")
          /\ UNCHANGED floating
       \/ /\ req[r].asked # "missing"
          /\ floating' = IF req[r].asked = "some" THEN floating + 1 ELSE floating
          /\ floating' \in 0..MaxFloating
          /\ Await(r, "insertRole")
    /\ UNCHANGED <<tables, syncing>>

(* The query was built before any lookup could answer: the row starts with *)
(* no permissions.  (A Prisma that refuses an empty list in the place of a *)
(* nested write makes this CallFails, and stores no row.)  (Mutation: the  *)
(* lookups are awaited, and found all.)                                    *)
InsertRoleGranted(r) ==
    /\ pc[r] = "insertRole"
    /\ \E role \in {n \in Roles : roles[n].state = "free"} :
          roles' = [roles EXCEPT ![role] = [state |-> "live",
              grants |-> IF req[r].asked = "some"
                         THEN {p \in Permissions : permissions[p].state = "live"} ELSE {}]]
    /\ Finish(r, "other")
    /\ UNCHANGED <<roleOf, permissions>> /\ NothingFloats
InsertRole(r) ==
    /\ pc[r] = "insertRole"
    /\ \E role \in {n \in Roles : roles[n].state = "free"} :
          roles' = [roles EXCEPT ![role] = [state |-> "live", grants |-> {}]]
    /\ Finish(r, "other")
    /\ UNCHANGED <<roleOf, permissions>> /\ NothingFloats

(* RolesService.update: the row, then a role of the same `title'.          *)
UpdateRole(r) ==
    /\ pc[r] = "handler" /\ req[r].op = "updateRole"
    /\ IF roles[req[r].role].state = "live" THEN Await(r, "sameName") ELSE Finish(r, "other")
    /\ UNCHANGED tables /\ NothingFloats

(* Roles have no column `title'.  A name is looked up in it and the query  *)
(* is rejected; without a name the query has no condition and finds some   *)
(* role.  If none is left the handler goes on and fails at its write, or   *)
(* before it (it has no `permissions' to map).                             *)
SameName(r) ==
    /\ pc[r] = "sameName"
    /\ floating' \in IF \E role \in Roles : roles[role].state = "live" THEN {floating}
                     ELSE {floating, floating + 1} \cap 0..MaxFloating
    /\ Finish(r, "other")
    /\ UNCHANGED <<tables, syncing>>

(* RolesService.remove: findOne, then delete.                              *)
FindRole(r) ==
    /\ pc[r] = "handler" /\ req[r].op = "removeRole"
    /\ IF roles[req[r].role].state = "live" THEN Await(r, "deleteRole") ELSE Finish(r, "other")
    /\ UNCHANGED tables /\ NothingFloats

(* The relation is optional: users of the role are left with none.         *)
DeleteRole(r) ==
    /\ pc[r] = "deleteRole"
    /\ LET role == req[r].role IN
          IF roles[role].state = "live"
          THEN /\ roles' = [roles EXCEPT ![role] = [state |-> "gone", grants |-> {}]]
               /\ roleOf' = [u \in Users |-> IF roleOf[u] = role THEN NoRole ELSE roleOf[u]]
               /\ Finish(r, "other")
          ELSE Finish(r, "other") /\ UNCHANGED <<roles, roleOf>>
    /\ UNCHANGED permissions /\ NothingFloats

-----------------------------------------------------------------------------
(* Permissions                                                             *)

CreatePermission(r) ==
    /\ pc[r] = "handler" /\ req[r].op = "createPermission"
    /\ Await(r, "insertPermission")
    /\ UNCHANGED tables /\ NothingFloats

Store(row) ==
    \E p \in {q \in Permissions : permissions[q].state = "free"} :
        permissions' = [permissions EXCEPT ![p] = row]

InsertPermission(r) ==
    /\ pc[r] = "insertPermission"
    /\ \/ /\ ~DescriptionTaken(req[r].row.description)
          /\ Store(req[r].row)
          /\ Finish(r, "other")
       \/ /\ DescriptionTaken(req[r].row.description)
          /\ Finish(r, "other") /\ UNCHANGED permissions
    /\ UNCHANGED <<roleOf, roles>> /\ NothingFloats

(* PermissionsService.update tests the promise of its lookup, which is     *)
(* never false, and answers 422; the lookup goes on.                       *)
UpdatePermission(r) ==
    /\ pc[r] = "handler" /\ req[r].op = "updatePermission"
    /\ floating' = floating + 1
    /\ floating' \in 0..MaxFloating
    /\ Finish(r, "other")
    /\ UNCHANGED <<tables, syncing>>

FindPermission(r) ==
    /\ pc[r] = "handler" /\ req[r].op = "removePermission"
    /\ IF permissions[req[r].permission].state = "live"
       THEN Await(r, "deletePermission") ELSE Finish(r, "other")
    /\ UNCHANGED tables /\ NothingFloats

(* Roles keep the id, which names no row any more.                         *)
DeletePermission(r) ==
    /\ pc[r] = "deletePermission"
    /\ LET p == req[r].permission IN
          IF permissions[p].state = "live"
          THEN /\ permissions' = [permissions EXCEPT ![p] = [Unused EXCEPT !.state = "gone"]]
               /\ Finish(r, "other")
          ELSE Finish(r, "other") /\ UNCHANGED permissions
    /\ UNCHANGED <<roleOf, roles>> /\ NothingFloats

(* syncPermission starts one insert for each configured permission and     *)
(* answers 204.                                                            *)
SyncPermission(r) ==
    /\ pc[r] = "handler" /\ req[r].op = "sync"
    /\ \A op \in Configured : syncing[op] < MaxFloating
    /\ syncing' = [op \in Configured |-> syncing[op] + 1]
    /\ Finish(r, "other")
    /\ UNCHANGED <<tables, floating>>

(* One of these inserts: a description in use, or any other error, is      *)
(* caught.  (Mutation: the row is granted to the superuser again.)         *)
SyncInsertConnected(op) ==
    /\ syncing[op] > 0
    /\ syncing' = [syncing EXCEPT ![op] = @ - 1]
    /\ \E p \in {q \in Permissions : permissions[q].state = "free"} :
          /\ ~DescriptionTaken(op)
          /\ permissions' = [permissions EXCEPT ![p] = PermissionFor(op)]
          /\ roles' = [roles EXCEPT ![SuperUser].grants = @ \cup {p}]
    /\ UNCHANGED <<roleOf, req, pc, seen, list, floating, answer>>
SyncInsert(op) ==
    /\ syncing[op] > 0
    /\ syncing' = [syncing EXCEPT ![op] = @ - 1]
    /\ \/ ~DescriptionTaken(op) /\ Store(PermissionFor(op))
       \/ UNCHANGED permissions
    /\ UNCHANGED <<roleOf, roles, req, pc, seen, list, floating, answer>>

-----------------------------------------------------------------------------
(* AuthService.update of a user's roleId: the user is found, then written. *)
(* Whether the role exists is nobody's question.                           *)
FindUser(r) ==
    /\ pc[r] = "handler" /\ req[r].op = "assignRole"
    /\ Await(r, "writeUser")
    /\ UNCHANGED tables /\ NothingFloats

AssignRoleOwn(r) ==     \* mutation: writes the user of the request, not of the path
    /\ pc[r] = "writeUser"
    /\ roleOf' = [roleOf EXCEPT ![req[r].user] = req[r].role]
    /\ Finish(r, "other")
    /\ UNCHANGED <<roles, permissions>> /\ NothingFloats
AssignRole(r) ==
    /\ pc[r] = "writeUser"
    /\ roleOf' = [roleOf EXCEPT ![req[r].target] = req[r].role]
    /\ Finish(r, "other")
    /\ UNCHANGED <<roles, permissions>> /\ NothingFloats

(* A handler of the users table, on a route without PermissionGuard, reads *)
(* a row, and writes it back, or never does.  (Two of them may hold the    *)
(* same; what else the row has is modelled in Accounts and TwoFactor.)     *)
Elsewhere == UNCHANGED <<roles, permissions, req, pc, seen, list, answer>> /\ NothingFloats

ReadRow(u) ==
    /\ copies' = copies \cup {[user |-> u, role |-> roleOf[u]]}
    /\ Cardinality(copies') <= MaxCopies
    /\ UNCHANGED roleOf /\ Elsewhere

(* The role may be gone by now; nothing asks.                              *)
WriteRow(c) ==
    /\ c \in copies
    /\ roleOf' = [roleOf EXCEPT ![c.user] = c.role]
    /\ copies' \in {copies, copies \ {c}}
    /\ Elsewhere

DropRow(c) ==
    /\ c \in copies
    /\ copies' = copies \ {c}
    /\ UNCHANGED roleOf /\ Elsewhere

(* A call that rejects ends its request and changes nothing.               *)
CallFails(r) ==
    /\ pc[r] # "idle"
    /\ Finish(r, "other")
    /\ UNCHANGED tables /\ NothingFloats

(* A lookup that nobody awaits settles.  If it rejects there is no handler *)
(* and the process ends; it is started again with nothing under way.       *)
FloatingSettles ==
    /\ floating > 0
    /\ floating' = floating - 1
    /\ UNCHANGED <<tables, req, pc, seen, list, syncing, answer>>

FloatingRejects ==
    /\ floating > 0
    /\ floating' = 0
    /\ syncing' = [op \in Configured |-> 0]
    /\ copies' = {}
    /\ pc' = [r \in Requests |-> "idle"]
    /\ seen' = [r \in Requests |-> NoRole]
    /\ list' = [r \in Requests |-> {}]
    /\ req' = [r \in Requests |-> NoRequest]
    /\ answer' = [r \in Requests |-> IF pc[r] = "idle" THEN answer[r] ELSE "other"]
    /\ UNCHANGED tables

-----------------------------------------------------------------------------
(* Records what was true of the user at the moments the guard looked, as   *)
(* long as a property asks for it.                                         *)
Unseen == [had |-> FALSE, lacked |-> FALSE]
Observe ==
    sight' = [r \in Requests |->
        LET i == IF pc[r] = "idle" THEN req'[r] ELSE req[r]
            before == IF pc[r] \in Guarding THEN sight[r] ELSE Unseen
        IN  IF pc'[r] = "idle" /\ answer'[r] # "forbidden" THEN Unseen
            ELSE IF pc'[r] = "user" \/ pc[r] \in Guarding
            THEN [had |-> before.had \/ i.op \in rights'[i.user],
                  lacked |-> before.lacked \/ i.op \notin rights'[i.user]]
            ELSE sight[r]]

Continue(r) ==
    \/ ReadUser(r) \/ ReadRole(r) \/ Decide(r)
    \/ CreateRole(r) \/ InsertRole(r) \/ UpdateRole(r) \/ SameName(r)
    \/ FindRole(r) \/ DeleteRole(r)
    \/ CreatePermission(r) \/ InsertPermission(r) \/ UpdatePermission(r)
    \/ FindPermission(r) \/ DeletePermission(r) \/ SyncPermission(r)
    \/ FindUser(r) \/ AssignRole(r)
    \/ CallFails(r)

Step ==
    \/ /\ \/ \E r \in Requests : Begin(r) \/ Continue(r)
          \/ \E op \in Configured : SyncInsert(op)
          \/ FloatingSettles
       /\ UNCHANGED copies
    \/ FloatingRejects
    \/ \E u \in Users : ReadRow(u)
    \/ \E c \in copies : WriteRow(c) \/ DropRow(c)

Next == Step /\ Observe
Spec == Init /\ [][Next]_vars

-----------------------------------------------------------------------------
(* Invariants                                                              *)

(* A request gets past the guard only if, at some moment while the guard   *)
(* looked, its user had a role that opens its route: three reads of tables *)
(* that change meanwhile never add up to a right nobody had.               *)
AllowedHeld == \A r \in Requests : pc[r] \in Handling => sight[r].had

(* A request is told "forbidden" only if, at some moment while the guard   *)
(* looked, its user could not do what it asks for.                         *)
DeniedLacked == \A r \in Requests : answer[r] = "forbidden" => sight[r].lacked

(* The guard's verdict, either way, is right for some moment at which it   *)
(* looked.                                                                 *)
VerdictsHeld == AllowedHeld /\ DeniedLacked

(* Every right comes from the seeding: no other role than the superuser's  *)
(* holds a permission, whatever roles and permissions were created.        *)
OnlySuperUserHolds == \A role \in Roles : roles[role].grants # {} => role = SuperUser

(* Action properties                                                       *)

(* The rights of a user grow only in a step that gives the user another    *)
(* role, be it an assignment or the write of a row read before.  In        *)
(* particular a permission that was removed, or synchronised again, never  *)
(* comes back to anybody.                                                  *)
OnlyAssignmentGrants ==
    [][\A u \in Users : rights'[u] \ rights[u] # {} => roleOf'[u] # roleOf[u]]_vars

(* The guard and the routes together keep the promise of Authorization:    *)
(* whoever changes a right was let past the guard, and had the right to    *)
(* do so at some moment while the guard looked; or else rights come back   *)
(* that a handler still under way had read, and no more than is left of    *)
(* them.                                                                   *)
Abstract == INSTANCE Authorization WITH
    Routes <- Opened,
    Asks <- Asked,
    NoAsk <- NoRequest,
    right <- rights,
    kept <- {[user |-> c.user, right |-> Opens(Grants(c.role))] : c \in copies},
    ask <- req,
    view <- [r \in Requests |-> IF pc[r] \in Guarding THEN sight[r] ELSE Unseen],
    passed <- {r \in Requests : pc[r] \in Handling},
    forbidden <- {r \in Requests : answer[r] = "forbidden"}
ImplementsAuthorization == Abstract!Spec
=============================================================================
