------------------------- MODULE MCRolesPermissions -------------------------
(***************************************************************************)
(* Instances of RolesPermissions.                                          *)
(*                                                                         *)
(* Bounds: Configured, the operations requests ask for and permissions     *)
(* open; each run takes those its properties are about.  A row's id is     *)
(* used once, so Permissions and Roles bound how many are ever created.    *)
(* MaxFloating bounds the calls of one kind that nobody awaits, MaxCopies  *)
(* the different rows of users that handlers of that table hold.           *)
(* Permissions are created that stand for a removed one, or that only      *)
(* occupy the description of one.                                          *)
(*                                                                         *)
(* A seeded row has the name of its operation for an id; the other ids,    *)
(* requests and users are alike.                                           *)
(***************************************************************************)
EXTENDS RolesPermissions, TLC

MCSeed == [op \in Configured |-> op]

GuardAsked ==
    {i \in Input : i.op \in Configured /\ (i.op = "updateRole" => i.role = Normal)}

(* The removed permissions are two seeded ones and the one created, which  *)
(* is like a removed one or only occupies its description.                 *)
RoutesAsked ==
    {i \in Input :
        /\ i.op \in Configured
        /\ i.op = "removePermission" => i.permission \notin Configured \ {"sync", "removePermission"}
        /\ i.op = "createPermission" =>
              /\ i.row.opens \in {"removePermission", "nothing"}
              /\ i.row.description = "removePermission"}

Symmetry == Permutations(Users) \cup Permutations(Requests)
                \cup Permutations(Permissions \ Configured)
=============================================================================
