-------------------------- MODULE MCEmailTemplates --------------------------
(***************************************************************************)
(* A title with the slug of the one seeded template and one with a slug of *)
(* its own; a free row beside the seeded one; one account, since accounts  *)
(* meet nowhere but in their names; two requests, so that any two handlers *)
(* overlap, two creations of the account among them.                       *)
(***************************************************************************)
EXTENDS EmailTemplates

CONSTANTS t1, t2, system, other

MCTitles == {"Activate Account", "Other"}
MCSlugs == {system, other}
MCSlugify == [title \in Titles |-> IF title = "Other" THEN other ELSE system]
MCSeed == [t \in {t1} |-> "Activate Account"]
=============================================================================
