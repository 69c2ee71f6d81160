---------------------------- MODULE QueryString -----------------------------
(***************************************************************************)
(* The client's side of a listing: how QueryString turns the query a       *)
(* client writes into the one it sends, and what the client means by it.   *)
(*                                                                         *)
(* The filter a client writes is a list whose entries are conditions or    *)
(* groups of conditions.  Here it is the list of all the conditions, each  *)
(* with its group and the number of the entry it stands in.  A condition   *)
(* has one of three forms: `shorthand' {column: value} or {column:         *)
(* {operator: value}}; `verbose' {path, value, operator, ...}, in which    *)
(* something follows the value; and `raw', in an address put together      *)
(* without QueryString, where no type is sent.                             *)
(***************************************************************************)
EXTENDS QueryBuilder

Forms == {"shorthand", "verbose", "raw"}
Condition ==
    [path : STRING, operator : Operators \cup {"none"}, value : Value,
     insensitive : BOOLEAN, group : Groups, entry : Nat, form : Forms]

(* FilterParse computes the type again after every key, and by then a date *)
(* is a text.                                                              *)
getType(c) ==
    CASE c.form = "raw" -> "none"
      [] c.form = "verbose" /\ c.value.kind = "date" -> "string"
      [] OTHER -> c.value.kind

FilterParse(c) ==
    [path |-> c.path,
     operator |-> IF c.form = "shorthand" /\ c.operator = "none" THEN "equals" ELSE c.operator,
     value |-> c.value, type |-> getType(c), group |-> c.group, insensitive |-> c.insensitive]

(* A group `not' is taken for a column of this name, whose operator is     *)
(* the first index of the list.                                            *)
NotParsed(c) ==
    [path |-> "not", operator |-> "0", value |-> [kind |-> "object", n |-> 0],
     type |-> "object", group |-> "none", insensitive |-> c.insensitive]

FilterResolver(q) ==
    [i \in DOMAIN q |->
        IF q[i].group = "not" /\ q[i].form # "raw" THEN NotParsed(q[i]) ELSE FilterParse(q[i])]

(* The query builder rejects a condition, or the database does.            *)
Accepted(q) ==
    \A i \in DOMAIN q : Valid(FilterResolver(q)[i]) /\ Fits(FilterResolver(q)[i])

-----------------------------------------------------------------------------
(* What is meant *)

Meets(c, row) == Compares(c.operator, c.insensitive, row[c.path], c.value.n)

Means(q, row) ==
    /\ \A i \in InGroup(q, "none") \cup InGroup(q, "and") : Meets(q[i], row)
    /\ \A i \in InGroup(q, "or") : \E j \in InGroup(q, "or") :
            q[j].entry = q[i].entry /\ Meets(q[j], row)
    /\ \A i \in InGroup(q, "not") : ~ Meets(q[i], row)

(* Case is not ignored where no operator is sent.                          *)
KeepsMode(q) ==
    \A i \in DOMAIN q : q[i].insensitive => q[i].operator # "none" \/ q[i].form = "shorthand"

(* Nothing is replaced and no two lists of alternatives are thrown together. *)
Separate(q) ==
    /\ \A i, j \in InGroup(q, "none") : q[i].path = q[j].path => i = j
    /\ \A i, j \in InGroup(q, "or") : q[i].entry = q[j].entry
=============================================================================
