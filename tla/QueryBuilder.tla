---------------------------- MODULE QueryBuilder ----------------------------
(***************************************************************************)
(* The server's side of a listing: what the query builder makes of a query *)
(* that arrived, and what the database is then asked for.                  *)
(*                                                                         *)
(* A value is the kind of thing it is and a number.  Strings that differ   *)
(* only in case are 2k - 1 and 2k, the empty string is 0.  On the wire a   *)
(* value is a text, that is, the value it is the text of: `type' tells the *)
(* server to turn it back.                                                 *)
(***************************************************************************)
EXTENDS Naturals, Sequences

CONSTANTS
    Columns,    \* of the table
    KindOf,     \* KindOf[column]
    Fields,     \* of the tables it is related to
    Relations   \* names of relations

Kinds == {"string", "number", "boolean", "date"}
ASSUME ColumnAssumption == "id" \in Columns /\ KindOf \in [Columns -> Kinds]

(* Three of the operators; the others differ in what meets them only.      *)
Operators == {"equals", "not", "gt"}
Groups == {"none", "and", "or", "not"}
Value == [kind : Kinds \cup {"object"}, n : Nat]

(* A row is the number of the value in each column.                        *)
Row == [Columns -> Nat]

-----------------------------------------------------------------------------
(* Conditions *)

(* What the decorators of FilterFields let through.                        *)
Valid(c) ==
    /\ c.value.kind # "object"
    /\ ~ (c.value.kind = "string" /\ c.value.n = 0)
    /\ c.operator \in Operators \cup {"none"}
    /\ c.type # "object"

(* The value is turned back, or else remains a text.                       *)
Typed(c) == c.type = c.value.kind \/ c.value.kind = "string"

(* What the database makes of a condition: a column it has, a value of the *)
(* column's kind (a date may be a text), and a mode for strings only.      *)
Fits(c) ==
    /\ c.path \in Columns
    /\ c.value.kind = KindOf[c.path]
    /\ Typed(c) \/ c.value.kind = "date"
    /\ c.insensitive /\ c.operator # "none" => c.value.kind = "string"

SameLetters(m, n) == (m + 1) \div 2 = (n + 1) \div 2

Compares(operator, insensitive, m, n) ==
    LET same == IF insensitive THEN SameLetters(m, n) ELSE m = n
    IN  \/ operator \in {"equals", "none"} /\ same
        \/ operator = "not" /\ ~ same
        \/ operator = "gt" /\ m > n

(* Without an operator, the mode is not sent.                              *)
Holds(c, row) == Compares(c.operator, c.insensitive /\ c.operator # "none", row[c.path], c.value.n)

InGroup(w, g) == {i \in DOMAIN w : w[i].group = g}

(* Conditions without a group are properties of one object, named by their *)
(* paths: a later one replaces an earlier one.                             *)
Kept(w) == {i \in InGroup(w, "none") :
                \A j \in InGroup(w, "none") : w[j].path = w[i].path => j <= i}

(* (Mutation: alternatives are put with the conditions that must all hold.) *)
SelectedEvery(w, row) ==
    /\ \A i \in Kept(w) \cup InGroup(w, "and") \cup InGroup(w, "or") : Holds(w[i], row)
    /\ \A i \in InGroup(w, "not") : ~ Holds(w[i], row)

(* An empty OR is left out.                                                *)
Selected(w, row) ==
    /\ \A i \in Kept(w) \cup InGroup(w, "and") : Holds(w[i], row)
    /\ InGroup(w, "or") # {} => \E i \in InGroup(w, "or") : Holds(w[i], row)
    /\ \A i \in InGroup(w, "not") : ~ Holds(w[i], row)

-----------------------------------------------------------------------------
(* Pages *)

PageOf(page) == IF page > 0 THEN page ELSE 1
LimitOf(limit) == IF limit > 0 THEN limit ELSE 10

(* (Mutation: the page is taken as it is sent.)                            *)
SkipAsSent(page, limit) == (page - 1) * LimitOf(limit)

Skip(page, limit) == (PageOf(page) - 1) * LimitOf(limit)

-----------------------------------------------------------------------------
(* Fields *)

All == {"all"}

(* An entry of `populate': a relation, the fields asked for, whether it    *)
(* has conditions of its own, and the relations of the relation.           *)
Inner == [path : Relations, fields : {All} \cup SUBSET Fields]
Entry == [path : Relations, fields : {All} \cup SUBSET Fields, filtered : BOOLEAN,
          inner : Seq(Inner)]

IsAll(e) == e.fields = All \/ \E k \in DOMAIN e.inner : e.inner[k].fields = All
AnyAll(es) == \E i \in DOMAIN es : IsAll(es[i])

(* populate writes into an object that is not there: it did put `true', or *)
(* took `select' away, for an `all' it met before.                         *)
Breaks(es) ==
    \E i \in DOMAIN es : \E k \in DOMAIN es[i].inner :
        /\ es[i].inner[k].fields # All
        /\ es[i].fields = All \/ \E j \in 1 .. k - 1 : es[i].inner[j].fields = All

InnerPaths(e) == {e.inner[k].path : k \in DOMAIN e.inner}
InnerFields(e, p) == UNION {e.inner[k].fields : k \in {j \in DOMAIN e.inner : e.inner[j].path = p}}

(* (Mutation: the conditions of a relation are left out.)                  *)
RelationUnfiltered(es, i) ==
    LET e == es[i]
    IN  [path |-> e.path, filtered |-> FALSE,
         fields |-> IF AnyAll(es) THEN All ELSE e.fields \cup {"id"},
         inner |-> {<<p, IF AnyAll(es) THEN All ELSE InnerFields(e, p) \cup {"id"}>> :
                        p \in InnerPaths(e)}]

(* What comes with each row.  An `all' inside replaces what was asked of   *)
(* the relation, another `all' included; an `all' anywhere leaves the      *)
(* others with their primary keys and without their conditions.            *)
Relation(es, i) ==
    LET e == es[i]
        last == e.inner[Len(e.inner)].path
    IN  CASE IsAll(e) ->
                [path |-> e.path, fields |-> All, filtered |-> FALSE,
                 inner |-> IF e.inner = <<>> THEN {} ELSE {<<last, All>>}]
          [] ~ IsAll(e) /\ AnyAll(es) ->
                [path |-> e.path, fields |-> {"id"}, filtered |-> FALSE,
                 inner |-> {<<p, {"id"}>> : p \in InnerPaths(e)}]
          [] ~ AnyAll(es) ->
                [path |-> e.path, fields |-> e.fields \cup {"id"}, filtered |-> e.filtered,
                 inner |-> {<<p, InnerFields(e, p) \cup {"id"}>> : p \in InnerPaths(e)}]

populate(es) == {Relation(es, i) : i \in DOMAIN es}

(* No select at all is everything, unless relations are asked for: then it *)
(* is the relations only.                                                  *)
select(columns, es) ==
    CASE columns = All -> Columns
      [] columns = {} -> IF es = <<>> THEN Columns ELSE {}
      [] OTHER -> columns \cup {"id"}
=============================================================================
