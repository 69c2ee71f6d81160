----------------------------- MODULE MCListing ------------------------------
(***************************************************************************)
(* Five rows, two of which come and go: with two rows to a page, a walk    *)
(* reaches the page after the second.  Three families of queries: filters  *)
(* of up to two conditions, in a single page; pages of one to three rows   *)
(* and of the default, in every order; and relations.                      *)
(***************************************************************************)
EXTENDS Listing

MCColumns == {"id", "label", "made", "size"}
MCKindOf == [id |-> "string", label |-> "string", made |-> "date", size |-> "number"]

(* Labels 1 and 2 differ in case only.                                     *)
MCRows == 1 .. 5
MCCell == [x \in MCRows |->
    [id |-> x, label |-> <<1, 2, 3, 1, 3>>[x], made |-> (x + 1) \div 2, size |-> x % 2]]

Asks(path, operator, kind, n, insensitive, group, entry, form) ==
    [path |-> path, operator |-> operator, value |-> [kind |-> kind, n |-> n],
     insensitive |-> insensitive, group |-> group, entry |-> entry, form |-> form]

Plain == [filter |-> <<>>, sort |-> None, limit |-> 0, select |-> {}, populate |-> <<>>]

(* Strings with and without case and operator, numbers and dates in every  *)
(* form, and what is rejected: an empty string, null, a column that is not *)
(* there, a group `not' that QueryString takes for a column.               *)
Single ==
    {Asks("label", operator, "string", 1, insensitive, "none", 1, form) :
        operator \in {"none", "equals", "not"}, insensitive \in BOOLEAN, form \in Forms}
    \cup {Asks("made", "gt", "date", 1, FALSE, "none", 1, form) : form \in Forms}
    \cup {Asks("size", "equals", kind, n, insensitive, "none", 1, form) :
            kind \in {"number", "object"}, n \in 0 .. 1, insensitive \in BOOLEAN, form \in {"raw", "verbose"}}
    \cup {Asks(path, "equals", "string", n, FALSE, "not", 1, form) :
            path \in {"label", "owner"}, n \in 0 .. 1, form \in {"raw", "verbose"}}

(* Two conditions, on one column or two, in every pair of groups.          *)
Atoms(group, entry, form) ==
    {Asks("label", "equals", "string", 1, TRUE, group, entry, form),
     Asks("label", "not", "string", 3, FALSE, group, entry, form),
     Asks("made", "gt", "date", 1, FALSE, group, entry, form)}
Pairs ==
    UNION {{<<a, b>> : a \in Atoms(g, 1, "shorthand"), b \in Atoms(h, e, "shorthand")} :
            g \in {"none", "or"}, h \in {"none", "and", "or"}, e \in 1 .. 2}
    \cup UNION {{<<a, b>> : a \in Atoms("not", 1, "raw"), b \in Atoms(h, 1, "raw")} :
            h \in {"none", "not"}}

FilterQueries == {[Plain EXCEPT !.filter = f] : f \in {<<c>> : c \in Single} \cup Pairs}

OneFilter == <<Asks("label", "equals", "string", 1, TRUE, "none", 1, "shorthand")>>
PageQueries ==
    {[Plain EXCEPT !.filter = f, !.sort = s, !.limit = l] :
        f \in {<<>>, OneFilter}, s \in {None, "id", "label"}, l \in 0 .. 3}

Entries(path) ==
    {[path |-> path, fields |-> fields, filtered |-> filtered, inner |-> inner] :
        fields \in {All, {"name"}}, filtered \in BOOLEAN,
        inner \in {<<>>, <<[path |-> "permissions", fields |-> All]>>,
                   <<[path |-> "permissions", fields |-> {"name"}]>>,
                   <<[path |-> "permissions", fields |-> All], [path |-> "users", fields |-> {"name"}]>>}}
PopulateQueries ==
    {[Plain EXCEPT !.select = s, !.populate = p] :
        s \in {{}, All, {"label"}}, p \in {<<e>> : e \in Entries("role")}}
    \cup {[Plain EXCEPT !.populate = <<e, f>>] : e \in Entries("role"),
            f \in {g \in Entries("owner") : g.inner = <<>>}}

MCQueries == FilterQueries \cup PageQueries \cup PopulateQueries
=============================================================================
