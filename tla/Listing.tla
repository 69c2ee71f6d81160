------------------------------ MODULE Listing -------------------------------
(***************************************************************************)
(* A walk through a listing, while rows are created and removed.  A client *)
(* writes a query and follows `next' from page to page; for each page the  *)
(* repository looks for the rows, counts the table in a later call, and    *)
(* builds the query a second time for what it says of the page.            *)
(*                                                                         *)
(* Not in the code: `matched', the rows that met the conditions in the     *)
(* last call before they were cut to a page; `seen' and `steady', the rows *)
(* the walk was shown and whether the table was left alone during it.      *)
(***************************************************************************)
EXTENDS QueryString, FiniteSets

CONSTANTS
    Rows,       \* ids
    Changing,   \* those that come and go
    Cell,       \* Cell[x]: the row x
    Queries,    \* what clients write
    None

ASSUME RowAssumption == IsFiniteSet(Rows) /\ Changing \subseteq Rows /\ Cell \in [Rows -> Row]

Query == [filter : Seq(Condition), sort : Columns \cup {None}, limit : Nat,
          select : {All} \cup SUBSET Columns, populate : Seq(Entry)]
Page == [rows : SUBSET Rows, columns : SUBSET Columns,
         relations : SUBSET [path : Relations, fields : {All} \cup SUBSET (Fields \cup {"id"}),
                             filtered : BOOLEAN,
                             inner : SUBSET (Relations \X ({All} \cup SUBSET (Fields \cup {"id"})))]]

(* A relation is asked for once.                                           *)
ASSUME QueryAssumption ==
    /\ Queries \subseteq Query /\ None \notin Query \cup Page
    /\ \A q \in Queries : \A i, j \in DOMAIN q.populate :
            q.populate[i].path = q.populate[j].path => i = j

VARIABLES
    table,      \* the rows there are
    query,      \* the query of the walk
    pc,         \* the await of the request, or "idle", or "reading" an answer
    page,       \* the page asked for
    found,      \* what findMany returned
    total,      \* what count returned
    meta,       \* of the answer
    matched, seen, steady

vars == <<table, query, pc, page, found, total, meta, matched, seen, steady>>
walk == <<query, page, seen>>

NoPage == 0
NoMeta == [current |-> 0, next |-> NoPage]
Meta == [current : Nat, next : Nat]

TypeOK ==
    /\ table \subseteq Rows
    /\ query = None \/ query \in Query
    /\ pc \in {"idle", "find", "count", "build", "reading"}
    /\ page \in Nat
    /\ found = None \/ found \in Page
    /\ total \in Nat
    /\ meta \in Meta
    /\ matched \subseteq Rows
    /\ seen \subseteq Rows
    /\ steady \in BOOLEAN

Init ==
    /\ table \in SUBSET Rows
    /\ query = None
    /\ pc = "idle"
    /\ page = 0
    /\ found = None
    /\ total = 0
    /\ meta = NoMeta
    /\ matched = {}
    /\ seen = {}
    /\ steady = TRUE

-----------------------------------------------------------------------------
(* The database *)

(* The places of the rows of S in the order asked for.  Rows that are equal *)
(* in the column come in any order, and so do all without a column.        *)
Orders(S, column) ==
    {place \in [S -> 1 .. Cardinality(S)] :
        \A x, y \in S : x # y =>
            /\ place[x] # place[y]
            /\ column # None /\ Cell[x][column] < Cell[y][column] => place[x] < place[y]}

Create(x) ==
    /\ x \notin table
    /\ table' = table \cup {x}
    /\ steady' = FALSE
    /\ UNCHANGED <<query, pc, page, found, total, meta, matched, seen>>

Delete(x) ==
    /\ x \in table
    /\ table' = table \ {x}
    /\ steady' = FALSE
    /\ UNCHANGED <<query, pc, page, found, total, meta, matched, seen>>

-----------------------------------------------------------------------------
(* The repository *)

(* QueryString, then Querybuilder.query.                                   *)
Wire == FilterResolver(query.filter)
Rejected == \E i \in DOMAIN Wire : ~ Valid(Wire[i])
Builds == ~ Rejected /\ ~ Breaks(query.populate)

(* findMany *)
Find ==
    /\ pc = "find"
    /\ Builds /\ Accepted(query.filter)
    /\ matched' = {x \in table : Selected(Wire, Cell[x])}
    /\ \E place \in Orders(matched', query.sort) :
        found' = [rows |-> {x \in matched' :
                                LET skip == Skip(page, query.limit)
                                IN  place[x] \in skip + 1 .. skip + LimitOf(query.limit)},
                  columns |-> select(query.select, query.populate),
                  relations |-> populate(query.populate)]
    /\ pc' = "count"
    /\ UNCHANGED <<table, walk, total, meta, steady>>

(* A query that cannot be built, one the database does not take, and a     *)
(* call that fails are all caught, and give no rows and a total of 0.      *)
(* (Mutation: only the call that counts is caught.)                        *)
FindFailsCounting ==
    /\ pc = "count"
    /\ found' = None
    /\ total' = 0
    /\ pc' = "build"
    /\ UNCHANGED <<table, walk, meta, matched, steady>>
FindFails ==
    /\ pc \in {"find", "count"}
    /\ found' = None
    /\ total' = 0
    /\ pc' = "build"
    /\ UNCHANGED <<table, walk, meta, matched, steady>>

(* (Mutation: the rows of the page are counted.)                           *)
CountFound ==
    /\ pc = "count"
    /\ total' = Cardinality(found.rows)
    /\ pc' = "build"
    /\ UNCHANGED <<table, walk, found, meta, matched, steady>>

(* The whole table is counted, whatever the conditions.                    *)
Count ==
    /\ pc = "count"
    /\ total' = Cardinality(table)
    /\ pc' = "build"
    /\ UNCHANGED <<table, walk, found, meta, matched, steady>>

(* (Mutation: pages are numbered from 0.)                                  *)
CurrentPageZero == Skip(page, query.limit) \div LimitOf(query.limit)

(* Rows skipped are taken for the number of the page.                      *)
CurrentPage == LET skip == Skip(page, query.limit) IN IF skip = 0 THEN 1 ELSE skip

(* (Mutation: the rows of a page are left out of the comparison.)          *)
HasNextPage == CurrentPage < total

HasNext == CurrentPage * LimitOf(query.limit) < total

Paginate ==
    /\ pc = "build"
    /\ Builds
    /\ meta' = [current |-> CurrentPage, next |-> IF HasNext THEN CurrentPage + 1 ELSE NoPage]
    /\ pc' = "reading"
    /\ UNCHANGED <<table, walk, found, total, matched, steady>>

Over ==
    /\ pc' = "idle"
    /\ query' = None /\ page' = 0
    /\ found' = None /\ total' = 0 /\ meta' = NoMeta
    /\ matched' = {} /\ seen' = {}
    /\ UNCHANGED <<table, steady>>

(* The second time, nothing is caught: the answer is an error.             *)
PaginateFails ==
    /\ pc = "build"
    /\ ~ Builds
    /\ Over

-----------------------------------------------------------------------------
(* The client *)

Ask ==
    /\ pc = "idle"
    /\ pc' = "find"
    /\ query' \in Queries
    /\ steady' = TRUE
    /\ UNCHANGED <<table, page, found, total, meta, matched, seen>>

Shown == seen \cup (IF found = None THEN {} ELSE found.rows)

Follow ==
    /\ pc = "reading"
    /\ meta.next # NoPage
    /\ pc' = "find"
    /\ page' = meta.next
    /\ seen' = Shown
    /\ found' = None /\ total' = 0 /\ meta' = NoMeta
    /\ matched' = {}
    /\ UNCHANGED <<table, query, steady>>

Stop ==
    /\ pc = "reading"
    /\ meta.next = NoPage
    /\ Over

Answering == Find \/ FindFails \/ Count \/ Paginate \/ PaginateFails
Reading == Follow \/ Stop

Next ==
    \/ \E x \in Changing : Create(x) \/ Delete(x)
    \/ Ask
    \/ Answering
    \/ Reading

Spec == Init /\ [][Next]_vars

(* Calls of the database are answered or fail, the event loop goes on, and *)
(* a client that has an answer reads it.  No one has to ask, and no one to *)
(* write.                                                                  *)
FairSpec == Spec /\ WF_vars(Answering) /\ WF_vars(Reading)

-----------------------------------------------------------------------------
(* Properties *)

Meant == {x \in table : Means(query.filter, Cell[x])}

(* A listing never leaves out a row its query asks for, if the query is    *)
(* taken at all, through everything that is lost on the way from the       *)
(* client's filter to the database's; and if no condition replaces another *)
(* and there is one list of alternatives at most, it has no other rows.    *)
MatchesMeant ==
    [][pc = "find" /\ pc' = "count" /\ KeepsMode(query.filter) =>
        /\ Meant \subseteq matched'
        /\ Separate(query.filter) => matched' \subseteq Meant]_vars

(* Following `next' leads to a page that starts within the rows there      *)
(* could be, whatever is created or removed, and to a later one, although  *)
(* its number is computed from the rows skipped, unless pages have one row *)
(* (then page 2 calls itself page 1).  So a walk in larger pages ends.     *)
WalkAdvances ==
    [][pc = "reading" /\ pc' = "find" =>
        /\ Skip(page', query.limit) < Cardinality(Rows)
        /\ LimitOf(query.limit) > 1 => page' > PageOf(page)]_vars

Unique(column) == column # None /\ \A x, y \in Rows : Cell[x][column] = Cell[y][column] => x = y

(* Over a table that is left alone and in an order without ties, a walk    *)
(* shows no row twice, and when it ends it has shown every row asked for,  *)
(* if two pages hold them all (from the third on, pages are passed over).  *)
(* A call that failed ends a walk early: then the answer has no results.   *)
EachOnce ==
    [][steady /\ query # None /\ Unique(query.sort) =>
        /\ pc = "find" /\ pc' = "count" /\ LimitOf(query.limit) > 1 => found'.rows \cap seen = {}
        /\ pc = "reading" /\ pc' = "idle" /\ found # None
           /\ KeepsMode(query.filter) /\ Cardinality(matched) <= 2 * LimitOf(query.limit)
           => Meant \subseteq Shown]_vars

Asked == {x \in table : Selected(Wire, Cell[x])}

(* The place of a row among those asked for, in an order without ties.     *)
Place(x) == Cardinality({y \in Asked : Cell[y][query.sort] <= Cell[x][query.sort]})

(* Where a walk over a table that is left alone stands, in an order        *)
(* without ties: it has shown the first rows, up to the page it is at or   *)
(* to the end of the second; the page after those starts at the square of  *)
(* the limit, so the rows from there to the square are never shown; and    *)
(* what it found is the page of all rows asked for.  EachOnce holds        *)
(* because of it.                                                          *)
WalkStands ==
    steady /\ query # None /\ Unique(query.sort) =>
        LET limit == LimitOf(query.limit)
            skip == Skip(page, query.limit)
        IN  /\ seen \subseteq Asked
            /\ \A x \in Asked : Place(x) <= skip /\ Place(x) <= 2 * limit => x \in seen
            /\ limit > 1 =>
                /\ skip \in {0, limit} \/ skip >= limit * limit
                /\ \A x \in seen : /\ Place(x) <= skip
                                   /\ Place(x) <= 2 * limit \/ Place(x) > limit * limit
            /\ found # None =>
                /\ matched = Asked
                /\ found.rows = {x \in Asked : Place(x) \in skip + 1 .. skip + limit}

(* What is asked of relations, as their owners mean it.                    *)
MeantRelation(e) ==
    [path |-> e.path, filtered |-> e.filtered,
     fields |-> IF e.fields = All THEN All ELSE e.fields \cup {"id"},
     inner |-> {<<e.inner[k].path,
                  IF e.inner[k].fields = All THEN All ELSE e.inner[k].fields \cup {"id"}>> :
                k \in DOMAIN e.inner}]

(* `all' nowhere, and no relation of a relation twice; or, as the          *)
(* frontend's README (line 97) asks, everywhere, but in one relation of    *)
(* each relation at most and without conditions.                           *)
AllOrNone(es) ==
    \/ \A i \in DOMAIN es :
        /\ ~ IsAll(es[i])
        /\ \A k, l \in DOMAIN es[i].inner : es[i].inner[k].path = es[i].inner[l].path => k = l
    \/ \A i \in DOMAIN es :
        /\ es[i].fields = All /\ ~ es[i].filtered /\ Len(es[i].inner) <= 1
        /\ \A k \in DOMAIN es[i].inner : es[i].inner[k].fields = All

(* The relations that come with a row are those asked for, with the fields *)
(* and under the conditions asked for, if `all' is used everywhere or      *)
(* nowhere.                                                                *)
RelationsKept ==
    found # None /\ AllOrNone(query.populate) =>
        found.relations = {MeantRelation(query.populate[i]) : i \in DOMAIN query.populate}

(* A walk ends, whatever is created or removed meanwhile, unless its pages *)
(* have one row.                                                           *)
WalkEnds == (pc = "find" /\ LimitOf(query.limit) > 1) ~> pc = "idle"
=============================================================================
