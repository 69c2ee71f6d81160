--------------------------- MODULE ListingProofs ----------------------------
(***************************************************************************)
(* What is proved of Listing: its types; that a listing has every row its  *)
(* query asks for, and no other if the query is put plainly; that a walk   *)
(* goes from a page to a later one; and which relations come with a row.   *)
(***************************************************************************)
EXTENDS Listing, FiniteSetTheorems, SequenceTheorems, TLAPS

-----------------------------------------------------------------------------
(* Conditions *)

(* What the server tests for a condition it takes is what was meant, if    *)
(* its mode is not lost.                                                   *)
LEMMA HoldsIsMeets ==
    ASSUME NEW c, c.insensitive \in BOOLEAN,
           c.insensitive => c.operator # "none" \/ c.form = "shorthand",
           NEW row
    PROVE  Holds(FilterParse(c), row) <=> Meets(c, row)
<1> DEFINE d == FilterParse(c)
<1>1. /\ d.path = c.path /\ d.value = c.value /\ d.insensitive = c.insensitive
      /\ d.operator = IF c.form = "shorthand" /\ c.operator = "none" THEN "equals" ELSE c.operator
  BY DEF FilterParse
<1>2. (d.insensitive /\ d.operator # "none") = c.insensitive
  BY <1>1
<1>3. \A m, n : Compares(d.operator, c.insensitive, m, n) <=> Compares(c.operator, c.insensitive, m, n)
  <2>1. CASE c.form = "shorthand" /\ c.operator = "none"
    BY <2>1, <1>1 DEF Compares
  <2>2. CASE ~ (c.form = "shorthand" /\ c.operator = "none")
    BY <2>2, <1>1
  <2> QED BY <2>1, <2>2
<1> QED BY <1>1, <1>2, <1>3 DEF Holds, Meets

(* Nothing that is taken was a group `not' of QueryString's.               *)
LEMMA AcceptedParsed ==
    ASSUME NEW q \in Seq(Condition), Accepted(q)
    PROVE  /\ DOMAIN FilterResolver(q) = DOMAIN q
           /\ \A i \in DOMAIN q : FilterResolver(q)[i] = FilterParse(q[i])
<1>1. DOMAIN FilterResolver(q) = DOMAIN q
  BY DEF FilterResolver
<1>2. ASSUME NEW i \in DOMAIN q
      PROVE  FilterResolver(q)[i] = FilterParse(q[i])
  <2>1. Valid(FilterResolver(q)[i])
    BY DEF Accepted
  <2>2. ~ Valid(NotParsed(q[i]))
    BY DEF NotParsed, Valid
  <2>3. FilterResolver(q)[i] \in {NotParsed(q[i]), FilterParse(q[i])}
    BY DEF FilterResolver
  <2> QED BY <2>1, <2>2, <2>3
<1> QED BY <1>1, <1>2

LEMMA ParsedKeeps ==
    ASSUME NEW c
    PROVE  FilterParse(c).path = c.path /\ FilterParse(c).group = c.group
BY DEF FilterParse

LEMMA ResolvedGroups ==
    ASSUME NEW q \in Seq(Condition), Accepted(q)
    PROVE  \A g : InGroup(FilterResolver(q), g) = InGroup(q, g) /\ InGroup(q, g) \subseteq DOMAIN q
<1>1. DOMAIN FilterResolver(q) = DOMAIN q
  BY AcceptedParsed
<1>2. \A i \in DOMAIN q : FilterResolver(q)[i] = FilterParse(q[i])
  BY AcceptedParsed
<1>3. \A i \in DOMAIN q : FilterResolver(q)[i].group = q[i].group
  BY <1>2, ParsedKeeps
<1> QED BY <1>1, <1>3 DEF InGroup

LEMMA HoldsWhereMeant ==
    ASSUME NEW q \in Seq(Condition), Accepted(q), KeepsMode(q), NEW row
    PROVE  \A i \in DOMAIN q : Holds(FilterResolver(q)[i], row) <=> Meets(q[i], row)
<1> SUFFICES ASSUME NEW i \in DOMAIN q
             PROVE  Holds(FilterResolver(q)[i], row) <=> Meets(q[i], row)
  OBVIOUS
<1>1. FilterResolver(q)[i] = FilterParse(q[i])
  BY AcceptedParsed
<1>2. q[i] \in Condition
  OBVIOUS
<1>3. q[i].insensitive \in BOOLEAN
  BY <1>2 DEF Condition
<1>4. q[i].insensitive => q[i].operator # "none" \/ q[i].form = "shorthand"
  BY DEF KeepsMode
<1> QED BY <1>1, <1>3, <1>4, HoldsIsMeets

(* A row a query asks for is selected: of the conditions some are replaced *)
(* and the alternatives are thrown together, and either asks for less.     *)
THEOREM NeverHides ==
    ASSUME NEW q \in Seq(Condition), Accepted(q), KeepsMode(q), NEW row, Means(q, row)
    PROVE  Selected(FilterResolver(q), row)
<1> DEFINE w == FilterResolver(q)
<1>1. \A i \in DOMAIN q : Holds(w[i], row) <=> Meets(q[i], row)
  BY HoldsWhereMeant
<1>2. \A g : InGroup(w, g) = InGroup(q, g) /\ InGroup(q, g) \subseteq DOMAIN q
  BY ResolvedGroups
<1>3. Kept(w) \subseteq InGroup(q, "none")
  BY <1>2 DEF Kept
<1>4. \A i \in Kept(w) \cup InGroup(w, "and") : Holds(w[i], row)
  BY <1>1, <1>2, <1>3 DEF Means
<1>5. InGroup(w, "or") # {} => \E i \in InGroup(w, "or") : Holds(w[i], row)
  BY <1>1, <1>2 DEF Means
<1>6. \A i \in InGroup(w, "not") : ~ Holds(w[i], row)
  BY <1>1, <1>2 DEF Means
<1> QED BY <1>4, <1>5, <1>6 DEF Selected

(* If no condition replaces another and there is one list of alternatives  *)
(* at most, a row that is selected is a row the query asks for.            *)
THEOREM NeverAdds ==
    ASSUME NEW q \in Seq(Condition), Accepted(q), KeepsMode(q), Separate(q), NEW row,
           Selected(FilterResolver(q), row)
    PROVE  Means(q, row)
<1> DEFINE w == FilterResolver(q)
<1>1. \A i \in DOMAIN q : Holds(w[i], row) <=> Meets(q[i], row)
  BY HoldsWhereMeant
<1>2. \A g : InGroup(w, g) = InGroup(q, g) /\ InGroup(q, g) \subseteq DOMAIN q
  BY ResolvedGroups
<1>3. DOMAIN q \subseteq Nat
  OBVIOUS
<1>4. \A i, j \in InGroup(q, "none") : w[i].path = w[j].path => i = j
  <2>1. \A i \in DOMAIN q : w[i] = FilterParse(q[i])
    BY AcceptedParsed
  <2>2. \A i \in DOMAIN q : w[i].path = q[i].path
    BY <2>1, ParsedKeeps
  <2> QED BY <2>2, <1>2 DEF Separate
<1>5. Kept(w) = InGroup(q, "none")
  BY <1>2, <1>3, <1>4 DEF Kept
<1>6. \A i \in InGroup(q, "none") \cup InGroup(q, "and") : Meets(q[i], row)
  BY <1>1, <1>2, <1>5 DEF Selected
<1>7. ASSUME NEW i \in InGroup(q, "or")
      PROVE  \E j \in InGroup(q, "or") : q[j].entry = q[i].entry /\ Meets(q[j], row)
  <2>1. PICK j \in InGroup(q, "or") : Holds(w[j], row)
    BY <1>2 DEF Selected
  <2> QED BY <2>1, <1>1, <1>2 DEF Separate
<1>8. \A i \in InGroup(q, "not") : ~ Meets(q[i], row)
  BY <1>1, <1>2 DEF Selected
<1> QED BY <1>6, <1>7, <1>8 DEF Means

-----------------------------------------------------------------------------
(* Types *)

LEMMA PageType ==
    ASSUME NEW p \in Nat, NEW l \in Nat
    PROVE  PageOf(p) \in Nat \ {0} /\ LimitOf(l) \in Nat \ {0} /\ Skip(p, l) \in Nat
<1>1. PageOf(p) \in Nat \ {0} /\ LimitOf(l) \in Nat \ {0}
  BY DEF PageOf, LimitOf
<1>2. PageOf(p) - 1 \in Nat
  BY <1>1
<1>3. \A m, n \in Nat : m * n \in Nat
  OBVIOUS
<1> QED BY <1>1, <1>2, <1>3 DEF Skip

Given == [path : Relations, fields : {All} \cup SUBSET (Fields \cup {"id"}), filtered : BOOLEAN,
          inner : SUBSET (Relations \X ({All} \cup SUBSET (Fields \cup {"id"})))]

LEMMA RelationType ==
    ASSUME NEW es \in Seq(Entry), NEW i \in DOMAIN es
    PROVE  Relation(es, i) \in Given
<1> DEFINE e == es[i]
           Some == {All} \cup SUBSET (Fields \cup {"id"})
<1>1. e \in Entry
  OBVIOUS
<1>2. /\ e.path \in Relations /\ e.fields \in {All} \cup SUBSET Fields /\ e.filtered \in BOOLEAN
      /\ e.inner \in Seq(Inner)
  BY <1>1 DEF Entry
<1>3. \A k \in DOMAIN e.inner :
        e.inner[k].path \in Relations /\ e.inner[k].fields \in {All} \cup SUBSET Fields
  <2> TAKE k \in DOMAIN e.inner
  <2>1. e.inner[k] \in Inner
    BY <1>2
  <2> QED BY <2>1 DEF Inner
<1>4. InnerPaths(e) \subseteq Relations
  BY <1>3 DEF InnerPaths
<1>5. CASE IsAll(e)
  <2> DEFINE last == e.inner[Len(e.inner)].path
             in == IF e.inner = <<>> THEN {} ELSE {<<last, All>>}
  <2>1. e.inner # <<>> => Len(e.inner) \in DOMAIN e.inner
    BY <1>2
  <2>2. in \in SUBSET (Relations \X Some)
    BY <2>1, <1>3
  <2>3. Relation(es, i) = [path |-> e.path, fields |-> All, filtered |-> FALSE, inner |-> in]
    BY <1>5 DEF Relation, AnyAll
  <2> QED BY <2>2, <2>3, <1>2 DEF Given
<1>6. CASE ~ IsAll(e) /\ AnyAll(es)
  <2> DEFINE in == {<<p, {"id"}>> : p \in InnerPaths(e)}
  <2>1. in \in SUBSET (Relations \X Some)
    BY <1>4
  <2>2. Relation(es, i) = [path |-> e.path, fields |-> {"id"}, filtered |-> FALSE, inner |-> in]
    BY <1>6 DEF Relation
  <2> QED BY <2>1, <2>2, <1>2 DEF Given
<1>7. CASE ~ AnyAll(es)
  <2> DEFINE in == {<<p, InnerFields(e, p) \cup {"id"}>> : p \in InnerPaths(e)}
  <2>1. ~ IsAll(e)
    BY <1>7 DEF AnyAll
  <2>2. e.fields \subseteq Fields /\ \A k \in DOMAIN e.inner : e.inner[k].fields \subseteq Fields
    BY <2>1, <1>2, <1>3 DEF IsAll
  <2>3. \A p : InnerFields(e, p) \cup {"id"} \in Some
    BY <2>2 DEF InnerFields
  <2>4. in \in SUBSET (Relations \X Some)
    <3> HIDE DEF Some
    <3> QED BY <2>3, <1>4
  <2>5. Relation(es, i) =
            [path |-> e.path, fields |-> e.fields \cup {"id"}, filtered |-> e.filtered, inner |-> in]
    BY <1>7, <2>1 DEF Relation
  <2> QED BY <2>2, <2>4, <2>5, <1>2 DEF Given
<1> QED BY <1>5, <1>6, <1>7

LEMMA SelectType ==
    ASSUME NEW columns \in {All} \cup SUBSET Columns, NEW es
    PROVE  select(columns, es) \subseteq Columns
BY ColumnAssumption DEF select

LEMMA TableType ==
    ASSUME NEW S, S \subseteq Rows
    PROVE  IsFiniteSet(S) /\ Cardinality(S) \in Nat /\ Cardinality(S) <= Cardinality(Rows)
BY RowAssumption, FS_Subset, FS_CardinalityType

LEMMA FindType ==
    ASSUME TypeOK, query # None, Find
    PROVE  TypeOK' /\ found' \in Page
<1>1. query \in Query
  BY DEF TypeOK
<1>2. query.select \in {All} \cup SUBSET Columns /\ query.populate \in Seq(Entry)
  BY <1>1 DEF Query
<1>3. select(query.select, query.populate) \subseteq Columns
  BY <1>2, SelectType
<1>4. populate(query.populate) \subseteq Given
  BY <1>2, RelationType DEF populate
<1>5. matched' \subseteq Rows
  BY DEF Find, TypeOK
<1>6. found' \in Page
  <2>1. PICK rows : /\ rows \subseteq matched'
                    /\ found' = [rows |-> rows, columns |-> select(query.select, query.populate),
                                 relations |-> populate(query.populate)]
    BY DEF Find
  <2> QED BY <2>1, <1>3, <1>4, <1>5 DEF Page, Given
<1> QED BY <1>5, <1>6 DEF Find, TypeOK, walk

-----------------------------------------------------------------------------
(* A request has a query, and a walk starts at its first page with nothing *)
(* shown; rows are found for a query that is taken only, and come with the *)
(* relations the query builder makes of it; with them goes a count of the  *)
(* table, without them none; and the next page is the number after the     *)
(* rows skipped.                                                           *)
AnswerInvariant ==
    /\ pc # "idle" => query # None
    /\ pc = "idle" => page = 0 /\ seen = {}
    /\ pc \in {"idle", "find"} => found = None
    /\ pc = "count" => found # None
    /\ found # None => /\ query # None
                      /\ Accepted(query.filter)
                      /\ found.relations = populate(query.populate)
    /\ pc \in {"build", "reading"} =>
            IF found = None THEN total = 0
            ELSE total <= Cardinality(Rows) /\ (steady => total = Cardinality(table))
    /\ pc = "reading" => meta.next = IF HasNext THEN CurrentPage + 1 ELSE NoPage

IInv == TypeOK /\ AnswerInvariant

LEMMA CurrentPageType ==
    ASSUME TypeOK, query # None
    PROVE  CurrentPage \in Nat
<1>1. query \in Query
  BY DEF TypeOK
<1>2. query.limit \in Nat /\ page \in Nat
  BY <1>1 DEF Query, TypeOK
<1> QED BY <1>2, PageType DEF CurrentPage

LEMMA Initially == Init => IInv
BY DEF Init, IInv, TypeOK, AnswerInvariant, Meta, NoMeta, NoPage

LEMMA Inductive == IInv /\ [Next]_vars => IInv'
<1> SUFFICES ASSUME IInv, [Next]_vars
             PROVE  IInv'
  OBVIOUS
<1> USE DEF IInv
<1>1. ASSUME NEW x \in Changing, Create(x) \/ Delete(x)
      PROVE  IInv'
  <2>1. UNCHANGED <<query, pc, page, found, total, meta, matched, seen>> /\ ~ steady'
    BY <1>1 DEF Create, Delete
  <2>2. CurrentPage' = CurrentPage /\ HasNext' = HasNext
    BY <2>1 DEF CurrentPage, HasNext
  <2>3. TypeOK'
    BY <1>1, <2>1, RowAssumption DEF TypeOK, Create, Delete
  <2> QED BY <2>1, <2>2, <2>3 DEF AnswerInvariant
<1>2. CASE Ask
  <2>1. query' \in Query /\ query' # None
    BY <1>2, QueryAssumption DEF Ask
  <2>2. found = None
    BY <1>2 DEF Ask, AnswerInvariant
  <2>3. TypeOK'
    BY <1>2, <2>1 DEF TypeOK, Ask
  <2> QED BY <1>2, <2>1, <2>2, <2>3 DEF AnswerInvariant, Ask
<1>3. CASE Find
  <2>1. query # None
    BY <1>3 DEF Find, AnswerInvariant
  <2>2. TypeOK'
    BY <1>3, <2>1, FindType
  <2>3. found'.relations = populate(query.populate)
    BY <1>3 DEF Find
  <2>4. found' # None
    <3>1. found' \in Page
      BY <1>3, <2>1, FindType
    <3> QED BY <3>1, QueryAssumption
  <2> QED BY <1>3, <2>1, <2>2, <2>3, <2>4 DEF AnswerInvariant, Find, walk
<1>4. CASE FindFails
  BY <1>4 DEF FindFails, TypeOK, AnswerInvariant, walk
<1>5. CASE Count
  <2>1. Cardinality(table) \in Nat /\ Cardinality(table) <= Cardinality(Rows)
    BY TableType DEF TypeOK
  <2> QED BY <1>5, <2>1 DEF Count, TypeOK, AnswerInvariant, walk
<1>6. CASE Paginate
  <2>1. query # None
    BY <1>6 DEF Paginate, AnswerInvariant
  <2>2. CurrentPage \in Nat
    BY <2>1, CurrentPageType
  <2>3. CurrentPage' = CurrentPage /\ HasNext' = HasNext
    BY <1>6 DEF Paginate, walk, CurrentPage, HasNext
  <2>4. meta' \in Meta /\ meta'.next = IF HasNext THEN CurrentPage + 1 ELSE NoPage
    BY <1>6, <2>2 DEF Paginate, Meta, NoPage
  <2>5. TypeOK'
    BY <1>6, <2>4 DEF Paginate, TypeOK, walk
  <2> QED BY <1>6, <2>1, <2>3, <2>4, <2>5 DEF AnswerInvariant, Paginate, walk
<1>7. CASE PaginateFails \/ Stop
  <2>1. Over
    BY <1>7 DEF PaginateFails, Stop
  <2> QED BY <2>1 DEF Over, TypeOK, AnswerInvariant, Meta, NoMeta, NoPage
<1>8. CASE Follow
  <2>1. query # None
    BY <1>8 DEF Follow, AnswerInvariant
  <2>2. Shown \subseteq Rows
    BY DEF Shown, TypeOK, Page
  <2>3. TypeOK'
    BY <1>8, <2>2 DEF Follow, TypeOK, Meta, NoMeta, NoPage
  <2> QED BY <1>8, <2>1, <2>3 DEF AnswerInvariant, Follow
<1>9. CASE UNCHANGED vars
  BY <1>9 DEF vars, TypeOK, AnswerInvariant, CurrentPage, HasNext
<1> QED BY <1>1, <1>2, <1>3, <1>4, <1>5, <1>6, <1>7, <1>8, <1>9 DEF Next, Answering, Reading

LEMMA Invariant == Spec => []IInv
<1>1. Init => IInv
  BY Initially
<1>2. IInv /\ [Next]_vars => IInv'
  BY Inductive
<1> QED BY <1>1, <1>2, PTL DEF Spec

(* The variables keep their types, for any rows, queries and columns.      *)
THEOREM TypeCorrect == Spec => []TypeOK
<1>1. IInv => TypeOK
  BY DEF IInv
<1> QED BY <1>1, Invariant, PTL

-----------------------------------------------------------------------------
(* Properties *)

(* A step that looks for rows finds every row meant, for any table and any *)
(* query that is taken.                                                    *)
THEOREM FoundAreMeant == Spec => MatchesMeant
<1> DEFINE P == pc = "find" /\ pc' = "count" /\ KeepsMode(query.filter) =>
                    /\ Meant \subseteq matched'
                    /\ Separate(query.filter) => matched' \subseteq Meant
<1>1. IInv /\ [Next]_vars => [P]_vars
  <2> SUFFICES ASSUME IInv, [Next]_vars, pc = "find", pc' = "count", KeepsMode(query.filter)
               PROVE  /\ Meant \subseteq matched'
                      /\ Separate(query.filter) => matched' \subseteq Meant
    OBVIOUS
  <2>1. Find
    BY DEF Next, Answering, Reading, Create, Delete, Ask, FindFails, Count, Paginate,
           PaginateFails, Follow, Stop, Over, vars
  <2>2. query \in Query
    BY DEF IInv, TypeOK, AnswerInvariant
  <2>3. query.filter \in Seq(Condition)
    BY <2>2 DEF Query
  <2>4. matched' = {x \in table : Selected(FilterResolver(query.filter), Cell[x])}
    BY <2>1 DEF Find, Wire
  <2>5. Accepted(query.filter)
    BY <2>1 DEF Find
  <2>6. ASSUME NEW x \in Meant
        PROVE  x \in matched'
    <3>1. x \in table /\ Means(query.filter, Cell[x])
      BY DEF Meant
    <3>2. Selected(FilterResolver(query.filter), Cell[x])
      BY <3>1, <2>3, <2>5, NeverHides
    <3> QED BY <3>1, <3>2, <2>4
  <2>7. ASSUME Separate(query.filter), NEW x \in matched'
        PROVE  x \in Meant
    <3>1. x \in table /\ Selected(FilterResolver(query.filter), Cell[x])
      BY <2>4
    <3>2. Means(query.filter, Cell[x])
      BY <3>1, <2>3, <2>5, <2>7, NeverAdds
    <3> QED BY <3>1, <3>2 DEF Meant
  <2> QED BY <2>6, <2>7
<1> QED BY <1>1, Invariant, PTL DEF Spec, MatchesMeant

(* The rows before a page other than the first are more than the pages     *)
(* before it, if a page has two rows or more.                              *)
LEMMA LaterPage ==
    ASSUME NEW p \in Nat, NEW l \in Nat, LimitOf(l) > 1
    PROVE  (IF Skip(p, l) = 0 THEN 1 ELSE Skip(p, l)) + 1 > PageOf(p)
<1>1. PageOf(p) \in Nat \ {0} /\ LimitOf(l) \in Nat \ {0} /\ Skip(p, l) \in Nat
  BY PageType
<1>2. CASE PageOf(p) = 1
  BY <1>1, <1>2
<1>3. CASE PageOf(p) > 1
  <2>1. PICK m \in Nat : m = PageOf(p) - 1 /\ m >= 1
    BY <1>1, <1>3
  <2>2. \A k \in Nat : k > 1 => m * k >= 2 * m
    BY <2>1
  <2>3. Skip(p, l) >= 2 * m
    BY <1>1, <2>1, <2>2 DEF Skip
  <2> QED BY <1>1, <2>1, <2>3
<1> QED BY <1>1, <1>2, <1>3

-----------------------------------------------------------------------------
(* Relations *)

LEMMA RelationKept ==
    ASSUME NEW es \in Seq(Entry), AllOrNone(es), NEW i \in DOMAIN es
    PROVE  Relation(es, i) = MeantRelation(es[i])
<1> DEFINE e == es[i]
<1>1. e \in Entry
  OBVIOUS
<1>2. e.inner \in Seq(Inner) /\ e.filtered \in BOOLEAN
  BY <1>1 DEF Entry
<1>3. CASE \A j \in DOMAIN es :
              /\ ~ IsAll(es[j])
              /\ \A k, l \in DOMAIN es[j].inner :
                    es[j].inner[k].path = es[j].inner[l].path => k = l
  <2> DEFINE given == {<<p, InnerFields(e, p) \cup {"id"}>> : p \in InnerPaths(e)}
             meant == {<<e.inner[k].path, IF e.inner[k].fields = All THEN All
                                          ELSE e.inner[k].fields \cup {"id"}>> : k \in DOMAIN e.inner}
  <2>1. ~ AnyAll(es) /\ ~ IsAll(e)
    BY <1>3 DEF AnyAll
  <2>2. e.fields # All /\ \A k \in DOMAIN e.inner : e.inner[k].fields # All
    BY <2>1 DEF IsAll
  <2>3. ASSUME NEW k \in DOMAIN e.inner
        PROVE  InnerFields(e, e.inner[k].path) = e.inner[k].fields
    <3>1. {j \in DOMAIN e.inner : e.inner[j].path = e.inner[k].path} = {k}
      BY <1>3
    <3> QED BY <3>1 DEF InnerFields
  <2>4. given = {<<e.inner[k].path, InnerFields(e, e.inner[k].path) \cup {"id"}>> : k \in DOMAIN e.inner}
    BY DEF InnerPaths
  <2>5. given = meant
    <3> HIDE DEF given
    <3> QED BY <2>2, <2>3, <2>4
  <2>6. Relation(es, i) =
            [path |-> e.path, fields |-> e.fields \cup {"id"}, filtered |-> e.filtered, inner |-> given]
    BY <2>1 DEF Relation
  <2>7. MeantRelation(e) =
            [path |-> e.path, filtered |-> e.filtered, fields |-> e.fields \cup {"id"}, inner |-> meant]
    BY <2>2 DEF MeantRelation
  <2> QED BY <2>5, <2>6, <2>7
<1>4. CASE \A j \in DOMAIN es :
              /\ es[j].fields = All /\ ~ es[j].filtered /\ Len(es[j].inner) <= 1
              /\ \A k \in DOMAIN es[j].inner : es[j].inner[k].fields = All
  <2> DEFINE given == IF e.inner = <<>> THEN {} ELSE {<<e.inner[Len(e.inner)].path, All>>}
             meant == {<<e.inner[k].path, IF e.inner[k].fields = All THEN All
                                          ELSE e.inner[k].fields \cup {"id"}>> : k \in DOMAIN e.inner}
  <2>1. /\ IsAll(e) /\ e.fields = All /\ e.filtered = FALSE
        /\ \A k \in DOMAIN e.inner : e.inner[k].fields = All
    BY <1>2, <1>4 DEF IsAll
  <2>2. meant = {<<e.inner[k].path, All>> : k \in DOMAIN e.inner}
    BY <2>1
  <2>3. ASSUME e.inner = <<>>
        PROVE  given = meant
    <3>1. DOMAIN e.inner = {}
      BY <2>3
    <3> QED BY <2>2, <2>3, <3>1
  <2>4. ASSUME e.inner # <<>>
        PROVE  given = meant
    <3>1. Len(e.inner) \in Nat /\ DOMAIN e.inner = 1 .. Len(e.inner) /\ Len(e.inner) # 0
      BY <1>2, <2>4, EmptySeq
    <3>2. Len(e.inner) = 1
      <4>1. Len(e.inner) <= 1
        BY <1>4
      <4>2. \A n \in Nat : n # 0 /\ n <= 1 => n = 1
        OBVIOUS
      <4> QED BY <3>1, <4>1, <4>2
    <3>3. DOMAIN e.inner = {1}
      BY <3>1, <3>2
    <3> HIDE DEF given
    <3>4. given = {<<e.inner[1].path, All>>}
      BY <2>4, <3>2 DEF given
    <3> QED BY <2>2, <3>3, <3>4
  <2>5. given = meant
    BY <2>3, <2>4
  <2>6. Relation(es, i) = [path |-> e.path, fields |-> All, filtered |-> FALSE, inner |-> given]
    BY <2>1 DEF Relation, AnyAll
  <2>7. MeantRelation(e) = [path |-> e.path, filtered |-> FALSE, fields |-> All, inner |-> meant]
    BY <2>1 DEF MeantRelation
  <2> QED BY <2>5, <2>6, <2>7
<1> QED BY <1>3, <1>4 DEF AllOrNone

(* The relations of a page are those asked for, for any list of relations  *)
(* that uses `all' everywhere or nowhere.                                  *)
THEOREM RelationsAreMeant == Spec => []RelationsKept
<1>1. IInv => RelationsKept
  <2> SUFFICES ASSUME IInv, found # None, AllOrNone(query.populate)
               PROVE  found.relations = {MeantRelation(query.populate[i]) : i \in DOMAIN query.populate}
    BY DEF RelationsKept
  <2>1. query \in Query /\ found.relations = populate(query.populate)
    BY DEF IInv, TypeOK, AnswerInvariant
  <2>2. query.populate \in Seq(Entry)
    BY <2>1 DEF Query
  <2>3. \A i \in DOMAIN query.populate :
            Relation(query.populate, i) = MeantRelation(query.populate[i])
    BY <2>2, RelationKept
  <2> QED BY <2>1, <2>3 DEF populate
<1> QED BY <1>1, Invariant, PTL

-----------------------------------------------------------------------------
(* The walk *)

(* In an order without ties, the place the database gives a row is the     *)
(* number of rows that come no later: the order is the only one.           *)
LEMMA OrderIsUnique ==
    ASSUME NEW S \in SUBSET Rows, NEW column \in Columns, Unique(column),
           NEW place \in Orders(S, column), NEW x \in S
    PROVE  place[x] = Cardinality({y \in S : Cell[y][column] <= Cell[x][column]})
<1> DEFINE n == Cardinality(S)
           A == {y \in S : place[y] <= place[x]}
           g == [y \in A |-> place[y]]
<1>1. IsFiniteSet(S) /\ n \in Nat
  BY TableType
<1>2. /\ place \in [S -> 1 .. n]
      /\ \A y, z \in S : y # z => place[y] # place[z]
      /\ \A y, z \in S : y # z /\ Cell[y][column] < Cell[z][column] => place[y] < place[z]
  BY QueryAssumption DEF Orders, Unique
<1>3. \A t \in 1 .. n : \E y \in S : place[y] = t
  <2>1. place \in Injection(S, 1 .. n)
    BY <1>2 DEF Injection, IsInjective
  <2>2. IsFiniteSet(1 .. n) /\ Cardinality(1 .. n) = n
    <3>1. 1 \in Int /\ n \in Int /\ (IF 1 > n THEN 0 ELSE n - 1 + 1) = n
      BY <1>1
    <3> HIDE DEF n
    <3> QED BY <3>1, FS_Interval
  <2>3. place \in Surjection(S, 1 .. n)
    <3> HIDE DEF n
    <3>1. Cardinality(S) = n
      BY DEF n
    <3> QED BY <2>1, <2>2, <3>1, FS_Injection
  <2> QED BY <2>3 DEF Surjection
<1>4. A = {y \in S : Cell[y][column] <= Cell[x][column]}
  <2>1. \A y \in S : Cell[y][column] \in Nat
    BY RowAssumption DEF Row
  <2>2. \A y \in S : Cell[y][column] = Cell[x][column] => y = x
    BY DEF Unique
  <2>3. \A y \in S : place[y] \in Nat
    BY <1>2
  <2>4. ASSUME NEW y \in S
        PROVE  place[y] <= place[x] <=> Cell[y][column] <= Cell[x][column]
    <3>1. CASE y = x
      BY <3>1, <2>1, <2>3
    <3>2. CASE Cell[y][column] < Cell[x][column]
      BY <3>2, <2>1, <2>3, <1>2
    <3>3. CASE Cell[x][column] < Cell[y][column]
      BY <3>3, <2>1, <2>3, <1>2
    <3> QED BY <3>1, <3>2, <3>3, <2>1, <2>2
  <2> QED BY <2>4
<1>5. g \in Bijection(A, 1 .. place[x])
  <2>1. place[x] \in 1 .. n
    BY <1>2
  <2>2. g \in [A -> 1 .. place[x]]
    BY <1>2, <2>1
  <2>3. \A y, z \in A : g[y] = g[z] => y = z
    BY <1>2
  <2>4. \A t \in 1 .. place[x] : \E y \in A : g[y] = t
    <3> TAKE t \in 1 .. place[x]
    <3>1. t \in 1 .. n
      BY <2>1, <1>1
    <3>2. PICK y \in S : place[y] = t
      BY <1>3, <3>1
    <3>3. y \in A
      BY <3>2
    <3> QED BY <3>2, <3>3
  <2> HIDE DEF g
  <2> QED BY <2>2, <2>3, <2>4 DEF Bijection, Injection, IsInjective, Surjection
<1>6. Cardinality(A) = place[x]
  <2>1. IsFiniteSet(A)
    BY <1>1, FS_Subset
  <2>2. Cardinality(1 .. place[x]) = Cardinality(A)
    <3> HIDE DEF A, g
    <3> QED BY <2>1, <1>5, FS_Bijection DEF ExistsBijection
  <2>3. place[x] \in Nat /\ place[x] >= 1
    BY <1>2
  <2>4. Cardinality(1 .. place[x]) = place[x]
    <3>1. 1 \in Int /\ place[x] \in Int /\ (IF 1 > place[x] THEN 0 ELSE place[x] - 1 + 1) = place[x]
      BY <2>3
    <3> QED BY <3>1, FS_Interval
  <2> QED BY <2>2, <2>4
<1> QED BY <1>4, <1>6

LEMMA CountType ==
    ASSUME NEW S \in SUBSET Rows, NEW column \in Columns, NEW x \in S
    PROVE  LET n == Cardinality({y \in S : Cell[y][column] <= Cell[x][column]})
           IN  n \in Nat \ {0} /\ n <= Cardinality(S)
<1> DEFINE A == {y \in S : Cell[y][column] <= Cell[x][column]}
<1>1. IsFiniteSet(S) /\ Cardinality(S) \in Nat
  BY TableType
<1>2. IsFiniteSet(A) /\ Cardinality(A) \in Nat /\ Cardinality(A) <= Cardinality(S)
  <2>1. A \subseteq S
    OBVIOUS
  <2> HIDE DEF A
  <2> QED BY <2>1, <1>1, FS_Subset, FS_CardinalityType
<1>3. x \in A
  <2>1. Cell[x][column] \in Nat
    BY RowAssumption DEF Row
  <2> QED BY <2>1
<1>4. Cardinality(A) # 0
  BY <1>2, <1>3, FS_EmptySet
<1> QED BY <1>2, <1>4

LEMMA PlaceType ==
    ASSUME TypeOK, query # None, Unique(query.sort)
    PROVE  \A x \in Asked : Place(x) \in Nat \ {0} /\ Place(x) <= Cardinality(Asked)
<1>1. Asked \in SUBSET Rows
  BY DEF Asked, TypeOK
<1>2. query.sort \in Columns
  BY QueryAssumption DEF TypeOK, Query, Unique
<1> QED BY <1>1, <1>2, CountType DEF Place

(* Where the page after a page starts.                                     *)
LEMMA NextSkip ==
    ASSUME NEW p \in Nat, NEW l \in Nat
    PROVE  LET skip == Skip(p, l)
               limit == LimitOf(l)
               at == IF skip = 0 THEN 1 ELSE skip
               next == Skip(at + 1, l)
           IN  /\ skip \in Nat /\ limit \in Nat \ {0} /\ next \in Nat /\ limit * limit \in Nat
               /\ next = at * limit
               /\ skip = 0 \/ skip >= limit
               /\ skip = 0 => next = limit
               /\ skip = limit => next = limit * limit
               /\ next >= skip
               /\ limit > 1 /\ skip # 0 => next >= 2 * skip
<1> DEFINE skip == Skip(p, l)
           limit == LimitOf(l)
           at == IF skip = 0 THEN 1 ELSE skip
           next == Skip(at + 1, l)
<1>1. skip \in Nat /\ limit \in Nat \ {0} /\ PageOf(p) \in Nat \ {0}
  BY PageType
<1>2. at \in Nat /\ at >= 1
  BY <1>1
<1>3. next = at * limit
  <2>1. PageOf(at + 1) - 1 = at
    BY <1>2 DEF PageOf
  <2>2. next = (PageOf(at + 1) - 1) * limit
    BY DEF Skip
  <2> HIDE DEF at, next, limit
  <2> QED BY <2>1, <2>2
<1>4. skip = 0 \/ skip >= limit
  <2>1. PICK m \in Nat : m = PageOf(p) - 1
    BY <1>1
  <2>2. skip = m * limit
    BY <2>1 DEF Skip
  <2>3. \A a, b \in Nat : a >= 1 => a * b >= b
    OBVIOUS
  <2>4. m >= 1 => m * limit >= limit
    <3> HIDE DEF limit
    <3> QED BY <2>3, <1>1
  <2>5. m = 0 => m * limit = 0
    <3> HIDE DEF limit
    <3> QED BY <1>1
  <2>6. m = 0 \/ m >= 1
    OBVIOUS
  <2> HIDE DEF limit, skip
  <2>7. CASE m = 0
    BY <2>2, <2>5, <2>7
  <2>8. CASE m >= 1
    BY <2>2, <2>4, <2>8
  <2> QED BY <2>6, <2>7, <2>8
<1>5. \A a, b \in Nat : a * b \in Nat /\ (b >= 1 => a * b >= a) /\ (b > 1 => a * b >= 2 * a)
  OBVIOUS
<1> HIDE DEF skip, limit, next
<1>6. limit * limit \in Nat /\ at * limit \in Nat /\ at * limit >= at
      /\ (limit > 1 => at * limit >= 2 * at)
  BY <1>1, <1>2, <1>5
<1>7. 1 * limit = limit
  BY <1>1
<1>8. /\ skip \in Nat /\ limit \in Nat \ {0} /\ next \in Nat /\ limit * limit \in Nat
      /\ next = at * limit
      /\ skip = 0 \/ skip >= limit
      /\ skip = 0 => next = limit
      /\ skip = limit => next = limit * limit
      /\ next >= skip
      /\ limit > 1 /\ skip # 0 => next >= 2 * skip
  BY <1>1, <1>2, <1>3, <1>4, <1>6, <1>7
<1> QED BY <1>8 DEF skip, limit, next

(* The page a walk goes on to, and that it goes on only after an answer    *)
(* with rows.                                                              *)
LEMMA FollowPage ==
    ASSUME IInv, Follow
    PROVE  /\ page' = CurrentPage + 1
           /\ found # None
           /\ CurrentPage * LimitOf(query.limit) < total
           /\ total <= Cardinality(Rows)
           /\ query.limit \in Nat /\ page \in Nat
<1> USE DEF IInv
<1>1. query # None /\ query \in Query
  BY DEF Follow, AnswerInvariant, TypeOK
<1>2. query.limit \in Nat /\ page \in Nat
  BY <1>1 DEF Query, TypeOK
<1>3. page' = CurrentPage + 1 /\ CurrentPage * LimitOf(query.limit) < total
  BY DEF Follow, AnswerInvariant, HasNext, NoPage
<1>4. found # None
  <2>1. CurrentPage * LimitOf(query.limit) \in Nat
    <3>1. CurrentPage \in Nat /\ LimitOf(query.limit) \in Nat
      BY <1>1, <1>2, CurrentPageType, PageType
    <3>2. \A a, b \in Nat : a * b \in Nat
      OBVIOUS
    <3> QED BY <3>1, <3>2
  <2>2. total # 0
    BY <1>3, <2>1
  <2> QED BY <2>2 DEF Follow, AnswerInvariant
<1> QED BY <1>2, <1>3, <1>4 DEF Follow, AnswerInvariant

LEMMA StartsInside ==
    ASSUME IInv, Follow
    PROVE  Skip(page', query.limit) < Cardinality(Rows)
<1> DEFINE skip == Skip(page, query.limit)
           limit == LimitOf(query.limit)
           at == IF skip = 0 THEN 1 ELSE skip
<1>1. /\ page' = at + 1 /\ at * limit < total /\ total <= Cardinality(Rows)
      /\ query.limit \in Nat /\ page \in Nat
  BY FollowPage DEF CurrentPage
<1>2. Skip(at + 1, query.limit) = at * limit /\ Skip(at + 1, query.limit) \in Nat
  BY <1>1, NextSkip
<1>3. Cardinality(Rows) \in Nat /\ total \in Nat
  BY RowAssumption, FS_CardinalityType DEF IInv, TypeOK
<1> HIDE DEF skip, limit, at
<1> QED BY <1>1, <1>2, <1>3

(* Following an answer leads to a page within the table, and to a later    *)
(* one for pages of two rows or more, whatever is created or removed: such *)
(* a walk has at most one page more than there are rows.                   *)
THEOREM WalksOn == Spec => WalkAdvances
<1> DEFINE P == pc = "reading" /\ pc' = "find" =>
                    /\ Skip(page', query.limit) < Cardinality(Rows)
                    /\ LimitOf(query.limit) > 1 => page' > PageOf(page)
<1>1. IInv /\ [Next]_vars => [P]_vars
  <2> SUFFICES ASSUME IInv, [Next]_vars, pc = "reading", pc' = "find"
               PROVE  /\ Skip(page', query.limit) < Cardinality(Rows)
                      /\ LimitOf(query.limit) > 1 => page' > PageOf(page)
    OBVIOUS
  <2>1. Follow
    BY DEF Next, Answering, Reading, Create, Delete, Ask, Find, FindFails, Count, Paginate,
           PaginateFails, Stop, Over, vars
  <2>2. page' = CurrentPage + 1 /\ query.limit \in Nat /\ page \in Nat
    BY <2>1, FollowPage
  <2> QED BY <2>1, <2>2, StartsInside, LaterPage DEF CurrentPage
<1> QED BY <1>1, Invariant, PTL DEF Spec, WalkAdvances

(* What a step finds in an order without ties is the page of all rows      *)
(* asked for.                                                              *)
LEMMA FoundPage ==
    ASSUME TypeOK, query # None, Unique(query.sort), Find
    PROVE  LET limit == LimitOf(query.limit)
               skip == Skip(page, query.limit)
           IN  /\ matched' = Asked
               /\ found'.rows = {x \in Asked : Place(x) \in skip + 1 .. skip + limit}
<1> DEFINE limit == LimitOf(query.limit)
           skip == Skip(page, query.limit)
<1>1. matched' = Asked /\ Asked \in SUBSET Rows
  BY DEF Find, Asked, TypeOK
<1>2. PICK place \in Orders(matched', query.sort) :
        found' = [rows |-> {x \in matched' : place[x] \in skip + 1 .. skip + limit},
                  columns |-> select(query.select, query.populate),
                  relations |-> populate(query.populate)]
  BY Zenon DEF Find
<1>3. query.sort \in Columns
  BY QueryAssumption DEF TypeOK, Query, Unique
<1>4. \A x \in Asked : place[x] = Place(x)
  BY <1>1, <1>2, <1>3, OrderIsUnique DEF Place
<1>5. found'.rows = {x \in Asked : place[x] \in skip + 1 .. skip + limit}
  BY <1>1, <1>2
<1> QED BY <1>1, <1>4, <1>5

LEMMA StandsInductive == IInv /\ WalkStands /\ [Next]_vars => WalkStands'
<1> SUFFICES ASSUME IInv, WalkStands, [Next]_vars
             PROVE  WalkStands'
  OBVIOUS
<1>1. ASSUME NEW x \in Changing, Create(x) \/ Delete(x)
      PROVE  WalkStands'
  BY <1>1 DEF Create, Delete, WalkStands
<1>2. ASSUME UNCHANGED <<table, query>>
      PROVE  Asked' = Asked /\ \A x : Place(x)' = Place(x)
  BY <1>2 DEF Asked, Place, Wire
<1>3. CASE Ask
  <2> SUFFICES ASSUME Unique(query'.sort), query' # None
               PROVE  WalkStands'
    BY DEF WalkStands
  <2>1. page' = 0 /\ seen' = {} /\ found' = None
    BY <1>3 DEF Ask, IInv, AnswerInvariant
  <2>2. TypeOK' /\ query' \in Query
    BY <1>3, Inductive DEF IInv, TypeOK
  <2>3. query'.limit \in Nat
    BY <2>2 DEF Query
  <2>4. Skip(page', query'.limit) = 0
    BY <2>1, <2>3, PageType DEF Skip, PageOf
  <2>5. \A x \in Asked' : Place(x)' \in Nat \ {0}
    <3>1. Asked' \in SUBSET Rows
      BY <2>2 DEF Asked, TypeOK
    <3>2. query'.sort \in Columns
      BY <2>2, QueryAssumption DEF Query, Unique
    <3> QED BY <3>1, <3>2, CountType DEF Place
  <2> QED BY <2>1, <2>4, <2>5 DEF WalkStands
<1>4. CASE Find
  <2> SUFFICES ASSUME steady, query # None, Unique(query.sort)
               PROVE  WalkStands'
    BY <1>4 DEF Find, walk, WalkStands
  <2>1. UNCHANGED <<table, query, page, seen, steady>>
    BY <1>4 DEF Find, walk
  <2> DEFINE limit == LimitOf(query.limit)
             skip == Skip(page, query.limit)
  <2>2. matched' = Asked /\ found'.rows = {x \in Asked : Place(x) \in skip + 1 .. skip + limit}
    BY <1>4, FoundPage DEF IInv
  <2> QED BY <2>1, <2>2, <1>2 DEF WalkStands
<1>5. CASE FindFails
  <2>1. UNCHANGED <<table, query, page, seen, steady>> /\ found' = None
    BY <1>5 DEF FindFails, walk
  <2> QED BY <2>1, <1>2 DEF WalkStands
<1>6. CASE Count \/ Paginate \/ UNCHANGED vars
  <2>1. UNCHANGED <<table, query, page, seen, steady, found, matched>>
    BY <1>6 DEF Count, Paginate, walk, vars
  <2> QED BY <2>1, <1>2 DEF WalkStands
<1>7. CASE Over
  BY <1>7 DEF Over, WalkStands
<1>8. CASE Follow
  <2> SUFFICES ASSUME steady, query # None, Unique(query.sort)
               PROVE  WalkStands'
    BY <1>8 DEF Follow, WalkStands
  <2> DEFINE limit == LimitOf(query.limit)
             skip == Skip(page, query.limit)
             at == IF skip = 0 THEN 1 ELSE skip
             next == Skip(at + 1, query.limit)
  <2>1. /\ page' = at + 1 /\ found # None
        /\ query.limit \in Nat /\ page \in Nat
    BY <1>8, FollowPage DEF CurrentPage
  <2>2. /\ skip \in Nat /\ limit \in Nat \ {0} /\ next \in Nat /\ limit * limit \in Nat
        /\ skip = 0 \/ skip >= limit
        /\ skip = 0 => next = limit
        /\ skip = limit => next = limit * limit
        /\ next >= skip
        /\ limit > 1 /\ skip # 0 => next >= 2 * skip
    BY <2>1, NextSkip
  <2>3. UNCHANGED <<table, query, steady>> /\ seen' = Shown /\ found' = None
    BY <1>8 DEF Follow
  <2>4. \A x \in Asked : Place(x) \in Nat \ {0}
    BY PlaceType DEF IInv
  <2>5. /\ seen \subseteq Asked
        /\ \A x \in Asked : Place(x) <= skip /\ Place(x) <= 2 * limit => x \in seen
        /\ limit > 1 => /\ skip \in {0, limit} \/ skip >= limit * limit
                        /\ \A x \in seen : /\ Place(x) <= skip
                                           /\ Place(x) <= 2 * limit \/ Place(x) > limit * limit
        /\ found.rows = {x \in Asked : Place(x) \in skip + 1 .. skip + limit}
    BY <2>1 DEF WalkStands
  <2>6. Shown = seen \cup {x \in Asked : Place(x) \in skip + 1 .. skip + limit}
    BY <2>1, <2>5 DEF Shown
  <2>7. Skip(page, query.limit)' = next /\ LimitOf(query.limit)' = limit
    BY <2>1, <2>3
  <2> HIDE DEF skip, limit, at, next
  <2>8. Shown \subseteq Asked
    BY <2>5, <2>6
  <2>9. ASSUME NEW x \in Asked, Place(x) <= next, Place(x) <= 2 * limit
        PROVE  x \in Shown
    <3>1. CASE Place(x) <= skip
      BY <3>1, <2>5, <2>6, <2>9
    <3>2. CASE Place(x) > skip
      <4>1. Place(x) <= skip + limit
        BY <2>2, <2>4, <2>9
      <4>2. Place(x) \in skip + 1 .. skip + limit
        BY <4>1, <3>2, <2>2, <2>4
      <4> QED BY <4>2, <2>6
    <3> QED BY <3>1, <3>2, <2>2, <2>4
  <2>10. ASSUME limit > 1
         PROVE  next \in {0, limit} \/ next >= limit * limit
    BY <2>2, <2>5, <2>10
  <2>11. ASSUME limit > 1, NEW x \in Shown
         PROVE  Place(x) <= next /\ (Place(x) <= 2 * limit \/ Place(x) > limit * limit)
    <3>1. CASE x \in seen
      BY <3>1, <2>2, <2>4, <2>5, <2>8, <2>11
    <3>2. CASE x \notin seen
      <4>1. Place(x) \in Nat /\ Place(x) > skip /\ Place(x) <= skip + limit
        BY <3>2, <2>2, <2>4, <2>6, <2>8
      <4>2. Place(x) <= next
        BY <4>1, <2>2, <2>11
      <4>3. Place(x) <= 2 * limit \/ Place(x) > limit * limit
        BY <4>1, <2>2, <2>5, <2>11
      <4> QED BY <4>2, <4>3
    <3> QED BY <3>1, <3>2
  <2> QED BY <2>3, <2>7, <2>8, <2>9, <2>10, <2>11, <1>2 DEF WalkStands
<1> QED BY <1>1, <1>3, <1>4, <1>5, <1>6, <1>7, <1>8
       DEF Next, Answering, Reading, PaginateFails, Stop

WInv == IInv /\ WalkStands

LEMMA WalkInvariant == Spec => []WInv
<1>1. Init => WInv
  BY Initially DEF Init, WInv, WalkStands
<1>2. WInv /\ [Next]_vars => WInv'
  BY Inductive, StandsInductive DEF WInv
<1> QED BY <1>1, <1>2, PTL DEF Spec

(* A walk over a table left alone stands where the number of its page and  *)
(* the limit say, for any rows, order and limit.                           *)
THEOREM WalkStandsThere == Spec => []WalkStands
<1>1. WInv => WalkStands
  BY DEF WInv
<1> QED BY <1>1, WalkInvariant, PTL

(* The rows of the third page of a walk and of those after it, up to the   *)
(* one that starts at the square of the limit, are in no answer of it, for *)
(* any table that is left alone and any order without ties: `next' jumps   *)
(* from the second page to that one.                                       *)
PassedOver ==
    steady /\ query # None /\ Unique(query.sort) /\ LimitOf(query.limit) > 1 =>
        \A x \in Shown : ~ (2 * LimitOf(query.limit) < Place(x)
                            /\ Place(x) <= LimitOf(query.limit) * LimitOf(query.limit))

THEOREM ThirdPagePassedOver == Spec => []PassedOver
<1>1. WInv => PassedOver
  <2> SUFFICES ASSUME WInv, steady, query # None, Unique(query.sort), LimitOf(query.limit) > 1,
                      NEW x \in Shown
               PROVE  ~ (2 * LimitOf(query.limit) < Place(x)
                         /\ Place(x) <= LimitOf(query.limit) * LimitOf(query.limit))
    BY DEF PassedOver
  <2> DEFINE limit == LimitOf(query.limit)
             skip == Skip(page, query.limit)
  <2>1. TypeOK /\ query.limit \in Nat /\ page \in Nat
    BY DEF WInv, IInv, TypeOK, Query
  <2>2. skip \in Nat /\ limit \in Nat \ {0} /\ limit * limit \in Nat
    BY <2>1, NextSkip
  <2>3. \A y \in Asked : Place(y) \in Nat \ {0}
    BY <2>1, PlaceType
  <2>4. /\ seen \subseteq Asked
        /\ skip \in {0, limit} \/ skip >= limit * limit
        /\ \A y \in seen : Place(y) <= 2 * limit \/ Place(y) > limit * limit
        /\ found # None => found.rows = {y \in Asked : Place(y) \in skip + 1 .. skip + limit}
    BY DEF WInv, WalkStands
  <2> HIDE DEF limit, skip
  <2>5. CASE x \in seen
    BY <2>2, <2>3, <2>4, <2>5 DEF limit
  <2>6. CASE found # None /\ x \in found.rows
    <3>1. Place(x) \in Nat /\ Place(x) > skip /\ Place(x) <= skip + limit
      BY <2>2, <2>3, <2>4, <2>6
    <3>2. ~ (2 * limit < Place(x) /\ Place(x) <= limit * limit)
      BY <3>1, <2>2, <2>4
    <3> QED BY <3>2 DEF limit
  <2> QED BY <2>5, <2>6 DEF Shown
<1> QED BY <1>1, WalkInvariant, PTL

(* Whom a query means it asks for, if the query is taken.                  *)
LEMMA MeantAsked ==
    ASSUME TypeOK, query # None, Accepted(query.filter), KeepsMode(query.filter)
    PROVE  Meant \subseteq Asked
<1>1. query.filter \in Seq(Condition)
  BY DEF TypeOK, Query
<1> QED BY <1>1, NeverHides DEF Meant, Asked, Wire

(* A walk over a table left alone shows no row twice and leaves none out   *)
(* of the first two pages, for any rows, filter, order without ties and    *)
(* limit.                                                                  *)
THEOREM ShownOnce == Spec => EachOnce
<1> DEFINE P ==
      steady /\ query # None /\ Unique(query.sort) =>
        /\ pc = "find" /\ pc' = "count" /\ LimitOf(query.limit) > 1 => found'.rows \cap seen = {}
        /\ pc = "reading" /\ pc' = "idle" /\ found # None
           /\ KeepsMode(query.filter) /\ Cardinality(matched) <= 2 * LimitOf(query.limit)
           => Meant \subseteq Shown
<1>1. WInv /\ [Next]_vars => [P]_vars
  <2> SUFFICES ASSUME WInv, [Next]_vars, steady, query # None, Unique(query.sort)
               PROVE  P
    OBVIOUS
  <2> DEFINE limit == LimitOf(query.limit)
             skip == Skip(page, query.limit)
  <2>1. TypeOK /\ query.limit \in Nat /\ page \in Nat
    BY DEF WInv, IInv, TypeOK, Query
  <2>2. skip \in Nat /\ limit \in Nat \ {0} /\ (skip = 0 \/ skip >= limit)
    BY <2>1, NextSkip
  <2>3. Asked \in SUBSET Rows /\ \A y \in Asked : Place(y) \in Nat \ {0} /\ Place(y) <= Cardinality(Asked)
    BY <2>1, PlaceType DEF Asked, TypeOK
  <2>4. /\ seen \subseteq Asked
        /\ \A x \in Asked : Place(x) <= skip /\ Place(x) <= 2 * limit => x \in seen
        /\ limit > 1 => \A y \in seen : Place(y) <= skip
        /\ found # None => /\ matched = Asked
                           /\ found.rows = {x \in Asked : Place(x) \in skip + 1 .. skip + limit}
    BY DEF WInv, WalkStands
  <2>5. ASSUME pc = "find", pc' = "count", limit > 1
        PROVE  found'.rows \cap seen = {}
    <3>1. Find
      BY <2>5 DEF Next, Answering, Reading, Create, Delete, Ask, FindFails, Count, Paginate,
             PaginateFails, Follow, Stop, Over, vars
    <3>2. found'.rows = {x \in Asked : Place(x) \in skip + 1 .. skip + limit}
      BY <3>1, <2>1, FoundPage
    <3> HIDE DEF skip, limit
    <3> QED BY <3>2, <2>2, <2>3, <2>4, <2>5
  <2>6. ASSUME pc = "reading", pc' = "idle", found # None,
               KeepsMode(query.filter), Cardinality(matched) <= 2 * limit
        PROVE  Meant \subseteq Shown
    <3>1. Stop
      BY <2>6 DEF Next, Answering, Reading, Create, Delete, Ask, Find, FindFails, Count, Paginate,
             PaginateFails, Follow, vars
    <3>2. ~ HasNext
      <4>1. CurrentPage \in Nat
        BY <2>1, CurrentPageType
      <4>2. meta.next = IF HasNext THEN CurrentPage + 1 ELSE NoPage
        BY <2>6 DEF WInv, IInv, AnswerInvariant
      <4> QED BY <3>1, <4>1, <4>2 DEF Stop, NoPage
    <3>3. total = Cardinality(table)
      BY <2>6 DEF WInv, IInv, AnswerInvariant
    <3>4. Cardinality(Asked) \in Nat /\ Cardinality(table) \in Nat
          /\ Cardinality(Asked) <= Cardinality(table)
      <4>1. IsFiniteSet(table) /\ Asked \subseteq table
        BY <2>1, TableType DEF TypeOK, Asked
      <4> QED BY <4>1, <2>1, FS_Subset, FS_CardinalityType
    <3>5. skip = 0 => Cardinality(table) <= limit
      <4>1. skip = 0 => ~ (1 * limit < Cardinality(table))
        BY <3>2, <3>3 DEF HasNext, CurrentPage
      <4> HIDE DEF skip, limit
      <4> QED BY <4>1, <3>4, <2>2
    <3>6. ASSUME NEW x \in Asked
          PROVE  x \in Shown
      <4> HIDE DEF skip, limit
      <4>1. Place(x) \in Nat \ {0} /\ Place(x) <= 2 * limit /\ Place(x) <= skip + limit
        BY <2>2, <2>3, <2>4, <2>6, <3>4, <3>5
      <4>2. CASE Place(x) <= skip
        BY <4>1, <4>2, <2>4 DEF Shown
      <4>3. CASE Place(x) > skip
        <5>1. Place(x) \in skip + 1 .. skip + limit
          BY <4>1, <4>3, <2>2
        <5> QED BY <5>1, <2>4, <2>6 DEF Shown
      <4> QED BY <4>1, <4>2, <4>3, <2>2
    <3>7. Meant \subseteq Asked
      BY <2>1, <2>6, MeantAsked DEF WInv, IInv, AnswerInvariant
    <3> QED BY <3>6, <3>7
  <2> QED BY <2>5, <2>6
<1> QED BY <1>1, WalkInvariant, PTL DEF Spec, EachOnce
=============================================================================
