------------------------------- MODULE Search -------------------------------
(***************************************************************************)
(* How sqlGenericService.List turns "search" and "orderBy" into SQL: the   *)
(* builders, one action each, the statement they leave in the DAO, and the *)
(* rows that its two executions, Count and Fetch, take from the database.  *)
(*                                                                         *)
(* The tree of a search, as the TSL library parses it, maps positions to   *)
(* nodes: <<>> to its root, and p with i appended to the i-th argument of  *)
(* the operator at p.  The nodes below operators are identifiers, each the *)
(* sequence of its dotted parts, and values.  Every relation is one        *)
(* between the listed table and another one, as GORM finds it in the model *)
(* of a kind.                                                              *)
(***************************************************************************)
EXTENDS Naturals, Sequences, FiniteSets

CONSTANTS
    Table,        \* the table of the listed kind
    Data,         \* [table -> its rows]: a row maps columns to values
    Association,  \* [Go field -> [table, type, column, foreign]]
    Singular,     \* [Word -> Word], inflection.Singular of the capitalised word
    Plural,       \* [Word -> Word]
    Request,      \* [search, order, disallowed]: what is asked, of which kind
    Garbage,      \* a search that does not parse
    Null

ASSUME SearchAssumption ==
    /\ Table \in DOMAIN Data
    /\ \A a \in DOMAIN Association : Association[a].table \in DOMAIN Data
    /\ DOMAIN Data \subseteq STRING

\* The empty search is a tree without nodes.
NoSearch == [p \in {} |-> p]

\* The identifiers of a tree.
Idents(tree) == {tree[p].name : p \in {q \in DOMAIN tree : tree[q].func = "ident"}}

\* The TSL library's grammar makes an identifier of one or more parts.
ASSUME RequestAssumption ==
    \A r \in Request : r.search # Garbage =>
        /\ r.search = [p \in DOMAIN r.search |-> r.search[p]]
        /\ \A f \in Idents(r.search) : f \in Seq(STRING) /\ f # <<>>

VARIABLES
    request,
    pc,     \* the builder that runs next
    order,  \* ORDER BY
    where,  \* WHERE: a tree, or NoSearch
    joined, \* LEFT JOIN: the names whose relations are joined
    group,  \* GROUP BY: the tables whose ids are listed, {} for none
    total,  \* the rows that Count has found
    page,   \* the rows that Fetch has found: a set of joined rows
    code    \* 0, or the status of the reply

vars == <<request, pc, order, where, joined, group, total, page, code>>
-----------------------------------------------------------------------------
Ident(f) == [func |-> "ident", name |-> f]

\* The tree with other identifiers: what ident.Walk builds from what its
\* callback answers.
Renamed(tree, to) ==
    [p \in DOMAIN tree |-> IF tree[p].func = "ident" THEN Ident(to[tree[p].name]) ELSE tree[p]]

\* GetTableRelation: the model's field for a name, singular before plural;
\* has_one and many_to_many are not used.
HasRelation(name) ==
    LET field == IF Singular[name] \in DOMAIN Association
                 THEN Singular[name] ELSE Plural[name]
    IN  field \in DOMAIN Association /\ Association[field].type \in {"belongs_to", "has_many"}

Relation(name) ==
    IF Singular[name] \in DOMAIN Association
    THEN Association[Singular[name]] ELSE Association[Plural[name]]

\* treeWalkForRelatedTables: the names before a dot, other than the table's.
RelatedNames(tree) == {f[1] : f \in {g \in Idents(tree) : Len(g) > 1}} \ {Table}

WithTables(tree) ==
    Renamed(tree, [f \in Idents(tree) |->
        IF f[1] \in RelatedNames(tree) /\ Len(f) > 1
        THEN [f EXCEPT ![1] = Relation(@).table] ELSE f])

\* treeWalkForAddingTableName: free identifiers get the table of the kind.
Qualified(tree) ==
    Renamed(tree, [f \in Idents(tree) |-> IF Len(f) = 1 THEN <<Table, f[1]>> ELSE f])

\* Mutant of Allowed: the name is looked up as it stands, table and all.
AllowedWhole(f, disallowed) ==
    Len(f) <= 2 /\ ~(Len(f) = 1 /\ f[1] \in disallowed)

\* getField: at most a table and a column, the column not disallowed.
Allowed(f, disallowed) == Len(f) <= 2 /\ f[Len(f)] \notin disallowed

\* FieldNameWalk: an operator whose left side is "properties.<name>" gets the
\* JSON operator in its place; everything else is checked by Allowed.
Property(tree, p) ==
    /\ p # <<>> /\ p[Len(p)] = 1
    /\ tree[p].func = "ident" /\ tree[p].name[1] = "properties" /\ Len(tree[p].name) > 1

FieldNameWalk(tree) ==
    [p \in DOMAIN tree |-> IF Property(tree, p) THEN Ident(<<"properties->>">>) ELSE tree[p]]

\* cleanOrderBy: "<field>", or "<field> asc|desc".
CleanOrderBy(o, disallowed) ==
    /\ Len(o.words) \in {0, 1} /\ Allowed(o.field, disallowed)
    /\ o.words = <<>> \/ o.words[1] \in {"asc", "desc"}
-----------------------------------------------------------------------------
\* The database.  A joined row maps every table of the statement to one of its
\* rows, or to Null.
Live(t) == {r \in Data[t] : r["deleted_at"] = Null}

Partners(name, row) ==
    LET rel == Relation(name)
        found == {r \in Live(rel.table) : r[rel.foreign] = row[rel.column] /\ r[rel.foreign] # Null}
    IN  IF found = {} THEN {Null} ELSE found

Tables(names) == {Relation(n).table : n \in names}

JoinedRows(names) ==
    {tuple \in [{Table} \cup Tables(names) -> UNION {Data[t] : t \in DOMAIN Data} \cup {Null}] :
        /\ tuple[Table] \in Live(Table)
        /\ \A n \in names : tuple[Relation(n).table] \in Partners(n, tuple[Table])}

Columns(t) == DOMAIN (CHOOSE r \in Data[t] : TRUE)

\* The three truth values of SQL as 0, 1 (unknown) and 2.
Cell(n, tuple) ==
    IF n.func = "value" THEN n.value
    ELSE IF tuple[n.name[1]] = Null THEN Null ELSE tuple[n.name[1]][n.name[2]]

Equal(a, b) == IF a = Null \/ b = Null THEN 1 ELSE IF a = b THEN 2 ELSE 0

Highest(S) == CHOOSE x \in S : \A y \in S : y <= x
Lowest(S) == CHOOSE x \in S : \A y \in S : x <= y

Children(tree, p) ==
    {q \in DOMAIN tree : Len(q) = Len(p) + 1 /\ SubSeq(q, 1, Len(p)) = p}

Truth(tree, tuple) ==
    LET truth[p \in DOMAIN tree] ==
            LET first == Append(p, 1)
                left == Cell(tree[first], tuple)
                sides == {truth[q] : q \in Children(tree, p)}
            IN  CASE tree[p].func = "in" ->
                       Highest({Equal(left, Cell(tree[q], tuple)) :
                                   q \in Children(tree, p) \ {first}})
                  [] tree[p].func = "null" -> IF left = Null THEN 2 ELSE 0
                  [] tree[p].func = "not" -> 2 - truth[first]
                  [] tree[p].func = "and" -> Lowest(sides)
                  [] tree[p].func = "or" -> Highest(sides)
    IN  truth[<<>>]

\* Mutant of Selected: INNER JOIN.
SelectedInner(tree, names) ==
    {tuple \in JoinedRows(names) :
        /\ \A t \in DOMAIN tuple : tuple[t] # Null
        /\ tree = NoSearch \/ Truth(tree, tuple) = 2}

Selected(tree, names) ==
    {tuple \in JoinedRows(names) : tree = NoSearch \/ Truth(tree, tuple) = 2}

\* Every column named is one of a table of the statement.  A bare name in ORDER
\* BY means a column of the result, that is one of the listed table.
Resolves(f) ==
    IF Len(f) = 1 THEN f[1] \in Columns(Table)
    ELSE f[1] \in {Table} \cup Tables(joined) /\ f[2] \in Columns(f[1])

WhereFields == Idents(where)
OrderFields == {order[i] : i \in DOMAIN order}
OneJoinPerTable == Cardinality(Tables(joined)) = Cardinality(joined)
-----------------------------------------------------------------------------
\* newListContext.
Init ==
    /\ request \in Request
    /\ pc = "order"
    /\ order = <<>> /\ where = NoSearch /\ joined = {} /\ group = {}
    /\ total = 0 /\ page = {} /\ code = 0

Refuse(status) == code' = status /\ pc' = "done"

\* buildOrderBy with ArgsToOrderBy.
BuildOrderBy ==
    /\ pc = "order"
    /\ IF \A i \in DOMAIN request.order : CleanOrderBy(request.order[i], request.disallowed)
       THEN /\ order' = [i \in DOMAIN request.order |-> request.order[i].field]
            /\ pc' = "search"
            /\ UNCHANGED code
       ELSE Refuse(400) /\ UNCHANGED order
    /\ UNCHANGED <<request, where, joined, group, total, page>>

\* buildSearchValues: nothing to search for, or nothing that can be parsed.
NothingToSearch ==
    /\ pc = "search" /\ request.search \in {NoSearch, Garbage}
    /\ IF request.search = Garbage THEN Refuse(400) ELSE pc' = "count" /\ UNCHANGED code
    /\ UNCHANGED <<request, order, where, joined, group, total, page>>

Tree == request.search

\* buildSearchValues: a name is of no related resource, or a field not allowed.
RefuseSearch ==
    /\ pc = "search" /\ Tree \notin {NoSearch, Garbage}
    /\ \/ \E n \in RelatedNames(Tree) : ~HasRelation(n)
       \/ /\ \A n \in RelatedNames(Tree) : HasRelation(n)
          /\ \E f \in Idents(FieldNameWalk(Qualified(WithTables(Tree)))) :
                ~Allowed(f, request.disallowed)
    /\ Refuse(400)
    /\ UNCHANGED <<request, order, where, joined, group, total, page>>

\* The names addJoins takes: of those with the same table, one, whichever the
\* iteration over the map meets first.
OneOfEach(names) ==
    {some \in SUBSET names :
        /\ Tables(some) = Tables(names)
        /\ Cardinality(some) = Cardinality(Tables(names))}

\* Mutant of AddJoins: two names of one table are two joins.
AddJoinsEach(names) ==
    /\ joined' = names
    /\ group' = IF names = {} THEN {} ELSE {Table} \cup Tables(names)

\* Mutant of AddJoins: one row of the result for one of the listed table.
AddJoinsGroupedByRow(names) ==
    /\ joined' \in OneOfEach(names)
    /\ group' = IF names = {} THEN {} ELSE {Table}

\* addJoins: LEFT JOINs, and GROUP BY every id.
AddJoins(names) ==
    /\ joined' \in OneOfEach(names)
    /\ group' = IF names = {} THEN {} ELSE {Table} \cup Tables(names)

\* buildSearch with buildSearchValues.
BuildSearch ==
    /\ pc = "search" /\ Tree \notin {NoSearch, Garbage}
    /\ \A n \in RelatedNames(Tree) : HasRelation(n)
    /\ LET tree == FieldNameWalk(Qualified(WithTables(Tree)))
       IN  /\ \A f \in Idents(tree) : Allowed(f, request.disallowed)
           /\ where' = tree
    /\ AddJoins(RelatedNames(Tree))
    /\ pc' = "count"
    /\ UNCHANGED <<request, order, total, page, code>>

\* Count: the joins and the WHERE, without the GROUP BY; an error is dropped.
Count ==
    /\ pc = "count"
    /\ total' = IF OneJoinPerTable /\ \A f \in WhereFields : Resolves(f)
                THEN Cardinality(Selected(where, joined)) ELSE 0
    /\ pc' = "fetch"
    /\ UNCHANGED <<request, order, where, joined, group, page, code>>

\* Fetch: GROUP BY makes one row of the joined rows that agree on its ids.
Fetch ==
    /\ pc = "fetch"
    /\ IF OneJoinPerTable /\ \A f \in WhereFields \cup OrderFields : Resolves(f)
       THEN /\ page' = {[t \in (IF group = {} THEN {Table} ELSE group) |-> tuple[t]] :
                           tuple \in Selected(where, joined)}
            /\ code' = 200
       ELSE code' = 500 /\ UNCHANGED page
    /\ pc' = "done"
    /\ UNCHANGED <<request, order, where, joined, group, total>>

Next == BuildOrderBy \/ NothingToSearch \/ RefuseSearch \/ BuildSearch \/ Count \/ Fetch

Spec == Init /\ [][Next]_vars
-----------------------------------------------------------------------------
\* A field that the kind disallows reaches no statement, however deep in the
\* search, on whichever side and with whichever prefix it is written, nor by
\* orderBy ("disallowed fields should be rejected", generic_test.go:35).
DisallowedNeverReaches ==
    \A f \in WhereFields \cup OrderFields : f[Len(f)] \notin request.disallowed

\* What a search says, read without SQL: a row of the table is listed if some
\* choice of one live partner in each relation named makes the search true.
Meant(tree) ==
    Renamed(tree, [f \in Idents(tree) |->
        IF Len(f) = 1 THEN <<Table, f[1]>>
        ELSE IF f[1] = Table THEN f ELSE <<Relation(f[1]).table, f[2]>>])

Chosen ==
    LET names == RelatedNames(Tree)
    IN  {CHOOSE n \in names : Relation(n).table = t : t \in Tables(names)}

Says(row) ==
    \E tuple \in JoinedRows(Chosen) : tuple[Table] = row /\ Truth(Meant(Tree), tuple) = 2

\* A list that is delivered has the rows that its search describes, no more and
\* no fewer, whatever relations and names it goes through.
SearchSelects ==
    code = 200 =>
        {tuple[Table] : tuple \in page} =
            {row \in Live(Table) : Tree = NoSearch \/ Says(row)}

\* Total, which Count takes without the GROUP BY, is the number of rows Fetch
\* would deliver without a limit: a row with several partners counts as often
\* as it is delivered.
TotalIsFetched == code = 200 => total = Cardinality(page)

\* A search of fields that exist is never what a statement fails on: the names
\* of related resources are replaced, joined once each, and the rest qualified.
\* What is left is an orderBy of a table that the search does not bring in.
FailsOnNamesOnly ==
    code = 500 =>
        \/ \E f \in OrderFields : ~Resolves(f)
        \/ \E f \in WhereFields : f[2] \notin Columns(f[1])
=============================================================================
