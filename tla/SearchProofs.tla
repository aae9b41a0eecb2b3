---------------------------- MODULE SearchProofs ----------------------------
(***************************************************************************)
(* Theorems about Search, for all tables, relations, searches and orders.  *)
(*                                                                         *)
(* The invariant keeps what each builder leaves to the ones after it: the  *)
(* tree and the joins are those of the search (Built), and the numbers are *)
(* those of the statement (CountedOK, FetchedOK).  The rest is what the    *)
(* operators compute: the tree for SQL is the tree that the search means   *)
(* (SqlIsMeant), the rows joined depend on the tables only                 *)
(* (SameTablesSameRows), and grouping by every id groups nothing           *)
(* (GroupsAreRows).                                                        *)
(***************************************************************************)
EXTENDS Search, SequenceTheorems, TLAPS

\* What the three walks make of a tree.
Sql(tree) == FieldNameWalk(Qualified(WithTables(tree)))

\* No kind is called Property: its table's name would be that of the JSON column.
NoPropertiesTable == "properties" \notin DOMAIN Data

\* No kind has two relations to one table that differ in how they join it.
OneRelationPerTable ==
    \A a, b \in DOMAIN Association : Association[a].table = Association[b].table =>
        /\ Association[a].column = Association[b].column
        /\ Association[a].foreign = Association[b].foreign

Unbuilt == where = NoSearch /\ joined = {} /\ group = {}

Built ==
    /\ \A n \in RelatedNames(Tree) : HasRelation(n)
    /\ where = Sql(Tree)
    /\ \A f \in Idents(where) : Allowed(f, request.disallowed)
    /\ joined \in OneOfEach(RelatedNames(Tree))
    /\ group = IF RelatedNames(Tree) = {} THEN {} ELSE {Table} \cup Tables(RelatedNames(Tree))

StageOK ==
    /\ request \in Request
    /\ pc \in {"order", "search", "count", "fetch", "done"}
    /\ code = 0 <=> pc # "done"
    /\ code \in {0, 200, 400, 500}

OrderOK == \A f \in OrderFields : f[Len(f)] \notin request.disallowed

StatementOK ==
    /\ pc \in {"order", "search"} \/ code = 400 => Unbuilt
    /\ pc \in {"count", "fetch"} \/ code \in {200, 500} =>
          \/ Tree = NoSearch /\ Unbuilt
          \/ Tree \notin {NoSearch, Garbage} /\ Built

\* Every name in the statement is one that the database can resolve.
Runs(fields) == OneJoinPerTable /\ \A f \in fields : Resolves(f)

CountedOK ==
    pc = "fetch" \/ code = 200 =>
        (Runs(WhereFields) => total = Cardinality(Selected(where, joined)))

FetchedOK ==
    /\ code = 200 =>
          /\ Runs(WhereFields \cup OrderFields)
          /\ page = {[t \in (IF group = {} THEN {Table} ELSE group) |-> tuple[t]] :
                        tuple \in Selected(where, joined)}
    /\ code = 500 => ~Runs(WhereFields \cup OrderFields)

IInv == StageOK /\ OrderOK /\ StatementOK /\ CountedOK /\ FetchedOK
-----------------------------------------------------------------------------
LEMMA IInvInitially == Init => IInv
<1> SUFFICES ASSUME Init PROVE IInv
  OBVIOUS
<1>1. OrderFields = {}
  BY DEF Init, OrderFields
<1> QED BY <1>1 DEF Init, IInv, StageOK, OrderOK, StatementOK, CountedOK, FetchedOK, Unbuilt

LEMMA StageKept == StageOK /\ [Next]_vars => StageOK'
  BY DEF StageOK, Next, vars, BuildOrderBy, NothingToSearch, RefuseSearch, BuildSearch,
     Count, Fetch, Refuse

LEMMA OrderKept == OrderOK /\ [Next]_vars => OrderOK'
<1> SUFFICES ASSUME OrderOK, [Next]_vars PROVE OrderOK'
  OBVIOUS
<1>1. ASSUME BuildOrderBy, \A i \in DOMAIN request.order :
                              CleanOrderBy(request.order[i], request.disallowed),
             order' = [i \in DOMAIN request.order |-> request.order[i].field]
      PROVE  OrderOK'
  BY <1>1 DEF BuildOrderBy, OrderOK, OrderFields, CleanOrderBy, Allowed
<1>2. CASE UNCHANGED <<request, order>>
  BY <1>2 DEF OrderOK, OrderFields
<1> QED BY <1>1, <1>2 DEF Next, vars, BuildOrderBy, NothingToSearch, RefuseSearch,
           BuildSearch, Count, Fetch

LEMMA StatementKept == StageOK /\ StatementOK /\ [Next]_vars => StatementOK'
<1> SUFFICES ASSUME StageOK, StatementOK, [Next]_vars PROVE StatementOK'
  OBVIOUS
<1> USE DEF StatementOK, StageOK, Unbuilt, Built, Tree
<1>1. CASE BuildOrderBy
  BY <1>1 DEF BuildOrderBy, Refuse
<1>2. CASE NothingToSearch
  BY <1>2 DEF NothingToSearch, Refuse
<1>3. CASE RefuseSearch
  BY <1>3 DEF RefuseSearch, Refuse
<1>4. CASE BuildSearch
  BY <1>4 DEF BuildSearch, AddJoins, Sql
<1>5. CASE Count
  BY <1>5 DEF Count
<1>6. CASE Fetch
  BY <1>6 DEF Fetch
<1>7. CASE UNCHANGED vars
  BY <1>7 DEF vars
<1> QED BY <1>1, <1>2, <1>3, <1>4, <1>5, <1>6, <1>7 DEF Next

LEMMA NumbersKept == StageOK /\ CountedOK /\ FetchedOK /\ [Next]_vars => CountedOK' /\ FetchedOK'
<1> SUFFICES ASSUME StageOK, CountedOK, FetchedOK, [Next]_vars
             PROVE  CountedOK' /\ FetchedOK'
  OBVIOUS
<1> USE DEF StageOK, CountedOK, FetchedOK
<1>1. CASE BuildOrderBy \/ NothingToSearch \/ RefuseSearch \/ BuildSearch
  BY <1>1 DEF BuildOrderBy, NothingToSearch, RefuseSearch, BuildSearch, Refuse
<1>2. UNCHANGED <<where, joined, order>> =>
         /\ \A f : Resolves(f)' <=> Resolves(f)
         /\ OneJoinPerTable' <=> OneJoinPerTable
         /\ WhereFields' = WhereFields /\ OrderFields' = OrderFields
  BY DEF Resolves, OneJoinPerTable, WhereFields, OrderFields
<1>3. CASE Count
  BY <1>2, <1>3 DEF Count, Runs
<1>4. CASE Fetch
  <2>1. UNCHANGED <<where, joined, group, order, total>> /\ pc = "fetch" /\ pc' = "done"
    BY <1>4 DEF Fetch
  <2>2. CountedOK'
    BY <1>2, <2>1 DEF Runs
  <2>3. Runs(WhereFields \cup OrderFields)' <=> Runs(WhereFields \cup OrderFields)
    BY <1>2, <2>1 DEF Runs
  <2>4. CASE Runs(WhereFields \cup OrderFields)
    BY <1>4, <2>1, <2>3, <2>4 DEF Fetch, Runs
  <2>5. CASE ~Runs(WhereFields \cup OrderFields)
    BY <1>4, <2>3, <2>5 DEF Fetch, Runs
  <2> QED BY <2>2, <2>4, <2>5
<1>5. CASE UNCHANGED vars
  <2>1. UNCHANGED <<where, joined, group, order, total, page, pc, code>>
    BY <1>5 DEF vars
  <2>2. CountedOK'
    BY <1>2, <2>1 DEF Runs
  <2>3. Runs(WhereFields \cup OrderFields)' <=> Runs(WhereFields \cup OrderFields)
    BY <1>2, <2>1 DEF Runs
  <2> QED BY <2>1, <2>2, <2>3
<1> QED BY <1>1, <1>3, <1>4, <1>5 DEF Next

LEMMA IInvAlways == Spec => []IInv
<1>1. IInv /\ [Next]_vars => IInv'
  BY StageKept, OrderKept, StatementKept, NumbersKept DEF IInv
<1> QED BY <1>1, IInvInitially, PTL DEF Spec
-----------------------------------------------------------------------------
\* The three walks look at every identifier, and no field passes getField but
\* as it goes into the statement: for any search, kind and relations.
THEOREM DisallowedNeverReachesHolds == Spec => []DisallowedNeverReaches
<1>1. IInv => DisallowedNeverReaches
  <2>1. Idents(NoSearch) = {}
    BY DEF Idents, NoSearch
  <2>2. ASSUME IInv PROVE \A f \in WhereFields : f[Len(f)] \notin request.disallowed
    <3>1. CASE Unbuilt
      BY <2>1, <3>1 DEF Unbuilt, WhereFields
    <3>2. CASE Built
      BY <3>2 DEF Built, WhereFields, Allowed
    <3> QED BY <2>2, <3>1, <3>2 DEF IInv, StageOK, StatementOK
  <2> QED BY <2>2 DEF IInv, OrderOK, DisallowedNeverReaches
<1> QED BY <1>1, IInvAlways, PTL
-----------------------------------------------------------------------------
\* addJoins joins every table once, and no other.
LEMMA JoinedTables ==
    ASSUME Built \/ Unbuilt
    PROVE  /\ OneJoinPerTable
           /\ Built => /\ joined \subseteq RelatedNames(Tree)
                       /\ Tables(joined) = Tables(RelatedNames(Tree))
           /\ {Table} \cup Tables(joined) = IF group = {} THEN {Table} ELSE group
<1>1. Tables({}) = {}
  BY DEF Tables
<1>2. CASE Unbuilt /\ ~Built
  BY <1>1, <1>2 DEF Unbuilt, OneJoinPerTable
<1>3. CASE Built
  <2>1. /\ joined \subseteq RelatedNames(Tree) /\ Tables(joined) = Tables(RelatedNames(Tree))
        /\ Cardinality(joined) = Cardinality(Tables(RelatedNames(Tree)))
    BY <1>3 DEF Built, OneOfEach
  <2> QED BY <1>1, <1>3, <2>1 DEF Built, OneJoinPerTable
<1> QED BY <1>2, <1>3

\* GROUP BY every id makes one row of each joined row.
LEMMA GroupsAreRows ==
    ASSUME Built \/ Unbuilt
    PROVE  {[t \in (IF group = {} THEN {Table} ELSE group) |-> tuple[t]] :
                tuple \in Selected(where, joined)} = Selected(where, joined)
<1> DEFINE G == {Table} \cup Tables(joined)
<1>1. (IF group = {} THEN {Table} ELSE group) = G
  BY JoinedTables
<1>2. ASSUME NEW tuple \in Selected(where, joined)
      PROVE  [t \in G |-> tuple[t]] = tuple
  BY DEF Selected, JoinedRows
<1> HIDE DEF G
<1>3. {[t \in G |-> tuple[t]] : tuple \in Selected(where, joined)} = Selected(where, joined)
  BY <1>2
<1> QED BY <1>1, <1>3

\* Count and Fetch see the same rows, since the groups are the joined rows.
THEOREM TotalIsFetchedHolds == Spec => []TotalIsFetched
<1>1. IInv => TotalIsFetched
  <2> SUFFICES ASSUME IInv, code = 200 PROVE total = Cardinality(page)
    BY DEF TotalIsFetched
  <2>1. Built \/ Unbuilt
    BY DEF IInv, StatementOK
  <2>2. page = Selected(where, joined)
    BY <2>1, GroupsAreRows DEF IInv, FetchedOK
  <2>3. total = Cardinality(Selected(where, joined))
    BY DEF IInv, CountedOK, FetchedOK, Runs
  <2> QED BY <2>2, <2>3
<1> QED BY <1>1, IInvAlways, PTL
-----------------------------------------------------------------------------
LEMMA Numbers ==
    \A n \in Nat : (n > 1 => n # 1) /\ (n # 0 /\ n # 1 => n > 1) /\ (n > 1 /\ n <= 2 => n = 2)
  OBVIOUS

LEMMA FirstReplaced ==
    ASSUME NEW S, NEW f \in Seq(S), f # <<>>, NEW t \in S
    PROVE  /\ [f EXCEPT ![1] = t] \in Seq(S)
           /\ Len([f EXCEPT ![1] = t]) = Len(f)
           /\ [f EXCEPT ![1] = t][1] = t
           /\ Len(f) = 2 => [f EXCEPT ![1] = t] = <<t, f[2]>>
<1> DEFINE g == [f EXCEPT ![1] = t]
<1>1. Len(f) \in Nat \ {0} /\ 1 \in 1..Len(f)
  OBVIOUS
<1>2. g \in Seq(S) /\ Len(g) = Len(f) /\ \A i \in 1..Len(f) : g[i] = IF i = 1 THEN t ELSE f[i]
  BY <1>1, ExceptSeq
<1>3. ASSUME Len(f) = 2 PROVE g = <<t, f[2]>>
  <2>1. 1 \in 1..Len(f) /\ 2 \in 1..Len(f)
    BY <1>3
  <2>2. f[2] \in S /\ g[1] = t /\ g[2] = f[2]
    BY <1>2, <2>1
  <2>3. <<t, f[2]>> \in Seq(S)
    BY <2>2
  <2> HIDE DEF g
  <2> QED BY <1>2, <1>3, <2>2, <2>3, SeqEqual
<1> QED BY <1>1, <1>2, <1>3

\* A search that passes is left with names of two parts, the first of which is a
\* table of the statement: what a reader takes the search for.
LEMMA SqlIsMeant ==
    ASSUME NoPropertiesTable, NEW tree, NEW disallowed, NEW S, DOMAIN Data \subseteq S,
           \A f \in Idents(tree) : f \in Seq(S) /\ f # <<>>,
           \A n \in RelatedNames(tree) : HasRelation(n),
           \A f \in Idents(Sql(tree)) : Allowed(f, disallowed)
    PROVE  /\ Sql(tree) = Meant(tree)
           /\ \A f \in Idents(Sql(tree)) :
                 f[1] \in {Table} \cup Tables(RelatedNames(tree)) /\ Len(f) = 2
<1> DEFINE W == WithTables(tree)
           Q == Qualified(W)
           w(f) == IF f[1] \in RelatedNames(tree) /\ Len(f) > 1
                   THEN [f EXCEPT ![1] = Relation(@).table] ELSE f
           q(f) == IF Len(f) = 1 THEN <<Table, f[1]>> ELSE f
           m(f) == IF Len(f) = 1 THEN <<Table, f[1]>>
                   ELSE IF f[1] = Table THEN f ELSE <<Relation(f[1]).table, f[2]>>
           T == {Table} \cup Tables(RelatedNames(tree))
<1>1. T \subseteq DOMAIN Data /\ T \subseteq S
  BY SearchAssumption DEF Tables, HasRelation, Relation
<1>2. ASSUME NEW f \in Idents(tree)
      PROVE  /\ q(w(f))[1] \in T
             /\ Len(q(w(f))) <= 2 => Len(q(w(f))) = 2 /\ q(w(f)) = m(f)
  <2>1. f \in Seq(S) /\ f # <<>>
    BY <1>2
  <2>2. Len(f) \in Nat /\ Len(f) # 0
    BY <2>1
  <2>3. /\ Len(f) > 1 => Len(f) # 1
        /\ Len(f) # 1 => Len(f) > 1
        /\ Len(f) > 1 /\ Len(f) <= 2 => Len(f) = 2
    BY <2>2, Numbers, Zenon
  <2>4. CASE Len(f) = 1
    <3>1. q(w(f)) = <<Table, f[1]>> /\ m(f) = <<Table, f[1]>>
      BY <2>4
    <3> HIDE DEF q, w, m
    <3> QED BY <3>1
  <2>5. CASE Len(f) > 1 /\ f[1] = Table
    <3>1. f[1] \notin RelatedNames(tree)
      BY <2>5 DEF RelatedNames
    <3>2. w(f) = f
      BY <3>1
    <3>3. q(f) = f /\ m(f) = f
      BY <2>3, <2>5, Zenon
    <3>4. q(w(f)) = f /\ f[1] \in T
      BY <2>5, <3>2, <3>3 DEF T
    <3> HIDE DEF q, w, m
    <3> QED BY <2>3, <2>5, <3>3, <3>4, Zenon
  <2>6. CASE Len(f) > 1 /\ f[1] # Table
    <3> DEFINE t == Relation(f[1]).table
               g == [f EXCEPT ![1] = t]
    <3>1. f[1] \in RelatedNames(tree)
      BY <1>2, <2>6 DEF RelatedNames
    <3>2. t \in T
      BY <3>1 DEF Tables
    <3>3. w(f) = g
      BY <2>6, <3>1
    <3>4. m(f) = <<t, f[2]>>
      BY <2>3, <2>6, Zenon
    <3>5. t \in S
      BY <1>1, <3>2
    <3> HIDE DEF t
    <3>6. Len(g) = Len(f) /\ g[1] = t /\ (Len(f) = 2 => g = <<t, f[2]>>)
      BY <2>1, <3>5, FirstReplaced
    <3> HIDE DEF g
    <3>7. q(g) = g
      BY <2>3, <2>6, <3>6, Zenon
    <3> HIDE DEF w, q, m
    <3> QED BY <2>3, <2>6, <3>2, <3>3, <3>4, <3>6, <3>7, Zenon
  <2> QED BY <2>3, <2>4, <2>5, <2>6, Zenon
<1>3. DOMAIN W = DOMAIN tree /\ DOMAIN Q = DOMAIN tree /\ DOMAIN Sql(tree) = DOMAIN tree
      /\ DOMAIN Meant(tree) = DOMAIN tree
  BY DEF WithTables, Qualified, Renamed, Sql, Meant, FieldNameWalk
<1>4. ASSUME NEW p \in DOMAIN tree, tree[p].func # "ident"
      PROVE  Sql(tree)[p] = tree[p] /\ Meant(tree)[p] = tree[p]
  BY <1>3, <1>4 DEF WithTables, Qualified, Renamed, Sql, Meant, FieldNameWalk, Property
<1>5. ASSUME NEW p \in DOMAIN tree, tree[p].func = "ident"
      PROVE  /\ tree[p].name \in Idents(tree)
             /\ Sql(tree)[p] = Ident(q(w(tree[p].name)))
             /\ Meant(tree)[p] = Ident(m(tree[p].name))
  <2>1. tree[p].name \in Idents(tree)
    BY <1>5 DEF Idents
  <2>2. W[p] = Ident(w(tree[p].name))
    BY <1>5, <2>1 DEF WithTables, Renamed, w
  <2>3. w(tree[p].name) \in Idents(W)
    BY <1>3, <2>2 DEF Idents, Ident
  <2>4. Q[p] = Ident(q(w(tree[p].name)))
    <3>1. /\ W[p].func = "ident" /\ W[p].name = w(tree[p].name)
          /\ p \in DOMAIN W
      BY <1>3, <2>2 DEF Ident
    <3> HIDE DEF W
    <3>2. W[p].name \in Idents(W)
      BY <2>3, <3>1
    <3>3. Q[p] = Ident(q(W[p].name))
      BY <3>1, <3>2 DEF Qualified, Renamed, q
    <3> QED BY <3>1, <3>3
  <2>5. Q[p].name[1] # "properties"
    <3>1. Q[p].name = q(w(tree[p].name))
      BY <2>4 DEF Ident
    <3>2. Q[p].name[1] \in T
      BY <1>2, <2>1, <3>1, Zenon
    <3>3. Q[p].name[1] \in DOMAIN Data
      BY <1>1, <3>2
    <3> QED BY <3>3 DEF NoPropertiesTable
  <2>6. Sql(tree)[p] = Q[p]
    BY <1>3, <2>5 DEF Sql, FieldNameWalk, Property
  <2>7. Meant(tree)[p] = Ident(m(tree[p].name))
    BY <1>5, <2>1 DEF Meant, Renamed, m
  <2> QED BY <2>1, <2>4, <2>6, <2>7
<1>6. ASSUME NEW p \in DOMAIN tree, tree[p].func = "ident"
      PROVE  /\ Sql(tree)[p] = Meant(tree)[p]
             /\ Sql(tree)[p].name[1] \in T /\ Len(Sql(tree)[p].name) = 2
  <2>1. Sql(tree)[p].name \in Idents(Sql(tree)) /\ Sql(tree)[p].name = q(w(tree[p].name))
    BY <1>3, <1>5, <1>6 DEF Idents, Ident
  <2>2. Len(q(w(tree[p].name))) <= 2
    BY <2>1 DEF Allowed
  <2>3. tree[p].name \in Idents(tree) /\ q(w(tree[p].name)) = m(tree[p].name)
    BY <1>2, <1>5, <1>6, <2>2, Zenon
  <2>4. Sql(tree)[p] = Meant(tree)[p]
    <3>1. /\ Sql(tree)[p] = Ident(q(w(tree[p].name)))
          /\ Meant(tree)[p] = Ident(m(tree[p].name))
      BY <1>5, <1>6
    <3> QED BY <2>3, <3>1
  <2>5. q(w(tree[p].name))[1] \in T /\ Len(q(w(tree[p].name))) = 2
    BY <1>2, <2>2, <2>3, Zenon
  <2>6. Sql(tree)[p].name[1] \in T
    BY <2>1, <2>5
  <2>7. Len(Sql(tree)[p].name) = 2
    BY <2>1, <2>5
  <2> QED BY <2>4, <2>6, <2>7
<1>7. Sql(tree) = Meant(tree)
  <2>1. \A p \in DOMAIN tree : Sql(tree)[p] = Meant(tree)[p]
    BY <1>4, <1>6
  <2> QED BY <1>3, <2>1 DEF Sql, FieldNameWalk, Meant, Renamed
<1>8. ASSUME NEW f \in Idents(Sql(tree)) PROVE f[1] \in T /\ Len(f) = 2
  BY <1>3, <1>4, <1>6 DEF Idents
<1> QED BY <1>7, <1>8 DEF T

\* Which of the names of one table is joined makes no difference to the rows.
LEMMA SameTablesSameRows ==
    ASSUME OneRelationPerTable, NEW A, NEW B, \A n \in A \cup B : HasRelation(n),
           Tables(A) = Tables(B)
    PROVE  JoinedRows(A) = JoinedRows(B)
<1>1. ASSUME NEW a \in A \cup B, NEW b \in A \cup B, Relation(a).table = Relation(b).table,
             NEW row
      PROVE  Partners(a, row) = Partners(b, row)
  <2>1. Relation(a).column = Relation(b).column /\ Relation(a).foreign = Relation(b).foreign
    BY <1>1 DEF OneRelationPerTable, HasRelation, Relation
  <2> QED BY <1>1, <2>1 DEF Partners
<1>2. ASSUME NEW tuple
      PROVE  (\A n \in A : tuple[Relation(n).table] \in Partners(n, tuple[Table]))
             <=> (\A n \in B : tuple[Relation(n).table] \in Partners(n, tuple[Table]))
  <2>1. ASSUME NEW a \in A PROVE \E b \in B : Relation(b).table = Relation(a).table
    BY DEF Tables
  <2>2. ASSUME NEW b \in B PROVE \E a \in A : Relation(a).table = Relation(b).table
    BY DEF Tables
  <2>3. \A a \in A, b \in B : Relation(a).table = Relation(b).table
                               => Partners(a, tuple[Table]) = Partners(b, tuple[Table])
    BY <1>1
  <2> QED BY <2>1, <2>2, <2>3
<1> QED BY <1>2 DEF JoinedRows

\* A search that is run selects with the tree it means, from the rows it means.
LEMMA SelectsAsMeant ==
    ASSUME NoPropertiesTable, OneRelationPerTable, StageOK, Built, Tree \notin {NoSearch, Garbage}
    PROVE  \A row : Says(row) <=> \E tuple \in Selected(where, joined) : tuple[Table] = row
<1>1. /\ Tree = [p \in DOMAIN Tree |-> Tree[p]]
      /\ \A f \in Idents(Tree) : f \in Seq(STRING) /\ f # <<>>
  BY RequestAssumption DEF StageOK, Tree
<1>2. where = Meant(Tree)
  <2>1. \A f \in Idents(Sql(Tree)) : Allowed(f, request.disallowed)
    BY DEF Built
  <2>2. Sql(Tree) = Meant(Tree)
    BY <1>1, <2>1, SqlIsMeant, SearchAssumption, Zenon DEF Built
  <2> QED BY <2>2 DEF Built
<1>3. where # NoSearch
  <2>1. DOMAIN where = DOMAIN Tree
    BY <1>2 DEF Meant, Renamed
  <2>2. DOMAIN Tree # {}
    BY <1>1 DEF NoSearch
  <2> QED BY <2>1, <2>2 DEF NoSearch
<1>4. JoinedRows(joined) = JoinedRows(Chosen)
  <2>1. Chosen \subseteq RelatedNames(Tree) /\ Tables(Chosen) = Tables(RelatedNames(Tree))
    <3> DEFINE names == RelatedNames(Tree)
               pick(t) == CHOOSE n \in names : Relation(n).table = t
    <3>1. ASSUME NEW t \in Tables(names)
          PROVE  pick(t) \in names /\ Relation(pick(t)).table = t
      <4>1. \E n \in names : Relation(n).table = t
        BY DEF Tables
      <4> QED BY <4>1
    <3>2. Chosen = {pick(t) : t \in Tables(names)}
      BY DEF Chosen
    <3> HIDE DEF pick, names
    <3>3. Chosen \subseteq names /\ Tables(Chosen) = Tables(names)
      <4>1. ASSUME NEW t \in Tables(names) PROVE t \in Tables(Chosen)
        BY <3>1, <3>2 DEF Tables
      <4>2. ASSUME NEW t \in Tables(Chosen) PROVE t \in Tables(names)
        <5>1. PICK n \in Chosen : t = Relation(n).table
          BY DEF Tables
        <5> QED BY <3>1, <3>2, <5>1
      <4> QED BY <3>1, <3>2, <4>1, <4>2
    <3> QED BY <3>3 DEF names
  <2> QED BY <2>1, JoinedTables, SameTablesSameRows DEF Built
<1> QED BY <1>2, <1>3, <1>4 DEF Says, Selected

\* The rows that a delivered list has are those its search describes, for any
\* tables, relations and search.
THEOREM SearchSelectsHolds ==
    ASSUME NoPropertiesTable, OneRelationPerTable
    PROVE  Spec => []SearchSelects
<1>1. IInv => SearchSelects
  <2> SUFFICES ASSUME IInv, code = 200
               PROVE  {tuple[Table] : tuple \in page} =
                          {row \in Live(Table) : Tree = NoSearch \/ Says(row)}
    BY DEF SearchSelects
  <2>1. (Tree = NoSearch /\ Unbuilt) \/ (Tree \notin {NoSearch, Garbage} /\ Built)
    BY DEF IInv, StatementOK
  <2>2. page = Selected(where, joined)
    BY <2>1, GroupsAreRows DEF IInv, FetchedOK
  <2>3. \A tuple \in Selected(where, joined) : tuple[Table] \in Live(Table)
    BY DEF Selected, JoinedRows
  <2>4. CASE Tree = NoSearch /\ Unbuilt
    <3>1. ASSUME NEW row \in Live(Table)
          PROVE  \E tuple \in Selected(where, joined) : tuple[Table] = row
      <4> DEFINE one == [t \in {Table} |-> row]
      <4>1. Tables({}) = {}
        BY DEF Tables
      <4>2. row \in UNION {Data[t] : t \in DOMAIN Data}
        BY SearchAssumption DEF Live
      <4>3. one \in JoinedRows({})
        BY <4>1, <4>2 DEF JoinedRows
      <4>4. one \in Selected(where, joined)
        BY <2>4, <4>3 DEF Selected, Unbuilt
      <4> QED BY <4>4
    <3> QED BY <2>2, <2>3, <2>4, <3>1
  <2>5. CASE Tree \notin {NoSearch, Garbage} /\ Built
    <3>1. \A row : Says(row) <=> \E tuple \in Selected(where, joined) : tuple[Table] = row
      BY <2>5, SelectsAsMeant DEF IInv
    <3> QED BY <2>2, <2>3, <2>5, <3>1
  <2> QED BY <2>1, <2>4, <2>5
<1> QED BY <1>1, IInvAlways, PTL

\* No statement fails on a name that a walk has written, or on a table joined
\* twice: for any tables, relations and search.
THEOREM FailsOnNamesOnlyHolds ==
    ASSUME NoPropertiesTable
    PROVE  Spec => []FailsOnNamesOnly
<1>1. IInv => FailsOnNamesOnly
  <2> SUFFICES ASSUME IInv, code = 500, NEW f \in WhereFields, ~Resolves(f)
               PROVE  f[2] \notin Columns(f[1])
    <3>1. ASSUME IInv, code = 500 PROVE OneJoinPerTable
      BY <3>1, JoinedTables DEF IInv, StatementOK
    <3> QED BY <3>1 DEF IInv, FetchedOK, Runs, FailsOnNamesOnly
  <2>1. Tree \notin {NoSearch, Garbage} /\ Built
    <3>1. Idents(NoSearch) = {}
      BY DEF Idents, NoSearch
    <3> QED BY <3>1 DEF IInv, StatementOK, Unbuilt, WhereFields
  <2>2. \A g \in Idents(Tree) : g \in Seq(STRING) /\ g # <<>>
    BY <2>1, RequestAssumption DEF IInv, StageOK, Tree
  <2>3. f[1] \in {Table} \cup Tables(RelatedNames(Tree)) /\ Len(f) = 2
    <3>1. f \in Idents(Sql(Tree)) /\ \A g \in Idents(Sql(Tree)) : Allowed(g, request.disallowed)
      BY <2>1 DEF Built, WhereFields
    <3> QED BY <2>1, <2>2, <3>1, SqlIsMeant, SearchAssumption, Zenon DEF Built
  <2>4. f[1] \in {Table} \cup Tables(joined)
    BY <2>1, <2>3, JoinedTables
  <2> QED BY <2>3, <2>4 DEF Resolves
<1> QED BY <1>1, IInvAlways, PTL
=============================================================================
