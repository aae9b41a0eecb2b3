------------------------------ MODULE MCSearch ------------------------------
(***************************************************************************)
(* An instance of Search: dinosaurs with an owner (belongs_to), tags       *)
(* (has_many) and a badge (has_one), which "tag" and "tags" both name.     *)
(***************************************************************************)
EXTENDS Search

Row(id, parent, name, gone) ==
    [id |-> id, parent |-> parent, name |-> name, deleted_at |-> gone]

\* Two tags and no owner, one deleted tag, a deleted owner, a deleted dinosaur.
MCData ==
    [dinosaurs |-> {Row("d1", Null, "x", Null), Row("d2", "o1", "y", Null),
                    Row("d3", "o2", "x", Null), Row("d4", "o1", "x", "t")},
     owners |-> {Row("o1", Null, "x", Null), Row("o2", Null, "y", "t")},
     tags |-> {Row("t1", "d1", "x", Null), Row("t2", "d1", "y", Null),
               Row("t3", "d2", "x", "t")}]

MCAssociation ==
    [Owner |-> [table |-> "owners", type |-> "belongs_to", column |-> "parent", foreign |-> "id"],
     Tags |-> [table |-> "tags", type |-> "has_many", column |-> "id", foreign |-> "parent"],
     Badge |-> [table |-> "tags", type |-> "has_one", column |-> "id", foreign |-> "parent"]]

Names == {"owner", "tag", "tags", "badge", "properties", "herd"}
MCSingular == [n \in Names |-> CASE n = "owner" -> "Owner" [] n = "badge" -> "Badge"
                                 [] n \in {"tag", "tags"} -> "Tag" [] OTHER -> "None"]
MCPlural == [n \in Names |-> IF n \in {"tag", "tags"} THEN "Tags" ELSE "None"]

Fields == {<<"name">>, <<"dinosaurs", "id">>, <<"owner", "name">>, <<"tag", "name">>,
           <<"tags", "id">>, <<"badge", "name">>, <<"properties", "k">>,
           <<"herd", "name">>, <<"owner", "tags", "id">>, <<"size">>}

Leaf(node) == [p \in {<<>>} |-> node]
Field(f) == Leaf(Ident(f))
Value(v) == Leaf([func |-> "value", value |-> v])
Op(func, args) ==
    [p \in {<<>>} \cup UNION {{<<i>> \o q : q \in DOMAIN args[i]} : i \in DOMAIN args} |->
        IF p = <<>> THEN [func |-> func] ELSE args[Head(p)][Tail(p)]]

Atoms == {Op("in", <<Field(f), Value("x")>>) : f \in Fields}
         \cup {Op("in", <<Field(f), Value("t1"), Value("t2"), Value("d2")>>) : f \in Fields}
         \cup {Op("null", <<Field(f)>>) : f \in Fields}

Trees == Atoms \cup {Op("not", <<a>>) : a \in Atoms}
         \cup {Op(o, <<a, b>>) : o \in {"and", "or"}, a, b \in Atoms}

Orders == {<<>>, <<[field |-> <<"name">>, words |-> <<"desc">>], [field |-> <<"id">>, words |-> <<>>]>>,
           <<[field |-> <<"tags", "name">>, words |-> <<>>]>>,
           <<[field |-> <<"name">>, words |-> <<"up">>]>>}

MCRequest == [search : Trees \cup {NoSearch, Garbage}, order : Orders,
              disallowed : {{}, {"id"}}]
=============================================================================
