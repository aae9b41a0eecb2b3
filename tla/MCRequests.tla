----------------------------- MODULE MCRequests -----------------------------
(***************************************************************************)
(* An instance of Requests: two callers, one dinosaur, and every kind of   *)
(* call, path and body that is treated differently.                        *)
(***************************************************************************)
EXTENDS Requests

MCStored == [d1 |-> "x"]

Here == [operation |-> Nil, server |-> Nil]
Elsewhere == [operation |-> 3, server |-> 0]
None == [page |-> Nil, fields |-> Nil, search |-> Nil]

Call(op, id, body, query) ==
    [op |-> op, id |-> id, body |-> body, query |-> query, token |-> "valid", ctx |-> Here]

D1 == <<"d1">>
Bare == <<"">>

MCCalls ==
    {Call("list", Bare, Nil, None), Call("list", Bare, Nil, [None EXCEPT !.fields = "id"]),
     Call("list", Bare, Nil, [None EXCEPT !.page = 2, !.search = "?"]),
     [Call("get", D1, Nil, None) EXCEPT !.ctx = Elsewhere],
     [Call("get", D1, Nil, None) EXCEPT !.token = Nil]}
    \cup {Call("get", id, Nil, None) : id \in
             {D1, Bare, <<"a", "b">>, <<"d1", "">>, <<"", "d1">>, <<".">>, <<"..", "openapi">>}}
    \cup {Call("patch", id, [species |-> s], None) : id \in {D1, <<"d2">>, Bare}, s \in {"y", "", Nil}}
    \cup {Call("patch", id, [species |-> "y"], None) : id \in
             {<<"d1", "">>, <<".", "d1">>, <<"..", "..">>}}
    \cup {Call("patch", D1, Nil, None)}
    \cup {Call("create", Bare, b, None) : b \in
             {Nil, NewDinosaur("z"), NewDinosaur(""), [NewDinosaur("z") EXCEPT !.id = "d1"]}}

Request(method, path, body, query) ==
    [method |-> method, path |-> path, body |-> body, query |-> query, token |-> "valid"]

MCRaw ==
    {Request("GET", p, NoBody, <<>>) : p \in
         {Base, MetadataPath \o Bare, Base \o <<"openapi">>, Base \o <<"errors", "7">>, Bare,
          DinosaursPath \o <<"", "">>}}
    \cup {Request("DELETE", p, NoBody, <<>>) : p \in {DinosaursPath, DinosaursPath \o D1}}
    \cup {Request("POST", DinosaursPath \o Bare, b, <<>>) : b \in
             {NoBody, Garbage, NullBody, [species |-> "z", size |-> 1], [id |-> "d1"]}}
    \cup {Request("PATCH", DinosaursPath \o D1, b, <<>>) : b \in
             {Garbage, NullBody, [species |-> "z", size |-> 1]}}

\* Clean says which paths cleanPath leaves alone, and cleanPath has to run once.
ASSUME CleanPathAssumption ==
    \A path \in UNION {[1..n -> {"", ".", "..", "a"}] : n \in 0..4} :
        /\ Clean(path) <=> CleanPath(path) = path
        /\ Clean(CleanPath(path))
=============================================================================
