---------------------------- MODULE OpenAPIClient ----------------------------
(***************************************************************************)
(* The generated client (pkg/api/openapi): what it makes of a call, and    *)
(* what it makes of the reply.  The server decodes and encodes its bodies  *)
(* with the same models.                                                   *)
(*                                                                         *)
(* A JSON object is a function from its keys to their values, a struct one *)
(* from all its fields, Nil where a pointer is nil.  A path is the         *)
(* sequence of the segments behind its slashes, an id that of the segments *)
(* between its slashes: <<"d1", "">> is d1/, and <<"">> is empty.          *)
(***************************************************************************)
EXTENDS Integers, Sequences

CONSTANTS
    Nil,
    NoBody,     \* an empty body
    Garbage,    \* a body that is not JSON
    NullBody    \* the JSON null

-----------------------------------------------------------------------------
\* The models.  ToMap leaves out the pointers that are nil.
Set(o) == [k \in {k \in DOMAIN o : o[k] # Nil} |-> o[k]]
Filled(fields, json) == [k \in fields |-> IF k \in DOMAIN json THEN json[k] ELSE Nil]

IsObject(b) == b \notin {NoBody, Garbage, NullBody}

DinosaurFields == {"id", "kind", "species"}
NewDinosaur(species) == Filled(DinosaurFields, [species |-> species])
DinosaurToMap(o) == Set(o)

\* Mutant of DinosaurAccepts: any object is one.
DinosaurAcceptsAny(json) == TRUE

\* UnmarshalJSON: the required keys are there, and no key is unknown.
DinosaurAccepts(json) == "species" \in DOMAIN json /\ DOMAIN json \subseteq DinosaurFields

DinosaurFrom(json) == Filled(DinosaurFields, json)

\* GetSpecies, GetId and the others: the zero value for what is not set.
Field(o, k) == IF o = Nil \/ o[k] = Nil THEN "" ELSE o[k]

DinosaurListFields == {"kind", "page", "size", "total", "items"}
DinosaurListToMap(o) == [o EXCEPT !.items = {DinosaurToMap(d) : d \in @}]

\* All the keys are required, and every item is a dinosaur.
DinosaurListAccepts(json) ==
    DOMAIN json = DinosaurListFields /\ \A d \in json.items : DinosaurAccepts(d)

DinosaurListFrom(json) == [json EXCEPT !.items = {DinosaurFrom(d) : d \in @}]

\* GetItems and the others.
ListField(o, k) == IF o = Nil THEN {} ELSE o[k]

PatchFrom(json) == Filled({"species"}, json)
PatchToMap(o) == Set(o)

\* Error has no UnmarshalJSON: what it does not know is dropped.
ErrorToMap(o) == Set(o)
ErrorFrom(json) == Filled({"kind", "id", "code", "reason"}, json)

\* GetCode and the others; 0 stands for the code "".
ErrorField(o, k) == IF o = Nil \/ o[k] = Nil THEN 0 ELSE o[k]
-----------------------------------------------------------------------------
\* The operations of DefaultAPIService: the request, the statuses whose body
\* is decoded into the error's model, and the type of the result.
ListOperation ==
    [method |-> "GET", byId |-> FALSE, needs |-> FALSE, typed |-> {401, 403, 500},
     result |-> "DinosaurList"]

GetOperation ==
    [method |-> "GET", byId |-> TRUE, needs |-> FALSE, typed |-> {401, 403, 404, 500},
     result |-> "Dinosaur"]

\* Mutant of PatchOperation: 404 is not declared.
PatchOperationWithout404 ==
    [method |-> "PATCH", byId |-> TRUE, needs |-> TRUE,
     typed |-> {400, 401, 403, 409, 500}, result |-> "Dinosaur"]

PatchOperation ==
    [method |-> "PATCH", byId |-> TRUE, needs |-> TRUE,
     typed |-> {400, 401, 403, 404, 409, 500}, result |-> "Dinosaur"]

PostOperation ==
    [method |-> "POST", byId |-> FALSE, needs |-> TRUE,
     typed |-> {400, 401, 403, 409, 500}, result |-> "Dinosaur"]

Operation(op) ==
    [list |-> ListOperation, get |-> GetOperation,
     patch |-> PatchOperation, create |-> PostOperation][op]

\* getServerOperationIndex, getServerIndex: the operation's before the server's.
ServerIndex(ctx) ==
    IF ctx.operation # Nil THEN ctx.operation
    ELSE IF ctx.server # Nil THEN ctx.server ELSE 0

\* ServerConfigurations.URL: the index is one of the three servers'.
HasURL(ctx) == ServerIndex(ctx) \in 0..2

Base == <<"api", "rh-trex", "v1">>
DinosaursPath == <<"api", "rh-trex", "v1", "dinosaurs">>

\* The template with the escaped id, as the server reads it: an escaped slash is
\* a slash in the path again, and dots are not escaped.
Path(call) ==
    IF Operation(call.op).byId THEN DinosaursPath \o call.id ELSE DinosaursPath

\* parameterAddToHeaderOrQuery of the parameters that are set: the defaults of
\* page and size are assigned, but not sent.
Query(call) == Set(call.query)

\* prepareRequest: the body is encoded, the access token is in a header.
Prepare(call) ==
    [method |-> Operation(call.op).method, path |-> Path(call), query |-> Query(call),
     token |-> call.token,
     body |-> IF ~Operation(call.op).needs THEN NoBody
              ELSE IF call.op = "create" THEN DinosaurToMap(call.body)
              ELSE PatchToMap(call.body)]

\* decode: an empty body leaves the value as it is, a nil pointer or an error
\* without fields; the rest is JSON.
Decodes(type, body) ==
    \/ body = NoBody
    \/ /\ IsObject(body)
       /\ type = "Dinosaur" => DinosaurAccepts(body)
       /\ type = "DinosaurList" => DinosaurListAccepts(body)

Decode(type, body) ==
    IF body = NoBody THEN IF type = "Error" THEN ErrorFrom(<<>>) ELSE Nil
    ELSE CASE type = "Dinosaur" -> DinosaurFrom(body)
           [] type = "DinosaurList" -> DinosaurListFrom(body)
           [] OTHER -> ErrorFrom(body)

\* GenericOpenAPIError: an error with the model that could be decoded.
Failure(model) == [ok |-> FALSE, value |-> Nil, model |-> model]
Success(value) == [ok |-> TRUE, value |-> value, model |-> Nil]

\* The second half of each Execute.
Outcome(op, reply) ==
    LET o == Operation(op)
    IN  IF reply.status >= 300
        THEN Failure(IF reply.status \in o.typed /\ Decodes("Error", reply.body)
                     THEN Decode("Error", reply.body) ELSE Nil)
        ELSE IF Decodes(o.result, reply.body) THEN Success(Decode(o.result, reply.body))
        ELSE Failure(Nil)
=============================================================================
