------------------------------ MODULE Requests ------------------------------
(***************************************************************************)
(* Requests on their way through the API server: the generated client or   *)
(* another HTTP client, the authentication, the routes, the middlewares in *)
(* the order apiserver.go and routebuilder.go put them, the handlers, and  *)
(* the way back, with what the metrics and the log say of the reply.       *)
(*                                                                         *)
(* The service is one step here: its own steps, and what other requests do *)
(* between them, are those of Dinosaurs, Listing and Search.               *)
(***************************************************************************)
EXTENDS OpenAPIClient, FiniteSets

LOCAL INSTANCE SequencesExt

CONSTANTS
    Callers,
    Calls,     \* the calls of the generated client
    Raw,       \* the HTTP requests of others
    NewIds,    \* the ids that api.NewID draws, as many as there are callers
    Stored     \* [id -> species] of the dinosaurs there are at first

ASSUME RequestsAssumption ==
    /\ IsFiniteSet(Callers) /\ IsFiniteSet(NewIds) /\ IsFiniteSet(DOMAIN Stored)
    /\ Cardinality(NewIds) >= Cardinality(Callers)
    /\ DOMAIN Stored \cap NewIds = {}
    /\ NewIds \cup DOMAIN Stored \subseteq STRING
    /\ Stored \in [DOMAIN Stored -> STRING]

\* What the generated client can be asked for, and what others may send: their
\* species is a string or is not set, an id is of one segment or more.
ASSUME CallsAssumption ==
    \A k \in Calls :
        /\ k # Nil /\ k.op \in {"list", "get", "patch", "create"}
        /\ k.op # "list" => \A p \in DOMAIN k.query : k.query[p] = Nil
        /\ k.op \in {"get", "patch"} => k.id \in Seq(STRING) /\ k.id # <<>>
        /\ k.op = "patch" => k.body = Nil \/ k.body \in [{"species"} -> STRING \cup {Nil}]
        /\ k.op = "create" => k.body = Nil \/ k.body \in [DinosaurFields -> STRING \cup {Nil}]

ASSUME RawAssumption ==
    \A r \in Raw :
        /\ DOMAIN r = {"method", "path", "query", "token", "body"}
        /\ IsObject(r.body) /\ "species" \in DOMAIN r.body =>
              r.body.species \in STRING \cup {Nil}

\* The JSON objects of the API and the structs of its models.  What stands for no
\* value, for no body and for a body that is no object is none of them.
Objects(keys) == [keys -> STRING \cup Int \cup {Nil} \cup SUBSET [DinosaurFields -> STRING]]

ObjectKeys == DinosaurFields \cup DinosaurListFields \cup {"type", "code", "reason", "openapi"}

ASSUME ObjectsAssumption ==
    /\ Nil \notin STRING /\ Nil \notin Int
    /\ \A keys \in SUBSET ObjectKeys, b \in {Nil, NoBody, Garbage, NullBody} : b \notin Objects(keys)

\* The constant strings that are looked at: the provers do not know that they are
\* strings.
ASSUME StringsAssumption ==
    {"", "Dinosaur", "DinosaurList", "Error", "NotFound", "Validation", "General", "Unauthorized",
     "MalformedRequest", "BadRequest", "DatabaseAdvisoryLock", "api", "rh-trex", "v1", "dinosaurs",
     "3.0.0"} \subseteq STRING

VARIABLES
    jwt,      \* Config.Server.EnableJWT
    rows,     \* [id -> species] of the live rows
    held,     \* every <<id, species>> a row ever held
    call,     \* [caller -> what it calls, Nil for an HTTP request of its own]
    request,  \* [caller -> the HTTP request]
    pc,
    reply,    \* [caller -> the reply: status, body, and whether by WriteHeader]
    tx,       \* [caller -> the middleware's transaction]
    changed,  \* [caller -> its request has changed a row]
    metric,   \* [caller -> the code the request is counted under, Nil if it is not]
    logged,   \* [caller -> the status in the log, Nil if there is no line]
    seen      \* [caller -> what the client returns]

vars == <<jwt, rows, held, call, request, pc, reply, tx, changed, metric, logged, seen>>
store == <<rows, held>>
observed == <<metric, logged>>
-----------------------------------------------------------------------------
\* pkg/errors: the number and the HTTP status of each error.
Errors ==
    [NotFound |-> [code |-> 7, http |-> 404],
     Validation |-> [code |-> 8, http |-> 400],
     General |-> [code |-> 9, http |-> 500],
     Unauthorized |-> [code |-> 11, http |-> 403],
     MalformedRequest |-> [code |-> 17, http |-> 400],
     BadRequest |-> [code |-> 21, http |-> 400],
     DatabaseAdvisoryLock |-> [code |-> 26, http |-> 500]]

AsOpenapiError(e) ==
    ErrorToMap([kind |-> "Error", id |-> Errors[e].code, code |-> Errors[e].code, reason |-> e])

\* ConvertDinosaur, PresentDinosaur.
ConvertDinosaur(o) == Field(o, "species")
PresentDinosaur(id, species) == [id |-> id, kind |-> "Dinosaur", species |-> species]
-----------------------------------------------------------------------------
Init ==
    /\ jwt \in BOOLEAN
    /\ rows = Stored
    /\ held = {<<id, Stored[id]>> : id \in DOMAIN Stored}
    /\ call = [c \in Callers |-> Nil]
    /\ request = [c \in Callers |-> Nil]
    /\ pc = [c \in Callers |-> "idle"]
    /\ reply = [c \in Callers |-> Nil]
    /\ tx = [c \in Callers |-> "none"]
    /\ changed = [c \in Callers |-> FALSE]
    /\ metric = [c \in Callers |-> Nil]
    /\ logged = [c \in Callers |-> Nil]
    /\ seen = [c \in Callers |-> Nil]

Goto(c, label) == pc' = [pc EXCEPT ![c] = label]

\* writeJSONResponse, in handlers, auth and db: WriteHeader, then the body.
Answer(c, status, body) ==
    reply' = [reply EXCEPT ![c] = [status |-> status, body |-> body, header |-> TRUE]]

HandleError(c, e) == Answer(c, Errors[e].http, AsOpenapiError(e))

\* A call of the generated client: its address and its required body first.
Send(c) ==
    /\ pc[c] = "idle"
    /\ \E k \in Calls :
          /\ call' = [call EXCEPT ![c] = k]
          /\ IF HasURL(k.ctx) /\ (Operation(k.op).needs => k.body # Nil)
             THEN /\ request' = [request EXCEPT ![c] = Prepare(k)]
                  /\ Goto(c, "sent")
                  /\ UNCHANGED seen
             ELSE /\ seen' = [seen EXCEPT ![c] = Failure(Nil)]
                  /\ Goto(c, "done")
                  /\ UNCHANGED request
    /\ UNCHANGED <<jwt, store, reply, tx, changed, observed>>

SendRaw(c) ==
    /\ pc[c] = "idle"
    /\ \E r \in Raw : request' = [request EXCEPT ![c] = r]
    /\ Goto(c, "sent")
    /\ UNCHANGED <<jwt, store, call, reply, tx, changed, observed, seen>>
-----------------------------------------------------------------------------
\* RemoveTrailingSlash: of several, one.
Trimmed(path) ==
    IF path # <<>> /\ path[Len(path)] = "" THEN SubSeq(path, 1, Len(path) - 1) ELSE path

RemoveTrailingSlash(c) ==
    /\ pc[c] = "sent"
    /\ request' = [request EXCEPT ![c].path = Trimmed(@)]
    /\ Goto(c, "trimmed")
    /\ UNCHANGED <<jwt, store, call, reply, tx, changed, observed, seen>>

MetadataPath == <<"api", "rh-trex">>
OpenAPIPaths == {<<"api", "rh-trex", "v1", "openapi">>, <<"api", "rh-trex", "v1", "openapi.html">>}

\* The paths for which the authentication handler asks for no token: it matches
\* a path as it comes, with its dots and with one more slash.
Public(path) ==
    \/ Trimmed(path) \in {MetadataPath, Base} \cup OpenAPIPaths
    \/ Len(path) > 3 /\ SubSeq(path, 1, 3) = Base /\ path[4] = "errors"

\* A dinosaur's own path.
IsDinosaur(path) ==
    Len(path) = 5 /\ (\A i \in 1..4 : path[i] = DinosaursPath[i]) /\ path[5] # ""

\* The routes: the handler for a method and a path, if there is one.
Methods(path) ==
    CASE path = MetadataPath \/ path \in OpenAPIPaths -> {"GET"}
      [] path = DinosaursPath -> {"GET", "POST"}
      [] IsDinosaur(path) -> {"GET", "PATCH", "DELETE"}
      [] OTHER -> {}

\* cleanPath of mux: no empty segment but the last, no dots; ".." takes the
\* segment before it away.
Cleaned(path, segment) ==
    CASE segment \in {"", "."} -> path
      [] segment = ".." -> IF path = <<>> THEN <<>> ELSE Front(path)
      [] OTHER -> Append(path, segment)

CleanPath(path) ==
    LET clean == FoldLeft(Cleaned, <<>>, path)
    IN  IF clean = <<>> \/ path[Len(path)] = "" THEN Append(clean, "") ELSE clean

\* The paths that cleanPath leaves as they are.
Clean(path) ==
    /\ path # <<>>
    /\ \A i \in 1..Len(path) :
          path[i] \notin {".", ".."} /\ (path[i] = "" => i = Len(path))

\* The authentication handler of the SDK, in front of the router.
Refuse(c) ==
    /\ pc[c] = "trimmed"
    /\ jwt /\ ~Public(request[c].path) /\ request[c].token # "valid"
    /\ Answer(c, 401, ErrorToMap([kind |-> "Error", id |-> 401, code |-> 401, reason |-> Nil]))
    /\ Goto(c, "answered")
    /\ UNCHANGED <<jwt, store, call, request, tx, changed, observed, seen>>

Admitted(c) ==
    /\ pc[c] = "trimmed"
    /\ jwt => Public(request[c].path) \/ request[c].token = "valid"

\* mux sends a client with another path to the clean one, before any route.
Moved(c) ==
    /\ Admitted(c) /\ ~Clean(request[c].path)
    /\ Answer(c, 301, NoBody)
    /\ Goto(c, "answered")
    /\ UNCHANGED <<jwt, store, call, request, tx, changed, observed, seen>>

Routed(c) == Admitted(c) /\ Clean(request[c].path)

\* SendNotFound, and mux's own answer to a method that a path does not have: no
\* middleware runs for either.
NotRouted(c) ==
    /\ Routed(c)
    /\ request[c].method \notin Methods(request[c].path)
    /\ IF Methods(request[c].path) = {}
       THEN Answer(c, 404, [type |-> "Error", id |-> 404, code |-> 404, reason |-> "NotFound"])
       ELSE Answer(c, 405, NoBody)
    /\ Goto(c, "answered")
    /\ UNCHANGED <<jwt, store, call, request, tx, changed, observed, seen>>

\* MetadataHandler.Get: it writes without WriteHeader.
Metadata(c) ==
    /\ Routed(c)
    /\ request[c].method = "GET" /\ request[c].path = MetadataPath
    /\ reply' = [reply EXCEPT ![c] = [status |-> 200, body |-> [id |-> "rh-trex"], header |-> FALSE]]
    /\ Goto(c, "logging")
    /\ UNCHANGED <<jwt, store, call, request, tx, changed, observed, seen>>

\* TransactionMiddleware: the transaction is in the request's context.
Begin(c) ==
    /\ Routed(c)
    /\ request[c].method \in Methods(request[c].path) /\ request[c].path # MetadataPath
    /\ tx' = [tx EXCEPT ![c] = "open"]
    /\ Goto(c, "handler")
    /\ UNCHANGED <<jwt, store, call, request, reply, changed, observed, seen>>

BeginFails(c) ==
    /\ Routed(c)
    /\ request[c].method \in Methods(request[c].path) /\ request[c].path # MetadataPath
    /\ HandleError(c, "General")
    /\ Goto(c, "counting")
    /\ UNCHANGED <<jwt, store, call, request, tx, changed, observed, seen>>

\* OpenAPIHandler.
OpenAPI(c) ==
    /\ pc[c] = "handler" /\ request[c].path[4] # "dinosaurs"
    /\ Answer(c, 200, [openapi |-> "3.0.0"])
    /\ Goto(c, "resolving")
    /\ UNCHANGED <<jwt, store, call, request, tx, changed, observed, seen>>

\* Handle: the body is decoded and then validated, in this order; null leaves
\* the target as it was.
Invalid(r) ==
    IF r.method = "POST"
    THEN LET d == IF r.body = NullBody THEN Filled(DinosaurFields, <<>>) ELSE DinosaurFrom(r.body)
         IN  CASE r.body \in {NoBody, Garbage} -> {"MalformedRequest"}
               [] IsObject(r.body) /\ ~DinosaurAccepts(r.body) -> {"MalformedRequest"}
               [] OTHER -> IF Field(d, "id") # "" \/ Field(d, "species") = ""
                           THEN {"Validation"} ELSE {}
    ELSE IF r.method = "PATCH"
    THEN CASE r.body \in {NoBody, Garbage} -> {"MalformedRequest"}
           [] OTHER -> IF r.body = NullBody \/ Field(PatchFrom(r.body), "species") = ""
                       THEN {"Validation"} ELSE {}
    ELSE {}

\* AuthenticateAccountJWT, the authorization's mock, and the first half of Handle.
Validate(c) ==
    /\ pc[c] = "handler" /\ request[c].path[4] = "dinosaurs"
    /\ IF jwt /\ request[c].token # "valid"
       THEN HandleError(c, "Unauthorized") /\ Goto(c, "resolving")
       ELSE IF Invalid(request[c]) # {}
       THEN (\E e \in Invalid(request[c]) : HandleError(c, e)) /\ Goto(c, "resolving")
       ELSE Goto(c, "acting") /\ UNCHANGED reply
    /\ UNCHANGED <<jwt, store, call, request, tx, changed, observed, seen>>
-----------------------------------------------------------------------------
Id(c) == request[c].path[5]
Collection(c) == Len(request[c].path) = 4

Acting(c, method) == pc[c] = "acting" /\ request[c].method = method

\* The row of an id, when a statement has committed.
Write(c, id, species) ==
    /\ rows' = [i \in DOMAIN rows \cup {id} |-> IF i = id THEN species ELSE rows[i]]
    /\ held' = held \cup {<<id, species>>}
    /\ changed' = [changed EXCEPT ![c] = TRUE]

\* A statement of the action fails: of the writes, those before it have been
\* committed.
ActionFails(c) ==
    /\ pc[c] = "acting"
    /\ \/ HandleError(c, "General")
       \/ request[c].method = "PATCH" /\ HandleError(c, "DatabaseAdvisoryLock")
    /\ Goto(c, "resolving")
    /\ UNCHANGED <<jwt, store, call, request, tx, changed, observed, seen>>

\* Create; its event may fail after the row.
Create(c) ==
    /\ Acting(c, "POST")
    /\ \E id \in NewIds \ {h[1] : h \in held} :
       LET species == ConvertDinosaur(DinosaurFrom(request[c].body))
       IN  /\ Write(c, id, species)
           /\ Answer(c, 201, DinosaurToMap(PresentDinosaur(id, species))) \/ HandleError(c, "General")
    /\ Goto(c, "resolving")
    /\ UNCHANGED <<jwt, call, request, tx, observed, seen>>

\* Replace: the same species writes nothing.
Replace(c) ==
    /\ Acting(c, "PATCH") /\ Id(c) \in DOMAIN rows
    /\ LET species == Field(PatchFrom(request[c].body), "species")
       IN  IF rows[Id(c)] = species
           THEN Answer(c, 200, DinosaurToMap(PresentDinosaur(Id(c), species))) /\ UNCHANGED <<store, changed>>
           ELSE /\ Write(c, Id(c), species)
                /\ Answer(c, 200, DinosaurToMap(PresentDinosaur(Id(c), species))) \/ HandleError(c, "General")
    /\ Goto(c, "resolving")
    /\ UNCHANGED <<jwt, call, request, tx, observed, seen>>

\* Mutant of Delete: the dinosaur is read for the reply when it is gone.
DeleteThenGet(c) ==
    /\ Acting(c, "DELETE")
    /\ rows' = [i \in DOMAIN rows \ {Id(c)} |-> rows[i]]
    /\ changed' = [changed EXCEPT ![c] = Id(c) \in DOMAIN rows]
    /\ HandleError(c, "NotFound")
    /\ Goto(c, "resolving")
    /\ UNCHANGED <<jwt, held, call, request, tx, observed, seen>>

\* Delete: also of what is not there.
Delete(c) ==
    /\ Acting(c, "DELETE")
    /\ rows' = [i \in DOMAIN rows \ {Id(c)} |-> rows[i]]
    /\ changed' = [changed EXCEPT ![c] = Id(c) \in DOMAIN rows]
    /\ Answer(c, 204, NoBody) \/ HandleError(c, "General")
    /\ Goto(c, "resolving")
    /\ UNCHANGED <<jwt, held, call, request, tx, observed, seen>>

Get(c) ==
    /\ Acting(c, "GET") /\ ~Collection(c) /\ Id(c) \in DOMAIN rows
    /\ Answer(c, 200, DinosaurToMap(PresentDinosaur(Id(c), rows[Id(c)])))
    /\ Goto(c, "resolving")
    /\ UNCHANGED <<jwt, store, call, request, tx, changed, observed, seen>>

\* HandleGetError, in Get and in Replace.
NotFound(c) ==
    /\ pc[c] = "acting" /\ request[c].method \in {"GET", "PATCH"}
    /\ ~Collection(c) /\ Id(c) \notin DOMAIN rows
    /\ HandleError(c, "NotFound")
    /\ Goto(c, "resolving")
    /\ UNCHANGED <<jwt, store, call, request, tx, changed, observed, seen>>

\* List, with an order or a search that may be refused.
List(c) ==
    /\ Acting(c, "GET") /\ Collection(c)
    /\ \/ /\ "fields" \notin DOMAIN request[c].query
          /\ Answer(c, 200, DinosaurListToMap(
                [kind |-> "DinosaurList", page |-> 1, size |-> Cardinality(DOMAIN rows),
                 total |-> Cardinality(DOMAIN rows),
                 items |-> {PresentDinosaur(id, rows[id]) : id \in DOMAIN rows}]))
       \/ /\ {"search", "orderBy"} \cap DOMAIN request[c].query # {}
          /\ HandleError(c, "BadRequest")
    /\ Goto(c, "resolving")
    /\ UNCHANGED <<jwt, store, call, request, tx, changed, observed, seen>>

\* List with fields panics in SliceFilter: the deferred Resolve runs, the
\* metrics and the log do not, and net/http closes the connection.
Panic(c) ==
    /\ Acting(c, "GET") /\ Collection(c)
    /\ "fields" \in DOMAIN request[c].query
    /\ tx' = [tx EXCEPT ![c] = "ended"]
    /\ Goto(c, "broken")
    /\ UNCHANGED <<jwt, store, call, request, reply, changed, observed, seen>>
-----------------------------------------------------------------------------
\* The deferred Resolve, whose commit may fail unnoticed.
Resolve(c) ==
    /\ pc[c] = "resolving"
    /\ tx' = [tx EXCEPT ![c] = "ended"]
    /\ Goto(c, "counting")
    /\ UNCHANGED <<jwt, store, call, request, reply, changed, observed, seen>>

\* metricsResponseWrapper: WriteHeader's code, or 200 for a bare Write.
Code(r) == IF r.header THEN r.status ELSE IF r.body # NoBody THEN 200 ELSE 0

MetricsMiddleware(c) ==
    /\ pc[c] = "counting"
    /\ metric' = [metric EXCEPT ![c] = Code(reply[c])]
    /\ Goto(c, "logging")
    /\ UNCHANGED <<jwt, store, call, request, reply, tx, changed, logged, seen>>

\* Mutant of Suppressed: the metadata's path is v1's.
SuppressedV1(path) == path = Base

\* RequestLoggingMiddleware: no line for the metadata's path.
Suppressed(path) == path = MetadataPath

\* LoggingWriter has the status of WriteHeader, 0 without one.
RequestLogging(c) ==
    /\ pc[c] = "logging"
    /\ logged' = [logged EXCEPT ![c] =
           IF Suppressed(request[c].path) THEN Nil
           ELSE IF reply[c].header THEN reply[c].status ELSE 0]
    /\ Goto(c, "answered")
    /\ UNCHANGED <<jwt, store, call, request, reply, tx, changed, metric, seen>>

\* http.DefaultClient follows a 301, also that of a PATCH, with a GET.
Follow(c) ==
    /\ pc[c] = "answered" /\ call[c] # Nil /\ reply[c].status = 301
    /\ request' = [request EXCEPT ![c].method = "GET", ![c].body = NoBody,
                                  ![c].path = CleanPath(@)]
    /\ reply' = [reply EXCEPT ![c] = Nil]
    /\ Goto(c, "sent")
    /\ UNCHANGED <<jwt, store, call, tx, changed, observed, seen>>

\* The reply arrives; others read it as they like.
Receive(c) ==
    /\ pc[c] = "answered" /\ (call[c] = Nil \/ reply[c].status # 301)
    /\ seen' = [seen EXCEPT ![c] = IF call[c] = Nil THEN Nil ELSE Outcome(call[c].op, reply[c])]
    /\ Goto(c, "done")
    /\ UNCHANGED <<jwt, store, call, request, reply, tx, changed, observed>>

\* callAPI returns the error of a connection that is closed or lost, or of a
\* client that has followed ten redirects: mux sends the one to "/" there again.
Lose(c) ==
    /\ pc[c] \in {"answered", "broken"}
    /\ reply' = [reply EXCEPT ![c] = Nil]
    /\ seen' = [seen EXCEPT ![c] = IF call[c] = Nil THEN Nil ELSE Failure(Nil)]
    /\ Goto(c, "done")
    /\ UNCHANGED <<jwt, store, call, request, tx, changed, observed>>

Next ==
    \E c \in Callers :
        \/ Send(c) \/ SendRaw(c) \/ RemoveTrailingSlash(c)
        \/ Refuse(c) \/ Moved(c) \/ NotRouted(c) \/ Metadata(c) \/ Begin(c) \/ BeginFails(c)
        \/ OpenAPI(c) \/ Validate(c) \/ ActionFails(c)
        \/ Create(c) \/ Replace(c) \/ Delete(c) \/ Get(c) \/ NotFound(c) \/ List(c) \/ Panic(c)
        \/ Resolve(c) \/ MetricsMiddleware(c) \/ RequestLogging(c)
        \/ Follow(c) \/ Receive(c) \/ Lose(c)

Spec == Init /\ [][Next]_vars
-----------------------------------------------------------------------------
\* The ids whose path is no other's: those without a slash, but for the dots.
Plain(id) == Len(id) = 1 /\ id[1] \notin {".", ".."}
Asked(k) == k.op = "create" \/ Plain(k.id)

\* A client that is told of a dinosaur is told of an id and a species that a row
\* has really had, and no other reply of the server passes for a dinosaur.  It is
\* told of the one it asked for, and a patch of the species it asked for, if the
\* id is plain: d1/ is answered with d1, and /d1, ./d1 and a/../d1 with what a
\* GET of d1 finds, also a PATCH, which then has changed nothing.
ToldIsTrue ==
    \A c \in Callers :
        pc[c] = "done" /\ call[c] # Nil /\ seen[c].ok =>
            IF call[c].op = "list"
            THEN \A d \in ListField(seen[c].value, "items") :
                    <<Field(d, "id"), Field(d, "species")>> \in held
            ELSE LET id == Field(seen[c].value, "id")
                     species == Field(seen[c].value, "species")
                 IN  /\ <<id, species>> \in held
                     /\ Asked(call[c]) /\ call[c].op # "create" => <<id>> = call[c].id
                     /\ Asked(call[c]) /\ call[c].op # "get" => species = Field(call[c].body, "species")

\* A request that is refused with a 4xx has changed nothing: all that can be
\* refused is looked at before the action.
RejectedChangesNothing ==
    \A c \in Callers :
        pc[c] = "answered" /\ reply[c].status \in 400..499 => ~changed[c]

\* The metrics and the log never contradict the reply: a route's requests are
\* counted and logged under the status that was sent, however it was written.
ObservedAsAnswered ==
    \A c \in Callers :
        pc[c] = "answered" => {metric[c], logged[c]} \subseteq {reply[c].status, Nil}

\* The client hands every error that a handler has described to its caller,
\* typed: but for a list that is refused with a 400, which the API's
\* description does not declare.
ErrorsAreTyped ==
    \A c \in Callers :
        pc[c] = "done" /\ call[c] # Nil /\ reply[c] # Nil =>
            \/ reply[c].status < 400 \/ reply[c].body = NoBody
            \/ ErrorField(seen[c].model, "code") = reply[c].body.code
            \/ call[c].op = "list" /\ reply[c].status = 400
=============================================================================
