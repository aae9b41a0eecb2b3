--------------------------- MODULE RequestsProofs ---------------------------
(***************************************************************************)
(* Theorems about Requests, for all callers, calls, requests and rows.     *)
(*                                                                         *)
(* What is known of a request and of its reply depends on the place it has *)
(* come to: who has changed a row has an answer other than a refusal       *)
(* (ChangeOK), what has been counted and logged is what was answered       *)
(* (ObservedOK), the request of a call is what the client prepared or, for *)
(* an id that is not plain, the GET it followed a redirect with            *)
(* (RequestOK), and it is answered with one of the replies its operation   *)
(* can have (ReplyOK), from which the client makes what it tells its       *)
(* caller (ClientOK).                                                      *)
(***************************************************************************)
EXTENDS Requests, SequenceTheorems, FiniteSetTheorems, TLAPS

Actions(c) ==
    \/ Send(c) \/ SendRaw(c) \/ RemoveTrailingSlash(c)
    \/ Refuse(c) \/ Moved(c) \/ NotRouted(c) \/ Metadata(c) \/ Begin(c) \/ BeginFails(c)
    \/ OpenAPI(c) \/ Validate(c) \/ ActionFails(c)
    \/ Create(c) \/ Replace(c) \/ Delete(c) \/ Get(c) \/ NotFound(c) \/ List(c) \/ Panic(c)
    \/ Resolve(c) \/ MetricsMiddleware(c) \/ RequestLogging(c)
    \/ Follow(c) \/ Receive(c) \/ Lose(c)

Early == {"idle", "sent", "trimmed", "handler", "acting"}

\* The variables of the callers are functions of them.
ShapeOK ==
    /\ pc = [c \in Callers |-> pc[c]]
    /\ request = [c \in Callers |-> request[c]]
    /\ reply = [c \in Callers |-> reply[c]]
    /\ changed = [c \in Callers |-> changed[c]]
    /\ metric = [c \in Callers |-> metric[c]]
    /\ logged = [c \in Callers |-> logged[c]]
    /\ call = [c \in Callers |-> call[c]]
    /\ seen = [c \in Callers |-> seen[c]]

\* A row is changed by the action, whose answer is then no refusal and no redirect.
ChangeOK ==
    \A c \in Callers :
        changed[c] =>
            /\ pc[c] \notin Early
            /\ pc[c] # "done" => reply[c].status # 301 /\ reply[c].status \notin 400..499

\* Nothing is observed before the reply, and its status is the one observed; a
\* reply without WriteHeader is the metadata's.  A redirect is observed by neither.
ObservedOK ==
    \A c \in Callers :
        /\ pc[c] \in Early \cup {"resolving", "counting"} => metric[c] = Nil /\ logged[c] = Nil
        /\ pc[c] \in {"resolving", "counting"} => reply[c].header
        /\ pc[c] = "logging" =>
              /\ metric[c] \in {reply[c].status, Nil} /\ logged[c] = Nil
              /\ reply[c].header \/ request[c].path = MetadataPath
        /\ pc[c] \in {"resolving", "counting", "logging"} => reply[c].status # 301
        /\ pc[c] = "answered" =>
              /\ {metric[c], logged[c]} \subseteq {reply[c].status, Nil}
              /\ reply[c].status = 301 => metric[c] = Nil /\ logged[c] = Nil

Answering == {"resolving", "counting", "logging", "answered"}

\* What a row has, it has held, and all of that are strings.
HeldOK ==
    /\ IsFiniteSet(DOMAIN rows)
    /\ held \subseteq STRING \X STRING
    /\ \A id \in DOMAIN rows : <<id, rows[id]>> \in held

\* What the client makes of its call, and what it follows a redirect with: only an
\* id that is not plain meets one.
Prepared(c) ==
    /\ request[c].method = Operation(call[c].op).method
    /\ request[c].path = IF pc[c] = "sent" THEN Path(call[c]) ELSE Trimmed(Path(call[c]))
    /\ request[c].body = Prepare(call[c]).body

Followed(c) ==
    /\ call[c].op \in {"get", "patch"} /\ ~Plain(call[c].id)
    /\ request[c].method = "GET" /\ request[c].body = NoBody

\* A request is the client's or one that others send; its path loses a trailing
\* slash, a handler has a method that it is routed for, and an action a body that
\* was validated.
RequestOK(c) ==
    /\ call[c] # Nil =>
          /\ call[c] \in Calls
          /\ Prepared(c) \/ Followed(c)
          /\ request[c].query = Query(call[c])
          /\ Operation(call[c].op).needs => call[c].body # Nil
    /\ DOMAIN request[c] = {"method", "path", "query", "token", "body"}
    /\ IsObject(request[c].body) /\ "species" \in DOMAIN request[c].body =>
          request[c].body.species \in STRING \cup {Nil}
    /\ pc[c] \in {"handler", "acting"} => request[c].method \in Methods(request[c].path)
    /\ pc[c] = "acting" => Invalid(request[c]) = {}

\* The errors that are described: by a handler, by the router and by the
\* authentication.
ErrorBodies ==
    {AsOpenapiError(e) : e \in DOMAIN Errors}
    \cup {[type |-> "Error", id |-> 404, code |-> 404, reason |-> "NotFound"],
          ErrorToMap([kind |-> "Error", id |-> 401, code |-> 401, reason |-> Nil])}

\* The replies to an operation: an error that it declares or that has no body; a
\* redirect; a list, also to a get whose id is empty; a dinosaur, the one that was
\* asked for if the id is plain; something else of the API.
ErrorReply(r, op) ==
    /\ r.status \in 400..599
    /\ \/ r.body = NoBody
       \/ r.body \in ErrorBodies /\ (r.status \in Operation(op).typed \/ (op = "list" /\ r.status = 400))

MovedReply(r, k) ==
    /\ r.status = 301 /\ r.body = NoBody
    /\ k.op \in {"get", "patch"} /\ ~Plain(k.id)

OtherReply(r) ==
    /\ r.status = 200
    /\ r.body # NoBody /\ ~DinosaurAccepts(r.body)

ListReply(r) ==
    /\ r.status = 200
    /\ IsObject(r.body) /\ DOMAIN r.body = DinosaurListFields
    /\ r.body.items \subseteq [DinosaurFields -> STRING]
    /\ \A d \in r.body.items : <<d.id, d.species>> \in held

DinosaurReply(r, k) ==
    /\ r.status \in {200, 201}
    /\ r.body \in [DinosaurFields -> STRING]
    /\ <<r.body.id, r.body.species>> \in held
    /\ Asked(k) /\ k.op # "create" => <<r.body.id>> = k.id
    /\ Asked(k) /\ k.op # "get" => r.body.species = Field(k.body, "species")

ReplyOK(c) ==
    \/ ErrorReply(reply[c], call[c].op)
    \/ MovedReply(reply[c], call[c])
    \/ OtherReply(reply[c]) /\ call[c].op \in {"get", "patch"}
    \/ ListReply(reply[c]) /\ call[c].op \in {"list", "get", "patch"}
    \/ DinosaurReply(reply[c], call[c]) /\ call[c].op \in {"get", "patch", "create"}

\* What the client has made of the reply.
Told(c) ==
    IF call[c].op = "list"
    THEN \A d \in ListField(seen[c].value, "items") :
            <<Field(d, "id"), Field(d, "species")>> \in held
    ELSE LET id == Field(seen[c].value, "id")
             species == Field(seen[c].value, "species")
         IN  /\ <<id, species>> \in held
             /\ Asked(call[c]) /\ call[c].op # "create" => <<id>> = call[c].id
             /\ Asked(call[c]) /\ call[c].op # "get" => species = Field(call[c].body, "species")

Typed(c) ==
    reply[c] # Nil =>
        \/ reply[c].status < 400 \/ reply[c].body = NoBody
        \/ ErrorField(seen[c].model, "code") = reply[c].body.code
        \/ call[c].op = "list" /\ reply[c].status = 400

CallerOK(c) ==
    /\ pc[c] = "idle" => call[c] = Nil /\ reply[c] = Nil
    /\ pc[c] \notin {"idle", "done"} => RequestOK(c)
    /\ pc[c] \in Answering /\ call[c] # Nil => ReplyOK(c)
    /\ pc[c] = "done" /\ call[c] # Nil => (seen[c].ok => Told(c)) /\ Typed(c)

ClientOK == \A c \in Callers : CallerOK(c)

IInv == ShapeOK /\ ChangeOK /\ ObservedOK /\ HeldOK /\ ClientOK
-----------------------------------------------------------------------------
LEMMA IInvInitially == Init => IInv
<1> SUFFICES ASSUME Init PROVE IInv
  OBVIOUS
<1>1. ShapeOK /\ ChangeOK /\ ObservedOK
  BY DEF Init, ShapeOK, ChangeOK, ObservedOK, Early
<1>2. HeldOK
  BY RequestsAssumption DEF Init, HeldOK
<1>3. ClientOK
  BY DEF Init, ClientOK, CallerOK, Answering
<1> QED BY <1>1, <1>2, <1>3 DEF IInv

-----------------------------------------------------------------------------
\* What stands for something else is no object.
LEMMA ObjectIsObject ==
    ASSUME NEW keys \in SUBSET ObjectKeys, NEW b \in Objects(keys)
    PROVE  IsObject(b) /\ b # Nil
  BY ObjectsAssumption DEF IsObject

\* ToMap keeps a struct whose fields are all set.
LEMMA SetOfFull ==
    ASSUME NEW keys, NEW o, o = [k \in keys |-> o[k]], \A k \in keys : o[k] # Nil
    PROVE  Set(o) = o
<1>1. DOMAIN o = keys
  OBVIOUS
<1>2. {k \in DOMAIN o : o[k] # Nil} = keys
  BY <1>1
<1> QED BY <1>2 DEF Set

LEMMA DinosaurIsObject ==
    ASSUME NEW d \in [DinosaurFields -> STRING]
    PROVE  /\ IsObject(d) /\ d # Nil
           /\ DinosaurToMap(d) = d /\ DinosaurFrom(d) = d /\ DinosaurAccepts(d)
           /\ Field(d, "id") = d.id /\ Field(d, "species") = d.species
<1>1. DinosaurFields \in SUBSET ObjectKeys /\ d \in Objects(DinosaurFields)
  BY DEF ObjectKeys, Objects
<1>2. IsObject(d) /\ d # Nil
  BY <1>1, ObjectIsObject
<1>3. \A k \in DinosaurFields : d[k] \in STRING /\ d[k] # Nil
  BY ObjectsAssumption
<1>4. Set(d) = d
  BY <1>3, SetOfFull
<1> QED BY <1>2, <1>3, <1>4
        DEF DinosaurToMap, DinosaurFrom, Filled, DinosaurAccepts, DinosaurFields, Field

LEMMA PresentedDinosaur ==
    ASSUME NEW id \in STRING, NEW species \in STRING
    PROVE  LET d == PresentDinosaur(id, species)
           IN  d \in [DinosaurFields -> STRING] /\ d.id = id /\ d.species = species
<1> DEFINE d == PresentDinosaur(id, species)
<1>1. d = [k \in DinosaurFields |-> d[k]]
  BY DEF PresentDinosaur, DinosaurFields
<1>2. d.id = id /\ d.species = species /\ d.kind = "Dinosaur"
  BY DEF PresentDinosaur
<1>3. \A k \in DinosaurFields : d[k] \in STRING
  BY <1>2, StringsAssumption DEF DinosaurFields
<1>4. d \in [DinosaurFields -> STRING]
  BY <1>1, <1>3
<1> QED BY <1>2, <1>4

\* An error with a reason is sent with all its fields.
LEMMA ErrorAsMap ==
    ASSUME NEW id \in Int, NEW code \in Int, NEW reason \in STRING
    PROVE  LET b == ErrorToMap([kind |-> "Error", id |-> id, code |-> code, reason |-> reason])
           IN  b = [kind |-> "Error", id |-> id, code |-> code, reason |-> reason]
<1> DEFINE o == [kind |-> "Error", id |-> id, code |-> code, reason |-> reason]
           keys == {"kind", "id", "code", "reason"}
<1>1. o = [k \in keys |-> o[k]]
  OBVIOUS
<1>2. /\ o.kind = "Error" /\ o.id = id /\ o.code = code /\ o.reason = reason
      /\ "Error" # Nil /\ id # Nil /\ code # Nil /\ reason # Nil
  BY ObjectsAssumption, StringsAssumption
<1>3. \A k \in keys : o[k] # Nil
  BY <1>2
<1>4. Set(o) = o
  BY <1>1, <1>3, SetOfFull
<1> QED BY <1>4 DEF ErrorToMap

LEMMA ErrorNumbers ==
    \A e \in DOMAIN Errors :
        e \in STRING /\ Errors[e].code \in Int /\ Errors[e].http \in 400..599
<1>1. \A e \in DOMAIN Errors : Errors[e].code \in Int
  BY DEF Errors
<1>2. \A e \in DOMAIN Errors : Errors[e].http \in 400..599
  BY DEF Errors
<1>3. DOMAIN Errors = {"NotFound", "Validation", "General", "Unauthorized", "MalformedRequest",
                       "BadRequest", "DatabaseAdvisoryLock"}
  BY DEF Errors
<1>4. DOMAIN Errors \subseteq STRING
  BY <1>3, StringsAssumption
<1> QED BY <1>1, <1>2, <1>4

LEMMA ErrorBodiesRead ==
    ASSUME NEW b \in ErrorBodies
    PROVE  /\ IsObject(b) /\ "code" \in DOMAIN b
           /\ ErrorField(ErrorFrom(b), "code") = b.code
<1> DEFINE keys == {"kind", "id", "code", "reason"}
<1>1. \E ks \in SUBSET ObjectKeys :
         "code" \in ks /\ b \in [ks -> STRING \cup Int] /\ b.code \in Int
  <2>1. CASE \E e \in DOMAIN Errors : b = AsOpenapiError(e)
    <3>1. PICK e \in DOMAIN Errors : b = AsOpenapiError(e)
      BY <2>1
    <3>2. e \in STRING /\ Errors[e].code \in Int
      BY <3>1, ErrorNumbers
    <3>3. b = [kind |-> "Error", id |-> Errors[e].code, code |-> Errors[e].code, reason |-> e]
      BY <3>1, <3>2, ErrorAsMap DEF AsOpenapiError
    <3>4. b \in [keys -> STRING \cup Int] /\ b.code \in Int
      <4>1. b = [k \in keys |-> b[k]]
        BY <3>3
      <4>2. b.kind = "Error" /\ b.id = Errors[e].code /\ b.code = Errors[e].code /\ b.reason = e
        BY <3>3
      <4> QED BY <3>2, <4>1, <4>2, StringsAssumption
    <3> QED BY <3>4 DEF ObjectKeys, DinosaurFields
  <2>2. CASE b = [type |-> "Error", id |-> 404, code |-> 404, reason |-> "NotFound"]
    <3>1. b \in [{"type", "id", "code", "reason"} -> STRING \cup Int] /\ b.code \in Int
      <4>1. b = [k \in {"type", "id", "code", "reason"} |-> b[k]]
        BY <2>2
      <4>2. "Error" \in STRING /\ "NotFound" \in STRING
        BY StringsAssumption
      <4>3. b.type \in STRING /\ b.reason \in STRING
        BY <2>2, <4>2
      <4>4. b.id \in Int /\ b.code \in Int
        BY <2>2
      <4> QED BY <4>1, <4>3, <4>4
    <3> QED BY <3>1 DEF ObjectKeys, DinosaurFields
  <2>3. CASE b = ErrorToMap([kind |-> "Error", id |-> 401, code |-> 401, reason |-> Nil])
    <3> DEFINE o == [kind |-> "Error", id |-> 401, code |-> 401, reason |-> Nil]
    <3>1. {k \in DOMAIN o : o[k] # Nil} = {"kind", "id", "code"}
      <4>1. DOMAIN o = {"kind", "id", "code", "reason"}
        OBVIOUS
      <4>2. o.kind = "Error" /\ o.id = 401 /\ o.code = 401 /\ o.reason = Nil
        OBVIOUS
      <4>3. o.kind # Nil /\ o.id # Nil /\ o.code # Nil
        <5>1. "Error" # Nil /\ 401 # Nil
          <6>1. PICK n \in Int : n = 401
            OBVIOUS
          <6> QED BY <6>1, ObjectsAssumption, StringsAssumption
        <5> HIDE DEF o
        <5> QED BY <4>2, <5>1
      <4> HIDE DEF o
      <4> QED BY <4>1, <4>2, <4>3
    <3>2. b = [k \in {"kind", "id", "code"} |-> o[k]]
      BY <2>3, <3>1 DEF ErrorToMap, Set
    <3>3. b \in [{"kind", "id", "code"} -> STRING \cup Int] /\ b.code \in Int
      <4>1. "Error" \in STRING
        BY StringsAssumption
      <4>2. o.kind \in STRING
        BY <4>1
      <4>3. o.id \in Int /\ o.code \in Int
        OBVIOUS
      <4> HIDE DEF o
      <4> QED BY <3>2, <4>2, <4>3
    <3> QED BY <3>3 DEF ObjectKeys, DinosaurFields
  <2> QED BY <2>1, <2>2, <2>3 DEF ErrorBodies
<1>2. PICK ks \in SUBSET ObjectKeys :
         "code" \in ks /\ b \in [ks -> STRING \cup Int] /\ b.code \in Int
  BY <1>1
<1>3. IsObject(b)
  BY <1>2, ObjectIsObject DEF Objects
<1>4. ErrorFrom(b) \in Objects(keys) /\ keys \in SUBSET ObjectKeys
  BY <1>2 DEF ErrorFrom, Filled, Objects, ObjectKeys, DinosaurFields
<1>5. ErrorFrom(b) # Nil
  BY <1>4, ObjectIsObject
<1>6. ErrorFrom(b).code = b.code /\ b.code # Nil
  BY <1>2, ObjectsAssumption DEF ErrorFrom, Filled
<1> QED BY <1>2, <1>3, <1>5, <1>6 DEF ErrorField
-----------------------------------------------------------------------------
\* What reaches the action has a species, which a row can have.
LEMMA ValidSpecies ==
    ASSUME NEW r, Invalid(r) = {},
           IsObject(r.body) /\ "species" \in DOMAIN r.body => r.body.species \in STRING \cup {Nil}
    PROVE  /\ r.method = "POST" => ConvertDinosaur(DinosaurFrom(r.body)) \in STRING
           /\ r.method = "PATCH" => Field(PatchFrom(r.body), "species") \in STRING
<1>1. CASE r.method = "POST"
  <2>1. r.body # NullBody
    <3>1. SUFFICES ASSUME r.body = NullBody PROVE FALSE
      OBVIOUS
    <3>2. Field(Filled(DinosaurFields, <<>>), "species") = ""
      BY DEF Filled, Field, DinosaurFields
    <3> QED BY <1>1, <3>1, <3>2 DEF Invalid, IsObject
  <2>2. r.body \notin {NoBody, Garbage}
    BY <1>1 DEF Invalid
  <2>3. IsObject(r.body)
    BY <2>1, <2>2 DEF IsObject
  <2> QED BY <1>1, <2>3, StringsAssumption DEF ConvertDinosaur, DinosaurFrom, Filled, Field, DinosaurFields
<1>2. CASE r.method = "PATCH"
  <2>1. r.body \notin {NoBody, Garbage, NullBody}
    BY <1>2 DEF Invalid
  <2> QED BY <1>2, <2>1, StringsAssumption DEF IsObject, PatchFrom, Filled, Field
<1> QED BY <1>1, <1>2

\* The species that the server decodes is the one that the client was given.
LEMMA SpeciesSent ==
    ASSUME NEW k \in Calls, k.body # Nil, NEW b, b = Prepare(k).body
    PROVE  /\ k.op = "create" => ConvertDinosaur(DinosaurFrom(b)) = Field(k.body, "species")
           /\ k.op = "patch" => Field(PatchFrom(b), "species") = Field(k.body, "species")
           /\ k.op \in {"create", "patch"} /\ "species" \in DOMAIN b => b.species \in STRING \cup {Nil}
<1>1. CASE k.op = "create"
  <2>1. k.body \in [DinosaurFields -> STRING \cup {Nil}]
    BY <1>1, CallsAssumption
  <2>2. b = Set(k.body)
    BY <1>1 DEF Prepare, Operation, PostOperation, DinosaurToMap
  <2>3. DinosaurFrom(b) \in [DinosaurFields -> STRING \cup {Nil}]
    BY <2>1, <2>2 DEF DinosaurFrom, Filled, Set
  <2>4. DinosaurFrom(b) # Nil
    BY <2>3, ObjectIsObject DEF Objects, ObjectKeys
  <2>5. DinosaurFrom(b).species = k.body.species
    BY <2>1, <2>2 DEF DinosaurFrom, Filled, Set, DinosaurFields
  <2>6. "species" \in DOMAIN b => b.species \in STRING \cup {Nil}
    BY <2>1, <2>2 DEF Set, DinosaurFields
  <2> QED BY <1>1, <2>4, <2>5, <2>6 DEF ConvertDinosaur, Field
<1>2. CASE k.op = "patch"
  <2>1. k.body \in [{"species"} -> STRING \cup {Nil}]
    BY <1>2, CallsAssumption
  <2>2. b = Set(k.body)
    BY <1>2 DEF Prepare, Operation, PatchOperation, PatchToMap
  <2>3. PatchFrom(b) \in [{"species"} -> STRING \cup {Nil}]
    BY <2>1, <2>2 DEF PatchFrom, Filled, Set
  <2>4. PatchFrom(b) # Nil
    BY <2>3, ObjectIsObject DEF Objects, ObjectKeys, DinosaurFields
  <2>5. PatchFrom(b).species = k.body.species
    BY <2>1, <2>2 DEF PatchFrom, Filled, Set
  <2>6. "species" \in DOMAIN b => b.species \in STRING \cup {Nil}
    BY <2>1, <2>2 DEF Set
  <2> QED BY <1>2, <2>4, <2>5, <2>6 DEF Field
<1> QED BY <1>1, <1>2

\* The operations of the calls, and where their requests are routed.
LEMMA OperationOf ==
    ASSUME NEW k \in Calls
    PROVE  /\ k.op \in {"list", "get", "patch", "create"}
           /\ k.op \in {"list", "get"} => Operation(k.op).method = "GET" /\ ~Operation(k.op).needs
           /\ k.op = "patch" => Operation(k.op).method = "PATCH" /\ Operation(k.op).needs
           /\ k.op = "create" => Operation(k.op).method = "POST" /\ Operation(k.op).needs
           /\ Operation(k.op).byId <=> k.op \in {"get", "patch"}
           /\ k.op = "list" => Operation(k.op).result = "DinosaurList"
           /\ k.op # "list" => Operation(k.op).result = "Dinosaur"
  BY CallsAssumption DEF Operation, ListOperation, GetOperation, PatchOperation, PostOperation

LEMMA TypedOf ==
    ASSUME NEW k \in Calls
    PROVE  /\ {401, 403, 500} \subseteq Operation(k.op).typed
           /\ k.op \in {"get", "patch"} => 404 \in Operation(k.op).typed
           /\ k.op \in {"patch", "create"} => 400 \in Operation(k.op).typed
  BY CallsAssumption DEF Operation, ListOperation, GetOperation, PatchOperation, PostOperation

LEMMA FourSegments ==
    ASSUME NEW S, NEW a \in S, NEW b \in S, NEW c \in S, NEW d \in S
    PROVE  <<a, b, c, d>> \in Seq(S) /\ Len(<<a, b, c, d>>) = 4
<1>1. <<a, b, c, d>> \in [1..4 -> S]
  OBVIOUS
<1>2. Len(<<a, b, c, d>>) = 4
  OBVIOUS
<1> QED BY <1>1, <1>2

LEMMA DinosaursSegments ==
    /\ DinosaursPath \in Seq(STRING) /\ Len(DinosaursPath) = 4
    /\ \A i \in 1..4 : DinosaursPath[i] \notin {"", ".", ".."}
    /\ DinosaursPath[4] = "dinosaurs"
<1>1. "api" \in STRING /\ "rh-trex" \in STRING /\ "v1" \in STRING /\ "dinosaurs" \in STRING
  BY StringsAssumption
<1>2. DinosaursPath \in Seq(STRING) /\ Len(DinosaursPath) = 4
  BY <1>1, FourSegments, Zenon DEF DinosaursPath
<1>3. \A i \in 1..4 : DinosaursPath[i] \in {"api", "rh-trex", "v1", "dinosaurs"}
  BY DEF DinosaursPath
<1>4. DinosaursPath[4] = "dinosaurs"
  BY DEF DinosaursPath
<1> QED BY <1>2, <1>3, <1>4

\* The path of an id of one segment, and what is left of it without that.
LEMMA OneMoreSegment ==
    ASSUME NEW S, NEW d \in Seq(S), NEW id \in Seq(S), Len(d) = 4, Len(id) = 1
    PROVE  LET p == d \o id
           IN  /\ p \in Seq(S) /\ Len(p) = 5 /\ Len(p) - 1 = 4 /\ p # <<>>
               /\ \A i \in 1..4 : p[i] = d[i]
               /\ p[5] = id[1] /\ p[Len(p)] = id[1] /\ SubSeq(p, 1, 4) = d
<1> DEFINE p == d \o id
<1>1. /\ p \in Seq(S) /\ Len(p) = Len(d) + Len(id)
      /\ \A i \in 1..Len(d) + Len(id) : p[i] = IF i <= Len(d) THEN d[i] ELSE id[i - Len(d)]
  BY ConcatProperties, Zenon
<1> HIDE DEF p
<1>2. Len(p) = 5 /\ Len(p) - 1 = 4 /\ p # <<>> /\ \A i \in 1..4 : p[i] = d[i]
  BY <1>1
<1>3. p[5] = id[1]
  <2>1. 5 \in 1..Len(d) + Len(id) /\ ~(5 <= Len(d)) /\ 5 - Len(d) = 1
    OBVIOUS
  <2> QED BY <1>1, <2>1
<1> DEFINE q == SubSeq(p, 1, 4)
<1>4. q \in Seq(S) /\ Len(q) = 4 /\ \A i \in 1..4 : q[i] = p[i]
  <2>1. \A i \in 1..4 : p[i] \in S
    <3>1. \A i \in 1..Len(d) : d[i] \in S
      BY ElementOfSeq
    <3> QED BY <1>2, <3>1
  <2>2. /\ q \in Seq(S) /\ Len(q) = IF 1 <= 4 THEN 4 - 1 + 1 ELSE 0
        /\ \A i \in 1..4 - 1 + 1 : q[i] = p[1 + i - 1]
    <3> QED BY <2>1, SubSeqProperties, SMT
  <2> HIDE DEF q
  <2>3. \A i \in 1..4 : 1 + i - 1 = i
    OBVIOUS
  <2>4. 4 - 1 + 1 = 4 /\ 1 <= 4
    OBVIOUS
  <2>5. \A i \in 1..4 : q[i] = p[i]
    BY <2>2, <2>3, <2>4, Zenon
  <2>6. Len(q) = 4
    BY <2>2, <2>4, Zenon
  <2> QED BY <2>2, <2>5, <2>6, Zenon
<1> HIDE DEF q
<1>5. q = d
  <2>1. Len(q) = Len(d) /\ \A i \in 1..Len(q) : q[i] = d[i]
    BY <1>2, <1>4
  <2> QED BY <1>4, <2>1, SeqEqual, Zenon
<1>6. p[Len(p)] = id[1]
  BY <1>2, <1>3
<1> QED BY <1>1, <1>2, <1>3, <1>5, <1>6, Zenon DEF p, q

LEMMA CollectionPath ==
    /\ Trimmed(DinosaursPath) = DinosaursPath /\ Clean(DinosaursPath)
    /\ DinosaursPath # MetadataPath
<1>1. DinosaursPath # <<>> /\ DinosaursPath # MetadataPath
  BY DEF DinosaursPath, MetadataPath
<1>2. DinosaursPath[Len(DinosaursPath)] # ""
  BY DinosaursSegments
<1>3. Trimmed(DinosaursPath) = DinosaursPath
  BY <1>2, Zenon DEF Trimmed
<1>4. Clean(DinosaursPath)
  BY <1>1, DinosaursSegments DEF Clean
<1> QED BY <1>1, <1>3, <1>4

\* A plain id has its own path, or that of the list.
LEMMA CallPath ==
    ASSUME NEW k \in Calls
    PROVE  /\ k.op \notin {"get", "patch"} => Path(k) = DinosaursPath
           /\ k.op \in {"get", "patch"} /\ Plain(k.id) =>
                 /\ Clean(Trimmed(Path(k)))
                 /\ \/ Trimmed(Path(k)) = DinosaursPath
                    \/ Len(Trimmed(Path(k))) = 5 /\ <<Trimmed(Path(k))[5]>> = k.id
<1>1. CASE k.op \notin {"get", "patch"}
  BY <1>1, OperationOf DEF Path
<1>2. CASE k.op \in {"get", "patch"} /\ Plain(k.id)
  <2> DEFINE p == DinosaursPath \o k.id
             e == k.id[1]
  <2>1. k.id \in Seq(STRING) /\ Len(k.id) = 1 /\ e \notin {".", ".."}
    BY <1>2, CallsAssumption DEF Plain
  <2>2. Path(k) = p
    BY <1>2, OperationOf DEF Path
  <2>3. /\ Len(p) = 5 /\ Len(p) - 1 = 4 /\ p # <<>>
        /\ \A i \in 1..4 : p[i] = DinosaursPath[i]
        /\ p[5] = e /\ p[Len(p)] = e /\ SubSeq(p, 1, 4) = DinosaursPath
    <3> DEFINE d == DinosaursPath
               i == k.id
               S == STRING
    <3>1. d \in Seq(S) /\ Len(d) = 4
      BY DinosaursSegments
    <3>2. i \in Seq(S) /\ Len(i) = 1
      BY <2>1
    <3> HIDE DEF d, i, S
    <3>3. LET q == d \o i
          IN  /\ q \in Seq(S) /\ Len(q) = 5 /\ Len(q) - 1 = 4 /\ q # <<>>
              /\ \A j \in 1..4 : q[j] = d[j]
              /\ q[5] = i[1] /\ q[Len(q)] = i[1] /\ SubSeq(q, 1, 4) = d
      BY <3>1, <3>2, OneMoreSegment, Zenon
    <3> QED BY <3>3, Zenon DEF d, i
  <2>4. <<e>> = k.id
    BY <2>1
  <2> HIDE DEF p, e
  <2>5. CASE e = ""
    <3>1. Trimmed(p) = SubSeq(p, 1, 4)
      BY <2>3, <2>5, Zenon DEF Trimmed
    <3> QED BY <1>2, <2>2, <2>3, <3>1, CollectionPath
  <2>6. CASE e # ""
    <3>1. Trimmed(p) = p
      BY <2>3, <2>6, Zenon DEF Trimmed
    <3>2. \A i \in 1..4 : p[i] \notin {"", ".", ".."}
      BY <2>3, DinosaursSegments, Zenon
    <3>3. p[5] \notin {"", ".", ".."}
      BY <2>1, <2>3, <2>6, Zenon
    <3>4. \A i \in 1..Len(p) : i \in 1..4 \/ i = 5
      BY <2>3
    <3>5. \A i \in 1..Len(p) : p[i] \notin {"", ".", ".."}
      BY <3>2, <3>3, <3>4, Zenon
    <3>6. Clean(p)
      BY <2>3, <3>5, Zenon DEF Clean
    <3> QED BY <1>2, <2>2, <2>3, <2>4, <3>1, <3>6
  <2> QED BY <2>5, <2>6
<1> QED BY <1>1, <1>2

LEMMA MethodsOf ==
    /\ Methods(DinosaursPath) = {"GET", "POST"}
    /\ \A path : "PATCH" \in Methods(path) => Len(path) = 5
<1>1. DinosaursPath \notin OpenAPIPaths
  BY DEF DinosaursPath, OpenAPIPaths
<1>2. Methods(DinosaursPath) = {"GET", "POST"}
  <2>1. DinosaursPath # MetadataPath /\ ~IsDinosaur(DinosaursPath)
    <3>1. Len(DinosaursPath) # 5
      BY DEF DinosaursPath
    <3> QED BY <3>1, CollectionPath, Zenon DEF IsDinosaur
  <2> QED BY <1>1, <2>1 DEF Methods
<1>3. ASSUME NEW path, "PATCH" \in Methods(path) PROVE Len(path) = 5
  BY <1>3 DEF Methods, IsDinosaur
<1> QED BY <1>2, <1>3

LEMMA ErrorAnswered ==
    ASSUME ShapeOK, NEW c \in Callers, NEW e \in DOMAIN Errors, HandleError(c, e)
    PROVE  /\ reply'[c].status = Errors[e].http /\ reply'[c].body \in ErrorBodies
           /\ Errors[e].http \in 400..599
<1>1. reply'[c] = [status |-> Errors[e].http, body |-> AsOpenapiError(e), header |-> TRUE]
  BY DEF ShapeOK, HandleError, Answer
<1>2. Errors[e].http \in 400..599
  BY ErrorNumbers
<1> QED BY <1>1, <1>2 DEF ErrorBodies
-----------------------------------------------------------------------------
\* A caller's step concerns its own request only.
LEMMA OthersStay ==
    ASSUME ShapeOK, NEW c \in Callers, Actions(c)
    PROVE  /\ ShapeOK'
           /\ \A d \in Callers \ {c} :
                 /\ pc'[d] = pc[d] /\ reply'[d] = reply[d] /\ changed'[d] = changed[d]
                 /\ metric'[d] = metric[d] /\ logged'[d] = logged[d] /\ request'[d] = request[d]
                 /\ call'[d] = call[d] /\ seen'[d] = seen[d]
<1> USE DEF ShapeOK, Goto, Answer, HandleError, store, observed
<1>1. CASE Send(c) \/ SendRaw(c) \/ RemoveTrailingSlash(c) \/ Refuse(c) \/ NotRouted(c)
  BY <1>1 DEF Send, SendRaw, RemoveTrailingSlash, Refuse, NotRouted
<1>2. CASE Metadata(c) \/ Begin(c) \/ BeginFails(c) \/ OpenAPI(c) \/ Validate(c)
  BY <1>2 DEF Metadata, Begin, BeginFails, OpenAPI, Validate
<1>3. CASE ActionFails(c) \/ Create(c) \/ Replace(c) \/ Delete(c)
  <2>1. CASE ActionFails(c) \/ Delete(c)
    BY <2>1 DEF ActionFails, Delete
  <2>2. CASE Create(c)
    BY <2>2 DEF Create, Write
  <2>3. CASE Replace(c)
    BY <2>3 DEF Replace, Write
  <2> QED BY <1>3, <2>1, <2>2, <2>3
<1>4. CASE Get(c) \/ NotFound(c) \/ List(c) \/ Panic(c) \/ Resolve(c)
  <2>1. CASE Get(c) \/ NotFound(c)
    BY <2>1 DEF Get, NotFound
  <2>2. CASE List(c)
    BY <2>2 DEF List
  <2>3. CASE Panic(c) \/ Resolve(c)
    BY <2>3 DEF Panic, Resolve
  <2> QED BY <1>4, <2>1, <2>2, <2>3
<1>5. CASE MetricsMiddleware(c) \/ RequestLogging(c) \/ Receive(c) \/ Lose(c)
  BY <1>5 DEF MetricsMiddleware, RequestLogging, Receive, Lose
<1>6. CASE Moved(c) \/ Follow(c)
  BY <1>6 DEF Moved, Follow
<1> QED BY <1>1, <1>2, <1>3, <1>4, <1>5, <1>6 DEF Actions

\* Only a write sets changed, and every write is answered with 201, 200, 204 or 500.
LEMMA ChangeKept ==
    ASSUME ShapeOK, ChangeOK, NEW c \in Callers, Actions(c)
    PROVE  ChangeOK'
<1>1. changed'[c] =>
         /\ pc'[c] \notin Early
         /\ pc'[c] # "done" => reply'[c].status # 301 /\ reply'[c].status \notin 400..499
  <2> USE DEF ShapeOK, ChangeOK, Goto, Answer, HandleError, Errors, Early, store, observed
  <2>1. CASE Send(c) \/ SendRaw(c) \/ RemoveTrailingSlash(c) \/ Refuse(c) \/ NotRouted(c)
    BY <2>1 DEF Send, SendRaw, RemoveTrailingSlash, Refuse, NotRouted, Routed, Admitted
  <2>2. CASE Metadata(c) \/ Begin(c) \/ BeginFails(c) \/ OpenAPI(c) \/ Validate(c)
    BY <2>2 DEF Metadata, Begin, BeginFails, OpenAPI, Validate, Routed, Admitted
  <2>3. CASE ActionFails(c) \/ Delete(c)
    BY <2>3 DEF ActionFails, Delete, Acting
  <2>4. CASE Create(c) \/ Replace(c)
    <3>1. pc'[c] = "resolving"
      BY <2>4 DEF Create, Replace
    <3>2. CASE Create(c)
      <4>1. \/ \E body : Answer(c, 201, body)
            \/ \E body : Answer(c, 500, body)
        BY <3>2 DEF Create
      <4>2. reply'[c].status \in {201, 500}
        BY <4>1
      <4> QED BY <3>1, <4>2
    <3>3. CASE Replace(c)
      <4>1. \/ \E body : Answer(c, 200, body)
            \/ \E body : Answer(c, 500, body)
        BY <3>3 DEF Replace
      <4>2. reply'[c].status \in {200, 500}
        BY <4>1
      <4> QED BY <3>1, <4>2
    <3> QED BY <2>4, <3>2, <3>3
  <2>5. CASE Get(c) \/ NotFound(c) \/ List(c) \/ Panic(c)
    BY <2>5 DEF Get, NotFound, List, Panic, Acting
  <2>6. CASE Resolve(c) \/ MetricsMiddleware(c) \/ RequestLogging(c) \/ Receive(c) \/ Lose(c)
    BY <2>6 DEF Resolve, MetricsMiddleware, RequestLogging, Receive, Lose
  <2>7. CASE Moved(c) \/ Follow(c)
    BY <2>7 DEF Moved, Follow, Admitted
  <2> QED BY <2>1, <2>2, <2>3, <2>4, <2>5, <2>6, <2>7 DEF Actions
<1> QED BY <1>1, OthersStay DEF ChangeOK

\* A reply passes the metrics and the log on its way back, and each reads its code
\* from the wrapper that WriteHeader went through.
LEMMA ObservedKept ==
    ASSUME ShapeOK, ObservedOK, NEW c \in Callers, Actions(c)
    PROVE  ObservedOK'
<1>1. /\ pc'[c] \in Early \cup {"resolving", "counting"} => metric'[c] = Nil /\ logged'[c] = Nil
      /\ pc'[c] \in {"resolving", "counting"} => reply'[c].header
      /\ pc'[c] = "logging" =>
            /\ metric'[c] \in {reply'[c].status, Nil} /\ logged'[c] = Nil
            /\ reply'[c].header \/ request'[c].path = MetadataPath
      /\ pc'[c] \in {"resolving", "counting", "logging"} => reply'[c].status # 301
      /\ pc'[c] = "answered" =>
            /\ {metric'[c], logged'[c]} \subseteq {reply'[c].status, Nil}
            /\ reply'[c].status = 301 => metric'[c] = Nil /\ logged'[c] = Nil
  <2> USE DEF ShapeOK, ObservedOK, Goto, Answer, HandleError, Early, store, observed
  <2>1. CASE Send(c) \/ SendRaw(c) \/ RemoveTrailingSlash(c)
    BY <2>1 DEF Send, SendRaw, RemoveTrailingSlash
  <2>2. CASE Refuse(c) \/ NotRouted(c) \/ Metadata(c)
    BY <2>2 DEF Refuse, NotRouted, Metadata, Routed, Admitted
  <2>3. CASE Begin(c) \/ BeginFails(c) \/ OpenAPI(c)
    BY <2>3 DEF Begin, BeginFails, OpenAPI, Routed, Admitted, Errors
  <2>4. CASE Validate(c)
    <3>1. Invalid(request[c]) \subseteq {"MalformedRequest", "Validation"}
      BY DEF Invalid
    <3>2. \A e \in {"MalformedRequest", "Validation", "Unauthorized"} : Errors[e].http # 301
      BY DEF Errors
    <3> QED BY <2>4, <3>1, <3>2 DEF Validate
  <2>5. CASE ActionFails(c) \/ Create(c) \/ Replace(c) \/ Delete(c)
    <3>1. Errors["General"].http # 301 /\ Errors["DatabaseAdvisoryLock"].http # 301
      BY DEF Errors
    <3> QED BY <2>5, <3>1 DEF ActionFails, Create, Replace, Delete, Acting
  <2>6. CASE Get(c) \/ NotFound(c) \/ List(c) \/ Panic(c)
    <3>1. Errors["NotFound"].http # 301 /\ Errors["BadRequest"].http # 301
      BY DEF Errors
    <3> QED BY <2>6, <3>1 DEF Get, NotFound, List, Panic, Acting
  <2>7. CASE Resolve(c) \/ Receive(c) \/ Lose(c)
    BY <2>7 DEF Resolve, Receive, Lose
  <2>8. CASE MetricsMiddleware(c)
    BY <2>8 DEF MetricsMiddleware, Code
  <2>9. CASE RequestLogging(c)
    BY <2>9 DEF RequestLogging, Suppressed
  <2>10. CASE Moved(c) \/ Follow(c)
    BY <2>10 DEF Moved, Follow, Admitted
  <2> QED BY <2>1, <2>2, <2>3, <2>4, <2>5, <2>6, <2>7, <2>8, <2>9, <2>10 DEF Actions
<1>2. ASSUME NEW d \in Callers \ {c}
      PROVE  /\ pc'[d] = pc[d] /\ reply'[d] = reply[d] /\ request'[d] = request[d]
             /\ metric'[d] = metric[d] /\ logged'[d] = logged[d]
  BY <1>2, OthersStay
<1> QED BY <1>1, <1>2 DEF ObservedOK

\* A row is written with an id and a species that are strings.
LEMMA HeldKept ==
    ASSUME ShapeOK, HeldOK, ClientOK, NEW c \in Callers, Actions(c)
    PROVE  HeldOK' /\ held \subseteq held'
<1>1. CASE Create(c) \/ Replace(c)
  <2>1. pc[c] = "acting" /\ RequestOK(c)
    BY <1>1 DEF Create, Replace, Acting, ClientOK, CallerOK
  <2>2. (\E id \in STRING, species \in STRING : Write(c, id, species)) \/ UNCHANGED store
    <3>1. CASE Create(c)
      <4>1. ConvertDinosaur(DinosaurFrom(request[c].body)) \in STRING
        BY <2>1, <3>1, ValidSpecies DEF Create, Acting, RequestOK
      <4>2. PICK id \in NewIds : Write(c, id, ConvertDinosaur(DinosaurFrom(request[c].body)))
        BY <3>1 DEF Create
      <4> QED BY <4>1, <4>2, RequestsAssumption
    <3>2. CASE Replace(c)
      <4>1. Field(PatchFrom(request[c].body), "species") \in STRING
        BY <2>1, <3>2, ValidSpecies DEF Replace, Acting, RequestOK
      <4>2. Id(c) \in STRING
        BY <3>2 DEF Replace, HeldOK
      <4>3. Write(c, Id(c), Field(PatchFrom(request[c].body), "species")) \/ UNCHANGED store
        BY <3>2 DEF Replace
      <4> QED BY <4>1, <4>2, <4>3
    <3> QED BY <1>1, <3>1, <3>2
  <2>3. CASE UNCHANGED store
    BY <2>3 DEF store, HeldOK
  <2>4. ASSUME NEW id \in STRING, NEW species \in STRING, Write(c, id, species)
        PROVE  HeldOK' /\ held \subseteq held'
    <3>1. held' = held \cup {<<id, species>>}
      BY <2>4 DEF Write
    <3>2. /\ DOMAIN rows' = DOMAIN rows \cup {id}
          /\ \A i \in DOMAIN rows' : rows'[i] = IF i = id THEN species ELSE rows[i]
      BY <2>4 DEF Write
    <3>3. held' \subseteq STRING \X STRING
      <4>1. <<id, species>> \in STRING \X STRING
        OBVIOUS
      <4> QED BY <3>1, <4>1 DEF HeldOK
    <3>4. ASSUME NEW i \in DOMAIN rows' PROVE <<i, rows'[i]>> \in held'
      <4>1. CASE i = id
        BY <3>1, <3>2, <4>1
      <4>2. CASE i # id
        BY <3>1, <3>2, <4>2 DEF HeldOK
      <4> QED BY <4>1, <4>2
    <3>5. IsFiniteSet(DOMAIN rows')
      <4>1. IsFiniteSet(DOMAIN rows \cup {id})
        BY FS_AddElement DEF HeldOK
      <4> QED BY <3>2, <4>1
    <3> QED BY <3>1, <3>3, <3>4, <3>5 DEF HeldOK
  <2> QED BY <2>2, <2>3, <2>4
<1>2. CASE Delete(c)
  <2>1. DOMAIN rows' \subseteq DOMAIN rows /\ \A id \in DOMAIN rows' : rows'[id] = rows[id]
    BY <1>2 DEF Delete
  <2>2. IsFiniteSet(DOMAIN rows')
    BY <2>1, FS_Subset DEF HeldOK
  <2>3. held' = held
    BY <1>2 DEF Delete
  <2> QED BY <2>1, <2>2, <2>3 DEF HeldOK
<1>3. CASE ~Create(c) /\ ~Replace(c) /\ ~Delete(c)
  <2>1. UNCHANGED store
    BY <1>3 DEF Actions, Send, SendRaw, RemoveTrailingSlash, Refuse, Moved, NotRouted, Metadata,
                Begin, BeginFails, OpenAPI, Validate, ActionFails, Get, NotFound, List, Panic,
                Resolve, MetricsMiddleware, RequestLogging, Follow, Receive, Lose, store
  <2> QED BY <2>1 DEF store, HeldOK
<1> QED BY <1>1, <1>2, <1>3

-----------------------------------------------------------------------------
\* The steps of the server, and what they leave alone.
Serving(c) ==
    \/ Refuse(c) \/ Moved(c) \/ NotRouted(c) \/ Metadata(c) \/ Begin(c) \/ BeginFails(c)
    \/ OpenAPI(c) \/ Validate(c) \/ ActionFails(c)
    \/ Create(c) \/ Replace(c) \/ Delete(c) \/ Get(c) \/ NotFound(c) \/ List(c) \/ Panic(c)
    \/ Resolve(c) \/ MetricsMiddleware(c) \/ RequestLogging(c)

LEMMA ServingKeeps ==
    ASSUME ShapeOK, NEW c \in Callers, Serving(c)
    PROVE  /\ call'[c] = call[c] /\ request'[c] = request[c]
           /\ pc[c] \notin {"idle", "sent", "done"} /\ pc'[c] \notin {"idle", "sent", "done"}
           /\ pc'[c] \in {"handler", "acting"} =>
                 pc[c] = "handler" \/ request[c].method \in Methods(request[c].path)
           /\ pc'[c] = "acting" => Invalid(request[c]) = {}
<1> USE DEF ShapeOK, Goto
<1>1. CASE Refuse(c) \/ Moved(c) \/ NotRouted(c) \/ Metadata(c) \/ Begin(c) \/ BeginFails(c)
  BY <1>1 DEF Refuse, Moved, NotRouted, Metadata, Begin, BeginFails, Routed, Admitted
<1>2. CASE OpenAPI(c) \/ Validate(c) \/ ActionFails(c)
  BY <1>2 DEF OpenAPI, Validate, ActionFails
<1>3. CASE Create(c) \/ Replace(c) \/ Delete(c) \/ Get(c)
  BY <1>3 DEF Create, Replace, Delete, Get, Acting
<1>4. CASE NotFound(c) \/ List(c) \/ Panic(c)
  BY <1>4 DEF NotFound, List, Panic, Acting
<1>5. CASE Resolve(c) \/ MetricsMiddleware(c) \/ RequestLogging(c)
  BY <1>5 DEF Resolve, MetricsMiddleware, RequestLogging
<1> QED BY <1>1, <1>2, <1>3, <1>4, <1>5 DEF Serving

\* A call's request arrives at the list, at the dinosaur of a plain id or, for
\* another id, anywhere; what it asks there is a GET if it is not as prepared.
LEMMA CallRouted ==
    ASSUME NEW c \in Callers, RequestOK(c), call[c] # Nil, pc[c] # "sent"
    PROVE  LET k == call[c]
               r == request[c]
           IN  /\ k \in Calls
               /\ \/ r.method = Operation(k.op).method /\ r.body = Prepare(k).body
                  \/ k.op \in {"get", "patch"} /\ ~Plain(k.id) /\ r.method = "GET"
               /\ k.op \notin {"get", "patch"} => r.path = DinosaursPath
               /\ k.op \in {"get", "patch"} /\ Plain(k.id) =>
                     /\ Clean(r.path)
                     /\ r.path = DinosaursPath \/ (Len(r.path) = 5 /\ <<r.path[5]>> = k.id)
<1> DEFINE k == call[c]
           r == request[c]
<1>1. k \in Calls /\ (Prepared(c) \/ Followed(c))
  BY DEF RequestOK
<1>2. Prepared(c) =>
         r.method = Operation(k.op).method /\ r.body = Prepare(k).body /\ r.path = Trimmed(Path(k))
  BY Zenon DEF Prepared
<1>3. Followed(c) => k.op \in {"get", "patch"} /\ ~Plain(k.id) /\ r.method = "GET"
  BY Zenon DEF Followed
<1> HIDE DEF k, r
<1>4. /\ k.op \notin {"get", "patch"} => Path(k) = DinosaursPath
      /\ k.op \in {"get", "patch"} /\ Plain(k.id) =>
            /\ Clean(Trimmed(Path(k)))
            /\ \/ Trimmed(Path(k)) = DinosaursPath
               \/ Len(Trimmed(Path(k))) = 5 /\ <<Trimmed(Path(k))[5]>> = k.id
  BY <1>1, CallPath, Zenon
<1>5. Trimmed(DinosaursPath) = DinosaursPath
  BY CollectionPath
<1> QED BY <1>1, <1>2, <1>3, <1>4, <1>5, Zenon DEF k, r

LEMMA RequestKept ==
    ASSUME ShapeOK, NEW c \in Callers, CallerOK(c), Actions(c), pc'[c] \notin {"idle", "done"}
    PROVE  RequestOK(c)'
<1>1. CASE Send(c)
  <2>1. PICK k \in Calls :
           /\ call' = [call EXCEPT ![c] = k]
           /\ Operation(k.op).needs => k.body # Nil
           /\ request' = [request EXCEPT ![c] = Prepare(k)]
           /\ Goto(c, "sent")
    BY <1>1 DEF Send, Goto, ShapeOK
  <2>2. call'[c] = k /\ request'[c] = Prepare(k) /\ pc'[c] = "sent"
    BY <2>1 DEF ShapeOK, Goto
  <2>3. /\ Prepare(k).method = Operation(k.op).method /\ Prepare(k).path = Path(k)
        /\ Prepare(k).query = Query(k)
        /\ DOMAIN Prepare(k) = {"method", "path", "query", "token", "body"}
    BY DEF Prepare
  <2>4. IsObject(Prepare(k).body) /\ "species" \in DOMAIN Prepare(k).body =>
           Prepare(k).body.species \in STRING \cup {Nil}
    <3>1. CASE k.op \in {"list", "get"}
      BY <3>1, OperationOf DEF Prepare, IsObject
    <3>2. CASE k.op \in {"patch", "create"}
      BY <2>1, <3>2, OperationOf, SpeciesSent
    <3> QED BY <3>1, <3>2, OperationOf
  <2>5. Prepared(c)'
    BY <2>2, <2>3 DEF Prepared
  <2> QED BY <2>1, <2>2, <2>3, <2>4, <2>5 DEF RequestOK
<1>2. CASE SendRaw(c)
  <2>1. PICK r \in Raw : request' = [request EXCEPT ![c] = r]
    BY <1>2 DEF SendRaw
  <2>2. call'[c] = Nil /\ request'[c] = r /\ pc'[c] = "sent"
    BY <1>2, <2>1 DEF SendRaw, ShapeOK, Goto, CallerOK
  <2> QED BY <2>1, <2>2, RawAssumption DEF RequestOK
<1>3. CASE RemoveTrailingSlash(c)
  <2>1. /\ RequestOK(c) /\ pc[c] = "sent" /\ pc'[c] = "trimmed" /\ call'[c] = call[c]
        /\ request'[c] = [request[c] EXCEPT !.path = Trimmed(@)]
    BY <1>3 DEF RemoveTrailingSlash, ShapeOK, Goto, CallerOK
  <2>2. DOMAIN request[c] = {"method", "path", "query", "token", "body"}
    BY <2>1 DEF RequestOK
  <2>3. /\ request'[c].path = Trimmed(request[c].path) /\ request'[c].method = request[c].method
        /\ request'[c].query = request[c].query /\ request'[c].body = request[c].body
        /\ DOMAIN request'[c] = DOMAIN request[c]
    BY <2>1, <2>2
  <2>4. Prepared(c) => Prepared(c)'
    BY <2>1, <2>3 DEF Prepared
  <2>5. Followed(c) => Followed(c)'
    BY <2>1, <2>3 DEF Followed
  <2> QED BY <2>1, <2>3, <2>4, <2>5 DEF RequestOK
<1>4. CASE Serving(c)
  <2>1. RequestOK(c) /\ pc[c] # "sent" /\ pc'[c] # "sent"
    BY <1>4, ServingKeeps DEF CallerOK
  <2>2. call'[c] = call[c] /\ request'[c] = request[c]
    BY <1>4, ServingKeeps
  <2>3. Prepared(c) => Prepared(c)'
    BY <2>1, <2>2 DEF Prepared
  <2>4. Followed(c) => Followed(c)'
    BY <2>2 DEF Followed
  <2> QED BY <1>4, <2>1, <2>2, <2>3, <2>4, ServingKeeps DEF RequestOK
<1>5. CASE Receive(c) \/ Lose(c)
  BY <1>5 DEF Receive, Lose, ShapeOK, Goto
<1>6. CASE Follow(c)
  <2>1. /\ pc[c] = "answered" /\ call[c] # Nil /\ reply[c].status = 301
        /\ pc'[c] = "sent" /\ call'[c] = call[c]
        /\ request'[c] = [request[c] EXCEPT !.method = "GET", !.body = NoBody, !.path = CleanPath(@)]
    BY <1>6 DEF Follow, ShapeOK, Goto
  <2>2. RequestOK(c) /\ ReplyOK(c)
    BY <2>1 DEF CallerOK, Answering
  <2>3. DOMAIN request[c] = {"method", "path", "query", "token", "body"}
    BY <2>2 DEF RequestOK
  <2>4. /\ request'[c].method = "GET" /\ request'[c].body = NoBody
        /\ request'[c].query = request[c].query /\ DOMAIN request'[c] = DOMAIN request[c]
    BY <2>1, <2>3
  <2>5. call[c].op \in {"get", "patch"} /\ ~Plain(call[c].id)
    BY <2>1, <2>2 DEF ReplyOK, ErrorReply, MovedReply, OtherReply, ListReply, DinosaurReply
  <2>6. Followed(c)'
    BY <2>1, <2>4, <2>5 DEF Followed
  <2>7. ~IsObject(NoBody)
    BY DEF IsObject
  <2> QED BY <2>1, <2>2, <2>4, <2>6, <2>7 DEF RequestOK
<1> QED BY <1>1, <1>2, <1>3, <1>4, <1>5, <1>6 DEF Actions, Serving

\* A handler's error is one that the operation declares.
LEMMA ErrorReplied ==
    ASSUME ShapeOK, NEW c \in Callers, call'[c] \in Calls, NEW e \in DOMAIN Errors, HandleError(c, e),
           \/ e \in {"General", "Unauthorized", "DatabaseAdvisoryLock"}
           \/ e = "NotFound" /\ call'[c].op \in {"get", "patch"}
           \/ e \in {"Validation", "MalformedRequest"} /\ call'[c].op \in {"patch", "create"}
           \/ e = "BadRequest" /\ call'[c].op = "list"
    PROVE  ReplyOK(c)'
<1> DEFINE op == call'[c].op
           typed == Operation(op).typed
           http == Errors[e].http
<1>1. reply'[c].body \in ErrorBodies /\ reply'[c].status = http /\ http \in 400..599
  BY ErrorAnswered
<1>2. {401, 403, 500} \subseteq typed
  BY TypedOf
<1>3. op \in {"get", "patch"} => 404 \in typed
  BY TypedOf
<1>4. op \in {"patch", "create"} => 400 \in typed
  BY TypedOf
<1>5. http \in typed \/ (op = "list" /\ http = 400)
  <2>1. /\ e \in {"General", "DatabaseAdvisoryLock"} => http = 500
        /\ e = "Unauthorized" => http = 403
        /\ e = "NotFound" => http = 404
        /\ e \in {"Validation", "MalformedRequest", "BadRequest"} => http = 400
    BY DEF Errors
  <2> HIDE DEF typed, http, op
  <2>2. CASE e \in {"General", "Unauthorized", "DatabaseAdvisoryLock"}
    <3>1. http = 403 \/ http = 500
      BY <2>1, <2>2
    <3>2. 403 \in typed /\ 500 \in typed
      BY <1>2
    <3> QED BY <3>1, <3>2
  <2>3. CASE e = "NotFound" /\ op \in {"get", "patch"}
    <3>1. http = 404
      BY <2>1, <2>3
    <3> QED BY <1>3, <2>3, <3>1, Zenon
  <2>4. CASE e \in {"Validation", "MalformedRequest"} /\ op \in {"patch", "create"}
    <3>1. http = 400
      BY <2>1, <2>4
    <3> QED BY <1>4, <2>4, <3>1, Zenon
  <2>5. CASE e = "BadRequest" /\ op = "list"
    <3>1. http = 400
      BY <2>1, <2>5
    <3> QED BY <2>5, <3>1, Zenon
  <2> QED BY <2>2, <2>3, <2>4, <2>5 DEF op
<1>6. ErrorReply(reply'[c], op)
  <2>1. reply'[c].status \in 400..599
    BY <1>1, Zenon
  <2>2. reply'[c].status \in typed \/ (op = "list" /\ reply'[c].status = 400)
    BY <1>1, <1>5, Zenon
  <2> HIDE DEF op, http
  <2> QED BY <1>1, <2>1, <2>2, Zenon DEF ErrorReply
<1> QED BY <1>6 DEF ReplyOK, ErrorReply

\* A dinosaur is told of as its row has it.
LEMMA DinosaurReplied ==
    ASSUME ShapeOK, NEW c \in Callers, NEW id \in STRING, NEW species \in STRING,
           NEW status \in {200, 201},
           Answer(c, status, DinosaurToMap(PresentDinosaur(id, species))),
           <<id, species>> \in held',
           call'[c].op \in {"get", "patch", "create"},
           Asked(call'[c]) /\ call'[c].op # "create" => <<id>> = call'[c].id,
           Asked(call'[c]) /\ call'[c].op # "get" => species = Field(call'[c].body, "species")
    PROVE  ReplyOK(c)'
<1> DEFINE d == PresentDinosaur(id, species)
<1>1. d \in [DinosaurFields -> STRING] /\ d.id = id /\ d.species = species
  BY PresentedDinosaur
<1> HIDE DEF d
<1>2. DinosaurToMap(d) = d
  BY <1>1, DinosaurIsObject
<1>3. reply'[c].status = status /\ reply'[c].body = d
  BY <1>2 DEF d, ShapeOK, Answer
<1>4. DinosaurReply(reply[c], call[c])'
  BY <1>1, <1>3 DEF DinosaurReply
<1> QED BY <1>4 DEF ReplyOK

\* The list of the rows.
LEMMA ListReplied ==
    ASSUME ShapeOK, HeldOK, NEW c \in Callers, UNCHANGED held, call'[c].op \in {"list", "get", "patch"},
           Answer(c, 200, DinosaurListToMap(
                [kind |-> "DinosaurList", page |-> 1, size |-> Cardinality(DOMAIN rows),
                 total |-> Cardinality(DOMAIN rows),
                 items |-> {PresentDinosaur(id, rows[id]) : id \in DOMAIN rows}]))
    PROVE  ReplyOK(c)'
<1>0. PICK size \in Nat : size = Cardinality(DOMAIN rows)
  BY FS_CardinalityType DEF HeldOK
<1> DEFINE ds == {PresentDinosaur(id, rows[id]) : id \in DOMAIN rows}
           b == [kind |-> "DinosaurList", page |-> 1, size |-> size, total |-> size, items |-> ds]
<1>1. \A d \in ds : /\ d \in [DinosaurFields -> STRING] /\ <<d.id, d.species>> \in held
                    /\ DinosaurToMap(d) = d
  <2>1. ASSUME NEW id \in DOMAIN rows
        PROVE  LET d == PresentDinosaur(id, rows[id])
               IN  /\ d \in [DinosaurFields -> STRING] /\ <<d.id, d.species>> \in held
                   /\ DinosaurToMap(d) = d
    <3>1. <<id, rows[id]>> \in held /\ id \in STRING /\ rows[id] \in STRING
      BY DEF HeldOK
    <3> QED BY <3>1, PresentedDinosaur, DinosaurIsObject
  <2> QED BY <2>1
<1>2. {DinosaurToMap(d) : d \in ds} = ds
  BY <1>1
<1>3. DinosaurListToMap(b) = b
  <2> HIDE DEF ds
  <2>1. b.items = ds /\ [b EXCEPT !.items = ds] = b
    OBVIOUS
  <2> HIDE DEF b
  <2>2. DinosaurListToMap(b) = [b EXCEPT !.items = {DinosaurToMap(d) : d \in b.items}]
    BY Zenon DEF DinosaurListToMap
  <2> QED BY <1>2, <2>1, <2>2, Zenon
<1>4. reply'[c].status = 200 /\ reply'[c].body = b
  BY <1>0, <1>3 DEF ShapeOK, Answer
<1>5. IsObject(b)
  <2>1. ds \in SUBSET [DinosaurFields -> STRING]
    BY <1>1
  <2>2. "DinosaurList" \in STRING
    BY StringsAssumption
  <2> HIDE DEF ds
  <2>3. b = [k \in DinosaurListFields |-> b[k]]
    BY DEF DinosaurListFields
  <2>4. b.kind \in STRING /\ b.page \in Int /\ b.size \in Int /\ b.total \in Int
    BY <2>2
  <2>5. b.items \in SUBSET [DinosaurFields -> STRING]
    BY <2>1
  <2> HIDE DEF b
  <2>6. b \in Objects(DinosaurListFields)
    BY <2>3, <2>4, <2>5 DEF Objects, DinosaurListFields
  <2> QED BY <2>6, ObjectIsObject DEF ObjectKeys
<1>6. DOMAIN b = DinosaurListFields /\ b.items = ds
  BY DEF DinosaurListFields
<1>7. ListReply(reply[c])'
  <2> HIDE DEF b, ds
  <2> QED BY <1>1, <1>4, <1>5, <1>6 DEF ListReply
<1> QED BY <1>7 DEF ReplyOK

\* What else the API answers with is no dinosaur.
LEMMA OthersOfAPI ==
    ASSUME NEW b, b = [id |-> "rh-trex"] \/ b = [openapi |-> "3.0.0"]
    PROVE  b # NoBody /\ ~DinosaurAccepts(b)
<1>1. "rh-trex" \in STRING /\ "3.0.0" \in STRING
  BY StringsAssumption
<1>2. b \in [{"id"} -> STRING] \/ b \in [{"openapi"} -> STRING]
  BY <1>1
<1>3. PICK keys \in {{"id"}, {"openapi"}} : b \in [keys -> STRING]
  BY <1>2
<1>4. b \in Objects(keys) /\ keys \in SUBSET ObjectKeys
  BY <1>3 DEF Objects, ObjectKeys, DinosaurFields
<1>5. IsObject(b)
  BY <1>4, ObjectIsObject
<1>6. "species" \notin DOMAIN b
  BY <1>3
<1> QED BY <1>5, <1>6 DEF IsObject, DinosaurAccepts

\* Whatever a call is answered with, its operation can be.
LEMMA AnswerKept ==
    ASSUME ShapeOK, HeldOK, HeldOK', held \subseteq held', NEW c \in Callers, CallerOK(c), Serving(c),
           call[c] # Nil, pc'[c] \in Answering
    PROVE  ReplyOK(c)'
<1> DEFINE k == call[c]
           r == request[c]
           one == k.op \in {"get", "patch"}
<1>1. /\ call'[c] = k /\ request'[c] = r /\ RequestOK(c) /\ pc[c] # "sent" /\ k \in Calls
      /\ k.op \in {"list", "get", "patch", "create"}
  BY ServingKeeps, CallRouted, OperationOf DEF CallerOK
<1>2. /\ \/ r.method = Operation(k.op).method /\ r.body = Prepare(k).body
         \/ one /\ ~Plain(k.id) /\ r.method = "GET"
      /\ ~one => r.path = DinosaursPath
      /\ one /\ Plain(k.id) =>
            Clean(r.path) /\ (r.path = DinosaursPath \/ (Len(r.path) = 5 /\ <<r.path[5]>> = k.id))
  BY <1>1, CallRouted
<1>3. /\ k.op = "list" => r.method = "GET"
      /\ k.op = "get" => r.method = "GET"
      /\ k.op = "patch" => r.method \in {"PATCH", "GET"} /\ (Plain(k.id) => r.method = "PATCH")
      /\ k.op = "create" => r.method = "POST"
      /\ r.method # "GET" => r.body = Prepare(k).body
  BY <1>1, <1>2, OperationOf
<1>4. ~one => r.path[4] = "dinosaurs" /\ r.path # MetadataPath /\ Clean(r.path)
  BY <1>2, DinosaursSegments, CollectionPath
<1>5. k.op \in {"patch", "create"} => k.body # Nil
  BY <1>1, OperationOf DEF RequestOK
<1>6. /\ ~one => Collection(c)
      /\ one /\ Plain(k.id) => Collection(c) \/ <<Id(c)>> = k.id
      /\ pc[c] = "acting" /\ r.method = "PATCH" => ~Collection(c)
  <2>1. r.path = DinosaursPath => Collection(c)
    BY DinosaursSegments DEF Collection
  <2>2. pc[c] = "acting" /\ r.method = "PATCH" => ~Collection(c)
    BY <1>1, MethodsOf DEF RequestOK, Collection
  <2> QED BY <1>2, <2>1, <2>2 DEF Id
<1> HIDE DEF k, r, one
<1>7. CASE Refuse(c)
  <2>1. /\ reply'[c].status = 401
        /\ reply'[c].body = ErrorToMap([kind |-> "Error", id |-> 401, code |-> 401, reason |-> Nil])
    BY <1>7 DEF Refuse, Answer, ShapeOK
  <2>2. reply'[c].body \in ErrorBodies
    BY <2>1 DEF ErrorBodies
  <2>3. 401 \in Operation(k.op).typed
    BY <1>1, TypedOf
  <2>4. reply'[c].status \in 400..599
    BY <2>1
  <2>5. ErrorReply(reply'[c], k.op)
    <3>1. reply'[c].status \in Operation(k.op).typed
      BY <2>1, <2>3, Zenon
    <3> QED BY <2>2, <2>4, <3>1, Zenon DEF ErrorReply
  <2> QED BY <1>1, <2>5 DEF ReplyOK, ErrorReply
<1>8. CASE NotRouted(c)
  <2>1. r.method \notin Methods(r.path)
    BY <1>8 DEF NotRouted, r
  <2>2. CASE Methods(r.path) = {}
    <3>1. k.op \in {"get", "patch"}
      BY <1>2, <2>2, MethodsOf DEF one
    <3>2. /\ reply'[c].status = 404
          /\ reply'[c].body = [type |-> "Error", id |-> 404, code |-> 404, reason |-> "NotFound"]
      BY <1>8, <2>2 DEF NotRouted, Answer, ShapeOK, r
    <3>3. reply'[c].body \in ErrorBodies
      BY <3>2 DEF ErrorBodies
    <3>4. 404 \in Operation(k.op).typed
      BY <1>1, <3>1, TypedOf
    <3>5. reply'[c].status \in 400..599
      BY <3>2
    <3>6. ErrorReply(reply'[c], k.op)
      <4>1. reply'[c].status \in Operation(k.op).typed
        BY <3>2, <3>4, Zenon
      <4> QED BY <3>3, <3>5, <4>1, Zenon DEF ErrorReply
    <3> QED BY <1>1, <3>6 DEF ReplyOK, ErrorReply
  <2>3. CASE Methods(r.path) # {}
    <3>1. reply'[c].status = 405 /\ reply'[c].body = NoBody
      BY <1>8, <2>3 DEF NotRouted, Answer, ShapeOK, r
    <3>2. ErrorReply(reply'[c], k.op)
      BY <3>1 DEF ErrorReply
    <3> QED BY <1>1, <3>2 DEF ReplyOK, ErrorReply
  <2> QED BY <2>2, <2>3
<1>9. CASE Metadata(c) \/ OpenAPI(c)
  <2>1. k.op \in {"get", "patch"}
    BY <1>4, <1>9 DEF Metadata, OpenAPI, r, one
  <2>2. /\ reply'[c].status = 200
        /\ reply'[c].body = [id |-> "rh-trex"] \/ reply'[c].body = [openapi |-> "3.0.0"]
    BY <1>9 DEF Metadata, OpenAPI, Answer, ShapeOK
  <2>3. reply'[c].body # NoBody /\ ~DinosaurAccepts(reply'[c].body)
    BY <2>2, OthersOfAPI
  <2>4. OtherReply(reply'[c])
    BY <2>2, <2>3 DEF OtherReply
  <2> QED BY <1>1, <2>1, <2>4 DEF ReplyOK, OtherReply
<1>10. CASE Begin(c) \/ Panic(c)
  BY <1>10 DEF Begin, Panic, Answering, ShapeOK, Goto
<1>11. CASE BeginFails(c)
  <2>1. HandleError(c, "General") /\ "General" \in DOMAIN Errors
    BY <1>11 DEF BeginFails, Errors
  <2> QED BY <1>1, <2>1, ErrorReplied
<1>12. CASE Validate(c)
  <2>1. \/ HandleError(c, "Unauthorized")
        \/ \E e \in Invalid(r) : HandleError(c, e)
    BY <1>12 DEF Validate, Answering, ShapeOK, Goto, r
  <2>2. CASE HandleError(c, "Unauthorized")
    BY <1>1, <2>2, ErrorReplied DEF Errors
  <2>3. ASSUME NEW e \in Invalid(r), HandleError(c, e) PROVE ReplyOK(c)'
    <3>1. e \in {"Validation", "MalformedRequest"} /\ r.method \in {"POST", "PATCH"}
      BY <2>3 DEF Invalid
    <3>2. k.op \in {"patch", "create"} /\ e \in DOMAIN Errors
      BY <1>1, <1>3, <3>1 DEF Errors
    <3> QED BY <1>1, <2>3, <3>1, <3>2, ErrorReplied
  <2> QED BY <2>1, <2>2, <2>3
<1>13. CASE ActionFails(c)
  <2>1. HandleError(c, "General") \/ HandleError(c, "DatabaseAdvisoryLock")
    BY <1>13 DEF ActionFails
  <2> QED BY <1>1, <2>1, ErrorReplied DEF Errors
<1>14. CASE Create(c)
  <2>1. PICK id \in NewIds :
           /\ Write(c, id, ConvertDinosaur(DinosaurFrom(r.body)))
           /\ \/ Answer(c, 201, DinosaurToMap(PresentDinosaur(id, ConvertDinosaur(DinosaurFrom(r.body)))))
              \/ HandleError(c, "General")
    BY <1>14 DEF Create, r
  <2>2. k.op = "create" /\ Invalid(r) = {}
    BY <1>1, <1>3, <1>14 DEF Create, Acting, RequestOK, r
  <2>3. /\ ConvertDinosaur(DinosaurFrom(r.body)) = Field(k.body, "species")
        /\ ConvertDinosaur(DinosaurFrom(r.body)) \in STRING
    <3>1. ConvertDinosaur(DinosaurFrom(r.body)) = Field(k.body, "species")
      BY <1>1, <1>3, <1>5, <2>2, SpeciesSent
    <3>2. r.method = "POST" /\ (IsObject(r.body) /\ "species" \in DOMAIN r.body =>
                                   r.body.species \in STRING \cup {Nil})
      BY <1>1, <1>3, <2>2 DEF RequestOK, r
    <3> QED BY <2>2, <3>1, <3>2, ValidSpecies
  <2>4. <<id, ConvertDinosaur(DinosaurFrom(r.body))>> \in held'
    BY <2>1 DEF Write
  <2>5. id \in STRING
    BY RequestsAssumption
  <2>6. CASE HandleError(c, "General")
    BY <1>1, <2>6, ErrorReplied DEF Errors
  <2>7. CASE Answer(c, 201, DinosaurToMap(PresentDinosaur(id, ConvertDinosaur(DinosaurFrom(r.body)))))
    BY <1>1, <2>2, <2>3, <2>4, <2>5, <2>7, DinosaurReplied
  <2> QED BY <2>1, <2>6, <2>7
<1>15. CASE Replace(c)
  <2> DEFINE species == Field(PatchFrom(r.body), "species")
  <2>1. /\ Id(c) \in DOMAIN rows
        /\ \/ rows[Id(c)] = species /\ UNCHANGED store
           \/ Write(c, Id(c), species)
        /\ \/ Answer(c, 200, DinosaurToMap(PresentDinosaur(Id(c), species)))
           \/ HandleError(c, "General")
    BY <1>15 DEF Replace, r
  <2>2. k.op = "patch" /\ Invalid(r) = {} /\ r.method = "PATCH"
    BY <1>1, <1>3, <1>15 DEF Replace, Acting, RequestOK, r
  <2>3. species = Field(k.body, "species") /\ species \in STRING
    <3>1. species = Field(k.body, "species")
      BY <1>1, <1>3, <1>5, <2>2, SpeciesSent
    <3>2. IsObject(r.body) /\ "species" \in DOMAIN r.body => r.body.species \in STRING \cup {Nil}
      BY <1>1 DEF RequestOK, r
    <3> QED BY <2>2, <3>1, <3>2, ValidSpecies
  <2> HIDE DEF species
  <2>4. <<Id(c), species>> \in held'
    BY <2>1 DEF Write, store, HeldOK
  <2>5. Id(c) \in STRING
    BY <2>1 DEF HeldOK
  <2>6. Plain(k.id) => <<Id(c)>> = k.id
    BY <1>15, <1>6, <2>2 DEF Replace, Acting, one
  <2>7. CASE HandleError(c, "General")
    BY <1>1, <2>7, ErrorReplied DEF Errors
  <2>8. CASE Answer(c, 200, DinosaurToMap(PresentDinosaur(Id(c), species)))
    BY <1>1, <2>2, <2>3, <2>4, <2>5, <2>6, <2>8, DinosaurReplied DEF Asked
  <2> QED BY <2>1, <2>7, <2>8
<1>16. CASE Delete(c)
  BY <1>1, <1>3, <1>16 DEF Delete, Acting, r
<1>17. CASE Get(c)
  <2>1. /\ Id(c) \in DOMAIN rows /\ UNCHANGED store /\ r.method = "GET" /\ ~Collection(c)
        /\ Answer(c, 200, DinosaurToMap(PresentDinosaur(Id(c), rows[Id(c)])))
    BY <1>17 DEF Get, Acting, r
  <2>2. <<Id(c), rows[Id(c)]>> \in held' /\ Id(c) \in STRING /\ rows[Id(c)] \in STRING
    BY <2>1 DEF HeldOK, store
  <2>3. /\ k.op \in {"get", "patch"}
        /\ Plain(k.id) => k.op = "get" /\ <<Id(c)>> = k.id
    BY <1>1, <1>3, <1>6, <2>1 DEF one
  <2> QED BY <1>1, <2>1, <2>2, <2>3, DinosaurReplied DEF Asked
<1>18. CASE NotFound(c)
  <2>1. HandleError(c, "NotFound") /\ r.method \in {"GET", "PATCH"} /\ ~Collection(c)
    BY <1>18 DEF NotFound, r
  <2>2. k.op \in {"get", "patch"}
    BY <1>6, <2>1 DEF one
  <2> QED BY <1>1, <2>1, <2>2, ErrorReplied DEF Errors
<1>19. CASE List(c)
  <2>1. k.op \in {"list", "get", "patch"}
    BY <1>1, <1>3, <1>19 DEF List, Acting, r
  <2>2. CASE HandleError(c, "BadRequest") /\ {"search", "orderBy"} \cap DOMAIN r.query # {}
    <3>1. k.op = "list"
      <4>1. r.query = Set(k.query)
        BY <1>1 DEF RequestOK, Query, r, k
      <4>2. k.op # "list" => DOMAIN r.query = {}
        BY <1>1, <4>1, CallsAssumption DEF Set
      <4> QED BY <2>2, <4>2
    <3> QED BY <1>1, <2>2, <3>1, ErrorReplied DEF Errors
  <2>3. CASE Answer(c, 200, DinosaurListToMap(
                [kind |-> "DinosaurList", page |-> 1, size |-> Cardinality(DOMAIN rows),
                 total |-> Cardinality(DOMAIN rows),
                 items |-> {PresentDinosaur(id, rows[id]) : id \in DOMAIN rows}]))
    <3>1. UNCHANGED held /\ call'[c].op \in {"list", "get", "patch"}
      BY <1>1, <1>19, <2>1 DEF List, store
    <3> QED BY <2>3, <3>1, ListReplied
  <2> QED BY <1>19, <2>2, <2>3 DEF List, r
<1>20. CASE Resolve(c) \/ MetricsMiddleware(c) \/ RequestLogging(c)
  <2>1. UNCHANGED <<reply, held>> /\ pc[c] \in Answering
    BY <1>20 DEF Resolve, MetricsMiddleware, RequestLogging, store, Answering
  <2>2. ReplyOK(c)
    BY <2>1 DEF CallerOK
  <2>3. reply'[c] = reply[c] /\ call'[c] = call[c] /\ held' = held
    BY <1>1, <2>1 DEF k
  <2>4. ErrorReply(reply[c], call[c].op) => ErrorReply(reply[c], call[c].op)'
    BY <2>3 DEF ErrorReply
  <2>5. ListReply(reply[c]) => ListReply(reply[c])'
    BY <2>3 DEF ListReply
  <2>6. DinosaurReply(reply[c], call[c]) => DinosaurReply(reply[c], call[c])'
    BY <2>3 DEF DinosaurReply
  <2>7. MovedReply(reply[c], call[c]) => MovedReply(reply[c], call[c])'
    BY <2>3 DEF MovedReply
  <2>8. OtherReply(reply[c]) => OtherReply(reply[c])'
    BY <2>3 DEF OtherReply
  <2> QED BY <2>2, <2>3, <2>4, <2>5, <2>6, <2>7, <2>8, Zenon DEF ReplyOK
<1>21. CASE Moved(c)
  <2>1. k.op \in {"get", "patch"} /\ ~Plain(k.id)
    BY <1>2, <1>4, <1>21 DEF Moved, r, one
  <2>2. reply'[c].status = 301 /\ reply'[c].body = NoBody
    BY <1>21 DEF Moved, Answer, ShapeOK
  <2>3. MovedReply(reply'[c], k)
    BY <2>1, <2>2 DEF MovedReply
  <2> QED BY <1>1, <2>3 DEF ReplyOK, MovedReply
<1> QED BY <1>7, <1>8, <1>9, <1>10, <1>11, <1>12, <1>13, <1>14, <1>15, <1>16, <1>17, <1>18, <1>19,
           <1>20, <1>21 DEF Serving

\* What the client makes of each reply.
LEMMA ErrorOutcome ==
    ASSUME NEW r, NEW k \in Calls, ErrorReply(r, k.op)
    PROVE  LET o == Outcome(k.op, r)
           IN  /\ ~o.ok
               /\ \/ r.body = NoBody
                  \/ ErrorField(o.model, "code") = r.body.code
                  \/ k.op = "list" /\ r.status = 400
<1> DEFINE typed == Operation(k.op).typed
           result == Operation(k.op).result
<1>1. r.status >= 300
  BY DEF ErrorReply
<1>2. Outcome(k.op, r) = Failure(IF r.status \in typed /\ Decodes("Error", r.body)
                                 THEN Decode("Error", r.body) ELSE Nil)
  BY <1>1, Zenon DEF Outcome
<1>3. CASE r.body = NoBody
  BY <1>2, <1>3 DEF Failure
<1>4. CASE r.body \in ErrorBodies /\ r.status \in typed
  <2>1. /\ IsObject(r.body) /\ "code" \in DOMAIN r.body
        /\ ErrorField(ErrorFrom(r.body), "code") = r.body.code
    BY <1>4, ErrorBodiesRead
  <2>2. Decodes("Error", r.body)
    BY <2>1 DEF Decodes
  <2>3. Decode("Error", r.body) = ErrorFrom(r.body)
    BY <2>1 DEF Decode, IsObject
  <2>4. Outcome(k.op, r) = Failure(ErrorFrom(r.body))
    BY <1>2, <1>4, <2>2, <2>3, Zenon
  <2>5. ~Outcome(k.op, r).ok /\ Outcome(k.op, r).model = ErrorFrom(r.body)
    BY <2>4 DEF Failure
  <2> QED BY <2>1, <2>5, Zenon
<1>5. CASE k.op = "list" /\ r.status = 400
  BY <1>2, <1>5 DEF Failure
<1> QED BY <1>3, <1>4, <1>5, Zenon DEF ErrorReply

LEMMA ListOutcome ==
    ASSUME NEW r, NEW k \in Calls, k.op \in {"list", "get", "patch"}, ListReply(r),
           Outcome(k.op, r).ok
    PROVE  /\ k.op = "list"
           /\ \A d \in ListField(Outcome(k.op, r).value, "items") :
                 <<Field(d, "id"), Field(d, "species")>> \in held
<1>1. r.status = 200 /\ IsObject(r.body) /\ DOMAIN r.body = DinosaurListFields
  BY DEF ListReply
<1>2. ~(r.status >= 300) /\ r.body # NoBody
  BY <1>1 DEF IsObject
<1>3. Outcome(k.op, r) = IF Decodes(Operation(k.op).result, r.body)
                         THEN Success(Decode(Operation(k.op).result, r.body)) ELSE Failure(Nil)
  BY <1>2, Zenon DEF Outcome
<1>4. ASSUME k.op \in {"get", "patch"} PROVE FALSE
  <2>1. Operation(k.op).result = "Dinosaur"
    BY <1>4, OperationOf
  <2>2. ~DinosaurAccepts(r.body)
    BY <1>1 DEF DinosaurAccepts, DinosaurListFields, DinosaurFields
  <2>3. ~Decodes("Dinosaur", r.body)
    BY <1>2, <2>2 DEF Decodes
  <2>4. Outcome(k.op, r) = Failure(Nil)
    BY <1>3, <2>1, <2>3, Zenon
  <2> QED BY <2>4 DEF Failure
<1>5. k.op = "list" /\ Operation(k.op).result = "DinosaurList"
  BY <1>4, OperationOf
<1>6. Outcome(k.op, r) = Success(DinosaurListFrom(r.body))
  <2>1. Outcome(k.op, r) \in {Success(Decode("DinosaurList", r.body)), Failure(Nil)}
    BY <1>3, <1>5
  <2>2. Outcome(k.op, r) # Failure(Nil)
    BY DEF Failure
  <2>3. Decode("DinosaurList", r.body) = DinosaurListFrom(r.body)
    BY <1>2 DEF Decode
  <2> QED BY <2>1, <2>2, <2>3
<1>7. \A d \in r.body.items : DinosaurFrom(d) = d
  BY DinosaurIsObject DEF ListReply
<1>8. DinosaurListFrom(r.body).items = r.body.items
  <2>1. DinosaurListFrom(r.body).items = {DinosaurFrom(d) : d \in r.body.items}
    BY <1>1 DEF DinosaurListFrom, DinosaurListFields
  <2> QED BY <1>7, <2>1
<1>9. Outcome(k.op, r).value = DinosaurListFrom(r.body)
  BY <1>6 DEF Success
<1>10. ASSUME NEW d \in r.body.items PROVE <<Field(d, "id"), Field(d, "species")>> \in held
  BY DinosaurIsObject DEF ListReply
<1>11. ListField(Outcome(k.op, r).value, "items") \subseteq r.body.items
  BY <1>8, <1>9 DEF ListField
<1> QED BY <1>5, <1>10, <1>11

LEMMA OtherOutcome ==
    ASSUME NEW r, NEW k \in Calls, k.op \in {"get", "patch"}, OtherReply(r)
    PROVE  ~Outcome(k.op, r).ok
<1>1. ~(r.status >= 300) /\ r.body # NoBody /\ ~DinosaurAccepts(r.body)
  BY DEF OtherReply
<1>2. Operation(k.op).result = "Dinosaur"
  BY OperationOf
<1>3. ~Decodes("Dinosaur", r.body)
  BY <1>1 DEF Decodes
<1>4. Outcome(k.op, r) = Failure(Nil)
  BY <1>1, <1>2, <1>3, Zenon DEF Outcome
<1> QED BY <1>4 DEF Failure

LEMMA DinosaurOutcome ==
    ASSUME NEW r, NEW k \in Calls, k.op \in {"get", "patch", "create"}, DinosaurReply(r, k)
    PROVE  LET value == Outcome(k.op, r).value
           IN  /\ <<Field(value, "id"), Field(value, "species")>> \in held
               /\ Asked(k) /\ k.op # "create" => <<Field(value, "id")>> = k.id
               /\ Asked(k) /\ k.op # "get" => Field(value, "species") = Field(k.body, "species")
<1>1. ~(r.status >= 300)
  BY DEF DinosaurReply
<1>2. Outcome(k.op, r) = IF Decodes(Operation(k.op).result, r.body)
                         THEN Success(Decode(Operation(k.op).result, r.body)) ELSE Failure(Nil)
  BY <1>1, Zenon DEF Outcome
<1>3. /\ IsObject(r.body) /\ DinosaurFrom(r.body) = r.body /\ DinosaurAccepts(r.body)
      /\ Field(r.body, "id") = r.body.id /\ Field(r.body, "species") = r.body.species
  BY DinosaurIsObject DEF DinosaurReply
<1>4. Operation(k.op).result = "Dinosaur"
  BY OperationOf
<1>5. Decodes("Dinosaur", r.body) /\ Decode("Dinosaur", r.body) = r.body
  BY <1>3 DEF Decodes, Decode, IsObject
<1>6. Outcome(k.op, r) = Success(r.body)
  BY <1>2, <1>4, <1>5, Zenon
<1>7. Outcome(k.op, r).value = r.body
  BY <1>6 DEF Success
<1> QED BY <1>3, <1>7 DEF DinosaurReply

\* A caller is told what the reply says, and what it has been told stays true.
LEMMA ToldKept ==
    ASSUME ShapeOK, NEW c \in Callers, CallerOK(c), Actions(c), pc'[c] = "done", call'[c] # Nil,
           held \subseteq held'
    PROVE  (seen'[c].ok => Told(c)') /\ Typed(c)'
<1> USE DEF ShapeOK, Goto
<1>1. CASE Send(c)
  <2>1. seen'[c] = Failure(Nil) /\ reply'[c] = reply[c] /\ pc[c] = "idle"
    BY <1>1 DEF Send
  <2>2. reply[c] = Nil
    BY <2>1 DEF CallerOK
  <2> QED BY <2>1, <2>2 DEF Failure, Typed
<1>2. CASE Receive(c)
  <2> DEFINE k == call[c]
             o == Outcome(k.op, reply[c])
  <2>1. /\ call' = call /\ reply' = reply /\ held' = held /\ pc[c] = "answered"
        /\ seen'[c] = o /\ k # Nil
    BY <1>2 DEF Receive, store
  <2>2. k \in Calls /\ ReplyOK(c)
    BY <2>1 DEF CallerOK, RequestOK, Answering
  <2> HIDE DEF k, o
  <2>3. CASE ErrorReply(reply[c], k.op)
    <3>1. /\ ~o.ok
          /\ \/ reply[c].body = NoBody
             \/ ErrorField(o.model, "code") = reply[c].body.code
             \/ k.op = "list" /\ reply[c].status = 400
      BY <2>2, <2>3, ErrorOutcome DEF o
    <3> QED BY <2>1, <3>1 DEF Typed, k
  <2>4. CASE ListReply(reply[c]) /\ k.op \in {"list", "get", "patch"}
    <3>1. o.ok => /\ k.op = "list"
                  /\ \A d \in ListField(o.value, "items") :
                        <<Field(d, "id"), Field(d, "species")>> \in held
      BY <2>2, <2>4, ListOutcome DEF o
    <3>2. reply[c].status < 400
      BY <2>4 DEF ListReply
    <3>3. o.ok => Told(c)'
      BY <2>1, <3>1 DEF Told, k
    <3> QED BY <2>1, <3>2, <3>3 DEF Typed
  <2>5. CASE DinosaurReply(reply[c], k) /\ k.op \in {"get", "patch", "create"}
    <3>1. /\ <<Field(o.value, "id"), Field(o.value, "species")>> \in held
          /\ Asked(k) /\ k.op # "create" => <<Field(o.value, "id")>> = k.id
          /\ Asked(k) /\ k.op # "get" => Field(o.value, "species") = Field(k.body, "species")
      BY <2>2, <2>5, DinosaurOutcome DEF o
    <3>2. reply[c].status < 400
      BY <2>5 DEF DinosaurReply
    <3>3. Told(c)'
      BY <2>1, <2>5, <3>1 DEF Told, k
    <3> QED BY <2>1, <3>2, <3>3 DEF Typed
  <2>6. CASE MovedReply(reply[c], k)
    BY <1>2, <2>1, <2>6 DEF Receive, MovedReply, k
  <2>7. CASE OtherReply(reply[c]) /\ k.op \in {"get", "patch"}
    <3>1. ~o.ok
      BY <2>2, <2>7, OtherOutcome DEF o
    <3>2. reply[c].status < 400
      BY <2>7 DEF OtherReply
    <3> QED BY <2>1, <3>1, <3>2 DEF Typed
  <2> QED BY <2>2, <2>3, <2>4, <2>5, <2>6, <2>7 DEF ReplyOK, k
<1>3. CASE Lose(c)
  <2>1. reply'[c] = Nil /\ seen'[c] = Failure(Nil)
    BY <1>3 DEF Lose
  <2> QED BY <2>1 DEF Failure, Typed
<1>4. CASE SendRaw(c) \/ RemoveTrailingSlash(c) \/ Follow(c)
  BY <1>4 DEF SendRaw, RemoveTrailingSlash, Follow
<1>5. CASE Serving(c)
  BY <1>5, ServingKeeps
<1> QED BY <1>1, <1>2, <1>3, <1>4, <1>5 DEF Actions, Serving

LEMMA ClientKept ==
    ASSUME ShapeOK, HeldOK, ClientOK, NEW c \in Callers, Actions(c)
    PROVE  ClientOK'
<1>1. HeldOK' /\ held \subseteq held' /\ CallerOK(c)
  BY HeldKept DEF ClientOK
<1>2. CallerOK(c)'
  <2>1. pc'[c] # "idle"
    <3>1. CASE Serving(c)
      BY <3>1, ServingKeeps
    <3>2. CASE ~Serving(c)
      BY <3>2 DEF Actions, Serving, Send, SendRaw, RemoveTrailingSlash, Follow, Receive, Lose, Goto,
                  ShapeOK
    <3> QED BY <3>1, <3>2
  <2>2. pc'[c] \notin {"idle", "done"} => RequestOK(c)'
    BY <1>1, RequestKept
  <2>3. pc'[c] \in Answering /\ call'[c] # Nil => ReplyOK(c)'
    <3>1. CASE Serving(c)
      BY <1>1, <3>1, AnswerKept, ServingKeeps
    <3>2. CASE ~Serving(c)
      <4>1. pc'[c] \notin Answering
        BY <3>2 DEF Actions, Serving, Send, SendRaw, RemoveTrailingSlash, Follow, Receive, Lose, Goto,
                    ShapeOK, Answering
      <4> QED BY <4>1
    <3> QED BY <3>1, <3>2
  <2>4. pc'[c] = "done" /\ call'[c] # Nil => (seen'[c].ok => Told(c)') /\ Typed(c)'
    BY <1>1, ToldKept
  <2> QED BY <2>1, <2>2, <2>3, <2>4, Zenon DEF CallerOK
<1>3. ASSUME NEW d \in Callers \ {c} PROVE CallerOK(d)'
  <2>1. /\ pc'[d] = pc[d] /\ reply'[d] = reply[d] /\ request'[d] = request[d]
        /\ call'[d] = call[d] /\ seen'[d] = seen[d]
    BY OthersStay
  <2>2. CallerOK(d)
    BY DEF ClientOK
  <2>3. RequestOK(d) => RequestOK(d)'
    <3>1. Prepared(d) => Prepared(d)'
      BY <2>1 DEF Prepared
    <3>2. Followed(d) => Followed(d)'
      BY <2>1 DEF Followed
    <3> QED BY <2>1, <3>1, <3>2 DEF RequestOK
  <2>4. ReplyOK(d) => ReplyOK(d)'
    <3>1. ErrorReply(reply[d], call[d].op) => ErrorReply(reply[d], call[d].op)'
      BY <2>1 DEF ErrorReply
    <3>2. ListReply(reply[d]) => ListReply(reply[d])'
      BY <1>1, <2>1 DEF ListReply
    <3>3. DinosaurReply(reply[d], call[d]) => DinosaurReply(reply[d], call[d])'
      BY <1>1, <2>1 DEF DinosaurReply
    <3>4. MovedReply(reply[d], call[d]) => MovedReply(reply[d], call[d])'
      BY <2>1 DEF MovedReply
    <3>5. OtherReply(reply[d]) => OtherReply(reply[d])'
      BY <2>1 DEF OtherReply
    <3> QED BY <2>1, <3>1, <3>2, <3>3, <3>4, <3>5, Zenon DEF ReplyOK
  <2>5. Told(d) => Told(d)'
    BY <1>1, <2>1 DEF Told
  <2>6. Typed(d) => Typed(d)'
    BY <2>1 DEF Typed
  <2> QED BY <2>1, <2>2, <2>3, <2>4, <2>5, <2>6, Zenon DEF CallerOK
<1> QED BY <1>2, <1>3 DEF ClientOK

LEMMA IInvKept == IInv /\ [Next]_vars => IInv'
<1> SUFFICES ASSUME IInv, [Next]_vars PROVE IInv'
  OBVIOUS
<1>1. ASSUME NEW c \in Callers, Actions(c) PROVE IInv'
  BY <1>1, OthersStay, ChangeKept, ObservedKept, HeldKept, ClientKept DEF IInv
<1>2. CASE UNCHANGED vars
  <2>1. ShapeOK' /\ ChangeOK' /\ ObservedOK'
    BY <1>2 DEF vars, IInv, ShapeOK, ChangeOK, ObservedOK
  <2>2. HeldOK'
    BY <1>2 DEF vars, store, IInv, HeldOK
  <2>3. ClientOK'
    BY <1>2 DEF vars, store, IInv, ClientOK, CallerOK, RequestOK, Prepared, Followed, ReplyOK,
                ErrorReply, MovedReply, OtherReply, ListReply, DinosaurReply, Told, Typed
  <2> QED BY <2>1, <2>2, <2>3 DEF IInv
<1> QED BY <1>1, <1>2 DEF Next, Actions

LEMMA IInvAlways == Spec => []IInv
  BY IInvInitially, IInvKept, PTL DEF Spec
-----------------------------------------------------------------------------
\* The handlers look at the body and the row before they write, so no request
\* that is refused with a 4xx has changed a row, whatever is asked by how many.
THEOREM RejectedChangesNothingHolds == Spec => []RejectedChangesNothing
<1>1. IInv => RejectedChangesNothing
  BY DEF IInv, ChangeOK, RejectedChangesNothing
<1> QED BY <1>1, IInvAlways, PTL

\* The metrics and logging wrappers report the status that the client is sent,
\* for all routes, refusals and failures.
THEOREM ObservedAsAnsweredHolds == Spec => []ObservedAsAnswered
<1>1. IInv => ObservedAsAnswered
  BY DEF IInv, ObservedOK, ObservedAsAnswered
<1> QED BY <1>1, IInvAlways, PTL

\* Whatever id it asks with and whatever others do meanwhile, a client that is told
\* of a dinosaur is told of what a row has held; with an id that has no slash and
\* is neither of the dots, it is told of the one it asked for.
THEOREM ToldIsTrueHolds == Spec => []ToldIsTrue
<1>1. IInv => ToldIsTrue
  BY DEF IInv, ClientOK, CallerOK, Told, ToldIsTrue
<1> QED BY <1>1, IInvAlways, PTL

\* Every error that the handlers and the router describe comes back typed from the
\* generated client, but for the list's 400.
THEOREM ErrorsAreTypedHolds == Spec => []ErrorsAreTyped
<1>1. IInv => ErrorsAreTyped
  BY DEF IInv, ClientOK, CallerOK, Typed, ErrorsAreTyped
<1> QED BY <1>1, IInvAlways, PTL
=============================================================================
