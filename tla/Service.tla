------------------------------ MODULE Service -------------------------------
(***************************************************************************)
(* The service layer of Patina: the handler table a ServerBuilder collects *)
(* (server.rs), and the two halves #[service] generates from a trait       *)
(* (ServiceMacro), the client's stub and the server's dispatch match, with *)
(* the payload encoding between them (lib.rs, __private).                  *)
(*                                                                         *)
(* The transport in between is what Client and Server guarantee: a request *)
(* is dispatched at most once, a call gets the reply to its own request or *)
(* Closed, and Closed says nothing about the request.                      *)
(*                                                                         *)
(* Client and server are compiled apart, perhaps from different revisions  *)
(* of a trait: Stub is the client's, a service carries its own.            *)
(***************************************************************************)
EXTENDS ServiceMacro

CONSTANTS
  Calls,        \* calls made through the stub
  Names,        \* wire names of methods
  Values,       \* Values[t]: the values of the Rust type t
  Wire,         \* Wire[t]: the bytes bincode makes of the values it can encode
  Sources,      \* declarations the client's trait may have
  Deployed,     \* traits the server's application implements
  AppCodes,     \* the codes handlers choose for their own errors
  RawReplies,   \* payloads a handler registered by hand may return
  MaxRegistrations  \* bound: calls to register and add_service

Types == DOMAIN Values

(* [Trait]Server::new for each of the traits. *)
Services ==
  {[trait |-> d,
    names |-> MethodNames(ServiceTrait(d)),
    arms  |-> DispatchArms(ServiceTrait(d))] : d \in Deployed}

ASSUME SourcesAssumption == \A d \in Sources : Declaration(d)

ASSUME DeployedAssumption ==
  /\ \A d \in Deployed : TraitFault(d) = NoFault
  /\ \A s \in Services : s.names \subseteq Names

(* Every type a method uses has an encoding, as the compiler checks. *)
Typed(methods) ==
  \A n \in DOMAIN methods : methods[n].args \in Seq(Types) /\ methods[n].ok \in Seq(Types)

ASSUME TypesAssumption ==
  /\ \A s \in Services : Typed(s.arms)
  /\ \A d \in Sources : TraitFault(d) = NoFault => Typed(ClientOf(ServiceTrait(d)))

ASSUME CodeAssumption == AppCodes \subseteq 0 .. 65535
ASSUME RegistrationsAssumption == MaxRegistrations \in Nat

(* bincode's encodings are self-delimiting: none starts another. *)
ASSUME WireAssumption ==
  /\ DOMAIN Wire = Types
  /\ \A t \in Types : DOMAIN Wire[t] \subseteq Values[t] /\ Wire[t] \in [DOMAIN Wire[t] -> Seq(Nat)]
  /\ \A t \in Types : \A v, w \in DOMAIN Wire[t] : IsPrefix(Wire[t][v], Wire[t][w]) => v = w

VARIABLES
  source,      \* the client's trait as it is written
  client,      \* what #[service] makes of it
  handlers,    \* the table, method name -> handler
  log,         \* history: the registrations in order
  built,       \* ServerBuilder::build was called and the server is serving
  stub,        \* where the generated client method is, per call
  work,        \* where its request is on the server
  name,        \* the method called
  args,        \* its arguments
  payload,     \* the encoded arguments
  ran,         \* history: what the server's method was run with
  returned,    \* history: what it returned
  reply,       \* the Response or Error of the server
  result       \* what the stub returned

tableVars == <<handlers, log, built>>
callVars  == <<name, args, payload>>
vars == <<source, client, tableVars, stub, work, callVars, ran, returned, reply, result>>

(* The methods of the generated client. *)
Stub == IF client.tag = "Expanded" THEN client.methods ELSE <<>>

Nothing   == [tag |-> "Nothing"]
Ok(v)     == [tag |-> "Ok", value |-> v]

(* PatinaError; what carries a WireError is taken together with Closed. *)
Closed    == [tag |-> "Closed"]
Unknown   == [tag |-> "UnknownMethod"]
Remote(c) == [tag |-> "Remote", code |-> c]

-----------------------------------------------------------------------------
(***************************************************************************)
(* __private::encode and decode on the tuple of the values v of types ts.  *)
(***************************************************************************)
Tuples(ts) == {v \in [1 .. Len(ts) -> UNION {Values[t] : t \in Types}] :
                 \A k \in 1 .. Len(ts) : v[k] \in Values[ts[k]]}

Encodable(ts, v) == \A k \in 1 .. Len(ts) : v[k] \in DOMAIN Wire[ts[k]]

(* Mutant: the tuple is written back to front. *)
EncodeReversed(ts, v) == FlattenSeq(Reverse([k \in 1 .. Len(ts) |-> Wire[ts[k]][v[k]]]))

Encode(ts, v) == FlattenSeq([k \in 1 .. Len(ts) |-> Wire[ts[k]][v[k]]])

(* One field of type t: the values read and the bytes that remain, for each *)
(* of the ways ds to read the fields before it.                             *)
ReadField(ds, t) ==
  UNION {{[value |-> Append(d.value, v),
           rest  |-> SubSeq(d.rest, Len(Wire[t][v]) + 1, Len(d.rest))] :
             v \in {x \in DOMAIN Wire[t] : IsPrefix(Wire[t][x], d.rest)}} : d \in ds}

(* decode_from_slice reads the fields one after the other, and yields nothing *)
(* if one of them does not decode.                                            *)
Read(ts, p) ==
  LET upTo[k \in 0 .. Len(ts)] ==
        IF k = 0 THEN {[value |-> <<>>, rest |-> p]} ELSE ReadField(upTo[k - 1], ts[k])
  IN  upTo[Len(ts)]

(* Mutant: a payload that does not decode yields an empty tuple. *)
DecodeOrEmpty(ts, p) ==
  IF Read(ts, p) = {} THEN {<<>>} ELSE {d.value : d \in Read(ts, p)}

(* decode drops what decode_from_slice says of the bytes it read, so that *)
(* more may follow the tuple.                                             *)
Decode(ts, p) == {d.value : d \in Read(ts, p)}

EncodeFailed  == 500
DecodeFailed  == 400
UnknownMethod == 404

(* Mutant: the variants a handler should not produce are taken for a miss. *)
FromPatinaErrorMiss(e) == IF e.tag = "Remote" THEN e.code ELSE UnknownMethod

(* From<PatinaError> for HandlerError: the code that goes on the wire. *)
FromPatinaError(e) == IF e.tag = "Remote" THEN e.code ELSE 500

(* What a method may fail with. *)
PatinaErrors == {Remote(c) : c \in AppCodes} \cup {Closed, Unknown}

-----------------------------------------------------------------------------
(***************************************************************************)
(* ServerBuilder.                                                          *)
(***************************************************************************)
(* A closure, which answers as it likes. *)
Raw == [kind |-> "closure"]

(* ServiceMethodHandler: a shared service and one of its method names. *)
MethodOf(s, n) == [kind |-> "method", svc |-> s, method |-> n]

Init ==
  /\ source \in Sources
  /\ client = Nothing
  /\ handlers = <<>>
  /\ log = <<>>
  /\ built = FALSE
  /\ stub = [c \in Calls |-> "idle"]
  /\ work = [c \in Calls |-> "none"]
  /\ name = [c \in Calls |-> Nothing]
  /\ args = [c \in Calls |-> Nothing]
  /\ payload = [c \in Calls |-> Nothing]
  /\ ran = [c \in Calls |-> Nothing]
  /\ returned = [c \in Calls |-> Nothing]
  /\ reply = [c \in Calls |-> Nothing]
  /\ result = [c \in Calls |-> Nothing]

(* The client's crate is built: service() expands the trait, or reports the *)
(* fault to the compiler.                                                   *)
Compile ==
  /\ client = Nothing
  /\ client' = IF TraitFault(source) = NoFault
               THEN [tag |-> "Expanded", methods |-> ClientOf(ServiceTrait(source))]
               ELSE [tag |-> "Rejected", fault |-> TraitFault(source)]
  /\ UNCHANGED <<source, tableVars, stub, work, callVars, ran, returned, reply, result>>

(* Mutant: a name that is taken keeps its handler. *)
EnterIfVacant(new) ==
  /\ ~built
  /\ Len(log) < MaxRegistrations
  /\ handlers' = [n \in DOMAIN handlers \cup DOMAIN new |->
                    IF n \in DOMAIN handlers THEN handlers[n] ELSE new[n]]
  /\ log' = Append(log, new)
  /\ UNCHANGED <<built, stub, work, callVars, ran, returned, reply, result>>

(* HashMap::insert of every entry of the function new: a later registration *)
(* of a name replaces an earlier one.                                       *)
Enter(new) ==
  /\ ~built
  /\ Len(log) < MaxRegistrations
  /\ handlers' = [n \in DOMAIN handlers \cup DOMAIN new |->
                    IF n \in DOMAIN new THEN new[n] ELSE handlers[n]]
  /\ log' = Append(log, new)
  /\ UNCHANGED <<built, stub, work, callVars, ran, returned, reply, result>>

Register(n) == Enter([m \in {n} |-> Raw])

AddService(s) == Enter([n \in s.names |-> MethodOf(s, n)])

Build ==
  /\ ~built
  /\ built' = TRUE
  /\ UNCHANGED <<handlers, log, stub, work, callVars, ran, returned, reply, result>>

-----------------------------------------------------------------------------
(***************************************************************************)
(* The generated client method: encode the arguments, Client::call, decode *)
(* the reply.                                                              *)
(***************************************************************************)
Response(p)   == [tag |-> "Response", payload |-> p]
ErrorReply(c) == [tag |-> "Error", code |-> c]

Resolve(c, r) ==
  /\ stub' = [stub EXCEPT ![c] = "done"]
  /\ result' = [result EXCEPT ![c] = r]

Invoke(c, n, v) ==
  /\ built
  /\ stub[c] = "idle"
  /\ name' = [name EXCEPT ![c] = n]
  /\ args' = [args EXCEPT ![c] = v]
  /\ UNCHANGED <<tableVars, ran, returned, reply>>

StubSend(c, n, v) ==
  /\ Invoke(c, n, v)
  /\ Encodable(Stub[n].args, v)
  /\ payload' = [payload EXCEPT ![c] = Encode(Stub[n].args, v)]
  /\ stub' = [stub EXCEPT ![c] = "waiting"]
  /\ work' = [work EXCEPT ![c] = "sent"]
  /\ UNCHANGED result

(* encode()? returns before anything is sent. *)
StubEncodeFailed(c, n, v) ==
  /\ Invoke(c, n, v)
  /\ ~Encodable(Stub[n].args, v)
  /\ Resolve(c, Remote(EncodeFailed))
  /\ UNCHANGED <<work, payload>>

(* Mutant: an error reply is decoded like a response with no bytes. *)
StubResultLenient(ts, r) ==
  LET p == IF r.tag = "Error" THEN <<>> ELSE r.payload
      values == Decode(ts, p)
  IN  IF values = {} THEN Remote(DecodeFailed) ELSE Ok(CHOOSE v \in values : TRUE)

(* What the stub makes of a reply: call().await? passes an error on, decode *)
(* turns a payload into a value of the client's own result type.            *)
StubResult(ts, r) ==
  LET values == Decode(ts, r.payload)
  IN  IF r.tag = "Error" THEN Remote(r.code)
      ELSE IF values = {} THEN Remote(DecodeFailed)
      ELSE Ok(CHOOSE v \in values : TRUE)

StubReturn(c) ==
  /\ stub[c] = "waiting"
  /\ work[c] = "replied"
  /\ Resolve(c, StubResult(Stub[name[c]].ok, reply[c]))
  /\ UNCHANGED <<tableVars, work, callVars, ran, returned, reply>>

(* Client::call ends with Closed; the server may go on with the request. *)
StubClosed(c) ==
  /\ stub[c] = "waiting"
  /\ Resolve(c, Closed)
  /\ UNCHANGED <<tableVars, work, callVars, ran, returned, reply>>

-----------------------------------------------------------------------------
(***************************************************************************)
(* dispatch(): look the method up, run its handler, build the reply.       *)
(***************************************************************************)
Answer(c, r) ==
  /\ work' = [work EXCEPT ![c] = "replied"]
  /\ reply' = [reply EXCEPT ![c] = r]
  /\ UNCHANGED <<tableVars, stub, callVars, result>>

DispatchMissing(c) ==
  /\ work[c] = "sent"
  /\ name[c] \notin DOMAIN handlers
  /\ Answer(c, ErrorReply(UnknownMethod))
  /\ UNCHANGED <<ran, returned>>

Finds(c, kind) ==
  /\ work[c] = "sent"
  /\ name[c] \in DOMAIN handlers
  /\ handlers[name[c]].kind = kind

DispatchClosure(c) ==
  /\ Finds(c, "closure")
  /\ \/ \E p \in RawReplies : Answer(c, Response(p))
     \/ \E code \in AppCodes : Answer(c, ErrorReply(code))
  /\ UNCHANGED <<ran, returned>>

(* The generated match on a method name: the arguments its arm decodes, *)
(* none when there is no arm, and the code it refuses the request with. *)
Arm(h, p) ==
  IF h.method \in DOMAIN h.svc.arms THEN Decode(h.svc.arms[h.method].args, p) ELSE {}

ArmError(h) == IF h.method \in DOMAIN h.svc.arms THEN DecodeFailed ELSE UnknownMethod

DispatchRefuse(c) ==
  LET h == handlers[name[c]] IN
  /\ Finds(c, "method")
  /\ Arm(h, payload[c]) = {}
  /\ Answer(c, ErrorReply(ArmError(h)))
  /\ UNCHANGED <<ran, returned>>

DispatchRun(c) ==
  LET h == handlers[name[c]] IN
  /\ Finds(c, "method")
  /\ \E v \in Arm(h, payload[c]) :
       ran' = [ran EXCEPT ![c] = [svc |-> h.svc, method |-> h.method, args |-> v]]
  /\ work' = [work EXCEPT ![c] = "running"]
  /\ UNCHANGED <<tableVars, stub, callVars, returned, reply, result>>

(* The method returns Ok(v) and the arm encodes it, or an error, which `?` *)
(* converts to a HandlerError.                                             *)
MethodReturn(c) ==
  /\ work[c] = "running"
  /\ LET ts == ran[c].svc.arms[ran[c].method].ok IN
     \E v \in Tuples(ts) :
       /\ returned' = [returned EXCEPT ![c] = Ok(v)]
       /\ Answer(c, IF Encodable(ts, v) THEN Response(Encode(ts, v))
                    ELSE ErrorReply(FromPatinaError(Remote(EncodeFailed))))
  /\ UNCHANGED ran

MethodFail(c) ==
  /\ work[c] = "running"
  /\ \E e \in PatinaErrors :
       /\ returned' = [returned EXCEPT ![c] = e]
       /\ Answer(c, ErrorReply(FromPatinaError(e)))
  /\ UNCHANGED ran

-----------------------------------------------------------------------------
Run ==
  \/ \E n \in Names : Register(n)
  \/ \E s \in Services : AddService(s)
  \/ Build
  \/ \E c \in Calls :
       \/ \E n \in DOMAIN Stub : \E v \in Tuples(Stub[n].args) :
            StubSend(c, n, v) \/ StubEncodeFailed(c, n, v)
       \/ StubReturn(c) \/ StubClosed(c)
       \/ DispatchMissing(c) \/ DispatchClosure(c)
       \/ DispatchRefuse(c) \/ DispatchRun(c)
       \/ MethodReturn(c) \/ MethodFail(c)

(* Only what compiles runs. *)
Next ==
  \/ Compile
  \/ client.tag = "Expanded" /\ Run /\ UNCHANGED <<source, client>>

Spec == Init /\ [][Next]_vars

-----------------------------------------------------------------------------
(***************************************************************************)
(* Properties.                                                             *)
(***************************************************************************)
(* The signature of the method that served call c. *)
Served(c) == ran[c].svc.arms[ran[c].method]

(* Types of the table and of every call.  Whatever revision the client was   *)
(* built from, a service method only runs with values of its own argument    *)
(* types: dispatch decodes before it calls.                                  *)
TypeOK ==
  /\ DOMAIN handlers \subseteq Names
  /\ \A n \in DOMAIN handlers :
       handlers[n] \in {Raw} \cup {MethodOf(s, m) : s \in Services, m \in Names}
  /\ built \in BOOLEAN
  /\ Len(log) <= MaxRegistrations
  /\ stub \in [Calls -> {"idle", "waiting", "done"}]
  /\ work \in [Calls -> {"none", "sent", "running", "replied"}]
  /\ \A c \in Calls :
       /\ ran[c] # Nothing => ran[c].args \in Tuples(Served(c).args)
       /\ result[c].tag = "Ok" => result[c].value \in Tuples(Stub[name[c]].ok)

(* #[service] rejects a trait only for one of its documented rules that the   *)
(* trait breaks, and expands no trait that breaks one, with one exception:    *)
(* lifetimes and consts may stand beside the two types of a Result, although  *)
(* parse_result_ok of model.rs is documented as "rejecting anything that      *)
(* isn't shaped exactly like that".                                           *)
MacroIsTruthful ==
  /\ client.tag = "Rejected" => client.fault \in Broken(source)
  /\ client.tag = "Expanded" => KeepsTheRules(source)

(* The server runs the method the caller named.  If both sides agree on its *)
(* argument types it runs with exactly the caller's arguments, in order     *)
(* (stub and dispatch arm of expand.rs).                                    *)
RunsAsCalled ==
  \A c \in Calls : ran[c] # Nothing =>
    /\ ran[c].method = name[c]
    /\ Served(c).args = Stub[name[c]].args => ran[c].args = args[c]

(* Newest(n): the last registration that covers the name n. *)
Newest(n) == log[Max({k \in DOMAIN log : n \in DOMAIN log[k]})][n]

(* A request is served by the last handler registered for its method, however *)
(* registrations of services and closures overlapped ("Later registrations    *)
(* for the same method overwrite earlier ones", ServerBuilder::register).     *)
ServedByNewest ==
  \A c \in Calls : ran[c] # Nothing => MethodOf(ran[c].svc, name[c]) = Newest(name[c])

(* If the service of the client's own trait was registered last, it serves   *)
(* every request: no method was lost between the two halves of the           *)
(* expansion, and no payload the stub encodes is refused (expand.rs).        *)
OwnServiceServes ==
  \A c \in Calls :
    /\ work[c] = "replied" /\ log # <<>>
    /\ \E n \in DOMAIN Last(log) : /\ Last(log)[n] # Raw
                                  /\ Last(log)[n].svc.trait = source
    => ran[c] # Nothing /\ ran[c].svc.trait = source

(* What a caller is told of a value v that the method returned, ts and us     *)
(* being the result types of the server and of the client: it gets v if the   *)
(* types agree, otherwise what its own type makes of the same bytes, and is   *)
(* refused only if they are bytes of no value of it.                          *)
ToldOfValue(ts, us, v, r) ==
  LET values == Decode(us, Encode(ts, v)) IN
  IF ~Encodable(ts, v) THEN r = Remote(EncodeFailed)
  ELSE /\ ts = us => r = Ok(v)
       /\ r = Remote(DecodeFailed) => values = {}
       /\ r \in {Ok(w) : w \in values} \cup {Remote(DecodeFailed)}

(* What a call that did not end in Closed returns is what the method returned: *)
(* its value, or the application's error with its code, or a 500 for an error  *)
(* of another kind (expand.rs, From<PatinaError>).  Only a value of a type the *)
(* client does not have may become an error, which the stub makes itself; so   *)
(* Remote is not always what error.rs calls it, an error of the remote peer.   *)
ResultIsTheReturn ==
  \A c \in Calls :
    ran[c] # Nothing /\ result[c] \notin {Nothing, Closed} =>
      \/ /\ returned[c].tag = "Ok"
         /\ ToldOfValue(Served(c).ok, Stub[name[c]].ok, returned[c].value, result[c])
      \/ returned[c].tag = "Remote" /\ result[c] = returned[c]
      \/ returned[c] \in {Closed, Unknown} /\ result[c] = Remote(500)

(* If no handler uses 404 itself, a caller sees 404 only for a method nobody   *)
(* registered, and nothing ran (UNKNOWN_METHOD_CODE; the __unknown arm of the  *)
(* generated match is never taken).                                            *)
NotFoundIsAMiss ==
  UnknownMethod \notin AppCodes =>
    \A c \in Calls : result[c] = Remote(UnknownMethod) =>
      name[c] \notin DOMAIN handlers /\ ran[c] = Nothing

-----------------------------------------------------------------------------
(***************************************************************************)
(* The inductive invariant.                                                *)
(***************************************************************************)
Registrations ==
  {[m \in {n} |-> Raw] : n \in Names}
    \cup {[n \in s.names |-> MethodOf(s, n)] : s \in Services}

(* The table is what the registrations make of it, and the client what the *)
(* macro makes of its trait.                                               *)
TableIsLog ==
  /\ log \in Seq(Registrations)
  /\ DOMAIN handlers = UNION {DOMAIN log[k] : k \in DOMAIN log}
  /\ \A n \in DOMAIN handlers : handlers[n] = Newest(n)

ClientIsExpanded ==
  /\ client.tag = "Expanded" => /\ TraitFault(source) = NoFault
                                /\ client.methods = ClientOf(ServiceTrait(source))
  /\ client.tag = "Rejected" => client.fault = TraitFault(source) /\ client.fault # NoFault
  /\ client # Nothing => client.tag \in {"Expanded", "Rejected"}

(* A request carries the caller's encoded arguments, to a table that no    *)
(* longer changes.                                                         *)
RequestCarries(c) ==
  /\ stub[c] = "idle" => work[c] = "none"
  /\ stub[c] = "waiting" => work[c] # "none"
  /\ work[c] # "none" =>
       LET ts == Stub[name[c]].args IN
       /\ built /\ client.tag = "Expanded"
       /\ name[c] \in DOMAIN Stub
       /\ args[c] \in Tuples(ts) /\ Encodable(ts, args[c])
       /\ payload[c] = Encode(ts, args[c])

(* What runs is the handler in the table, on arguments its arm decoded. *)
RunsFromTable(c) ==
  /\ work[c] = "running" => ran[c] # Nothing
  /\ ran[c] # Nothing =>
       /\ work[c] \in {"running", "replied"}
       /\ ran[c].svc \in Services /\ ran[c].method = name[c]
       /\ name[c] \in DOMAIN ran[c].svc.arms /\ name[c] \in DOMAIN handlers
       /\ handlers[name[c]] = MethodOf(ran[c].svc, name[c])
       /\ ran[c].args \in Decode(Served(c).args, payload[c])

(* Every reply has one of these origins. *)
Missed(c)  == name[c] \notin DOMAIN handlers /\ reply[c] = ErrorReply(UnknownMethod)

ByClosure(c) ==
  /\ name[c] \in DOMAIN handlers /\ handlers[name[c]] = Raw
  /\ reply[c] \in {Response(p) : p \in RawReplies} \cup {ErrorReply(e) : e \in AppCodes}

Refused(c) ==
  /\ name[c] \in DOMAIN handlers /\ handlers[name[c]] # Raw
  /\ Decode(handlers[name[c]].svc.arms[name[c]].args, payload[c]) = {}
  /\ reply[c] = ErrorReply(DecodeFailed)

ByMethod(c) ==
  LET ts == Served(c).ok IN
  \/ \E v \in Tuples(ts) :
       /\ returned[c] = Ok(v)
       /\ reply[c] = IF Encodable(ts, v) THEN Response(Encode(ts, v)) ELSE ErrorReply(EncodeFailed)
  \/ \E e \in PatinaErrors :
       returned[c] = e /\ reply[c] = ErrorReply(FromPatinaError(e))

ReplyExplained(c) ==
  work[c] = "replied" =>
    IF ran[c] = Nothing THEN Missed(c) \/ ByClosure(c) \/ Refused(c) ELSE ByMethod(c)

(* A stub returns Closed, its own failure to encode, or what it makes of the *)
(* reply.                                                                    *)
ResultExplained(c) ==
  /\ stub[c] # "done" => result[c] = Nothing
  /\ stub[c] = "done" =>
       \/ result[c] = Closed
       \/ work[c] = "none" /\ result[c] = Remote(EncodeFailed)
       \/ work[c] = "replied" /\ result[c] = StubResult(Stub[name[c]].ok, reply[c])

CallInv(c) ==
  RequestCarries(c) /\ RunsFromTable(c) /\ ReplyExplained(c) /\ ResultExplained(c)

(* The table is the log's, the client its trait's, and every call can be      *)
(* explained: what was sent, what of the table ran, where the reply and the   *)
(* result come from.                                                          *)
ServiceInv ==
  /\ TypeOK
  /\ TableIsLog
  /\ ClientIsExpanded
  /\ DOMAIN name = Calls /\ DOMAIN args = Calls /\ DOMAIN payload = Calls
  /\ DOMAIN ran = Calls /\ DOMAIN returned = Calls /\ DOMAIN reply = Calls /\ DOMAIN result = Calls
  /\ \A c \in Calls : CallInv(c)

-----------------------------------------------------------------------------
(***************************************************************************)
(* What the documentation says and the code does not do.                   *)
(***************************************************************************)
(* error.rs, of UnknownMethod: "the corresponding client-side reception is a *)
(* Remote { code: 404, .. }".                                                *)
UnknownIs404 ==
  \A c \in Calls : returned[c] = Unknown /\ result[c] \notin {Nothing, Closed} =>
    result[c] = Remote(UnknownMethod)

(* DESIGN.md: "the macro guarantees type and arity safety across the network": *)
(* a method only runs for a caller that was built with the same argument types. *)
TypeAndAritySafe ==
  \A c \in Calls : ran[c] # Nothing => Served(c).args = Stub[name[c]].args
=============================================================================
