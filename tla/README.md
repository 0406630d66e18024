# A verification of Patina RPC

TLA+ models of the Patina RPC runtime (`crates/patina-rpc`) and of its service macro
(`crates/patina-macros`), TLC runs that check them on small instances, and TLAPS proofs that hold for every instance.

## 1. Inventory

Patina multiplexes unary remote calls over one TCP connection.

| Part | State it keeps | Operations | Interacts with |
|---|---|---|---|
| Client multiplexer (`client.rs`) | `next_id`, the `PendingMap` (id to oneshot sender), an mpsc channel of 128 requests, a `CancellationToken`, two background tasks | `connect`/`from_stream`, `call`, dropping a call's future, dropping the `Client`, `pending_count`, `is_closed` | callers through oneshots, the writer task through the channel, the peer through the socket |
| Server connection (`server.rs`, `serve_connection_inner`) | a dispatcher, one worker task per request, an mpsc channel of 128 replies, a writer task, an abort guard | read a frame, spawn a worker, run a handler, push a reply, write it, drain, join, abort | handlers (user code), the peer |
| Server registry and accept loop (`server.rs`) | the handler table, frozen into an `Arc` | `register`, `add_service`, `build`, `serve` | starts server connections |
| Envelopes (`envelope.rs`) | none | `Request`, `Response`, `Error`, `Heartbeat` | carried by the codec |
| Wire codec (`codec.rs`) | partial frames | `encode`, `decode`, a cap of 64 MiB per frame | used by both ends through `Framed` |
| Errors (`error.rs`) | none | `WireError`, `PatinaError` and their conversions | results of `call` and of handlers |
| Payload helpers (`lib.rs`) | none | `encode`, `decode` of argument tuples and results | generated code |
| Service macro (`patina-macros`) | none (compile time) | validates a trait, generates a client stub and a dispatch match | generated code calls `Client::call` and `add_service` |

What is hard here: callers, the two client tasks, the dispatcher, the workers and
the server's writer run concurrently; a caller may drop its future at either await;
either client task may end first and has to take the other with it; replies come in
any order, late, twice or never; channels fill up; handlers panic or never return; a
connection's future may be dropped half-way through a write. Nothing is persisted
and nothing is retried, so there is no recovery to model. `PROJECT.json` lists each
hazard with its line.

What makes the parts correct:

- **client**: a reply reaches the call that asked and no other; an entry of the map
  never outlives its call; no call loses its sender; `Closed` means closed; the end of
  one task ends the other; teardown wakes the callers;
- **server**: one reply per request, under its id; replies under way are written
  before a graceful end; nothing is dropped unless the writer failed or was aborted; no
  handler holds up another; every connection that ends closes its socket;
- **registry and service layer**: the newest registration of a name serves it; the method
  that runs is the one called, with the caller's arguments; what it returns, value or
  error, is what the caller gets;
- **codec**: what is decoded is what was encoded, in order, however the bytes are cut; the
  cap binds before a body is buffered; a stream that ends cleanly is complete;
- **accept loop**: a connection never waits for another one;
- **both ends together**: a call runs at most once, returns only what was computed for it,
  and ends;
- **macro**: the traits that keep the rules are accepted and no others, and the parts
  generated from one fit together.

## 2. Modules

| Module | Models | Depends on |
|---|---|---|
| `Envelope` | `envelope.rs`, the outcomes in `error.rs`, and what the two ends see of `codec.rs` | |
| `UnaryCall` | abstract: what `Client::call` promises its callers | `Envelope` |
| `Client` | `client.rs` | `Envelope`, refines `UnaryCall` |
| `Server` | one connection of `server.rs` | `Envelope` |
| `Listener` | `Server::serve`, the accept loop | |
| `Connection` | a client and a server on one link | `Client`, instances of `Server` and `Listener` |
| `WireCodec` | `codec.rs`, byte by byte | |
| `ServiceMacro` | `model.rs` and the shape of what `expand.rs` generates | |
| `Service` | `ServerBuilder` and `dispatch` of `server.rs`, the generated code at run time, `__private` of `lib.rs` | `ServiceMacro` |
| `MCClient`, `MCServer`, `MCConnection`, `MCWireCodec`, `MCService` | the peers, envelopes, traits and services used for model checking | the module of that name |
| `SequenceFacts` | lemmas: induction over the natural numbers, concatenation | the library's theorems |
| `ClientProofs`, `ServerProofs`, `WireCodecProofs`, `ServiceMacroProofs` | theorems about the module of that name | that module |
| `ConnectionProofs` | theorems about `Connection` | `Connection`, `ClientProofs`, an instance of `ServerProofs` |
| `ServiceProofs` | theorems about `Service` | `Service`, `ServiceMacroProofs` |

**Granularity.** An action is one stretch of a task between two points at which another
thread can observe shared state: an await, a lock of the pending map, a channel
operation, a change of the token. `call()` is therefore five steps (check, register,
send, return, or cancellation), the end of `writer_loop` two (`token.cancel()`, then the
drop of the receiver), and the end of `reader_loop` two (`token.cancel()`, then the
drain). `take` and the `send` on the oneshot are two steps because the lock is released
in between.

**`Client`.** `pending` maps an id to the call whose sender is parked there; `slot` is
the call's oneshot (`Empty`, `Dropped`, or the envelope sent). Taking a sender out of
the map without using it drops it, and the receiver sees that: `Insert`, `Remove` and
`Drain` all go through `DropSenders`. `claimed` is the sender `reader_loop` has taken
and not yet used.

| Code | Actions |
|---|---|
| `Client::call` | `CallCheck`, `CallRegister`, `CallSend`, `CallSendClosed`, `CallReturn` |
| `PendingGuard::drop` on a dropped future | `CallCancel` |
| drop of the `Client` | `DropClient` |
| `writer_loop` | `WriterCancelled`, `WriterRecv`, `WriterNoSenders`, `WriterSent`, `WriterFailed`, `WriterCancel`, `WriterDrop` |
| `reader_loop` | `ReaderCancelled`, `ReaderTake`, `ReaderFire`, `ReaderIgnore`, `ReaderEnd`, `ReaderCancel`, `ReaderDrain` |
| peer and network (external) | `PeerSend`, `PeerRecv`, `PeerClose`, `NetReset` |

**`Server`.** Workers are numbered in the order they are spawned. `stage` follows a
worker and then its reply: `running`, `replying`, `queued`, and then `sent`, `lost` or
`panicked`. The channel `queue` holds workers; the envelope is `reply[w]`. The sender of
the dispatcher is alive while `dispatcher = "read"`, the clone of a worker while it is
in `Busy`; the writer sees the end of the channel when none is left. Handlers are
arbitrary: any payload, any error, a panic, or no answer.

| Code | Actions |
|---|---|
| `serve_connection_inner` | `DispatchRequest`, `DispatchIgnore`, `DispatchEnd`, `DispatchJoin` |
| the future dropped, `AbortOnDrop` | `DispatchAbort`, `WriterAborted` |
| worker task, `dispatch` | `WorkerHandle`, `WorkerPanic`, `WorkerReply`, `WorkerReplyClosed` |
| `writer_loop` | `WriterRecv`, `WriterSent`, `WriterFailed`, `WriterFinished` |
| peer and network (external) | `PeerSend`, `PeerRecv`, `PeerEof`, `NetReset` |

**`Listener` and `Connection`.** `conn` follows a connection from the kernel's backlog to the
task that serves it; `serve()` may end at any time, because `accept()` fails or its future
is dropped, and leaves the tasks it spawned running. `Connection` puts the two multiplexers
at the ends of one such connection: the server's `inbox` is the client's `outbox` and the
other way round, a step of one end leaves the other's variables alone, and the peers of
`Client` and `Server` disappear. An end closes its socket when both of its halves are
dropped (`BothDown`, `SocketClosed`), which the other end sees as `peerClosed` or `eof`.
`ServerIsAPeer` and `ClientIsAPeer` are the specifications of `Client` and of `Server`
themselves: every behaviour of the pair is a behaviour of each module with its arbitrary
peer, so that what is checked and proved about either end with any peer holds on the link.

| Code | Actions |
|---|---|
| `Server::serve` | `Accept`, `ConnectionEnds`, `ServeEnds` |
| the kernel (external) | `Connect`, `Refuse` |
| the two ends | `ClientMoves`, `ServerMoves`, `ServerCloses`, `ClientCloses`, `ListenerMoves`, `LinkReset` |

**`WireCodec`.** One direction of a connection. `Encode` appends a frame, a big-endian
length and the bytes of the envelope, to the sink's buffer, or refuses it; `Flush` hands
any number of bytes to the network; `Read` takes any number from it; in between the decoder
is in one of two states, before a header (`AtHead`) or waiting for `body` bytes, and the
header is consumed when it is read. The sink may be dropped at any byte. The peer may also
be a foreign one that wrote arbitrary bytes. `Client` and `Server` use the summary of all
this: a sequence of envelopes in order (`FramesExact`, `InOrder`), with equal caps none
rejected (`NoFalseRejection`), and at most one `Malformed` frame where a sink was dropped
inside one (`CleanEndIsComplete`). A stream cut right behind a header ends without an error,
because the consumed header is not in the buffer any more; `Server!WriterAborted` therefore
allows an abort to leave nothing behind.

| Code | Actions |
|---|---|
| `WireCodec::encode` | `Encode`, `EncodeRefused` |
| `WireCodec::decode` | `DecodeHead`, `DecodeBody`, `DecodeNone` |
| a writer task that ends | `DropSink` |
| `Framed` (external) | `Flush`, `Read`, `DecodeEof` |

**`ServiceMacro`.** A declaration is the part of the syntax tree the macro looks at. The
early returns of `model.rs` are a sequence of checks of which the first failure counts
(`FirstFault`); `Broken` states the documented rules as a set, independently of their order,
`ReturnsResult` what the code makes of the one about return types. `expand_server` goes through
the methods twice, for `method_names` (`MethodNames`) and for the match (`DispatchArms`); a
name without an arm would be answered by the `__unknown` arm. A wire
name is the pair of trait and method name, without the path of the module. `Declaration` is
what `syn` can hand to the macro: a signature has its receiver, if any, in the first place.
The check for a `self` after the first argument is kept although no declaration fails it.

**`Service`.** One layer up: the client's trait goes through the macro (`Compile`), a
`ServerBuilder` collects a table, then calls are made through the generated stub. Client and
server are compiled apart, so the client's methods (`Stub`) and each service carry their own
signatures. Rust types are sets of values with
self-delimiting encodings (`Wire`, assumption `WireAssumption`); a value without an
encoding is one serde refuses. `Read` takes the fields off the front of the bytes one
by one, and `Decode` ignores what is left, as `__private::decode` does. The transport is what `Client` and `Server`
guarantee: a request is dispatched at most once, and a call gets the reply to its own
request or `Closed`, which leaves the server running.

| Code | Actions |
|---|---|
| `service` of `patina-macros` | `Compile` |
| `ServerBuilder` | `Register`, `AddService`, `Build` |
| generated client method | `StubSend`, `StubEncodeFailed`, `StubReturn`, `StubClosed` |
| `dispatch`, `ServiceMethodHandler`, generated `match` | `DispatchMissing`, `DispatchClosure`, `DispatchRefuse`, `DispatchRun` |
| the user's method and the encoding of its result | `MethodReturn`, `MethodFail` |

**Data.** In `Client` and `Server`, methods, payloads and error data are opaque. `Oversized` is the set of
payloads and errors whose envelope exceeds the frame cap: encoding one fails and writes
nothing. `Malformed` stands for every frame `decode` rejects, a frame cut short by the
end of the stream included. The definitions commented *Mutant* are variants of one
definition with a plausible bug; no specification uses them, they show that each
property can fail.

## 3. Runs

| Run | Specification | Checks | Result |
|---|---|---|---|
| `client_safety` | `Spec` | `PendingOwned`, `SenderHeld`, `RepliesRouted`, `ClosedIsFinal`, `ClientInv`, `ResolvedOnce`, `KeepsPromise` | holds |
| `client_liveness` | `LiveSpec` | `TeardownCompletes`, `RegisteredCallsWake` | holds |
| `client_late_registration` | `LiveSpec` | `EveryParkedCallerWakes` | **violated** |
| `client_half_open` | `FairSpec` | `NoHalfOpenTask` | **violated** |
| `server_safety` | `Spec` | `QueueExact`, `GracefulDrain`, `LostOnlyOnFailure`, `RepliesAreAnswers`, `ServerInv`, `SettledOnce` | holds |
| `server_liveness` | `FairSpec` | `AbortCloses`, `NoHeadOfLineBlocking`, `EndCloses`, `RequestsSettle` | holds |
| `server_send_failure` | `LiveSpec` | `SendFailureCloses` | **violated** |
| `service_safety` | `Spec` | `MacroIsTruthful`, `RunsAsCalled`, `ServedByNewest`, `OwnServiceServes`, `ResultIsTheReturn`, `NotFoundIsAMiss`, `ServiceInv` | holds |
| `service_skew` | `Spec` | `TypeAndAritySafe` | **violated** |
| `service_unknown_method` | `Spec` | `UnknownIs404` | **violated** |
| `codec` | `FairSpec` | `FramesExact`, `InOrder`, `BufferBounded`, `NoFalseRejection`, `CleanEndIsComplete`, `CodecInv`, `Delivered` | holds |
| `connection` | `LoadLive` | `RunsAtMostOnce`, `AnsweredByOwnRun`, `LinkInv`, `ServerIsAPeer`, `ClientIsAPeer`, `CallsEnd` | holds |

`ClientInv`, `ServerInv`, `ServiceInv`, `CodecInv` and `LinkInv` are the inductive invariants of
the proofs (section 6); each has the type invariant `TypeOK` of its module as a conjunct.

Run one with `tlc -config client_safety.cfg MCClient`. Deadlock is not checked: a
connection that is closed, with every call done, rightly stops.

### What the violations show

1. **A call that registers after the drain hangs** (`client_late_registration`). `call()`
   reads the token once. The reader may cancel and drain between that check and the
   insert, and while the writer has not yet dropped its receiver the send succeeds too.
   Nobody is left to wake the caller. `RegisteredCallsWake` shows the case is exact: every
   call registered before the drain does wake.
2. **A writer inside `sink.send` does not see the token** (`client_half_open`). If the
   peer stops reading, the reader's exit does not end the writer, which keeps the socket
   open. `TeardownCompletes` shows that this is the only obstacle: with a peer that reads
   or resets, both tasks end.
3. **The server's writer may die alone** (`server_send_failure`). An oversized reply ends
   the writer task; the dispatcher goes on reading, the socket stays open and callers wait.
4. **A longer argument tuple is accepted** (`service_skew`). The server's method runs for a
   client whose trait has one more parameter; the extra bytes are ignored.
5. **`UnknownMethod` arrives as a 500** (`service_unknown_method`). `From<PatinaError>` keeps
   the code of `Remote` and gives every other variant a 500; a 404 comes only from a lookup
   that failed (`NotFoundIsAMiss`).

`CallsEnd` shows that the first and the third of these, and a handler that panics, are the
only ways for a call to hang on a link whose peer is a Patina server; without any one of the
three exceptions the property fails.

Four more disagreements are visible in the models without a run of their own; the first two
are exceptions that a property names, so that it fails without them.

- `parse_result_ok` is documented (`model.rs:152-153`) as "rejecting anything that isn't
  shaped exactly like" `Result<T, PatinaError>`, but passes over lifetimes and consts between
  the angle brackets: `Result<'a, T, PatinaError>` is expanded. `Broken` has the documented
  rule (`ExactResult`); `MacroIsTruthful` shows that this is the only form that slips through
  (`KeepsTheRules`).
- `error.rs:46` says of `Remote`: "The remote peer returned an `Envelope::Error` for this
  call." A reply the stub cannot decode becomes a `Remote` with code 400 made on the client,
  although the method ran and the server sent a `Response`; arguments that cannot be encoded
  become a 500 before anything is sent. `ResultIsTheReturn` says when the first happens
  (`ToldOfValue`): only if client and server disagree on the result type and the bytes are of
  no value of the client's.
- `server.rs:30-31` says of the reply channel's bound that it "Backpressures dispatchers". The
  tasks wait for room (`WorkerReply`), the dispatcher does not (`DispatchRequest` has no such
  guard): it reads on and spawns a task per request, whose number nothing bounds.
- After a rejected frame the server still writes the replies under way (`DispatchEnd`,
  `GracefulDrain`), while `DESIGN.md` (Phase 1, 5.1) says that the connection "will be
  immediately terminated".

## 4. Bounds

| Bound | Code | Value | Why it is enough |
|---|---|---|---|
| `Calls`, `MaxId` | any number of calls, 2^64 ids | 2 | two calls can share the map, the channel and the reader, so that one is cancelled, queued or answered while the other registers or is drained; the proofs cover any number |
| `ChannelCap`, `QueueCap` | 128 | 1 | full and empty are both reached; a second sender has to wait |
| `SocketCap` | kernel buffers | 1 | full and empty are both reached, so that writes block |
| `MaxRequests` | unbounded | 3 | one reply in the writer's hand, one in the channel and one waiting for room; the bound limits what the peer sends, never what the dispatcher accepts |
| `Calls` of `Service` | any number | 1 | calls through a stub share only the frozen table |
| `MaxRegistrations` | unbounded | 3 (1 where one service is enough) | a name is registered, overwritten by a service and overwritten again |
| `Values`, `Wire`, `Deployed` | any Rust types and traits | three types, three methods, three services | encodings of one and two bytes, an encoding that fails, methods with two, one and no arguments, equal and different revisions |
| `Sources` | any trait | the client's trait, and traits with one method of each of 392 forms, alone, before or behind a sound method | every check of `model.rs` decides for some declaration, in every combination with the others |
| `Base`, `HeaderLen` | 256, 4 | 4, 2 | lengths use both digits of the prefix, and foreign streams reach lengths within and beyond the caps |
| `Encoding`, `MaxSent` | any envelope, any number | 3 envelopes of 1, 4 and 5 bytes, 3 sent | one of exactly the smaller cap and one above it; back-to-back frames and three frames in one read |
| `Caps` | any | 4 and 5, chosen for each end | equal, smaller and larger than the peer's |
| `Raw` | any bytes | all streams of up to 5 bytes | empty frames, bodies with bytes left over, bodies that do not decode, cut and oversized frames |
| `ReadCap` | the buffer's spare capacity | 8 | more than the largest frame |
| `MaxLoad` | unbounded | 2 | calls, other connections, aborts and spontaneous resets in one behaviour of `connection`: two calls that compete for every channel, with cancellations, panics and the resets that a closed end causes, or one call and a disturbance. Two calls together with an abort, or with another connection, would make the run too long, so it never has every channel and buffer full at once; the safety properties are proved without this bound |
| `Payloads`, `Oversized` | byte vectors | one that fits, one that does not | the wire layer tells apart only these |
| `PeerFrames` | any frame | see `AnyPeer`, `SparsePeer`, `AskingPeer` | every kind of frame the reader distinguishes, for every id; the liveness runs use fewer |

The id counter does not wrap in the model: it would take 2^64 calls on a connection. Symmetry over
`Calls` is used in `client_safety` only, where no liveness is checked and no definition tells
calls apart.

## 5. Fairness

- `Client!TaskFairness`, `Server!RuntimeFairness`: the runtime polls every woken task
  again (weak fairness per task). `select!` polls its branches in random order, so a
  cancelled token seen again and again is taken (strong fairness of `WriterCancelled` and
  `ReaderCancelled`). The mpsc channel grants its permits in order of arrival, so a
  waiting worker is not overtaken forever (strong fairness of `Push`). Starting,
  cancelling and dropping are the user's choice and are never fair.
- `Client!NetFairness`: a write towards a peer that has closed is answered by a reset.
- `LiveSpec` of the client adds that the peer reads; `PeerFairness` of the server says
  that the peer reads or the connection is reset. `client_half_open` shows what happens
  without it.
- `Server!HandlerFairness`: handlers return. The properties of `server_liveness` state what
  each needs as a premise: `AbortCloses` neither of the two, `NoHeadOfLineBlocking` only
  the peer, `EndCloses` and `RequestsSettle` both.

- `Connection!LinkFairness`: the tasks of both ends as above, handlers that return, sockets
  that close when their owners are gone, a reset for a write to an end that is gone or was
  never accepted. The accept loop is one task: while connections wait it accepts one
  (`Listener!LoopFairness`), and nothing is assumed of how long an accepted one lasts; a loop
  that served its connections itself would break `CallsEnd`. No assumption on the peer is
  left, the peer is the other end. `LoadLive` bounds only steps that no fairness condition promises.
- `WireCodec!FairSpec`: buffered bytes are flushed, and the reading task is polled.

## 6. Proofs

Every safety invariant, action property and refinement that a passing run checks is also
proved, for every value of the constants that satisfies the named assumptions. For each
component TLC checks the inductive invariant first, on the instance of the run.

### Client (`ClientProofs`)

| Theorem | States |
|---|---|
| `ClientInvariant` | `Spec => []ClientInv` |
| `TypeCorrect` | `Spec => []TypeOK` |
| `NoLeakedEntry` | `Spec => []PendingOwned` |
| `NoLostSender` | `Spec => []SenderHeld` |
| `ExactRouting` | `Spec => []RepliesRouted` |
| `ClosedIsTruthful` | `Spec => []ClosedIsFinal` |
| `ResolvesOnce` | `Spec => ResolvedOnce` |
| `ImplementsUnaryCall` | `Spec => KeepsPromise`, that is `Promise!ASpec` |

None of the invariants is inductive alone. `PendingOwned` survives `CallRegister` only
if the fresh id is unused, which is `IdsIssued` (every id is below `next_id`); it survives
`ReaderFire` only if the call being woken is not in the map, which is `ClaimExclusive`;
`ClosedIsFinal` needs that no dropped sender and no dropped receiver is observable before
the cancellation, which is `CancelFirst`. `ClientInv` is their conjunction. The proof has
one lemma per action; `RemoveOwn` (the entry under a call's id is its own) serves every way
a call can end, `CoreFrame` every step that leaves the senders alone. The action property
and the refinement are proved from the same invariant; in the refinement, registering is
`Begin`, firing is `Deliver`, cancelling the token is `Close`, and a dropped sender is
invisible.

### Server (`ServerProofs`)

| Theorem | States |
|---|---|
| `ServerInvariant` | `Spec => []ServerInv` |
| `TypeCorrect` | `Spec => []TypeOK` |
| `QueueIsExact` | `Spec => []QueueExact` |
| `DrainsGracefully` | `Spec => []GracefulDrain` |
| `LosesOnlyOnFailure` | `Spec => []LostOnlyOnFailure` |
| `AnswersOnly` | `Spec => []RepliesAreAnswers` |
| `SettlesOnce` | `Spec => SettledOnce` |

`ServerInv` adds three parts. `WorkersSpawned`: a worker exists exactly if it was spawned,
so that `DispatchRequest` spawns one nobody has waited for. `RepliesHeld`: a reply answers
the request of its worker from the return of the handler on, which the frame on the socket
inherits. `WriterEnded`: the channel is empty once the writer is gone, and the writer ends by
itself only after the dispatcher stopped; otherwise a request spawned after a graceful end
would break `GracefulDrain`. `LostOnlyOnFailure` relies on `QueueExact`: what the writer drops
when it fails is exactly what is marked lost.

### Both ends (`ConnectionProofs`)

| Theorem | States |
|---|---|
| `LinkInvariant` | `LinkSpec => []LinkInv` |
| `ServerPeersClient` | `LinkSpec => ServerIsAPeer`, the client's `Spec` |
| `ClientPeersServer` | `LinkSpec => ClientIsAPeer`, the server's `Spec` |
| `AtMostOnce` | `LinkSpec => []RunsAtMostOnce` |
| `OwnAnswer` | `LinkSpec => []AnsweredByOwnRun` |

The two refinements carry every theorem about one end with an arbitrary peer over to the
link; the proof of `LinkInv` uses them step by step, so that the invariants of both ends
need not be proved again (`LinkStepAsPeers`). They are not free: that the server is a peer
needs `ClosedWhenIdle` (an end closes only when both of its tasks have let go of the socket),
and that the client is one needs that it never sends more requests than there are ids
(`TrailFits`). `Trail` is the one queue that leads from the callers to the workers: the
requests that ran, those on the wire, the one in the writer's hand and those in the channel.
Every request on it belongs to a call that sent it (`TrailCalled`) and no id is on it twice
(`TrailOnce`); a step moves requests along it or appends one, and `AtMostOnce` is its front
part. Back from the workers, `RepliesFromServer` follows a reply through the reader's hand
and the oneshot to the result.

### Codec (`WireCodecProofs`)

| Theorem | States |
|---|---|
| `CodecInvariant` | `Spec => []CodecInv` |
| `TypeCorrect` | `Spec => []TypeOK` |
| `FramesAreExact` | `Spec => []FramesExact` |
| `DecodesInOrder` | `Spec => []InOrder` |
| `BufferIsBounded` | `Spec => []BufferBounded` |
| `NeverFalselyRejected` | `Spec => []NoFalseRejection` |
| `CleanEndsAreComplete` | `Spec => []CleanEndIsComplete` |

They hold for every base, prefix length, caps, encoding and stream. The digits of a length
and the length of its digits are inverse to each other (`LengthOfHeader`, `HeaderOfLength`,
by induction over the length of the prefix; the weights are the recursive function `Pow`,
because the provers have no theory of exponentiation). `InOrder` is not inductive: that the
next frame is the next envelope follows from the bytes themselves. `CodecInv` therefore says
what each buffer holds (`StreamIsSent`, `BodiesAreSent`, `SinkHolds`); `KnownHead` and
`KnownBody` conclude which envelope the bytes at hand begin. `CleanEndIsComplete` needs
`ReadsWhenStarved`: the end of the stream is only seen by a decoder that has used its buffer.

### Macro and service layer (`ServiceMacroProofs`, `ServiceProofs`)

| Theorem | States |
|---|---|
| `FaultsAreTruthful` | for every declaration, the early returns report only a rule that is broken, and nothing only if none is (`KeepsTheRules`: up to lifetimes and consts beside the types of a `Result`) |
| `DecodeInverts` | `Decode(ts, Encode(ts, v) \o r) = {v}` for every tuple that can be encoded |
| `ServiceInvariant` | `Spec => []ServiceInv` |
| `TypeCorrect` | `Spec => []TypeOK` |
| `RunsWhatWasCalled` | `Spec => []RunsAsCalled` |
| `ServesNewest` | `Spec => []ServedByNewest` |
| `OwnServiceAlwaysServes` | `Spec => []OwnServiceServes` |
| `ReturnsTheResult` | `Spec => []ResultIsTheReturn` |
| `NotFoundMeansMissing` | `Spec => []NotFoundIsAMiss` |
| `MacroSpeaksTruth` | `Spec => []MacroIsTruthful` |

The properties speak of results, which come at the end of a call. `ServiceInv` explains every
stage of a call by the one before it: what was sent (`RequestCarries`), what of the table ran
on it (`RunsFromTable`), which of four origins the reply has (`ReplyExplained`) and what the
stub made of it (`ResultExplained`), with `TableIsLog` for the table and `ClientIsExpanded` for
the stub. The proof shows `Explained` to be inductive, which is `ServiceInv` without the types
that follow from the explanations (`ExplainedIsInv`). With `DecodeInverts` the explanation of a result becomes the method's return value.
`PassesAgree` shows that the two passes of `expand_server` and the stub have the same methods;
`NotFoundMeansMissing` and `OwnServiceAlwaysServes` rest on it.
In `ServiceMacroProofs` each check of `model.rs` has a lemma saying when it fails; `FirstFault`
takes the least of the failing positions.

### Assumptions and technique

The assumptions are named where the constants are declared, and TLC evaluates them in the
runs. The bounds are natural numbers, positive where the code's are. The ones that say something
about the code's environment are `WireAssumption` and `EncodingAssumption` (bincode's encodings
are self-delimiting; at run time nothing checks that), `CapsAssumption` (a cap fits the
length prefix), `SourcesAssumption` (the syntax trees of `syn`), `TypesAssumption` (every type in a
signature has an encoding, which the compiler checks), `DeployedAssumption` (only traits that
compile are deployed) and `LinkFramesAssumption` (an arbitrary peer may send what a Patina peer
sends).

Induction over data uses `NatSetInduction` of `SequenceFacts`, which is stated for the set of the
numbers that have the property; it rests on the library's fact that a well-founded relation
has minimal elements. Recursive functions are unfolded through a lemma of their own
(`FlattenUnrolled`, `PowFacts`, `ReadIs`).

The liveness properties (`TeardownCompletes`, `RegisteredCallsWake`, `AbortCloses`,
`NoHeadOfLineBlocking`, `EndCloses`, `RequestsSettle`, `CallsEnd`, `Delivered`) are model-checked only: leads-to under fairness, and the `ENABLED` in it, is out of
the proof system's reach.

## 7. Not modelled

Logging, the address resolution in `connect`, and poisoning of the map's mutex (the code
recovers from it, and no critical section panics). Heartbeats are received and ignored;
no code sends them. Streaming (Phase 4 of `DESIGN.md`) is not implemented. The examples
have no logic of their own. The macro passes visibility, attributes, supertraits and argument
names through, and reports spans; none of that changes what runs. Types are compared by name,
as the macro does. `WireCodec` does not reset the connection, which `Client` and
`Server` do. The wrap-around of ids and allocation failures are out of scope.

## 8. Plan

1. An abstract specification of what `serve_connection` promises (each request of a set is
   answered once, or dropped with the connection), refined by `Server`, as `UnaryCall` is
   by `Client`.
2. The safety parts of the liveness arguments, such as: a call that waits while both tasks of
   the client are down registered after the drain.
