------------------------------- MODULE Server -------------------------------
(***************************************************************************)
(* One connection of the Patina server (server.rs): the dispatcher of      *)
(* serve_connection_inner reads frames and spawns a worker task per        *)
(* request, each worker runs its handler and pushes the reply into a       *)
(* bounded mpsc channel, and a writer task drains that channel to the      *)
(* socket.  Connections share only the frozen handler table, so one        *)
(* connection is the whole state.                                          *)
(*                                                                         *)
(* As in Client, an action is one stretch of a task between two points     *)
(* another thread can see, and the peer and the network are arbitrary.     *)
(***************************************************************************)
EXTENDS Envelope, Sequences

CONSTANTS
  Registered,   \* the keys of the handler table
  NotFound,     \* ErrorData of an unknown method: UNKNOWN_METHOD_CODE, 404
  MaxRequests,  \* bound: requests the peer sends on the connection
  QueueCap,     \* WRITER_CHANNEL_CAPACITY
  SocketCap,    \* bound: frames the TCP buffers hold in each direction
  PeerFrames    \* the frames the peer may send

ASSUME RegisteredAssumption == Registered \subseteq Methods
ASSUME NotFoundAssumption == NotFound \in Errors
ASSUME RequestsAssumption == MaxRequests \in Nat
ASSUME QueueAssumption == QueueCap \in Nat \ {0}
ASSUME BufferAssumption == SocketCap \in Nat \ {0}
ASSUME SenderAssumption == PeerFrames \subseteq Frames

Workers  == 1 .. MaxRequests
NoWorker == 0

VARIABLES
  dispatcher,  \* where serve_connection_inner is
  spawned,     \* worker tasks spawned so far
  req,         \* the request of each worker
  reply,       \* the envelope its dispatch() returned
  stage,       \* where the worker, and then its reply, is
  queue,       \* the mpsc channel: workers whose reply waits to be written
  writer,      \* where writer_loop is
  writing,     \* the worker whose reply is in sink.send(..).await
  inbox,       \* frames from the peer not yet read
  outbox,      \* frames written and not yet read by the peer
  eof,         \* the peer will send nothing more
  reset        \* the connection was reset: reads and writes may fail

workVars == <<spawned, req, reply>>
peerVars == <<eof, reset>>
vars == <<dispatcher, workVars, stage, queue, writer, writing, inbox, outbox, peerVars>>

Nothing == [tag |-> "Nothing"]

Busy   == {w \in Workers : stage[w] \in {"running", "replying"}}
Queued == {w \in Workers : stage[w] = "queued"}

(* The writer task holds the receiver of the channel until it ends. *)
Receiving == writer \in {"recv", "send"}

Init ==
  /\ dispatcher = "read"
  /\ spawned = 0
  /\ req = [w \in Workers |-> Nothing]
  /\ reply = [w \in Workers |-> Nothing]
  /\ stage = [w \in Workers |-> "none"]
  /\ queue = <<>>
  /\ writer = "recv"
  /\ writing = NoWorker
  /\ inbox = <<>>
  /\ outbox = <<>>
  /\ eof = FALSE
  /\ reset = FALSE

-----------------------------------------------------------------------------
(***************************************************************************)
(* serve_connection_inner.                                                 *)
(***************************************************************************)

(* A Request: the next worker task is spawned with a clone of the sender. *)
DispatchRequest ==
  /\ dispatcher = "read"
  /\ inbox # <<>>
  /\ Head(inbox) \in Requests
  /\ spawned < MaxRequests
  /\ spawned' = spawned + 1
  /\ req' = [req EXCEPT ![spawned + 1] = Head(inbox)]
  /\ stage' = [stage EXCEPT ![spawned + 1] = "running"]
  /\ inbox' = Tail(inbox)
  /\ UNCHANGED <<dispatcher, reply, queue, writer, writing, outbox, peerVars>>

(* A Heartbeat is consumed, a Response or an Error ignored. *)
DispatchIgnore ==
  /\ dispatcher = "read"
  /\ inbox # <<>>
  /\ Head(inbox) \in Replies \cup {Heartbeat}
  /\ inbox' = Tail(inbox)
  /\ UNCHANGED <<dispatcher, workVars, stage, queue, writer, writing, outbox, peerVars>>

(* read.next() yields an error, or None at the end: the loop ends and the *)
(* dispatcher drops its own sender.                                       *)
DispatchEnd ==
  /\ dispatcher = "read"
  /\ \/ reset
     \/ inbox # <<>> /\ Head(inbox) = Malformed
     \/ inbox = <<>> /\ eof
  /\ dispatcher' = "join"
  /\ UNCHANGED <<workVars, stage, queue, writer, writing, inbox, outbox, peerVars>>

(* writer.await: the connection ends with the writer task. *)
DispatchJoin ==
  /\ dispatcher = "join"
  /\ ~Receiving
  /\ dispatcher' = "returned"
  /\ UNCHANGED <<workVars, stage, queue, writer, writing, inbox, outbox, peerVars>>

(* The owner of the connection's future drops it at either await; AbortOnDrop *)
(* asks the runtime to abort the writer task.                                 *)
DispatchAbort ==
  /\ dispatcher \in {"read", "join"}
  /\ dispatcher' = "aborted"
  /\ UNCHANGED <<workVars, stage, queue, writer, writing, inbox, outbox, peerVars>>

-----------------------------------------------------------------------------
(***************************************************************************)
(* The worker task: dispatch(), then tx.send(response).await.              *)
(***************************************************************************)
WorkerGoto(w, s) ==
  /\ stage' = [stage EXCEPT ![w] = s]
  /\ UNCHANGED <<dispatcher, spawned, req, writer, writing, inbox, outbox, peerVars>>

(* What a handler may make of a request. *)
HandlerAnswers(r) ==
  {Response(r.id, p) : p \in Payloads} \cup {ErrorReply(r.id, e) : e \in Errors}

(* Mutant: the answer to an unknown method carries no id. *)
AnswersWithoutId(r) ==
  IF r.method \in Registered THEN HandlerAnswers(r) ELSE {ErrorReply(0, NotFound)}

(* What dispatch() may answer: the handler decides, unless there is none. *)
Answers(r) ==
  IF r.method \in Registered THEN HandlerAnswers(r) ELSE {ErrorReply(r.id, NotFound)}

WorkerHandle(w) ==
  /\ stage[w] = "running"
  /\ \E a \in Answers(req[w]) : reply' = [reply EXCEPT ![w] = a]
  /\ WorkerGoto(w, "replying")
  /\ UNCHANGED queue

(* The handler panics: the task dies, with its clone of the sender. *)
WorkerPanic(w) ==
  /\ stage[w] = "running"
  /\ req[w].method \in Registered
  /\ WorkerGoto(w, "panicked")
  /\ UNCHANGED <<reply, queue>>

Enqueue(w) ==
  /\ stage[w] = "replying"
  /\ Receiving
  /\ queue' = Append(queue, w)
  /\ WorkerGoto(w, "queued")
  /\ UNCHANGED reply

(* Mutant: replies are kept in the order of the requests. *)
WorkerReplyInOrder(w) ==
  Len(queue) < QueueCap /\ (\A v \in Busy : v >= w) /\ Enqueue(w)

(* The reply waits for a free place in the channel. *)
WorkerReply(w) == Len(queue) < QueueCap /\ Enqueue(w)

Discard(w) ==
  /\ stage[w] = "replying"
  /\ WorkerGoto(w, "lost")
  /\ UNCHANGED <<reply, queue>>

(* Mutant: try_send, which gives up on a full channel too. *)
WorkerReplyTry(w) == (~Receiving \/ Len(queue) = QueueCap) /\ Discard(w)

(* The send fails: "writer mpsc closed; dropping response". *)
WorkerReplyClosed(w) == ~Receiving /\ Discard(w)

-----------------------------------------------------------------------------
(***************************************************************************)
(* writer_loop.                                                            *)
(***************************************************************************)
Peek ==
  /\ writer = "recv"
  /\ queue # <<>>
  /\ writing' = Head(queue)
  /\ writer' = "send"
  /\ UNCHANGED <<dispatcher, workVars, stage, inbox, outbox, peerVars>>

(* Mutant: the reply is read and left in the channel. *)
WriterRecvPeek == Peek /\ UNCHANGED queue

WriterRecv == Peek /\ queue' = Tail(queue)

(* sink.send completes: the frame is encoded and flushed to the socket. *)
Write ==
  /\ writer = "send"
  /\ Encodable(reply[writing])
  /\ ~reset
  /\ Len(outbox) < SocketCap
  /\ outbox' = Append(outbox, reply[writing])
  /\ stage' = [stage EXCEPT ![writing] = "sent"]
  /\ UNCHANGED <<dispatcher, workVars, queue, inbox, peerVars>>

(* Mutant: the envelope stays in hand and is sent again. *)
WriterSentAgain == Write /\ UNCHANGED <<writer, writing>>

WriterSent == Write /\ writing' = NoWorker /\ writer' = "recv"

(* Mutant: the receiver outlives the task, and the queued replies with it. *)
WriterEndsQueueKept(s) ==
  /\ writer' = s
  /\ writing' = NoWorker
  /\ UNCHANGED <<dispatcher, workVars, stage, queue, inbox, peerVars>>

(* The task ends; the receiver goes, with every reply still queued. *)
WriterEnds(s) ==
  /\ writer' = s
  /\ stage' = [w \in Workers |-> IF w \in Queued THEN "lost" ELSE stage[w]]
  /\ queue' = <<>>
  /\ writing' = NoWorker
  /\ UNCHANGED <<dispatcher, workVars, inbox, peerVars>>

(* sink.send fails: the reply exceeds the frame cap, or the socket is dead. *)
WriterFailed ==
  /\ writer = "send"
  /\ ~Encodable(reply[writing]) \/ reset
  /\ WriterEnds("failed")
  /\ UNCHANGED outbox

(* Mutant: the workers' senders do not keep the channel open. *)
SendersGoneEarly == dispatcher # "read"

(* Mutant: no drop(tx), the dispatcher keeps its sender while it waits. *)
SendersGoneTxKept == dispatcher \in {"returned", "aborted"} /\ Busy = {}

(* Every sender is dropped: the dispatcher's and those of the workers. *)
SendersGone == dispatcher # "read" /\ Busy = {}

(* rx.recv() yields None: no reply is queued and no sender is left. *)
WriterFinished ==
  /\ writer = "recv"
  /\ queue = <<>>
  /\ SendersGone
  /\ WriterEnds("finished")
  /\ UNCHANGED outbox

(* Mutant: the abort is noticed only between two sends. *)
WriterAbortedIdle ==
  /\ dispatcher = "aborted"
  /\ writer = "recv"
  /\ WriterEnds("aborted")
  /\ UNCHANGED outbox

(* The abort takes effect at the task's next await; in the middle of a send *)
(* part of a frame may already be on the wire.                              *)
WriterAborted ==
  /\ dispatcher = "aborted"
  /\ Receiving
  /\ WriterEnds("aborted")
  /\ \/ UNCHANGED outbox
     \/ /\ writer = "send"
        /\ Encodable(reply[writing])
        /\ Len(outbox) < SocketCap
        /\ outbox' = Append(outbox, Malformed)

-----------------------------------------------------------------------------
(***************************************************************************)
(* The environment.                                                        *)
(***************************************************************************)
taskVars == <<dispatcher, workVars, stage, queue, writer, writing>>

(* MaxRequests bounds what the peer asks, never what the dispatcher accepts. *)
PeerSend(f) ==
  /\ ~eof
  /\ f \in Requests => spawned + Len(inbox) < MaxRequests
  /\ Len(inbox) < SocketCap
  /\ inbox' = Append(inbox, f)
  /\ UNCHANGED <<taskVars, outbox, peerVars>>

PeerRecv ==
  /\ outbox # <<>>
  /\ outbox' = Tail(outbox)
  /\ UNCHANGED <<taskVars, inbox, peerVars>>

PeerEof ==
  /\ ~eof
  /\ eof' = TRUE
  /\ UNCHANGED <<taskVars, inbox, outbox, reset>>

NetReset ==
  /\ ~reset
  /\ reset' = TRUE
  /\ UNCHANGED <<taskVars, inbox, outbox, eof>>

-----------------------------------------------------------------------------
Dispatcher == DispatchRequest \/ DispatchIgnore \/ DispatchEnd \/ DispatchJoin

Handler(w) == WorkerHandle(w) \/ WorkerPanic(w)

Push(w) == WorkerReply(w) \/ WorkerReplyClosed(w)

Writer == WriterRecv \/ WriterSent \/ WriterFailed \/ WriterFinished

ServerStep ==
  \/ Dispatcher
  \/ DispatchAbort
  \/ \E w \in Workers : Handler(w) \/ Push(w)
  \/ Writer
  \/ WriterAborted

Environment ==
  \/ \E f \in PeerFrames : PeerSend(f)
  \/ PeerRecv
  \/ PeerEof
  \/ NetReset

Next == ServerStep \/ Environment

Spec == Init /\ [][Next]_vars

(***************************************************************************)
(* The runtime polls every woken task, and an aborted task is dropped the  *)
(* next time it is scheduled.  The mpsc channel serves waiting senders in  *)
(* the order of their arrival, so a sender cannot be overtaken forever.    *)
(***************************************************************************)
RuntimeFairness ==
  /\ WF_vars(Dispatcher)
  /\ WF_vars(Writer)
  /\ WF_vars(WriterAborted)
  /\ \A w \in Workers : SF_vars(Push(w))

(* A peer that is alive reads what it is sent; one that is gone answers a *)
(* write with a reset.                                                    *)
PeerFairness == WF_vars(outbox # <<>> /\ (PeerRecv \/ NetReset))

(* Handlers return. *)
HandlerFairness == \A w \in Workers : WF_vars(Handler(w))

FairSpec == Spec /\ RuntimeFairness
LiveSpec == FairSpec /\ PeerFairness /\ HandlerFairness

-----------------------------------------------------------------------------
(***************************************************************************)
(* Properties.                                                             *)
(***************************************************************************)
InQueue == {queue[i] : i \in DOMAIN queue}

(* Mutant: the connection counts as closed while the writer still holds its half. *)
SocketClosedEarly == dispatcher # "read"

(* Both halves of the Framed are dropped: the stream with the future of *)
(* serve_connection_inner, the sink with the writer task.               *)
SocketClosed == dispatcher \in {"returned", "aborted"} /\ ~Receiving

(* The shape of the state; the channel and the socket stay within bounds. *)
TypeOK ==
  /\ dispatcher \in {"read", "join", "returned", "aborted"}
  /\ spawned \in 0 .. MaxRequests
  /\ req \in [Workers -> Requests \cup {Nothing}]
  /\ reply \in [Workers -> Replies \cup {Nothing}]
  /\ stage \in [Workers -> {"none", "running", "replying", "queued", "sent", "lost",
                            "panicked"}]
  /\ queue \in Seq(Workers) /\ Len(queue) <= QueueCap
  /\ writer \in {"recv", "send", "finished", "failed", "aborted"}
  /\ writing \in Workers \cup {NoWorker}
  /\ inbox \in Seq(Frames) /\ Len(inbox) <= SocketCap
  /\ outbox \in Seq(Replies \cup {Malformed}) /\ Len(outbox) <= SocketCap
  /\ eof \in BOOLEAN
  /\ reset \in BOOLEAN

(* Each accepted reply is in exactly one place: a reply pushed into the     *)
(* channel is queued once or in the writer's hand, and nothing else is.     *)
QueueExact ==
  /\ Queued = InQueue \cup ({writing} \ {NoWorker})
  /\ \A i, j \in DOMAIN queue : queue[i] = queue[j] => i = j
  /\ writing \notin InQueue
  /\ writing # NoWorker <=> writer = "send"

(* serve_connection_inner drains before it returns: a writer that ended     *)
(* because its senders were gone leaves no request of this connection       *)
(* unanswered, unless the handler panicked.                                 *)
GracefulDrain ==
  writer = "finished" => \A w \in 1 .. spawned : stage[w] \in {"sent", "panicked"}

(* A reply is dropped only when the writer task failed or was aborted. *)
LostOnlyOnFailure ==
  \A w \in Workers : stage[w] = "lost" => writer \in {"failed", "aborted"}

(* The peer reads only replies to its own requests, each under the id it was  *)
(* asked with and a 404 if the method is unknown, and a frame cut short by an *)
(* abort is the last thing it reads.                                          *)
RepliesAreAnswers ==
  \A i \in DOMAIN outbox :
    IF outbox[i] = Malformed
    THEN i = Len(outbox) /\ writer = "aborted"
    ELSE \E w \in 1 .. spawned : /\ stage[w] = "sent"
                                 /\ outbox[i] = reply[w]
                                 /\ outbox[i].id = req[w].id
                                 /\ req[w].method \in Registered
                                      \/ outbox[i] = ErrorReply(req[w].id, NotFound)

(* Workers are spawned in order, each with the request it was spawned for. *)
WorkersSpawned ==
  \A w \in Workers : /\ w <= spawned <=> stage[w] # "none"
                     /\ w <= spawned => req[w] \in Requests

(* From the return of dispatch() on, a worker's reply answers its request. *)
RepliesHeld ==
  \A w \in Workers :
    stage[w] \in {"replying", "queued", "sent", "lost"} => reply[w] \in Answers(req[w])

(* The channel ends with the writer task, and the task ends by itself only *)
(* once the dispatcher has stopped spawning.                               *)
WriterEnded ==
  /\ ~Receiving => queue = <<>>
  /\ writer = "finished" => dispatcher # "read"

(* ServerInv is inductive: every request read has one worker, every reply is *)
(* in one place and answers its worker's request, and the writer ends        *)
(* gracefully only when no worker can push a reply any more.                 *)
ServerInv ==
  /\ TypeOK
  /\ WorkersSpawned
  /\ RepliesHeld
  /\ WriterEnded
  /\ QueueExact
  /\ GracefulDrain
  /\ LostOnlyOnFailure
  /\ RepliesAreAnswers

(* The outcome of a request is final: a reply is never changed or revived, every *)
(* frame written uses up one queued reply, and nothing follows the writer's end. *)
KeepsSettled ==
  /\ \A w \in Workers : stage[w] \in {"sent", "lost", "panicked"} =>
       stage'[w] = stage[w] /\ reply'[w] = reply[w]
  /\ Len(outbox') > Len(outbox) => \E w \in Queued : stage'[w] \in {"sent", "lost"}
  /\ ~Receiving => ~Receiving' /\ Len(outbox') <= Len(outbox)

(* No step of the connection or of its peer unsettles a request. *)
SettledOnce == [][KeepsSettled]_vars

(* AbortOnDrop: a connection whose future is dropped closes its socket, even *)
(* if handlers never return and the peer never reads.                        *)
AbortCloses == dispatcher = "aborted" ~> SocketClosed

(* One task per request: a handler that never returns holds up no reply but *)
(* its own, as long as the peer reads or resets.                            *)
NoHeadOfLineBlocking ==
  PeerFairness =>
    \A w \in Workers : stage[w] = "replying" ~> stage[w] \in {"sent", "lost"}

(* After the end of the stream or a decode error the connection closes, if *)
(* the handlers under way return and the peer reads or resets.             *)
EndCloses ==
  PeerFairness /\ HandlerFairness => (dispatcher = "join" ~> SocketClosed)

(* Every request read is settled, under the same conditions: answered, lost *)
(* with the writer, or panicked.                                            *)
RequestsSettle ==
  PeerFairness /\ HandlerFairness =>
    \A w \in Workers : stage[w] = "running" ~> stage[w] \in {"sent", "lost", "panicked"}

-----------------------------------------------------------------------------
(***************************************************************************)
(* Statements of the documentation that the code does not meet.            *)
(***************************************************************************)

(* error.rs: any WireError "taints the byte stream and the caller is expected *)
(* to drop the connection".  The writer's send failure does not.              *)
SendFailureCloses == writer = "failed" ~> SocketClosed
=============================================================================
