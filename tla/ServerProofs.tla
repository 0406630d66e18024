---------------------------- MODULE ServerProofs ----------------------------
(***************************************************************************)
(* Proofs about one connection of the server, for any number of requests,  *)
(* any handler table, any channel and socket bounds and any peer.          *)
(***************************************************************************)
EXTENDS Server, TLAPS

-----------------------------------------------------------------------------
(***************************************************************************)
(* Facts about sequences, envelopes and answers.                           *)
(***************************************************************************)

(* Append adds its element at the end and moves nothing. *)
LEMMA AppendFacts ==
  ASSUME NEW S, NEW q \in Seq(S), NEW x \in S
  PROVE  /\ Append(q, x) \in Seq(S)
         /\ Len(Append(q, x)) = Len(q) + 1
         /\ DOMAIN q = 1 .. Len(q) /\ Len(q) \in Nat
         /\ DOMAIN Append(q, x) = 1 .. (Len(q) + 1)
         /\ \A i \in 1 .. Len(q) : Append(q, x)[i] = q[i]
         /\ Append(q, x)[Len(q) + 1] = x
OBVIOUS

(* Head and Tail take a sequence apart. *)
LEMMA TailFacts ==
  ASSUME NEW S, NEW q \in Seq(S), q # <<>>
  PROVE  /\ Head(q) = q[1] /\ Head(q) \in S
         /\ Tail(q) \in Seq(S)
         /\ Len(q) \in Nat \ {0}
         /\ Len(Tail(q)) = Len(q) - 1
         /\ DOMAIN q = 1 .. Len(q)
         /\ DOMAIN Tail(q) = 1 .. (Len(q) - 1)
         /\ \A i \in 1 .. (Len(q) - 1) : Tail(q)[i] = q[i + 1]
OBVIOUS

(* Requests, replies and the frames that are neither are told apart by their tag. *)
LEMMA FrameFacts ==
  /\ Malformed \notin Replies /\ Malformed \notin Requests /\ Heartbeat \notin Requests
  /\ Nothing \notin Requests /\ Nothing \notin Replies
  /\ \A f \in Replies : f \notin Requests
  /\ \A f \in Requests : f.id \in Ids /\ f.method \in Methods
BY DEF Malformed, Heartbeat, Nothing, Requests, Replies, Responses, Failures

(* Whatever dispatch() answers to a request is a reply under the request's id, *)
(* and a 404 when the method has no handler.                                   *)
LEMMA AnswerFacts ==
  ASSUME NEW r \in Requests, NEW a \in Answers(r)
  PROVE  /\ a \in Replies /\ a.id = r.id
         /\ r.method \in Registered \/ a = ErrorReply(r.id, NotFound)
<1>1. r.id \in Ids
  BY FrameFacts
<1>2. CASE r.method \in Registered
  <2>1. CASE \E p \in Payloads : a = Response(r.id, p)
    BY <1>1, <1>2, <2>1 DEF Response, Replies, Responses
  <2>2. CASE \E e \in Errors : a = ErrorReply(r.id, e)
    BY <1>1, <1>2, <2>2 DEF ErrorReply, Replies, Failures
  <2> QED BY <1>2, <2>1, <2>2 DEF Answers, HandlerAnswers
<1>3. CASE r.method \notin Registered
  BY <1>1, <1>3, NotFoundAssumption DEF Answers, ErrorReply, Replies, Failures
<1> QED BY <1>2, <1>3

-----------------------------------------------------------------------------
(***************************************************************************)
(* The inductive invariant.                                                *)
(***************************************************************************)
LEMMA InitInv == Init => ServerInv
<1> SUFFICES ASSUME Init PROVE ServerInv
  OBVIOUS
<1> USE DEF Init
<1>0. queue \in Seq(Workers) /\ Len(queue) = 0 /\ DOMAIN queue = {}
      /\ outbox \in Seq(Replies \cup {Malformed}) /\ Len(outbox) = 0 /\ DOMAIN outbox = {}
      /\ inbox \in Seq(Frames) /\ Len(inbox) = 0
  OBVIOUS
<1>1. TypeOK
  <2>1. spawned \in 0 .. MaxRequests /\ 0 <= QueueCap /\ 0 <= SocketCap
    BY RequestsAssumption, QueueAssumption, BufferAssumption
  <2> QED BY <1>0, <2>1 DEF TypeOK
<1>2. WorkersSpawned
  BY RequestsAssumption DEF WorkersSpawned, Workers
<1>3. RepliesHeld
  BY DEF RepliesHeld
<1>4. WriterEnded
  BY DEF WriterEnded
<1>5. QueueExact
  BY <1>0 DEF QueueExact, Queued, InQueue
<1>6. GracefulDrain
  BY DEF GracefulDrain
<1>7. LostOnlyOnFailure
  BY DEF LostOnlyOnFailure
<1>8. RepliesAreAnswers
  BY <1>0 DEF RepliesAreAnswers
<1> QED BY <1>1, <1>2, <1>3, <1>4, <1>5, <1>6, <1>7, <1>8 DEF ServerInv

(* What the peer can still read stays answered as long as the workers that *)
(* have replied keep their request and their reply.                        *)
LEMMA OutboxKept ==
  ASSUME ServerInv, outbox' = outbox, spawned' \in Nat, spawned <= spawned',
         \A w \in 1 .. spawned : stage[w] = "sent" =>
           stage'[w] = "sent" /\ reply'[w] = reply[w] /\ req'[w] = req[w],
         writer = "aborted" => writer' = "aborted"
  PROVE  RepliesAreAnswers'
<1>1. spawned \in Nat /\ 1 .. spawned \subseteq 1 .. spawned'
  BY RequestsAssumption DEF ServerInv, TypeOK
<1>2. ASSUME NEW i \in DOMAIN outbox, outbox[i] # Malformed
      PROVE  \E w \in 1 .. spawned' : /\ stage'[w] = "sent"
                                      /\ outbox[i] = reply'[w]
                                      /\ outbox[i].id = req'[w].id
                                      /\ req'[w].method \in Registered
                                           \/ outbox[i] = ErrorReply(req'[w].id, NotFound)
  <2>1. PICK w \in 1 .. spawned : /\ stage[w] = "sent"
                                  /\ outbox[i] = reply[w]
                                  /\ outbox[i].id = req[w].id
                                  /\ req[w].method \in Registered
                                       \/ outbox[i] = ErrorReply(req[w].id, NotFound)
    BY <1>2 DEF ServerInv, RepliesAreAnswers
  <2> QED BY <1>1, <2>1
<1>3. ASSUME NEW i \in DOMAIN outbox, outbox[i] = Malformed
      PROVE  i = Len(outbox) /\ writer' = "aborted"
  BY <1>3 DEF ServerInv, RepliesAreAnswers
<1> QED BY <1>2, <1>3 DEF RepliesAreAnswers

(* A step of the dispatcher that spawns nothing, or of the peer on its own side, *)
(* leaves workers, channel and writer as they are.                               *)
LEMMA QuietInv ==
  ASSUME ServerInv, UNCHANGED <<workVars, stage, queue, writer, writing, outbox>>,
         dispatcher' \in {"read", "join", "returned", "aborted"},
         dispatcher' = "read" => dispatcher = "read",
         inbox' \in Seq(Frames), Len(inbox') <= SocketCap, eof' \in BOOLEAN, reset' \in BOOLEAN
  PROVE  ServerInv'
<1> USE DEF ServerInv, workVars
<1>1. TypeOK'
  BY DEF TypeOK
<1>2. WorkersSpawned'
  BY DEF WorkersSpawned
<1>3. RepliesHeld'
  BY DEF RepliesHeld
<1>4. WriterEnded'
  BY DEF WriterEnded, Receiving
<1>5. QueueExact'
  BY DEF QueueExact, Queued, InQueue
<1>6. GracefulDrain'
  BY DEF GracefulDrain
<1>7. LostOnlyOnFailure'
  BY DEF LostOnlyOnFailure
<1>8. RepliesAreAnswers'
  BY DEF RepliesAreAnswers
<1> QED BY <1>1, <1>2, <1>3, <1>4, <1>5, <1>6, <1>7, <1>8

LEMMA DispatchRequestInv ==
  ASSUME ServerInv, DispatchRequest
  PROVE  ServerInv'
<1> USE DEF ServerInv, peerVars
<1> DEFINE n == spawned + 1
<1>1. /\ n \in Workers /\ spawned' = n /\ spawned \in Nat /\ n \in Nat /\ n <= MaxRequests
      /\ stage[n] = "none"
  BY RequestsAssumption DEF DispatchRequest, TypeOK, WorkersSpawned, Workers
<1>2. Head(inbox) \in Requests /\ inbox # <<>> /\ dispatcher = "read"
  BY DEF DispatchRequest
<1>3. /\ req' = [req EXCEPT ![n] = Head(inbox)]
      /\ stage' = [stage EXCEPT ![n] = "running"]
      /\ inbox' = Tail(inbox)
      /\ UNCHANGED <<dispatcher, reply, queue, writer, writing, outbox, eof, reset>>
  BY DEF DispatchRequest
<1> HIDE DEF n
<1>4. \A w \in Workers : w # n => stage'[w] = stage[w] /\ req'[w] = req[w]
  BY <1>3 DEF TypeOK
<1>5. stage'[n] = "running" /\ req'[n] = Head(inbox)
  BY <1>1, <1>3 DEF TypeOK
<1>11. TypeOK'
  <2>1. inbox' \in Seq(Frames) /\ Len(inbox') <= SocketCap
    BY <1>2, <1>3, TailFacts, BufferAssumption DEF TypeOK
  <2> QED BY <1>1, <1>2, <1>3, <2>1 DEF TypeOK
<1>12. WorkersSpawned'
  <2>1. \A w \in Workers : w \in Nat /\ (w <= n <=> w <= spawned \/ w = n)
    BY <1>1, RequestsAssumption DEF Workers, n
  <2> QED BY <1>1, <1>2, <1>4, <1>5, <2>1 DEF WorkersSpawned
<1>13. RepliesHeld'
  BY <1>3, <1>4, <1>5 DEF RepliesHeld
<1>14. WriterEnded'
  BY <1>3 DEF WriterEnded, Receiving
<1>15. QueueExact'
  <2>1. Queued' = Queued
    BY <1>1, <1>4, <1>5 DEF Queued
  <2> QED BY <1>3, <2>1 DEF QueueExact, InQueue
<1>16. GracefulDrain'
  BY <1>2, <1>3 DEF GracefulDrain, WriterEnded
<1>17. LostOnlyOnFailure'
  BY <1>3, <1>4, <1>5 DEF LostOnlyOnFailure
<1>18. RepliesAreAnswers'
  <2>1. \A w \in 1 .. spawned : w \in Workers /\ w # n
    BY <1>1, RequestsAssumption DEF Workers, n
  <2>2. spawned <= spawned' /\ spawned' \in Nat
    BY <1>1 DEF n
  <2> QED BY <1>3, <1>4, <2>1, <2>2, OutboxKept
<1> QED BY <1>11, <1>12, <1>13, <1>14, <1>15, <1>16, <1>17, <1>18

LEMMA DispatchQuietInv ==
  ASSUME ServerInv, DispatchIgnore \/ DispatchEnd \/ DispatchJoin \/ DispatchAbort
  PROVE  ServerInv'
<1> USE DEF ServerInv, TypeOK, peerVars
<1>1. CASE DispatchIgnore
  <2>1. inbox' \in Seq(Frames) /\ Len(inbox') <= SocketCap
    BY <1>1, TailFacts, BufferAssumption DEF DispatchIgnore
  <2> QED BY <1>1, <2>1, QuietInv DEF DispatchIgnore
<1>2. CASE DispatchEnd \/ DispatchJoin \/ DispatchAbort
  BY <1>2, QuietInv DEF DispatchEnd, DispatchJoin, DispatchAbort
<1> QED BY <1>1, <1>2

LEMMA PeerInv ==
  ASSUME ServerInv, \/ \E f \in PeerFrames : PeerSend(f)
                    \/ PeerEof
                    \/ NetReset
  PROVE  ServerInv'
<1> USE DEF ServerInv, TypeOK, peerVars, taskVars
<1>1. CASE \E f \in PeerFrames : PeerSend(f)
  <2>1. PICK f \in PeerFrames : PeerSend(f)
    BY <1>1
  <2>2. f \in Frames
    BY SenderAssumption
  <2>3. inbox' \in Seq(Frames) /\ Len(inbox') <= SocketCap
    BY <2>1, <2>2, AppendFacts, BufferAssumption DEF PeerSend
  <2> QED BY <2>1, <2>3, QuietInv DEF PeerSend
<1>2. CASE PeerEof \/ NetReset
  BY <1>2, QuietInv DEF PeerEof, NetReset
<1> QED BY <1>1, <1>2

(* The peer takes the oldest frame; what it has not read keeps its place at the end. *)
LEMMA PeerRecvInv ==
  ASSUME ServerInv, PeerRecv
  PROVE  ServerInv'
<1> USE DEF ServerInv, taskVars, peerVars, workVars
<1>1. /\ outbox # <<>> /\ outbox' = Tail(outbox)
      /\ UNCHANGED <<dispatcher, spawned, req, reply, stage, queue, writer, writing, inbox,
                     eof, reset>>
  BY DEF PeerRecv
<1>2. /\ outbox' \in Seq(Replies \cup {Malformed})
      /\ Len(outbox) \in Nat \ {0} /\ Len(outbox') = Len(outbox) - 1
      /\ DOMAIN outbox = 1 .. Len(outbox)
      /\ DOMAIN outbox' = 1 .. (Len(outbox) - 1)
      /\ \A i \in 1 .. (Len(outbox) - 1) : outbox'[i] = outbox[i + 1]
  BY <1>1, TailFacts DEF TypeOK
<1>11. TypeOK'
  BY <1>1, <1>2, BufferAssumption DEF TypeOK
<1>12. WorkersSpawned'
  BY <1>1 DEF WorkersSpawned
<1>13. RepliesHeld'
  BY <1>1 DEF RepliesHeld
<1>14. WriterEnded'
  BY <1>1 DEF WriterEnded, Receiving
<1>15. QueueExact'
  BY <1>1 DEF QueueExact, Queued, InQueue
<1>16. GracefulDrain'
  BY <1>1 DEF GracefulDrain
<1>17. LostOnlyOnFailure'
  BY <1>1 DEF LostOnlyOnFailure
<1>18. RepliesAreAnswers'
  <2> SUFFICES ASSUME NEW i \in DOMAIN outbox'
               PROVE  IF outbox'[i] = Malformed
                      THEN i = Len(outbox') /\ writer = "aborted"
                      ELSE \E w \in 1 .. spawned :
                             /\ stage[w] = "sent"
                             /\ outbox'[i] = reply[w]
                             /\ outbox'[i].id = req[w].id
                             /\ req[w].method \in Registered
                                  \/ outbox'[i] = ErrorReply(req[w].id, NotFound)
    BY <1>1 DEF RepliesAreAnswers
  <2>1. i + 1 \in DOMAIN outbox /\ outbox'[i] = outbox[i + 1] /\ i \in Nat
    BY <1>2
  <2>2. CASE outbox'[i] = Malformed
    <3>1. i + 1 = Len(outbox) /\ writer = "aborted"
      BY <2>1, <2>2 DEF RepliesAreAnswers
    <3> QED BY <1>2, <2>1, <2>2, <3>1
  <2>3. CASE outbox'[i] # Malformed
    BY <2>1, <2>3 DEF RepliesAreAnswers
  <2> QED BY <2>2, <2>3
<1> QED BY <1>11, <1>12, <1>13, <1>14, <1>15, <1>16, <1>17, <1>18

(* A worker that is running or replying is one the dispatcher spawned, and as *)
(* long as it lives the writer does not end by itself.                        *)
LEMMA BusyFacts ==
  ASSUME ServerInv, NEW w \in Workers, stage[w] \in {"running", "replying"}
  PROVE  /\ w <= spawned /\ req[w] \in Requests
         /\ writer # "finished"
         /\ w \notin InQueue /\ w # writing
<1> USE DEF ServerInv
<1>1. w <= spawned /\ req[w] \in Requests
  BY DEF WorkersSpawned
<1>2. w \in 1 .. spawned
  BY <1>1, RequestsAssumption DEF Workers, TypeOK
<1>3. writer # "finished"
  BY <1>2 DEF GracefulDrain
<1>4. w \notin InQueue /\ w # writing
  <2>1. w \notin Queued
    BY DEF Queued
  <2>2. w # NoWorker
    BY RequestsAssumption DEF Workers, NoWorker
  <2> QED BY <2>1, <2>2 DEF QueueExact
<1> QED BY <1>1, <1>3, <1>4

(* A step of one busy worker that leaves the channel alone. *)
LEMMA WorkerInv ==
  ASSUME ServerInv, NEW w \in Workers, stage[w] \in {"running", "replying"},
         NEW s \in {"replying", "lost", "panicked"}, WorkerGoto(w, s), queue' = queue,
         reply' \in [Workers -> Replies \cup {Nothing}],
         \A v \in Workers : v # w => reply'[v] = reply[v],
         s # "panicked" => reply'[w] \in Answers(req[w]),
         s = "lost" => writer \in {"failed", "aborted"}
  PROVE  ServerInv'
<1> USE DEF ServerInv
<1>1. /\ stage' = [stage EXCEPT ![w] = s]
      /\ UNCHANGED <<dispatcher, spawned, req, queue, writer, writing, inbox, outbox,
                     eof, reset>>
  BY DEF WorkerGoto, peerVars
<1>2. stage'[w] = s /\ \A v \in Workers : v # w => stage'[v] = stage[v]
  BY <1>1 DEF TypeOK
<1>11. TypeOK'
  BY <1>1 DEF TypeOK
<1>12. WorkersSpawned'
  BY <1>1, <1>2 DEF WorkersSpawned
<1>13. RepliesHeld'
  BY <1>1, <1>2 DEF RepliesHeld
<1>14. WriterEnded'
  BY <1>1 DEF WriterEnded, Receiving
<1>15. QueueExact'
  <2>1. Queued' = Queued
    BY <1>2 DEF Queued
  <2> QED BY <1>1, <2>1 DEF QueueExact, InQueue
<1>16. GracefulDrain'
  BY <1>1, BusyFacts DEF GracefulDrain
<1>17. LostOnlyOnFailure'
  BY <1>1, <1>2 DEF LostOnlyOnFailure
<1>18. RepliesAreAnswers'
  <2>1. \A v \in 1 .. spawned : v \in Workers
    BY RequestsAssumption DEF TypeOK, Workers
  <2>2. spawned \in Nat /\ spawned <= spawned
    BY RequestsAssumption DEF TypeOK
  <2> QED BY <1>1, <1>2, <2>1, <2>2, OutboxKept
<1> QED BY <1>11, <1>12, <1>13, <1>14, <1>15, <1>16, <1>17, <1>18

LEMMA HandlerInv ==
  ASSUME ServerInv, NEW w \in Workers, Handler(w)
  PROVE  ServerInv'
<1> USE DEF ServerInv
<1>1. CASE WorkerHandle(w)
  <2>1. PICK a \in Answers(req[w]) : reply' = [reply EXCEPT ![w] = a]
    BY <1>1 DEF WorkerHandle
  <2>2. a \in Replies
    BY <1>1, BusyFacts, AnswerFacts DEF WorkerHandle
  <2>3. /\ reply' \in [Workers -> Replies \cup {Nothing}]
        /\ \A v \in Workers : v # w => reply'[v] = reply[v]
        /\ reply'[w] = a
    BY <2>1, <2>2 DEF TypeOK
  <2> QED BY <1>1, <2>3, WorkerInv DEF WorkerHandle
<1>2. CASE WorkerPanic(w)
  BY <1>2, WorkerInv DEF WorkerPanic, TypeOK
<1> QED BY <1>1, <1>2 DEF Handler

(* The reply of a worker goes to the end of the channel, where it is not yet. *)
LEMMA WorkerReplyInv ==
  ASSUME ServerInv, NEW w \in Workers, WorkerReply(w)
  PROVE  ServerInv'
<1> USE DEF ServerInv
<1>1. /\ stage[w] = "replying" /\ Receiving /\ Len(queue) < QueueCap
      /\ queue' = Append(queue, w)
      /\ stage' = [stage EXCEPT ![w] = "queued"]
      /\ UNCHANGED <<dispatcher, spawned, req, reply, writer, writing, inbox, outbox,
                     eof, reset>>
  BY DEF WorkerReply, Enqueue, WorkerGoto, peerVars
<1>2. stage'[w] = "queued" /\ \A v \in Workers : v # w => stage'[v] = stage[v]
  BY <1>1 DEF TypeOK
<1>3. /\ queue' \in Seq(Workers) /\ Len(queue) \in Nat /\ Len(queue') = Len(queue) + 1
      /\ DOMAIN queue = 1 .. Len(queue)
      /\ DOMAIN queue' = 1 .. (Len(queue) + 1)
      /\ \A i \in 1 .. Len(queue) : queue'[i] = queue[i]
      /\ queue'[Len(queue) + 1] = w
  BY <1>1, AppendFacts DEF TypeOK
<1>4. w \notin InQueue /\ w # writing /\ writer # "finished"
  BY <1>1, BusyFacts
<1>11. TypeOK'
  BY <1>1, <1>3, QueueAssumption DEF TypeOK
<1>12. WorkersSpawned'
  BY <1>1, <1>2 DEF WorkersSpawned
<1>13. RepliesHeld'
  BY <1>1, <1>2 DEF RepliesHeld
<1>14. WriterEnded'
  BY <1>1 DEF WriterEnded, Receiving
<1>15. QueueExact'
  <2>1. Queued' = Queued \cup {w}
    BY <1>2 DEF Queued
  <2>2. InQueue' = InQueue \cup {w}
    BY <1>3 DEF InQueue
  <2>3. \A i, j \in DOMAIN queue' : queue'[i] = queue'[j] => i = j
    <3>1. \A i \in DOMAIN queue : queue[i] # w
      BY <1>4 DEF InQueue
    <3> QED BY <1>3, <3>1 DEF QueueExact
  <2> QED BY <1>1, <1>4, <2>1, <2>2, <2>3 DEF QueueExact
<1>16. GracefulDrain'
  BY <1>1, <1>4 DEF GracefulDrain
<1>17. LostOnlyOnFailure'
  BY <1>1, <1>2 DEF LostOnlyOnFailure
<1>18. RepliesAreAnswers'
  <2>1. \A v \in 1 .. spawned : v \in Workers
    BY RequestsAssumption DEF TypeOK, Workers
  <2>2. spawned \in Nat /\ spawned <= spawned
    BY RequestsAssumption DEF TypeOK
  <2> QED BY <1>1, <1>2, <2>1, <2>2, OutboxKept
<1> QED BY <1>11, <1>12, <1>13, <1>14, <1>15, <1>16, <1>17, <1>18

(* A reply is discarded only after the writer is gone, and not by a graceful end: *)
(* a busy worker's clone of the sender keeps the channel open.                    *)
LEMMA WorkerReplyClosedInv ==
  ASSUME ServerInv, NEW w \in Workers, WorkerReplyClosed(w)
  PROVE  ServerInv'
<1> USE DEF ServerInv
<1>1. /\ stage[w] = "replying" /\ ~Receiving
      /\ WorkerGoto(w, "lost") /\ UNCHANGED <<reply, queue>>
  BY DEF WorkerReplyClosed, Discard
<1>2. writer \in {"failed", "aborted"}
  BY <1>1, BusyFacts DEF TypeOK, Receiving
<1>3. reply'[w] \in Answers(req[w])
  BY <1>1 DEF RepliesHeld
<1> QED BY <1>1, <1>2, <1>3, WorkerInv DEF TypeOK

(* The oldest reply moves from the channel to the writer's hand. *)
LEMMA WriterRecvInv ==
  ASSUME ServerInv, WriterRecv
  PROVE  ServerInv'
<1> USE DEF ServerInv
<1>1. /\ writer = "recv" /\ queue # <<>> /\ queue' = Tail(queue)
      /\ writing' = Head(queue) /\ writer' = "send"
      /\ UNCHANGED <<dispatcher, spawned, req, reply, stage, inbox, outbox, eof, reset>>
  BY DEF WriterRecv, Peek, workVars, peerVars
<1>2. /\ queue' \in Seq(Workers) /\ Len(queue) \in Nat \ {0} /\ Len(queue') = Len(queue) - 1
      /\ DOMAIN queue = 1 .. Len(queue)
      /\ DOMAIN queue' = 1 .. (Len(queue) - 1)
      /\ \A i \in 1 .. (Len(queue) - 1) : queue'[i] = queue[i + 1]
      /\ writing' = queue[1] /\ writing' \in Workers
  BY <1>1, TailFacts DEF TypeOK
<1>3. writing' # NoWorker
  BY <1>2, RequestsAssumption DEF Workers, NoWorker
<1>11. TypeOK'
  BY <1>1, <1>2, QueueAssumption DEF TypeOK
<1>12. WorkersSpawned'
  BY <1>1 DEF WorkersSpawned
<1>13. RepliesHeld'
  BY <1>1 DEF RepliesHeld
<1>14. WriterEnded'
  BY <1>1 DEF WriterEnded, Receiving
<1>15. QueueExact'
  <2>1. InQueue = InQueue' \cup {writing'}
    <3>1. ASSUME NEW i \in DOMAIN queue PROVE queue[i] \in InQueue' \cup {writing'}
      <4>1. CASE i = 1
        BY <1>2, <4>1
      <4>2. CASE i # 1
        <5>1. i - 1 \in DOMAIN queue' /\ queue'[i - 1] = queue[i]
          BY <1>2, <4>2
        <5> QED BY <5>1 DEF InQueue
      <4> QED BY <4>1, <4>2
    <3>2. ASSUME NEW i \in DOMAIN queue' PROVE queue'[i] \in InQueue
      <4>1. i + 1 \in DOMAIN queue /\ queue'[i] = queue[i + 1]
        BY <1>2
      <4> QED BY <4>1 DEF InQueue
    <3>3. writing' \in InQueue
      BY <1>2 DEF InQueue
    <3> QED BY <3>1, <3>2, <3>3 DEF InQueue
  <2>2. writing' \notin InQueue'
    BY <1>2 DEF InQueue, QueueExact
  <2>3. \A i, j \in DOMAIN queue' : queue'[i] = queue'[j] => i = j
    BY <1>2, SMTT(30) DEF QueueExact
  <2>4. Queued' = Queued /\ writing = NoWorker
    BY <1>1 DEF Queued, QueueExact
  <2> QED BY <1>1, <1>3, <2>1, <2>2, <2>3, <2>4 DEF QueueExact
<1>16. GracefulDrain'
  BY <1>1 DEF GracefulDrain
<1>17. LostOnlyOnFailure'
  BY <1>1 DEF LostOnlyOnFailure
<1>18. RepliesAreAnswers'
  BY <1>1 DEF RepliesAreAnswers
<1> QED BY <1>11, <1>12, <1>13, <1>14, <1>15, <1>16, <1>17, <1>18

(* What the writer holds is the queued reply of a worker, and answers its request. *)
LEMMA WritingFacts ==
  ASSUME ServerInv, writer = "send"
  PROVE  /\ writing \in Workers /\ writing \in Queued /\ writing \in 1 .. spawned
         /\ reply[writing] \in Replies
         /\ reply[writing].id = req[writing].id
         /\ req[writing].method \in Registered
              \/ reply[writing] = ErrorReply(req[writing].id, NotFound)
<1> USE DEF ServerInv
<1>1. writing \in Workers /\ writing \in Queued
  BY DEF QueueExact, TypeOK
<1>2. stage[writing] = "queued"
  BY <1>1 DEF Queued
<1>3. writing <= spawned /\ req[writing] \in Requests /\ reply[writing] \in Answers(req[writing])
  BY <1>1, <1>2 DEF WorkersSpawned, RepliesHeld
<1>4. writing \in 1 .. spawned
  BY <1>1, <1>3, RequestsAssumption DEF Workers, TypeOK
<1> QED BY <1>1, <1>3, <1>4, AnswerFacts

LEMMA WriterSentInv ==
  ASSUME ServerInv, WriterSent
  PROVE  ServerInv'
<1> USE DEF ServerInv
<1>1. /\ writer = "send" /\ Len(outbox) < SocketCap
      /\ outbox' = Append(outbox, reply[writing])
      /\ stage' = [stage EXCEPT ![writing] = "sent"]
      /\ writing' = NoWorker /\ writer' = "recv"
      /\ UNCHANGED <<dispatcher, spawned, req, reply, queue, inbox, eof, reset>>
  BY DEF WriterSent, Write, workVars, peerVars
<1>2. /\ writing \in Workers /\ writing \in Queued /\ writing \in 1 .. spawned
      /\ reply[writing] \in Replies
      /\ reply[writing].id = req[writing].id
      /\ req[writing].method \in Registered
           \/ reply[writing] = ErrorReply(req[writing].id, NotFound)
  BY <1>1, WritingFacts
<1>3. stage'[writing] = "sent" /\ \A v \in Workers : v # writing => stage'[v] = stage[v]
  BY <1>1, <1>2 DEF TypeOK
<1>4. stage[writing] = "queued"
  BY <1>2 DEF Queued
<1>5. /\ outbox' \in Seq(Replies \cup {Malformed})
      /\ Len(outbox) \in Nat /\ Len(outbox') = Len(outbox) + 1
      /\ DOMAIN outbox = 1 .. Len(outbox)
      /\ DOMAIN outbox' = 1 .. (Len(outbox) + 1)
      /\ \A i \in 1 .. Len(outbox) : outbox'[i] = outbox[i]
      /\ outbox'[Len(outbox) + 1] = reply[writing]
  <2>1. reply[writing] \in Replies \cup {Malformed}
    BY <1>2
  <2>2. outbox \in Seq(Replies \cup {Malformed})
    BY DEF TypeOK
  <2> QED BY <1>1, <2>1, <2>2, AppendFacts
<1>11. TypeOK'
  BY <1>1, <1>2, <1>5, BufferAssumption DEF TypeOK
<1>12. WorkersSpawned'
  BY <1>1, <1>3, <1>4 DEF WorkersSpawned
<1>13. RepliesHeld'
  BY <1>1, <1>3, <1>4 DEF RepliesHeld
<1>14. WriterEnded'
  BY <1>1 DEF WriterEnded, Receiving
<1>15. QueueExact'
  <2>1. Queued' = Queued \ {writing}
    BY <1>2, <1>3 DEF Queued
  <2>2. InQueue' = InQueue /\ writing \notin InQueue
    BY <1>1 DEF InQueue, QueueExact
  <2>3. NoWorker \notin InQueue /\ writing # NoWorker
    <3>1. NoWorker \notin Workers
      BY RequestsAssumption DEF Workers, NoWorker
    <3> QED BY <1>2, <3>1 DEF QueueExact, Queued
  <2> QED BY <1>1, <2>1, <2>2, <2>3 DEF QueueExact
<1>16. GracefulDrain'
  BY <1>1 DEF GracefulDrain
<1>17. LostOnlyOnFailure'
  BY <1>1, <1>2, <1>3 DEF LostOnlyOnFailure
<1>18. RepliesAreAnswers'
  <2> SUFFICES ASSUME NEW i \in DOMAIN outbox'
               PROVE  /\ outbox'[i] # Malformed
                      /\ \E w \in 1 .. spawned :
                           /\ stage'[w] = "sent"
                           /\ outbox'[i] = reply[w]
                           /\ outbox'[i].id = req[w].id
                           /\ req[w].method \in Registered
                                \/ outbox'[i] = ErrorReply(req[w].id, NotFound)
    BY <1>1 DEF RepliesAreAnswers
  <2>1. CASE i = Len(outbox) + 1
    BY <1>2, <1>3, <1>5, <2>1, FrameFacts
  <2>2. CASE i # Len(outbox) + 1
    <3>1. i \in DOMAIN outbox /\ outbox'[i] = outbox[i]
      BY <1>5, <2>2
    <3>2. outbox[i] # Malformed
      BY <1>1, <3>1 DEF RepliesAreAnswers
    <3>3. PICK w \in 1 .. spawned : /\ stage[w] = "sent"
                                    /\ outbox[i] = reply[w]
                                    /\ outbox[i].id = req[w].id
                                    /\ req[w].method \in Registered
                                         \/ outbox[i] = ErrorReply(req[w].id, NotFound)
      BY <3>1, <3>2 DEF RepliesAreAnswers
    <3>4. w \in Workers
      BY RequestsAssumption DEF TypeOK, Workers
    <3> QED BY <1>3, <1>4, <3>1, <3>2, <3>3, <3>4
  <2> QED BY <2>1, <2>2
<1> QED BY <1>11, <1>12, <1>13, <1>14, <1>15, <1>16, <1>17, <1>18

(* The end of the writer task: what was queued is lost, so the end is graceful  *)
(* only if nothing is queued and no worker is left that could push a reply.     *)
LEMMA WriterEndsInv ==
  ASSUME ServerInv, Receiving, NEW s \in {"finished", "failed", "aborted"}, WriterEnds(s),
         s = "finished" => writer = "recv" /\ queue = <<>> /\ SendersGone,
         TypeOK', RepliesAreAnswers'
  PROVE  ServerInv'
<1> USE DEF ServerInv
<1>1. /\ writer' = s /\ writing' = NoWorker /\ queue' = <<>>
      /\ stage' = [w \in Workers |-> IF w \in Queued THEN "lost" ELSE stage[w]]
      /\ UNCHANGED <<dispatcher, spawned, req, reply, inbox, eof, reset>>
  BY DEF WriterEnds, workVars, peerVars
<1>2. \A w \in Workers : stage'[w] = IF stage[w] = "queued" THEN "lost" ELSE stage[w]
  BY <1>1 DEF Queued
<1>3. \A w \in Workers : stage[w] # "lost"
  BY DEF LostOnlyOnFailure, Receiving
<1>4. ASSUME s = "finished"
      PROVE  Queued = {} /\ Busy = {} /\ dispatcher # "read"
  <2>1. writer = "recv" /\ queue = <<>> /\ Busy = {} /\ dispatcher # "read"
    BY <1>4 DEF SendersGone
  <2>2. InQueue = {} /\ writing = NoWorker
    BY <2>1 DEF InQueue, QueueExact
  <2> QED BY <2>1, <2>2 DEF QueueExact
<1>12. WorkersSpawned'
  BY <1>1, <1>2 DEF WorkersSpawned
<1>13. RepliesHeld'
  BY <1>1, <1>2 DEF RepliesHeld
<1>14. WriterEnded'
  BY <1>1, <1>4 DEF WriterEnded
<1>15. QueueExact'
  <2>1. Queued' = {}
    BY <1>2 DEF Queued
  <2>2. InQueue' = {} /\ DOMAIN queue' = {}
    BY <1>1 DEF InQueue
  <2> QED BY <1>1, <2>1, <2>2 DEF QueueExact
<1>16. GracefulDrain'
  <2> SUFFICES ASSUME s = "finished", NEW w \in 1 .. spawned
               PROVE  stage'[w] \in {"sent", "panicked"}
    BY <1>1 DEF GracefulDrain
  <2>1. w \in Workers /\ w <= spawned
    BY RequestsAssumption DEF TypeOK, Workers
  <2>2. stage[w] \notin {"none", "running", "replying", "queued", "lost"}
    BY <1>3, <1>4, <2>1 DEF WorkersSpawned, Queued, Busy
  <2> QED BY <1>2, <2>1, <2>2 DEF TypeOK
<1>17. LostOnlyOnFailure'
  BY <1>1, <1>2, <1>3, <1>4 DEF LostOnlyOnFailure, Queued
<1> QED BY <1>12, <1>13, <1>14, <1>15, <1>16, <1>17

(* The type of the state after the writer task, and what the peer then reads, when *)
(* nothing more was written.                                                       *)
LEMMA WriterEndsSilent ==
  ASSUME ServerInv, Receiving, NEW s \in {"finished", "failed", "aborted"}, WriterEnds(s),
         outbox' = outbox
  PROVE  TypeOK' /\ RepliesAreAnswers'
<1> USE DEF ServerInv
<1>1. /\ writer' = s /\ writing' = NoWorker /\ queue' = <<>>
      /\ stage' = [w \in Workers |-> IF w \in Queued THEN "lost" ELSE stage[w]]
      /\ UNCHANGED <<dispatcher, spawned, req, reply, inbox, eof, reset>>
  BY DEF WriterEnds, workVars, peerVars
<1>2. TypeOK'
  <2>1. queue' \in Seq(Workers) /\ Len(queue') <= QueueCap
    BY <1>1, QueueAssumption
  <2> QED BY <1>1, <2>1 DEF TypeOK
<1>3. \A w \in 1 .. spawned : w \in Workers /\ (stage[w] = "sent" => stage'[w] = "sent")
  <2>1. \A w \in 1 .. spawned : w \in Workers
    BY RequestsAssumption DEF TypeOK, Workers
  <2> QED BY <1>1, <2>1 DEF Queued
<1>4. spawned \in Nat /\ spawned <= spawned /\ writer # "aborted"
  BY RequestsAssumption DEF TypeOK, Receiving
<1> QED BY <1>1, <1>2, <1>3, <1>4, OutboxKept

LEMMA WriterFailedInv ==
  ASSUME ServerInv, WriterFailed
  PROVE  ServerInv'
BY WriterEndsInv, WriterEndsSilent DEF WriterFailed, Receiving

LEMMA WriterFinishedInv ==
  ASSUME ServerInv, WriterFinished
  PROVE  ServerInv'
BY WriterEndsInv, WriterEndsSilent DEF WriterFinished, Receiving

(* The abort may cut a frame short; nothing is written after it. *)
LEMMA WriterAbortedInv ==
  ASSUME ServerInv, WriterAborted
  PROVE  ServerInv'
<1> USE DEF ServerInv
<1>1. Receiving /\ WriterEnds("aborted")
  BY DEF WriterAborted
<1>2. CASE outbox' = outbox
  BY <1>1, <1>2, WriterEndsInv, WriterEndsSilent
<1>3. CASE outbox' # outbox
  <2>1. /\ writer = "send" /\ Len(outbox) < SocketCap
        /\ outbox' = Append(outbox, Malformed)
    BY <1>3 DEF WriterAborted
  <2>2. /\ writer' = "aborted" /\ writing' = NoWorker /\ queue' = <<>>
        /\ stage' = [w \in Workers |-> IF w \in Queued THEN "lost" ELSE stage[w]]
        /\ UNCHANGED <<dispatcher, spawned, req, reply, inbox, eof, reset>>
    BY <1>1 DEF WriterEnds, workVars, peerVars
  <2>3. /\ outbox' \in Seq(Replies \cup {Malformed})
        /\ Len(outbox) \in Nat /\ Len(outbox') = Len(outbox) + 1
        /\ DOMAIN outbox = 1 .. Len(outbox)
        /\ DOMAIN outbox' = 1 .. (Len(outbox) + 1)
        /\ \A i \in 1 .. Len(outbox) : outbox'[i] = outbox[i]
        /\ outbox'[Len(outbox) + 1] = Malformed
    BY <2>1, AppendFacts DEF TypeOK
  <2>4. TypeOK'
    <3>1. queue' \in Seq(Workers) /\ Len(queue') <= QueueCap
      BY <2>2, QueueAssumption
    <3> QED BY <2>1, <2>2, <2>3, <3>1, BufferAssumption DEF TypeOK
  <2>5. RepliesAreAnswers'
    <3> SUFFICES ASSUME NEW i \in DOMAIN outbox'
                 PROVE  IF outbox'[i] = Malformed
                        THEN i = Len(outbox')
                        ELSE \E w \in 1 .. spawned :
                               /\ stage'[w] = "sent"
                               /\ outbox'[i] = reply[w]
                               /\ outbox'[i].id = req[w].id
                               /\ req[w].method \in Registered
                                    \/ outbox'[i] = ErrorReply(req[w].id, NotFound)
      BY <2>2 DEF RepliesAreAnswers
    <3>1. CASE i = Len(outbox) + 1
      BY <2>3, <3>1
    <3>2. CASE i # Len(outbox) + 1
      <4>1. i \in DOMAIN outbox /\ outbox'[i] = outbox[i]
        BY <2>3, <3>2
      <4>2. outbox[i] # Malformed
        BY <2>1, <4>1 DEF RepliesAreAnswers
      <4>3. PICK w \in 1 .. spawned : /\ stage[w] = "sent"
                                      /\ outbox[i] = reply[w]
                                      /\ outbox[i].id = req[w].id
                                      /\ req[w].method \in Registered
                                           \/ outbox[i] = ErrorReply(req[w].id, NotFound)
        BY <4>1, <4>2 DEF RepliesAreAnswers
      <4>4. w \in Workers
        BY RequestsAssumption DEF TypeOK, Workers
      <4>5. stage'[w] = "sent"
        BY <2>2, <4>3, <4>4 DEF Queued
      <4> QED BY <4>1, <4>2, <4>3, <4>5
    <3> QED BY <3>1, <3>2
  <2> QED BY <1>1, <2>4, <2>5, WriterEndsInv
<1> QED BY <1>2, <1>3

(* Every step of the server and of its peer keeps the invariant. *)
LEMMA NextInv ==
  ASSUME ServerInv, [Next]_vars
  PROVE  ServerInv'
<1>1. CASE ServerStep
  BY <1>1, DispatchRequestInv, DispatchQuietInv, HandlerInv, WorkerReplyInv,
     WorkerReplyClosedInv, WriterRecvInv, WriterSentInv, WriterFailedInv, WriterFinishedInv,
     WriterAbortedInv
     DEF ServerStep, Dispatcher, Push, Writer
<1>2. CASE Environment
  BY <1>2, PeerInv, PeerRecvInv DEF Environment
<1>3. CASE UNCHANGED vars
  BY <1>3, QuietInv DEF vars, workVars, peerVars, ServerInv, TypeOK
<1> QED BY <1>1, <1>2, <1>3 DEF Next

(* No step of any task, or of the peer, unsettles a request. *)
LEMMA SettledStep ==
  ASSUME ServerInv, Next
  PROVE  KeepsSettled
<1> USE DEF ServerInv, KeepsSettled
<1>0. Len(outbox) \in Nat
  BY DEF TypeOK
<1>1. CASE DispatchRequest
  <2>1. spawned + 1 \in Workers /\ stage[spawned + 1] = "none"
    BY <1>1, RequestsAssumption DEF DispatchRequest, TypeOK, WorkersSpawned, Workers
  <2> QED BY <1>0, <1>1, <2>1 DEF DispatchRequest, Receiving, TypeOK
<1>2. CASE DispatchIgnore \/ DispatchEnd \/ DispatchJoin \/ DispatchAbort
  BY <1>0, <1>2 DEF DispatchIgnore, DispatchEnd, DispatchJoin, DispatchAbort, workVars,
     Receiving
<1>3. ASSUME NEW w \in Workers, Handler(w) \/ Push(w) PROVE KeepsSettled
  BY <1>0, <1>3 DEF Handler, Push, WorkerHandle, WorkerPanic, WorkerReply, Enqueue,
     WorkerReplyClosed, Discard, WorkerGoto, Receiving, TypeOK
<1>4. CASE WriterRecv
  BY <1>0, <1>4 DEF WriterRecv, Peek, workVars, Receiving
<1>5. CASE WriterSent
  <2>1. writing \in Queued /\ stage[writing] = "queued" /\ writing \in Workers
    BY <1>5, WritingFacts DEF WriterSent, Write, Queued
  <2> QED BY <1>0, <1>5, <2>1 DEF WriterSent, Write, workVars, Receiving, TypeOK
<1>6. CASE WriterFailed \/ WriterFinished
  BY <1>0, <1>6 DEF WriterFailed, WriterFinished, WriterEnds, workVars, Receiving, Queued
<1>7. CASE WriterAborted
  <2>1. Receiving /\ WriterEnds("aborted")
    BY <1>7 DEF WriterAborted
  <2>2. CASE outbox' = outbox
    BY <1>0, <2>1, <2>2 DEF WriterEnds, workVars, Receiving, Queued
  <2>3. CASE outbox' # outbox
    <3>1. writing \in Queued
      BY <1>7, <2>3, WritingFacts DEF WriterAborted
    <3>2. stage'[writing] = "lost"
      BY <2>1, <3>1 DEF WriterEnds, Queued
    <3> QED BY <2>1, <3>1, <3>2 DEF WriterEnds, workVars, Queued
  <2> QED BY <2>2, <2>3
<1>8. CASE Environment
  <2>1. UNCHANGED <<stage, reply, writer>>
    BY <1>8 DEF Environment, PeerSend, PeerRecv, PeerEof, NetReset, taskVars, workVars
  <2>2. Len(outbox') <= Len(outbox)
    <3>1. CASE PeerRecv
      BY <1>0, <3>1, TailFacts DEF PeerRecv, TypeOK
    <3>2. CASE ~PeerRecv
      BY <1>0, <1>8, <3>2 DEF Environment, PeerSend, PeerEof, NetReset
    <3> QED BY <3>1, <3>2
  <2>3. Len(outbox') \in Nat
    <3>1. ServerInv'
      BY NextInv
    <3> QED BY <3>1 DEF TypeOK
  <2> QED BY <1>0, <2>1, <2>2, <2>3 DEF Receiving
<1> QED BY <1>1, <1>2, <1>3, <1>4, <1>5, <1>6, <1>7, <1>8
        DEF Next, ServerStep, Dispatcher, Writer

(* A worker whose reply was sent stays as it is. *)
LEMMA SentStays ==
  ASSUME ServerInv, [Next]_vars, NEW w \in 1 .. spawned, stage[w] = "sent"
  PROVE  /\ w \in 1 .. spawned' /\ stage'[w] = "sent"
         /\ reply'[w] = reply[w] /\ req'[w] = req[w]
<1>1. w \in Workers /\ spawned \in Nat
  BY RequestsAssumption DEF ServerInv, TypeOK, Workers
<1>2. CASE DispatchRequest
  <2>1. spawned' = spawned + 1 /\ req' = [req EXCEPT ![spawned + 1] = Head(inbox)]
    BY <1>2 DEF DispatchRequest
  <2>2. w # spawned + 1 /\ w \in 1 .. (spawned + 1)
    BY <1>1
  <2>3. stage'[w] = "sent" /\ reply'[w] = reply[w]
    BY <1>1, <1>2, SettledStep DEF KeepsSettled, Next, ServerStep, Dispatcher
  <2> QED BY <1>1, <2>1, <2>2, <2>3 DEF ServerInv, TypeOK
<1>3. CASE Next /\ ~DispatchRequest
  <2>1. UNCHANGED <<spawned, req>>
    <3>1. CASE ServerStep
      BY <1>3, <3>1 DEF ServerStep, Dispatcher, DispatchIgnore, DispatchEnd, DispatchJoin,
         DispatchAbort, Handler, WorkerHandle, WorkerPanic, Push, WorkerReply, Enqueue,
         WorkerReplyClosed, Discard, WorkerGoto, Writer, WriterRecv, Peek, WriterSent, Write,
         WriterFailed, WriterFinished, WriterAborted, WriterEnds, workVars
    <3>2. CASE Environment
      BY <3>2 DEF Environment, PeerSend, PeerRecv, PeerEof, NetReset, taskVars, workVars
    <3> QED BY <1>3, <3>1, <3>2 DEF Next
  <2>2. stage'[w] = "sent" /\ reply'[w] = reply[w]
    BY <1>1, <1>3, SettledStep DEF KeepsSettled
  <2> QED BY <2>1, <2>2
<1>4. CASE UNCHANGED vars
  BY <1>4 DEF vars, workVars
<1> QED BY <1>2, <1>3, <1>4

-----------------------------------------------------------------------------
(***************************************************************************)
(* Theorems.                                                               *)
(***************************************************************************)

(* The inductive invariant of the connection: one worker per request read, *)
(* every reply in one place and an answer to its worker's request, and a   *)
(* graceful end of writer_loop only after the last worker.                 *)
THEOREM ServerInvariant == Spec => []ServerInv
BY InitInv, NextInv, PTL DEF Spec

(* The state keeps its shape; the writer channel never holds more than       *)
(* WRITER_CHANNEL_CAPACITY replies.                                          *)
THEOREM TypeCorrect == Spec => []TypeOK
<1>1. ServerInv => TypeOK
  BY DEF ServerInv
<1> QED BY <1>1, ServerInvariant, PTL

(* A reply pushed into the mpsc channel is queued once or in the hand of *)
(* writer_loop, and nothing else is.                                     *)
THEOREM QueueIsExact == Spec => []QueueExact
<1>1. ServerInv => QueueExact
  BY DEF ServerInv
<1> QED BY <1>1, ServerInvariant, PTL

(* serve_connection_inner drains: when writer_loop ends because its senders *)
(* are gone, every request that was read is answered or its handler         *)
(* panicked, whatever the bounds and the interleaving.                      *)
THEOREM DrainsGracefully == Spec => []GracefulDrain
<1>1. ServerInv => GracefulDrain
  BY DEF ServerInv
<1> QED BY <1>1, ServerInvariant, PTL

(* The worker's "writer mpsc closed; dropping response" branch runs only after *)
(* the writer task failed or was aborted.                                      *)
THEOREM LosesOnlyOnFailure == Spec => []LostOnlyOnFailure
<1>1. ServerInv => LostOnlyOnFailure
  BY DEF ServerInv
<1> QED BY <1>1, ServerInvariant, PTL

(* Every frame the peer can still read is the reply of a worker of this      *)
(* connection, under the id of that worker's request and a 404 for a method  *)
(* without handler; only the last one can be cut short, by an abort.         *)
THEOREM AnswersOnly == Spec => []RepliesAreAnswers
<1>1. ServerInv => RepliesAreAnswers
  BY DEF ServerInv
<1> QED BY <1>1, ServerInvariant, PTL

(* The outcome of a request is final: no step of any task changes or revives *)
(* a reply that was sent, lost or never made, a frame reaches the socket     *)
(* only by using up a queued reply, and the end of writer_loop is the end of *)
(* what is written.                                                          *)
THEOREM SettlesOnce == Spec => SettledOnce
<1>1. ServerInv /\ [Next]_vars => [KeepsSettled]_vars
  BY SettledStep
<1> QED BY <1>1, ServerInvariant, PTL DEF Spec, SettledOnce
=============================================================================
