-------------------------- MODULE ConnectionProofs --------------------------
(***************************************************************************)
(* Proofs about a client and a server on one link, for any number of calls *)
(* and connections, any bounds and any handler table.  The results about   *)
(* each end, in ClientProofs and ServerProofs, carry over because the      *)
(* other end is one of its peers.                                          *)
(***************************************************************************)
EXTENDS Connection, ClientProofs, FiniteSetTheorems, SequenceTheorems

P == INSTANCE ServerProofs WITH
  MaxRequests <- MaxId, writer <- swriter, writing <- swriting,
  inbox <- outbox, outbox <- inbox

-----------------------------------------------------------------------------
(***************************************************************************)
(* The two ends speak of the same envelopes.                               *)
(***************************************************************************)
LEMMA SameEnvelopes ==
  /\ S!Requests = Requests /\ S!Replies = Replies /\ S!Malformed = Malformed
  /\ S!Heartbeat = Heartbeat /\ S!Frames = Frames
BY DEF S!Requests, S!Replies, S!Responses, S!Failures, S!Ids, S!Malformed, S!Heartbeat,
       S!Frames, S!Envelopes,
       Requests, Replies, Responses, Failures, Ids, Malformed, Heartbeat, Frames, Envelopes

LEMMA SameServerInv == S!ServerInv <=> P!ServerInv
BY DEF S!ServerInv, S!TypeOK, S!WorkersSpawned, S!RepliesHeld, S!WriterEnded, S!QueueExact,
  S!GracefulDrain, S!LostOnlyOnFailure, S!RepliesAreAnswers, S!Workers, S!NoWorker, S!Nothing,
  S!Requests, S!Replies, S!Responses, S!Failures, S!Ids, S!Malformed, S!Heartbeat, S!Frames,
  S!Envelopes, S!Receiving, S!Queued, S!InQueue, S!Answers, S!HandlerAnswers, S!Response,
  S!ErrorReply,
  P!ServerInv, P!TypeOK, P!WorkersSpawned, P!RepliesHeld, P!WriterEnded, P!QueueExact,
  P!GracefulDrain, P!LostOnlyOnFailure, P!RepliesAreAnswers, P!Workers, P!NoWorker, P!Nothing,
  P!Requests, P!Replies, P!Responses, P!Failures, P!Ids, P!Malformed, P!Heartbeat, P!Frames,
  P!Envelopes, P!Receiving, P!Queued, P!InQueue, P!Answers, P!HandlerAnswers, P!Response,
  P!ErrorReply

LEMMA SameServerNext == [S!Next]_(S!vars) <=> [P!Next]_(P!vars)
BY DEF
  S!DispatchRequest, S!DispatchIgnore, S!DispatchEnd, S!DispatchJoin, S!DispatchAbort,
  S!WorkerGoto, S!HandlerAnswers, S!Answers, S!WorkerHandle, S!WorkerPanic, S!Enqueue,
  S!WorkerReply, S!Discard, S!WorkerReplyClosed, S!Peek, S!WriterRecv, S!Write,
  S!WriterSent, S!WriterEnds, S!WriterFailed, S!SendersGone, S!WriterFinished,
  S!WriterAborted, S!taskVars, S!PeerSend, S!PeerRecv, S!PeerEof, S!NetReset, S!Dispatcher,
  S!Handler, S!Push, S!Writer, S!ServerStep, S!Environment, S!Next, S!vars, S!workVars,
  S!peerVars, S!Busy, S!Queued, S!Receiving, S!Workers, S!NoWorker, S!Requests, S!Replies,
  S!Responses, S!Failures, S!Ids, S!Malformed, S!Heartbeat, S!Response, S!ErrorReply,
  S!Encodable, P!DispatchRequest, P!DispatchIgnore, P!DispatchEnd, P!DispatchJoin,
  P!DispatchAbort, P!WorkerGoto, P!HandlerAnswers, P!Answers, P!WorkerHandle, P!WorkerPanic,
  P!Enqueue, P!WorkerReply, P!Discard, P!WorkerReplyClosed, P!Peek, P!WriterRecv, P!Write,
  P!WriterSent, P!WriterEnds, P!WriterFailed, P!SendersGone, P!WriterFinished,
  P!WriterAborted, P!taskVars, P!PeerSend, P!PeerRecv, P!PeerEof, P!NetReset, P!Dispatcher,
  P!Handler, P!Push, P!Writer, P!ServerStep, P!Environment, P!Next, P!vars, P!workVars,
  P!peerVars, P!Busy, P!Queued, P!Receiving, P!Workers, P!NoWorker, P!Requests, P!Replies,
  P!Responses, P!Failures, P!Ids, P!Malformed, P!Heartbeat, P!Response, P!ErrorReply,
  P!Encodable

(* What ServerProofs assumes of the constants. *)
LEMMA ServerAssumptions ==
  /\ P!MaxIdAssumption /\ P!OversizedAssumption /\ P!RegisteredAssumption
  /\ P!NotFoundAssumption /\ P!RequestsAssumption /\ P!QueueAssumption
  /\ P!BufferAssumption /\ P!SenderAssumption
<1>1. P!Frames = Frames
  BY DEF P!Requests, P!Replies, P!Responses, P!Failures, P!Ids, P!Malformed, P!Heartbeat,
         P!Frames, P!Envelopes,
         Requests, Replies, Responses, Failures, Ids, Malformed, Heartbeat, Frames, Envelopes
<1> QED BY <1>1, MaxIdAssumption, OversizedAssumption, HandlersAssumption, UnknownAssumption,
           ReplyQueueAssumption, SocketAssumption, PeerAssumption
        DEF P!MaxIdAssumption, P!OversizedAssumption, P!RegisteredAssumption,
            P!NotFoundAssumption, P!RequestsAssumption, P!QueueAssumption,
            P!BufferAssumption, P!SenderAssumption

(* The server's invariant is kept on the link by every step any peer allows. *)
LEMMA ServerKeeps ==
  ASSUME S!ServerInv, [S!Next]_(S!vars)
  PROVE  S!ServerInv'
<1>1. P!ServerInv /\ [P!Next]_(P!vars)
  BY SameServerInv, SameServerNext
<1>2. P!ServerInv'
  BY <1>1, ServerAssumptions, P!NextInv DEF P!NextInv
<1> QED BY <1>2, SameServerInv, PTL

-----------------------------------------------------------------------------
(***************************************************************************)
(* The requests on their way.                                              *)
(***************************************************************************)

(* The trail is made of requests: first those that ran, then those on the *)
(* wire, then those the client's writer will send.                        *)
LEMMA TrailType ==
  ASSUME ClientInv, S!ServerInv
  PROVE  /\ spawned \in Nat /\ spawned <= MaxId
         /\ Ran \in Seq(Requests) /\ Len(Ran) = spawned
         /\ outbox \in Seq(Requests) /\ outbound \in Seq(Requests)
         /\ InHand \in Seq(Requests)
         /\ Coming \in Seq(Requests) /\ Trail \in Seq(Requests)
         /\ Len(Trail) = spawned + Len(outbox) + Len(Coming)
         /\ \A w \in 1 .. spawned : Trail[w] = req[w]
<1>1. spawned \in 0 .. MaxId /\ \A w \in 1 .. spawned : req[w] \in Requests
  BY MaxIdAssumption, SameEnvelopes
     DEF S!ServerInv, S!TypeOK, S!WorkersSpawned, S!Workers
<1>2. Ran \in Seq(Requests) /\ Len(Ran) = spawned
  BY <1>1, MaxIdAssumption DEF Ran
<1>3. outbox \in Seq(Requests) /\ outbound \in Seq(Requests) /\ InHand \in Seq(Requests)
  BY DEF ClientInv, TypeOK, InHand
<1>4. Coming \in Seq(Requests)
  BY <1>3 DEF Coming
<1>5. Ran \o outbox \in Seq(Requests) /\ Len(Ran \o outbox) = spawned + Len(outbox)
  BY <1>2, <1>3, ConcatProperties
<1>6. Trail \in Seq(Requests) /\ Len(Trail) = spawned + Len(outbox) + Len(Coming)
  BY <1>4, <1>5 DEF Trail
<1>7. ASSUME NEW w \in 1 .. spawned PROVE Trail[w] = req[w]
  <2>1. (Ran \o outbox)[w] = Ran[w] /\ w \in 1 .. Len(Ran \o outbox)
    BY <1>1, <1>2, <1>3, <1>5
  <2>2. Trail[w] = (Ran \o outbox)[w]
    BY <1>4, <1>5, <2>1 DEF Trail
  <2> QED BY <2>1, <2>2 DEF Ran
<1> QED BY <1>1, <1>2, <1>3, <1>4, <1>6, <1>7, MaxIdAssumption

LEMMA TrailTyped == ClientInv /\ S!ServerInv => Trail \in Seq(Requests)
BY TrailType

(* Ids are not reused, so there are never more requests on their way than ids. *)
LEMMA TrailFits ==
  ASSUME LinkInv
  PROVE  Len(Trail) <= MaxId
<1> DEFINE n == Len(Trail)
           f == [k \in 1 .. n |-> Trail[k].id]
<1>1. Trail \in Seq(Requests) /\ n \in Nat
  BY TrailType DEF LinkInv
<1>2. f \in [1 .. n -> Ids]
  <2>1. \A k \in 1 .. n : Trail[k] \in Requests
    BY <1>1, ElementOfSeq
  <2>2. \A k \in 1 .. n : Trail[k].id \in Ids
    BY <2>1 DEF Requests
  <2> QED BY <2>2
<1>3. \A j, k \in 1 .. n : f[j] = f[k] => j = k
  BY DEF LinkInv, TrailOnce
<1>4. IsFiniteSet(1 .. n) /\ Cardinality(1 .. n) = n
  BY <1>1, FS_Interval
<1>5. IsFiniteSet(Ids) /\ Cardinality(Ids) = MaxId
  BY MaxIdAssumption, FS_Interval DEF Ids
<1> HIDE DEF n, f
<1>6. ~ (Cardinality(Ids) < Cardinality(1 .. n))
  <2> SUFFICES ASSUME Cardinality(Ids) < Cardinality(1 .. n) PROVE FALSE
    OBVIOUS
  <2>1. \E j, k \in 1 .. n : j # k /\ f[j] = f[k]
    BY <1>2, <1>4, <1>5, FS_PigeonHole
  <2> QED BY <1>3, <2>1
<1>7. n <= MaxId
  BY <1>1, <1>4, <1>5, <1>6, MaxIdAssumption
<1> QED BY <1>7 DEF n

-----------------------------------------------------------------------------
(***************************************************************************)
(* Each end is a peer of the other.                                        *)
(***************************************************************************)

(* What a step of the client does to the socket. *)
LEMMA ClientOutside ==
  ASSUME ClientStep
  PROVE  /\ UNCHANGED <<peerClosed, reset>>
         /\ \/ UNCHANGED <<inbox, outbox>>
            \/ /\ writer = "send" /\ Len(outbox) < SocketCap
               /\ outbox' = Append(outbox, writing) /\ inbox' = inbox
            \/ inbox # <<>> /\ inbox' = Tail(inbox) /\ outbox' = outbox
<1>1. CASE \E c \in Calls : CallCheck(c) \/ CallStep(c) \/ CallCancel(c)
  BY <1>1 DEF CallCheck, CallStep, CallRegister, CallSend, Enqueue, CallSendClosed, CallReturn,
     CallCancel, sockVars
<1>2. CASE DropClient
  BY <1>2 DEF DropClient, sockVars
<1>3. CASE Writer
  BY <1>3 DEF Writer, WriterCancelled, WriterRecv, WriterNoSenders, WriterSent, WriterFailed,
     WriterCancel, WriterDrop, WriterGoto
<1>4. CASE Reader
  BY <1>4 DEF Reader, ReaderCancelled, ReaderTake, Claim, ReaderFire, ReaderIgnore, ReaderEnd,
     ReaderCancel, ReaderDrain, ReaderGoto
<1> QED BY <1>1, <1>2, <1>3, <1>4 DEF ClientStep

(* To the server, a step of the client is a frame sent, a frame taken, or nothing. *)
LEMMA ClientMovesAsPeer ==
  ASSUME LinkInv, ClientMoves
  PROVE  [S!Next]_(S!vars)
<1> USE DEF LinkInv
<1>1. ClientStep /\ UNCHANGED serverVars /\ eof' = eof
  BY DEF ClientMoves
<1>2. reset' = reset
  BY <1>1, ClientOutside
<1>3. CASE UNCHANGED <<inbox, outbox>>
  BY <1>1, <1>2, <1>3 DEF serverVars, S!vars, S!workVars, S!peerVars
<1>4. CASE /\ writer = "send" /\ Len(outbox) < SocketCap
           /\ outbox' = Append(outbox, writing) /\ inbox' = inbox
  <2>1. writing \in Requests /\ writing # Empty
    BY <1>4 DEF ClientInv, WriterWriting, TypeOK
  <2>2. ~eof
    BY <1>4 DEF ClosedWhenIdle, BothDown, S!TypeOK, S!ServerInv
  <2>3. spawned + Len(outbox) < MaxId
    <3>1. Coming = <<writing>> \o outbound
      BY <1>4, <2>1 DEF Coming, InHand
    <3>2. outbound \in Seq(Requests) /\ <<writing>> \in Seq(Requests)
      BY <2>1 DEF ClientInv, TypeOK
    <3>3. Len(Coming) = Len(outbound) + 1 /\ Len(outbound) \in Nat
      BY <3>1, <3>2
    <3>4. Len(Trail) = spawned + Len(outbox) + Len(Coming) /\ spawned \in Nat
          /\ Len(outbox) \in Nat
      BY TrailType
    <3> QED BY <3>3, <3>4, TrailFits, MaxIdAssumption
  <2>4. S!PeerSend(writing)
    BY <1>1, <1>2, <1>4, <2>2, <2>3
       DEF S!PeerSend, S!taskVars, S!workVars, S!peerVars, serverVars
  <2>5. writing \in PeerFrames
    BY <2>1, LinkFramesAssumption
  <2> QED BY <2>4, <2>5 DEF S!Next, S!Environment
<1>5. CASE inbox # <<>> /\ inbox' = Tail(inbox) /\ outbox' = outbox
  <2>1. S!PeerRecv
    BY <1>1, <1>2, <1>5 DEF S!PeerRecv, S!taskVars, S!workVars, S!peerVars, serverVars
  <2> QED BY <2>1 DEF S!Next, S!Environment
<1> QED BY <1>1, <1>3, <1>4, <1>5, ClientOutside

(* What the server's writer holds is the reply of a worker, under its request's id. *)
LEMMA ServerWriting ==
  ASSUME S!ServerInv, swriter = "send"
  PROVE  /\ swriting \in 1 .. spawned /\ swriting \in S!Workers
         /\ stage[swriting] = "queued"
         /\ reply[swriting] \in Replies
         /\ reply[swriting].id = req[swriting].id
<1>1. P!ServerInv
  BY SameServerInv
<1>2. /\ swriting \in 1 .. spawned /\ swriting \in P!Workers /\ swriting \in P!Queued
      /\ reply[swriting] \in P!Replies
      /\ reply[swriting].id = req[swriting].id
  BY <1>1, ServerAssumptions, P!WritingFacts DEF P!WritingFacts
<1>3. P!Replies = Replies
  BY DEF P!Replies, P!Responses, P!Failures, P!Ids, Replies, Responses, Failures, Ids
<1>4. P!Workers = S!Workers
  BY DEF P!Workers, S!Workers
<1> QED BY <1>2, <1>3, <1>4 DEF P!Queued

(* What a step of the server does to the socket. *)
LEMMA ServerOutside ==
  ASSUME S!ServerInv, S!ServerStep
  PROVE  /\ UNCHANGED <<eof, reset>>
         /\ \/ UNCHANGED <<inbox, outbox>>
            \/ dispatcher = "read" /\ outbox # <<>> /\ outbox' = Tail(outbox) /\ inbox' = inbox
            \/ /\ S!Receiving /\ Len(inbox) < SocketCap /\ outbox' = outbox
               /\ \E f \in Replies \cup {Malformed} : inbox' = Append(inbox, f)
<1> USE DEF S!peerVars
<1>1. CASE S!Dispatcher \/ S!DispatchAbort
  BY <1>1 DEF S!Dispatcher, S!DispatchRequest, S!DispatchIgnore, S!DispatchEnd, S!DispatchJoin,
     S!DispatchAbort
<1>2. CASE \E w \in S!Workers : S!Handler(w) \/ S!Push(w)
  BY <1>2 DEF S!Handler, S!WorkerHandle, S!WorkerPanic, S!Push, S!WorkerReply, S!Enqueue,
     S!WorkerReplyClosed, S!Discard, S!WorkerGoto
<1>3. CASE S!WriterSent
  BY <1>3, ServerWriting DEF S!WriterSent, S!Write, S!Receiving
<1>4. CASE S!WriterRecv \/ S!WriterFailed \/ S!WriterFinished
  BY <1>4 DEF S!WriterRecv, S!Peek, S!WriterFailed, S!WriterFinished, S!WriterEnds
<1>5. CASE S!WriterAborted
  BY <1>5, SameEnvelopes DEF S!WriterAborted, S!WriterEnds
<1> QED BY <1>1, <1>2, <1>3, <1>4, <1>5 DEF S!ServerStep, S!Writer

(* To the client, a step of the server is a frame sent, a frame taken, or nothing. *)
LEMMA ServerMovesAsPeer ==
  ASSUME LinkInv, ServerMoves
  PROVE  [Next]_vars
<1> USE DEF LinkInv
<1>1. S!ServerStep /\ UNCHANGED <<TaskVars, peerClosed>>
  BY DEF ServerMoves
<1>2. reset' = reset
  BY <1>1, ServerOutside
<1>3. CASE UNCHANGED <<inbox, outbox>>
  BY <1>1, <1>2, <1>3 DEF vars, TaskVars, sockVars
<1>4. CASE dispatcher = "read" /\ outbox # <<>> /\ outbox' = Tail(outbox) /\ inbox' = inbox
  <2>1. ~peerClosed
    BY <1>4 DEF ClosedWhenIdle, S!SocketClosed, ClientInv, TypeOK
  <2>2. PeerRecv
    BY <1>1, <1>2, <1>4, <2>1 DEF PeerRecv
  <2> QED BY <2>2 DEF Next, Environment
<1>5. CASE /\ S!Receiving /\ Len(inbox) < SocketCap /\ outbox' = outbox
           /\ \E f \in Replies \cup {Malformed} : inbox' = Append(inbox, f)
  <2>1. ~peerClosed
    BY <1>5 DEF ClosedWhenIdle, S!SocketClosed, ClientInv, TypeOK
  <2>2. PICK f \in Replies \cup {Malformed} : inbox' = Append(inbox, f)
    BY <1>5
  <2>3. PeerSend(f) /\ f \in PeerFrames
    BY <1>1, <1>2, <1>5, <2>1, <2>2, LinkFramesAssumption DEF PeerSend
  <2> QED BY <2>3 DEF Next, Environment
<1> QED BY <1>1, <1>3, <1>4, <1>5, ServerOutside

(* The other steps of the link are a close or a reset, and otherwise unseen. *)
LEMMA OthersAsPeer ==
  ASSUME ServerCloses \/ ClientCloses \/ LinkReset \/ ListenerMoves \/ UNCHANGED linkVars
  PROVE  [Next]_vars /\ [S!Next]_(S!vars)
<1>1. CASE ServerCloses
  <2>1. PeerClose /\ UNCHANGED <<serverVars, eof>>
    BY <1>1 DEF ServerCloses
  <2>2. UNCHANGED S!vars
    BY <2>1 DEF PeerClose, serverVars, S!vars, S!workVars, S!peerVars
  <2> QED BY <2>1, <2>2 DEF Next, Environment
<1>2. CASE ClientCloses
  <2>1. S!PeerEof /\ UNCHANGED <<TaskVars, peerClosed>>
    BY <1>2 DEF ClientCloses
  <2>2. UNCHANGED vars
    BY <2>1 DEF S!PeerEof, vars, TaskVars, sockVars
  <2> QED BY <2>1, <2>2 DEF S!Next, S!Environment
<1>3. CASE LinkReset
  <2>1. NetReset /\ UNCHANGED <<serverVars, eof>>
    BY <1>3 DEF LinkReset
  <2>2. S!NetReset
    BY <2>1 DEF NetReset, S!NetReset, S!taskVars, S!workVars, serverVars
  <2> QED BY <2>1, <2>2 DEF Next, Environment, S!Next, S!Environment
<1>4. CASE ListenerMoves \/ UNCHANGED linkVars
  BY <1>4 DEF ListenerMoves, linkVars, vars, sockVars, serverVars, S!vars, S!workVars, S!peerVars
<1> QED BY <1>1, <1>2, <1>3, <1>4

(* Every step of the link is a step of the client and of the server, each among *)
(* arbitrary peers.                                                             *)
LEMMA LinkStepAsPeers ==
  ASSUME LinkInv, [LinkNext]_linkVars
  PROVE  [Next]_vars /\ [S!Next]_(S!vars)
<1>1. CASE ClientMoves
  <2>1. Next
    BY <1>1 DEF ClientMoves, Next
  <2> QED BY <1>1, <2>1, ClientMovesAsPeer
<1>2. CASE ServerMoves
  <2>1. S!Next
    BY <1>2 DEF ServerMoves, S!Next
  <2> QED BY <1>2, <2>1, ServerMovesAsPeer
<1> QED BY <1>1, <1>2, OthersAsPeer DEF LinkNext

-----------------------------------------------------------------------------
(***************************************************************************)
(* The inductive invariant.                                                *)
(***************************************************************************)
LEMMA LinkInitInv == LinkInit => LinkInv
<1> SUFFICES ASSUME LinkInit PROVE LinkInv
  OBVIOUS
<1> USE DEF LinkInit
<1>1. ClientInv
  BY InitInv
<1>2. S!ServerInv
  <2>1. P!Init
    BY DEF S!Init, S!Workers, S!Nothing, S!NoWorker, P!Init, P!Workers, P!Nothing, P!NoWorker
  <2>2. P!ServerInv
    BY <2>1, ServerAssumptions, P!InitInv DEF P!InitInv
  <2> QED BY <2>2, SameServerInv
<1>3. ClosedWhenIdle
  BY DEF ClosedWhenIdle, Init, S!Init
<1>4. Len(Trail) = 0
  <2>1. outbox = <<>> /\ Coming = <<>> /\ spawned = 0
    BY DEF Init, S!Init, Coming, InHand
  <2> QED BY <1>1, <1>2, <2>1, TrailType
<1>5. TrailCalled /\ TrailOnce
  BY <1>4 DEF TrailCalled, TrailOnce
<1>6. RepliesFromServer
  BY MarkerFacts DEF RepliesFromServer, Init
<1>7. AnsweredByOwnRun
  BY DEF AnsweredByOwnRun, Init
<1> QED BY <1>1, <1>2, <1>3, <1>5, <1>6, <1>7 DEF LinkInv

(* Neither end comes back to a socket it is done with. *)
LEMMA ClosedWhenIdleStep ==
  ASSUME LinkInv, [LinkNext]_linkVars
  PROVE  ClosedWhenIdle'
<1> USE DEF LinkInv, ClosedWhenIdle
<1>1. ASSUME S!SocketClosed PROVE S!SocketClosed'
  <2> USE <1>1 DEF S!SocketClosed, S!Receiving
  <2>1. CASE UNCHANGED serverVars
    BY <2>1 DEF serverVars
  <2>2. CASE S!ServerStep
    <3>1. CASE S!Dispatcher \/ S!DispatchAbort
      BY <3>1 DEF S!Dispatcher, S!DispatchRequest, S!DispatchIgnore, S!DispatchEnd,
         S!DispatchJoin, S!DispatchAbort
    <3>2. CASE \E w \in S!Workers : S!Handler(w) \/ S!Push(w)
      BY <3>2 DEF S!Handler, S!WorkerHandle, S!WorkerPanic, S!Push, S!WorkerReply, S!Enqueue,
         S!WorkerReplyClosed, S!Discard, S!WorkerGoto
    <3>3. CASE S!Writer \/ S!WriterAborted
      BY <3>3 DEF S!Writer, S!WriterRecv, S!Peek, S!WriterSent, S!Write, S!WriterFailed,
         S!WriterFinished, S!WriterAborted, S!WriterEnds
    <3> QED BY <2>2, <3>1, <3>2, <3>3 DEF S!ServerStep
  <2>3. CASE S!PeerEof
    BY <2>3 DEF S!PeerEof, S!taskVars
  <2> QED BY <2>1, <2>2, <2>3 DEF LinkNext, ClientMoves, ServerMoves, ServerCloses,
          ClientCloses, LinkReset, ListenerMoves, linkVars
<1>2. ASSUME BothDown PROVE BothDown'
  <2> USE <1>2 DEF BothDown
  <2>1. CASE UNCHANGED TaskVars
    BY <2>1 DEF TaskVars, writerVars, readerVars
  <2>2. CASE ClientStep
    <3>1. CASE \E c \in Calls : CallCheck(c) \/ CallStep(c) \/ CallCancel(c)
      BY <3>1 DEF CallCheck, CallStep, CallRegister, CallSend, Enqueue, CallSendClosed,
         CallReturn, CallCancel, writerVars, readerVars
    <3>2. CASE DropClient
      BY <3>2 DEF DropClient, writerVars, readerVars
    <3>3. CASE Writer
      BY <3>3 DEF Writer, WriterCancelled, WriterRecv, WriterNoSenders, WriterSent,
         WriterFailed, WriterCancel, WriterDrop
    <3>4. CASE Reader
      BY <3>4 DEF Reader, ReaderCancelled, ReaderTake, Claim, ReaderFire, ReaderIgnore,
         ReaderEnd, ReaderCancel, ReaderDrain
    <3> QED BY <2>2, <3>1, <3>2, <3>3, <3>4 DEF ClientStep
  <2>3. CASE UNCHANGED vars
    BY <2>3 DEF vars, writerVars, readerVars
  <2> QED BY <2>1, <2>2, <2>3 DEF LinkNext, ClientMoves, ServerMoves, ServerCloses, PeerClose,
          ClientCloses, LinkReset, NetReset, ListenerMoves, linkVars
<1>3. CASE ServerCloses
  BY <1>1, <1>2, <1>3 DEF ServerCloses
<1>4. CASE ClientCloses
  BY <1>1, <1>2, <1>4 DEF ClientCloses
<1>5. CASE ~ServerCloses /\ ~ClientCloses
  <2>1. peerClosed' = peerClosed /\ eof' = eof
    <3>1. CASE ClientMoves
      BY <3>1, ClientOutside DEF ClientMoves
    <3>2. CASE ServerMoves
      BY <3>2, ServerOutside DEF ServerMoves
    <3>3. CASE LinkReset \/ ListenerMoves \/ UNCHANGED linkVars
      BY <3>3 DEF LinkReset, NetReset, ListenerMoves, linkVars, vars, sockVars
    <3> QED BY <1>5, <3>1, <3>2, <3>3 DEF LinkNext
  <2> QED BY <1>1, <1>2, <2>1
<1> QED BY <1>3, <1>4, <1>5

(* The trail is only ever extended, by a call that sends, or cut short at its end. *)
LEMMA TrailKept ==
  ASSUME LinkInv, ClientInv', S!ServerInv',
         Len(Trail') <= Len(Trail), \A k \in 1 .. Len(Trail') : Trail'[k] = Trail[k],
         args' = args,
         \A c \in Calls : call[c] \in {"parked", "done"} /\ id[c] # None =>
           call'[c] \in {"parked", "done"} /\ id'[c] = id[c]
  PROVE  TrailCalled' /\ TrailOnce'
<1> USE DEF LinkInv
<1>1. Trail \in Seq(Requests) /\ Trail' \in Seq(Requests)
  <2>1. (Trail \in Seq(Requests))'
    BY TrailTyped, PTL
  <2> QED BY <2>1, TrailTyped
<1>2. 1 .. Len(Trail') \subseteq 1 .. Len(Trail)
  BY <1>1
<1>3. TrailOnce'
  BY <1>2 DEF TrailOnce
<1>4. ASSUME NEW k \in 1 .. Len(Trail')
      PROVE  \E c \in Calls : /\ call'[c] \in {"parked", "done"}
                              /\ Trail'[k] = Request(id'[c], args[c].method, args[c].payload)
  <2>1. PICK c \in Calls : /\ call[c] \in {"parked", "done"}
                           /\ Trail[k] = Request(id[c], args[c].method, args[c].payload)
    BY <1>2 DEF TrailCalled
  <2>2. Trail[k] \in Requests
    BY <1>1, <1>2, ElementOfSeq
  <2>3. id[c] \in Ids
    BY <2>1, <2>2 DEF Request, Requests
  <2> QED BY <2>1, <2>3, NoneAssumption
<1> QED BY <1>3, <1>4 DEF TrailCalled

(* A call that has sent its request keeps its id and its arguments. *)
LEMMA CallsKept ==
  ASSUME LinkInv, [Next]_vars
  PROVE  /\ args' = args
         /\ \A c \in Calls : call[c] \in {"parked", "done"} /\ id[c] # None =>
              call'[c] \in {"parked", "done"} /\ id'[c] = id[c]
<1> USE DEF LinkInv, ClientInv
<1>1. CASE \E d \in Calls : CallCheck(d) \/ CallStep(d) \/ CallCancel(d)
  BY <1>1 DEF CallCheck, CallStep, CallRegister, CallSend, Enqueue, CallSendClosed, CallReturn,
     CallCancel, Finish, InFlight, TypeOK
<1>2. CASE DropClient \/ Writer \/ Environment \/ UNCHANGED vars
  BY <1>2 DEF DropClient, Writer, WriterCancelled, WriterRecv, WriterNoSenders, WriterSent,
     WriterFailed, WriterCancel, WriterDrop, WriterGoto, Environment, PeerSend, PeerRecv,
     PeerClose, NetReset, TaskVars, vars, callVars
<1>3. CASE Reader
  BY <1>3 DEF Reader, ReaderCancelled, ReaderTake, Claim, ReaderFire, ReaderIgnore, ReaderEnd,
     ReaderCancel, ReaderDrain, ReaderGoto
<1> QED BY <1>1, <1>2, <1>3 DEF Next, ClientStep

(* CallSend puts the call's request at the end of the trail.  No request is there *)
(* under the same id: ids are unique and this call has not sent yet.              *)
LEMMA TrailExtended ==
  ASSUME LinkInv, [Next]_vars, NEW c \in Calls, call[c] = "sending", call'[c] = "parked",
         id'[c] = id[c],
         Trail' = Append(Trail, Request(id[c], args[c].method, args[c].payload))
  PROVE  TrailCalled' /\ TrailOnce'
<1> USE DEF LinkInv
<1> DEFINE r == Request(id[c], args[c].method, args[c].payload)
           n == Len(Trail)
<1>1. id[c] \in Ids /\ id[c] # None
  BY NoneAssumption DEF ClientInv, IdsIssued, InFlight, TypeOK
<1>2. r \in Requests /\ r.id = id[c]
  BY <1>1 DEF Request, Requests, ClientInv, TypeOK, Args
<1>3. Trail \in Seq(Requests) /\ n \in Nat
  BY TrailTyped
<1>4. /\ Len(Trail') = n + 1 /\ Trail'[n + 1] = r
      /\ \A k \in 1 .. n : Trail'[k] = Trail[k]
  BY <1>2, <1>3, AppendProperties
<1>5. \A k \in 1 .. (n + 1) : k \in 1 .. n \/ k = n + 1
  BY <1>3
<1> HIDE DEF n, r
<1>6. ASSUME NEW k \in 1 .. n
      PROVE  \E d \in Calls : /\ d # c
                              /\ call[d] \in {"parked", "done"}
                              /\ id[d] # None /\ id[d] = Trail[k].id
                              /\ Trail[k] = Request(id[d], args[d].method, args[d].payload)
  <2>1. PICK d \in Calls : /\ call[d] \in {"parked", "done"}
                           /\ Trail[k] = Request(id[d], args[d].method, args[d].payload)
    BY DEF TrailCalled, n
  <2>2. Trail[k] \in Requests
    BY <1>3, ElementOfSeq DEF n
  <2>3. id[d] \in Ids /\ id[d] = Trail[k].id
    BY <2>1, <2>2 DEF Request, Requests
  <2> QED BY <2>1, <2>3, NoneAssumption
<1>7. \A k \in 1 .. n : Trail[k].id # r.id
  BY <1>1, <1>2, <1>6 DEF ClientInv, RepliesRouted
<1>8. TrailOnce'
  <2>1. \A j, k \in 1 .. n : Trail[j].id = Trail[k].id => j = k
    BY DEF TrailOnce, n
  <2> QED BY <1>4, <1>5, <1>7, <2>1 DEF TrailOnce
<1>9. ASSUME NEW k \in 1 .. (n + 1)
      PROVE  \E d \in Calls : /\ call'[d] \in {"parked", "done"}
                              /\ Trail'[k] = Request(id'[d], args'[d].method, args'[d].payload)
  <2>1. CASE k = n + 1
    BY <1>4, <2>1, CallsKept DEF r
  <2>2. CASE k \in 1 .. n
    BY <1>4, <1>6, <2>2, CallsKept
  <2> QED BY <1>5, <2>1, <2>2
<1> QED BY <1>4, <1>8, <1>9 DEF TrailCalled

(* The client's steps: the writer passes a request on, or stops sending. *)
LEMMA TrailWriter ==
  ASSUME LinkInv, Writer, UNCHANGED serverVars
  PROVE  Trail' = Trail \/ Trail' = Ran \o outbox
<1> USE DEF LinkInv
<1>1. /\ Ran \in Seq(Requests) /\ outbox \in Seq(Requests) /\ outbound \in Seq(Requests)
      /\ Ran \o outbox \in Seq(Requests)
  BY TrailType, ConcatProperties
<1>2. Ran' = Ran
  BY DEF Ran, serverVars
<1>3. CASE WriterRecv
  <2>1. /\ writer = "select" /\ writing = Empty /\ outbound # <<>>
        /\ writing' = Head(outbound) /\ outbound' = Tail(outbound) /\ writer' = "send"
        /\ outbox' = outbox
    BY <1>3 DEF WriterRecv, WriterGoto, ClientInv, WriterWriting
  <2>2. writing' # Empty /\ Head(outbound) \in Requests
    BY <1>1, <2>1, MarkerFacts
  <2>3. Coming = outbound
    BY <1>1, <2>1, ConcatEmptySeq DEF Coming, InHand
  <2>4. Coming' = <<Head(outbound)>> \o Tail(outbound)
    BY <2>1, <2>2 DEF Coming, InHand
  <2>5. <<Head(outbound)>> \o Tail(outbound) = outbound
    BY <1>1, <2>1
  <2> QED BY <1>2, <2>1, <2>3, <2>4, <2>5 DEF Trail
<1>4. CASE WriterSent
  <2>1. /\ writer = "send" /\ writing # Empty /\ writing \in Requests
        /\ writing' = Empty /\ outbound' = outbound /\ writer' = "select"
        /\ outbox' = Append(outbox, writing)
    BY <1>4 DEF WriterSent, WriterGoto, ClientInv, WriterWriting, TypeOK
  <2>2. Coming = <<writing>> \o outbound
    BY <2>1 DEF Coming, InHand
  <2>3. Coming' = outbound
    BY <1>1, <2>1, ConcatEmptySeq DEF Coming, InHand
  <2>4. outbox' = outbox \o <<writing>> /\ <<writing>> \in Seq(Requests)
    BY <1>1, <2>1, AppendIsConcat
  <2>5. Trail' = (Ran \o (outbox \o <<writing>>)) \o outbound
    BY <1>2, <2>3, <2>4 DEF Trail
  <2>6. Ran \o (outbox \o <<writing>>) = (Ran \o outbox) \o <<writing>>
    BY <1>1, <2>4, ConcatAssociative
  <2>7. ((Ran \o outbox) \o <<writing>>) \o outbound = (Ran \o outbox) \o (<<writing>> \o outbound)
    BY <1>1, <2>4, ConcatAssociative
  <2> QED BY <2>2, <2>5, <2>6, <2>7 DEF Trail
<1>5. CASE Writer /\ ~WriterRecv /\ ~WriterSent
  <2>1. outbox' = outbox /\ writer' \in {"cancel", "drop", "done"}
    BY <1>5 DEF Writer, WriterCancelled, WriterNoSenders, WriterFailed, WriterCancel, WriterDrop,
       WriterGoto
  <2>2. Coming' = <<>>
    BY <2>1 DEF Coming
  <2> QED BY <1>1, <1>2, <2>1, <2>2, ConcatEmptySeq DEF Trail
<1> QED BY <1>3, <1>4, <1>5

(* The server's steps: the dispatcher takes the oldest request off the wire and *)
(* spawns its worker, so that it stays at the same place of the trail.          *)
LEMMA TrailDispatch ==
  ASSUME LinkInv, S!ServerStep, UNCHANGED TaskVars
  PROVE  Trail' = Trail
<1> USE DEF LinkInv
<1>1. /\ spawned \in Nat /\ Ran \in Seq(Requests) /\ Len(Ran) = spawned
      /\ outbox \in Seq(Requests) /\ Coming \in Seq(Requests)
  BY TrailType
<1>2. Coming' = Coming
  BY DEF Coming, InHand, TaskVars, writerVars
<1>3. CASE S!DispatchRequest
  <2>1. /\ outbox # <<>> /\ outbox' = Tail(outbox) /\ spawned' = spawned + 1
        /\ req' = [req EXCEPT ![spawned + 1] = Head(outbox)]
        /\ spawned < MaxId
    BY <1>3 DEF S!DispatchRequest
  <2>2. Head(outbox) \in Requests /\ Tail(outbox) \in Seq(Requests)
    BY <1>1, <2>1
  <2>3. req'[spawned + 1] = Head(outbox) /\ \A w \in 1 .. spawned : req'[w] = req[w]
    <3>1. spawned + 1 \in S!Workers /\ \A w \in 1 .. spawned : w \in S!Workers /\ w # spawned + 1
      BY <1>1, <2>1, MaxIdAssumption DEF S!Workers
    <3> QED BY <2>1, <3>1 DEF S!ServerInv, S!TypeOK
  <2>4. Ran' = Append(Ran, Head(outbox))
    <3>1. /\ Append(Ran, Head(outbox)) \in Seq(Requests)
          /\ Len(Append(Ran, Head(outbox))) = spawned + 1
          /\ \A w \in 1 .. spawned : Append(Ran, Head(outbox))[w] = Ran[w]
          /\ Append(Ran, Head(outbox))[spawned + 1] = Head(outbox)
      BY <1>1, <2>2, AppendProperties
    <3>2. Ran' = [w \in 1 .. (spawned + 1) |-> req'[w]]
      BY <2>1 DEF Ran
    <3>3. \A w \in 1 .. spawned : Ran[w] = req[w]
      BY DEF Ran
    <3>4. \A w \in 1 .. (spawned + 1) : w \in 1 .. spawned \/ w = spawned + 1
      BY <1>1
    <3>5. \A w \in 1 .. (spawned + 1) : Append(Ran, Head(outbox))[w] = req'[w]
      BY <2>3, <3>1, <3>3, <3>4
    <3>6. /\ Ran' \in Seq(Requests) /\ Len(Ran') = spawned + 1
          /\ \A w \in 1 .. (spawned + 1) : Ran'[w] = req'[w]
      <4>1. \A w \in 1 .. (spawned + 1) : req'[w] \in Requests
        BY <3>1, <3>5, ElementOfSeq
      <4> QED BY <1>1, <3>2, <4>1
    <3> QED BY <3>1, <3>5, <3>6, SeqEqual
  <2>5. Ran' = Ran \o <<Head(outbox)>> /\ <<Head(outbox)>> \in Seq(Requests)
    <3>1. Append(Ran, Head(outbox)) = Ran \o <<Head(outbox)>>
      BY <1>1, <2>2, AppendIsConcat
    <3>2. <<Head(outbox)>> \in Seq(Requests)
      BY <2>2
    <3> QED BY <2>4, <3>1, <3>2
  <2>6. (Ran \o <<Head(outbox)>>) \o Tail(outbox) = Ran \o (<<Head(outbox)>> \o Tail(outbox))
    BY <1>1, <2>2, <2>5, ConcatAssociative
  <2>7. <<Head(outbox)>> \o Tail(outbox) = outbox
    BY <1>1, <2>1
  <2> QED BY <1>2, <2>1, <2>5, <2>6, <2>7 DEF Trail
<1>4. CASE S!ServerStep /\ ~S!DispatchRequest
  <2>1. ~S!DispatchIgnore
    <3>1. ASSUME outbox # <<>> PROVE Head(outbox) \in Requests
      BY <1>1, <3>1
    <3>2. Replies \cap Requests = {} /\ Heartbeat \notin Requests
      BY DEF Replies, Responses, Failures, Requests, Heartbeat
    <3> QED BY <3>1, <3>2, SameEnvelopes DEF S!DispatchIgnore
  <2>2. UNCHANGED <<spawned, req, outbox>>
    BY <1>4, <2>1 DEF S!ServerStep, S!Dispatcher, S!DispatchEnd, S!DispatchJoin, S!DispatchAbort,
       S!Handler, S!WorkerHandle, S!WorkerPanic, S!Push, S!WorkerReply, S!Enqueue,
       S!WorkerReplyClosed, S!Discard, S!WorkerGoto, S!Writer, S!WriterRecv, S!Peek,
       S!WriterSent, S!Write, S!WriterFailed, S!WriterFinished, S!WriterAborted, S!WriterEnds,
       S!workVars
  <2> QED BY <1>2, <2>2 DEF Trail, Ran
<1> QED BY <1>3, <1>4

(* No step duplicates a request or makes one up. *)
LEMMA TrailStep ==
  ASSUME LinkInv, [LinkNext]_linkVars, ClientInv', S!ServerInv'
  PROVE  TrailCalled' /\ TrailOnce'
<1> USE DEF LinkInv
<1>1. [Next]_vars
  BY LinkStepAsPeers
<1>2. Trail \in Seq(Requests)
  BY TrailTyped
<1>3. ASSUME Trail' = Trail PROVE TrailCalled' /\ TrailOnce'
  BY <1>1, <1>2, <1>3, CallsKept, TrailKept
<1>4. CASE ClientMoves
  <2>1. ClientStep /\ UNCHANGED serverVars
    BY <1>4 DEF ClientMoves
  <2>2. Ran' = Ran
    BY <2>1 DEF Ran, serverVars
  <2>3. CASE Writer
    <3>1. CASE Trail' = Ran \o outbox
      <4>1. /\ Ran \o outbox \in Seq(Requests) /\ Coming \in Seq(Requests)
        BY TrailType, ConcatProperties
      <4>2. /\ Len(Ran \o outbox) <= Len(Trail)
            /\ \A k \in 1 .. Len(Ran \o outbox) : Trail[k] = (Ran \o outbox)[k]
        BY <4>1, ConcatProperties DEF Trail
      <4> QED BY <1>1, <3>1, <4>2, CallsKept, TrailKept
    <3> QED BY <1>3, <2>1, <2>3, <3>1, TrailWriter
  <2>4. ASSUME NEW c \in Calls, CallSend(c) PROVE TrailCalled' /\ TrailOnce'
    <3> DEFINE r == Request(id[c], args[c].method, args[c].payload)
    <3>1. /\ call[c] = "sending" /\ call' = [call EXCEPT ![c] = "parked"]
          /\ outbound' = Append(outbound, r)
          /\ UNCHANGED <<id, writer, writing, outbox>>
      BY <2>4 DEF CallSend, Enqueue, sockVars
    <3>2. r \in Requests
      <4>1. id[c] \in Ids
        BY <3>1 DEF ClientInv, IdsIssued, InFlight, TypeOK
      <4> QED BY <4>1 DEF Request, Requests, ClientInv, TypeOK, Args
    <3>3. call'[c] = "parked" /\ id'[c] = id[c]
      BY <3>1 DEF ClientInv, TypeOK
    <3>4. /\ InHand \in Seq(Requests) /\ outbound \in Seq(Requests)
          /\ Ran \o outbox \in Seq(Requests)
      BY TrailType, ConcatProperties
    <3> HIDE DEF r
    <3>5. CASE writer \in {"select", "send"}
      <4>1. Coming = InHand \o outbound /\ Coming' = InHand \o Append(outbound, r)
        BY <3>1, <3>5 DEF Coming, InHand
      <4>2. /\ Append(outbound, r) = outbound \o <<r>> /\ <<r>> \in Seq(Requests)
            /\ InHand \o outbound \in Seq(Requests)
        BY <3>2, <3>4, AppendIsConcat, ConcatProperties
      <4>3. InHand \o (outbound \o <<r>>) = (InHand \o outbound) \o <<r>>
        BY <3>4, <4>2, ConcatAssociative
      <4>4. (Ran \o outbox) \o ((InHand \o outbound) \o <<r>>)
              = ((Ran \o outbox) \o (InHand \o outbound)) \o <<r>>
        BY <3>4, <4>2, ConcatAssociative, SMTT(40)
      <4>5. Trail' = Trail \o <<r>>
        BY <2>2, <3>1, <4>1, <4>2, <4>3, <4>4 DEF Trail
      <4>6. Trail' = Append(Trail, r)
        BY <1>2, <3>2, <4>5, AppendIsConcat
      <4> QED BY <1>1, <3>1, <3>3, <4>6, TrailExtended DEF r
    <3>6. CASE writer \notin {"select", "send"}
      <4>1. Coming' = Coming
        BY <3>1, <3>6 DEF Coming
      <4> QED BY <1>3, <2>2, <3>1, <4>1 DEF Trail
    <3> QED BY <3>5, <3>6
  <2>5. CASE ~Writer /\ ~(\E c \in Calls : CallSend(c))
    <3>1. UNCHANGED <<outbound, writer, writing, outbox>>
      BY <2>1, <2>5 DEF ClientStep, CallCheck, CallStep, CallRegister, CallSendClosed,
         CallReturn, CallCancel, DropClient, Reader, ReaderCancelled, ReaderTake, Claim,
         ReaderFire, ReaderIgnore, ReaderEnd, ReaderCancel, ReaderDrain, ReaderGoto, writerVars,
         sockVars
    <3> QED BY <1>3, <2>2, <3>1 DEF Trail, Coming, InHand
  <2> QED BY <2>3, <2>4, <2>5
<1>5. CASE ServerMoves
  BY <1>3, <1>5, TrailDispatch DEF ServerMoves
<1>6. CASE ServerCloses \/ ClientCloses \/ LinkReset \/ ListenerMoves \/ UNCHANGED linkVars
  <2>1. UNCHANGED <<spawned, req, outbound, writer, writing, outbox>>
    BY <1>6 DEF ServerCloses, PeerClose, ClientCloses, S!PeerEof, S!taskVars, S!workVars,
       LinkReset, NetReset, ListenerMoves, linkVars, vars, TaskVars, writerVars, sockVars,
       serverVars
  <2> QED BY <1>3, <2>1 DEF Trail, Ran, Coming, InHand
<1> QED BY <1>4, <1>5, <1>6 DEF LinkNext

-----------------------------------------------------------------------------
(***************************************************************************)
(* The replies on their way back.                                          *)
(***************************************************************************)

(* What the server wrote stays written. *)
LEMMA SentKept ==
  ASSUME LinkInv, [LinkNext]_linkVars, NEW w \in 1 .. spawned, stage[w] = "sent"
  PROVE  /\ w \in 1 .. spawned' /\ stage'[w] = "sent"
         /\ reply'[w] = reply[w] /\ req'[w] = req[w]
<1>1. P!ServerInv /\ [P!Next]_(P!vars)
  BY LinkStepAsPeers, SameServerInv, SameServerNext DEF LinkInv
<1> QED BY <1>1, ServerAssumptions, P!SentStays DEF P!SentStays

LEMMA FromServerKept ==
  ASSUME LinkInv, [LinkNext]_linkVars, NEW e, FromServer(e)
  PROVE  \E w \in 1 .. spawned' : /\ stage'[w] = "sent" /\ e = reply'[w] /\ e.id = req'[w].id
BY SentKept DEF FromServer

(* A reply the client reads is one the server wrote. *)
LEMMA HeadFromServer ==
  ASSUME LinkInv, inbox # <<>>, Head(inbox) \in Replies
  PROVE  FromServer(Head(inbox))
<1>1. Head(inbox) = inbox[1] /\ 1 \in DOMAIN inbox
  BY DEF LinkInv, ClientInv, TypeOK
<1>2. inbox[1] # S!Malformed
  BY <1>1, SameEnvelopes DEF Malformed, Replies, Responses, Failures
<1> QED BY <1>1, <1>2 DEF LinkInv, S!ServerInv, S!RepliesAreAnswers, FromServer

(* The reader hands on what it read or what it holds, and nothing else. *)
LEMMA ClientReplies ==
  ASSUME LinkInv, [Next]_vars
  PROVE  /\ \/ claimed' = claimed \/ claimed' = NoClaim
            \/ /\ inbox # <<>> /\ Head(inbox) \in Replies
               /\ claimed'.envelope = Head(inbox)
         /\ \A c \in Calls : \/ slot'[c] = slot[c] \/ slot'[c] = Dropped
                             \/ claimed # NoClaim /\ slot'[c] = claimed.envelope
<1> USE DEF LinkInv, ClientInv
<1>1. CASE \E d \in Calls : CallCheck(d) \/ CallStep(d) \/ CallCancel(d)
  BY <1>1 DEF CallCheck, CallStep, CallRegister, Insert, DropSenders, CallSend, Enqueue,
     CallSendClosed, Remove, CallReturn, CallCancel, readerVars
<1>2. CASE DropClient \/ Writer \/ Environment \/ UNCHANGED vars
  BY <1>2 DEF DropClient, Writer, WriterCancelled, WriterRecv, WriterNoSenders, WriterSent,
     WriterFailed, WriterCancel, WriterDrop, WriterGoto, Environment, PeerSend, PeerRecv,
     PeerClose, NetReset, TaskVars, vars, callVars, readerVars
<1>3. CASE ReaderTake
  BY <1>3 DEF ReaderTake, Claim, ReaderGoto
<1>4. CASE ReaderFire
  BY <1>4 DEF ReaderFire, ReaderGoto, ClaimExclusive, TypeOK
<1>5. CASE ReaderCancelled \/ ReaderIgnore \/ ReaderEnd \/ ReaderCancel \/ ReaderDrain
  BY <1>5 DEF ReaderCancelled, ReaderIgnore, ReaderEnd, ReaderCancel, ReaderDrain, Drain,
     DropSenders, ReaderGoto
<1> QED BY <1>1, <1>2, <1>3, <1>4, <1>5 DEF Next, ClientStep, Reader

LEMMA RepliesFromServerStep ==
  ASSUME LinkInv, [LinkNext]_linkVars
  PROVE  RepliesFromServer'
<1> USE DEF LinkInv, RepliesFromServer
<1>1. [Next]_vars
  BY LinkStepAsPeers
<1>2. ASSUME claimed' # NoClaim PROVE FromServer(claimed'.envelope)
  BY <1>1, <1>2, ClientReplies, HeadFromServer
<1>3. ASSUME NEW c \in Calls, slot'[c] \in Replies PROVE FromServer(slot'[c])
  BY <1>1, <1>3, ClientReplies, MarkerFacts
<1>4. claimed' # NoClaim =>
        \E w \in 1 .. spawned' : /\ stage'[w] = "sent" /\ claimed'.envelope = reply'[w]
                                 /\ claimed'.envelope.id = req'[w].id
  BY <1>2, FromServerKept
<1>5. \A c \in Calls : slot'[c] \in Replies =>
        \E w \in 1 .. spawned' : /\ stage'[w] = "sent" /\ slot'[c] = reply'[w]
                                 /\ slot'[c].id = req'[w].id
  BY <1>3, FromServerKept
<1> QED BY <1>4, <1>5 DEF FromServer

(* A call returns what its oneshot holds, or gives up. *)
LEMMA ClientResults ==
  ASSUME LinkInv, [Next]_vars, NEW c \in Calls, result'[c] \notin {NoResult, Closed, Cancelled}
  PROVE  \/ result'[c] = result[c] /\ id'[c] = id[c]
         \/ slot[c] \in Replies /\ result'[c] = Outcome(slot[c]) /\ id'[c] = id[c]
<1> USE DEF LinkInv, ClientInv
<1>1. ASSUME NEW d \in Calls, CallCheck(d) PROVE result'[c] = result[c] /\ id'[c] = id[c]
  BY <1>1 DEF CallCheck, Finish, TypeOK
<1>2. ASSUME NEW d \in Calls, CallRegister(d) PROVE result'[c] = result[c] /\ id'[c] = id[c]
  BY <1>2 DEF CallRegister, IdsIssued, TypeOK
<1>3. ASSUME NEW d \in Calls, CallSend(d) PROVE result'[c] = result[c] /\ id'[c] = id[c]
  BY <1>3 DEF CallSend, Enqueue
<1>4. ASSUME NEW d \in Calls, CallSendClosed(d) \/ CallCancel(d)
      PROVE  result'[c] = result[c] /\ id'[c] = id[c]
  BY <1>4 DEF CallSendClosed, CallCancel, Finish, TypeOK
<1>5. ASSUME NEW d \in Calls, CallReturn(d)
      PROVE  \/ result'[c] = result[c] /\ id'[c] = id[c]
             \/ slot[c] \in Replies /\ result'[c] = Outcome(slot[c]) /\ id'[c] = id[c]
  <2>1. id' = id /\ result' = [result EXCEPT ![d] = Outcome(slot[d])] /\ slot[d] # Empty
    BY <1>5 DEF CallReturn, Finish
  <2>2. CASE d # c
    BY <2>1, <2>2 DEF TypeOK
  <2>3. CASE d = c
    <3>1. result'[c] = Outcome(slot[c])
      BY <2>1, <2>3 DEF TypeOK
    <3>2. slot[c] # Dropped
      <4>1. Dropped.tag # "Response" /\ Dropped.tag # "Error"
        BY DEF Dropped
      <4>2. Outcome(Dropped) = Closed
        BY <4>1, Zenon DEF Outcome
      <4> QED BY <3>1, <4>2
    <3> QED BY <2>1, <2>3, <3>1, <3>2 DEF TypeOK, Slots
  <2> QED BY <2>2, <2>3
<1>6. CASE DropClient \/ Writer \/ Environment \/ UNCHANGED vars
  BY <1>6 DEF DropClient, Writer, WriterCancelled, WriterRecv, WriterNoSenders, WriterSent,
     WriterFailed, WriterCancel, WriterDrop, WriterGoto, Environment, PeerSend, PeerRecv,
     PeerClose, NetReset, TaskVars, vars, callVars
<1>7. CASE Reader
  BY <1>7 DEF Reader, ReaderCancelled, ReaderTake, Claim, ReaderFire, ReaderIgnore, ReaderEnd,
     ReaderCancel, ReaderDrain, ReaderGoto
<1> QED BY <1>1, <1>2, <1>3, <1>4, <1>5, <1>6, <1>7 DEF Next, ClientStep, CallStep

LEMMA AnsweredStep ==
  ASSUME LinkInv, [LinkNext]_linkVars
  PROVE  AnsweredByOwnRun'
<1> USE DEF LinkInv
<1>1. [Next]_vars
  BY LinkStepAsPeers
<1> SUFFICES ASSUME NEW c \in Calls, result'[c] \notin {NoResult, Closed, Cancelled}
             PROVE  \E w \in 1 .. spawned' : /\ req'[w].id = id'[c] /\ stage'[w] = "sent"
                                             /\ result'[c] = Outcome(reply'[w])
  BY DEF AnsweredByOwnRun, Serving
<1>2. \E w \in 1 .. spawned : /\ req[w].id = id'[c] /\ stage[w] = "sent"
                              /\ result'[c] = Outcome(reply[w])
  <2>1. CASE result'[c] = result[c] /\ id'[c] = id[c]
    BY <2>1 DEF AnsweredByOwnRun, Serving
  <2>2. CASE slot[c] \in Replies /\ result'[c] = Outcome(slot[c]) /\ id'[c] = id[c]
    <3>1. slot[c].id = id[c]
      BY <2>2, MarkerFacts DEF ClientInv, RepliesRouted
    <3>2. FromServer(slot[c])
      BY <2>2 DEF RepliesFromServer
    <3> QED BY <2>2, <3>1, <3>2 DEF FromServer
  <2> QED BY <1>1, <2>1, <2>2, ClientResults
<1> QED BY <1>2, SentKept

-----------------------------------------------------------------------------
(***************************************************************************)
(* Theorems.                                                               *)
(***************************************************************************)

(* The inductive invariant of the link: both ends keep their own, requests *)
(* travel once and unchanged, and replies come from the worker that ran.   *)
THEOREM LinkInvariant == LinkSpec => []LinkInv
<1>1. ASSUME LinkInv, [LinkNext]_linkVars PROVE LinkInv'
  <2>1. [Next]_vars /\ [S!Next]_(S!vars)
    BY <1>1, LinkStepAsPeers
  <2>2. ClientInv'
    BY <1>1, <2>1, NextInv DEF LinkInv
  <2>3. S!ServerInv'
    BY <1>1, <2>1, ServerKeeps DEF LinkInv
  <2> QED BY <1>1, <2>2, <2>3, ClosedWhenIdleStep, TrailStep, RepliesFromServerStep,
             AnsweredStep DEF LinkInv
<1> QED BY <1>1, LinkInitInv, PTL DEF LinkSpec

(* The server is one of the peers Client allows: what is proved of reader_loop, *)
(* writer_loop and call() against any peer holds on the link.                   *)
THEOREM ServerPeersClient == LinkSpec => ServerIsAPeer
<1>1. LinkInit => Init
  BY DEF LinkInit
<1>2. LinkInv /\ [LinkNext]_linkVars => [Next]_vars
  BY LinkStepAsPeers
<1> QED BY <1>1, <1>2, LinkInvariant, PTL DEF LinkSpec, ServerIsAPeer, Spec

(* The client is one of the peers Server allows: it never sends more requests *)
(* than it has ids, nothing after it closed, and only requests.               *)
THEOREM ClientPeersServer == LinkSpec => ClientIsAPeer
<1>1. LinkInit => S!Init
  BY DEF LinkInit
<1>2. LinkInv /\ [LinkNext]_linkVars => [S!Next]_(S!vars)
  BY LinkStepAsPeers
<1> QED BY <1>1, <1>2, LinkInvariant, PTL DEF LinkSpec, ClientIsAPeer, S!Spec

(* A handler runs at most once for a call, with the call's own method and   *)
(* payload, and never without a call, however calls are cancelled, retried, *)
(* reset or torn down.                                                      *)
THEOREM AtMostOnce == LinkSpec => []RunsAtMostOnce
<1>1. LinkInv => RunsAtMostOnce
  <2> SUFFICES ASSUME LinkInv PROVE RunsAtMostOnce
    OBVIOUS
  <2>1. \A w \in 1 .. spawned : w \in 1 .. Len(Trail) /\ Trail[w] = req[w]
    BY TrailType DEF LinkInv
  <2> QED BY <2>1 DEF LinkInv, TrailOnce, TrailCalled, RunsAtMostOnce, Serving
<1> QED BY <1>1, LinkInvariant, PTL

(* What call() returns is the reply of the worker that ran this very call, *)
(* so a late reply to a cancelled call is never taken for that of another. *)
THEOREM OwnAnswer == LinkSpec => []AnsweredByOwnRun
<1>1. LinkInv => AnsweredByOwnRun
  BY DEF LinkInv
<1> QED BY <1>1, LinkInvariant, PTL
=============================================================================
