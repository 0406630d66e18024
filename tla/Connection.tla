----------------------------- MODULE Connection -----------------------------
(***************************************************************************)
(* A Patina client and a Patina server at the two ends of one TCP          *)
(* connection, which the server's accept loop has yet to accept.  Client   *)
(* and Server are the modules that describe each end; here each is the     *)
(* other's peer: what the client writes is what the dispatcher reads, and  *)
(* what the server's writer writes is what reader_loop reads.  The other   *)
(* connections of the listener only compete for the accept loop.           *)
(***************************************************************************)
EXTENDS Client

CONSTANTS
  Registered,  \* the keys of the server's handler table
  NotFound,    \* ErrorData of an unknown method
  QueueCap,    \* the server's WRITER_CHANNEL_CAPACITY
  Link,        \* the connection in question
  Others       \* other connections to the same listener

ASSUME HandlersAssumption == Registered \subseteq Methods
ASSUME UnknownAssumption == NotFound \in Errors
ASSUME ReplyQueueAssumption == QueueCap \in Nat \ {0}
ASSUME LinkAssumption == Link \notin Others

(* Each end takes the other one for an arbitrary peer, which may send anything *)
(* a Patina peer sends.                                                        *)
ASSUME LinkFramesAssumption == Requests \cup Replies \cup {Malformed} \subseteq PeerFrames

VARIABLES
  dispatcher, spawned, req, reply, stage, queue,  \* as in Server
  swriter, swriting,  \* the server's writer_loop: writer, writing
  eof,                \* the client has closed its socket
  serve, conn         \* as in Listener

Conns == Others \cup {Link}

(* A client sends at most one request per id, so MaxId bounds the workers. *)
S == INSTANCE Server WITH
  MaxRequests <- MaxId, writer <- swriter, writing <- swriting,
  inbox <- outbox, outbox <- inbox

L == INSTANCE Listener

serverVars == <<dispatcher, spawned, req, reply, stage, queue, swriter, swriting>>
listenVars == <<serve, conn>>
linkVars   == <<vars, serverVars, eof, listenVars>>

LinkInit == Init /\ S!Init /\ L!LInit

-----------------------------------------------------------------------------
(* Client::connect has returned. *)
Connected == conn[Link] # "none"

(* The task that drives serve_connection was spawned. *)
Started == conn[Link] \in {"serving", "ended"}

ClientMoves ==
  /\ Connected
  /\ ClientStep
  /\ UNCHANGED <<serverVars, eof, listenVars>>

ServerMoves ==
  /\ Started
  /\ S!ServerStep
  /\ UNCHANGED <<TaskVars, peerClosed, listenVars>>

(* Both halves of the server's Framed are dropped, and the task ends. *)
ServerCloses ==
  /\ S!SocketClosed
  /\ L!ConnectionEnds(Link)
  /\ PeerClose
  /\ UNCHANGED <<serverVars, eof>>

(* Both halves of the client's Framed are dropped. *)
ClientCloses ==
  /\ BothDown
  /\ S!PeerEof
  /\ UNCHANGED <<TaskVars, peerClosed, listenVars>>

(* A write meets a reset: the other end has closed, or was never accepted. *)
ResetIsDue == peerClosed \/ eof \/ conn[Link] = "refused"

LinkReset ==
  /\ Connected
  /\ NetReset
  /\ UNCHANGED <<serverVars, eof, listenVars>>

ListenerMoves ==
  /\ \/ \E c \in Conns : L!Connect(c) \/ L!Accept(c) \/ L!Refuse(c)
     \/ \E c \in Others : L!ConnectionEnds(c)
     \/ L!ServeEnds
  /\ UNCHANGED <<vars, serverVars, eof>>

LinkNext ==
  \/ ClientMoves \/ ServerMoves
  \/ ServerCloses \/ ClientCloses
  \/ LinkReset
  \/ ListenerMoves

LinkSpec == LinkInit /\ [][LinkNext]_linkVars

(***************************************************************************)
(* Tasks are polled as in Client and Server, handlers return, and the      *)
(* sockets of both ends are closed when their owners are gone.             *)
(***************************************************************************)
LinkFairness ==
  /\ TaskFairness
  /\ WF_(S!vars)(Started /\ S!Dispatcher)
  /\ WF_(S!vars)(Started /\ S!Writer)
  /\ WF_(S!vars)(Started /\ S!WriterAborted)
  /\ \A w \in S!Workers : SF_(S!vars)(Started /\ S!Push(w))
  /\ \A w \in S!Workers : WF_(S!vars)(Started /\ S!Handler(w))
  /\ WF_linkVars(ServerCloses)
  /\ WF_linkVars(ClientCloses)
  /\ WF_linkVars(ResetIsDue /\ LinkReset)
  /\ L!LoopFairness
  /\ L!KernelFairness

LinkLive == LinkSpec /\ LinkFairness

-----------------------------------------------------------------------------
(***************************************************************************)
(* Properties.                                                             *)
(***************************************************************************)
(* The workers that serve the request of call c. *)
Serving(c) == {w \in 1 .. spawned : req[w].id = id[c]}

(* A call runs at most once on the server, with its own method and payload, *)
(* and nothing runs that nobody called: not for a call that timed out, nor  *)
(* for the retry that follows it under a new id.                            *)
RunsAtMostOnce ==
  /\ \A c \in Calls : \A v, w \in Serving(c) : v = w
  /\ \A w \in 1 .. spawned : \E c \in Calls :
       req[w] = Request(id[c], args[c].method, args[c].payload)

(* What a call returns was computed for that very call: the late reply to a *)
(* call that was cancelled never becomes the result of its retry, whose     *)
(* arguments may be the same.                                               *)
AnsweredByOwnRun ==
  \A c \in Calls : result[c] \notin {NoResult, Closed, Cancelled} =>
    \E w \in Serving(c) : stage[w] = "sent" /\ result[c] = Outcome(reply[w])

(* The client's peer in Client is arbitrary; the real server is one of them, *)
(* so what holds of every client holds of this one.                          *)
ServerIsAPeer == Spec

(* The same for the server: what the real client does, any peer may do. *)
ClientIsAPeer == S!Spec

(***************************************************************************)
(* The inductive invariant behind the properties above.                    *)
(***************************************************************************)

(* An end closes its socket only when all its tasks are done with it. *)
ClosedWhenIdle ==
  /\ peerClosed => S!SocketClosed
  /\ eof => BothDown

(* The requests that ran, are on the wire, in the writer's hand or in the    *)
(* channel of a writer that still sends: one queue from the callers to the   *)
(* workers, in the order in which they were sent.                            *)
Ran    == [w \in 1 .. spawned |-> req[w]]
InHand == IF writing = Empty THEN <<>> ELSE <<writing>>
Coming == IF writer \in {"select", "send"} THEN InHand \o outbound ELSE <<>>
Trail  == (Ran \o outbox) \o Coming

(* Every request on its way was put there by a call that has sent it, *)
(* and no other request is under its id.                              *)
TrailCalled ==
  \A k \in 1 .. Len(Trail) : \E c \in Calls :
    /\ call[c] \in {"parked", "done"}
    /\ Trail[k] = Request(id[c], args[c].method, args[c].payload)

TrailOnce == \A j, k \in 1 .. Len(Trail) : Trail[j].id = Trail[k].id => j = k

(* A reply the server wrote. *)
FromServer(e) ==
  \E w \in 1 .. spawned : stage[w] = "sent" /\ e = reply[w] /\ e.id = req[w].id

(* What the reader holds, and what it handed to a call, the server wrote. *)
RepliesFromServer ==
  /\ claimed # NoClaim => FromServer(claimed.envelope)
  /\ \A c \in Calls : slot[c] \in Replies => FromServer(slot[c])

(* LinkInv is inductive: both ends keep their invariants, a request leaves a *)
(* call once and keeps its id and arguments on the way, and every reply in   *)
(* the client comes from the worker that ran the request.                    *)
LinkInv ==
  /\ ClientInv
  /\ S!ServerInv
  /\ ClosedWhenIdle
  /\ TrailCalled
  /\ TrailOnce
  /\ RepliesFromServer
  /\ AnsweredByOwnRun

(* A call hangs only in the ways known: its handler panicked, the server's   *)
(* writer died on a reply too large, or it registered after the reader's     *)
(* drain.  Whatever is full, cancelled, reset, aborted or closed, and        *)
(* although every task waits for another one, each other call ends.          *)
Stranded(c) ==
  \/ \E w \in Serving(c) : stage[w] = "panicked"
  \/ swriter = "failed" /\ ~reset
  \/ reader = "done" /\ \E i \in Ids : pending[i] = c

CallsEnd == \A c \in Calls : c \in InFlight ~> (call[c] = "done" \/ Stranded(c))
=============================================================================
