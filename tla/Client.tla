------------------------------- MODULE Client -------------------------------
(***************************************************************************)
(* The client-side multiplexer of Patina (client.rs): many Client::call    *)
(* futures share one TCP connection through the PendingMap, a bounded mpsc *)
(* channel, a writer task, a reader task and a CancellationToken.          *)
(*                                                                         *)
(* One action is one stretch of a task between two points where another    *)
(* thread can see the shared state: an .await, a lock of the pending map,  *)
(* a channel operation or a change of the token.  The peer and the network *)
(* are the environment: the peer may send any frame at any time, stop      *)
(* reading, or close; the network may reset the connection.                *)
(***************************************************************************)
EXTENDS Envelope, Sequences

CONSTANTS
  Calls,       \* the invocations of Client::call on this connection
  None,        \* no call, no id
  ChannelCap,  \* CLIENT_WRITER_CHANNEL_CAPACITY
  SocketCap,   \* bound: frames the TCP buffers hold in each direction
  PeerFrames   \* the frames the peer may send

ASSUME NoneAssumption == None \notin Calls /\ None \notin Ids
ASSUME ChannelAssumption == ChannelCap \in Nat \ {0}
ASSUME SocketAssumption == SocketCap \in Nat \ {0}
ASSUME PeerAssumption == PeerFrames \subseteq Frames

VARIABLES
  next_id,     \* Client.next_id
  pending,     \* PendingMap: the call whose oneshot sender is parked under an id
  token,       \* CancellationToken: cancelled?
  handle,      \* "live" until the Client value is dropped
  call,        \* where each call() future is
  args,        \* its method and payload
  id,          \* its request id, None before it has one
  slot,        \* its oneshot channel: Empty, Dropped, or the envelope sent
  result,      \* what it returned
  outbound,    \* the mpsc channel from the callers to the writer task
  writer,      \* where writer_loop is
  writing,     \* the envelope in sink.send(..).await
  reader,      \* where reader_loop is
  claimed,     \* the sender the reader took out of the map, with its envelope
  inbox,       \* frames from the peer not yet read
  outbox,      \* frames written and not yet read by the peer
  peerClosed,  \* the peer has closed the connection
  reset        \* the connection was reset: reads and writes may fail

mapVars    == <<next_id, pending>>
lifeVars   == <<token, handle>>
callVars   == <<call, args, id, slot, result>>
writerVars == <<outbound, writer, writing>>
readerVars == <<reader, claimed>>
sockVars   == <<inbox, outbox, peerClosed, reset>>
vars == <<mapVars, lifeVars, callVars, writerVars, readerVars, sockVars>>

Empty   == [tag |-> "Empty"]
Dropped == [tag |-> "Dropped"]
NoClaim == [call |-> None, envelope |-> Empty]
Args    == [method : Methods, payload : Payloads]

InFlight == {c \in Calls : call[c] \in {"sending", "parked"}}

(***************************************************************************)
(* Client::from_stream: nothing in flight, both tasks at their select!.    *)
(***************************************************************************)
Init ==
  /\ next_id = 0
  /\ pending = [i \in Ids |-> None]
  /\ token = FALSE
  /\ handle = "live"
  /\ call = [c \in Calls |-> "idle"]
  /\ args \in [Calls -> Args]
  /\ id = [c \in Calls |-> None]
  /\ slot = [c \in Calls |-> Empty]
  /\ result = [c \in Calls |-> NoResult]
  /\ outbound = <<>>
  /\ writer = "select"
  /\ writing = Empty
  /\ reader = "select"
  /\ claimed = NoClaim
  /\ inbox = <<>>
  /\ outbox = <<>>
  /\ peerClosed = FALSE
  /\ reset = FALSE

-----------------------------------------------------------------------------
(***************************************************************************)
(* The oneshot senders live in the pending map.  Whatever takes a sender   *)
(* out of the map without firing it drops it, which wakes its receiver.    *)
(***************************************************************************)
DropSenders(S) == slot' = [c \in Calls |-> IF c \in S THEN Dropped ELSE slot[c]]

(* PendingMap::insert overwrites, and so drops, an entry under the same id. *)
Insert(i, c) ==
  /\ pending' = [pending EXCEPT ![i] = c]
  /\ DropSenders({pending[i]})

(* PendingMap::remove, called by an armed PendingGuard when it is dropped. *)
Remove(i) ==
  /\ pending' = [pending EXCEPT ![i] = None]
  /\ DropSenders({pending[i]})

(* Mutant: the drained senders are kept alive instead of dropped. *)
DrainKeepsSenders ==
  /\ pending' = [i \in Ids |-> None]
  /\ UNCHANGED slot

(* PendingMap::drain, the returned senders dropped. *)
Drain ==
  /\ pending' = [i \in Ids |-> None]
  /\ DropSenders({pending[i] : i \in Ids})

-----------------------------------------------------------------------------
(***************************************************************************)
(* Client::call.                                                           *)
(***************************************************************************)
Finish(c, r) ==
  /\ call' = [call EXCEPT ![c] = "done"]
  /\ result' = [result EXCEPT ![c] = r]

(* The fast path: the token is read once, on entry. *)
CallCheck(c) ==
  /\ call[c] = "idle"
  /\ handle = "live"
  /\ \/ /\ token
        /\ Finish(c, Closed)
     \/ /\ ~token
        /\ call' = [call EXCEPT ![c] = "checked"]
        /\ UNCHANGED result
  /\ UNCHANGED <<mapVars, lifeVars, args, id, slot, writerVars, readerVars, sockVars>>

(* Mutant: the id is read without being incremented, so two calls share it. *)
CallRegisterSameId(c) ==
  /\ call[c] = "checked"
  /\ next_id < MaxId
  /\ id' = [id EXCEPT ![c] = next_id]
  /\ Insert(next_id, c)
  /\ call' = [call EXCEPT ![c] = "sending"]
  /\ UNCHANGED <<next_id, lifeVars, args, result, writerVars, readerVars, sockVars>>

(* next_id.fetch_add, oneshot::channel, pending.insert, the guard armed. *)
CallRegister(c) ==
  /\ call[c] = "checked"
  /\ next_id < MaxId
  /\ next_id' = next_id + 1
  /\ id' = [id EXCEPT ![c] = next_id]
  /\ Insert(next_id, c)
  /\ call' = [call EXCEPT ![c] = "sending"]
  /\ UNCHANGED <<lifeVars, args, result, writerVars, readerVars, sockVars>>

Enqueue(c) ==
  /\ call[c] = "sending"
  /\ writer # "done"
  /\ outbound' = Append(outbound, Request(id[c], args[c].method, args[c].payload))
  /\ call' = [call EXCEPT ![c] = "parked"]
  /\ UNCHANGED <<mapVars, lifeVars, args, id, slot, result, writer, writing,
                 readerVars, sockVars>>

(* outbound.send(request).await: waits for a free place in the channel. *)
CallSend(c) == Len(outbound) < ChannelCap /\ Enqueue(c)

(* The send fails because the writer task dropped the receiver; the guard is *)
(* still armed.                                                              *)
CallSendClosed(c) ==
  /\ call[c] = "sending"
  /\ writer = "done"
  /\ Remove(id[c])
  /\ Finish(c, Closed)
  /\ UNCHANGED <<next_id, lifeVars, args, id, writerVars, readerVars, sockVars>>

(* Mutant: an application error of the peer is reported as a closed connection. *)
OutcomeErrorAsClosed(e) == IF e.tag = "Response" THEN Ok(e.payload) ELSE Closed

(* What the match on rx.await makes of the oneshot. *)
Outcome(e) ==
  CASE e.tag = "Response" -> Ok(e.payload)
    [] e.tag = "Error"    -> Remote(e.error)
    [] OTHER              -> Closed

(* rx.await resolves; guard.disarm() leaves the map alone. *)
CallReturn(c) ==
  /\ call[c] = "parked"
  /\ slot[c] # Empty
  /\ Finish(c, Outcome(slot[c]))
  /\ UNCHANGED <<mapVars, lifeVars, args, id, slot, writerVars, readerVars, sockVars>>

(* Mutant: no PendingGuard, a dropped future leaves its entry behind. *)
CallCancelNoGuard(c) ==
  /\ c \in InFlight
  /\ Finish(c, Cancelled)
  /\ UNCHANGED <<mapVars, slot, lifeVars, args, id, writerVars, readerVars, sockVars>>

(* The caller drops the future at one of its two await points (a timeout). *)
CallCancel(c) ==
  /\ c \in InFlight
  /\ Remove(id[c])
  /\ Finish(c, Cancelled)
  /\ UNCHANGED <<next_id, lifeVars, args, id, writerVars, readerVars, sockVars>>

(* The last handle to the Client goes; call() borrows it, so no call is left. *)
DropClient ==
  /\ handle = "live"
  /\ \A c \in Calls : call[c] \in {"idle", "done"}
  /\ handle' = "dropped"
  /\ UNCHANGED <<token, mapVars, callVars, writerVars, readerVars, sockVars>>

-----------------------------------------------------------------------------
(***************************************************************************)
(* writer_loop.  The select! watches the token only while no send is under *)
(* way; a branch that is ready may be taken in any order.                  *)
(***************************************************************************)
WriterGoto(s) ==
  /\ writer' = s
  /\ UNCHANGED <<mapVars, handle, callVars, readerVars, inbox, peerClosed, reset>>

WriterCancelled ==
  /\ writer = "select"
  /\ token
  /\ WriterGoto("cancel")
  /\ UNCHANGED <<token, outbound, writing, outbox>>

WriterRecv ==
  /\ writer = "select"
  /\ outbound # <<>>
  /\ writing' = Head(outbound)
  /\ outbound' = Tail(outbound)
  /\ WriterGoto("send")
  /\ UNCHANGED <<token, outbox>>

WriterNoSenders ==
  /\ writer = "select"
  /\ outbound = <<>>
  /\ handle = "dropped"
  /\ WriterGoto("cancel")
  /\ UNCHANGED <<token, outbound, writing, outbox>>

(* sink.send completes: the frame is encoded and flushed to the socket. *)
WriterSent ==
  /\ writer = "send"
  /\ Encodable(writing)
  /\ ~reset
  /\ Len(outbox) < SocketCap
  /\ outbox' = Append(outbox, writing)
  /\ writing' = Empty
  /\ WriterGoto("select")
  /\ UNCHANGED <<token, outbound>>

(* sink.send fails: the envelope exceeds the frame cap, or the socket is dead. *)
WriterFailed ==
  /\ writer = "send"
  /\ ~Encodable(writing) \/ reset
  /\ writing' = Empty
  /\ WriterGoto("cancel")
  /\ UNCHANGED <<token, outbound, outbox>>

(* Mutant: the writer leaves without cancelling the token. *)
WriterCancelSilent ==
  /\ writer = "cancel"
  /\ WriterGoto("drop")
  /\ UNCHANGED <<token, outbound, writing, outbox>>

(* token.cancel() after the loop. *)
WriterCancel ==
  /\ writer = "cancel"
  /\ token' = TRUE
  /\ WriterGoto("drop")
  /\ UNCHANGED <<outbound, writing, outbox>>

(* The task ends: its receiver goes, with every request still queued. *)
WriterDrop ==
  /\ writer = "drop"
  /\ outbound' = <<>>
  /\ WriterGoto("done")
  /\ UNCHANGED <<token, writing, outbox>>

-----------------------------------------------------------------------------
(***************************************************************************)
(* reader_loop.                                                            *)
(***************************************************************************)
ReaderGoto(s) ==
  /\ reader' = s
  /\ UNCHANGED <<next_id, handle, call, args, id, result, writerVars,
                 outbox, peerClosed, reset>>

ReaderCancelled ==
  /\ reader = "select"
  /\ token
  /\ ReaderGoto("cancel")
  /\ UNCHANGED <<token, pending, slot, claimed, inbox>>

(* A Response or an Error is read and given to the sender under id i. *)
Claim(i) ==
  /\ reader = "select"
  /\ inbox # <<>>
  /\ Head(inbox) \in Replies
  /\ pending[i] # None
  /\ claimed' = [call |-> pending[i], envelope |-> Head(inbox)]
  /\ inbox' = Tail(inbox)
  /\ ReaderGoto("fire")
  /\ UNCHANGED <<token, slot>>

(* Mutant: replies are matched to calls in the order of their ids. *)
ReaderTakeOldest ==
  \E i \in Ids : /\ \A j \in 0 .. (i - 1) : pending[j] = None
                /\ Claim(i)
                /\ pending' = [pending EXCEPT ![i] = None]

(* Mutant: the sender is looked up and left in the map. *)
ReaderTakeKeepsEntry == Claim(Head(inbox).id) /\ UNCHANGED pending

(* A Response or Error whose id is pending: PendingMap::take. *)
ReaderTake ==
  /\ Claim(Head(inbox).id)
  /\ pending' = [pending EXCEPT ![Head(inbox).id] = None]

(* tx.send(envelope): lost if the receiver is gone, its result ignored. *)
ReaderFire ==
  /\ reader = "fire"
  /\ slot' = IF claimed.call \in InFlight
             THEN [slot EXCEPT ![claimed.call] = claimed.envelope]
             ELSE slot
  /\ claimed' = NoClaim
  /\ ReaderGoto("select")
  /\ UNCHANGED <<token, pending, inbox>>

(* A reply to an unknown id (cancelled?), a Heartbeat or a Request: ignored. *)
ReaderIgnore ==
  /\ reader = "select"
  /\ inbox # <<>>
  /\ \/ Head(inbox) \in Replies /\ pending[Head(inbox).id] = None
     \/ Head(inbox) \in Requests \cup {Heartbeat}
  /\ inbox' = Tail(inbox)
  /\ ReaderGoto("select")
  /\ UNCHANGED <<token, pending, slot, claimed>>

(* stream.next() yields Some(Err) or, at the end of the stream, None. *)
ReaderEnd ==
  /\ reader = "select"
  /\ \/ reset
     \/ inbox # <<>> /\ Head(inbox) = Malformed
     \/ inbox = <<>> /\ peerClosed
  /\ ReaderGoto("cancel")
  /\ UNCHANGED <<token, pending, slot, claimed, inbox>>

(* token.cancel() after the loop. *)
ReaderCancel ==
  /\ reader = "cancel"
  /\ token' = TRUE
  /\ ReaderGoto("drain")
  /\ UNCHANGED <<pending, slot, claimed, inbox>>

(* Mutant: the reader ends without draining the map. *)
ReaderDrainSkipped ==
  /\ reader = "drain"
  /\ ReaderGoto("done")
  /\ UNCHANGED <<pending, slot, token, claimed, inbox>>

(* pending.drain(), the senders dropped as the task ends. *)
ReaderDrain ==
  /\ reader = "drain"
  /\ Drain
  /\ ReaderGoto("done")
  /\ UNCHANGED <<token, claimed, inbox>>

-----------------------------------------------------------------------------
(***************************************************************************)
(* The environment: an arbitrary peer and the network.                     *)
(***************************************************************************)
TaskVars == <<mapVars, lifeVars, callVars, writerVars, readerVars>>

PeerSend(f) ==
  /\ ~peerClosed
  /\ Len(inbox) < SocketCap
  /\ inbox' = Append(inbox, f)
  /\ UNCHANGED <<TaskVars, outbox, peerClosed, reset>>

PeerRecv ==
  /\ ~peerClosed
  /\ outbox # <<>>
  /\ outbox' = Tail(outbox)
  /\ UNCHANGED <<TaskVars, inbox, peerClosed, reset>>

PeerClose ==
  /\ ~peerClosed
  /\ peerClosed' = TRUE
  /\ UNCHANGED <<TaskVars, inbox, outbox, reset>>

NetReset ==
  /\ ~reset
  /\ reset' = TRUE
  /\ UNCHANGED <<TaskVars, inbox, outbox, peerClosed>>

-----------------------------------------------------------------------------
CallStep(c) == CallRegister(c) \/ CallSend(c) \/ CallSendClosed(c) \/ CallReturn(c)

Writer ==
  \/ WriterCancelled \/ WriterRecv \/ WriterNoSenders
  \/ WriterSent \/ WriterFailed \/ WriterCancel \/ WriterDrop

Reader ==
  \/ ReaderCancelled \/ ReaderTake \/ ReaderFire \/ ReaderIgnore
  \/ ReaderEnd \/ ReaderCancel \/ ReaderDrain

ClientStep ==
  \/ \E c \in Calls : CallCheck(c) \/ CallStep(c) \/ CallCancel(c)
  \/ DropClient
  \/ Writer
  \/ Reader

Environment ==
  \/ \E f \in PeerFrames : PeerSend(f)
  \/ PeerRecv
  \/ PeerClose
  \/ NetReset

Next == ClientStep \/ Environment

Spec == Init /\ [][Next]_vars

(***************************************************************************)
(* The runtime polls every woken task again, and select! starts from a     *)
(* random branch, so a cancelled token that is seen infinitely often is    *)
(* taken.  Starting, cancelling and dropping are the user's choice.        *)
(***************************************************************************)
TaskFairness ==
  /\ \A c \in Calls : WF_vars(CallStep(c))
  /\ WF_vars(Writer)
  /\ WF_vars(Reader)
  /\ SF_vars(WriterCancelled)
  /\ SF_vars(ReaderCancelled)

(***************************************************************************)
(* A write to a peer that has closed is answered with a reset.  A peer     *)
(* that is alive may still stop reading; LiveSpec assumes it does not.     *)
(***************************************************************************)
NetFairness == WF_vars(peerClosed /\ outbox # <<>> /\ NetReset)

FairSpec == Spec /\ TaskFairness /\ NetFairness
LiveSpec == FairSpec /\ WF_vars(PeerRecv)

-----------------------------------------------------------------------------
(***************************************************************************)
(* Properties.                                                             *)
(***************************************************************************)
Slots == {Empty, Dropped} \cup Replies

(* The shape of the state; the channel and the socket stay within bounds. *)
TypeOK ==
  /\ next_id \in 0 .. MaxId
  /\ pending \in [Ids -> Calls \cup {None}]
  /\ token \in BOOLEAN
  /\ handle \in {"live", "dropped"}
  /\ call \in [Calls -> {"idle", "checked", "sending", "parked", "done"}]
  /\ args \in [Calls -> Args]
  /\ id \in [Calls -> Ids \cup {None}]
  /\ slot \in [Calls -> Slots]
  /\ result \in [Calls -> Results]
  /\ outbound \in Seq(Requests) /\ Len(outbound) <= ChannelCap
  /\ writer \in {"select", "send", "cancel", "drop", "done"}
  /\ writing \in Requests \cup {Empty}
  /\ reader \in {"select", "fire", "cancel", "drain", "done"}
  /\ claimed \in [call : Calls, envelope : Replies] \cup {NoClaim}
  /\ inbox \in Seq(Frames) /\ Len(inbox) <= SocketCap
  /\ outbox \in Seq(Requests) /\ Len(outbox) <= SocketCap
  /\ peerClosed \in BOOLEAN
  /\ reset \in BOOLEAN

(* No entry outlives its call: an id in the pending map belongs to a call   *)
(* that is still in flight under that very id and has not been woken.  This *)
(* is what the PendingGuard is for, and what makes disarm() safe: a call    *)
(* that returned or was dropped has no entry left (client.rs, call()).      *)
PendingOwned ==
  \A i \in Ids : pending[i] # None =>
    /\ pending[i] \in InFlight
    /\ id[pending[i]] = i
    /\ slot[pending[i]] = Empty

(* No sender is lost: a call in flight that has not been woken has its    *)
(* sender in the map or in the reader's hand, so take, drain and the      *)
(* guard between them never strand a caller whose entry they removed.     *)
SenderHeld ==
  \A c \in InFlight : slot[c] = Empty =>
    \/ pending[id[c]] = c
    \/ claimed.call = c

(* Multiplexing: no two calls share an id, and a reply handed to a call      *)
(* carries the id of that call, whatever the peer sends and in whatever order. *)
RepliesRouted ==
  /\ \A c, d \in Calls : id[c] = id[d] /\ id[c] # None => c = d
  /\ \A c \in Calls : slot[c] \notin {Empty, Dropped} => slot[c].id = id[c]

(* PatinaError::Closed tells the truth: a call returns it only once the      *)
(* token is cancelled, never because of another call or a stray reply.       *)
ClosedIsFinal == \A c \in Calls : result[c] = Closed => token

(* A oneshot fires at most once, a result is never revised, and a cancelled *)
(* token is never revived, however late or often the peer replies.          *)
ResolvedOnce ==
  [][/\ \A c \in Calls : slot[c] # Empty => slot'[c] = slot[c]
     /\ \A c \in Calls : result[c] # NoResult => result'[c] = result[c]
     /\ token => token']_vars

(***************************************************************************)
(* The inductive invariant behind the properties above.                    *)
(***************************************************************************)

(* An id is issued once, by next_id, and a call has none before it registers. *)
IdsIssued ==
  \A c \in Calls :
    /\ id[c] # None => id[c] < next_id
    /\ c \in InFlight => id[c] # None
    /\ call[c] \in {"idle", "checked"} => id[c] = None /\ slot[c] = Empty
    /\ call[c] # "done" => result[c] = NoResult

(* The sender in the reader's hand is out of the map and has not fired. *)
ClaimExclusive ==
  /\ reader = "fire" <=> claimed # NoClaim
  /\ claimed # NoClaim =>
       /\ claimed.envelope.id = id[claimed.call]
       /\ pending[claimed.envelope.id] = None
       /\ claimed.call \in InFlight => slot[claimed.call] = Empty

(* Nothing that reports a close happens before the token is cancelled. *)
CancelFirst ==
  /\ writer \in {"drop", "done"} => token
  /\ reader \in {"drain", "done"} => token
  /\ \A c \in InFlight : slot[c] = Dropped => token

(* The writer has an envelope in hand exactly while it sends. *)
WriterWriting == writer = "send" <=> writing # Empty

(* ClientInv is inductive: in every reachable state each sender is in exactly *)
(* one place (the map, the reader's hand, or used up), under an issued id, and *)
(* a drop of a sender that its caller can observe follows the cancellation.    *)
ClientInv ==
  /\ TypeOK
  /\ WriterWriting
  /\ PendingOwned
  /\ SenderHeld
  /\ RepliesRouted
  /\ IdsIssued
  /\ ClaimExclusive
  /\ CancelFirst
  /\ ClosedIsFinal

(* Mutant: the socket counts as closed while the writer still holds its half. *)
BothDownEarly == reader = "done"

(* Both tasks have ended, and the socket is closed. *)
BothDown == writer = "done" /\ reader = "done"

(* A task has left its loop. *)
HalfDown ==
  \/ writer \in {"cancel", "drop", "done"}
  \/ reader \in {"cancel", "drain", "done"}

(* One dead half tears down the other: once either task has left its loop, *)
(* both end, given a peer that reads or resets.                            *)
TeardownCompletes == HalfDown ~> BothDown

(* Teardown wakes every call that was registered before the reader drained *)
(* the map, also one still waiting for room in the channel.                *)
RegisteredCallsWake ==
  \A c \in Calls : (c \in InFlight /\ HalfDown /\ reader # "done") ~> call[c] = "done"

-----------------------------------------------------------------------------
(***************************************************************************)
(* Statements of the documentation that the code does not meet.            *)
(***************************************************************************)

(* client.rs, module comment: "dropping the contained oneshot::Senders     *)
(* causes every parked caller's rx.await to resolve".                      *)
EveryParkedCallerWakes ==
  \A c \in Calls : (call[c] = "parked" /\ token) ~> call[c] = "done"

(* client.rs, module comment: either half that exits cancels the token,     *)
(* "waking the other so one dead half tears down the whole connection       *)
(* instead of leaving a task parked forever on a half-open socket".         *)
NoHalfOpenTask == token ~> BothDown

-----------------------------------------------------------------------------
(***************************************************************************)
(* The multiplexer implements UnaryCall.                                   *)
(***************************************************************************)
PhaseOf(c) ==
  IF call[c] \in {"idle", "checked"} THEN "idle"
  ELSE IF c \in InFlight THEN "open" ELSE "done"

AnswerOf(c) == IF slot[c] \in Replies THEN slot[c] ELSE [tag |-> "NoAnswer"]

Promise == INSTANCE UnaryCall WITH
  phase   <- [c \in Calls |-> PhaseOf(c)],
  key     <- id,
  answer  <- [c \in Calls |-> AnswerOf(c)],
  outcome <- result,
  closed  <- token

(* The pending map, the channels and the tasks together keep the promise    *)
(* Client::call makes to each caller.                                       *)
KeepsPromise == Promise!ASpec
=============================================================================
