---------------------------- MODULE ClientProofs ----------------------------
(***************************************************************************)
(* Proofs about the client multiplexer, for any number of calls, any       *)
(* bounds and any peer.                                                    *)
(***************************************************************************)
EXTENDS Client, TLAPS

-----------------------------------------------------------------------------
(***************************************************************************)
(* Facts about envelopes.                                                  *)
(***************************************************************************)

(* A reply carries the id of a request, and is no marker of an unused slot. *)
LEMMA ReplyFacts ==
  ASSUME NEW r \in Replies
  PROVE  r.id \in Ids /\ r # Empty /\ r # Dropped /\ r.tag \in {"Response", "Error"}
BY DEF Replies, Responses, Failures, Empty, Dropped

(* The markers are different from each other and are no replies. *)
LEMMA MarkerFacts ==
  Empty # Dropped /\ Empty \notin Replies /\ Dropped \notin Replies
    /\ Empty \notin Requests
<1>1. Empty # Dropped
  BY DEF Empty, Dropped
<1>2. Empty \notin Replies /\ Dropped \notin Replies
  BY ReplyFacts
<1>3. Empty \notin Requests
  BY DEF Empty, Requests
<1> QED BY <1>1, <1>2, <1>3

(* The result Outcome makes of a oneshot, NoResult excepted, is a result. *)
LEMMA OutcomeType ==
  ASSUME NEW e \in Slots
  PROVE  Outcome(e) \in Results
<1>1. CASE e \in Responses
  <2>1. e.tag = "Response" /\ e.payload \in Payloads
    BY <1>1 DEF Responses
  <2> QED BY <2>1 DEF Outcome, Results
<1>2. CASE e \in Failures
  <2>1. e.tag = "Error" /\ e.error \in Errors
    BY <1>2 DEF Failures
  <2> QED BY <2>1 DEF Outcome, Results
<1>3. CASE e = Empty \/ e = Dropped
  <2>1. e.tag # "Response" /\ e.tag # "Error"
    BY <1>3 DEF Empty, Dropped
  <2> QED BY <2>1 DEF Outcome, Results
<1> QED BY <1>1, <1>2, <1>3 DEF Slots, Replies

(* A claim of the reader names a call and a reply. *)
LEMMA ClaimFacts ==
  ASSUME TypeOK, claimed # NoClaim
  PROVE  claimed.call \in Calls /\ claimed.envelope \in Replies
BY DEF TypeOK

(* No claim names no call. *)
LEMMA NoClaimFacts == NoClaim.call = None /\ NoClaim.call \notin Calls
BY NoneAssumption DEF NoClaim
-----------------------------------------------------------------------------
(***************************************************************************)
(* The inductive invariant.                                                *)
(***************************************************************************)

(* A step that leaves ids, senders and results alone keeps what is said of them. *)
LEMMA CoreFrame ==
  ASSUME ClientInv, UNCHANGED <<mapVars, call, id, slot, result, claimed>>,
         reader' = "fire" <=> reader = "fire"
  PROVE  PendingOwned' /\ SenderHeld' /\ RepliesRouted' /\ IdsIssued' /\ ClaimExclusive'
<1> USE DEF ClientInv, mapVars, InFlight
<1>1. PendingOwned'
  BY DEF PendingOwned
<1>2. SenderHeld'
  BY DEF SenderHeld
<1>3. RepliesRouted'
  BY DEF RepliesRouted
<1>4. IdsIssued'
  BY DEF IdsIssued
<1>5. ClaimExclusive'
  BY DEF ClaimExclusive
<1> QED BY <1>1, <1>2, <1>3, <1>4, <1>5

LEMMA InitInv == Init => ClientInv
<1> SUFFICES ASSUME Init PROVE ClientInv
  OBVIOUS
<1> USE DEF Init, InFlight
<1>1. TypeOK
  <2>1. NoResult \in Results /\ Empty \in Slots
    BY DEF Results, Slots
  <2>2. <<>> \in Seq(Requests) /\ <<>> \in Seq(Frames) /\ Len(<<>>) = 0
    OBVIOUS
  <2>3. 0 \in 0 .. MaxId /\ 0 <= ChannelCap /\ 0 <= SocketCap
    BY MaxIdAssumption, ChannelAssumption, SocketAssumption
  <2> QED BY <2>1, <2>2, <2>3 DEF TypeOK
<1>2. PendingOwned
  BY DEF PendingOwned
<1>3. SenderHeld
  BY DEF SenderHeld
<1>4. RepliesRouted
  BY DEF RepliesRouted
<1>5. IdsIssued
  BY DEF IdsIssued
<1>6. ClaimExclusive
  BY DEF ClaimExclusive
<1>7. CancelFirst
  BY MarkerFacts DEF CancelFirst
<1>8. ClosedIsFinal
  BY DEF ClosedIsFinal, NoResult, Closed
<1>9. WriterWriting
  BY DEF WriterWriting
<1> QED BY <1>1, <1>2, <1>3, <1>4, <1>5, <1>6, <1>7, <1>8, <1>9 DEF ClientInv

LEMMA CallCheckInv ==
  ASSUME ClientInv, NEW c \in Calls, CallCheck(c)
  PROVE  ClientInv'
<1> USE DEF ClientInv, CallCheck, Finish, mapVars, lifeVars, writerVars, readerVars,
            sockVars, InFlight
<1>1. TypeOK'
  BY DEF TypeOK, Results
<1>2. PendingOwned'
  BY DEF PendingOwned, TypeOK
<1>3. SenderHeld'
  BY DEF SenderHeld, TypeOK
<1>4. RepliesRouted'
  BY DEF RepliesRouted
<1>5. IdsIssued'
  BY DEF IdsIssued, TypeOK
<1>6. ClaimExclusive'
  BY ClaimFacts DEF ClaimExclusive, TypeOK
<1>7. CancelFirst'
  BY DEF CancelFirst, TypeOK
<1>8. ClosedIsFinal'
  BY DEF ClosedIsFinal, TypeOK
<1>9. WriterWriting'
  BY DEF WriterWriting
<1> QED BY <1>1, <1>2, <1>3, <1>4, <1>5, <1>6, <1>7, <1>8, <1>9

LEMMA CallRegisterInv ==
  ASSUME ClientInv, NEW c \in Calls, CallRegister(c)
  PROVE  ClientInv'
<1> USE DEF ClientInv, lifeVars, writerVars, readerVars, sockVars, InFlight
<1>1. next_id \in Ids /\ next_id' = next_id + 1 /\ call[c] = "checked"
  BY MaxIdAssumption DEF CallRegister, TypeOK, Ids
<1>2. pending[next_id] = None
  BY <1>1 DEF PendingOwned, IdsIssued, TypeOK, Ids
<1>3. slot' = slot
  BY <1>2, NoneAssumption DEF CallRegister, Insert, DropSenders, TypeOK
<1>4. pending' = [pending EXCEPT ![next_id] = c]
  BY DEF CallRegister, Insert
<1>5. id' = [id EXCEPT ![c] = next_id] /\ call' = [call EXCEPT ![c] = "sending"]
  BY DEF CallRegister
<1>6. UNCHANGED <<lifeVars, args, result, writerVars, readerVars, sockVars>>
  BY DEF CallRegister
<1>7. id[c] = None /\ slot[c] = Empty /\ result[c] = NoResult
  BY <1>1 DEF IdsIssued
<1>8. \A d \in Calls : id[d] # next_id
  BY <1>1, NoneAssumption DEF IdsIssued, TypeOK, Ids
<1> USE <1>1, <1>3, <1>4, <1>5, <1>6
<1>11. TypeOK'
  BY MaxIdAssumption DEF TypeOK, Ids
<1>12. PendingOwned'
  BY <1>7, <1>8 DEF PendingOwned, TypeOK
<1>13. SenderHeld'
  BY <1>8, NoneAssumption DEF SenderHeld, IdsIssued, TypeOK
<1>14. RepliesRouted'
  <2>1. \A d, e \in Calls : id'[d] = id'[e] /\ id'[d] # None => d = e
    BY <1>8 DEF RepliesRouted, TypeOK
  <2>2. \A d \in Calls : slot'[d] \notin {Empty, Dropped} => slot'[d].id = id'[d]
    BY <1>7 DEF RepliesRouted, TypeOK
  <2> QED BY <2>1, <2>2 DEF RepliesRouted
<1>15. IdsIssued'
  BY <1>7, NoneAssumption DEF IdsIssued, TypeOK, Ids
<1>16. ClaimExclusive'
  <2>1. CASE claimed = NoClaim
    BY <2>1 DEF ClaimExclusive
  <2>2. CASE claimed # NoClaim
    <3>1. claimed.call \in Calls /\ claimed.envelope \in Replies
      BY <2>2, ClaimFacts
    <3>2. claimed.envelope.id \in Ids /\ claimed.envelope.id = id[claimed.call]
      BY <2>2, <3>1, ReplyFacts DEF ClaimExclusive
    <3>3. claimed.call # c /\ claimed.envelope.id # next_id
      BY <1>7, <1>8, <3>1, <3>2, NoneAssumption
    <3> QED BY <2>2, <3>1, <3>2, <3>3 DEF ClaimExclusive, TypeOK
  <2> QED BY <2>1, <2>2
<1>17. CancelFirst'
  BY <1>7, MarkerFacts DEF CancelFirst, TypeOK
<1>18. ClosedIsFinal'
  BY DEF ClosedIsFinal
<1>19. WriterWriting'
  BY DEF WriterWriting
<1> QED BY <1>11, <1>12, <1>13, <1>14, <1>15, <1>16, <1>17, <1>18, <1>19

LEMMA CallSendInv ==
  ASSUME ClientInv, NEW c \in Calls, CallSend(c)
  PROVE  ClientInv'
<1> USE DEF ClientInv, CallSend, Enqueue, mapVars, lifeVars, readerVars, sockVars, InFlight
<1>1. TypeOK'
  <2>1. Request(id[c], args[c].method, args[c].payload) \in Requests
    BY DEF IdsIssued, TypeOK, Request, Requests, Args
  <2>2. outbound' \in Seq(Requests) /\ Len(outbound') <= ChannelCap
    BY <2>1, ChannelAssumption DEF TypeOK
  <2> QED BY <2>2 DEF TypeOK
<1>2. PendingOwned'
  BY DEF PendingOwned, TypeOK
<1>3. SenderHeld'
  BY DEF SenderHeld, TypeOK
<1>4. RepliesRouted'
  BY DEF RepliesRouted
<1>5. IdsIssued'
  BY DEF IdsIssued, TypeOK
<1>6. ClaimExclusive'
  BY ClaimFacts DEF ClaimExclusive, TypeOK
<1>7. CancelFirst'
  BY DEF CancelFirst, TypeOK
<1>8. ClosedIsFinal'
  BY DEF ClosedIsFinal
<1>9. WriterWriting'
  BY DEF WriterWriting
<1> QED BY <1>1, <1>2, <1>3, <1>4, <1>5, <1>6, <1>7, <1>8, <1>9

(* What is under the id of a call in flight is that call's own sender: removing *)
(* it disturbs no other call.                                                   *)
LEMMA RemoveOwn ==
  ASSUME ClientInv, NEW c \in InFlight, Remove(id[c])
  PROVE  /\ c \in Calls /\ id[c] \in Ids
         /\ pending' = [pending EXCEPT ![id[c]] = None]
         /\ slot' \in [Calls -> Slots]
         /\ \A d \in Calls : d # c => slot'[d] = slot[d]
         /\ slot'[c] # slot[c] => slot'[c] = Dropped /\ slot[c] = Empty
<1> USE DEF ClientInv
<1>1. c \in Calls /\ id[c] \in Ids
  BY DEF InFlight, IdsIssued, TypeOK
<1>2. pending[id[c]] # None => pending[id[c]] = c /\ slot[c] = Empty
  <2> SUFFICES ASSUME pending[id[c]] # None
               PROVE  pending[id[c]] = c /\ slot[c] = Empty
    OBVIOUS
  <2>1. /\ pending[id[c]] \in Calls
        /\ id[pending[id[c]]] = id[c]
        /\ slot[pending[id[c]]] = Empty
    BY <1>1 DEF PendingOwned, TypeOK
  <2>2. pending[id[c]] = c
    BY <1>1, <2>1, NoneAssumption DEF RepliesRouted
  <2> QED BY <2>1, <2>2
<1>3. pending' = [pending EXCEPT ![id[c]] = None]
  BY DEF Remove
<1>4. slot' = [d \in Calls |-> IF d \in {pending[id[c]]} THEN Dropped ELSE slot[d]]
  BY DEF Remove, DropSenders
<1> QED BY <1>1, <1>2, <1>3, <1>4, NoneAssumption DEF TypeOK, Slots

(* A call that ends and takes its own entry with it keeps the invariant, as *)
(* long as it reports a close only after the cancellation.                  *)
LEMMA EndInv ==
  ASSUME ClientInv, NEW c \in InFlight, Remove(id[c]),
         NEW r \in {Closed, Cancelled}, Finish(c, r), r = Closed => token,
         UNCHANGED <<next_id, lifeVars, args, id, writerVars, readerVars, sockVars>>
  PROVE  ClientInv'
<1> USE DEF ClientInv, Finish, lifeVars, writerVars, readerVars, sockVars, InFlight
<1>1. /\ c \in Calls /\ id[c] \in Ids
      /\ pending' = [pending EXCEPT ![id[c]] = None]
      /\ slot' \in [Calls -> Slots]
      /\ \A d \in Calls : d # c => slot'[d] = slot[d]
      /\ slot'[c] # slot[c] => slot'[c] = Dropped /\ slot[c] = Empty
  BY RemoveOwn
<1>2. \A d \in Calls : d # c => id[d] # id[c]
  BY <1>1, NoneAssumption DEF RepliesRouted, TypeOK
<1>11. TypeOK'
  BY <1>1 DEF TypeOK, Results
<1>12. PendingOwned'
  BY <1>1, <1>2 DEF PendingOwned, TypeOK
<1>13. SenderHeld'
  BY <1>1, <1>2 DEF SenderHeld, IdsIssued, TypeOK
<1>14. RepliesRouted'
  BY <1>1 DEF RepliesRouted, TypeOK
<1>15. IdsIssued'
  BY <1>1 DEF IdsIssued, TypeOK
<1>16. ClaimExclusive'
  <2>1. CASE claimed = NoClaim
    BY <2>1 DEF ClaimExclusive
  <2>2. CASE claimed # NoClaim
    BY <1>1, <2>2, ClaimFacts, ReplyFacts DEF ClaimExclusive, TypeOK
  <2> QED BY <2>1, <2>2
<1>17. CancelFirst'
  BY <1>1 DEF CancelFirst, TypeOK
<1>18. ClosedIsFinal'
  BY <1>1 DEF ClosedIsFinal, TypeOK
<1>19. WriterWriting'
  BY DEF WriterWriting
<1> QED BY <1>11, <1>12, <1>13, <1>14, <1>15, <1>16, <1>17, <1>18, <1>19

LEMMA CallSendClosedInv ==
  ASSUME ClientInv, NEW c \in Calls, CallSendClosed(c)
  PROVE  ClientInv'
<1>1. c \in InFlight /\ token
  BY DEF CallSendClosed, InFlight, ClientInv, CancelFirst
<1> QED BY <1>1, EndInv DEF CallSendClosed

LEMMA CallCancelInv ==
  ASSUME ClientInv, NEW c \in Calls, CallCancel(c)
  PROVE  ClientInv'
<1>1. Closed # Cancelled
  BY DEF Closed, Cancelled
<1> QED BY <1>1, EndInv DEF CallCancel

LEMMA CallReturnInv ==
  ASSUME ClientInv, NEW c \in Calls, CallReturn(c)
  PROVE  ClientInv'
<1> USE DEF ClientInv, CallReturn, Finish, mapVars, lifeVars, writerVars, readerVars,
            sockVars, InFlight
<1>1. TypeOK'
  BY OutcomeType DEF TypeOK
<1>2. PendingOwned'
  BY DEF PendingOwned, TypeOK
<1>3. SenderHeld'
  BY DEF SenderHeld, TypeOK
<1>4. RepliesRouted'
  BY DEF RepliesRouted
<1>5. IdsIssued'
  BY DEF IdsIssued, TypeOK
<1>6. ClaimExclusive'
  BY ClaimFacts DEF ClaimExclusive, TypeOK
<1>7. CancelFirst'
  BY DEF CancelFirst, TypeOK
<1>8. ClosedIsFinal'
  <2>1. slot[c] \in Replies => Outcome(slot[c]) # Closed
    BY DEF Outcome, Replies, Responses, Failures, Ok, Remote, Closed
  <2>2. slot[c] \notin Replies => token
    BY DEF CancelFirst, TypeOK, Slots
  <2> QED BY <2>1, <2>2 DEF ClosedIsFinal, TypeOK
<1>9. WriterWriting'
  BY DEF WriterWriting
<1> QED BY <1>1, <1>2, <1>3, <1>4, <1>5, <1>6, <1>7, <1>8, <1>9

LEMMA DropClientInv ==
  ASSUME ClientInv, DropClient
  PROVE  ClientInv'
<1> USE DEF ClientInv, DropClient, mapVars, callVars, writerVars, readerVars, sockVars
<1>1. TypeOK'
  BY DEF TypeOK
<1>2. PendingOwned' /\ SenderHeld' /\ RepliesRouted' /\ IdsIssued' /\ ClaimExclusive'
  BY CoreFrame
<1>3. CancelFirst' /\ ClosedIsFinal' /\ WriterWriting'
  BY DEF CancelFirst, ClosedIsFinal, InFlight, WriterWriting
<1> QED BY <1>1, <1>2, <1>3

LEMMA WriterInv ==
  ASSUME ClientInv, Writer
  PROVE  ClientInv'
<1> USE DEF ClientInv, WriterGoto, mapVars, callVars, readerVars
<1>1. TypeOK'
  <2>1. CASE WriterCancelled
    BY <2>1 DEF WriterCancelled, TypeOK
  <2>2. CASE WriterRecv
    <3>1. Head(outbound) \in Requests /\ Tail(outbound) \in Seq(Requests)
            /\ Len(Tail(outbound)) <= ChannelCap
      BY <2>2, ChannelAssumption DEF WriterRecv, TypeOK
    <3> QED BY <2>2, <3>1 DEF WriterRecv, TypeOK
  <2>3. CASE WriterNoSenders
    BY <2>3 DEF WriterNoSenders, TypeOK
  <2>4. CASE WriterSent
    <3>1. writing \in Requests
      BY <2>4 DEF WriterSent, WriterWriting, TypeOK
    <3>2. Append(outbox, writing) \in Seq(Requests)
            /\ Len(Append(outbox, writing)) <= SocketCap
      BY <2>4, <3>1, SocketAssumption DEF WriterSent, TypeOK
    <3> QED BY <2>4, <3>2 DEF WriterSent, TypeOK
  <2>5. CASE WriterFailed
    BY <2>5 DEF WriterFailed, TypeOK
  <2>6. CASE WriterCancel
    BY <2>6 DEF WriterCancel, TypeOK
  <2>7. CASE WriterDrop
    BY <2>7, ChannelAssumption DEF WriterDrop, TypeOK
  <2> QED BY <2>1, <2>2, <2>3, <2>4, <2>5, <2>6, <2>7 DEF Writer
<1>2. UNCHANGED <<mapVars, callVars, readerVars>>
  BY DEF Writer, WriterCancelled, WriterRecv, WriterNoSenders, WriterSent,
         WriterFailed, WriterCancel, WriterDrop
<1>3. PendingOwned' /\ SenderHeld' /\ RepliesRouted' /\ IdsIssued' /\ ClaimExclusive'
  BY <1>2, CoreFrame
<1>4. token => token'
  BY DEF Writer, WriterCancelled, WriterRecv, WriterNoSenders, WriterSent,
         WriterFailed, WriterCancel, WriterDrop
<1>5. writer' \in {"drop", "done"} => token'
  BY DEF Writer, WriterCancelled, WriterRecv, WriterNoSenders, WriterSent,
         WriterFailed, WriterCancel, WriterDrop, CancelFirst
<1>6. CancelFirst'
  BY <1>2, <1>4, <1>5 DEF CancelFirst, InFlight
<1>7. ClosedIsFinal'
  BY <1>2, <1>4 DEF ClosedIsFinal
<1>8. WriterWriting'
  BY MarkerFacts DEF WriterWriting, Writer, WriterCancelled, WriterRecv, WriterNoSenders,
     WriterSent, WriterFailed, WriterCancel, WriterDrop, TypeOK
<1> QED BY <1>1, <1>3, <1>6, <1>7, <1>8

LEMMA EnvironmentInv ==
  ASSUME ClientInv, Environment
  PROVE  ClientInv'
<1> USE DEF ClientInv, TaskVars, mapVars, lifeVars, callVars, writerVars, readerVars
<1>1. UNCHANGED TaskVars
  BY DEF Environment, PeerSend, PeerRecv, PeerClose, NetReset
<1>2. TypeOK'
  <2>1. ASSUME NEW f \in PeerFrames, PeerSend(f) PROVE TypeOK'
    <3>1. Append(inbox, f) \in Seq(Frames) /\ Len(Append(inbox, f)) <= SocketCap
      BY <2>1, PeerAssumption, SocketAssumption DEF PeerSend, TypeOK
    <3> QED BY <2>1, <3>1 DEF PeerSend, TypeOK
  <2>2. CASE PeerRecv
    <3>1. Tail(outbox) \in Seq(Requests) /\ Len(Tail(outbox)) <= SocketCap
      BY <2>2, SocketAssumption DEF PeerRecv, TypeOK
    <3> QED BY <2>2, <3>1 DEF PeerRecv, TypeOK
  <2>3. CASE PeerClose
    BY <2>3 DEF PeerClose, TypeOK
  <2>4. CASE NetReset
    BY <2>4 DEF NetReset, TypeOK
  <2> QED BY <2>1, <2>2, <2>3, <2>4 DEF Environment
<1>3. PendingOwned' /\ SenderHeld' /\ RepliesRouted' /\ IdsIssued' /\ ClaimExclusive'
  BY <1>1, CoreFrame
<1>4. CancelFirst' /\ ClosedIsFinal' /\ WriterWriting'
  BY <1>1 DEF CancelFirst, ClosedIsFinal, InFlight, WriterWriting
<1> QED BY <1>2, <1>3, <1>4

LEMMA ReaderTakeInv ==
  ASSUME ClientInv, ReaderTake
  PROVE  ClientInv'
<1> USE DEF ClientInv, ReaderGoto, writerVars, InFlight
<1> DEFINE e == Head(inbox)
           c == pending[e.id]
<1>1. e \in Replies /\ e.id \in Ids
  BY ReplyFacts DEF ReaderTake, Claim
<1>2. c \in Calls /\ c \in InFlight /\ id[c] = e.id /\ slot[c] = Empty
  BY <1>1 DEF ReaderTake, Claim, PendingOwned, TypeOK
<1>3. /\ claimed' = [call |-> c, envelope |-> e]
      /\ pending' = [pending EXCEPT ![e.id] = None]
      /\ reader = "select" /\ reader' = "fire"
      /\ UNCHANGED <<next_id, token, handle, call, args, id, slot, result, writerVars,
                     outbox, peerClosed, reset>>
  BY DEF ReaderTake, Claim
<1>4. claimed'.call = c /\ claimed'.envelope = e /\ claimed' # NoClaim
  BY <1>2, <1>3, NoneAssumption DEF NoClaim
<1>5. inbox' \in Seq(Frames) /\ Len(inbox') <= SocketCap
  BY SocketAssumption DEF ReaderTake, Claim, TypeOK
<1>6. claimed = NoClaim
  BY <1>3 DEF ClaimExclusive
<1> HIDE DEF e, c
<1>11. TypeOK'
  BY <1>1, <1>2, <1>3, <1>5 DEF TypeOK
<1>12. PendingOwned'
  BY <1>1, <1>3 DEF PendingOwned, TypeOK
<1>13. SenderHeld'
  <2> SUFFICES ASSUME NEW d \in Calls, d \in InFlight, slot[d] = Empty
               PROVE  pending'[id[d]] = d \/ c = d
    BY <1>3, <1>4 DEF SenderHeld
  <2>1. id[d] \in Ids /\ pending[id[d]] = d
    BY <1>6, NoClaimFacts DEF SenderHeld, IdsIssued, TypeOK
  <2>2. CASE id[d] = e.id
    BY <2>1, <2>2 DEF c
  <2>3. CASE id[d] # e.id
    BY <1>1, <1>3, <2>1, <2>3 DEF TypeOK
  <2> QED BY <2>2, <2>3
<1>14. RepliesRouted'
  BY <1>3 DEF RepliesRouted
<1>15. IdsIssued'
  BY <1>3 DEF IdsIssued
<1>16. ClaimExclusive'
  BY <1>1, <1>2, <1>3, <1>4 DEF ClaimExclusive, TypeOK
<1>17. CancelFirst' /\ ClosedIsFinal' /\ WriterWriting'
  BY <1>3 DEF CancelFirst, ClosedIsFinal, WriterWriting
<1> QED BY <1>11, <1>12, <1>13, <1>14, <1>15, <1>16, <1>17

LEMMA ReaderFireInv ==
  ASSUME ClientInv, ReaderFire
  PROVE  ClientInv'
<1> USE DEF ClientInv, ReaderGoto, writerVars, InFlight
<1> DEFINE e == claimed.envelope
           c == claimed.call
<1>1. /\ claimed # NoClaim /\ c \in Calls /\ e \in Replies /\ e.id \in Ids
      /\ e.id = id[c] /\ pending[e.id] = None
      /\ c \in InFlight => slot[c] = Empty
  BY ClaimFacts, ReplyFacts DEF ReaderFire, ClaimExclusive
<1>2. /\ claimed' = NoClaim /\ reader' = "select"
      /\ slot' = IF c \in InFlight THEN [slot EXCEPT ![c] = e] ELSE slot
      /\ UNCHANGED <<next_id, pending, token, handle, call, args, id, result, writerVars,
                     inbox, outbox, peerClosed, reset>>
  BY DEF ReaderFire
<1>3. e # Empty /\ e # Dropped
  BY <1>1, ReplyFacts
<1> HIDE DEF e
<1>11. TypeOK'
  BY <1>1, <1>2 DEF TypeOK, Slots
<1>12. PendingOwned'
  <2>1. \A i \in Ids : pending[i] # c
    BY <1>1, NoneAssumption DEF PendingOwned, TypeOK
  <2> QED BY <1>1, <1>2, <2>1 DEF PendingOwned, TypeOK
<1>13. SenderHeld'
  BY <1>1, <1>2, <1>3 DEF SenderHeld, TypeOK
<1>14. RepliesRouted'
  BY <1>1, <1>2 DEF RepliesRouted, TypeOK
<1>15. IdsIssued'
  BY <1>1, <1>2 DEF IdsIssued, TypeOK
<1>16. ClaimExclusive'
  BY <1>2 DEF ClaimExclusive
<1>17. CancelFirst'
  BY <1>1, <1>2, <1>3 DEF CancelFirst, TypeOK
<1>18. ClosedIsFinal' /\ WriterWriting'
  BY <1>2 DEF ClosedIsFinal, WriterWriting
<1> QED BY <1>11, <1>12, <1>13, <1>14, <1>15, <1>16, <1>17, <1>18

LEMMA ReaderDrainInv ==
  ASSUME ClientInv, ReaderDrain
  PROVE  ClientInv'
<1> USE DEF ClientInv, ReaderGoto, writerVars, InFlight
<1>1. /\ pending' = [i \in Ids |-> None]
      /\ slot' = [c \in Calls |-> IF c \in {pending[i] : i \in Ids}
                                  THEN Dropped ELSE slot[c]]
  BY DEF ReaderDrain, Drain, DropSenders
<1>2. /\ reader = "drain" /\ reader' = "done" /\ token
      /\ UNCHANGED <<next_id, token, handle, call, args, id, result, claimed,
                     writerVars, inbox, outbox, peerClosed, reset>>
  BY DEF ReaderDrain, CancelFirst
<1>3. claimed = NoClaim
  BY <1>2 DEF ClaimExclusive
<1>4. \A c \in Calls : slot'[c] # slot[c] => slot'[c] = Dropped /\ c \in InFlight
  <2> SUFFICES ASSUME NEW c \in Calls, slot'[c] # slot[c]
               PROVE  slot'[c] = Dropped /\ c \in InFlight
    OBVIOUS
  <2>1. PICK i \in Ids : pending[i] = c
    BY <1>1
  <2> QED BY <1>1, <2>1, NoneAssumption DEF PendingOwned
<1>5. \A c \in Calls : c \in InFlight => slot'[c] # Empty
  <2> SUFFICES ASSUME NEW c \in Calls, c \in InFlight, slot[c] = Empty
               PROVE  slot'[c] # Empty
    BY <1>4, MarkerFacts
  <2>1. id[c] \in Ids /\ pending[id[c]] = c
    BY <1>3, NoClaimFacts DEF SenderHeld, IdsIssued, TypeOK
  <2> QED BY <1>1, <2>1, MarkerFacts
<1>11. TypeOK'
  <2>1. slot' \in [Calls -> Slots]
    BY <1>1 DEF TypeOK, Slots
  <2>2. pending' \in [Ids -> Calls \cup {None}]
    BY <1>1
  <2> QED BY <1>2, <2>1, <2>2 DEF TypeOK
<1>12. PendingOwned'
  BY <1>1 DEF PendingOwned
<1>13. SenderHeld'
  BY <1>2, <1>5 DEF SenderHeld
<1>14. RepliesRouted'
  BY <1>2, <1>4 DEF RepliesRouted
<1>15. IdsIssued'
  BY <1>2, <1>4 DEF IdsIssued
<1>16. ClaimExclusive'
  BY <1>2, <1>3 DEF ClaimExclusive
<1>17. CancelFirst' /\ ClosedIsFinal' /\ WriterWriting'
  BY <1>2 DEF CancelFirst, ClosedIsFinal, WriterWriting
<1> QED BY <1>11, <1>12, <1>13, <1>14, <1>15, <1>16, <1>17

(* The steps of the reader that touch no sender. *)
LEMMA ReaderOtherInv ==
  ASSUME ClientInv, ReaderCancelled \/ ReaderIgnore \/ ReaderEnd \/ ReaderCancel
  PROVE  ClientInv'
<1> USE DEF ClientInv, ReaderGoto, writerVars, mapVars,
            ReaderCancelled, ReaderIgnore, ReaderEnd, ReaderCancel
<1>1. UNCHANGED <<mapVars, handle, call, args, id, slot, result, claimed, writerVars,
                  outbox, peerClosed, reset>>
  OBVIOUS
<1>2. /\ reader # "fire" /\ reader' # "fire"
      /\ reader' \in {"select", "cancel", "drain"}
      /\ reader' = "drain" => token'
      /\ token => token'
      /\ token' \in BOOLEAN
  BY DEF TypeOK
<1>3. inbox' \in Seq(Frames) /\ Len(inbox') <= SocketCap
  <2>1. CASE inbox' = inbox
    BY <2>1 DEF TypeOK
  <2>2. CASE inbox # <<>> /\ inbox' = Tail(inbox)
    BY <2>2, SocketAssumption DEF TypeOK
  <2> QED BY <2>1, <2>2
<1> HIDE DEF ReaderCancelled, ReaderIgnore, ReaderEnd, ReaderCancel
<1>4. TypeOK'
  BY <1>1, <1>2, <1>3 DEF TypeOK
<1>5. PendingOwned' /\ SenderHeld' /\ RepliesRouted' /\ IdsIssued' /\ ClaimExclusive'
  BY <1>1, <1>2, CoreFrame
<1>6. CancelFirst' /\ ClosedIsFinal' /\ WriterWriting'
  BY <1>1, <1>2 DEF CancelFirst, ClosedIsFinal, WriterWriting, InFlight
<1> QED BY <1>4, <1>5, <1>6

LEMMA StutterInv ==
  ASSUME ClientInv, UNCHANGED vars
  PROVE  ClientInv'
<1> USE DEF ClientInv, vars, mapVars, lifeVars, callVars, writerVars, readerVars, sockVars
<1>1. TypeOK'
  BY DEF TypeOK
<1>2. PendingOwned' /\ SenderHeld' /\ RepliesRouted' /\ IdsIssued' /\ ClaimExclusive'
  BY CoreFrame
<1>3. CancelFirst' /\ ClosedIsFinal' /\ WriterWriting'
  BY DEF CancelFirst, ClosedIsFinal, WriterWriting, InFlight
<1> QED BY <1>1, <1>2, <1>3

LEMMA NextInv == ClientInv /\ [Next]_vars => ClientInv'
<1> SUFFICES ASSUME ClientInv, [Next]_vars PROVE ClientInv'
  OBVIOUS
<1>1. ASSUME NEW c \in Calls, CallCheck(c) \/ CallStep(c) \/ CallCancel(c)
      PROVE  ClientInv'
  BY <1>1, CallCheckInv, CallRegisterInv, CallSendInv, CallSendClosedInv, CallReturnInv,
     CallCancelInv DEF CallStep
<1>2. CASE DropClient
  BY <1>2, DropClientInv
<1>3. CASE Writer
  BY <1>3, WriterInv
<1>4. CASE Reader
  BY <1>4, ReaderTakeInv, ReaderFireInv, ReaderDrainInv, ReaderOtherInv DEF Reader
<1>5. CASE Environment
  BY <1>5, EnvironmentInv
<1>6. CASE UNCHANGED vars
  BY <1>6, StutterInv
<1> QED BY <1>1, <1>2, <1>3, <1>4, <1>5, <1>6 DEF Next, ClientStep

-----------------------------------------------------------------------------
(***************************************************************************)
(* The results.                                                            *)
(***************************************************************************)

(* The invariant holds in every reachable state of the client. *)
THEOREM ClientInvariant == Spec => []ClientInv
BY InitInv, NextInv, PTL DEF Spec

(* Type correctness; the mpsc channel never exceeds its capacity. *)
THEOREM TypeCorrect == Spec => []TypeOK
<1>1. ClientInv => TypeOK
  BY DEF ClientInv
<1> QED BY <1>1, ClientInvariant, PTL

(* The PendingMap leaks no entry: each belongs to a call still waiting under *)
(* that id, whatever is cancelled, answered or torn down (PendingGuard).     *)
THEOREM NoLeakedEntry == Spec => []PendingOwned
<1>1. ClientInv => PendingOwned
  BY DEF ClientInv
<1> QED BY <1>1, ClientInvariant, PTL

(* No caller is stranded by take, drain or the guard: its sender is in the map *)
(* or in the reader's hand until it has been used (reader_loop, PendingGuard). *)
THEOREM NoLostSender == Spec => []SenderHeld
<1>1. ClientInv => SenderHeld
  BY DEF ClientInv
<1> QED BY <1>1, ClientInvariant, PTL

(* Multiplexing is exact: ids are unique and a reply reaches only its call. *)
THEOREM ExactRouting == Spec => []RepliesRouted
<1>1. ClientInv => RepliesRouted
  BY DEF ClientInv
<1> QED BY <1>1, ClientInvariant, PTL

(* call() returns PatinaError::Closed only on a connection that is given up. *)
THEOREM ClosedIsTruthful == Spec => []ClosedIsFinal
<1>1. ClientInv => ClosedIsFinal
  BY DEF ClientInv
<1> QED BY <1>1, ClientInvariant, PTL

(* A oneshot fires once, a result is final and a cancelled token stays so: no *)
(* late, duplicated or stray reply changes what a call was told.              *)
THEOREM ResolvesOnce == Spec => ResolvedOnce
<1> DEFINE Once == /\ \A c \in Calls : slot[c] # Empty => slot'[c] = slot[c]
                   /\ \A c \in Calls : result[c] # NoResult => result'[c] = result[c]
                   /\ token => token'
<1>1. ASSUME ClientInv, Next PROVE Once
  <2> USE <1>1 DEF ClientInv
  <2>1. ASSUME NEW c \in Calls, CallCheck(c) PROVE Once
    BY <2>1 DEF CallCheck, Finish, lifeVars, IdsIssued, TypeOK
  <2>2. ASSUME NEW c \in Calls, CallRegister(c) PROVE Once
    <3>1. next_id \in Ids /\ pending[next_id] = None
      BY <2>2, MaxIdAssumption DEF CallRegister, PendingOwned, IdsIssued, TypeOK, Ids
    <3>2. slot' = slot
      BY <2>2, <3>1, NoneAssumption DEF CallRegister, Insert, DropSenders, TypeOK
    <3> QED BY <2>2, <3>2 DEF CallRegister, lifeVars
  <2>3. ASSUME NEW c \in Calls, CallSend(c) PROVE Once
    BY <2>3 DEF CallSend, Enqueue, lifeVars
  <2>4. ASSUME NEW c \in Calls, CallSendClosed(c) \/ CallCancel(c) PROVE Once
    <3>1. c \in InFlight /\ Remove(id[c])
      BY <2>4 DEF CallSendClosed, CallCancel, InFlight
    <3>2. \A d \in Calls : slot[d] # Empty => slot'[d] = slot[d]
      BY <3>1, RemoveOwn
    <3>3. result[c] = NoResult
      BY <3>1 DEF IdsIssued, InFlight
    <3> QED BY <2>4, <3>2, <3>3 DEF CallSendClosed, CallCancel, Finish, lifeVars, TypeOK
  <2>5. ASSUME NEW c \in Calls, CallReturn(c) PROVE Once
    BY <2>5 DEF CallReturn, Finish, lifeVars, IdsIssued, TypeOK
  <2>6. CASE DropClient
    BY <2>6 DEF DropClient, callVars
  <2>7. CASE Writer
    BY <2>7 DEF Writer, WriterCancelled, WriterRecv, WriterNoSenders, WriterSent,
       WriterFailed, WriterCancel, WriterDrop, WriterGoto, callVars
  <2>8. CASE ReaderCancelled \/ ReaderTake \/ ReaderIgnore \/ ReaderEnd \/ ReaderCancel
    BY <2>8 DEF ReaderCancelled, ReaderTake, Claim, ReaderIgnore, ReaderEnd, ReaderCancel,
       ReaderGoto
  <2>9. CASE ReaderFire
    <3>1. claimed.call \in Calls /\ (claimed.call \in InFlight => slot[claimed.call] = Empty)
      BY <2>9, ClaimFacts DEF ReaderFire, ClaimExclusive
    <3> QED BY <2>9, <3>1 DEF ReaderFire, ReaderGoto, TypeOK
  <2>10. CASE ReaderDrain
    <3>1. ASSUME NEW c \in Calls, slot[c] # Empty PROVE slot'[c] = slot[c]
      <4>1. \A i \in Ids : pending[i] # c
        BY <3>1, NoneAssumption DEF PendingOwned
      <4> QED BY <2>10, <4>1 DEF ReaderDrain, Drain, DropSenders
    <3> QED BY <2>10, <3>1 DEF ReaderDrain, ReaderGoto
  <2>11. CASE Environment
    BY <2>11 DEF Environment, PeerSend, PeerRecv, PeerClose, NetReset, TaskVars,
       lifeVars, callVars
  <2> QED BY <1>1, <2>1, <2>2, <2>3, <2>4, <2>5, <2>6, <2>7, <2>8, <2>9, <2>10, <2>11
          DEF Next, ClientStep, CallStep, Reader
<1>2. ClientInv /\ [Next]_vars => [Once]_vars
  BY <1>1
<1> QED BY <1>2, ClientInvariant, PTL DEF Spec, ResolvedOnce

-----------------------------------------------------------------------------
(***************************************************************************)
(* The client implements UnaryCall.                                        *)
(***************************************************************************)
(* What a step that leaves the phase of every call and its reply alone shows. *)
LEMMA HiddenStep ==
  ASSUME UNCHANGED <<call, id, result, token>>,
         \A c \in Calls : AnswerOf(c)' = AnswerOf(c)
  PROVE  UNCHANGED Promise!avars
BY DEF Promise!avars, PhaseOf, InFlight

LEMMA HiddenSlots ==
  ASSUME UNCHANGED slot, NEW c \in Calls
  PROVE  AnswerOf(c)' = AnswerOf(c)
BY DEF AnswerOf

LEMMA CloseStep ==
  ASSUME UNCHANGED <<call, id, result, slot>>, token' = TRUE
  PROVE  Promise!ANext
BY DEF Promise!ANext, Promise!Close, PhaseOf, InFlight, AnswerOf

LEMMA PromiseInit == Init => Promise!AInit
BY MarkerFacts DEF Init, Promise!AInit, PhaseOf, AnswerOf, Promise!NoAnswer,
   Promise!NoResult, NoResult

(* An abstract Fail, seen from the concrete variables. *)
LEMMA FailStep ==
  ASSUME ClientInv, NEW c \in Calls, call[c] # "done", token, Finish(c, Closed),
         UNCHANGED <<id, token>>, \A d \in Calls : AnswerOf(d)' = AnswerOf(d)
  PROVE  Promise!ANext
<1>1. Promise!Fail(c)
  BY DEF ClientInv, TypeOK, Finish, Promise!Fail, Promise!End, PhaseOf, InFlight,
     Promise!Closed, Closed
<1> QED BY <1>1 DEF Promise!ANext

LEMMA CallCheckStep ==
  ASSUME ClientInv, NEW c \in Calls, CallCheck(c)
  PROVE  [Promise!ANext]_(Promise!avars)
<1>1. \A d \in Calls : AnswerOf(d)' = AnswerOf(d)
  BY HiddenSlots DEF CallCheck
<1>2. CASE token /\ Finish(c, Closed)
  BY <1>1, <1>2, FailStep DEF CallCheck, lifeVars
<1>3. CASE ~token
  BY <1>1, <1>3 DEF CallCheck, lifeVars, ClientInv, TypeOK, Promise!avars, PhaseOf, InFlight
<1> QED BY <1>2, <1>3 DEF CallCheck

LEMMA CallRegisterStep ==
  ASSUME ClientInv, NEW c \in Calls, CallRegister(c)
  PROVE  [Promise!ANext]_(Promise!avars)
<1> USE DEF ClientInv
<1>1. next_id \in Ids /\ pending[next_id] = None
  BY MaxIdAssumption DEF CallRegister, PendingOwned, IdsIssued, TypeOK, Ids
<1>2. slot' = slot
  BY <1>1, NoneAssumption DEF CallRegister, Insert, DropSenders, TypeOK
<1>3. \A d \in Calls : id[d] # next_id
  BY <1>1, NoneAssumption DEF IdsIssued, TypeOK, Ids
<1>4. Promise!Begin(c, next_id)
  BY <1>2, <1>3 DEF CallRegister, lifeVars, TypeOK, Promise!Begin, PhaseOf, InFlight, AnswerOf
<1> QED BY <1>1, <1>4 DEF Promise!ANext, Promise!Ids, Ids

LEMMA CallSendStep ==
  ASSUME ClientInv, NEW c \in Calls, CallSend(c)
  PROVE  [Promise!ANext]_(Promise!avars)
BY DEF CallSend, Enqueue, lifeVars, ClientInv, TypeOK, Promise!avars, PhaseOf, InFlight, AnswerOf

(* A sender that is dropped without firing shows no reply. *)
LEMMA RemoveHidden ==
  ASSUME ClientInv, NEW c \in InFlight, Remove(id[c]), NEW d \in Calls
  PROVE  AnswerOf(d)' = AnswerOf(d)
<1>1. slot'[d] = slot[d] \/ (slot'[d] = Dropped /\ slot[d] = Empty)
  BY RemoveOwn
<1> QED BY <1>1, MarkerFacts DEF AnswerOf

LEMMA CallSendClosedStep ==
  ASSUME ClientInv, NEW c \in Calls, CallSendClosed(c)
  PROVE  [Promise!ANext]_(Promise!avars)
<1>1. c \in InFlight /\ token
  BY DEF CallSendClosed, InFlight, ClientInv, CancelFirst
<1>2. \A d \in Calls : AnswerOf(d)' = AnswerOf(d)
  BY <1>1, RemoveHidden DEF CallSendClosed
<1> QED BY <1>1, <1>2, FailStep DEF CallSendClosed, InFlight, lifeVars

LEMMA CallCancelStep ==
  ASSUME ClientInv, NEW c \in Calls, CallCancel(c)
  PROVE  [Promise!ANext]_(Promise!avars)
<1>1. \A d \in Calls : AnswerOf(d)' = AnswerOf(d)
  BY RemoveHidden DEF CallCancel
<1>2. Promise!Abandon(c)
  BY <1>1 DEF CallCancel, Finish, lifeVars, ClientInv, TypeOK, Promise!Abandon, Promise!End,
     PhaseOf, InFlight, Promise!Cancelled, Cancelled
<1> QED BY <1>2 DEF Promise!ANext

LEMMA CallReturnStep ==
  ASSUME ClientInv, NEW c \in Calls, CallReturn(c)
  PROVE  [Promise!ANext]_(Promise!avars)
<1> USE DEF ClientInv
<1>1. \A d \in Calls : AnswerOf(d)' = AnswerOf(d)
  BY HiddenSlots DEF CallReturn
<1>2. CASE slot[c] \in Replies
  <2>1. AnswerOf(c) = slot[c] /\ slot[c].tag \in {"Response", "Error"}
    BY <1>2, ReplyFacts DEF AnswerOf
  <2>2. AnswerOf(c) # Promise!NoAnswer
    BY <2>1 DEF Promise!NoAnswer
  <2>3. Outcome(slot[c]) = Promise!ReplyOutcome(AnswerOf(c))
    <3>1. CASE slot[c].tag = "Response"
      BY <2>1, <3>1, Zenon DEF Outcome, Promise!ReplyOutcome, Promise!Ok, Ok
    <3>2. CASE slot[c].tag = "Error"
      <4>1. slot[c].tag # "Response"
        BY <3>2
      <4> QED BY <2>1, <3>2, <4>1, Zenon DEF Outcome, Promise!ReplyOutcome, Promise!Remote, Remote
    <3> QED BY <2>1, <3>1, <3>2
  <2>4. Promise!Return(c)
    BY <1>1, <2>2, <2>3 DEF CallReturn, Finish, lifeVars, TypeOK, Promise!Return, Promise!End,
       PhaseOf, InFlight
  <2> QED BY <2>4 DEF Promise!ANext
<1>3. CASE slot[c] \notin Replies
  <2>1. slot[c] = Dropped /\ token
    BY <1>3 DEF CallReturn, TypeOK, Slots, CancelFirst, InFlight
  <2>2. Outcome(slot[c]) = Closed
    <3>1. slot[c].tag # "Response" /\ slot[c].tag # "Error"
      BY <2>1 DEF Dropped
    <3> QED BY <3>1, Zenon DEF Outcome
  <2> QED BY <1>1, <2>1, <2>2, FailStep DEF CallReturn, lifeVars
<1> QED BY <1>2, <1>3

LEMMA ReaderFireStep ==
  ASSUME ClientInv, ReaderFire
  PROVE  [Promise!ANext]_(Promise!avars)
<1> USE DEF ClientInv
<1> DEFINE e == claimed.envelope
           c == claimed.call
<1>1. /\ c \in Calls /\ e \in Replies /\ e.id = id[c]
      /\ c \in InFlight => slot[c] = Empty
  BY ClaimFacts DEF ReaderFire, ClaimExclusive
<1>2. /\ slot' = IF c \in InFlight THEN [slot EXCEPT ![c] = e] ELSE slot
      /\ UNCHANGED <<token, call, id, result>>
  BY DEF ReaderFire, ReaderGoto
<1> HIDE DEF e, c
<1>3. CASE c \in InFlight
  <2>1. AnswerOf(c) = Promise!NoAnswer
    BY <1>1, <1>3, MarkerFacts DEF AnswerOf, Promise!NoAnswer
  <2>2. \A d \in Calls : AnswerOf(d)' = IF d = c THEN e ELSE AnswerOf(d)
    BY <1>1, <1>2, <1>3 DEF AnswerOf, TypeOK
  <2>3. Promise!Deliver(c, e)
    BY <1>1, <1>2, <1>3, <2>1, <2>2 DEF Promise!Deliver, PhaseOf, InFlight
  <2>4. e \in Promise!Replies
    BY <1>1 DEF Promise!Replies, Promise!Responses, Promise!Failures, Promise!Ids,
       Replies, Responses, Failures, Ids
  <2> QED BY <1>1, <2>3, <2>4 DEF Promise!ANext
<1>4. CASE c \notin InFlight
  BY <1>2, <1>4, HiddenStep, HiddenSlots
<1> QED BY <1>3, <1>4

LEMMA ReaderDrainStep ==
  ASSUME ClientInv, ReaderDrain
  PROVE  [Promise!ANext]_(Promise!avars)
<1>1. ASSUME NEW c \in Calls PROVE AnswerOf(c)' = AnswerOf(c)
  <2>1. slot'[c] = IF c \in {pending[i] : i \in Ids} THEN Dropped ELSE slot[c]
    BY DEF ReaderDrain, Drain, DropSenders
  <2>2. CASE \E i \in Ids : pending[i] = c
    <3>1. slot[c] = Empty /\ slot'[c] = Dropped
      BY <2>1, <2>2, NoneAssumption DEF ClientInv, PendingOwned
    <3> QED BY <3>1, MarkerFacts DEF AnswerOf
  <2>3. CASE ~ \E i \in Ids : pending[i] = c
    BY <2>1, <2>3 DEF AnswerOf
  <2> QED BY <2>2, <2>3
<1> QED BY <1>1, HiddenStep DEF ReaderDrain, ReaderGoto

(* Every other step hides what the callers see, or closes the connection. *)
LEMMA OtherStep ==
  ASSUME \/ DropClient \/ Writer \/ Environment
         \/ ReaderCancelled \/ ReaderTake \/ ReaderIgnore \/ ReaderEnd \/ ReaderCancel
         \/ UNCHANGED vars
  PROVE  [Promise!ANext]_(Promise!avars)
<1>1. UNCHANGED <<call, id, result, slot>> /\ (token' = token \/ token' = TRUE)
  BY DEF DropClient, Writer, WriterCancelled, WriterRecv, WriterNoSenders, WriterSent,
     WriterFailed, WriterCancel, WriterDrop, WriterGoto, Environment, PeerSend, PeerRecv,
     PeerClose, NetReset, TaskVars, ReaderCancelled, ReaderTake, Claim, ReaderIgnore, ReaderEnd,
     ReaderCancel, ReaderGoto, callVars, lifeVars, vars
<1> QED BY <1>1, HiddenStep, HiddenSlots, CloseStep

(* The client keeps what UnaryCall promises, for any number of calls and    *)
(* whatever the peer does: unique keys, at most one reply per call, its own, *)
(* and Closed only on a closed connection (Client::call).                    *)
THEOREM ImplementsUnaryCall == Spec => KeepsPromise
<1>1. ClientInv /\ [Next]_vars => [Promise!ANext]_(Promise!avars)
  BY CallCheckStep, CallRegisterStep, CallSendStep, CallSendClosedStep, CallCancelStep,
     CallReturnStep, ReaderFireStep, ReaderDrainStep, OtherStep
     DEF Next, ClientStep, CallStep, Reader
<1> QED BY <1>1, PromiseInit, ClientInvariant, PTL DEF Spec, KeepsPromise, Promise!ASpec
=============================================================================
