----------------------------- MODULE UnaryCall ------------------------------
(***************************************************************************)
(* What Client::call promises to the callers that share one connection,    *)
(* with the pending map, the channels and the background tasks hidden:     *)
(*   - every call in flight has a key no other call ever had;              *)
(*   - at most one reply, carrying that key, is handed to a call;          *)
(*   - a call ends once, with the contents of its own reply, with Closed   *)
(*     only when the connection is closed, or because it was dropped.      *)
(***************************************************************************)
EXTENDS Envelope

CONSTANTS Calls, None

VARIABLES
  phase,    \* "idle", "open" or "done", per call
  key,      \* the request id of a call, None before it has one
  answer,   \* the reply handed to a call, NoAnswer before
  outcome,  \* what the call returned
  closed    \* the connection has been given up

avars == <<phase, key, answer, outcome, closed>>

NoAnswer == [tag |-> "NoAnswer"]

ReplyOutcome(e) == IF e.tag = "Response" THEN Ok(e.payload) ELSE Remote(e.error)

AInit ==
  /\ phase = [c \in Calls |-> "idle"]
  /\ key = [c \in Calls |-> None]
  /\ answer = [c \in Calls |-> NoAnswer]
  /\ outcome = [c \in Calls |-> NoResult]
  /\ closed = FALSE

Begin(c, k) ==
  /\ phase[c] = "idle"
  /\ \A d \in Calls : key[d] # k
  /\ phase' = [phase EXCEPT ![c] = "open"]
  /\ key' = [key EXCEPT ![c] = k]
  /\ UNCHANGED <<answer, outcome, closed>>

Deliver(c, e) ==
  /\ phase[c] = "open"
  /\ answer[c] = NoAnswer
  /\ e.id = key[c]
  /\ answer' = [answer EXCEPT ![c] = e]
  /\ UNCHANGED <<phase, key, outcome, closed>>

End(c, r) ==
  /\ phase' = [phase EXCEPT ![c] = "done"]
  /\ outcome' = [outcome EXCEPT ![c] = r]
  /\ UNCHANGED <<key, answer, closed>>

Return(c) ==
  /\ phase[c] = "open"
  /\ answer[c] # NoAnswer
  /\ End(c, ReplyOutcome(answer[c]))

Fail(c) ==
  /\ phase[c] \in {"idle", "open"}
  /\ closed
  /\ End(c, Closed)

Abandon(c) ==
  /\ phase[c] = "open"
  /\ End(c, Cancelled)

Close ==
  /\ closed' = TRUE
  /\ UNCHANGED <<phase, key, answer, outcome>>

ANext ==
  \/ Close
  \/ \E c \in Calls :
       \/ \E k \in Ids : Begin(c, k)
       \/ \E e \in Replies : Deliver(c, e)
       \/ Return(c) \/ Fail(c) \/ Abandon(c)

ASpec == AInit /\ [][ANext]_avars
=============================================================================
