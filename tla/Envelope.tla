------------------------------ MODULE Envelope ------------------------------
(***************************************************************************)
(* The wire-level messages of Patina (envelope.rs) and what the two ends   *)
(* of a connection can tell apart about a frame.                           *)
(*                                                                         *)
(* Payloads, methods and error data are opaque to the multiplexer, so they *)
(* are members of small sets.  The one thing the wire layer looks at is    *)
(* the size of an encoded envelope: Oversized holds the payloads and error *)
(* data whose envelope exceeds DEFAULT_MAX_FRAME_LEN (codec.rs).           *)
(***************************************************************************)
EXTENDS Naturals

CONSTANTS
  MaxId,     \* bound: ids handed out on a connection (2^64 in the code)
  Methods,   \* method names
  Payloads,  \* request arguments and results, as byte vectors
  Errors,    \* (code, message) pairs of ErrorData
  Oversized  \* payloads and errors too large for one frame

ASSUME MaxIdAssumption == MaxId \in Nat
ASSUME OversizedAssumption == Oversized \subseteq Payloads \cup Errors

Ids == 0 .. (MaxId - 1)

Request(i, m, p) == [tag |-> "Request", id |-> i, method |-> m, payload |-> p]
Response(i, p)   == [tag |-> "Response", id |-> i, payload |-> p]
ErrorReply(i, e) == [tag |-> "Error", id |-> i, error |-> e]
Heartbeat        == [tag |-> "Heartbeat"]

Requests  == [tag : {"Request"}, id : Ids, method : Methods, payload : Payloads]
Responses == [tag : {"Response"}, id : Ids, payload : Payloads]
Failures  == [tag : {"Error"}, id : Ids, error : Errors]
Replies   == Responses \cup Failures
Envelopes == Requests \cup Replies \cup {Heartbeat}

(***************************************************************************)
(* A frame WireCodec::decode rejects: an oversized length prefix, a body   *)
(* bincode cannot decode, or a frame cut short by the end of the stream.   *)
(***************************************************************************)
Malformed == [tag |-> "Malformed"]

Frames == Envelopes \cup {Malformed}

(***************************************************************************)
(* WireCodec::encode: an envelope larger than the frame cap is refused     *)
(* with WireError::Io and nothing is written.                              *)
(***************************************************************************)
Encodable(e) ==
  CASE e.tag \in {"Request", "Response"} -> e.payload \notin Oversized
    [] e.tag = "Error"                   -> e.error \notin Oversized
    [] OTHER                             -> TRUE

(***************************************************************************)
(* What Client::call returns (PatinaError in error.rs), and the outcome    *)
(* "Cancelled" of a future its caller dropped before it resolved.          *)
(***************************************************************************)
NoResult   == [tag |-> "NoResult"]
Closed     == [tag |-> "Closed"]
Cancelled  == [tag |-> "Cancelled"]
Ok(p)      == [tag |-> "Ok", payload |-> p]
Remote(e)  == [tag |-> "Remote", error |-> e]

Results == {NoResult, Closed, Cancelled}
             \cup {Ok(p) : p \in Payloads} \cup {Remote(e) : e \in Errors}
=============================================================================
