------------------------------ MODULE MCServer ------------------------------
(***************************************************************************)
(* Small instances of Server for TLC.                                      *)
(***************************************************************************)
EXTENDS Server

(***************************************************************************)
(* Requests under any id, also twice under the same one, to a registered   *)
(* and to an unknown method, a frame the codec rejects, and one each of    *)
(* the envelopes the dispatcher ignores.                                   *)
(***************************************************************************)
AnyPeer ==
  {r \in Requests : Encodable(r) /\ (r.method \in Registered \/ r.id = 1)}
    \cup {Heartbeat, Malformed, ErrorReply(0, NotFound)}

(***************************************************************************)
(* For liveness: a peer that asks, under one id, or misbehaves.            *)
(***************************************************************************)
AskingPeer == {r \in Requests : r.id = 0 /\ Encodable(r)} \cup {Malformed}
=============================================================================
