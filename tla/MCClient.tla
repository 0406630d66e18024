------------------------------ MODULE MCClient ------------------------------
(***************************************************************************)
(* Small instances of Client for TLC.                                      *)
(***************************************************************************)
EXTENDS Client, TLC

(***************************************************************************)
(* Any reply that fits in a frame, to any id (pending, cancelled, answered *)
(* or never handed out), a frame the codec rejects, and one each of the    *)
(* two kinds of envelope reader_loop ignores.                              *)
(***************************************************************************)
AnyPeer ==
  {r \in Replies : Encodable(r)} \cup {Heartbeat, Malformed}
    \cup {Request(0, m, p) : m \in Methods, p \in {CHOOSE q \in Payloads : TRUE}}

(***************************************************************************)
(* For liveness: a peer that answers one of the requests, or misbehaves.   *)
(***************************************************************************)
SparsePeer ==
  {r \in Responses : r.id = 0 /\ Encodable(r)} \cup {Malformed}

Symmetry == Permutations(Calls)
=============================================================================
