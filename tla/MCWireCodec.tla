---------------------------- MODULE MCWireCodec -----------------------------
(***************************************************************************)
(* Small instances of WireCodec for TLC: bytes of two bits and a prefix of *)
(* two bytes, so that lengths use both of its digits.                      *)
(***************************************************************************)
EXTENDS WireCodec

(* bincode of a Heartbeat, a Response with a byte of payload and a Request: *)
(* discriminant, id, and each byte vector behind its length.                *)
SmallEnvelopes ==
  [heartbeat |-> <<3>>, response |-> <<1, 0, 1, 2>>, request |-> <<0, 1, 1, 2, 0>>]

(* Every stream of a few bytes. *)
SmallStreams == UNION {[1 .. n -> Bytes] : n \in 1 .. 5}
=============================================================================
