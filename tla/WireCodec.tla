----------------------------- MODULE WireCodec ------------------------------
(***************************************************************************)
(* One direction of a Patina connection, byte by byte (codec.rs): a sink   *)
(* that encodes envelopes into frames, a TCP stream that cuts the bytes    *)
(* into arbitrary pieces, and a decoder that reassembles the frames.       *)
(*                                                                         *)
(* WireCodec puts bincode on top of LengthDelimitedCodec; Framed and the   *)
(* length codec are tokio_util's.  Client and Server see the result as a   *)
(* sequence of envelopes with at most one Malformed frame at its end; the  *)
(* properties here say why they may.                                       *)
(***************************************************************************)
EXTENDS Integers, SequencesExt

CONSTANTS
  Base,       \* values of a byte, 256 in the code
  HeaderLen,  \* length_field_length, 4 in the code
  Caps,       \* frame caps a codec may be built with
  Encoding,   \* bincode: the bytes of each envelope
  Raw,        \* what a peer that is not Patina may write
  MaxSent,    \* bound: envelopes sent on the stream
  ReadCap     \* bound: bytes one read returns

Messages == DOMAIN Encoding
Bytes    == 0 .. (Base - 1)

ASSUME HeaderAssumption == HeaderLen \in Nat \ {0} /\ Base \in Nat \ {0, 1}
ASSUME BoundsAssumption == MaxSent \in Nat /\ ReadCap \in Nat \ {0}

(* The powers of the base, the weights of the digits of a length prefix. *)
Pow[k \in 0 .. HeaderLen] == IF k = 0 THEN 1 ELSE Base * Pow[k - 1]

(* The lengths a prefix can hold are below this one, the state in which no *)
(* length is known.                                                        *)
AtHead == Pow[HeaderLen]

ASSUME CapsAssumption == Caps \subseteq 0 .. (AtHead - 1)
ASSUME RawAssumption == Raw \subseteq Seq(Bytes)
(* bincode values are self-delimiting: none is a prefix of another one. *)
ASSUME EncodingAssumption ==
  /\ \A e \in Messages : Encoding[e] \in Seq(Bytes) /\ Len(Encoding[e]) < AtHead
  /\ \A d, e \in Messages : IsPrefix(Encoding[d], Encoding[e]) => d = e

VARIABLES
  cap,     \* with_max_frame_length of either end
  sender,  \* "patina" or "foreign"; "refused", "dropped" or "closed" at the end
  sent,    \* the envelopes encode accepted
  stream,  \* every byte put into the sink's buffer so far
  wbuf,    \* the sink's buffer
  wire,    \* bytes in the network
  rbuf,    \* src, the decoder's buffer
  body,    \* the decoder's state: the length of the body it waits for, or AtHead
  bodies,  \* the frames it has cut out of the stream
  recv     \* where the receiver is

vars == <<cap, sender, sent, stream, wbuf, wire, rbuf, body, bodies, recv>>
sendVars == <<cap, sender, sent, stream, wbuf>>

Ended  == {"refused", "dropped", "closed"}

(* The big-endian length prefix. *)
Header(n) == [i \in 1 .. HeaderLen |-> (n \div Pow[HeaderLen - i]) % Base]

Length(h) == CHOOSE n \in 0 .. (AtHead - 1) : Header(n) = h

Framed(b) == Header(Len(b)) \o b

(* bincode reads one value off the front of a body and ignores what follows. *)
Decodes(b, e) == IsPrefix(Encoding[e], b)

Init ==
  /\ cap \in [send : Caps, recv : Caps]
  /\ \/ sender = "patina" /\ stream = <<>>
     \/ sender = "foreign" /\ stream \in Raw
  /\ wbuf = stream
  /\ sent = <<>>
  /\ wire = <<>>
  /\ rbuf = <<>>
  /\ body = AtHead
  /\ bodies = <<>>
  /\ recv = "decode"

-----------------------------------------------------------------------------
(***************************************************************************)
(* The sink.  The writer loops await each send, so a frame is flushed      *)
(* before the next one is encoded.                                         *)
(***************************************************************************)
(* WireCodec::encode. *)
Encode(e) ==
  /\ sender = "patina"
  /\ wbuf = <<>>
  /\ Len(sent) < MaxSent
  /\ Len(Encoding[e]) <= cap.send
  /\ sent' = Append(sent, e)
  /\ stream' = stream \o Framed(Encoding[e])
  /\ wbuf' = Framed(Encoding[e])
  /\ UNCHANGED <<cap, sender, wire, rbuf, body, bodies, recv>>

(* The encoder refuses a body over the cap before it writes anything; the *)
(* writer loop gives up, and nothing more is sent.                        *)
EncodeRefused(e) ==
  /\ sender = "patina"
  /\ wbuf = <<>>
  /\ Len(Encoding[e]) > cap.send
  /\ sender' = "refused"
  /\ UNCHANGED <<cap, sent, stream, wbuf, wire, rbuf, body, bodies, recv>>

(* poll_flush: the socket takes some of the buffered bytes. *)
Flush ==
  /\ sender \in {"patina", "foreign"}
  /\ \E k \in 1 .. Len(wbuf) :
       /\ wire' = wire \o SubSeq(wbuf, 1, k)
       /\ wbuf' = SubSeq(wbuf, k + 1, Len(wbuf))
  /\ UNCHANGED <<cap, sender, sent, stream, rbuf, body, bodies, recv>>

(* The task that owns the sink ends, in the middle of a send if it is aborted. *)
DropSink ==
  /\ sender \in {"patina", "foreign"}
  /\ sender' = IF wbuf = <<>> THEN "closed" ELSE "dropped"
  /\ UNCHANGED <<cap, sent, stream, wbuf, wire, rbuf, body, bodies, recv>>

-----------------------------------------------------------------------------
(***************************************************************************)
(* The stream.  Framed decodes until the decoder asks for more, and reads  *)
(* only then.                                                              *)
(***************************************************************************)
Starved == Len(rbuf) < (IF body = AtHead THEN HeaderLen ELSE body)

HeadReady == recv = "decode" /\ body = AtHead /\ ~Starved

TakeHead(n) ==
  /\ body' = n
  /\ rbuf' = SubSeq(rbuf, HeaderLen + 1, Len(rbuf))
  /\ UNCHANGED <<sendVars, wire, bodies, recv>>

Fail == recv' = "error" /\ UNCHANGED <<sendVars, wire, rbuf, body, bodies>>

Prefix == Length(SubSeq(rbuf, 1, HeaderLen))

(* Mutant: the length prefix is believed. *)
DecodeHeadUncapped == HeadReady /\ TakeHead(Prefix)

(* Mutant: a frame of exactly the cap is rejected too. *)
DecodeHeadStrict ==
  /\ HeadReady
  /\ IF Prefix < cap.recv THEN TakeHead(Prefix) ELSE Fail

(* decode_head: the prefix is checked against the cap before the body is *)
(* waited for, and consumed.                                             *)
DecodeHead ==
  /\ HeadReady
  /\ IF Prefix <= cap.recv THEN TakeHead(Prefix) ELSE Fail

BodyReady == recv = "decode" /\ body # AtHead /\ ~Starved

(* Cut n bytes off the buffer, decode them and go on in state next. *)
Cut(n, next) ==
  /\ bodies' = Append(bodies, SubSeq(rbuf, 1, n))
  /\ rbuf' = SubSeq(rbuf, n + 1, Len(rbuf))
  /\ body' = AtHead
  /\ recv' = IF \E e \in Messages : Decodes(SubSeq(rbuf, 1, n), e) THEN next ELSE "error"
  /\ UNCHANGED <<sendVars, wire>>

(* Mutant: the whole buffer is taken for the body. *)
DecodeBodyAll == BodyReady /\ Cut(Len(rbuf), "decode")

(* Mutant: after a frame the socket is read, whatever is still buffered. *)
DecodeBodyOne == BodyReady /\ Cut(body, "read")

(* decode_data, then bincode on the frame. *)
DecodeBody == BodyReady /\ Cut(body, "decode")

(* Ok(None). *)
DecodeNone ==
  /\ recv = "decode"
  /\ Starved
  /\ recv' = "read"
  /\ UNCHANGED <<sendVars, wire, rbuf, body, bodies>>

Read ==
  /\ recv = "read"
  /\ \E k \in 1 .. Len(wire) :
       /\ k <= ReadCap
       /\ rbuf' = rbuf \o SubSeq(wire, 1, k)
       /\ wire' = SubSeq(wire, k + 1, Len(wire))
  /\ recv' = "decode"
  /\ UNCHANGED <<sendVars, body, bodies>>

AtEof == recv = "read" /\ wire = <<>> /\ sender \in Ended

(* Mutant: the end of the socket ends the stream, whatever is left over. *)
DecodeEofLenient ==
  /\ AtEof
  /\ recv' = "ended"
  /\ UNCHANGED <<sendVars, wire, rbuf, body, bodies>>

(* decode_eof: bytes that are left over are an error.  A header already *)
(* consumed is not: a stream cut right behind it ends as if complete.   *)
DecodeEof ==
  /\ AtEof
  /\ recv' = IF rbuf = <<>> THEN "ended" ELSE "error"
  /\ UNCHANGED <<sendVars, wire, rbuf, body, bodies>>

Sink == Flush \/ DropSink \/ \E e \in Messages : Encode(e) \/ EncodeRefused(e)

Decoder == DecodeHead \/ DecodeBody \/ DecodeNone \/ Read \/ DecodeEof

Next == Sink \/ Decoder

Spec == Init /\ [][Next]_vars

(* The kernel takes and delivers bytes, and the reading task is polled. *)
FairSpec == Spec /\ WF_vars(Flush) /\ WF_vars(Decoder)

-----------------------------------------------------------------------------
(***************************************************************************)
(* Properties.                                                             *)
(***************************************************************************)
(* The peer uses WireCodec too. *)
Patina == stream # <<>> => sent # <<>>

(* The shape of the state. *)
TypeOK ==
  /\ cap \in [send : Caps, recv : Caps]
  /\ sender \in {"patina", "foreign"} \cup Ended
  /\ sent \in Seq(Messages) /\ Len(sent) <= MaxSent
  /\ {stream, wbuf, wire, rbuf} \subseteq Seq(Bytes)
  /\ body \in 0 .. cap.recv \cup {AtHead}
  /\ bodies \in Seq(Seq(Bytes))
  /\ recv \in {"decode", "read", "ended", "error"}

(* The frames of a sequence of bodies, and the bytes that are on their way: *)
(* the header in hand and the three buffers.                                *)
FramesOf(bs) == FlattenSeq([i \in DOMAIN bs |-> Framed(bs[i])])

Hand == IF body = AtHead THEN <<>> ELSE Header(body)

InFlight == Hand \o (rbuf \o (wire \o wbuf))

(* However the bytes are cut into reads, the frames taken out, the header in *)
(* hand and the bytes on their way are the stream as it was written, so what *)
(* is decoded is a function of the stream alone.                             *)
FramesExact == stream = FramesOf(bodies) \o InFlight

(* The envelopes decoded are those encoded, in order, none lost or merged. *)
InOrder ==
  Patina => /\ Len(bodies) <= Len(sent)
            /\ \A i \in DOMAIN bodies : Decodes(bodies[i], sent[i])

(* A peer cannot make the decoder buffer more than the cap: it reads on only *)
(* while it lacks part of a header or of a body no longer than the cap.      *)
BufferBounded ==
  recv = "read" => Len(rbuf) < HeaderLen \/ Len(rbuf) < cap.recv

(* A Patina peer whose cap is not larger is never rejected, not even for a *)
(* frame of exactly the cap, unless it was dropped in the middle of a send. *)
NoFalseRejection ==
  recv = "error" /\ Patina => sender = "dropped" \/ cap.send > cap.recv

(* The stream ends cleanly only if every envelope sent was decoded, or the   *)
(* sink was dropped before any byte of the last frame's body left it.        *)
CleanEndIsComplete ==
  recv = "ended" /\ Patina =>
    \/ Len(bodies) = Len(sent)
    \/ /\ sender = "dropped"
       /\ Len(bodies) = Len(sent) - 1
       /\ Len(wbuf) \in {Len(Encoding[Last(sent)]), Len(Framed(Encoding[Last(sent)]))}

(* What the sink has written is the frames of the envelopes sent, in order. *)
SentBodies == [i \in DOMAIN sent |-> Encoding[sent[i]]]

StreamIsSent ==
  /\ sender = "patina" \/ sent # <<>> => stream = FramesOf(SentBodies)
  /\ \A i \in DOMAIN sent : Len(Encoding[sent[i]]) <= cap.send

(* The frames cut out are the first of them. *)
BodiesAreSent ==
  Patina => /\ Len(bodies) <= Len(sent)
            /\ \A i \in DOMAIN bodies : bodies[i] = Encoding[sent[i]]

(* A sink holds at most the last frame, and nothing after it was closed. *)
SinkHolds ==
  /\ sender \in {"refused", "closed"} => wbuf = <<>>
  /\ sent # <<>> => Len(wbuf) <= HeaderLen + Len(Encoding[Last(sent)])

(* The socket is read only when the buffer does not do, and the stream ends *)
(* only after the sink.                                                     *)
ReadsWhenStarved ==
  /\ recv = "read" => Starved
  /\ recv = "ended" => sender \in Ended

(* The inductive invariant: what each buffer holds says which envelope comes *)
(* next, and that it is the one after the last one decoded.                  *)
CodecInv ==
  /\ TypeOK
  /\ FramesExact
  /\ StreamIsSent
  /\ BodiesAreSent
  /\ SinkHolds
  /\ ReadsWhenStarved
  /\ NoFalseRejection
  /\ CleanEndIsComplete

(* Every envelope sent is decoded: no frame waits in the buffer for bytes    *)
(* that never come.                                                          *)
Delivered ==
  \A n \in 1 .. MaxSent :
    Len(sent) >= n ~> Len(bodies) >= n \/ recv = "error" \/ sender = "dropped"
=============================================================================
