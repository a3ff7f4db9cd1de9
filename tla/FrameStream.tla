---------------------------- MODULE FrameStream ----------------------------
(***************************************************************************)
(* The packets of a webtransport session on its one stream                 *)
(* (encoding_webtransport.go and the read loops that use it): each packet  *)
(* is a frame whose header gives the length of its payload.  Header bytes  *)
(* are numbers; a payload is one item that knows its length, so lengths    *)
(* are the real ones.  The stream delivers in order and any prefix at a    *)
(* time, and may end anywhere.                                             *)
(***************************************************************************)
EXTENDS Integers, SequencesExt

CONSTANTS
  Sizes,        \* the lengths of the packets' data
  MaxPayloads,  \* the values of the server's WithMaxPayload
  MaxFrames     \* how many packets are written

ASSUME StreamAssumption == Sizes \subseteq Nat /\ MaxPayloads \subseteq Int /\ MaxFrames \in Nat

VARIABLES
  maxPayload,  \* the server's WithMaxPayload, which never changes
  written,  \* the packets written so far
  wire,     \* what is written and has not arrived
  arrived,  \* what has arrived and has not been read
  ended,    \* has the stream ended, so that nothing more arrives?
  read,     \* the packets the read loop has dispatched
  result    \* "reading", or the reason the read loop ended with

streamVars == <<maxPayload, written, wire, arrived, ended, read, result>>

Header(b) == [header |-> b]
Body(packet, length) == [body |-> packet, length |-> length]
-----------------------------------------------------------------------------
webTransportLen16Marker == 126
webTransportLen64Marker == 127
webTransportBinaryFlag == 128
webTransportReadLimit == 16777216

BigEndian(n, width) == [i \in 1..width |-> Header(IF width - i < 4 THEN (n \div 256^(width - i)) % 256 ELSE 0)]

\* A text payload is the type byte and the data, a binary one the data.
PayloadLen(packet) == IF packet.isBinary THEN packet.size ELSE packet.size + 1

FitsByte_Inclusive(length) == length <= webTransportLen16Marker
FitsByte(length) == length < webTransportLen16Marker

appendWebTransportFrame(dst, packet) ==
  LET length == PayloadLen(packet)
      flag == IF packet.isBinary THEN webTransportBinaryFlag ELSE 0
      header == CASE FitsByte(length) -> <<Header(length + flag)>>
                  [] ~FitsByte(length) /\ length < 65536 ->
                       <<Header(webTransportLen16Marker + flag)>> \o BigEndian(length, 2)
                  [] OTHER -> <<Header(webTransportLen64Marker + flag)>> \o BigEndian(length, 8)
  IN  dst \o header \o (IF length = 0 THEN <<>> ELSE <<Body(packet, length)>>)

\* A byte where the reader looks for one; a payload's bytes taken for a header are zeros.
Octet(item) == IF "header" \in DOMAIN item THEN item.header ELSE 0
Value(items) == FoldLeft(LAMBDA v, item : v * 256 + Octet(item), 0, items)

\* WithMaxPayload(0) does not disable the bound.
webTransportServerReadLimit_Disabled(configured) == configured
webTransportServerReadLimit(configured) ==
  IF configured <= 0 THEN webTransportReadLimit ELSE configured

\* A limit of zero or less is none.
Exceeds_AtLimit(length, limit) == limit > 0 /\ length >= limit
Exceeds(length, limit) == limit > 0 /\ length > limit

\* What reading one frame from r comes to: a packet and how many items it takes, a frame
\* that is too large, a text frame without a type byte (which DecodePacket rejects), or a
\* read that still waits for more of the stream.
readWebTransportPacket(r, limit) ==
  LET Waiting == [is |-> "waiting"]
      isBinary == Octet(r[1]) >= webTransportBinaryFlag
      marker == Octet(r[1]) % webTransportBinaryFlag
      extended == CASE marker < webTransportLen16Marker -> 0
                    [] marker = webTransportLen16Marker -> 2
                    [] OTHER -> 8
      length == IF extended = 0 THEN marker ELSE Value(SubSeq(r, 2, 1 + extended))
      body == 2 + extended
  IN  IF Len(r) < 1 \/ Len(r) < 1 + extended THEN Waiting
        ELSE IF Exceeds(length, limit) THEN [is |-> "too large"]
        ELSE IF length = 0 /\ ~isBinary THEN [is |-> "empty"]
        ELSE IF length = 0
          THEN [is |-> "packet", packet |-> [size |-> 0, isBinary |-> TRUE], items |-> 1 + extended]
        ELSE IF Len(r) < body THEN Waiting
        ELSE [is |-> "packet", items |-> body,
              packet |-> [size |-> IF isBinary THEN length ELSE length - 1, isBinary |-> isBinary]]

isWebTransportParseError(frame) == frame.is \in {"too large", "empty"}
-----------------------------------------------------------------------------
Packets == [size : Sizes, isBinary : BOOLEAN]

StreamInit ==
  /\ maxPayload \in MaxPayloads
  /\ written = <<>> /\ wire = <<>> /\ arrived = <<>> /\ read = <<>>
  /\ ended = FALSE /\ result = "reading"

\* writeFrames: one write of all the frames of a batch.
Write(packets) ==
  /\ ~ended /\ Len(written) + Len(packets) <= MaxFrames
  /\ written' = written \o packets
  /\ wire' = wire \o FoldLeft(appendWebTransportFrame, <<>>, packets)
  /\ UNCHANGED <<maxPayload, arrived, ended, read, result>>

\* The network delivers what comes next, or the stream ends and the rest is lost.
Arrive ==
  /\ ~ended /\ wire # <<>>
  /\ arrived' = Append(arrived, Head(wire)) /\ wire' = Tail(wire)
  /\ UNCHANGED <<maxPayload, written, ended, read, result>>

StreamEnds ==
  /\ ~ended /\ ended' = TRUE
  /\ UNCHANGED <<maxPayload, written, wire, arrived, read, result>>

\* One turn of the server's readLoop, with the session on this transport.
ReadLoop ==
  LET frame == readWebTransportPacket(arrived, webTransportServerReadLimit(maxPayload)) IN
  /\ result = "reading"
  /\ \/ /\ frame.is = "packet"
        /\ read' = Append(read, frame.packet)
        /\ arrived' = SubSeq(arrived, frame.items + 1, Len(arrived))
        /\ UNCHANGED result
     \/ /\ isWebTransportParseError(frame) /\ result' = "parse error"
        /\ UNCHANGED <<read, arrived>>
     \/ /\ frame.is = "waiting" /\ ended /\ result' = "transport close"
        /\ UNCHANGED <<read, arrived>>
  /\ UNCHANGED <<maxPayload, written, wire, ended>>

StreamNext == (\E n \in 1..2 : \E packets \in [1..n -> Packets] : Write(packets)) \/ Arrive \/ StreamEnds \/ ReadLoop

StreamSpec == StreamInit /\ [][StreamNext]_streamVars

\* The read loop is a goroutine of its own and the network keeps delivering; nobody has to
\* write, and the stream need not end.
StreamFairness == WF_streamVars(ReadLoop) /\ WF_streamVars(Arrive)
-----------------------------------------------------------------------------
\* The read loop never loses the frame boundary: what it has dispatched is what was written,
\* in order, whatever the lengths, and however the stream was cut into pieces.
ReadsWhatWasWritten == IsPrefix(read, written)

\* A frame is rejected as a parse error exactly when it is longer than the server's limit:
\* a payload of exactly the limit passes, and no limit at all is never in force.
RejectsOnlyOversize ==
  result = "parse error" =>
    /\ Len(read) < Len(written)
    /\ PayloadLen(written[Len(read) + 1]) > webTransportServerReadLimit(maxPayload)

\* And no packet beyond the limit is ever dispatched, also when WithMaxPayload is zero
\* ("a read can never be left unbounded").
DispatchBounded ==
  \A i \in DOMAIN read :
    PayloadLen(read[i]) <= (IF maxPayload > 0 THEN maxPayload ELSE webTransportReadLimit)

\* The limit of the read loop is exact, on either side (readWebTransportPacket and
\* webTransportServerReadLimit).
LimitExact == RejectsOnlyOversize /\ DispatchBounded

\* Every packet written is dispatched in the end, unless the stream ends or the read loop
\* has rejected a frame: it never waits for bytes that no frame has.
Dispatched == \A n \in 1..MaxFrames : Len(written) >= n ~> (Len(read) >= n \/ ended \/ result = "parse error")
=============================================================================
