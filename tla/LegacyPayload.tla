--------------------------- MODULE LegacyPayload ---------------------------
(***************************************************************************)
(* The payload framings of protocol versions 2 and 3, which the library    *)
(* decodes and never produces (payload.go), against payloads as a peer of  *)
(* those versions frames them.                                             *)
(***************************************************************************)
EXTENDS Codec

CONSTANTS
  LegacyDatas,  \* the data of the packets, valid UTF-8
  MaxFramed     \* how many packets a payload has

ASSUME LegacyAssumption == MaxFramed \in Nat

VARIABLES
  version,  \* 2, 3, or another that the codec does not know
  framing,  \* "string" or "binary"
  packets,  \* the packets framed so far
  payload   \* and the payload they make

legacyVars == <<version, framing, packets, payload>>

Concat(packet, rest) == IF packet.ok /\ rest.ok THEN Ok(<<packet.value>> \o rest.value) ELSE Error
-----------------------------------------------------------------------------
(* Go's string conversions, for characters of one and two bytes.            *)

Replacement == 65533

\* []rune(string): a byte that starts no character is replaced.
RECURSIVE Runes(_)
Runes(bytes) ==
  IF bytes = <<>> THEN <<>>
    ELSE IF bytes[1] \in 194..223 /\ Len(bytes) > 1 /\ bytes[2] \in 128..191
      THEN <<(bytes[1] - 192) * 64 + bytes[2] - 128>> \o Runes(SubSeq(bytes, 3, Len(bytes)))
      ELSE <<IF bytes[1] < 128 THEN bytes[1] ELSE Replacement>> \o Runes(Tail(bytes))

Utf8(runes) ==
  FlattenSeq([i \in DOMAIN runes |->
    CASE runes[i] < 128         -> <<runes[i]>>
      [] runes[i] \in 128..2047 -> <<192 + (runes[i] \div 64), 128 + (runes[i] % 64)>>
      [] OTHER                  -> <<239, 191, 189>>])

Decimal(digits) == FoldLeft(LAMBDA n, d : n * 10 + d, 0, digits)

\* strconv.Atoi
Atoi(text) ==
  LET signed == text # <<>> /\ text[1] \in {43, 45}
      digits == IF signed THEN Tail(text) ELSE text
      n == Decimal([i \in DOMAIN digits |-> digits[i] - 48])
  IN  IF digits = <<>> \/ ~(ToSet(digits) \subseteq 48..57) THEN Error
        ELSE Ok(IF text[1] = 45 THEN -n ELSE n)
-----------------------------------------------------------------------------
binaryStringMarker == 0
binaryBinaryMarker == 1
binaryLengthTerminator == 255

\* The packet a frame's length takes from what follows it.
FrameBody_Lenient(rest, length) == Ok(SubSeq(rest, 1, IF length > Len(rest) THEN Len(rest) ELSE length))
FrameBody(rest, length) ==
  IF length < 0 \/ length > Len(rest) THEN Error ELSE Ok(SubSeq(rest, 1, length))

decodeStringFramedPacket(packet) ==
  CASE packet = <<>>                    -> Error
    [] packet # <<>> /\ packet[1] # BinaryMarker ->
         Typed(PacketTypeFromByte(packet[1]), Ok(Tail(packet)), FALSE)
    [] packet = <<BinaryMarker>>        -> Error
    [] OTHER -> Typed(PacketTypeFromByte(packet[2]), Base64Decode(SubSeq(packet, 3, Len(packet))), TRUE)

decodeBinaryFramedPacket(marker, body) ==
  IF marker = binaryStringMarker THEN decodeStringFramedPacket(body)
    ELSE IF body = <<>> THEN Error ELSE Typed(body[1], Ok(Tail(body)), TRUE)

\* The length counts what the body is walked in.
Walked_Bytes(input) == input
Walked(input) == Runes(input)

RECURSIVE StringFrames(_)
StringFrames(runes) ==
  LET separator == SelectInSeq(runes, LAMBDA r : r = 58)
      length == Atoi(SubSeq(runes, 1, separator - 1))
      rest == SubSeq(runes, separator + 1, Len(runes))
      body == IF length.ok THEN FrameBody(rest, length.value) ELSE Error
  IN  IF runes = <<>> THEN Ok(<<>>)
        ELSE IF separator = 0 \/ ~body.ok THEN Error
        ELSE Concat(decodeStringFramedPacket(Utf8(body.value)),
                    StringFrames(SubSeq(rest, Len(body.value) + 1, Len(rest))))

decodeStringFramedPayload(input) == StringFrames(Walked(input))

RECURSIVE decodeBinaryFramedPayload(_)
decodeBinaryFramedPayload(input) ==
  LET terminator == SelectInSeq(input, LAMBDA b : b = binaryLengthTerminator)
      digits == SubSeq(input, 2, terminator - 1)
      rest == SubSeq(input, terminator + 1, Len(input))
      body == FrameBody(rest, Decimal(digits))
  IN  IF input = <<>> THEN Ok(<<>>)
        ELSE IF \/ input[1] \notin {binaryStringMarker, binaryBinaryMarker}
                \/ terminator = 0 \/ ~(ToSet(digits) \subseteq 0..9) \/ ~body.ok THEN Error
        ELSE Concat(decodeBinaryFramedPacket(input[1], body.value),
                    decodeBinaryFramedPayload(SubSeq(rest, Len(body.value) + 1, Len(rest))))

\* The first byte selects version 3's framing.
BinaryFramed_AnyVersion(v, input) == input # <<>> /\ input[1] \in {binaryStringMarker, binaryBinaryMarker}
BinaryFramed(v, input) ==
  v = 3 /\ input # <<>> /\ input[1] \in {binaryStringMarker, binaryBinaryMarker}

DecodePayload(v, input) ==
  CASE v = 4 -> decodeRecordSeparatorPayload(input)
    [] v \in {2, 3} -> IF BinaryFramed(v, input) THEN decodeBinaryFramedPayload(input)
                         ELSE decodeStringFramedPayload(input)
    [] OTHER -> Error
-----------------------------------------------------------------------------
(* The peer.                                                                *)

Digits(n) == IF n < 10 THEN <<n>> ELSE <<n \div 10, n % 10>>

\* A length is decimal; a binary packet of the string framing keeps its type digit.
StringFrame(packet) ==
  LET body == IF packet.isBinary
                THEN <<BinaryMarker, Byte(packet.type)>> \o Base64Encode(packet.data)
                ELSE <<Byte(packet.type)>> \o packet.data
      length == Digits(Len(Runes(body)))
  IN  [i \in DOMAIN length |-> length[i] + 48] \o <<58>> \o body

BinaryFrame(packet) ==
  LET type == IF packet.isBinary THEN packet.type ELSE Byte(packet.type) IN
  <<IF packet.isBinary THEN binaryBinaryMarker ELSE binaryStringMarker>>
    \o Digits(Len(packet.data) + 1) \o <<binaryLengthTerminator, type>> \o packet.data

PeerFrame(packet) == IF framing = "binary" THEN BinaryFrame(packet) ELSE StringFrame(packet)

LegacyInit ==
  /\ version \in {2, 3, 5} /\ framing \in {"string", "binary"}
  /\ packets = <<>> /\ payload = <<>>

FramePacket(packet) ==
  /\ Len(packets) < MaxFramed
  /\ packets' = Append(packets, packet)
  /\ payload' = payload \o PeerFrame(packet)
  /\ UNCHANGED <<version, framing>>

LegacyNext == \E data \in LegacyDatas, isBinary \in BOOLEAN : FramePacket(Packet(PacketMessage, data, isBinary))

LegacySpec == LegacyInit /\ [][LegacyNext]_legacyVars
-----------------------------------------------------------------------------
\* The framings the peer's version has.
Known == version = 3 \/ (version = 2 /\ framing = "string")

\* A peer's payload decodes to the packets it framed, whatever separators, markers and
\* characters of several bytes are in their data (decodeStringFramedPayload: "The length
\* counts runes (Unicode code points), not bytes").
LegacyRoundTrips == Known => DecodePayload(version, payload) = Ok(packets)

\* A binary frame is malformed in version 2, and a version the codec does not know decodes
\* to nothing (DecodePayload: "a binary frame marker is malformed").
OtherFramingsRejected ==
  ~Known /\ packets # <<>> => ~DecodePayload(version, payload).ok

\* The payload after n characters, or bytes.
Cut(n) == IF framing = "string" THEN Utf8(SubSeq(Runes(payload), 1, n)) ELSE SubSeq(payload, 1, n)

\* A payload that ends early is malformed or holds fewer packets, never other ones: no
\* frame is made up of less than its length (string frames are cut between characters).
TruncationDetected ==
  Known => \A n \in 0..(IF framing = "string" THEN Len(Runes(payload)) ELSE Len(payload)) :
    LET decoded == DecodePayload(version, Cut(n)) IN
    decoded.ok => IsPrefix(decoded.value, packets)

\* DecodePayload on a peer's payload: the packets framed, none of another version's
\* framing, and never a packet made up of part of one.
LegacyDecodes == LegacyRoundTrips /\ OtherFramingsRejected /\ TruncationDetected
=============================================================================
