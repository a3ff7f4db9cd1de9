-------------------------------- MODULE Codec --------------------------------
(***************************************************************************)
(* The wire forms of packets and payloads (packet.go, encoding.go, and     *)
(* the version 4 framing of payload.go), over sequences of bytes.          *)
(***************************************************************************)
EXTENDS Integers, SequencesExt

\* A decoder returns a value or an error; which error is left out.
Ok(v) == [ok |-> TRUE, value |-> v]
Error == [ok |-> FALSE]

\* The values of all results, or the error of one of them.
All(results) ==
  IF \A i \in DOMAIN results : results[i].ok
    THEN Ok([i \in DOMAIN results |-> results[i].value]) ELSE Error

-----------------------------------------------------------------------------
(* packet.go *)

PacketOpen == 0
PacketMessage == 4
PacketNoop == 6

Packet(type, data, isBinary) == [type |-> type, data |-> data, isBinary |-> isBinary]

\* '0' is 48, and a byte wraps.
Byte(type) == type + 48
PacketTypeFromByte(b) == (b + 208) % 256
valid(type) == type <= PacketNoop
-----------------------------------------------------------------------------
(* encoding/base64, standard alphabet with padding.                         *)

Pad == 61

\* The character of a group of six bits, and back.
Base64Char(d) ==
  CASE d < 26 -> d + 65 [] d \in 26..51 -> d + 71 [] d \in 52..61 -> d - 4
    [] d = 62 -> 43     [] d = 63 -> 47
Base64Digits == [c \in {Base64Char(d) : d \in 0..63} |-> CHOOSE d \in 0..63 : Base64Char(d) = c]

Base64Encode(data) ==
  LET octet(i) == IF i <= Len(data) THEN data[i] ELSE 0
      char(g, r) ==
        LET a == octet(3 * g + 1)  b == octet(3 * g + 2)  c == octet(3 * g + 3) IN
        IF r > 1 /\ 3 * g + r > Len(data) THEN Pad
          ELSE Base64Char(CASE r = 0 -> a \div 4
                            [] r = 1 -> (a % 4) * 16 + b \div 16
                            [] r = 2 -> (b % 16) * 4 + c \div 64
                            [] r = 3 -> c % 64)
  IN  [i \in 1..(4 * ((Len(data) + 2) \div 3)) |-> char((i - 1) \div 4, (i - 1) % 4)]

\* Line breaks are skipped; the digits come in groups of four, padded at the end only.
Base64Decode(text) ==
  LET chars == SelectSeq(text, LAMBDA c : c \notin {10, 13})
      digits == SelectSeq(chars, LAMBDA c : c # Pad)
      pads == Len(chars) - Len(digits)
      bits(i) == Base64Digits[digits[i]]
      octet(i) ==
        LET d == 4 * ((i - 1) \div 3) IN
        CASE i % 3 = 1 -> bits(d + 1) * 4 + bits(d + 2) \div 16
          [] i % 3 = 2 -> (bits(d + 2) % 16) * 16 + bits(d + 3) \div 4
          [] i % 3 = 0 -> (bits(d + 3) % 4) * 64 + bits(d + 4)
  IN  IF /\ Len(chars) % 4 = 0 /\ pads <= 2
         /\ SubSeq(chars, 1, Len(digits)) = digits
         /\ ToSet(digits) \subseteq DOMAIN Base64Digits
        THEN Ok([i \in 1..((Len(chars) \div 4) * 3 - pads) |-> octet(i)]) ELSE Error
-----------------------------------------------------------------------------
(* encoding.go *)

BinaryMarker == 98

EncodePacket(packet) ==
  IF packet.isBinary THEN <<BinaryMarker>> \o Base64Encode(packet.data)
    ELSE <<Byte(packet.type)>> \o packet.data

\* A packet of the type and of the data that follow, the data's own decoding included.
Typed(type, data, isBinary) ==
  IF valid(type) /\ data.ok THEN Ok(Packet(type, data.value, isBinary)) ELSE Error

DecodePacket(input) ==
  IF input = <<>> THEN Error
    ELSE IF input[1] = BinaryMarker
      THEN Typed(PacketMessage, Base64Decode(Tail(input)), TRUE)
      ELSE Typed(PacketTypeFromByte(input[1]), Ok(Tail(input)), FALSE)
-----------------------------------------------------------------------------
(* payload.go: version 4.                                                   *)

Separator == 30

EncodePayload_LateSeparator(packets) ==
  FoldLeftDomain(LAMBDA dst, i :
      dst \o (IF i > 2 THEN <<Separator>> ELSE <<>>) \o EncodePacket(packets[i]), <<>>, packets)
EncodePayload(packets) ==
  FoldLeftDomain(LAMBDA dst, i :
      dst \o (IF i > 1 THEN <<Separator>> ELSE <<>>) \o EncodePacket(packets[i]), <<>>, packets)

\* bytes.Split
Split(input) ==
  FoldLeft(LAMBDA segments, b :
      IF b = Separator THEN Append(segments, <<>>)
        ELSE [segments EXCEPT ![Len(segments)] = Append(@, b)], <<<<>>>>, input)

decodeRecordSeparatorPayload(input) ==
  LET segments == Split(input) IN All([i \in DOMAIN segments |-> DecodePacket(segments[i])])
=============================================================================
