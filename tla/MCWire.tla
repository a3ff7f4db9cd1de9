------------------------------- MODULE MCWire -------------------------------
(***************************************************************************)
(* What goes over the wire, instantiated for TLC: the stamps of polling    *)
(* requests, the payloads of protocol versions 4 and of 2 and 3, and the   *)
(* frames of webtransport.  They share no state, so a behaviour is one of  *)
(* exactly one part, and the others keep an initial state.                 *)
(***************************************************************************)
EXTENDS Yeast, PayloadExchange, LegacyPayload, FrameStream

\* Texts of up to three bytes, and binary data that take base64 with and without padding;
\* 98 and 48 are the bytes of the binary marker and of the lowest packet type, 10 and 61 a
\* line break and the padding of base64.
PlainDatas == {<<>>, <<98>>, <<48, 255>>, <<10, 98, 61>>}

\* Nothing, a separator, a character of two bytes, a text that reads as a frame, and one
\* whose length has two digits.
TextDatas == {<<>>, <<58>>, <<195, 169>>, <<49, 58, 52>>, [i \in 1..10 |-> 49]}

\* Either side of each change of header, for a text payload (one byte longer) and a
\* binary one, and lengths on either side of the limits, the default one last.
FrameSizes == {0, 124, 125, 126, 127, 65534, 65535, 65536, 16777215, 16777216, 16777217}

VARIABLE part

wireVars == <<part, vars, exchangeVars, legacyVars, streamVars>>

WireInit ==
  /\ part \in {"stamps", "payload", "legacy", "frames"}
  /\ Init /\ ExchangeInit /\ LegacyInit /\ StreamInit
  /\ part # "legacy" => version = 3 /\ framing = "string"
  /\ part # "frames" => maxPayload = 0

WireNext ==
  /\ \/ part = "stamps" /\ Next /\ UNCHANGED <<exchangeVars, legacyVars, streamVars>>
     \/ part = "payload" /\ ExchangeNext /\ UNCHANGED <<vars, legacyVars, streamVars>>
     \/ part = "legacy" /\ LegacyNext /\ UNCHANGED <<vars, exchangeVars, streamVars>>
     \/ part = "frames" /\ StreamNext /\ UNCHANGED <<vars, exchangeVars, legacyVars>>
  /\ UNCHANGED part

WireSpec == WireInit /\ [][WireNext]_wireVars /\ StreamFairness
=============================================================================
