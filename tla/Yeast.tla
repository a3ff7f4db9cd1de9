-------------------------------- MODULE Yeast --------------------------------
(***************************************************************************)
(* The generator of the cache-busting stamps that every long-poll of a     *)
(* client carries (yeast.go).  next runs under the generator's mutex, so a *)
(* call is one step; the clock it reads is the host's, which may stand     *)
(* still or be set back.                                                   *)
(***************************************************************************)
EXTENDS Integers, Sequences

CONSTANTS
  Clock,     \* the milliseconds that time.Now may return
  Base,      \* the size of the alphabet (64)
  MaxCalls   \* how many stamps are taken

ASSUME YeastAssumption == Clock \subseteq Nat /\ Base \in Nat \ {0, 1} /\ MaxCalls \in Nat

VARIABLES
  seed,            \* g.seed
  previousMillis,  \* g.previousMillis
  stamps           \* the stamps handed out so far

vars == <<seed, previousMillis, stamps>>

\* The sequence number of a stamp that has none, and the character "." of none of the digits.
NoSeq == -1
Dot == Base
-----------------------------------------------------------------------------
\* The digits of a number, most significant first; a digit is a character of the alphabet.
YeastEncode[num \in Nat] ==
  IF num < Base THEN <<num>> ELSE Append(YeastEncode[num \div Base], num % Base)

\* What the query carries: "<time>" or "<time>.<seq>".
EncodedWithoutDot(s) ==
  YeastEncode[s.millis] \o (IF s.seq = NoSeq THEN <<>> ELSE YeastEncode[s.seq])
Encoded(s) ==
  YeastEncode[s.millis] \o (IF s.seq = NoSeq THEN <<>> ELSE <<Dot>> \o YeastEncode[s.seq])

Init == seed = 0 /\ previousMillis = 0 /\ stamps = <<>>

\* The time never goes back behind a stamp that was handed out.
Unclamped(now) == now
Clamped(now) == IF now > previousMillis THEN now ELSE previousMillis

next(now) ==
  LET millis == Clamped(now) IN
  /\ Len(stamps) < MaxCalls
  /\ \/ /\ millis # previousMillis
        /\ previousMillis' = millis /\ seed' = 0
        /\ stamps' = Append(stamps, [millis |-> millis, seq |-> NoSeq])
     \/ /\ millis = previousMillis
        /\ seed' = seed + 1
        /\ stamps' = Append(stamps, [millis |-> millis, seq |-> seed])
        /\ UNCHANGED previousMillis

Next == \E now \in Clock : next(now)

Spec == Init /\ [][Next]_vars
-----------------------------------------------------------------------------
Before(r, s) == r.millis < s.millis \/ (r.millis = s.millis /\ r.seq < s.seq)

\* Every stamp comes after every earlier one, by time and then by sequence number, also when
\* the clock stands still or is set back: no two are ever the same ("guaranteeing every value
\* is globally distinct", yeastGenerator).
Increasing == \A i, j \in DOMAIN stamps : i < j => Before(stamps[i], stamps[j])

\* No two stamps are written alike: a sequence number is never mistaken for a later time.
DistinctOnWire ==
  \A i, j \in DOMAIN stamps : i # j => Encoded(stamps[i]) # Encoded(stamps[j])
=============================================================================
