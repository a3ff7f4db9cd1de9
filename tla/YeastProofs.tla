---------------------------- MODULE YeastProofs ----------------------------
(***************************************************************************)
(* The stamps are increasing for every clock and any number of calls.  The *)
(* invariant says what the generator remembers: no stamp is later than     *)
(* previousMillis, and those of that millisecond are below seed.           *)
(***************************************************************************)
EXTENDS Yeast, TLAPS

Stamp == [millis : Nat, seq : Nat \cup {NoSeq}]

Types == seed \in Nat /\ previousMillis \in Nat /\ stamps \in Seq(Stamp)

\* The next stamp with a sequence number comes after s.
Passed(s) == s.millis < previousMillis \/ (s.millis = previousMillis /\ s.seq < seed)

Remembered == \A i \in DOMAIN stamps : Passed(stamps[i])

IInv == Types /\ Remembered /\ Increasing

\* The first state satisfies the invariant: no stamp has been handed out.
LEMMA InitIInv == Init => IInv
  BY DEF Init, IInv, Types, Remembered, Increasing

\* A stamp that comes after every earlier one keeps the sequence increasing.
LEMMA AppendIncreasing ==
  ASSUME Types, Increasing, NEW s \in Stamp,
         \A i \in DOMAIN stamps : Before(stamps[i], s),
         stamps' = Append(stamps, s)
  PROVE  Increasing'
  <1>1. /\ DOMAIN stamps = 1..Len(stamps) /\ Len(stamps) \in Nat
        /\ DOMAIN stamps' = 1..(Len(stamps) + 1)
        /\ stamps'[Len(stamps) + 1] = s
        /\ \A i \in 1..Len(stamps) : stamps'[i] = stamps[i]
    BY DEF Types
  <1> SUFFICES ASSUME NEW i \in DOMAIN stamps', NEW j \in DOMAIN stamps', i < j
               PROVE  Before(stamps'[i], stamps'[j])
    BY DEF Increasing, Before
  <1>2. CASE j \in DOMAIN stamps
    BY <1>1, <1>2 DEF Increasing
  <1>3. CASE j = Len(stamps) + 1
    BY <1>1, <1>3
  <1> QED BY <1>1, <1>2, <1>3

\* Every call of next preserves the invariant, whether it opens a millisecond or repeats one.
LEMMA NextIInv == IInv /\ [Next]_vars => IInv'
  <1> SUFFICES ASSUME IInv, [Next]_vars PROVE IInv'
    OBVIOUS
  <1> USE YeastAssumption
  <1>1. CASE UNCHANGED vars
    BY <1>1 DEF IInv, Types, Remembered, Passed, Increasing, vars
  <1>2. ASSUME NEW now \in Clock, next(now) PROVE IInv'
    <2> DEFINE millis == Clamped(now)
    <2>0. now \in Nat /\ millis \in Nat /\ millis >= previousMillis
      BY DEF IInv, Types, Clamped
    <2> HIDE DEF millis
    <2>1. PICK s \in Stamp :
            /\ stamps' = Append(stamps, s)
            /\ \A i \in DOMAIN stamps : Before(stamps[i], s)
            /\ s.millis = previousMillis' /\ s.seq < seed'
            /\ previousMillis' \in Nat /\ seed' \in Nat
            /\ previousMillis' > previousMillis \/ (previousMillis' = previousMillis /\ seed' = seed + 1)
      <3>1. CASE millis # previousMillis
        <4>1. /\ previousMillis' = millis /\ seed' = 0
              /\ stamps' = Append(stamps, [millis |-> millis, seq |-> NoSeq])
          BY <1>2, <3>1 DEF next, millis
        <4>2. [millis |-> millis, seq |-> NoSeq] \in Stamp
          BY <2>0 DEF Stamp
        <4>3. ASSUME NEW i \in DOMAIN stamps
              PROVE  Before(stamps[i], [millis |-> millis, seq |-> NoSeq])
          <5>1. stamps[i] \in Stamp /\ Passed(stamps[i])
            BY DEF IInv, Types, Remembered
          <5> QED BY <2>0, <3>1, <5>1 DEF Passed, Before, Stamp, NoSeq, IInv, Types
        <4> QED BY <2>0, <3>1, <4>1, <4>2, <4>3 DEF NoSeq, IInv, Types
      <3>2. CASE millis = previousMillis
        <4>1. /\ previousMillis' = previousMillis /\ seed' = seed + 1
              /\ stamps' = Append(stamps, [millis |-> millis, seq |-> seed])
          BY <1>2, <3>2 DEF next, millis
        <4>2. [millis |-> millis, seq |-> seed] \in Stamp
          BY <2>0 DEF Stamp, IInv, Types
        <4>3. ASSUME NEW i \in DOMAIN stamps
              PROVE  Before(stamps[i], [millis |-> millis, seq |-> seed])
          BY <3>2 DEF IInv, Remembered, Passed, Before
        <4> QED BY <2>0, <3>2, <4>1, <4>2, <4>3 DEF IInv, Types
      <3> QED BY <3>1, <3>2
    <2>2. Types'
      BY <2>1 DEF IInv, Types
    <2>3. Increasing'
      BY <2>1, AppendIncreasing DEF IInv
    <2>4. Remembered'
      <3> SUFFICES ASSUME NEW i \in DOMAIN stamps' PROVE Passed(stamps[i])'
        BY DEF Remembered, Passed
      <3>1. /\ DOMAIN stamps = 1..Len(stamps) /\ Len(stamps) \in Nat
            /\ DOMAIN stamps' = 1..(Len(stamps) + 1)
            /\ stamps'[Len(stamps) + 1] = s
            /\ \A k \in 1..Len(stamps) : stamps'[k] = stamps[k]
        BY <2>1 DEF IInv, Types
      <3>2. CASE i = Len(stamps) + 1
        BY <2>1, <3>1, <3>2 DEF Passed
      <3>3. CASE i \in DOMAIN stamps
        <4>1. stamps'[i] = stamps[i] /\ stamps[i] \in Stamp /\ Passed(stamps[i])
          BY <3>1, <3>3 DEF IInv, Types, Remembered
        <4>2. stamps[i].millis \in Int /\ stamps[i].seq \in Int
          BY <4>1 DEF Stamp, NoSeq
        <4>3. seed \in Int /\ previousMillis \in Int
          BY DEF IInv, Types
        <4> QED BY <2>1, <4>1, <4>2, <4>3 DEF Passed
      <3> QED BY <3>1, <3>2, <3>3
    <2> QED BY <2>2, <2>3, <2>4 DEF IInv
  <1> QED BY <1>1, <1>2 DEF Next

\* The stamps a generator hands out are increasing, so no two long-polls of the process ever
\* carry the same one, whatever the clock does (yeastGenerator.next).
THEOREM IncreasingHolds == Spec => []Increasing
  <1>1. IInv => Increasing
    BY DEF IInv
  <1> QED BY InitIInv, NextIInv, <1>1, PTL DEF Spec
=============================================================================
