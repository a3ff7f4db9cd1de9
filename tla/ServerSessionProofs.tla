------------------------ MODULE ServerSessionProofs ------------------------
(* Safety of ServerSession for every value of its constants, and the        *)
(* refinement of SessionContract.  FlushInv is shown inductive here, from   *)
(* what the kinds of steps and the steps of flush do to it; the other       *)
(* invariants come from the modules extended.                               *)
EXTENDS ServerSessionChannels, ServerSessionEnds
-----------------------------------------------------------------------------
(* Sequences of packets.                                                    *)

\* Queueing a packet adds it behind the others.
LEMMA AppendFacts ==
  ASSUME NEW s \in Seqs, NEW x \in Packets
  PROVE  /\ Len(s) \in Nat /\ Len(Append(s, x)) = Len(s) + 1
         /\ \A i \in 1..Len(s) : Append(s, x)[i] = s[i]
         /\ Append(s, x)[Len(s) + 1] = x
  BY DEF Seqs

\* Handing over packets puts them behind those handed over before.
LEMMA ConcatFacts ==
  ASSUME NEW s \in Seqs, NEW u \in Seqs
  PROVE  /\ Len(s) \in Nat /\ Len(u) \in Nat /\ Len(s \o u) = Len(s) + Len(u)
         /\ \A i \in 1..Len(s) : (s \o u)[i] = s[i]
         /\ \A i \in 1..Len(u) : (s \o u)[Len(s) + i] = u[i]
  BY DEF Seqs

\* The packets a failing write still gets out are the first ones of the batch.
LEMMA PrefixFacts ==
  ASSUME NEW s \in Seqs, NEW n \in 0..Len(s)
  PROVE  /\ SubSeq(s, 1, n) \in Seqs /\ Len(SubSeq(s, 1, n)) = n
         /\ \A i \in 1..n : SubSeq(s, 1, n)[i] = s[i]
  BY DEF Seqs

\* Dropping the sent packets leaves the buffer from the next packet on.
LEMMA SuffixFacts ==
  ASSUME NEW s \in Seqs, NEW n \in 0..Len(s)
  PROVE  /\ SubSeq(s, n + 1, Len(s)) \in Seqs /\ Len(SubSeq(s, n + 1, Len(s))) = Len(s) - n
         /\ \A i \in 1..(Len(s) - n) : SubSeq(s, n + 1, Len(s))[i] = s[n + i]
  BY DEF Seqs

\* Two sequences of the same length and elements are equal.
LEMMA SeqEqual ==
  ASSUME NEW s \in Seqs, NEW u \in Seqs, Len(s) = Len(u), \A i \in 1..Len(s) : s[i] = u[i]
  PROVE  s = u
  BY DEF Seqs

\* The sequence of length 0 is the empty one.
LEMMA SeqEmpty ==
  ASSUME NEW s \in Seqs
  PROVE  Len(s) \in Nat /\ (s = <<>> <=> Len(s) = 0)
  BY DEF Seqs
-----------------------------------------------------------------------------
(* FlushInv is preserved by each kind of step.                              *)

\* A step that flush does not notice preserves FlushInv.
LEMMA QuietKeeps == ASSUME FlushInv, Quiet PROVE FlushInv'
<1>1. MuInv'
  BY Zenon DEF FlushInv, MuInv, Quiet, KeepsFlush, Flushing, Drained
<1>2. OrderInv'
  <2>1. \A t \in Threads :
          /\ Flushing(t)' => pc'[t] = pc[t]
          /\ Handed(t) => Handed(t)'
          /\ Drained(t)' => Drained(t)
          /\ Failing(t) /\ state # "closed" => Failing(t)'
    BY Zenon DEF Quiet, KeepsFlush, Flushing, Handed, Drained, Failing
  <2>2. InOrderOnce' /\ GracefulCloseDelivers'
    BY Zenon, <2>1 DEF FlushInv, OrderInv, Quiet, InOrderOnce, GracefulCloseDelivers, Drained
  <2>3. \A t \in Threads : pc'[t] \in {"send", "write"} => pc[t] \in {"send", "write"}
    BY Zenon, <2>1 DEF Flushing
  <2>4. \A t \in Threads : (Flushing(t)' => Flushing(t)) /\ (Handed(t)' => Handed(t))
    BY Zenon, <2>1 DEF Flushing, Handed
  <2> QED
    BY Zenon, <2>1, <2>2, <2>3, <2>4 DEF FlushInv, OrderInv, Quiet
<1>3. WakeInv'
  <2>1. \A t \in Threads : pc[t] \in {"flush", "send", "deliver", "write", "drop"} => pc'[t] = pc[t]
    BY Zenon DEF Quiet, KeepsFlush
  <2>2. \A t \in Threads : Flushing(t)' => Flushing(t)
    BY Zenon DEF Quiet, KeepsFlush, Flushing
  <2>3. NoLostWakeup'
    <3>1. CASE state' # "closed" /\ FlushPending
      <4>1. FlushPending'
        BY Zenon, <2>1, <3>1 DEF FlushPending, Quiet, KeepsFlush
      <4> QED
        BY Zenon, <4>1 DEF NoLostWakeup
    <3>2. CASE state' # "closed" /\ ~FlushPending
      BY Zenon, <3>2 DEF FlushInv, WakeInv, NoLostWakeup, FlushPending, Quiet
    <3> QED
      BY Zenon, <3>1, <3>2 DEF NoLostWakeup
  <2> QED
    BY <2>1, <2>2, <2>3 DEF FlushInv, WakeInv, Quiet, KeepsFlush
<1> QED
  BY Zenon, <1>1, <1>2, <1>3 DEF FlushInv

\* So does the end of the session.
LEMMA EndsKeeps ==
  ASSUME DataOK, FlushInv, NEW t \in Threads, Ends(t)
  PROVE  FlushInv'
<1>1. /\ \A u \in Threads : pc'[u] = IF u = t THEN "release" ELSE pc[u]
      /\ state' = "closed" /\ writeBuffer' = <<>> /\ pc[t] \in {"idle", "read", "teardown"}
      /\ \A u \in Threads \ {t} : why'[u] = why[u]
      /\ UNCHANGED <<flushMu, batch, target, accepted, handed>>
  BY Zenon, LocalTypes DEF Ends, beginTeardown, Goto
<1>2. MuInv'
  BY ZenonT(60), <1>1 DEF FlushInv, MuInv, Flushing, Drained
<1>3. OrderInv'
  <2>1. InOrderOnce' /\ GracefulCloseDelivers'
    BY Zenon, <1>1 DEF FlushInv, OrderInv, InOrderOnce, GracefulCloseDelivers
  <2>2. Len(writeBuffer') = 0 /\ Len(accepted) \in Nat
    BY Zenon, <1>1, SeqEmpty, SeqTypes DEF DataOK
  <2> QED
    BY <1>1, <2>1, <2>2 DEF FlushInv, OrderInv
<1>4. WakeInv'
  BY Zenon, <1>1 DEF WakeInv, NoLostWakeup
<1> QED
  BY Zenon, <1>2, <1>3, <1>4 DEF FlushInv

\* So does queueing a packet: nobody has completed a graceful close yet.
LEMMA QueuesKeeps ==
  ASSUME DataOK, FlushInv, NEW w \in Workers, NEW x \in Packets, Queues(w, x)
  PROVE  FlushInv'
<1>1. /\ \A u \in Threads : pc'[u] = IF u = w THEN "flush" ELSE pc[u]
      /\ state \in {"opening", "open"} /\ pc[w] \in {"idle", "sendPing"}
      /\ state' = state \/ (state' = "closing" /\ x = "close")
      /\ UNCHANGED <<transport, why, job, flushMu, batch, target, handed>> /\ w \in Threads
  BY ZenonT(60), LocalTypes, ThreadTypes DEF Queues
<1>2. /\ writeBuffer' = Append(writeBuffer, x) /\ accepted' = Append(accepted, x)
      /\ writeBuffer \in Seqs /\ accepted \in Seqs /\ handed \in Seqs /\ batch \in Seqs
      /\ Len(handed) \in Nat /\ Len(batch) \in Nat
  BY Zenon, SeqEmpty DEF Queues, Enqueue, DataOK
<1>3. /\ Len(writeBuffer') = Len(writeBuffer) + 1 /\ Len(accepted') = Len(accepted) + 1
      /\ Len(writeBuffer) \in Nat /\ Len(accepted) \in Nat
      /\ \A i \in 1..Len(writeBuffer) : writeBuffer'[i] = writeBuffer[i]
      /\ \A i \in 1..Len(accepted) : accepted'[i] = accepted[i]
      /\ writeBuffer'[Len(writeBuffer) + 1] = x /\ accepted'[Len(accepted) + 1] = x
  BY ZenonT(60), <1>2, AppendFacts
<1>4. MuInv'
  BY ZenonT(60), <1>1 DEF FlushInv, MuInv, Flushing, Drained
<1>5. OrderInv'
  <2>1. \A t \in Threads : /\ Flushing(t)' <=> Flushing(t)
                           /\ Handed(t)' <=> Handed(t)
                           /\ Failing(t)' <=> Failing(t)
                           /\ pc'[t] \in {"send", "write"} <=> pc[t] \in {"send", "write"}
    BY Zenon, <1>1 DEF Flushing, Handed, Failing
  <2>2. GracefulCloseDelivers'
    <3>1. \A t \in Threads : ~Drained(t)'
      BY Zenon, <1>1 DEF FlushInv, MuInv, Drained
    <3> QED
      BY Zenon, <3>1 DEF GracefulCloseDelivers, Drained
  <2>3. InOrderOnce'
    <3>1. handed' = handed /\ Len(handed) \in Nat
      BY Zenon, <1>1, <1>2
    <3> QED
      BY <1>3, <3>1 DEF FlushInv, OrderInv, InOrderOnce
  <2>4. Len(writeBuffer') <= Len(accepted')
    BY <1>3 DEF FlushInv, OrderInv
  <2>5. ASSUME NEW i \in 1..Len(writeBuffer')
        PROVE  writeBuffer'[i] = accepted'[Len(accepted') - Len(writeBuffer') + i]
    <3>1. Len(accepted') - Len(writeBuffer') + i = Len(accepted) - Len(writeBuffer) + i
      BY <1>3
    <3>2. CASE i = Len(writeBuffer) + 1
      BY <1>3, <3>1, <3>2
    <3>3. CASE i \in 1..Len(writeBuffer)
      <4>1. Len(accepted) - Len(writeBuffer) + i \in 1..Len(accepted)
        BY <1>3, <3>3 DEF FlushInv, OrderInv
      <4>2. writeBuffer[i] = accepted[Len(accepted) - Len(writeBuffer) + i]
        BY ZenonT(60), <3>3 DEF FlushInv, OrderInv
      <4> QED
        BY ZenonT(60), <1>3, <3>1, <3>3, <4>1, <4>2
    <3> QED
      BY <1>3, <3>2, <3>3
  <2>6. \A t \in Threads : pc'[t] \in {"send", "write"} =>
          /\ Len(handed') + Len(batch') <= Len(accepted')
          /\ \A i \in 1..Len(batch') : batch'[i] = accepted'[Len(handed') + i]
    BY SMTT(30), <1>1, <1>2, <1>3, <2>1 DEF FlushInv, OrderInv
  <2>7. /\ \A t \in Threads : Flushing(t)' => Len(batch') <= Len(writeBuffer')
        /\ \A t \in Threads : Handed(t)' =>
             Len(handed') + Len(writeBuffer') = Len(accepted') + Len(batch')
        /\ \/ \E t \in Threads : Handed(t)' \/ Failing(t)'
           \/ Len(handed') + Len(writeBuffer') = Len(accepted')
    BY SMTT(30), <1>1, <1>2, <1>3, <2>1 DEF FlushInv, OrderInv
  <2>8. state' = "closing" => accepted' # <<>> /\ accepted'[Len(accepted')] = "close"
    <3>1. accepted' \in Seqs
      BY Zenon, <1>2, SeqTypes
    <3> QED
      BY <1>1, <1>3, <3>1, SeqEmpty
  <2> QED
    BY Zenon, <1>1, <2>2, <2>3, <2>4, <2>5, <2>6, <2>7, <2>8 DEF OrderInv
<1>6. WakeInv'
  BY Zenon, <1>1 DEF FlushInv, WakeInv, NoLostWakeup, FlushPending, Flushing
<1> QED
  BY Zenon, <1>4, <1>5, <1>6 DEF FlushInv

\* So does the switch to the upgraded connection: its read loop is going to flush.
LEMMA UpgradeKeeps ==
  ASSUME DataOK, FlushInv, NEW c \in Conns, ReadUpgrade(c)
  PROVE  FlushInv'
<1>1. /\ \A u \in Threads : pc'[u] = IF u = c THEN "release" ELSE pc[u]
      /\ job'[c] = "complete" /\ transport' = c /\ pc[c] = "read" /\ c \in Threads
      /\ \A u \in Threads \ {c} : job'[u] = job[u]
      /\ UNCHANGED <<state, writeBuffer, why, flushMu, batch, target, accepted, handed>>
  BY Zenon, LocalTypes, ThreadTypes DEF ReadUpgrade, Call, flight, outHist
<1>2. MuInv'
  BY Zenon, <1>1 DEF FlushInv, MuInv, Flushing, Drained
<1>3. OrderInv'
  <2>1. \A t \in Threads : /\ Flushing(t)' <=> Flushing(t)
                           /\ Handed(t)' <=> Handed(t)
                           /\ Failing(t)' <=> Failing(t)
                           /\ Drained(t)' <=> Drained(t)
                           /\ pc'[t] \in {"send", "write"} <=> pc[t] \in {"send", "write"}
    BY Zenon, <1>1 DEF Flushing, Handed, Failing, Drained
  <2>2. InOrderOnce' /\ GracefulCloseDelivers'
    BY Zenon, <1>1, <2>1 DEF FlushInv, OrderInv, InOrderOnce, GracefulCloseDelivers, Drained
  <2> QED
    BY Zenon, <1>1, <2>1, <2>2 DEF FlushInv, OrderInv
<1>4. WakeInv'
  <2>1. c # Nil
    BY Zenon, Disjoint
  <2>2. FlushPending'
    BY Zenon, <1>1 DEF FlushPending
  <2>3. \A t \in Threads : Flushing(t)' => t # c
    BY Zenon, <1>1 DEF Flushing
  <2> QED
    BY Zenon, <1>1, <2>1, <2>2, <2>3 DEF WakeInv, NoLostWakeup
<1> QED
  BY Zenon, <1>2, <1>3, <1>4 DEF FlushInv

-----------------------------------------------------------------------------
(* flush itself.                                                            *)

\* While t holds flushMu, or takes it, no other goroutine is in a round of flush or closes the
\* session from inside flush.
LEMMA FlushAlone ==
  ASSUME MuInv, NEW t \in Threads, Flushing(t) \/ (pc[t] = "flush" /\ FlushFree(t))
  PROVE  /\ flushMu \in {Nil, t}
         /\ \A u \in Threads \ {t} : ~Flushing(u) /\ ~Drained(u) /\ ~Failing(u) /\ flushMu # u
  BY Zenon, LocalTypes, Disjoint DEF MuInv, FlushFree, Failing

\* The lengths that OrderInv compares are numbers.
LEMMA Lengths ==
  ASSUME DataOK
  PROVE  /\ Len(writeBuffer) \in Nat /\ Len(batch) \in Nat
         /\ Len(accepted) \in Nat /\ Len(handed) \in Nat
  BY Zenon, SeqEmpty DEF DataOK

\* flush returns without having sent anything, and nothing that could go out is left behind.
LEMMA RoundEnds ==
  ASSUME DataOK, EndInv, FlushInv, NEW t \in Threads, pc[t] \in {"flush", "send"}, FlushFree(t),
         Return(t), UNCHANGED <<state, transport, writeBuffer, accepted, handed, why, job>>,
         NoLostWakeup'
  PROVE  FlushInv'
<1>1. /\ \A u \in Threads : pc'[u] = IF u = t THEN ret[t] ELSE pc[u]
      /\ ret[t] \in {"idle", "arm", "select", "done", "read"}
      /\ flushMu' = IF flushMu = t THEN Nil ELSE flushMu
  BY Zenon, LocalTypes DEF Return, Call, EndInv
<1>2. /\ flushMu \in {Nil, t}
      /\ \A u \in Threads \ {t} : ~Flushing(u) /\ ~Drained(u) /\ ~Failing(u)
  BY Zenon, FlushAlone DEF FlushInv, Flushing
<1>3. \A u \in Threads : ~Flushing(u)' /\ ~Drained(u)' /\ ~Handed(u)' /\ flushMu' # u
  BY Zenon, <1>1, <1>2, Disjoint DEF Flushing, Drained, Handed
<1>4. \A u \in Threads : ~Handed(u) /\ ~Failing(u) /\ pc'[u] \notin {"send", "write"}
  BY Zenon, <1>1, <1>2 DEF Flushing, Handed, Failing
<1>5. MuInv'
  BY Zenon, <1>3 DEF MuInv
<1>6. OrderInv'
  <2>1. InOrderOnce'
    BY Zenon DEF FlushInv, OrderInv, InOrderOnce
  <2>2. GracefulCloseDelivers'
    BY Zenon, <1>3 DEF GracefulCloseDelivers, Drained
  <2> QED
    BY Zenon, <1>3, <1>4, <2>1, <2>2 DEF FlushInv, OrderInv
<1>7. WakeInv'
  BY Zenon, <1>3 DEF FlushInv, WakeInv
<1> QED
  BY Zenon, <1>5, <1>6, <1>7 DEF FlushInv

\* A round goes on to its next step, and hands nothing over in this one.
LEMMA RoundGoesOn ==
  ASSUME DataOK, FlushInv, NEW t \in Threads, NEW label,
         \/ pc[t] = "send" /\ label = "write"
         \/ pc[t] = "deliver" /\ label = "drop",
         Goto(t, label),
         UNCHANGED <<state, transport, writeBuffer, accepted, handed, batch, target, flushMu,
                     why, job, dataCh, closed>>
  PROVE  FlushInv'
<1>1. \A u \in Threads : pc'[u] = IF u = t THEN label ELSE pc[u]
  BY Zenon, LocalTypes DEF Goto
<1>2. \A u \in Threads : /\ Flushing(u)' <=> Flushing(u)
                         /\ Handed(u)' <=> Handed(u)
                         /\ Failing(u)' <=> Failing(u)
                         /\ Drained(u)' <=> Drained(u)
                         /\ pc'[u] \in {"send", "write"} <=> pc[u] \in {"send", "write"}
                         /\ pc'[u] = "flush" <=> pc[u] = "flush"
                         /\ pc'[u] = "teardown" <=> pc[u] = "teardown"
  BY Zenon, <1>1 DEF Flushing, Handed, Failing, Drained
<1>3. MuInv'
  <2>1. \A u \in Threads : flushMu = u =>
          pc'[u] \in {"flush", "send", "deliver", "write", "drop", "teardown", "release",
                      "closeDeliver", "notify"}
    BY Zenon, <1>1 DEF FlushInv, MuInv
  <2> QED
    BY Zenon, <1>2, <2>1 DEF FlushInv, MuInv
<1>4. OrderInv'
  <2>1. InOrderOnce' /\ GracefulCloseDelivers'
    BY Zenon, <1>2 DEF FlushInv, OrderInv, InOrderOnce, GracefulCloseDelivers, Drained
  <2> QED
    BY Zenon, <1>2, <2>1 DEF FlushInv, OrderInv
<1>5. WakeInv'
  <2>1. FlushPending' <=> FlushPending
    BY Zenon, <1>2 DEF FlushPending, Flushing
  <2> QED
    BY Zenon, <1>2, <2>1 DEF FlushInv, WakeInv, NoLostWakeup
<1> QED
  BY Zenon, <1>3, <1>4, <1>5 DEF FlushInv

\* A round hands its batch over: it continues what has been handed over so far.
LEMMA RoundHandsOver ==
  ASSUME DataOK, FlushInv, NEW t \in Threads, NEW label \in {"deliver", "drop"},
         pc[t] \in {"send", "write"}, Goto(t, label), handed' = handed \o batch,
         UNCHANGED <<state, transport, writeBuffer, accepted, batch, target, flushMu, why, job,
                     closed>>
  PROVE  FlushInv'
<1>1. \A u \in Threads : pc'[u] = IF u = t THEN label ELSE pc[u]
  BY Zenon, LocalTypes DEF Goto
<1>2. \A u \in Threads \ {t} : ~Flushing(u) /\ ~Drained(u) /\ ~Failing(u)
  BY Zenon, FlushAlone DEF FlushInv, Flushing
<1>3. /\ Len(handed') = Len(handed) + Len(batch)
      /\ \A i \in 1..Len(handed) : handed'[i] = handed[i]
      /\ \A i \in 1..Len(batch) : handed'[Len(handed) + i] = batch[i]
  BY Zenon, ConcatFacts DEF DataOK
<1>4. MuInv'
  BY Zenon, <1>1 DEF FlushInv, MuInv, Flushing, Drained
<1>5. OrderInv'
  <2>1. /\ Len(handed) + Len(batch) <= Len(accepted)
        /\ \A i \in 1..Len(batch) : batch[i] = accepted[Len(handed) + i]
        /\ \A i \in 1..Len(handed) : handed[i] = accepted[i]
    BY Zenon DEF FlushInv, OrderInv, InOrderOnce
  <2>2. InOrderOnce'
    <3>1. ASSUME NEW i \in 1..Len(handed') PROVE handed'[i] = accepted[i]
      <4>1. CASE i \in 1..Len(handed)
        BY Zenon, <1>3, <2>1, <4>1
      <4>2. CASE i \notin 1..Len(handed)
        <5>1. i - Len(handed) \in 1..Len(batch) /\ Len(handed) + (i - Len(handed)) = i
          BY <1>3, <4>2, Lengths
        <5> QED
          BY <1>3, <2>1, <5>1
      <4> QED
        BY ZenonT(60), <4>1, <4>2
    <3> QED
      BY Zenon, <1>3, <2>1, <3>1 DEF InOrderOnce
  <2>3. /\ \A u \in Threads : ~Drained(u)' /\ ~(pc'[u] \in {"send", "write"})
        /\ Handed(t)'
        /\ \A u \in Threads : Flushing(u)' => Flushing(u)
    BY Zenon, <1>1, <1>2 DEF Flushing, Drained, Handed
  <2>4. \A u \in Threads : ~Handed(u) /\ ~Failing(u)
    BY Zenon, <1>2 DEF Flushing, Handed, Failing
  <2>5. state # "closed" => Len(handed) + Len(writeBuffer) = Len(accepted)
    BY Zenon, <2>4 DEF FlushInv, OrderInv
  <2>6. state # "closed" => Len(handed') + Len(writeBuffer) = Len(accepted) + Len(batch)
    BY SMTT(60), <1>3, <2>5, Lengths
  <2>7. GracefulCloseDelivers'
    BY Zenon, <2>3 DEF GracefulCloseDelivers, Drained
  <2> QED
    BY Zenon, <2>2, <2>3, <2>6, <2>7 DEF FlushInv, OrderInv
<1>6. WakeInv'
  <2>1. FlushPending'
    BY Zenon, <1>1 DEF FlushPending
  <2>2. \A u \in Threads : /\ Flushing(u)' => Flushing(u)
                           /\ pc[u] = "flush" => pc'[u] = "flush"
    BY Zenon, <1>1 DEF Flushing
  <2> QED
    BY Zenon, <2>1, <2>2 DEF FlushInv, WakeInv, NoLostWakeup
<1> QED
  BY Zenon, <1>4, <1>5, <1>6 DEF FlushInv

\* FlushInv is preserved when flush takes the mutex and clones the buffer, or finds nothing.
LEMMA FlushCloneKeeps ==
  ASSUME DataOK, EndInv, FlushInv, NEW t \in Threads, FlushClone(t)
  PROVE  FlushInv'
<1>1. /\ pc[t] = "flush" /\ FlushFree(t)
      /\ UNCHANGED <<state, transport, writeBuffer, accepted, handed, why, job>>
  BY Zenon DEF FlushClone, session, outHist
<1>2. CASE state = "closed" \/ transport = Nil \/ writeBuffer = <<>>
  <2>1. NoLostWakeup'
    BY Zenon, <1>1, <1>2 DEF FlushInv, WakeInv, NoLostWakeup
  <2>2. Return(t)
    BY Zenon, <1>2 DEF FlushClone
  <2> QED
    BY Zenon, <1>1, <2>1, <2>2, RoundEnds
<1>3. CASE ~(state = "closed" \/ transport = Nil \/ writeBuffer = <<>>)
  <2>1. /\ \A u \in Threads : pc'[u] = IF u = t THEN "send" ELSE pc[u]
        /\ flushMu' = t /\ batch' = writeBuffer /\ target' = transport
    BY Zenon, <1>3, LocalTypes DEF FlushClone, Goto
  <2>2. \A u \in Threads \ {t} : ~Flushing(u) /\ ~Drained(u) /\ ~Failing(u)
    BY Zenon, <1>1, FlushAlone DEF FlushInv
  <2>3. \A u \in Threads : ~Handed(u)' /\ ~Drained(u)' /\ (Flushing(u)' => u = t)
    BY ZenonT(60), <2>1, <2>2, <1>1 DEF Flushing, Drained, Handed
  <2>4. MuInv'
    BY Zenon, <1>3, <2>1, <2>3 DEF MuInv
  <2>5. OrderInv'
    <3>1. \A u \in Threads : ~Handed(u) /\ ~Failing(u)
      BY Zenon, <1>1, <2>2 DEF Flushing, Handed, Failing
    <3>2. Len(handed) + Len(writeBuffer) = Len(accepted)
      BY Zenon, <1>3, <3>1 DEF FlushInv, OrderInv
    <3>3. \A i \in 1..Len(writeBuffer) : writeBuffer[i] = accepted[Len(handed) + i]
      <4>1. Len(accepted) - Len(writeBuffer) = Len(handed)
        BY <3>2, Lengths
      <4> QED
        BY Zenon, <4>1 DEF FlushInv, OrderInv
    <3>4. InOrderOnce' /\ GracefulCloseDelivers'
      BY Zenon, <1>1, <2>3 DEF FlushInv, OrderInv, InOrderOnce, GracefulCloseDelivers, Drained
    <3>5. Len(writeBuffer) <= Len(writeBuffer) /\ Len(handed) + Len(writeBuffer) <= Len(accepted)
      BY SMTT(60), <3>2, Lengths
    <3> QED
      BY ZenonT(60), <1>1, <2>1, <2>3, <3>2, <3>3, <3>4, <3>5 DEF FlushInv, OrderInv
  <2>6. WakeInv'
    <3>1. FlushPending'
      BY Zenon, <2>1 DEF FlushPending
    <3> QED
      BY Zenon, <1>1, <2>1, <2>3, <3>1 DEF FlushInv, WakeInv, NoLostWakeup
  <2> QED
    BY Zenon, <2>4, <2>5, <2>6 DEF FlushInv
<1> QED
  BY Zenon, <1>2, <1>3

\* A round that found its transport unable to take packets leaves nothing behind that could go
\* out: that transport is still the session's, or the upgrade's own flush is pending.
LEMMA NotSentWakes ==
  ASSUME FlushInv, NEW t \in Threads, pc[t] = "send",
         \A u \in Threads \ {t} : pc'[u] = pc[u],
         UNCHANGED <<state, transport, writeBuffer, job, dataCh, closed>>,
         IF target = Polling THEN dataCh = Nil ELSE target \in closed
  PROVE  NoLostWakeup'
<1>1. CASE target = transport
  BY Zenon, <1>1 DEF NoLostWakeup
<1>2. CASE target # transport /\ state # "closed"
  <2>1. PICK u \in Threads \ {t} : pc[u] = "flush" \/ job[u] = "complete"
    BY Zenon, <1>2 DEF FlushInv, WakeInv, Flushing
  <2>2. FlushPending'
    BY Zenon, <2>1 DEF FlushPending
  <2> QED
    BY Zenon, <2>2 DEF NoLostWakeup
<1> QED
  BY Zenon, <1>1, <1>2 DEF NoLostWakeup

\* FlushInv is preserved when the polling transport takes the batch for the held poll, or none
\* is held.
LEMMA SendPollKeeps ==
  ASSUME DataOK, EndInv, PollInv, FlushInv, NEW t \in Threads, SendPoll(t)
  PROVE  FlushInv'
<1>1. /\ pc[t] = "send" /\ target = Polling
      /\ UNCHANGED <<state, transport, writeBuffer, accepted, why, job, closed>>
  BY Zenon DEF SendPoll, session
<1>2. FlushFree(t)
  BY Zenon, <1>1 DEF FlushInv, MuInv, Flushing, FlushFree
<1>3. CASE Polling \in closed \/ dataCh = Nil
  <2>1. dataCh = Nil /\ Return(t) /\ UNCHANGED <<dataCh, handed>>
    BY Zenon, <1>3 DEF SendPoll, NotSent, PollInv
  <2>2. \A u \in Threads \ {t} : pc'[u] = pc[u]
    BY Zenon, <2>1, LocalTypes DEF Return, Call
  <2>3. NoLostWakeup'
    BY ZenonT(60), <1>1, <2>1, <2>2, NotSentWakes
  <2> QED
    BY Zenon, <1>1, <1>2, <2>1, <2>3, RoundEnds
<1>4. CASE ~(Polling \in closed \/ dataCh = Nil)
  <2>1. Goto(t, "deliver") /\ handed' = handed \o batch /\ UNCHANGED <<flushMu, batch, target>>
    BY Zenon, <1>4 DEF SendPoll, flight
  <2> QED
    BY Zenon, <1>1, <2>1, RoundHandsOver
<1> QED
  BY Zenon, <1>3, <1>4

\* FlushInv is preserved when the batch is put into the poll's channel.
LEMMA DeliverKeeps ==
  ASSUME DataOK, FlushInv, NEW t \in Threads, Deliver(t)
  PROVE  FlushInv'
  BY Zenon, RoundGoesOn DEF Deliver, session, flight, outHist

\* FlushInv is preserved when the connection's t.closed is looked at.
LEMMA SendConnKeeps ==
  ASSUME DataOK, EndInv, FlushInv, NEW t \in Threads, SendConn(t)
  PROVE  FlushInv'
<1>1. /\ pc[t] = "send" /\ target # Polling
      /\ UNCHANGED <<state, transport, writeBuffer, accepted, handed, why, job, dataCh, closed>>
  BY Zenon DEF SendConn, session, outHist, polling
<1>2. FlushFree(t)
  BY Zenon, <1>1 DEF FlushInv, MuInv, Flushing, FlushFree
<1>3. CASE target \in closed
  <2>1. Return(t)
    BY Zenon, <1>3 DEF SendConn, NotSent
  <2>2. \A u \in Threads \ {t} : pc'[u] = pc[u]
    BY Zenon, <2>1, LocalTypes DEF Return, Call
  <2>3. NoLostWakeup'
    BY ZenonT(60), <1>1, <1>3, <2>2, NotSentWakes
  <2> QED
    BY Zenon, <1>1, <1>2, <2>1, <2>3, RoundEnds
<1>4. CASE target \notin closed
  <2>1. Goto(t, "write") /\ UNCHANGED <<flushMu, batch, target>>
    BY Zenon, <1>4 DEF SendConn, flight
  <2> QED
    BY Zenon, <1>1, <2>1, RoundGoesOn
<1> QED
  BY Zenon, <1>3, <1>4

\* FlushInv is preserved when the whole batch is written.
LEMMA WriteConnKeeps ==
  ASSUME DataOK, FlushInv, NEW t \in Threads, WriteConn(t)
  PROVE  FlushInv'
<1>1. /\ pc[t] = "write" /\ Goto(t, "drop") /\ handed' = handed \o batch
      /\ UNCHANGED <<state, transport, writeBuffer, accepted, batch, target, flushMu, why, job,
                     closed>>
  BY Zenon DEF WriteConn, session, flight, locals
<1> QED
  BY Zenon, <1>1, RoundHandsOver

\* FlushInv is preserved when the write fails after n frames: flushMu is kept until the session
\* is closed, so no other round sends the rest again.
LEMMA WriteFailKeeps ==
  ASSUME DataOK, FlushInv, NEW t \in Threads, NEW n \in 0..Len(batch), WriteFail(t, n)
  PROVE  FlushInv'
<1>1. /\ \A u \in Threads : pc'[u] = IF u = t THEN "teardown" ELSE pc[u]
      /\ \A u \in Threads : why'[u] = IF u = t THEN "transport_error" ELSE why[u]
      /\ pc[t] = "write" /\ handed' = handed \o SubSeq(batch, 1, n)
      /\ UNCHANGED <<state, transport, writeBuffer, accepted, flushMu, job, dataCh, closed>>
  BY Zenon, LocalTypes DEF WriteFail, CallClose, Call, session, polling
<1>2. /\ flushMu = t
      /\ \A u \in Threads \ {t} : ~Flushing(u) /\ ~Drained(u) /\ ~Failing(u)
  BY Zenon, <1>1, FlushAlone DEF FlushInv, MuInv, Flushing
<1>3. /\ Len(handed') = Len(handed) + n
      /\ \A i \in 1..Len(handed) : handed'[i] = handed[i]
      /\ \A i \in 1..n : handed'[Len(handed) + i] = batch[i]
  <2>1. /\ SubSeq(batch, 1, n) \in Seqs /\ Len(SubSeq(batch, 1, n)) = n
        /\ \A i \in 1..n : SubSeq(batch, 1, n)[i] = batch[i]
    BY ZenonT(60), PrefixFacts DEF DataOK
  <2>2. handed \in Seqs
    BY Zenon DEF DataOK
  <2> QED
    BY SMTT(60), <1>1, <2>1, <2>2, ConcatFacts
<1>4. /\ \A u \in Threads : ~Flushing(u)' /\ ~Drained(u)' /\ ~Handed(u)'
      /\ Failing(t)'
  BY Zenon, <1>1, <1>2 DEF Flushing, Drained, Handed, Failing
<1>5. MuInv'
  BY ZenonT(60), <1>1, <1>2, <1>4 DEF MuInv
<1>6. OrderInv'
  <2>1. /\ Len(handed) + Len(batch) <= Len(accepted)
        /\ \A i \in 1..Len(batch) : batch[i] = accepted[Len(handed) + i]
        /\ \A i \in 1..Len(handed) : handed[i] = accepted[i]
    BY Zenon, <1>1 DEF FlushInv, OrderInv, InOrderOnce
  <2>2. InOrderOnce'
    <3>1. ASSUME NEW i \in 1..Len(handed') PROVE handed'[i] = accepted[i]
      <4>1. CASE i \in 1..Len(handed)
        BY Zenon, <1>3, <2>1, <4>1
      <4>2. CASE i \notin 1..Len(handed)
        <5>1. i - Len(handed) \in 1..n /\ Len(handed) + (i - Len(handed)) = i /\ n <= Len(batch)
          BY <1>3, <4>2, Lengths
        <5>2. i - Len(handed) \in 1..Len(batch)
          BY <5>1, Lengths
        <5> QED
          BY Zenon, <1>3, <2>1, <5>1, <5>2
      <4> QED
        BY ZenonT(60), <4>1, <4>2
    <3>2. Len(handed') <= Len(accepted)
      BY <1>3, <2>1, Lengths
    <3> QED
      BY Zenon, <1>1, <3>1, <3>2 DEF InOrderOnce
  <2>3. GracefulCloseDelivers'
    BY Zenon, <1>4 DEF GracefulCloseDelivers, Drained
  <2>4. \A u \in Threads : pc'[u] \notin {"send", "write"}
    BY Zenon, <1>4 DEF Flushing
  <2> QED
    BY Zenon, <1>1, <1>4, <2>2, <2>3, <2>4 DEF FlushInv, OrderInv
<1>7. WakeInv'
  <2>1. FlushPending'
    BY Zenon, <1>1 DEF FlushPending
  <2> QED
    BY ZenonT(60), <1>1, <1>4, <2>1 DEF FlushInv, WakeInv, NoLostWakeup
<1> QED
  BY Zenon, <1>5, <1>6, <1>7 DEF FlushInv

\* FlushInv is preserved when the batch is dropped from the buffer.
LEMMA DropSentKeeps ==
  ASSUME DataOK, EndInv, FlushInv, NEW t \in Threads, DropSent(t)
  PROVE  FlushInv'
<1> DEFINE rest == IF Len(batch) <= Len(writeBuffer)
                     THEN SubSeq(writeBuffer, Len(batch) + 1, Len(writeBuffer))
                     ELSE <<>>
           drained == rest = <<>> /\ state = "closing"
           again == rest # <<>> /\ state # "closed"
           next == IF drained THEN "teardown" ELSE IF again THEN "flush" ELSE ret[t]
<1>1. /\ pc[t] = "drop" /\ writeBuffer' = rest
      /\ UNCHANGED <<state, transport, accepted, handed, job, dataCh, closed>>
  BY Zenon DEF DropSent, session, polling, outHist
<1>2. /\ \A u \in Threads : pc'[u] = IF u = t THEN next ELSE pc[u]
      /\ \A u \in Threads : why'[u] = IF u = t /\ drained THEN "drained" ELSE why[u]
      /\ flushMu' = IF ~drained /\ ~again /\ flushMu = t THEN Nil ELSE flushMu
      /\ ret[t] \in {"idle", "arm", "select", "done", "read"}
  <2>1. CASE drained
    BY ZenonT(60), <2>1, LocalTypes DEF DropSent, CallClose, Call, EndInv
  <2>2. CASE ~drained /\ again
    BY Zenon, <2>2, LocalTypes DEF DropSent, Goto, EndInv
  <2>3. CASE ~drained /\ ~again
    BY ZenonT(60), <2>3, LocalTypes DEF DropSent, Return, Call, EndInv
  <2> QED
    BY Zenon, <2>1, <2>2, <2>3
<1>3. /\ flushMu = t
      /\ \A u \in Threads \ {t} : ~Flushing(u) /\ ~Drained(u) /\ ~Failing(u) /\ flushMu # u
  BY Zenon, <1>1, FlushAlone DEF FlushInv, MuInv, Flushing
<1>4. \A u \in Threads : ~Flushing(u)' /\ ~Handed(u)' /\ (Drained(u)' => u = t /\ drained)
  BY ZenonT(60), <1>2, <1>3 DEF Flushing, Drained, Handed
<1>5. MuInv'
  BY Zenon, <1>1, <1>2, <1>3, <1>4, Disjoint DEF MuInv
<1>6. state # "closed" => /\ rest \in Seqs /\ Len(rest) = Len(writeBuffer) - Len(batch)
                          /\ \A i \in 1..Len(rest) : rest[i] = writeBuffer[Len(batch) + i]
                          /\ Len(handed) + Len(rest) = Len(accepted)
  <2> SUFFICES ASSUME state # "closed"
               PROVE  /\ rest \in Seqs /\ Len(rest) = Len(writeBuffer) - Len(batch)
                      /\ \A i \in 1..Len(rest) : rest[i] = writeBuffer[Len(batch) + i]
                      /\ Len(handed) + Len(rest) = Len(accepted)
    BY Zenon
  <2>1. /\ Len(batch) <= Len(writeBuffer)
        /\ Len(handed) + Len(writeBuffer) = Len(accepted) + Len(batch)
    BY ZenonT(60), <1>1 DEF FlushInv, OrderInv, Flushing, Handed
  <2>2. rest = SubSeq(writeBuffer, Len(batch) + 1, Len(writeBuffer))
    BY ZenonT(60), <2>1
  <2>3. Len(batch) \in 0..Len(writeBuffer) /\ writeBuffer \in Seqs
    BY SMTT(60), <2>1, Lengths DEF DataOK
  <2> HIDE DEF rest
  <2>4. /\ rest \in Seqs /\ Len(rest) = Len(writeBuffer) - Len(batch)
        /\ \A i \in 1..(Len(writeBuffer) - Len(batch)) : rest[i] = writeBuffer[Len(batch) + i]
    BY Zenon, <2>2, <2>3, SuffixFacts
  <2> QED
    BY <2>1, <2>4, Lengths
<1>7. state = "closed" => rest = <<>>
  <2>1. state = "closed" => writeBuffer = <<>> /\ batch # <<>>
    BY Zenon, <1>1 DEF FlushInv, OrderInv, MuInv, Flushing
  <2>2. state = "closed" => Len(writeBuffer) = 0 /\ Len(batch) > 0
    BY SMTT(60), <2>1, SeqEmpty DEF DataOK
  <2> QED
    BY SMTT(60), <2>2
<1> HIDE DEF rest
<1>8. OrderInv'
  <2>1. InOrderOnce'
    BY Zenon, <1>1 DEF FlushInv, OrderInv, InOrderOnce
  <2>2. GracefulCloseDelivers'
    <3>1. ASSUME drained PROVE handed = accepted
      <4>1. Len(rest) = 0 /\ state # "closed"
        BY ZenonT(60), <1>6, <3>1, SeqEmpty
      <4>2. Len(handed) = Len(accepted) /\ handed \in Seqs /\ accepted \in Seqs
        BY SMTT(60), <1>6, <4>1, Lengths DEF DataOK
      <4>3. \A i \in 1..Len(handed) : handed[i] = accepted[i]
        BY Zenon DEF FlushInv, OrderInv, InOrderOnce
      <4> QED
        BY ZenonT(60), <4>2, <4>3, SeqEqual
    <3>2. state = "closing" => accepted # <<>> /\ accepted[Len(accepted)] = "close"
      BY Zenon DEF FlushInv, OrderInv
    <3> QED
      BY Zenon, <1>1, <1>4, <3>1, <3>2 DEF GracefulCloseDelivers, Drained
  <2>3. /\ Len(rest) <= Len(accepted)
        /\ \A i \in 1..Len(rest) : rest[i] = accepted[Len(accepted) - Len(rest) + i]
    <3>1. CASE state = "closed"
      BY SMTT(60), <1>7, <3>1, SeqEmpty, SeqTypes, Lengths
    <3>2. CASE state # "closed"
      <4>1. Len(rest) <= Len(accepted) /\ Len(rest) \in Nat
        BY SMTT(60), <1>6, <3>2, SeqEmpty, Lengths
      <4>2. ASSUME NEW i \in 1..Len(rest) PROVE rest[i] = accepted[Len(accepted) - Len(rest) + i]
        <5>1. /\ Len(batch) + i \in 1..Len(writeBuffer)
              /\ Len(accepted) - Len(writeBuffer) + (Len(batch) + i)
                   = Len(accepted) - Len(rest) + i
          <6>1. Len(rest) = Len(writeBuffer) - Len(batch)
            BY Zenon, <1>6, <3>2
          <6> QED
            BY <6>1, Lengths
        <5>2. writeBuffer[Len(batch) + i]
                = accepted[Len(accepted) - Len(writeBuffer) + (Len(batch) + i)]
          BY Zenon, <5>1 DEF FlushInv, OrderInv
        <5> QED
          BY Zenon, <1>6, <3>2, <5>1, <5>2
      <4> QED
        BY Zenon, <4>1, <4>2
    <3> QED
      BY Zenon, <3>1, <3>2
  <2>4. \A u \in Threads : pc'[u] \notin {"send", "write"}
    BY Zenon, <1>4 DEF Flushing
  <2>5. /\ state # "closed" => Len(handed) + Len(rest) = Len(accepted)
        /\ state = "closing" => accepted # <<>> /\ accepted[Len(accepted)] = "close"
    BY ZenonT(60), <1>6 DEF FlushInv, OrderInv
  <2> QED
    BY ZenonT(60), <1>1, <1>4, <1>7, <2>1, <2>2, <2>3, <2>4, <2>5 DEF OrderInv
<1>9. WakeInv'
  <2>1. rest # <<>> /\ state # "closed" => FlushPending'
    BY ZenonT(60), <1>2 DEF FlushPending
  <2> QED
    BY Zenon, <1>1, <1>4, <2>1 DEF FlushInv, WakeInv, NoLostWakeup
<1> QED
  BY Zenon, <1>5, <1>8, <1>9 DEF FlushInv

\* FlushInv is preserved by every step.
LEMMA FlushInvStep ==
  ASSUME DataOK, HeldInv, EndInv, PollInv, FlushInv, [Next]_vars
  PROVE  FlushInv'
<1>1. ASSUME NEW t \in Threads, Flush(t) PROVE FlushInv'
  BY ZenonT(60), <1>1, FlushCloneKeeps, SendPollKeeps, DeliverKeeps, SendConnKeeps,
     WriteConnKeeps, WriteFailKeeps, DropSentKeeps DEF Flush
<1>2. MuInv
  BY Zenon DEF FlushInv
<1> QED
  BY ZenonT(60), <1>1, <1>2, KindStep, QuietKeeps, EndsKeeps, QueuesKeeps, UpgradeKeeps DEF Kind
-----------------------------------------------------------------------------
(* The session implements its contract.                                     *)

\* A step of SessionContract, or one that it does not see.
ContractStep == [Contract!Next]_(Contract!contractVars)

\* Handing over the first n packets of the batch hands over the next n of the contract's queue,
\* or nothing.
LEMMA HandsOverNext ==
  ASSUME DataOK, FlushInv, NEW t \in Threads, pc[t] \in {"send", "write"},
         NEW n \in 0..Len(batch), handed' = handed \o SubSeq(batch, 1, n),
         UNCHANGED <<state, accepted>>
  PROVE  ContractStep
<1>1. /\ Len(handed) + Len(batch) <= Len(accepted)
      /\ \A i \in 1..Len(batch) : batch[i] = accepted[Len(handed) + i]
  BY Zenon DEF FlushInv, OrderInv
<1>2. /\ SubSeq(batch, 1, n) \in Seqs /\ Len(SubSeq(batch, 1, n)) = n
      /\ \A i \in 1..n : SubSeq(batch, 1, n)[i] = batch[i]
  BY ZenonT(60), PrefixFacts DEF DataOK
<1>3. CASE n = 0
  <2>1. SubSeq(batch, 1, n) = <<>>
    BY ZenonT(60), <1>2, <1>3, SeqEmpty
  <2>2. handed \o <<>> = handed
    <3>1. handed \in Seqs /\ <<>> \in Seqs /\ Len(<<>>) = 0 /\ handed \o <<>> \in Seqs
      BY ZenonT(60), SeqTypes, SeqEmpty DEF DataOK
    <3>2. /\ Len(handed \o <<>>) = Len(handed)
          /\ \A i \in 1..Len(handed) : (handed \o <<>>)[i] = handed[i]
      BY <3>1, ConcatFacts, Lengths
    <3> QED
      BY Zenon, <3>1, <3>2, SeqEqual
  <2> QED
    BY Zenon, <2>1, <2>2 DEF ContractStep, Contract!contractVars
<1>4. CASE n # 0
  <2> DEFINE m == Len(handed) + n
  <2>1. n \in Nat /\ m \in Len(handed) + 1 .. Len(accepted) /\ n <= Len(batch)
    BY <1>1, <1>4, Lengths
  <2>2. SubSeq(accepted, Len(handed) + 1, m) = SubSeq(batch, 1, n)
    <3>1. /\ SubSeq(accepted, Len(handed) + 1, m) \in Seqs
          /\ Len(SubSeq(accepted, Len(handed) + 1, m)) = n
          /\ \A i \in 1..n : SubSeq(accepted, Len(handed) + 1, m)[i] = accepted[Len(handed) + i]
      BY SMTT(30), <2>1, Lengths DEF DataOK, Seqs
    <3>2. \A i \in 1..n : batch[i] = accepted[Len(handed) + i]
      <4>1. \A i \in 1..n : i \in 1..Len(batch)
        BY <2>1, Lengths
      <4> QED
        BY Zenon, <1>1, <4>1
    <3> QED
      BY Zenon, <1>2, <3>1, <3>2, SeqEqual
  <2>3. Contract!HandOver(m)
    BY Zenon, <2>2 DEF Contract!HandOver
  <2> QED
    BY Zenon, <2>1, <2>3 DEF ContractStep, Contract!Next
<1> QED
  BY ZenonT(60), <1>3, <1>4

\* Every step of the session is a step of the contract or is not seen by it.
LEMMA StepsImplement ==
  ASSUME DataOK, HeldInv, EndInv, FlushInv, [Next]_vars
  PROVE  ContractStep
<1>1. CASE Quiet
  BY Zenon, <1>1 DEF Quiet, ContractStep, Contract!Next, Contract!Open, Contract!contractVars
<1>2. ASSUME NEW t \in Threads, Ends(t) PROVE ContractStep
  BY Zenon, <1>2 DEF Ends, beginTeardown, CanTeardown, ContractStep, Contract!Next, Contract!End
<1>3. ASSUME NEW w \in Workers, NEW x \in Packets, Queues(w, x) PROVE ContractStep
  BY Zenon, <1>3 DEF Queues, Enqueue, ContractStep, Contract!Next, Contract!Accept,
     Contract!BeginClose, Contract!Live
<1>4. ASSUME NEW c \in Conns, ReadUpgrade(c) PROVE ContractStep
  BY ZenonT(60), <1>4 DEF ReadUpgrade, outHist, ContractStep, Contract!contractVars
<1>5. ASSUME NEW t \in Threads, Flush(t) PROVE ContractStep
  <2>1. ASSUME pc[t] \in {"send", "write"}, handed' = handed \o batch, UNCHANGED <<state, accepted>>
        PROVE  ContractStep
    <3>1. Len(batch) \in 0..Len(batch) /\ SubSeq(batch, 1, Len(batch)) = batch
      BY Lengths DEF DataOK, Seqs
    <3>2. handed' = handed \o SubSeq(batch, 1, Len(batch))
      BY Zenon, <2>1, <3>1
    <3> QED
      BY Zenon, <2>1, <3>1, <3>2, HandsOverNext
  <2>2. CASE SendPoll(t)
    <3>1. CASE handed' = handed
      BY Zenon, <2>2, <3>1 DEF SendPoll, session, ContractStep, Contract!contractVars
    <3>2. CASE handed' # handed
      <4>1. pc[t] = "send" /\ handed' = handed \o batch /\ UNCHANGED <<state, accepted>>
        BY Zenon, <2>2, <3>2 DEF SendPoll, session
      <4> QED
        BY Zenon, <2>1, <4>1
    <3> QED
      BY Zenon, <3>1, <3>2
  <2>3. CASE WriteConn(t)
    <3>1. pc[t] = "write" /\ handed' = handed \o batch /\ UNCHANGED <<state, accepted>>
      BY Zenon, <2>3 DEF WriteConn, session
    <3> QED
      BY Zenon, <2>1, <3>1
  <2>4. ASSUME NEW n \in 0..Len(batch), WriteFail(t, n) PROVE ContractStep
    <3>1. /\ pc[t] = "write" /\ handed' = handed \o SubSeq(batch, 1, n)
          /\ UNCHANGED <<state, accepted>>
      BY Zenon, <2>4 DEF WriteFail, session
    <3> QED
      BY Zenon, <3>1, HandsOverNext
  <2>5. CASE FlushClone(t) \/ Deliver(t) \/ SendConn(t) \/ DropSent(t)
    <3>1. UNCHANGED <<state, accepted, handed>>
      BY Zenon, <2>5 DEF FlushClone, Deliver, SendConn, DropSent, session, outHist
    <3> QED
      BY Zenon, <3>1 DEF ContractStep, Contract!contractVars
  <2> QED
    BY Zenon, <1>5, <2>2, <2>3, <2>4, <2>5 DEF Flush
<1>6. MuInv
  BY Zenon DEF FlushInv
<1> QED
  BY ZenonT(60), <1>1, <1>2, <1>3, <1>4, <1>5, <1>6, KindStep DEF Kind
-----------------------------------------------------------------------------
(* The inductive invariant.                                                 *)

\* The inductive invariant of the session.
SessionInv ==
  /\ TypeOK /\ HeldInv
  /\ PollInv /\ StopInv
  /\ EndInv /\ NoSilentGap /\ HeartbeatAlive /\ UpInv /\ NoConnLeak
  /\ FlushInv

\* Right after the handshake has registered the session, only its goroutine and its connection
\* have started.
LEMMA InitMoves ==
  ASSUME Init
  PROVE  \A t \in Threads : /\ pc[t] \in {"writeOpen", "held", "idle"}
                            /\ pc[t] # "idle" => t = Handshaker \/ t = transport
                            /\ t = Handshaker => pc[t] = "writeOpen"
                            /\ t # Handshaker /\ t = transport => pc[t] = "held"
<1> SUFFICES ASSUME NEW t \in Threads
             PROVE  /\ pc[t] \in {"writeOpen", "held", "idle"}
                    /\ pc[t] # "idle" => t = Handshaker \/ t = transport
                    /\ t = Handshaker => pc[t] = "writeOpen"
                    /\ t # Handshaker /\ t = transport => pc[t] = "held"
  BY Zenon
<1>1. Handshaker # transport
  BY Zenon, Disjoint DEF Init
<1>2. pc[t] = CASE t = Handshaker -> "writeOpen"
                [] t = transport  -> "held"
                [] OTHER          -> "idle"
  BY Zenon DEF Init
<1>3. CASE t = Handshaker
  BY Zenon, <1>1, <1>2, <1>3
<1>4. CASE t = transport /\ t # Handshaker
  BY Zenon, <1>2, <1>4
<1>5. CASE t # transport /\ t # Handshaker
  BY Zenon, <1>2, <1>5
<1> QED
  BY Zenon, <1>3, <1>4, <1>5

\* SessionInv holds right after the handshake has registered the session.
LEMMA SessionInit == ASSUME Init, TypeOK PROVE SessionInv
<1>1. HeldInv
  <2>1. up[Handshaker] # Nil => up[Handshaker] = transport /\ transport \in Conns
    BY Zenon, Disjoint DEF Init
  <2> QED
    BY ZenonT(60), <2>1, InitMoves, Disjoint DEF HeldInv
<1>2. PollInv
  <2>1. \A p \in Polls : pc[p] = "idle" /\ ret[p] = "idle"
    BY InitMoves, Disjoint DEF Init
  <2> QED
    BY SMTT(60), <2>1, Disjoint DEF Init, PollInv, PollLabels, ExclusiveDelivery,
       NoOrphanedPoll, Waiting
<1>3. StopInv
  <2>1. \A n \in Noops : pc[n] = "idle"
    BY InitMoves, Disjoint DEF Init
  <2> QED
    BY SMTT(60), <2>1, Disjoint DEF Init, StopInv, NoopStoppable
<1>4. EndInv
  BY InitMoves, NilIsNoString DEF Init, EndInv, TeardownOwner
<1>5. NoSilentGap /\ HeartbeatAlive
  BY Zenon DEF Init, NoSilentGap, HeartbeatAlive
<1>6. UpInv
  BY Zenon DEF Init, UpInv, ProbeBounded
<1>7. NoConnLeak
  BY Zenon, InitMoves, Disjoint DEF NoConnLeak
<1>8. MuInv
  BY ZenonT(60), InitMoves, Disjoint DEF Init, MuInv, Flushing, Drained
<1>9. OrderInv
  <2>1. Len(<<>>) = 0
    BY Zenon
  <2>2. \A t \in Threads : pc[t] \notin {"send", "write", "deliver", "drop", "teardown"}
    BY Zenon, InitMoves
  <2> QED
    BY <2>1, <2>2 DEF Init, OrderInv, InOrderOnce, GracefulCloseDelivers, Flushing, Handed
<1>10. WakeInv
  <2>1. transport # Nil
    BY Zenon, SessionAssumption DEF Init
  <2> QED
    BY Zenon, <2>1, InitMoves DEF Init, WakeInv, NoLostWakeup, Flushing
<1> QED
  BY Zenon, <1>1, <1>2, <1>3, <1>4, <1>5, <1>6, <1>7, <1>8, <1>9, <1>10 DEF SessionInv,
     FlushInv

\* SessionInv is preserved by every step.
LEMMA SessionStep == ASSUME SessionInv, [Next]_vars PROVE SessionInv'
<1>1. TypeOK /\ DataOK /\ FlagsOK
  BY Zenon DEF SessionInv, TypeOK
<1>2. TypeOK' /\ HeldInv'
  BY ZenonT(60), <1>1, DataStep, FlagsStep, HeldStep DEF SessionInv, TypeOK
<1>3. PollInv' /\ StopInv'
  BY Zenon, <1>1, PollStep, StopStep DEF SessionInv
<1>4. EndInv' /\ NoSilentGap' /\ HeartbeatAlive'
  BY ZenonT(60), <1>1, EndStep, GapStep, BeatStep DEF SessionInv
<1>5. UpInv' /\ NoConnLeak'
  BY Zenon, <1>1, UpStep, LeakStep DEF SessionInv
<1>6. FlushInv'
  BY Zenon, <1>1, FlushInvStep DEF SessionInv
<1> QED
  BY Zenon, <1>2, <1>3, <1>4, <1>5, <1>6 DEF SessionInv

\* SessionInv holds in every behaviour of the session.
THEOREM Inductive == Spec => []SessionInv
<1>1. Init => TypeOK
  <2>1. Init => DataOK
    BY SMTT(30), SessionAssumption DEF Init, DataOK, Transports, Threads, Seqs, Labels, Timers
  <2>2. Init => FlagsOK
    BY ZenonT(60) DEF Init, FlagsOK
  <2> QED
    BY Zenon, <2>1, <2>2 DEF TypeOK
<1>2. Init => SessionInv
  BY Zenon, <1>1, SessionInit
<1>3. SessionInv /\ [Next]_vars => SessionInv'
  BY Zenon, SessionStep
<1> QED
  BY <1>2, <1>3, PTL DEF Spec
-----------------------------------------------------------------------------
(* Polls and stop channels.                                                 *)

\* Every held poll's channel is taken by exactly one of send, writeNoop and close and filled
\* at most once (ExclusiveDelivery), for any number of polls, flushes, probes and closes.
THEOREM ExclusiveDeliveryHolds == Spec => []ExclusiveDelivery
<1>1. SessionInv => ExclusiveDelivery
  BY Zenon DEF SessionInv, PollInv
<1> QED
  BY <1>1, Inductive, PTL

\* No poll that waits is forgotten (NoOrphanedPoll): it is held by an open transport, or its
\* answer has been put into its channel, or a goroutine that took the channel will put it there.
THEOREM NoOrphanedPollHolds == Spec => []NoOrphanedPoll
<1>1. SessionInv => NoOrphanedPoll
  BY Zenon DEF SessionInv, PollInv
<1> QED
  BY <1>1, Inductive, PTL

\* No stop channel is closed twice (StopClosedOnce), however completeUpgrade, abortUpgrade and
\* closeWithReason race: the panic of a double close cannot happen.
THEOREM StopClosedOnceHolds == Spec => []StopClosedOnce
<1>1. SessionInv => StopClosedOnce
  BY Zenon DEF SessionInv, StopInv, StopClosedOnce
<1> QED
  BY <1>1, Inductive, PTL

\* A running noop goroutine can always still be told to stop (NoopStoppable): the channel that
\* onProbe made for it is never dropped unclosed, whoever ends the probe.
THEOREM NoopStoppableHolds == Spec => []NoopStoppable
<1>1. SessionInv => NoopStoppable
  BY Zenon DEF SessionInv, StopInv
<1> QED
  BY <1>1, Inductive, PTL
-----------------------------------------------------------------------------
(* What flush hands over.                                                   *)

\* The transports are given what Send, sendPing and Close queued, in that order and each packet
\* once (InOrderOnce), across any number of flushes, failed writes and upgrades.
THEOREM InOrderOnceHolds == Spec => []InOrderOnce
<1>1. SessionInv => InOrderOnce
  BY ZenonT(60) DEF SessionInv, FlushInv, OrderInv
<1> QED
  BY <1>1, Inductive, PTL

\* A graceful close is completed only when everything accepted has been handed over, the close
\* packet last (GracefulCloseDelivers).
THEOREM GracefulCloseDeliversHolds == Spec => []GracefulCloseDelivers
<1>1. SessionInv => GracefulCloseDelivers
  BY Zenon DEF SessionInv, FlushInv, OrderInv
<1> QED
  BY <1>1, Inductive, PTL

\* Buffered packets never wait while a poll is held or the active connection is open and nobody
\* is about to flush them (NoLostWakeup), an upgrade in the middle of a flush included.
THEOREM NoLostWakeupHolds == Spec => []NoLostWakeup
<1>1. SessionInv => NoLostWakeup
  BY Zenon DEF SessionInv, FlushInv, WakeInv
<1> QED
  BY <1>1, Inductive, PTL

\* The session implements its abstract contract (ImplementsContract): its lifecycle only moves
\* forward, nothing is queued once closing has begun, and what goes out is what was queued.
THEOREM Refinement == Spec => ImplementsContract
<1>1. Init => Contract!Init
  BY Zenon DEF Init, Contract!Init
<1>2. SessionInv /\ [Next]_vars => [Contract!Next]_(Contract!contractVars)
  BY Zenon, StepsImplement DEF SessionInv, TypeOK, ContractStep
<1> QED
  BY <1>1, <1>2, Inductive, PTL DEF Spec, ImplementsContract, Contract!Spec
-----------------------------------------------------------------------------
(* How the session ends.                                                    *)

\* A payload that was handed over and not written ends the session (NoSilentGap).
THEOREM NoSilentGapHolds == Spec => []NoSilentGap
<1>1. SessionInv => NoSilentGap
  BY ZenonT(60) DEF SessionInv
<1> QED
  BY <1>1, Inductive, PTL

\* The close handler runs at most once, and only after the session has left the store
\* (NotifiedOnce), whichever of the many closers wins.
THEOREM NotifiedOnceHolds == Spec => []NotifiedOnce
<1>1. SessionInv => NotifiedOnce
  BY DEF SessionInv, EndInv, NotifiedOnce
<1> QED
  BY <1>1, Inductive, PTL

\* An open session always has a ping or a pong timeout ahead or running (HeartbeatAlive).
THEOREM HeartbeatAliveHolds == Spec => []HeartbeatAlive
<1>1. SessionInv => HeartbeatAlive
  BY ZenonT(60) DEF SessionInv
<1> QED
  BY <1>1, Inductive, PTL

\* A probe of an open session is always bounded by its own upgrade timer or being aborted
\* (ProbeBounded).
THEOREM ProbeBoundedHolds == Spec => []ProbeBounded
<1>1. SessionInv => ProbeBounded
  BY Zenon DEF SessionInv, UpInv
<1> QED
  BY <1>1, Inductive, PTL

\* No connection that the server took on is left open once the session has let go of it
\* (NoConnLeak): whoever took it from the session is about to close it.
THEOREM NoConnLeakHolds == Spec => []NoConnLeak
<1>1. SessionInv => NoConnLeak
  BY Zenon DEF SessionInv
<1> QED
  BY <1>1, Inductive, PTL
=============================================================================
