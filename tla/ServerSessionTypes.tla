------------------------ MODULE ServerSessionTypes ------------------------
(* Type correctness of ServerSession for every value of its constants, with *)
(* the facts that all proofs about it share, and the invariants on the      *)
(* connection of a direct handshake and on the probe in flight.             *)
EXTENDS ServerSession, TLAPS

\* The kinds of goroutines are disjoint, and none of them is mistaken for Nil.
LEMMA Disjoint ==
  /\ Workers \subseteq Threads /\ Polls \subseteq Threads /\ Conns \subseteq Threads
  /\ Noops \subseteq Threads /\ Handshaker \in Threads
  /\ Nil \notin Threads /\ Nil \notin Seqs /\ Polling \notin Threads
  /\ \A x \in StartTransports : x = Polling \/ x \in Conns
  /\ \A p \in Polls : p \notin Workers /\ p \notin Conns /\ p \notin Noops /\ p # Handshaker
  /\ \A n \in Noops : n \notin Workers /\ n \notin Conns /\ n # Handshaker
  /\ Handshaker \notin Workers \cup Conns
  BY Zenon, SessionAssumption DEF Threads, Transports, Seqs

\* No goroutine of the application, a timer or a POST is a read loop or the handshake.
LEMMA WorkersApart == \A w \in Workers : w \notin Conns /\ w # Handshaker
  BY Zenon, SessionAssumption

\* Nil is none of the reasons and jobs that the goroutines record.
LEMMA NilIsNoString ==
  /\ Nil # "teardown" /\ Nil # "complete" /\ Nil # "abort"
  /\ Nil # "drained" /\ Nil # "ping_timeout" /\ Nil # "transport_error"
  BY Zenon, SessionAssumption DEF Reasons, Jobs

\* The sequences that flush and the transports build from packets are sequences of packets.
LEMMA SeqTypes ==
  /\ <<>> \in Seqs /\ <<"noop">> \in Seqs /\ <<"close">> \in Seqs
  /\ \A s \in Seqs, x \in Packets : Append(s, x) \in Seqs
  /\ \A s, u \in Seqs : s \o u \in Seqs
  /\ \A s \in Seqs : \A i \in 1..(Len(s) + 1) : SubSeq(s, i, Len(s)) \in Seqs
  /\ \A s \in Seqs : \A i \in 0..Len(s) : SubSeq(s, 1, i) \in Seqs
  BY DEF Seqs, Packets

\* The labels that the actions of ServerSession assign.
LEMMA LabelTypes ==
  /\ "idle" \in Labels /\ "writeOpen" \in Labels /\ "open" \in Labels /\ "handler" \in Labels
  /\ "held" \in Labels /\ "done" \in Labels /\ "flush" \in Labels /\ "send" \in Labels
  /\ "deliver" \in Labels /\ "write" \in Labels /\ "drop" \in Labels /\ "arm" \in Labels
  /\ "sendPing" \in Labels /\ "abort" \in Labels /\ "teardown" \in Labels
  /\ "release" \in Labels /\ "closeDeliver" \in Labels /\ "notify" \in Labels
  /\ "hold" \in Labels /\ "select" \in Labels /\ "drain" \in Labels /\ "read" \in Labels
  /\ "onProbe" \in Labels /\ "tick" \in Labels /\ "noop" \in Labels
  /\ "noopDeliver" \in Labels /\ "wait" \in Labels
  BY Zenon DEF Labels

\* The reasons that closeWithReason is called with.
LEMMA ReasonTypes ==
  /\ "forced_close" \in Reasons /\ "ping_timeout" \in Reasons /\ "drained" \in Reasons
  /\ "transport_close" \in Reasons /\ "transport_error" \in Reasons
  BY Zenon DEF Reasons

\* The handlers, timers, read loops and noop goroutines are all goroutines.
LEMMA ThreadTypes ==
  /\ Workers \subseteq Threads /\ Polls \subseteq Threads /\ Conns \subseteq Threads
  /\ Noops \subseteq Threads /\ Handshaker \in Threads
  BY Zenon DEF Threads

\* The functions that record where each goroutine is and what it does next.
LEMMA LocalTypes ==
  ASSUME DataOK
  PROVE  /\ pc \in [Threads -> Labels] /\ ret \in [Threads -> Labels]
         /\ why \in [Threads -> Reasons \cup {Nil}] /\ job \in [Threads -> Jobs \cup {Nil}]
         /\ Nil \notin Threads
  BY Zenon, Disjoint DEF DataOK

\* The timers, and the connections that each goroutine is to close.
LEMMA OwnedTypes ==
  ASSUME DataOK
  PROVE  /\ timer \in [Timers -> {"nil", "armed", "fired"}]
         /\ old \in [Threads -> Transports \cup {Nil}]
         /\ up \in [Threads -> Conns \cup {Nil}]
  BY Zenon DEF DataOK

\* Until the handshake is over, the read loop of its connection has not started.
HeldInv ==
  /\ pc[Handshaker] \in {"writeOpen", "open", "handler", "done"}
  /\ pc[Handshaker] # "done" /\ up[Handshaker] # Nil => pc[up[Handshaker]] = "held"

\* A step of goroutine t alone.
OnlyMoves(t) == \A u \in Threads \ {t} : pc'[u] = pc[u] /\ ret'[u] = ret[u]

\* A goroutine that goes to its next step moves alone.
LEMMA GotoMoves == ASSUME DataOK, NEW t, NEW label, Goto(t, label), ret' = ret PROVE OnlyMoves(t)
  BY Zenon, LocalTypes DEF Goto, OnlyMoves

\* A goroutine that calls a routine moves alone.
LEMMA CallMoves ==
  ASSUME DataOK, NEW t, NEW label, NEW next, Call(t, label, next)
  PROVE  OnlyMoves(t)
  BY Zenon, LocalTypes DEF Call, OnlyMoves

\* The last step of the handshake moves its goroutine and its connection, and no other.
LEMMA HandshakeMoves ==
  ASSUME DataOK, HeldInv, HandshakeFail \/ HandshakeHandler
  PROVE  \A t \in Threads : \/ pc'[t] = pc[t]
                            \/ /\ t = Handshaker \/ t \in Conns
                               /\ pc[t] \in {"writeOpen", "handler", "held"}
                               /\ pc'[t] \in {"done", "read"}
<1>1. CASE HandshakeFail
  BY <1>1, Disjoint DEF HandshakeFail, HeldInv, DataOK
<1>2. CASE HandshakeHandler
  BY ZenonT(60), <1>2, Disjoint DEF HandshakeHandler, HeldInv, DataOK
<1> QED
  BY Zenon, <1>1, <1>2
-----------------------------------------------------------------------------
(* Types.  The Boolean variables (FlagsOK) and the others (DataOK) are       *)
(* treated apart: the first need no arithmetic and the second no Boolean    *)
(* values.                                                                  *)

\* Queueing a packet (Send, sendPing, Close) keeps the buffer a sequence of packets.
LEMMA EnqueueTypes ==
  ASSUME DataOK, NEW x \in Packets, Enqueue(x)
  PROVE  (writeBuffer \in Seqs)' /\ (accepted \in Seqs)'
  BY Zenon, SeqTypes DEF DataOK, Enqueue

\* Returning from a routine leads to a label, and flushMu keeps its type.
LEMMA ReturnTypes ==
  ASSUME DataOK, NEW t \in Threads, Return(t)
  PROVE  /\ (pc \in [Threads -> Labels])' /\ (ret \in [Threads -> Labels])'
         /\ (flushMu \in Threads \cup {Nil})'
  BY Zenon DEF DataOK, Return, Call, Labels

\* A payload put into a poll's channel keeps the channels' type.
LEMMA PutTypes ==
  ASSUME DataOK, NEW t \in Threads, NEW s \in Seqs, Put(t, s)
  PROVE  (channel \in [Polls -> Seqs \cup {Nil}])' /\ (claim \in [Threads -> Polls \cup {Nil}])'
  BY Zenon DEF DataOK, Put

\* DataOK is preserved by every step.
LEMMA DataStep == ASSUME DataOK, [Next]_vars PROVE DataOK'
<1> USE LabelTypes, ThreadTypes
<1>1. CASE Handshake
  <2>1. CASE HandshakeWrite
    BY ZenonT(60), <2>1 DEF DataOK, HandshakeWrite, Goto, session, timers, polling, flight,
       locals, outHist, endHist
  <2>2. CASE HandshakeFail
    <3>1. closed' \subseteq Transports
      BY Zenon, <2>2 DEF DataOK, HandshakeFail, Transports
    <3>2. pc' \in [Threads -> Labels]
      BY Zenon, <2>2 DEF DataOK, HandshakeFail
    <3> QED
      BY Zenon, <2>2, <3>1, <3>2 DEF DataOK, HandshakeFail, session, timers, polling, flight,
         locals, env, outHist, endHist
  <2>3. CASE HandshakeOpen
    BY ZenonT(60), <2>3 DEF DataOK, Timers, HandshakeOpen, Goto, Arm, polling, flight, locals,
       env, outHist, endHist
  <2>4. CASE HandshakeHandler
    BY Zenon, <2>4 DEF DataOK, HandshakeHandler, session, timers, polling, flight, locals, env,
       outHist, endHist
  <2> QED
    BY Zenon, <1>1, <2>1, <2>2, <2>3, <2>4 DEF Handshake
<1>2. ASSUME NEW w \in Workers, Worker(w) PROVE DataOK'
  <2>1. CASE ArmClose(w)
    BY ZenonT(60), <2>1 DEF DataOK, Timers, ArmClose, Goto, Arm, session, polling, flight,
       locals, env, outHist, endHist
  <2>2. CASE sendPing(w)
    <3>1. w \in Threads /\ "ping" \in Packets
      BY Zenon DEF Packets
    <3>2. CASE state = "open"
      BY SMTT(60), <2>2, <3>1, <3>2, EnqueueTypes DEF DataOK, Timers, sendPing, Goto, Arm,
         session, polling, flight, locals, env, endHist
    <3>3. CASE state # "open"
      BY ZenonT(60), <2>2, <3>1, <3>3 DEF DataOK, sendPing, Goto, session, polling, flight,
         locals, env, endHist
    <3> QED
      BY ZenonT(60), <3>2, <3>3
  <2>3. ASSUME NEW k \in Timers, Fire(w, k) PROVE DataOK'
    BY ZenonT(60), <2>3, ReasonTypes DEF DataOK, Timers, Fire, Call, session, polling, flight,
       env, outHist, endHist
  <2> QED
    BY Zenon, <1>2, <2>1, <2>2, <2>3 DEF Worker
<1>3. ASSUME NEW w \in Workers, Application(w) PROVE DataOK'
  <2>1. ASSUME NEW m \in Msgs, Send(w, m) PROVE DataOK'
    BY SMTT(60), <2>1 DEF DataOK, Seqs, Packets, Send, CallFlush, Call, Enqueue, CanSend,
       session, timers, polling, flight, env, endHist
  <2>2. CASE Close(w)
    BY <2>2 DEF DataOK, Timers, Seqs, Packets, Close, CallFlush, Call, Enqueue,
       stopTimersLocked, CanClose, polling, flight, env, endHist
  <2>3. CASE ServerClose(w)
    BY SMTT(30), <2>3 DEF DataOK, Jobs, Timers, Seqs, ServerClose, CloseNow, beginTeardown,
       Goto, stopTimersLocked, CanTeardown, polling, flight, env, outHist, endHist
  <2> QED
    BY Zenon, <1>3, <2>1, <2>2, <2>3 DEF Application
<1>4. CASE Client
  <2>1. ASSUME NEW w \in Workers, PostPong(w) PROVE DataOK'
    BY SMTT(60), <2>1 DEF DataOK, Timers, PostPong, onPong, session, polling, flight, locals,
       outHist, endHist
  <2>2. ASSUME NEW w \in Workers, PostClose(w) PROVE DataOK'
    BY <2>2 DEF DataOK, Jobs, Timers, Seqs, PostClose, CloseNow, beginTeardown, Goto,
       stopTimersLocked, CanTeardown, polling, flight, env, outHist, endHist
  <2>3. ASSUME NEW p \in Polls, Poll(p) PROVE DataOK'
    BY ZenonT(60), <2>3 DEF DataOK, Poll, Goto, session, timers, polling, flight, locals, env,
       outHist, endHist
  <2>4. ASSUME NEW p \in Polls, Cancel(p) PROVE DataOK'
    BY SMTT(30), <2>4, ReasonTypes DEF DataOK, Cancel, Goto, CallClose, Call, session, timers,
       flight, env, outHist, endHist
  <2>5. ASSUME NEW c \in Conns, StartUpgrade(c) PROVE DataOK'
    <3>1. closed' \subseteq Transports
      BY Zenon, <2>5 DEF DataOK, StartUpgrade, Transports
    <3>2. timer' \in [Timers -> {"nil", "armed", "fired"}]
      BY ZenonT(60), <2>5 DEF DataOK, StartUpgrade, Arm, timers, Timers
    <3>3. pc' \in [Threads -> Labels]
      BY Zenon, <2>5 DEF DataOK, StartUpgrade, Goto
    <3> QED
      BY Zenon, <2>5, <3>1, <3>2, <3>3 DEF DataOK, StartUpgrade, timers, polling, flight,
         locals, env, outHist, endHist
  <2>6. ASSUME NEW c \in Conns, ReadProbe(c) PROVE DataOK'
    BY SMTT(30), <2>6 DEF DataOK, ReadProbe, Goto, Call, session, timers, polling, flight, env,
       outHist, endHist
  <2>7. ASSUME NEW c \in Conns, ReadUpgrade(c) PROVE DataOK'
    BY Zenon, <2>7 DEF DataOK, Jobs, Timers, Transports, ReadUpgrade, Call, ClearUpgrade,
       UpgradeInFlight, polling, flight, env, outHist, endHist
  <2>8. ASSUME NEW c \in Conns, ReadPong(c) PROVE DataOK'
    BY SMTT(30), <2>8 DEF DataOK, Timers, ReadPong, onPong, session, polling, flight, locals,
       outHist, endHist
  <2>9. ASSUME NEW c \in Conns, ReadClose(c) PROVE DataOK'
    BY <2>9 DEF DataOK, Jobs, Timers, Seqs, ReadClose, CloseNow, beginTeardown, Goto,
       stopTimersLocked, CanTeardown, polling, flight, env, outHist, endHist
  <2>10. ASSUME NEW c \in Conns, ReadError(c) PROVE DataOK'
    <3>1. c \in Threads
      BY ZenonT(60) DEF Threads
    <3>2. CASE CloseNow(c, "done")
      BY Zenon, <3>1, <3>2, SeqTypes DEF DataOK, Jobs, Timers, CloseNow, beginTeardown,
         stopTimersLocked, Goto, polling, flight, env, outHist, endHist
    <3>3. CASE Goto(c, "done") /\ ~CloseNow(c, "done")
      BY ZenonT(60), <2>10, <3>1, <3>3 DEF ReadError, DataOK, Goto, Call, session, timers,
         polling, flight, locals, env, outHist, endHist
    <3>4. CASE Call(c, "abort", "done") /\ ~CloseNow(c, "done")
      BY <2>10, <3>1, <3>4 DEF ReadError, DataOK, Goto, Call, session, timers, polling, flight,
         locals, env, outHist, endHist
    <3> QED
      BY Zenon, <2>10, <3>2, <3>3, <3>4 DEF ReadError
  <2> QED
    BY ZenonT(60), <1>4, <2>1, <2>2, <2>3, <2>4, <2>5, <2>6, <2>7, <2>8, <2>9, <2>10 DEF Client
<1>5. ASSUME NEW p \in Polls, PollHandler(p) PROVE DataOK'
  <2>1. CASE Hold(p)
    BY SMTT(30), <2>1, ReasonTypes DEF DataOK, Hold, Goto, CallClose, Call, CallFlush, session,
       timers, flight, env, outHist, endHist
  <2>2. CASE Respond(p)
    BY SMTT(30), <2>2, ReasonTypes DEF DataOK, Respond, Goto, CallClose, Call, FromBuffer,
       session, timers, flight, env, endHist
  <2>3. CASE Drain(p)
    BY ZenonT(60), <2>3, ReasonTypes DEF DataOK, Drain, CallClose, Call, FromBuffer, session,
       timers, flight, env, endHist
  <2> QED
    BY ZenonT(60), <1>5, <2>1, <2>2, <2>3 DEF PollHandler
<1>6. ASSUME NEW t \in Threads, Flush(t) PROVE DataOK'
  <2>1. CASE FlushClone(t)
    <3> DEFINE nothing == state = "closed" \/ transport = Nil \/ writeBuffer = <<>>
    <3>1. CASE nothing
      BY Zenon, <2>1, <3>1, ReturnTypes DEF DataOK, FlushClone, session, timers, polling,
         env, outHist, endHist
    <3>2. CASE ~nothing
      BY ZenonT(60), <2>1, <3>2 DEF DataOK, FlushClone, Goto, session, timers, polling, env,
         outHist,
         endHist
    <3> QED
      BY Zenon, <3>1, <3>2
  <2>2. CASE SendPoll(t)
    <3>1. CASE Polling \in closed \/ dataCh = Nil
      BY Zenon, <2>2, <3>1, SeqTypes, ReturnTypes DEF DataOK, SendPoll, NotSent, session,
         timers, env, endHist
    <3>2. CASE ~(Polling \in closed \/ dataCh = Nil)
      <4>1. handed \o batch \in Seqs
        BY Zenon, SeqTypes DEF DataOK
      <4>2. pc' \in [Threads -> Labels] /\ claim' \in [Threads -> Polls \cup {Nil}]
        BY ZenonT(60), <2>2, <3>2 DEF DataOK, SendPoll, Goto
      <4> QED
        BY Zenon, <2>2, <3>2, <4>1, <4>2 DEF DataOK, SendPoll, session, timers, flight,
           env, endHist
    <3> QED
      BY ZenonT(60), <3>1, <3>2
  <2>3. CASE Deliver(t)
    <3>1. batch \in Seqs
      BY Zenon DEF DataOK
    <3>2. (channel \in [Polls -> Seqs \cup {Nil}])' /\ (claim \in [Threads -> Polls \cup {Nil}])'
      BY Zenon, <2>3, <3>1, PutTypes DEF Deliver
    <3>3. pc' \in [Threads -> Labels]
      BY Zenon, <2>3 DEF Deliver, Goto, DataOK
    <3> QED
      BY ZenonT(60), <2>3, <3>2, <3>3 DEF DataOK, Deliver, session, timers, flight, env,
         outHist, endHist
  <2>4. CASE SendConn(t)
    <3>1. CASE target \in closed
      <4>1. NotSent(t)
        BY Zenon, <2>4, <3>1 DEF SendConn
      <4>2. /\ (pc \in [Threads -> Labels])' /\ (ret \in [Threads -> Labels])'
            /\ (flushMu \in Threads \cup {Nil})' /\ (batch \in Seqs)' /\ target' = Nil
        BY Zenon, <4>1, SeqTypes, ReturnTypes DEF NotSent
      <4> QED
        BY Zenon, <2>4, <4>2 DEF DataOK, SendConn, session, timers, polling, env, outHist,
           endHist
    <3>2. CASE target \notin closed
      BY ZenonT(60), <2>4, <3>2 DEF DataOK, SendConn, Goto, session, timers, polling, flight,
         env, outHist, endHist
    <3> QED
      BY Zenon, <3>1, <3>2
  <2>5. CASE WriteConn(t)
    <3>1. handed \o batch \in Seqs
      BY Zenon, SeqTypes DEF DataOK
    <3> QED
      BY ZenonT(60), <2>5, <3>1 DEF DataOK, WriteConn, Goto, session, timers, polling, flight,
         locals, env, endHist
  <2>6. ASSUME NEW n \in 0..Len(batch), WriteFail(t, n) PROVE DataOK'
    <3>1. handed \o SubSeq(batch, 1, n) \in Seqs /\ <<>> \in Seqs
      BY Zenon, SeqTypes DEF DataOK
    <3> QED
      BY Zenon, <2>6, <3>1, ReasonTypes DEF DataOK, WriteFail, CallClose, Call, session, timers,
         polling, env, endHist
  <2>7. CASE DropSent(t)
    <3> DEFINE rest == IF Len(batch) <= Len(writeBuffer)
                         THEN SubSeq(writeBuffer, Len(batch) + 1, Len(writeBuffer))
                         ELSE <<>>
    <3>1. rest \in Seqs
      BY SeqTypes DEF DataOK, Seqs
    <3>2. writeBuffer' \in Seqs /\ batch' \in Seqs /\ target' \in Transports \cup {Nil}
      BY Zenon, <2>7, <3>1, SeqTypes DEF DropSent
    <3>3. /\ (pc \in [Threads -> Labels])' /\ (ret \in [Threads -> Labels])'
          /\ (flushMu \in Threads \cup {Nil})' /\ (why \in [Threads -> Reasons \cup {Nil}])'
      <4>1. CASE rest = <<>> /\ state = "closing"
        <5>1. CallClose(t, "drained", ret[t]) /\ UNCHANGED flushMu
          BY Zenon, <2>7, <4>1 DEF DropSent
        <5> QED
          BY Zenon, <5>1, ReasonTypes DEF DataOK, CallClose, Call
      <4>2. CASE rest # <<>> /\ state # "closed"
        <5>1. Goto(t, "flush") /\ UNCHANGED <<flushMu, ret, why>>
          BY Zenon, <2>7, <4>2 DEF DropSent
        <5> QED
          BY Zenon, <5>1 DEF DataOK, Goto
      <4>3. CASE ~(rest = <<>> /\ state = "closing") /\ ~(rest # <<>> /\ state # "closed")
        BY ZenonT(60), <2>7, <4>3, ReturnTypes DEF DataOK, DropSent
      <4> QED
        BY Zenon, <4>1, <4>2, <4>3
    <3> QED
      BY Zenon, <2>7, <3>2, <3>3 DEF DataOK, DropSent, session, timers, polling, env,
         outHist, endHist
  <2> QED
    BY ZenonT(60), <1>6, <2>1, <2>2, <2>3, <2>4, <2>5, <2>6, <2>7 DEF Flush
<1>7. ASSUME NEW t \in Threads, CloseWithReason(t) PROVE DataOK'
  <2>1. CASE Teardown(t)
    <3>1. CASE beginTeardown(t) /\ UNCHANGED <<flushMu, ret>>
      BY Zenon, <2>1, <3>1, SeqTypes, ReasonTypes DEF DataOK, Jobs, Timers, Teardown,
         beginTeardown, stopTimersLocked, Goto, polling, env, outHist, endHist
    <3>2. CASE Return(t) /\ UNCHANGED <<session, writeBuffer, timer, stop, old, up, job, notify>>
      BY ZenonT(60), <2>1, <3>2, ReturnTypes DEF DataOK, Teardown, session, polling, env, outHist,
         endHist
    <3> QED
      BY Zenon, <2>1, <3>1, <3>2 DEF Teardown
  <2>2. CASE CloseStop(t)
    BY SMTT(30), <2>2 DEF DataOK, CloseStop, session, timers, polling, flight, env, outHist
  <2>3. CASE CloseOld(t)
    <3>1. pc' \in [Threads -> Labels]
      BY ZenonT(60), <2>3 DEF DataOK, CloseOld, Goto
    <3>2. claim' \in [Threads -> Polls \cup {Nil}] /\ dataCh' \in Polls \cup {Nil}
      BY Zenon, <2>3 DEF DataOK, CloseOld
    <3>3. closed' \subseteq Transports /\ old' \in [Threads -> Transports \cup {Nil}]
      BY Zenon, <2>3 DEF DataOK, CloseOld
    <3> QED
      BY Zenon, <2>3, <3>1, <3>2, <3>3 DEF DataOK, CloseOld, session, timers, flight, env,
         outHist, endHist
  <2>4. CASE CloseDeliver(t)
    <3>1. <<"close">> \in Seqs
      BY Zenon, SeqTypes
    <3>2. (channel \in [Polls -> Seqs \cup {Nil}])' /\ (claim \in [Threads -> Polls \cup {Nil}])'
      BY ZenonT(60), <2>4, <3>1, PutTypes DEF CloseDeliver
    <3>3. pc' \in [Threads -> Labels]
      BY Zenon, <2>4 DEF CloseDeliver, Goto, DataOK
    <3> QED
      BY ZenonT(60), <2>4, <3>2, <3>3 DEF DataOK, CloseDeliver, session, timers, flight, env,
         outHist, endHist
  <2>5. CASE CloseUp(t)
    <3>1. closed' \subseteq Transports
      BY Zenon, <2>5 DEF DataOK, CloseUp, Transports
    <3> QED
      BY ZenonT(60), <2>5, <3>1 DEF DataOK, CloseUp, session, timers, polling, flight, env,
         outHist, endHist
  <2>6. CASE Released(t)
    BY SMTT(30), <2>6 DEF DataOK, Released, Goto, Return, Call, session, timers, polling, env,
       outHist, endHist
  <2>7. CASE Notify(t)
    <3>1. ret' \in [Threads -> Labels] /\ pc' \in [Threads -> Labels]
          /\ flushMu' \in Threads \cup {Nil}
      BY ZenonT(60), <2>7, ReturnTypes DEF Notify
    <3> QED
      BY <2>7, <3>1 DEF DataOK, Notify, session, timers, polling, env, outHist
  <2> QED
    BY Zenon, <1>7, <2>1, <2>2, <2>3, <2>4, <2>5, <2>6, <2>7 DEF CloseWithReason
<1>8. ASSUME NEW n \in Noops, Noop(n) PROVE DataOK'
  <2>1. CASE NoopTick(n)
    <3>1. pc' \in [Threads -> Labels]
      BY Zenon, <2>1 DEF DataOK, NoopTick, Goto
    <3> QED
      BY ZenonT(60), <2>1, <3>1 DEF DataOK, NoopTick, session, timers, polling, flight, locals,
         env, outHist, endHist
  <2>2. CASE NoopClaim(n)
    BY Zenon, <2>2 DEF DataOK, NoopClaim, Goto, session, timers, flight, env, outHist,
       endHist
  <2>3. CASE NoopDeliver(n)
    <3>1. <<"noop">> \in Seqs /\ n \in Threads
      BY Zenon, SeqTypes DEF Threads
    <3>2. (channel \in [Polls -> Seqs \cup {Nil}])' /\ (claim \in [Threads -> Polls \cup {Nil}])'
      BY Zenon, <2>3, <3>1, PutTypes DEF NoopDeliver
    <3>3. pc' \in [Threads -> Labels]
      BY Zenon, <2>3 DEF NoopDeliver, Goto, DataOK
    <3> QED
      BY ZenonT(60), <2>3, <3>2, <3>3 DEF DataOK, NoopDeliver, session, timers, flight, env,
         outHist, endHist
  <2>4. CASE NoopStop(n)
    <3>1. pc' \in [Threads -> Labels]
      BY Zenon, <2>4 DEF DataOK, NoopStop, Goto
    <3> QED
      BY ZenonT(60), <2>4, <3>1 DEF DataOK, NoopStop, session, timers, polling, flight, locals,
         env, outHist, endHist
  <2> QED
    BY Zenon, <1>8, <2>1, <2>2, <2>3, <2>4 DEF Noop
<1>9. ASSUME NEW c \in Conns, onProbe(c) PROVE DataOK'
  BY ZenonT(60), <1>9 DEF DataOK, onProbe, Goto, ProbeAnswered, timers, polling, flight, locals,
     env, outHist, endHist
<1>10. ASSUME NEW t \in Threads, Abort(t) PROVE DataOK'
  BY SMTT(30), <1>10 DEF DataOK, Jobs, Timers, Abort, Goto, Return, Call, ClearUpgrade,
     UpgradeInFlight, polling, env, outHist, endHist
<1>11. CASE UNCHANGED vars
  BY ZenonT(60), <1>11 DEF DataOK, vars, session, timers, polling, flight, locals, env, outHist,
     endHist
<1> QED
  BY Zenon, <1>11, <1>1, <1>2, <1>3, <1>4, <1>5, <1>6, <1>7, <1>8, <1>9, <1>10 DEF Next,
     Terminated

\* FlagsOK is preserved by every step.
LEMMA FlagsStep == ASSUME FlagsOK, [Next]_vars PROVE FlagsOK'
<1>1. CASE Handshake
  <2>1. CASE HandshakeWrite
    BY Zenon, <2>1 DEF FlagsOK, HandshakeWrite, Goto, session, timers, polling, flight, locals,
       outHist, endHist
  <2>2. CASE HandshakeFail
    BY Zenon, <2>2 DEF FlagsOK, HandshakeFail, session, timers, polling, flight, locals, env,
       outHist, endHist
  <2>3. CASE HandshakeOpen
    BY Zenon, <2>3 DEF FlagsOK, HandshakeOpen, Goto, Arm, polling, flight, locals, env, outHist,
       endHist
  <2>4. CASE HandshakeHandler
    BY Zenon, <2>4 DEF FlagsOK, HandshakeHandler, session, timers, polling, flight, locals, env,
       outHist, endHist
  <2> QED
    BY Zenon, <1>1, <2>1, <2>2, <2>3, <2>4 DEF Handshake
<1>2. ASSUME NEW w \in Workers, Worker(w) PROVE FlagsOK'
  <2>1. CASE ArmClose(w)
    BY Zenon, <2>1 DEF FlagsOK, ArmClose, Goto, Arm, session, polling, flight, locals, env,
       outHist, endHist
  <2>2. CASE sendPing(w)
    BY Zenon, <2>2 DEF FlagsOK, sendPing, Goto, Arm, Enqueue, session, polling, flight, locals,
       env, endHist
  <2>3. ASSUME NEW k \in Timers, Fire(w, k) PROVE FlagsOK'
    BY Zenon, <2>3 DEF FlagsOK, Fire, Call, session, polling, flight, env, outHist, endHist
  <2> QED
    BY Zenon, <1>2, <2>1, <2>2, <2>3 DEF Worker
<1>3. ASSUME NEW w \in Workers, Application(w) PROVE FlagsOK'
  <2>1. ASSUME NEW m \in Msgs, Send(w, m) PROVE FlagsOK'
    BY Zenon, <2>1 DEF FlagsOK, Send, CallFlush, Call, Enqueue, CanSend, session, timers,
       polling, flight, env, endHist
  <2>2. CASE Close(w)
    BY Zenon, <2>2 DEF FlagsOK, Close, CallFlush, Call, Enqueue, stopTimersLocked, CanClose,
       polling, flight, env, endHist
  <2>3. CASE ServerClose(w)
    BY Zenon, <2>3 DEF FlagsOK, ServerClose, CloseNow, beginTeardown, Goto, stopTimersLocked,
       CanTeardown, polling, flight, env, outHist, endHist
  <2> QED
    BY Zenon, <1>3, <2>1, <2>2, <2>3 DEF Application
<1>4. CASE Client
  <2>1. ASSUME NEW w \in Workers, PostPong(w) PROVE FlagsOK'
    BY Zenon, <2>1 DEF FlagsOK, PostPong, onPong, session, polling, flight, locals, outHist,
       endHist
  <2>2. ASSUME NEW w \in Workers, PostClose(w) PROVE FlagsOK'
    BY Zenon, <2>2 DEF FlagsOK, PostClose, CloseNow, beginTeardown, Goto, stopTimersLocked,
       CanTeardown, polling, flight, env, outHist, endHist
  <2>3. ASSUME NEW p \in Polls, Poll(p) PROVE FlagsOK'
    BY Zenon, <2>3 DEF FlagsOK, Poll, Goto, session, timers, polling, flight, locals, env,
       outHist, endHist
  <2>4. ASSUME NEW p \in Polls, Cancel(p) PROVE FlagsOK'
    BY Zenon, <2>4 DEF FlagsOK, Cancel, Goto, CallClose, Call, session, timers, flight, env,
       outHist, endHist
  <2>5. ASSUME NEW c \in Conns, StartUpgrade(c) PROVE FlagsOK'
    BY Zenon, <2>5 DEF FlagsOK, StartUpgrade, Goto, Arm, CanUpgrade, timers, polling, flight,
       locals, env, outHist, endHist
  <2>6. ASSUME NEW c \in Conns, ReadProbe(c) PROVE FlagsOK'
    BY Zenon, <2>6 DEF FlagsOK, ReadProbe, Goto, Call, session, timers, polling, flight, env,
       outHist, endHist
  <2>7. ASSUME NEW c \in Conns, ReadUpgrade(c) PROVE FlagsOK'
    BY Zenon, <2>7 DEF FlagsOK, ReadUpgrade, Call, ClearUpgrade, UpgradeInFlight, polling,
       flight, env, outHist, endHist
  <2>8. ASSUME NEW c \in Conns, ReadPong(c) PROVE FlagsOK'
    BY Zenon, <2>8 DEF FlagsOK, ReadPong, onPong, session, polling, flight, locals, outHist,
       endHist
  <2>9. ASSUME NEW c \in Conns, ReadClose(c) PROVE FlagsOK'
    BY Zenon, <2>9 DEF FlagsOK, ReadClose, CloseNow, beginTeardown, Goto, stopTimersLocked,
       CanTeardown, polling, flight, env, outHist, endHist
  <2>10. ASSUME NEW c \in Conns, ReadError(c) PROVE FlagsOK'
    BY ZenonT(60), <2>10 DEF FlagsOK, ReadError, Goto, Call, CloseNow, beginTeardown,
       stopTimersLocked, CanTeardown, polling, flight, env, outHist, endHist, session, timers,
       locals
  <2> QED
    BY Zenon, <1>4, <2>1, <2>2, <2>3, <2>4, <2>5, <2>6, <2>7, <2>8, <2>9, <2>10 DEF Client
<1>5. ASSUME NEW p \in Polls, PollHandler(p) PROVE FlagsOK'
  <2>1. CASE Hold(p)
    BY Zenon, <2>1 DEF FlagsOK, Hold, Goto, CallClose, Call, CallFlush, session, timers, flight,
       env, outHist, endHist
  <2>2. CASE Respond(p)
    BY Zenon, <2>2 DEF FlagsOK, Respond, Goto, CallClose, Call, FromBuffer, session, timers,
       flight, env, endHist
  <2>3. CASE Drain(p)
    BY Zenon, <2>3 DEF FlagsOK, Drain, CallClose, Call, FromBuffer, session, timers, flight,
       env, endHist
  <2> QED
    BY Zenon, <1>5, <2>1, <2>2, <2>3 DEF PollHandler
<1>6. ASSUME NEW t \in Threads, Flush(t) PROVE FlagsOK'
  <2>1. CASE FlushClone(t)
    BY Zenon, <2>1 DEF FlagsOK, FlushClone, Goto, Return, Call, FlushFree, session, timers,
       polling, env, outHist, endHist
  <2>2. CASE SendPoll(t)
    BY Zenon, <2>2 DEF FlagsOK, SendPoll, Goto, NotSent, Return, Call, session, timers, flight,
       env, endHist
  <2>3. CASE Deliver(t)
    BY Zenon, <2>3 DEF FlagsOK, Deliver, Goto, Put, session, timers, flight, env, outHist,
       endHist
  <2>4. CASE SendConn(t)
    BY Zenon, <2>4 DEF FlagsOK, SendConn, Goto, NotSent, Return, Call, session, timers, polling,
       flight, env, outHist, endHist
  <2>5. CASE WriteConn(t)
    BY Zenon, <2>5 DEF FlagsOK, WriteConn, Goto, session, timers, polling, flight, locals, env,
       endHist
  <2>6. ASSUME NEW n \in 0..Len(batch), WriteFail(t, n) PROVE FlagsOK'
    BY Zenon, <2>6 DEF FlagsOK, WriteFail, CallClose, Call, session, timers, polling, env,
       endHist
  <2>7. CASE DropSent(t)
    BY Zenon, <2>7 DEF FlagsOK, DropSent, Goto, CallClose, Call, Return, session, timers,
       polling, env, outHist, endHist
  <2> QED
    BY Zenon, <1>6, <2>1, <2>2, <2>3, <2>4, <2>5, <2>6, <2>7 DEF Flush
<1>7. ASSUME NEW t \in Threads, CloseWithReason(t) PROVE FlagsOK'
  <2>1. CASE Teardown(t)
    BY ZenonT(60), <2>1 DEF FlagsOK, Teardown, Return, Call, beginTeardown, Goto,
       stopTimersLocked, CanTeardown, session, polling, env, outHist, endHist
  <2>2. CASE CloseStop(t)
    BY Zenon, <2>2 DEF FlagsOK, CloseStop, session, timers, polling, flight, env, outHist
  <2>3. CASE CloseOld(t)
    BY Zenon, <2>3 DEF FlagsOK, CloseOld, Goto, TakesPoll, session, timers, flight, env,
       outHist, endHist
  <2>4. CASE CloseDeliver(t)
    BY Zenon, <2>4 DEF FlagsOK, CloseDeliver, Goto, Put, session, timers, flight, env, outHist,
       endHist
  <2>5. CASE CloseUp(t)
    BY Zenon, <2>5 DEF FlagsOK, CloseUp, session, timers, polling, flight, env, outHist, endHist
  <2>6. CASE Released(t)
    BY Zenon, <2>6 DEF FlagsOK, Released, Goto, Return, Call, session, timers, polling, env,
       outHist, endHist
  <2>7. CASE Notify(t)
    BY Zenon, <2>7 DEF FlagsOK, Notify, Return, Call, session, timers, polling, env, outHist
  <2> QED
    BY Zenon, <1>7, <2>1, <2>2, <2>3, <2>4, <2>5, <2>6, <2>7 DEF CloseWithReason
<1>8. ASSUME NEW n \in Noops, Noop(n) PROVE FlagsOK'
  <2>1. CASE NoopTick(n)
    BY Zenon, <2>1 DEF FlagsOK, NoopTick, Goto, session, timers, polling, flight, locals, env,
       outHist, endHist
  <2>2. CASE NoopClaim(n)
    BY Zenon, <2>2 DEF FlagsOK, NoopClaim, Goto, session, timers, flight, env, outHist, endHist
  <2>3. CASE NoopDeliver(n)
    BY Zenon, <2>3 DEF FlagsOK, NoopDeliver, Goto, Put, session, timers, flight, env, outHist,
       endHist
  <2>4. CASE NoopStop(n)
    BY Zenon, <2>4 DEF FlagsOK, NoopStop, Goto, session, timers, polling, flight, locals, env,
       outHist, endHist
  <2> QED
    BY Zenon, <1>8, <2>1, <2>2, <2>3, <2>4 DEF Noop
<1>9. ASSUME NEW c \in Conns, onProbe(c) PROVE FlagsOK'
  BY Zenon, <1>9 DEF FlagsOK, onProbe, Goto, ProbeAnswered, timers, polling, flight, locals,
     env, outHist, endHist
<1>10. ASSUME NEW t \in Threads, Abort(t) PROVE FlagsOK'
  BY Zenon, <1>10 DEF FlagsOK, Abort, Goto, Return, Call, ClearUpgrade, UpgradeInFlight,
     polling, env, outHist, endHist
<1>11. CASE UNCHANGED vars
  BY Zenon, <1>11 DEF FlagsOK, vars, session, timers, polling, flight, locals, env, outHist,
     endHist
<1> QED
  BY Zenon, <1>11, <1>1, <1>2, <1>3, <1>4, <1>5, <1>6, <1>7, <1>8, <1>9, <1>10 DEF Next,
     Terminated

\* Every variable keeps its type in every behaviour of the session, whatever the numbers of
\* goroutines, polls, connections and messages.
THEOREM TypeCorrect == Spec => []TypeOK
<1>1. Init => TypeOK
  <2>1. Init => DataOK
    BY SessionAssumption DEF Init, DataOK, Transports, Threads, Seqs, Labels, Timers
  <2>2. Init => FlagsOK
    BY ZenonT(60) DEF Init, FlagsOK
  <2> QED
    BY Zenon, <2>1, <2>2 DEF TypeOK
<1>2. TypeOK /\ [Next]_vars => TypeOK'
  BY Zenon, DataStep, FlagsStep DEF TypeOK
<1> QED
  BY <1>1, <1>2, PTL DEF Spec
-----------------------------------------------------------------------------
(* The connection of a direct handshake waits for the handshake: HeldInv is *)
(* inductive.                                                               *)

\* HeldInv is preserved by every step.
LEMMA HeldStep == ASSUME DataOK, HeldInv, [Next]_vars PROVE HeldInv'
<1> USE LocalTypes, OwnedTypes, Disjoint
<1>1. CASE Handshake
  <2>1. CASE HandshakeWrite
    BY Zenon, <2>1 DEF HeldInv, HandshakeWrite, Goto, session, timers, polling, flight, locals,
       outHist, endHist
  <2>2. CASE HandshakeFail
    BY Zenon, <2>2 DEF HeldInv, HandshakeFail, session, timers, polling, flight, locals, env,
       outHist, endHist
  <2>3. CASE HandshakeOpen
    BY Zenon, <2>3 DEF HeldInv, HandshakeOpen, Goto, Arm, polling, flight, locals, env, outHist,
       endHist
  <2>4. CASE HandshakeHandler
    BY Zenon, <2>4 DEF HeldInv, HandshakeHandler, session, timers, polling, flight, locals, env,
       outHist, endHist
  <2> QED
    BY Zenon, <1>1, <2>1, <2>2, <2>3, <2>4 DEF Handshake
<1>2. ASSUME NEW w \in Workers, Worker(w) PROVE HeldInv'
  <2>1. CASE ArmClose(w)
    BY Zenon, <2>1 DEF HeldInv, ArmClose, Goto, Arm, session, polling, flight, locals, env,
       outHist, endHist
  <2>2. CASE sendPing(w)
    BY ZenonT(60), <2>2 DEF HeldInv, sendPing, Goto, Arm, Enqueue, session, polling, flight,
       locals, env, endHist
  <2>3. ASSUME NEW k \in Timers, Fire(w, k) PROVE HeldInv'
    BY Zenon, <2>3 DEF HeldInv, Fire, Call, session, polling, flight, env, outHist, endHist
  <2> QED
    BY Zenon, <1>2, <2>1, <2>2, <2>3 DEF Worker
<1>3. ASSUME NEW w \in Workers, Application(w) PROVE HeldInv'
  <2>1. ASSUME NEW m \in Msgs, Send(w, m) PROVE HeldInv'
    BY Zenon, <2>1 DEF HeldInv, Send, CallFlush, Call, Enqueue, CanSend, session, timers,
       polling, flight, env, endHist
  <2>2. CASE Close(w)
    BY Zenon, <2>2 DEF HeldInv, Close, CallFlush, Call, Enqueue, stopTimersLocked, CanClose,
       polling, flight, env, endHist
  <2>3. CASE ServerClose(w)
    BY Zenon, <2>3 DEF HeldInv, ServerClose, CloseNow, beginTeardown, Goto,
       stopTimersLocked, CanTeardown, polling, flight, env, outHist, endHist
  <2> QED
    BY Zenon, <1>3, <2>1, <2>2, <2>3 DEF Application
<1>4. CASE Client
  <2>1. ASSUME NEW w \in Workers, PostPong(w) PROVE HeldInv'
    BY Zenon, <2>1 DEF HeldInv, PostPong, onPong, session, polling, flight, locals, outHist,
       endHist
  <2>2. ASSUME NEW w \in Workers, PostClose(w) PROVE HeldInv'
    BY Zenon, <2>2 DEF HeldInv, PostClose, CloseNow, beginTeardown, Goto, stopTimersLocked,
       CanTeardown, polling, flight, env, outHist, endHist
  <2>3. ASSUME NEW p \in Polls, Poll(p) PROVE HeldInv'
    BY Zenon, <2>3 DEF HeldInv, Poll, Goto, session, timers, polling, flight, locals, env,
       outHist, endHist
  <2>4. ASSUME NEW p \in Polls, Cancel(p) PROVE HeldInv'
    BY SMTT(30), <2>4 DEF HeldInv, Cancel, Goto, CallClose, Call, session, timers, flight, env,
       outHist, endHist
  <2>5. ASSUME NEW c \in Conns, StartUpgrade(c) PROVE HeldInv'
    BY ZenonT(60), <2>5 DEF HeldInv, StartUpgrade, Goto, Arm, CanUpgrade, timers, polling, flight,
       locals, env, outHist, endHist
  <2>6. ASSUME NEW c \in Conns, ReadProbe(c) PROVE HeldInv'
    BY <2>6 DEF HeldInv, ReadProbe, Goto, Call, session, timers, polling, flight, env,
       outHist, endHist
  <2>7. ASSUME NEW c \in Conns, ReadUpgrade(c) PROVE HeldInv'
    BY ZenonT(60), <2>7 DEF HeldInv, ReadUpgrade, Call, ClearUpgrade, UpgradeInFlight, polling,
       flight, env, outHist, endHist
  <2>8. ASSUME NEW c \in Conns, ReadPong(c) PROVE HeldInv'
    BY Zenon, <2>8 DEF HeldInv, ReadPong, onPong, session, polling, flight, locals, outHist,
       endHist
  <2>9. ASSUME NEW c \in Conns, ReadClose(c) PROVE HeldInv'
    BY Zenon, <2>9 DEF HeldInv, ReadClose, CloseNow, beginTeardown, Goto, stopTimersLocked,
       CanTeardown, polling, flight, env, outHist, endHist
  <2>10. ASSUME NEW c \in Conns, ReadError(c) PROVE HeldInv'
    BY SMTT(60), <2>10 DEF HeldInv, ReadError, Goto, Call, CloseNow, beginTeardown,
       stopTimersLocked, CanTeardown, polling, flight, env, outHist, endHist, session, timers,
       locals
  <2> QED
    BY Zenon, <1>4, <2>1, <2>2, <2>3, <2>4, <2>5, <2>6, <2>7, <2>8, <2>9, <2>10 DEF Client
<1>5. ASSUME NEW p \in Polls, PollHandler(p) PROVE HeldInv'
  <2>1. CASE Hold(p)
    BY ZenonT(60), <2>1 DEF HeldInv, Hold, Goto, CallClose, Call, CallFlush, session, timers,
       flight, env, outHist, endHist
  <2>2. CASE Respond(p)
    BY <2>2 DEF HeldInv, Respond, Goto, CallClose, Call, FromBuffer, session, timers,
       flight, env, endHist
  <2>3. CASE Drain(p)
    BY Zenon, <2>3 DEF HeldInv, Drain, CallClose, Call, FromBuffer, session, timers,
       flight, env, endHist
  <2> QED
    BY Zenon, <1>5, <2>1, <2>2, <2>3 DEF PollHandler
<1>6. ASSUME NEW t \in Threads, Flush(t) PROVE HeldInv'
  <2>1. CASE FlushClone(t)
    BY ZenonT(60), <2>1 DEF HeldInv, FlushClone, Goto, Return, Call, FlushFree, session, timers,
       polling, env, outHist, endHist
  <2>2. CASE SendPoll(t)
    BY ZenonT(60), <2>2 DEF HeldInv, SendPoll, Goto, NotSent, Return, Call, session, timers,
       flight, env, endHist
  <2>3. CASE Deliver(t)
    BY Zenon, <2>3 DEF HeldInv, Deliver, Goto, Put, session, timers, flight, env, outHist,
       endHist
  <2>4. CASE SendConn(t)
    BY ZenonT(60), <2>4 DEF HeldInv, SendConn, Goto, NotSent, Return, Call, session, timers,
       polling, flight, env, outHist, endHist
  <2>5. CASE WriteConn(t)
    BY Zenon, <2>5 DEF HeldInv, WriteConn, Goto, session, timers, polling, flight, locals,
       env, endHist
  <2>6. ASSUME NEW n \in 0..Len(batch), WriteFail(t, n) PROVE HeldInv'
    BY Zenon, <2>6 DEF HeldInv, WriteFail, CallClose, Call, session, timers, polling, env,
       endHist
  <2>7. CASE DropSent(t)
    BY SMTT(60), <2>7 DEF HeldInv, DropSent, Goto, CallClose, Call, Return, session, timers,
       polling, env, outHist, endHist
  <2> QED
    BY ZenonT(60), <1>6, <2>1, <2>2, <2>3, <2>4, <2>5, <2>6, <2>7 DEF Flush
<1>7. ASSUME NEW t \in Threads, CloseWithReason(t) PROVE HeldInv'
  <2>1. CASE Teardown(t)
    BY SMTT(60), <2>1 DEF HeldInv, Teardown, Return, Call, beginTeardown, Goto, stopTimersLocked,
       CanTeardown, session, polling, env, outHist, endHist
  <2>2. CASE CloseStop(t)
    BY Zenon, <2>2 DEF HeldInv, CloseStop, session, timers, polling, flight, env, outHist
  <2>3. CASE CloseOld(t)
    BY ZenonT(60), <2>3 DEF HeldInv, CloseOld, Goto, TakesPoll, session, timers, flight, env,
       outHist, endHist
  <2>4. CASE CloseDeliver(t)
    BY Zenon, <2>4 DEF HeldInv, CloseDeliver, Goto, Put, session, timers, flight, env, outHist,
       endHist
  <2>5. CASE CloseUp(t)
    BY Zenon, <2>5 DEF HeldInv, CloseUp, session, timers, polling, flight, env, outHist, endHist
  <2>6. CASE Released(t)
    BY ZenonT(60), <2>6 DEF HeldInv, Released, Goto, Return, Call, session, timers, polling, env,
       outHist, endHist
  <2>7. CASE Notify(t)
    BY Zenon, <2>7 DEF HeldInv, Notify, Return, Call, session, timers, polling, env, outHist
  <2> QED
    BY Zenon, <1>7, <2>1, <2>2, <2>3, <2>4, <2>5, <2>6, <2>7 DEF CloseWithReason
<1>8. ASSUME NEW n \in Noops, Noop(n) PROVE HeldInv'
  <2>1. CASE NoopTick(n)
    BY ZenonT(60), <2>1 DEF HeldInv, NoopTick, Goto, session, timers, polling, flight, locals,
       env, outHist, endHist
  <2>2. CASE NoopClaim(n)
    BY Zenon, <2>2 DEF HeldInv, NoopClaim, Goto, session, timers, flight, env, outHist, endHist
  <2>3. CASE NoopDeliver(n)
    BY Zenon, <2>3 DEF HeldInv, NoopDeliver, Goto, Put, session, timers, flight, env, outHist,
       endHist
  <2>4. CASE NoopStop(n)
    BY ZenonT(60), <2>4 DEF HeldInv, NoopStop, Goto, session, timers, polling, flight, locals,
       env, outHist, endHist
  <2> QED
    BY Zenon, <1>8, <2>1, <2>2, <2>3, <2>4 DEF Noop
<1>9. ASSUME NEW c \in Conns, onProbe(c) PROVE HeldInv'
  <2>1. \A t \in Threads : pc[t] \notin {"idle", "onProbe"} => pc'[t] = pc[t]
    BY ZenonT(60), <1>9 DEF DataOK, onProbe, Goto
  <2> QED
    BY Zenon, <1>9, <2>1 DEF HeldInv, onProbe, locals
<1>10. ASSUME NEW t \in Threads, Abort(t) PROVE HeldInv'
  BY <1>10 DEF HeldInv, Abort, Goto, Return, Call, ClearUpgrade, UpgradeInFlight,
     polling, env, outHist, endHist
<1>11. CASE UNCHANGED vars
  BY Zenon, <1>11 DEF HeldInv, vars, session, timers, polling, flight, locals, env, outHist,
     endHist
<1> QED
  BY Zenon, <1>11, <1>1, <1>2, <1>3, <1>4, <1>5, <1>6, <1>7, <1>8, <1>9, <1>10 DEF Next,
     Terminated

-----------------------------------------------------------------------------
(* Every probe ends.                                                        *)

\* A probe is in flight exactly when its connection is recorded, never before the session is
\* open, and always with a way to its end.
UpInv ==
  /\ upgrading <=> upgradeTransport # Nil
  /\ state = "opening" => ~upgrading
  /\ ProbeBounded

\* A step that moves one goroutine, not one that aborts a probe, and leaves the session and
\* its timers alone preserves UpInv.
LEMMA UpOther ==
  ASSUME UpInv, NEW t \in Threads, OnlyMoves(t), pc[t] # "abort",
         UNCHANGED <<session, timers, up>>
  PROVE  UpInv'
  BY ZenonT(60) DEF UpInv, ProbeBounded, OnlyMoves, session, timers

\* UpInv is preserved by every step.
LEMMA UpStep == ASSUME TypeOK, HeldInv, UpInv, [Next]_vars PROVE UpInv'
<1> USE LocalTypes, OwnedTypes, Disjoint
<1>1. CASE Handshake
  <2>1. CASE HandshakeWrite
    BY Zenon, <2>1 DEF UpInv, ProbeBounded, TypeOK, Timers, HandshakeWrite, Goto, session,
       timers, polling, flight, locals, outHist, endHist
  <2>2. CASE HandshakeFail
    <3>1. \A t \in Threads : pc[t] = "abort" => pc'[t] = "abort"
      BY Zenon, <2>2, HandshakeMoves DEF TypeOK
    <3> QED
      BY Zenon, <2>2, <3>1 DEF UpInv, ProbeBounded, HandshakeFail, session, timers, locals
  <2>3. CASE HandshakeOpen
    BY Zenon, <2>3 DEF UpInv, ProbeBounded, TypeOK, Timers, HandshakeOpen, Goto, Arm, polling,
       flight, locals, env, outHist, endHist
  <2>4. CASE HandshakeHandler
    <3>1. \A t \in Threads : pc[t] = "abort" => pc'[t] = "abort"
      BY Zenon, <2>4, HandshakeMoves DEF TypeOK
    <3> QED
      BY Zenon, <2>4, <3>1 DEF UpInv, ProbeBounded, HandshakeHandler, session, timers, locals
  <2> QED
    BY Zenon, <1>1, <2>1, <2>2, <2>3, <2>4 DEF Handshake
<1>2. ASSUME NEW w \in Workers, Worker(w) PROVE UpInv'
  <2>1. CASE ArmClose(w)
    BY ZenonT(60), <2>1 DEF UpInv, ProbeBounded, TypeOK, Timers, ArmClose, Goto, Arm, session,
       polling, flight, locals, env, outHist, endHist
  <2>2. CASE sendPing(w)
    BY ZenonT(60), <2>2 DEF UpInv, ProbeBounded, TypeOK, Timers, sendPing, Goto, Arm, Enqueue,
       session, polling, flight, locals, env, endHist
  <2>3. ASSUME NEW k \in Timers, Fire(w, k) PROVE UpInv'
    BY Zenon, <2>3 DEF UpInv, ProbeBounded, TypeOK, Timers, Fire, Call, session, polling,
       flight, env, outHist, endHist
  <2> QED
    BY ZenonT(60), <1>2, <2>1, <2>2, <2>3 DEF Worker
<1>3. ASSUME NEW w \in Workers, Application(w) PROVE UpInv'
  <2>1. ASSUME NEW m \in Msgs, Send(w, m) PROVE UpInv'
    BY Zenon, <2>1 DEF UpInv, ProbeBounded, TypeOK, Timers, Send, CallFlush, Call, Enqueue,
       CanSend, session, timers, polling, flight, env, endHist
  <2>2. CASE Close(w)
    BY Zenon, <2>2 DEF UpInv, ProbeBounded, TypeOK, Timers, Close, CallFlush, Call, Enqueue,
       stopTimersLocked, CanClose, polling, flight, env, endHist
  <2>3. CASE ServerClose(w)
    BY Zenon, <2>3 DEF UpInv, ProbeBounded, TypeOK, Timers, ServerClose, CloseNow,
       beginTeardown, Goto, stopTimersLocked, CanTeardown, polling, flight, env, outHist,
       endHist
  <2> QED
    BY Zenon, <1>3, <2>1, <2>2, <2>3 DEF Application
<1>4. CASE Client
  <2>1. ASSUME NEW w \in Workers, PostPong(w) PROVE UpInv'
    BY Zenon, <2>1 DEF UpInv, ProbeBounded, TypeOK, Timers, PostPong, onPong, session, polling,
       flight, locals, outHist, endHist
  <2>2. ASSUME NEW w \in Workers, PostClose(w) PROVE UpInv'
    BY ZenonT(60), <2>2 DEF UpInv, ProbeBounded, TypeOK, Timers, PostClose, CloseNow,
       beginTeardown, Goto, stopTimersLocked, CanTeardown, polling, flight, env, outHist,
       endHist
  <2>3. ASSUME NEW p \in Polls, Poll(p) PROVE UpInv'
    BY ZenonT(60), <2>3 DEF UpInv, ProbeBounded, TypeOK, Timers, Poll, Goto, session, timers,
       polling, flight, locals, env, outHist, endHist
  <2>4. ASSUME NEW p \in Polls, Cancel(p) PROVE UpInv'
    BY ZenonT(60), <2>4 DEF UpInv, ProbeBounded, TypeOK, Timers, Cancel, Goto, CallClose, Call,
       session, timers, flight, env, outHist, endHist
  <2>5. ASSUME NEW c \in Conns, StartUpgrade(c) PROVE UpInv'
    BY SMTT(60), <2>5 DEF UpInv, ProbeBounded, TypeOK, Timers, StartUpgrade, Goto, Arm,
       CanUpgrade, timers, polling, flight, locals, env, outHist, endHist
  <2>6. ASSUME NEW c \in Conns, ReadProbe(c) PROVE UpInv'
    BY ZenonT(60), <2>6 DEF UpInv, ProbeBounded, TypeOK, Timers, ReadProbe, Goto, Call, session,
       timers, polling, flight, env, outHist, endHist
  <2>7. ASSUME NEW c \in Conns, ReadUpgrade(c) PROVE UpInv'
    BY Zenon, <2>7 DEF UpInv, ProbeBounded, TypeOK, Timers, ReadUpgrade, Call, ClearUpgrade,
       UpgradeInFlight, polling, flight, env, outHist, endHist
  <2>8. ASSUME NEW c \in Conns, ReadPong(c) PROVE UpInv'
    BY ZenonT(60), <2>8 DEF UpInv, ProbeBounded, TypeOK, Timers, ReadPong, onPong, session,
       polling, flight, locals, outHist, endHist
  <2>9. ASSUME NEW c \in Conns, ReadClose(c) PROVE UpInv'
    BY Zenon, <2>9 DEF UpInv, ProbeBounded, TypeOK, Timers, ReadClose, CloseNow,
       beginTeardown, Goto, stopTimersLocked, CanTeardown, polling, flight, env, outHist,
       endHist
  <2>10. ASSUME NEW c \in Conns, ReadError(c) PROVE UpInv'
    BY SMTT(60), <2>10 DEF UpInv, ProbeBounded, TypeOK, Timers, ReadError, Goto, Call, CloseNow,
       beginTeardown, stopTimersLocked, CanTeardown, polling, flight, env, outHist, endHist,
       session, timers, locals
  <2> QED
    BY Zenon, <1>4, <2>1, <2>2, <2>3, <2>4, <2>5, <2>6, <2>7, <2>8, <2>9, <2>10 DEF Client
<1>5. ASSUME NEW p \in Polls, PollHandler(p) PROVE UpInv'
  <2>1. CASE Hold(p)
    <3>1. OnlyMoves(p)
      BY Zenon, <2>1, GotoMoves, CallMoves DEF Hold, CallClose, CallFlush, TypeOK
    <3>2. UNCHANGED <<session, timers, up>> /\ pc[p] # "abort"
      BY Zenon, <2>1 DEF Hold
    <3> QED
      BY Zenon, <3>1, <3>2, UpOther
  <2>2. CASE Respond(p)
    BY Zenon, <2>2 DEF UpInv, ProbeBounded, TypeOK, Timers, Respond, Goto, CallClose, Call,
       FromBuffer, session, timers, flight, env, endHist
  <2>3. CASE Drain(p)
    BY ZenonT(60), <2>3 DEF UpInv, ProbeBounded, TypeOK, Timers, Drain, CallClose, Call,
       FromBuffer, session, timers, flight, env, endHist
  <2> QED
    BY ZenonT(60), <1>5, <2>1, <2>2, <2>3 DEF PollHandler
<1>6. ASSUME NEW t \in Threads, Flush(t) PROVE UpInv'
  <2>1. CASE FlushClone(t)
    BY ZenonT(60), <2>1 DEF UpInv, ProbeBounded, TypeOK, Timers, FlushClone, Goto, Return, Call,
       FlushFree, session, timers, polling, env, outHist, endHist
  <2>2. CASE SendPoll(t)
    BY Zenon, <2>2 DEF UpInv, ProbeBounded, TypeOK, Timers, SendPoll, Goto, NotSent,
       Return, Call, session, timers, flight, env, endHist
  <2>3. CASE Deliver(t)
    BY ZenonT(60), <2>3 DEF UpInv, ProbeBounded, TypeOK, Timers, Deliver, Goto, Put, session,
       timers, flight, env, outHist, endHist
  <2>4. CASE SendConn(t)
    BY ZenonT(60), <2>4 DEF UpInv, ProbeBounded, TypeOK, Timers, SendConn, Goto, NotSent,
       Return, Call, session, timers, polling, flight, env, outHist, endHist
  <2>5. CASE WriteConn(t)
    BY Zenon, <2>5 DEF UpInv, ProbeBounded, TypeOK, Timers, WriteConn, Goto, session, timers,
       polling, flight, locals, env, endHist
  <2>6. ASSUME NEW n \in 0..Len(batch), WriteFail(t, n) PROVE UpInv'
    BY Zenon, <2>6 DEF UpInv, ProbeBounded, TypeOK, Timers, WriteFail, CallClose, Call, session,
       timers, polling, env, endHist
  <2>7. CASE DropSent(t)
    BY ZenonT(60), <2>7 DEF UpInv, ProbeBounded, TypeOK, Timers, DropSent, Goto, CallClose,
       Call, Return, session, timers, polling, env, outHist, endHist
  <2> QED
    BY ZenonT(60), <1>6, <2>1, <2>2, <2>3, <2>4, <2>5, <2>6, <2>7 DEF Flush
<1>7. ASSUME NEW t \in Threads, CloseWithReason(t) PROVE UpInv'
  <2>1. CASE Teardown(t)
    BY SMTT(60), <2>1 DEF UpInv, ProbeBounded, TypeOK, Timers, Teardown, Return, Call,
       beginTeardown, Goto, stopTimersLocked, CanTeardown, session, polling, env, outHist,
       endHist
  <2>2. CASE CloseStop(t)
    BY ZenonT(60), <2>2 DEF UpInv, ProbeBounded, TypeOK, Timers, CloseStop, session, timers,
       polling, flight, env, outHist
  <2>3. CASE CloseOld(t)
    BY ZenonT(60), <2>3 DEF UpInv, ProbeBounded, TypeOK, Timers, CloseOld, Goto, TakesPoll,
       session, timers, flight, env, outHist, endHist
  <2>4. CASE CloseDeliver(t)
    BY Zenon, <2>4 DEF UpInv, ProbeBounded, TypeOK, Timers, CloseDeliver, Goto, Put, session,
       timers, flight, env, outHist, endHist
  <2>5. CASE CloseUp(t)
    BY Zenon, <2>5 DEF UpInv, ProbeBounded, TypeOK, Timers, CloseUp, session, timers,
       polling, flight, env, outHist, endHist
  <2>6. CASE Released(t)
    BY ZenonT(60), <2>6 DEF UpInv, ProbeBounded, TypeOK, Timers, Released, Goto, Return, Call,
       session, timers, polling, env, outHist, endHist
  <2>7. CASE Notify(t)
    BY Zenon, <2>7 DEF UpInv, ProbeBounded, TypeOK, Timers, Notify, Return, Call, session,
       timers, polling, env, outHist
  <2> QED
    BY ZenonT(60), <1>7, <2>1, <2>2, <2>3, <2>4, <2>5, <2>6, <2>7 DEF CloseWithReason
<1>8. ASSUME NEW n \in Noops, Noop(n) PROVE UpInv'
  <2>1. CASE NoopTick(n)
    BY Zenon, <2>1 DEF UpInv, ProbeBounded, TypeOK, Timers, NoopTick, Goto, session, timers,
       polling, flight, locals, env, outHist, endHist
  <2>2. CASE NoopClaim(n)
    BY Zenon, <2>2 DEF UpInv, ProbeBounded, TypeOK, Timers, NoopClaim, Goto, session, timers,
       flight, env, outHist, endHist
  <2>3. CASE NoopDeliver(n)
    BY ZenonT(60), <2>3 DEF UpInv, ProbeBounded, TypeOK, Timers, NoopDeliver, Goto, Put, session,
       timers, flight, env, outHist, endHist
  <2>4. CASE NoopStop(n)
    BY ZenonT(60), <2>4 DEF UpInv, ProbeBounded, TypeOK, Timers, NoopStop, Goto, session, timers,
       polling, flight, locals, env, outHist, endHist
  <2> QED
    BY Zenon, <1>8, <2>1, <2>2, <2>3, <2>4 DEF Noop
<1>9. ASSUME NEW c \in Conns, onProbe(c) PROVE UpInv'
  BY ZenonT(60), <1>9 DEF UpInv, ProbeBounded, TypeOK, Timers, onProbe, Goto, ProbeAnswered,
     timers, polling, flight, locals, env, outHist, endHist
<1>10. ASSUME NEW t \in Threads, Abort(t) PROVE UpInv'
  BY ZenonT(60), <1>10 DEF UpInv, ProbeBounded, TypeOK, Timers, Abort, Goto, Return, Call,
     ClearUpgrade, UpgradeInFlight, polling, env, outHist, endHist
<1>11. CASE UNCHANGED vars
  BY Zenon, <1>11 DEF UpInv, ProbeBounded, TypeOK, Timers, vars, session, timers, polling,
     flight, locals, env, outHist, endHist
<1> QED
  BY ZenonT(60), <1>11, <1>1, <1>2, <1>3, <1>4, <1>5, <1>6, <1>7, <1>8, <1>9, <1>10 DEF Next,
     Terminated
=============================================================================
