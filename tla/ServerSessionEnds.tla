------------------------- MODULE ServerSessionEnds -------------------------
(* How a session ends: EndInv, on the goroutine that tears it down, and     *)
(* NoSilentGap are inductive, and every step is of one of a few kinds to a  *)
(* flush that is under way, the end of the session among them.  And what an *)
(* open session keeps and a closed one leaves behind: HeartbeatAlive and    *)
(* NoConnLeak are inductive.                                                *)
EXTENDS ServerSessionTypes

\* Goroutine t has begun the teardown of the session and not yet run the close handler.
TeardownOwner(t) == job[t] = "teardown" \/ pc[t] = "notify"

\* One goroutine tears the session down: it takes the session out of the store before it runs
\* the close handler, and every routine returns to where its caller continues.
EndInv ==
  /\ \A t \in Threads :
       /\ ret[t] \in {"idle", "arm", "select", "done", "read"}
       /\ job[t] # Nil => pc[t] \in {"release", "closeDeliver"}
       /\ TeardownOwner(t) => /\ state = "closed" /\ notified = 0
                              /\ \A u \in Threads : TeardownOwner(u) => u = t
       /\ pc[t] = "notify" => ~registered
  /\ notified > 0 => state = "closed" /\ ~registered
  /\ notified <= 1

\* beginTeardown finds the session open, so nobody else owns its teardown or has notified yet.
LEMMA EndTaken ==
  ASSUME DataOK, EndInv, NEW t \in Threads, beginTeardown(t),
         pc[t] \notin {"release", "closeDeliver", "notify"},
         \A u \in Threads : ret'[u] \in {ret[u], "idle", "read", "done"},
         UNCHANGED <<registered, notified>>
  PROVE  EndInv'
<1>1. /\ \A u \in Threads : pc'[u] = IF u = t THEN "release" ELSE pc[u]
      /\ \A u \in Threads : job'[u] = IF u = t THEN "teardown" ELSE job[u]
      /\ state' = "closed" /\ state # "closed"
  BY Zenon, LocalTypes DEF beginTeardown, CanTeardown, Goto
<1>2. notified = 0
  BY <1>1 DEF EndInv, DataOK
<1> QED
  BY <1>1, <1>2 DEF EndInv, TeardownOwner

\* EndInv is preserved by every step.
LEMMA EndStep == ASSUME DataOK, HeldInv, EndInv, [Next]_vars PROVE EndInv'
<1> USE LocalTypes, ThreadTypes, NilIsNoString
<1>1. CASE Handshake
  <2>1. CASE HandshakeWrite
    BY ZenonT(60), <2>1 DEF EndInv, TeardownOwner, HandshakeWrite, Goto, session, timers,
       polling, flight, locals, outHist, endHist
  <2>2. CASE HandshakeFail
    <3>1. UNCHANGED <<state, ret, job, notified>> /\ (registered' => registered)
      BY Zenon, <2>2 DEF HandshakeFail, session, locals, endHist
    <3> QED
      BY <2>2, <3>1, HandshakeMoves DEF EndInv, TeardownOwner
  <2>3. CASE HandshakeOpen
    BY ZenonT(60), <2>3 DEF EndInv, TeardownOwner, HandshakeOpen, Goto, Arm, polling, flight,
       locals, env, outHist, endHist
  <2>4. CASE HandshakeHandler
    <3>1. UNCHANGED <<state, ret, job, notified>> /\ (registered' => registered)
      BY Zenon, <2>4 DEF HandshakeHandler, session, locals, endHist
    <3> QED
      BY <2>4, <3>1, HandshakeMoves DEF EndInv, TeardownOwner
  <2> QED
    BY Zenon, <1>1, <2>1, <2>2, <2>3, <2>4 DEF Handshake
<1>2. ASSUME NEW w \in Workers, Worker(w) PROVE EndInv'
  <2>1. CASE ArmClose(w)
    BY ZenonT(60), <2>1 DEF EndInv, TeardownOwner, ArmClose, Goto, Arm, session, polling,
       flight, locals, env, outHist, endHist
  <2>2. CASE sendPing(w)
    BY <2>2 DEF EndInv, TeardownOwner, sendPing, Goto, Arm, Enqueue, session, polling, flight,
       locals, env, endHist
  <2>3. ASSUME NEW k \in Timers, Fire(w, k) PROVE EndInv'
    BY ZenonT(60), <2>3 DEF EndInv, TeardownOwner, Fire, Call, session, polling, flight, env,
       outHist, endHist
  <2> QED
    BY Zenon, <1>2, <2>1, <2>2, <2>3 DEF Worker
<1>3. ASSUME NEW w \in Workers, Application(w) PROVE EndInv'
  <2>1. ASSUME NEW m \in Msgs, Send(w, m) PROVE EndInv'
    BY Zenon, <2>1 DEF EndInv, TeardownOwner, Send, CallFlush, Call, Enqueue, CanSend, session,
       timers, polling, flight, env, endHist
  <2>2. CASE Close(w)
    BY Zenon, <2>2 DEF EndInv, TeardownOwner, Close, CallFlush, Call, Enqueue, stopTimersLocked,
       CanClose, polling, flight, env, endHist
  <2>3. CASE ServerClose(w)
    <3>1. /\ w \in Threads /\ beginTeardown(w) /\ pc[w] \in {"idle", "read"}
          /\ UNCHANGED <<registered, notified>>
          /\ \A u \in Threads : ret'[u] \in {ret[u], "idle", "read", "done"}
      BY Zenon, <2>3 DEF ServerClose, CloseNow, endHist
    <3> QED
      BY Zenon, <3>1, EndTaken
  <2> QED
    BY Zenon, <1>3, <2>1, <2>2, <2>3 DEF Application
<1>4. CASE Client
  <2>1. ASSUME NEW w \in Workers, PostPong(w) PROVE EndInv'
    BY ZenonT(60), <2>1 DEF EndInv, TeardownOwner, PostPong, onPong, session, polling, flight,
       locals, outHist, endHist
  <2>2. ASSUME NEW w \in Workers, PostClose(w) PROVE EndInv'
    <3>1. /\ w \in Threads /\ beginTeardown(w) /\ pc[w] \in {"idle", "read"}
          /\ UNCHANGED <<registered, notified>>
          /\ \A u \in Threads : ret'[u] \in {ret[u], "idle", "read", "done"}
      BY Zenon, <2>2 DEF PostClose, CloseNow, endHist
    <3> QED
      BY Zenon, <3>1, EndTaken
  <2>3. ASSUME NEW p \in Polls, Poll(p) PROVE EndInv'
    BY ZenonT(60), <2>3 DEF EndInv, TeardownOwner, Poll, Goto, session, timers, polling, flight,
       locals, env, outHist, endHist
  <2>4. ASSUME NEW p \in Polls, Cancel(p) PROVE EndInv'
    BY <2>4 DEF EndInv, TeardownOwner, Cancel, Goto, CallClose, Call, session, timers, flight,
       env, outHist, endHist
  <2>5. ASSUME NEW c \in Conns, StartUpgrade(c) PROVE EndInv'
    BY <2>5 DEF EndInv, TeardownOwner, StartUpgrade, Goto, Arm, CanUpgrade, timers, polling,
       flight, locals, env, outHist, endHist
  <2>6. ASSUME NEW c \in Conns, ReadProbe(c) PROVE EndInv'
    BY <2>6 DEF EndInv, TeardownOwner, ReadProbe, Goto, Call, session, timers, polling, flight,
       env, outHist, endHist
  <2>7. ASSUME NEW c \in Conns, ReadUpgrade(c) PROVE EndInv'
    BY ZenonT(60), <2>7 DEF EndInv, TeardownOwner, ReadUpgrade, Call, ClearUpgrade,
       UpgradeInFlight, polling, flight, env, outHist, endHist
  <2>8. ASSUME NEW c \in Conns, ReadPong(c) PROVE EndInv'
    BY ZenonT(60), <2>8 DEF EndInv, TeardownOwner, ReadPong, onPong, session, polling, flight,
       locals, outHist, endHist
  <2>9. ASSUME NEW c \in Conns, ReadClose(c) PROVE EndInv'
    <3>1. /\ c \in Threads /\ beginTeardown(c) /\ pc[c] \in {"idle", "read"}
          /\ UNCHANGED <<registered, notified>>
          /\ \A u \in Threads : ret'[u] \in {ret[u], "idle", "read", "done"}
      BY Zenon, <2>9 DEF ReadClose, CloseNow, endHist
    <3> QED
      BY Zenon, <3>1, EndTaken
  <2>10. ASSUME NEW c \in Conns, ReadError(c) PROVE EndInv'
    <3>1. CASE CloseNow(c, "done")
      <4>1. /\ c \in Threads /\ beginTeardown(c) /\ pc[c] = "read"
            /\ UNCHANGED <<registered, notified>>
            /\ \A u \in Threads : ret'[u] \in {ret[u], "idle", "read", "done"}
        BY Zenon, <2>10, <3>1 DEF ReadError, CloseNow, endHist
      <4> QED
        BY Zenon, <4>1, EndTaken
    <3>2. CASE ~CloseNow(c, "done")
      BY <2>10, <3>2 DEF EndInv, TeardownOwner, ReadError, Goto, Call, session, locals, endHist
    <3> QED
      BY Zenon, <3>1, <3>2
  <2> QED
    BY Zenon, <1>4, <2>1, <2>2, <2>3, <2>4, <2>5, <2>6, <2>7, <2>8, <2>9, <2>10 DEF Client
<1>5. ASSUME NEW p \in Polls, PollHandler(p) PROVE EndInv'
  <2>1. CASE Hold(p)
    BY <2>1 DEF EndInv, TeardownOwner, Hold, Goto, CallClose, Call, CallFlush, session, timers,
       flight, env, outHist, endHist
  <2>2. CASE Respond(p)
    BY <2>2 DEF EndInv, TeardownOwner, Respond, Goto, CallClose, Call, FromBuffer, session,
       timers, flight, env, endHist
  <2>3. CASE Drain(p)
    BY ZenonT(60), <2>3 DEF EndInv, TeardownOwner, Drain, CallClose, Call, FromBuffer, session,
       timers, flight, env, endHist
  <2> QED
    BY ZenonT(60), <1>5, <2>1, <2>2, <2>3 DEF PollHandler
<1>6. ASSUME NEW t \in Threads, Flush(t) PROVE EndInv'
  <2>1. CASE FlushClone(t)
    BY <2>1 DEF EndInv, TeardownOwner, FlushClone, Goto, Return, Call, FlushFree, session,
       timers, polling, env, outHist, endHist
  <2>2. CASE SendPoll(t)
    BY SMTT(60), <2>2 DEF EndInv, TeardownOwner, SendPoll, Goto, NotSent, Return, Call, session,
       timers, flight, env, endHist
  <2>3. CASE Deliver(t)
    BY ZenonT(60), <2>3 DEF EndInv, TeardownOwner, Deliver, Goto, Put, session, timers, flight,
       env, outHist, endHist
  <2>4. CASE SendConn(t)
    BY SMTT(60), <2>4 DEF EndInv, TeardownOwner, SendConn, Goto, NotSent, Return, Call, session,
       timers, polling, flight, env, outHist, endHist
  <2>5. CASE WriteConn(t)
    BY ZenonT(60), <2>5 DEF EndInv, TeardownOwner, WriteConn, Goto, session, timers, polling,
       flight, locals, env, endHist
  <2>6. ASSUME NEW n \in 0..Len(batch), WriteFail(t, n) PROVE EndInv'
    BY ZenonT(60), <2>6 DEF EndInv, TeardownOwner, WriteFail, CallClose, Call, session, timers,
       polling, env, endHist
  <2>7. CASE DropSent(t)
    BY <2>7 DEF EndInv, TeardownOwner, DropSent, Goto, CallClose, Call, Return, session, timers,
       polling, env, outHist, endHist
  <2> QED
    BY ZenonT(60), <1>6, <2>1, <2>2, <2>3, <2>4, <2>5, <2>6, <2>7 DEF Flush
<1>7. ASSUME NEW t \in Threads, CloseWithReason(t) PROVE EndInv'
  <2>1. CASE Teardown(t)
    <3>1. CASE beginTeardown(t)
      <4>1. /\ pc[t] = "teardown" /\ UNCHANGED <<ret, registered, notified>>
        BY ZenonT(60), <2>1, <3>1 DEF Teardown, beginTeardown, CanTeardown, endHist
      <4> QED
        BY Zenon, <3>1, <4>1, EndTaken
    <3>2. CASE Return(t) /\ UNCHANGED <<session, job>>
      BY ZenonT(60), <2>1, <3>2 DEF EndInv, TeardownOwner, Teardown, Return, Call, session,
         endHist
    <3> QED
      BY Zenon, <2>1, <3>1, <3>2 DEF Teardown
  <2>2. CASE CloseStop(t)
    BY ZenonT(60), <2>2 DEF EndInv, TeardownOwner, CloseStop, session, timers, polling, flight,
       env, outHist
  <2>3. CASE CloseOld(t)
    BY <2>3 DEF EndInv, TeardownOwner, CloseOld, Goto, TakesPoll, session, timers, flight, env,
       outHist, endHist
  <2>4. CASE CloseDeliver(t)
    BY ZenonT(60), <2>4 DEF EndInv, TeardownOwner, CloseDeliver, Goto, Put, session, timers,
       flight, env, outHist, endHist
  <2>5. CASE CloseUp(t)
    BY ZenonT(60), <2>5 DEF EndInv, TeardownOwner, CloseUp, session, timers, polling, flight,
       env, outHist, endHist
  <2>6. CASE Released(t)
    <3>1. CASE job[t] = "teardown"
      <4>1. /\ \A u \in Threads : pc'[u] = IF u = t THEN "notify" ELSE pc[u]
            /\ \A u \in Threads : job'[u] = IF u = t THEN Nil ELSE job[u]
        BY Zenon, <2>6, <3>1 DEF Released, Goto, DataOK
      <4>2. ~registered' /\ UNCHANGED <<ret, state, notified>>
        BY Zenon, <2>6, <3>1 DEF Released, session, endHist
      <4> QED
        BY <3>1, <4>1, <4>2 DEF EndInv, TeardownOwner, DataOK
    <3>2. CASE job[t] # "teardown"
      <4>1. /\ \A u \in Threads : pc'[u] = IF u = t THEN pc'[t] ELSE pc[u]
            /\ \A u \in Threads : job'[u] = IF u = t THEN Nil ELSE job[u]
            /\ \A u \in Threads : ret'[u] \in {ret[u], "idle"}
            /\ pc'[t] # "notify"
        BY <2>6, <3>2 DEF Released, Goto, Return, Call, DataOK, EndInv
      <4>2. registered' = registered /\ UNCHANGED <<state, notified>>
        BY ZenonT(60), <2>6, <3>2 DEF Released, session, endHist
      <4> QED
        BY SMTT(30), <3>2, <4>1, <4>2 DEF EndInv, TeardownOwner
    <3> QED
      BY ZenonT(60), <3>1, <3>2
  <2>7. CASE Notify(t)
    <3>1. /\ \A u \in Threads : pc'[u] = IF u = t THEN ret[t] ELSE pc[u]
          /\ \A u \in Threads : ret'[u] = IF u = t THEN "idle" ELSE ret[u]
          /\ UNCHANGED <<state, registered, job>> /\ pc[t] = "notify"
      BY Zenon, <2>7 DEF Notify, Return, Call, session, DataOK
    <3>2. notified' \in {notified, notified + 1}
      BY <2>7 DEF Notify, DataOK
    <3> QED
      BY <3>1, <3>2 DEF EndInv, TeardownOwner, DataOK
  <2> QED
    BY Zenon, <1>7, <2>1, <2>2, <2>3, <2>4, <2>5, <2>6, <2>7 DEF CloseWithReason
<1>8. ASSUME NEW n \in Noops, Noop(n) PROVE EndInv'
  <2>1. CASE NoopTick(n)
    BY ZenonT(60), <2>1 DEF EndInv, TeardownOwner, NoopTick, Goto, session, timers, polling,
       flight, locals, env, outHist, endHist
  <2>2. CASE NoopClaim(n)
    BY ZenonT(60), <2>2 DEF EndInv, TeardownOwner, NoopClaim, Goto, session, timers, flight,
       env, outHist, endHist
  <2>3. CASE NoopDeliver(n)
    BY ZenonT(60), <2>3 DEF EndInv, TeardownOwner, NoopDeliver, Goto, Put, session, timers,
       flight, env, outHist, endHist
  <2>4. CASE NoopStop(n)
    BY ZenonT(60), <2>4 DEF EndInv, TeardownOwner, NoopStop, Goto, session, timers, polling,
       flight, locals, env, outHist, endHist
  <2> QED
    BY ZenonT(60), <1>8, <2>1, <2>2, <2>3, <2>4 DEF Noop
<1>9. ASSUME NEW c \in Conns, onProbe(c) PROVE EndInv'
  BY <1>9 DEF EndInv, TeardownOwner, onProbe, Goto, ProbeAnswered, timers, polling, flight,
     locals, env, outHist, endHist
<1>10. ASSUME NEW t \in Threads, Abort(t) PROVE EndInv'
  BY <1>10 DEF EndInv, TeardownOwner, Abort, Goto, Return, Call, ClearUpgrade, UpgradeInFlight,
     polling, env, outHist, endHist
<1>11. CASE UNCHANGED vars
  BY ZenonT(60), <1>11 DEF EndInv, TeardownOwner, vars, session, timers, polling, flight,
     locals, env, outHist, endHist
<1> QED
  BY Zenon, <1>11, <1>1, <1>2, <1>3, <1>4, <1>5, <1>6, <1>7, <1>8, <1>9, <1>10 DEF Next,
     Terminated
-----------------------------------------------------------------------------
(* A payload that was lost ends the session.                                *)

\* NoSilentGap is preserved by every step.
LEMMA GapStep == ASSUME TypeOK, HeldInv, NoSilentGap, [Next]_vars PROVE NoSilentGap'
<1> USE LocalTypes, ThreadTypes
<1>1. CASE Handshake
  <2>1. CASE HandshakeWrite
    BY Zenon, <2>1 DEF NoSilentGap, TypeOK, HandshakeWrite, Goto, session, timers, polling,
       flight, locals, outHist, endHist
  <2>2. CASE HandshakeFail
    <3>1. \A t \in Threads : pc[t] = "teardown" => pc'[t] = "teardown"
      BY Zenon, <2>2, HandshakeMoves DEF TypeOK
    <3> QED
      BY Zenon, <2>2, <3>1 DEF NoSilentGap, HandshakeFail, session, outHist
  <2>3. CASE HandshakeOpen
    BY Zenon, <2>3 DEF NoSilentGap, TypeOK, HandshakeOpen, Goto, Arm, polling, flight, locals,
       env, outHist, endHist
  <2>4. CASE HandshakeHandler
    <3>1. \A t \in Threads : pc[t] = "teardown" => pc'[t] = "teardown"
      BY Zenon, <2>4, HandshakeMoves DEF TypeOK
    <3> QED
      BY Zenon, <2>4, <3>1 DEF NoSilentGap, HandshakeHandler, session, outHist
  <2> QED
    BY Zenon, <1>1, <2>1, <2>2, <2>3, <2>4 DEF Handshake
<1>2. ASSUME NEW w \in Workers, Worker(w) PROVE NoSilentGap'
  <2>1. CASE ArmClose(w)
    BY Zenon, <2>1 DEF NoSilentGap, TypeOK, ArmClose, Goto, Arm, session, polling, flight,
       locals, env, outHist, endHist
  <2>2. CASE sendPing(w)
    BY Zenon, <2>2 DEF NoSilentGap, TypeOK, sendPing, Goto, Arm, Enqueue, session, polling,
       flight, locals, env, endHist
  <2>3. ASSUME NEW k \in Timers, Fire(w, k) PROVE NoSilentGap'
    BY Zenon, <2>3 DEF NoSilentGap, TypeOK, Fire, Call, session, polling, flight, env, outHist,
       endHist
  <2> QED
    BY Zenon, <1>2, <2>1, <2>2, <2>3 DEF Worker
<1>3. ASSUME NEW w \in Workers, Application(w) PROVE NoSilentGap'
  <2>1. ASSUME NEW m \in Msgs, Send(w, m) PROVE NoSilentGap'
    BY Zenon, <2>1 DEF NoSilentGap, TypeOK, Send, CallFlush, Call, Enqueue, CanSend, session,
       timers, polling, flight, env, endHist
  <2>2. CASE Close(w)
    BY Zenon, <2>2 DEF NoSilentGap, TypeOK, Close, CallFlush, Call, Enqueue, stopTimersLocked,
       CanClose, polling, flight, env, endHist
  <2>3. CASE ServerClose(w)
    BY Zenon, <2>3 DEF NoSilentGap, TypeOK, ServerClose, CloseNow, beginTeardown, Goto,
       stopTimersLocked, CanTeardown, polling, flight, env, outHist, endHist
  <2> QED
    BY Zenon, <1>3, <2>1, <2>2, <2>3 DEF Application
<1>4. CASE Client
  <2>1. ASSUME NEW w \in Workers, PostPong(w) PROVE NoSilentGap'
    BY Zenon, <2>1 DEF NoSilentGap, TypeOK, PostPong, onPong, session, polling, flight, locals,
       outHist, endHist
  <2>2. ASSUME NEW w \in Workers, PostClose(w) PROVE NoSilentGap'
    BY Zenon, <2>2 DEF NoSilentGap, TypeOK, PostClose, CloseNow, beginTeardown, Goto,
       stopTimersLocked, CanTeardown, polling, flight, env, outHist, endHist
  <2>3. ASSUME NEW p \in Polls, Poll(p) PROVE NoSilentGap'
    BY Zenon, <2>3 DEF NoSilentGap, TypeOK, Poll, Goto, session, timers, polling, flight,
       locals, env, outHist, endHist
  <2>4. ASSUME NEW p \in Polls, Cancel(p) PROVE NoSilentGap'
    BY ZenonT(60), <2>4 DEF NoSilentGap, TypeOK, Cancel, Goto, CallClose, Call, session, timers,
       flight, env, outHist, endHist
  <2>5. ASSUME NEW c \in Conns, StartUpgrade(c) PROVE NoSilentGap'
    BY Zenon, <2>5 DEF NoSilentGap, TypeOK, StartUpgrade, Goto, Arm, CanUpgrade, timers,
       polling, flight, locals, env, outHist, endHist
  <2>6. ASSUME NEW c \in Conns, ReadProbe(c) PROVE NoSilentGap'
    BY Zenon, <2>6 DEF NoSilentGap, TypeOK, ReadProbe, Goto, Call, session, timers, polling,
       flight, env, outHist, endHist
  <2>7. ASSUME NEW c \in Conns, ReadUpgrade(c) PROVE NoSilentGap'
    BY Zenon, <2>7 DEF NoSilentGap, TypeOK, ReadUpgrade, Call, ClearUpgrade, UpgradeInFlight,
       polling, flight, env, outHist, endHist
  <2>8. ASSUME NEW c \in Conns, ReadPong(c) PROVE NoSilentGap'
    BY Zenon, <2>8 DEF NoSilentGap, TypeOK, ReadPong, onPong, session, polling, flight, locals,
       outHist, endHist
  <2>9. ASSUME NEW c \in Conns, ReadClose(c) PROVE NoSilentGap'
    BY Zenon, <2>9 DEF NoSilentGap, TypeOK, ReadClose, CloseNow, beginTeardown, Goto,
       stopTimersLocked, CanTeardown, polling, flight, env, outHist, endHist
  <2>10. ASSUME NEW c \in Conns, ReadError(c) PROVE NoSilentGap'
    <3>1. CASE CloseNow(c, "done")
      BY Zenon, <3>1 DEF CloseNow, beginTeardown, NoSilentGap
    <3>2. CASE ~CloseNow(c, "done")
      <4>1. \A t \in Threads : pc[t] = "teardown" => pc'[t] = "teardown"
        BY ZenonT(60), <2>10, <3>2 DEF ReadError, Goto, Call, TypeOK, DataOK
      <4> QED
        BY Zenon, <2>10, <3>2, <4>1 DEF ReadError, NoSilentGap, session, outHist
    <3> QED
      BY Zenon, <3>1, <3>2
  <2> QED
    BY Zenon, <1>4, <2>1, <2>2, <2>3, <2>4, <2>5, <2>6, <2>7, <2>8, <2>9, <2>10 DEF Client
<1>5. ASSUME NEW p \in Polls, PollHandler(p) PROVE NoSilentGap'
  <2>1. CASE Hold(p)
    BY ZenonT(60), <2>1 DEF NoSilentGap, TypeOK, Hold, Goto, CallClose, Call, CallFlush,
       session, timers, flight, env, outHist, endHist
  <2>2. CASE Respond(p)
    <3>1. CASE CallClose(p, "transport_error", "done")
      <4>1. p \in Threads /\ pc'[p] = "teardown"
        BY Zenon, <3>1, Disjoint DEF CallClose, Call, TypeOK, DataOK
      <4> QED
        BY Zenon, <4>1 DEF NoSilentGap
    <3>2. CASE Goto(p, "done") /\ UNCHANGED gap
      <4>1. \A t \in Threads : pc[t] = "teardown" => pc'[t] = "teardown"
        BY Zenon, <2>2, <3>2 DEF Respond, Goto, TypeOK, DataOK
      <4> QED
        BY Zenon, <2>2, <3>2, <4>1 DEF Respond, NoSilentGap, session
    <3> QED
      BY Zenon, <2>2, <3>1, <3>2 DEF Respond
  <2>3. CASE Drain(p)
    BY Zenon, <2>3 DEF NoSilentGap, TypeOK, Drain, CallClose, Call, FromBuffer, session, timers,
       flight, env, endHist
  <2> QED
    BY Zenon, <1>5, <2>1, <2>2, <2>3 DEF PollHandler
<1>6. ASSUME NEW t \in Threads, Flush(t) PROVE NoSilentGap'
  <2>1. CASE FlushClone(t)
    BY Zenon, <2>1 DEF NoSilentGap, TypeOK, FlushClone, Goto, Return, Call, FlushFree, session,
       timers, polling, env, outHist, endHist
  <2>2. CASE SendPoll(t)
    BY Zenon, <2>2 DEF NoSilentGap, TypeOK, SendPoll, Goto, NotSent, Return, Call, session,
       timers, flight, env, endHist
  <2>3. CASE Deliver(t)
    BY Zenon, <2>3 DEF NoSilentGap, TypeOK, Deliver, Goto, Put, session, timers, flight, env,
       outHist, endHist
  <2>4. CASE SendConn(t)
    BY Zenon, <2>4 DEF NoSilentGap, TypeOK, SendConn, Goto, NotSent, Return, Call, session,
       timers, polling, flight, env, outHist, endHist
  <2>5. CASE WriteConn(t)
    BY Zenon, <2>5 DEF NoSilentGap, TypeOK, WriteConn, Goto, session, timers, polling, flight,
       locals, env, endHist
  <2>6. ASSUME NEW n \in 0..Len(batch), WriteFail(t, n) PROVE NoSilentGap'
    BY Zenon, <2>6 DEF NoSilentGap, TypeOK, WriteFail, CallClose, Call, session, timers,
       polling, env, endHist
  <2>7. CASE DropSent(t)
    BY ZenonT(60), <2>7 DEF NoSilentGap, TypeOK, DropSent, Goto, CallClose, Call, Return,
       session, timers, polling, env, outHist, endHist
  <2> QED
    BY Zenon, <1>6, <2>1, <2>2, <2>3, <2>4, <2>5, <2>6, <2>7 DEF Flush
<1>7. ASSUME NEW t \in Threads, CloseWithReason(t) PROVE NoSilentGap'
  <2>1. CASE Teardown(t)
    BY Zenon, <2>1 DEF NoSilentGap, TypeOK, Teardown, Return, Call, beginTeardown, Goto,
       stopTimersLocked, CanTeardown, session, polling, env, outHist, endHist
  <2>2. CASE CloseStop(t)
    BY Zenon, <2>2 DEF NoSilentGap, TypeOK, CloseStop, session, timers, polling, flight, env,
       outHist
  <2>3. CASE CloseOld(t)
    BY Zenon, <2>3 DEF NoSilentGap, TypeOK, CloseOld, Goto, TakesPoll, session, timers, flight,
       env, outHist, endHist
  <2>4. CASE CloseDeliver(t)
    BY Zenon, <2>4 DEF NoSilentGap, TypeOK, CloseDeliver, Goto, Put, session, timers, flight,
       env, outHist, endHist
  <2>5. CASE CloseUp(t)
    BY Zenon, <2>5 DEF NoSilentGap, TypeOK, CloseUp, session, timers, polling, flight, env,
       outHist, endHist
  <2>6. CASE Released(t)
    BY Zenon, <2>6 DEF NoSilentGap, TypeOK, Released, Goto, Return, Call, session, timers,
       polling, env, outHist, endHist
  <2>7. CASE Notify(t)
    BY Zenon, <2>7 DEF NoSilentGap, TypeOK, Notify, Return, Call, session, timers, polling, env,
       outHist
  <2> QED
    BY Zenon, <1>7, <2>1, <2>2, <2>3, <2>4, <2>5, <2>6, <2>7 DEF CloseWithReason
<1>8. ASSUME NEW n \in Noops, Noop(n) PROVE NoSilentGap'
  <2>1. CASE NoopTick(n)
    BY Zenon, <2>1 DEF NoSilentGap, TypeOK, NoopTick, Goto, session, timers, polling, flight,
       locals, env, outHist, endHist
  <2>2. CASE NoopClaim(n)
    BY Zenon, <2>2 DEF NoSilentGap, TypeOK, NoopClaim, Goto, session, timers, flight, env,
       outHist, endHist
  <2>3. CASE NoopDeliver(n)
    BY Zenon, <2>3 DEF NoSilentGap, TypeOK, NoopDeliver, Goto, Put, session, timers, flight,
       env, outHist, endHist
  <2>4. CASE NoopStop(n)
    BY Zenon, <2>4 DEF NoSilentGap, TypeOK, NoopStop, Goto, session, timers, polling, flight,
       locals, env, outHist, endHist
  <2> QED
    BY Zenon, <1>8, <2>1, <2>2, <2>3, <2>4 DEF Noop
<1>9. ASSUME NEW c \in Conns, onProbe(c) PROVE NoSilentGap'
  BY Zenon, <1>9 DEF NoSilentGap, TypeOK, onProbe, Goto, ProbeAnswered, timers, polling, flight,
     locals, env, outHist, endHist
<1>10. ASSUME NEW t \in Threads, Abort(t) PROVE NoSilentGap'
  BY Zenon, <1>10 DEF NoSilentGap, TypeOK, Abort, Goto, Return, Call, ClearUpgrade,
     UpgradeInFlight, polling, env, outHist, endHist
<1>11. CASE UNCHANGED vars
  BY Zenon, <1>11 DEF NoSilentGap, TypeOK, vars, session, timers, polling, flight, locals, env,
     outHist, endHist
<1> QED
  BY Zenon, <1>11, <1>1, <1>2, <1>3, <1>4, <1>5, <1>6, <1>7, <1>8, <1>9, <1>10 DEF Next,
     Terminated
-----------------------------------------------------------------------------
(* Flush, and what the other steps are to it.                                *)

\* Goroutine t is between cloning the buffer and the end of its round.
Flushing(t) == pc[t] \in {"send", "deliver", "write", "drop"}

\* Goroutine t is about to close the session because flush has emptied the buffer.
Drained(t) == pc[t] = "teardown" /\ why[t] = "drained"

\* Its write has failed, and it is about to close the session inside flush.
Failing(t) == pc[t] = "teardown" /\ why[t] = "transport_error" /\ flushMu = t

\* It has handed over the batch, which is still in the buffer.
Handed(t) == pc[t] \in {"deliver", "drop"}

\* flushMu excludes every other round of flush, and is held until flush returns.
MuInv ==
  \A t \in Threads :
    /\ Flushing(t) => flushMu = t /\ batch # <<>>
    /\ flushMu = t => pc[t] \in {"flush", "send", "deliver", "write", "drop", "teardown",
                                 "release", "closeDeliver", "notify"}
    /\ Drained(t) => flushMu = t /\ state \in {"closing", "closed"}

\* The buffer is the end of what was queued, and begins where the transports' packets end,
\* but for a batch already handed over or lost to a failed write.
OrderInv ==
  /\ InOrderOnce
  /\ Len(writeBuffer) <= Len(accepted)
  /\ \A i \in 1..Len(writeBuffer) :
       writeBuffer[i] = accepted[Len(accepted) - Len(writeBuffer) + i]
  /\ \A t \in Threads : pc[t] \in {"send", "write"} =>
       /\ Len(handed) + Len(batch) <= Len(accepted)
       /\ \A i \in 1..Len(batch) : batch[i] = accepted[Len(handed) + i]
  /\ state # "closed" =>
       /\ \A t \in Threads : Flushing(t) => Len(batch) <= Len(writeBuffer)
       /\ \A t \in Threads : Handed(t) =>
            Len(handed) + Len(writeBuffer) = Len(accepted) + Len(batch)
       /\ \/ \E t \in Threads : Handed(t) \/ Failing(t)
          \/ Len(handed) + Len(writeBuffer) = Len(accepted)
  /\ state = "closed" => writeBuffer = <<>>
  /\ state = "closing" => accepted # <<>> /\ accepted[Len(accepted)] = "close"
  /\ GracefulCloseDelivers

\* Packets that a transport could take are on their way, also when the round in progress is
\* one for the transport before the upgrade.
WakeInv ==
  /\ state # "closed" => transport # Nil
  /\ NoLostWakeup
  /\ \A t \in Threads : Flushing(t) /\ target # transport /\ state # "closed" =>
       \E u \in Threads \ {t} : pc[u] = "flush" \/ job[u] = "complete"

\* What flush relies on and keeps.
FlushInv == MuInv /\ OrderInv /\ WakeInv

\* Goroutine u takes no part in flush in this step.
KeepsFlush(u) ==
  /\ job[u] = "complete" => job'[u] = "complete" \/ pc'[u] = "flush"
  /\ \/ pc'[u] = pc[u] /\ why'[u] = why[u] /\ (flushMu' = u <=> flushMu = u)
     \/ /\ pc[u] \notin {"flush", "send", "deliver", "write", "drop"}
        /\ pc[u] = "teardown" => state = "closed"
        /\ pc'[u] \notin {"send", "deliver", "write", "drop"}
        /\ ~Drained(u)'
        /\ flushMu' = u => /\ flushMu = u
                           /\ pc'[u] \in {"flush", "release", "closeDeliver", "notify"}

\* A step that flush does not notice, but for a poll whose handler is going to flush.
Quiet ==
  /\ \A u \in Threads : KeepsFlush(u)
  /\ UNCHANGED <<transport, writeBuffer, accepted, handed, batch, target>>
  /\ state' = state \/ (state = "opening" /\ state' = "open")
  /\ closed \subseteq closed'
  /\ dataCh' # Nil => dataCh # Nil \/ \E u \in Threads : pc'[u] = "flush"

\* Goroutine t closes the session.
Ends(t) ==
  /\ pc[t] \in {"idle", "read", "teardown"}
  /\ beginTeardown(t)
  /\ \A u \in Threads \ {t} : why'[u] = why[u]
  /\ UNCHANGED <<flushMu, batch, target, accepted, handed>>

\* Goroutine w queues packet x and is going to flush.
Queues(w, x) ==
  /\ pc[w] \in {"idle", "sendPing"}
  /\ pc' = [pc EXCEPT ![w] = "flush"]
  /\ state \in {"opening", "open"}
  /\ Enqueue(x)
  /\ state' = state \/ (state' = "closing" /\ x = "close")
  /\ UNCHANGED <<transport, why, job, flushMu, batch, target, handed>>

\* What a step is to flush.
Kind ==
  \/ Quiet
  \/ \E t \in Threads : Ends(t) \/ Flush(t)
  \/ \E w \in Workers, x \in Packets : Queues(w, x)
  \/ \E c \in Conns : ReadUpgrade(c)

\* Every step is of one of the kinds.
LEMMA KindStep == ASSUME DataOK, HeldInv, EndInv, MuInv, [Next]_vars PROVE Kind
<1> USE LocalTypes, ThreadTypes, NilIsNoString
<1>0. /\ Quiet => Kind
      /\ \A t \in Threads : Ends(t) \/ Flush(t) => Kind
      /\ \A w \in Workers, x \in Packets : Queues(w, x) => Kind
      /\ \A c \in Conns : ReadUpgrade(c) => Kind
  BY Zenon DEF Kind
<1>1. CASE Handshake
  <2>1. CASE HandshakeWrite
    <3>1. \A u \in Threads : KeepsFlush(u)
      BY Zenon, <2>1 DEF KeepsFlush, Drained, MuInv, HandshakeWrite, Goto, flight, locals
    <3> QED
      BY Zenon, <1>0, <2>1, <3>1 DEF Quiet, HandshakeWrite, session, polling, flight, outHist
  <2>2. CASE HandshakeFail
    <3>1. \A u \in Threads : KeepsFlush(u)
      BY Zenon, <2>2, HandshakeMoves DEF KeepsFlush, Drained, HandshakeFail, locals, flight,
         MuInv, EndInv
    <3> QED
      BY Zenon, <1>0, <2>2, <3>1 DEF Quiet, HandshakeFail, session, flight, polling, outHist
  <2>3. CASE HandshakeOpen
    <3>1. \A u \in Threads : KeepsFlush(u)
      BY Zenon, <2>3 DEF KeepsFlush, Drained, MuInv, HandshakeOpen, Goto, Arm, flight, locals
    <3> QED
      BY Zenon, <1>0, <2>3, <3>1 DEF Quiet, HandshakeOpen, polling, flight, outHist
  <2>4. CASE HandshakeHandler
    <3>1. \A u \in Threads : KeepsFlush(u)
      BY ZenonT(60), <2>4, HandshakeMoves DEF KeepsFlush, Drained, HandshakeHandler, locals,
         flight, MuInv, EndInv
    <3> QED
      BY Zenon, <1>0, <2>4, <3>1 DEF Quiet, HandshakeHandler, session, flight, polling, outHist
  <2> QED
    BY Zenon, <1>1, <2>1, <2>2, <2>3, <2>4 DEF Handshake
<1>2. ASSUME NEW w \in Workers, Worker(w) PROVE Kind
  <2>1. CASE ArmClose(w)
    <3>1. \A u \in Threads : KeepsFlush(u)
      BY Zenon, <2>1 DEF KeepsFlush, Drained, MuInv, ArmClose, Goto, Arm, flight, locals
    <3> QED
      BY Zenon, <1>0, <2>1, <3>1 DEF Quiet, ArmClose, session, polling, flight, outHist
  <2>2. CASE sendPing(w)
    <3>1. CASE state = "open"
      <4>1. "ping" \in Packets /\ Queues(w, "ping")
        BY Zenon, <2>2, <3>1 DEF Queues, sendPing, Goto, session, flight, locals, Packets
      <4> QED
        BY Zenon, <1>0, <4>1
    <3>2. CASE state # "open"
      <4>1. \A u \in Threads : KeepsFlush(u)
        BY Zenon, <2>2, <3>2 DEF KeepsFlush, Drained, sendPing, Goto, MuInv, locals, flight
      <4> QED
        BY Zenon, <1>0, <2>2, <3>2, <4>1 DEF Quiet, sendPing, session, polling, flight
    <3> QED
      BY Zenon, <3>1, <3>2
  <2>3. ASSUME NEW k \in Timers, Fire(w, k) PROVE Kind
    <3>1. \A u \in Threads : KeepsFlush(u)
      BY Zenon, <2>3 DEF KeepsFlush, Drained, MuInv, Fire, Call, flight
    <3> QED
      BY Zenon, <1>0, <2>3, <3>1 DEF Quiet, Fire, session, polling, flight, outHist
  <2> QED
    BY Zenon, <1>2, <2>1, <2>2, <2>3 DEF Worker
<1>3. ASSUME NEW w \in Workers, Application(w) PROVE Kind
  <2>1. ASSUME NEW m \in Msgs, Send(w, m) PROVE Kind
    <3>1. m \in Packets /\ Queues(w, m)
      BY Zenon, <2>1 DEF Queues, Send, CanSend, CallFlush, Call, session, flight, Packets,
         DataOK
    <3> QED
      BY Zenon, <1>0, <3>1
  <2>2. CASE Close(w)
    <3>1. "close" \in Packets /\ Queues(w, "close")
      BY Zenon, <2>2 DEF Queues, Close, CanClose, CallFlush, Call, flight, Packets
    <3> QED
      BY Zenon, <1>0, <3>1
  <2>3. CASE ServerClose(w)
    <3>1. w \in Threads /\ Ends(w)
      BY Zenon, <2>3 DEF ServerClose, CloseNow, Ends, flight, outHist
    <3> QED
      BY Zenon, <1>0, <3>1
  <2> QED
    BY Zenon, <1>3, <2>1, <2>2, <2>3 DEF Application
<1>4. CASE Client
  <2>1. ASSUME NEW w \in Workers, PostPong(w) PROVE Kind
    <3>1. \A u \in Threads : KeepsFlush(u)
      BY Zenon, <2>1 DEF KeepsFlush, Drained, MuInv, PostPong, onPong, flight, locals
    <3> QED
      BY Zenon, <1>0, <2>1, <3>1 DEF Quiet, PostPong, onPong, session, polling, flight, outHist
  <2>2. ASSUME NEW w \in Workers, PostClose(w) PROVE Kind
    <3>1. w \in Threads /\ Ends(w)
      BY Zenon, <2>2 DEF PostClose, CloseNow, Ends, flight, outHist
    <3> QED
      BY Zenon, <1>0, <3>1
  <2>3. ASSUME NEW p \in Polls, Poll(p) PROVE Kind
    <3>1. \A u \in Threads : KeepsFlush(u)
      BY Zenon, <2>3 DEF KeepsFlush, Drained, MuInv, Poll, Goto, flight, locals
    <3> QED
      BY Zenon, <1>0, <2>3, <3>1 DEF Quiet, Poll, session, polling, flight, outHist
  <2>4. ASSUME NEW p \in Polls, Cancel(p) PROVE Kind
    <3>1. \A u \in Threads : KeepsFlush(u)
      BY ZenonT(60), <2>4 DEF KeepsFlush, Drained, MuInv, Cancel, Goto, CallClose, Call, flight
    <3> QED
      BY Zenon, <1>0, <2>4, <3>1 DEF Quiet, Cancel, session, flight, outHist
  <2>5. ASSUME NEW c \in Conns, StartUpgrade(c) PROVE Kind
    <3>1. \A u \in Threads : KeepsFlush(u)
      BY Zenon, <2>5 DEF KeepsFlush, Drained, MuInv, StartUpgrade, Goto, Arm, CanUpgrade,
         flight, locals
    <3> QED
      BY Zenon, <1>0, <2>5, <3>1 DEF Quiet, StartUpgrade, CanUpgrade, polling, flight, outHist
  <2>6. ASSUME NEW c \in Conns, ReadProbe(c) PROVE Kind
    <3>1. \A u \in Threads : KeepsFlush(u)
      BY ZenonT(60), <2>6 DEF KeepsFlush, Drained, MuInv, ReadProbe, Goto, Call, flight
    <3> QED
      BY Zenon, <1>0, <2>6, <3>1 DEF Quiet, ReadProbe, session, polling, flight, outHist
  <2>7. ASSUME NEW c \in Conns, ReadUpgrade(c) PROVE Kind
    BY Zenon, <1>0, <2>7
  <2>8. ASSUME NEW c \in Conns, ReadPong(c) PROVE Kind
    <3>1. \A u \in Threads : KeepsFlush(u)
      BY Zenon, <2>8 DEF KeepsFlush, Drained, MuInv, ReadPong, onPong, flight, locals
    <3> QED
      BY Zenon, <1>0, <2>8, <3>1 DEF Quiet, ReadPong, onPong, session, polling, flight, outHist
  <2>9. ASSUME NEW c \in Conns, ReadClose(c) PROVE Kind
    <3>1. c \in Threads /\ Ends(c)
      BY Zenon, <2>9 DEF ReadClose, CloseNow, Ends, flight, outHist
    <3> QED
      BY Zenon, <1>0, <3>1
  <2>10. ASSUME NEW c \in Conns, ReadError(c) PROVE Kind
    <3>1. CASE CloseNow(c, "done")
      <4>1. c \in Threads /\ Ends(c)
        BY Zenon, <2>10, <3>1 DEF ReadError, CloseNow, Ends, flight, outHist
      <4> QED
        BY Zenon, <1>0, <4>1
    <3>2. CASE ~CloseNow(c, "done")
      <4>1. \A u \in Threads : KeepsFlush(u)
        BY Zenon, <2>10, <3>2 DEF KeepsFlush, Drained, ReadError, Goto, Call, MuInv,
           locals, flight
      <4> QED
        BY Zenon, <1>0, <2>10, <3>2, <4>1 DEF Quiet, ReadError, session, polling, flight,
           outHist
    <3> QED
      BY Zenon, <3>1, <3>2
  <2> QED
    BY Zenon, <1>4, <2>1, <2>2, <2>3, <2>4, <2>5, <2>6, <2>7, <2>8, <2>9, <2>10 DEF Client
<1>5. ASSUME NEW p \in Polls, PollHandler(p) PROVE Kind
  <2>1. CASE Hold(p)
    <3>1. \A u \in Threads : KeepsFlush(u)
      BY ZenonT(60), <2>1 DEF KeepsFlush, Drained, MuInv, Hold, Goto, CallClose, Call,
         CallFlush, flight
    <3> QED
      BY Zenon, <1>0, <2>1, <3>1 DEF Quiet, Hold, CallFlush, session, flight, outHist, Call
  <2>2. CASE Respond(p)
    <3>1. \A u \in Threads : KeepsFlush(u)
      BY ZenonT(60), <2>2 DEF KeepsFlush, Drained, MuInv, Respond, Goto, CallClose, Call,
         FromBuffer, flight
    <3> QED
      BY Zenon, <1>0, <2>2, <3>1 DEF Quiet, Respond, FromBuffer, session, flight
  <2>3. CASE Drain(p)
    <3>1. \A u \in Threads : KeepsFlush(u)
      BY Zenon, <2>3 DEF KeepsFlush, Drained, MuInv, Drain, CallClose, Call, FromBuffer, flight
    <3> QED
      BY Zenon, <1>0, <2>3, <3>1 DEF Quiet, Drain, FromBuffer, session, flight
  <2> QED
    BY Zenon, <1>5, <2>1, <2>2, <2>3 DEF PollHandler
<1>6. ASSUME NEW t \in Threads, CloseWithReason(t) PROVE Kind
  <2>1. CASE Teardown(t)
    <3>1. CASE beginTeardown(t)
      <4>1. Ends(t)
        BY Zenon, <2>1, <3>1 DEF Teardown, Ends, beginTeardown, CanTeardown, outHist
      <4> QED
        BY Zenon, <1>0, <4>1
    <3>2. CASE state = "closed" /\ Return(t) /\ UNCHANGED <<session, writeBuffer, job>>
      <4>1. \A u \in Threads : KeepsFlush(u)
        BY Zenon, <2>1, <3>2 DEF KeepsFlush, Drained, Teardown, Return, Call, EndInv
      <4> QED
        BY Zenon, <1>0, <2>1, <3>2, <4>1 DEF Quiet, Teardown, session, polling, outHist
    <3> QED
      BY Zenon, <2>1, <3>1, <3>2 DEF Teardown
  <2>2. CASE CloseStop(t)
    <3>1. \A u \in Threads : KeepsFlush(u)
      BY Zenon, <2>2 DEF KeepsFlush, Drained, MuInv, CloseStop, flight
    <3> QED
      BY Zenon, <1>0, <2>2, <3>1 DEF Quiet, CloseStop, session, polling, flight, outHist
  <2>3. CASE CloseOld(t)
    <3>1. \A u \in Threads : KeepsFlush(u)
      BY ZenonT(60), <2>3 DEF KeepsFlush, Drained, MuInv, CloseOld, Goto, flight
    <3> QED
      BY Zenon, <1>0, <2>3, <3>1 DEF Quiet, CloseOld, session, flight, outHist
  <2>4. CASE CloseDeliver(t)
    <3>1. \A u \in Threads : KeepsFlush(u)
      BY Zenon, <2>4 DEF KeepsFlush, Drained, MuInv, CloseDeliver, Goto, Put, flight
    <3> QED
      BY Zenon, <1>0, <2>4, <3>1 DEF Quiet, CloseDeliver, Put, session, flight, outHist
  <2>5. CASE CloseUp(t)
    <3>1. \A u \in Threads : KeepsFlush(u)
      BY Zenon, <2>5 DEF KeepsFlush, Drained, MuInv, CloseUp, flight
    <3> QED
      BY Zenon, <1>0, <2>5, <3>1 DEF Quiet, CloseUp, session, polling, flight, outHist
  <2>6. CASE Released(t)
    <3>1. \A u \in Threads : KeepsFlush(u)
      BY <2>6 DEF KeepsFlush, Drained, MuInv, EndInv, Released, Goto, Return, Call
    <3> QED
      BY Zenon, <1>0, <2>6, <3>1 DEF Quiet, Released, session, polling, outHist
  <2>7. CASE Notify(t)
    <3>1. \A u \in Threads : KeepsFlush(u)
      BY Zenon, <2>7 DEF KeepsFlush, Drained, MuInv, EndInv, Notify, Return, Call
    <3> QED
      BY Zenon, <1>0, <2>7, <3>1 DEF Quiet, Notify, session, polling, outHist
  <2> QED
    BY Zenon, <1>6, <2>1, <2>2, <2>3, <2>4, <2>5, <2>6, <2>7 DEF CloseWithReason
<1>7. ASSUME NEW n \in Noops, Noop(n) PROVE Kind
  <2>1. CASE NoopTick(n)
    <3>1. \A u \in Threads : KeepsFlush(u)
      BY Zenon, <2>1 DEF KeepsFlush, Drained, MuInv, NoopTick, Goto, flight, locals
    <3> QED
      BY Zenon, <1>0, <2>1, <3>1 DEF Quiet, NoopTick, session, polling, flight, outHist
  <2>2. CASE NoopClaim(n)
    <3>1. \A u \in Threads : KeepsFlush(u)
      BY Zenon, <2>2 DEF KeepsFlush, Drained, MuInv, NoopClaim, Goto, flight
    <3> QED
      BY Zenon, <1>0, <2>2, <3>1 DEF Quiet, NoopClaim, session, flight, outHist
  <2>3. CASE NoopDeliver(n)
    <3>1. \A u \in Threads : KeepsFlush(u)
      BY Zenon, <2>3 DEF KeepsFlush, Drained, MuInv, NoopDeliver, Goto, Put, flight
    <3> QED
      BY Zenon, <1>0, <2>3, <3>1 DEF Quiet, NoopDeliver, Put, session, flight, outHist
  <2>4. CASE NoopStop(n)
    <3>1. \A u \in Threads : KeepsFlush(u)
      BY Zenon, <2>4 DEF KeepsFlush, Drained, MuInv, NoopStop, Goto, flight, locals
    <3> QED
      BY Zenon, <1>0, <2>4, <3>1 DEF Quiet, NoopStop, session, polling, flight, outHist
  <2> QED
    BY Zenon, <1>7, <2>1, <2>2, <2>3, <2>4 DEF Noop
<1>8. ASSUME NEW c \in Conns, onProbe(c) PROVE Kind
  <2>1. \A u \in Threads : KeepsFlush(u)
    BY ZenonT(60), <1>8 DEF KeepsFlush, Drained, MuInv, onProbe, Goto, ProbeAnswered, flight,
       locals
  <2> QED
    BY Zenon, <1>0, <1>8, <2>1 DEF Quiet, onProbe, ProbeAnswered, polling, flight, outHist
<1>9. ASSUME NEW t \in Threads, Abort(t) PROVE Kind
  <2>1. \A u \in Threads : KeepsFlush(u)
    BY <1>9 DEF KeepsFlush, Drained, MuInv, EndInv, Abort, Goto, Return, Call, ClearUpgrade,
       UpgradeInFlight
  <2> QED
    BY Zenon, <1>0, <1>9, <2>1 DEF Quiet, Abort, ClearUpgrade, UpgradeInFlight, polling,
       outHist
<1>10. CASE UNCHANGED vars
  BY Zenon, <1>0, <1>10 DEF Quiet, KeepsFlush, vars, session, polling, flight, locals, outHist
<1>11. ASSUME NEW t \in Threads, Flush(t) PROVE Kind
  BY Zenon, <1>0, <1>11
<1> QED
  BY Zenon, <1>1, <1>2, <1>3, <1>4, <1>5, <1>6, <1>7, <1>8, <1>9, <1>10, <1>11 DEF Next,
     Terminated

(* The heartbeat never stops while the session is open.                     *)

\* HeartbeatAlive is preserved by every step.
LEMMA BeatStep == ASSUME DataOK, HeldInv, HeartbeatAlive, [Next]_vars PROVE HeartbeatAlive'
<1> USE LocalTypes, OwnedTypes, ThreadTypes
<1>1. CASE Handshake
  <2>1. CASE HandshakeWrite
    BY Zenon, <2>1 DEF HeartbeatAlive, Timers, HandshakeWrite, Goto, session, timers, polling,
       flight, locals, outHist, endHist
  <2>2. CASE HandshakeFail
    <3>1. \A w \in Workers : pc'[w] = pc[w]
      BY Zenon, <2>2, HandshakeMoves, WorkersApart
    <3> QED
      BY Zenon, <2>2, <3>1 DEF HeartbeatAlive, HandshakeFail, session, timers, locals
  <2>3. CASE HandshakeOpen
    BY Zenon, <2>3 DEF HeartbeatAlive, Timers, HandshakeOpen, Goto, Arm, polling, flight,
       locals, env, outHist, endHist
  <2>4. CASE HandshakeHandler
    <3>1. \A w \in Workers : pc'[w] = pc[w]
      BY Zenon, <2>4, HandshakeMoves, WorkersApart
    <3> QED
      BY Zenon, <2>4, <3>1 DEF HeartbeatAlive, HandshakeHandler, session, timers, locals
  <2> QED
    BY Zenon, <1>1, <2>1, <2>2, <2>3, <2>4 DEF Handshake
<1>2. ASSUME NEW w \in Workers, Worker(w) PROVE HeartbeatAlive'
  <2>1. CASE ArmClose(w)
    BY Zenon, <2>1 DEF HeartbeatAlive, Timers, ArmClose, Goto, Arm, session, polling, flight,
       locals, env, outHist, endHist
  <2>2. CASE sendPing(w)
    BY Zenon, <2>2 DEF HeartbeatAlive, Timers, sendPing, Goto, Arm, Enqueue, session,
       polling, flight, locals, env, endHist
  <2>3. ASSUME NEW k \in Timers, Fire(w, k) PROVE HeartbeatAlive'
    BY Zenon, <2>3 DEF HeartbeatAlive, Timers, Fire, Call, session, polling, flight, env,
       outHist, endHist
  <2> QED
    BY Zenon, <1>2, <2>1, <2>2, <2>3 DEF Worker
<1>3. ASSUME NEW w \in Workers, Application(w) PROVE HeartbeatAlive'
  <2>1. ASSUME NEW m \in Msgs, Send(w, m) PROVE HeartbeatAlive'
    BY Zenon, <2>1 DEF HeartbeatAlive, Timers, Send, CallFlush, Call, Enqueue, CanSend, session,
       timers, polling, flight, env, endHist
  <2>2. CASE Close(w)
    BY Zenon, <2>2 DEF HeartbeatAlive, Timers, Close, CallFlush, Call, Enqueue,
       stopTimersLocked, CanClose, polling, flight, env, endHist
  <2>3. CASE ServerClose(w)
    BY Zenon, <2>3 DEF HeartbeatAlive, Timers, ServerClose, CloseNow, beginTeardown, Goto,
       stopTimersLocked, CanTeardown, polling, flight, env, outHist, endHist
  <2> QED
    BY Zenon, <1>3, <2>1, <2>2, <2>3 DEF Application
<1>4. CASE Client
  <2>1. ASSUME NEW w \in Workers, PostPong(w) PROVE HeartbeatAlive'
    BY Zenon, <2>1 DEF HeartbeatAlive, Timers, PostPong, onPong, session, polling, flight,
       locals, outHist, endHist
  <2>2. ASSUME NEW w \in Workers, PostClose(w) PROVE HeartbeatAlive'
    BY Zenon, <2>2 DEF HeartbeatAlive, Timers, PostClose, CloseNow, beginTeardown, Goto,
       stopTimersLocked, CanTeardown, polling, flight, env, outHist, endHist
  <2>3. ASSUME NEW p \in Polls, Poll(p) PROVE HeartbeatAlive'
    BY Zenon, <2>3 DEF HeartbeatAlive, Timers, Poll, Goto, session, timers, polling, flight,
       locals, env, outHist, endHist
  <2>4. ASSUME NEW p \in Polls, Cancel(p) PROVE HeartbeatAlive'
    BY ZenonT(60), <2>4 DEF HeartbeatAlive, Timers, Cancel, Goto, CallClose, Call, session,
       timers, flight, env, outHist, endHist
  <2>5. ASSUME NEW c \in Conns, StartUpgrade(c) PROVE HeartbeatAlive'
    BY Zenon, <2>5 DEF HeartbeatAlive, Timers, StartUpgrade, Goto, Arm, CanUpgrade, timers,
       polling, flight, locals, env, outHist, endHist
  <2>6. ASSUME NEW c \in Conns, ReadProbe(c) PROVE HeartbeatAlive'
    BY Zenon, <2>6 DEF HeartbeatAlive, Timers, ReadProbe, Goto, Call, session, timers, polling,
       flight, env, outHist, endHist
  <2>7. ASSUME NEW c \in Conns, ReadUpgrade(c) PROVE HeartbeatAlive'
    BY Zenon, <2>7 DEF HeartbeatAlive, Timers, ReadUpgrade, Call, ClearUpgrade, UpgradeInFlight,
       polling, flight, env, outHist, endHist
  <2>8. ASSUME NEW c \in Conns, ReadPong(c) PROVE HeartbeatAlive'
    BY Zenon, <2>8 DEF HeartbeatAlive, Timers, ReadPong, onPong, session, polling, flight,
       locals, outHist, endHist
  <2>9. ASSUME NEW c \in Conns, ReadClose(c) PROVE HeartbeatAlive'
    BY Zenon, <2>9 DEF HeartbeatAlive, Timers, ReadClose, CloseNow, beginTeardown, Goto,
       stopTimersLocked, CanTeardown, polling, flight, env, outHist, endHist
  <2>10. ASSUME NEW c \in Conns, ReadError(c) PROVE HeartbeatAlive'
    BY Zenon, <2>10 DEF HeartbeatAlive, Timers, ReadError, Goto, Call, CloseNow, beginTeardown,
       stopTimersLocked, CanTeardown, polling, flight, env, outHist, endHist, session, timers,
       locals
  <2> QED
    BY Zenon, <1>4, <2>1, <2>2, <2>3, <2>4, <2>5, <2>6, <2>7, <2>8, <2>9, <2>10 DEF Client
<1>5. ASSUME NEW p \in Polls, PollHandler(p) PROVE HeartbeatAlive'
  <2>1. CASE Hold(p)
    BY Zenon, <2>1 DEF HeartbeatAlive, Timers, Hold, Goto, CallClose, Call, CallFlush, session,
       timers, flight, env, outHist, endHist
  <2>2. CASE Respond(p)
    BY Zenon, <2>2 DEF HeartbeatAlive, Timers, Respond, Goto, CallClose, Call, FromBuffer,
       session, timers, flight, env, endHist
  <2>3. CASE Drain(p)
    BY Zenon, <2>3 DEF HeartbeatAlive, Timers, Drain, CallClose, Call, FromBuffer, session,
       timers, flight, env, endHist
  <2> QED
    BY Zenon, <1>5, <2>1, <2>2, <2>3 DEF PollHandler
<1>6. ASSUME NEW t \in Threads, Flush(t) PROVE HeartbeatAlive'
  <2>1. CASE FlushClone(t)
    BY Zenon, <2>1 DEF HeartbeatAlive, Timers, FlushClone, Goto, Return, Call, FlushFree,
       session, timers, polling, env, outHist, endHist
  <2>2. CASE SendPoll(t)
    BY Zenon, <2>2 DEF HeartbeatAlive, Timers, SendPoll, Goto, NotSent, Return, Call, session,
       timers, flight, env, endHist
  <2>3. CASE Deliver(t)
    BY Zenon, <2>3 DEF HeartbeatAlive, Timers, Deliver, Goto, Put, session, timers, flight, env,
       outHist, endHist
  <2>4. CASE SendConn(t)
    BY Zenon, <2>4 DEF HeartbeatAlive, Timers, SendConn, Goto, NotSent, Return, Call, session,
       timers, polling, flight, env, outHist, endHist
  <2>5. CASE WriteConn(t)
    BY Zenon, <2>5 DEF HeartbeatAlive, Timers, WriteConn, Goto, session, timers, polling,
       flight, locals, env, endHist
  <2>6. ASSUME NEW n \in 0..Len(batch), WriteFail(t, n) PROVE HeartbeatAlive'
    BY Zenon, <2>6 DEF HeartbeatAlive, Timers, WriteFail, CallClose, Call, session, timers,
       polling, env, endHist
  <2>7. CASE DropSent(t)
    BY Zenon, <2>7 DEF HeartbeatAlive, Timers, DropSent, Goto, CallClose, Call, Return, session,
       timers, polling, env, outHist, endHist
  <2> QED
    BY Zenon, <1>6, <2>1, <2>2, <2>3, <2>4, <2>5, <2>6, <2>7 DEF Flush
<1>7. ASSUME NEW t \in Threads, CloseWithReason(t) PROVE HeartbeatAlive'
  <2>1. CASE Teardown(t)
    BY Zenon, <2>1 DEF HeartbeatAlive, Timers, Teardown, Return, Call, beginTeardown, Goto,
       stopTimersLocked, CanTeardown, session, polling, env, outHist, endHist
  <2>2. CASE CloseStop(t)
    BY Zenon, <2>2 DEF HeartbeatAlive, Timers, CloseStop, session, timers, polling, flight, env,
       outHist
  <2>3. CASE CloseOld(t)
    BY Zenon, <2>3 DEF HeartbeatAlive, Timers, CloseOld, Goto, TakesPoll, session, timers,
       flight, env, outHist, endHist
  <2>4. CASE CloseDeliver(t)
    BY Zenon, <2>4 DEF HeartbeatAlive, Timers, CloseDeliver, Goto, Put, session, timers, flight,
       env, outHist, endHist
  <2>5. CASE CloseUp(t)
    BY Zenon, <2>5 DEF HeartbeatAlive, Timers, CloseUp, session, timers, polling, flight, env,
       outHist, endHist
  <2>6. CASE Released(t)
    BY Zenon, <2>6 DEF HeartbeatAlive, Timers, Released, Goto, Return, Call, session, timers,
       polling, env, outHist, endHist
  <2>7. CASE Notify(t)
    BY Zenon, <2>7 DEF HeartbeatAlive, Timers, Notify, Return, Call, session, timers, polling,
       env, outHist
  <2> QED
    BY Zenon, <1>7, <2>1, <2>2, <2>3, <2>4, <2>5, <2>6, <2>7 DEF CloseWithReason
<1>8. ASSUME NEW n \in Noops, Noop(n) PROVE HeartbeatAlive'
  <2>1. CASE NoopTick(n)
    BY Zenon, <2>1 DEF HeartbeatAlive, Timers, NoopTick, Goto, session, timers, polling, flight,
       locals, env, outHist, endHist
  <2>2. CASE NoopClaim(n)
    BY Zenon, <2>2 DEF HeartbeatAlive, Timers, NoopClaim, Goto, session, timers, flight, env,
       outHist, endHist
  <2>3. CASE NoopDeliver(n)
    BY Zenon, <2>3 DEF HeartbeatAlive, Timers, NoopDeliver, Goto, Put, session, timers, flight,
       env, outHist, endHist
  <2>4. CASE NoopStop(n)
    BY ZenonT(60), <2>4 DEF HeartbeatAlive, Timers, NoopStop, Goto, session, timers, polling,
       flight, locals, env, outHist, endHist
  <2> QED
    BY Zenon, <1>8, <2>1, <2>2, <2>3, <2>4 DEF Noop
<1>9. ASSUME NEW c \in Conns, onProbe(c) PROVE HeartbeatAlive'
  BY Zenon, <1>9 DEF HeartbeatAlive, Timers, onProbe, Goto, ProbeAnswered, timers, polling,
     flight, locals, env, outHist, endHist
<1>10. ASSUME NEW t \in Threads, Abort(t) PROVE HeartbeatAlive'
  BY Zenon, <1>10 DEF HeartbeatAlive, Timers, Abort, Goto, Return, Call, ClearUpgrade,
     UpgradeInFlight, polling, env, outHist, endHist
<1>11. CASE UNCHANGED vars
  BY Zenon, <1>11 DEF HeartbeatAlive, Timers, vars, session, timers, polling, flight, locals,
     env, outHist, endHist
<1> QED
  BY Zenon, <1>11, <1>1, <1>2, <1>3, <1>4, <1>5, <1>6, <1>7, <1>8, <1>9, <1>10 DEF Next,
     Terminated
-----------------------------------------------------------------------------
(* No connection is left open.                                              *)

\* A step that takes no connection out of the session, starts none and leaves the goroutines
\* that are about to close some alone preserves NoConnLeak.
LEMMA LeakFrame ==
  ASSUME NoConnLeak, closed \subseteq closed', UNCHANGED <<transport, upgradeTransport>>,
         \A c \in Conns : pc[c] = "idle" => pc'[c] = "idle",
         \A t \in Threads : pc[t] \in {"release", "closeDeliver"} =>
                             pc'[t] = pc[t] /\ old'[t] = old[t] /\ up'[t] = up[t]
  PROVE  NoConnLeak'
  BY Zenon DEF NoConnLeak

\* In particular, a step of one goroutine that has no connection to close does.
LEMMA LeakOther ==
  ASSUME NoConnLeak, NEW t \in Threads, OnlyMoves(t), pc[t] \notin {"release", "closeDeliver"},
         t \notin Conns \/ pc[t] # "idle",
         UNCHANGED <<transport, upgradeTransport, old, up, closed>>
  PROVE  NoConnLeak'
  BY Zenon, LeakFrame, Disjoint DEF OnlyMoves

\* beginTeardown takes both connections of the session and is going to close them.
LEMMA LeakTaken ==
  ASSUME DataOK, NoConnLeak, NEW t \in Threads, pc[t] \notin {"release", "closeDeliver"},
         t \notin Conns \/ pc[t] # "idle",
         beginTeardown(t), closed' = closed
  PROVE  NoConnLeak'
<1>1. /\ pc'[t] = "release" /\ old'[t] = transport /\ up'[t] = upgradeTransport
      /\ \A u \in Threads \ {t} : pc'[u] = pc[u] /\ old'[u] = old[u] /\ up'[u] = up[u]
  BY Zenon DEF beginTeardown, Goto, DataOK
<1>2. \A c \in Conns : pc'[c] # "idle" => pc[c] # "idle"
  BY Zenon, <1>1, Disjoint
<1> QED
  BY Zenon, <1>1, <1>2, Disjoint DEF NoConnLeak

\* NoConnLeak is preserved by every step.
LEMMA LeakStep == ASSUME DataOK, HeldInv, UpInv, NoConnLeak, [Next]_vars PROVE NoConnLeak'
<1> USE LocalTypes, OwnedTypes, Disjoint
<1>1. CASE Handshake
  <2>1. CASE HandshakeWrite
    BY Zenon, <2>1 DEF NoConnLeak, UpInv, Transports, HandshakeWrite, Goto, session, timers,
       polling, flight, locals, outHist, endHist
  <2>2. CASE HandshakeFail
    <3>1. /\ \A c \in Conns : pc[c] = "idle" => pc'[c] = "idle"
          /\ \A t \in Threads : pc[t] \in {"release", "closeDeliver"} =>
               pc'[t] = pc[t] /\ old'[t] = old[t] /\ up'[t] = up[t]
      BY Zenon, <2>2, ThreadTypes, WorkersApart, HandshakeMoves DEF HandshakeFail, locals
    <3>2. closed \subseteq closed' /\ UNCHANGED <<transport, upgradeTransport>>
      BY Zenon, <2>2 DEF HandshakeFail, session
    <3> QED
      BY Zenon, <3>1, <3>2, LeakFrame
  <2>3. CASE HandshakeOpen
    BY Zenon, <2>3 DEF NoConnLeak, UpInv, Transports, HandshakeOpen, Goto, Arm, polling, flight,
       locals, env, outHist, endHist
  <2>4. CASE HandshakeHandler
    <3>1. /\ \A c \in Conns : pc[c] = "idle" => pc'[c] = "idle"
          /\ \A t \in Threads : pc[t] \in {"release", "closeDeliver"} =>
               pc'[t] = pc[t] /\ old'[t] = old[t] /\ up'[t] = up[t]
      BY Zenon, <2>4, ThreadTypes, WorkersApart, HandshakeMoves DEF HandshakeHandler, locals
    <3>2. closed \subseteq closed' /\ UNCHANGED <<transport, upgradeTransport>>
      BY Zenon, <2>4 DEF HandshakeHandler, session
    <3> QED
      BY Zenon, <3>1, <3>2, LeakFrame
  <2> QED
    BY Zenon, <1>1, <2>1, <2>2, <2>3, <2>4 DEF Handshake
<1>2. ASSUME NEW w \in Workers, Worker(w) PROVE NoConnLeak'
  <2>1. CASE ArmClose(w)
    BY ZenonT(60), <2>1 DEF NoConnLeak, UpInv, Transports, ArmClose, Goto, Arm, session, polling,
       flight, locals, env, outHist, endHist
  <2>2. CASE sendPing(w)
    BY <2>2 DEF NoConnLeak, UpInv, Transports, sendPing, Goto, Arm, Enqueue, session, polling,
       flight, locals, env, endHist
  <2>3. ASSUME NEW k \in Timers, Fire(w, k) PROVE NoConnLeak'
    <3>1. /\ \A c \in Conns : pc[c] = "idle" => pc'[c] = "idle"
          /\ \A t \in Threads : pc[t] \in {"release", "closeDeliver"} =>
               pc'[t] = pc[t] /\ old'[t] = old[t] /\ up'[t] = up[t]
      BY Zenon, <2>3, ThreadTypes, WorkersApart DEF Fire, Call, session
    <3>2. closed \subseteq closed' /\ UNCHANGED <<transport, upgradeTransport>>
      BY Zenon, <2>3 DEF Fire, session
    <3> QED
      BY Zenon, <3>1, <3>2, LeakFrame
  <2> QED
    BY Zenon, <1>2, <2>1, <2>2, <2>3 DEF Worker
<1>3. ASSUME NEW w \in Workers, Application(w) PROVE NoConnLeak'
  <2>1. ASSUME NEW m \in Msgs, Send(w, m) PROVE NoConnLeak'
    <3>1. /\ \A c \in Conns : pc[c] = "idle" => pc'[c] = "idle"
          /\ \A t \in Threads : pc[t] \in {"release", "closeDeliver"} =>
               pc'[t] = pc[t] /\ old'[t] = old[t] /\ up'[t] = up[t]
      BY Zenon, <2>1, ThreadTypes, WorkersApart DEF Send, CallFlush, Call
    <3>2. closed \subseteq closed' /\ UNCHANGED <<transport, upgradeTransport>>
      BY Zenon, <2>1 DEF Send, session
    <3> QED
      BY Zenon, <3>1, <3>2, LeakFrame
  <2>2. CASE Close(w)
    <3>1. /\ \A c \in Conns : pc[c] = "idle" => pc'[c] = "idle"
          /\ \A t \in Threads : pc[t] \in {"release", "closeDeliver"} =>
               pc'[t] = pc[t] /\ old'[t] = old[t] /\ up'[t] = up[t]
      BY ZenonT(60), <2>2, ThreadTypes, WorkersApart DEF Close, CallFlush, Call
    <3>2. closed \subseteq closed' /\ UNCHANGED <<transport, upgradeTransport>>
      BY Zenon, <2>2 DEF Close, session
    <3> QED
      BY Zenon, <3>1, <3>2, LeakFrame
  <2>3. CASE ServerClose(w)
    <3>1. w \in Threads /\ pc[w] \in {"idle", "read"} /\ beginTeardown(w) /\ closed' = closed
      BY Zenon, <2>3 DEF ServerClose, CloseNow
    <3> QED
      BY Zenon, <2>3, <3>1, LeakTaken, WorkersApart DEF ServerClose
  <2> QED
    BY Zenon, <1>3, <2>1, <2>2, <2>3 DEF Application
<1>4. CASE Client
  <2>1. ASSUME NEW w \in Workers, PostPong(w) PROVE NoConnLeak'
    BY Zenon, <2>1 DEF NoConnLeak, UpInv, Transports, PostPong, onPong, session, polling,
       flight, locals, outHist, endHist
  <2>2. ASSUME NEW w \in Workers, PostClose(w) PROVE NoConnLeak'
    <3>1. w \in Threads /\ pc[w] \in {"idle", "read"} /\ beginTeardown(w) /\ closed' = closed
      BY ZenonT(60), <2>2 DEF PostClose, CloseNow
    <3> QED
      BY ZenonT(60), <2>2, <3>1, LeakTaken, WorkersApart DEF PostClose
  <2>3. ASSUME NEW p \in Polls, Poll(p) PROVE NoConnLeak'
    <3>1. OnlyMoves(p)
      BY Zenon, <2>3, GotoMoves DEF Poll, locals
    <3>2. UNCHANGED <<transport, upgradeTransport, old, up, closed>>
      BY Zenon, <2>3 DEF Poll, session, locals
    <3>3. p \in Threads /\ p \notin Conns
      BY Zenon, Disjoint
    <3>4. pc[p] \notin {"release", "closeDeliver"}
      BY Zenon, <2>3 DEF Poll
    <3> QED
      BY Zenon, <3>1, <3>2, <3>3, <3>4, LeakOther
  <2>4. ASSUME NEW p \in Polls, Cancel(p) PROVE NoConnLeak'
    <3>1. OnlyMoves(p)
      BY Zenon, <2>4, GotoMoves, CallMoves DEF Cancel, CallClose
    <3>2. UNCHANGED <<transport, upgradeTransport, old, up, closed>>
      BY Zenon, <2>4 DEF Cancel, session
    <3>3. p \in Threads /\ p \notin Conns
      BY Zenon, Disjoint
    <3>4. pc[p] \notin {"idle", "release", "closeDeliver"}
      BY Zenon, <2>4 DEF Cancel
    <3> QED
      BY Zenon, <3>1, <3>2, <3>3, <3>4, LeakOther
  <2>5. ASSUME NEW c \in Conns, StartUpgrade(c) PROVE NoConnLeak'
    BY SMTT(60), <2>5 DEF NoConnLeak, UpInv, Transports, StartUpgrade, Goto, Arm, CanUpgrade,
       timers, polling, flight, locals, env, outHist, endHist
  <2>6. ASSUME NEW c \in Conns, ReadProbe(c) PROVE NoConnLeak'
    <3>1. OnlyMoves(c) /\ pc[c] = "read" /\ pc'[c] # "idle"
      BY Zenon, <2>6, GotoMoves, CallMoves DEF ReadProbe, Goto, Call
    <3>2. \A t \in Threads \ {c} : up'[t] = up[t]
      BY Zenon, <2>6 DEF ReadProbe
    <3>3. UNCHANGED <<old, closed, transport, upgradeTransport>>
      BY Zenon, <2>6 DEF ReadProbe, session
    <3> QED
      BY Zenon, <3>1, <3>2, <3>3, LeakFrame DEF OnlyMoves
  <2>7. ASSUME NEW c \in Conns, ReadUpgrade(c) PROVE NoConnLeak'
    BY ZenonT(60), <2>7 DEF NoConnLeak, UpInv, Transports, ReadUpgrade, Call, ClearUpgrade,
       UpgradeInFlight, polling, flight, env, outHist, endHist
  <2>8. ASSUME NEW c \in Conns, ReadPong(c) PROVE NoConnLeak'
    BY Zenon, <2>8 DEF NoConnLeak, UpInv, Transports, ReadPong, onPong, session, polling,
       flight, locals, outHist, endHist
  <2>9. ASSUME NEW c \in Conns, ReadClose(c) PROVE NoConnLeak'
    <3>1. c \in Threads /\ pc[c] \in {"idle", "read"} /\ beginTeardown(c) /\ closed' = closed
      BY Zenon, <2>9 DEF ReadClose, CloseNow
    <3> QED
      BY Zenon, <2>9, <3>1, LeakTaken, WorkersApart DEF ReadClose
  <2>10. ASSUME NEW c \in Conns, ReadError(c) PROVE NoConnLeak'
    <3>0. c \in Threads
      BY Zenon
    <3>1. CASE CloseNow(c, "done")
      <4>1. pc[c] = "read" /\ beginTeardown(c) /\ closed' = closed
        BY Zenon, <2>10, <3>1 DEF ReadError, CloseNow
      <4> QED
        BY Zenon, <3>0, <4>1, LeakTaken
    <3>2. CASE ~CloseNow(c, "done")
      <4>1. /\ \A u \in Threads \ {c} : pc'[u] = pc[u] /\ up'[u] = up[u]
            /\ pc[c] = "read" /\ pc'[c] # "idle"
        BY <2>10, <3>0, <3>2 DEF ReadError, Goto, Call, DataOK, locals
      <4>2. UNCHANGED <<old, closed, transport, upgradeTransport>>
        BY Zenon, <2>10, <3>2 DEF ReadError, session, locals
      <4> QED
        BY ZenonT(60), <3>0, <4>1, <4>2, LeakFrame
    <3> QED
      BY Zenon, <3>1, <3>2
  <2> QED
    BY ZenonT(60), <1>4, <2>1, <2>2, <2>3, <2>4, <2>5, <2>6, <2>7, <2>8, <2>9, <2>10 DEF Client
<1>5. ASSUME NEW p \in Polls, PollHandler(p) PROVE NoConnLeak'
  <2>1. CASE Hold(p)
    <3>1. OnlyMoves(p)
      BY Zenon, <2>1, GotoMoves, CallMoves DEF Hold, CallClose, CallFlush
    <3>2. UNCHANGED <<transport, upgradeTransport, old, up, closed>>
      BY Zenon, <2>1 DEF Hold, session
    <3>3. p \in Threads /\ p \notin Conns
      BY Zenon, Disjoint
    <3>4. pc[p] \notin {"idle", "release", "closeDeliver"}
      BY Zenon, <2>1 DEF Hold
    <3> QED
      BY Zenon, <3>1, <3>2, <3>3, <3>4, LeakOther
  <2>2. CASE Respond(p)
    <3>1. OnlyMoves(p)
      BY Zenon, <2>2, GotoMoves, CallMoves DEF Respond, CallClose
    <3>2. UNCHANGED <<transport, upgradeTransport, old, up, closed>>
      BY Zenon, <2>2 DEF Respond, session
    <3>3. p \in Threads /\ p \notin Conns
      BY Zenon, Disjoint
    <3>4. pc[p] \notin {"idle", "release", "closeDeliver"}
      BY Zenon, <2>2 DEF Respond
    <3> QED
      BY Zenon, <3>1, <3>2, <3>3, <3>4, LeakOther
  <2>3. CASE Drain(p)
    <3>1. OnlyMoves(p)
      BY Zenon, <2>3, GotoMoves, CallMoves DEF Drain, CallClose
    <3>2. UNCHANGED <<transport, upgradeTransport, old, up, closed>>
      BY Zenon, <2>3 DEF Drain, session
    <3>3. p \in Threads /\ p \notin Conns
      BY Zenon, Disjoint
    <3>4. pc[p] \notin {"idle", "release", "closeDeliver"}
      BY Zenon, <2>3 DEF Drain
    <3> QED
      BY Zenon, <3>1, <3>2, <3>3, <3>4, LeakOther
  <2> QED
    BY Zenon, <1>5, <2>1, <2>2, <2>3 DEF PollHandler
<1>6. ASSUME NEW t \in Threads, Flush(t) PROVE NoConnLeak'
  <2>1. CASE FlushClone(t)
    <3>1. OnlyMoves(t)
      BY Zenon, <2>1, GotoMoves, CallMoves DEF FlushClone, Return
    <3>2. UNCHANGED <<transport, upgradeTransport, old, up, closed>>
      BY Zenon, <2>1 DEF FlushClone, session
    <3>3. pc[t] \notin {"idle", "release", "closeDeliver"}
      BY Zenon, <2>1 DEF FlushClone
    <3> QED
      BY Zenon, <3>1, <3>2, <3>3, LeakOther
  <2>2. CASE SendPoll(t)
    <3>1. OnlyMoves(t)
      BY Zenon, <2>2, GotoMoves, CallMoves DEF SendPoll, NotSent, Return
    <3>2. UNCHANGED <<transport, upgradeTransport, old, up, closed>>
      BY Zenon, <2>2 DEF SendPoll, session
    <3>3. pc[t] \notin {"idle", "release", "closeDeliver"}
      BY Zenon, <2>2 DEF SendPoll
    <3> QED
      BY Zenon, <3>1, <3>2, <3>3, LeakOther
  <2>3. CASE Deliver(t)
    BY ZenonT(60), <2>3 DEF NoConnLeak, UpInv, Transports, Deliver, Goto, Put, session, timers,
       flight, env, outHist, endHist
  <2>4. CASE SendConn(t)
    <3>1. OnlyMoves(t)
      BY Zenon, <2>4, GotoMoves, CallMoves DEF SendConn, NotSent, Return
    <3>2. UNCHANGED <<transport, upgradeTransport, old, up, closed>>
      BY Zenon, <2>4 DEF SendConn, session
    <3>3. pc[t] \notin {"idle", "release", "closeDeliver"}
      BY Zenon, <2>4 DEF SendConn
    <3> QED
      BY Zenon, <3>1, <3>2, <3>3, LeakOther
  <2>5. CASE WriteConn(t)
    BY Zenon, <2>5 DEF NoConnLeak, UpInv, Transports, WriteConn, Goto, session, timers, polling,
       flight, locals, env, endHist
  <2>6. ASSUME NEW n \in 0..Len(batch), WriteFail(t, n) PROVE NoConnLeak'
    BY ZenonT(60), <2>6 DEF NoConnLeak, UpInv, Transports, WriteFail, CallClose, Call, session,
       timers, polling, env, endHist
  <2>7. CASE DropSent(t)
    <3>1. OnlyMoves(t)
      BY Zenon, <2>7, GotoMoves, CallMoves DEF DropSent, CallClose, Return
    <3>2. UNCHANGED <<transport, upgradeTransport, old, up, closed>>
      BY Zenon, <2>7 DEF DropSent, session
    <3>3. pc[t] \notin {"idle", "release", "closeDeliver"}
      BY Zenon, <2>7 DEF DropSent
    <3> QED
      BY Zenon, <3>1, <3>2, <3>3, LeakOther
  <2> QED
    BY Zenon, <1>6, <2>1, <2>2, <2>3, <2>4, <2>5, <2>6, <2>7 DEF Flush
<1>7. ASSUME NEW t \in Threads, CloseWithReason(t) PROVE NoConnLeak'
  <2>1. CASE Teardown(t)
    <3>1. pc[t] = "teardown" /\ closed' = closed
      BY Zenon, <2>1 DEF Teardown
    <3>2. CASE beginTeardown(t)
      BY Zenon, <3>1, <3>2, LeakTaken
    <3>3. CASE Return(t) /\ UNCHANGED <<session, old, up>>
      <4>1. OnlyMoves(t)
        BY Zenon, <3>3, CallMoves DEF Return
      <4>2. UNCHANGED <<transport, upgradeTransport, old, up, closed>>
        BY Zenon, <3>1, <3>3 DEF session
      <4> QED
        BY Zenon, <3>1, <4>1, <4>2, LeakOther
    <3> QED
      BY Zenon, <2>1, <3>2, <3>3 DEF Teardown
  <2>2. CASE CloseStop(t)
    BY ZenonT(60), <2>2 DEF NoConnLeak, UpInv, Transports, CloseStop, session, timers, polling,
       flight, env, outHist
  <2>3. CASE CloseOld(t)
    BY <2>3 DEF NoConnLeak, UpInv, Transports, CloseOld, Goto, TakesPoll, session, timers,
       flight, env, outHist, endHist
  <2>4. CASE CloseDeliver(t)
    BY Zenon, <2>4 DEF NoConnLeak, UpInv, Transports, CloseDeliver, Goto, Put, session, timers,
       flight, env, outHist, endHist
  <2>5. CASE CloseUp(t)
    BY Zenon, <2>5 DEF NoConnLeak, UpInv, Transports, CloseUp, session, timers, polling, flight,
       env, outHist, endHist
  <2>6. CASE Released(t)
    BY <2>6 DEF NoConnLeak, UpInv, Transports, Released, Goto, Return, Call, session, timers,
       polling, env, outHist, endHist
  <2>7. CASE Notify(t)
    BY Zenon, <2>7 DEF NoConnLeak, UpInv, Transports, Notify, Return, Call, session, timers,
       polling, env, outHist
  <2> QED
    BY ZenonT(60), <1>7, <2>1, <2>2, <2>3, <2>4, <2>5, <2>6, <2>7 DEF CloseWithReason
<1>8. ASSUME NEW n \in Noops, Noop(n) PROVE NoConnLeak'
  <2>1. CASE NoopTick(n)
    BY Zenon, <2>1 DEF NoConnLeak, UpInv, Transports, NoopTick, Goto, session, timers, polling,
       flight, locals, env, outHist, endHist
  <2>2. CASE NoopClaim(n)
    BY Zenon, <2>2 DEF NoConnLeak, UpInv, Transports, NoopClaim, Goto, session, timers, flight,
       env, outHist, endHist
  <2>3. CASE NoopDeliver(n)
    BY ZenonT(60), <2>3 DEF NoConnLeak, UpInv, Transports, NoopDeliver, Goto, Put, session,
       timers, flight, env, outHist, endHist
  <2>4. CASE NoopStop(n)
    BY ZenonT(60), ZenonT(60), <2>4 DEF NoConnLeak, UpInv, Transports, NoopStop, Goto, session,
       timers, polling, flight, locals, env, outHist, endHist
  <2> QED
    BY Zenon, <1>8, <2>1, <2>2, <2>3, <2>4 DEF Noop
<1>9. ASSUME NEW c \in Conns, onProbe(c) PROVE NoConnLeak'
  BY SMTT(60), <1>9 DEF NoConnLeak, UpInv, Transports, onProbe, Goto, ProbeAnswered, timers,
     polling, flight, locals, env, outHist, endHist
<1>10. ASSUME NEW t \in Threads, Abort(t) PROVE NoConnLeak'
  BY <1>10 DEF NoConnLeak, UpInv, Transports, Abort, Goto, Return, Call, ClearUpgrade,
     UpgradeInFlight, polling, env, outHist, endHist
<1>11. CASE UNCHANGED vars
  BY Zenon, <1>11 DEF NoConnLeak, UpInv, Transports, vars, session, timers, polling, flight,
     locals, env, outHist, endHist
<1> QED
  BY ZenonT(60), <1>11, <1>1, <1>2, <1>3, <1>4, <1>5, <1>6, <1>7, <1>8, <1>9, <1>10 DEF Next,
     Terminated
=============================================================================
