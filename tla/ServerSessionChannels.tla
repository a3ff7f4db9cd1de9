----------------------- MODULE ServerSessionChannels -----------------------
(* The channels of ServerSession have one owner each: StopInv, on the stop  *)
(* channels of the noop goroutines, and PollInv, on the channels of the     *)
(* held polls, are inductive.                                               *)
EXTENDS ServerSessionTypes

\* A stop channel is made by onProbe and then has one owner: the session, later the goroutine
\* that snapshotted it, and once that has closed it nobody.
StopInv ==
  /\ \A n \in Noops :
       /\ pc[n] \in {"idle", "tick", "noop", "noopDeliver", "wait", "done"}
       /\ pc[n] = "idle" => stopCloses[n] = 0
       /\ probeNoopStop = n => pc[n] # "idle" /\ stopCloses[n] = 0
       /\ stopCloses[n] <= 1
       /\ \A t \in Threads : stop[t] = n =>
            /\ pc[n] # "idle" /\ stopCloses[n] = 0 /\ probeNoopStop # n
            /\ \A u \in Threads : stop[u] = n => u = t
  /\ \A t \in Threads : stop[t] # Nil => pc[t] = "release"
  /\ NoopStoppable

\* Goroutine t takes the session's stop channel and is going to close it.
StopTaken(t) ==
  /\ stop' = [stop EXCEPT ![t] = probeNoopStop]
  /\ probeNoopStop' = Nil
  /\ pc' = [pc EXCEPT ![t] = "release"]
  /\ UNCHANGED stopCloses

\* A step of a goroutine that owns no stop channel, and touches none, preserves StopInv.
LEMMA StopOther ==
  ASSUME DataOK, StopInv, NEW t \in Threads \ Noops, OnlyMoves(t),
         pc[t] # "release" \/ stop[t] = Nil,
         UNCHANGED <<probeNoopStop, stop, stopCloses>>
  PROVE  StopInv'
<1>1. \A n \in Noops : pc'[n] = pc[n]
  BY Zenon, Disjoint DEF OnlyMoves
<1>2. stop[t] = Nil
  BY Zenon DEF StopInv
<1>3. \A u \in Threads : stop[u] # Nil => pc'[u] = "release"
  BY Zenon, <1>2 DEF OnlyMoves, StopInv
<1> QED
  BY <1>1, <1>3 DEF StopInv, NoopStoppable

\* So does a step of the goroutine that onProbe started.
LEMMA StopNoopMoves ==
  ASSUME DataOK, StopInv, NEW n \in Noops, OnlyMoves(n), pc[n] # "idle",
         pc[n] # "done", pc'[n] \in {"noop", "noopDeliver", "wait", "done"},
         UNCHANGED <<probeNoopStop, stop, stopCloses>>
  PROVE  StopInv'
<1>1. stop[n] = Nil
  BY Zenon, Disjoint DEF StopInv
<1>2. \A m \in Noops : /\ pc'[m] \in {"idle", "tick", "noop", "noopDeliver", "wait", "done"}
                       /\ pc'[m] = "idle" <=> pc[m] = "idle"
  BY Zenon, Disjoint DEF OnlyMoves, StopInv
<1>3. \A u \in Threads : stop[u] # Nil => pc'[u] = "release"
  BY Zenon, <1>1 DEF OnlyMoves, StopInv
<1>4. NoopStoppable'
  <2>1. \A m \in Noops \ {n} : pc'[m] = pc[m]
    BY Zenon, Disjoint DEF OnlyMoves
  <2> QED
    BY Zenon, <2>1 DEF StopInv, NoopStoppable
<1> QED
  BY <1>2, <1>3, <1>4 DEF StopInv

\* So does taking the stop channel from the session (beginTeardown, beginAbortUpgrade and
\* beginCompleteUpgrade).
LEMMA StopTakenKeeps ==
  ASSUME DataOK, StopInv, NEW t \in Threads \ Noops, pc[t] # "release", StopTaken(t)
  PROVE  StopInv'
  BY Disjoint DEF StopTaken, StopInv, NoopStoppable, DataOK

\* StopInv is preserved by every step.
LEMMA StopStep == ASSUME DataOK, HeldInv, StopInv, [Next]_vars PROVE StopInv'
<1>1. CASE Handshake
  <2>1. CASE HandshakeWrite
    BY <2>1, Disjoint DEF StopInv, NoopStoppable, DataOK, HandshakeWrite, Goto, session, timers,
       polling, flight, locals, outHist, endHist
  <2>2. CASE HandshakeFail
    <3>1. /\ \A n \in Noops : pc'[n] = pc[n]
          /\ \A t \in Threads : pc[t] = "release" => pc'[t] = pc[t]
      BY SMTT(60), <2>2, Disjoint DEF HandshakeFail, HeldInv, DataOK
    <3> QED
      BY SMTT(60), <2>2, <3>1, Disjoint DEF HandshakeFail, StopInv, NoopStoppable, DataOK,
         session, locals, endHist
  <2>3. CASE HandshakeOpen
    BY SMTT(60), <2>3, Disjoint DEF StopInv, NoopStoppable, DataOK, HandshakeOpen, Goto, Arm,
       polling, flight, locals, env, outHist, endHist
  <2>4. CASE HandshakeHandler
    <3>1. /\ \A n \in Noops : pc'[n] = pc[n]
          /\ \A t \in Threads : pc[t] = "release" => pc'[t] = pc[t]
      BY <2>4, Disjoint DEF HandshakeHandler, HeldInv, DataOK
    <3> QED
      BY <2>4, <3>1, Disjoint DEF HandshakeHandler, StopInv, NoopStoppable, DataOK, session,
         locals, endHist
  <2> QED
    BY ZenonT(60), <1>1, <2>1, <2>2, <2>3, <2>4 DEF Handshake
<1>2. ASSUME NEW w \in Workers, Worker(w) PROVE StopInv'
  <2>1. CASE ArmClose(w)
    <3>1. OnlyMoves(w) /\ UNCHANGED <<probeNoopStop, stop, stopCloses>>
      BY Zenon, <2>1, ThreadTypes, LocalTypes DEF OnlyMoves, ArmClose, Goto, session, locals,
         endHist
    <3> QED
      BY Zenon, <2>1, <3>1, Disjoint, StopOther DEF ArmClose
  <2>2. CASE sendPing(w)
    <3>1. OnlyMoves(w) /\ UNCHANGED <<probeNoopStop, stop, stopCloses>>
      BY Zenon, <2>2, ThreadTypes, LocalTypes DEF OnlyMoves, sendPing, Goto, session, locals,
         endHist
    <3> QED
      BY Zenon, <2>2, <3>1, Disjoint, StopOther DEF sendPing
  <2>3. ASSUME NEW k \in Timers, Fire(w, k) PROVE StopInv'
    <3>1. OnlyMoves(w) /\ UNCHANGED <<probeNoopStop, stop, stopCloses>>
      BY Zenon, <2>3, ThreadTypes, LocalTypes DEF OnlyMoves, Fire, Call, session, endHist
    <3> QED
      BY Zenon, <2>3, <3>1, Disjoint, StopOther DEF Fire
  <2> QED
    BY Zenon, <1>2, <2>1, <2>2, <2>3 DEF Worker
<1>3. ASSUME NEW w \in Workers, Application(w) PROVE StopInv'
  <2>1. ASSUME NEW m \in Msgs, Send(w, m) PROVE StopInv'
    <3>1. OnlyMoves(w) /\ UNCHANGED <<probeNoopStop, stop, stopCloses>>
      BY Zenon, <2>1, ThreadTypes, LocalTypes DEF OnlyMoves, Send, CallFlush, Call, session,
         endHist
    <3> QED
      BY Zenon, <2>1, <3>1, Disjoint, StopOther DEF Send
  <2>2. CASE Close(w)
    <3>1. OnlyMoves(w) /\ UNCHANGED <<probeNoopStop, stop, stopCloses>>
      BY Zenon, <2>2, ThreadTypes, LocalTypes DEF OnlyMoves, Close, CallFlush, Call, endHist
    <3> QED
      BY Zenon, <2>2, <3>1, Disjoint, StopOther DEF Close
  <2>3. CASE ServerClose(w)
    <3>1. pc[w] # "release" /\ StopTaken(w)
      BY Zenon, <2>3 DEF StopTaken, ServerClose, CloseNow, beginTeardown, Goto, endHist
    <3> QED
      BY Zenon, <3>1, Disjoint, StopTakenKeeps
  <2> QED
    BY Zenon, <1>3, <2>1, <2>2, <2>3 DEF Application
<1>4. CASE Client
  <2>1. ASSUME NEW w \in Workers, PostPong(w) PROVE StopInv'
    <3>1. OnlyMoves(w) /\ UNCHANGED <<probeNoopStop, stop, stopCloses>>
      BY Zenon, <2>1, ThreadTypes, LocalTypes DEF OnlyMoves, PostPong, session, locals, endHist
    <3> QED
      BY Zenon, <2>1, <3>1, Disjoint, StopOther DEF PostPong
  <2>2. ASSUME NEW w \in Workers, PostClose(w) PROVE StopInv'
    <3>1. pc[w] # "release" /\ StopTaken(w)
      BY Zenon, <2>2 DEF StopTaken, PostClose, CloseNow, beginTeardown, Goto, endHist
    <3> QED
      BY Zenon, <3>1, Disjoint, StopTakenKeeps
  <2>3. ASSUME NEW p \in Polls, Poll(p) PROVE StopInv'
    <3>1. OnlyMoves(p) /\ UNCHANGED <<probeNoopStop, stop, stopCloses>>
      BY Zenon, <2>3, ThreadTypes, LocalTypes DEF OnlyMoves, Poll, Goto, session, locals,
         endHist
    <3> QED
      BY Zenon, <2>3, <3>1, Disjoint, StopOther DEF Poll
  <2>4. ASSUME NEW p \in Polls, Cancel(p) PROVE StopInv'
    <3>1. OnlyMoves(p) /\ UNCHANGED <<probeNoopStop, stop, stopCloses>>
      BY <2>4, ThreadTypes, LocalTypes DEF OnlyMoves, Cancel, Goto, CallClose, Call, session,
         endHist
    <3> QED
      BY Zenon, <2>4, <3>1, Disjoint, StopOther DEF Cancel
  <2>5. ASSUME NEW c \in Conns, StartUpgrade(c) PROVE StopInv'
    <3>1. OnlyMoves(c) /\ UNCHANGED <<probeNoopStop, stop, stopCloses>>
      BY Zenon, <2>5, ThreadTypes, LocalTypes DEF OnlyMoves, StartUpgrade, Goto, locals, endHist
    <3> QED
      BY Zenon, <2>5, <3>1, Disjoint, StopOther DEF StartUpgrade
  <2>6. ASSUME NEW c \in Conns, ReadProbe(c) PROVE StopInv'
    <3>1. OnlyMoves(c) /\ UNCHANGED <<probeNoopStop, stop, stopCloses>>
      BY Zenon, <2>6, ThreadTypes, LocalTypes DEF OnlyMoves, ReadProbe, Goto, Call, session,
         endHist
    <3> QED
      BY Zenon, <2>6, <3>1, Disjoint, StopOther DEF ReadProbe
  <2>7. ASSUME NEW c \in Conns, ReadUpgrade(c) PROVE StopInv'
    <3>1. pc[c] # "release" /\ StopTaken(c)
      BY Zenon, <2>7 DEF StopTaken, ReadUpgrade, ClearUpgrade, Call, endHist
    <3> QED
      BY Zenon, <3>1, Disjoint, StopTakenKeeps
  <2>8. ASSUME NEW c \in Conns, ReadPong(c) PROVE StopInv'
    <3>1. OnlyMoves(c) /\ UNCHANGED <<probeNoopStop, stop, stopCloses>>
      BY Zenon, <2>8, ThreadTypes, LocalTypes DEF OnlyMoves, ReadPong, session, locals, endHist
    <3> QED
      BY Zenon, <2>8, <3>1, Disjoint, StopOther DEF ReadPong
  <2>9. ASSUME NEW c \in Conns, ReadClose(c) PROVE StopInv'
    <3>1. pc[c] # "release" /\ StopTaken(c)
      BY Zenon, <2>9 DEF StopTaken, ReadClose, CloseNow, beginTeardown, Goto, endHist
    <3> QED
      BY Zenon, <3>1, Disjoint, StopTakenKeeps
  <2>10. ASSUME NEW c \in Conns, ReadError(c) PROVE StopInv'
    <3>1. CASE CloseNow(c, "done")
      <4>1. pc[c] # "release" /\ StopTaken(c)
        BY Zenon, <2>10, <3>1 DEF StopTaken, ReadError, CloseNow, beginTeardown, Goto, endHist
      <4> QED
        BY Zenon, <4>1, Disjoint, StopTakenKeeps
    <3>2. CASE ~CloseNow(c, "done")
      <4>1. OnlyMoves(c) /\ UNCHANGED <<probeNoopStop, stop, stopCloses>>
        BY Zenon, <2>10, <3>2, ThreadTypes, LocalTypes DEF OnlyMoves, ReadError, Goto, Call,
           session, locals, endHist
      <4> QED
        BY Zenon, <2>10, <4>1, Disjoint, StopOther DEF ReadError
    <3> QED
      BY Zenon, <3>1, <3>2
  <2> QED
    BY Zenon, <1>4, <2>1, <2>2, <2>3, <2>4, <2>5, <2>6, <2>7, <2>8, <2>9, <2>10 DEF Client
<1>5. ASSUME NEW p \in Polls, PollHandler(p) PROVE StopInv'
  <2>1. CASE Hold(p)
    <3>1. OnlyMoves(p) /\ UNCHANGED <<probeNoopStop, stop, stopCloses>>
      BY Zenon, <2>1, ThreadTypes, LocalTypes DEF OnlyMoves, Hold, Goto, CallClose, Call,
         CallFlush, session, endHist
    <3> QED
      BY Zenon, <2>1, <3>1, Disjoint, StopOther DEF Hold
  <2>2. CASE Respond(p)
    <3>1. OnlyMoves(p) /\ UNCHANGED <<probeNoopStop, stop, stopCloses>>
      BY Zenon, <2>2, ThreadTypes, LocalTypes DEF OnlyMoves, Respond, Goto, CallClose, Call,
         session, endHist
    <3> QED
      BY Zenon, <2>2, <3>1, Disjoint, StopOther DEF Respond
  <2>3. CASE Drain(p)
    <3>1. OnlyMoves(p) /\ UNCHANGED <<probeNoopStop, stop, stopCloses>>
      BY Zenon, <2>3, ThreadTypes, LocalTypes DEF OnlyMoves, Drain, CallClose, Call, session,
         endHist
    <3> QED
      BY Zenon, <2>3, <3>1, Disjoint, StopOther DEF Drain
  <2> QED
    BY Zenon, <1>5, <2>1, <2>2, <2>3 DEF PollHandler
<1>6. ASSUME NEW t \in Threads, Flush(t) PROVE StopInv'
  <2>1. CASE FlushClone(t)
    <3>1. OnlyMoves(t) /\ UNCHANGED <<probeNoopStop, stop, stopCloses>>
      BY Zenon, <2>1, ThreadTypes, LocalTypes DEF OnlyMoves, FlushClone, Goto, Return,
         Call, session, endHist
    <3>2. t \notin Noops
      BY Zenon, <2>1 DEF FlushClone, StopInv
    <3> QED
      BY Zenon, <2>1, <3>1, <3>2, StopOther DEF FlushClone
  <2>2. CASE SendPoll(t)
    <3>1. OnlyMoves(t) /\ UNCHANGED <<probeNoopStop, stop, stopCloses>>
      BY Zenon, <2>2, ThreadTypes, LocalTypes DEF OnlyMoves, SendPoll, Goto, NotSent, Return,
         Call, session, endHist
    <3>2. t \notin Noops
      BY Zenon, <2>2 DEF SendPoll, StopInv
    <3> QED
      BY Zenon, <2>2, <3>1, <3>2, StopOther DEF SendPoll
  <2>3. CASE Deliver(t)
    <3>1. OnlyMoves(t) /\ UNCHANGED <<probeNoopStop, stop, stopCloses>>
      BY Zenon, <2>3, ThreadTypes, LocalTypes DEF OnlyMoves, Deliver, Goto, Put, session,
         endHist
    <3>2. t \notin Noops
      BY Zenon, <2>3 DEF Deliver, StopInv
    <3> QED
      BY Zenon, <2>3, <3>1, <3>2, StopOther DEF Deliver
  <2>4. CASE SendConn(t)
    <3>1. OnlyMoves(t) /\ UNCHANGED <<probeNoopStop, stop, stopCloses>>
      BY ZenonT(60), <2>4, ThreadTypes, LocalTypes DEF OnlyMoves, SendConn, Goto, NotSent, Return,
         Call, session, endHist
    <3>2. t \notin Noops
      BY Zenon, <2>4 DEF SendConn, StopInv
    <3> QED
      BY Zenon, <2>4, <3>1, <3>2, StopOther DEF SendConn
  <2>5. CASE WriteConn(t)
    <3>1. OnlyMoves(t) /\ UNCHANGED <<probeNoopStop, stop, stopCloses>>
      BY Zenon, <2>5, ThreadTypes, LocalTypes DEF OnlyMoves, WriteConn, Goto, session, locals,
         endHist
    <3>2. t \notin Noops
      BY Zenon, <2>5 DEF WriteConn, StopInv
    <3> QED
      BY Zenon, <2>5, <3>1, <3>2, StopOther DEF WriteConn
  <2>6. ASSUME NEW n \in 0..Len(batch), WriteFail(t, n) PROVE StopInv'
    <3>1. OnlyMoves(t) /\ UNCHANGED <<probeNoopStop, stop, stopCloses>>
      BY Zenon, <2>6, ThreadTypes, LocalTypes DEF OnlyMoves, WriteFail, CallClose, Call,
         session, endHist
    <3>2. t \notin Noops
      BY Zenon, <2>6 DEF WriteFail, StopInv
    <3> QED
      BY Zenon, <2>6, <3>1, <3>2, StopOther DEF WriteFail
  <2>7. CASE DropSent(t)
    <3>1. OnlyMoves(t) /\ UNCHANGED <<probeNoopStop, stop, stopCloses>>
      BY ZenonT(60), <2>7, ThreadTypes, LocalTypes DEF OnlyMoves, DropSent, Goto, CallClose,
         Call, Return, session, endHist
    <3>2. t \notin Noops
      BY Zenon, <2>7 DEF DropSent, StopInv
    <3> QED
      BY Zenon, <2>7, <3>1, <3>2, StopOther DEF DropSent
  <2> QED
    BY Zenon, <1>6, <2>1, <2>2, <2>3, <2>4, <2>5, <2>6, <2>7 DEF Flush
<1>7. ASSUME NEW t \in Threads, CloseWithReason(t) PROVE StopInv'
  <2>1. CASE Teardown(t)
    <3>1. CASE beginTeardown(t)
      <4>1. pc[t] = "teardown" /\ StopTaken(t)
        BY Zenon, <2>1, <3>1 DEF StopTaken, Teardown, beginTeardown, Goto, endHist
      <4> QED
        BY Zenon, <4>1, StopTakenKeeps DEF StopInv
    <3>2. CASE Return(t) /\ UNCHANGED <<session, stop>>
      <4>1. OnlyMoves(t) /\ UNCHANGED <<probeNoopStop, stop, stopCloses>>
        BY Zenon, <2>1, <3>2, ThreadTypes, LocalTypes DEF OnlyMoves, Teardown, Return, Call,
           session, endHist
      <4>2. t \notin Noops
        BY ZenonT(60), <2>1 DEF Teardown, StopInv
      <4> QED
        BY Zenon, <2>1, <4>1, <4>2, StopOther DEF Teardown
    <3> QED
      BY Zenon, <2>1, <3>1, <3>2 DEF Teardown
  <2>2. CASE CloseStop(t)
    BY SMTT(30), <2>2, Disjoint DEF StopInv, NoopStoppable, DataOK, CloseStop, session, timers,
       polling, flight, env, outHist
  <2>3. CASE CloseOld(t)
    BY SMTT(30), <2>3, Disjoint DEF StopInv, NoopStoppable, DataOK, CloseOld, Goto, TakesPoll,
       session, timers, flight, env, outHist, endHist
  <2>4. CASE CloseDeliver(t)
    <3>1. OnlyMoves(t) /\ UNCHANGED <<probeNoopStop, stop, stopCloses>>
      BY Zenon, <2>4, ThreadTypes, LocalTypes DEF OnlyMoves, CloseDeliver, Goto, Put, session,
         endHist
    <3>2. t \notin Noops
      BY ZenonT(60), <2>4 DEF CloseDeliver, StopInv
    <3> QED
      BY Zenon, <2>4, <3>1, <3>2, StopOther DEF CloseDeliver
  <2>5. CASE CloseUp(t)
    BY <2>5, Disjoint DEF StopInv, NoopStoppable, DataOK, CloseUp, session, timers, polling,
       flight, env, outHist, endHist
  <2>6. CASE Released(t)
    <3>1. OnlyMoves(t) /\ UNCHANGED <<probeNoopStop, stop, stopCloses>>
      BY Zenon, <2>6, ThreadTypes, LocalTypes DEF OnlyMoves, Released, Goto, Return, Call,
         session, endHist
    <3>2. t \notin Noops
      BY Zenon, <2>6 DEF Released, StopInv
    <3> QED
      BY Zenon, <2>6, <3>1, <3>2, StopOther DEF Released
  <2>7. CASE Notify(t)
    <3>1. OnlyMoves(t) /\ UNCHANGED <<probeNoopStop, stop, stopCloses>>
      BY Zenon, <2>7, ThreadTypes, LocalTypes DEF OnlyMoves, Notify, Return, Call, session
    <3>2. t \notin Noops
      BY Zenon, <2>7 DEF Notify, StopInv
    <3> QED
      BY Zenon, <2>7, <3>1, <3>2, StopOther DEF Notify
  <2> QED
    BY Zenon, <1>7, <2>1, <2>2, <2>3, <2>4, <2>5, <2>6, <2>7 DEF CloseWithReason
<1>8. ASSUME NEW n \in Noops, Noop(n) PROVE StopInv'
  <2>1. CASE NoopTick(n)
    <3>1. OnlyMoves(n) /\ UNCHANGED <<probeNoopStop, stop, stopCloses>>
      BY ZenonT(60), <2>1, ThreadTypes, LocalTypes DEF OnlyMoves, NoopTick, Goto, session,
         endHist, locals
    <3>2. pc[n] \notin {"idle", "done"} /\ pc'[n] \in {"noop", "noopDeliver", "wait", "done"}
      BY ZenonT(60), <2>1, Disjoint DEF DataOK, NoopTick, Goto
    <3> QED
      BY Zenon, <3>1, <3>2, StopNoopMoves
  <2>2. CASE NoopClaim(n)
    <3>1. OnlyMoves(n) /\ UNCHANGED <<probeNoopStop, stop, stopCloses>>
      BY Zenon, <2>2, ThreadTypes, LocalTypes DEF OnlyMoves, NoopClaim, Goto, session, endHist
    <3>2. pc[n] \notin {"idle", "done"} /\ pc'[n] \in {"noop", "noopDeliver", "wait", "done"}
      BY Zenon, <2>2, Disjoint DEF DataOK, NoopClaim, Goto
    <3> QED
      BY Zenon, <3>1, <3>2, StopNoopMoves
  <2>3. CASE NoopDeliver(n)
    <3>1. OnlyMoves(n) /\ UNCHANGED <<probeNoopStop, stop, stopCloses>>
      BY Zenon, <2>3, ThreadTypes, LocalTypes DEF OnlyMoves, NoopDeliver, Goto, session, endHist
    <3>2. pc[n] \notin {"idle", "done"} /\ pc'[n] \in {"noop", "noopDeliver", "wait", "done"}
      BY Zenon, <2>3, Disjoint DEF DataOK, NoopDeliver, Goto
    <3> QED
      BY Zenon, <3>1, <3>2, StopNoopMoves
  <2>4. CASE NoopStop(n)
    <3>1. OnlyMoves(n) /\ UNCHANGED <<probeNoopStop, stop, stopCloses>>
      BY Zenon, <2>4, ThreadTypes, LocalTypes DEF OnlyMoves, NoopStop, Goto, session, endHist,
         locals
    <3>2. pc[n] \notin {"idle", "done"} /\ pc'[n] \in {"noop", "noopDeliver", "wait", "done"}
      BY Zenon, <2>4, Disjoint DEF DataOK, NoopStop, Goto
    <3> QED
      BY Zenon, <3>1, <3>2, StopNoopMoves
  <2> QED
    BY Zenon, <1>8, <2>1, <2>2, <2>3, <2>4 DEF Noop
<1>9. ASSUME NEW c \in Conns, onProbe(c) PROVE StopInv'
  <2>1. CASE ProbeAnswered
    <3>1. OnlyMoves(c) /\ UNCHANGED <<probeNoopStop, stop, stopCloses>>
      BY ZenonT(60), <1>9, <2>1, ThreadTypes, LocalTypes DEF OnlyMoves, onProbe, Goto, locals,
         endHist
    <3> QED
      BY Zenon, <1>9, <3>1, Disjoint, StopOther DEF onProbe
  <2>2. CASE ~ProbeAnswered
    <3>1. PICK n \in Noops : /\ pc[n] = "idle" /\ probeNoopStop' = n
                            /\ pc' = [pc EXCEPT ![c] = "read", ![n] = "tick"]
      BY Zenon, <1>9, <2>2 DEF onProbe
    <3>2. \A t \in Threads : pc'[t] = IF t = n THEN "tick" ELSE IF t = c THEN "read" ELSE pc[t]
      BY SMTT(30), <1>9, <3>1, Disjoint DEF DataOK
    <3>3. UNCHANGED <<stop, stopCloses>> /\ stop[c] = Nil /\ \A t \in Threads : stop[t] # n
      BY Zenon, <1>9, <3>1, Disjoint DEF onProbe, locals, endHist, StopInv
    <3>4. \A m \in Noops : m # n => pc'[m] = pc[m] /\ probeNoopStop' # m
      BY Zenon, <1>9, <3>1, <3>2, Disjoint
    <3>5. \A t \in Threads : stop'[t] # Nil => pc'[t] = "release"
      BY Zenon, <1>9, <3>1, <3>2, <3>3, Disjoint DEF StopInv
    <3>6. pc'[n] = "tick" /\ stopCloses[n] = 0
      BY Zenon, <1>9, <3>1, <3>2, Disjoint DEF StopInv
    <3> QED
      <4>1. probeNoopStop = Nil
        BY Zenon, <1>9, <2>2 DEF onProbe, ProbeAnswered
      <4>2. NoopStoppable'
        BY Zenon, <1>9, <3>1, <3>3, <3>4, <4>1, Disjoint DEF StopInv, NoopStoppable
      <4> QED
        BY <1>9, <3>3, <3>4, <3>5, <3>6, <4>2 DEF StopInv
  <2> QED
    BY Zenon, <1>9, <2>1, <2>2
<1>10. ASSUME NEW t \in Threads, Abort(t) PROVE StopInv'
  <2>1. CASE UpgradeInFlight(up[t])
    <3>1. pc[t] = "abort" /\ StopTaken(t)
      BY Zenon, <1>10, <2>1 DEF StopTaken, Abort, ClearUpgrade, Goto, endHist
    <3> QED
      BY Zenon, <1>10, <3>1, StopTakenKeeps DEF StopInv
  <2>2. CASE ~UpgradeInFlight(up[t])
    <3>1. OnlyMoves(t) /\ UNCHANGED <<probeNoopStop, stop, stopCloses>>
      BY Zenon, <1>10, <2>2, ThreadTypes, LocalTypes DEF OnlyMoves, Abort, Return, Call,
         endHist
    <3>2. t \notin Noops
      BY ZenonT(60), <1>10 DEF Abort, StopInv
    <3> QED
      BY Zenon, <1>10, <3>1, <3>2, StopOther DEF Abort
  <2> QED
    BY Zenon, <1>10, <2>1, <2>2
<1>11. CASE UNCHANGED vars
  BY <1>11 DEF StopInv, NoopStoppable, DataOK, vars, session, timers, polling, flight, locals,
     env, outHist, endHist
<1> QED
  BY Zenon, <1>11, <1>1, <1>2, <1>3, <1>4, <1>5, <1>6, <1>7, <1>8, <1>9, <1>10 DEF Next,
     Terminated
-----------------------------------------------------------------------------
(* Who answers a held poll.                                                 *)

\* A goroutine owns a poll channel only between taking it from dataCh and filling it, and a
\* poll handler returns from flush and closeWithReason to its select or to its end.
PollLabels ==
  /\ \A p \in Polls :
       /\ pc[p] \in {"idle", "hold", "select", "drain", "done", "flush", "send", "deliver",
                     "write", "drop", "teardown", "release", "closeDeliver", "notify"}
       /\ ret[p] \in {"idle", "select", "done"}
  /\ \A t \in Threads : claim[t] # Nil => pc[t] \in {"deliver", "closeDeliver", "noopDeliver"}

\* Besides, a closed polling transport holds no poll.
PollInv ==
  /\ PollLabels
  /\ Polling \in closed => dataCh = Nil
  /\ ExclusiveDelivery
  /\ NoOrphanedPoll

\* A step that leaves the polls, their channels and the claims alone preserves PollInv.
LEMMA PollFrame ==
  ASSUME PollInv, PollLabels', UNCHANGED <<dataCh, channel, claim>>,
         Polling \in closed' => Polling \in closed,
         \A p \in Polls : Waiting(p)' <=> Waiting(p)
  PROVE  PollInv'
<1>1. ExclusiveDelivery'
  BY Zenon DEF PollInv, ExclusiveDelivery
<1>2. NoOrphanedPoll'
  BY Zenon DEF PollInv, NoOrphanedPoll
<1> QED
  BY Zenon, <1>1, <1>2 DEF PollInv

\* So does taking the held poll from dataCh (send, writeNoop, close).
LEMMA PollTake ==
  ASSUME DataOK, PollInv, PollLabels', NEW t \in Threads, claim[t] = Nil, dataCh # Nil,
         claim' = [claim EXCEPT ![t] = dataCh], dataCh' = Nil, UNCHANGED channel,
         \A p \in Polls : Waiting(p)' <=> Waiting(p)
  PROVE  PollInv'
<1>1. \A u \in Threads : claim'[u] = IF u = t THEN dataCh ELSE claim[u]
  BY Zenon DEF DataOK
<1>2. dataCh \in Polls /\ \A p \in Polls : p # Nil
  BY Zenon, Disjoint DEF DataOK
<1>3. ExclusiveDelivery'
  BY SMTT(60), <1>1, <1>2 DEF PollInv, ExclusiveDelivery
<1>4. NoOrphanedPoll'
  BY <1>1, <1>2 DEF PollInv, NoOrphanedPoll
<1> QED
  BY Zenon, <1>3, <1>4 DEF PollInv

\* And filling the channel a goroutine has taken.
LEMMA PollPut ==
  ASSUME DataOK, PollInv, PollLabels', NEW t \in Threads, NEW s \in Seqs, Put(t, s),
         UNCHANGED <<dataCh, closed>>, \A p \in Polls : Waiting(p)' <=> Waiting(p)
  PROVE  PollInv'
<1>1. s # Nil /\ \A p \in Polls : p # Nil
  BY Zenon, Disjoint
<1>2. \A p \in Polls : channel'[p] = IF p = claim[t] THEN s ELSE channel[p]
  BY Zenon DEF Put, DataOK
<1>3. \A u \in Threads : claim'[u] = IF u = t THEN Nil ELSE claim[u]
  BY Zenon DEF Put, DataOK
<1>4. ExclusiveDelivery'
  BY <1>1, <1>2, <1>3 DEF ExclusiveDelivery, PollInv
<1>5. NoOrphanedPoll'
  BY Zenon, <1>1, <1>2, <1>3 DEF NoOrphanedPoll, PollInv
<1> QED
  BY Zenon, <1>4, <1>5 DEF PollInv

\* And the handler receiving from its channel.
LEMMA PollReceive ==
  ASSUME DataOK, PollInv, PollLabels', NEW p \in Polls, channel[p] # Nil,
         channel' = [channel EXCEPT ![p] = Nil], UNCHANGED <<dataCh, claim, closed>>,
         \A q \in Polls : Waiting(q)' <=> Waiting(q) /\ q # p
  PROVE  PollInv'
<1>1. \A q \in Polls : channel'[q] = IF q = p THEN Nil ELSE channel[q]
  BY Zenon DEF DataOK
<1>2. ExclusiveDelivery'
  BY <1>1 DEF ExclusiveDelivery, PollInv
<1>3. NoOrphanedPoll'
  BY Zenon, <1>1 DEF NoOrphanedPoll, PollInv
<1> QED
  BY Zenon, <1>2, <1>3 DEF PollInv

\* A step of a goroutine that is not a poll and owns no poll channel.
LEMMA PollOther ==
  ASSUME DataOK, PollInv, NEW t \in Threads \ Polls, OnlyMoves(t),
         pc[t] \notin {"deliver", "closeDeliver", "noopDeliver"},
         UNCHANGED <<dataCh, channel, claim>>, Polling \in closed' => Polling \in closed
  PROVE  PollInv'
<1>1. \A p \in Polls : pc'[p] = pc[p] /\ ret'[p] = ret[p]
  BY Zenon, Disjoint DEF OnlyMoves
<1>2. PollLabels'
  BY Zenon, <1>1 DEF PollInv, PollLabels, OnlyMoves
<1>3. \A p \in Polls : Waiting(p)' <=> Waiting(p)
  BY Zenon, <1>1 DEF Waiting
<1> QED
  BY Zenon, <1>2, <1>3, PollFrame

\* Labels at which a goroutine runs flush or closeWithReason and owns no poll channel.
Routine == {"flush", "send", "write", "drop", "teardown", "release", "notify"}

\* A goroutine that moves inside flush or closeWithReason, or returns from it: a poll handler
\* that waits goes on waiting.
Moves(t) ==
  \/ Return(t)
  \/ UNCHANGED ret /\ \E l \in Routine : Goto(t, l)

\* Such a move leaves the same poll handlers waiting.
LEMMA MovesKeepWaiting ==
  ASSUME DataOK, PollInv, NEW t \in Threads,
         pc[t] \notin {"idle", "hold", "select", "drain", "done"}, Moves(t)
  PROVE  \A p \in Polls : Waiting(p)' <=> Waiting(p)
<1>1. ASSUME NEW p \in Polls, p # t PROVE Waiting(p)' <=> Waiting(p)
  <2>1. pc'[p] = pc[p] /\ ret'[p] = ret[p]
    BY <1>1, Disjoint DEF Moves, Return, Call, Goto, DataOK
  <2> QED
    BY ZenonT(60), <2>1 DEF Waiting
<1>2. CASE t \in Polls /\ Return(t)
  <2>1. pc'[t] = ret[t] /\ ret'[t] = "idle" /\ ret[t] \in {"idle", "select", "done"}
    BY Zenon, <1>2 DEF Return, Call, DataOK, PollInv, PollLabels
  <2> QED
    BY Zenon, <1>1, <2>1 DEF Waiting
<1>3. CASE t \in Polls /\ UNCHANGED ret /\ \E l \in Routine : Goto(t, l)
  <2>1. pc'[t] \in Routine
    BY Zenon, <1>3 DEF Goto, DataOK
  <2> QED
    BY Zenon, <1>1, <1>3, <2>1 DEF Waiting, Routine
<1> QED
  BY Zenon, <1>1, <1>2, <1>3 DEF Moves

\* Such a move, of a goroutine that owns no poll channel afterwards, preserves PollLabels.
LEMMA MovesKeepLabels ==
  ASSUME DataOK, PollInv, NEW t \in Threads, Moves(t),
         \A u \in Threads : claim'[u] = IF u = t THEN Nil ELSE claim[u]
  PROVE  PollLabels'
<1>1. \A u \in Threads : u # t => pc'[u] = pc[u] /\ ret'[u] = ret[u]
  BY Zenon DEF Moves, Return, Call, Goto, DataOK
<1>2. t \in Polls => /\ pc'[t] \in Routine \cup {"idle", "select", "done"}
                     /\ ret'[t] \in {"idle", "select", "done"}
  BY Zenon DEF Moves, Return, Call, Goto, DataOK, PollInv, PollLabels
<1> QED
  BY Zenon, <1>1, <1>2, Disjoint DEF PollInv, PollLabels, Routine

\* Such a move preserves PollInv when it touches no poll, ...
LEMMA PollRoutine ==
  ASSUME DataOK, PollInv, NEW t \in Threads, pc[t] \in Routine, Moves(t),
         UNCHANGED <<dataCh, channel, claim, closed>>
  PROVE  PollInv'
<1>1. claim[t] = Nil
  BY Zenon DEF PollInv, PollLabels, Routine
<1>2. PollLabels'
  BY Zenon, <1>1, MovesKeepLabels
<1>3. \A p \in Polls : Waiting(p)' <=> Waiting(p)
  BY Zenon, MovesKeepWaiting DEF Routine
<1> QED
  BY Zenon, <1>2, <1>3, PollFrame

\* ... and when it follows the delivery of a payload.
LEMMA PollDeliver ==
  ASSUME DataOK, PollInv, NEW t \in Threads, NEW s \in Seqs, Put(t, s),
         pc[t] \in {"deliver", "closeDeliver"}, Moves(t), UNCHANGED <<dataCh, closed>>
  PROVE  PollInv'
<1>1. \A u \in Threads : claim'[u] = IF u = t THEN Nil ELSE claim[u]
  BY Zenon DEF Put, DataOK
<1>2. PollLabels'
  BY Zenon, <1>1, MovesKeepLabels
<1>3. \A p \in Polls : Waiting(p)' <=> Waiting(p)
  BY ZenonT(60), MovesKeepWaiting
<1> QED
  BY Zenon, <1>2, <1>3, PollPut

\* PollInv is preserved by every step.
LEMMA PollStep == ASSUME DataOK, HeldInv, PollInv, [Next]_vars PROVE PollInv'
<1>1. CASE Handshake
  <2>1. CASE HandshakeWrite
    <3>1. OnlyMoves(Handshaker) /\ UNCHANGED <<dataCh, channel, claim, closed>>
      BY ZenonT(60), <2>1, ThreadTypes, LocalTypes DEF OnlyMoves, HandshakeWrite, Goto, polling,
         locals
    <3> QED
      BY Zenon, <2>1, <3>1, Disjoint, PollOther DEF HandshakeWrite
  <2>2. CASE HandshakeFail
    <3>1. /\ \A p \in Polls : pc'[p] = pc[p]
          /\ \A t \in Threads : claim[t] # Nil => pc'[t] = pc[t]
      BY SMTT(30), <2>2, Disjoint DEF HandshakeFail, PollInv, PollLabels, HeldInv, DataOK
    <3>2. PollLabels' /\ \A p \in Polls : Waiting(p)' <=> Waiting(p)
      BY Zenon, <2>2, <3>1 DEF HandshakeFail, PollInv, PollLabels, Waiting, locals
    <3>3. Polling \in closed' => Polling \in closed
      BY <2>2, Disjoint DEF HandshakeFail, DataOK
    <3> QED
      BY Zenon, <2>2, <3>2, <3>3, PollFrame DEF HandshakeFail, polling, locals
  <2>3. CASE HandshakeOpen
    <3>1. OnlyMoves(Handshaker) /\ UNCHANGED <<dataCh, channel, claim, closed>>
      BY ZenonT(60), <2>3, ThreadTypes, LocalTypes DEF OnlyMoves, HandshakeOpen, Goto, polling,
         locals
    <3> QED
      BY Zenon, <2>3, <3>1, Disjoint, PollOther DEF HandshakeOpen
  <2>4. CASE HandshakeHandler
    <3>1. /\ \A p \in Polls : pc'[p] = pc[p]
          /\ \A t \in Threads : claim[t] # Nil => pc'[t] = pc[t]
      BY <2>4, Disjoint DEF HandshakeHandler, PollInv, PollLabels, HeldInv, DataOK
    <3>2. PollLabels' /\ \A p \in Polls : Waiting(p)' <=> Waiting(p)
      BY ZenonT(60), <2>4, <3>1 DEF HandshakeHandler, PollInv, PollLabels, Waiting, locals
    <3>3. Polling \in closed' => Polling \in closed
      BY Zenon, <2>4, Disjoint DEF HandshakeHandler, DataOK
    <3> QED
      BY Zenon, <2>4, <3>2, <3>3, PollFrame DEF HandshakeHandler, polling, locals
  <2> QED
    BY Zenon, <1>1, <2>1, <2>2, <2>3, <2>4 DEF Handshake
<1>2. ASSUME NEW w \in Workers, Worker(w) PROVE PollInv'
  <2>1. CASE ArmClose(w)
    <3>1. OnlyMoves(w) /\ UNCHANGED <<dataCh, channel, claim, closed>>
      BY Zenon, <2>1, ThreadTypes, LocalTypes DEF OnlyMoves, ArmClose, Goto, polling, locals
    <3> QED
      BY Zenon, <2>1, <3>1, Disjoint, PollOther DEF ArmClose
  <2>2. CASE sendPing(w)
    <3>1. OnlyMoves(w) /\ UNCHANGED <<dataCh, channel, claim, closed>>
      BY Zenon, <2>2, ThreadTypes, LocalTypes DEF OnlyMoves, sendPing, Goto, polling, locals
    <3> QED
      BY Zenon, <2>2, <3>1, Disjoint, PollOther DEF sendPing
  <2>3. ASSUME NEW k \in Timers, Fire(w, k) PROVE PollInv'
    <3>1. OnlyMoves(w) /\ UNCHANGED <<dataCh, channel, claim, closed>>
      BY Zenon, <2>3, ThreadTypes, LocalTypes DEF OnlyMoves, Fire, Call, polling
    <3> QED
      BY Zenon, <2>3, <3>1, Disjoint, PollOther DEF Fire
  <2> QED
    BY Zenon, <1>2, <2>1, <2>2, <2>3 DEF Worker
<1>3. ASSUME NEW w \in Workers, Application(w) PROVE PollInv'
  <2>1. ASSUME NEW m \in Msgs, Send(w, m) PROVE PollInv'
    <3>1. OnlyMoves(w) /\ UNCHANGED <<dataCh, channel, claim, closed>>
      BY Zenon, <2>1, ThreadTypes, LocalTypes DEF OnlyMoves, Send, CallFlush, Call, polling
    <3> QED
      BY Zenon, <2>1, <3>1, Disjoint, PollOther DEF Send
  <2>2. CASE Close(w)
    <3>1. OnlyMoves(w) /\ UNCHANGED <<dataCh, channel, claim, closed>>
      BY Zenon, <2>2, ThreadTypes, LocalTypes DEF OnlyMoves, Close, CallFlush, Call, polling
    <3> QED
      BY Zenon, <2>2, <3>1, Disjoint, PollOther DEF Close
  <2>3. CASE ServerClose(w)
    <3>1. OnlyMoves(w) /\ UNCHANGED <<dataCh, channel, claim, closed>>
      BY Zenon, <2>3, ThreadTypes, LocalTypes DEF OnlyMoves, ServerClose, CloseNow,
         beginTeardown, Goto, polling
    <3> QED
      BY ZenonT(60), <2>3, <3>1, Disjoint, PollOther DEF ServerClose
  <2> QED
    BY Zenon, <1>3, <2>1, <2>2, <2>3 DEF Application
<1>4. CASE Client
  <2>1. ASSUME NEW w \in Workers, PostPong(w) PROVE PollInv'
    <3>1. OnlyMoves(w) /\ UNCHANGED <<dataCh, channel, claim, closed>>
      BY Zenon, <2>1, ThreadTypes, LocalTypes DEF OnlyMoves, PostPong, polling, locals
    <3> QED
      BY Zenon, <2>1, <3>1, Disjoint, PollOther DEF PostPong
  <2>2. ASSUME NEW w \in Workers, PostClose(w) PROVE PollInv'
    <3>1. OnlyMoves(w) /\ UNCHANGED <<dataCh, channel, claim, closed>>
      BY Zenon, <2>2, ThreadTypes, LocalTypes DEF OnlyMoves, PostClose, CloseNow, beginTeardown,
         Goto, polling
    <3> QED
      BY Zenon, <2>2, <3>1, Disjoint, PollOther DEF PostClose
  <2>3. ASSUME NEW p \in Polls, Poll(p) PROVE PollInv'
    <3>1. pc[p] = "idle" /\ OnlyMoves(p) /\ pc'[p] \in {"hold", "done"}
      BY Zenon, <2>3, ThreadTypes, LocalTypes DEF OnlyMoves, Poll, Goto, locals
    <3>2. PollLabels' /\ \A q \in Polls : Waiting(q)' <=> Waiting(q)
      BY Zenon, <2>3, <3>1, Disjoint DEF OnlyMoves, Poll, PollInv, PollLabels, Waiting, locals
    <3> QED
      BY Zenon, <2>3, <3>2, PollFrame DEF Poll, polling, locals
  <2>4. ASSUME NEW p \in Polls, Cancel(p) PROVE PollInv'
    <3>1. pc[p] = "select" /\ OnlyMoves(p) /\ UNCHANGED <<channel, claim, closed>>
      BY <2>4, ThreadTypes, LocalTypes DEF OnlyMoves, Cancel, Goto, CallClose, Call
    <3>2. \A q \in Polls : q # p => (Waiting(q)' <=> Waiting(q))
      BY Zenon, <3>1, Disjoint DEF OnlyMoves, Waiting
    <3>3. CASE dataCh = p
      <4>1. pc'[p] = "teardown" /\ ret'[p] = "done" /\ dataCh' = Nil
        BY <2>4, <3>3, Disjoint DEF DataOK, Cancel, CallClose, Call
      <4>2. PollLabels'
        BY Zenon, <3>1, <4>1, Disjoint DEF OnlyMoves, PollInv, PollLabels
      <4>3. ~Waiting(p)'
        BY ZenonT(60), <4>1 DEF Waiting
      <4>4. ExclusiveDelivery'
        BY SMTT(60), <3>1, <3>2, <3>3, <4>1, <4>3, Disjoint DEF PollInv, ExclusiveDelivery
      <4>5. NoOrphanedPoll'
        BY Zenon, <3>1, <3>2, <3>3, <4>1, <4>3, Disjoint DEF PollInv, NoOrphanedPoll
      <4> QED
        BY Zenon, <4>1, <4>2, <4>4, <4>5 DEF PollInv
    <3>4. CASE dataCh # p
      <4>1. pc'[p] = "drain" /\ ret' = ret /\ dataCh' = dataCh
        BY SMTT(30), <2>4, <3>4, Disjoint DEF DataOK, Cancel, Goto
      <4>2. PollLabels'
        BY Zenon, <3>1, <4>1, Disjoint DEF OnlyMoves, PollInv, PollLabels
      <4>3. Waiting(p) /\ Waiting(p)'
        BY Zenon, <3>1, <4>1 DEF Waiting
      <4> QED
        BY ZenonT(60), <3>1, <3>2, <4>1, <4>2, <4>3, PollFrame
    <3> QED
      BY Zenon, <3>3, <3>4
  <2>5. ASSUME NEW c \in Conns, StartUpgrade(c) PROVE PollInv'
    <3>1. OnlyMoves(c) /\ UNCHANGED <<dataCh, channel, claim>>
      BY Zenon, <2>5, ThreadTypes, LocalTypes DEF OnlyMoves, StartUpgrade, Goto, polling, locals
    <3>2. Polling \in closed' => Polling \in closed
      BY Zenon, <2>5, Disjoint DEF StartUpgrade
    <3> QED
      BY Zenon, <2>5, <3>1, <3>2, Disjoint, PollOther DEF StartUpgrade
  <2>6. ASSUME NEW c \in Conns, ReadProbe(c) PROVE PollInv'
    <3>1. OnlyMoves(c) /\ UNCHANGED <<dataCh, channel, claim, closed>>
      BY Zenon, <2>6, ThreadTypes, LocalTypes DEF OnlyMoves, ReadProbe, Goto, Call, polling
    <3> QED
      BY Zenon, <2>6, <3>1, Disjoint, PollOther DEF ReadProbe
  <2>7. ASSUME NEW c \in Conns, ReadUpgrade(c) PROVE PollInv'
    <3>1. OnlyMoves(c) /\ UNCHANGED <<dataCh, channel, claim, closed>>
      BY Zenon, <2>7, ThreadTypes, LocalTypes DEF OnlyMoves, ReadUpgrade, Call, ClearUpgrade,
         polling
    <3> QED
      BY Zenon, <2>7, <3>1, Disjoint, PollOther DEF ReadUpgrade
  <2>8. ASSUME NEW c \in Conns, ReadPong(c) PROVE PollInv'
    <3>1. OnlyMoves(c) /\ UNCHANGED <<dataCh, channel, claim, closed>>
      BY Zenon, <2>8, ThreadTypes, LocalTypes DEF OnlyMoves, ReadPong, polling, locals
    <3> QED
      BY Zenon, <2>8, <3>1, Disjoint, PollOther DEF ReadPong
  <2>9. ASSUME NEW c \in Conns, ReadClose(c) PROVE PollInv'
    <3>1. OnlyMoves(c) /\ UNCHANGED <<dataCh, channel, claim, closed>>
      BY Zenon, <2>9, ThreadTypes, LocalTypes DEF OnlyMoves, ReadClose, CloseNow, beginTeardown,
         Goto, polling
    <3> QED
      BY Zenon, <2>9, <3>1, Disjoint, PollOther DEF ReadClose
  <2>10. ASSUME NEW c \in Conns, ReadError(c) PROVE PollInv'
    <3>1. OnlyMoves(c) /\ UNCHANGED <<dataCh, channel, claim, closed>>
      BY Zenon, <2>10, ThreadTypes, LocalTypes DEF OnlyMoves, ReadError, Goto, Call,
         CloseNow, beginTeardown, polling, locals
    <3> QED
      BY Zenon, <2>10, <3>1, Disjoint, PollOther DEF ReadError
  <2> QED
    BY Zenon, <1>4, <2>1, <2>2, <2>3, <2>4, <2>5, <2>6, <2>7, <2>8, <2>9, <2>10 DEF Client
<1>5. ASSUME NEW p \in Polls, PollHandler(p) PROVE PollInv'
  <2>1. CASE Hold(p)
    <3>1. pc[p] = "hold" /\ OnlyMoves(p) /\ UNCHANGED <<channel, claim, closed>>
      BY ZenonT(60), <2>1, ThreadTypes, LocalTypes DEF OnlyMoves, Hold, Goto, CallClose,
         CallFlush, Call
    <3>2. \A q \in Polls : q # p => (Waiting(q)' <=> Waiting(q))
      BY Zenon, <3>1, Disjoint DEF OnlyMoves, Waiting
    <3>3. CASE dataCh' = dataCh
      <4>1. pc'[p] \in {"done", "teardown"} /\ ret'[p] \in {ret[p], "done"}
        BY <2>1, <3>3, ThreadTypes, LocalTypes DEF Hold, Goto, CallClose, Call, CallFlush
      <4>2. pc'[p] = "done" \/ ret'[p] = "done"
        BY Zenon, <2>1, <3>3, ThreadTypes, LocalTypes DEF Hold, Goto, CallClose, Call,
           CallFlush
      <4>3. PollLabels'
        BY Zenon, <3>1, <4>1, Disjoint DEF OnlyMoves, PollInv, PollLabels
      <4>4. ~Waiting(p) /\ ~Waiting(p)'
        BY Zenon, <3>1, <4>1, <4>2 DEF Waiting
      <4> QED
        BY Zenon, <3>1, <3>2, <3>3, <4>3, <4>4, PollFrame
    <3>4. CASE dataCh' # dataCh
      <4>1. /\ Polling \notin closed /\ dataCh = Nil /\ dataCh' = p
            /\ pc'[p] = "flush" /\ ret'[p] = "select"
        BY SMTT(30), <2>1, <3>4, Disjoint DEF Hold, CallFlush, Call, DataOK
      <4>2. PollLabels'
        BY Zenon, <3>1, <4>1, Disjoint DEF OnlyMoves, PollInv, PollLabels
      <4>3. ~Waiting(p) /\ Waiting(p)'
        BY Zenon, <3>1, <4>1 DEF Waiting
      <4>4. ExclusiveDelivery'
        <5>1. /\ \A t \in Threads : claim'[t] # p
              /\ channel'[p] = Nil
          BY Zenon, <3>1, <4>1, <4>3, Disjoint DEF PollInv, ExclusiveDelivery
        <5>2. \A q \in Polls : q # p => dataCh # q /\ dataCh' # q
          BY Zenon, <4>1, Disjoint
        <5>3. dataCh' = p /\ Waiting(p)' /\ UNCHANGED <<channel, claim>>
          BY Zenon, <3>1, <4>1, <4>3
        <5> QED
          BY SMTT(60), <3>2, <5>1, <5>2, <5>3 DEF PollInv, ExclusiveDelivery
      <4>5. NoOrphanedPoll'
        BY ZenonT(60), <3>1, <3>2, <4>1, <4>3, Disjoint DEF PollInv, NoOrphanedPoll
      <4> QED
        BY Zenon, <3>1, <4>1, <4>2, <4>4, <4>5 DEF PollInv
    <3> QED
      BY Zenon, <3>3, <3>4
  <2>2. CASE Respond(p)
    <3>1. pc[p] = "select" /\ OnlyMoves(p) /\ UNCHANGED <<dataCh, claim, closed>>
      BY Zenon, <2>2, ThreadTypes, LocalTypes DEF OnlyMoves, Respond, Goto, CallClose, Call
    <3>2. /\ pc'[p] \in {"done", "teardown"} /\ ret'[p] \in {ret[p], "done"}
          /\ pc'[p] = "done" \/ ret'[p] = "done"
      BY Zenon, <2>2, ThreadTypes, LocalTypes DEF Respond, Goto, CallClose, Call
    <3>3. PollLabels'
      BY Zenon, <3>1, <3>2, Disjoint DEF OnlyMoves, PollInv, PollLabels
    <3>4. \A q \in Polls : Waiting(q)' <=> Waiting(q) /\ q # p
      BY Zenon, <3>1, <3>2, Disjoint DEF OnlyMoves, Waiting
    <3> QED
      BY Zenon, <2>2, <3>1, <3>3, <3>4, PollReceive DEF Respond
  <2>3. CASE Drain(p)
    <3>1. pc[p] = "drain" /\ OnlyMoves(p) /\ UNCHANGED <<dataCh, claim, closed>>
      BY Zenon, <2>3, ThreadTypes, LocalTypes DEF OnlyMoves, Drain, CallClose, Call
    <3>2. /\ pc'[p] \in {"done", "teardown"} /\ ret'[p] \in {ret[p], "done"}
          /\ pc'[p] = "done" \/ ret'[p] = "done"
      BY ZenonT(60), <2>3, ThreadTypes, LocalTypes DEF Drain, CallClose, Call
    <3>3. PollLabels'
      BY Zenon, <3>1, <3>2, Disjoint DEF OnlyMoves, PollInv, PollLabels
    <3>4. \A q \in Polls : Waiting(q)' <=> Waiting(q) /\ q # p
      BY ZenonT(60), <3>1, <3>2, Disjoint DEF OnlyMoves, Waiting
    <3> QED
      BY ZenonT(60), <2>3, <3>1, <3>3, <3>4, PollReceive DEF Drain
  <2> QED
    BY Zenon, <1>5, <2>1, <2>2, <2>3 DEF PollHandler
<1>6. ASSUME NEW t \in Threads, Flush(t) PROVE PollInv'
  <2>1. CASE FlushClone(t)
    <3>1. Moves(t)
      BY Zenon, <2>1 DEF Moves, FlushClone, Routine
    <3> QED
      BY Zenon, <2>1, <3>1, PollRoutine DEF FlushClone, Routine, polling, locals
  <2>2. CASE SendPoll(t)
    <3>1. CASE Polling \in closed \/ dataCh = Nil
      <4>1. Moves(t) /\ UNCHANGED <<dataCh, channel, claim, closed>> /\ pc[t] \in Routine
        BY Zenon, <2>2, <3>1 DEF Moves, SendPoll, NotSent, Routine
      <4> QED
        BY Zenon, <4>1, PollRoutine
    <3>2. CASE ~(Polling \in closed \/ dataCh = Nil)
      <4>1. /\ pc[t] = "send" /\ claim[t] = Nil /\ dataCh # Nil /\ OnlyMoves(t)
            /\ claim' = [claim EXCEPT ![t] = dataCh] /\ dataCh' = Nil
            /\ pc'[t] = "deliver" /\ UNCHANGED <<ret, channel>>
        BY Zenon, <2>2, <3>2, ThreadTypes, LocalTypes DEF SendPoll, Goto, OnlyMoves, PollInv,
           PollLabels
      <4>2. PollLabels'
        BY <4>1, ThreadTypes, LocalTypes DEF OnlyMoves, PollInv, PollLabels
      <4>3. \A p \in Polls : Waiting(p)' <=> Waiting(p)
        BY Zenon, <4>1, Disjoint DEF OnlyMoves, Waiting
      <4> QED
        BY ZenonT(60), <4>1, <4>2, <4>3, PollTake
    <3> QED
      BY Zenon, <3>1, <3>2
  <2>3. CASE Deliver(t)
    <3>1. Moves(t) /\ batch \in Seqs
      BY Zenon, <2>3, SeqTypes DEF Moves, Deliver, Routine, DataOK
    <3> QED
      BY Zenon, <2>3, <3>1, PollDeliver DEF Deliver
  <2>4. CASE SendConn(t)
    <3>1. Moves(t)
      BY Zenon, <2>4 DEF Moves, SendConn, Routine, NotSent
    <3> QED
      BY Zenon, <2>4, <3>1, PollRoutine DEF SendConn, Routine, polling, locals
  <2>5. CASE WriteConn(t)
    <3>1. Moves(t)
      BY Zenon, <2>5 DEF Moves, WriteConn, Routine, locals
    <3> QED
      BY Zenon, <2>5, <3>1, PollRoutine DEF WriteConn, Routine, polling, locals
  <2>6. ASSUME NEW n \in 0..Len(batch), WriteFail(t, n) PROVE PollInv'
    <3>1. Moves(t)
      BY Zenon, <2>6 DEF Moves, WriteFail, Routine, DataOK, Goto, Call, CallClose
    <3> QED
      BY Zenon, <2>6, <3>1, PollRoutine DEF WriteFail, Routine, polling, locals
  <2>7. CASE DropSent(t)
    <3>1. Moves(t)
      BY Zenon, <2>7 DEF Moves, DropSent, Routine, DataOK, Goto, Call, CallClose
    <3> QED
      BY ZenonT(60), <2>7, <3>1, PollRoutine DEF DropSent, Routine, polling, locals
  <2> QED
    BY Zenon, <1>6, <2>1, <2>2, <2>3, <2>4, <2>5, <2>6, <2>7 DEF Flush
<1>7. ASSUME NEW t \in Threads, CloseWithReason(t) PROVE PollInv'
  <2>1. CASE Teardown(t)
    <3>1. Moves(t)
      BY Zenon, <2>1 DEF Moves, Teardown, Routine, beginTeardown
    <3> QED
      BY Zenon, <2>1, <3>1, PollRoutine DEF Teardown, Routine, polling, locals
  <2>2. CASE CloseStop(t)
    <3>1. PollLabels' /\ \A p \in Polls : Waiting(p)' <=> Waiting(p)
      BY Zenon, <2>2 DEF CloseStop, PollInv, PollLabels, Waiting
    <3> QED
      BY Zenon, <2>2, <3>1, PollFrame DEF CloseStop, polling
  <2>3. CASE CloseOld(t)
    <3>1. CASE ~TakesPoll(t)
      <4>1. PollLabels' /\ \A p \in Polls : Waiting(p)' <=> Waiting(p)
        BY Zenon, <2>3, <3>1 DEF CloseOld, PollInv, PollLabels, Waiting
      <4>2. CASE old[t] # Polling
        <5>1. Polling \in closed' => Polling \in closed
          BY ZenonT(60), <2>3, <4>2 DEF CloseOld
        <5> QED
          BY Zenon, <2>3, <3>1, <4>1, <5>1, PollFrame DEF CloseOld
      <4>3. CASE old[t] = Polling
        <5>1. dataCh = Nil /\ UNCHANGED <<dataCh, channel, claim>>
          BY Zenon, <2>3, <3>1, <4>3 DEF CloseOld, TakesPoll, PollInv
        <5>2. ExclusiveDelivery'
          BY Zenon, <4>1, <5>1 DEF PollInv, ExclusiveDelivery
        <5>3. NoOrphanedPoll'
          BY Zenon, <4>1, <5>1, Disjoint DEF PollInv, NoOrphanedPoll
        <5> QED
          BY Zenon, <4>1, <5>1, <5>2, <5>3 DEF PollInv
      <4> QED
        BY Zenon, <4>2, <4>3
    <3>2. CASE TakesPoll(t)
      <4>1. /\ pc[t] = "release" /\ claim[t] = Nil /\ dataCh # Nil /\ OnlyMoves(t)
            /\ claim' = [claim EXCEPT ![t] = dataCh] /\ dataCh' = Nil
            /\ pc'[t] = "closeDeliver" /\ UNCHANGED <<ret, channel>>
        BY Zenon, <2>3, <3>2, ThreadTypes, LocalTypes DEF CloseOld, TakesPoll, Goto,
           OnlyMoves, PollInv, PollLabels
      <4>2. PollLabels'
        BY <4>1, ThreadTypes, LocalTypes DEF OnlyMoves, PollInv, PollLabels
      <4>3. \A p \in Polls : Waiting(p)' <=> Waiting(p)
        BY Zenon, <4>1, Disjoint DEF OnlyMoves, Waiting
      <4> QED
        BY Zenon, <4>1, <4>2, <4>3, PollTake
    <3> QED
      BY Zenon, <3>1, <3>2
  <2>4. CASE CloseDeliver(t)
    <3>1. Moves(t) /\ <<"close">> \in Seqs
      BY Zenon, <2>4, SeqTypes DEF Moves, CloseDeliver, Routine
    <3> QED
      BY Zenon, <2>4, <3>1, PollDeliver DEF CloseDeliver
  <2>5. CASE CloseUp(t)
    <3>1. Polling \in closed' => Polling \in closed
      BY ZenonT(60), <2>5, Disjoint DEF CloseUp, DataOK
    <3>2. PollLabels' /\ \A p \in Polls : Waiting(p)' <=> Waiting(p)
      BY Zenon, <2>5 DEF CloseUp, PollInv, PollLabels, Waiting
    <3> QED
      BY Zenon, <2>5, <3>1, <3>2, PollFrame DEF CloseUp, polling
  <2>6. CASE Released(t)
    <3>1. Moves(t)
      BY Zenon, <2>6 DEF Moves, Released, Routine
    <3> QED
      BY Zenon, <2>6, <3>1, PollRoutine DEF Released, Routine, polling, locals
  <2>7. CASE Notify(t)
    <3>1. Moves(t)
      BY Zenon, <2>7 DEF Moves, Notify, Routine
    <3> QED
      BY Zenon, <2>7, <3>1, PollRoutine DEF Notify, Routine, polling, locals
  <2> QED
    BY Zenon, <1>7, <2>1, <2>2, <2>3, <2>4, <2>5, <2>6, <2>7 DEF CloseWithReason
<1>8. ASSUME NEW n \in Noops, Noop(n) PROVE PollInv'
  <2>1. CASE NoopTick(n)
    <3>1. OnlyMoves(n) /\ UNCHANGED <<dataCh, channel, claim, closed>>
      BY Zenon, <2>1, ThreadTypes, LocalTypes DEF OnlyMoves, NoopTick, Goto, polling, locals
    <3> QED
      BY Zenon, <2>1, <3>1, Disjoint, PollOther DEF NoopTick
  <2>2. CASE NoopClaim(n)
    <3>0. n \in Threads /\ n \notin Polls
      BY Zenon, Disjoint
    <3>1. CASE dataCh = Nil
      <4>1. OnlyMoves(n) /\ UNCHANGED <<dataCh, channel, closed>> /\ pc[n] = "noop"
        BY Zenon, <2>2, <3>0, <3>1, LocalTypes DEF OnlyMoves, NoopClaim, Goto
      <4>2. claim[n] = Nil
        BY Zenon, <3>0, <4>1 DEF PollInv, PollLabels
      <4>3. UNCHANGED claim
        BY ZenonT(60), <2>2, <3>0, <3>1, <4>2 DEF NoopClaim, DataOK
      <4> QED
        BY Zenon, <3>0, <4>1, <4>3, PollOther
    <3>2. CASE dataCh # Nil
      <4>1. /\ pc[n] = "noop" /\ claim[n] = Nil /\ dataCh # Nil /\ OnlyMoves(n)
            /\ claim' = [claim EXCEPT ![n] = dataCh] /\ dataCh' = Nil
            /\ pc'[n] = "noopDeliver" /\ UNCHANGED <<ret, channel>>
        BY ZenonT(60), <2>2, <3>0, <3>2, ThreadTypes, LocalTypes DEF NoopClaim, Goto, OnlyMoves,
           PollInv, PollLabels
      <4>2. PollLabels'
        BY <3>0, <4>1, ThreadTypes, LocalTypes DEF OnlyMoves, PollInv, PollLabels
      <4>3. \A p \in Polls : Waiting(p)' <=> Waiting(p)
        BY Zenon, <3>0, <4>1, Disjoint DEF OnlyMoves, Waiting
      <4> QED
        BY Zenon, <3>0, <4>1, <4>2, <4>3, PollTake
    <3> QED
      BY Zenon, <3>1, <3>2
  <2>3. CASE NoopDeliver(n)
    <3>1. n \in Threads /\ n \notin Polls /\ <<"noop">> \in Seqs
      BY ZenonT(60), Disjoint, SeqTypes
    <3>2. OnlyMoves(n) /\ claim' = [claim EXCEPT ![n] = Nil]
      BY Zenon, <2>3, <3>1 DEF OnlyMoves, NoopDeliver, Goto, Put, DataOK
    <3>3. \A t \in Threads : claim'[t] # Nil => claim[t] # Nil /\ t # n
      BY Zenon, <3>1, <3>2 DEF DataOK
    <3>5. PollLabels'
      BY Zenon, <3>1, <3>2, <3>3, Disjoint DEF OnlyMoves, PollInv, PollLabels
    <3>4. \A p \in Polls : Waiting(p)' <=> Waiting(p)
      BY Zenon, <3>1, <3>2, Disjoint DEF OnlyMoves, Waiting
    <3> QED
      BY Zenon, <2>3, <3>1, <3>4, <3>5, PollPut DEF NoopDeliver
  <2>4. CASE NoopStop(n)
    <3>1. OnlyMoves(n) /\ UNCHANGED <<dataCh, channel, claim, closed>>
      BY Zenon, <2>4, ThreadTypes, LocalTypes DEF OnlyMoves, NoopStop, Goto, polling, locals
    <3> QED
      BY Zenon, <2>4, <3>1, Disjoint, PollOther DEF NoopStop
  <2> QED
    BY Zenon, <1>8, <2>1, <2>2, <2>3, <2>4 DEF Noop
<1>9. ASSUME NEW c \in Conns, onProbe(c) PROVE PollInv'
  <2>1. /\ \A t \in Threads : pc[t] \notin {"idle", "onProbe"} => pc'[t] = pc[t]
        /\ \A p \in Polls : pc'[p] = pc[p]
    BY SMTT(30), <1>9, Disjoint DEF DataOK, onProbe, Goto
  <2>2. PollLabels' /\ \A p \in Polls : Waiting(p)' <=> Waiting(p)
    BY Zenon, <1>9, <2>1 DEF onProbe, PollInv, PollLabels, Waiting, locals
  <2> QED
    BY Zenon, <1>9, <2>2, PollFrame DEF onProbe, polling, locals
<1>10. ASSUME NEW t \in Threads, Abort(t) PROVE PollInv'
  <2>1. OnlyMoves(t) /\ UNCHANGED <<dataCh, channel, claim, closed>>
    BY Zenon, <1>10, ThreadTypes, LocalTypes DEF OnlyMoves, Abort, Goto, Return, Call,
       ClearUpgrade, polling
  <2>2. pc[t] = "abort" /\ t \notin Polls
    BY Zenon, <1>10, Zenon DEF Abort, PollInv, PollLabels
  <2> QED
    BY Zenon, <1>10, <2>1, <2>2, PollOther
<1>11. CASE UNCHANGED vars
  <2>1. PollLabels' /\ \A p \in Polls : Waiting(p)' <=> Waiting(p)
    BY Zenon, <1>11 DEF vars, locals, PollInv, PollLabels, Waiting
  <2> QED
    BY Zenon, <1>11, <2>1, PollFrame DEF vars, polling, locals
<1> QED
  BY Zenon, <1>11, <1>1, <1>2, <1>3, <1>4, <1>5, <1>6, <1>7, <1>8, <1>9, <1>10 DEF Next,
     Terminated
=============================================================================
