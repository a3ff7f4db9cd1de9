--------------------------- MODULE ServerSession ---------------------------
(***************************************************************************)
(* One Engine.IO session on the server: the ServerSocket, its long-polling *)
(* transport, the websocket or webtransport connections that start it or   *)
(* probe an upgrade of it, its four timers, and every goroutine that runs  *)
(* its code.  A step is one critical section of the Go code (or one        *)
(* channel operation, or one network write), so every interleaving that    *)
(* the mutexes s.mu, t.mu and flushMu leave open is a behaviour.           *)
(*                                                                         *)
(* Goroutines are the elements of Threads.  A worker is a goroutine of the *)
(* application, of a timer, or of a POST request; a poll is the handler of *)
(* one long-poll GET and names that request's channel; a connection is the *)
(* read loop of one websocket or webtransport connection and names its     *)
(* transport; a noop thread is the goroutine that onProbe starts and names *)
(* the stop channel made for it.                                           *)
(***************************************************************************)
EXTENDS Naturals, Sequences

CONSTANTS
  Workers,          \* goroutines of the application, timers and POST handlers
  Polls,            \* long-poll GET requests, one channel each
  Conns,            \* websocket and webtransport connections
  Noops,            \* probe-noop goroutines, one stop channel each
  Handshaker,       \* the goroutine of the handshake request
  Msgs,             \* application messages, each sent at most once
  MaxPongs,         \* how many pongs the client sends before it falls silent
  Polling,          \* the polling transport of the session
  StartTransports,  \* the transports the handshake may have come in on
  Nil

Threads == Workers \cup Polls \cup Conns \cup Noops \cup {Handshaker}
Transports == {Polling} \cup Conns

Packets == Msgs \cup {"ping", "close", "noop"}
Timers == {"ping", "pong", "upgrade", "close"}

\* Why a goroutine that did something else first calls closeWithReason.  "drained"
\* is the "forced close" of a flush that has handed over the close packet, which
\* the code labels like the one of the close timer.
Reasons == {"drained", "forced_close", "ping_timeout", "transport_close", "transport_error"}

\* Which routine has taken resources out of the session to close them.
Jobs == {"teardown", "complete", "abort"}

ASSUME SessionAssumption ==
  /\ MaxPongs \in Nat
  /\ StartTransports \subseteq Transports
  /\ Nil \notin Threads \cup Transports
  /\ Nil \notin Seq(Packets) \cup Reasons \cup Jobs
  /\ Polling \notin Threads
  /\ Handshaker \notin Workers \cup Polls \cup Conns \cup Noops
  /\ Workers \cap (Polls \cup Conns \cup Noops) = {}
  /\ Polls \cap (Conns \cup Noops) = {}
  /\ Conns \cap Noops = {}
  /\ {"ping", "close", "noop"} \cap Msgs = {}

VARIABLES
  state,             \* s.state
  transport,         \* s.transport
  upgradeTransport,  \* s.upgradeTransport
  upgrading,         \* s.upgrading
  writeBuffer,       \* s.writeBuffer
  probeNoopStop,     \* s.probeNoopStop
  onCloseHandler,    \* whether the application has installed s.onCloseHandler
  registered,        \* whether the session is in the server's session store
  timer,             \* s.pingTimer, s.pongTimer, s.upgradeTimer, s.closeTimer
  upgradeFor,        \* the transport captured by the upgrade timer's callback
  closed,            \* the transports whose t.closed is set
  dataCh,            \* the polling transport's t.dataCh
  channel,           \* what each poll's buffered channel holds
  probing,           \* the connections whose t.probing is set
  flushMu,           \* the goroutine inside flush
  batch,             \* flush's local "packets"
  target,            \* flush's local "transport"
  pc,                \* where each goroutine is
  ret,               \* where it goes when the routine it runs returns
  why,               \* the reason it passes to closeWithReason
  stop,              \* its local stop channel, still to be closed
  old,               \* its local transport, still to be closed
  up,                \* its local upgrade transport, still to be closed
  job,               \* which routine snapshotted stop, old and up
  claim,             \* the poll channel it has taken from dataCh
  notify             \* its local copy of the close handler

\* Variables of the environment and of the properties only.
VARIABLES
  pongs,             \* pongs the client has sent
  openSent,          \* whether the open packet has been written
  accepted,          \* every packet ever appended to writeBuffer
  handed,            \* every packet ever handed to a transport, in order
  gap,               \* whether a handed-over packet was not written out
  stopCloses,        \* how often each stop channel has been closed
  notified           \* how often the close handler has run

session == <<state, transport, upgradeTransport, upgrading, probeNoopStop>>
timers  == <<timer, upgradeFor>>
polling == <<dataCh, channel>>
flight  == <<flushMu, batch, target>>
locals  == <<ret, why, stop, old, up, job, claim, notify>>
env     == <<pongs, openSent>>
outHist == <<accepted, handed, gap>>
endHist == <<stopCloses, notified>>

vars == <<session, writeBuffer, onCloseHandler, registered, timers, closed,
          polling, probing, flight, pc, locals, env, outHist, endHist>>
-----------------------------------------------------------------------------
(* Helpers shared by the handlers.                                          *)

Goto(t, label) == pc' = [pc EXCEPT ![t] = label]

\* Calling a routine: the caller records where it continues.
Call(t, label, next) ==
  /\ pc' = [pc EXCEPT ![t] = label]
  /\ ret' = [ret EXCEPT ![t] = next]

\* closeWithReason(reason), entered at Teardown below.
CallClose(t, reason, next) ==
  /\ Call(t, "teardown", next)
  /\ why' = [why EXCEPT ![t] = reason]

\* Faulty variant: the caller queues its packets and does not flush.
CallFlush_Skipped(t, next) == Call(t, next, "idle")

\* A call of flush, whose body is FlushClone and what follows it.
CallFlush(t, next) == Call(t, "flush", next)

\* Returning also runs flush's deferred flushMu.Unlock, when t is in flush.
Return(t) ==
  /\ Call(t, ret[t], "idle")
  /\ flushMu' = IF flushMu = t THEN Nil ELSE flushMu

Arm(k) == timer' = [timer EXCEPT ![k] = "armed"]

Enqueue(packet) ==
  /\ writeBuffer' = Append(writeBuffer, packet)
  /\ accepted' = Append(accepted, packet)

stopTimersLocked == timer' = [k \in Timers |-> "nil"]

\* Faulty variant: a second closeWithReason tears the session down again.
CanTeardown_Again == TRUE

CanTeardown == state # "closed"

\* beginTeardown, when it succeeds: the session is closed and t owns what it held.
beginTeardown(t) ==
  /\ CanTeardown
  /\ state' = "closed"
  /\ stopTimersLocked
  /\ stop' = [stop EXCEPT ![t] = probeNoopStop]
  /\ old' = [old EXCEPT ![t] = transport]
  /\ up' = [up EXCEPT ![t] = upgradeTransport]
  /\ notify' = [notify EXCEPT ![t] = onCloseHandler]
  /\ job' = [job EXCEPT ![t] = "teardown"]
  /\ transport' = Nil /\ upgradeTransport' = Nil
  /\ upgrading' = FALSE /\ probeNoopStop' = Nil
  /\ writeBuffer' = <<>>
  /\ Goto(t, "release")

\* A caller of closeWithReason that comes straight from an event: the event may
\* come at any time, so it is one step with beginTeardown, and a call that finds
\* the session closed changes nothing.
CloseNow(t, next) ==
  /\ beginTeardown(t)
  /\ ret' = [ret EXCEPT ![t] = next]
  /\ UNCHANGED <<onCloseHandler, registered, upgradeFor, closed, polling, probing, flight,
                 why, claim, env, outHist, endHist>>
-----------------------------------------------------------------------------
(* The session right after sessions.put in one of the three handshakes.     *)

Init ==
  /\ state = "opening"
  /\ transport \in StartTransports
  /\ upgradeTransport = Nil
  /\ upgrading = FALSE
  /\ writeBuffer = <<>>
  /\ probeNoopStop = Nil
  /\ onCloseHandler = FALSE
  /\ registered = TRUE
  /\ timer = [k \in Timers |-> "nil"]
  /\ upgradeFor = Nil
  /\ closed = {}
  /\ dataCh = Nil
  /\ channel = [p \in Polls |-> Nil]
  /\ probing = Conns \ {transport}
  /\ flushMu = Nil /\ batch = <<>> /\ target = Nil
  /\ pc = [t \in Threads |-> CASE t = Handshaker -> "writeOpen"
                               [] t = transport  -> "held"
                               [] OTHER          -> "idle"]
  /\ ret = [t \in Threads |-> "idle"]
  /\ why = [t \in Threads |-> Nil]
  /\ stop = [t \in Threads |-> Nil]
  /\ old = [t \in Threads |-> Nil]
  /\ up = [t \in Threads |-> IF t = Handshaker /\ transport \in Conns
                               THEN transport ELSE Nil]
  /\ job = [t \in Threads |-> Nil]
  /\ claim = [t \in Threads |-> Nil]
  /\ notify = [t \in Threads |-> FALSE]
  /\ pongs = 0 /\ openSent = FALSE
  /\ accepted = <<>> /\ handed = <<>> /\ gap = FALSE
  /\ stopCloses = [n \in Noops |-> 0]
  /\ notified = 0
-----------------------------------------------------------------------------
(* The handshake: write the open packet, open(), run the connection handler *)
(* and, when the session started on a connection, start its read loop.      *)
(* up[Handshaker] is the handshake's own connection, Nil for polling.       *)

\* A connection closed by now makes send report (false, nil): no error, and no packet.
HandshakeWrite ==
  /\ pc[Handshaker] = "writeOpen"
  /\ Goto(Handshaker, "open")
  /\ openSent' = (up[Handshaker] \notin closed)
  /\ UNCHANGED <<session, writeBuffer, onCloseHandler, registered, timers, closed,
                 polling, probing, flight, locals, pongs, outHist, endHist>>

HandshakeFail ==
  LET conn == up[Handshaker] IN
  /\ pc[Handshaker] = "writeOpen"
  /\ registered' = FALSE
  /\ closed' = closed \cup ({conn} \ {Nil})
  /\ pc' = [t \in Threads |-> IF t \in {Handshaker, conn} THEN "done" ELSE pc[t]]
  /\ UNCHANGED <<session, writeBuffer, onCloseHandler, timers, polling, probing,
                 flight, locals, env, outHist, endHist>>

\* open()
HandshakeOpen ==
  /\ pc[Handshaker] = "open"
  /\ Goto(Handshaker, "handler")
  /\ IF state = "opening"
       THEN state' = "open" /\ Arm("ping")
       ELSE UNCHANGED <<state, timer>>
  /\ UNCHANGED <<transport, upgradeTransport, upgrading, probeNoopStop, writeBuffer,
                 onCloseHandler, registered, upgradeFor, closed, polling, probing,
                 flight, locals, env, outHist, endHist>>

HandshakeHandler ==
  /\ pc[Handshaker] = "handler"
  /\ onCloseHandler' = TRUE
  /\ pc' = [t \in Threads |-> CASE t = Handshaker     -> "done"
                                [] t = up[Handshaker] -> "read"
                                [] OTHER              -> pc[t]]
  /\ UNCHANGED <<session, writeBuffer, registered, timers, closed, polling, probing,
                 flight, locals, env, outHist, endHist>>
-----------------------------------------------------------------------------
(* The application, Server.Close, the timers and the POST handlers.         *)

\* Faulty variant: Send still accepts messages while the session is closing.
CanSend_WhileClosing == state # "closed"

\* Send's test, and beginClose's.
CanSend == state \notin {"closing", "closed"}
CanClose == state \in {"opening", "open"}

Send(w, m) ==
  /\ pc[w] = "idle"
  /\ CanSend
  /\ \A i \in DOMAIN accepted : accepted[i] # m
  /\ Enqueue(m)
  /\ CallFlush(w, "idle")
  /\ UNCHANGED <<session, onCloseHandler, registered, timers, closed, polling, probing,
                 flight, why, stop, old, up, job, claim, notify, env, handed, gap, endHist>>

\* Close up to its flush: beginClose.
Close(w) ==
  /\ pc[w] = "idle"
  /\ CanClose
  /\ state' = "closing"
  /\ stopTimersLocked
  /\ Enqueue("close")
  /\ CallFlush(w, "arm")
  /\ UNCHANGED <<transport, upgradeTransport, upgrading, probeNoopStop, onCloseHandler,
                 registered, upgradeFor, closed, polling, probing, flight, why, stop,
                 old, up, job, claim, notify, env, handed, gap, endHist>>

\* Faulty variant: Close does not arm the fallback timer.
ArmClose_Never(w) ==
  /\ pc[w] = "arm"
  /\ Goto(w, "idle")
  /\ UNCHANGED <<session, writeBuffer, onCloseHandler, registered, timers, closed,
                 polling, probing, flight, locals, env, outHist, endHist>>

\* The rest of Close: the fallback timer of a close still waiting for a poll.
ArmClose(w) ==
  /\ pc[w] = "arm"
  /\ Goto(w, "idle")
  /\ IF state = "closing" /\ timer["close"] = "nil"
       THEN Arm("close")
       ELSE UNCHANGED timer
  /\ UNCHANGED <<session, writeBuffer, onCloseHandler, registered, upgradeFor, closed,
                 polling, probing, flight, locals, env, outHist, endHist>>

\* Server.Close reaches this session through a snapshot of the store, which may be
\* older than the session's removal from it.
ServerClose(w) ==
  /\ pc[w] = "idle"
  /\ CloseNow(w, "idle")

\* A timer expires: its callback starts in a goroutine of its own, which a later
\* Stop no longer reaches.
Fire(w, k) ==
  /\ pc[w] = "idle"
  /\ timer[k] = "armed"
  /\ timer' = [timer EXCEPT ![k] = "fired"]
  /\ Call(w, CASE k = "ping"    -> "sendPing"
               [] k = "upgrade" -> "abort"
               [] OTHER         -> "teardown", "idle")
  /\ why' = [why EXCEPT ![w] = CASE k = "pong"  -> "ping_timeout"
                                 [] k = "close" -> "forced_close"
                                 [] OTHER       -> Nil]
  /\ up' = [up EXCEPT ![w] = IF k = "upgrade" THEN upgradeFor ELSE Nil]
  /\ UNCHANGED <<session, writeBuffer, onCloseHandler, registered, upgradeFor, closed,
                 polling, probing, flight, stop, old, job, claim, notify, env,
                 outHist, endHist>>

\* Faulty variant: a ping stops every timer, the upgrade timer too.
sendPing_StopsAll(w) ==
  /\ pc[w] = "sendPing"
  /\ IF state = "open"
       THEN /\ Enqueue("ping")
            /\ timer' = [k \in Timers |-> IF k = "pong" THEN "armed" ELSE "nil"]
            /\ Goto(w, "flush")
       ELSE Goto(w, "idle") /\ UNCHANGED <<writeBuffer, accepted, timer>>
  /\ UNCHANGED <<session, onCloseHandler, registered, upgradeFor, closed, polling,
                 probing, flight, locals, env, handed, gap, endHist>>

\* Faulty variant: the ping is sent without a deadline for its pong.
sendPing_NoDeadline(w) ==
  /\ pc[w] = "sendPing"
  /\ IF state = "open"
       THEN Enqueue("ping") /\ Goto(w, "flush")
       ELSE Goto(w, "idle") /\ UNCHANGED <<writeBuffer, accepted>>
  /\ UNCHANGED <<session, onCloseHandler, registered, timers, closed, polling,
                 probing, flight, locals, env, handed, gap, endHist>>

sendPing(w) ==
  /\ pc[w] = "sendPing"
  /\ IF state = "open"
       THEN /\ Enqueue("ping")
            /\ Arm("pong")
            /\ Goto(w, "flush")
       ELSE /\ Goto(w, "idle")
            /\ UNCHANGED <<writeBuffer, accepted, timer>>
  /\ UNCHANGED <<session, onCloseHandler, registered, upgradeFor, closed, polling,
                 probing, flight, locals, env, handed, gap, endHist>>

onPong ==
  /\ pongs < MaxPongs
  /\ pongs' = pongs + 1
  /\ timer' = IF state = "open"
                THEN [timer EXCEPT !["pong"] = "nil", !["ping"] = "armed"]
                ELSE timer

\* A POST carrying a pong.  A message goes to the application's handler and
\* changes nothing here; every other packet is ignored.
PostPong(w) ==
  /\ pc[w] = "idle"
  /\ registered /\ openSent
  /\ onPong
  /\ UNCHANGED <<session, writeBuffer, onCloseHandler, registered, upgradeFor, closed,
                 polling, probing, flight, pc, locals, openSent, outHist, endHist>>

\* A POST carrying a close packet, an octet-stream body or a malformed payload.
PostClose(w) ==
  /\ pc[w] = "idle"
  /\ registered /\ openSent
  /\ CloseNow(w, "idle")
-----------------------------------------------------------------------------
(* The long-poll GET: handlePolling's lookup and handlePoll.                *)

Poll(p) ==
  /\ pc[p] = "idle"
  /\ openSent
  /\ Goto(p, IF registered /\ transport = Polling THEN "hold" ELSE "done")
  /\ UNCHANGED <<session, writeBuffer, onCloseHandler, registered, timers, closed,
                 polling, probing, flight, locals, env, outHist, endHist>>

\* hold, and what handlePoll does with each of its results.
Hold(p) ==
  /\ pc[p] = "hold"
  /\ \/ /\ Polling \in closed
        /\ Goto(p, "done")
        /\ UNCHANGED <<dataCh, ret, why>>
     \/ /\ Polling \notin closed /\ dataCh # Nil
        /\ CallClose(p, "transport_error", "done")
        /\ UNCHANGED dataCh
     \/ /\ Polling \notin closed /\ dataCh = Nil
        /\ dataCh' = p
        /\ CallFlush(p, "select")
        /\ UNCHANGED why
  /\ UNCHANGED <<session, writeBuffer, onCloseHandler, registered, timers, closed,
                 channel, probing, flight, stop, old, up, job, claim, notify, env,
                 outHist, endHist>>

\* What flush handed over, as opposed to the noop and close of the transport itself.
FromBuffer(payload) == payload \notin {<<"noop">>, <<"close">>}

\* The payload arrives and the response is written, or the write fails.
Respond(p) ==
  /\ pc[p] = "select"
  /\ channel[p] # Nil
  /\ channel' = [channel EXCEPT ![p] = Nil]
  /\ \/ /\ Goto(p, "done")
        /\ UNCHANGED <<ret, why, gap>>
     \/ /\ CallClose(p, "transport_error", "done")
        /\ gap' = (gap \/ FromBuffer(channel[p]))
  /\ UNCHANGED <<session, writeBuffer, onCloseHandler, registered, timers, closed,
                 dataCh, probing, flight, stop, old, up, job, claim, notify, env,
                 accepted, handed, endHist>>

\* The client disconnects: release, which fails once the channel was claimed.
Cancel(p) ==
  /\ pc[p] = "select"
  /\ IF dataCh = p
       THEN /\ dataCh' = Nil
            /\ CallClose(p, "transport_close", "done")
       ELSE /\ Goto(p, "drain")
            /\ UNCHANGED <<dataCh, ret, why>>
  /\ UNCHANGED <<session, writeBuffer, onCloseHandler, registered, timers, closed,
                 channel, probing, flight, stop, old, up, job, claim, notify, env,
                 outHist, endHist>>

\* Faulty variant: the drained payload is dropped and the session goes on.
Drain_NoClose(p) ==
  /\ pc[p] = "drain"
  /\ channel[p] # Nil
  /\ channel' = [channel EXCEPT ![p] = Nil]
  /\ gap' = (gap \/ FromBuffer(channel[p]))
  /\ Goto(p, "done")
  /\ UNCHANGED <<session, writeBuffer, onCloseHandler, registered, timers, closed,
                 dataCh, probing, flight, locals, env, accepted, handed, endHist>>

\* putPollBuffer(<-channel)
Drain(p) ==
  /\ pc[p] = "drain"
  /\ channel[p] # Nil
  /\ channel' = [channel EXCEPT ![p] = Nil]
  /\ gap' = (gap \/ FromBuffer(channel[p]))
  /\ CallClose(p, "transport_close", "done")
  /\ UNCHANGED <<session, writeBuffer, onCloseHandler, registered, timers, closed,
                 dataCh, probing, flight, stop, old, up, job, claim, notify, env,
                 accepted, handed, endHist>>
-----------------------------------------------------------------------------
(* flush.                                                                   *)

\* Faulty variant: flush without flushMu.
FlushFree_NoMutex(t) == TRUE

FlushFree(t) == flushMu \in {Nil, t}

\* Take flushMu (or keep it, on a further round) and clone the buffer.
FlushClone(t) ==
  /\ pc[t] = "flush"
  /\ FlushFree(t)
  /\ IF state = "closed" \/ transport = Nil \/ writeBuffer = <<>>
       THEN /\ Return(t)
            /\ UNCHANGED <<batch, target>>
       ELSE /\ flushMu' = t
            /\ batch' = writeBuffer
            /\ target' = transport
            /\ Goto(t, "send")
            /\ UNCHANGED ret
  /\ UNCHANGED <<session, writeBuffer, onCloseHandler, registered, timers, closed, polling,
                 probing, why, stop, old, up, job, claim, notify, env, outHist, endHist>>

\* The end of a round that wrote nothing, and flush's return.
NotSent(t) ==
  /\ Return(t)
  /\ batch' = <<>> /\ target' = Nil

\* serverPollingTransport.send up to its unlock: take the held poll, if any.
SendPoll(t) ==
  /\ pc[t] = "send" /\ target = Polling
  /\ IF Polling \in closed \/ dataCh = Nil
       THEN NotSent(t) /\ UNCHANGED <<dataCh, claim, handed>>
       ELSE /\ claim' = [claim EXCEPT ![t] = dataCh]
            /\ dataCh' = Nil
            /\ handed' = handed \o batch
            /\ Goto(t, "deliver")
            /\ UNCHANGED <<flight, ret>>
  /\ UNCHANGED <<session, writeBuffer, onCloseHandler, registered, timers, closed,
                 channel, probing, why, stop, old, up, job, notify, env,
                 accepted, gap, endHist>>

\* ch <- payload, which waits while the channel (capacity 1) is full.
Put(t, payload) ==
  /\ channel[claim[t]] = Nil
  /\ channel' = [channel EXCEPT ![claim[t]] = payload]
  /\ claim' = [claim EXCEPT ![t] = Nil]

Deliver(t) ==
  /\ pc[t] = "deliver"
  /\ Put(t, batch)
  /\ Goto(t, "drop")
  /\ UNCHANGED <<session, writeBuffer, onCloseHandler, registered, timers, closed,
                 dataCh, probing, flight, ret, why, stop, old, up, job, notify, env,
                 outHist, endHist>>

\* send of a connection: look at t.closed, ...
SendConn(t) ==
  /\ pc[t] = "send" /\ target # Polling
  /\ IF target \in closed
       THEN NotSent(t)
       ELSE Goto(t, "write") /\ UNCHANGED <<flight, ret>>
  /\ UNCHANGED <<session, writeBuffer, onCloseHandler, registered, timers, closed, polling,
                 probing, why, stop, old, up, job, claim, notify, env, outHist, endHist>>

\* ... then write every frame (a close meanwhile may come too late to stop it), ...
WriteConn(t) ==
  /\ pc[t] = "write"
  /\ handed' = handed \o batch
  /\ Goto(t, "drop")
  /\ UNCHANGED <<session, writeBuffer, onCloseHandler, registered, timers, closed,
                 polling, probing, flight, locals, env, accepted, gap, endHist>>

\* ... or fail after the first n frames.
WriteFail(t, n) ==
  /\ pc[t] = "write"
  /\ n < Len(batch)
  /\ handed' = handed \o SubSeq(batch, 1, n)
  /\ gap' = TRUE
  /\ CallClose(t, "transport_error", ret[t])
  /\ batch' = <<>> /\ target' = Nil
  /\ UNCHANGED <<session, writeBuffer, onCloseHandler, registered, timers, closed,
                 polling, probing, flushMu, stop, old, up, job, claim, notify, env,
                 accepted, endHist>>

\* Drop what was handed over; complete a graceful close, return or go round.
DropSent(t) ==
  LET rest == IF Len(batch) <= Len(writeBuffer)
                THEN SubSeq(writeBuffer, Len(batch) + 1, Len(writeBuffer))
                ELSE <<>>
  IN
  /\ pc[t] = "drop"
  /\ writeBuffer' = rest
  /\ batch' = <<>> /\ target' = Nil
  /\ CASE rest = <<>> /\ state = "closing" ->
            CallClose(t, "drained", ret[t]) /\ UNCHANGED flushMu
       [] rest # <<>> /\ state # "closed" ->
            Goto(t, "flush") /\ UNCHANGED <<flushMu, ret, why>>
       [] OTHER -> Return(t) /\ UNCHANGED why
  /\ UNCHANGED <<session, onCloseHandler, registered, timers, closed, polling, probing,
                 stop, old, up, job, claim, notify, env, outHist, endHist>>
-----------------------------------------------------------------------------
(* closeWithReason, and the release of resources that completeUpgrade and   *)
(* abortUpgrade share with it: close the stop channel, the old transport    *)
(* and the upgrade transport that the critical section snapshotted.         *)

\* beginTeardown of a caller that had to do something else first.
Teardown(t) ==
  /\ pc[t] = "teardown"
  /\ why' = [why EXCEPT ![t] = Nil]
  /\ \/ beginTeardown(t) /\ UNCHANGED <<flushMu, ret>>
     \/ /\ state = "closed"
        /\ Return(t)
        /\ UNCHANGED <<session, writeBuffer, timer, stop, old, up, job, notify>>
  /\ UNCHANGED <<onCloseHandler, registered, upgradeFor, closed, polling, probing, batch,
                 target, claim, env, outHist, endHist>>

\* close(stop)
CloseStop(t) ==
  /\ pc[t] = "release" /\ stop[t] # Nil
  /\ stopCloses' = [stopCloses EXCEPT ![stop[t]] = @ + 1]
  /\ stop' = [stop EXCEPT ![t] = Nil]
  /\ UNCHANGED <<session, writeBuffer, onCloseHandler, registered, timers, closed, polling,
                 probing, flight, pc, ret, why, old, up, job, claim, notify, env, outHist,
                 notified>>

\* Faulty variant: close leaves the held poll hanging.
TakesPoll_Never(t) == FALSE

\* transport.close(): a polling transport also takes the held poll to answer it.
TakesPoll(t) == old[t] = Polling /\ Polling \notin closed /\ dataCh # Nil

CloseOld(t) ==
  /\ pc[t] = "release" /\ stop[t] = Nil /\ old[t] # Nil
  /\ closed' = closed \cup {old[t]}
  /\ old' = [old EXCEPT ![t] = Nil]
  /\ IF TakesPoll(t)
       THEN /\ claim' = [claim EXCEPT ![t] = dataCh]
            /\ dataCh' = Nil
            /\ Goto(t, "closeDeliver")
       ELSE UNCHANGED <<claim, dataCh, pc>>
  /\ UNCHANGED <<session, writeBuffer, onCloseHandler, registered, timers, channel, probing,
                 flight, ret, why, stop, up, job, notify, env, outHist, endHist>>

CloseDeliver(t) ==
  /\ pc[t] = "closeDeliver"
  /\ Put(t, <<"close">>)
  /\ Goto(t, "release")
  /\ UNCHANGED <<session, writeBuffer, onCloseHandler, registered, timers, closed, dataCh,
                 probing, flight, ret, why, stop, old, up, job, notify, env, outHist, endHist>>

\* upgrade.close()
CloseUp(t) ==
  /\ pc[t] = "release" /\ stop[t] = Nil /\ old[t] = Nil /\ up[t] # Nil
  /\ closed' = closed \cup {up[t]}
  /\ up' = [up EXCEPT ![t] = Nil]
  /\ UNCHANGED <<session, writeBuffer, onCloseHandler, registered, timers, polling, probing,
                 flight, pc, ret, why, stop, old, job, claim, notify, env, outHist, endHist>>

\* Everything is released: sessions.delete, completeUpgrade's flush, or return.
Released(t) ==
  /\ pc[t] = "release" /\ stop[t] = Nil /\ old[t] = Nil /\ up[t] = Nil
  /\ job' = [job EXCEPT ![t] = Nil]
  /\ CASE job[t] = "teardown" -> /\ registered' = FALSE
                                 /\ Goto(t, "notify")
                                 /\ UNCHANGED <<flushMu, ret>>
       [] job[t] = "complete" -> /\ Goto(t, "flush")
                                 /\ UNCHANGED <<registered, flushMu, ret>>
       [] OTHER               -> Return(t) /\ UNCHANGED registered
  /\ UNCHANGED <<session, writeBuffer, onCloseHandler, timers, closed, polling, probing,
                 batch, target, why, stop, old, up, claim, notify, env, outHist, endHist>>

\* handler(reason, cause), and the return of closeWithReason.
Notify(t) ==
  /\ pc[t] = "notify"
  /\ notified' = notified + (IF notify[t] THEN 1 ELSE 0)
  /\ notify' = [notify EXCEPT ![t] = FALSE]
  /\ Return(t)
  /\ UNCHANGED <<session, writeBuffer, onCloseHandler, registered, timers, closed, polling,
                 probing, batch, target, why, stop, old, up, job, claim, env, outHist,
                 stopCloses>>
-----------------------------------------------------------------------------
(* The upgrade: a connection probes while polling goes on.                  *)

CanUpgrade ==
  /\ state = "open"
  /\ ~upgrading
  /\ transport = Polling

\* A second connection names this session: startUpgrade, or it is turned away.
StartUpgrade(c) ==
  /\ pc[c] = "idle"
  /\ openSent
  /\ IF registered /\ CanUpgrade
       THEN /\ upgrading' = TRUE
            /\ upgradeTransport' = c
            /\ Arm("upgrade")
            /\ upgradeFor' = c
            /\ Goto(c, "read")
            /\ UNCHANGED closed
       ELSE /\ closed' = closed \cup {c}
            /\ Goto(c, "done")
            /\ UNCHANGED <<upgrading, upgradeTransport, timers>>
  /\ UNCHANGED <<state, transport, probeNoopStop, writeBuffer, onCloseHandler, registered,
                 polling, probing, flight, locals, env, outHist, endHist>>

\* Faulty variant: a late timer or read loop is taken for the probe in flight.
UpgradeInFlight_NoIdentity(c) == upgrading

\* The test shared by beginCompleteUpgrade and beginAbortUpgrade, and what both clear.
UpgradeInFlight(c) == upgrading /\ upgradeTransport = c

\* Faulty variants: the session keeps the stop channel it has given away; the stop
\* channel is dropped unclosed; the snapshot takes the wrong field.
ClearUpgrade_KeepsStop(t) ==
  /\ upgrading' = FALSE
  /\ upgradeTransport' = Nil
  /\ timer' = [timer EXCEPT !["upgrade"] = "nil"]
  /\ stop' = [stop EXCEPT ![t] = probeNoopStop]
  /\ UNCHANGED probeNoopStop

ClearUpgrade_LosesStop(t) ==
  /\ upgrading' = FALSE
  /\ upgradeTransport' = Nil
  /\ timer' = [timer EXCEPT !["upgrade"] = "nil"]
  /\ probeNoopStop' = Nil
  /\ UNCHANGED stop

ClearUpgrade_WrongField(t) ==
  /\ upgrading' = FALSE
  /\ upgradeTransport' = Nil
  /\ timer' = [timer EXCEPT !["upgrade"] = "nil"]
  /\ stop' = [stop EXCEPT ![t] = upgradeTransport]
  /\ probeNoopStop' = Nil

ClearUpgrade(t) ==
  /\ upgrading' = FALSE
  /\ upgradeTransport' = Nil
  /\ timer' = [timer EXCEPT !["upgrade"] = "nil"]
  /\ stop' = [stop EXCEPT ![t] = probeNoopStop]
  /\ probeNoopStop' = Nil

\* A probe ping: the probe pong is written and onProbe follows, or the write fails.
ReadProbe(c) ==
  /\ pc[c] = "read" /\ c \notin closed /\ c \in probing
  /\ \/ /\ Goto(c, "onProbe")
        /\ UNCHANGED <<ret, up>>
     \/ /\ Call(c, "abort", "read")
        /\ up' = [up EXCEPT ![c] = c]
  /\ UNCHANGED <<session, writeBuffer, onCloseHandler, registered, timers, closed, polling,
                 probing, flight, why, stop, old, job, claim, notify, env, outHist, endHist>>

\* Faulty variant: every probe ping starts a noop goroutine.
ProbeAnswered_Never == ~upgrading

ProbeAnswered == ~upgrading \/ probeNoopStop # Nil

onProbe(c) ==
  /\ pc[c] = "onProbe"
  /\ IF ProbeAnswered
       THEN Goto(c, "read") /\ UNCHANGED probeNoopStop
       ELSE \E n \in Noops :
              /\ pc[n] = "idle"
              /\ probeNoopStop' = n
              /\ pc' = [pc EXCEPT ![c] = "read", ![n] = "tick"]
  /\ UNCHANGED <<state, transport, upgradeTransport, upgrading, writeBuffer, onCloseHandler,
                 registered, timers, closed, polling, probing, flight, locals, env, outHist,
                 endHist>>

\* An upgrade packet: beginCompleteUpgrade and promote.  Only this read loop looks
\* at probing, so promote is part of the same step.
ReadUpgrade(c) ==
  /\ pc[c] = "read" /\ c \notin closed /\ c \in probing
  /\ UpgradeInFlight(c)
  /\ ClearUpgrade(c)
  /\ old' = [old EXCEPT ![c] = transport]
  /\ transport' = c
  /\ job' = [job EXCEPT ![c] = "complete"]
  /\ probing' = probing \ {c}
  /\ Call(c, "release", "read")
  /\ UNCHANGED <<state, writeBuffer, onCloseHandler, registered, upgradeFor, closed, polling,
                 flight, why, up, claim, notify, env, outHist, endHist>>

\* beginAbortUpgrade, for the connection up[t].
Abort(t) ==
  /\ pc[t] = "abort"
  /\ IF UpgradeInFlight(up[t])
       THEN /\ ClearUpgrade(t)
            /\ job' = [job EXCEPT ![t] = "abort"]
            /\ Goto(t, "release")
            /\ UNCHANGED <<up, ret, flushMu>>
       ELSE /\ up' = [up EXCEPT ![t] = Nil]
            /\ Return(t)
            /\ UNCHANGED <<upgrading, upgradeTransport, timer, stop, probeNoopStop, job>>
  /\ UNCHANGED <<state, transport, writeBuffer, onCloseHandler, registered, upgradeFor, closed,
                 polling, probing, batch, target, why, old, claim, notify, env, outHist, endHist>>

\* A packet on the active connection: a pong, or a close packet.
ReadPong(c) ==
  /\ pc[c] = "read" /\ c \notin closed /\ c \notin probing
  /\ onPong
  /\ UNCHANGED <<session, writeBuffer, onCloseHandler, registered, upgradeFor, closed, polling,
                 probing, flight, pc, locals, openSent, outHist, endHist>>

ReadClose(c) ==
  /\ pc[c] = "read" /\ c \notin closed /\ c \notin probing
  /\ CloseNow(c, "read")

\* A read error or a malformed frame ends the read loop: nothing is left to do once
\* the transport or the session is closed, a probe is aborted, a session torn down.
ReadError(c) ==
  \/ /\ pc[c] = "read" /\ (c \in closed \/ (c \notin probing /\ state = "closed"))
     /\ Goto(c, "done")
     /\ UNCHANGED <<session, writeBuffer, onCloseHandler, registered, timers, closed, polling,
                    probing, flight, locals, env, outHist, endHist>>
  \/ /\ pc[c] = "read" /\ c \notin closed /\ c \in probing
     /\ Call(c, "abort", "done")
     /\ up' = [up EXCEPT ![c] = c]
     /\ UNCHANGED <<session, writeBuffer, onCloseHandler, registered, timers, closed, polling,
                    probing, flight, why, stop, old, job, claim, notify, env, outHist, endHist>>
  \/ /\ pc[c] = "read" /\ c \notin closed /\ c \notin probing
     /\ CloseNow(c, "done")
-----------------------------------------------------------------------------
(* The probe-noop goroutine: flushProbeNoop at once and on every tick.      *)

\* At the start and on every tick flushProbeNoop reads the active transport, ...
NoopTick(n) ==
  /\ pc[n] \in {"tick", "wait"}
  /\ Goto(n, IF transport = Polling THEN "noop" ELSE "wait")
  /\ UNCHANGED <<session, writeBuffer, onCloseHandler, registered, timers, closed, polling,
                 probing, flight, locals, env, outHist, endHist>>

\* Faulty variant: writeNoop leaves the poll in dataCh for the next sender.
NoopClaim_Shared(n) ==
  /\ pc[n] = "noop"
  /\ claim' = [claim EXCEPT ![n] = dataCh]
  /\ Goto(n, IF dataCh = Nil THEN "wait" ELSE "noopDeliver")
  /\ UNCHANGED <<session, writeBuffer, onCloseHandler, registered, timers, closed, polling,
                 probing, flight, ret, why, stop, old, up, job, notify, env, outHist, endHist>>

\* ... and writeNoop takes the held poll, if any, ...
NoopClaim(n) ==
  /\ pc[n] = "noop"
  /\ claim' = [claim EXCEPT ![n] = dataCh]
  /\ dataCh' = Nil
  /\ Goto(n, IF dataCh = Nil THEN "wait" ELSE "noopDeliver")
  /\ UNCHANGED <<session, writeBuffer, onCloseHandler, registered, timers, closed, channel,
                 probing, flight, ret, why, stop, old, up, job, notify, env, outHist, endHist>>

\* ... to answer it with a noop.
NoopDeliver(n) ==
  /\ pc[n] = "noopDeliver"
  /\ Put(n, <<"noop">>)
  /\ Goto(n, "wait")
  /\ UNCHANGED <<session, writeBuffer, onCloseHandler, registered, timers, closed, dataCh,
                 probing, flight, ret, why, stop, old, up, job, notify, env, outHist, endHist>>

\* select sees the closed stop channel.
NoopStop(n) ==
  /\ pc[n] = "wait"
  /\ stopCloses[n] > 0
  /\ Goto(n, "done")
  /\ UNCHANGED <<session, writeBuffer, onCloseHandler, registered, timers, closed, polling,
                 probing, flight, locals, env, outHist, endHist>>
-----------------------------------------------------------------------------
\* What a goroutine does on its own once it has started.
Flush(t) ==
  \/ FlushClone(t) \/ SendPoll(t) \/ Deliver(t) \/ SendConn(t)
  \/ WriteConn(t) \/ \E n \in 0..Len(batch) : WriteFail(t, n)
  \/ DropSent(t)

CloseWithReason(t) ==
  \/ Teardown(t) \/ CloseStop(t) \/ CloseOld(t) \/ CloseDeliver(t) \/ CloseUp(t)
  \/ Released(t) \/ Notify(t)

Handshake == HandshakeWrite \/ HandshakeFail \/ HandshakeOpen \/ HandshakeHandler

Worker(w) ==
  \/ ArmClose(w) \/ sendPing(w)
  \/ \E k \in Timers : Fire(w, k)

\* What the application and the client may or may not do.
Application(w) == (\E m \in Msgs : Send(w, m)) \/ Close(w) \/ ServerClose(w)

Client ==
  \/ \E w \in Workers : \/ PostPong(w)
                        \/ PostClose(w)
  \/ \E p \in Polls : Poll(p) \/ Cancel(p)
  \/ \E c \in Conns : \/ StartUpgrade(c) \/ ReadProbe(c) \/ ReadUpgrade(c) \/ ReadPong(c)
                      \/ ReadClose(c) \/ ReadError(c)

PollHandler(p) == Hold(p) \/ Respond(p) \/ Drain(p)

Noop(n) == NoopTick(n) \/ NoopClaim(n) \/ NoopDeliver(n) \/ NoopStop(n)

\* The session is over and every goroutine has returned.
Terminated ==
  /\ state = "closed" \/ ~registered
  /\ \A t \in Threads : pc[t] \in {"idle", "done"}
  /\ UNCHANGED vars

Next ==
  \/ Handshake
  \/ \E w \in Workers : Worker(w) \/ Application(w)
  \/ Client
  \/ \E p \in Polls : PollHandler(p)
  \/ \E c \in Conns : onProbe(c)
  \/ \E t \in Threads : Flush(t) \/ CloseWithReason(t) \/ Abort(t)
  \/ \E n \in Noops : Noop(n)
  \/ Terminated

Spec == Init /\ [][Next]_vars

\* Goroutines and timers run; the application and the client need not do anything.
\* Go's select chooses among ready cases at random, so the noop goroutine does not
\* prefer its ticker to its closed stop channel for ever.  A closed connection
\* makes its pending read fail.
Fairness ==
  /\ WF_vars(Handshake)
  /\ \A k \in Timers : WF_vars(\E w \in Workers : Fire(w, k))
  /\ \A w \in Workers : WF_vars(ArmClose(w) \/ sendPing(w))
  /\ \A p \in Polls : WF_vars(PollHandler(p))
  /\ \A c \in Conns : WF_vars(onProbe(c)) /\ WF_vars(c \in closed /\ ReadError(c))
  /\ \A t \in Threads : WF_vars(Flush(t)) /\ WF_vars(CloseWithReason(t)) /\ WF_vars(Abort(t))
  /\ \A n \in Noops : WF_vars(Noop(n)) /\ SF_vars(NoopStop(n))

FairSpec == Spec /\ Fairness
-----------------------------------------------------------------------------
(* Properties.                                                              *)

Seqs == Seq(Packets)
Labels == {"idle", "writeOpen", "open", "handler", "held", "done", "flush", "send", "deliver",
           "write", "drop", "arm", "sendPing", "abort", "teardown", "release", "closeDeliver",
           "notify", "hold", "select", "drain", "read", "onProbe", "tick", "noop",
           "noopDeliver", "wait"}

DataOK ==
  /\ state \in {"opening", "open", "closing", "closed"}
  /\ transport \in Transports \cup {Nil}
  /\ upgradeTransport \in Conns \cup {Nil}
  /\ writeBuffer \in Seqs
  /\ probeNoopStop \in Noops \cup {Nil}
  /\ timer \in [Timers -> {"nil", "armed", "fired"}]
  /\ upgradeFor \in Conns \cup {Nil}
  /\ closed \subseteq Transports /\ probing \subseteq Conns
  /\ dataCh \in Polls \cup {Nil}
  /\ channel \in [Polls -> Seqs \cup {Nil}]
  /\ flushMu \in Threads \cup {Nil}
  /\ batch \in Seqs
  /\ target \in Transports \cup {Nil}
  /\ pc \in [Threads -> Labels]
  /\ ret \in [Threads -> Labels]
  /\ why \in [Threads -> Reasons \cup {Nil}]
  /\ stop \in [Threads -> Noops \cup {Nil}]
  /\ old \in [Threads -> Transports \cup {Nil}]
  /\ up \in [Threads -> Conns \cup {Nil}]
  /\ job \in [Threads -> Jobs \cup {Nil}]
  /\ claim \in [Threads -> Polls \cup {Nil}]
  /\ pongs \in Nat
  /\ accepted \in Seqs /\ handed \in Seqs
  /\ stopCloses \in [Noops -> Nat]
  /\ notified \in Nat

FlagsOK ==
  /\ upgrading \in BOOLEAN /\ onCloseHandler \in BOOLEAN /\ registered \in BOOLEAN
  /\ notify \in [Threads -> BOOLEAN]
  /\ openSent \in BOOLEAN /\ gap \in BOOLEAN

\* Every variable stays in its type.
TypeOK == DataOK /\ FlagsOK

\* The handler of poll p has registered its channel and not yet received from it.
Waiting(p) ==
  \/ pc[p] \in {"select", "drain"}
  \/ pc[p] \notin {"idle", "hold", "done"} /\ ret[p] = "select"

\* A held poll's channel is consumed by exactly one of send, writeNoop and close
\* (server_transport_polling.go:143): it is never filled twice, so a delivery never
\* blocks, and no payload is put where nobody receives it.
ExclusiveDelivery ==
  \A p \in Polls :
    /\ dataCh = p => Waiting(p) /\ channel[p] = Nil
    /\ channel[p] # Nil => Waiting(p)
    /\ \A t \in Threads : claim[t] = p =>
         /\ Waiting(p) /\ channel[p] = Nil /\ dataCh # p
         /\ \A u \in Threads : claim[u] = p => u = t

\* A poll that waits is still held, or its answer is on the way: no request hangs
\* because the transport forgot it (handlePoll's select, release and close).
NoOrphanedPoll ==
  \A p \in Polls : Waiting(p) =>
    \/ dataCh = p /\ Polling \notin closed
    \/ channel[p] # Nil
    \/ \E t \in Threads : claim[t] = p

\* No stop channel is closed twice, which would panic: completeUpgrade, abortUpgrade
\* and closeWithReason may race, but only one of them gets each channel.
StopClosedOnce == \A n \in Noops : stopCloses[n] <= 1

\* A running noop goroutine can still be told to stop: its channel is the session's
\* probeNoopStop, or somebody is about to close it, or it is closed.
NoopStoppable ==
  \A n \in Noops : pc[n] \in {"tick", "noop", "noopDeliver", "wait"} =>
    probeNoopStop = n \/ stopCloses[n] > 0 \/ \E t \in Threads : stop[t] = n

\* What the transports are given is what Send, sendPing and Close queued, in that
\* order and each packet once, across any number of flushes and an upgrade
\* (flushMu "so buffered packets are never written twice").
InOrderOnce ==
  /\ Len(handed) <= Len(accepted)
  /\ \A i \in 1..Len(handed) : handed[i] = accepted[i]

\* A close that flush is about to complete has handed over everything Send accepted,
\* the close packet last ("a message sent just before Close is not dropped").
GracefulCloseDelivers ==
  \A t \in Threads : pc[t] = "teardown" /\ why[t] = "drained" =>
    /\ handed = accepted
    /\ accepted # <<>> /\ accepted[Len(accepted)] = "close"

\* A payload that was handed over but not written to the client closes the session
\* "rather than continue with a silent gap" (handlePoll, flush).
NoSilentGap ==
  gap => state = "closed" \/ \E t \in Threads : pc[t] = "teardown"

\* Somebody is inside flush, or on the way to it or to a teardown.
FlushPending ==
  \E t \in Threads : \/ pc[t] \in {"flush", "send", "deliver", "write", "drop", "teardown"}
                     \/ job[t] = "complete"

\* Buffered packets never wait while the transport could take them: a poll is held,
\* or the active transport is an open connection (handlePoll's and completeUpgrade's
\* flush, and flush's rule to return when nothing was sent).
NoLostWakeup ==
  (/\ state # "closed" /\ writeBuffer # <<>>
   /\ IF transport = Polling THEN dataCh # Nil ELSE transport \notin closed)
  => FlushPending

\* A live session has a running heartbeat: a ping or a pong timeout is scheduled, or
\* its callback has started.  Otherwise a vanished client would leak the session.
HeartbeatAlive ==
  state = "open" =>
    \/ timer["ping"] = "armed" \/ timer["pong"] = "armed"
    \/ \E w \in Workers : \/ pc[w] = "sendPing"
                          \/ pc[w] = "teardown" /\ why[w] = "ping_timeout"

\* A probe of an open session is bounded by its own upgrade timer: the timer is armed
\* for this probe, or an abort of this very probe has started.
ProbeBounded ==
  state = "open" /\ upgrading =>
    \/ timer["upgrade"] = "armed" /\ upgradeFor = upgradeTransport
    \/ \E t \in Threads : pc[t] = "abort" /\ up[t] = upgradeTransport

\* A connection that the server has taken on belongs to the session, is closed, or is
\* about to be closed by the goroutine that took it from the session: an aborted or
\* superseded probe is not left open, nor is the connection of a session that ends.
NoConnLeak ==
  \A c \in Conns : pc[c] # "idle" /\ c \notin closed =>
    \/ c \in {transport, upgradeTransport}
    \/ \E t \in Threads : pc[t] \in {"release", "closeDeliver"} /\ c \in {old[t], up[t]}

\* The close handler runs at most once, and never while the session is registered.
NotifiedOnce == notified <= 1 /\ (notified = 1 => ~registered)

\* The abstract contract of a session: what SessionContract says of its lifecycle and
\* of the packets it hands over.
Contract == INSTANCE SessionContract WITH phase <- state

\* The session implements that contract: the lifecycle only moves forward, nothing is
\* queued once closing has begun, and packets are handed over in order, once each.
ImplementsContract == Contract!Spec

\* An open or closing session whose client falls silent is torn down: by the
\* heartbeat, or by the close timer ("a vanished client cannot leak a session").
SessionEnds == state \in {"open", "closing"} ~> state = "closed"

\* Every held poll is answered, whatever happens to the session meanwhile.
PollsAnswered == \A p \in Polls : Waiting(p) ~> ~Waiting(p)

\* Every noop goroutine stops, and every connection's read loop ends.
GoroutinesEnd ==
  /\ \A n \in Noops : pc[n] # "idle" ~> pc[n] = "done"
  /\ \A c \in Conns : pc[c] # "idle" ~> pc[c] = "done"

\* packet.go:42: the open packet "is the first packet the server sends on a new session".
OpenPacketFirst == handed # <<>> => openSent

\* Sockets: "a session that ends after the snapshot is taken simply rejects further sends
\* with ErrSocketClosed" (server.go:210-213), one whose handshake failed included.
EndedRejectsSends == [][accepted' # accepted => registered]_vars

\* beginClose stops the heartbeat "so a ping or pong-timeout cannot fire during the drain
\* wait and tear the session down early" (server_socket.go:198).
NoPingTimeoutWhileClosing ==
  [][\A t \in Threads : pc[t] = "teardown" /\ why[t] = "ping_timeout" /\ state = "closing" =>
       pc'[t] # "release"]_vars

\* server.go:199: Close tears down every session, "firing each socket's close handler": once
\* the teardown is over, an installed handler has run.
CloseHandlerFires ==
  onCloseHandler /\ state = "closed" ~> notified = 1
=============================================================================
