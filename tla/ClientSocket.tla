---------------------------- MODULE ClientSocket ----------------------------
(***************************************************************************)
(* The client: a Socket, the transports it opens, probes and falls back    *)
(* to, its heartbeat timer, and the goroutines of the application.  A step *)
(* is one critical section of the Go code, or one network event.           *)
(*                                                                         *)
(* Callbacks nest (a transport's Close calls the socket's onClose, which   *)
(* calls the transport's Close), so every goroutine has a stack of frames, *)
(* the innermost first.  A transport names its own goroutine too: the one  *)
(* that runs its Open, then its polls or its read loop, one after another. *)
(* A websocket and a webtransport connection take the same steps, but for  *)
(* the opening packet of the latter and what it does with a late write.    *)
(***************************************************************************)
EXTENDS Naturals, Sequences

CONSTANTS
  Senders,     \* goroutines of the application that call Open and Send
  Closers,     \* goroutines of the application that call Close
  Trans,       \* transport instances, each constructed at most once
  Probers,     \* goroutines that run probeUpgrades
  Timer,       \* the goroutine of the heartbeat timer's callback
  Msgs,        \* application messages, each sent at most once
  ChunkSize,   \* how many packets fit in one payload
  Configs,     \* the options of the socket, what its server offers, and what may happen
  Nil

Threads == Senders \cup Closers \cup Trans \cup Probers \cup {Timer}
Kinds == {"polling", "websocket", "webtransport"}

\* The network operations that may fail by themselves ("decode": what was read is garbled),
\* "empty": a poll is answered without a packet, "silence": the server misses a heartbeat.
FaultKinds == {"request", "dial", "read", "decode", "write", "close", "empty", "silence"}

ASSUME ClientAssumption ==
  /\ ChunkSize \in Nat \ {0}
  /\ Nil \notin Threads \cup Kinds \cup {"ok", "err"}
  /\ Timer \notin Senders \cup Closers \cup Trans \cup Probers
  /\ Trans \cap (Senders \cup Closers \cup Probers) = {}
  /\ Probers \cap (Senders \cup Closers) = {}
  /\ \A c \in Configs :
       /\ c.transports \in Seq(Kinds) /\ c.transports # <<>>
       /\ c.upgrades \in Seq(Kinds \ {"polling"}) /\ c.registered \subseteq Kinds
       /\ {c.tryAllTransports, c.rememberUpgrade, c.closes} \subseteq BOOLEAN
       /\ {c.sends, c.opens, c.receives} \subseteq Nat /\ c.faults \subseteq FaultKinds

VARIABLE config

TransportList == config.transports           \* WithTransports
Registered == config.registered              \* the transport kinds with a constructor
TryAllTransports == config.tryAllTransports  \* WithTryAllTransports
RememberUpgrade == config.rememberUpgrade    \* WithRememberUpgrade
Upgrades == config.upgrades                  \* what the server offers to a polling client
MaxSends == config.sends                     \* how many messages the application sends
MaxOpens == config.opens                     \* how often the socket is opened, fallbacks included
MaxRecv == config.receives                   \* packets the server sends besides the handshakes
Faults == config.faults

VARIABLES
  state,         \* s.state
  transport,     \* s.transport
  writeBuffer,   \* s.writeBuffer
  upgrading,     \* s.upgrading
  flushing,      \* s.flushing, and whether s.flushWG is above zero
  transports,    \* s.transports
  priorUpgrade,  \* s.priorUpgrade
  pingTimeoutTimer,  \* s.pingTimeoutTimer: "nil" or "armed"
  heartbeat,     \* whether s.pingInterval + s.pingTimeout is above zero
  runCancel,     \* the run context that s.runCancel cancels, 0 for none
  cancelled,     \* the run contexts that have been cancelled
  runOf,         \* the run context of each transport
  kind,          \* the kind of each transport, Nil before it is constructed
  tstate,        \* its t.state
  ws,            \* the transports with a connection (t.ws)
  handlers,      \* whose handlers are attached to it
  pollMu,        \* the goroutine that holds its t.pollMu
  signal,        \* what a probe has put in its errChan
  stack          \* the frames of each goroutine

\* Variables of the environment and of the properties only.
VARIABLES
  opens,         \* calls of beginOpen that succeeded
  greeted,       \* the transports on which the server sent "open" or "pong"
  asked,         \* the transports on which the client sent the probe ping
  recv,          \* packets the server has sent besides those
  hungUp,        \* the runs whose session the server has closed
  accepted,      \* the messages Send has queued, in order
  wire,          \* the buffered packets and upgrades that reached the network
  writeErr,      \* whether a write of buffered packets has failed
  overrun,       \* whether flush removed packets it had not written
  earlyClose,    \* whether a Close met the socket still opening
  notified       \* how often the close handler has run

sock  == <<state, transport, writeBuffer, upgrading, flushing>>
prefs == <<transports, priorUpgrade>>
beat  == <<pingTimeoutTimer, heartbeat>>
ctx   == <<runCancel, cancelled, runOf>>
trans == <<kind, tstate, ws, handlers, pollMu, signal>>
env   == <<opens, greeted, asked, recv, hungUp>>
hist  == <<accepted, wire, writeErr, overrun, earlyClose, notified>>

vars == <<config, sock, prefs, beat, ctx, trans, stack, env, hist>>
-----------------------------------------------------------------------------
(* Frames.  at is the next step, x a transport, ps packets (or the          *)
(* positions of candidates in Upgrades) and n a count.                      *)

Frame(at, x, ps, n) == [at |-> at, x |-> x, ps |-> ps, n |-> n]
F(at, x) == Frame(at, x, <<>>, 0)

Idle(t) == stack[t] = <<>>
At(t, label) == stack[t] # <<>> /\ Head(stack[t]).at = label
Top(t) == Head(stack[t])

\* The innermost frame is replaced by fs: <<>> returns.
Then(t, fs) == stack' = [stack EXCEPT ![t] = fs \o Tail(@)] /\ UNCHANGED config

\* As Then, and goroutine u starts with the frames gs.
ThenGo(t, fs, u, gs) ==
  stack' = [stack EXCEPT ![t] = fs \o Tail(@), ![u] = gs] /\ UNCHANGED config

\* Goroutine t, which was idle, starts with the frames fs.
Begin(t, fs) == stack' = [stack EXCEPT ![t] = fs] /\ UNCHANGED config

Detached == [packet |-> "nil", error |-> "nil", close |-> "nil"]
Bound(owner) == [packet |-> owner, error |-> owner, close |-> owner]
Lifecycle(h, owner) == [packet |-> h.packet, error |-> owner, close |-> owner]

\* t.Send writes only while the transport is open, and drops the packets otherwise.
Sendable(x) == tstate[x] = "open" /\ (kind[x] # "polling" => x \in ws)

\* A write on a connection that has been closed fails.
Writable(x) == kind[x] = "polling" \/ x \in ws

\* What a network operation on x returns an error for: a fault, or its cancelled context.
MayFail(op, x) == op \in Faults \/ runOf[x] \in cancelled

\* A poll's dispatch, tracked by t.pollWG, is in progress.
Dispatching(x) == ~Idle(x) /\ stack[x][Len(stack[x])].at \notin {"poll", "request"}

Detach(t) ==
  LET x == Top(t).x IN
  /\ At(t, "detach")
  /\ handlers' = [handlers EXCEPT ![x] = Detached]
  /\ Then(t, <<>>)
  /\ UNCHANGED <<sock, prefs, beat, ctx, kind, tstate, ws, pollMu, signal, env, hist>>

\* Detach the handlers of x and close it.
Discard(x) == <<F("detach", x), F("tClose", x)>>
-----------------------------------------------------------------------------
Init ==
  /\ config \in Configs
  /\ state = "closed" /\ transport = Nil /\ writeBuffer = <<>>
  /\ upgrading = FALSE /\ flushing = FALSE
  /\ transports = TransportList /\ priorUpgrade = Nil
  /\ pingTimeoutTimer = "nil" /\ heartbeat = FALSE
  /\ runCancel = 0 /\ cancelled = {} /\ runOf = [x \in Trans |-> 0]
  /\ kind = [x \in Trans |-> Nil]
  /\ tstate = [x \in Trans |-> "closed"]
  /\ ws = {}
  /\ handlers = [x \in Trans |-> Detached]
  /\ pollMu = [x \in Trans |-> Nil]
  /\ signal = [x \in Trans |-> Nil]
  /\ stack = [t \in Threads |-> <<>>]
  /\ opens = 0 /\ greeted = {} /\ asked = {} /\ recv = 0 /\ hungUp = {}
  /\ accepted = <<>> /\ wire = <<>> /\ writeErr = FALSE /\ overrun = FALSE
  /\ earlyClose = FALSE /\ notified = 0
-----------------------------------------------------------------------------
(* Open: beginOpen, createTransport, and the transport's own Open.          *)

\* The run context is derived from the caller's, never from one that was cancelled.
RunContextReused == IF opens = 0 THEN 1 ELSE opens
RunContext == opens + 1

beginOpen ==
  /\ state = "closed"
  /\ opens < MaxOpens
  /\ state' = "opening"
  /\ upgrading' = FALSE
  /\ writeBuffer' = <<>>
  /\ cancelled' = cancelled \cup ({runCancel} \ {0})
  /\ opens' = opens + 1
  /\ runCancel' = RunContext
  /\ UNCHANGED <<transport, flushing, prefs, beat, runOf, trans, greeted, asked, recv, hungUp, hist>>

Open(t) ==
  /\ Idle(t)
  /\ beginOpen
  /\ Begin(t, <<Frame("install", Nil, <<>>, RunContext)>>)

\* onError's call of Open, on the goroutine of the transport that failed.
Reopen(t) ==
  /\ At(t, "reopen")
  /\ \/ beginOpen /\ Then(t, <<Frame("install", Nil, <<>>, RunContext)>>)
     \/ /\ state # "closed"
        /\ Then(t, <<>>)
        /\ UNCHANGED <<sock, prefs, beat, ctx, trans, env, hist>>

selectTransport ==
  IF RememberUpgrade /\ priorUpgrade \in {transports[i] : i \in DOMAIN transports}
    THEN priorUpgrade ELSE transports[1]

\* A transport x of kind k is constructed for run context n; which unused one, does not
\* matter.
Construct(x, k, n) ==
  /\ kind[x] = Nil /\ x = CHOOSE y \in Trans : kind[y] = Nil
  /\ kind' = [kind EXCEPT ![x] = k]
  /\ runOf' = [runOf EXCEPT ![x] = n]

Install(t) ==
  /\ At(t, "install")
  /\ \/ /\ selectTransport \in Registered
        /\ \E x \in Trans :
             /\ Construct(x, selectTransport, Top(t).n)
             /\ transport' = x
             /\ Then(t, <<F("start", x)>>)
        /\ UNCHANGED state
     \/ /\ selectTransport \notin Registered
        /\ state' = "closed"
        /\ Then(t, <<>>)
        /\ UNCHANGED <<transport, kind, runOf>>
  /\ UNCHANGED <<writeBuffer, upgrading, flushing, prefs, beat, runCancel, cancelled,
                 tstate, ws, handlers, pollMu, signal, env, hist>>

\* The handlers are bound and the transport opens, on its own goroutine.
Start(t) ==
  LET x == Top(t).x IN
  /\ At(t, "start")
  /\ handlers' = [handlers EXCEPT ![x] = Bound("socket")]
  /\ tstate' = [tstate EXCEPT ![x] = "opening"]
  /\ ThenGo(t, <<>>, x, <<F(IF kind[x] = "polling" THEN "poll" ELSE "dial", x)>>)
  /\ UNCHANGED <<sock, prefs, beat, ctx, kind, ws, pollMu, signal, env, hist>>
-----------------------------------------------------------------------------
(* Send, flush and Close.                                                   *)

Live == state \in {"open", "opening"}

Send(t, m) ==
  /\ Idle(t)
  /\ Live /\ Len(accepted) < MaxSends
  /\ \A i \in DOMAIN accepted : accepted[i] # m
  /\ writeBuffer' = Append(writeBuffer, m)
  /\ accepted' = Append(accepted, m)
  /\ Begin(t, <<F("flush", Nil)>>)
  /\ UNCHANGED <<state, transport, upgrading, flushing, prefs, beat, ctx, trans, env, wire,
                 writeErr, overrun, earlyClose, notified>>

\* onPacket's answer to a ping.
SendPong(t) ==
  /\ At(t, "pong")
  /\ IF Live
       THEN writeBuffer' = Append(writeBuffer, "pong") /\ Then(t, <<F("flush", Nil)>>)
       ELSE Then(t, <<>>) /\ UNCHANGED writeBuffer
  /\ UNCHANGED <<state, transport, upgrading, flushing, prefs, beat, ctx, trans, env, hist>>

CanFlushTwice ==
  /\ state = "open" /\ ~upgrading /\ transport # Nil
  /\ writeBuffer # <<>>
CanFlush ==
  /\ state = "open" /\ ~upgrading /\ transport # Nil
  /\ writeBuffer # <<>> /\ ~flushing

FlushClaim(t) ==
  /\ At(t, "flush")
  /\ IF CanFlush
       THEN /\ flushing' = TRUE
            /\ Then(t, <<Frame("chunk", transport, writeBuffer, 0)>>)
       ELSE Then(t, <<>>) /\ UNCHANGED flushing
  /\ UNCHANGED <<state, transport, writeBuffer, upgrading, prefs, beat, ctx, trans, env, hist>>

\* The frame after the chunk that follows the first n packets of frame f.
ChunkEnd(f) == IF f.n + ChunkSize < Len(f.ps) THEN f.n + ChunkSize ELSE Len(f.ps)
NextChunk(f) ==
  Frame(IF ChunkEnd(f) = Len(f.ps) THEN "flushed" ELSE "chunk", f.x, f.ps, ChunkEnd(f))

\* What the network carries when the packets ps are written to x.
Logged(x, ps) == [i \in DOMAIN ps |-> <<x, ps[i]>>]

Chunk(f) == SubSeq(f.ps, f.n + 1, ChunkEnd(f))

\* t.Send of the next chunk: a transport that is not open drops it and reports success.
ChunkSend(t) ==
  LET f == Top(t) IN
  /\ At(t, "chunk")
  /\ Then(t, <<IF Sendable(f.x) THEN [f EXCEPT !.at = "write"] ELSE NextChunk(f)>>)
  /\ UNCHANGED <<sock, prefs, beat, ctx, trans, env, hist>>

\* A webtransport whose stream has gone meanwhile drops the packets, as Send does.
ChunkWrite(t) ==
  LET f == Top(t) IN
  /\ At(t, "write")
  /\ \/ Writable(f.x) /\ wire' = wire \o Logged(f.x, Chunk(f))
     \/ kind[f.x] = "webtransport" /\ ~Writable(f.x) /\ wire' = wire
  /\ Then(t, <<NextChunk(f)>>)
  /\ UNCHANGED <<sock, prefs, beat, ctx, trans, env, accepted, writeErr, overrun, earlyClose, notified>>

\* A failed POST may have reached the server all the same; a connection that fails may
\* have carried some of the frames before.
ChunkFail(t) ==
  LET f == Top(t) IN
  /\ At(t, "write")
  /\ MayFail("write", f.x) \/ ~Writable(f.x)
  /\ \E k \in 0..Len(Chunk(f)) :
       /\ IF kind[f.x] = "polling" THEN k \in {0, Len(Chunk(f))} ELSE k < Len(Chunk(f))
       /\ wire' = wire \o Logged(f.x, SubSeq(Chunk(f), 1, k))
  /\ writeErr' = TRUE
  /\ Then(t, <<[f EXCEPT !.at = "flushFailed"]>>)
  /\ UNCHANGED <<sock, prefs, beat, ctx, trans, env, accepted, overrun, earlyClose, notified>>

\* The packets that were written leave the buffer, unless the socket is not open.
\* When there are fewer than that the Go code panics: the model records it.
Written(f) == f.n

\* Whether flush goes round again, for what was appended meanwhile.
MoreOnce(left) == FALSE
More(left) == state = "open" /\ ~upgrading /\ transport # Nil /\ left # <<>>

FlushEnd(t) ==
  LET f == Top(t)
      n == Written(f)
      left == SubSeq(writeBuffer, n + 1, Len(writeBuffer))
  IN
  /\ At(t, "flushed") \/ At(t, "flushFailed")
  /\ flushing' = FALSE
  /\ IF state = "open"
       THEN /\ writeBuffer' = left
            /\ overrun' = (\/ overrun \/ n > Len(writeBuffer)
                            \/ \E i \in 1..n : writeBuffer[i] # f.ps[i])
       ELSE UNCHANGED <<writeBuffer, overrun>>
  /\ Then(t, IF f.at = "flushed" /\ More(left) THEN <<F("flush", Nil)>> ELSE <<>>)
  /\ UNCHANGED <<state, transport, upgrading, prefs, beat, ctx, trans, env, accepted, wire,
                 writeErr, earlyClose, notified>>

\* Close: beginClose, whose canFlush is the test below.  The frame remembers how many
\* messages had been accepted, when it flushes them.
Close(t) ==
  /\ Idle(t) /\ config.closes
  /\ Live
  /\ LET canFlush == state = "open" /\ ~upgrading /\ writeBuffer # <<>>
     IN  Begin(t, IF canFlush
                    THEN <<F("flush", Nil), Frame("closeTransport", Nil, <<>>, Len(accepted))>>
                    ELSE <<F("closeTransport", Nil)>>)
  /\ UNCHANGED <<sock, prefs, beat, ctx, trans, env, hist>>

beginCloseTransport(t) ==
  /\ At(t, "closeTransport")
  /\ IF Live
       THEN /\ state' = "closing"
            /\ earlyClose' = (earlyClose \/ state = "opening")
            /\ Then(t, IF transport = Nil THEN <<>>
                         ELSE <<Frame("tClose", transport, <<>>, Top(t).n)>>)
       ELSE Then(t, <<>>) /\ UNCHANGED <<state, earlyClose>>
  /\ UNCHANGED <<transport, writeBuffer, upgrading, flushing, prefs, beat, ctx, trans, env,
                 accepted, wire, writeErr, overrun, notified>>
-----------------------------------------------------------------------------
(* A transport's Close, onClose, onError and onPacket.                      *)

\* The handler a transport calls: the socket's, the probe's, or none.
Handler(owner, socketFs, probeFs) ==
  CASE owner = "socket" -> socketFs
    [] owner = "probe"  -> probeFs
    [] OTHER            -> <<>>

\* The probe's OnClose and OnError handlers.
ProbeEnd(x) == Discard(x) \o <<Frame("signal", x, <<"err">>, 0)>>

TClose(t) ==
  LET x == Top(t).x IN
  /\ At(t, "tClose")
  /\ Then(t, IF tstate[x] \in {"opening", "open"}
               THEN <<F("tCloseSend", x), F("tBeginClose", x)>> ELSE <<>>)
  /\ UNCHANGED <<sock, prefs, beat, ctx, trans, env, hist>>

\* The close packet is written, dropped, or fails, which onError reports.
TCloseSend(t) ==
  LET x == Top(t).x IN
  /\ At(t, "tCloseSend")
  /\ \/ Then(t, <<>>)
     \/ Sendable(x) /\ MayFail("write", x) /\ Then(t, <<F("tError", x)>>)
  /\ UNCHANGED <<sock, prefs, beat, ctx, trans, env, hist>>

\* A polling transport marks itself closing and waits for the poll in flight.
TBeginClose(t) ==
  LET x == Top(t).x IN
  /\ At(t, "tBeginClose")
  /\ \/ kind[x] # "polling" /\ Then(t, <<F("tOnClose", x)>>) /\ UNCHANGED tstate
     \/ kind[x] = "polling" /\ tstate[x] = "closed" /\ Then(t, <<>>) /\ UNCHANGED tstate
     \/ /\ kind[x] = "polling" /\ tstate[x] # "closed"
        /\ tstate' = [tstate EXCEPT ![x] = "closing"]
        /\ Then(t, <<F("tAwait", x)>>)
  /\ UNCHANGED <<sock, prefs, beat, ctx, kind, ws, handlers, pollMu, signal, env, hist>>

TAwait(t) ==
  LET x == Top(t).x IN
  /\ At(t, "tAwait")
  /\ pollMu[x] = Nil
  /\ pollMu' = [pollMu EXCEPT ![x] = t]
  /\ Then(t, <<F("tOnClose", x), F("tUnlock", x)>>)
  /\ UNCHANGED <<sock, prefs, beat, ctx, kind, tstate, ws, handlers, signal, env, hist>>

TUnlock(t) ==
  LET x == Top(t).x IN
  /\ At(t, "tUnlock")
  /\ pollMu' = [pollMu EXCEPT ![x] = Nil]
  /\ Then(t, <<>>)
  /\ UNCHANGED <<sock, prefs, beat, ctx, kind, tstate, ws, handlers, signal, env, hist>>

\* The connections left when x closes its own.
DisconnectNone(x) == ws
Disconnect(x) == ws \ {x}

\* An error of the connection's own close is reported before the close.
TOnClose(t) ==
  LET x == Top(t).x
      closed == Handler(handlers[x].close, <<F("onClose", Nil)>>, ProbeEnd(x))
  IN
  /\ At(t, "tOnClose")
  /\ IF tstate[x] = "closed"
       THEN Then(t, <<>>) /\ UNCHANGED <<tstate, ws>>
       ELSE /\ tstate' = [tstate EXCEPT ![x] = "closed"]
            /\ ws' = Disconnect(x)
            /\ \/ Then(t, closed)
               \/ x \in ws /\ "close" \in Faults /\ Then(t, <<F("tError", x)>> \o closed)
  /\ UNCHANGED <<sock, prefs, beat, ctx, kind, handlers, pollMu, signal, env, hist>>

TError(t) ==
  LET x == Top(t).x IN
  /\ At(t, "tError")
  /\ Then(t, Handler(handlers[x].error, <<F("onError", Nil)>>, ProbeEnd(x)))
  /\ UNCHANGED <<sock, prefs, beat, ctx, trans, env, hist>>

\* The probe's OnPacket handler ignores everything but the probe pong.
TPacket(t) ==
  LET f == Top(t) IN
  /\ At(t, "tPacket")
  /\ Then(t, Handler(handlers[f.x].packet, <<[f EXCEPT !.at = "onPacket"]>>,
                     IF f.ps = <<"pong">> THEN <<F("upgradeBegin", Nil)>> ELSE <<>>))
  /\ UNCHANGED <<sock, prefs, beat, ctx, trans, env, hist>>
-----------------------------------------------------------------------------
(* The goroutine of a polling transport: poll, request, onData.             *)

Poll(x) ==
  /\ At(x, "poll")
  /\ pollMu[x] = Nil
  /\ IF tstate[x] \in {"opening", "open"}
       THEN pollMu' = [pollMu EXCEPT ![x] = x] /\ Then(x, <<F("request", x)>>)
       ELSE Then(x, <<>>) /\ UNCHANGED pollMu
  /\ UNCHANGED <<sock, prefs, beat, ctx, kind, tstate, ws, handlers, signal, env, hist>>

\* What the server may put on transport x: the open packet (or the answer to the probe
\* ping) first, then anything until it closes the session.  "message" stands for noop too,
\* which the socket treats alike.
Greeting(x) == IF handlers[x].packet = "probe" THEN "pong" ELSE "open"
ServerSends(x, ps) ==
  /\ runOf[x] \notin cancelled \cup hungUp
  /\ IF x \notin greeted
       THEN /\ ps = <<Greeting(x)>>
            /\ ps = <<"pong">> => x \in asked
            /\ greeted' = greeted \cup {x}
            /\ UNCHANGED <<recv, hungUp>>
       ELSE /\ {ps[i] : i \in DOMAIN ps} \subseteq {"ping", "message", "close"}
            /\ recv + Len(ps) <= MaxRecv
            /\ recv' = recv + Len(ps)
            /\ hungUp' = IF ps[Len(ps)] = "close" THEN hungUp \cup {runOf[x]} ELSE hungUp
            /\ greeted' = greeted

\* pollMu is released before the packets are dispatched or an error is reported.
ReleaseLate(x) == pollMu
Release(x) == [pollMu EXCEPT ![x] = Nil]

\* A long-poll answer is a payload of one packet or two.
Answer(x) ==
  /\ At(x, "request")
  /\ \E p, last \in {"open", "ping", "message", "close"}, n \in 1..2 :
       LET ps == SubSeq(<<p, last>>, 1, n) IN
       /\ n = 1 => last = p
       /\ n = 2 => p # "close"
       /\ ServerSends(x, ps)
       /\ Then(x, <<Frame("dispatch", x, ps, 0)>>)
  /\ pollMu' = Release(x)
  /\ UNCHANGED <<sock, prefs, beat, ctx, kind, tstate, ws, handlers, signal, opens, asked, hist>>

\* The request fails, its status is not 200 or its body is not a payload; pollWG is held
\* until onError returns.
RequestFail(x) ==
  /\ At(x, "request")
  /\ MayFail("request", x)
  /\ pollMu' = Release(x)
  /\ Then(x, <<F("tError", x)>>)
  /\ UNCHANGED <<sock, prefs, beat, ctx, kind, tstate, ws, handlers, signal, env, hist>>

\* An answer without a body: there is no next poll.
EmptyAnswer(x) ==
  /\ At(x, "request")
  /\ "empty" \in Faults
  /\ pollMu' = Release(x)
  /\ Then(x, <<>>)
  /\ UNCHANGED <<sock, prefs, beat, ctx, kind, tstate, ws, handlers, signal, env, hist>>

\* onData: one packet, then the next poll if the transport is open.
Dispatch(x) ==
  LET f == Top(x)
      p == Head(f.ps)
      event == CASE p = "open" /\ tstate[x] = "opening" -> <<F("tOnOpen", x)>>
                 [] p = "close" /\ tstate[x] # "closed" -> <<F("tOnClose", x)>>
                 [] OTHER                               -> <<>>
  IN
  /\ At(x, "dispatch")
  /\ Then(x, CASE f.ps # <<>> -> event \o <<Frame("tPacket", x, <<p>>, 0),
                                           [f EXCEPT !.ps = Tail(f.ps)]>>
               [] f.ps = <<>> /\ tstate[x] = "open" -> <<F("poll", x)>>
               [] OTHER -> <<>>)
  /\ UNCHANGED <<sock, prefs, beat, ctx, trans, env, hist>>
-----------------------------------------------------------------------------
(* The goroutine of a connection: dial, onOpen, readLoop.                   *)

Dial(x) ==
  /\ At(x, "dial")
  /\ runOf[x] \notin cancelled
  /\ ws' = ws \cup {x}
  /\ Then(x, <<F("tOnOpen", x), F("read", x)>>)
  /\ UNCHANGED <<sock, prefs, beat, ctx, kind, tstate, handlers, pollMu, signal, env, hist>>

DialFail(x) ==
  /\ At(x, "dial")
  /\ MayFail("dial", x)
  /\ tstate' = [tstate EXCEPT ![x] = "closed"]
  /\ Then(x, <<F("tError", x)>>)
  /\ UNCHANGED <<sock, prefs, beat, ctx, kind, ws, handlers, pollMu, signal, env, hist>>

\* The first write of a webtransport names the session, and it fails.
WriteOpenFail(x) ==
  /\ At(x, "dial")
  /\ kind[x] = "webtransport" /\ MayFail("write", x)
  /\ ws' = ws \cup {x}
  /\ Then(x, <<F("tError", x), F("tOnClose", x)>>)
  /\ UNCHANGED <<sock, prefs, beat, ctx, kind, tstate, handlers, pollMu, signal, env, hist>>

\* onOpen of either kind: the state is set whatever it was, and a probe sends its ping.
TOnOpen(x) ==
  /\ At(x, "tOnOpen")
  /\ tstate' = [tstate EXCEPT ![x] = "open"]
  /\ Then(x, Handler(handlers[x].packet, <<>>, <<F("probePing", x)>>))
  /\ UNCHANGED <<sock, prefs, beat, ctx, kind, ws, handlers, pollMu, signal, env, hist>>

\* A ping that is dropped or fails is only reported.
ProbePing(x) ==
  /\ At(x, "probePing")
  /\ \/ asked' = IF Sendable(x) THEN asked \cup {x} ELSE asked
     \/ Sendable(x) /\ MayFail("write", x) /\ asked' = asked
  /\ Then(x, <<>>)
  /\ UNCHANGED <<sock, prefs, beat, ctx, trans, opens, greeted, recv, hungUp, hist>>

Read(x) ==
  /\ At(x, "read")
  /\ Then(x, IF x \in ws /\ tstate[x] \notin {"closing", "closed"}
               THEN <<F("reading", x)>> ELSE <<>>)
  /\ UNCHANGED <<sock, prefs, beat, ctx, trans, env, hist>>

Receive(x) ==
  /\ At(x, "reading")
  /\ x \in ws
  /\ \E p \in {"open", "pong", "ping", "message", "close"} :
       /\ ServerSends(x, <<p>>)
       /\ Then(x, <<Frame("tPacket", x, <<p>>, 0),
                    F(IF p = "close" THEN "tOnClose" ELSE "read", x)>>)
  /\ UNCHANGED <<sock, prefs, beat, ctx, trans, opens, asked, hist>>

ReadFail(x) ==
  /\ At(x, "reading")
  /\ MayFail("read", x) \/ x \notin ws
  /\ Then(x, IF tstate[x] \in {"closing", "closed"}
               THEN <<F("tOnClose", x)>> ELSE <<F("tError", x), F("tOnClose", x)>>)
  /\ UNCHANGED <<sock, prefs, beat, ctx, trans, env, hist>>

\* A websocket frame that does not decode is reported, and reading goes on.
Garbled(x) ==
  /\ At(x, "reading")
  /\ x \in ws /\ kind[x] = "websocket" /\ "decode" \in Faults
  /\ runOf[x] \notin cancelled
  /\ Then(x, <<F("tError", x), F("read", x)>>)
  /\ UNCHANGED <<sock, prefs, beat, ctx, trans, env, hist>>
-----------------------------------------------------------------------------
(* The socket's handlers: onPacket, onOpen, onError, onClose.               *)

OnPacket(t) ==
  LET f == Top(t)
      handling == CASE f.ps = <<"open">> -> <<F("recordOpen", f.x)>>
                    [] f.ps = <<"ping">> -> <<F("pong", Nil)>>
                    [] OTHER             -> <<>>
  IN
  /\ At(t, "onPacket")
  /\ Then(t, IF state = "closed" THEN <<>> ELSE <<F("reschedule", Nil)>> \o handling)
  /\ UNCHANGED <<sock, prefs, beat, ctx, trans, env, hist>>

\* Nothing is armed before the handshake has set the interval and the timeout.
RestartedTimer == IF pingTimeoutTimer = "armed" THEN "armed" ELSE "nil"
ArmedTimer == IF heartbeat THEN "armed" ELSE "nil"

reschedulePingTimeout(t) ==
  /\ At(t, "reschedule")
  /\ pingTimeoutTimer' = ArmedTimer
  /\ Then(t, <<>>)
  /\ UNCHANGED <<sock, prefs, heartbeat, ctx, trans, env, hist>>

\* The offered kinds that probeUpgrades will try, in the server's order, by their positions.
Candidates ==
  {c \in DOMAIN Upgrades : \E i \in DOMAIN transports : transports[i] = Upgrades[c]}

\* The transport that a later open remembers.
RememberedAny == IF transport # Nil THEN kind[transport] ELSE Nil
Remembered == IF transport # Nil /\ kind[transport] # "polling" THEN kind[transport] ELSE Nil

recordOpen(t) ==
  LET f == Top(t)
      offered == IF kind[f.x] = "polling" THEN Candidates ELSE {}
  IN
  /\ At(t, "recordOpen")
  /\ state' = "open"
  /\ heartbeat' = TRUE
  /\ priorUpgrade' = Remembered
  /\ Then(t, IF transport = Nil THEN <<>>
               ELSE <<F("reschedule", Nil), F("flush", Nil),
                      Frame("opened", f.x, offered, runOf[f.x])>>)
  /\ UNCHANGED <<transport, writeBuffer, upgrading, flushing, transports, pingTimeoutTimer, ctx,
                 trans, env, hist>>

\* The rest of onOpen: the open handler, and the probe goroutine.
Opened(t) ==
  LET f == Top(t) IN
  /\ At(t, "opened")
  /\ IF f.ps = {} THEN Then(t, <<>>)
       ELSE \E q \in Probers : Idle(q) /\ ThenGo(t, <<>>, q, <<[f EXCEPT !.at = "probe"]>>)
  /\ UNCHANGED <<sock, prefs, beat, ctx, trans, env, hist>>

Retries == TryAllTransports /\ Len(transports) > 1 /\ state = "opening"

\* beginRetry
OnError(t) ==
  /\ At(t, "onError")
  /\ priorUpgrade' = Nil
  /\ IF Retries
       THEN /\ transports' = Tail(transports)
            /\ state' = "closed" /\ transport' = Nil /\ writeBuffer' = <<>>
            /\ Then(t, (IF transport = Nil THEN <<>> ELSE Discard(transport))
                       \o <<F("reopen", Nil)>>)
       ELSE /\ Then(t, <<F("onClose", Nil)>>)
            /\ UNCHANGED <<transports, state, transport, writeBuffer>>
  /\ UNCHANGED <<upgrading, flushing, beat, ctx, trans, env, hist>>

\* beginTeardown
OnClose(t) ==
  /\ At(t, "onClose")
  /\ IF state = "closed"
       THEN /\ Then(t, <<>>)
            /\ UNCHANGED <<state, transport, writeBuffer, upgrading, pingTimeoutTimer, runCancel>>
       ELSE /\ state' = "closed" /\ transport' = Nil /\ writeBuffer' = <<>>
            /\ upgrading' = FALSE /\ pingTimeoutTimer' = "nil" /\ runCancel' = 0
            /\ Then(t, (IF transport = Nil THEN <<>> ELSE Discard(transport))
                       \o <<Frame("cancel", Nil, <<>>, runCancel)>>)
  /\ UNCHANGED <<flushing, prefs, heartbeat, cancelled, runOf, trans, env, hist>>

\* The end of onClose: cancel the run context and call the close handler.
Cancel(t) ==
  /\ At(t, "cancel")
  /\ cancelled' = cancelled \cup ({Top(t).n} \ {0})
  /\ notified' = notified + 1
  /\ Then(t, <<>>)
  /\ UNCHANGED <<sock, prefs, beat, runCancel, runOf, trans, env, accepted, wire, writeErr,
                 overrun, earlyClose>>

\* The heartbeat timer expires; its callback is onClose.
PingTimeout ==
  /\ "silence" \in Faults
  /\ Idle(Timer)
  /\ pingTimeoutTimer = "armed"
  /\ pingTimeoutTimer' = "nil"
  /\ Begin(Timer, <<F("onClose", Nil)>>)
  /\ UNCHANGED <<sock, prefs, heartbeat, ctx, trans, env, hist>>
-----------------------------------------------------------------------------
(* probeUpgrades and probe.  The pong is handled on the goroutine x of the  *)
(* probing transport; the x of its frames is the transport being replaced.  *)

Probe(q) ==
  LET f == Top(q) IN
  /\ At(q, "probe")
  /\ \/ f.ps = {} /\ Then(q, <<>>) /\ UNCHANGED <<priorUpgrade, kind, runOf, handlers, tstate>>
     \/ \E c \in f.ps :
          /\ \A d \in f.ps : c <= d
          /\ priorUpgrade' = Nil
          /\ \/ /\ Upgrades[c] \in Registered
                /\ \E x \in Trans :
                     /\ Construct(x, Upgrades[c], f.n)
                     /\ handlers' = [handlers EXCEPT ![x] = Bound("probe")]
                     /\ tstate' = [tstate EXCEPT ![x] = "opening"]
                     /\ ThenGo(q, <<Frame("await", x, f.ps \ {c}, f.n)>>, x, <<F("dial", x)>>)
             \/ /\ Upgrades[c] \notin Registered
                /\ Then(q, <<[f EXCEPT !.ps = f.ps \ {c}]>>)
                /\ UNCHANGED <<kind, runOf, handlers, tstate>>
  /\ UNCHANGED <<sock, transports, beat, runCancel, cancelled, ws, pollMu, signal, env, hist>>

\* <-errChan: a success ends the goroutine, a failure tries the next candidate.
Await(q) ==
  LET f == Top(q) IN
  /\ At(q, "await")
  /\ signal[f.x] # Nil
  /\ Then(q, IF signal[f.x] = "ok" THEN <<>> ELSE <<Frame("probe", Nil, f.ps, f.n)>>)
  /\ UNCHANGED <<sock, prefs, beat, ctx, trans, env, hist>>

\* signal, which only its first call gets through.
Signal(t) ==
  LET f == Top(t) IN
  /\ At(t, "signal")
  /\ signal' = [signal EXCEPT ![f.x] = IF @ = Nil THEN Head(f.ps) ELSE @]
  /\ Then(t, <<>>)
  /\ UNCHANGED <<sock, prefs, beat, ctx, kind, tstate, ws, handlers, pollMu, env, hist>>

\* Suppress flushes, and detach the old transport's lifecycle handlers.
UpgradeBegin(x) ==
  /\ At(x, "upgradeBegin")
  /\ IF state = "open"
       THEN /\ upgrading' = TRUE
            /\ handlers' = IF transport = Nil THEN handlers
                             ELSE [handlers EXCEPT ![transport] = Lifecycle(@, "nil")]
            /\ Then(x, <<F("upgradeWait", transport)>>)
       ELSE Then(x, ProbeEnd(x)) /\ UNCHANGED <<upgrading, handlers>>
  /\ UNCHANGED <<state, transport, writeBuffer, flushing, prefs, beat, ctx, kind, tstate, ws,
                 pollMu, signal, env, hist>>

\* flushWG.Wait
FlushAnyTime == TRUE
FlushDone == ~flushing

UpgradeWait(x) ==
  /\ At(x, "upgradeWait")
  /\ FlushDone
  /\ Then(x, <<[Top(x) EXCEPT !.at = "upgradeSend"]>>)
  /\ UNCHANGED <<sock, prefs, beat, ctx, trans, env, hist>>

UpgradeSend(x) ==
  /\ At(x, "upgradeSend")
  /\ Sendable(x) => runOf[x] \notin cancelled
  /\ wire' = IF Sendable(x) THEN Append(wire, <<x, "upgrade">>) ELSE wire
  /\ Then(x, <<[Top(x) EXCEPT !.at = "pause"]>>)
  /\ UNCHANGED <<sock, prefs, beat, ctx, trans, env, accepted, writeErr, overrun, earlyClose, notified>>

\* The upgrade packet could not be written: resume over the old transport.
UpgradingKept == upgrading
UpgradingAfterFailure == FALSE

UpgradeFail(x) ==
  /\ At(x, "upgradeSend")
  /\ Sendable(x) /\ MayFail("write", x)
  /\ upgrading' = UpgradingAfterFailure
  /\ Then(x, <<[Top(x) EXCEPT !.at = "restore"], F("flush", Nil)>> \o ProbeEnd(x))
  /\ UNCHANGED <<state, transport, writeBuffer, flushing, prefs, beat, ctx, trans, env, hist>>

Restore(x) ==
  LET old == Top(x).x IN
  /\ At(x, "restore")
  /\ handlers' = IF old = Nil THEN handlers
                   ELSE [handlers EXCEPT ![old] = Lifecycle(@, "socket")]
  /\ Then(x, <<>>)
  /\ UNCHANGED <<sock, prefs, beat, ctx, kind, tstate, ws, pollMu, signal, env, hist>>

\* old.Pause: beginPause, then wait for the poll in flight and for its dispatch.
Pause(x) ==
  LET f == Top(x)
      polls == f.x # Nil /\ kind[f.x] = "polling" /\ tstate[f.x] \in {"opening", "open"}
  IN
  /\ At(x, "pause")
  /\ tstate' = IF polls THEN [tstate EXCEPT ![f.x] = "pausing"] ELSE tstate
  /\ Then(x, <<[f EXCEPT !.at = IF polls THEN "pausing" ELSE "adopt"]>>)
  /\ UNCHANGED <<sock, prefs, beat, ctx, kind, ws, handlers, pollMu, signal, env, hist>>

Paused(x) ==
  LET f == Top(x) IN
  /\ At(x, "pausing")
  /\ pollMu[f.x] = Nil
  /\ tstate' = [tstate EXCEPT ![f.x] = "paused"]
  /\ Then(x, <<[f EXCEPT !.at = "drain"]>>)
  /\ UNCHANGED <<sock, prefs, beat, ctx, kind, ws, handlers, pollMu, signal, env, hist>>

\* pollWG.Wait
DispatchAnyTime(x) == TRUE
DispatchDone(x) == ~Dispatching(x)

Drained(x) ==
  LET f == Top(x) IN
  /\ At(x, "drain")
  /\ DispatchDone(f.x)
  /\ Then(x, <<[f EXCEPT !.at = "adopt"]>>)
  /\ UNCHANGED <<sock, prefs, beat, ctx, trans, env, hist>>

Adopt(x) ==
  /\ At(x, "adopt")
  /\ IF state = "open"
       THEN /\ transport' = x /\ upgrading' = FALSE
            /\ priorUpgrade' = kind[x]
            /\ Then(x, <<[Top(x) EXCEPT !.at = "bind"], F("flush", Nil),
                         Frame("signal", x, <<"ok">>, 0)>>)
       ELSE Then(x, ProbeEnd(x)) /\ UNCHANGED <<transport, upgrading, priorUpgrade>>
  /\ UNCHANGED <<state, writeBuffer, flushing, transports, beat, ctx, trans, env, hist>>

Bind(x) ==
  /\ At(x, "bind")
  /\ handlers' = [handlers EXCEPT ![x] = Bound("socket")]
  /\ Then(x, <<>>)
  /\ UNCHANGED <<sock, prefs, beat, ctx, kind, tstate, ws, pollMu, signal, env, hist>>
-----------------------------------------------------------------------------
Application(t) ==
  \/ t \in Senders /\ (Open(t) \/ \E m \in Msgs : Send(t, m))
  \/ t \in Closers /\ Close(t)

\* The steps a goroutine takes by itself, and those that wait for the network.
Flush(t) == FlushClaim(t) \/ ChunkSend(t) \/ FlushEnd(t)
Transport(t) ==
  \/ TClose(t) \/ TBeginClose(t) \/ TAwait(t) \/ TUnlock(t) \/ TOnClose(t)
  \/ TError(t) \/ TPacket(t) \/ Detach(t)
Socket(t) ==
  \/ Install(t) \/ Start(t) \/ Reopen(t) \/ SendPong(t) \/ beginCloseTransport(t)
  \/ OnPacket(t) \/ reschedulePingTimeout(t) \/ recordOpen(t) \/ Opened(t)
  \/ OnError(t) \/ OnClose(t) \/ Cancel(t) \/ Signal(t)
Loop(x) == Poll(x) \/ Dispatch(x) \/ TOnOpen(x) \/ Read(x)
Upgrade(x) ==
  \/ UpgradeBegin(x) \/ UpgradeWait(x) \/ Restore(x) \/ Pause(x) \/ Paused(x)
  \/ Drained(x) \/ Adopt(x) \/ Bind(x)
Prober(q) == Probe(q) \/ Await(q)
WriteStep(t) == ChunkWrite(t) \/ ChunkFail(t) \/ TCloseSend(t)
ProbeWrite(x) == ProbePing(x) \/ UpgradeSend(x) \/ UpgradeFail(x)
Network(x) ==
  \/ Answer(x) \/ RequestFail(x) \/ EmptyAnswer(x)
  \/ Dial(x) \/ DialFail(x) \/ WriteOpenFail(x)
  \/ Receive(x) \/ ReadFail(x) \/ Garbled(x)

Next ==
  \/ \E t \in Senders \cup Closers : Application(t)
  \/ \E t \in Threads : Flush(t) \/ Transport(t) \/ Socket(t) \/ WriteStep(t)
  \/ \E x \in Trans : Loop(x) \/ Upgrade(x) \/ ProbeWrite(x) \/ Network(x)
  \/ \E q \in Probers : Prober(q)
  \/ PingTimeout

Spec == Init /\ [][Next]_vars

\* A request, a dial or a read whose context is cancelled or whose connection is closed.
Ended(x) == runOf[x] \in cancelled \/ (At(x, "reading") /\ x \notin ws)

\* What goroutine t does without waiting for the peer.
Step(t) ==
  \/ Flush(t) \/ Transport(t) \/ Socket(t)
  \/ t \in Trans /\ (Loop(t) \/ Upgrade(t))
  \/ t \in Trans /\ Ended(t) /\ (RequestFail(t) \/ DialFail(t) \/ ReadFail(t))
  \/ t \in Probers /\ Prober(t)

\* A runnable goroutine runs, an armed timer fires, and every write and every request
\* returns one way or the other.  A dial or a read need not.
FairSpec ==
  /\ Spec
  /\ \A t \in Threads :
       WF_vars(/\ ~Idle(t)
               /\ \/ Step(t) \/ WriteStep(t)
                  \/ t \in Trans /\ (ProbeWrite(t) \/ Answer(t) \/ RequestFail(t)))
  /\ WF_vars(PingTimeout)
-----------------------------------------------------------------------------
(* Properties.                                                              *)

\* Some goroutine has a frame at one of these labels.
Within(labels) == \E t \in Threads : \E i \in DOMAIN stack[t] : stack[t][i].at \in labels

PacketNames == {"open", "ping", "pong", "message", "close", "ok", "err"}

\* The steps of Open, of flush and Close, of a transport, of its goroutine, of the socket's
\* handlers, and of a probe and its upgrade.
Labels ==
  {"install", "start", "flush", "chunk", "write", "flushed", "flushFailed", "closeTransport",
   "tClose", "tCloseSend", "tBeginClose", "tAwait", "tUnlock", "tOnClose", "tError", "tPacket",
   "detach", "poll", "request", "dispatch", "dial", "tOnOpen", "probePing", "read", "reading",
   "onPacket", "pong", "reschedule", "recordOpen", "opened", "onError", "reopen", "onClose",
   "cancel", "probe", "await", "signal", "upgradeBegin", "upgradeWait", "upgradeSend",
   "restore", "pause", "pausing", "drain", "adopt", "bind"}

FrameOK(f) ==
  /\ f.at \in Labels /\ f.x \in Trans \cup {Nil} /\ f.n \in Nat
  /\ IF f.at \in {"opened", "probe", "await"} THEN f.ps \subseteq DOMAIN Upgrades
       ELSE f.ps \in Seq(Msgs \cup PacketNames)

\* Every variable stays in its type.
TypeOK ==
  /\ config \in Configs
  /\ state \in {"opening", "open", "closing", "closed"}
  /\ transport \in Trans \cup {Nil}
  /\ writeBuffer \in Seq(Msgs \cup {"pong"})
  /\ upgrading \in BOOLEAN /\ flushing \in BOOLEAN
  /\ transports \in Seq(Kinds) /\ transports # <<>>
  /\ priorUpgrade \in (Kinds \ {"polling"}) \cup {Nil}
  /\ pingTimeoutTimer \in {"nil", "armed"} /\ heartbeat \in BOOLEAN
  /\ runCancel \in 0..MaxOpens /\ cancelled \subseteq 1..MaxOpens
  /\ runOf \in [Trans -> 0..MaxOpens]
  /\ kind \in [Trans -> Kinds \cup {Nil}]
  /\ tstate \in [Trans -> {"opening", "open", "pausing", "paused", "closing", "closed"}]
  /\ ws \subseteq Trans
  /\ \A x \in Trans : \A e \in {"packet", "error", "close"} :
       handlers[x][e] \in {"nil", "socket", "probe"}
  /\ pollMu \in [Trans -> Threads \cup {Nil}]
  /\ signal \in [Trans -> {"ok", "err", Nil}]
  /\ \A t \in Threads : \A i \in DOMAIN stack[t] : FrameOK(stack[t][i])

\* The first connection, as long as the server has not closed the session and Close has
\* not met the socket still opening: from then on the connection is being given up, and
\* its packets are dropped.
Orderly == opens = 1 /\ ~earlyClose /\ hungUp = {}

OnWire(m) == \E i \in DOMAIN wire : wire[i][2] = m
Buffered(m) == \E i \in DOMAIN writeBuffer : writeBuffer[i] = m

\* Messages reach the network in the order Send queued them, across flushes, failed
\* writes and an upgrade: none overtakes an earlier one ("keeps writes from being lost or
\* reordered", Send).
FifoOnWire ==
  \A j \in DOMAIN accepted : \A k \in DOMAIN wire :
    Orderly /\ wire[k][2] = accepted[j] =>
      \A i \in 1..(j - 1) : \E h \in 1..k : wire[h][2] = accepted[i]

\* While the socket runs over an open transport, every message Send accepted has been
\* written or is still buffered, the upgrade included (flush removes what it has written).
NothingLost ==
  Orderly /\ state = "open" /\ transport # Nil /\ Sendable(transport) =>
    \A i \in DOMAIN accepted :
      OnWire(accepted[i]) \/ Buffered(accepted[i])

\* What Send accepts is neither lost nor reordered ("keeps writes from being lost or
\* reordered", Send).
NothingLostOrReordered == FifoOnWire /\ NothingLost

\* Once the upgrade packet is on the new transport, no message is written to the old one
\* of the same connection: flushWG drains the flush in flight before (probe, "or land on
\* the old transport after the upgrade").
WritesSwitch ==
  \A i, j \in DOMAIN wire :
    i < j /\ wire[i][2] = "upgrade" /\ runOf[wire[i][1]] = runOf[wire[j][1]] =>
      wire[j][1] = wire[i][1]

\* When Pause has returned, the paused transport has no request in flight and dispatches
\* nothing: its messages come before the new transport's (pollMu and pollWG).
PausedIsQuiet ==
  \A x \in Trans : \A i \in DOMAIN stack[x] :
    LET f == stack[x][i] IN
    f.at \in {"adopt", "bind"} /\ f.x # Nil /\ tstate[f.x] = "paused" =>
      pollMu[f.x] # f.x /\ ~Dispatching(f.x)

\* An upgrade switches cleanly in both directions: no write goes to the old transport
\* after it, and no message of the old transport is dispatched after it (probe's wait for
\* flushWG, and Pause).
CleanSwitch == WritesSwitch /\ PausedIsQuiet

\* Buffered packets of an open socket do not wait for the next Send, unless a write has
\* failed: some goroutine is about to flush them.
NoStrandedWrite ==
  state = "open" /\ transport # Nil /\ writeBuffer # <<>> /\ ~upgrading /\ ~writeErr =>
    flushing \/ Within({"flush", "chunk", "write", "flushed"})

\* Until the server closes a session, the transport of an open socket has a live run
\* context: neither a fallback nor a reopen hands out or cancels the wrong one (beginRetry,
\* "an already-cancelled context").
TransportNotCancelled ==
  state = "open" /\ transport # Nil /\ hungUp = {} => runOf[transport] \notin cancelled

\* A connection is closed by the time its goroutine ends: no close, failed probe or
\* fallback leaves one behind ("its goroutines exit instead of leaking", onClose).  The
\* exception is a webtransport that was closed while it was dialling and whose first write
\* then fails: its onClose takes it for closed already.
NoLeakedConnection ==
  \A x \in Trans : x \in ws /\ Idle(x) => kind[x] = "webtransport" /\ tstate[x] = "closed"

\* A message buffered by an open socket is written, over the old transport or the new one,
\* unless the socket closes or a write fails: an upgrade defers flushes, and no upgrade
\* that fails or stalls leaves them deferred.
BufferDrains ==
  \A m \in Msgs : Buffered(m) /\ state = "open" ~> OnWire(m) \/ state # "open" \/ writeErr

\* A socket that is closed, by Close with an upgrade under way or by a failure, ends closed
\* with every goroutine of the connection ended, the poll loop and a failed probe's read
\* loop included, unless Close met it still opening or the heartbeat timer's callback waits
\* for the poll of a silent server: whoever tears it down, the timer at last, onClose
\* cancels the run context, and poll releases pollMu before it dispatches what may close
\* the transport ("The close handler fires once the teardown completes", Close).
CloseCompletes ==
  state \in {"closing", "closed"} ~>
    \/ earlyClose
    \/ state = "closed" /\ (~Idle(Timer) \/ \A t \in Threads : Idle(t))
-----------------------------------------------------------------------------
(* What the documentation says of the socket and the code does not do: TLC  *)
(* refutes each of these (README.md, "Findings").                           *)

\* flush never removes a packet it has not written ("Remove only the packets that were
\* written", flush).
RemovesOnlyWritten == ~overrun

\* A transport's goroutine tears down no connection but its own: what a closed connection
\* still has to report leaves the one opened since alone ("safe to call once and to reopen
\* after a close", Open).
ClosesOwnConnection ==
  [][\A x \in Trans : OnClose(x) /\ state # "closed" => runOf[x] = runCancel]_vars

\* An upgrade whose connection was torn down while it drained does not hand its probe to
\* the next one ("Adopt the new transport unless the socket closed while draining", probe).
AdoptsOwnProbe ==
  [][\A x \in Trans : Adopt(x) /\ state = "open" => runOf[x] \notin cancelled]_vars

\* The close handler runs at most once for each time the socket was opened ("invoked once
\* when the socket closes", SocketCloseHandler).
NotifiedOnce == notified <= opens

\* A socket that says it is open has a transport to send and receive over ("the socket can
\* send and receive packets", SocketStateOpen).
OpenHasTransport == state = "open" => transport # Nil

\* By the time Close tears the transport down, what was buffered when it was called has
\* been written ("a message sent immediately before Close is delivered rather than
\* dropped", Close).
CloseDelivers ==
  \A t \in Closers : At(t, "tClose") /\ ~writeErr => \A i \in 1..Top(t).n : OnWire(accepted[i])

\* Until the socket closes, what was sent while it was opening is buffered or written,
\* whichever transport it ends up opening over ("Packets sent while the socket is still
\* opening are buffered and flushed once it opens", Send).
OpeningBuffers ==
  state \in {"opening", "open"} /\ notified = 0 /\ ~earlyClose /\ hungUp = {} =>
    \A i \in DOMAIN accepted : OnWire(accepted[i]) \/ Buffered(accepted[i])

\* Once the socket is closed every goroutine of the connection ends: the polls and read
\* loops, a probe in any of its phases, and whoever is tearing the transports down ("its
\* goroutines exit instead of leaking", onClose; "would deadlock the poll goroutine against
\* itself", poll).
TeardownReturns == state = "closed" ~> \A t \in Threads : Idle(t)

\* A silent server does not keep the socket from closing: once the heartbeat timer has
\* fired, the close handler runs ("closes the transport if the server goes silent",
\* pingTimeoutTimer; "The close handler fires once the teardown completes", Close).
TimeoutNotifies == At(Timer, "onClose") /\ notified = 0 ~> notified > 0
=============================================================================
