------------------------- MODULE ClientSocketProofs -------------------------
(***************************************************************************)
(* Every step of the client's socket and its transports preserves ConnInv, *)
(* one lemma per action, and what follows: the types of all variables, and *)
(* that no connection is left open when its goroutine has ended.           *)
(***************************************************************************)
EXTENDS ClientSocketFrames

\* What starts a goroutine: a call of the application, or the heartbeat timer.
Outside == (\E t \in Senders \cup Closers : Application(t)) \/ PingTimeout

\* Send, Close and the heartbeat timer.
LEMMA ApplicationConn ==
  ASSUME ConnInv, accepted \in Seq(Msgs), Outside
  PROVE  ConnInv'
<1>0. SockOK
  BY Zenon DEF ConnInv
<1>1. CASE PingTimeout
  <2>1. /\ stack[Timer] = <<>> /\ Begin(Timer, <<F("onClose", Nil)>>) /\ pingTimeoutTimer' = "nil"
        /\ UNCHANGED <<sock, prefs, heartbeat, ctx, trans, opens>> /\ config' = config
    BY Zenon, <1>1 DEF PingTimeout, Idle, Begin, env
  <2>2. Good(Timer, <<F("onClose", Nil)>>) /\ Timer \in Threads \ Trans
    BY Zenon, <1>0, Apart, NewFrame, Goods
  <2>3. SockOK'
    BY Zenon, <1>0, <2>1 DEF SockOK, sock, prefs, ctx, MaxOpens
  <2> QED
    BY Zenon, <2>1, <2>2, <2>3, BeginConn DEF sock, ctx
<1>2. ASSUME NEW t \in Senders, Open(t) PROVE ConnInv'
  BY Zenon, <1>2, OpenConn, Apart
<1>3. ASSUME NEW t \in Senders, NEW m \in Msgs, Send(t, m) PROVE ConnInv'
  <2>1. /\ stack[t] = <<>> /\ Begin(t, <<F("flush", Nil)>>) /\ writeBuffer' = Append(writeBuffer, m)
        /\ UNCHANGED <<state, transport, upgrading, flushing, prefs, beat, ctx, trans, opens>>
        /\ config' = config
    BY Zenon, <1>3 DEF Send, Idle, Begin, env
  <2>2. Good(t, <<F("flush", Nil)>>) /\ t \in Threads \ Trans
    BY Zenon, <1>0, Apart, NewFrame, Goods
  <2>3. writeBuffer' \in Seq(Msgs \cup {"pong"})
    BY Zenon, <1>0, <2>1, BufferTypes
  <2>4. SockOK'
    BY Zenon, <1>0, <2>1, <2>3 DEF SockOK, prefs, beat, ctx, MaxOpens
  <2> QED
    BY Zenon, <2>1, <2>2, <2>4, BeginConn DEF ctx
<1>4. ASSUME NEW t \in Closers, Close(t) PROVE ConnInv'
  <2>1. /\ stack[t] = <<>> /\ UNCHANGED <<sock, prefs, beat, ctx, trans, opens>> /\ config' = config
        /\ \/ Begin(t, <<F("flush", Nil), Frame("closeTransport", Nil, <<>>, Len(accepted))>>)
           \/ Begin(t, <<F("closeTransport", Nil)>>)
    BY Zenon, <1>4 DEF Close, Idle, Begin, env
  <2>2. t \in Threads \ Trans /\ New(t, F("flush", Nil)) /\ New(t, F("closeTransport", Nil))
    BY Zenon, <1>0, Apart, NewFrame
  <2>3. SockOK'
    BY Zenon, <1>0, <2>1, SockSame DEF ctx
  <2>4. New(t, Frame("closeTransport", Nil, <<>>, Len(accepted)))
    <3>1. /\ "closeTransport" \in Labels /\ "closeTransport" \notin OtherLabels
          /\ "closeTransport" \notin OwnLabels /\ "closeTransport" \notin ProbeLabels
          /\ "closeTransport" \notin UpLabels \cup {"dial", "install", "start", "pausing", "drain"}
          /\ "closeTransport" \notin {"cancel", "tOnOpen", "signal"} \cup PollLabels
      BY Zenon DEF Labels, OtherLabels, OwnLabels, ProbeLabels, UpLabels, PollLabels
    <3>2. Nil \in Trans \cup {Nil} /\ t \in Threads
      BY Zenon, <2>2
    <3>3. Len(accepted) \in Nat
      OBVIOUS
    <3> QED
      BY ZenonT(30), <3>1, <3>2, <3>3, EmptySeq, NewPlain
  <2>5. \E fs : Good(t, fs) /\ Begin(t, fs)
    BY Zenon, <2>1, <2>2, <2>4, Goods
  <2> QED
    BY Zenon, <2>1, <2>2, <2>3, <2>5, BeginConn DEF ctx, sock
<1> QED
  BY Zenon, <1>1, <1>2, <1>3, <1>4 DEF Application, Outside

\* The answer to a ping, the end of Close, and the socket's handlers of packets and of the
\* heartbeat.
LEMMA PacketsConn ==
  ASSUME ConnInv, NEW t \in Threads,
         SendPong(t) \/ beginCloseTransport(t) \/ OnPacket(t) \/ reschedulePingTimeout(t)
  PROVE  ConnInv'
<1>0. SockOK
  BY Zenon DEF ConnInv
<1>1. /\ stack[t] # <<>> /\ Top(t).at \in {"pong", "closeTransport", "onPacket", "reschedule"}
      /\ UNCHANGED <<runOf, trans>> /\ transport' = transport
  BY Zenon DEF SendPong, beginCloseTransport, OnPacket, reschedulePingTimeout, At, Top, ctx, sock
<1>2. /\ Top(t).at \notin {"tOnOpen", "read", "reading", "tOnClose"}
      /\ Top(t).at \notin ProbeLabels
  BY Zenon, <1>1 DEF ProbeLabels
<1>3. /\ New(t, F("flush", Nil)) /\ New(t, F("reschedule", Nil)) /\ New(t, F("pong", Nil))
  BY Zenon, <1>0, NewFrame
<1>4. CASE SendPong(t)
  <2>1. /\ UNCHANGED <<state, transport, upgrading, flushing, prefs, beat, ctx, opens>>
        /\ writeBuffer' \in {writeBuffer, Append(writeBuffer, "pong")}
        /\ Then(t, <<F("flush", Nil)>>) \/ Then(t, <<>>)
    BY Zenon, <1>4 DEF SendPong, env
  <2>2. \E fs : Good(t, fs) /\ Then(t, fs)
    BY Zenon, <1>3, <2>1, Goods
  <2>3. writeBuffer' \in Seq(Msgs \cup {"pong"})
    BY Zenon, <1>0, <2>1, BufferTypes DEF SockOK
  <2>4. SockOK'
    BY Zenon, <1>0, <2>1, <2>2, <2>3 DEF SockOK, prefs, beat, ctx, MaxOpens, Then
  <2> QED
    BY Zenon, <1>1, <1>2, <2>2, <2>4, SockStep
<1>5. CASE beginCloseTransport(t)
  <2>1. /\ UNCHANGED <<transport, writeBuffer, upgrading, flushing, prefs, beat, ctx, opens>>
        /\ state' \in {state, "closing"}
        /\ \/ Then(t, <<>>)
           \/ transport # Nil /\ Then(t, <<Frame("tClose", transport, <<>>, Top(t).n)>>)
    BY Zenon, <1>5 DEF beginCloseTransport, env
  <2>2. transport # Nil => New(t, Frame("tClose", transport, <<>>, Top(t).n))
    <3> SUFFICES ASSUME transport # Nil PROVE New(t, Frame("tClose", transport, <<>>, Top(t).n))
      OBVIOUS
    <3>1. /\ "tClose" \in Labels /\ "tClose" \notin OwnLabels /\ "tClose" \notin ProbeLabels
          /\ "tClose" \notin UpLabels \cup {"dial", "install", "start", "pausing", "drain"}
          /\ "tClose" \notin {"cancel", "tOnOpen", "signal"} \cup PollLabels
      BY Zenon DEF Labels, OwnLabels, ProbeLabels, UpLabels, PollLabels
    <3>2. transport \in Trans \cup {Nil} /\ kind[transport] # Nil /\ Top(t).n \in Nat
      BY Zenon, <1>0, <1>1, TopKnown DEF SockOK, ConnInv, KindOK
    <3> QED
      BY ZenonT(30), <3>1, <3>2, EmptySeq, NewPlain
  <2>3. \E fs : Good(t, fs) /\ Then(t, fs)
    BY Zenon, <2>1, <2>2, Goods
  <2>4. state' \in {"opening", "open", "closing", "closed"}
    BY Zenon, <1>0, <2>1 DEF SockOK
  <2>5. SockOK'
    BY Zenon, <1>0, <2>1, <2>3, <2>4 DEF SockOK, prefs, beat, ctx, MaxOpens, Then
  <2> QED
    BY Zenon, <1>1, <1>2, <2>3, <2>5, SockStep
<1>6. CASE OnPacket(t)
  <2> DEFINE f == Top(t)
             handling == CASE f.ps = <<"open">> -> <<F("recordOpen", f.x)>>
                           [] f.ps = <<"ping">> -> <<F("pong", Nil)>>
                           [] OTHER             -> <<>>
  <2>1. /\ UNCHANGED <<sock, prefs, beat, ctx, trans, opens>>
        /\ \/ Then(t, <<>>)
           \/ Then(t, <<F("reschedule", Nil)>> \o handling)
    BY Zenon, <1>6 DEF OnPacket, env
  <2>2. f.at \in OwnLabels
    BY Zenon, <1>6 DEF OnPacket, At, Top, OwnLabels
  <2>3. f.x = t /\ t \in Trans /\ kind[t] # Nil
    BY Zenon, <1>1, <2>2, TopKnown
  <2>4. New(t, F("recordOpen", f.x))
    <3>1. "recordOpen" \notin PollLabels
      BY Zenon DEF PollLabels
    <3> QED
      BY Zenon, <1>0, <2>3, <3>1, NewFrame
  <2>5. handling \in {<<F("recordOpen", f.x)>>, <<F("pong", Nil)>>, <<>>}
    <3>1. CASE f.ps = <<"open">>
      <4>1. <<"open">> # <<"ping">>
        OBVIOUS
      <4> QED
        BY <3>1, <4>1
    <3>2. CASE f.ps # <<"open">> /\ f.ps = <<"ping">>
      BY <3>2
    <3>3. CASE f.ps # <<"open">> /\ f.ps # <<"ping">>
      BY <3>3
    <3> QED
      BY Zenon, <3>1, <3>2, <3>3
  <2> HIDE DEF handling, f
  <2>6. Good(t, handling) /\ Good(t, <<F("reschedule", Nil)>>) /\ Good(t, <<>>)
    BY Zenon, <1>3, <2>4, <2>5, Goods
  <2>7. \E fs : Good(t, fs) /\ Then(t, fs)
    BY Zenon, <2>1, <2>6, Goods
  <2> QED
    BY Zenon, <1>1, <1>2, <2>1, <2>7, SameStep
<1>7. CASE reschedulePingTimeout(t)
  <2>1. /\ UNCHANGED <<sock, prefs, heartbeat, ctx, opens>> /\ Then(t, <<>>)
        /\ pingTimeoutTimer' \in {"nil", "armed"}
    BY Zenon, <1>7 DEF reschedulePingTimeout, env, ArmedTimer
  <2>2. SockOK'
    BY Zenon, <1>0, <2>1 DEF SockOK, sock, prefs, ctx, MaxOpens, Then
  <2> QED
    BY Zenon, <1>1, <1>2, <2>1, <2>2, SockStep, Goods
<1> QED
  BY Zenon, <1>4, <1>5, <1>6, <1>7

\* The positions of the candidates of the probe.
LEMMA CandidatesOK == Candidates \in SUBSET DOMAIN Upgrades /\ {} \in SUBSET DOMAIN Upgrades
  BY DEF Candidates

\* The socket opens.
LEMMA RecordConn ==
  ASSUME ConnInv, NEW t \in Threads, recordOpen(t)
  PROVE  ConnInv'
<1> DEFINE f == Top(t)
           offered == IF kind[f.x] = "polling" THEN Candidates ELSE {}
<1>0. SockOK /\ TransOK
  BY Zenon DEF ConnInv
<1>1. /\ stack[t] # <<>> /\ f.at = "recordOpen"
      /\ UNCHANGED <<runOf, trans>> /\ transport' = transport /\ state' = "open" /\ heartbeat' = TRUE
      /\ UNCHANGED <<writeBuffer, upgrading, flushing, transports, pingTimeoutTimer, ctx, opens>>
      /\ priorUpgrade' = Remembered
      /\ \/ Then(t, <<>>)
         \/ Then(t, <<F("reschedule", Nil), F("flush", Nil), Frame("opened", f.x, offered, runOf[f.x])>>)
  BY Zenon DEF recordOpen, At, Top, ctx, env
<1>2. f.at \in OwnLabels /\ f.at \notin {"tOnOpen", "read", "reading", "tOnClose"}
  BY Zenon, <1>1 DEF OwnLabels
<1>3. f.x = t /\ t \in Trans /\ kind[t] # Nil
  BY Zenon, <1>1, <1>2, TopKnown
<1>4. offered \in SUBSET DOMAIN Upgrades
  BY Zenon, CandidatesOK
<1>5. New(t, Frame("opened", f.x, offered, runOf[f.x]))
  <2>1. runOf[f.x] \in Nat /\ runOf[f.x] <= MaxOpens
    <3>1. runOf[t] \in 0..MaxOpens /\ MaxOpens \in Nat
      BY Zenon, <1>0, <1>3, ConfigOK DEF TransOK
    <3> QED
      BY <1>3, <3>1
  <2>2. "opened" \in ProbeLabels /\ "opened" # "await" /\ f.x \in Trans \cup {Nil}
    BY Zenon, <1>3 DEF ProbeLabels
  <2> HIDE DEF f, offered
  <2> QED
    BY ZenonT(30), <1>0, <1>3, <1>4, <2>1, <2>2, NewProbe
<1>6. New(t, F("reschedule", Nil)) /\ New(t, F("flush", Nil))
  BY Zenon, <1>0, NewFrame
<1>7. \E fs : Good(t, fs) /\ Then(t, fs)
  BY Zenon, <1>1, <1>5, <1>6, Goods
<1>8. Remembered \in Connections \cup {Nil}
  BY Zenon, <1>0 DEF Remembered, Connections, SockOK, TransOK, ConnInv, KindOK
<1>9. SockOK'
  <2>1. state' \in {"opening", "open", "closing", "closed"} /\ TRUE \in BOOLEAN
    BY Zenon, <1>1
  <2> QED
    BY Zenon, <1>0, <1>1, <1>7, <1>8, <2>1 DEF SockOK, ctx, MaxOpens, Then
<1> QED
  BY Zenon, <1>1, <1>2, <1>7, <1>9, SockStep

\* What the socket does when a transport fails, or closes.
LEMMA TeardownConn ==
  ASSUME ConnInv, NEW t \in Threads, OnError(t) \/ OnClose(t) \/ Cancel(t)
  PROVE  ConnInv'
<1>0. SockOK /\ MaxOpens \in Nat
  BY Zenon, ConfigOK DEF ConnInv
<1>1. /\ stack[t] # <<>> /\ Top(t).at \in {"onError", "onClose", "cancel"}
      /\ UNCHANGED <<runOf, trans>> /\ transport' \in {transport, Nil}
  BY Zenon DEF OnError, OnClose, Cancel, At, Top, ctx, sock
<1>2. /\ Top(t).at \notin {"tOnOpen", "read", "reading", "tOnClose"}
      /\ Top(t).at = "cancel" => Top(t).at \in RunLabels
  BY Zenon, <1>1 DEF RunLabels
<1>3. /\ New(t, F("onClose", Nil)) /\ New(t, F("reopen", Nil))
      /\ transport # Nil => transport \in Trans /\ kind[transport] # Nil
  BY Zenon, <1>0, NewFrame DEF ConnInv, KindOK, SockOK
<1>4. transport # Nil => Good(t, Discard(transport))
  BY Zenon, <1>0, <1>3, EndGood
<1>5. Good(t, <<>>) /\ <<>> \in Seq(Msgs \cup {"pong"})
  <2>1. <<>> \in Seq(Msgs \cup {"pong"})
    OBVIOUS
  <2> QED
    BY Zenon, <2>1, Goods
<1>6. CASE OnError(t)
  <2>1. /\ UNCHANGED <<upgrading, flushing, beat, ctx, opens>> /\ priorUpgrade' = Nil
        /\ state' \in {state, "closed"} /\ writeBuffer' \in {writeBuffer, <<>>}
    BY Zenon, <1>6 DEF OnError, env
  <2>2. \E fs : Good(t, fs) /\ Then(t, fs)
    <3>1. \/ Then(t, <<F("onClose", Nil)>>)
          \/ Then(t, (IF transport = Nil THEN <<>> ELSE Discard(transport)) \o <<F("reopen", Nil)>>)
      BY Zenon, <1>6 DEF OnError
    <3>2. Good(t, <<F("onClose", Nil)>>) /\ Good(t, <<F("reopen", Nil)>>)
      BY Zenon, <1>3, Goods
    <3>3. Good(t, IF transport = Nil THEN <<>> ELSE Discard(transport))
      BY Zenon, <1>4, <1>5
    <3> QED
      BY Zenon, <3>1, <3>2, <3>3, Goods
  <2>3. transports' \in Seq(Kinds) /\ transports' # <<>>
    <3>1. transports \in Seq(Kinds) /\ transports # <<>>
      BY Zenon, <1>0 DEF SockOK
    <3>2. CASE Retries
      <4>1. Len(transports) > 1 /\ transports' = Tail(transports)
        BY Zenon, <1>6, <3>2 DEF OnError, Retries
      <4>2. Tail(transports) \in Seq(Kinds) /\ Tail(transports) # <<>>
        BY ZenonT(30), <3>1, <4>1, TailLeft
      <4> QED
        BY Zenon, <4>1, <4>2
    <3>3. CASE ~Retries
      BY Zenon, <1>6, <3>1, <3>3 DEF OnError
    <3> QED
      BY Zenon, <3>2, <3>3
  <2>4. state' \in {"opening", "open", "closing", "closed"} /\ writeBuffer' \in Seq(Msgs \cup {"pong"})
    BY Zenon, <1>0, <1>5, <2>1 DEF SockOK
  <2>5. SockOK'
    BY Zenon, <1>0, <1>1, <2>1, <2>2, <2>3, <2>4 DEF SockOK, beat, ctx, MaxOpens, Then
  <2> QED
    BY Zenon, <1>1, <1>2, <2>2, <2>5, SockStep
<1>7. CASE OnClose(t)
  <2>1. /\ UNCHANGED <<flushing, prefs, heartbeat, cancelled, opens>>
        /\ state' \in {state, "closed"} /\ writeBuffer' \in {writeBuffer, <<>>}
        /\ upgrading' \in {upgrading, FALSE} /\ pingTimeoutTimer' \in {pingTimeoutTimer, "nil"}
        /\ runCancel' \in {runCancel, 0}
    BY Zenon, <1>7 DEF OnClose, env
  <2>2. New(t, Frame("cancel", Nil, <<>>, runCancel))
    <3>1. /\ "cancel" \in Labels /\ "cancel" \notin OtherLabels
          /\ "cancel" \notin OwnLabels /\ "cancel" \notin ProbeLabels
          /\ "cancel" \notin UpLabels \cup {"dial", "install", "start", "pausing", "drain"}
          /\ "cancel" \notin {"tOnOpen", "signal"} \cup PollLabels
      BY Zenon DEF Labels, OtherLabels, OwnLabels, ProbeLabels, UpLabels, PollLabels
    <3>2. Nil \in Trans \cup {Nil} /\ runCancel \in Nat /\ runCancel <= MaxOpens
      <4>1. runCancel \in 0..MaxOpens
        BY Zenon, <1>0 DEF SockOK
      <4> QED
        BY <1>0, <4>1
    <3> QED
      BY ZenonT(30), <3>1, <3>2, EmptySeq, NewPlain
  <2>3. \E fs : Good(t, fs) /\ Then(t, fs)
    <3>1. \/ Then(t, <<>>)
          \/ Then(t, (IF transport = Nil THEN <<>> ELSE Discard(transport))
                     \o <<Frame("cancel", Nil, <<>>, runCancel)>>)
      BY Zenon, <1>7 DEF OnClose
    <3>2. Good(t, <<Frame("cancel", Nil, <<>>, runCancel)>>)
      BY Zenon, <2>2, Goods
    <3>3. Good(t, IF transport = Nil THEN <<>> ELSE Discard(transport))
      BY Zenon, <1>4, <1>5
    <3> QED
      BY Zenon, <1>5, <3>1, <3>2, <3>3, Goods
  <2>4. /\ state' \in {"opening", "open", "closing", "closed"} /\ writeBuffer' \in Seq(Msgs \cup {"pong"})
        /\ upgrading' \in BOOLEAN /\ pingTimeoutTimer' \in {"nil", "armed"}
    BY Zenon, <1>0, <1>5, <2>1 DEF SockOK
  <2>5. runCancel' \in 0..MaxOpens
    <3>1. runCancel \in 0..MaxOpens
      BY Zenon, <1>0 DEF SockOK
    <3> QED
      BY <1>0, <2>1, <3>1
  <2>6. SockOK'
    BY Zenon, <1>0, <1>1, <2>1, <2>3, <2>4, <2>5 DEF SockOK, prefs, MaxOpens, Then
  <2> QED
    BY Zenon, <1>1, <1>2, <2>3, <2>6, SockStep
<1>8. CASE Cancel(t)
  <2>1. /\ UNCHANGED <<sock, prefs, beat, runCancel, opens>> /\ Then(t, <<>>)
        /\ cancelled' = cancelled \cup ({Top(t).n} \ {0}) /\ Top(t).at = "cancel"
    BY Zenon, <1>8 DEF Cancel, At, Top, env
  <2>2. Top(t).n \in Nat /\ Top(t).n <= MaxOpens
    BY Zenon, <1>1, <1>2, <2>1, TopKnown DEF FrameInv
  <2>3. cancelled \subseteq 1..MaxOpens
    BY Zenon, <1>0 DEF SockOK
  <2>4. cancelled' \subseteq 1..MaxOpens
    <3>1. \A n \in Nat : n <= MaxOpens /\ n # 0 => n \in 1..MaxOpens
      BY <1>0
    <3> QED
      BY Zenon, <2>1, <2>2, <2>3, <3>1
  <2>5. SockOK'
    BY Zenon, <1>0, <2>1, <2>4 DEF SockOK, sock, prefs, beat, MaxOpens, Then
  <2> QED
    BY Zenon, <1>1, <1>2, <1>5, <2>1, <2>5, SockStep
<1> QED
  BY Zenon, <1>6, <1>7, <1>8

\* The answer of a probe.
LEMMA SignalConn ==
  ASSUME ConnInv, NEW t \in Threads, Signal(t)
  PROVE  ConnInv'
<1> DEFINE f == Top(t)
<1>0. TransOK
  BY Zenon DEF ConnInv
<1>1. /\ stack[t] # <<>> /\ f.at = "signal" /\ Then(t, <<>>)
      /\ UNCHANGED <<sock, prefs, beat, ctx, opens, kind, tstate, ws, handlers>> /\ pollMu' = pollMu
      /\ signal' = [signal EXCEPT ![f.x] = IF @ = Nil THEN Head(f.ps) ELSE @]
  BY Zenon DEF Signal, At, Top, env
<1>2. /\ f.at \in OtherLabels
      /\ f.at \notin {"tOnOpen", "read", "reading", "tOnClose"}
  BY Zenon, <1>1 DEF OtherLabels
<1>3. f.x \in Trans /\ FrameInv(t, f)
  BY Zenon, <1>1, <1>2, TopKnown
<1>4. f.ps \in {<<"ok">>, <<"err">>}
  BY Zenon, <1>1, <1>3 DEF FrameInv
<1>5. Head(f.ps) \in {"ok", "err", Nil}
  <2>1. Head(<<"ok">>) = "ok" /\ Head(<<"err">>) = "err"
    OBVIOUS
  <2> QED
    BY Zenon, <1>4, <2>1
<1>6. signal' \in [Trans -> {"ok", "err", Nil}]
  <2>1. signal \in [Trans -> {"ok", "err", Nil}]
    BY Zenon, <1>0 DEF TransOK
  <2> DEFINE p == Head(f.ps)
  <2> HIDE DEF f, p
  <2> QED
    BY <1>1, <1>3, <1>5, <2>1 DEF p
<1>7. pollMu' \in [Trans -> Threads \cup {Nil}]
  BY Zenon, <1>0, <1>1 DEF TransOK
<1> QED
  BY Zenon, <1>1, <1>2, <1>6, <1>7, Goods, LockStep

-----------------------------------------------------------------------------
(* The steps of the goroutine of a transport.                               *)

\* The payloads of an answer.
LEMMA AnswerSeq ==
  ASSUME NEW p \in {"open", "ping", "message", "close"},
         NEW q \in {"open", "ping", "message", "close"}, NEW n \in 1..2
  PROVE  SubSeq(<<p, q>>, 1, n) \in PacketSeqs
<1>1. p \in Packets /\ q \in Packets
  BY Zenon DEF Packets, PacketNames
<1>2. <<p, q>> \in Seq(Packets) /\ Len(<<p, q>>) = 2
  BY <1>1
<1>3. SubSeq(<<p, q>>, 1, n) \in Seq(Packets)
  BY <1>2
<1> QED
  BY <1>3 DEF PacketSeqs

\* A poll, its answer or its failure, and the ping of a probe.
LEMMA PollConn ==
  ASSUME ConnInv, NEW t \in Trans,
         Poll(t) \/ Answer(t) \/ RequestFail(t) \/ EmptyAnswer(t) \/ ProbePing(t)
  PROVE  ConnInv'
<1>0. SockOK /\ TransOK /\ t \in Threads
  BY Zenon, Apart DEF ConnInv
<1>1. /\ stack[t] # <<>> /\ Top(t).at \in {"poll", "request", "probePing"}
      /\ UNCHANGED <<sock, prefs, beat, ctx, opens, kind, tstate, ws, handlers>> /\ signal' = signal
  BY Zenon DEF Poll, Answer, RequestFail, EmptyAnswer, ProbePing, At, Top, env, trans
<1>2. /\ Top(t).at \in OwnLabels
      /\ Top(t).at \notin {"tOnOpen", "read", "reading", "tOnClose"}
  BY Zenon, <1>1 DEF OwnLabels
<1>3. kind[t] # Nil /\ (Top(t).at \in PollLabels => kind[t] = "polling")
  BY Zenon, <1>0, <1>1, <1>2, TopKnown DEF FrameInv
<1>4. New(t, F("tError", t)) /\ (kind[t] = "polling" => New(t, F("request", t)))
  BY Zenon, <1>0, <1>3, NewFrame
<1>5. ASSUME NEW ps \in PacketSeqs, kind[t] = "polling" PROVE New(t, Frame("dispatch", t, ps, 0))
  <2>1. /\ "dispatch" \in Labels /\ "dispatch" \notin OtherLabels /\ "dispatch" \notin ProbeLabels
        /\ "dispatch" \notin UpLabels \cup {"dial", "install", "start", "pausing", "drain"}
        /\ "dispatch" # "cancel" /\ "dispatch" # "tOnOpen" /\ "dispatch" # "signal"
    BY Zenon DEF Labels, OtherLabels, ProbeLabels, UpLabels
  <2>2. t \in Trans \cup {Nil} /\ 0 \in Nat
    OBVIOUS
  <2> QED
    BY ZenonT(30), <1>0, <1>3, <1>5, <2>1, <2>2, NewPlain
<1>6. \E fs : Good(t, fs) /\ Then(t, fs)
  <2>1. CASE Answer(t)
    <3>1. PICK p \in {"open", "ping", "message", "close"}, q \in {"open", "ping", "message", "close"},
               n \in 1..2 : Then(t, <<Frame("dispatch", t, SubSeq(<<p, q>>, 1, n), 0)>>)
      BY Zenon, <2>1 DEF Answer
    <3>2. kind[t] = "polling"
      BY Zenon, <1>3, <2>1 DEF Answer, At, Top, PollLabels
    <3>3. New(t, Frame("dispatch", t, SubSeq(<<p, q>>, 1, n), 0))
      BY Zenon, <1>5, <3>2, AnswerSeq
    <3> QED
      BY Zenon, <3>1, <3>3, Goods
  <2>2. CASE Poll(t)
    <3>1. kind[t] = "polling"
      BY Zenon, <1>3, <2>2 DEF Poll, At, Top, PollLabels
    <3> QED
      BY Zenon, <1>4, <2>2, <3>1, Goods DEF Poll
  <2>3. CASE RequestFail(t) \/ EmptyAnswer(t) \/ ProbePing(t)
    BY Zenon, <1>4, <2>3, Goods DEF RequestFail, EmptyAnswer, ProbePing
  <2> QED
    BY Zenon, <2>1, <2>2, <2>3
<1>7. pollMu' \in [Trans -> Threads \cup {Nil}]
  <2>1. pollMu' = pollMu \/ pollMu' = [pollMu EXCEPT ![t] = t] \/ pollMu' = [pollMu EXCEPT ![t] = Nil]
    BY Zenon DEF Poll, Answer, RequestFail, EmptyAnswer, ProbePing, Release, trans
  <2> QED
    BY Zenon, <1>0, <2>1 DEF TransOK
<1>8. signal' \in [Trans -> {"ok", "err", Nil}]
  BY Zenon, <1>0, <1>1 DEF TransOK
<1> QED
  BY Zenon, <1>0, <1>1, <1>2, <1>6, <1>7, <1>8, LockStep

\* The packets of an answer, one by one.
LEMMA DispatchConn ==
  ASSUME ConnInv, NEW t \in Trans, Dispatch(t)
  PROVE  ConnInv'
<1> DEFINE f == Top(t)
           p == Head(f.ps)
           event == CASE p = "open" /\ tstate[t] = "opening" -> <<F("tOnOpen", t)>>
                      [] p = "close" /\ tstate[t] # "closed" -> <<F("tOnClose", t)>>
                      [] OTHER                               -> <<>>
<1>0. SockOK /\ TransOK /\ t \in Threads
  BY Zenon, Apart DEF ConnInv
<1>1. /\ stack[t] # <<>> /\ f.at = "dispatch" /\ UNCHANGED <<sock, prefs, beat, ctx, trans, opens>>
      /\ Then(t, CASE f.ps # <<>> -> event \o <<Frame("tPacket", t, <<p>>, 0),
                                                [f EXCEPT !.ps = Tail(f.ps)]>>
                   [] f.ps = <<>> /\ tstate[t] = "open" -> <<F("poll", t)>>
                   [] OTHER -> <<>>)
  BY Zenon DEF Dispatch, At, Top, env
<1>2. /\ f.at \in OwnLabels /\ f.at \notin ProbeLabels
      /\ f.at \notin {"tOnOpen", "read", "reading", "tOnClose"}
  BY Zenon, <1>1 DEF OwnLabels, ProbeLabels
<1>3. /\ f \in AnyFrame /\ f.x = t /\ kind[t] # Nil /\ f.ps \in PacketSeqs /\ f.n \in Nat
      /\ FrameInv(t, f)
  BY Zenon, <1>0, <1>1, <1>2, TopKnown
<1>7. kind[t] = "polling"
  BY Zenon, <1>1, <1>3 DEF FrameInv, PollLabels
<1>4. New(t, F("tOnClose", t)) /\ New(t, F("poll", t))
  BY Zenon, <1>0, <1>3, <1>7, NewFrame
<1>5. kind[t] = "polling" => New(t, F("tOnOpen", t))
  <2>1. /\ "tOnOpen" \in Labels /\ "tOnOpen" \notin OtherLabels /\ "tOnOpen" \notin ProbeLabels
        /\ "tOnOpen" \notin UpLabels \cup {"dial", "install", "start", "pausing", "drain"}
        /\ "tOnOpen" # "cancel" /\ "tOnOpen" # "signal" /\ "tOnOpen" \notin PollLabels
    BY Zenon DEF Labels, OtherLabels, ProbeLabels, UpLabels, PollLabels
  <2>2. t \in Trans \cup {Nil} /\ 0 \in Nat
    OBVIOUS
  <2> HIDE DEF f
  <2> QED
    BY ZenonT(30), <1>0, <1>3, <2>1, <2>2, EmptySeq, NewPlain DEF F
<1>6. ASSUME f.ps # <<>>
      PROVE  New(t, Frame("tPacket", t, <<p>>, 0)) /\ New(t, [f EXCEPT !.ps = Tail(f.ps)])
  <2>1. <<p>> \in PacketSeqs /\ Tail(f.ps) \in PacketSeqs
    <3>1. f.ps \in Seq(Packets) /\ f.ps # <<>>
      BY <1>3, <1>6 DEF PacketSeqs
    <3> HIDE DEF f
    <3>2. p \in Packets /\ Tail(f.ps) \in Seq(Packets)
      BY ZenonT(30), <3>1, ElemsSplit
    <3> HIDE DEF p
    <3> QED
      BY <3>2 DEF PacketSeqs
  <2>2. \A at \in {"tPacket", "dispatch"} :
        /\ at \in Labels /\ at \notin OtherLabels /\ at \notin ProbeLabels
        /\ at \notin UpLabels \cup {"dial", "install", "start", "pausing", "drain"}
        /\ at # "cancel" /\ at # "tOnOpen" /\ at # "signal"
    <3>1. ASSUME NEW at \in {"tPacket", "dispatch"} PROVE at \in Labels /\ at \notin OtherLabels
      BY Zenon DEF Labels, OtherLabels
    <3>2. ASSUME NEW at \in {"tPacket", "dispatch"}
          PROVE  /\ at \notin ProbeLabels /\ at # "cancel" /\ at # "tOnOpen" /\ at # "signal"
                 /\ at \notin UpLabels \cup {"dial", "install", "start", "pausing", "drain"}
      BY Zenon DEF ProbeLabels, UpLabels
    <3> QED
      BY Zenon, <3>1, <3>2
  <2>3. t \in Trans \cup {Nil} /\ 0 \in Nat
    OBVIOUS
  <2>4. [f EXCEPT !.ps = Tail(f.ps)] = Frame("dispatch", t, Tail(f.ps), f.n)
    BY Zenon, <1>1, <1>3, FrameExcept
  <2> HIDE DEF f, p
  <2>5. New(t, Frame("tPacket", t, <<p>>, 0))
    BY ZenonT(30), <1>0, <1>3, <1>7, <2>1, <2>2, <2>3, NewPlain
  <2>6. New(t, Frame("dispatch", t, Tail(f.ps), f.n))
    BY ZenonT(30), <1>0, <1>3, <1>7, <2>1, <2>2, <2>3, NewPlain
  <2> QED
    BY Zenon, <2>4, <2>5, <2>6
<1>8. Good(t, event)
  <2>1. event \in {<<F("tOnOpen", t)>>, <<F("tOnClose", t)>>, <<>>}
    <3> HIDE DEF p
    <3> QED
      OBVIOUS
  <2> HIDE DEF event
  <2> QED
    BY Zenon, <1>4, <1>5, <1>7, <2>1, Goods
<1>9. \E fs : Good(t, fs) /\ Then(t, fs)
  <2> HIDE DEF event, p, f
  <2>1. CASE f.ps # <<>>
    <3>1. Then(t, event \o <<Frame("tPacket", t, <<p>>, 0), [f EXCEPT !.ps = Tail(f.ps)]>>)
      BY <1>1, <2>1
    <3>2. Good(t, <<Frame("tPacket", t, <<p>>, 0), [f EXCEPT !.ps = Tail(f.ps)]>>)
      BY Zenon, <1>6, <2>1, Goods
    <3> QED
      BY Zenon, <1>8, <3>1, <3>2, Goods
  <2>2. CASE f.ps = <<>> /\ tstate[t] = "open"
    <3>1. Then(t, <<F("poll", t)>>)
      BY <1>1, <2>2
    <3> QED
      BY Zenon, <1>4, <3>1, Goods
  <2>3. CASE f.ps = <<>> /\ tstate[t] # "open"
    <3>1. Then(t, <<>>)
      BY <1>1, <2>3
    <3> QED
      BY Zenon, <3>1, Goods
  <2> QED
    BY Zenon, <2>1, <2>2, <2>3
<1> QED
  BY Zenon, <1>0, <1>1, <1>2, <1>9, SameStep

\* A step of the read loop changes nothing but its stack, and leaves the loop or its end there
\* unless the transport is closed.
LEMMA LoopStep ==
  ASSUME ConnInv, NEW t \in Trans, stack[t] # <<>>, Top(t).at # "tOnOpen",
         NEW fs, Good(t, fs), Then(t, fs), UNCHANGED <<sock, prefs, beat, ctx, trans, opens>>,
         \/ t \notin ws \/ tstate[t] = "closed"
         \/ \E f \in Elems(fs) : LoopFrame(t, f)
  PROVE  ConnInv'
<1>0. t \in Threads /\ StackOK /\ fs \in Seq(AnyFrame)
  BY Zenon, Apart DEF ConnInv, Good
<1>1. Quiet(t)
  BY Zenon, <1>0, ThenQuiet
<1>2. UNCHANGED <<kind, tstate, ws, handlers, pollMu, signal, runOf, transport>> /\ config' = config
  BY Zenon DEF trans, ctx, sock, Then
<1>3. SockOK' /\ TransOK' /\ KindOK'
  <2>1. SockOK'
    BY Zenon, <1>2, SockSame DEF ConnInv, ctx
  <2> QED
    BY Zenon, <1>2, <2>1 DEF ConnInv, TransOK, KindOK, MaxOpens
<1>4. Frames(t)' = Elems(fs) \cup Under(t)
  BY Zenon, <1>0, ThenStack
<1>5. t \in ws /\ tstate[t] \in {"opening", "open"} => Loops(t)'
  BY Zenon, <1>4 DEF Loops, LoopFrame
<1>6. t \in ws' => Guard(t)'
  BY Zenon, <1>0, <1>1, <1>2, <1>5, GuardKept
<1> QED
  BY Zenon, <1>0, <1>1, <1>2, <1>3, <1>6, QuietStep DEF Keeps

\* The read loop of a connection.
LEMMA ReadConn ==
  ASSUME ConnInv, NEW t \in Trans, Read(t) \/ Receive(t) \/ ReadFail(t) \/ Garbled(t)
  PROVE  ConnInv'
<1>0. SockOK /\ t \in Threads
  BY Zenon, Apart DEF ConnInv
<1>1. /\ stack[t] # <<>> /\ Top(t).at \in {"read", "reading"}
      /\ UNCHANGED <<sock, prefs, beat, ctx, trans, opens>>
  BY Zenon DEF Read, Receive, ReadFail, Garbled, At, Top, env
<1>2. Top(t).at \in OwnLabels /\ Top(t).at # "tOnOpen"
  BY Zenon, <1>1 DEF OwnLabels
<1>3. kind[t] # Nil
  BY Zenon, <1>0, <1>1, <1>2, TopKnown
<1>4. "read" \notin PollLabels /\ "reading" \notin PollLabels
  BY Zenon DEF PollLabels
<1>5. /\ New(t, F("tError", t)) /\ New(t, F("tOnClose", t)) /\ New(t, F("read", t))
      /\ New(t, F("reading", t))
  BY Zenon, <1>0, <1>3, <1>4, NewFrame
<1>6. /\ LoopFrame(t, F("tOnClose", t)) /\ LoopFrame(t, F("read", t)) /\ LoopFrame(t, F("reading", t))
  BY DEF LoopFrame, F, Frame
<1>7. ASSUME NEW a, NEW b
      PROVE  /\ LoopFrame(t, b) => \E f \in Elems(<<a, b>>) : LoopFrame(t, f)
             /\ LoopFrame(t, a) => \E f \in Elems(<<a>>) : LoopFrame(t, f)
  <2>1. Elems(<<a, b>>) = {a, b} /\ Elems(<<a>>) = {a}
    BY Zenon, Elems1, Elems2
  <2> QED
    BY Zenon, <2>1
<1>8. \E fs : /\ Good(t, fs) /\ Then(t, fs)
              /\ \/ t \notin ws \/ tstate[t] = "closed"
                 \/ \E f \in Elems(fs) : LoopFrame(t, f)
  <2>1. CASE Read(t)
    <3>1. CASE t \in ws /\ tstate[t] \notin {"closing", "closed"}
      <4>1. Then(t, <<F("reading", t)>>)
        BY Zenon, <2>1, <3>1 DEF Read
      <4> QED
        BY Zenon, <1>5, <1>6, <1>7, <4>1, Goods
    <3>2. CASE ~(t \in ws /\ tstate[t] \notin {"closing", "closed"})
      <4>1. Then(t, <<>>)
        BY Zenon, <2>1, <3>2 DEF Read
      <4>2. t \in ws => tstate[t] = "closed"
        BY Zenon, <3>2 DEF ConnInv, Guarded, Guard, KindOK, Connections
      <4> QED
        BY Zenon, <4>1, <4>2, Goods
    <3> QED
      BY Zenon, <3>1, <3>2
  <2>2. CASE Receive(t)
    <3>1. PICK p \in {"open", "pong", "ping", "message", "close"} :
                 Then(t, <<Frame("tPacket", t, <<p>>, 0),
                           F(IF p = "close" THEN "tOnClose" ELSE "read", t)>>)
      BY Zenon, <2>2 DEF Receive
    <3>2. <<p>> \in PacketSeqs
      <4>1. p \in Packets
        BY Zenon DEF Packets, PacketNames
      <4> QED
        BY <4>1 DEF PacketSeqs
    <3>3. New(t, Frame("tPacket", t, <<p>>, 0))
      <4>1. /\ "tPacket" \in Labels /\ "tPacket" \notin OtherLabels /\ "tPacket" \notin ProbeLabels
            /\ "tPacket" \notin UpLabels \cup {"dial", "install", "start", "pausing", "drain"}
            /\ "tPacket" # "cancel" /\ "tPacket" # "tOnOpen" /\ "tPacket" # "signal"
            /\ "tPacket" \notin PollLabels
        BY Zenon DEF Labels, OtherLabels, ProbeLabels, UpLabels, PollLabels
      <4>2. t \in Trans \cup {Nil} /\ 0 \in Nat
        OBVIOUS
      <4> QED
        BY ZenonT(30), <1>0, <1>3, <3>2, <4>1, <4>2, NewPlain
    <3>4. F(IF p = "close" THEN "tOnClose" ELSE "read", t) \in {F("tOnClose", t), F("read", t)}
      BY Zenon
    <3> QED
      BY Zenon, <1>5, <1>6, <1>7, <3>1, <3>3, <3>4, Goods
  <2>3. CASE ReadFail(t)
    <3>1. Then(t, <<F("tOnClose", t)>>) \/ Then(t, <<F("tError", t), F("tOnClose", t)>>)
      BY Zenon, <2>3 DEF ReadFail
    <3> QED
      BY Zenon, <1>5, <1>6, <1>7, <3>1, Goods
  <2>4. CASE Garbled(t)
    <3>1. Then(t, <<F("tError", t), F("read", t)>>)
      BY Zenon, <2>4 DEF Garbled
    <3> QED
      BY Zenon, <1>5, <1>6, <1>7, <3>1, Goods
  <2> QED
    BY Zenon, <2>1, <2>2, <2>3, <2>4
<1> QED
  BY Zenon, <1>1, <1>2, <1>8, LoopStep

\* A connection is dialled, and opens.
LEMMA DialConn ==
  ASSUME ConnInv, NEW t \in Trans, Dial(t) \/ DialFail(t) \/ WriteOpenFail(t) \/ TOnOpen(t)
  PROVE  ConnInv'
<1>0. SockOK /\ TransOK /\ StackOK /\ t \in Threads
  BY Zenon, Apart DEF ConnInv
<1>1. /\ stack[t] # <<>> /\ Top(t).at \in {"dial", "tOnOpen"}
      /\ UNCHANGED <<sock, prefs, beat, ctx, opens, kind, handlers, pollMu, signal>>
      /\ \E fs : Then(t, fs)
  BY Zenon DEF Dial, DialFail, WriteOpenFail, TOnOpen, At, Top, env
<1>2. Top(t).at \in OwnLabels
  BY Zenon, <1>1 DEF OwnLabels
<1>3. kind[t] # Nil /\ Top(t) \in Frames(t) /\ FrameInv(t, Top(t))
  BY Zenon, <1>0, <1>1, <1>2, TopKnown
<1>4. UNCHANGED <<runOf, transport>> /\ config' = config
  BY Zenon, <1>1 DEF ctx, sock, Then
<1>5. SockOK'
  BY Zenon, <1>0, <1>1, <1>4, SockSame DEF ctx
<1>6. "read" \notin PollLabels /\ "probePing" \notin PollLabels
  BY Zenon DEF PollLabels
<1>7. /\ New(t, F("tError", t)) /\ New(t, F("tOnClose", t)) /\ New(t, F("read", t))
      /\ New(t, F("probePing", t))
  BY Zenon, <1>0, <1>3, <1>6, NewFrame
<1>8. LoopFrame(t, F("tOnClose", t)) /\ LoopFrame(t, F("read", t)) /\ F("tOnOpen", t).at = "tOnOpen"
  BY DEF LoopFrame, F, Frame
<1>9. CASE Top(t).at = "dial"
  <2>1. /\ t \notin ws /\ kind[t] \in Connections
        /\ \A g \in Frames(t) : g.at # "tOnOpen"
    BY Zenon, <1>0, <1>3, <1>9 DEF ConnInv, DialOK, FrameInv
  <2>2. New(t, F("tOnOpen", t))
    <3>1. /\ "tOnOpen" \in Labels /\ "tOnOpen" \notin OtherLabels /\ "tOnOpen" \notin ProbeLabels
          /\ "tOnOpen" \notin UpLabels \cup {"dial", "install", "start", "pausing", "drain"}
          /\ "tOnOpen" # "cancel" /\ "tOnOpen" # "signal" /\ "tOnOpen" \notin PollLabels
      BY Zenon DEF Labels, OtherLabels, ProbeLabels, UpLabels, PollLabels
    <3>2. t \in Trans \cup {Nil} /\ 0 \in Nat
      OBVIOUS
    <3> QED
      BY ZenonT(30), <1>0, <1>3, <2>1, <3>1, <3>2, EmptySeq, NewPlain DEF F
  <2>3. CASE Dial(t)
    <3>1. Then(t, <<F("tOnOpen", t), F("read", t)>>) /\ ws' = ws \cup {t} /\ tstate' = tstate
      BY Zenon, <2>3 DEF Dial
    <3>2. Quiet(t)
      BY Zenon, <1>0, <1>1, <1>7, <2>2, <3>1, Goods, ThenQuiet
    <3>3. /\ stack'[t] # <<>> /\ Top(t)' = F("tOnOpen", t)
          /\ Frames(t)' = {F("tOnOpen", t), F("read", t)} \cup Under(t)
      BY Zenon, <1>0, <1>1, <1>7, <2>2, <3>1, Push2 DEF New
    <3>4. TransOK' /\ KindOK'
      BY Zenon, <1>0, <1>1, <1>4, <3>1 DEF TransOK, ConnInv, KindOK, MaxOpens
    <3>5. Guard(t)'
      <4>1. Loops(t)'
        BY Zenon, <1>8, <3>3 DEF Loops, LoopFrame
      <4>2. At(t, "tOnOpen")'
        BY Zenon, <1>8, <3>3 DEF At, Top
      <4> QED
        BY Zenon, <1>1, <2>1, <4>1, <4>2 DEF Guard
    <3> QED
      BY Zenon, <1>0, <1>1, <1>3, <1>5, <2>1, <3>1, <3>2, <3>4, <3>5, QuietStep DEF Keeps
  <2>4. CASE DialFail(t)
    <3>1. /\ Then(t, <<F("tError", t)>>) /\ ws' = ws
          /\ tstate' = [tstate EXCEPT ![t] = "closed"]
      BY Zenon, <2>4 DEF DialFail
    <3>2. Quiet(t)
      BY Zenon, <1>0, <1>1, <1>7, <3>1, Goods, ThenQuiet
    <3>3. /\ tstate' \in [Trans -> TStates] /\ tstate'[t] = "closed"
          /\ \A y \in Trans : y # t => tstate'[y] = tstate[y]
      <4>1. tstate \in [Trans -> TStates] /\ "closed" \in TStates
        BY Zenon, <1>0 DEF TransOK, TStates
      <4> QED
        BY <3>1, <4>1
    <3>4. TransOK' /\ KindOK'
      BY Zenon, <1>0, <1>1, <1>4, <3>1, <3>3 DEF TransOK, ConnInv, KindOK, MaxOpens
    <3>5. \A y \in ws : tstate'[y] = tstate[y]
      BY Zenon, <1>0, <2>1, <3>3 DEF TransOK
    <3> QED
      BY Zenon, <1>0, <1>1, <1>5, <2>1, <3>1, <3>2, <3>4, <3>5, QuietStep DEF Keeps
  <2>5. CASE WriteOpenFail(t)
    <3>1. /\ Then(t, <<F("tError", t), F("tOnClose", t)>>) /\ ws' = ws \cup {t} /\ tstate' = tstate
          /\ kind[t] = "webtransport"
      BY Zenon, <2>5 DEF WriteOpenFail
    <3>2. Quiet(t)
      BY Zenon, <1>0, <1>1, <1>7, <3>1, Goods, ThenQuiet
    <3>3. /\ Frames(t)' = {F("tError", t), F("tOnClose", t)} \cup Under(t)
          /\ Under(t) \subseteq Frames(t)
      BY Zenon, <1>0, <1>1, <1>7, <3>1, Push2, TopFrame DEF New
    <3>4. TransOK' /\ KindOK'
      BY Zenon, <1>0, <1>1, <1>4, <3>1 DEF TransOK, ConnInv, KindOK, MaxOpens
    <3>5. Guard(t)'
      <4>1. Loops(t)'
        BY Zenon, <1>8, <3>3 DEF Loops, LoopFrame
      <4>2. F("tError", t).at # "tOnOpen" /\ F("tOnClose", t).at # "tOnOpen"
        BY DEF F, Frame
      <4>3. \A f \in Frames(t)' : f.at # "tOnOpen"
        BY Zenon, <2>1, <3>3, <4>2
      <4>4. tstate[t] \in {"opening", "open", "closed"}
        BY Zenon, <2>1 DEF ConnInv, KindOK, Connections
      <4> QED
        BY Zenon, <1>1, <2>1, <3>1, <4>1, <4>3, <4>4 DEF Guard
    <3> QED
      BY Zenon, <1>0, <1>1, <1>3, <1>5, <2>1, <3>1, <3>2, <3>4, <3>5, QuietStep DEF Keeps
  <2> QED
    BY Zenon, <1>9, <2>3, <2>4, <2>5 DEF TOnOpen, At, Top
<1>10. CASE Top(t).at = "tOnOpen"
  <2>1. /\ ws' = ws /\ tstate' = [tstate EXCEPT ![t] = "open"]
        /\ Then(t, Handler(handlers[t].packet, <<>>, <<F("probePing", t)>>))
    BY Zenon, <1>10 DEF TOnOpen, Dial, DialFail, WriteOpenFail, At, Top
  <2>2. Good(t, Handler(handlers[t].packet, <<>>, <<F("probePing", t)>>))
    BY Zenon, <1>7, Goods, HandlerGood
  <2>3. Quiet(t)
    BY Zenon, <1>0, <1>1, <2>1, <2>2, ThenQuiet
  <2>4. /\ tstate' \in [Trans -> TStates] /\ tstate'[t] = "open"
        /\ \A y \in Trans : y # t => tstate'[y] = tstate[y]
    <3>1. tstate \in [Trans -> TStates] /\ "open" \in TStates
      BY Zenon, <1>0 DEF TransOK, TStates
    <3> QED
      BY <2>1, <3>1
  <2>5. TransOK' /\ KindOK'
    BY Zenon, <1>0, <1>1, <1>4, <2>1, <2>4 DEF TransOK, ConnInv, KindOK, MaxOpens
  <2>6. t \in ws => Guard(t)'
    <3> SUFFICES ASSUME t \in ws PROVE Guard(t)'
      OBVIOUS
    <3>1. Guard(t) /\ Loops(t)
      BY Zenon, <1>3, <1>10 DEF ConnInv, Guarded, Guard
    <3>2. Frames(t) = {Top(t)} \cup Under(t) /\ Under(t) \subseteq Frames(t)'
      BY Zenon, <1>0, <1>1, <2>3, TopFrame DEF Quiet
    <3>3. Loops(t)'
      BY Zenon, <1>10, <3>1, <3>2 DEF Loops, LoopFrame
    <3> QED
      BY Zenon, <1>1, <2>4, <3>1, <3>3 DEF Guard
  <2>7. \A y \in ws \ {t} : tstate'[y] = tstate[y]
    BY Zenon, <1>0, <2>4 DEF TransOK
  <2> QED
    BY Zenon, <1>0, <1>1, <1>5, <2>1, <2>3, <2>5, <2>6, <2>7, QuietStep DEF Keeps
<1> QED
  BY Zenon, <1>1, <1>9, <1>10

-----------------------------------------------------------------------------
(* The steps of an upgrade.                                                 *)

\* The frames of an upgrade are on the goroutine of a connection.
LEMMA UpFrames ==
  ASSUME ConnInv, NEW t \in Trans, stack[t] # <<>>, Top(t).at \in UpLabels
  PROVE  /\ kind[t] \in Connections /\ kind[t] # Nil
         /\ \A at \in UpLabels \ {"pausing", "drain"} : New(t, [Top(t) EXCEPT !.at = at])
         /\ Top(t).x # Nil /\ kind[Top(t).x] = "polling" =>
              \A at \in UpLabels : New(t, [Top(t) EXCEPT !.at = at])
<1> DEFINE f == Top(t)
<1>0. SockOK /\ t \in Threads
  BY Zenon, Apart DEF ConnInv
<1>1. f.at \notin ProbeLabels
  BY Zenon DEF UpLabels, ProbeLabels
<1>2. /\ f \in AnyFrame /\ f.x \in Trans \cup {Nil} /\ f.ps \in PacketSeqs /\ f.n \in Nat
      /\ f.x # Nil => kind[f.x] # Nil
      /\ FrameInv(t, f)
  BY Zenon, <1>0, <1>1, TopKnown
<1>3. kind[t] \in Connections /\ kind[t] # Nil
  BY Zenon, <1>2, Apart DEF FrameInv
<1>4. ASSUME NEW at \in UpLabels,
             at \in {"pausing", "drain"} => f.x # Nil /\ kind[f.x] = "polling"
      PROVE  New(t, [f EXCEPT !.at = at])
  <2> HIDE DEF f
  <2>1. [f EXCEPT !.at = at] = Frame(at, f.x, f.ps, f.n)
    BY Zenon, <1>2, FrameExcept
  <2>2. New(t, Frame(at, f.x, f.ps, f.n))
    BY ZenonT(30), <1>0, <1>2, <1>3, <1>4, NewUp
  <2> QED
    BY Zenon, <2>1, <2>2
<1> QED
  BY Zenon, <1>3, <1>4

\* The lifecycle handlers of a transport change, its packet handler does not.
LEMMA LifecycleOK ==
  ASSUME NEW h \in Handlers
  PROVE  /\ Lifecycle(h, "nil") \in Handlers /\ Lifecycle(h, "nil").packet = h.packet
         /\ Lifecycle(h, "socket") \in Handlers /\ Lifecycle(h, "socket").packet = h.packet
  BY DEF Lifecycle, Handlers, Owners

\* The upgrade begins: flushes are suppressed and the old transport's handlers detached.
LEMMA UpgradeBeginConn ==
  ASSUME ConnInv, NEW t \in Trans, UpgradeBegin(t)
  PROVE  ConnInv'
<1>0. SockOK /\ TransOK /\ t \in Threads
  BY Zenon, Apart DEF ConnInv
<1>1. /\ stack[t] # <<>> /\ Top(t).at = "upgradeBegin" /\ (\E fs : Then(t, fs))
      /\ UNCHANGED <<state, transport, writeBuffer, flushing, prefs, beat, ctx, opens>>
      /\ UNCHANGED <<kind, tstate, ws, pollMu, signal>>
  BY Zenon DEF UpgradeBegin, At, Top, env
<1>2. Top(t).at \in UpLabels /\ Top(t).at \notin {"tOnOpen", "read", "reading", "tOnClose"}
  BY Zenon, <1>1 DEF UpLabels
<1>3. kind[t] \in Connections /\ kind[t] # Nil
  BY Zenon, <1>1, <1>2, UpFrames
<1>4. /\ transport \in Trans \cup {Nil}
      /\ transport # Nil => transport \in Trans /\ kind[transport] # Nil
  BY Zenon, <1>0 DEF SockOK, ConnInv, KindOK
<1>5. Good(t, ProbeEnd(t))
  BY Zenon, <1>0, <1>3, EndGood
<1>6. Good(t, <<F("upgradeWait", transport)>>)
  <2>1. "upgradeWait" \in UpLabels /\ "upgradeWait" \notin {"pausing", "drain"} /\ 0 \in Nat
    BY DEF UpLabels
  <2>2. New(t, Frame("upgradeWait", transport, <<>>, 0))
    BY ZenonT(30), <1>0, <1>3, <1>4, <2>1, EmptySeq, NewUp
  <2> QED
    BY Zenon, <2>2, Goods DEF F
<1>7. \E fs : Good(t, fs) /\ Then(t, fs)
  BY Zenon, <1>5, <1>6 DEF UpgradeBegin
<1>8. upgrading' \in BOOLEAN
  BY Zenon, <1>0 DEF UpgradeBegin, SockOK
<1>9. SockOK'
  BY Zenon, <1>0, <1>1, <1>8 DEF SockOK, prefs, beat, ctx, MaxOpens, Then
<1>10. CASE handlers' = handlers
  BY Zenon, <1>0, <1>1, <1>2, <1>7, <1>9, <1>10, SockStep DEF trans, ctx
<1>11. CASE handlers' # handlers
  <2>1. transport # Nil /\ handlers' = [handlers EXCEPT ![transport] = Lifecycle(handlers[transport], "nil")]
    BY Zenon, <1>11 DEF UpgradeBegin
  <2>2. handlers[transport] \in Handlers
    BY Zenon, <1>0, <1>4, <2>1 DEF TransOK
  <2>3. /\ Lifecycle(handlers[transport], "nil") \in Handlers
        /\ Lifecycle(handlers[transport], "nil").packet = handlers[transport].packet
    BY <2>2, LifecycleOK
  <2> QED
    BY Zenon, <1>0, <1>1, <1>2, <1>4, <1>7, <1>9, <2>1, <2>3, HandlersStep DEF ctx
<1> QED
  BY Zenon, <1>10, <1>11

\* The old transport's handlers are restored, or the new one's are bound.
LEMMA BindConn ==
  ASSUME ConnInv, NEW t \in Trans, Restore(t) \/ Bind(t)
  PROVE  ConnInv'
<1> DEFINE old == Top(t).x
<1>0. SockOK /\ TransOK /\ t \in Threads
  BY Zenon, Apart DEF ConnInv
<1>1. /\ stack[t] # <<>> /\ Top(t).at \in {"restore", "bind"} /\ Then(t, <<>>)
      /\ UNCHANGED <<sock, prefs, beat, ctx, opens, kind, tstate, ws, pollMu, signal>>
  BY Zenon DEF Restore, Bind, At, Top, env
<1>2. Top(t).at \in UpLabels /\ Top(t).at \notin {"tOnOpen", "read", "reading", "tOnClose"}
  BY Zenon, <1>1 DEF UpLabels
<1>3. kind[t] \in Connections /\ kind[t] # Nil /\ (old # Nil => old \in Trans /\ kind[old] # Nil)
  BY Zenon, <1>0, <1>1, <1>2, UpFrames, TopKnown
<1>4. SockOK' /\ transport' = transport /\ runOf' = runOf
  BY Zenon, <1>0, <1>1, SockSame DEF sock, ctx, Then
<1>5. CASE Restore(t) /\ old = Nil
  <2>1. handlers' = handlers
    BY Zenon, <1>5 DEF Restore
  <2> QED
    BY Zenon, <1>0, <1>1, <1>2, <2>1, Goods, SameStep DEF trans
<1>6. CASE Restore(t) /\ old # Nil
  <2>1. handlers' = [handlers EXCEPT ![old] = Lifecycle(handlers[old], "socket")]
    BY Zenon, <1>6 DEF Restore
  <2>2. handlers[old] \in Handlers
    BY Zenon, <1>0, <1>3, <1>6 DEF TransOK
  <2> HIDE DEF old
  <2>3. /\ Lifecycle(handlers[old], "socket") \in Handlers
        /\ Lifecycle(handlers[old], "socket").packet = handlers[old].packet
    BY <2>2, LifecycleOK
  <2> QED
    BY Zenon, <1>0, <1>1, <1>2, <1>3, <1>4, <1>6, <2>1, <2>3, Goods, HandlersStep
<1>7. CASE Bind(t)
  <2>1. handlers' = [handlers EXCEPT ![t] = Bound("socket")]
    BY Zenon, <1>7 DEF Bind
  <2>2. Bound("socket") \in Handlers /\ Bound("socket").packet # "probe"
    BY DEF Bound, Handlers, Owners
  <2> QED
    BY Zenon, <1>0, <1>1, <1>2, <1>3, <1>4, <2>1, <2>2, Goods, HandlersStep
<1> QED
  BY Zenon, <1>5, <1>6, <1>7

\* The old transport pauses.
LEMMA PauseConn ==
  ASSUME ConnInv, NEW t \in Trans, Pause(t) \/ Paused(t)
  PROVE  ConnInv'
<1> DEFINE f == Top(t)
<1>0. t \in Threads
  BY Zenon, Apart
<1>1. /\ stack[t] # <<>> /\ f.at \in {"pause", "pausing"}
      /\ UNCHANGED <<sock, prefs, beat, ctx, opens, kind, ws, handlers, pollMu, signal>>
  BY Zenon DEF Pause, Paused, At, Top, env
<1>2. /\ f.at \in UpLabels /\ f.at \notin {"tOnOpen", "read", "reading", "tOnClose"}
      /\ f.at \notin ProbeLabels /\ (f.at = "pausing" => f.at \in OtherLabels)
  BY Zenon, <1>1 DEF UpLabels, ProbeLabels, OtherLabels
<1>3. /\ \A at \in UpLabels \ {"pausing", "drain"} : New(t, [f EXCEPT !.at = at])
      /\ f.x # Nil /\ kind[f.x] = "polling" => \A at \in UpLabels : New(t, [f EXCEPT !.at = at])
      /\ f.x # Nil => f.x \in Trans
      /\ f.at = "pausing" => f.x # Nil
      /\ FrameInv(t, f)
  BY Zenon, <1>0, <1>1, <1>2, UpFrames, TopKnown
<1>4. /\ "pausing" \in UpLabels /\ "drain" \in UpLabels
      /\ "adopt" \in UpLabels \ {"pausing", "drain"}
      /\ "pausing" \in TStates /\ "paused" \in TStates
  BY Zenon DEF UpLabels, TStates
<1>5. CASE Pause(t)
  <2>1. CASE f.x # Nil /\ kind[f.x] = "polling" /\ tstate[f.x] \in {"opening", "open"}
    <3>1. /\ Then(t, <<[f EXCEPT !.at = "pausing"]>>)
          /\ tstate' = [tstate EXCEPT ![f.x] = "pausing"]
      BY Zenon, <1>5, <2>1 DEF Pause
    <3>2. Good(t, <<[f EXCEPT !.at = "pausing"]>>)
      BY Zenon, <1>3, <1>4, <2>1, Goods
    <3> HIDE DEF f
    <3> QED
      BY Zenon, <1>0, <1>1, <1>2, <1>3, <1>4, <2>1, <3>1, <3>2, PollingStep DEF f
  <2>2. CASE ~(f.x # Nil /\ kind[f.x] = "polling" /\ tstate[f.x] \in {"opening", "open"})
    <3>1. Then(t, <<[f EXCEPT !.at = "adopt"]>>) /\ tstate' = tstate
      BY Zenon, <1>5, <2>2 DEF Pause
    <3>2. Good(t, <<[f EXCEPT !.at = "adopt"]>>)
      BY Zenon, <1>3, <1>4, Goods
    <3> QED
      BY Zenon, <1>0, <1>1, <1>2, <3>1, <3>2, SameStep DEF trans
  <2> QED
    BY Zenon, <2>1, <2>2
<1>6. CASE Paused(t)
  <2>1. /\ Then(t, <<[f EXCEPT !.at = "drain"]>>) /\ f.at = "pausing"
        /\ tstate' = [tstate EXCEPT ![f.x] = "paused"]
    BY Zenon, <1>6 DEF Paused, At, Top
  <2>2. f.x \in Trans /\ f.x # Nil /\ kind[f.x] = "polling"
    BY Zenon, <1>3, <2>1 DEF FrameInv
  <2>3. Good(t, <<[f EXCEPT !.at = "drain"]>>)
    BY Zenon, <1>3, <1>4, <2>2, Goods
  <2> QED
    BY Zenon, <1>0, <1>1, <1>2, <1>4, <2>1, <2>2, <2>3, PollingStep
<1> QED
  BY Zenon, <1>5, <1>6

\* The upgrade packet, the waits of an upgrade and its end.
LEMMA AdoptConn ==
  ASSUME ConnInv, NEW t \in Trans,
         UpgradeWait(t) \/ UpgradeSend(t) \/ UpgradeFail(t) \/ Drained(t) \/ Adopt(t)
  PROVE  ConnInv'
<1> DEFINE f == Top(t)
<1>0. SockOK /\ t \in Threads
  BY Zenon, Apart DEF ConnInv
<1>1. /\ stack[t] # <<>> /\ f.at \in {"upgradeWait", "upgradeSend", "drain", "adopt"}
      /\ UNCHANGED <<state, writeBuffer, flushing, transports, beat, ctx, trans, opens>>
      /\ transport' \in {transport, t} /\ upgrading' \in {upgrading, FALSE}
      /\ priorUpgrade' \in {priorUpgrade, kind[t]}
  BY Zenon DEF UpgradeWait, UpgradeSend, UpgradeFail, Drained, Adopt, At, Top, env, sock, prefs,
               UpgradingAfterFailure
<1>2. f.at \in UpLabels /\ f.at \notin {"tOnOpen", "read", "reading", "tOnClose"}
  BY Zenon, <1>1 DEF UpLabels
<1>3. /\ kind[t] \in Connections /\ kind[t] # Nil
      /\ \A at \in UpLabels \ {"pausing", "drain"} : New(t, [f EXCEPT !.at = at])
  BY Zenon, <1>0, <1>1, <1>2, UpFrames
<1>4. /\ New(t, [f EXCEPT !.at = "upgradeSend"]) /\ New(t, [f EXCEPT !.at = "pause"])
      /\ New(t, [f EXCEPT !.at = "restore"]) /\ New(t, [f EXCEPT !.at = "adopt"])
      /\ New(t, [f EXCEPT !.at = "bind"])
  <2>1. {"upgradeSend", "pause", "restore", "adopt", "bind"} \subseteq UpLabels \ {"pausing", "drain"}
    BY Zenon DEF UpLabels
  <2> HIDE DEF f
  <2> QED
    BY Zenon, <1>3, <2>1
<1>5. New(t, F("flush", Nil)) /\ Good(t, ProbeEnd(t))
  BY Zenon, <1>0, <1>3, NewFrame, EndGood
<1>6. New(t, Frame("signal", t, <<"ok">>, 0))
  <2>1. /\ "signal" \in Labels /\ "signal" \notin OwnLabels /\ "signal" \notin ProbeLabels
        /\ "signal" \notin UpLabels \cup {"dial", "install", "start", "pausing", "drain"}
        /\ "signal" # "cancel" /\ "signal" # "tOnOpen" /\ "signal" \notin PollLabels
    BY Zenon DEF Labels, OwnLabels, ProbeLabels, UpLabels, PollLabels
  <2>2. t \in Trans \cup {Nil} /\ 0 \in Nat
    OBVIOUS
  <2> HIDE DEF f
  <2> QED
    BY ZenonT(30), <1>0, <1>3, <2>1, <2>2, EmptySeq, NewPlain, Apart
<1>7. \E fs : Good(t, fs) /\ Then(t, fs)
  <2> HIDE DEF f
  <2>1. /\ Good(t, <<[f EXCEPT !.at = "upgradeSend"]>>) /\ Good(t, <<[f EXCEPT !.at = "pause"]>>)
        /\ Good(t, <<[f EXCEPT !.at = "adopt"]>>)
        /\ Good(t, <<[f EXCEPT !.at = "restore"], F("flush", Nil)>>)
        /\ Good(t, <<[f EXCEPT !.at = "bind"], F("flush", Nil), Frame("signal", t, <<"ok">>, 0)>>)
    BY Zenon, <1>4, <1>5, <1>6, Goods
  <2>2. Good(t, <<[f EXCEPT !.at = "restore"], F("flush", Nil)>> \o ProbeEnd(t))
    BY Zenon, <1>5, <2>1, Goods
  <2> QED
    BY Zenon, <1>5, <2>1, <2>2
       DEF UpgradeWait, UpgradeSend, UpgradeFail, Drained, Adopt, f
<1>8. SockOK'
  <2>1. transport' \in Trans \cup {Nil} /\ upgrading' \in BOOLEAN /\ priorUpgrade' \in Connections \cup {Nil}
    BY Zenon, <1>0, <1>1, <1>3 DEF SockOK
  <2> QED
    BY Zenon, <1>0, <1>1, <1>7, <2>1 DEF SockOK, beat, ctx, MaxOpens, Then
<1>9. transport' \notin {transport, Nil} => kind[transport'] # Nil
  BY Zenon, <1>1, <1>3
<1> QED
  BY Zenon, <1>0, <1>1, <1>2, <1>7, <1>8, <1>9, SockStep DEF ctx

-----------------------------------------------------------------------------
(* The steps that construct a transport or start a goroutine.               *)

\* What a frame says of transports goes on holding when another transport is constructed.
LEMMA FrameKept ==
  ASSUME config' = config, \A y \in Trans : kind[y] # Nil => kind'[y] = kind[y],
         NEW t \in Threads, NEW f \in AnyFrame, FrameInv(t, f)
  PROVE  FrameInv(t, f)'
<1>1. MaxOpens' = MaxOpens /\ Upgrades' = Upgrades
  BY Zenon DEF MaxOpens, Upgrades
<1>2. f.x \in Trans \cup {Nil}
  BY DEF AnyFrame
<1>3. "polling" # Nil /\ Nil \notin Connections
  BY Zenon, ClientAssumption, Apart DEF Kinds
<1>4. f.x # Nil => f.x \in Trans /\ kind[f.x] # Nil /\ kind'[f.x] = kind[f.x]
  BY Zenon, <1>2 DEF FrameInv
<1>5. t \in Trans /\ kind[t] # Nil => kind'[t] = kind[t]
  BY Zenon
<1>6. f.at \in OwnLabels => t \in Trans
  BY Zenon DEF FrameInv
<1>7. f.at \in PollLabels => f.at \in OwnLabels
  BY Zenon DEF PollLabels, OwnLabels
<1>8. f.at \in {"pausing", "drain"} => f.at \in OtherLabels
  BY Zenon DEF OtherLabels
<1> QED
  BY Zenon, <1>1, <1>3, <1>4, <1>5, <1>6, <1>7, <1>8 DEF FrameInv

\* The guard of a connection survives a step of its goroutine that neither reads nor opens.
LEMMA GuardRuns ==
  ASSUME ConnInv, NEW t \in Threads, t \in ws, kind'[t] = kind[t], tstate'[t] = tstate[t],
         stack[t] # <<>>, Top(t).at \notin {"tOnOpen", "read", "reading", "tOnClose"},
         NEW E, Frames(t)' = E \cup Under(t), \A f \in E : f.at # "tOnOpen"
  PROVE  Guard(t)'
<1>1. Guard(t) /\ Frames(t) = {Top(t)} \cup Under(t)
  BY Zenon, TopFrame DEF ConnInv, Guarded
<1>2. ~At(t, "tOnOpen")
  BY Zenon DEF At, Top
<1>3. Loops(t) => Loops(t)'
  BY Zenon, <1>1 DEF Loops, LoopFrame
<1>4. (\A f \in Frames(t) : f.at # "tOnOpen") => \A f \in Frames(t)' : f.at # "tOnOpen"
  BY Zenon, <1>1
<1> QED
  BY Zenon, <1>1, <1>2, <1>3, <1>4 DEF Guard

\* Goroutine t starts goroutine u.
LEMMA PairStep ==
  ASSUME ConnInv, NEW t \in Threads, NEW u \in Threads, stack[t] # <<>>, stack[u] = <<>>, u \notin ws,
         Top(t).at \notin {"tOnOpen", "read", "reading", "tOnClose"},
         NEW fs \in Seq(AnyFrame), NEW b \in AnyFrame, ThenGo(t, fs, u, <<b>>),
         \A f \in Elems(fs) : FrameInv(t, f)' /\ f.at \notin {"install", "start", "dial", "tOnOpen"},
         FrameInv(u, b)', b.at # "start",
         \A y \in Trans : kind[y] # Nil => kind'[y] = kind[y],
         \A y \in Trans : y # u => kind'[y] = kind[y] /\ tstate'[y] = tstate[y] /\ handlers'[y] = handlers[y],
         u \in Trans => kind'[u] # Nil, ws' = ws,
         \A v \in Threads \ {t} : \A g \in Frames(v) : g.at = "start" => g.x # u,
         SockOK', TransOK', KindOK'
  PROVE  ConnInv'
<1>1. /\ StackOK' /\ config' = config
      /\ \A v \in Threads \ {t, u} : stack'[v] = stack[v]
      /\ stack'[t] = fs \o Tail(stack[t]) /\ stack'[u] = <<b>>
      /\ Frames(t)' = Elems(fs) \cup Under(t)
      /\ Frames(u)' = {b} /\ Under(u)' = {} /\ Top(u)' = b
  <2>1. StackOK
    BY Zenon DEF ConnInv
  <2> QED
    BY ZenonT(30), <2>1, GoPush
<1>2. \A v \in Threads \ {t, u} : Frames(v)' = Frames(v) /\ Under(v)' = Under(v)
  BY Zenon, <1>1 DEF Frames, Under
<1>3. Under(t) \subseteq Frames(t) /\ \A f \in Under(t) : f.at \notin {"install", "start", "dial"}
  BY Zenon, TopFrame DEF ConnInv, HeadOnly
<1>4. Under(t)' \subseteq Frames(t)'
  <2>1. CASE stack'[t] = <<>>
    BY Zenon, <2>1 DEF Under
  <2>2. CASE stack'[t] # <<>>
    <3>1. stack'[t] \in Seq(AnyFrame)
      BY Zenon, <1>1 DEF StackOK
    <3>2. Elems(stack'[t]) = {Head(stack'[t])} \cup Elems(Tail(stack'[t]))
      BY ZenonT(30), <2>2, <3>1, ElemsSplit
    <3> QED
      BY Zenon, <2>2, <3>2 DEF Under, Frames
  <2> QED
    BY Zenon, <2>1, <2>2
<1>5. \A f \in Frames(t)' : f.at \notin {"install", "start", "dial"}
  BY Zenon, <1>1, <1>3
<1>6. FramesOK'
  <2>1. ASSUME NEW v \in Threads, NEW f \in Frames(v) PROVE FrameInv(v, f)'
    <3>1. f \in AnyFrame /\ FrameInv(v, f)
      BY Zenon, FrameTypes DEF ConnInv, FramesOK
    <3>2. config' = config
      BY Zenon, <1>1
    <3> QED
      BY ZenonT(30), <3>1, <3>2, FrameKept
  <2> QED
    BY Zenon, <1>1, <1>2, <1>3, <2>1 DEF FramesOK
<1>7. HeadOnly'
  BY Zenon, <1>1, <1>2, <1>4, <1>5 DEF HeadOnly, ConnInv
<1>8. Fresh'
  <2> SUFFICES ASSUME NEW y \in Trans, kind'[y] = Nil
               PROVE  stack'[y] = <<>> /\ y \notin ws' /\ handlers'[y] = Detached
    BY Zenon DEF Fresh
  <2>1. y # u /\ kind[y] = Nil /\ y \in Threads
    BY Zenon, Apart
  <2>2. stack[y] = <<>> /\ y \notin ws /\ handlers[y] = Detached
    BY Zenon, <2>1 DEF ConnInv, Fresh
  <2>3. y # t
    BY Zenon, <2>2
  <2> QED
    BY Zenon, <1>1, <2>1, <2>2, <2>3
<1>9. ASSUME NEW v \in Threads, NEW f \in Frames(v)', f.at = "start"
      PROVE  v # t /\ v # u /\ f \in Frames(v)
  BY Zenon, <1>1, <1>2, <1>5, <1>9
<1>10. StartOK'
  <2> SUFFICES ASSUME NEW v \in Threads, NEW f \in Frames(v)', f.at = "start"
               PROVE  /\ stack'[f.x] = <<>> /\ f.x \notin ws'
                      /\ \A w \in Threads : \A g \in Frames(w)' : g.at = "start" /\ g.x = f.x => w = v
    BY Zenon DEF StartOK
  <2>1. v # t /\ v # u /\ f \in Frames(v)
    BY Zenon, <1>9
  <2>2. /\ stack[f.x] = <<>> /\ f.x \notin ws
        /\ \A w \in Threads : \A g \in Frames(w) : g.at = "start" /\ g.x = f.x => w = v
    BY Zenon, <2>1 DEF ConnInv, StartOK
  <2>3. f.x \in Threads
    <3>1. f \in AnyFrame /\ FrameInv(v, f)
      BY Zenon, <2>1, FrameTypes DEF ConnInv, FramesOK
    <3>2. f.x \in Trans
      BY Zenon, <3>1 DEF FrameInv, AnyFrame, OtherLabels
    <3> QED
      BY Zenon, <3>2, Apart
  <2>4. f.x # t /\ f.x # u
    BY Zenon, <2>1, <2>2
  <2> QED
    BY Zenon, <1>1, <1>9, <2>2, <2>3, <2>4
<1>11. DialOK'
  <2>1. ASSUME NEW v \in Threads, NEW f \in Frames(v)', f.at = "dial"
        PROVE  v \notin ws' /\ \A g \in Frames(v)' : g.at # "tOnOpen"
    <3>1. v # t
      BY Zenon, <1>5, <2>1
    <3>2. CASE v = u
      BY Zenon, <1>1, <2>1, <3>2
    <3>3. CASE v # u
      BY Zenon, <1>2, <2>1, <3>1, <3>3 DEF ConnInv, DialOK
    <3> QED
      BY Zenon, <3>2, <3>3
  <2> QED
    BY Zenon, <2>1 DEF DialOK
<1>12. Guarded'
  <2> SUFFICES ASSUME NEW y \in ws PROVE Guard(y)'
    BY Zenon DEF Guarded
  <2>1. Guard(y) /\ y \in Trans /\ y \in Threads /\ y # u
    BY Zenon, Apart DEF ConnInv, Guarded, TransOK
  <2>2. kind'[y] = kind[y] /\ tstate'[y] = tstate[y]
    BY Zenon, <2>1
  <2>3. CASE y = t
    <3>1. \A f \in Elems(fs) : f.at # "tOnOpen"
      BY Zenon
    <3> QED
      BY Zenon, <1>1, <2>2, <2>3, <3>1, GuardRuns
  <2>4. CASE y # t
    <3>1. stack'[y] = stack[y]
      BY Zenon, <1>1, <2>1, <2>4
    <3> QED
      BY Zenon, <2>1, <2>2, <3>1 DEF Guard, At, Loops, Frames, LoopFrame
  <2> QED
    BY Zenon, <2>3, <2>4
<1> QED
  BY Zenon, <1>1, <1>6, <1>7, <1>8, <1>10, <1>11, <1>12 DEF ConnInv

\* A transport starts, on its own goroutine.
LEMMA StartConn ==
  ASSUME ConnInv, NEW t \in Threads, Start(t)
  PROVE  ConnInv'
<1>0. SockOK /\ TransOK
  BY Zenon DEF ConnInv
<1>1. /\ stack[t] # <<>> /\ Top(t).at = "start"
      /\ UNCHANGED <<sock, prefs, beat, ctx, opens, kind, ws, pollMu, signal>>
  BY Zenon DEF Start, At, Top, env
<1>2. /\ Top(t).at \in OtherLabels
      /\ Top(t).at \notin {"tOnOpen", "read", "reading", "tOnClose"}
  BY Zenon, <1>1 DEF OtherLabels
<1>3. PICK x \in Trans : x = Top(t).x /\ kind[x] # Nil /\ Top(t) \in Frames(t)
  BY Zenon, <1>1, <1>2, TopKnown
<1>4. /\ stack[x] = <<>> /\ x \notin ws /\ x \in Threads
      /\ \A v \in Threads \ {t} : \A g \in Frames(v) : g.at = "start" => g.x # x
  BY Zenon, <1>1, <1>3, Apart DEF ConnInv, StartOK
<1>5. kind[x] \in Kinds
  BY Zenon, <1>0, <1>3 DEF TransOK
<1>6. /\ UNCHANGED <<transport, runOf>> /\ config' = config
      /\ handlers' = [handlers EXCEPT ![x] = Bound("socket")]
      /\ tstate' = [tstate EXCEPT ![x] = "opening"]
  BY Zenon, <1>1, <1>3 DEF sock, ctx, ThenGo, Start
<1>7. SockOK'
  BY Zenon, <1>0, <1>1, <1>6, SockSame DEF ctx
<1>8. PICK b \in AnyFrame :
         /\ ThenGo(t, <<>>, x, <<b>>)
         /\ b.at \in {"poll", "dial"} /\ b.x = x /\ b.ps = <<>>
         /\ b.at = "poll" => kind[x] = "polling"
         /\ b.at = "dial" => kind[x] \in Connections
  <2>1. \A at \in Labels : /\ F(at, x) \in AnyFrame /\ F(at, x).at = at /\ F(at, x).x = x
                           /\ F(at, x).ps = <<>>
    BY <1>3, FrameParts, EmptySeq DEF F
  <2>2. "poll" \in Labels /\ "dial" \in Labels
    BY Zenon DEF Labels
  <2>3. CASE kind[x] = "polling"
    <3>1. ThenGo(t, <<>>, x, <<F("poll", x)>>)
      BY Zenon, <1>3, <2>3 DEF Start
    <3> QED
      BY Zenon, <2>1, <2>2, <2>3, <3>1
  <2>4. CASE kind[x] # "polling"
    <3>1. ThenGo(t, <<>>, x, <<F("dial", x)>>)
      BY Zenon, <1>3, <2>4 DEF Start
    <3> QED
      BY Zenon, <1>5, <2>1, <2>2, <2>4, <3>1 DEF Connections
  <2> QED
    BY Zenon, <2>3, <2>4
<1>9. FrameInv(x, b)' /\ b.at # "start"
  <2>1. /\ b.at \notin OtherLabels /\ b.at \notin UpLabels \cup {"pausing", "drain", "signal", "start"}
        /\ b.at \notin ProbeLabels /\ b.at \notin RunLabels
        /\ b.at \in PollLabels => b.at = "poll"
    BY Zenon, <1>8 DEF OtherLabels, UpLabels, ProbeLabels, RunLabels, PollLabels
  <2>2. kind' = kind
    BY Zenon, <1>1
  <2> QED
    BY Zenon, <1>3, <1>8, <2>1, <2>2, EmptySeq DEF FrameInv
<1>10. /\ handlers' \in [Trans -> Handlers] /\ handlers'[x].packet = "socket"
       /\ \A y \in Trans : y # x => handlers'[y] = handlers[y]
  <2>1. handlers \in [Trans -> Handlers] /\ Bound("socket") \in Handlers /\ Bound("socket").packet = "socket"
    BY <1>0 DEF TransOK, Bound, Handlers, Owners
  <2> QED
    BY <1>3, <1>6, <2>1
<1>11. /\ tstate' \in [Trans -> TStates] /\ tstate'[x] = "opening"
       /\ \A y \in Trans : y # x => tstate'[y] = tstate[y]
  <2>1. tstate \in [Trans -> TStates] /\ "opening" \in TStates
    BY Zenon, <1>0 DEF TransOK, TStates
  <2> QED
    BY <1>3, <1>6, <2>1
<1>12. TransOK' /\ KindOK'
  BY Zenon, <1>0, <1>1, <1>6, <1>10, <1>11 DEF TransOK, KindOK, ConnInv, MaxOpens
<1>13. /\ <<>> \in Seq(AnyFrame)
       /\ \A f \in Elems(<<>>) : FrameInv(t, f)' /\ f.at \notin {"install", "start", "dial", "tOnOpen"}
  BY ElemsEmpty
<1>14. /\ \A y \in Trans : kind[y] # Nil => kind'[y] = kind[y]
       /\ \A y \in Trans : y # x => kind'[y] = kind[y] /\ tstate'[y] = tstate[y] /\ handlers'[y] = handlers[y]
       /\ x \in Trans => kind'[x] # Nil
       /\ ws' = ws
  BY Zenon, <1>1, <1>3, <1>10, <1>11
<1> QED
  BY ZenonT(30), <1>1, <1>2, <1>4, <1>7, <1>8, <1>9, <1>12, <1>13, <1>14, PairStep

\* The rest of onOpen starts the goroutine of the probes.
LEMMA OpenedConn ==
  ASSUME ConnInv, NEW t \in Threads, Opened(t)
  PROVE  ConnInv'
<1>0. SockOK /\ TransOK
  BY Zenon DEF ConnInv
<1>1. /\ stack[t] # <<>> /\ Top(t).at = "opened" /\ UNCHANGED <<sock, prefs, beat, ctx, trans, opens>>
  BY Zenon DEF Opened, At, Top, env
<1>2. /\ Top(t).at \in OwnLabels /\ Top(t).at \notin {"tOnOpen", "read", "reading", "tOnClose"}
      /\ Top(t).at \in ProbeLabels /\ Top(t).at \in RunLabels
  BY Zenon, <1>1 DEF OwnLabels, ProbeLabels, RunLabels
<1>3. CASE Top(t).ps = {}
  <2>1. Then(t, <<>>)
    BY Zenon, <1>3 DEF Opened
  <2> QED
    BY Zenon, <1>1, <1>2, <2>1, Goods, SameStep
<1>4. CASE Top(t).ps # {}
  <2>1. PICK f \in AnyFrame : /\ f = Top(t) /\ f.x \in Trans \cup {Nil} /\ f.n \in Nat /\ FrameInv(t, f)
                              /\ f.ps \in SUBSET DOMAIN Upgrades
                              /\ f.x # Nil => kind[f.x] # Nil
    BY Zenon, <1>1, <1>2, TopKnown
  <2>2. PICK q \in Probers : stack[q] = <<>> /\ ThenGo(t, <<>>, q, <<[f EXCEPT !.at = "probe"]>>)
    BY Zenon, <1>4, <2>1 DEF Opened, Idle
  <2>3. q \in Threads /\ q \notin Trans /\ q \notin ws
    BY Zenon, <1>0, Apart DEF TransOK
  <2>4. /\ UNCHANGED <<kind, tstate, ws, handlers, pollMu, signal, runOf, transport>>
        /\ config' = config
    BY Zenon, <1>1, <2>2 DEF trans, sock, ctx, ThenGo
  <2>5. SockOK'
    BY Zenon, <1>0, <1>1, <2>4, SockSame DEF ctx
  <2>6. TransOK' /\ KindOK'
    BY Zenon, <1>0, <2>4 DEF TransOK, KindOK, ConnInv, MaxOpens
  <2>7. f.n <= MaxOpens
    BY Zenon, <1>2, <2>1 DEF FrameInv
  <2>8. [f EXCEPT !.at = "probe"] = Frame("probe", f.x, f.ps, f.n)
    BY Zenon, <2>1, FrameExcept
  <2>9. New(q, Frame("probe", f.x, f.ps, f.n))
    <3>1. "probe" \in ProbeLabels /\ "probe" # "opened" /\ "probe" # "await"
      BY Zenon DEF ProbeLabels
    <3> QED
      BY ZenonT(30), <1>0, <2>3, <2>1, <2>7, <3>1, NewProbe
  <2>10. PICK b \in AnyFrame : FrameInv(q, b) /\ b.at # "start" /\ b = [f EXCEPT !.at = "probe"]
    BY Zenon, <2>8, <2>9 DEF New
  <2>11. \A y \in Trans : kind[y] # Nil => kind'[y] = kind[y]
    BY Zenon, <2>4
  <2>12. FrameInv(q, b)'
    BY Zenon, <2>3, <2>4, <2>10, <2>11, FrameKept
  <2>13. /\ <<>> \in Seq(AnyFrame)
         /\ \A g \in Elems(<<>>) : FrameInv(t, g)' /\ g.at \notin {"install", "start", "dial", "tOnOpen"}
    BY ElemsEmpty
  <2>14. \A v \in Threads \ {t} : \A g \in Frames(v) : g.at = "start" => g.x # q
    <3> SUFFICES ASSUME NEW v \in Threads, NEW g \in Frames(v), g.at = "start" PROVE g.x # q
      BY Zenon
    <3>1. g \in AnyFrame /\ FrameInv(v, g)
      BY Zenon, FrameTypes DEF ConnInv, FramesOK
    <3>2. g.x \in Trans
      BY <3>1 DEF FrameInv, AnyFrame, OtherLabels
    <3> QED
      BY Zenon, <2>3, <3>2
  <2>15. /\ \A y \in Trans : y # q => kind'[y] = kind[y] /\ tstate'[y] = tstate[y] /\ handlers'[y] = handlers[y]
         /\ q \in Trans => kind'[q] # Nil
         /\ ws' = ws
    BY Zenon, <2>3, <2>4
  <2>16. ThenGo(t, <<>>, q, <<b>>)
    BY Zenon, <2>2, <2>10
  <2> QED
    BY ZenonT(30), <1>1, <1>2, <2>2, <2>3, <2>5, <2>6, <2>10, <2>11, <2>12, <2>13, <2>14, <2>15, <2>16, PairStep
<1> QED
  BY Zenon, <1>3, <1>4

\* The probe has an answer.
LEMMA AwaitProbeConn ==
  ASSUME ConnInv, NEW t \in Threads, Await(t)
  PROVE  ConnInv'
<1> DEFINE f == Top(t)
<1>0. SockOK
  BY Zenon DEF ConnInv
<1>1. /\ stack[t] # <<>> /\ f.at = "await" /\ UNCHANGED <<sock, prefs, beat, ctx, trans, opens>>
      /\ Then(t, <<>>) \/ Then(t, <<Frame("probe", Nil, f.ps, f.n)>>)
  BY Zenon DEF Await, At, Top, env
<1>2. /\ f.at \notin {"tOnOpen", "read", "reading", "tOnClose"}
      /\ f.at \in ProbeLabels /\ f.at \in RunLabels
  BY Zenon, <1>1 DEF ProbeLabels, RunLabels
<1>3. f.n \in Nat /\ f.ps \in SUBSET DOMAIN Upgrades /\ FrameInv(t, f)
  BY Zenon, <1>1, <1>2, TopKnown
<1>4. f.n <= MaxOpens
  BY Zenon, <1>2, <1>3 DEF FrameInv
<1>5. New(t, Frame("probe", Nil, f.ps, f.n))
  <2>1. "probe" \in ProbeLabels /\ "probe" # "opened" /\ "probe" # "await" /\ Nil \in Trans \cup {Nil}
    BY Zenon DEF ProbeLabels
  <2> HIDE DEF f
  <2> QED
    BY ZenonT(30), <1>0, <1>3, <1>4, <2>1, NewProbe
<1> QED
  BY Zenon, <1>1, <1>2, <1>5, Goods, SameStep

\* A transport that is constructed is new: no goroutine knows of it.
LEMMA Constructed ==
  ASSUME ConnInv, NEW x \in Trans, NEW k \in Kinds, NEW n \in Nat, n <= MaxOpens, Construct(x, k, n)
  PROVE  /\ kind[x] = Nil /\ x \in Threads /\ stack[x] = <<>> /\ x \notin ws /\ handlers[x] = Detached
         /\ kind' \in [Trans -> Kinds \cup {Nil}] /\ kind'[x] = k /\ k # Nil
         /\ runOf' \in [Trans -> 0..MaxOpens]
         /\ \A y \in Trans : kind[y] # Nil => kind'[y] = kind[y]
         /\ \A y \in Trans : y # x => kind'[y] = kind[y]
         /\ \A v \in Threads : \A g \in Frames(v) : g.x # x
<1>0. SockOK /\ TransOK /\ Fresh /\ FramesOK /\ StackOK
  BY Zenon DEF ConnInv
<1>1. /\ kind[x] = Nil /\ kind' = [kind EXCEPT ![x] = k] /\ runOf' = [runOf EXCEPT ![x] = n]
  BY Zenon DEF Construct
<1>2. x \in Threads /\ stack[x] = <<>> /\ x \notin ws /\ handlers[x] = Detached /\ k # Nil /\ x # Nil
  BY Zenon, <1>0, <1>1, Apart DEF Fresh
<1>3. MaxOpens \in Nat
  BY Zenon, <1>0, ConfigOK
<1>4. kind \in [Trans -> Kinds \cup {Nil}] /\ runOf \in [Trans -> 0..MaxOpens]
  BY Zenon, <1>0 DEF TransOK
<1>5. runOf' \in [Trans -> 0..MaxOpens]
  <2>1. n \in 0..MaxOpens
    BY <1>3
  <2> HIDE DEF MaxOpens
  <2> QED
    BY <1>1, <1>4, <2>1
<1>6. kind' \in [Trans -> Kinds \cup {Nil}] /\ kind'[x] = k /\ \A y \in Trans : y # x => kind'[y] = kind[y]
  BY <1>1, <1>4
<1>7. \A y \in Trans : kind[y] # Nil => kind'[y] = kind[y]
  BY Zenon, <1>1, <1>6
<1>8. ASSUME NEW v \in Threads, NEW g \in Frames(v) PROVE g.x # x
  BY Zenon, <1>0, <1>1, <1>2, <1>8 DEF FramesOK, FrameInv
<1> QED
  BY Zenon, <1>1, <1>2, <1>5, <1>6, <1>7, <1>8

\* probeUpgrades goes on to the next candidate.
LEMMA ProbeConn ==
  ASSUME ConnInv, NEW q \in Threads, Probe(q)
  PROVE  ConnInv'
<1>0. SockOK /\ TransOK /\ KindOK
  BY Zenon DEF ConnInv
<1>1. /\ stack[q] # <<>> /\ Top(q).at = "probe"
      /\ UNCHANGED <<sock, transports, beat, runCancel, cancelled, ws, pollMu, signal, opens>>
  BY Zenon DEF Probe, At, Top, env
<1>2. /\ Top(q).at \notin {"tOnOpen", "read", "reading", "tOnClose"}
      /\ Top(q).at \in ProbeLabels /\ Top(q).at \in RunLabels
  BY Zenon, <1>1 DEF ProbeLabels, RunLabels
<1>3. PICK f \in AnyFrame : /\ f = Top(q) /\ f.at = "probe" /\ f.x \in Trans \cup {Nil} /\ f.n \in Nat
                            /\ FrameInv(q, f)
                            /\ f.ps \in SUBSET DOMAIN Upgrades
                            /\ f.x # Nil => kind[f.x] # Nil
  BY Zenon, <1>1, <1>2, TopKnown
<1>4. f.n <= MaxOpens /\ MaxOpens \in Nat
  BY Zenon, <1>0, <1>2, <1>3, ConfigOK DEF FrameInv
<1>5. "probe" \in ProbeLabels /\ "probe" # "opened" /\ "probe" # "await"
  BY Zenon DEF ProbeLabels
<1>6. CASE Then(q, <<>>) /\ UNCHANGED <<priorUpgrade, kind, runOf, handlers, tstate>>
  <2>1. UNCHANGED <<sock, prefs, beat, ctx, trans, opens>>
    BY Zenon, <1>1, <1>6 DEF prefs, ctx, trans
  <2> QED
    BY Zenon, <1>1, <1>2, <1>6, <2>1, Goods, SameStep
<1>7. ASSUME config' = config, priorUpgrade' = Nil PROVE SockOK'
  BY Zenon, <1>0, <1>1, <1>7 DEF SockOK, MaxOpens, sock, beat
<1>8. ASSUME NEW c \in f.ps, priorUpgrade' = Nil, Then(q, <<[f EXCEPT !.ps = f.ps \ {c}]>>),
             UNCHANGED <<kind, runOf, handlers, tstate>>
      PROVE  ConnInv'
  <2>1. PICK ps \in SUBSET DOMAIN Upgrades : ps = f.ps \ {c}
    BY Zenon, <1>3
  <2>2. [f EXCEPT !.ps = ps] = Frame("probe", f.x, ps, f.n)
    BY <1>3 DEF Frame, AnyFrame
  <2>3. New(q, Frame("probe", f.x, ps, f.n))
    BY ZenonT(30), <1>0, <1>3, <1>4, <1>5, NewProbe
  <2>4. Good(q, <<[f EXCEPT !.ps = f.ps \ {c}]>>)
    BY Zenon, <2>1, <2>2, <2>3, Goods
  <2>5. SockOK' /\ UNCHANGED <<runOf, trans>> /\ transport' = transport
    BY Zenon, <1>1, <1>7, <1>8 DEF Then, trans, sock
  <2> QED
    BY ZenonT(30), <1>1, <1>2, <1>8, <2>4, <2>5, SockStep
<1>9. ASSUME NEW c \in f.ps, priorUpgrade' = Nil, NEW x \in Trans, Construct(x, Upgrades[c], f.n),
             handlers' = [handlers EXCEPT ![x] = Bound("probe")],
             tstate' = [tstate EXCEPT ![x] = "opening"],
             ThenGo(q, <<Frame("await", x, f.ps \ {c}, f.n)>>, x, <<F("dial", x)>>)
      PROVE  ConnInv'
  <2>1. Upgrades[c] \in Connections /\ Upgrades[c] \in Kinds
    BY Zenon, <1>0, <1>3, ConfigOK DEF Connections
  <2>2. /\ kind[x] = Nil /\ x \in Threads /\ stack[x] = <<>> /\ x \notin ws
        /\ kind' \in [Trans -> Kinds \cup {Nil}] /\ kind'[x] = Upgrades[c] /\ kind'[x] # Nil
        /\ runOf' \in [Trans -> 0..MaxOpens]
        /\ \A y \in Trans : kind[y] # Nil => kind'[y] = kind[y]
        /\ \A y \in Trans : y # x => kind'[y] = kind[y]
        /\ \A v \in Threads : \A g \in Frames(v) : g.x # x
    BY ZenonT(30), <1>3, <1>4, <1>9, <2>1, Constructed
  <2>3. /\ handlers' \in [Trans -> Handlers]
        /\ \A y \in Trans : y # x => handlers'[y] = handlers[y]
    <3>1. handlers \in [Trans -> Handlers] /\ Bound("probe") \in Handlers
      BY <1>0 DEF TransOK, Bound, Handlers, Owners
    <3> QED
      BY <1>9, <3>1
  <2>4. /\ tstate' \in [Trans -> TStates] /\ tstate'[x] = "opening"
        /\ \A y \in Trans : y # x => tstate'[y] = tstate[y]
    <3>1. tstate \in [Trans -> TStates] /\ "opening" \in TStates
      BY Zenon, <1>0 DEF TransOK, TStates
    <3> QED
      BY <1>9, <3>1
  <2>5. config' = config /\ transport' = transport /\ SockOK' /\ ws' = ws
    BY Zenon, <1>1, <1>7, <1>9 DEF ThenGo, sock
  <2>6. TransOK'
    BY Zenon, <1>0, <1>1, <2>2, <2>3, <2>4, <2>5 DEF TransOK, MaxOpens
  <2>7. KindOK'
    <3>1. transport' # Nil => kind'[transport'] # Nil
      BY Zenon, <1>0, <2>2, <2>5 DEF KindOK, SockOK
    <3>2. ASSUME NEW y \in Trans PROVE /\ handlers'[y].packet = "probe" => kind'[y] \in Connections
                                       /\ kind'[y] # "polling" => tstate'[y] \in {"opening", "open", "closed"}
      <4>1. CASE y = x
        BY Zenon, <2>1, <2>2, <2>4, <4>1
      <4>2. CASE y # x
        BY Zenon, <1>0, <2>2, <2>3, <2>4, <4>2 DEF KindOK
      <4> QED
        BY Zenon, <4>1, <4>2
    <3> QED
      BY Zenon, <3>1, <3>2 DEF KindOK
  <2>8. PICK a \in AnyFrame : a = Frame("await", x, f.ps \ {c}, f.n) /\ FrameInv(q, a)' /\ a.at = "await"
    <3>1. PICK ps \in SUBSET DOMAIN Upgrades : ps = f.ps \ {c}
      BY Zenon, <1>3
    <3>2. /\ DOMAIN Upgrades \subseteq Nat /\ "await" \in Labels /\ x \in Trans \cup {Nil}
      BY Zenon, <1>0, ConfigOK DEF Labels
    <3>3. ps \in PacketSeqs \cup SUBSET Nat
      BY Zenon, <3>2
    <3>4. PICK d \in AnyFrame : /\ d = Frame("await", x, ps, f.n)
                                /\ d.at = "await" /\ d.x = x /\ d.ps = ps /\ d.n = f.n
      BY <1>3, <3>2, <3>3, FrameParts
    <3>5. /\ "await" \notin OwnLabels /\ "await" \notin UpLabels \cup {"dial", "pausing", "drain", "signal"}
          /\ "await" \notin PollLabels /\ "await" \in ProbeLabels
      BY Zenon DEF OwnLabels, UpLabels, PollLabels, ProbeLabels
    <3>6. MaxOpens' = MaxOpens /\ Upgrades' = Upgrades /\ x # Nil
      BY Zenon, <2>5, Apart DEF MaxOpens, Upgrades
    <3>7. FrameInv(q, d)'
      BY Zenon, <1>4, <2>2, <3>4, <3>5, <3>6 DEF FrameInv
    <3> QED
      BY Zenon, <3>1, <3>4, <3>7
  <2>9. PICK b \in AnyFrame : b = F("dial", x) /\ FrameInv(x, b)' /\ b.at = "dial"
    <3>1. \A at \in Labels : /\ F(at, x) \in AnyFrame /\ F(at, x).at = at /\ F(at, x).x = x
                             /\ F(at, x).ps = <<>>
      BY FrameParts, EmptySeq DEF F
    <3>0. "dial" \in Labels
      BY Zenon DEF Labels
    <3>2. PICK d : d = F("dial", x) /\ d \in AnyFrame /\ d.at = "dial" /\ d.x = x /\ d.ps = <<>>
      BY Zenon, <3>0, <3>1
    <3>3. /\ "dial" \notin OtherLabels /\ "dial" \notin UpLabels \cup {"pausing", "drain", "signal"}
          /\ "dial" \notin PollLabels /\ "dial" \notin ProbeLabels /\ "dial" \notin RunLabels
      BY Zenon DEF OtherLabels, UpLabels, PollLabels, ProbeLabels, RunLabels
    <3>4. FrameInv(x, d)'
      BY Zenon, <2>1, <2>2, <3>2, <3>3, EmptySeq DEF FrameInv
    <3> QED
      BY Zenon, <3>2, <3>4
  <2>10. /\ <<a>> \in Seq(AnyFrame)
         /\ \A g \in Elems(<<a>>) : FrameInv(q, g)' /\ g.at \notin {"install", "start", "dial", "tOnOpen"}
    <3>1. <<a>> \in Seq(AnyFrame)
      OBVIOUS
    <3>2. a.at \notin {"install", "start", "dial", "tOnOpen"}
      BY Zenon, <2>8
    <3>3. Elems(<<a>>) = {a}
      BY Zenon, Elems1
    <3> QED
      BY Zenon, <2>8, <3>1, <3>2, <3>3
  <2>11. ThenGo(q, <<a>>, x, <<b>>) /\ b.at # "start"
    BY Zenon, <1>9, <2>8, <2>9
  <2>12. \A y \in Trans : y # x => kind'[y] = kind[y] /\ tstate'[y] = tstate[y] /\ handlers'[y] = handlers[y]
    BY Zenon, <2>2, <2>3, <2>4
  <2>13. \A v \in Threads \ {q} : \A g \in Frames(v) : g.at = "start" => g.x # x
    BY Zenon, <2>2
  <2> QED
    BY ZenonT(30), <1>1, <1>2, <2>2, <2>5, <2>6, <2>7, <2>9, <2>10, <2>11, <2>12, <2>13, PairStep
<1>10. \/ Then(q, <<>>) /\ UNCHANGED <<priorUpgrade, kind, runOf, handlers, tstate>>
       \/ \E c \in f.ps :
            /\ priorUpgrade' = Nil
            /\ \/ \E x \in Trans :
                    /\ Construct(x, Upgrades[c], f.n)
                    /\ handlers' = [handlers EXCEPT ![x] = Bound("probe")]
                    /\ tstate' = [tstate EXCEPT ![x] = "opening"]
                    /\ ThenGo(q, <<Frame("await", x, f.ps \ {c}, f.n)>>, x, <<F("dial", x)>>)
               \/ /\ Then(q, <<[f EXCEPT !.ps = f.ps \ {c}]>>)
                  /\ UNCHANGED <<kind, runOf, handlers, tstate>>
  BY Zenon, <1>3 DEF Probe
<1> QED
  BY Zenon, <1>6, <1>8, <1>9, <1>10

\* The kind that Open tries first is one of the socket's transports.
LEMMA SelectOK == ASSUME SockOK PROVE selectTransport \in Kinds
<1>1. transports \in Seq(Kinds) /\ transports # <<>>
  BY DEF SockOK
<1>2. \A i \in DOMAIN transports : transports[i] \in Kinds
  BY <1>1
<1>3. transports[1] \in Kinds
  BY <1>1
<1> QED
  BY Zenon, <1>2, <1>3 DEF selectTransport

\* createTransport: the socket has a transport, which the goroutine is about to start.
LEMMA InstallConn ==
  ASSUME ConnInv, NEW t \in Threads, Install(t)
  PROVE  ConnInv'
<1>0. SockOK /\ TransOK /\ KindOK /\ StackOK
  BY Zenon DEF ConnInv
<1>1. /\ stack[t] # <<>> /\ Top(t).at = "install"
      /\ UNCHANGED <<writeBuffer, upgrading, flushing, prefs, beat, runCancel, cancelled,
                     tstate, ws, handlers, pollMu, signal, opens>>
  BY Zenon DEF Install, At, Top, env
<1>2. /\ Top(t).at \notin {"tOnOpen", "read", "reading", "tOnClose"}
      /\ Top(t).at \in RunLabels
  BY Zenon, <1>1 DEF RunLabels
<1>3. Top(t).n \in Nat /\ Top(t).n <= MaxOpens
  BY Zenon, <1>1, <1>2, TopKnown DEF FrameInv
<1>4. CASE state' = "closed" /\ Then(t, <<>>) /\ UNCHANGED <<transport, kind, runOf>>
  <2>1. SockOK'
    BY Zenon, <1>0, <1>1, <1>4 DEF SockOK, MaxOpens, Then, prefs, beat
  <2>2. UNCHANGED <<runOf, trans>> /\ transport' = transport
    BY Zenon, <1>1, <1>4 DEF trans
  <2> QED
    BY Zenon, <1>1, <1>2, <1>4, <2>1, <2>2, Goods, SockStep
<1>5. ASSUME NEW x \in Trans, Construct(x, selectTransport, Top(t).n), transport' = x, state' = state,
             Then(t, <<F("start", x)>>)
      PROVE  ConnInv'
  <2>1. /\ kind[x] = Nil /\ x \in Threads /\ stack[x] = <<>> /\ x \notin ws
        /\ handlers[x] = Detached
        /\ kind' \in [Trans -> Kinds \cup {Nil}] /\ kind'[x] # Nil
        /\ runOf' \in [Trans -> 0..MaxOpens]
        /\ \A y \in Trans : kind[y] # Nil => kind'[y] = kind[y]
        /\ \A y \in Trans : y # x => kind'[y] = kind[y]
        /\ \A v \in Threads : \A g \in Frames(v) : g.x # x
    <3>1. selectTransport \in Kinds
      BY Zenon, <1>0, SelectOK
    <3> HIDE DEF selectTransport
    <3> QED
      BY ZenonT(30), <1>3, <1>5, <3>1, Constructed
  <2>2. PICK b \in AnyFrame : b = F("start", x) /\ b.at = "start" /\ b.x = x /\ b.ps = <<>>
    <3>1. \A at \in Labels : /\ F(at, x) \in AnyFrame /\ F(at, x).at = at /\ F(at, x).x = x
                             /\ F(at, x).ps = <<>>
      BY FrameParts, EmptySeq DEF F
    <3>2. "start" \in Labels
      BY Zenon DEF Labels
    <3> QED
      BY Zenon, <3>1, <3>2
  <2>3. /\ StackOK' /\ config' = config
        /\ \A u \in Threads \ {t} : stack'[u] = stack[u]
        /\ stack'[t] # <<>> /\ Top(t)' = b
        /\ Under(t)' = Under(t) /\ Frames(t)' = {b} \cup Under(t)
    BY Zenon, <1>0, <1>1, <1>5, <2>2, Push1
  <2>4. \A v \in Threads \ {t} : Frames(v)' = Frames(v) /\ Under(v)' = Under(v)
    BY Zenon, <2>3 DEF Frames, Under
  <2>5. Under(t) \subseteq Frames(t) /\ x # t /\ \A f \in Under(t) : f.at \notin {"install", "start", "dial"}
    BY Zenon, <1>1, <2>1, TopFrame DEF ConnInv, HeadOnly
  <2>6. SockOK'
    BY Zenon, <1>0, <1>1, <1>5, <2>3 DEF SockOK, MaxOpens, prefs, beat
  <2>7. TransOK'
    BY Zenon, <1>0, <1>1, <2>1, <2>3 DEF TransOK, MaxOpens
  <2>8. KindOK'
    <3>1. "nil" # "probe" /\ Detached.packet = "nil"
      BY DEF Detached
    <3>2. ASSUME NEW y \in Trans PROVE /\ handlers'[y].packet = "probe" => kind'[y] \in Connections
                                       /\ kind'[y] # "polling" => tstate'[y] \in {"opening", "open", "closed"}
      <4>1. CASE y = x
        <5>1. kind[x] # "polling"
          BY Zenon, <2>1, Apart DEF Kinds
        <5> QED
          BY Zenon, <1>0, <1>1, <2>1, <3>1, <4>1, <5>1 DEF KindOK
      <4>2. CASE y # x
        BY Zenon, <1>0, <1>1, <2>1, <4>2 DEF KindOK
      <4> QED
        BY Zenon, <4>1, <4>2
    <3> QED
      BY Zenon, <1>5, <2>1, <3>2 DEF KindOK
  <2>9. FramesOK'
    <3>1. FrameInv(t, b)'
      <4>1. /\ "start" \notin OwnLabels /\ "start" \notin UpLabels \cup {"dial", "pausing", "drain", "signal"}
            /\ "start" \notin PollLabels /\ "start" \notin ProbeLabels /\ "start" \notin RunLabels
        BY Zenon DEF OwnLabels, UpLabels, PollLabels, ProbeLabels, RunLabels
      <4>2. x # Nil
        BY Zenon, Apart
      <4> QED
        BY Zenon, <2>1, <2>2, <4>1, <4>2, EmptySeq DEF FrameInv
    <3>2. ASSUME NEW v \in Threads, NEW f \in Frames(v) PROVE FrameInv(v, f)'
      <4>1. f \in AnyFrame /\ FrameInv(v, f)
        BY Zenon, FrameTypes DEF ConnInv, FramesOK
      <4> QED
        BY Zenon, <2>1, <2>3, <4>1, FrameKept
    <3> QED
      BY Zenon, <2>3, <2>4, <2>5, <3>1, <3>2 DEF FramesOK
  <2>10. HeadOnly'
    BY Zenon, <2>3, <2>4 DEF HeadOnly, ConnInv
  <2>11. Fresh'
    BY Zenon, <1>1, <2>1, <2>3, Apart DEF Fresh, ConnInv
  <2>12. StartOK'
    <3> SUFFICES ASSUME NEW v \in Threads, NEW f \in Frames(v)', f.at = "start"
                 PROVE  /\ stack'[f.x] = <<>> /\ f.x \notin ws'
                        /\ \A w \in Threads : \A g \in Frames(w)' : g.at = "start" /\ g.x = f.x => w = v
      BY Zenon DEF StartOK
    <3>1. CASE v = t
      <4>1. f = b
        BY Zenon, <2>3, <2>5, <3>1
      <4>2. stack'[f.x] = <<>> /\ f.x \notin ws'
        BY Zenon, <1>1, <2>1, <2>2, <2>3, <2>5, <4>1
      <4>3. ASSUME NEW w \in Threads, NEW g \in Frames(w)', g.x = x PROVE w = t
        <5>1. w # t => g \in Frames(w)
          BY Zenon, <2>4
        <5>2. \A h \in Frames(w) : h.x # x
          BY Zenon, <2>1
        <5> QED
          BY Zenon, <4>3, <5>1, <5>2
      <4> QED
        BY Zenon, <2>2, <3>1, <4>1, <4>2, <4>3
    <3>2. CASE v # t
      <4>1. f \in Frames(v) /\ f.x # x
        BY Zenon, <2>1, <2>4, <3>2
      <4>2. /\ stack[f.x] = <<>> /\ f.x \notin ws
            /\ \A w \in Threads : \A g \in Frames(w) : g.at = "start" /\ g.x = f.x => w = v
        BY Zenon, <4>1 DEF ConnInv, StartOK
      <4>3. f.x \in Trans
        <5>1. f \in AnyFrame /\ FrameInv(v, f)
          BY Zenon, <4>1, FrameTypes DEF ConnInv, FramesOK
        <5> QED
          BY <5>1 DEF FrameInv, AnyFrame, OtherLabels
      <4>4. stack'[f.x] = <<>>
        BY Zenon, <1>1, <2>3, <4>2, <4>3, Apart
      <4>5. ASSUME NEW w \in Threads, NEW g \in Frames(w)', g.at = "start", g.x = f.x PROVE w = v
        <5>1. w # t
          BY Zenon, <2>2, <2>3, <2>5, <4>1, <4>5
        <5> QED
          BY Zenon, <2>4, <4>2, <4>5, <5>1
      <4> QED
        BY Zenon, <1>1, <4>2, <4>4, <4>5
    <3> QED
      BY Zenon, <3>1, <3>2
  <2>13. DialOK'
    <3>1. ASSUME NEW v \in Threads, NEW f \in Frames(v)', f.at = "dial"
          PROVE  v \notin ws' /\ \A g \in Frames(v)' : g.at # "tOnOpen"
      <4>1. v # t
        BY Zenon, <2>2, <2>3, <2>5, <3>1
      <4> QED
        BY Zenon, <1>1, <2>4, <3>1, <4>1 DEF ConnInv, DialOK
    <3> QED
      BY Zenon, <3>1 DEF DialOK
  <2>14. Guarded'
    <3> SUFFICES ASSUME NEW y \in ws PROVE Guard(y)'
      BY Zenon, <1>1 DEF Guarded
    <3>1. Guard(y) /\ y \in Trans /\ y \in Threads /\ y # x
      BY Zenon, <1>0, <2>1, Apart DEF ConnInv, Guarded, TransOK
    <3>2. kind'[y] = kind[y] /\ tstate'[y] = tstate[y]
      BY Zenon, <1>1, <2>1, <3>1
    <3>3. CASE y = t
      <4> DEFINE E == {b}
      <4>1. \A f \in E : f.at # "tOnOpen"
        BY Zenon, <2>2
      <4>2. Frames(t)' = E \cup Under(t)
        BY Zenon, <2>3
      <4> HIDE DEF E
      <4> QED
        BY Zenon, <1>1, <1>2, <3>2, <3>3, <4>1, <4>2, GuardRuns
    <3>4. CASE y # t
      <4>1. stack'[y] = stack[y]
        BY Zenon, <2>3, <3>1, <3>4
      <4> QED
        BY Zenon, <3>1, <3>2, <4>1 DEF Guard, At, Loops, Frames, LoopFrame
    <3> QED
      BY Zenon, <3>3, <3>4
  <2> QED
    BY Zenon, <2>3, <2>6, <2>7, <2>8, <2>9, <2>10, <2>11, <2>12, <2>13, <2>14 DEF ConnInv
<1> QED
  BY Zenon, <1>4, <1>5 DEF Install

\* Only Send adds to what was accepted.
LEMMA AcceptedStep ==
  ASSUME Next, accepted \in Seq(Msgs)
  PROVE  accepted' \in Seq(Msgs)
<1>1. ASSUME NEW t, Application(t) PROVE accepted' \in Seq(Msgs)
  <2>1. CASE Open(t) \/ Close(t)
    BY Zenon, <2>1 DEF Open, Close, beginOpen, hist
  <2>2. ASSUME NEW m \in Msgs, Send(t, m) PROVE accepted' \in Seq(Msgs)
    <3>1. accepted' = Append(accepted, m)
      BY Zenon, <2>2 DEF Send
    <3> QED
      BY <3>1
  <2> QED
    BY Zenon, <1>1, <2>1, <2>2 DEF Application
<1>2. ASSUME NEW t, Flush(t) \/ WriteStep(t) PROVE accepted' = accepted
  BY Zenon, <1>2 DEF Flush, FlushClaim, ChunkSend, FlushEnd, WriteStep, ChunkWrite, ChunkFail, TCloseSend, hist
<1>3. ASSUME NEW t, Transport(t) PROVE accepted' = accepted
  BY Zenon, <1>3 DEF Transport, TClose, TBeginClose, TAwait, TUnlock, TOnClose, TError, TPacket, Detach, hist
<1>4. ASSUME NEW t, Socket(t) PROVE accepted' = accepted
  <2>1. CASE Install(t) \/ Start(t) \/ Reopen(t) \/ SendPong(t) \/ beginCloseTransport(t)
    BY Zenon, <2>1 DEF Install, Start, Reopen, beginOpen, SendPong, beginCloseTransport, hist
  <2>2. CASE OnPacket(t) \/ reschedulePingTimeout(t) \/ recordOpen(t) \/ Opened(t)
    BY Zenon, <2>2 DEF OnPacket, reschedulePingTimeout, recordOpen, Opened, hist
  <2>3. CASE OnError(t) \/ OnClose(t) \/ Cancel(t) \/ Signal(t)
    BY Zenon, <2>3 DEF OnError, OnClose, Cancel, Signal, hist
  <2> QED
    BY Zenon, <1>4, <2>1, <2>2, <2>3 DEF Socket
<1>5. ASSUME NEW x, Loop(x) \/ Network(x) PROVE accepted' = accepted
  <2>1. CASE Loop(x)
    BY Zenon, <2>1 DEF Loop, Poll, Dispatch, TOnOpen, Read, hist
  <2>2. CASE Network(x)
    BY Zenon, <2>2 DEF Network, Answer, RequestFail, EmptyAnswer, Dial, DialFail, WriteOpenFail, Receive,
                       ReadFail, Garbled, hist
  <2> QED
    BY Zenon, <1>5, <2>1, <2>2
<1>6. ASSUME NEW x, Upgrade(x) \/ ProbeWrite(x) PROVE accepted' = accepted
  <2>1. CASE Upgrade(x)
    BY Zenon, <2>1 DEF Upgrade, UpgradeBegin, UpgradeWait, Restore, Pause, Paused, Drained, Adopt, Bind, hist
  <2>2. CASE ProbeWrite(x)
    BY Zenon, <2>2 DEF ProbeWrite, ProbePing, UpgradeSend, UpgradeFail, hist
  <2> QED
    BY Zenon, <1>6, <2>1, <2>2
<1>7. ASSUME (\E q \in Probers : Prober(q)) \/ PingTimeout PROVE accepted' = accepted
  BY Zenon, <1>7 DEF Prober, Probe, Await, PingTimeout, hist
<1> QED
  BY Zenon, <1>1, <1>2, <1>3, <1>4, <1>5, <1>6, <1>7 DEF Next

\* Every step keeps the invariant.
LEMMA ConnStep ==
  ASSUME ConnInv, accepted \in Seq(Msgs), [Next]_vars
  PROVE  ConnInv' /\ accepted' \in Seq(Msgs)
<1>1. CASE UNCHANGED vars
  <2>1. UNCHANGED <<config, sock, prefs, beat, ctx, trans, stack, opens, accepted>>
    BY Zenon, <1>1 DEF vars, env, hist
  <2>2. UNCHANGED <<transport, runOf, kind, tstate, ws, handlers, pollMu, signal>>
    BY Zenon, <2>1 DEF sock, ctx, trans
  <2>3. /\ \A t \in Threads : Frames(t)' = Frames(t) /\ Under(t)' = Under(t)
        /\ StackOK' /\ MaxOpens' = MaxOpens /\ Upgrades' = Upgrades
    BY Zenon, <2>1 DEF Frames, Under, StackOK, ConnInv, MaxOpens, Upgrades
  <2>4. SockOK'
    BY Zenon, <2>1, SockSame DEF ctx, ConnInv
  <2>5. TransOK' /\ KindOK'
    BY Zenon, <2>2, <2>3 DEF ConnInv, TransOK, KindOK
  <2>6. FramesOK'
    <3> SUFFICES ASSUME NEW t \in Threads, NEW f \in Frames(t) PROVE FrameInv(t, f)'
      BY Zenon, <2>3 DEF FramesOK
    <3>1. f \in AnyFrame /\ FrameInv(t, f)
      BY Zenon, FrameTypes DEF ConnInv, FramesOK
    <3> QED
      BY Zenon, <2>1, <2>2, <3>1, FrameKept
  <2>7. HeadOnly' /\ DialOK' /\ Fresh'
    BY Zenon, <2>1, <2>2, <2>3 DEF ConnInv, HeadOnly, DialOK, Fresh
  <2>8. StartOK'
    <3> SUFFICES ASSUME NEW v \in Threads, NEW f \in Frames(v), f.at = "start"
                 PROVE  /\ stack'[f.x] = <<>> /\ f.x \notin ws'
                        /\ \A w \in Threads : \A g \in Frames(w)' : g.at = "start" /\ g.x = f.x => w = v
      BY Zenon, <2>3 DEF StartOK
    <3>1. /\ stack[f.x] = <<>> /\ f.x \notin ws
          /\ \A w \in Threads : \A g \in Frames(w) : g.at = "start" /\ g.x = f.x => w = v
      BY Zenon DEF ConnInv, StartOK
    <3> QED
      BY Zenon, <2>1, <2>2, <2>3, <3>1
  <2>9. Guarded'
    <3> SUFFICES ASSUME NEW y \in ws PROVE Guard(y)'
      BY Zenon, <2>2 DEF Guarded
    <3> QED
      BY Zenon, <2>1, <2>2 DEF ConnInv, Guarded, Guard, At, Loops, Frames, LoopFrame
  <2> QED
    BY Zenon, <2>1, <2>3, <2>4, <2>5, <2>6, <2>7, <2>8, <2>9 DEF ConnInv
<1>2. CASE Next
  <2>1. accepted' \in Seq(Msgs)
    BY Zenon, <1>2, AcceptedStep
  <2>2. ASSUME NEW t \in Threads, Flush(t) \/ Transport(t) \/ WriteStep(t) PROVE ConnInv'
    BY Zenon, <2>2, FlushConn, TransportConn DEF WriteStep
  <2>3. ASSUME NEW t \in Threads, Socket(t) PROVE ConnInv'
    BY Zenon, <2>3, InstallConn, StartConn, OpenConn, PacketsConn, RecordConn, OpenedConn, TeardownConn,
       SignalConn DEF Socket
  <2>4. ASSUME NEW x \in Trans, Loop(x) \/ Network(x) PROVE ConnInv'
    BY Zenon, <2>4, PollConn, DispatchConn, ReadConn, DialConn DEF Loop, Network
  <2>5. ASSUME NEW x \in Trans, Upgrade(x) \/ ProbeWrite(x) PROVE ConnInv'
    BY Zenon, <2>5, UpgradeBeginConn, BindConn, PauseConn, AdoptConn, PollConn DEF Upgrade, ProbeWrite
  <2>6. ASSUME NEW q \in Probers, Prober(q) PROVE ConnInv'
    BY Zenon, <2>6, ProbeConn, AwaitProbeConn, Apart DEF Prober
  <2>7. CASE Outside
    BY Zenon, <2>1, <2>7, ApplicationConn
  <2> QED
    BY Zenon, <1>2, <2>1, <2>2, <2>3, <2>4, <2>5, <2>6, <2>7 DEF Next, Outside
<1> QED
  BY Zenon, <1>1, <1>2

\* The invariant holds before the socket is opened.
LEMMA ConnInit ==
  ASSUME Init
  PROVE  ConnInv /\ accepted \in Seq(Msgs)
<1>1. config \in Configs /\ stack = [t \in Threads |-> <<>>] /\ ws = {} /\ transport = Nil
  BY Zenon DEF Init
<1>2. \A t \in Threads : stack[t] = <<>>
  BY Zenon, <1>1
<1>3. \A t \in Threads : Frames(t) = {} /\ Under(t) = {}
  BY Zenon, <1>2, ElemsEmpty DEF Frames, Under
<1>4. StackOK
  BY <1>1 DEF StackOK
<1>5. FramesOK /\ HeadOnly /\ StartOK /\ DialOK /\ Guarded
  BY Zenon, <1>1, <1>3 DEF FramesOK, HeadOnly, StartOK, DialOK, Guarded
<1>6. MaxOpens \in Nat /\ TransportList \in Seq(Kinds) /\ TransportList # <<>>
  BY ClientAssumption, <1>1 DEF MaxOpens, TransportList
<1>7. SockOK
  <2>1. 0 \in 0..MaxOpens /\ <<>> \in Seq(Msgs \cup {"pong"})
    BY <1>6
  <2> HIDE DEF MaxOpens, TransportList
  <2> QED
    BY Zenon, <1>6, <2>1 DEF Init, SockOK
<1>8. TransOK
  <2>1. 0 \in 0..MaxOpens /\ Detached \in Handlers /\ "closed" \in TStates
    BY <1>6 DEF Detached, Handlers, Owners, TStates
  <2> HIDE DEF MaxOpens, Detached, Handlers, TStates
  <2> QED
    BY <2>1 DEF Init, TransOK
<1>9. \A x \in Trans : kind[x] = Nil /\ tstate[x] = "closed" /\ handlers[x] = Detached
  BY Zenon DEF Init
<1>10. KindOK /\ Fresh
  <2>1. Detached.packet = "nil"
    BY DEF Detached
  <2> QED
    BY Zenon, <1>1, <1>2, <1>9, <2>1, Apart DEF KindOK, Fresh
<1>11. accepted \in Seq(Msgs)
  BY DEF Init
<1> QED
  BY Zenon, <1>4, <1>5, <1>7, <1>8, <1>10, <1>11 DEF ConnInv

\* The invariant holds in every reachable state.
LEMMA Connected == Spec => [](ConnInv /\ accepted \in Seq(Msgs))
<1>1. Init => ConnInv /\ accepted \in Seq(Msgs)
  BY ConnInit
<1>2. (ConnInv /\ accepted \in Seq(Msgs)) /\ [Next]_vars => (ConnInv /\ accepted \in Seq(Msgs))'
  BY ConnStep
<1> QED
  BY <1>1, <1>2, PTL DEF Spec

\* Every variable of the client stays in its type, for any number of goroutines, transports
\* and messages, and for any options of the socket.
THEOREM ClientTypes == Spec => []TypeOK
<1>1. ConnInv => TypeOK
  <2> SUFFICES ASSUME ConnInv PROVE TypeOK
    OBVIOUS
  <2>1. SockOK /\ TransOK
    BY Zenon DEF ConnInv
  <2>2. ASSUME NEW x \in Trans PROVE \A e \in {"packet", "error", "close"} : handlers[x][e] \in {"nil", "socket", "probe"}
    BY <2>1 DEF TransOK, Handlers, Owners
  <2>3. ASSUME NEW t \in Threads, NEW i \in DOMAIN stack[t] PROVE FrameOK(stack[t][i])
    <3>1. stack[t][i] \in Frames(t)
      BY Zenon, <2>3 DEF Frames, Elems
    <3>2. stack[t][i] \in AnyFrame /\ FrameInv(t, stack[t][i])
      BY Zenon, <3>1, FrameTypes DEF ConnInv, FramesOK
    <3> QED
      BY <3>2 DEF FrameOK, AnyFrame, FrameInv, ProbeLabels, PacketSeqs, Packets
  <2> QED
    BY Zenon, <2>1, <2>2, <2>3 DEF TypeOK, SockOK, TransOK, TStates, Connections
<1> QED
  BY <1>1, Connected, PTL

\* When the goroutine of a connection ends, the connection is closed: no close, failed probe
\* or fallback leaves one behind, but for the webtransport whose first write fails after it
\* was closed (onClose, readLoop and Open of the transports).
THEOREM ConnectionsClosed == Spec => []NoLeakedConnection
<1>1. ConnInv => NoLeakedConnection
  <2> SUFFICES ASSUME ConnInv, NEW x \in Trans, x \in ws, stack[x] = <<>>
               PROVE  kind[x] = "webtransport" /\ tstate[x] = "closed"
    BY Zenon DEF NoLeakedConnection, Idle
  <2>1. Guard(x) /\ Frames(x) = {}
    BY Zenon, ElemsEmpty DEF ConnInv, Guarded, Frames
  <2> QED
    BY Zenon, <2>1 DEF Guard, At, Loops
<1> QED
  BY <1>1, Connected, PTL
=============================================================================
