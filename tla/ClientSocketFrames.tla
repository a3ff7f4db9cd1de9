------------------------- MODULE ClientSocketFrames -------------------------
(***************************************************************************)
(* The inductive invariant ConnInv of the client's socket and its          *)
(* transports, and the lemmas that its proof in ClientSocketProofs rests   *)
(* on, for any number of goroutines, transports and messages and for any   *)
(* options.                                                                *)
(*                                                                         *)
(* ConnInv says of every frame of every goroutine what it stands for       *)
(* (FrameInv), of the transports which states they may be in (KindOK), and *)
(* of a connection that its goroutine will close it (Guard).  Most steps   *)
(* are quiet: one goroutine replaces its innermost frame by new ones.  The *)
(* others construct a transport or start a goroutine (PairStep).           *)
(***************************************************************************)
EXTENDS ClientSocket, TLAPS

\* What a frame may carry.
Packets == Msgs \cup PacketNames
PacketSeqs == Seq(Packets)

\* The frames there are, whatever their labels.
AnyFrame ==
  [at : Labels, x : Trans \cup {Nil}, ps : PacketSeqs \cup SUBSET Nat, n : Nat]

\* Every stack is a sequence of frames.
StackOK == stack \in [Threads -> Seq(AnyFrame)]

\* The frames of goroutine t, and those under the innermost one.
Elems(s) == {s[i] : i \in DOMAIN s}
Frames(t) == Elems(stack[t])
Under(t) == IF stack[t] = <<>> THEN {} ELSE Elems(Tail(stack[t]))

\* The elements of the sequences that steps push.
LEMMA ElemsEmpty == Elems(<<>>) = {}
  BY DEF Elems

\* One frame.
LEMMA Elems1 == ASSUME NEW a PROVE Elems(<<a>>) = {a}
  BY DEF Elems

\* Two frames.
LEMMA Elems2 == ASSUME NEW a, NEW b PROVE Elems(<<a, b>>) = {a, b}
  BY DEF Elems

\* Three frames.
LEMMA Elems3 == ASSUME NEW a, NEW b, NEW c PROVE Elems(<<a, b, c>>) = {a, b, c}
  BY DEF Elems

\* The elements of a sequence are its head and those of its tail.
LEMMA ElemsSplit ==
  ASSUME NEW S, NEW s \in Seq(S), s # <<>>
  PROVE  /\ Head(s) \in S /\ Tail(s) \in Seq(S)
         /\ Elems(s) = {Head(s)} \cup Elems(Tail(s))
<1>1. /\ Head(s) = s[1] /\ Head(s) \in S /\ Tail(s) \in Seq(S) /\ Len(s) \in Nat \ {0}
      /\ DOMAIN Tail(s) = 1..(Len(s) - 1) /\ DOMAIN s = 1..Len(s)
      /\ \A i \in 1..(Len(s) - 1) : Tail(s)[i] = s[i + 1]
  OBVIOUS
<1>2. ASSUME NEW i \in DOMAIN s PROVE i = 1 \/ i - 1 \in 1..(Len(s) - 1)
  BY <1>1
<1>3. ASSUME NEW i \in 1..(Len(s) - 1) PROVE i + 1 \in DOMAIN s /\ (i + 1) - 1 = i
  BY <1>1
<1>4. ASSUME NEW i \in 1..Len(s) PROVE (i - 1) + 1 = i
  BY <1>1
<1>5. ASSUME NEW i \in DOMAIN s PROVE s[i] = Head(s) \/ \E j \in DOMAIN Tail(s) : s[i] = Tail(s)[j]
  BY Zenon, <1>1, <1>2, <1>4
<1>6. 1 \in DOMAIN s
  BY <1>1
<1>7. ASSUME NEW f \in Elems(s) PROVE f \in {Head(s)} \cup Elems(Tail(s))
  BY Zenon, <1>5 DEF Elems
<1>8. ASSUME NEW f \in Elems(Tail(s)) PROVE f \in Elems(s)
  <2>1. PICK i \in DOMAIN Tail(s) : f = Tail(s)[i]
    BY Zenon DEF Elems
  <2>2. i + 1 \in DOMAIN s /\ f = s[i + 1]
    BY <1>1, <2>1
  <2> QED
    BY Zenon, <2>2 DEF Elems
<1>9. Head(s) \in Elems(s)
  BY Zenon, <1>1, <1>6 DEF Elems
<1> QED
  BY Zenon, <1>1, <1>7, <1>8, <1>9

\* A sequence of two or more has a tail.
LEMMA TailLeft ==
  ASSUME NEW S, NEW s \in Seq(S), s # <<>>, Len(s) > 1
  PROVE  Tail(s) \in Seq(S) /\ Tail(s) # <<>>
<1>1. Tail(s) \in Seq(S) /\ Len(Tail(s)) = Len(s) - 1 /\ Len(s) \in Nat
  OBVIOUS
<1>2. Len(Tail(s)) # 0 /\ Len(<<>>) = 0
  BY <1>1
<1> QED
  BY Zenon, <1>1, <1>2

\* The elements of a concatenation are those of its parts.
LEMMA ElemsConcat ==
  ASSUME NEW S, NEW s \in Seq(S), NEW u \in Seq(S)
  PROVE  s \o u \in Seq(S) /\ Elems(s \o u) = Elems(s) \cup Elems(u)
<1>1. /\ s \o u \in Seq(S) /\ DOMAIN s = 1..Len(s) /\ DOMAIN u = 1..Len(u)
      /\ DOMAIN (s \o u) = 1..(Len(s) + Len(u)) /\ Len(s) \in Nat /\ Len(u) \in Nat
      /\ \A i \in 1..Len(s) : (s \o u)[i] = s[i]
      /\ \A i \in (Len(s) + 1)..(Len(s) + Len(u)) : (s \o u)[i] = u[i - Len(s)]
  OBVIOUS
<1>2. \A i \in DOMAIN (s \o u) :
        \/ i \in DOMAIN s /\ (s \o u)[i] = s[i]
        \/ i - Len(s) \in DOMAIN u /\ (s \o u)[i] = u[i - Len(s)]
  BY <1>1
<1>3. \A i \in DOMAIN s : i \in DOMAIN (s \o u) /\ (s \o u)[i] = s[i]
  BY <1>1
<1>4. \A i \in DOMAIN u : i + Len(s) \in DOMAIN (s \o u) /\ (s \o u)[i + Len(s)] = u[i]
  BY <1>1
<1>5. ASSUME NEW f \in Elems(s \o u) PROVE f \in Elems(s) \cup Elems(u)
  BY Zenon, <1>2 DEF Elems
<1>6. ASSUME NEW f \in Elems(s) PROVE f \in Elems(s \o u)
  BY Zenon, <1>3 DEF Elems
<1>7. ASSUME NEW f \in Elems(u) PROVE f \in Elems(s \o u)
  BY Zenon, <1>4 DEF Elems
<1> QED
  BY Zenon, <1>1, <1>5, <1>6, <1>7

\* The same of sequences of frames.
LEMMA FrameConcat ==
  ASSUME NEW s \in Seq(AnyFrame), NEW u \in Seq(AnyFrame)
  PROVE  s \o u \in Seq(AnyFrame) /\ Elems(s \o u) = Elems(s) \cup Elems(u)
<1> DEFINE A == AnyFrame
<1>1. s \in Seq(A) /\ u \in Seq(A)
  OBVIOUS
<1> HIDE DEF A
<1>2. s \o u \in Seq(A) /\ Elems(s \o u) = Elems(s) \cup Elems(u)
  BY ZenonT(60), <1>1, ElemsConcat
<1> QED
  BY <1>2 DEF A

\* The head and the tail of a concatenation.
LEMMA ConcatSplit ==
  ASSUME NEW S, NEW s \in Seq(S), NEW u \in Seq(S), s # <<>>
  PROVE  s \o u # <<>> /\ Head(s \o u) = Head(s) /\ Tail(s \o u) = Tail(s) \o u
  OBVIOUS
-----------------------------------------------------------------------------
\* Goroutine t alone takes a step, from a stack that is not empty, to the frames fs on top of
\* what was under its innermost one.
LEMMA ThenStack ==
  ASSUME StackOK, NEW t \in Threads, stack[t] # <<>>, NEW fs \in Seq(AnyFrame), Then(t, fs)
  PROVE  /\ StackOK' /\ config' = config
         /\ \A u \in Threads \ {t} : stack'[u] = stack[u]
         /\ stack'[t] = fs \o Tail(stack[t])
         /\ Frames(t)' = Elems(fs) \cup Under(t)
<1>1. /\ stack[t] \in Seq(AnyFrame) /\ stack' = [stack EXCEPT ![t] = fs \o Tail(stack[t])]
      /\ config' = config
  BY DEF Then, StackOK
<1>2. Tail(stack[t]) \in Seq(AnyFrame)
  BY <1>1
<1>3. fs \o Tail(stack[t]) \in Seq(AnyFrame)
  BY <1>2
<1>4. stack'[t] = fs \o Tail(stack[t]) /\ \A u \in Threads \ {t} : stack'[u] = stack[u]
  BY <1>1, <1>2 DEF StackOK
<1>5. StackOK'
  BY <1>1, <1>3 DEF StackOK
<1>6. Frames(t)' = Elems(fs) \cup Under(t)
  <2>1. Elems(fs \o Tail(stack[t])) = Elems(fs) \cup Elems(Tail(stack[t]))
    BY ZenonT(30), <1>2, FrameConcat
  <2> QED
    BY Zenon, <1>4, <2>1 DEF Frames, Under
<1> QED
  BY <1>1, <1>4, <1>5, <1>6

\* The innermost frame returns.
LEMMA Pops ==
  ASSUME StackOK, NEW t \in Threads, stack[t] # <<>>, Then(t, <<>>)
  PROVE  /\ StackOK' /\ config' = config
         /\ \A u \in Threads \ {t} : stack'[u] = stack[u]
         /\ stack'[t] = Tail(stack[t])
         /\ Frames(t)' = Under(t) /\ Under(t)' \subseteq Under(t)
         /\ stack'[t] # <<>> => Top(t)' \in Under(t)
<1>1. <<>> \in Seq(AnyFrame) /\ stack[t] \in Seq(AnyFrame)
  BY DEF StackOK
<1>2. Tail(stack[t]) \in Seq(AnyFrame) /\ <<>> \o Tail(stack[t]) = Tail(stack[t])
  BY <1>1
<1>3. stack'[t] = Tail(stack[t]) /\ Frames(t)' = Under(t)
  BY Zenon, <1>1, <1>2, ThenStack, ElemsEmpty
<1>4. CASE Tail(stack[t]) = <<>>
  BY Zenon, <1>1, <1>3, <1>4, ThenStack DEF Under
<1>5. CASE Tail(stack[t]) # <<>>
  <2>1. /\ Elems(Tail(stack[t])) = {Head(Tail(stack[t]))} \cup Elems(Tail(Tail(stack[t])))
    BY Zenon, <1>2, <1>5, ElemsSplit
  <2> QED
    BY Zenon, <1>1, <1>3, <1>5, <2>1, ThenStack DEF Under, Top
<1> QED
  BY Zenon, <1>4, <1>5

\* The innermost frame gives way to the frames of fs.
LEMMA Pushes ==
  ASSUME StackOK, NEW t \in Threads, stack[t] # <<>>, NEW fs \in Seq(AnyFrame), fs # <<>>,
         Then(t, fs)
  PROVE  /\ StackOK' /\ config' = config
         /\ \A u \in Threads \ {t} : stack'[u] = stack[u]
         /\ stack'[t] = fs \o Tail(stack[t])
         /\ stack'[t] # <<>> /\ Top(t)' = Head(fs)
         /\ Under(t)' = Elems(Tail(fs)) \cup Under(t)
         /\ Frames(t)' = Elems(fs) \cup Under(t)
<1>1. stack[t] \in Seq(AnyFrame)
  BY DEF StackOK
<1>2. Tail(stack[t]) \in Seq(AnyFrame) /\ Tail(fs) \in Seq(AnyFrame)
  BY <1>1
<1>3. /\ stack'[t] = fs \o Tail(stack[t]) /\ stack'[t] # <<>> /\ Top(t)' = Head(fs)
      /\ Tail(stack'[t]) = Tail(fs) \o Tail(stack[t])
  <2>1. /\ fs \o Tail(stack[t]) # <<>> /\ Head(fs \o Tail(stack[t])) = Head(fs)
        /\ Tail(fs \o Tail(stack[t])) = Tail(fs) \o Tail(stack[t])
    BY ZenonT(30), <1>2, ConcatSplit
  <2> QED
    BY Zenon, <2>1, ThenStack DEF Top
<1>4. Under(t)' = Elems(Tail(fs)) \cup Under(t)
  <2>1. Elems(Tail(fs) \o Tail(stack[t])) = Elems(Tail(fs)) \cup Elems(Tail(stack[t]))
    BY ZenonT(30), <1>2, FrameConcat
  <2> QED
    BY Zenon, <1>3, <2>1 DEF Under
<1> QED
  BY Zenon, <1>3, <1>4, ThenStack

\* The innermost frame gives way to one frame, or to two.
LEMMA Push1 ==
  ASSUME StackOK, NEW t \in Threads, stack[t] # <<>>, NEW a \in AnyFrame, Then(t, <<a>>)
  PROVE  /\ StackOK' /\ config' = config
         /\ \A u \in Threads \ {t} : stack'[u] = stack[u]
         /\ stack'[t] # <<>> /\ Top(t)' = a
         /\ Under(t)' = Under(t) /\ Frames(t)' = {a} \cup Under(t)
<1>1. <<a>> \in Seq(AnyFrame) /\ <<a>> # <<>> /\ Head(<<a>>) = a /\ Tail(<<a>>) = <<>>
  OBVIOUS
<1>2. Elems(<<a>>) = {a} /\ Elems(<<>>) = {}
  BY Zenon, Elems1, ElemsEmpty
<1> QED
  BY Zenon, <1>1, <1>2, Pushes

\* A call of two frames replaces the innermost one.
LEMMA Push2 ==
  ASSUME StackOK, NEW t \in Threads, stack[t] # <<>>, NEW a \in AnyFrame, NEW b \in AnyFrame,
         Then(t, <<a, b>>)
  PROVE  /\ StackOK' /\ config' = config
         /\ \A u \in Threads \ {t} : stack'[u] = stack[u]
         /\ stack'[t] # <<>> /\ Top(t)' = a
         /\ Under(t)' = {b} \cup Under(t) /\ Frames(t)' = {a, b} \cup Under(t)
<1>1. /\ <<a, b>> \in Seq(AnyFrame) /\ <<a, b>> # <<>> /\ Head(<<a, b>>) = a
      /\ Tail(<<a, b>>) = <<b>>
  OBVIOUS
<1>2. Elems(<<a, b>>) = {a, b} /\ Elems(<<b>>) = {b}
  BY Zenon, Elems1, Elems2
<1> QED
  BY Zenon, <1>1, <1>2, Pushes

\* A call of three frames replaces the innermost one.
LEMMA Push3 ==
  ASSUME StackOK, NEW t \in Threads, stack[t] # <<>>, NEW a \in AnyFrame, NEW b \in AnyFrame,
         NEW c \in AnyFrame, Then(t, <<a, b, c>>)
  PROVE  /\ StackOK' /\ config' = config
         /\ \A u \in Threads \ {t} : stack'[u] = stack[u]
         /\ stack'[t] # <<>> /\ Top(t)' = a
         /\ Under(t)' = {b, c} \cup Under(t) /\ Frames(t)' = {a, b, c} \cup Under(t)
<1>1. /\ <<a, b, c>> \in Seq(AnyFrame) /\ <<a, b, c>> # <<>> /\ Head(<<a, b, c>>) = a
      /\ Tail(<<a, b, c>>) = <<b, c>>
  OBVIOUS
<1>2. Elems(<<a, b, c>>) = {a, b, c} /\ Elems(<<b, c>>) = {b, c}
  BY Zenon, Elems2, Elems3
<1> QED
  BY Zenon, <1>1, <1>2, Pushes

\* A goroutine that was idle begins, and one is started by another.
LEMMA Begins ==
  ASSUME StackOK, NEW t \in Threads, stack[t] = <<>>, NEW fs \in Seq(AnyFrame), Begin(t, fs)
  PROVE  /\ StackOK' /\ config' = config
         /\ \A u \in Threads \ {t} : stack'[u] = stack[u]
         /\ stack'[t] = fs /\ Frames(t)' = Elems(fs)
<1>1. StackOK' /\ stack'[t] = fs /\ \A u \in Threads \ {t} : stack'[u] = stack[u]
  BY DEF Begin, StackOK
<1> QED
  BY Zenon, <1>1 DEF Begin, Frames

\* Goroutine t goes on with the frames fs, and starts the idle goroutine u with one.
LEMMA GoPush ==
  ASSUME StackOK, NEW t \in Threads, stack[t] # <<>>, NEW fs \in Seq(AnyFrame),
         NEW u \in Threads, stack[u] = <<>>, NEW b \in AnyFrame, ThenGo(t, fs, u, <<b>>)
  PROVE  /\ StackOK' /\ config' = config
         /\ \A v \in Threads \ {t, u} : stack'[v] = stack[v]
         /\ stack'[t] = fs \o Tail(stack[t]) /\ stack'[u] = <<b>>
         /\ Frames(t)' = Elems(fs) \cup Under(t)
         /\ Frames(u)' = {b} /\ Under(u)' = {} /\ Top(u)' = b
<1>1. /\ stack[t] \in Seq(AnyFrame) /\ config' = config /\ t # u
      /\ stack' = [stack EXCEPT ![t] = fs \o Tail(stack[t]), ![u] = <<b>>]
  BY DEF ThenGo, StackOK
<1>2. Tail(stack[t]) \in Seq(AnyFrame) /\ <<b>> \in Seq(AnyFrame)
  BY <1>1
<1>3. fs \o Tail(stack[t]) \in Seq(AnyFrame)
  BY ZenonT(30), <1>2, FrameConcat
<1>4. /\ StackOK' /\ stack'[t] = fs \o Tail(stack[t]) /\ stack'[u] = <<b>>
      /\ \A v \in Threads \ {t, u} : stack'[v] = stack[v]
  BY Zenon, <1>1, <1>2, <1>3 DEF StackOK
<1>5. Elems(fs \o Tail(stack[t])) = Elems(fs) \cup Elems(Tail(stack[t]))
  BY ZenonT(30), <1>2, FrameConcat
<1>6. Frames(t)' = Elems(fs) \cup Under(t)
  BY Zenon, <1>4, <1>5 DEF Frames, Under
<1>7. <<b>> # <<>> /\ Tail(<<b>>) = <<>> /\ Head(<<b>>) = b
  OBVIOUS
<1>8. Frames(u)' = {b} /\ Under(u)' = {} /\ Top(u)' = b
  BY Zenon, <1>4, <1>7, Elems1, ElemsEmpty DEF Frames, Under, Top
<1> QED
  BY Zenon, <1>1, <1>4, <1>6, <1>8

-----------------------------------------------------------------------------
(* The inductive invariant, part one: types, and what the frames stand for. *)

\* The steps of an upgrade, on the goroutine of the probing transport.
UpLabels ==
  {"upgradeBegin", "upgradeWait", "upgradeSend", "restore", "pause", "pausing", "drain",
   "adopt", "bind"}

\* The steps that a transport takes on its own goroutine.
OwnLabels ==
  {"poll", "request", "dispatch", "dial", "tOnOpen", "probePing", "read", "reading", "tPacket",
   "onPacket", "recordOpen", "opened"}

\* The other steps whose frames name a transport.
OtherLabels ==
  {"start", "detach", "tClose", "tCloseSend", "tBeginClose", "tAwait", "tUnlock", "tOnClose",
   "tError", "chunk", "write", "flushed", "flushFailed", "await", "signal", "pausing", "drain"}

\* The steps of a polling transport only.
PollLabels == {"poll", "request", "dispatch"}

\* The frames with candidates, and those with a run context.
ProbeLabels == {"opened", "probe", "await"}
RunLabels == ProbeLabels \cup {"install", "cancel"}

Connections == Kinds \ {"polling"}

\* What a frame f of goroutine t stands for: the transport it names is constructed, and is
\* t itself where t runs its own steps; only a connection dials or takes part in an upgrade;
\* only a polling transport polls or is paused.
FrameInv(t, f) ==
  /\ f.x # Nil => kind[f.x] # Nil
  /\ f.at \in OtherLabels => f.x # Nil
  /\ f.at \in OwnLabels => f.x = t /\ t \in Trans
  /\ f.at \in UpLabels \cup {"dial"} => t \in Trans /\ kind[t] \in Connections
  /\ f.at \in PollLabels => kind[t] = "polling"
  /\ f.at \in {"pausing", "drain"} => kind[f.x] = "polling"
  /\ f.at \in ProbeLabels => f.ps \in SUBSET DOMAIN Upgrades
  /\ f.at \notin ProbeLabels => f.ps \in PacketSeqs
  /\ f.at = "signal" => f.ps \in {<<"ok">>, <<"err">>}
  /\ f.at \in RunLabels => f.n <= MaxOpens

FramesOK == \A t \in Threads : \A f \in Frames(t) : FrameInv(t, f)

Owners == {"nil", "socket", "probe"}
Handlers == [packet : Owners, error : Owners, close : Owners]
TStates == {"opening", "open", "pausing", "paused", "closing", "closed"}

\* The variables of the socket, and those of the transports, stay in their types.
SockOK ==
  /\ config \in Configs
  /\ state \in {"opening", "open", "closing", "closed"}
  /\ transport \in Trans \cup {Nil}
  /\ writeBuffer \in Seq(Msgs \cup {"pong"})
  /\ upgrading \in BOOLEAN /\ flushing \in BOOLEAN
  /\ transports \in Seq(Kinds) /\ transports # <<>>
  /\ priorUpgrade \in Connections \cup {Nil}
  /\ pingTimeoutTimer \in {"nil", "armed"} /\ heartbeat \in BOOLEAN
  /\ opens \in 0..MaxOpens /\ runCancel \in 0..MaxOpens /\ cancelled \subseteq 1..MaxOpens

TransOK ==
  /\ runOf \in [Trans -> 0..MaxOpens]
  /\ kind \in [Trans -> Kinds \cup {Nil}]
  /\ tstate \in [Trans -> TStates]
  /\ ws \subseteq Trans
  /\ handlers \in [Trans -> Handlers]
  /\ pollMu \in [Trans -> Threads \cup {Nil}]
  /\ signal \in [Trans -> {"ok", "err", Nil}]

\* The socket has a transport only once it is constructed; only connections are probed,
\* and a connection is opening, open or closed.
KindOK ==
  /\ transport # Nil => kind[transport] # Nil
  /\ \A x \in Trans : handlers[x].packet = "probe" => kind[x] \in Connections
  /\ \A x \in Trans : kind[x] # "polling" => tstate[x] \in {"opening", "open", "closed"}

\* A goroutine is in the middle of nothing else when it is about to install, to start or to dial.
HeadOnly == \A t \in Threads : \A f \in Under(t) : f.at \notin {"install", "start", "dial"}

\* A transport that is not constructed has no goroutine, no connection and no handlers.
Fresh ==
  \A x \in Trans : kind[x] = Nil => stack[x] = <<>> /\ x \notin ws /\ handlers[x] = Detached

\* Only one goroutine is about to start a transport, whose own goroutine is idle until then.
StartOK ==
  \A t \in Threads : \A f \in Frames(t) : f.at = "start" =>
    /\ stack[f.x] = <<>> /\ f.x \notin ws
    /\ \A u \in Threads : \A g \in Frames(u) : g.at = "start" /\ g.x = f.x => u = t

\* A goroutine that is about to dial has no connection, and does not call onOpen.
DialOK ==
  \A t \in Threads : \A f \in Frames(t) : f.at = "dial" =>
    t \notin ws /\ \A g \in Frames(t) : g.at # "tOnOpen"

\* A frame of the goroutine x that ends with x closed.
LoopFrame(x, f) == f.at \in {"read", "reading"} \/ (f.at = "tOnClose" /\ f.x = x)
Loops(x) == \E f \in Frames(x) : LoopFrame(x, f)

\* The goroutine of a connection will close it: it is reading, or it is about to close.
\* The exception is the webtransport of NoLeakedConnection.
Guard(x) ==
  /\ kind[x] \in Connections
  /\ \/ At(x, "tOnOpen") /\ Loops(x)
     \/ tstate[x] \in {"opening", "open"} /\ Loops(x)
     \/ /\ kind[x] = "webtransport" /\ tstate[x] = "closed"
        /\ \A f \in Frames(x) : f.at # "tOnOpen"
Guarded == \A x \in ws : Guard(x)

ConnInv ==
  /\ StackOK /\ FramesOK /\ SockOK /\ TransOK /\ KindOK
  /\ HeadOnly /\ Fresh /\ StartOK /\ DialOK /\ Guarded

-----------------------------------------------------------------------------
\* The sets of goroutines are disjoint, and Nil is none of them.
LEMMA Apart ==
  /\ Trans \subseteq Threads /\ Senders \subseteq Threads /\ Closers \subseteq Threads
  /\ Probers \subseteq Threads /\ Timer \in Threads
  /\ Nil \notin Threads /\ Nil \notin Trans /\ Nil \notin Kinds /\ Nil \notin Connections
  /\ Timer \notin Trans /\ Timer \notin Probers
  /\ \A x \in Trans : x \notin Senders /\ x \notin Closers /\ x \notin Probers
  BY Zenon, ClientAssumption DEF Threads, Connections

\* What the configuration of the socket may be.
LEMMA ConfigOK ==
  ASSUME SockOK
  PROVE  /\ MaxOpens \in Nat /\ Registered \subseteq Kinds /\ Upgrades \in Seq(Connections)
         /\ TransportList \in Seq(Kinds) /\ TransportList # <<>>
         /\ DOMAIN Upgrades \subseteq Nat
         /\ \A c \in DOMAIN Upgrades : Upgrades[c] \in Connections
<1>1. /\ MaxOpens \in Nat /\ Registered \subseteq Kinds /\ Upgrades \in Seq(Connections)
      /\ TransportList \in Seq(Kinds) /\ TransportList # <<>>
  BY ClientAssumption DEF SockOK, MaxOpens, Registered, Upgrades, TransportList, Connections
<1> QED
  BY <1>1

\* The innermost frame of a goroutine is one of its frames, and so is what is under it.
LEMMA TopFrame ==
  ASSUME StackOK, NEW t \in Threads, stack[t] # <<>>
  PROVE  /\ Top(t) \in AnyFrame /\ Top(t) \in Frames(t)
         /\ Frames(t) = {Top(t)} \cup Under(t) /\ Under(t) \subseteq Frames(t)
<1>1. stack[t] \in Seq(AnyFrame)
  BY DEF StackOK
<1>2. Head(stack[t]) \in AnyFrame /\ Elems(stack[t]) = {Head(stack[t])} \cup Elems(Tail(stack[t]))
  BY ZenonT(30), <1>1, ElemsSplit
<1> QED
  BY Zenon, <1>2 DEF Top, Frames, Under

\* Every frame of a stack has the type of a frame.
LEMMA FrameTypes == ASSUME StackOK, NEW t \in Threads, NEW f \in Frames(t) PROVE f \in AnyFrame
  BY DEF StackOK, Frames, Elems

\* The parts of a frame.
LEMMA FrameParts ==
  ASSUME NEW at \in Labels, NEW x \in Trans \cup {Nil}, NEW ps \in PacketSeqs \cup SUBSET Nat,
         NEW n \in Nat
  PROVE  /\ Frame(at, x, ps, n) \in AnyFrame
         /\ Frame(at, x, ps, n).at = at /\ Frame(at, x, ps, n).x = x
         /\ Frame(at, x, ps, n).ps = ps /\ Frame(at, x, ps, n).n = n
  BY DEF Frame, AnyFrame

\* The packets of a frame without packets, and those of a signal.
LEMMA EmptySeq == <<>> \in PacketSeqs /\ <<"ok">> \in PacketSeqs /\ <<"err">> \in PacketSeqs
  BY DEF PacketSeqs, Packets, PacketNames

\* A frame that a step may push anywhere, and a sequence of such frames.
New(t, f) ==
  /\ f \in AnyFrame /\ FrameInv(t, f) /\ f.at \notin {"install", "start", "dial"}
  /\ f.at = "tOnOpen" => kind[t] = "polling" \/ t \notin ws
Good(t, fs) == fs \in Seq(AnyFrame) /\ \A f \in Elems(fs) : New(t, f)

\* Which sequences of frames a step may push: up to three new ones, and their concatenations.
LEMMA Goods ==
  ASSUME NEW t
  PROVE  /\ Good(t, <<>>)
         /\ \A a : New(t, a) => Good(t, <<a>>)
         /\ \A a, b : New(t, a) /\ New(t, b) => Good(t, <<a, b>>)
         /\ \A a, b, c : New(t, a) /\ New(t, b) /\ New(t, c) => Good(t, <<a, b, c>>)
         /\ \A fs, gs : Good(t, fs) /\ Good(t, gs) => Good(t, fs \o gs)
<1>1. Good(t, <<>>)
  BY ElemsEmpty DEF Good
<1>2. ASSUME NEW a, New(t, a) PROVE Good(t, <<a>>)
  <2>1. <<a>> \in Seq(AnyFrame)
    BY <1>2 DEF New
  <2>2. Elems(<<a>>) = {a}
    BY Zenon, Elems1
  <2> QED
    BY Zenon, <1>2, <2>1, <2>2 DEF Good
<1>3. ASSUME NEW a, NEW b, New(t, a), New(t, b) PROVE Good(t, <<a, b>>)
  <2>1. <<a, b>> \in Seq(AnyFrame)
    BY <1>3 DEF New
  <2>2. Elems(<<a, b>>) = {a, b}
    BY Zenon, Elems2
  <2> QED
    BY Zenon, <1>3, <2>1, <2>2 DEF Good
<1>4. ASSUME NEW a, NEW b, NEW c, New(t, a), New(t, b), New(t, c) PROVE Good(t, <<a, b, c>>)
  <2>1. <<a, b, c>> \in Seq(AnyFrame)
    BY <1>4 DEF New
  <2>2. Elems(<<a, b, c>>) = {a, b, c}
    BY Zenon, Elems3
  <2> QED
    BY Zenon, <1>4, <2>1, <2>2 DEF Good
<1>5. ASSUME NEW fs, NEW gs, Good(t, fs), Good(t, gs) PROVE Good(t, fs \o gs)
  <2>1. fs \in Seq(AnyFrame) /\ gs \in Seq(AnyFrame)
    BY <1>5 DEF Good
  <2>2. fs \o gs \in Seq(AnyFrame) /\ Elems(fs \o gs) = Elems(fs) \cup Elems(gs)
    BY ZenonT(30), <2>1, FrameConcat
  <2> QED
    BY Zenon, <1>5, <2>2 DEF Good
<1> QED
  BY Zenon, <1>1, <1>2, <1>3, <1>4, <1>5

\* The frames that name no transport, one that is constructed, or the one that pushes them.
LEMMA NewFrame ==
  ASSUME SockOK, NEW t \in Threads
  PROVE  /\ \A at \in {"flush", "closeTransport", "onClose", "onError", "reschedule", "pong", "reopen"} :
              New(t, F(at, Nil))
         /\ \A at \in {"detach", "tClose", "tCloseSend", "tBeginClose", "tAwait", "tUnlock",
                       "tOnClose", "tError"} :
              \A x \in Trans : kind[x] # Nil => New(t, F(at, x))
         /\ \A at \in {"poll", "request", "dispatch", "probePing", "read", "reading",
                       "recordOpen"} :
              t \in Trans /\ kind[t] # Nil /\ (at \in PollLabels => kind[t] = "polling") =>
                New(t, F(at, t))
<1>1. \A at \in Labels, x \in Trans \cup {Nil} :
        /\ F(at, x) \in AnyFrame /\ F(at, x).at = at /\ F(at, x).x = x
        /\ F(at, x).ps = <<>> /\ F(at, x).n = 0
  BY FrameParts, EmptySeq DEF F
<1>2. 0 <= MaxOpens
  BY ConfigOK
<1>3. ASSUME NEW at \in {"flush", "closeTransport", "onClose", "onError", "reschedule", "pong", "reopen"}
      PROVE  New(t, F(at, Nil))
  <2>1. at \notin OtherLabels /\ at \notin OwnLabels /\ at \notin ProbeLabels
        /\ at \notin UpLabels \cup {"dial", "install", "start", "signal", "pausing", "drain"}
        /\ at # "tOnOpen" /\ at \notin PollLabels
    BY Zenon DEF OtherLabels, OwnLabels, UpLabels, ProbeLabels, PollLabels
  <2>0. at \in Labels
    BY Zenon DEF Labels
  <2>2. /\ F(at, Nil) \in AnyFrame /\ F(at, Nil).at = at /\ F(at, Nil).x = Nil
        /\ F(at, Nil).ps = <<>> /\ F(at, Nil).n = 0
    BY Zenon, <1>1, <2>0, Apart
  <2> QED
    BY Zenon, <1>2, <1>3, <2>1, <2>2, EmptySeq, Apart DEF New, FrameInv
<1>4. ASSUME NEW at \in {"detach", "tClose", "tCloseSend", "tBeginClose", "tAwait", "tUnlock",
                       "tOnClose", "tError"},
             NEW x \in Trans, kind[x] # Nil
      PROVE  New(t, F(at, x))
  <2>1. at \notin OwnLabels /\ at \notin ProbeLabels
        /\ at \notin UpLabels \cup {"dial", "install", "start", "signal", "pausing", "drain"}
        /\ at # "tOnOpen" /\ at \notin PollLabels
    BY Zenon DEF OtherLabels, OwnLabels, UpLabels, ProbeLabels, PollLabels
  <2>0. at \in Labels
    BY Zenon DEF Labels
  <2>2. /\ F(at, x) \in AnyFrame /\ F(at, x).at = at /\ F(at, x).x = x
        /\ F(at, x).ps = <<>> /\ F(at, x).n = 0
    BY ZenonT(30), <1>1, <2>0
  <2> QED
    BY Zenon, <1>2, <1>4, <2>1, <2>2, EmptySeq, Apart DEF New, FrameInv
<1>5. ASSUME NEW at \in {"poll", "request", "dispatch", "probePing", "read", "reading",
                       "recordOpen"},
             t \in Trans, kind[t] # Nil, at \in PollLabels => kind[t] = "polling"
      PROVE  New(t, F(at, t))
  <2>1. at \notin OtherLabels /\ at \notin ProbeLabels
        /\ at \notin UpLabels \cup {"dial", "install", "start", "signal", "pausing", "drain"}
        /\ at # "tOnOpen"
    BY Zenon DEF OtherLabels, OwnLabels, UpLabels, ProbeLabels
  <2>0. at \in Labels
    BY Zenon DEF Labels
  <2>2. /\ F(at, t) \in AnyFrame /\ F(at, t).at = at /\ F(at, t).x = t
        /\ F(at, t).ps = <<>> /\ F(at, t).n = 0
    <3>1. t \in Trans \cup {Nil}
      BY Zenon, <1>5
    <3> QED
      BY ZenonT(30), <1>1, <2>0, <3>1
  <2> QED
    BY Zenon, <1>2, <1>5, <2>1, <2>2, EmptySeq, Apart DEF New, FrameInv
<1> QED
  BY Zenon, <1>3, <1>4, <1>5

-----------------------------------------------------------------------------
(* The kinds of steps.                                                      *)

\* Goroutine t alone moves, and starts or dials nothing.
Quiet(t) ==
  /\ StackOK' /\ config' = config
  /\ stack[t] # <<>> \/ t \notin Trans
  /\ \A u \in Threads \ {t} : stack'[u] = stack[u]
  /\ \A f \in Frames(t)' :
       \/ f \in Under(t)
       \/ /\ FrameInv(t, f) /\ f.at \notin {"start", "dial"}
          /\ f.at = "tOnOpen" => kind[t] = "polling" \/ t \notin ws
  /\ \A f \in Under(t)' : f.at \notin {"install", "start", "dial"}
  /\ Under(t) \subseteq Frames(t)'

\* The step leaves the transports constructed so far as they are, and of their connections
\* and handlers all but what t does to its own.
Keeps(t) ==
  /\ kind' = kind
  /\ \A x \in ws' \ {t} : x \in ws /\ tstate'[x] = tstate[x]
  /\ t \in ws' => Guard(t)'
  /\ \A x \in Trans : kind[x] = Nil => handlers'[x] = handlers[x] /\ (x \in ws' => x \in ws)
  /\ SockOK' /\ TransOK' /\ KindOK'

\* A step that pushes new frames is quiet.
LEMMA ThenQuiet ==
  ASSUME ConnInv, NEW t \in Threads, stack[t] # <<>>, NEW fs, Good(t, fs), Then(t, fs)
  PROVE  Quiet(t)
<1>1. fs \in Seq(AnyFrame) /\ \A f \in Elems(fs) : New(t, f)
  BY Zenon DEF Good
<1>2. /\ StackOK' /\ config' = config
      /\ \A u \in Threads \ {t} : stack'[u] = stack[u]
      /\ Frames(t)' = Elems(fs) \cup Under(t)
  BY Zenon, <1>1, ThenStack DEF ConnInv
<1>3. \A f \in Frames(t)' : f \in Under(t) \/ New(t, f)
  BY Zenon, <1>1, <1>2
<1>4. \A f \in Under(t) : f.at \notin {"install", "start", "dial"}
  BY Zenon DEF ConnInv, HeadOnly
<1>5. Under(t)' \subseteq Frames(t)'
  <2>1. CASE stack'[t] = <<>>
    BY Zenon, <2>1 DEF Under
  <2>2. CASE stack'[t] # <<>>
    <3>1. stack'[t] \in Seq(AnyFrame)
      BY <1>2 DEF StackOK
    <3>2. Elems(stack'[t]) = {Head(stack'[t])} \cup Elems(Tail(stack'[t]))
      BY ZenonT(30), <2>2, <3>1, ElemsSplit
    <3> QED
      BY Zenon, <2>2, <3>2 DEF Under, Frames
  <2> QED
    BY Zenon, <2>1, <2>2
<1> QED
  BY Zenon, <1>2, <1>3, <1>4, <1>5 DEF Quiet, New

\* A quiet step keeps what is known of the frames.
LEMMA QuietFrames ==
  ASSUME ConnInv, NEW t \in Threads, Quiet(t), kind' = kind
  PROVE  FramesOK' /\ HeadOnly'
<1>1. ASSUME NEW u \in Threads, NEW f, FrameInv(u, f) PROVE FrameInv(u, f)'
  <2>1. MaxOpens' = MaxOpens /\ Upgrades' = Upgrades
    BY Zenon DEF Quiet, MaxOpens, Upgrades
  <2> QED
    BY Zenon, <1>1, <2>1 DEF FrameInv
<1>2. \A u \in Threads \ {t} : Frames(u)' = Frames(u) /\ Under(u)' = Under(u)
  BY Zenon DEF Quiet, Frames, Under
<1>3. Under(t) \subseteq Frames(t)
  <2>1. CASE stack[t] = <<>>
    BY Zenon, <2>1 DEF Under
  <2>2. CASE stack[t] # <<>>
    BY Zenon, <2>2, TopFrame DEF ConnInv
  <2> QED
    BY Zenon, <2>1, <2>2
<1>4. \A f \in Frames(t)' : FrameInv(t, f)
  BY Zenon, <1>3 DEF Quiet, ConnInv, FramesOK
<1>5. FramesOK'
  BY Zenon, <1>1, <1>2, <1>4 DEF ConnInv, FramesOK
<1>6. HeadOnly'
  BY Zenon, <1>2 DEF Quiet, ConnInv, HeadOnly
<1> QED
  BY Zenon, <1>5, <1>6

\* A quiet step that keeps what is known of the transports keeps the invariant.
LEMMA QuietStep ==
  ASSUME ConnInv, NEW t \in Threads, Quiet(t), Keeps(t)
  PROVE  ConnInv'
<1>1. FramesOK' /\ HeadOnly'
  BY Zenon, QuietFrames DEF Keeps
<1>2. \A u \in Threads \ {t} : Frames(u)' = Frames(u) /\ stack'[u] = stack[u]
  BY Zenon DEF Quiet, Frames
<1>3. Under(t) \subseteq Frames(t)
  <2>1. CASE stack[t] = <<>>
    BY Zenon, <2>1 DEF Under
  <2>2. CASE stack[t] # <<>>
    BY Zenon, <2>2, TopFrame DEF ConnInv
  <2> QED
    BY Zenon, <2>1, <2>2
<1>4. ASSUME NEW u \in Threads, NEW f \in Frames(u)', f.at \in {"start", "dial"}
      PROVE  f \in Frames(u) /\ u # t
  BY Zenon, <1>2, <1>4 DEF Quiet, ConnInv, HeadOnly
<1>5. Fresh'
  <2> SUFFICES ASSUME NEW x \in Trans, kind[x] = Nil
               PROVE  stack'[x] = <<>> /\ x \notin ws' /\ handlers'[x] = Detached
    BY Zenon DEF Fresh, Keeps
  <2>1. stack[x] = <<>> /\ x \notin ws /\ handlers[x] = Detached
    BY Zenon DEF ConnInv, Fresh
  <2> QED
    BY Zenon, <1>2, <2>1, Apart DEF Quiet, Keeps
<1>6. StartOK'
  <2> SUFFICES ASSUME NEW u \in Threads, NEW f \in Frames(u)', f.at = "start"
               PROVE  /\ stack'[f.x] = <<>> /\ f.x \notin ws'
                      /\ \A v \in Threads : \A g \in Frames(v)' : g.at = "start" /\ g.x = f.x => v = u
    BY Zenon DEF StartOK
  <2>1. f \in Frames(u) /\ u # t
    BY Zenon, <1>4
  <2>2. /\ stack[f.x] = <<>> /\ f.x \notin ws
        /\ \A v \in Threads : \A g \in Frames(v) : g.at = "start" /\ g.x = f.x => v = u
    BY Zenon, <2>1 DEF ConnInv, StartOK
  <2>3. f.x \in Trans
    <3>1. f \in AnyFrame /\ FrameInv(u, f)
      BY Zenon, <2>1, FrameTypes DEF ConnInv, FramesOK
    <3> QED
      BY Zenon, <3>1 DEF FrameInv, AnyFrame, OtherLabels
  <2>4. f.x # t
    BY Zenon, <2>2, <2>3 DEF Quiet
  <2> QED
    BY Zenon, <1>2, <1>4, <2>2, <2>3, <2>4, Apart DEF Keeps
<1>7. DialOK'
  BY Zenon, <1>4, <1>2 DEF ConnInv, DialOK, Keeps
<1>8. Guarded'
  <2> SUFFICES ASSUME NEW x \in ws', x # t PROVE Guard(x)'
    BY Zenon DEF Guarded, Guard, Keeps
  <2>1. x \in ws /\ tstate'[x] = tstate[x] /\ kind'[x] = kind[x] /\ x \in Threads
    BY Zenon, Apart DEF Keeps, ConnInv, TransOK
  <2>2. stack'[x] = stack[x]
    BY Zenon, <1>2, <2>1
  <2>3. Guard(x)
    BY Zenon, <2>1 DEF ConnInv, Guarded, Guard
  <2> QED
    BY Zenon, <2>1, <2>2, <2>3 DEF Guard, At, Loops, Frames, LoopFrame
<1> QED
  BY Zenon, <1>1, <1>5, <1>6, <1>7, <1>8 DEF ConnInv, Quiet, Keeps

-----------------------------------------------------------------------------
\* What is known of the innermost frame of a goroutine.
LEMMA TopKnown ==
  ASSUME ConnInv, NEW t \in Threads, stack[t] # <<>>
  PROVE  /\ Top(t) \in AnyFrame /\ Top(t) \in Frames(t) /\ FrameInv(t, Top(t))
         /\ Top(t).at \in Labels /\ Top(t).x \in Trans \cup {Nil} /\ Top(t).n \in Nat
         /\ Top(t).x # Nil => Top(t).x \in Trans /\ kind[Top(t).x] # Nil
         /\ Top(t).at \in OtherLabels => Top(t).x # Nil
         /\ Top(t).at \in OwnLabels => Top(t).x = t /\ t \in Trans /\ kind[t] # Nil
         /\ Top(t).at \notin ProbeLabels => Top(t).ps \in PacketSeqs
         /\ Top(t).at \in ProbeLabels => Top(t).ps \in SUBSET DOMAIN Upgrades
<1>1. Top(t) \in AnyFrame /\ Top(t) \in Frames(t)
  BY Zenon, TopFrame DEF ConnInv
<1>2. FrameInv(t, Top(t))
  BY Zenon, <1>1 DEF ConnInv, FramesOK
<1>3. Top(t).x \in Trans \cup {Nil} /\ Top(t).n \in Nat /\ Top(t).at \in Labels
  BY <1>1 DEF AnyFrame
<1> QED
  BY Zenon, <1>1, <1>2, <1>3, Apart DEF FrameInv

\* The frames that differ from another one in a field.
LEMMA FrameExcept ==
  ASSUME NEW f \in AnyFrame, NEW a, NEW ps
  PROVE  /\ [f EXCEPT !.at = a] = Frame(a, f.x, f.ps, f.n)
         /\ [f EXCEPT !.ps = ps] = Frame(f.at, f.x, ps, f.n)
<1>1. [f EXCEPT !.at = a] = Frame(a, f.x, f.ps, f.n)
  BY DEF AnyFrame, Frame
<1>2. [f EXCEPT !.ps = ps] = Frame(f.at, f.x, ps, f.n)
  BY DEF AnyFrame, Frame
<1> QED
  BY Zenon, <1>1, <1>2

\* A frame with packets or a count, at a label that asks for nothing else.
LEMMA NewPlain ==
  ASSUME NEW t \in Threads, NEW at \in Labels, NEW x \in Trans \cup {Nil},
         NEW ps \in PacketSeqs, NEW n \in Nat, x # Nil => kind[x] # Nil,
         at \in OtherLabels => x # Nil,
         at \in OwnLabels => x = t /\ t \in Trans,
         at \notin UpLabels \cup {"dial", "install", "start", "pausing", "drain"},
         at \notin ProbeLabels, at = "signal" => ps \in {<<"ok">>, <<"err">>},
         at = "cancel" => n <= MaxOpens,
         at = "tOnOpen" => kind[t] = "polling" \/ t \notin ws,
         at \in PollLabels => kind[t] = "polling"
  PROVE  New(t, Frame(at, x, ps, n))
<1>1. /\ Frame(at, x, ps, n) \in AnyFrame
      /\ Frame(at, x, ps, n).at = at /\ Frame(at, x, ps, n).x = x
      /\ Frame(at, x, ps, n).ps = ps /\ Frame(at, x, ps, n).n = n
  <2>1. ps \in PacketSeqs \cup SUBSET Nat
    OBVIOUS
  <2>2. Frame(at, x, ps, n) \in AnyFrame
    BY ZenonT(30), <2>1, FrameParts
  <2> QED
    BY <2>2 DEF Frame
<1>2. at \in RunLabels => at = "cancel"
  BY Zenon DEF RunLabels
<1> QED
  BY Zenon, <1>1, <1>2 DEF New, FrameInv

\* A frame of an upgrade, on the goroutine of a connection.
LEMMA NewUp ==
  ASSUME SockOK, NEW t \in Trans, kind[t] \in Connections, NEW at \in UpLabels,
         NEW x \in Trans \cup {Nil}, x # Nil => kind[x] # Nil,
         at \in {"pausing", "drain"} => x # Nil /\ kind[x] = "polling",
         NEW ps \in PacketSeqs, NEW n \in Nat
  PROVE  New(t, Frame(at, x, ps, n))
<1>1. /\ Frame(at, x, ps, n) \in AnyFrame
      /\ Frame(at, x, ps, n).at = at /\ Frame(at, x, ps, n).x = x
      /\ Frame(at, x, ps, n).ps = ps /\ Frame(at, x, ps, n).n = n
  <2>1. ps \in PacketSeqs \cup SUBSET Nat /\ at \in Labels
    BY Zenon DEF UpLabels, Labels
  <2>2. Frame(at, x, ps, n) \in AnyFrame
    BY ZenonT(30), <2>1, FrameParts
  <2> QED
    BY <2>2 DEF Frame
<1>2. /\ at \notin OwnLabels /\ at \notin ProbeLabels /\ at \notin RunLabels
      /\ at \in OtherLabels => at \in {"pausing", "drain"}
      /\ at \notin {"install", "start", "dial", "signal", "tOnOpen"} /\ at \notin PollLabels
  BY Zenon DEF UpLabels, OwnLabels, OtherLabels, RunLabels, ProbeLabels, PollLabels
<1>3. t \in Threads
  BY Zenon, Apart
<1> QED
  BY Zenon, <1>1, <1>2, <1>3 DEF New, FrameInv

\* A frame with the candidates of a probe.
LEMMA NewProbe ==
  ASSUME SockOK, NEW t \in Threads, NEW at \in ProbeLabels, NEW x \in Trans \cup {Nil},
         NEW ps \in SUBSET DOMAIN Upgrades, NEW n \in Nat, x # Nil => kind[x] # Nil,
         at = "opened" => x = t /\ t \in Trans, at = "await" => x # Nil, n <= MaxOpens
  PROVE  New(t, Frame(at, x, ps, n))
<1>1. /\ Frame(at, x, ps, n) \in AnyFrame
      /\ Frame(at, x, ps, n).at = at /\ Frame(at, x, ps, n).x = x
      /\ Frame(at, x, ps, n).ps = ps /\ Frame(at, x, ps, n).n = n
  <2>1. at \in Labels
    BY Zenon DEF ProbeLabels, Labels
  <2>2. ps \in PacketSeqs \cup SUBSET Nat
    <3>1. DOMAIN Upgrades \subseteq Nat
      BY Zenon, ConfigOK
    <3> QED
      BY Zenon, <3>1
  <2>3. Frame(at, x, ps, n) \in AnyFrame
    BY ZenonT(30), <2>1, <2>2, FrameParts
  <2> QED
    BY <2>3 DEF Frame
<1>2. /\ at \in OtherLabels => at = "await"
      /\ at \in OwnLabels => at = "opened"
      /\ at \notin UpLabels \cup {"dial", "install", "start", "signal", "pausing", "drain", "tOnOpen"}
      /\ at \notin PollLabels
  BY Zenon DEF UpLabels, OwnLabels, OtherLabels, ProbeLabels, PollLabels
<1> QED
  BY Zenon, <1>1, <1>2 DEF New, FrameInv

\* Steps that leave the variables of the socket, or of the transports, as they are.
LEMMA SockSame ==
  ASSUME SockOK, config' = config, UNCHANGED <<sock, prefs, beat, runCancel, cancelled, opens>>
  PROVE  SockOK'
  BY Zenon DEF SockOK, MaxOpens, sock, prefs, beat

\* A quiet step that still ends with the connection closed keeps its guard.
LEMMA GuardKept ==
  ASSUME ConnInv, NEW t \in Threads, Quiet(t), t \in ws, kind' = kind, tstate'[t] = tstate[t],
         stack[t] # <<>>, Top(t).at # "tOnOpen",
         tstate[t] \in {"opening", "open"} /\ Loops(t) => Loops(t)'
  PROVE  Guard(t)'
<1>1. Guard(t) /\ Under(t) \subseteq Frames(t)
  BY Zenon, TopFrame DEF ConnInv, Guarded
<1>2. ~At(t, "tOnOpen")
  BY Zenon DEF At, Top
<1>3. (\A f \in Frames(t) : f.at # "tOnOpen") => \A f \in Frames(t)' : f.at # "tOnOpen"
  <2>1. kind[t] # "polling"
    BY Zenon, <1>1 DEF Guard, Connections
  <2> QED
    BY Zenon, <1>1, <2>1 DEF Quiet
<1> QED
  BY Zenon, <1>1, <1>2, <1>3 DEF Guard

\* A quiet step from a frame that is not one of the loop keeps the guard.
LEMMA GuardSame ==
  ASSUME ConnInv, NEW t \in Threads, Quiet(t), t \in ws, kind' = kind, tstate'[t] = tstate[t],
         stack[t] # <<>>, Top(t).at # "tOnOpen", ~LoopFrame(t, Top(t))
  PROVE  Guard(t)'
<1>1. Under(t) \subseteq Frames(t)' /\ Frames(t) = {Top(t)} \cup Under(t)
  BY Zenon, TopFrame DEF ConnInv, Quiet
<1>2. Loops(t) => Loops(t)'
  BY Zenon, <1>1 DEF Loops, LoopFrame
<1> QED
  BY Zenon, <1>2, GuardKept

\* A quiet step that leaves the transports alone keeps the invariant.
LEMMA TransSame ==
  ASSUME ConnInv, NEW t \in Threads, Quiet(t), SockOK', UNCHANGED <<runOf, trans>>,
         transport' \notin {transport, Nil} => kind[transport'] # Nil,
         \/ t \notin Trans
         \/ stack[t] # <<>> /\ Top(t).at \notin {"tOnOpen", "read", "reading", "tOnClose"}
  PROVE  ConnInv'
<1>1. /\ kind' = kind /\ ws' = ws /\ tstate' = tstate /\ handlers' = handlers
      /\ pollMu' = pollMu /\ signal' = signal /\ runOf' = runOf /\ config' = config
  BY Zenon DEF trans, Quiet
<1>2. TransOK'
  BY Zenon, <1>1 DEF ConnInv, TransOK, MaxOpens
<1>3. KindOK'
  BY Zenon, <1>1 DEF ConnInv, KindOK
<1>4. t \in ws' => Guard(t)'
  BY Zenon, <1>1, GuardSame DEF ConnInv, TransOK, LoopFrame
<1> QED
  BY Zenon, <1>1, <1>2, <1>3, <1>4, QuietStep DEF Keeps

\* What is in a payload, in the buffer, and in the frame of a flush.
LEMMA BufferTypes ==
  ASSUME SockOK
  PROVE  /\ writeBuffer \in PacketSeqs /\ Len(writeBuffer) \in Nat
         /\ \A m \in Msgs \cup {"pong"} : Append(writeBuffer, m) \in Seq(Msgs \cup {"pong"})
         /\ \A n \in Nat : SubSeq(writeBuffer, n + 1, Len(writeBuffer)) \in Seq(Msgs \cup {"pong"})
<1>1. writeBuffer \in Seq(Msgs \cup {"pong"})
  BY DEF SockOK
<1>2. \A n \in Nat : SubSeq(writeBuffer, n + 1, Len(writeBuffer)) \in Seq(Msgs \cup {"pong"})
  BY <1>1
<1>3. Len(writeBuffer) \in Nat
     /\ \A m \in Msgs \cup {"pong"} : Append(writeBuffer, m) \in Seq(Msgs \cup {"pong"})
  BY <1>1
<1>4. writeBuffer \in PacketSeqs
  BY <1>1 DEF PacketSeqs, Packets, PacketNames
<1> QED
  BY <1>2, <1>3, <1>4

\* The frames that flush goes on with.
LEMMA FlushFrames ==
  ASSUME ConnInv, NEW t \in Threads, stack[t] # <<>>, Top(t).at \in {"chunk", "write"}
  PROVE  /\ New(t, NextChunk(Top(t))) /\ New(t, [Top(t) EXCEPT !.at = "write"])
         /\ New(t, [Top(t) EXCEPT !.at = "flushFailed"])
<1> DEFINE f == Top(t)
<1>1. f.at \in OtherLabels /\ f.at \notin OwnLabels /\ f.at \notin ProbeLabels
  BY Zenon DEF OtherLabels, OwnLabels, ProbeLabels
<1>2. /\ f \in AnyFrame /\ f.x \in Trans /\ f.x # Nil /\ kind[f.x] # Nil /\ f.n \in Nat
      /\ f.ps \in PacketSeqs
  BY Zenon, <1>1, TopKnown
<1>3. ChunkEnd(f) \in Nat
  BY <1>2, ClientAssumption DEF ChunkEnd, PacketSeqs
<1>4. ASSUME NEW at \in {"chunk", "write", "flushed", "flushFailed"}, NEW n \in Nat
      PROVE  New(t, Frame(at, f.x, f.ps, n))
  <2>1. /\ at \in Labels /\ at \notin OwnLabels /\ at \notin ProbeLabels
        /\ at \notin UpLabels \cup {"dial", "install", "start", "pausing", "drain"}
        /\ at # "signal" /\ at # "cancel" /\ at # "tOnOpen" /\ at \notin PollLabels
    BY Zenon DEF Labels, OwnLabels, ProbeLabels, UpLabels, PollLabels
  <2>2. f.x \in Trans \cup {Nil}
    BY Zenon, <1>2
  <2> HIDE DEF f
  <2> QED
    BY ZenonT(30), <1>2, <2>1, <2>2, NewPlain
<1>5. New(t, NextChunk(f))
  <2>1. CASE ChunkEnd(f) = Len(f.ps)
    BY Zenon, <1>3, <1>4, <2>1 DEF NextChunk
  <2>2. CASE ChunkEnd(f) # Len(f.ps)
    BY Zenon, <1>3, <1>4, <2>2 DEF NextChunk
  <2> QED
    BY Zenon, <2>1, <2>2
<1>6. /\ [f EXCEPT !.at = "write"] = Frame("write", f.x, f.ps, f.n)
      /\ [f EXCEPT !.at = "flushFailed"] = Frame("flushFailed", f.x, f.ps, f.n)
  <2> HIDE DEF f
  <2> QED
    BY Zenon, <1>2, FrameExcept
<1>7. New(t, Frame("write", f.x, f.ps, f.n)) /\ New(t, Frame("flushFailed", f.x, f.ps, f.n))
  <2> HIDE DEF f
  <2> QED
    BY Zenon, <1>2, <1>4
<1> QED
  BY Zenon, <1>5, <1>6, <1>7

\* The steps of flush, its writes included.
LEMMA FlushConn ==
  ASSUME ConnInv, NEW t \in Threads, Flush(t) \/ ChunkWrite(t) \/ ChunkFail(t)
  PROVE  ConnInv'
<1>0. SockOK /\ t \in Threads
  BY Zenon DEF ConnInv
<1>1. CASE FlushClaim(t)
  <2>1. stack[t] # <<>> /\ Top(t).at = "flush"
    BY Zenon, <1>1 DEF FlushClaim, At, Top
  <2>2. CASE CanFlush
    <3>1. New(t, Frame("chunk", transport, writeBuffer, 0))
      <4>1. transport \in Trans /\ kind[transport] # Nil
        BY Zenon, <2>2 DEF CanFlush, ConnInv, KindOK, SockOK
      <4>2. /\ "chunk" \in Labels /\ "chunk" \notin OwnLabels /\ "chunk" \notin ProbeLabels
            /\ "chunk" # "tOnOpen" /\ "chunk" \notin PollLabels
            /\ "chunk" \notin UpLabels \cup {"dial", "install", "start", "pausing", "drain"}
        BY Zenon DEF Labels, OwnLabels, ProbeLabels, UpLabels, PollLabels
      <4>3. 0 \in Nat
        OBVIOUS
      <4> QED
        BY Zenon, <1>0, <4>1, <4>2, <4>3, BufferTypes, NewPlain, Apart
    <3>2. Quiet(t)
      BY Zenon, <1>1, <2>1, <2>2, <3>1, Goods, ThenQuiet DEF FlushClaim
    <3>3. SockOK'
      BY <1>0, <1>1, <2>2, <3>2 DEF FlushClaim, SockOK, Quiet, MaxOpens, prefs, beat, ctx, env
    <3> QED
      BY Zenon, <1>1, <2>1, <3>2, <3>3, TransSame DEF FlushClaim, ctx
  <2>3. CASE ~CanFlush
    <3>1. Quiet(t)
      BY Zenon, <1>1, <2>1, <2>3, Goods, ThenQuiet DEF FlushClaim
    <3>2. SockOK'
      BY Zenon, <1>0, <1>1, <2>3, <3>1, SockSame DEF FlushClaim, Quiet, sock, ctx, env
    <3> QED
      BY Zenon, <1>1, <2>1, <3>1, <3>2, TransSame DEF FlushClaim, ctx
  <2> QED
    BY Zenon, <2>2, <2>3
<1>2. CASE ChunkSend(t) \/ ChunkWrite(t) \/ ChunkFail(t)
  <2>1. /\ stack[t] # <<>> /\ Top(t).at \notin {"tOnOpen", "read", "reading", "tOnClose"}
        /\ New(t, NextChunk(Top(t))) /\ New(t, [Top(t) EXCEPT !.at = "write"])
        /\ New(t, [Top(t) EXCEPT !.at = "flushFailed"])
    <3>1. stack[t] # <<>> /\ Top(t).at \in {"chunk", "write"}
      BY Zenon, <1>2 DEF ChunkSend, ChunkWrite, ChunkFail, At, Top
    <3> QED
      BY Zenon, <3>1, FlushFrames
  <2>2. Quiet(t)
    BY Zenon, <1>2, <2>1, Goods, ThenQuiet DEF ChunkSend, ChunkWrite, ChunkFail
  <2>3. UNCHANGED <<sock, prefs, beat, ctx, trans, opens>>
    BY Zenon, <1>2 DEF ChunkSend, ChunkWrite, ChunkFail, env
  <2>4. SockOK'
    BY Zenon, <1>0, <2>2, <2>3, SockSame DEF Quiet, ctx
  <2> QED
    BY Zenon, <2>1, <2>2, <2>3, <2>4, TransSame DEF ctx, sock
<1>3. CASE FlushEnd(t)
  <2> DEFINE n == Written(Top(t))
             left == SubSeq(writeBuffer, n + 1, Len(writeBuffer))
  <2>1. /\ stack[t] # <<>> /\ Top(t).at \notin {"tOnOpen", "read", "reading", "tOnClose"}
        /\ n \in Nat
    <3>1. stack[t] # <<>> /\ Top(t).at \in {"flushed", "flushFailed"}
      BY Zenon, <1>3 DEF FlushEnd, At, Top
    <3> QED
      BY Zenon, <3>1, TopKnown DEF Written
  <2>2. left \in Seq(Msgs \cup {"pong"})
    BY Zenon, <1>0, <2>1, BufferTypes
  <2>3. Quiet(t)
    BY Zenon, <1>0, <1>3, <2>1, Goods, NewFrame, ThenQuiet DEF FlushEnd
  <2>4. /\ flushing' = FALSE /\ writeBuffer' \in Seq(Msgs \cup {"pong"})
        /\ UNCHANGED <<state, transport, upgrading, prefs, beat, ctx, trans, opens>>
    BY Zenon, <1>0, <1>3, <2>2 DEF FlushEnd, SockOK, env
  <2>5. SockOK'
    BY Zenon, <1>0, <2>3, <2>4 DEF SockOK, Quiet, MaxOpens, prefs, beat, ctx
  <2> QED
    BY Zenon, <2>1, <2>3, <2>4, <2>5, TransSame DEF ctx
<1> QED
  BY Zenon, <1>1, <1>2, <1>3 DEF Flush

-----------------------------------------------------------------------------
(* Steps of one goroutine, by what they change.                             *)

\* The handlers that a transport calls end up in frames that a step may push, as do the
\* frames that detach and close a transport.
LEMMA HandlerGood ==
  ASSUME NEW t, NEW owner, NEW a, NEW b, Good(t, a), Good(t, b)
  PROVE  Good(t, Handler(owner, a, b))
<1>1. CASE owner = "socket"
  BY <1>1 DEF Handler
<1>2. CASE owner = "probe"
  BY <1>2 DEF Handler
<1>3. CASE owner # "socket" /\ owner # "probe"
  <2>1. Handler(owner, a, b) = <<>>
    BY <1>3 DEF Handler
  <2> QED
    BY Zenon, <2>1, Goods
<1> QED
  BY Zenon, <1>1, <1>2, <1>3

\* The frames that close a transport or end a probe may be pushed.
LEMMA EndGood ==
  ASSUME SockOK, NEW t \in Threads, NEW x \in Trans, kind[x] # Nil
  PROVE  Good(t, Discard(x)) /\ Good(t, ProbeEnd(x))
<1>1. New(t, F("detach", x)) /\ New(t, F("tClose", x))
  BY Zenon, NewFrame
<1>2. Good(t, Discard(x))
  BY Zenon, <1>1, Goods DEF Discard
<1>3. New(t, Frame("signal", x, <<"err">>, 0))
  <2>1. /\ "signal" \in Labels /\ "signal" \notin OwnLabels /\ "signal" \notin ProbeLabels
        /\ "signal" \notin UpLabels \cup {"dial", "install", "start", "pausing", "drain"}
        /\ "signal" # "cancel" /\ "signal" # "tOnOpen" /\ "signal" \notin PollLabels
    BY Zenon DEF Labels, OwnLabels, ProbeLabels, UpLabels, PollLabels
  <2>2. x \in Trans \cup {Nil} /\ 0 \in Nat
    OBVIOUS
  <2> QED
    BY ZenonT(30), <2>1, <2>2, EmptySeq, NewPlain, Apart
<1>4. Good(t, ProbeEnd(x))
  BY Zenon, <1>2, <1>3, Goods DEF ProbeEnd
<1> QED
  BY Zenon, <1>2, <1>4

\* The step changes nothing but variables of the socket.
LEMMA SockStep ==
  ASSUME ConnInv, NEW t \in Threads, stack[t] # <<>>,
         Top(t).at \notin {"tOnOpen", "read", "reading", "tOnClose"},
         NEW fs, Good(t, fs), Then(t, fs),
         SockOK', UNCHANGED <<runOf, trans>>,
         transport' \notin {transport, Nil} => kind[transport'] # Nil
  PROVE  ConnInv'
<1>1. Quiet(t)
  BY Zenon, ThenQuiet
<1> QED
  BY Zenon, <1>1, TransSame

\* The step changes the locks and the signals at most.
LEMMA LockStep ==
  ASSUME ConnInv, NEW t \in Threads, stack[t] # <<>>,
         Top(t).at \notin {"tOnOpen", "read", "reading", "tOnClose"},
         NEW fs, Good(t, fs), Then(t, fs),
         UNCHANGED <<sock, prefs, beat, ctx, opens, kind, tstate, ws, handlers>>,
         pollMu' \in [Trans -> Threads \cup {Nil}], signal' \in [Trans -> {"ok", "err", Nil}]
  PROVE  ConnInv'
<1>1. Quiet(t)
  BY Zenon, ThenQuiet
<1>2. /\ kind' = kind /\ tstate' = tstate /\ ws' = ws /\ handlers' = handlers
      /\ runOf' = runOf /\ transport' = transport /\ config' = config
  BY Zenon DEF sock, ctx, Then
<1>3. SockOK'
  BY Zenon, <1>2, SockSame DEF ConnInv, ctx
<1>4. TransOK'
  BY Zenon, <1>2 DEF ConnInv, TransOK, MaxOpens
<1>5. KindOK'
  BY Zenon, <1>2 DEF ConnInv, KindOK
<1>6. t \in ws' => Guard(t)'
  BY Zenon, <1>1, <1>2, GuardSame DEF LoopFrame
<1> QED
  BY Zenon, <1>1, <1>2, <1>3, <1>4, <1>5, <1>6, QuietStep DEF Keeps

\* The step changes nothing but the stack of its goroutine.
LEMMA SameStep ==
  ASSUME ConnInv, NEW t \in Threads, stack[t] # <<>>,
         Top(t).at \notin {"tOnOpen", "read", "reading", "tOnClose"},
         NEW fs, Good(t, fs), Then(t, fs), UNCHANGED <<sock, prefs, beat, ctx, trans, opens>>
  PROVE  ConnInv'
<1>1. /\ UNCHANGED <<kind, tstate, ws, handlers>>
      /\ pollMu' = pollMu /\ signal' = signal
  BY Zenon DEF trans
<1>2. pollMu' \in [Trans -> Threads \cup {Nil}] /\ signal' \in [Trans -> {"ok", "err", Nil}]
  BY Zenon, <1>1 DEF ConnInv, TransOK
<1> QED
  BY Zenon, <1>1, <1>2, LockStep

\* The step changes the handlers of a transport, and leaves a probe's to a connection.
LEMMA HandlersStep ==
  ASSUME ConnInv, NEW t \in Threads, stack[t] # <<>>,
         Top(t).at \notin {"tOnOpen", "read", "reading", "tOnClose"},
         NEW fs, Good(t, fs), Then(t, fs), SockOK', transport' = transport,
         UNCHANGED <<runOf, kind, tstate, ws, pollMu, signal>>,
         NEW x \in Trans, kind[x] # Nil, NEW h \in Handlers,
         h.packet = "probe" => handlers[x].packet = "probe",
         handlers' = [handlers EXCEPT ![x] = h]
  PROVE  ConnInv'
<1>1. Quiet(t)
  BY Zenon, ThenQuiet
<1>2. handlers \in [Trans -> Handlers]
  BY Zenon DEF ConnInv, TransOK
<1>3. /\ handlers' \in [Trans -> Handlers] /\ handlers'[x] = h
      /\ \A y \in Trans : y # x => handlers'[y] = handlers[y]
  BY <1>2
<1>4. TransOK'
  BY Zenon, <1>3 DEF ConnInv, TransOK, MaxOpens, Then
<1>5. KindOK'
  BY Zenon, <1>3 DEF ConnInv, KindOK
<1>6. t \in ws' => Guard(t)'
  BY Zenon, <1>1, GuardSame DEF LoopFrame
<1> QED
  BY Zenon, <1>1, <1>3, <1>4, <1>5, <1>6, QuietStep DEF Keeps

\* The step changes the state of a polling transport.
LEMMA PollingStep ==
  ASSUME ConnInv, NEW t \in Threads, stack[t] # <<>>,
         Top(t).at \notin {"tOnOpen", "read", "reading", "tOnClose"},
         NEW fs, Good(t, fs), Then(t, fs),
         UNCHANGED <<sock, prefs, beat, ctx, opens, kind, ws, handlers, pollMu, signal>>,
         NEW x \in Trans, kind[x] = "polling", NEW v \in TStates,
         tstate' = [tstate EXCEPT ![x] = v]
  PROVE  ConnInv'
<1>1. Quiet(t)
  BY Zenon, ThenQuiet
<1>2. tstate \in [Trans -> TStates]
  BY Zenon DEF ConnInv, TransOK
<1>3. /\ tstate' \in [Trans -> TStates]
      /\ \A y \in Trans : y # x => tstate'[y] = tstate[y]
  BY <1>2
<1>4. UNCHANGED <<runOf, transport, kind>> /\ config' = config
  BY Zenon DEF sock, ctx, Then
<1>5. TransOK'
  BY Zenon, <1>3, <1>4 DEF ConnInv, TransOK, MaxOpens
<1>6. "polling" \notin Connections
  BY Zenon DEF Connections
<1>7. KindOK'
  BY Zenon, <1>3, <1>4, <1>6 DEF ConnInv, KindOK
<1>8. SockOK'
  BY Zenon, <1>4, SockSame DEF ConnInv, ctx
<1>9. x \notin ws /\ ws \subseteq Trans
  BY Zenon, <1>6 DEF ConnInv, Guarded, Guard, TransOK
<1>10. t \in ws' => Guard(t)'
  BY Zenon, <1>1, <1>3, <1>9, GuardSame DEF LoopFrame
<1>11. \A y \in ws' \ {t} : y \in ws /\ tstate'[y] = tstate[y]
  BY Zenon, <1>3, <1>9
<1> QED
  BY Zenon, <1>1, <1>4, <1>5, <1>7, <1>8, <1>10, <1>11, QuietStep DEF Keeps

-----------------------------------------------------------------------------
(* The steps of Transport.                                                  *)

\* Close of a transport, its close packet and its errors.
LEMMA CloseConn ==
  ASSUME ConnInv, NEW t \in Threads, TClose(t) \/ TCloseSend(t) \/ TError(t)
  PROVE  ConnInv'
<1> DEFINE x == Top(t).x
<1>0. SockOK
  BY Zenon DEF ConnInv
<1>1. /\ stack[t] # <<>> /\ Top(t).at \in {"tClose", "tCloseSend", "tError"}
      /\ UNCHANGED <<sock, prefs, beat, ctx, trans, opens>>
  BY Zenon DEF TClose, TCloseSend, TError, At, Top, env
<1>2. /\ Top(t).at \in OtherLabels
      /\ Top(t).at \notin {"tOnOpen", "read", "reading", "tOnClose"}
  BY Zenon, <1>1 DEF OtherLabels
<1>3. x \in Trans /\ kind[x] # Nil
  BY Zenon, <1>1, <1>2, TopKnown
<1>4. /\ New(t, F("tCloseSend", x)) /\ New(t, F("tBeginClose", x)) /\ New(t, F("tError", x))
      /\ New(t, F("onError", Nil))
  BY Zenon, <1>0, <1>3, NewFrame
<1>5. /\ Good(t, <<>>) /\ Good(t, <<F("tCloseSend", x), F("tBeginClose", x)>>)
      /\ Good(t, <<F("tError", x)>>)
      /\ Good(t, Handler(handlers[x].error, <<F("onError", Nil)>>, ProbeEnd(x)))
  BY Zenon, <1>0, <1>3, <1>4, Goods, HandlerGood, EndGood
<1>6. \E fs : Good(t, fs) /\ Then(t, fs)
  BY Zenon, <1>5 DEF TClose, TCloseSend, TError
<1> QED
  BY Zenon, <1>1, <1>2, <1>6, SameStep

\* A polling transport marks itself closing, and waits for the poll in flight; Detach.
LEMMA AwaitConn ==
  ASSUME ConnInv, NEW t \in Threads, TBeginClose(t) \/ TAwait(t) \/ TUnlock(t) \/ Detach(t)
  PROVE  ConnInv'
<1> DEFINE x == Top(t).x
<1>0. SockOK /\ TransOK
  BY Zenon DEF ConnInv
<1>1. stack[t] # <<>> /\ Top(t).at \in {"tBeginClose", "tAwait", "tUnlock", "detach"}
  BY Zenon DEF TBeginClose, TAwait, TUnlock, Detach, At, Top
<1>2. /\ Top(t).at \in OtherLabels
      /\ Top(t).at \notin {"tOnOpen", "read", "reading", "tOnClose"}
  BY Zenon, <1>1 DEF OtherLabels
<1>3. x \in Trans /\ kind[x] # Nil
  BY Zenon, <1>1, <1>2, TopKnown
<1>4. New(t, F("tAwait", x)) /\ New(t, F("tOnClose", x)) /\ New(t, F("tUnlock", x))
  BY Zenon, <1>0, <1>3, NewFrame
<1>5. /\ Good(t, <<>>) /\ Good(t, <<F("tAwait", x)>>) /\ Good(t, <<F("tOnClose", x)>>)
      /\ Good(t, <<F("tOnClose", x), F("tUnlock", x)>>)
  BY Zenon, <1>4, Goods
<1>6. CASE TBeginClose(t)
  <2>1. UNCHANGED <<sock, prefs, beat, ctx, opens, kind, ws, handlers, pollMu, signal>>
    BY Zenon, <1>6 DEF TBeginClose, env
  <2>2. CASE kind[x] # "polling"
    <3>1. Then(t, <<F("tOnClose", x)>>) /\ UNCHANGED tstate
      BY Zenon, <1>6, <2>2 DEF TBeginClose
    <3> QED
      BY Zenon, <1>1, <1>2, <1>5, <2>1, <3>1, SameStep DEF trans
  <2>3. CASE kind[x] = "polling" /\ tstate[x] = "closed"
    <3>1. Then(t, <<>>) /\ UNCHANGED tstate
      BY Zenon, <1>6, <2>3 DEF TBeginClose
    <3> QED
      BY Zenon, <1>1, <1>2, <1>5, <2>1, <3>1, SameStep DEF trans
  <2>4. CASE kind[x] = "polling" /\ tstate[x] # "closed"
    <3>1. Then(t, <<F("tAwait", x)>>) /\ tstate' = [tstate EXCEPT ![x] = "closing"]
      BY Zenon, <1>6, <2>4 DEF TBeginClose
    <3>2. "closing" \in TStates
      BY Zenon DEF TStates
    <3> QED
      BY Zenon, <1>1, <1>2, <1>3, <1>5, <2>1, <2>4, <3>1, <3>2, PollingStep
  <2> QED
    BY Zenon, <2>2, <2>3, <2>4
<1>7. CASE TAwait(t) \/ TUnlock(t)
  <2>1. UNCHANGED <<sock, prefs, beat, ctx, opens, kind, tstate, ws, handlers>> /\ signal' = signal
    BY Zenon, <1>7 DEF TAwait, TUnlock, env
  <2>2. pollMu' \in [Trans -> Threads \cup {Nil}]
    BY Zenon, <1>0, <1>7 DEF TAwait, TUnlock, TransOK
  <2>3. \E fs : Good(t, fs) /\ Then(t, fs)
    BY Zenon, <1>5, <1>7 DEF TAwait, TUnlock
  <2>4. signal' \in [Trans -> {"ok", "err", Nil}]
    BY Zenon, <1>0, <2>1 DEF TransOK
  <2> QED
    BY Zenon, <1>1, <1>2, <2>1, <2>2, <2>3, <2>4, LockStep
<1>8. CASE Detach(t)
  <2>1. /\ UNCHANGED <<sock, prefs, beat, ctx, opens>> /\ transport' = transport
        /\ UNCHANGED <<runOf, kind, tstate, ws, pollMu, signal>>
        /\ handlers' = [handlers EXCEPT ![x] = Detached] /\ Then(t, <<>>)
    BY Zenon, <1>8 DEF Detach, env, sock, ctx
  <2>2. Detached \in Handlers /\ Detached.packet # "probe"
    BY DEF Detached, Handlers, Owners
  <2>3. SockOK'
    BY Zenon, <1>0, <2>1, SockSame DEF ctx, Then
  <2> QED
    BY Zenon, <1>1, <1>2, <1>3, <1>5, <2>1, <2>2, <2>3, HandlersStep
<1> QED
  BY Zenon, <1>6, <1>7, <1>8

\* A transport closes, by its own goroutine or by another.
LEMMA OnCloseConn ==
  ASSUME ConnInv, NEW t \in Threads, TOnClose(t)
  PROVE  ConnInv'
<1> DEFINE x == Top(t).x
           closed == Handler(handlers[x].close, <<F("onClose", Nil)>>, ProbeEnd(x))
<1>0. SockOK /\ TransOK
  BY Zenon DEF ConnInv
<1>1. /\ stack[t] # <<>> /\ Top(t).at = "tOnClose"
      /\ UNCHANGED <<sock, prefs, beat, ctx, opens, kind, handlers, pollMu, signal>>
  BY Zenon DEF TOnClose, At, Top, env
<1>2. /\ Top(t).at \in OtherLabels
      /\ Top(t).at \notin {"tOnOpen", "read", "reading"}
  BY Zenon, <1>1 DEF OtherLabels
<1>3. x \in Trans /\ kind[x] # Nil
  BY Zenon, <1>1, <1>2, TopKnown
<1>4. New(t, F("tError", x)) /\ New(t, F("onClose", Nil))
  BY Zenon, <1>0, <1>3, NewFrame
<1>5. Good(t, <<>>) /\ Good(t, closed) /\ Good(t, <<F("tError", x)>>)
  BY Zenon, <1>0, <1>3, <1>4, Goods, HandlerGood, EndGood
<1>6. Good(t, <<F("tError", x)>> \o closed)
  <2> HIDE DEF closed
  <2> QED
    BY Zenon, <1>5, Goods
<1>7. \E fs : Good(t, fs) /\ Then(t, fs)
  BY Zenon, <1>5, <1>6 DEF TOnClose
<1>8. Quiet(t)
  BY Zenon, <1>1, <1>7, ThenQuiet
<1>9. /\ SockOK' /\ UNCHANGED <<transport, runOf, kind, handlers, pollMu, signal>>
      /\ config' = config
  BY Zenon, <1>0, <1>1, <1>8, SockSame DEF sock, ctx, Quiet
<1>10. x # t => ~LoopFrame(t, Top(t))
  BY Zenon, <1>1 DEF LoopFrame
<1>11. CASE tstate[x] = "closed"
  <2>1. UNCHANGED <<tstate, ws>>
    BY Zenon, <1>11 DEF TOnClose
  <2>2. TransOK' /\ KindOK'
    BY Zenon, <1>9, <2>1 DEF ConnInv, TransOK, KindOK, MaxOpens
  <2>3. t \in ws' => Guard(t)'
    <3>1. CASE x = t
      BY Zenon, <1>1, <1>2, <1>8, <1>9, <1>11, <2>1, <3>1, GuardKept
    <3>2. CASE x # t
      BY Zenon, <1>1, <1>2, <1>8, <1>9, <1>10, <2>1, <3>2, GuardSame
    <3> QED
      BY Zenon, <3>1, <3>2
  <2> QED
    BY Zenon, <1>8, <1>9, <2>1, <2>2, <2>3, QuietStep DEF Keeps
<1>12. CASE tstate[x] # "closed"
  <2>1. tstate' = [tstate EXCEPT ![x] = "closed"] /\ ws' = ws \ {x}
    BY Zenon, <1>12 DEF TOnClose, Disconnect
  <2>2. /\ tstate' \in [Trans -> TStates] /\ ws' \subseteq Trans /\ tstate'[x] = "closed"
        /\ \A y \in Trans : y # x => tstate'[y] = tstate[y]
    <3>1. tstate \in [Trans -> TStates] /\ ws \subseteq Trans /\ "closed" \in TStates
      BY Zenon, <1>0 DEF TransOK, TStates
    <3> HIDE DEF x
    <3> QED
      BY <1>3, <2>1, <3>1
  <2>3. TransOK' /\ KindOK'
    BY Zenon, <1>9, <2>2 DEF ConnInv, TransOK, KindOK, MaxOpens
  <2>4. t \in ws' => Guard(t)'
    <3> SUFFICES ASSUME t \in ws, t # x PROVE Guard(t)'
      BY Zenon, <2>1
    <3>1. tstate'[t] = tstate[t]
      BY Zenon, <2>2, <1>0 DEF TransOK
    <3> QED
      BY Zenon, <1>1, <1>2, <1>8, <1>9, <1>10, <3>1, GuardSame
  <2>5. \A y \in ws' : y \in ws /\ tstate'[y] = tstate[y]
    BY Zenon, <1>0, <2>1, <2>2 DEF TransOK
  <2> QED
    BY Zenon, <1>8, <1>9, <2>3, <2>4, <2>5, QuietStep DEF Keeps
<1> QED
  BY Zenon, <1>11, <1>12

\* A packet goes to the handler of the socket, or of the probe.
LEMMA PacketConn ==
  ASSUME ConnInv, NEW t \in Threads, TPacket(t)
  PROVE  ConnInv'
<1> DEFINE f == Top(t)
<1>0. SockOK
  BY Zenon DEF ConnInv
<1>1. /\ stack[t] # <<>> /\ f.at = "tPacket"
      /\ UNCHANGED <<sock, prefs, beat, ctx, trans, opens>>
  BY Zenon DEF TPacket, At, Top, env
<1>2. /\ f.at \in OwnLabels /\ f.at \notin ProbeLabels
      /\ f.at \notin {"tOnOpen", "read", "reading", "tOnClose"}
  BY Zenon, <1>1 DEF OwnLabels, ProbeLabels
<1>3. f \in AnyFrame /\ f.x = t /\ t \in Trans /\ kind[t] # Nil /\ f.ps \in PacketSeqs /\ f.n \in Nat
  BY Zenon, <1>1, <1>2, TopKnown
<1>4. New(t, [f EXCEPT !.at = "onPacket"])
  <2>1. /\ "onPacket" \in Labels /\ "onPacket" \notin OtherLabels /\ "onPacket" \notin ProbeLabels
        /\ "onPacket" \notin UpLabels \cup {"dial", "install", "start", "pausing", "drain"}
        /\ "onPacket" # "cancel" /\ "onPacket" # "tOnOpen" /\ "onPacket" # "signal"
        /\ "onPacket" \notin PollLabels
    BY Zenon DEF Labels, OtherLabels, ProbeLabels, UpLabels, PollLabels
  <2>2. [f EXCEPT !.at = "onPacket"] = Frame("onPacket", t, f.ps, f.n) /\ t \in Trans \cup {Nil}
    BY Zenon, <1>3, FrameExcept
  <2> HIDE DEF f
  <2>3. New(t, Frame("onPacket", t, f.ps, f.n))
    BY ZenonT(30), <1>3, <2>1, <2>2, NewPlain
  <2> QED
    BY Zenon, <2>2, <2>3
<1>5. handlers[f.x].packet = "probe" => New(t, F("upgradeBegin", Nil))
  <2> SUFFICES ASSUME handlers[t].packet = "probe" PROVE New(t, F("upgradeBegin", Nil))
    BY Zenon, <1>3
  <2>1. kind[t] \in Connections
    BY Zenon, <1>3 DEF ConnInv, KindOK
  <2>2. "upgradeBegin" \in UpLabels /\ "upgradeBegin" \notin {"pausing", "drain"}
    BY Zenon DEF UpLabels
  <2>3. 0 \in Nat /\ Nil \in Trans \cup {Nil}
    OBVIOUS
  <2> HIDE DEF f
  <2>4. New(t, Frame("upgradeBegin", Nil, <<>>, 0))
    BY ZenonT(30), <1>0, <1>3, <2>1, <2>2, <2>3, EmptySeq, NewUp
  <2> QED
    BY Zenon, <2>4 DEF F
<1>6. \E fs : Good(t, fs) /\ Then(t, fs)
  <2>1. CASE handlers[f.x].packet = "socket"
    <3>1. Then(t, <<[f EXCEPT !.at = "onPacket"]>>)
      BY <2>1 DEF TPacket, Handler
    <3> QED
      BY Zenon, <1>4, <3>1, Goods
  <2>2. CASE handlers[f.x].packet = "probe"
    <3>1. Then(t, <<F("upgradeBegin", Nil)>>) \/ Then(t, <<>>)
      BY <2>2 DEF TPacket, Handler
    <3> QED
      BY Zenon, <1>5, <2>2, <3>1, Goods
  <2>3. CASE handlers[f.x].packet # "socket" /\ handlers[f.x].packet # "probe"
    <3>1. Then(t, <<>>)
      BY <2>3 DEF TPacket, Handler
    <3> QED
      BY Zenon, <3>1, Goods
  <2> QED
    BY Zenon, <2>1, <2>2, <2>3
<1> QED
  BY Zenon, <1>1, <1>2, <1>6, SameStep

\* The steps of Transport, and the write of a close packet, preserve the invariant.
LEMMA TransportConn ==
  ASSUME ConnInv, NEW t \in Threads, Transport(t) \/ TCloseSend(t)
  PROVE  ConnInv'
  BY Zenon, CloseConn, AwaitConn, OnCloseConn, PacketConn DEF Transport

-----------------------------------------------------------------------------
(* The steps of the socket.                                                 *)

\* beginOpen leaves the variables of the socket in their types, and the frame of the rest of
\* Open carries a run context that is one of the first MaxOpens.
LEMMA BeginOpen ==
  ASSUME SockOK, beginOpen, config' = config
  PROVE  /\ SockOK' /\ UNCHANGED <<runOf, trans, transport>>
         /\ LET f == Frame("install", Nil, <<>>, RunContext)
            IN  /\ f \in AnyFrame /\ f.at = "install"
                /\ \A t \in Threads : FrameInv(t, f)
<1>1. MaxOpens' = MaxOpens /\ MaxOpens \in Nat
  BY Zenon, ConfigOK DEF MaxOpens
<1>2. /\ opens \in 0..MaxOpens /\ runCancel \in 0..MaxOpens /\ cancelled \subseteq 1..MaxOpens
      /\ opens < MaxOpens /\ opens' = opens + 1 /\ runCancel' = opens + 1
      /\ cancelled' = cancelled \cup ({runCancel} \ {0})
  BY Zenon DEF SockOK, beginOpen, RunContext
<1>3. /\ opens' \in 0..MaxOpens /\ runCancel' \in 0..MaxOpens /\ cancelled' \subseteq 1..MaxOpens
      /\ RunContext \in Nat /\ RunContext <= MaxOpens
  BY <1>1, <1>2 DEF RunContext
<1>4. <<>> \in Seq(Msgs \cup {"pong"})
  OBVIOUS
<1>5. /\ UNCHANGED <<transport, flushing, transports, priorUpgrade, pingTimeoutTimer, heartbeat>>
      /\ UNCHANGED <<runOf, trans>>
      /\ state' = "opening" /\ upgrading' = FALSE /\ writeBuffer' = <<>>
  BY Zenon DEF beginOpen, prefs, beat
<1>6. SockOK'
  BY Zenon, <1>1, <1>3, <1>4, <1>5 DEF SockOK
<1>7. /\ Frame("install", Nil, <<>>, RunContext) \in AnyFrame
      /\ Frame("install", Nil, <<>>, RunContext).at = "install"
      /\ Frame("install", Nil, <<>>, RunContext).x = Nil
      /\ Frame("install", Nil, <<>>, RunContext).ps = <<>>
      /\ Frame("install", Nil, <<>>, RunContext).n = RunContext
  <2>1. "install" \in Labels
    BY Zenon DEF Labels
  <2>2. <<>> \in PacketSeqs \cup SUBSET Nat /\ Nil \in Trans \cup {Nil}
    BY Zenon, EmptySeq
  <2>3. Frame("install", Nil, <<>>, RunContext) \in AnyFrame
    BY ZenonT(30), <1>3, <2>1, <2>2, FrameParts
  <2> QED
    BY <2>3 DEF Frame
<1>8. /\ "install" \notin OtherLabels /\ "install" \notin OwnLabels /\ "install" \notin ProbeLabels
      /\ "install" \notin UpLabels \cup {"dial", "signal", "pausing", "drain"} \cup PollLabels
  BY Zenon DEF OtherLabels, OwnLabels, ProbeLabels, UpLabels, PollLabels
<1>9. \A t \in Threads : FrameInv(t, Frame("install", Nil, <<>>, RunContext))
  BY Zenon, <1>3, <1>7, <1>8, EmptySeq DEF FrameInv
<1> QED
  BY Zenon, <1>5, <1>6, <1>7, <1>9

\* Open, called by the application or by onError.
LEMMA OpenConn ==
  ASSUME ConnInv, NEW t \in Threads, Reopen(t) \/ (Open(t) /\ t \in Senders)
  PROVE  ConnInv'
<1> DEFINE f == Frame("install", Nil, <<>>, RunContext)
<1>0. SockOK /\ StackOK
  BY Zenon DEF ConnInv
<1>1. CASE Reopen(t) /\ state # "closed"
  <2>1. /\ stack[t] # <<>> /\ Top(t).at = "reopen" /\ Then(t, <<>>)
        /\ UNCHANGED <<sock, prefs, beat, ctx, trans, opens>>
    BY Zenon, <1>1 DEF Reopen, beginOpen, At, Top, env
  <2>2. Top(t).at \notin {"tOnOpen", "read", "reading", "tOnClose"}
    BY Zenon, <2>1
  <2> QED
    BY Zenon, <2>1, <2>2, Goods, SameStep
<1>2. CASE Reopen(t) /\ state = "closed"
  <2>1. stack[t] # <<>> /\ Top(t).at = "reopen" /\ beginOpen /\ Then(t, <<f>>) /\ config' = config
    BY Zenon, <1>2 DEF Reopen, Then, At, Top
  <2>2. /\ SockOK' /\ UNCHANGED <<runOf, trans, transport>>
        /\ f \in AnyFrame /\ f.at = "install" /\ FrameInv(t, f)
    BY Zenon, <1>0, <2>1, BeginOpen
  <2> HIDE DEF f
  <2>3. /\ StackOK' /\ \A u \in Threads \ {t} : stack'[u] = stack[u]
        /\ Under(t)' = Under(t) /\ Frames(t)' = {f} \cup Under(t)
    BY Zenon, <1>0, <2>1, <2>2, Push1
  <2>4. f.at \notin {"start", "dial", "tOnOpen"}
    BY Zenon, <2>2
  <2>5. \A g \in Under(t) : g.at \notin {"install", "start", "dial"}
    BY Zenon DEF ConnInv, HeadOnly
  <2>6. Quiet(t)
    BY Zenon, <2>1, <2>2, <2>3, <2>4, <2>5 DEF Quiet
  <2>7. Top(t).at \notin {"tOnOpen", "read", "reading", "tOnClose"}
    BY Zenon, <2>1
  <2> QED
    BY Zenon, <2>1, <2>2, <2>6, <2>7, TransSame
<1>3. CASE Open(t) /\ t \in Senders
  <2>1. stack[t] = <<>> /\ beginOpen /\ Begin(t, <<f>>) /\ config' = config
    BY Zenon, <1>3 DEF Open, Begin, Idle
  <2>2. /\ SockOK' /\ UNCHANGED <<runOf, trans, transport>>
        /\ f \in AnyFrame /\ f.at = "install" /\ FrameInv(t, f)
    BY Zenon, <1>0, <2>1, BeginOpen
  <2> HIDE DEF f
  <2>3. <<f>> \in Seq(AnyFrame) /\ Tail(<<f>>) = <<>> /\ <<f>> # <<>>
    BY <2>2
  <2>4. /\ StackOK' /\ \A u \in Threads \ {t} : stack'[u] = stack[u]
        /\ stack'[t] = <<f>> /\ Frames(t)' = {f}
    BY Zenon, <1>0, <2>1, <2>3, Begins, Elems1
  <2>5. Under(t)' = {} /\ Under(t) = {}
    BY Zenon, <2>1, <2>3, <2>4, ElemsEmpty DEF Under
  <2>6. f.at \notin {"start", "dial", "tOnOpen"} /\ t \notin Trans
    BY Zenon, <1>3, <2>2, Apart
  <2>7. Quiet(t)
    BY Zenon, <2>1, <2>2, <2>4, <2>5, <2>6 DEF Quiet
  <2> QED
    BY Zenon, <2>1, <2>2, <2>6, <2>7, TransSame
<1> QED
  BY Zenon, <1>1, <1>2, <1>3

\* An idle goroutine of the application or of the timer begins.
LEMMA BeginConn ==
  ASSUME ConnInv, NEW t \in Threads \ Trans, stack[t] = <<>>, NEW fs, Good(t, fs), Begin(t, fs),
         SockOK', UNCHANGED <<runOf, trans, transport>>
  PROVE  ConnInv'
<1>1. /\ fs \in Seq(AnyFrame) /\ StackOK /\ \A f \in Elems(fs) : New(t, f)
  BY Zenon DEF ConnInv, Good
<1>2. /\ StackOK' /\ config' = config /\ \A u \in Threads \ {t} : stack'[u] = stack[u]
      /\ stack'[t] = fs /\ Frames(t)' = Elems(fs)
  BY Zenon, <1>1, Begins
<1>3. Under(t) = {} /\ Under(t)' \subseteq Frames(t)'
  <2>1. CASE fs = <<>>
    BY Zenon, <1>2, <2>1 DEF Under
  <2>2. CASE fs # <<>>
    <3>1. Elems(fs) = {Head(fs)} \cup Elems(Tail(fs))
      BY ZenonT(30), <1>1, <2>2, ElemsSplit
    <3> QED
      BY Zenon, <1>2, <2>2, <3>1 DEF Under
  <2> QED
    BY Zenon, <2>1, <2>2
<1>4. Quiet(t)
  BY Zenon, <1>1, <1>2, <1>3 DEF Quiet, New
<1> QED
  BY Zenon, <1>4, TransSame

=============================================================================
