------------------------ MODULE ServerDispatchProofs ------------------------
(***************************************************************************)
(* The dispatch invariants, for any number of request handlers, sessions   *)
(* and options.                                                            *)
(***************************************************************************)
EXTENDS ServerDispatch, TLAPS

States == {"none", "opening", "open", "closed"}

TypeInv ==
  /\ config \in Configs
  /\ store \subseteq Ids
  /\ session \in [Ids -> [state : States, transport : Transports \cup {Nil}, probe : Handlers \cup {Nil}]]
  /\ offered \in [Ids -> SUBSET Transports] /\ creator \in [Ids -> Handlers \cup {Nil}]
  /\ req \in [Handlers -> Requests \cup {Nil}]
  /\ DOMAIN pc = Handlers /\ DOMAIN sid = Handlers /\ DOMAIN answer = Handlers
  /\ reported \subseteq Handlers

\* A transport the server enables and can serve.
Serves(t) == t \in config.transports /\ (t = "webtransport" => config.wired)

\* What a handler knows by where it is: its request has passed the checks before.
Checked(h) ==
  /\ At(h, "put") => req[h].allowed
  /\ At(h, "accept") => (req[h].sid = Nil => req[h].allowed) /\ req[h].method # "CONNECT"
  /\ pc[h] \in {"wtUpgrade", "wtAccept", "wtRead"} => req[h].method = "CONNECT"
  /\ pc[h] \in {"put", "accept", "wtUpgrade", "wtAccept", "wtRead", "upgrade", "probe"} => Serves(Transport(h))
  /\ At(h, "lookup") => req[h].sid # Nil
  /\ pc[h] \in {"poll", "send"} => sid[h] \in Ids
  /\ pc[h] \in {"write", "open"} => sid[h] \in Ids /\ creator[sid[h]] = h
  /\ At(h, "probe") => sid[h] \in Ids
  /\ pc[h] # "done" => answer[h] = Nil /\ h \notin reported
  /\ answer[h] \in Codes /\ sid[h] = Nil /\ req[h].sid = Nil => h \in reported

\* A session belongs to the handshake that made it, which has passed the gate, and has
\* nothing left to do but to finish it.
Owned(id) ==
  /\ creator[id] # Nil =>
       /\ req[creator[id]].allowed /\ sid[creator[id]] = id
       /\ pc[creator[id]] \in {"write", "open", "hold", "done"}
       /\ creator[id] \notin reported /\ session[id].state # "none"
  /\ Alive(id) => Serves(session[id].transport)
  /\ \A t \in offered[id] : Serves(t) /\ t # "polling"
  /\ id \in store =>
       \/ session[id].state \in {"open", "closed"}
       \/ creator[id] # Nil /\ pc[creator[id]] \in {"write", "open"}

IInv ==
  /\ TypeInv
  /\ \A h \in Handlers : Checked(h)
  /\ \A id \in Ids : Owned(id)

LEMMA InitIInv == Init => IInv
<1> SUFFICES ASSUME Init PROVE IInv
  BY Zenon
<1>1. TypeInv
  BY Zenon DEF Init, TypeInv, None, States
<1>2. ASSUME NEW h \in Handlers PROVE Checked(h)
  BY Zenon, DispatchAssumption DEF Init, Checked, At
<1>3. ASSUME NEW id \in Ids PROVE Owned(id)
  BY Zenon DEF Init, Owned, None, Alive
<1> QED
  BY Zenon, <1>1, <1>2, <1>3 DEF IInv

\* What ServeHTTP has checked when it lets a request through.
LEMMA Routed ==
  ASSUME NEW r, ServeHTTP(r).code = Nil
  PROVE  LET to == ServeHTTP(r).to IN
         /\ to \in {"preflight", "put", "accept", "lookup", "wtUpgrade"}
         /\ to = "put" =>
              /\ r.allowed /\ r.method # "CONNECT"
              /\ r.transport = "polling" /\ r.transport \in config.transports
         /\ to = "accept" =>
              /\ r.method # "CONNECT" /\ r.transport = "websocket"
              /\ r.transport \in config.transports
              /\ r.sid = Nil => r.allowed
         /\ to = "lookup" => r.sid # Nil
         /\ to = "wtUpgrade" => r.method = "CONNECT" /\ config.wired /\ "webtransport" \in config.transports
<1>1. \A code \in Codes : Rejected(code).code # Nil
  BY Zenon, DispatchAssumption DEF Rejected
<1>2. \A to : To(to).to = to
  BY Zenon DEF To
<1>3. CASE r.method = "OPTIONS"
  BY Zenon, <1>2, <1>3 DEF ServeHTTP
<1>4. CASE r.method = "CONNECT"
  BY Zenon, <1>1, <1>2, <1>4 DEF ServeHTTP, ServeConnect, allowsTransport, Codes
<1>5. CASE r.method \notin {"OPTIONS", "CONNECT"}
  <2>1. r.eio = 4 /\ r.transport \in config.transports
    BY Zenon, <1>1, <1>5 DEF ServeHTTP, allowsTransport, Codes
  <2>2. CASE r.transport = "websocket"
    <3>1. ServeHTTP(r) = handleWebSocket(r)
      BY Zenon, <1>5, <2>1, <2>2 DEF ServeHTTP, allowsTransport
    <3>2. r.sid = Nil => r.allowed
      BY Zenon, <1>1, <3>1 DEF handleWebSocket, allowHandshake, Codes
    <3>3. ServeHTTP(r).to = "accept"
      BY Zenon, <1>2, <3>1, <3>2 DEF handleWebSocket, allowHandshake
    <3> QED
      BY Zenon, <1>5, <2>1, <2>2, <3>2, <3>3
  <2>3. CASE r.transport = "polling"
    <3>1. ServeHTTP(r) = handlePolling(r)
      BY Zenon, <1>5, <2>1, <2>3 DEF ServeHTTP, allowsTransport
    <3>2. CASE r.sid # Nil
      BY Zenon, <1>2, <2>3, <3>1, <3>2 DEF handlePolling
    <3>3. CASE r.sid = Nil
      <4>1. handlePolling(r) = allowHandshake(r, "put")
        BY Zenon, <1>1, <3>1, <3>3 DEF handlePolling, Codes
      <4>2. r.allowed
        BY Zenon, <1>1, <3>1, <4>1 DEF allowHandshake, Codes
      <4>3. ServeHTTP(r).to = "put"
        BY Zenon, <1>2, <3>1, <4>1, <4>2 DEF allowHandshake
      <4> QED
        BY Zenon, <1>5, <2>1, <2>3, <4>2, <4>3
    <3> QED
      BY Zenon, <3>2, <3>3
  <2>4. r.transport \in {"websocket", "polling"}
    BY Zenon, <1>1, <1>5, <2>1 DEF ServeHTTP, allowsTransport, Codes
  <2> QED
    BY Zenon, <2>2, <2>3, <2>4
<1> QED
  BY Zenon, <1>3, <1>4, <1>5

\* A handler that is not in a handshake returns, and may close a session.
LEMMA ReturnStep ==
  ASSUME IInv, NEW h \in Handlers, NEW a, Return(h, a),
         pc[h] \notin {"write", "open"},
         a \in Codes => sid[h] # Nil \/ req[h].sid # Nil,
         session' = session \/ \E id \in Ids : session' = Teardown(id),
         UNCHANGED <<config, store, offered, creator, req, sid, reported>>
  PROVE  IInv'
<1> USE DispatchAssumption DEF Return, Goto, At
<1>0. TypeInv /\ Checked(h)
  BY Zenon DEF IInv
<1>1. TypeInv'
  BY <1>0 DEF TypeInv, States, Teardown
<1>2. Checked(h)'
  BY Zenon, <1>0 DEF TypeInv, Checked
<1>3. ASSUME NEW g \in Handlers, g # h PROVE Checked(g)'
  <2>1. Checked(g)
    BY Zenon DEF IInv
  <2> QED
    BY Zenon, <1>0, <2>1, <1>3 DEF TypeInv, Checked, Serves, Transport
<1>4. ASSUME NEW id \in Ids PROVE Owned(id)'
  <2>1. Owned(id)
    BY Zenon DEF IInv
  <2>2. session'[id] = session[id] \/ session'[id].state = "closed"
    BY <1>0 DEF TypeInv, Teardown
  <2> QED
    BY Zenon, <1>0, <2>1, <2>2 DEF TypeInv, Checked, Owned, Serves, Alive
<1> QED
  BY Zenon, <1>1, <1>2, <1>3, <1>4 DEF IInv

LEMMA RequestStep ==
  ASSUME IInv, NEW h \in Handlers, NEW r \in Requests, Request(h, r)
  PROVE  IInv'
<1> USE DispatchAssumption DEF Request, Return, Goto, At, sessions
<1>0. TypeInv /\ Checked(h)
  BY Zenon DEF IInv
<1>1. TypeInv'
  BY Zenon, <1>0 DEF TypeInv, Checked, Serves, States, Transport
<1>2. Checked(h)'
  BY Zenon, <1>0 DEF TypeInv, Checked, Serves, Transport
<1>3. ASSUME NEW g \in Handlers, g # h PROVE Checked(g)'
  <2>1. Checked(g)
    BY Zenon DEF IInv
  <2> QED
    BY Zenon, <1>0, <2>1, <1>3 DEF TypeInv, Checked, Serves, Transport
<1>4. ASSUME NEW id \in Ids PROVE Owned(id)'
  <2>1. Owned(id)
    BY Zenon DEF IInv
  <2> QED
    BY Zenon, <1>0, <2>1 DEF TypeInv, Checked, Owned, Serves, Alive, Transport, States
<1> QED
  BY Zenon, <1>1, <1>2, <1>3, <1>4 DEF IInv

LEMMA ServeStep ==
  ASSUME IInv, NEW h \in Handlers, Serve(h)
  PROVE  IInv'
<1> USE DispatchAssumption DEF Serve, Reject, Return, Goto, At, sessions
<1>0. TypeInv /\ Checked(h)
  BY Zenon DEF IInv
<1>1. TypeInv'
  BY <1>0 DEF TypeInv, Checked, Serves, States, Transport
<1>2. Checked(h)'
  <2> DEFINE route == ServeHTTP(req[h])
  <2>1. CASE route.code # Nil
    <3>1. Return(h, route.code) /\ reported' = reported \cup {h} /\ req' = req /\ sid' = sid
      BY Zenon, <2>1
    <3>2. pc'[h] = "done" /\ h \in reported'
      BY Zenon, <1>0, <3>1 DEF TypeInv
    <3> HIDE DEF Serve, Reject, Return, Goto
    <3> QED
      BY Zenon, <3>2 DEF Checked
  <2>2. CASE route.code = Nil /\ route.to = "preflight"
    <3>1. Return(h, "204")
      BY Zenon, <2>2
    <3>2. pc'[h] = "done" /\ answer'[h] \notin Codes
      BY Zenon, <1>0, <3>1 DEF TypeInv, Codes
    <3> HIDE DEF Serve, Reject, Return, Goto
    <3> QED
      BY Zenon, <3>2 DEF Checked
  <2>3. CASE route.code = Nil /\ route.to # "preflight"
    <3>1. /\ pc' = [pc EXCEPT ![h] = route.to] /\ answer' = answer /\ reported' = reported
          /\ sid' = sid /\ req' = req /\ config' = config /\ pc[h] = "serve"
      BY Zenon, <2>3
    <3>2. pc'[h] = route.to /\ route.to \in {"put", "accept", "lookup", "wtUpgrade"}
      BY Zenon, <1>0, <2>3, <3>1, Routed DEF TypeInv
    <3>3. CASE route.to = "put"
      BY Zenon, <1>0, <2>3, <3>1, <3>2, <3>3, Routed DEF TypeInv, Checked, Serves, Transport
    <3>4. CASE route.to = "accept"
      <4>1. /\ req[h].method # "CONNECT" /\ req[h].transport = "websocket"
            /\ req[h].transport \in config.transports
            /\ req[h].sid = Nil => req[h].allowed
        BY Zenon, <2>3, <3>4, Routed
      <4> HIDE DEF Serve, Reject, Return, Goto, route
      <4>2. Serves(Transport(h))'
        BY Zenon, <3>1, <4>1 DEF Serves, Transport
      <4>3. pc'[h] = "accept" /\ answer'[h] = Nil /\ h \notin reported'
        BY Zenon, <1>0, <3>1, <3>2, <3>4 DEF Checked
      <4> QED
        BY Zenon, <3>1, <4>1, <4>2, <4>3 DEF Checked
    <3>5. CASE route.to = "lookup"
      BY Zenon, <1>0, <2>3, <3>1, <3>2, <3>5, Routed DEF TypeInv, Checked
    <3>6. CASE route.to = "wtUpgrade"
      BY Zenon, <1>0, <2>3, <3>1, <3>2, <3>6, Routed DEF TypeInv, Checked, Serves, Transport
    <3> QED
      BY Zenon, <3>2, <3>3, <3>4, <3>5, <3>6
  <2> QED
    BY Zenon, <2>1, <2>2, <2>3
<1>3. ASSUME NEW g \in Handlers, g # h PROVE Checked(g)'
  <2>1. Checked(g)
    BY Zenon DEF IInv
  <2> QED
    BY <1>0, <2>1, <1>3 DEF TypeInv, Checked, Serves, Transport
<1>4. ASSUME NEW id \in Ids PROVE Owned(id)'
  <2>1. Owned(id)
    BY Zenon DEF IInv
  <2> QED
    BY <1>0, <2>1 DEF TypeInv, Checked, Owned, Serves, Alive, Transport, States
<1> QED
  BY Zenon, <1>1, <1>2, <1>3, <1>4 DEF IInv

LEMMA PutStep ==
  ASSUME IInv, NEW h \in Handlers, Put(h)
  PROVE  IInv'
<1> USE DispatchAssumption DEF Put, None, Offered, Return, Goto, At, sessions
<1>0. TypeInv /\ Checked(h)
  BY Zenon DEF IInv
<1>1. TypeInv'
  BY <1>0 DEF TypeInv, Checked, Serves, States, Transport
<1>2. Checked(h)'
  BY SMTT(60), <1>0 DEF TypeInv, Checked, Serves, Transport
<1>3. ASSUME NEW g \in Handlers, g # h PROVE Checked(g)'
  <2>1. Checked(g)
    BY Zenon DEF IInv
  <2>2. PICK new \in Ids : session[new] = None /\ creator' = [creator EXCEPT ![new] = h]
    BY Zenon
  <2>3. creator[new] # Nil => session[new].state # "none"
    BY Zenon DEF IInv, Owned
  <2>4. session[new].state = "none"
    BY <2>2
  <2>5. pc[g] \in {"write", "open"} => creator[sid[g]] = g
    BY Zenon, <2>1 DEF Checked
  <2>6. g # Nil
    BY Zenon
  <2>7. pc[g] \in {"write", "open"} => sid[g] # new
    BY Zenon, <2>3, <2>4, <2>5, <2>6
  <2> QED
    BY <1>0, <2>1, <2>2, <2>7, <1>3 DEF TypeInv, Checked, Serves, Transport
<1>4. ASSUME NEW id \in Ids PROVE Owned(id)'
  <2>1. Owned(id)
    BY Zenon DEF IInv
  <2> QED
    BY <1>0, <2>1 DEF TypeInv, Checked, Owned, Serves, Alive, Transport, States
<1> QED
  BY Zenon, <1>1, <1>2, <1>3, <1>4 DEF IInv

LEMMA WriteStep ==
  ASSUME IInv, NEW h \in Handlers, Write(h)
  PROVE  IInv'
<1> USE DispatchAssumption DEF Write, Return, Goto, At, sessions
<1>0. TypeInv /\ Checked(h)
  BY Zenon DEF IInv
<1>1. TypeInv'
  BY Zenon, <1>0 DEF TypeInv, Checked, Serves, States, Transport
<1>2. Checked(h)'
  BY Zenon, <1>0 DEF TypeInv, Checked, Serves, Transport
<1>3. ASSUME NEW g \in Handlers, g # h PROVE Checked(g)'
  <2>1. Checked(g)
    BY Zenon DEF IInv
  <2> QED
    BY Zenon, <1>0, <2>1, <1>3 DEF TypeInv, Checked, Serves, Transport
<1>4. ASSUME NEW id \in Ids PROVE Owned(id)'
  <2>1. Owned(id)
    BY Zenon DEF IInv
  <2> QED
    BY Zenon, <1>0, <2>1 DEF TypeInv, Checked, Owned, Serves, Alive, Transport, States
<1> QED
  BY Zenon, <1>1, <1>2, <1>3, <1>4 DEF IInv

LEMMA WriteFailStep ==
  ASSUME IInv, NEW h \in Handlers, WriteFail(h)
  PROVE  IInv'
<1> USE DispatchAssumption DEF WriteFail, Unregister, Return, Goto, At, sessions
<1>0. TypeInv /\ Checked(h)
  BY Zenon DEF IInv
<1>1. TypeInv'
  BY Zenon, <1>0 DEF TypeInv, Checked, Serves, States, Transport
<1>2. Checked(h)'
  BY Zenon, <1>0 DEF TypeInv, Checked, Serves, Transport
<1>3. ASSUME NEW g \in Handlers, g # h PROVE Checked(g)'
  <2>1. Checked(g)
    BY Zenon DEF IInv
  <2> QED
    BY Zenon, <1>0, <2>1, <1>3 DEF TypeInv, Checked, Serves, Transport
<1>4. ASSUME NEW id \in Ids PROVE Owned(id)'
  <2>1. Owned(id)
    BY Zenon DEF IInv
  <2> QED
    BY Zenon, <1>0, <2>1 DEF TypeInv, Checked, Owned, Serves, Alive, Transport, States
<1> QED
  BY Zenon, <1>1, <1>2, <1>3, <1>4 DEF IInv

LEMMA OpenStep ==
  ASSUME IInv, NEW h \in Handlers, Open(h)
  PROVE  IInv'
<1> USE DispatchAssumption DEF Open, Return, Goto, At, sessions
<1>0. TypeInv /\ Checked(h)
  BY Zenon DEF IInv
<1>1. TypeInv'
  BY SMTT(60), <1>0 DEF TypeInv, Checked, Serves, States, Transport
<1>2. Checked(h)'
  BY <1>0 DEF TypeInv, Checked, Serves, Transport
<1>3. ASSUME NEW g \in Handlers, g # h PROVE Checked(g)'
  <2>1. Checked(g)
    BY Zenon DEF IInv
  <2> QED
    BY <1>0, <2>1, <1>3 DEF TypeInv, Checked, Serves, Transport
<1>4. ASSUME NEW id \in Ids PROVE Owned(id)'
  <2>1. Owned(id)
    BY Zenon DEF IInv
  <2>2. /\ session'[id].transport = session[id].transport
        /\ session'[id].state \in {session[id].state, "open"}
        /\ Alive(id)' => Alive(id)
        /\ id = sid[h] => session'[id].state # "opening"
    BY <1>0 DEF TypeInv, Checked, Alive
  <2>3. id # sid[h] => creator[id] # h
    BY Zenon, <2>1 DEF Owned
  <2> QED
    BY <1>0, <2>1, <2>2, <2>3 DEF TypeInv, Checked, Owned, Serves, States
<1> QED
  BY Zenon, <1>1, <1>2, <1>3, <1>4 DEF IInv

LEMMA LookupStep ==
  ASSUME IInv, NEW h \in Handlers, Lookup(h)
  PROVE  IInv'
<1> USE DispatchAssumption DEF At, sessions
<1>0. TypeInv /\ Checked(h) /\ At(h, "lookup") /\ req[h].sid # Nil /\ UNCHANGED <<config, sessions, req>>
  BY Zenon DEF IInv, Checked, Lookup
<1>1. CASE req[h].sid \notin store
  <2>1. Return(h, "unknown sid") /\ reported' = reported \cup {h} /\ sid' = sid
    BY Zenon, <1>1 DEF Lookup, Reject
  <2>2. TypeInv'
    BY ZenonT(60), <1>0, <2>1 DEF TypeInv, Return, Goto
  <2>3. Checked(h)'
    BY Zenon, <1>0, <2>1 DEF TypeInv, Checked, Return, Goto
  <2>4. ASSUME NEW g \in Handlers, g # h PROVE Checked(g)'
    <3>1. Checked(g)
      BY Zenon DEF IInv
    <3> QED
      BY Zenon, <1>0, <2>1, <2>4, <3>1 DEF TypeInv, Checked, Serves, Transport, Return, Goto
  <2>5. ASSUME NEW id \in Ids PROVE Owned(id)'
    <3>1. Owned(id)
      BY Zenon DEF IInv
    <3> QED
      BY Zenon, <1>0, <2>1, <3>1 DEF TypeInv, Owned, Serves, Alive, Return, Goto
  <2> QED
    BY Zenon, <2>2, <2>3, <2>4, <2>5 DEF IInv
<1>2. CASE req[h].sid \in store /\ ~Serveable(req[h].method, req[h].sid)
  <2>1. Return(h, "bad request") /\ sid' = sid /\ reported' = reported
    BY Zenon, <1>2 DEF Lookup
  <2> QED
    BY Zenon, <1>0, <2>1, ReturnStep
<1>3. CASE req[h].sid \in store /\ Serveable(req[h].method, req[h].sid)
  <2>1. PICK label \in {"poll", "send"} : pc' = [pc EXCEPT ![h] = label]
    BY Zenon, <1>3 DEF Lookup, Goto
  <2>2. sid' = [sid EXCEPT ![h] = req[h].sid] /\ answer' = answer /\ reported' = reported
    BY Zenon, <1>3 DEF Lookup
  <2>3. TypeInv'
    BY Zenon, <1>0, <2>1, <2>2 DEF TypeInv
  <2>4. Checked(h)'
    BY Zenon, <1>0, <1>3, <2>1, <2>2 DEF TypeInv, Checked
  <2>5. ASSUME NEW g \in Handlers, g # h PROVE Checked(g)'
    <3>1. Checked(g)
      BY Zenon DEF IInv
    <3> QED
      BY Zenon, <1>0, <2>1, <2>2, <2>5, <3>1 DEF TypeInv, Checked, Serves, Transport
  <2>6. ASSUME NEW id \in Ids PROVE Owned(id)'
    <3>1. Owned(id)
      BY Zenon DEF IInv
    <3> QED
      BY Zenon, <1>0, <2>1, <2>2, <3>1 DEF TypeInv, Owned, Serves, Alive
  <2> QED
    BY Zenon, <2>3, <2>4, <2>5, <2>6 DEF IInv
<1> QED
  BY Zenon, <1>1, <1>2, <1>3

LEMMA ServedPollStep ==
  ASSUME IInv, NEW h \in Handlers, ServedPoll(h)
  PROVE  IInv'
<1>1. sid[h] \in Ids
  BY Zenon DEF IInv, Checked, ServedPoll, At
<1>2. PICK a : Return(h, a)
  BY Zenon DEF ServedPoll
<1>3. session' = session \/ session' = Teardown(sid[h])
  BY Zenon DEF ServedPoll
<1> QED
  BY Zenon, <1>1, <1>2, <1>3, ReturnStep, DispatchAssumption DEF ServedPoll, At

LEMMA ServedSendStep ==
  ASSUME IInv, NEW h \in Handlers, ServedSend(h)
  PROVE  IInv'
<1>1. sid[h] \in Ids
  BY Zenon DEF IInv, Checked, ServedSend, At
<1>2. PICK a : Return(h, a)
  BY Zenon DEF ServedSend
<1>3. session' = session \/ session' = Teardown(sid[h])
  BY Zenon DEF ServedSend
<1> QED
  BY Zenon, <1>1, <1>2, <1>3, ReturnStep, DispatchAssumption DEF ServedSend, At

LEMMA AcceptStep ==
  ASSUME IInv, NEW h \in Handlers, Accept(h)
  PROVE  IInv'
<1> USE DispatchAssumption DEF Accept, Return, Goto, At, sessions
<1>0. TypeInv /\ Checked(h)
  BY Zenon DEF IInv
<1>1. TypeInv'
  BY Zenon, <1>0 DEF TypeInv, Checked, Serves, States, Transport
<1>2. Checked(h)'
  <2>1. Serves(Transport(h)) /\ req[h].method # "CONNECT" /\ (req[h].sid = Nil => req[h].allowed)
    BY Zenon, <1>0 DEF Checked
  <2>2. sid'[h] = req[h].sid
    BY Zenon, <1>0 DEF TypeInv
  <2>3. CASE Return(h, Nil)
    BY Zenon, <1>0, <2>2, <2>3 DEF TypeInv, Checked
  <2>4. CASE pc'[h] = "put" /\ req[h].sid = Nil /\ answer' = answer
    BY Zenon, <1>0, <2>1, <2>4 DEF TypeInv, Checked, Serves, Transport
  <2>5. CASE pc'[h] = "upgrade" /\ answer' = answer
    BY Zenon, <1>0, <2>1, <2>2, <2>5 DEF TypeInv, Checked, Serves, Transport
  <2> QED
    BY Zenon, <1>0, <2>3, <2>4, <2>5 DEF TypeInv
<1>3. ASSUME NEW g \in Handlers, g # h PROVE Checked(g)'
  <2>1. Checked(g)
    BY Zenon DEF IInv
  <2> QED
    BY SMTT(60), <1>0, <2>1, <1>3 DEF TypeInv, Checked, Serves, Transport
<1>4. ASSUME NEW id \in Ids PROVE Owned(id)'
  <2>1. Owned(id)
    BY Zenon DEF IInv
  <2> QED
    BY SMTT(30), <1>0, <2>1 DEF TypeInv, Checked, Owned, Serves, Alive, Transport, States
<1> QED
  BY Zenon, <1>1, <1>2, <1>3, <1>4 DEF IInv

LEMMA WtUpgradeStep ==
  ASSUME IInv, NEW h \in Handlers, WtUpgrade(h)
  PROVE  IInv'
<1> USE DispatchAssumption DEF WtUpgrade, Return, Goto, At, sessions
<1>0. TypeInv /\ Checked(h)
  BY Zenon DEF IInv
<1>1. TypeInv'
  BY Zenon, <1>0 DEF TypeInv, Checked, Serves, States, Transport
<1>2. Checked(h)'
  <2>1. CASE Return(h, "400")
    BY Zenon, <1>0, <2>1 DEF TypeInv, Checked, Codes
  <2>2. CASE pc' = [pc EXCEPT ![h] = "wtAccept"] /\ answer' = answer
    BY Zenon, <1>0, <2>2 DEF TypeInv, Checked, Serves, Transport
  <2> QED
    BY Zenon, <2>1, <2>2
<1>3. ASSUME NEW g \in Handlers, g # h PROVE Checked(g)'
  <2>1. Checked(g)
    BY Zenon DEF IInv
  <2> QED
    BY SMTT(30), <1>0, <2>1, <1>3 DEF TypeInv, Checked, Serves, Transport
<1>4. ASSUME NEW id \in Ids PROVE Owned(id)'
  <2>1. Owned(id)
    BY Zenon DEF IInv
  <2> QED
    BY SMTT(30), <1>0, <2>1 DEF TypeInv, Checked, Owned, Serves, Alive, Transport, States
<1> QED
  BY Zenon, <1>1, <1>2, <1>3, <1>4 DEF IInv

LEMMA WtAcceptStep ==
  ASSUME IInv, NEW h \in Handlers, WtAccept(h)
  PROVE  IInv'
<1> USE DispatchAssumption DEF WtAccept, Return, Goto, At, sessions
<1>0. TypeInv /\ Checked(h)
  BY Zenon DEF IInv
<1>1. TypeInv'
  BY Zenon, <1>0 DEF TypeInv, Checked, Serves, States, Transport
<1>2. Checked(h)'
  BY Zenon, <1>0 DEF TypeInv, Checked, Serves, Transport
<1>3. ASSUME NEW g \in Handlers, g # h PROVE Checked(g)'
  <2>1. Checked(g)
    BY Zenon DEF IInv
  <2> QED
    BY Zenon, <1>0, <2>1, <1>3 DEF TypeInv, Checked, Serves, Transport
<1>4. ASSUME NEW id \in Ids PROVE Owned(id)'
  <2>1. Owned(id)
    BY Zenon DEF IInv
  <2> QED
    BY Zenon, <1>0, <2>1 DEF TypeInv, Checked, Owned, Serves, Alive, Transport, States
<1> QED
  BY Zenon, <1>1, <1>2, <1>3, <1>4 DEF IInv

LEMMA WtTimeoutStep ==
  ASSUME IInv, NEW h \in Handlers, WtTimeout(h)
  PROVE  IInv'
<1> USE DispatchAssumption DEF WtTimeout, TimedWait, Return, Goto, At, sessions
<1>0. TypeInv /\ Checked(h)
  BY Zenon DEF IInv
<1>1. TypeInv'
  BY Zenon, <1>0 DEF TypeInv, Checked, Serves, States, Transport
<1>2. Checked(h)'
  BY Zenon, <1>0 DEF TypeInv, Checked, Serves, Transport
<1>3. ASSUME NEW g \in Handlers, g # h PROVE Checked(g)'
  <2>1. Checked(g)
    BY Zenon DEF IInv
  <2> QED
    BY Zenon, <1>0, <2>1, <1>3 DEF TypeInv, Checked, Serves, Transport
<1>4. ASSUME NEW id \in Ids PROVE Owned(id)'
  <2>1. Owned(id)
    BY Zenon DEF IInv
  <2> QED
    BY Zenon, <1>0, <2>1 DEF TypeInv, Checked, Owned, Serves, Alive, Transport, States
<1> QED
  BY Zenon, <1>1, <1>2, <1>3, <1>4 DEF IInv

LEMMA WtReadStep ==
  ASSUME IInv, NEW h \in Handlers, WtRead(h)
  PROVE  IInv'
<1> USE DispatchAssumption DEF WtRead, WtGate, Return, Goto, At, sessions
<1>0. TypeInv /\ Checked(h)
  BY Zenon DEF IInv
<1>1. TypeInv'
  BY Zenon, <1>0 DEF TypeInv, Checked, Serves, States, Transport
<1>2. Checked(h)'
  BY SMTT(60), <1>0 DEF TypeInv, Checked, Serves, Transport
<1>3. ASSUME NEW g \in Handlers, g # h PROVE Checked(g)'
  <2>1. Checked(g)
    BY Zenon DEF IInv
  <2> QED
    BY SMTT(30), <1>0, <2>1, <1>3 DEF TypeInv, Checked, Serves, Transport
<1>4. ASSUME NEW id \in Ids PROVE Owned(id)'
  <2>1. Owned(id)
    BY Zenon DEF IInv
  <2> QED
    BY SMTT(30), <1>0, <2>1 DEF TypeInv, Checked, Owned, Serves, Alive, Transport, States
<1> QED
  BY Zenon, <1>1, <1>2, <1>3, <1>4 DEF IInv

LEMMA UpgradeStep ==
  ASSUME IInv, NEW h \in Handlers, Upgrade(h)
  PROVE  IInv'
<1> USE DispatchAssumption DEF Upgrade, Return, Goto, At, sessions
<1>0. TypeInv /\ Checked(h)
  BY Zenon DEF IInv
<1>1. TypeInv'
  BY <1>0 DEF TypeInv, Checked, Serves, States, Transport
<1>2. Checked(h)'
  BY ZenonT(60), <1>0 DEF TypeInv, Checked, Serves, Transport
<1>3. ASSUME NEW g \in Handlers, g # h PROVE Checked(g)'
  <2>1. Checked(g)
    BY Zenon DEF IInv
  <2> QED
    BY <1>0, <2>1, <1>3 DEF TypeInv, Checked, Serves, Transport
<1>4. ASSUME NEW id \in Ids PROVE Owned(id)'
  <2>1. Owned(id)
    BY Zenon DEF IInv
  <2> QED
    BY <1>0, <2>1 DEF TypeInv, Checked, Owned, Serves, Alive, Transport, States
<1> QED
  BY Zenon, <1>1, <1>2, <1>3, <1>4 DEF IInv

LEMMA CompleteStep ==
  ASSUME IInv, NEW h \in Handlers, Complete(h)
  PROVE  IInv'
<1> USE DispatchAssumption DEF Complete, Return, Goto, At, sessions
<1>0. TypeInv /\ Checked(h)
  BY Zenon DEF IInv
<1>1. TypeInv'
  BY <1>0 DEF TypeInv, Checked, Serves, States, Transport
<1>2. Checked(h)'
  BY Zenon, <1>0 DEF TypeInv, Checked, Serves, Transport
<1>3. ASSUME NEW g \in Handlers, g # h PROVE Checked(g)'
  <2>1. Checked(g)
    BY Zenon DEF IInv
  <2> QED
    BY Zenon, <1>0, <2>1, <1>3 DEF TypeInv, Checked, Serves, Transport
<1>4. ASSUME NEW id \in Ids PROVE Owned(id)'
  <2>1. Owned(id)
    BY Zenon DEF IInv
  <2> QED
    BY <1>0, <2>1 DEF TypeInv, Checked, Owned, Serves, Alive, Transport, States
<1> QED
  BY Zenon, <1>1, <1>2, <1>3, <1>4 DEF IInv

LEMMA AbandonStep ==
  ASSUME IInv, NEW h \in Handlers, Abandon(h)
  PROVE  IInv'
<1> USE DispatchAssumption DEF Abandon, Return, Goto, At, sessions
<1>0. TypeInv /\ Checked(h)
  BY Zenon DEF IInv
<1>1. TypeInv'
  BY SMTT(60), <1>0 DEF TypeInv, Checked, Serves, States, Transport
<1>2. Checked(h)'
  BY Zenon, <1>0 DEF TypeInv, Checked, Serves, Transport
<1>3. ASSUME NEW g \in Handlers, g # h PROVE Checked(g)'
  <2>1. Checked(g)
    BY Zenon DEF IInv
  <2> QED
    BY Zenon, <1>0, <2>1, <1>3 DEF TypeInv, Checked, Serves, Transport
<1>4. ASSUME NEW id \in Ids PROVE Owned(id)'
  <2>1. Owned(id)
    BY Zenon DEF IInv
  <2> QED
    BY <1>0, <2>1 DEF TypeInv, Checked, Owned, Serves, Alive, Transport, States
<1> QED
  BY Zenon, <1>1, <1>2, <1>3, <1>4 DEF IInv

LEMMA ReleaseStep ==
  ASSUME IInv, NEW h \in Handlers, Release(h)
  PROVE  IInv'
<1> USE DispatchAssumption DEF Release, Return, Goto, At, sessions
<1>0. TypeInv /\ Checked(h)
  BY Zenon DEF IInv
<1>1. TypeInv'
  BY Zenon, <1>0 DEF TypeInv, Checked, Serves, States, Transport
<1>2. Checked(h)'
  BY Zenon, <1>0 DEF TypeInv, Checked, Serves, Transport
<1>3. ASSUME NEW g \in Handlers, g # h PROVE Checked(g)'
  <2>1. Checked(g)
    BY Zenon DEF IInv
  <2> QED
    BY Zenon, <1>0, <2>1, <1>3 DEF TypeInv, Checked, Serves, Transport
<1>4. ASSUME NEW id \in Ids PROVE Owned(id)'
  <2>1. Owned(id)
    BY Zenon DEF IInv
  <2> QED
    BY Zenon, <1>0, <2>1 DEF TypeInv, Checked, Owned, Serves, Alive, Transport, States
<1> QED
  BY Zenon, <1>1, <1>2, <1>3, <1>4 DEF IInv

LEMMA CloseSessionStep ==
  ASSUME IInv, NEW i \in Ids, CloseSession(i)
  PROVE  IInv'
<1> USE DEF CloseSession, Teardown
<1>0. TypeInv
  BY Zenon DEF IInv
<1>1. TypeInv'
  BY Zenon, <1>0 DEF TypeInv, States
<1>2. ASSUME NEW h \in Handlers PROVE Checked(h)'
  <2>1. Checked(h)
    BY Zenon DEF IInv
  <2> QED
    BY Zenon, <2>1 DEF Checked, At, Serves, Transport
<1>3. ASSUME NEW id \in Ids PROVE Owned(id)'
  <2>1. Owned(id)
    BY Zenon DEF IInv
  <2>2. session'[id] = session[id] \/ session'[id].state = "closed"
    BY Zenon, <1>0 DEF TypeInv
  <2> QED
    BY Zenon, <2>1, <2>2 DEF Owned, Serves, Alive
<1> QED
  BY Zenon, <1>1, <1>2, <1>3 DEF IInv

LEMMA ForgetStep ==
  ASSUME IInv, NEW i \in Ids, Forget(i)
  PROVE  IInv'
<1> USE DEF Forget
<1>1. TypeInv'
  BY Zenon DEF IInv, TypeInv
<1>2. ASSUME NEW h \in Handlers PROVE Checked(h)'
  BY Zenon DEF IInv, Checked, At, Serves, Transport
<1>3. ASSUME NEW id \in Ids PROVE Owned(id)'
  BY ZenonT(60) DEF IInv, Owned, Serves, Alive
<1> QED
  BY Zenon, <1>1, <1>2, <1>3 DEF IInv

LEMMA NextIInv == IInv /\ [Next]_vars => IInv'
<1> SUFFICES ASSUME IInv, [Next]_vars PROVE IInv'
  BY Zenon
<1>1. ASSUME NEW h \in Handlers, Run(h) PROVE IInv'
  BY Zenon, <1>1, ServeStep, PutStep, WriteStep, WriteFailStep, OpenStep, LookupStep,
     ServedPollStep, ServedSendStep, AcceptStep, WtUpgradeStep, WtTimeoutStep, UpgradeStep,
     AbandonStep, ReleaseStep DEF Run
<1>2. ASSUME NEW h \in Handlers, Client(h) PROVE IInv'
  BY Zenon, <1>2, RequestStep, WtAcceptStep, WtReadStep, CompleteStep DEF Client
<1>3. ASSUME NEW i \in Ids, CloseSession(i) \/ Forget(i) PROVE IInv'
  BY Zenon, <1>3, CloseSessionStep, ForgetStep
<1>4. CASE UNCHANGED vars
  <2>1. TypeInv'
    BY Zenon, <1>4 DEF IInv, TypeInv, vars, sessions
  <2>2. ASSUME NEW h \in Handlers PROVE Checked(h)'
    BY Zenon, <1>4 DEF IInv, Checked, At, Serves, Transport, vars, sessions
  <2>3. ASSUME NEW id \in Ids PROVE Owned(id)'
    BY ZenonT(60), <1>4 DEF IInv, Owned, Serves, Alive, vars, sessions
  <2> QED
    BY Zenon, <2>1, <2>2, <2>3 DEF IInv
<1> QED
  BY Zenon, <1>1, <1>2, <1>3, <1>4 DEF Next

LEMMA IInvHolds == Spec => []IInv
  BY InitIInv, NextIInv, PTL DEF Spec

\* However many requests race, no session exists that the allow-request gate did not let in
\* (allowHandshake in handlePolling and handleWebSocket, webTransportHandshake).
THEOREM GateRespectedHolds == Spec => []GateRespected
<1>1. IInv => GateRespected
  BY Zenon DEF IInv, Owned, GateRespected
<1> QED
  BY <1>1, IInvHolds, PTL

\* A live session is on a transport the server enables and can serve, whatever the options
\* and upgrades (allowsTransport in ServeHTTP).
THEOREM EnabledTransportsOnlyHolds == Spec => []EnabledTransportsOnly
<1>1. IInv => EnabledTransportsOnly
  BY Zenon DEF IInv, Owned, Serves, EnabledTransportsOnly
<1> QED
  BY <1>1, IInvHolds, PTL

\* Every upgrade an open packet offers is one that ServeHTTP lets through (buildOpenPacket).
THEOREM OfferedIsServedHolds == Spec => []OfferedIsServed
<1>1. IInv => OfferedIsServed
  <2> SUFFICES ASSUME IInv, NEW id \in Ids, NEW t \in offered[id]
               PROVE  ServeHTTP(UpgradeRequest(t, id)).code = Nil
    BY Zenon DEF OfferedIsServed
  <2> DEFINE r == UpgradeRequest(t, id)
  <2>1. Serves(t) /\ t \in {"websocket", "webtransport"}
    BY DEF IInv, TypeInv, Owned, Transports
  <2>2. \A to : To(to).code = Nil
    BY Zenon DEF To
  <2>3. CASE t = "webtransport"
    <3>1. r.method = "CONNECT"
      BY Zenon, <2>3 DEF UpgradeRequest
    <3>2. ServeHTTP(r) = To("wtUpgrade")
      BY ZenonT(60), <2>1, <2>3, <3>1 DEF ServeHTTP, ServeConnect, Serves, allowsTransport
    <3> QED
      BY Zenon, <2>2, <3>2
  <2>4. CASE t = "websocket"
    <3>1. r.method = "GET" /\ r.eio = 4 /\ r.transport = "websocket" /\ r.sid # Nil
      BY Zenon, <2>4, DispatchAssumption DEF UpgradeRequest
    <3>2. ServeHTTP(r) = handleWebSocket(r)
      BY Zenon, <2>1, <2>4, <3>1 DEF ServeHTTP, Serves, allowsTransport
    <3>3. handleWebSocket(r) = To("accept")
      BY Zenon, <3>1 DEF handleWebSocket
    <3> QED
      BY Zenon, <2>2, <3>2, <3>3
  <2> QED
    BY Zenon, <2>1, <2>3, <2>4
<1> QED
  BY <1>1, IInvHolds, PTL

\* A rejected handshake is reported, and a reported one has made no session
\* (rejectConnection, webTransportHandshake).
THEOREM RejectionsReportedHolds == Spec => []RejectionsReported
<1>1. IInv => RejectionsReported
  <2> SUFFICES ASSUME IInv PROVE RejectionsReported
    BY Zenon
  <2>1. \A h \in Handlers : answer[h] \in Codes /\ sid[h] = Nil /\ req[h].sid = Nil => h \in reported
    BY Zenon DEF IInv, Checked
  <2>2. ASSUME NEW id \in Ids PROVE creator[id] \notin reported
    BY Zenon, DispatchAssumption DEF IInv, Owned, TypeInv
  <2> QED
    BY Zenon, <2>1, <2>2 DEF RejectionsReported
<1> QED
  BY <1>1, IInvHolds, PTL

\* The store holds no session that nobody will take out of it (the delete after a failed
\* open packet in handleHandshake, handleWebSocketHandshake and webTransportHandshake).
THEOREM StoreNotLeakedHolds == Spec => []StoreNotLeaked
<1>1. IInv => StoreNotLeaked
  BY Zenon DEF IInv, TypeInv, Owned, StoreNotLeaked
<1> QED
  BY <1>1, IInvHolds, PTL
=============================================================================
