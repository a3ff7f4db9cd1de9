--------------------------- MODULE ServerDispatch ---------------------------
(***************************************************************************)
(* The server's request handlers (server.go, server_handshake.go,          *)
(* serveWebTransport) over the session store, for several requests and     *)
(* sessions at once.  One request goroutine per handler; a step is what    *)
(* the handler does between two accesses to state it shares, or between    *)
(* two waits.  What happens inside a session is ServerSession's subject:   *)
(* here a session has a state, a transport and a probe.                    *)
(***************************************************************************)
EXTENDS Integers, FiniteSets

CONSTANTS
  Handlers,   \* request goroutines
  Ids,        \* session identifiers; generateID never repeats one
  Requests,   \* the requests that arrive
  Configs,    \* the options a server may have
  Nil

Transports == {"polling", "websocket", "webtransport"}

\* ConnectionErrorCode
Codes == {"unknown transport", "unknown sid", "bad method", "bad request", "forbidden", "version"}

ASSUME DispatchAssumption ==
  /\ Nil \notin Handlers \cup Ids \cup Transports \cup Codes
  /\ Cardinality(Ids) >= Cardinality(Handlers)
  /\ \A c \in Configs : c.transports \subseteq Transports

VARIABLES
  config,      \* the options: transports, wired (an HTTP/3 upgrader), allowUpgrades
  store,       \* the session store, as the identifiers in it
  session,     \* each session: its state, transport, and the handler probing an upgrade
  offered,     \* the upgrades its open packet offered
  creator,     \* the handler whose handshake made it
  req,         \* each handler's request,
  pc,          \* where it is,
  sid,         \* the session it works for,
  answer,      \* and the status or error code it answered with
  reported     \* the handlers that reported a rejection to the connection-error handler

sessions == <<store, session, offered, creator>>
vars == <<config, sessions, req, pc, sid, answer, reported>>

None == [state |-> "none", transport |-> Nil, probe |-> Nil]

Init ==
  /\ config \in Configs
  /\ store = {} /\ session = [id \in Ids |-> None]
  /\ offered = [id \in Ids |-> {}] /\ creator = [id \in Ids |-> Nil]
  /\ req = [h \in Handlers |-> Nil] /\ pc = [h \in Handlers |-> "idle"]
  /\ sid = [h \in Handlers |-> Nil] /\ answer = [h \in Handlers |-> Nil]
  /\ reported = {}

Goto(h, label) == pc' = [pc EXCEPT ![h] = label]
At(h, label) == pc[h] = label

\* The handler returns having answered a, Nil when it wrote no answer of its own.
Return(h, a) == Goto(h, "done") /\ answer' = [answer EXCEPT ![h] = a]

\* rejectConnection
Reject_Unreported(h, code) == Return(h, code) /\ UNCHANGED reported
Reject(h, code) == Return(h, code) /\ reported' = reported \cup {h}
-----------------------------------------------------------------------------
(* ServeHTTP, handlePolling and handleWebSocket up to the first use of a    *)
(* session: where the request goes, or the code it is rejected with.        *)

To(label) == [to |-> label, code |-> Nil]
Rejected(code) == [to |-> "done", code |-> code]

allowsTransport(t) == t \in config.transports

\* allowHandshake
allowHandshake(r, label) == IF r.allowed THEN To(label) ELSE Rejected("forbidden")

ServeConnect_AnyTransport == IF config.wired THEN To("wtUpgrade") ELSE Rejected("unknown transport")
ServeConnect ==
  IF config.wired /\ allowsTransport("webtransport") THEN To("wtUpgrade")
    ELSE Rejected("unknown transport")

handlePolling(r) ==
  CASE r.sid # Nil                     -> To("lookup")
    [] r.sid = Nil /\ r.method # "GET" -> Rejected("bad method")
    [] OTHER                           -> allowHandshake(r, "put")

handleWebSocket(r) == IF r.sid # Nil THEN To("accept") ELSE allowHandshake(r, "accept")

ServeHTTP(r) ==
  CASE r.method = "OPTIONS" -> To("preflight")
    [] r.method = "CONNECT" -> ServeConnect
    [] OTHER ->
         CASE r.eio # 4                       -> Rejected("version")
           [] r.eio = 4 /\ ~allowsTransport(r.transport) -> Rejected("unknown transport")
           [] OTHER ->
                CASE r.transport = "websocket" -> handleWebSocket(r)
                  [] r.transport = "polling"   -> handlePolling(r)
                  [] OTHER                     -> Rejected("unknown transport")

Request(h, r) ==
  /\ At(h, "idle")
  /\ req' = [req EXCEPT ![h] = r] /\ Goto(h, "serve")
  /\ UNCHANGED <<config, sessions, sid, answer, reported>>

Serve(h) ==
  LET route == ServeHTTP(req[h]) IN
  /\ At(h, "serve")
  /\ CASE route.code # Nil -> Reject(h, route.code)
       [] route.code = Nil /\ route.to = "preflight" -> Return(h, "204") /\ UNCHANGED reported
       [] OTHER -> Goto(h, route.to) /\ UNCHANGED <<answer, reported>>
  /\ UNCHANGED <<config, sessions, req, sid>>
-----------------------------------------------------------------------------
(* A handshake: the session is put in the store, its open packet written,   *)
(* and the session opened.                                                  *)

\* The transport of the handler's request: a CONNECT has no query.
Transport(h) == IF req[h].method = "CONNECT" THEN "webtransport" ELSE req[h].transport

\* buildOpenPacket: only a session that starts on polling is offered upgrades.
Offered_Unwired(h) ==
  IF Transport(h) = "polling" /\ config.allowUpgrades THEN config.transports \ {"polling"} ELSE {}
Offered(h) ==
  IF Transport(h) = "polling" /\ config.allowUpgrades
    THEN {t \in config.transports : t = "websocket" \/ (t = "webtransport" /\ config.wired)}
    ELSE {}

Put(h) ==
  /\ At(h, "put")
  /\ \E id \in Ids :
       /\ session[id] = None
       /\ session' = [session EXCEPT ![id] = [state |-> "opening", transport |-> Transport(h), probe |-> Nil]]
       /\ store' = store \cup {id}
       /\ offered' = [offered EXCEPT ![id] = Offered(h)]
       /\ creator' = [creator EXCEPT ![id] = h]
       /\ sid' = [sid EXCEPT ![h] = id]
  /\ Goto(h, "write")
  /\ UNCHANGED <<config, req, answer, reported>>

Write(h) ==
  /\ At(h, "write") /\ Goto(h, "open")
  /\ UNCHANGED <<config, sessions, req, sid, answer, reported>>

Unregister_Skipped(id) == UNCHANGED store
Unregister(id) == store' = store \ {id}

WriteFail(h) ==
  /\ At(h, "write")
  /\ Unregister(sid[h]) /\ Return(h, Nil)
  /\ UNCHANGED <<config, session, offered, creator, req, sid, reported>>

\* open, and the connection handler; a connection's handler is then held until it closes.
Open(h) ==
  /\ At(h, "open")
  /\ session' = [session EXCEPT ![sid[h]].state = IF @ = "opening" THEN "open" ELSE @]
  /\ IF Transport(h) = "polling" THEN Return(h, "200") ELSE Goto(h, "hold") /\ UNCHANGED answer
  /\ UNCHANGED <<config, store, offered, creator, req, sid, reported>>
-----------------------------------------------------------------------------
(* Requests of a session.                                                   *)

\* A poll needs the active transport to be polling (activePollingTransport).
Serveable(method, id) == method = "POST" \/ (method = "GET" /\ session[id].transport = "polling")

\* handlePolling with a session id.
Lookup(h) ==
  LET id == req[h].sid IN
  /\ At(h, "lookup")
  /\ CASE id \notin store -> Reject(h, "unknown sid") /\ UNCHANGED sid
       [] id \in store /\ ~Serveable(req[h].method, id) ->
            Return(h, "bad request") /\ UNCHANGED <<sid, reported>>
       [] OTHER ->
            /\ Goto(h, IF req[h].method = "GET" THEN "poll" ELSE "send")
            /\ sid' = [sid EXCEPT ![h] = id] /\ UNCHANGED <<answer, reported>>
  /\ UNCHANGED <<config, sessions, req>>

\* closeWithReason: the state first, the store later (Forget).
Teardown(id) == [session EXCEPT ![id] = [state |-> "closed", transport |-> Nil, probe |-> Nil]]
Alive(id) == session[id].state \in {"opening", "open"}

\* handlePoll: answered, sooner or later; unknown when the polling transport has been closed
\* by now, with the session or by an upgrade; a second poll, a failed answer and a client
\* that leaves close the session.
ServedPoll(h) ==
  /\ At(h, "poll")
  /\ \/ Return(h, "200") /\ UNCHANGED session
     \/ session[sid[h]].transport # "polling" /\ Return(h, "unknown sid") /\ UNCHANGED session
     \/ session' = Teardown(sid[h]) /\ \E a \in {"bad request", Nil} : Return(h, a)
  /\ UNCHANGED <<config, store, offered, creator, req, sid, reported>>

\* handleSend: a binary or malformed body closes the session; one that cannot be read or is
\* too large does not.
ServedSend(h) ==
  /\ At(h, "send")
  /\ \/ \E a \in {"200", "413", "bad request"} : Return(h, a) /\ UNCHANGED session
     \/ session' = Teardown(sid[h]) /\ Return(h, "bad request")
  /\ UNCHANGED <<config, store, offered, creator, req, sid, reported>>

\* A session ends for a reason of its own, or in Server.Close; then it leaves the store.
CloseSession(id) ==
  /\ Alive(id) /\ session' = Teardown(id)
  /\ UNCHANGED <<config, store, offered, creator, req, pc, sid, answer, reported>>

Forget(id) ==
  /\ session[id].state = "closed" /\ id \in store
  /\ store' = store \ {id}
  /\ UNCHANGED <<config, session, offered, creator, req, pc, sid, answer, reported>>
-----------------------------------------------------------------------------
(* Connections: websocket.Accept, and serveWebTransport up to the client's  *)
(* opening packet.                                                          *)

Accept(h) ==
  /\ At(h, "accept")
  /\ \/ Goto(h, IF req[h].sid = Nil THEN "put" ELSE "upgrade") /\ UNCHANGED answer
     \/ Return(h, Nil)
  /\ sid' = [sid EXCEPT ![h] = req[h].sid]
  /\ UNCHANGED <<config, sessions, req, reported>>

WtUpgrade(h) ==
  /\ At(h, "wtUpgrade")
  /\ (Goto(h, "wtAccept") /\ UNCHANGED answer) \/ Return(h, "400")
  /\ UNCHANGED <<config, sessions, req, sid, reported>>

\* The client opens its stream, or the upgrade timeout ends the wait.
WtAccept(h) ==
  /\ At(h, "wtAccept") /\ Goto(h, "wtRead")
  /\ UNCHANGED <<config, sessions, req, sid, answer, reported>>

TimedWait_AcceptOnly == {"wtAccept"}
TimedWait == {"wtAccept", "wtRead"}

WtTimeout(h) ==
  /\ pc[h] \in TimedWait /\ Return(h, Nil)
  /\ UNCHANGED <<config, sessions, req, sid, reported>>

\* The gate of webTransportHandshake: the CONNECT is answered, so a rejection is only reported.
WtGate_Open(h) == TRUE
WtGate(h) == req[h].allowed

\* The first packet: an open packet without data, one with a session id, or anything else.
WtRead(h) ==
  /\ At(h, "wtRead")
  /\ \/ /\ WtGate(h) /\ Goto(h, "put") /\ UNCHANGED <<answer, reported, sid>>
     \/ /\ ~WtGate(h) /\ Return(h, Nil)
        /\ reported' = reported \cup {h} /\ UNCHANGED sid
     \/ /\ \E id \in Ids : sid' = [sid EXCEPT ![h] = id]
        /\ Goto(h, "upgrade") /\ UNCHANGED <<answer, reported>>
     \/ /\ Return(h, Nil) /\ UNCHANGED <<reported, sid>>
  /\ UNCHANGED <<config, sessions, req>>
-----------------------------------------------------------------------------
(* Upgrades: handleWebSocketUpgrade, webTransportUpgrade.                    *)

\* startUpgrade's test.
MayUpgrade(id) ==
  session[id].state = "open" /\ session[id].probe = Nil /\ session[id].transport = "polling"

Upgrade(h) ==
  LET id == sid[h] IN
  /\ At(h, "upgrade")
  /\ IF id \in store /\ MayUpgrade(id)
       THEN /\ session' = [session EXCEPT ![id].probe = h]
            /\ Goto(h, "probe") /\ UNCHANGED answer
       ELSE Return(h, Nil) /\ UNCHANGED session
  /\ UNCHANGED <<config, store, offered, creator, req, sid, reported>>

\* The probe completes, or is abandoned: the client goes, or the upgrade timer fires.
Complete(h) ==
  /\ At(h, "probe") /\ session[sid[h]].probe = h
  /\ session' = [session EXCEPT ![sid[h]].transport = Transport(h), ![sid[h]].probe = Nil]
  /\ Goto(h, "hold")
  /\ UNCHANGED <<config, store, offered, creator, req, sid, answer, reported>>

Abandon(h) ==
  /\ At(h, "probe")
  /\ session' = IF session[sid[h]].probe = h THEN [session EXCEPT ![sid[h]].probe = Nil] ELSE session
  /\ Return(h, Nil)
  /\ UNCHANGED <<config, store, offered, creator, req, sid, reported>>

\* The connection of a session that has ended is closed, which ends its read loop.
Release(h) ==
  /\ At(h, "hold") /\ ~Alive(sid[h])
  /\ Return(h, Nil)
  /\ UNCHANGED <<config, sessions, req, sid, reported>>
-----------------------------------------------------------------------------
\* What a handler does by itself; the client's part is WtAccept, WtRead and Complete.
Run(h) ==
  \/ Serve(h) \/ Put(h) \/ Write(h) \/ WriteFail(h) \/ Open(h) \/ Lookup(h)
  \/ ServedPoll(h) \/ ServedSend(h) \/ Accept(h) \/ WtUpgrade(h) \/ WtTimeout(h)
  \/ Upgrade(h) \/ Abandon(h) \/ Release(h)

Client(h) == (\E r \in Requests : Request(h, r)) \/ WtAccept(h) \/ WtRead(h) \/ Complete(h)

Next ==
  \/ \E h \in Handlers : Run(h) \/ Client(h)
  \/ \E id \in Ids : CloseSession(id) \/ Forget(id)

Spec == Init /\ [][Next]_vars

\* Goroutines and timers are fair; clients, and what makes a session end, are not.
FairSpec ==
  /\ Spec
  /\ \A h \in Handlers : WF_vars(Run(h))
  /\ \A id \in Ids : WF_vars(Forget(id))
-----------------------------------------------------------------------------
\* No session exists that the allow-request gate did not let in, whichever of the three
\* handshakes made it (WithAllowRequest: "a gate run for every handshake before a session
\* is allocated").
GateRespected == \A id \in Ids : creator[id] # Nil => req[creator[id]].allowed

\* A live session is on a transport the server enables and can serve, also after an upgrade
\* (ServeHTTP's allowsTransport, on every path that leads to a session).
EnabledTransportsOnly ==
  \A id \in Ids : Alive(id) =>
    /\ session[id].transport \in config.transports
    /\ session[id].transport = "webtransport" => config.wired

\* The request of a client that follows an offer.
UpgradeRequest(t, id) ==
  [method |-> IF t = "webtransport" THEN "CONNECT" ELSE "GET", eio |-> 4, transport |-> t,
   sid |-> id, allowed |-> FALSE]

\* Every upgrade an open packet offers is one that ServeHTTP lets through (buildOpenPacket:
\* "advertising it otherwise would send clients probing a transport the server cannot
\* serve").
OfferedIsServed ==
  \A id \in Ids : \A t \in offered[id] : ServeHTTP(UpgradeRequest(t, id)).code = Nil

\* A handshake answered with an error code was reported to the connection-error handler,
\* and one that was reported has made no session (ServerConnectionErrorHandler: "rejected
\* by validation before a session is established").
RejectionsReported ==
  /\ \A h \in Handlers : answer[h] \in Codes /\ sid[h] = Nil /\ req[h].sid = Nil => h \in reported
  /\ \A id \in Ids : creator[id] \notin reported

\* The store holds no session that nobody will take out of it: it is open, or its handshake
\* is under way, or it is being torn down (a failed open packet deletes its session).
StoreNotLeaked ==
  \A id \in store :
    session[id].state \in {"open", "closed"} \/ pc[creator[id]] \in {"write", "open"}

\* A handler returns, unless it serves a session that is alive: no client holds it by
\* staying silent (serveWebTransport's two deadlines, "a peer that opens the stream but never
\* writes would hold this handler goroutine").
HandlersReturn ==
  \A h \in Handlers :
    pc[h] # "idle" ~> pc[h] = "done" \/ (At(h, "hold") /\ Alive(sid[h]))

\* With upgrades disallowed no session is upgraded (WithAllowUpgrades: "whether the server
\* advertises and accepts transport upgrades").
UpgradesAllowed ==
  \A id \in Ids : Alive(id) /\ session[id].transport # Transport(creator[id]) => config.allowUpgrades
=============================================================================
