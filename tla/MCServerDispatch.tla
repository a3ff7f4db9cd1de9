-------------------------- MODULE MCServerDispatch --------------------------
(* Instances of ServerDispatch for TLC.                                     *)
EXTENDS ServerDispatch

Query(method, eio, transport, id, allowed) ==
  [method |-> method, eio |-> eio, transport |-> transport, sid |-> id, allowed |-> allowed]

Handshakes == {Query("GET", 4, t, Nil, ok) : t \in {"polling", "websocket"}, ok \in BOOLEAN}
Connects == {Query("CONNECT", 0, Nil, Nil, ok) : ok \in BOOLEAN}
InSession ==
  {Query(m, 4, "polling", id, FALSE) : m \in {"GET", "POST", "PUT"}, id \in Ids}
    \cup {Query("GET", 4, "websocket", id, FALSE) : id \in Ids}
Malformed ==
  {Query("OPTIONS", 4, "polling", Nil, TRUE), Query("POST", 4, "polling", Nil, TRUE),
   Query("GET", 3, "polling", Nil, TRUE), Query("GET", 4, "webtransport", Nil, TRUE)}
AllRequests == Handshakes \cup Connects \cup InSession \cup Malformed

Options(transports, wired, allowUpgrades) ==
  [transports |-> transports, wired |-> wired, allowUpgrades |-> allowUpgrades]
AllConfigs ==
  {Options({"polling", "websocket"}, FALSE, TRUE), Options({"polling", "websocket"}, TRUE, TRUE),
   Options(Transports, FALSE, TRUE), Options(Transports, TRUE, TRUE),
   Options({"polling"}, FALSE, TRUE), Options({"polling", "websocket"}, FALSE, FALSE),
   Options({"websocket", "webtransport"}, TRUE, FALSE)}
=============================================================================
