--------------------------- MODULE MCClientSocket ---------------------------
(* Instances of ClientSocket for TLC.                                       *)
EXTENDS ClientSocket, TLC

\* The identities of messages do not matter.
Symmetry == Permutations(Msgs)

\* A polling client that may upgrade to websocket, without faults; the others differ from
\* it.
Base ==
  [transports |-> <<"polling", "websocket">>, registered |-> {"polling", "websocket"},
   tryAllTransports |-> FALSE, rememberUpgrade |-> FALSE, upgrades |-> <<"websocket">>,
   closes |-> FALSE, sends |-> 0, opens |-> 1, receives |-> 0, faults |-> {}]

\* Two messages are sent during the upgrade, and the server sends one.
Upgrading == [Base EXCEPT !.sends = 2, !.receives = 1, !.faults = {"request"}]

\* Close meets an upgrade to webtransport.
Closing ==
  [Base EXCEPT !.transports = <<"polling", "webtransport">>, !.registered = Kinds,
               !.upgrades = <<"webtransport">>, !.closes = TRUE, !.sends = 1, !.faults = {"close"}]

\* Three transports are tried in turn; the last has no constructor.
FallingBack ==
  [Base EXCEPT !.transports = <<"websocket", "polling", "webtransport">>,
               !.tryAllTransports = TRUE, !.upgrades = <<"webtransport">>, !.opens = 3,
               !.faults = {"dial", "read", "decode", "request", "empty"}]

\* The server closes the session, and the socket is reopened on the remembered upgrade.
Reopening ==
  [Base EXCEPT !.rememberUpgrade = TRUE, !.sends = 1, !.opens = 2, !.receives = 1, !.faults = {"dial"}]

SafetyConfigs == {Upgrading, Closing, FallingBack, Reopening}

\* Requests and writes fail during an upgrade; a closer, and a server that may fall silent.
LiveConfigs ==
  {[Base EXCEPT !.sends = 1, !.faults = {"request", "write"}],
   [Base EXCEPT !.closes = TRUE, !.faults = {"silence"}]}
=============================================================================
