CONSTANTS
  Handshaker = h
  Polling = Polling
  Nil = Nil
  Workers = {w1}
  Polls = {}
  Conns = {c1}
  Noops = {}
  Msgs = {m1}
  MaxPongs = 0
  StartTransports = {c1}
SPECIFICATION Spec
INVARIANT OpenPacketFirst
