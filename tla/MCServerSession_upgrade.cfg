CONSTANTS
  Handshaker = h
  Polling = Polling
  Nil = Nil
  Workers = {w1}
  Polls = {p1}
  Conns = {c1}
  Noops = {n1}
  Msgs = {m1}
  MaxPongs = 0
  StartTransports = {Polling}
SPECIFICATION Spec
INVARIANTS
  TypeOK
  ExclusiveDelivery
  NoOrphanedPoll
  HeartbeatAlive
PROPERTY ImplementsContract
