CONSTANTS
  Handshaker = h
  Polling = Polling
  Nil = Nil
  Workers = {w1, w2}
  Polls = {p1, p2}
  Conns = {}
  Noops = {}
  Msgs = {m1, m2}
  MaxPongs = 0
  StartTransports = {Polling}
SPECIFICATION Spec
SYMMETRY Symmetry
INVARIANTS
  InOrderOnce
  GracefulCloseDelivers
  NoSilentGap
  NoLostWakeup
  NotifiedOnce
