CONSTANTS
  Handshaker = h
  Polling = Polling
  Nil = Nil
  Workers = {w1, w2}
  Polls = {}
  Conns = {}
  Noops = {}
  Msgs = {m1}
  MaxPongs = 0
  StartTransports = {Polling}
SPECIFICATION Spec
PROPERTY NoPingTimeoutWhileClosing
