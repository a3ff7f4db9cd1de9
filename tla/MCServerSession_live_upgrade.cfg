CONSTANTS
  Handshaker = h
  Polling = Polling
  Nil = Nil
  Workers = {w1}
  Polls = {}
  Conns = {c1}
  Noops = {n1}
  Msgs = {}
  MaxPongs = 1
  StartTransports = {Polling, c1}
SPECIFICATION FairSpec
PROPERTY GoroutinesEnd
