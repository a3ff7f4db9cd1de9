CONSTANTS
  Handshaker = h
  Polling = Polling
  Nil = Nil
  Workers = {w1}
  Polls = {p1, p2}
  Conns = {}
  Noops = {}
  Msgs = {m1}
  MaxPongs = 0
  StartTransports = {Polling}
SPECIFICATION FairSpec
PROPERTIES
  SessionEnds
  PollsAnswered
