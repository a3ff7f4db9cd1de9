CONSTANTS
  Handshaker = h
  Polling = Polling
  Nil = Nil
  Workers = {w1}
  Polls = {}
  Conns = {c1}
  Noops = {}
  Msgs = {}
  MaxPongs = 0
  StartTransports = {c1}
SPECIFICATION FairSpec
PROPERTY CloseHandlerFires
