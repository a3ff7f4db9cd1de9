CONSTANTS
  Handshaker = h
  Polling = Polling
  Nil = Nil
  Workers = {w1}
  Polls = {}
  Conns = {c1, c2}
  Noops = {n1, n2}
  Msgs = {}
  MaxPongs = 0
  StartTransports = {Polling}
SPECIFICATION Spec
SYMMETRY ProbeSymmetry
INVARIANTS
  StopClosedOnce
  NoopStoppable
  ProbeBounded
  NoConnLeak
