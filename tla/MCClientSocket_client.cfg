CONSTANTS
  Nil = Nil
  Timer = timer
  Senders = {a1}
  Closers = {c1}
  Trans = {t1, t2, t3}
  Probers = {q1}
  Msgs = {m1, m2}
  ChunkSize = 1
  Configs <- SafetyConfigs
SPECIFICATION Spec
SYMMETRY Symmetry
CHECK_DEADLOCK FALSE
INVARIANTS
  TypeOK
  NothingLostOrReordered
  CleanSwitch
  NoStrandedWrite
  
  NoLeakedConnection
