CONSTANTS
  Nil = Nil
  Timer = timer
  Senders = {a1}
  Closers = {c1}
  Trans = {t1, t2}
  Probers = {q1}
  Msgs = {m1}
  ChunkSize = 1
  Configs <- LiveConfigs
SPECIFICATION FairSpec
CHECK_DEADLOCK FALSE
PROPERTIES
  BufferDrains
  CloseCompletes
