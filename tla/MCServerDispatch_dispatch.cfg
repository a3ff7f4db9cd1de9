CONSTANTS
  Handlers = {h1, h2}
  Ids = {i1, i2}
  Requests <- AllRequests
  Configs <- AllConfigs
  Nil = Nil
SPECIFICATION FairSpec
CHECK_DEADLOCK FALSE
INVARIANTS
  GateRespected
  EnabledTransportsOnly
  OfferedIsServed
  
  StoreNotLeaked

  
