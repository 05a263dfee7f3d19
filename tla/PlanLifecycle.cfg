SPECIFICATION Spec
CONSTANTS
  q1 = q1
  q2 = q2
  b1 = b1
  del = del
  ins = ins
  bad = bad
  NoFile = NoFile
  NoDoc = NoDoc
  NoText = NoText
  NoConn = NoConn
  Nobody = Nobody
  LocalHosts = {"localhost", "/socket"}
  Sockets = {"/socket"}
  Loopback = {"loopback"}
  Inside <- Translated
  Planners = {q1, q2}
  Appliers = {b1}
  Acks <- SomeAcks
  Lifetime <- SomeLifetimes
  Plaintext = {q1, b1}
  Texts = {del, ins, bad}
  Lawful = {del, ins}
  KindOf <- Kinds
  Configs <- SomeConfigs
  Catalogs <- SomeCatalogs
  Reads <- SomeReads
  MaxTime = 2
  MaxChanges = 1
INVARIANTS
  TypeOK
  OnlySealedPlansRun
  ConsistentAtExecution
  PlaintextStaysLocal
  ExitZeroDurable
  RefusedLeavesNoFile
PROPERTY GoodUntilExpiry
CHECK_DEADLOCK FALSE
