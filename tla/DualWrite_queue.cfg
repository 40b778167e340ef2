\* Two changes and one reconcile request over a queue whose writes may fail; of every
\* list of other records, three records, one change and one fault.
CONSTANTS
  c1 = c1
  c2 = c2
  r1 = r1
  r2 = r2
  NoOp = NoOp
  NoRec = NoRec
  Changes <- TwoChanges
  Stamped <- OnlyC1
  Readers <- OneReader
  WritesMayFail = TRUE
  MaxFlushes = 2
  MaxRecords = 2
  WriteParts = {"x402", "records"}
  Kinds <- EveryKind
  MaxIds = 3
  MaxAlters = 1
  LocalCap = 2
  ReadLimit = 2
  RecordFaults = 1
SPECIFICATION WriteFairSpec
INVARIANTS NewestAtRest
PROPERTIES LandInOrder  
CHECK_DEADLOCK FALSE
