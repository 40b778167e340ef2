\* Two changes that both set updatedAt, one reconcile request, no failures.
CONSTANTS
  c1 = c1
  c2 = c2
  r1 = r1
  r2 = r2
  NoOp = NoOp
  NoRec = NoRec
  Changes <- TwoChanges
  Stamped <- TwoChanges
  Readers <- OneReader
  WritesMayFail = FALSE
  MaxFlushes = 0
  MaxRecords = 2
  WriteParts = {"x402"}
  Kinds <- OneKind
  MaxIds = 1
  MaxAlters = 0
  LocalCap = 1
  ReadLimit = 1
  RecordFaults = 0
SPECIFICATION WriteSpec
INVARIANTS NothingLost
CHECK_DEADLOCK FALSE
