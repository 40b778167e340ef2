\* Router: 2 calls, 2 keys of one owner.  Session keys: 3 routes.  Grants: 2 wallets, 2 approvals.
\* Lock: 3 writers under it and 1 beside it.
CONSTANTS
  c1 = c1
  c2 = c2
  c3 = c3
  w1 = w1
  w2 = w2
  i1 = i1
  u1 = u1
  MaxChats = 2
  MaxKeys = 2
  Payers <- OneOwner
  KeyOwner <- SameOwner
  Idems <- OneIdem
  NoIdem = NoIdem
  Cost = 1
  Fees = {0, 1}
  MaxDebit = 2
  DailyLimit = 2
  RateMax = 1
  MaxLogs = 1
  MaxChanges = 1
  RouterFaults = 1
  SessionRoutes <- ThreeCalls
  MaxDelegates = 2
  MaxOps = 3
  SessionTurns = 1
  Wallets <- TwoWallets
  NoWallet = NoWallet
  MaxApprovals = 2
  MaxNonces = 2
  MaxCodes = 2
  MaxFamilies = 2
  MaxCalls = 2
  AccessChanges = 1
  LockedWriters <- ThreeCalls
  PlainWriters <- OneWriter
  NoWriter = NoWriter
  LockCrashes = 1
SPECIFICATION AccountSpec
INVARIANTS AccountTypeOK  OneSpendPerWallet ChargeNeedsConsent LimitOvershoot  NoStrayOwner DestinationProof OneFamilyPerSignature  
CHECK_DEADLOCK FALSE
