\* Lost file writes, a restart and failing block lookups, one request in flight.
CONSTANTS
  i1 = i1
  i2 = i2
  alice = alice
  bob = bob
  p1 = p1
  p2 = p2
  NoInvoice = NoInvoice
  Invoices <- MCInvoices
  Wallets <- TwoWallets
  Owners <- OneOwner
  Pollers <- OnePoller
  BasePrices <- OnePrice
  UniqueRange = 2
  MaxUnpaid = 1
  DiskOutcomes <- DiskMayFail
  RpcMayFail = TRUE
  MaxTransfers = 1
  MaxRestarts = 1
SPECIFICATION Spec
SYMMETRY Symmetry
INVARIANTS PaidHasEvidence OpenCap
CHECK_DEADLOCK FALSE
