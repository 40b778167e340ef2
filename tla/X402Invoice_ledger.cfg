\* Store: two requests in flight, reliable writes, a restart.
\* Access: two calls of one wallet owner, two wallets, two resources, two transfers.
CONSTANTS
  i1 = i1
  i2 = i2
  alice = alice
  bob = bob
  p1 = p1
  p2 = p2
  u1 = u1
  w1 = w1
  w2 = w2
  r1 = r1
  r2 = r2
  NoInvoice = NoInvoice
  Invoices <- MCInvoices
  Wallets <- OneWallet
  Owners <- OneOwner
  Pollers <- TwoPollers
  BasePrices <- OnePrice
  UniqueRange = 2
  MaxUnpaid = 2
  DiskOutcomes <- DiskIsReliable
  RpcMayFail = FALSE
  MaxTransfers = 1
  MaxRestarts = 1
  PayCalls <- TwoPollers
  Users <- OneUser
  NoUser = NoUser
  PayerWallets <- TwoPayers
  NoPayer = NoPayer
  InvoiceIds <- MCInvoices
  NoId = NoId
  Resources <- TwoResources
  OpenPerOwner = 1
  MaxSends = 2
  PayerChanges = 1
SPECIFICATION AccessSpec
SYMMETRY AccessSymmetry
INVARIANTS DirectIsFresh OneTransferOneInvoice ServedIsPaid PaidOnceUnlessBlind
PROPERTIES ImplementsLedger
CHECK_DEADLOCK FALSE
