\* Two deliveries of two notifications, a mark-paid request, one outage, one restart; two card
\* calls and two card transactions.
CONSTANTS
  i1 = i1
  i2 = i2
  t1 = t1
  deposited = deposited
  minted = minted
  d1 = d1
  d2 = d2
  m1 = m1
  NoInvoice = NoInvoice
  NoTx = NoTx
  Invoices <- TwoInvoices
  Txs <- OneTx
  Settles <- PaysFirst
  Notices <- TwoNotices
  EventOf <- Events
  InvoiceOf <- References
  TxOf <- Hashes
  Deliveries <- TwoDeliveries
  Payments <- OnePayment
  Patches <- Asked
  DbModes = {TRUE, FALSE}
  MaxOutages = 1
  MaxRestarts = 1
  CardCalls <- TwoDeliveries
  MaxCardTxs = 2
  DailyLimits = {1, 2}
  DefaultFunds = 1
  MaxLedger = 2
  WalletFunds = 2
  CardChanges = 1
SPECIFICATION PaymentSpec
SYMMETRY Symmetry
INVARIANTS PaidHasPayment EffectOnce  SpentWithinLimit
PROPERTIES TakesBackOnlyByOverlap
CHECK_DEADLOCK FALSE
