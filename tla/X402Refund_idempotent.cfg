\* A sweep and a manual execution of the same refund.
CONSTANTS
  i1 = i1
  i2 = i2
  alice = alice
  http = http
  tool = tool
  sweep = sweep
  sweep2 = sweep2
  manual = manual
  Invoices <- OneInvoice
  Owners <- OneOwner
  OwnerOf <- AllOfAlice
  Oversized <- Nobody
  HttpClients <- Nobody
  McpTools <- Tool
  Sweeps <- OneSweep
  Manuals <- Manual
  FarmLimit = 1
  MaxAttempts = 1
  DailyCap = 2
  SpendFaults <- ExactSpends
  MaxOutcomes = 1
  MaxPayouts = 2
  MaxRestarts = 0
SPECIFICATION Spec
INVARIANTS RefundIdempotent
CHECK_DEADLOCK FALSE
