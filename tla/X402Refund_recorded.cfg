\* A client that calls the paid route itself.
CONSTANTS
  i1 = i1
  i2 = i2
  alice = alice
  http = http
  tool = tool
  sweep = sweep
  sweep2 = sweep2
  manual = manual
  Invoices <- OneInvoice
  Owners <- OneOwner
  OwnerOf <- AllOfAlice
  Oversized <- Nobody
  HttpClients <- Http
  McpTools <- Nobody
  Sweeps <- OneSweep
  Manuals <- Nobody
  FarmLimit = 1
  MaxAttempts = 1
  DailyCap = 1
  SpendFaults <- ExactSpends
  MaxOutcomes = 1
  MaxPayouts = 2
  MaxRestarts = 0
SPECIFICATION Spec
INVARIANTS FailureIsRecorded
CHECK_DEADLOCK FALSE
