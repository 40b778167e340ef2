\* Every fault: overlapping executions, late failures, a restart.
CONSTANTS
  i1 = i1
  i2 = i2
  alice = alice
  http = http
  tool = tool
  sweep = sweep
  sweep2 = sweep2
  manual = manual
  Invoices <- TwoInvoices
  Owners <- OneOwner
  OwnerOf <- AllOfAlice
  Oversized <- OnlyI2
  HttpClients <- Http
  McpTools <- Tool
  Sweeps <- OneSweep
  Manuals <- Manual
  FarmLimit = 1
  MaxAttempts = 2
  DailyCap = 2
  SpendFaults <- LateFaults
  MaxOutcomes = 1
  MaxPayouts = 2
  MaxRestarts = 1
SPECIFICATION Spec
INVARIANTS PayoutIsJustified
CHECK_DEADLOCK FALSE
