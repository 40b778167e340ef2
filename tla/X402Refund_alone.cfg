\* One sweep at a time, no crash, spends that report what they did.
CONSTANTS
  i1 = i1
  i2 = i2
  alice = alice
  http = http
  tool = tool
  sweep = sweep
  sweep2 = sweep2
  manual = manual
  Invoices <- TwoInvoices
  Owners <- OneOwner
  OwnerOf <- AllOfAlice
  Oversized <- Nobody
  HttpClients <- Nobody
  McpTools <- Tool
  Sweeps <- OneSweep
  Manuals <- Nobody
  FarmLimit = 1
  MaxAttempts = 1
  DailyCap = 1
  SpendFaults <- ExactSpends
  MaxOutcomes = 2
  MaxPayouts = 2
  MaxRestarts = 0
SPECIFICATION FairSpec
INVARIANTS FarmingBound PaysOncePerOutcome CapPlusReopened
 
CHECK_DEADLOCK FALSE
