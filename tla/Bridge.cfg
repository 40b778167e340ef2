\* Auto-mint: 2 owners, 3 starts.  Source: 2 executions, 1 poll, 2 previews.  Destination: 3 calls.
CONSTANTS
  c1 = c1
  c2 = c2
  c3 = c3
  o1 = o1
  o2 = o2
  q1 = q1
  q2 = q2
  s1 = s1
  NoJob = NoJob
  NoStart = NoStart
  NoOperation = NoOperation
  NoMint = NoMint
  BurnOwners <- TwoOwners
  Starts <- ThreeCalls
  LeaseModes = {TRUE, FALSE}
  MaxPolls = 2
  MaxTroubles = 1
  Executions <- TwoOwners
  Pollers <- OnePoller
  Previews <- TwoPreviews
  BridgeFaults = 1
  Mints <- ThreeCalls
  MintFaults = 1
SPECIFICATION BridgeSpec
SYMMETRY Symmetry
INVARIANTS BridgeTypeOK OneLoop NoSilentPolling OneBurnPerQuote  OneMintInFlight SuccessMeansMinted
PROPERTIES BurnOwnerKept
CHECK_DEADLOCK FALSE
