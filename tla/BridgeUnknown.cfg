\* A call that finds the intent of a burn submission without an answer.
CONSTANTS
  c1 = c1
  c2 = c2
  c3 = c3
  o1 = o1
  o2 = o2
  q1 = q1
  q2 = q2
  s1 = s1
  NoJob = NoJob
  NoStart = NoStart
  NoOperation = NoOperation
  NoMint = NoMint
  BurnOwners <- TwoOwners
  Starts <- ThreeCalls
  LeaseModes = {TRUE, FALSE}
  MaxPolls = 2
  MaxTroubles = 1
  Executions <- TwoOwners
  Pollers <- OnePoller
  Previews <- TwoPreviews
  BridgeFaults = 1
  Mints <- ThreeCalls
  MintFaults = 2
SPECIFICATION BridgeSpec
PROPERTY UnknownIsNotBurnedAgain
CHECK_DEADLOCK FALSE
