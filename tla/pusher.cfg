SPECIFICATION FairPublishersSpec
CONSTANTS
  n1 = n1 n2 = n2 n3 = n3 custom = custom
  Parts = {"starknet", "miden"}
  Rpcs = {n1, n2, n3}
  InitialRpc = custom
  MaxRpcFailures = 2
  PushLimit = 3
  MidenEnabled = FALSE
  OtherErrors = TRUE
  CheckMayRaise = TRUE
  MaxBatches = 4
  MaxFlips = 4
  MaxCalls = 3
  MaxFaults = 2
  MaxRestarts = 1
INVARIANTS FatalGuard OnceInOrder DivergenceHeals
PROPERTIES SwitchLeavesFailedNode FreshNodeIsFound CallsEnd
