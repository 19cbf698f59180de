SPECIFICATION PublishersSpec
CONSTANTS
  n1 = n1 n2 = n2 n3 = n3 custom = custom
  Parts = {"starknet"}
  Rpcs = {n1, n2, n3}
  InitialRpc = n1
  MaxRpcFailures = 3
  PushLimit = 10
  MidenEnabled = FALSE
  OtherErrors = FALSE
  CheckMayRaise = FALSE
  MaxBatches = 4
  MaxFlips = 1
  MaxCalls = 0
  MaxFaults = 0
  MaxRestarts = 0
INVARIANTS RetryUsesNewRpc
