SPECIFICATION FairSpec
CONSTANTS
  r1 = r1 r2 = r2
  Requests = {r1, r2}
  Delay <- Delays
  Fees <- AnyFees
  Threshold = 1
  Indexers = {"none", "runs"}
  MaxHead = 4
  MaxFaults = 1
INVARIANTS TypeOK SeedAfterRequest
PROPERTIES PolledIsSettled
