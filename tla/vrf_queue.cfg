SPECIFICATION FairSpec
CONSTANTS
  r1 = r1 r2 = r2
  Requests = {r1}
  Delay <- DefaultDelay
  Fees <- Covered
  Threshold = 3
  Indexers = {"runs"}
  MaxHead = 3
  MaxFaults = 0
PROPERTIES DueIsSettled
