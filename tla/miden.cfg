SPECIFICATION MidenSpec
CONSTANTS
  l1 = l1 l2 = l2 a = a b = b s = s t = t perp = perp dated = dated
  Listeners = {l1}
  Assets = {a}
  SpotAssets = {}
  Sources = {s}
  Expiries = {perp, dated}
  Perp = perp
  Prices = {0, 1}
  data_config <- OneAsset
  OnchainPoller = FALSE
  MidenEnabled = TRUE
  EmptyLimit = 2
  PushLimit = 2
  Faults = {"poll", "read", "publish", "miden"}
  MaxPolls = 3
  MaxRestarts = 1
  TimeDifference = 1
  DevNum = 1
  DevDen = 2
INVARIANTS FilteredPollsNeverCrash
PROPERTIES MidenFollowsPolls
