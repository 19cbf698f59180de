SPECIFICATION Spec
CONSTANTS
  l1 = l1 l2 = l2 a = a b = b s = s t = t perp = perp dated = dated
  Listeners = {l1, l2}
  Assets = {a, b}
  SpotAssets = {a, b}
  Sources = {s}
  Expiries = {perp}
  Perp = perp
  Prices = {1}
  data_config <- Overlapping
  OnchainPoller = TRUE
  MidenEnabled = FALSE
  EmptyLimit = 3
  PushLimit = 2
  Faults = {"poll", "read", "publish"}
  MaxPolls = 2
  MaxRestarts = 1
  TimeDifference = 0
  DevNum = 1
  DevDen = 2
INVARIANTS TypeOK QueueAccounting NoSpam EachEntryOnce
PROPERTIES ChainNeverRegresses DeliversPrices
