SPECIFICATION FairSpec
CONSTANTS
  l1 = l1 l2 = l2 a = a b = b s = s t = t perp = perp dated = dated
  Listeners = {l1}
  Assets = {a}
  SpotAssets = {a}
  Sources = {s, t}
  Expiries = {perp}
  Perp = perp
  Prices = {1}
  data_config <- OneAsset
  OnchainPoller = FALSE
  MidenEnabled = FALSE
  EmptyLimit = 3
  PushLimit = 2
  Faults = {"read", "publish"}
  MaxPolls = 3
  MaxRestarts = 0
  TimeDifference = 1
  DevNum = 1
  DevDen = 2
PROPERTIES NotificationJustified StaleIsFlushed StaleReachesChain
