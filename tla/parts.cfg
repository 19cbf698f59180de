SPECIFICATION FairPartsSpec
CONSTANTS
  r1 = r1 r2 = r2
  Parts = {"listener", "round", "evm", "lmax", "lp"}
  Reporters = {s1, s2, s3, s4}
  MaxPrice = 3
  MaxTs = 2
  TimeDifference = 0
  DevNum = 1
  DevDen = 2
  Currencies <- SomeCurrencies
  CoingeckoIds <- SomeIds
  GeckoAssets <- SomeGecko
  PythFeeds <- SomePyth
  OnStarknet <- SomeStarknet
  OnEthereum <- SomeEthereum
  Decimals <- SomeDecimals
  Teams <- SomeTeams
  PairSets <- SomePairs
  Reads = {r1, r2}
  NumRpcs = 3
  ErrorThreshold = 2
  MaxSnapshots = 2
  MaxDisturbances = 2
  MinPoints = 3
  MaxValues = 4
  TimeToLive = 3
  MaxAge = 9
  MaxMishaps = 4
INVARIANTS MedianIsMiddle PushSettlesCheck
  InPairUnit EntriesAreAsked NothingUnread NoPriceAcrossOutage PointsSpanTheirRounds
PROPERTIES RoundsEnd
  NeverGivesUpUnasked AsksOnce LonelyReadAsksAll
  SpotFollowsBook SnapshotsArePushed Resubscribes PoolIsPriced
