---------------------------- MODULE FetcherRound ----------------------------
(***************************************************************************)
(* FetcherClient (fetcher_client.py) with the fetchers the price-pusher    *)
(* adds to it (core/fetchers.py): a round asks all fetchers at once, gives *)
(* each up after a timeout, and keeps the entries among what they return.  *)
(*                                                                         *)
(* The pairs of a fetcher are fetched concurrently and only gathered at    *)
(* the end, so a fetcher is one task that ends with an outcome per pair.   *)
(***************************************************************************)
EXTENDS FeedFetchers

CONSTANTS
  Teams,      \* sets of fetchers, one of them the process's
  PairSets    \* what the configuration may ask for: sets of pairs

VARIABLES
  team,       \* the fetchers of this process
  pairs,      \* the set the fetchers are given their pairs of
  first,      \* the pair that list(set) puts first in Ekubo's list
  task,       \* each fetcher's task in the current round
  outcome,    \* what the fetch of each fetcher returned: pair -> outcome
  entries     \* what the last round returned, until the next: <<fetcher, pair, entry>>

round_vars == <<team, pairs, first, task, outcome, entries>>

Exchanges ==
  [Binance |-> Binance, Bybit |-> Bybit, Bitget |-> Bitget, OKX |-> Okx, Huobi |-> Huobi,
   Lbank |-> Lbank, Kucoin |-> Kucoin, MEXC |-> Mexc, Gateio |-> Gateio,
   Bitstamp |-> Bitstamp, Upbit |-> Upbit, BinanceFuture |-> BinanceFuture,
   ByBitFuture |-> BybitFuture, OkxFuture |-> OkxFuture]

EvmFeeds ==
  [Chainlink |-> Chainlink, Redstone |-> Redstone, Re7OnChain |-> Re7OnChain, USN |-> Usn,
   WstETHChainlink |-> WstethChainlink, WstETHRedstone |-> WstethRedstone,
   WstETHRate |-> WstethRate, WstETHRateLido |-> WstethRate, ERC4626 |-> Erc4626]

PriceServices == {"Defillama", "GeckoTerminal", "Dexscreener", "Coinbase", "IndexCoop",
                  "Pyth", "sUSN"}
Fetchers == DOMAIN Exchanges \cup DOMAIN EvmFeeds \cup PriceServices \cup {"Ekubo"}

ASSUME RoundAssumption ==
  /\ Teams \subseteq SUBSET Fetchers
  /\ PairSets \subseteq SUBSET [base : Currencies, quote : Currencies]
-----------------------------------------------------------------------------
ConversionRateFetchers == DOMAIN EvmFeeds \cup {"Pyth", "sUSN"}
ConversionRateOnly == {Pair("WSTETH", "USD")}

\* _add_one_fetcher: the pairs a fetcher is created with.
AskedOf(f) ==
  {p \in pairs :
     /\ p \in ConversionRateOnly => f \in ConversionRateFetchers
     /\ f = "GeckoTerminal" => p = Pair("SURVIVOR", "USD")
     /\ f = "Ekubo" => p # Pair("SURVIVOR", "USD")}

\* The fetchers that are added: those with pairs.
Added == {f \in team : AskedOf(f) # {}}

ServiceOutcomes(f, p) ==
  CASE f = "Defillama"     -> DefillamaOutcomes(p)
    [] f = "GeckoTerminal" -> GeckoOutcomes(p)
    [] f = "Dexscreener"   -> DexscreenerOutcomes(p)
    [] f = "Coinbase"      -> CoinbaseOutcomes(p)
    [] f = "IndexCoop"     -> IndexCoopOutcomes(p)
    [] f = "Pyth"          -> PythOutcomes(p)
    [] f = "sUSN"          -> SusnOutcomes(p)

\* The choices of one outcome for each pair of P.
OneEach(P, Choices(_)) ==
  {o \in [P -> UNION {Choices(p) : p \in P}] : \A p \in P : o[p] \in Choices(p)}

\* fetch of each fetcher: its outcomes, pair by pair.
ExchangeFetches(f) ==
  LET x == Exchanges[f] IN OneEach(AskedOf(f) \ x.skips, LAMBDA p : ExchangeOutcomes(x, p))

EvmFetches(f) ==
  LET asked == AskedOf(f)
  IN  UNION {OneEach(asked, LAMBDA p : EvmOutcomes(EvmFeeds[f], asked, p, oracle))
             : oracle \in BOOLEAN}

EkuboFetches ==
  LET asked == AskedOf("Ekubo")
  IN  {EkuboFetch(asked, first, priced, cut, chain)
       : priced \in SUBSET asked, cut \in SUBSET asked, chain \in BOOLEAN}

ServiceFetches(f) == OneEach(AskedOf(f), LAMBDA p : ServiceOutcomes(f, p))

FetchOutcomes(f) ==
  CASE f \in DOMAIN Exchanges -> ExchangeFetches(f)
    [] f \in DOMAIN EvmFeeds  -> EvmFetches(f)
    [] f = "Ekubo"            -> EkuboFetches
    [] f \in PriceServices    -> ServiceFetches(f)

RoundInit ==
  /\ team \in Teams
  /\ pairs \in PairSets
  /\ first \in IF AskedOf("Ekubo") # {} THEN AskedOf("Ekubo") ELSE pairs
  /\ task = [f \in team |-> "idle"]
  /\ outcome = [f \in team |-> << >>]
  /\ entries = {}

\* FetcherClient.fetch, up to the gather.
RoundStarts ==
  /\ \A f \in team : task[f] = "idle"
  /\ task' = [f \in team |-> IF f \in Added THEN "running" ELSE "idle"]
  /\ entries' = {}
  /\ UNCHANGED <<team, pairs, first, outcome>>

FetcherEnds(f) ==
  /\ task[f] = "running"
  /\ task' = [task EXCEPT ![f] = "ended"]
  /\ \E o \in FetchOutcomes(f) : outcome' = [outcome EXCEPT ![f] = o]
  /\ UNCHANGED <<team, pairs, first, entries>>

\* asyncio.timeout: whatever the fetcher had is lost.
FetcherTimesOut(f) ==
  /\ task[f] = "running"
  /\ task' = [task EXCEPT ![f] = "timed_out"]
  /\ outcome' = [outcome EXCEPT ![f] = << >>]
  /\ UNCHANGED <<team, pairs, first, entries>>

\* Variant: a fetcher that was given up is waited for.
AllReturned == \A f \in Added : task[f] = "ended"
\* asyncio.gather
AllEnded == \A f \in Added : task[f] # "running"

\* The results are flattened, errors and exceptions filtered out.
RoundEnds ==
  /\ \E f \in Added : task[f] # "idle"
  /\ AllEnded
  /\ entries' = UNION {{<<f, p, outcome[f][p]>>
                        : p \in {q \in DOMAIN outcome[f] : outcome[f][q].kind = "entry"}}
                       : f \in Added}
  /\ task' = [f \in team |-> "idle"]
  /\ outcome' = [f \in team |-> << >>]
  /\ UNCHANGED <<team, pairs, first>>

RoundNext ==
  \/ RoundStarts \/ RoundEnds
  \/ \E f \in team : FetcherEnds(f) \/ FetcherTimesOut(f)

\* The timeouts end, and so does a round.
RoundFairness == /\ WF_round_vars(\E f \in team : FetcherTimesOut(f))
                 /\ WF_round_vars(RoundEnds)

RoundSpec == RoundInit /\ [][RoundNext]_round_vars
FairRoundSpec == RoundSpec /\ RoundFairness
-----------------------------------------------------------------------------
(* Properties *)

\* Ekubo labels and converts every hopped pair with the quote of its first one.
OneQuote(f) == \A p, q \in AskedOf(f) : f = "Ekubo" => p.quote = q.quote

\* The paths whose price is known to be in another unit: see Hazards.
KnownWrong(f, e) ==
  \/ f = "Kucoin" /\ e.route = "triangulated"
  \/ f = "GeckoTerminal" /\ e.route = "cross"
  \/ f \in {"Coinbase", "IndexCoop"} /\ e.pair.quote \notin Dollars
  \/ f = "Ekubo" /\ e.unit["ten"] # 0

\* A price is in the unit of the pair its entry names, whatever the hops, the
\* conversion rates and the legs it was computed from, the stablecoins read as
\* dollars (every _construct of the fetchers).
InPairUnit ==
  \A r \in entries :
    LET e == r[3]
    IN  UpToStables(e.unit) = UpToStables(Price(e.pair)) \/ KnownWrong(r[1], e)

\* "This is only used to rebase hopped pairs (e.g. X/USDT -> X/USD)": once
\* rebased, the price of a hopped pair is in its own quote.
RebasedInPairUnit ==
  \A r \in entries :
    r[1] \in DOMAIN Exchanges /\ r[3].route = "hopped" => r[3].unit = Price(r[3].pair)

\* An entry names a pair that was asked of its fetcher, and no other entry of the
\* same fetcher names it: the orchestrator keeps one price per source and pair.
EntriesAreAsked ==
  \A r \in entries :
    OneQuote(r[1]) =>
      /\ r[3].pair \in AskedOf(r[1])
      /\ \A q \in entries : q[1] = r[1] /\ q[3].pair = r[3].pair => q = r

\* A round ends although no exchange ever answers.
RoundsEnd == []<>(\A f \in team : task[f] = "idle")
=============================================================================
