---------------------------- MODULE FeedFetchers ----------------------------
(***************************************************************************)
(* The fetchers that read no order book: price services (Defillama,        *)
(* GeckoTerminal, Dexscreener, Coinbase, IndexCoop, Pyth), feeds and vaults*)
(* of EVM chains, and the pools of Ekubo.                                  *)
(***************************************************************************)
EXTENDS Fetchers

Dollars == {"USD", "USDPLUS"}
InDollars(c) == Price(Pair(c, "USD"))
ReplyKinds == {"price", "error", "raised"}

\* Defillama: dollar prices, divided for another quote.
DefillamaOutcomes(p) ==
  LET ignored == p.base \notin CoingeckoIds \/ p.base \in {"UNIBTC", "LBTC"}
      direct == p.quote \in Dollars
      hops == p.quote \in CoingeckoIds
  IN  IF ignored \/ (~direct /\ ~hops) THEN {Error}
      ELSE IF direct
        THEN {Settle(<<v>>, Entry(p, InDollars(p.base), "direct")) : v \in ReplyKinds}
        ELSE {Settle(kinds, Entry(p, Over(InDollars(p.base), InDollars(p.quote)), "cross"))
              : kinds \in ReplyKinds \X ReplyKinds}

\* GeckoTerminal: for another quote the price of the quote is divided by the
\* price of the base, and the checks of the second reply look at the first one.
GeckoCross(p) == Over(InDollars(p.quote), InDollars(p.base))
GeckoOutcomes(p) ==
  LET direct == p.quote \in Dollars
      known == p.base \in GeckoAssets /\ (direct \/ p.quote \in GeckoAssets)
  IN  IF ~known THEN {Error}
      ELSE IF direct
        THEN {Settle(<<v>>, Entry(p, InDollars(p.base), "direct")) : v \in ReplyKinds}
        ELSE {Settle(kinds, Entry(p, GeckoCross(p), "cross"))
              : kinds \in ReplyKinds \X {"price", "raised"}}

\* Dexscreener: the first pool of a search for the base and USDC.
DexscreenerOutcomes(p) ==
  IF \/ p.quote \notin Dollars \/ p.base \in Stables
     \/ p.base \notin OnStarknet \cup OnEthereum
    THEN {Error}
    ELSE {Settle(<<v>>, Entry(p, InDollars(p.base), "direct")) : v \in ReplyKinds}

\* Coinbase: the inverse of a rate against the dollar, whatever the quote.
CoinbaseOutcomes(p) ==
  {Settle(<<v>>, Entry(p, InDollars(p.base), "direct")) : v \in ReplyKinds}

\* IndexCoop: the NAV in dollars. The body is parsed only when its type is not
\* application/json: the regular answer raises (an unbound variable).
IndexCoopOutcomes(p) ==
  {Raised} \cup {Settle(<<v>>, Entry(p, InDollars(p.base), "direct")) : v \in ReplyKinds}

\* Pyth: a feed of the pair, or a conversion rate times the oracle's ETH/USD. The exponents
\* of its prices, of which abs is taken, are those of decimals: never positive.
PythHopped == [p \in {Pair("WSTETH", "USD")} |-> "ETH"]
PythOutcomes(p) ==
  IF p \in PythFeeds THEN {Settle(<<v>>, Entry(p, Price(p), "direct")) : v \in ReplyKinds}
  ELSE IF p \in DOMAIN PythHopped
    THEN LET hop == PythHopped[p]
             unit == Times(Price(Pair(p.base, hop)), InDollars(hop))
         IN  {Settle(kinds, Entry(p, unit, "hopped"))
              : kinds \in ReplyKinds \X {"price", "error"}}
    ELSE {Error}
-----------------------------------------------------------------------------
(* Feeds of EVM chains.  A fetcher has its hop_handler and its feed_configs,*)
(* from the pairs it prices to the pair the contract's ratio is about.      *)

\* build_feed_mapping: a configured pair, and its feed's own pair.
FeedMapping(configs) ==
  [p \in DOMAIN configs \cup {configs[q] : q \in DOMAIN configs} |->
     IF p \in DOMAIN configs THEN configs[p] ELSE p]

\* Configured pairs that are their feeds' own.
Own(ps) == [p \in ps |-> p]
OracleFeeds(hop, configs) == [hops |-> hop, feeds |-> FeedMapping(configs)]

InBitcoin == [USD |-> "BTC"]
Chainlink == OracleFeeds(InBitcoin, Own({Pair("LBTC", "BTC"), Pair("UNIBTC", "BTC")}))
Redstone == OracleFeeds(InBitcoin, Own({Pair("LBTC", "BTC")}))
Re7OnChain == OracleFeeds(InBitcoin,
  [p \in {Pair("MRE7BTC", "USD"), Pair("MRE7YIELD", "USD")} |->
     IF p.base = "MRE7BTC" THEN Pair("MRE7BTC", "BTC") ELSE p])
Usn == OracleFeeds(InBitcoin, Own({Pair("USN", "USD")}))
WstethFeed == OracleFeeds([USD |-> "ETH"],
  [p \in {Pair("WSTETH", "USD")} |-> Pair("WSTETH", "ETH")])
WstethChainlink == WstethFeed
WstethRedstone == WstethFeed
WstethRate == WstethFeed
Erc4626 == OracleFeeds(<< >>, << >>)

\* The pair of the feed that prices p; p has none when this is not a feed.
FeedOf(e, p) ==
  IF p \in DOMAIN e.feeds THEN e.feeds[p] ELSE HopPair(e.hops, p)
Fed(e, p) == p \in DOMAIN e.feeds \/ FeedOf(e, p) \in DOMAIN e.feeds

\* get_hop_prices, for all hops or for none: the prices it found.
HopPrices(e) == {Pair(e.hops[q], q) : q \in DOMAIN e.hops}

RequiresHop(e, ps) == \E p \in ps : Fed(e, p) /\ FeedOf(e, p).quote # p.quote

\* _fetch_single_pair: the ratio of the feed, times the price of its quote.
SinglePair(e, p, hop_prices, kind) ==
  LET feed == FeedOf(e, p)
      hop == Pair(feed.quote, p.quote)
  IN  IF feed = p THEN Settle(<<kind>>, Entry(p, Price(p), "direct"))
      ELSE Settle(<<kind, IF hop \in hop_prices THEN "price" ELSE "error">>,
                  Entry(p, Times(Price(feed), Price(hop)), "hopped"))

\* fetch: the exception of get_hop_prices costs every pair of the fetcher.
EvmOutcomes(e, ps, p, oracle) ==
  IF RequiresHop(e, ps) /\ ~oracle THEN {Raised}
  ELSE IF ~Fed(e, p) THEN {Error}
  ELSE LET hop_prices == IF RequiresHop(e, ps) THEN HopPrices(e) ELSE {}
       IN  {SinglePair(e, p, hop_prices, v) : v \in ReplyKinds}

\* sUSNFetcher: the rate of the vault times the price of USN.
SusnOutcomes(p) ==
  IF p # Pair("SUSN", "USD") THEN {Error}
  ELSE {Settle(kinds, Entry(p, Times(Price(Pair("SUSN", "USN")), Price(Pair("USN", "USD"))),
                            "hopped")) : kinds \in ReplyKinds \X ReplyKinds}
-----------------------------------------------------------------------------
(* Ekubo: one call per quote, for all pairs at once.                       *)

EkuboHops == [USD |-> "USDC", USDPLUS |-> "USDC"]
EkuboHopped(p) == HopPair(EkuboHops, p) # p

\* _convert_raw_cairo_price: the pool's price is in the smallest units of both
\* currencies; the power of ten it takes loses the sign of the exponent.
EkuboTens(m) ==
  LET d == Decimals[m.base] - Decimals[m.quote]
  IN  Tens((IF d < 0 THEN -d ELSE d) - d)

LookupQuote(q) == IF q = "USDPLUS" THEN "USD" ELSE q

\* Variant: the pair is labelled with the quote the hop price is looked up for.
QuoteOfHop(first) == LookupQuote(first.quote)
\* _adapt_back_hopped_pair looks at the quote of the fetcher's first pair.
RequestedQuote(first) == first.quote

\* _handle_price_status for the pair p.
EkuboEntry(first, p) ==
  LET market == HopPair(EkuboHops, p)
      raw == Times(Price(market), EkuboTens(market))
      quote == RequestedQuote(first)
  IN  IF ~EkuboHopped(p) THEN Entry(p, raw, "direct")
      ELSE IF Pair("USDC", LookupQuote(quote)) \notin
                {Pair(EkuboHops[q], q) : q \in DOMAIN EkuboHops} THEN Raised
      ELSE Entry(Pair(p.base, quote), Times(raw, Price(Pair("USDC", LookupQuote(quote)))),
                 "hopped")

\* The pairs of one get_prices call, and whether the call is made.
EkuboGroup(all, p) ==
  {q \in all :
     /\ HopPair(EkuboHops, q).quote = HopPair(EkuboHops, p).quote
     /\ EkuboHopped(q) = EkuboHopped(p)}
Called(p) == HopPair(EkuboHops, p).quote \in OnStarknet

\* What fetch makes of answers that price the pairs `priced`: an exception
\* loses every pair. An answer for the pairs `cut` is too long or incomplete: the
\* items of its call are replaced by one BaseException. Without `chain` the hop
\* prices cannot be read, or a call fails.
EkuboFetch(all, first, priced, cut, chain) ==
  LET kept == {p \in all : Called(p) /\ p \in priced /\ EkuboGroup(all, p) \cap cut = {}}
      raises == \/ ~chain /\ \E p \in all : Called(p)
                \/ \E p \in kept : EkuboEntry(first, p) = Raised
  IN  [p \in all |-> IF raises THEN Raised
                     ELSE IF p \in kept THEN EkuboEntry(first, p)
                     ELSE Error]
=============================================================================
