------------------------------ MODULE Fetchers ------------------------------
(***************************************************************************)
(* What each fetcher of pragma_sdk/common/fetchers turns its requests into,*)
(* given what exchanges and chain answer: an entry for the pair, an error  *)
(* (PublisherFetchError) or an exception.  A price is its unit, see Units. *)
(*                                                                         *)
(* A reply is "unlisted" when the body is what the fetcher's own check at  *)
(* that place takes for an unknown market, "price" when it is not and has  *)
(* the fields _construct reads, and "other" in all other cases, a lost     *)
(* connection included.                                                    *)
(***************************************************************************)
EXTENDS Units, Sequences, FiniteSets

CONSTANTS
  CoingeckoIds,   \* currencies with a coingecko_id in supported_assets.yaml
  GeckoAssets,    \* the keys of GeckoTerminal's ASSET_MAPPING
  PythFeeds,      \* the keys of PYTH_FEED_IDS
  OnStarknet,     \* currencies with a starknet_address
  OnEthereum,     \* currencies with an ethereum_address
  Decimals        \* the decimals of each currency

ASSUME FetchersAssumption == Decimals \in [Currencies -> Nat]

Reply == {[status |-> "200", body |-> b] : b \in {"price", "unlisted", "other"}}
         \cup [status : {"400", "404"}, body : {"unlisted", "other"}]

Entry(p, unit, route) == [kind |-> "entry", pair |-> p, unit |-> unit, route |-> route]
Error == [kind |-> "error"]
Raised == [kind |-> "raised"]

\* What comes of requests sent one after the other, with these kinds of reply: the
\* first that is no price ends it.
Settle(kinds, entry) ==
  IF \A i \in DOMAIN kinds : kinds[i] = "price" THEN entry
  ELSE LET i == CHOOSE j \in DOMAIN kinds :
                  kinds[j] # "price" /\ \A k \in 1..(j - 1) : kinds[k] = "price"
       IN  IF kinds[i] = "raised" THEN Raised ELSE Error

\* HopHandler.get_hop_pair, the pair itself when there is nothing to hop.
HopPair(hops, p) ==
  IF p.quote \in DOMAIN hops /\ hops[p.quote] # p.base
    THEN Pair(p.base, hops[p.quote]) ELSE p
-----------------------------------------------------------------------------
(* The exchanges.  All have one procedure, in which they differ by:        *)
(*   hops      their hop_handler                                           *)
(*   rebases   the pairs whose price is divided by get_stable_price:       *)
(*             "hopped", "all" or "none"                                   *)
(*   skips     the pairs their fetch leaves out                            *)
(*   refuses   the status that is an error at once                         *)
(*   lists     what tells an unknown market: the "body", "400" or nothing  *)
(*   second    an unknown market is priced by two others, base/USDT and    *)
(*             "quote"/USDT (or the "base" again); "wrapped": the first    *)
(*             answer is read without unwrapping its body; "none"          *)

Exchange(rebases, lists, second) ==
  [hops |-> [USD |-> "USDT"], rebases |-> rebases, skips |-> {}, refuses |-> "404",
   lists |-> lists, second |-> second]

Direct == [Exchange("none", "none", "none") EXCEPT !.hops = << >>]

Binance == Exchange("hopped", "body", "quote")
Bybit   == Exchange("hopped", "body", "quote")
Bitget  == Exchange("hopped", "body", "wrapped")
Okx     == Exchange("hopped", "body", "none")
Huobi   == Exchange("all", "body", "quote")
Lbank   == Exchange("all", "body", "wrapped")
Kucoin  == Exchange("none", "body", "base")
Mexc    == [Exchange("all", "none", "quote") EXCEPT !.refuses = "400"]
Gateio  == [Exchange("all", "400", "quote") EXCEPT
              !.skips = {Pair("NSTR", "USD"), Pair("USDT", "USD")}]
Bitstamp == Direct
Upbit == Direct
BinanceFuture == [Direct EXCEPT !.lists = "body"]
BybitFuture == [Direct EXCEPT !.lists = "body"]
OkxFuture == [Direct EXCEPT !.lists = "body"]

\* The checks of fetch_pair on its reply, in their order. (A 400 of Gate.io whose body is
\* no JSON raises: the outcome of other replies of its.)
ReplyKind(x, reply) ==
  CASE reply.status = x.refuses -> "error"
    [] reply.status # x.refuses /\ reply.body = "price" -> "price"
    [] \/ x.lists = "body" /\ reply.body = "unlisted" /\ reply.status # x.refuses
       \/ x.lists = "400" /\ reply.status = "400" -> "unlisted"
    [] OTHER -> "raised"

\* The same checks in operate_usdt_hop, where an unknown market is an error.
LegReplyKind(x, reply) ==
  IF ReplyKind(x, reply) = "unlisted" THEN "error" ELSE ReplyKind(x, reply)

\* get_stable_price("USDT"): "the price of USDT in USD", from the oracle or, when
\* it fails, taken to be 1.
StablePrice == Price(Pair("USDT", "USD"))

\* Variant: the first leg is the divisor.
TriangulatedInverse(x, p) ==
  LET other == IF x.second = "base" THEN p.base ELSE p.quote
  IN  Over(Price(Pair(other, "USDT")), Price(Pair(p.base, "USDT")))

\* _construct of the market that stands for p.
Rebased(x, p) ==
  LET market == HopPair(x.hops, p)
      rebase == x.rebases = "all" \/ (x.rebases = "hopped" /\ market # p)
  IN  IF rebase THEN Over(Price(market), StablePrice) ELSE Price(market)

\* _construct of the two legs.
Triangulated(x, p) ==
  LET other == IF x.second = "base" THEN p.base ELSE p.quote
  IN  Over(Price(Pair(p.base, "USDT")), Price(Pair(other, "USDT")))

OperateUsdtHop(x, p, leg1, leg2) ==
  LET built == IF x.second = "wrapped" THEN "raised" ELSE "price"
  IN  IF x.second = "none" THEN Error
      ELSE Settle(<<LegReplyKind(x, leg1), LegReplyKind(x, leg2), built>>,
                  Entry(p, Triangulated(x, p), "triangulated"))

FetchPair(x, p, reply, leg1, leg2) ==
  IF ReplyKind(x, reply) = "unlisted" THEN OperateUsdtHop(x, p, leg1, leg2)
  ELSE Settle(<<ReplyKind(x, reply)>>,
              Entry(p, Rebased(x, p),
                    IF HopPair(x.hops, p) = p THEN "direct" ELSE "hopped"))

ExchangeOutcomes(x, p) ==
  {FetchPair(x, p, r, l, m) : r \in Reply, l \in Reply, m \in Reply}
=============================================================================
