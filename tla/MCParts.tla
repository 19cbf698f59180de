------------------------------- MODULE MCParts -------------------------------
(***************************************************************************)
(* Small instances of the modules whose parts of the system share no state,*)
(* for one run of TLC: a behaviour is one of the part chosen in its first  *)
(* state, the variables of the others keep an initial value.               *)
(*                                                                         *)
(* The part "listener" is CheckedPrices: the arithmetic over bounded       *)
(* inputs.                                                                 *)
(***************************************************************************)
EXTENDS CheckedPrices, FetcherRound, EvmRpc, LmaxConnector, LpPricer

CONSTANTS Parts, r1, r2

VARIABLE part   \* the part that runs

-----------------------------------------------------------------------------
(* What the parts are asked: a fetcher of each kind, the pairs that take its *)
(* routes one by one, and the sets of pairs that must not be mixed up.       *)

SomeTeams == {{f} : f \in Fetchers} \cup {{"Binance", "Chainlink"}}

SomePairs ==
  {{Pair(b, "USD")} : b \in {"BTC", "USDT", "WSTETH", "LBTC", "SUSN", "SURVIVOR",
                              "USN", "MRE7BTC"}}
  \cup {{Pair("ETH", "BTC")}, {Pair("BTC", "EUR")}, {Pair("BROTHER", "USDPLUS")},
        {Pair("ETH", "STRK")}, {Pair("BTC", "STRK")}, {Pair("BTC", "USDC")},
        {Pair("ETH", "USD"), Pair("BTC", "USD")},
        {Pair("ETH", "USD"), Pair("ETH", "BTC")},
        {Pair("ETH", "USD"), Pair("ETH", "USDPLUS")},
        {Pair("LBTC", "BTC"), Pair("LBTC", "USD")},
        {Pair("MRE7BTC", "USD"), Pair("MRE7YIELD", "USD")},
        {Pair("WSTETH", "USD"), Pair("WSTETH", "ETH")}}

SomeCurrencies ==
  {"USD", "USDPLUS", "USDT", "USDC", "EUR", "BTC", "ETH", "STRK", "WSTETH", "LBTC",
   "MRE7BTC", "MRE7YIELD", "SUSN", "USN", "BROTHER", "SURVIVOR"}
SomeIds == SomeCurrencies \ {"USD", "USDPLUS", "EUR"}
SomeGecko == {"BTC", "ETH", "STRK", "WSTETH", "BROTHER", "SURVIVOR"}
SomePyth == {Pair(b, "USD") : b \in {"BTC", "ETH", "USDT", "LBTC"}}
SomeStarknet == {"ETH", "USDT", "USDC", "STRK", "WSTETH", "BROTHER", "SURVIVOR"}
SomeEthereum == {"USDT", "USDC", "STRK", "LBTC", "WSTETH"}
SomeDecimals ==
  [c \in SomeCurrencies |->
     CASE c \in Stables -> 6
       [] c \in {"USD", "EUR", "BTC", "LBTC", "MRE7BTC", "MRE7YIELD"} -> 8
       [] OTHER -> 18]

-----------------------------------------------------------------------------
\* One initial state of what does not run.
IfNot(p, some) == part = p \/ some

PartsInit ==
  /\ part \in Parts
  /\ ChecksInit /\ RoundInit /\ EvmInit /\ LmaxInit /\ LpInit
  /\ IfNot("round", team = {"Binance"} /\ pairs = {Pair("BTC", "USD")})
  /\ IfNot("evm", reader = "feed")
  /\ IfNot("lmax", latest = 0)

PartsNext ==
  /\ UNCHANGED part
  /\ \/ /\ part = "listener" /\ ChecksNext
        /\ UNCHANGED <<round_vars, evm_vars, lmax_vars, lp_vars>>
     \/ /\ part = "round" /\ RoundNext
        /\ UNCHANGED <<prices, evm_vars, lmax_vars, lp_vars>>
     \/ /\ part = "evm" /\ EvmNext
        /\ UNCHANGED <<prices, round_vars, lmax_vars, lp_vars>>
     \/ /\ part = "lmax" /\ LmaxNext
        /\ UNCHANGED <<prices, round_vars, evm_vars, lp_vars>>
     \/ /\ part = "lp" /\ LpNext
        /\ UNCHANGED <<prices, round_vars, evm_vars, lmax_vars>>

PartsSpec ==
  PartsInit /\ [][PartsNext]_<<part, prices, round_vars, evm_vars, lmax_vars, lp_vars>>

\* The fairness of each module, for the part that runs.
LmaxFair ==
  /\ WF_lmax_vars(part = "lmax" /\ (ForcesSubscription \/ Signals))
  /\ WF_lmax_vars(part = "lmax" /\ IntervalPasses)
  /\ WF_lmax_vars(part = "lmax" /\ Subscriber)
  /\ WF_lmax_vars(part = "lmax" /\ Pusher)
LpFair ==
  /\ WF_lp_vars(part = "lp" /\ Round)
  /\ WF_lp_vars(part = "lp" /\ StartsAgain)

FairPartsSpec == PartsSpec /\ RoundFairness /\ LmaxFair /\ LpFair
=============================================================================
