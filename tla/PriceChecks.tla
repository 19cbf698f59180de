---------------------------- MODULE PriceChecks ----------------------------
(***************************************************************************)
(* The arithmetic of price_pusher/core/listener.py: when is the price the  *)
(* oracle holds too old, or too far from the prices the poller collected,  *)
(* so that the listener must ask for a push?                               *)
(*                                                                         *)
(* An entry is a record [price, ts].  ts = 0 is what the oracle contract   *)
(* answers for data it does not have (SpotEntry.from_oracle_response turns *)
(* it into None), so a single record stands for "no entry".                *)
(*                                                                         *)
(* price_deviation is the fraction DevNum / DevDen; a median is kept       *)
(* doubled, so that the mean of two middle prices stays an integer.        *)
(***************************************************************************)
EXTENDS Integers, FiniteSets

CONSTANTS TimeDifference,   \* price_config.time_difference
          DevNum, DevDen    \* price_config.price_deviation = DevNum / DevDen

ASSUME ChecksAssumption == /\ TimeDifference \in Nat
                           /\ DevNum \in Nat
                           /\ DevDen \in Nat \ {0}

NoEntry == [price |-> 0, ts |-> 0]

Present(e) == e.ts > 0

\* The k-th smallest (from 1) of the prices f[s], s \in S, counted with
\* their multiplicity.
KthPrice(f, S, k) ==
  CHOOSE p \in {f[s].price : s \in S} :
    /\ Cardinality({s \in S : f[s].price < p}) < k
    /\ Cardinality({s \in S : f[s].price =< p}) >= k

\* Variant: the upper middle price, as statistics.median_high.
MedianHigh2(f, S) == 2 * KthPrice(f, S, Cardinality(S) \div 2 + 1)

\* statistics.median of the prices of S, doubled.
Median2(f, S) ==
  LET n == Cardinality(S)
  IN  KthPrice(f, S, (n + 1) \div 2) + KthPrice(f, S, n \div 2 + 1)

\* The timestamp of max(entries, key=get_timestamp).
NewestTs(f, S) ==
  CHOOSE t \in {f[s].ts : s \in S} : \A s \in S : f[s].ts =< t

\* What the oracle answers for a spot price or a perpetual when it holds the entries f
\* of the sources S: their median and the newest timestamp.
Aggregated(f, S) == [price |-> Median2(f, S) \div 2, ts |-> NewestTs(f, S)]

AbsDiff(x, y) == IF x < y THEN y - x ELSE x - y

\* Variants: the bound itself is too old; the difference is taken the other way
\* round.
OutdatedAtBound(oracle, newest_ts) == newest_ts - oracle.ts >= TimeDifference
OutdatedSwapped(oracle, newest_ts) == oracle.ts - newest_ts > TimeDifference

\* PriceListener._oracle_entry_is_outdated
Outdated(oracle, newest_ts) == newest_ts - oracle.ts > TimeDifference

\* PriceListener._new_price_is_deviating
Deviating(median2, oracle_price) ==
  AbsDiff(median2, 2 * oracle_price) * DevDen > DevNum * 2 * oracle_price

Outcomes == {"ok", "notify", "missing_expiry", "zero_division"}

(***************************************************************************)
(* What one asset contributes to _does_oracle_needs_update: oracle is the  *)
(* cached oracle entry, f the orchestrator's entries of the expiry the     *)
(* oracle is read at and S the sources that have one; some is false when   *)
(* the orchestrator has no entry at all for the asset.  Two outcomes are   *)
(* exceptions that escape the listener's task:                             *)
(*   missing_expiry  None.get_timestamp() in _oracle_entry_is_outdated,    *)
(*   zero_division   deviation / oracle_price in _new_price_is_deviating.  *)
(***************************************************************************)
CheckAsset(oracle, f, S, some) ==
  CASE ~some                              -> "ok"
    [] some /\ ~Present(oracle)           -> "notify"
    [] some /\ Present(oracle) /\ S = {}  -> "missing_expiry"
    [] OTHER ->
         IF Outdated(oracle, NewestTs(f, S))                  THEN "notify"
         ELSE IF ~Deviating(Median2(f, S), oracle.price)      THEN "ok"
         ELSE IF oracle.price = 0                             THEN "zero_division"
         ELSE "notify"
-----------------------------------------------------------------------------
\* With the same entries on both sides the check asks for nothing, as long as
\* price_deviation is not finer than the oracle's rounding of the median.
SettledByPush(f, S) ==
  S # {} /\ DevNum * 2 * Aggregated(f, S).price >= DevDen =>
    CheckAsset(Aggregated(f, S), f, S, TRUE) = "ok"
=============================================================================
