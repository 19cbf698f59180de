--------------------------- MODULE CheckedPrices ---------------------------
(***************************************************************************)
(* The arithmetic of the listener over bounded inputs: a state holds the   *)
(* entries that the poller left for one asset, a step replaces one, and    *)
(* the properties compare the operators of PriceChecks with definitions    *)
(* that do without them.                                                   *)
(***************************************************************************)
EXTENDS PriceChecks, Functions

CONSTANTS Reporters,        \* the sources of one asset
          MaxPrice, MaxTs   \* bounds: prices and timestamps

ASSUME CheckedAssumption ==
  IsFiniteSet(Reporters) /\ MaxPrice \in Nat /\ MaxTs \in Nat

VARIABLE prices   \* the newest entry of each source

Entries == {NoEntry} \cup [price : 1..MaxPrice, ts : 1..MaxTs]

ChecksTypeOK == prices \in [Reporters -> Entries]

ChecksInit == prices = [s \in Reporters |-> NoEntry]

ChecksNext == \E s \in Reporters, e \in Entries : prices' = [prices EXCEPT ![s] = e]

ChecksSpec == ChecksInit /\ [][ChecksNext]_prices
-----------------------------------------------------------------------------
Given == {s \in Reporters : Present(prices[s])}

\* The lists of the sources of S in ascending order of their prices.
Ascending(f, S) ==
  {q \in Bijection(1..Cardinality(S), S) :
     \A i, j \in 1..Cardinality(S) : i < j => f[q[i]].price =< f[q[j]].price}

\* sorted(prices)
Sorted ==
  LET q == CHOOSE q \in Ascending(prices, Given) : TRUE
  IN  [i \in 1..Cardinality(Given) |-> prices[q[i]].price]

\* The median is the middle price, or the sum of the two middle ones, of the
\* sorted list: what statistics.median returns, doubled.
MedianIsMiddle ==
  Given # {} =>
    LET n == Cardinality(Given)
    IN  Median2(prices, Given) =
          IF n % 2 = 1 THEN 2 * Sorted[(n + 1) \div 2]
                       ELSE Sorted[n \div 2] + Sorted[n \div 2 + 1]

\* A push settles the check it was made for: then the listener asks for nothing.
PushSettlesCheck == SettledByPush(prices, Given)
=============================================================================
