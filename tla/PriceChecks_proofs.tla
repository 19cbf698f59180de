------------------------- MODULE PriceChecks_proofs -------------------------
(***************************************************************************)
(* Proofs about the arithmetic of the listener: the CHOOSE of the newest   *)
(* timestamp and of the k-th price are defined, whatever the entries, and  *)
(* a push settles the check that asked for it.                             *)
(***************************************************************************)
EXTENDS PriceChecks, FiniteSetTheorems, WellFoundedInduction, TLAPS

\* A function to the naturals has a greatest value on a finite set.
LEMMA FiniteMax ==
  ASSUME NEW S, IsFiniteSet(S), S # {}, NEW g, \A s \in S : g[s] \in Nat
  PROVE  \E m \in S : \A s \in S : g[s] =< g[m]
<1> DEFINE HasMax(U) == \E m \in U : \A s \in U : g[s] =< g[m]
           Bad == {U \in SUBSET S : U # {} /\ ~HasMax(U)}
<1>1. SUFFICES ASSUME S \in Bad PROVE FALSE
  OBVIOUS
<1>2. \A U \in SUBSET S : IsFiniteSet(U)
  BY FS_Subset
<1>3. Bad \subseteq FiniteSubsetsOf(S)
  BY <1>2 DEF FiniteSubsetsOf
<1>4. PICK U \in Bad : \A V \in Bad : ~(<<V, U>> \in StrictSubsetOrdering(S))
  <2>1. IsWellFoundedOn(StrictSubsetOrdering(S), FiniteSubsetsOf(S))
    BY FS_StrictSubsetOrderingWellFounded
  <2> HIDE DEF Bad
  <2> QED BY <2>1, <1>1, <1>3, WFMin
<1>5. PICK x \in U : TRUE
  OBVIOUS
<1>6. CASE U \ {x} = {}
  <2>1. U = {x}
    BY <1>6
  <2>2. HasMax(U)
    BY <2>1
  <2> QED BY <2>2
<1>7. CASE U \ {x} # {}
  <2>1. <<U \ {x}, U>> \in StrictSubsetOrdering(S)
    BY <1>5 DEF StrictSubsetOrdering
  <2>2. HasMax(U \ {x})
    BY <2>1, <1>4, <1>7
  <2>3. PICK m \in U \ {x} : \A s \in U \ {x} : g[s] =< g[m]
    BY <2>2
  <2>4. g[m] \in Nat /\ g[x] \in Nat /\ \A s \in U : g[s] \in Nat
    OBVIOUS
  <2>5. CASE g[x] =< g[m]
    <3>1. \A s \in U : g[s] =< g[m]
      BY <2>3, <2>5
    <3> QED BY <3>1
  <2>6. CASE g[m] < g[x]
    <3>1. \A s \in U : g[s] =< g[x]
      BY <2>3, <2>4, <2>6
    <3> QED BY <3>1
  <2> QED BY <2>4, <2>5, <2>6
<1> QED BY <1>6, <1>7

\* The newest timestamp is one of the timestamps, and none is newer
\* (PriceListener._get_latest_orchestrator_entry).
LEMMA NewestTsIsNewest ==
  ASSUME NEW S, IsFiniteSet(S), S # {}, NEW f, \A s \in S : f[s].ts \in Nat
  PROVE  /\ NewestTs(f, S) \in Nat
         /\ \E s \in S : NewestTs(f, S) = f[s].ts
         /\ \A s \in S : f[s].ts =< NewestTs(f, S)
<1> DEFINE g == [s \in S |-> f[s].ts]
<1>1. PICK m \in S : \A s \in S : g[s] =< g[m]
  <2>1. \A s \in S : g[s] \in Nat
    OBVIOUS
  <2> HIDE DEF g
  <2> QED BY <2>1, FiniteMax
<1>2. \A s \in S : f[s].ts =< f[m].ts
  BY <1>1
<1>3. \E t \in {f[s].ts : s \in S} : \A s \in S : f[s].ts =< t
  BY <1>2
<1> QED BY <1>3 DEF NewestTs

\* ... and a least one.
LEMMA FiniteMin ==
  ASSUME NEW S, IsFiniteSet(S), S # {}, NEW g, \A s \in S : g[s] \in Nat
  PROVE  \E m \in S : \A s \in S : g[m] =< g[s]
<1>1. PICK top \in S : \A s \in S : g[s] =< g[top]
  BY FiniteMax
<1> DEFINE below == [s \in S |-> g[top] - g[s]]
<1>2. \A s \in S : below[s] \in Nat
  <2> SUFFICES ASSUME NEW s \in S PROVE below[s] \in Nat
    OBVIOUS
  <2>1. g[s] \in Nat /\ g[top] \in Nat /\ g[s] =< g[top]
    BY <1>1
  <2> QED BY <2>1
<1>3. PICK m \in S : \A s \in S : below[s] =< below[m]
  <2> HIDE DEF below
  <2> QED BY <1>2, FiniteMax
<1>4. ASSUME NEW s \in S PROVE g[m] =< g[s]
  <2>1. g[s] \in Nat /\ g[top] \in Nat /\ g[m] \in Nat
    OBVIOUS
  <2>2. g[top] - g[s] =< g[top] - g[m]
    BY <1>3
  <2> QED BY <2>1, <2>2
<1> QED BY <1>4

\* How many prices are below p, and how many do not exceed it.
NumBelow(f, S, p) == Cardinality({s \in S : f[s].price < p})
NumUpTo(f, S, p) == Cardinality({s \in S : f[s].price =< p})

\* The k-th price of a list of at least k is one of its prices: fewer than k
\* are below it, and k or more do not exceed it (statistics.median).
LEMMA KthPriceIsPrice ==
  ASSUME NEW S, IsFiniteSet(S), NEW f, \A s \in S : f[s].price \in Nat,
         NEW k \in Nat \ {0}, k =< Cardinality(S)
  PROVE  /\ KthPrice(f, S, k) \in {f[s].price : s \in S}
         /\ KthPrice(f, S, k) \in Nat
         /\ NumBelow(f, S, KthPrice(f, S, k)) < k
         /\ NumUpTo(f, S, KthPrice(f, S, k)) >= k
<1> DEFINE g == [s \in S |-> f[s].price]
           UpTo(p) == {s \in S : f[s].price =< p}
           Under(p) == {s \in S : f[s].price < p}
           Enough == {s \in S : Cardinality(UpTo(f[s].price)) >= k}
<1>1. \A U \in SUBSET S : IsFiniteSet(U) /\ Cardinality(U) \in Nat
  BY FS_Subset, FS_CardinalityType
<1>2. S # {}
  BY FS_EmptySet
<1>3. \A s \in S : g[s] \in Nat
  OBVIOUS
<1>4. Enough # {}
  <2>1. PICK m \in S : \A s \in S : g[s] =< g[m]
    <3> HIDE DEF g
    <3> QED BY <1>2, <1>3, FiniteMax
  <2>2. UpTo(f[m].price) = S
    BY <2>1
  <2>3. m \in Enough
    BY <2>2
  <2> QED BY <2>3
<1>5. PICK m \in Enough : \A s \in Enough : f[m].price =< f[s].price
  <2>1. IsFiniteSet(Enough) /\ \A s \in Enough : g[s] \in Nat
    BY <1>1, <1>3
  <2>2. \E m \in Enough : \A s \in Enough : g[m] =< g[s]
    <3> HIDE DEF g, Enough
    <3> QED BY <2>1, <1>4, FiniteMin
  <2> QED BY <2>2
<1>6. Cardinality(Under(f[m].price)) < k
  <2>1. SUFFICES ASSUME Cardinality(Under(f[m].price)) >= k PROVE FALSE
    BY <1>1
  <2>2. Under(f[m].price) # {}
    <3>1. SUFFICES ASSUME Under(f[m].price) = {} PROVE FALSE
      OBVIOUS
    <3>2. Cardinality(Under(f[m].price)) = 0
      <4> HIDE DEF Under
      <4> QED BY <3>1, FS_EmptySet, Zenon
    <3>3. 0 >= k
      BY <2>1, <3>2
    <3> QED BY <3>3
  <2>3. PICK q \in Under(f[m].price) : \A s \in Under(f[m].price) : g[s] =< g[q]
    <3>1. /\ IsFiniteSet(Under(f[m].price))
          /\ \A s \in Under(f[m].price) : g[s] \in Nat
      BY <1>1, <1>3
    <3> HIDE DEF g, Under
    <3> QED BY <3>1, <2>2, FiniteMax
  <2>4. UpTo(f[q].price) = Under(f[m].price)
    <3>1. \A s \in S : f[s].price =< f[q].price <=> f[s].price < f[m].price
      <4>1. /\ f[q].price \in Nat /\ f[m].price \in Nat
            /\ f[q].price < f[m].price
        OBVIOUS
      <4>2. \A s \in Under(f[m].price) : f[s].price =< f[q].price
        BY <2>3
      <4> QED BY <4>1, <4>2
    <3> QED BY <3>1
  <2>5. q \in Enough
    BY <2>4, <2>1
  <2>6. f[m].price =< f[q].price /\ f[q].price < f[m].price
    BY <2>5, <1>5
  <2> QED BY <2>6
<1>7. \E p \in {f[s].price : s \in S} :
        /\ Cardinality({s \in S : f[s].price < p}) < k
        /\ Cardinality({s \in S : f[s].price =< p}) >= k
  BY <1>5, <1>6
<1>8. /\ KthPrice(f, S, k) \in {f[s].price : s \in S}
      /\ Cardinality({s \in S : f[s].price < KthPrice(f, S, k)}) < k
      /\ Cardinality({s \in S : f[s].price =< KthPrice(f, S, k)}) >= k
  <2> HIDE <1>5
  <2> QED BY <1>7 DEF KthPrice
<1>9. KthPrice(f, S, k) \in Nat
  BY <1>8
<1> QED BY <1>8, <1>9 DEF NumBelow, NumUpTo

\* The median of some prices is defined, and between two of them: what the
\* oracle answers lies between prices that were reported to it.
THEOREM MedianIsBetweenPrices ==
  ASSUME NEW S, IsFiniteSet(S), S # {}, NEW f, \A s \in S : f[s].price \in Nat
  PROVE  /\ Median2(f, S) \in Nat
         /\ \E s, t \in S : /\ 2 * f[s].price =< Median2(f, S)
                           /\ Median2(f, S) =< 2 * f[t].price
<1> DEFINE n == Cardinality(S)
           low == KthPrice(f, S, (n + 1) \div 2)
           high == KthPrice(f, S, n \div 2 + 1)
<1>1. n \in Nat /\ n > 0
  BY FS_CardinalityType, FS_EmptySet
<1>2. /\ (n + 1) \div 2 \in Nat \ {0} /\ (n + 1) \div 2 =< n
      /\ n \div 2 + 1 \in Nat \ {0} /\ n \div 2 + 1 =< n
  <2> HIDE DEF n
  <2> QED BY <1>1
<1>3. PICK s \in S : low = f[s].price
  <2>1. low \in {f[s].price : s \in S}
    <3> DEFINE k == (n + 1) \div 2
    <3>1. k \in Nat \ {0} /\ k =< Cardinality(S)
      BY <1>2
    <3> HIDE DEF k
    <3>2. KthPrice(f, S, k) \in {f[s].price : s \in S}
      BY <3>1, KthPriceIsPrice
    <3> QED BY <3>2 DEF k
  <2> QED BY <2>1
<1>4. PICK t \in S : high = f[t].price
  <2>1. high \in {f[x].price : x \in S}
    <3> DEFINE k == n \div 2 + 1
    <3>1. k \in Nat \ {0} /\ k =< Cardinality(S)
      BY <1>2
    <3> HIDE DEF k
    <3>2. KthPrice(f, S, k) \in {f[x].price : x \in S}
      BY <3>1, KthPriceIsPrice
    <3> QED BY <3>2 DEF k
  <2> QED BY <2>1
<1>5. Median2(f, S) = f[s].price + f[t].price
  BY <1>3, <1>4 DEF Median2
<1>6. f[s].price \in Nat /\ f[t].price \in Nat
  OBVIOUS
<1>7. CASE f[s].price =< f[t].price
  BY <1>5, <1>6, <1>7
<1>8. CASE f[t].price < f[s].price
  BY <1>5, <1>6, <1>8
<1> QED BY <1>6, <1>7, <1>8

\* A push settles the check that asked for it: once the oracle holds the entries the
\* listener compares it with, it is neither outdated nor deviating by more than its
\* rounding (_oracle_entry_is_outdated, _new_price_is_deviating).
THEOREM PushesSettle ==
  ASSUME NEW S, IsFiniteSet(S), NEW f,
         \A s \in S : f[s].price \in Nat /\ f[s].ts \in Nat /\ Present(f[s])
  PROVE  SettledByPush(f, S)
<1> SUFFICES ASSUME S # {}, DevNum * 2 * Aggregated(f, S).price >= DevDen
             PROVE  CheckAsset(Aggregated(f, S), f, S, TRUE) = "ok"
  BY DEF SettledByPush
<1> DEFINE m == Median2(f, S)
           t == NewestTs(f, S)
           p == m \div 2
<1>1. m \in Nat
  BY MedianIsBetweenPrices
<1>2. t \in Nat /\ t > 0
  <2>1. t \in Nat /\ \E s \in S : t = f[s].ts
    BY NewestTsIsNewest
  <2> QED BY <2>1 DEF Present
<1> HIDE DEF m, t
<1>3. p \in Nat /\ (m = 2 * p \/ m = 2 * p + 1)
  BY <1>1
<1>4. Aggregated(f, S) = [price |-> p, ts |-> t]
  BY DEF Aggregated, m, t
<1> HIDE DEF p
<1>5. ~Outdated(Aggregated(f, S), t)
  BY <1>2, <1>4, ChecksAssumption DEF Outdated
<1>6. ~Deviating(m, p)
  <2>1. AbsDiff(m, 2 * p) = 0 \/ AbsDiff(m, 2 * p) = 1
    BY <1>3 DEF AbsDiff
  <2>2. DevDen \in Nat /\ DevNum * 2 * p \in Nat /\ DevNum * 2 * p >= DevDen
    BY <1>3, <1>4, ChecksAssumption
  <2>3. AbsDiff(m, 2 * p) * DevDen = 0 \/ AbsDiff(m, 2 * p) * DevDen = DevDen
    BY <2>1, <2>2
  <2> QED BY <2>2, <2>3 DEF Deviating
<1>7. Present(Aggregated(f, S))
  BY <1>2, <1>4 DEF Present
<1>8. CheckAsset(Aggregated(f, S), f, S, TRUE) = "ok"
  BY <1>4, <1>5, <1>6, <1>7 DEF CheckAsset, m, t
<1> QED BY <1>8
=============================================================================
