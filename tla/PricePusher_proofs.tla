------------------------- MODULE PricePusher_proofs -------------------------
(***************************************************************************)
(* Proofs about the pusher and the RPC monitor, for any list of nodes and  *)
(* any limits: types, the fatal guard, and what a switch of node respects  *)
(* when two tasks may switch; and about the listener's median, for any     *)
(* number of sources and any prices.                                       *)
(***************************************************************************)
EXTENDS PricePusher, CheckedPrices, PriceChecks_proofs, FunctionTheorems, TLAPS

\* A switch that succeeds goes to another node of the list, which answers and
\* is not known to have failed (RPCHealthMonitor.switch_rpc).
LEMMA SwitchTarget ==
  ASSUME TypeOK, NEW node \in Rpcs, SwitchesTo(node)
  PROVE  /\ rpc' = node /\ node \in Nodes /\ node \in up
         /\ node \notin failed_rpcs' /\ rpc \in failed_rpcs'
         /\ failed_rpcs' \subseteq Nodes
         /\ account_rpc' = account_rpc
         /\ current_rpc_failures' = 0
BY DEF SwitchesTo, Candidates, FailedAfter, Nodes, TypeOK

\* A switch that fails, and no switch, keep the node.
LEMMA KeepsNode ==
  ASSUME TypeOK, NEW failures, SwitchFails(failures) \/ StaysOn(failures)
  PROVE  /\ rpc' = rpc /\ account_rpc' = account_rpc
         /\ failed_rpcs' \subseteq Nodes
         /\ current_rpc_failures' = failures
BY DEF SwitchFails, StaysOn, FailedAfter, Nodes, TypeOK

\* One failure more, up to the limit.
LEMMA OneMoreFailureType ==
  ASSUME TypeOK
  PROVE  /\ OneMoreFailure \in 0..MaxRpcFailures
         /\ OneMoreFailure >= MaxRpcFailures => current_rpc_failures + 1 >= MaxRpcFailures
BY PusherAssumption DEF OneMoreFailure, TypeOK

\* What every step does to the references of the client: it keeps them, or
\* switches after enough failures.
ClientStep ==
  /\ account_rpc' = account_rpc
  /\ failed_rpcs' \subseteq Nodes
  /\ current_rpc_failures' \in 0..MaxRpcFailures
  /\ \/ rpc' = rpc
     \/ /\ rpc' \in Nodes /\ rpc' \in up
        /\ rpc' \notin failed_rpcs' /\ rpc \in failed_rpcs'
        /\ current_rpc_failures + 1 >= MaxRpcFailures
        /\ current_rpc_failures' = 0

\* A step that leaves the client alone keeps its references.
LEMMA ClientKept ==
  ASSUME TypeOK, UNCHANGED client_vars
  PROVE  ClientStep
BY DEF ClientStep, client_vars, TypeOK

\* A switch after enough failures (PragmaOnChainClient.switch_rpc).
LEMMA ClientSwitched ==
  ASSUME TypeOK, NEW node \in Rpcs, SwitchesTo(node), OneMoreFailure >= MaxRpcFailures
  PROVE  ClientStep
BY SwitchTarget, OneMoreFailureType, PusherAssumption DEF ClientStep

\* A switch that finds no working node, or no switch at all.
LEMMA ClientStays ==
  ASSUME TypeOK, NEW failures \in 0..MaxRpcFailures,
         SwitchFails(failures) \/ StaysOn(failures)
  PROVE  ClientStep
BY KeepsNode DEF ClientStep

\* What the monitor does to the client in a check (RPCHealthMonitor).
LEMMA MonitorClient ==
  ASSUME TypeOK, MonitorStep
  PROVE  ClientStep
<1>1. CASE MonitorStartsCheck
  BY <1>1, ClientKept DEF MonitorStartsCheck
<1>2. CASE MonitorSeesFailure
  BY <1>2, ClientSwitched, ClientStays, OneMoreFailureType DEF MonitorSeesFailure
<1>3. CASE MonitorSeesHealthy
  BY <1>3, ClientStays, PusherAssumption DEF MonitorSeesHealthy
<1>4. CASE MonitorRaises
  BY <1>4, ClientKept DEF MonitorRaises
<1> QED BY <1>1, <1>2, <1>3, <1>4 DEF MonitorStep

\* What the pusher does to the client when a publication fails.
LEMMA PublishFailsClient ==
  ASSUME TypeOK, PublishFails
  PROVE  ClientStep
<1>1. CASE RetriesOnNewRpc
  BY <1>1, ClientSwitched DEF RetriesOnNewRpc
<1>2. CASE GivesUp
  BY <1>2, ClientStays, OneMoreFailureType DEF GivesUp
<1> QED BY <1>1, <1>2 DEF PublishFails

\* What any step does to the client.
LEMMA NextClient ==
  ASSUME TypeOK, [Next]_vars
  PROVE  ClientStep
<1>1. CASE MonitorStep
  BY <1>1, MonitorClient
<1>2. CASE PusherStarts \/ PublishSucceeds \/ PusherSettles
  BY <1>2, ClientKept DEF PusherStarts, PublishSucceeds, PusherSettles
<1>3. CASE PublishFails
  BY <1>3, PublishFailsClient
<1>4. CASE NodeFlips
  BY <1>4, ClientKept DEF NodeFlips
<1>5. CASE UNCHANGED vars
  BY <1>5, ClientKept DEF vars
<1> QED BY <1>1, <1>2, <1>3, <1>4, <1>5 DEF Next, Stopped, PusherStep

\* The monitor and the pusher start idle, with nothing counted.
LEMMA InitFacts == Init => TypeOK /\ FatalGuard
<1> SUFFICES ASSUME Init PROVE TypeOK /\ FatalGuard
  OBVIOUS
<1>1. 0 \in 0..PushLimit /\ 0 < PushLimit /\ 0 \in 0..MaxRpcFailures
  BY PusherAssumption
<1>2. InitialRpc \in Nodes
  BY DEF Nodes
<1>3. TypeOK
  BY <1>1, <1>2 DEF Init, TypeOK
<1>4. FatalGuard
  BY <1>1 DEF Init, FatalGuard
<1> QED BY <1>3, <1>4

\* Every step keeps the types and the limit on consecutive errors.
LEMMA NextFacts == TypeOK /\ FatalGuard /\ [Next]_vars => TypeOK' /\ FatalGuard'
<1> SUFFICES ASSUME TypeOK, FatalGuard, [Next]_vars PROVE TypeOK' /\ FatalGuard'
  OBVIOUS
<1>1. /\ rpc' \in Nodes /\ account_rpc' \in Nodes /\ failed_rpcs' \subseteq Nodes
      /\ current_rpc_failures' \in 0..MaxRpcFailures
  BY NextClient DEF ClientStep, TypeOK
<1> USE DEF pusher_vars, env_vars, monitor_vars
<1>2. CASE MonitorStep
  <2>1. UNCHANGED <<pusher_vars, env_vars>>
    BY <1>2 DEF MonitorStep, MonitorStartsCheck, MonitorSeesFailure,
                MonitorSeesHealthy, MonitorRaises
  <2>2. monitor' \in {"sleeping", "checking"} /\ checked_rpc' \in Nodes
    BY <1>2 DEF MonitorStep, MonitorStartsCheck, MonitorSeesFailure,
                MonitorSeesHealthy, MonitorRaises, TypeOK
  <2> QED BY <1>1, <2>1, <2>2 DEF TypeOK, FatalGuard
<1>3. CASE PusherStarts
  BY <1>1, <1>3 DEF PusherStarts, TypeOK, FatalGuard
<1>4. CASE PublishSucceeds
  BY <1>1, <1>4 DEF PublishSucceeds, TypeOK, FatalGuard
<1>5. CASE PusherSettles
  BY <1>1, <1>5, PusherAssumption DEF PusherSettles, TypeOK, FatalGuard
<1>6. CASE PublishFails
  <2>1. consecutive_push_error' \in 0..PushLimit
    BY <1>6, PusherAssumption DEF PublishFails, CountPushError, TypeOK
  <2>2. pusher = "publishing" /\ UNCHANGED <<batches, monitor_vars, env_vars>>
    BY <1>6 DEF PublishFails
  <2>3. CASE RetriesOnNewRpc
    BY <1>1, <2>1, <2>2, <2>3 DEF RetriesOnNewRpc, TypeOK, FatalGuard
  <2>4. CASE GivesUp
    <3>1. CASE consecutive_push_error' >= PushLimit /\ ~MidenEnabled
      BY <1>1, <2>1, <2>2, <2>4, <3>1 DEF GivesUp, TypeOK, FatalGuard
    <3>2. CASE ~(consecutive_push_error' >= PushLimit /\ ~MidenEnabled)
      BY <1>1, <2>1, <2>2, <2>4, <3>2, PusherAssumption DEF GivesUp, TypeOK, FatalGuard
    <3> QED BY <3>1, <3>2
  <2> QED BY <1>6, <2>3, <2>4 DEF PublishFails
<1>7. CASE NodeFlips
  <2>1. up' \subseteq Nodes /\ flips' \in Nat
    BY <1>7 DEF NodeFlips, TypeOK
  <2> QED BY <1>1, <1>7, <2>1 DEF NodeFlips, TypeOK, FatalGuard
<1>8. CASE UNCHANGED vars
  BY <1>8 DEF vars, client_vars, TypeOK, FatalGuard
<1> QED BY <1>2, <1>3, <1>4, <1>5, <1>6, <1>7, <1>8 DEF Next, Stopped, PusherStep

\* The nodes, the counters and the places of both tasks have their types.
THEOREM TypeCorrect == Spec => []TypeOK
BY InitFacts, NextFacts, PTL DEF Spec

\* Every state has its types, and the fatal guard is not skipped by the retries:
\* between two batches the errors are below their limit (update_price_feeds).
THEOREM GuardIsKept == Spec => [](TypeOK /\ FatalGuard)
BY InitFacts, NextFacts, PTL DEF Spec

\* Whichever task switches, it leaves the node that failed for one that answers
\* and has not failed (RPCHealthMonitor.switch_rpc).
THEOREM SwitchesAreSound == Spec => SwitchLeavesFailedNode
<1>1. TypeOK /\ [Next]_vars
        => [rpc' # rpc => rpc' \notin failed_rpcs' /\ rpc \in failed_rpcs' /\ rpc' \in up]_vars
  BY NextClient DEF ClientStep
<1> QED BY <1>1, GuardIsKept, PTL DEF Spec, SwitchLeavesFailedNode

\* No node is left before it has MAX_RPC_FAILURES failures (should_switch_rpc).
THEOREM SwitchesAreDue == Spec => SwitchNeedsFailures
<1>1. TypeOK /\ [Next]_vars
        => [rpc' # rpc => /\ current_rpc_failures + 1 >= MaxRpcFailures
                          /\ current_rpc_failures' = 0]_vars
  BY NextClient DEF ClientStep
<1> QED BY <1>1, GuardIsKept, PTL DEF Spec, SwitchNeedsFailures

-----------------------------------------------------------------------------
(* The listener's arithmetic over bounded inputs (CheckedPrices) *)

\* The finite sets of sources can be sorted.
LEMMA AscendingExists ==
  ASSUME NEW S, IsFiniteSet(S), NEW f, \A s \in S : f[s].price \in Nat
  PROVE  Ascending(f, S) # {}
<1> DEFINE Bad == {U \in SUBSET S : Ascending(f, U) = {}}
           g == [s \in S |-> f[s].price]
<1>1. SUFFICES ASSUME S \in Bad PROVE FALSE
  OBVIOUS
<1>2. \A U \in SUBSET S : IsFiniteSet(U)
  BY FS_Subset
<1>3. Bad \subseteq FiniteSubsetsOf(S)
  BY <1>2 DEF FiniteSubsetsOf
<1>4. PICK U \in Bad : \A V \in Bad : ~(<<V, U>> \in StrictSubsetOrdering(S))
  <2>1. IsWellFoundedOn(StrictSubsetOrdering(S), FiniteSubsetsOf(S))
    BY FS_StrictSubsetOrderingWellFounded
  <2> HIDE DEF Bad
  <2> QED BY <2>1, <1>1, <1>3, WFMin
<1> DEFINE n == Cardinality(U)
<1>5. n \in Nat /\ IsFiniteSet(U)
  BY <1>2, FS_CardinalityType
<1>6. CASE U = {}
  <2>1. n = 0 /\ 1..n = {}
    BY <1>6, FS_EmptySet
  <2> DEFINE q == [i \in 1..n |-> i]
  <2>2. q \in [1..n -> U] /\ \A i \in 1..n : FALSE
    BY <2>1
  <2> HIDE DEF q, n
  <2>3. q \in Bijection(1..n, U)
    BY <1>6, <2>2, Fun_IsBij
  <2>4. q \in Ascending(f, U)
    BY <2>2, <2>3 DEF Ascending, n
  <2> QED BY <2>4
<1>7. CASE U # {}
  <2>1. PICK m \in U : \A s \in U : g[s] =< g[m]
    <3>1. \A s \in U : g[s] \in Nat
      OBVIOUS
    <3> HIDE DEF g, Bad
    <3> QED BY <1>5, <1>7, <3>1, FiniteMax
  <2> DEFINE V == U \ {m}
  <2>2. <<V, U>> \in StrictSubsetOrdering(S)
    BY DEF StrictSubsetOrdering
  <2>3. Cardinality(V) = n - 1 /\ n - 1 \in Nat
    <3>1. IsFiniteSet(V) /\ Cardinality(V) = n - 1
      BY <1>5, FS_RemoveElement
    <3>2. Cardinality(V) \in Nat
      BY <3>1, FS_CardinalityType
    <3> QED BY <3>1, <3>2
  <2>4. PICK p \in Bijection(1..(n - 1), V) :
          \A i, j \in 1..(n - 1) : i < j => f[p[i]].price =< f[p[j]].price
    BY <1>4, <2>2, <2>3 DEF Ascending
  <2> DEFINE q == [i \in 1..n |-> IF i = n THEN m ELSE p[i]]
  <2>5. /\ \A i \in 1..(n - 1) : p[i] \in V
        /\ \A i, j \in 1..(n - 1) : p[i] = p[j] => i = j
        /\ \A x \in V : \E i \in 1..(n - 1) : p[i] = x
    BY <2>4 DEF Bijection, Injection, Surjection, IsInjective
  <2>6. /\ n \in 1..n /\ q[n] = m
        /\ \A i \in 1..n : i = n \/ (i \in 1..(n - 1) /\ q[i] = p[i])
        /\ \A i \in 1..(n - 1) : i \in 1..n /\ i # n /\ q[i] = p[i]
    BY <1>5, <2>3
  <2> HIDE DEF q, n
  <2>7. q \in [1..n -> U]
    BY <2>5, <2>6 DEF q
  <2>8. \A i, j \in 1..n : q[i] = q[j] => i = j
    BY <2>5, <2>6
  <2>9. \A x \in U : \E i \in 1..n : q[i] = x
    BY <2>5, <2>6
  <2>10. q \in Bijection(1..n, U)
    BY <2>7, <2>8, <2>9, Fun_IsBij
  <2>11. \A i, j \in 1..n : i < j => f[q[i]].price =< f[q[j]].price
    <3> SUFFICES ASSUME NEW i \in 1..n, NEW j \in 1..n, i < j
                 PROVE  f[q[i]].price =< f[q[j]].price
      OBVIOUS
    <3>1. i \in 1..(n - 1) /\ q[i] = p[i] /\ p[i] \in U
      BY <1>5, <2>5, <2>6
    <3>2. CASE j = n
      BY <2>1, <2>6, <3>1, <3>2
    <3>3. CASE j # n
      BY <2>4, <2>6, <3>1, <3>3
    <3> QED BY <3>2, <3>3
  <2>12. q \in Ascending(f, U)
    BY <2>10, <2>11 DEF Ascending, n
  <2> QED BY <2>12
<1> QED BY <1>6, <1>7

\* The k-th price is the one in the k-th place of the sorted list.
LEMMA KthPriceIsKth ==
  ASSUME NEW S, IsFiniteSet(S), NEW f, \A s \in S : f[s].price \in Nat,
         NEW q \in Ascending(f, S), NEW k \in 1..Cardinality(S)
  PROVE  KthPrice(f, S, k) = f[q[k]].price
<1> DEFINE n == Cardinality(S)
           p == KthPrice(f, S, k)
           v == f[q[k]].price
           Under == {s \in S : f[s].price < p}
           UpTo == {s \in S : f[s].price =< p}
<1>1. n \in Nat /\ k \in Nat \ {0} /\ k =< n
  BY FS_CardinalityType
<1>2. p \in Nat /\ Cardinality(Under) < k /\ Cardinality(UpTo) >= k
  <2>1. k \in Nat \ {0} /\ k =< Cardinality(S)
    BY <1>1
  <2>2. /\ KthPrice(f, S, k) \in Nat
        /\ NumBelow(f, S, KthPrice(f, S, k)) < k
        /\ NumUpTo(f, S, KthPrice(f, S, k)) >= k
    <3> HIDE DEF p, Under, UpTo, n, v
    <3> QED BY <2>1, KthPriceIsPrice
  <2> QED BY <2>2 DEF NumBelow, NumUpTo
<1>3. /\ \A i \in 1..n : q[i] \in S /\ f[q[i]].price \in Nat
      /\ \A i, j \in 1..n : q[i] = q[j] => i = j
      /\ \A x \in S : \E i \in 1..n : q[i] = x
      /\ \A i, j \in 1..n : i < j => f[q[i]].price =< f[q[j]].price
  BY DEF Ascending, Bijection, Injection, Surjection, IsInjective
<1>4. /\ IsFiniteSet(Under) /\ Cardinality(Under) \in Nat
      /\ IsFiniteSet(UpTo) /\ Cardinality(UpTo) \in Nat
  BY FS_Subset, FS_CardinalityType
<1>5. v \in Nat
  BY <1>3
<1> HIDE DEF n, p, v
<1>6. CASE p < v
  <2> DEFINE h == [i \in 1..(k - 1) |-> q[i]]
  <2>1. \A s \in UpTo : \E i \in 1..(k - 1) : q[i] = s
    <3> SUFFICES ASSUME NEW s \in UpTo PROVE \E i \in 1..(k - 1) : q[i] = s
      OBVIOUS
    <3>1. PICK i \in 1..n : q[i] = s
      BY <1>3
    <3>2. f[q[i]].price < v
      BY <1>2, <1>3, <1>5, <1>6, <3>1
    <3>3. i < k
      BY <1>1, <1>3, <1>5, <3>2 DEF v, n
    <3> QED BY <1>1, <3>1, <3>3
  <2> DEFINE W == {q[i] : i \in 1..(k - 1)}
  <2>2. h \in Surjection(1..(k - 1), W)
    BY Fun_IsSurj
  <2>3. IsFiniteSet(1..(k - 1)) /\ Cardinality(1..(k - 1)) = k - 1
    BY <1>1, FS_Interval
  <2>4. IsFiniteSet(W) /\ Cardinality(W) =< k - 1
    BY <2>2, <2>3, FS_Surjection
  <2>5. UpTo \subseteq W
    BY <2>1
  <2>6. Cardinality(UpTo) =< Cardinality(W) /\ Cardinality(W) \in Nat
    BY <2>4, <2>5, FS_Subset, FS_CardinalityType
  <2> QED BY <1>1, <1>2, <1>4, <2>4, <2>6
<1>7. CASE v < p
  <2> DEFINE h == [i \in 1..k |-> q[i]]
  <2>1. h \in Injection(1..k, Under)
    <3>1. ASSUME NEW i \in 1..k PROVE i \in 1..n /\ q[i] \in Under
      <4>1. i \in 1..n /\ (i = k \/ i < k) /\ k \in 1..n
        BY <1>1
      <4>2. f[q[i]].price =< v
        BY <1>3, <1>5, <4>1 DEF v
      <4> QED BY <1>2, <1>3, <1>5, <1>7, <4>1, <4>2
    <3>2. h \in [1..k -> Under]
      BY <3>1
    <3>3. \A i, j \in 1..k : h[i] = h[j] => i = j
      BY <1>3, <3>1
    <3> HIDE DEF h
    <3> QED BY <3>2, <3>3, Fun_IsInj
  <2>2. Cardinality(1..k) = k
    BY <1>1, FS_Interval
  <2>3. Cardinality(1..k) =< Cardinality(Under)
    BY <1>4, <2>1, FS_Injection
  <2> QED BY <1>1, <1>2, <1>4, <2>2, <2>3
<1> QED BY <1>2, <1>5, <1>6, <1>7 DEF p, v

LEMMA ChecksTyped == ChecksSpec => []ChecksTypeOK
<1>1. NoEntry \in Entries
  BY DEF Entries
<1>2. ChecksInit => ChecksTypeOK
  BY <1>1 DEF ChecksInit, ChecksTypeOK
<1>3. ChecksTypeOK /\ [ChecksNext]_prices => ChecksTypeOK'
  BY DEF ChecksNext, ChecksTypeOK
<1> QED BY <1>2, <1>3, PTL DEF ChecksSpec

\* What is given to the checks.
LEMMA GivenPrices ==
  ASSUME ChecksTypeOK
  PROVE  /\ IsFiniteSet(Given)
         /\ \A s \in Given : /\ prices[s].price \in Nat /\ prices[s].ts \in Nat
                             /\ Present(prices[s])
<1>1. \A e \in Entries : e.price \in Nat /\ e.ts \in Nat
  BY CheckedAssumption DEF Entries, NoEntry
<1>2. IsFiniteSet(Given)
  BY CheckedAssumption, FS_Subset DEF Given
<1> QED BY <1>1, <1>2 DEF Given, ChecksTypeOK

\* The median is the middle of the sorted prices, for any number of sources.
THEOREM MediansAreMiddle == ChecksSpec => []MedianIsMiddle
<1>1. ASSUME ChecksTypeOK PROVE MedianIsMiddle
  <2> SUFFICES ASSUME Given # {}
               PROVE  Median2(prices, Given) =
                        IF Cardinality(Given) % 2 = 1
                          THEN 2 * Sorted[(Cardinality(Given) + 1) \div 2]
                          ELSE Sorted[Cardinality(Given) \div 2]
                                 + Sorted[Cardinality(Given) \div 2 + 1]
    BY DEF MedianIsMiddle
  <2> DEFINE n == Cardinality(Given)
             q == CHOOSE q \in Ascending(prices, Given) : TRUE
             low == (n + 1) \div 2
             high == n \div 2 + 1
  <2>1. IsFiniteSet(Given) /\ \A s \in Given : prices[s].price \in Nat
    BY <1>1, GivenPrices
  <2>2. q \in Ascending(prices, Given)
    BY <2>1, AscendingExists
  <2>3. n \in Nat /\ n > 0
    BY <2>1, FS_CardinalityType, FS_EmptySet
  <2> HIDE DEF q
  <2>4. ASSUME NEW k \in 1..n
        PROVE  KthPrice(prices, Given, k) = Sorted[k] /\ Sorted[k] \in Nat
    <3>1. KthPrice(prices, Given, k) = prices[q[k]].price
      BY <2>1, <2>2, KthPriceIsKth
    <3>2. q[k] \in Given
      BY <2>2 DEF Ascending, Bijection, Injection
    <3>3. Sorted[k] = prices[q[k]].price
      BY DEF Sorted, q
    <3> QED BY <2>1, <3>1, <3>2, <3>3
  <2>5. Median2(prices, Given) = KthPrice(prices, Given, low) + KthPrice(prices, Given, high)
    BY DEF Median2
  <2> HIDE DEF n
  <2>6. /\ low \in 1..n /\ high \in 1..n
        /\ n % 2 = 1 => low = high
        /\ n % 2 # 1 => low = n \div 2
    BY <2>3
  <2>7. Median2(prices, Given) = Sorted[low] + Sorted[high] /\ Sorted[low] \in Nat
    BY <2>4, <2>5, <2>6
  <2> HIDE DEF low, high
  <2>8. CASE n % 2 = 1
    <3>1. Median2(prices, Given) = 2 * Sorted[low]
      BY <2>6, <2>7, <2>8
    <3> QED BY <2>8, <3>1 DEF n, low
  <2>9. CASE n % 2 # 1
    BY <2>6, <2>7, <2>9 DEF n, high
  <2> QED BY <2>8, <2>9
<1> QED BY <1>1, ChecksTyped, PTL

\* A push settles the check it was made for, whatever the entries.
THEOREM ChecksSettle == ChecksSpec => []PushSettlesCheck
<1>1. ASSUME ChecksTypeOK PROVE PushSettlesCheck
  BY <1>1, GivenPrices, PushesSettle DEF PushSettlesCheck
<1> QED BY <1>1, ChecksTyped, PTL
=============================================================================
