-------------------------- MODULE Fetchers_proofs --------------------------
(***************************************************************************)
(* Proofs about the fetchers. EvmRpc: for any number of reads that share   *)
(* any number of RPC nodes, no read asks a node twice, none gives up       *)
(* before it has asked one, and one that is alone asks all. FetcherRound:  *)
(* for any currencies, pairs and answers, an entry is for a pair that was  *)
(* asked and in its unit.                                                  *)
(***************************************************************************)
EXTENDS EvmRpc, FetcherRound, NaturalsInduction, WellFoundedInduction, TLAPS
-----------------------------------------------------------------------------
(* The reads of an EVM chain *)

\* What a read has and where it can be.
Shape ==
  /\ reader \in {"feed", "vault"}
  /\ step \in [Reads -> {"idle", "drawing", "asking"}]
  /\ left \in [Reads -> Nat]
  /\ made_request \in [Reads -> BOOLEAN] /\ retry_without_cooldown \in [Reads -> BOOLEAN]
  /\ DOMAIN url = Reads /\ DOMAIN attempted = Reads /\ DOMAIN asked = Reads

\* made_request says whether a node was asked, except while the request is under way.
CountsRequests(r) ==
  /\ step[r] = "asking" \/ made_request[r] => asked[r] # {}
  /\ step[r] = "drawing" /\ asked[r] # {} => made_request[r]

\* attempted is emptied for the second pass only when no node was asked.
Remembers(r) == reader = "feed" => asked[r] \subseteq attempted[r]

\* A vault's read and a second pass skip nothing at their first draw.
HasADraw(r) ==
  step[r] = "drawing" /\ asked[r] = {} /\ (reader = "vault" \/ retry_without_cooldown[r]) =>
    left[r] > 0 /\ attempted[r] = {}

ReadInv(r) == CountsRequests(r) /\ Remembers(r) /\ HasADraw(r)

EvmInv == Shape /\ \A r \in Reads : ReadInv(r)

LEMMA InitEvmInv == EvmInit => EvmInv
<1> SUFFICES ASSUME EvmInit PROVE EvmInv
  OBVIOUS
<1>1. Shape
  BY DEF EvmInit, Shape
<1>2. ASSUME NEW r \in Reads PROVE ReadInv(r)
  BY DEF EvmInit, ReadInv, CountsRequests, Remembers, HasADraw
<1> QED BY <1>1, <1>2 DEF EvmInv

\* A step that changes nothing of a read keeps what is true of it.
SameRead(r) ==
  /\ reader' = reader
  /\ step'[r] = step[r] /\ left'[r] = left[r]
  /\ attempted'[r] = attempted[r] /\ asked'[r] = asked[r]
  /\ made_request'[r] = made_request[r]
  /\ retry_without_cooldown'[r] = retry_without_cooldown[r]

LEMMA SameReadKeepsInv ==
  ASSUME NEW r, ReadInv(r), SameRead(r) PROVE ReadInv(r)'
BY DEF SameRead, ReadInv, CountsRequests, Remembers, HasADraw

LEMMA NatFacts ==
  /\ NumRpcs \in Nat /\ NumRpcs > 0
  /\ \A n \in Nat : n > 0 => n - 1 \in Nat
BY RpcAssumption

LEMMA ReturnKeepsShape ==
  ASSUME Shape, NEW r \in Reads, Returns(r), reader' = reader PROVE Shape'
<1>1. step' \in [Reads -> {"idle", "drawing", "asking"}]
  BY DEF Returns, Shape
<1>2. left' \in [Reads -> Nat]
  BY DEF Returns, Shape
<1>3. made_request' \in [Reads -> BOOLEAN] /\ retry_without_cooldown' \in [Reads -> BOOLEAN]
  BY DEF Returns, Shape
<1>4. DOMAIN url' = Reads /\ DOMAIN attempted' = Reads /\ DOMAIN asked' = Reads
  BY DEF Returns, Shape
<1> QED BY <1>1, <1>2, <1>3, <1>4 DEF Shape

LEMMA StepKeepsShape ==
  ASSUME Shape, NEW r \in Reads, ReadSteps(r) PROVE Shape'
<1>1. CASE ReadStarts(r)
  BY <1>1, NatFacts DEF ReadStarts, Shape
<1>2. CASE Draws(r)
  <2>1. left[r] \in Nat /\ left[r] > 0
    BY <1>2 DEF Draws, Shape
  <2>2. left[r] - 1 \in Nat
    BY <2>1, NatFacts
  <2>3. left' = [left EXCEPT ![r] = left[r] - 1]
    BY <1>2 DEF Draws
  <2>4. left' \in [Reads -> Nat]
    BY <2>2, <2>3 DEF Shape
  <2>5. UNCHANGED <<reader, made_request, retry_without_cooldown>>
    BY <1>2 DEF Draws
  <2>6. step' \in [Reads -> {"idle", "drawing", "asking"}]
    BY <1>2 DEF Draws, Shape
  <2>7. DOMAIN url' = Reads /\ DOMAIN attempted' = Reads /\ DOMAIN asked' = Reads
    BY <1>2 DEF Draws, Shape
  <2> QED BY <2>4, <2>5, <2>6, <2>7 DEF Shape
<1>3. CASE PassEnds(r)
  <2>1. CASE Returns(r)
    BY <1>3, <2>1, ReturnKeepsShape DEF PassEnds
  <2>2. CASE SecondPass(r) /\ ~Returns(r)
    <3>1. /\ retry_without_cooldown' = [retry_without_cooldown EXCEPT ![r] = TRUE]
          /\ left' = [left EXCEPT ![r] = NumRpcs]
          /\ attempted' = [attempted EXCEPT ![r] = {}]
          /\ UNCHANGED <<reader, step, url, made_request, asked>>
      BY <1>3, <2>2 DEF PassEnds
    <3>2. left' \in [Reads -> Nat] /\ retry_without_cooldown' \in [Reads -> BOOLEAN]
      BY <3>1, NatFacts DEF Shape
    <3> QED BY <3>1, <3>2 DEF Shape
  <2> QED BY <1>3, <2>1, <2>2 DEF PassEnds
<1>4. CASE Answers(r) \/ Cancelled(r)
  BY <1>4, ReturnKeepsShape DEF Answers, Cancelled
<1>5. CASE Fails(r)
  BY <1>5 DEF Fails, Shape
<1> QED BY <1>1, <1>2, <1>3, <1>4, <1>5 DEF ReadSteps, Requested

LEMMA OtherReadsAreKept ==
  ASSUME Shape, NEW r \in Reads, ReadSteps(r), NEW q \in Reads \ {r} PROVE SameRead(q)
BY DEF ReadSteps, ReadStarts, Draws, PassEnds, Requested, Answers, Fails, Cancelled,
       Returns, shared_vars, read_vars, Shape, SameRead

\* What a read draws.
LEMMA DrawsOne ==
  ASSUME Shape, NEW r \in Reads, Draws(r)
  PROVE  \E u : /\ attempted'[r] = attempted[r] \cup {u}
                /\ \/ /\ Skipped(r, u)
                      /\ step'[r] = "drawing" /\ asked'[r] = asked[r]
                   \/ /\ ~Skipped(r, u)
                      /\ step'[r] = "asking" /\ asked'[r] = asked[r] \cup {u}
                      /\ url'[r] = u
<1> DEFINE u == NextUrl(r)
<1>1. attempted'[r] = attempted[r] \cup {u}
  BY DEF Draws, Shape
<1>2. CASE Skipped(r, u)
  BY <1>1, <1>2 DEF Draws, Shape
<1>3. CASE ~Skipped(r, u)
  <2>1. step'[r] = "asking" /\ asked'[r] = asked[r] \cup {u} /\ url'[r] = u
    BY <1>3 DEF Draws, Shape
  <2> QED BY <1>1, <1>3, <2>1
<1> QED BY <1>2, <1>3

LEMMA DrawKeepsRead ==
  ASSUME Shape, NEW r \in Reads, ReadInv(r), Draws(r) PROVE ReadInv(r)'
<1> PICK u : /\ attempted'[r] = attempted[r] \cup {u}
             /\ \/ /\ Skipped(r, u)
                   /\ step'[r] = "drawing" /\ asked'[r] = asked[r]
                \/ /\ ~Skipped(r, u)
                   /\ step'[r] = "asking" /\ asked'[r] = asked[r] \cup {u}
  BY DrawsOne
<1>1. /\ UNCHANGED <<reader, made_request, retry_without_cooldown>>
      /\ step[r] = "drawing"
  BY DEF Draws
<1>2. CASE Skipped(r, u)
  <2>1. step'[r] = "drawing" /\ asked'[r] = asked[r]
    BY <1>2
  <2>2. ~(asked[r] = {} /\ (reader = "vault" \/ retry_without_cooldown[r]))
    BY <1>1, <1>2 DEF Skipped, ReadInv, HasADraw
  <2> QED BY <1>1, <2>1, <2>2 DEF ReadInv, CountsRequests, Remembers, HasADraw
<1>3. CASE ~Skipped(r, u)
  <2>1. step'[r] = "asking" /\ asked'[r] = asked[r] \cup {u}
    BY <1>3
  <2> QED BY <1>1, <2>1 DEF ReadInv, CountsRequests, Remembers, HasADraw
<1> QED BY <1>2, <1>3

LEMMA StepKeepsRead ==
  ASSUME Shape, NEW r \in Reads, ReadInv(r), ReadSteps(r) PROVE ReadInv(r)'
<1>1. CASE ReadStarts(r)
  BY <1>1, NatFacts DEF ReadStarts, Shape, ReadInv, CountsRequests, Remembers, HasADraw
<1>2. CASE Draws(r)
  BY <1>2, DrawKeepsRead
<1>3. CASE PassEnds(r)
  <2>1. CASE Returns(r)
    BY <2>1 DEF Returns, Shape, ReadInv, CountsRequests, Remembers, HasADraw
  <2>2. CASE SecondPass(r) /\ ~Returns(r)
    <3>1. asked[r] = {} /\ reader = "feed"
      BY <1>3, <2>2 DEF PassEnds, SecondPass, ReadInv, CountsRequests
    <3> QED BY <1>3, <2>2, <3>1, NatFacts
            DEF PassEnds, Shape, ReadInv, CountsRequests, Remembers, HasADraw
  <2> QED BY <1>3, <2>1, <2>2 DEF PassEnds
<1>4. CASE Fails(r)
  BY <1>4 DEF Fails, Shape, ReadInv, CountsRequests, Remembers, HasADraw
<1>5. CASE Answers(r) \/ Cancelled(r)
  BY <1>5 DEF Answers, Cancelled, Returns, Shape, ReadInv, CountsRequests, Remembers, HasADraw
<1> QED BY <1>1, <1>2, <1>3, <1>4, <1>5 DEF ReadSteps, Requested

LEMMA NextEvmInv == EvmInv /\ [EvmNext]_evm_vars => EvmInv'
<1> SUFFICES ASSUME EvmInv, [EvmNext]_evm_vars PROVE EvmInv'
  OBVIOUS
<1>1. CASE \E r \in Reads : ReadSteps(r)
  <2> PICK r \in Reads : ReadSteps(r)
    BY <1>1
  <2>1. Shape'
    BY StepKeepsShape DEF EvmInv
  <2>2. ASSUME NEW q \in Reads PROVE ReadInv(q)'
    BY StepKeepsRead, OtherReadsAreKept, SameReadKeepsInv DEF EvmInv
  <2> QED BY <2>1, <2>2 DEF EvmInv
<1>2. CASE FetchStarts \/ (\E u \in Urls : Expires(u)) \/ UNCHANGED evm_vars
  <2>1. UNCHANGED <<reader, read_vars, asked>>
    BY <1>2 DEF FetchStarts, Expires, evm_vars
  <2>2. Shape'
    BY <2>1 DEF read_vars, EvmInv, Shape
  <2>3. ASSUME NEW q \in Reads PROVE ReadInv(q)'
    BY <2>1, SameReadKeepsInv DEF read_vars, EvmInv, SameRead
  <2> QED BY <2>2, <2>3 DEF EvmInv
<1> QED BY <1>1, <1>2 DEF EvmNext

THEOREM EvmInvHolds == EvmSpec => []EvmInv
BY InitEvmInv, NextEvmInv, PTL DEF EvmSpec

\* Only the end of a pass gives a read up, only a draw asks.
LEMMA OnlyPassesGiveUp ==
  ASSUME Shape, EvmNext, NEW r \in Reads, GivesUp(r)
  PROVE  PassEnds(r) /\ ~SecondPass(r)
<1>1. step[r] = "drawing" /\ step'[r] = "idle"
  BY DEF GivesUp
<1>2. PICK q \in Reads : ReadSteps(q)
  BY <1>1 DEF EvmNext, FetchStarts, Expires, read_vars
<1>3. q = r
  BY <1>1, <1>2, OtherReadsAreKept DEF SameRead
<1>4. ~Draws(r)
  BY <1>1, DrawsOne
<1>5. ~ReadStarts(r) /\ ~Requested(r)
  BY <1>1 DEF ReadStarts, Requested, Answers, Fails, Cancelled, Shape
<1>6. PassEnds(r)
  BY <1>2, <1>3, <1>4, <1>5 DEF ReadSteps
<1> QED BY <1>1, <1>6 DEF PassEnds

\* "All RPCs failed" is never said of RPCs that were only skipped: the second pass
\* ignores the cooldowns, and a vault's read has none (_read_feed_value).
THEOREM NoReadGivesUpUnasked == EvmSpec => NeverGivesUpUnasked
<1>1. ASSUME EvmInv, [EvmNext]_evm_vars
      PROVE  [\A r \in Reads : GivesUp(r) => asked[r] # {}]_evm_vars
  <2> SUFFICES ASSUME EvmNext, NEW r \in Reads, GivesUp(r) PROVE asked[r] # {}
    BY <1>1
  <2>1. PassEnds(r) /\ ~SecondPass(r)
    BY <1>1, OnlyPassesGiveUp DEF EvmInv
  <2>2. step[r] = "drawing" /\ left[r] = 0
    BY <2>1 DEF PassEnds
  <2>3. reader = "vault" \/ retry_without_cooldown[r] \/ made_request[r]
    BY <1>1, <2>1 DEF SecondPass, EvmInv, Shape
  <2> QED BY <1>1, <2>2, <2>3 DEF EvmInv, ReadInv, CountsRequests, HasADraw
<1> QED BY <1>1, EvmInvHolds, PTL DEF EvmSpec, NeverGivesUpUnasked

\* A read of a feed asks each node at most once, over both of its passes and however
\* the other reads move the position (the sets attempted).
THEOREM NoNodeIsAskedTwice == EvmSpec => AsksOnce
<1>1. ASSUME EvmInv, [EvmNext]_evm_vars
      PROVE  [\A r \in Reads :
                reader = "feed" /\ step[r] = "drawing" /\ step'[r] = "asking" =>
                  url'[r] \notin asked[r]]_evm_vars
  <2> SUFFICES ASSUME EvmNext, NEW r \in Reads,
                      reader = "feed", step[r] = "drawing", step'[r] = "asking"
               PROVE  url'[r] \notin asked[r]
    BY <1>1
  <2>1. PICK q \in Reads : ReadSteps(q)
    BY DEF EvmNext, FetchStarts, Expires, read_vars
  <2>2. Shape /\ ReadInv(r)
    BY <1>1 DEF EvmInv
  <2>3. q = r
    BY <2>1, <2>2, OtherReadsAreKept DEF SameRead
  <2>4. Draws(r)
    BY <2>1, <2>2, <2>3 DEF ReadSteps, ReadStarts, PassEnds, Requested, Answers, Fails,
                            Cancelled, Returns, Shape
  <2>5. url'[r] \notin attempted[r]
    BY <2>2, <2>4, DrawsOne DEF Skipped
  <2> QED BY <2>2, <2>5 DEF ReadInv, Remembers
<1> QED BY <1>1, EvmInvHolds, PTL DEF EvmSpec, AsksOnce

\* --- A read that has the fetcher for itself ---

\* How far ahead a node is, in the order in which the nodes come.
DistFrom(i, v) == (v + NumRpcs - i) % NumRpcs
Dist(v) == DistFrom(rpc_index, v)

LEMMA Wraps ==
  ASSUME NEW n \in Nat, n < 2 * NumRpcs
  PROVE  n % NumRpcs = IF n < NumRpcs THEN n ELSE n - NumRpcs
<1>1. NumRpcs \in Nat \ {0}
  BY RpcAssumption
<1>2. CASE n < NumRpcs
  BY <1>1, <1>2
<1>3. CASE n >= NumRpcs
  BY <1>1, <1>3
<1> QED BY <1>1, <1>2, <1>3

LEMMA Distance ==
  ASSUME NEW i \in Urls, NEW v \in Urls
  PROVE  /\ DistFrom(i, v) = IF v >= i THEN v - i ELSE v + NumRpcs - i
         /\ DistFrom(i, v) \in Nat /\ DistFrom(i, v) < NumRpcs
<1>1. NumRpcs \in Nat /\ v \in Nat /\ i \in Nat /\ v < NumRpcs /\ i < NumRpcs
  BY RpcAssumption DEF Urls
<1> DEFINE n == v + NumRpcs - i
<1>2. n \in Nat /\ n < 2 * NumRpcs
  BY <1>1
<1>3. n % NumRpcs = IF n < NumRpcs THEN n ELSE n - NumRpcs
  <2> HIDE DEF n
  <2> QED BY <1>2, Wraps
<1>4. DistFrom(i, v) = IF n < NumRpcs THEN n ELSE n - NumRpcs
  BY <1>3 DEF DistFrom
<1>5. n < NumRpcs <=> v < i
  BY <1>1
<1> QED BY <1>1, <1>4, <1>5

LEMMA Follower ==
  ASSUME NEW u \in Urls
  PROVE  After(u) \in Urls /\ After(u) = IF u = NumRpcs - 1 THEN 0 ELSE u + 1
<1>1. NumRpcs \in Nat /\ NumRpcs > 0 /\ u \in Nat /\ u < NumRpcs
  BY RpcAssumption DEF Urls
<1> DEFINE n == u + 1
<1>2. n \in Nat /\ n < 2 * NumRpcs
  BY <1>1
<1>3. n % NumRpcs = IF n < NumRpcs THEN n ELSE n - NumRpcs
  <2> HIDE DEF n
  <2> QED BY <1>2, Wraps
<1>4. After(u) = n % NumRpcs
  BY DEF After
<1>5. After(u) = IF u = NumRpcs - 1 THEN 0 ELSE u + 1
  <2>1. CASE u = NumRpcs - 1
    BY <1>1, <1>4, <2>1
  <2>2. CASE u # NumRpcs - 1
    BY <1>1, <1>4, <2>2
  <2> QED BY <2>1, <2>2
<1>6. 0 \in Urls /\ (u # NumRpcs - 1 => u + 1 \in Urls)
  BY <1>1 DEF Urls
<1> QED BY <1>5, <1>6

\* Of some nodes one comes first.
LEMMA OneIsNearest ==
  ASSUME rpc_index \in Urls, NEW free \in SUBSET Urls, free # {}
  PROVE  \E u \in free : \A v \in free \ {u} : Nearer(u, v)
<1> DEFINE dists == {Dist(v) : v \in free}
<1>1. \A v \in free : Dist(v) \in Nat
  BY Distance DEF Dist
<1>2. dists \subseteq Nat /\ dists # {}
  BY <1>1
<1>3. PICK n \in dists : \A m \in dists : n =< m
  <2> HIDE DEF dists
  <2>1. PICK n \in dists : \A m \in dists : ~ (<<m, n>> \in OpToRel(<, Nat))
    BY <1>2, NatLessThanWellFounded, WFMin
  <2>2. \A m \in dists : ~ (m < n)
    BY <1>2, <2>1 DEF OpToRel
  <2> QED BY <1>2, <2>2
<1>4. PICK u \in free : n = Dist(u)
  OBVIOUS
<1>5. ASSUME NEW v \in free \ {u} PROVE Dist(u) < Dist(v)
  <2>1. Dist(u) =< Dist(v) /\ Dist(u) \in Nat /\ Dist(v) \in Nat
    BY <1>1, <1>3, <1>4
  <2>2. Dist(u) # Dist(v)
    <3>1. u \in Urls /\ v \in Urls /\ u # v
      BY <1>4
    <3>2. /\ Dist(u) = IF u >= rpc_index THEN u - rpc_index ELSE u + NumRpcs - rpc_index
          /\ Dist(v) = IF v >= rpc_index THEN v - rpc_index ELSE v + NumRpcs - rpc_index
      BY <3>1, Distance DEF Dist
    <3>3. /\ NumRpcs \in Nat /\ u \in Nat /\ v \in Nat /\ rpc_index \in Nat
          /\ u < NumRpcs /\ v < NumRpcs /\ rpc_index < NumRpcs
      BY <3>1, RpcAssumption DEF Urls
    <3> HIDE DEF Dist
    <3> QED BY <3>1, <3>2, <3>3
  <2> QED BY <2>1, <2>2
<1> QED BY <1>5 DEF Nearer, Dist, DistFrom

\* The nodes a draw chooses from.
Free(r) ==
  IF reader = "vault" \/ retry_without_cooldown[r] THEN Urls ELSE Urls \ cooling

LEMMA NextIsNearest ==
  ASSUME rpc_index \in Urls, NEW r
  PROVE  /\ NextUrl(r) \in Urls
         /\ Free(r) = {} => NextUrl(r) = rpc_index
         /\ \A v \in Free(r) \ {NextUrl(r)} : Dist(NextUrl(r)) < Dist(v)
<1> DEFINE First(u) == \A v \in Free(r) \ {u} : Nearer(u, v)
<1>1. NextUrl(r) = IF Free(r) = {} THEN rpc_index ELSE CHOOSE u \in Free(r) : First(u)
  BY DEF NextUrl, Free
<1>2. CASE Free(r) = {}
  <2>1. NextUrl(r) = rpc_index
    <3> HIDE DEF First
    <3> QED BY <1>1, <1>2
  <2> QED BY <1>2, <2>1
<1>3. CASE Free(r) # {}
  <2>1. Free(r) \in SUBSET Urls
    BY DEF Free
  <2>2. \E u \in Free(r) : First(u)
    BY <1>3, <2>1, OneIsNearest
  <2>3. NextUrl(r) \in Free(r) /\ First(NextUrl(r))
    <3> HIDE DEF First
    <3> QED BY <1>1, <1>3, <2>2
  <2> QED BY <1>3, <2>1, <2>3 DEF Nearer, Dist, DistFrom
<1> QED BY <1>2, <1>3

\* A draw brings the nodes behind the drawn one nearer.
LEMMA DrawComesNearer ==
  ASSUME rpc_index \in Urls, NEW u \in Urls, NEW v \in Urls \ {u},
         Dist(u) < Dist(v), rpc_index' = After(u)
  PROVE  Dist(v)' < Dist(v) /\ Dist(v)' \in Nat
<1>1. rpc_index' \in Urls /\ rpc_index' = IF u = NumRpcs - 1 THEN 0 ELSE u + 1
  BY Follower
<1>2. /\ Dist(v)' = IF v >= rpc_index' THEN v - rpc_index' ELSE v + NumRpcs - rpc_index'
      /\ Dist(v)' \in Nat
  BY <1>1, Distance DEF Dist
<1>3. Dist(u) = IF u >= rpc_index THEN u - rpc_index ELSE u + NumRpcs - rpc_index
  BY Distance DEF Dist
<1>4. Dist(v) = IF v >= rpc_index THEN v - rpc_index ELSE v + NumRpcs - rpc_index
  BY Distance DEF Dist
<1>5. /\ NumRpcs \in Nat /\ u \in Nat /\ v \in Nat /\ rpc_index \in Nat /\ u # v
      /\ u < NumRpcs /\ v < NumRpcs /\ rpc_index < NumRpcs
  BY RpcAssumption DEF Urls
<1> QED BY <1>1, <1>2, <1>3, <1>4, <1>5

\* The nodes are nodes, each read has its debts.
Placed ==
  /\ Shape
  /\ rpc_index \in Urls /\ cooling \subseteq Urls
  /\ url \in [Reads -> Urls] /\ owed \in [Reads -> SUBSET Urls]

\* All nodes cool down, as when the read began: its first pass will skip them all.
SkipsAll(r) ==
  /\ reader = "feed" /\ cooling = Urls /\ step[r] = "drawing"
  /\ ~retry_without_cooldown[r] /\ ~made_request[r]

\* The nodes it has yet to ask will be drawn in time, and none of them is skipped.
OnItsWay(r) ==
  /\ \A v \in owed[r] : v \notin attempted[r] /\ Dist(v) < left[r]
  /\ owed[r] \subseteq Free(r)
  /\ step[r] = "asking" => url[r] \notin owed[r]

LonelyInv(r) ==
  owed[r] # {} =>
    /\ step[r] # "idle" /\ \A o \in Reads \ {r} : step[o] = "idle"
    /\ SkipsAll(r) \/ OnItsWay(r)

AllLonely == Placed /\ \A r \in Reads : LonelyInv(r)

LEMMA InitLonely == EvmInit => AllLonely
<1> SUFFICES ASSUME EvmInit PROVE AllLonely
  OBVIOUS
<1>1. 0 \in Urls
  BY RpcAssumption DEF Urls
<1>2. Shape
  BY InitEvmInv DEF EvmInv
<1>3. Placed
  BY <1>1, <1>2 DEF EvmInit, Placed
<1>4. ASSUME NEW r \in Reads PROVE LonelyInv(r)
  BY DEF EvmInit, LonelyInv
<1> QED BY <1>3, <1>4 DEF AllLonely

LEMMA StepKeepsPlaced ==
  ASSUME Placed, NEW r \in Reads, ReadSteps(r) PROVE Placed'
<1>1. Shape'
  BY StepKeepsShape DEF Placed
<1>2. 0 \in Urls
  BY RpcAssumption DEF Urls
<1>3. CASE ReadStarts(r)
  <2>1. UNCHANGED <<rpc_index, cooling, url>>
    BY <1>3 DEF ReadStarts, shared_vars
  <2>2. owed' \in [Reads -> SUBSET Urls]
    BY <1>3 DEF ReadStarts
  <2> QED BY <1>1, <2>1, <2>2 DEF Placed
<1>4. CASE Draws(r)
  <2> DEFINE u == NextUrl(r)
  <2>1. u \in Urls /\ After(u) \in Urls
    BY NextIsNearest, Follower DEF Placed
  <2>2. rpc_index' = After(u) /\ cooling' = cooling
    BY <1>4 DEF Draws
  <2>3. url' = url \/ url' = [url EXCEPT ![r] = u]
    BY <1>4 DEF Draws
  <2>4. owed' = owed \/ owed' = [owed EXCEPT ![r] = @ \ {u}]
    BY <1>4 DEF Draws
  <2> HIDE DEF u
  <2>5. url' \in [Reads -> Urls] /\ owed' \in [Reads -> SUBSET Urls]
    BY <2>1, <2>3, <2>4 DEF Placed
  <2> QED BY <1>1, <2>1, <2>2, <2>5 DEF Placed
<1>5. CASE PassEnds(r) \/ Answers(r) \/ Cancelled(r)
  <2>1. rpc_index' = rpc_index /\ cooling' \subseteq Urls
    BY <1>5 DEF PassEnds, Answers, Cancelled, shared_vars, Placed
  <2>2. (url' = url /\ owed' = owed) \/ Returns(r)
    BY <1>5 DEF PassEnds, Answers, Cancelled
  <2>3. url' \in [Reads -> Urls] /\ owed' \in [Reads -> SUBSET Urls]
    BY <1>2, <2>2 DEF Returns, Placed
  <2> QED BY <1>1, <2>1, <2>3 DEF Placed
<1>6. CASE Fails(r)
  <2>1. url[r] \in Urls
    BY DEF Placed
  <2> QED BY <1>1, <1>6, <2>1 DEF Fails, Placed
<1> QED BY <1>3, <1>4, <1>5, <1>6 DEF ReadSteps, Requested

\* A draw of a read on its way keeps it on its way.
LEMMA DrawKeepsWay ==
  ASSUME Placed, NEW r \in Reads, Draws(r), OnItsWay(r) PROVE OnItsWay(r)'
<1> DEFINE u == NextUrl(r)
<1>1. /\ u \in Urls
      /\ \A v \in Free(r) \ {u} : Dist(u) < Dist(v)
  BY NextIsNearest DEF Placed
<1>2. /\ rpc_index' = After(u)
      /\ UNCHANGED <<reader, cooling, retry_without_cooldown>>
      /\ attempted'[r] = attempted[r] \cup {u}
      /\ left'[r] = left[r] - 1 /\ left[r] \in Nat
  BY DEF Draws, Placed, Shape
<1>3. owed'[r] = owed[r] \ {u} /\ (step'[r] = "asking" => url'[r] = u)
  <2>1. CASE Skipped(r, u)
    <3>1. u \notin owed[r]
      BY <2>1 DEF OnItsWay, Skipped, Free
    <3>2. owed' = owed /\ step'[r] = "drawing"
      BY <2>1 DEF Draws, Placed, Shape
    <3> QED BY <3>1, <3>2
  <2>2. CASE ~Skipped(r, u)
    BY <2>2 DEF Draws, Placed, Shape
  <2> QED BY <2>1, <2>2
<1> HIDE DEF u
<1>4. Free(r)' = Free(r)
  BY <1>2 DEF Free
<1>5. ASSUME NEW v \in owed'[r]
      PROVE  v \notin attempted'[r] /\ Dist(v)' < left'[r]
  <2>1. v \in owed[r] /\ v # u /\ v \in Free(r) /\ v \in Urls
    BY <1>3 DEF OnItsWay, Placed
  <2>2. v \notin attempted'[r]
    BY <1>2, <2>1 DEF OnItsWay
  <2>3. Dist(v) < left[r] /\ Dist(v) \in Nat
    BY <2>1, Distance DEF OnItsWay, Dist, Placed
  <2>4. Dist(v)' < Dist(v) /\ Dist(v)' \in Nat
    BY <1>1, <1>2, <2>1, DrawComesNearer DEF Placed
  <2>5. Dist(v)' < left'[r]
    <3> HIDE DEF Dist
    <3> QED BY <1>2, <2>3, <2>4
  <2> QED BY <2>2, <2>5
<1> QED BY <1>3, <1>4, <1>5 DEF OnItsWay

\* At the beginning of a pass every node is ahead.
LEMMA PassReachesAll ==
  ASSUME Placed', NEW r \in Reads, attempted'[r] = {}, left'[r] = NumRpcs,
         owed'[r] \subseteq Free(r)', step'[r] = "drawing"
  PROVE  OnItsWay(r)'
<1>1. ASSUME NEW v \in owed'[r] PROVE v \notin attempted'[r] /\ Dist(v)' < left'[r]
  <2>1. v \in Urls /\ rpc_index' \in Urls
    BY DEF Placed
  <2> QED BY <2>1, Distance DEF Dist
<1> QED BY <1>1 DEF OnItsWay

LEMMA StepKeepsLonely ==
  ASSUME Placed, Placed', NEW r \in Reads, LonelyInv(r), ReadSteps(r) PROVE LonelyInv(r)'
<1> SUFFICES ASSUME owed'[r] # {}
             PROVE  /\ step'[r] # "idle" /\ \A o \in Reads \ {r} : step'[o] = "idle"
                    /\ (SkipsAll(r) \/ OnItsWay(r))'
  BY DEF LonelyInv
<1>1. ASSUME NEW o \in Reads \ {r} PROVE step'[o] = step[o]
  BY OtherReadsAreKept DEF SameRead, Placed
<1>2. CASE ReadStarts(r)
  <2>1. \A o \in Reads \ {r} : step[o] = "idle"
    BY <1>2 DEF ReadStarts
  <2>2. /\ step'[r] = "drawing" /\ attempted'[r] = {} /\ left'[r] = NumRpcs
        /\ ~retry_without_cooldown'[r] /\ ~made_request'[r]
        /\ UNCHANGED <<reader, rpc_index, cooling>>
    BY <1>2 DEF ReadStarts, Placed, Shape, shared_vars
  <2>3. owed'[r] = IF reader = "feed" /\ cooling # Urls THEN Urls \ cooling ELSE Urls
    BY <1>2, <2>1 DEF ReadStarts
  <2>4. CASE reader = "feed" /\ cooling = Urls
    BY <1>1, <2>1, <2>2, <2>4 DEF SkipsAll
  <2>5. CASE ~(reader = "feed" /\ cooling = Urls)
    <3>1. reader' \in {"feed", "vault"}
      BY DEF Placed, Shape
    <3>2. owed'[r] \subseteq Free(r)'
      BY <2>2, <2>3, <2>5, <3>1 DEF Free
    <3>3. OnItsWay(r)'
      BY <2>2, <3>2, PassReachesAll
    <3> QED BY <1>1, <2>1, <2>2, <3>3
  <2> QED BY <2>4, <2>5
<1>3. CASE Draws(r)
  <2>1. owed[r] # {} /\ step'[r] # "idle"
    BY <1>3 DEF Draws, Placed, Shape
  <2>2. \A o \in Reads \ {r} : step'[o] = "idle"
    BY <1>1, <2>1 DEF LonelyInv
  <2>3. CASE OnItsWay(r)
    BY <1>3, <2>1, <2>2, <2>3, DrawKeepsWay
  <2>4. CASE SkipsAll(r)
    <3>1. NextUrl(r) \in cooling
      BY <2>4, NextIsNearest DEF SkipsAll, Placed
    <3>2. Skipped(r, NextUrl(r))
      BY <2>4, <3>1 DEF SkipsAll, Skipped
    <3>3. SkipsAll(r)'
      BY <1>3, <2>4, <3>2 DEF Draws, SkipsAll
    <3> QED BY <2>1, <2>2, <3>3
  <2> QED BY <2>1, <2>3, <2>4 DEF LonelyInv
<1>4. CASE PassEnds(r)
  <2>1. /\ SecondPass(r) /\ owed' = owed /\ step' = step
        /\ retry_without_cooldown'[r] /\ left'[r] = NumRpcs /\ attempted'[r] = {}
        /\ UNCHANGED <<reader, rpc_index, cooling>> /\ step[r] = "drawing"
    BY <1>4 DEF PassEnds, Returns, Placed, Shape, shared_vars
  <2>2. \A o \in Reads \ {r} : step'[o] = "idle"
    BY <1>1, <2>1 DEF LonelyInv
  <2>3. owed'[r] \subseteq Free(r)'
    BY <2>1 DEF Free, Placed
  <2>4. OnItsWay(r)'
    BY <2>1, <2>3, PassReachesAll
  <2> QED BY <2>1, <2>2, <2>4
<1>5. CASE Fails(r)
  <2>1. /\ owed' = owed /\ step'[r] = "drawing" /\ step[r] = "asking"
        /\ UNCHANGED <<reader, rpc_index, left, attempted, retry_without_cooldown>>
        /\ cooling' = IF reader = "feed" THEN cooling \cup {url[r]} ELSE cooling
    BY <1>5 DEF Fails, Placed, Shape
  <2>2. OnItsWay(r) /\ \A o \in Reads \ {r} : step'[o] = "idle"
    BY <1>1, <2>1 DEF LonelyInv, SkipsAll
  <2>3. owed'[r] \subseteq Free(r)'
    BY <2>1, <2>2 DEF OnItsWay, Free, Placed
  <2>4. \A v \in owed[r] : Dist(v)' = Dist(v)
    BY <2>1 DEF Dist, DistFrom
  <2>5. OnItsWay(r)'
    BY <2>1, <2>2, <2>3, <2>4 DEF OnItsWay
  <2> QED BY <2>1, <2>2, <2>5
<1>6. CASE Answers(r) \/ Cancelled(r)
  BY <1>6 DEF Answers, Cancelled, Returns, Placed
<1> QED BY <1>2, <1>3, <1>4, <1>5, <1>6 DEF ReadSteps, Requested

\* A read that has company owes nothing.
LEMMA StepKeepsOthers ==
  ASSUME Placed, NEW r \in Reads, ReadSteps(r), NEW q \in Reads \ {r}, LonelyInv(q)
  PROVE  owed'[q] = {}
<1>1. CASE ReadStarts(r)
  BY <1>1 DEF ReadStarts
<1>2. CASE ~ReadStarts(r)
  <2>1. step[r] # "idle"
    BY <1>2 DEF ReadSteps, Draws, PassEnds, Requested, Answers, Fails, Cancelled
  <2>2. owed[q] = {}
    BY <2>1 DEF LonelyInv
  <2>3. owed'[q] = owed[q]
    BY <1>2 DEF ReadSteps, Draws, PassEnds, Requested, Answers, Fails, Cancelled, Returns, Placed
  <2> QED BY <2>2, <2>3
<1> QED BY <1>1, <1>2

LEMMA NextLonely == AllLonely /\ [EvmNext]_evm_vars => AllLonely'
<1> SUFFICES ASSUME AllLonely, [EvmNext]_evm_vars PROVE AllLonely'
  OBVIOUS
<1>1. CASE \E r \in Reads : ReadSteps(r)
  <2> PICK r \in Reads : ReadSteps(r)
    BY <1>1
  <2>1. Placed'
    BY StepKeepsPlaced DEF AllLonely
  <2>2. LonelyInv(r)'
    BY <2>1, StepKeepsLonely DEF AllLonely
  <2>3. ASSUME NEW q \in Reads \ {r} PROVE LonelyInv(q)'
    BY StepKeepsOthers DEF AllLonely, LonelyInv
  <2> QED BY <2>1, <2>2, <2>3 DEF AllLonely
<1>2. CASE FetchStarts \/ (\E u \in Urls : Expires(u)) \/ UNCHANGED evm_vars
  <2>1. /\ UNCHANGED <<reader, rpc_index, read_vars, asked, owed>>
        /\ cooling' \subseteq cooling
        /\ cooling' = cooling \/ LoopIsFree
    BY <1>2 DEF FetchStarts, Expires, evm_vars, shared_vars
  <2>2. Placed'
    BY <2>1 DEF read_vars, AllLonely, Placed, Shape
  <2>3. ASSUME NEW q \in Reads PROVE LonelyInv(q)'
    <3> LonelyInv(q)
      BY DEF AllLonely
    <3>1. \A v : Dist(v)' = Dist(v)
      BY <2>1 DEF Dist, DistFrom
    <3>2. OnItsWay(q) => OnItsWay(q)'
      BY <2>1, <3>1 DEF OnItsWay, Free, read_vars
    <3>3. SkipsAll(q) => SkipsAll(q)'
      BY <2>1 DEF SkipsAll, LoopIsFree, read_vars
    <3> QED BY <2>1, <3>2, <3>3 DEF LonelyInv, read_vars
  <2> QED BY <2>2, <2>3 DEF AllLonely
<1> QED BY <1>1, <1>2 DEF EvmNext

\* A read that had the fetcher for itself says "All RPCs failed" only when it has
\* asked every node that was not cooling down when it began, and every node if all
\* were: no node is passed over, wherever in the list it began (_next_rpc_url, the
\* range of the for loop, the reset of attempted).
THEOREM LonelyReadsAskAll == EvmSpec => LonelyReadAsksAll
<1>1. EvmSpec => []AllLonely
  BY InitLonely, NextLonely, PTL DEF EvmSpec
<1>2. ASSUME AllLonely, [EvmNext]_evm_vars
      PROVE  [\A r \in Reads : GivesUp(r) => owed[r] = {}]_evm_vars
  <2> SUFFICES ASSUME EvmNext, NEW r \in Reads, GivesUp(r), owed[r] # {} PROVE FALSE
    BY <1>2
  <2>1. Placed /\ LonelyInv(r)
    BY <1>2 DEF AllLonely
  <2>2. PassEnds(r) /\ ~SecondPass(r)
    BY <2>1, OnlyPassesGiveUp DEF Placed
  <2>3. OnItsWay(r) /\ left[r] = 0
    BY <2>1, <2>2 DEF LonelyInv, SkipsAll, SecondPass, PassEnds
  <2>4. PICK v \in owed[r] : Dist(v) < 0
    BY <2>3 DEF OnItsWay
  <2>5. Dist(v) \in Nat
    BY <2>1, Distance DEF Placed, Dist
  <2> QED BY <2>4, <2>5
<1> QED BY <1>1, <1>2, PTL DEF EvmSpec, LonelyReadAsksAll
-----------------------------------------------------------------------------
(* Units *)

Same(u, v) == UpToStables(u) = UpToStables(v)

LEMMA TheDims ==
  /\ "USD" \in Dims /\ "USDT" \in Dims /\ "USDC" \in Dims /\ "ten" \in Dims
  /\ "USDPLUS" \notin Dims
  /\ \A c \in Currencies : Dim(c) # "ten"
BY UnitsAssumption DEF Dims, Stables, Dim

LEMMA Exponents ==
  ASSUME NEW d \in Dims
  PROVE  /\ \A c : In(c)[d] = IF d = Dim(c) THEN 1 ELSE 0
         /\ \A u, v : Times(u, v)[d] = u[d] + v[d]
         /\ \A u, v : Over(u, v)[d] = u[d] - v[d]
BY DEF In, Times, Over

\* What a price is, dimension by dimension.
LEMMA PriceExponents ==
  ASSUME NEW d \in Dims, NEW b, NEW q
  PROVE  /\ In(b)[d] \in Int /\ In(q)[d] \in Int
         /\ Price(Pair(b, q))[d] = In(q)[d] - In(b)[d]
         /\ Price(Pair(b, q))[d] \in Int
<1>1. In(b)[d] \in Int /\ In(q)[d] \in Int
  BY Exponents
<1>2. Price(Pair(b, q)) = Over(In(q), In(b))
  BY DEF Price, Pair
<1>3. Over(In(q), In(b))[d] = In(q)[d] - In(b)[d]
  BY Exponents
<1>4. Price(Pair(b, q))[d] = In(q)[d] - In(b)[d]
  BY <1>2, <1>3
<1> HIDE DEF In, Price
<1> QED BY <1>1, <1>4

\* Two prices in one currency, one over the other; two prices in a chain.
LEMMA CrossUnit ==
  ASSUME NEW a, NEW b, NEW c
  PROVE  Over(Price(Pair(a, c)), Price(Pair(b, c))) = Price(Pair(a, b))
<1> DEFINE u == Over(Price(Pair(a, c)), Price(Pair(b, c)))
           v == Price(Pair(a, b))
<1>1. u = [d \in Dims |-> u[d]] /\ v = [d \in Dims |-> v[d]]
  BY DEF Over, Price
<1>2. ASSUME NEW d \in Dims PROVE u[d] = v[d]
  <2>1. u[d] = Price(Pair(a, c))[d] - Price(Pair(b, c))[d]
    BY Exponents
  <2> HIDE DEF u, v
  <2>2. /\ In(a)[d] \in Int /\ In(b)[d] \in Int /\ In(c)[d] \in Int
        /\ Price(Pair(a, c))[d] = In(c)[d] - In(a)[d]
        /\ Price(Pair(b, c))[d] = In(c)[d] - In(b)[d]
        /\ v[d] = In(b)[d] - In(a)[d]
    BY PriceExponents DEF v
  <2> QED BY <2>1, <2>2
<1> HIDE DEF u, v
<1>3. u = v
  BY <1>1, <1>2, Zenon
<1> QED BY <1>3 DEF u, v

LEMMA ChainUnit ==
  ASSUME NEW a, NEW b, NEW c
  PROVE  Times(Price(Pair(a, b)), Price(Pair(b, c))) = Price(Pair(a, c))
<1> DEFINE u == Times(Price(Pair(a, b)), Price(Pair(b, c)))
           v == Price(Pair(a, c))
<1>1. u = [d \in Dims |-> u[d]] /\ v = [d \in Dims |-> v[d]]
  BY DEF Times, Over, Price
<1>2. ASSUME NEW d \in Dims PROVE u[d] = v[d]
  <2>1. u[d] = Price(Pair(a, b))[d] + Price(Pair(b, c))[d]
    BY Exponents
  <2> HIDE DEF u, v
  <2>2. /\ In(a)[d] \in Int /\ In(b)[d] \in Int /\ In(c)[d] \in Int
        /\ Price(Pair(a, b))[d] = In(b)[d] - In(a)[d]
        /\ Price(Pair(b, c))[d] = In(c)[d] - In(b)[d]
        /\ v[d] = In(c)[d] - In(a)[d]
    BY PriceExponents DEF v
  <2> QED BY <2>1, <2>2
<1> HIDE DEF u, v
<1>3. u = v
  BY <1>1, <1>2, Zenon
<1> QED BY <1>3 DEF u, v

\* Units are the same up to the stablecoins when their dollars add up to the same
\* and the rest of their exponents agree.
LEMMA SameIf ==
  ASSUME NEW u, NEW v,
         u["USD"] + u["USDT"] + u["USDC"] = v["USD"] + v["USDT"] + v["USDC"],
         \A d \in Dims \ (Stables \cup {"USD"}) : u[d] = v[d]
  PROVE  Same(u, v)
<1> SUFFICES ASSUME NEW d \in Dims
             PROVE  (IF d = "USD" THEN u["USD"] + u["USDT"] + u["USDC"]
                     ELSE IF d \in Stables THEN 0 ELSE u[d])
                    = (IF d = "USD" THEN v["USD"] + v["USDT"] + v["USDC"]
                       ELSE IF d \in Stables THEN 0 ELSE v[d])
  BY DEF Same, UpToStables
<1> QED BY Zenon

\* A market in tether for one in dollars.
LEMMA TetherForDollars ==
  ASSUME NEW b PROVE Same(Price(Pair(b, "USDT")), Price(Pair(b, "USD")))
<1> DEFINE u == Price(Pair(b, "USDT"))
           v == Price(Pair(b, "USD"))
<1>1. \A d \in Dims : /\ In(b)[d] \in Int
                      /\ u[d] = (IF d = "USDT" THEN 1 ELSE 0) - In(b)[d]
                      /\ v[d] = (IF d = "USD" THEN 1 ELSE 0) - In(b)[d]
  <2>1. Dim("USDT") = "USDT" /\ Dim("USD") = "USD"
    BY DEF Dim
  <2> HIDE DEF u, v
  <2> SUFFICES ASSUME NEW d \in Dims
               PROVE  /\ In(b)[d] \in Int
                      /\ u[d] = (IF d = "USDT" THEN 1 ELSE 0) - In(b)[d]
                      /\ v[d] = (IF d = "USD" THEN 1 ELSE 0) - In(b)[d]
    OBVIOUS
  <2> QED BY <2>1, PriceExponents, Exponents DEF u, v
<1> HIDE DEF u, v
<1>2. u["USD"] + u["USDT"] + u["USDC"] = v["USD"] + v["USDT"] + v["USDC"]
  BY <1>1, TheDims
<1>3. \A d \in Dims \ (Stables \cup {"USD"}) : u[d] = v[d]
  BY <1>1 DEF Stables
<1>4. Same(u, v)
  BY <1>2, <1>3, SameIf
<1> QED BY <1>4 DEF u, v

\* Rebasing divides by dollars per tether.
LEMMA RebasingUnit ==
  ASSUME NEW b, NEW q, NEW w, Same(Price(Pair(b, q)), w)
  PROVE  Same(Over(Price(Pair(b, q)), StablePrice), w)
<1> DEFINE u == Over(Price(Pair(b, q)), StablePrice)
           v == Price(Pair(b, q))
<1>1. \A d \in Dims : /\ v[d] \in Int
                      /\ u[d] = v[d] - ((IF d = "USD" THEN 1 ELSE 0)
                                         - (IF d = "USDT" THEN 1 ELSE 0))
  <2>1. Dim("USDT") = "USDT" /\ Dim("USD") = "USD"
    BY DEF Dim
  <2> SUFFICES ASSUME NEW d \in Dims
               PROVE  /\ v[d] \in Int
                      /\ u[d] = v[d] - ((IF d = "USD" THEN 1 ELSE 0)
                                         - (IF d = "USDT" THEN 1 ELSE 0))
    OBVIOUS
  <2>2. u[d] = v[d] - StablePrice[d]
    BY Exponents
  <2> HIDE DEF u, v
  <2>3. v[d] \in Int /\ StablePrice[d] = In("USD")[d] - In("USDT")[d]
    BY PriceExponents DEF v, StablePrice
  <2> QED BY <2>1, <2>2, <2>3, Exponents
<1> HIDE DEF u, v
<1>2. u["USD"] + u["USDT"] + u["USDC"] = v["USD"] + v["USDT"] + v["USDC"]
  BY <1>1, TheDims
<1>3. \A d \in Dims \ (Stables \cup {"USD"}) : u[d] = v[d]
  BY <1>1 DEF Stables
<1>4. Same(u, v)
  BY <1>2, <1>3, SameIf
<1> QED BY <1>4 DEF u, v, Same

\* The dollars of 18 decimals are dollars.
LEMMA DollarUnit ==
  ASSUME NEW b, NEW q \in Dollars PROVE Price(Pair(b, q)) = InDollars(b)
BY DEF Dollars, InDollars, Price, Pair, In, Dim
-----------------------------------------------------------------------------
(* Fetchers *)

Pairs == [base : Currencies, quote : Currencies]

\* What InPairUnit and EntriesAreAsked say of the outcome o of a fetcher f for p.
RightUnit(f, e) == Same(e.unit, Price(e.pair)) \/ KnownWrong(f, e)
Right(f, p, o) == o.kind = "entry" => RightUnit(f, o) /\ (OneQuote(f) => o.pair = p)

LEMMA PairIsPair == \A p \in Pairs : p = Pair(p.base, p.quote)
BY DEF Pairs, Pair

LEMMA RightIf ==
  ASSUME NEW f, NEW p, NEW unit, NEW route, Same(unit, Price(p))
  PROVE  Right(f, p, Entry(p, unit, route))
BY DEF Right, RightUnit, Entry

LEMMA NoEntryIsRight ==
  ASSUME NEW f, NEW p PROVE Right(f, p, Error) /\ Right(f, p, Raised)
BY DEF Right, Error, Raised

LEMMA SettleIsRight ==
  ASSUME NEW f, NEW p, NEW kinds, NEW e, Right(f, p, e)
  PROVE  Right(f, p, Settle(kinds, e))
<1>1. Settle(kinds, e) \in {e, Error, Raised}
  BY Zenon DEF Settle
<1> QED BY <1>1, NoEntryIsRight

\* o is what comes of some replies to requests for the entry e.
From(o, e) == \E kinds : o = Settle(kinds, e)

LEMMA FromSettle == ASSUME NEW kinds, NEW e PROVE From(Settle(kinds, e), e)
BY DEF From

LEMMA FromIsRight ==
  ASSUME NEW f, NEW p, NEW o, NEW e, From(o, e), Right(f, p, e) PROVE Right(f, p, o)
BY SettleIsRight DEF From

LEMMA DirectIsRight ==
  ASSUME NEW f, NEW p, NEW o, NEW route, From(o, Entry(p, Price(p), route))
  PROVE  Right(f, p, o)
BY RightIf, FromIsRight DEF Same

\* The exchanges hop from USD to USDT or not at all; only KuCoin prices its base twice.
LEMMA ExchangeTable ==
  ASSUME NEW f \in DOMAIN Exchanges
  PROVE  /\ Exchanges[f].hops \in {<< >>, [USD |-> "USDT"]}
         /\ Exchanges[f].second = "base" => f = "Kucoin"
<1> DEFINE x == Exchanges[f]
<1>1. f \in {"Binance", "Bybit", "Bitget", "OKX", "Huobi", "Lbank", "Kucoin", "MEXC",
             "Gateio", "Bitstamp", "Upbit", "BinanceFuture", "ByBitFuture", "OkxFuture"}
  BY DEF Exchanges
<1>2. \/ f # "Kucoin" /\ x \in {Binance, Bybit, Bitget, Okx, Huobi, Lbank, Mexc, Gateio,
                                Bitstamp, Upbit, BinanceFuture, BybitFuture, OkxFuture}
      \/ f = "Kucoin" /\ x = Kucoin
  BY <1>1 DEF Exchanges
<1>3. ASSUME NEW y \in {Binance, Bybit, Bitget, Okx, Huobi, Lbank, Mexc, Gateio,
                        Bitstamp, Upbit, BinanceFuture, BybitFuture, OkxFuture}
      PROVE  y.hops \in {<< >>, [USD |-> "USDT"]} /\ y.second # "base"
  <2>1. \A r, l, s : /\ Exchange(r, l, s).hops = [USD |-> "USDT"]
                     /\ Exchange(r, l, s).second = s
    BY DEF Exchange
  <2>2. Direct.hops = << >> /\ Direct.second = "none"
    BY DEF Direct, Exchange
  <2>3. \A z \in {Bitstamp, Upbit, BinanceFuture, BybitFuture, OkxFuture} :
           z.hops = << >> /\ z.second = "none"
    BY <2>2 DEF Bitstamp, Upbit, BinanceFuture, BybitFuture, OkxFuture, Direct, Exchange
  <2>4. \A z \in {Binance, Bybit, Bitget, Okx, Huobi, Lbank} :
           z.hops = [USD |-> "USDT"] /\ z.second # "base"
    BY <2>1 DEF Binance, Bybit, Bitget, Okx, Huobi, Lbank
  <2>5. \A z \in {Mexc, Gateio} : z.hops = [USD |-> "USDT"] /\ z.second # "base"
    BY DEF Mexc, Gateio, Exchange
  <2> QED BY <2>3, <2>4, <2>5
<1>4. Kucoin.hops \in {<< >>, [USD |-> "USDT"]}
  BY DEF Kucoin, Exchange
<1> HIDE DEF x
<1>5. x.hops \in {<< >>, [USD |-> "USDT"]} /\ (x.second = "base" => f = "Kucoin")
  BY <1>2, <1>3, <1>4
<1> QED BY <1>5 DEF x

LEMMA HoppedPair ==
  ASSUME NEW hops \in {<< >>, [USD |-> "USDT"]}, NEW p \in Pairs
  PROVE  HopPair(hops, p) = p \/ (p.quote = "USD" /\ HopPair(hops, p) = Pair(p.base, "USDT"))
BY DEF HopPair

LEMMA RebasedIsRight ==
  ASSUME NEW f \in DOMAIN Exchanges, NEW p \in Pairs
  PROVE  Same(Rebased(Exchanges[f], p), Price(p))
<1> DEFINE x == Exchanges[f]
           market == HopPair(x.hops, p)
<1>1. market = Pair(market.base, market.quote) /\ Same(Price(market), Price(p))
  <2>1. CASE market = p
    BY <2>1, PairIsPair DEF Same
  <2>2. CASE p.quote = "USD" /\ market = Pair(p.base, "USDT")
    <3>1. p = Pair(p.base, "USD")
      BY <2>2, PairIsPair
    <3>2. market = Pair(market.base, market.quote)
      BY <2>2 DEF Pair
    <3> QED BY <2>2, <3>1, <3>2, TetherForDollars
  <2> QED BY <2>1, <2>2, HoppedPair, ExchangeTable
<1>2. Rebased(x, p) \in {Price(market), Over(Price(market), StablePrice)}
  BY DEF Rebased
<1> HIDE DEF market, x
<1>3. Same(Over(Price(market), StablePrice), Price(p))
  BY <1>1, RebasingUnit
<1>4. Same(Rebased(x, p), Price(p))
  BY <1>1, <1>2, <1>3
<1> QED BY <1>4 DEF x

LEMMA TriangulatedIsRight ==
  ASSUME NEW f \in DOMAIN Exchanges, NEW p \in Pairs
  PROVE  Right(f, p, Entry(p, Triangulated(Exchanges[f], p), "triangulated"))
<1>1. CASE Exchanges[f].second = "base"
  <2>1. f = "Kucoin"
    BY <1>1, ExchangeTable
  <2> QED BY <2>1 DEF Right, RightUnit, KnownWrong, Entry
<1>2. CASE Exchanges[f].second # "base"
  <2>1. Triangulated(Exchanges[f], p)
          = Over(Price(Pair(p.base, "USDT")), Price(Pair(p.quote, "USDT")))
    BY <1>2 DEF Triangulated
  <2>2. Triangulated(Exchanges[f], p) = Price(p)
    BY <2>1, CrossUnit, PairIsPair
  <2> QED BY <2>2, RightIf DEF Same
<1> QED BY <1>1, <1>2

LEMMA ExchangeIsRight ==
  ASSUME NEW f \in DOMAIN Exchanges, NEW p \in Pairs,
         NEW o \in ExchangeOutcomes(Exchanges[f], p)
  PROVE  Right(f, p, o)
<1> DEFINE x == Exchanges[f]
<1>1. PICK r, l, m : o = FetchPair(x, p, r, l, m)
  BY DEF ExchangeOutcomes
<1>2. Right(f, p, OperateUsdtHop(x, p, l, m))
  <2> DEFINE kinds == <<LegReplyKind(x, l), LegReplyKind(x, m),
                        IF x.second = "wrapped" THEN "raised" ELSE "price">>
  <2>1. OperateUsdtHop(x, p, l, m)
          \in {Error, Settle(kinds, Entry(p, Triangulated(x, p), "triangulated"))}
    BY Zenon DEF OperateUsdtHop
  <2> HIDE DEF kinds
  <2> QED BY <2>1, TriangulatedIsRight, SettleIsRight, NoEntryIsRight
<1>3. ASSUME NEW kinds, NEW route PROVE Right(f, p, Settle(kinds, Entry(p, Rebased(x, p), route)))
  BY RebasedIsRight, RightIf, SettleIsRight
<1>4. PICK kinds, route : o \in {OperateUsdtHop(x, p, l, m),
                                 Settle(kinds, Entry(p, Rebased(x, p), route))}
  BY <1>1, Zenon DEF FetchPair
<1> HIDE DEF x
<1> QED BY <1>2, <1>3, <1>4

\* The price services.
LEMMA ServiceIsRight ==
  ASSUME NEW f \in PriceServices, NEW p \in Pairs, NEW o \in ServiceOutcomes(f, p)
  PROVE  Right(f, p, o)
<1> DEFINE dollars == InDollars(p.base)
<1>1. ASSUME p.quote \in Dollars, NEW route, From(o, Entry(p, dollars, route))
      PROVE  Right(f, p, o)
  <2>1. dollars = Price(p)
    BY <1>1, DollarUnit, PairIsPair
  <2> HIDE DEF dollars
  <2> QED BY <1>1, <2>1, DirectIsRight
<1>2. CASE f = "Defillama"
  <2>1. o \in DefillamaOutcomes(p)
    BY <1>2, Zenon DEF ServiceOutcomes
  <2> DEFINE unit == Over(dollars, InDollars(p.quote))
  <2>2. \/ o = Error
        \/ p.quote \in Dollars /\ From(o, Entry(p, dollars, "direct"))
        \/ From(o, Entry(p, unit, "cross"))
    BY <2>1, FromSettle DEF DefillamaOutcomes
  <2>3. unit = Price(p)
    BY CrossUnit, PairIsPair DEF InDollars
  <2> HIDE DEF dollars, unit
  <2> QED BY <1>1, <2>2, <2>3, DirectIsRight, NoEntryIsRight
<1>3. CASE f = "GeckoTerminal"
  <2>1. o \in GeckoOutcomes(p)
    BY <1>3, Zenon DEF ServiceOutcomes
  <2>2. \/ o = Error
        \/ p.quote \in Dollars /\ From(o, Entry(p, dollars, "direct"))
        \/ From(o, Entry(p, GeckoCross(p), "cross"))
    BY <2>1, FromSettle DEF GeckoOutcomes
  <2>3. Right(f, p, Entry(p, GeckoCross(p), "cross"))
    BY <1>3 DEF Right, RightUnit, KnownWrong, Entry
  <2> QED BY <1>1, <2>2, <2>3, FromIsRight, NoEntryIsRight
<1>4. CASE f = "Dexscreener"
  <2>1. o \in DexscreenerOutcomes(p)
    BY <1>4, Zenon DEF ServiceOutcomes
  <2>2. o = Error \/ (p.quote \in Dollars /\ From(o, Entry(p, dollars, "direct")))
    BY <2>1, FromSettle DEF DexscreenerOutcomes
  <2> QED BY <1>1, <2>2, NoEntryIsRight
<1>5. CASE f \in {"Coinbase", "IndexCoop"}
  <2>1. o \in CoinbaseOutcomes(p) \cup IndexCoopOutcomes(p)
    BY <1>5, Zenon DEF ServiceOutcomes
  <2>2. o = Raised \/ From(o, Entry(p, dollars, "direct"))
    BY <2>1, FromSettle DEF CoinbaseOutcomes, IndexCoopOutcomes
  <2>3. CASE p.quote \in Dollars
    BY <1>1, <2>2, <2>3, NoEntryIsRight
  <2>4. CASE p.quote \notin Dollars
    <3>1. Right(f, p, Entry(p, dollars, "direct"))
      BY <1>5, <2>4 DEF Right, RightUnit, KnownWrong, Entry
    <3> QED BY <2>2, <3>1, FromIsRight, NoEntryIsRight
  <2> QED BY <2>3, <2>4
<1>6. CASE f = "Pyth"
  <2>1. o \in PythOutcomes(p)
    BY <1>6, Zenon DEF ServiceOutcomes
  <2> DEFINE hop == PythHopped[p]
             unit == Times(Price(Pair(p.base, hop)), InDollars(hop))
  <2>2. \/ o = Error
        \/ From(o, Entry(p, Price(p), "direct"))
        \/ p \in DOMAIN PythHopped /\ From(o, Entry(p, unit, "hopped"))
    BY <2>1, FromSettle DEF PythOutcomes
  <2>3. ASSUME p \in DOMAIN PythHopped PROVE unit = Price(p)
    <3>1. p.quote = "USD"
      BY <2>3 DEF PythHopped, Pair
    <3> HIDE DEF hop
    <3> QED BY <3>1, ChainUnit, PairIsPair DEF InDollars
  <2> HIDE DEF unit
  <2> QED BY <2>2, <2>3, DirectIsRight, NoEntryIsRight
<1>7. CASE f = "sUSN"
  <2>1. o \in SusnOutcomes(p)
    BY <1>7, Zenon DEF ServiceOutcomes
  <2> DEFINE unit == Times(Price(Pair("SUSN", "USN")), Price(Pair("USN", "USD")))
  <2>2. o = Error \/ (p = Pair("SUSN", "USD") /\ From(o, Entry(p, unit, "hopped")))
    BY <2>1, FromSettle DEF SusnOutcomes
  <2>3. unit = Price(Pair("SUSN", "USD"))
    BY ChainUnit
  <2> HIDE DEF unit
  <2> QED BY <2>2, <2>3, DirectIsRight, NoEntryIsRight
<1> QED BY <1>2, <1>3, <1>4, <1>5, <1>6, <1>7 DEF PriceServices

\* Feeds price the base of the pairs that are mapped to them.
OfItsBase(p, feed) == feed = Pair(p.base, feed.quote)
Keeps(table) == \A p \in DOMAIN table : OfItsBase(p, table[p])

LEMMA MappingKeeps ==
  ASSUME NEW configs, Keeps(configs) PROVE Keeps(FeedMapping(configs))
<1> SUFFICES ASSUME NEW p \in DOMAIN FeedMapping(configs)
             PROVE  OfItsBase(p, FeedMapping(configs)[p])
  BY DEF Keeps
<1>1. CASE p \in DOMAIN configs
  BY <1>1 DEF FeedMapping, Keeps
<1>2. CASE p \notin DOMAIN configs
  <2>1. PICK q \in DOMAIN configs : p = configs[q]
    BY <1>2 DEF FeedMapping
  <2>2. p = Pair(q.base, p.quote)
    BY <2>1 DEF Keeps, OfItsBase
  <2>3. FeedMapping(configs)[p] = p
    BY <1>2 DEF FeedMapping
  <2> QED BY <2>2, <2>3 DEF OfItsBase, Pair
<1> QED BY <1>1, <1>2

LEMMA OwnKeeps ==
  ASSUME NEW ps, \A p \in ps : \E b, q : p = Pair(b, q) PROVE Keeps(Own(ps))
BY DEF Keeps, Own, OfItsBase, Pair

LEMMA FeedTables ==
  ASSUME NEW f \in DOMAIN EvmFeeds PROVE Keeps(EvmFeeds[f].feeds)
<1>1. EvmFeeds[f] \in {Chainlink, Redstone, Re7OnChain, Usn, WstethChainlink,
                       WstethRedstone, WstethRate, Erc4626}
  <2>1. f \in {"Chainlink", "Redstone", "Re7OnChain", "USN", "WstETHChainlink",
               "WstETHRedstone", "WstETHRate", "WstETHRateLido", "ERC4626"}
    BY DEF EvmFeeds
  <2> QED BY <2>1 DEF EvmFeeds
<1>2. \A hops, configs : OracleFeeds(hops, configs).feeds = FeedMapping(configs)
  BY DEF OracleFeeds
<1>3. Keeps(Chainlink.feeds)
  <2>1. \A p \in {Pair("LBTC", "BTC"), Pair("UNIBTC", "BTC")} : \E b, q : p = Pair(b, q)
    OBVIOUS
  <2> QED BY <1>2, <2>1, OwnKeeps, MappingKeeps DEF Chainlink
<1>4. Keeps(Redstone.feeds)
  <2>1. \A p \in {Pair("LBTC", "BTC")} : \E b, q : p = Pair(b, q)
    OBVIOUS
  <2> QED BY <1>2, <2>1, OwnKeeps, MappingKeeps DEF Redstone
<1>5. Keeps(Usn.feeds)
  <2>1. \A p \in {Pair("USN", "USD")} : \E b, q : p = Pair(b, q)
    OBVIOUS
  <2> QED BY <1>2, <2>1, OwnKeeps, MappingKeeps DEF Usn
<1>6. Keeps(Re7OnChain.feeds)
  <2> DEFINE configs == [p \in {Pair("MRE7BTC", "USD"), Pair("MRE7YIELD", "USD")} |->
                           IF p.base = "MRE7BTC" THEN Pair("MRE7BTC", "BTC") ELSE p]
  <2>1. Keeps(configs)
    BY DEF Keeps, OfItsBase, Pair
  <2>2. Re7OnChain = OracleFeeds(InBitcoin, configs)
    BY DEF Re7OnChain
  <2> HIDE DEF configs
  <2> QED BY <1>2, <2>1, <2>2, MappingKeeps
<1>7. Keeps(WstethFeed.feeds)
  <2> DEFINE configs == [p \in {Pair("WSTETH", "USD")} |-> Pair("WSTETH", "ETH")]
  <2>1. Keeps(configs)
    BY DEF Keeps, OfItsBase, Pair
  <2>2. WstethFeed = OracleFeeds([USD |-> "ETH"], configs)
    BY DEF WstethFeed
  <2> HIDE DEF configs
  <2> QED BY <1>2, <2>1, <2>2, MappingKeeps
<1>8. Keeps(Erc4626.feeds)
  <2>1. Keeps(<< >>)
    BY DEF Keeps
  <2> QED BY <1>2, <2>1, MappingKeeps DEF Erc4626
<1> QED BY <1>1, <1>3, <1>4, <1>5, <1>6, <1>7, <1>8
        DEF WstethChainlink, WstethRedstone, WstethRate

LEMMA FeedOfItsBase ==
  ASSUME NEW f \in DOMAIN EvmFeeds, NEW p \in Pairs
  PROVE  OfItsBase(p, FeedOf(EvmFeeds[f], p))
<1> DEFINE e == EvmFeeds[f]
<1>1. Keeps(e.feeds)
  BY FeedTables
<1>2. OfItsBase(p, HopPair(e.hops, p))
  <2>1. OfItsBase(p, p)
    BY PairIsPair DEF OfItsBase
  <2>2. \A q : OfItsBase(p, Pair(p.base, q))
    BY DEF OfItsBase, Pair
  <2> QED BY <2>1, <2>2 DEF HopPair
<1> HIDE DEF e
<1>3. OfItsBase(p, FeedOf(e, p))
  BY <1>1, <1>2 DEF FeedOf, Keeps
<1> QED BY <1>3 DEF e

LEMMA EvmIsRight ==
  ASSUME NEW f \in DOMAIN EvmFeeds, NEW ps, NEW p \in Pairs, NEW oracle,
         NEW o \in EvmOutcomes(EvmFeeds[f], ps, p, oracle)
  PROVE  Right(f, p, o)
<1> DEFINE e == EvmFeeds[f]
           feed == FeedOf(e, p)
           unit == Times(Price(feed), Price(Pair(feed.quote, p.quote)))
<1>1. PICK hop_prices, v : o \in {Raised, Error, SinglePair(e, p, hop_prices, v)}
  BY Zenon DEF EvmOutcomes
<1>2. CASE feed = p
  <2>1. From(SinglePair(e, p, hop_prices, v), Entry(p, Price(p), "direct"))
    BY <1>2, FromSettle, Zenon DEF SinglePair
  <2> QED BY <1>1, <2>1, DirectIsRight, NoEntryIsRight
<1>3. CASE feed # p
  <2>1. From(SinglePair(e, p, hop_prices, v), Entry(p, unit, "hopped"))
    BY <1>3, FromSettle, Zenon DEF SinglePair
  <2>2. feed = Pair(p.base, feed.quote)
    BY FeedOfItsBase DEF OfItsBase
  <2>3. unit = Price(p)
    <3> HIDE DEF e, feed
    <3> QED BY <2>2, ChainUnit, PairIsPair
  <2> HIDE DEF e, unit
  <2> QED BY <1>1, <2>1, <2>3, DirectIsRight, NoEntryIsRight
<1> QED BY <1>2, <1>3

\* Ekubo, off by a power of ten or in the unit of its label.
LEMMA PriceHasNoTens ==
  ASSUME NEW b \in Currencies \cup {"USD"}, NEW q \in Currencies \cup {"USD"}
  PROVE  Price(Pair(b, q))["ten"] = 0
<1>1. "ten" \in Dims /\ Dim(b) # "ten" /\ Dim(q) # "ten"
  BY TheDims DEF Dim
<1>2. In(b)["ten"] = 0 /\ In(q)["ten"] = 0
  BY <1>1, Exponents
<1> QED BY <1>1, <1>2, PriceExponents

LEMMA TensOfMarket ==
  ASSUME NEW b \in Currencies, NEW q \in Currencies
  PROVE  \E n \in Int : EkuboTens(Pair(b, q)) = Tens(n)
<1> DEFINE d == Decimals[b] - Decimals[q]
           abs == IF d < 0 THEN -d ELSE d
<1>1. EkuboTens(Pair(b, q)) = Tens(abs - d)
  BY DEF EkuboTens, Pair
<1>2. d \in Int
  BY FetchersAssumption
<1>3. abs - d \in Int
  <2> HIDE DEF d
  <2> QED BY <1>2
<1> HIDE DEF abs, d
<1> QED BY <1>1, <1>3

\* A price off by n powers of ten is seen to be, or is exact.
LEMMA OffByTens ==
  ASSUME NEW b \in Currencies, NEW q \in Currencies \cup {"USD"}, NEW n \in Int
  PROVE  LET u == Times(Price(Pair(b, q)), Tens(n))
         IN  u["ten"] # 0 \/ u = Price(Pair(b, q))
<1> DEFINE p == Price(Pair(b, q))
           u == Times(p, Tens(n))
<1>1. \A d \in Dims : /\ p[d] \in Int
                      /\ u[d] = p[d] + (IF d = "ten" THEN n ELSE 0)
  <2> SUFFICES ASSUME NEW d \in Dims
               PROVE  p[d] \in Int /\ u[d] = p[d] + (IF d = "ten" THEN n ELSE 0)
    OBVIOUS
  <2>1. u[d] = p[d] + Tens(n)[d]
    BY Exponents
  <2>2. p[d] \in Int
    BY PriceExponents
  <2> HIDE DEF p, u
  <2> QED BY <2>1, <2>2 DEF Tens
<1>2. p["ten"] = 0
  BY PriceHasNoTens
<1>3. p = [d \in Dims |-> p[d]] /\ u = [d \in Dims |-> u[d]]
  BY DEF Price, Over, Times
<1> HIDE DEF p, u
<1>4. u["ten"] = n
  BY <1>1, <1>2, TheDims
<1>5. ASSUME n = 0 PROVE u = p
  <2>1. \A d \in Dims : u[d] = p[d]
    BY <1>1, <1>5
  <2> QED BY <1>3, <2>1, Zenon
<1>6. n # 0 => u["ten"] # 0
  BY <1>4
<1>7. u["ten"] # 0 \/ u = p
  BY <1>5, <1>6
<1> QED BY <1>7 DEF p, u

\* The power of ten can as well be applied last.
LEMMA TensLast ==
  ASSUME NEW a, NEW b, NEW c, NEW n \in Int
  PROVE  Times(Times(Price(Pair(a, b)), Tens(n)), Price(Pair(b, c)))
           = Times(Price(Pair(a, c)), Tens(n))
<1> DEFINE u == Times(Times(Price(Pair(a, b)), Tens(n)), Price(Pair(b, c)))
           v == Times(Price(Pair(a, c)), Tens(n))
<1>1. u = [d \in Dims |-> u[d]] /\ v = [d \in Dims |-> v[d]]
  BY DEF Times
<1>2. ASSUME NEW d \in Dims PROVE u[d] = v[d]
  <2>1. /\ u[d] = Times(Price(Pair(a, b)), Tens(n))[d] + Price(Pair(b, c))[d]
        /\ Times(Price(Pair(a, b)), Tens(n))[d] = Price(Pair(a, b))[d] + Tens(n)[d]
        /\ v[d] = Price(Pair(a, c))[d] + Tens(n)[d]
    BY Exponents
  <2> HIDE DEF u, v
  <2>2. /\ In(a)[d] \in Int /\ In(b)[d] \in Int /\ In(c)[d] \in Int
        /\ Price(Pair(a, b))[d] = In(b)[d] - In(a)[d]
        /\ Price(Pair(b, c))[d] = In(c)[d] - In(b)[d]
        /\ Price(Pair(a, c))[d] = In(c)[d] - In(a)[d]
    BY PriceExponents
  <2>3. Tens(n)[d] \in Int
    BY DEF Tens
  <2> QED BY <2>1, <2>2, <2>3
<1> HIDE DEF u, v
<1>3. u = v
  BY <1>1, <1>2, Zenon
<1> QED BY <1>3 DEF u, v

LEMMA EkuboMarket ==
  ASSUME NEW p \in Pairs
  PROVE  /\ ~EkuboHopped(p) => HopPair(EkuboHops, p) = p
         /\ EkuboHopped(p) => HopPair(EkuboHops, p) = Pair(p.base, "USDC")
BY DEF EkuboHopped, HopPair, EkuboHops

LEMMA EkuboEntryIsRight ==
  ASSUME NEW p \in Pairs, NEW q \in Pairs,
         p \in AskedOf("Ekubo"), q \in AskedOf("Ekubo")
  PROVE  Right("Ekubo", p, EkuboEntry(q, p))
<1> DEFINE market == HopPair(EkuboHops, p)
           raw == Times(Price(market), EkuboTens(market))
           back == Pair("USDC", LookupQuote(q.quote))
<1>0. p.base \in Currencies /\ p.quote \in Currencies /\ "USDC" \in Currencies
  BY UnitsAssumption DEF Pairs, Stables
<1>1. CASE ~EkuboHopped(p)
  <2>1. market = p /\ p = Pair(p.base, p.quote)
    BY <1>1, EkuboMarket, PairIsPair
  <2>2. PICK n \in Int : EkuboTens(market) = Tens(n)
    BY <1>0, <2>1, TensOfMarket
  <2>3. raw["ten"] # 0 \/ raw = Price(p)
    BY <1>0, <2>1, <2>2, OffByTens
  <2>4. EkuboEntry(q, p) = Entry(p, raw, "direct")
    BY <1>1, Zenon DEF EkuboEntry
  <2> HIDE DEF raw
  <2> QED BY <2>3, <2>4 DEF Right, RightUnit, KnownWrong, Same, Entry
<1>2. CASE EkuboHopped(p) /\ back \notin {Pair(EkuboHops[c], c) : c \in DOMAIN EkuboHops}
  <2>1. EkuboEntry(q, p) = Raised
    BY <1>2, Zenon DEF EkuboEntry, RequestedQuote
  <2> QED BY <2>1, NoEntryIsRight
<1>3. CASE EkuboHopped(p) /\ back \in {Pair(EkuboHops[c], c) : c \in DOMAIN EkuboHops}
  <2>1. LookupQuote(q.quote) = "USD" /\ q.quote \in Dollars
    BY <1>3 DEF EkuboHops, Pair, LookupQuote, Dollars
  <2> DEFINE unit == Times(raw, Price(back))
             label == Pair(p.base, q.quote)
  <2>2. EkuboEntry(q, p) = Entry(label, unit, "hopped")
    BY <1>3, Zenon DEF EkuboEntry, RequestedQuote
  <2>3. market = Pair(p.base, "USDC") /\ back = Pair("USDC", "USD")
    BY <1>3, <2>1, EkuboMarket
  <2>4. PICK n \in Int : EkuboTens(market) = Tens(n)
    BY <1>0, <2>3, TensOfMarket
  <2>5. unit = Times(Price(Pair(p.base, "USD")), Tens(n))
    BY <2>3, <2>4, TensLast
  <2>6. Price(label) = Price(Pair(p.base, "USD"))
    BY <2>1, DollarUnit DEF InDollars
  <2>7. unit["ten"] # 0 \/ unit = Price(label)
    BY <1>0, <2>5, <2>6, OffByTens
  <2>8. OneQuote("Ekubo") => label = p
    BY PairIsPair DEF OneQuote
  <2> HIDE DEF unit, label
  <2> QED BY <2>2, <2>7, <2>8 DEF Right, RightUnit, KnownWrong, Same, Entry
<1> QED BY <1>1, <1>2, <1>3
-----------------------------------------------------------------------------
(* A round *)

Given ==
  /\ team \subseteq Fetchers /\ pairs \subseteq Pairs
  /\ AskedOf("Ekubo") # {} => first \in AskedOf("Ekubo")

\* What a fetch returns is about its pairs, and right.
Returned(f, o) == DOMAIN o \subseteq AskedOf(f) /\ \A p \in DOMAIN o : Right(f, p, o[p])

\* An entry that was kept is what a fetcher returned for a pair.
Kept(r) ==
  \E f \in Fetchers : \E p \in AskedOf(f) : \E e :
    r = <<f, p, e>> /\ e.kind = "entry" /\ Right(f, p, e)

RoundInv ==
  /\ Given
  /\ DOMAIN outcome = team /\ \A f \in team : Returned(f, outcome[f])
  /\ \A r \in entries : Kept(r)
  /\ \A r, q \in entries : r[1] = q[1] /\ r[2] = q[2] => r = q

\* The four kinds of fetchers have no name in common.
LEMMA KindsOfFetchers ==
  /\ DOMAIN Exchanges \cap DOMAIN EvmFeeds = {}
  /\ PriceServices \cap (DOMAIN Exchanges \cup DOMAIN EvmFeeds) = {}
  /\ "Ekubo" \notin DOMAIN Exchanges \cup DOMAIN EvmFeeds \cup PriceServices
BY DEF Exchanges, EvmFeeds, PriceServices

LEMMA FetchIsRight ==
  ASSUME Given, NEW f \in Fetchers, NEW o \in FetchOutcomes(f) PROVE Returned(f, o)
<1> DEFINE mine == AskedOf(f)
<1>1. mine \subseteq Pairs
  BY DEF AskedOf, Given
<1>2. CASE f \in DOMAIN Exchanges
  <2>1. o \in ExchangeFetches(f)
    BY <1>2, KindsOfFetchers, Zenon DEF FetchOutcomes
  <2>2. /\ DOMAIN o \subseteq mine
        /\ \A p \in DOMAIN o : o[p] \in ExchangeOutcomes(Exchanges[f], p)
    BY <2>1 DEF ExchangeFetches, OneEach
  <2> HIDE DEF mine
  <2>3. \A p \in DOMAIN o : Right(f, p, o[p])
    BY <1>1, <1>2, <2>2, ExchangeIsRight
  <2> QED BY <2>2, <2>3 DEF Returned, mine
<1>3. CASE f \in DOMAIN EvmFeeds
  <2>1. o \in EvmFetches(f)
    BY <1>3, KindsOfFetchers, Zenon DEF FetchOutcomes
  <2>2. PICK oracle \in BOOLEAN :
          DOMAIN o = mine /\ \A p \in mine : o[p] \in EvmOutcomes(EvmFeeds[f], mine, p, oracle)
    BY <2>1 DEF EvmFetches, OneEach
  <2> HIDE DEF mine
  <2>3. \A p \in DOMAIN o : Right(f, p, o[p])
    BY <1>1, <1>3, <2>2, EvmIsRight
  <2> QED BY <2>2, <2>3 DEF Returned, mine
<1>4. CASE f = "Ekubo"
  <2>1. o \in EkuboFetches
    BY <1>4, KindsOfFetchers, Zenon DEF FetchOutcomes
  <2>2. PICK priced, cut, chain : o = EkuboFetch(mine, first, priced, cut, chain)
    BY <1>4, <2>1 DEF EkuboFetches
  <2>3. /\ DOMAIN o = mine
        /\ \A p \in mine : o[p] \in {Raised, Error, EkuboEntry(first, p)}
    <3> HIDE DEF mine
    <3> QED BY <2>2 DEF EkuboFetch
  <2>4. ASSUME NEW p \in mine PROVE Right(f, p, o[p])
    <3>1. first \in mine /\ first \in Pairs /\ p \in Pairs
      BY <1>1, <1>4 DEF Given
    <3>2. Right(f, p, EkuboEntry(first, p))
      BY <1>4, <3>1, EkuboEntryIsRight
    <3> HIDE DEF mine
    <3> QED BY <2>3, <3>2, NoEntryIsRight
  <2> QED BY <2>3, <2>4 DEF Returned
<1>5. CASE f \in PriceServices
  <2>1. o \in ServiceFetches(f)
    BY <1>5, KindsOfFetchers, Zenon DEF FetchOutcomes
  <2>2. DOMAIN o = mine /\ \A p \in mine : o[p] \in ServiceOutcomes(f, p)
    BY <2>1 DEF ServiceFetches, OneEach
  <2> HIDE DEF mine
  <2>3. \A p \in DOMAIN o : Right(f, p, o[p])
    BY <1>1, <1>5, <2>2, ServiceIsRight
  <2> QED BY <2>2, <2>3 DEF Returned, mine
<1> QED BY <1>2, <1>3, <1>4, <1>5 DEF Fetchers

LEMMA NothingReturned == \A f : Returned(f, << >>)
BY DEF Returned

\* What the configuration gives stays.
LEMMA GivenStays ==
  ASSUME Given, UNCHANGED <<team, pairs, first>>
  PROVE  /\ Given'
         /\ \A f : AskedOf(f)' = AskedOf(f)
         /\ \A f, o : Returned(f, o) => Returned(f, o)'
         /\ \A r : Kept(r) => Kept(r)'
<1>1. \A f : AskedOf(f)' = AskedOf(f)
  BY DEF AskedOf
<1>2. \A f : OneQuote(f)' = OneQuote(f)
  BY <1>1 DEF OneQuote
<1>3. \A f, p, o : Right(f, p, o)' = Right(f, p, o)
  BY <1>2 DEF Right
<1> QED BY <1>1, <1>3 DEF Given, Returned, Kept

LEMMA InitRoundInv == RoundInit => RoundInv
<1> SUFFICES ASSUME RoundInit PROVE RoundInv
  OBVIOUS
<1>1. Given
  BY RoundAssumption DEF RoundInit, Given, Pairs
<1> QED BY <1>1, NothingReturned DEF RoundInit, RoundInv

LEMMA NextRoundInv == RoundInv /\ [RoundNext]_round_vars => RoundInv'
<1> SUFFICES ASSUME RoundInv, [RoundNext]_round_vars PROVE RoundInv'
  OBVIOUS
<1>1. UNCHANGED <<team, pairs, first>>
  BY DEF RoundNext, round_vars, RoundStarts, RoundEnds, FetcherEnds, FetcherTimesOut
<1>2. CASE RoundStarts \/ UNCHANGED round_vars
  <2>1. UNCHANGED outcome /\ entries' \in {entries, {}}
    BY <1>2 DEF RoundStarts, round_vars
  <2> QED BY <1>1, <2>1, GivenStays DEF RoundInv
<1>3. ASSUME NEW f \in team, FetcherEnds(f) \/ FetcherTimesOut(f) PROVE RoundInv'
  <2>1. PICK o : outcome' = [outcome EXCEPT ![f] = o] /\ Returned(f, o)
    <3>1. CASE FetcherEnds(f)
      BY <3>1, FetchIsRight DEF FetcherEnds, RoundInv, Given
    <3>2. CASE FetcherTimesOut(f)
      BY <3>2, NothingReturned DEF FetcherTimesOut
    <3> QED BY <1>3, <3>1, <3>2
  <2>2. DOMAIN outcome' = team /\ \A g \in team : Returned(g, outcome'[g])
    BY <2>1 DEF RoundInv
  <2>3. UNCHANGED entries
    BY <1>3 DEF FetcherEnds, FetcherTimesOut
  <2> QED BY <1>1, <2>2, <2>3, GivenStays DEF RoundInv
<1>4. CASE RoundEnds
  <2>1. ASSUME NEW r \in entries'
        PROVE  \E f \in team : \E p \in DOMAIN outcome[f] :
                 outcome[f][p].kind = "entry" /\ r = <<f, p, outcome[f][p]>>
    BY <1>4 DEF RoundEnds, Added
  <2>2. \A r \in entries' : Kept(r)
    <3> SUFFICES ASSUME NEW r \in entries' PROVE Kept(r)
      OBVIOUS
    <3>1. PICK f \in team : \E p \in DOMAIN outcome[f] :
                 outcome[f][p].kind = "entry" /\ r = <<f, p, outcome[f][p]>>
      BY <2>1
    <3>2. PICK p \in DOMAIN outcome[f] :
                 outcome[f][p].kind = "entry" /\ r = <<f, p, outcome[f][p]>>
      BY <3>1
    <3>3. p \in AskedOf(f) /\ Right(f, p, outcome[f][p]) /\ f \in Fetchers
      BY DEF RoundInv, Returned, Given
    <3> QED BY <3>2, <3>3 DEF Kept
  <2>3. \A r, q \in entries' : r[1] = q[1] /\ r[2] = q[2] => r = q
    BY <2>1
  <2>4. DOMAIN outcome' = team /\ \A f \in team : outcome'[f] = << >>
    BY <1>4 DEF RoundEnds
  <2> QED BY <1>1, <2>2, <2>3, <2>4, GivenStays, NothingReturned DEF RoundInv
<1> QED BY <1>2, <1>3, <1>4 DEF RoundNext

THEOREM RoundInvHolds == RoundSpec => []RoundInv
BY InitRoundInv, NextRoundInv, PTL DEF RoundSpec

\* Every fetcher the price-pusher adds returns prices in the unit of the pair that
\* their entry names, for all pairs, currencies and answers: but for the paths of
\* KnownWrong (the fetchers' _construct).
THEOREM PricesAreInPairUnit == RoundSpec => []InPairUnit
<1>1. RoundInv => InPairUnit
  <2> SUFFICES ASSUME RoundInv, NEW r \in entries
               PROVE  UpToStables(r[3].unit) = UpToStables(Price(r[3].pair))
                      \/ KnownWrong(r[1], r[3])
    BY DEF InPairUnit
  <2> QED BY DEF RoundInv, Kept, Right, RightUnit, Same
<1> QED BY <1>1, RoundInvHolds, PTL

\* An entry is for a pair its fetcher was asked for, and the only one: the hops out
\* and back lead to the same pair (HopHandler, _adapt_back_hopped_pair).
THEOREM EntriesAnswerRequests == RoundSpec => []EntriesAreAsked
<1>1. RoundInv => EntriesAreAsked
  <2> SUFFICES ASSUME RoundInv, NEW r \in entries, OneQuote(r[1])
               PROVE  /\ r[3].pair \in AskedOf(r[1])
                      /\ \A q \in entries : q[1] = r[1] /\ q[3].pair = r[3].pair => q = r
    BY DEF EntriesAreAsked
  <2>1. \A q \in entries : OneQuote(q[1]) => q[2] \in AskedOf(q[1]) /\ q[3].pair = q[2]
    BY DEF RoundInv, Kept, Right
  <2> QED BY <2>1 DEF RoundInv
<1> QED BY <1>1, RoundInvHolds, PTL
=============================================================================
