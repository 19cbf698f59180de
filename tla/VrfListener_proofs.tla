-------------------------- MODULE VrfListener_proofs --------------------------
(***************************************************************************)
(* Proofs about the VRF listener, for any number of requests, any delays   *)
(* and threshold, in both ways of learning of the requests: its types, and *)
(* that no answer is computed from a block that was known when the number  *)
(* was asked for.                                                          *)
(***************************************************************************)
EXTENDS VrfListener, TLAPS

CallType == [request : Requests, kind : {"answer", "refund"}, seed : Nat]

\* The listener starts asleep, with no request made.
LEMMA InitTypeOK == Init => TypeOK
BY VrfAssumption DEF Init, TypeOK, Nothing, NoSeed

\* The chain, its users and the indexer keep the types.
LEMMA EnvironmentTypeOK ==
  ASSUME TypeOK, NextBlock \/ Users \/ Indexer
  PROVE  TypeOK'
<1>1. CASE NextBlock
  BY <1>1 DEF TypeOK, NextBlock, indexer_vars, listener_vars
<1>2. ASSUME NEW r \in Requests, MakesRequest(r) PROVE TypeOK'
  BY <1>2 DEF TypeOK, MakesRequest, listener_vars
<1>3. ASSUME NEW r \in Requests, Cancels(r) PROVE TypeOK'
  BY <1>3 DEF TypeOK, Cancels, indexer_vars, listener_vars
<1>4. ASSUME NEW r \in Requests, Delivers(r) PROVE TypeOK'
  BY <1>4 DEF TypeOK, Delivers, chain_vars, listener_vars
<1>5. CASE IndexerStops
  BY <1>5 DEF TypeOK, IndexerStops, Fault, chain_vars, listener_vars
<1> QED BY <1>1, <1>2, <1>3, <1>4, <1>5 DEF Users, Indexer

\* So does the contract, whose answers have seeds of their calls.
LEMMA ExecutesTypeOK ==
  ASSUME TypeOK, Executes
  PROVE  TypeOK'
<1>1. PICK tx \in mempool : Executes!(tx)
  BY DEF Executes
<1>2. tx \in SUBSET CallType
  BY DEF TypeOK, CallType
<1>3. \A r \in Answers(tx) : (CHOOSE call \in tx : call.request = r).seed \in Nat
  BY <1>2 DEF Answers, CallType
<1>4. CASE Valid(tx) /\ outcome' = "accepted"
  <2>1. status' \in [Requests -> {"UNINITIALIZED", "RECEIVED", "FULFILLED", "CANCELLED", "REFUNDED"}]
    BY <1>1, <1>4 DEF TypeOK
  <2>2. seed_used' \in [Requests -> Nat]
    BY <1>1, <1>3, <1>4 DEF TypeOK
  <2> QED BY <1>1, <1>4, <2>1, <2>2 DEF TypeOK, Fault, indexer_vars, listener_vars
<1>5. CASE outcome' = "reverted"
  BY <1>1, <1>5 DEF TypeOK, Fault, indexer_vars, listener_vars
<1> QED BY <1>1, <1>4, <1>5

\* A step of the listener keeps the types.
LEMMA ListenerTypeOK ==
  ASSUME TypeOK, Listener
  PROVE  TypeOK'
<1> USE DEF TypeOK, chain_vars, indexer_vars, ListenerOnly, Goes, Returns, Sets,
            Nothing, NoSeed
<1>1. CASE Wakes
  BY <1>1 DEF Wakes
<1>2. CASE GetsBlockNumber
  BY <1>2 DEF GetsBlockNumber
<1>3. CASE IndexesItself
  BY <1>3 DEF IndexesItself
<1>4. ASSUME NEW r \in Requests, ReadsStatus(r) PROVE TypeOK'
  BY <1>4 DEF ReadsStatus
<1>5. CASE KeepsReceived
  BY <1>5 DEF KeepsReceived
<1>6. ASSUME NEW r \in Requests, FetchesHash(r) PROVE TypeOK'
  <2>1. SeedBlock(r) \in Nat
    BY DEF SeedBlock
  <2> QED BY <1>6, <2>1 DEF FetchesHash
<1>7. CASE ComputesAnswers
  BY <1>7 DEF ComputesAnswers
<1>8. ASSUME NEW r \in Requests, Estimates(r) PROVE TypeOK'
  BY <1>8 DEF Estimates
<1>9. CASE Sends
  <2>1. Multicall \in SUBSET CallType
    BY DEF Multicall, Call, At, CallType
  <2> QED BY <1>9, <2>1 DEF Sends, CallType
<1>10. CASE SeesAccepted
  BY <1>10 DEF SeesAccepted
<1>11. CASE HandlingFails
  BY <1>11 DEF HandlingFails, Raises, Fault
<1> QED
  BY <1>1, <1>2, <1>3, <1>4, <1>5, <1>6, <1>7, <1>8, <1>9, <1>10, <1>11 DEF Listener

LEMMA NextTypeOK == TypeOK /\ [Next]_vars => TypeOK'
<1> SUFFICES ASSUME TypeOK, [Next]_vars PROVE TypeOK'
  OBVIOUS
<1>1. CASE UNCHANGED vars
  BY <1>1 DEF TypeOK, vars, chain_vars, indexer_vars, listener_vars
<1> QED
  BY <1>1, EnvironmentTypeOK, ExecutesTypeOK, ListenerTypeOK DEF Next

\* The state of the listener, of its queue and of the contract keep their types:
\* whatever raises, the listener is asleep or awaits one of its requests.
THEOREM TypeCorrect == Spec => []TypeOK
BY InitTypeOK, NextTypeOK, PTL DEF Spec
-----------------------------------------------------------------------------
(* The blocks that answers are computed from *)

\* A block that was not closed when the request was made.
Unknown(r, b) == Delay[r] > 0 => b >= block[r]

\* Whatever the listener knows of has been made, so that its block is fixed.
OnlyMade ==
  /\ \A r \in Requests : progress[r] # "none" => Made(r)
  /\ \A r \in queue \cup unindexed : Made(r)
  /\ \A tx \in mempool : \A call \in tx : Made(call.request)

\* The hashes in the hands of the listener, in its transactions, in the contract.
Seeds ==
  /\ block_number =< head
  /\ \A r \in Requests : progress[r] \in {"seeded", "answer"} => Unknown(r, seed[r])
  /\ \A tx \in mempool : \A call \in tx :
       call.kind = "answer" => Unknown(call.request, call.seed)
  /\ \A r \in Requests : status[r] = "FULFILLED" => Unknown(r, seed_used[r])

\* A transaction has one call for a request.
OneCallEach ==
  \A tx \in mempool : \A c, d \in tx : c.request = d.request => c = d

Inv == OnlyMade /\ Seeds /\ OneCallEach

LEMMA InitInv == Init => Inv
BY DEF Init, Inv, OnlyMade, Seeds, OneCallEach, Nothing, NoSeed

\* A new request is unknown to the listener, and the block of the others stays.
LEMMA EnvironmentInv ==
  ASSUME TypeOK, Inv, NextBlock \/ Users \/ Indexer
  PROVE  Inv'
<1> USE DEF TypeOK, Inv, OnlyMade, Seeds, OneCallEach, Unknown, Made
<1>1. CASE NextBlock
  BY <1>1 DEF NextBlock, indexer_vars, listener_vars
<1>2. ASSUME NEW r \in Requests, MakesRequest(r) PROVE Inv'
  <2>1. OnlyMade'
    BY <1>2 DEF MakesRequest, listener_vars
  <2>2. Seeds'
    BY <1>2 DEF MakesRequest, listener_vars
  <2>3. OneCallEach'
    BY <1>2 DEF MakesRequest
  <2> QED BY <2>1, <2>2, <2>3
<1>3. ASSUME NEW r \in Requests, Cancels(r) PROVE Inv'
  BY <1>3 DEF Cancels, indexer_vars, listener_vars
<1>4. ASSUME NEW r \in Requests, Delivers(r) PROVE Inv'
  BY <1>4 DEF Delivers, chain_vars, listener_vars
<1>5. CASE IndexerStops
  BY <1>5 DEF IndexerStops, chain_vars, listener_vars
<1> QED BY <1>1, <1>2, <1>3, <1>4, <1>5 DEF Users, Indexer

\* The contract stores the seed of the only call for the request.
LEMMA ExecutesInv ==
  ASSUME TypeOK, Inv, Executes
  PROVE  Inv'
<1>1. PICK tx \in mempool : Executes!(tx)
  BY DEF Executes
<1>2. ASSUME NEW r \in Answers(tx), Valid(tx), outcome' = "accepted"
      PROVE  Unknown(r, (CHOOSE call \in tx : call.request = r).seed)
  <2>1. PICK c \in tx : c.kind = "answer" /\ c.request = r
    BY DEF Answers
  <2>2. (CHOOSE call \in tx : call.request = r) = c
    BY <2>1 DEF Inv, OneCallEach
  <2> QED BY <2>1, <2>2 DEF Inv, Seeds
<1>3. CASE Valid(tx) /\ outcome' = "accepted"
  <2>1. \A r \in Requests : Made(r) => Made(r)'
    BY <1>1, <1>3 DEF Made, TypeOK
  <2>2. Seeds'
    <3>1. \A r \in Requests : status'[r] = "FULFILLED" => Unknown(r, seed_used'[r])
      BY <1>1, <1>2, <1>3 DEF TypeOK, Inv, Seeds
    <3> QED BY <1>1, <3>1 DEF Inv, Seeds, Unknown, listener_vars
  <2> QED
    BY <1>1, <2>1, <2>2 DEF TypeOK, Inv, OnlyMade, OneCallEach, indexer_vars, listener_vars
<1>4. CASE outcome' = "reverted"
  BY <1>1, <1>4 DEF Inv, OnlyMade, Seeds, OneCallEach, Unknown, Made, indexer_vars,
                    listener_vars
<1> QED BY <1>1, <1>3, <1>4

\* A hash is fetched for a request whose minimum block is the pending one at
\* most: the parent of the block it is taken from is the request's, or later.
LEMMA ListenerInv ==
  ASSUME TypeOK, Inv, Listener
  PROVE  Inv'
<1> USE DEF TypeOK, Inv, OnlyMade, Seeds, OneCallEach, Unknown, Made, chain_vars,
            indexer_vars, ListenerOnly, Goes, Returns, Sets, Nothing, NoSeed
<1>1. CASE Wakes
  BY <1>1 DEF Wakes, Taken
<1>2. CASE GetsBlockNumber
  BY <1>2 DEF GetsBlockNumber
<1>3. CASE IndexesItself
  BY <1>3 DEF IndexesItself, Recent
<1>4. ASSUME NEW r \in Requests, ReadsStatus(r) PROVE Inv'
  BY <1>4 DEF ReadsStatus
<1>5. CASE KeepsReceived
  BY <1>5 DEF KeepsReceived
<1>6. ASSUME NEW r \in Requests, FetchesHash(r) PROVE Inv'
  <2>1. ~TooEarly(r) => Unknown(r, SeedBlock(r))
    BY VrfAssumption DEF TooEarly, SeedBlock, MinimumBlock
  <2> QED BY <1>6, <2>1 DEF FetchesHash
<1>7. CASE ComputesAnswers
  BY <1>7 DEF ComputesAnswers
<1>8. ASSUME NEW r \in Requests, Estimates(r) PROVE Inv'
  BY <1>8 DEF Estimates
<1>9. CASE Sends
  BY <1>9 DEF Sends, Multicall, Call, At
<1>10. CASE SeesAccepted
  BY <1>10 DEF SeesAccepted
<1>11. CASE HandlingFails
  BY <1>11 DEF HandlingFails
<1> QED
  BY <1>1, <1>2, <1>3, <1>4, <1>5, <1>6, <1>7, <1>8, <1>9, <1>10, <1>11 DEF Listener

LEMMA NextInv == TypeOK /\ Inv /\ [Next]_vars => Inv'
<1> SUFFICES ASSUME TypeOK, Inv, [Next]_vars PROVE Inv'
  OBVIOUS
<1>1. CASE UNCHANGED vars
  BY <1>1 DEF Inv, OnlyMade, Seeds, OneCallEach, Unknown, Made, vars, chain_vars,
              indexer_vars, listener_vars
<1> QED BY <1>1, EnvironmentInv, ExecutesInv, ListenerInv DEF Next

\* The number that answers a request made with a delay comes from the hash of a
\* block that was still open when the request was made, for any delays, batches
\* and interleavings with the chain, in both modes of the listener.
THEOREM SeedsComeAfterRequests == Spec => []SeedAfterRequest
<1>1. Inv => SeedAfterRequest
  BY DEF Inv, Seeds, SeedAfterRequest, Unknown
<1> QED BY <1>1, InitInv, NextInv, TypeCorrect, PTL DEF Spec
=============================================================================
