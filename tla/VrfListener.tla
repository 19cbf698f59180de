----------------------------- MODULE VrfListener -----------------------------
(***************************************************************************)
(* The VRF listener (vrf-listener/vrf_listener) and the randomness mixin   *)
(* of the SDK (onchain/mixins/randomness.py): requests for random numbers  *)
(* made to a contract are answered, or refunded when the answer costs more *)
(* than what was paid for it.                                              *)
(*                                                                         *)
(* The listener learns of the requests from an indexer task, through a     *)
(* queue (--index-with-apibara), or reads the events of the last blocks itself. A batch *)
(* is answered in one transaction, whose calls succeed or fail together.   *)
(*                                                                         *)
(* The chain, the contract and the node are external.                      *)
(***************************************************************************)
EXTENDS Naturals, FiniteSets

CONSTANTS
  Requests,     \* the requests users make
  Delay,        \* publish_delay of each request
  Fees,         \* per request: what estimating the fee of its answer may give
  Threshold,    \* ignore_request_threshold
  Indexers,     \* with --index-with-apibara "runs", without it "none"
  MaxHead,      \* bound: blocks
  MaxFaults     \* bound: requests to the node that fail, or the indexer

\* A fee within callback_fee_limit, above it, or an estimation that raises. The
\* fees of a whitelisted caller are not looked at: they are always covered.
FeeAnswers == {"covered", "exceeded", "raises"}

ASSUME VrfAssumption ==
  /\ Delay \in [Requests -> Nat]
  /\ Fees \in [Requests -> SUBSET FeeAnswers]
  /\ Threshold \in Nat
  /\ Indexers \in SUBSET {"none", "runs"}
  /\ MaxHead \in Nat /\ MaxFaults \in Nat

VARIABLES
  head,          \* the latest block; the pending one comes after it
  status,        \* the status of each request in the contract
  block,         \* the block of each request
  seed_used,     \* the block whose hash an answered request was answered with
  mempool,       \* transactions the node has received and not executed
  outcome,       \* what the last transaction of the listener came to
  queue,         \* requests_queue: what was put and not taken, in any order
  unindexed,     \* requests the stream has not delivered
  indexer,       \* "none", or the state of its task
  pc,            \* where the listener awaits
  block_number,  \* handle_random's block_number
  processed,     \* processed_requests
  progress,      \* per request: how far handle_random is with it
  seed,          \* per request: the block whose hash was fetched for it
  faults         \* what has failed so far

chain_vars == <<head, status, block, seed_used, mempool, outcome>>
indexer_vars == <<queue, unindexed, indexer>>
listener_vars == <<pc, block_number, processed, progress, seed>>
vars == <<chain_vars, indexer_vars, listener_vars, faults>>

Made(r) == status[r] # "UNINITIALIZED"
MinimumBlock(r) == block[r] + Delay[r]
-----------------------------------------------------------------------------
Nothing == [r \in Requests |-> "none"]
NoSeed == [r \in Requests |-> 0]

Init ==
  /\ head = 1
  /\ status = [r \in Requests |-> "UNINITIALIZED"]
  /\ block = [r \in Requests |-> 0]
  /\ seed_used = NoSeed
  /\ mempool = {} /\ outcome = "none"
  /\ queue = {} /\ unindexed = {} /\ indexer \in Indexers
  /\ pc = "sleeping" /\ block_number = 0
  /\ processed = {} /\ progress = Nothing
  /\ seed = NoSeed
  /\ faults = 0
-----------------------------------------------------------------------------
(* The chain and its users *)

NextBlock ==
  /\ head < MaxHead
  /\ head' = head + 1
  /\ UNCHANGED <<status, block, seed_used, mempool, outcome, indexer_vars,
                 listener_vars, faults>>

\* A request enters the pending block.
MakesRequest(r) ==
  /\ ~Made(r)
  /\ status' = [status EXCEPT ![r] = "RECEIVED"]
  /\ block' = [block EXCEPT ![r] = head + 1]
  /\ unindexed' = unindexed \cup {r}
  /\ UNCHANGED <<head, seed_used, mempool, outcome, queue, indexer,
                 listener_vars, faults>>

\* cancel_random_request
Cancels(r) ==
  /\ status[r] = "RECEIVED"
  /\ status' = [status EXCEPT ![r] = "CANCELLED"]
  /\ UNCHANGED <<head, block, seed_used, mempool, outcome, indexer_vars,
                 listener_vars, faults>>

Fault == faults < MaxFaults /\ faults' = faults + 1

Answers(tx) == {call.request : call \in {c \in tx : c.kind = "answer"}}
Refunds(tx) == {call.request : call \in {c \in tx : c.kind = "refund"}}
Valid(tx) == \A call \in tx : status[call.request] = "RECEIVED"

\* The calls of a multicall take effect together, or none does: submit_random,
\* or update_status and refund_operation, of requests that are still RECEIVED.
Executes ==
  \E tx \in mempool :
    /\ mempool' = mempool \ {tx}
    /\ \/ /\ Valid(tx)
          /\ status' = [r \in Requests |->
                          IF r \in Answers(tx) THEN "FULFILLED"
                          ELSE IF r \in Refunds(tx) THEN "REFUNDED" ELSE status[r]]
          /\ seed_used' = [r \in Requests |->
                             IF r \in Answers(tx)
                             THEN (CHOOSE call \in tx : call.request = r).seed
                             ELSE seed_used[r]]
          /\ outcome' = "accepted"
          /\ UNCHANGED faults
       \/ /\ IF Valid(tx) THEN Fault ELSE UNCHANGED faults
          /\ outcome' = "reverted"
          /\ UNCHANGED <<status, seed_used>>
    /\ UNCHANGED <<head, block, indexer_vars, listener_vars>>
-----------------------------------------------------------------------------
(* The indexer task *)

\* Indexer.run_forever: the stream delivers every event, and again those of the
\* pending block as it grows and once it is accepted.
Delivers(r) ==
  /\ indexer = "runs"
  /\ r \in unindexed \/ (Made(r) /\ head =< block[r])
  /\ queue' = queue \cup {r}
  /\ unindexed' = unindexed \ {r}
  /\ UNCHANGED <<indexer, chain_vars, listener_vars, faults>>

\* The stream raises: nothing awaits the task that main has created.
IndexerStops ==
  /\ indexer = "runs" /\ Fault
  /\ indexer' = "stopped"
  /\ UNCHANGED <<queue, unindexed, chain_vars, listener_vars>>
-----------------------------------------------------------------------------
(* The listener *)

Goes(label) == pc' = label /\ UNCHANGED block_number

\* handle_random is over, and its variables with it.
Returns ==
  /\ pc' = "sleeping"
  /\ block_number' = 0 /\ progress' = Nothing /\ seed' = NoSeed

Sets(r, label) == progress' = [progress EXCEPT ![r] = label]
At(label) == {r \in Requests : progress[r] = label}
ListenerOnly == UNCHANGED <<chain_vars, indexer_vars>>

\* _consume_requests_queue: what was not taken before.
Taken == queue \ processed

\* Listener.run_forever up to its first request to the node.
Wakes ==
  /\ pc = "sleeping"
  /\ progress' = [r \in Requests |-> IF r \in Taken THEN "event" ELSE "none"]
  /\ processed' = processed \cup queue
  /\ queue' = {}
  /\ Goes("numbering")
  /\ UNCHANGED <<seed, unindexed, indexer, chain_vars, faults>>

\* handle_random: without an event there is nothing to do.
GetsBlockNumber ==
  /\ pc = "numbering"
  /\ IF indexer # "none" /\ At("event") = {}
     THEN Returns
     ELSE /\ pc' = IF indexer = "none" THEN "indexing" ELSE "statuses"
          /\ block_number' = head
          /\ UNCHANGED <<progress, seed>>
  /\ ListenerOnly /\ UNCHANGED <<processed, faults>>

\* _index_randomness_requests_events, from min_block to the pending block.
Recent == {r \in Requests : Made(r) /\ block[r] + Threshold >= block_number}

IndexesItself ==
  /\ pc = "indexing"
  /\ IF Recent = {}
     THEN Returns
     ELSE /\ progress' = [r \in Requests |-> IF r \in Recent THEN "event" ELSE "none"]
          /\ Goes("statuses") /\ UNCHANGED seed
  /\ ListenerOnly /\ UNCHANGED <<processed, faults>>

\* Requests of one gather are answered in any order, and things happen between.
ReadsStatus(r) ==
  /\ pc = "statuses" /\ progress[r] = "event"
  /\ Sets(r, IF status[r] = "RECEIVED" THEN "received" ELSE "none")
  /\ ListenerOnly /\ UNCHANGED <<pc, block_number, processed, seed, faults>>

\* Only the requests that were RECEIVED are kept.
KeepsReceived ==
  /\ pc = "statuses" /\ At("event") = {}
  /\ IF At("received") = {}
     THEN Returns
     ELSE Goes("hashes") /\ UNCHANGED <<progress, seed>>
  /\ ListenerOnly /\ UNCHANGED <<processed, faults>>

\* Variant: the pending block comes too early.
TooEarlyAtBound(r) == MinimumBlock(r) >= block_number + 1

\* get_block_hash: the bounds on the minimum block of a request.
TooEarly(r) == MinimumBlock(r) > block_number + 1
TooOld(r) == MinimumBlock(r) + Threshold < block_number

\* Variant: the pending block for the requests of the latest one.
SeedBlockSwapped(r) == IF MinimumBlock(r) = block_number + 1 THEN head - 1 ELSE head

\* The parent of the pending block, or of the latest one, as they are now.
SeedBlock(r) == IF MinimumBlock(r) = block_number + 1 THEN head ELSE head - 1

FetchesHash(r) ==
  /\ pc = "hashes" /\ progress[r] = "received"
  /\ IF TooEarly(r) \/ TooOld(r)
     THEN Sets(r, "none") /\ UNCHANGED seed
     ELSE Sets(r, "seeded") /\ seed' = [seed EXCEPT ![r] = SeedBlock(r)]
  /\ ListenerOnly /\ UNCHANGED <<pc, block_number, processed, faults>>

\* _compute_all_vrf_submit
ComputesAnswers ==
  /\ pc = "hashes" /\ At("received") = {}
  /\ Goes("estimating")
  /\ ListenerOnly /\ UNCHANGED <<processed, progress, seed, faults>>

\* _get_submit_or_refund_calls
Estimates(r) ==
  /\ pc = "estimating" /\ progress[r] = "seeded"
  /\ \/ "covered" \in Fees[r] /\ Sets(r, "answer")
     \/ "exceeded" \in Fees[r] /\ Sets(r, "refund")
  /\ ListenerOnly /\ UNCHANGED <<pc, block_number, processed, seed, faults>>

Call(r) == [request |-> r, kind |-> progress[r], seed |-> seed[r]]
Multicall == {Call(r) : r \in At("answer") \cup At("refund")}

\* submit_random_multicall, when every call is known. The node refuses the
\* nonce of a transaction that waits.
Sends ==
  /\ pc = "estimating" /\ At("seeded") = {}
  /\ mempool = {}
  /\ mempool' = {Multicall}
  /\ outcome' = "none"
  /\ Goes("waiting")
  /\ UNCHANGED <<head, status, block, seed_used, indexer_vars, processed, progress,
                 seed, faults>>

\* wait_for_tx
SeesAccepted ==
  /\ pc = "waiting" /\ outcome = "accepted"
  /\ Returns
  /\ ListenerOnly /\ UNCHANGED <<processed, faults>>

\* What ends handle_random with an exception: a request to the node fails, a fee
\* cannot be estimated, the transaction is refused or reverts.
Raises ==
  \/ pc # "sleeping" /\ Fault
  \/ /\ pc = "estimating"
     /\ \E r \in At("seeded") : "raises" \in Fees[r]
     /\ UNCHANGED faults
  \/ /\ pc = "estimating" /\ At("seeded") = {}
     /\ (mempool # {} \/ ~Valid(Multicall))
     /\ UNCHANGED faults
  \/ pc = "waiting" /\ outcome = "reverted" /\ UNCHANGED faults

\* Variant: the exception is not caught.
HandlingFailsForGood ==
  /\ Raises
  /\ Goes("dead")
  /\ ListenerOnly /\ UNCHANGED <<processed, progress, seed>>

\* run_forever logs it and forgets what was processed, not what was taken.
HandlingFails ==
  /\ Raises
  /\ processed' = {}
  /\ Returns
  /\ ListenerOnly

Listener ==
  \/ Wakes \/ GetsBlockNumber \/ IndexesItself \/ KeepsReceived
  \/ ComputesAnswers \/ Sends \/ SeesAccepted \/ HandlingFails
  \/ \E r \in Requests : ReadsStatus(r) \/ FetchesHash(r) \/ Estimates(r)

Users == \E r \in Requests : MakesRequest(r) \/ Cancels(r)

Indexer == IndexerStops \/ \E r \in Requests : Delivers(r)

Next == NextBlock \/ Users \/ Executes \/ Indexer \/ Listener

Spec == Init /\ [][Next]_vars

\* The event loop runs the listener, its requests to the node end, the stream
\* delivers and the chain executes what it has received.
Fairness ==
  /\ WF_vars(Listener)
  /\ WF_vars(Executes)
  /\ \A r \in Requests : WF_vars(r \in unindexed /\ Delivers(r))

FairSpec == Spec /\ Fairness
-----------------------------------------------------------------------------
(* Properties *)

TypeOK ==
  /\ head \in Nat \ {0}
  /\ status \in [Requests -> {"UNINITIALIZED", "RECEIVED", "FULFILLED", "CANCELLED", "REFUNDED"}]
  /\ block \in [Requests -> Nat]
  /\ seed_used \in [Requests -> Nat]
  /\ mempool \in SUBSET SUBSET [request : Requests, kind : {"answer", "refund"}, seed : Nat]
  /\ outcome \in {"none", "accepted", "reverted"}
  /\ queue \in SUBSET Requests /\ unindexed \in SUBSET Requests
  /\ indexer \in {"none", "runs", "stopped"}
  /\ pc \in {"sleeping", "numbering", "indexing", "statuses", "hashes", "estimating", "waiting"}
  /\ block_number \in Nat
  /\ processed \in SUBSET Requests
  /\ progress \in [Requests -> {"none", "event", "received", "seeded", "answer", "refund"}]
  /\ seed \in [Requests -> Nat]
  /\ faults \in Nat

\* The point of publish_delay: nobody can know the number when it is asked for.
\* An answer is computed from the hash of a block that was not closed yet when
\* the request was made, however the chain grows between the requests for the
\* block number, for the statuses and for the blocks (get_block_hash).
SeedAfterRequest ==
  \A r \in Requests :
    status[r] = "FULFILLED" /\ Delay[r] > 0 => seed_used[r] >= block[r]

\* A request that is not too old nor too early for the listener.
InWindow(r) ==
  /\ status[r] = "RECEIVED"
  /\ MinimumBlock(r) =< head + 1 /\ MinimumBlock(r) + Threshold >= head
  /\ block[r] + Threshold >= head

Blocks(r) == InWindow(r) /\ "raises" \in Fees[r]

\* "Will submit randomness for requests that are not too old and have not been
\* handled yet" (handle_random): a request that stays RECEIVED and in the window
\* is settled, whatever fails now and then, unless another one of the window
\* makes the estimation of the whole batch raise.
DueIsSettled ==
  \A r \in Requests : []<>(~InWindow(r) \/ \E q \in Requests : Blocks(q))

\* So it is when the listener reads the events itself.
PolledIsSettled == indexer = "none" => DueIsSettled
=============================================================================
