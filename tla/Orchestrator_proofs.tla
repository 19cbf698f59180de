------------------------ MODULE Orchestrator_proofs ------------------------
(***************************************************************************)
(* Proofs about the price pusher process, for any listeners, assets,       *)
(* sources, prices and limits: its types, the accounting of the push       *)
(* queue, the order in which prices reach the oracle, what makes a         *)
(* listener notify, and that it implements Delivery.                       *)
(***************************************************************************)
EXTENDS Orchestrator, PriceChecks_proofs

\* What the steps of the handlers and of the pusher keep true together.
Pipeline ==
  /\ pusher = "idle" <=> in_flight = {}
  /\ \A item1, item2 \in in_flight : item1 = item2
  /\ QueueAccounting
  /\ \A l \in Listeners : handler[l] # "waiting" => notification_event[l]

\* The order of the entries of a key, from the oracle back to the poller: what
\* is behind is newer.  Only a batch that is retried may meet itself in the
\* oracle, hence =< up to the batch in flight.
Ordered(k) ==
  /\ chain[k].ts =< clock
  /\ unaccepted[k].ts =< clock
  /\ latest_prices[k].ts =< clock
  /\ \A i \in 1..Len(push_queue) : push_queue[i].entries[k].ts =< clock
  /\ \A item \in in_flight : item.entries[k].ts =< clock
  /\ Present(unaccepted[k]) => chain[k].ts =< unaccepted[k].ts
  /\ \A item \in in_flight :
       Present(item.entries[k]) => /\ chain[k].ts =< item.entries[k].ts
                                   /\ unaccepted[k].ts =< item.entries[k].ts
  /\ \A i \in 1..Len(push_queue) :
       Present(push_queue[i].entries[k]) =>
         /\ chain[k].ts < push_queue[i].entries[k].ts
         /\ unaccepted[k].ts < push_queue[i].entries[k].ts
         /\ \A item \in in_flight : item.entries[k].ts < push_queue[i].entries[k].ts
         /\ \A j \in 1..(i - 1) : push_queue[j].entries[k].ts < push_queue[i].entries[k].ts
  /\ Present(latest_prices[k]) =>
       /\ chain[k].ts < latest_prices[k].ts
       /\ unaccepted[k].ts < latest_prices[k].ts
       /\ \A item \in in_flight : item.entries[k].ts < latest_prices[k].ts
       /\ \A i \in 1..Len(push_queue) : push_queue[i].entries[k].ts < latest_prices[k].ts

Order == \A k \in Keys : Ordered(k)
-----------------------------------------------------------------------------
(* Types *)

\* No entry is an entry, and no batch a batch of none.
LEMMA NothingType == NoEntry \in Entry /\ NoBatch \in Batch
BY DEF NoEntry, Entry, NoBatch, Batch

\* Parts and updates of batches are batches: what the flush takes and leaves,
\* the filter of the poller, the update of the latest prices and of the oracle.
LEMMA BatchType ==
  ASSUME NEW batch \in Batch, NEW new \in Batch, NEW K
  PROVE  /\ Only(batch, K) \in Batch
         /\ Without(batch, K) \in Batch
         /\ Update(batch, new) \in Batch
         /\ Filter(batch) \in Batch
BY NothingType DEF Batch, Only, Without, Update, Filter

\* What a fetch returns is a batch.
LEMMA FetchResultsType ==
  ASSUME clock \in Nat
  PROVE  FetchResults \subseteq Batch
<1>1. \A p \in Prices : [price |-> p, ts |-> clock + 1] \in Entry
  BY OrchestratorAssumption DEF Entry
<1> QED BY <1>1, NothingType DEF FetchResults, Batch

\* What the oracle answers is an entry: the median and the newest timestamp of
\* the sources it reads are defined (OracleMixin.get_spot).
LEMMA ChainAnswerType ==
  ASSUME chain \in Batch, NEW a \in Assets, NEW S
  PROVE  ChainAnswer(a, S) \in Entry
<1> DEFINE read == PerpSources(chain, a) \cap (IF S = {} THEN Sources ELSE S)
           entries == PerpEntries(chain, a)
<1>1. CASE read = {}
  BY <1>1, NothingType DEF ChainAnswer, Requested
<1>2. CASE read # {}
  <2>1. IsFiniteSet(read)
    BY OrchestratorAssumption, FS_Subset DEF PerpSources
  <2>2. \A s \in read : entries[s].price \in Nat /\ entries[s].ts \in Nat
    <3>1. \A s \in read : <<a, s, Perp>> \in Keys
      BY OrchestratorAssumption DEF PerpSources, Keys
    <3> QED BY <3>1 DEF PerpEntries, PerpSources, Batch, Entry
  <2>3. Median2(entries, read) \in Nat /\ NewestTs(entries, read) \in Nat
    <3> HIDE DEF read, entries
    <3> QED BY <1>2, <2>1, <2>2, MedianIsBetweenPrices, NewestTsIsNewest
  <2>4. Aggregated(entries, read) \in Entry
    <3> HIDE DEF read, entries
    <3> QED BY <2>3 DEF Entry, Aggregated
  <2> QED BY <1>2, <2>4 DEF ChainAnswer, Requested
<1> QED BY <1>1, <1>2

\* The checks of a listener return, whatever they find.
LEMMA DecisionType ==
  ASSUME NEW l \in Listeners, NEW cache
  PROVE  Decision(l, cache) \in Outcomes \cup {"empty_oracle"}
<1>1. \A a : CheckOf(cache, a) \in Outcomes
  BY DEF CheckOf, CheckAsset, Outcomes
<1> QED BY <1>1 DEF Decision, Outcomes

\* An idle process with empty queues has its types.
LEMMA InitTypeOK == Init => TypeOK
<1> SUFFICES ASSUME Init PROVE TypeOK
  OBVIOUS
<1>1. answer \in [Listeners -> [Assets -> Entry]] /\ oracle_prices \in [Listeners -> [Assets -> Entry]]
  BY NothingType DEF Init, ProcessInit
<1>2. push_queue \in Seq(Item) /\ in_flight \in SUBSET Item
  BY DEF Init, ProcessInit
<1>3. latest_prices \in Batch /\ chain \in Batch /\ unaccepted \in Batch
  BY NothingType DEF Init, ProcessInit
<1>4. consecutive_push_error \in 0..PushLimit
  BY OrchestratorAssumption DEF Init, ProcessInit
<1> QED BY <1>1, <1>2, <1>3, <1>4 DEF Init, ProcessInit, TypeOK

\* A poll leaves batches in latest_prices, or nothing (PricePoller.poll_prices).
LEMMA PollerTypeOK == TypeOK /\ PollerStep => TypeOK'
<1> SUFFICES ASSUME TypeOK, PollerStep PROVE TypeOK'
  OBVIOUS
<1> DEFINE Polled(entries) == CallbackUpdatePrices(entries) /\ clock' = clock + 1
<1>1. ASSUME NEW entries \in Batch, Polled(entries)
      PROVE  /\ clock' \in Nat /\ last_polled_entries' \in Nat
             /\ polled' \in BOOLEAN /\ latest_prices' \in Batch
  <2>1. clock' \in Nat /\ last_polled_entries' \in Nat
    BY <1>1 DEF TypeOK, CallbackUpdatePrices
  <2>2. polled' \in BOOLEAN
    BY <1>1 DEF CallbackUpdatePrices
  <2>3. latest_prices' \in Batch
    BY <1>1, BatchType DEF TypeOK, CallbackUpdatePrices
  <2> QED BY <2>1, <2>2, <2>3
<1>2. CASE PollSucceeds
  <2>1. PICK entries \in FetchResults : CallbackUpdatePrices(Filter(entries))
    BY <1>2 DEF PollSucceeds
  <2>2. Filter(entries) \in Batch /\ Polled(Filter(entries))
    BY <1>2, <2>1, FetchResultsType, BatchType DEF PollSucceeds, TypeOK
  <2> HIDE DEF Polled
  <2> QED BY <1>1, <1>2, <2>2 DEF PollSucceeds, PollerStep, TypeOK, miden_vars, queue_vars,
        fetch_vars, listener_vars, pusher_vars, chain_vars
<1>3. CASE PollFails
  BY <1>3 DEF PollFails, PollerStep, TypeOK, miden_vars, queue_vars, fetch_vars, listener_vars,
        pusher_vars, chain_vars
<1>4. CASE RetryEnds
  <2>1. CASE \E entries \in FetchResults : Polled(entries) /\ poller' = "polling"
                                           /\ UNCHANGED crashed
    <3>1. PICK entries \in FetchResults : Polled(entries) /\ poller' = "polling"
                                           /\ UNCHANGED crashed
      BY <2>1
    <3>2. entries \in Batch
      BY FetchResultsType DEF TypeOK
    <3> HIDE DEF Polled
    <3> QED BY <1>1, <3>1, <3>2 DEF PollerStep, TypeOK, miden_vars, queue_vars, fetch_vars,
          listener_vars, pusher_vars, chain_vars
  <2>2. CASE crashed' = "poller" /\ UNCHANGED <<poller_vars, latest_prices>>
    BY <2>2 DEF PollerStep, TypeOK, poller_vars, miden_vars, queue_vars, fetch_vars, listener_vars,
          pusher_vars, chain_vars
  <2> QED BY <1>4, <2>1, <2>2 DEF RetryEnds
<1> QED BY <1>2, <1>3, <1>4 DEF PollerStep

\* The checks only set the notification and count (PriceListener).
LEMMA ChecksTypeOK ==
  ASSUME TypeOK, NEW l \in Listeners, NEW cache, ChecksAndSleeps(l, cache)
  PROVE  /\ notification_event' \in [Listeners -> BOOLEAN]
         /\ fetched' \in [Listeners -> BOOLEAN]
         /\ consecutive_empty_oracle_error' \in [Listeners -> Nat]
         /\ crashed' \in {"no", "poller", "empty_oracle", "push_errors"} \cup Outcomes
<1>1. fetched' \in [Listeners -> BOOLEAN]
  BY DEF ChecksAndSleeps, FetchedAfter, TypeOK
<1>2. notification_event' \in [Listeners -> BOOLEAN]
  BY DEF ChecksAndSleeps, TypeOK
<1>3. consecutive_empty_oracle_error' \in [Listeners -> Nat]
  BY DEF ChecksAndSleeps, TypeOK
<1>4. crashed' \in {"no", "poller", "empty_oracle", "push_errors"} \cup Outcomes
  BY DecisionType DEF ChecksAndSleeps, TypeOK
<1> QED BY <1>1, <1>2, <1>3, <1>4

\* A check, with or without a fetch of the oracle, keeps the types.
LEMMA ListenerTypeOK ==
  ASSUME TypeOK, NEW l \in Listeners, ListenerStep(l)
  PROVE  TypeOK'
<1> USE DEF ListenerStep, poller_vars, miden_vars, queue_vars, fetch_vars, pusher_vars, chain_vars
<1>1. CASE ListenerUsesCache(l)
  <2>1. ChecksAndSleeps(l, oracle_prices[l])
    BY <1>1 DEF ListenerUsesCache
  <2> QED BY <1>1, <2>1, ChecksTypeOK DEF ListenerUsesCache, TypeOK
<1>2. CASE ListenerStartsFetch(l)
  <2>1. listener' \in [Listeners -> {"asleep", "fetching"}]
    BY <1>2 DEF ListenerStartsFetch, TypeOK
  <2>2. asked' \in [Listeners -> [Assets -> SUBSET Sources]]
    <3>1. \A a \in Assets : SourcesOf(latest_prices, a) \subseteq Sources
      BY DEF SourcesOf
    <3> QED BY <1>2, <3>1 DEF ListenerStartsFetch, TypeOK
  <2>3. awaited' \in [Listeners -> SUBSET Assets]
    BY <1>2 DEF ListenerStartsFetch, TypeOK
  <2> QED BY <1>2, <2>1, <2>2, <2>3 DEF ListenerStartsFetch, TypeOK
<1>3. ASSUME NEW a \in Assets, OracleResponds(l, a)
      PROVE  TypeOK'
  <2>1. PICK e \in Entry : answer' = [answer EXCEPT ![l][a] = e]
    BY <1>3, ChainAnswerType, NothingType DEF OracleResponds, TypeOK
  <2>2. answer' \in [Listeners -> [Assets -> Entry]]
    BY <2>1 DEF TypeOK
  <2>3. awaited' \in [Listeners -> SUBSET Assets]
    BY <1>3 DEF OracleResponds, TypeOK
  <2> QED BY <1>3, <2>2, <2>3 DEF OracleResponds, TypeOK
<1>4. CASE ListenerEndsFetch(l)
  <2> DEFINE cache == [a \in Assets |-> IF Present(answer[l][a]) THEN answer[l][a]
                                                              ELSE oracle_prices[l][a]]
  <2>1. cache \in [Assets -> Entry]
    BY DEF TypeOK
  <2>2. ChecksAndSleeps(l, cache)
    BY <1>4 DEF ListenerEndsFetch
  <2>3. oracle_prices' \in [Listeners -> [Assets -> Entry]]
    BY <1>4, <2>1 DEF ListenerEndsFetch, TypeOK
  <2>4. listener' \in [Listeners -> {"asleep", "fetching"}]
    BY <1>4 DEF ListenerEndsFetch, TypeOK
  <2>5. asked' \in [Listeners -> [Assets -> SUBSET Sources]]
    BY <1>4 DEF ListenerEndsFetch, TypeOK
  <2>6. answer' \in [Listeners -> [Assets -> Entry]]
    BY <1>4, NothingType DEF ListenerEndsFetch, TypeOK
  <2>7. unseen' \in [Listeners -> Batch]
    <3>1. Only(unseen[l], Missed(l)) \in Batch
      BY BatchType DEF TypeOK
    <3> QED BY <1>4, <3>1 DEF ListenerEndsFetch, TypeOK
  <2> HIDE DEF cache
  <2> QED BY <1>4, <2>2, <2>3, <2>4, <2>5, <2>6, <2>7, ChecksTypeOK
          DEF ListenerEndsFetch, TypeOK
<1> QED BY <1>1, <1>2, <1>3, <1>4

\* A flush queues a batch of the owner and takes its entries from
\* latest_prices (Orchestrator.flush_entries_for_assets).
LEMMA HandlerTypeOK ==
  ASSUME TypeOK, NEW l \in Listeners, HandlerStep(l)
  PROVE  TypeOK'
<1> USE DEF HandlerStep, poller_vars, miden_vars, queue_vars, fetch_vars, listener_vars,
            pusher_vars, chain_vars
<1>1. CASE HandlerFlushes(l)
  <2>1. latest_prices' \in Batch
    BY <1>1, BatchType DEF HandlerFlushes, FlushLeaves, TypeOK
  <2>2. handler' \in [Listeners -> {"waiting", "joining", "released"}]
    BY <1>1 DEF HandlerFlushes, TypeOK
  <2>3. notification_event' \in [Listeners -> BOOLEAN]
    BY <1>1 DEF HandlerFlushes, TypeOK
  <2>4. unfinished_tasks' \in Nat
    BY <1>1 DEF HandlerFlushes, TypeOK
  <2>5. push_queue' \in Seq(Item)
    <3> DEFINE item == [owner |-> l, entries |-> Only(latest_prices, Flushed(l))]
    <3>1. item \in Item
      BY BatchType DEF Item, TypeOK
    <3>2. push_queue' = Append(push_queue, item) \/ push_queue' = push_queue
      BY <1>1 DEF HandlerFlushes, Put
    <3>3. push_queue \in Seq(Item)
      BY DEF TypeOK
    <3> HIDE DEF item
    <3> QED BY <3>1, <3>2, <3>3
  <2> QED BY <1>1, <2>1, <2>2, <2>3, <2>4, <2>5 DEF TypeOK
<1>2. CASE HandlerClears(l)
  BY <1>2 DEF HandlerClears, TypeOK
<1> QED BY <1>1, <1>2

\* The pusher task takes, publishes and drops batches.
LEMMA PusherTypeOK ==
  ASSUME TypeOK, Pipeline, PusherStep
  PROVE  TypeOK'
<1> USE DEF PusherStep, poller_vars, miden_vars, queue_vars, fetch_vars, listener_vars
<1>1. CASE PusherGets
  <2>1. Head(push_queue) \in Item /\ push_queue' \in Seq(Item)
    BY <1>1 DEF PusherGets, TypeOK
  <2>2. unaccepted' \in Batch /\ in_flight' \in SUBSET Item
    <3>1. Head(push_queue).entries \in Batch /\ unaccepted \in Batch
      BY <2>1 DEF Item, TypeOK
    <3> QED BY <1>1, <2>1, <3>1, BatchType DEF PusherGets, Send
  <2> QED BY <1>1, <2>1, <2>2 DEF PusherGets, TypeOK
<1>2. CASE PublishSucceeds
  <2>1. PICK item \in in_flight :
          unseen' = [unseen EXCEPT ![item.owner] = Update(@, item.entries)]
    BY <1>2 DEF PublishSucceeds
  <2>2. item.owner \in Listeners /\ item.entries \in Batch
    BY DEF TypeOK, Item
  <2>3. Update(unseen[item.owner], item.entries) \in Batch
    BY <2>2, BatchType DEF TypeOK
  <2>4. unseen' \in [Listeners -> Batch]
    BY <2>1, <2>2, <2>3 DEF TypeOK
  <2> QED BY <1>2, <2>4 DEF PublishSucceeds, TypeOK
<1>3. ASSUME pusher # "idle", TaskDone
      PROVE  /\ unfinished_tasks' \in Nat /\ in_flight' \in SUBSET Item
             /\ handler' \in [Listeners -> {"waiting", "joining", "released"}]
             /\ pusher' \in {"idle", "publishing", "settling"}
  <2>1. unfinished_tasks' \in Nat
    BY <1>3 DEF TaskDone, Pipeline, QueueAccounting, TypeOK
  <2>2. handler' \in [Listeners -> {"waiting", "joining", "released"}]
    BY <1>3 DEF TaskDone, Released, TypeOK
  <2> QED BY <1>3, <2>1, <2>2 DEF TaskDone
<1>4. CountPushError => consecutive_push_error' \in 0..PushLimit
  BY OrchestratorAssumption DEF CountPushError, TypeOK
<1>5. CASE PusherSettles
  BY <1>3, <1>5, OrchestratorAssumption DEF PusherSettles, TypeOK
<1>6. CASE PublishFails
  BY <1>3, <1>4, <1>6 DEF PublishFails, TypeOK
<1>7. CASE PublishRetries
  <2>1. unaccepted' \in Batch
    <3>1. unaccepted \in Batch /\ \A item \in in_flight : item.entries \in Batch
      BY DEF TypeOK, Item
    <3> QED BY <1>7, <3>1, BatchType DEF PublishRetries, Send
  <2> QED BY <1>4, <1>7, <2>1 DEF PublishRetries, TypeOK
<1> QED BY <1>1, <1>2, <1>5, <1>6, <1>7

\* The publication to Miden touches neither the queue nor Starknet.
LEMMA MidenTypeOK == TypeOK /\ MidenStep => TypeOK'
BY DEF MidenStep, MidenStarts, MidenAccepts, MidenFails, TypeOK, poller_vars, queue_vars,
       fetch_vars, listener_vars, pusher_vars, chain_vars

\* A transaction that is accepted writes entries of its batch.
LEMMA ChainTypeOK == TypeOK /\ ChainAccepts => TypeOK'
<1> SUFFICES ASSUME TypeOK, ChainAccepts PROVE TypeOK'
  OBVIOUS
<1>1. PICK K : /\ chain' = Update(chain, Only(unaccepted, K))
               /\ unaccepted' = Without(unaccepted, K)
  BY DEF ChainAccepts
<1>2. chain' \in Batch /\ unaccepted' \in Batch
  BY <1>1, BatchType DEF TypeOK
<1> QED BY <1>2 DEF ChainAccepts, TypeOK, poller_vars, miden_vars, queue_vars, fetch_vars,
          listener_vars, pusher_vars

\* A new process has the types of the first.
LEMMA RestartTypeOK == TypeOK /\ Restart => TypeOK'
<1> SUFFICES ASSUME TypeOK, Restart PROVE TypeOK'
  OBVIOUS
<1>1. answer' \in [Listeners -> [Assets -> Entry]] /\ oracle_prices' \in [Listeners -> [Assets -> Entry]]
  BY NothingType DEF Restart
<1>2. push_queue' \in Seq(Item) /\ in_flight' \in SUBSET Item
  BY DEF Restart
<1>3. latest_prices' \in Batch
  BY NothingType DEF Restart
<1>4. consecutive_push_error' \in 0..PushLimit
  BY OrchestratorAssumption DEF Restart
<1>5. /\ asked' \in [Listeners -> [Assets -> SUBSET Sources]]
      /\ awaited' \in [Listeners -> SUBSET Assets]
  BY DEF Restart
<1>6. /\ notification_event' \in [Listeners -> BOOLEAN]
      /\ fetched' \in [Listeners -> BOOLEAN]
      /\ handler' \in [Listeners -> {"waiting", "joining", "released"}]
      /\ listener' \in [Listeners -> {"asleep", "fetching"}]
      /\ consecutive_empty_oracle_error' \in [Listeners -> Nat]
  BY DEF Restart
<1>7. /\ clock' \in Nat /\ miden_feed' \in Nat /\ restarts' \in Nat
      /\ chain' \in Batch /\ unaccepted' \in Batch
  BY DEF Restart, TypeOK, chain_vars
<1>8. /\ poller' \in {"polling", "retrying"} /\ polled' \in BOOLEAN
      /\ last_polled_entries' \in Nat /\ unfinished_tasks' \in Nat
      /\ pusher' \in {"idle", "publishing", "settling"}
      /\ crashed' = "no"
  BY DEF Restart
<1>9. miden_batch' \in Nat /\ unseen' \in [Listeners -> Batch]
  BY NothingType DEF Restart
<1> QED BY <1>1, <1>2, <1>3, <1>4, <1>5, <1>6, <1>7, <1>8, <1>9 DEF TypeOK
-----------------------------------------------------------------------------
(* The queue *)

\* Nothing is queued or awaited at the start.
LEMMA InitPipeline == Init => Pipeline
BY DEF Init, ProcessInit, Pipeline, QueueAccounting, Outstanding

\* What the queue becomes when a batch is put, and when one is taken.
LEMMA QueueContents ==
  ASSUME NEW queue \in Seq(Item), NEW item \in Item
  PROVE  /\ Append(queue, item) \in Seq(Item)
         /\ Len(Append(queue, item)) = Len(queue) + 1
         /\ Append(queue, item)[Len(queue) + 1] = item
         /\ \A i \in 1..Len(queue) : Append(queue, item)[i] = queue[i]
         /\ queue # <<>> =>
              /\ Len(queue) > 0
              /\ Head(queue) = queue[1]
              /\ Tail(queue) \in Seq(Item)
              /\ Len(Tail(queue)) = Len(queue) - 1
              /\ \A i \in 1..(Len(queue) - 1) : Tail(queue)[i] = queue[i + 1]
OBVIOUS

\* A step that leaves the queue, the pusher and the handlers alone, and clears
\* no notification.
LEMMA PipelineFrame ==
  ASSUME Pipeline,
         UNCHANGED <<queue_vars, handler, pusher, in_flight>>,
         \A l \in Listeners : notification_event[l] => notification_event'[l]
  PROVE  Pipeline'
BY DEF Pipeline, QueueAccounting, Outstanding, queue_vars

\* A listener sets its notification and never clears it.
LEMMA ListenerPipeline ==
  ASSUME TypeOK, Pipeline, NEW l \in Listeners, ListenerStep(l)
  PROVE  Pipeline'
<1>1. \A m \in Listeners : notification_event[m] => notification_event'[m]
  BY DEF ListenerStep, ListenerUsesCache, ListenerStartsFetch, OracleResponds,
         ListenerEndsFetch, ChecksAndSleeps, TypeOK
<1> QED BY <1>1, PipelineFrame DEF ListenerStep, pusher_vars

\* A handler that waits has a batch outstanding; one that does not wait
\* may clear its notification.
LEMMA HandlerPipeline ==
  ASSUME TypeOK, Pipeline, NEW l \in Listeners, HandlerStep(l)
  PROVE  Pipeline'
<1>1. UNCHANGED <<pusher, in_flight>>
  BY DEF HandlerStep, pusher_vars
<1>2. CASE HandlerFlushes(l) /\ Flushed(l) # {}
  <2> DEFINE item == [owner |-> l, entries |-> Only(latest_prices, Flushed(l))]
  <2>1. /\ push_queue' = Append(push_queue, item)
        /\ unfinished_tasks' = unfinished_tasks + 1
        /\ handler' = [handler EXCEPT ![l] = "joining"]
        /\ UNCHANGED notification_event
        /\ notification_event[l]
    BY <1>2 DEF HandlerFlushes, Put
  <2>2. item \in Item /\ item.owner = l
    BY BatchType DEF Item, TypeOK
  <2> HIDE DEF item
  <2>3. Len(push_queue') = Len(push_queue) + 1 /\ Len(push_queue) \in Nat
    BY <2>1, <2>2, QueueContents DEF TypeOK
  <2>4. \A x \in Outstanding' : x \in Outstanding \/ x = item
    BY <1>1, <2>1, <2>2, <2>3, QueueContents DEF TypeOK, Outstanding
  <2>5. \A x \in Outstanding' : handler'[x.owner] = "joining"
    <3>1. \A x \in Outstanding' : x = item \/ handler[x.owner] = "joining"
      BY <2>4 DEF Pipeline, QueueAccounting
    <3> QED BY <2>1, <2>2, <3>1 DEF TypeOK
  <2>6. unfinished_tasks' = Len(push_queue') + (IF pusher' = "idle" THEN 0 ELSE 1)
    BY <1>1, <2>1, <2>3 DEF Pipeline, QueueAccounting
  <2>7. unfinished_tasks' > 0
    BY <2>1 DEF TypeOK
  <2>8. \A m \in Listeners : handler'[m] # "waiting" => notification_event'[m]
    BY <2>1 DEF Pipeline, TypeOK
  <2> QED BY <1>1, <2>5, <2>6, <2>7, <2>8 DEF Pipeline, QueueAccounting
<1>3. CASE HandlerFlushes(l) /\ Flushed(l) = {}
  <2>1. /\ handler[l] = "waiting"
        /\ notification_event' = [notification_event EXCEPT ![l] = FALSE]
        /\ UNCHANGED <<push_queue, unfinished_tasks, handler>>
    BY <1>3 DEF HandlerFlushes, queue_vars
  <2>2. QueueAccounting'
    BY <1>1, <2>1 DEF Pipeline, QueueAccounting, Outstanding
  <2>3. \A m \in Listeners : handler'[m] # "waiting" => notification_event'[m]
    BY <2>1 DEF Pipeline, TypeOK
  <2> QED BY <1>1, <2>2, <2>3 DEF Pipeline
<1>4. CASE HandlerClears(l)
  <2>1. /\ handler[l] = "released"
        /\ handler' = [handler EXCEPT ![l] = "waiting"]
        /\ notification_event' = [notification_event EXCEPT ![l] = FALSE]
        /\ UNCHANGED <<push_queue, unfinished_tasks>>
    BY <1>4 DEF HandlerClears, queue_vars
  <2>2. Outstanding' = Outstanding
    BY <1>1, <2>1 DEF Outstanding
  <2>3. \A item \in Outstanding : handler[item.owner] = "joining"
    BY DEF Pipeline, QueueAccounting
  <2>4. \A item \in Outstanding' : handler'[item.owner] = "joining"
    BY <2>1, <2>2, <2>3 DEF TypeOK
  <2>5. \A m \in Listeners : handler'[m] # "waiting" => notification_event'[m]
    BY <2>1 DEF Pipeline, TypeOK
  <2>6. \A m \in Listeners : handler'[m] = "joining" => unfinished_tasks' > 0
    BY <2>1 DEF Pipeline, QueueAccounting, TypeOK
  <2>7. unfinished_tasks' = Len(push_queue') + (IF pusher' = "idle" THEN 0 ELSE 1)
    BY <1>1, <2>1 DEF Pipeline, QueueAccounting
  <2> QED BY <1>1, <2>4, <2>5, <2>6, <2>7 DEF Pipeline, QueueAccounting
<1> QED BY <1>2, <1>3, <1>4 DEF HandlerStep

\* The end of a batch wakes the joiners when no batch is left, and only then.
LEMMA TaskDonePipeline ==
  ASSUME TypeOK, Pipeline, pusher # "idle", TaskDone,
         UNCHANGED <<push_queue, notification_event>>
  PROVE  Pipeline'
<1>1. unfinished_tasks = Len(push_queue) + 1 /\ Len(push_queue) \in Nat
  BY DEF Pipeline, QueueAccounting, TypeOK
<1>2. unfinished_tasks' = Len(push_queue')
  BY <1>1 DEF TaskDone
<1>3. pusher' = "idle" /\ in_flight' = {}
  BY DEF TaskDone
<1>4. \A l \in Listeners : handler'[l] = "joining" => unfinished_tasks' > 0
  BY <1>1, <1>2 DEF TaskDone, Released
<1>5. \A item \in Outstanding' : handler'[item.owner] = "joining"
  <2>1. SUFFICES ASSUME NEW item \in Outstanding' PROVE handler'[item.owner] = "joining"
    OBVIOUS
  <2>2. PICK i \in 1..Len(push_queue) : item = push_queue[i]
    BY <2>1, <1>3 DEF Outstanding
  <2>3. item.owner \in Listeners /\ handler[item.owner] = "joining"
    <3>1. push_queue \in Seq(Item)
      BY DEF TypeOK
    <3>2. item \in Item
      BY <2>2, <3>1
    <3>3. handler[item.owner] = "joining"
      BY <2>2 DEF Pipeline, QueueAccounting, Outstanding
    <3> QED BY <3>2, <3>3 DEF Item
  <2>4. unfinished_tasks # 1
    BY <1>1, <2>2
  <2> QED BY <2>3, <2>4 DEF TaskDone, Released
<1>6. \A l \in Listeners : handler'[l] # "waiting" => notification_event'[l]
  BY DEF TaskDone, Released, Pipeline
<1> QED BY <1>2, <1>3, <1>4, <1>5, <1>6 DEF Pipeline, QueueAccounting

\* The pusher counts down each batch once, when it is done with it.
LEMMA PusherPipeline ==
  ASSUME TypeOK, Pipeline, PusherStep
  PROVE  Pipeline'
<1>1. UNCHANGED notification_event
  BY DEF PusherStep
<1>2. CASE PusherGets
  <2>1. /\ Len(push_queue') = Len(push_queue) - 1 /\ Len(push_queue) \in Nat
        /\ Head(push_queue) = push_queue[1] /\ Len(push_queue) > 0
        /\ \A i \in 1..(Len(push_queue) - 1) : push_queue'[i] = push_queue[i + 1]
    BY <1>2, QueueContents DEF PusherGets, Send, TypeOK
  <2>2. Outstanding' \subseteq Outstanding
    BY <1>2, <2>1 DEF PusherGets, Outstanding
  <2>3. unfinished_tasks' = Len(push_queue') + (IF pusher' = "idle" THEN 0 ELSE 1)
    BY <1>2, <2>1 DEF PusherGets, Pipeline, QueueAccounting
  <2>4. \A item \in Outstanding' : handler'[item.owner] = "joining"
    BY <1>2, <2>2 DEF PusherGets, Pipeline, QueueAccounting
  <2>5. \A l \in Listeners : handler'[l] = "joining" => unfinished_tasks' > 0
    BY <1>2 DEF PusherGets, Pipeline, QueueAccounting
  <2> QED BY <1>1, <1>2, <2>3, <2>4, <2>5 DEF PusherGets, Pipeline, QueueAccounting
<1>3. CASE PublishSucceeds
  BY <1>1, <1>3 DEF PublishSucceeds, Pipeline, QueueAccounting, Outstanding, queue_vars
<1>4. CASE PusherSettles
  BY <1>1, <1>4, TaskDonePipeline DEF PusherSettles
<1>5. CASE PublishFails
  <2>1. CASE TaskDone
    BY <1>1, <1>5, <2>1, TaskDonePipeline DEF PublishFails
  <2>2. CASE UNCHANGED <<unfinished_tasks, handler, pusher, in_flight>>
    BY <1>1, <1>5, <2>2, PipelineFrame DEF PublishFails, queue_vars
  <2> QED BY <1>5, <2>1, <2>2 DEF PublishFails
<1>6. CASE PublishRetries
  BY <1>1, <1>6, PipelineFrame DEF PublishRetries
<1> QED BY <1>2, <1>3, <1>4, <1>5, <1>6 DEF PusherStep

\* A restart empties the queue and the count with it.
LEMMA RestartPipeline == Restart => Pipeline'
BY DEF Restart, Pipeline, QueueAccounting, Outstanding

\* Every step keeps the types and the accounting.
LEMMA NextPipeline == TypeOK /\ Pipeline /\ [Next]_vars => TypeOK' /\ Pipeline'
<1> SUFFICES ASSUME TypeOK, Pipeline, [Next]_vars PROVE TypeOK' /\ Pipeline'
  OBVIOUS
<1>1. CASE PollerStep
  BY <1>1, PollerTypeOK, PipelineFrame DEF PollerStep, pusher_vars
<1>2. ASSUME NEW l \in Listeners, ListenerStep(l) PROVE TypeOK' /\ Pipeline'
  BY <1>2, ListenerTypeOK, ListenerPipeline
<1>3. ASSUME NEW l \in Listeners, HandlerStep(l) PROVE TypeOK' /\ Pipeline'
  BY <1>3, HandlerTypeOK, HandlerPipeline
<1>4. CASE PusherStep
  BY <1>4, PusherTypeOK, PusherPipeline
<1>5. CASE MidenStep
  BY <1>5, MidenTypeOK, PipelineFrame DEF MidenStep, pusher_vars
<1>6. CASE ChainAccepts
  BY <1>6, ChainTypeOK, PipelineFrame DEF ChainAccepts, pusher_vars
<1>7. CASE Restart
  BY <1>7, RestartTypeOK, RestartPipeline
<1>8. CASE UNCHANGED vars
  BY <1>8, PipelineFrame DEF TypeOK, vars, poller_vars, miden_vars, queue_vars, fetch_vars,
     listener_vars, pusher_vars, chain_vars
<1> QED BY <1>1, <1>2, <1>3, <1>4, <1>5, <1>6, <1>7, <1>8 DEF Next, Stopped

\* Every state of the process has its types (Orchestrator, PriceListener,
\* PricePusher).
THEOREM TypeCorrect == Spec => []TypeOK
<1>1. Init => TypeOK /\ Pipeline
  BY InitTypeOK, InitPipeline
<1>2. TypeOK /\ Pipeline /\ [Next]_vars => TypeOK' /\ Pipeline'
  BY NextPipeline
<1> QED BY <1>1, <1>2, PTL DEF Spec

\* The queue never loses count, whatever the listeners, the handlers and the
\* pusher do: join() waits for what there is and for nothing else.
THEOREM QueueIsAccounted == Spec => []QueueAccounting
<1>1. Init => TypeOK /\ Pipeline
  BY InitTypeOK, InitPipeline
<1>2. TypeOK /\ Pipeline /\ [Next]_vars => TypeOK' /\ Pipeline'
  BY NextPipeline
<1>3. Pipeline => QueueAccounting
  BY DEF Pipeline
<1> QED BY <1>1, <1>2, <1>3, PTL DEF Spec

\* No listener may notify while a batch it asked for is queued or published:
\* the handler that waits for the batch keeps the notification set.
THEOREM ListenersDoNotSpam == Spec => []NoSpam
<1>1. Init => TypeOK /\ Pipeline
  BY InitTypeOK, InitPipeline
<1>2. TypeOK /\ Pipeline /\ [Next]_vars => TypeOK' /\ Pipeline'
  BY NextPipeline
<1>3. Pipeline => NoSpam
  BY DEF Pipeline, QueueAccounting, NoSpam
<1> QED BY <1>1, <1>2, <1>3, PTL DEF Spec
-----------------------------------------------------------------------------
(* The order of the entries *)

\* Timestamps are naturals wherever an entry is.
LEMMA TimestampTypes ==
  ASSUME TypeOK, NEW k \in Keys
  PROVE  /\ chain[k].ts \in Nat /\ unaccepted[k].ts \in Nat
         /\ latest_prices[k].ts \in Nat /\ clock \in Nat
         /\ \A i \in 1..Len(push_queue) : push_queue[i].entries[k].ts \in Nat
         /\ \A item \in in_flight : item.entries[k].ts \in Nat
<1>1. \A batch \in Batch : batch[k].ts \in Nat
  BY DEF Batch, Entry
<1>2. \A item \in Item : item.entries[k].ts \in Nat
  BY <1>1 DEF Item
<1>3. \A i \in 1..Len(push_queue) : push_queue[i] \in Item
  BY DEF TypeOK
<1> QED BY <1>1, <1>2, <1>3 DEF TypeOK

\* Nothing has been polled at the start.
LEMMA InitOrder == Init => Order
BY DEF Init, ProcessInit, Order, Ordered, NoBatch, NoEntry, Present

\* A step that moves no entry.
LEMMA OrderFrame ==
  ASSUME Order,
         UNCHANGED <<clock, chain, unaccepted, in_flight, push_queue, latest_prices>>
  PROVE  Order'
BY DEF Order, Ordered, Present

\* A polled entry is newer than all that is known of its key.
LEMMA PollOrder ==
  ASSUME TypeOK, Order, NEW entries, CallbackUpdatePrices(entries), clock' = clock + 1,
         \A k \in Keys : Present(entries[k]) => entries[k].ts = clock + 1,
         UNCHANGED <<chain, unaccepted, in_flight, push_queue>>
  PROVE  Order'
<1> SUFFICES ASSUME NEW k \in Keys PROVE Ordered(k)'
  BY DEF Order
<1>1. Ordered(k)
  BY DEF Order
<1>2. latest_prices'[k] = latest_prices[k] \/ latest_prices'[k].ts = clock + 1
  BY DEF CallbackUpdatePrices, Update
<1> QED BY <1>1, <1>2, TimestampTypes DEF Ordered, Present

\* A poll is newer than every entry on its way.
LEMMA PollerOrder ==
  ASSUME TypeOK, Order, PollerStep
  PROVE  Order'
<1>1. \A entries \in FetchResults, k \in Keys :
        Present(entries[k]) => entries[k].ts = clock + 1
  BY DEF FetchResults, Present, NoEntry
<1>2. UNCHANGED <<chain, unaccepted, in_flight, push_queue>>
  BY DEF PollerStep, chain_vars, pusher_vars, queue_vars
<1>3. CASE PollSucceeds
  <2>1. PICK entries \in FetchResults : CallbackUpdatePrices(Filter(entries))
    BY <1>3 DEF PollSucceeds
  <2>2. \A k \in Keys : Present(Filter(entries)[k]) => Filter(entries)[k].ts = clock + 1
    BY <1>1 DEF Filter, Only, Present, NoEntry
  <2> QED BY <1>2, <1>3, <2>1, <2>2, PollOrder DEF PollSucceeds
<1>4. CASE PollFails
  BY <1>2, <1>4, OrderFrame DEF PollFails
<1>5. CASE RetryEnds
  <2>1. CASE UNCHANGED <<poller_vars, latest_prices>>
    BY <1>2, <2>1, OrderFrame DEF poller_vars
  <2>2. CASE /\ \E entries \in FetchResults : CallbackUpdatePrices(entries)
             /\ clock' = clock + 1
    BY <1>1, <1>2, <2>2, PollOrder
  <2> QED BY <1>5, <2>1, <2>2 DEF RetryEnds
<1> QED BY <1>3, <1>4, <1>5 DEF PollerStep

\* A flush moves each entry from latest_prices to the end of the queue, or
\* leaves it.
LEMMA HandlerOrder ==
  ASSUME TypeOK, Order, NEW l \in Listeners, HandlerStep(l)
  PROVE  Order'
<1>1. UNCHANGED <<clock, chain, unaccepted, in_flight>>
  BY DEF HandlerStep, poller_vars, pusher_vars, chain_vars
<1>2. CASE HandlerFlushes(l) /\ Flushed(l) # {}
  <2> DEFINE item == [owner |-> l, entries |-> Only(latest_prices, Flushed(l))]
  <2>1. push_queue' = Append(push_queue, item)
    BY <1>2 DEF HandlerFlushes, Put
  <2>2. item \in Item
    BY BatchType DEF Item, TypeOK
  <2>3. ASSUME NEW k \in Keys
        PROVE  \/ item.entries[k] = latest_prices[k] /\ latest_prices'[k] = NoEntry
               \/ item.entries[k] = NoEntry /\ latest_prices'[k] = latest_prices[k]
    BY <1>2 DEF HandlerFlushes, FlushLeaves, Without, Only
  <2> HIDE DEF item
  <2>4. /\ push_queue \in Seq(Item)
        /\ Len(push_queue') = Len(push_queue) + 1
        /\ Len(push_queue) \in Nat
        /\ push_queue'[Len(push_queue) + 1] = item
        /\ \A i \in 1..Len(push_queue) : push_queue'[i] = push_queue[i]
    BY <2>1, <2>2, QueueContents DEF TypeOK
  <2> SUFFICES ASSUME NEW k \in Keys PROVE Ordered(k)'
    BY DEF Order
  <2>5. Ordered(k)
    BY DEF Order
  <2>6. ASSUME NEW i \in 1..Len(push_queue')
        PROVE  \/ i \in 1..Len(push_queue) /\ push_queue'[i] = push_queue[i]
               \/ i = Len(push_queue) + 1 /\ push_queue'[i] = item
    BY <2>4
  <2>7. CASE item.entries[k] = latest_prices[k] /\ latest_prices'[k] = NoEntry
    <3>1. latest_prices'[k].ts = 0 /\ ~Present(latest_prices'[k])
      BY <2>7 DEF NoEntry, Present
    <3>2. \A i \in 1..Len(push_queue') : push_queue'[i].entries[k].ts =< clock
      BY <2>5, <2>6, <2>7 DEF Ordered
    <3>3. ASSUME NEW i \in 1..Len(push_queue'), Present(push_queue'[i].entries[k])
          PROVE  /\ chain[k].ts < push_queue'[i].entries[k].ts
                 /\ unaccepted[k].ts < push_queue'[i].entries[k].ts
                 /\ \A x \in in_flight : x.entries[k].ts < push_queue'[i].entries[k].ts
                 /\ \A j \in 1..(i - 1) : push_queue'[j].entries[k].ts < push_queue'[i].entries[k].ts
      BY <2>4, <2>5, <2>6, <2>7, <3>3 DEF Ordered
    <3> QED BY <1>1, <2>5, <3>1, <3>2, <3>3, TimestampTypes DEF Ordered
  <2>8. CASE item.entries[k] = NoEntry /\ latest_prices'[k] = latest_prices[k]
    <3>1. item.entries[k].ts = 0 /\ ~Present(item.entries[k])
      BY <2>8 DEF NoEntry, Present
    <3>2. \A i \in 1..Len(push_queue') : push_queue'[i].entries[k].ts =< clock
      BY <2>5, <2>6, <3>1, TimestampTypes DEF Ordered
    <3>3. ASSUME NEW i \in 1..Len(push_queue'), Present(push_queue'[i].entries[k])
          PROVE  /\ chain[k].ts < push_queue'[i].entries[k].ts
                 /\ unaccepted[k].ts < push_queue'[i].entries[k].ts
                 /\ \A x \in in_flight : x.entries[k].ts < push_queue'[i].entries[k].ts
                 /\ \A j \in 1..(i - 1) : push_queue'[j].entries[k].ts < push_queue'[i].entries[k].ts
      BY <2>4, <2>5, <2>6, <3>1, <3>3 DEF Ordered
    <3>4. Present(latest_prices[k]) =>
            \A i \in 1..Len(push_queue') : push_queue'[i].entries[k].ts < latest_prices[k].ts
      BY <2>5, <2>6, <3>1 DEF Ordered, Present
    <3> QED BY <1>1, <2>5, <2>8, <3>2, <3>3, <3>4 DEF Ordered
  <2> QED BY <2>3, <2>7, <2>8
<1>3. CASE HandlerFlushes(l) /\ Flushed(l) = {}
  <2>1. UNCHANGED push_queue
    BY <1>3 DEF HandlerFlushes, queue_vars
  <2>2. \A k \in Keys : latest_prices'[k] = latest_prices[k]
    BY <1>3 DEF HandlerFlushes, FlushLeaves, Without, Only
  <2> QED BY <1>1, <2>1, <2>2 DEF Order, Ordered
<1>4. CASE HandlerClears(l)
  BY <1>1, <1>4, OrderFrame DEF HandlerClears, queue_vars
<1> QED BY <1>2, <1>3, <1>4 DEF HandlerStep

\* The pusher takes the oldest batch, sends it, perhaps again, and drops it.
LEMMA PusherOrder ==
  ASSUME TypeOK, Pipeline, Order, PusherStep
  PROVE  Order'
<1>1. UNCHANGED <<clock, chain, latest_prices>>
  BY DEF PusherStep, poller_vars
<1>2. CASE PusherGets
  <2>1. /\ Len(push_queue) \in Nat /\ Len(push_queue) > 0
        /\ Len(push_queue') = Len(push_queue) - 1
        /\ \A i \in 1..(Len(push_queue) - 1) : push_queue'[i] = push_queue[i + 1]
        /\ in_flight' = {push_queue[1]}
        /\ unaccepted' = Update(unaccepted, push_queue[1].entries)
    BY <1>2, QueueContents DEF PusherGets, Send, TypeOK
  <2> SUFFICES ASSUME NEW k \in Keys PROVE Ordered(k)'
    BY DEF Order
  <2>2. Ordered(k)
    BY DEF Order
  <2>3. ASSUME NEW i \in 1..Len(push_queue')
        PROVE  /\ i + 1 \in 1..Len(push_queue) /\ push_queue'[i] = push_queue[i + 1]
               /\ \A j \in 1..(i - 1) : /\ j + 1 \in 1..((i + 1) - 1)
                                        /\ push_queue'[j] = push_queue[j + 1]
               /\ 1 \in 1..((i + 1) - 1)
    BY <2>1
  <2>4. /\ push_queue[1].entries[k].ts =< clock
        /\ Present(push_queue[1].entries[k]) => chain[k].ts =< push_queue[1].entries[k].ts
    BY <2>1, <2>2, TimestampTypes DEF Ordered
  <2>5. \A i \in 1..Len(push_queue') : push_queue'[i].entries[k].ts =< clock
    BY <2>2, <2>3 DEF Ordered
  <2>6. ASSUME NEW i \in 1..Len(push_queue'), Present(push_queue'[i].entries[k])
        PROVE  /\ chain[k].ts < push_queue'[i].entries[k].ts
               /\ push_queue[1].entries[k].ts < push_queue'[i].entries[k].ts
               /\ \A j \in 1..(i - 1) : push_queue'[j].entries[k].ts < push_queue'[i].entries[k].ts
    BY <2>2, <2>3, <2>6 DEF Ordered
  <2>7. Present(latest_prices[k]) =>
          /\ chain[k].ts < latest_prices[k].ts
          /\ push_queue[1].entries[k].ts < latest_prices[k].ts
          /\ \A i \in 1..Len(push_queue') : push_queue'[i].entries[k].ts < latest_prices[k].ts
    BY <2>1, <2>2, <2>3 DEF Ordered
  <2>8. push_queue[1].entries[k].ts \in Nat
    BY <2>1, TimestampTypes
  <2>9. \/ Present(push_queue[1].entries[k]) /\ unaccepted'[k] = push_queue[1].entries[k]
        \/ ~Present(push_queue[1].entries[k]) /\ unaccepted'[k] = unaccepted[k]
    BY <2>1 DEF Update
  <2>10. CASE Present(push_queue[1].entries[k])
    BY <1>1, <2>1, <2>2, <2>4, <2>5, <2>6, <2>7, <2>8, <2>9, <2>10 DEF Ordered
  <2>11. CASE ~Present(push_queue[1].entries[k])
    <3>1. unaccepted'[k] = unaccepted[k]
      BY <2>9, <2>11
    <3>2. \A i \in 1..Len(push_queue') :
            Present(push_queue'[i].entries[k]) => unaccepted[k].ts < push_queue'[i].entries[k].ts
      BY <2>2, <2>3 DEF Ordered
    <3> QED BY <1>1, <2>1, <2>2, <2>4, <2>5, <2>6, <2>7, <2>8, <2>11, <3>1, <3>2 DEF Ordered
  <2> QED BY <2>10, <2>11
<1>3. CASE PublishSucceeds
  BY <1>1, <1>3, OrderFrame DEF PublishSucceeds, queue_vars
<1>4. ASSUME in_flight' = {}, UNCHANGED <<push_queue, unaccepted>>
      PROVE  Order'
  BY <1>1, <1>4 DEF Order, Ordered
<1>5. CASE PusherSettles
  BY <1>4, <1>5 DEF PusherSettles, TaskDone
<1>6. CASE PublishFails
  <2>1. CASE TaskDone
    BY <1>4, <1>6, <2>1 DEF PublishFails, TaskDone
  <2>2. CASE UNCHANGED in_flight
    BY <1>1, <1>6, <2>2, OrderFrame DEF PublishFails
  <2> QED BY <1>6, <2>1, <2>2 DEF PublishFails
<1>7. CASE PublishRetries
  <2>1. PICK item \in in_flight : unaccepted' = Update(unaccepted, item.entries)
    BY <1>7 DEF PublishRetries, Send
  <2>2. \A x \in in_flight : x = item
    BY DEF Pipeline
  <2>3. UNCHANGED <<in_flight, push_queue>>
    BY <1>7 DEF PublishRetries, queue_vars
  <2> SUFFICES ASSUME NEW k \in Keys PROVE Ordered(k)'
    BY DEF Order
  <2>4. Ordered(k)
    BY DEF Order
  <2>5. \/ Present(item.entries[k]) /\ unaccepted'[k] = item.entries[k]
        \/ ~Present(item.entries[k]) /\ unaccepted'[k] = unaccepted[k]
    BY <2>1 DEF Update
  <2> QED BY <1>1, <2>1, <2>2, <2>3, <2>4, <2>5, TimestampTypes DEF Ordered
<1> QED BY <1>2, <1>3, <1>5, <1>6, <1>7 DEF PusherStep

\* A transaction that is accepted, late or not, replaces nothing newer.
LEMMA ChainOrder ==
  ASSUME TypeOK, Order, ChainAccepts
  PROVE  Order' /\ \A k \in Keys : chain'[k].ts >= chain[k].ts
<1>1. UNCHANGED <<clock, latest_prices, in_flight, push_queue>>
  BY DEF ChainAccepts, poller_vars, pusher_vars, queue_vars
<1> SUFFICES ASSUME NEW k \in Keys
             PROVE  Ordered(k)' /\ chain'[k].ts >= chain[k].ts
  BY DEF Order
<1>2. Ordered(k)
  BY DEF Order
<1>3. PICK K \in SUBSET KeysOf(unaccepted) :
        /\ chain' = Update(chain, Only(unaccepted, K))
        /\ unaccepted' = Without(unaccepted, K)
  BY DEF ChainAccepts
<1>4. CASE k \in K
  <2>1. /\ chain'[k] = unaccepted[k] /\ Present(unaccepted[k])
        /\ unaccepted'[k].ts = 0
    BY <1>3, <1>4 DEF Update, Only, Without, KeysOf, NoEntry
  <2> QED BY <1>1, <1>2, <2>1, TimestampTypes DEF Ordered, Present
<1>5. CASE k \notin K
  <2>1. chain'[k] = chain[k] /\ unaccepted'[k] = unaccepted[k]
    BY <1>3, <1>5 DEF Update, Only, Without, Present, NoEntry
  <2> QED BY <1>1, <1>2, <2>1, TimestampTypes DEF Ordered
<1> QED BY <1>4, <1>5

\* After a restart only the oracle and the transactions on their way are left.
LEMMA RestartOrder ==
  ASSUME TypeOK, Order, Restart
  PROVE  Order'
<1> SUFFICES ASSUME NEW k \in Keys PROVE Ordered(k)'
  BY DEF Order
<1>1. Ordered(k)
  BY DEF Order
<1>2. /\ UNCHANGED <<clock, chain, unaccepted>>
      /\ push_queue' = <<>> /\ in_flight' = {}
      /\ latest_prices'[k].ts = 0
  BY DEF Restart, chain_vars, NoBatch, NoEntry
<1>3. latest_prices'[k].ts =< clock
  BY <1>2, TimestampTypes
<1> QED BY <1>1, <1>2, <1>3 DEF Ordered, Present

\* Every step keeps the order, and moves no price of the oracle back.
LEMMA NextOrder ==
  ASSUME TypeOK, Pipeline, Order, [Next]_vars
  PROVE  Order' /\ \A k \in Keys : chain'[k].ts >= chain[k].ts
<1>1. ASSUME UNCHANGED chain, Order'
      PROVE  Order' /\ \A k \in Keys : chain'[k].ts >= chain[k].ts
  BY <1>1, TimestampTypes
<1>2. CASE PollerStep
  BY <1>1, <1>2, PollerOrder DEF PollerStep, chain_vars
<1>3. ASSUME NEW l \in Listeners, ListenerStep(l)
      PROVE  Order' /\ UNCHANGED chain
  BY <1>3, OrderFrame DEF ListenerStep, chain_vars, poller_vars, pusher_vars, queue_vars
<1>4. ASSUME NEW l \in Listeners, HandlerStep(l)
      PROVE  Order' /\ UNCHANGED chain
  BY <1>4, HandlerOrder DEF HandlerStep, chain_vars
<1>5. CASE PusherStep
  BY <1>1, <1>5, PusherOrder DEF PusherStep
<1>6. CASE MidenStep
  BY <1>1, <1>6, OrderFrame DEF MidenStep, chain_vars, poller_vars, pusher_vars, queue_vars
<1>7. CASE ChainAccepts
  BY <1>7, ChainOrder
<1>8. CASE Restart
  BY <1>1, <1>8, RestartOrder DEF Restart, chain_vars
<1>9. CASE UNCHANGED vars
  BY <1>1, <1>9, OrderFrame DEF vars, chain_vars, poller_vars, pusher_vars, queue_vars
<1> QED BY <1>1, <1>2, <1>3, <1>4, <1>5, <1>6, <1>7, <1>8, <1>9 DEF Next, Stopped

\* No entry is in two places, however the flushes of listeners that share an
\* asset interleave with polls and publications.
THEOREM EntriesAreUnique == Spec => []EachEntryOnce
<1>1. Init => TypeOK /\ Pipeline /\ Order
  BY InitTypeOK, InitPipeline, InitOrder
<1>2. TypeOK /\ Pipeline /\ Order /\ [Next]_vars => TypeOK' /\ Pipeline' /\ Order'
  BY NextPipeline, NextOrder
<1>3. TypeOK /\ Order => EachEntryOnce
  <2> SUFFICES ASSUME TypeOK, Order, NEW k \in Keys
               PROVE  /\ \A item \in Outstanding :
                           Present(item.entries[k]) => item.entries[k].ts # latest_prices[k].ts
                      /\ \A i, j \in 1..Len(push_queue) :
                           i # j /\ Present(push_queue[i].entries[k])
                             => push_queue[i].entries[k].ts # push_queue[j].entries[k].ts
                      /\ \A i \in 1..Len(push_queue), item \in in_flight :
                           Present(item.entries[k])
                             => item.entries[k].ts # push_queue[i].entries[k].ts
    BY DEF EachEntryOnce
  <2>1. Ordered(k)
    BY DEF Order
  <2>2. \A item \in Outstanding :
          Present(item.entries[k]) => item.entries[k].ts # latest_prices[k].ts
    BY <2>1, TimestampTypes DEF Ordered, Present, Outstanding
  <2>3. ASSUME NEW i \in 1..Len(push_queue), NEW j \in 1..Len(push_queue), i # j,
               Present(push_queue[i].entries[k])
        PROVE  push_queue[i].entries[k].ts # push_queue[j].entries[k].ts
    <3>1. Len(push_queue) \in Nat
      BY DEF TypeOK
    <3>2. CASE j < i
      BY <2>1, <2>3, <3>1, <3>2, TimestampTypes DEF Ordered
    <3>3. CASE i < j
      BY <2>1, <2>3, <3>1, <3>3, TimestampTypes DEF Ordered, Present
    <3> QED BY <2>3, <3>1, <3>2, <3>3
  <2>4. \A i \in 1..Len(push_queue), item \in in_flight :
          Present(item.entries[k]) => item.entries[k].ts # push_queue[i].entries[k].ts
    BY <2>1, TimestampTypes DEF Ordered, Present
  <2> QED BY <2>2, <2>3, <2>4
<1> QED BY <1>1, <1>2, <1>3, PTL DEF Spec

\* The oracle never goes back to an older entry, for any number of listeners,
\* retries, transactions accepted late and restarts.
THEOREM ChainIsMonotonic == Spec => ChainNeverRegresses
<1>1. Init => TypeOK /\ Pipeline /\ Order
  BY InitTypeOK, InitPipeline, InitOrder
<1>2. TypeOK /\ Pipeline /\ Order /\ [Next]_vars => TypeOK' /\ Pipeline' /\ Order'
  BY NextPipeline, NextOrder
<1>3. TypeOK /\ Pipeline /\ Order /\ [Next]_vars
        => [\A k \in Keys : chain'[k].ts >= chain[k].ts]_chain
  BY NextOrder
<1> QED BY <1>1, <1>2, <1>3, PTL DEF Spec, ChainNeverRegresses
-----------------------------------------------------------------------------
(* What a listener may find when every poll is filtered *)

\* No price of 0 and no dated future.
Clean(batch) ==
  \A k \in Keys : Present(batch[k]) => batch[k].price > 0 /\ k[3] = Perp
CleanCache(cache) == \A a \in Assets : Present(cache[a]) => cache[a].price > 0

\* Nothing else is on its way from the poller to the oracle, nor back to a listener.
AllClean ==
  /\ poller = "polling"
  /\ Clean(latest_prices) /\ Clean(unaccepted) /\ Clean(chain)
  /\ \A i \in 1..Len(push_queue) : Clean(push_queue[i].entries)
  /\ \A item \in in_flight : Clean(item.entries)
  /\ \A l \in Listeners : CleanCache(answer[l]) /\ CleanCache(oracle_prices[l])
  /\ crashed \notin {"missing_expiry", "zero_division"}

\* The filter, the flush and the updates leave clean batches clean.
LEMMA CleanBatches ==
  ASSUME NEW batch
  PROVE  /\ Clean(NoBatch) /\ Clean(Filter(batch))
         /\ Clean(batch) => \A K : Clean(Only(batch, K)) /\ Clean(Without(batch, K))
         /\ \A new : Clean(batch) /\ Clean(new) => Clean(Update(batch, new))
<1>1. ~Present(NoEntry)
  BY DEF Present, NoEntry
<1>2. Clean(NoBatch)
  BY <1>1 DEF Clean, NoBatch
<1>3. Clean(Filter(batch))
  BY <1>1 DEF Clean, Filter, Only, Keys
<1>4. ASSUME NEW K, Clean(batch) PROVE Clean(Only(batch, K)) /\ Clean(Without(batch, K))
  BY <1>1, <1>4 DEF Clean, Only, Without
<1>5. ASSUME NEW new, Clean(batch), Clean(new) PROVE Clean(Update(batch, new))
  <2>1. \A k \in Keys : Update(batch, new)[k] = IF Present(new[k]) THEN new[k] ELSE batch[k]
    BY DEF Update
  <2> QED BY <1>5, <2>1 DEF Clean
<1> QED BY <1>2, <1>3, <1>4, <1>5

\* The median of positive prices is positive, also once it is rounded.
LEMMA CleanAnswer ==
  ASSUME chain \in Batch, Clean(chain), NEW a \in Assets, NEW S
  PROVE  Present(ChainAnswer(a, S)) => ChainAnswer(a, S).price > 0
<1> DEFINE read == PerpSources(chain, a) \cap (IF S = {} THEN Sources ELSE S)
           entries == PerpEntries(chain, a)
<1>1. CASE read = {}
  BY <1>1 DEF ChainAnswer, Requested, Present, NoEntry
<1>2. CASE read # {}
  <2>1. IsFiniteSet(read)
    BY OrchestratorAssumption, FS_Subset DEF PerpSources
  <2>2. \A s \in read : entries[s].price \in Nat /\ entries[s].price > 0
    <3>1. \A s \in read : <<a, s, Perp>> \in Keys
      BY OrchestratorAssumption DEF PerpSources, Keys
    <3> QED BY <3>1 DEF PerpEntries, PerpSources, Batch, Entry, Clean
  <2>3. Aggregated(entries, read).price > 0
    <3> DEFINE m == Median2(entries, read)
    <3> HIDE DEF read, entries
    <3>1. PICK s \in read : m \in Nat /\ 2 * entries[s].price =< m
      BY <1>2, <2>1, <2>2, MedianIsBetweenPrices
    <3>2. m \in Nat /\ m >= 2
      BY <2>2, <3>1
    <3> HIDE DEF m
    <3>3. m \div 2 > 0
      BY <3>2
    <3> QED BY <3>3 DEF Aggregated, m
  <2> QED BY <1>2, <2>3 DEF ChainAnswer, Requested
<1> QED BY <1>1, <1>2

\* Whatever the cache holds, no check of a clean state raises.
LEMMA CleanCheck ==
  ASSUME Clean(latest_prices), NEW cache, CleanCache(cache), NEW a \in Assets
  PROVE  CheckOf(cache, a) \in {"ok", "notify"}
<1> DEFINE S == PerpSources(latest_prices, a)
           f == PerpEntries(latest_prices, a)
           some == SourcesOf(latest_prices, a) # {}
<1>1. some => S # {}
  <2> SUFFICES ASSUME NEW s \in SourcesOf(latest_prices, a) PROVE s \in S
    OBVIOUS
  <2>1. PICK k \in KeysOf(latest_prices) : k[1] = a /\ k[2] = s
    BY DEF SourcesOf
  <2>2. k \in Keys /\ Present(latest_prices[k]) /\ k[3] = Perp
    BY <2>1 DEF KeysOf, Clean
  <2>3. k = <<a, s, Perp>>
    BY <2>1, <2>2 DEF Keys
  <2> QED BY <2>2, <2>3 DEF PerpSources, SourcesOf
<1>2. Present(cache[a]) => cache[a].price # 0
  BY DEF CleanCache
<1>3. CheckAsset(cache[a], f, S, some) \in {"ok", "notify"}
  BY <1>1, <1>2 DEF CheckAsset
<1> QED BY <1>3 DEF CheckOf

\* The first asset that is due exists.
LEMMA FirstDue ==
  ASSUME NEW assets \in Seq(Assets), NEW due \in SUBSET (1..Len(assets)), due # {}
  PROVE  (CHOOSE i \in due : \A j \in due : i =< j) \in due
<1> DEFINE g == [i \in due |-> i]
<1>1. IsFiniteSet(due)
  <2>1. Len(assets) \in Nat
    OBVIOUS
  <2>2. IsFiniteSet(1..Len(assets))
    BY <2>1, FS_Interval
  <2> QED BY <2>2, FS_Subset
<1>2. \A i \in due : g[i] \in Nat
  OBVIOUS
<1>3. \E i \in due : \A j \in due : g[i] =< g[j]
  <2> HIDE DEF g
  <2> QED BY <1>1, <1>2, FiniteMin
<1>4. \E i \in due : \A j \in due : i =< j
  BY <1>3
<1> QED BY <1>4

LEMMA CleanDecision ==
  ASSUME Clean(latest_prices), NEW l \in Listeners, NEW cache, CleanCache(cache)
  PROVE  Decision(l, cache) \in {"ok", "notify", "empty_oracle"}
<1> DEFINE assets == data_config[l]
           due == DueIn(cache, assets)
           first == CHOOSE i \in due : \A j \in due : i =< j
<1>1. due # {} => CheckOf(cache, assets[first]) \in {"ok", "notify"}
  <2>1. assets \in Seq(Assets) /\ due \in SUBSET (1..Len(assets))
    BY OrchestratorAssumption DEF DueIn
  <2>2. due # {} => first \in due
    <3> HIDE DEF assets, due
    <3> QED BY <2>1, FirstDue
  <2>3. due # {} => assets[first] \in Assets
    <3> HIDE DEF assets, due, first
    <3>1. due # {} => first \in 1..Len(assets)
      BY <2>1, <2>2
    <3> QED BY <2>1, <3>1
  <2> HIDE DEF assets, due, first
  <2> QED BY <2>3, CleanCheck
<1> HIDE DEF first
<1> QED BY <1>1 DEF Decision, first

LEMMA CleanCrash ==
  ASSUME AllClean, NEW l \in Listeners, NEW cache, CleanCache(cache),
         ChecksAndSleeps(l, cache)
  PROVE  crashed' \notin {"missing_expiry", "zero_division"}
BY CleanDecision DEF ChecksAndSleeps, AllClean

\* A step that none of this is about.
LEMMA CleanFrame ==
  ASSUME AllClean,
         UNCHANGED <<poller, latest_prices, unaccepted, chain, push_queue, in_flight,
                     answer, oracle_prices>>,
         crashed' \in {crashed, "no", "poller", "empty_oracle", "push_errors"}
  PROVE  AllClean'
BY DEF AllClean, Clean, CleanCache, Present

LEMMA CleanPoller ==
  ASSUME ~OnchainPoller, AllClean, PollerStep PROVE AllClean'
<1>1. UNCHANGED <<unaccepted, chain, push_queue, in_flight, answer, oracle_prices>>
  BY DEF PollerStep, queue_vars, fetch_vars, listener_vars, pusher_vars, chain_vars
<1>2. CASE PollSucceeds
  <2>1. PICK entries \in FetchResults : CallbackUpdatePrices(Filter(entries))
    BY <1>2 DEF PollSucceeds
  <2>2. latest_prices' = Update(latest_prices, Filter(entries))
    BY <2>1 DEF CallbackUpdatePrices
  <2>3. Clean(latest_prices)'
    BY <2>2, CleanBatches DEF AllClean, Clean
  <2> QED BY <1>1, <1>2, <2>3 DEF PollSucceeds, AllClean, Clean, CleanCache, Present
<1>3. CASE PollFails
  BY <1>1, <1>3, CleanFrame DEF PollFails
<1>4. CASE RetryEnds
  BY <1>4 DEF RetryEnds, AllClean
<1> QED BY <1>2, <1>3, <1>4 DEF PollerStep

LEMMA CleanListener ==
  ASSUME TypeOK, AllClean, NEW l \in Listeners, ListenerStep(l) PROVE AllClean'
<1>1. UNCHANGED <<poller, latest_prices, unaccepted, chain, push_queue, in_flight>>
  BY DEF ListenerStep, poller_vars, queue_vars, pusher_vars, chain_vars
<1>2. CASE ListenerUsesCache(l)
  <2>1. UNCHANGED <<answer, oracle_prices>> /\ ChecksAndSleeps(l, oracle_prices[l])
    BY <1>2 DEF ListenerUsesCache, fetch_vars
  <2>2. crashed' \notin {"missing_expiry", "zero_division"}
    BY <2>1, CleanCrash DEF AllClean
  <2> QED BY <1>1, <2>1, <2>2 DEF AllClean, Clean, CleanCache, Present
<1>3. CASE ListenerStartsFetch(l)
  BY <1>1, <1>3, CleanFrame DEF ListenerStartsFetch
<1>4. ASSUME NEW a \in Assets, OracleResponds(l, a) PROVE AllClean'
  <2>1. PICK e : /\ e = ChainAnswer(a, asked[l][a]) \/ e = NoEntry
                 /\ answer' = [answer EXCEPT ![l][a] = e]
    BY <1>4 DEF OracleResponds
  <2>2. Present(e) => e.price > 0
    BY <2>1, CleanAnswer DEF TypeOK, AllClean, Present, NoEntry
  <2>3. answer \in [Listeners -> [Assets -> Entry]]
    BY DEF TypeOK
  <2>4. \A m \in Listeners : CleanCache(answer'[m])
    BY <2>1, <2>2, <2>3 DEF AllClean, CleanCache
  <2>5. UNCHANGED <<oracle_prices, crashed>>
    BY <1>4 DEF OracleResponds
  <2> QED BY <1>1, <2>4, <2>5 DEF AllClean, Clean, CleanCache, Present
<1>5. CASE ListenerEndsFetch(l)
  <2> DEFINE cache == [a \in Assets |-> IF Present(answer[l][a]) THEN answer[l][a]
                                                              ELSE oracle_prices[l][a]]
  <2>1. CleanCache(cache)
    BY DEF AllClean, CleanCache
  <2>2. /\ oracle_prices' = [oracle_prices EXCEPT ![l] = cache]
        /\ answer' = [answer EXCEPT ![l] = [a \in Assets |-> NoEntry]]
        /\ ChecksAndSleeps(l, cache)
    BY <1>5 DEF ListenerEndsFetch
  <2>3. CleanCache([a \in Assets |-> NoEntry])
    BY DEF CleanCache, Present, NoEntry
  <2> HIDE DEF cache
  <2>4. crashed' \notin {"missing_expiry", "zero_division"}
    BY <2>1, <2>2, CleanCrash
  <2>5. \A m \in Listeners : CleanCache(answer'[m]) /\ CleanCache(oracle_prices'[m])
    BY <2>1, <2>2, <2>3 DEF AllClean, TypeOK
  <2> QED BY <1>1, <2>4, <2>5 DEF AllClean, Clean, CleanCache, Present
<1> QED BY <1>2, <1>3, <1>4, <1>5 DEF ListenerStep

LEMMA CleanHandler ==
  ASSUME TypeOK, AllClean, NEW l \in Listeners, HandlerStep(l) PROVE AllClean'
<1>1. UNCHANGED <<poller, unaccepted, chain, in_flight, answer, oracle_prices, crashed>>
  BY DEF HandlerStep, poller_vars, fetch_vars, listener_vars, pusher_vars, chain_vars
<1>2. Clean(latest_prices)'
  <2>1. latest_prices' = latest_prices \/ latest_prices' = Without(latest_prices, Flushed(l))
    BY DEF HandlerStep, HandlerFlushes, HandlerClears, FlushLeaves
  <2> QED BY <2>1, CleanBatches DEF AllClean, Clean
<1>3. \A i \in 1..Len(push_queue') : Clean(push_queue'[i].entries)
  <2> DEFINE item == [owner |-> l, entries |-> Only(latest_prices, Flushed(l))]
  <2>1. push_queue' = push_queue \/ push_queue' = Append(push_queue, item)
    BY DEF HandlerStep, HandlerFlushes, HandlerClears, Put, queue_vars
  <2>2. item \in Item
    BY BatchType DEF Item, TypeOK
  <2>3. Clean(item.entries)
    BY CleanBatches DEF AllClean
  <2> HIDE DEF item
  <2>4. CASE push_queue' = Append(push_queue, item)
    BY <2>2, <2>3, <2>4, QueueContents DEF AllClean, TypeOK
  <2> QED BY <2>1, <2>4 DEF AllClean
<1> QED BY <1>1, <1>2, <1>3 DEF AllClean, Clean, CleanCache, Present

LEMMA CleanPusher ==
  ASSUME TypeOK, AllClean, PusherStep PROVE AllClean'
<1>1. UNCHANGED <<poller, latest_prices, chain, answer, oracle_prices>>
  BY DEF PusherStep, poller_vars, fetch_vars, listener_vars
<1>2. CASE PusherGets
  <2>1. /\ Len(push_queue) \in Nat /\ Len(push_queue) > 0
        /\ Len(push_queue') = Len(push_queue) - 1
        /\ \A i \in 1..(Len(push_queue) - 1) : push_queue'[i] = push_queue[i + 1]
        /\ in_flight' = {push_queue[1]}
        /\ unaccepted' = Update(unaccepted, push_queue[1].entries)
    BY <1>2, QueueContents DEF PusherGets, Send, TypeOK
  <2>2. \A i \in 1..Len(push_queue') : Clean(push_queue'[i].entries)
    BY <2>1 DEF AllClean
  <2>3. Clean(push_queue[1].entries)
    BY <2>1 DEF AllClean
  <2>4. Clean(unaccepted)'
    BY <2>1, <2>3, CleanBatches DEF AllClean, Clean
  <2> QED BY <1>1, <1>2, <2>1, <2>2, <2>3, <2>4 DEF PusherGets, AllClean, Clean, CleanCache, Present
<1>3. CASE PublishSucceeds
  BY <1>1, <1>3, CleanFrame DEF PublishSucceeds, queue_vars
<1>4. CASE PusherSettles
  BY <1>1, <1>4 DEF PusherSettles, TaskDone, AllClean, Clean, CleanCache, Present
<1>5. CASE PublishFails
  BY <1>1, <1>5 DEF PublishFails, TaskDone, AllClean, Clean, CleanCache, Present
<1>6. CASE PublishRetries
  <2>1. PICK item \in in_flight : unaccepted' = Update(unaccepted, item.entries)
    BY <1>6 DEF PublishRetries, Send
  <2>2. Clean(unaccepted)'
    BY <2>1, CleanBatches DEF AllClean, Clean
  <2> QED BY <1>1, <1>6, <2>2 DEF PublishRetries, queue_vars, AllClean, Clean, CleanCache, Present
<1> QED BY <1>2, <1>3, <1>4, <1>5, <1>6 DEF PusherStep

LEMMA CleanChain ==
  ASSUME AllClean, ChainAccepts PROVE AllClean'
<1>1. PICK K : chain' = Update(chain, Only(unaccepted, K)) /\ unaccepted' = Without(unaccepted, K)
  BY DEF ChainAccepts
<1>2. Clean(chain)' /\ Clean(unaccepted)'
  BY <1>1, CleanBatches DEF AllClean, Clean
<1> QED BY <1>2 DEF ChainAccepts, poller_vars, queue_vars, fetch_vars, listener_vars,
                    pusher_vars, AllClean, Clean, CleanCache, Present

LEMMA CleanRestart ==
  ASSUME AllClean, Restart PROVE AllClean'
<1>1. \A l \in Listeners : CleanCache(answer'[l]) /\ CleanCache(oracle_prices'[l])
  BY DEF Restart, CleanCache, Present, NoEntry
<1>2. Clean(latest_prices)'
  BY CleanBatches DEF Restart, Clean
<1> QED BY <1>1, <1>2 DEF Restart, chain_vars, AllClean, Clean, CleanCache, Present

LEMMA CleanInit == Init => AllClean
<1> SUFFICES ASSUME Init PROVE AllClean
  OBVIOUS
<1>1. \A l \in Listeners : CleanCache(answer[l]) /\ CleanCache(oracle_prices[l])
  BY DEF Init, ProcessInit, CleanCache, Present, NoEntry
<1>2. Clean(latest_prices) /\ Clean(unaccepted) /\ Clean(chain)
  BY CleanBatches DEF Init, ProcessInit
<1>3. poller = "polling" /\ crashed = "no"
  BY DEF Init, ProcessInit
<1>4. push_queue = << >> /\ in_flight = {}
  BY DEF Init, ProcessInit
<1>5. \A i \in 1..Len(push_queue) : Clean(push_queue[i].entries)
  BY <1>4
<1>6. \A item \in in_flight : Clean(item.entries)
  BY <1>4
<1> QED BY <1>1, <1>2, <1>3, <1>5, <1>6 DEF AllClean

LEMMA NextClean ==
  ASSUME ~OnchainPoller, TypeOK, AllClean, [Next]_vars PROVE AllClean'
<1>1. CASE MidenStep
  BY <1>1, CleanFrame DEF MidenStep, chain_vars, poller_vars, pusher_vars, queue_vars,
                          listener_vars, fetch_vars
<1>2. CASE UNCHANGED vars
  BY <1>2, CleanFrame DEF vars, chain_vars, poller_vars, pusher_vars, queue_vars,
                          listener_vars, fetch_vars
<1> QED BY <1>1, <1>2, CleanPoller, CleanListener, CleanHandler, CleanPusher, CleanChain,
           CleanRestart DEF Next, Stopped

\* With a poller that filters, no listener ever raises for a missing expiry or divides
\* by an oracle price of 0, whatever the oracle held, is pushed late, or is cached over
\* a restart (_filter_zeros_and_non_perp_from_entries, _does_oracle_needs_update).
THEOREM FilteredPollsAreSafe == Spec => []FilteredPollsNeverCrash
<1> DEFINE Safe == ~OnchainPoller => AllClean
<1>1. TypeOK /\ Safe /\ [Next]_vars => Safe'
  BY NextClean
<1>2. Init => Safe
  BY CleanInit
<1>3. Safe => FilteredPollsNeverCrash
  BY DEF AllClean, FilteredPollsNeverCrash
<1> HIDE DEF Safe
<1> QED BY <1>1, <1>2, <1>3, TypeCorrect, PTL DEF Spec
-----------------------------------------------------------------------------
(* What the process promises of each price *)

\* Some batch in flight has an entry of the key.
Sending(k) == \E item \in in_flight : Present(item.entries[k])

\* What is being published is accepted, or may still be; the pusher goes on when all is.
Published ==
  /\ \A item \in in_flight : \A k \in KeysOf(item.entries) :
       \/ unaccepted[k] = item.entries[k]
       \/ ~Present(unaccepted[k]) /\ chain[k] = item.entries[k]
  /\ pusher = "settling" => AllAccepted

\* The variables of the promise, now and next.
LEMMA PromiseVars ==
  /\ Promise!vars = <<clock, latest_prices, [k \in Keys |-> OnTheirWay(k)],
                      [k \in Keys |-> GivenUp(k)], chain>>
  /\ Promise!vars' = <<clock', latest_prices', [k \in Keys |-> OnTheirWay(k)'],
                       [k \in Keys |-> GivenUp(k)'], chain'>>
BY DEF Promise!vars, OnTheirWay, GivenUp, Keys

LEMMA InitPromised == Init => Promise!Init /\ Published
BY DEF Init, ProcessInit, Promise!Init, Promise!None, Published, NoBatch, NoEntry,
       OnTheirWay, GivenUp, Outstanding, Present, KeysOf

\* A publication is kept in sight until all of it is accepted, or given up.
LEMMA PusherPublished ==
  ASSUME TypeOK, Pipeline, Published, PusherStep PROVE Published'
<1>1. UNCHANGED chain
  BY DEF PusherStep
<1>2. CASE PusherGets
  <2>1. /\ in_flight' = {push_queue[1]} /\ pusher' = "publishing"
        /\ unaccepted' = Update(unaccepted, push_queue[1].entries)
    BY <1>2, QueueContents DEF PusherGets, Send, TypeOK
  <2>2. \A k \in KeysOf(push_queue[1].entries) : unaccepted'[k] = push_queue[1].entries[k]
    BY <2>1 DEF KeysOf, Update
  <2> QED BY <2>1, <2>2 DEF Published, KeysOf
<1>3. CASE PublishSucceeds
  BY <1>1, <1>3 DEF PublishSucceeds, Published, AllAccepted, KeysOf
<1>4. CASE PusherSettles
  BY <1>4 DEF PusherSettles, TaskDone, Published
<1>5. CASE PublishFails
  <2>1. CASE TaskDone
    BY <2>1 DEF TaskDone, Published
  <2>2. CASE UNCHANGED <<pusher, in_flight>>
    BY <1>1, <1>5, <2>2 DEF PublishFails, Published, AllAccepted, KeysOf
  <2> QED BY <1>5, <2>1, <2>2 DEF PublishFails
<1>6. CASE PublishRetries
  <2>1. PICK item \in in_flight : unaccepted' = Update(unaccepted, item.entries)
    BY <1>6 DEF PublishRetries, Send
  <2>2. \A x \in in_flight : x = item
    BY DEF Pipeline
  <2>3. UNCHANGED in_flight /\ pusher' = "publishing"
    BY <1>6 DEF PublishRetries
  <2>4. \A k \in KeysOf(item.entries) : unaccepted'[k] = item.entries[k]
    BY <2>1 DEF KeysOf, Update
  <2> QED BY <2>2, <2>3, <2>4 DEF Published, KeysOf
<1> QED BY <1>2, <1>3, <1>4, <1>5, <1>6 DEF PusherStep

LEMMA ChainPublished ==
  ASSUME Published, ChainAccepts PROVE Published'
<1>1. PICK K \in SUBSET KeysOf(unaccepted) :
        /\ chain' = Update(chain, Only(unaccepted, K))
        /\ unaccepted' = Without(unaccepted, K)
  BY DEF ChainAccepts
<1>2. UNCHANGED <<in_flight, pusher>>
  BY DEF ChainAccepts, pusher_vars
<1>3. \A k \in Keys : \/ /\ k \in K /\ Present(unaccepted[k])
                         /\ chain'[k] = unaccepted[k] /\ unaccepted'[k] = NoEntry
                      \/ k \notin K /\ chain'[k] = chain[k] /\ unaccepted'[k] = unaccepted[k]
  BY <1>1 DEF Update, Only, Without, KeysOf, Present, NoEntry
<1>4. ~Present(NoEntry)
  BY DEF Present, NoEntry
<1> QED BY <1>2, <1>3, <1>4 DEF Published, AllAccepted, KeysOf

LEMMA NextPublished ==
  ASSUME TypeOK, Pipeline, Published, [Next]_vars PROVE Published'
<1>1. CASE UNCHANGED <<pusher, in_flight, unaccepted, chain>>
  BY <1>1 DEF Published, AllAccepted, KeysOf
<1>2. CASE Restart
  BY <1>2 DEF Restart, Published
<1>3. PollerStep \/ MidenStep \/ UNCHANGED vars
        => UNCHANGED <<pusher, in_flight, unaccepted, chain>>
  BY DEF PollerStep, MidenStep, vars, pusher_vars, chain_vars
<1>4. \A l \in Listeners : ListenerStep(l) \/ HandlerStep(l)
        => UNCHANGED <<pusher, in_flight, unaccepted, chain>>
  BY DEF ListenerStep, HandlerStep, pusher_vars, chain_vars
<1> QED BY <1>1, <1>2, <1>3, <1>4, PusherPublished, ChainPublished DEF Next, Stopped

\* A step that moves no price.
LEMMA PromiseFrame ==
  ASSUME UNCHANGED <<clock, latest_prices, push_queue, in_flight, unaccepted, chain>>
  PROVE  UNCHANGED Promise!vars
BY PromiseVars DEF OnTheirWay, GivenUp, Outstanding

\* A price that was sent and not accepted is the oldest of those on their way.
LEMMA OldestIsSending ==
  ASSUME TypeOK, Pipeline, Order, NEW item \in in_flight, NEW k \in KeysOf(item.entries)
  PROVE  Promise!Oldest(k) = {item.entries[k]}
<1>1. k \in Keys /\ Present(item.entries[k]) /\ Ordered(k)
  BY DEF KeysOf, Order
<1>2. item.entries[k] \in OnTheirWay(k)
  BY <1>1 DEF OnTheirWay, Outstanding
<1>3. \A d \in OnTheirWay(k) : d = item.entries[k] \/ item.entries[k].ts < d.ts
  BY <1>1 DEF OnTheirWay, Outstanding, Pipeline, Ordered
<1>4. \A d \in OnTheirWay(k) : d.ts \in Nat
  BY <1>1, TimestampTypes DEF OnTheirWay, Outstanding
<1>5. Promise!Oldest(k) = {e \in OnTheirWay(k) : \A d \in OnTheirWay(k) : e.ts =< d.ts}
  BY <1>1 DEF Promise!Oldest
<1> QED BY <1>2, <1>3, <1>4, <1>5

\* A poll that returns is a collection.
LEMMA PollCollects ==
  ASSUME TypeOK, NEW entries, CallbackUpdatePrices(entries), clock' = clock + 1,
         \A k \in Keys :
           entries[k] \in {NoEntry} \cup {[price |-> p, ts |-> clock + 1] : p \in Prices},
         UNCHANGED <<push_queue, in_flight, unaccepted, chain>>
  PROVE  Promise!Collect
<1> DEFINE Fresh1 == {NoEntry} \cup {[price |-> p, ts |-> clock + 1] : p \in Prices}
           new == [k \in Keys |-> entries[k]]
<1>1. new \in [Keys -> Fresh1]
  OBVIOUS
<1>2. \A k \in Keys : Present(entries[k]) <=> entries[k] # NoEntry
  <2>1. clock \in Nat /\ clock + 1 # 0 /\ ~Present(NoEntry)
    BY DEF TypeOK, Present, NoEntry
  <2>2. \A p \in Prices : Present([price |-> p, ts |-> clock + 1])
    BY <2>1 DEF Present
  <2>3. \A e \in Fresh1 : e = NoEntry \/ Present(e)
    BY <2>2
  <2> QED BY <2>1, <2>3
<1>3. latest_prices' = [k \in Keys |-> IF new[k] = NoEntry THEN latest_prices[k] ELSE new[k]]
  BY <1>2 DEF CallbackUpdatePrices, Update
<1>4. UNCHANGED <<[k \in Keys |-> OnTheirWay(k)], [k \in Keys |-> GivenUp(k)], chain>>
  BY DEF OnTheirWay, GivenUp, Outstanding
<1>5. Promise!None = NoEntry
  BY DEF Promise!None, NoEntry
<1> HIDE DEF new
<1> QED BY <1>1, <1>3, <1>4, <1>5 DEF Promise!Collect

LEMMA PollerPromised ==
  ASSUME TypeOK, PollerStep PROVE Promise!Collect \/ UNCHANGED Promise!vars
<1>1. UNCHANGED <<push_queue, in_flight, unaccepted, chain>>
  BY DEF PollerStep, queue_vars, pusher_vars, chain_vars
<1>2. ASSUME NEW entries \in FetchResults, NEW k \in Keys
      PROVE  /\ entries[k] \in {NoEntry} \cup {[price |-> p, ts |-> clock + 1] : p \in Prices}
             /\ Filter(entries)[k] \in
                  {NoEntry} \cup {[price |-> p, ts |-> clock + 1] : p \in Prices}
  BY DEF FetchResults, Filter, Only
<1>3. CASE PollSucceeds
  <2>1. PICK entries \in FetchResults : CallbackUpdatePrices(Filter(entries))
    BY <1>3 DEF PollSucceeds
  <2> QED BY <1>1, <1>2, <1>3, <2>1, PollCollects DEF PollSucceeds
<1>4. CASE PollFails
  BY <1>1, <1>4, PromiseFrame DEF PollFails
<1>5. CASE RetryEnds
  <2>1. CASE UNCHANGED <<poller_vars, latest_prices>>
    BY <1>1, <2>1, PromiseFrame DEF poller_vars
  <2>2. CASE \E entries \in FetchResults :
               CallbackUpdatePrices(entries) /\ clock' = clock + 1
    BY <1>1, <1>2, <2>2, PollCollects
  <2> QED BY <1>5, <2>1, <2>2 DEF RetryEnds
<1> QED BY <1>3, <1>4, <1>5 DEF PollerStep

\* The batches on their way once one is put in the queue.
LEMMA OutstandingPut ==
  ASSUME TypeOK, NEW item \in Item, push_queue' = Append(push_queue, item),
         UNCHANGED in_flight
  PROVE  Outstanding' = Outstanding \cup {item}
<1>1. /\ Len(push_queue') = Len(push_queue) + 1 /\ Len(push_queue) \in Nat
      /\ push_queue'[Len(push_queue) + 1] = item
      /\ \A i \in 1..Len(push_queue) : push_queue'[i] = push_queue[i]
  BY QueueContents DEF TypeOK
<1>2. {push_queue'[i] : i \in 1..Len(push_queue')}
        = {push_queue[i] : i \in 1..Len(push_queue)} \cup {item}
  BY <1>1
<1> QED BY <1>2 DEF Outstanding

\* The batches on their way once the pusher has taken one.
LEMMA OutstandingTaken ==
  ASSUME TypeOK, Pipeline, PusherGets
  PROVE  /\ Outstanding' = Outstanding
         /\ in_flight = {} /\ in_flight' = {push_queue[1]}
         /\ unaccepted' = Update(unaccepted, push_queue[1].entries)
<1>1. /\ Len(push_queue) \in Nat /\ Len(push_queue) > 0
      /\ Len(push_queue') = Len(push_queue) - 1
      /\ \A i \in 1..(Len(push_queue) - 1) : push_queue'[i] = push_queue[i + 1]
      /\ in_flight' = {push_queue[1]}
      /\ unaccepted' = Update(unaccepted, push_queue[1].entries)
  BY QueueContents DEF PusherGets, Send, TypeOK
<1>2. in_flight = {}
  BY DEF PusherGets, Pipeline
<1>3. \A i \in 1..Len(push_queue) : i = 1 \/ (i - 1 \in 1..Len(push_queue') /\ push_queue[i] = push_queue'[i - 1])
  BY <1>1
<1>4. \A i \in 1..Len(push_queue') : i + 1 \in 1..Len(push_queue) /\ push_queue'[i] = push_queue[i + 1]
  BY <1>1
<1>5. 1 \in 1..Len(push_queue)
  BY <1>1
<1> QED BY <1>1, <1>2, <1>3, <1>4, <1>5 DEF Outstanding

\* A flush sends the prices that wait for the keys flushed; the event is cleared, or
\* there was nothing to flush, without moving a price.
LEMMA HandlerPromised ==
  ASSUME TypeOK, NEW l \in Listeners, HandlerStep(l)
  PROVE  Promise!Send \/ UNCHANGED Promise!vars
<1> DEFINE K == Flushed(l)
           item == [owner |-> l, entries |-> Only(latest_prices, K)]
<1>1. UNCHANGED <<clock, in_flight, unaccepted, chain>>
  BY DEF HandlerStep, poller_vars, pusher_vars, chain_vars
<1>2. K \in SUBSET {k \in Keys : Present(latest_prices[k])}
  BY DEF Flushed, KeysOf
<1>3. /\ ~Present(NoEntry) /\ Promise!None = NoEntry
      /\ \A k \in Keys : Present(latest_prices[k]) => latest_prices[k] # NoEntry
  BY DEF Present, NoEntry, Promise!None
<1>4. ASSUME HandlerFlushes(l)
      PROVE  latest_prices' = [k \in Keys |-> IF k \in K THEN NoEntry ELSE latest_prices[k]]
  BY <1>2, <1>4 DEF HandlerFlushes, FlushLeaves, Without, Only
<1>5. CASE HandlerFlushes(l) /\ K # {}
  <2>1. push_queue' = Append(push_queue, item)
    BY <1>5 DEF HandlerFlushes, Put
  <2>2. item \in Item
    BY BatchType DEF Item, TypeOK
  <2>3. \A k \in Keys : item.entries[k] = IF k \in K THEN latest_prices[k] ELSE NoEntry
    BY DEF Only
  <2> HIDE DEF item, K
  <2>4. Outstanding' = Outstanding \cup {item}
    BY <1>1, <2>1, <2>2, OutstandingPut
  <2>5. ASSUME NEW k \in Keys
        PROVE  OnTheirWay(k)' = IF k \in K THEN OnTheirWay(k) \cup {latest_prices[k]}
                                           ELSE OnTheirWay(k)
    <3>1. {i \in Outstanding' : Present(i.entries[k])}
            = IF k \in K THEN {i \in Outstanding : Present(i.entries[k])} \cup {item}
                         ELSE {i \in Outstanding : Present(i.entries[k])}
      BY <1>2, <1>3, <2>3, <2>4
    <3>2. OnTheirWay(k)' = {i.entries[k] : i \in {i \in Outstanding' : Present(i.entries[k])}}
      BY DEF OnTheirWay
    <3>3. CASE k \in K
      BY <2>3, <3>1, <3>2, <3>3 DEF OnTheirWay
    <3>4. CASE k \notin K
      BY <3>1, <3>2, <3>4 DEF OnTheirWay
    <3> QED BY <3>3, <3>4
  <2>6. UNCHANGED [k \in Keys |-> GivenUp(k)]
    BY <1>1 DEF GivenUp
  <2>7. [k \in Keys |-> OnTheirWay(k)'] =
          [k \in Keys |-> IF k \in K THEN OnTheirWay(k) \cup {latest_prices[k]}
                                     ELSE OnTheirWay(k)]
    BY <2>5
  <2> QED BY <1>1, <1>2, <1>3, <1>4, <1>5, <2>6, <2>7 DEF Promise!Send
<1>6. CASE HandlerFlushes(l) /\ K = {}
  <2>1. latest_prices' = latest_prices
    BY <1>4, <1>6 DEF TypeOK, Batch
  <2>2. UNCHANGED push_queue
    BY <1>6 DEF HandlerFlushes, queue_vars
  <2> QED BY <1>1, <2>1, <2>2, PromiseFrame
<1>7. CASE HandlerClears(l)
  BY <1>1, <1>7, PromiseFrame DEF HandlerClears, queue_vars
<1> QED BY <1>5, <1>6, <1>7 DEF HandlerStep

\* What is accepted is the oldest price on its way or one that was given up; no price
\* on its way is older, and the oracle's is not newer.
LEMMA AcceptedIsAcceptable ==
  ASSUME TypeOK, Pipeline, Order, Published, NEW k \in KeysOf(unaccepted)
  PROVE  /\ unaccepted[k] \in Promise!Acceptable(k)
         /\ GivenUp(k) \subseteq {unaccepted[k]}
         /\ Sending(k) => GivenUp(k) = {}
<1>1. k \in Keys /\ Present(unaccepted[k]) /\ Ordered(k)
  BY DEF KeysOf, Order
<1>2. chain[k].ts =< unaccepted[k].ts
  BY <1>1 DEF Ordered
<1>3. \A d \in OnTheirWay(k) : unaccepted[k].ts =< d.ts
  <2>1. \A item \in in_flight : Present(item.entries[k]) => unaccepted[k].ts =< item.entries[k].ts
    BY <1>1 DEF Ordered
  <2>2. \A i \in 1..Len(push_queue) :
          Present(push_queue[i].entries[k]) => unaccepted[k].ts =< push_queue[i].entries[k].ts
    BY <1>1, TimestampTypes DEF Ordered
  <2> QED BY <2>1, <2>2 DEF OnTheirWay, Outstanding
<1>4. unaccepted[k] \in Promise!Oldest(k) \cup GivenUp(k)
  <2>1. CASE Sending(k)
    <3>1. PICK item \in in_flight : Present(item.entries[k])
      BY <2>1 DEF Sending
    <3>2. item.entries[k] = unaccepted[k]
      BY <1>1, <3>1 DEF Published, KeysOf
    <3> QED BY <1>1, <3>1, <3>2, OldestIsSending DEF KeysOf
  <2>2. CASE ~Sending(k)
    BY <1>1, <2>2 DEF Sending, GivenUp
  <2> QED BY <2>1, <2>2
<1>5. GivenUp(k) \subseteq {unaccepted[k]} /\ (Sending(k) => GivenUp(k) = {})
  BY DEF GivenUp, Sending
<1> QED BY <1>1, <1>2, <1>3, <1>4, <1>5 DEF Promise!Acceptable

LEMMA ChainPromised ==
  ASSUME TypeOK, Pipeline, Order, Published, ChainAccepts PROVE Promise!Accept
<1>1. PICK K \in SUBSET KeysOf(unaccepted) :
        /\ chain' = Update(chain, Only(unaccepted, K))
        /\ unaccepted' = Without(unaccepted, K)
  BY DEF ChainAccepts
<1> DEFINE e == [k \in K |-> unaccepted[k]]
<1>2. UNCHANGED <<clock, latest_prices, push_queue, in_flight>>
  BY DEF ChainAccepts, poller_vars, queue_vars, pusher_vars
<1>3. K \in SUBSET Keys /\ \A k \in K : Present(unaccepted[k])
  BY DEF KeysOf
<1>4. ~Present(NoEntry)
  BY DEF Present, NoEntry
<1>5. \A k \in K : e[k] \in Promise!Acceptable(k)
  BY AcceptedIsAcceptable
<1>6. e \in [K -> UNION {Promise!Acceptable(k) : k \in K}]
  BY <1>5
<1>7. chain' = [k \in Keys |-> IF k \in K THEN e[k] ELSE chain[k]]
  BY <1>1, <1>3, <1>4 DEF Update, Only
<1>8. \A k \in Keys :
        GivenUp(k)' = IF k \in K THEN GivenUp(k) \ {e[k]} ELSE GivenUp(k)
  <2> SUFFICES ASSUME NEW k \in Keys
               PROVE  GivenUp(k)' = IF k \in K THEN GivenUp(k) \ {e[k]} ELSE GivenUp(k)
    OBVIOUS
  <2>1. CASE k \in K
    <3>1. ~Present(unaccepted'[k])
      BY <1>1, <1>4, <2>1 DEF Without, Only
    <3>2. GivenUp(k)' = {}
      BY <3>1 DEF GivenUp
    <3> QED BY <2>1, <3>2, AcceptedIsAcceptable
  <2>2. CASE k \notin K
    <3>1. unaccepted'[k] = unaccepted[k]
      BY <1>1, <2>2 DEF Without, Only
    <3> QED BY <1>2, <2>2, <3>1 DEF GivenUp
  <2> QED BY <2>1, <2>2
<1>9. [k \in Keys |-> GivenUp(k)'] =
        [k \in Keys |-> IF k \in K THEN GivenUp(k) \ {e[k]} ELSE GivenUp(k)]
  BY <1>8
<1>10. UNCHANGED [k \in Keys |-> OnTheirWay(k)]
  BY <1>2 DEF OnTheirWay, Outstanding
<1> HIDE DEF e
<1> QED BY <1>2, <1>3, <1>5, <1>6, <1>7, <1>9, <1>10 DEF Promise!Accept

\* What is taken from the queue replaces what was given up of its keys.
LEMMA GetPromised ==
  ASSUME TypeOK, Pipeline, PusherGets, UNCHANGED <<clock, latest_prices, chain>>
  PROVE  Promise!Forget
<1> DEFINE K == KeysOf(push_queue[1].entries)
<1>1. UNCHANGED [k \in Keys |-> OnTheirWay(k)]
  BY OutstandingTaken DEF OnTheirWay
<1>2. \A k \in Keys : GivenUp(k)' = IF k \in K THEN {} ELSE GivenUp(k)
  BY OutstandingTaken DEF GivenUp, KeysOf, Update
<1>3. [k \in Keys |-> GivenUp(k)'] = [k \in Keys |-> IF k \in K THEN {} ELSE GivenUp(k)]
  BY <1>2
<1>4. K \in SUBSET Keys
  BY DEF KeysOf
<1> HIDE DEF K
<1> QED BY <1>1, <1>3, <1>4 DEF Promise!Forget

\* When no batch is in flight any more, the oldest price of each key it had is no longer
\* on its way, and the others are.
LEMMA OnTheirWayAfter ==
  ASSUME TypeOK, Pipeline, Order, in_flight' = {}, UNCHANGED push_queue, NEW k \in Keys
  PROVE  OnTheirWay(k)' = IF Sending(k) THEN OnTheirWay(k) \ Promise!Oldest(k)
                                        ELSE OnTheirWay(k)
<1> DEFINE queued == {push_queue[i] : i \in 1..Len(push_queue)}
<1>1. OnTheirWay(k)' = {i.entries[k] : i \in {i \in queued : Present(i.entries[k])}}
  BY DEF OnTheirWay, Outstanding
<1>2. CASE Sending(k)
  <2>1. PICK item \in in_flight : Present(item.entries[k])
    BY <1>2 DEF Sending
  <2>2. Outstanding = queued \cup {item}
    BY <2>1 DEF Outstanding, Pipeline
  <2>3. Promise!Oldest(k) = {item.entries[k]}
    BY <2>1, OldestIsSending DEF KeysOf
  <2>4. \A i \in queued : Present(i.entries[k]) => i.entries[k] # item.entries[k]
    BY <2>1, TimestampTypes DEF Order, Ordered
  <2> HIDE DEF queued
  <2>5. OnTheirWay(k) =
          {i.entries[k] : i \in {i \in queued : Present(i.entries[k])}} \cup {item.entries[k]}
    BY <2>1, <2>2 DEF OnTheirWay
  <2> QED BY <1>1, <1>2, <2>3, <2>4, <2>5
<1>3. CASE ~Sending(k)
  <2>1. {i \in Outstanding : Present(i.entries[k])} = {i \in queued : Present(i.entries[k])}
    BY <1>3 DEF Sending, Outstanding
  <2> HIDE DEF queued
  <2> QED BY <1>1, <1>3, <2>1 DEF OnTheirWay
<1> QED BY <1>2, <1>3

\* A price that was being sent and is not accepted may still be, once no batch is in
\* flight.
LEMMA GivenUpAfter ==
  ASSUME TypeOK, Pipeline, Order, Published, in_flight' = {}, UNCHANGED unaccepted,
         NEW k \in Keys
  PROVE  GivenUp(k)' = IF Sending(k) /\ Present(unaccepted[k]) THEN Promise!Oldest(k)
                                                               ELSE GivenUp(k)
<1>1. GivenUp(k)' = IF Present(unaccepted[k]) THEN {unaccepted[k]} ELSE {}
  BY DEF GivenUp
<1>2. CASE Sending(k) /\ Present(unaccepted[k])
  <2>1. PICK item \in in_flight : Present(item.entries[k])
    BY <1>2 DEF Sending
  <2>2. Promise!Oldest(k) = {item.entries[k]}
    BY <2>1, OldestIsSending DEF KeysOf
  <2>3. item.entries[k] = unaccepted[k]
    BY <1>2, <2>1 DEF Published, KeysOf
  <2> QED BY <1>1, <1>2, <2>2, <2>3
<1>3. CASE ~Sending(k) \/ ~Present(unaccepted[k])
  BY <1>1, <1>3 DEF GivenUp, Sending
<1> QED BY <1>2, <1>3

\* The end of a publication that succeeded: the oracle holds what was sent.
LEMMA SettlePromised ==
  ASSUME TypeOK, Pipeline, Order, Published, PusherSettles,
         UNCHANGED <<clock, latest_prices, chain>>
  PROVE  Promise!Finish
<1> DEFINE K == {k \in Keys : Sending(k)}
<1>1. in_flight' = {} /\ UNCHANGED <<push_queue, unaccepted>>
  BY DEF PusherSettles, TaskDone
<1>2. ASSUME NEW k \in K
      PROVE  ~Present(unaccepted[k]) /\ Promise!Oldest(k) = {chain[k]}
  <2>1. PICK item \in in_flight : Present(item.entries[k])
    BY <1>2 DEF Sending
  <2>2. k \in KeysOf(item.entries) /\ AllAccepted
    BY <2>1 DEF KeysOf, Published, PusherSettles
  <2>3. ~Present(unaccepted[k])
    BY <2>2 DEF AllAccepted, KeysOf
  <2>4. chain[k] = item.entries[k]
    BY <2>1, <2>2, <2>3 DEF Published
  <2> QED BY <2>2, <2>3, <2>4, OldestIsSending
<1>3. [k \in Keys |-> OnTheirWay(k)'] =
        [k \in Keys |-> IF k \in K THEN OnTheirWay(k) \ {chain[k]} ELSE OnTheirWay(k)]
  BY <1>1, <1>2, OnTheirWayAfter
<1>4. UNCHANGED [k \in Keys |-> GivenUp(k)]
  BY <1>1, <1>2, GivenUpAfter
<1>5. K \in SUBSET Keys
  OBVIOUS
<1> HIDE DEF K
<1> QED BY <1>3, <1>4, <1>5 DEF Promise!Finish

\* A publication that fails: what it was sending is given up.
LEMMA FailPromised ==
  ASSUME TypeOK, Pipeline, Order, Published, PublishFails,
         UNCHANGED <<clock, latest_prices, chain>>
  PROVE  Promise!GiveUp \/ UNCHANGED Promise!vars
<1> DEFINE K == {k \in Keys : Sending(k)}
           L == {k \in K : Present(unaccepted[k])}
<1>1. UNCHANGED <<push_queue, unaccepted>> /\ "publish" \in Faults
  BY DEF PublishFails
<1>2. CASE UNCHANGED in_flight
  BY <1>1, <1>2, PromiseFrame
<1>3. CASE in_flight' = {}
  <2>1. [k \in Keys |-> OnTheirWay(k)'] =
          [k \in Keys |-> IF k \in K THEN OnTheirWay(k) \ Promise!Oldest(k) ELSE OnTheirWay(k)]
    BY <1>1, <1>3, OnTheirWayAfter
  <2>2. [k \in Keys |-> GivenUp(k)'] =
          [k \in Keys |-> IF k \in L THEN Promise!Oldest(k) ELSE GivenUp(k)]
    BY <1>1, <1>3, GivenUpAfter
  <2>3. K \in SUBSET Keys /\ L \in SUBSET K
    OBVIOUS
  <2> HIDE DEF K, L
  <2> QED BY <1>1, <2>1, <2>2, <2>3 DEF Promise!GiveUp
<1> QED BY <1>2, <1>3 DEF PublishFails, TaskDone

\* A retry sends again what is being sent.
LEMMA RetryPromised ==
  ASSUME Pipeline, PublishRetries, UNCHANGED <<clock, latest_prices, chain>>
  PROVE  UNCHANGED Promise!vars
<1>1. PICK item \in in_flight : unaccepted' = Update(unaccepted, item.entries)
  BY DEF PublishRetries, Send
<1>2. UNCHANGED <<push_queue, in_flight>>
  BY DEF PublishRetries, queue_vars
<1>3. \A k \in Keys : GivenUp(k)' = GivenUp(k)
  BY <1>1, <1>2 DEF GivenUp, Update
<1>4. \A k \in Keys : OnTheirWay(k)' = OnTheirWay(k)
  BY <1>2 DEF OnTheirWay, Outstanding
<1>5. /\ [k \in Keys |-> OnTheirWay(k)'] = [k \in Keys |-> OnTheirWay(k)]
      /\ [k \in Keys |-> GivenUp(k)'] = [k \in Keys |-> GivenUp(k)]
  BY <1>3, <1>4
<1> QED BY <1>5, PromiseVars

LEMMA PusherPromised ==
  ASSUME TypeOK, Pipeline, Order, Published, PusherStep
  PROVE  [Promise!Next]_(Promise!vars)
<1>1. UNCHANGED <<clock, latest_prices, chain>>
  BY DEF PusherStep, poller_vars
<1>2. CASE PusherGets
  BY <1>1, <1>2, GetPromised DEF Promise!Next
<1>3. CASE PublishSucceeds
  BY <1>1, <1>3, PromiseFrame DEF PublishSucceeds, queue_vars
<1>4. CASE PusherSettles
  BY <1>1, <1>4, SettlePromised DEF Promise!Next
<1>5. CASE PublishFails
  BY <1>1, <1>5, FailPromised DEF Promise!Next
<1>6. CASE PublishRetries
  BY <1>1, <1>6, RetryPromised
<1> QED BY <1>2, <1>3, <1>4, <1>5, <1>6 DEF PusherStep

\* A restart loses what waits and what is on its way; what was being sent may still be
\* accepted.
LEMMA RestartPromised ==
  ASSUME TypeOK, Pipeline, Order, Published, Restart PROVE Promise!Restart
<1> DEFINE L == {k \in Keys : Sending(k) /\ Present(unaccepted[k])}
<1>1. /\ in_flight' = {} /\ push_queue' = <<>> /\ latest_prices' = NoBatch
      /\ UNCHANGED <<clock, chain, unaccepted>>
  BY DEF Restart, chain_vars
<1>2. MaxRestarts > 0
  BY OrchestratorAssumption DEF Restart, TypeOK
<1>3. latest_prices' = [k \in Keys |-> Promise!None]
  BY <1>1 DEF NoBatch, NoEntry, Promise!None
<1>4. Outstanding' = {}
  BY <1>1 DEF Outstanding
<1>5. [k \in Keys |-> OnTheirWay(k)'] = [k \in Keys |-> {}]
  BY <1>4 DEF OnTheirWay
<1>6. [k \in Keys |-> GivenUp(k)'] =
        [k \in Keys |-> IF k \in L THEN Promise!Oldest(k) ELSE GivenUp(k)]
  BY <1>1, GivenUpAfter
<1>7. L \in SUBSET Keys
  OBVIOUS
<1> HIDE DEF L
<1> QED BY <1>1, <1>2, <1>3, <1>5, <1>6, <1>7 DEF Promise!Restart

\* Every step of the process is one of the promise, or moves no price.
LEMMA NextPromised ==
  ASSUME TypeOK, Pipeline, Order, Published, [Next]_vars
  PROVE  [Promise!Next]_(Promise!vars)
<1>1. CASE MidenStep \/ UNCHANGED vars
  BY <1>1, PromiseFrame
     DEF MidenStep, vars, poller_vars, queue_vars, pusher_vars, chain_vars
<1>2. CASE PollerStep
  BY <1>2, PollerPromised DEF Promise!Next
<1>3. ASSUME NEW l \in Listeners, ListenerStep(l) PROVE UNCHANGED Promise!vars
  BY <1>3, PromiseFrame
     DEF ListenerStep, poller_vars, queue_vars, pusher_vars, chain_vars
<1>4. ASSUME NEW l \in Listeners, HandlerStep(l) PROVE Promise!Send \/ UNCHANGED Promise!vars
  BY <1>4, HandlerPromised
<1>5. CASE PusherStep
  BY <1>5, PusherPromised
<1>6. CASE ChainAccepts
  BY <1>6, ChainPromised DEF Promise!Next
<1>7. CASE Restart
  BY <1>7, RestartPromised DEF Promise!Next
<1> QED BY <1>1, <1>2, <1>3, <1>4, <1>5, <1>6, <1>7 DEF Next, Stopped, Promise!Next

\* The process implements the promise made of each price, whatever the interleaving of
\* its tasks, for any number of listeners, assets, sources and polls: what is flushed
\* reaches the oracle in the order it was collected, and is left out only by a
\* publication that fails or by a restart (Orchestrator, PricePusher).
THEOREM PricesAreDelivered == Spec => DeliversPrices
<1> DEFINE Invariant == TypeOK /\ Pipeline /\ Order /\ Published
<1>1. Init => Invariant /\ Promise!Init
  BY InitTypeOK, InitPipeline, InitOrder, InitPromised
<1>2. Invariant /\ [Next]_vars => Invariant'
  BY NextPipeline, NextOrder, NextPublished
<1>3. Invariant /\ [Next]_vars => [Promise!Next]_(Promise!vars)
  BY NextPromised
<1> HIDE DEF Invariant
<1> QED BY <1>1, <1>2, <1>3, PTL DEF Spec, DeliversPrices, Promise!Spec
-----------------------------------------------------------------------------
(* What a notification is based on *)

\* What ties a listener to the pushes it asked for: the oracle holds what they brought,
\* an answer shows what the sources it is about brought, no read is under way while they
\* are, and the cache serves only when nothing is left to read back.
SeenBy(l) ==
  /\ \A k \in Keys : unseen[l][k].ts =< chain[k].ts
  /\ listener[l] = "fetching" => ~notification_event[l]
  /\ awaited[l] # {} => listener[l] = "fetching"
  /\ \A a \in Assets : Present(answer[l][a]) =>
       /\ listener[l] = "fetching"
       /\ \A s \in Requested(asked[l][a]) : unseen[l][<<a, s, Perp>>].ts =< answer[l][a].ts
  /\ notification_event[l] => ~fetched[l]
  /\ ~notification_event[l] /\ listener[l] = "asleep" /\ fetched[l] => unseen[l] = NoBatch

Seen == \A l \in Listeners : SeenBy(l)

\* An answer is at least as new as what the oracle holds of each source it is about.
LEMMA AnswerIsNewest ==
  ASSUME chain \in Batch, NEW a \in Assets, NEW S \in SUBSET Sources,
         NEW s \in Requested(S), Present(ChainAnswer(a, S))
  PROVE  chain[<<a, s, Perp>>].ts =< ChainAnswer(a, S).ts
<1> DEFINE read == PerpSources(chain, a) \cap Requested(S)
           entries == PerpEntries(chain, a)
<1>1. s \in Sources
  BY DEF Requested
<1>2. \A x \in Sources : <<a, x, Perp>> \in Keys
  BY OrchestratorAssumption DEF Keys
<1>3. \A x \in read : entries[x].ts \in Nat
  BY <1>2 DEF PerpEntries, PerpSources, Batch, Entry
<1>4. IsFiniteSet(read)
  BY OrchestratorAssumption, FS_Subset DEF PerpSources
<1>5. read # {}
  BY DEF ChainAnswer, Present, NoEntry
<1>6. ChainAnswer(a, S).ts = NewestTs(entries, read)
  BY <1>5 DEF ChainAnswer, Aggregated
<1>7. NewestTs(entries, read) \in Nat /\ \A x \in read : entries[x].ts =< NewestTs(entries, read)
  <2> HIDE DEF read, entries
  <2> QED BY <1>3, <1>4, <1>5, NewestTsIsNewest
<1>8. CASE s \in read
  BY <1>1, <1>6, <1>7, <1>8 DEF PerpEntries
<1>9. CASE s \notin read
  <2>1. ~Present(chain[<<a, s, Perp>>]) /\ chain[<<a, s, Perp>>].ts \in Nat
    BY <1>1, <1>2, <1>9 DEF PerpSources, Batch, Entry
  <2>2. chain[<<a, s, Perp>>].ts = 0
    BY <2>1 DEF Present
  <2> QED BY <1>6, <1>7, <2>2
<1> QED BY <1>8, <1>9

\* A step that the reads of a listener have no part in, the oracle getting newer.
LEMMA SeenFrame ==
  ASSUME TypeOK, NEW l \in Listeners, SeenBy(l), chain' \in Batch,
         listener'[l] = listener[l], asked'[l] = asked[l], awaited'[l] = awaited[l],
         answer'[l] = answer[l], fetched'[l] = fetched[l], unseen'[l] = unseen[l],
         notification_event'[l] = notification_event[l],
         \A k \in Keys : chain[k].ts =< chain'[k].ts
  PROVE  SeenBy(l)'
<1>1. \A k \in Keys : unseen'[l][k].ts =< chain'[k].ts
  <2> SUFFICES ASSUME NEW k \in Keys PROVE unseen'[l][k].ts =< chain'[k].ts
    OBVIOUS
  <2>1. unseen[l][k].ts \in Nat /\ chain[k].ts \in Nat /\ chain'[k].ts \in Nat
    BY DEF TypeOK, Batch, Entry
  <2> QED BY <2>1 DEF SeenBy
<1> QED BY <1>1 DEF SeenBy

\* A step that the reads of a listener and the oracle have no part in.
LEMMA SeenStutter ==
  ASSUME TypeOK, NEW l \in Listeners, SeenBy(l), UNCHANGED chain,
         listener'[l] = listener[l], asked'[l] = asked[l], awaited'[l] = awaited[l],
         answer'[l] = answer[l], fetched'[l] = fetched[l], unseen'[l] = unseen[l],
         notification_event'[l] = notification_event[l]
  PROVE  SeenBy(l)'
BY DEF SeenBy

\* The checks of a listener that has nothing left to read back.
LEMMA ChecksSeen ==
  ASSUME TypeOK, NEW l \in Listeners, NEW cache, ChecksAndSleeps(l, cache),
         ~notification_event[l]
  PROVE  notification_event'[l] => ~fetched'[l]
BY DEF ChecksAndSleeps, FetchedAfter, TypeOK

\* The checks of a listener are about no other.
LEMMA ChecksOther ==
  ASSUME TypeOK, NEW l \in Listeners, NEW cache, ChecksAndSleeps(l, cache),
         NEW m \in Listeners, m # l
  PROVE  notification_event'[m] = notification_event[m] /\ fetched'[m] = fetched[m]
BY DEF ChecksAndSleeps, TypeOK

\* When all its requests are answered, a listener has read back what its pushes brought.
LEMMA NothingMissed ==
  ASSUME TypeOK, NEW l \in Listeners, SeenBy(l)
  PROVE  Missed(l) = {}
<1> SUFFICES ASSUME NEW k \in Missed(l) PROVE FALSE
  OBVIOUS
<1>1. /\ k \in Keys /\ k[1] \in Assets /\ k = <<k[1], k[2], Perp>>
      /\ k[2] \in Requested(asked[l][k[1]])
      /\ Present(answer[l][k[1]])
      /\ answer[l][k[1]].ts < unseen[l][k].ts
  BY DEF Missed, KeysOf, Keys
<1>2. unseen[l][<<k[1], k[2], Perp>>].ts =< answer[l][k[1]].ts
  BY <1>1 DEF SeenBy
<1>3. unseen[l][k].ts =< answer[l][k[1]].ts
  BY <1>1, <1>2
<1>4. unseen[l][k].ts \in Nat /\ answer[l][k[1]].ts \in Nat
  BY <1>1 DEF TypeOK, Batch, Entry
<1> QED BY <1>1, <1>3, <1>4

\* A step of the listener itself: what it notifies on is read back.
LEMMA OwnListenerSeen ==
  ASSUME TypeOK, NEW l \in Listeners, SeenBy(l), ListenerStep(l)
  PROVE  /\ SeenBy(l)'
         /\ ~notification_event[l] /\ notification_event'[l] => unseen'[l] = NoBatch
<1>1. UNCHANGED chain
  BY DEF ListenerStep, chain_vars
<1>2. CASE ListenerUsesCache(l)
  <2>1. /\ listener[l] = "asleep" /\ ~notification_event[l] /\ fetched[l]
        /\ UNCHANGED <<listener, asked, awaited, answer, unseen>>
        /\ ChecksAndSleeps(l, oracle_prices[l])
    BY <1>2 DEF ListenerUsesCache, fetch_vars
  <2>2. unseen[l] = NoBatch
    BY <2>1 DEF SeenBy
  <2>3. notification_event'[l] => ~fetched'[l]
    BY <2>1, ChecksSeen
  <2> QED BY <1>1, <2>1, <2>2, <2>3 DEF SeenBy
<1>3. CASE ListenerStartsFetch(l)
  <2>1. /\ listener[l] = "asleep" /\ ~notification_event[l] /\ listener'[l] = "fetching"
        /\ UNCHANGED <<answer, unseen, fetched, notification_event>>
    BY <1>3 DEF ListenerStartsFetch, TypeOK
  <2>2. \A a \in Assets : ~Present(answer[l][a])
    BY <2>1 DEF SeenBy
  <2> QED BY <1>1, <2>1, <2>2 DEF SeenBy
<1>4. ASSUME NEW a \in Assets, OracleResponds(l, a)
      PROVE  SeenBy(l)' /\ UNCHANGED notification_event
  <2>1. PICK e : /\ e = ChainAnswer(a, asked[l][a]) \/ e = NoEntry
                 /\ answer' = [answer EXCEPT ![l][a] = e]
    BY <1>4 DEF OracleResponds
  <2>2. /\ UNCHANGED <<listener, asked, unseen, fetched, notification_event>>
        /\ a \in awaited[l] /\ awaited'[l] = awaited[l] \ {a}
    BY <1>4 DEF OracleResponds, TypeOK
  <2>3. listener[l] = "fetching"
    BY <2>2 DEF SeenBy
  <2>4. ASSUME Present(e), NEW s \in Requested(asked[l][a])
        PROVE  unseen[l][<<a, s, Perp>>].ts =< e.ts
    <3>1. e = ChainAnswer(a, asked[l][a]) /\ asked[l][a] \in SUBSET Sources
      BY <2>1, <2>4 DEF TypeOK, Present, NoEntry
    <3>2. <<a, s, Perp>> \in Keys
      BY <3>1, OrchestratorAssumption DEF Keys, Requested
    <3>3. chain[<<a, s, Perp>>].ts =< e.ts
      BY <2>4, <3>1, AnswerIsNewest DEF TypeOK
    <3>4. unseen[l][<<a, s, Perp>>].ts =< chain[<<a, s, Perp>>].ts
      BY <3>2 DEF SeenBy
    <3>5. e.ts \in Nat
      BY <3>1, ChainAnswerType DEF TypeOK, Entry
    <3>6. unseen[l][<<a, s, Perp>>].ts \in Nat /\ chain[<<a, s, Perp>>].ts \in Nat
      BY <3>2 DEF TypeOK, Batch, Entry
    <3> QED BY <3>3, <3>4, <3>5, <3>6
  <2>5. answer'[l][a] = e /\ \A x \in Assets : x # a => answer'[l][x] = answer[l][x]
    BY <2>1 DEF TypeOK
  <2>6. \A x \in Assets : Present(answer'[l][x]) =>
          /\ listener'[l] = "fetching"
          /\ \A s \in Requested(asked'[l][x]) :
               unseen'[l][<<x, s, Perp>>].ts =< answer'[l][x].ts
    BY <2>2, <2>3, <2>4, <2>5 DEF SeenBy
  <2> QED BY <1>1, <2>2, <2>3, <2>6 DEF SeenBy
<1>5. CASE ListenerEndsFetch(l)
  <2> DEFINE cache == [a \in Assets |-> IF Present(answer[l][a]) THEN answer[l][a]
                                                              ELSE oracle_prices[l][a]]
  <2>1. /\ listener[l] = "fetching" /\ listener'[l] = "asleep" /\ awaited[l] = {}
        /\ UNCHANGED awaited
        /\ answer'[l] = [a \in Assets |-> NoEntry]
        /\ unseen'[l] = Only(unseen[l], Missed(l))
        /\ ChecksAndSleeps(l, cache)
    BY <1>5 DEF ListenerEndsFetch, TypeOK
  <2> HIDE DEF cache
  <2>2. ~notification_event[l]
    BY <2>1 DEF SeenBy
  <2>3. unseen'[l] = NoBatch
    BY <2>1, NothingMissed DEF Only, NoBatch
  <2>4. notification_event'[l] => ~fetched'[l]
    BY <2>1, <2>2, ChecksSeen
  <2>5. \A k \in Keys : unseen'[l][k].ts =< chain'[k].ts
    <3>1. \A k \in Keys : unseen'[l][k].ts = 0 /\ chain[k].ts \in Nat
      BY <2>3 DEF NoBatch, NoEntry, TypeOK, Batch, Entry
    <3> QED BY <1>1, <3>1
  <2>6. \A a \in Assets : ~Present(answer'[l][a])
    BY <2>1 DEF Present, NoEntry
  <2> QED BY <2>1, <2>3, <2>4, <2>5, <2>6 DEF SeenBy
<1>6. UNCHANGED notification_event => (~notification_event[l] => ~notification_event'[l])
  OBVIOUS
<1> QED BY <1>2, <1>3, <1>4, <1>5, <1>6 DEF ListenerStep

\* A step of a listener is about no other.
LEMMA OtherListenerSeen ==
  ASSUME TypeOK, NEW l \in Listeners, ListenerStep(l), NEW m \in Listeners, m # l, SeenBy(m)
  PROVE  SeenBy(m)' /\ notification_event'[m] = notification_event[m]
<1>1. UNCHANGED chain
  BY DEF ListenerStep, chain_vars
<1>2. /\ listener'[m] = listener[m] /\ asked'[m] = asked[m] /\ awaited'[m] = awaited[m]
      /\ answer'[m] = answer[m] /\ unseen'[m] = unseen[m]
  BY DEF ListenerStep, ListenerUsesCache, ListenerStartsFetch, OracleResponds,
         ListenerEndsFetch, fetch_vars, TypeOK
<1>3. notification_event'[m] = notification_event[m] /\ fetched'[m] = fetched[m]
  <2>1. CASE \E cache : ChecksAndSleeps(l, cache)
    BY <2>1, ChecksOther
  <2>2. CASE UNCHANGED <<notification_event, fetched>>
    BY <2>2
  <2>3. ListenerUsesCache(l) \/ ListenerEndsFetch(l) => \E cache : ChecksAndSleeps(l, cache)
    BY DEF ListenerUsesCache, ListenerEndsFetch
  <2>4. ListenerStartsFetch(l) \/ (\E a \in Assets : OracleResponds(l, a))
          => UNCHANGED <<notification_event, fetched>>
    BY DEF ListenerStartsFetch, OracleResponds
  <2> QED BY <2>1, <2>2, <2>3, <2>4 DEF ListenerStep
<1> QED BY <1>1, <1>2, <1>3, SeenStutter

\* A notification is cleared by a handler whose listener must read again.
LEMMA HandlerSeen ==
  ASSUME TypeOK, Pipeline, NEW l \in Listeners, HandlerStep(l), NEW m \in Listeners, SeenBy(m)
  PROVE  SeenBy(m)' /\ (notification_event'[m] => notification_event[m])
<1>1. UNCHANGED <<chain, listener, asked, awaited, answer, fetched, unseen>>
  BY DEF HandlerStep, chain_vars, listener_vars, fetch_vars
<1>2. \/ UNCHANGED notification_event
      \/ notification_event[l] /\ notification_event' = [notification_event EXCEPT ![l] = FALSE]
  BY DEF HandlerStep, HandlerFlushes, HandlerClears, Pipeline
<1> QED BY <1>1, <1>2 DEF SeenBy, TypeOK

\* What an accepted push brought, the oracle holds; its listener waits meanwhile.
LEMMA PusherSeen ==
  ASSUME TypeOK, Pipeline, Published, PusherStep, NEW m \in Listeners, SeenBy(m)
  PROVE  SeenBy(m)'
<1>1. UNCHANGED <<chain, listener, asked, awaited, answer, fetched, notification_event>>
  BY DEF PusherStep, listener_vars, fetch_vars
<1>2. CASE UNCHANGED unseen
  BY <1>1, <1>2, SeenStutter
<1>3. CASE PublishSucceeds
  <2>1. PICK item \in in_flight :
          unseen' = [unseen EXCEPT ![item.owner] = Update(@, item.entries)]
    BY <1>3 DEF PublishSucceeds
  <2>2. item \in Item /\ item.owner \in Listeners /\ AllAccepted
    BY <1>3 DEF TypeOK, Item, PublishSucceeds
  <2>3. CASE m # item.owner
    <3>1. unseen'[m] = unseen[m]
      BY <2>1, <2>3 DEF TypeOK
    <3> QED BY <1>1, <3>1, SeenStutter
  <2>4. CASE m = item.owner
    <3>1. unseen'[m] = Update(unseen[m], item.entries)
      BY <2>1, <2>4 DEF TypeOK
    <3>2. handler[m] = "joining"
      BY <2>4 DEF Pipeline, QueueAccounting, Outstanding
    <3>3. notification_event[m] /\ listener[m] # "fetching" /\ ~fetched[m]
      BY <3>2 DEF Pipeline, SeenBy
    <3>4. \A a \in Assets : ~Present(answer[m][a])
      BY <3>3 DEF SeenBy
    <3>5. ASSUME NEW k \in Keys PROVE unseen'[m][k].ts =< chain[k].ts
      <4>1. CASE Present(item.entries[k])
        <5>1. ~Present(unaccepted[k])
          BY <2>2, <4>1 DEF AllAccepted, KeysOf
        <5>2. chain[k] = item.entries[k]
          BY <4>1, <5>1 DEF Published, KeysOf
        <5>3. unseen'[m][k] = chain[k] /\ chain[k].ts \in Nat
          BY <3>1, <4>1, <5>2, TimestampTypes DEF Update
        <5> QED BY <5>3
      <4>2. CASE ~Present(item.entries[k])
        BY <3>1, <4>2 DEF Update, SeenBy
      <4> QED BY <4>1, <4>2
    <3>6. awaited[m] = {}
      BY <3>3 DEF SeenBy
    <3> QED BY <1>1, <3>3, <3>4, <3>5, <3>6 DEF SeenBy
  <2> QED BY <2>3, <2>4
<1>4. PusherGets \/ PusherSettles \/ PublishFails \/ PublishRetries => UNCHANGED unseen
  BY DEF PusherGets, PusherSettles, PublishFails, PublishRetries
<1> QED BY <1>2, <1>3, <1>4 DEF PusherStep

\* A new process has nothing to read back.
LEMMA RestartSeen ==
  ASSUME TypeOK, Restart, NEW m \in Listeners
  PROVE  SeenBy(m)' /\ ~notification_event'[m]
<1>1. /\ UNCHANGED chain /\ unseen'[m] = NoBatch /\ listener'[m] = "asleep"
      /\ awaited'[m] = {} /\ ~notification_event'[m] /\ ~fetched'[m]
      /\ answer'[m] = [a \in Assets |-> NoEntry]
  BY DEF Restart, chain_vars
<1>2. \A k \in Keys : unseen'[m][k].ts = 0 /\ chain[k].ts \in Nat
  BY <1>1, TimestampTypes DEF NoBatch, NoEntry
<1>3. \A k \in Keys : unseen'[m][k].ts =< chain'[k].ts
  BY <1>1, <1>2
<1>4. \A a \in Assets : ~Present(answer'[m][a])
  BY <1>1 DEF Present, NoEntry
<1> QED BY <1>1, <1>3, <1>4 DEF SeenBy

LEMMA InitSeen == Init => Seen
<1> SUFFICES ASSUME Init, NEW l \in Listeners PROVE SeenBy(l)
  BY DEF Seen
<1>1. /\ unseen[l] = NoBatch /\ chain = NoBatch /\ listener[l] = "asleep"
      /\ awaited[l] = {} /\ ~notification_event[l] /\ ~fetched[l]
      /\ answer[l] = [a \in Assets |-> NoEntry]
  BY DEF Init, ProcessInit
<1>2. \A k \in Keys : unseen[l][k].ts = 0 /\ chain[k].ts = 0
  BY <1>1 DEF NoBatch, NoEntry
<1>3. \A a \in Assets : ~Present(answer[l][a])
  BY <1>1 DEF Present, NoEntry
<1> QED BY <1>1, <1>2, <1>3 DEF SeenBy

\* Every step keeps what ties the listeners to their pushes, and a notification follows
\* a read that shows them.
LEMMA NextSeen ==
  ASSUME TypeOK, TypeOK', Pipeline, Order, Published, Seen, [Next]_vars, NEW m \in Listeners
  PROVE  /\ SeenBy(m)'
         /\ ~notification_event[m] /\ notification_event'[m] => unseen'[m] = NoBatch
<1>1. SeenBy(m)
  BY DEF Seen
<1>2. CASE /\ UNCHANGED <<listener, asked, awaited, answer, fetched, unseen,
                          notification_event>>
           /\ chain' \in Batch /\ \A k \in Keys : chain[k].ts =< chain'[k].ts
  BY <1>1, <1>2, SeenFrame
<1>3. chain' \in Batch /\ \A k \in Keys : chain[k].ts =< chain'[k].ts
  <2>1. \A k \in Keys : chain'[k].ts >= chain[k].ts
    BY NextOrder
  <2>2. \A k \in Keys : chain[k].ts \in Nat /\ chain'[k].ts \in Nat
    BY DEF TypeOK, Batch, Entry
  <2> QED BY <2>1, <2>2 DEF TypeOK
<1>4. PollerStep \/ MidenStep \/ ChainAccepts \/ UNCHANGED vars
        => UNCHANGED <<listener, asked, awaited, answer, fetched, unseen, notification_event>>
  BY DEF PollerStep, MidenStep, ChainAccepts, vars, listener_vars, fetch_vars
<1>5. ASSUME NEW l \in Listeners, ListenerStep(l)
      PROVE  /\ SeenBy(m)'
             /\ ~notification_event[m] /\ notification_event'[m] => unseen'[m] = NoBatch
  BY <1>1, <1>5, OwnListenerSeen, OtherListenerSeen
<1>6. ASSUME NEW l \in Listeners, HandlerStep(l)
      PROVE  SeenBy(m)' /\ (notification_event'[m] => notification_event[m])
  BY <1>1, <1>6, HandlerSeen
<1>7. CASE PusherStep
  BY <1>1, <1>7, PusherSeen DEF PusherStep
<1>8. CASE Restart
  BY <1>8, RestartSeen
<1> QED BY <1>2, <1>3, <1>4, <1>5, <1>6, <1>7, <1>8 DEF Next, Stopped

\* No listener notifies before it has read back what its own pushes brought, whatever
\* the other listeners push, polls, reads and publications that fail, transactions that
\* are accepted late and restarts (PriceListener.run_forever, _handle_listener).
THEOREM NotificationsAreJustified == Spec => NotificationJustified
<1> DEFINE Justified ==
             \A l \in Listeners :
               ~notification_event[l] /\ notification_event'[l] => unseen'[l] = NoBatch
           Invariant == TypeOK /\ Pipeline /\ Order /\ Published /\ Seen
<1>1. Init => Invariant
  BY InitTypeOK, InitPipeline, InitOrder, InitPromised, InitSeen
<1>2. Invariant /\ [Next]_vars => Invariant' /\ Justified
  <2> SUFFICES ASSUME Invariant, [Next]_vars PROVE Invariant' /\ Justified
    OBVIOUS
  <2>1. TypeOK' /\ Pipeline' /\ Order' /\ Published'
    BY NextPipeline, NextOrder, NextPublished
  <2>2. Seen' /\ Justified
    BY <2>1, NextSeen DEF Seen
  <2> QED BY <2>1, <2>2
<1>3. NotificationJustified <=> [][Justified]_vars
  BY DEF NotificationJustified
<1> HIDE DEF Invariant, Justified
<1> QED BY <1>1, <1>2, <1>3, PTL DEF Spec

=============================================================================
