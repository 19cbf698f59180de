---------------------------- MODULE Orchestrator ----------------------------
(***************************************************************************)
(* The price pusher process: one asyncio event loop that runs the poller,  *)
(* one listener and one handler task per group of pairs, the pusher and    *)
(* the Miden loop (price_pusher/orchestrator.py), with the oracle contract *)
(* they publish to and read back from.  A task runs from one await to the  *)
(* next without interruption: that is one action here.                     *)
(*                                                                         *)
(* The clock of the model is the number of polls: an entry is stamped with *)
(* the poll that collected it.  Every other delay is a nondeterministic    *)
(* choice of which task runs next.                                         *)
(***************************************************************************)
EXTENDS PriceChecks, Sequences

CONSTANTS
  Listeners,      \* the listeners, one per price config
  Assets,         \* (pair, data type) couples
  SpotAssets,     \* the spot ones; the others are futures
  Sources,        \* exchanges
  Expiries, Perp, \* expiries of futures; Perp is expiry 0, the only one of a spot
  Prices,         \* the prices a source may report
  data_config,    \* listener -> the assets it watches, in the order it does
  OnchainPoller,  \* poller._is_requesting_onchain
  MidenEnabled,   \* pusher.miden_client is not None
  EmptyLimit,     \* CONSECUTIVES_EMPTY_ERRORS_LIMIT
  PushLimit,      \* CONSECUTIVES_PUSH_ERRORS_LIMIT
  Faults,         \* what may fail: a subset of {"poll", "read", "publish", "miden"}
  MaxPolls,       \* bound: polls in a behaviour
  MaxRestarts     \* bound: restarts of the process by its supervisor

ASSUME OrchestratorAssumption ==
  /\ SpotAssets \subseteq Assets
  /\ IsFiniteSet(Sources)
  /\ Perp \in Expiries
  /\ Prices \subseteq Nat
  /\ data_config \in [Listeners -> Seq(Assets)]
  /\ OnchainPoller \in BOOLEAN
  /\ MidenEnabled \in BOOLEAN
  /\ EmptyLimit \in Nat \ {0}
  /\ PushLimit \in Nat \ {0}
  /\ Faults \subseteq {"poll", "read", "publish", "miden"}
  /\ MaxPolls \in Nat
  /\ MaxRestarts \in Nat

VARIABLES
  clock,               \* polls so far, in this run of the process and earlier
  poller,              \* "polling", or "retrying" inside retry_async
  polled,              \* latest_prices has a key: some pair was received
  latest_prices,       \* the newest entry of each key not flushed yet
  last_polled_entries, \* the poll whose entries the Miden loop sees, 0 if empty
  miden_batch,         \* the poll the Miden loop is publishing, 0 while it sleeps
  miden_feed,          \* the poll last published to Miden
  push_queue,          \* batches to push, with the listener each is for
  unfinished_tasks,    \* push_queue._unfinished_tasks
  notification_event,  \* per listener: event is set
  handler,             \* per listener: where _handle_listener awaits
  listener,            \* per listener: where run_forever awaits
  asked,               \* per listener and asset: the sources the request names
  awaited,             \* per listener: requests not answered yet
  answer,              \* per listener and asset: the answers so far
  fetched,             \* per listener: last_fetch_time is not -1
  oracle_prices,       \* per listener and asset: its cache of the oracle
  consecutive_empty_oracle_error,
  pusher,              \* "idle", "publishing", "settling" (the final sleep)
  in_flight,           \* the batch update_price_feeds works on, if any
  consecutive_push_error,
  chain,               \* the oracle contract: the entry of each key
  unaccepted,          \* published and not accepted, given up or not
  unseen,              \* history: what the accepted pushes of a listener brought, and it
                       \* has not read back
  crashed,             \* the exception that ended the process, or "no"
  restarts

poller_vars   == <<clock, poller, polled, last_polled_entries>>
queue_vars    == <<push_queue, unfinished_tasks>>
fetch_vars    == <<listener, asked, awaited, answer>>
listener_vars == <<fetch_vars, fetched, oracle_prices, consecutive_empty_oracle_error>>
pusher_vars   == <<pusher, in_flight, consecutive_push_error>>
chain_vars    == <<chain, unaccepted>>
miden_vars    == <<miden_batch, miden_feed>>
vars == <<poller_vars, latest_prices, miden_vars, unseen, queue_vars, notification_event,
          handler, listener_vars, pusher_vars, chain_vars, crashed, restarts>>

\* latest_prices is keyed by pair, data type, source and, for a future, expiry.
Keys == {k \in Assets \X Sources \X Expiries : k[1] \in SpotAssets => k[3] = Perp}

Entry == [price : Nat, ts : Nat]
Batch == [Keys -> Entry]
NoBatch == [k \in Keys |-> NoEntry]
KeysOf(batch) == {k \in Keys : Present(batch[k])}
Item == [owner : Listeners, entries : Batch]

\* The entries of batch whose key is in K, and batch without them.
Only(batch, K) == [k \in Keys |-> IF k \in K THEN batch[k] ELSE NoEntry]
Without(batch, K) == Only(batch, Keys \ K)
Update(batch, new) == [k \in Keys |-> IF Present(new[k]) THEN new[k] ELSE batch[k]]

Watches(l, a) == \E i \in 1..Len(data_config[l]) : data_config[l][i] = a
SourcesOf(batch, a) == {s \in Sources : \E k \in KeysOf(batch) : k[1] = a /\ k[2] = s}
PerpEntries(batch, a) == [s \in Sources |-> batch[<<a, s, Perp>>]]
PerpSources(batch, a) == {s \in Sources : Present(batch[<<a, s, Perp>>])}

\* The process as its constructor leaves it.
ProcessInit ==
  /\ poller = "polling"
  /\ polled = FALSE
  /\ latest_prices = NoBatch
  /\ last_polled_entries = 0
  /\ miden_batch = 0
  /\ push_queue = <<>>
  /\ unfinished_tasks = 0
  /\ notification_event = [l \in Listeners |-> FALSE]
  /\ handler = [l \in Listeners |-> "waiting"]
  /\ listener = [l \in Listeners |-> "asleep"]
  /\ asked = [l \in Listeners |-> [a \in Assets |-> {}]]
  /\ awaited = [l \in Listeners |-> {}]
  /\ answer = [l \in Listeners |-> [a \in Assets |-> NoEntry]]
  /\ fetched = [l \in Listeners |-> FALSE]
  /\ oracle_prices = [l \in Listeners |-> [a \in Assets |-> NoEntry]]
  /\ consecutive_empty_oracle_error = [l \in Listeners |-> 0]
  /\ pusher = "idle"
  /\ in_flight = {}
  /\ consecutive_push_error = 0
  /\ unseen = [l \in Listeners |-> NoBatch]
  /\ crashed = "no"

Init ==
  /\ ProcessInit
  /\ clock = 0
  /\ miden_feed = 0
  /\ chain = NoBatch
  /\ unaccepted = NoBatch
  /\ restarts = 0
-----------------------------------------------------------------------------
(* The poller *)

\* Variant: nothing is filtered.
FilterNothing(batch) == batch

\* PricePoller._filter_zeros_and_non_perp_from_entries
Filter(batch) ==
  Only(batch, {k \in Keys : batch[k].price > 0 /\ (k[1] \in SpotAssets \/ k[3] = Perp)})

\* Whatever subset of the fetchers answers, each with one of the prices.
FetchResults ==
  [Keys -> {NoEntry} \cup {[price |-> p, ts |-> clock + 1] : p \in Prices}]

\* Variant: the first snapshot is kept.
CallbackKeepsSnapshot(entries) ==
  /\ last_polled_entries' = IF polled THEN last_polled_entries
                            ELSE IF KeysOf(entries) = {} THEN 0 ELSE clock + 1
  /\ polled' = (polled \/ KeysOf(entries) # {})
  /\ latest_prices' = Update(latest_prices, entries)

\* Orchestrator.callback_update_prices
CallbackUpdatePrices(entries) ==
  /\ last_polled_entries' = IF KeysOf(entries) = {} THEN 0 ELSE clock + 1
  /\ polled' = (polled \/ KeysOf(entries) # {})
  /\ latest_prices' = Update(latest_prices, entries)

PollSucceeds ==
  /\ poller = "polling"
  /\ clock < MaxPolls
  /\ \E entries \in FetchResults : CallbackUpdatePrices(Filter(entries))
  /\ clock' = clock + 1
  /\ UNCHANGED <<poller, crashed>>

PollFails ==
  /\ poller = "polling"
  /\ "poll" \in Faults
  /\ clock < MaxPolls
  /\ IF OnchainPoller
       THEN poller' = "retrying" /\ UNCHANGED crashed
       ELSE crashed' = "poller" /\ UNCHANGED poller
  /\ UNCHANGED <<clock, polled, latest_prices, last_polled_entries>>

\* The retried fetch goes to the callback as it comes, or the retries run out.
RetryEnds ==
  /\ poller = "retrying"
  /\ \/ /\ \E entries \in FetchResults : CallbackUpdatePrices(entries)
        /\ clock' = clock + 1
        /\ poller' = "polling"
        /\ UNCHANGED crashed
     \/ /\ crashed' = "poller"
        /\ UNCHANGED <<poller_vars, latest_prices>>

PollerStep ==
  /\ PollSucceeds \/ PollFails \/ RetryEnds
  /\ UNCHANGED <<miden_vars, unseen, queue_vars, notification_event, handler,
                 listener_vars, pusher_vars, chain_vars, restarts>>
-----------------------------------------------------------------------------
(* A listener *)

\* The sources a request is about: all of them when it names none.
Requested(S) == IF S = {} THEN Sources ELSE S

\* What the contract answers for an asset: the median and the newest timestamp
\* over the requested sources.
ChainAnswer(a, S) ==
  LET read == PerpSources(chain, a) \cap Requested(S)
      entries == PerpEntries(chain, a)
  IN  IF read = {} THEN NoEntry
      ELSE Aggregated(entries, read)

CacheIsEmpty(cache) == \A a \in Assets : ~Present(cache[a])

\* One iteration of the loops of _does_oracle_needs_update.
CheckOf(cache, a) ==
  CheckAsset(cache[a], PerpEntries(latest_prices, a), PerpSources(latest_prices, a),
             SourcesOf(latest_prices, a) # {})

DueIn(cache, assets) ==
  {i \in 1..Len(assets) : CheckOf(cache, assets[i]) # "ok"}

\* _does_oracle_needs_update: the first asset that is not up to date decides.
Decision(l, cache) ==
  LET due == DueIn(cache, data_config[l])
  IN  IF ~polled THEN "ok"
      ELSE IF CacheIsEmpty(cache)
        THEN IF consecutive_empty_oracle_error[l] + 1 >= EmptyLimit
               THEN "empty_oracle" ELSE "notify"
      ELSE IF due = {} THEN "ok"
      ELSE CheckOf(cache, data_config[l][CHOOSE i \in due : \A j \in due : i =< j])

\* Variant: last_fetch_time is not reset by a notification.
AlwaysFetched(decision) == TRUE

\* Whether last_fetch_time still holds a time after the check: a notification
\* resets it to -1.
FetchedAfter(decision) == decision # "notify"

\* The rest of an iteration of run_forever, from the check to its sleep.
ChecksAndSleeps(l, cache) ==
  LET decision == Decision(l, cache)
  IN  /\ notification_event' =
           [notification_event EXCEPT ![l] = @ \/ decision = "notify"]
      /\ fetched' = [fetched EXCEPT ![l] = FetchedAfter(decision)]
      /\ consecutive_empty_oracle_error' =
           [consecutive_empty_oracle_error EXCEPT
              ![l] = IF polled /\ CacheIsEmpty(cache) THEN @ + 1 ELSE @]
      /\ crashed' = IF decision \in {"ok", "notify"} THEN crashed ELSE decision

\* The oracle was read less than polling_frequency_in_s ago: the cache serves.
ListenerUsesCache(l) ==
  /\ listener[l] = "asleep"
  /\ ~notification_event[l]
  /\ fetched[l]
  /\ ChecksAndSleeps(l, oracle_prices[l])
  /\ UNCHANGED <<fetch_vars, oracle_prices, unseen>>

\* The requests of _fetch_all_oracle_prices are built, with the sources that
\* have entries now, and sent.
ListenerStartsFetch(l) ==
  /\ listener[l] = "asleep"
  /\ ~notification_event[l]
  /\ listener' = [listener EXCEPT ![l] = "fetching"]
  /\ asked' = [asked EXCEPT ![l] =
                 [a \in Assets |-> IF Watches(l, a) THEN SourcesOf(latest_prices, a)
                                                    ELSE {}]]
  /\ awaited' = [awaited EXCEPT ![l] = {a \in Assets : Watches(l, a)}]
  /\ UNCHANGED <<answer, fetched, oracle_prices, unseen, notification_event,
                 consecutive_empty_oracle_error, crashed>>

\* One request is answered, or fails after its retries: gather keeps the
\* exception as the result and exclude_none_and_exceptions drops it.
OracleResponds(l, a) ==
  /\ a \in awaited[l]
  /\ \E e \in {ChainAnswer(a, asked[l][a])} \cup
              (IF "read" \in Faults THEN {NoEntry} ELSE {}) :
       answer' = [answer EXCEPT ![l][a] = e]
  /\ awaited' = [awaited EXCEPT ![l] = @ \ {a}]
  /\ UNCHANGED <<listener, asked, fetched, oracle_prices, unseen, notification_event,
                 consecutive_empty_oracle_error, crashed>>

\* What the answers do not show of the pushes of l, though they are about its asset and
\* its source.  Where the last request failed nothing is said: the cache stays older.
Missed(l) ==
  {k \in KeysOf(unseen[l]) :
     /\ k[2] \in Requested(asked[l][k[1]])
     /\ k[3] = Perp
     /\ Present(answer[l][k[1]])
     /\ answer[l][k[1]].ts < unseen[l][k].ts}

\* All requests are answered: the cache is updated, never emptied, and checked.
ListenerEndsFetch(l) ==
  LET cache == [a \in Assets |-> IF Present(answer[l][a]) THEN answer[l][a]
                                                          ELSE oracle_prices[l][a]]
  IN  /\ listener[l] = "fetching"
      /\ awaited[l] = {}
      /\ listener' = [listener EXCEPT ![l] = "asleep"]
      /\ oracle_prices' = [oracle_prices EXCEPT ![l] = cache]
      /\ asked' = [asked EXCEPT ![l] = [a \in Assets |-> {}]]
      /\ answer' = [answer EXCEPT ![l] = [a \in Assets |-> NoEntry]]
      /\ unseen' = [unseen EXCEPT ![l] = Only(@, Missed(l))]
      /\ ChecksAndSleeps(l, cache)
      /\ UNCHANGED awaited

ListenerStep(l) ==
  /\ \/ ListenerUsesCache(l)
     \/ ListenerStartsFetch(l)
     \/ \E a \in Assets : OracleResponds(l, a)
     \/ ListenerEndsFetch(l)
  /\ UNCHANGED <<poller_vars, latest_prices, miden_vars, queue_vars, handler,
                 pusher_vars, chain_vars, restarts>>
-----------------------------------------------------------------------------
(* The handler of a listener: Orchestrator._handle_listener *)

\* Orchestrator._flush_entries_for_assets
Flushed(l) == {k \in KeysOf(latest_prices) : Watches(l, k[1])}

\* Variant: the flushed entries stay in latest_prices.
FlushKeeps(l) == latest_prices

\* latest_prices without what is flushed.
FlushLeaves(l) == Without(latest_prices, Flushed(l))

\* Variant: the newest batch goes first.
PutFirst(item) == <<item>> \o push_queue

\* push_queue.put
Put(item) == Append(push_queue, item)

\* Variant: the event is cleared without waiting for the queue.
HandlerDoesNotJoin(l) ==
  /\ handler[l] = "waiting"
  /\ notification_event[l]
  /\ latest_prices' = FlushLeaves(l)
  /\ notification_event' = [notification_event EXCEPT ![l] = FALSE]
  /\ UNCHANGED handler
  /\ IF Flushed(l) # {}
       THEN /\ push_queue' = Put([owner |-> l, entries |-> Only(latest_prices, Flushed(l))])
            /\ unfinished_tasks' = unfinished_tasks + 1
       ELSE UNCHANGED queue_vars

\* The event is set: flush, and wait for the queue, unless nothing was flushed.
HandlerFlushes(l) ==
  /\ handler[l] = "waiting"
  /\ notification_event[l]
  /\ latest_prices' = FlushLeaves(l)
  /\ IF Flushed(l) # {}
       THEN /\ push_queue' = Put([owner |-> l, entries |-> Only(latest_prices, Flushed(l))])
            /\ unfinished_tasks' = unfinished_tasks + 1
            /\ handler' = [handler EXCEPT ![l] = "joining"]
            /\ UNCHANGED notification_event
       ELSE /\ notification_event' = [notification_event EXCEPT ![l] = FALSE]
            /\ UNCHANGED <<queue_vars, handler>>

\* push_queue.join() returned.
HandlerClears(l) ==
  /\ handler[l] = "released"
  /\ handler' = [handler EXCEPT ![l] = "waiting"]
  /\ notification_event' = [notification_event EXCEPT ![l] = FALSE]
  /\ UNCHANGED <<latest_prices, queue_vars>>

HandlerStep(l) ==
  /\ HandlerFlushes(l) \/ HandlerClears(l)
  /\ UNCHANGED <<poller_vars, miden_vars, unseen, listener_vars, pusher_vars,
                 chain_vars, crashed, restarts>>
-----------------------------------------------------------------------------
(* The pusher *)

\* publish_many sends the transactions of a batch.  One that was given up can
\* still be accepted, until a newer price of its key is sent.
Send(batch) == unaccepted' = Update(unaccepted, batch)

PusherGets ==
  /\ pusher = "idle"
  /\ push_queue # <<>>
  /\ push_queue' = Tail(push_queue)
  /\ in_flight' = {Head(push_queue)}
  /\ Send(Head(push_queue).entries)
  /\ pusher' = "publishing"
  /\ UNCHANGED <<unfinished_tasks, handler, consecutive_push_error, unseen, crashed>>

\* The last task_done() wakes every task that waits in join().
Released(woken) ==
  [l \in Listeners |-> IF woken /\ handler[l] = "joining" THEN "released" ELSE handler[l]]

\* Variants: task_done() called twice; every call wakes the joiners; none does.
TaskDoneTwice ==
  /\ unfinished_tasks' = unfinished_tasks - 2
  /\ handler' = Released(unfinished_tasks =< 2)
  /\ pusher' = "idle"
  /\ in_flight' = {}
TaskDoneWakesAll ==
  /\ unfinished_tasks' = unfinished_tasks - 1
  /\ handler' = Released(TRUE)
  /\ pusher' = "idle"
  /\ in_flight' = {}
TaskDoneWakesNone ==
  /\ unfinished_tasks' = unfinished_tasks - 1
  /\ UNCHANGED handler
  /\ pusher' = "idle"
  /\ in_flight' = {}

\* push_queue.task_done()
TaskDone ==
  /\ unfinished_tasks' = unfinished_tasks - 1
  /\ handler' = Released(unfinished_tasks = 1)
  /\ pusher' = "idle"
  /\ in_flight' = {}

\* What wait_for_publishing_acceptance waits for.
AllAccepted == \A item \in in_flight : KeysOf(item.entries) \cap KeysOf(unaccepted) = {}

\* publish_many and wait_for_publishing_acceptance returned.
PublishSucceeds ==
  /\ pusher = "publishing"
  /\ AllAccepted
  /\ pusher' = "settling"
  /\ \E item \in in_flight :
       unseen' = [unseen EXCEPT ![item.owner] = Update(@, item.entries)]
  /\ UNCHANGED <<queue_vars, handler, in_flight, consecutive_push_error,
                 unaccepted, crashed>>

\* The sleep that follows a publication ends.
PusherSettles ==
  /\ pusher = "settling"
  /\ consecutive_push_error' = 0
  /\ TaskDone
  /\ UNCHANGED <<push_queue, unaccepted, unseen, crashed>>

\* consecutive_push_error is only compared to its limit: the model stops there.
CountPushError ==
  consecutive_push_error' = IF consecutive_push_error < PushLimit
                              THEN consecutive_push_error + 1 ELSE PushLimit

\* A publication fails and is not retried: its entries are dropped, or the
\* fatal guard ends the process.
PublishFails ==
  /\ pusher = "publishing"
  /\ "publish" \in Faults
  /\ CountPushError
  /\ IF consecutive_push_error' = PushLimit /\ ~MidenEnabled
       THEN /\ crashed' = "push_errors"
            /\ UNCHANGED <<unfinished_tasks, handler, pusher, in_flight>>
       ELSE TaskDone /\ UNCHANGED crashed
  /\ UNCHANGED <<push_queue, unaccepted, unseen>>

\* A publication fails, the RPC monitor switches to another node, and
\* update_price_feeds calls itself with the same entries.
PublishRetries ==
  /\ pusher = "publishing"
  /\ "publish" \in Faults
  /\ CountPushError
  /\ \E item \in in_flight : Send(item.entries)
  /\ UNCHANGED <<queue_vars, handler, pusher, in_flight, unseen, crashed>>

PusherStep ==
  /\ PusherGets \/ PublishSucceeds \/ PusherSettles \/ PublishFails \/ PublishRetries
  /\ UNCHANGED <<poller_vars, latest_prices, miden_vars, notification_event,
                 listener_vars, chain, restarts>>
-----------------------------------------------------------------------------
(* Miden, the chain, the supervisor *)

\* Orchestrator._miden_service finds entries and publishes them.
MidenStarts ==
  /\ MidenEnabled
  /\ miden_batch = 0
  /\ last_polled_entries > 0
  /\ miden_batch' = last_polled_entries
  /\ UNCHANGED miden_feed

\* publish_to_miden returned: Miden has the prices, or the client says that it has
\* not, and nothing is tried again before the next round.
MidenAccepts ==
  /\ miden_batch > 0
  /\ miden_feed' = miden_batch
  /\ miden_batch' = 0
MidenFails ==
  /\ miden_batch > 0
  /\ "miden" \in Faults
  /\ miden_batch' = 0
  /\ UNCHANGED miden_feed

MidenStep ==
  /\ MidenStarts \/ MidenAccepts \/ MidenFails
  /\ UNCHANGED <<poller_vars, latest_prices, unseen, queue_vars, notification_event,
                 handler, listener_vars, pusher_vars, chain_vars, crashed, restarts>>

\* One of the transactions publish_many sent is accepted; it may still be after
\* the pusher has given it up, and after a crash.
ChainAccepts ==
  /\ \E K \in SUBSET KeysOf(unaccepted) :
       /\ K # {}
       /\ chain' = Update(chain, Only(unaccepted, K))
       /\ unaccepted' = Without(unaccepted, K)
  /\ UNCHANGED <<poller_vars, latest_prices, miden_vars, unseen, queue_vars,
                 notification_event, handler, listener_vars, pusher_vars, crashed, restarts>>

\* The supervisor (k8s) starts the process again: everything but the chain, and
\* Miden's, is as ProcessInit says.
Restart ==
  /\ crashed # "no"
  /\ restarts < MaxRestarts
  /\ restarts' = restarts + 1
  /\ poller' = "polling"
  /\ polled' = FALSE
  /\ latest_prices' = NoBatch
  /\ last_polled_entries' = 0
  /\ miden_batch' = 0
  /\ push_queue' = <<>>
  /\ unfinished_tasks' = 0
  /\ notification_event' = [l \in Listeners |-> FALSE]
  /\ handler' = [l \in Listeners |-> "waiting"]
  /\ listener' = [l \in Listeners |-> "asleep"]
  /\ asked' = [l \in Listeners |-> [a \in Assets |-> {}]]
  /\ awaited' = [l \in Listeners |-> {}]
  /\ answer' = [l \in Listeners |-> [a \in Assets |-> NoEntry]]
  /\ fetched' = [l \in Listeners |-> FALSE]
  /\ oracle_prices' = [l \in Listeners |-> [a \in Assets |-> NoEntry]]
  /\ consecutive_empty_oracle_error' = [l \in Listeners |-> 0]
  /\ pusher' = "idle"
  /\ in_flight' = {}
  /\ consecutive_push_error' = 0
  /\ unseen' = [l \in Listeners |-> NoBatch]
  /\ crashed' = "no"
  /\ UNCHANGED <<clock, miden_feed, chain_vars>>

\* A crashed process stays so.
Stopped == crashed # "no" /\ UNCHANGED vars

Next ==
  \/ /\ crashed = "no"
     /\ \/ PollerStep
        \/ \E l \in Listeners : ListenerStep(l) \/ HandlerStep(l)
        \/ PusherStep
        \/ MidenStep
  \/ ChainAccepts
  \/ Restart
  \/ Stopped

Spec == Init /\ [][Next]_vars
-----------------------------------------------------------------------------
(* Fairness *)

\* The event loop runs every ready task, every sleep ends and every request has
\* a timeout: no task that can go on is left waiting for ever.  A publication
\* ends too, but nothing says that it is not retried in between, that it
\* succeeds, or that another poll happens.
Alive(A) == crashed = "no" /\ A

PublicationEnds ==
  /\ PublishSucceeds \/ PublishFails
  /\ UNCHANGED <<poller_vars, latest_prices, miden_vars, notification_event,
                 listener_vars, chain, restarts>>

QueueMoves ==
  /\ PusherGets \/ PusherSettles
  /\ UNCHANGED <<poller_vars, latest_prices, miden_vars, notification_event,
                 listener_vars, chain, restarts>>

Fairness ==
  /\ \A l \in Listeners : WF_vars(Alive(ListenerStep(l))) /\ WF_vars(Alive(HandlerStep(l)))
  /\ WF_vars(Alive(PublicationEnds))
  /\ WF_vars(Alive(QueueMoves))

FairSpec == Spec /\ Fairness

\* Only the Miden loop is known to go on: a publication to Starknet may hang.  A call
\* to Miden ends (MidenClient bounds its steps); nothing says that one is accepted.
MidenSpec == Spec /\ WF_vars(Alive(MidenStep))
-----------------------------------------------------------------------------
(* Properties *)

TypeOK ==
  /\ clock \in Nat
  /\ poller \in {"polling", "retrying"}
  /\ polled \in BOOLEAN
  /\ latest_prices \in Batch
  /\ last_polled_entries \in Nat
  /\ miden_batch \in Nat
  /\ miden_feed \in Nat
  /\ unseen \in [Listeners -> Batch]
  /\ push_queue \in Seq(Item)
  /\ unfinished_tasks \in Nat
  /\ notification_event \in [Listeners -> BOOLEAN]
  /\ handler \in [Listeners -> {"waiting", "joining", "released"}]
  /\ listener \in [Listeners -> {"asleep", "fetching"}]
  /\ asked \in [Listeners -> [Assets -> SUBSET Sources]]
  /\ awaited \in [Listeners -> SUBSET Assets]
  /\ answer \in [Listeners -> [Assets -> Entry]]
  /\ fetched \in [Listeners -> BOOLEAN]
  /\ oracle_prices \in [Listeners -> [Assets -> Entry]]
  /\ consecutive_empty_oracle_error \in [Listeners -> Nat]
  /\ pusher \in {"idle", "publishing", "settling"}
  /\ in_flight \in SUBSET Item
  /\ consecutive_push_error \in 0..PushLimit
  /\ chain \in Batch
  /\ unaccepted \in Batch
  /\ crashed \in {"no", "poller", "empty_oracle", "push_errors"} \cup Outcomes
  /\ restarts \in Nat

\* The batches that are on their way: queued or being published.
Outstanding == {push_queue[i] : i \in 1..Len(push_queue)} \cup in_flight

\* The queue never loses count: join() cannot be left with nothing to wait
\* for, nor return while a batch of the waiting handler is on its way
\* (Orchestrator._handle_listener, _pusher_service).
QueueAccounting ==
  /\ unfinished_tasks = Len(push_queue) + (IF pusher = "idle" THEN 0 ELSE 1)
  /\ \A l \in Listeners : handler[l] = "joining" => unfinished_tasks > 0
  /\ \A item \in Outstanding : handler[item.owner] = "joining"

\* A listener is free to notify again only when nothing it asked for is still
\* on its way: "the listener will spam notification ... even though there are
\* some entries on their way to be pushed"
\* (PriceListener._wait_until_notification_is_handled).
NoSpam ==
  \A l \in Listeners :
    ~notification_event[l] => \A item \in Outstanding : item.owner # l

\* An entry is in one place only: waiting in latest_prices or in one of the
\* batches on their way, even when several listeners watch its asset
\* (Orchestrator._flush_entries_for_assets).
EachEntryOnce ==
  \A k \in Keys :
    /\ \A item \in Outstanding :
         Present(item.entries[k]) => item.entries[k].ts # latest_prices[k].ts
    /\ \A i, j \in 1..Len(push_queue) :
         i # j /\ Present(push_queue[i].entries[k])
           => push_queue[i].entries[k].ts # push_queue[j].entries[k].ts
    /\ \A i \in 1..Len(push_queue), item \in in_flight :
         Present(item.entries[k]) => item.entries[k].ts # push_queue[i].entries[k].ts

\* The oracle never goes back to an older entry of a source, whatever fails, is
\* retried, accepted late or restarted in between.
ChainNeverRegresses == [][\A k \in Keys : chain'[k].ts >= chain[k].ts]_chain

\* Without on-chain fetchers every poll is filtered, and then no listener dies
\* of a missing expiry or of a division by an oracle price of 0.
FilteredPollsNeverCrash ==
  ~OnchainPoller => crashed \notin {"missing_expiry", "zero_division"}

\* The prices of poll t wait for a flush: they were collected, and are not pushed.
Waits(t) == \E k \in Keys : latest_prices[k].ts = t

\* A poll that returned nothing emptied the snapshot, or a task that Miden shares the
\* process with has ended it; failed pushes are no reason (pusher.update_price_feeds).
MidenExcused == last_polled_entries = 0 \/ crashed \notin {"no", "push_errors"}

\* The Miden loop is decoupled from the Starknet push (_miden_service): every poll is
\* submitted to Miden, or a later one is, though the pusher hangs for ever or fails and
\* though Miden refuses what came before; and they reach Miden if it goes on accepting.
MidenFollowsPolls ==
  /\ \A t \in 1..MaxPolls :
       Waits(t) ~> (miden_batch >= t \/ miden_feed >= t \/ MidenExcused)
  /\ []<><<MidenAccepts>>_vars =>
       \A t \in 1..MaxPolls : Waits(t) ~> (miden_feed >= t \/ MidenExcused)

\* The entries of a key that are on their way, and those the pusher has given up that
\* the chain may still accept.
OnTheirWay(k) == {item.entries[k] : item \in {i \in Outstanding : Present(i.entries[k])}}
GivenUp(k) ==
  IF Present(unaccepted[k]) /\ \A item \in in_flight : ~Present(item.entries[k])
    THEN {unaccepted[k]} ELSE {}

Promise == INSTANCE Delivery WITH
  waiting <- latest_prices,
  sent <- [k \in Keys |-> OnTheirWay(k)],
  given_up <- [k \in Keys |-> GivenUp(k)],
  oracle <- chain,
  PublicationsMayFail <- "publish" \in Faults,
  MayRestart <- MaxRestarts > 0

\* Prices reach the oracle in the order they were collected, each under its own key;
\* none that was flushed is left out or overtaken unless a publication fails or the
\* process is restarted, and none is invented (Orchestrator, PricePusher).
DeliversPrices == Promise!Spec

\* A listener never notifies on prices older than its own pushes: whatever its accepted
\* batches brought, it has read the oracle since, and the answers show it, or something
\* newer, of each source they are about, so that the same prices are not pushed twice on
\* a stale cache.  (run_forever resets last_fetch_time when it notifies.)  An asset whose
\* request failed keeps an older price in the cache: nothing is said of it.
NotificationJustified ==
  [][\A l \in Listeners :
       ~notification_event[l] /\ notification_event'[l] => unseen'[l] = NoBatch]_vars

\* Every notification is handled: the handler comes back from the queue and
\* clears it, whatever the other listeners keep pushing.
NotificationHandled ==
  \A l \in Listeners :
    notification_event[l] ~> (~notification_event[l] \/ crashed # "no")

\* The newest price that waits for an asset, and whether the oracle, whose newest entry
\* of the asset over all sources is the one compared, is too old for it.
NewestWaiting(a) == NewestTs(PerpEntries(latest_prices, a), PerpSources(latest_prices, a))
OracleIsWithin(a, ts) ==
  Present(ChainAnswer(a, {})) /\ ChainAnswer(a, {}).ts + TimeDifference >= ts
Stale(a) ==
  /\ \E l \in Listeners : Watches(l, a)
  /\ PerpSources(latest_prices, a) # {}
  /\ ~OracleIsWithin(a, NewestWaiting(a))

\* An asset whose newest price is newer than all the oracle holds of it by more than
\* time_difference does not stay unpushed, though reads and publications fail: it is
\* flushed, or the oracle catches up.  That one source of it is old is not noticed
\* while another is new enough (_oracle_entry_is_outdated).
StaleIsFlushed ==
  \A a \in Assets : Stale(a) ~> (~Stale(a) \/ crashed # "no")

\* End to end: such a price, or a newer one of its asset, reaches the oracle if the
\* chain accepts what it is sent and no publication fails.
StaleReachesChain ==
  WF_vars(ChainAccepts) /\ [](consecutive_push_error = 0) =>
    \A a \in Assets, t \in 1..MaxPolls :
      (Stale(a) /\ NewestWaiting(a) = t) ~> (OracleIsWithin(a, t) \/ crashed # "no")
=============================================================================
