# Formal models of pragma-sdk

Pragma's services read prices from exchanges and publish them to an oracle
contract on Starknet (and, for some pairs, to Miden). This directory holds TLA+
models of the parts of that code where several asyncio tasks share state, the
TLC runs that check them on small instances, and proofs, checked by TLAPS, of
the properties that matter most for every instance. All paths below are relative
to the repository's root.

To run everything: `tlc -config RUN.cfg MODULE` for the runs of the table
below, `tlapm MODULE_proofs.tla` for the proofs.

## 1. Inventory

| Component | State it keeps | Operations | What is hard about it |
|---|---|---|---|
| **price-pusher orchestrator** `price-pusher/price_pusher/orchestrator.py` | `latest_prices`, `last_polled_entries`, `push_queue` (asyncio.Queue) | poller, listener, handler, pusher and Miden services, one asyncio task each; `callback_update_prices`; `_flush_entries_for_assets` | five kinds of tasks share two dictionaries and a queue; `join()` waits for everybody's batches |
| **poller** `core/poller.py`, `pragma_utils/retries.py` | none | `poll_prices`, its filter, the retry | the retry takes another path than the first attempt |
| **listener** `core/listener.py` | `oracle_prices` (a cache), `notification_event`, `consecutive_empty_oracle_error`, `last_fetch_time` | `run_forever`, `_fetch_all_oracle_prices`, the checks | decides on a cache, between awaits, on prices that the poller replaces and handlers remove |
| **pusher** `core/pusher.py` | `consecutive_push_error`, `onchain_lock` | `update_price_feeds`, `publish_to_miden` | retries, recursion, a fatal guard, two chains in one process |
| **chain request handler** `core/request_handlers/chain.py` | none | `fetch_latest_entries` | requests answered in any order, some not at all |
| **RPC health monitor** `pragma-sdk/pragma_sdk/onchain/rpc_monitor.py` | `failed_rpcs`, `current_rpc_failures`, and the client's reference to a node | `monitor_rpc_health`, `record_failure`, `switch_rpc` | two tasks count failures and switch; a check in flight while the node changes |
| **on-chain client, contracts** `onchain/client.py`, `onchain/types/contract.py` | nodes, `account_locks` | `_invoke`, `_multicall` | nonces under a lock released before the transaction is sent |
| **oracle mixin** `onchain/mixins/oracle.py` | none (the contract's state) | `publish_many`, `get_spot`, `get_future` | a publication is several transactions |
| **health servers** `health_server.py`, `fastapi_health_server.py` | `last_push_timestamp`, `startup_time` | `update_last_push`, `health_check` | what counts as a push; warming up forever |
| **Miden client** `pragma_sdk/miden/client.py` | `is_initialized`, a local store, the account's commitment | `initialize`, `sync`, `publish_entries`, reconcile | a timed-out submission that goes on in its thread; a local state that diverges from the chain |
| **randomness mixin** `onchain/mixins/randomness.py` and **vrf-listener** `vrf-listener/vrf_listener/` | `requests_queue`, `processed_requests`; the contract's statuses | `Indexer.run_forever`, `_consume_requests_queue`, `handle_random`, `submit_random_multicall` | requests taken from a queue and then not answered; requests seen twice, too early or too late |
| **lp-pricer** `lp-pricer/lp_pricer/main.py`, LP fetcher and `LpRedisManager` | bounded, expiring lists in redis | fetch, store, median of the history, publish | a crash between steps, a history with a hole |
| **lmax-connector** `lmax-connector/lmax_connector/main.py` | FIX session, `latest_market_data`, an event per symbol | FIX callbacks (another thread), subscription loop, push loop | events set from another thread; reconnections |
| **checkpointer** `checkpointer/checkpointer/main.py` | none | one transaction per period | - |
| **fetcher client** `common/fetchers/fetcher_client.py`, and which fetcher gets which pairs (`price_pusher/core/fetchers.py`) | the list of fetchers | `fetch` | partial failures and timeouts of many requests; conversion rates next to market prices |
| **fetchers** `common/fetchers/fetchers/`, `future_fetchers/`, `handlers/hop_handler.py` | none, but for the EVM ones: `_rpc_index`, `_rpc_failures` | `fetch`, `fetch_pair`, `operate_usdt_hop`, `_construct`; `_read_feed_value` | hops, triangulations and conversion rates: a price in another unit than the pair it names; concurrent reads that share a list of nodes |
| **merkle feed, Deribit fetcher** | latest data, a Merkle tree | `fetch`, `publish_options_data` | a root published for data that has moved on |
| **ECVRF** `common/randomness/randomness_utils.py` | none | prove, verify | field arithmetic |

### How they interact

```
 exchanges --fetch--> poller --callback--> latest_prices, last_polled_entries
                                              |   ^            |
          oracle --read--> listener --event--> handler         Miden loop --> Miden
                              ^                |
                              |             push_queue
                              |                |
                           oracle <--publish-- pusher <--switches node-- RPC monitor
```

The poller replaces entries of `latest_prices` with newer ones. A listener, one
per group of pairs, reads the oracle from time to time and compares the cached
answers with `latest_prices`; when the oracle is too old or too far off it sets
its event and then sleeps until the event is cleared. Its handler wakes, moves
the group's entries from `latest_prices` to the queue, waits with `join()` until
the queue is empty and processed, and clears the event. The pusher takes the
batches in turn and waits until the chain has accepted each. The Miden loop
publishes the last poll on its own.

### What makes each correct

* orchestrator: a polled entry is in one place, is pushed at most once per flush,
  and in order; every notification is handled; `join()` never waits for nothing.
* listener: an oracle that is too old for an asset is noticed, whatever reads fail; a
  notification is not raised because of what the previous one has just fixed.
* poller: no price 0 and no dated future is kept.
* pusher: errors end the process at their limit and not before, whatever the
  retries; what fails on Starknet leaves Miden alone.
* RPC monitor: it leaves a node only after enough failures, for one that works,
  and does not stay on a dead node.
* publication: pages reach the chain in order and once; success means all are there.
* VRF: no number is known before it is asked for, whatever happens while it is
  computed; a request that can be answered is answered or refunded, and no
  exception ends the listener.
* Miden client: a publication is taken once and in order, though submissions
  outlive their calls; one call repairs an account that has diverged; a call ends.
* fetchers: a price is in the unit of the pair its entry names, whatever hops and
  legs it was computed from, and names a pair that was asked for; a round
  ends although nobody answers.
* EVM nodes: a read gives up only after it has asked, asks no node twice, and,
  alone, asks every node that it may.
* lmax-connector: no snapshot waits unread; the spot price is that of the book sent
  with it; every snapshot, or a later one, is sent; a session gets its subscription.
* lp-pricer: no price is computed from points on both sides of a long outage, nor
  from fewer points than the minimum, nor denser ones but for switches of the node and
  restarts; once nothing fails, every round has a price.

`PROJECT.json` lists the components with what each model covers, and under
`hazards` the places in the code where these properties are at risk.

## 2. Modules

| Module | Stands for |
|---|---|
| `PriceChecks` | the arithmetic of the listener: median, newest timestamp, `_oracle_entry_is_outdated`, `_new_price_is_deviating`, and the outcome for an asset, exceptions included. Pure operators. |
| `CheckedPrices` | that arithmetic over all the entries a set of sources may have: a step replaces one. Compares it with a sorted list. Extends `PriceChecks`. |
| `Orchestrator` | the process: poller, listeners, handlers, pusher, Miden loop, with the oracle contract, crashes and restarts. Extends `PriceChecks`. |
| `Delivery` | what the process promises of each price: the newest waits, is sent, and reaches the oracle in the order of collection; only a publication that fails or a restart leaves it out. `Orchestrator` implements it. |
| `PricePusher` | `update_price_feeds` and `RPCHealthMonitor` in detail: nodes that go down and up, two tasks that switch. What `Orchestrator` leaves to a free choice (`PublishFails` or `PublishRetries`) is decided here. |
| `Publication` | what a publication promises to the pusher: its pages reach the contract at any time, it succeeds only when all have, it may fail at any point. |
| `PublishMany` | `publish_many` with its pages, `_invoke` with the account's lock and nonces, and the node that queues and executes transactions, for several tasks of one account. Implements `Publication`. |
| `VrfListener` | the listener of VRF requests with and without the indexer, `handle_random` and all it calls, the randomness contract's statuses, and the chain. |
| `MidenClient` | the Miden client: startup, `publish_entries` with its reconciliation, threads given up that go on, and Miden's account. What `Orchestrator` takes for two steps (`MidenStarts`, then `MidenAccepts` or `MidenFails`) is a call here. |
| `Units` | prices as quantities with a unit: what a multiplication, a division or a lost power of ten does to it. |
| `Fetchers` | the exchanges, as one procedure with the points in which they differ. Extends `Units`. |
| `FeedFetchers` | price services, feeds and vaults of EVM chains, Ekubo. Extends `Fetchers`. |
| `FetcherRound` | `FetcherClient.fetch` over any of these fetchers, each with the pairs the configuration gives it. What `Orchestrator` takes for one step (`PollSucceeds`, `PollFails`) is a round here. |
| `EvmRpc` | the reads of one EVM fetcher, going round one list of RPC nodes. |
| `LmaxConnector` | lmax-connector: the thread of QuickFIX, the subscribing task, the pushing task. |
| `LpPricer` | lp-pricer, the LP fetcher and its lists in redis. |
| `MCOrchestrator`, `MCPricePusher`, `MCPublishMany`, `MCVrfListener`, `MCParts` | the instances for TLC. `MCPricePusher` also runs `MidenClient`; `MCParts` runs `CheckedPrices`, `FetcherRound`, `EvmRpc`, `LmaxConnector` and `LpPricer`. |
| `PriceChecks_proofs`, `Orchestrator_proofs`, `PricePusher_proofs`, `PublishMany_proofs`, `VrfListener_proofs`, `MidenClient_proofs`, `Fetchers_proofs`, `Publishers_proofs` | the proofs. `PricePusher_proofs` is also about `CheckedPrices`; the last two are about `EvmRpc` and `FetcherRound`, and about `LmaxConnector` and `LpPricer`. |

### Orchestrator

*Grain.* An asyncio task runs without interruption from one `await` to the next;
an action is such a stretch of code. A task that sleeps or waits is a value of
its control variable: `poller`, `listener[l]`, `handler[l]`, `pusher`. Time is
not modelled: after any sleep any task may be next. The one clock is the number of polls
(`clock`), and an entry is stamped with the poll that fetched it.

*Data.* A key is an asset (pair and data type), a source and an expiry; a spot
has only the expiry `Perp` (0). An entry is a price and a timestamp; timestamp 0
stands for no entry, which is also what the oracle contract answers for data it
does not have.

| Code | Model |
|---|---|
| `PricePoller.poll_prices` | `PollSucceeds` (with `Filter`), `PollFails`, `RetryEnds` (without it, as in the code) |
| `Orchestrator.callback_update_prices` | `CallbackUpdatePrices` |
| `PriceListener.run_forever` | `ListenerUsesCache` (no read is due), or `ListenerStartsFetch`, `OracleResponds` once per asset in any order, `ListenerEndsFetch`; `ChecksAndSleeps` is the rest of the iteration |
| `_does_oracle_needs_update` | `Decision`: the assets in the configured order, the first that is not up to date decides; the guard on an empty cache and its counter; the exceptions that end the process |
| `get_spot`, `get_future` | `ChainAnswer`: the median and newest timestamp over the sources of the request |
| `Orchestrator._handle_listener` | `HandlerFlushes` up to `join()`, `HandlerClears` after it |
| `asyncio.Queue` | `push_queue`, `unfinished_tasks`; `Released` is what `task_done()` does to the tasks in `join()` |
| `_pusher_service`, `update_price_feeds` | `PusherGets`, `PublishSucceeds`, `PusherSettles` (the sleep after a publication), `PublishFails` (batch dropped, or fatal guard), `PublishRetries` |
| `publish_many`, `wait_for_acceptance` | `unaccepted` and `ChainAccepts`: any part of a publication is accepted at any time, also after the pusher gave it up or the process ended. A transaction that was given up can still be accepted until a newer price of its key is sent (`Send`): the account's nonces order them. |
| `_miden_service`, `publish_to_miden` | `MidenStarts` takes the last poll; `MidenAccepts` or `MidenFails` is how the call ends. What fails is not tried again before the next round, which takes the poll of then. |
| end of the process | `crashed` names the exception that left `asyncio.gather`; `Restart` is the supervisor |

*History.* `unseen` has no counterpart in the code: per listener, what its accepted
batches have brought to the oracle and it has not read back (`PublishSucceeds` adds,
`ListenerEndsFetch` leaves what the answers do not show, `Missed`). No guard reads it.

*Bounds.* `MaxPolls`, `MaxRestarts`; the limits of the code
(`CONSECUTIVES_EMPTY_ERRORS_LIMIT` and `CONSECUTIVES_PUSH_ERRORS_LIMIT`, 10 in
the code) are constants, 2 or 3 in the runs, enough to count, reset and reach
them. `consecutive_push_error` stops at its limit since nothing but the
comparison reads it.

### PricePusher

The client holds two references to a node: `rpc` (`full_node_client`), which the
monitor checks and switches, and `account_rpc`, the one that the `Account` and
the contracts were created with and that transactions go through.
`MonitorStartsCheck` / `MonitorSeesFailure` / `MonitorSeesHealthy` /
`MonitorRaises` are the monitor's loop around its one `await`; the pusher's
actions are `update_price_feeds`, whose recursion is `attempt`. `switch_rpc`
contains no await that yields, so `SwitchesTo` and `SwitchFails` are single
steps; `FailedAfter` is what it leaves in `failed_rpcs`. `NodeFlips` lets nodes
fail and come back at most `MaxFlips` times.

### PublishMany

A task is one call of `publish_many` followed by
`wait_for_publishing_acceptance`. `Chunks` cuts the entries of one type every
`pagination` entries, as `_publish_entries` does; `Pages` puts the three types
after each other. A page is published by `Acquires`, `GetsNonce`, `Signs` and
`Sends`: the first three are the body of `async with account_locks[...]`, the
last comes after it. `SignFails` and `SendFails` are the requests that raise, the
latter also when the node refuses the nonce; a request that raises may still have
reached the node. The node is external: it takes a transaction whose nonce no
other one has, answers the number of executed transactions as the account's
nonce, and executes in the order of nonces, successfully or not. The sleep
between pages is what usually lets a page execute before the next nonce is read;
since time is not modelled, the model allows both, and a page sent too early is
refused.

### VrfListener

The listener takes requests from `requests_queue` (`indexer` is `"runs"` or
`"stopped"`) or reads the events of the last blocks (`"none"`), then
`handle_random` goes through one request to the node after another. Users and
blocks go on between any two of them, so what was read may be stale when it is
used.

| Code | Model |
|---|---|
| `Listener.run_forever`, `_consume_requests_queue` | `Wakes`: `Taken` is what was not `processed`; `HandlingFails` is the `except` |
| `handle_random` | `pc`, and for each request how far it got (`progress`) |
| `get_block_number` | `GetsBlockNumber` |
| `_index_randomness_requests_events` | `IndexesItself`, with `Recent` |
| `get_request_status` in a `gather`, the filter after it | `ReadsStatus` per request in any order, `KeepsReceived` |
| `fetch_block_hashes` | `FetchesHash` per request; `TooEarly`, `TooOld` are the bounds on the minimum block, `SeedBlock` the parent of the block the code asks for, as it is at that moment |
| `_compute_all_vrf_submit` | `ComputesAnswers` |
| `_get_submit_or_refund_calls` | `Estimates` per request: an answer, a refund, or an exception |
| `submit_random_multicall` | `Sends`, `SeesAccepted`, `Raises` |
| `Indexer.run_forever` | `Delivers`, which may deliver again what is in the pending block; `IndexerStops` |
| contract, node (external) | `MakesRequest`, `Cancels`, `Executes`: the calls of a multicall take effect together or not at all |

What the requests ask for (seed, words, calldata) is left out: of an answer only
the block whose hash it was computed from is kept (`seed`, `seed_used`). Fees are
a choice per request; those of a whitelisted caller are not looked at, which is
`{"covered"}`. The queue is a set since the order of requests plays no part. A
multicall of no calls is kept as in the code: when all requests are out of their
window, one is sent.

### MidenClient

`pc` names the call of `pm_publisher` that is awaited. Such a call ends in one of
three ways: it does what it was asked for (`Imports`, `Syncs`, `Creates`,
`Submits`, or `Rejected` and `NotFound` for a submission), it raises (`Raises`), or
`wait_for` gives it up (`TimesOut`); `AfterSuccess`, `AfterFailure` and
`Reconciles` are where the client goes next. A thread given up stays in `threads`
and may still do its work (`LateThread`).

The account's state is the sequence of the publications in it, each known by the
number of its call (prices get no older from call to call); `committed` of them
are in blocks. The binding is external. Its contract is taken from the client's
comments: the node takes a transaction built on the state it knows with its
mempool and no other; a submission is built on the local state at its beginning;
`import_account` overwrites the local state with that in blocks; `sync` does so
only for an account that is tracked and has a higher nonce in blocks. Expiring
transactions are among those that raise.

`calm` is a history variable: it says that nothing has hindered the call so far.

### Units, Fetchers, FeedFetchers, FetcherRound

What can be wrong with a fetched price, and no test sees while USDT is near a
dollar, is which prices were multiplied and which divided. So a price is its unit:
the exponent of each currency, and of ten. `Price(Pair(b, q))` is `q` per `b`; a
hopped market is the price of that market; `_construct` multiplies and divides as
the code does, and `InPairUnit` compares the result with the pair that the entry
names.

The exchanges share one procedure (`FetchPair`: the market that stands for the
pair, the checks of the reply, `operate_usdt_hop` when the market is unknown,
`_construct`), copied from file to file with differences. The model has the
procedure once, and a record per exchange for the differences: what it hops, which
prices it divides by the price of USDT, which status and which body it takes for
an unknown market, and which second market it asks for. A reply is its status and
whether the body has the fields that are read, looks like an unknown market, or
neither. `Settle` is the order of several requests: the first that is no price ends
the procedure, in an error or an exception.

| Code | Model |
|---|---|
| `fetch_pair`, `operate_usdt_hop`, `_construct` of 14 exchanges | `FetchPair`, `OperateUsdtHop`, `Rebased`, `Triangulated`, and the records `Binance` ... `OkxFuture` |
| Defillama, GeckoTerminal, Dexscreener, Coinbase, IndexCoop, Pyth, sUSN | one operator each, the set of what it may return for a pair |
| `EVMOracleFeedFetcher.fetch` and its eight subclasses, `ERC4626RateFetcher` | `EvmOutcomes`, with a record of hops and feeds each |
| `EkuboFetcher.fetch` | `EkuboFetch`: all pairs together, since one answer that is too long or a hop price that is missing costs others |
| `_add_one_fetcher` | `AskedOf`, `Added` |
| `FetcherClient.fetch` | `RoundStarts`, `FetcherEnds`, `FetcherTimesOut`, `RoundEnds` |

The pairs of a fetcher are awaited with one `gather`, and nothing else in the
process looks at them in between: a fetcher is one task that ends with an outcome
per pair. Volumes and timestamps of entries are left out. `get_stable_price` and the
hop prices are those of the oracle, or cannot be read. The configuration is a set of
pairs; its order shows nowhere but in Ekubo, which looks at the pair that
`list(set)` happens to put `first`.

### EvmRpc

Between two awaits a read runs alone, and its only await is the request; `Draws`
is one turn of the loop over the nodes, and `LoopIsFree` keeps others from stepping
in between draws. `asked` and `owed` are history: the nodes that the read has asked,
and those that it must ask before it may report that all have failed, when no
other read moves the position meanwhile. Both fetchers are modelled (`reader`): the
one of feeds with its cooldowns and its second pass, the one of vaults without.

### LmaxConnector

| Code | Model |
|---|---|
| `onLogon`, `onLogout`, `_handle_market_data` (thread of QuickFIX) | `LogsOn`, `ForcesSubscription`, `LogsOut`, `StoresSnapshot`, `Signals`: two steps where the code makes two writes, since the tasks may run between them |
| `subscribe_market_data` | `LooksAtSession`, `SeesSession`, `WaitTimesOut`, `Decides`, `SendsRequest`, `StampsRequest`, `RequestFails`, `StartsInitiator`, `StartRaises` |
| `resubscribe_interval` | `asked_at` and `IntervalPasses` |
| `push_prices` | `CreatesEvent`, `Wakes` or `WaitsInVain`, `ClearsEvent`, `ReadsLatest`, `Picks`, `SendsBook`, `SendsSpot`, `SendingFails`, `BacksOff` |
| `shutdown` | `ShutsDown` |

`MaxDisturbances` bounds lost sessions, requests and messages that fail;
`MaxSnapshots` bounds what LMAX sends.

### LpPricer

A point of the lists in redis is its age in units of `publish_delay` and, as history,
how many `setbacks` there had been when it was stored: switches of the node, which skip
the delay, and ends of the process. `Stored` is `lpush`, `ltrim` and
`expire`; `Older` lets a delay pass and the lists expire. The loop is `Stores`,
`ComputesPrice`, `Publishes`, `Sleeps`, with the ways it fails at each point;
`SwitchesNode` is the `continue` that skips the delay; `Dies`, `StaysDown` and
`StartsAgain` are an outage. `MaxMishaps` bounds failures, ages stop at `MaxAge`.

## 3. Runs

| Run | Properties | What it shows |
|---|---|---|
| `overlap` | `TypeOK` `QueueAccounting` `NoSpam` `EachEntryOnce` `ChainNeverRegresses` `DeliversPrices` | two listeners whose groups share an asset, failing polls, reads and publications, on-chain fetchers whose retry is not filtered, a restart: the queue, the order of prices, and the promise made of each |
| `sources` | `NotificationJustified` `StaleIsFlushed` `StaleReachesChain` | two sources, each answering some polls only, `time_difference` 1, failing reads and publications: no notification on prices older than the listener's own pushes; an asset that is stale as a whole is flushed and, where publications succeed, reaches the oracle |
| `live` | `NotificationHandled` | two listeners of one asset, failing reads and publications: no notification hangs |
| `miden` | `FilteredPollsNeverCrash` `MidenFollowsPolls` | a future with a dated expiry, prices 0, all faults and a restart: the listener survives; Miden is offered every poll or a later one though Starknet hangs or fails for ever and Miden refuses, and has it if it goes on accepting |
| `pusher` | `FatalGuard` `SwitchLeavesFailedNode` `FreshNodeIsFound` `OnceInOrder` `DivergenceHeals` `CallsEnd` | the two chains, one per behaviour. Starknet: four nodes, the one in use being outside the list, both tasks switching; while a node not yet known as failed works, the monitor does not stay on a dead one. Miden: three calls, any number of timeouts, two faults, a restart with an empty store; late submissions never put older prices over newer ones |
| `publish` | `PagesInOrder` `EveryPublicationEnds` `KeepsItsPromise` | three tasks with three, two and no pages on one account, requests refused and lost: what is left on the chain is always a beginning of each batch, and the abstract promise holds |
| `parts` | `MedianIsMiddle` `PushSettlesCheck`; `InPairUnit` `EntriesAreAsked` `RoundsEnd`; `NeverGivesUpUnasked` `AsksOnce` `LonelyReadAsksAll`; `NothingUnread` `SpotFollowsBook` `SnapshotsArePushed` `Resubscribes`; `NoPriceAcrossOutage` `PointsSpanTheirRounds` `PoolIsPriced` | five parts, one per behaviour: the listener's arithmetic against a sorted list, and against its own push, for up to 4 sources; every fetcher on pairs that take each of its routes, with every answer; two concurrent reads over three nodes; lmax-connector with two snapshots and two disturbances; lp-pricer with four mishaps |
| `vrf` | `TypeOK` `SeedAfterRequest` `PolledIsSettled` | two requests with different delays and fees, both modes, cancellations and one fault: the seed is never older than the request; without the indexer every request that can be answered is settled |
| `retry` | `RetryUsesNewRpc` (violated) | the retry after a switch goes to the old node |
| `nonces` | `NoncesAreDistinct` (violated) | without any fault, two calls sign the same nonce: the lock ends before the first is sent |
| `units` | `RebasedInPairUnit` (violated) | a price in USDT is divided by the price of USDT in dollars where it should be multiplied |
| `vrf_queue` | `DueIsSettled` (violated) | without any fault, a request that the indexer delivers too early is taken from the queue and never answered |

*Parts.* Components that share no state need no common behaviours, only a common run.
`MCParts` and `MCPricePusher` choose in the first state which part runs (`part`); the
variables of the others keep one initial value. So the states of the parts are
added and not multiplied, each behaviour is one of its module, and an invariant of a part holds
trivially in the others. The fairness of a part is that of its module, while it
is the one that runs.

*Why the bounds are enough.* The hazards of the orchestrator need two batches in
the queue or one in the queue and one in flight (two listeners), an entry newer
than one on its way (two polls), and a limit that is reached after a reset
(limits of 2 or 3). In `sources` the price pushed first is old when the third poll
comes, with a `time_difference` of 1; and one source can be new enough to hide that the
other is not, which `StaleIsFlushed` is therefore not about. The theorems of section 5 remove the bounds for the
properties they cover. A switch that fails and one that succeeds, with
`failed_rpcs` being cleared in between, needs three nodes in the list.
In `PublishMany`, a page can fail before, between and after
others with three pages of one task, and nonces can collide with two tasks; the
third task checks a batch with no page. In `VrfListener` two requests are needed
for a batch in which one stops the other, and four blocks for a request that is
too early, due, and too old. In `MidenClient` a late submission can meet a
newer one that was dropped, and one that is in a block: three calls. The listener's arithmetic needs an even and an odd number of prices with repetitions: 4
sources and 3 prices. In `FetcherRound` one fetcher at a time is enough for its
units, and two for one that ends before the other is given up; the sets of pairs
(`SomePairs`) have a pair for each route of each fetcher, and for the fetchers that
mix pairs up a set with two quotes, either of them first. In `EvmRpc` two reads over
three nodes allow a read to be overtaken and all nodes to cool down. In
`LmaxConnector` an event can be set before, between and after the clear and the read
with two snapshots; an error threshold of 2 is reached and reset. In `LpPricer` four mishaps allow
an outage, a failure before and after it and a switch, with lists of four points, of which three are needed.

*Deadlock* is checked in every run: a process that has crashed stutters
(`Stopped`), every other state has a step.

### Findings

The four violation runs are recorded with their quotes in `PROJECT.json`. Each is a
behaviour that the code has and that a docstring or comment next to it
contradicts. `retry` depends on `client.py:124,165`: the account and the
contracts keep the `FullNodeClient` they are given. `vrf_queue` differs from `vrf` in its
mode only: reading the events again at each turn is what makes up for requests
that come too early. `units` concerns every exchange that hops from USD to USDT but
KuCoin: what is published differs from the price in dollars by twice the distance of USDT
from a dollar. `InPairUnit`, which reads stablecoins as dollars, holds for them.

The models also contain the following, which no run is spent on, and which matter
for what the other properties can say:

* the retry of the poller is not filtered, so it may store a price 0 or a dated
  future (`RetryEnds`); `FilteredPollsNeverCrash` is stated for the other path;
* `failed_rpcs` is only cleared once it holds every listed node: one that failed
  once is not tried again while another has not been marked, even if that other
  one is down and stays so (`SwitchFails`); hence `FreshNodeIsFound` and not more;
* one request whose fee estimation raises makes the whole batch fail, every time
  (`Estimates` and `Raises`); `DueIsSettled` excludes it by `Blocks`;
* the guard of the listener on an empty oracle ends the process, and Miden with it,
  while the pusher keeps it alive for Miden (`Decision`, `crashed`);
* a Miden account that could not be imported at startup is not imported again
  before the next restart, although the log says so: `AccountDataNotFound` is not
  among the errors that reconcile (`NotFound`); `DivergenceHeals` supposes that the
  account is tracked;
* `InPairUnit` excepts five places where the code returns a price in another unit
  (`KnownWrong`): the second leg of KuCoin's triangulation is the first one, GeckoTerminal's cross price is inverted,
  Coinbase and IndexCoop ignore a quote that is not the dollar, and Ekubo loses the
  sign of the difference of the decimals; none of them is asked for such a pair by
  the configurations in the repository;
* Ekubo labels every hopped pair with the quote of the fetcher's first pair: `EntriesAreAsked` supposes
  that its pairs have one quote (`OneQuote`);
* prices that lmax-connector seeds are never sent: the push loop fails on them (`Picks`);
* after a switch of the node lp-pricer stores the next point without a delay
  (`SwitchesNode`), so that ten points may span less: `PointsSpanTheirRounds` allows one
  delay less for each switch and each end of the process. Without any, ten points span nine delays of three minutes,
  27 minutes and not the 30 that `fetcher.py:27` and `lp_pricer/main.py:31` name;
* the listener compares the newest timestamps over all sources
  (`_oracle_entry_is_outdated`), and the oracle's answer is about the sources that wait:
  a source whose price is old in the oracle stays unpushed while another one is new
  enough and the median has not moved. `Stale` is therefore of an asset;
* nothing awaits the indexer's task, so nobody notices that it has ended
  (`IndexerStops`).

## 4. Fairness

`FairSpec` assumes that the event loop runs every task that is ready: weak
fairness of each listener, of each handler, of the pusher taking a batch and of
its sleep ending. All reads have timeouts and retries that end
(`chain.py`), so a read is answered or fails. It also assumes that a publication
ends, in success or failure (`wait_for_acceptance` polls a node whose requests
time out); without that no liveness of the push path can hold, since
`update_price_feeds` has no timeout of its own. It assumes neither polls, nor
successes, nor acceptances. `StaleReachesChain` names what it supposes in addition:
that the chain accepts what it is sent, and that no publication fails. `MidenSpec`
assumes fairness of the Miden loop alone (its steps have timeouts, see `CallsEnd`): its
property must hold with the pusher hanging forever. That Miden accepts is no
assumption: the first part of `MidenFollowsPolls` holds though it never does, and the second
supposes that it accepts again and again. In `PricePusher` both tasks are fair: the
monitor sleeps a fixed time and its requests end. Nodes are never assumed to
come back. `FreshNodeIsFound` is conditional on the monitor's check giving an
answer again and again: an exception that `check_rpc_health` does not catch is
logged and counted by nobody. In `PublishMany` every task goes on when it can and the node
executes the transaction whose turn it is; neither has to succeed. In
`VrfListener` the listener goes on, the stream delivers each event once, and the
chain executes what it has received, successfully or not; blocks need not be
closed and users need not do anything. In `MidenClient` nothing is assumed but
that timeouts expire. In `FetcherRound` a fetcher that runs is ended by its timeout
(`asyncio.timeout`), or before. In `LmaxConnector` a callback returns, both tasks go on
since each of their waits has a timeout, and time passes; LMAX need not log on, nor
send anything. In `LpPricer` the loop goes on and a process that has ended is
started again; that failures stop is the bound `MaxMishaps`.

## 5. Proofs

Assumptions: only those on the constants, `ChecksAssumption`, `CheckedAssumption`,
`OrchestratorAssumption`, `PusherAssumption`, `PublishAssumption`, `VrfAssumption`,
`MidenAssumption`, `RpcAssumption`, `LmaxAssumption`, `LpAssumption`, `UnitsAssumption`,
`FetchersAssumption` and `RoundAssumption`, which say that limits are
positive, that prices are naturals, that the set of sources is finite, that there is
at least one RPC node, that the lists in redis hold the minimum of points and ages are
counted far enough for it, that the stablecoins are currencies, that a currency has
a natural number of decimals, and that the configuration names pairs of currencies and
fetchers there are. The theorems hold for any number of listeners, groups that overlap in any way,
assets, sources, expiries, polls and restarts, any number of tasks and pages, any
requests, delays and thresholds, any reads and RPC nodes, any snapshots, any histories,
any currencies, pairs and answers of exchanges, with all faults allowed.

| Theorem | States |
|---|---|
| `TypeCorrect` | `Spec => []TypeOK` |
| `QueueIsAccounted` | `Spec => []QueueAccounting` |
| `ListenersDoNotSpam` | `Spec => []NoSpam` |
| `EntriesAreUnique` | `Spec => []EachEntryOnce` |
| `ChainIsMonotonic` | `Spec => ChainNeverRegresses` |
| `PricesAreDelivered` | `Spec => DeliversPrices`, which is `Promise!Spec` |
| `FilteredPollsAreSafe` | `Spec => []FilteredPollsNeverCrash` |
| `NotificationsAreJustified` | `Spec => NotificationJustified` |
| `TypeCorrect`, `GuardIsKept` | `Spec => []TypeOK`, `Spec => [](TypeOK /\ FatalGuard)` (of `PricePusher`) |
| `SwitchesAreSound`, `SwitchesAreDue` | `Spec => SwitchLeavesFailedNode`, `Spec => SwitchNeedsFailures` |
| `TypeCorrect`, `PagesStayInOrder` | `Spec => []TypeOK`, `Spec => []PagesInOrder` (of `PublishMany`) |
| `PublishManyImplementsPublication` | `Spec => Abstract!Spec` (of `PublishMany`) |
| `TypeCorrect`, `SeedsComeAfterRequests` | `Spec => []TypeOK`, `Spec => []SeedAfterRequest` (of `VrfListener`) |
| `TypeCorrect`, `PublishesOnceInOrder`, `OneCallHeals` | `Spec => []TypeOK`, `Spec => []OnceInOrder`, `Spec => []DivergenceHeals` (of `MidenClient`) |
| `NoReadGivesUpUnasked`, `NoNodeIsAskedTwice`, `LonelyReadsAskAll` | `EvmSpec => NeverGivesUpUnasked`, `EvmSpec => AsksOnce`, `EvmSpec => LonelyReadAsksAll` |
| `PricesAreInPairUnit`, `EntriesAnswerRequests` | `RoundSpec => []InPairUnit`, `RoundSpec => []EntriesAreAsked` |
| `SnapshotsAreSeen`, `SpotsFollowBooks` | `LmaxSpec => []NothingUnread`, `LmaxSpec => SpotFollowsBook` |
| `OutagesAreNotBridged`, `PointsAreRounds` | `LpSpec => []NoPriceAcrossOutage`, `LpSpec => []PointsSpanTheirRounds` |
| `MediansAreMiddle`, `ChecksSettle` | `ChecksSpec => []MedianIsMiddle`, `ChecksSpec => []PushSettlesCheck`; the second by `PushesSettle`, for any finite set of entries |
| `MedianIsBetweenPrices` | the median of any finite set of prices exists, between two of them |

*Argument.* Types are inductive except for two points: what the oracle answers
(a `CHOOSE`) has to exist, which is `NewestTsIsNewest` and
`KthPriceIsPrice`, by well-founded minimality on finite sets; and
`unfinished_tasks` must not fall below 0, which needs the accounting. So `TypeOK`
is proved together with `Pipeline`: the pusher is idle exactly when nothing is in
flight, the count equals the batches on their way, owners of batches are in
`join()`, and a handler that is not waiting for its event still has it set. The
last part is what makes `NoSpam` follow: a batch on its way implies a handler in
`join()`, which implies the event is set, which keeps the listener asleep.

`ChainNeverRegresses` is not inductive, since it says nothing of what is on its
way. `Order` strengthens it: for each key the timestamps increase along oracle,
unaccepted transactions, batch in flight, queue, `latest_prices`, strictly from
the queue on, and none exceeds the clock. Only a retried batch may meet itself in
the oracle. Each action moves entries along that line or adds one at its end
with the next value of the clock; a crash cuts the line and keeps its head.
`EachEntryOnce` follows from the strict part. Both invariants were first checked
by TLC on the instance of `overlap`.

`MedianIsMiddle` compares two ways to the same price: the one that fewer than `k` prices
are below and at least `k` do not exceed, and the `k`-th of a sorted list. That a finite
set can be sorted (`AscendingExists`) is by contradiction on a least set that
cannot: without its greatest price it can, and that price goes last. If the counted price
were below the `k`-th, the prices up to it would be among the first `k - 1` of the list;
if it were above, the first `k` would all be below it (`KthPriceIsKth`).

`DeliversPrices` is the refinement of `Delivery`. What waits is `latest_prices`, the
oracle is `chain`, what is on its way are the entries of the queued batches and of the
one in flight (`OnTheirWay`), and what is given up is what the chain may still accept
of a key that no batch in flight holds (`GivenUp`). `Order` makes the entry in flight the oldest
of its key (`OldestIsSending`), which is the one that `Delivery` lets the oracle
accept next. `Published` adds where it is: each
entry in flight is unaccepted, or the oracle holds it, and the pusher sleeps after a
publication only when all are of the second kind. That is why the end of a
publication removes nothing but what arrived (`Finish`), and why a failure or a
restart leaves at most the oldest one behind, to be accepted late (`GiveUp`,
`Restart`). A retry, a read, a check, a publication to Miden and a cleared event
change nothing in `Delivery`. Without faults and restarts (constants of the theorem like
any others) `GiveUp` and `Restart` are disabled there, so that nothing flushed is left out.

`FilteredPollsNeverCrash` is strengthened by `AllClean`: when every poll is filtered,
every price anywhere (`latest_prices`, queue, batch in flight, unaccepted transactions,
oracle, the caches of the listeners) is positive and has no dated expiry. The median of
positive prices is positive, even after the oracle's rounding, so the division in
`_new_price_is_deviating` is by no 0. `PushesSettle` is arithmetic: the
oracle's price is its median rounded down, so the two differ by at most a half, which a
deviation that is not finer than the rounding allows.

`NotificationJustified` says that a listener notifies only with nothing left in
`unseen`. `Seen` relates that to where its reads are. What is unseen of a key is no
newer than the oracle (which `Order` carries through other listeners'
pushes and late acceptances), so an answer that comes now is at least as new for every
source it is about (`AnswerIsNewest`), and stays so while others are awaited. When all
have come, nothing is missed (`NothingMissed`). The rest is about when the listener may
use its cache: a notification resets `last_fetch_time`, so that a listener whose event
is set will read before its next check; while its batch is on its way its event is set
(`Pipeline`), so no publication adds to `unseen` behind a cache that will still be used.
The variant that keeps `last_fetch_time` (`AlwaysFetched`), and the one whose handler
does not wait in `join()`, break it.

For `PublishMany` the strengthening `Inv` rests on the nonces: no task ever holds
one above the node's, so a transaction that the node takes has the very next
nonce and at most one waits at a time (`Nonces`, `OneWaits`). Together with
`Counted` (what the node received of a task is exactly the pages the task counts
as sent, but for one whose sending failed) this makes executing a transaction
extend its batch by the next page. The refinement maps a task's unaccepted pages
to those not in `accepted`; every step but `Executes`, `Succeeds` and the failures
stutters.

For `VrfListener`, `SeedAfterRequest` is strengthened to every place a seed can be:
fetched, in a call on its way, and used (`Seeds`). A seed is fetched for requests
that were made (`OnlyMade`), under bounds computed from a block number that is
older than the chain by then: the chain grows only, so the block whose hash is
taken is at least the one before the minimum block, which a positive delay puts
at or after the block of the request. `OneCallEach` says that a multicall has one
call per request, so that what the contract stores is the seed of that call.

For `MidenClient`, `Order` says that every state anybody holds (the node, the store,
the submission awaited, the threads given up) is older than the publication to
be built on it. The node takes a publication only on the state it has, so a late
one extends nothing newer than itself. What makes it inductive is that a call
ends with the submission that may have been taken, whether it learns of it or not:
the variant that retries after a timeout publishes twice. `Calm` follows one call:
after the import the local state is the node's, since all of it is in blocks.

For `EvmRpc`, `EvmInv` relates what a read remembers to what it did: `made_request`
says whether it has asked a node (`CountsRequests`), `attempted` holds every node it
asked (`Remembers`), since it is emptied for a second pass only when none was, and a
vault's read or a second pass skips nothing at its first draw (`HasADraw`). The nodes
drawn are left open: neither property depends on where the position stands.
`LonelyReadAsksAll` does. Nodes have a distance from the position (`Dist`), and
`OnItsWay` says that each node a lonely read has yet to ask is nearer than the
number of draws it has left, has not been attempted and is not cooling down. `_next_rpc_url`
draws the nearest node (`NextIsNearest`), so the others come strictly nearer
(`DrawComesNearer`). Before a second pass nothing can be said but that all nodes cool
down (`SkipsAll`); the pass begins with all nodes ahead (`PassReachesAll`).

For `FetcherRound`, a price is a function from currencies to exponents, and two are
equal up to the stablecoins when their dollars add up to the same and the rest agrees
(`SameIf`). Lemmas state the ways a price is computed once: over another, in a chain, a
market in tether for one in dollars (`CrossUnit`, `ChainUnit`, `TetherForDollars`);
each procedure then is right by the one it uses (`ExchangeIsRight`, `ServiceIsRight`,
`EvmIsRight`, `EkuboEntryIsRight`). For the feeds this needs that their tables map a
pair to one of the same base (`FeedTables`). `RoundInv` says that what a task holds
and what a round returned came from those procedures.

For `LmaxConnector`, `Seen` extends `NothingUnread` to every step: while the event is
not set, the FIX thread is not about to set it and the push task is not about to read,
the latest snapshot has been read. Clearing the event before reading is what keeps it.
It needs that the event is absent until `push_prices` creates it: created anew later, it
would swallow a signal.

For `LpPricer`, `LpInv` says of the whole list what the properties say of its newest
points: `Connected` for `NoPriceAcrossOutage`, where a point is stored only on a list
that redis has not forgotten (`Alive`). For `PointsSpanTheirRounds` every point, not only
the oldest, has as many delays and setbacks behind it as points were stored after it
(`Spaced`), and one more while the round that comes has not stored its own (`Rested`):
that one is a delay or a setback, whichever way the last round ended. Ages are only
counted up to `MaxAge`; `Young` says that connected points cannot get that old behind a
newest one of age 0, so that nothing is excepted in the properties.

Only model-checked: liveness (`NotificationHandled`, `StaleIsFlushed`,
`StaleReachesChain`, `MidenFollowsPolls`, `FreshNodeIsFound`, `EveryPublicationEnds`,
`PolledIsSettled`, `CallsEnd`, `RoundsEnd`, `SnapshotsArePushed`, `Resubscribes`,
`PoolIsPriced`), which needs
fairness and `ENABLED`. Every invariant and every action property that a passing run checks is
also the statement of a theorem.

## 6. What is abstracted or left out

* Volumes, publishers, serialization, logging; decimals (a price is an integer).
* Real time: intervals and sleeps only say what may come next. `time_difference` is
  compared with differences of poll numbers.
* Futures with other expiries on the oracle's side: the request handler reads
  expiry 0 only. On the poller's side they exist (`dated`).
* The pages of `publish_many` are not counted: `ChainAccepts` accepts any subset,
  which includes every way pages can succeed.
* HTTP and JSON of the fetchers: an answer is one of the cases that the code tells
  apart. For `Orchestrator` a poll returns any subset of keys with any prices.
* The arithmetic of the price of a pool (`_compute_lp_price`), and the validation of pools at startup.
* The health servers: handlers that compare one timestamp with the clock.
* The merkle feed and the Deribit fetcher: no service of the repository runs them.
* The checkpointer: two timers that share nothing but an account, whose nonces are
  those of `PublishMany`.
* ECVRF: arithmetic on 255-bit fields.
* Which pair object an LMAX instrument gets: the book of SPX500m, whose ticker is not
  among the supported ones, goes out as that of EUR/USD, next to its spot price.
* Which entries of a poll make the Miden price of a pair: `publish_to_miden` takes the median over
  all of them, those of futures included.
* Helm charts, images, scripts, the two lambdas: no state of their own.

## 7. What is left

1. The composition of `VrfListener` with `PublishMany` through the account's lock and
   nonces: `Sends` only has the refusal of a nonce that waits.
2. The serialization of entries.
