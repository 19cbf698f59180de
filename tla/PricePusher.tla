---------------------------- MODULE PricePusher ----------------------------
(***************************************************************************)
(* PricePusher.update_price_feeds (price_pusher/core/pusher.py) and the    *)
(* RPCHealthMonitor it creates (pragma_sdk/onchain/rpc_monitor.py), which  *)
(* runs as a task of its own on the same PragmaOnChainClient.              *)
(*                                                                         *)
(* The client holds two references to an RPC node: full_node_client, which *)
(* the monitor checks and replaces, and the one its Account and Contracts  *)
(* were built with, through which transactions are sent.                   *)
(***************************************************************************)
EXTENDS Naturals, FiniteSets

CONSTANTS
  Rpcs,            \* RPC_URLS[network]
  InitialRpc,      \* the node the client was created with
  MaxRpcFailures,  \* MAX_RPC_FAILURES
  PushLimit,       \* CONSECUTIVES_PUSH_ERRORS_LIMIT
  MidenEnabled,    \* miden_client is not None
  OtherErrors,     \* a publication may fail on a working node (no funds, ...)
  CheckMayRaise,   \* a health check may raise neither of the caught exceptions
  MaxBatches,      \* bound: batches pushed
  MaxFlips         \* bound: nodes that go down or come back

ASSUME PusherAssumption ==
  /\ IsFiniteSet(Rpcs)
  /\ MaxRpcFailures \in Nat \ {0}
  /\ PushLimit \in Nat \ {0}
  /\ MidenEnabled \in BOOLEAN
  /\ OtherErrors \in BOOLEAN
  /\ CheckMayRaise \in BOOLEAN
  /\ MaxBatches \in Nat
  /\ MaxFlips \in Nat

VARIABLES
  rpc,                   \* client.full_node_client (and client.client)
  account_rpc,           \* the client of client.account and of the contracts
  failed_rpcs,
  current_rpc_failures,
  monitor,               \* "sleeping" or "checking"
  checked_rpc,           \* the node the current check was sent to
  pusher,                \* "idle", "publishing", "settling"
  attempt,               \* calls of update_price_feeds on the stack
  consecutive_push_error,
  crashed,               \* the fatal guard raised
  batches,
  up,                    \* the nodes that work now
  flips

monitor_vars == <<monitor, checked_rpc>>
pusher_vars  == <<pusher, attempt, consecutive_push_error, crashed, batches>>
client_vars  == <<rpc, account_rpc, failed_rpcs, current_rpc_failures>>
env_vars     == <<up, flips>>
vars == <<client_vars, monitor_vars, pusher_vars, env_vars>>

Nodes == Rpcs \cup {InitialRpc}

Init ==
  /\ rpc = InitialRpc
  /\ account_rpc = InitialRpc
  /\ failed_rpcs = {}
  /\ current_rpc_failures = 0
  /\ monitor = "sleeping"
  /\ checked_rpc = InitialRpc
  /\ pusher = "idle"
  /\ attempt = 0
  /\ consecutive_push_error = 0
  /\ crashed = FALSE
  /\ batches = 0
  /\ up = Nodes
  /\ flips = 0
-----------------------------------------------------------------------------
(* RPCHealthMonitor *)

\* Variant: when all have failed, the current node is forgotten too.
FailedForgetsCurrent ==
  LET failed == failed_rpcs \cup {rpc}
  IN  IF Rpcs \subseteq failed THEN {} ELSE failed

\* What switch_rpc leaves in failed_rpcs, and the nodes it lets
\* pick_random_rpc try.
FailedAfter ==
  LET failed == failed_rpcs \cup {rpc}
  IN  IF Rpcs \subseteq failed THEN {rpc} ELSE failed
Candidates == Rpcs \ FailedAfter

\* switch_rpc: no await in it, so a single step.  pick_random_rpc returns one
\* of the candidates that answer, whichever comes first.
SwitchesTo(node) ==
  /\ node \in Candidates \cap up
  /\ failed_rpcs' = FailedAfter
  /\ rpc' = node
  /\ current_rpc_failures' = 0
  /\ UNCHANGED account_rpc

\* None of them answers.
SwitchFails(failures) ==
  /\ Candidates \cap up = {}
  /\ failed_rpcs' = FailedAfter
  /\ current_rpc_failures' = failures
  /\ UNCHANGED <<rpc, account_rpc>>

\* Variant: the failure is not counted.
SameFailures == current_rpc_failures

\* Failures are only compared to MAX_RPC_FAILURES: the model stops there.
OneMoreFailure ==
  IF current_rpc_failures < MaxRpcFailures THEN current_rpc_failures + 1
                                           ELSE MaxRpcFailures

StaysOn(failures) ==
  /\ current_rpc_failures' = failures
  /\ UNCHANGED <<rpc, account_rpc, failed_rpcs>>

MonitorStartsCheck ==
  /\ monitor = "sleeping"
  /\ monitor' = "checking"
  /\ checked_rpc' = rpc
  /\ UNCHANGED <<client_vars, pusher_vars, env_vars>>

\* The node that was asked does not answer; the failure goes to whatever node
\* is current by now.
MonitorSeesFailure ==
  /\ monitor = "checking"
  /\ checked_rpc \notin up
  /\ monitor' = "sleeping"
  /\ IF OneMoreFailure >= MaxRpcFailures
       THEN (\E node \in Rpcs : SwitchesTo(node)) \/ SwitchFails(OneMoreFailure)
       ELSE StaysOn(OneMoreFailure)
  /\ UNCHANGED <<checked_rpc, pusher_vars, env_vars>>

MonitorSeesHealthy ==
  /\ monitor = "checking"
  /\ checked_rpc \in up
  /\ monitor' = "sleeping"
  /\ StaysOn(0)
  /\ UNCHANGED <<checked_rpc, pusher_vars, env_vars>>

\* The exception is logged by monitor_rpc_health and not counted.
MonitorRaises ==
  /\ monitor = "checking"
  /\ CheckMayRaise
  /\ checked_rpc \notin up
  /\ monitor' = "sleeping"
  /\ UNCHANGED <<client_vars, checked_rpc, pusher_vars, env_vars>>

MonitorStep ==
  MonitorStartsCheck \/ MonitorSeesFailure \/ MonitorSeesHealthy \/ MonitorRaises
-----------------------------------------------------------------------------
(* update_price_feeds *)

PusherStarts ==
  /\ pusher = "idle"
  /\ batches < MaxBatches
  /\ batches' = batches + 1
  /\ pusher' = "publishing"
  /\ attempt' = 1
  /\ UNCHANGED <<consecutive_push_error, crashed, client_vars, monitor_vars, env_vars>>

PublishSucceeds ==
  /\ pusher = "publishing"
  /\ account_rpc \in up
  /\ pusher' = "settling"
  /\ UNCHANGED <<attempt, consecutive_push_error, crashed, batches, client_vars,
                 monitor_vars, env_vars>>

PusherSettles ==
  /\ pusher = "settling"
  /\ consecutive_push_error' = 0
  /\ pusher' = "idle"
  /\ attempt' = 0
  /\ UNCHANGED <<crashed, batches, client_vars, monitor_vars, env_vars>>

\* consecutive_push_error is only compared to its limit: the model stops there.
CountPushError ==
  consecutive_push_error' = IF consecutive_push_error < PushLimit
                              THEN consecutive_push_error + 1 ELSE PushLimit

\* The node has failed too often, another one answers: publish again.
RetriesOnNewRpc ==
  /\ OneMoreFailure >= MaxRpcFailures
  /\ \E node \in Rpcs : SwitchesTo(node)
  /\ attempt' = attempt + 1
  /\ UNCHANGED <<pusher, crashed>>

\* Variant: a switch that fails returns before the guard.
GivesUpBeforeGuard ==
  LET switching == OneMoreFailure >= MaxRpcFailures
  IN  /\ IF switching THEN SwitchFails(OneMoreFailure) ELSE StaysOn(OneMoreFailure)
      /\ IF ~switching /\ consecutive_push_error' >= PushLimit /\ ~MidenEnabled
           THEN crashed' = TRUE /\ UNCHANGED <<pusher, attempt>>
           ELSE pusher' = "idle" /\ attempt' = 0 /\ UNCHANGED crashed

\* Otherwise every call on the stack returns None, or the fatal guard raises.
GivesUp ==
  /\ IF OneMoreFailure >= MaxRpcFailures THEN SwitchFails(OneMoreFailure)
                                         ELSE StaysOn(OneMoreFailure)
  /\ IF consecutive_push_error' >= PushLimit /\ ~MidenEnabled
       THEN crashed' = TRUE /\ UNCHANGED <<pusher, attempt>>
       ELSE pusher' = "idle" /\ attempt' = 0 /\ UNCHANGED crashed

PublishFails ==
  /\ pusher = "publishing"
  /\ account_rpc \notin up \/ OtherErrors
  /\ CountPushError
  /\ RetriesOnNewRpc \/ GivesUp
  /\ UNCHANGED <<batches, monitor_vars, env_vars>>

PusherStep == PusherStarts \/ PublishSucceeds \/ PusherSettles \/ PublishFails
-----------------------------------------------------------------------------
(* The nodes *)

NodeFlips ==
  /\ flips < MaxFlips
  /\ flips' = flips + 1
  /\ \E node \in Nodes : up' = IF node \in up THEN up \ {node} ELSE up \cup {node}
  /\ UNCHANGED <<client_vars, monitor_vars, pusher_vars>>

Stopped == crashed /\ UNCHANGED vars

Next ==
  \/ ~crashed /\ (MonitorStep \/ PusherStep)
  \/ NodeFlips
  \/ Stopped

\* Both tasks go on: the sleep of the monitor and every request end.
Fairness ==
  /\ WF_vars(~crashed /\ MonitorStep)
  /\ WF_vars(~crashed /\ PusherStep)

Spec == Init /\ [][Next]_vars
FairSpec == Spec /\ Fairness
-----------------------------------------------------------------------------
(* Properties *)

TypeOK ==
  /\ rpc \in Nodes
  /\ account_rpc \in Nodes
  /\ failed_rpcs \subseteq Nodes
  /\ current_rpc_failures \in 0..MaxRpcFailures
  /\ monitor \in {"sleeping", "checking"}
  /\ checked_rpc \in Nodes
  /\ pusher \in {"idle", "publishing", "settling"}
  /\ attempt \in Nat
  /\ consecutive_push_error \in 0..PushLimit
  /\ crashed \in BOOLEAN
  /\ batches \in Nat
  /\ up \subseteq Nodes
  /\ flips \in Nat

\* The fatal guard is not skipped by the retries on a new node: between two
\* batches the count is below its limit, unless Miden shares the process
\* (PricePusher.update_price_feeds).
FatalGuard ==
  pusher = "idle" /\ ~MidenEnabled => consecutive_push_error < PushLimit

\* A switch goes to a node that answers, that is neither the one it leaves nor
\* one known to have failed, and remembers the one it leaves, whichever of the
\* two tasks switches (RPCHealthMonitor.switch_rpc).
SwitchLeavesFailedNode ==
  [][rpc' # rpc => rpc' \notin failed_rpcs' /\ rpc \in failed_rpcs' /\ rpc' \in up]_vars

\* A node is left for another only once it has as many failures as
\* should_switch_rpc asks for, and the new one starts from 0.
SwitchNeedsFailures ==
  [][rpc' # rpc => /\ current_rpc_failures + 1 >= MaxRpcFailures
                   /\ current_rpc_failures' = 0]_vars

\* While a node that is not in failed_rpcs works, the monitor does not stay on
\* a node that is down for ever, provided that its checks do not end for ever
\* in an exception that is not counted.
FreshNodeIsFound ==
  []<><<MonitorSeesFailure \/ MonitorSeesHealthy>>_vars
    => []<>(rpc \in up \/ (Rpcs \ failed_rpcs) \cap up = {} \/ crashed)

\* "Retry the publish operation with new RPC" (update_price_feeds): the second
\* attempt goes to the node that was switched to.
RetryUsesNewRpc ==
  pusher = "publishing" /\ attempt > 1 => account_rpc = rpc
=============================================================================
