----------------------------- MODULE MidenClient -----------------------------
(***************************************************************************)
(* The client that publishes prices to Miden (pragma_sdk/miden/client.py), *)
(* as the price-pusher starts it (main.py) and calls it (publish_to_miden  *)
(* and _miden_service, one call after another).                            *)
(*                                                                         *)
(* Every call of the Rust binding pm_publisher runs in a thread, and       *)
(* wait_for gives it up after a while: the thread itself goes on. So a     *)
(* submission may reach Miden after its call has returned False.           *)
(*                                                                         *)
(* A publication is known by the number of its call. The binding, its      *)
(* local store and the Miden node are external; the comments of the client *)
(* say what it relies on.                                                  *)
(***************************************************************************)
EXTENDS Naturals, Sequences

CONSTANTS
  MaxCalls,     \* bound: calls of publish_entries
  MaxFaults,    \* bound: threads that raise, transactions dropped
  MaxRestarts   \* bound: restarts of the process

ASSUME MidenAssumption ==
  MaxCalls \in Nat /\ MaxFaults \in Nat /\ MaxRestarts \in Nat

VARIABLES
  account,     \* the publications in the account's state, as the node sees it
  committed,   \* how many of them are in blocks; the others are in its mempool
  config,      \* the config file names a publisher account
  tracked,     \* the local store has the account
  local,       \* the account's state in the local store
  threads,     \* threads that wait_for has given up
  pc,          \* where initialize or publish_entries awaits
  base,        \* the state on which the awaited submission is built
  call,        \* the number of calls of publish_entries
  result,      \* what the last call returned, for all of its entries
  calm,        \* history: nothing has hindered the current call
  faults,
  restarts

node_vars == <<account, committed>>
store_vars == <<tracked, local>>
miden_vars == <<node_vars, config, store_vars, threads, pc, base, call, result,
                calm, faults, restarts>>

AwaitsImport == {"importing", "reimporting"}
AwaitsSync == {"syncing", "refreshing", "resyncing"}
AwaitsSubmit == {"submitting", "resubmitting"}
InCall == {"refreshing", "reimporting", "resyncing"} \cup AwaitsSubmit
Awaits == AwaitsImport \cup AwaitsSync \cup AwaitsSubmit \cup {"creating"}

Blocks == SubSeq(account, 1, committed)

Thread == [op : {"import", "sync", "submit"}, call : Nat, base : Seq(Nat)]
ThreadOf(op) == [op |-> op, call |-> call, base |-> base]
-----------------------------------------------------------------------------
\* initialize: the account of the config file, or a new one.
FirstAwait == IF config THEN "importing" ELSE "creating"

MidenInit ==
  /\ account = <<>> /\ committed = 0
  /\ config \in BOOLEAN
  /\ tracked = FALSE /\ local = <<>>
  /\ threads = {}
  /\ pc = FirstAwait
  /\ base = <<>>
  /\ call = 0 /\ result = FALSE /\ calm = FALSE
  /\ faults = 0 /\ restarts = 0
-----------------------------------------------------------------------------
(* The node and the local store *)

Commits ==
  /\ committed < Len(account)
  /\ committed' = committed + 1
  /\ UNCHANGED <<account, config, store_vars, threads, pc, base, call, result,
                 calm, faults, restarts>>

Fault == faults < MaxFaults /\ faults' = faults + 1

\* A transaction reverts or is dropped, and those built on it with it.
Drops ==
  /\ committed < Len(account) /\ Fault
  /\ account' = Blocks
  /\ calm' = FALSE
  /\ UNCHANGED <<committed, config, store_vars, threads, pc, base, call, result,
                 restarts>>

\* import_account overwrites what the store has with what is in blocks.
StoreImports == tracked' = TRUE /\ local' = Blocks

\* sync does nothing for an account that is not tracked, or whose state in
\* blocks has no higher nonce than that in the store.
StoreSyncs ==
  /\ local' = IF tracked /\ committed > Len(local) THEN Blocks ELSE local
  /\ UNCHANGED tracked

\* The node takes a transaction built on the state it knows, and no other
\* (IncorrectAccountInitialCommitment, "conflicts with current mempool state").
NodeTakes(c, built_on) ==
  /\ tracked /\ built_on = account
  /\ account' = Append(account, c)
-----------------------------------------------------------------------------
(* Threads nobody awaits *)

\* A thread given up ends, with its effect or without; it counts for several.
LateThread(t) ==
  /\ t \in threads
  /\ \E rest \in {threads, threads \ {t}} : threads' = rest
  /\ \/ t.op = "import" /\ StoreImports /\ UNCHANGED account
     \/ t.op = "sync" /\ StoreSyncs /\ UNCHANGED account
     \/ /\ t.op = "submit" /\ NodeTakes(t.call, t.base)
        /\ local' \in {local, account'}
        /\ UNCHANGED tracked
     \/ UNCHANGED <<account, store_vars>>
  /\ UNCHANGED <<committed, config, pc, base, call, result, calm, faults, restarts>>
-----------------------------------------------------------------------------
(* The client *)

\* The next await. A submission is built on the local state of that moment.
Goes(label) ==
  /\ pc' = label
  /\ base' = IF label \in AwaitsSubmit THEN local' ELSE <<>>
  /\ UNCHANGED result

\* publish_entries returns [True] * N or [False] * N.
ReturnsAll(ok) == pc' = "idle" /\ base' = <<>> /\ result' = ok

\* Where the client goes on when the binding has done what it was asked for.
AfterSuccess ==
  [importing |-> "syncing", syncing |-> "idle", refreshing |-> "submitting",
   reimporting |-> "resyncing", resyncing |-> "resubmitting"]

\* initialize gives up importing and syncing, publish_entries submits though it
\* has not refreshed; a reconciliation that fails ends the call.
AfterFailure ==
  \/ pc \in {"importing", "syncing"} /\ Goes("idle")
  \/ pc = "creating" /\ Goes("disabled")
  \/ pc = "refreshing" /\ Goes("submitting")
  \/ pc \in {"reimporting", "resyncing"} \cup AwaitsSubmit /\ ReturnsAll(FALSE)

Imports ==
  /\ pc \in AwaitsImport
  /\ StoreImports
  /\ Goes(AfterSuccess[pc])
  /\ UNCHANGED <<node_vars, config, threads, call, calm, faults, restarts>>

Syncs ==
  /\ pc \in AwaitsSync
  /\ StoreSyncs
  /\ Goes(AfterSuccess[pc])
  /\ UNCHANGED <<node_vars, config, threads, call, calm, faults, restarts>>

\* pm_publisher.init creates an account, and writes the config.
Creates ==
  /\ pc = "creating"
  /\ config' = TRUE /\ tracked' = TRUE /\ local' = <<>>
  /\ Goes("idle")
  /\ UNCHANGED <<node_vars, threads, call, calm, faults, restarts>>

\* _miden_service calls publish_to_miden, after the last call has returned.
PublishesEntries ==
  /\ pc = "idle" /\ call < MaxCalls
  /\ call' = call + 1
  /\ calm' = (threads = {} /\ committed = Len(account) /\ tracked)
  /\ UNCHANGED <<node_vars, config, store_vars, threads, faults, restarts>>
  /\ Goes("refreshing")

\* _submit, the first time or after the reconciliation.
Submits ==
  /\ pc \in AwaitsSubmit
  /\ NodeTakes(call, base)
  /\ local' = account'
  /\ ReturnsAll(TRUE)
  /\ UNCHANGED <<committed, config, tracked, threads, call, calm, faults, restarts>>

\* Variant: without the import.
ReconcilesBySync == IF pc = "submitting" THEN Goes("resyncing") ELSE ReturnsAll(FALSE)

\* The account has diverged: reconcile and retry, once.
Reconciles == IF pc = "submitting" THEN Goes("reimporting") ELSE ReturnsAll(FALSE)

Rejected ==
  /\ pc \in AwaitsSubmit
  /\ tracked /\ base # account
  /\ UNCHANGED <<node_vars, config, store_vars, threads, call, calm, faults, restarts>>
  /\ Reconciles

\* AccountDataNotFound: the store does not have the account.
NotFound ==
  /\ pc \in AwaitsSubmit /\ ~tracked
  /\ ReturnsAll(FALSE)
  /\ UNCHANGED <<node_vars, config, store_vars, threads, call, calm, faults, restarts>>

\* The binding raises something else; the node may have taken the transaction.
Raises ==
  /\ pc \in Awaits /\ Fault
  /\ calm' = FALSE
  /\ config' \in (IF pc = "creating" THEN BOOLEAN ELSE {config})
  /\ \/ UNCHANGED account
     \/ pc \in AwaitsSubmit /\ NodeTakes(call, base)
  /\ UNCHANGED <<committed, store_vars, threads, call, restarts>>
  /\ AfterFailure

GivenUp ==
  {t \in {ThreadOf("import"), ThreadOf("sync"), ThreadOf("submit")} :
     \/ t.op = "import" /\ pc \in AwaitsImport
     \/ t.op = "sync" /\ pc \in AwaitsSync
     \/ t.op = "submit" /\ pc \in AwaitsSubmit}

\* Variant: a submission that takes too long is reconciled and retried.
TimeoutReconciles == IF pc = "submitting" THEN Goes("reimporting") ELSE AfterFailure

\* A timeout is handled like any failure.
AfterTimeout == AfterFailure

\* Variant: sync without its timeout.
BoundedButSync == Awaits \ AwaitsSync

\* The calls of the binding that wait_for bounds: every one.
Bounded == Awaits

\* wait_for. The thread of init may still write the config.
TimesOut ==
  /\ pc \in Bounded
  /\ calm' = FALSE
  /\ config' \in (IF pc = "creating" THEN BOOLEAN ELSE {config})
  /\ threads' = threads \cup GivenUp
  /\ UNCHANGED <<node_vars, store_vars, call, faults, restarts>>
  /\ AfterTimeout

\* The process is started again, with an empty store (an emptyDir). The
\* submission of its last call may have reached the node.
Restart ==
  /\ restarts < MaxRestarts /\ restarts' = restarts + 1
  /\ \/ UNCHANGED account
     \/ pc \in AwaitsSubmit /\ NodeTakes(call, base)
  /\ tracked' = FALSE /\ local' = <<>>
  /\ threads' = {} /\ base' = <<>> /\ calm' = FALSE
  /\ UNCHANGED <<committed, config, call, result, faults>>
  /\ pc' = FirstAwait

Client ==
  \/ Imports \/ Syncs \/ Creates \/ PublishesEntries \/ Submits \/ Rejected
  \/ NotFound \/ Raises \/ TimesOut

\* Without Miden, or once the bound on calls is reached, the process goes on.
Rests == (pc = "disabled" \/ (pc = "idle" /\ call = MaxCalls)) /\ UNCHANGED miden_vars

MidenNext ==
  \/ Commits \/ Drops \/ (\E t \in threads : LateThread(t)) \/ Client \/ Restart \/ Rests

MidenSpec == MidenInit /\ [][MidenNext]_miden_vars

\* Of all that awaits, only the timeouts are known to end.
FairMidenSpec == MidenSpec /\ WF_miden_vars(TimesOut)
-----------------------------------------------------------------------------
(* Properties *)

MidenTypeOK ==
  /\ account \in Seq(Nat) /\ committed \in 0..Len(account)
  /\ config \in BOOLEAN /\ tracked \in BOOLEAN /\ local \in Seq(Nat)
  /\ threads \in SUBSET Thread
  /\ pc \in Awaits \cup {"idle", "disabled"}
  /\ base \in Seq(Nat)
  /\ call \in Nat /\ result \in BOOLEAN /\ calm \in BOOLEAN
  /\ faults \in Nat /\ restarts \in Nat

\* The prices on Miden never go back, and no call publishes twice: "calls are
\* awaited serially, so they never overlap" (_miden_service) and "no in-flight
\* guard is needed" (publish_to_miden), although the threads of the calls outlive
\* their timeouts and do overlap.
OnceInOrder ==
  \A i, j \in DOMAIN account : i < j => account[i] < account[j]

\* A local account that has diverged from the chain is repaired by the next call
\* itself, which publishes, provided that nothing hinders it: no thread of an
\* earlier call, no transaction in the mempool, no failure, no timeout, and an
\* account that the store has (publish_entries, "reconcile and retry once").
DivergenceHeals == pc = "idle" /\ calm => result

\* The event loop is never stuck on Miden: a call ends even when no call of the
\* binding ever does (PragmaMidenClient, the timeouts).
CallsEnd == []<>(pc \notin InCall)
=============================================================================
