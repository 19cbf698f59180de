----------------------------- MODULE PublishMany -----------------------------
(***************************************************************************)
(* PragmaOnChainClient.publish_many (onchain/mixins/oracle.py) as several  *)
(* tasks of one event loop run it for the same account: each signs and     *)
(* sends its pages in turn through the patched ContractFunction.invoke     *)
(* (onchain/types/contract.py), then waits until all are accepted          *)
(* (wait_for_publishing_acceptance).                                       *)
(*                                                                         *)
(* A lock per account covers the choice of the nonce and the signature.    *)
(* The node, external, takes a transaction whose nonce is not used yet,    *)
(* by an executed transaction or by one that waits.                        *)
(***************************************************************************)
EXTENDS Naturals, FiniteSets, Sequences

CONSTANTS
  Tasks,       \* the tasks that publish through the account
  Counts,      \* per task: how many entries of each data type it publishes
  Pagination,  \* execution_config.pagination, 0 for none
  SendFaults   \* a request to send may fail, received by the node or not

\* The data types, in the order of publish_many.
Types == <<"SPOT", "FUTURE", "GENERIC">>

ASSUME PublishAssumption ==
  /\ Counts \in [Tasks -> [1..Len(Types) -> Nat]]
  /\ Pagination \in Nat
  /\ SendFaults \in BOOLEAN

VARIABLES
  lock,        \* account_locks[account]: the task that holds it, if any
  pc,          \* per task: where it awaits
  page,        \* per task: the page it publishes next
  nonce,       \* per task: the nonce of the transaction it signs
  pool,        \* transactions the node has received and not executed
  node_nonce,  \* the nonce of the account, as the node answers it
  accepted,    \* transactions executed
  reverted     \* transactions executed in vain

task_vars == <<lock, pc, page, nonce>>
node_vars == <<pool, node_nonce, accepted, reverted>>
vars == <<task_vars, node_vars>>
-----------------------------------------------------------------------------
(* The pages *)

\* Entries 1 to n of a type, cut every Pagination entries (_publish_entries).
Chunks(n) ==
  IF Pagination = 0 THEN IF n = 0 THEN <<>> ELSE <<1..n>>
  ELSE [k \in 1..((n + Pagination - 1) \div Pagination) |->
          {i \in 1..n : (k - 1) * Pagination < i /\ i =< k * Pagination}]

\* Spot, future and generic entries have pages of their own, in that order.
Pages ==
  [t \in Tasks |->
     LET Typed(i) == [k \in 1..Len(Chunks(Counts[t][i])) |->
                        {<<Types[i], e>> : e \in Chunks(Counts[t][i])[k]}]
     IN  Typed(1) \o Typed(2) \o Typed(3)]

LastPage(t) == Len(Pages[t])
Batch(t) == UNION {{<<Types[i], e>> : e \in 1..Counts[t][i]} : i \in 1..Len(Types)}
-----------------------------------------------------------------------------
Init ==
  /\ lock = {}
  /\ pc = [t \in Tasks |-> "invoking"]
  /\ page = [t \in Tasks |-> 1]
  /\ nonce = [t \in Tasks |-> 0]
  /\ pool = {}
  /\ node_nonce = 0
  /\ accepted = {}
  /\ reverted = {}

Tx(t) == [task |-> t, page |-> page[t], nonce |-> nonce[t]]
Goes(t, label) == pc' = [pc EXCEPT ![t] = label]

\* The lock of the account is free: the task asks for the nonce.
Acquires(t) ==
  /\ pc[t] = "invoking" /\ page[t] =< LastPage(t)
  /\ lock = {}
  /\ lock' = {t}
  /\ Goes(t, "fetching")
  /\ UNCHANGED <<page, nonce, node_vars>>

\* The node answers; the fee is estimated next.
GetsNonce(t) ==
  /\ pc[t] = "fetching"
  /\ nonce' = [nonce EXCEPT ![t] = node_nonce]
  /\ Goes(t, "estimating")
  /\ UNCHANGED <<lock, page, node_vars>>

\* The transaction is signed: the lock is released before it is sent.
Signs(t) ==
  /\ pc[t] = "estimating"
  /\ lock' = {}
  /\ Goes(t, "sending")
  /\ UNCHANGED <<page, nonce, node_vars>>

\* Variant: an error keeps the lock.
SignFailsLocked(t) ==
  /\ pc[t] \in {"fetching", "estimating"}
  /\ Goes(t, "failed")
  /\ UNCHANGED <<lock, page, nonce, node_vars>>

\* A request made under the lock fails; async with releases it.
SignFails(t) ==
  /\ pc[t] \in {"fetching", "estimating"}
  /\ lock' = {}
  /\ Goes(t, "failed")
  /\ UNCHANGED <<page, nonce, node_vars>>

\* The node accepts nonces that no other transaction has.
NodeTakes(tx) ==
  /\ tx.nonce >= node_nonce
  /\ \A other \in pool : other.nonce # tx.nonce

Sends(t) ==
  /\ pc[t] = "sending"
  /\ NodeTakes(Tx(t))
  /\ pool' = pool \cup {Tx(t)}
  /\ page' = [page EXCEPT ![t] = @ + 1]
  /\ Goes(t, "invoking")
  /\ UNCHANGED <<lock, nonce, node_nonce, accepted, reverted>>

\* Variant: a page that cannot be sent is skipped.
SendFailsSkips(t) ==
  /\ pc[t] = "sending"
  /\ SendFaults \/ ~NodeTakes(Tx(t))
  /\ page' = [page EXCEPT ![t] = @ + 1]
  /\ Goes(t, "invoking")
  /\ UNCHANGED <<lock, nonce, pool, node_nonce, accepted, reverted>>

\* The node refuses the transaction, or does not answer, whether it has
\* received it or not: the exception ends publish_many.
SendFails(t) ==
  /\ pc[t] = "sending"
  /\ \/ ~NodeTakes(Tx(t)) /\ UNCHANGED pool
     \/ SendFaults /\ UNCHANGED pool
     \/ SendFaults /\ NodeTakes(Tx(t)) /\ pool' = pool \cup {Tx(t)}
  /\ Goes(t, "failed")
  /\ UNCHANGED <<lock, page, nonce, node_nonce, accepted, reverted>>

\* The transactions of a task.
TxOf(t, txs) == {tx \in txs : tx.task = t}
PagesIn(t, txs) == {tx.page : tx \in TxOf(t, txs)}

\* Variant: only the last transaction is waited for.
LastIsAccepted(t) == LastPage(t) = 0 \/ LastPage(t) \in PagesIn(t, accepted)

\* wait_for_publishing_acceptance: each invocation in turn.
AllAccepted(t) == \A i \in 1..LastPage(t) : i \in PagesIn(t, accepted)

Succeeds(t) ==
  /\ pc[t] = "invoking" /\ page[t] > LastPage(t)
  /\ AllAccepted(t)
  /\ Goes(t, "done")
  /\ UNCHANGED <<lock, page, nonce, node_vars>>

\* A transaction reverted, or the node stopped answering.
WaitFails(t) ==
  /\ pc[t] = "invoking" /\ page[t] > LastPage(t)
  /\ SendFaults \/ PagesIn(t, reverted) # {}
  /\ Goes(t, "failed")
  /\ UNCHANGED <<lock, page, nonce, node_vars>>

TaskStep(t) ==
  \/ Acquires(t) \/ GetsNonce(t) \/ Signs(t) \/ SignFails(t)
  \/ Sends(t) \/ SendFails(t) \/ Succeeds(t) \/ WaitFails(t)

\* The node executes the transaction whose nonce is next.
Executes ==
  /\ \E tx \in pool :
       /\ tx.nonce = node_nonce
       /\ pool' = pool \ {tx}
       /\ \/ accepted' = accepted \cup {tx} /\ UNCHANGED reverted
          \/ reverted' = reverted \cup {tx} /\ UNCHANGED accepted
  /\ node_nonce' = node_nonce + 1
  /\ UNCHANGED task_vars

Ended == (\A t \in Tasks : pc[t] \in {"done", "failed"}) /\ UNCHANGED vars

Next == (\E t \in Tasks : TaskStep(t)) \/ Executes \/ Ended

Spec == Init /\ [][Next]_vars

\* The event loop runs every task that can go on, requests end, and the node
\* executes what it can.
Fairness ==
  /\ \A t \in Tasks : WF_vars(TaskStep(t))
  /\ WF_vars(Executes)

FairSpec == Spec /\ Fairness
-----------------------------------------------------------------------------
(* Properties *)

Labels == {"invoking", "fetching", "estimating", "sending", "done", "failed"}
TxType == [task : Tasks, page : Nat, nonce : Nat]

TypeOK ==
  /\ lock \in SUBSET Tasks
  /\ pc \in [Tasks -> Labels]
  /\ page \in [Tasks -> Nat]
  /\ \A t \in Tasks :
       /\ page[t] \in 1..(LastPage(t) + 1)
       /\ pc[t] \in {"fetching", "estimating", "sending"} => page[t] =< LastPage(t)
  /\ nonce \in [Tasks -> Nat]
  /\ pool \in SUBSET TxType
  /\ node_nonce \in Nat
  /\ accepted \in SUBSET TxType
  /\ reverted \in SUBSET TxType

\* Whatever the other tasks of the account do, and whatever is lost, a page is
\* executed once at most, and never before an earlier page of its batch: what a
\* failure leaves on the chain is a beginning of the batch.
PagesInOrder ==
  /\ \A x, y \in accepted \cup reverted :
       x.task = y.task /\ x.page = y.page => x = y
  /\ \A x \in accepted \cup reverted : \A i \in 1..(x.page - 1) :
       i \in PagesIn(x.task, accepted \cup reverted)

\* "two calls parallel can end up generating the same nonce.  We really want to
\* avoid that" (contract.py): two signed transactions have different nonces.
NoncesAreDistinct ==
  \A t, u \in Tasks :
    t # u /\ pc[t] = "sending" /\ pc[u] = "sending" => nonce[t] # nonce[u]

\* No publication hangs, and the lock never stays with one that has failed.
EveryPublicationEnds == \A t \in Tasks : <>(pc[t] \in {"done", "failed"})

\* The promise of a publication.
Abstract == INSTANCE Publication WITH
  PagesOf <- [t \in Tasks |-> 1..LastPage(t)],
  status <- [t \in Tasks |-> IF pc[t] \in {"done", "failed"} THEN pc[t]
                                                            ELSE "publishing"],
  unaccepted <- [t \in Tasks |-> (1..LastPage(t)) \ PagesIn(t, accepted)]

KeepsItsPromise == Abstract!Spec
=============================================================================
