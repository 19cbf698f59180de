-------------------------- MODULE PublishMany_proofs --------------------------
(***************************************************************************)
(* Proofs about publish_many, for any number of tasks, entries and pages:  *)
(* its types, the order of the pages on the chain, and that it implements  *)
(* what Publication promises.                                              *)
(***************************************************************************)
EXTENDS PublishMany, TLAPS

\* Entries are cut into a sequence of pages, whatever the pagination.
LEMMA ChunksType ==
  ASSUME NEW n \in Nat
  PROVE  Chunks(n) \in Seq(SUBSET Nat)
<1>1. CASE Pagination = 0
  <2>1. 1..n \in SUBSET Nat
    OBVIOUS
  <2>2. \A A : A \in SUBSET Nat => <<A>> \in Seq(SUBSET Nat)
    OBVIOUS
  <2>3. <<1..n>> \in Seq(SUBSET Nat)
    BY <2>1, <2>2
  <2>4. <<>> \in Seq(SUBSET Nat)
    OBVIOUS
  <2> QED BY <1>1, <2>3, <2>4 DEF Chunks
<1>2. CASE Pagination # 0
  <2> DEFINE m == (n + Pagination - 1) \div Pagination
             chunk(k) == {i \in 1..n : (k - 1) * Pagination < i /\ i =< k * Pagination}
  <2>1. Pagination \in Nat /\ Pagination > 0
    BY <1>2, PublishAssumption
  <2>2. n + Pagination - 1 \in Nat
    BY <2>1
  <2>3. m \in Nat
    BY <2>1, <2>2
  <2>4. Chunks(n) = [k \in 1..m |-> chunk(k)]
    BY <1>2 DEF Chunks
  <2>5. \A k \in 1..m : chunk(k) \in SUBSET Nat
    OBVIOUS
  <2> HIDE DEF m, chunk
  <2> QED BY <2>3, <2>4, <2>5
<1> QED BY <1>1, <1>2

\* A task has a number of pages.
LEMMA PagesType ==
  ASSUME NEW t \in Tasks
  PROVE  LastPage(t) \in Nat
<1> DEFINE Typed(i) == [k \in 1..Len(Chunks(Counts[t][i])) |->
                          {<<Types[i], e>> : e \in Chunks(Counts[t][i])[k]}]
           Some == UNION {{Typed(i)[k] : k \in 1..Len(Chunks(Counts[t][i]))} : i \in 1..3}
<1>1. Len(Types) = 3
  BY DEF Types
<1>2. \A i \in 1..3 : Counts[t][i] \in Nat
  BY <1>1, PublishAssumption
<1>3. \A i \in 1..3 : Len(Chunks(Counts[t][i])) \in Nat
  BY <1>2, ChunksType
<1>4. \A i \in 1..3 : Typed(i) \in Seq(Some)
  BY <1>3
<1>5. Pages[t] = Typed(1) \o Typed(2) \o Typed(3)
  BY DEF Pages
<1> HIDE DEF Typed, Some
<1>6. Pages[t] \in Seq(Some)
  BY <1>4, <1>5
<1> QED BY <1>6 DEF LastPage
-----------------------------------------------------------------------------
(* Types *)

\* The tasks start with nothing sent.
LEMMA InitTypeOK == Init => TypeOK
BY PagesType DEF Init, TypeOK, Labels

\* A step of a task keeps the types: it only sends pages there are.
LEMMA TaskTypeOK ==
  ASSUME TypeOK, NEW t \in Tasks, TaskStep(t)
  PROVE  TypeOK'
<1> USE DEF node_vars
<1>1. Tx(t) \in TxType /\ \A u \in Tasks : LastPage(u) \in Nat
  BY PagesType DEF Tx, TxType, TypeOK
<1>2. \A label \in Labels : Goes(t, label) =>
        /\ pc' \in [Tasks -> Labels]
        /\ \A u \in Tasks : pc'[u] = IF u = t THEN label ELSE pc[u]
  BY DEF Goes, TypeOK
<1>3. CASE Acquires(t)
  BY <1>1, <1>2, <1>3 DEF Acquires, TypeOK, Labels
<1>4. CASE GetsNonce(t)
  BY <1>1, <1>2, <1>4 DEF GetsNonce, TypeOK, Labels
<1>5. CASE Signs(t) \/ SignFails(t)
  BY <1>1, <1>2, <1>5 DEF Signs, SignFails, TypeOK, Labels
<1>6. CASE Sends(t)
  BY <1>1, <1>2, <1>6 DEF Sends, TypeOK, Labels
<1>7. CASE SendFails(t)
  BY <1>1, <1>2, <1>7 DEF SendFails, TypeOK, Labels
<1>8. CASE Succeeds(t) \/ WaitFails(t)
  BY <1>1, <1>2, <1>8 DEF Succeeds, WaitFails, TypeOK, Labels
<1> QED BY <1>3, <1>4, <1>5, <1>6, <1>7, <1>8 DEF TaskStep

\* Every step keeps the types.
LEMMA NextTypeOK == TypeOK /\ [Next]_vars => TypeOK'
<1> SUFFICES ASSUME TypeOK, [Next]_vars PROVE TypeOK'
  OBVIOUS
<1>1. CASE Executes
  BY <1>1 DEF Executes, TypeOK, task_vars
<1>2. CASE UNCHANGED vars
  BY <1>2 DEF TypeOK, vars, task_vars, node_vars
<1> QED BY <1>1, <1>2, TaskTypeOK DEF Next, Ended

\* Every reachable state has its types: a task never signs a page past its last
\* (_publish_entries, _invoke).
THEOREM TypeCorrect == Spec => []TypeOK
BY InitTypeOK, NextTypeOK, PTL DEF Spec
-----------------------------------------------------------------------------
(* The order of the pages *)

Executed == accepted \cup reverted
Received == pool \cup Executed

\* The nonces: no task has one from the future, so that a transaction the node
\* receives has the next one, and no other waits.
Nonces ==
  /\ \A t \in Tasks : nonce[t] =< node_nonce
  /\ \A tx \in pool : tx.nonce = node_nonce

\* What the node has received of a task: every page it counts as sent, and no
\* other, except the one whose sending failed.
Counted ==
  /\ \A t \in Tasks : \A i \in 1..(page[t] - 1) : i \in PagesIn(t, Received)
  /\ \A tx \in Received :
       \/ tx.page < page[tx.task]
       \/ tx.page = page[tx.task] /\ pc[tx.task] = "failed"

OnceEach ==
  \A x, y \in Received : x.task = y.task /\ x.page = y.page => x = y

EarlierExecuted ==
  \A x \in Executed : \A i \in 1..(x.page - 1) : i \in PagesIn(x.task, Executed)

OneWaits == \A x, y \in pool : x = y

Inv == Nonces /\ OneWaits /\ Counted /\ OnceEach /\ EarlierExecuted

\* The pages of a task among more transactions.
LEMMA PagesInGrows ==
  ASSUME NEW t, NEW txs, NEW more
  PROVE  PagesIn(t, txs) \subseteq PagesIn(t, txs \cup more)
BY DEF PagesIn, TxOf

\* The node is empty at the start.
LEMMA InitInv == Init => Inv
BY DEF Init, Inv, Nonces, OneWaits, Counted, OnceEach, EarlierExecuted, Received,
       Executed, PagesIn, TxOf

\* A step of a task that sends nothing.
LEMMA LocalInv ==
  ASSUME TypeOK, Inv, NEW t \in Tasks,
         UNCHANGED <<page, pool, accepted, reverted, node_nonce>>,
         nonce' = nonce \/ nonce' = [nonce EXCEPT ![t] = node_nonce],
         pc[t] # "failed", \A u \in Tasks : u # t => pc'[u] = pc[u]
  PROVE  Inv'
<1>1. Nonces'
  BY DEF Inv, Nonces, TypeOK
<1>2. \A tx \in Received : tx.task \in Tasks
  BY DEF Received, Executed, TypeOK, TxType
<1>3. Counted'
  BY <1>2 DEF Inv, Counted, Received, Executed, PagesIn, TxOf
<1>4. OneWaits' /\ OnceEach' /\ EarlierExecuted'
  BY DEF Inv, OneWaits, OnceEach, EarlierExecuted, Received, Executed, PagesIn, TxOf
<1> QED BY <1>1, <1>3, <1>4 DEF Inv

\* A transaction reaches the node, whether its task comes to know it or not.
LEMMA ReceivedInv ==
  ASSUME TypeOK, Inv, NEW t \in Tasks, pc[t] = "sending",
         NodeTakes(Tx(t)), pool' = pool \cup {Tx(t)},
         UNCHANGED <<nonce, accepted, reverted, node_nonce>>,
         \/ page' = [page EXCEPT ![t] = @ + 1] /\ Goes(t, "invoking")
         \/ page' = page /\ Goes(t, "failed")
  PROVE  Inv'
<1>1. /\ Tx(t).nonce = nonce[t] /\ Tx(t).task = t /\ Tx(t).page = page[t]
      /\ nonce[t] \in Nat /\ node_nonce \in Nat /\ page[t] \in Nat
  BY DEF Tx, TypeOK
<1>2. nonce[t] = node_nonce
  BY <1>1 DEF Inv, Nonces, NodeTakes
<1>3. pool = {}
  BY <1>1, <1>2 DEF Inv, Nonces, NodeTakes
<1>4. Nonces' /\ OneWaits'
  BY <1>1, <1>2, <1>3 DEF Inv, Nonces, OneWaits
<1>5. Received' = Received \cup {Tx(t)} /\ Executed' = Executed
  BY DEF Received, Executed
<1>6. \A tx \in Received : tx.task \in Tasks /\ tx.page \in Nat
  BY DEF Received, Executed, TypeOK, TxType
<1>7. \A u \in Tasks : u # t => page'[u] = page[u] /\ pc'[u] = pc[u]
  BY DEF Goes, TypeOK
<1>8. \A tx \in Received : tx.task = t => tx.page < page[t]
  BY DEF Inv, Counted
<1>9. \/ page'[t] = page[t] + 1
      \/ page'[t] = page[t] /\ pc'[t] = "failed"
  BY DEF Goes, TypeOK
<1>10. Counted'
  <2>1. \A u \in Tasks : \A i \in 1..(page'[u] - 1) : i \in PagesIn(u, Received')
    <3> SUFFICES ASSUME NEW u \in Tasks, NEW i \in 1..(page'[u] - 1)
                 PROVE  i \in PagesIn(u, Received')
      OBVIOUS
    <3>1. CASE i \in 1..(page[u] - 1)
      BY <3>1, <1>5 DEF Inv, Counted, PagesIn, TxOf
    <3>2. CASE i \notin 1..(page[u] - 1)
      <4>1. u = t /\ i = page[t]
        BY <3>2, <1>1, <1>7, <1>9
      <4> QED BY <4>1, <1>1, <1>5 DEF PagesIn, TxOf
    <3> QED BY <3>1, <3>2
  <2>2. ASSUME NEW tx \in Received'
        PROVE  \/ tx.page < page'[tx.task]
               \/ tx.page = page'[tx.task] /\ pc'[tx.task] = "failed"
    <3>1. CASE tx = Tx(t)
      BY <3>1, <1>1, <1>9
    <3>2. CASE tx \in Received /\ tx.task = t
      BY <3>2, <1>1, <1>6, <1>8, <1>9
    <3>3. CASE tx \in Received /\ tx.task # t
      BY <3>3, <1>6, <1>7 DEF Inv, Counted
    <3> QED BY <3>1, <3>2, <3>3, <1>5
  <2> QED BY <2>1, <2>2 DEF Counted, PagesIn, TxOf
<1>11. OnceEach'
  <2>1. \A tx \in Received : tx.task = t => tx.page # page[t]
    BY <1>1, <1>6, <1>8
  <2> QED BY <2>1, <1>1, <1>5 DEF Inv, OnceEach
<1>12. EarlierExecuted'
  BY <1>5 DEF Inv, EarlierExecuted, PagesIn, TxOf
<1> QED BY <1>4, <1>10, <1>11, <1>12 DEF Inv

\* A transaction is executed once all the earlier pages of its task are: they
\* have been received, and none of them waits.
LEMMA ExecutesInv ==
  ASSUME TypeOK, Inv, Executes
  PROVE  Inv'
<1>1. PICK tx \in pool :
        /\ tx.nonce = node_nonce
        /\ pool' = pool \ {tx}
        /\ \/ accepted' = accepted \cup {tx} /\ UNCHANGED reverted
           \/ reverted' = reverted \cup {tx} /\ UNCHANGED accepted
  BY DEF Executes
<1>2. pool = {tx} /\ pool' = {}
  BY <1>1 DEF Inv, OneWaits
<1>3. Received' = Received /\ Executed' = Executed \cup {tx}
  BY <1>1 DEF Received, Executed
<1>4. /\ UNCHANGED <<pc, page, nonce>> /\ node_nonce' = node_nonce + 1
      /\ node_nonce \in Nat /\ \A t \in Tasks : nonce[t] \in Nat
      /\ tx.task \in Tasks /\ tx.page \in Nat /\ tx \in Received
      /\ page[tx.task] \in Nat
  BY <1>1 DEF Executes, task_vars, TypeOK, TxType, Received
<1>5. Nonces' /\ OneWaits'
  BY <1>2, <1>4 DEF Inv, Nonces, OneWaits
<1>6. Counted' /\ OnceEach'
  BY <1>3, <1>4 DEF Inv, Counted, OnceEach, PagesIn, TxOf
<1>7. ASSUME NEW i \in 1..(tx.page - 1) PROVE i \in PagesIn(tx.task, Executed)
  <2>1. tx.page =< page[tx.task]
    BY <1>4 DEF Inv, Counted
  <2>2. i \in 1..(page[tx.task] - 1)
    BY <2>1, <1>4
  <2>3. PICK other \in Received : other.task = tx.task /\ other.page = i
    BY <2>2, <1>4 DEF Inv, Counted, PagesIn, TxOf
  <2>4. other # tx
    BY <2>3, <1>4
  <2>5. other \in Executed
    BY <2>3, <2>4, <1>2 DEF Received
  <2> QED BY <2>3, <2>5 DEF PagesIn, TxOf
<1>8. EarlierExecuted'
  BY <1>3, <1>7 DEF Inv, EarlierExecuted, PagesIn, TxOf
<1> QED BY <1>5, <1>6, <1>8 DEF Inv

\* Every step keeps the order.
LEMMA NextInv == TypeOK /\ Inv /\ [Next]_vars => Inv'
<1> SUFFICES ASSUME TypeOK, Inv, [Next]_vars PROVE Inv'
  OBVIOUS
<1> USE DEF node_vars
<1>1. ASSUME NEW t \in Tasks, TaskStep(t) PROVE Inv'
  <2>1. \A label : Goes(t, label) => \A u \in Tasks : u # t => pc'[u] = pc[u]
    BY DEF Goes, TypeOK
  <2>2. CASE Acquires(t) \/ GetsNonce(t) \/ Signs(t) \/ SignFails(t)
             \/ Succeeds(t) \/ WaitFails(t)
    BY <2>1, <2>2, LocalInv
       DEF Acquires, GetsNonce, Signs, SignFails, Succeeds, WaitFails
  <2>3. CASE Sends(t)
    BY <2>3, ReceivedInv DEF Sends
  <2>4. CASE SendFails(t) /\ UNCHANGED pool
    BY <2>1, <2>4, LocalInv DEF SendFails
  <2>5. CASE SendFails(t) /\ ~UNCHANGED pool
    BY <2>5, ReceivedInv DEF SendFails
  <2> QED BY <1>1, <2>2, <2>3, <2>4, <2>5 DEF TaskStep
<1>2. CASE UNCHANGED vars
  BY <1>2 DEF vars, task_vars, Inv, Nonces, OneWaits, Counted, OnceEach,
              EarlierExecuted, Received, Executed, PagesIn, TxOf
<1> QED BY <1>1, <1>2, ExecutesInv DEF Next, Ended

\* Whatever other tasks of the account do and whatever is lost, what a failure
\* leaves on the chain is a beginning of the batch, each page once
\* (_publish_entries, _invoke).
THEOREM PagesStayInOrder == Spec => []PagesInOrder
<1>1. Inv => PagesInOrder
  BY DEF Inv, OnceEach, EarlierExecuted, PagesInOrder, Received, Executed
<1> QED BY <1>1, InitTypeOK, NextTypeOK, InitInv, NextInv, PTL DEF Spec
-----------------------------------------------------------------------------
(* Publication *)

StatusOf(t) == IF pc[t] \in {"done", "failed"} THEN pc[t] ELSE "publishing"
Missing(t) == (1..LastPage(t)) \ PagesIn(t, accepted)

\* What the mapping makes of the variables.
LEMMA MappedVars ==
  /\ Abstract!vars = <<[t \in Tasks |-> StatusOf(t)], [t \in Tasks |-> Missing(t)]>>
  /\ Abstract!vars' =
       <<[t \in Tasks |-> StatusOf(t)'], [t \in Tasks |-> Missing(t)']>>
BY DEF Abstract!vars, StatusOf, Missing

\* At the start every page is missing.
LEMMA InitImplements == Init => Abstract!Init
BY DEF Init, Abstract!Init, PagesIn, TxOf

\* A step that executes nothing and ends no task is invisible.
LEMMA Stutters ==
  ASSUME UNCHANGED accepted, \A t \in Tasks : StatusOf(t)' = StatusOf(t)
  PROVE  UNCHANGED Abstract!vars
BY MappedVars DEF Missing, PagesIn, TxOf, Abstract!vars, StatusOf

\* A task that ends: with all its pages accepted, or in failure.
LEMMA EndImplements ==
  ASSUME TypeOK, UNCHANGED accepted, NEW t \in Tasks, pc[t] \notin {"done", "failed"},
         NEW label \in {"done", "failed"}, Goes(t, label),
         label = "done" => AllAccepted(t)
  PROVE  Abstract!Succeed(t) \/ Abstract!Fail(t)
<1> DEFINE status == [u \in Tasks |-> StatusOf(u)]
           missing == [u \in Tasks |-> Missing(u)]
<1>1. pc' = [pc EXCEPT ![t] = label]
  BY DEF Goes
<1>2. status' = [status EXCEPT ![t] = label] /\ status[t] = "publishing"
  BY <1>1 DEF StatusOf, TypeOK
<1>3. missing' = missing
  BY DEF Missing, PagesIn, TxOf
<1>4. label = "done" => missing[t] = {}
  BY DEF AllAccepted, Missing
<1> QED BY <1>2, <1>3, <1>4 DEF Abstract!Succeed, Abstract!Fail, StatusOf, Missing

\* A transaction that is executed leaves one page less missing.
LEMMA ExecutesImplements ==
  ASSUME TypeOK, Executes
  PROVE  [Abstract!Next]_(Abstract!vars)
<1>1. PICK tx \in pool :
        \/ accepted' = accepted \cup {tx}
        \/ accepted' = accepted
  BY DEF Executes
<1>2. \A t \in Tasks : StatusOf(t)' = StatusOf(t)
  BY DEF Executes, task_vars, StatusOf
<1>3. CASE accepted' = accepted
  BY <1>2, <1>3, Stutters
<1>4. CASE accepted' = accepted \cup {tx}
  <2> DEFINE missing == [u \in Tasks |-> Missing(u)]
             K == missing[tx.task] \cap {tx.page}
  <2>1. tx.task \in Tasks
    BY <1>1 DEF TypeOK, TxType
  <2>2. \A u \in Tasks : Missing(u)' = IF u = tx.task THEN Missing(u) \ {tx.page}
                                                     ELSE Missing(u)
    BY <1>4 DEF Missing, PagesIn, TxOf
  <2>3. missing' = [missing EXCEPT ![tx.task] = @ \ K]
    BY <2>1, <2>2
  <2>4. CASE K = {}
    <3>1. missing' = missing
      BY <2>1, <2>2, <2>4
    <3> QED BY <1>2, <3>1, MappedVars DEF Abstract!vars, StatusOf, Missing
  <2>5. CASE K # {}
    <3>1. Abstract!Accept(tx.task)
      BY <1>2, <2>1, <2>3, <2>5 DEF Abstract!Accept, StatusOf, Missing
    <3> QED BY <2>1, <3>1 DEF Abstract!Next
  <2> QED BY <2>4, <2>5
<1> QED BY <1>1, <1>3, <1>4

\* Every step of the tasks and of the node is one of a publication, or invisible.
LEMMA NextImplements == TypeOK /\ [Next]_vars => [Abstract!Next]_(Abstract!vars)
<1> SUFFICES ASSUME TypeOK, [Next]_vars PROVE [Abstract!Next]_(Abstract!vars)
  OBVIOUS
<1> USE DEF node_vars
<1>1. ASSUME NEW t \in Tasks, TaskStep(t) PROVE [Abstract!Next]_(Abstract!vars)
  <2>1. \A label \in Labels \ {"done", "failed"} :
          Goes(t, label) /\ pc[t] \notin {"done", "failed"}
            => \A u \in Tasks : StatusOf(u)' = StatusOf(u)
    BY DEF Goes, StatusOf, TypeOK
  <2>2. CASE Acquires(t) \/ GetsNonce(t) \/ Signs(t) \/ Sends(t)
    BY <2>1, <2>2, Stutters DEF Acquires, GetsNonce, Signs, Sends, Labels
  <2>3. CASE SignFails(t) \/ SendFails(t) \/ WaitFails(t)
    <3>1. /\ UNCHANGED accepted /\ Goes(t, "failed")
          /\ pc[t] \notin {"done", "failed"}
      BY <2>3 DEF SignFails, SendFails, WaitFails
    <3> QED BY <3>1, EndImplements DEF Abstract!Next
  <2>4. CASE Succeeds(t)
    <3>1. /\ UNCHANGED accepted /\ Goes(t, "done")
          /\ pc[t] \notin {"done", "failed"} /\ AllAccepted(t)
      BY <2>4 DEF Succeeds
    <3> QED BY <3>1, EndImplements DEF Abstract!Next
  <2> QED BY <1>1, <2>2, <2>3, <2>4 DEF TaskStep
<1>2. CASE UNCHANGED vars
  BY <1>2, Stutters DEF vars, task_vars, StatusOf
<1> QED BY <1>1, <1>2, ExecutesImplements DEF Next, Ended

\* publish_many and the wait that follows it keep the promise the pusher relies
\* on, for any number of tasks, pages, lost answers and reverted transactions.
THEOREM PublishManyImplementsPublication == Spec => KeepsItsPromise
BY InitImplements, NextImplements, InitTypeOK, NextTypeOK, PTL
   DEF Spec, KeepsItsPromise, Abstract!Spec

=============================================================================
