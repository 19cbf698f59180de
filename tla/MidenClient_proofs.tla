-------------------------- MODULE MidenClient_proofs --------------------------
(***************************************************************************)
(* Proofs about the Miden client, for any number of calls, faults,         *)
(* timeouts and restarts: its types, that Miden takes each publication     *)
(* once and in order, and that one call repairs a diverged account.        *)
(***************************************************************************)
EXTENDS MidenClient, TLAPS

\* A beginning of a sequence of naturals, and one with one more at its end.
LEMMA Beginning ==
  ASSUME NEW s \in Seq(Nat), NEW n \in 0..Len(s)
  PROVE  /\ SubSeq(s, 1, n) \in Seq(Nat)
         /\ Len(SubSeq(s, 1, n)) = n
         /\ \A i \in DOMAIN SubSeq(s, 1, n) : i \in DOMAIN s /\ SubSeq(s, 1, n)[i] = s[i]
OBVIOUS

LEMMA WholeBeginning ==
  ASSUME NEW s \in Seq(Nat)
  PROVE  SubSeq(s, 1, Len(s)) = s
OBVIOUS
-----------------------------------------------------------------------------
LEMMA InitTypeOK == MidenInit => MidenTypeOK
<1> SUFFICES ASSUME MidenInit PROVE MidenTypeOK
  OBVIOUS
<1>1. account \in Seq(Nat) /\ committed \in 0..Len(account) /\ local \in Seq(Nat)
      /\ base \in Seq(Nat) /\ threads \in SUBSET Thread
  BY DEF MidenInit
<1>2. tracked \in BOOLEAN /\ result \in BOOLEAN /\ calm \in BOOLEAN /\ config \in BOOLEAN
  BY DEF MidenInit
<1>3. pc \in Awaits
  BY DEF MidenInit, FirstAwait, Awaits, AwaitsImport
<1>4. call \in Nat /\ faults \in Nat /\ restarts \in Nat
  BY DEF MidenInit
<1> QED BY <1>1, <1>2, <1>3, <1>4 DEF MidenTypeOK

\* What the node and the store do to their types.
LEMMA ImportTypes ==
  ASSUME MidenTypeOK, StoreImports
  PROVE  tracked' \in BOOLEAN /\ local' \in Seq(Nat)
<1>1. tracked' \in BOOLEAN
  BY DEF StoreImports
<1>2. local' \in Seq(Nat)
  BY Beginning DEF StoreImports, MidenTypeOK, Blocks
<1> QED BY <1>1, <1>2

LEMMA SyncTypes ==
  ASSUME MidenTypeOK, StoreSyncs
  PROVE  tracked' \in BOOLEAN /\ local' \in Seq(Nat)
<1>1. Blocks \in Seq(Nat)
  BY Beginning DEF MidenTypeOK, Blocks
<1> QED BY <1>1 DEF StoreSyncs, MidenTypeOK

LEMMA TakesTypes ==
  ASSUME MidenTypeOK, NEW c \in Nat, NEW s, NodeTakes(c, s)
  PROVE  account' \in Seq(Nat) /\ Len(account') = Len(account) + 1
BY DEF MidenTypeOK, NodeTakes

\* What publish_entries leaves behind.
LEMMA ReturnTypes ==
  ASSUME NEW ok \in BOOLEAN, ReturnsAll(ok)
  PROVE  pc' = "idle" /\ base' \in Seq(Nat) /\ result' \in BOOLEAN
<1>1. pc' = "idle" /\ base' \in Seq(Nat)
  BY DEF ReturnsAll
<1>2. result' \in BOOLEAN
  BY DEF ReturnsAll
<1> QED BY <1>1, <1>2

\* Where a failure leads the client.
LEMMA FailureTypes ==
  ASSUME MidenTypeOK, pc \in Awaits, UNCHANGED local, AfterFailure
  PROVE  /\ pc' \in Awaits \cup {"idle", "disabled"}
         /\ base' \in Seq(Nat) /\ result' \in BOOLEAN
<1>1. CASE \E label \in {"idle", "disabled", "submitting"} : Goes(label)
  BY <1>1 DEF MidenTypeOK, Goes, Awaits, AwaitsSubmit
<1>2. CASE ReturnsAll(FALSE)
  BY <1>2, ReturnTypes
<1> QED BY <1>1, <1>2 DEF AfterFailure

\* Every step keeps the types.
LEMMA NextTypeOK ==
  ASSUME MidenTypeOK, [MidenNext]_miden_vars
  PROVE  MidenTypeOK'
<1> USE DEF node_vars, store_vars
<1>1. CASE Commits
  BY <1>1 DEF Commits, MidenTypeOK
<1>2. CASE Drops
  <2>1. account' \in Seq(Nat) /\ committed' \in 0..Len(account')
    BY <1>2, Beginning DEF Drops, MidenTypeOK, Blocks
  <2>2. calm' \in BOOLEAN
    BY <1>2 DEF Drops
  <2>3. faults' \in Nat
    BY <1>2 DEF Drops, Fault, MidenTypeOK
  <2> QED BY <1>2, <2>1, <2>2, <2>3 DEF Drops, MidenTypeOK
<1>3. ASSUME NEW t \in threads, LateThread(t) PROVE MidenTypeOK'
  <2>1. account' \in Seq(Nat) /\ committed' \in 0..Len(account')
        /\ local' \in Seq(Nat) /\ tracked' \in BOOLEAN
    BY <1>3, ImportTypes, SyncTypes, TakesTypes DEF LateThread, MidenTypeOK, Thread
  <2>2. threads' \in SUBSET Thread
    BY <1>3 DEF LateThread, MidenTypeOK
  <2> QED BY <1>3, <2>1, <2>2 DEF LateThread, MidenTypeOK
<1>4. CASE Imports
  BY <1>4, ImportTypes DEF Imports, MidenTypeOK, Goes, AfterSuccess, Awaits, AwaitsImport, AwaitsSync, AwaitsSubmit
<1>5. CASE Syncs
  BY <1>5, SyncTypes DEF Syncs, MidenTypeOK, Goes, AfterSuccess, Awaits, AwaitsImport, AwaitsSync, AwaitsSubmit
<1>6. CASE Creates
  BY <1>6 DEF Creates, MidenTypeOK, Goes, AwaitsSubmit
<1>7. CASE PublishesEntries
  BY <1>7 DEF PublishesEntries, MidenTypeOK, Goes, Awaits, AwaitsSync, AwaitsSubmit
<1>8. CASE Submits
  <2>1. account' \in Seq(Nat) /\ committed' \in 0..Len(account')
    BY <1>8, TakesTypes DEF Submits, MidenTypeOK
  <2> QED BY <1>8, <2>1, ReturnTypes DEF Submits, MidenTypeOK
<1>9. CASE Rejected
  <2>1. CASE pc = "submitting"
    BY <1>9, <2>1 DEF Rejected, Reconciles, MidenTypeOK, Goes, Awaits, AwaitsImport, AwaitsSubmit
  <2>2. CASE pc # "submitting"
    BY <1>9, <2>2, ReturnTypes DEF Rejected, Reconciles, MidenTypeOK
  <2> QED BY <2>1, <2>2
<1>10. CASE NotFound
  BY <1>10, ReturnTypes DEF NotFound, MidenTypeOK
<1>11. CASE Raises
  <2>1. account' \in Seq(Nat) /\ committed' \in 0..Len(account')
    BY <1>11, TakesTypes DEF Raises, MidenTypeOK
  <2>2. /\ pc' \in Awaits \cup {"idle", "disabled"}
        /\ base' \in Seq(Nat) /\ result' \in BOOLEAN
    BY <1>11, FailureTypes DEF Raises
  <2>3. config' \in BOOLEAN
    BY <1>11 DEF Raises, MidenTypeOK
  <2>4. calm' \in BOOLEAN
    BY <1>11 DEF Raises
  <2>5. /\ UNCHANGED <<store_vars, threads, call, restarts>>
        /\ faults' \in Nat
    BY <1>11 DEF Raises, Fault, MidenTypeOK
  <2> QED BY <2>1, <2>2, <2>3, <2>4, <2>5 DEF MidenTypeOK
<1>12. CASE TimesOut
  <2>1. threads' \in SUBSET Thread
    BY <1>12 DEF TimesOut, MidenTypeOK, GivenUp, ThreadOf, Thread
  <2>2. /\ pc' \in Awaits \cup {"idle", "disabled"}
        /\ base' \in Seq(Nat) /\ result' \in BOOLEAN
    BY <1>12, FailureTypes DEF TimesOut, AfterTimeout, Bounded
  <2>3. config' \in BOOLEAN
    BY <1>12 DEF TimesOut, MidenTypeOK
  <2> QED BY <1>12, <2>1, <2>2, <2>3 DEF TimesOut, MidenTypeOK
<1>13. CASE Restart
  <2>1. account' \in Seq(Nat) /\ committed' \in 0..Len(account')
    BY <1>13, TakesTypes DEF Restart, MidenTypeOK
  <2>2. local' \in Seq(Nat) /\ threads' \in SUBSET Thread /\ base' \in Seq(Nat)
    BY <1>13 DEF Restart
  <2>4. tracked' \in BOOLEAN /\ calm' \in BOOLEAN
    BY <1>13 DEF Restart
  <2>3. pc' \in Awaits
    BY <1>13 DEF Restart, FirstAwait, Awaits, AwaitsImport
  <2> QED BY <1>13, <2>1, <2>2, <2>3, <2>4 DEF Restart, MidenTypeOK
<1>14. CASE UNCHANGED miden_vars
  BY <1>14 DEF miden_vars, MidenTypeOK
<1> QED BY <1>1, <1>2, <1>3, <1>4, <1>5, <1>6, <1>7, <1>8, <1>9, <1>10, <1>11, <1>12,
           <1>13, <1>14 DEF MidenNext, Client, Rests

\* Every variable of the Miden client keeps its type, for any bounds.
THEOREM TypeCorrect == MidenSpec => []MidenTypeOK
<1>1. MidenInit => MidenTypeOK
  BY InitTypeOK
<1>2. MidenTypeOK /\ [MidenNext]_miden_vars => MidenTypeOK'
  BY NextTypeOK
<1> QED BY <1>1, <1>2, PTL DEF MidenSpec
-----------------------------------------------------------------------------
(* Once and in order. The calls are numbered, so a publication is new when its *)
(* number is above all that were built on before. What holds a state: the node, *)
(* the store, the submission awaited, and the threads given up.                *)

Older(s, n) == \A i \in DOMAIN s : s[i] < n

\* The number of the next publication the node may take from the client.
Coming == IF pc \in InCall THEN call ELSE call + 1

Order ==
  /\ OnceInOrder
  /\ Older(account, Coming)
  /\ Older(local, Coming)
  /\ pc \in AwaitsSubmit => Older(base, call)
  /\ \A t \in threads :
       t.op = "submit" => Older(t.base, t.call) /\ t.call < Coming

\* Parts of what is older are, and so is everything for a higher number.
LEMMA OlderBlocks ==
  ASSUME MidenTypeOK, NEW n \in Nat, Older(account, n)
  PROVE  Older(Blocks, n)
BY Beginning DEF MidenTypeOK, Older, Blocks

LEMMA OlderStill ==
  ASSUME NEW s \in Seq(Nat), NEW m \in Nat, NEW n \in Nat, m =< n, Older(s, m)
  PROVE  Older(s, n)
BY DEF Older

\* The node takes a publication after all those it has.
LEMMA TakenInOrder ==
  ASSUME MidenTypeOK, OnceInOrder, NEW c \in Nat, NEW s, NodeTakes(c, s), Older(s, c),
         NEW n \in Nat, c < n
  PROVE  OnceInOrder' /\ Older(account', n)
<1>1. account \in Seq(Nat) /\ account' = Append(account, c) /\ Older(account, c)
  BY DEF NodeTakes, MidenTypeOK
<1>2. /\ DOMAIN account' = 1..(Len(account) + 1)
      /\ DOMAIN account = 1..Len(account)
      /\ \A i \in 1..Len(account) : account'[i] = account[i] /\ account[i] \in Nat
      /\ account'[Len(account) + 1] = c /\ Len(account) \in Nat
  BY <1>1
<1>3. Older(account', n)
  BY <1>1, <1>2 DEF Older
<1>4. OnceInOrder'
  BY <1>1, <1>2 DEF OnceInOrder, Older
<1> QED BY <1>3, <1>4

\* Where the client goes from one await to the next.
LEMMA Destinations ==
  ASSUME MidenTypeOK
  PROVE  /\ AfterFailure /\ pc \in AwaitsSubmit \cup {"reimporting", "resyncing"} => pc' = "idle"
         /\ AfterFailure /\ pc' \in InCall => pc = "refreshing"
         /\ Imports /\ pc' \in InCall => pc \in InCall
         /\ Syncs /\ pc' \in InCall => pc \in InCall
         /\ Rejected /\ pc' \in InCall => pc \in InCall
BY DEF MidenTypeOK, AfterFailure, Imports, Syncs, Rejected, Reconciles, Goes, ReturnsAll,
       AfterSuccess, InCall, AwaitsImport, AwaitsSync, AwaitsSubmit, Awaits

\* The next publication never has a lower number than before.
LEMMA ComingNeverFalls ==
  ASSUME MidenTypeOK, MidenTypeOK', call' = call, pc' \in InCall => pc \in InCall
  PROVE  Coming \in Nat /\ Coming' \in Nat /\ Coming =< Coming'
BY DEF MidenTypeOK, Coming

\* What a step that lets the node take nothing has to respect.
LEMMA OrderKept ==
  ASSUME MidenTypeOK, MidenTypeOK', Order, call' = call, pc' \in InCall => pc \in InCall,
         account' \in {account, Blocks}, Older(local', Coming),
         pc' \in AwaitsSubmit => base' = local' \/ (base' = base /\ pc \in AwaitsSubmit),
         threads' \subseteq threads
  PROVE  Order'
<1>1. Coming \in Nat /\ Coming' \in Nat /\ Coming =< Coming'
  BY ComingNeverFalls
<1>2. Older(account', Coming) /\ OnceInOrder'
  <2>1. CASE account' = account
    BY <2>1 DEF Order, OnceInOrder
  <2>2. CASE account' = Blocks
    <3>1. Older(account', Coming)
      BY <1>1, <2>2, OlderBlocks DEF Order
    <3>2. \A i \in DOMAIN account' : i \in DOMAIN account /\ account'[i] = account[i]
      BY <2>2, Beginning DEF MidenTypeOK, Blocks
    <3> QED BY <3>1, <3>2 DEF Order, OnceInOrder
  <2> QED BY <2>1, <2>2
<1>3. Older(account', Coming') /\ Older(local', Coming')
  BY <1>1, <1>2, OlderStill DEF MidenTypeOK
<1>4. pc' \in AwaitsSubmit => Older(base', call')
  BY <1>3 DEF Order, Coming, InCall, Older
<1>5. \A t \in threads' :
        t.op = "submit" => Older(t.base, t.call) /\ t.call < Coming'
  BY <1>1 DEF Order, MidenTypeOK, Thread
<1> QED BY <1>2, <1>3, <1>4, <1>5 DEF Order, Older

\* A submission that the node takes is the last step of its call.
LEMMA OrderExtended ==
  ASSUME MidenTypeOK, MidenTypeOK', Order, pc \in AwaitsSubmit, NodeTakes(call, base),
         call' = call, pc' \notin InCall, local' \in {local, account', <<>>},
         threads' \subseteq threads
  PROVE  Order'
<1>1. Coming = call /\ Coming' = call + 1 /\ call \in Nat
  BY DEF Coming, InCall, MidenTypeOK
<1>2. OnceInOrder' /\ Older(account', Coming')
  <2>1. OnceInOrder /\ Older(base, call)
    BY DEF Order
  <2> QED BY <1>1, <2>1, TakenInOrder
<1>3. Older(local', Coming')
  BY <1>1, <1>2, OlderStill DEF Order, Older, MidenTypeOK
<1>4. \A t \in threads' :
        t.op = "submit" => Older(t.base, t.call) /\ t.call < Coming'
  BY <1>1 DEF Order, MidenTypeOK, Thread
<1> QED BY <1>2, <1>3, <1>4 DEF Order, InCall, Older

LEMMA LateThreadOrder ==
  ASSUME MidenTypeOK, MidenTypeOK', Order, NEW t \in threads, LateThread(t)
  PROVE  Order'
<1>1. call' = call /\ pc' = pc /\ base' = base /\ threads' \subseteq threads
  BY DEF LateThread
<1>2. Coming \in Nat /\ Coming' = Coming
  BY <1>1 DEF Coming, MidenTypeOK
<1>3. Older(Blocks, Coming)
  BY <1>2, OlderBlocks DEF Order
<1>4. CASE UNCHANGED account
  <2>1. Older(local', Coming)
    <3>1. local' \in {local, Blocks}
      <4>1. ~NodeTakes(t.call, t.base)
        BY <1>4 DEF NodeTakes, MidenTypeOK
      <4> QED BY <4>1 DEF LateThread, StoreImports, StoreSyncs, store_vars
    <3> QED BY <1>3, <3>1 DEF Order
  <2> QED BY <1>1, <1>4, <2>1, OrderKept
<1>5. CASE t.op = "submit" /\ NodeTakes(t.call, t.base) /\ local' \in {local, account'}
  <2>1. t.call \in Nat /\ t.call < Coming /\ Older(t.base, t.call)
    BY <1>5 DEF Order, MidenTypeOK, Thread
  <2>2. OnceInOrder' /\ Older(account', Coming)
    BY <1>2, <1>5, <2>1, TakenInOrder DEF Order
  <2>3. Older(local', Coming)
    BY <1>5, <2>2 DEF Order
  <2> QED BY <1>1, <1>2, <2>2, <2>3 DEF Order, Older
<1> QED BY <1>4, <1>5 DEF LateThread

LEMMA TimesOutOrder ==
  ASSUME MidenTypeOK, MidenTypeOK', Order, TimesOut
  PROVE  Order'
<1> USE DEF node_vars, store_vars
<1>1. call' = call /\ account' = account /\ local' = local
  BY DEF TimesOut
<1>2. AfterFailure /\ (pc' \in InCall => pc \in InCall)
  BY Destinations DEF TimesOut, AfterTimeout, InCall
<1>3. Coming \in Nat /\ Coming' \in Nat /\ Coming =< Coming'
  BY <1>1, <1>2, ComingNeverFalls
<1>4. pc' \in AwaitsSubmit => base' = local'
  BY <1>2 DEF AfterFailure, Goes, ReturnsAll, AwaitsSubmit
<1>5. ASSUME NEW t \in threads', t.op = "submit"
      PROVE  Older(t.base, t.call) /\ t.call < Coming'
  <2>1. CASE t \in threads
    BY <1>3, <1>5, <2>1 DEF Order, MidenTypeOK, Thread
  <2>2. CASE t \in GivenUp
    <3>1. t.base = base /\ t.call = call /\ pc \in AwaitsSubmit
      BY <1>5, <2>2 DEF GivenUp, ThreadOf
    <3>2. Coming' = call + 1
      BY <1>1, <1>2, <3>1, Destinations DEF Coming, InCall, AwaitsSubmit
    <3> QED BY <3>1, <3>2 DEF Order, MidenTypeOK
  <2> QED BY <2>1, <2>2 DEF TimesOut
<1>6. Older(account', Coming') /\ Older(local', Coming')
  BY <1>1, <1>3, OlderStill DEF MidenTypeOK, Order
<1>7. pc' \in AwaitsSubmit => Older(base', call')
  BY <1>4, <1>6 DEF Coming, InCall
<1> QED BY <1>1, <1>5, <1>6, <1>7 DEF Order, OnceInOrder, Older

\* Every step keeps the order.
LEMMA NextOrder ==
  ASSUME MidenTypeOK, MidenTypeOK', Order, [MidenNext]_miden_vars
  PROVE  Order'
<1> USE DEF node_vars, store_vars
<1>0. Coming \in Nat /\ Older(local, Coming) /\ Older(Blocks, Coming) /\ Older(<<>>, Coming)
  <2>1. Coming \in Nat /\ Older(<<>>, Coming)
    BY DEF Coming, MidenTypeOK, Older
  <2>2. Older(local, Coming) /\ Older(account, Coming)
    BY DEF Order
  <2> QED BY <2>1, <2>2, OlderBlocks
<1>1. CASE Commits
  BY <1>0, <1>1, OrderKept DEF Commits
<1>2. CASE Drops
  BY <1>0, <1>2, OrderKept DEF Drops
<1>3. ASSUME NEW t \in threads, LateThread(t) PROVE Order'
  BY <1>3, LateThreadOrder
<1>4. CASE Imports
  <2>1. pc' \in AwaitsSubmit => base' = local'
    BY <1>4 DEF Imports, Goes
  <2>2. local' = Blocks
    BY <1>4 DEF Imports, StoreImports
  <2> QED BY <1>0, <1>4, <2>1, <2>2, Destinations, OrderKept DEF Imports
<1>5. CASE Syncs
  <2>1. pc' \in AwaitsSubmit => base' = local'
    BY <1>5 DEF Syncs, Goes
  <2>2. local' \in {local, Blocks}
    BY <1>5 DEF Syncs, StoreSyncs
  <2> QED BY <1>0, <1>5, <2>1, <2>2, Destinations, OrderKept DEF Syncs
<1>6. CASE Creates
  BY <1>0, <1>6, OrderKept DEF Creates, Goes, InCall, AwaitsSubmit
<1>7. CASE PublishesEntries
  <2>1. Coming = call + 1 /\ Coming' = call + 1
    BY <1>7 DEF PublishesEntries, Goes, Coming, InCall, AwaitsSubmit
  <2> QED BY <1>7, <2>1 DEF PublishesEntries, Goes, Order, OnceInOrder, Older, AwaitsSubmit
<1>8. CASE Submits
  BY <1>8, OrderExtended DEF Submits, ReturnsAll, InCall, AwaitsSubmit
<1>9. CASE Rejected
  <2>1. pc' \notin AwaitsSubmit
    BY <1>9 DEF Rejected, Reconciles, Goes, ReturnsAll, AwaitsSubmit
  <2> QED BY <1>0, <1>9, <2>1, Destinations, OrderKept DEF Rejected
<1>10. CASE NotFound
  BY <1>0, <1>10, OrderKept DEF NotFound, ReturnsAll, InCall, AwaitsSubmit
<1>11. CASE Raises
  <2>1. pc' \in AwaitsSubmit => base' = local'
    BY <1>11 DEF Raises, AfterFailure, Goes, ReturnsAll, AwaitsSubmit
  <2>2. CASE UNCHANGED account
    <3>1. pc' \in InCall => pc \in InCall
      BY <1>11, Destinations DEF Raises, InCall
    <3> QED BY <1>0, <1>11, <2>1, <2>2, <3>1, OrderKept DEF Raises
  <2>3. CASE pc \in AwaitsSubmit /\ NodeTakes(call, base)
    <3>1. pc' \notin InCall
      BY <1>11, <2>3, Destinations DEF Raises, InCall, AwaitsSubmit
    <3> QED BY <1>11, <2>3, <3>1, OrderExtended DEF Raises
  <2> QED BY <1>11, <2>2, <2>3 DEF Raises
<1>12. CASE TimesOut
  BY <1>12, TimesOutOrder
<1>13. CASE Restart
  <2>1. pc' \notin InCall /\ pc' \notin AwaitsSubmit
    BY <1>13 DEF Restart, FirstAwait, InCall, AwaitsSubmit
  <2>2. CASE UNCHANGED account
    BY <1>0, <1>13, <2>1, <2>2, OrderKept DEF Restart
  <2>3. CASE pc \in AwaitsSubmit /\ NodeTakes(call, base)
    BY <1>13, <2>1, <2>3, OrderExtended DEF Restart
  <2> QED BY <1>13, <2>2, <2>3 DEF Restart
<1>14. CASE UNCHANGED miden_vars
  BY <1>14 DEF miden_vars, Order, OnceInOrder, Older, Coming
<1> QED BY <1>1, <1>2, <1>3, <1>4, <1>5, <1>6, <1>7, <1>8, <1>9, <1>10, <1>11, <1>12,
           <1>13, <1>14 DEF MidenNext, Client, Rests

\* No call publishes twice and Miden never goes back to older prices, however
\* many submissions outlive their timeouts, transactions are dropped and
\* processes restarted.
THEOREM PublishesOnceInOrder == MidenSpec => []OnceInOrder
<1>1. MidenInit => MidenTypeOK /\ Order
  <2> SUFFICES ASSUME MidenInit PROVE Order
    BY InitTypeOK
  <2> QED BY DEF MidenInit, Order, OnceInOrder, Older, FirstAwait, AwaitsSubmit
<1>2. MidenTypeOK /\ Order /\ [MidenNext]_miden_vars => (MidenTypeOK /\ Order)'
  BY NextTypeOK, NextOrder
<1>3. Order => OnceInOrder
  BY DEF Order
<1> QED BY <1>1, <1>2, <1>3, PTL DEF MidenSpec
-----------------------------------------------------------------------------
(* A calm call. Nothing changes the account but its own submission, so the     *)
(* state that an import brings is the one that the node asks for.              *)

Calm ==
  calm => /\ pc \in InCall \cup {"idle"}
          /\ pc = "idle" => result
          /\ pc \in InCall => threads = {} /\ committed = Len(account) /\ tracked
          /\ pc = "resyncing" => local = account
          /\ pc = "resubmitting" => base = account

\* While it lasts, the client takes no other way than these.
LEMMA CalmClient ==
  ASSUME MidenTypeOK, Calm, calm, Client, calm'
  PROVE  Calm'
<1> USE DEF node_vars, store_vars, InCall, AwaitsImport, AwaitsSync, AwaitsSubmit
<1>1. /\ pc \in InCall \cup {"idle"}
      /\ pc = "idle" => result
      /\ pc \in InCall => threads = {} /\ committed = Len(account) /\ tracked
      /\ pc = "resyncing" => local = account
      /\ pc = "resubmitting" => base = account
  BY DEF Calm
<1>2. pc \in InCall => Blocks = account
  BY <1>1, WholeBeginning DEF MidenTypeOK, Blocks
<1>3. CASE Imports
  <2>1. pc = "reimporting" /\ pc' = "resyncing"
    BY <1>1, <1>3 DEF Imports, Goes, AfterSuccess
  <2>2. local' = account /\ tracked'
    BY <1>2, <1>3, <2>1 DEF Imports, StoreImports
  <2> QED BY <1>1, <1>3, <2>1, <2>2 DEF Imports, Calm
<1>4. CASE Syncs
  <2>1. CASE pc = "refreshing"
    BY <1>1, <1>4, <2>1 DEF Syncs, StoreSyncs, Goes, AfterSuccess, Calm
  <2>2. CASE pc = "resyncing"
    <3>1. local' = account
      BY <1>1, <1>2, <1>4, <2>2 DEF Syncs, StoreSyncs
    <3>2. pc' = "resubmitting" /\ base' = local'
      BY <1>4, <2>2 DEF Syncs, Goes, AfterSuccess
    <3> QED BY <1>1, <1>4, <2>2, <3>1, <3>2 DEF Syncs, StoreSyncs, Calm
  <2> QED BY <1>1, <1>4, <2>1, <2>2 DEF Syncs
<1>5. CASE PublishesEntries
  BY <1>5 DEF PublishesEntries, Goes, Calm
<1>6. CASE Submits
  BY <1>6 DEF Submits, ReturnsAll, Calm
<1>7. CASE Rejected
  <2>1. pc = "submitting" /\ pc' = "reimporting"
    BY <1>1, <1>7 DEF Rejected, Reconciles, Goes
  <2> QED BY <1>1, <1>7, <2>1 DEF Rejected, Calm
<1> QED BY <1>1, <1>3, <1>4, <1>5, <1>6, <1>7 DEF Client, Creates, NotFound, Raises, TimesOut

\* Every step keeps it.
LEMMA NextCalm ==
  ASSUME MidenTypeOK, Calm, [MidenNext]_miden_vars
  PROVE  Calm'
<1> USE DEF node_vars, store_vars
<1> SUFFICES ASSUME calm' PROVE Calm'
  BY DEF Calm
<1>1. CASE Commits
  BY <1>1 DEF Commits, Calm, MidenTypeOK
<1>2. ASSUME NEW t \in threads, LateThread(t) PROVE Calm'
  BY <1>2 DEF LateThread, Calm, InCall
<1>3. CASE PublishesEntries
  BY <1>3 DEF PublishesEntries, Goes, Calm, InCall
<1>4. CASE Client /\ ~PublishesEntries
  <2>1. calm
    BY <1>4 DEF Client, Imports, Syncs, Creates, Submits, Rejected, NotFound, Raises, TimesOut
  <2> QED BY <1>4, <2>1, CalmClient
<1>5. CASE UNCHANGED miden_vars
  BY <1>5 DEF miden_vars, Calm
<1> QED BY <1>1, <1>2, <1>3, <1>4, <1>5 DEF MidenNext, Client, Rests, Drops, Restart

\* One call that nothing hinders repairs whatever state the store is in, and
\* publishes.
THEOREM OneCallHeals == MidenSpec => []DivergenceHeals
<1>1. MidenInit => MidenTypeOK /\ Calm
  BY InitTypeOK DEF MidenInit, Calm
<1>2. MidenTypeOK /\ Calm /\ [MidenNext]_miden_vars => (MidenTypeOK /\ Calm)'
  BY NextTypeOK, NextCalm
<1>3. Calm => DivergenceHeals
  BY DEF Calm, DivergenceHeals
<1> QED BY <1>1, <1>2, <1>3, PTL DEF MidenSpec
=============================================================================
