------------------------------ MODULE Delivery ------------------------------
(***************************************************************************)
(* What the price pusher promises about every price it collects, whatever  *)
(* its tasks do in between.  The newest price of a key waits; it is        *)
(* replaced by a newer one, or sent.  Those sent reach the oracle in the   *)
(* order they were collected, and none is given up unless a publication    *)
(* fails or the process is restarted; what was given up may still arrive,  *)
(* but never over a newer price.                                           *)
(***************************************************************************)
EXTENDS Integers

CONSTANTS Keys,                \* what prices are collected for
          Prices,
          PublicationsMayFail, \* a publication may fail
          MayRestart           \* the process may be restarted

VARIABLES clock,       \* the collections so far
          waiting,     \* per key: the newest price not sent yet, if any
          sent,        \* per key: the prices on their way to the oracle
          given_up,    \* per key: those nobody waits for any more
          oracle       \* per key: the price the oracle holds, if any

vars == <<clock, waiting, sent, given_up, oracle>>

None == [price |-> 0, ts |-> 0]

Init ==
  /\ clock = 0
  /\ waiting = [k \in Keys |-> None]
  /\ sent = [k \in Keys |-> {}]
  /\ given_up = [k \in Keys |-> {}]
  /\ oracle = [k \in Keys |-> None]

\* Some prices are collected, each newer than all before.
Collect ==
  /\ clock' = clock + 1
  /\ \E new \in [Keys -> {None} \cup {[price |-> p, ts |-> clock + 1] : p \in Prices}] :
       waiting' = [k \in Keys |-> IF new[k] = None THEN waiting[k] ELSE new[k]]
  /\ UNCHANGED <<sent, given_up, oracle>>

\* Those that wait for some keys are sent, all at once.
Send ==
  /\ \E K \in SUBSET {k \in Keys : waiting[k] # None} :
       /\ waiting' = [k \in Keys |-> IF k \in K THEN None ELSE waiting[k]]
       /\ sent' = [k \in Keys |-> IF k \in K THEN sent[k] \cup {waiting[k]} ELSE sent[k]]
  /\ UNCHANGED <<clock, given_up, oracle>>

\* The one of a key that comes next.
Oldest(k) == {e \in sent[k] : \A d \in sent[k] : e.ts =< d.ts}

Acceptable(k) ==
  {e \in Oldest(k) \cup given_up[k] :
     oracle[k].ts =< e.ts /\ \A d \in sent[k] : e.ts =< d.ts}

\* The oracle accepts the next price of some keys, or accepts it again.
Accept ==
  /\ \E K \in SUBSET Keys : \E e \in [K -> UNION {Acceptable(k) : k \in K}] :
       /\ \A k \in K : e[k] \in Acceptable(k)
       /\ oracle' = [k \in Keys |-> IF k \in K THEN e[k] ELSE oracle[k]]
       /\ given_up' = [k \in Keys |-> IF k \in K THEN given_up[k] \ {e[k]} ELSE given_up[k]]
  /\ UNCHANGED <<clock, waiting, sent>>

\* A publication ends: what the oracle holds is no longer on its way.
Finish ==
  /\ \E K \in SUBSET Keys :
       sent' = [k \in Keys |-> IF k \in K THEN sent[k] \ {oracle[k]} ELSE sent[k]]
  /\ UNCHANGED <<clock, waiting, given_up, oracle>>

\* A publication fails: the next price of some keys is given up.  Some of them (L)
\* may still arrive.
GiveUp ==
  /\ PublicationsMayFail
  /\ \E K \in SUBSET Keys : \E L \in SUBSET K :
       /\ sent' = [k \in Keys |-> IF k \in K THEN sent[k] \ Oldest(k) ELSE sent[k]]
       /\ given_up' = [k \in Keys |-> IF k \in L THEN Oldest(k) ELSE given_up[k]]
  /\ UNCHANGED <<clock, waiting, oracle>>

\* What was given up is replaced by the next publication of the key.
Forget ==
  /\ \E K \in SUBSET Keys :
       given_up' = [k \in Keys |-> IF k \in K THEN {} ELSE given_up[k]]
  /\ UNCHANGED <<clock, waiting, sent, oracle>>

\* The process is restarted: all is lost but what the chain may still accept.
Restart ==
  /\ MayRestart
  /\ waiting' = [k \in Keys |-> None]
  /\ sent' = [k \in Keys |-> {}]
  /\ \E L \in SUBSET Keys :
       given_up' = [k \in Keys |-> IF k \in L THEN Oldest(k) ELSE given_up[k]]
  /\ UNCHANGED <<clock, oracle>>

Next == Collect \/ Send \/ Accept \/ Finish \/ GiveUp \/ Forget \/ Restart

Spec == Init /\ [][Next]_vars
=============================================================================
