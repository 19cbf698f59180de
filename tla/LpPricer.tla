------------------------------ MODULE LpPricer ------------------------------
(***************************************************************************)
(* lp-pricer: every publish_delay, one round of LPFetcher stores a point   *)
(* (reserves and total supply of a pool) in redis, prices the pool from    *)
(* the median of the latest points, and the price is published. The model  *)
(* follows one valid pool.                                                 *)
(*                                                                         *)
(* Time is counted in units of publish_delay. A point is its age, capped   *)
(* by MaxAge, and how often the loop had been cut short when it was stored *)
(* (a history: redis keeps no such thing).                                 *)
(***************************************************************************)
EXTENDS Naturals, Sequences

CONSTANTS
  MinPoints,      \* MINIMUM_DATA_POINTS
  MaxValues,      \* LISTS_MAX_VALUES
  TimeToLive,     \* DEFAULT_TIME_TO_LIVE
  MaxAge,         \* bound: ages are not told apart beyond it
  MaxMishaps      \* bound: failures, switches of the node, ends of the process

ASSUME LpAssumption ==
  /\ MinPoints \in Nat \ {0} /\ MaxValues \in Nat /\ MaxValues >= MinPoints
  /\ TimeToLive \in Nat \ {0} /\ MaxMishaps \in Nat
  /\ MaxAge \in Nat /\ MaxAge >= MinPoints * TimeToLive

VARIABLES
  history,    \* the two lists of redis, newest first; pushed and trimmed together
  lp_step,    \* where the loop of main is
  setbacks,   \* history: switches of the node and ends of the process so far
  priced,     \* the points from which this round's price was computed
  published,  \* history: a price has been accepted in the latest round that ended
  mishaps

lp_vars == <<history, lp_step, setbacks, priced, published, mishaps>>

NewPoint == [age |-> 0, setbacks |-> setbacks]

Mishap == mishaps < MaxMishaps /\ mishaps' = mishaps + 1
Setback == Mishap /\ setbacks' = setbacks + 1

LpInit ==
  /\ history = <<>>
  /\ lp_step = "storing" /\ setbacks = 0
  /\ priced = <<>> /\ published = FALSE
  /\ mishaps = 0
-----------------------------------------------------------------------------
(* Redis *)

\* Variant: the lists never expire.
OlderForEver(points) ==
  [i \in DOMAIN points |-> [points[i] EXCEPT !.age = IF @ < MaxAge THEN @ + 1 ELSE @]]

\* One publish_delay later. expire was set anew with the newest point: the lists go
\* when that is as old as their time to live.
Older(points) ==
  IF points = <<>> \/ Head(points).age + 1 >= TimeToLive THEN <<>>
  ELSE [i \in DOMAIN points |->
          [points[i] EXCEPT !.age = IF @ < MaxAge THEN @ + 1 ELSE @]]

\* Variant: nothing is stored into a list that is full.
StoredUntilFull(point) ==
  IF Len(history) < MaxValues THEN <<point>> \o history ELSE history
\* lpush, ltrim and expire, in one transaction for both lists.
Stored(point) ==
  SubSeq(<<point>> \o history, 1,
         IF Len(history) < MaxValues THEN Len(history) + 1 ELSE MaxValues)

\* get_latest_n_reserves, get_latest_n_total_supply
LatestPoints ==
  SubSeq(history, 1, IF Len(history) < MinPoints THEN Len(history) ELSE MinPoints)
-----------------------------------------------------------------------------
(* A round of main *)

\* _store_latest_values
Stores ==
  /\ lp_step = "storing"
  /\ history' = Stored(NewPoint)
  /\ lp_step' = "pricing"
  /\ UNCHANGED <<setbacks, priced, published, mishaps>>

\* The round has no price: the fetcher returned an error or raised, or the client
\* gave it up, which filters the entry out; nothing is published.
Ends(has_published) ==
  /\ lp_step' = "sleeping"
  /\ priced' = <<>>
  /\ published' = has_published

\* The pool cannot be read, or redis is away: with or without the point.
StoringFails ==
  /\ lp_step = "storing" /\ Mishap
  /\ history' \in {history, Stored(NewPoint)}
  /\ Ends(FALSE)
  /\ UNCHANGED setbacks

Enough == Len(LatestPoints) >= MinPoints

NotEnoughPoints ==
  /\ lp_step = "pricing" /\ ~Enough
  /\ Ends(FALSE)
  /\ UNCHANGED <<history, setbacks, mishaps>>

\* The oracle has no price of a token, a call fails, or the median supply is 0.
PricingFails ==
  /\ lp_step = "pricing" /\ Enough /\ Mishap
  /\ Ends(FALSE)
  /\ UNCHANGED <<history, setbacks>>

ComputesPrice ==
  /\ lp_step = "pricing" /\ Enough
  /\ lp_step' = "publishing"
  /\ priced' = LatestPoints
  /\ UNCHANGED <<history, setbacks, published, mishaps>>

Publishes ==
  /\ lp_step = "publishing"
  /\ Ends(TRUE)
  /\ UNCHANGED <<history, setbacks, mishaps>>

PublishingFails ==
  /\ lp_step = "publishing" /\ Mishap
  /\ Ends(FALSE)
  /\ UNCHANGED <<history, setbacks>>

\* "Retry the publish operation with new RPC": continue goes to the top of the loop,
\* which fetches and stores again, without the delay.
SwitchesNode ==
  /\ lp_step = "publishing" /\ Setback
  /\ lp_step' = "storing"
  /\ priced' = <<>> /\ published' = FALSE
  /\ UNCHANGED history

\* Variant: the loop sleeps only after it has published.
SleepsAfterPublication == history' = IF published THEN Older(history) ELSE history
SleepsAlways == history' = Older(history)

\* asyncio.sleep(publish_delay). A round itself takes no time.
Sleeps ==
  /\ lp_step = "sleeping"
  /\ SleepsAlways
  /\ lp_step' = "storing"
  /\ UNCHANGED <<setbacks, priced, published, mishaps>>

\* The process ends, and is started again at once or after a while.
Dies ==
  /\ lp_step # "down" /\ Setback
  /\ lp_step' = "down"
  /\ priced' = <<>> /\ published' = FALSE
  /\ UNCHANGED history

StaysDown ==
  /\ lp_step = "down"
  /\ history' = Older(history)
  /\ UNCHANGED <<lp_step, setbacks, priced, published, mishaps>>

StartsAgain ==
  /\ lp_step = "down"
  /\ lp_step' = "storing"
  /\ UNCHANGED <<history, setbacks, priced, published, mishaps>>

Round ==
  \/ Stores \/ StoringFails \/ NotEnoughPoints \/ PricingFails \/ ComputesPrice
  \/ Publishes \/ PublishingFails \/ SwitchesNode \/ Sleeps

LpNext == Round \/ Dies \/ StaysDown \/ StartsAgain

LpSpec == LpInit /\ [][LpNext]_lp_vars

\* Every await of the loop ends, and a process that ended is started again.
LpFairness == WF_lp_vars(Round) /\ WF_lp_vars(StartsAgain)
-----------------------------------------------------------------------------
(* Properties *)

\* A price is never computed from points on both sides of an outage longer than the
\* time to live ("if the publisher crash for some hours and restart, we don't want
\* to compute prices on outdated data"): the newest is of this round, and each is
\* less than the time to live older than the one after it.
NoPriceAcrossOutage ==
  priced # <<>> =>
    /\ priced[1].age = 0
    /\ \A i \in 1..(Len(priced) - 1) : priced[i + 1].age - priced[i].age < TimeToLive

\* What "10 data points means that we published for at least 30 minutes" comes to:
\* MinPoints points span the MinPoints - 1 delays between them (27 minutes), less one
\* for each time that the node was switched or the process ended since the oldest.
\* No failed round, unpriced round or late restart brings them closer together.
PointsSpanTheirRounds ==
  priced # <<>> =>
    LET oldest == priced[Len(priced)]
    IN  oldest.age + (setbacks - oldest.setbacks) >= MinPoints - 1

\* Once nothing fails any more, the pool is priced in every round from some round on.
PoolIsPriced == <>[](lp_step = "sleeping" => published)
=============================================================================
