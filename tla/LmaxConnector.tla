---------------------------- MODULE LmaxConnector ----------------------------
(***************************************************************************)
(* lmax_connector/main.py: the order book of an instrument comes from LMAX *)
(* over a FIX session and goes to Kafka. Three actors share the fields of  *)
(* the LmaxFixApplication: the thread of QuickFIX that calls it back, the  *)
(* task that subscribes (subscribe_market_data) and the task that pushes   *)
(* (push_prices). The tasks yield at their awaits only, the thread runs    *)
(* between any two of their steps.                                         *)
(*                                                                         *)
(* Market data is a number: 0 is none, Seed what seed_initial_prices has   *)
(* stored, and greater ones are the snapshots in the order LMAX sends them.*)
(***************************************************************************)
EXTENDS Naturals

CONSTANTS
  ErrorThreshold,   \* error_threshold
  MaxSnapshots,     \* bound: snapshots that LMAX sends
  MaxDisturbances   \* bound: lost sessions, requests and messages that fail

ASSUME LmaxAssumption ==
  /\ ErrorThreshold \in Nat \ {0}
  /\ MaxSnapshots \in Nat /\ MaxDisturbances \in Nat

Seed == 1

VARIABLES
  session_ready,  \* the event of that name: the session is logged on
  initiator,      \* "started" or "stopped"
  fix_step,       \* the callback the FIX thread is in: "idle" when in none
  asked_at,       \* last_subscription_time: "never" (0), "recently", "long_ago"
  streaming,      \* LMAX has taken the subscription of this session
  sub_step,       \* where subscribe_market_data is
  error_count,
  event,          \* market_data_ready[symbol]: "absent", "unset", "set"
  latest,         \* latest_market_data[symbol]
  last_known,     \* last_known_prices[symbol]
  push_step,      \* where push_prices is
  sending,        \* the data it is about to send
  book, spot,     \* the data of the last order book and of the last spot entry sent
  unsignalled,    \* history: the snapshot stored before the event existed
  disturbances

session_vars == <<session_ready, initiator, streaming>>
sub_vars == <<sub_step, error_count>>
push_vars == <<push_step, sending, book, spot, last_known>>
lmax_vars == <<session_vars, fix_step, asked_at, sub_vars, event, latest,
               push_vars, unsignalled, disturbances>>

LmaxInit ==
  /\ session_ready = FALSE /\ initiator = "started" /\ fix_step = "idle"
  /\ asked_at = "never" /\ streaming = FALSE
  /\ sub_step = "top" /\ error_count = 0
  /\ event = "absent"
  /\ latest \in {0, Seed} /\ last_known = latest
  /\ push_step = "starting" /\ sending = 0
  /\ book = 0 /\ spot = 0 /\ unsignalled = 0
  /\ disturbances = 0

Disturbed ==
  disturbances < MaxDisturbances /\ disturbances' = disturbances + 1

Running == sub_step # "cancelled"
-----------------------------------------------------------------------------
(* The FIX thread *)

\* onLogon: the event is set, then last_subscription_time.
LogsOn ==
  /\ initiator = "started" /\ ~session_ready /\ fix_step = "idle"
  /\ session_ready' = TRUE
  /\ fix_step' = "logging_on"
  /\ UNCHANGED <<initiator, streaming, asked_at, sub_vars, event, latest, push_vars,
                 unsignalled, disturbances>>

ForcesSubscription ==
  /\ fix_step = "logging_on"
  /\ asked_at' = "never"
  /\ fix_step' = "idle"
  /\ UNCHANGED <<session_vars, sub_vars, event, latest, push_vars, unsignalled,
                 disturbances>>

\* onLogout. LMAX forgets the subscription with the session.
LoggedOut == session_ready' = FALSE /\ streaming' = FALSE /\ asked_at' = "never"

LogsOut ==
  /\ session_ready /\ fix_step = "idle" /\ Disturbed
  /\ LoggedOut
  /\ UNCHANGED <<initiator, fix_step, sub_vars, event, latest, push_vars, unsignalled>>

\* _handle_market_data: a snapshot with bids and asks is stored, then the event is
\* set if there is one. Other messages change nothing.
StoresSnapshot ==
  /\ streaming /\ fix_step = "idle" /\ latest < Seed + MaxSnapshots
  /\ latest' = (IF latest = 0 THEN Seed ELSE latest) + 1
  /\ fix_step' = "signalling"
  /\ UNCHANGED <<session_vars, asked_at, sub_vars, event, push_vars, unsignalled,
                 disturbances>>

Signals ==
  /\ fix_step = "signalling"
  /\ event' = IF event = "absent" THEN event ELSE "set"
  /\ unsignalled' = IF event = "absent" THEN latest ELSE unsignalled
  /\ fix_step' = "idle"
  /\ UNCHANGED <<session_vars, asked_at, sub_vars, latest, push_vars, disturbances>>
-----------------------------------------------------------------------------
(* subscribe_market_data *)

SubUnchanged == UNCHANGED <<fix_step, event, latest, push_vars, unsignalled>>

\* The top of the loop; errors more than a minute old are forgotten.
LooksAtSession ==
  /\ sub_step = "top"
  /\ error_count' \in {0, error_count}
  /\ sub_step' = IF session_ready THEN "deciding" ELSE "awaiting"
  /\ UNCHANGED <<session_vars, asked_at, disturbances>> /\ SubUnchanged

SeesSession ==
  /\ sub_step = "awaiting" /\ session_ready
  /\ sub_step' = "resending"
  /\ UNCHANGED <<session_vars, asked_at, error_count, disturbances>> /\ SubUnchanged

WaitTimesOut ==
  /\ sub_step = "awaiting"
  /\ sub_step' = "top"
  /\ UNCHANGED <<session_vars, asked_at, error_count, disturbances>> /\ SubUnchanged

\* resubscribe_interval goes by.
IntervalPasses ==
  /\ asked_at = "recently"
  /\ asked_at' = "long_ago"
  /\ UNCHANGED <<session_vars, sub_vars, disturbances>> /\ SubUnchanged

\* Variant: only a logon or a logout asks for a subscription.
IsForced == asked_at = "never"
IsDue == asked_at # "recently"

Decides ==
  /\ sub_step = "deciding"
  /\ sub_step' = IF IsDue THEN "sending" ELSE "top"
  /\ UNCHANGED <<session_vars, asked_at, error_count, disturbances>> /\ SubUnchanged

\* sendToTarget, then last_subscription_time: the FIX thread may run in between.
SendsRequest ==
  /\ sub_step \in {"resending", "sending"} /\ session_ready
  /\ streaming' = TRUE
  /\ sub_step' = IF sub_step = "resending" THEN "stamping_again" ELSE "stamping"
  /\ UNCHANGED <<session_ready, initiator, asked_at, error_count, disturbances>> /\ SubUnchanged

StampsRequest ==
  /\ sub_step \in {"stamping", "stamping_again"}
  /\ asked_at' = "recently"
  /\ sub_step' = IF sub_step = "stamping_again" THEN "deciding" ELSE "top"
  /\ UNCHANGED <<session_vars, error_count, disturbances>> /\ SubUnchanged

\* A request is not sent: without a session, or for another reason. The initiator is
\* stopped when this happens too often; stop() returns when the thread has ended.
RequestFails ==
  /\ sub_step \in {"resending", "sending"}
  /\ \/ session_ready /\ Disturbed
     \/ ~session_ready /\ UNCHANGED disturbances
  /\ IF error_count + 1 >= ErrorThreshold
       THEN /\ fix_step = "idle"
            /\ LoggedOut
            /\ initiator' = "stopped"
            /\ error_count' = error_count + 1
            /\ sub_step' = "restarting"
       ELSE /\ error_count' = error_count + 1
            /\ sub_step' = "top"
            /\ UNCHANGED <<session_vars, asked_at>>
  /\ SubUnchanged

StartsInitiator ==
  /\ sub_step = "restarting"
  /\ initiator' = "started"
  /\ error_count' = 0
  /\ sub_step' = "top"
  /\ UNCHANGED <<session_ready, streaming, asked_at, disturbances>> /\ SubUnchanged

\* start() raises: the handler of the loop counts an error, and the initiator stays
\* stopped, since waiting for the session in vain is not counted.
StartRaises ==
  /\ sub_step = "restarting"
  /\ error_count' = error_count + 1
  /\ sub_step' = "top"
  /\ UNCHANGED <<session_vars, asked_at, disturbances>> /\ SubUnchanged
-----------------------------------------------------------------------------
(* push_prices *)

PushUnchanged == UNCHANGED <<session_vars, fix_step, asked_at, sub_vars, latest>>

CreatesEvent ==
  /\ push_step = "starting"
  /\ event' = "unset"
  /\ push_step' = "waiting"
  /\ UNCHANGED <<sending, book, spot, last_known, unsignalled, disturbances>>
  /\ PushUnchanged

\* Variant: the data is read before the event is cleared.
ReadThenClear == [waiting |-> "reading", reading |-> "clearing", clearing |-> "picking"]
\* The order of what follows the event.
Order == [waiting |-> "clearing", clearing |-> "reading", reading |-> "picking"]

Wakes ==
  /\ push_step = "waiting" /\ event = "set"
  /\ push_step' = Order.waiting
  /\ UNCHANGED <<event, sending, book, spot, last_known, unsignalled, disturbances>>
  /\ PushUnchanged

\* 30 seconds without an event.
WaitsInVain ==
  /\ push_step = "waiting"
  /\ push_step' = "picking"
  /\ UNCHANGED <<event, sending, book, spot, last_known, unsignalled, disturbances>>
  /\ PushUnchanged

ClearsEvent ==
  /\ push_step = "clearing"
  /\ event' = "unset"
  /\ push_step' = Order.clearing
  /\ UNCHANGED <<sending, book, spot, last_known, unsignalled, disturbances>>
  /\ PushUnchanged

ReadsLatest ==
  /\ push_step = "reading"
  /\ last_known' = IF latest = 0 THEN last_known ELSE latest
  /\ push_step' = Order.reading
  /\ UNCHANGED <<event, sending, book, spot, unsignalled, disturbances>>
  /\ PushUnchanged

\* Variant: last_known or latest.
LastKnownFirst == IF last_known = 0 THEN latest ELSE last_known
\* latest or last_known
Data == IF latest = 0 THEN last_known ELSE latest

\* Seeded data has bids that are no pairs: bids[0][0] raises.
Picks ==
  /\ push_step = "picking"
  /\ IF Data \in {0, Seed}
       THEN push_step' = "backing_off" /\ UNCHANGED sending
       ELSE push_step' = "sending_book" /\ sending' = Data
  /\ UNCHANGED <<event, book, spot, last_known, unsignalled, disturbances>>
  /\ PushUnchanged

SendsBook ==
  /\ push_step = "sending_book"
  /\ book' = sending
  /\ push_step' = "sending_spot"
  /\ UNCHANGED <<event, sending, spot, last_known, unsignalled, disturbances>>
  /\ PushUnchanged

\* Variant: the price is taken from the market data of the moment.
PriceOfLatest == latest
\* mid_price was computed when the data was picked.
PriceOfPicked == sending

SendsSpot ==
  /\ push_step = "sending_spot"
  /\ spot' = PriceOfPicked
  /\ push_step' = "waiting" /\ sending' = 0
  /\ UNCHANGED <<event, book, last_known, unsignalled, disturbances>>
  /\ PushUnchanged

\* Kafka refuses one of the two.
SendingFails ==
  /\ push_step \in {"sending_book", "sending_spot"} /\ Disturbed
  /\ push_step' = "backing_off" /\ sending' = 0
  /\ UNCHANGED <<event, book, spot, last_known, unsignalled>>
  /\ PushUnchanged

BacksOff ==
  /\ push_step = "backing_off"
  /\ push_step' = "waiting"
  /\ UNCHANGED <<event, sending, book, spot, last_known, unsignalled, disturbances>>
  /\ PushUnchanged
-----------------------------------------------------------------------------
\* shutdown: stop(), then every task is cancelled where it awaits.
ShutsDown ==
  /\ Running /\ fix_step = "idle"
  /\ sub_step \in {"top", "awaiting", "restarting"}
  /\ push_step \in {"starting", "waiting", "backing_off", "sending_book", "sending_spot"}
  /\ LoggedOut
  /\ initiator' = "stopped"
  /\ sub_step' = "cancelled" /\ push_step' = "cancelled"
  /\ UNCHANGED <<fix_step, error_count, event, latest, sending, book, spot,
                 last_known, unsignalled, disturbances>>

LmaxOver == ~Running /\ UNCHANGED lmax_vars

FixThread == LogsOn \/ ForcesSubscription \/ LogsOut \/ StoresSnapshot \/ Signals
Subscriber ==
  LooksAtSession \/ SeesSession \/ WaitTimesOut \/ Decides \/ SendsRequest
  \/ StampsRequest \/ RequestFails \/ StartsInitiator \/ StartRaises
Pusher ==
  CreatesEvent \/ Wakes \/ WaitsInVain \/ ClearsEvent \/ ReadsLatest \/ Picks
  \/ SendsBook \/ SendsSpot \/ SendingFails \/ BacksOff

LmaxNext == FixThread \/ Subscriber \/ IntervalPasses \/ Pusher \/ ShutsDown \/ LmaxOver

LmaxSpec == LmaxInit /\ [][LmaxNext]_lmax_vars

\* A callback returns, a task that can run does, every wait has a timeout, time passes.
LmaxFairness ==
  /\ WF_lmax_vars(ForcesSubscription \/ Signals)
  /\ WF_lmax_vars(IntervalPasses)
  /\ WF_lmax_vars(Subscriber)
  /\ WF_lmax_vars(Pusher)
-----------------------------------------------------------------------------
(* Properties *)

\* The push task never waits for the next snapshot with one it has not looked at,
\* whenever the FIX thread stores and signals it, unless it came before the event
\* was there (the event is cleared before the data is read).
NothingUnread ==
  push_step = "waiting" /\ event = "unset" /\ fix_step # "signalling" =>
    latest \in {last_known, unsignalled}

\* The spot entry has the price of the order book that was sent before it, although
\* the order book changes while they are sent (one snapshot, two messages).
SpotFollowsBook == [][spot' # spot => spot' = book]_lmax_vars

\* A snapshot of LMAX, or a later one, reaches Kafka, whatever fails and whenever it
\* came: also when the event was missed or a message was refused.
SnapshotsArePushed ==
  \A n \in Seed+1..Seed + MaxSnapshots : latest >= n ~> spot >= n \/ ~Running

\* A session that is up gets its market data: the request that crosses a new logon
\* is overtaken by the next one, 30 seconds later ("Force immediate resubscription").
Resubscribes == session_ready ~> streaming \/ ~session_ready
=============================================================================
