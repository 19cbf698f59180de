-------------------------- MODULE Publishers_proofs --------------------------
(***************************************************************************)
(* Proofs about the two services that publish prices of their own, for any *)
(* number of failures.  lmax-connector: no snapshot is overlooked by the   *)
(* push task, and the spot price is that of the order book sent before it. *)
(* lp-pricer: what the points of redis from which a price is computed have *)
(* in common, for every length of the lists and every time to live.        *)
(***************************************************************************)
EXTENDS LmaxConnector, LpPricer, TLAPS
-----------------------------------------------------------------------------
(* lmax-connector *)

\* What is known of the market data, and that push_prices creates the event.
Known ==
  /\ latest \in Nat
  /\ last_known \in Nat
  /\ latest = 0 => last_known = 0
  /\ push_step = "starting" => event = "absent"

\* Until the FIX thread sets the event, the push task has seen the latest snapshot,
\* or is about to read it, or that snapshot came before the event was there.
Seen ==
  event # "set" /\ fix_step # "signalling" /\ push_step # "reading" =>
    latest \in {last_known, unsignalled}

\* The order book that was sent is the data from which the spot entry is built.
SameData == push_step = "sending_spot" => book = sending

LmaxInv == Known /\ Seen /\ SameData

LEMMA InitLmaxInv == LmaxInit => LmaxInv
BY DEF LmaxInit, LmaxInv, Known, Seen, SameData, Seed

\* The FIX thread stores a snapshot before it signals it.
LEMMA ThreadKeepsInv ==
  ASSUME LmaxInv, FixThread PROVE LmaxInv'
<1>1. CASE LogsOn \/ ForcesSubscription \/ LogsOut
  BY <1>1 DEF LogsOn, ForcesSubscription, LogsOut, LmaxInv, Known, Seen, SameData, push_vars
<1>2. CASE StoresSnapshot
  BY <1>2 DEF StoresSnapshot, LmaxInv, Known, Seen, SameData, push_vars, Seed
<1>3. CASE Signals
  BY <1>3 DEF Signals, LmaxInv, Known, Seen, SameData, push_vars
<1> QED BY <1>1, <1>2, <1>3 DEF FixThread

\* The subscriber does not touch what the other two share.
LEMMA SubscriberKeepsInv ==
  ASSUME LmaxInv, Subscriber \/ IntervalPasses PROVE LmaxInv'
<1>1. SubUnchanged
  BY DEF Subscriber, LooksAtSession, SeesSession, WaitTimesOut, Decides, SendsRequest,
         StampsRequest, RequestFails, StartsInitiator, StartRaises, IntervalPasses
<1> QED BY <1>1 DEF SubUnchanged, LmaxInv, Known, Seen, SameData, push_vars

\* The push task clears the event before it reads, so what is stored after its read
\* sets the event again.
LEMMA PusherKeepsInv ==
  ASSUME LmaxInv, Pusher PROVE LmaxInv'
<1>1. PushUnchanged
  BY DEF Pusher, CreatesEvent, Wakes, WaitsInVain, ClearsEvent, ReadsLatest, Picks,
         SendsBook, SendsSpot, SendingFails, BacksOff
<1>2. Known'
  BY <1>1 DEF Pusher, CreatesEvent, Wakes, WaitsInVain, ClearsEvent, ReadsLatest, Picks,
              SendsBook, SendsSpot, SendingFails, BacksOff, Order, PushUnchanged, LmaxInv,
              Known
<1>3. Seen'
  <2>1. CASE CreatesEvent \/ Wakes \/ WaitsInVain
    BY <2>1, <1>1 DEF CreatesEvent, Wakes, WaitsInVain, Order, PushUnchanged, LmaxInv,
                          Known, Seen
  <2>2. CASE ClearsEvent
    BY <2>2 DEF ClearsEvent, Order, Seen
  <2>3. CASE ReadsLatest
    BY <2>3, <1>1 DEF ReadsLatest, PushUnchanged, LmaxInv, Known, Seen
  <2>4. CASE Picks \/ SendsBook \/ SendsSpot \/ SendingFails \/ BacksOff
    BY <2>4, <1>1 DEF Picks, SendsBook, SendsSpot, SendingFails, BacksOff, PushUnchanged,
                      LmaxInv, Seen
  <2> QED BY <2>1, <2>2, <2>3, <2>4 DEF Pusher
<1>4. SameData'
  BY DEF Pusher, CreatesEvent, Wakes, WaitsInVain, ClearsEvent, ReadsLatest, Picks,
         SendsBook, SendsSpot, SendingFails, BacksOff, Order, LmaxInv, SameData
<1> QED BY <1>2, <1>3, <1>4 DEF LmaxInv

LEMMA NextLmaxInv == LmaxInv /\ [LmaxNext]_lmax_vars => LmaxInv'
<1> SUFFICES ASSUME LmaxInv, [LmaxNext]_lmax_vars PROVE LmaxInv'
  OBVIOUS
<1>1. CASE ShutsDown
  BY <1>1 DEF ShutsDown, LmaxInv, Known, Seen, SameData
<1>2. CASE UNCHANGED lmax_vars
  BY <1>2 DEF lmax_vars, push_vars, LmaxInv, Known, Seen, SameData
<1> QED
  BY <1>1, <1>2, ThreadKeepsInv, SubscriberKeepsInv, PusherKeepsInv DEF LmaxNext, LmaxOver

THEOREM LmaxInvHolds == LmaxSpec => []LmaxInv
BY InitLmaxInv, NextLmaxInv, PTL DEF LmaxSpec

\* No wakeup is lost between the FIX thread and the push task, wherever the thread
\* runs between two steps of the task (push_prices, _handle_market_data).
THEOREM SnapshotsAreSeen == LmaxSpec => []NothingUnread
<1>1. LmaxInv => NothingUnread
  BY DEF LmaxInv, Seen, NothingUnread
<1> QED BY <1>1, LmaxInvHolds, PTL

\* The two messages of one turn of push_prices are about the same data.
THEOREM SpotsFollowBooks == LmaxSpec => SpotFollowsBook
<1>1. LmaxInv /\ [LmaxNext]_lmax_vars => [spot' # spot => spot' = book]_lmax_vars
  <2> SUFFICES ASSUME LmaxInv, LmaxNext, spot' # spot PROVE spot' = book
    BY DEF lmax_vars, push_vars
  <2>1. SendsSpot
    BY DEF LmaxNext, LmaxOver, lmax_vars, FixThread, LogsOn, ForcesSubscription, LogsOut,
           StoresSnapshot, Signals, Subscriber, LooksAtSession, SeesSession, WaitTimesOut,
           Decides, SendsRequest, StampsRequest, RequestFails, StartsInitiator, StartRaises,
           IntervalPasses, SubUnchanged, Pusher, CreatesEvent, Wakes, WaitsInVain,
           ClearsEvent, ReadsLatest, Picks, SendsBook, SendingFails, BacksOff, ShutsDown,
           push_vars
  <2> QED BY <2>1 DEF SendsSpot, PriceOfPicked, LmaxInv, SameData
<1> QED BY <1>1, LmaxInvHolds, PTL DEF LmaxSpec, SpotFollowsBook
-----------------------------------------------------------------------------
(* lp-pricer *)

Points == Seq([age : 0..MaxAge, setbacks : Nat])

\* A point p and the one stored before it, q.
Follows(p, q) ==
  /\ p.age =< q.age
  /\ q.age = MaxAge \/ q.age - p.age < TimeToLive

Connected(points) == \A i \in 1..(Len(points) - 1) : Follows(points[i], points[i + 1])

\* redis has forgotten lists as old as their time to live.
Alive(points) == points # <<>> => points[1].age < TimeToLive

\* Points that are connected to a young one are far from the age at which ages stop.
Young(points) ==
  \A i \in 1..Len(points) : points[i].age < points[1].age + i * TimeToLive

LpTypeOK ==
  /\ history \in Points /\ priced \in Points
  /\ setbacks \in Nat

\* As many delays have gone by since a point as points were stored after it, and extra
\* more, less one for each setback since; total is the number of setbacks so far.
Spaced(points, total, extra) ==
  \A i \in 1..Len(points) :
    \/ points[i].age = MaxAge
    \/ points[i].age + total >= points[i].setbacks + (i - 1) + extra

\* A round that has not stored its point yet has the delay before it behind it, or the
\* setback that cut it short.
Rested == Spaced(history, setbacks, IF lp_step \in {"storing", "down"} THEN 1 ELSE 0)

\* The round's own point is the newest while it prices.
Fresh == lp_step = "pricing" => history # <<>> /\ history[1].age = 0

WellPriced ==
  priced # <<>> =>
    /\ Len(priced) = MinPoints /\ priced[1].age = 0
    /\ Connected(priced) /\ Young(priced) /\ Spaced(priced, setbacks, 0)

LpInv ==
  /\ LpTypeOK /\ Connected(history) /\ Alive(history) /\ Young(history)
  /\ Rested /\ Fresh /\ WellPriced

LEMMA LpNumbers ==
  /\ MinPoints \in Nat /\ MinPoints > 0 /\ MaxValues \in Nat /\ MaxValues >= MinPoints
  /\ TimeToLive \in Nat /\ TimeToLive > 0 /\ MaxAge \in Nat /\ MaxAge >= TimeToLive
<1>1. MinPoints * TimeToLive >= 1 * TimeToLive
  BY LpAssumption
<1> QED BY <1>1, LpAssumption

\* Ages are counted for the time to live of as many points as a price needs.
LEMMA AgesAreCounted ==
  ASSUME NEW i \in 1..MinPoints
  PROVE  i * TimeToLive \in Nat /\ i * TimeToLive =< MaxAge
<1>1. i * TimeToLive \in Nat /\ i * TimeToLive =< MinPoints * TimeToLive
  BY LpAssumption
<1> QED BY <1>1, LpAssumption

\* One more time to live.
LEMMA OneMore ==
  ASSUME NEW i \in Nat
  PROVE  i * TimeToLive \in Nat /\ (i + 1) * TimeToLive = i * TimeToLive + TimeToLive
BY LpAssumption

LEMMA OneOfThem ==
  ASSUME NEW S, NEW s \in Seq(S), NEW i \in 1..Len(s) PROVE s[i] \in S
OBVIOUS

LEMMA FirstOnes ==
  ASSUME NEW S, NEW s \in Seq(S), NEW n \in 0..Len(s)
  PROVE  /\ SubSeq(s, 1, n) \in Seq(S) /\ Len(SubSeq(s, 1, n)) = n
         /\ \A i \in 1..n : SubSeq(s, 1, n)[i] = s[i]
OBVIOUS

\* lpush and ltrim keep the newest points, in their order.
LEMMA StoredPoints ==
  ASSUME history \in Points, NEW p \in [age : 0..MaxAge, setbacks : Nat]
  PROVE  /\ Stored(p) \in Points /\ Len(Stored(p)) > 0
         /\ Stored(p)[1] = p
         /\ \A i \in 2..Len(Stored(p)) : i - 1 \in 1..Len(history) /\ Stored(p)[i] = history[i - 1]
<1> DEFINE all == <<p>> \o history
           n == IF Len(history) < MaxValues THEN Len(history) + 1 ELSE MaxValues
<1>1. /\ all \in Points /\ Len(all) = Len(history) + 1 /\ all[1] = p
      /\ \A i \in 2..Len(all) : all[i] = history[i - 1]
  BY DEF Points
<1>2. n \in 1..Len(all)
  BY <1>1, LpNumbers DEF Points
<1> HIDE DEF all, n
<1>3. /\ SubSeq(all, 1, n) \in Points /\ Len(SubSeq(all, 1, n)) = n
      /\ \A i \in 1..n : SubSeq(all, 1, n)[i] = all[i]
  <2>1. all \in Seq([age : 0..MaxAge, setbacks : Nat]) /\ n \in 0..Len(all)
    BY <1>1, <1>2 DEF Points
  <2> QED BY <2>1, FirstOnes DEF Points
<1>4. Stored(p) = SubSeq(all, 1, n)
  BY DEF Stored, all, n
<1>5. Len(history) \in Nat
  BY DEF Points
<1> QED BY <1>1, <1>2, <1>3, <1>4, <1>5

LEMMA StoredKeeps ==
  ASSUME LpInv, lp_step = "storing"
  PROVE  /\ Stored(NewPoint) \in Points /\ Stored(NewPoint) # <<>>
         /\ Stored(NewPoint)[1].age = 0
         /\ Connected(Stored(NewPoint)) /\ Alive(Stored(NewPoint))
         /\ Young(Stored(NewPoint)) /\ Spaced(Stored(NewPoint), setbacks, 0)
<1> DEFINE p == NewPoint
           s == Stored(p)
<1>1. p \in [age : 0..MaxAge, setbacks : Nat] /\ p.age = 0 /\ p.setbacks = setbacks
  BY LpNumbers DEF NewPoint, LpInv, LpTypeOK
<1> HIDE DEF p
<1>2. /\ s \in Points /\ Len(s) > 0 /\ s[1] = p
      /\ \A i \in 2..Len(s) : i - 1 \in 1..Len(history) /\ s[i] = history[i - 1]
  BY <1>1, StoredPoints DEF LpInv, LpTypeOK
<1> HIDE DEF s
<1>3. s # <<>> /\ s[1].age = 0 /\ Alive(s)
  BY <1>1, <1>2, LpNumbers DEF Alive, Points
<1>4. Connected(s)
  <2> SUFFICES ASSUME NEW i \in 1..(Len(s) - 1) PROVE Follows(s[i], s[i + 1])
    BY DEF Connected
  <2>1. i \in Nat /\ Len(s) \in Nat /\ Len(history) \in Nat
    BY <1>2 DEF LpInv, LpTypeOK, Points
  <2>2. i \in 1..Len(history) /\ s[i + 1] = history[i]
    BY <1>2, <2>1
  <2>3. CASE i = 1
    <3>1. history # <<>> /\ history[1].age \in 0..MaxAge /\ history[1].age < TimeToLive
      <4>1. history \in Points /\ Alive(history) /\ 1 \in 1..Len(history)
        BY <2>2, <2>3 DEF LpInv, LpTypeOK
      <4>2. history \in Seq([age : 0..MaxAge, setbacks : Nat])
        BY <4>1 DEF Points
      <4>3. history # <<>>
        BY <4>1, <4>2
      <4>4. history[1] \in [age : 0..MaxAge, setbacks : Nat]
        BY <4>1, <4>2, OneOfThem
      <4> QED BY <4>1, <4>3, <4>4 DEF Alive
    <3> QED BY <1>1, <1>2, <2>2, <2>3, <3>1, LpNumbers DEF Follows
  <2>4. CASE i > 1
    <3>1. i - 1 \in 1..(Len(history) - 1) /\ s[i] = history[i - 1] /\ (i - 1) + 1 = i
      BY <1>2, <2>1, <2>2, <2>4
    <3>2. Follows(history[i - 1], history[i])
      BY <3>1 DEF LpInv, Connected
    <3> QED BY <2>2, <3>1, <3>2
  <2> QED BY <2>1, <2>3, <2>4
<1>5. Young(s)
  <2> SUFFICES ASSUME NEW i \in 1..Len(s) PROVE s[i].age < s[1].age + i * TimeToLive
    BY DEF Young
  <2>1. i \in Nat /\ i > 0 /\ history \in Points /\ Len(history) \in Nat
    BY <1>2 DEF LpInv, LpTypeOK, Points
  <2>2. CASE i = 1
    BY <1>1, <1>2, <2>2, LpNumbers
  <2>3. CASE i > 1
    <3> DEFINE j == i - 1
    <3>1. j \in 1..Len(history) /\ s[i] = history[j] /\ j \in Nat /\ i = j + 1
      BY <1>2, <2>1, <2>3
    <3> HIDE DEF j
    <3>2. history[j].age < history[1].age + j * TimeToLive
      BY <3>1 DEF LpInv, Young
    <3>3. history # <<>> /\ 1 \in 1..Len(history)
      BY <2>1, <3>1
    <3>4. history[1].age \in Nat /\ history[j].age \in Nat
      <4>1. history[1] \in [age : 0..MaxAge, setbacks : Nat]
        BY <2>1, <3>3, OneOfThem DEF Points
      <4>2. history[j] \in [age : 0..MaxAge, setbacks : Nat]
        BY <2>1, <3>1, OneOfThem DEF Points
      <4> QED BY <4>1, <4>2, LpNumbers
    <3>5. history[1].age < TimeToLive
      BY <3>3 DEF LpInv, Alive
    <3>6. i * TimeToLive = j * TimeToLive + TimeToLive /\ j * TimeToLive \in Nat
      BY <3>1, OneMore
    <3> DEFINE t == j * TimeToLive
               u == i * TimeToLive
    <3>7. s[1].age = 0 /\ s[i].age = history[j].age
      BY <1>1, <1>2, <3>1
    <3>8. u = t + TimeToLive /\ t \in Nat /\ history[j].age < history[1].age + t
      BY <3>2, <3>6
    <3> HIDE DEF t, u
    <3>9. history[j].age < u
      BY <3>4, <3>5, <3>8, LpNumbers
    <3> QED BY <3>4, <3>7, <3>9, <3>8, LpNumbers DEF u
  <2> QED BY <2>1, <2>2, <2>3
<1>6. Spaced(s, setbacks, 0)
  <2> SUFFICES ASSUME NEW i \in 1..Len(s)
               PROVE  s[i].age = MaxAge \/ s[i].age + setbacks >= s[i].setbacks + (i - 1) + 0
    BY DEF Spaced
  <2>1. i \in Nat /\ setbacks \in Nat /\ history \in Points /\ Len(history) \in Nat
    BY <1>2 DEF LpInv, LpTypeOK, Points
  <2>2. CASE i = 1
    BY <1>1, <1>2, <2>1, <2>2
  <2>3. CASE i > 1
    <3> DEFINE j == i - 1
    <3>1. j \in 1..Len(history) /\ s[i] = history[j] /\ j \in Nat /\ i = j + 1
      BY <1>2, <2>1, <2>3
    <3> HIDE DEF j
    <3>2. \/ history[j].age = MaxAge
          \/ history[j].age + setbacks >= history[j].setbacks + (j - 1) + 1
      BY <3>1 DEF LpInv, Rested, Spaced
    <3>3. history[j] \in [age : 0..MaxAge, setbacks : Nat]
      BY <2>1, <3>1, OneOfThem DEF Points
    <3> QED BY <2>1, <3>1, <3>2, <3>3, LpNumbers
  <2> QED BY <2>1, <2>2, <2>3
<1> QED BY <1>2, <1>3, <1>4, <1>5, <1>6 DEF s, p

\* A setback or a delay makes up for the next point.
LEMMA SpacedOn ==
  ASSUME NEW points \in Points, NEW total \in Nat, NEW extra \in {0, 1},
         Spaced(points, total, extra)
  PROVE  Spaced(points, total, 0) /\ Spaced(points, total + 1, 1)
<1> SUFFICES ASSUME NEW i \in 1..Len(points), points[i].age # MaxAge
             PROVE  /\ points[i].age + total >= points[i].setbacks + (i - 1) + 0
                    /\ points[i].age + (total + 1) >= points[i].setbacks + (i - 1) + 1
  BY DEF Spaced
<1>1. points[i] \in [age : 0..MaxAge, setbacks : Nat] /\ i \in Nat
  <2>1. points \in Seq([age : 0..MaxAge, setbacks : Nat])
    BY DEF Points
  <2>2. points[i] \in [age : 0..MaxAge, setbacks : Nat]
    BY <2>1, OneOfThem
  <2> QED BY <2>1, <2>2
<1>2. points[i].age + total >= points[i].setbacks + (i - 1) + extra
  BY DEF Spaced
<1> QED BY <1>1, <1>2, LpNumbers

\* A delay makes what two ages have in common no worse.
OneOlder(n) == IF n < MaxAge THEN n + 1 ELSE n

LEMMA AgesTogether ==
  ASSUME NEW a \in 0..MaxAge, NEW b \in 0..MaxAge
  PROVE  /\ a =< b => OneOlder(a) =< OneOlder(b)
         /\ b = MaxAge \/ b - a < TimeToLive =>
              OneOlder(b) = MaxAge \/ OneOlder(b) - OneOlder(a) < TimeToLive
<1>1. MaxAge \in Nat /\ TimeToLive \in Nat
  BY LpNumbers
<1> QED BY <1>1 DEF OneOlder

LEMMA AgesFromFirst ==
  ASSUME NEW a \in 0..MaxAge, NEW b \in 0..MaxAge, NEW t \in Nat,
         a + 1 < TimeToLive, b < a + t
  PROVE  OneOlder(b) < OneOlder(a) + t
<1>1. MaxAge \in Nat /\ TimeToLive \in Nat /\ MaxAge >= TimeToLive
  BY LpNumbers
<1>2. OneOlder(a) = a + 1 /\ OneOlder(b) \in Nat /\ OneOlder(b) =< b + 1
  BY <1>1 DEF OneOlder
<1> QED BY <1>1, <1>2

\* A delay ages all points alike, or redis forgets them.
LEMMA OlderKeeps ==
  ASSUME LpInv
  PROVE  /\ Older(history) \in Points /\ Connected(Older(history)) /\ Alive(Older(history))
         /\ Young(Older(history))
         /\ Spaced(Older(history), setbacks, 1)
<1>1. history \in Points /\ Len(history) \in Nat
  BY DEF LpInv, LpTypeOK, Points
<1>2. CASE Older(history) = <<>>
  BY <1>2 DEF Points, Connected, Alive, Young, Spaced
<1>3. CASE Older(history) # <<>>
  <2> DEFINE s == Older(history)
  <2>1. history # <<>> /\ ~(history[1].age + 1 >= TimeToLive)
    BY <1>1, <1>3 DEF Older, Points
  <2>2. s = [i \in DOMAIN history |->
               [history[i] EXCEPT !.age = IF @ < MaxAge THEN @ + 1 ELSE @]]
    BY <1>3 DEF Older
  <2>3. /\ s \in Points /\ Len(s) = Len(history)
        /\ \A i \in 1..Len(history) : /\ history[i].age \in 0..MaxAge
                                      /\ s[i].age = OneOlder(history[i].age)
                                      /\ s[i].setbacks = history[i].setbacks
    <3>1. DOMAIN history = 1..Len(history)
      BY <1>1 DEF Points
    <3>2. ASSUME NEW i \in 1..Len(history)
          PROVE  /\ history[i].age \in 0..MaxAge /\ s[i].age = OneOlder(history[i].age)
                 /\ s[i].setbacks = history[i].setbacks
                 /\ s[i] \in [age : 0..MaxAge, setbacks : Nat]
      <4>1. history[i] \in [age : 0..MaxAge, setbacks : Nat]
        BY <1>1, OneOfThem DEF Points
      <4>2. s[i] = [history[i] EXCEPT !.age = IF @ < MaxAge THEN @ + 1 ELSE @]
        <5> HIDE DEF s
        <5> QED BY <2>2, <3>1
      <4>3. OneOlder(history[i].age) \in 0..MaxAge
        BY <4>1, LpNumbers DEF OneOlder
      <4> HIDE DEF s
      <4> QED BY <4>1, <4>2, <4>3 DEF OneOlder
    <3>3. s = [i \in 1..Len(history) |-> s[i]]
      BY <2>2, <3>1
    <3> HIDE DEF s
    <3>4. s \in Points /\ Len(s) = Len(history)
      BY <1>1, <3>2, <3>3 DEF Points
    <3> QED BY <3>2, <3>4
  <2> HIDE DEF s
  <2>4. 1 \in 1..Len(history)
    BY <1>1, <2>1 DEF Points
  <2>5. s[1].age < TimeToLive
    BY <2>1, <2>3, <2>4, LpNumbers DEF OneOlder
  <2>6. ASSUME NEW i \in 1..(Len(s) - 1) PROVE Follows(s[i], s[i + 1])
    <3>1. i \in 1..Len(history) /\ i + 1 \in 1..Len(history) /\ i \in 1..(Len(history) - 1)
      BY <1>1, <2>3
    <3>2. Follows(history[i], history[i + 1])
      BY <3>1 DEF LpInv, Connected
    <3>3. /\ history[i].age \in 0..MaxAge /\ history[i + 1].age \in 0..MaxAge
          /\ s[i].age = OneOlder(history[i].age) /\ s[i + 1].age = OneOlder(history[i + 1].age)
      BY <2>3, <3>1
    <3> DEFINE a == history[i].age
               b == history[i + 1].age
    <3>4. /\ a =< b => OneOlder(a) =< OneOlder(b)
          /\ b = MaxAge \/ b - a < TimeToLive =>
               OneOlder(b) = MaxAge \/ OneOlder(b) - OneOlder(a) < TimeToLive
      <4> HIDE DEF a, b
      <4> QED BY <3>3, AgesTogether DEF a, b
    <3> QED BY <3>2, <3>3, <3>4 DEF Follows
  <2>7. ASSUME NEW i \in 1..Len(s) PROVE s[i].age < s[1].age + i * TimeToLive
    <3>1. i \in 1..Len(history) /\ i \in Nat
      BY <2>3
    <3> DEFINE t == i * TimeToLive
    <3>2. history[i].age < history[1].age + t /\ t \in Nat
      BY <3>1, OneMore DEF LpInv, Young
    <3> HIDE DEF t
    <3>3. /\ history[i].age \in 0..MaxAge /\ history[1].age \in 0..MaxAge
          /\ s[i].age = OneOlder(history[i].age) /\ s[1].age = OneOlder(history[1].age)
      BY <2>3, <2>4, <3>1
    <3>4. history[1].age + 1 < TimeToLive
      BY <2>1, <3>3, LpNumbers
    <3>5. OneOlder(history[i].age) < OneOlder(history[1].age) + t
      BY <3>2, <3>3, <3>4, AgesFromFirst
    <3> QED BY <3>3, <3>5 DEF t
  <2>8. ASSUME NEW i \in 1..Len(s)
        PROVE  s[i].age = MaxAge \/ s[i].age + setbacks >= s[i].setbacks + (i - 1) + 1
    <3>1. i \in 1..Len(history) /\ i \in Nat /\ setbacks \in Nat
      BY <2>3 DEF LpInv, LpTypeOK
    <3>2. /\ history[i].age \in 0..MaxAge /\ history[i].setbacks \in Nat
          /\ s[i].age = OneOlder(history[i].age) /\ s[i].setbacks = history[i].setbacks
      <4>1. history[i] \in [age : 0..MaxAge, setbacks : Nat]
        BY <1>1, <3>1, OneOfThem DEF Points
      <4> QED BY <2>3, <3>1, <4>1
    <3>3. Spaced(history, setbacks, 0)
      <4>1. Spaced(history, setbacks, IF lp_step \in {"storing", "down"} THEN 1 ELSE 0)
        BY DEF LpInv, Rested
      <4> QED BY <1>1, <3>1, <4>1, SpacedOn
    <3>4. \/ history[i].age = MaxAge
          \/ history[i].age + setbacks >= history[i].setbacks + (i - 1) + 0
      BY <3>1, <3>3 DEF Spaced
    <3> QED BY <3>1, <3>2, <3>4, LpNumbers DEF OneOlder
  <2> QED BY <2>3, <2>5, <2>6, <2>7, <2>8 DEF Connected, Alive, Young, Spaced, s
<1> QED BY <1>2, <1>3

\* The newest points of the lists are as connected as the lists.
LEMMA LatestKeeps ==
  ASSUME LpInv, lp_step = "pricing", Enough
  PROVE  /\ LatestPoints \in Points /\ LatestPoints # <<>>
         /\ Len(LatestPoints) = MinPoints
         /\ LatestPoints[1].age = 0 /\ Connected(LatestPoints) /\ Young(LatestPoints)
         /\ Spaced(LatestPoints, setbacks, 0)
<1> DEFINE n == IF Len(history) < MinPoints THEN Len(history) ELSE MinPoints
<1>1. history \in Points /\ Len(history) \in Nat
  BY DEF LpInv, LpTypeOK, Points
<1>2. n \in Nat /\ n =< Len(history) /\ n =< MinPoints
  BY <1>1, LpNumbers
<1>3. LatestPoints = SubSeq(history, 1, n)
  BY DEF LatestPoints
<1> HIDE DEF n
<1>4. /\ LatestPoints \in Points /\ Len(LatestPoints) = n
      /\ \A i \in 1..n : LatestPoints[i] = history[i]
  <2>1. history \in Seq([age : 0..MaxAge, setbacks : Nat]) /\ n \in 0..Len(history)
    BY <1>1, <1>2 DEF Points
  <2> QED BY <1>3, <2>1, FirstOnes DEF Points
<1>5. n = MinPoints
  BY <1>2, <1>4, LpNumbers DEF Enough
<1>6. LatestPoints[1] = history[1] /\ LatestPoints # <<>>
  BY <1>4, <1>5, LpNumbers DEF Points
<1>7. LatestPoints[1].age = 0
  BY <1>6 DEF LpInv, Fresh
<1>8. Connected(LatestPoints)
  BY <1>1, <1>2, <1>4 DEF LpInv, Connected
<1>9. Young(LatestPoints)
  <2> SUFFICES ASSUME NEW i \in 1..n
               PROVE  LatestPoints[i].age < LatestPoints[1].age + i * TimeToLive
    BY <1>4 DEF Young
  <2>1. i \in 1..Len(history)
    BY <1>1, <1>2
  <2> QED BY <1>4, <1>6, <2>1 DEF LpInv, Young
<1>10. Spaced(LatestPoints, setbacks, 0)
  <2> SUFFICES ASSUME NEW i \in 1..n
               PROVE  \/ LatestPoints[i].age = MaxAge
                      \/ LatestPoints[i].age + setbacks
                           >= LatestPoints[i].setbacks + (i - 1) + 0
    BY <1>4 DEF Spaced
  <2>1. i \in 1..Len(history)
    BY <1>1, <1>2
  <2>2. Spaced(history, setbacks, 0)
    BY DEF LpInv, Rested
  <2> QED BY <1>4, <2>1, <2>2 DEF Spaced
<1> QED BY <1>4, <1>5, <1>6, <1>7, <1>8, <1>9, <1>10

LEMMA InitLpInv == LpInit => LpInv
BY DEF LpInit, LpInv, LpTypeOK, Points, Connected, Alive, Young, Spaced, Rested, Fresh, WellPriced

LEMMA NextLpInv == LpInv /\ [LpNext]_lp_vars => LpInv'
<1> SUFFICES ASSUME LpInv, [LpNext]_lp_vars PROVE LpInv'
  OBVIOUS
<1> USE DEF LpInv, LpTypeOK
<1>1. <<>> \in Points
  BY DEF Points
<1>2. Spaced(history, setbacks, 0) /\ Spaced(history, setbacks + 1, 1)
  <2>1. Spaced(history, setbacks, IF lp_step \in {"storing", "down"} THEN 1 ELSE 0)
    BY DEF Rested
  <2> QED BY <2>1, SpacedOn
<1>3. CASE Stores
  <2>1. /\ history' = Stored(NewPoint) /\ lp_step = "storing" /\ lp_step' = "pricing"
        /\ UNCHANGED <<setbacks, priced>>
    BY <1>3 DEF Stores
  <2> QED BY <2>1, StoredKeeps DEF Connected, Alive, Young, Spaced, Rested, Fresh, WellPriced
<1>4. CASE StoringFails
  <2>1. lp_step = "storing" /\ lp_step' = "sleeping" /\ priced' = <<>> /\ UNCHANGED setbacks
    BY <1>4 DEF StoringFails, Ends
  <2>2. history' = history \/ history' = Stored(NewPoint)
    BY <1>4 DEF StoringFails
  <2> QED BY <1>1, <1>2, <2>1, <2>2, StoredKeeps
          DEF Connected, Alive, Young, Spaced, Rested, Fresh, WellPriced
<1>5. CASE NotEnoughPoints \/ PricingFails \/ Publishes \/ PublishingFails
  <2>1. lp_step' = "sleeping" /\ priced' = <<>> /\ UNCHANGED <<history, setbacks>>
    BY <1>5 DEF NotEnoughPoints, PricingFails, Publishes, PublishingFails, Ends
  <2> QED BY <1>1, <1>2, <2>1 DEF Connected, Alive, Young, Spaced, Rested, Fresh, WellPriced
<1>6. CASE ComputesPrice
  <2>1. /\ lp_step = "pricing" /\ Enough /\ lp_step' = "publishing"
        /\ priced' = LatestPoints /\ UNCHANGED <<history, setbacks>>
    BY <1>6 DEF ComputesPrice
  <2> QED BY <1>2, <2>1, LatestKeeps
          DEF Connected, Alive, Young, Spaced, Rested, Fresh, WellPriced
<1>7. CASE SwitchesNode \/ Dies
  <2>1. /\ lp_step' \in {"storing", "down"} /\ setbacks' = setbacks + 1 /\ priced' = <<>>
        /\ UNCHANGED history
    BY <1>7 DEF SwitchesNode, Dies, Setback
  <2> QED BY <1>1, <1>2, <2>1 DEF Connected, Alive, Young, Spaced, Rested, Fresh, WellPriced
<1>8. CASE Sleeps \/ StaysDown
  <2>1. /\ history' = Older(history) /\ UNCHANGED <<setbacks, priced>>
        /\ lp_step \in {"sleeping", "down"} /\ lp_step' \in {"storing", "down"}
    BY <1>8 DEF Sleeps, SleepsAlways, StaysDown
  <2> QED BY <2>1, OlderKeeps DEF Connected, Alive, Young, Spaced, Rested, Fresh, WellPriced
<1>9. CASE StartsAgain
  <2>1. /\ lp_step = "down" /\ lp_step' = "storing"
        /\ UNCHANGED <<history, setbacks, priced>>
    BY <1>9 DEF StartsAgain
  <2> QED BY <2>1 DEF Connected, Alive, Young, Spaced, Rested, Fresh, WellPriced
<1>10. CASE UNCHANGED lp_vars
  BY <1>10 DEF lp_vars, Connected, Alive, Young, Spaced, Rested, Fresh, WellPriced
<1> QED BY <1>3, <1>4, <1>5, <1>6, <1>7, <1>8, <1>9, <1>10 DEF LpNext, Round

THEOREM LpInvHolds == LpSpec => []LpInv
BY InitLpInv, NextLpInv, PTL DEF LpSpec

\* The points of a price are far from the age at which ages stop.
LEMMA PricedAges ==
  ASSUME LpInv, priced # <<>>, NEW i \in 1..Len(priced)
  PROVE  priced[i] \in [age : 0..MaxAge, setbacks : Nat] /\ priced[i].age # MaxAge
<1>1. priced \in Points /\ Len(priced) = MinPoints /\ priced[1].age = 0 /\ Young(priced)
  BY DEF LpInv, LpTypeOK, WellPriced
<1>2. priced[i].age < priced[1].age + i * TimeToLive
  BY <1>1 DEF Young
<1>3. i * TimeToLive \in Nat /\ i * TimeToLive =< MaxAge
  BY <1>1, AgesAreCounted
<1>4. priced[i] \in [age : 0..MaxAge, setbacks : Nat]
  BY <1>1, OneOfThem DEF Points
<1> DEFINE t == i * TimeToLive
<1>5. priced[i].age < 0 + t /\ t \in Nat /\ t =< MaxAge
  BY <1>1, <1>2, <1>3
<1> HIDE DEF t
<1> QED BY <1>4, <1>5, LpNumbers

\* No price mixes points from before and after an outage longer than the time to live,
\* however the process died, was started again or switched nodes (_store_latest_values).
THEOREM OutagesAreNotBridged == LpSpec => []NoPriceAcrossOutage
<1>1. LpInv => NoPriceAcrossOutage
  <2> SUFFICES ASSUME LpInv, priced # <<>>
               PROVE  /\ priced[1].age = 0
                      /\ \A i \in 1..(Len(priced) - 1) :
                           priced[i + 1].age - priced[i].age < TimeToLive
    BY DEF NoPriceAcrossOutage
  <2>1. priced \in Points /\ Connected(priced)
    BY DEF LpInv, LpTypeOK, WellPriced
  <2>2. ASSUME NEW i \in 1..(Len(priced) - 1)
        PROVE  priced[i + 1].age - priced[i].age < TimeToLive
    <3>1. i + 1 \in 1..Len(priced)
      BY <2>1 DEF Points
    <3>2. priced[i + 1].age # MaxAge
      BY <3>1, PricedAges
    <3> QED BY <2>1, <3>2 DEF Connected, Follows
  <2> QED BY <2>2 DEF LpInv, WellPriced
<1> QED BY <1>1, LpInvHolds, PTL

\* The points of a price span the delays between them, less one for each switch of the
\* node or end of the process since the oldest, whatever else failed in between
\* (main, LPFetcher, MINIMUM_DATA_POINTS).
THEOREM PointsAreRounds == LpSpec => []PointsSpanTheirRounds
<1>1. LpInv => PointsSpanTheirRounds
  <2> SUFFICES ASSUME LpInv, priced # <<>>
               PROVE  priced[Len(priced)].age + (setbacks - priced[Len(priced)].setbacks)
                        >= MinPoints - 1
    BY DEF PointsSpanTheirRounds
  <2>1. Len(priced) = MinPoints /\ MinPoints \in 1..Len(priced) /\ setbacks \in Nat
    BY LpNumbers DEF LpInv, LpTypeOK, WellPriced
  <2> DEFINE oldest == priced[MinPoints]
  <2>2. oldest \in [age : 0..MaxAge, setbacks : Nat] /\ oldest.age # MaxAge
    BY <2>1, PricedAges
  <2>3. \/ oldest.age = MaxAge
        \/ oldest.age + setbacks >= oldest.setbacks + (MinPoints - 1) + 0
    BY <2>1 DEF LpInv, WellPriced, Spaced
  <2>4. oldest.age + (setbacks - oldest.setbacks) >= MinPoints - 1
    <3> HIDE DEF oldest
    <3> QED BY <2>1, <2>2, <2>3, LpNumbers
  <2> QED BY <2>1, <2>4
<1> QED BY <1>1, LpInvHolds, PTL
=============================================================================
