---------------------------- MODULE Reconstructor ---------------------------
(***************************************************************************)
(* From a trade on an exchange to an estimate of the index: the feeds and    *)
(* the merger of services/ingest and the service of services/reconstructor.  *)
(* A feed stamps the trades of a message when it parses it and offers them   *)
(* one by one to the merge channel; the merger moves them to the trade ring; *)
(* the reconstructor puts each in the window of its exchange and publishes   *)
(* the mean of the volume-weighted medians of the exchanges that are live.   *)
(* All three queues are bounded, and what finds one full is dropped.         *)
(*                                                                           *)
(* The mean is kept as a sum and a count: its rounding to cents is not       *)
(* modelled.  Connections are not either: a feed may be silent at any time.  *)
(***************************************************************************)
EXTENDS RollingWindow

CONSTANTS
  Exchanges,        \* the five feeds
  Prices, Sizes,    \* of a trade; a size that cannot be read is zero
  WINDOW,           \* window_secs, 60 s
  STALE,            \* staleness_threshold_ms, 5 s
  MIN_EXCHANGES,    \* 2
  ChannelCapacity,  \* MERGE_CHANNEL_CAPACITY
  TradeCapacity,    \* INGEST_RING_CAPACITY
  IndexCapacity,    \* SIGNAL_RING_CAPACITY
  MaxMessage,       \* bound: trades in a message
  MaxTrades,        \* bound: trades in a behaviour, but for those dropped
  MaxClock          \* bound: the clock stops here

ASSUME ReconstructorAssumption ==
  /\ IsFiniteSet(Exchanges) /\ Prices \subseteq Nat /\ Sizes \subseteq Nat
  /\ WINDOW \in Nat /\ STALE \in Nat /\ MIN_EXCHANGES \in Nat \ {0}
  /\ ChannelCapacity \in Nat \ {0} /\ TradeCapacity \in Nat \ {0}
  /\ IndexCapacity \in Nat \ {0}
  /\ MaxMessage \in Nat /\ MaxTrades \in Nat /\ MaxClock \in Nat

VARIABLES
  clock,
  inHand,   \* per feed, the trades of its last message still to be offered
  channel,  \* the merge channel
  trades,   \* the ring between merger and reconstructor
  windows,  \* ReconstructorEngine.windows
  index,    \* the ring between reconstructor and signal service
  taken,    \* history: per exchange, the trades the reconstructor has taken
  asOf,     \* history: the stamp of the trade taken last
  latest    \* history: the estimate that trade made it publish, if any

vars == <<clock, inHand, channel, trades, windows, index, taken, asOf, latest>>

Trades == [exchange: Exchanges, price: Prices, size: Sizes, at: 0 .. MaxClock]

Estimates == [sum: Nat, count: 1 .. Cardinality(Exchanges), at: 0 .. MaxClock]

TypeOK ==
  /\ clock \in 0 .. MaxClock
  /\ inHand \in [Exchanges -> Seq(Trades)]
  /\ channel \in Seq(Trades) /\ Len(channel) <= ChannelCapacity
  /\ trades \in Seq(Trades) /\ Len(trades) <= TradeCapacity
  /\ windows \in [Exchanges -> Seq(Trades)]
  /\ index \in Seq(Estimates) /\ Len(index) <= IndexCapacity
  /\ taken \in [Exchanges -> Seq(Trades)]
  /\ asOf \in 0 .. MaxClock
  /\ latest \subseteq Estimates

Init ==
  /\ clock = 0
  /\ inHand = [e \in Exchanges |-> <<>>]
  /\ channel = <<>> /\ trades = <<>> /\ index = <<>>
  /\ windows = [e \in Exchanges |-> <<>>]
  /\ taken = [e \in Exchanges |-> <<>>]
  /\ asOf = 0 /\ latest = {}

Pass ==
  /\ clock < MaxClock
  /\ clock' = clock + 1
  /\ UNCHANGED <<inHand, channel, trades, windows, index, taken, asOf, latest>>

\* Mutation: the item is queued all the same.
OfferedAlways(queue, item, capacity) == Append(queue, item)

\* try_send and try_push: an item that finds the queue full is dropped.
Offered(queue, item, capacity) ==
  IF Len(queue) < capacity THEN Append(queue, item) ELSE queue

-----------------------------------------------------------------------------
(* The feeds and the merger. *)

\* How many trades there are, but for those dropped.
Seen ==
  LET Lengths(f) == MapThenSumSet(LAMBDA e : Len(f[e]), Exchanges)
  IN  Lengths(inHand) + Len(channel) + Len(trades) + Lengths(taken)

\* A message is parsed, and its trades are stamped with the time of receipt.
Receive(e) ==
  /\ inHand[e] = <<>>
  /\ \E n \in 1 .. MaxMessage :
       /\ Seen + n <= MaxTrades
       /\ \E message \in [1 .. n -> [exchange: {e}, price: Prices,
                                     size: Sizes, at: {clock}]] :
            inHand' = [inHand EXCEPT ![e] = message]
  /\ UNCHANGED <<clock, channel, trades, windows, index, taken, asOf, latest>>

Send(e) ==
  /\ inHand[e] # <<>>
  /\ channel' = Offered(channel, Head(inHand[e]), ChannelCapacity)
  /\ inHand' = [inHand EXCEPT ![e] = Tail(@)]
  /\ UNCHANGED <<clock, trades, windows, index, taken, asOf, latest>>

Merge ==
  /\ channel # <<>>
  /\ channel' = Tail(channel)
  /\ trades' = Offered(trades, Head(channel), TradeCapacity)
  /\ UNCHANGED <<clock, inHand, windows, index, taken, asOf, latest>>

-----------------------------------------------------------------------------
(* The windows. *)

\* The old trades go before the new one comes.
Pushed(window, trade) == Append(Evict(window, Minus(trade.at, WINDOW)), trade)

\* The sum of f over S, as the number of units it is made of.
SumOver(S, f) == Cardinality(UNION {{x} \X (1 .. f[x]) : x \in S})

\* What was traded at some of the places of a window.
Volume(window, places) ==
  SumOver(places, [i \in DOMAIN window |-> window[i].size])

\* Place i comes before j when the window is sorted by price.
Sooner(window, i, j) ==
  \/ window[i].price < window[j].price
  \/ window[i].price = window[j].price /\ i < j

\* The places of the sorted window, up to place k.
Walked(window, k) == {i \in DOMAIN window : i = k \/ Sooner(window, i, k)}

\* The places at which half of the volume is reached.
Reached(window) ==
  {k \in DOMAIN window : 2 * Volume(window, Walked(window, k))
                           >= Volume(window, DOMAIN window)}

\* Mutation: the median of the trades, whatever their volume.
VwmpByCount(window) ==
  LET half == {k \in DOMAIN window :
                 2 * Cardinality(Walked(window, k)) >= Len(window)}
      k    == CHOOSE n \in half : \A m \in half \ {n} : Sooner(window, n, m)
  IN  window[k].price

\* Walk the trades by price until half of the volume is reached.
Vwmp(window) ==
  LET reached == Reached(window)
      k == CHOOSE n \in reached : \A m \in reached \ {n} : Sooner(window, n, m)
  IN  window[k].price

\* Mutation: a silent exchange is never stale.
NeverStale(window, now) == window = <<>>

\* Mutation: the age of the window is that of its oldest trade.
OldestDecides(window, now) ==
  window = <<>> \/ Minus(now, window[1].at) > STALE

\* Nothing yet, or the last trade too long ago; a trade stamped after now is
\* not old.
IsStale(window, now) ==
  window = <<>> \/ Minus(now, Last(window).at) > STALE

-----------------------------------------------------------------------------
(* ReconstructorEngine::ingest and the service loop. *)

Live(all, now) == {e \in Exchanges : ~IsStale(all[e], now)}

\* What is published from the windows: an estimate, or none with too few live
\* exchanges.
Publish(all, now) ==
  LET live == Live(all, now)
  IN  IF Cardinality(live) < MIN_EXCHANGES THEN {}
      ELSE {[sum   |-> SumOver(live, [e \in live |-> Vwmp(all[e])]),
             count |-> Cardinality(live), at |-> now]}

Take ==
  /\ trades # <<>>
  /\ trades' = Tail(trades)
  /\ LET trade == Head(trades)
         e     == trade.exchange
     IN  /\ windows' = [windows EXCEPT ![e] = Pushed(@, trade)]
         /\ taken' = [taken EXCEPT ![e] = Append(@, trade)]
         /\ asOf' = trade.at
         /\ latest' = Publish(windows', trade.at)
  /\ \/ latest' = {} /\ UNCHANGED index
     \/ \E estimate \in latest' :
          index' = Offered(index, estimate, IndexCapacity)
  /\ UNCHANGED <<clock, inHand, channel>>

\* The signal service, at its own pace.
Pop ==
  /\ index # <<>>
  /\ index' = Tail(index)
  /\ UNCHANGED <<clock, inHand, channel, trades, windows, taken, asOf, latest>>

Next ==
  \/ Pass \/ Merge \/ Take \/ Pop
  \/ \E e \in Exchanges : Receive(e) \/ Send(e)

Spec == Init /\ [][Next]_vars

-----------------------------------------------------------------------------
(* Correctness. *)

\* A window holds the trades of its exchange that are within the span before
\* its newest one, all of them and no other, although only the front is
\* evicted and the trades of a message share a stamp: the trades that are too
\* old come first, and the window is the rest.  (window.rs 15-27)
WindowIsExact ==
  \A e \in Exchanges : taken[e] # <<>> =>
    \E old \in 0 .. Len(taken[e]) - 1 :
      /\ windows[e] = SubSeq(taken[e], old + 1, Len(taken[e]))
      /\ \A i \in DOMAIN taken[e] :
           i > old <=> taken[e][i].at >= Last(taken[e]).at - WINDOW

\* The price of a window is its weighted median: half of the volume or more
\* was traded at or below it, and half or more at or above.  (window.rs 29-56)
VwmpIsMedian ==
  \A e \in Exchanges : windows[e] # <<>> =>
    LET price == Vwmp(windows[e])
        sizes == [i \in DOMAIN windows[e] |-> windows[e][i].size]
        below == {i \in DOMAIN windows[e] : windows[e][i].price <= price}
        above == {i \in DOMAIN windows[e] : windows[e][i].price >= price}
        all   == SumOver(DOMAIN windows[e], sizes)
    IN  2 * SumOver(below, sizes) >= all /\ 2 * SumOver(above, sizes) >= all

\* An estimate is published when the minimum of exchanges has a newest trade
\* that is fresh at its time, and only then, and it counts all of those: an
\* exchange that fell silent is left out, one that is ahead is not.
\* (engine.rs 42-64)
QuorumIsFresh ==
  LET fresh == {e \in Exchanges : /\ taken[e] # <<>>
                                  /\ Last(taken[e]).at >= asOf - STALE}
  IN  {estimate.count : estimate \in latest} =
        IF Cardinality(fresh) < MIN_EXCHANGES THEN {} ELSE {Cardinality(fresh)}

\* However long an exchange is silent, and although its window is only
\* trimmed by its own trades, no trade older than the span and the staleness
\* together bears on an estimate: it lies between the lowest and the highest
\* price since.  (engine.rs 42-64, window.rs 15-27)
IndexFromRecentTrades ==
  \A estimate \in latest :
    LET all    == UNION {Range(taken[e]) : e \in Exchanges}
        recent == {t.price : t \in {x \in all :
                     x.at >= estimate.at - WINDOW - STALE}}
    IN  /\ estimate.sum >= estimate.count * Min(recent)
        /\ estimate.sum <= estimate.count * Max(recent)
=============================================================================
