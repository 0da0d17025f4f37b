------------------------- MODULE ReconstructorProofs ------------------------
(***************************************************************************)
(* The types, the quorum of an estimate, the contents of the windows, their  *)
(* medians, and the trades that bear on an estimate, for any number of        *)
(* exchanges, spans, queues, prices and volumes.                             *)
(***************************************************************************)
EXTENDS Reconstructor, RollingWindowProofs, FiniteSetTheorems

\* Everything under way is a trade.
Flow ==
  /\ clock \in 0 .. MaxClock
  /\ inHand \in [Exchanges -> Seq(Trades)]
  /\ channel \in Seq(Trades) /\ trades \in Seq(Trades)
  /\ windows \in [Exchanges -> Seq(Trades)]
  /\ taken \in [Exchanges -> Seq(Trades)]
  /\ asOf \in 0 .. MaxClock

\* Eviction never touches the newest trade of a window, so a window knows how
\* fresh its exchange is; the last estimate is that of the present windows.
Newest ==
  \A e \in Exchanges :
    /\ windows[e] = <<>> <=> taken[e] = <<>>
    /\ taken[e] # <<>> => Last(windows[e]) = Last(taken[e])

QuorumInv == Flow /\ Newest /\ latest = Publish(windows, asOf)

-----------------------------------------------------------------------------
\* What is offered to a queue of trades leaves a queue of trades.
LEMMA OfferedType ==
  ASSUME NEW queue \in Seq(Trades), NEW item \in Trades, NEW capacity \in Nat
  PROVE  Offered(queue, item, capacity) \in Seq(Trades)
BY DEF Offered

\* The first of a queue of trades is a trade, and the rest is one of trades.
LEMMA QueueType ==
  ASSUME NEW queue \in Seq(Trades), queue # <<>>
  PROVE  Head(queue) \in Trades /\ Tail(queue) \in Seq(Trades)
OBVIOUS

\* A trade that is pushed is the newest of its window.  (window.rs 15-27)
LEMMA PushedIsNewest ==
  ASSUME NEW window \in Seq(Trades), NEW trade \in Trades
  PROVE  /\ Pushed(window, trade) \in Seq(Trades)
         /\ Pushed(window, trade) # <<>>
         /\ Last(Pushed(window, trade)) = trade
<1>1. trade.at \in Nat /\ \A x \in Trades : x.at \in Nat
  BY ReconstructorAssumption DEF Trades
<1>2. Minus(trade.at, WINDOW) \in Nat
  BY <1>1, ReconstructorAssumption DEF Minus
<1> DEFINE kept == Evict(window, Minus(trade.at, WINDOW))
<1>3. kept \in Seq(Trades)
  BY <1>1, <1>2, EvictKeepsNewest
<1>4. Pushed(window, trade) = Append(kept, trade)
  BY DEF Pushed
<1> HIDE DEF kept
<1> QED BY <1>3, <1>4 DEF Last

-----------------------------------------------------------------------------
\* With the windows empty nothing is live, and nothing is published.
LEMMA InitQuorum == Init => QuorumInv
<1> SUFFICES ASSUME Init PROVE QuorumInv
  OBVIOUS
<1>1. Flow /\ Newest
  BY ReconstructorAssumption DEF Init, Flow, Newest
<1>2. Live(windows, asOf) = {}
  BY DEF Init, Live, IsStale
<1>3. Cardinality(Live(windows, asOf)) = 0
  BY <1>2, FS_EmptySet
<1>4. Cardinality(Live(windows, asOf)) < MIN_EXCHANGES
  BY <1>3, ReconstructorAssumption
<1>5. latest = Publish(windows, asOf)
  BY <1>4 DEF Init, Publish
<1> QED BY <1>1, <1>5 DEF QuorumInv

\* Taking a trade changes its own window only, and publishes.
LEMMA TakeQuorum == QuorumInv /\ Take => QuorumInv'
<1> SUFFICES ASSUME QuorumInv, Take PROVE QuorumInv'
  OBVIOUS
<1> DEFINE trade == Head(trades)
           e == trade.exchange
<1>1. trade \in Trades /\ trades' \in Seq(Trades)
  BY QueueType DEF Take, QuorumInv, Flow
<1>2. e \in Exchanges /\ trade.at \in 0 .. MaxClock
  BY <1>1 DEF Trades
<1>3. /\ windows' = [windows EXCEPT ![e] = Pushed(windows[e], trade)]
      /\ taken' = [taken EXCEPT ![e] = Append(taken[e], trade)]
      /\ asOf' = trade.at
      /\ latest' = Publish(windows', trade.at)
      /\ UNCHANGED <<clock, inHand, channel>>
  BY DEF Take
<1> HIDE DEF trade, e
<1>4. /\ windows[e] \in Seq(Trades) /\ taken[e] \in Seq(Trades)
  BY <1>2 DEF QuorumInv, Flow
<1>5. /\ Pushed(windows[e], trade) \in Seq(Trades)
      /\ Pushed(windows[e], trade) # <<>>
      /\ Last(Pushed(windows[e], trade)) = trade
  BY <1>1, <1>4, PushedIsNewest
<1>6. /\ Append(taken[e], trade) \in Seq(Trades)
      /\ Append(taken[e], trade) # <<>>
      /\ Last(Append(taken[e], trade)) = trade
  BY <1>1, <1>4 DEF Last
<1>7. Flow'
  BY <1>1, <1>2, <1>3, <1>5, <1>6 DEF QuorumInv, Flow
<1>8. Newest'
  <2> SUFFICES ASSUME NEW x \in Exchanges
               PROVE  /\ windows'[x] = <<>> <=> taken'[x] = <<>>
                      /\ taken'[x] # <<>> => Last(windows'[x]) = Last(taken'[x])
    BY DEF Newest
  <2>1. CASE x = e
    <3>1. /\ windows'[x] = Pushed(windows[e], trade)
          /\ taken'[x] = Append(taken[e], trade)
      BY <1>2, <1>3, <2>1 DEF QuorumInv, Flow
    <3> QED BY <3>1, <1>5, <1>6
  <2>2. CASE x # e
    <3>1. windows'[x] = windows[x] /\ taken'[x] = taken[x]
      BY <1>2, <1>3, <2>2 DEF QuorumInv, Flow
    <3> QED BY <3>1 DEF QuorumInv, Newest
  <2> QED BY <2>1, <2>2
<1> QED BY <1>3, <1>7, <1>8 DEF QuorumInv

\* What is not taken does not touch the windows.
LEMMA FlowKeepsQuorum ==
  QuorumInv /\ [Next]_vars /\ ~Take => QuorumInv'
<1> SUFFICES ASSUME QuorumInv, [Next]_vars, ~Take PROVE QuorumInv'
  OBVIOUS
<1> USE DEF QuorumInv
<1> SUFFICES Flow' /\ UNCHANGED <<windows, taken, asOf, latest>>
  BY DEF Newest
<1>1. CASE Pass
  BY <1>1, ReconstructorAssumption DEF Pass, Flow
<1>2. CASE Merge
  <2>1. Head(channel) \in Trades /\ Tail(channel) \in Seq(Trades)
    BY <1>2, QueueType DEF Merge, Flow
  <2>2. Offered(trades, Head(channel), TradeCapacity) \in Seq(Trades)
    BY <2>1, OfferedType, ReconstructorAssumption DEF Flow
  <2> QED BY <1>2, <2>1, <2>2 DEF Merge, Flow
<1>3. CASE Pop
  BY <1>3 DEF Pop, Flow
<1>4. ASSUME NEW e \in Exchanges, Receive(e)
      PROVE  Flow' /\ UNCHANGED <<windows, taken, asOf, latest>>
  <2>1. PICK n \in 1 .. MaxMessage :
          \E message \in [1 .. n -> [exchange: {e}, price: Prices,
                                     size: Sizes, at: {clock}]] :
            inHand' = [inHand EXCEPT ![e] = message]
    BY <1>4 DEF Receive
  <2>2. PICK message \in [1 .. n -> [exchange: {e}, price: Prices,
                                     size: Sizes, at: {clock}]] :
            inHand' = [inHand EXCEPT ![e] = message]
    BY <2>1
  <2>3. [exchange: {e}, price: Prices, size: Sizes, at: {clock}] \subseteq Trades
    BY DEF Trades, Flow
  <2>4. message \in Seq(Trades)
    BY <2>2, <2>3, ReconstructorAssumption
  <2> QED BY <1>4, <2>2, <2>4 DEF Receive, Flow
<1>5. ASSUME NEW e \in Exchanges, Send(e)
      PROVE  Flow' /\ UNCHANGED <<windows, taken, asOf, latest>>
  <2>1. Head(inHand[e]) \in Trades /\ Tail(inHand[e]) \in Seq(Trades)
    BY <1>5, QueueType DEF Send, Flow
  <2>2. Offered(channel, Head(inHand[e]), ChannelCapacity) \in Seq(Trades)
    BY <2>1, OfferedType, ReconstructorAssumption DEF Flow
  <2> QED BY <1>5, <2>1, <2>2 DEF Send, Flow
<1>6. CASE UNCHANGED vars
  BY <1>6 DEF vars, Flow
<1> QED BY <1>1, <1>2, <1>3, <1>4, <1>5, <1>6 DEF Next

-----------------------------------------------------------------------------
\* An exchange is live when its newest trade is fresh: saturation makes no
\* difference to a trade stamped after the one that publishes.  (engine.rs
\* 43-49, window.rs 58-69)
LEMMA LiveIsFresh ==
  ASSUME QuorumInv
  PROVE  Live(windows, asOf) =
           {e \in Exchanges : /\ taken[e] # <<>>
                              /\ Last(taken[e]).at >= asOf - STALE}
<1> SUFFICES ASSUME NEW e \in Exchanges
             PROVE  ~IsStale(windows[e], asOf) <=>
                      taken[e] # <<>> /\ Last(taken[e]).at >= asOf - STALE
  BY DEF Live
<1>1. CASE taken[e] = <<>>
  BY <1>1 DEF QuorumInv, Newest, IsStale
<1>2. CASE taken[e] # <<>>
  <2>1. taken[e] \in Seq(Trades)
    BY DEF QuorumInv, Flow
  <2>2. Last(taken[e]) \in Trades
    BY <1>2, <2>1 DEF Last
  <2>3. Last(taken[e]).at \in Nat /\ asOf \in Nat /\ STALE \in Nat
    BY <2>2, ReconstructorAssumption DEF Trades, QuorumInv, Flow
  <2>4. windows[e] # <<>> /\ Last(windows[e]) = Last(taken[e])
    BY <1>2 DEF QuorumInv, Newest
  <2>5. Minus(asOf, Last(taken[e]).at) > STALE
          <=> Last(taken[e]).at < asOf - STALE
    BY <2>3 DEF Minus
  <2> QED BY <1>2, <2>3, <2>4, <2>5 DEF IsStale
<1> QED BY <1>1, <1>2

\* An estimate is published exactly when the quorum is fresh, and counts all
\* of it, for any number of exchanges.  (engine.rs 42-64)
THEOREM Quorum == Spec => []QuorumIsFresh
<1>1. QuorumInv /\ [Next]_vars => QuorumInv'
  BY TakeQuorum, FlowKeepsQuorum
<1>2. QuorumInv => QuorumIsFresh
  <2> SUFFICES ASSUME QuorumInv PROVE QuorumIsFresh
    OBVIOUS
  <2> DEFINE n == Cardinality(Live(windows, asOf))
  <2>1. CASE n < MIN_EXCHANGES
    <3>1. latest = {}
      BY <2>1 DEF QuorumInv, Publish
    <3> QED BY <2>1, <3>1, LiveIsFresh DEF QuorumIsFresh
  <2>2. CASE ~(n < MIN_EXCHANGES)
    <3>1. PICK sum :
            latest = {[sum |-> sum, count |-> n, at |-> asOf]}
      BY <2>2 DEF QuorumInv, Publish
    <3> HIDE DEF n
    <3>2. {estimate.count : estimate \in latest} = {n}
      BY <3>1
    <3> QED BY <2>2, <3>2, LiveIsFresh DEF QuorumIsFresh, n
  <2> QED BY <2>1, <2>2
<1> QED BY InitQuorum, <1>1, <1>2, PTL DEF Spec

-----------------------------------------------------------------------------
(* The order of the stamps. *)

\* One trade is not stamped after another of its exchange.
NotAfter(x, y) == x.exchange = y.exchange => x.at <= y.at

\* Every trade of one queue was stamped before those of its exchange in another.
Before(s, t) == \A x \in Range(s), y \in Range(t) : NotAfter(x, y)

Rising(s) == \A i, j \in DOMAIN s : i < j => NotAfter(s[i], s[j])

\* Each queue keeps the order of the stamps of an exchange, and so do they in
\* a row: what the reconstructor has taken, the ring, the channel and what the
\* feed has in hand.
Ordered ==
  /\ Rising(trades) /\ Rising(channel) /\ Before(trades, channel)
  /\ \A e \in Exchanges :
       /\ Rising(taken[e]) /\ Rising(inHand[e])
       /\ Before(taken[e], trades) /\ Before(taken[e], channel)
       /\ Before(taken[e], inHand[e])
       /\ Before(trades, inHand[e]) /\ Before(channel, inHand[e])

\* Nothing is stamped in the future, and the trades of a feed are its own.
Stamped ==
  /\ \A x \in Range(trades) \cup Range(channel) : x.at <= clock
  /\ \A e \in Exchanges : \A x \in Range(taken[e]) \cup Range(inHand[e]) :
       x.exchange = e /\ x.at <= clock

OrderInv == QuorumInv /\ Ordered /\ Stamped

\* What a queue holds when its head is taken or a trade is added to it.
LEMMA RangeOfTrades ==
  ASSUME NEW queue \in Seq(Trades)
  PROVE  /\ \A i \in DOMAIN queue : queue[i] \in Range(queue)
         /\ \A item \in Trades :
              Range(Append(queue, item)) = Range(queue) \cup {item}
         /\ queue # <<>> => /\ Head(queue) \in Range(queue)
                            /\ Range(Tail(queue)) \subseteq Range(queue)
BY RangeOfQueue

\* The first trade of a queue in order is not after the rest, which is in
\* order, and a trade that is not before the others may be added.
LEMMA RisingQueue ==
  ASSUME NEW queue \in Seq(Trades), Rising(queue)
  PROVE  /\ queue # <<>> => /\ Rising(Tail(queue))
                            /\ Before(<<Head(queue)>>, Tail(queue))
         /\ \A item \in Trades :
              Before(queue, <<item>>) => Rising(Append(queue, item))
<1>1. ASSUME queue # <<>> PROVE Rising(Tail(queue))
  <2>1. /\ Len(Tail(queue)) = Len(queue) - 1
        /\ \A i \in 1 .. Len(Tail(queue)) : Tail(queue)[i] = queue[i + 1]
    BY <1>1
  <2> QED BY <1>1, <2>1 DEF Rising
<1>2. ASSUME queue # <<>> PROVE Before(<<Head(queue)>>, Tail(queue))
  <2>1. \A i \in DOMAIN Tail(queue) : NotAfter(queue[1], Tail(queue)[i])
    BY <1>2 DEF Rising
  <2>2. Range(<<Head(queue)>>) = {queue[1]}
    BY <1>2 DEF Range
  <2> QED BY <2>1, <2>2 DEF Before, Range
<1>3. ASSUME NEW item \in Trades, Before(queue, <<item>>)
      PROVE  Rising(Append(queue, item))
  <2> DEFINE longer == Append(queue, item)
  <2>1. /\ DOMAIN longer = 1 .. Len(queue) + 1
        /\ \A i \in 1 .. Len(queue) : longer[i] = queue[i]
        /\ longer[Len(queue) + 1] = item
    OBVIOUS
  <2>2. \A i \in 1 .. Len(queue) : NotAfter(queue[i], item)
    BY <1>3 DEF Before, Range
  <2> HIDE DEF longer
  <2>3. \A i, j \in 1 .. Len(queue) + 1 : i < j =>
          i \in 1 .. Len(queue) /\ (j \in 1 .. Len(queue) \/ j = Len(queue) + 1)
    OBVIOUS
  <2>4. Rising(longer)
    BY <2>1, <2>2, <2>3 DEF Rising
  <2> QED BY <2>4 DEF longer
<1> QED BY <1>1, <1>2, <1>3

\* The same of what an item is offered to.
LEMMA OfferedOrder ==
  ASSUME NEW queue \in Seq(Trades), NEW item \in Trades, NEW capacity \in Nat,
         Rising(queue), Before(queue, <<item>>)
  PROVE  /\ Rising(Offered(queue, item, capacity))
         /\ Range(Offered(queue, item, capacity)) \subseteq
              Range(queue) \cup {item}
BY RisingQueue, RangeOfTrades DEF Offered

\* Nothing is under way at first.
LEMMA InitOrder == Init => Ordered /\ Stamped
<1> SUFFICES ASSUME Init PROVE Ordered /\ Stamped
  OBVIOUS
<1>1. Range(<<>>) = {}
  BY DEF Range
<1>2. Rising(<<>>)
  BY DEF Rising
<1> QED BY <1>1, <1>2 DEF Init, Ordered, Stamped, Before

\* The trades of a message have one stamp, the present.
LEMMA ReceiveOrder ==
  ASSUME OrderInv, NEW e \in Exchanges, Receive(e)
  PROVE  Ordered' /\ Stamped'
<1>1. PICK n \in 1 .. MaxMessage :
        \E message \in [1 .. n -> [exchange: {e}, price: Prices,
                                   size: Sizes, at: {clock}]] :
          inHand' = [inHand EXCEPT ![e] = message]
  BY DEF Receive
<1>2. PICK message \in [1 .. n -> [exchange: {e}, price: Prices,
                                   size: Sizes, at: {clock}]] :
          inHand' = [inHand EXCEPT ![e] = message]
  BY <1>1
<1>3. \A x \in Range(message) : x.exchange = e /\ x.at = clock
  BY <1>2 DEF Range
<1>4. \A i \in DOMAIN message : message[i] \in Range(message)
  BY DEF Range
<1>5. clock \in Nat
  BY ReconstructorAssumption DEF OrderInv, QuorumInv, Flow
<1>6. Rising(message)
  BY <1>3, <1>4, <1>5 DEF Rising, NotAfter
<1>7. UNCHANGED <<clock, channel, trades, taken>>
  BY DEF Receive
<1>8. \A x \in Exchanges : inHand'[x] = IF x = e THEN message ELSE inHand[x]
  BY <1>2 DEF OrderInv, QuorumInv, Flow
<1> HIDE DEF Range
<1>9. Ordered'
  <2>1. \A x \in Exchanges : Rising(inHand'[x])
    BY <1>6, <1>8 DEF OrderInv, Ordered
  <2>2. ASSUME NEW x \in Exchanges
        PROVE  /\ Before(taken[x], inHand'[x])
               /\ Before(trades, inHand'[x]) /\ Before(channel, inHand'[x])
    <3>1. CASE x = e
      BY <1>3, <1>8, <3>1 DEF OrderInv, Stamped, Before, NotAfter
    <3>2. CASE x # e
      BY <1>8, <3>2 DEF OrderInv, Ordered
    <3> QED BY <3>1, <3>2
  <2> QED BY <1>7, <2>1, <2>2 DEF OrderInv, Ordered
<1>10. Stamped'
  BY <1>3, <1>5, <1>7, <1>8 DEF OrderInv, Stamped
<1> QED BY <1>9, <1>10

\* A feed offers the first trade it has in hand to the channel.
LEMMA SendOrder ==
  ASSUME OrderInv, NEW e \in Exchanges, Send(e)
  PROVE  Ordered' /\ Stamped'
<1> DEFINE trade == Head(inHand[e])
           rest  == Tail(inHand[e])
<1>1. /\ inHand[e] \in Seq(Trades) /\ inHand[e] # <<>>
      /\ channel \in Seq(Trades)
  BY DEF OrderInv, QuorumInv, Flow, Send
<1>2. /\ channel' = Offered(channel, trade, ChannelCapacity)
      /\ UNCHANGED <<clock, trades, taken>>
      /\ \A x \in Exchanges : inHand'[x] = IF x = e THEN rest ELSE inHand[x]
  BY DEF Send, OrderInv, QuorumInv, Flow
<1>3. /\ trade \in Trades /\ trade \in Range(inHand[e])
      /\ Range(rest) \subseteq Range(inHand[e])
      /\ Rising(rest) /\ Before(<<trade>>, rest)
  BY <1>1, QueueType, RangeOfTrades, RisingQueue DEF OrderInv, Ordered
<1> HIDE DEF trade, rest
<1>4. Range(<<trade>>) = {trade}
  BY DEF Range
<1>5. Before(channel, <<trade>>)
  BY <1>3, <1>4 DEF OrderInv, Ordered, Before
<1>6. Rising(channel') /\ Range(channel') \subseteq Range(channel) \cup {trade}
  BY <1>1, <1>2, <1>3, <1>5, OfferedOrder, ReconstructorAssumption
     DEF OrderInv, Ordered
<1>7. trade.exchange = e /\ trade.at <= clock
  BY <1>3 DEF OrderInv, Stamped
<1>8. Ordered'
  <2>1. Before(trades, channel')
    BY <1>3, <1>6 DEF OrderInv, Ordered, Before
  <2>2. ASSUME NEW x \in Exchanges
        PROVE  /\ Rising(inHand'[x])
               /\ Before(taken[x], channel') /\ Before(taken[x], inHand'[x])
               /\ Before(trades, inHand'[x]) /\ Before(channel', inHand'[x])
    <3>1. Range(inHand'[x]) \subseteq Range(inHand[x]) /\ Rising(inHand'[x])
      BY <1>2, <1>3 DEF OrderInv, Ordered
    <3>2. Before(taken[x], inHand'[x]) /\ Before(trades, inHand'[x])
      BY <3>1 DEF OrderInv, Ordered, Before
    <3>3. ASSUME NEW y \in Range(taken[x]) PROVE NotAfter(y, trade)
      <4>1. CASE x = e
        BY <1>3, <3>3, <4>1 DEF OrderInv, Ordered, Before
      <4>2. CASE x # e
        BY <1>7, <3>3, <4>2 DEF OrderInv, Stamped, NotAfter
      <4> QED BY <4>1, <4>2
    <3>4. Before(taken[x], channel')
      BY <1>6, <3>3 DEF OrderInv, Ordered, Before
    <3>5. ASSUME NEW y \in Range(inHand'[x]) PROVE NotAfter(trade, y)
      <4>1. CASE x = e
        BY <1>2, <1>3, <1>4, <3>5, <4>1 DEF Before
      <4>2. CASE x # e
        BY <1>7, <3>1, <3>5, <4>2 DEF OrderInv, Stamped, NotAfter
      <4> QED BY <4>1, <4>2
    <3>6. Before(channel', inHand'[x])
      BY <1>6, <3>1, <3>5 DEF OrderInv, Ordered, Before
    <3> QED BY <3>1, <3>2, <3>4, <3>6
  <2> QED BY <1>2, <1>6, <2>1, <2>2 DEF OrderInv, Ordered
<1>9. Stamped'
  BY <1>2, <1>3, <1>6, <1>7 DEF OrderInv, Stamped
<1> QED BY <1>8, <1>9

\* The merger offers the first trade of the channel to the ring.
LEMMA MergeOrder ==
  ASSUME OrderInv, Merge
  PROVE  Ordered' /\ Stamped'
<1> DEFINE trade == Head(channel)
<1>1. channel \in Seq(Trades) /\ channel # <<>> /\ trades \in Seq(Trades)
  BY DEF OrderInv, QuorumInv, Flow, Merge
<1>2. /\ trades' = Offered(trades, trade, TradeCapacity)
      /\ channel' = Tail(channel)
      /\ UNCHANGED <<clock, inHand, taken>>
  BY DEF Merge
<1>3. /\ trade \in Trades /\ trade \in Range(channel)
      /\ Range(channel') \subseteq Range(channel)
      /\ Rising(channel') /\ Before(<<trade>>, channel')
  BY <1>1, <1>2, QueueType, RangeOfTrades, RisingQueue DEF OrderInv, Ordered
<1> HIDE DEF trade
<1>4. Range(<<trade>>) = {trade}
  BY DEF Range
<1>5. Before(trades, <<trade>>)
  BY <1>3, <1>4 DEF OrderInv, Ordered, Before
<1>6. Rising(trades') /\ Range(trades') \subseteq Range(trades) \cup {trade}
  BY <1>1, <1>2, <1>3, <1>5, OfferedOrder, ReconstructorAssumption
     DEF OrderInv, Ordered
<1>7. Before(trades', channel')
  BY <1>3, <1>4, <1>6 DEF OrderInv, Ordered, Before
<1>8. ASSUME NEW x \in Exchanges
      PROVE  /\ Before(taken[x], trades') /\ Before(taken[x], channel')
             /\ Before(trades', inHand[x]) /\ Before(channel', inHand[x])
  BY <1>3, <1>6 DEF OrderInv, Ordered, Before
<1> QED BY <1>2, <1>3, <1>6, <1>7, <1>8 DEF OrderInv, Ordered, Stamped

\* The reconstructor takes the first trade of the ring.
LEMMA TakeOrder ==
  ASSUME OrderInv, Take
  PROVE  Ordered' /\ Stamped'
<1> DEFINE trade == Head(trades)
           e == trade.exchange
<1>1. trades \in Seq(Trades) /\ trades # <<>>
  BY DEF OrderInv, QuorumInv, Flow, Take
<1>2. /\ trades' = Tail(trades) /\ UNCHANGED <<clock, inHand, channel>>
      /\ taken' = [taken EXCEPT ![e] = Append(taken[e], trade)]
  BY DEF Take
<1>3. /\ trade \in Trades /\ trade \in Range(trades)
      /\ Range(trades') \subseteq Range(trades)
      /\ Rising(trades') /\ Before(<<trade>>, trades')
  BY <1>1, <1>2, QueueType, RangeOfTrades, RisingQueue DEF OrderInv, Ordered
<1>4. e \in Exchanges
  BY <1>3 DEF Trades
<1>5. trade.exchange = e
  OBVIOUS
<1> HIDE DEF trade, e
<1>6. Range(<<trade>>) = {trade}
  BY DEF Range
<1>7. taken[e] \in Seq(Trades) /\ Before(taken[e], <<trade>>)
  BY <1>3, <1>4, <1>6 DEF OrderInv, Ordered, Before, QuorumInv, Flow
<1>8. /\ Rising(Append(taken[e], trade))
      /\ Range(Append(taken[e], trade)) = Range(taken[e]) \cup {trade}
  BY <1>3, <1>4, <1>7, RisingQueue, RangeOfTrades DEF OrderInv, Ordered
<1>9. \A x \in Exchanges :
        taken'[x] = IF x = e THEN Append(taken[e], trade) ELSE taken[x]
  BY <1>2, <1>4 DEF OrderInv, QuorumInv, Flow
<1>10. trade.at <= clock
  BY <1>3 DEF OrderInv, Stamped
<1>11. ASSUME NEW x \in Exchanges
       PROVE  /\ Rising(taken'[x])
              /\ Before(taken'[x], trades') /\ Before(taken'[x], channel)
              /\ Before(taken'[x], inHand[x]) /\ Before(trades', inHand[x])
              /\ \A y \in Range(taken'[x]) : y.exchange = x /\ y.at <= clock
  <2>1. CASE x = e
    <3>1. taken'[x] = Append(taken[e], trade)
      BY <1>9, <2>1
    <3>2. Range(taken'[x]) = Range(taken[e]) \cup {trade}
      BY <1>8, <3>1
    <3>3. /\ Before(taken[e], trades) /\ Before(taken[e], channel)
          /\ Before(taken[e], inHand[e]) /\ Before(trades, inHand[e])
          /\ Before(trades, channel)
      BY <1>4 DEF OrderInv, Ordered
    <3>4. \A y \in Range(trades') : NotAfter(trade, y)
      BY <1>3, <1>6 DEF Before
    <3>5. /\ Before(taken'[x], trades') /\ Before(taken'[x], channel)
          /\ Before(taken'[x], inHand[x]) /\ Before(trades', inHand[x])
      BY <1>3, <2>1, <3>2, <3>3, <3>4 DEF Before
    <3>6. \A y \in Range(taken'[x]) : y.exchange = x /\ y.at <= clock
      BY <1>4, <1>10, <2>1, <3>2, <1>5 DEF OrderInv, Stamped
    <3> QED BY <1>8, <3>1, <3>5, <3>6
  <2>2. CASE x # e
    <3>1. taken'[x] = taken[x]
      BY <1>9, <2>2
    <3> QED BY <1>3, <3>1 DEF OrderInv, Ordered, Before, Stamped
  <2> QED BY <2>1, <2>2
<1>12. Before(trades', channel)
  BY <1>3 DEF OrderInv, Ordered, Before
<1> QED BY <1>2, <1>3, <1>11, <1>12 DEF OrderInv, Ordered, Stamped

\* Every step keeps the order: time only makes the stamps older.
LEMMA OrderStep == OrderInv /\ [Next]_vars => OrderInv'
<1> SUFFICES ASSUME OrderInv, [Next]_vars PROVE OrderInv'
  OBVIOUS
<1>1. QuorumInv'
  BY TakeQuorum, FlowKeepsQuorum DEF OrderInv
<1>2. CASE Pass
  <2>1. /\ clock' >= clock /\ clock \in Nat /\ clock' \in Nat
        /\ UNCHANGED <<inHand, channel, trades, taken>>
    BY <1>2, ReconstructorAssumption DEF Pass, OrderInv, QuorumInv, Flow
  <2>2. Stamped'
    <3>1. ASSUME NEW x \in Trades, x.at <= clock PROVE x.at <= clock'
      <4>1. x.at \in Nat
        BY ReconstructorAssumption DEF Trades
      <4> QED BY <2>1, <3>1, <4>1
    <3>2. \A q \in Seq(Trades) : Range(q) \subseteq Trades
      BY DEF Range
    <3>3. /\ Range(trades) \cup Range(channel) \subseteq Trades
          /\ \A e \in Exchanges :
               Range(taken[e]) \cup Range(inHand[e]) \subseteq Trades
      BY <3>2 DEF OrderInv, QuorumInv, Flow
    <3> QED BY <2>1, <3>1, <3>3 DEF OrderInv, Stamped
  <2> QED BY <1>1, <2>1, <2>2 DEF OrderInv, Ordered
<1>3. CASE Pop \/ UNCHANGED vars
  BY <1>1, <1>3 DEF Pop, vars, OrderInv, Ordered, Stamped
<1> QED BY <1>1, <1>2, <1>3, ReceiveOrder, SendOrder, MergeOrder, TakeOrder
        DEF Next, OrderInv

-----------------------------------------------------------------------------
(* The windows. *)

\* A window that holds what is recent of a queue in order holds, after the next
\* trade is pushed, what is recent of the longer queue.  (window.rs 15-27)
LEMMA PushedIsExact ==
  ASSUME NEW all \in Seq(Trades), all # <<>>, NEW old \in 0 .. Len(all) - 1,
         \A i \in DOMAIN all : i > old <=> all[i].at >= Last(all).at - WINDOW,
         NEW trade \in Trades, \A i \in DOMAIN all : all[i].at <= trade.at,
         \A i, j \in DOMAIN all : i < j => all[i].at <= all[j].at
  PROVE  \E k \in 0 .. Len(all) :
           /\ Pushed(SubSeq(all, old + 1, Len(all)), trade) =
                SubSeq(Append(all, trade), k + 1, Len(all) + 1)
           /\ \A i \in DOMAIN Append(all, trade) :
                i > k <=> Append(all, trade)[i].at >= trade.at - WINDOW
<1>1. /\ \A x \in Trades : x.at \in Nat
      /\ \A i \in 1 .. Len(all) : all[i] \in Trades /\ all[i].at \in Nat
      /\ trade.at \in Nat /\ WINDOW \in Nat /\ Len(all) \in Nat \ {0}
  <2>1. \A x \in Trades : x.at \in Nat
    BY ReconstructorAssumption DEF Trades
  <2>2. /\ \A i \in 1 .. Len(all) : all[i] \in Trades
        /\ Len(all) \in Nat \ {0}
    OBVIOUS
  <2> QED BY <2>1, <2>2, ReconstructorAssumption
<1> DEFINE n == Len(all)
           window == SubSeq(all, old + 1, n)
           cutoff == Minus(trade.at, WINDOW)
           longer == Append(all, trade)
<1>2. /\ cutoff \in Nat
      /\ \A m \in Nat : m >= cutoff <=> m >= trade.at - WINDOW
  BY <1>1 DEF Minus
<1>3. /\ window \in Seq(Trades) /\ Len(window) = n - old
      /\ \A i \in 1 .. n - old : window[i] = all[old + i]
  BY <1>1
<1>4. /\ longer \in Seq(Trades) /\ DOMAIN longer = 1 .. n + 1
      /\ \A i \in 1 .. n : longer[i] = all[i]
      /\ longer[n + 1] = trade
  OBVIOUS
<1>5. /\ all[n].at <= trade.at /\ Last(all) = all[n] /\ n \in DOMAIN all
      /\ n \in Nat \ {0} /\ DOMAIN all = 1 .. n
  BY <1>1 DEF Last
<1> HIDE DEF cutoff, window
<1>6. PICK gone \in 0 .. Len(window) :
        /\ Evict(window, cutoff) = SubSeq(window, gone + 1, Len(window))
        /\ \A i \in 1 .. gone : window[i].at < cutoff
        /\ gone < Len(window) => window[gone + 1].at >= cutoff
  BY <1>1, <1>2, <1>3, EvictDropsFront
<1> DEFINE k == old + gone
<1>7. k \in 0 .. n /\ k = old + gone /\ gone \in 0 .. n - old
  BY <1>1, <1>3, <1>6
<1>8. Pushed(window, trade) = SubSeq(longer, k + 1, n + 1)
  <2> DEFINE left == SubSeq(window, gone + 1, Len(window))
             rest == SubSeq(longer, k + 1, n + 1)
  <2>1. /\ left \in Seq(Trades) /\ Len(left) = n - k
        /\ \A i \in 1 .. n - k : left[i] = window[gone + i]
    BY <1>3, <1>5, <1>7
  <2>2. \A i \in 1 .. n - k : left[i] = all[k + i]
    <3> SUFFICES ASSUME NEW i \in 1 .. n - k PROVE left[i] = all[k + i]
      OBVIOUS
    <3>1. gone + i \in 1 .. n - old /\ old + (gone + i) = k + i
      BY <1>5, <1>7
    <3> HIDE DEF left, k
    <3> QED BY <1>3, <2>1, <3>1
  <2>3. /\ rest \in Seq(Trades) /\ Len(rest) = n + 1 - k
        /\ \A i \in 1 .. n + 1 - k : rest[i] = longer[k + i]
    <3>1. n \in Nat /\ k \in 0 .. n
      BY <1>5, <1>7
    <3>2. \A i \in 1 .. n + 1 : longer[i] \in Trades
      BY <1>4, <1>5
    <3>3. longer \in Seq(Trades) /\ Len(longer) = n + 1
      BY <1>4, <1>5
    <3> HIDE DEF longer, k, n
    <3>4. k + 1 \in 1 .. n + 1 /\ n + 1 \in 1 .. n + 1
      BY <3>1
    <3>5. /\ rest \in Seq(Trades)
          /\ Len(rest) = n + 1 - (k + 1) + 1
          /\ \A i \in 1 .. n + 1 - (k + 1) + 1 : rest[i] = longer[k + 1 + i - 1]
      BY <3>1, <3>2, <3>3, <3>4
    <3>6. n + 1 - (k + 1) + 1 = n + 1 - k
      BY <3>1
    <3> HIDE DEF rest
    <3>7. ASSUME NEW i \in 1 .. n + 1 - k PROVE rest[i] = longer[k + i]
      <4>1. k + 1 + i - 1 = k + i
        BY <3>1
      <4> QED BY <3>5, <3>6, <4>1
    <3> QED BY <3>5, <3>6, <3>7
  <2>4. Append(left, trade) = rest
    <3> HIDE DEF left, rest, longer, k
    <3>1. /\ Append(left, trade) \in Seq(Trades)
          /\ Len(Append(left, trade)) = n + 1 - k
          /\ \A i \in 1 .. n - k : Append(left, trade)[i] = all[k + i]
          /\ Append(left, trade)[n + 1 - k] = trade
      BY <1>5, <1>7, <2>1, <2>2
    <3>2. \A i \in 1 .. n + 1 - k : Append(left, trade)[i] = rest[i]
      <4> SUFFICES ASSUME NEW i \in 1 .. n + 1 - k
                   PROVE  Append(left, trade)[i] = rest[i]
        OBVIOUS
      <4>1. rest[i] = longer[k + i]
        BY <2>3
      <4>2. n \in Nat /\ k \in 0 .. n
        BY <1>5, <1>7
      <4>3. /\ longer[n + 1] = trade
            /\ \A j \in 1 .. n : longer[j] = all[j]
        BY <1>4
      <4> HIDE DEF n
      <4>4. CASE i = n + 1 - k
        <5>1. k + i = n + 1
          BY <4>2, <4>4
        <5>2. rest[i] = trade
          BY <4>1, <4>3, <5>1
        <5>3. Append(left, trade)[i] = trade
          BY <3>1, <4>4
        <5> QED BY <5>2, <5>3
      <4>5. CASE i \in 1 .. n - k
        <5>1. k + i \in 1 .. n
          BY <4>2, <4>5
        <5> QED BY <3>1, <4>1, <4>3, <4>5, <5>1
      <4>6. i = n + 1 - k \/ i \in 1 .. n - k
        BY <4>2
      <4> QED BY <4>4, <4>5, <4>6
    <3> QED BY <2>3, <3>1, <3>2, SeqEqual
  <2>5. Pushed(window, trade) = Append(left, trade)
    BY <1>6 DEF Pushed, cutoff
  <2> QED BY <2>4, <2>5
<1>9. ASSUME NEW i \in 1 .. n + 1
      PROVE  i > k <=> longer[i].at >= trade.at - WINDOW
  <2> HIDE DEF longer, k, n
  <2>1. CASE i = n + 1
    <3>1. longer[i] = trade /\ i > k
      BY <1>4, <1>5, <1>7, <2>1
    <3>2. trade.at \in Nat /\ WINDOW \in Nat
      BY <1>1, ReconstructorAssumption DEF Trades
    <3>3. trade.at >= trade.at - WINDOW
      BY <3>2
    <3> QED BY <3>1, <3>3
  <2>2. CASE i \in 1 .. old
    <3>1. i \in 1 .. n /\ ~(i > k) /\ ~(i > old)
      BY <1>5, <1>7, <2>2
    <3>2. all[i].at \in Nat /\ all[n].at \in Nat /\ longer[i] = all[i]
      BY <1>1, <1>4, <1>5, <3>1 DEF n
    <3>3. ~(all[i].at >= all[n].at - WINDOW)
      BY <1>5, <3>1
    <3> QED BY <1>1, <1>5, <3>1, <3>2, <3>3, SMTT(40)
  <2>3. CASE i \in old + 1 .. k
    <3>1. i - old \in 1 .. gone /\ i - old \in 1 .. n - old /\ i \in 1 .. n
      BY <1>5, <1>7, <2>3
    <3>2. window[i - old] = all[i]
      BY <1>3, <1>5, <3>1
    <3>3. all[i].at < cutoff
      BY <1>6, <3>1, <3>2
    <3>4. all[i].at \in Nat
      BY <1>1, <3>1 DEF n
    <3> QED BY <1>1, <1>2, <1>4, <1>7, <2>3, <3>1, <3>3, <3>4, SMTT(40)
  <2>4. CASE i \in k + 1 .. n
    <3>1. gone < Len(window) /\ gone + 1 \in 1 .. n - old /\ k + 1 \in 1 .. n
      BY <1>3, <1>5, <1>7, <2>4
    <3>2. all[k + 1].at >= cutoff
      <4>1. window[gone + 1] = all[old + (gone + 1)] /\ old + (gone + 1) = k + 1
        BY <1>3, <1>5, <1>7, <3>1
      <4> QED BY <1>6, <3>1, <4>1
    <3>3. all[k + 1].at <= all[i].at
      <4>1. k + 1 = i \/ k + 1 < i
        BY <1>7, <2>4
      <4>2. i \in 1 .. n /\ all[i].at \in Nat
        BY <1>1, <1>5, <1>7, <2>4 DEF n
      <4> QED BY <1>5, <3>1, <4>1, <4>2
    <3>4. /\ i \in 1 .. n /\ all[i].at \in Nat /\ all[k + 1].at \in Nat
      BY <1>1, <1>5, <1>7, <2>4, <3>1 DEF n
    <3>5. all[i].at >= cutoff
      BY <1>2, <3>2, <3>3, <3>4, SMTT(40)
    <3>6. all[i].at >= trade.at - WINDOW /\ i > k
      BY <1>2, <1>7, <2>4, <3>4, <3>5, SMTT(40)
    <3> QED BY <1>4, <3>4, <3>6
  <2>5. i = n + 1 \/ i \in 1 .. old \/ i \in old + 1 .. k \/ i \in k + 1 .. n
    BY <1>5, <1>7
  <2> QED BY <2>1, <2>2, <2>3, <2>4, <2>5
<1> HIDE DEF longer, window, k
<1> QED BY <1>4, <1>7, <1>8, <1>9 DEF longer, window

\* Taking a trade keeps the windows exact.
LEMMA TakeExact ==
  ASSUME OrderInv, WindowIsExact, Take
  PROVE  WindowIsExact'
<1> DEFINE trade == Head(trades)
           e == trade.exchange
<1>1. /\ trade \in Trades /\ trade \in Range(trades)
  BY QueueType, RangeOfTrades DEF OrderInv, QuorumInv, Flow, Take
<1>2. /\ windows' = [windows EXCEPT ![e] = Pushed(windows[e], trade)]
      /\ taken' = [taken EXCEPT ![e] = Append(taken[e], trade)]
  BY DEF Take
<1>3. e \in Exchanges /\ trade.exchange = e /\ trade.at \in Nat
  BY <1>1, ReconstructorAssumption DEF Trades
<1> HIDE DEF trade, e
<1>4. /\ \A x \in Exchanges :
           /\ windows'[x] = IF x = e THEN Pushed(windows[e], trade) ELSE windows[x]
           /\ taken'[x] = IF x = e THEN Append(taken[e], trade) ELSE taken[x]
      /\ taken[e] \in Seq(Trades)
  BY <1>2, <1>3 DEF OrderInv, QuorumInv, Flow
<1> DEFINE all == taken[e]
           Exact(window, queue) ==
             \E old \in 0 .. Len(queue) - 1 :
               /\ window = SubSeq(queue, old + 1, Len(queue))
               /\ \A i \in DOMAIN queue :
                    i > old <=> queue[i].at >= Last(queue).at - WINDOW
<1>5. /\ Last(Append(all, trade)) = trade
      /\ Len(Append(all, trade)) = Len(all) + 1
  BY <1>1, <1>4 DEF Last
<1>6. Exact(Pushed(windows[e], trade), Append(all, trade))
  <2>1. CASE all = <<>>
    <3>1. windows[e] = <<>>
      BY <1>3, <2>1 DEF OrderInv, QuorumInv, Newest
    <3>2. Evict(<<>>, Minus(trade.at, WINDOW)) = <<>>
      BY DEF Evict, SelectInSeq
    <3>3. Pushed(windows[e], trade) = <<trade>> /\ Append(all, trade) = <<trade>>
      <4>1. Append(<<>>, trade) = <<trade>>
        OBVIOUS
      <4> QED BY <2>1, <3>1, <3>2, <4>1, Zenon DEF Pushed
    <3>4. <<trade>> = SubSeq(<<trade>>, 0 + 1, 1) /\ Len(<<trade>>) = 1
      OBVIOUS
    <3>5. \A i \in DOMAIN <<trade>> :
            i > 0 <=> <<trade>>[i].at >= Last(<<trade>>).at - WINDOW
      BY <1>3, ReconstructorAssumption DEF Last
    <3> QED BY <3>3, <3>4, <3>5
  <2>2. CASE all # <<>>
    <3>1. PICK old \in 0 .. Len(all) - 1 :
            /\ windows[e] = SubSeq(all, old + 1, Len(all))
            /\ \A i \in DOMAIN all :
                 i > old <=> all[i].at >= Last(all).at - WINDOW
      BY <1>3, <2>2 DEF WindowIsExact
    <3>2. \A i \in DOMAIN all : all[i] \in Range(all) /\ all[i].exchange = e
      BY <1>3, <1>4, RangeOfTrades DEF OrderInv, Stamped
    <3>3. \A i \in DOMAIN all : all[i].at <= trade.at
      BY <1>1, <1>3, <3>2 DEF OrderInv, Ordered, Before, NotAfter
    <3>4. \A i, j \in DOMAIN all : i < j => all[i].at <= all[j].at
      BY <1>3, <3>2 DEF OrderInv, Ordered, Rising, NotAfter
    <3> HIDE DEF all
    <3>5. PICK k \in 0 .. Len(all) :
            /\ Pushed(windows[e], trade) =
                 SubSeq(Append(all, trade), k + 1, Len(all) + 1)
            /\ \A i \in DOMAIN Append(all, trade) :
                 i > k <=> Append(all, trade)[i].at >= trade.at - WINDOW
      BY <1>1, <1>4, <2>2, <3>1, <3>3, <3>4, PushedIsExact DEF all
    <3>6. k \in 0 .. Len(Append(all, trade)) - 1
      BY <1>4, <1>5 DEF all
    <3> QED BY <1>5, <3>5, <3>6
  <2> QED BY <2>1, <2>2
<1> HIDE DEF Exact
<1>7. ASSUME NEW x \in Exchanges, taken'[x] # <<>>
      PROVE  Exact(windows'[x], taken'[x])
  <2>1. CASE x = e
    BY <1>4, <1>6, <2>1
  <2>2. CASE x # e
    BY <1>4, <1>7, <2>2 DEF WindowIsExact, Exact
  <2> QED BY <2>1, <2>2
<1> QED BY <1>7 DEF WindowIsExact, Exact

\* A window is what is recent of what was taken, whatever is lost or delayed on
\* the way, for any span.  (window.rs 15-27)
THEOREM Exactness == Spec => []WindowIsExact
<1>1. Init => OrderInv /\ WindowIsExact
  BY InitQuorum, InitOrder DEF OrderInv, Init, WindowIsExact
<1>2. OrderInv /\ WindowIsExact /\ [Next]_vars => OrderInv' /\ WindowIsExact'
  <2> SUFFICES ASSUME OrderInv, WindowIsExact, [Next]_vars
               PROVE  OrderInv' /\ WindowIsExact'
    OBVIOUS
  <2>1. CASE Take
    BY <2>1, OrderStep, TakeExact
  <2>2. CASE ~Take
    <3>1. UNCHANGED <<windows, taken>>
      BY <2>2 DEF Next, vars, Pass, Merge, Pop, Receive, Send
    <3> QED BY <3>1, OrderStep DEF WindowIsExact
  <2> QED BY <2>1, <2>2
<1> QED BY <1>1, <1>2, PTL DEF Spec

-----------------------------------------------------------------------------
(* The medians. *)

\* The values of a function on a finite set are finitely many.
LEMMA FiniteImage ==
  ASSUME NEW S, IsFiniteSet(S), NEW f, DOMAIN f = S
  PROVE  IsFiniteSet({f[x] : x \in S})
<1> DEFINE T == {f[x] : x \in S}
           g == [x \in S |-> f[x]]
<1>1. g \in Surjection(S, T)
  BY DEF Surjection
<1> QED BY <1>1, FS_Surjection

\* A nonempty finite set of numbers has a largest element.
LEMMA LargestOfNats ==
  ASSUME NEW T, T \subseteq Nat, T # {}, IsFiniteSet(T)
  PROVE  \E x \in T : \A y \in T : y <= x
<1> DEFINE Above(x) == {y \in T : y > x}
           ranks == {Cardinality(Above(x)) : x \in T}
<1>1. \A x \in T : IsFiniteSet(Above(x)) /\ Cardinality(Above(x)) \in Nat
  BY FS_Subset, FS_CardinalityType
<1>2. ranks \subseteq Nat /\ ranks # {}
  BY <1>1
<1>3. PICK rank \in ranks : \A r \in ranks : rank <= r
  BY <1>2, LeastOfNats
<1>4. PICK x \in T : rank = Cardinality(Above(x))
  BY <1>3
<1>5. ASSUME NEW y \in T, ~(y <= x) PROVE FALSE
  <2>1. x \in Nat /\ y \in Nat /\ y > x /\ T \subseteq Nat
    BY <1>5
  <2>2. Above(y) \subseteq Above(x)
    <3>1. \A z \in T : z > y => z > x
      BY <2>1
    <3> QED BY <3>1
  <2>3. y \in Above(x) /\ y \notin Above(y)
    BY <2>1
  <2>4. Cardinality(Above(x)) <= Cardinality(Above(y))
    BY <1>3, <1>4
  <2> HIDE DEF Above
  <2>5. /\ Cardinality(Above(y)) <= Cardinality(Above(x))
        /\ Cardinality(Above(x)) = Cardinality(Above(y)) => Above(x) = Above(y)
    BY <1>1, <2>2, FS_Subset
  <2>6. Cardinality(Above(x)) \in Nat /\ Cardinality(Above(y)) \in Nat
    BY <1>1
  <2> QED BY <2>3, <2>4, <2>5, <2>6
<1> QED BY <1>5

\* The largest element is the Max.
LEMMA MaxOfNats ==
  ASSUME NEW T, T \subseteq Nat, T # {}, IsFiniteSet(T)
  PROVE  Max(T) \in T /\ \A y \in T : y <= Max(T)
<1>1. PICK x \in T : \A y \in T : y <= x
  BY LargestOfNats
<1>2. \A y \in T : x >= y
  BY <1>1
<1> QED BY <1>2 DEF Max

\* The units of a sum are finitely many, and their number grows with the set.
LEMMA SumType ==
  ASSUME NEW S, IsFiniteSet(S), NEW f, \A x \in S : f[x] \in Nat
  PROVE  /\ SumOver(S, f) \in Nat
         /\ IsFiniteSet(UNION {{x} \X (1 .. f[x]) : x \in S})
<1> DEFINE g == [x \in S |-> {x} \X (1 .. f[x])]
           T == {g[x] : x \in S}
<1>1. IsFiniteSet(T)
  <2>1. DOMAIN g = S
    OBVIOUS
  <2> HIDE DEF g
  <2> QED BY <2>1, FiniteImage
<1>2. \A x \in S : IsFiniteSet({x} \X (1 .. f[x]))
  <2> SUFFICES ASSUME NEW x \in S PROVE IsFiniteSet({x} \X (1 .. f[x]))
    OBVIOUS
  <2>1. IsFiniteSet({x})
    BY FS_Singleton
  <2>2. IsFiniteSet(1 .. f[x])
    BY FS_Interval
  <2> QED BY <2>1, <2>2, FS_Product
<1>3. \A t \in T : IsFiniteSet(t)
  BY <1>2
<1>4. T = {{x} \X (1 .. f[x]) : x \in S}
  OBVIOUS
<1> HIDE DEF T
<1>5. IsFiniteSet(UNION T)
  BY <1>1, <1>3, FS_UNION
<1> QED BY <1>4, <1>5, FS_CardinalityType DEF SumOver

\* A part sums to no more than the whole.
LEMMA SumOfPart ==
  ASSUME NEW S, IsFiniteSet(S), NEW f, \A x \in S : f[x] \in Nat,
         NEW T, T \subseteq S
  PROVE  SumOver(T, f) \in Nat /\ SumOver(T, f) <= SumOver(S, f)
<1> DEFINE Units(X) == UNION {{x} \X (1 .. f[x]) : x \in X}
<1>1. IsFiniteSet(Units(S))
  BY SumType
<1>2. Units(T) \subseteq Units(S)
  OBVIOUS
<1>3. IsFiniteSet(T)
  BY FS_Subset
<1>4. SumOver(T, f) \in Nat
  BY <1>3, SumType
<1> HIDE DEF Units
<1>5. Cardinality(Units(T)) <= Cardinality(Units(S))
  BY <1>1, <1>2, FS_Subset
<1> QED BY <1>4, <1>5 DEF Units, SumOver

\* The sums of a part and of the rest make up the whole.
LEMMA SumOfParts ==
  ASSUME NEW S, IsFiniteSet(S), NEW f, \A x \in S : f[x] \in Nat,
         NEW T, T \subseteq S
  PROVE  SumOver(S, f) = SumOver(T, f) + SumOver(S \ T, f)
<1> DEFINE Units(X) == UNION {{x} \X (1 .. f[x]) : x \in X}
<1>1. IsFiniteSet(T) /\ IsFiniteSet(S \ T)
  BY FS_Subset
<1>2. IsFiniteSet(Units(T)) /\ IsFiniteSet(Units(S \ T))
  BY <1>1, SumType
<1>3. Units(S) = Units(T) \cup Units(S \ T)
  OBVIOUS
<1>4. Units(T) \cap Units(S \ T) = {}
  OBVIOUS
<1>5. SumOver(T, f) \in Nat /\ SumOver(S \ T, f) \in Nat
  BY <1>1, SumType
<1>6. /\ SumOver(S, f) = Cardinality(Units(S))
      /\ SumOver(T, f) = Cardinality(Units(T))
      /\ SumOver(S \ T, f) = Cardinality(Units(S \ T))
  BY DEF SumOver
<1> HIDE DEF Units
<1>7. Cardinality(Units(S)) = Cardinality(Units(T)) + Cardinality(Units(S \ T))
                                - Cardinality({})
  BY <1>2, <1>3, <1>4, FS_Union, ZenonT(40)
<1> QED BY <1>5, <1>6, <1>7, FS_EmptySet

\* Bounds of the items bound their sum.
LEMMA SumBounds ==
  ASSUME NEW S, IsFiniteSet(S), NEW f, NEW lo \in Nat, NEW hi \in Nat,
         \A x \in S : f[x] \in Nat /\ lo <= f[x] /\ f[x] <= hi
  PROVE  /\ SumOver(S, f) >= Cardinality(S) * lo
         /\ SumOver(S, f) <= Cardinality(S) * hi
<1> DEFINE units == UNION {{x} \X (1 .. f[x]) : x \in S}
<1>1. IsFiniteSet(units) /\ SumOver(S, f) = Cardinality(units)
  BY SumType DEF SumOver
<1>2. S \X (1 .. lo) \subseteq units /\ units \subseteq S \X (1 .. hi)
  OBVIOUS
<1>3. \A n \in Nat : /\ IsFiniteSet(S \X (1 .. n))
                     /\ Cardinality(S \X (1 .. n)) = Cardinality(S) * n
  <2> SUFFICES ASSUME NEW n \in Nat
               PROVE  /\ IsFiniteSet(S \X (1 .. n))
                      /\ Cardinality(S \X (1 .. n)) = Cardinality(S) * n
    OBVIOUS
  <2>1. IsFiniteSet(1 .. n) /\ Cardinality(1 .. n) = n
    BY FS_Interval
  <2> QED BY <2>1, FS_Product
<1> HIDE DEF units
<1>4. Cardinality(S \X (1 .. lo)) <= Cardinality(units)
  BY <1>1, <1>2, FS_Subset
<1>5. Cardinality(units) <= Cardinality(S \X (1 .. hi))
  BY <1>2, <1>3, FS_Subset
<1>6. /\ Cardinality(units) >= Cardinality(S) * lo
      /\ Cardinality(units) <= Cardinality(S) * hi
  <2>1. Cardinality(units) \in Nat /\ Cardinality(S) \in Nat
    BY <1>1, FS_CardinalityType
  <2>2. Cardinality(S) * lo \in Nat /\ Cardinality(S) * hi \in Nat
    BY <2>1
  <2> QED BY <1>3, <1>4, <1>5, <2>1, <2>2
<1> QED BY <1>1, <1>6

\* The places of a window, and what they hold.
LEMMA PlacesOfWindow ==
  ASSUME NEW window \in Seq(Trades)
  PROVE  /\ IsFiniteSet(DOMAIN window)
         /\ \A i \in DOMAIN window :
              /\ i \in Nat /\ window[i] \in Trades /\ window[i].price \in Prices
              /\ window[i].price \in Nat /\ window[i].size \in Nat
<1>1. IsFiniteSet(DOMAIN window)
  <2>1. DOMAIN window = 1 .. Len(window) /\ Len(window) \in Nat
    OBVIOUS
  <2> QED BY <2>1, FS_Interval
<1>2. \A i \in DOMAIN window : i \in Nat /\ window[i] \in Trades
  OBVIOUS
<1>3. \A t \in Trades : /\ t.price \in Prices /\ t.price \in Nat
                         /\ t.size \in Nat
  BY ReconstructorAssumption DEF Trades
<1> QED BY <1>1, <1>2, <1>3

\* The order of the sorted window is strict and total.
LEMMA SoonerOrders ==
  ASSUME NEW window \in Seq(Trades)
  PROVE  /\ \A i \in DOMAIN window : ~Sooner(window, i, i)
         /\ \A i, j \in DOMAIN window :
              i # j => Sooner(window, i, j) \/ Sooner(window, j, i)
         /\ \A i, j \in DOMAIN window :
              Sooner(window, i, j) => ~Sooner(window, j, i)
<1>1. \A i \in DOMAIN window : i \in Nat /\ window[i].price \in Nat
  BY PlacesOfWindow
<1> QED BY <1>1 DEF Sooner

\* Some places of a window have a first and a last one in the order of prices.
LEMMA SoonestAndLatest ==
  ASSUME NEW window \in Seq(Trades),
         NEW S, S \subseteq DOMAIN window, S # {}
  PROVE  /\ \E k \in S : \A m \in S \ {k} : Sooner(window, k, m)
         /\ \E k \in S : \A m \in S \ {k} : Sooner(window, m, k)
<1> DEFINE P == {window[i].price : i \in S}
<1>1. \A i \in DOMAIN window : i \in Nat /\ window[i].price \in Nat
  BY PlacesOfWindow
<1>2. P \subseteq Nat /\ P # {}
  BY <1>1
<1>3. IsFiniteSet(S)
  BY PlacesOfWindow, FS_Subset
<1>4. IsFiniteSet(P)
  <2> DEFINE f == [i \in S |-> window[i].price]
  <2>1. IsFiniteSet({f[i] : i \in S})
    BY <1>3, FiniteImage
  <2>2. P = {f[i] : i \in S}
    OBVIOUS
  <2> QED BY <2>1, <2>2
<1>5. \E k \in S : \A m \in S \ {k} : Sooner(window, k, m)
  <2>1. PICK p \in P : \A q \in P : p <= q
    BY <1>2, LeastOfNats
  <2> DEFINE I == {i \in S : window[i].price = p}
  <2>2. I \subseteq Nat /\ I # {}
    BY <1>1, <2>1
  <2>3. PICK k \in I : \A m \in I : k <= m
    BY <2>2, LeastOfNats
  <2>4. ASSUME NEW m \in S \ {k} PROVE Sooner(window, k, m)
    <3>1. window[m].price \in P /\ window[m].price >= p /\ window[k].price = p
      BY <1>1, <2>1, <2>3
    <3>2. CASE window[m].price = p
      BY <1>1, <2>3, <2>4, <3>1, <3>2 DEF Sooner
    <3>3. CASE window[m].price # p
      BY <1>1, <1>2, <3>1, <3>3 DEF Sooner
    <3> QED BY <3>2, <3>3
  <2> QED BY <2>3, <2>4
<1>6. \E k \in S : \A m \in S \ {k} : Sooner(window, m, k)
  <2>1. PICK p \in P : \A q \in P : q <= p
    BY <1>2, <1>4, LargestOfNats
  <2> DEFINE I == {i \in S : window[i].price = p}
  <2>2. I \subseteq Nat /\ I # {} /\ IsFiniteSet(I)
    BY <1>1, <1>3, <2>1, FS_Subset
  <2>3. PICK k \in I : \A m \in I : m <= k
    BY <2>2, LargestOfNats
  <2>4. ASSUME NEW m \in S \ {k} PROVE Sooner(window, m, k)
    <3>1. window[m].price \in P /\ window[m].price <= p /\ window[k].price = p
      BY <1>1, <2>1, <2>3
    <3>2. CASE window[m].price = p
      BY <1>1, <2>3, <2>4, <3>1, <3>2 DEF Sooner
    <3>3. CASE window[m].price # p
      BY <1>1, <1>2, <3>1, <3>3 DEF Sooner
    <3> QED BY <3>2, <3>3
  <2> QED BY <2>3, <2>4
<1> QED BY <1>5, <1>6
\* The volume of some places is a number, and that of fewer places is no more.
LEMMA VolumeType ==
  ASSUME NEW window \in Seq(Trades),
         NEW S, S \subseteq DOMAIN window, NEW T, T \subseteq S
  PROVE  /\ Volume(window, T) \in Nat /\ Volume(window, S) \in Nat
         /\ Volume(window, T) <= Volume(window, S)
         /\ Volume(window, S) = Volume(window, T) + Volume(window, S \ T)
<1> DEFINE f == [i \in DOMAIN window |-> window[i].size]
<1>1. \A i \in S : f[i] \in Nat
  BY PlacesOfWindow
<1>2. IsFiniteSet(S)
  BY PlacesOfWindow, FS_Subset
<1> HIDE DEF f
<1>3. /\ SumOver(T, f) \in Nat /\ SumOver(T, f) <= SumOver(S, f)
      /\ SumOver(S, f) = SumOver(T, f) + SumOver(S \ T, f)
  BY <1>1, <1>2, SumOfPart, SumOfParts
<1>4. SumOver(S, f) \in Nat
  BY <1>1, <1>2, SumType
<1> QED BY <1>3, <1>4 DEF Volume, f

\* The median of a window is the price of the first place at which half of the
\* volume is reached, and there is one.  (window.rs 33-56)
LEMMA VwmpPlace ==
  ASSUME NEW window \in Seq(Trades), window # <<>>
  PROVE  \E k \in Reached(window) :
           /\ \A m \in Reached(window) \ {k} : Sooner(window, k, m)
           /\ Vwmp(window) = window[k].price
<1> DEFINE D == DOMAIN window
           reached == Reached(window)
           IsFirst(k) == \A m \in reached \ {k} : Sooner(window, k, m)
<1>1. D # {} /\ reached \subseteq D
  <2>1. 1 \in D
    OBVIOUS
  <2> QED BY <2>1 DEF Reached
<1>2. reached # {}
  <2>1. PICK k \in D : \A m \in D \ {k} : Sooner(window, m, k)
    BY <1>1, SoonestAndLatest
  <2>2. Walked(window, k) = D
    BY <2>1 DEF Walked
  <2>3. Volume(window, D) \in Nat
    BY VolumeType
  <2>4. 2 * Volume(window, D) >= Volume(window, D)
    BY <2>3
  <2>5. k \in reached
    BY <2>2, <2>4 DEF Reached
  <2> QED BY <2>5
<1>3. \E k \in reached : IsFirst(k)
  BY <1>1, <1>2, SoonestAndLatest
<1> DEFINE first == CHOOSE k \in reached : IsFirst(k)
<1>4. first \in reached /\ IsFirst(first)
  BY <1>3
<1>5. Vwmp(window) = window[first].price
  BY DEF Vwmp
<1> HIDE DEF first
<1> QED BY <1>4, <1>5

\* At or below the median lies half of the volume or more, and at or above it
\* too.  (window.rs 33-56)
LEMMA MedianOfWindow ==
  ASSUME NEW window \in Seq(Trades), window # <<>>
  PROVE  LET below == {i \in DOMAIN window : window[i].price <= Vwmp(window)}
             above == {i \in DOMAIN window : window[i].price >= Vwmp(window)}
             all   == Volume(window, DOMAIN window)
         IN  2 * Volume(window, below) >= all /\ 2 * Volume(window, above) >= all
<1> DEFINE D == DOMAIN window
           below == {i \in D : window[i].price <= Vwmp(window)}
           above == {i \in D : window[i].price >= Vwmp(window)}
<1>1. PICK k \in Reached(window) :
        /\ \A m \in Reached(window) \ {k} : Sooner(window, k, m)
        /\ Vwmp(window) = window[k].price
  BY VwmpPlace
<1>2. /\ k \in D
      /\ 2 * Volume(window, Walked(window, k)) >= Volume(window, D)
      /\ \A m \in D : 2 * Volume(window, Walked(window, m)) >= Volume(window, D)
                        => m \in Reached(window)
  BY <1>1 DEF Reached
<1>3. \A i \in D : i \in Nat /\ window[i].price \in Nat
  BY PlacesOfWindow
<1>4. Walked(window, k) \subseteq below
  BY <1>1, <1>2, <1>3 DEF Walked, Sooner
<1>5. 2 * Volume(window, below) >= Volume(window, D)
  <2>1. /\ Volume(window, below) \in Nat /\ Volume(window, D) \in Nat
        /\ Volume(window, Walked(window, k)) \in Nat
        /\ Volume(window, Walked(window, k)) <= Volume(window, below)
    <3> HIDE DEF below
    <3>1. below \subseteq D
      BY DEF below
    <3> QED BY <1>4, <3>1, VolumeType
  <2> HIDE DEF below
  <2> QED BY <1>2, <2>1
<1>6. 2 * Volume(window, D \ above) <= Volume(window, D)
  <2> DEFINE before == {i \in D : Sooner(window, i, k)}
  <2>1. D \ above \subseteq before
    BY <1>1, <1>2, <1>3 DEF Sooner
  <2>2. Volume(window, D) \in Nat
    BY VolumeType
  <2>3. CASE before = {}
    <3>1. D \ above = {}
      BY <2>1, <2>3
    <3>2. Volume(window, {}) = 0
      <4>1. UNION {{x} \X (1 .. [i \in D |-> window[i].size][x]) : x \in {}} = {}
        OBVIOUS
      <4> QED BY <4>1, FS_EmptySet, Zenon DEF Volume, SumOver
    <3>3. Volume(window, D \ above) = 0
      BY <3>1, <3>2, Zenon
    <3> HIDE DEF above
    <3> QED BY <2>2, <3>3
  <2>4. CASE before # {}
    <3>1. PICK j \in before : \A m \in before \ {j} : Sooner(window, m, j)
      BY <2>4, SoonestAndLatest
    <3>2. before \subseteq Walked(window, j)
      BY <3>1 DEF Walked
    <3>3. j \in D /\ Sooner(window, j, k) /\ ~Sooner(window, k, j) /\ j # k
      BY <1>2, <3>1, SoonerOrders
    <3>4. j \notin Reached(window)
      BY <1>1, <3>3
    <3>5. ~(2 * Volume(window, Walked(window, j)) >= Volume(window, D))
      BY <1>2, <3>3, <3>4
    <3>6. /\ Volume(window, D \ above) \in Nat
          /\ Volume(window, Walked(window, j)) \in Nat
          /\ Volume(window, D \ above) <= Volume(window, Walked(window, j))
      <4>1. Walked(window, j) \subseteq D /\ D \ above \subseteq Walked(window, j)
        BY <2>1, <3>2 DEF Walked
      <4> HIDE DEF above
      <4> QED BY <4>1, VolumeType
    <3> HIDE DEF above
    <3> QED BY <2>2, <3>5, <3>6
  <2> HIDE DEF above, before
  <2> QED BY <2>3, <2>4
<1>7. 2 * Volume(window, above) >= Volume(window, D)
  <2>1. /\ Volume(window, D) \in Nat /\ Volume(window, above) \in Nat
        /\ Volume(window, D) = Volume(window, above) + Volume(window, D \ above)
    <3>1. above \subseteq D
      OBVIOUS
    <3> HIDE DEF above
    <3> QED BY <3>1, VolumeType, ZenonT(40)
  <2>2. Volume(window, D \ above) \in Nat
    BY VolumeType
  <2> HIDE DEF above
  <2> QED BY <1>6, <2>1, <2>2
<1> QED BY <1>5, <1>7

\* The volume-weighted median of every window is one, for any prices, volumes
\* and ties.  (window.rs 33-56)
THEOREM Median == Spec => []VwmpIsMedian
<1>1. QuorumInv /\ [Next]_vars => QuorumInv'
  BY TakeQuorum, FlowKeepsQuorum
<1>2. QuorumInv => VwmpIsMedian
  <2> SUFFICES ASSUME QuorumInv, NEW e \in Exchanges, windows[e] # <<>>
               PROVE  LET price == Vwmp(windows[e])
                          sizes == [i \in DOMAIN windows[e] |-> windows[e][i].size]
                          below == {i \in DOMAIN windows[e] :
                                      windows[e][i].price <= price}
                          above == {i \in DOMAIN windows[e] :
                                      windows[e][i].price >= price}
                          all   == SumOver(DOMAIN windows[e], sizes)
                      IN  /\ 2 * SumOver(below, sizes) >= all
                          /\ 2 * SumOver(above, sizes) >= all
    BY DEF VwmpIsMedian
  <2>1. windows[e] \in Seq(Trades)
    BY DEF QuorumInv, Flow
  <2> QED BY <2>1, MedianOfWindow DEF Volume
<1> QED BY InitQuorum, <1>1, <1>2, PTL DEF Spec

-----------------------------------------------------------------------------
(* The estimates. *)

\* An estimate is one of the quorum: it counts live exchanges, and is the sum of
\* their medians.  (engine.rs 42-64)
LEMMA EstimateOfLive ==
  ASSUME QuorumInv, NEW estimate \in latest
  PROVE  LET live == Live(windows, asOf)
         IN  /\ live \subseteq Exchanges /\ IsFiniteSet(live)
             /\ estimate.count = Cardinality(live)
             /\ estimate.at = asOf
             /\ estimate.sum = SumOver(live, [e \in live |-> Vwmp(windows[e])])
             /\ Cardinality(live) \in 1 .. Cardinality(Exchanges)
<1> DEFINE live == Live(windows, asOf)
<1>1. live \subseteq Exchanges
  BY DEF Live
<1>2. ~(Cardinality(live) < MIN_EXCHANGES) /\
        estimate = [sum   |-> SumOver(live, [e \in live |-> Vwmp(windows[e])]),
                    count |-> Cardinality(live), at |-> asOf]
  BY DEF QuorumInv, Publish
<1>3. /\ IsFiniteSet(live) /\ Cardinality(live) \in Nat
      /\ Cardinality(live) <= Cardinality(Exchanges)
      /\ Cardinality(Exchanges) \in Nat
  BY <1>1, FS_Subset, FS_CardinalityType, ReconstructorAssumption
<1> HIDE DEF live
<1>4. Cardinality(live) \in 1 .. Cardinality(Exchanges)
  BY <1>2, <1>3, ReconstructorAssumption
<1> QED BY <1>1, <1>2, <1>3, <1>4 DEF live

\* The median of a live exchange is a price.
LEMMA MedianIsPrice ==
  ASSUME NEW window \in Seq(Trades), window # <<>>
  PROVE  /\ \E k \in DOMAIN window : Vwmp(window) = window[k].price
         /\ Vwmp(window) \in Nat
<1>1. PICK k \in Reached(window) : Vwmp(window) = window[k].price
  BY VwmpPlace
<1>2. k \in DOMAIN window
  BY DEF Reached
<1> QED BY <1>1, <1>2, PlacesOfWindow

\* What is published from typed windows is a typed estimate.
LEMMA EstimateType ==
  ASSUME QuorumInv
  PROVE  latest \subseteq Estimates
<1> SUFFICES ASSUME NEW estimate \in latest PROVE estimate \in Estimates
  OBVIOUS
<1> DEFINE live == Live(windows, asOf)
           f == [e \in live |-> Vwmp(windows[e])]
<1>1. /\ live \subseteq Exchanges /\ IsFiniteSet(live)
      /\ estimate.count = Cardinality(live)
      /\ estimate.at = asOf
      /\ estimate.sum = SumOver(live, f)
      /\ Cardinality(live) \in 1 .. Cardinality(Exchanges)
  BY EstimateOfLive
<1>2. \A e \in live : windows[e] \in Seq(Trades) /\ windows[e] # <<>>
  BY <1>1 DEF QuorumInv, Flow, Live, IsStale
<1>3. \A e \in live : f[e] \in Nat
  BY <1>2, MedianIsPrice
<1> HIDE DEF f, live
<1>4. SumOver(live, f) \in Nat
  BY <1>1, <1>3, SumType
<1>5. asOf \in 0 .. MaxClock
  BY DEF QuorumInv, Flow
<1>6. estimate = [sum |-> estimate.sum, count |-> estimate.count,
                  at |-> estimate.at]
  BY DEF QuorumInv, Publish
<1> QED BY <1>1, <1>4, <1>5, <1>6 DEF Estimates

\* A queue that is offered to stays within its capacity.
LEMMA OfferedFits ==
  ASSUME NEW S, NEW queue \in Seq(S), NEW item \in S, NEW capacity \in Nat,
         Len(queue) <= capacity
  PROVE  /\ Offered(queue, item, capacity) \in Seq(S)
         /\ Len(Offered(queue, item, capacity)) <= capacity
BY DEF Offered

\* Each step leaves the queues within their capacities and the estimates typed.
\* (ingest/main.rs 83-100, reconstructor/lib.rs 37-68)
THEOREM ReconstructorTypes == Spec => []TypeOK
<1> DEFINE Inv == QuorumInv /\ TypeOK
<1>1. Init => Inv
  <2> SUFFICES ASSUME Init PROVE Inv
    OBVIOUS
  <2>1. QuorumInv
    BY InitQuorum
  <2>2. <<>> \in Seq(Trades) /\ <<>> \in Seq(Estimates) /\ Len(<<>>) = 0
    OBVIOUS
  <2> QED BY <2>1, <2>2, ReconstructorAssumption DEF Init, TypeOK, QuorumInv, Flow
<1>2. QuorumInv /\ [Next]_vars => QuorumInv'
  BY TakeQuorum, FlowKeepsQuorum
<1>3. QuorumInv => latest \subseteq Estimates
  BY EstimateType
<1>4. Inv /\ QuorumInv' /\ (latest \subseteq Estimates)' /\ [Next]_vars => Inv'
  <2> SUFFICES ASSUME Inv, QuorumInv', (latest \subseteq Estimates)', [Next]_vars
               PROVE  Inv'
    OBVIOUS
  <2>1. QuorumInv'
    OBVIOUS
  <2>2. latest' \subseteq Estimates
    OBVIOUS
  <2>3. /\ channel' \in Seq(Trades) /\ Len(channel') <= ChannelCapacity
        /\ trades' \in Seq(Trades) /\ Len(trades') <= TradeCapacity
        /\ index' \in Seq(Estimates) /\ Len(index') <= IndexCapacity
    <3>1. CASE Merge
      <4>1. /\ Head(channel) \in Trades /\ Tail(channel) \in Seq(Trades)
            /\ Len(Tail(channel)) <= ChannelCapacity
        BY <3>1, ReconstructorAssumption DEF Merge, TypeOK
      <4> QED BY <3>1, <4>1, OfferedFits, ReconstructorAssumption
              DEF Merge, TypeOK
    <3>2. CASE Take
      <4>1. Tail(trades) \in Seq(Trades) /\ Len(Tail(trades)) <= TradeCapacity
        BY <3>2, ReconstructorAssumption DEF Take, TypeOK
      <4>2. index' \in Seq(Estimates) /\ Len(index') <= IndexCapacity
        BY <2>2, <3>2, OfferedFits, ReconstructorAssumption, ZenonT(40)
           DEF Take, TypeOK
      <4> QED BY <3>2, <4>1, <4>2 DEF Take, TypeOK
    <3>3. CASE Pop
      BY <3>3, ReconstructorAssumption DEF Pop, TypeOK
    <3>4. ASSUME NEW e \in Exchanges, Send(e)
          PROVE  /\ channel' \in Seq(Trades) /\ Len(channel') <= ChannelCapacity
                 /\ UNCHANGED <<trades, index>>
      <4>1. Head(inHand[e]) \in Trades
        BY <3>4 DEF Send, TypeOK
      <4> QED BY <3>4, <4>1, OfferedFits, ReconstructorAssumption
              DEF Send, TypeOK
    <3>5. CASE Pass \/ UNCHANGED vars \/ \E e \in Exchanges : Receive(e)
      BY <3>5 DEF Pass, Receive, vars, TypeOK
    <3> QED BY <3>1, <3>2, <3>3, <3>4, <3>5 DEF Next, TypeOK
  <2> QED BY <2>1, <2>2, <2>3 DEF QuorumInv, Flow, TypeOK
<1> QED BY <1>1, <1>2, <1>3, <1>4, PTL DEF Spec

\* The trades taken within the window and the staleness before an estimate.
RecentTrades(at) ==
  {x \in UNION {Range(taken[e]) : e \in Exchanges} : x.at >= at - WINDOW - STALE}

\* What was taken is finitely many trades.
LEMMA RecentIsFinite ==
  ASSUME QuorumInv, NEW at
  PROVE  LET recent == {t.price : t \in RecentTrades(at)}
         IN  IsFiniteSet(recent) /\ recent \subseteq Nat
<1> DEFINE all == UNION {Range(taken[e]) : e \in Exchanges}
<1>1. \A e \in Exchanges :
        IsFiniteSet(Range(taken[e])) /\ Range(taken[e]) \subseteq Trades
  <2> SUFFICES ASSUME NEW e \in Exchanges
               PROVE  IsFiniteSet(Range(taken[e])) /\ Range(taken[e]) \subseteq Trades
    OBVIOUS
  <2>1. taken[e] \in Seq(Trades)
    BY DEF QuorumInv, Flow
  <2>2. IsFiniteSet({taken[e][i] : i \in DOMAIN taken[e]})
    BY <2>1, PlacesOfWindow, FiniteImage
  <2> QED BY <2>1, <2>2, RangeOfQueue DEF Range
<1>2. IsFiniteSet({Range(taken[e]) : e \in Exchanges})
  <2> DEFINE f == [e \in Exchanges |-> Range(taken[e])]
  <2>1. DOMAIN f = Exchanges
    OBVIOUS
  <2>2. {Range(taken[e]) : e \in Exchanges} = {f[e] : e \in Exchanges}
    OBVIOUS
  <2> HIDE DEF f
  <2> QED BY <2>1, <2>2, FiniteImage, ReconstructorAssumption
<1>3. IsFiniteSet(all) /\ all \subseteq Trades
  BY <1>1, <1>2, FS_UNION
<1> HIDE DEF all
<1>4. RecentTrades(at) \subseteq all
  BY DEF RecentTrades, all
<1>5. IsFiniteSet(RecentTrades(at)) /\ RecentTrades(at) \subseteq Trades
  BY <1>3, <1>4, FS_Subset
<1>6. IsFiniteSet({t.price : t \in RecentTrades(at)})
  <2> DEFINE f == [t \in RecentTrades(at) |-> t.price]
  <2>1. DOMAIN f = RecentTrades(at)
    OBVIOUS
  <2>2. {t.price : t \in RecentTrades(at)} = {f[t] : t \in RecentTrades(at)}
    OBVIOUS
  <2> HIDE DEF f
  <2> QED BY <2>1, <2>2, <1>5, FiniteImage
<1> QED BY <1>5, <1>6, ReconstructorAssumption DEF Trades

\* The median of a live exchange is the price of a recent trade: the trade is
\* within the span before the newest of its window, and that one is fresh.
LEMMA MedianIsRecent ==
  ASSUME QuorumInv, WindowIsExact, NEW e \in Live(windows, asOf)
  PROVE  Vwmp(windows[e]) \in {t.price : t \in RecentTrades(asOf)}
<1>1. /\ e \in Exchanges /\ taken[e] # <<>>
      /\ Last(taken[e]).at >= asOf - STALE
  BY LiveIsFresh
<1>2. windows[e] \in Seq(Trades) /\ taken[e] \in Seq(Trades) /\ windows[e] # <<>>
  BY <1>1 DEF QuorumInv, Flow, Newest
<1>3. PICK k \in DOMAIN windows[e] : Vwmp(windows[e]) = windows[e][k].price
  BY <1>2, MedianIsPrice
<1>4. PICK old \in 0 .. Len(taken[e]) - 1 :
        /\ windows[e] = SubSeq(taken[e], old + 1, Len(taken[e]))
        /\ \A i \in DOMAIN taken[e] :
             i > old <=> taken[e][i].at >= Last(taken[e]).at - WINDOW
  BY <1>1 DEF WindowIsExact
<1>5. /\ old + k \in DOMAIN taken[e] /\ old + k > old
      /\ windows[e][k] = taken[e][old + k]
  <2> DEFINE n == Len(taken[e])
  <2>1. /\ n \in Nat /\ old \in 0 .. n - 1 /\ DOMAIN taken[e] = 1 .. n
        /\ Len(windows[e]) = n - old /\ DOMAIN windows[e] = 1 .. n - old
        /\ \A i \in 1 .. n - old : windows[e][i] = taken[e][old + i]
    BY <1>2, <1>4
  <2> HIDE DEF n
  <2>2. k \in 1 .. n - old /\ old + k \in 1 .. n /\ old + k > old
    BY <1>3, <2>1
  <2> QED BY <2>1, <2>2
<1>6. taken[e][old + k].at >= Last(taken[e]).at - WINDOW
  BY <1>4, <1>5
<1>7. /\ taken[e][old + k] \in Trades /\ taken[e][old + k] \in Range(taken[e])
      /\ Last(taken[e]) \in Trades
  BY <1>1, <1>2, <1>5, RangeOfQueue DEF Last
<1>8. taken[e][old + k].at >= asOf - WINDOW - STALE
  <2>1. \A t \in Trades : t.at \in Nat
    BY ReconstructorAssumption DEF Trades
  <2>2. taken[e][old + k].at \in Nat /\ Last(taken[e]).at \in Nat
    BY <1>7, <2>1
  <2>3. asOf \in Nat /\ WINDOW \in Nat /\ STALE \in Nat
    BY ReconstructorAssumption DEF QuorumInv, Flow
  <2> QED BY <1>1, <1>6, <2>2, <2>3, SMTT(40)
<1> QED BY <1>1, <1>3, <1>5, <1>7, <1>8 DEF RecentTrades

\* An estimate lies within the prices of the recent trades, however long an
\* exchange was silent, for any spans.  (engine.rs 42-64, window.rs 15-27)
THEOREM RecentOnly == Spec => []IndexFromRecentTrades
<1>1. QuorumInv /\ [Next]_vars => QuorumInv'
  BY TakeQuorum, FlowKeepsQuorum
<1>2. QuorumInv /\ WindowIsExact => IndexFromRecentTrades
  <2> SUFFICES ASSUME QuorumInv, WindowIsExact, NEW estimate \in latest
               PROVE  LET recent == {t.price : t \in RecentTrades(estimate.at)}
                      IN  /\ estimate.sum >= estimate.count * Min(recent)
                          /\ estimate.sum <= estimate.count * Max(recent)
    BY DEF IndexFromRecentTrades, RecentTrades
  <2> DEFINE recent == {t.price : t \in RecentTrades(estimate.at)}
             live == Live(windows, asOf)
             f == [e \in live |-> Vwmp(windows[e])]
  <2>1. /\ IsFiniteSet(live) /\ Cardinality(live) \in Nat \ {0}
        /\ estimate.count = Cardinality(live) /\ estimate.at = asOf
        /\ estimate.sum = SumOver(live, f)
    BY EstimateOfLive
  <2>2. \A e \in live : f[e] \in recent
    BY <2>1, MedianIsRecent
  <2> HIDE DEF f, live
  <2>3. IsFiniteSet(recent) /\ recent \subseteq Nat
    BY RecentIsFinite
  <2> HIDE DEF recent
  <2>4. recent # {}
    <3>1. live # {}
      BY <2>1, FS_EmptySet
    <3> QED BY <2>2, <3>1
  <2>5. /\ Min(recent) \in Nat /\ Max(recent) \in Nat
        /\ \A x \in recent : Min(recent) <= x /\ x <= Max(recent)
    BY <2>3, <2>4, MinOfNats, MaxOfNats
  <2>6. \A e \in live : f[e] \in Nat /\ Min(recent) <= f[e] /\ f[e] <= Max(recent)
    BY <2>2, <2>3, <2>5
  <2>7. /\ SumOver(live, f) >= Cardinality(live) * Min(recent)
        /\ SumOver(live, f) <= Cardinality(live) * Max(recent)
    BY <2>1, <2>5, <2>6, SumBounds
  <2> QED BY <2>1, <2>7 DEF recent
<1> QED BY InitQuorum, Exactness, <1>1, <1>2, PTL DEF Spec
=============================================================================
