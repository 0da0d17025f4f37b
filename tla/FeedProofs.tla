----------------------------- MODULE FeedProofs -----------------------------
(***************************************************************************)
(* A feed passes on the trades it is told of as they are made in order, once,  *)
(* and whole entries beside flawed ones, and waits twice as long each time:   *)
(* for any number of trades, messages, snapshots and ended connections, any   *)
(* channel, base and cap.                                                    *)
(***************************************************************************)
EXTENDS Feed, RollingWindowProofs, FiniteSetTheorems, NaturalsInduction

\* A trade told of as it was made comes after all that is in front of it.
Rising(seq) ==
  \A i, j \in DOMAIN seq : i < j /\ seq[j].told = "trades" => seq[i].id < seq[j].id

Before(s, t) ==
  \A x \in Range(s), y \in Range(t) : y.told = "trades" => x.id < y.id

\* The numbers of the entries of a message.
Numbers(message) == {message.first + i - 1 : i \in DOMAIN message.flaws}

\* A trade of any number.
Numbered == [id: Nat, sized: BOOLEAN, told: {"trades", "snapshot"}]

\* The messages that wait tell of trades that were made, and one that tells of
\* them as they are made of later ones than every message before it.
Told ==
  /\ \A m \in Range(inbox) : m.first + Len(m.flaws) - 1 <= made
  /\ \A i, j \in DOMAIN inbox :
       i < j /\ inbox[j].kind = "trades"
         => inbox[i].first + Len(inbox[i].flaws) <= inbox[j].first

OnTheWay == Range(merged) \cup Range(channel) \cup Range(inHand)

\* Each queue is in order and so are the three in a row, the messages that wait
\* tell of nothing as just made that is on the way already, and two of the feeds
\* passed on no snapshot.
Sent ==
  /\ Rising(merged) /\ Rising(channel) /\ Rising(inHand)
  /\ Before(merged, channel) /\ Before(merged, inHand)
  /\ Before(channel, inHand)
  /\ \A x \in OnTheWay :
       /\ x.id <= made
       /\ \A m \in Range(inbox) : m.kind = "trades" => x.id < m.first
       /\ exchange \in {"Kraken", "Bitstamp"} => x.told = "trades"

FeedInv == TypeOK /\ Told /\ Sent

-----------------------------------------------------------------------------
(* Queues. *)

\* The first of a queue in order is before the rest, which is in order, and an
\* item that is after the others may be added.
LEMMA RisingQueue ==
  ASSUME NEW S, NEW queue \in Seq(S), Rising(queue)
  PROVE  /\ queue # <<>> => /\ Rising(Tail(queue))
                            /\ \A x \in Range(Tail(queue)) :
                                 x.told = "trades" => Head(queue).id < x.id
         /\ \A item \in S :
              (item.told = "trades" => \A x \in Range(queue) : x.id < item.id)
                => Rising(Append(queue, item))
<1>1. ASSUME queue # <<>>
      PROVE  /\ Rising(Tail(queue))
             /\ \A x \in Range(Tail(queue)) :
                  x.told = "trades" => Head(queue).id < x.id
  <2>1. /\ Head(queue) = queue[1] /\ Len(queue) \in Nat \ {0}
        /\ DOMAIN Tail(queue) = 1 .. Len(queue) - 1
        /\ \A i \in 1 .. Len(queue) - 1 : Tail(queue)[i] = queue[i + 1]
    BY <1>1
  <2> QED BY <2>1, SMTT(40) DEF Rising, Range
<1>2. ASSUME NEW item \in S,
             item.told = "trades" => \A x \in Range(queue) : x.id < item.id
      PROVE  Rising(Append(queue, item))
  <2> DEFINE longer == Append(queue, item)
  <2>1. /\ DOMAIN longer = 1 .. Len(queue) + 1
        /\ \A i \in 1 .. Len(queue) : longer[i] = queue[i]
        /\ longer[Len(queue) + 1] = item
    OBVIOUS
  <2>2. \A i \in 1 .. Len(queue) : item.told = "trades" => queue[i].id < item.id
    BY <1>2 DEF Range
  <2> HIDE DEF longer
  <2>3. \A i, j \in 1 .. Len(queue) + 1 : i < j =>
          i \in 1 .. Len(queue) /\ (j \in 1 .. Len(queue) \/ j = Len(queue) + 1)
    OBVIOUS
  <2>4. Rising(longer)
    BY <2>1, <2>2, <2>3 DEF Rising
  <2> QED BY <2>4 DEF longer
<1> QED BY <1>1, <1>2

-----------------------------------------------------------------------------
(* A message becomes trades. *)

\* The loop is a primitive recursion over the entries.
LEMMA LoopSteps ==
  ASSUME NEW message, NEW skipped, message.flaws \in Seq(Flaws)
  PROVE  \E trades :
           /\ Loop(message, skipped) = trades[Len(message.flaws)]
           /\ trades[0] = <<>>
           /\ \A n \in 1 .. Len(message.flaws) :
                trades[n] =
                  IF message.flaws[n] \in skipped THEN trades[n - 1]
                  ELSE Append(trades[n - 1],
                              [id    |-> message.first + n - 1,
                               sized |-> message.flaws[n] \notin FlawSize,
                               told  |-> message.kind])
<1> DEFINE entries == Entries(message)
           Trade(n) == [id    |-> entries[n].id,
                        sized |-> entries[n].flaw \notin FlawSize,
                        told  |-> message.kind]
           Def(done, n) == IF entries[n].flaw \in skipped THEN done
                           ELSE Append(done, Trade(n))
           trades[n \in 0 .. Len(entries)] ==
             IF n = 0 THEN <<>>
             ELSE IF entries[n].flaw \in skipped THEN trades[n - 1]
             ELSE Append(trades[n - 1], Trade(n))
<1>1. Len(entries) = Len(message.flaws) /\ Len(entries) \in Nat
  BY DEF Entries
<1>2. \A n \in 1 .. Len(message.flaws) :
        /\ entries[n].id = message.first + n - 1
        /\ entries[n].flaw = message.flaws[n]
  BY DEF Entries
<1>3. Loop(message, skipped) = trades[Len(entries)]
  BY DEF Loop
<1> HIDE DEF entries
<1>4. FiniteNatInductiveDefHypothesis(trades, <<>>, Def, 0, Len(entries))
  BY DEF FiniteNatInductiveDefHypothesis
<1> HIDE DEF trades
<1>5. FiniteNatInductiveDefConclusion(trades, <<>>, Def, 0, Len(entries))
  <2> HIDE DEF Def
  <2> QED BY <1>1, <1>4, FiniteNatInductiveDef
<1>6. trades = [n \in 0 .. Len(entries) |->
                  IF n = 0 THEN <<>> ELSE Def(trades[n - 1], n)]
  BY <1>5 DEF FiniteNatInductiveDefConclusion
<1>7. \A n \in 1 .. Len(message.flaws) :
        Trade(n) = [id    |-> message.first + n - 1,
                    sized |-> message.flaws[n] \notin FlawSize,
                    told  |-> message.kind]
  BY <1>2, Zenon
<1>8. trades[0] = <<>>
  <2> HIDE DEF Def
  <2> QED BY <1>1, <1>6
<1>9. ASSUME NEW n \in 1 .. Len(message.flaws)
      PROVE  trades[n] = IF message.flaws[n] \in skipped THEN trades[n - 1]
                         ELSE Append(trades[n - 1],
                                [id    |-> message.first + n - 1,
                                 sized |-> message.flaws[n] \notin FlawSize,
                                 told  |-> message.kind])
  <2>1. n \in 0 .. Len(entries) /\ n # 0
    BY <1>1
  <2>2. trades[n] = Def(trades[n - 1], n)
    <3> HIDE DEF Def
    <3> QED BY <1>6, <2>1
  <2> HIDE DEF Trade
  <2> QED BY <1>2, <1>7, <2>2, Zenon
<1> QED BY <1>1, <1>3, <1>8, <1>9

\* It yields the entries that are not skipped, in their order, whatever their
\* number.
LEMMA LoopKeeps ==
  ASSUME NEW message, NEW skipped,
         message.flaws \in Seq(Flaws), message.first \in Nat \ {0},
         message.kind \in {"trades", "snapshot"}
  PROVE  /\ Loop(message, skipped) \in Seq(Numbered)
         /\ \A x \in Range(Loop(message, skipped)) : x.told = message.kind
         /\ Rising(Loop(message, skipped))
         /\ Ids(Loop(message, skipped)) =
              {message.first + i - 1 :
                 i \in {i \in DOMAIN message.flaws : message.flaws[i] \notin skipped}}
<1> DEFINE total == Len(message.flaws)
           Kept(n) == {i \in 1 .. n : message.flaws[i] \notin skipped}
           Good(done, n) == /\ done \in Seq(Numbered) /\ Rising(done)
                            /\ \A x \in Range(done) : x.told = message.kind
                            /\ Ids(done) = {message.first + i - 1 : i \in Kept(n)}
<1>1. PICK trades :
        /\ Loop(message, skipped) = trades[total]
        /\ trades[0] = <<>>
        /\ \A n \in 1 .. total :
             trades[n] = IF message.flaws[n] \in skipped THEN trades[n - 1]
                         ELSE Append(trades[n - 1],
                                [id    |-> message.first + n - 1,
                                 sized |-> message.flaws[n] \notin FlawSize,
                                 told  |-> message.kind])
  BY LoopSteps
<1>2. total \in Nat /\ DOMAIN message.flaws = 1 .. total
  OBVIOUS
<1> HIDE DEF total
<1>3. Good(trades[0], 0)
  <2>1. Ids(<<>>) = {} /\ Kept(0) = {} /\ Range(<<>>) = {}
    BY DEF Ids, Range
  <2>2. Rising(<<>>) /\ <<>> \in Seq(Numbered)
    BY DEF Rising
  <2> QED BY <1>1, <2>1, <2>2
<1>4. ASSUME NEW n \in 1 .. total, Good(trades[n - 1], n - 1)
      PROVE  Good(trades[n], n)
  <2> DEFINE done == trades[n - 1]
             trade == [id    |-> message.first + n - 1,
                       sized |-> message.flaws[n] \notin FlawSize,
                       told  |-> message.kind]
  <2>1. /\ trade \in Numbered /\ trade.id = message.first + n - 1
        /\ trade.told = message.kind
    BY <1>2 DEF Numbered
  <2>2. 1 .. n = (1 .. n - 1) \cup {n} /\ n \in Nat
    BY <1>2
  <2>3. done \in Seq(Numbered) /\ Rising(done)
        /\ Ids(done) = {message.first + i - 1 : i \in Kept(n - 1)}
        /\ \A x \in Range(done) : x.told = message.kind
    BY <1>4
  <2>4. CASE message.flaws[n] \in skipped
    <3>1. Kept(n) = Kept(n - 1) /\ trades[n] = done
      BY <1>1, <2>2, <2>4
    <3> HIDE DEF Kept, done
    <3> QED BY <2>3, <3>1
  <2>5. CASE message.flaws[n] \notin skipped
    <3>1. Kept(n) = Kept(n - 1) \cup {n} /\ trades[n] = Append(done, trade)
      BY <1>1, <2>2, <2>5
    <3>2. \A i \in Kept(n - 1) : message.first + i - 1 < message.first + n - 1
      BY <1>2, <2>2
    <3> HIDE DEF done, trade
    <3>3. \A x \in Range(done) : x.id < trade.id
      <4> HIDE DEF Kept
      <4>1. \A x \in Range(done) : x.id \in Ids(done)
        BY DEF Ids
      <4> QED BY <2>1, <2>3, <3>2, <4>1
    <3>4. /\ Append(done, trade) \in Seq(Numbered)
          /\ Range(Append(done, trade)) = Range(done) \cup {trade}
          /\ Rising(Append(done, trade))
          /\ \A x \in Range(Append(done, trade)) : x.told = message.kind
      BY <2>1, <2>3, <3>3, RangeOfQueue, RisingQueue
    <3>5. Ids(Append(done, trade)) = Ids(done) \cup {trade.id}
      BY <3>4 DEF Ids
    <3>6. {message.first + i - 1 : i \in Kept(n)} =
            {message.first + i - 1 : i \in Kept(n - 1)} \cup {trade.id}
      <4> HIDE DEF Kept
      <4>1. {message.first + i - 1 : i \in Kept(n - 1) \cup {n}} =
              {message.first + i - 1 : i \in Kept(n - 1)}
                \cup {message.first + n - 1}
        OBVIOUS
      <4> QED BY <2>1, <3>1, <4>1
    <3> HIDE DEF Kept
    <3>7. Ids(trades[n]) = {message.first + i - 1 : i \in Kept(n)}
      BY <2>3, <3>1, <3>5, <3>6, Zenon
    <3> QED BY <3>1, <3>4, <3>7
  <2> HIDE DEF Kept
  <2> QED BY <2>4, <2>5
<1> HIDE DEF Good
<1>5. Good(trades[total], total)
  <2> DEFINE bad == {n \in 0 .. total : ~Good(trades[n], n)}
  <2>1. SUFFICES ASSUME bad # {} PROVE FALSE
    BY <1>2
  <2>2. bad \subseteq Nat
    OBVIOUS
  <2>3. PICK n \in bad : \A m \in bad : n <= m
    <3> HIDE DEF bad
    <3> QED BY <2>1, <2>2, LeastOfNats
  <2>4. n # 0 /\ n \in 0 .. total
    BY <1>3, <2>3
  <2>5. n - 1 \in 0 .. total /\ n \in 1 .. total /\ ~(n <= n - 1)
    BY <1>2, <2>4
  <2>6. Good(trades[n - 1], n - 1)
    BY <2>3, <2>5
  <2> QED BY <1>4, <2>3, <2>5, <2>6
<1> QED BY <1>1, <1>2, <1>5 DEF Good

\* Nothing is made of what a loop was never started on.
LEMMA NothingOfNothing ==
  <<>> \in Seq(Numbered) /\ Rising(<<>>) /\ Ids(<<>>) = {} /\ Range(<<>>) = {}
BY DEF Rising, Ids, Range

\* The numbers of the entries that are whole.
Whole(message) ==
  {message.first + i - 1 :
     i \in {i \in DOMAIN message.flaws : message.flaws[i] = "none"}}

\* Every feed makes trades of entries of the message, in their order, and of
\* all that are owed, and two of them of trades told of as they are made only.
LEMMA NormalizedKeeps ==
  ASSUME NEW message \in Messages(MaxTrades), exchange \in Exchanges
  PROVE  /\ Normalized(exchange, message) \in Seq(Numbered)
         /\ Rising(Normalized(exchange, message))
         /\ Ids(Normalized(exchange, message)) \subseteq Numbers(message)
         /\ Owed(message) \subseteq Ids(Normalized(exchange, message))
         /\ \A x \in Range(Normalized(exchange, message)) :
              /\ x.told = message.kind
              /\ exchange \in {"Kraken", "Bitstamp"} => x.told = "trades"
<1> DEFINE got == Normalized(exchange, message)
<1>1. /\ message.flaws \in Seq(Flaws) /\ message.first \in Nat \ {0}
      /\ message.kind \in {"trades", "snapshot", "other"}
  BY FeedAssumption DEF Messages
<1>2. ASSUME NEW skipped, "none" \notin skipped,
             message.kind \in {"trades", "snapshot"}
      PROVE  /\ Loop(message, skipped) \in Seq(Numbered)
             /\ \A x \in Range(Loop(message, skipped)) : x.told = message.kind
             /\ Rising(Loop(message, skipped))
             /\ Ids(Loop(message, skipped)) \subseteq Numbers(message)
             /\ Whole(message) \subseteq Ids(Loop(message, skipped))
  BY <1>1, <1>2, LoopKeeps DEF Numbers, Whole
<1>3. /\ "none" \notin {"not a trade"} \cup FlawPrice \cup FlawSize
      /\ "none" \notin {"not a trade", "no time"} \cup FlawPrice \cup FlawSize
      /\ "none" \notin {"not a trade"} \cup FlawPrice
  BY DEF FlawPrice, FlawSize
<1>4. Owed(message) \subseteq Whole(message)
  <2>1. \A x \in Range(Entries(message)) : x.flaw = "none" => x.id \in Whole(message)
    <3>1. /\ DOMAIN Entries(message) = DOMAIN message.flaws
          /\ \A i \in DOMAIN message.flaws :
               /\ Entries(message)[i].id = message.first + i - 1
               /\ Entries(message)[i].flaw = message.flaws[i]
      BY DEF Entries
    <3>2. \A x \in Range(Entries(message)) :
            \E i \in DOMAIN message.flaws : x = Entries(message)[i]
      BY <3>1 DEF Range
    <3> QED BY <3>1, <3>2 DEF Whole
  <2> QED BY <2>1 DEF Owed
<1>5. /\ message.kind # "trades" => Owed(message) = {}
      /\ exchange \in {"Coinbase", "Bitstamp"} /\ Misses(message)
           => Owed(message) = {}
  BY DEF Owed
<1>6. {} \subseteq Numbers(message)
  OBVIOUS
<1>7. CASE exchange = "Coinbase"
  <2>1. got = IF message.kind \notin {"trades", "snapshot"} \/ Misses(message)
              THEN <<>>
              ELSE Loop(message, {"not a trade"} \cup FlawPrice \cup FlawSize)
    BY <1>7 DEF Normalized, Coinbase
  <2> QED BY <1>1, <1>2, <1>3, <1>4, <1>5, <1>7, <2>1, NothingOfNothing
<1>8. CASE exchange = "Kraken"
  <2>1. got = IF message.kind # "trades" THEN <<>>
              ELSE Loop(message,
                        {"not a trade", "no time"} \cup FlawPrice \cup FlawSize)
    BY <1>8 DEF Normalized, Kraken
  <2> QED BY <1>1, <1>2, <1>3, <1>4, <1>5, <1>8, <2>1, NothingOfNothing
<1>9. CASE exchange = "Gemini"
  <2>1. got = IF message.kind \notin {"trades", "snapshot"} THEN <<>>
              ELSE Loop(message, {"not a trade"} \cup FlawPrice \cup FlawSize)
    BY <1>9 DEF Normalized, Gemini
  <2> QED BY <1>1, <1>2, <1>3, <1>4, <1>5, <1>9, <2>1, NothingOfNothing
<1>10. CASE exchange = "Bitstamp"
  <2>1. got = IF message.kind # "trades" \/ Misses(message) THEN <<>>
              ELSE Loop(message, {"not a trade"} \cup FlawPrice \cup FlawSize)
    BY <1>10 DEF Normalized, Bitstamp
  <2> QED BY <1>1, <1>2, <1>3, <1>4, <1>5, <1>10, <2>1, NothingOfNothing
<1>11. CASE exchange = "CryptoCom"
  <2>1. got = IF message.kind \notin {"trades", "snapshot"} THEN <<>>
              ELSE Loop(message, {"not a trade"} \cup FlawPrice)
    BY <1>11 DEF Normalized, CryptoCom
  <2> QED BY <1>1, <1>2, <1>3, <1>4, <1>5, <1>11, <2>1, NothingOfNothing
<1> QED BY <1>7, <1>8, <1>9, <1>10, <1>11 DEF Exchanges

-----------------------------------------------------------------------------
(* The steps. *)

\* At first nothing was sent.
LEMMA InitFeed == Init => FeedInv /\ FlawCostsItself
<1> SUFFICES ASSUME Init PROVE FeedInv /\ FlawCostsItself
  OBVIOUS
<1>1. Range(<<>>) = {} /\ Rising(<<>>)
  BY DEF Range, Rising
<1>2. TypeOK
  BY FeedAssumption DEF Init, TypeOK, Links
<1>3. Told /\ Sent /\ FlawCostsItself
  BY <1>1 DEF Init, Told, Sent, Before, OnTheWay, FlawCostsItself
<1> QED BY <1>2, <1>3 DEF FeedInv

\* A message that tells of the trades just made, or of none, may be added to
\* those that wait.
LEMMA TellMore ==
  ASSUME FeedInv, NEW m \in Messages(MaxTrades),
         UNCHANGED <<exchange, link, flow, retries>>,
         made' \in 0 .. MaxTrades, made' >= made,
         inbox' = Append(inbox, m), Len(inbox) < MaxInbox,
         m.first + Len(m.flaws) - 1 <= made',
         m.kind = "trades" => m.first = made + 1
  PROVE  FeedInv'
<1>1. /\ inbox \in Seq(Messages(MaxTrades)) /\ made \in Nat /\ made' \in Nat
      /\ \A x \in Messages(MaxTrades) : x.first \in Nat /\ Len(x.flaws) \in Nat
  <2>1. \A x \in Messages(MaxTrades) : x.first \in Nat /\ x.flaws \in Seq(Flaws)
    BY FeedAssumption DEF Messages
  <2> QED BY <2>1, FeedAssumption, SMTT(40) DEF FeedInv, TypeOK
<1>2. /\ inbox' \in Seq(Messages(MaxTrades))
      /\ Range(inbox') = Range(inbox) \cup {m}
      /\ Range(inbox) \subseteq Messages(MaxTrades)
      /\ \A i \in DOMAIN inbox : inbox[i] \in Range(inbox)
  BY <1>1, RangeOfQueue
<1>3. /\ DOMAIN inbox' = 1 .. Len(inbox) + 1 /\ Len(inbox') = Len(inbox) + 1
      /\ \A i \in 1 .. Len(inbox) : inbox'[i] = inbox[i]
      /\ inbox'[Len(inbox) + 1] = m /\ DOMAIN inbox = 1 .. Len(inbox)
      /\ Len(inbox) \in Nat
  BY <1>1
<1>4. TypeOK'
  BY <1>2, <1>3, FeedAssumption DEF FeedInv, TypeOK, flow, retries
<1>5. Told'
  <2>1. ASSUME NEW x \in Range(inbox')
        PROVE  x.first + Len(x.flaws) - 1 <= made'
    <3>1. CASE x = m
      BY <3>1
    <3>2. CASE x \in Range(inbox)
      <4>1. x.first + Len(x.flaws) - 1 <= made
        BY <3>2 DEF FeedInv, Told
      <4>2. x.first \in Nat /\ Len(x.flaws) \in Nat
        BY <1>1, <1>2, <3>2
      <4> QED BY <1>1, <4>1, <4>2
    <3> QED BY <1>2, <3>1, <3>2
  <2>2. ASSUME NEW i \in DOMAIN inbox', NEW j \in DOMAIN inbox', i < j,
               inbox'[j].kind = "trades"
        PROVE  inbox'[i].first + Len(inbox'[i].flaws) <= inbox'[j].first
    <3>1. i \in 1 .. Len(inbox) /\ (j \in 1 .. Len(inbox) \/ j = Len(inbox) + 1)
      BY <1>3, <2>2
    <3>2. CASE j \in 1 .. Len(inbox)
      BY <1>3, <2>2, <3>1, <3>2 DEF FeedInv, Told
    <3>3. CASE j = Len(inbox) + 1
      <4>1. inbox[i].first + Len(inbox[i].flaws) - 1 <= made
        BY <1>2, <1>3, <3>1 DEF FeedInv, Told
      <4>2. inbox'[j].first = made + 1 /\ inbox'[i] = inbox[i]
        BY <1>3, <2>2, <3>1, <3>3
      <4>3. inbox[i].first \in Nat /\ Len(inbox[i].flaws) \in Nat
        BY <1>1, <1>2, <1>3, <3>1
      <4>4. inbox[i].first + Len(inbox[i].flaws) <= made + 1
        <5> DEFINE from == inbox[i].first
                   many == Len(inbox[i].flaws)
        <5>1. from + many - 1 <= made /\ from \in Nat /\ many \in Nat /\ made \in Nat
          BY <1>1, <4>1, <4>3
        <5> HIDE DEF from, many
        <5>2. from + many <= made + 1
          BY <5>1
        <5> QED BY <5>2 DEF from, many
      <4> QED BY <4>2, <4>4
    <3> QED BY <3>1, <3>2, <3>3
  <2> QED BY <2>1, <2>2 DEF Told
<1>6. Sent'
  <2>1. /\ UNCHANGED <<merged, channel, inHand>>
        /\ \A x \in OnTheWay : x.id \in Nat
    <3>1. \A q \in Seq(Trades(MaxTrades)) : Range(q) \subseteq Trades(MaxTrades)
      BY DEF Range
    <3>2. \A x \in Trades(MaxTrades) : x.id \in Nat
      BY FeedAssumption DEF Trades
    <3> QED BY <3>1, <3>2 DEF FeedInv, TypeOK, OnTheWay, flow
  <2>2. ASSUME NEW x \in OnTheWay
        PROVE  /\ x.id <= made'
               /\ \A y \in Range(inbox') : y.kind = "trades" => x.id < y.first
    <3>1. /\ x.id <= made
          /\ \A y \in Range(inbox) : y.kind = "trades" => x.id < y.first
      BY DEF FeedInv, Sent
    <3> QED BY <1>1, <1>2, <2>1, <3>1, SMTT(40)
  <2>3. OnTheWay' = OnTheWay
    BY <2>1 DEF OnTheWay
  <2> QED BY <2>1, <2>2, <2>3 DEF FeedInv, Sent
<1> QED BY <1>4, <1>5, <1>6 DEF FeedInv

\* The numbers on the way and in the messages are numbers.
LEMMA NumbersType ==
  ASSUME FeedInv
  PROVE  /\ made \in Nat /\ \A x \in OnTheWay : x.id \in Nat
         /\ \A m \in Messages(MaxTrades) : /\ m.first \in Nat \ {0}
                                           /\ Len(m.flaws) \in Nat
         /\ Range(inbox) \subseteq Messages(MaxTrades)
         /\ \A i \in DOMAIN inbox : inbox[i] \in Range(inbox)
<1>1. \A m \in Messages(MaxTrades) : m.first \in Nat \ {0} /\ m.flaws \in Seq(Flaws)
  BY FeedAssumption DEF Messages
<1>2. \A q \in Seq(Trades(MaxTrades)) : Range(q) \subseteq Trades(MaxTrades)
  BY DEF Range
<1>3. \A x \in Trades(MaxTrades) : x.id \in Nat
  BY FeedAssumption DEF Trades
<1>4. /\ Range(inbox) \subseteq Messages(MaxTrades)
      /\ \A i \in DOMAIN inbox : inbox[i] \in Range(inbox)
  BY RangeOfQueue DEF FeedInv, TypeOK
<1> QED BY <1>1, <1>2, <1>3, <1>4, FeedAssumption DEF FeedInv, TypeOK, OnTheWay

\* The exchange makes trades, and perhaps tells of them.
LEMMA TradingStep == FeedInv /\ Trading => FeedInv'
<1> SUFFICES ASSUME FeedInv, Trading PROVE FeedInv'
  OBVIOUS
<1>1. PICK n \in 1 .. IF exchange = "Bitstamp" THEN 1 ELSE MaxMessage :
        /\ made + n <= MaxTrades
        /\ made' = made + n
        /\ \/ UNCHANGED inbox
           \/ /\ link = "open" /\ Len(inbox) < MaxInbox
              /\ \E flaws \in [1 .. n -> Flaws] :
                   inbox' = Append(inbox, [kind |-> "trades", first |-> made + 1,
                                           flaws |-> flaws])
        /\ UNCHANGED <<exchange, link, flow, retries>>
  BY DEF Trading
<1>2. n \in Nat \ {0} /\ made \in Nat /\ made' \in 0 .. MaxTrades /\ made' >= made
  BY <1>1, NumbersType, FeedAssumption
<1>3. CASE UNCHANGED inbox
  <2>1. TypeOK'
    BY <1>1, <1>2, <1>3 DEF FeedInv, TypeOK, flow, retries
  <2>2. Told'
    <3>1. ASSUME NEW m \in Range(inbox) PROVE m.first + Len(m.flaws) - 1 <= made'
      <4>1. m.first \in Nat /\ Len(m.flaws) \in Nat
        BY NumbersType
      <4>2. m.first + Len(m.flaws) - 1 <= made
        BY DEF FeedInv, Told
      <4> QED BY <1>2, <4>1, <4>2
    <3> QED BY <1>1, <1>3, <3>1 DEF FeedInv, Told
  <2>3. Sent'
    <3>1. \A x \in OnTheWay : x.id <= made'
      BY <1>2, NumbersType DEF FeedInv, Sent
    <3> QED BY <1>1, <1>3, <3>1 DEF FeedInv, Sent, OnTheWay, flow
  <2> QED BY <2>1, <2>2, <2>3 DEF FeedInv
<1>4. CASE ~UNCHANGED inbox
  <2>1. PICK flaws \in [1 .. n -> Flaws] :
          inbox' = Append(inbox, [kind |-> "trades", first |-> made + 1,
                                  flaws |-> flaws])
    BY <1>1, <1>4
  <2> DEFINE m == [kind |-> "trades", first |-> made + 1, flaws |-> flaws]
  <2>2. m \in Messages(MaxTrades)
    <3>1. n \in 0 .. MaxTrades /\ made + 1 \in 1 .. MaxTrades
      BY <1>1, <1>2, FeedAssumption
    <3> QED BY <3>1 DEF Messages
  <2>3. /\ m.first = made + 1 /\ Len(m.flaws) = n
        /\ m.kind = "trades" /\ Len(inbox) < MaxInbox /\ inbox' = Append(inbox, m)
    BY <1>1, <1>2, <1>4, <2>1
  <2> HIDE DEF m
  <2>4. m.first + Len(m.flaws) - 1 <= made'
    BY <1>1, <1>2, <2>3
  <2> QED BY <1>1, <1>2, <2>2, <2>3, <2>4, TellMore
<1> QED BY <1>3, <1>4

\* A message without trades changes nothing.
LEMMA ChatterStep == FeedInv /\ Chatter => FeedInv'
<1> SUFFICES ASSUME FeedInv, Chatter PROVE FeedInv'
  OBVIOUS
<1> DEFINE m == [kind |-> "other", first |-> 1, flaws |-> <<>>]
<1>1. m \in Messages(MaxTrades)
  <2>1. <<>> \in [1 .. 0 -> Flaws] /\ 0 \in 0 .. MaxTrades /\ 1 \in 1 .. MaxTrades
    BY FeedAssumption
  <2> QED BY <2>1 DEF Messages
<1>2. m.kind = "other" /\ m.first = 1 /\ Len(m.flaws) = 0
  OBVIOUS
<1>3. /\ inbox' = Append(inbox, m) /\ Len(inbox) < MaxInbox
      /\ UNCHANGED <<exchange, made, link, flow, retries>>
  BY DEF Chatter
<1> HIDE DEF m
<1>4. made' \in 0 .. MaxTrades /\ made' >= made /\ m.first + Len(m.flaws) - 1 <= made'
  BY <1>2, <1>3, NumbersType, FeedAssumption DEF FeedInv, TypeOK
<1> QED BY <1>1, <1>2, <1>3, <1>4, TellMore

\* A new connection begins with no message, or with a snapshot of the latest
\* trades that were made.
LEMMA OpenedStep ==
  ASSUME FeedInv, Opened, UNCHANGED <<exchange, made, flow, retries>>
  PROVE  FeedInv'
<1>1. inbox' = <<>> \/ \E n \in 1 .. made : inbox' = <<Snapshot(n)>>
  BY DEF Opened, Greetings
<1>2. CASE inbox' = <<>>
  <2>1. /\ Range(inbox') = {} /\ DOMAIN inbox' = {} /\ Len(inbox') = 0
        /\ inbox' \in Seq(Messages(MaxTrades))
    BY <1>2 DEF Range
  <2>2. TypeOK'
    BY <2>1, FeedAssumption DEF FeedInv, TypeOK, Opened, flow, retries, Links
  <2>3. Told' /\ Sent'
    BY <2>1 DEF FeedInv, Told, Sent, OnTheWay, flow
  <2> QED BY <2>2, <2>3 DEF FeedInv
<1>3. ASSUME NEW n \in 1 .. made, inbox' = <<Snapshot(n)>>
      PROVE  FeedInv'
  <2> DEFINE m == Snapshot(n)
  <2>1. made \in 0 .. MaxTrades /\ made \in Nat /\ n \in 0 .. MaxTrades
    BY FeedAssumption DEF FeedInv, TypeOK
  <2>2. /\ m.kind = "snapshot" /\ m.first = made - n + 1
        /\ m.flaws = [i \in 1 .. n |-> "none"] /\ Len(m.flaws) = n
    BY <2>1 DEF Snapshot
  <2>3. m \in Messages(MaxTrades)
    <3>1. made - n + 1 \in 1 .. MaxTrades
      BY <2>1, FeedAssumption
    <3>2. [i \in 1 .. n |-> "none"] \in [1 .. n -> Flaws]
      BY DEF Flaws
    <3> QED BY <2>1, <3>1, <3>2 DEF Snapshot, Messages
  <2> HIDE DEF m
  <2>4. /\ inbox' \in Seq(Messages(MaxTrades)) /\ Len(inbox') = 1
        /\ Range(inbox') = {m} /\ DOMAIN inbox' = {1}
    BY <1>3, <2>3 DEF Range, m
  <2>5. TypeOK'
    BY <2>4, FeedAssumption DEF FeedInv, TypeOK, Opened, flow, retries, Links
  <2>6. m.first + Len(m.flaws) - 1 <= made
    BY <2>1, <2>2
  <2>7. Told' /\ Sent'
    BY <2>2, <2>4, <2>6 DEF FeedInv, Told, Sent, OnTheWay, flow
  <2> QED BY <2>5, <2>7 DEF FeedInv
<1> QED BY <1>1, <1>2, <1>3

\* A connection is opened with the attempt, or with the subscription.
LEMMA ConnectStep ==
  ASSUME FeedInv, Connected \/ Subscribed
  PROVE  FeedInv'
<1>1. UNCHANGED <<exchange, made, flow, retries>>
  BY DEF Connected, Subscribed
<1>2. CASE Opened
  BY <1>1, <1>2, OpenedStep
<1>3. CASE ~Opened
  <2>1. link' = "subscribing" /\ UNCHANGED inbox
    BY <1>3 DEF Connected, Subscribed
  <2> QED BY <1>1, <2>1
          DEF FeedInv, TypeOK, Told, Sent, OnTheWay, flow, retries, Links
<1> QED BY <1>2, <1>3

\* What neither the messages nor the trades see.
LEMMA QuietStep ==
  ASSUME FeedInv, Failed \/ Retry
  PROVE  FeedInv'
<1>1. /\ link' \in Links /\ backoff' \in BASE .. CAP
      /\ ended' \in 0 .. MaxEnded /\ waited' \in Nat
      /\ UNCHANGED <<exchange, made, inbox, flow>>
  <2>1. CASE Retry
    <3>1. /\ backoff \in Nat /\ BASE \in Nat /\ CAP \in Nat /\ BASE <= backoff
          /\ backoff <= CAP /\ ended \in 0 .. MaxEnded /\ waited \in Nat
      BY FeedAssumption DEF FeedInv, TypeOK
    <3>2. backoff' \in BASE .. CAP
      BY <2>1, <3>1, FeedAssumption DEF Retry, Doubled
    <3>3. \A slept \in Jitter(backoff) : slept \in Nat
      BY <3>1 DEF Jitter
    <3>4. ended' \in 0 .. MaxEnded /\ waited' \in Nat
      BY <2>1, <3>1, <3>3, FeedAssumption DEF Retry
    <3> QED BY <2>1, <3>2, <3>4 DEF Retry, Links
  <2>2. CASE Failed
    BY <2>2 DEF Failed, Links, FeedInv, TypeOK, retries
  <2> QED BY <2>1, <2>2
<1> QED BY <1>1 DEF FeedInv, TypeOK, Told, Sent, OnTheWay, flow

\* The messages of an ended connection are gone.
LEMMA EndedStep == FeedInv /\ Ended => FeedInv'
<1> SUFFICES ASSUME FeedInv, Ended PROVE FeedInv'
  OBVIOUS
<1>1. /\ inbox' = <<>> /\ link' = "waiting"
      /\ UNCHANGED <<exchange, made, flow, retries>>
  BY DEF Ended
<1>2. Range(<<>>) = {}
  BY DEF Range
<1> QED BY <1>1, <1>2, FeedAssumption
        DEF FeedInv, TypeOK, Told, Sent, OnTheWay, flow, retries, Links

\* A message is read: its trades come after all that are on the way, and
\* before those of the messages that wait.
LEMMA ReceiveStep == FeedInv /\ Receive => FeedInv'
<1> SUFFICES ASSUME FeedInv, Receive PROVE FeedInv'
  OBVIOUS
<1> DEFINE m == Head(inbox)
           got == Normalized(exchange, m)
<1>1. /\ inbox \in Seq(Messages(MaxTrades)) /\ inbox # <<>> /\ inHand = <<>>
      /\ inbox' = Tail(inbox) /\ inHand' = got /\ owed' = owed \cup Owed(m)
      /\ UNCHANGED <<exchange, made, link, channel, merged, dropped, retries>>
  BY DEF FeedInv, TypeOK, Receive
<1>2. /\ m \in Messages(MaxTrades) /\ m = inbox[1]
      /\ inbox' \in Seq(Messages(MaxTrades)) /\ Len(inbox') = Len(inbox) - 1
      /\ Range(inbox) = {m} \cup Range(inbox')
      /\ DOMAIN inbox = 1 .. Len(inbox) /\ Len(inbox) \in Nat \ {0}
      /\ \A i \in 1 .. Len(inbox) - 1 : inbox'[i] = inbox[i + 1]
  BY <1>1, RangeOfQueue
<1>3. /\ got \in Seq(Numbered) /\ Rising(got) /\ Ids(got) \subseteq Numbers(m)
      /\ Owed(m) \subseteq Ids(got)
      /\ \A x \in Range(got) :
           /\ x.told = m.kind
           /\ exchange \in {"Kraken", "Bitstamp"} => x.told = "trades"
  <2>1. exchange \in Exchanges
    BY DEF FeedInv, TypeOK
  <2> HIDE DEF m
  <2> QED BY <1>2, <2>1, NormalizedKeeps
<1> HIDE DEF m, got
<1>4. /\ m.first \in Nat \ {0} /\ Len(m.flaws) \in Nat /\ made \in 0 .. MaxTrades
      /\ m.first + Len(m.flaws) - 1 <= made /\ m.flaws \in Seq(Flaws)
  <2>1. m.first + Len(m.flaws) - 1 <= made
    BY <1>2 DEF FeedInv, Told
  <2>2. m.flaws \in Seq(Flaws)
    BY <1>2 DEF Messages
  <2> QED BY <1>2, <2>1, <2>2, NumbersType DEF FeedInv, TypeOK
<1>5. \A k \in Numbers(m) :
        k \in 1 .. made /\ m.first <= k /\ k < m.first + Len(m.flaws)
  <2> DEFINE from == m.first
             many == Len(m.flaws)
  <2>1. /\ from \in Nat \ {0} /\ many \in Nat /\ made \in Nat
        /\ from + many - 1 <= made /\ DOMAIN m.flaws = 1 .. many
    BY <1>4
  <2>2. Numbers(m) = {from + i - 1 : i \in 1 .. many}
    BY <2>1 DEF Numbers
  <2> HIDE DEF from, many
  <2>3. \A i \in 1 .. many : /\ from + i - 1 \in 1 .. made
                             /\ from <= from + i - 1 /\ from + i - 1 < from + many
    BY <2>1
  <2>4. \A k \in Numbers(m) : k \in 1 .. made /\ from <= k /\ k < from + many
    BY <2>2, <2>3
  <2> QED BY <2>4 DEF from, many
<1>6. \A x \in Range(got) : /\ x.id \in 1 .. made /\ m.first <= x.id
                            /\ x.id < m.first + Len(m.flaws)
  <2>1. \A x \in Range(got) : x.id \in Ids(got)
    BY DEF Ids
  <2> QED BY <1>3, <1>5, <2>1
<1>7. got \in Seq(Trades(MaxTrades))
  <2>1. \A i \in 1 .. Len(got) : got[i] \in Range(got) /\ got[i] \in Numbered
    BY <1>3, RangeOfQueue
  <2>2. \A i \in 1 .. Len(got) : got[i] \in Trades(MaxTrades)
    BY <1>4, <1>6, <2>1, FeedAssumption DEF Numbered, Trades
  <2> QED BY <1>3, <2>2
<1>8. TypeOK'
  <2>1. Owed(m) \subseteq 1 .. MaxTrades
    BY <1>3, <1>4, <1>5, FeedAssumption
  <2>2. Len(inbox') <= MaxInbox
    BY <1>1, <1>2, FeedAssumption DEF FeedInv, TypeOK
  <2> QED BY <1>1, <1>2, <1>7, <2>1, <2>2 DEF FeedInv, TypeOK, retries
<1>9. Told'
  <2>1. ASSUME NEW i \in DOMAIN inbox', NEW j \in DOMAIN inbox', i < j,
               inbox'[j].kind = "trades"
        PROVE  inbox'[i].first + Len(inbox'[i].flaws) <= inbox'[j].first
    <3>1. i \in 1 .. Len(inbox) - 1 /\ j \in 1 .. Len(inbox) - 1
      BY <1>2
    <3>2. i + 1 \in DOMAIN inbox /\ j + 1 \in DOMAIN inbox /\ i + 1 < j + 1
      BY <1>2, <2>1, <3>1
    <3> QED BY <1>2, <2>1, <3>1, <3>2 DEF FeedInv, Told
  <2> QED BY <1>1, <1>2, <2>1 DEF FeedInv, Told
<1>10. Sent'
  <2>1. /\ Range(inHand) = {} /\ OnTheWay = Range(merged) \cup Range(channel)
        /\ OnTheWay' = OnTheWay \cup Range(got)
    BY <1>1 DEF OnTheWay, Range
  <2>2. ASSUME NEW x \in OnTheWay, NEW y \in Range(got), y.told = "trades"
        PROVE  x.id < y.id
    <3>1. x.id < m.first /\ x.id \in Nat
      BY <1>2, <1>3, <2>2, NumbersType DEF FeedInv, Sent
    <3> QED BY <1>4, <1>6, <3>1
  <2>3. ASSUME NEW y \in Range(got), NEW z \in Range(inbox'), z.kind = "trades"
        PROVE  y.id < z.first
    <3>1. PICK i \in 1 .. Len(inbox) - 1 : z = inbox'[i]
      BY <1>2, RangeOfQueue
    <3>2. /\ 1 \in DOMAIN inbox /\ i + 1 \in DOMAIN inbox
          /\ 1 < i + 1 /\ inbox[i + 1] = z
      BY <1>2, <3>1
    <3>3. m.first + Len(m.flaws) <= z.first
      BY <1>2, <1>6, <2>3, <3>2 DEF FeedInv, Told
    <3>4. z.first \in Nat
      BY <1>2, NumbersType
    <3> QED BY <1>4, <1>6, <3>3, <3>4
  <2>4. \A x \in OnTheWay \cup Range(got) :
          /\ x.id <= made
          /\ \A z \in Range(inbox') : z.kind = "trades" => x.id < z.first
          /\ exchange \in {"Kraken", "Bitstamp"} => x.told = "trades"
    BY <1>2, <1>3, <1>6, <2>3 DEF FeedInv, Sent
  <2>5. Before(merged, got) /\ Before(channel, got)
    BY <2>1, <2>2 DEF Before
  <2> QED BY <1>1, <1>3, <2>1, <2>4, <2>5 DEF FeedInv, Sent
<1> QED BY <1>8, <1>9, <1>10 DEF FeedInv

\* The first trade in hand is offered.
LEMMA OfferStep == FeedInv /\ Offer => FeedInv'
<1> SUFFICES ASSUME FeedInv, Offer PROVE FeedInv'
  OBVIOUS
<1> DEFINE trade == Head(inHand)
<1>1. /\ inHand \in Seq(Trades(MaxTrades)) /\ inHand # <<>>
      /\ channel \in Seq(Trades(MaxTrades)) /\ inHand' = Tail(inHand)
      /\ channel' = IF Len(channel) < ChannelCapacity
                    THEN Append(channel, trade) ELSE channel
      /\ dropped' = IF Len(channel) < ChannelCapacity
                    THEN dropped ELSE dropped \cup {trade.id}
      /\ UNCHANGED <<exchange, made, link, inbox, merged, owed, retries>>
  BY DEF FeedInv, TypeOK, Offer
<1>2. /\ trade \in Trades(MaxTrades) /\ inHand' \in Seq(Trades(MaxTrades))
      /\ Range(inHand) = {trade} \cup Range(inHand')
      /\ Rising(inHand')
      /\ \A x \in Range(inHand') : x.told = "trades" => trade.id < x.id
  BY <1>1, RangeOfQueue, RisingQueue DEF FeedInv, Sent
<1> HIDE DEF trade
<1>3. trade.told = "trades" =>
        \A x \in Range(channel) \cup Range(merged) : x.id < trade.id
  BY <1>2 DEF FeedInv, Sent, Before
<1>4. /\ channel' \in Seq(Trades(MaxTrades)) /\ Rising(channel')
      /\ Range(channel') \subseteq Range(channel) \cup {trade}
      /\ Len(channel') <= ChannelCapacity
  <2>1. CASE Len(channel) < ChannelCapacity
    <3>1. channel' = Append(channel, trade) /\ Len(channel') = Len(channel) + 1
      BY <1>1, <2>1
    <3>2. Len(channel') <= ChannelCapacity
      BY <1>1, <2>1, <3>1, FeedAssumption
    <3> QED BY <1>1, <1>2, <1>3, <3>1, <3>2, RangeOfQueue, RisingQueue
            DEF FeedInv, Sent
  <2>2. CASE ~(Len(channel) < ChannelCapacity)
    BY <1>1, <2>2 DEF FeedInv, Sent, TypeOK
  <2> QED BY <2>1, <2>2
<1>5. TypeOK'
  <2>1. trade.id \in 1 .. MaxTrades
    BY <1>2 DEF Trades
  <2> QED BY <1>1, <1>2, <1>4, <2>1 DEF FeedInv, TypeOK, retries
<1>6. Told'
  BY <1>1 DEF FeedInv, Told
<1>7. Sent'
  <2>1. OnTheWay' \subseteq OnTheWay
    BY <1>1, <1>2, <1>4 DEF OnTheWay
  <2>2. /\ Before(merged, channel') /\ Before(merged, inHand')
        /\ Before(channel', inHand')
    BY <1>2, <1>3, <1>4 DEF FeedInv, Sent, Before
  <2> QED BY <1>1, <1>2, <1>4, <2>1, <2>2 DEF FeedInv, Sent
<1> QED BY <1>5, <1>6, <1>7 DEF FeedInv

\* The merger takes the first trade of the channel.
LEMMA MergeStep == FeedInv /\ Merge => FeedInv'
<1> SUFFICES ASSUME FeedInv, Merge PROVE FeedInv'
  OBVIOUS
<1> DEFINE trade == Head(channel)
<1>1. /\ channel \in Seq(Trades(MaxTrades)) /\ channel # <<>>
      /\ merged \in Seq(Trades(MaxTrades)) /\ channel' = Tail(channel)
      /\ merged' = Append(merged, trade)
      /\ UNCHANGED <<exchange, made, link, inbox, inHand, owed, dropped, retries>>
  BY DEF FeedInv, TypeOK, Merge
<1>2. /\ trade \in Trades(MaxTrades) /\ channel' \in Seq(Trades(MaxTrades))
      /\ Range(channel) = {trade} \cup Range(channel')
      /\ Len(channel') = Len(channel) - 1 /\ Len(channel) \in Nat
      /\ Rising(channel')
      /\ \A x \in Range(channel') : x.told = "trades" => trade.id < x.id
  BY <1>1, RangeOfQueue, RisingQueue DEF FeedInv, Sent
<1> HIDE DEF trade
<1>3. trade.told = "trades" => \A x \in Range(merged) : x.id < trade.id
  BY <1>2 DEF FeedInv, Sent, Before
<1>4. /\ merged' \in Seq(Trades(MaxTrades)) /\ Rising(merged')
      /\ Range(merged') = Range(merged) \cup {trade}
  BY <1>1, <1>2, <1>3, RangeOfQueue, RisingQueue DEF FeedInv, Sent
<1>5. TypeOK'
  BY <1>1, <1>2, <1>4, FeedAssumption DEF FeedInv, TypeOK, retries
<1>6. Told'
  BY <1>1 DEF FeedInv, Told
<1>7. Sent'
  <2>1. OnTheWay' = OnTheWay
    BY <1>1, <1>2, <1>4 DEF OnTheWay
  <2>2. /\ Before(merged', channel') /\ Before(merged', inHand)
        /\ Before(channel', inHand)
    BY <1>2, <1>4 DEF FeedInv, Sent, Before
  <2> QED BY <1>1, <1>2, <1>4, <2>1, <2>2 DEF FeedInv, Sent
<1> QED BY <1>5, <1>6, <1>7 DEF FeedInv

\* Every step of the feed, the exchange and the merger.
LEMMA FeedStep == FeedInv /\ [Next]_vars => FeedInv'
<1>1. FeedInv /\ UNCHANGED vars => FeedInv'
  BY DEF FeedInv, TypeOK, Told, Sent, OnTheWay, vars, flow, retries
<1> QED BY <1>1, TradingStep, ChatterStep, ConnectStep, QuietStep, EndedStep,
           ReceiveStep, OfferStep, MergeStep DEF Next

\* Every queue of a feed holds what it is meant to in every behaviour.
THEOREM FeedTypes == Spec => []TypeOK
<1>1. FeedInv => TypeOK
  BY DEF FeedInv
<1> QED BY InitFeed, FeedStep, <1>1, PTL DEF Spec

-----------------------------------------------------------------------------
(* The order. *)

\* Two sequences in order, one before the other, are in order in a row.
LEMMA RisingInARow ==
  ASSUME NEW S, NEW s \in Seq(S), NEW t \in Seq(S),
         Rising(s), Rising(t), Before(s, t)
  PROVE  /\ Rising(s \o t) /\ s \o t \in Seq(S)
         /\ Range(s \o t) = Range(s) \cup Range(t)
<1> DEFINE both == s \o t
<1>1. /\ DOMAIN both = 1 .. Len(s) + Len(t) /\ both \in Seq(S)
      /\ \A i \in 1 .. Len(s) : both[i] = s[i]
      /\ \A i \in Len(s) + 1 .. Len(s) + Len(t) : both[i] = t[i - Len(s)]
      /\ Len(s) \in Nat /\ Len(t) \in Nat
      /\ DOMAIN s = 1 .. Len(s) /\ DOMAIN t = 1 .. Len(t)
  OBVIOUS
<1> HIDE DEF both
<1>2. \A i \in DOMAIN both : \/ i \in DOMAIN s /\ both[i] = s[i]
                             \/ /\ i - Len(s) \in DOMAIN t /\ i > Len(s)
                                /\ both[i] = t[i - Len(s)]
  BY <1>1
<1>3. Rising(both)
  <2> SUFFICES ASSUME NEW i \in DOMAIN both, NEW j \in DOMAIN both, i < j,
                      both[j].told = "trades"
               PROVE  both[i].id < both[j].id
    BY DEF Rising
  <2>1. both[j].told = "trades" /\ i < j
    OBVIOUS
  <2>2. CASE j \in DOMAIN s
    <3>1. i \in DOMAIN s /\ both[i] = s[i] /\ both[j] = s[j]
      BY <1>1, <2>2
    <3> QED BY <2>1, <2>2, <3>1 DEF Rising
  <2>3. CASE i \in DOMAIN s /\ j \notin DOMAIN s
    <3>1. both[i] = s[i] /\ j - Len(s) \in DOMAIN t /\ both[j] = t[j - Len(s)]
      BY <1>1, <1>2, <2>3
    <3>2. s[i] \in Range(s) /\ t[j - Len(s)] \in Range(t)
      BY <2>3, <3>1 DEF Range
    <3> QED BY <2>1, <3>1, <3>2 DEF Before
  <2>4. CASE i \notin DOMAIN s
    <3>1. /\ i - Len(s) \in DOMAIN t /\ both[i] = t[i - Len(s)]
          /\ j - Len(s) \in DOMAIN t /\ both[j] = t[j - Len(s)]
          /\ i - Len(s) < j - Len(s)
      BY <1>1, <1>2, <2>4
    <3> QED BY <2>1, <3>1 DEF Rising
  <2> QED BY <2>2, <2>3, <2>4
<1>4. Range(both) \subseteq Range(s) \cup Range(t)
  BY <1>2 DEF Range
<1>5. Range(s) \cup Range(t) \subseteq Range(both)
  <2>1. \A i \in DOMAIN s : i \in DOMAIN both /\ both[i] = s[i]
    BY <1>1
  <2>2. \A i \in DOMAIN t : i + Len(s) \in DOMAIN both /\ both[i + Len(s)] = t[i]
    BY <1>1
  <2> QED BY <2>1, <2>2 DEF Range
<1> QED BY <1>1, <1>3, <1>4, <1>5 DEF both

\* A trade told of as it was made is passed on once and after all before it, for
\* any number of lost connections, drops and snapshots, at every exchange; and
\* nothing else is passed on by two of the feeds.  (kraken.rs 32-35,
\* bitstamp.rs 43-46, coinbase.rs 91-132)
THEOREM Order == Spec => []InOrderOnce
<1>1. FeedInv => InOrderOnce
  <2> SUFFICES ASSUME FeedInv PROVE InOrderOnce
    OBVIOUS
  <2>1. /\ merged \in Seq(Trades(MaxTrades)) /\ channel \in Seq(Trades(MaxTrades))
        /\ inHand \in Seq(Trades(MaxTrades))
        /\ Rising(merged) /\ Rising(channel) /\ Rising(inHand)
        /\ Before(merged, channel) /\ Before(merged, inHand)
        /\ Before(channel, inHand)
    BY DEF FeedInv, TypeOK, Sent
  <2> DEFINE passed == merged \o channel
             sent   == passed \o inHand
  <2>2. /\ passed \in Seq(Trades(MaxTrades)) /\ Rising(passed)
        /\ Range(passed) = Range(merged) \cup Range(channel)
    BY <2>1, RisingInARow
  <2> HIDE DEF passed
  <2>3. Before(passed, inHand)
    BY <2>1, <2>2 DEF Before
  <2>4. Rising(sent) /\ Range(sent) = Range(passed) \cup Range(inHand)
    BY <2>1, <2>2, <2>3, RisingInARow
  <2> HIDE DEF sent
  <2>5. \A i \in DOMAIN sent : sent[i] \in OnTheWay
    BY <2>2, <2>4 DEF Range, OnTheWay
  <2>6. \A i \in DOMAIN sent :
          exchange \in {"Kraken", "Bitstamp"} => sent[i].told = "trades"
    BY <2>5 DEF FeedInv, Sent
  <2> QED BY <2>4, <2>6 DEF InOrderOnce, Rising, sent, passed
<1> QED BY InitFeed, FeedStep, <1>1, PTL DEF Spec

-----------------------------------------------------------------------------
(* The flaws. *)

\* What is owed stays on the way, is dropped or is merged.
LEMMA FlawStep ==
  ASSUME FeedInv, FlawCostsItself, [Next]_vars
  PROVE  FlawCostsItself'
<1>1. CASE Receive
  <2> DEFINE m == Head(inbox)
             got == Normalized(exchange, m)
  <2>1. /\ inbox \in Seq(Messages(MaxTrades)) /\ inbox # <<>> /\ inHand = <<>>
        /\ exchange \in Exchanges
        /\ inHand' = got /\ owed' = owed \cup Owed(m)
        /\ UNCHANGED <<channel, merged, dropped>>
    BY <1>1 DEF FeedInv, TypeOK, Receive
  <2>2. m \in Messages(MaxTrades)
    BY <2>1, RangeOfQueue
  <2>3. Owed(m) \subseteq Ids(got)
    BY <2>1, <2>2, NormalizedKeeps
  <2>4. Ids(inHand) = {}
    BY <2>1, NothingOfNothing
  <2> HIDE DEF m, got
  <2> QED BY <2>1, <2>3, <2>4 DEF FlawCostsItself, Ids
<1>2. CASE Offer
  <2> DEFINE trade == Head(inHand)
  <2>1. /\ inHand \in Seq(Trades(MaxTrades)) /\ inHand # <<>>
        /\ channel \in Seq(Trades(MaxTrades)) /\ inHand' = Tail(inHand)
        /\ channel' = IF Len(channel) < ChannelCapacity
                      THEN Append(channel, trade) ELSE channel
        /\ dropped' = IF Len(channel) < ChannelCapacity
                      THEN dropped ELSE dropped \cup {trade.id}
        /\ UNCHANGED <<merged, owed>>
    BY <1>2 DEF FeedInv, TypeOK, Offer
  <2>2. /\ trade \in Trades(MaxTrades)
        /\ Range(inHand) = {trade} \cup Range(inHand')
        /\ Range(Append(channel, trade)) = Range(channel) \cup {trade}
    BY <2>1, RangeOfQueue
  <2> HIDE DEF trade
  <2>3. Ids(inHand) = {trade.id} \cup Ids(inHand')
    BY <2>2 DEF Ids
  <2>4. Ids(Append(channel, trade)) = Ids(channel) \cup {trade.id}
    BY <2>2 DEF Ids
  <2>5. dropped' \cup Ids(channel') = dropped \cup Ids(channel) \cup {trade.id}
    BY <2>1, <2>4
  <2>6. Ids(inHand') = Ids(inHand)' /\ Ids(channel') = Ids(channel)'
    BY DEF Ids
  <2> QED BY <2>1, <2>3, <2>5, <2>6 DEF FlawCostsItself, Ids
<1>3. CASE Merge
  <2> DEFINE trade == Head(channel)
  <2>1. /\ channel \in Seq(Trades(MaxTrades)) /\ channel # <<>>
        /\ merged \in Seq(Trades(MaxTrades))
        /\ channel' = Tail(channel) /\ merged' = Append(merged, trade)
        /\ UNCHANGED <<inHand, dropped, owed>>
    BY <1>3 DEF FeedInv, TypeOK, Merge
  <2>2. /\ trade \in Trades(MaxTrades)
        /\ Range(channel) = {trade} \cup Range(channel')
        /\ Range(merged') = Range(merged) \cup {trade}
    BY <2>1, RangeOfQueue
  <2> HIDE DEF trade
  <2> QED BY <2>1, <2>2 DEF FlawCostsItself, Ids
<1>4. CASE ~(Receive \/ Offer \/ Merge)
  <2>1. UNCHANGED flow
    BY <1>4 DEF Next, Trading, Chatter, Connected, Subscribed, Failed, Ended,
                Retry, vars
  <2> QED BY <2>1 DEF FlawCostsItself, Ids, flow
<1> QED BY <1>1, <1>2, <1>3, <1>4

\* A flaw costs its own entry and no other, or its message where a field of it
\* is missing and the exchange is Coinbase or Bitstamp, and never a trade of
\* another message: for any load of the channel.  (gemini.rs 20-21,
\* coinbase.rs 32-41)
THEOREM Flawed == Spec => []FlawCostsItself
<1> QED BY InitFeed, FeedStep, FlawStep, PTL DEF Spec

-----------------------------------------------------------------------------
(* The backoff. *)

\* Each power of two is the double of the one before it: a set has half as many
\* subsets without one of its elements.
LEMMA PowersOfTwo ==
  ASSUME NEW n \in Nat
  PROVE  2 ^ n \in Nat /\ 2 ^ (n + 1) = 2 * 2 ^ n
<1> DEFINE S == SUBSET (1 .. n)
           B == {X \cup {n + 1} : X \in S}
           f == [X \in S |-> X \cup {n + 1}]
<1>1. /\ IsFiniteSet(1 .. n) /\ Cardinality(1 .. n) = n
      /\ IsFiniteSet(1 .. n + 1) /\ Cardinality(1 .. n + 1) = n + 1
  BY FS_Interval
<1>2. /\ IsFiniteSet(S) /\ Cardinality(S) = 2 ^ n
      /\ Cardinality(SUBSET (1 .. n + 1)) = 2 ^ (n + 1)
  BY <1>1, FS_SUBSET
<1>3. Cardinality(S) \in Nat
  BY <1>2, FS_CardinalityType
<1>4. n + 1 \notin 1 .. n /\ 1 .. n + 1 = (1 .. n) \cup {n + 1}
  OBVIOUS
<1>5. SUBSET (1 .. n + 1) = S \cup B
  <2>1. ASSUME NEW Y \in SUBSET (1 .. n + 1) PROVE Y \in S \cup B
    <3>1. CASE n + 1 \in Y
      <4>1. Y \ {n + 1} \in S /\ Y = (Y \ {n + 1}) \cup {n + 1}
        BY <1>4, <3>1
      <4> QED BY <4>1
    <3>2. CASE n + 1 \notin Y
      BY <1>4, <3>2
    <3> QED BY <3>1, <3>2
  <2>2. S \cup B \subseteq SUBSET (1 .. n + 1)
    BY <1>4
  <2> QED BY <2>1, <2>2
<1>6. S \cap B = {}
  BY <1>4
<1>7. IsFiniteSet(B) /\ Cardinality(B) = Cardinality(S)
  <2>1. \A X, Y \in S : X \cup {n + 1} = Y \cup {n + 1} => X = Y
    BY <1>4
  <2> HIDE DEF S
  <2>2. f \in Surjection(S, B)
    BY DEF Surjection
  <2>3. f \in Injection(S, B)
    <3>1. f \in [S -> B] /\ \A X \in S : f[X] = X \cup {n + 1}
      OBVIOUS
    <3> HIDE DEF f, B
    <3> QED BY <2>1, <3>1 DEF Injection, IsInjective
  <2>4. f \in Bijection(S, B)
    BY <2>2, <2>3 DEF Bijection
  <2> HIDE DEF B, f
  <2> QED BY <1>2, <2>4, FS_Bijection DEF ExistsBijection
<1> HIDE DEF S, B
<1>8. Cardinality(S \cup B) = Cardinality(S) + Cardinality(B) - Cardinality({})
  BY <1>2, <1>6, <1>7, FS_Union
<1>9. 2 ^ (n + 1) = Cardinality(S \cup B)
  BY <1>2, <1>5
<1>10. 2 ^ n = Cardinality(S)
  BY <1>2
<1>11. Cardinality(S \cup B) = 2 * Cardinality(S)
  BY <1>3, <1>7, <1>8, FS_EmptySet
<1> QED BY <1>3, <1>9, <1>10, <1>11, Zenon

\* The first backoff, and each one from the one before it.  (coinbase.rs 75-89)
LEMMA BackoffDoubles ==
  /\ Backoff(0) = BASE
  /\ \A n \in Nat : Backoff(n) \in Nat /\ Doubled(Backoff(n)) = Backoff(n + 1)
<1>1. 2 ^ 0 = 1
  <2>1. Cardinality(SUBSET {}) = 2 ^ Cardinality({})
    BY FS_EmptySet, FS_SUBSET
  <2>2. SUBSET {} = {{}}
    OBVIOUS
  <2> QED BY <2>1, <2>2, FS_EmptySet, FS_Singleton
<1>2. Backoff(0) = BASE
  BY <1>1, FeedAssumption DEF Backoff
<1>3. ASSUME NEW n \in Nat
      PROVE  Backoff(n) \in Nat /\ Doubled(Backoff(n)) = Backoff(n + 1)
  <2> DEFINE p == BASE * 2 ^ n
  <2>1. p \in Nat /\ BASE * 2 ^ (n + 1) = 2 * p
    <3>1. \A b, q \in Nat : b * q \in Nat /\ b * (2 * q) = 2 * (b * q)
      OBVIOUS
    <3> QED BY <3>1, PowersOfTwo, FeedAssumption
  <2> HIDE DEF p
  <2>2. /\ Backoff(n) = IF p < CAP THEN p ELSE CAP
        /\ Backoff(n + 1) = IF 2 * p < CAP THEN 2 * p ELSE CAP
    BY <2>1 DEF Backoff, p
  <2> QED BY <2>1, <2>2, FeedAssumption DEF Doubled
<1> QED BY <1>2, <1>3

\* The sum of the first backoffs, and what one more adds to it.
LEMMA BackoffsAdd ==
  /\ Backoffs[0] = 0
  /\ \A n \in 0 .. MaxEnded - 1 : Backoffs[n + 1] = Backoffs[n] + Backoff(n)
<1> DEFINE Def(sum, n) == sum + Backoff(n - 1)
<1>1. FiniteNatInductiveDefHypothesis(Backoffs, 0, Def, 0, MaxEnded)
  BY DEF FiniteNatInductiveDefHypothesis, Backoffs
<1>2. FiniteNatInductiveDefConclusion(Backoffs, 0, Def, 0, MaxEnded)
  <2> HIDE DEF Def
  <2> QED BY <1>1, FiniteNatInductiveDef, FeedAssumption
<1>3. Backoffs = [n \in 0 .. MaxEnded |->
                    IF n = 0 THEN 0 ELSE Def(Backoffs[n - 1], n)]
  BY <1>2 DEF FiniteNatInductiveDefConclusion
<1> HIDE DEF Def
<1>4. Backoffs[0] = 0
  BY <1>3, FeedAssumption
<1>5. ASSUME NEW n \in 0 .. MaxEnded - 1
      PROVE  Backoffs[n + 1] = Backoffs[n] + Backoff(n)
  <2>1. n + 1 \in 0 .. MaxEnded /\ n + 1 # 0 /\ (n + 1) - 1 = n
    BY FeedAssumption
  <2>2. Backoffs[n + 1] = Def(Backoffs[n], n + 1)
    BY <1>3, <2>1
  <2> QED BY <2>1, <2>2 DEF Def
<1> QED BY <1>4, <1>5

\* While they are counted, the backoff is that after the ended connections.
Waiting ==
  /\ ended < MaxEnded => backoff = Backoff(ended)
  /\ Backoffs[ended] \in Nat
  /\ WaitsDouble

\* A retry sleeps one more backoff and doubles it; nothing else does either.
LEMMA WaitingStep == FeedInv /\ Waiting /\ [Next]_vars => Waiting'
<1> SUFFICES ASSUME FeedInv, Waiting, [Next]_vars PROVE Waiting'
  OBVIOUS
<1>1. CASE Retry
  <2>1. CASE ended < MaxEnded
    <3>1. PICK slept \in Jitter(backoff) : waited' = waited + slept
      BY <1>1, <2>1 DEF Retry
    <3>2. /\ ended \in 0 .. MaxEnded - 1 /\ ended' = ended + 1
          /\ backoff' = Doubled(backoff) /\ backoff = Backoff(ended)
      BY <1>1, <2>1, FeedAssumption DEF Retry, Waiting, FeedInv, TypeOK
    <3>3. /\ Backoff(ended) \in Nat /\ backoff' = Backoff(ended + 1)
          /\ Backoffs[ended + 1] = Backoffs[ended] + Backoff(ended)
      BY <3>2, BackoffDoubles, BackoffsAdd, FeedAssumption
    <3>4. 4 * Backoff(ended) <= slept /\ slept <= 6 * Backoff(ended) /\ slept \in Nat
      BY <3>1, <3>2, <3>3 DEF Jitter
    <3>5. waited \in Nat /\ Backoffs[ended] \in Nat
      BY DEF FeedInv, TypeOK, Waiting
    <3>6. /\ 4 * Backoffs[ended + 1] <= waited + slept
          /\ waited + slept <= 6 * Backoffs[ended + 1]
      BY <3>3, <3>4, <3>5 DEF Waiting, WaitsDouble
    <3> QED BY <3>1, <3>2, <3>3, <3>5, <3>6 DEF Waiting, WaitsDouble
  <2>2. CASE ~(ended < MaxEnded)
    BY <1>1, <2>2 DEF Retry, Waiting, WaitsDouble
  <2> QED BY <2>1, <2>2
<1>2. CASE ~Retry
  <2>1. UNCHANGED <<backoff, ended, waited>>
    BY <1>2 DEF Next, vars, retries, flow, Trading, Chatter, Connected, Subscribed,
                Receive, Offer, Failed, Ended, Merge
  <2> QED BY <2>1 DEF Waiting, WaitsDouble
<1> QED BY <1>1, <1>2

\* However often the connection ends, what was slept is the sum of the doubling
\* backoffs within the jitter, for any base and any cap.  (coinbase.rs 75-89)
THEOREM Doubling == Spec => []WaitsDouble
<1>1. Init => Waiting
  <2> SUFFICES ASSUME Init PROVE Waiting
    OBVIOUS
  <2>1. ended = 0 /\ waited = 0 /\ backoff = Backoff(ended)
    BY BackoffDoubles DEF Init
  <2>2. Backoffs[ended] = 0
    BY <2>1, BackoffsAdd
  <2> QED BY <2>1, <2>2 DEF Waiting, WaitsDouble
<1>2. Waiting => WaitsDouble
  BY DEF Waiting
<1> QED BY InitFeed, FeedStep, WaitingStep, <1>1, <1>2, PTL DEF Spec
=============================================================================
