-------------------------------- MODULE Feed --------------------------------
(***************************************************************************)
(* One of the five feeds of services/ingest, from the exchange to the merge  *)
(* channel: connect, subscribe, read and normalize messages, offer their      *)
(* trades, and when the connection ends sleep and connect again, sleeping     *)
(* twice as long each time up to a cap.  The feeds run the same loop with     *)
(* another normalize, and share nothing but the channel, so the feed is       *)
(* chosen at the start.                                                       *)
(*                                                                           *)
(* An exchange numbers its trades.  A silent connection is one on which       *)
(* nothing more happens: after five seconds the code logs it, and waits.      *)
(***************************************************************************)
EXTENDS Normalize

CONSTANTS
  BASE, CAP,        \* of the backoff: 100 ms and 30 s
  ChannelCapacity,  \* MERGE_CHANNEL_CAPACITY
  MaxTrades,        \* bound: entries the exchange sends
  MaxMessage,       \* bound: entries of a message
  MaxInbox,         \* bound: messages received and not yet read
  MaxEnded,         \* bound: ended connections that are counted
  SnapshotAfter     \* bound: ended connections after which a snapshot may come

ASSUME FeedAssumption ==
  /\ BASE \in Nat \ {0} /\ CAP \in Nat /\ CAP >= BASE
  /\ ChannelCapacity \in Nat \ {0}
  /\ MaxTrades \in Nat \ {0} /\ MaxMessage \in Nat /\ MaxInbox \in Nat \ {0}
  /\ MaxEnded \in Nat /\ SnapshotAfter \subseteq Nat

VARIABLES
  exchange,  \* whose feed this is
  made,      \* how many trades the exchange has made
  link,      \* where the task is with its connection
  backoff,   \* backoff_ms
  inbox,     \* messages received and not yet read
  inHand,    \* the trades of the message last read, still to be offered
  channel,   \* the merge channel
  merged,    \* history: the trades the merger has taken
  owed,      \* history: the trades the messages read so far had to yield
  dropped,   \* history: the trades that found the channel full
  ended,     \* history: ended connections, up to MaxEnded
  waited     \* history: what was slept after them, in fifths of BASE's unit

flow    == <<inHand, channel, merged, owed, dropped>>
retries == <<backoff, ended, waited>>
vars    == <<exchange, made, link, inbox, flow, retries>>

Links == {"connecting", "subscribing", "open", "waiting"}

TypeOK ==
  /\ exchange \in Exchanges
  /\ made \in 0 .. MaxTrades
  /\ link \in Links
  /\ inbox \in Seq(Messages(MaxTrades)) /\ Len(inbox) <= MaxInbox
  /\ inHand \in Seq(Trades(MaxTrades))
  /\ channel \in Seq(Trades(MaxTrades)) /\ Len(channel) <= ChannelCapacity
  /\ merged \in Seq(Trades(MaxTrades))
  /\ owed \subseteq 1 .. MaxTrades /\ dropped \subseteq 1 .. MaxTrades
  /\ backoff \in BASE .. CAP
  /\ ended \in 0 .. MaxEnded
  /\ waited \in Nat

Init ==
  /\ exchange \in Exchanges
  /\ made = 0
  /\ link = "connecting"
  /\ backoff = BASE
  /\ inbox = <<>> /\ inHand = <<>> /\ channel = <<>> /\ merged = <<>>
  /\ owed = {} /\ dropped = {}
  /\ ended = 0 /\ waited = 0

-----------------------------------------------------------------------------
(* The exchange. *)

\* It makes trades and tells of them in one message, when the message gets
\* through.  Bitstamp's messages hold one trade.
Trading ==
  \E n \in 1 .. IF exchange = "Bitstamp" THEN 1 ELSE MaxMessage :
    /\ made + n <= MaxTrades
    /\ made' = made + n
    /\ \/ UNCHANGED inbox
       \/ /\ link = "open" /\ Len(inbox) < MaxInbox
          /\ \E flaws \in [1 .. n -> Flaws] :
               inbox' = Append(inbox, [kind |-> "trades", first |-> made + 1,
                                       flaws |-> flaws])
    /\ UNCHANGED <<exchange, link, flow, retries>>

\* It sends something else: an acknowledgement, a heartbeat, or no JSON at all.
Chatter ==
  /\ link = "open" /\ Len(inbox) < MaxInbox
  /\ inbox' = Append(inbox, [kind |-> "other", first |-> 1, flaws |-> <<>>])
  /\ UNCHANGED <<exchange, made, link, flow, retries>>

\* It may begin a connection with the latest n of the trades it has made.
Snapshot(n) == [kind  |-> "snapshot", first |-> made - n + 1,
                flaws |-> [i \in 1 .. n |-> "none"]]

Greetings ==
  {<<>>} \cup {<<Snapshot(n)>> : n \in {k \in 1 .. made : ended \in SnapshotAfter}}

-----------------------------------------------------------------------------
(* connect_and_consume *)

Opened == link' = "open" /\ inbox' \in Greetings

\* Gemini sends without being asked.
Connected ==
  /\ link = "connecting"
  /\ \/ exchange = "Gemini" /\ Opened
     \/ exchange # "Gemini" /\ link' = "subscribing" /\ UNCHANGED inbox
  /\ UNCHANGED <<exchange, made, flow, retries>>

Subscribed ==
  /\ link = "subscribing"
  /\ Opened
  /\ UNCHANGED <<exchange, made, flow, retries>>

\* The entries a message has to yield: those that are whole.  A message that
\* is read into types has to yield them only when no field of it is missing.
Owed(message) ==
  {e.id : e \in {x \in Range(Entries(message)) :
                   /\ message.kind = "trades" /\ x.flaw = "none"
                   /\ exchange \in {"Coinbase", "Bitstamp"} => ~Misses(message)}}

\* A message is read once the trades of the one before it are offered.
Receive ==
  /\ link = "open" /\ inHand = <<>> /\ inbox # <<>>
  /\ inbox' = Tail(inbox)
  /\ inHand' = Normalized(exchange, Head(inbox))
  /\ owed' = owed \cup Owed(Head(inbox))
  /\ UNCHANGED <<exchange, made, link, channel, merged, dropped, retries>>

\* try_send: a trade that finds the channel full is dropped.
Offer ==
  LET trade == Head(inHand)
      room  == Len(channel) < ChannelCapacity
  IN  /\ inHand # <<>>
      /\ inHand' = Tail(inHand)
      /\ channel' = IF room THEN Append(channel, trade) ELSE channel
      /\ dropped' = IF room THEN dropped ELSE dropped \cup {trade.id}
      /\ UNCHANGED <<exchange, made, link, inbox, merged, owed, retries>>

\* An error before the first message.
Failed ==
  /\ link \in {"connecting", "subscribing"}
  /\ link' = "waiting"
  /\ UNCHANGED <<exchange, made, inbox, flow, retries>>

\* The connection is closed or breaks, and what was not read is gone.
Ended ==
  /\ link = "open" /\ inHand = <<>>
  /\ link' = "waiting"
  /\ inbox' = <<>>
  /\ UNCHANGED <<exchange, made, flow, retries>>

Merge ==
  /\ channel # <<>>
  /\ channel' = Tail(channel)
  /\ merged' = Append(merged, Head(channel))
  /\ UNCHANGED <<exchange, made, link, inbox, inHand, owed, dropped, retries>>

-----------------------------------------------------------------------------
(* run *)

\* Mutation: the backoff doubles for ever.
DoubledUncapped(ms) == 2 * ms

Doubled(ms) == IF 2 * ms < CAP THEN 2 * ms ELSE CAP

\* What may be slept, in fifths: the factor is between 0.8 and 1.2.
Jitter(ms) == {4 * ms, 6 * ms}

\* Mutation: a task that has come to the cap gives up.
RetryUpToCap ==
  /\ link = "waiting" /\ backoff < CAP
  /\ link' = "connecting"
  /\ backoff' = Doubled(backoff)
  /\ UNCHANGED <<exchange, made, inbox, flow, ended, waited>>

\* Mutation: the backoff is doubled before the sleep.
RetryDoublesFirst ==
  /\ link = "waiting"
  /\ link' = "connecting"
  /\ backoff' = Doubled(backoff)
  /\ IF ended < MaxEnded
     THEN /\ ended' = ended + 1
          /\ \E slept \in Jitter(backoff') : waited' = waited + slept
     ELSE UNCHANGED <<ended, waited>>
  /\ UNCHANGED <<exchange, made, inbox, flow>>

\* The backoff is never set back, not even after a day of good connection.
Retry ==
  /\ link = "waiting"
  /\ link' = "connecting"
  /\ backoff' = Doubled(backoff)
  /\ IF ended < MaxEnded
     THEN /\ ended' = ended + 1
          /\ \E slept \in Jitter(backoff) : waited' = waited + slept
     ELSE UNCHANGED <<ended, waited>>
  /\ UNCHANGED <<exchange, made, inbox, flow>>

Next ==
  \/ Trading \/ Chatter
  \/ Connected \/ Subscribed \/ Receive \/ Offer \/ Failed \/ Ended
  \/ Merge \/ Retry

\* The task is scheduled, an attempt to connect comes to an end, and an
\* exchange that is tried for ever accepts a connection and a subscription
\* some time.
Fairness ==
  /\ WF_vars(Connected \/ Failed) /\ WF_vars(Subscribed \/ Failed)
  /\ WF_vars(Retry) /\ WF_vars(Receive) /\ WF_vars(Offer) /\ WF_vars(Merge)
  /\ SF_vars(Connected) /\ SF_vars(Subscribed)

Spec == Init /\ [][Next]_vars /\ Fairness
-----------------------------------------------------------------------------
(* Correctness. *)

Ids(seq) == {trade.id : trade \in Range(seq)}

\* A trade that is told of when it is made is passed on once, after all those made
\* before it, however often the connection ended between them and snapshots
\* repeated them.  Kraken's and Bitstamp's feeds pass nothing else on; those of
\* Coinbase, Gemini and Crypto.com look at no type that would mark a snapshot and
\* pass its trades on again.  (kraken.rs 32-35, bitstamp.rs 43-46,
\* coinbase.rs 27-48, gemini.rs 31-52, cryptocom.rs 20-32)
InOrderOnce ==
  LET sent == merged \o channel \o inHand
  IN  /\ \A i, j \in DOMAIN sent :
           i < j /\ sent[j].told = "trades" => sent[i].id < sent[j].id
      /\ exchange \in {"Kraken", "Bitstamp"} =>
           \A i \in DOMAIN sent : sent[i].told = "trades"

\* A flaw costs its own entry and no other, except that a field which is missing
\* costs its message where messages are read into structs (Coinbase, Bitstamp);
\* it never costs a trade of another message.  All else that was whole is on its
\* way, unless it found the channel full.  (gemini.rs 20-21, coinbase.rs 32-41)
FlawCostsItself ==
  owed \subseteq dropped \cup Ids(inHand) \cup Ids(channel) \cup Ids(merged)

\* The backoff after n ended connections, and the sum of the first n backoffs.
Backoff(n) == IF BASE * 2 ^ n < CAP THEN BASE * 2 ^ n ELSE CAP

Backoffs[n \in 0 .. MaxEnded] ==
  IF n = 0 THEN 0 ELSE Backoffs[n - 1] + Backoff(n - 1)

\* What was slept after n ended connections is the sum of n backoffs, each the
\* double of the one before it up to the cap, within the jitter.  (README.md:150)
WaitsDouble ==
  4 * Backoffs[ended] <= waited /\ waited <= 6 * Backoffs[ended]

\* A feed whose connection ended is connected again, however often the
\* exchange refuses.  (coinbase.rs 75-89)
ComesBack == link = "waiting" ~> link = "open"
=============================================================================
