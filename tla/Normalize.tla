------------------------------ MODULE Normalize -----------------------------
(***************************************************************************)
(* The normalize functions of the five feeds: which entries of a message      *)
(* become trades.  Entries are numbered; each is whole, or is no trade, or     *)
(* has one flaw: a field that is missing (or of another JSON type) or one      *)
(* that does not parse.  The exchange's time is recorded and nothing else, so   *)
(* a flaw of it is kept only for the entries that it costs.                   *)
(***************************************************************************)
EXTENDS Integers, SequencesExt

Exchanges == {"Coinbase", "Kraken", "Gemini", "Bitstamp", "CryptoCom"}

FlawPrice == {"no price", "bad price"}
FlawSize  == {"no size", "bad size"}
FlawTime  == {"no time", "bad time"}
Missing   == {"no price", "no size", "no time"}

Flaws == {"none", "not a trade"} \cup FlawPrice \cup FlawSize \cup FlawTime

\* The entries of a message are numbered from first on.  A snapshot is a message
\* that repeats trades made before the connection and is marked as one: by its
\* type, as an answer to the subscription, or as another event.
Messages(max) ==
  [kind: {"trades", "snapshot", "other"}, first: 1 .. max,
   flaws: UNION {[1 .. n -> Flaws] : n \in 0 .. max}]

\* A trade, whether it has a size or got 0.0 for one, and the kind of message
\* that told of it.
Trades(max) == [id: 1 .. max, sized: BOOLEAN, told: {"trades", "snapshot"}]

Entries(message) ==
  [i \in DOMAIN message.flaws |->
     [id |-> message.first + i - 1, flaw |-> message.flaws[i]]]

\* The loop over the entries, with a continue for those that are skipped.
Loop(message, skipped) ==
  LET entries == Entries(message)
      trades[n \in 0 .. Len(entries)] ==
        IF n = 0 THEN <<>>
        ELSE IF entries[n].flaw \in skipped THEN trades[n - 1]
        ELSE Append(trades[n - 1], [id    |-> entries[n].id,
                                    sized |-> entries[n].flaw \notin FlawSize,
                                    told  |-> message.kind])
  IN  trades[Len(entries)]

Misses(message) == Range(message.flaws) \cap Missing # {}

\* Deserialized into types: one missing field and there is no message.  The
\* type of an event is not looked at.
Coinbase(message) ==
  IF message.kind \notin {"trades", "snapshot"} \/ Misses(message) THEN <<>>
  ELSE Loop(message, {"not a trade"} \cup FlawPrice \cup FlawSize)

\* Mutation: the type of the message is not looked at.
KrakenAnyType(message) ==
  IF message.kind \notin {"trades", "snapshot"} THEN <<>>
  ELSE Loop(message, {"not a trade", "no time"} \cup FlawPrice \cup FlawSize)

\* Only messages of type update.
Kraken(message) ==
  IF message.kind # "trades" THEN <<>>
  ELSE Loop(message, {"not a trade", "no time"} \cup FlawPrice \cup FlawSize)

\* Mutation: the first entry that cannot be read ends the loop.
GeminiAborts(message) ==
  IF message.kind = "other" \/ message.flaws[1] # "none" THEN <<>>
  ELSE Loop(message, {"not a trade"} \cup FlawPrice \cup FlawSize)

\* The time is that of the message, and of its type nothing but a heartbeat is
\* told apart.
Gemini(message) ==
  IF message.kind \notin {"trades", "snapshot"} THEN <<>>
  ELSE Loop(message, {"not a trade"} \cup FlawPrice \cup FlawSize)

\* A message is one trade, deserialized into types; only the event trade is.
Bitstamp(message) ==
  IF message.kind # "trades" \/ Misses(message) THEN <<>>
  ELSE Loop(message, {"not a trade"} \cup FlawPrice \cup FlawSize)

\* A size that cannot be read is zero.  An update and the answer to the
\* subscription have the same method.
CryptoCom(message) ==
  IF message.kind \notin {"trades", "snapshot"} THEN <<>>
  ELSE Loop(message, {"not a trade"} \cup FlawPrice)

Normalized(exchange, message) ==
  CASE exchange = "Coinbase"  -> Coinbase(message)
    [] exchange = "Kraken"    -> Kraken(message)
    [] exchange = "Gemini"    -> Gemini(message)
    [] exchange = "Bitstamp"  -> Bitstamp(message)
    [] exchange = "CryptoCom" -> CryptoCom(message)
=============================================================================
