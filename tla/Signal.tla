------------------------------- MODULE Signal -------------------------------
(***************************************************************************)
(* The signal service (services/signal/src): index estimates come in, two    *)
(* momentum detectors classify each, and a direction they agree on twice in  *)
(* a row is turned into opportunities on the markets that the poller has     *)
(* listed last.  The opportunities go through a bounded ring to the          *)
(* executor.                                                                 *)
(*                                                                           *)
(* Index values are whole dollars, prices and probabilities whole cents and  *)
(* percent.  The logistic model and the synthetic price are any value of a   *)
(* given set.  Estimates carry the receipt time of a trade: they reach the   *)
(* engine late, and the trades of two exchanges not always in order.         *)
(***************************************************************************)
EXTENDS RollingWindow

CONSTANTS
  Tickers,       \* market tickers of the series
  Strike,        \* floor_strike of each market
  ClosesAt,      \* closes_at of each market
  Values,        \* index values an estimate may have
  Quotes,        \* bids the exchange may list, 0 when there is none
  Synthetic,     \* YES prices synthetic_prices may compute, within 1 .. 99
  Probs,         \* P(YES) of the model, clamped to 5 .. 95
  SAMPLES,       \* 20, the length of the delta buffer
  WINDOW,        \* 30 s, the span of the spike window
  UP, DOWN,      \* 15 and 25 dollars, thresholds of the spike detector
  CONFIRMS,      \* 2, direction_confirms_required
  CountMax,      \* 255, where the u8 count of confirmations saturates
  COOLDOWN,      \* 30 s between two opportunities on a ticker
  TOO_LATE,      \* 300 s, the time to its close a market must have
  MAX_DISTANCE,  \* 30 dollars from the strike
  MIN_EDGE,      \* 5 percent
  RingSize,      \* OPP_RING_CAPACITY
  MaxLag,        \* how late an estimate reaches the engine
  MaxClock,      \* bound: the clock stops here
  MaxEstimates,  \* bound: estimates in a behaviour
  None           \* the absent value

Markets == [yes: 0 .. 99, no: 0 .. 99, synthetic: BOOLEAN]

ASSUME SignalAssumption ==
  /\ Strike \in [Tickers -> Nat] /\ ClosesAt \in [Tickers -> Nat]
  /\ Values \subseteq Nat \ {0} /\ Quotes \subseteq 0 .. 99
  /\ Synthetic \subseteq 1 .. 99 /\ Probs \subseteq 5 .. 95
  /\ SAMPLES \in Nat \ {0} /\ WINDOW \in Nat
  /\ UP \in Nat /\ DOWN \in Nat
  /\ CONFIRMS \in 1 .. CountMax /\ CountMax \in Nat
  /\ COOLDOWN \in Nat \ {0} /\ TOO_LATE \in Nat
  /\ MAX_DISTANCE \in Nat /\ MIN_EDGE \in Nat
  /\ RingSize \in Nat \ {0}
  /\ MaxLag \in Nat /\ MaxClock \in Nat /\ MaxEstimates \in Nat
  /\ None \notin Markets /\ None \notin {"Up", "Down"}

VARIABLES
  clock,
  markets,    \* the watch channel between poller and engine
  index,      \* brti_est, the latest value as the poller reads it
  delta,      \* BrtiDeltaDetector.buffer
  spike,      \* SpikeDetector.samples
  lastDir,    \* last_non_neutral_direction
  confirms,   \* direction_confirm_count
  lastOpp,    \* ticker_last_opp_ms; -COOLDOWN where the map has no entry
  outbox,     \* opportunities of the last estimate still to be pushed
  ring,       \* the ring to the executor
  estimates,  \* how many estimates have been ingested
  reports,    \* history: what the detectors said of the last two estimates
  emitted     \* history: every opportunity the engine returned

vars == <<clock, markets, index, delta, spike, lastDir, confirms, lastOpp,
          outbox, ring, estimates, reports, emitted>>

Directions == {"Up", "Down", "Neutral"}

Silence == [spike |-> "Neutral", delta |-> "Neutral"]

Opportunities == [ticker: Tickers, dir: {"Up", "Down"}, at: Nat]

TypeOK ==
  /\ clock \in 0 .. MaxClock
  /\ markets \in [Tickers -> Markets \cup {None}]
  /\ index \in Values \cup {0}
  /\ delta \in Seq([value: Values, at: Nat]) /\ Len(delta) <= SAMPLES
  /\ spike \in Seq([value: Values, at: Nat])
  /\ lastDir \in {"Up", "Down", None}
  /\ confirms \in 0 .. CountMax
  /\ lastOpp \in [Tickers -> Int]
  /\ outbox \subseteq Opportunities
  /\ ring \in Seq(Opportunities) /\ Len(ring) <= RingSize
  /\ estimates \in 0 .. MaxEstimates
  /\ reports \in [1 .. 2 -> [spike: Directions, delta: Directions]]
  /\ emitted \subseteq Opportunities

Init ==
  /\ clock = 0
  /\ markets = [t \in Tickers |-> None]
  /\ index = 0
  /\ delta = <<>> /\ spike = <<>>
  /\ lastDir = None /\ confirms = 0
  /\ lastOpp = [t \in Tickers |-> -COOLDOWN]
  /\ outbox = {} /\ ring = <<>>
  /\ estimates = 0
  /\ reports = <<Silence, Silence>> /\ emitted = {}

Pass ==
  /\ clock < MaxClock
  /\ clock' = clock + 1
  /\ UNCHANGED <<markets, index, delta, spike, lastDir, confirms, lastOpp,
                 outbox, ring, estimates, reports, emitted>>

-----------------------------------------------------------------------------
(* The poller.  It sleeps five seconds between two fetches; a fetch takes    *)
(* any time and may fail, after which the old list stays in use.             *)

\* A market as fetch_active_btc_markets lists it: without a YES bid it gets a
\* price computed from the index, if there is one.
Listed(t, yes, no) ==
  IF yes = 0 /\ index # 0 /\ Strike[t] # 0 /\ ClosesAt[t] > clock
  THEN {[yes |-> y, no |-> 100 - y, synthetic |-> TRUE] : y \in Synthetic}
  ELSE {[yes |-> yes, no |-> no, synthetic |-> FALSE]}

Listings(t) == UNION {Listed(t, yes, no) : yes \in Quotes, no \in Quotes}

\* A response without "markets" is an empty list.
Poll ==
  /\ markets' \in [Tickers -> {None} \cup UNION {Listings(t) : t \in Tickers}]
  /\ \A t \in Tickers : markets'[t] \in {None} \cup Listings(t)
  /\ UNCHANGED <<clock, index, delta, spike, lastDir, confirms, lastOpp,
                 outbox, ring, estimates, reports, emitted>>

-----------------------------------------------------------------------------
(* The detectors. *)

\* Mutation: the buffer is one sample too long before it drops one.
PushDeltaLate(est) ==
  LET longer == Append(delta, est)
  IN  IF Len(longer) > SAMPLES + 1 THEN Tail(longer) ELSE longer

PushDelta(est) ==
  LET longer == Append(delta, est)
  IN  IF Len(longer) > SAMPLES THEN Tail(longer) ELSE longer

PushSpike(est) == Evict(Append(spike, est), Minus(est.at, WINDOW))

\* The move over a buffer, newest minus oldest.
Move(samples) == samples[Len(samples)].value - samples[1].value

\* More than 0.01 percent of the oldest value.
DeltaDirection(samples) ==
  IF Len(samples) < 2 THEN "Neutral"
  ELSE IF 10000 * Move(samples) > samples[1].value THEN "Up"
  ELSE IF 10000 * Move(samples) < -samples[1].value THEN "Down"
  ELSE "Neutral"

SpikeDirection(samples) ==
  IF Len(samples) < 2 THEN "Neutral"
  ELSE IF Move(samples) > UP THEN "Up"
  ELSE IF Move(samples) < -DOWN THEN "Down"
  ELSE "Neutral"

\* Mutation: one detector is enough, and up wins a conflict.
EitherWins(report) ==
  IF "Up" \in {report.spike, report.delta} THEN "Up"
  ELSE IF "Down" \in {report.spike, report.delta} THEN "Down"
  ELSE "Neutral"

\* The direction both detectors report, or the one that is not neutral.
Consensus(report) ==
  LET said == {report.spike, report.delta} \ {"Neutral"}
  IN  CASE said = {"Up"}   -> "Up"
        [] said = {"Down"} -> "Down"
        [] OTHER           -> "Neutral"

-----------------------------------------------------------------------------
(* SignalEngine::ingest *)

\* Mutation: the count of confirmations wraps.
CountWraps(count) == (count + 1) % (CountMax + 1)

Count(count) == IF count = CountMax THEN CountMax ELSE count + 1

Confirm(dir) ==
  /\ lastDir' = IF dir = "Neutral" THEN None ELSE dir
  /\ confirms' = IF dir = "Neutral" THEN 0
                 ELSE IF dir = lastDir THEN Count(confirms)
                 ELSE 1

Distance(t, value) ==
  IF value > Strike[t] THEN value - Strike[t] ELSE Strike[t] - value

Edge(market, dir, prob) ==
  IF dir = "Up" THEN prob - market.yes ELSE (100 - prob) - market.no

\* Mutation: the time since the last opportunity may be negative.
RestedEitherWay(t, at) == at - lastOpp[t] >= COOLDOWN \/ at < lastOpp[t]

\* The last opportunity on the ticker is a cooldown or more ago; an estimate
\* stamped before it counts as just after it.
Rested(t, at) == Minus(at, lastOpp[t]) >= COOLDOWN

\* Far enough from its close, with both prices, near its strike, and with an
\* edge.
Worth(t, est, dir, prob) ==
  /\ markets[t] # None
  /\ Minus(ClosesAt[t], clock) >= TOO_LATE
  /\ markets[t].yes # 0 /\ markets[t].no # 0
  /\ Distance(t, est.value) <= MAX_DISTANCE
  /\ Edge(markets[t], dir, prob) >= MIN_EDGE

\* The markets an estimate makes an opportunity of.
Picked(est, dir, probs) ==
  {t \in Tickers : Worth(t, est, dir, probs[t]) /\ Rested(t, est.at)}

Emit(est, dir, confirmed, probs) ==
  LET picked == IF dir = "Neutral" \/ ~confirmed THEN {}
                ELSE Picked(est, dir, probs)
  IN  /\ lastOpp' = [t \in Tickers |->
                       IF t \in picked THEN est.at ELSE lastOpp[t]]
      /\ outbox' = {[ticker |-> t, dir |-> dir, at |-> est.at] : t \in picked}
      /\ emitted' = emitted \cup outbox'

\* An estimate is popped once the opportunities of the one before are pushed.
Ingest ==
  /\ outbox = {}
  /\ estimates < MaxEstimates
  /\ estimates' = estimates + 1
  /\ \E value \in Values, lag \in 0 .. MaxLag, probs \in [Tickers -> Probs] :
       LET est    == [value |-> value, at |-> Minus(clock, lag)]
           report == [spike |-> SpikeDirection(PushSpike(est)),
                      delta |-> DeltaDirection(PushDelta(est))]
           dir    == Consensus(report)
       IN  /\ index' = value
           /\ delta' = PushDelta(est)
           /\ spike' = PushSpike(est)
           /\ Confirm(dir)
           /\ Emit(est, dir, confirms' >= CONFIRMS, probs)
           /\ reports' = <<reports[2], report>>
  /\ UNCHANGED <<clock, markets, ring>>

\* try_push: an opportunity that finds the ring full is dropped.
Push ==
  /\ \E opp \in outbox :
       /\ outbox' = outbox \ {opp}
       /\ ring' = IF Len(ring) < RingSize THEN Append(ring, opp) ELSE ring
  /\ UNCHANGED <<clock, markets, index, delta, spike, lastDir, confirms,
                 lastOpp, estimates, reports, emitted>>

\* The executor, at its own pace.
Pop ==
  /\ ring # <<>>
  /\ ring' = Tail(ring)
  /\ UNCHANGED <<clock, markets, index, delta, spike, lastDir, confirms,
                 lastOpp, outbox, estimates, reports, emitted>>

Next == Pass \/ Poll \/ Ingest \/ Push \/ Pop

Spec == Init /\ [][Next]_vars

-----------------------------------------------------------------------------
(* Correctness. *)

\* What the two detectors said supports a direction: neither is against it
\* and one at least is for it.
Supports(report, dir) ==
  /\ {report.spike, report.delta} \subseteq {dir, "Neutral"}
  /\ dir \in {report.spike, report.delta}

\* No opportunity without two estimates in a row that both detectors support:
\* a neutral or a conflicting estimate between two supporting ones starts the
\* count again, and so does one of the other direction.  (engine.rs 79-117,
\* README.md 104)
SupportedTwice ==
  \A opp \in outbox : \A i \in 1 .. 2 : Supports(reports[i], opp.dir)

\* Two opportunities on a ticker are a cooldown apart in the time of their
\* estimates, whatever order the estimates came in, and whatever became of
\* the first.  (engine.rs 215-226)
OpportunitiesSpaced ==
  \A a, b \in emitted :
    a.ticker = b.ticker /\ a # b =>
      a.at - b.at >= COOLDOWN \/ b.at - a.at >= COOLDOWN

\* A direction that is confirmed stays confirmed as long as every estimate
\* supports it, for however long.  (saturating_add of a u8, engine.rs 108-116)
ConfirmationLasts ==
  [][confirms >= CONFIRMS /\ lastDir' = lastDir => confirms' >= CONFIRMS]_vars

\* The spike detector measures a move over its window and no longer: the
\* sample it compares the newest with is not older, although estimates may
\* come out of order and nothing but the front is looked at.  (spike.rs 23-34)
SpikeWithinWindow ==
  spike # <<>> => spike[1].at >= spike[Len(spike)].at - WINDOW
=============================================================================
