---------------------------- MODULE SignalProofs ----------------------------
(***************************************************************************)
(* What the signal engine promises of its opportunities, for any markets,    *)
(* thresholds, cooldown, ring and lateness of the estimates.                 *)
(***************************************************************************)
EXTENDS Signal, RollingWindowProofs

-----------------------------------------------------------------------------
(* Two opportunities on a ticker are a cooldown apart. *)

\* Every opportunity is at or before the time the engine remembers for its
\* ticker; a time can only be replaced by one a cooldown later.
SpacingInv ==
  /\ clock \in Nat
  /\ lastOpp \in [Tickers -> Int]
  /\ \A opp \in emitted : /\ opp.ticker \in Tickers /\ opp.at \in Nat
                          /\ opp.at <= lastOpp[opp.ticker]
  /\ OpportunitiesSpaced

\* The stamp of an estimate, late or not, is a time.  (normalize.rs 4-9)
LEMMA StampIsTime ==
  ASSUME NEW x \in Nat, NEW y \in Nat
  PROVE  Minus(x, y) \in Nat
BY DEF Minus

\* A ticker that has rested was used a cooldown before, at least, and an
\* estimate that is stamped before its last use finds it not rested.
\* (saturating_sub, engine.rs 219-224)
LEMMA RestedIsLater ==
  ASSUME lastOpp \in [Tickers -> Int], NEW t \in Tickers, NEW at \in Nat,
         Rested(t, at)
  PROVE  at >= lastOpp[t] + COOLDOWN
BY SignalAssumption DEF Rested, Minus

\* Emission keeps the invariant: a new opportunity is a cooldown after the
\* time of its ticker, hence after every older one on it.
LEMMA EmitSpaces ==
  ASSUME SpacingInv, clock' = clock,
         NEW est, est.at \in Nat, NEW dir, NEW probs, NEW confirmed,
         Emit(est, dir, confirmed, probs)
  PROVE  SpacingInv'
<1> DEFINE picked == IF dir = "Neutral" \/ ~confirmed THEN {}
                     ELSE Picked(est, dir, probs)
<1>1. /\ lastOpp' = [t \in Tickers |-> IF t \in picked THEN est.at ELSE lastOpp[t]]
      /\ outbox' = {[ticker |-> t, dir |-> dir, at |-> est.at] : t \in picked}
      /\ emitted' = emitted \cup outbox'
  BY DEF Emit
<1>2. /\ picked \subseteq Tickers
      /\ \A t \in picked : Rested(t, est.at)
  BY DEF Picked
<1> HIDE DEF picked
<1>3. \A t \in picked : est.at >= lastOpp[t] + COOLDOWN
  BY <1>2, RestedIsLater DEF SpacingInv
<1>4. lastOpp' \in [Tickers -> Int]
  BY <1>1 DEF SpacingInv
<1>5. \A t \in Tickers : lastOpp'[t] >= lastOpp[t]
  BY <1>1, <1>3, SignalAssumption DEF SpacingInv
<1>6. \A opp \in outbox' : /\ opp.ticker \in picked /\ opp.at = est.at
                           /\ opp = [ticker |-> opp.ticker, dir |-> dir,
                                     at |-> est.at]
  BY <1>1
<1>7. \A opp \in emitted' : /\ opp.ticker \in Tickers /\ opp.at \in Nat
                            /\ opp.at <= lastOpp'[opp.ticker]
  <2>1. ASSUME NEW opp \in outbox'
        PROVE  /\ opp.ticker \in Tickers /\ opp.at \in Nat
               /\ opp.at <= lastOpp'[opp.ticker]
    BY <1>1, <1>2, <1>6
  <2>2. ASSUME NEW opp \in emitted
        PROVE  /\ opp.ticker \in Tickers /\ opp.at \in Nat
               /\ opp.at <= lastOpp'[opp.ticker]
    BY <1>4, <1>5 DEF SpacingInv
  <2> QED  BY <1>1, <2>1, <2>2
<1>8. ASSUME NEW a \in outbox', NEW b \in emitted, a.ticker = b.ticker
      PROVE  a.at - b.at >= COOLDOWN
  <2>1. /\ a.ticker \in picked /\ a.at = est.at  BY <1>6
  <2>2. a.at >= lastOpp[a.ticker] + COOLDOWN     BY <2>1, <1>3
  <2>3. /\ b.at \in Nat /\ b.at <= lastOpp[a.ticker] /\ lastOpp[a.ticker] \in Int
    BY <1>2, <2>1, <1>8 DEF SpacingInv
  <2> QED  BY <2>1, <2>2, <2>3, SignalAssumption
<1>9. OpportunitiesSpaced'
  <2> SUFFICES ASSUME NEW a \in emitted', NEW b \in emitted',
                      a.ticker = b.ticker, a # b
               PROVE  a.at - b.at >= COOLDOWN \/ b.at - a.at >= COOLDOWN
    BY DEF OpportunitiesSpaced
  <2>1. CASE a \in emitted /\ b \in emitted
    BY <2>1 DEF SpacingInv, OpportunitiesSpaced
  <2>2. CASE a \in outbox' /\ b \in emitted  BY <2>2, <1>8
  <2>3. CASE a \in emitted /\ b \in outbox'  BY <2>3, <1>8
  <2>4. CASE a \in outbox' /\ b \in outbox'
    <3>1. a = b  BY <2>4, <1>6
    <3> QED  BY <3>1
  <2> QED  BY <1>1, <2>1, <2>2, <2>3, <2>4
<1> QED  BY <1>4, <1>7, <1>9 DEF SpacingInv

\* Two opportunities on a ticker are a cooldown apart in the time of their
\* estimates, whatever order those came in.  (engine.rs 215-226)
THEOREM Spacing == Spec => []OpportunitiesSpaced
<1>1. Init => SpacingInv
  BY SignalAssumption DEF Init, SpacingInv, OpportunitiesSpaced
<1>2. SpacingInv /\ [Next]_vars => SpacingInv'
  <2> SUFFICES ASSUME SpacingInv, [Next]_vars PROVE SpacingInv'
    OBVIOUS
  <2>1. CASE Ingest
    <3>1. PICK value \in Values, lag \in 0 .. MaxLag, probs \in [Tickers -> Probs] :
            \E dir, confirmed :
              Emit([value |-> value, at |-> Minus(clock, lag)], dir, confirmed,
                   probs)
      BY <2>1 DEF Ingest
    <3>2. Minus(clock, lag) \in Nat
      <4>1. lag \in Nat /\ clock \in Nat
        BY SignalAssumption DEF SpacingInv
      <4> QED  BY <4>1, StampIsTime
    <3>3. clock' = clock  BY <2>1 DEF Ingest
    <3> QED  BY <3>1, <3>2, <3>3, EmitSpaces
  <2>2. CASE Pass \/ Poll \/ Push \/ Pop \/ UNCHANGED vars
    <3>1. lastOpp' = lastOpp /\ emitted' = emitted
      BY <2>2 DEF Pass, Poll, Push, Pop, vars
    <3>2. clock' = clock \/ clock' = clock + 1
      BY <2>2 DEF Pass, Poll, Push, Pop, vars
    <3> QED  BY <3>1, <3>2 DEF SpacingInv, OpportunitiesSpaced
  <2> QED  BY <2>1, <2>2 DEF Next
<1>3. SpacingInv => OpportunitiesSpaced
  BY DEF SpacingInv
<1> QED  BY <1>1, <1>2, <1>3, PTL DEF Spec

-----------------------------------------------------------------------------
(* No opportunity without two supporting estimates. *)

\* What the count of confirmations stands for: the last estimate, or the last
\* two, support the direction that is remembered.
SupportInv ==
  /\ confirms \in Nat
  /\ confirms >= 1 => Supports(reports[2], lastDir)
  /\ confirms >= 2 => Supports(reports[1], lastDir)
  /\ SupportedTwice

\* A direction that comes out of the consensus is one both detectors support.
LEMMA ConsensusSupports ==
  ASSUME NEW report, Consensus(report) # "Neutral"
  PROVE  Supports(report, Consensus(report))
<1> DEFINE said == {report.spike, report.delta} \ {"Neutral"}
<1>1. CASE said = {"Up"}
  <2>1. Consensus(report) = "Up"  BY <1>1 DEF Consensus
  <2> QED  BY <1>1, <2>1 DEF Supports
<1>2. CASE said = {"Down"}
  <2>1. "Down" # "Up"  OBVIOUS
  <2>2. Consensus(report) = "Down"  BY <1>2, <2>1 DEF Consensus
  <2> QED  BY <1>2, <2>2 DEF Supports
<1>3. CASE said # {"Up"} /\ said # {"Down"}
  BY <1>3 DEF Consensus
<1> QED  BY <1>1, <1>2, <1>3

\* No opportunity without two estimates in a row that both detectors support,
\* if two or more confirmations are required.  (engine.rs 79-117)
THEOREM Support == ASSUME CONFIRMS >= 2 PROVE Spec => []SupportedTwice
<1>1. Init => SupportInv
  BY DEF Init, SupportInv, SupportedTwice
<1>2. SupportInv /\ [Next]_vars => SupportInv'
  <2> SUFFICES ASSUME SupportInv, [Next]_vars PROVE SupportInv'
    OBVIOUS
  <2>1. CASE Ingest
    <3>1. PICK est, probs, report :
            /\ Confirm(Consensus(report))
            /\ Emit(est, Consensus(report), confirms' >= CONFIRMS, probs)
            /\ reports' = <<reports[2], report>>
      BY <2>1 DEF Ingest
    <3> DEFINE dir == Consensus(report)
    <3>2. reports'[1] = reports[2] /\ reports'[2] = report
      BY <3>1
    <3>3. CASE dir = "Neutral"
      <4>1. confirms' = 0        BY <3>1, <3>3 DEF Confirm
      <4>2. outbox' = {}         BY <3>1, <3>3 DEF Emit
      <4> QED  BY <4>1, <4>2 DEF SupportInv, SupportedTwice
    <3>4. CASE dir # "Neutral"
      <4>1. Supports(report, dir)  BY <3>4, ConsensusSupports
      <4>2. lastDir' = dir         BY <3>1, <3>4 DEF Confirm
      <4>3. /\ confirms' \in Nat
            /\ confirms' >= 2 => Supports(reports[2], dir)
        <5>1. CASE dir = lastDir
          <6>1. confirms' = Count(confirms)
            BY <3>1, <3>4, <5>1 DEF Confirm
          <6>2. confirms' \in Nat /\ confirms' <= confirms + 1
            BY <6>1, SignalAssumption DEF Count, SupportInv
          <6>3. confirms' >= 2 => confirms >= 1
            BY <6>2 DEF SupportInv
          <6> QED  BY <6>2, <6>3, <5>1 DEF SupportInv
        <5>2. CASE dir # lastDir
          <6>1. confirms' = 1
            BY <3>1, <3>4, <5>2 DEF Confirm
          <6> QED  BY <6>1
        <5> QED  BY <5>1, <5>2
      <4>4. \A opp \in outbox' : opp.dir = dir /\ confirms' >= CONFIRMS
        BY <3>1 DEF Emit
      <4>5. \A opp \in outbox' : opp.dir = dir /\ confirms' >= 2
        BY <4>3, <4>4, SignalAssumption
      <4>6. SupportedTwice'
        <5> SUFFICES ASSUME NEW opp \in outbox', NEW i \in 1 .. 2
                     PROVE  Supports(reports'[i], opp.dir)
          BY DEF SupportedTwice, Supports
        <5>1. opp.dir = dir /\ Supports(reports[2], dir)
          BY <4>3, <4>5
        <5>2. i = 1 \/ i = 2  OBVIOUS
        <5> QED  BY <5>1, <5>2, <3>2, <4>1
      <4>7. /\ confirms' >= 1 => Supports(reports'[2], lastDir')
            /\ confirms' >= 2 => Supports(reports'[1], lastDir')
        BY <3>2, <4>1, <4>2, <4>3
      <4> QED  BY <4>3, <4>6, <4>7 DEF SupportInv, Supports
    <3> QED  BY <3>3, <3>4
  <2>2. CASE Pass \/ Poll \/ Push \/ Pop \/ UNCHANGED vars
    <3>1. /\ confirms' = confirms /\ lastDir' = lastDir /\ reports' = reports
          /\ outbox' \subseteq outbox
      BY <2>2 DEF Pass, Poll, Push, Pop, vars
    <3> QED  BY <3>1 DEF SupportInv, SupportedTwice, Supports
  <2> QED  BY <2>1, <2>2 DEF Next
<1>3. SupportInv => SupportedTwice
  BY DEF SupportInv
<1> QED  BY <1>1, <1>2, <1>3, PTL DEF Spec

-----------------------------------------------------------------------------
(* The spike window. *)

Samples == [value: Values, at: Nat]

\* The buffer holds samples, and its first is not too old for its last.
SpikeInv ==
  /\ clock \in Nat
  /\ spike \in Seq(Samples)
  /\ SpikeWithinWindow

\* A new sample leaves nothing in front that is too old for it, whatever the
\* order of the stamps behind.  (spike.rs 23-34)
LEMMA PushKeepsSpan ==
  ASSUME spike \in Seq(Samples), NEW est \in Samples
  PROVE  /\ PushSpike(est) \in Seq(Samples)
         /\ PushSpike(est) # <<>>
         /\ PushSpike(est)[1].at >=
              PushSpike(est)[Len(PushSpike(est))].at - WINDOW
<1> DEFINE longer == Append(spike, est)
           cutoff == Minus(est.at, WINDOW)
<1>1. /\ longer \in Seq(Samples) /\ longer # <<>>
      /\ longer[Len(longer)] = est
  OBVIOUS
<1>2. est.at \in Nat /\ WINDOW \in Nat
  BY SignalAssumption DEF Samples
<1>3. cutoff \in Nat /\ est.at >= cutoff /\ cutoff >= est.at - WINDOW
  BY <1>2 DEF Minus
<1>4. \A x \in Samples : x.at \in Nat
  BY DEF Samples
<1>5. PushSpike(est) = Evict(longer, cutoff)
  BY DEF PushSpike
<1> HIDE DEF longer, cutoff
<1> DEFINE kept == Evict(longer, cutoff)
<1>6. /\ kept \in Seq(Samples) /\ kept # <<>>
      /\ kept[1].at >= cutoff /\ kept[Len(kept)] = est
  BY <1>1, <1>3, <1>4, EvictKeepsNewest
<1> HIDE DEF kept
<1>7. kept[1].at \in Nat
  BY <1>4, <1>6
<1>8. kept[1].at >= kept[Len(kept)].at - WINDOW
  BY <1>2, <1>3, <1>6, <1>7
<1> QED BY <1>5, <1>6, <1>8 DEF kept

\* The spike detector compares samples that are within its window, for any
\* window and any lateness of the estimates.  (spike.rs 23-68)
THEOREM SpikeSpan == Spec => []SpikeWithinWindow
<1>1. Init => SpikeInv
  BY DEF Init, SpikeInv, SpikeWithinWindow
<1>2. SpikeInv /\ [Next]_vars => SpikeInv'
  <2> SUFFICES ASSUME SpikeInv, [Next]_vars PROVE SpikeInv'
    OBVIOUS
  <2>1. CASE Ingest
    <3>1. PICK value \in Values, lag \in 0 .. MaxLag :
            spike' = PushSpike([value |-> value, at |-> Minus(clock, lag)])
      BY <2>1 DEF Ingest
    <3> DEFINE est == [value |-> value, at |-> Minus(clock, lag)]
    <3>2. est \in Samples
      <4>1. lag \in Nat /\ clock \in Nat
        BY SignalAssumption DEF SpikeInv
      <4> QED BY <4>1, StampIsTime DEF Samples
    <3>3. clock' = clock
      BY <2>1 DEF Ingest
    <3> HIDE DEF est
    <3>4. spike' = PushSpike(est)
      BY <3>1 DEF est
    <3> QED BY <3>2, <3>3, <3>4, PushKeepsSpan DEF SpikeInv, SpikeWithinWindow
  <2>2. CASE Pass \/ Poll \/ Push \/ Pop \/ UNCHANGED vars
    <3>1. spike' = spike /\ (clock' = clock \/ clock' = clock + 1)
      BY <2>2 DEF Pass, Poll, Push, Pop, vars
    <3> QED BY <3>1 DEF SpikeInv, SpikeWithinWindow
  <2> QED BY <2>1, <2>2 DEF Next
<1>3. SpikeInv => SpikeWithinWindow
  BY DEF SpikeInv
<1> QED BY <1>1, <1>2, <1>3, PTL DEF Spec

-----------------------------------------------------------------------------
(* Confirmations. *)

\* There are confirmations only of a direction.
ConfirmInv ==
  /\ confirms \in 0 .. CountMax
  /\ lastDir = None => confirms = 0

\* An estimate counts as a confirmation, starts the count again or ends it.
LEMMA ConfirmKeeps ==
  ASSUME ConfirmInv, NEW dir \in Directions, Confirm(dir)
  PROVE  /\ ConfirmInv'
         /\ lastDir' \in {"Up", "Down", None}
         /\ confirms >= CONFIRMS /\ lastDir' = lastDir => confirms' >= CONFIRMS
<1> USE SignalAssumption
<1>1. CASE dir = "Neutral"
  BY <1>1 DEF Confirm, ConfirmInv
<1>2. CASE dir # "Neutral"
  <2>1. dir \in {"Up", "Down"} /\ lastDir' = dir /\ dir # None
    BY <1>2 DEF Confirm, Directions
  <2>2. CASE dir = lastDir
    <3>1. confirms' = IF confirms = CountMax THEN CountMax ELSE confirms + 1
      BY <1>2, <2>2 DEF Confirm, Count
    <3> QED BY <2>1, <3>1 DEF ConfirmInv
  <2>3. CASE dir # lastDir
    <3>1. confirms' = 1
      BY <1>2, <2>3 DEF Confirm
    <3> QED BY <2>1, <2>3, <3>1 DEF ConfirmInv
  <2> QED BY <2>2, <2>3
<1> QED BY <1>1, <1>2

\* What comes out of the consensus is a direction.
LEMMA ConsensusType == \A report : Consensus(report) \in Directions
<1> SUFFICES ASSUME NEW report PROVE Consensus(report) \in Directions
  OBVIOUS
<1> DEFINE said == {report.spike, report.delta} \ {"Neutral"}
<1>1. CASE said = {"Up"}
  BY <1>1 DEF Consensus, Directions
<1>2. CASE said # {"Up"} /\ said = {"Down"}
  BY <1>2 DEF Consensus, Directions
<1>3. CASE said # {"Up"} /\ said # {"Down"}
  BY <1>3 DEF Consensus, Directions
<1> QED BY <1>1, <1>2, <1>3

\* A direction that is confirmed stays so while the estimates support it, for
\* any width of the counter.  (engine.rs 108-116)
THEOREM Lasting == Spec => ConfirmationLasts
<1>1. Init => ConfirmInv
  BY SignalAssumption DEF Init, ConfirmInv
<1>2. ConfirmInv /\ [Next]_vars =>
        /\ ConfirmInv'
        /\ confirms >= CONFIRMS /\ lastDir' = lastDir => confirms' >= CONFIRMS
  <2> SUFFICES ASSUME ConfirmInv, [Next]_vars
               PROVE  /\ ConfirmInv'
                      /\ confirms >= CONFIRMS /\ lastDir' = lastDir =>
                           confirms' >= CONFIRMS
    OBVIOUS
  <2>1. CASE Ingest
    <3>1. \E report : Confirm(Consensus(report))
      BY <2>1 DEF Ingest
    <3> QED BY <3>1, ConsensusType, ConfirmKeeps
  <2>2. CASE Pass \/ Poll \/ Push \/ Pop \/ UNCHANGED vars
    <3>1. confirms' = confirms /\ lastDir' = lastDir
      BY <2>2 DEF Pass, Poll, Push, Pop, vars
    <3> QED BY <3>1 DEF ConfirmInv
  <2> QED BY <2>1, <2>2 DEF Next
<1> QED BY <1>1, <1>2, PTL DEF Spec, ConfirmationLasts

-----------------------------------------------------------------------------
(* Types. *)

\* What is listed is a market, whether its price is bid or computed.
LEMMA ListedType ==
  ASSUME NEW t \in Tickers
  PROVE  Listings(t) \subseteq Markets
<1> SUFFICES ASSUME NEW yes \in Quotes, NEW no \in Quotes
             PROVE  Listed(t, yes, no) \subseteq Markets
  BY DEF Listings
<1>1. yes \in 0 .. 99 /\ no \in 0 .. 99
  BY SignalAssumption
<1>2. \A y \in Synthetic : y \in 0 .. 99 /\ 100 - y \in 0 .. 99
  BY SignalAssumption
<1>3. ASSUME NEW y \in Synthetic
      PROVE  [yes |-> y, no |-> 100 - y, synthetic |-> TRUE] \in Markets
  <2>1. y \in 0 .. 99 /\ 100 - y \in 0 .. 99
    BY <1>2
  <2> DEFINE rest == 100 - y
  <2>2. rest \in 0 .. 99
    BY <2>1
  <2> HIDE DEF rest
  <2>3. [yes |-> y, no |-> rest, synthetic |-> TRUE] \in Markets
    BY <2>1, <2>2 DEF Markets
  <2> QED BY <2>3 DEF rest
<1>4. {[yes |-> yes, no |-> no, synthetic |-> FALSE]} \subseteq Markets
  BY <1>1 DEF Markets
<1>5. {[yes |-> y, no |-> 100 - y, synthetic |-> TRUE] : y \in Synthetic}
        \subseteq Markets
  BY <1>3, Zenon
<1> QED BY <1>4, <1>5, Zenon DEF Listed

\* The delta buffer holds samples, and no more of them than it has room for.
LEMMA PushDeltaType ==
  ASSUME delta \in Seq(Samples), Len(delta) <= SAMPLES, NEW est \in Samples
  PROVE  PushDelta(est) \in Seq(Samples) /\ Len(PushDelta(est)) <= SAMPLES
<1> DEFINE longer == Append(delta, est)
<1>1. longer \in Seq(Samples) /\ Len(longer) = Len(delta) + 1 /\ longer # <<>>
  OBVIOUS
<1>2. Tail(longer) \in Seq(Samples) /\ Len(Tail(longer)) = Len(delta)
  BY <1>1
<1>3. SAMPLES \in Nat /\ Len(delta) \in Nat
  BY SignalAssumption
<1> QED BY <1>1, <1>2, <1>3 DEF PushDelta

\* An opportunity is of a market and of a direction, and so is its record.
LEMMA EmitType ==
  ASSUME NEW est \in Samples, NEW dir \in Directions, NEW confirmed, NEW probs,
         lastOpp \in [Tickers -> Int], emitted \subseteq Opportunities,
         Emit(est, dir, confirmed, probs)
  PROVE  /\ lastOpp' \in [Tickers -> Int]
         /\ outbox' \subseteq Opportunities /\ emitted' \subseteq Opportunities
<1> DEFINE picked == IF dir = "Neutral" \/ ~confirmed THEN {}
                     ELSE Picked(est, dir, probs)
<1>1. /\ lastOpp' = [t \in Tickers |-> IF t \in picked THEN est.at ELSE lastOpp[t]]
      /\ outbox' = {[ticker |-> t, dir |-> dir, at |-> est.at] : t \in picked}
      /\ emitted' = emitted \cup outbox'
  BY DEF Emit
<1>2. picked \subseteq Tickers /\ (picked # {} => dir \in {"Up", "Down"})
  BY DEF Picked, Directions
<1>3. est.at \in Nat /\ est.at \in Int
  BY DEF Samples
<1> HIDE DEF picked
<1>4. \A t \in picked : [ticker |-> t, dir |-> dir, at |-> est.at] \in Opportunities
  BY <1>2, <1>3 DEF Opportunities
<1> QED BY <1>1, <1>3, <1>4

\* The ring holds opportunities and no more of them than it has room for.
LEMMA RingType ==
  ASSUME ring \in Seq(Opportunities), Len(ring) <= RingSize,
         outbox \subseteq Opportunities, Push \/ Pop
  PROVE  ring' \in Seq(Opportunities) /\ Len(ring') <= RingSize
<1>1. CASE Push
  <2>1. PICK opp \in outbox :
          ring' = IF Len(ring) < RingSize THEN Append(ring, opp) ELSE ring
    BY <1>1 DEF Push
  <2>2. opp \in Opportunities /\ RingSize \in Nat /\ Len(ring) \in Nat
    BY SignalAssumption
  <2> QED BY <2>1, <2>2
<1>2. CASE Pop
  <2>1. ring # <<>> /\ ring' = Tail(ring)
    BY <1>2 DEF Pop
  <2>2. Tail(ring) \in Seq(Opportunities) /\ Len(Tail(ring)) = Len(ring) - 1
    BY <2>1
  <2> QED BY <2>1, <2>2, SignalAssumption
<1> QED BY <1>1, <1>2

\* What the detectors say is a direction.
LEMMA DetectorTypes ==
  \A samples : /\ SpikeDirection(samples) \in Directions
               /\ DeltaDirection(samples) \in Directions
BY DEF SpikeDirection, DeltaDirection, Directions

\* Type correctness of the signal service.
THEOREM SignalTypes == Spec => []TypeOK
<1> USE DEF Samples
<1>1. Init => TypeOK
  BY SignalAssumption DEF Init, TypeOK, Silence, Directions
<1>2. TypeOK /\ [Next]_vars => TypeOK'
  <2> SUFFICES ASSUME TypeOK, [Next]_vars PROVE TypeOK'
    OBVIOUS
  <2>1. CASE Pass
    BY <2>1, SignalAssumption DEF Pass, TypeOK
  <2>2. CASE Poll
    <3>1. markets' \in [Tickers -> Markets \cup {None}]
      <4>1. \A t \in Tickers : Listings(t) \subseteq Markets
        BY ListedType
      <4> QED BY <2>2, <4>1 DEF Poll
    <3> QED BY <2>2, <3>1 DEF Poll, TypeOK
  <2>3. CASE Ingest
    <3>1. PICK value \in Values, lag \in 0 .. MaxLag, probs \in [Tickers -> Probs] :
            LET est    == [value |-> value, at |-> Minus(clock, lag)]
                report == [spike |-> SpikeDirection(PushSpike(est)),
                           delta |-> DeltaDirection(PushDelta(est))]
                dir    == Consensus(report)
            IN  /\ index' = value
                /\ delta' = PushDelta(est)
                /\ spike' = PushSpike(est)
                /\ Confirm(dir)
                /\ Emit(est, dir, confirms' >= CONFIRMS, probs)
                /\ reports' = <<reports[2], report>>
      BY <2>3 DEF Ingest
    <3> DEFINE est == [value |-> value, at |-> Minus(clock, lag)]
               report == [spike |-> SpikeDirection(PushSpike(est)),
                          delta |-> DeltaDirection(PushDelta(est))]
               dir == Consensus(report)
    <3>2. /\ index' = value /\ delta' = PushDelta(est) /\ spike' = PushSpike(est)
          /\ Confirm(dir) /\ Emit(est, dir, confirms' >= CONFIRMS, probs)
          /\ reports' = <<reports[2], report>>
      BY <3>1
    <3>3. est \in Samples
      <4>1. lag \in Nat /\ clock \in Nat
        BY SignalAssumption DEF TypeOK
      <4> QED BY <4>1, StampIsTime
    <3>4. /\ report \in [spike: Directions, delta: Directions]
          /\ dir \in Directions
      BY DetectorTypes, ConsensusType
    <3> HIDE DEF est, report, dir
    <3>5. delta' \in Seq(Samples) /\ Len(delta') <= SAMPLES
      BY <3>2, <3>3, PushDeltaType DEF TypeOK
    <3>6. spike' \in Seq(Samples)
      BY <3>2, <3>3, PushKeepsSpan DEF TypeOK
    <3>7. /\ lastOpp' \in [Tickers -> Int]
          /\ outbox' \subseteq Opportunities /\ emitted' \subseteq Opportunities
      BY <3>2, <3>3, <3>4, EmitType DEF TypeOK
    <3>8. reports' \in [1 .. 2 -> [spike: Directions, delta: Directions]]
      BY <3>2, <3>4 DEF TypeOK
    <3>9. lastDir' \in {"Up", "Down", None} /\ confirms' \in 0 .. CountMax
      <4>1. CASE dir = "Neutral"
        BY <3>2, <4>1, SignalAssumption DEF Confirm
      <4>2. CASE dir # "Neutral"
        BY <3>2, <3>4, <4>2, SignalAssumption DEF Confirm, Count, Directions, TypeOK
      <4> QED BY <4>1, <4>2
    <3>10. /\ estimates' \in 0 .. MaxEstimates
           /\ UNCHANGED <<clock, markets, ring>>
      BY <2>3, SignalAssumption DEF Ingest, TypeOK
    <3> QED BY <3>2, <3>5, <3>6, <3>7, <3>8, <3>9, <3>10 DEF TypeOK
  <2>4. CASE Push \/ Pop
    <3>1. ring' \in Seq(Opportunities) /\ Len(ring') <= RingSize
      BY <2>4, RingType DEF TypeOK
    <3>2. outbox' \subseteq Opportunities
      BY <2>4 DEF Push, Pop, TypeOK
    <3> QED BY <2>4, <3>1, <3>2 DEF Push, Pop, TypeOK
  <2>5. CASE UNCHANGED vars
    BY <2>5 DEF vars, TypeOK
  <2> QED BY <2>1, <2>2, <2>3, <2>4, <2>5 DEF Next
<1> QED BY <1>1, <1>2, PTL DEF Spec
=============================================================================
