------------------------------- MODULE Observe ------------------------------
(***************************************************************************)
(* Observation mode (TRADING_ENABLED=false): the CompareTracker of the signal  *)
(* service, called once for each estimate of the index with the markets last   *)
(* polled, and the compare file it writes through the historian, with          *)
(* restarts, writes that fail and a clock that is set back.                    *)
(*                                                                           *)
(* One market, quoted or not.  Directions and velocities are only printed.      *)
(***************************************************************************)
EXTENDS Historian

CONSTANTS
  Values,     \* of the index
  YesPrices,  \* of the market
  MOVE,       \* a significant move of the index, 10 dollars
  REPRICE,    \* a significant move of a price, 1 cent
  LEAD,       \* for how long a move may lead, 30 s
  PRINT,      \* the index that is printed is off by 5 dollars at most,
  PERIOD,     \* and 5 s old at most
  DayLength,  \* one day
  MaxClock,   \* bound: the clock stops here
  MaxTicks,   \* bound: estimates between two restarts
  MaxFaults,  \* bound: failures, restarts and clock changes
  None        \* no price, no move, no writer

ASSUME ObserveAssumption ==
  /\ Values \subseteq Nat \ {0} /\ \A v \in Values : v > PRINT
  /\ YesPrices \subseteq Nat
  /\ {MOVE, REPRICE, LEAD, PRINT, PERIOD, MaxClock, MaxTicks, MaxFaults} \subseteq Nat
  /\ DayLength \in Nat \ {0}
  /\ Days = 0 .. MaxClock \div DayLength
  /\ None \notin Nat

VARIABLES
  clock,
  tracker,  \* the CompareTracker
  writer,   \* the JsonlWriter of the compare files
  files,    \* what is on disk
  ticks,    \* history: the estimates since the start, and what was said
  records,  \* history: the day and the outcome of each record
  faults    \* history

vars == <<clock, tracker, writer, files, ticks, records, faults>>

Today == clock \div DayLength

\* Mutation: a price that was never seen counts as zero.
NewTrackerZeroPrice ==
  [prev |-> 0, printed |-> 0, printedAt |-> 0, yes |-> 0,
   moveAt |-> None, move |-> 0]

\* CompareTracker::new
NewTracker == [prev |-> 0, printed |-> 0, printedAt |-> 0, yes |-> None,
               moveAt |-> None, move |-> 0]

Verdicts == {"nothing", "noMoveYet", "noSignal", "brtiLeads", "kalshiLeads"}

TypeOK ==
  /\ clock \in 0 .. MaxClock
  /\ tracker \in [prev: Values \cup {0}, printed: Values \cup {0},
                  printedAt: 0 .. MaxClock, yes: YesPrices \cup {None},
                  moveAt: 0 .. MaxClock \cup {None}, move: Int]
  /\ writer \in [day: Days, file: Days]
  /\ \A d \in Days : files[d] \in Seq([record: 1 .. Len(records), whole: BOOLEAN])
  /\ ticks \in Seq([at: 0 .. MaxClock, value: Values,
                    yes: YesPrices \cup {None}, said: Verdicts, printed: BOOLEAN])
  /\ records \in Seq([day: Days, outcome: Outcomes])
  /\ faults \in 0 .. MaxFaults

Init ==
  /\ clock = 0
  /\ tracker = NewTracker
  /\ writer = [day |-> 0, file |-> 0]
  /\ files = NoFiles
  /\ ticks = <<>> /\ records = <<>> /\ faults = 0

Pass ==
  /\ clock < MaxClock
  /\ clock' = clock + 1
  /\ UNCHANGED <<tracker, writer, files, ticks, records, faults>>

\* The wall clock is corrected.
SetBack ==
  /\ clock > 0 /\ faults < MaxFaults
  /\ clock' = clock - 1
  /\ faults' = faults + 1
  /\ UNCHANGED <<tracker, writer, files, ticks, records>>

-----------------------------------------------------------------------------
(* CompareTracker::update *)

Gap(a, b) == IF a > b THEN a - b ELSE b - a

\* saturating_sub
Since(then) == IF clock > then THEN clock - then ELSE 0

\* Mutation: the first estimate is a move, from zero.
MovedFromZero(value) == Gap(value, tracker.prev) > MOVE

\* The index moved between two estimates.
Moved(value) == tracker.prev # 0 /\ Gap(value, tracker.prev) > MOVE

\* The tracker once it has looked for a move of the index.
Seen(value) ==
  IF Moved(value)
  THEN [tracker EXCEPT !.moveAt = clock, !.move = value - tracker.prev,
                       !.prev = value]
  ELSE [tracker EXCEPT !.prev = value]

\* The price moved since the last estimate for which there was one.
Repriced(yes) ==
  yes # None /\ tracker.yes # None /\ Gap(yes, tracker.yes) > REPRICE

\* emit_lead_lag: what is said of a price that moved.
LeadLag(yes, seen) ==
  IF ~Repriced(yes) THEN "nothing"
  ELSE IF seen.moveAt = None THEN "noMoveYet"
  ELSE IF Since(seen.moveAt) > LEAD THEN "noSignal"
  ELSE IF /\ (yes > tracker.yes) = (seen.move > 0)
          /\ seen.moveAt <= clock
       THEN "brtiLeads"
  ELSE "kalshiLeads"

\* A [COMPARE] line is due.
Due(value) ==
  Gap(value, tracker.printed) > PRINT \/ Since(tracker.printedAt) >= PERIOD

\* Mutation: the throttle is measured from the estimate before.
PrintedAlways(value, seen) ==
  [seen EXCEPT !.printed = value,
               !.printedAt = IF Due(value) THEN clock ELSE tracker.printedAt]

\* The throttle starts again from what is printed.
Printed(value, seen) ==
  IF Due(value) THEN [seen EXCEPT !.printed = value, !.printedAt = clock]
  ELSE seen

\* emit_compare: a line is printed, and a record of each market written, which
\* may fail; the tracker does not learn of it.
Record ==
  \E result \in WriteLine(writer, files, Today, Len(records) + 1) :
    /\ faults' = IF result.outcome = "whole" THEN faults ELSE faults + 1
    /\ faults' <= MaxFaults
    /\ writer' = result.writer
    /\ files' = result.files
    /\ records' = Append(records, [day |-> Today, outcome |-> result.outcome])

Update(value, yes) ==
  LET seen == Seen(value)
  IN  /\ Len(ticks) < MaxTicks
      /\ ticks' = Append(ticks, [at |-> clock, value |-> value, yes |-> yes,
                                 said |-> LeadLag(yes, seen),
                                 printed |-> Due(value)])
      /\ tracker' = [Printed(value, seen) EXCEPT
                       !.yes = IF yes = None THEN @ ELSE yes]
      /\ IF Due(value) /\ yes # None THEN Record
         ELSE UNCHANGED <<writer, files, records, faults>>
      /\ UNCHANGED clock

\* The process ends, also in the middle of a write that is torn, and starts
\* again: the tracker is new, and the file of the day is opened.
Restart ==
  /\ faults < MaxFaults
  /\ faults' = faults + 1
  /\ tracker' = NewTracker
  /\ ticks' = <<>>
  /\ writer' = [day |-> Today, file |-> Today]
  /\ files' = Open(files, Today)
  /\ UNCHANGED <<clock, records>>

Next ==
  \/ Pass \/ SetBack \/ Restart
  \/ \E value \in Values, yes \in YesPrices \cup {None} : Update(value, yes)

Spec == Init /\ [][Next]_vars

-----------------------------------------------------------------------------
(* Correctness. *)

\* A record is in the file of the day it was written on, across midnight,
\* files that cannot be opened, restarts and a clock set back over midnight.
\* (writer.rs 35-49)
FiledByDay ==
  \A d \in Days : \A i \in DOMAIN files[d] : records[files[d][i].record].day = d

\* A write that is torn costs its own record and at most one that was written
\* well, the one that follows it in the file; what is there stays there.
\* (historian lib.rs 27-28, writer.rs 10-12)
DamageIsLocal ==
  LET read  == UNION {Readable(files[d]) : d \in Days}
      Of(o) == {n \in DOMAIN records : records[n].outcome = o}
  IN  /\ read \subseteq Of("whole")
      /\ Cardinality(Of("whole") \ read) <= Cardinality(Of("torn"))

\* The index moved at the j-th estimate, and not since, up to the k-th.
LastMove(j, k) ==
  LET Moves(i) == Gap(ticks[i].value, ticks[i - 1].value) > MOVE
  IN  Moves(j) /\ \A i \in j + 1 .. k : ~Moves(i)

\* The market was quoted at the o-th estimate, and not since, up to the k-th.
LastQuote(o, k) ==
  ticks[o].yes # None /\ \A i \in o + 1 .. k : ticks[i].yes = None

\* The index is said to lead only if the last of its moves since the start
\* was in the direction of the price, no longer than LEAD before it.
\* (signal lib.rs 196-229, 296-341)
LeadIsBacked ==
  \A k \in DOMAIN ticks : ticks[k].said = "brtiLeads" =>
    \E j \in 2 .. k, o \in 1 .. k - 1 :
      /\ LastMove(j, k) /\ LastQuote(o, k - 1)
      /\ ticks[k].at - ticks[j].at \in 0 .. LEAD
      /\ (ticks[k].yes > ticks[o].yes) =
           (ticks[j].value > ticks[j - 1].value)

\* However slowly the index drifts, each estimate is printed or is near one
\* that was, and so is every one in between.  (signal lib.rs 221-228)
DriftIsPrinted ==
  \A k \in DOMAIN ticks : \E j \in 1 .. k :
    /\ ticks[j].printed
    /\ \A i \in j .. k : Gap(ticks[i].value, ticks[j].value) <= PRINT
=============================================================================
