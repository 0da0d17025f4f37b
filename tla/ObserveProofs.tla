---------------------------- MODULE ObserveProofs ---------------------------
(***************************************************************************)
(* What the observation mode says and writes, for any values and prices, any  *)
(* number of estimates, faults and days.                                     *)
(***************************************************************************)
EXTENDS Observe, FiniteSetTheorems, SequenceTheorems, TLAPS

-----------------------------------------------------------------------------
(* Records are filed by day. *)

FileItems == [record: Nat, whole: BOOLEAN]

\* The writer's day is that of its open file, and what is on disk is a record
\* of the day of its file.
FileInv ==
  /\ writer.day = writer.file
  /\ writer \in [day: Int, file: Int]
  /\ files \in [Days -> Seq(FileItems)]
  /\ records \in Seq([day: Int, outcome: Outcomes])
  /\ \A d \in Days : \A i \in DOMAIN files[d] :
       /\ files[d][i].record \in 1 .. Len(records)
       /\ records[files[d][i].record].day = d

\* Today is a day.
LEMMA TodayType == clock \in Nat => Today \in Int
BY ObserveAssumption DEF Today

\* A line that is written, or is not, leaves everything where it belongs.
\* (writer.rs 35-49)
LEMMA RecordFiles ==
  ASSUME FileInv, Record, Today \in Int
  PROVE  FileInv'
<1> DEFINE n == Len(records) + 1
<1>1. PICK result \in WriteLine(writer, files, Today, n) :
        /\ writer' = result.writer /\ files' = result.files
        /\ records' = Append(records, [day |-> Today,
                                       outcome |-> result.outcome])
  BY DEF Record
<1>2. records \in Seq([day: Int, outcome: Outcomes]) /\ n \in Nat
  BY DEF FileInv
<1>3. \/ /\ result.writer.day = Today /\ result.writer.file = Today
         /\ result.writer \in [day: Int, file: Int]
         /\ result.outcome \in Outcomes
         /\ result.files = Write(files, Today, n, result.outcome)
      \/ /\ result.writer = writer /\ result.files = files
         /\ result.outcome \in Outcomes
  BY DEF WriteLine, FileInv, Open, DayKept, Outcomes
<1> HIDE DEF n
<1>4. /\ records' \in Seq([day: Int, outcome: Outcomes])
      /\ Len(records') = Len(records) + 1
      /\ records'[Len(records) + 1].day = Today
      /\ \A i \in 1 .. Len(records) : records'[i] = records[i]
  BY <1>1, <1>2, <1>3
<1>5. CASE files' = files
  BY <1>1, <1>3, <1>4, <1>5 DEF FileInv
<1>6. CASE \E whole \in BOOLEAN :
             files' = [files EXCEPT ![Today] =
                         Append(files[Today], [record |-> n, whole |-> whole])]
  <2>1. PICK whole \in BOOLEAN :
          files' = [files EXCEPT ![Today] =
                      Append(files[Today], [record |-> n, whole |-> whole])]
    BY <1>6
  <2> DEFINE item == [record |-> n, whole |-> whole]
  <2>2. item \in FileItems /\ item.record = Len(records) + 1
    BY <1>2 DEF FileItems, n
  <2> HIDE DEF item
  <2> DEFINE Filed(file, recs, d) ==
        \A i \in DOMAIN file : /\ file[i].record \in 1 .. Len(recs)
                               /\ recs[file[i].record].day = d
  <2>5. /\ \A r \in 1 .. Len(records) : /\ r \in 1 .. Len(records')
                                        /\ records'[r] = records[r]
        /\ item.record \in 1 .. Len(records')
        /\ records'[item.record].day = Today
    BY <1>2, <1>4, <2>2
  <2>6. ASSUME NEW d, NEW file, Filed(file, records, d)
        PROVE  Filed(file, records', d)
    BY <2>5, <2>6
  <2>3. ASSUME NEW d \in Days
        PROVE  /\ files'[d] \in Seq(FileItems)
               /\ Filed(files'[d], records', d)
    <3>1. files[d] \in Seq(FileItems) /\ Filed(files[d], records, d)
      BY DEF FileInv
    <3>4. Filed(files[d], records', d)
      BY <3>1, <2>6
    <3>2. CASE d = Today
      <4>1. files'[d] = Append(files[d], item)
        BY <2>1, <3>2 DEF FileInv, item
      <4>2. /\ files'[d] \in Seq(FileItems)
            /\ DOMAIN files'[d] = 1 .. Len(files[d]) + 1
            /\ files'[d][Len(files[d]) + 1] = item
            /\ \A i \in DOMAIN files[d] : files'[d][i] = files[d][i]
            /\ \A i \in DOMAIN files'[d] :
                 i \in DOMAIN files[d] \/ i = Len(files[d]) + 1
        BY <4>1, <3>1, <2>2
      <4>3. Filed(files'[d], records', d)
        <5> SUFFICES ASSUME NEW i \in DOMAIN files'[d]
                     PROVE  /\ files'[d][i].record \in 1 .. Len(records')
                            /\ records'[files'[d][i].record].day = d
          OBVIOUS
        <5>1. CASE i \in DOMAIN files[d]
          BY <3>4, <4>2, <5>1
        <5>2. CASE i = Len(files[d]) + 1
          BY <2>5, <3>2, <4>2, <5>2
        <5> QED BY <4>2, <5>1, <5>2
      <4> QED BY <4>2, <4>3
    <3>3. CASE d # Today
      <4>1. files'[d] = files[d]
        BY <2>1, <3>3 DEF FileInv
      <4> QED BY <4>1, <3>1, <3>4
    <3> QED BY <3>2, <3>3
  <2>4. files' \in [Days -> Seq(FileItems)]
    BY <2>1, <2>3 DEF FileInv
  <2>7. writer'.day = writer'.file /\ writer' \in [day: Int, file: Int]
    BY <1>1, <1>3 DEF FileInv
  <2> QED BY <1>4, <2>3, <2>4, <2>7 DEF FileInv
<1> QED BY <1>1, <1>3, <1>5, <1>6 DEF Write, Outcomes

\* A record is in the file of its day, whatever fails, restarts or is set
\* back, for any length of a day.  (writer.rs 35-49)
THEOREM Filing == Spec => []FiledByDay
<1> DEFINE Inv == FileInv /\ clock \in Nat
<1>1. Init => Inv
  BY DEF Init, FileInv, NoFiles
<1>2. Inv /\ [Next]_vars => Inv'
  <2> SUFFICES ASSUME Inv, [Next]_vars PROVE Inv'
    OBVIOUS
  <2>1. Today \in Int
    BY TodayType
  <2>2. CASE Pass \/ SetBack \/ UNCHANGED vars
    <3>1. UNCHANGED <<writer, files, records>>
      BY <2>2 DEF Pass, SetBack, vars
    <3>2. clock' \in Nat
      BY <2>2 DEF Pass, SetBack, vars
    <3> QED BY <3>1, <3>2 DEF FileInv
  <2>3. CASE Restart
    <3>1. /\ writer' = [day |-> Today, file |-> Today] /\ files' = files
          /\ UNCHANGED <<clock, records>>
      BY <2>3 DEF Restart, Open
    <3> QED BY <3>1, <2>1 DEF FileInv
  <2>4. ASSUME NEW value \in Values, NEW yes \in YesPrices \cup {None},
               Update(value, yes)
        PROVE  Inv'
    <3>1. CASE Record
      BY <3>1, <2>1, <2>4, RecordFiles DEF Update
    <3>2. CASE UNCHANGED <<writer, files, records, faults>>
      BY <3>2, <2>4 DEF Update, FileInv
    <3> QED BY <3>1, <3>2, <2>4 DEF Update
  <2> QED BY <2>2, <2>3, <2>4 DEF Next
<1>3. Inv => FiledByDay
  BY DEF FileInv, FiledByDay
<1> QED BY <1>1, <1>2, <1>3, PTL DEF Spec

-----------------------------------------------------------------------------
(* The throttle. *)

Prices == YesPrices \cup {None}

Ticks == [at: Nat, value: Values, yes: Prices, said: Verdicts, printed: BOOLEAN]

\* The estimates so far, the last one and the new one.
TickInv == clock \in Nat /\ ticks \in Seq(Ticks)

\* What an update adds to the estimates.
LEMMA TickAdded ==
  ASSUME TickInv, NEW value \in Values, NEW yes \in Prices, Update(value, yes)
  PROVE  \E tick \in Ticks :
           /\ ticks' = Append(ticks, tick)
           /\ tick.at = clock /\ tick.value = value /\ tick.yes = yes
           /\ tick.said = LeadLag(yes, Seen(value))
           /\ tick.printed = Due(value)
<1> DEFINE tick == [at |-> clock, value |-> value, yes |-> yes,
                    said |-> LeadLag(yes, Seen(value)), printed |-> Due(value)]
<1>1. LeadLag(yes, Seen(value)) \in Verdicts
  BY DEF LeadLag, Verdicts
<1>2. Due(value) \in BOOLEAN
  BY DEF Due
<1>3. tick \in Ticks
  BY <1>1, <1>2 DEF TickInv, Ticks
<1>4. ticks' = Append(ticks, tick)
  BY DEF Update
<1> QED BY <1>3, <1>4

\* Every step keeps the estimates, or forgets them with the tracker, or adds one.
LEMMA TickStep ==
  ASSUME TickInv, [Next]_vars
  PROVE  /\ TickInv'
         /\ \/ UNCHANGED <<ticks, tracker>>
            \/ ticks' = <<>> /\ tracker' = NewTracker
            \/ \E value \in Values, yes \in Prices : Update(value, yes)
<1>1. CASE Pass \/ SetBack \/ UNCHANGED vars
  <2>1. clock' \in Nat /\ UNCHANGED <<ticks, tracker>>
    BY <1>1 DEF Pass, SetBack, vars, TickInv
  <2> QED BY <2>1 DEF TickInv
<1>2. CASE Restart
  BY <1>2 DEF Restart, TickInv
<1>3. ASSUME NEW value \in Values, NEW yes \in Prices, Update(value, yes)
      PROVE  TickInv'
  <2>1. PICK tick \in Ticks : ticks' = Append(ticks, tick)
    BY <1>3, TickAdded
  <2>2. clock' = clock
    BY <1>3 DEF Update
  <2> QED BY <2>1, <2>2 DEF TickInv
<1> QED BY <1>1, <1>2, <1>3 DEF Next, Prices

\* The estimate that was printed last is in the history and all since are near.
NearPrinted(j) ==
  /\ ticks[j].printed /\ ticks[j].value = tracker.printed
  /\ \A i \in j .. Len(ticks) : Gap(ticks[i].value, ticks[j].value) <= PRINT

PrintInv ==
  /\ TickInv
  /\ tracker.printed \in Nat
  /\ ticks = <<>> => tracker.printed = 0
  /\ ticks # <<>> => \E j \in 1 .. Len(ticks) : NearPrinted(j)
  /\ DriftIsPrinted

\* An update is printed, or near what was printed last.
LEMMA UpdatePrints ==
  ASSUME PrintInv, NEW value \in Values, NEW yes \in Prices, Update(value, yes)
  PROVE  /\ ticks' # <<>>
         /\ \E j \in 1 .. Len(ticks') : NearPrinted(j)'
         /\ DriftIsPrinted'
         /\ tracker'.printed \in Nat
<1>0. PICK n \in Nat : n = Len(ticks) + 1
  BY DEF PrintInv, TickInv
<1>1. PICK tick \in Ticks : /\ ticks' = Append(ticks, tick)
                            /\ tick.value = value /\ tick.printed = Due(value)
  BY TickAdded DEF PrintInv
<1>2. /\ ticks \in Seq(Ticks) /\ Len(ticks) \in Nat /\ Len(ticks') = n
      /\ DOMAIN ticks' = 1 .. n /\ DOMAIN ticks = 1 .. Len(ticks)
      /\ ticks'[n] = tick /\ ticks' # <<>>
      /\ \A i \in 1 .. Len(ticks) : ticks'[i] = ticks[i]
  BY <1>0, <1>1 DEF PrintInv, TickInv
<1>3. value \in Nat /\ PRINT \in Nat /\ value > PRINT
  BY ObserveAssumption
<1>4. Gap(value, value) <= PRINT
  BY <1>3 DEF Gap
<1>5. tracker'.printed = IF Due(value) THEN value ELSE tracker.printed
  BY DEF Update, Printed, Seen
<1>6. \E j \in 1 .. n : NearPrinted(j)'
  <2>1. CASE Due(value)
    <3>1. \A i \in n .. n : ticks'[i] = tick
      BY <1>0, <1>2
    <3>2. NearPrinted(n)'
      BY <2>1, <3>1, <1>1, <1>2, <1>4, <1>5, <1>0 DEF NearPrinted
    <3> QED BY <3>2, <1>0, <1>2
  <2>2. CASE ~Due(value)
    <3>1. Gap(value, tracker.printed) <= PRINT
      BY <2>2, <1>3 DEF Due, Gap, PrintInv
    <3>2. ticks # <<>>
      BY <3>1, <1>3 DEF PrintInv, Gap
    <3>3. PICK j \in 1 .. Len(ticks) : NearPrinted(j)
      BY <3>2 DEF PrintInv
    <3>4. /\ j \in 1 .. n /\ ticks'[j] = ticks[j]
          /\ tracker'.printed = ticks[j].value
      BY <1>2, <1>5, <2>2, <3>3, <1>0 DEF NearPrinted
    <3>5. \A i \in j .. n : i = n \/ i \in j .. Len(ticks)
      BY <1>0, <1>2, <3>3
    <3>6. \A i \in j .. n : Gap(ticks'[i].value, ticks'[j].value) <= PRINT
      <4>1. ASSUME NEW i \in j .. Len(ticks)
            PROVE  Gap(ticks'[i].value, ticks'[j].value) <= PRINT
        BY <4>1, <1>2, <3>3, <3>4 DEF NearPrinted
      <4>2. Gap(ticks'[n].value, ticks'[j].value) <= PRINT
        BY <1>1, <1>2, <3>1, <3>3, <3>4 DEF NearPrinted
      <4> QED BY <3>5, <4>1, <4>2
    <3> QED BY <1>2, <3>3, <3>4, <3>6 DEF NearPrinted
  <2> QED BY <2>1, <2>2
<1>7. DriftIsPrinted'
  <2> SUFFICES ASSUME NEW k \in 1 .. n
               PROVE  \E j \in 1 .. k :
                        /\ ticks'[j].printed
                        /\ \A i \in j .. k :
                             Gap(ticks'[i].value, ticks'[j].value) <= PRINT
    BY <1>2 DEF DriftIsPrinted
  <2>1. CASE k = n
    BY <2>1, <1>2, <1>6 DEF NearPrinted
  <2>2. CASE k # n
    <3>1. k \in 1 .. Len(ticks)
      BY <1>0, <2>2, <1>2
    <3>2. PICK j \in 1 .. k :
            /\ ticks[j].printed
            /\ \A i \in j .. k : Gap(ticks[i].value, ticks[j].value) <= PRINT
      BY <3>1, <1>2 DEF PrintInv, DriftIsPrinted
    <3>3. \A i \in j .. k : ticks'[i] = ticks[i]
      BY <3>1, <1>2
    <3>4. j \in j .. k
      OBVIOUS
    <3> QED BY <3>2, <3>3, <3>4
  <2> QED BY <2>1, <2>2
<1>8. tracker'.printed \in Nat
  BY <1>3, <1>5 DEF PrintInv
<1> QED BY <1>2, <1>6, <1>7, <1>8

\* However slowly the index drifts it is printed in time, for any thresholds.
\* (signal lib.rs 221-228)
THEOREM Throttle == Spec => []DriftIsPrinted
<1>1. Init => PrintInv
  BY DEF Init, PrintInv, TickInv, NewTracker, DriftIsPrinted
<1>2. PrintInv /\ [Next]_vars => PrintInv'
  <2> SUFFICES ASSUME PrintInv, [Next]_vars PROVE PrintInv'
    OBVIOUS
  <2>1. TickInv'
    BY TickStep DEF PrintInv
  <2>2. CASE UNCHANGED <<ticks, tracker>>
    BY <2>1, <2>2 DEF PrintInv, NearPrinted, DriftIsPrinted
  <2>3. CASE ticks' = <<>> /\ tracker' = NewTracker
    BY <2>1, <2>3 DEF PrintInv, NewTracker, DriftIsPrinted
  <2>4. CASE \E value \in Values, yes \in Prices : Update(value, yes)
    BY <2>1, <2>4, UpdatePrints DEF PrintInv
  <2> QED BY <2>2, <2>3, <2>4, TickStep DEF PrintInv
<1>3. PrintInv => DriftIsPrinted
  BY DEF PrintInv
<1> QED BY <1>1, <1>2, <1>3, PTL DEF Spec

-----------------------------------------------------------------------------
(* Lead and lag. *)

\* A move that is remembered is the last there was.
MoveBacked(moveAt, move, k) ==
  \E j \in 2 .. k : /\ LastMove(j, k) /\ ticks[j].at = moveAt
                    /\ move = ticks[j].value - ticks[j - 1].value

\* A price that is remembered is the last that was quoted.
QuoteBacked(yes, k) ==
  \E o \in 1 .. k : LastQuote(o, k) /\ ticks[o].yes = yes

\* What the tracker knows of the estimates.
LeadInv ==
  /\ TickInv
  /\ tracker.prev = IF ticks = <<>> THEN 0 ELSE ticks[Len(ticks)].value
  /\ tracker.moveAt # None =>
       /\ tracker.moveAt \in Nat
       /\ MoveBacked(tracker.moveAt, tracker.move, Len(ticks))
  /\ tracker.yes # None =>
       tracker.yes \in YesPrices /\ QuoteBacked(tracker.yes, Len(ticks))
  /\ LeadIsBacked

\* The history of the estimates with one more.
LEMMA HistoryGrows ==
  ASSUME TickInv, NEW tick \in Ticks, ticks' = Append(ticks, tick),
         NEW n \in Nat, n = Len(ticks) + 1
  PROVE  /\ Len(ticks) \in Nat /\ Len(ticks') = n /\ DOMAIN ticks' = 1 .. n
         /\ DOMAIN ticks = 1 .. n - 1
         /\ ticks'[n] = tick
         /\ \A i \in 1 .. n - 1 : ticks'[i] = ticks[i] /\ ticks[i] \in Ticks
BY DEF TickInv

\* What was the last move or the last quote of the past still is.
LEMMA PastIsKept ==
  ASSUME NEW n \in Nat, \A i \in 1 .. n - 1 : ticks'[i] = ticks[i]
  PROVE  /\ \A k \in 1 .. n - 1 : \A j \in 2 .. k :
              LastMove(j, k) => LastMove(j, k)'
         /\ \A k \in 0 .. n - 1 : \A o \in 1 .. k :
              LastQuote(o, k) => LastQuote(o, k)'
<1>1. ASSUME NEW k \in 1 .. n - 1, NEW j \in 2 .. k, LastMove(j, k)
      PROVE  LastMove(j, k)'
  <2>1. \A i \in j .. k : /\ i \in 1 .. n - 1 /\ i - 1 \in 1 .. n - 1
    OBVIOUS
  <2>2. \A i \in j .. k : /\ ticks'[i] = ticks[i] /\ ticks'[i - 1] = ticks[i - 1]
    BY <2>1
  <2>3. j \in j .. k /\ \A i \in j + 1 .. k : i \in j .. k
    OBVIOUS
  <2> QED BY <1>1, <2>2, <2>3 DEF LastMove
<1>2. ASSUME NEW k \in 0 .. n - 1, NEW o \in 1 .. k, LastQuote(o, k)
      PROVE  LastQuote(o, k)'
  <2>1. \A i \in o .. k : ticks'[i] = ticks[i]
    OBVIOUS
  <2>2. o \in o .. k /\ \A i \in o + 1 .. k : i \in o .. k
    OBVIOUS
  <2> QED BY <1>2, <2>1, <2>2 DEF LastQuote
<1> QED BY <1>1, <1>2

\* After an estimate the tracker's move is backed by the history with it.
LEMMA SeenIsBacked ==
  ASSUME LeadInv, NEW value \in Values, NEW yes \in Prices, Update(value, yes),
         NEW tick \in Ticks, ticks' = Append(ticks, tick),
         tick.at = clock, tick.value = value,
         NEW n \in Nat, n = Len(ticks) + 1,
         Seen(value).moveAt # None
  PROVE  /\ Seen(value).moveAt \in Nat
         /\ \E j \in 2 .. n :
              /\ LastMove(j, n)' /\ ticks'[j].at = Seen(value).moveAt
              /\ Seen(value).move = ticks'[j].value - ticks'[j - 1].value
<1>1. /\ Len(ticks) \in Nat /\ ticks'[n] = tick
      /\ \A i \in 1 .. n - 1 : ticks'[i] = ticks[i] /\ ticks[i] \in Ticks
  BY HistoryGrows DEF LeadInv
<1>2. \A v \in Values : v \in Nat \ {0}
  BY ObserveAssumption
<1>3. CASE Moved(value)
  <2>1. ticks # <<>> /\ tracker.prev = ticks[n - 1].value /\ n - 1 \in 1 .. n - 1
    BY <1>1, <1>3 DEF Moved, LeadInv, TickInv
  <2>2. /\ Seen(value).moveAt = clock
        /\ Seen(value).move = value - tracker.prev
        /\ Gap(value, tracker.prev) > MOVE
    BY <1>3 DEF Seen, Moved
  <2>3. ticks'[n - 1].value = tracker.prev /\ ticks'[n].value = value
    BY <1>1, <2>1
  <2>4. LastMove(n, n)'
    BY <2>2, <2>3 DEF LastMove
  <2> QED BY <1>1, <2>1, <2>2, <2>3, <2>4 DEF LeadInv, TickInv
<1>4. CASE ~Moved(value)
  <2>1. /\ Seen(value).moveAt = tracker.moveAt /\ Seen(value).move = tracker.move
        /\ tracker.moveAt # None
    BY <1>4 DEF Seen
  <2>2. PICK j \in 2 .. n - 1 :
          /\ LastMove(j, n - 1) /\ ticks[j].at = tracker.moveAt
          /\ tracker.move = ticks[j].value - ticks[j - 1].value
    BY <1>1, <2>1 DEF LeadInv, MoveBacked
  <2>3. j \in 1 .. n - 1 /\ j - 1 \in 1 .. n - 1 /\ n - 1 \in 1 .. n - 1
    BY <2>2
  <2>4. LastMove(j, n - 1)'
    BY <1>1, <2>2, <2>3, PastIsKept
  <2>5. ticks # <<>> /\ tracker.prev = ticks[n - 1].value
    BY <1>1, <2>3 DEF LeadInv, TickInv
  <2>6. ticks'[n - 1].value = tracker.prev /\ tracker.prev \in Values
    BY <1>1, <2>3, <2>5 DEF Ticks
  <2>7. ~(Gap(ticks'[n].value, ticks'[n - 1].value) > MOVE)
    BY <1>1, <1>2, <1>4, <2>6 DEF Moved
  <2>8. LastMove(j, n)'
    <3>1. \A i \in j + 1 .. n : i = n \/ i \in j + 1 .. n - 1
      BY <2>3
    <3> QED BY <2>4, <2>7, <3>1 DEF LastMove
  <2>9. ticks'[j] = ticks[j] /\ ticks'[j - 1] = ticks[j - 1]
    BY <1>1, <2>3
  <2>10. /\ ticks'[j].at = Seen(value).moveAt
         /\ Seen(value).move = ticks'[j].value - ticks'[j - 1].value
    BY <2>1, <2>2, <2>9
  <2>11. j \in 2 .. n
    BY <2>3, <2>2
  <2>12. Seen(value).moveAt \in Nat
    BY <2>1 DEF LeadInv
  <2> QED BY <2>8, <2>10, <2>11, <2>12
<1> QED BY <1>3, <1>4


\* After an estimate the tracker's price is the last that was quoted.
LEMMA QuoteIsBacked ==
  ASSUME LeadInv, NEW value \in Values, NEW yes \in Prices, Update(value, yes),
         NEW tick \in Ticks, ticks' = Append(ticks, tick), tick.yes = yes,
         NEW n \in Nat, n = Len(ticks) + 1,
         tracker'.yes # None
  PROVE  /\ tracker'.yes \in YesPrices
         /\ \E o \in 1 .. n : LastQuote(o, n)' /\ ticks'[o].yes = tracker'.yes
<1>1. /\ Len(ticks) \in Nat /\ ticks'[n] = tick
      /\ \A i \in 1 .. n - 1 : ticks'[i] = ticks[i] /\ ticks[i] \in Ticks
  BY HistoryGrows DEF LeadInv
<1>2. tracker'.yes = IF yes = None THEN tracker.yes ELSE yes
  BY DEF Update, Printed, Seen
<1>3. CASE yes # None
  <2>1. LastQuote(n, n)'
    BY <1>1, <1>3 DEF LastQuote
  <2> QED BY <2>1, <1>1, <1>2, <1>3 DEF LeadInv, TickInv, Prices
<1>4. CASE yes = None
  <2>1. tracker.yes # None /\ tracker'.yes = tracker.yes
    BY <1>2, <1>4
  <2>2. PICK o \in 1 .. n - 1 :
          LastQuote(o, n - 1) /\ ticks[o].yes = tracker.yes
    BY <1>1, <2>1 DEF LeadInv, QuoteBacked
  <2>3. LastQuote(o, n - 1)'
    <3>1. n - 1 \in 0 .. n - 1
      BY <1>1
    <3> QED BY <1>1, <2>2, <3>1, PastIsKept
  <2>4. LastQuote(o, n)'
    <3>1. \A i \in o + 1 .. n : i = n \/ i \in o + 1 .. n - 1
      BY <2>2
    <3> QED BY <1>1, <1>4, <2>3, <3>1 DEF LastQuote
  <2> QED BY <1>1, <2>1, <2>2, <2>4 DEF LeadInv
<1> QED BY <1>3, <1>4

\* A difference is positive when the first number is the larger.
LEMMA Rising == \A a, b \in Nat : (a - b > 0) = (a > b)
OBVIOUS

\* What is said of an estimate is backed, and so is what was said before.
LEMMA LeadStaysBacked ==
  ASSUME LeadInv, NEW value \in Values, NEW yes \in Prices, Update(value, yes)
  PROVE  LeadIsBacked'
<1>1. PICK tick \in Ticks :
        /\ ticks' = Append(ticks, tick) /\ tick.at = clock
        /\ tick.value = value /\ tick.yes = yes
        /\ tick.said = LeadLag(yes, Seen(value))
  BY TickAdded DEF LeadInv
<1>2. PICK n \in Nat : n = Len(ticks) + 1
  BY DEF LeadInv, TickInv
<1>3. /\ ticks'[n] = tick /\ DOMAIN ticks' = 1 .. n /\ DOMAIN ticks = 1 .. n - 1
      /\ \A i \in 1 .. n - 1 : ticks'[i] = ticks[i] /\ ticks[i] \in Ticks
      /\ Len(ticks) = n - 1
  BY <1>1, <1>2, HistoryGrows DEF LeadInv
<1> SUFFICES ASSUME NEW k \in 1 .. n, ticks'[k].said = "brtiLeads"
             PROVE  \E j \in 2 .. k, o \in 1 .. k - 1 :
                      /\ LastMove(j, k)' /\ LastQuote(o, k - 1)'
                      /\ ticks'[k].at - ticks'[j].at \in 0 .. LEAD
                      /\ (ticks'[k].yes > ticks'[o].yes) =
                           (ticks'[j].value > ticks'[j - 1].value)
  BY <1>3 DEF LeadIsBacked
<1>4. CASE k = n
  <2>1. LeadLag(yes, Seen(value)) = "brtiLeads"
    BY <1>1, <1>3, <1>4
  <2>2. /\ Repriced(yes) /\ Seen(value).moveAt # None
        /\ ~(Since(Seen(value).moveAt) > LEAD)
        /\ (yes > tracker.yes) = (Seen(value).move > 0)
        /\ Seen(value).moveAt <= clock
    BY <2>1 DEF LeadLag
  <2>3. PICK j \in 2 .. n :
          /\ LastMove(j, n)' /\ ticks'[j].at = Seen(value).moveAt
          /\ Seen(value).move = ticks'[j].value - ticks'[j - 1].value
    BY <1>1, <1>2, <2>2, SeenIsBacked
  <2>4. Seen(value).moveAt \in Nat
    BY <1>1, <1>2, <2>2, SeenIsBacked
  <2>5. PICK o \in 1 .. n - 1 :
          LastQuote(o, n - 1) /\ ticks[o].yes = tracker.yes
    BY <1>3, <2>2 DEF Repriced, LeadInv, QuoteBacked
  <2>6. LastQuote(o, n - 1)' /\ ticks'[o].yes = tracker.yes
    <3>1. n \in Nat /\ n - 1 \in 0 .. n - 1
      BY <1>2, <2>5
    <3> QED BY <1>3, <2>5, <3>1, PastIsKept
  <2>7. ticks'[n].at - ticks'[j].at \in 0 .. LEAD
    <3>1. clock \in Nat /\ LEAD \in Nat
      BY ObserveAssumption DEF LeadInv, TickInv
    <3>2. \A c, m, l \in Nat : m <= c /\ ~((IF c > m THEN c - m ELSE 0) > l)
                             => c - m \in 0 .. l
      OBVIOUS
    <3>3. clock - Seen(value).moveAt \in 0 .. LEAD
      BY <2>2, <2>4, <3>1, <3>2 DEF Since
    <3> QED BY <1>1, <1>3, <2>3, <3>3
  <2>8. ticks'[j].value \in Nat /\ ticks'[j - 1].value \in Nat
    <3>1. \A i \in 1 .. n : ticks'[i] \in Ticks
      <4>1. \A i \in 1 .. n : i = n \/ i \in 1 .. n - 1
        BY <1>2
      <4> QED BY <1>3, <4>1
    <3>2. j \in 1 .. n /\ j - 1 \in 1 .. n
      BY <1>2, <2>3
    <3> QED BY <3>1, <3>2, ObserveAssumption DEF Ticks
  <2>9. (Seen(value).move > 0) = (ticks'[j].value > ticks'[j - 1].value)
    BY <2>3, <2>8, Rising
  <2>10. (ticks'[n].yes > ticks'[o].yes) =
           (ticks'[j].value > ticks'[j - 1].value)
    BY <1>1, <1>3, <2>2, <2>6, <2>9
  <2> QED BY <1>4, <2>3, <2>5, <2>6, <2>7, <2>10
<1>5. CASE k # n
  <2>1. k \in 1 .. n - 1 /\ ticks'[k] = ticks[k]
    BY <1>2, <1>3, <1>5
  <2>2. PICK j \in 2 .. k, o \in 1 .. k - 1 :
          /\ LastMove(j, k) /\ LastQuote(o, k - 1)
          /\ ticks[k].at - ticks[j].at \in 0 .. LEAD
          /\ (ticks[k].yes > ticks[o].yes) =
               (ticks[j].value > ticks[j - 1].value)
    BY <1>3, <2>1 DEF LeadInv, LeadIsBacked
  <2>3. LastMove(j, k)' /\ LastQuote(o, k - 1)'
    <3>1. n \in Nat /\ k - 1 \in 0 .. n - 1
      BY <1>2, <2>1
    <3> QED BY <1>3, <2>1, <2>2, <3>1, PastIsKept
  <2>4. {j, j - 1, o} \subseteq 1 .. n - 1
    BY <1>2, <2>1, <2>2
  <2>5. /\ ticks'[j] = ticks[j] /\ ticks'[j - 1] = ticks[j - 1]
        /\ ticks'[o] = ticks[o]
    BY <1>3, <2>4
  <2> QED BY <2>1, <2>2, <2>3, <2>5
<1> QED BY <1>4, <1>5

\* The index is said to lead only after a move in the direction of the price,
\* for any thresholds, prices and clock.  (signal lib.rs 196-217, 296-341)
THEOREM Lead == Spec => []LeadIsBacked
<1>1. Init => LeadInv
  BY DEF Init, LeadInv, TickInv, NewTracker, LeadIsBacked
<1>2. LeadInv /\ [Next]_vars => LeadInv'
  <2> SUFFICES ASSUME LeadInv, [Next]_vars PROVE LeadInv'
    OBVIOUS
  <2>1. TickInv'
    BY TickStep DEF LeadInv
  <2>2. CASE UNCHANGED <<ticks, tracker>>
    <3>1. ticks' = ticks /\ tracker' = tracker
      BY <2>2
    <3>2. /\ \A j, k : LastMove(j, k)' <=> LastMove(j, k)
          /\ \A o, k : LastQuote(o, k)' <=> LastQuote(o, k)
      BY <3>1 DEF LastMove, LastQuote
    <3>3. LeadIsBacked'
      BY <3>1, <3>2 DEF LeadInv, LeadIsBacked
    <3>4. /\ \A a, m, k : MoveBacked(a, m, k)' <=> MoveBacked(a, m, k)
          /\ \A y, k : QuoteBacked(y, k)' <=> QuoteBacked(y, k)
      BY <3>1, <3>2 DEF MoveBacked, QuoteBacked
    <3>5. /\ tracker.moveAt # None =>
               MoveBacked(tracker.moveAt, tracker.move, Len(ticks))'
          /\ tracker.yes # None => QuoteBacked(tracker.yes, Len(ticks))'
      BY <3>1, <3>4 DEF LeadInv
    <3> QED BY <2>1, <3>1, <3>3, <3>5 DEF LeadInv
  <2>3. CASE ticks' = <<>> /\ tracker' = NewTracker
    <3>1. tracker'.prev = 0 /\ tracker'.moveAt = None /\ tracker'.yes = None
      BY <2>3 DEF NewTracker
    <3>2. LeadIsBacked'
      BY <2>3 DEF LeadIsBacked
    <3> QED BY <2>1, <2>3, <3>1, <3>2 DEF LeadInv
  <2>4. ASSUME NEW value \in Values, NEW yes \in Prices, Update(value, yes)
        PROVE  LeadInv'
    <3>1. PICK tick \in Ticks :
            /\ ticks' = Append(ticks, tick) /\ tick.at = clock
            /\ tick.value = value /\ tick.yes = yes
      BY <2>4, TickAdded DEF LeadInv
    <3>2. PICK n \in Nat : n = Len(ticks) + 1
      BY DEF LeadInv, TickInv
    <3>3. Len(ticks') = n /\ ticks'[n].value = value /\ ticks' # <<>>
      BY <3>1, <3>2, HistoryGrows DEF LeadInv
    <3>4. /\ tracker'.prev = value /\ tracker'.moveAt = Seen(value).moveAt
          /\ tracker'.move = Seen(value).move
      BY <2>4 DEF Update, Printed, Seen
    <3>5. tracker'.moveAt # None =>
            /\ tracker'.moveAt \in Nat
            /\ MoveBacked(tracker.moveAt, tracker.move, Len(ticks))'
      BY <2>4, <3>1, <3>2, <3>3, <3>4, SeenIsBacked DEF MoveBacked
    <3>6. tracker'.yes # None =>
            /\ tracker'.yes \in YesPrices
            /\ QuoteBacked(tracker.yes, Len(ticks))'
      BY <2>4, <3>1, <3>2, <3>3, QuoteIsBacked DEF QuoteBacked
    <3>7. LeadIsBacked'
      BY <2>4, LeadStaysBacked
    <3> QED BY <2>1, <3>3, <3>4, <3>5, <3>6, <3>7 DEF LeadInv
  <2> QED BY <2>2, <2>3, <2>4, TickStep DEF LeadInv
<1>3. LeadInv => LeadIsBacked
  BY DEF LeadInv
<1> QED BY <1>1, <1>2, <1>3, PTL DEF Spec

-----------------------------------------------------------------------------
(* Types. *)

\* A larger number has no smaller quotient.
LEMMA LaterDay ==
  ASSUME NEW m \in Nat, NEW n \in Nat, m <= n, NEW d \in Nat \ {0}
  PROVE  (m \div d) \in Nat /\ (m \div d) <= (n \div d)
OBVIOUS

\* Today is one of the days there are files for.
LEMMA TodayIsDay == clock \in 0 .. MaxClock => Today \in Days
<1> SUFFICES ASSUME clock \in 0 .. MaxClock PROVE Today \in Days
  OBVIOUS
<1>1. /\ clock \in Nat /\ MaxClock \in Nat /\ clock <= MaxClock
      /\ DayLength \in Nat \ {0}
  BY ObserveAssumption
<1>2. /\ (clock \div DayLength) \in Nat /\ (MaxClock \div DayLength) \in Nat
      /\ (clock \div DayLength) <= (MaxClock \div DayLength)
  BY <1>1, LaterDay
<1>3. (clock \div DayLength) \in 0 .. (MaxClock \div DayLength)
  BY <1>2
<1> QED BY <1>3, ObserveAssumption DEF Today

\* What a write does: unless nothing of it is on disk, the record is the last
\* of the file of today.
LEMMA RecordCases ==
  ASSUME FileInv, Record
  PROVE  \E o \in Outcomes :
           /\ records' = Append(records, [day |-> Today, outcome |-> o])
           /\ writer' \in {writer, [day |-> Today, file |-> Today]}
           /\ \/ o = "nothing" /\ files' = files
              \/ /\ o # "nothing"
                 /\ files' = [files EXCEPT ![Today] =
                                Append(files[Today],
                                       [record |-> Len(records) + 1,
                                        whole  |-> o = "whole"])]
<1> DEFINE n == Len(records) + 1
<1>1. PICK result \in WriteLine(writer, files, Today, n) :
        /\ writer' = result.writer /\ files' = result.files
        /\ records' = Append(records, [day |-> Today,
                                       outcome |-> result.outcome])
  BY DEF Record
<1>2. writer = [day |-> writer.day, file |-> writer.file]
      /\ writer.day = writer.file
  BY DEF FileInv
<1> HIDE DEF n
<1>3. \/ /\ result.writer = [day |-> Today, file |-> Today]
         /\ result.outcome \in Outcomes
         /\ result.files = Write(files, Today, n, result.outcome)
      \/ /\ result.writer = writer /\ result.files = files
         /\ result.outcome = "nothing"
  BY <1>2 DEF WriteLine, Open, DayKept
<1> QED BY <1>1, <1>3 DEF Write, Outcomes, n

\* The types, and what Filing knows of the files.
ObserveInv == TypeOK /\ FileInv

\* The types of the tracker after an estimate.
LEMMA TrackerType ==
  ASSUME TypeOK, NEW value \in Values, NEW yes \in Prices, Update(value, yes)
  PROVE  tracker' \in [prev: Values \cup {0}, printed: Values \cup {0},
                       printedAt: 0 .. MaxClock, yes: YesPrices \cup {None},
                       moveAt: 0 .. MaxClock \cup {None}, move: Int]
<1> DEFINE T == [prev: Values \cup {0}, printed: Values \cup {0},
                 printedAt: 0 .. MaxClock, yes: YesPrices \cup {None},
                 moveAt: 0 .. MaxClock \cup {None}, move: Int]
<1>1. tracker \in T /\ clock \in 0 .. MaxClock
  BY DEF TypeOK
<1>2. value - tracker.prev \in Int
  <2>1. tracker.prev \in Values \cup {0}
    BY <1>1
  <2>2. \A x \in Values \cup {0} : x \in Int
    BY ObserveAssumption
  <2>3. value \in Int /\ tracker.prev \in Int
    BY <2>1, <2>2
  <2> HIDE DEF T
  <2> QED BY <2>3
<1>3. Seen(value) \in T
  BY <1>1, <1>2 DEF Seen
<1>4. Printed(value, Seen(value)) \in T
  BY <1>1, <1>3 DEF Printed
<1> HIDE DEF T
<1>5. tracker' = [Printed(value, Seen(value)) EXCEPT
                    !.yes = IF yes = None THEN @ ELSE yes]
  BY DEF Update
<1> QED BY <1>4, <1>5 DEF T, Prices

\* A file is typed by the records there are.
LEMMA FileType ==
  ASSUME NEW n, NEW file \in Seq(FileItems),
         \A i \in DOMAIN file : file[i].record \in 1 .. n
  PROVE  file \in Seq([record: 1 .. n, whole: BOOLEAN])
<1> DEFINE S == [record: 1 .. n, whole: BOOLEAN]
<1>1. /\ Len(file) \in Nat /\ DOMAIN file = 1 .. Len(file)
      /\ file \in [1 .. Len(file) -> FileItems]
  BY LenProperties
<1>2. \A i \in 1 .. Len(file) : file[i] \in S
  BY <1>1 DEF FileItems
<1> HIDE DEF S
<1>3. file \in [1 .. Len(file) -> S]
  BY <1>1, <1>2
<1>4. file \in Seq(S)
  BY <1>1, <1>3, SeqDef
<1> QED BY <1>4 DEF S

\* The types at the start.
LEMMA ObserveInit == Init => ObserveInv
<1> SUFFICES ASSUME Init PROVE ObserveInv
  OBVIOUS
<1>1. 0 \in Days /\ 0 \in 0 .. MaxClock
  <2>1. 0 \in 0 .. MaxClock
    BY ObserveAssumption
  <2>2. MaxClock \div DayLength \in Nat
    BY LaterDay, ObserveAssumption
  <2> QED BY <2>1, <2>2, ObserveAssumption
<1>2. FileInv
  BY DEF Init, FileInv, NoFiles
<1>3. TypeOK
  BY <1>1, ObserveAssumption DEF Init, TypeOK, NewTracker, NoFiles
<1> QED BY <1>2, <1>3 DEF ObserveInv

\* Every step keeps them.
LEMMA ObserveStep == ObserveInv /\ [Next]_vars => ObserveInv'
<1> SUFFICES ASSUME ObserveInv, [Next]_vars PROVE ObserveInv'
  OBVIOUS
<1>1. Today \in Days /\ Today \in Int /\ clock \in Nat
  <2>1. clock \in 0 .. MaxClock /\ clock \in Nat
    BY DEF ObserveInv, TypeOK
  <2> QED BY <2>1, TodayIsDay, TodayType
<1>2. CASE Pass \/ SetBack \/ UNCHANGED vars
  <2>1. UNCHANGED <<tracker, writer, files, ticks, records>>
    BY <1>2 DEF Pass, SetBack, vars
  <2>2. /\ clock \in 0 .. MaxClock /\ faults \in 0 .. MaxFaults
        /\ MaxClock \in Nat /\ MaxFaults \in Nat
    BY ObserveAssumption DEF ObserveInv, TypeOK
  <2>3. clock' \in 0 .. MaxClock /\ faults' \in 0 .. MaxFaults
    BY <1>2, <2>2 DEF Pass, SetBack, vars
  <2> QED BY <2>1, <2>3 DEF ObserveInv, TypeOK, FileInv
<1>3. CASE Restart
  <2>1. /\ writer' = [day |-> Today, file |-> Today] /\ files' = files
        /\ records' = records /\ clock' = clock /\ ticks' = <<>>
        /\ tracker' = NewTracker /\ faults' \in 0 .. MaxFaults
    <3>1. faults \in 0 .. MaxFaults
      BY DEF ObserveInv, TypeOK
    <3>2. MaxFaults \in Nat
      BY ObserveAssumption
    <3>3. faults < MaxFaults /\ faults' = faults + 1
      BY <1>3 DEF Restart
    <3>4. faults' \in 0 .. MaxFaults
      BY <3>1, <3>2, <3>3
    <3> QED BY <1>3, <3>4 DEF Restart, Open
  <2>2. FileInv'
    BY <2>1, <1>1 DEF FileInv, ObserveInv
  <2>3. tracker' \in [prev: Values \cup {0}, printed: Values \cup {0},
                       printedAt: 0 .. MaxClock, yes: YesPrices \cup {None},
                       moveAt: 0 .. MaxClock \cup {None}, move: Int]
    BY <2>1, ObserveAssumption DEF NewTracker
  <2>4. TypeOK'
    <3>1. writer' \in [day: Days, file: Days]
      BY <2>1, <1>1
    <3>2. ticks' \in Seq([at: 0 .. MaxClock, value: Values,
                          yes: YesPrices \cup {None}, said: Verdicts,
                          printed: BOOLEAN])
      BY <2>1
    <3>3. /\ records' \in Seq([day: Days, outcome: Outcomes])
          /\ clock' \in 0 .. MaxClock
          /\ \A d \in Days :
               files'[d] \in Seq([record: 1 .. Len(records'), whole: BOOLEAN])
      BY <2>1 DEF ObserveInv, TypeOK
    <3> QED BY <2>1, <2>3, <3>1, <3>2, <3>3 DEF TypeOK
  <2> QED BY <2>2, <2>4 DEF ObserveInv
<1>4. ASSUME NEW value \in Values, NEW yes \in Prices, Update(value, yes)
      PROVE  ObserveInv'
  <2>1. /\ clock' = clock
        /\ Record \/ UNCHANGED <<writer, files, records, faults>>
    BY <1>4 DEF Update
  <2>2. /\ FileInv' /\ writer' \in [day: Days, file: Days]
        /\ records' \in Seq([day: Days, outcome: Outcomes])
        /\ faults' \in 0 .. MaxFaults
    <3>1. CASE Record
      <4>1. FileInv'
        BY <3>1, <1>1, RecordFiles DEF ObserveInv
      <4>2. faults' \in 0 .. MaxFaults
        BY <3>1, ObserveAssumption DEF Record, ObserveInv, TypeOK
      <4>3. PICK o \in Outcomes :
              /\ records' = Append(records, [day |-> Today, outcome |-> o])
              /\ writer' \in {writer, [day |-> Today, file |-> Today]}
        BY <3>1, RecordCases DEF ObserveInv
      <4> QED BY <1>1, <4>1, <4>2, <4>3 DEF ObserveInv, TypeOK
    <3>2. CASE UNCHANGED <<writer, files, records, faults>>
      BY <3>2 DEF ObserveInv, TypeOK, FileInv
    <3> QED BY <2>1, <3>1, <3>2
  <2>3. ticks' \in Seq([at: 0 .. MaxClock, value: Values,
                        yes: YesPrices \cup {None}, said: Verdicts,
                        printed: BOOLEAN])
    <3> DEFINE S == [at: 0 .. MaxClock, value: Values,
                     yes: YesPrices \cup {None}, said: Verdicts,
                     printed: BOOLEAN]
               tick == [at |-> clock, value |-> value, yes |-> yes,
                        said |-> LeadLag(yes, Seen(value)),
                        printed |-> Due(value)]
    <3>1. LeadLag(yes, Seen(value)) \in Verdicts
      BY DEF LeadLag, Verdicts
    <3>2. Due(value) \in BOOLEAN
      BY DEF Due
    <3>3. tick \in S
      BY <3>1, <3>2 DEF ObserveInv, TypeOK, Prices
    <3>4. ticks' = Append(ticks, tick) /\ ticks \in Seq(S)
      BY <1>4 DEF Update, ObserveInv, TypeOK
    <3> HIDE DEF S, tick
    <3>5. ticks' \in Seq(S)
      BY <3>3, <3>4
    <3> QED BY <3>5 DEF S
  <2>4. tracker' \in [prev: Values \cup {0}, printed: Values \cup {0},
                      printedAt: 0 .. MaxClock, yes: YesPrices \cup {None},
                      moveAt: 0 .. MaxClock \cup {None}, move: Int]
    BY <1>4, TrackerType DEF ObserveInv
  <2>5. \A d \in Days :
          files'[d] \in Seq([record: 1 .. Len(records'), whole: BOOLEAN])
    BY <2>2, FileType DEF FileInv
  <2>6. clock' \in 0 .. MaxClock
    BY <2>1 DEF ObserveInv, TypeOK
  <2> QED BY <2>2, <2>3, <2>4, <2>5, <2>6 DEF ObserveInv, TypeOK
<1> QED BY <1>2, <1>3, <1>4 DEF Next, Prices

\* The tracker, the files and the history of the observation mode have their
\* types in every behaviour: there is a file for every day a writer may have.
THEOREM ObserveTypes == Spec => []TypeOK
<1>1. ObserveInv => TypeOK
  BY DEF ObserveInv
<1> QED BY <1>1, ObserveInit, ObserveStep, PTL DEF Spec

-----------------------------------------------------------------------------
(* Damage stays local. *)

\* An item is whole if its record was written well and is torn otherwise; no
\* record is in two places, and one that was written well is in one.
DamageInv ==
  /\ FileInv
  /\ \A d \in Days : \A i \in DOMAIN files[d] :
       records[files[d][i].record].outcome =
         IF files[d][i].whole THEN "whole" ELSE "torn"
  /\ \A d, e \in Days : \A i \in DOMAIN files[d], j \in DOMAIN files[e] :
       files[d][i].record = files[e][j].record => d = e /\ i = j
  /\ \A n \in DOMAIN records : records[n].outcome = "whole" =>
       \E d \in Days : \E i \in DOMAIN files[d] : files[d][i].record = n

\* A file that is written to keeps its items and gets one more.
LEMMA FileGrows ==
  ASSUME FileInv, Today \in Days, NEW item \in FileItems,
         files' = [files EXCEPT ![Today] = Append(files[Today], item)]
  PROVE  /\ \A d \in Days : \A i \in DOMAIN files[d] :
              i \in DOMAIN files'[d] /\ files'[d][i] = files[d][i]
         /\ Len(files[Today]) + 1 \in DOMAIN files'[Today]
         /\ \A d \in Days : \A i \in DOMAIN files'[d] :
              \/ i \in DOMAIN files[d] /\ files'[d][i] = files[d][i]
              \/ /\ d = Today /\ i = Len(files[Today]) + 1
                 /\ files'[d][i] = item
<1> DEFINE old == files[Today]
           m   == Len(old) + 1
<1>1. /\ old \in Seq(FileItems) /\ files'[Today] = Append(old, item)
      /\ \A d \in Days : d # Today => files'[d] = files[d]
  BY DEF FileInv
<1> HIDE DEF old
<1>2. /\ DOMAIN old = 1 .. Len(old) /\ Len(old) \in Nat
      /\ DOMAIN files'[Today] = 1 .. m
      /\ files'[Today][m] = item
      /\ \A i \in 1 .. Len(old) : files'[Today][i] = old[i]
  BY <1>1
<1>3. \A i \in 1 .. m : i \in 1 .. Len(old) \/ i = m
  BY <1>2
<1>4. m \in 1 .. m /\ \A i \in 1 .. Len(old) : i \in 1 .. m
  BY <1>2
<1> QED BY <1>1, <1>2, <1>3, <1>4 DEF old

\* A write keeps the invariant.
LEMMA RecordDamage ==
  ASSUME DamageInv, Record, Today \in Days, Today \in Int
  PROVE  DamageInv'
<1>1. FileInv /\ FileInv'
  BY RecordFiles DEF DamageInv
<1>2. PICK o \in Outcomes :
        /\ records' = Append(records, [day |-> Today, outcome |-> o])
        /\ \/ o = "nothing" /\ files' = files
           \/ /\ o # "nothing"
              /\ files' = [files EXCEPT ![Today] =
                             Append(files[Today],
                                    [record |-> Len(records) + 1,
                                     whole  |-> o = "whole"])]
  BY <1>1, RecordCases
<1> DEFINE n == Len(records) + 1
<1>3. /\ Len(records) \in Nat /\ DOMAIN records = 1 .. Len(records)
      /\ DOMAIN records' = 1 .. n /\ records'[n].outcome = o
      /\ \A r \in 1 .. Len(records) : records'[r] = records[r]
  BY <1>1, <1>2 DEF FileInv
<1>4. \A d \in Days : \A i \in DOMAIN files[d] :
        /\ files[d][i].record \in 1 .. Len(records)
        /\ records'[files[d][i].record] = records[files[d][i].record]
        /\ files[d][i].record # n
  <2> SUFFICES ASSUME NEW d \in Days, NEW i \in DOMAIN files[d]
               PROVE  /\ files[d][i].record \in 1 .. Len(records)
                      /\ records'[files[d][i].record] =
                           records[files[d][i].record]
                      /\ files[d][i].record # n
    OBVIOUS
  <2>1. files[d][i].record \in 1 .. Len(records)
    BY <1>1 DEF FileInv
  <2> QED BY <1>3, <2>1
<1>5. \A r \in DOMAIN records' : r \in 1 .. Len(records) \/ r = n
  BY <1>3
<1> HIDE DEF n
<1>8. \A d, e \in Days : \A i \in DOMAIN files[d], j \in DOMAIN files[e] :
        files[d][i].record = files[e][j].record => d = e /\ i = j
  BY DEF DamageInv
<1>6. CASE o = "nothing"
  <2>1. files' = files
    BY <1>2, <1>6
  <2>2. \A r \in DOMAIN records' : records'[r].outcome = "whole" =>
          r \in DOMAIN records /\ records[r].outcome = "whole"
    BY <1>3, <1>5, <1>6
  <2>3. \A d \in Days : \A i \in DOMAIN files'[d] :
          records'[files'[d][i].record].outcome =
            IF files'[d][i].whole THEN "whole" ELSE "torn"
    BY <1>4, <2>1 DEF DamageInv
  <2>4. \A d, e \in Days : \A i \in DOMAIN files'[d], j \in DOMAIN files'[e] :
          files'[d][i].record = files'[e][j].record => d = e /\ i = j
    <3> DEFINE Apart(f) ==
          \A d, e \in Days : \A i \in DOMAIN f[d], j \in DOMAIN f[e] :
            f[d][i].record = f[e][j].record => d = e /\ i = j
    <3>1. Apart(files)
      BY <1>8, Zenon
    <3> HIDE DEF Apart
    <3>2. Apart(files')
      BY <2>1, <3>1, Zenon
    <3> QED BY <3>2, Zenon DEF Apart
  <2>5. \A r \in DOMAIN records' : records'[r].outcome = "whole" =>
          \E d \in Days : \E i \in DOMAIN files'[d] : files'[d][i].record = r
    BY <2>1, <2>2 DEF DamageInv
  <2> QED BY <1>1, <2>3, <2>4, <2>5 DEF DamageInv
<1>7. CASE o # "nothing"
  <2> DEFINE item == [record |-> n, whole |-> o = "whole"]
             m == Len(files[Today]) + 1
  <2>1. /\ item \in FileItems /\ item.record = n /\ item.whole = (o = "whole")
        /\ files' = [files EXCEPT ![Today] = Append(files[Today], item)]
    BY <1>2, <1>3, <1>7 DEF FileItems, n
  <2> HIDE DEF item
  <2>2. /\ \A d \in Days : \A i \in DOMAIN files[d] :
             i \in DOMAIN files'[d] /\ files'[d][i] = files[d][i]
        /\ m \in DOMAIN files'[Today]
        /\ \A d \in Days : \A i \in DOMAIN files'[d] :
             \/ i \in DOMAIN files[d] /\ files'[d][i] = files[d][i]
             \/ d = Today /\ i = m /\ files'[d][i] = item
    BY <1>1, <2>1, FileGrows
  <2> HIDE DEF m
  <2>3. \A d \in Days : \A i \in DOMAIN files'[d] :
          records'[files'[d][i].record].outcome =
            IF files'[d][i].whole THEN "whole" ELSE "torn"
    <3> SUFFICES ASSUME NEW d \in Days, NEW i \in DOMAIN files'[d]
                 PROVE  records'[files'[d][i].record].outcome =
                          IF files'[d][i].whole THEN "whole" ELSE "torn"
      OBVIOUS
    <3>1. CASE i \in DOMAIN files[d] /\ files'[d][i] = files[d][i]
      BY <3>1, <1>4 DEF DamageInv
    <3>2. CASE files'[d][i] = item
      BY <3>2, <1>3, <1>7, <2>1 DEF Outcomes
    <3> QED BY <2>2, <3>1, <3>2
  <2>4. \A d, e \in Days : \A i \in DOMAIN files'[d], j \in DOMAIN files'[e] :
          files'[d][i].record = files'[e][j].record => d = e /\ i = j
    <3> SUFFICES ASSUME NEW d \in Days, NEW e \in Days,
                        NEW i \in DOMAIN files'[d], NEW j \in DOMAIN files'[e],
                        files'[d][i].record = files'[e][j].record
                 PROVE  d = e /\ i = j
      OBVIOUS
    <3> DEFINE Old(c, k) == k \in DOMAIN files[c] /\ files'[c][k] = files[c][k]
               New(c, k) == c = Today /\ k = m /\ files'[c][k] = item
    <3>1. /\ Old(d, i) \/ New(d, i)
          /\ Old(e, j) \/ New(e, j)
      BY <2>2
    <3>2. CASE Old(d, i) /\ Old(e, j)
      <4>1. /\ i \in DOMAIN files[d] /\ j \in DOMAIN files[e]
            /\ files'[d][i] = files[d][i] /\ files'[e][j] = files[e][j]
        BY <3>2
      <4>2. files[d][i].record = files[e][j].record
        <5> HIDE DEF Old, New
        <5> QED BY <4>1, Zenon
      <4> HIDE DEF Old, New
      <4>3. d \in Days /\ e \in Days
        OBVIOUS
      <4>4. \A k \in DOMAIN files[d], l \in DOMAIN files[e] :
              files[d][k].record = files[e][l].record => d = e /\ k = l
        BY <1>8, <4>3, Zenon
      <4> QED BY <4>1, <4>2, <4>4, Zenon
    <3>3. CASE New(d, i) /\ New(e, j)
      BY <3>3
    <3>4. CASE Old(d, i) /\ New(e, j)
      BY <3>4, <1>4, <2>1
    <3>5. CASE New(d, i) /\ Old(e, j)
      BY <3>5, <1>4, <2>1
    <3> QED BY <3>1, <3>2, <3>3, <3>4, <3>5
  <2>5. ASSUME NEW r \in DOMAIN records', records'[r].outcome = "whole"
        PROVE  \E d \in Days : \E i \in DOMAIN files'[d] :
                 files'[d][i].record = r
    <3>1. CASE r = n
      <4>1. files'[Today][m] = item
        <5>1. m \notin DOMAIN files[Today]
          BY <1>1 DEF FileInv, m
        <5> QED BY <2>2, <5>1
      <4> QED BY <2>1, <2>2, <3>1, <4>1
    <3>2. CASE r \in 1 .. Len(records)
      <4>1. r \in DOMAIN records /\ records[r].outcome = "whole"
        BY <1>3, <2>5, <3>2
      <4>2. PICK d \in Days : \E i \in DOMAIN files[d] : files[d][i].record = r
        BY <4>1 DEF DamageInv
      <4> QED BY <2>2, <4>2
    <3> QED BY <1>5, <3>1, <3>2
  <2> QED BY <1>1, <2>3, <2>4, <2>5 DEF DamageInv
<1> QED BY <1>6, <1>7

\* A torn write costs its own record and at most the one after it: a record
\* that was written well and cannot be read follows a torn one, and no two
\* follow the same, for any number of records, files and failures.
\* (historian lib.rs 27-28, writer.rs 10-12)
THEOREM Damage == Spec => []DamageIsLocal
<1>1. Init => DamageInv
  BY DEF Init, DamageInv, FileInv, NoFiles
<1>2. ObserveInv /\ DamageInv /\ [Next]_vars => DamageInv'
  <2> SUFFICES ASSUME ObserveInv, DamageInv, [Next]_vars PROVE DamageInv'
    OBVIOUS
  <2>1. Today \in Days /\ Today \in Int
    BY TodayIsDay, TodayType DEF ObserveInv, TypeOK
  <2>2. CASE UNCHANGED <<files, records>> /\ FileInv'
    BY <2>2 DEF DamageInv
  <2>3. FileInv'
    BY ObserveStep DEF ObserveInv
  <2>4. CASE Pass \/ SetBack \/ Restart \/ UNCHANGED vars
    BY <2>2, <2>3, <2>4 DEF Pass, SetBack, Restart, Open, vars
  <2>5. ASSUME NEW value \in Values, NEW yes \in Prices, Update(value, yes)
        PROVE  DamageInv'
    BY <2>1, <2>2, <2>3, <2>5, RecordDamage DEF Update
  <2> QED BY <2>4, <2>5 DEF Next, Prices
<1>3. DamageInv => DamageIsLocal
  <2> SUFFICES ASSUME DamageInv PROVE DamageIsLocal
    OBVIOUS
  <2> DEFINE read  == UNION {Readable(files[d]) : d \in Days}
             Of(o) == {n \in DOMAIN records : records[n].outcome = o}
             lost  == Of("whole") \ read
  <2>1. read \subseteq Of("whole")
    BY DEF Readable, DamageInv, FileInv
  <2>2. ASSUME NEW n \in lost
        PROVE  \E p \in Of("torn") : \E d \in Days : \E i \in DOMAIN files[d] :
                 /\ files[d][i].record = n /\ i - 1 \in DOMAIN files[d]
                 /\ files[d][i - 1].record = p
    <3>1. n \in DOMAIN records /\ records[n].outcome = "whole"
      OBVIOUS
    <3>2. PICK d \in Days : \E i \in DOMAIN files[d] : files[d][i].record = n
      BY <3>1 DEF DamageInv
    <3>3. PICK i \in DOMAIN files[d] : files[d][i].record = n
      BY <3>2
    <3>4. files[d][i].whole
      BY <3>1, <3>3 DEF DamageInv
    <3>5. n \notin Readable(files[d])
      OBVIOUS
    <3>6. i > 1 /\ ~files[d][i - 1].whole
      BY <3>3, <3>4, <3>5 DEF Readable
    <3>7. i - 1 \in DOMAIN files[d]
      BY <3>6 DEF DamageInv, FileInv
    <3>8. files[d][i - 1].record \in Of("torn")
      <4>1. /\ files[d][i - 1].record \in 1 .. Len(records)
            /\ records[files[d][i - 1].record].outcome = "torn"
        <5>1. files[d][i - 1].record \in 1 .. Len(records)
          BY <3>7 DEF DamageInv, FileInv
        <5>2. records[files[d][i - 1].record].outcome =
                IF files[d][i - 1].whole THEN "whole" ELSE "torn"
          BY <3>7 DEF DamageInv
        <5> QED BY <3>6, <5>1, <5>2, Zenon
      <4>2. DOMAIN records = 1 .. Len(records)
        BY DEF DamageInv, FileInv
      <4> QED BY <4>1, <4>2
    <3> QED BY <3>3, <3>7, <3>8
  <2> DEFINE Follows(n, p) ==
               \E d \in Days : \E i \in DOMAIN files[d] :
                 /\ files[d][i].record = n /\ i - 1 \in DOMAIN files[d]
                 /\ files[d][i - 1].record = p
             cause == [n \in lost |-> CHOOSE p \in Of("torn") : Follows(n, p)]
  <2>3. ASSUME NEW n, NEW k, NEW p, Follows(n, p), Follows(k, p)
        PROVE  n = k
    <3>1. PICK d \in Days : \E i \in DOMAIN files[d] :
                 /\ files[d][i].record = n /\ i - 1 \in DOMAIN files[d]
                 /\ files[d][i - 1].record = p
      BY <2>3
    <3>2. PICK i \in DOMAIN files[d] :
                 /\ files[d][i].record = n /\ i - 1 \in DOMAIN files[d]
                 /\ files[d][i - 1].record = p
      BY <3>1
    <3>3. PICK e \in Days : \E j \in DOMAIN files[e] :
                 /\ files[e][j].record = k /\ j - 1 \in DOMAIN files[e]
                 /\ files[e][j - 1].record = p
      BY <2>3
    <3>4. PICK j \in DOMAIN files[e] :
                 /\ files[e][j].record = k /\ j - 1 \in DOMAIN files[e]
                 /\ files[e][j - 1].record = p
      BY <3>3
    <3>5. d = e /\ i - 1 = j - 1
      BY <3>2, <3>4 DEF DamageInv
    <3>6. i \in Nat /\ j \in Nat
      BY DEF DamageInv, FileInv
    <3> QED BY <3>2, <3>4, <3>5, <3>6
  <2>4. \A n \in lost : cause[n] \in Of("torn") /\ Follows(n, cause[n])
    <3>1. \A n \in lost : \E p \in Of("torn") : Follows(n, p)
      BY <2>2
    <3> HIDE DEF Follows, lost, Of
    <3> QED BY <3>1
  <2>5. IsFiniteSet(Of("torn"))
    <3>1. IsFiniteSet(1 .. Len(records)) /\ DOMAIN records = 1 .. Len(records)
      BY FS_Interval DEF DamageInv, FileInv
    <3> QED BY <3>1, FS_Subset
  <2> HIDE DEF Of, read, lost, Follows
  <2>6. cause \in [lost -> Of("torn")]
    BY <2>4
  <2>7. \A n, k \in lost : cause[n] = cause[k] => n = k
    BY <2>3, <2>4
  <2>8. Cardinality(lost) <= Cardinality(Of("torn"))
    <3> HIDE DEF cause
    <3>1. cause \in Injection(lost, Of("torn"))
      BY <2>6, <2>7 DEF Injection, IsInjective
    <3> QED BY <2>5, <3>1, FS_Injection
  <2> QED BY <2>1, <2>8 DEF DamageIsLocal, Of, read, lost
<1> QED BY <1>1, <1>2, <1>3, ObserveInit, ObserveStep, PTL DEF Spec
=============================================================================
