---------------------------- MODULE PolicyProofs ----------------------------
(***************************************************************************)
(* The exit policy for every set of tickers and prices and every MaxMove, and *)
(* the size of an order for every price, edge and balance.                   *)
(***************************************************************************)
EXTENDS ExitPolicy, OrderSizing, TLAPS

(* An armed exit keeps its gain. *)

\* Exactly one position is tracked.
OneTracked ==
  \E t \in Tickers :
    book \in [Tickers -> Positions \cup {None}] /\ Tracked(book) = {t}

\* A position that is still open and armed is within eight cents of its peak.
NearPeak ==
  \A t \in Tracked(book) :
    ~sold /\ Armed(t) => bid >= book[t].peak - 8

\* The inductive invariant: the property needs the bid near the peak before
\* the cycle, which the trailing stop ensures of what is held.
PolicyInv == bid \in Nat /\ OneTracked /\ NearPeak /\ ArmedExitKeepsGain

\* One entry is tracked, at its own price: nothing is armed.
LEMMA PolicyInit == Init => PolicyInv
<1> SUFFICES ASSUME Init PROVE PolicyInv
  OBVIOUS
<1> USE ExitPolicyAssumption, NoneAssumption, TrackerAssumption
<1>1. PICK t \in Tickers, side \in Sides, entry \in Entries :
        /\ book = Add(EmptyBook, Entered(t, side, entry))
        /\ bid = entry
        /\ sold = FALSE
  BY DEF Init
<1>2. Entered(t, side, entry) \in Positions
  BY DEF Entered, Positions
<1>3. book = [u \in Tickers |-> IF u = t THEN Entered(t, side,
   entry) ELSE None]
  BY <1>1, <1>2 DEF Add, EmptyBook, Entered
<1>4. /\ book \in [Tickers -> Positions \cup {None}]
      /\ Tracked(book) = {t}
  BY <1>2, <1>3 DEF Tracked
<1>5. book[t].peak = entry /\ book[t].entry = entry /\ entry \in Nat
  BY <1>3 DEF Entered
<1>6. ~Armed(t)
  BY <1>5 DEF Armed
<1> QED
  BY <1>1, <1>4, <1>5, <1>6
     DEF PolicyInv, OneTracked, NearPeak, ArmedExitKeepsGain

\* A cycle raises the peak first; if it arms the position its bid is the peak,
\* and if the position was armed before, its last bid was near the peak.
LEMMA PolicyStep == PolicyInv /\ [Next]_vars => PolicyInv'
<1> SUFFICES ASSUME PolicyInv, [Next]_vars PROVE PolicyInv'
  OBVIOUS
<1> USE ExitPolicyAssumption, NoneAssumption
<1>1. CASE Next
  <2>1. PICK t \in Tickers, brti \in Indices, now \in Times : Cycle(t, brti,
     now)
    BY <1>1 DEF Next
  <2>2. /\ book \in [Tickers -> Positions \cup {None}] /\ Tracked(book) = {t}
        /\ book[t] \in Positions /\ ~sold /\ bid \in Nat
    BY <2>1 DEF PolicyInv, OneTracked, Cycle, Tracked
  <2>3. /\ bid' \in Nat /\ bid - bid' <= MaxMove
        /\ book' = UpdatePeak(book, t, bid')
        /\ sold' = ShouldExit(book'[t], bid', brti, now)
    BY <2>1 DEF Cycle
  <2> DEFINE pos == book[t]
             raised == [pos EXCEPT !.peak = bid']
  <2>4. raised \in Positions /\ raised.entry = pos.entry /\ raised.peak = bid'
    BY <2>2, <2>3 DEF Positions
  <2>5. /\ pos.entry \in Nat /\ pos.peak \in Nat /\ pos # None
    BY <2>2 DEF Positions
  <2>6. \/ bid' > pos.peak /\ book' = [book EXCEPT ![t] = raised]
        \/ bid' <= pos.peak /\ book' = book
    BY <2>2, <2>3, <2>5 DEF UpdatePeak
  <2>7. /\ book' \in [Tickers -> Positions \cup {None}] /\ Tracked(book') = {t}
        /\ book'[t].entry = pos.entry
        /\ \/ bid' > pos.peak /\ book'[t].peak = bid'
           \/ bid' <= pos.peak /\ book'[t].peak = pos.peak
    BY <2>2, <2>4, <2>6 DEF Tracked
  <2>8. ~sold' => ~TrailingStop(book'[t], bid')
    BY <2>3, Zenon DEF ShouldExit
  <2>9. ~sold' /\ Armed(t)' => bid' >= book'[t].peak - 8
    BY <2>3, <2>5, <2>7, <2>8 DEF TrailingStop, Armed
  <2>10. Armed(t) => bid >= pos.peak - 8
    BY <2>2 DEF PolicyInv, NearPeak
  <2>11. Armed(t)' => bid' >= book'[t].entry + 2 - MaxMove
    <3> SUFFICES ASSUME book'[t].peak >= book'[t].entry + 10
                 PROVE  bid' >= pos.entry + 2 - MaxMove
      BY <2>7 DEF Armed
    <3> HIDE DEF pos
    <3>1. CASE bid' > pos.peak
      BY <3>1, <2>3, <2>5, <2>7
    <3>2. CASE bid' <= pos.peak
      <4>1. pos.peak >= pos.entry + 10
        BY <3>2, <2>3, <2>5, <2>7
      <4>2. bid >= pos.peak - 8
        BY <4>1, <2>10 DEF Armed, pos
      <4>3. bid' \in Nat /\ bid \in Nat /\ bid - bid' <= MaxMove
        BY <2>2, <2>3
      <4>4. pos.entry \in Nat /\ pos.peak \in Nat /\ MaxMove \in Nat
        BY <2>5
      <4>5. \A e, q, m, n, move \in Nat :
              q >= e + 10 /\ m >= q - 8 /\ m - n <= move => n >= e + 2 - move
        OBVIOUS
      <4> QED BY <4>1, <4>2, <4>3, <4>4, <4>5
    <3> QED BY <3>1, <3>2, <2>3, <2>5
  <2> QED
    BY <2>3, <2>7, <2>9, <2>11
       DEF PolicyInv, OneTracked, NearPeak, ArmedExitKeepsGain
<1>2. CASE UNCHANGED vars
  BY <1>2 DEF vars, PolicyInv, OneTracked, NearPeak, ArmedExitKeepsGain,
     Armed, Tracked
<1> QED BY <1>1, <1>2

\* No exit condition, in whatever order the conditions fire and along
\* whatever path of bids, gives back the gain of a position that was ten cents
\* up but for the move of its last cycle.  (check_exit, and the peak raised
\* before it in reconciliation_loop)
THEOREM ArmedGainIsKept == Spec => []ArmedExitKeepsGain
<1>1. PolicyInv => ArmedExitKeepsGain
  BY DEF PolicyInv
<1> QED BY <1>1, PolicyInit, PolicyStep, PTL DEF Spec

-----------------------------------------------------------------------------
(* The band of bids a position is held at. *)

\* A raised position differs from the one before in its peak only.
LEMMA RaisedPosition ==
  ASSUME NEW b \in Nat, NEW t \in Tickers,
         book \in [Tickers -> Positions \cup {None}], book[t] # None
  PROVE  UpdatePeak(book, t, b)[t] =
           [book[t] EXCEPT !.peak = IF b > book[t].peak THEN b ELSE @]
<1>1. book[t] \in Positions
  OBVIOUS
<1>2. [book[t] EXCEPT !.peak = @] = book[t]
  BY <1>1 DEF Positions
<1>3. CASE b > book[t].peak
  BY <1>1, <1>3 DEF UpdatePeak
<1>4. CASE ~(b > book[t].peak)
  BY <1>2, <1>4 DEF UpdatePeak
<1> QED BY <1>3, <1>4

\* A bid that is low enough for a position to be sold leaves none below it at
\* which it is kept, one that is high enough none above, and a reversal none.
LEMMA BandOfOne ==
  ASSUME NEW pos \in Positions, NEW brti, NEW now \in Nat,
         NEW b \in Nat, NEW k \in Nat,
         NEW atB \in Positions, NEW atK \in Positions,
         atB = [pos EXCEPT !.peak = IF b > pos.peak THEN b ELSE pos.peak],
         atK = [pos EXCEPT !.peak = IF k > pos.peak THEN k ELSE pos.peak],
         ~ShouldExit(atK, k, brti, now)
  PROVE  /\ ~Reversed(atB, brti)
         /\ TakeProfit(atB, b) => k < b
         /\ \/ StopLoss(atB, b) \/ TrailingStop(atB, b)
            \/ NearExpiryLoss(atB, b, now)
            => k > b
<1>1. /\ pos.peak \in Nat /\ pos.entry \in Nat /\ pos.ticker \in Tickers
      /\ atB.entry = pos.entry /\ atK.entry = pos.entry
      /\ atB.side = pos.side /\ atK.side = pos.side
      /\ atB.brti = pos.brti /\ atK.brti = pos.brti
      /\ atB.ticker = pos.ticker /\ atK.ticker = pos.ticker
      /\ atB.peak = IF b > pos.peak THEN b ELSE pos.peak
      /\ atK.peak = IF k > pos.peak THEN k ELSE pos.peak
  BY DEF Positions
<1>2. ~Reversed(atB, brti)
  BY <1>1 DEF ShouldExit, Reversed
<1>3. ProfitTarget(atB) = ProfitTarget(atK) /\ ProfitTarget(atB) \in Nat
  BY <1>1 DEF ProfitTarget
<1>4. TakeProfit(atB, b) => k < b
  BY <1>3 DEF ShouldExit, TakeProfit
<1>5. StopLoss(atB, b) => k > b
  BY <1>1 DEF ShouldExit, StopLoss
<1>6. TrailingStop(atB, b) => k > b
  BY <1>1 DEF ShouldExit, TrailingStop
<1>7. NearExpiryLoss(atB, b, now) => k > b
  BY <1>1 DEF ShouldExit, NearExpiryLoss
<1> QED BY <1>2, <1>4, <1>5, <1>6, <1>7

\* Between two bids at which a position is kept it is sold at none, for any
\* prices, index, time to the close and thresholds: the five conditions of
\* check_exit, two of which look at the peak the bid itself has raised, leave
\* no hole.  (position_tracker.rs 103-160)
THEOREM HoldBand == Spec => []HoldBandConvex
<1>1. PolicyInv => HoldBandConvex
  <2> SUFFICES ASSUME PolicyInv, NEW t \in Tracked(book),
                      NEW brti \in Indices, NEW now \in Times,
                      NEW b \in 0 .. MaxBid,
                      ShouldExit(UpdatePeak(book, t, b)[t], b, brti, now)
               PROVE  LET kept == {k \in 0 .. MaxBid :
                             ~ShouldExit(UpdatePeak(book, t, k)[t], k, brti, now)}
                      IN  (\A k \in kept : k < b) \/ (\A k \in kept : k > b)
    BY DEF HoldBandConvex
  <2>1. /\ book \in [Tickers -> Positions \cup {None}] /\ t \in Tickers
        /\ book[t] \in Positions /\ book[t] # None
    BY DEF PolicyInv, OneTracked, Tracked
  <2>2. now \in Nat /\ 0 .. MaxBid \subseteq Nat
    BY ExitPolicyAssumption
  <2> DEFINE At(c) == UpdatePeak(book, t, c)[t]
  <2>3. ASSUME NEW c \in Nat
        PROVE  /\ At(c) \in Positions
               /\ At(c) = [book[t] EXCEPT
                             !.peak = IF c > book[t].peak THEN c ELSE book[t].peak]
    BY <2>1, RaisedPosition DEF Positions
  <2>4. ASSUME NEW k \in 0 .. MaxBid, ~ShouldExit(At(k), k, brti, now)
        PROVE  /\ ~Reversed(At(b), brti)
               /\ TakeProfit(At(b), b) => k < b
               /\ \/ StopLoss(At(b), b) \/ TrailingStop(At(b), b)
                  \/ NearExpiryLoss(At(b), b, now)
                  => k > b
    <3>1. /\ At(b) \in Positions
          /\ At(b) = [book[t] EXCEPT
                        !.peak = IF b > book[t].peak THEN b ELSE book[t].peak]
          /\ b \in Nat /\ k \in Nat
      BY <2>2, <2>3
    <3>2. /\ At(k) \in Positions
          /\ At(k) = [book[t] EXCEPT
                        !.peak = IF k > book[t].peak THEN k ELSE book[t].peak]
      BY <2>3, <3>1
    <3> HIDE DEF At
    <3> QED BY <2>1, <2>2, <2>4, <3>1, <3>2, BandOfOne, ZenonT(40)
  <2> HIDE DEF At
  <2>5. ShouldExit(At(b), b, brti, now)
    BY DEF At
  <2>6. CASE Reversed(At(b), brti)
    BY <2>4, <2>6 DEF At
  <2>7. CASE TakeProfit(At(b), b)
    BY <2>4, <2>7 DEF At
  <2>8. CASE \/ StopLoss(At(b), b) \/ TrailingStop(At(b), b)
             \/ NearExpiryLoss(At(b), b, now)
    BY <2>4, <2>8 DEF At
  <2> QED BY <2>5, <2>6, <2>7, <2>8 DEF ShouldExit
<1> QED BY <1>1, PolicyInit, PolicyStep, PTL DEF Spec

-----------------------------------------------------------------------------
(* Sizes and prices of orders. *)

\* The state is made of integers.
SizingTyped == price \in Nat /\ edge \in Int /\ balance \in Nat

\* Prices, edges and balances stay integers.
LEMMA SizingTypes == SizingSpec => []SizingTyped
<1> USE OrderSizingAssumption DEF SizingTyped
<1>1. SizingInit => SizingTyped
  BY DEF SizingInit
<1>2. SizingTyped /\ [SizingNext]_sizingVars => SizingTyped'
  BY DEF SizingNext, MoreEdge, MoreBalance, sizingVars
<1> QED BY <1>1, <1>2, PTL DEF SizingSpec

\* A quotient rounded down, times its divisor, does not exceed the dividend.
LEMMA FloorTimes ==
  ASSUME NEW m \in Nat, NEW d \in Nat \ {0}
  PROVE  (m \div d) \in Nat /\ (m \div d) * d <= m
OBVIOUS

\* In the price band the size is a number, within the cap and within Kelly.
LEMMA SizeIsCut ==
  ASSUME NEW e \in Int, NEW b \in Nat, NEW p \in 1 .. 99, e > 0
  PROVE  /\ Contracts(e, b, p) \in Nat
         /\ Contracts(e, b, p) <= CostCap(p)
         /\ Contracts(e, b, p) <= RawContracts(e, b, p)
         /\ CostCap(p) \in Nat /\ CostCap(p) * WholeCents(p) <= MaxPosition
<1> USE SizingAssumption
<1>1. KellyNum(e, p) = 100 * e
  BY DEF KellyNum
<1>2. KellyNum(e, p) * b \in Nat
  BY <1>1
<1>3. KellyDen(p) \in Nat \ {0}
  BY DEF KellyDen
<1>4. KellyDen(p) * KellyDivisor \in Nat \ {0}
  BY <1>3
<1>5. KellyDen(p) * KellyDivisor * p \in Nat \ {0}
  BY <1>4
<1>6. RawContracts(e, b, p) \in Nat
  BY <1>2, <1>5, FloorTimes DEF RawContracts
<1>7. CostCap(p) \in Nat /\ CostCap(p) * WholeCents(p) <= MaxPosition
  <2>1. WholeCents(p) \in Nat \ {0}
    BY DEF WholeCents
  <2> QED BY <2>1, FloorTimes DEF CostCap
<1> QED BY <1>6, <1>7 DEF Contracts, Least

\* The size is cut to the cap, at the price as it was converted, whatever the
\* rest of the formula gives.
LEMMA CutToCap ==
  ASSUME NEW e \in Int, NEW b \in Nat, NEW p \in Nat
  PROVE  /\ Contracts(e, b, p) \in Nat
         /\ Contracts(e, b, p) * WholeCents(p) <= MaxPosition
<1> DEFINE w == WholeCents(p)
<1>0. w \in Nat
  BY DEF WholeCents
<1> HIDE DEF w
<1>1. CASE e <= 0 \/ p = 0 \/ p >= 100
  <2>1. Contracts(e, b, p) = 0
    BY <1>1 DEF Contracts
  <2>2. 0 * w = 0
    BY <1>0
  <2> QED BY <2>1, <2>2, SizingAssumption DEF w
<1>2. CASE e > 0 /\ p \in 1 .. 99
  <2>1. /\ Contracts(e, b, p) \in Nat /\ Contracts(e, b, p) <= CostCap(p)
        /\ CostCap(p) \in Nat /\ CostCap(p) * w <= MaxPosition
    BY <1>2, SizeIsCut DEF w
  <2>2. \A x, y \in Nat : x <= y => x * w <= y * w
    BY <1>0
  <2>3. Contracts(e, b, p) * w \in Int /\ CostCap(p) * w \in Int
    BY <2>1, <1>0
  <2>4. Contracts(e, b, p) * w <= MaxPosition
    BY <2>1, <2>2, <2>3, SizingAssumption
  <2> QED BY <2>1, <2>4 DEF w
<1> QED BY <1>1, <1>2

\* For every price, edge, balance and cap: an order costs no more than the cap
\* at a market price that is converted to itself, and at the limit price at most
\* a cent per contract above the cap.  (sizing.rs 49-52, lib.rs 287-288)
THEOREM CostIsCapped == SizingSpec => []CostWithinCap
<1>1. SizingTyped => CostWithinCap
  <2> SUFFICES ASSUME SizingTyped PROVE CostWithinCap
    OBVIOUS
  <2> DEFINE w == WholeCents(price)
  <2>1. price \in Nat /\ w \in Nat /\ LimitPrice(price) = w + 1
    BY DEF SizingTyped, WholeCents, LimitPrice
  <2>2. Size \in Nat /\ Size * w <= MaxPosition
    BY CutToCap DEF SizingTyped, Size
  <2>3. w = price => Size * price <= MaxPosition
    BY <2>2
  <2> HIDE DEF w
  <2>4. Size * (w + 1) = Size * w + Size
    BY <2>1, <2>2
  <2>5. Size * LimitPrice(price) <= MaxPosition + Size
    <3>1. Size * w \in Int /\ MaxPosition \in Nat
      BY <2>1, <2>2, SizingAssumption
    <3> DEFINE cost == Size * w
    <3> HIDE DEF cost
    <3>2. cost + Size <= MaxPosition + Size
      BY <2>2, <3>1 DEF cost
    <3> QED BY <2>1, <2>4, <3>2 DEF cost
  <2> QED BY <2>3, <2>5 DEF CostWithinCap, w
<1> QED BY <1>1, SizingTypes, PTL

\* kelly_fraction is the textbook edge over odds for every edge and every
\* price below a dollar.  (sizing.rs 11-20)
THEOREM KellyIsTextbook == SizingSpec => []KellyIsEdgeOverOdds
<1>1. SizingTyped => KellyIsEdgeOverOdds
  <2> SUFFICES ASSUME SizingTyped
               PROVE  KellyNum(edge, price) * (100 - price) =
                        edge * KellyDen(price)
    BY DEF KellyIsEdgeOverOdds
  <2>1. KellyNum(edge, price) = 100 * edge
    BY DEF SizingTyped, KellyNum
  <2> QED BY <2>1 DEF SizingTyped, KellyDen
<1> QED BY <1>1, SizingTypes, PTL

\* The cent that is added to a price makes up for the one its conversion may
\* lose: no order is sent below the market it was decided on.  (lib.rs 287-288,
\* client.rs 381)
THEOREM OrdersReachMarket == SizingSpec => []OrderReachesMarket
<1>1. SizingTyped => OrderReachesMarket
  BY DEF SizingTyped, OrderReachesMarket, LimitPrice, WholeCents
<1> QED BY <1>1, SizingTypes, PTL

\* The edge fits over the price.
EdgeBound == SizingTyped /\ (price < 100 => edge <= 100 - price)

\* The edge never exceeds what a probability leaves over the price.
LEMMA EdgeBounded == SizingSpec => []EdgeBound
<1> USE OrderSizingAssumption DEF SizingTyped, EdgeBound
<1>1. SizingInit => EdgeBound
  BY DEF SizingInit
<1>2. EdgeBound /\ [SizingNext]_sizingVars => EdgeBound'
  BY DEF SizingNext, MoreEdge, MoreBalance, sizingVars
<1> QED BY <1>1, <1>2, PTL DEF SizingSpec

\* The Kelly amount alone, before any cap, is paid from the balance even at
\* the limit price, because no more than half of it is ever staked.
LEMMA KellyIsAffordable ==
  ASSUME KellyDivisor >= 2, NEW b \in Nat,
         NEW p \in 1 .. 99, NEW e \in 1 .. 100 - p,
         NEW s \in Nat, s <= RawContracts(e, b, p)
  PROVE  s * (p + 1) <= b
<1> USE SizingAssumption
<1> DEFINE x == 100 * (100 - p)
           k == KellyDivisor * p
<1>1. x \in Nat \ {0} /\ k \in Nat \ {0}
  OBVIOUS
<1>2. KellyNum(e, p) = 100 * e
  BY DEF KellyNum
<1>3. KellyDen(p) * KellyDivisor * p = x * k
  BY DEF KellyDen
<1>4. 100 * e <= x
  OBVIOUS
<1>5. KellyNum(e, p) * b \in Nat /\ KellyNum(e, p) * b <= x * b
  BY <1>1, <1>2, <1>4
<1>6. p + 1 <= k
  OBVIOUS
<1> HIDE DEF x, k
<1>7. x * k \in Nat \ {0}
  BY <1>1
<1>8. RawContracts(e, b, p) \in Nat /\ RawContracts(e, b, p) * (x * k) <= x * b
  BY <1>1, <1>3, <1>5, <1>7, FloorTimes DEF RawContracts
<1>9. s * (x * k) <= RawContracts(e, b, p) * (x * k)
  BY <1>7, <1>8
<1>10. x * (s * k) <= x * b
  BY <1>1, <1>7, <1>8, <1>9
<1>11. s * k <= b
  BY <1>1, <1>10
<1>12. s * (p + 1) <= s * k
  BY <1>1, <1>6
<1> QED BY <1>1, <1>11, <1>12

\* With half Kelly or less (the code has a quarter) an order can be paid from
\* the balance it was sized with although it is sent one cent above the price
\* it was sized at.  (KELLY_FRACTION, lib.rs 269-288)
THEOREM OrdersAreAffordable ==
  ASSUME KellyDivisor >= 2
  PROVE  SizingSpec => []OrderIsAffordable
<1>1. EdgeBound => OrderIsAffordable
  <2> SUFFICES ASSUME EdgeBound PROVE OrderIsAffordable
    OBVIOUS
  <2>1. price \in Nat /\ balance \in Nat
    BY DEF EdgeBound, SizingTyped
  <2>2. Size \in Nat /\ Size * (price + 1) <= balance
    <3>1. CASE edge <= 0 \/ price = 0 \/ price >= 100
      BY <3>1 DEF Size, Contracts, EdgeBound, SizingTyped
    <3>2. CASE edge > 0 /\ price \in 1 .. 99
      <4>1. /\ edge \in 1 .. 100 - price
            /\ edge \in Int /\ edge > 0 /\ balance \in Nat
        BY <3>2 DEF EdgeBound, SizingTyped
      <4>2. Size \in Nat /\ Size <= RawContracts(edge, balance, price)
        BY <3>2, <4>1, SizeIsCut DEF Size
      <4> QED BY <3>2, <4>1, <4>2, KellyIsAffordable
    <3> QED BY <3>1, <3>2 DEF EdgeBound, SizingTyped
  <2>3. LimitPrice(price) \in Nat /\ LimitPrice(price) <= price + 1
    BY <2>1 DEF LimitPrice, WholeCents
  <2>4. \A n, x, y \in Nat : x <= y => n * x <= n * y
    OBVIOUS
  <2>5. Size * LimitPrice(price) <= Size * (price + 1)
    BY <2>1, <2>2, <2>3, <2>4
  <2>6. Size * LimitPrice(price) \in Int /\ Size * (price + 1) \in Int
    BY <2>1, <2>2, <2>3
  <2> QED BY <2>1, <2>2, <2>5, <2>6 DEF OrderIsAffordable
<1> QED BY <1>1, EdgeBounded, PTL

-----------------------------------------------------------------------------
(* The size grows with the edge and the balance. *)

\* A quotient rounded down grows with its dividend.
LEMMA FloorGrows ==
  ASSUME NEW m \in Nat, NEW n \in Nat, m <= n, NEW d \in Nat \ {0}
  PROVE  (m \div d) <= (n \div d)
OBVIOUS

\* The size for a larger edge and balance is no smaller.
LEMMA ContractsGrow ==
  ASSUME NEW p \in Nat, NEW e \in Int, NEW f \in Int, e <= f,
         NEW b \in Nat, NEW c \in Nat, b <= c
  PROVE  Contracts(e, b, p) <= Contracts(f, c, p)
<1> USE SizingAssumption
<1>1. CASE e <= 0 \/ p = 0 \/ p >= 100
  <2>1. Contracts(e, b, p) = 0
    BY <1>1 DEF Contracts
  <2>2. Contracts(f, c, p) \in Nat
    <3>1. CASE f > 0 /\ p \in 1 .. 99
      BY <3>1, SizeIsCut
    <3>2. CASE ~(f > 0 /\ p \in 1 .. 99)
      BY <3>2 DEF Contracts
    <3> QED BY <3>1, <3>2
  <2> QED BY <2>1, <2>2
<1>2. CASE e > 0 /\ p \in 1 .. 99
  <2>1. KellyNum(e, p) = 100 * e /\ KellyNum(f, p) = 100 * f
    BY <1>2 DEF KellyNum
  <2>2. (100 * e) * b \in Nat /\ (100 * f) * c \in Nat
    BY <1>2
  <2>3. (100 * e) * b <= (100 * f) * c
    <3>1. \A i, j, k, l \in Nat : i <= j /\ k <= l => i * k <= j * l
      OBVIOUS
    <3>2. 100 * e \in Nat /\ 100 * f \in Nat /\ 100 * e <= 100 * f
      BY <1>2
    <3> QED BY <3>1, <3>2
  <2>4. KellyDen(p) * KellyDivisor * p \in Nat \ {0}
    <3>1. KellyDen(p) \in Nat \ {0}
      BY <1>2 DEF KellyDen
    <3>2. KellyDen(p) * KellyDivisor \in Nat \ {0}
      BY <3>1
    <3> QED BY <3>2, <1>2
  <2>5. RawContracts(e, b, p) <= RawContracts(f, c, p)
    BY <2>1, <2>2, <2>3, <2>4, FloorGrows DEF RawContracts
  <2>6. RawContracts(e, b, p) \in Nat /\ RawContracts(f, c, p) \in Nat
    BY <2>1, <2>2, <2>4, FloorTimes DEF RawContracts
  <2>7. CostCap(p) \in Nat
    BY <1>2, SizeIsCut
  <2> QED BY <1>2, <2>5, <2>6, <2>7 DEF Contracts, Least
<1> QED BY <1>1, <1>2

\* More edge or more money never makes an order smaller, through the quotient
\* of the Kelly amount, the cap on its cost and the cap on contracts, for every
\* price.  (sizing.rs 11-54)
THEOREM SizesGrow == SizingSpec => SizeGrows
<1>1. SizingTyped /\ SizingTyped' /\ [SizingNext]_sizingVars
        => [Size' >= Size]_sizingVars
  <2> SUFFICES ASSUME SizingTyped, SizingTyped', SizingNext
               PROVE  Size' >= Size
    OBVIOUS
  <2>1. price' = price /\ edge <= edge' /\ balance <= balance'
    BY OrderSizingAssumption
       DEF SizingNext, MoreEdge, MoreBalance, SizingTyped
  <2>2. Contracts(edge, balance, price) <= Contracts(edge', balance', price)
    BY <2>1, ContractsGrow DEF SizingTyped
  <2>3. Size' = Contracts(edge', balance', price)
    BY <2>1 DEF Size
  <2> QED BY <2>2, <2>3 DEF Size
<1> QED BY <1>1, SizingTypes, PTL DEF SizingSpec, SizeGrows
=============================================================================
