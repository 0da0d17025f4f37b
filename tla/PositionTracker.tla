-------------------------- MODULE PositionTracker ---------------------------
(***************************************************************************)
(* The local book of open positions and the exit policy applied to it       *)
(* (services/executor/src/position_tracker.rs).  The tracker is a map from   *)
(* tickers to positions, here a function whose value is None where the map   *)
(* has no entry.  Prices are whole cents; the code compares f64 values, the  *)
(* comparisons below are the same ones multiplied out.                       *)
(***************************************************************************)
EXTENDS Integers, FiniteSets

CONSTANTS
  Tickers,            \* Kalshi market tickers
  ClosesAt,           \* closes_at of each market
  ReversalThreshold,  \* 30.0 dollars
  NearExpiry,         \* 90_000 ms, in the clock's unit
  None                \* the absent value

ASSUME TrackerAssumption ==
  /\ IsFiniteSet(Tickers)
  /\ ClosesAt \in [Tickers -> Nat]
  /\ ReversalThreshold \in Nat
  /\ NearExpiry \in Nat

Sides == {"Yes", "No"}

\* OpenPosition; closes_at_ms is ClosesAt[ticker], order_id is only logged.
Positions == [ticker: Tickers, side: Sides, contracts: Nat \ {0},
              entry: Nat, peak: Nat, brti: Nat, opened: Nat]

ASSUME NoneAssumption == None \notin Positions /\ None \notin Sides

EmptyBook == [t \in Tickers |-> None]

Tracked(book) == {t \in Tickers : book[t] # None}

Add(book, pos) == [book EXCEPT ![pos.ticker] = pos]

\* Mutation: the entry stays in the map.
RemoveNothing(book, t) == book

Remove(book, t) == [book EXCEPT ![t] = None]

\* Mutation: the peak follows the price down as well.
UpdateLast(book, t, price) ==
  IF book[t] # None
  THEN [book EXCEPT ![t].peak = price]
  ELSE book

UpdatePeak(book, t, price) ==
  IF book[t] # None /\ price > book[t].peak
  THEN [book EXCEPT ![t].peak = price]
  ELSE book

-----------------------------------------------------------------------------
(* check_exit: five conditions, in the order of the code. *)

StopLoss(pos, price) == 5 * price < 2 * pos.entry

\* A hundredth of a cent: min(entry * 1.45, 95), then max with entry + 10.
ProfitTarget(pos) ==
  LET gain    == 145 * pos.entry
      ceiling == IF gain < 9500 THEN gain ELSE 9500
      floor   == 100 * (pos.entry + 10)
  IN  IF ceiling > floor THEN ceiling ELSE floor

\* Mutation: only the exact target is recognised.
TakeProfitExact(pos, price) == 100 * price = ProfitTarget(pos)

TakeProfit(pos, price) == 100 * price >= ProfitTarget(pos)

\* Mutation: ten cents more are given back before the stop fires.
TrailingStopWide(pos, price) ==
  /\ pos.peak >= pos.entry + 10
  /\ price < pos.peak - 18

TrailingStop(pos, price) ==
  /\ pos.peak >= pos.entry + 10
  /\ price < pos.peak - 8

Reversed(pos, brti) ==
  \/ pos.side = "Yes" /\ brti - pos.brti < -ReversalThreshold
  \/ pos.side = "No" /\ brti - pos.brti > ReversalThreshold

NearExpiryLoss(pos, price, now) ==
  /\ ClosesAt[pos.ticker] > now
  /\ ClosesAt[pos.ticker] - now < NearExpiry
  /\ price < pos.entry

\* check_exit returns Some.
ShouldExit(pos, price, brti, now) ==
  \/ StopLoss(pos, price)
  \/ TakeProfit(pos, price)
  \/ TrailingStop(pos, price)
  \/ Reversed(pos, brti)
  \/ NearExpiryLoss(pos, price, now)
=============================================================================
