------------------------------- MODULE Sizing -------------------------------
(***************************************************************************)
(* Kelly sizing of an order (services/executor/src/sizing.rs).  Prices are   *)
(* whole cents and the edge is in percentage points, so that every ratio of  *)
(* the code is a quotient of integers.                                       *)
(***************************************************************************)
EXTENDS Integers

CONSTANTS
  MaxPosition,   \* max_position_cents
  MaxContracts,  \* max_contracts
  KellyDivisor   \* 1 / KELLY_FRACTION: 4 for quarter Kelly

ASSUME SizingAssumption ==
  /\ MaxPosition \in Nat
  /\ MaxContracts \in Nat
  /\ KellyDivisor \in Nat \ {0}

Least(a, b) == IF a < b THEN a ELSE b

\* The tradable band of a market price.
InPriceBand(price) == price \in 5 .. 95

\* Mutation: the losing outcome is weighed without the edge.
KellyNumNoEdge(edge, price) ==
  (price + edge) * (100 - price) - (100 - price) * price

\* kelly_fraction before the multiplier is KellyNum / KellyDen: with
\* p = price / 100, model probability m = p + edge and net odds
\* o = (1 - p) / p, the code computes (m * o - (1 - m)) / o.
KellyNum(edge, price) ==
  (price + edge) * (100 - price) - (100 - price - edge) * price

KellyDen(price) == 100 * (100 - price)

\* What a price of the exchange is as an integer.  It comes as a string of
\* dollars, is multiplied by 100.0 and truncated, and at three prices the
\* product of the doubles falls short of the cent: 0.29 becomes 28.
WholeCents(cents) == IF cents \in {29, 57, 58} THEN cents - 1 ELSE cents

\* Mutation: the position cap is divided by the price rounded up to the tens.
CostCapLoose(price) == MaxPosition \div ((price \div 10) * 10 + 1)

CostCap(price) == MaxPosition \div WholeCents(price)

\* Mutation: the amount is taken for a number of contracts.
RawContractsUnpriced(edge, balance, price) ==
  (KellyNum(edge, price) * balance) \div (KellyDen(price) * KellyDivisor)

\* floor(kelly * balance / price), before the caps
RawContracts(edge, balance, price) ==
  (KellyNum(edge, price) * balance)
    \div (KellyDen(price) * KellyDivisor * price)

\* Mutation: an order over the position cap is dropped, not cut.
ContractsAllOrNothing(edge, balance, price) ==
  IF \/ edge <= 0 \/ price = 0 \/ price >= 100
     \/ RawContracts(edge, balance, price) > CostCap(price)
  THEN 0
  ELSE Least(RawContracts(edge, balance, price), MaxContracts)

\* kelly_fraction, its test for zero, and compute_contracts.
Contracts(edge, balance, price) ==
  IF edge <= 0 \/ price = 0 \/ price >= 100
  THEN 0
  ELSE Least(Least(RawContracts(edge, balance, price), CostCap(price)),
             MaxContracts)

\* Mutation: the order is sent at the price itself.
LimitPriceBare(price) == WholeCents(price)

\* The price the order is sent at: market_price as u64 + 1.
LimitPrice(price) == WholeCents(price) + 1
=============================================================================
