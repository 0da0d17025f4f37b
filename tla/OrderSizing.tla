----------------------------- MODULE OrderSizing ----------------------------
(***************************************************************************)
(* The size of an order as its inputs grow: the market price is fixed, the   *)
(* edge and the balance rise.  Only the sizing functions are exercised; the   *)
(* executor calls them in LossSuppression.                                   *)
(***************************************************************************)
EXTENDS Sizing

CONSTANTS
  Prices,       \* market prices
  MaxEdge,      \* bound: largest edge, in percentage points
  MaxBalance,   \* bound: largest balance
  BalanceStep   \* by how much the balance rises

ASSUME OrderSizingAssumption ==
  /\ Prices \subseteq Nat
  /\ MaxEdge \in Nat /\ MaxBalance \in Nat /\ BalanceStep \in Nat

VARIABLES price, edge, balance

sizingVars == <<price, edge, balance>>

SizingInit == price \in Prices /\ edge = -1 /\ balance = 0

\* The edge of a probability over a price of p cents is at most 100 - p.
MoreEdge ==
  /\ edge < MaxEdge /\ edge < 100 - price
  /\ edge' = edge + 1
  /\ UNCHANGED <<price, balance>>

MoreBalance ==
  /\ balance + BalanceStep <= MaxBalance
  /\ balance' = balance + BalanceStep
  /\ UNCHANGED <<price, edge>>

SizingNext == MoreEdge \/ MoreBalance

SizingSpec == SizingInit /\ [][SizingNext]_sizingVars

Size == Contracts(edge, balance, price)

\* What an order really costs, after three roundings: no more than the position
\* cap at a market price that the conversion keeps, and at the price it is sent
\* at, whatever the market price, at most a cent per contract above the cap.  At
\* 29, 57 and 58 cents the order may exceed the cap at the market price too,
\* since the code's own assertion is on the truncated price.  (sizing.rs 49-52,
\* lib.rs 287-288)
CostWithinCap ==
  /\ WholeCents(price) = price => Size * price <= MaxPosition
  /\ Size * LimitPrice(price) <= MaxPosition + Size

\* Even at its limit price, one cent above the market, an order can be paid
\* from the balance it was sized with.  (lib.rs 187-193, 269-288)
OrderIsAffordable == Size * LimitPrice(price) <= balance

\* An order is never sent below the market price it was decided on: the cent
\* that is added makes up for the one the conversion may lose, and at these
\* prices for nothing more.  (lib.rs 287-288, client.rs 381)
OrderReachesMarket == LimitPrice(price) >= price

\* The formula of the code agrees with the textbook Kelly fraction of a binary
\* bet, edge / (1 - price), on every quoted price.  (sizing.rs 11-20)
KellyIsEdgeOverOdds ==
  price < 100 => KellyNum(edge, price) * (100 - price) = edge * KellyDen(price)

\* A larger edge or balance never makes the order smaller.
SizeGrows == [][Size' >= Size]_sizingVars
=============================================================================
