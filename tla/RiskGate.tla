------------------------------ MODULE RiskGate ------------------------------
(***************************************************************************)
(* The pre-trade risk gate of the executor (services/executor/src/risk.rs): *)
(* a counter of open positions, the day's realised P&L and the moment the   *)
(* day's P&L was last reset.  The gate itself is sequential; the executor   *)
(* keeps it behind a mutex and applies one of these operators per lock      *)
(* section.  Money is in cents, probabilities are in percent.               *)
(***************************************************************************)
EXTENDS Integers

CONSTANTS
  MaxOpen,        \* max_open_positions
  MaxDailyLoss,   \* max_daily_loss_cents
  MinConfidence,  \* min_signal_confidence
  MinEdge,        \* min_edge
  DayLength       \* 86_400_000 ms, in the clock's unit

U8Max == 255      \* open_positions is a u8

ASSUME GateAssumption ==
  /\ MaxOpen \in 1 .. U8Max
  /\ MaxDailyLoss \in Nat
  /\ MinConfidence \in Nat
  /\ MinEdge \in Nat
  /\ DayLength \in Nat \ {0}

\* open_positions, daily_loss_cents (negative is a loss), last_reset
Gates == [open: 0 .. U8Max, pnl: Int, reset: Nat]

NewGate(now) == [open |-> 0, pnl |-> 0, reset |-> now]

Halted(gate) == gate.pnl <= -MaxDailyLoss

\* Mutation: the position limit is tested with > instead of >=.
PassesOffByOne(gate, opp) ==
  /\ opp.confidence >= MinConfidence
  /\ opp.edge >= MinEdge
  /\ gate.open <= MaxOpen
  /\ ~Halted(gate)

\* Mutation: the daily loss is not tested.
PassesUnhalted(gate, opp) ==
  /\ opp.confidence >= MinConfidence
  /\ opp.edge >= MinEdge
  /\ gate.open < MaxOpen

\* RiskGate::check returns Ok.
Passes(gate, opp) ==
  /\ opp.confidence >= MinConfidence
  /\ opp.edge >= MinEdge
  /\ gate.open < MaxOpen
  /\ ~Halted(gate)

\* saturating_add and saturating_sub on a u8
RecordFill(gate) ==
  [gate EXCEPT !.open = IF @ = U8Max THEN U8Max ELSE @ + 1]

\* Mutation: closing a position forgets to free its slot.
RecordCloseLeaks(gate) == gate

RecordClose(gate) == [gate EXCEPT !.open = IF @ = 0 THEN 0 ELSE @ - 1]

RecordPnl(gate, pnl) == [gate EXCEPT !.pnl = @ + pnl]

\* Mutation: the counter of open positions is reset as well.
ResetAllDaily(gate, now) ==
  IF now \div DayLength > gate.reset \div DayLength
  THEN NewGate(now) ELSE gate

\* The P&L is zeroed on the first call of a new UTC day; the counter of
\* open positions is not.
MaybeResetDaily(gate, now) ==
  IF now \div DayLength > gate.reset \div DayLength
  THEN [open |-> gate.open, pnl |-> 0, reset |-> now]
  ELSE gate
=============================================================================
