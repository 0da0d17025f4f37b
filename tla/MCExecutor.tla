----------------------------- MODULE MCExecutor -----------------------------
(***************************************************************************)
(* Small instances of the executor.  One clock unit is 30 seconds.           *)
(***************************************************************************)
EXTENDS Executor

CONSTANTS t1, t2, t3

Opp(t, side, price, index) ==
  [ticker |-> t, side |-> side, price |-> price, brti |-> index,
   confidence |-> 60, edge |-> 20]

CloseAtTwo == [t \in Tickers |-> 2]
CloseAtOne == [t \in Tickers |-> 1]
CloseNever == [t \in Tickers |-> 99]

\* The index as one level, or falling by 50 dollars: a YES position is
\* reversed by the second opportunity.
OneYes      == {Opp(t1, "Yes", 40, 500)}
TwoTickers  == {Opp(t, "Yes", 40, 500) : t \in {t1, t2}}
FallingTwo  == {Opp(t1, "Yes", 40, 500), Opp(t2, "Yes", 40, 450)}
FallingThree == {Opp(t1, "Yes", 40, 500), Opp(t2, "Yes", 40, 450),
                 Opp(t3, "Yes", 40, 450)}

\* What each gate refuses, beside an opportunity they accept: a price outside
\* the band, a confidence and an edge below the minimum.
Refused ==
  OneYes \cup
  {Opp(t1, "Yes", 97, 500),
   [Opp(t1, "Yes", 40, 500) EXCEPT !.confidence = 44],
   [Opp(t1, "Yes", 40, 500) EXCEPT !.edge = 4]}
=============================================================================
