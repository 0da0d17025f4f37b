------------------------------ MODULE MCSignal ------------------------------
(***************************************************************************)
(* A small signal service.  One clock unit is 15 seconds.  The index values  *)
(* make the delta detector report alone (by 10), both report (by 20 or 30),  *)
(* and, over different spans, contradict each other.                         *)
(***************************************************************************)
EXTENDS Signal

\* 30 from the middle value would be in range, 31 from the highest is not.
NearStrike == [t \in Tickers |-> 69999]

\* The market is too late for an opportunity in the last clock unit.
CloseLater == [t \in Tickers |-> 22]
=============================================================================
