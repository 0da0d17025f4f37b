---------------------------- MODULE PositionBook ----------------------------
(***************************************************************************)
(* What the executor's tracker promises: one position per ticker, opened on  *)
(* an empty slot with its peak at its entry price, whose peak rises and of   *)
(* which nothing else changes, until it is closed.  A restart forgets all.   *)
(***************************************************************************)
EXTENDS Integers

CONSTANTS Tickers, Positions, None

VARIABLE book

Init == book = [t \in Tickers |-> None]

Open(t) ==
  /\ book[t] = None
  /\ book'[t] \in Positions
  /\ book'[t].ticker = t
  /\ book'[t].peak = book'[t].entry
  /\ book' = [book EXCEPT ![t] = book'[t]]

Raise(t) ==
  /\ book[t] # None
  /\ book'[t] # None
  /\ book'[t].peak > book[t].peak
  /\ book' = [book EXCEPT ![t].peak = book'[t].peak]

Close(t) ==
  /\ book[t] # None
  /\ book' = [book EXCEPT ![t] = None]

Forget == book' = [t \in Tickers |-> None]

Next == Forget \/ \E t \in Tickers : Open(t) \/ Raise(t) \/ Close(t)

Spec == Init /\ [][Next]_book
=============================================================================
