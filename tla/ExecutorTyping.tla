--------------------------- MODULE ExecutorTyping ---------------------------
(***************************************************************************)
(* Type correctness of the executor.  TypeOK alone is not inductive: what a  *)
(* task reads of its locals depends on where it is, so the invariant adds    *)
(* that an iteration, a sale and an order have their object in hand.         *)
(***************************************************************************)
EXTENDS Executor, TLAPS

\* An iteration of exec that is under way has an opportunity.
OppInHand == pc["exec"] # "idle" => opp \in Opps

\* A task inside execute_exit, or recon about to close what it dropped, has a
\* position in hand.
SaleInHand == \A self \in Tasks :
                pc[self] \in ExitPCs \cup {"dropped"} => sale[self] \in Sales

\* An order that is sent or filled is for at least one contract.
QtyInHand == pc["exec"] \in {"send", "fill", "add"} => qty > 0

InHand == OppInHand /\ SaleInHand /\ QtyInHand

TypeInv == TypeOK /\ InHand

-----------------------------------------------------------------------------
\* A fill keeps the gate typed: the counter is a saturating u8.
LEMMA FillType == \A g \in Gates : RecordFill(g) \in Gates
BY DEF Gates, RecordFill, U8Max

\* A close keeps the gate typed.
LEMMA CloseType == \A g \in Gates : RecordClose(g) \in Gates
BY DEF Gates, RecordClose, U8Max

\* A realised amount keeps the gate typed.
LEMMA PnlType ==
  \A g \in Gates, pnl \in Int : RecordPnl(g, pnl) \in Gates
BY DEF Gates, RecordPnl

\* The daily reset keeps the gate typed.
LEMMA ResetType ==
  \A g \in Gates, n \in Nat : MaybeResetDaily(g, n) \in Gates
BY DEF Gates, MaybeResetDaily

\* A fresh gate is typed.
LEMMA NewGateType == \A n \in Nat : NewGate(n) \in Gates
BY DEF Gates, NewGate, U8Max

Books == [Tickers -> Positions \cup {None}]

Keyed(book) == \A t \in Tickers : book[t] # None => book[t].ticker = t

\* Removing a ticker leaves a book keyed by its positions' own tickers.
LEMMA RemoveType ==
  \A book \in Books, t \in Tickers :
    Keyed(book) => Remove(book, t) \in Books /\ Keyed(Remove(book, t))
BY DEF Books, Keyed, Remove

\* Raising a peak leaves a book keyed, with the same tickers in it.
LEMMA PeakType ==
  ASSUME NEW book \in Books, Keyed(book), NEW t \in Tickers, NEW price \in Nat
  PROVE  /\ UpdatePeak(book, t, price) \in Books
         /\ Keyed(UpdatePeak(book, t, price))
         /\ \A u \in Tickers :
              UpdatePeak(book, t, price)[u] = None <=> book[u] = None
<1>1. CASE book[t] # None /\ price > book[t].peak
  <2>1. [book[t] EXCEPT !.peak = price] \in Positions
    BY <1>1 DEF Books, Positions
  <2>2. [book[t] EXCEPT !.peak = price].ticker = t
    BY <1>1 DEF Books, Positions, Keyed
  <2>3. UpdatePeak(book, t,
     price) = [book EXCEPT ![t] = [book[t] EXCEPT !.peak = price]]
    BY <1>1 DEF UpdatePeak
  <2> QED BY <1>1, <2>1, <2>2, <2>3, NoneAssumption DEF Books, Keyed
<1>2. CASE ~(book[t] # None /\ price > book[t].peak)
  BY <1>2 DEF UpdatePeak
<1> QED BY <1>1, <1>2

\* The size of an order is a natural number: the quotients of the sizing are
\* taken only where their divisors are positive.
LEMMA SizeType ==
  ASSUME NEW e \in Int, NEW b \in Nat, NEW p \in Nat
  PROVE  Contracts(e, b, p) \in Nat
<1> USE SizingAssumption
<1>1. CASE e <= 0 \/ p = 0 \/ p >= 100
  BY <1>1 DEF Contracts
<1>2. CASE e > 0 /\ p \in 1 .. 99
  <2>1. KellyNum(e, p) = 100 * e
    BY <1>2 DEF KellyNum
  <2>2. KellyDen(p) \in Nat \ {0}
    BY <1>2 DEF KellyDen
  <2>3. KellyNum(e, p) * b \in Nat
    BY <1>2, <2>1
  <2>4. KellyDen(p) * KellyDivisor * p \in Nat \ {0}
    <3>1. KellyDen(p) * KellyDivisor \in Nat \ {0}
      BY <2>2
    <3> QED BY <3>1, <1>2
  <2>5. \A m \in Nat, d \in Nat \ {0} : m \div d \in Nat
    OBVIOUS
  <2>6. RawContracts(e, b, p) \in Nat
    BY <2>3, <2>4, <2>5 DEF RawContracts
  <2>7. CostCap(p) \in Nat
    <3>1. WholeCents(p) \in Nat \ {0}
      BY <1>2 DEF WholeCents
    <3> QED BY <3>1, <2>5 DEF CostCap
  <2> QED BY <2>6, <2>7, <1>2 DEF Contracts, Least
<1> QED BY <1>1, <1>2

\* A side moves the net position one way or the other.
LEMMA UpType == \A side : Up(side) \in {-1, 1}
BY DEF Up

\* An order that fills and rests leaves the account typed.
LEMMA TradeType ==
  ASSUME WorldOK, NEW t \in Tickers, NEW dir \in {-1, 1},
         NEW filled \in Nat, NEW rest \in Nat,
         Trade(t, dir, filled, rest)
  PROVE  /\ held' \in [Tickers -> Int]
         /\ resting' \in [Tickers -> [up: Nat, down: Nat]]
<1> DEFINE moved == held[t] + dir * filled
<1>1. moved \in Int
  BY DEF WorldOK
<1>2. held' = [held EXCEPT ![t] = moved]
  BY DEF Trade
<1> HIDE DEF moved
<1>3. held' \in [Tickers -> Int]
  BY <1>1, <1>2 DEF WorldOK
<1>4. /\ [resting[t] EXCEPT !.up = @ + rest] \in [up: Nat, down: Nat]
      /\ [resting[t] EXCEPT !.down = @ + rest] \in [up: Nat, down: Nat]
  BY DEF WorldOK
<1>5. \/ resting' = resting
      \/ resting' =
           [resting EXCEPT ![t] = [resting[t] EXCEPT !.up = @ + rest]]
      \/ resting' =
           [resting EXCEPT ![t] = [resting[t] EXCEPT !.down = @ + rest]]
  BY DEF Trade
<1>6. resting' \in [Tickers -> [up: Nat, down: Nat]]
  BY <1>4, <1>5 DEF WorldOK
<1> QED BY <1>3, <1>6

\* The ledger of history stays typed.
LEMMA RealiseType ==
  ASSUME WorldOK, HistoryOK, NEW amount \in Int, Realise(amount)
  PROVE  ledger' \in [day: Nat, pnl: Int]
<1>1. clock \in Nat /\ DayLength \in Nat \ {0}
  BY ExecutorAssumption, GateAssumption DEF WorldOK
<1>2. clock \div DayLength \in Nat
  BY <1>1
<1>3. [ledger EXCEPT !.pnl = @ + amount] \in [day: Nat, pnl: Int]
  BY DEF HistoryOK
<1> QED BY <1>2, <1>3 DEF Realise

\* What execute_exit computes of a sale in hand is typed.
LEMMA SalePnl ==
  ASSUME NEW s \in Sales
  PROVE  /\ (s.price - s.pos.entry) * s.filled \in Int
         /\ s.pos.ticker \in Tickers /\ s.pos.side \in Sides
         /\ s.pos \in Positions
<1>1. /\ s.price \in Int /\ s.pos.entry \in Int /\ s.filled \in Int
      /\ s.pos.ticker \in Tickers /\ s.pos.side \in Sides
      /\ s.pos \in Positions
  BY DEF Sales, Positions
<1>2. \A a, b, c \in Int : (a - b) * c \in Int
  OBVIOUS
<1> QED BY <1>1, <1>2

\* A bid, read from the exchange's dollars, is a number of cents.
LEMMA BidType == \A bid \in Bids \ {0} : WholeCents(bid) \in Nat
BY ExecutorAssumption DEF WholeCents

\* What a settled position paid over its cost is an integer.
LEMMA PayoutType ==
  ASSUME NEW pos \in Positions PROVE Payout(pos) \in Int
<1>1. pos.entry \in Int /\ pos.contracts \in Int
  BY DEF Positions
<1>2. \A a, b, c \in Int : (a - b) * c \in Int
  OBVIOUS
<1> QED BY <1>1, <1>2 DEF Payout

\* A fresh process is typed and has nothing in hand.
LEMMA TypeInit == Init => TypeInv
<1> USE ExecutorAssumption DEF Init
<1>1. Init => SharedOK
  BY DEF SharedOK, EmptyBook, NewGate, Gates, U8Max, NoLocks, NoLock,
     NoneLost, Sides
<1>2. Init => ControlOK
  BY DEF ControlOK, Started, Tasks, ExitPCs, ExecPCs, ReconPCs
<1>3. Init => LocalsOK
  BY DEF LocalsOK, NeverTraded
<1>4. Init => WorldOK
  BY DEF WorldOK, NoRest
<1>5. Init => HistoryOK
  <2>1. Init => raced \in BOOLEAN
    BY Zenon
  <2> QED BY <2>1 DEF HistoryOK
<1>6. Init => InHand
  BY DEF InHand, OppInHand, SaleInHand, QtyInHand, Started, Tasks, ExitPCs
<1> QED BY <1>1, <1>2, <1>3, <1>4, <1>5, <1>6 DEF TypeInv, TypeOK

\* What a step leaves alone keeps its type; cited for the unchanged parts.
LEMMA Frames ==
  /\ SharedOK /\ UNCHANGED shared => SharedOK'
  /\ ControlOK /\ UNCHANGED <<pc, now, sale>> => ControlOK'
  /\ LocalsOK /\ UNCHANGED <<execLoc, recLoc>> => LocalsOK'
  /\ WorldOK /\ UNCHANGED world => WorldOK'
  /\ HistoryOK /\ UNCHANGED history => HistoryOK'
  /\ InHand /\ UNCHANGED <<pc, sale, execLoc>> => InHand'
BY DEF SharedOK, ControlOK, LocalsOK, WorldOK, HistoryOK, InHand, OppInHand,
       SaleInHand, QtyInHand, shared, execLoc, recLoc, world, history

\* Every step of either task, of the exchange and of time preserves the types.
LEMMA TypeStep == ASSUME TypeInv, [Next]_vars PROVE TypeInv'
<1> USE ExecutorAssumption DEF TypeInv, TypeOK
<1>1. ASSUME Pop PROVE TypeInv'
  <2>1. WorldOK' /\ HistoryOK'
    BY <1>1, Frames DEF Pop
  <2>2. SharedOK'
    BY <1>1 DEF Pop, SharedOK, shared, Opportunities
  <2>3. ControlOK'
    BY <1>1 DEF Pop, ControlOK, Goto, Tasks, ExitPCs, ExecPCs, ReconPCs,
       WorldOK
  <2>4. LocalsOK'
    BY <1>1 DEF Pop, LocalsOK, execLoc, recLoc
  <2>5. InHand'
    BY <1>1 DEF Pop, InHand, OppInHand, SaleInHand, QtyInHand, Goto,
       Tasks, ExitPCs, execLoc, ControlOK
  <2> QED BY <2>1, <2>2, <2>3, <2>4, <2>5
<1>2. ASSUME SnapshotReversed PROVE TypeInv'
  <2>1. SharedOK' /\ WorldOK' /\ HistoryOK'
    BY <1>2, Frames DEF SnapshotReversed
  <2>2. ControlOK'
    BY <1>2 DEF SnapshotReversed, Proceed, ControlOK, Goto, Tasks,
       ExitPCs, ExecPCs, ReconPCs
  <2>3. LocalsOK'
    BY <1>2 DEF SnapshotReversed, Proceed, LocalsOK, execLoc, recLoc,
       SharedOK, Tracked
  <2>4. InHand'
    BY <1>2 DEF SnapshotReversed, Proceed, InHand, OppInHand, SaleInHand,
       QtyInHand, Goto, Tasks, ExitPCs, execLoc, ControlOK
  <2> QED BY <2>1, <2>2, <2>3, <2>4
<1>3. ASSUME NextReversed PROVE TypeInv'
  <2>1. SharedOK' /\ WorldOK' /\ HistoryOK'
    BY <1>3, Frames DEF NextReversed
  <2>2. ControlOK'
    BY <1>3 DEF NextReversed, StartExit, ControlOK, Goto, Tasks, ExitPCs,
       ExecPCs, ReconPCs, LocalsOK, Sales
  <2>3. LocalsOK'
    BY <1>3 DEF NextReversed, StartExit, LocalsOK, execLoc, recLoc
  <2>4. InHand'
    BY <1>3 DEF NextReversed, StartExit, InHand, OppInHand, SaleInHand,
       QtyInHand, Goto, Tasks, ExitPCs, execLoc, ControlOK, LocalsOK,
       Sales
  <2> QED BY <2>1, <2>2, <2>3, <2>4
<1>4. ASSUME ReversedDone PROVE TypeInv'
  <2>1. SharedOK' /\ WorldOK' /\ HistoryOK'
    BY <1>4, Frames DEF ReversedDone
  <2>2. ControlOK'
    BY <1>4 DEF ReversedDone, Proceed, ControlOK, Goto, Tasks, ExitPCs,
       ExecPCs, ReconPCs
  <2>3. LocalsOK'
    BY <1>4 DEF ReversedDone, Proceed, LocalsOK, execLoc, recLoc
  <2>4. InHand'
    BY <1>4 DEF ReversedDone, Proceed, InHand, OppInHand, SaleInHand,
       QtyInHand, Goto, Tasks, ExitPCs, execLoc, ControlOK
  <2> QED BY <2>1, <2>2, <2>3, <2>4
<1>5. ASSUME ResetDaily PROVE TypeInv'
  <2>1. WorldOK'
    BY <1>5, Frames DEF ResetDaily
  <2>2. SharedOK'
    BY <1>5, ResetType DEF ResetDaily, Proceed, KeepOverrun, SharedOK,
       shared, ControlOK, Tasks
  <2>3. ControlOK'
    BY <1>5 DEF ResetDaily, Proceed, KeepOverrun, ControlOK, Goto, Tasks,
       ExitPCs, ExecPCs, ReconPCs
  <2>4. LocalsOK'
    BY <1>5 DEF ResetDaily, Proceed, KeepOverrun, LocalsOK, execLoc,
       recLoc
  <2>5. HistoryOK'
    BY <1>5 DEF ResetDaily, Proceed, KeepOverrun, HistoryOK, history
  <2>6. InHand'
    BY <1>5 DEF ResetDaily, Proceed, KeepOverrun, InHand, OppInHand,
       SaleInHand, QtyInHand, Goto, Tasks, ExitPCs, execLoc, ControlOK
  <2> QED BY <2>1, <2>2, <2>3, <2>4, <2>5, <2>6
<1>6. ASSUME SkipTracked PROVE TypeInv'
  <2>1. SharedOK' /\ WorldOK' /\ HistoryOK'
    BY <1>6, Frames DEF SkipTracked
  <2>2. ControlOK'
    BY <1>6 DEF SkipTracked, Proceed, EndIteration, ControlOK, Goto,
       Tasks, ExitPCs, ExecPCs, ReconPCs
  <2>3. LocalsOK'
    BY <1>6 DEF SkipTracked, Proceed, EndIteration, LocalsOK, execLoc,
       recLoc, ControlOK, InHand, OppInHand, Opportunities, Tasks
  <2>4. InHand'
    BY <1>6 DEF SkipTracked, Proceed, EndIteration, InHand, OppInHand,
       SaleInHand, QtyInHand, Goto, Tasks, ExitPCs, execLoc, ControlOK,
       LocalsOK
  <2> QED BY <2>1, <2>2, <2>3, <2>4
<1>7. ASSUME CheckRisk PROVE TypeInv'
  <2>1. SharedOK' /\ WorldOK' /\ HistoryOK'
    BY <1>7, Frames DEF CheckRisk
  <2>2. ControlOK'
    BY <1>7 DEF CheckRisk, Proceed, EndIteration, ControlOK, Goto, Tasks,
       ExitPCs, ExecPCs, ReconPCs
  <2>3. LocalsOK'
    BY <1>7 DEF CheckRisk, Proceed, EndIteration, LocalsOK, execLoc,
       recLoc
  <2>4. InHand'
    BY <1>7 DEF CheckRisk, Proceed, EndIteration, InHand, OppInHand,
       SaleInHand, QtyInHand, Goto, Tasks, ExitPCs, execLoc, ControlOK,
       LocalsOK
  <2> QED BY <2>1, <2>2, <2>3, <2>4
<1>8. ASSUME GetBalance PROVE TypeInv'
  <2>1. SharedOK' /\ WorldOK' /\ HistoryOK'
    BY <1>8, Frames DEF GetBalance
  <2>2. ControlOK'
    BY <1>8 DEF GetBalance, Proceed, EndIteration, ControlOK, Goto, Tasks,
       ExitPCs, ExecPCs, ReconPCs
  <2>3. LocalsOK'
    BY <1>8 DEF GetBalance, Proceed, EndIteration, LocalsOK, execLoc,
       recLoc
  <2>4. InHand'
    BY <1>8 DEF GetBalance, Proceed, EndIteration, InHand, OppInHand,
       SaleInHand, QtyInHand, Goto, Tasks, ExitPCs, execLoc, ControlOK,
       LocalsOK
  <2> QED BY <2>1, <2>2, <2>3, <2>4
<1>9. ASSUME ThesisLock PROVE TypeInv'
  <2>1. SharedOK' /\ WorldOK' /\ HistoryOK'
    BY <1>9, Frames DEF ThesisLock
  <2>2. ControlOK'
    BY <1>9 DEF ThesisLock, Proceed, EndIteration, ControlOK, Goto, Tasks,
       ExitPCs, ExecPCs, ReconPCs
  <2>3. LocalsOK'
    BY <1>9 DEF ThesisLock, Proceed, EndIteration, LocalsOK, execLoc,
       recLoc
  <2>4. InHand'
    BY <1>9 DEF ThesisLock, Proceed, EndIteration, InHand, OppInHand,
       SaleInHand, QtyInHand, Goto, Tasks, ExitPCs, execLoc, ControlOK,
       LocalsOK
  <2> QED BY <2>1, <2>2, <2>3, <2>4
<1>10. ASSUME LossSuppression PROVE TypeInv'
  <2>1. SharedOK' /\ WorldOK' /\ HistoryOK'
    BY <1>10, Frames DEF LossSuppression
  <2>2. ControlOK'
    BY <1>10 DEF LossSuppression, EndIteration, ControlOK, Goto, Tasks,
       ExitPCs, ExecPCs, ReconPCs
  <2>3. LocalsOK'
    <3>1. \A b \in Balances : Contracts(opp.edge, b, opp.price) \in Nat
      BY <1>10, SizeType DEF LossSuppression, InHand, OppInHand, Opportunities
    <3> QED BY <1>10, <3>1
       DEF LossSuppression, EndIteration, LocalsOK, execLoc, recLoc
  <2>4. InHand'
    <3>1. \A b \in Balances : Contracts(opp.edge, b, opp.price) \in Nat
      BY <1>10, SizeType DEF LossSuppression, InHand, OppInHand, Opportunities
    <3> QED
      BY <1>10, <3>1 DEF LossSuppression, EndIteration, InHand, OppInHand,
         SaleInHand, QtyInHand, ControlOK, Goto, Tasks, ExitPCs
  <2> QED BY <2>1, <2>2, <2>3, <2>4
<1>11. ASSUME SendFails PROVE TypeInv'
  <2>1. SharedOK' /\ WorldOK'
    BY <1>11, Frames DEF SendFails
  <2>2. ControlOK'
    BY <1>11 DEF SendFails, EndIteration, CountOverrun, ControlOK, Goto,
       Tasks, ExitPCs, ExecPCs, ReconPCs
  <2>3. LocalsOK'
    BY <1>11 DEF SendFails, EndIteration, CountOverrun, LocalsOK, execLoc,
       recLoc
  <2>4. HistoryOK'
    BY <1>11 DEF SendFails, EndIteration, CountOverrun, HistoryOK, history
  <2>5. InHand'
    BY <1>11 DEF SendFails, EndIteration, CountOverrun, InHand, OppInHand,
       SaleInHand, QtyInHand, Goto, Tasks, ExitPCs, execLoc, ControlOK
  <2> QED BY <2>1, <2>2, <2>3, <2>4, <2>5
<1>12. ASSUME Send PROVE TypeInv'
  <2>1. SharedOK'
    BY <1>12, Frames DEF Send
  <2>2. ControlOK'
    BY <1>12 DEF Send, EndIteration, CountOverrun, ControlOK, Goto, Tasks,
       ExitPCs, ExecPCs, ReconPCs
  <2>3. LocalsOK'
    BY <1>12 DEF Send, EndIteration, CountOverrun, LocalsOK, execLoc,
       recLoc, Fills, Promote
  <2>4. WorldOK'
    <3>1. PICK f \in Fills(qty) : Trade(opp.ticker, Up(opp.side), f, qty - f)
      BY <1>12 DEF Send
    <3>2. f \in Nat /\ qty - f \in Nat /\ opp.ticker \in Tickers
      BY <1>12 DEF Send, Fills, LocalsOK, InHand, OppInHand, Opportunities
    <3>3. /\ held' \in [Tickers -> Int]
          /\ resting' \in [Tickers -> [up: Nat, down: Nat]]
      BY <3>1, <3>2, UpType, TradeType
    <3> QED BY <1>12, <3>3 DEF Send, WorldOK
  <2>5. HistoryOK'
    BY <1>12 DEF Send, EndIteration, CountOverrun, HistoryOK, history
  <2>6. InHand'
    BY <1>12 DEF Send, EndIteration, CountOverrun, InHand, OppInHand,
       SaleInHand, QtyInHand, Goto, Tasks, ExitPCs, execLoc, ControlOK,
       LocalsOK, Fills, Promote
  <2> QED BY <2>1, <2>2, <2>3, <2>4, <2>5, <2>6
<1>13. ASSUME GateFill PROVE TypeInv'
  <2>1. WorldOK' /\ HistoryOK'
    BY <1>13, Frames DEF GateFill
  <2>2. SharedOK'
    BY <1>13, FillType DEF GateFill, Proceed, SharedOK, shared
  <2>3. ControlOK'
    BY <1>13 DEF GateFill, Proceed, ControlOK, Goto, Tasks, ExitPCs,
       ExecPCs, ReconPCs
  <2>4. LocalsOK'
    BY <1>13 DEF GateFill, Proceed, LocalsOK, execLoc, recLoc
  <2>5. InHand'
    BY <1>13 DEF GateFill, Proceed, InHand, OppInHand, SaleInHand,
       QtyInHand, Goto, Tasks, ExitPCs, execLoc, ControlOK
  <2> QED BY <2>1, <2>2, <2>3, <2>4, <2>5
<1>14. ASSUME TrackerAdd PROVE TypeInv'
  <2>1. WorldOK' /\ HistoryOK'
    BY <1>14, Frames DEF TrackerAdd
  <2>2. SharedOK'
    BY <1>14 DEF TrackerAdd, Proceed, SharedOK, shared, Add, NewPosition,
       LimitPrice, WholeCents, Positions, Opportunities, InHand, OppInHand, QtyInHand,
       ControlOK, LocalsOK, Tasks
  <2>3. ControlOK'
    BY <1>14 DEF TrackerAdd, Proceed, ControlOK, Goto, Tasks, ExitPCs,
       ExecPCs, ReconPCs
  <2>4. LocalsOK'
    BY <1>14 DEF TrackerAdd, Proceed, LocalsOK, execLoc, recLoc
  <2>5. InHand'
    BY <1>14 DEF TrackerAdd, Proceed, InHand, OppInHand, SaleInHand,
       QtyInHand, Goto, Tasks, ExitPCs, execLoc, ControlOK
  <2> QED BY <2>1, <2>2, <2>3, <2>4, <2>5
<1>15. ASSUME LockThesis PROVE TypeInv'
  <2>1. WorldOK' /\ HistoryOK'
    BY <1>15, Frames DEF LockThesis
  <2>2. SharedOK'
    BY <1>15 DEF LockThesis, EndIteration, SharedOK, shared,
       Opportunities, InHand, OppInHand
  <2>3. ControlOK'
    BY <1>15 DEF LockThesis, EndIteration, ControlOK, Goto, Tasks,
       ExitPCs, ExecPCs, ReconPCs
  <2>4. LocalsOK'
    BY <1>15 DEF LockThesis, EndIteration, LocalsOK, execLoc, recLoc
  <2>5. InHand'
    BY <1>15 DEF LockThesis, EndIteration, InHand, OppInHand, SaleInHand,
       QtyInHand, Goto, Tasks, ExitPCs, execLoc, ControlOK
  <2> QED BY <2>1, <2>2, <2>3, <2>4, <2>5
<1>16. ASSUME Wake PROVE TypeInv'
  <2>1. SharedOK' /\ WorldOK' /\ HistoryOK'
    BY <1>16, Frames DEF Wake
  <2>2. ControlOK'
    BY <1>16 DEF Wake, ControlOK, Goto, Tasks, ExitPCs, ExecPCs, ReconPCs,
       WorldOK
  <2>3. LocalsOK'
    BY <1>16 DEF Wake, LocalsOK, execLoc, recLoc, SharedOK
  <2>4. InHand'
    BY <1>16 DEF Wake, InHand, OppInHand, SaleInHand, QtyInHand, Goto,
       Tasks, ExitPCs, execLoc, ControlOK
  <2> QED BY <2>1, <2>2, <2>3, <2>4
<1>17. ASSUME FetchFails PROVE TypeInv'
  <2>1. SharedOK' /\ WorldOK' /\ HistoryOK'
    BY <1>17, Frames DEF FetchFails
  <2>2. ControlOK'
    BY <1>17 DEF FetchFails, EndCycle, ControlOK, Goto, Tasks, ExitPCs,
       ExecPCs, ReconPCs
  <2>3. LocalsOK'
    BY <1>17 DEF FetchFails, EndCycle, LocalsOK, execLoc, recLoc
  <2>4. InHand'
    BY <1>17 DEF FetchFails, EndCycle, InHand, OppInHand, SaleInHand,
       QtyInHand, Goto, Tasks, ExitPCs, execLoc, ControlOK
  <2> QED BY <2>1, <2>2, <2>3, <2>4
<1>18. ASSUME Fetch PROVE TypeInv'
  <2>1. SharedOK' /\ WorldOK' /\ HistoryOK'
    BY <1>18, Frames DEF Fetch
  <2>2. ControlOK'
    BY <1>18 DEF Fetch, ControlOK, Goto, Tasks, ExitPCs, ExecPCs, ReconPCs
  <2>3. LocalsOK'
    BY <1>18 DEF Fetch, LocalsOK, execLoc, recLoc
  <2>4. InHand'
    BY <1>18 DEF Fetch, InHand, OppInHand, SaleInHand, QtyInHand, Goto,
       Tasks, ExitPCs, execLoc, ControlOK
  <2> QED BY <2>1, <2>2, <2>3, <2>4
<1>19. ASSUME Collect PROVE TypeInv'
  <2>1. SharedOK' /\ WorldOK' /\ HistoryOK'
    BY <1>19, Frames DEF Collect
  <2>2. ControlOK'
    BY <1>19 DEF Collect, ControlOK, Goto, Tasks, ExitPCs, ExecPCs,
       ReconPCs
  <2>3. LocalsOK'
    BY <1>19 DEF Collect, LocalsOK, execLoc, recLoc, Unlisted, Tracked
  <2>4. InHand'
    BY <1>19 DEF Collect, InHand, OppInHand, SaleInHand, QtyInHand, Goto,
       Tasks, ExitPCs, execLoc, ControlOK
  <2> QED BY <2>1, <2>2, <2>3, <2>4
<1>20. ASSUME DropUnlisted PROVE TypeInv'
  <2>1. WorldOK' /\ HistoryOK'
    BY <1>20, Frames DEF DropUnlisted
  <2>2. SharedOK'
    <3>1. positions \in Books /\ Keyed(positions)
      BY DEF SharedOK, Books, Keyed
    <3>2. \/ positions' = positions
          \/ \E t \in Tickers : positions' = Remove(positions, t)
      BY <1>20 DEF DropUnlisted, LocalsOK
    <3>3. positions' \in Books /\ Keyed(positions')
      BY <3>1, <3>2, RemoveType
    <3> QED BY <1>20, <3>3 DEF DropUnlisted, SharedOK, Books, Keyed
  <2>3. ControlOK'
    BY <1>20 DEF DropUnlisted, ControlOK, Goto, Tasks, ExitPCs, ExecPCs,
       ReconPCs, LocalsOK, Sales, SharedOK
  <2>4. LocalsOK'
    BY <1>20 DEF DropUnlisted, LocalsOK, execLoc, recLoc
  <2>5. InHand'
    BY <1>20 DEF DropUnlisted, InHand, OppInHand, SaleInHand, QtyInHand,
       Goto, Tasks, ExitPCs, execLoc, ControlOK, LocalsOK, SharedOK, Sales
  <2> QED BY <2>1, <2>2, <2>3, <2>4, <2>5
<1>21. ASSUME CloseDropped PROVE TypeInv'
  <2>1. WorldOK'
    BY <1>21, Frames DEF CloseDropped
  <2>2. SharedOK'
    BY <1>21, CloseType DEF CloseDropped, SharedOK, shared, ControlOK,
       Tasks, SaleInHand, InHand, Sales, Positions
  <2>3. ControlOK'
    BY <1>21 DEF CloseDropped, ControlOK, Goto, Tasks, ExitPCs, ExecPCs,
       ReconPCs
  <2>4. LocalsOK'
    BY <1>21 DEF CloseDropped, LocalsOK, execLoc, recLoc
  <2>5. HistoryOK'
    <3>1. sale["recon"].pos \in Positions
      BY <1>21, SalePnl DEF CloseDropped, InHand, SaleInHand, Tasks
    <3>2. Payout(sale["recon"].pos) \in Int
      BY <3>1, PayoutType
    <3>3. ledger' \in [day: Nat, pnl: Int]
      BY <1>21, <3>2, RealiseType DEF CloseDropped, HistoryOK
    <3> QED BY <1>21, <3>3 DEF CloseDropped, HistoryOK
  <2>6. InHand'
    BY <1>21 DEF CloseDropped, InHand, OppInHand, SaleInHand, QtyInHand,
       Goto, Tasks, ExitPCs, execLoc, ControlOK
  <2> QED BY <2>1, <2>2, <2>3, <2>4, <2>5, <2>6
<1>22. ASSUME SettleDone PROVE TypeInv'
  <2>1. SharedOK' /\ WorldOK' /\ HistoryOK'
    BY <1>22, Frames DEF SettleDone
  <2>2. ControlOK'
    BY <1>22 DEF SettleDone, ControlOK, Goto, Tasks, ExitPCs, ExecPCs,
       ReconPCs
  <2>3. LocalsOK'
    BY <1>22 DEF SettleDone, LocalsOK, execLoc, recLoc
  <2>4. InHand'
    BY <1>22 DEF SettleDone, InHand, OppInHand, SaleInHand, QtyInHand,
       Goto, Tasks, ExitPCs, execLoc, ControlOK
  <2> QED BY <2>1, <2>2, <2>3, <2>4
<1>23. ASSUME SnapshotTracked PROVE TypeInv'
  <2>1. SharedOK' /\ WorldOK' /\ HistoryOK'
    BY <1>23, Frames DEF SnapshotTracked
  <2>2. ControlOK'
    BY <1>23 DEF SnapshotTracked, ControlOK, Goto, Tasks, ExitPCs,
       ExecPCs, ReconPCs
  <2>3. LocalsOK'
    BY <1>23 DEF SnapshotTracked, LocalsOK, execLoc, recLoc, Tracked
  <2>4. InHand'
    BY <1>23 DEF SnapshotTracked, InHand, OppInHand, SaleInHand,
       QtyInHand, Goto, Tasks, ExitPCs, execLoc, ControlOK
  <2> QED BY <2>1, <2>2, <2>3, <2>4
<1>24. ASSUME ScanSkip PROVE TypeInv'
  <2>1. SharedOK' /\ ControlOK' /\ WorldOK' /\ HistoryOK' /\ InHand'
    BY <1>24, Frames DEF ScanSkip
  <2>2. LocalsOK'
    BY <1>24 DEF ScanSkip, LocalsOK, execLoc, recLoc
  <2> QED BY <2>1, <2>2
<1>25. ASSUME Scan PROVE TypeInv'
  <2>1. PICK t \in pending, bid \in Bids :
          /\ positions[t] # None
          /\ pending' = pending \ {t}
          /\ positions' = UpdatePeak(positions, t, bid)
          /\ \/ StartExit("recon", positions'[t])
             \/ UNCHANGED <<pc, sale>>
    BY <1>25 DEF Scan
  <2>2. /\ positions \in Books /\ Keyed(positions)
        /\ t \in Tickers /\ bid \in Nat
    BY DEF Books, Keyed, SharedOK, LocalsOK
  <2>3. /\ positions' \in Books /\ Keyed(positions')
        /\ positions'[t] \in Positions
    <3>1. /\ positions' \in Books /\ Keyed(positions')
          /\ positions'[t] # None
      BY <2>1, <2>2, PeakType
    <3> QED BY <3>1, <2>2 DEF Books
  <2>4. SharedOK'
    BY <1>25, <2>3 DEF Scan, SharedOK, Books, Keyed
  <2>5. ControlOK' /\ InHand'
    BY <1>25, <2>1, <2>3
       DEF Scan, StartExit, Goto, ControlOK, InHand, OppInHand,
       SaleInHand, QtyInHand, Tasks, ExitPCs, ReconPCs, Sales, execLoc
  <2>6. LocalsOK'
    BY <1>25, <2>1 DEF Scan, LocalsOK, execLoc
  <2>7. WorldOK' /\ HistoryOK'
    BY <1>25, Frames DEF Scan
  <2> QED BY <2>4, <2>5, <2>6, <2>7
<1>26. ASSUME ScanDone PROVE TypeInv'
  <2>1. SharedOK' /\ WorldOK' /\ HistoryOK'
    BY <1>26, Frames DEF ScanDone
  <2>2. ControlOK'
    BY <1>26 DEF ScanDone, EndCycle, ControlOK, Goto, Tasks, ExitPCs,
       ExecPCs, ReconPCs
  <2>3. LocalsOK'
    BY <1>26 DEF ScanDone, EndCycle, LocalsOK, execLoc, recLoc
  <2>4. InHand'
    BY <1>26 DEF ScanDone, EndCycle, InHand, OppInHand, SaleInHand,
       QtyInHand, Goto, Tasks, ExitPCs, execLoc, ControlOK
  <2> QED BY <2>1, <2>2, <2>3, <2>4
<1>27. ASSUME Pass PROVE TypeInv'
  <2>1. SharedOK' /\ ControlOK' /\ LocalsOK' /\ HistoryOK' /\ InHand'
    BY <1>27, Frames DEF Pass
  <2>2. WorldOK'
    BY <1>27 DEF Pass, WorldOK, world
  <2> QED BY <2>1, <2>2
<1>28. ASSUME Crash PROVE TypeInv'
  <2>2. SharedOK'
    BY <1>28, NewGateType DEF Crash, SharedOK, shared, EmptyBook, NoLocks,
       NoLock, NoneLost, Sides, WorldOK
  <2>3. ControlOK'
    BY <1>28 DEF Crash, ControlOK, Goto, Tasks, ExitPCs, ExecPCs,
       ReconPCs, Started
  <2>4. LocalsOK'
    BY <1>28 DEF Crash, LocalsOK, execLoc, recLoc, NeverTraded, WorldOK
  <2>5. WorldOK'
    BY <1>28 DEF Crash, WorldOK, world
  <2>6. HistoryOK'
    <3>1. raced' \in BOOLEAN
      BY <1>28, Zenon DEF Crash
    <3> QED BY <1>28, <3>1 DEF Crash, HistoryOK
  <2>7. InHand'
    BY <1>28 DEF Crash, InHand, OppInHand, SaleInHand, QtyInHand, Goto,
       Tasks, ExitPCs, execLoc, ControlOK, Started
  <2> QED BY <2>2, <2>3, <2>4, <2>5, <2>6, <2>7
<1>29. ASSUME NEW self \in Tasks, SellFails(self) PROVE TypeInv'
  <2>1. SharedOK' /\ LocalsOK' /\ WorldOK' /\ HistoryOK'
    BY <1>29, Frames DEF SellFails
  <2>2. ControlOK'
    BY <1>29 DEF SellFails, Resume, ControlOK, Goto, Tasks, ExitPCs,
       ExecPCs, ReconPCs
  <2>3. InHand'
    BY <1>29 DEF SellFails, Resume, InHand, OppInHand, SaleInHand,
       QtyInHand, Goto, Tasks, ExitPCs, execLoc, ControlOK
  <2> QED BY <2>1, <2>2, <2>3
<1>30. ASSUME NEW self \in Tasks, Sell(self) PROVE TypeInv'
  <2>1. SharedOK' /\ LocalsOK' /\ HistoryOK'
    BY <1>30, Frames DEF Sell
  <2>2. ControlOK'
    BY <1>30, BidType DEF Sell, Resume, ControlOK, Goto, Tasks, ExitPCs,
       ExecPCs, ReconPCs, InHand, SaleInHand, Sales, Fills
  <2>3. WorldOK'
    <3>1. sale[self].pos \in Positions
      BY <1>30 DEF Sell, InHand, SaleInHand, ExitPCs, Sales
    <3> DEFINE pos == sale[self].pos
    <3>2. /\ pos.ticker \in Tickers
          /\ pos.contracts \in Nat
          /\ -Up(pos.side) \in {-1, 1}
      BY <3>1, UpType DEF Positions
    <3>3. PICK f \in Fills(pos.contracts) :
            Trade(pos.ticker, -Up(pos.side), f, pos.contracts - f)
      BY <1>30 DEF Sell
    <3>4. f \in Nat /\ pos.contracts - f \in Nat
      BY <3>2, <3>3 DEF Fills
    <3>5. /\ held' \in [Tickers -> Int]
          /\ resting' \in [Tickers -> [up: Nat, down: Nat]]
      BY <3>2, <3>3, <3>4, TradeType
    <3> QED BY <1>30, <3>5 DEF Sell, WorldOK
  <2>4. InHand'
    BY <1>30, BidType DEF Sell, Resume, InHand, OppInHand, SaleInHand,
       QtyInHand, Goto, Tasks, ExitPCs, execLoc, ControlOK, Sales, Fills,
       Positions
  <2> QED BY <2>1, <2>2, <2>3, <2>4
<1>31. ASSUME NEW self \in Tasks, ExitRemove(self) PROVE TypeInv'
  <2>1. LocalsOK' /\ WorldOK'
    BY <1>31, Frames DEF ExitRemove
  <2>2. SharedOK'
    BY <1>31, RemoveType DEF ExitRemove, SharedOK, shared, InHand,
       SaleInHand, ExitPCs, Sales, Positions, Books, Keyed
  <2>3. ControlOK'
    BY <1>31 DEF ExitRemove, ControlOK, Goto, Tasks, ExitPCs, ExecPCs,
       ReconPCs
  <2>4. HistoryOK'
    BY <1>31 DEF ExitRemove, HistoryOK, history
  <2>5. InHand'
    BY <1>31 DEF ExitRemove, InHand, OppInHand, SaleInHand, QtyInHand,
       Goto, Tasks, ExitPCs, execLoc, ControlOK
  <2> QED BY <2>1, <2>2, <2>3, <2>4, <2>5
<1>32. ASSUME NEW self \in Tasks, ExitBook(self) PROVE TypeInv'
  <2>1. LocalsOK' /\ WorldOK'
    BY <1>32, Frames DEF ExitBook
  <2>2. SharedOK'
    <3>1. sale[self] \in Sales
      BY <1>32 DEF ExitBook, InHand, SaleInHand, ExitPCs
    <3>2. gate' \in Gates
      BY <1>32, <3>1, SalePnl, CloseType, PnlType DEF ExitBook, SharedOK
    <3>3. suppressed' \in [Tickers -> [Sides -> Nat]]
      BY <1>32, <3>1, SalePnl DEF ExitBook, SharedOK, WorldOK
    <3> QED BY <1>32, <3>2, <3>3 DEF ExitBook, SharedOK
  <2>3. ControlOK'
    BY <1>32 DEF ExitBook, KeepOverrun, ControlOK, Goto, Tasks, ExitPCs,
       ExecPCs, ReconPCs
  <2>4. HistoryOK'
    <3>1. sale[self] \in Sales
      BY <1>32 DEF ExitBook, InHand, SaleInHand, ExitPCs
    <3>2. ledger' \in [day: Nat, pnl: Int]
      BY <1>32, <3>1, SalePnl, RealiseType DEF ExitBook
    <3> QED BY <1>32, <3>2 DEF ExitBook, KeepOverrun, HistoryOK
  <2>5. InHand'
    BY <1>32 DEF ExitBook, KeepOverrun, InHand, OppInHand, SaleInHand,
       QtyInHand, Goto, Tasks, ExitPCs, execLoc, ControlOK
  <2> QED BY <2>1, <2>2, <2>3, <2>4, <2>5
<1>33. ASSUME NEW self \in Tasks, ExitRelock(self) PROVE TypeInv'
  <2>1. LocalsOK' /\ WorldOK' /\ HistoryOK'
    BY <1>33, Frames DEF ExitRelock
  <2>2. SharedOK'
    BY <1>33 DEF ExitRelock, Resume, SharedOK, shared, InHand, SaleInHand,
       ExitPCs, Sales, Positions, WorldOK
  <2>3. ControlOK'
    BY <1>33 DEF ExitRelock, Resume, ControlOK, Goto, Tasks, ExitPCs,
       ExecPCs, ReconPCs
  <2>4. InHand'
    BY <1>33 DEF ExitRelock, Resume, InHand, OppInHand, SaleInHand,
       QtyInHand, Goto, Tasks, ExitPCs, execLoc, ControlOK
  <2> QED BY <2>1, <2>2, <2>3, <2>4
<1>34. ASSUME NEW t \in Tickers, LateFill(t) PROVE TypeInv'
  <2>1. SharedOK' /\ ControlOK' /\ LocalsOK' /\ HistoryOK' /\ InHand'
    BY <1>34, Frames DEF LateFill
  <2>2. WorldOK'
    BY <1>34 DEF LateFill, WorldOK, world
  <2> QED BY <2>1, <2>2
<1>35. ASSUME NEW t \in Tickers, Settle(t) PROVE TypeInv'
  <2>1. SharedOK' /\ ControlOK' /\ LocalsOK' /\ HistoryOK' /\ InHand'
    BY <1>35, Frames DEF Settle
  <2>2. WorldOK'
    BY <1>35 DEF Settle, WorldOK, world, NoRest, Sides
  <2> QED BY <2>1, <2>2
<1>36. CASE UNCHANGED vars
  BY <1>36, Frames DEF vars
<1>37. ASSUME NEW self \in Tasks, Exit(self) PROVE TypeInv'
  BY <1>37, <1>29, <1>30, <1>31, <1>32, <1>33 DEF Exit
<1>38. CASE Exec
  BY <1>38, <1>37, <1>1, <1>2, <1>3, <1>4, <1>5, <1>6, <1>7, <1>8, <1>9,
     <1>10, <1>11, <1>12, <1>13, <1>14, <1>15 DEF Exec, Tasks
<1>39. CASE Recon
  BY <1>39, <1>37, <1>16, <1>17, <1>18, <1>19, <1>20, <1>21, <1>22, <1>23,
     <1>24, <1>25, <1>26 DEF Recon, Tasks
<1>40. CASE World
  BY <1>40, <1>27, <1>28, <1>34, <1>35 DEF World
<1> QED BY <1>36, <1>38, <1>39, <1>40 DEF Next

\* The typing invariant holds in every reachable state.
THEOREM TypeInvHolds == Spec => []TypeInv
BY TypeInit, TypeStep, PTL DEF Spec

\* Every variable keeps its type under every interleaving of the two tasks of
\* run and reconciliation_loop, the u8 of open_positions included; in
\* particular no action reads an opportunity or a sale that is not there.
THEOREM TypeCorrectness == Spec => []TypeOK
<1>1. TypeInv => TypeOK
  BY DEF TypeInv
<1> QED BY <1>1, TypeInvHolds, PTL
=============================================================================
