--------------------------- MODULE ExecutorProofs ---------------------------
(***************************************************************************)
(* Safety of the executor for all tickers, limits, prices, faults, clocks    *)
(* and numbers of crashes: one inductive invariant, and the properties of    *)
(* the runs that follow from it.                                             *)
(***************************************************************************)
EXTENDS ExecutorTyping, FiniteSetTheorems

\* One while a task holds a slot between a tracker section and a gate section.
Flying(label) == IF label \in {"add", "book", "dropped"} THEN 1 ELSE 0

TrackedCount == Cardinality(Tracked(positions))

\* The account of slots: never more in the gate than tracked or in flight,
\* and exactly that as long as no exit has raced.
Accounted ==
  /\ gate.open <= TrackedCount + Flying(pc["exec"]) + Flying(pc["recon"])
  /\ ~raced =>
       gate.open = TrackedCount + Flying(pc["exec"]) + Flying(pc["recon"])

\* The limit, and that exec past the check still finds a slot free.
SlotFree ==
  /\ gate.open <= MaxOpen
  /\ pc["exec"] \in {"balance", "lock", "suppress", "send", "fill"}
       => gate.open < MaxOpen

\* From the skip of held tickers to the add, the ticker is not tracked.
TickerFree ==
  pc["exec"] \in {"check", "balance", "lock", "suppress", "send", "fill", "add"}
    => positions[opp.ticker] = None

\* An order has gone out under a tripped limit only if exec is back before
\* the check.
HaltOnce ==
  /\ overrun <= 1
  /\ overrun = 1 =>
       Halted(gate) /\ pc["exec"] \notin {"balance", "lock", "suppress", "send"}

\* The suppression property, with the time of the pop in the past.
Suppressed == now["exec"] <= clock /\ LossesSuppressReentry

\* The inductive invariant.  The properties of the runs are not inductive by
\* themselves: the accounting needs the free slot (or the counter would
\* saturate) and the free ticker (or the add would overwrite).
IInv == TypeInv /\ Accounted /\ SlotFree /\ TickerFree /\ HaltOnce /\ Suppressed

-----------------------------------------------------------------------------
\* The slots in flight, counted one task at a time.
LEMMA FlyingCount ==
  ASSUME ControlOK
  PROVE  SlotsInFlight = Flying(pc["exec"]) + Flying(pc["recon"])
<1> DEFINE F == {self \in Tasks : pc[self] \in {"add", "book", "dropped"}}
<1>1. F = (IF Flying(pc["exec"]) = 1 THEN {"exec"} ELSE {})
            \cup (IF Flying(pc["recon"]) = 1 THEN {"recon"} ELSE {})
  BY DEF Flying, Tasks
<1>2. /\ Cardinality({}) = 0 /\ Cardinality({"exec"}) = 1
      /\ Cardinality({"recon"}) = 1 /\ IsFiniteSet({"exec"})
  BY FS_EmptySet, FS_Singleton
<1>3. Cardinality({"exec"} \cup {"recon"}) = 2
  BY <1>2, FS_AddElement
<1>4. Cardinality(F) = Flying(pc["exec"]) + Flying(pc["recon"])
  BY <1>1, <1>2, <1>3 DEF Flying
<1> QED BY <1>4 DEF SlotsInFlight

\* There are finitely many tracked tickers.
LEMMA TrackedFinite ==
  ASSUME NEW book
  PROVE  IsFiniteSet(Tracked(book)) /\ Cardinality(Tracked(book)) \in Nat
<1>1. Tracked(book) \in SUBSET Tickers
  BY DEF Tracked
<1>2. IsFiniteSet(Tracked(book))
  BY <1>1, TrackerAssumption, FS_Subset
<1> QED BY <1>2, FS_CardinalityType

\* An entry on a free ticker adds one tracked position.
LEMMA TrackedAfterAdd ==
  ASSUME NEW book \in Books, NEW pos \in Positions, book[pos.ticker] = None
  PROVE  Cardinality(Tracked(Add(book, pos))) = Cardinality(Tracked(book)) + 1
<1>1. pos.ticker \in Tickers /\ pos # None
  BY NoneAssumption DEF Positions
<1>2. Tracked(Add(book, pos)) = Tracked(book) \cup {pos.ticker}
  BY <1>1 DEF Tracked, Add, Books
<1>3. pos.ticker \notin Tracked(book)
  BY DEF Tracked
<1> QED BY <1>2, <1>3, TrackedFinite, FS_AddElement

\* A removal takes one away, or none if it was gone already.
LEMMA TrackedAfterRemove ==
  ASSUME NEW book \in Books, NEW t \in Tickers
  PROVE  Cardinality(Tracked(Remove(book, t))) =
           Cardinality(Tracked(book)) - (IF book[t] = None THEN 0 ELSE 1)
<1>1. Tracked(Remove(book, t)) = Tracked(book) \ {t}
  BY DEF Tracked, Remove, Books
<1>2. t \in Tracked(book) <=> book[t] # None
  BY DEF Tracked
<1>3. Cardinality(Tracked(book)) \in Nat /\ IsFiniteSet(Tracked(book))
  BY TrackedFinite
<1>4. Cardinality(Tracked(book) \ {t}) =
        IF t \in Tracked(book) THEN Cardinality(Tracked(book)) - 1
                               ELSE Cardinality(Tracked(book))
  BY <1>3, FS_RemoveElement
<1> QED BY <1>1, <1>2, <1>3, <1>4

\* Raising a peak changes nothing of which tickers are tracked.
LEMMA TrackedAfterPeak ==
  ASSUME NEW book \in Books, Keyed(book), NEW t \in Tickers, NEW price \in Nat
  PROVE  Tracked(UpdatePeak(book, t, price)) = Tracked(book)
BY PeakType DEF Tracked

\* What each gate operation does to the counter of open positions.
LEMMA GateCounts ==
  ASSUME NEW g \in Gates, NEW pnl \in Int, NEW n \in Nat
  PROVE  /\ g.open \in Nat
         /\ g.open < U8Max => RecordFill(g).open = g.open + 1
         /\ RecordClose(g).open = IF g.open = 0 THEN 0 ELSE g.open - 1
         /\ RecordPnl(g, pnl).open = g.open
         /\ MaybeResetDaily(g, n).open = g.open
         /\ NewGate(n).open = 0
BY DEF Gates, U8Max, RecordFill, RecordClose, RecordPnl, MaybeResetDaily,
       NewGate

\* Writing one deadline leaves any deadline what it was or what was written.
LEMMA Overwrite ==
  ASSUME NEW f \in [Tickers -> [Sides -> Nat]], NEW v,
         NEW t \in Tickers, NEW u \in Tickers, NEW s \in Sides, NEW r \in Sides
  PROVE  [f EXCEPT ![t][s] = v][u][r] \in {f[u][r], v}
<1>1. CASE u = t
  <2>1. [f EXCEPT ![t][s] = v][u] = [f[t] EXCEPT ![s] = v]
    BY <1>1
  <2>2. f[t] \in [Sides -> Nat]
    OBVIOUS
  <2> QED BY <1>1, <2>1, <2>2
<1>2. CASE u # t
  BY <1>2
<1> QED BY <1>1, <1>2

\* A fresh process satisfies the invariant.
LEMMA InvInit == Init => IInv
<1>1. Init => Tracked(positions) = {}
  BY DEF Init, EmptyBook, Tracked
<1>2. Init => TrackedCount = 0
  BY <1>1, FS_EmptySet DEF TrackedCount
<1>3. Init => Accounted
  BY <1>2 DEF Init, Accounted, NewGate, Flying, Started, Tasks
<1>4. Init => SlotFree /\ TickerFree
  BY GateAssumption DEF Init, SlotFree, TickerFree, NewGate, Started, Tasks
<1>5. Init => HaltOnce /\ Suppressed
  BY DEF Init, HaltOnce, Suppressed, LossesSuppressReentry, Started, Tasks
<1> QED BY <1>3, <1>4, <1>5, TypeInit DEF IInv

\* A step that touches neither the set of tracked tickers, nor the counter,
\* nor a slot in flight keeps the account.
LEMMA Quiet ==
  ASSUME Accounted, Tracked(positions') = Tracked(positions),
         gate'.open = gate.open, raced' = raced,
         Flying(pc'["exec"]) = Flying(pc["exec"]),
         Flying(pc'["recon"]) = Flying(pc["recon"])
  PROVE  Accounted'
BY DEF Accounted, TrackedCount

\* The account of slots is kept: a fill raises the counter as the slot takes
\* off and the add lands it; a removal takes off and the close lands.
LEMMA AccountedStep ==
  ASSUME TypeInv, TypeInv', Accounted, SlotFree, TickerFree, Next
  PROVE  Accounted'
<1> USE DEF TypeInv, TypeOK, ControlOK, Goto, Tasks
<1>g. gate \in Gates /\ gate.open \in Nat /\ gate'.open \in Nat
  BY GateCounts DEF SharedOK
<1>n. TrackedCount \in Nat /\ TrackedCount' \in Nat
  BY TrackedFinite DEF TrackedCount
<1>1. CASE Pop
  BY <1>1, Quiet DEF Pop, Flying, shared, history
<1>2. CASE SnapshotReversed
  BY <1>2, Quiet DEF SnapshotReversed, Proceed, Flying, shared, history
<1>3. CASE NextReversed
  BY <1>3, Quiet DEF NextReversed, StartExit, Flying, shared, history
<1>4. CASE ReversedDone
  BY <1>4, Quiet DEF ReversedDone, Proceed, Flying, shared, history
<1>5. CASE ResetDaily
  BY <1>5, Quiet, GateCounts DEF ResetDaily, Proceed, Flying, shared,
     history, SharedOK
<1>6. CASE SkipTracked
  BY <1>6, Quiet DEF SkipTracked, Proceed, EndIteration, Flying, shared,
     history
<1>7. CASE CheckRisk
  BY <1>7, Quiet DEF CheckRisk, Proceed, EndIteration, Flying, shared,
     history
<1>8. CASE GetBalance
  BY <1>8, Quiet DEF GetBalance, Proceed, EndIteration, Flying, shared,
     history
<1>9. CASE ThesisLock
  BY <1>9, Quiet DEF ThesisLock, Proceed, EndIteration, Flying, shared,
     history
<1>10. CASE LossSuppression
  BY <1>10, Quiet DEF LossSuppression, EndIteration, Flying, shared, history
<1>11. CASE SendFails
  BY <1>11, Quiet DEF SendFails, EndIteration, Flying, shared, history
<1>12. CASE Send
  BY <1>12, Quiet DEF Send, EndIteration, Flying, shared, history
<1>13. CASE LockThesis
  BY <1>13, Quiet DEF LockThesis, EndIteration, Flying, shared, history
<1>14. CASE Wake
  BY <1>14, Quiet DEF Wake, Flying, shared, history
<1>15. CASE FetchFails
  BY <1>15, Quiet DEF FetchFails, EndCycle, Flying, shared, history
<1>16. CASE Fetch
  BY <1>16, Quiet DEF Fetch, Flying, shared, history
<1>17. CASE Collect
  BY <1>17, Quiet DEF Collect, Flying, shared, history
<1>18. CASE SettleDone
  BY <1>18, Quiet DEF SettleDone, Flying, shared, history
<1>19. CASE SnapshotTracked
  BY <1>19, Quiet DEF SnapshotTracked, Flying, shared, history
<1>20. CASE ScanSkip
  BY <1>20, Quiet DEF ScanSkip, Flying, shared, history
<1>21. CASE ScanDone
  BY <1>21, Quiet DEF ScanDone, EndCycle, Flying, shared, history
<1>22. CASE Pass
  BY <1>22, Quiet DEF Pass, Flying, shared, history
<1>23. CASE Scan
  <2>1. PICK t \in pending, bid \in Bids :
          positions' = UpdatePeak(positions, t, bid)
    BY <1>23 DEF Scan
  <2>2. /\ positions \in Books /\ Keyed(positions)
        /\ t \in Tickers /\ bid \in Nat
    BY ExecutorAssumption DEF SharedOK, LocalsOK, Books, Keyed
  <2>3. Tracked(positions') = Tracked(positions)
    BY <2>1, <2>2, TrackedAfterPeak
  <2> QED BY <1>23, <2>3, Quiet DEF Scan, StartExit, Flying, history
<1>24. CASE GateFill
  <2>1. gate.open < MaxOpen /\ MaxOpen <= U8Max
    BY <1>24, GateAssumption DEF GateFill, SlotFree
  <2>2. gate'.open = gate.open + 1
    BY <1>24, <1>g, <2>1, GateAssumption, GateCounts DEF GateFill, U8Max
  <2>3. TrackedCount' = TrackedCount /\ raced' = raced
    BY <1>24 DEF GateFill, TrackedCount, history
  <2>4. /\ Flying(pc["exec"]) = 0 /\ Flying(pc'["exec"]) = 1
        /\ Flying(pc'["recon"]) = Flying(pc["recon"])
    BY <1>24 DEF GateFill, Proceed, Flying
  <2> QED BY <1>g, <1>n, <2>2, <2>3, <2>4 DEF Accounted, Flying
<1>25. CASE TrackerAdd
  <2>1. NewPosition \in Positions /\ NewPosition.ticker = opp.ticker
    BY <1>25, ExecutorAssumption
       DEF TrackerAdd, NewPosition, Positions, LimitPrice, WholeCents,
       Opportunities, InHand, OppInHand, QtyInHand, LocalsOK
  <2>2. positions \in Books /\ positions[opp.ticker] = None
    BY <1>25 DEF SharedOK, Books, TickerFree, TrackerAdd
  <2>3. TrackedCount' = TrackedCount + 1 /\ gate' = gate /\ raced' = raced
    BY <1>25, <2>1, <2>2, TrackedAfterAdd DEF TrackerAdd, TrackedCount, history
  <2>4. /\ Flying(pc["exec"]) = 1 /\ Flying(pc'["exec"]) = 0
        /\ Flying(pc'["recon"]) = Flying(pc["recon"])
    BY <1>25 DEF TrackerAdd, Proceed, Flying
  <2> QED BY <1>g, <1>n, <2>3, <2>4 DEF Accounted, Flying
<1>26. CASE DropUnlisted
  <2>1. PICK t \in pending :
          IF positions[t] = None
          THEN UNCHANGED <<positions, sale, pc>>
          ELSE /\ positions' = Remove(positions, t)
               /\ Goto("recon", "dropped")
    BY <1>26 DEF DropUnlisted
  <2>2. gate' = gate /\ raced' = raced /\ pc["recon"] = "settle"
    BY <1>26 DEF DropUnlisted, history
  <2>3. CASE positions[t] = None
    BY <2>1, <2>2, <2>3, Quiet
  <2>4. CASE positions[t] # None
    <3>1. TrackedCount' = TrackedCount - 1
      BY <2>1, <2>4, TrackedAfterRemove
         DEF TrackedCount, SharedOK, LocalsOK, Books
    <3>2. /\ Flying(pc["recon"]) = 0 /\ Flying(pc'["recon"]) = 1
          /\ Flying(pc'["exec"]) = Flying(pc["exec"])
      BY <2>1, <2>2, <2>4 DEF Flying
    <3> QED BY <1>g, <1>n, <2>2, <3>1, <3>2 DEF Accounted, Flying
  <2> QED BY <2>3, <2>4
<1>27. CASE CloseDropped
  <2>1. gate'.open = IF gate.open = 0 THEN 0 ELSE gate.open - 1
    BY <1>27, <1>g, GateCounts DEF CloseDropped
  <2>2. TrackedCount' = TrackedCount /\ raced' = raced
    BY <1>27 DEF CloseDropped, TrackedCount, history
  <2>3. /\ Flying(pc["recon"]) = 1 /\ Flying(pc'["recon"]) = 0
        /\ Flying(pc'["exec"]) = Flying(pc["exec"])
    BY <1>27 DEF CloseDropped, Flying
  <2> QED BY <1>g, <1>n, <2>1, <2>2, <2>3 DEF Accounted, Flying
<1>28. ASSUME NEW self \in Tasks, SellFails(self) PROVE Accounted'
  BY <1>28, Quiet DEF SellFails, Resume, Flying, shared, history
<1>29. ASSUME NEW self \in Tasks, Sell(self) PROVE Accounted'
  BY <1>29, Quiet DEF Sell, Resume, Flying, shared, history
<1>30. ASSUME NEW self \in Tasks, ExitRelock(self) PROVE Accounted'
  BY <1>30, Quiet DEF ExitRelock, Resume, Flying, shared, history
<1>31. ASSUME NEW self \in Tasks, ExitRemove(self) PROVE Accounted'
  <2> DEFINE t == sale[self].pos.ticker
  <2>1. t \in Tickers
    BY <1>31, SalePnl DEF ExitRemove, InHand, SaleInHand, ExitPCs
  <2>2. /\ TrackedCount' =
             TrackedCount - (IF positions[t] = None THEN 0 ELSE 1)
        /\ gate' = gate
    BY <1>31, <2>1, TrackedAfterRemove
       DEF ExitRemove, TrackedCount, SharedOK, Books
  <2>3. raced' = (raced \/ positions[t] = None)
    BY <1>31 DEF ExitRemove
  <2>4. /\ Flying(pc[self]) = 0 /\ Flying(pc'[self]) = 1
        /\ \A other \in Tasks \ {self} : Flying(pc'[other]) = Flying(pc[other])
    BY <1>31 DEF ExitRemove, Flying
  <2> HIDE DEF t
  <2>5. Flying(pc'["exec"]) + Flying(pc'["recon"])
          = Flying(pc["exec"]) + Flying(pc["recon"]) + 1
    BY <2>4 DEF Flying
  <2>6. CASE positions[t] = None
    <3>1. raced'
      BY <2>3, <2>6
    <3> QED BY <1>g, <1>n, <2>2, <2>5, <2>6, <3>1 DEF Accounted, Flying
  <2>7. CASE positions[t] # None
    <3>1. ~raced' => ~raced
      BY <2>3, Zenon
    <3> QED BY <1>g, <1>n, <2>2, <2>5, <2>7, <3>1 DEF Accounted, Flying
  <2> QED BY <2>6, <2>7
<1>32. ASSUME NEW self \in Tasks, ExitBook(self) PROVE Accounted'
  <2> DEFINE s   == sale[self]
             pnl == (s.price - s.pos.entry) * s.filled
  <2>1. pnl \in Int
    BY <1>32, SalePnl DEF ExitBook, InHand, SaleInHand, ExitPCs
  <2>2. gate' = RecordPnl(RecordClose(gate), pnl)
    BY <1>32 DEF ExitBook
  <2> HIDE DEF pnl
  <2>3. gate'.open = IF gate.open = 0 THEN 0 ELSE gate.open - 1
    BY <1>g, <2>1, <2>2, CloseType, GateCounts
  <2>4. TrackedCount' = TrackedCount /\ raced' = raced
    BY <1>32 DEF ExitBook, TrackedCount
  <2>5. /\ Flying(pc[self]) = 1 /\ Flying(pc'[self]) = 0
        /\ \A other \in Tasks \ {self} : Flying(pc'[other]) = Flying(pc[other])
    BY <1>32 DEF ExitBook, Flying
  <2>6. Flying(pc'["exec"]) + Flying(pc'["recon"])
          = Flying(pc["exec"]) + Flying(pc["recon"]) - 1
    BY <2>5 DEF Flying
  <2> QED BY <1>g, <1>n, <2>3, <2>4, <2>6 DEF Accounted, Flying
<1>33. CASE Crash
  <2>1. Tracked(positions') = {}
    BY <1>33 DEF Crash, EmptyBook, Tracked
  <2>2. TrackedCount' = 0
    BY <2>1, FS_EmptySet DEF TrackedCount
  <2>3. gate'.open = 0 /\ pc' = Started
    BY <1>33 DEF Crash, NewGate
  <2> QED BY <2>2, <2>3 DEF Accounted, Flying, Started
<1>34. ASSUME NEW t \in Tickers, LateFill(t) PROVE Accounted'
  BY <1>34, Quiet DEF LateFill, Flying, shared, history
<1>35. ASSUME NEW t \in Tickers, Settle(t) PROVE Accounted'
  BY <1>35, Quiet DEF Settle, Flying, shared, history
<1>36. ASSUME NEW self \in Tasks, Exit(self) PROVE Accounted'
  BY <1>36, <1>28, <1>29, <1>31, <1>32, <1>30 DEF Exit
<1>37. CASE Exec
  BY <1>37, <1>36, <1>1, <1>2, <1>3, <1>4, <1>5, <1>6, <1>7, <1>8, <1>9,
     <1>10, <1>11, <1>12, <1>24, <1>25, <1>13 DEF Exec
<1>38. CASE Recon
  BY <1>38, <1>36, <1>14, <1>15, <1>16, <1>17, <1>26, <1>27, <1>18, <1>19,
     <1>20, <1>23, <1>21 DEF Recon
<1>39. CASE World
  BY <1>39, <1>22, <1>33, <1>34, <1>35 DEF World
<1> QED BY <1>37, <1>38, <1>39 DEF Next

\* Only exec raises the counter, and the check it relies on is not undone by
\* the reconciliation task, which can only lower it.
LEMMA SlotFreeStep ==
  ASSUME TypeInv, SlotFree, Next
  PROVE  SlotFree'
<1> USE DEF TypeInv, TypeOK, ControlOK, Goto, Tasks
<1>1. CASE Pop
  BY <1>1 DEF Pop, SlotFree, shared
<1>2. CASE SnapshotReversed
  BY <1>2 DEF SnapshotReversed, Proceed, SlotFree, shared
<1>3. CASE NextReversed
  BY <1>3 DEF NextReversed, StartExit, SlotFree, shared
<1>4. CASE ReversedDone
  BY <1>4 DEF ReversedDone, Proceed, SlotFree, shared
<1>5. CASE ResetDaily
  BY <1>5, GateCounts DEF ResetDaily, Proceed, SlotFree, shared, SharedOK
<1>6. CASE SkipTracked
  BY <1>6 DEF SkipTracked, Proceed, EndIteration, SlotFree, shared
<1>7. CASE CheckRisk
  BY <1>7 DEF CheckRisk, Proceed, EndIteration, SlotFree, shared, Passes
<1>8. CASE GetBalance
  BY <1>8 DEF GetBalance, Proceed, EndIteration, SlotFree, shared
<1>9. CASE ThesisLock
  BY <1>9 DEF ThesisLock, Proceed, EndIteration, SlotFree, shared
<1>10. CASE LossSuppression
  BY <1>10 DEF LossSuppression, EndIteration, SlotFree, shared
<1>11. CASE SendFails
  BY <1>11 DEF SendFails, EndIteration, SlotFree, shared
<1>12. CASE Send
  BY <1>12 DEF Send, EndIteration, SlotFree, shared
<1>13. CASE GateFill
  <2>1. gate \in Gates /\ gate.open < MaxOpen
    BY <1>13 DEF SharedOK, SlotFree, GateFill
  <2>2. gate'.open = gate.open + 1 /\ gate.open \in Nat
    BY <1>13, <2>1, GateAssumption, GateCounts DEF GateFill, U8Max
  <2> QED BY <1>13, <2>1, <2>2, GateAssumption
     DEF GateFill, Proceed, SlotFree, U8Max
<1>14. CASE TrackerAdd
  BY <1>14 DEF TrackerAdd, Proceed, SlotFree, shared
<1>15. CASE LockThesis
  BY <1>15 DEF LockThesis, EndIteration, SlotFree, shared
<1>16. CASE Wake
  BY <1>16 DEF Wake, SlotFree, shared
<1>17. CASE FetchFails
  BY <1>17 DEF FetchFails, EndCycle, SlotFree, shared
<1>18. CASE Fetch
  BY <1>18 DEF Fetch, SlotFree, shared
<1>19. CASE Collect
  BY <1>19 DEF Collect, SlotFree, shared
<1>20. CASE DropUnlisted
  BY <1>20 DEF DropUnlisted, SlotFree, shared
<1>21. CASE CloseDropped
  <2>1. /\ gate'.open = (IF gate.open = 0 THEN 0 ELSE gate.open - 1)
        /\ gate.open \in Nat
    BY <1>21, GateCounts DEF CloseDropped, SharedOK
  <2> QED BY <1>21, <2>1, GateAssumption DEF CloseDropped, SlotFree, U8Max
<1>22. CASE SettleDone
  BY <1>22 DEF SettleDone, SlotFree, shared
<1>23. CASE SnapshotTracked
  BY <1>23 DEF SnapshotTracked, SlotFree, shared
<1>24. CASE ScanSkip
  BY <1>24 DEF ScanSkip, SlotFree, shared
<1>25. CASE Scan
  BY <1>25 DEF Scan, StartExit, SlotFree, shared
<1>26. CASE ScanDone
  BY <1>26 DEF ScanDone, EndCycle, SlotFree, shared
<1>27. ASSUME NEW self \in Tasks, SellFails(self) PROVE SlotFree'
  BY <1>27 DEF SellFails, Resume, SlotFree, shared
<1>28. ASSUME NEW self \in Tasks, Sell(self) PROVE SlotFree'
  BY <1>28 DEF Sell, Resume, SlotFree, shared
<1>29. ASSUME NEW self \in Tasks, ExitRemove(self) PROVE SlotFree'
  BY <1>29 DEF ExitRemove, SlotFree, shared
<1>30. ASSUME NEW self \in Tasks, ExitBook(self) PROVE SlotFree'
  <2> DEFINE s   == sale[self]
             pnl == (s.price - s.pos.entry) * s.filled
  <2>1. pnl \in Int
    BY <1>30, SalePnl DEF ExitBook, InHand, SaleInHand, ExitPCs
  <2>2. gate' = RecordPnl(RecordClose(gate), pnl)
    BY <1>30 DEF ExitBook
  <2> HIDE DEF pnl
  <2>3. /\ gate'.open = (IF gate.open = 0 THEN 0 ELSE gate.open - 1)
        /\ gate.open \in Nat
    BY <2>1, <2>2, CloseType, GateCounts DEF SharedOK
  <2> QED BY <1>30, <2>3, GateAssumption DEF ExitBook, SlotFree, U8Max
<1>31. ASSUME NEW self \in Tasks, ExitRelock(self) PROVE SlotFree'
  BY <1>31 DEF ExitRelock, Resume, SlotFree, shared
<1>32. CASE Pass
  BY <1>32 DEF Pass, SlotFree, shared
<1>33. CASE Crash
  BY <1>33, GateAssumption DEF Crash, SlotFree, shared, NewGate, Started,
     U8Max
<1>34. ASSUME NEW t \in Tickers, LateFill(t) PROVE SlotFree'
  BY <1>34 DEF LateFill, SlotFree, shared
<1>35. ASSUME NEW t \in Tickers, Settle(t) PROVE SlotFree'
  BY <1>35 DEF Settle, SlotFree, shared
<1>36. ASSUME NEW self \in Tasks, Exit(self) PROVE SlotFree'
  BY <1>36, <1>27, <1>28, <1>29, <1>30, <1>31 DEF Exit
<1>37. CASE Exec
  BY <1>37, <1>36, <1>1, <1>2, <1>3, <1>4, <1>5, <1>6, <1>7, <1>8, <1>9,
     <1>10, <1>11, <1>12, <1>13, <1>14, <1>15 DEF Exec
<1>38. CASE Recon
  BY <1>38, <1>36, <1>16, <1>17, <1>18, <1>19, <1>20, <1>21, <1>22, <1>23,
     <1>24, <1>25, <1>26 DEF Recon
<1>39. CASE World
  BY <1>39, <1>32, <1>33, <1>34, <1>35 DEF World
<1> QED BY <1>37, <1>38, <1>39 DEF Next

\* Only exec adds positions, so a ticker found free stays free until its add.
LEMMA TickerFreeStep ==
  ASSUME TypeInv, TickerFree, Next
  PROVE  TickerFree'
<1> USE DEF TypeInv, TypeOK, ControlOK, Goto, Tasks
<1>1. CASE Pop
  BY <1>1 DEF Pop, TickerFree, shared, execLoc
<1>2. CASE SnapshotReversed
  BY <1>2 DEF SnapshotReversed, Proceed, TickerFree, shared, execLoc
<1>3. CASE NextReversed
  BY <1>3 DEF NextReversed, StartExit, TickerFree, shared, execLoc
<1>4. CASE ReversedDone
  BY <1>4 DEF ReversedDone, Proceed, TickerFree, shared, execLoc
<1>5. CASE ResetDaily
  BY <1>5 DEF ResetDaily, Proceed, TickerFree, shared, execLoc
<1>6. CASE SkipTracked
  BY <1>6, ExecutorAssumption DEF SkipTracked, Proceed, EndIteration,
     TickerFree, shared, execLoc, TickerRefused, Tracked, InHand, OppInHand,
     Opportunities
<1>7. CASE CheckRisk
  BY <1>7 DEF CheckRisk, Proceed, EndIteration, TickerFree, shared, execLoc
<1>8. CASE GetBalance
  BY <1>8 DEF GetBalance, Proceed, EndIteration, TickerFree, shared, execLoc
<1>9. CASE ThesisLock
  BY <1>9 DEF ThesisLock, Proceed, EndIteration, TickerFree, shared, execLoc
<1>10. CASE LossSuppression
  BY <1>10 DEF LossSuppression, EndIteration, TickerFree, shared, execLoc
<1>11. CASE SendFails
  BY <1>11 DEF SendFails, EndIteration, TickerFree, shared, execLoc
<1>12. CASE Send
  BY <1>12 DEF Send, EndIteration, TickerFree, shared, execLoc
<1>13. CASE GateFill
  BY <1>13 DEF GateFill, Proceed, TickerFree, shared, execLoc
<1>14. CASE TrackerAdd
  BY <1>14 DEF TrackerAdd, Proceed, TickerFree, shared, execLoc
<1>15. CASE LockThesis
  BY <1>15 DEF LockThesis, EndIteration, TickerFree, shared, execLoc
<1>16. CASE Wake
  BY <1>16 DEF Wake, TickerFree, shared, execLoc
<1>17. CASE FetchFails
  BY <1>17 DEF FetchFails, EndCycle, TickerFree, shared, execLoc
<1>18. CASE Fetch
  BY <1>18 DEF Fetch, TickerFree, shared, execLoc
<1>19. CASE Collect
  BY <1>19 DEF Collect, TickerFree, shared, execLoc
<1>20. CASE DropUnlisted
  BY <1>20, ExecutorAssumption DEF DropUnlisted, TickerFree, shared,
     execLoc, Remove, SharedOK, InHand, OppInHand, Opportunities
<1>21. CASE CloseDropped
  BY <1>21 DEF CloseDropped, TickerFree, shared, execLoc
<1>22. CASE SettleDone
  BY <1>22 DEF SettleDone, TickerFree, shared, execLoc
<1>23. CASE SnapshotTracked
  BY <1>23 DEF SnapshotTracked, TickerFree, shared, execLoc
<1>24. CASE ScanSkip
  BY <1>24 DEF ScanSkip, TickerFree, shared, execLoc
<1>25. CASE Scan
  <2>1. PICK t \in pending, bid \in Bids :
          positions' = UpdatePeak(positions, t, bid)
    BY <1>25 DEF Scan
  <2>2. /\ positions \in Books /\ Keyed(positions)
        /\ t \in Tickers /\ bid \in Nat
    BY ExecutorAssumption DEF SharedOK, LocalsOK, Books, Keyed
  <2>3. \A u \in Tickers : positions'[u] = None <=> positions[u] = None
    BY <2>1, <2>2, PeakType
  <2>4. pc["exec"] # "idle" => opp.ticker \in Tickers
    BY ExecutorAssumption DEF InHand, OppInHand, Opportunities
  <2> QED BY <1>25, <2>3, <2>4 DEF Scan, StartExit, TickerFree, execLoc
<1>26. CASE ScanDone
  BY <1>26 DEF ScanDone, EndCycle, TickerFree, shared, execLoc
<1>27. ASSUME NEW self \in Tasks, SellFails(self) PROVE TickerFree'
  BY <1>27 DEF SellFails, Resume, TickerFree, shared, execLoc
<1>28. ASSUME NEW self \in Tasks, Sell(self) PROVE TickerFree'
  BY <1>28 DEF Sell, Resume, TickerFree, shared, execLoc
<1>29. ASSUME NEW self \in Tasks, ExitRemove(self) PROVE TickerFree'
  BY <1>29, ExecutorAssumption DEF ExitRemove, TickerFree, shared, execLoc,
     Remove, SharedOK, InHand, OppInHand, Opportunities
<1>30. ASSUME NEW self \in Tasks, ExitBook(self) PROVE TickerFree'
  BY <1>30 DEF ExitBook, TickerFree, shared, execLoc
<1>31. ASSUME NEW self \in Tasks, ExitRelock(self) PROVE TickerFree'
  BY <1>31 DEF ExitRelock, Resume, TickerFree, shared, execLoc
<1>32. CASE Pass
  BY <1>32 DEF Pass, TickerFree, shared, execLoc
<1>33. CASE Crash
  BY <1>33 DEF Crash, TickerFree, shared, execLoc, Started
<1>34. ASSUME NEW t \in Tickers, LateFill(t) PROVE TickerFree'
  BY <1>34 DEF LateFill, TickerFree, shared, execLoc
<1>35. ASSUME NEW t \in Tickers, Settle(t) PROVE TickerFree'
  BY <1>35 DEF Settle, TickerFree, shared, execLoc
<1>36. ASSUME NEW self \in Tasks, Exit(self) PROVE TickerFree'
  BY <1>36, <1>27, <1>28, <1>29, <1>30, <1>31 DEF Exit
<1>37. CASE Exec
  BY <1>37, <1>36, <1>1, <1>2, <1>3, <1>4, <1>5, <1>6, <1>7, <1>8, <1>9,
     <1>10, <1>11, <1>12, <1>13, <1>14, <1>15 DEF Exec
<1>38. CASE Recon
  BY <1>38, <1>36, <1>16, <1>17, <1>18, <1>19, <1>20, <1>21, <1>22, <1>23,
     <1>24, <1>25, <1>26 DEF Recon
<1>39. CASE World
  BY <1>39, <1>32, <1>33, <1>34, <1>35 DEF World
<1> QED BY <1>37, <1>38, <1>39 DEF Next

\* An order sent while the limit is tripped leaves exec before the check, and
\* the check refuses the next one as long as the limit stays tripped.
LEMMA HaltOnceStep ==
  ASSUME TypeInv, HaltOnce, Next
  PROVE  HaltOnce'
<1> USE DEF TypeInv, TypeOK, ControlOK, HistoryOK, Goto, Tasks
<1>1. CASE Pop
  BY <1>1 DEF Pop, HaltOnce, shared, history
<1>2. CASE SnapshotReversed
  BY <1>2 DEF SnapshotReversed, Proceed, HaltOnce, shared, history
<1>3. CASE NextReversed
  BY <1>3 DEF NextReversed, StartExit, HaltOnce, shared, history
<1>4. CASE ReversedDone
  BY <1>4 DEF ReversedDone, Proceed, HaltOnce, shared, history
<1>5. CASE ResetDaily
  BY <1>5 DEF ResetDaily, Proceed, HaltOnce, shared, history, KeepOverrun
<1>6. CASE SkipTracked
  BY <1>6 DEF SkipTracked, Proceed, EndIteration, HaltOnce, shared, history
<1>7. CASE CheckRisk
  BY <1>7 DEF CheckRisk, Proceed, EndIteration, HaltOnce, shared, history,
     Passes
<1>8. CASE GetBalance
  BY <1>8 DEF GetBalance, Proceed, EndIteration, HaltOnce, shared, history
<1>9. CASE ThesisLock
  BY <1>9 DEF ThesisLock, Proceed, EndIteration, HaltOnce, shared, history
<1>10. CASE LossSuppression
  BY <1>10 DEF LossSuppression, EndIteration, HaltOnce, shared, history
<1>11. CASE SendFails
  BY <1>11 DEF SendFails, EndIteration, HaltOnce, shared, history,
     CountOverrun
<1>12. CASE Send
  BY <1>12 DEF Send, EndIteration, HaltOnce, shared, history, CountOverrun
<1>13. CASE GateFill
  BY <1>13 DEF GateFill, Proceed, HaltOnce, shared, history, RecordFill,
     Halted, SharedOK, Gates
<1>14. CASE TrackerAdd
  BY <1>14 DEF TrackerAdd, Proceed, HaltOnce, shared, history
<1>15. CASE LockThesis
  BY <1>15 DEF LockThesis, EndIteration, HaltOnce, shared, history
<1>16. CASE Wake
  BY <1>16 DEF Wake, HaltOnce, shared, history
<1>17. CASE FetchFails
  BY <1>17 DEF FetchFails, EndCycle, HaltOnce, shared, history
<1>18. CASE Fetch
  BY <1>18 DEF Fetch, HaltOnce, shared, history
<1>19. CASE Collect
  BY <1>19 DEF Collect, HaltOnce, shared, history
<1>20. CASE DropUnlisted
  BY <1>20 DEF DropUnlisted, HaltOnce, shared, history
<1>21. CASE CloseDropped
  BY <1>21 DEF CloseDropped, HaltOnce, shared, history, RecordClose, Halted,
     SharedOK, Gates
<1>22. CASE SettleDone
  BY <1>22 DEF SettleDone, HaltOnce, shared, history
<1>23. CASE SnapshotTracked
  BY <1>23 DEF SnapshotTracked, HaltOnce, shared, history
<1>24. CASE ScanSkip
  BY <1>24 DEF ScanSkip, HaltOnce, shared, history
<1>25. CASE Scan
  BY <1>25 DEF Scan, StartExit, HaltOnce, shared, history
<1>26. CASE ScanDone
  BY <1>26 DEF ScanDone, EndCycle, HaltOnce, shared, history
<1>27. ASSUME NEW self \in Tasks, SellFails(self) PROVE HaltOnce'
  BY <1>27 DEF SellFails, Resume, HaltOnce, shared, history
<1>28. ASSUME NEW self \in Tasks, Sell(self) PROVE HaltOnce'
  BY <1>28 DEF Sell, Resume, HaltOnce, shared, history
<1>29. ASSUME NEW self \in Tasks, ExitRemove(self) PROVE HaltOnce'
  BY <1>29 DEF ExitRemove, HaltOnce, shared, history
<1>30. ASSUME NEW self \in Tasks, ExitBook(self) PROVE HaltOnce'
  BY <1>30 DEF ExitBook, HaltOnce, shared, history, KeepOverrun, HistoryOK
<1>31. ASSUME NEW self \in Tasks, ExitRelock(self) PROVE HaltOnce'
  BY <1>31 DEF ExitRelock, Resume, HaltOnce, shared, history
<1>32. CASE Pass
  BY <1>32 DEF Pass, HaltOnce, shared, history
<1>33. CASE Crash
  BY <1>33 DEF Crash, HaltOnce, shared, history, Started
<1>34. ASSUME NEW t \in Tickers, LateFill(t) PROVE HaltOnce'
  BY <1>34 DEF LateFill, HaltOnce, shared, history
<1>35. ASSUME NEW t \in Tickers, Settle(t) PROVE HaltOnce'
  BY <1>35 DEF Settle, HaltOnce, shared, history
<1>36. ASSUME NEW self \in Tasks, Exit(self) PROVE HaltOnce'
  BY <1>36, <1>27, <1>28, <1>29, <1>30, <1>31 DEF Exit
<1>37. CASE Exec
  BY <1>37, <1>36, <1>1, <1>2, <1>3, <1>4, <1>5, <1>6, <1>7, <1>8, <1>9,
     <1>10, <1>11, <1>12, <1>13, <1>14, <1>15 DEF Exec
<1>38. CASE Recon
  BY <1>38, <1>36, <1>16, <1>17, <1>18, <1>19, <1>20, <1>21, <1>22, <1>23,
     <1>24, <1>25, <1>26 DEF Recon
<1>39. CASE World
  BY <1>39, <1>32, <1>33, <1>34, <1>35 DEF World
<1> QED BY <1>37, <1>38, <1>39 DEF Next

\* A suppression written after the check of the thesis ends at least a
\* cooldown after the opportunity was popped.
LEMMA SuppressedStep ==
  ASSUME TypeInv, Suppressed, Next
  PROVE  Suppressed'
<1> USE DEF TypeInv, TypeOK, ControlOK, WorldOK, Goto, Tasks
<1>1. CASE Pop
  BY <1>1 DEF Pop, Suppressed, LossesSuppressReentry, shared, world,
     execLoc, WorldOK
<1>2. CASE SnapshotReversed
  BY <1>2 DEF SnapshotReversed, Proceed, Suppressed, LossesSuppressReentry,
     shared, world, execLoc
<1>3. CASE NextReversed
  BY <1>3 DEF NextReversed, StartExit, Suppressed, LossesSuppressReentry,
     shared, world, execLoc
<1>4. CASE ReversedDone
  BY <1>4 DEF ReversedDone, Proceed, Suppressed, LossesSuppressReentry,
     shared, world, execLoc
<1>5. CASE ResetDaily
  BY <1>5 DEF ResetDaily, Proceed, Suppressed, LossesSuppressReentry,
     shared, world, execLoc
<1>6. CASE SkipTracked
  BY <1>6 DEF SkipTracked, Proceed, EndIteration, Suppressed,
     LossesSuppressReentry, shared, world, execLoc
<1>7. CASE CheckRisk
  BY <1>7 DEF CheckRisk, Proceed, EndIteration, Suppressed,
     LossesSuppressReentry, shared, world, execLoc
<1>8. CASE GetBalance
  BY <1>8 DEF GetBalance, Proceed, EndIteration, Suppressed,
     LossesSuppressReentry, shared, world, execLoc
<1>9. CASE ThesisLock
  BY <1>9 DEF ThesisLock, Proceed, EndIteration, Suppressed,
     LossesSuppressReentry, shared, world, execLoc
<1>10. CASE LossSuppression
  BY <1>10, ExecutorAssumption DEF LossSuppression, EndIteration,
     Suppressed, LossesSuppressReentry, shared, world, execLoc,
     ThesisSuppressed, SharedOK, InHand, OppInHand, Opportunities
<1>11. CASE SendFails
  BY <1>11 DEF SendFails, EndIteration, Suppressed, LossesSuppressReentry,
     shared, world, execLoc
<1>12. CASE Send
  BY <1>12 DEF Send, EndIteration, Suppressed, LossesSuppressReentry,
     shared, world, execLoc
<1>13. CASE GateFill
  BY <1>13 DEF GateFill, Proceed, Suppressed, LossesSuppressReentry, shared,
     world, execLoc
<1>14. CASE TrackerAdd
  BY <1>14 DEF TrackerAdd, Proceed, Suppressed, LossesSuppressReentry,
     shared, world, execLoc
<1>15. CASE LockThesis
  BY <1>15 DEF LockThesis, EndIteration, Suppressed, LossesSuppressReentry,
     shared, world, execLoc
<1>16. CASE Wake
  BY <1>16 DEF Wake, Suppressed, LossesSuppressReentry, shared, world,
     execLoc
<1>17. CASE FetchFails
  BY <1>17 DEF FetchFails, EndCycle, Suppressed, LossesSuppressReentry,
     shared, world, execLoc
<1>18. CASE Fetch
  BY <1>18 DEF Fetch, Suppressed, LossesSuppressReentry, shared, world,
     execLoc
<1>19. CASE Collect
  BY <1>19 DEF Collect, Suppressed, LossesSuppressReentry, shared, world,
     execLoc
<1>20. CASE DropUnlisted
  BY <1>20 DEF DropUnlisted, Suppressed, LossesSuppressReentry, shared,
     world, execLoc
<1>21. CASE CloseDropped
  BY <1>21 DEF CloseDropped, Suppressed, LossesSuppressReentry, shared,
     world, execLoc
<1>22. CASE SettleDone
  BY <1>22 DEF SettleDone, Suppressed, LossesSuppressReentry, shared, world,
     execLoc
<1>23. CASE SnapshotTracked
  BY <1>23 DEF SnapshotTracked, Suppressed, LossesSuppressReentry, shared,
     world, execLoc
<1>24. CASE ScanSkip
  BY <1>24 DEF ScanSkip, Suppressed, LossesSuppressReentry, shared, world,
     execLoc
<1>25. CASE Scan
  BY <1>25 DEF Scan, StartExit, Suppressed, LossesSuppressReentry, shared,
     world, execLoc
<1>26. CASE ScanDone
  BY <1>26 DEF ScanDone, EndCycle, Suppressed, LossesSuppressReentry,
     shared, world, execLoc
<1>27. ASSUME NEW self \in Tasks, SellFails(self) PROVE Suppressed'
  BY <1>27 DEF SellFails, Resume, Suppressed, LossesSuppressReentry, shared,
     world, execLoc
<1>28. ASSUME NEW self \in Tasks, Sell(self) PROVE Suppressed'
  BY <1>28 DEF Sell, Resume, Suppressed, LossesSuppressReentry, shared,
     world, execLoc
<1>29. ASSUME NEW self \in Tasks, ExitRemove(self) PROVE Suppressed'
  BY <1>29 DEF ExitRemove, Suppressed, LossesSuppressReentry, shared, world,
     execLoc
<1>30. ASSUME NEW self \in Tasks, ExitBook(self) PROVE Suppressed'
  <2>1. /\ sale[self].pos.ticker \in Tickers /\ sale[self].pos.side \in Sides
        /\ clock \in Nat /\ now["exec"] \in Nat
    BY <1>30, SalePnl, ExecutorAssumption
       DEF ExitBook, InHand, SaleInHand, ExitPCs, WorldOK
  <2>2. \/ suppressed' = suppressed
        \/ suppressed' = [suppressed EXCEPT
             ![sale[self].pos.ticker][sale[self].pos.side] =
               clock + THESIS_COOLDOWN]
    BY <1>30 DEF ExitBook
  <2>3. /\ opp' = opp /\ now' = now /\ clock' = clock
        /\ pc' = [pc EXCEPT ![self] = "relock"]
    BY <1>30 DEF ExitBook, execLoc, world
  <2>4. CASE pc["exec"] \in {"send", "fill", "add", "lockin"}
    <3>1. opp.ticker \in Tickers /\ opp.side \in Sides
      BY <2>4, ExecutorAssumption DEF InHand, OppInHand, Opportunities
    <3>2. suppressed'[opp.ticker][opp.side] \in
            {suppressed[opp.ticker][opp.side], clock + THESIS_COOLDOWN}
      <4>1. suppressed \in [Tickers -> [Sides -> Nat]]
        BY DEF SharedOK
      <4>2. CASE suppressed' = suppressed
        BY <4>2
      <4>3. CASE suppressed' = [suppressed EXCEPT
                   ![sale[self].pos.ticker][sale[self].pos.side] =
                     clock + THESIS_COOLDOWN]
        BY <2>1, <3>1, <4>1, <4>3, Overwrite
      <4> QED BY <2>2, <4>2, <4>3
    <3> QED
      BY <2>1, <2>3, <2>4, <3>2, ExecutorAssumption
         DEF Suppressed, LossesSuppressReentry
  <2>5. CASE pc["exec"] \notin {"send", "fill", "add", "lockin"}
    BY <2>3, <2>5 DEF Suppressed, LossesSuppressReentry
  <2> QED BY <2>4, <2>5
<1>31. ASSUME NEW self \in Tasks, ExitRelock(self) PROVE Suppressed'
  BY <1>31 DEF ExitRelock, Resume, Suppressed, LossesSuppressReentry,
     shared, world, execLoc
<1>32. CASE Pass
  BY <1>32 DEF Pass, Suppressed, LossesSuppressReentry, shared, world,
     execLoc, WorldOK
<1>33. CASE Crash
  BY <1>33 DEF Crash, Suppressed, LossesSuppressReentry, shared, world,
     execLoc, Started, WorldOK
<1>34. ASSUME NEW t \in Tickers, LateFill(t) PROVE Suppressed'
  BY <1>34 DEF LateFill, Suppressed, LossesSuppressReentry, shared, world,
     execLoc
<1>35. ASSUME NEW t \in Tickers, Settle(t) PROVE Suppressed'
  BY <1>35 DEF Settle, Suppressed, LossesSuppressReentry, shared, world,
     execLoc
<1>36. ASSUME NEW self \in Tasks, Exit(self) PROVE Suppressed'
  BY <1>36, <1>27, <1>28, <1>29, <1>30, <1>31 DEF Exit
<1>37. CASE Exec
  BY <1>37, <1>36, <1>1, <1>2, <1>3, <1>4, <1>5, <1>6, <1>7, <1>8, <1>9,
     <1>10, <1>11, <1>12, <1>13, <1>14, <1>15 DEF Exec
<1>38. CASE Recon
  BY <1>38, <1>36, <1>16, <1>17, <1>18, <1>19, <1>20, <1>21, <1>22, <1>23,
     <1>24, <1>25, <1>26 DEF Recon
<1>39. CASE World
  BY <1>39, <1>32, <1>33, <1>34, <1>35 DEF World
<1> QED BY <1>37, <1>38, <1>39 DEF Next

\* Every step preserves the invariant.
LEMMA IInvStep == ASSUME IInv, [Next]_vars PROVE IInv'
<1>1. CASE Next
  BY <1>1, TypeStep, AccountedStep, SlotFreeStep, TickerFreeStep, HaltOnceStep,
     SuppressedStep DEF IInv
<1>2. CASE UNCHANGED vars
  BY <1>2, TypeStep DEF IInv, vars, shared, execLoc, world, history, Accounted,
     TrackedCount, Flying, SlotFree, TickerFree, HaltOnce, Suppressed,
     LossesSuppressReentry
<1> QED BY <1>1, <1>2

\* The inductive invariant holds in every reachable state.
THEOREM InvariantHolds == Spec => []IInv
BY InvInit, IInvStep, PTL DEF Spec

\* The gate never counts a position that is neither tracked nor in flight:
\* record_fill before add and remove before record_close leak no slot,
\* whatever the tasks, the exchange, a crash and the clock do in between.
THEOREM SlotsNeverLeak == Spec => []GateNeverOvercounts
<1>1. IInv => GateNeverOvercounts
  <2> SUFFICES ASSUME IInv PROVE GateNeverOvercounts
    OBVIOUS
  <2>1. ControlOK
    BY DEF IInv, TypeInv, TypeOK
  <2>2. gate.open <= TrackedCount + Flying(pc["exec"]) + Flying(pc["recon"])
    BY DEF IInv, Accounted
  <2>3. TrackedCount \in Nat
    BY TrackedFinite DEF TrackedCount
  <2> QED
    BY <2>1, <2>2, <2>3, FlyingCount
       DEF GateNeverOvercounts, TrackedCount, Flying
<1> QED BY <1>1, InvariantHolds, PTL

\* As long as no exit removed a position that had gone already, the counter
\* of the gate is exactly the tracked positions and those in flight.
THEOREM GateIsExact == Spec => []GateExact
<1>1. IInv => GateExact
  <2> SUFFICES ASSUME IInv, ~raced
               PROVE  gate.open =
                        Cardinality(Tracked(positions)) + SlotsInFlight
    BY DEF GateExact
  <2>1. ControlOK
    BY DEF IInv, TypeInv, TypeOK
  <2>2. gate.open = TrackedCount + Flying(pc["exec"]) + Flying(pc["recon"])
    BY DEF IInv, Accounted
  <2>3. TrackedCount \in Nat
    BY TrackedFinite DEF TrackedCount
  <2> QED
    BY <2>1, <2>2, <2>3, FlyingCount DEF TrackedCount, Flying
<1> QED BY <1>1, InvariantHolds, PTL

\* The position limit read at lib.rs:168 still holds when the position is
\* added two exchange calls later.
THEOREM LimitHolds == Spec => []TrackedWithinLimit
<1>1. IInv => TrackedWithinLimit
  <2> SUFFICES ASSUME IInv, ~raced
               PROVE  Cardinality(Tracked(positions)) <= MaxOpen
    BY DEF TrackedWithinLimit
  <2>1. gate.open = TrackedCount + Flying(pc["exec"]) + Flying(pc["recon"])
    BY DEF IInv, Accounted
  <2>2. gate.open <= MaxOpen
    BY DEF IInv, SlotFree
  <2>3. TrackedCount \in Nat
    BY TrackedFinite DEF TrackedCount
  <2> QED
    BY <2>1, <2>2, <2>3, GateAssumption DEF TrackedCount, Flying
<1> QED BY <1>1, InvariantHolds, PTL

\* The daily halt lets through at most the one order that was past its check
\* when the loss was booked.
THEOREM OneOrderThroughHalt == Spec => []HaltLetsOneThrough
<1>1. IInv => HaltLetsOneThrough
  BY DEF IInv, HaltOnce, HaltLetsOneThrough
<1> QED BY <1>1, InvariantHolds, PTL

\* An order under way contradicts no suppression of its thesis that was there
\* when its opportunity was popped.
THEOREM SuppressionHolds == Spec => []LossesSuppressReentry
<1>1. IInv => LossesSuppressReentry
  BY DEF IInv, Suppressed
<1> QED BY <1>1, InvariantHolds, PTL

-----------------------------------------------------------------------------
(* The executor's tracker implements PositionBook. *)

\* The empty tracker is the empty book.
LEMMA BookInit == Init => Book!Init
BY DEF Init, Book!Init, EmptyBook

\* Every step opens a free ticker, raises a peak, closes a position, forgets
\* all, or leaves the tracker as it is.
LEMMA BookNext ==
  ASSUME TypeInv, TickerFree, Next
  PROVE  Book!Next \/ UNCHANGED positions
<1> USE DEF TypeInv, TypeOK, ControlOK, Tasks
<1>1. CASE Pop
  BY <1>1 DEF Pop, shared
<1>2. CASE SnapshotReversed
  BY <1>2 DEF SnapshotReversed, Proceed, shared
<1>3. CASE NextReversed
  BY <1>3 DEF NextReversed, StartExit, shared
<1>4. CASE ReversedDone
  BY <1>4 DEF ReversedDone, Proceed, shared
<1>5. CASE ResetDaily
  BY <1>5 DEF ResetDaily, Proceed, shared
<1>6. CASE SkipTracked
  BY <1>6 DEF SkipTracked, Proceed, EndIteration, shared
<1>7. CASE CheckRisk
  BY <1>7 DEF CheckRisk, Proceed, EndIteration, shared
<1>8. CASE GetBalance
  BY <1>8 DEF GetBalance, Proceed, EndIteration, shared
<1>9. CASE ThesisLock
  BY <1>9 DEF ThesisLock, Proceed, EndIteration, shared
<1>10. CASE LossSuppression
  BY <1>10 DEF LossSuppression, EndIteration, shared
<1>11. CASE SendFails
  BY <1>11 DEF SendFails, EndIteration, shared
<1>12. CASE Send
  BY <1>12 DEF Send, EndIteration, shared
<1>13. CASE GateFill
  BY <1>13 DEF GateFill, Proceed, shared
<1>14. CASE TrackerAdd
  <2>1. NewPosition \in Positions /\ NewPosition.ticker = opp.ticker
    BY <1>14, ExecutorAssumption
       DEF TrackerAdd, NewPosition, Positions, LimitPrice, WholeCents,
       Opportunities, InHand, OppInHand, QtyInHand, LocalsOK
  <2>2. NewPosition.peak = NewPosition.entry
    BY DEF NewPosition
  <2>3. opp.ticker \in Tickers /\ positions[opp.ticker] = None
    BY <1>14, <2>1 DEF TrackerAdd, TickerFree, Positions
  <2>4. /\ positions' = [positions EXCEPT ![opp.ticker] = NewPosition]
        /\ positions'[opp.ticker] = NewPosition
    BY <1>14, <2>1, <2>3 DEF TrackerAdd, Add, SharedOK
  <2>5. Book!Open(opp.ticker)
    BY <2>1, <2>2, <2>3, <2>4 DEF Book!Open
  <2> QED BY <2>3, <2>5 DEF Book!Next
<1>15. CASE LockThesis
  BY <1>15 DEF LockThesis, EndIteration, shared
<1>16. CASE Wake
  BY <1>16 DEF Wake, shared
<1>17. CASE FetchFails
  BY <1>17 DEF FetchFails, EndCycle, shared
<1>18. CASE Fetch
  BY <1>18 DEF Fetch, shared
<1>19. CASE Collect
  BY <1>19 DEF Collect, shared
<1>20. CASE DropUnlisted
  BY <1>20 DEF DropUnlisted, shared, Remove, LocalsOK, Book!Next, Book!Close
<1>21. CASE CloseDropped
  BY <1>21 DEF CloseDropped, shared
<1>22. CASE SettleDone
  BY <1>22 DEF SettleDone, shared
<1>23. CASE SnapshotTracked
  BY <1>23 DEF SnapshotTracked, shared
<1>24. CASE ScanSkip
  BY <1>24 DEF ScanSkip, shared
<1>25. CASE Scan
  <2>1. PICK t \in pending, bid \in Bids :
          /\ positions[t] # None
          /\ positions' = UpdatePeak(positions, t, bid)
    BY <1>25 DEF Scan
  <2>2. t \in Tickers /\ positions[t] \in Positions /\ bid \in Nat
    BY <2>1, ExecutorAssumption DEF SharedOK, LocalsOK
  <2>3. CASE bid > positions[t].peak
    <3> DEFINE raised == [positions[t] EXCEPT !.peak = bid]
    <3>1. raised \in Positions /\ raised.peak = bid
      BY <2>2 DEF Positions
    <3>2. positions' = [positions EXCEPT ![t] = raised]
      BY <2>1, <2>3 DEF UpdatePeak
    <3>3. positions'[t] = raised
      BY <2>2, <3>2 DEF SharedOK
    <3>4. positions'[t] # None /\ positions'[t].peak = bid
      BY <3>1, <3>3, NoneAssumption
    <3>5. positions' = [positions EXCEPT ![t].peak = positions'[t].peak]
      BY <2>1, <2>3, <3>4 DEF UpdatePeak
    <3>6. Book!Raise(t)
      BY <2>1, <2>3, <3>4, <3>5 DEF Book!Raise
    <3> QED BY <2>2, <3>6 DEF Book!Next
  <2>4. CASE ~(bid > positions[t].peak)
    BY <2>1, <2>4 DEF UpdatePeak
  <2> QED BY <2>3, <2>4
<1>26. CASE ScanDone
  BY <1>26 DEF ScanDone, EndCycle, shared
<1>27. ASSUME NEW self \in Tasks, SellFails(self)
       PROVE  Book!Next \/ UNCHANGED positions
  BY <1>27 DEF SellFails, Resume, shared
<1>28. ASSUME NEW self \in Tasks, Sell(self)
       PROVE  Book!Next \/ UNCHANGED positions
  BY <1>28 DEF Sell, Resume, shared
<1>29. ASSUME NEW self \in Tasks, ExitRemove(self)
       PROVE  Book!Next \/ UNCHANGED positions
  <2>1. sale[self].pos.ticker \in Tickers
    BY <1>29, SalePnl DEF ExitRemove, InHand, SaleInHand, ExitPCs
  <2>2. CASE positions[sale[self].pos.ticker] = None
    BY <1>29, <2>1, <2>2 DEF ExitRemove, Remove, SharedOK
  <2>3. CASE positions[sale[self].pos.ticker] # None
    BY <1>29, <2>1, <2>3 DEF ExitRemove, Remove, Book!Close, Book!Next
  <2> QED BY <2>2, <2>3
<1>30. ASSUME NEW self \in Tasks, ExitBook(self)
       PROVE  Book!Next \/ UNCHANGED positions
  BY <1>30 DEF ExitBook, shared
<1>31. ASSUME NEW self \in Tasks, ExitRelock(self)
       PROVE  Book!Next \/ UNCHANGED positions
  BY <1>31 DEF ExitRelock, Resume, shared
<1>32. CASE Pass
  BY <1>32 DEF Pass, shared
<1>33. CASE Crash
  BY <1>33 DEF Crash, shared, EmptyBook, Book!Next, Book!Forget
<1>34. ASSUME NEW t \in Tickers, LateFill(t)
       PROVE  Book!Next \/ UNCHANGED positions
  BY <1>34 DEF LateFill, shared
<1>35. ASSUME NEW t \in Tickers, Settle(t)
       PROVE  Book!Next \/ UNCHANGED positions
  BY <1>35 DEF Settle, shared
<1>36. ASSUME NEW self \in Tasks, Exit(self)
       PROVE  Book!Next \/ UNCHANGED positions
  BY <1>36, <1>27, <1>28, <1>29, <1>30, <1>31 DEF Exit
<1>37. CASE Exec
  BY <1>37, <1>36, <1>1, <1>2, <1>3, <1>4, <1>5, <1>6, <1>7, <1>8, <1>9,
     <1>10, <1>11, <1>12, <1>13, <1>14, <1>15 DEF Exec
<1>38. CASE Recon
  BY <1>38, <1>36, <1>16, <1>17, <1>18, <1>19, <1>20, <1>21, <1>22, <1>23,
     <1>24, <1>25, <1>26 DEF Recon
<1>39. CASE World
  BY <1>39, <1>32, <1>33, <1>34, <1>35 DEF World
<1> QED BY <1>37, <1>38, <1>39 DEF Next

\* The tracker, unlocked between check and add, still goes through the
\* lifecycle of PositionBook and no other.
THEOREM Refinement == Spec => RefinesPositionBook
<1>1. IInv /\ [Next]_vars => [Book!Next]_positions
  BY BookNext DEF IInv, vars, shared
<1> QED BY <1>1, BookInit, InvariantHolds, PTL
   DEF Spec, RefinesPositionBook, Book!Spec

-----------------------------------------------------------------------------
(* What is tracked is held. *)

\* Replies arrive, orders do not rest, and one side of a ticker is traded.
PlainExchange ==
  /\ EnvFaults \cap {"LostReply", "Resting"} = {}
  /\ \A o, p \in Opps : o.ticker = p.ticker => o.side = p.side

\* The side on which a ticker is traded.
SideOf(t) == CHOOSE s \in Sides : \A o \in Opps : o.ticker = t => o.side = s

\* The contracts held on that side.
Account == [t \in Tickers |-> Up(SideOf(t)) * held[t]]

\* Every position that is tracked or in hand is on the side of its ticker.
Sided ==
  /\ \A t \in Tickers : positions[t] # None => positions[t].side = SideOf(t)
  /\ \A self \in Tasks :
       pc[self] \in ExitPCs \cup {"dropped"} =>
         sale[self].pos.side = SideOf(sale[self].pos.ticker)
  /\ \A pos \in reversed : pos.side = SideOf(pos.ticker)

\* Nothing is held on the other side, and no order rests.
OneWay == \A t \in Tickers : Account[t] >= 0 /\ resting[t] = NoRest

\* The tickers of which a task has sold contracts and which it is to remove.
Sold ==
  {sale[self].pos.ticker : self \in {task \in Tasks : pc[task] = "remove"}}

\* What is tracked is held, or on its way out of the tracker.
Backed ==
  ~raced => \A t \in Tickers : positions[t] # None =>
    \/ t \in Settled \/ t \in Sold
    \/ Account[t] >= positions[t].contracts

\* So is what was bought and not added yet: only the other task can sell it,
\* and then it removes it after the add, or it has raced.
Bought ==
  ~raced /\ pc["exec"] \in {"fill", "add"} =>
    \/ opp.ticker \in Settled \/ opp.ticker \in Sold
    \/ Account[opp.ticker] >= qty

HoldInv == Sided /\ OneWay /\ Backed /\ Bought

\* Opportunities are on the side of their ticker.
LEMMA OppSide ==
  ASSUME PlainExchange, NEW o \in Opps
  PROVE  o.side = SideOf(o.ticker) /\ o.side \in Sides /\ o.ticker \in Tickers
<1>1. o.side \in Sides /\ o.ticker \in Tickers
  BY ExecutorAssumption DEF Opportunities
<1>2. \A p \in Opps : p.ticker = o.ticker => p.side = o.side
  BY DEF PlainExchange
<1>3. \A s \in Sides :
        (\A p \in Opps : p.ticker = o.ticker => p.side = s) => s = o.side
  OBVIOUS
<1>4. SideOf(o.ticker) = o.side
  BY <1>1, <1>2, <1>3 DEF SideOf
<1> QED BY <1>1, <1>4

\* A trade on the side of its ticker moves the account by what is filled, and
\* no other account.
LEMMA TradeMoves ==
  ASSUME PlainExchange, WorldOK, NEW t \in Tickers, NEW filled \in Nat,
         NEW rest, NEW way \in {-1, 1},
         Trade(t, way * Up(SideOf(t)), filled, rest)
  PROVE  /\ resting' = resting
         /\ Account[t] \in Int /\ Account'[t] = Account[t] + way * filled
         /\ \A u \in Tickers : u # t => Account'[u] = Account[u]
<1> DEFINE dir == Up(SideOf(t))
<1>1. dir \in {-1, 1} /\ held[t] \in Int /\ t \in DOMAIN held
  BY UpType DEF WorldOK
<1> HIDE DEF dir
<1>2. /\ resting' = resting
      /\ held' = [held EXCEPT ![t] = held[t] + (way * dir) * filled]
  BY DEF Trade, PlainExchange, dir
<1>3. held'[t] = held[t] + (way * dir) * filled
  BY <1>1, <1>2
<1>4. dir * held'[t] = dir * held[t] + way * filled /\ dir * held[t] \in Int
  <2>1. CASE dir = 1
    BY <1>1, <1>3, <2>1
  <2>2. CASE dir = -1
    BY <1>1, <1>3, <2>2
  <2> QED BY <1>1, <2>1, <2>2
<1>5. \A u \in Tickers : u # t => held'[u] = held[u]
  BY <1>2 DEF WorldOK
<1> QED BY <1>2, <1>4, <1>5 DEF Account, dir

LEMMA HoldInit == PlainExchange /\ Init => HoldInv
<1> SUFFICES ASSUME PlainExchange, Init PROVE HoldInv
  OBVIOUS
<1>1. \A t \in Tickers : held[t] = 0 /\ positions[t] = None
  BY DEF Init, EmptyBook
<1>2. \A t \in Tickers : Account[t] = 0
  BY <1>1, UpType DEF Account
<1> QED BY <1>1, <1>2
        DEF Init, HoldInv, Sided, OneWay, Backed, Bought, EmptyBook, Started,
            Tasks, ExitPCs

\* A step that leaves the account of the exchange alone, tracks nothing new and
\* neither begins nor ends a sale keeps the invariant.
LEMMA HoldQuiet ==
  ASSUME HoldInv, UNCHANGED <<held, resting, result, raced>>,
         \A t \in Tickers : positions'[t] # None =>
           /\ positions[t] # None /\ positions'[t].side = positions[t].side
           /\ positions'[t].contracts = positions[t].contracts,
         \A pos \in reversed' : pos.side = SideOf(pos.ticker),
         \A self \in Tasks :
           \/ /\ sale'[self] = sale[self]
              /\ pc'[self] = "remove" <=> pc[self] = "remove"
              /\ pc'[self] \in ExitPCs \cup {"dropped"} =>
                   pc[self] \in ExitPCs \cup {"dropped"}
           \/ /\ pc[self] # "remove" /\ pc'[self] # "remove"
              /\ pc'[self] \in ExitPCs \cup {"dropped"} =>
                   sale'[self].pos.side = SideOf(sale'[self].pos.ticker),
         pc'["exec"] \in {"fill", "add"} =>
           pc["exec"] \in {"fill", "add"} /\ UNCHANGED <<opp, qty>>
  PROVE  HoldInv'
<1>1. Account' = Account
  BY DEF Account
<1>2. Settled' = Settled
  BY DEF Settled
<1>3. Sold' = Sold
  BY DEF Sold
<1>4. "recon" \in Tasks
  BY DEF Tasks
<1>5. Sided'
  BY DEF HoldInv, Sided
<1>6. OneWay'
  BY <1>1 DEF HoldInv, OneWay
<1>7. Backed'
  BY <1>1, <1>2, <1>3 DEF HoldInv, Backed
<1>8. Bought'
  BY <1>1, <1>2, <1>3, <1>4 DEF HoldInv, Bought
<1> QED BY <1>5, <1>6, <1>7, <1>8 DEF HoldInv

\* A sale takes contracts off the account of its ticker, and says so.
LEMMA SellHeld ==
  ASSUME PlainExchange, TypeInv, HoldInv, NEW self \in Tasks, Sell(self)
  PROVE  HoldInv'
<1> DEFINE pos == sale[self].pos
           t == pos.ticker
<1>1. /\ sale[self] \in Sales /\ pos \in Positions /\ t \in Tickers
      /\ pc[self] = "sell"
      /\ pos.side = SideOf(t)
  <2>1. sale[self] \in Sales
    BY DEF TypeInv, InHand, SaleInHand, ExitPCs, Sell
  <2>2. pos \in Positions /\ t \in Tickers
    BY <2>1, SalePnl
  <2> QED BY <2>1, <2>2 DEF HoldInv, Sided, Sell, ExitPCs
<1> HIDE DEF pos
<1>2. PICK bid \in Bids \ {0}, f \in Fills(pos.contracts) :
        /\ f <= OnSide(t, pos.side)
        /\ Trade(t, -Up(pos.side), f, pos.contracts - f)
        /\ \/ /\ f > 0
              /\ Goto(self, "remove")
              /\ sale' = [sale EXCEPT ![self] =
                            [pos |-> pos, filled |-> f, price |-> WholeCents(bid)]]
           \/ /\ f = 0 \/ "LostReply" \in EnvFaults
              /\ Resume(self)
  BY DEF Sell, pos
<1>3. /\ UNCHANGED <<positions, opp, qty, reversed, result, raced>>
      /\ pc \in [Tasks -> ExitPCs \cup ExecPCs \cup ReconPCs]
      /\ sale \in [Tasks -> Sales \cup {None}] /\ WorldOK
  BY DEF Sell, shared, execLoc, history, TypeInv, TypeOK, ControlOK
<1>4. f \in Nat
  BY <1>1, <1>2 DEF Fills, Positions
<1>5. /\ resting' = resting /\ Account'[t] = Account[t] - f
      /\ Account[t] \in Int /\ Account[t] >= f
      /\ \A u \in Tickers : u # t => Account'[u] = Account[u]
  <2>1. Trade(t, (-1) * Up(SideOf(t)), f, pos.contracts - f)
    <3>1. (-1) * Up(SideOf(t)) = -Up(SideOf(t))
      BY UpType
    <3> QED BY <1>1, <1>2, <3>1
  <2>2. /\ resting' = resting /\ Account'[t] = Account[t] + (-1) * f
        /\ Account[t] \in Int
        /\ \A u \in Tickers : u # t => Account'[u] = Account[u]
    BY <1>1, <1>3, <1>4, <2>1, TradeMoves
  <2>3. Account[t] >= f
    BY <1>1, <1>2, <1>4, <2>2 DEF OnSide, Account, HoldInv, OneWay
  <2> QED BY <1>4, <2>2, <2>3
<1>6. Settled' = Settled
  BY <1>3 DEF Settled
<1>7. OneWay'
  BY <1>4, <1>5 DEF HoldInv, OneWay
<1>8. CASE f = 0
  <2>1. /\ \A u \in Tickers : Account'[u] = Account[u]
    BY <1>5, <1>8
  <2>2. Resume(self)
    BY <1>2, <1>8
  <2>3. pc'[self] \notin ExitPCs \cup {"dropped"}
    BY <1>3, <2>2 DEF Resume, Goto, ExitPCs
  <2>4. /\ pc'[self] # "remove"
        /\ pc'["exec"] \notin {"fill", "add"} \/ pc'["exec"] = pc["exec"]
        /\ \A other \in Tasks \ {self} :
             pc'[other] = pc[other] /\ sale'[other] = sale[other]
    BY <1>3, <2>2 DEF Resume, Goto, Tasks
  <2>5. Sold' = Sold
    BY <1>1, <2>4 DEF Sold
  <2>6. Sided'
    BY <1>3, <2>4, <2>3 DEF HoldInv, Sided
  <2>7. Backed'
    BY <1>3, <1>6, <2>1, <2>5 DEF HoldInv, Backed
  <2>8. Bought'
    <3>1. opp' = opp /\ qty' = qty /\ raced' = raced /\ "recon" \in Tasks
      BY <1>3 DEF Tasks
    <3>2. pc["exec"] \in {"fill", "add"} => opp.ticker \in Tickers
      BY OppSide DEF TypeInv, InHand, OppInHand
    <3> QED BY <1>6, <2>1, <2>4, <2>5, <3>1, <3>2 DEF HoldInv, Bought
  <2> QED BY <1>7, <2>6, <2>7, <2>8 DEF HoldInv
<1>9. CASE f > 0
  <2>1. /\ Goto(self, "remove")
        /\ sale' = [sale EXCEPT ![self] =
                      [pos |-> pos, filled |-> f, price |-> WholeCents(bid)]]
    BY <1>2, <1>4, <1>9 DEF PlainExchange
  <2>2. /\ pc'[self] = "remove" /\ sale'[self].pos = pos
        /\ \A other \in Tasks \ {self} :
             pc'[other] = pc[other] /\ sale'[other] = sale[other]
    BY <1>3, <2>1 DEF Goto
  <2>3. t \in Sold'
    BY <2>2 DEF Sold
  <2>4. Sold \subseteq Sold'
    BY <1>1, <2>2 DEF Sold
  <2>5. Sided'
    BY <1>1, <1>3, <2>2 DEF HoldInv, Sided
  <2>6. Backed'
    <3> SUFFICES ASSUME NEW u \in Tickers, ~raced', positions'[u] # None
                 PROVE  \/ u \in Settled'
                        \/ u \in Sold'
                        \/ Account'[u] >= positions'[u].contracts
      BY DEF Backed
    <3>1. CASE u = t
      BY <2>3, <3>1
    <3>2. CASE u # t
      BY <1>3, <1>5, <1>6, <2>4, <3>2 DEF HoldInv, Backed
    <3> QED BY <3>1, <3>2
  <2>7. Bought'
    <3> SUFFICES ASSUME ~raced', pc'["exec"] \in {"fill", "add"}
                 PROVE  \/ opp'.ticker \in Settled' \/ opp'.ticker \in Sold'
                        \/ Account'[opp'.ticker] >= qty'
      BY DEF Bought, Account
    <3>1. self = "recon" /\ pc["exec"] \in {"fill", "add"} /\ "recon" \in Tasks
      BY <2>2 DEF Tasks
    <3>2. opp' = opp /\ qty' = qty /\ ~raced
      BY <1>3
    <3>3. opp.ticker \in Tickers
      BY <3>1, OppSide DEF TypeInv, InHand, OppInHand
    <3>4. CASE opp.ticker = t
      BY <2>3, <3>1, <3>2, <3>4
    <3>5. CASE opp.ticker # t
      <4>1. Account'[opp.ticker] = Account[opp.ticker]
        BY <1>5, <3>3, <3>5
      <4> QED BY <1>6, <2>4, <3>1, <3>2, <4>1 DEF HoldInv, Bought, Account
    <3> QED BY <3>4, <3>5
  <2> QED BY <1>7, <2>5, <2>6, <2>7 DEF HoldInv
<1> QED BY <1>2, <1>4, <1>8, <1>9

\* A removal: a ticker that was not tracked has raced, and what was bought is
\* not tracked yet.
LEMMA RemoveHeld ==
  ASSUME PlainExchange, TypeInv, TickerFree, HoldInv,
         NEW self \in Tasks, ExitRemove(self)
  PROVE  HoldInv'
<1> DEFINE t == sale[self].pos.ticker
<1>1. t \in Tickers
  BY SalePnl DEF ExitRemove, TypeInv, InHand, SaleInHand, ExitPCs
<1>2. /\ pc[self] = "remove" /\ positions' = [positions EXCEPT ![t] = None]
      /\ raced' = (raced \/ positions[t] = None)
      /\ pc' = [pc EXCEPT ![self] = "book"]
      /\ UNCHANGED <<sale, opp, qty, reversed, held, resting, result>>
      /\ pc \in [Tasks -> ExitPCs \cup ExecPCs \cup ReconPCs]
      /\ positions \in [Tickers -> Positions \cup {None}]
  BY DEF ExitRemove, Remove, Goto, execLoc, world, TypeInv, TypeOK, ControlOK,
         SharedOK
<1> HIDE DEF t
<1>3. (Account' = Account) /\ Settled' = Settled
  BY <1>2 DEF Account, Settled
<1>4. /\ \A other \in Tasks \ {self} : pc'[other] = pc[other]
      /\ pc'[self] = "book"
      /\ \A u \in Tickers : u # t => positions'[u] = positions[u]
      /\ positions'[t] = None
  BY <1>1, <1>2
<1>5. Sold \subseteq Sold' \cup {t}
  BY <1>2, <1>4 DEF Sold, t
<1>6. Sided'
  BY <1>2, <1>4 DEF HoldInv, Sided, ExitPCs
<1>7. OneWay'
  BY <1>2, <1>3 DEF HoldInv, OneWay
<1>8. Backed'
  <2> SUFFICES ASSUME NEW u \in Tickers, ~raced', positions'[u] # None
               PROVE  \/ u \in Settled'
                      \/ u \in Sold'
                      \/ Account'[u] >= positions'[u].contracts
    BY DEF Backed
  <2>1. u # t /\ positions'[u] = positions[u] /\ ~raced
    BY <1>2, <1>4
  <2> QED BY <1>3, <1>5, <2>1 DEF HoldInv, Backed
<1>9. Bought'
  <2> SUFFICES ASSUME ~raced', pc'["exec"] \in {"fill", "add"}
               PROVE  \/ opp'.ticker \in Settled' \/ opp'.ticker \in Sold'
                      \/ Account'[opp'.ticker] >= qty'
    BY DEF Bought, Account
  <2>1. self # "exec" /\ pc["exec"] \in {"fill", "add"} /\ ~raced
    BY <1>2, <1>4 DEF Tasks
  <2>2. opp.ticker \in Tickers /\ positions[opp.ticker] = None
    BY <2>1, OppSide DEF TypeInv, InHand, OppInHand, TickerFree
  <2>3. opp.ticker # t
    BY <1>2, <2>2
  <2> QED BY <1>2, <1>3, <1>5, <2>1, <2>2, <2>3 DEF HoldInv, Bought, Tasks
<1> QED BY <1>6, <1>7, <1>8, <1>9 DEF HoldInv

\* A purchase: what is filled is held.
LEMMA SendHeld ==
  ASSUME PlainExchange, TypeInv, HoldInv, Send
  PROVE  HoldInv'
<1> DEFINE t == opp.ticker
<1>1. /\ opp \in Opps /\ opp.side = SideOf(t) /\ t \in Tickers /\ qty \in Nat
      /\ pc["exec"] = "send"
  BY OppSide DEF Send, TypeInv, InHand, OppInHand, TypeOK, LocalsOK
<1>2. PICK f \in Fills(qty) :
        /\ Trade(t, Up(opp.side), f, qty - f)
        /\ \/ f > 0 /\ qty' = f /\ Goto("exec", "fill") /\ UNCHANGED <<now, opp>>
           \/ (f = 0 \/ "LostReply" \in EnvFaults) /\ EndIteration
  BY DEF Send, Promote
<1>3. /\ UNCHANGED <<positions, sale, reversed, result, raced>> /\ WorldOK
      /\ pc \in [Tasks -> ExitPCs \cup ExecPCs \cup ReconPCs]
  BY DEF Send, shared, TypeInv, TypeOK, ControlOK
<1>4. f \in Nat
  BY <1>1, <1>2 DEF Fills
<1> HIDE DEF t
<1>5. /\ resting' = resting /\ Account'[t] = Account[t] + f
      /\ Account[t] \in Int /\ Account[t] >= 0
      /\ \A u \in Tickers : u # t => Account'[u] = Account[u]
  <2>1. Trade(t, 1 * Up(SideOf(t)), f, qty - f)
    <3>1. 1 * Up(SideOf(t)) = Up(SideOf(t))
      BY UpType
    <3> QED BY <1>1, <1>2, <3>1
  <2>2. /\ resting' = resting /\ Account'[t] = Account[t] + 1 * f
        /\ Account[t] \in Int
        /\ \A u \in Tickers : u # t => Account'[u] = Account[u]
    BY <1>1, <1>3, <1>4, <2>1, TradeMoves
  <2> QED BY <1>1, <1>4, <2>2 DEF HoldInv, OneWay
<1>6. Settled' = Settled
  BY <1>3 DEF Settled
<1>7. /\ Sold' = Sold
      /\ pc'["exec"] \in {"fill", "add"} => f > 0 /\ qty' = f /\ opp' = opp
  BY <1>1, <1>2, <1>3 DEF Sold, Goto, EndIteration, Tasks
<1>8. Sided'
  <2>1. \A self \in Tasks : pc'[self] \in ExitPCs \cup {"dropped"} =>
                              pc[self] \in ExitPCs \cup {"dropped"}
    BY <1>1, <1>2, <1>3 DEF Goto, EndIteration, ExitPCs, Tasks
  <2> QED BY <1>3, <2>1 DEF HoldInv, Sided
<1>9. \A u \in Tickers :
        /\ resting'[u] = resting[u] /\ Account'[u] >= 0
        /\ \A n \in Nat : Account[u] >= n => Account'[u] >= n
  BY <1>4, <1>5 DEF HoldInv, OneWay
<1>10. Backed'
  <2>1. \A u \in Tickers : positions[u] # None => positions[u].contracts \in Nat
    BY DEF TypeInv, TypeOK, SharedOK, Positions
  <2> QED BY <1>3, <1>6, <1>7, <1>9, <2>1 DEF HoldInv, Backed
<1>11. Bought'
  <2>1. pc'["exec"] \in {"fill", "add"} => Account'[opp.ticker] >= qty'
    BY <1>4, <1>5, <1>7 DEF t
  <2>2. pc'["exec"] \in {"fill", "add"} => opp' = opp
    BY <1>7
  <2> QED BY <2>1, <2>2 DEF Bought, Account
<1> QED BY <1>8, <1>9, <1>10, <1>11 DEF HoldInv, OneWay

\* What was bought is tracked.
LEMMA AddHeld ==
  ASSUME PlainExchange, TypeInv, TypeInv', TickerFree, HoldInv, TrackerAdd
  PROVE  HoldInv'
<1> DEFINE t == opp.ticker
<1>1. /\ opp \in Opps /\ opp.side = SideOf(t) /\ t \in Tickers
      /\ pc["exec"] = "add"
  BY OppSide DEF TrackerAdd, TypeInv, InHand, OppInHand
<1>2. /\ positions' = [positions EXCEPT ![t] = NewPosition]
      /\ NewPosition.side = opp.side /\ NewPosition.contracts = qty
      /\ UNCHANGED <<sale, reversed, held, resting, result, raced, opp, qty>>
      /\ pc' = [pc EXCEPT !["exec"] = "lockin"]
      /\ pc \in [Tasks -> ExitPCs \cup ExecPCs \cup ReconPCs]
      /\ positions \in [Tickers -> Positions \cup {None}]
  BY DEF TrackerAdd, Add, NewPosition, Proceed, Goto, world, history, TypeInv,
         TypeOK, ControlOK, SharedOK
<1>3. /\ Account' = Account /\ Settled' = Settled
      /\ Sold' = Sold
      /\ pc'["exec"] = "lockin"
  BY <1>1, <1>2 DEF Account, Settled, Sold, Tasks
<1>4. /\ positions'[t] = NewPosition
      /\ \A u \in Tickers : u # t => positions'[u] = positions[u]
  BY <1>1, <1>2
<1>5. Sided'
  <2>1. \A self \in Tasks : pc'[self] \in ExitPCs \cup {"dropped"} =>
                              pc[self] \in ExitPCs \cup {"dropped"}
    BY <1>2 DEF ExitPCs, Tasks
  <2> QED BY <1>1, <1>2, <1>4, <2>1 DEF HoldInv, Sided
<1>6. OneWay'
  BY <1>2, <1>3 DEF HoldInv, OneWay
<1>7. Backed'
  <2> SUFFICES ASSUME NEW u \in Tickers, ~raced', positions'[u] # None
               PROVE  \/ u \in Settled'
                      \/ u \in Sold'
                      \/ Account'[u] >= positions'[u].contracts
    BY DEF Backed
  <2>1. CASE u = t
    BY <1>1, <1>2, <1>3, <1>4, <2>1 DEF HoldInv, Bought, Tasks
  <2>2. CASE u # t
    BY <1>2, <1>3, <1>4, <2>2 DEF HoldInv, Backed
  <2> QED BY <2>1, <2>2
<1>8. Bought'
  BY <1>3 DEF Bought
<1> QED BY <1>5, <1>6, <1>7, <1>8 DEF HoldInv

\* A settlement empties the account of its market.
LEMMA SettleHeld ==
  ASSUME TypeInv, HoldInv, NEW t \in Tickers, Settle(t)
  PROVE  HoldInv'
<1>1. /\ held' = [held EXCEPT ![t] = 0]
      /\ resting' = [resting EXCEPT ![t] = NoRest]
      /\ UNCHANGED <<positions, pc, sale, opp, qty, reversed, raced>>
      /\ WorldOK
  BY DEF Settle, shared, execLoc, history, TypeInv, TypeOK
<1>2. PICK side \in Sides : result' = [result EXCEPT ![t] = side]
  BY DEF Settle
<1>3. \A s \in Sides : s # None
  BY NoneAssumption
<1>4. t \in Settled' /\ Settled \subseteq Settled'
  BY <1>1, <1>2, <1>3 DEF Settled, WorldOK
<1>5. /\ \A u \in Tickers : u # t => Account'[u] = Account[u]
      /\ Account'[t] = 0
  BY <1>1, UpType DEF Account, WorldOK
<1>6. Sold' = Sold
  BY <1>1 DEF Sold
<1>7. Sided' /\ OneWay'
  BY <1>1, <1>5 DEF HoldInv, Sided, OneWay, WorldOK
<1>8. Backed'
  BY <1>1, <1>4, <1>5, <1>6 DEF HoldInv, Backed
<1>9. Bought'
  <2>1. opp' = opp /\ qty' = qty /\ raced' = raced /\ pc' = pc
    BY <1>1
  <2>2. pc["exec"] \in {"fill", "add"} => opp.ticker \in Tickers
    BY ExecutorAssumption DEF TypeInv, InHand, OppInHand, Opportunities
  <2> QED BY <1>4, <1>5, <1>6, <2>1, <2>2 DEF HoldInv, Bought, Tasks, Account
<1> QED BY <1>7, <1>8, <1>9 DEF HoldInv

\* Raising a peak changes neither the side nor the size of a position.
LEMMA PeakKeeps ==
  ASSUME NEW book \in Books, NEW t \in Tickers, NEW price, NEW u \in Tickers,
         book[u] # None
  PROVE  /\ UpdatePeak(book, t, price)[u].side = book[u].side
         /\ UpdatePeak(book, t, price)[u].contracts = book[u].contracts
         /\ UpdatePeak(book, t, price)[u].ticker = book[u].ticker
<1>1. book[u] \in Positions
  BY DEF Books
<1>2. CASE u = t /\ price > book[t].peak
  <2>1. UpdatePeak(book, t, price)[u] = [book[u] EXCEPT !.peak = price]
    BY <1>2 DEF UpdatePeak, Books
  <2> QED BY <1>1, <2>1 DEF Positions
<1>3. CASE ~(u = t /\ price > book[t].peak)
  BY <1>3 DEF UpdatePeak, Books
<1> QED BY <1>2, <1>3

\* Every step keeps the invariant.
LEMMA HoldStep ==
  ASSUME PlainExchange, TypeInv, TypeInv', TickerFree, HoldInv, Next
  PROVE  HoldInv'
<1> USE DEF TypeInv, TypeOK, ControlOK, Goto, Tasks, ExitPCs
<1>r. \A pos \in reversed : pos.side = SideOf(pos.ticker)
  BY DEF HoldInv, Sided
<1>k. positions \in Books /\ Keyed(positions)
  BY DEF SharedOK, Books, Keyed
<1>1. CASE Pop
  BY <1>1, HoldQuiet, <1>r
     DEF Pop, history, world
<1>2. CASE ReversedDone
  BY <1>2, HoldQuiet, <1>r
     DEF ReversedDone, Proceed, shared, history, world
<1>3. CASE ResetDaily
  BY <1>3, HoldQuiet, <1>r
     DEF ResetDaily, Proceed, world
<1>4. CASE SkipTracked
  BY <1>4, HoldQuiet, <1>r
     DEF SkipTracked, Proceed, EndIteration, shared, history, world
<1>5. CASE CheckRisk
  BY <1>5, HoldQuiet, <1>r
     DEF CheckRisk, Proceed, EndIteration, shared, history, world
<1>6. CASE GetBalance
  BY <1>6, HoldQuiet, <1>r
     DEF GetBalance, Proceed, EndIteration, shared, history, world
<1>7. CASE ThesisLock
  BY <1>7, HoldQuiet, <1>r
     DEF ThesisLock, Proceed, EndIteration, shared, history, world
<1>8. CASE LossSuppression
  BY <1>8, HoldQuiet, <1>r
     DEF LossSuppression, EndIteration, shared, history, world
<1>9. CASE SendFails
  BY <1>9, HoldQuiet, <1>r
     DEF SendFails, EndIteration, shared, world
<1>10. CASE GateFill
  BY <1>10, HoldQuiet, <1>r
     DEF GateFill, Proceed, history, world
<1>11. CASE LockThesis
  BY <1>11, HoldQuiet, <1>r
     DEF LockThesis, EndIteration, history, world
<1>12. CASE Wake
  BY <1>12, HoldQuiet, <1>r
     DEF Wake, shared, execLoc, history, world
<1>13. CASE FetchFails
  BY <1>13, HoldQuiet, <1>r
     DEF FetchFails, EndCycle, shared, execLoc, history, world
<1>14. CASE Fetch
  BY <1>14, HoldQuiet, <1>r
     DEF Fetch, shared, execLoc, history, world
<1>15. CASE Collect
  BY <1>15, HoldQuiet, <1>r
     DEF Collect, shared, execLoc, history, world
<1>16. CASE CloseDropped
  BY <1>16, HoldQuiet, <1>r
     DEF CloseDropped, execLoc, world
<1>17. CASE SettleDone
  BY <1>17, HoldQuiet, <1>r
     DEF SettleDone, shared, execLoc, history, world
<1>18. CASE SnapshotTracked
  BY <1>18, HoldQuiet, <1>r
     DEF SnapshotTracked, shared, execLoc, history, world
<1>19. CASE ScanSkip
  BY <1>19, HoldQuiet, <1>r
     DEF ScanSkip, shared, execLoc, history, world
<1>20. CASE ScanDone
  BY <1>20, HoldQuiet, <1>r
     DEF ScanDone, EndCycle, shared, execLoc, history, world
<1>21. CASE Pass
  BY <1>21, HoldQuiet, <1>r
     DEF Pass, shared, execLoc, history
<1>22. CASE SnapshotReversed
  <2>1. \A pos \in reversed' : pos.side = SideOf(pos.ticker)
    BY <1>22, <1>k DEF SnapshotReversed, Tracked, Keyed, HoldInv, Sided
  <2> QED BY <1>22, <2>1, HoldQuiet
          DEF SnapshotReversed, Proceed, shared, history, world
<1>23. CASE NextReversed
  BY <1>23, <1>r, HoldQuiet
     DEF NextReversed, StartExit, shared, history, world
<1>24. CASE DropUnlisted
  <2>1. PICK t \in pending :
          IF positions[t] = None
          THEN UNCHANGED <<positions, sale, pc>>
          ELSE /\ positions' = Remove(positions, t)
               /\ sale' = [sale EXCEPT !["recon"] =
                            [pos |-> positions[t], filled |-> 0, price |-> 0]]
               /\ Goto("recon", "dropped")
    BY <1>24 DEF DropUnlisted
  <2>2. /\ UNCHANGED <<held, resting, result, raced, opp, qty, reversed>>
        /\ pc["recon"] = "settle" /\ t \in Tickers
    BY <1>24 DEF DropUnlisted, execLoc, history, world, LocalsOK
  <2>3. CASE positions[t] = None
    BY <1>r, <2>1, <2>2, <2>3, HoldQuiet
  <2>4. CASE positions[t] # None
    <3>1. positions[t].side = SideOf(positions[t].ticker)
      BY <1>k, <2>2, <2>4 DEF Keyed, HoldInv, Sided
    <3>2. \A u \in Tickers : positions'[u] # None => positions'[u] = positions[u]
      BY <1>k, <2>1, <2>2, <2>4 DEF Remove, Books
    <3>3. /\ pc'["exec"] = pc["exec"] /\ sale'["exec"] = sale["exec"]
          /\ pc'["recon"] = "dropped" /\ sale'["recon"].pos = positions[t]
      BY <2>1, <2>4
    <3> QED BY <1>r, <2>2, <3>1, <3>2, <3>3, HoldQuiet
  <2> QED BY <2>3, <2>4
<1>25. CASE Scan
  <2>1. PICK t \in pending, bid \in Bids :
          /\ positions[t] # None
          /\ positions' = UpdatePeak(positions, t, bid)
          /\ \/ StartExit("recon", positions'[t])
             \/ UNCHANGED <<pc, sale>>
    BY <1>25 DEF Scan
  <2>2. /\ UNCHANGED <<held, resting, result, raced, opp, qty, reversed>>
        /\ pc["recon"] = "scan" /\ t \in Tickers /\ bid \in Nat
    BY <1>25, ExecutorAssumption
       DEF Scan, execLoc, history, world, LocalsOK
  <2>3. \A u \in Tickers : positions'[u] # None => positions[u] # None
    <3> DEFINE raised == UpdatePeak(positions, t, bid)
    <3>1. \A u \in Tickers : raised[u] = None <=> positions[u] = None
      BY <1>k, <2>2, PeakType
    <3> HIDE DEF raised
    <3> QED BY <2>1, <3>1 DEF raised
  <2>4. \A u \in Tickers : positions[u] # None =>
          /\ positions'[u].side = positions[u].side
          /\ positions'[u].contracts = positions[u].contracts
          /\ positions'[u].ticker = positions[u].ticker
    BY <1>k, <2>1, <2>2, PeakKeeps
  <2>5. positions'[t].side = SideOf(positions'[t].ticker)
    BY <1>k, <2>1, <2>2, <2>4 DEF Keyed, HoldInv, Sided
  <2>6. CASE StartExit("recon", positions'[t])
    <3>1. /\ pc'["exec"] = pc["exec"] /\ sale'["exec"] = sale["exec"]
          /\ pc'["recon"] = "sell" /\ sale'["recon"].pos = positions'[t]
      BY <2>6 DEF StartExit
    <3> HIDE DEF ExitPCs
    <3>2. "remove" \notin {pc["recon"], pc'["recon"]}
      BY <2>2, <3>1
    <3> QED BY <1>r, <2>2, <2>3, <2>4, <2>5, <3>1, <3>2, HoldQuiet
  <2>7. CASE UNCHANGED <<pc, sale>>
    BY <1>r, <2>2, <2>3, <2>4, <2>7, HoldQuiet
  <2> QED BY <2>1, <2>6, <2>7
<1>26. CASE Crash
  <2>1. (Account' = Account) /\ resting' = resting
    BY <1>26 DEF Crash, Account
  <2>2. \A t \in Tickers : positions'[t] = None
    BY <1>26 DEF Crash, EmptyBook
  <2>3. pc' = Started /\ reversed' = {}
    BY <1>26 DEF Crash
  <2> QED BY <2>1, <2>2, <2>3
          DEF HoldInv, Sided, OneWay, Backed, Bought, Started
<1>27. CASE Send
  BY <1>27, SendHeld
<1>28. CASE TrackerAdd
  BY <1>28, AddHeld
<1>29. ASSUME NEW self \in Tasks, SellFails(self) PROVE HoldInv'
  BY <1>29, <1>r, HoldQuiet
     DEF SellFails, Resume, shared, execLoc, history, world
<1>30. ASSUME NEW self \in Tasks, ExitBook(self) PROVE HoldInv'
  BY <1>30, <1>r, HoldQuiet DEF ExitBook, execLoc, world
<1>31. ASSUME NEW self \in Tasks, ExitRelock(self) PROVE HoldInv'
  BY <1>31, <1>r, HoldQuiet
     DEF ExitRelock, Resume, shared, execLoc, history, world
<1>32. ASSUME NEW self \in Tasks, Exit(self) PROVE HoldInv'
  BY <1>32, <1>29, <1>30, <1>31, SellHeld, RemoveHeld DEF Exit
<1>33. ASSUME NEW t \in Tickers PROVE ~LateFill(t)
  BY DEF LateFill, HoldInv, OneWay, NoRest
<1>34. CASE Exec
  BY <1>34, <1>1, <1>22, <1>23, <1>2, <1>32, <1>3, <1>4, <1>5, <1>6, <1>7,
     <1>8, <1>9, <1>27, <1>10, <1>28, <1>11 DEF Exec
<1>35. CASE Recon
  BY <1>35, <1>12, <1>13, <1>14, <1>15, <1>24, <1>16, <1>17, <1>18, <1>19,
     <1>25, <1>20, <1>32 DEF Recon
<1>36. CASE World
  BY <1>36, <1>21, <1>26, <1>33, SettleHeld DEF World
<1> QED BY <1>34, <1>35, <1>36 DEF Next

\* What is tracked is held: only what an order filled is promoted, and a
\* position is out of the tracker, or on its way out, once contracts of it were
\* sold, for any number of tickers, partial fills, settlements and crashes,
\* where replies arrive, orders do not rest and a ticker is traded on one side.
THEOREM Holding ==
  ASSUME PlainExchange
  PROVE  Spec => []HeldWhileTracked
<1>1. Init => HoldInv
  BY HoldInit
<1>2. IInv /\ IInv' /\ HoldInv /\ [Next]_vars => HoldInv'
  <2> SUFFICES ASSUME IInv, IInv', HoldInv, [Next]_vars PROVE HoldInv'
    OBVIOUS
  <2>1. CASE Next
    BY <2>1, HoldStep DEF IInv
  <2>2. CASE UNCHANGED vars
    BY <2>2, HoldQuiet
       DEF vars, shared, execLoc, world, history, HoldInv, Sided
  <2> QED BY <2>1, <2>2
<1>3. IInv /\ HoldInv => HeldWhileTracked
  <2> SUFFICES ASSUME IInv, HoldInv, ~raced, NEW t \in Tracked(positions)
               PROVE  \/ t \in Settled
                      \/ \E self \in Tasks :
                           pc[self] = "remove" /\ sale[self].pos.ticker = t
                      \/ OnSide(t, positions[t].side) >= positions[t].contracts
    BY DEF HeldWhileTracked
  <2>1. t \in Tickers /\ positions[t] # None
    BY DEF Tracked
  <2>2. CASE t \in Sold
    BY <2>2 DEF Sold
  <2>3. CASE Account[t] >= positions[t].contracts
    <3>1. positions[t].contracts \in Nat \ {0} /\ positions[t].side = SideOf(t)
      BY <2>1 DEF IInv, TypeInv, TypeOK, SharedOK, Positions, HoldInv, Sided
    <3>2. OnSide(t, positions[t].side) =
            IF Account[t] > 0 THEN Account[t] ELSE 0
      BY <2>1, <3>1 DEF OnSide, Account
    <3>3. Account[t] \in Int
      BY <2>1, UpType DEF Account, IInv, TypeInv, TypeOK, WorldOK
    <3> QED BY <2>3, <3>1, <3>2, <3>3
  <2> QED BY <2>1, <2>2, <2>3 DEF HoldInv, Backed
<1> QED BY <1>1, <1>2, <1>3, InvariantHolds, PTL DEF Spec
=============================================================================
