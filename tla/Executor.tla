------------------------------ MODULE Executor ------------------------------
(***************************************************************************)
(* The executor (services/executor/src/lib.rs and client.rs): two tokio      *)
(* tasks over shared state behind separate mutexes.                          *)
(*                                                                           *)
(*   exec   pops trade opportunities, sells positions the index moved        *)
(*          against, and buys;                                               *)
(*   recon  wakes every INTERVAL, drops the positions the exchange no longer *)
(*          lists, and sells those whose exit policy fires.                  *)
(*                                                                           *)
(* One action is one critical section or one exchange call, with the local   *)
(* computation that follows it; the tasks interleave between them, and time  *)
(* may pass at any point: no await of the code has a bound.  An opportunity  *)
(* that has been dealt with leaves the locals of its iteration reset.        *)
(***************************************************************************)
EXTENDS Integers, FiniteSets, RiskGate, PositionTracker, Sizing

CONSTANTS
  Opps,             \* the opportunities the signal service may send
  Bids,             \* best bids a market may show, 0 when there is none
  Balances,         \* account balances the exchange may report
  EnvFaults,        \* what may go wrong outside the process, see Faults
  ReentryLoss,      \* reentry_loss_threshold_cents
  THESIS_COOLDOWN,  \* THESIS_COOLDOWN_MS
  TRADE_WINDOW,     \* the 30_000 ms between two orders on a market
  INTERVAL,         \* the 60 s period of the reconciliation loop
  Forever,          \* u64::MAX
  MaxClock,         \* bound: the clock stops here
  MaxCrashes        \* bound: restarts of the process

\* Brti values are positive: 0 is what latest_brti holds before the first
\* opportunity.
Opportunities == [ticker: Tickers, side: Sides, price: Nat,
                  brti: Nat \ {0}, confidence: Nat, edge: Int]

\* LostReply: the exchange acts on an order whose response never arrives.
\* ErrorBody: the positions endpoint answers with JSON that has no
\*   "market_positions", which the client reads as an empty list.
\* PartialFill: an order fills in part.
\* Resting: the unfilled rest of an order stays on the exchange's book.
Faults == {"LostReply", "ErrorBody", "PartialFill", "Resting"}

ASSUME ExecutorAssumption ==
  /\ Opps \subseteq Opportunities
  /\ Bids \subseteq Nat
  /\ Balances \subseteq Nat
  /\ EnvFaults \subseteq Faults
  /\ ReentryLoss \in Nat
  /\ THESIS_COOLDOWN \in Nat
  /\ TRADE_WINDOW \in Nat
  /\ INTERVAL \in Nat
  /\ MaxClock \in Nat
  /\ MaxCrashes \in Nat
  /\ Forever \in Nat
  /\ Forever > MaxClock + THESIS_COOLDOWN

VARIABLES
  \* shared by the two tasks
  positions,   \* position_tracker
  gate,        \* risk_gate
  locks,       \* thesis_locks
  suppressed,  \* thesis_loss_suppressions: ticker and side to a deadline
  latestBrti,  \* latest_brti
  \* the tasks
  pc,          \* where each task is
  now,         \* the now / now_ms each task read
  sale,        \* execute_exit: the position being closed and its outcome
  opp,         \* exec: the opportunity in hand
  recently,    \* exec: recently_traded
  reversed,    \* exec: positions of the snapshot still to be sold
  qty,         \* exec: contracts to buy, then contracts bought
  due,         \* recon: the next tick of the interval
  brti,        \* recon: current_brti, read when the cycle began
  listed,      \* recon: kalshi_tickers
  pending,     \* recon: tickers left in the current loop
  \* the exchange
  clock,
  held,        \* net contracts per ticker: YES positive, NO negative
  resting,     \* contracts on order that would move the net up or down
  result,      \* the side that won each market, None while it is open
  crashes,
  \* history
  raced,       \* an exit closed a position that was already removed
  overrun,     \* orders sent in the current spell of a tripped loss limit
  ledger       \* what was really gained or lost on the latest day of a close

shared  == <<positions, gate, locks, suppressed, latestBrti>>
execLoc == <<opp, recently, reversed, qty>>
recLoc  == <<due, brti, listed, pending>>
world   == <<clock, held, resting, result, crashes>>
history == <<raced, overrun, ledger>>
vars == <<shared, pc, now, sale, execLoc, recLoc, world, history>>

Tasks == {"exec", "recon"}

\* The four places of execute_exit, the same for both tasks.
ExitPCs == {"sell", "remove", "book", "relock"}

ExecPCs == {"idle", "snapshot", "exits", "reset", "contains", "check",
            "balance", "lock", "suppress", "send", "fill", "add", "lockin"}

ReconPCs == {"wait", "fetch", "collect", "settle", "dropped", "snapshot",
             "scan"}

NoLock == [side |-> "Yes", until |-> 0]   \* 0 is past: as if absent

NoRest == [up |-> 0, down |-> 0]

Sales == [pos: Positions, filled: Nat, price: Nat]

SharedOK ==
  /\ positions \in [Tickers -> Positions \cup {None}]
  /\ \A t \in Tickers : positions[t] # None => positions[t].ticker = t
  /\ gate \in Gates
  /\ locks \in [Tickers -> [side: Sides, until: Nat]]
  /\ suppressed \in [Tickers -> [Sides -> Nat]]
  /\ latestBrti \in Nat

ControlOK ==
  /\ pc \in [Tasks -> ExitPCs \cup ExecPCs \cup ReconPCs]
  /\ pc["exec"] \in ExitPCs \cup ExecPCs
  /\ pc["recon"] \in ExitPCs \cup ReconPCs
  /\ now \in [Tasks -> Nat]
  /\ sale \in [Tasks -> Sales \cup {None}]

LocalsOK ==
  /\ opp \in Opps \cup {None}
  /\ recently \in [Tickers -> Int]
  /\ reversed \subseteq Positions
  /\ qty \in Nat
  /\ due \in Nat /\ brti \in Nat
  /\ listed \subseteq Tickers /\ pending \subseteq Tickers

WorldOK ==
  /\ clock \in 0 .. MaxClock
  /\ held \in [Tickers -> Int]
  /\ resting \in [Tickers -> [up: Nat, down: Nat]]
  /\ result \in [Tickers -> Sides \cup {None}]
  /\ crashes \in 0 .. MaxCrashes

HistoryOK ==
  /\ raced \in BOOLEAN
  /\ overrun \in Nat
  /\ ledger \in [day: Nat, pnl: Int]

TypeOK == SharedOK /\ ControlOK /\ LocalsOK /\ WorldOK /\ HistoryOK

\* What a fresh process holds in its maps.
NoLocks     == [t \in Tickers |-> NoLock]
NoneLost    == [t \in Tickers |-> [s \in Sides |-> 0]]
NeverTraded == [t \in Tickers |-> -TRADE_WINDOW]
Started     == [self \in Tasks |-> IF self = "exec" THEN "idle" ELSE "wait"]

Init ==
  /\ positions = EmptyBook /\ gate = NewGate(0)
  /\ locks = NoLocks /\ suppressed = NoneLost /\ latestBrti = 0
  /\ pc = Started
  /\ now = [self \in Tasks |-> 0] /\ sale = [self \in Tasks |-> None]
  /\ opp = None /\ recently = NeverTraded /\ reversed = {} /\ qty = 0
  /\ due = INTERVAL /\ brti = 0 /\ listed = {} /\ pending = {}
  /\ clock = 0
  /\ held = [t \in Tickers |-> 0]
  /\ resting = [t \in Tickers |-> NoRest]
  /\ result = [t \in Tickers |-> None]
  /\ crashes = 0
  /\ raced = FALSE /\ overrun = 0 /\ ledger = [day |-> 0, pnl |-> 0]

Goto(self, label) == pc' = [pc EXCEPT ![self] = label]

-----------------------------------------------------------------------------
(* The exchange, as client.rs sees it. *)

Settled == {t \in Tickers : result[t] # None}

\* Buying YES or selling NO moves the net position up.
Up(side) == IF side = "Yes" THEN 1 ELSE -1

OnSide(t, side) == IF Up(side) * held[t] > 0 THEN Up(side) * held[t] ELSE 0

\* How much of an order for n contracts may fill at once.
Fills(n) == IF "PartialFill" \in EnvFaults THEN 0 .. n ELSE {0, n}

\* Trade n contracts and leave the rest on the book: dir is +1 or -1.
Trade(t, dir, filled, rest) ==
  /\ held' = [held EXCEPT ![t] = @ + dir * filled]
  /\ resting' = IF "Resting" \notin EnvFaults THEN resting
                ELSE IF dir > 0 THEN [resting EXCEPT ![t].up = @ + rest]
                                ELSE [resting EXCEPT ![t].down = @ + rest]

\* A resting contract is matched; no task is told.
LateFill(t) ==
  /\ t \notin Settled
  /\ \/ /\ resting[t].up > 0
        /\ resting' = [resting EXCEPT ![t].up = @ - 1]
        /\ held' = [held EXCEPT ![t] = @ + 1]
     \/ /\ resting[t].down > 0
        /\ resting' = [resting EXCEPT ![t].down = @ - 1]
        /\ held' = [held EXCEPT ![t] = @ - 1]
  /\ UNCHANGED <<shared, pc, now, sale, execLoc, recLoc, clock, result,
                 crashes, history>>

\* A market settles at its close: the exchange pays out and lists it no more.
Settle(t) ==
  /\ t \notin Settled
  /\ clock >= ClosesAt[t]
  /\ \E side \in Sides : result' = [result EXCEPT ![t] = side]
  /\ held' = [held EXCEPT ![t] = 0]
  /\ resting' = [resting EXCEPT ![t] = NoRest]
  /\ UNCHANGED <<shared, pc, now, sale, execLoc, recLoc, clock, crashes,
                 history>>

Pass ==
  /\ clock < MaxClock
  /\ clock' = clock + 1
  /\ UNCHANGED <<shared, pc, now, sale, execLoc, recLoc, held, resting,
                 result, crashes, history>>

\* The process dies and starts again; nothing of it was on disk.
Crash ==
  /\ crashes < MaxCrashes
  /\ crashes' = crashes + 1
  /\ UNCHANGED <<clock, held, resting, result>>
  /\ positions' = EmptyBook /\ gate' = NewGate(clock)
  /\ locks' = NoLocks /\ suppressed' = NoneLost /\ latestBrti' = 0
  /\ pc' = Started
  /\ now' = [self \in Tasks |-> 0] /\ sale' = [self \in Tasks |-> None]
  /\ opp' = None /\ recently' = NeverTraded /\ reversed' = {} /\ qty' = 0
  /\ due' = clock + INTERVAL /\ brti' = 0 /\ listed' = {} /\ pending' = {}
  /\ raced' = FALSE /\ overrun' = 0 /\ ledger' = [day |-> 0, pnl |-> 0]

-----------------------------------------------------------------------------
(* execute_exit, run by either task: sell, then remove, book and relock in   *)
(* three critical sections.                                                  *)

StartExit(self, pos) ==
  /\ Goto(self, "sell")
  /\ sale' = [sale EXCEPT ![self] = [pos |-> pos, filled |-> 0, price |-> 0]]

\* execute_exit returns to the loop that called it.
Resume(self) ==
  /\ Goto(self, IF self = "exec" THEN "exits" ELSE "scan")
  /\ sale' = [sale EXCEPT ![self] = None]

\* No bid, an error, or a market that is closed: the position is kept.
SellFails(self) ==
  /\ pc[self] = "sell"
  /\ Resume(self)
  /\ UNCHANGED <<shared, now, execLoc, recLoc, world, history>>

\* exit_position: fetch the bid, sell at it.  The exchange fills no more than
\* the account holds.
Sell(self) ==
  LET pos == sale[self].pos
      t   == pos.ticker
  IN  /\ pc[self] = "sell"
      /\ t \notin Settled
      /\ \E bid \in Bids \ {0}, f \in Fills(pos.contracts) :
           /\ f <= OnSide(t, pos.side)
           /\ Trade(t, -Up(pos.side), f, pos.contracts - f)
           /\ \/ /\ f > 0
                 /\ Goto(self, "remove")
                 /\ sale' = [sale EXCEPT ![self] =
                               [pos |-> pos, filled |-> f,
                                price |-> WholeCents(bid)]]
              \/ /\ f = 0 \/ "LostReply" \in EnvFaults
                 /\ Resume(self)
      /\ UNCHANGED <<shared, now, execLoc, recLoc, clock, result, crashes,
                     history>>

\* The result of tracker.remove is not looked at.
ExitRemove(self) ==
  LET t == sale[self].pos.ticker
  IN  /\ pc[self] = "remove"
      /\ positions' = Remove(positions, t)
      /\ raced' = (raced \/ positions[t] = None)
      /\ Goto(self, "book")
      /\ UNCHANGED <<gate, locks, suppressed, latestBrti, now, sale, execLoc,
                     recLoc, world, overrun, ledger>>

\* History: enter an amount in the ledger of the day it is realised on.
Realise(amount) ==
  LET day == clock \div DayLength
  IN  ledger' = IF day > ledger.day THEN [day |-> day, pnl |-> amount]
                ELSE [ledger EXCEPT !.pnl = @ + amount]

\* The sent-while-halted counter is kept only while the limit is tripped.
KeepOverrun == overrun' = IF Halted(gate') THEN overrun ELSE 0

\* One section of the gate, the suppression inserted inside it.
ExitBook(self) ==
  LET pos == sale[self].pos
      pnl == (sale[self].price - pos.entry) * sale[self].filled
  IN  /\ pc[self] = "book"
      /\ gate' = RecordPnl(RecordClose(gate), pnl)
      /\ suppressed' = IF pnl < 0 /\ -pnl >= ReentryLoss
                       THEN [suppressed EXCEPT ![pos.ticker][pos.side] =
                               clock + THESIS_COOLDOWN]
                       ELSE suppressed
      /\ KeepOverrun
      /\ Realise(pnl)
      /\ Goto(self, "relock")
      /\ UNCHANGED <<positions, locks, latestBrti, now, sale, execLoc, recLoc,
                     world, raced>>

ExitRelock(self) ==
  LET pos == sale[self].pos
  IN  /\ pc[self] = "relock"
      /\ locks' = [locks EXCEPT ![pos.ticker] =
                     [side |-> pos.side, until |-> clock + THESIS_COOLDOWN]]
      /\ Resume(self)
      /\ UNCHANGED <<positions, gate, suppressed, latestBrti, now, execLoc,
                     recLoc, world, history>>

Exit(self) ==
  \/ SellFails(self) \/ Sell(self)
  \/ ExitRemove(self) \/ ExitBook(self) \/ ExitRelock(self)

-----------------------------------------------------------------------------
(* exec: one iteration of the loop of run, from the pop to the next pop. *)

Proceed(label) == Goto("exec", label) /\ UNCHANGED <<now, opp, qty>>

\* continue, or the end of the loop body
EndIteration ==
  /\ Goto("exec", "idle")
  /\ now' = [now EXCEPT !["exec"] = 0]
  /\ opp' = None
  /\ qty' = 0

Pop ==
  /\ pc["exec"] = "idle"
  /\ \E o \in Opps :
       /\ opp' = o
       /\ latestBrti' = o.brti
  /\ now' = [now EXCEPT !["exec"] = clock]
  /\ Goto("exec", "snapshot")
  /\ UNCHANGED <<positions, gate, locks, suppressed, sale, recently, reversed,
                 qty, recLoc, world, history>>

\* check_brti_reversals clones the map, then walks the clone.
SnapshotReversed ==
  /\ pc["exec"] = "snapshot"
  /\ reversed' = {pos \in {positions[t] : t \in Tracked(positions)} :
                    Reversed(pos, opp.brti)}
  /\ Proceed("exits")
  /\ UNCHANGED <<shared, sale, recently, recLoc, world, history>>

NextReversed ==
  /\ pc["exec"] = "exits"
  /\ \E pos \in reversed :
       /\ reversed' = reversed \ {pos}
       /\ StartExit("exec", pos)
  /\ UNCHANGED <<shared, now, opp, recently, qty, recLoc, world, history>>

ReversedDone ==
  /\ pc["exec"] = "exits"
  /\ reversed = {}
  /\ Proceed("reset")
  /\ UNCHANGED <<shared, sale, recently, reversed, recLoc, world, history>>

ResetDaily ==
  /\ pc["exec"] = "reset"
  /\ gate' = MaybeResetDaily(gate, now["exec"])
  /\ KeepOverrun
  /\ Proceed("contains")
  /\ UNCHANGED <<positions, locks, suppressed, latestBrti, sale, recently,
                 reversed, recLoc, world, raced, ledger>>

\* Mutation: entries on a ticker already held are let through.
RefusedByWindow == now["exec"] - recently[opp.ticker] < TRADE_WINDOW

\* The ticker is held, or was traded within the window.
TickerRefused ==
  \/ opp.ticker \in Tracked(positions)
  \/ now["exec"] - recently[opp.ticker] < TRADE_WINDOW

\* If the ticker is not refused its window starts now, whatever becomes of the
\* opportunity.
SkipTracked ==
  /\ pc["exec"] = "contains"
  /\ IF TickerRefused
     THEN EndIteration /\ UNCHANGED recently
     ELSE /\ recently' = [recently EXCEPT ![opp.ticker] = now["exec"]]
          /\ Proceed("check")
  /\ UNCHANGED <<shared, sale, reversed, recLoc, world, history>>

CheckRisk ==
  /\ pc["exec"] = "check"
  /\ IF Passes(gate, opp) THEN Proceed("balance") ELSE EndIteration
  /\ UNCHANGED <<shared, sale, recently, reversed, recLoc, world, history>>

\* get_balance may fail; the amount it returns is chosen where it is used.
GetBalance ==
  /\ pc["exec"] = "balance"
  /\ \/ InPriceBand(opp.price) /\ Proceed("lock")
     \/ EndIteration
  /\ UNCHANGED <<shared, sale, recently, reversed, recLoc, world, history>>

ThesisLock ==
  LET lock == locks[opp.ticker]
  IN  /\ pc["exec"] = "lock"
      /\ IF lock.side # opp.side /\ now["exec"] < lock.until
         THEN EndIteration
         ELSE Proceed("suppress")
      /\ UNCHANGED <<shared, sale, recently, reversed, recLoc, world, history>>

\* Mutation: the deadline of the other side of the market is looked up.
OtherThesisSuppressed ==
  \E side \in Sides \ {opp.side} :
    now["exec"] < suppressed[opp.ticker][side]

ThesisSuppressed == now["exec"] < suppressed[opp.ticker][opp.side]

\* The suppression of a losing thesis, then the sizing of the order.
LossSuppression ==
  /\ pc["exec"] = "suppress"
  /\ IF ThesisSuppressed
     THEN EndIteration
     ELSE \E b \in Balances :
            LET n == Contracts(opp.edge, b, opp.price)
            IN  IF n = 0 THEN EndIteration
                ELSE /\ qty' = n
                     /\ Goto("exec", "send")
                     /\ UNCHANGED <<now, opp>>
  /\ UNCHANGED <<shared, sale, recently, reversed, recLoc, world, history>>

CountOverrun == overrun' = IF Halted(gate) THEN overrun + 1 ELSE 0

\* place_order fails and the exchange has done nothing.
SendFails ==
  /\ pc["exec"] = "send"
  /\ EndIteration
  /\ CountOverrun
  /\ UNCHANGED <<shared, sale, recently, reversed, recLoc, world, raced,
                 ledger>>

\* Mutation: the size asked for is promoted.
PromoteRequest(requested, filled) == requested

\* Mutation: what is left of the order is promoted.
PromoteRemaining(requested, filled) == requested - filled

\* The size a position is opened with.
Promote(requested, filled) == filled

\* place_order: only what the response says was filled is promoted.
Send ==
  /\ pc["exec"] = "send"
  /\ opp.ticker \notin Settled
  /\ \E f \in Fills(qty) :
       /\ Trade(opp.ticker, Up(opp.side), f, qty - f)
       /\ \/ /\ f > 0
             /\ qty' = Promote(qty, f)
             /\ Goto("exec", "fill")
             /\ UNCHANGED <<now, opp>>
          \/ /\ f = 0 \/ "LostReply" \in EnvFaults
             /\ EndIteration
  /\ CountOverrun
  /\ UNCHANGED <<shared, sale, recently, reversed, recLoc, clock, result,
                 crashes, raced, ledger>>

GateFill ==
  /\ pc["exec"] = "fill"
  /\ gate' = RecordFill(gate)
  /\ Proceed("add")
  /\ UNCHANGED <<positions, locks, suppressed, latestBrti, sale, recently,
                 reversed, recLoc, world, history>>

NewPosition ==
  [ticker |-> opp.ticker, side |-> opp.side, contracts |-> qty,
   entry |-> LimitPrice(opp.price), peak |-> LimitPrice(opp.price),
   brti |-> opp.brti, opened |-> now["exec"]]

TrackerAdd ==
  /\ pc["exec"] = "add"
  /\ positions' = Add(positions, NewPosition)
  /\ Proceed("lockin")
  /\ UNCHANGED <<gate, locks, suppressed, latestBrti, sale, recently, reversed,
                 recLoc, world, history>>

LockThesis ==
  /\ pc["exec"] = "lockin"
  /\ locks' = [locks EXCEPT ![opp.ticker] =
                 [side |-> opp.side, until |-> Forever]]
  /\ EndIteration
  /\ UNCHANGED <<positions, gate, suppressed, latestBrti, sale, recently,
                 reversed, recLoc, world, history>>

Exec ==
  \/ Pop \/ SnapshotReversed \/ NextReversed \/ ReversedDone \/ Exit("exec")
  \/ ResetDaily \/ SkipTracked \/ CheckRisk \/ GetBalance \/ ThesisLock
  \/ LossSuppression \/ SendFails \/ Send \/ GateFill \/ TrackerAdd
  \/ LockThesis

-----------------------------------------------------------------------------
(* recon: one cycle of reconciliation_loop. *)

\* continue, or the end of the cycle: wait for the next tick.
EndCycle ==
  /\ Goto("recon", "wait")
  /\ now' = [now EXCEPT !["recon"] = 0]
  /\ brti' = 0
  /\ listed' = {}
  /\ pending' = {}

\* A tick that is late is followed at once by the ones it delayed.
Wake ==
  /\ pc["recon"] = "wait"
  /\ clock >= due
  /\ due' = due + INTERVAL
  /\ brti' = latestBrti
  /\ now' = [now EXCEPT !["recon"] = clock]
  /\ Goto("recon", "fetch")
  /\ UNCHANGED <<shared, sale, execLoc, listed, pending, world, history>>

FetchFails ==
  /\ pc["recon"] = "fetch"
  /\ EndCycle
  /\ UNCHANGED <<shared, sale, execLoc, due, world, history>>

\* get_open_positions: the tickers with a net position at this moment.
Fetch ==
  /\ pc["recon"] = "fetch"
  /\ \/ listed' = {t \in Tickers : held[t] # 0}
     \/ "ErrorBody" \in EnvFaults /\ listed' = {}
  /\ Goto("recon", "collect")
  /\ UNCHANGED <<shared, now, sale, execLoc, due, brti, pending, world,
                 history>>

\* Mutation: the membership test is the wrong way round.
ListedStill == Tracked(positions) \cap listed

Unlisted == Tracked(positions) \ listed

\* The tickers tracked by now, of which those not listed are to be dropped.
Collect ==
  /\ pc["recon"] = "collect"
  /\ pending' = Unlisted
  /\ listed' = {}
  /\ Goto("recon", "settle")
  /\ UNCHANGED <<shared, now, sale, execLoc, due, brti, world, history>>

\* Remove one of them; nothing more happens if it is gone already.
DropUnlisted ==
  /\ pc["recon"] = "settle"
  /\ \E t \in pending :
       /\ pending' = pending \ {t}
       /\ IF positions[t] = None
          THEN UNCHANGED <<positions, sale, pc>>
          ELSE /\ positions' = Remove(positions, t)
               /\ sale' = [sale EXCEPT !["recon"] =
                            [pos |-> positions[t], filled |-> 0, price |-> 0]]
               /\ Goto("recon", "dropped")
  /\ UNCHANGED <<gate, locks, suppressed, latestBrti, now, execLoc, due, brti,
                 listed, world, history>>

\* What a settled position paid over its cost.
Payout(pos) ==
  ((IF result[pos.ticker] = pos.side THEN 100 ELSE 0) - pos.entry)
    * pos.contracts

\* Free the slot and, inside the same section, start the cooldown.  The gate
\* is told of no gain or loss.
CloseDropped ==
  LET pos == sale["recon"].pos
  IN  /\ pc["recon"] = "dropped"
      /\ gate' = RecordClose(gate)
      /\ locks' = [locks EXCEPT ![pos.ticker] =
                    [side |-> pos.side,
                     until |-> now["recon"] + THESIS_COOLDOWN]]
      /\ sale' = [sale EXCEPT !["recon"] = None]
      /\ IF pos.ticker \in Settled THEN Realise(Payout(pos))
                                 ELSE UNCHANGED ledger
      /\ Goto("recon", "settle")
      /\ UNCHANGED <<positions, suppressed, latestBrti, now, execLoc, recLoc,
                     world, raced, overrun>>

SettleDone ==
  /\ pc["recon"] = "settle"
  /\ pending = {}
  /\ Goto("recon", "snapshot")
  /\ UNCHANGED <<shared, now, sale, execLoc, recLoc, world, history>>

SnapshotTracked ==
  /\ pc["recon"] = "snapshot"
  /\ pending' = Tracked(positions)
  /\ Goto("recon", "scan")
  /\ UNCHANGED <<shared, now, sale, execLoc, due, brti, listed, world, history>>

\* The bids cannot be fetched, or the position has gone since the snapshot.
ScanSkip ==
  /\ pc["recon"] = "scan"
  /\ \E t \in pending : pending' = pending \ {t}
  /\ UNCHANGED <<shared, pc, now, sale, execLoc, due, brti, listed, world,
                 history>>

\* Raise the peak to the bid, then apply the exit policy to what is tracked
\* now, with the index and the time read when the cycle began.
Scan ==
  /\ pc["recon"] = "scan"
  /\ \E t \in pending, bid \in Bids :
       /\ positions[t] # None
       /\ pending' = pending \ {t}
       /\ positions' = UpdatePeak(positions, t, bid)
       /\ IF ShouldExit(positions'[t], bid, brti, now["recon"])
          THEN StartExit("recon", positions'[t])
          ELSE UNCHANGED <<pc, sale>>
  /\ UNCHANGED <<gate, locks, suppressed, latestBrti, now, execLoc, due, brti,
                 listed, world, history>>

ScanDone ==
  /\ pc["recon"] = "scan"
  /\ pending = {}
  /\ EndCycle
  /\ UNCHANGED <<shared, sale, execLoc, due, world, history>>

Recon ==
  \/ Wake \/ FetchFails \/ Fetch \/ Collect \/ DropUnlisted \/ CloseDropped
  \/ SettleDone \/ SnapshotTracked \/ ScanSkip \/ Scan \/ ScanDone
  \/ Exit("recon")

World == Pass \/ Crash \/ \E t \in Tickers : LateFill(t) \/ Settle(t)

Next == Exec \/ Recon \/ World

Spec == Init /\ [][Next]_vars

-----------------------------------------------------------------------------
(* Correctness. *)

\* Slots of the gate whose position is on its way in or out of the tracker.
SlotsInFlight ==
  Cardinality({self \in Tasks : pc[self] \in {"add", "book", "dropped"}})

\* No slot leaks: the gate never counts more positions than are tracked or in
\* flight between a tracker section and a gate section, under every
\* interleaving of the two tasks.  A leaked slot is never freed again, since
\* reconciliation does not recount: enough of them stop all trading.
\* (record_fill before add, remove before record_close: lib.rs 298-326,
\* 413-421, 525-531.)
GateNeverOvercounts ==
  gate.open <= Cardinality(Tracked(positions)) + SlotsInFlight

\* As long as no exit has closed a position somebody else had removed, the
\* gate counts exactly the tracked positions and those in flight.
GateExact ==
  ~raced => gate.open = Cardinality(Tracked(positions)) + SlotsInFlight

\* max_open_positions bounds the tracker too, although the check and the fill
\* are separated by two exchange calls and three critical sections.
TrackedWithinLimit == ~raced => Cardinality(Tracked(positions)) <= MaxOpen

\* A tracked position of a market that has not settled is really held, unless
\* its sale is being recorded: what the exit policy watches exists.  (strict
\* fill promotion, lib.rs 295-326; it needs replies that arrive and orders
\* that do not rest, one side per ticker, and no exit that raced: such an exit
\* may have sold the contracts of the entry that followed.)
HeldWhileTracked ==
  ~raced => \A t \in Tracked(positions) :
    \/ t \in Settled
    \/ \E self \in Tasks : pc[self] = "remove" /\ sale[self].pos.ticker = t
    \/ OnSide(t, positions[t].side) >= positions[t].contracts

\* The daily halt lets at most one order through: the one already past its
\* check when the other task booked the loss.  (risk.rs 82-87, read at lib.rs
\* 168-171 and used at 290.)
HaltLetsOneThrough == overrun <= 1

\* An order past the suppression check contradicts no suppression older than
\* its own opportunity: only a loss booked after the opportunity was popped
\* can suppress a thesis that is being traded.  (lib.rs 234-243, 536-543)
LossesSuppressReentry ==
  pc["exec"] \in {"send", "fill", "add", "lockin"} =>
    LET until == suppressed[opp.ticker][opp.side]
    IN  until <= now["exec"] \/ until >= now["exec"] + THESIS_COOLDOWN

\* The tracker as a whole goes through the lifecycle PositionBook describes:
\* no entry overwrites an open position, an open position changes in nothing
\* but a rising peak, and it is closed before the ticker is entered again.
\* (the skip at lib.rs 148-157, valid at the add of 313-326 although the
\* tracker is unlocked in between)
Book == INSTANCE PositionBook WITH book <- positions

RefinesPositionBook == Book!Spec

-----------------------------------------------------------------------------
(* Statements of the documentation that the code does not keep. *)

\* "Maximum number of concurrently open positions" (risk.rs:12)
OpenPositionsBounded == Cardinality(Tracked(positions)) <= MaxOpen

\* "Settle positions no longer in Kalshi's unsettled list" (lib.rs:411): what
\* is dropped is not held any more.
OnlySettledAreDropped ==
  [][\A t \in Tickers :
       pc["recon"] = "settle" /\ positions[t] # None /\ positions'[t] = None
         => OnSide(t, positions[t].side) = 0]_vars

\* "Lock thesis side while position is active." (lib.rs:327): a lock without
\* a deadline belongs to a position that is open or being closed.
PermanentLockHasPosition ==
  \A t \in Tickers :
    locks[t].until = Forever =>
      \/ positions[t] # None
      \/ \E self \in Tasks : /\ pc[self] \in {"book", "relock", "dropped"}
                             /\ sale[self].pos.ticker = t

\* "Halt trading if cumulative daily loss exceeds this" (risk.rs:6): an
\* opportunity that passes the gate finds less than the limit lost that day.
HaltCoversDailyLoss ==
  [][( /\ pc["exec"] = "check" /\ pc'["exec"] = "balance"
       /\ now["exec"] \div DayLength = ledger.day )
     => ledger.pnl > -MaxDailyLoss]_vars

-----------------------------------------------------------------------------
(* Progress.  The steps of both tasks follow one another as long as the      *)
(* exchange answers every call (no call has a timeout: lib.rs awaits them    *)
(* all), and a positions request that is repeated for ever succeeds in the   *)
(* end.  Nothing is assumed of the signal service, of time or of markets.    *)

FairSpec ==
  /\ Spec
  /\ WF_vars(Exec /\ pc["exec"] # "idle")
  /\ WF_vars(Recon)
  /\ SF_vars(Fetch)

\* A settled market leaves the tracker for good.
SettledLeaveTracker ==
  \A t \in Tickers : t \in Settled ~> [](positions[t] = None)

\* Once every market has settled the gate frees every slot for good.
SettledFreeSlots == Settled = Tickers ~> [](gate.open = 0)
=============================================================================
