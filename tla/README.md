# Verification of btc-kalshi

TLA+ models of the trading system in this repository, TLC configurations that
check them on small instances, and TLAPS proofs of what matters most for every
value of the constants. Line numbers refer to the files of the repository;
`lib.rs` without a path is `services/executor/src/lib.rs`.

Contents: [the system](#1-the-system), [the modules](#2-the-modules),
[the runs](#3-the-runs), [fairness](#4-fairness),
[what the code does not keep](#5-statements-the-code-does-not-keep),
[the proofs](#6-the-proofs), [what is not modelled](#7-what-is-not-modelled),
[the plan](#8-the-plan).

## 1. The system

```
exchange feeds --mpsc--> ingest --ring 65,536--> reconstructor
   --ring 16,384--> signal --ring 1,024--> executor --REST--> Kalshi
        all of them --call, one mutex per file--> historian (a JSONL file per type and day)
```

Every stage is a tokio task (or a few); the rings are single producer, single
consumer, and a stage that finds the next ring full drops what it has. Nothing
flows back. The stage whose tasks share state is the executor: it is modelled
in most detail. The stages before it keep their state to one task each; what
makes them hard is what reaches them, late, thinned out and out of order. With
`TRADING_ENABLED=false` the signal service does not forward opportunities but
compares the index with the market and writes what it sees to a file.

| component | state | operations | talks to | hard | correct when |
|---|---|---|---|---|---|
| **executor** (`services/executor/src/lib.rs`) | position tracker, risk gate, thesis locks, loss suppressions, latest index, each behind its own mutex (the index an atomic); per task: the opportunity, the `recently_traded` map, the clock read at the start of an iteration | task `run`: pop, sell what the index moved against, reset the day, skip, check, balance, lock, suppress, size, order, fill, add, lock; task `reconciliation_loop`: every 60 s fetch the exchange's positions, drop what it no longer lists, apply the exit policy to the rest | pops the signal ring, calls Kalshi, logs to the historian | two tasks close the same position; checks whose result is used several awaits later; orders that fill in part, rest, or whose reply is lost; a restart that forgets everything | the slot counter equals the positions; the limit holds; a position lives one life; a halt stops orders; a loss suppresses its thesis; a settled market frees its slot |
| **risk gate** (`risk.rs`) | open positions (u8), the day's P&L, last reset | `check`, `record_fill`, `record_close`, `record_pnl`, `maybe_reset_daily` | called by both tasks under a mutex | saturation, the day boundary | see above |
| **position tracker** (`position_tracker.rs`) | map ticker → position with its peak | `add`, `remove`, `contains`, `update_peak`, `check_exit` | called by both tasks under a mutex | five exit conditions in order, along a path of prices | an armed gain is kept, no hole in the hold band |
| **sizing** (`sizing.rs`) | none | `kelly_fraction`, `compute_contracts` | called by `run` | rounding and caps | cost within the cap but for a cent a contract, affordable, textbook Kelly |
| **Kalshi client** (`client.rs`, `auth.rs`) | none that lasts | orders, exits, positions, bids, balance; a signature per request | the exchange | no timeout, error bodies, partial fills | only what the reply confirms is promoted |
| **signal** (`services/signal/src`) | spike window (30 s, $15 up, $25 down), delta ring (20 samples), last direction and confirmations, cooldown per ticker, market list of the poller | `SignalEngine::ingest`, the poller's fetch | reads the index ring, writes the opportunity ring, shares the market list with the poller | cooldown started for an opportunity that is then dropped; estimates that come out of order; two confirmations reset by a neutral estimate | no emission against a detector, none before two confirmations, one per cooldown |
| **reconstructor** (`services/reconstructor/src`) | a 60 s trade window per exchange | add, evict, VWMP, mean over live feeds | reads the trade ring, writes the index ring | windows trimmed only by their own trades, exchanges that fall silent or get ahead | windows and medians exact, the quorum fresh, no old trade in the index |
| **ingest** (`services/ingest/src`) | the merge channel; a connection and a backoff per feed | connect, subscribe, normalize, merge, sleep, reconnect | exchanges, trade ring | connections that fail or end at any time, replays after a subscription, flawed entries, drops under load | a trade that is told of as it is made comes once and after all before it, a flaw costs no more than its entry or its message, a feed comes back, the waiting is bounded |
| **historian** (`data/historian/src`) | the open file and its date | record, rotate | called by all stages, synchronously, under a mutex per file | rotation at midnight, a file that cannot be opened, a write that is torn | a record is in the file of its day, a torn write costs itself and one line more |
| **observation mode** (`CompareTracker`, signal `lib.rs` 157–342) | the previous estimate, the last move, the last price per market, what was printed last | `update` with each estimate | the historian | matching a price with a move that came estimates earlier; a throttle against what was printed, not what was seen | a lead is backed by a move, a drift is printed |
| **validator** (`reconstructor/src/validator.rs`) | – | – | called by nothing | – | – |
| **backtest** (`data/backtest`) | – | offline Python | – | – | – |

## 2. The modules

| module | stands for |
|---|---|
| `RiskGate` | `risk.rs`: the gate as a record, one operator per method |
| `PositionTracker` | `position_tracker.rs`: the book as a function from tickers to positions or `None`, and the five exit conditions |
| `Sizing` | `sizing.rs`: Kelly and the caps, and prices as whole cents |
| `Executor` | `lib.rs` and the calls of `client.rs`: both tasks over the three modules above, with the exchange, time and crashes around them |
| `PositionBook` | the abstract specification of the tracker: open, raise the peak, close, forget |
| `ExitPolicy` | one position under the exit policy along a price path |
| `OrderSizing` | the sizing functions as edge and balance rise |
| `RollingWindow` | the deque of stamped items both windows are built on |
| `Reconstructor` | feeds and merger of `ingest`, and the reconstructor service |
| `Signal` | `services/signal/src`: poller, detectors, engine and the ring to the executor |
| `Normalize` | the five `normalize` functions: which entries of a message become trades |
| `Feed` | the connection of one feed, with its exchange and the merge channel |
| `Historian` | `writer.rs`: one family of daily files and its writer |
| `Observe` | the observation mode over `Historian` |
| `MCExecutor`, `MCPolicies`, `MCReconstructor`, `MCSignal` | constants of the instances that TLC checks; `MCPolicies` runs `ExitPolicy` and `OrderSizing` side by side |
| `ExecutorTyping`, `ExecutorProofs`, `PolicyProofs`, `RollingWindowProofs`, `SignalProofs`, `ReconstructorProofs`, `FeedProofs`, `ObserveProofs` | theorems and proofs |

`Executor` EXTENDS `RiskGate`, `PositionTracker` and `Sizing`, which are pure:
the code calls them under a lock and the model applies them in the action that
stands for the lock section. `ExitPolicy` and `OrderSizing` drive the same
operators by themselves, over ranges the executor's instances could not afford.
`Reconstructor` and `Signal` EXTEND `RollingWindow`, `Feed` EXTENDS `Normalize`,
`Observe` EXTENDS `Historian`. The stages meet at
their rings only, so each is modelled with the environment its ring allows: the
estimates of `Signal` come late and out of order, as `Reconstructor` emits them,
and `Executor` takes any opportunity of its set at any time.

### The executor's state and actions

The five shared variables are the five `Arc`s that `run` creates
(lib.rs 94–120): `positions`, `gate`, `locks`, `suppressed`, `latestBrti`. An
absent entry of the lock and suppression maps is a deadline of 0, which is
past: the code never tells an expired entry from an absent one. `pc[self]` says
where a task stands; one action is **one critical section or one exchange
call**, with the local computation that follows it. So the tasks interleave
exactly where the code unlocks or awaits. `now[self]` is the time a task read
when its iteration began; the code uses it long after, and so does the model.
Locals that are dead are reset, which keeps the state space small and decides
nothing.

| action | code |
|---|---|
| `Pop`, `SnapshotReversed`, `NextReversed`, `ReversedDone` | the pop and `check_brti_reversals`, which clones the map and walks the clone |
| `SellFails`, `Sell`, `ExitRemove`, `ExitBook`, `ExitRelock` | `execute_exit`, the same for both tasks: the order, then tracker, gate (with the suppression inserted inside its lock) and thesis lock in three sections |
| `ResetDaily`, `SkipTracked`, `CheckRisk`, `GetBalance`, `ThesisLock`, `LossSuppression` | the gates of `run` in their order; each may end the iteration |
| `SendFails`, `Send`, `GateFill`, `TrackerAdd`, `LockThesis` | `place_order` and the promotion of what was filled |
| `Wake`, `FetchFails`, `Fetch`, `Collect`, `DropUnlisted`, `CloseDropped`, `SettleDone` | a cycle of `reconciliation_loop` up to the drops |
| `SnapshotTracked`, `ScanSkip`, `Scan`, `ScanDone` | its exit scan |
| `Pass`, `Crash`, `LateFill`, `Settle` | time, a restart, an order on the book that fills, a market that settles |

Abstractions, all on data: prices are whole cents, probabilities whole percent,
the index whole dollars; f64 comparisons are multiplied out; one clock unit is
30 seconds; order ids, logging, historian records and request building are left
out. The balance is chosen where it is used and not where it is read, since
nothing in between depends on it.

**The exchange** is conservative: an order fills at once up to what was asked, a
sale up to what the account holds (so a second sale of the same contracts fails
instead of opening the opposite side; anything else would only add behaviours
to the findings). What it may do wrong is the constant `EnvFaults`: lose the
reply of an order it has acted on, answer the positions request with an error
body (read as an empty list, client.rs 273), fill in part, leave the rest on
the book. Every call may fail in every run, whatever `EnvFaults` is.

**History variables** that the code does not have and that no guard reads:
`raced` (an exit removed a position that had already gone), `overrun` (orders
sent in the current spell of a tripped loss limit), `ledger` (what was really
gained or lost on the day of the last close, settlements included).

### The reconstructor and the signal service

One action of `Reconstructor` is one turn of a loop: `Receive` parses a message
and stamps its trades, `Send` offers one of them to the merge channel, `Merge` is
the merger, `Take` is `ReconstructorEngine::ingest` with the publication and the
push that follow, `Pop` is the signal service. `Offered` is every `try_send` and
`try_push`. A trade may have no volume, as those of Crypto.com whose size cannot
be read. The mean is kept as a sum and a count. The walk of `vwmp` over the sorted
window is the first place, in the order of a stable sort by price (`Sooner`), up to
which half of the volume was traded (`Reached`); a sum is the number of the units it
is made of (`SumOver`), a form that both TLC and the provers can use.

`Signal` has `Poll` (a fetch that succeeds; one that fails changes nothing),
`Ingest` (one estimate: both detectors, `Consensus`, `Confirm`, `Emit`), `Push`
(one opportunity of the estimate to the ring) and `Pop`. The wall clock decides
what is too late for its market, the stamp of the estimate decides the cooldown
and the spike window; `MaxLag` keeps the two apart. P(YES) and the synthetic
price are any value of a set: no property depends on the formulas. The entry of
the cooldown map that is absent is a time one cooldown before the start.

History variables: `taken`, `asOf` and `latest` of `Reconstructor`, `reports` and
`emitted` of `Signal`.

### The feeds

The five feeds are five copies of one loop with another `normalize` and another
first message; the tasks share the merge channel and nothing else. `Feed` is any
one of them (`exchange` is chosen at the start), with the exchange that makes
numbered trades and tells of them in messages that may be lost with the
connection. `Connected`, `Subscribed`, `Receive`, `Offer`, `Failed` and `Ended` are the
steps of `connect_and_consume`, `Retry` is the sleep and the doubling in `run`, and
`Merge` is the merger. Every exchange may begin a connection (`Greetings`) with a
snapshot of any number of its latest trades, which those before the connection
may have told of already. Kraken's and Bitstamp's parsers test the type of a
message and skip it; Coinbase's does not look at the type of an event, Gemini's
tells only heartbeats apart, and Crypto.com's takes the answer to the subscription
for an update when it carries data. So each trade that a feed passes on bears the
kind of message that `told` of it. The entries of a snapshot are whole.

`Normalize` keeps of JSON what decides: an entry is whole, is no trade, or has a
field that is missing or does not parse. Where a message is deserialized into
structs (Coinbase, Bitstamp) one missing field loses the message; where it is
walked as a `Value` (Kraken, Gemini, Crypto.com) a flaw loses its entry, or gives a
size of zero (Crypto.com). A silent connection is one on which nothing more
happens: after five seconds the code logs it and goes on waiting.

### The observation mode and the historian

`Update` is `CompareTracker::update` with one market, quoted or not: the move of the
index, the reprice and what is said of it (`LeadLag`), and the throttle (`Due`),
which calls the historian (`Record`). `WriteLine` returns every outcome of
`write_line`: the file of a new day opened or not, the line written whole, in part
or not at all. `Restart` is the process that ends at any time, in the middle of a
write too (a torn write before it). `SetBack` is a wall clock that is corrected, also
over midnight. `ticks` and `records` are history.

## 3. The runs

Every passing run explores its whole state space. "Bound" constants are `MaxClock`
and `MaxCrashes` of `Executor`, `MaxBid` and `MaxMove` of `ExitPolicy`, `MaxEdge`
and `MaxBalance` of `OrderSizing`, `MaxMessage`, `MaxTrades` and `MaxClock` of
`Reconstructor`, `MaxEstimates`, `MaxLag` and `MaxClock` of `Signal`, `MaxTrades`,
`MaxMessage`, `MaxInbox`, `MaxEnded` and `SnapshotAfter` of `Feed`, `MaxClock`, `MaxTicks` and
`MaxFaults` of `Observe`. Symmetry is
used in `reconstruct` only, whose three exchanges no definition tells apart; the
tickers of the other instances differ in their opportunities.

| run | instance | properties | what it shows |
|---|---|---|---|
| `exec_race` | 2 tickers, 1 slot, an index falling by 50, partial fills of 2 contracts, clock 0–2 | `GateNeverOvercounts`, `TrackedWithinLimit`, `GateExact`, `HeldWhileTracked`, `RefinesPositionBook` | `run` sells the reversed position while reconciliation sells, drops or re-scans it, and a ticker is entered again or the other one in its place: the limit, the accounting, the lifecycle and the backing by real contracts survive every order |
| `exec_faults` | 1 ticker, 2 slots, lost replies, error bodies, a restart, resting orders, opportunities that each gate refuses, bids of 10 and 35, a day boundary, a market that closes | `TypeOK`, `GateNeverOvercounts`, `GateExact`, `HaltLetsOneThrough`, `LossesSuppressReentry`, `RefinesPositionBook` | no fault makes the gate count what is not there; late fills reach nobody, and the book and the gate still agree; a loss booked while an order is under way halts after at most that one order and suppresses its thesis |
| `exec_live` | 1 ticker that settles, fair scheduling, a period of 0 | `SettledLeaveTracker`, `SettledFreeSlots` | a settled market leaves the tracker for good and frees its slot, however often a fetch fails |
| `policies` | 5 entries, every path of at most 2 cents a cycle, index at, at the edge of and beyond the threshold, times far from, near and after the close; prices at the edges of the band, of the rounding and of the conversion, edges −1 to 40, balances to $400 | `ArmedExitKeepsGain`, `HoldBandConvex`, `CostWithinCap`, `OrderIsAffordable`, `OrderReachesMarket`, `KellyIsEdgeOverOdds`, `SizeGrows` | the exit conditions together keep an armed gain and have no hole; caps, affordability, the limit price, the formula, monotonicity |
| `signal` | 1 market $1 from its strike, index moves of 10, 20 and 30, estimates up to one unit late, a delta buffer of 3, a ring of 1, confirmations saturating at 3, 5 estimates | `TypeOK`, `SupportedTwice`, `OpportunitiesSpaced`, `SpikeWithinWindow`, `ConfirmationLasts` | late and reordered estimates, an old or empty market list and a full ring break neither the confirmations nor the cooldown |
| `reconstruct` | 3 exchanges, queues of 1, messages of up to 2 trades, 3 trades kept, clock 0–4 with a window of 2 and a staleness of 1 | `TypeOK`, `WindowIsExact`, `VwmpIsMedian`, `QuorumIsFresh`, `IndexFromRecentTrades` | whatever is dropped or delayed, an estimate counts the fresh exchanges and no old trade |
| `feeds` | each of the 5 exchanges, 2 trades in messages of up to 2 entries with every combination of flaws, snapshots of 1 or 2 trades after the first and the second ended connection, one message unread and one place in the channel, backoffs of 1, 2, 3, 3 | `TypeOK`, `InOrderOnce`, `FlawCostsItself`, `WaitsDouble`, `ComesBack` | replays, flaws, a full channel and connections that end between any two steps never put a trade told of as it is made out of order or in twice, Kraken's and Bitstamp's feeds pass on nothing else, and a flaw costs no entry beside it (no message beside its own where a field is missing at Coinbase or Bitstamp); the sleeps double to their cap, and the feed comes back |
| `observe` | estimates of 100, 104 and 108 with moves over 7 and a drift over 5, prices of 40 and 43 or none, 3 estimates between restarts, 2 days of 2 units, 2 faults | `TypeOK`, `FiledByDay`, `DamageIsLocal`, `LeadIsBacked`, `DriftIsPrinted` | midnight, restarts, writes that fail or are torn and a clock that is set back put no record in the wrong file and cost no more than what is documented and one line; a lead is said only of a move in the direction of the price; no drift is slept through |
| `two_closers`, `stale_list`, `stuck_lock`, `settlement_loss` | no faults at all | one documented statement each | see section 5 |

Why the bounds are enough. A race needs two tasks and one ticker, and a second
opportunity to enter the ticker again; the limit needs one ticker more than
slots, and `two_closers` needs two slots and three tickers. Two contracts make a
partial fill. Clock 0–2 holds a wake, a close and what follows; a day of one or
two units puts midnight inside it, and cooldowns (4) longer than the clock are
those that bind; in `exec_faults` a sale at 35 trips the loss limit (5) and
one at 10 suppresses the thesis (10) as well, before or after the pop.
`THESIS_COOLDOWN` and the 60 s period keep their proportion to the 30 s unit in
`exec_race` and `exec_faults` (INTERVAL 2); elsewhere the period is shorter, so that
more cycles fit under the bound. The theorems of section 6 take every safety
property of the passing runs to every value of the constants.

In `reconstruct` three trades are enough: two in one window and one of another
exchange separate the newest trade of a window from its oldest, and two old ones
before a new one make an eviction repeat. Those that are dropped do not count, so
every queue also overflows. In `signal` five estimates fill the delta buffer and
push one out, saturate the count of confirmations, and let two opportunities a
cooldown apart be followed by an estimate that is stamped before the second.

In `feeds` a message of two entries has a flawed one before or after a whole one;
a trade is told of on one connection, repeated by the snapshots of the next two,
and followed by a trade made after them; two trades of one message overflow a
channel with one place. In `observe` a move and the price that follows it may be an
estimate apart, with an unquoted one between them; two small drifts add up to one that has
to be printed; two faults are a torn write and the restart after it, or a file
that cannot be opened twice.

`CHECK_DEADLOCK FALSE` stands in `policies`, `signal`, `reconstruct`, `feeds` and
`observe`, where a sold position, an exhausted range of inputs and a stopped
clock with empty queues are the end. In the executor some step is always
possible.

## 4. Fairness

`FairSpec` assumes of the code what tokio gives it: a task that can take a step
takes one (`WF` on `exec` inside an iteration and on `recon`; nothing is assumed
of an idle `exec`, which waits for the signal service). It assumes two things of
the exchange: that **every call returns**, because no call has a timeout
(client.rs 324) and the two `WF` include the calls, and that a positions request
repeated for ever succeeds in the end (`SF` on `Fetch`). Neither time, markets
nor settlement are fair. A period of 0 stands for "the next tick comes": the
clock of the model is bounded, the real one is not. Without the first
assumption nothing live holds of this code: one hanging connection stops the
task that waits for it, and all exits by that task.

The fairness of `Feed` is that its task is scheduled, that an attempt to connect
ends (`connect_async` has no timeout of its own either; the operating system's
applies), and that an exchange that is tried for ever accepts a connection, and a
subscription, some time (`SF` on `Connected` and `Subscribed`). Nothing makes a
connection end: one that is silent and open may stay so, which is why `ComesBack`
starts where the connection has ended.

## 5. Statements the code does not keep

Each run finds a counterexample to a statement of the repository's own comments,
in a world without faults, and stops there.

* `two_closers` – "Maximum number of concurrently open positions" (risk.rs 12).
  `execute_exit` ignores what `remove` returned (lib.rs 525) and calls
  `record_close` all the same. When one task sells what the other has dropped or
  sold, two slots are freed for one position, and the gate lets a position too
  many in. `raced` marks these states: everything the theorems say of the limit
  is said up to that moment.
* `stale_list` – "Settle positions no longer in Kalshi's unsettled list"
  (lib.rs 411). The list is fetched before the tracker is read; a position opened
  in between is not on it and is dropped while it is held.
* `stuck_lock` – "Lock thesis side while position is active." (lib.rs 327). The
  lock without a deadline is inserted after the tracker is unlocked. If the
  position is dropped in between, the lock stays on a ticker with no position and
  never expires: the other side of the market is barred until an entry on the same
  side is made and exited, which puts the cooldown lock in its place, or until a
  restart.
* `settlement_loss` – "Halt trading if cumulative daily loss exceeds this"
  (risk.rs 6). Only `execute_exit` books P&L; a contract that expires worthless
  is closed with `record_close` alone, and the halt never hears of it.

Met while modelling, without a run of their own:

* The daily reset (lib.rs 143) follows the reversal exits of the same iteration:
  the first opportunity of a day books its exits and then wipes them.
* A restart does not adopt what the account holds: reconciliation only compares
  what it tracks with the list (lib.rs 402–412), never the other way.
* The 95-cent ceiling of the profit target is applied before the ten-cent floor
  (position_tracker.rs 111), so an entry above 85 has a target above the
  ceiling, and one of 90 or more a target that no bid reaches. `policies`
  has such entries (85, 96).
* The position cap is computed on the market price and the order is sent one
  cent above it (sizing.rs 49, lib.rs 288): the cost may exceed the cap by one
  cent per contract. At 29, 57 and 58 cents, quoted as strings of dollars, the
  truncated price is a cent lower still (0.29 × 100.0 is 28.999…), and the cost at
  the market price itself may exceed the cap: 71 contracts at 29 cents under a cap
  of $20. The code's own `debug_assert!` (sizing.rs 52) is on the
  truncated price and holds. `CostWithinCap` states what that means in real prices:
  within the cap at a market price that the conversion keeps, and never more than
  a cent per contract above the cap at the price the order is sent at.
* An exit that fills in part removes the whole position (lib.rs 525), a resting
  order fills when nobody looks, an error body drops everything and a restart
  forgets everything: contracts are then held that nothing tracks. `GateExact` and
  `RefinesPositionBook` stay true of all this, since the gate follows the tracker;
  `HeldWhileTracked` bounds the other direction, what is tracked and not held.
* A window whose trades have no volume, as Crypto.com's may when a size cannot be
  read (cryptocom.rs 43), still yields a price (window.rs 44–53): half of nothing is
  reached by the first trade in order of price, and the index counts it. `vwmp`
  expects "positive sizes" (window.rs 54); `VwmpIsMedian` holds of it as 0 ≥ 0.
* A cycle of reconciliation that began before the first opportunity holds the
  index 0.0 (lib.rs 390), and a YES position opened while it waits for the
  exchange is sold as reversed by its whole value.
* README.md 102 gives the delta detector a default threshold of 1 %; the engine
  passes 0.01 (signal/engine.rs 43) to a comparison in percent, which is a
  hundredth of a percent, about seven dollars.
* The delta buffer bounds the number of its samples and not their age
  (delta.rs 16), and the market list has no age at all for the engine
  (signal/engine.rs 136); a gap in the feeds or in the polls goes unnoticed.
* "KALSHI LEADS … (BRTI moved … after)" (signal/lib.rs 331) is printed whenever
  the directions differ, although the move of the index came before the reprice,
  as every recorded move does: `behind_ms` is 0 unless the clock was set back.
* "A crash can corrupt at most the in-flight line" (writer.rs 10, historian lib.rs
  28) holds of the lines before it. The line that is written next is appended to
  the torn one and lost to a reader as well; `DamageIsLocal` allows for it.
* README.md 54 and 94 describe the historian as an mpsc consumer fed by `try_send`;
  it writes synchronously, under a mutex, in the task that calls it.
* The backoff of a feed is not set back by a connection that worked (coinbase.rs
  87): after nine ended connections in the life of the process each one costs 30 s.
* A snapshot after a reconnection is passed on by three of the five feeds.
  Coinbase's takes an event of any type (coinbase.rs 27–48), Gemini's tells only
  heartbeats apart (gemini.rs 31–52), and Crypto.com's takes any `subscribe` reply
  with data (cryptocom.rs 20–32). Whether these exchanges send one is up to them; when
  they do, the trades it repeats are in the windows twice, and after newer ones.
  `InOrderOnce` excepts such trades at these exchanges; Kraken's feed (kraken.rs 35)
  and Bitstamp's (bitstamp.rs 43) pass none on.
* `emit_compare` writes nothing when no market is quoted, and the throttle starts
  again all the same (signal/lib.rs 245, 224).
* An opportunity on a synthetic price is forwarded like one on a bid
  (kalshi_poller.rs 111, signal/lib.rs 122).

## 6. The proofs

All theorems hold for every value of the constants that satisfies the named
assumptions (`GateAssumption`, `TrackerAssumption`, `NoneAssumption`,
`SizingAssumption`, `ExecutorAssumption`, `ExitPolicyAssumption`,
`OrderSizingAssumption`, `SignalAssumption`, `ReconstructorAssumption`,
`FeedAssumption`, `ObserveAssumption`): types, finiteness of the tickers, a slot limit between 1
and 255, and a `Forever` beyond every deadline. In particular for any number of
tickers, any opportunities, every subset of the faults, and any number of restarts.

**The executor** (`ExecutorTyping`, `ExecutorProofs`). `TypeInv` is `TypeOK` and
what a task finds in its locals (an opportunity in hand past the pop, a position
in hand during an exit or a drop, a positive size at the fill). The inductive
invariant adds five conjuncts:

    IInv == TypeInv /\ Accounted /\ SlotFree /\ TickerFree /\ HaltOnce /\ Suppressed

* `Accounted`: the gate counts at most the tracked positions and those in
  flight, and exactly those while no exit has raced. Not inductive alone: at 255
  the counter saturates, and an `add` over an open position would gain a slot
  without a position.
* `SlotFree`: from the risk check to the fill the gate has a free slot. Nobody
  else fills; `recon` only closes. This keeps the counter off its limit, and it
  is the reason why the check may be used four sections later.
* `TickerFree`: from the skip to the add the ticker is not tracked. Nobody else
  adds; so the add overwrites nothing, though the tracker is unlocked in between.
* `HaltOnce`: if an order has gone out under a tripped limit then `exec` is past
  it and cannot pass the check again while the limit is tripped.
* `Suppressed`: a suppression that bars the opportunity under way was booked
  after it was popped.

| theorem | says |
|---|---|
| `TypeCorrectness` | `TypeOK` |
| `InvariantHolds` | `IInv` |
| `SlotsNeverLeak` | `GateNeverOvercounts`, in every behaviour |
| `GateIsExact`, `LimitHolds` | `GateExact`, `TrackedWithinLimit`: up to the first raced exit |
| `OneOrderThroughHalt` | `HaltLetsOneThrough` |
| `SuppressionHolds` | `LossesSuppressReentry` |
| `Refinement` | `RefinesPositionBook`: every step opens, raises, closes or forgets one position of the abstract book, or stutters; from `TypeInv` and `TickerFree` |
| `Holding` | `HeldWhileTracked`, under `PlainExchange`: no reply is lost, no order rests, one side of a ticker is traded |

`HeldWhileTracked` speaks of the account at the exchange and is false without
`PlainExchange`: a sale whose reply was lost has sold what is still tracked, and a
sale that rests fills when nobody looks. With it, the account relative to the one
side of a ticker (`Account`) is never negative, and

    HoldInv == Sided /\ OneWay /\ Backed /\ Bought

is inductive beside `IInv`. `Backed` is the property; `Bought` says the same of what
was bought and is not in the tracker yet, which the other task cannot sell unless it
removes it after the add; `TickerFree` gives the step at the add. The proof is about
interleavings: a position may have been sold by the task that is about to remove it
(`Sold`), and only then is less held than is tracked. It ends, like the property, at
the first exit that raced.

**The policies** (`PolicyProofs`). `ArmedGainIsKept`: an armed position that is still
held is within eight cents of its peak, which is at least ten above its entry, so
that one more move cannot cost more than the move; for all prices, indices, times
and moves. `HoldBand`: a bid that meets the target lies above every bid at which
the position is kept; one that meets the stop, the trailing stop (whose peak the bid
itself may raise) or the loss near expiry lies below all of them; and a reversal
looks at no bid. `SizesGrow`: the
quotient of the Kelly amount grows with edge and balance, and so does the least of
it and the caps. `CostIsCapped`, `KellyIsTextbook`, `OrdersAreAffordable`, `OrdersReachMarket`:
floor division times its divisor does not exceed the dividend, which bounds the cost
at the price as it was converted, one cent below the limit price; at half Kelly or
less (`KellyDivisor >= 2`; the code has 4) the fraction is small enough for the cent
that the limit price adds; and that cent makes up for the one the conversion loses.

**The windows** (`RollingWindowProofs`). `EvictKeepsNewest`: if the newest item of a
window is not too old, it is still the last one after an eviction, and the first
one left is not too old; because the index at which the eviction stops is the
least of a set of numbers (`MinOfNats`), which is not empty. `EvictDropsFront`: what
is dropped is a front of items that are all too old, and the first one left is not.

**The signal engine** (`SignalProofs`). `Spacing`: `OpportunitiesSpaced`, from the
invariant that every opportunity ever emitted is at or before the time the engine
remembers for its ticker; that time is only replaced by one a cooldown later,
because the saturating difference of an estimate that is out of order is zero
and the cooldown is not. `Support`: `SupportedTwice`, when at least two
confirmations are required, from the invariant that a count of one stands for the
last estimate and a count of two for the last two. `SpikeSpan`:
`SpikeWithinWindow`, from the lemma on evictions. `Lasting`: `ConfirmationLasts`; the
counter stops at its limit and so never falls below what is required. `SignalTypes`:
`TypeOK`, the buffer and the ring within their sizes.

**The reconstructor** (`ReconstructorProofs`). `Quorum`: `QuorumIsFresh`, from the
invariant that a window ends with the newest trade taken of its exchange, so that
what `is_stale` tests is what an outside observer would test. `Exactness`:
`WindowIsExact`. Eviction stops at the first trade that is not too old, so the
window is exact only because the stamps of an exchange rise; and they do because
what a feed has in hand, the channel, the ring and what was taken are each in order
and in order one after the other (`Ordered`), whatever is dropped between them.
`Median`: `VwmpIsMedian`. The places up to the one that `vwmp` stops at have half of
the volume and no higher price; those before it, of which the last did not reach
half, include every one with a lower price. `RecentOnly`: `IndexFromRecentTrades`;
the place of each median lies in an exact window whose newest trade is fresh, and a
sum of prices lies between its count times the least and the greatest of them.
`ReconstructorTypes`: `TypeOK`.

**The feeds** (`FeedProofs`). The invariant `FeedInv` says what is where: each message
that waits tells of trades that were made, and one that tells of them as they are
made of later ones than every message before it, snapshots included (`Told`). Of
what the merger has, the channel and what is in hand, in a row, each trade told of
as it was made is after all in front of it; none of the messages that wait tells of
it as just made again; and at Kraken and Bitstamp there is no other (`Sent`). A
snapshot repeats trades but can never be ahead of what was made, so whatever is
made later still comes after it. From it `FeedTypes` (`TypeOK`) and `Order`
(`InOrderOnce`). `Flawed` (`FlawCostsItself`) rests on what the loop of `normalize` yields
of any message: `LoopSteps` gives the equations of its recursive function and
`LoopKeeps` the result, by the least entry for which it fails. `Doubling`
(`WaitsDouble`): while ended connections are counted the backoff is that of the
schedule `Backoff`, in closed form; that the powers of two double is a lemma on the
subsets of a set, since the provers know nothing of `^`.

**The observation mode** (`ObserveProofs`). `Filing`: `FiledByDay`, from the invariant
that the writer's day is the day of its open file, which every failure and restart
keeps because the day is assigned after the file is open. `Throttle`:
`DriftIsPrinted`, from the invariant that the value the tracker compares with is
that of an estimate which was printed, and that all since are near it. `Lead`:
`LeadIsBacked`, from the invariant that the move and the price the tracker keeps are
those of the last estimate that moved and the last that had a quote. `Damage`:
`DamageIsLocal`, from the invariant that every record written well is in one place,
and no record in two; a record written well that cannot be read stands right after a
torn one, and to go back to that one is an injection, so there are no more of the
former than of the latter. `ObserveTypes`: `TypeOK`.

**How recursion is proved about.** An induction theorem of the library cannot be
applied to a property that is built on the spot, but two things can: the theorem
that gives the equations of a recursive function (`FiniteNatInductiveDef`), and the
least number for which a claim fails (`LeastOfNats`), which its predecessor
contradicts. Where a fold or a library sort would be opaque (`SumOver`, `Sooner`) the
model states what it computes by sets.

**Only model-checked**: liveness and everything under fairness (`exec_live`,
`ComesBack`); the four counterexamples. Every other property of a passing run is a
theorem. `IInv` and `HoldInv` were checked with TLC on the instances of `exec_race` (and
`IInv` on those of `exec_faults`) as well.

## 7. What is not modelled

* A connection that hangs while it is being made, and TCP's own timeouts: `Feed`
  assumes that an attempt ends. An open connection may be silent for ever.
* The feeds of itBit, LMAX and Bullish, which main.rs does not start.
* The composition of the stages: `Executor` takes any opportunity of its set at
  any time, which covers every signal service, so how old an opportunity is when
  it is used is not bounded by anything here.
* The logistic regression and the formula of the synthetic price: any value of
  their range.
* What is written in records and printed lines, except the day, the outcome and
  the verdict on a lead. Of the historian's eight families one is modelled; they
  share nothing.
* JSON beyond which entries become trades, request building, signatures: pure
  conversions without state. An error body that becomes an empty list is a fault
  of `Executor`.
* The `yes_bid` of a market as an integer, the other form the poller reads: the
  model converts all prices from dollars, the form that loses a cent.
* In the executor, a wall clock that steps back (lib.rs 161): its clock only rises.
* f64 rounding other than the conversion of prices: comparisons are exact.
* The backtest (offline) and the validator (called by nothing).

## 8. The plan

Done, in this order: `RiskGate`, `PositionTracker`, `Sizing`, `Executor` with its
runs, `PositionBook` and the refinement, `ExitPolicy`, `OrderSizing`, the proofs
about them, `Signal` with its proofs, `Reconstructor`, the conversion of prices,
`Feed`, `Historian`, `Observe`, and the proofs about windows, quorum, files and the
throttle.

The theorems: types, accounting and limits of the executor, its refinement of the
book and the backing of what is tracked; the policies; the signal engine; windows,
medians, quorum and index; the feeds; the files and the tracker of the observation
mode.

To come, by importance:

1. `Handoff` – the signal ring composed with the executor's pop: how old an
   opportunity, and the list it was priced on, can be when it is used.
2. `Pipeline` – an abstract queue that loses elements and keeps the order of each
   feed, implemented by channel, merger and ring; `Ordered` of `ReconstructorProofs`
   is its invariant.
