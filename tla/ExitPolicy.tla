----------------------------- MODULE ExitPolicy -----------------------------
(***************************************************************************)
(* One open position under the reconciliation loop: each cycle the bid has   *)
(* moved, the peak is raised and check_exit decides.  The executor itself    *)
(* is left out; this is what its policy makes of a price path.               *)
(***************************************************************************)
EXTENDS PositionTracker

CONSTANTS
  Entries,   \* entry prices
  Indices,   \* index values a cycle may see
  Times,     \* times a cycle may run at
  MaxBid,    \* the highest bid a market shows
  MaxMove    \* how far the bid moves between two cycles

ASSUME ExitPolicyAssumption ==
  /\ Entries \subseteq Nat /\ Indices \subseteq Nat /\ Times \subseteq Nat
  /\ MaxBid \in Nat /\ MaxMove \in Nat

VARIABLES
  book,   \* the tracker, holding the one position
  bid,    \* the bid of the last cycle
  sold    \* check_exit returned Some in the last cycle

vars == <<book, bid, sold>>

Entered(t, side, entry) ==
  [ticker |-> t, side |-> side, contracts |-> 1, entry |-> entry,
   peak |-> entry, brti |-> 500, opened |-> 0]

Init ==
  \E t \in Tickers, side \in Sides, entry \in Entries :
    /\ book = Add(EmptyBook, Entered(t, side, entry))
    /\ bid = entry
    /\ sold = FALSE

Cycle(t, brti, now) ==
  /\ ~sold
  /\ t \in Tracked(book)
  /\ bid' \in {b \in 0 .. MaxBid : b - bid <= MaxMove /\ bid - b <= MaxMove}
  /\ book' = UpdatePeak(book, t, bid')
  /\ sold' = ShouldExit(book'[t], bid', brti, now)

Next == \E t \in Tickers, brti \in Indices, now \in Times : Cycle(t, brti, now)

Spec == Init /\ [][Next]_vars

-----------------------------------------------------------------------------
Armed(t) == book[t].peak >= book[t].entry + 10

\* Once a position has been ten cents up, no exit condition, in whatever order
\* they fire, gives back more than the last cycle's move took: it is sold at
\* no less than its entry plus two, less that move.  (position_tracker.rs
\* 121-130; the stop-loss, the reversal and the expiry exits come before or
\* after the trailing stop, and none of them may undercut it)
ArmedExitKeepsGain ==
  \A t \in Tracked(book) : Armed(t) => bid >= book[t].entry + 2 - MaxMove

\* The policy has no hole: between two bids it would hold on to there is none
\* it would sell at.
HoldBandConvex ==
  \A t \in Tracked(book), brti \in Indices, now \in Times :
    LET kept == {b \in 0 .. MaxBid :
                   ~ShouldExit(UpdatePeak(book, t, b)[t], b, brti, now)}
    IN  \A b \in 0 .. MaxBid \ kept :
          (\A k \in kept : k < b) \/ (\A k \in kept : k > b)
=============================================================================
