----------------------------- MODULE MCPolicies -----------------------------
(***************************************************************************)
(* The two policies of the executor side by side: one position along every   *)
(* price path (ExitPolicy) and the size of an order over prices, edges and    *)
(* balances (OrderSizing).  They share no state, so a behaviour moves one of  *)
(* them and leaves the other where it is at rest.                             *)
(***************************************************************************)
EXTENDS ExitPolicy, OrderSizing

CloseAtTen == [t \in Tickers |-> 10]

NoPosition == book = EmptyBook /\ bid = 0 /\ sold = TRUE
NoOrder    == price = 0 /\ edge = MaxEdge /\ balance = MaxBalance

PoliciesInit == (Init /\ NoOrder) \/ (SizingInit /\ NoPosition)

PoliciesNext ==
  \/ Next /\ UNCHANGED sizingVars
  \/ SizingNext /\ UNCHANGED vars

PoliciesSpec == PoliciesInit /\ [][PoliciesNext]_<<vars, sizingVars>>
=============================================================================
