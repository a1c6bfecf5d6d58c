---------------------------- MODULE MCOrderReads ----------------------------
(* A small instance of an order that is read while it is decided. *)
EXTENDS MCConditionalOrders, OrderReads

\* Account 2 can pay for one token.
MCOneCredit == [u \in Users |-> IF u = 1 THEN 0 ELSE 1]

MCReadSpec == MCFounded /\ ReadInit /\ [][ReadNext]_<<vars, readVars>> /\ Fairness

=============================================================================
