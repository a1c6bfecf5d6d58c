----------------------------- MODULE MCTrading ------------------------------
(* A small instance of the concurrent market. *)
EXTENDS Trading

\* The first account can pay one trade at the performance price and one at the
\* issue price, the second two at the performance price.
MCOpeningCredit == [u \in Users |-> 2 + u]

=============================================================================
