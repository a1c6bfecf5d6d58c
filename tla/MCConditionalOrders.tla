------------------------ MODULE MCConditionalOrders -------------------------
(* A small instance of the conditional orders. *)
EXTENDS ConditionalOrders

\* Account 1 starts empty; account 2 can pay for one of two orders at price 2.
MCOpeningCredit == [u \in Users |-> IF u = 1 THEN 0 ELSE 3]

\* A market whose recipient is known: account 1, to whom the players that are not
\* looked at here were issued.
MCFounded ==
    /\ Init!2 /\ Init!3 /\ Init!4 /\ Init!5 /\ Init!6 /\ Init!7 /\ Init!8 /\ Init!9
    /\ recipient = 1
    /\ issued = {}
    /\ holding = [p \in Players |-> [u \in Users |-> 0]]
    /\ balance = OpeningCredit
    /\ quote = [p \in Players |-> NoQuote]
    /\ trades = <<>>

\* Next without direct trades and failing attempts, which are never enabled when
\* Keys = Orders and MaxFailures = 0.
MCQuietNext ==
    \/ \E p \in Players, u \in Users : IssuePlayer(p, u)
    \/ \E p \in Players, price \in Prices : Confirm(p, price)
    \/ Tick
    \/ \E o \in Orders, u \in Users, p \in Players, n \in Quantities,
          limit \in Limits, lifetime \in Lifetimes : Draft(o, u, p, n, limit, lifetime)
    \/ \E o \in Orders :
        \/ Place(o) \/ Withdraw(o)
        \/ BeginCancel(o) \/ Cancel(o)
        \/ BeginAlone(o) \/ EvaluateAlone(o)
        \/ Abandon(o)
    \/ \E w \in Workers : Work(w)
    \/ Sweep

MCFoundedSpec == MCFounded /\ [][MCQuietNext]_vars

MCSymmetry == Permutations(Workers)

=============================================================================
