----------------------- MODULE ConditionalOrdersProofs ----------------------
(***************************************************************************)
(* Theorems about the conditional orders, for any number of orders,        *)
(* workers, players and accounts: every outcome is justified by the        *)
(* purchases and the clock, it stands, and what an owner has read of it is *)
(* final; orders buy through the market alone; the evaluation keeps its    *)
(* types, loses no wakeup and serves the orders of a player as they came.  *)
(***************************************************************************)
EXTENDS OrderReads, MarketProofs

-----------------------------------------------------------------------------
(* Lemmas about rows *)

\* A row that is not absent is an order.
LEMMA RowType ==
    ASSUME RowsTyped, NEW o \in Orders, order[o].status # "absent"
    PROVE  /\ order[o] \in Order
           /\ PurchaseOf(o) \in Terms
<1>1. order[o] \in Order
    BY DEF RowsTyped, NoOrder
<1>2. o \in Keys
    BY OrdersAssumption
<1> QED
    BY <1>1, <1>2 DEF Order, PurchaseOf, Terms

\* One more trade is one more purchase of the order it cites, if any.
LEMMA PurchasesAfterTrade ==
    ASSUME trades \in Seq(Trade), NEW t \in Terms, NEW q \in Quote,
           trades' = Append(trades, [terms |-> t, quote |-> q])
    PROVE  /\ trades' \in Seq(Trade)
           /\ trades'[Len(trades) + 1] = [terms |-> t, quote |-> q]
           /\ \A n \in DOMAIN trades : n \in DOMAIN trades' /\ trades'[n] = trades[n]
           /\ \A o \in Orders :
                PurchasesOf(o)' = IF t.key = o THEN PurchasesOf(o) \cup {Len(trades) + 1}
                                               ELSE PurchasesOf(o)
<1>1. [terms |-> t, quote |-> q] \in Trade
    BY DEF Trade
<1>2. /\ trades' \in Seq(Trade)
      /\ DOMAIN trades = 1 .. Len(trades)
      /\ DOMAIN trades' = DOMAIN trades \cup {Len(trades) + 1}
      /\ trades'[Len(trades) + 1] = [terms |-> t, quote |-> q]
      /\ \A n \in DOMAIN trades : trades'[n] = trades[n]
    BY <1>1
<1>3. ASSUME NEW o \in Orders
      PROVE  PurchasesOf(o)' = IF t.key = o THEN PurchasesOf(o) \cup {Len(trades) + 1}
                                            ELSE PurchasesOf(o)
    BY <1>2 DEF PurchasesOf
<1> QED
    BY <1>2, <1>3

\* An outcome does not change while its row and its purchases stay.
LEMMA JustifiedStays ==
    ASSUME RowsTyped, NEW o \in Orders, Justified(o), order'[o] = order[o],
           PurchasesOf(o)' = PurchasesOf(o),
           \A n \in DOMAIN trades : trades'[n] = trades[n]
    PROVE  Justified(o)'
<1>1. PurchaseOf(o)' = PurchaseOf(o)
    BY DEF PurchaseOf
<1>2. PurchasesOf(o) \subseteq DOMAIN trades
    BY DEF PurchasesOf
<1> QED
    BY <1>1, <1>2 DEF Justified

-----------------------------------------------------------------------------
(* Lemmas about decisions *)

\* What the facade or a worker commits: the decision on a pending order whose row
\* it holds, or nothing.
Evaluate(o) ==
    \/ order[o].status = "pending" /\ decision[o] # NoDecision /\ Decide(o)
    \/ order[o].status # "pending" /\ UNCHANGED <<marketVars, order, decision>>

\* Who holds the row of an order decides a pending one.
LEMMA HolderDecides ==
    ASSUME DecisionsLocked, NEW o \in Orders
    PROVE  /\ decision[o].by # "none" => decision[o] # NoDecision /\ order[o].status = "pending"
           /\ EvaluateAlone(o) => Evaluate(o)
           /\ Cancel(o) => decision[o] # NoDecision /\ order[o].status = "pending"
<1>1. decision[o].by # "none" => decision[o] # NoDecision /\ order[o].status = "pending"
    BY DEF DecisionsLocked, NoDecision
<1> QED
    BY <1>1 DEF EvaluateAlone, Evaluate, Cancel

LEMMA MemberDecided ==
    ASSUME DecisionsLocked, NEW w \in Workers, StepMember(w)
    PROVE  \E o \in Orders : o = NextMember /\ Evaluate(o)
<1>1. PICK o \in Orders :
        /\ o = NextMember
        /\ \/ decision[o].by = w /\ Decide(o)
           \/ order[o].status # "pending" /\ UNCHANGED <<marketVars, order, decision>>
    BY DEF StepMember
<1>2. w # "none"
    BY WorkersAssumption
<1> QED
    BY <1>1, <1>2, HolderDecides DEF Evaluate

\* Steps that take or give up the row of an order and decide nothing.
LEMMA HoldingFrame ==
    /\ \A o \in Orders : BeginCancel(o) \/ BeginAlone(o) \/ Abandon(o) =>
            UNCHANGED <<marketVars, clock, order, queueVars>>
    /\ \A w \in Workers : BeginStep(w) => UNCHANGED <<marketVars, clock, order, queueVars>>
BY DEF BeginCancel, BeginAlone, BeginStep, BeginEvaluation, Lock, Abandon

LEMMA QuietWork ==
    ASSUME NEW w \in Workers, Work(w) \/ Fail(w), ~StepMember(w)
    PROVE  UNCHANGED <<marketVars, clock, order>>
BY HoldingFrame DEF Work, Take, Accept, RequestPass, StepEnd, Continue, Fail

\* Decisions stay typed, and only a pending order begins to be decided.
LEMMA LockHolds ==
    ASSUME RowsTyped, DecisionsLocked, NEW o \in Orders,
           NEW by \in Workers \cup {"owner", "facade"}, order[o].status = "pending", Lock(o, by)
    PROVE  /\ decision' \in [Orders -> Decision]
           /\ \A p \in Orders : decision'[p] # NoDecision => order[p].status = "pending"
BY DEF RowsTyped, DecisionsLocked, Lock, Decision

LEMMA ReleaseHolds ==
    ASSUME RowsTyped, NEW o \in Orders, Release(o)
    PROVE  /\ decision' \in [Orders -> Decision]
           /\ \A p \in Orders : decision'[p] # NoDecision => decision[p] # NoDecision /\ p # o
BY DEF RowsTyped, Release, Decision, NoDecision

-----------------------------------------------------------------------------
(* The invariant, action by action *)

LEMMA InitOrders == Init => OrdersInv
<1> SUFFICES ASSUME Init PROVE OrdersInv
    OBVIOUS
<1>1. RowsTyped
    BY DEF Init, MarketInit, RowsTyped, Quote, NoQuote, Decision, NoDecision
<1>2. ASSUME NEW o \in Orders PROVE Justified(o)
    BY DEF Init, MarketInit, Justified, PurchasesOf, NoOrder, Terminal
<1>3. DecisionsLocked
    BY DEF Init, DecisionsLocked
<1> QED
    BY <1>1, <1>2, <1>3 DEF OrdersInv, OutcomeJustified

\* Steps that touch neither orders nor trades.
LEMMA FrameKeeps ==
    ASSUME OrdersInv, UNCHANGED <<order, trades>>, clock' \in Nat,
           quote' \in [Players -> Quote],
           decision' \in [Orders -> Decision],
           \A o \in Orders : decision'[o] # NoDecision => order[o].status = "pending"
    PROVE  OrdersInv'
<1>1. RowsTyped' /\ DecisionsLocked'
    BY DEF OrdersInv, RowsTyped, DecisionsLocked
<1>2. ASSUME NEW o \in Orders PROVE Justified(o)'
    BY JustifiedStays DEF OrdersInv, OutcomeJustified, PurchasesOf
<1> QED
    BY <1>1, <1>2 DEF OrdersInv, OutcomeJustified

\* And no decision either.
LEMMA CalmKeepsOrders ==
    ASSUME OrdersInv, UNCHANGED <<order, trades, decision>>, clock' \in Nat,
           quote' \in [Players -> Quote]
    PROVE  OrdersInv'
BY FrameKeeps DEF OrdersInv, RowsTyped, DecisionsLocked

LEMMA IssueKeeps ==
    ASSUME OrdersInv, NEW p \in Players, NEW u \in Users, IssuePlayer(p, u)
    PROVE  OrdersInv'
<1>1. quote' \in [Players -> Quote]
    BY DEF OrdersInv, RowsTyped, IssuePlayer, Issue, InitialQuote, Quote
<1> QED
    BY <1>1, CalmKeepsOrders DEF OrdersInv, RowsTyped, IssuePlayer, Issue

LEMMA ConfirmKeeps ==
    ASSUME OrdersInv, NEW p \in Players, NEW price \in Prices, Confirm(p, price)
    PROVE  OrdersInv'
<1>1. [sequence |-> quote[p].sequence + 1, price |-> price] \in Quote
    BY MarketAssumption DEF OrdersInv, RowsTyped, Quote
<1>2. quote' \in [Players -> Quote]
    BY <1>1 DEF OrdersInv, RowsTyped, Confirm, ConfirmQuote
<1> QED
    BY <1>2, CalmKeepsOrders DEF OrdersInv, RowsTyped, Confirm, ConfirmQuote

LEMMA TickKeeps == ASSUME OrdersInv, Tick PROVE OrdersInv'
BY CalmKeepsOrders DEF OrdersInv, RowsTyped, Tick, marketVars

LEMMA TradesKeeps ==
    ASSUME OrdersInv, NEW t \in Terms, Trades(t)
    PROVE  OrdersInv'
<1>1. /\ trades' = Append(trades, [terms |-> t, quote |-> quote[t.player]])
      /\ UNCHANGED <<clock, order, decision, quote>>
      /\ t.key \notin Orders
    BY DEF Trades, ExchangeOnce, Exchange
<1>2. quote[t.player] \in Quote
    BY DEF OrdersInv, RowsTyped, Terms
<1>3. RowsTyped' /\ DecisionsLocked'
    BY <1>1, <1>2, PurchasesAfterTrade DEF OrdersInv, RowsTyped, DecisionsLocked
<1>4. ASSUME NEW o \in Orders PROVE Justified(o)'
    <2>1. PurchasesOf(o)' = PurchasesOf(o) /\ \A n \in DOMAIN trades : trades'[n] = trades[n]
        BY <1>1, <1>2, PurchasesAfterTrade DEF OrdersInv, RowsTyped
    <2> QED
        BY <2>1, <1>1, JustifiedStays DEF OrdersInv, OutcomeJustified
<1> QED
    BY <1>3, <1>4 DEF OrdersInv, OutcomeJustified

\* Steps that change the row of one order and no trade.
LEMMA RowChangeKeeps ==
    ASSUME OrdersInv, UNCHANGED <<clock, quote, trades>>, NEW o \in Orders,
           NEW row \in Order \cup {NoOrder}, order' = [order EXCEPT ![o] = row],
           order[o].status # "executed", row.status # "executed",
           row.status \in Terminal => (row.status = "expired" <=> row.completed >= row.expires),
           decision' \in [Orders -> Decision],
           \A p \in Orders : decision'[p] # NoDecision => decision[p] # NoDecision /\ p # o
    PROVE  OrdersInv'
<1>1. RowsTyped' /\ DecisionsLocked'
    BY DEF OrdersInv, RowsTyped, DecisionsLocked
<1>2. ASSUME NEW p \in Orders PROVE Justified(p)'
    <2>1. PurchasesOf(p)' = PurchasesOf(p)
        BY DEF PurchasesOf
    <2>2. CASE p = o
        <3>1. order'[p] = row
            BY <2>2 DEF OrdersInv, RowsTyped
        <3>2. PurchasesOf(p) = {}
            BY <2>2 DEF OrdersInv, OutcomeJustified, Justified
        <3> QED
            BY <2>1, <3>1, <3>2 DEF Justified
    <2>3. CASE p # o
        <3>1. order'[p] = order[p]
            BY <2>3 DEF OrdersInv, RowsTyped
        <3> QED
            BY <2>1, <3>1, JustifiedStays DEF OrdersInv, OutcomeJustified
    <2> QED
        BY <2>2, <2>3
<1> QED
    BY <1>1, <1>2 DEF OrdersInv, OutcomeJustified

\* The same, while nobody decides: a row that is not pending is not held.
LEMMA RowOnlyKeeps ==
    ASSUME OrdersInv, UNCHANGED <<clock, quote, trades, decision>>, NEW o \in Orders,
           NEW row \in Order \cup {NoOrder}, order' = [order EXCEPT ![o] = row],
           order[o].status \in {"absent", "draft"}, row.status \in {"absent", "draft", "pending"}
    PROVE  OrdersInv'
<1>1. /\ decision' \in [Orders -> Decision]
      /\ \A p \in Orders : decision'[p] # NoDecision => decision[p] # NoDecision /\ p # o
    BY DEF OrdersInv, RowsTyped, DecisionsLocked
<1> QED
    BY <1>1, RowChangeKeeps DEF Terminal

LEMMA DraftKeeps ==
    ASSUME OrdersInv, NEW o \in Orders, NEW u \in Users, NEW p \in Players,
           NEW n \in Quantities, NEW limit \in Limits, NEW lifetime \in Lifetimes,
           Draft(o, u, p, n, limit, lifetime)
    PROVE  OrdersInv'
<1> DEFINE row == [owner |-> u, player |-> p, quantity |-> n, limit |-> limit,
                   created |-> clock, expires |-> clock + lifetime, status |-> "draft",
                   completed |-> 0, purchase |-> 0]
<1>1. row \in Order /\ row.status = "draft"
    BY OrdersAssumption DEF OrdersInv, RowsTyped, Order
<1>2. order[o].status = "absent"
    BY DEF Draft, NoOrder
<1>3. /\ order' = [order EXCEPT ![o] = row]
      /\ UNCHANGED <<clock, quote, trades, decision>>
    BY DEF Draft, marketVars
<1> HIDE DEF row
<1> QED
    BY <1>1, <1>2, <1>3, RowOnlyKeeps

LEMMA WithdrawKeeps == ASSUME OrdersInv, NEW o \in Orders, Withdraw(o) PROVE OrdersInv'
<1>1. /\ order[o].status = "draft"
      /\ order' = [order EXCEPT ![o] = NoOrder]
      /\ UNCHANGED <<clock, quote, trades, decision>>
    BY DEF Withdraw, marketVars
<1>2. NoOrder.status = "absent"
    BY DEF NoOrder
<1> QED
    BY <1>1, <1>2, RowOnlyKeeps

LEMMA PlaceKeeps == ASSUME OrdersInv, NEW o \in Orders, Place(o) PROVE OrdersInv'
<1> DEFINE row == [order[o] EXCEPT !.status = "pending"]
<1>1. order[o] \in Order
    BY RowType DEF OrdersInv, Place
<1>2. row \in Order /\ row.status = "pending"
    BY <1>1 DEF Order
<1>3. order' = [order EXCEPT ![o] = row] /\ UNCHANGED <<clock, quote, trades, decision>>
    BY DEF Place, marketVars
<1> QED
    BY <1>1, <1>2, <1>3, RowOnlyKeeps DEF Place

\* Ending a pending order without a purchase: expired exactly when it is due.
LEMMA FinishKeeps ==
    ASSUME OrdersInv, NEW o \in Orders, order[o].status = "pending",
           NEW status \in {"rejected", "expired", "cancelled"},
           status = "expired" <=> Due(o), Finish(o, status, 0), Release(o),
           UNCHANGED <<clock, quote, trades>>
    PROVE  OrdersInv'
<1> DEFINE at == decision[o].at
           row == [order[o] EXCEPT !.status = status, !.completed = at, !.purchase = 0]
<1>1. order[o] \in Order /\ at \in Nat
    BY RowType DEF OrdersInv, RowsTyped, Decision
<1>2. /\ row \in Order
      /\ row.status = status /\ row.completed = at /\ row.expires = order[o].expires
    <2> HIDE DEF at
    <2> QED
        BY <1>1 DEF Order, Terminal
<1>3. order' = [order EXCEPT ![o] = row]
    BY DEF Finish
<1>4. row.status = "expired" <=> row.completed >= row.expires
    BY <1>2 DEF Due
<1>5. /\ decision' \in [Orders -> Decision]
      /\ \A p \in Orders : decision'[p] # NoDecision => decision[p] # NoDecision /\ p # o
    BY ReleaseHolds DEF OrdersInv
<1> HIDE DEF row
<1> QED
    BY <1>2, <1>3, <1>4, <1>5, RowChangeKeeps

LEMMA CancelKeeps == ASSUME OrdersInv, NEW o \in Orders, Cancel(o) PROVE OrdersInv'
<1>1. order[o].status = "pending"
    BY HolderDecides DEF OrdersInv
<1>2. UNCHANGED <<clock, quote, trades>>
    BY DEF Cancel, marketVars
<1> QED
    BY <1>1, <1>2, FinishKeeps DEF Cancel

\* The execution of an order: its only purchase, with its terms, within its limit.
LEMMA ExecuteKeeps ==
    ASSUME OrdersInv, NEW o \in Orders, order[o].status = "pending", ~Due(o), Marketable(o),
           ExchangeOnce(PurchaseOf(o)), Finish(o, "executed", Len(trades) + 1), Release(o),
           UNCHANGED clock
    PROVE  OrdersInv'
<1> DEFINE t == PurchaseOf(o)
           q == quote[order[o].player]
           n == Len(trades) + 1
           at == decision[o].at
           row == [order[o] EXCEPT !.status = "executed", !.completed = at, !.purchase = n]
<1>0. at \in Nat
    BY DEF OrdersInv, RowsTyped, Decision
<1>1. order[o] \in Order /\ t \in Terms /\ q \in Quote /\ t.player = order[o].player /\ t.key = o
    BY RowType DEF OrdersInv, RowsTyped, Order, PurchaseOf
<1>2. trades \in Seq(Trade) /\ n \in Nat /\ order \in [Orders -> Order \cup {NoOrder}]
    BY DEF OrdersInv, RowsTyped
<1>3. trades' = Append(trades, [terms |-> t, quote |-> q]) /\ quote' = quote
    BY <1>1 DEF ExchangeOnce, Exchange
<1>4. /\ row \in Order /\ row.status = "executed" /\ row.purchase = n /\ row.completed = at
      /\ row.expires = order[o].expires /\ row.limit = order[o].limit
      /\ row.owner = order[o].owner /\ row.player = order[o].player
      /\ row.quantity = order[o].quantity
    <2> HIDE DEF at, n
    <2> QED
        BY <1>0, <1>1, <1>2 DEF Order, Terminal
<1>5. order' = [order EXCEPT ![o] = row]
    BY DEF Finish
<1>6. /\ trades' \in Seq(Trade) /\ trades'[n] = [terms |-> t, quote |-> q]
      /\ \A m \in DOMAIN trades : trades'[m] = trades[m]
      /\ \A p \in Orders : PurchasesOf(p)' = IF p = o THEN PurchasesOf(p) \cup {n}
                                                      ELSE PurchasesOf(p)
    <2> HIDE DEF t, q
    <2> QED
        BY <1>1, <1>2, <1>3, PurchasesAfterTrade
<1>7. RowsTyped' /\ DecisionsLocked'
    <2>1. /\ decision' \in [Orders -> Decision]
          /\ \A p \in Orders : decision'[p] # NoDecision => decision[p] # NoDecision /\ p # o
        BY ReleaseHolds DEF OrdersInv
    <2> HIDE DEF row, t, q, n
    <2>2. \A p \in Orders : p # o => order'[p] = order[p]
        BY <1>2, <1>5
    <2> QED
        BY <1>2, <1>3, <1>4, <1>5, <1>6, <2>1, <2>2 DEF OrdersInv, RowsTyped, DecisionsLocked
<1>8. ASSUME NEW p \in Orders PROVE Justified(p)'
    <2>1. CASE p = o
        <3>1. order'[o] = row
            BY <1>2, <1>5
        <3>2. PurchasesOf(o)' = {n}
            BY <1>6 DEF OrdersInv, OutcomeJustified, Justified
        <3>3. PurchaseOf(o)' = t
            BY <3>1, <1>4 DEF PurchaseOf
        <3>4. q.price <= row.limit
            BY <1>4 DEF Marketable
        <3>5. ~(row.completed >= row.expires)
            BY <1>4 DEF Due
        <3> HIDE DEF row, t, q, n
        <3> QED
            BY <2>1, <1>4, <1>6, <3>1, <3>2, <3>3, <3>4, <3>5 DEF Justified
    <2>2. CASE p # o
        <3>1. order'[p] = order[p]
            BY <2>2, <1>2, <1>5
        <3>2. PurchasesOf(p)' = PurchasesOf(p)
            BY <2>2, <1>6
        <3> QED
            BY <1>6, <3>1, <3>2, JustifiedStays DEF OrdersInv, OutcomeJustified
    <2> QED
        BY <2>1, <2>2
<1> QED
    BY <1>7, <1>8 DEF OrdersInv, OutcomeJustified

LEMMA EvaluateKeeps ==
    ASSUME OrdersInv, NEW o \in Orders, Evaluate(o), UNCHANGED clock
    PROVE  OrdersInv'
<1>1. CASE UNCHANGED <<marketVars, order, decision>>
    BY <1>1, CalmKeepsOrders DEF marketVars, OrdersInv, RowsTyped
<1>2. CASE UNCHANGED <<marketVars, order>> /\ Release(o)
    <2>1. /\ decision' \in [Orders -> Decision]
          /\ \A p \in Orders : decision'[p] # NoDecision => order[p].status = "pending"
        BY <1>2, ReleaseHolds DEF OrdersInv, DecisionsLocked
    <2> QED
        BY <1>2, <2>1, FrameKeeps DEF marketVars, OrdersInv, RowsTyped
<1>3. CASE /\ order[o].status = "pending" /\ Due(o) /\ Finish(o, "expired", 0) /\ Release(o)
           /\ UNCHANGED marketVars
    BY <1>3, FinishKeeps DEF marketVars
<1>4. CASE /\ order[o].status = "pending" /\ ~Due(o) /\ Finish(o, "rejected", 0) /\ Release(o)
           /\ UNCHANGED marketVars
    BY <1>4, FinishKeeps DEF marketVars
<1>5. CASE /\ order[o].status = "pending" /\ ~Due(o) /\ Marketable(o) /\ Release(o)
           /\ ExchangeOnce(PurchaseOf(o)) /\ Finish(o, "executed", Len(trades) + 1)
    BY <1>5, ExecuteKeeps
<1> QED
    BY <1>1, <1>2, <1>3, <1>4, <1>5 DEF Evaluate, Decide

\* Steps that take or give up rows and decide no order.
LEMMA HoldingKeeps ==
    ASSUME OrdersInv,
           \/ \E o \in Orders : BeginCancel(o) \/ BeginAlone(o) \/ Abandon(o)
           \/ \E w \in Workers : BeginStep(w) \/ Fail(w)
    PROVE  OrdersInv'
<1>1. UNCHANGED <<marketVars, clock, order>>
    BY HoldingFrame DEF Fail
<1>2. /\ decision' \in [Orders -> Decision]
      /\ \A p \in Orders : decision'[p] # NoDecision => order[p].status = "pending"
    <2> DEFINE Held == /\ decision' \in [Orders -> Decision]
                       /\ \A p \in Orders : decision'[p] # NoDecision => order[p].status = "pending"
    <2>0. RowsTyped /\ DecisionsLocked
        BY DEF OrdersInv
    <2>1. ASSUME NEW o \in Orders, BeginCancel(o) \/ BeginAlone(o) PROVE Held
        BY <2>0, <2>1, LockHolds DEF BeginCancel, BeginAlone, BeginEvaluation
    <2>2. ASSUME NEW o \in Orders, Abandon(o) PROVE Held
        BY <2>0, <2>2, ReleaseHolds DEF Abandon, DecisionsLocked
    <2>3. ASSUME NEW w \in Workers, BeginStep(w) PROVE Held
        <3>1. PICK o \in Orders : order[o].status = "pending" /\ Lock(o, w)
            BY <2>3 DEF BeginStep, BeginEvaluation
        <3> QED
            BY <2>0, <3>1, LockHolds
    <2>4. ASSUME NEW w \in Workers, Fail(w) PROVE Held
        BY <2>0, <2>4 DEF Fail, RowsTyped, DecisionsLocked, Decision, NoDecision
    <2> QED
        BY <2>1, <2>2, <2>3, <2>4
<1> QED
    BY <1>1, <1>2, FrameKeeps DEF OrdersInv, RowsTyped, marketVars

\* Steps of the queue and of the pass that touch no order.
LEMMA QueueKeeps ==
    ASSUME OrdersInv, UNCHANGED <<marketVars, clock, order, decision>>
    PROVE  OrdersInv'
BY CalmKeepsOrders DEF OrdersInv, RowsTyped, marketVars

LEMMA WorkKeeps ==
    ASSUME OrdersInv, NEW w \in Workers, Work(w) \/ Fail(w)
    PROVE  OrdersInv'
<1>1. CASE StepMember(w)
    <2>1. PICK o \in Orders : Evaluate(o)
        BY <1>1, MemberDecided DEF OrdersInv
    <2> QED
        BY <1>1, <2>1, EvaluateKeeps DEF StepMember
<1>2. CASE BeginStep(w) \/ Fail(w)
    BY <1>2, HoldingKeeps
<1>3. CASE Take(w) \/ Accept(w) \/ RequestPass(w) \/ StepEnd(w) \/ Continue(w)
    BY <1>3, QueueKeeps DEF Take, Accept, RequestPass, StepEnd, Continue
<1> QED
    BY <1>1, <1>2, <1>3 DEF Work

LEMMA NextOrders == OrdersInv /\ [Next]_vars => OrdersInv'
<1> SUFFICES ASSUME OrdersInv, [Next]_vars PROVE OrdersInv'
    OBVIOUS
<1>1. ASSUME NEW p \in Players, NEW u \in Users, IssuePlayer(p, u) PROVE OrdersInv'
    BY <1>1, IssueKeeps
<1>2. ASSUME NEW t \in Terms, Trades(t) PROVE OrdersInv'
    BY <1>2, TradesKeeps
<1>3. ASSUME NEW p \in Players, NEW price \in Prices, Confirm(p, price) PROVE OrdersInv'
    BY <1>3, ConfirmKeeps
<1>4. CASE Tick
    BY <1>4, TickKeeps
<1>5. ASSUME NEW o \in Orders, NEW u \in Users, NEW p \in Players, NEW n \in Quantities,
             NEW limit \in Limits, NEW lifetime \in Lifetimes,
             Draft(o, u, p, n, limit, lifetime)
      PROVE  OrdersInv'
    BY <1>5, DraftKeeps
<1>6. ASSUME NEW o \in Orders,
             \/ Place(o) \/ Withdraw(o) \/ Cancel(o) \/ EvaluateAlone(o)
             \/ BeginCancel(o) \/ BeginAlone(o) \/ Abandon(o)
      PROVE  OrdersInv'
    <2>1. CASE EvaluateAlone(o)
        BY <2>1, EvaluateKeeps, HolderDecides DEF EvaluateAlone, OrdersInv
    <2>2. CASE BeginCancel(o) \/ BeginAlone(o) \/ Abandon(o)
        BY <2>2, HoldingKeeps
    <2> QED
        BY <1>6, <2>1, <2>2, PlaceKeeps, WithdrawKeeps, CancelKeeps
<1>7. ASSUME NEW w \in Workers, Work(w) \/ Fail(w) PROVE OrdersInv'
    BY <1>7, WorkKeeps
<1>8. CASE Sweep
    BY <1>8, QueueKeeps DEF Sweep
<1>9. CASE UNCHANGED vars
    BY <1>9, QueueKeeps DEF vars
<1> QED
    BY <1>1, <1>2, <1>3, <1>4, <1>5, <1>6, <1>7, <1>8, <1>9 DEF Next

-----------------------------------------------------------------------------
(* Theorems *)

\* The rows are well typed and every outcome is justified, in every behaviour.
THEOREM OrdersInvariance == Spec => []OrdersInv
BY InitOrders, NextOrders, PTL DEF Spec

\* An order is executed exactly when one purchase cites it, with its terms,
\* within its limit and before its expiry (evaluate_in_transaction!, decide,
\* execute), in every behaviour.
THEOREM OutcomesJustified == Spec => []OutcomeJustified
<1>1. OrdersInv => OutcomeJustified
    BY DEF OrdersInv
<1> QED
    BY <1>1, OrdersInvariance, PTL

-----------------------------------------------------------------------------
(* What was decided stands *)

\* What every step leaves of an order that was committed.
Stands(o) ==
    /\ order'[o].status \in Terminal \cup {"pending"}
    /\ order'[o].expires = order[o].expires
    /\ order[o].status \in Terminal => order'[o] = order[o]
    /\ Lapsed(o) => order'[o].status \in {"pending", "expired"}

Committed(o) == order[o].status \in Terminal \cup {"pending"}

LEMMA UnchangedStands ==
    ASSUME NEW o \in Orders, Committed(o), order'[o] = order[o]
    PROVE  Stands(o)
BY DEF Stands, Committed, Lapsed

\* Rewriting one row disturbs no other, and settles one that was pending.
LEMMA ChangeStands ==
    ASSUME RowsTyped, NEW p \in Orders, NEW row, order' = [order EXCEPT ![p] = row],
           \/ order[p].status \in {"absent", "draft"}
           \/ /\ order[p].status = "pending"
              /\ row.status \in Terminal /\ row.expires = order[p].expires
              /\ decision[p] = NoDecision \/ Due(p) => row.status = "expired",
           NEW o \in Orders, Committed(o)
    PROVE  Stands(o)
<1>1. CASE o # p
    BY <1>1, UnchangedStands DEF RowsTyped
<1>2. CASE o = p
    <2>1. order'[o] = row
        BY <1>2 DEF RowsTyped
    <2> QED
        BY <1>2, <2>1 DEF Stands, Committed, Lapsed, Terminal
<1> QED
    BY <1>1, <1>2

LEMMA FinishStands ==
    ASSUME RowsTyped, NEW p \in Orders, order[p].status = "pending", decision[p] # NoDecision,
           NEW status \in Terminal, NEW n, Finish(p, status, n), Due(p) => status = "expired",
           NEW o \in Orders, Committed(o)
    PROVE  Stands(o)
<1> DEFINE at == decision[p].at
           row == [order[p] EXCEPT !.status = status, !.completed = at, !.purchase = n]
<1>1. row.status = status /\ row.expires = order[p].expires
    BY RowType DEF Order
<1>2. order' = [order EXCEPT ![p] = row]
    BY DEF Finish
<1> HIDE DEF row
<1> QED
    BY <1>1, <1>2, ChangeStands

LEMMA EvaluateStands ==
    ASSUME RowsTyped, NEW p \in Orders, Evaluate(p), NEW o \in Orders, Committed(o)
    PROVE  Stands(o)
<1>1. CASE UNCHANGED order
    BY <1>1, UnchangedStands
<1>2. ASSUME NEW status \in {"expired", "executed", "rejected"}, NEW n,
             order[p].status = "pending", decision[p] # NoDecision,
             Due(p) => status = "expired", Finish(p, status, n)
      PROVE  Stands(o)
    BY <1>2, FinishStands DEF Terminal
<1> QED
    BY <1>1, <1>2 DEF Evaluate, Decide

LEMMA NextStands ==
    ASSUME RowsTyped, DecisionsLocked, [Next]_vars, NEW o \in Orders, Committed(o)
    PROVE  Stands(o)
<1>1. CASE UNCHANGED order
    BY <1>1, UnchangedStands
<1>2. ASSUME NEW p \in Orders, NEW u \in Users, NEW q \in Players, NEW n \in Quantities,
             NEW limit \in Limits, NEW lifetime \in Lifetimes,
             Draft(p, u, q, n, limit, lifetime)
      PROVE  Stands(o)
    <2>1. order[p].status = "absent"
        BY <1>2 DEF Draft, NoOrder
    <2> QED
        BY <1>2, <2>1, ChangeStands DEF Draft
<1>3. ASSUME NEW p \in Orders, Place(p) PROVE Stands(o)
    <2> DEFINE row == [order[p] EXCEPT !.status = "pending"]
    <2>1. order[p].status = "draft" /\ order' = [order EXCEPT ![p] = row]
        BY <1>3 DEF Place
    <2> HIDE DEF row
    <2> QED
        BY <2>1, ChangeStands
<1>4. ASSUME NEW p \in Orders, Withdraw(p) PROVE Stands(o)
    BY <1>4, ChangeStands DEF Withdraw
<1>5. ASSUME NEW p \in Orders, Cancel(p) PROVE Stands(o)
    <2> DEFINE status == IF Due(p) THEN "expired" ELSE "cancelled"
    <2>1. Finish(p, status, 0) /\ status \in Terminal /\ (Due(p) => status = "expired")
        BY <1>5 DEF Cancel, Terminal
    <2> HIDE DEF status
    <2> QED
        BY <1>5, <2>1, HolderDecides, FinishStands
<1>6. ASSUME NEW p \in Orders, EvaluateAlone(p) PROVE Stands(o)
    BY <1>6, HolderDecides, EvaluateStands
<1>7. ASSUME NEW w \in Workers, StepMember(w) PROVE Stands(o)
    BY <1>7, MemberDecided, EvaluateStands
<1>8. ASSUME NEW w \in Workers, ~StepMember(w), Work(w) \/ Fail(w) PROVE UNCHANGED order
    BY <1>8, QuietWork
<1>9. ASSUME NEW q \in Players, NEW u \in Users, IssuePlayer(q, u) PROVE UNCHANGED order
    BY <1>9 DEF IssuePlayer
<1>10. ASSUME NEW t \in Terms, Trades(t) PROVE UNCHANGED order
    BY <1>10 DEF Trades
<1>11. ASSUME NEW q \in Players, NEW price \in Prices, Confirm(q, price) PROVE UNCHANGED order
    BY <1>11 DEF Confirm
<1>12. ASSUME NEW p \in Orders, BeginCancel(p) \/ BeginAlone(p) \/ Abandon(p) PROVE UNCHANGED order
    BY <1>12, HoldingFrame
<1>13. CASE Tick \/ Sweep \/ UNCHANGED vars
    BY <1>1, <1>13 DEF Tick, Sweep, vars
<1> QED
    BY <1>1, <1>2, <1>3, <1>4, <1>5, <1>6, <1>7, <1>8, <1>9, <1>10, <1>11, <1>12, <1>13 DEF Next

\* A settled order is never rewritten, and one whose expiry was reached only
\* expires, unless who decides it had read the clock before: cancel_locked and
\* decide race over the row lock, the clock read under it and committed later.
THEOREM OutcomesStand == Spec => OutcomeStands
<1> DEFINE Standing ==
        \A o \in Orders :
            /\ order[o].status \in Terminal => order'[o] = order[o]
            /\ Lapsed(o) => order'[o].status \in {"pending", "expired"}
<1>1. RowsTyped /\ DecisionsLocked /\ [Next]_vars => [Standing]_vars
    BY NextStands DEF Stands, Committed, Lapsed
<1>2. OrdersInv => RowsTyped /\ DecisionsLocked
    BY DEF OrdersInv
<1> QED
    BY <1>1, <1>2, OrdersInvariance, PTL DEF Spec, OutcomeStands

-----------------------------------------------------------------------------
(* What an owner has read *)

LEMMA ReadStep == ReadNext => [Next]_vars
BY DEF ReadNext, ReadRow, ReadClock, Get, List, Respond

\* A row once read stays the row of its order.
LEMMA ReadStays ==
    ASSUME RowsTyped, DecisionsLocked, [Next]_vars, NEW o \in Orders, NEW row, ReadOf(o, row)
    PROVE  row # NoOrder =>
              /\ Visible(o)'
              /\ row.status \in Terminal \cup {"pending"}
              /\ row.expires = order'[o].expires
              /\ row.status \in Terminal => row = order'[o]
<1> SUFFICES ASSUME row # NoOrder
             PROVE  /\ Visible(o)'
                    /\ row.status \in Terminal \cup {"pending"}
                    /\ row.expires = order'[o].expires
                    /\ row.status \in Terminal => row = order'[o]
    OBVIOUS
<1>1. /\ Visible(o) /\ row.status \in Terminal \cup {"pending"} /\ row.expires = order[o].expires
      /\ row.status \in Terminal => row = order[o]
    BY DEF ReadOf
<1>2. Committed(o)
    BY <1>1, RowType DEF Visible, Committed, Order
<1>3. Stands(o)
    BY <1>2, NextStands
<1> QED
    BY <1>1, <1>3 DEF Stands, Visible, Terminal

\* The row of a committed order, read now.
LEMMA ReadNow ==
    ASSUME RowsTyped, NEW o \in Orders, Visible(o)
    PROVE  ReadOf(o, order[o]) /\ order[o] \in Order /\ order[o] # NoOrder
BY RowType DEF ReadOf, Visible, Order, NoOrder

LEMMA ClockAdvances ==
    ASSUME RowsTyped, [Next]_vars
    PROVE  clock' \in Nat /\ clock' >= clock
<1>1. clock \in Nat
    BY DEF RowsTyped
<1>2. CASE Tick
    BY <1>1, <1>2 DEF Tick
<1>3. ASSUME NEW o \in Orders,
             \/ Place(o) \/ Withdraw(o) \/ BeginCancel(o) \/ Cancel(o)
             \/ BeginAlone(o) \/ EvaluateAlone(o) \/ Abandon(o)
      PROVE  UNCHANGED clock
    BY <1>3, HoldingFrame DEF Place, Withdraw, Cancel, EvaluateAlone
<1>4. ASSUME NEW w \in Workers, Work(w) \/ Fail(w) PROVE UNCHANGED clock
    BY <1>4, QuietWork DEF StepMember
<1>5. ASSUME NEW o \in Orders, NEW u \in Users, NEW p \in Players, NEW n \in Quantities,
             NEW limit \in Limits, NEW lifetime \in Lifetimes,
             Draft(o, u, p, n, limit, lifetime)
      PROVE  UNCHANGED clock
    BY <1>5 DEF Draft
<1>6. ASSUME NEW p \in Players, NEW u \in Users, IssuePlayer(p, u) PROVE UNCHANGED clock
    BY <1>6 DEF IssuePlayer
<1>7. ASSUME NEW t \in Terms, Trades(t) PROVE UNCHANGED clock
    BY <1>7 DEF Trades
<1>8. ASSUME NEW p \in Players, NEW price \in Prices, Confirm(p, price) PROVE UNCHANGED clock
    BY <1>8 DEF Confirm
<1>9. CASE Sweep \/ UNCHANGED vars
    BY <1>1, <1>9 DEF Sweep, vars
<1> QED
    BY <1>1, <1>2, <1>3, <1>4, <1>5, <1>6, <1>7, <1>8, <1>9 DEF Next

LEMMA InitReads == Init /\ ReadInit => ReadsInv
BY DEF Init, ReadInit, ReadsInv, NoReading, Unseen, ReadOf, ReadBehind, NoOrder, Terminal

\* The orders move on while nothing is read.
LEMMA OrdersKeepReads ==
    ASSUME RowsTyped, DecisionsLocked, ReadsInv, [Next]_vars, UNCHANGED readVars
    PROVE  ReadsInv'
<1>1. ASSUME NEW o \in Orders PROVE ReadOf(o, reading[o].row)' /\ ReadOf(o, shown[o].row)'
    BY ReadStays DEF ReadsInv, ReadOf, readVars
<1>2. ASSUME NEW o \in Orders PROVE ReadBehind(o)'
    <2>1. shown[o].row # NoOrder => shown[o].row.expires \in Nat
        BY DEF ReadsInv, Order
    <2>2. clock \in Nat /\ clock' \in Nat /\ clock' >= clock
        BY ClockAdvances DEF RowsTyped
    <2> QED
        BY <2>1, <2>2 DEF ReadsInv, ReadBehind, readVars
<1> QED
    BY <1>1, <1>2 DEF ReadsInv, readVars

LEMMA BeginReadKeeps ==
    ASSUME RowsTyped, ReadsInv, NEW o \in Orders, ReadRow(o) \/ ReadClock(o)
    PROVE  ReadsInv'
<1>1. UNCHANGED <<order, clock, shown>>
    BY DEF ReadRow, ReadClock, vars
<1>2. PICK read \in [seen: {"row", "clock"}, row: Order \cup {NoOrder}, now: Nat] :
        /\ reading' = [reading EXCEPT ![o] = read]
        /\ ReadOf(o, read.row)
        /\ read.seen = "row" => read.row # NoOrder /\ read.row = order[o]
        /\ read.now <= clock /\ (read.seen = "clock" => read.now = clock)
    <2> DEFINE Read == [seen: {"row", "clock"}, row: Order \cup {NoOrder}, now: Nat]
    <2>1. CASE ReadRow(o)
        <3> DEFINE read == [seen |-> "row", row |-> order[o], now |-> 0]
        <3>1. ReadOf(o, order[o]) /\ order[o] \in Order /\ order[o] # NoOrder
            BY <2>1, ReadNow DEF ReadRow
        <3>2. read \in Read
            BY <3>1
        <3>3. reading' = [reading EXCEPT ![o] = read]
            BY <2>1 DEF ReadRow
        <3>4. read.now <= clock
            BY DEF RowsTyped
        <3> QED
            BY <3>1, <3>2, <3>3, <3>4
    <2>2. CASE ReadClock(o)
        <3> DEFINE read == [seen |-> "clock", row |-> NoOrder, now |-> clock]
        <3>1. read \in Read
            BY DEF RowsTyped
        <3>2. reading' = [reading EXCEPT ![o] = read]
            BY <2>2 DEF ReadClock
        <3>3. ReadOf(o, NoOrder)
            BY DEF ReadOf
        <3>4. read.now <= clock /\ read.now = clock
            BY DEF RowsTyped
        <3> QED
            BY <3>1, <3>2, <3>3, <3>4
    <2> QED
        BY <2>1, <2>2
<1>3. /\ reading'[o] = read /\ \A p \in Orders \ {o} : reading'[p] = reading[p]
      /\ reading' \in [Orders -> [seen: {"nothing", "row", "clock"},
                                  row: Order \cup {NoOrder}, now: Nat]]
    BY <1>2 DEF ReadsInv
<1>4. ASSUME NEW p \in Orders
      PROVE  /\ reading'[p].seen = "row" => reading'[p].row # NoOrder
             /\ ReadOf(p, reading[p].row)' /\ ReadOf(p, shown[p].row)'
             /\ ReadBehind(p)'
    <2>1. ReadOf(p, shown[p].row)'
        BY <1>1 DEF ReadsInv, ReadOf, Visible
    <2>2. CASE p # o
        BY <1>1, <1>3, <2>1, <2>2 DEF ReadsInv, ReadOf, ReadBehind, Visible
    <2>3. CASE p = o
        <3>1. ReadOf(o, reading[o].row)'
            BY <1>1, <1>2, <1>3 DEF ReadOf, Visible
        <3>2. shown[o].row.status \in Terminal => shown[o].row = order[o]
            BY DEF ReadsInv, ReadOf, NoOrder, Terminal
        <3>3. clock \in Nat /\ read.now \in Nat /\ read.now <= clock
              /\ (shown[o].reached => clock >= shown[o].row.expires)
            BY <1>2 DEF RowsTyped, ReadsInv, ReadBehind
        <3>4. read.seen = "clock" => read.now = clock
            BY <1>2
        <3>5. ReadBehind(o)'
            BY <1>1, <1>2, <1>3, <3>2, <3>3, <3>4 DEF ReadsInv, ReadBehind
        <3> QED
            BY <1>2, <1>3, <2>1, <2>3, <3>1, <3>5
    <2> QED
        BY <2>2, <2>3
<1> QED
    BY <1>1, <1>3, <1>4 DEF ReadsInv

\* Whatever was read when, an answer agrees with the answer before and with the
\* order as it stands.
LEMMA AnswerKeeps ==
    ASSUME RowsTyped, ReadsInv, NEW o \in Orders, Get(o) \/ List(o)
    PROVE  ReadsInv'
<1>1. UNCHANGED <<order, clock>> /\ reading' = [reading EXCEPT ![o] = NoReading]
    BY DEF Get, List, Respond, vars
<1>2. PICK answer \in [row: Order \cup {NoOrder}, reached: BOOLEAN] :
        /\ shown' = [shown EXCEPT ![o] = answer]
        /\ ReadOf(o, answer.row)
        /\ answer.reached => answer.row # NoOrder /\ clock >= answer.row.expires
    <2>1. CASE Get(o)
        <3>1. reading[o].row # NoOrder /\ ReadOf(o, reading[o].row)
              /\ reading[o].row \in Order \cup {NoOrder}
            BY <2>1 DEF Get, ReadsInv
        <3>2. At(reading[o].row, clock) \in [row: Order \cup {NoOrder}, reached: BOOLEAN]
            BY <3>1 DEF At
        <3> QED
            BY <2>1, <3>1, <3>2 DEF Get, Respond, At
    <2>2. CASE List(o) /\ Visible(o)
        <3>1. ReadOf(o, order[o]) /\ order[o] \in Order /\ order[o] # NoOrder
            BY <2>2, ReadNow
        <3>2. reading[o].now <= clock
            BY <2>2 DEF ReadsInv, ReadBehind, List
        <3>3. order[o].expires \in Nat /\ clock \in Nat /\ reading[o].now \in Nat
            BY <3>1 DEF Order, RowsTyped, ReadsInv
        <3>4. At(order[o], reading[o].now) \in [row: Order \cup {NoOrder}, reached: BOOLEAN]
            BY <3>1 DEF At
        <3> DEFINE answer == At(order[o], reading[o].now)
        <3>5. shown' = [shown EXCEPT ![o] = answer] /\ answer.row = order[o]
            BY <2>2 DEF List, Respond, At
        <3>6. answer.reached => reading[o].now >= order[o].expires
            BY DEF At
        <3>7. reading[o].now >= order[o].expires => clock >= order[o].expires
            BY <3>2, <3>3
        <3> HIDE DEF answer
        <3> QED
            BY <3>1, <3>4, <3>5, <3>6, <3>7 DEF answer
    <2>3. CASE List(o) /\ ~Visible(o)
        <3>1. shown' = [shown EXCEPT ![o] = shown[o]]
            BY <2>3 DEF List, Respond
        <3> QED
            BY <3>1 DEF ReadsInv, ReadBehind
    <2> QED
        BY <2>1, <2>2, <2>3
<1>3. /\ shown'[o] = answer /\ \A p \in Orders \ {o} : shown'[p] = shown[p]
      /\ reading'[o] = NoReading /\ \A p \in Orders \ {o} : reading'[p] = reading[p]
    BY <1>1, <1>2 DEF ReadsInv
<1>4. /\ reading' \in [Orders -> [seen: {"nothing", "row", "clock"},
                                  row: Order \cup {NoOrder}, now: Nat]]
      /\ shown' \in [Orders -> [row: Order \cup {NoOrder}, reached: BOOLEAN]]
    BY <1>1, <1>2 DEF ReadsInv, NoReading
<1>5. ASSUME NEW p \in Orders
      PROVE  /\ reading'[p].seen = "row" => reading'[p].row # NoOrder
             /\ ReadOf(p, reading[p].row)' /\ ReadOf(p, shown[p].row)'
             /\ ReadBehind(p)'
    <2>1. CASE p # o
        BY <1>1, <1>3, <2>1 DEF ReadsInv, ReadOf, ReadBehind, Visible
    <2>2. CASE p = o
        <3>1. ReadOf(o, reading[o].row)' /\ reading'[o].seen = "nothing"
            BY <1>3 DEF ReadOf, NoReading
        <3>2. ReadOf(o, shown[o].row)'
            BY <1>1, <1>2, <1>3 DEF ReadOf, Visible
        <3>3. clock \in Nat /\ clock' = clock /\ reading'[o].now = 0
            BY <1>1, <1>3 DEF RowsTyped, NoReading
        <3>4. shown'[o].reached => shown'[o].row # NoOrder /\ clock' >= shown'[o].row.expires
            BY <1>2, <1>3, <3>3
        <3>5. ReadBehind(o)'
            BY <3>1, <3>3, <3>4 DEF ReadBehind
        <3> QED
            BY <2>2, <3>1, <3>2, <3>5
    <2> QED
        BY <2>1, <2>2
<1> QED
    BY <1>4, <1>5 DEF ReadsInv

LEMMA NextReads ==
    ASSUME RowsTyped, DecisionsLocked, ReadsInv, [ReadNext]_<<vars, readVars>>
    PROVE  ReadsInv'
<1>1. CASE Next /\ UNCHANGED readVars
    BY <1>1, OrdersKeepReads
<1>2. CASE UNCHANGED <<vars, readVars>>
    BY <1>2, OrdersKeepReads
<1> QED
    BY <1>1, <1>2, BeginReadKeeps, AnswerKeeps DEF ReadNext

\* A row read as settled without expiring was completed before the expiry.
LEMMA SettledInTime ==
    ASSUME OrdersInv, NEW o \in Orders, NEW row, ReadOf(o, row), row # NoOrder,
           row.status \in Terminal \ {"expired"}
    PROVE  row = order[o] /\ row.completed < order[o].expires
<1>1. row = order[o] /\ Visible(o)
    BY DEF ReadOf
<1>2. order[o] \in Order
    BY <1>1, RowType DEF Visible, OrdersInv
<1>3. ~(order[o].completed >= order[o].expires)
    BY <1>1 DEF OrdersInv, OutcomeJustified, Justified
<1> QED
    BY <1>1, <1>2, <1>3 DEF Order

\* The latest answer takes nothing back of the one before.
Final(o) ==
    /\ shown[o].row.status \in Terminal => shown'[o].row = shown[o].row
    /\ shown[o].reached => shown'[o].reached
    /\ (shown[o].reached /\ shown'[o].row.status \in Terminal \ {"expired"})
         => shown'[o].row.completed < shown[o].row.expires

LEMMA AnswerFinal ==
    ASSUME OrdersInv, ReadsInv, NEW o \in Orders, Get(o) \/ List(o)
    PROVE  Final(o)
<1>1. shown \in [Orders -> [row: Order \cup {NoOrder}, reached: BOOLEAN]]
    BY DEF ReadsInv
<1>2. ReadOf(o, shown[o].row) /\ ReadOf(o, reading[o].row) /\ ReadBehind(o)
    BY DEF ReadsInv
<1>3. shown[o].row.status \in Terminal => shown[o].row = order[o] /\ Visible(o)
    BY <1>2 DEF ReadOf, NoOrder, Terminal
<1>4. shown[o].reached => /\ shown[o].row # NoOrder /\ shown[o].row.expires = order[o].expires
                          /\ clock >= order[o].expires
    BY <1>2 DEF ReadOf, ReadBehind
<1>5. CASE Get(o)
    <2>1. /\ shown'[o].row = reading[o].row
          /\ shown'[o].reached <=> clock >= reading[o].row.expires
          /\ reading[o].seen = "row"
        BY <1>1, <1>5 DEF Get, Respond, At
    <2>2. reading[o].row # NoOrder /\ reading[o].row.expires = order[o].expires
        BY <1>2, <2>1 DEF ReadOf, ReadsInv
    <2>3. shown[o].row.status \in Terminal => shown'[o].row = shown[o].row
        BY <1>2, <2>1 DEF ReadBehind
    <2>4. shown'[o].row.status \in Terminal \ {"expired"} => shown'[o].row.completed < order[o].expires
        BY <1>2, <2>1, <2>2, SettledInTime
    <2> QED
        BY <1>4, <2>1, <2>2, <2>3, <2>4 DEF Final
<1>6. CASE List(o) /\ Visible(o)
    <2>1. /\ shown'[o].row = order[o]
          /\ shown'[o].reached <=> reading[o].now >= order[o].expires
          /\ reading[o].seen = "clock"
        BY <1>1, <1>6 DEF List, Respond, At
    <2>2. ReadOf(o, order[o]) /\ order[o] # NoOrder
        BY <1>6, ReadNow DEF OrdersInv
    <2>3. shown'[o].row.status \in Terminal \ {"expired"} => shown'[o].row.completed < order[o].expires
        BY <2>1, <2>2, SettledInTime
    <2>4. shown[o].reached => shown'[o].reached
        BY <1>2, <1>4, <2>1 DEF ReadBehind
    <2> QED
        BY <1>3, <1>4, <2>1, <2>3, <2>4 DEF Final
<1>7. CASE List(o) /\ ~Visible(o)
    <2>1. shown'[o] = shown[o]
        BY <1>1, <1>7 DEF List, Respond
    <2>2. shown[o].row.status \notin Terminal
        BY <1>3, <1>7
    <2> QED
        BY <2>1, <2>2 DEF Final
<1> QED
    BY <1>5, <1>6, <1>7

LEMMA NextFinal ==
    ASSUME OrdersInv, ReadsInv, [ReadNext]_<<vars, readVars>>, NEW o \in Orders
    PROVE  Final(o)
<1>1. ASSUME shown'[o] = shown[o] PROVE Final(o)
    <2>1. ReadOf(o, shown[o].row) /\ (shown[o].reached => shown[o].row # NoOrder)
        BY DEF ReadsInv, ReadBehind
    <2>2. shown[o].row # NoOrder => shown[o].row.expires = order[o].expires
        BY <2>1 DEF ReadOf
    <2> QED
        BY <1>1, <2>1, <2>2, SettledInTime DEF Final
<1>2. ASSUME NEW p \in Orders, Get(p) \/ List(p) PROVE Final(o)
    <2>1. CASE p = o
        BY <1>2, <2>1, AnswerFinal
    <2>2. CASE p # o
        BY <1>1, <1>2, <2>2 DEF Get, List, Respond, ReadsInv
    <2> QED
        BY <2>1, <2>2
<1>3. CASE UNCHANGED shown
    BY <1>1, <1>3
<1> QED
    BY <1>2, <1>3 DEF ReadNext, readVars, ReadRow, ReadClock

\* What an owner has read stands, whatever is decided while he reads and however
\* late a decision commits (get, list, ConditionalOrderProjection.at).
THEOREM ShownFinal == ReadSpec => ShownIsFinal
<1>1. ReadSpec => Spec
    <2>1. [ReadNext]_<<vars, readVars>> => [Next]_vars
        BY ReadStep
    <2> QED
        BY <2>1, PTL DEF ReadSpec, Spec
<1>2. ReadSpec => []OrdersInv
    BY <1>1, OrdersInvariance, PTL
<1>3. OrdersInv => RowsTyped /\ DecisionsLocked
    BY DEF OrdersInv
<1>4. ReadSpec => []ReadsInv
    <2>2. RowsTyped /\ DecisionsLocked /\ ReadsInv /\ [ReadNext]_<<vars, readVars>> => ReadsInv'
        BY NextReads
    <2> QED
        BY <1>2, <1>3, <2>2, InitReads, PTL DEF ReadSpec
<1>5. OrdersInv /\ ReadsInv /\ [ReadNext]_<<vars, readVars>>
        => [\A o \in Orders : Final(o)]_<<vars, readVars>>
    BY NextFinal
<1>6. ReadSpec => [][\A o \in Orders : Final(o)]_<<vars, readVars>>
    BY <1>2, <1>4, <1>5, PTL DEF ReadSpec
<1> QED
    BY <1>6 DEF ShownIsFinal, Final

-----------------------------------------------------------------------------
(* What a pass captures *)

\* Earlier is a total order of the committed orders: the ids settle ties.
LEMMA EarlierOrders ==
    ASSUME RowsTyped, NEW o \in Orders, NEW p \in Orders, NEW q \in Orders,
           order[o].status # "absent", order[p].status # "absent", order[q].status # "absent"
    PROVE  /\ o = p \/ Earlier(o, p) \/ Earlier(p, o)
           /\ Earlier(o, p) /\ Earlier(p, q) => Earlier(o, q)
<1>1. order[o].created \in Nat /\ order[p].created \in Nat /\ order[q].created \in Nat
    BY RowType DEF Order
<1>2. o \in Nat /\ p \in Nat /\ q \in Nat
    BY OrdersAssumption
<1> QED
    BY <1>1, <1>2 DEF Earlier

Exist(S) == S \subseteq Orders /\ IsFiniteSet(S) /\ \A o \in S : order[o].status # "absent"

\* Of finitely many orders one is the last.
LEMMA LastOrder ==
    ASSUME RowsTyped, NEW S, Exist(S), S # {}
    PROVE  \E x \in S : \A y \in S \ {x} : Earlier(y, x)
<1> DEFINE Topped(T) == \E x \in T : \A y \in T \ {x} : Earlier(y, x)
           F == {T \in SUBSET S : T # {} /\ ~Topped(T)}
<1>1. ASSUME F # {} PROVE FALSE
    <2>1. PICK T \in F : \A u \in F : u \subseteq T => u = T
        <3>1. F \in SUBSET (SUBSET S) /\ IsFiniteSet(S)
            BY DEF Exist
        <3> HIDE DEF F
        <3> QED
            BY <1>1, <3>1, SmallestSubset
    <2>2. PICK x \in T : TRUE
        BY <2>1
    <2>3. PICK y \in T \ {x} : ~Earlier(y, x)
        BY <2>1
    <2>4. T \ {x} \in (SUBSET S) \ F /\ T \ {x} # {}
        BY <2>1, <2>3
    <2>5. PICK z \in T \ {x} : \A v \in (T \ {x}) \ {z} : Earlier(v, z)
        BY <2>4
    <2>6. \A v \in T : v \in Orders /\ order[v].status # "absent"
        BY <2>1 DEF Exist
    <2>7. CASE Earlier(x, z)
        <3>1. \A v \in T \ {z} : Earlier(v, z)
            BY <2>5, <2>7
        <3> QED
            BY <2>1, <3>1
    <2>8. CASE ~Earlier(x, z)
        <3>1. Earlier(z, x)
            BY <2>2, <2>5, <2>6, <2>8, EarlierOrders
        <3>2. \A v \in T \ {x} : Earlier(v, x)
            BY <2>2, <2>5, <2>6, <3>1, EarlierOrders
        <3> QED
            BY <2>1, <3>2
    <2> QED
        BY <2>7, <2>8
<1> QED
    BY <1>1

InOrder(q) == \A m, n \in DOMAIN q : m < n => Earlier(q[m], q[n])

\* Finitely many orders can be put in order, each once.
LEMMA OrderedExists ==
    ASSUME RowsTyped, NEW S, Exist(S)
    PROVE  \E q \in SetToSeqs(S) : InOrder(q)
<1> DEFINE Sorts(T) == \E q \in SetToSeqs(T) : InOrder(q)
           F == {T \in SUBSET S : ~Sorts(T)}
<1>1. ASSUME F # {} PROVE FALSE
    <2>1. PICK T \in F : \A u \in F : u \subseteq T => u = T
        <3>1. F \in SUBSET (SUBSET S) /\ IsFiniteSet(S)
            BY DEF Exist
        <3> HIDE DEF F
        <3> QED
            BY <1>1, <3>1, SmallestSubset
    <2>2. T \in SUBSET S /\ ~Sorts(T) /\ Exist(T) /\ IsFiniteSet(T)
        BY <2>1, FS_Subset DEF Exist
    <2>3. T # {}
        <3>1. ASSUME T = {} PROVE Sorts(T)
            <4>1. Cardinality(T) = 0
                BY <3>1, FS_EmptySet
            <4> DEFINE q == [k \in 1 .. 0 |-> k]
            <4>2. q \in SetToSeqs(T) /\ DOMAIN q = {}
                BY <4>1 DEF SetToSeqs
            <4> HIDE DEF q
            <4> QED
                BY <4>2 DEF InOrder
        <3> HIDE DEF Sorts
        <3> QED
            BY <2>2, <3>1
    <2>4. PICK x \in T : \A y \in T \ {x} : Earlier(y, x)
        BY <2>2, <2>3, LastOrder
    <2> DEFINE R == T \ {x}
               c == Cardinality(R)
    <2>5. IsFiniteSet(R) /\ c \in Nat /\ Cardinality(T) = c + 1
        <3>1. IsFiniteSet(R) /\ c = Cardinality(T) - 1
            BY <2>2, <2>4, FS_RemoveElement
        <3>2. c \in Nat /\ Cardinality(T) \in Nat
            BY <2>2, <3>1, FS_CardinalityType
        <3> QED
            BY <3>1, <3>2
    <2>6. Sorts(R)
        BY <2>1, <2>4
    <2>7. PICK r \in SetToSeqs(R) : InOrder(r)
        BY <2>6
    <2> DEFINE q == [k \in 1 .. c + 1 |-> IF k = c + 1 THEN x ELSE r[k]]
    <2>8. /\ r \in [1 .. c -> R] /\ \A i, j \in 1 .. c : i # j => r[i] # r[j]
        BY <2>7 DEF SetToSeqs
    <2>9. /\ q \in [1 .. c + 1 -> T] /\ q[c + 1] = x
          /\ \A k \in 1 .. c : q[k] = r[k] /\ q[k] \in R
        <3>1. c + 1 \in 1 .. c + 1 /\ \A k \in 1 .. c : k \in 1 .. c + 1 /\ k # c + 1
            BY <2>5
        <3>2. \A k \in 1 .. c : r[k] \in R
            BY <2>8
        <3>3. \A k \in 1 .. c + 1 : k # c + 1 => k \in 1 .. c
            BY <2>5
        <3>4. ASSUME NEW k \in 1 .. c + 1
              PROVE  (IF k = c + 1 THEN x ELSE r[k]) \in T
            BY <2>4, <3>2, <3>3
        <3> HIDE DEF c
        <3> QED
            BY <3>1, <3>2, <3>4
    <2>a. \A k \in 1 .. c + 1 : k = c + 1 \/ k \in 1 .. c
        BY <2>5
    <2> HIDE DEF q, c
    <2>10. q \in SetToSeqs(T)
        <3>1. ASSUME NEW i \in 1 .. c + 1, NEW j \in 1 .. c + 1, i # j PROVE q[i] # q[j]
            BY <2>8, <2>9, <2>a, <3>1
        <3> QED
            BY <2>5, <2>9, <3>1 DEF SetToSeqs
    <2>11. InOrder(q)
        <3>1. ASSUME NEW m \in 1 .. c + 1, NEW n \in 1 .. c + 1, m < n
              PROVE  Earlier(q[m], q[n])
            <4>1. m \in 1 .. c
                BY <2>5, <3>1
            <4>2. CASE n = c + 1
                BY <2>4, <2>9, <4>1, <4>2
            <4>3. CASE n \in 1 .. c
                BY <2>7, <2>8, <2>9, <3>1, <4>1, <4>3 DEF InOrder
            <4> QED
                BY <2>a, <4>2, <4>3
        <3>2. DOMAIN q = 1 .. c + 1
            BY <2>9
        <3> QED
            BY <3>1, <3>2 DEF InOrder
    <2> QED
        BY <2>2, <2>10, <2>11
<1> QED
    BY <1>1

\* A captured pass has every pending order once, in order.
LEMMA CaptureMembers ==
    ASSUME RowsTyped, FinitelyManyOrders
    PROVE  /\ Capture.members \in Seq(Pending)
           /\ \A o \in Pending : \E n \in 1 .. Len(Capture.members) : Capture.members[n] = o
           /\ InOrder(Capture.members)
           /\ Pending = {} <=> Capture.members = <<>>
<1> DEFINE members == CHOOSE q \in SetToSeqs(Pending) : InOrder(q)
           c == Cardinality(Pending)
<1>1. Exist(Pending)
    <2>1. Pending \in SUBSET {o \in Orders : order[o].status # "absent"}
        BY DEF Pending
    <2>2. IsFiniteSet(Pending)
        BY <2>1, FS_Subset DEF FinitelyManyOrders
    <2> QED
        BY <2>2 DEF Pending, Exist
<1>2. members \in SetToSeqs(Pending) /\ InOrder(members)
    BY <1>1, OrderedExists
<1>3. Capture.members = members
    BY DEF Capture, InOrder
<1>4. IsFiniteSet(Pending) /\ c \in Nat /\ IsFiniteSet(1 .. c) /\ Cardinality(1 .. c) = c
    BY <1>1, FS_CardinalityType, FS_Interval DEF Exist
<1> HIDE DEF members, c
<1>5. members \in [1 .. c -> Pending] /\ \A i, j \in 1 .. c : i # j => members[i] # members[j]
    BY <1>2 DEF SetToSeqs, c
<1>6. members \in Injection(1 .. c, Pending)
    BY <1>5 DEF Injection, IsInjective
<1>7. members \in Surjection(1 .. c, Pending)
    BY <1>4, <1>6, FS_Injection DEF c
<1>8. members \in Seq(Pending) /\ Len(members) = c
    BY <1>4, <1>5
<1>9. \A o \in Pending : \E n \in 1 .. c : members[n] = o
    BY <1>7 DEF Surjection
<1>10. Pending = {} <=> members = <<>>
    BY <1>4, <1>5, <1>8, <1>9
<1> QED
    BY <1>2, <1>3, <1>8, <1>9, <1>10

-----------------------------------------------------------------------------
(* The orders and the market *)

\* A step of the orders, of the pass and of the workers is a step of the market
\* or does not touch it.
LEMMA StepOfMarket ==
    ASSUME RowsTyped, DecisionsLocked, [Next]_vars
    PROVE  [MarketNext]_marketVars
<1>1. ASSUME NEW o \in Orders, Evaluate(o) PROVE [MarketNext]_marketVars
    <2>1. \/ UNCHANGED marketVars
          \/ order[o].status = "pending" /\ ExchangeOnce(PurchaseOf(o))
        BY <1>1 DEF Evaluate, Decide, marketVars
    <2>2. order[o].status = "pending" => PurchaseOf(o) \in Terms
        BY RowType
    <2> QED
        BY <2>1, <2>2 DEF MarketNext
<1>2. ASSUME NEW p \in Players, NEW u \in Users, IssuePlayer(p, u) PROVE MarketNext
    BY <1>2 DEF IssuePlayer, MarketNext
<1>3. ASSUME NEW t \in Terms, Trades(t) PROVE MarketNext
    BY <1>3 DEF Trades, MarketNext
<1>4. ASSUME NEW p \in Players, NEW price \in Prices, Confirm(p, price) PROVE MarketNext
    BY <1>4 DEF Confirm, MarketNext
<1>5. ASSUME NEW w \in Workers, StepMember(w) PROVE [MarketNext]_marketVars
    BY <1>1, <1>5, MemberDecided
<1>6. ASSUME NEW w \in Workers, ~StepMember(w), Work(w) \/ Fail(w) PROVE UNCHANGED marketVars
    BY <1>6, QuietWork
<1>7. ASSUME NEW o \in Orders,
             \/ Place(o) \/ Withdraw(o) \/ Cancel(o)
             \/ BeginCancel(o) \/ BeginAlone(o) \/ Abandon(o)
      PROVE  UNCHANGED marketVars
    BY <1>7, HoldingFrame DEF Place, Withdraw, Cancel
<1>8. ASSUME NEW o \in Orders, NEW u \in Users, NEW p \in Players, NEW n \in Quantities,
             NEW limit \in Limits, NEW lifetime \in Lifetimes,
             Draft(o, u, p, n, limit, lifetime)
      PROVE  UNCHANGED marketVars
    BY <1>8 DEF Draft
<1>9. CASE Tick \/ Sweep \/ UNCHANGED vars
    BY <1>9 DEF Tick, Sweep, vars
<1>10. ASSUME NEW o \in Orders, EvaluateAlone(o) PROVE [MarketNext]_marketVars
    BY <1>1, <1>10, HolderDecides
<1> QED
    BY <1>2, <1>3, <1>4, <1>5, <1>6, <1>7, <1>8, <1>9, <1>10 DEF Next

\* Orders buy through the market and only through it: whatever the passes, the
\* jobs and the owners do is an execution of the atomic market.
THEOREM OrdersImplementMarket == Spec => MarketSpec
<1>1. Init => MarketInit
    BY DEF Init
<1>2. OrdersInv => RowsTyped /\ DecisionsLocked
    BY DEF OrdersInv
<1> QED
    BY <1>1, <1>2, StepOfMarket, OrdersInvariance, PTL DEF Spec, MarketSpec

\* Hence no execution of an order creates or destroys tokens or loses an update.
THEOREM OrdersConserveTokens == Spec => [](SupplyConserved /\ HistoryExplainsHoldings)
BY OrdersImplementMarket, TokensAreConserved, HistoryAddsUp, PTL

-----------------------------------------------------------------------------
(* The queue *)

Slot == [job: {"none", "wake", "continuation", "recovery", "quote"},
         at: {"idle", "accept", "request", "step", "continue"},
         left: 0 .. Budget, todo: SUBSET Event]

JobRows == [wake: Nat, continuation: Nat, recovery: Nat, quote: SUBSET Event]

\* The parts of QueueInv that the market does not settle.
SlotOK(state) ==
    /\ state \in Slot
    /\ state.job = "none" => state = IdleWorker
    /\ state.at \in {"accept", "request", "step"} => state.left > 0
    /\ state.at # "accept" => state.todo = {}

PassOK(row) ==
    /\ row \in [running: BOOLEAN, members: Seq(Orders), cursor: Nat, rescan: BOOLEAN]
    /\ row.cursor <= Len(row.members)
    /\ row.running <=> row.members # <<>>

LEMMA QueueParts ==
    QueueInv <=> /\ MarketTypeOK
                 /\ clock \in 0 .. MaxClock /\ failures \in 0 .. MaxFailures
                 /\ order \in [Orders -> Order \cup {NoOrder}]
                 /\ decision \in [Orders -> Decision]
                 /\ FinitelyManyOrders
                 /\ PassOK(pass)
                 /\ events \subseteq Event /\ jobs \in JobRows
                 /\ worker \in [Workers -> Slot] /\ \A w \in Workers : SlotOK(worker[w])
BY DEF QueueInv, TypeOK, WorkersConsistent, PassOK, SlotOK, Slot, JobRows

LEMMA IdleSlot == SlotOK(IdleWorker)
BY OrdersAssumption DEF SlotOK, Slot, IdleWorker

\* A slot's new state leaves the other slots as they are.
LEMMA BecomeKeeps ==
    ASSUME worker \in [Workers -> Slot], \A w \in Workers : SlotOK(worker[w]),
           NEW w \in Workers, NEW state, SlotOK(state), Become(w, state)
    PROVE  worker' \in [Workers -> Slot] /\ \A v \in Workers : SlotOK(worker'[v])
BY DEF Become, SlotOK

LEMMA CaptureOK ==
    ASSUME RowsTyped, FinitelyManyOrders
    PROVE  PassOK(Capture)
<1> DEFINE members == Capture.members
<1>1. members \in Seq(Pending) /\ (Pending = {} <=> members = <<>>)
    BY CaptureMembers
<1>2. members \in Seq(Orders) /\ Len(members) \in Nat
    <2>1. Pending \subseteq Orders
        BY DEF Pending
    <2> HIDE DEF members
    <2> QED
        BY <1>1, <2>1
<1>3. Capture = [running |-> Pending # {}, members |-> members, cursor |-> 0, rescan |-> FALSE]
    BY DEF Capture
<1> HIDE DEF members
<1>4. /\ Capture \in [running: BOOLEAN, members: Seq(Orders), cursor: Nat, rescan: BOOLEAN]
      /\ Capture.cursor = 0 /\ Capture.members = members
      /\ Capture.running <=> Pending # {}
    BY <1>2, <1>3
<1> QED
    BY <1>1, <1>2, <1>4 DEF PassOK

LEMMA IdlePassOK == PassOK(IdlePass)
BY DEF PassOK, IdlePass

LEMMA InitQueue ==
    ASSUME Init, MarketTypeOK
    PROVE  QueueInv
<1>1. FinitelyManyOrders
    <2>1. {o \in Orders : order[o].status # "absent"} = {}
        BY DEF Init, NoOrder
    <2> QED
        BY <2>1, FS_EmptySet DEF FinitelyManyOrders
<1>2. \A w \in Workers : SlotOK(worker[w])
    BY IdleSlot DEF Init
<1>3. worker \in [Workers -> Slot]
    BY IdleSlot DEF Init, SlotOK
<1>4. /\ clock \in 0 .. MaxClock /\ failures \in 0 .. MaxFailures
      /\ events \subseteq Event /\ jobs \in JobRows
      /\ order \in [Orders -> Order \cup {NoOrder}]
      /\ decision \in [Orders -> Decision]
    BY OrdersAssumption DEF Init, JobRows, Decision, NoDecision
<1>5. PassOK(pass)
    BY IdlePassOK DEF Init
<1> QED
    BY <1>1, <1>2, <1>3, <1>4, <1>5, QueueParts

\* The orders that exist: one step adds at most one.
LEMMA FewOrders ==
    ASSUME RowsTyped, FinitelyManyOrders, NEW o \in Orders, NEW row,
           order' = [order EXCEPT ![o] = row]
    PROVE  FinitelyManyOrders'
<1> DEFINE before == {p \in Orders : order[p].status # "absent"}
           after == {p \in Orders : order'[p].status # "absent"}
<1>1. after \subseteq before \cup {o}
    BY DEF RowsTyped
<1>2. IsFiniteSet(before \cup {o})
    BY FS_AddElement DEF FinitelyManyOrders
<1>3. IsFiniteSet(after)
    BY <1>1, <1>2, FS_Subset
<1> QED
    BY <1>3 DEF FinitelyManyOrders

LEMMA NextFewOrders ==
    ASSUME RowsTyped, DecisionsLocked, FinitelyManyOrders, [Next]_vars
    PROVE  FinitelyManyOrders'
<1>1. CASE UNCHANGED order
    BY <1>1 DEF FinitelyManyOrders
<1>2. ASSUME NEW o \in Orders, Evaluate(o) PROVE FinitelyManyOrders'
    BY <1>1, <1>2, FewOrders DEF Evaluate, Decide, Finish
<1>3. ASSUME NEW o \in Orders, Place(o) \/ Withdraw(o) \/ Cancel(o) PROVE FinitelyManyOrders'
    BY <1>3, FewOrders DEF Place, Withdraw, Cancel, Finish
<1>4. ASSUME NEW o \in Orders, NEW u \in Users, NEW p \in Players, NEW n \in Quantities,
             NEW limit \in Limits, NEW lifetime \in Lifetimes,
             Draft(o, u, p, n, limit, lifetime)
      PROVE  FinitelyManyOrders'
    BY <1>4, FewOrders DEF Draft
<1>5. ASSUME NEW w \in Workers, ~StepMember(w), Work(w) \/ Fail(w) PROVE UNCHANGED order
    BY <1>5, QuietWork
<1>6. ASSUME NEW p \in Players, NEW u \in Users, IssuePlayer(p, u) PROVE UNCHANGED order
    BY <1>6 DEF IssuePlayer
<1>7. ASSUME NEW p \in Players, NEW price \in Prices, Confirm(p, price) PROVE UNCHANGED order
    BY <1>7 DEF Confirm
<1>8. CASE Tick \/ Sweep \/ UNCHANGED vars \/ \E t \in Terms : Trades(t)
    BY <1>1, <1>8 DEF Tick, Sweep, vars, Trades
<1>9. ASSUME NEW w \in Workers, StepMember(w) PROVE FinitelyManyOrders'
    BY <1>2, <1>9, MemberDecided
<1>10. ASSUME NEW o \in Orders,
              EvaluateAlone(o) \/ BeginCancel(o) \/ BeginAlone(o) \/ Abandon(o)
       PROVE  FinitelyManyOrders'
    BY <1>1, <1>2, <1>10, HolderDecides, HoldingFrame
<1> QED
    BY <1>1, <1>3, <1>4, <1>5, <1>6, <1>7, <1>8, <1>9, <1>10 DEF Next

\* Taking a job: the event a quote job accepts was queued with it.
LEMMA TakeKeeps ==
    ASSUME QueueInv, NEW w \in Workers, Take(w)
    PROVE  /\ jobs' \in JobRows
           /\ worker' \in [Workers -> Slot] /\ \A v \in Workers : SlotOK(worker'[v])
<1> DEFINE state(job, at, todo) == [job |-> job, at |-> at, left |-> Budget, todo |-> todo]
<1>1. /\ jobs \in JobRows /\ events \subseteq Event
      /\ worker \in [Workers -> Slot] /\ \A v \in Workers : SlotOK(worker[v])
    BY QueueParts
<1>2. Budget \in Nat \ {0}
    BY OrdersAssumption
<1>3. ASSUME NEW job \in {"wake", "continuation", "recovery", "quote"},
             NEW at \in {"accept", "request", "step"}, NEW todo \in SUBSET Event,
             at # "accept" => todo = {}, Run(w, job, at, todo)
      PROVE  worker' \in [Workers -> Slot] /\ \A v \in Workers : SlotOK(worker'[v])
    <2>1. SlotOK(state(job, at, todo))
        BY <1>2, <1>3 DEF SlotOK, Slot
    <2>2. Become(w, state(job, at, todo))
        BY <1>3 DEF Run
    <2> HIDE DEF state
    <2> QED
        BY <1>1, <2>1, <2>2, BecomeKeeps
<1>4. jobs' \in JobRows
    <2>1. \A n \in Nat : n > 0 => n - 1 \in Nat
        OBVIOUS
    <2>2. \/ jobs.wake > 0 /\ jobs' = [jobs EXCEPT !.wake = @ - 1]
          \/ jobs.continuation > 0 /\ jobs' = [jobs EXCEPT !.continuation = @ - 1]
          \/ jobs.recovery > 0 /\ jobs' = [jobs EXCEPT !.recovery = @ - 1]
          \/ \E e \in jobs.quote : jobs' = [jobs EXCEPT !.quote = @ \ {e}]
        BY DEF Take
    <2> QED
        BY <1>1, <2>1, <2>2 DEF JobRows
<1>5. \/ Run(w, "wake", "request", {})
      \/ Run(w, "continuation", "step", {})
      \/ Run(w, "recovery", "request", {})
      \/ Run(w, "recovery", "accept", events)
      \/ \E e \in jobs.quote : Run(w, "quote", "accept", {e})
    BY DEF Take
<1>6. \A e \in jobs.quote : {e} \in SUBSET Event
    BY <1>1 DEF JobRows
<1>7. worker' \in [Workers -> Slot] /\ \A v \in Workers : SlotOK(worker'[v])
    <2>1. CASE Run(w, "wake", "request", {})
        BY <1>3, <2>1
    <2>2. CASE Run(w, "continuation", "step", {})
        BY <1>3, <2>2
    <2>3. CASE Run(w, "recovery", "request", {})
        BY <1>3, <2>3
    <2>4. CASE Run(w, "recovery", "accept", events)
        BY <1>1, <1>3, <2>4
    <2>5. ASSUME NEW e \in jobs.quote, Run(w, "quote", "accept", {e})
          PROVE  worker' \in [Workers -> Slot] /\ \A v \in Workers : SlotOK(worker'[v])
        BY <1>3, <1>6, <2>5
    <2> QED
        BY <1>5, <2>1, <2>2, <2>3, <2>4, <2>5
<1> QED
    BY <1>4, <1>7

LEMMA AcceptKeeps ==
    ASSUME QueueInv, NEW w \in Workers, Accept(w)
    PROVE  /\ jobs' \in JobRows /\ events' \subseteq Event
           /\ worker' \in [Workers -> Slot] /\ \A v \in Workers : SlotOK(worker'[v])
<1>1. /\ jobs \in JobRows /\ events \subseteq Event /\ SlotOK(worker[w]) /\ worker[w].at = "accept"
      /\ worker \in [Workers -> Slot] /\ \A v \in Workers : SlotOK(worker[v])
    BY QueueParts DEF Accept
<1>2. jobs' \in JobRows /\ events' \subseteq Event
    BY <1>1 DEF Accept, JobRows
<1>3. PICK e \in worker[w].todo :
        LET rest == worker[w].todo \ {e}
        IN  \/ rest # {} /\ Become(w, [worker[w] EXCEPT !.todo = rest])
            \/ Become(w, [worker[w] EXCEPT !.todo = {}, !.at = "request"])
            \/ Become(w, IdleWorker)
    BY DEF Accept
<1>4. /\ worker[w] \in Slot /\ worker[w].left > 0
      /\ worker[w].job \in {"wake", "continuation", "recovery", "quote"}
    BY <1>1 DEF SlotOK, Slot, IdleWorker
<1>5. SlotOK([worker[w] EXCEPT !.todo = @ \ {e}])
    BY <1>1, <1>4 DEF SlotOK, Slot
<1>6. SlotOK([worker[w] EXCEPT !.todo = {}, !.at = "request"])
    BY <1>1, <1>4 DEF SlotOK, Slot
<1> QED
    BY <1>1, <1>2, <1>3, <1>5, <1>6, IdleSlot, BecomeKeeps

\* What a worker does to the pass leaves the row of the pass in order.
LEMMA PassKeeps ==
    ASSUME QueueInv, RowsTyped, NEW w \in Workers, RequestPass(w) \/ StepMember(w) \/ StepEnd(w)
    PROVE  PassOK(pass')
<1>1. PassOK(pass) /\ PassOK(Capture) /\ PassOK(IdlePass)
    BY QueueParts, CaptureOK, IdlePassOK
<1>2. PassOK([pass EXCEPT !.rescan = TRUE])
    BY <1>1 DEF PassOK
<1>3. pass.cursor < Len(pass.members) => PassOK([pass EXCEPT !.cursor = @ + 1])
    <2> DEFINE row == [pass EXCEPT !.cursor = @ + 1]
    <2>1. /\ pass.cursor \in Nat /\ pass.members \in Seq(Orders) /\ Len(pass.members) \in Nat
          /\ pass.running <=> pass.members # <<>>
        BY <1>1 DEF PassOK
    <2>2. /\ row \in [running: BOOLEAN, members: Seq(Orders), cursor: Nat, rescan: BOOLEAN]
          /\ row.members = pass.members /\ row.cursor = pass.cursor + 1
          /\ row.running = pass.running
        BY <1>1, <2>1 DEF PassOK
    <2> HIDE DEF row
    <2>3. pass.cursor < Len(pass.members) => row.cursor <= Len(row.members)
        BY <2>1, <2>2
    <2>4. pass.cursor < Len(pass.members) => PassOK(row)
        BY <2>1, <2>2, <2>3 DEF PassOK
    <2> QED
        BY <2>4 DEF row
<1> QED
    BY <1>1, <1>2, <1>3 DEF RequestPass, Requested, StepMember, StepEnd, Completed

LEMMA RunKeeps ==
    ASSUME QueueInv, NEW w \in Workers,
           RequestPass(w) \/ StepMember(w) \/ StepEnd(w) \/ Continue(w) \/ Fail(w)
    PROVE  worker' \in [Workers -> Slot] /\ \A v \in Workers : SlotOK(worker'[v])
<1>1. /\ SlotOK(worker[w])
      /\ worker \in [Workers -> Slot] /\ \A v \in Workers : SlotOK(worker[v])
    BY QueueParts
<1>2. CASE RequestPass(w)
    <2> DEFINE at == IF worker[w].job = "recovery" THEN "continue" ELSE "step"
    <2>1. SlotOK([worker[w] EXCEPT !.at = at])
        BY <1>1, <1>2 DEF RequestPass, SlotOK, Slot, IdleWorker
    <2>2. Become(w, [worker[w] EXCEPT !.at = at])
        BY <1>2 DEF RequestPass, AfterRequest
    <2> HIDE DEF at
    <2> QED
        BY <1>1, <2>1, <2>2, BecomeKeeps
<1>3. CASE StepMember(w)
    <2> DEFINE at == IF worker[w].left = 1 THEN "continue" ELSE "step"
               state == [worker[w] EXCEPT !.left = @ - 1, !.at = at]
    <2>1. SlotOK(state)
        <3>1. /\ worker[w] \in Slot /\ worker[w].at = "step"
              /\ worker[w].left > 0 /\ worker[w].todo = {} /\ worker[w].job # "none"
            BY <1>1, <1>3 DEF StepMember, SlotOK, IdleWorker
        <3>2. worker[w].left \in Nat /\ worker[w].left - 1 \in 0 .. Budget
            BY <3>1, OrdersAssumption DEF Slot
        <3>3. worker[w].left = 1 \/ worker[w].left - 1 > 0
            BY <3>1, <3>2
        <3> DEFINE left == worker[w].left - 1
        <3>4. at \in {"continue", "step"} /\ (at = "step" => left > 0) /\ left \in 0 .. Budget
            BY <3>2, <3>3
        <3>5. state = [worker[w] EXCEPT !.left = left, !.at = at]
            OBVIOUS
        <3> HIDE DEF at, state, left
        <3>6. /\ state \in Slot /\ state.at = at /\ state.left = left
              /\ state.todo = {} /\ state.job # "none"
            BY <3>1, <3>4, <3>5 DEF Slot
        <3> QED
            BY <3>4, <3>6 DEF SlotOK
    <2>2. Become(w, state)
        BY <1>3 DEF StepMember
    <2> HIDE DEF state
    <2> QED
        BY <1>1, <2>1, <2>2, BecomeKeeps
<1>4. CASE StepEnd(w) \/ Continue(w) \/ Fail(w)
    BY <1>1, <1>4, IdleSlot, BecomeKeeps DEF StepEnd, Continue, Fail
<1> QED
    BY <1>2, <1>3, <1>4

LEMMA JobsKeep ==
    ASSUME QueueInv, NEW w \in Workers, Continue(w) \/ Fail(w)
    PROVE  jobs' \in JobRows
<1>1. /\ jobs \in JobRows /\ SlotOK(worker[w])
    BY QueueParts
<1>2. CASE Continue(w)
    BY <1>1, <1>2 DEF Continue, JobRows
<1>3. CASE Fail(w)
    <2>1. worker[w].job \in {"wake", "continuation", "recovery", "quote"}
          /\ worker[w].todo \subseteq Event
        BY <1>1, <1>3 DEF SlotOK, Slot, Fail
    <2> QED
        BY <1>1, <1>3, <2>1 DEF Fail, JobRows
<1> QED
    BY <1>2, <1>3

LEMMA WorkQueue ==
    ASSUME QueueInv, RowsTyped, NEW w \in Workers, Work(w) \/ Fail(w)
    PROVE  /\ clock' \in 0 .. MaxClock /\ failures' \in 0 .. MaxFailures
           /\ PassOK(pass')
           /\ events' \subseteq Event /\ jobs' \in JobRows
           /\ worker' \in [Workers -> Slot] /\ \A v \in Workers : SlotOK(worker'[v])
<1>0. /\ clock \in 0 .. MaxClock /\ failures \in 0 .. MaxFailures
      /\ PassOK(pass) /\ events \subseteq Event /\ jobs \in JobRows
    BY QueueParts
<1>1. CASE Take(w)
    BY <1>0, <1>1, TakeKeeps DEF Take
<1>2. CASE Accept(w)
    BY <1>0, <1>2, AcceptKeeps DEF Accept
<1>3. CASE RequestPass(w)
    BY <1>0, <1>3, PassKeeps, RunKeeps DEF RequestPass
<1>4. CASE StepMember(w)
    BY <1>0, <1>4, PassKeeps, RunKeeps DEF StepMember
<1>5. CASE StepEnd(w)
    BY <1>0, <1>5, PassKeeps, RunKeeps DEF StepEnd
<1>6. CASE Continue(w)
    BY <1>0, <1>6, JobsKeep, RunKeeps DEF Continue
<1>7. CASE Fail(w)
    <2>1. failures' \in 0 .. MaxFailures
        BY <1>0, <1>7, OrdersAssumption DEF Fail
    <2> QED
        BY <1>0, <1>7, <2>1, JobsKeep, RunKeeps DEF Fail
<1>8. CASE BeginStep(w)
    BY <1>0, <1>8, QueueParts, HoldingFrame DEF queueVars
<1> QED
    BY <1>1, <1>2, <1>3, <1>4, <1>5, <1>6, <1>7, <1>8 DEF Work

LEMMA NextQueue ==
    ASSUME QueueInv, OrdersInv, MarketTypeOK', [Next]_vars
    PROVE  QueueInv'
<1> DEFINE Parts == /\ clock \in 0 .. MaxClock /\ failures \in 0 .. MaxFailures
                    /\ PassOK(pass)
                    /\ events \subseteq Event /\ jobs \in JobRows
                    /\ worker \in [Workers -> Slot] /\ \A w \in Workers : SlotOK(worker[w])
<1>1. RowsTyped /\ RowsTyped' /\ FinitelyManyOrders'
    BY NextOrders, NextFewOrders DEF OrdersInv, QueueInv
<1>2. Parts
    BY QueueParts
<1>3. ASSUME UNCHANGED <<clock, queueVars>> PROVE Parts'
    BY <1>2, <1>3 DEF queueVars
<1>4. ASSUME NEW w \in Workers, Work(w) \/ Fail(w) PROVE Parts'
    BY <1>1, <1>4, WorkQueue
<1>5. ASSUME NEW p \in Players, NEW price \in Prices, Confirm(p, price) PROVE Parts'
    <2> DEFINE e == <<p, quote[p].sequence + 1>>
    <2>1. e \in Event
        BY <1>1, <1>5, MarketAssumption DEF Confirm, ConfirmQuote, RowsTyped, Quote, Event
    <2>2. events' = events \cup {e} /\ jobs' = [jobs EXCEPT !.quote = @ \cup {e}]
          /\ UNCHANGED <<clock, pass, worker, failures>>
        BY <1>5 DEF Confirm
    <2> HIDE DEF e
    <2> QED
        BY <1>2, <2>1, <2>2 DEF JobRows
<1>6. ASSUME NEW o \in Orders, Place(o) PROVE Parts'
    BY <1>2, <1>6 DEF Place, JobRows
<1>7. ASSUME Tick PROVE Parts'
    <2>1. clock' \in 0 .. MaxClock
        BY <1>2, <1>7, OrdersAssumption DEF Tick
    <2> QED
        BY <1>2, <1>7, <2>1 DEF Tick, queueVars
<1>8. ASSUME Sweep PROVE Parts'
    BY <1>2, <1>8 DEF Sweep, JobRows
<1>9. Parts'
    <2> HIDE DEF Parts
    <2>1. ASSUME NEW o \in Orders,
                 \/ Withdraw(o) \/ Cancel(o) \/ EvaluateAlone(o)
                 \/ BeginCancel(o) \/ BeginAlone(o) \/ Abandon(o)
          PROVE  Parts'
        BY <1>3, <2>1, HoldingFrame DEF Withdraw, Cancel, EvaluateAlone
    <2>2. ASSUME NEW o \in Orders, NEW u \in Users, NEW p \in Players, NEW n \in Quantities,
                 NEW limit \in Limits, NEW lifetime \in Lifetimes,
                 Draft(o, u, p, n, limit, lifetime)
          PROVE  Parts'
        BY <1>3, <2>2 DEF Draft
    <2>3. ASSUME NEW p \in Players, NEW u \in Users, IssuePlayer(p, u) PROVE Parts'
        BY <1>3, <2>3 DEF IssuePlayer
    <2>4. ASSUME NEW t \in Terms, Trades(t) PROVE Parts'
        BY <1>3, <2>4 DEF Trades
    <2>5. ASSUME UNCHANGED vars PROVE Parts'
        BY <1>3, <2>5 DEF vars
    <2> QED
        BY <1>4, <1>5, <1>6, <1>7, <1>8, <2>1, <2>2, <2>3, <2>4, <2>5 DEF Next
<1>10. QueueInv' <=> MarketTypeOK' /\ (order \in [Orders -> Order \cup {NoOrder}])'
                       /\ (decision \in [Orders -> Decision])' /\ FinitelyManyOrders' /\ Parts'
    BY DEF QueueInv, TypeOK, WorkersConsistent, PassOK, SlotOK, Slot, JobRows
<1> QED
    BY <1>1, <1>9, <1>10 DEF RowsTyped

\* Type correctness: in particular the cursor never runs past the members, a
\* worker never exceeds its budget, and only confirmed quotes have events.
THEOREM OrdersQueueInvariance == Spec => []QueueInv
<1>1. Init /\ MarketTypeOK => QueueInv
    BY InitQueue
<1>2. QueueInv /\ OrdersInv /\ MarketTypeOK' /\ [Next]_vars => QueueInv'
    BY NextQueue
<1>3. Spec => []MarketTypeOK
    <2>1. MarketInv => MarketTypeOK
        BY DEF MarketInv
    <2> QED
        BY <2>1, OrdersImplementMarket, MarketInvariant, PTL
<1> QED
    BY <1>1, <1>2, <1>3, OrdersInvariance, PTL DEF Spec

THEOREM OrdersTypeCorrect == Spec => []TypeOK
<1>1. QueueInv => TypeOK
    BY DEF QueueInv
<1> QED
    BY <1>1, OrdersQueueInvariance, PTL

-----------------------------------------------------------------------------
(* No wakeup is lost *)

\* The parts of NoLostWakeup.
Waits(o) == o \in Pending /\ Marketable(o)
TurnAhead(o) == \E n \in pass.cursor + 1 .. Len(pass.members) : pass.members[n] = o
ScanAhead == pass.rescan \/ jobs.wake > 0 \/ \E w \in Workers : worker[w].at = "request"
Driven == \/ jobs.wake > 0 \/ jobs.continuation > 0
          \/ \E w \in Workers : worker[w].at \in {"request", "step", "continue"}

LEMMA WakeupParts ==
    NoLostWakeup <=>
        (failures = 0 =>
           /\ \A o \in Orders :
                Waits(o) => TurnAhead(o) \/ ScanAhead \/ EventQueued(order[o].player)
           /\ pass.running => Driven)
BY DEF NoLostWakeup, Waits, TurnAhead, ScanAhead, Driven, Pending

\* An order waits for what its row and its player's quote say.
LEMMA WaitsLocal ==
    ASSUME NEW o \in Orders, order'[o] = order[o],
           quote'[order[o].player] = quote[order[o].player]
    PROVE  Waits(o)' <=> Waits(o)
BY DEF Waits, Pending, Marketable, PurchaseOf, Tradable

\* After its evaluation an order no longer waits, and the others as before.
LEMMA EvaluateWaits ==
    ASSUME RowsTyped, NEW o \in Orders, Evaluate(o)
    PROVE  /\ ~Waits(o)'
           /\ \A p \in Orders : Waits(p)' => Waits(p) /\ order'[p] = order[p]
<1>1. quote' = quote
    BY DEF Evaluate, Decide, ExchangeOnce, Exchange, marketVars
<1>2. CASE UNCHANGED order /\ (order[o].status # "pending" \/ ~Marketable(o))
    BY <1>1, <1>2, WaitsLocal DEF Waits, Pending
<1>3. ASSUME order[o].status = "pending",
             NEW status \in {"expired", "executed", "rejected"}, NEW n, Finish(o, status, n)
      PROVE  /\ ~Waits(o)'
             /\ \A p \in Orders : Waits(p)' => Waits(p) /\ order'[p] = order[p]
    <2>1. order[o] \in Order
        BY <1>3, RowType
    <2>2. order'[o].status = status /\ \A p \in Orders \ {o} : order'[p] = order[p]
        BY <1>3, <2>1 DEF Finish, RowsTyped, Order
    <2>3. ~Waits(o)'
        BY <1>3, <2>2 DEF Waits, Pending
    <2> QED
        BY <1>1, <2>2, <2>3, WaitsLocal
<1> QED
    BY <1>2, <1>3 DEF Evaluate, Decide

\* Steps of the market and of the owners: they make no order wait.
LEMMA CalmKeeps ==
    ASSUME NoLostWakeup, UNCHANGED queueVars,
           \A o \in Orders : Waits(o)' => Waits(o) /\ order'[o] = order[o]
    PROVE  NoLostWakeup'
<1>1. /\ \A o \in Orders : TurnAhead(o)' = TurnAhead(o)
      /\ ScanAhead' = ScanAhead /\ Driven' = Driven
      /\ failures' = failures /\ pass'.running = pass.running
    BY DEF TurnAhead, ScanAhead, Driven, queueVars
<1> QED
    BY <1>1, WakeupParts DEF NoLostWakeup, Waits, TurnAhead, ScanAhead, Driven, Pending,
       EventQueued, queueVars

\* The initial quote of an issuance executes no order.
LEMMA IssueWaits ==
    ASSUME RowsTyped, NEW p \in Players, NEW u \in Users, IssuePlayer(p, u), NEW o \in Orders
    PROVE  Waits(o)' => Waits(o) /\ order'[o] = order[o]
<1>1. order' = order /\ quote' = [quote EXCEPT ![p] = InitialQuote] /\ quote \in [Players -> Quote]
    BY DEF IssuePlayer, Issue, RowsTyped
<1>2. CASE order[o].player = p
    <2>1. quote'[order[o].player].sequence = 0
        BY <1>1, <1>2 DEF InitialQuote
    <2> QED
        BY <1>1, <2>1 DEF Waits, Marketable, Tradable, PurchaseOf
<1>3. CASE order[o].player # p
    <2>1. order[o].status = "pending" => order[o].player \in Players
        BY RowType DEF Order
    <2>2. order[o].player \in Players => quote'[order[o].player] = quote[order[o].player]
        BY <1>1, <1>3
    <2> QED
        BY <1>1, <2>1, <2>2, WaitsLocal DEF Waits, Pending
<1> QED
    BY <1>2, <1>3

\* A confirmed quote queues the event of its player.
LEMMA ConfirmWakes ==
    ASSUME RowsTyped, QueueInv, NoLostWakeup,
           NEW p \in Players, NEW price \in Prices, Confirm(p, price)
    PROVE  NoLostWakeup'
<1> DEFINE e == <<p, quote[p].sequence + 1>>
<1>1. /\ order' = order /\ events' = events \cup {e}
      /\ jobs' = [jobs EXCEPT !.quote = @ \cup {e}]
      /\ UNCHANGED <<pass, worker, failures>>
    BY DEF Confirm
<1>2. /\ jobs'.wake = jobs.wake /\ jobs'.continuation = jobs.continuation
      /\ jobs'.quote = jobs.quote \cup {e}
    BY <1>1, QueueParts DEF JobRows
<1>3. e[1] = p
    OBVIOUS
<1> HIDE DEF e
<1>4. EventQueued(p)'
    BY <1>1, <1>2, <1>3 DEF EventQueued
<1>5. \A s : EventQueued(s) => EventQueued(s)'
    BY <1>1, <1>2 DEF EventQueued
<1>6. \A o \in Orders : TurnAhead(o) => TurnAhead(o)'
    BY <1>1 DEF TurnAhead
<1>7. (ScanAhead => ScanAhead') /\ (Driven => Driven')
    BY <1>1, <1>2 DEF ScanAhead, Driven
<1>8. ASSUME NEW o \in Orders, Waits(o)', failures = 0
      PROVE  TurnAhead(o)' \/ ScanAhead' \/ EventQueued(order[o].player)'
    <2>1. CASE order[o].player = p
        BY <1>1, <1>4, <2>1 DEF EventQueued
    <2>2. CASE order[o].player # p
        <3>1. order[o].player \in Players
            BY <1>1, <1>8, RowType DEF Waits, Pending, Order
        <3>2. quote'[order[o].player] = quote[order[o].player]
            BY <2>2, <3>1 DEF Confirm, ConfirmQuote, RowsTyped
        <3>3. Waits(o)
            BY <1>1, <1>8, <3>2, WaitsLocal
        <3>4. TurnAhead(o) \/ ScanAhead \/ EventQueued(order[o].player)
            BY <1>8, <3>3, WakeupParts
        <3> QED
            BY <1>1, <1>5, <1>6, <1>7, <3>4 DEF EventQueued
    <2> QED
        BY <2>1, <2>2
<1> QED
    BY <1>1, <1>7, <1>8, WakeupParts DEF NoLostWakeup, Waits, TurnAhead, ScanAhead, Driven,
       Pending, EventQueued

\* What keeps the wakeups when neither orders nor quotes change.
LEMMA QueueWakes ==
    ASSUME NoLostWakeup, UNCHANGED <<order, quote, failures>>,
           failures = 0 =>
             /\ \A o \in Orders :
                  Waits(o) /\ (TurnAhead(o) \/ ScanAhead \/ EventQueued(order[o].player))
                    => TurnAhead(o)' \/ ScanAhead' \/ EventQueued(order[o].player)'
             /\ (pass.running => Driven) => (pass'.running => Driven')
    PROVE  NoLostWakeup'
<1>1. \A o \in Orders : Waits(o)' <=> Waits(o)
    BY WaitsLocal
<1> QED
    BY <1>1, WakeupParts DEF NoLostWakeup, Waits, TurnAhead, ScanAhead, Driven, Pending, EventQueued

LEMMA PlaceWakes ==
    ASSUME QueueInv, NoLostWakeup, NEW o \in Orders, Place(o)
    PROVE  NoLostWakeup'
<1>1. jobs'.wake = jobs.wake + 1 /\ jobs.wake \in Nat
    BY QueueParts DEF Place, JobRows
<1>2. ScanAhead' /\ Driven'
    BY <1>1 DEF ScanAhead, Driven
<1> QED
    BY <1>2, WakeupParts DEF NoLostWakeup, ScanAhead, Driven

\* A slot takes over what the job stood for: a scan, an event or the pass.
LEMMA TakeWakes ==
    ASSUME QueueInv, NoLostWakeup, NEW w \in Workers, Take(w)
    PROVE  NoLostWakeup'
<1>1. /\ worker \in [Workers -> Slot] /\ jobs \in JobRows
      /\ worker[w] = IdleWorker
      /\ UNCHANGED <<order, quote, failures, pass, events>>
    BY QueueParts DEF Take, marketVars
<1>2. \A v \in Workers \ {w} : worker'[v] = worker[v]
    BY <1>1 DEF Take, Run, Become
<1>3. /\ \A o \in Orders : TurnAhead(o)' = TurnAhead(o)
      /\ pass' = pass
    BY <1>1 DEF TurnAhead
<1>4. ASSUME jobs.wake > 0, jobs' = [jobs EXCEPT !.wake = @ - 1], Run(w, "wake", "request", {})
      PROVE  ScanAhead' /\ Driven'
    <2>1. worker'[w].at = "request"
        BY <1>1, <1>4 DEF Run, Become
    <2> QED
        BY <2>1 DEF ScanAhead, Driven
\* Any other job: the scans and the events stay on their way.
<1>5. ASSUME jobs'.wake = jobs.wake,
             \A e \in jobs.quote : e \in jobs'.quote \/ e \in worker'[w].todo
      PROVE  /\ \A s : EventQueued(s) => EventQueued(s)'
             /\ ScanAhead => ScanAhead'
    <2>1. worker[w].at # "request" /\ worker[w].todo = {}
        BY <1>1 DEF IdleWorker
    <2>2. \A s : EventQueued(s) => EventQueued(s)'
        BY <1>1, <1>2, <1>5, <2>1 DEF EventQueued
    <2>3. ScanAhead => ScanAhead'
        BY <1>1, <1>2, <1>5, <2>1 DEF ScanAhead
    <2> QED
        BY <2>2, <2>3
<1>6. ASSUME jobs'.wake = jobs.wake, jobs'.continuation = jobs.continuation
      PROVE  Driven => Driven'
    BY <1>1, <1>2, <1>6 DEF Driven, IdleWorker
<1>7. CASE jobs' = [jobs EXCEPT !.continuation = @ - 1] /\ Run(w, "continuation", "step", {})
    <2>1. worker'[w].at = "step" /\ jobs'.wake = jobs.wake /\ jobs'.quote = jobs.quote
        BY <1>1, <1>7 DEF Run, Become, JobRows
    <2>2. Driven'
        BY <2>1 DEF Driven
    <2> QED
        BY <1>1, <1>3, <1>5, <2>1, <2>2, QueueWakes
<1>8. CASE jobs' = [jobs EXCEPT !.recovery = @ - 1]
    <2>1. jobs'.wake = jobs.wake /\ jobs'.continuation = jobs.continuation
          /\ jobs'.quote = jobs.quote
        BY <1>1, <1>8 DEF JobRows
    <2> QED
        BY <1>1, <1>3, <1>5, <1>6, <2>1, QueueWakes
<1>9. ASSUME NEW e \in jobs.quote, jobs' = [jobs EXCEPT !.quote = @ \ {e}],
             Run(w, "quote", "accept", {e})
      PROVE  NoLostWakeup'
    <2>1. jobs'.wake = jobs.wake /\ jobs'.continuation = jobs.continuation
          /\ jobs'.quote = jobs.quote \ {e} /\ worker'[w].todo = {e}
        BY <1>1, <1>9 DEF Run, Become, JobRows
    <2> QED
        BY <1>1, <1>3, <1>5, <1>6, <2>1, QueueWakes
<1> QED
    BY <1>1, <1>4, <1>7, <1>8, <1>9, QueueWakes DEF Take

\* Accepting an event that is still pending inserts a wake; of one that was
\* acknowledged before nothing depended.
LEMMA AcceptWakes ==
    ASSUME QueueInv, NoLostWakeup, NEW w \in Workers, Accept(w)
    PROVE  NoLostWakeup'
<1>1. /\ worker \in [Workers -> Slot] /\ jobs \in JobRows
      /\ worker[w].at = "accept"
      /\ UNCHANGED <<order, quote, failures, pass>>
    BY QueueParts DEF Accept, marketVars
<1>2. PICK e \in worker[w].todo :
        /\ events' = events \ {e}
        /\ jobs' = [jobs EXCEPT !.wake = IF e \in events THEN @ + 1 ELSE @]
        /\ LET rest == worker[w].todo \ {e}
           IN  IF rest # {} THEN Become(w, [worker[w] EXCEPT !.todo = rest])
               ELSE IF worker[w].job = "recovery"
               THEN Become(w, [worker[w] EXCEPT !.todo = {}, !.at = "request"])
               ELSE Become(w, IdleWorker)
    BY DEF Accept
<1>3. \A v \in Workers \ {w} : worker'[v] = worker[v]
    BY <1>1, <1>2 DEF Become
<1>4. CASE e \in events
    <2>1. jobs'.wake > 0
        BY <1>1, <1>2, <1>4 DEF JobRows
    <2>2. ScanAhead' /\ Driven'
        BY <2>1 DEF ScanAhead, Driven
    <2> QED
        BY <1>1, <2>2, QueueWakes
<1>5. CASE e \notin events
    <2>1. events' = events /\ jobs' = jobs
        BY <1>1, <1>2, <1>5 DEF JobRows
    <2>2. \A f \in events : f \in worker[w].todo => f \in worker'[w].todo
        <3>1. ASSUME NEW f \in events, f \in worker[w].todo PROVE f \in worker'[w].todo
            <4> DEFINE rest == worker[w].todo \ {e}
            <4>1. f \in rest
                BY <1>5, <3>1
            <4>2. Become(w, [worker[w] EXCEPT !.todo = rest])
                BY <1>2, <4>1
            <4> HIDE DEF rest
            <4> QED
                BY <1>1, <4>1, <4>2 DEF Become, Slot
        <3> QED
            BY <3>1
    <2>3. \A s : EventQueued(s) => EventQueued(s)'
        BY <1>3, <2>1, <2>2 DEF EventQueued
    <2>4. (ScanAhead => ScanAhead') /\ (Driven => Driven')
        BY <1>1, <1>3, <2>1 DEF ScanAhead, Driven
    <2>5. \A o \in Orders : TurnAhead(o)' = TurnAhead(o)
        BY <1>1 DEF TurnAhead
    <2> QED
        BY <1>1, <2>3, <2>4, <2>5, QueueWakes
<1> QED
    BY <1>4, <1>5

\* A new pass has a turn for every pending order.
LEMMA CaptureTurns ==
    ASSUME RowsTyped, FinitelyManyOrders, pass' = Capture, NEW o \in Orders, Waits(o)
    PROVE  TurnAhead(o)'
<1>1. PICK n \in 1 .. Len(Capture.members) : Capture.members[n] = o
    BY CaptureMembers DEF Waits
<1>2. Capture.cursor = 0
    BY DEF Capture
<1> QED
    BY <1>1, <1>2 DEF TurnAhead

LEMMA RequestWakes ==
    ASSUME QueueInv, RowsTyped, NoLostWakeup, NEW w \in Workers, RequestPass(w)
    PROVE  NoLostWakeup'
<1>1. /\ worker \in [Workers -> Slot] /\ PassOK(pass)
      /\ UNCHANGED <<order, quote, failures, events, jobs>>
      /\ pass' = Requested
    BY QueueParts DEF RequestPass, marketVars
<1>2. worker'[w].at \in {"continue", "step"}
    BY <1>1 DEF RequestPass, AfterRequest, Become, Slot
<1>3. Driven'
    BY <1>2 DEF Driven
<1>4. CASE pass.running
    <2>1. pass'.rescan
        BY <1>1, <1>4 DEF Requested, PassOK
    <2>2. ScanAhead'
        BY <2>1 DEF ScanAhead
    <2> QED
        BY <1>1, <1>3, <2>2, QueueWakes
<1>5. CASE ~pass.running
    <2>1. pass' = Capture
        BY <1>1, <1>5 DEF Requested
    <2>2. \A o \in Orders : Waits(o) => TurnAhead(o)'
        BY <2>1, CaptureTurns DEF QueueInv
    <2> QED
        BY <1>1, <1>3, <2>2, QueueWakes
<1> QED
    BY <1>4, <1>5

\* The member that had its turn no longer waits; the others keep theirs.
LEMMA MemberWakes ==
    ASSUME QueueInv, RowsTyped, DecisionsLocked, NoLostWakeup, NEW w \in Workers, StepMember(w)
    PROVE  NoLostWakeup'
<1>1. /\ worker \in [Workers -> Slot] /\ PassOK(pass) /\ SlotOK(worker[w])
      /\ worker[w].at = "step"
      /\ UNCHANGED <<failures, events, jobs>>
      /\ pass.cursor < Len(pass.members)
      /\ pass' = [pass EXCEPT !.cursor = @ + 1]
    BY QueueParts DEF StepMember
<1>2. PICK o \in Orders : o = pass.members[pass.cursor + 1] /\ Evaluate(o)
    BY MemberDecided DEF NextMember
<1>3. /\ ~Waits(o)'
      /\ \A p \in Orders : Waits(p)' => Waits(p) /\ order'[p] = order[p]
    BY <1>2, EvaluateWaits
<1>4. /\ pass'.cursor = pass.cursor + 1 /\ pass'.members = pass.members
      /\ pass'.rescan = pass.rescan /\ pass'.running = pass.running
      /\ pass.cursor \in Nat /\ Len(pass.members) \in Nat
    BY <1>1 DEF PassOK
<1>5. worker'[w].at \in {"continue", "step"} /\ worker'[w].todo = worker[w].todo
      /\ \A v \in Workers \ {w} : worker'[v] = worker[v]
    BY <1>1 DEF StepMember, Become, Slot
<1>6. Driven'
    BY <1>5 DEF Driven
<1>7. \A p \in Orders : TurnAhead(p) /\ p # o => TurnAhead(p)'
    <2>1. ASSUME NEW p \in Orders, p # o,
                 NEW n \in pass.cursor + 1 .. Len(pass.members), pass.members[n] = p
          PROVE  n \in pass'.cursor + 1 .. Len(pass'.members) /\ pass'.members[n] = p
        BY <1>2, <1>4, <2>1
    <2> QED
        BY <2>1 DEF TurnAhead
<1>8. ScanAhead => ScanAhead'
    BY <1>1, <1>4, <1>5 DEF ScanAhead
<1>9. ASSUME NEW p \in Orders, Waits(p)', failures = 0
       PROVE  TurnAhead(p)' \/ ScanAhead' \/ EventQueued(order[p].player)'
    <2>1. p # o /\ Waits(p) /\ order'[p] = order[p]
        BY <1>3, <1>9
    <2>2. TurnAhead(p) \/ ScanAhead \/ EventQueued(order[p].player)
        BY <1>9, <2>1, WakeupParts
    <2>3. EventQueued(order[p].player) => EventQueued(order[p].player)'
        BY <1>1, <1>5, <2>1 DEF EventQueued
    <2> QED
        BY <1>7, <1>8, <2>1, <2>2, <2>3
<1> QED
    BY <1>1, <1>6, <1>9
       DEF NoLostWakeup, Waits, TurnAhead, ScanAhead, Driven, Pending, EventQueued

\* A pass ends with a scan of its own, or with no order left that it had a turn for.
LEMMA EndWakes ==
    ASSUME QueueInv, RowsTyped, NoLostWakeup, NEW w \in Workers, StepEnd(w)
    PROVE  NoLostWakeup'
<1>1. /\ worker \in [Workers -> Slot] /\ PassOK(pass) /\ SlotOK(worker[w])
      /\ worker[w].at = "step" /\ worker[w].todo = {}
      /\ UNCHANGED <<order, quote, failures, events, jobs>>
      /\ pass.cursor = Len(pass.members)
      /\ pass' = Completed
    BY QueueParts DEF StepEnd, marketVars, SlotOK
<1>2. CASE pass.rescan
    <2>1. pass' = Capture /\ worker'[w].at = "step"
        BY <1>1, <1>2 DEF StepEnd, Completed, Become
    <2>2. Driven'
        BY <2>1 DEF Driven
    <2>3. \A o \in Orders : Waits(o) => TurnAhead(o)'
        BY <2>1, CaptureTurns DEF QueueInv
    <2> QED
        BY <1>1, <2>2, <2>3, QueueWakes
<1>3. CASE ~pass.rescan
    <2>1. pass' = IdlePass /\ \A v \in Workers \ {w} : worker'[v] = worker[v]
        BY <1>1, <1>3 DEF StepEnd, Completed, Become
    <2>2. ~pass'.running
        BY <2>1 DEF IdlePass
    <2>3. \A o \in Orders : ~TurnAhead(o)
        BY <1>1 DEF TurnAhead, PassOK
    <2>4. ScanAhead => ScanAhead'
        BY <1>1, <1>3, <2>1 DEF ScanAhead
    <2>5. \A s : EventQueued(s) => EventQueued(s)'
        BY <1>1, <2>1 DEF EventQueued
    <2> QED
        BY <1>1, <2>2, <2>3, <2>4, <2>5, QueueWakes
<1> QED
    BY <1>2, <1>3

\* A job that gives up its slot leaves another to drive the pass.
LEMMA ContinueWakes ==
    ASSUME QueueInv, NoLostWakeup, NEW w \in Workers, Continue(w)
    PROVE  NoLostWakeup'
<1>1. /\ worker \in [Workers -> Slot] /\ jobs \in JobRows
      /\ worker[w].at = "continue" /\ worker[w].todo = {}
      /\ UNCHANGED <<order, quote, failures, events, pass>>
    BY QueueParts DEF Continue, marketVars, SlotOK
<1>2. \A v \in Workers \ {w} : worker'[v] = worker[v]
    BY <1>1 DEF Continue, Become
<1>3. /\ jobs'.wake = jobs.wake /\ jobs'.quote = jobs.quote
      /\ pass.running => jobs'.continuation > 0
    BY <1>1 DEF Continue, JobRows
<1>4. pass'.running => Driven'
    BY <1>1, <1>3 DEF Driven
<1>5. ScanAhead => ScanAhead'
    BY <1>1, <1>2, <1>3 DEF ScanAhead
<1>6. \A s : EventQueued(s) => EventQueued(s)'
    BY <1>1, <1>2, <1>3 DEF EventQueued
<1>7. \A o \in Orders : TurnAhead(o)' = TurnAhead(o)
    BY <1>1 DEF TurnAhead
<1> QED
    BY <1>1, <1>4, <1>5, <1>6, <1>7, QueueWakes

LEMMA SweepWakes ==
    ASSUME QueueInv, NoLostWakeup, Sweep
    PROVE  NoLostWakeup'
<1>1. /\ jobs'.wake = jobs.wake /\ jobs'.continuation = jobs.continuation
      /\ jobs'.quote = jobs.quote
      /\ UNCHANGED <<order, quote, failures, events, pass, worker>>
    BY QueueParts DEF Sweep, marketVars, JobRows
<1>2. /\ \A o \in Orders : TurnAhead(o)' = TurnAhead(o)
      /\ \A s : EventQueued(s)' = EventQueued(s)
      /\ ScanAhead' = ScanAhead /\ Driven' = Driven
    BY <1>1 DEF TurnAhead, EventQueued, ScanAhead, Driven
<1> QED
    BY <1>1, <1>2, QueueWakes

\* Who takes or gives up the row of an order changes nothing that a wakeup is for.
LEMMA HoldingWakes ==
    ASSUME NoLostWakeup,
           \/ \E o \in Orders : BeginCancel(o) \/ BeginAlone(o) \/ Abandon(o)
           \/ \E w \in Workers : BeginStep(w)
    PROVE  NoLostWakeup'
<1>1. order' = order /\ quote' = quote /\ UNCHANGED queueVars
    BY HoldingFrame DEF marketVars
<1> QED
    BY <1>1, WaitsLocal, CalmKeeps

\* The owners' steps put no order on the waiting list: Place does, see above.
LEMMA OwnerWakes ==
    ASSUME RowsTyped, DecisionsLocked, NoLostWakeup,
           \/ \E o \in Orders : Withdraw(o) \/ Cancel(o) \/ EvaluateAlone(o)
           \/ \E o \in Orders, u \in Users, p \in Players, n \in Quantities,
                 limit \in Limits, lifetime \in Lifetimes : Draft(o, u, p, n, limit, lifetime)
    PROVE  NoLostWakeup'
<1>1. ASSUME NEW o \in Orders, EvaluateAlone(o) PROVE NoLostWakeup'
    BY <1>1, HolderDecides, EvaluateWaits, CalmKeeps DEF EvaluateAlone
<1>2. ASSUME NEW o \in Orders, NEW row, order' = [order EXCEPT ![o] = row],
             row.status # "pending", UNCHANGED quote, UNCHANGED queueVars
      PROVE  NoLostWakeup'
    <2>1. ASSUME NEW p \in Orders, Waits(p)' PROVE Waits(p) /\ order'[p] = order[p]
        <3>1. p # o
            BY <1>2, <2>1 DEF Waits, Pending, RowsTyped
        <3> QED
            BY <1>2, <2>1, <3>1, WaitsLocal DEF RowsTyped
    <2> QED
        BY <1>2, <2>1, CalmKeeps
<1>3. ASSUME NEW o \in Orders, Withdraw(o) PROVE NoLostWakeup'
    <2>1. NoOrder.status # "pending"
        BY DEF NoOrder
    <2> QED
        BY <1>2, <1>3, <2>1 DEF Withdraw, marketVars
<1>4. ASSUME NEW o \in Orders, Cancel(o) PROVE NoLostWakeup'
    <2> DEFINE status == IF Due(o) THEN "expired" ELSE "cancelled"
               at == decision[o].at
               row == [order[o] EXCEPT !.status = status, !.completed = at, !.purchase = 0]
    <2>1. row.status # "pending"
        BY <1>4, RowType, HolderDecides DEF Order
    <2>2. order' = [order EXCEPT ![o] = row] /\ UNCHANGED quote /\ UNCHANGED queueVars
        BY <1>4 DEF Cancel, Finish, marketVars
    <2> HIDE DEF row
    <2> QED
        BY <1>2, <2>1, <2>2
<1>5. ASSUME NEW o \in Orders, NEW u \in Users, NEW p \in Players, NEW n \in Quantities,
             NEW limit \in Limits, NEW lifetime \in Lifetimes,
             Draft(o, u, p, n, limit, lifetime)
      PROVE  NoLostWakeup'
    <2> DEFINE row == [owner |-> u, player |-> p, quantity |-> n, limit |-> limit,
                       created |-> clock, expires |-> clock + lifetime, status |-> "draft",
                       completed |-> 0, purchase |-> 0]
    <2>1. /\ order' = [order EXCEPT ![o] = row] /\ row.status # "pending"
          /\ UNCHANGED quote /\ UNCHANGED queueVars
        BY <1>5 DEF Draft, marketVars
    <2> HIDE DEF row
    <2> QED
        BY <1>2, <2>1
<1> QED
    BY <1>1, <1>3, <1>4, <1>5

LEMMA NextWakes ==
    ASSUME QueueInv, RowsTyped, DecisionsLocked, NoLostWakeup, [Next]_vars
    PROVE  NoLostWakeup'
<1>1. ASSUME NEW p \in Players, NEW u \in Users, IssuePlayer(p, u) PROVE NoLostWakeup'
    BY <1>1, IssueWaits, CalmKeeps DEF IssuePlayer
<1>2. ASSUME NEW t \in Terms, Trades(t) PROVE NoLostWakeup'
    <2>1. order' = order /\ quote' = quote /\ UNCHANGED queueVars
        BY <1>2 DEF Trades, ExchangeOnce, Exchange
    <2> QED
        BY <2>1, WaitsLocal, CalmKeeps
<1>3. CASE Tick \/ UNCHANGED vars
    <2>1. order' = order /\ quote' = quote /\ UNCHANGED queueVars
        BY <1>3 DEF Tick, vars, marketVars
    <2> QED
        BY <2>1, WaitsLocal, CalmKeeps
<1>4. ASSUME NEW w \in Workers, Fail(w) PROVE NoLostWakeup'
    <2>1. failures' # 0
        BY <1>4, QueueParts DEF Fail
    <2> QED
        BY <2>1 DEF NoLostWakeup
<1>5. ASSUME NEW w \in Workers, Work(w) PROVE NoLostWakeup'
    BY <1>5, TakeWakes, AcceptWakes, RequestWakes, HoldingWakes, MemberWakes, EndWakes,
       ContinueWakes DEF Work
<1>6. ASSUME NEW p \in Players, NEW price \in Prices, Confirm(p, price) PROVE NoLostWakeup'
    BY <1>6, ConfirmWakes
<1>7. ASSUME NEW o \in Orders, Place(o) PROVE NoLostWakeup'
    BY <1>7, PlaceWakes
<1>8. CASE Sweep
    BY <1>8, SweepWakes
<1> QED
    BY <1>1, <1>2, <1>3, <1>4, <1>5, <1>6, <1>7, <1>8, OwnerWakes, HoldingWakes DEF Next

\* While no job fails, an order whose limit is met has a turn ahead or a scan on
\* its way, and a running pass has a job to drive it: creation, confirmation and
\* the end of a pass race in any order (request_pass, complete!).
THEOREM WakeupsKept == Spec => []NoLostWakeup
<1>1. Init => NoLostWakeup
    BY DEF Init, NoLostWakeup, Pending, NoOrder, IdlePass
<1>2. OrdersInv => RowsTyped /\ DecisionsLocked
    BY DEF OrdersInv
<1>3. RowsTyped /\ DecisionsLocked /\ QueueInv /\ NoLostWakeup /\ [Next]_vars => NoLostWakeup'
    BY NextWakes
<1> QED
    BY <1>1, <1>2, <1>3, OrdersInvariance, OrdersQueueInvariance, PTL DEF Spec

-----------------------------------------------------------------------------
(* First come, first served *)

LEMMA InitTurns == Init => TurnInv
BY DEF Init, TurnInv, DraftIsLatest, MembersInOrder, OthersBehind, NoOrder, IdlePass

\* Steps that change neither the orders nor the members.
LEMMA CalmTurns ==
    ASSUME RowsTyped, TurnInv, UNCHANGED order, pass'.members = pass.members,
           clock' \in Nat, clock' >= clock
    PROVE  TurnInv'
<1>1. DraftIsLatest'
    <2>1. \A o \in Orders : order[o].status # "absent" => order[o].created \in Nat
        BY RowType DEF Order
    <2> QED
        BY <2>1 DEF TurnInv, DraftIsLatest, RowsTyped
<1>2. MembersInOrder' /\ OthersBehind'
    BY DEF TurnInv, MembersInOrder, OthersBehind
<1> QED
    BY <1>1, <1>2 DEF TurnInv

\* An order that is committed or settled keeps its place.
LEMMA SettleTurns ==
    ASSUME RowsTyped, TurnInv, UNCHANGED clock, pass'.members = pass.members,
           pass.members \in Seq(Orders),
           NEW o \in Orders, order[o].status \in {"draft", "pending"},
           NEW row, order' = [order EXCEPT ![o] = row],
           row.created = order[o].created, row.player = order[o].player,
           row.status \notin {"absent", "draft"}
    PROVE  TurnInv'
<1>1. \A p \in Orders : /\ order'[p].created = order[p].created
                        /\ order'[p].player = order[p].player
                        /\ order'[p].status = "absent" <=> order[p].status = "absent"
                        /\ order'[p].status = "draft" => order[p].status = "draft"
                        /\ order'[p].status = "pending" => order[p].status \in {"draft", "pending"}
                        /\ order[p].status \notin {"absent", "draft"}
                             => order'[p].status \notin {"absent", "draft"}
    BY DEF RowsTyped
<1>2. \A n \in DOMAIN pass.members : pass.members[n] \in Orders
    OBVIOUS
<1>3. DraftIsLatest'
    BY <1>1 DEF TurnInv, DraftIsLatest
<1>4. MembersInOrder'
    BY <1>1, <1>2 DEF TurnInv, MembersInOrder
<1>5. OthersBehind'
    BY <1>1, <1>2 DEF TurnInv, OthersBehind
<1> QED
    BY <1>3, <1>4, <1>5 DEF TurnInv

LEMMA FinishTurns ==
    ASSUME RowsTyped, TurnInv, UNCHANGED clock, pass'.members = pass.members,
           pass.members \in Seq(Orders),
           NEW o \in Orders, order[o].status = "pending",
           NEW status \in Terminal, NEW n, Finish(o, status, n)
    PROVE  TurnInv'
<1> DEFINE at == decision[o].at
           row == [order[o] EXCEPT !.status = status, !.completed = at, !.purchase = n]
<1>1. row.status = status /\ row.created = order[o].created /\ row.player = order[o].player
    BY RowType DEF Order
<1>2. order' = [order EXCEPT ![o] = row]
    BY DEF Finish
<1>3. status \notin {"absent", "draft"}
    BY DEF Terminal
<1> HIDE DEF row
<1> QED
    BY <1>1, <1>2, <1>3, SettleTurns

LEMMA EvaluateTurns ==
    ASSUME RowsTyped, TurnInv, UNCHANGED clock, pass'.members = pass.members,
           pass.members \in Seq(Orders), NEW o \in Orders, Evaluate(o)
    PROVE  TurnInv'
<1>1. CASE UNCHANGED order
    BY <1>1, CalmTurns DEF RowsTyped
<1>2. ASSUME NEW status \in {"expired", "executed", "rejected"}, NEW n,
             order[o].status = "pending", Finish(o, status, n)
      PROVE  TurnInv'
    BY <1>2, FinishTurns DEF Terminal
<1> QED
    BY <1>1, <1>2 DEF Evaluate, Decide

\* A creation rolled back was no member.
LEMMA WithdrawTurns ==
    ASSUME RowsTyped, TurnInv, pass.members \in Seq(Orders), NEW o \in Orders, Withdraw(o)
    PROVE  TurnInv'
<1>1. /\ order[o].status = "draft" /\ order' = [order EXCEPT ![o] = NoOrder]
      /\ pass' = pass /\ clock' = clock
    BY DEF Withdraw, queueVars
<1>2. order'[o].status = "absent" /\ \A p \in Orders \ {o} : order'[p] = order[p]
    BY <1>1 DEF RowsTyped, NoOrder
<1>3. \A n \in DOMAIN pass.members : pass.members[n] \in Orders \ {o}
    BY <1>1 DEF TurnInv, MembersInOrder
<1>4. DraftIsLatest'
    BY <1>1, <1>2 DEF TurnInv, DraftIsLatest
<1>5. MembersInOrder'
    BY <1>1, <1>2, <1>3 DEF TurnInv, MembersInOrder
<1>6. OthersBehind'
    BY <1>1, <1>2, <1>3 DEF TurnInv, OthersBehind
<1> QED
    BY <1>4, <1>5, <1>6 DEF TurnInv

\* A new creation reads the clock, behind every order of its player.
LEMMA DraftTurns ==
    ASSUME RowsTyped, TurnInv, pass.members \in Seq(Orders),
           NEW o \in Orders, NEW u \in Users, NEW p \in Players, NEW n \in Quantities,
           NEW limit \in Limits, NEW lifetime \in Lifetimes,
           Draft(o, u, p, n, limit, lifetime)
    PROVE  TurnInv'
<1> DEFINE row == [owner |-> u, player |-> p, quantity |-> n, limit |-> limit,
                   created |-> clock, expires |-> clock + lifetime, status |-> "draft",
                   completed |-> 0, purchase |-> 0]
<1>1. /\ order[o].status = "absent" /\ order' = [order EXCEPT ![o] = row]
      /\ pass' = pass /\ clock' = clock /\ PlayerFree(p)
    BY DEF Draft, queueVars, NoOrder
<1>2. row.status = "draft" /\ row.created = clock /\ row.player = p /\ clock \in Nat
    BY DEF RowsTyped
<1> HIDE DEF row
<1>3. order'[o] = row /\ \A q \in Orders \ {o} : order'[q] = order[q]
    BY <1>1 DEF RowsTyped
<1>4. \A m \in DOMAIN pass.members : pass.members[m] \in Orders \ {o}
    BY <1>1 DEF TurnInv, MembersInOrder
<1>5. \A q \in Orders : order[q].status # "absent" => order[q].created <= clock
    BY DEF TurnInv, DraftIsLatest
<1>6. DraftIsLatest'
    <2>1. ASSUME NEW d \in Orders, NEW q \in Orders, order'[q].status # "absent"
          PROVE  /\ order'[q].created <= clock
                 /\ (order'[d].status = "draft" /\ order'[q].player = order'[d].player)
                      => order'[q].created <= order'[d].created
        <3>1. order'[q].created <= clock
            BY <1>2, <1>3, <1>5, <2>1
        <3>2. CASE d = o
            BY <1>2, <1>3, <3>1, <3>2
        <3>3. CASE d # o /\ q = o
            BY <1>1, <1>2, <1>3, <3>3 DEF PlayerFree
        <3>4. CASE d # o /\ q # o
            BY <1>3, <2>1, <3>1, <3>4 DEF TurnInv, DraftIsLatest
        <3> QED
            BY <3>1, <3>2, <3>3, <3>4
    <2> QED
        BY <1>1, <2>1 DEF DraftIsLatest
<1>7. MembersInOrder'
    BY <1>1, <1>3, <1>4 DEF TurnInv, MembersInOrder
<1>8. OthersBehind'
    <2>1. ASSUME NEW q \in Orders, NEW m \in DOMAIN pass.members,
                 order'[q].status \in {"draft", "pending"},
                 order'[q].player = order'[pass.members[m]].player,
                 \A k \in DOMAIN pass.members : pass.members[k] # q
          PROVE  order'[pass.members[m]].created <= order'[q].created
        <3>1. CASE q = o
            BY <1>2, <1>3, <1>4, <1>5, <3>1 DEF TurnInv, MembersInOrder
        <3>2. CASE q # o
            BY <1>3, <1>4, <2>1, <3>2 DEF TurnInv, OthersBehind
        <3> QED
            BY <3>1, <3>2
    <2> QED
        BY <1>1, <2>1 DEF OthersBehind
<1> QED
    BY <1>6, <1>7, <1>8 DEF TurnInv

\* A captured pass has all pending orders in order; what is still a draft is later.
LEMMA CaptureTurnInv ==
    ASSUME RowsTyped, FinitelyManyOrders, TurnInv, UNCHANGED <<order, clock>>, pass' = Capture
    PROVE  TurnInv'
<1> DEFINE members == Capture.members
<1>1. /\ members \in Seq(Pending) /\ InOrder(members)
      /\ \A o \in Pending : \E n \in 1 .. Len(members) : members[n] = o
    BY CaptureMembers
<1>2. pass'.members = members
    OBVIOUS
<1> HIDE DEF members
<1>3. \A n \in DOMAIN members : members[n] \in Orders /\ order[members[n]].status = "pending"
    BY <1>1 DEF Pending
<1>4. DraftIsLatest'
    BY DEF TurnInv, DraftIsLatest
<1>5. MembersInOrder'
    <2>1. ASSUME NEW m \in DOMAIN members, NEW n \in DOMAIN members, m < n
          PROVE  order[members[m]].created <= order[members[n]].created
        <3>1. Earlier(members[m], members[n])
            BY <1>1, <2>1 DEF InOrder
        <3>2. order[members[m]].created \in Nat /\ order[members[n]].created \in Nat
            BY <1>3, RowType DEF Order
        <3> QED
            BY <3>1, <3>2 DEF Earlier
    <2> QED
        BY <1>2, <1>3, <2>1 DEF MembersInOrder
<1>6. OthersBehind'
    <2>1. ASSUME NEW p \in Orders, NEW n \in DOMAIN members,
                 order[p].status \in {"draft", "pending"},
                 order[p].player = order[members[n]].player,
                 \A k \in DOMAIN members : members[k] # p
          PROVE  order[members[n]].created <= order[p].created
        <3>1. order[p].status = "draft"
            BY <1>1, <2>1 DEF Pending
        <3> QED
            BY <1>3, <2>1, <3>1 DEF TurnInv, DraftIsLatest
    <2> QED
        BY <1>2, <2>1 DEF OthersBehind
<1> QED
    BY <1>4, <1>5, <1>6 DEF TurnInv

LEMMA WorkTurns ==
    ASSUME RowsTyped, DecisionsLocked, QueueInv, TurnInv, NEW w \in Workers, Work(w) \/ Fail(w)
    PROVE  TurnInv'
<1>1. PassOK(pass) /\ pass.members \in Seq(Orders) /\ FinitelyManyOrders
    BY QueueParts DEF PassOK
<1>2. ASSUME UNCHANGED <<order, clock>>, pass'.members = pass.members PROVE TurnInv'
    BY <1>2, CalmTurns DEF RowsTyped
<1>3. ASSUME UNCHANGED <<order, clock>>, pass' = IdlePass PROVE TurnInv'
    BY <1>3 DEF TurnInv, DraftIsLatest, MembersInOrder, OthersBehind, IdlePass
<1>4. ASSUME UNCHANGED <<order, clock>>, pass' = Capture PROVE TurnInv'
    BY <1>1, <1>4, CaptureTurnInv
<1>5. CASE StepMember(w)
    <2>1. pass'.members = pass.members
        BY <1>1, <1>5 DEF StepMember, PassOK
    <2>2. \E o \in Orders : Evaluate(o) /\ UNCHANGED clock
        BY <1>5, MemberDecided DEF StepMember
    <2> QED
        BY <1>1, <2>1, <2>2, EvaluateTurns
<1>6. CASE RequestPass(w)
    <2>1. UNCHANGED <<order, clock>> /\ (pass' = Capture \/ pass' = [pass EXCEPT !.rescan = TRUE])
        BY <1>6 DEF RequestPass, Requested
    <2>2. [pass EXCEPT !.rescan = TRUE].members = pass.members
        BY <1>1 DEF PassOK
    <2> QED
        BY <1>2, <1>4, <2>1, <2>2
<1>7. CASE StepEnd(w)
    BY <1>3, <1>4, <1>7 DEF StepEnd, Completed
<1>8. CASE Take(w) \/ Accept(w) \/ Continue(w) \/ Fail(w)
    BY <1>2, <1>8 DEF Take, Accept, Continue, Fail
<1>9. CASE BeginStep(w)
    BY <1>2, <1>9, HoldingFrame DEF queueVars
<1> QED
    BY <1>5, <1>6, <1>7, <1>8, <1>9 DEF Work

LEMMA NextTurns ==
    ASSUME RowsTyped, DecisionsLocked, QueueInv, TurnInv, [Next]_vars
    PROVE  TurnInv'
<1>1. pass.members \in Seq(Orders)
    BY QueueParts DEF PassOK
<1>2. CASE UNCHANGED <<order, clock, pass>>
    BY <1>2, CalmTurns DEF RowsTyped
<1>3. CASE Tick
    BY <1>3, CalmTurns DEF Tick, queueVars, RowsTyped
<1>4. ASSUME NEW o \in Orders, Place(o) PROVE TurnInv'
    <2> DEFINE row == [order[o] EXCEPT !.status = "pending"]
    <2>1. row.status = "pending" /\ row.created = order[o].created /\ row.player = order[o].player
        BY <1>4, RowType DEF Place, Order
    <2>2. order[o].status = "draft" /\ order' = [order EXCEPT ![o] = row]
          /\ UNCHANGED <<clock, pass>>
        BY <1>4 DEF Place
    <2> HIDE DEF row
    <2> QED
        BY <1>1, <2>1, <2>2, SettleTurns
<1>5. ASSUME NEW o \in Orders, Cancel(o) PROVE TurnInv'
    <2>1. \E status \in Terminal : Finish(o, status, 0)
        BY <1>5 DEF Cancel, Terminal
    <2>2. order[o].status = "pending" /\ UNCHANGED <<clock, pass>>
        BY <1>5, HolderDecides DEF Cancel, queueVars
    <2> QED
        BY <1>1, <2>1, <2>2, FinishTurns
<1>6. ASSUME NEW o \in Orders, EvaluateAlone(o) PROVE TurnInv'
    BY <1>1, <1>6, HolderDecides, EvaluateTurns DEF EvaluateAlone, queueVars
<1>7. ASSUME NEW o \in Orders, Withdraw(o) PROVE TurnInv'
    BY <1>1, <1>7, WithdrawTurns
<1>8. ASSUME NEW o \in Orders, NEW u \in Users, NEW p \in Players, NEW n \in Quantities,
             NEW limit \in Limits, NEW lifetime \in Lifetimes,
             Draft(o, u, p, n, limit, lifetime)
      PROVE  TurnInv'
    BY <1>1, <1>8, DraftTurns
<1>9. ASSUME NEW w \in Workers, Work(w) \/ Fail(w) PROVE TurnInv'
    BY <1>9, WorkTurns
<1>10. ASSUME NEW p \in Players, NEW u \in Users, IssuePlayer(p, u)
       PROVE  UNCHANGED <<order, clock, pass>>
    BY <1>10 DEF IssuePlayer, queueVars
<1>11. ASSUME NEW t \in Terms, Trades(t) PROVE UNCHANGED <<order, clock, pass>>
    BY <1>11 DEF Trades, queueVars
<1>12. ASSUME NEW p \in Players, NEW price \in Prices, Confirm(p, price)
       PROVE  UNCHANGED <<order, clock, pass>>
    BY <1>12 DEF Confirm
<1>13. CASE Sweep \/ UNCHANGED vars
    BY <1>2, <1>13 DEF Sweep, vars, queueVars
<1>14. ASSUME NEW o \in Orders, BeginCancel(o) \/ BeginAlone(o) \/ Abandon(o)
       PROVE  UNCHANGED <<order, clock, pass>>
    BY <1>14, HoldingFrame DEF queueVars
<1> QED
    BY <1>2, <1>3, <1>4, <1>5, <1>6, <1>7, <1>8, <1>9, <1>10, <1>11, <1>12, <1>13, <1>14 DEF Next

\* First come, first served per player: a pass decides an order only after every
\* earlier pending order of the player (capture!, created_at read under the lock).
THEOREM FirstServed == Spec => FirstComeFirstServed
<1>1. OrdersInv => RowsTyped /\ DecisionsLocked
    BY DEF OrdersInv
<1>2. Spec => []TurnInv
    <2>1. RowsTyped /\ DecisionsLocked /\ QueueInv /\ TurnInv /\ [Next]_vars => TurnInv'
        BY NextTurns
    <2> QED
        BY <1>1, <2>1, InitTurns, OrdersInvariance, OrdersQueueInvariance, PTL DEF Spec
<1> DEFINE Served ==
        \A w \in Workers : StepMember(w) =>
            LET o == NextMember
            IN  \A p \in Pending :
                    (order[p].player = order[o].player /\ order[p].created < order[o].created) =>
                        \E n \in 1 .. pass.cursor : pass.members[n] = p
<1>3. RowsTyped /\ QueueInv /\ TurnInv => Served
    <2> DEFINE c == pass.cursor
               members == pass.members
               o == members[c + 1]
    <2> SUFFICES ASSUME RowsTyped, QueueInv, TurnInv, NEW w \in Workers, StepMember(w),
                        NEW p \in Pending, order[p].player = order[o].player,
                        order[p].created < order[o].created
                 PROVE  \E n \in 1 .. c : members[n] = p
        BY DEF NextMember
    <2>1. /\ members \in Seq(Orders) /\ Len(members) \in Nat /\ c \in Nat /\ c < Len(members)
          /\ DOMAIN members = 1 .. Len(members)
        BY QueueParts DEF PassOK, StepMember
    <2>2. c + 1 \in DOMAIN members /\ o \in Orders
        BY <2>1
    <2>3. p \in Orders /\ order[p].status = "pending" /\ order[p].created \in Nat
        BY RowType DEF Pending, Order
    <2>4. order[o].created \in Nat
        BY <2>2, RowType DEF TurnInv, MembersInOrder, Order
    <2>5. PICK n \in DOMAIN members : members[n] = p
        BY <2>2, <2>3, <2>4 DEF TurnInv, OthersBehind
    <2>6. ~(c + 1 < n) /\ n # c + 1
        BY <2>2, <2>3, <2>4, <2>5 DEF TurnInv, MembersInOrder
    <2> QED
        BY <2>1, <2>5, <2>6
<1>4. RowsTyped /\ QueueInv /\ TurnInv => [Served]_vars
    BY <1>3
<1> QED
    BY <1>1, <1>2, <1>4, OrdersInvariance, OrdersQueueInvariance, PTL
       DEF Spec, FirstComeFirstServed

=============================================================================
