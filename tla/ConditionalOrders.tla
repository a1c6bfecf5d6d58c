-------------------------- MODULE ConditionalOrders -------------------------
(***************************************************************************)
(* Conditional buy orders and the durable pass that decides them.          *)
(*                                                                         *)
(* An order waits until the player's quote is at most its limit, until it  *)
(* expires or until its owner cancels it.  A singleton row describes the   *)
(* evaluation pass: the pending orders captured in creation order and a    *)
(* cursor.  Queue workers move the cursor one order per transaction; jobs, *)
(* quote events and a minute sweep wake them.                              *)
(*                                                                         *)
(* A transaction that reads the clock is two steps: it takes its locks and *)
(* reads the clock, and commits what it decided later, or not at all.      *)
(* Creations, cancellations and evaluations are such; every other          *)
(* transaction is one step of the market (module Trading shows that they   *)
(* may be).  Module OrderReads adds the owner, who reads without locks.    *)
(***************************************************************************)
EXTENDS Market, SequencesExt

CONSTANTS
    Orders,       \* order ids, in the order of their uuids; keys of their purchases
    Limits,       \* maximum unit prices
    Lifetimes,    \* time from creation to expiry
    Workers,      \* executing slots of the queue conditional_orders, over all nodes
    Budget,       \* orders one job decides before it continues in another: 100
    MaxClock,     \* bound on the database clock
    MaxFailures   \* bound on failed attempts and lost jobs

ASSUME OrdersAssumption ==
    /\ Orders \subseteq Keys /\ Orders \subseteq Nat
    /\ Limits \subseteq Nat \ {0}
    /\ Lifetimes \subseteq Nat \ {0}
    /\ Budget \in Nat \ {0}
    /\ MaxClock \in Nat /\ MaxFailures \in Nat

ASSUME WorkersAssumption == Workers \cap {"none", "owner", "facade"} = {}

VARIABLES
    clock,     \* clock_timestamp()
    order,     \* market_conditional_buy_orders; "draft" is an uncommitted insert
    decision,  \* per order, the transaction that holds its row and the clock it read
    pass,      \* market_order_evaluation_passes(1) and its members
    events,    \* pending rows of quote_evaluations
    jobs,      \* available jobs of the queue
    worker,    \* what each slot executes
    failures   \* failed attempts so far

queueVars == <<pass, events, jobs, worker, failures>>
vars == <<marketVars, clock, order, decision, queueVars>>

-----------------------------------------------------------------------------
(* Rows *)

Event == Players \X (1 .. MaxSequence)

Terminal == {"executed", "rejected", "expired", "cancelled"}

NoOrder == [owner |-> None, player |-> None, quantity |-> 0, limit |-> 0, created |-> 0,
            expires |-> 0, status |-> "absent", completed |-> 0, purchase |-> 0]

Order == [owner: Users, player: Players, quantity: Quantities, limit: Limits,
          created: Nat, expires: Nat, status: Terminal \cup {"draft", "pending"},
          completed: Nat, purchase: Nat]

\* An order is decided by its owner's cancellation, by the facade's evaluation,
\* or by a worker, who holds the row of the pass as well.
NoDecision == [by |-> "none", at |-> 0]

Decision == [by: Workers \cup {"none", "owner", "facade"}, at: Nat]

\* A pass without members is idle.
IdlePass == [running |-> FALSE, members |-> <<>>, cursor |-> 0, rescan |-> FALSE]

IdleWorker == [job |-> "none", at |-> "idle", left |-> 0, todo |-> {}]

TypeOK ==
    /\ MarketTypeOK
    /\ clock \in 0 .. MaxClock
    /\ order \in [Orders -> Order \cup {NoOrder}]
    /\ decision \in [Orders -> Decision]
    /\ pass \in [running: BOOLEAN, members: Seq(Orders), cursor: Nat, rescan: BOOLEAN]
    /\ pass.cursor <= Len(pass.members) /\ (pass.running <=> pass.members # <<>>)
    /\ events \subseteq Event
    /\ jobs \in [wake: Nat, continuation: Nat, recovery: Nat, quote: SUBSET Event]
    /\ worker \in [Workers ->
            [job: {"none", "wake", "continuation", "recovery", "quote"},
             at: {"idle", "accept", "request", "step", "continue"},
             left: 0 .. Budget, todo: SUBSET Event]]
    /\ failures \in 0 .. MaxFailures

Init ==
    /\ MarketInit
    /\ clock = 0
    /\ order = [o \in Orders |-> NoOrder]
    /\ decision = [o \in Orders |-> NoDecision]
    /\ pass = IdlePass
    /\ events = {}
    /\ jobs = [wake |-> 0, continuation |-> 0, recovery |-> 0, quote |-> {}]
    /\ worker = [w \in Workers |-> IdleWorker]
    /\ failures = 0

Pending == {o \in Orders : order[o].status = "pending"}

\* The orders whose purchase is being decided.
Evaluating == {o \in Orders : decision[o].by \notin {"none", "owner"}}

\* The player's row is locked neither by a creation nor by an evaluation.
PlayerFree(p) ==
    \A o \in Orders : order[o].player = p => order[o].status # "draft" /\ o \notin Evaluating

\* An exchange or an issuance may begin: the player's row is free and so is the
\* account of the recipient, who is a party to each.
MarketFree(p) == PlayerFree(p) /\ Evaluating = {}

\* No worker holds the row of the pass.
PassFree == \A o \in Orders : decision[o].by \notin Workers

-----------------------------------------------------------------------------
(* The market around the orders *)

IssuePlayer(p, u) ==
    /\ MarketFree(p)
    /\ Issue(p, u)
    /\ UNCHANGED <<clock, order, decision, queueVars>>

\* A purchase or a sale asked for by a client: never under the key of an order.
Trades(t) ==
    /\ MarketFree(t.player)
    /\ t.key \notin Orders
    /\ ExchangeOnce(t)
    /\ UNCHANGED <<clock, order, decision, queueVars>>

\* A confirmed quote commits together with its evaluation event and its job.
Confirm(p, price) ==
    LET e == <<p, quote[p].sequence + 1>>
    IN  /\ PlayerFree(p)
        /\ ConfirmQuote(p, price)
        /\ events' = events \cup {e}
        /\ jobs' = [jobs EXCEPT !.quote = @ \cup {e}]
        /\ UNCHANGED <<clock, order, decision, pass, worker, failures>>

Tick ==
    /\ clock < MaxClock
    /\ clock' = clock + 1
    /\ UNCHANGED <<marketVars, order, decision, queueVars>>

-----------------------------------------------------------------------------
(* The life of an order *)

\* Under the player's lock: checks, reads the clock, inserts.
Draft(o, u, p, n, limit, lifetime) ==
    /\ order[o] = NoOrder
    /\ PlayerFree(p)
    /\ p \in issued
    /\ u # recipient
    /\ order' = [order EXCEPT ![o] =
            [owner |-> u, player |-> p, quantity |-> n, limit |-> limit, created |-> clock,
             expires |-> clock + lifetime, status |-> "draft", completed |-> 0, purchase |-> 0]]
    /\ UNCHANGED <<marketVars, clock, decision, queueVars>>

\* The creation commits, together with the job that wakes the workers.
Place(o) ==
    /\ order[o].status = "draft"
    /\ order' = [order EXCEPT ![o].status = "pending"]
    /\ jobs' = [jobs EXCEPT !.wake = @ + 1]
    /\ UNCHANGED <<marketVars, clock, decision, pass, events, worker, failures>>

\* The creation is rolled back.
Withdraw(o) ==
    /\ order[o].status = "draft"
    /\ order' = [order EXCEPT ![o] = NoOrder]
    /\ UNCHANGED <<marketVars, clock, decision, queueVars>>

\* Takes the row and reads the clock.
Lock(o, by) ==
    /\ decision[o] = NoDecision
    /\ decision' = [decision EXCEPT ![o] = [by |-> by, at |-> clock]]
    /\ UNCHANGED <<marketVars, clock, order>>

Release(o) == decision' = [decision EXCEPT ![o] = NoDecision]

\* The deciding transaction's clock is past the expiry.
Due(o) == decision[o].at >= order[o].expires

\* Commits an outcome at the time the transaction read.
Finish(o, status, purchase) ==
    order' = [order EXCEPT ![o] = [@ EXCEPT !.status = status, !.completed = decision[o].at,
                                            !.purchase = purchase]]

\* The owner cancels: finds the order pending under its lock, reads the clock.
BeginCancel(o) ==
    /\ order[o].status = "pending"
    /\ Lock(o, "owner")
    /\ UNCHANGED queueVars

\* Mutant: the owner's cancellation wins even after the expiry.
CancelAnytime(o) ==
    /\ decision[o].by = "owner"
    /\ Finish(o, "cancelled", 0)
    /\ Release(o)
    /\ UNCHANGED <<marketVars, clock, queueVars>>

\* The cancellation commits; too late, the order turns out expired.
Cancel(o) ==
    /\ decision[o].by = "owner"
    /\ Finish(o, IF Due(o) THEN "expired" ELSE "cancelled", 0)
    /\ Release(o)
    /\ UNCHANGED <<marketVars, clock, queueVars>>

PurchaseOf(o) ==
    [side |-> "purchase", user |-> order[o].owner, key |-> o,
     player |-> order[o].player, quantity |-> order[o].quantity]

\* The latest quote meets the limit.
Marketable(o) ==
    LET q == quote[order[o].player]
    IN  Tradable(PurchaseOf(o), q) /\ q.price <= order[o].limit

\* Mutant: an order once read as pending is taken to be pending still.
EvaluateCaptured(o, by) ==
    /\ order[o].status \notin {"absent", "draft"}
    /\ MarketFree(order[o].player)
    /\ Lock(o, by)

\* Reads the order again under its lock: whatever was captured, only a pending
\* order is decided.  The player and the balances are locked before the clock
\* is read.
BeginEvaluation(o, by) ==
    /\ order[o].status = "pending"
    /\ MarketFree(order[o].player)
    /\ Lock(o, by)

\* The decision commits: expired, still waiting, executed as a purchase of the
\* market, or rejected.  Any other verdict rolls back.
Decide(o) ==
    LET t == PurchaseOf(o)
        verdict == Verdict(t, recipient, balance, holding[t.player], quote[t.player])
    IN  /\ Release(o)
        /\ \/ /\ Due(o)
              /\ Finish(o, "expired", 0)
              /\ UNCHANGED marketVars
           \/ /\ ~Due(o) /\ ~Marketable(o)
              /\ UNCHANGED <<marketVars, order>>
           \/ /\ ~Due(o) /\ Marketable(o) /\ verdict = "ok"
              /\ ExchangeOnce(t)
              /\ Finish(o, "executed", Len(trades) + 1)
           \/ /\ ~Due(o) /\ Marketable(o)
              /\ verdict \in {"insufficient_funds", "insufficient_inventory"}
              /\ Finish(o, "rejected", 0)
              /\ UNCHANGED marketVars

\* The facade's evaluation of one order, outside any pass.
BeginAlone(o) == BeginEvaluation(o, "facade") /\ UNCHANGED queueVars

EvaluateAlone(o) ==
    /\ decision[o].by = "facade"
    /\ Decide(o)
    /\ UNCHANGED <<clock, queueVars>>

\* The cancellation or the facade's evaluation is rolled back.
Abandon(o) ==
    /\ decision[o].by \in {"owner", "facade"}
    /\ Release(o)
    /\ UNCHANGED <<marketVars, clock, order, queueVars>>

-----------------------------------------------------------------------------
(* The pass *)

\* Mutant: the pass captures in the order of the ids alone.
EarlierById(o, p) == o < p

\* The order of decision: created_at, then id.
Earlier(o, p) ==
    \/ order[o].created < order[p].created
    \/ order[o].created = order[p].created /\ o < p

\* A pass over all orders pending now.
Capture ==
    [running |-> Pending # {},
     members |-> CHOOSE q \in SetToSeqs(Pending) :
                     \A m, n \in DOMAIN q : m < n => Earlier(q[m], q[n]),
     cursor |-> 0, rescan |-> FALSE]

\* Mutant: a request that finds a pass running leaves no trace.
RequestedIfIdle == IF pass.running THEN pass ELSE Capture

\* A request starts a pass, or asks the running one to scan again at its end.
Requested == IF pass.running THEN [pass EXCEPT !.rescan = TRUE] ELSE Capture

\* Mutant: the cursor is not reset with the members.
CompletedKeepingCursor == IF pass.rescan THEN Capture ELSE [IdlePass EXCEPT !.cursor = pass.cursor]

Completed == IF pass.rescan THEN Capture ELSE IdlePass

-----------------------------------------------------------------------------
(* The workers *)

Become(w, state) == worker' = [worker EXCEPT ![w] = state]

Run(w, job, at, todo) == Become(w, [job |-> job, at |-> at, left |-> Budget, todo |-> todo])

\* A slot takes a job: "order" and "recovery" wakes request a pass first, a
\* continuation only steps, a quote job accepts its event, the sweep accepts
\* all the events that are pending now.
Take(w) ==
    /\ worker[w] = IdleWorker
    /\ \/ /\ jobs.wake > 0
          /\ jobs' = [jobs EXCEPT !.wake = @ - 1]
          /\ Run(w, "wake", "request", {})
       \/ /\ jobs.continuation > 0
          /\ jobs' = [jobs EXCEPT !.continuation = @ - 1]
          /\ Run(w, "continuation", "step", {})
       \/ /\ jobs.recovery > 0
          /\ jobs' = [jobs EXCEPT !.recovery = @ - 1]
          /\ Run(w, "recovery", IF events = {} THEN "request" ELSE "accept", events)
       \/ \E e \in jobs.quote :
          /\ jobs' = [jobs EXCEPT !.quote = @ \ {e}]
          /\ Run(w, "quote", "accept", {e})
    /\ UNCHANGED <<marketVars, clock, order, decision, pass, events, failures>>

\* One transaction claims an event, inserts the wake and acknowledges it; of an
\* event acknowledged before, nothing.
Accept(w) ==
    /\ worker[w].at = "accept"
    /\ \E e \in worker[w].todo :
        LET rest == worker[w].todo \ {e}
        IN  /\ events' = events \ {e}
            /\ jobs' = [jobs EXCEPT !.wake = IF e \in events THEN @ + 1 ELSE @]
            /\ IF rest # {} THEN Become(w, [worker[w] EXCEPT !.todo = rest])
               ELSE IF worker[w].job = "recovery"
               THEN Become(w, [worker[w] EXCEPT !.todo = {}, !.at = "request"])
               ELSE Become(w, IdleWorker)
    /\ UNCHANGED <<marketVars, clock, order, decision, pass, failures>>

AfterRequest(w) ==
    Become(w, [worker[w] EXCEPT !.at = IF worker[w].job = "recovery" THEN "continue" ELSE "step"])

\* Mutant: the sweep only continues the pass, it never requests one.
RequestPassUnlessRecovering(w) ==
    /\ worker[w].at = "request"
    /\ PassFree
    /\ pass' = IF worker[w].job = "recovery" THEN pass ELSE Requested
    /\ AfterRequest(w)
    /\ UNCHANGED <<marketVars, clock, order, decision, events, jobs, failures>>

RequestPass(w) ==
    /\ worker[w].at = "request"
    /\ PassFree
    /\ pass' = Requested
    /\ AfterRequest(w)
    /\ UNCHANGED <<marketVars, clock, order, decision, events, jobs, failures>>

NextMember == pass.members[pass.cursor + 1]

\* One transaction under the pass's lock: begins to decide the next member ...
BeginStep(w) ==
    /\ worker[w].at = "step"
    /\ PassFree
    /\ pass.cursor < Len(pass.members)
    /\ \E o \in Orders : o = NextMember /\ BeginEvaluation(o, w)
    /\ UNCHANGED queueVars

\* ... and commits the decision, or passes over a member that was settled,
\* together with the advance of the cursor.
StepMember(w) ==
    /\ worker[w].at = "step"
    /\ pass.cursor < Len(pass.members)
    /\ \E o \in Orders :
        /\ o = NextMember
        /\ \/ decision[o].by = w /\ Decide(o)
           \/ PassFree /\ order[o].status # "pending" /\ UNCHANGED <<marketVars, order, decision>>
    /\ pass' = [pass EXCEPT !.cursor = @ + 1]
    /\ Become(w, [worker[w] EXCEPT !.left = @ - 1,
                                   !.at = IF worker[w].left = 1 THEN "continue" ELSE "step"])
    /\ UNCHANGED <<clock, events, jobs, failures>>

\* No member is left, or no pass runs: the job is done unless a rescan begins.
StepEnd(w) ==
    /\ worker[w].at = "step"
    /\ PassFree
    /\ pass.cursor = Len(pass.members)
    /\ pass' = Completed
    /\ Become(w, IF pass.rescan THEN worker[w] ELSE IdleWorker)
    /\ UNCHANGED <<marketVars, clock, order, decision, events, jobs, failures>>

\* The budget is spent: another job continues the pass.  The sweep leaves one
\* in any case, without a look at the pass.
Continue(w) ==
    /\ worker[w].at = "continue"
    /\ \/ worker[w].job = "recovery" /\ jobs' = [jobs EXCEPT !.continuation = @ + 1]
       \/ /\ worker[w].job # "recovery" /\ PassFree
          /\ jobs' = [jobs EXCEPT !.continuation = IF pass.running THEN @ + 1 ELSE @]
    /\ Become(w, IdleWorker)
    /\ UNCHANGED <<marketVars, clock, order, decision, pass, events, failures>>

\* An attempt fails or the node dies: what it committed stays, what it was
\* deciding is rolled back, the job is retried from its beginning, or discarded
\* after its third attempt.
Fail(w) ==
    /\ worker[w] # IdleWorker
    /\ failures < MaxFailures
    /\ failures' = failures + 1
    /\ decision' = [o \in Orders |-> IF decision[o].by = w THEN NoDecision ELSE decision[o]]
    /\ Become(w, IdleWorker)
    /\ \/ UNCHANGED jobs
       \/ jobs' = CASE worker[w].job = "wake" -> [jobs EXCEPT !.wake = @ + 1]
                    [] worker[w].job = "continuation" -> [jobs EXCEPT !.continuation = @ + 1]
                    [] worker[w].job = "recovery" -> [jobs EXCEPT !.recovery = @ + 1]
                    [] worker[w].job = "quote" -> [jobs EXCEPT !.quote = @ \cup worker[w].todo]
    /\ UNCHANGED <<marketVars, clock, order, pass, events>>

\* The cron entry of the minute, and the startup: bounded to one sweep at a
\* time, once the continuation of the previous one was taken.
Sweep ==
    /\ jobs.recovery = 0 /\ jobs.continuation = 0
    /\ \A w \in Workers : worker[w].job # "recovery"
    /\ jobs' = [jobs EXCEPT !.recovery = 1]
    /\ UNCHANGED <<marketVars, clock, order, decision, pass, events, worker, failures>>

Work(w) ==
    \/ Take(w) \/ Accept(w)
    \/ RequestPass(w) \/ BeginStep(w) \/ StepMember(w) \/ StepEnd(w) \/ Continue(w)

Next ==
    \/ \E p \in Players, u \in Users : IssuePlayer(p, u)
    \/ \E t \in Terms : Trades(t)
    \/ \E p \in Players, price \in Prices : Confirm(p, price)
    \/ Tick
    \/ \E o \in Orders, u \in Users, p \in Players, n \in Quantities,
          limit \in Limits, lifetime \in Lifetimes : Draft(o, u, p, n, limit, lifetime)
    \/ \E o \in Orders :
        \/ Place(o) \/ Withdraw(o)
        \/ BeginCancel(o) \/ Cancel(o)
        \/ BeginAlone(o) \/ EvaluateAlone(o)
        \/ Abandon(o)
    \/ \E w \in Workers : Work(w) \/ Fail(w)
    \/ Sweep

Spec == Init /\ [][Next]_vars

\* Transactions end, the cron plugin fires, and a slot with something to do gets on:
\* a lock is granted in the order in which it was asked for, so that one which is
\* released again and again is granted.
Fairness ==
    /\ \A o \in Orders :
        WF_vars(Place(o) \/ Withdraw(o) \/ Cancel(o) \/ EvaluateAlone(o) \/ Abandon(o))
    /\ \A w \in Workers : SF_vars(Work(w))
    /\ WF_vars(Sweep)

FairSpec == Spec /\ Fairness

-----------------------------------------------------------------------------
(* Properties *)

PurchasesOf(o) == {n \in DOMAIN trades : trades[n].terms.key = o}

Justified(o) ==
    LET row == order[o]
    IN  /\ IF row.status = "executed"
           THEN /\ PurchasesOf(o) = {row.purchase}
                /\ trades[row.purchase].terms = PurchaseOf(o)
                /\ trades[row.purchase].quote.price <= row.limit
           ELSE PurchasesOf(o) = {}
        /\ row.status \in Terminal =>
             (row.status = "expired" <=> row.completed >= row.expires)

\* An order is executed exactly when one purchase cites it, with its own terms,
\* at a price within its limit and before its expiry; every other order bought
\* nothing.  An expired order was completed at its expiry or later, any other
\* before (market_order_complete, market_order_decision_time).
OutcomeJustified == \A o \in Orders : Justified(o)

\* The expiry was reached, and nobody who read the clock before decides still.
Lapsed(o) ==
    /\ order[o].status = "pending"
    /\ clock >= order[o].expires
    /\ decision[o] = NoDecision \/ Due(o)

\* Nothing rewrites an order that was settled, whoever races to cancel, to
\* evaluate or to pass over it; and once its expiry was reached a pending order
\* can only expire, but for a transaction that read the clock in time and commits
\* late: what is decided is eligibility before the expiry, not the commit.
OutcomeStands ==
    [][\A o \in Orders :
        /\ order[o].status \in Terminal => order'[o] = order[o]
        /\ Lapsed(o) => order'[o].status \in {"pending", "expired"}]_vars

\* First come, first served, per player: when a pass decides an order, every
\* order created before for the same player and still pending had its turn in the
\* same pass.  It needs the clock of a creation to be read under the player's
\* lock, else a slow creation would commit behind a later one.
FirstComeFirstServed ==
    [][\A w \in Workers : StepMember(w) =>
        LET o == NextMember
        IN  \A p \in Pending : (order[p].player = order[o].player /\ order[p].created < order[o].created) =>
                \E n \in 1 .. pass.cursor : pass.members[n] = p]_vars

\* The event of a player's quote is on its way to the workers.
EventQueued(p) ==
    \E e \in events : e[1] = p /\ (e \in jobs.quote \/ \E w \in Workers : e \in worker[w].todo)

\* As long as no job fails, no order depends on the periodic sweep: an order
\* whose limit is met has a turn ahead in the pass, or a scan is on its way; and
\* a running pass always has a job to drive it.
NoLostWakeup ==
    failures = 0 =>
        /\ \A o \in Pending : Marketable(o) =>
             \/ \E n \in pass.cursor + 1 .. Len(pass.members) : pass.members[n] = o
             \/ pass.rescan
             \/ jobs.wake > 0
             \/ \E w \in Workers : worker[w].at = "request"
             \/ EventQueued(order[o].player)
        /\ pass.running =>
             \/ jobs.wake > 0 \/ jobs.continuation > 0
             \/ \E w \in Workers : worker[w].at \in {"request", "step", "continue"}

\* Whatever jobs were lost, an order that can be settled is: it is due or its
\* limit is met, and it does not stay so for ever.
OrdersSettle ==
    \A o \in Orders :
        LET settleable == o \in Pending /\ (clock >= order[o].expires \/ Marketable(o))
        IN  settleable ~> ~settleable

-----------------------------------------------------------------------------
(* The inductive invariant behind the theorems of ConditionalOrdersProofs *)

RowsTyped ==
    /\ clock \in Nat
    /\ quote \in [Players -> Quote]
    /\ trades \in Seq(Trade)
    /\ order \in [Orders -> Order \cup {NoOrder}]
    /\ decision \in [Orders -> Decision]

\* What is being decided is pending: its row is locked.
DecisionsLocked == \A o \in Orders : decision[o] # NoDecision => order[o].status = "pending"

OrdersInv == RowsTyped /\ DecisionsLocked /\ OutcomeJustified

\* A slot without a job is idle, one that works has budget left, and only one
\* that accepts events has events.
WorkersConsistent ==
    \A w \in Workers :
        /\ worker[w].job = "none" => worker[w] = IdleWorker
        /\ worker[w].at \in {"accept", "request", "step"} => worker[w].left > 0
        /\ worker[w].at # "accept" => worker[w].todo = {}

\* However many order ids there are, finitely many orders exist.
FinitelyManyOrders == IsFiniteSet({o \in Orders : order[o].status # "absent"})

QueueInv == TypeOK /\ WorkersConsistent /\ FinitelyManyOrders

\* A creation in progress is the latest of its player, for it holds his lock.
DraftIsLatest ==
    \A d, o \in Orders :
        order[o].status # "absent" =>
            /\ order[o].created <= clock
            /\ (order[d].status = "draft" /\ order[o].player = order[d].player)
                 => order[o].created <= order[d].created

\* The members of a pass are committed orders in the order of their creation.
MembersInOrder ==
    \A m, n \in DOMAIN pass.members :
        /\ order[pass.members[n]].status \notin {"absent", "draft"}
        /\ m < n => order[pass.members[m]].created <= order[pass.members[n]].created

\* An order that is waiting outside the pass was created behind its player's
\* members.
OthersBehind ==
    \A p \in Orders, n \in DOMAIN pass.members :
        (/\ order[p].status \in {"draft", "pending"}
         /\ order[p].player = order[pass.members[n]].player
         /\ \A k \in DOMAIN pass.members : pass.members[k] # p)
            => order[pass.members[n]].created <= order[p].created

TurnInv == DraftIsLatest /\ MembersInOrder /\ OthersBehind

=============================================================================
