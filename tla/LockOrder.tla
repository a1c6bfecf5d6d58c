----------------------------- MODULE LockOrder ------------------------------
(***************************************************************************)
(* The row locks of every transaction that touches the market, in the      *)
(* order the code takes them.  A transaction is its plan, the rows it will *)
(* lock one after the other, and the number of them it holds; it gives all *)
(* of them up at once, by committing or by rolling back.                   *)
(*                                                                         *)
(* Advisory locks come first in every plan and name one request or one     *)
(* order: they are left out.  So are the share locks of foreign keys, on   *)
(* rows a plan holds anyway and for the rows that imports and closes       *)
(* insert; but an order's creation locks its owner that way.               *)
(***************************************************************************)
EXTENDS Integers, Sequences, FiniteSets

CONSTANTS
    Players,       \* player ids of one season, ordered as uuids are
    Accounts,      \* account ids, ordered likewise
    Orders,        \* conditional orders
    Calculations,  \* quote calculation requests
    Bound,         \* above every id
    FreshPlayers,  \* whether a catalog publication may bring players not seen before
    Sessions

ASSUME LockOrderAssumption ==
    /\ Bound \in Nat \ {0}
    /\ Players \subseteq 0 .. Bound - 1 /\ Accounts \subseteq 0 .. Bound - 1
    /\ Orders \subseteq 0 .. Bound - 1 /\ Calculations \subseteq 0 .. Bound - 1
    /\ IsFiniteSet(Players)
    /\ FreshPlayers \in BOOLEAN

VARIABLE session

-----------------------------------------------------------------------------
(* Locks *)

Exclusive(table, id) == [table |-> table, id |-> id, shared |-> FALSE]

KeyShare(table, id) == [table |-> table, id |-> id, shared |-> TRUE]

PassRow == Exclusive("pass", 0)               \* market_order_evaluation_passes(1)
InitializationRow == Exclusive("init", 0)     \* market_initialization_locks(1)
OrderRow(o) == Exclusive("order", o)
PlayerRow(p) == Exclusive("player", p)
CalculationRow(c) == Exclusive("calculation", c)
AccountRow(u) == Exclusive("account", u)

Lock == [table: {"pass", "init", "order", "player", "calculation", "account"},
         id: 0 .. Bound - 1, shared: BOOLEAN]

Conflict(l, m) ==
    /\ l.table = m.table /\ l.id = m.id
    /\ ~(l.shared /\ m.shared)

-----------------------------------------------------------------------------
(* Plans *)

\* Market.initialize_player, and the acceptance of a player's statistics, which
\* issues the player first.
Issuances ==
    {<<InitializationRow, PlayerRow(p), KeyShare("account", u)>> : p \in Players, u \in Accounts}

\* Mutant: buyer, then seller.
SettlementsByRole ==
    {<<PlayerRow(p), AccountRow(uv[1]), AccountRow(uv[2])>> :
        p \in Players, uv \in {ab \in Accounts \X Accounts : ab[1] # ab[2]}}

\* What a purchase, a sale and the execution of an order have in common: the
\* player, then both accounts in ascending id order (the balances follow theirs).
Settlements ==
    {<<PlayerRow(p), AccountRow(uv[1]), AccountRow(uv[2])>> :
        p \in Players, uv \in {ab \in Accounts \X Accounts : ab[1] < ab[2]}}

\* An order is evaluated by a step of the pass, or by itself.
Evaluations ==
    LET OrderLocks == {<<PassRow, OrderRow(o)>> : o \in Orders} \cup {<<OrderRow(o)>> : o \in Orders}
    IN  {qs[1] \o qs[2] : qs \in OrderLocks \X Settlements}

\* Cancel an order; create one (its wake is a job, not the pass); request,
\* complete or continue the pass.
OrderCommands ==
    {<<OrderRow(o)>> : o \in Orders}
    \cup {<<PlayerRow(p), KeyShare("account", u)>> : p \in Players, u \in Accounts}
    \cup {<<PassRow>>}

\* A calculation is confirmed, or claimed, bound, finished or put off.
CalculationSteps ==
    {<<PlayerRow(p), CalculationRow(c)>> : p \in Players, c \in Calculations}
    \cup {<<CalculationRow(c)>> : c \in Calculations}

\* Every player of the season, in ascending id order.
SeasonRows ==
    {[i \in 1 .. Cardinality(Players) |-> PlayerRow(q[i])] :
        q \in {f \in [1 .. Cardinality(Players) -> Players] :
                  \A i, j \in 1 .. Cardinality(Players) : i < j => f[i] < f[j]}}

\* A catalog publication.  It issues each player it inserts before it commits;
\* the row of such a player is its own and conflicts with nobody.
Publications ==
    SeasonRows
    \cup (IF FreshPlayers
          THEN {s \o <<InitializationRow, KeyShare("account", u)>> : s \in SeasonRows, u \in Accounts}
          ELSE {})

Plans ==
    Issuances \cup Settlements \cup Evaluations \cup OrderCommands
    \cup CalculationSteps \cup Publications

-----------------------------------------------------------------------------
(* Transactions *)

Idle == [plan |-> <<>>, taken |-> 0]

TypeOK ==
    \A s \in Sessions :
        /\ session[s].plan \in Plans \cup {<<>>}
        /\ session[s].taken \in 0 .. Len(session[s].plan)

Init == session = [s \in Sessions |-> Idle]

Held(s) == {session[s].plan[i] : i \in 1 .. session[s].taken}

Waiting(s) == session[s].taken < Len(session[s].plan)

Wanted(s) == session[s].plan[session[s].taken + 1]

WaitsFor(s, t) ==
    /\ s # t
    /\ Waiting(s)
    /\ \E l \in Held(t) : Conflict(Wanted(s), l)

Begin(s, plan) ==
    /\ session[s] = Idle
    /\ session' = [session EXCEPT ![s].plan = plan]

Take(s) ==
    /\ Waiting(s)
    /\ \A t \in Sessions : ~WaitsFor(s, t)
    /\ session' = [session EXCEPT ![s].taken = @ + 1]

\* Mutant: the locks of a transaction outlive it.
EndKeepingLocks(s) ==
    /\ session[s] # Idle
    /\ session' = [session EXCEPT ![s].plan = <<>>]

\* Commit or rollback, at any point: a refusal gives up halfway.
End(s) ==
    /\ session[s] # Idle
    /\ session' = [session EXCEPT ![s] = Idle]

Next ==
    \E s \in Sessions :
        \/ \E plan \in Plans : Begin(s, plan)
        \/ Take(s)
        \/ End(s)

Spec == Init /\ [][Next]_session

-----------------------------------------------------------------------------
(* Properties *)

\* No transactions ever wait for each other in a circle: in any group of them
\* one waits for none of the group, so the database never has to choose a
\* victim (ADRs 0024, 0032, 0036 and 0037 fix the order of the locks for this).
NoWaitCycle ==
    \A D \in (SUBSET Sessions) \ {{}} : \E s \in D : \A t \in D : ~WaitsFor(s, t)

=============================================================================
