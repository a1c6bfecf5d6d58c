------------------------------ MODULE Trading -------------------------------
(***************************************************************************)
(* Purchases, sales and initial issuances as the database runs them: each  *)
(* request is a READ COMMITTED transaction of a session that takes its     *)
(* locks one at a time, reads the rows, decides, and commits its writes.   *)
(* Any session may be interrupted (connection lost, node killed, statement *)
(* rejected) before its commit, which rolls everything back; the client is *)
(* free to send the same request again.                                    *)
(*                                                                         *)
(* The market's variables hold the committed rows and change only at a     *)
(* commit.  held[s] are the locks of session s, all released at its end:   *)
(*   key     the advisory lock on "user:request_key"                       *)
(*   init    the row market_initialization_locks(1), FOR UPDATE            *)
(*   player  the row of the player, FOR UPDATE                             *)
(*   user    the row of the account: FOR UPDATE for a trade; FOR KEY SHARE *)
(*           for an issuance, which trades exclude and which the init lock *)
(*           already makes exclusive among issuances                       *)
(* The balance rows are locked after, and only under, their users' rows.   *)
(***************************************************************************)
EXTENDS Market

CONSTANTS
    Sessions,   \* database sessions that serve requests
    MaxTrades   \* bound on completed plus started trades

ASSUME TradingAssumption == MaxTrades \in Nat

VARIABLES
    pc,       \* what the session does next
    request,  \* the request it serves
    seen,     \* the rows it read under its locks and decided on
    held,     \* its locks
    reply     \* what it answers

sessionVars == <<pc, request, seen, held, reply>>
vars == <<marketVars, sessionVars>>

-----------------------------------------------------------------------------
(* Requests, locks and replies *)

Issuance == [side: {"issue"}, user: Users, key: {None}, player: Players,
             quantity: {Supply}]

Requests == Terms \cup Issuance

Lock == [kind: {"key"}, id: Users \X Keys]
        \cup [kind: {"init"}, id: {None}]
        \cup [kind: {"player"}, id: Players]
        \cup [kind: {"user"}, id: Users]

KeyLock(t) == [kind |-> "key", id |-> <<t.user, t.key>>]
InitLock == [kind |-> "init", id |-> None]
PlayerLock(p) == [kind |-> "player", id |-> p]
UserLock(u) == [kind |-> "user", id |-> u]

Outcomes == {"none", "ok", "already_completed", "key_conflict", "not_initialized",
             "self_trade", "recipient_conflict", "quote_unavailable",
             "inconsistent_state", "insufficient_funds", "insufficient_inventory"}

NoReply == [outcome |-> "none", trade |-> 0]
Answer(outcome, n) == [outcome |-> outcome, trade |-> n]

NothingSeen == [holding |-> [u \in Users |-> 0], quote |-> NoQuote]

Steps == {"idle", "key", "init", "player", "users", "read", "commit", "reply"}

TypeOK ==
    /\ MarketTypeOK
    /\ pc \in [Sessions -> Steps]
    /\ request \in [Sessions -> Requests \cup {None}]
    /\ seen \in [Sessions -> [holding: [Users -> Nat], quote: Quote]]
    /\ held \in [Sessions -> SUBSET Lock]
    /\ reply \in [Sessions -> [outcome: Outcomes, trade: Nat]]

-----------------------------------------------------------------------------
Init ==
    /\ MarketInit
    /\ pc = [s \in Sessions |-> "idle"]
    /\ request = [s \in Sessions |-> None]
    /\ seen = [s \in Sessions |-> NothingSeen]
    /\ held = [s \in Sessions |-> {}]
    /\ reply = [s \in Sessions |-> NoReply]

Free(l) == \A s \in Sessions : l \notin held[s]

Acquire(s, l) ==
    /\ Free(l)
    /\ held' = [held EXCEPT ![s] = @ \cup {l}]

Goto(s, step) == pc' = [pc EXCEPT ![s] = step]

\* Mutant: the locks outlive the transaction.
FinishHoldingLocks(s, answer) ==
    /\ Goto(s, "reply")
    /\ UNCHANGED held
    /\ seen' = [seen EXCEPT ![s] = NothingSeen]
    /\ reply' = [reply EXCEPT ![s] = answer]

\* The transaction ends, by commit or rollback: its locks go, its answer stays.
Finish(s, answer) ==
    /\ Goto(s, "reply")
    /\ held' = [held EXCEPT ![s] = {}]
    /\ seen' = [seen EXCEPT ![s] = NothingSeen]
    /\ reply' = [reply EXCEPT ![s] = answer]

Active == {s \in Sessions : pc[s] # "idle"}

\* A client calls execute (a trade) or initialize (an issuance); neither
\* accepts a caller that already holds a transaction.
Begin(s, r) ==
    /\ pc[s] = "idle"
    /\ Len(trades) + Cardinality(Active) < MaxTrades
    /\ Goto(s, IF r.side = "issue" THEN "init" ELSE "key")
    /\ request' = [request EXCEPT ![s] = r]
    /\ UNCHANGED <<marketVars, seen, held, reply>>

\* Mutant: a replay does not compare the quantity it was first asked for.
LockKeyIgnoringQuantity(s) ==
    LET t == request[s]
        before == Previous(t)
    IN  /\ pc[s] = "key"
        /\ Free(KeyLock(t))
        /\ IF before = {}
           THEN /\ Acquire(s, KeyLock(t))
                /\ Goto(s, "player")
                /\ UNCHANGED <<seen, reply>>
           ELSE Finish(s, Answer("ok", CHOOSE n \in before : TRUE))
        /\ UNCHANGED <<marketVars, request>>

\* Takes the key's advisory lock, then looks for the trade it completed.
LockKey(s) ==
    LET t == request[s]
        before == Previous(t)
    IN  /\ pc[s] = "key"
        /\ Free(KeyLock(t))
        /\ IF before = {}
           THEN /\ Acquire(s, KeyLock(t))
                /\ Goto(s, "player")
                /\ UNCHANGED <<seen, reply>>
           ELSE LET n == CHOOSE n \in before : TRUE
                    same == /\ trades[n].terms.player = t.player
                            /\ trades[n].terms.quantity = t.quantity
                IN  Finish(s, IF same THEN Answer("ok", n) ELSE Answer("key_conflict", 0))
        /\ UNCHANGED <<marketVars, request>>

LockInit(s) ==
    /\ pc[s] = "init"
    /\ Acquire(s, InitLock)
    /\ Goto(s, "player")
    /\ UNCHANGED <<marketVars, request, seen, reply>>

\* Takes the player's row.  A trade then reads the issuance and may be refused.
LockPlayer(s) ==
    LET r == request[s]
    IN  /\ pc[s] = "player"
        /\ Free(PlayerLock(r.player))
        /\ IF r.side # "issue" /\ r.player \notin issued
           THEN Finish(s, Answer("not_initialized", 0))
           ELSE IF r.side # "issue" /\ r.user = recipient
           THEN Finish(s, Answer("self_trade", 0))
           ELSE /\ Acquire(s, PlayerLock(r.player))
                /\ Goto(s, "users")
                /\ UNCHANGED <<seen, reply>>
        /\ UNCHANGED <<marketVars, request>>

\* The accounts whose rows the transaction locks.
Parties(s) ==
    IF request[s].side = "issue" THEN {request[s].user}
    ELSE {request[s].user, recipient}

Unlocked(s) == {u \in Parties(s) : UserLock(u) \notin held[s]}

\* Mutant: the payer's account first, as the balances are moved.
NextUserPayerFirst(s) ==
    IF request[s].side # "issue" /\ Payer(request[s], recipient) \in Unlocked(s)
    THEN Payer(request[s], recipient)
    ELSE CHOOSE u \in Unlocked(s) : TRUE

\* The next account in ascending id order.
NextUser(s) == CHOOSE u \in Unlocked(s) : \A v \in Unlocked(s) : u <= v

\* Mutant: the accounts are read without FOR UPDATE.
LockUserWithoutLocking(s) ==
    /\ pc[s] = "users" /\ Unlocked(s) # {}
    /\ Goto(s, "read")
    /\ UNCHANGED <<marketVars, request, seen, held, reply>>

LockUser(s) ==
    /\ pc[s] = "users" /\ Unlocked(s) # {}
    /\ Acquire(s, UserLock(NextUser(s)))
    /\ Goto(s, IF Unlocked(s) = {NextUser(s)} THEN "read" ELSE "users")
    /\ UNCHANGED <<marketVars, request, seen, reply>>

\* Reads balances, holdings and the latest quote, and decides the trade.
ReadMarket(s) ==
    LET t == request[s]
        h == holding[t.player]
        q == quote[t.player]
        verdict == Verdict(t, recipient, balance, h, q)
    IN  /\ pc[s] = "read" /\ t.side # "issue"
        /\ IF verdict = "ok"
           THEN /\ Goto(s, "commit")
                /\ seen' = [seen EXCEPT ![s] = [holding |-> h, quote |-> q]]
                /\ UNCHANGED <<held, reply>>
           ELSE Finish(s, Answer(verdict, 0))
        /\ UNCHANGED <<marketVars, request>>

\* What an issuance decides from its snapshot.
IssueVerdict(r) ==
    IF recipient \notin {None, r.user} THEN "recipient_conflict"
    ELSE IF r.player \in issued THEN "already_completed"
    ELSE "ok"

ReadIssuance(s) ==
    LET verdict == IssueVerdict(request[s])
    IN  /\ pc[s] = "read" /\ request[s].side = "issue"
        /\ IF verdict = "ok"
           THEN Goto(s, "commit") /\ UNCHANGED <<seen, held, reply>>
           ELSE Finish(s, Answer(verdict, 0))
        /\ UNCHANGED <<marketVars, request>>

\* Mutant: debit and credit are exchanged.
WriteReversed(s) ==
    LET t == request[s]
        p == t.player
        h == seen[s].holding
        from == Payee(t, recipient)
        to == Payer(t, recipient)
    IN  /\ balance' = Paid(balance, from, to, Total(t, seen[s].quote))
        /\ holding' = [holding EXCEPT ![p] = [@ EXCEPT ![from] = h[from] - t.quantity,
                                                         ![to] = h[to] + t.quantity]]
        /\ trades' = Append(trades, [terms |-> t, quote |-> seen[s].quote])

\* Mutant: the payee is credited, the payer is not debited.
WriteWithoutDebit(s) ==
    LET t == request[s]
        p == t.player
        h == seen[s].holding
        from == Payee(t, recipient)
        to == Payer(t, recipient)
    IN  /\ balance' = [balance EXCEPT ![from] = @ + Total(t, seen[s].quote)]
        /\ holding' = [holding EXCEPT ![p] = [@ EXCEPT ![from] = h[from] - t.quantity,
                                                         ![to] = h[to] + t.quantity]]
        /\ trades' = Append(trades, [terms |-> t, quote |-> seen[s].quote])

\* The trade's writes.  Balances are moved by an UPDATE relative to the stored
\* amount; the two holdings are overwritten from the quantities read before.
Write(s) ==
    LET t == request[s]
        p == t.player
        h == seen[s].holding
        from == Payee(t, recipient)
        to == Payer(t, recipient)
    IN  /\ balance' = Paid(balance, to, from, Total(t, seen[s].quote))
        /\ holding' = [holding EXCEPT ![p] = [@ EXCEPT ![from] = h[from] - t.quantity,
                                                         ![to] = h[to] + t.quantity]]
        /\ trades' = Append(trades, [terms |-> t, quote |-> seen[s].quote])

\* The constraints the database checks at the latest when the trade commits:
\* nonnegative balances and holdings, conserved supply, one trade per key.
Admissible(s) ==
    LET t == request[s]
        payer == Payer(t, recipient)
        h == [holding[t.player] EXCEPT
                 ![Payee(t, recipient)] = seen[s].holding[Payee(t, recipient)] - t.quantity,
                 ![payer] = seen[s].holding[payer] + t.quantity]
    IN  /\ balance[payer] >= Total(t, seen[s].quote)
        /\ seen[s].holding[Payee(t, recipient)] >= t.quantity
        /\ TotalHeld(h) = Supply
        /\ Previous(t) = {}

CommitTrade(s) ==
    /\ pc[s] = "commit" /\ request[s].side # "issue"
    /\ Admissible(s)
    /\ Write(s)
    /\ Finish(s, Answer("ok", Len(trades) + 1))
    /\ UNCHANGED <<recipient, issued, quote, request>>

CommitIssuance(s) ==
    LET r == request[s]
    IN  /\ pc[s] = "commit" /\ r.side = "issue"
        /\ Issue(r.player, r.user)
        /\ Finish(s, Answer("ok", 0))
        /\ UNCHANGED request

\* The session is done with the request, whether or not the client got the
\* answer: asking again is another Begin.
Reply(s) ==
    /\ pc[s] = "reply"
    /\ Goto(s, "idle")
    /\ request' = [request EXCEPT ![s] = None]
    /\ reply' = [reply EXCEPT ![s] = NoReply]
    /\ UNCHANGED <<marketVars, seen, held>>

\* Storage fails, or the node dies, before the commit: rolled back, the client
\* learns nothing (temporarily_unavailable, or no answer at all).
Abort(s) ==
    /\ pc[s] \notin {"idle", "reply"}
    /\ Goto(s, "idle")
    /\ held' = [held EXCEPT ![s] = {}]
    /\ seen' = [seen EXCEPT ![s] = NothingSeen]
    /\ request' = [request EXCEPT ![s] = None]
    /\ UNCHANGED <<marketVars, reply>>

\* Mutant: the confirmation does not wait for the player's row.
ConfirmUnlocked(p, price) ==
    /\ ConfirmQuote(p, price)
    /\ UNCHANGED sessionVars

\* A quote is confirmed by a transaction that holds the player's row throughout.
Confirm(p, price) ==
    /\ Free(PlayerLock(p))
    /\ ConfirmQuote(p, price)
    /\ UNCHANGED sessionVars

Step(s) ==
    \/ LockKey(s) \/ LockInit(s) \/ LockPlayer(s) \/ LockUser(s)
    \/ ReadMarket(s) \/ ReadIssuance(s)
    \/ CommitTrade(s) \/ CommitIssuance(s)
    \/ Reply(s)

Next ==
    \/ \E s \in Sessions, r \in Requests : Begin(s, r)
    \/ \E s \in Sessions : Step(s) \/ Abort(s)
    \/ \E p \in Players, price \in Prices : Confirm(p, price)

Spec == Init /\ [][Next]_vars

\* PostgreSQL queues the waiters of a lock, so a request for a lock that is
\* released again and again is granted: strong fairness of a session's steps.
FairSpec == Spec /\ \A s \in Sessions : SF_vars(Step(s))

-----------------------------------------------------------------------------
(* Properties *)

\* The lock a session asks for next, none when it waits for no lock.
Wanted(s) ==
    CASE pc[s] = "key"    -> {KeyLock(request[s])}
      [] pc[s] = "init"   -> {InitLock}
      [] pc[s] = "player" -> {PlayerLock(request[s].player)}
      [] pc[s] = "users"  -> {UserLock(NextUser(s))}
      [] OTHER            -> {}

\* The lock order (key or init, player, accounts ascending) admits no cycle of
\* sessions each waiting for a lock of the next.
NoDeadlock ==
    \A D \in (SUBSET Sessions) \ {{}} :
        \E s \in D : \A t \in D : Wanted(s) \cap held[t] = {}

\* What a session decided under its locks is still right when it commits: no
\* constraint, unique index or deferred check of the database ever fires for a
\* purchase or a sale, and a decided issuance is still to be made.
DecisionStands ==
    \A s \in Sessions : pc[s] = "commit" =>
        IF request[s].side = "issue" THEN IssueVerdict(request[s]) = "ok"
        ELSE Admissible(s)

\* A successful answer cites the one trade that has the terms asked for, be it
\* new or a replay: never another quantity or player under the same key.
AnswerIsOwnTrade ==
    \A s \in Sessions :
        (reply[s].outcome = "ok" /\ request[s].side # "issue") =>
            /\ reply[s].trade \in DOMAIN trades
            /\ trades[reply[s].trade].terms = request[s]

\* Every request is answered or aborted: none waits for a lock forever.
RequestsEnd == \A s \in Sessions : pc[s] # "idle" ~> pc[s] = "idle"

-----------------------------------------------------------------------------
(* The inductive invariant behind the theorems of TradingProofs *)

Trading(s) == request[s].side # "issue"

\* Locks are exclusive.
Exclusive == \A s, t \in Sessions : s # t => held[s] \cap held[t] = {}

\* At each step a session holds the locks it took on the way.
LocksTaken ==
    \A s \in Sessions :
        /\ pc[s] # "idle" => request[s] \in Requests
        /\ (pc[s] = "key" => Trading(s)) /\ (pc[s] = "init" => ~Trading(s))
        /\ pc[s] \in {"player", "users", "read", "commit"} =>
             (IF Trading(s) THEN KeyLock(request[s]) ELSE InitLock) \in held[s]
        /\ pc[s] \in {"users", "read", "commit"} => PlayerLock(request[s].player) \in held[s]
        /\ pc[s] \in {"read", "commit"} => \A u \in Parties(s) : UserLock(u) \in held[s]

\* What a trade established before its last lock stays true under its locks.
TradeStands ==
    \A s \in Sessions : (pc[s] \in {"player", "users", "read", "commit"} /\ Trading(s)) =>
        /\ Previous(request[s]) = {}
        /\ pc[s] # "player" => /\ request[s].player \in issued
                               /\ request[s].user # recipient

\* The rows a session decided on are still the committed rows.
RowsUnchanged ==
    \A s \in Sessions : pc[s] = "commit" =>
        IF Trading(s)
        THEN LET t == request[s]
             IN  /\ seen[s] = [holding |-> holding[t.player], quote |-> quote[t.player]]
                 /\ Verdict(t, recipient, balance, holding[t.player], quote[t.player]) = "ok"
        ELSE IssueVerdict(request[s]) = "ok"

IInv ==
    /\ TypeOK
    /\ Exclusive
    /\ LocksTaken
    /\ IssuedToRecipient
    /\ TradeStands
    /\ RowsUnchanged

\* A session holds a lock only from the step that takes it, and takes the
\* accounts in ascending order.
LocksHeld ==
    \A s \in Sessions :
        /\ pc[s] \in {"idle", "key", "init", "reply"} => held[s] = {}
        /\ pc[s] = "player" => \A l \in held[s] : l.kind \in {"key", "init"}
        /\ pc[s] = "users" =>
             /\ Unlocked(s) # {}
             /\ \A l \in held[s] : l.kind = "user" => \E u \in Parties(s) : l = UserLock(u)
             /\ \A u \in Parties(s) \ Unlocked(s), v \in Unlocked(s) : u < v

\* Only a session that is about to reply has an answer, and the answer is right.
Answered ==
    /\ \A s \in Sessions : reply[s].outcome # "none" => pc[s] = "reply"
    /\ AnswerIsOwnTrade

=============================================================================
