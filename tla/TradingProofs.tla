--------------------------- MODULE TradingProofs ----------------------------
(***************************************************************************)
(* Theorems about the concurrent market, for any number of accounts,       *)
(* players, keys and sessions: type correctness, what a session decided    *)
(* still stands when it commits, one trade per request key, and the        *)
(* interleaved transactions implement the atomic market.                   *)
(***************************************************************************)
EXTENDS Trading, MarketProofs

-----------------------------------------------------------------------------
(* Lemmas about the operators of the model *)

\* Requests are trades or issuances, told apart by their side.
LEMMA RequestKinds ==
    /\ \A r \in Requests : r.side # "issue" => r \in Terms
    /\ \A r \in Requests : r.side = "issue" => r \in Issuance
    /\ \A r \in Requests : r.user \in Users /\ r.player \in Players
BY DEF Requests, Terms, Issuance

\* The verdict depends on the balances only through the payer's.
LEMMA VerdictLocal ==
    ASSUME NEW t, NEW r, NEW b, NEW c, NEW h, NEW q, b[Payer(t, r)] = c[Payer(t, r)]
    PROVE  Verdict(t, r, b, h, q) = Verdict(t, r, c, h, q)
BY DEF Verdict

\* The initial state satisfies the inductive invariant.
LEMMA InitInvariant == Init => IInv
<1> SUFFICES ASSUME Init PROVE IInv
    OBVIOUS
<1> USE DEF Init, MarketInit
<1>1. TypeOK
    <2>1. NothingSeen \in [holding: [Users -> Nat], quote: Quote]
        BY DEF NothingSeen, NoQuote, Quote
    <2>2. NoQuote \in Quote
        BY DEF NoQuote, Quote
    <2>3. MarketTypeOK
        BY <2>2, MarketAssumption DEF MarketTypeOK
    <2> QED
        BY <2>1, <2>3 DEF TypeOK, Steps, NoReply, Outcomes
<1>2. Exclusive /\ LocksTaken /\ IssuedToRecipient /\ TradeStands /\ RowsUnchanged
    BY MarketAssumption
       DEF Exclusive, LocksTaken, IssuedToRecipient, TradeStands, RowsUnchanged
<1> QED
    BY <1>1, <1>2 DEF IInv

-----------------------------------------------------------------------------
(* Steps that leave the market's rows alone *)

\* A transaction that ends without a write keeps the invariant.
LEMMA FinishKeeps ==
    ASSUME IInv, NEW s \in Sessions, NEW outcome \in Outcomes, NEW n \in Nat,
           pc[s] # "idle", Finish(s, Answer(outcome, n)),
           UNCHANGED <<marketVars, request>>
    PROVE  IInv'
<1> USE DEF IInv
<1>1. TypeOK'
    <2>1. NothingSeen \in [holding: [Users -> Nat], quote: Quote]
        BY DEF NothingSeen, NoQuote, Quote
    <2>2. Answer(outcome, n) \in [outcome: Outcomes, trade: Nat]
        BY DEF Answer
    <2> QED
        BY <2>1, <2>2 DEF TypeOK, MarketTypeOK, marketVars, Finish, Goto, Steps
<1>2. Exclusive'
    BY DEF Exclusive, Finish, TypeOK
<1>3. LocksTaken'
    BY DEF LocksTaken, Finish, Goto, TypeOK, Trading, Parties, marketVars
<1>4. IssuedToRecipient'
    BY DEF IssuedToRecipient, marketVars
<1>5. TradeStands'
    BY DEF TradeStands, Finish, Goto, TypeOK, Trading, Previous, marketVars
<1>6. RowsUnchanged'
    BY DEF RowsUnchanged, Finish, Goto, TypeOK, Trading, IssueVerdict, marketVars
<1> QED
    BY <1>1, <1>2, <1>3, <1>4, <1>5, <1>6

LEMMA BeginKeeps ==
    ASSUME IInv, NEW s \in Sessions, NEW r \in Requests, Begin(s, r)
    PROVE  IInv'
<1> USE DEF IInv, Begin
<1>1. TypeOK'
    BY DEF TypeOK, MarketTypeOK, marketVars, Goto, Steps
<1>2. Exclusive'
    BY DEF Exclusive
<1>3. LocksTaken'
    BY DEF LocksTaken, Goto, TypeOK, Trading, Parties, marketVars
<1>4. IssuedToRecipient'
    BY DEF IssuedToRecipient, marketVars
<1>5. TradeStands'
    BY DEF TradeStands, Goto, TypeOK, Trading, Previous, marketVars
<1>6. RowsUnchanged'
    BY DEF RowsUnchanged, Goto, TypeOK, Trading, IssueVerdict, marketVars
<1> QED
    BY <1>1, <1>2, <1>3, <1>4, <1>5, <1>6

\* Taking a free lock leaves the locks exclusive.
LEMMA AcquireExclusive ==
    ASSUME NEW s \in Sessions, NEW l \in Lock, held \in [Sessions -> SUBSET Lock],
           Exclusive, Acquire(s, l)
    PROVE  /\ Exclusive'
           /\ held' \in [Sessions -> SUBSET Lock]
           /\ \A t \in Sessions : held[t] \subseteq held'[t]
           /\ l \in held'[s]
BY DEF Exclusive, Acquire, Free

LEMMA LockKeyKeeps ==
    ASSUME IInv, NEW s \in Sessions, LockKey(s)
    PROVE  IInv'
<1> DEFINE t == request[s]
           before == Previous(t)
<1> USE DEF IInv, LockKey
<1>0. t \in Requests /\ t.side # "issue"
    BY DEF LocksTaken, Trading
<1>1. CASE before = {}
    <2>1. KeyLock(t) \in Lock
        BY <1>0, RequestKinds DEF KeyLock, Lock, Terms
    <2>a. /\ Acquire(s, KeyLock(t)) /\ Goto(s, "player")
          /\ UNCHANGED <<marketVars, request, seen, reply>>
        BY <1>1
    <2>2. /\ Exclusive' /\ held' \in [Sessions -> SUBSET Lock]
          /\ \A u \in Sessions : held[u] \subseteq held'[u]
          /\ KeyLock(t) \in held'[s]
        BY <2>1, <2>a, AcquireExclusive DEF TypeOK
    <2>3. TypeOK'
        BY <2>a, <2>2 DEF TypeOK, MarketTypeOK, marketVars, Goto, Steps
    <2>4. LocksTaken'
        BY <2>a, <2>2 DEF LocksTaken, Goto, TypeOK, Trading, Parties, marketVars
    <2>5. IssuedToRecipient'
        BY <2>a DEF IssuedToRecipient, marketVars
    <2>6. TradeStands'
        BY <2>a, <1>1 DEF TradeStands, Goto, TypeOK, Trading, Previous, marketVars
    <2>7. RowsUnchanged'
        BY <2>a DEF RowsUnchanged, Goto, TypeOK, Trading, IssueVerdict, marketVars
    <2> QED
        BY <2>2, <2>3, <2>4, <2>5, <2>6, <2>7
<1>2. CASE before # {}
    <2>1. PICK n \in before : \E outcome \in {"ok", "key_conflict"}, m \in {n, 0} :
              Finish(s, Answer(outcome, m))
        BY <1>2
    <2>2. n \in Nat
        BY <2>1 DEF Previous, TypeOK, MarketTypeOK
    <2> QED
        BY <2>1, <2>2, FinishKeeps DEF Outcomes
<1> QED
    BY <1>1, <1>2

LEMMA LockInitKeeps ==
    ASSUME IInv, NEW s \in Sessions, LockInit(s)
    PROVE  IInv'
<1> USE DEF IInv, LockInit
<1>1. InitLock \in Lock
    BY DEF InitLock, Lock
<1>2. /\ Exclusive' /\ held' \in [Sessions -> SUBSET Lock]
      /\ \A u \in Sessions : held[u] \subseteq held'[u]
      /\ InitLock \in held'[s]
    BY <1>1, AcquireExclusive DEF TypeOK
<1>3. TypeOK'
    BY <1>2 DEF TypeOK, MarketTypeOK, marketVars, Goto, Steps
<1>4. LocksTaken'
    BY <1>2 DEF LocksTaken, Goto, TypeOK, Trading, Parties, marketVars
<1>5. IssuedToRecipient'
    BY DEF IssuedToRecipient, marketVars
<1>6. TradeStands'
    BY DEF TradeStands, LocksTaken, Goto, TypeOK, Trading, Previous, marketVars
<1>7. RowsUnchanged'
    BY DEF RowsUnchanged, Goto, TypeOK, Trading, IssueVerdict, marketVars
<1> QED
    BY <1>2, <1>3, <1>4, <1>5, <1>6, <1>7

LEMMA LockPlayerKeeps ==
    ASSUME IInv, NEW s \in Sessions, LockPlayer(s)
    PROVE  IInv'
<1> DEFINE r == request[s]
           l == PlayerLock(r.player)
<1> USE DEF IInv, LockPlayer
<1>0. r \in Requests /\ l \in Lock
    BY RequestKinds DEF LocksTaken, PlayerLock, Lock
<1>1. CASE r.side # "issue" /\ (r.player \notin issued \/ r.user = recipient)
    <2>1. PICK outcome \in {"not_initialized", "self_trade"} : Finish(s, Answer(outcome, 0))
        BY <1>1
    <2> QED
        BY <2>1, FinishKeeps DEF Outcomes
<1>2. CASE ~(r.side # "issue" /\ (r.player \notin issued \/ r.user = recipient))
    <2>1. Acquire(s, l) /\ Goto(s, "users") /\ UNCHANGED <<marketVars, request, seen, reply>>
        BY <1>2
    <2>2. /\ Exclusive' /\ held' \in [Sessions -> SUBSET Lock]
          /\ \A u \in Sessions : held[u] \subseteq held'[u]
          /\ l \in held'[s]
        BY <1>0, <2>1, AcquireExclusive DEF TypeOK
    <2>3. TypeOK'
        BY <2>1, <2>2 DEF TypeOK, MarketTypeOK, marketVars, Goto, Steps
    <2>4. LocksTaken'
        BY <2>1, <2>2 DEF LocksTaken, Goto, TypeOK, Trading, Parties, marketVars
    <2>5. IssuedToRecipient'
        BY <2>1 DEF IssuedToRecipient, marketVars
    <2>6. TradeStands'
        BY <2>1, <1>2 DEF TradeStands, Goto, TypeOK, Trading, Previous, marketVars
    <2>7. RowsUnchanged'
        BY <2>1 DEF RowsUnchanged, Goto, TypeOK, Trading, IssueVerdict, marketVars
    <2> QED
        BY <2>2, <2>3, <2>4, <2>5, <2>6, <2>7
<1> QED
    BY <1>1, <1>2

\* The parties of a session with an issued player, or of an issuance, are
\* accounts, so there is a least one among those not yet locked.
LEMMA LeastUnlocked ==
    ASSUME IInv, NEW s \in Sessions, pc[s] = "users", Unlocked(s) # {}
    PROVE  /\ Unlocked(s) \subseteq Users /\ Unlocked(s) \subseteq Nat
           /\ \E u \in Unlocked(s) : \A v \in Unlocked(s) : u <= v
<1>1. request[s] \in Requests /\ (Trading(s) => recipient \in Users)
    BY DEF IInv, LocksTaken, TradeStands, IssuedToRecipient
<1>2. Parties(s) \subseteq Users /\ Users \subseteq Nat
    BY <1>1, RequestKinds, MarketAssumption DEF Parties, Trading
<1>3. \E a, b \in Users : Parties(s) = {a, b}
    <2>1. request[s].user \in Users
        BY <1>1, RequestKinds
    <2>2. CASE Trading(s)
        BY <1>1, <2>1, <2>2 DEF Parties, Trading
    <2>3. CASE ~Trading(s)
        BY <1>1, <2>1, <2>3 DEF Parties, Trading
    <2> QED
        BY <2>2, <2>3
<1>4. \E u \in Unlocked(s) : \A v \in Unlocked(s) : u <= v
    <2>1. PICK a \in Users, b \in Users : Parties(s) = {a, b}
        BY <1>3
    <2>2. a \in Nat /\ b \in Nat /\ Unlocked(s) \subseteq {a, b}
        BY <1>2, <2>1 DEF Unlocked
    <2> QED
        BY <2>2
<1> QED
    BY <1>2, <1>4 DEF Unlocked

\* The next account to lock is that least one.
LEMMA NextUserType ==
    ASSUME IInv, NEW s \in Sessions, pc[s] = "users", Unlocked(s) # {}
    PROVE  /\ NextUser(s) \in Unlocked(s) /\ NextUser(s) \in Users
           /\ \A v \in Unlocked(s) : NextUser(s) <= v
BY LeastUnlocked DEF NextUser

LEMMA LockUserKeeps ==
    ASSUME IInv, NEW s \in Sessions, LockUser(s)
    PROVE  IInv'
<1> DEFINE l == UserLock(NextUser(s))
<1> USE DEF IInv, LockUser
<1>0. NextUser(s) \in Unlocked(s) /\ l \in Lock
    BY NextUserType DEF UserLock, Lock
<1>1. /\ Exclusive' /\ held' \in [Sessions -> SUBSET Lock]
      /\ \A u \in Sessions : held[u] \subseteq held'[u]
      /\ l \in held'[s]
    BY <1>0, AcquireExclusive DEF TypeOK
<1>2. TypeOK'
    BY <1>1 DEF TypeOK, MarketTypeOK, marketVars, Goto, Steps
<1>3. LocksTaken'
    <2>1. \A u \in Sessions : Parties(u)' = Parties(u)
        BY DEF Parties, marketVars
    <2>2. Unlocked(s) = {NextUser(s)} => \A u \in Parties(s) : UserLock(u) \in held'[s]
        BY <1>1 DEF Unlocked
    <2>3. pc'[s] = "read" => Unlocked(s) = {NextUser(s)}
        BY DEF Goto, TypeOK
    <2> QED
        BY <1>1, <2>1, <2>2, <2>3 DEF LocksTaken, Goto, TypeOK, Trading
<1>4. IssuedToRecipient'
    BY DEF IssuedToRecipient, marketVars
<1>5. TradeStands'
    BY DEF TradeStands, Goto, TypeOK, Trading, Previous, marketVars
<1>6. RowsUnchanged'
    BY DEF RowsUnchanged, Goto, TypeOK, Trading, IssueVerdict, marketVars
<1> QED
    BY <1>1, <1>2, <1>3, <1>4, <1>5, <1>6

\* Every verdict is an outcome a session may answer.
LEMMA VerdictType ==
    ASSUME NEW t, NEW r, NEW b, NEW h, NEW q
    PROVE  Verdict(t, r, b, h, q) \in Outcomes
BY DEF Verdict, Outcomes

LEMMA ReadMarketKeeps ==
    ASSUME IInv, NEW s \in Sessions, ReadMarket(s)
    PROVE  IInv'
<1> DEFINE t == request[s]
           verdict == Verdict(t, recipient, balance, holding[t.player], quote[t.player])
<1> USE DEF IInv, ReadMarket
<1>0. t \in Requests /\ t.player \in Players
    BY RequestKinds DEF LocksTaken
<1>1. CASE verdict # "ok"
    <2>1. verdict \in Outcomes
        BY VerdictType
    <2>2. Finish(s, Answer(verdict, 0))
        BY <1>1
    <2> QED
        BY <2>1, <2>2, FinishKeeps
<1>2. CASE verdict = "ok"
    <2>1. /\ Goto(s, "commit")
          /\ seen' = [seen EXCEPT ![s] = [holding |-> holding[t.player], quote |-> quote[t.player]]]
          /\ UNCHANGED <<marketVars, request, held, reply>>
        BY <1>2
    <2>2. TypeOK'
        BY <1>0, <2>1 DEF TypeOK, MarketTypeOK, marketVars, Goto, Steps
    <2>3. Exclusive'
        BY <2>1 DEF Exclusive
    <2>4. LocksTaken'
        BY <2>1 DEF LocksTaken, Goto, TypeOK, Trading, Parties, marketVars
    <2>5. IssuedToRecipient'
        BY <2>1 DEF IssuedToRecipient, marketVars
    <2>6. TradeStands'
        BY <2>1 DEF TradeStands, Goto, TypeOK, Trading, Previous, marketVars
    <2>7. RowsUnchanged'
        BY <2>1, <1>2 DEF RowsUnchanged, Goto, TypeOK, Trading, IssueVerdict, marketVars
    <2> QED
        BY <2>2, <2>3, <2>4, <2>5, <2>6, <2>7
<1> QED
    BY <1>1, <1>2

LEMMA ReadIssuanceKeeps ==
    ASSUME IInv, NEW s \in Sessions, ReadIssuance(s)
    PROVE  IInv'
<1> DEFINE verdict == IssueVerdict(request[s])
<1> USE DEF IInv, ReadIssuance
<1>1. CASE verdict # "ok"
    <2>1. verdict \in Outcomes
        BY DEF IssueVerdict, Outcomes
    <2> QED
        BY <1>1, <2>1, FinishKeeps
<1>2. CASE verdict = "ok"
    <2>1. Goto(s, "commit") /\ UNCHANGED <<marketVars, request, seen, held, reply>>
        BY <1>2
    <2>2. TypeOK'
        BY <2>1 DEF TypeOK, MarketTypeOK, marketVars, Goto, Steps
    <2>3. Exclusive'
        BY <2>1 DEF Exclusive
    <2>4. LocksTaken'
        BY <2>1 DEF LocksTaken, Goto, TypeOK, Trading, Parties, marketVars
    <2>5. IssuedToRecipient' /\ TradeStands'
        BY <2>1 DEF IssuedToRecipient, TradeStands, Goto, TypeOK, Trading, Previous, marketVars
    <2>6. RowsUnchanged'
        BY <2>1, <1>2 DEF RowsUnchanged, Goto, TypeOK, Trading, IssueVerdict, marketVars
    <2> QED
        BY <2>2, <2>3, <2>4, <2>5, <2>6
<1> QED
    BY <1>1, <1>2

\* A session that leaves the database: answered, or rolled back.
LEMMA LeaveKeeps ==
    ASSUME IInv, NEW s \in Sessions, Reply(s) \/ Abort(s)
    PROVE  IInv'
<1> USE DEF IInv
<1>1. /\ Goto(s, "idle") /\ request' = [request EXCEPT ![s] = None]
      /\ UNCHANGED marketVars
      /\ held' = held \/ held' = [held EXCEPT ![s] = {}]
      /\ seen' = seen \/ seen' = [seen EXCEPT ![s] = NothingSeen]
      /\ reply' = reply \/ reply' = [reply EXCEPT ![s] = NoReply]
    BY DEF Reply, Abort
<1>2. TypeOK'
    <2>1. NothingSeen \in [holding: [Users -> Nat], quote: Quote]
        BY DEF NothingSeen, NoQuote, Quote
    <2>2. NoReply \in [outcome: Outcomes, trade: Nat]
        BY DEF NoReply, Outcomes
    <2>3. MarketTypeOK' /\ pc' \in [Sessions -> Steps]
          /\ request' \in [Sessions -> Requests \cup {None}]
        BY <1>1 DEF TypeOK, MarketTypeOK, marketVars, Goto, Steps
    <2>4. seen' \in [Sessions -> [holding: [Users -> Nat], quote: Quote]]
        BY <1>1, <2>1 DEF TypeOK
    <2>5. held' \in [Sessions -> SUBSET Lock]
        BY <1>1 DEF TypeOK
    <2>6. reply' \in [Sessions -> [outcome: Outcomes, trade: Nat]]
        BY <1>1, <2>2 DEF TypeOK
    <2> QED
        BY <2>3, <2>4, <2>5, <2>6 DEF TypeOK
<1>3. Exclusive'
    BY <1>1 DEF Exclusive, TypeOK
<1>4. LocksTaken'
    BY <1>1 DEF LocksTaken, Goto, TypeOK, Trading, Parties, marketVars
<1>5. IssuedToRecipient' /\ TradeStands'
    BY <1>1 DEF IssuedToRecipient, TradeStands, Goto, TypeOK, Trading, Previous, marketVars
<1>6. RowsUnchanged'
    BY <1>1 DEF RowsUnchanged, Goto, TypeOK, Trading, IssueVerdict, marketVars
<1> QED
    BY <1>2, <1>3, <1>4, <1>5, <1>6

-----------------------------------------------------------------------------
(* Steps that write rows *)

\* A session about to commit a trade decided on the committed rows: the writes
\* it makes are those of the atomic Exchange.
LEMMA CommitIsExchange ==
    ASSUME IInv, NEW s \in Sessions, CommitTrade(s)
    PROVE  /\ request[s] \in Terms
           /\ recipient \in Users
           /\ Previous(request[s]) = {}
           /\ Exchange(request[s])
<1> DEFINE t == request[s]
           p == t.player
           from == Payee(t, recipient)
           to == Payer(t, recipient)
<1> USE DEF IInv, CommitTrade
<1>1. t \in Terms /\ p \in Players /\ Trading(s)
    BY RequestKinds DEF LocksTaken, Trading
<1>2. /\ Previous(t) = {} /\ p \in issued /\ t.user # recipient
      /\ recipient \in Users
    BY <1>1 DEF TradeStands, IssuedToRecipient
<1>3. /\ seen[s] = [holding |-> holding[p], quote |-> quote[p]]
      /\ Verdict(t, recipient, balance, holding[p], quote[p]) = "ok"
    BY <1>1 DEF RowsUnchanged
<1>4. from \in Users /\ to \in Users /\ from # to
    BY <1>1, <1>2, PartiesType
<1>5. holding \in [Players -> [Users -> Nat]]
    BY DEF TypeOK, MarketTypeOK
<1>6. holding' = [holding EXCEPT ![p] = Paid(@, from, to, t.quantity)]
    BY <1>1, <1>3, <1>4, <1>5 DEF Write, Paid
<1>7. /\ balance' = Paid(balance, to, from, Total(t, quote[p]))
      /\ trades' = Append(trades, [terms |-> t, quote |-> quote[p]])
    BY <1>3 DEF Write
<1> QED
    BY <1>1, <1>2, <1>3, <1>6, <1>7 DEF Exchange

LEMMA CommitTradeKeeps ==
    ASSUME IInv, NEW s \in Sessions, CommitTrade(s)
    PROVE  IInv'
<1> DEFINE t == request[s]
           p == t.player
<1> USE DEF IInv
<1>1. /\ t \in Terms /\ recipient \in Users /\ Previous(t) = {} /\ Exchange(t)
    BY CommitIsExchange
<1>2. /\ Finish(s, Answer("ok", Len(trades) + 1))
      /\ UNCHANGED <<recipient, issued, quote, request>>
      /\ Trading(s) /\ pc[s] = "commit"
    BY DEF CommitTrade, Trading
<1>3. TypeOK'
    <2>1. NothingSeen \in [holding: [Users -> Nat], quote: Quote]
        BY DEF NothingSeen, NoQuote, Quote
    <2>2. Answer("ok", Len(trades) + 1) \in [outcome: Outcomes, trade: Nat]
        BY DEF Answer, Outcomes, TypeOK, MarketTypeOK
    <2>3. MarketTypeOK'
        BY <1>1, ExchangeType DEF TypeOK
    <2>4. pc' \in [Sessions -> Steps] /\ request' \in [Sessions -> Requests \cup {None}]
        BY <1>2 DEF TypeOK, Finish, Goto, Steps
    <2>5. /\ seen' \in [Sessions -> [holding: [Users -> Nat], quote: Quote]]
          /\ held' \in [Sessions -> SUBSET Lock]
        BY <1>2, <2>1 DEF TypeOK, Finish
    <2>6. reply' \in [Sessions -> [outcome: Outcomes, trade: Nat]]
        BY <1>2, <2>2 DEF TypeOK, Finish
    <2> QED
        BY <2>3, <2>4, <2>5, <2>6 DEF TypeOK
<1>4. Exclusive'
    BY <1>2 DEF Exclusive, Finish, TypeOK
<1>5. LocksTaken'
    BY <1>2 DEF LocksTaken, Finish, Goto, TypeOK, Trading, Parties
<1>6. IssuedToRecipient'
    BY <1>2 DEF IssuedToRecipient
<1>7. TradeStands'
    <2>1. SUFFICES ASSUME NEW u \in Sessions, u # s, Trading(u),
                          pc[u] \in {"player", "users", "read", "commit"}
                   PROVE  Previous(request[u])' = {}
        BY <1>2 DEF TradeStands, Finish, Goto, TypeOK, Trading
    <2>2. KeyLock(request[u]) # KeyLock(t)
        BY <1>2, <2>1 DEF LocksTaken, Exclusive
    <2>3. ~SameRequest(t, request[u])
        BY <2>2 DEF SameRequest, KeyLock
    <2>4. Previous(request[u]) = {}
        BY <2>1 DEF TradeStands
    <2>5. \A v : Previous(v) = {} /\ ~SameRequest(t, v) => Previous(v)' = {}
        BY <1>1, ExchangePrevious DEF TypeOK
    <2> QED
        BY <1>2, <2>3, <2>4, <2>5 DEF Previous
<1>8. RowsUnchanged'
    <2>1. SUFFICES ASSUME NEW u \in Sessions, u # s, pc[u] = "commit"
                   PROVE  ~Trading(u) /\ IssueVerdict(request[u])' = "ok"
        BY <1>2 DEF RowsUnchanged, Finish, Goto, TypeOK, Trading
    <2>2. ~Trading(u)
        <3>1. UserLock(recipient) \in held[s]
            BY <1>2 DEF LocksTaken, Parties, Trading
        <3>2. Trading(u) => UserLock(recipient) \in held[u]
            BY <2>1 DEF LocksTaken, Parties, Trading
        <3> QED
            BY <2>1, <3>1, <3>2 DEF Exclusive
    <2> QED
        BY <1>2, <2>1, <2>2 DEF RowsUnchanged, IssueVerdict
<1> QED
    BY <1>3, <1>4, <1>5, <1>6, <1>7, <1>8

LEMMA CommitIssuanceKeeps ==
    ASSUME IInv, NEW s \in Sessions, CommitIssuance(s)
    PROVE  IInv'
<1> DEFINE r == request[s]
           p == r.player
<1> USE DEF IInv
<1>1. r \in Requests /\ p \in Players /\ r.user \in Users /\ pc[s] = "commit" /\ ~Trading(s)
    BY RequestKinds DEF CommitIssuance, LocksTaken, Trading
<1>2. /\ Issue(p, r.user) /\ Finish(s, Answer("ok", 0)) /\ UNCHANGED request
    BY DEF CommitIssuance
<1>3. \A u \in Sessions : u # s =>
          /\ pc[u] \in {"users", "read", "commit"} => request[u].player # p
          /\ pc[u] = "commit" => Trading(u)
    <2>1. SUFFICES ASSUME NEW u \in Sessions, u # s
                   PROVE  /\ pc[u] \in {"users", "read", "commit"} => request[u].player # p
                          /\ pc[u] = "commit" => Trading(u)
        OBVIOUS
    <2>2. PlayerLock(p) \in held[s] /\ InitLock \in held[s]
        BY <1>1 DEF LocksTaken
    <2>3. PlayerLock(p) \notin held[u] /\ InitLock \notin held[u]
        BY <2>1, <2>2 DEF Exclusive
    <2> QED
        BY <2>3 DEF LocksTaken
<1>4. issued # {} => recipient' = recipient
    BY <1>1, <1>2, MarketAssumption DEF Issue, IssuedToRecipient
<1>5. TypeOK'
    <2>1. NothingSeen \in [holding: [Users -> Nat], quote: Quote]
        BY DEF NothingSeen, NoQuote, Quote
    <2>2. Answer("ok", 0) \in [outcome: Outcomes, trade: Nat]
        BY DEF Answer, Outcomes
    <2>3. MarketTypeOK'
        <3>1. [v \in Users |-> IF v = r.user THEN Supply ELSE 0] \in [Users -> Nat]
            BY MarketAssumption
        <3>2. InitialQuote \in Quote
            BY DEF InitialQuote, Quote
        <3> QED
            BY <1>1, <1>2, <3>1, <3>2 DEF TypeOK, MarketTypeOK, Issue
    <2>4. pc' \in [Sessions -> Steps] /\ request' \in [Sessions -> Requests \cup {None}]
        BY <1>2 DEF TypeOK, Finish, Goto, Steps
    <2>5. /\ seen' \in [Sessions -> [holding: [Users -> Nat], quote: Quote]]
          /\ held' \in [Sessions -> SUBSET Lock]
        BY <1>2, <2>1 DEF TypeOK, Finish
    <2>6. reply' \in [Sessions -> [outcome: Outcomes, trade: Nat]]
        BY <1>2, <2>2 DEF TypeOK, Finish
    <2> QED
        BY <2>3, <2>4, <2>5, <2>6 DEF TypeOK
<1>6. Exclusive'
    BY <1>2 DEF Exclusive, Finish, TypeOK
<1>7. LocksTaken'
    <2>1. \A u \in Sessions : u # s /\ pc[u] \in {"read", "commit"} =>
              Parties(u)' = Parties(u)
        BY <1>2, <1>4 DEF Parties, TradeStands, Trading
    <2>2. /\ request' = request /\ pc'[s] = "reply"
          /\ \A u \in Sessions : u # s => pc'[u] = pc[u] /\ held'[u] = held[u]
        BY <1>2 DEF Finish, Goto, TypeOK
    <2>3. \A u \in Sessions : pc'[u] \in {"read", "commit"} => u # s /\ Parties(u)' = Parties(u)
        BY <2>1, <2>2
    <2> QED
        BY <1>1, <2>2, <2>3 DEF LocksTaken, Trading
<1>8. IssuedToRecipient'
    BY <1>1, <1>2 DEF IssuedToRecipient, Issue
<1>9. TradeStands'
    BY <1>2, <1>4 DEF TradeStands, Finish, Goto, TypeOK, Trading, Previous, Issue
<1>10. RowsUnchanged'
    <2>1. SUFFICES ASSUME NEW u \in Sessions, u # s, pc[u] = "commit"
                   PROVE  /\ Trading(u)
                          /\ recipient' = recipient /\ balance' = balance
                          /\ holding'[request[u].player] = holding[request[u].player]
                          /\ quote'[request[u].player] = quote[request[u].player]
        BY <1>2 DEF RowsUnchanged, Finish, Goto, TypeOK, Trading
    <2>2. Trading(u) /\ request[u].player # p
        BY <1>3, <2>1
    <2> QED
        BY <1>2, <1>4, <2>1, <2>2 DEF TradeStands, Issue, TypeOK, MarketTypeOK
<1> QED
    BY <1>5, <1>6, <1>7, <1>8, <1>9, <1>10

LEMMA ConfirmKeeps ==
    ASSUME IInv, NEW p \in Players, NEW price \in Prices, Confirm(p, price)
    PROVE  IInv'
<1> USE DEF IInv, Confirm
<1>1. UNCHANGED <<recipient, issued, holding, balance, trades, pc, request, seen, held, reply>>
    BY DEF ConfirmQuote, sessionVars
<1>2. \A u \in Sessions : pc[u] = "commit" => request[u].player # p
    BY DEF LocksTaken, Free
<1>3. TypeOK'
    <2>1. [sequence |-> quote[p].sequence + 1, price |-> price] \in Quote
        BY MarketAssumption DEF TypeOK, MarketTypeOK, Quote
    <2> QED
        BY <1>1, <2>1 DEF TypeOK, MarketTypeOK, ConfirmQuote
<1>4. Exclusive' /\ LocksTaken' /\ IssuedToRecipient' /\ TradeStands'
    BY <1>1 DEF Exclusive, LocksTaken, IssuedToRecipient, TradeStands, Trading,
                Parties, Previous
<1>5. RowsUnchanged'
    BY <1>1, <1>2 DEF RowsUnchanged, Trading, IssueVerdict, ConfirmQuote, TypeOK, MarketTypeOK
<1> QED
    BY <1>3, <1>4, <1>5

LEMMA StutterKeeps ==
    ASSUME IInv, UNCHANGED vars
    PROVE  IInv'
BY DEF IInv, vars, marketVars, sessionVars, TypeOK, MarketTypeOK, Exclusive, LocksTaken,
       IssuedToRecipient, TradeStands, RowsUnchanged, Trading, Parties, Previous, IssueVerdict

LEMMA NextInvariant == IInv /\ [Next]_vars => IInv'
<1> SUFFICES ASSUME IInv, [Next]_vars PROVE IInv'
    OBVIOUS
<1>1. CASE UNCHANGED vars
    BY <1>1, StutterKeeps
<1>2. ASSUME NEW s \in Sessions, NEW r \in Requests, Begin(s, r) PROVE IInv'
    BY <1>2, BeginKeeps
<1>3. ASSUME NEW s \in Sessions, Step(s) PROVE IInv'
    BY <1>3, LockKeyKeeps, LockInitKeeps, LockPlayerKeeps, LockUserKeeps, ReadMarketKeeps,
       ReadIssuanceKeeps, CommitTradeKeeps, CommitIssuanceKeeps, LeaveKeeps DEF Step
<1>4. ASSUME NEW s \in Sessions, Abort(s) PROVE IInv'
    BY <1>4, LeaveKeeps
<1>5. ASSUME NEW p \in Players, NEW price \in Prices, Confirm(p, price) PROVE IInv'
    BY <1>5, ConfirmKeeps
<1> QED
    BY <1>1, <1>2, <1>3, <1>4, <1>5 DEF Next

-----------------------------------------------------------------------------
(* Theorems *)

\* The locks taken on the way keep what a transaction decided true until it
\* commits, at every interleaving of any number of sessions.
THEOREM Invariance == Spec => []IInv
BY InitInvariant, NextInvariant, PTL DEF Spec

\* Type correctness: in particular no balance and no holding is ever negative,
\* however purchases, sales and issuances interleave.
THEOREM TypeCorrect == Spec => []TypeOK
<1>1. IInv => TypeOK
    BY DEF IInv
<1> QED
    BY <1>1, Invariance, PTL

\* Every interleaving of locked transactions is an execution of the atomic
\* market: a committed trade is paid at the latest quote, from the balances and
\* holdings of that instant; everything else a session does changes nothing.
THEOREM ImplementsMarket == Spec => MarketSpec
<1>1. Init => MarketInit
    BY DEF Init
<1>2. IInv /\ [Next]_vars => [MarketNext]_marketVars
    <2> SUFFICES ASSUME IInv, [Next]_vars
                 PROVE  [MarketNext]_marketVars
        OBVIOUS
    <2>1. ASSUME NEW s \in Sessions, CommitTrade(s) PROVE MarketNext
        BY <2>1, CommitIsExchange DEF MarketNext, ExchangeOnce
    <2>2. ASSUME NEW s \in Sessions, CommitIssuance(s) PROVE MarketNext
        BY <2>2, RequestKinds DEF MarketNext, CommitIssuance, IInv, LocksTaken
    <2>3. ASSUME NEW p \in Players, NEW price \in Prices, Confirm(p, price) PROVE MarketNext
        BY <2>3 DEF MarketNext, Confirm
    <2>4. \/ UNCHANGED marketVars
          \/ \E s \in Sessions : CommitTrade(s) \/ CommitIssuance(s)
          \/ \E p \in Players, price \in Prices : Confirm(p, price)
        BY DEF Next, Step, vars, Begin, LockKey, LockInit, LockPlayer, LockUser,
               ReadMarket, ReadIssuance, Reply, Abort
    <2> QED
        BY <2>1, <2>2, <2>3, <2>4
<1> QED
    BY <1>1, <1>2, Invariance, PTL DEF Spec, MarketSpec

\* Exactly once: one request key of one user never completes two trades, with
\* retries, duplicates and interrupted attempts in any number of sessions.
THEOREM CompletesOnce == Spec => []RequestCompletesOnce
<1>1. MarketInv => RequestCompletesOnce
    BY DEF MarketInv
<1> QED
    BY <1>1, ImplementsMarket, MarketInvariant, PTL

\* The absolute writes of the holdings, decided from rows read earlier, conserve
\* the tokens of every player: the deferred check never fires.
THEOREM SessionsConserveTokens == Spec => []SupplyConserved
BY ImplementsMarket, TokensAreConserved, PTL

\* No interleaving loses an update: the trades account for every balance and
\* every holding.
THEOREM SessionsLoseNothing == Spec => []HistoryExplainsHoldings
BY ImplementsMarket, HistoryAddsUp, PTL

\* What a session decided under its locks is still right when it commits: none
\* of the database's constraints ever refuses the writes.
THEOREM DecisionsStand == Spec => []DecisionStands
<1>1. IInv => DecisionStands
    <2> SUFFICES ASSUME IInv, NEW s \in Sessions, pc[s] = "commit"
                 PROVE  IF request[s].side = "issue" THEN IssueVerdict(request[s]) = "ok"
                        ELSE Admissible(s)
        BY DEF DecisionStands
    <2> USE DEF IInv
    <2>1. CASE ~Trading(s)
        BY <2>1 DEF RowsUnchanged, Trading
    <2>2. CASE Trading(s)
        <3> DEFINE t == request[s]
                   h == holding[t.player]
                   q == quote[t.player]
                   payer == Payer(t, recipient)
                   payee == Payee(t, recipient)
                   paid == [h EXCEPT ![payee] = seen[s].holding[payee] - t.quantity,
                                     ![payer] = seen[s].holding[payer] + t.quantity]
        <3>1. /\ t \in Terms /\ recipient \in Users /\ t.user # recipient
              /\ Previous(t) = {}
            BY <2>2, RequestKinds DEF LocksTaken, TradeStands, IssuedToRecipient, Trading
        <3>2. /\ h \in [Users -> Nat] /\ q \in Quote /\ balance \in [Users -> Nat]
              /\ t.quantity \in Nat
            BY <3>1, MarketAssumption DEF TypeOK, MarketTypeOK, Terms
        <3>3. /\ seen[s] = [holding |-> h, quote |-> q]
              /\ Verdict(t, recipient, balance, h, q) = "ok"
            BY <2>2 DEF RowsUnchanged
        <3>4. balance[payer] >= Total(t, q) /\ h[payee] >= t.quantity
            BY <3>1, <3>2, <3>3, VerdictOk
        <3>5. payer \in Users /\ payee \in Users /\ payer # payee
            BY <3>1, PartiesType
        <3>6. TotalHeld(paid) = Supply
            <4>1. paid = Paid(h, payee, payer, t.quantity)
                BY <3>2, <3>3, <3>5 DEF Paid
            <4>2. TotalHeld(h) = Supply
                BY <3>3 DEF Verdict
            <4>3. TotalHeld(Paid(h, payee, payer, t.quantity)) = TotalHeld(h)
                BY <3>2, <3>5, PaidConserves
            <4> QED
                BY <4>1, <4>2, <4>3
        <3>7. Admissible(s)
            BY <3>1, <3>3, <3>4, <3>6 DEF Admissible
        <3> QED
            BY <2>2, <3>7 DEF Trading
    <2> QED
        BY <2>1, <2>2
<1> QED
    BY <1>1, Invariance, PTL

-----------------------------------------------------------------------------
(* Answers *)

\* The history of trades only grows.
LEMMA HistoryGrows ==
    ASSUME IInv, [Next]_vars
    PROVE  \A n \in DOMAIN trades : n \in DOMAIN trades' /\ trades'[n] = trades[n]
<1>1. ASSUME NEW s \in Sessions, CommitTrade(s)
      PROVE  \A n \in DOMAIN trades : n \in DOMAIN trades' /\ trades'[n] = trades[n]
    <2>1. trades' = Append(trades, [terms |-> request[s], quote |-> quote[request[s].player]])
          /\ trades \in Seq(Trade)
        BY <1>1, CommitIsExchange DEF Exchange, IInv, TypeOK, MarketTypeOK
    <2> QED
        BY <2>1
<1>2. trades' = trades \/ \E s \in Sessions : CommitTrade(s)
    BY DEF Next, Step, vars, marketVars, Begin, LockKey, LockInit, LockPlayer, LockUser,
           ReadMarket, ReadIssuance, CommitIssuance, Issue, Reply, Abort, Confirm, ConfirmQuote
<1> QED
    BY <1>1, <1>2

\* Two trades asked for with the same request, player and quantity are the same.
LEMMA TermsEqual ==
    ASSUME NEW t \in Terms, NEW u \in Terms, SameRequest(t, u),
           t.player = u.player, t.quantity = u.quantity
    PROVE  t = u
BY DEF Terms, SameRequest

\* A transaction that ends answers success only with its own trade.
LEMMA FinishAnswered ==
    ASSUME IInv, Answered, [Next]_vars, NEW s \in Sessions, NEW answer,
           Finish(s, answer), request' = request,
           answer.outcome = "ok" /\ Trading(s) =>
               answer.trade \in DOMAIN trades' /\ trades'[answer.trade].terms = request[s]
    PROVE  Answered'
<1>1. \A u \in Sessions : u # s => reply'[u] = reply[u] /\ pc'[u] = pc[u]
    BY DEF Finish, Goto, IInv, TypeOK
<1>2. reply'[s] = answer /\ pc'[s] = "reply"
    BY DEF Finish, Goto, IInv, TypeOK
<1>3. \A u \in Sessions : reply'[u].outcome # "none" => pc'[u] = "reply"
    BY <1>1, <1>2 DEF Answered
<1>4. AnswerIsOwnTrade'
    BY <1>1, <1>2, HistoryGrows DEF Answered, AnswerIsOwnTrade, Trading
<1> QED
    BY <1>3, <1>4 DEF Answered

\* A step that answers nobody, of a session that has no answer to keep.
LEMMA SilentAnswered ==
    ASSUME IInv, Answered, [Next]_vars, NEW s \in Sessions,
           \A u \in Sessions : u # s => pc'[u] = pc[u] /\ request'[u] = request[u]
                                        /\ reply'[u] = reply[u],
           reply'[s].outcome = "none"
    PROVE  Answered'
<1>1. \A u \in Sessions : reply'[u].outcome # "none" => pc'[u] = "reply"
    BY DEF Answered
<1>2. AnswerIsOwnTrade'
    BY HistoryGrows DEF Answered, AnswerIsOwnTrade
<1> QED
    BY <1>1, <1>2 DEF Answered

LEMMA NextAnswered == IInv /\ Answered /\ [Next]_vars => Answered'
<1> SUFFICES ASSUME IInv, Answered, [Next]_vars PROVE Answered'
    OBVIOUS
<1> USE DEF IInv
<1>1. CASE UNCHANGED sessionVars
    BY <1>1, HistoryGrows DEF Answered, AnswerIsOwnTrade, sessionVars
<1>2. ASSUME NEW s \in Sessions, LockKey(s) PROVE Answered'
    <2> DEFINE t == request[s]
    <2>0. t \in Terms /\ request' = request /\ trades' = trades /\ pc[s] = "key"
        BY <1>2, RequestKinds DEF LockKey, LocksTaken, Trading, marketVars
    <2>1. CASE Previous(t) = {}
        <3>1. Goto(s, "player") /\ reply' = reply
            BY <1>2, <2>1 DEF LockKey
        <3> QED
            BY <2>0, <3>1, SilentAnswered DEF Goto, TypeOK, Answered
    <2>2. CASE Previous(t) # {}
        <3>1. PICK n \in Previous(t) :
                 \/ /\ trades[n].terms.player = t.player
                    /\ trades[n].terms.quantity = t.quantity
                    /\ Finish(s, Answer("ok", n))
                 \/ Finish(s, Answer("key_conflict", 0))
            <4> DEFINE n == CHOOSE n \in Previous(t) : TRUE
            <4>1. n \in Previous(t)
                BY <2>2
            <4> QED
                BY <1>2, <2>2, <4>1 DEF LockKey
        <3>2. n \in DOMAIN trades /\ SameRequest(trades[n].terms, t) /\ trades[n].terms \in Terms
            <4>1. n \in DOMAIN trades /\ SameRequest(trades[n].terms, t)
                BY DEF Previous
            <4>2. trades \in Seq(Trade)
                BY DEF TypeOK, MarketTypeOK
            <4>3. trades[n] \in Trade
                BY <4>1, <4>2
            <4> QED
                BY <4>1, <4>3 DEF Trade
        <3>3. CASE /\ trades[n].terms.player = t.player
                   /\ trades[n].terms.quantity = t.quantity
                   /\ Finish(s, Answer("ok", n))
            <4>1. trades[n].terms = t
                BY <2>0, <3>2, <3>3, TermsEqual
            <4> QED
                BY <2>0, <3>2, <3>3, <4>1, FinishAnswered DEF Answer
        <3>4. CASE Finish(s, Answer("key_conflict", 0))
            BY <2>0, <3>4, FinishAnswered DEF Answer
        <3> QED
            BY <3>1, <3>3, <3>4
    <2> QED
        BY <2>1, <2>2
<1>3. ASSUME NEW s \in Sessions, LockPlayer(s) PROVE Answered'
    <2>0. request' = request /\ pc[s] = "player"
        BY <1>3 DEF LockPlayer
    <2>1. CASE Goto(s, "users") /\ reply' = reply
        BY <2>0, <2>1, SilentAnswered DEF Goto, TypeOK, Answered
    <2>2. ASSUME NEW outcome \in {"not_initialized", "self_trade"}, Finish(s, Answer(outcome, 0))
          PROVE  Answered'
        BY <2>0, <2>2, FinishAnswered DEF Answer
    <2> QED
        BY <1>3, <2>1, <2>2 DEF LockPlayer
<1>4. ASSUME NEW s \in Sessions, ReadMarket(s) PROVE Answered'
    <2> DEFINE t == request[s]
               verdict == Verdict(t, recipient, balance, holding[t.player], quote[t.player])
    <2>0. request' = request /\ pc[s] = "read"
        BY <1>4 DEF ReadMarket
    <2>1. CASE verdict = "ok"
        <3>1. Goto(s, "commit") /\ reply' = reply
            BY <1>4, <2>1 DEF ReadMarket
        <3> QED
            BY <2>0, <3>1, SilentAnswered DEF Goto, TypeOK, Answered
    <2>2. CASE verdict # "ok"
        <3>1. Finish(s, Answer(verdict, 0))
            BY <1>4, <2>2 DEF ReadMarket
        <3> QED
            BY <2>0, <2>2, <3>1, FinishAnswered DEF Answer
    <2> QED
        BY <2>1, <2>2
<1>5. ASSUME NEW s \in Sessions, ReadIssuance(s) PROVE Answered'
    <2>0. request' = request /\ pc[s] = "read" /\ ~Trading(s)
        BY <1>5 DEF ReadIssuance, Trading
    <2>1. CASE Goto(s, "commit") /\ reply' = reply
        BY <2>0, <2>1, SilentAnswered DEF Goto, TypeOK, Answered
    <2>2. ASSUME NEW outcome, Finish(s, Answer(outcome, 0)) PROVE Answered'
        BY <2>0, <2>2, FinishAnswered
    <2> QED
        BY <1>5, <2>1, <2>2 DEF ReadIssuance
<1>6. ASSUME NEW s \in Sessions, CommitTrade(s) PROVE Answered'
    <2>1. /\ trades' = Append(trades, [terms |-> request[s], quote |-> quote[request[s].player]])
          /\ trades \in Seq(Trade)
        BY <1>6, CommitIsExchange DEF Exchange, TypeOK, MarketTypeOK
    <2>2. /\ Len(trades) + 1 \in DOMAIN trades'
          /\ trades'[Len(trades) + 1].terms = request[s]
        BY <2>1
    <2>3. Finish(s, Answer("ok", Len(trades) + 1)) /\ request' = request
        BY <1>6 DEF CommitTrade
    <2> QED
        BY <2>2, <2>3, FinishAnswered DEF Answer
<1>7. ASSUME NEW s \in Sessions, CommitIssuance(s) PROVE Answered'
    <2>1. Finish(s, Answer("ok", 0)) /\ request' = request /\ ~Trading(s)
        BY <1>7 DEF CommitIssuance, Trading
    <2> QED
        BY <2>1, FinishAnswered
<1>8. ASSUME NEW s \in Sessions, LockInit(s) \/ LockUser(s) PROVE Answered'
    <2>1. /\ request' = request /\ reply' = reply
          /\ pc[s] \in {"init", "users"} /\ \E step \in Steps : Goto(s, step)
        BY <1>8 DEF LockInit, LockUser, Steps
    <2> QED
        BY <2>1, SilentAnswered DEF Goto, TypeOK, Answered
<1>9. ASSUME NEW s \in Sessions, NEW r \in Requests, Begin(s, r) PROVE Answered'
    BY <1>9, SilentAnswered DEF Begin, Goto, TypeOK, Answered
<1>10. ASSUME NEW s \in Sessions, Reply(s) \/ Abort(s) PROVE Answered'
    <2>1. /\ Goto(s, "idle") /\ request' = [request EXCEPT ![s] = None]
          /\ \/ reply' = [reply EXCEPT ![s] = NoReply]
             \/ reply' = reply /\ pc[s] # "reply"
        BY <1>10 DEF Reply, Abort
    <2> QED
        BY <2>1, SilentAnswered DEF Goto, TypeOK, Answered, NoReply
<1>11. ASSUME NEW p \in Players, NEW price \in Prices, Confirm(p, price) PROVE Answered'
    BY <1>1, <1>11 DEF Confirm
<1> QED
    BY <1>1, <1>2, <1>3, <1>4, <1>5, <1>6, <1>7, <1>8, <1>9, <1>10, <1>11 DEF Next, Step, vars

\* A successful answer, new or replayed, cites the trade of that very request:
\* never one of another quantity or player under the same key.
THEOREM AnswersCorrect == Spec => []AnswerIsOwnTrade
<1>1. Init => Answered
    BY DEF Init, Answered, AnswerIsOwnTrade, NoReply
<1>2. Answered => AnswerIsOwnTrade
    BY DEF Answered
<1> QED
    BY <1>1, <1>2, NextAnswered, Invariance, PTL DEF Spec

-----------------------------------------------------------------------------
(* Deadlock *)

\* A trade's parties stay what they are once its player is locked.
LEMMA PartiesStable ==
    ASSUME IInv, [Next]_vars, NEW s \in Sessions, pc[s] = "users", request'[s] = request[s]
    PROVE  Parties(s)' = Parties(s)
<1>1. request[s].side # "issue" => issued # {}
    BY DEF IInv, TradeStands, Trading
<1>2. recipient' = recipient \/ issued = {}
    <2>1. ASSUME NEW u \in Sessions, CommitIssuance(u) PROVE recipient' = recipient \/ issued = {}
        BY <2>1, MarketAssumption DEF CommitIssuance, Issue, IInv, IssuedToRecipient
    <2>2. recipient' = recipient \/ \E u \in Sessions : CommitIssuance(u)
        BY DEF Next, Step, vars, marketVars, Begin, LockKey, LockInit, LockPlayer, LockUser,
               ReadMarket, ReadIssuance, CommitTrade, Reply, Abort, Confirm, ConfirmQuote
    <2> QED
        BY <2>1, <2>2
<1> QED
    BY <1>1, <1>2 DEF Parties

\* A step of one session leaves the locks of the others as they are.
LEMMA OthersHold ==
    ASSUME IInv, LocksHeld, [Next]_vars, NEW s \in Sessions,
           pc'[s] = pc[s], held'[s] = held[s],
           pc[s] = "users" => request'[s] = request[s]
    PROVE  /\ pc'[s] \in {"idle", "key", "init", "reply"} => held'[s] = {}
           /\ pc'[s] = "player" => \A l \in held'[s] : l.kind \in {"key", "init"}
           /\ pc'[s] = "users" =>
                /\ Unlocked(s)' # {}
                /\ \A l \in held'[s] : l.kind = "user" => \E u \in Parties(s)' : l = UserLock(u)
                /\ \A u \in Parties(s)' \ Unlocked(s)', v \in Unlocked(s)' : u < v
<1>1. CASE pc[s] = "users"
    <2>1. Parties(s)' = Parties(s)
        BY <1>1, PartiesStable
    <2>2. Unlocked(s)' = Unlocked(s)
        BY <2>1 DEF Unlocked
    <2> QED
        BY <1>1, <2>1, <2>2 DEF LocksHeld
<1> QED
    BY <1>1 DEF LocksHeld

\* The locks of the session that takes the step.
LEMMA NextLocksHeld == IInv /\ LocksHeld /\ [Next]_vars => LocksHeld'
<1> SUFFICES ASSUME IInv, LocksHeld, [Next]_vars PROVE LocksHeld'
    OBVIOUS
<1> USE DEF IInv
<1>0. ASSUME NEW s \in Sessions,
             \A u \in Sessions : u # s => pc'[u] = pc[u] /\ held'[u] = held[u]
                                          /\ request'[u] = request[u],
             pc'[s] # "player" /\ pc'[s] # "users",
             pc'[s] \in {"idle", "key", "init", "reply"} => held'[s] = {}
      PROVE  LocksHeld'
    BY <1>0, OthersHold DEF LocksHeld
<1>1. CASE UNCHANGED sessionVars
    BY <1>1, OthersHold DEF LocksHeld, sessionVars
<1>2. ASSUME NEW s \in Sessions, NEW answer, Finish(s, answer), request' = request
      PROVE  LocksHeld'
    BY <1>0, <1>2 DEF Finish, Goto, TypeOK
<1>3. ASSUME NEW s \in Sessions, NEW step \in {"read", "commit"}, Goto(s, step),
             \A u \in Sessions : u # s => held'[u] = held[u], request' = request
      PROVE  LocksHeld'
    BY <1>0, <1>3 DEF Goto, TypeOK
<1>4. ASSUME NEW s \in Sessions, NEW l, Acquire(s, l), Goto(s, "player"), request' = request,
             held[s] = {}, l.kind \in {"key", "init"}
      PROVE  LocksHeld'
    BY <1>4, OthersHold DEF LocksHeld, Acquire, Goto, TypeOK
<1>5. ASSUME NEW s \in Sessions, NEW r \in Requests, Begin(s, r) PROVE LocksHeld'
    <2>1. held'[s] = {} /\ pc'[s] \in {"init", "key"}
        BY <1>5 DEF Begin, Goto, LocksHeld, TypeOK
    <2>2. \A u \in Sessions : u # s => pc'[u] = pc[u] /\ held'[u] = held[u]
                                       /\ request'[u] = request[u]
        BY <1>5 DEF Begin, Goto, TypeOK
    <2> QED
        BY <1>0, <2>1, <2>2
<1>6. ASSUME NEW s \in Sessions, LockKey(s) PROVE LocksHeld'
    <2>1. held[s] = {} /\ KeyLock(request[s]).kind = "key" /\ request' = request
        BY <1>6 DEF LocksHeld, LockKey, KeyLock
    <2>2. \/ Acquire(s, KeyLock(request[s])) /\ Goto(s, "player")
          \/ \E answer : Finish(s, answer)
        BY <1>6 DEF LockKey
    <2> QED
        BY <1>2, <1>4, <2>1, <2>2
<1>7. ASSUME NEW s \in Sessions, LockInit(s) PROVE LocksHeld'
    <2>1. held[s] = {} /\ InitLock.kind = "init" /\ request' = request
        BY <1>7 DEF LocksHeld, LockInit, InitLock
    <2> QED
        BY <1>4, <1>7, <2>1 DEF LockInit
<1>8. ASSUME NEW s \in Sessions, LockPlayer(s) PROVE LocksHeld'
    <2> DEFINE l == PlayerLock(request[s].player)
    <2>0. request' = request /\ pc[s] = "player"
        BY <1>8 DEF LockPlayer
    <2>1. CASE Acquire(s, l) /\ Goto(s, "users")
        <3>1. /\ pc'[s] = "users" /\ held'[s] = held[s] \cup {l}
              /\ \A u \in Sessions : u # s => pc'[u] = pc[u] /\ held'[u] = held[u]
            BY <2>1 DEF Acquire, Goto, TypeOK
        <3>2. \A k \in held'[s] : k.kind # "user"
            BY <2>0, <3>1 DEF LocksHeld, PlayerLock
        <3>3. Unlocked(s)' = Parties(s)'
            BY <3>2 DEF Unlocked, UserLock
        <3>4. Parties(s)' # {}
            BY DEF Parties
        <3>5. \A u \in Sessions : u # s => request'[u] = request[u]
            BY <2>0
        <3> QED
            BY <3>1, <3>2, <3>3, <3>4, <3>5, OthersHold DEF LocksHeld
    <2> QED
        BY <1>2, <1>8, <2>0, <2>1 DEF LockPlayer
<1>9. ASSUME NEW s \in Sessions, LockUser(s) PROVE LocksHeld'
    <2> DEFINE w == NextUser(s)
    <2>0. request' = request /\ pc[s] = "users" /\ Acquire(s, UserLock(w))
        BY <1>9 DEF LockUser
    <2>1. CASE Unlocked(s) = {w}
        BY <1>3, <1>9, <2>0, <2>1 DEF LockUser, Acquire, TypeOK
    <2>2. CASE Unlocked(s) # {w}
        <3>1. /\ w \in Unlocked(s) /\ \A v \in Unlocked(s) : w <= v
              /\ Unlocked(s) \subseteq Nat
            BY <1>9, NextUserType, LeastUnlocked DEF LockUser
        <3>2. /\ pc'[s] = "users" /\ held'[s] = held[s] \cup {UserLock(w)}
              /\ \A u \in Sessions : u # s => pc'[u] = pc[u] /\ held'[u] = held[u]
            BY <1>9, <2>0, <2>2 DEF LockUser, Acquire, Goto, TypeOK
        <3>3. Parties(s)' = Parties(s)
            BY <2>0, PartiesStable
        <3>4. Unlocked(s)' = Unlocked(s) \ {w}
            BY <3>2, <3>3 DEF Unlocked, UserLock
        <3>5. Unlocked(s)' # {}
            BY <2>2, <3>1, <3>4
        <3>6. \A l \in held'[s] : l.kind = "user" => \E u \in Parties(s)' : l = UserLock(u)
            BY <2>0, <3>1, <3>2, <3>3 DEF LocksHeld, Unlocked
        <3>7. \A u \in Parties(s)' \ Unlocked(s)', v \in Unlocked(s)' : u < v
            BY <2>0, <3>1, <3>3, <3>4 DEF LocksHeld
        <3> QED
            BY <2>0, <3>2, <3>5, <3>6, <3>7, OthersHold DEF LocksHeld
    <2> QED
        BY <2>1, <2>2
<1>10. ASSUME NEW s \in Sessions, ReadMarket(s) \/ ReadIssuance(s) PROVE LocksHeld'
    <2>1. /\ request' = request
          /\ \/ Goto(s, "commit") /\ held' = held
             \/ \E answer : Finish(s, answer)
        BY <1>10 DEF ReadMarket, ReadIssuance
    <2> QED
        BY <1>2, <1>3, <2>1
<1>11. ASSUME NEW s \in Sessions, CommitTrade(s) \/ CommitIssuance(s) PROVE LocksHeld'
    BY <1>2, <1>11 DEF CommitTrade, CommitIssuance
<1>12. ASSUME NEW s \in Sessions, Reply(s) \/ Abort(s) PROVE LocksHeld'
    <2>1. /\ pc'[s] = "idle" /\ held'[s] = {}
          /\ \A u \in Sessions : u # s => pc'[u] = pc[u] /\ held'[u] = held[u]
                                          /\ request'[u] = request[u]
        BY <1>12 DEF Reply, Abort, Goto, TypeOK, LocksHeld
    <2> QED
        BY <1>0, <2>1
<1>13. ASSUME NEW p \in Players, NEW price \in Prices, Confirm(p, price) PROVE LocksHeld'
    BY <1>1, <1>13 DEF Confirm
<1> QED
    BY <1>1, <1>5, <1>6, <1>7, <1>8, <1>9, <1>10, <1>11, <1>12, <1>13 DEF Next, Step, vars

\* No two sessions keep each other, nor any number of them: among the sessions
\* of a set one is furthest along the lock order, and waits for a lock that none
\* of them holds.
LEMMA SomeoneProceeds ==
    ASSUME IInv, LocksHeld, NEW D \in (SUBSET Sessions) \ {{}}
    PROVE  \E s \in D : \A t \in D : Wanted(s) \cap held[t] = {}
<1> USE DEF IInv
<1> DEFINE Waits(s, t) == Wanted(s) \cap held[t] = {}
<1>1. CASE \E s \in D : pc[s] \notin {"key", "init", "player", "users"}
    BY <1>1 DEF Wanted
<1>2. CASE /\ \A s \in D : pc[s] \in {"key", "init", "player", "users"}
           /\ \A s \in D : pc[s] # "users"
           /\ \A s \in D : pc[s] # "player"
    BY <1>2 DEF LocksHeld
<1>3. CASE /\ \A s \in D : pc[s] \in {"key", "init", "player", "users"}
           /\ \A s \in D : pc[s] # "users"
           /\ \E s \in D : pc[s] = "player"
    <2>1. PICK s \in D : pc[s] = "player"
        BY <1>3
    <2>2. Wanted(s) = {PlayerLock(request[s].player)}
        BY <2>1 DEF Wanted
    <2>3. \A t \in D : \A l \in held[t] : l.kind # "player"
        BY <1>3 DEF LocksHeld
    <2> QED
        BY <2>2, <2>3 DEF PlayerLock
<1>4. CASE /\ \A s \in D : pc[s] \in {"key", "init", "player", "users"}
           /\ \E s \in D : pc[s] = "users"
    <2> DEFINE waiting == {s \in D : pc[s] = "users"}
    <2>1. \A s \in waiting : /\ Wanted(s) = {UserLock(NextUser(s))}
                             /\ NextUser(s) \in Unlocked(s) /\ Unlocked(s) \subseteq Parties(s)
                             /\ NextUser(s) \in Nat
        BY NextUserType, MarketAssumption DEF Wanted, LocksHeld, Unlocked
    <2>2. \A s \in waiting, t \in D :
              UserLock(NextUser(s)) \in held[t] =>
                  /\ t \in waiting /\ t # s
                  /\ NextUser(s) \in Parties(t) \ Unlocked(t)
                  /\ NextUser(s) < NextUser(t)
        <3> SUFFICES ASSUME NEW s \in waiting, NEW t \in D, UserLock(NextUser(s)) \in held[t]
                     PROVE  /\ t \in waiting /\ t # s
                            /\ NextUser(s) \in Parties(t) \ Unlocked(t)
                            /\ NextUser(s) < NextUser(t)
            OBVIOUS
        <3>1. t \in waiting
            BY <1>4 DEF LocksHeld, UserLock
        <3>2. t # s
            BY <2>1 DEF Unlocked
        <3>3. NextUser(s) \in Parties(t)
            BY <3>1 DEF LocksHeld, UserLock
        <3>4. NextUser(s) \in Parties(t) \ Unlocked(t)
            BY <3>3 DEF Unlocked
        <3> QED
            BY <2>1, <3>1, <3>2, <3>4 DEF LocksHeld
    <2>3. \A s \in waiting, t \in D :
              UserLock(NextUser(s)) \in held[t] => recipient \in {NextUser(s), NextUser(t)}
        <3> SUFFICES ASSUME NEW s \in waiting, NEW t \in D, UserLock(NextUser(s)) \in held[t]
                     PROVE  recipient \in {NextUser(s), NextUser(t)}
            OBVIOUS
        <3>1. NextUser(s) \in Parties(t) /\ NextUser(t) \in Parties(t) /\ NextUser(s) # NextUser(t)
            BY <2>1, <2>2
        <3> QED
            BY <3>1 DEF Parties
    <2>4. SUFFICES ASSUME \A s \in D : \E t \in D : Wanted(s) \cap held[t] # {}
                   PROVE  FALSE
        OBVIOUS
    <2>5. \A s \in waiting : \E t \in D : UserLock(NextUser(s)) \in held[t]
        BY <2>1, <2>4
    <2>6. \A s \in waiting : \E t \in waiting : /\ NextUser(s) < NextUser(t)
                                                /\ recipient \in {NextUser(s), NextUser(t)}
        BY <2>2, <2>3, <2>5
    <2>7. PICK s \in waiting, t \in waiting, v \in waiting, x \in waiting :
              /\ NextUser(s) < NextUser(t) /\ recipient \in {NextUser(s), NextUser(t)}
              /\ NextUser(t) < NextUser(v)
              /\ NextUser(v) < NextUser(x) /\ recipient \in {NextUser(v), NextUser(x)}
        BY <1>4, <2>6
    <2> QED
        BY <2>1, <2>7
<1> QED
    BY <1>1, <1>2, <1>3, <1>4

\* No deadlock, for any number of sessions, accounts and players, whatever the
\* mix of purchases, sales and issuances: NextUser's ascending order is what the
\* proof rests on.
THEOREM NeverDeadlocked == Spec => []NoDeadlock
<1>1. Init => LocksHeld
    BY DEF Init, LocksHeld
<1>2. IInv /\ LocksHeld => NoDeadlock
    BY SomeoneProceeds DEF NoDeadlock
<1> QED
    BY <1>1, <1>2, NextLocksHeld, Invariance, PTL DEF Spec

============================================================
