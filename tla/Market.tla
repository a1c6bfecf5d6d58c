------------------------------- MODULE Market -------------------------------
(***************************************************************************)
(* The market as one atomic object: a fixed supply of tokens per player,   *)
(* the credit balances of the users, the latest quote of each player and   *)
(* the immutable history of trades.  Every operation is one step.          *)
(*                                                                         *)
(* This is what the concurrent database transactions of module Trading     *)
(* promise, and the market on which module ConditionalOrders stands.       *)
(***************************************************************************)
EXTENDS Integers, Sequences, FiniteSets, FiniteSetsExt

CONSTANTS
    Users,          \* account ids, ordered as the database orders their uuids
    Players,        \* player ids
    Keys,           \* idempotency keys a client may send
    Quantities,     \* quantities a client may ask for
    Prices,         \* unit prices a performance calculation may confirm
    Supply,         \* tokens issued per player: 100 in the code
    OpeningCredit,  \* credits provisioned to an account outside the program
    MaxSequence,    \* bound on the performance quotes confirmed per player
    None            \* absent reference

ASSUME MarketAssumption ==
    /\ Users \subseteq Nat /\ IsFiniteSet(Users) /\ None \notin Users
    /\ Quantities \subseteq Nat \ {0}
    /\ Prices \subseteq Nat \ {0}
    /\ Supply \in Nat \ {0}
    /\ OpeningCredit \in [Users -> Nat]
    /\ MaxSequence \in Nat

VARIABLES
    recipient,  \* market_initial_recipients: the account every issuance goes to
    issued,     \* players that have a row in market_issuances
    holding,    \* market_holdings.quantity; an absent row is 0
    balance,    \* market_credit_balances.amount; an absent row is 0
    quote,      \* the row Quotes.latest returns for the player
    trades      \* market_purchases and market_sales, in commit order

marketVars == <<recipient, issued, holding, balance, quote, trades>>

-----------------------------------------------------------------------------
(* Rows *)

Terms == [side: {"purchase", "sale"}, user: Users, key: Keys,
          player: Players, quantity: Quantities]

Quote == [sequence: Nat, price: Nat]

NoQuote == [sequence |-> 0, price |-> 0]

\* The quote that issuance inserts: rule initial_issuance, price 1, no sequence.
InitialQuote == [sequence |-> 0, price |-> 1]

Trade == [terms: Terms, quote: Quote]

MarketTypeOK ==
    /\ recipient \in Users \cup {None}
    /\ issued \subseteq Players
    /\ holding \in [Players -> [Users -> Nat]]
    /\ balance \in [Users -> Nat]
    /\ quote \in [Players -> Quote]
    /\ trades \in Seq(Trade)

-----------------------------------------------------------------------------
(* The rules of one trade.  Credits flow from the payer to the payee, the  *)
(* tokens from the payee to the payer; the other party of a user is always *)
(* the recipient of the issuance.                                          *)

Payer(t, r) == IF t.side = "purchase" THEN t.user ELSE r
Payee(t, r) == IF t.side = "purchase" THEN r ELSE t.user

Total(t, q) == q.price * t.quantity

\* A purchase needs a performance quote; a sale takes any positive quote.
Tradable(t, q) == q.price > 0 /\ (t.side = "purchase" => q.sequence > 0)

TotalHeld(h) == SumFunctionOnSet(h, Users)

\* What the transaction decides from the rows it has read: the balances b,
\* the player's holdings h and its latest quote q.
Verdict(t, r, b, h, q) ==
    IF ~Tradable(t, q) THEN "quote_unavailable"
    ELSE IF TotalHeld(h) # Supply THEN "inconsistent_state"
    ELSE IF b[Payer(t, r)] < Total(t, q) THEN "insufficient_funds"
    ELSE IF h[Payee(t, r)] < t.quantity THEN "insufficient_inventory"
    ELSE "ok"

Paid(b, from, to, amount) == [b EXCEPT ![from] = @ - amount, ![to] = @ + amount]

\* Mutant: a key is looked up per player, so it may complete one trade on each.
SameRequestAndPlayer(t, u) ==
    t.side = u.side /\ t.user = u.user /\ t.key = u.key /\ t.player = u.player

\* The unique indexes of purchases and sales.
SameRequest(t, u) == t.side = u.side /\ t.user = u.user /\ t.key = u.key

Previous(t) == {n \in DOMAIN trades : SameRequest(trades[n].terms, t)}

-----------------------------------------------------------------------------
(* Atomic operations *)

MarketInit ==
    /\ recipient = None
    /\ issued = {}
    /\ holding = [p \in Players |-> [u \in Users |-> 0]]
    /\ balance = OpeningCredit
    /\ quote = [p \in Players |-> NoQuote]
    /\ trades = <<>>

Issue(p, u) ==
    /\ p \notin issued
    /\ recipient \in {None, u}
    /\ recipient' = u
    /\ issued' = issued \cup {p}
    /\ holding' = [holding EXCEPT ![p] = [v \in Users |-> IF v = u THEN Supply ELSE 0]]
    /\ quote' = [quote EXCEPT ![p] = InitialQuote]
    /\ UNCHANGED <<balance, trades>>

\* A calculation confirms a new price under the player's lock; it requires the
\* initial quote, so it never precedes issuance.
ConfirmQuote(p, price) ==
    /\ p \in issued
    /\ quote[p].sequence < MaxSequence
    /\ quote' = [quote EXCEPT ![p] = [sequence |-> @.sequence + 1, price |-> price]]
    /\ UNCHANGED <<recipient, issued, holding, balance, trades>>

Exchange(t) ==
    LET p == t.player
        q == quote[p]
        payer == Payer(t, recipient)
        payee == Payee(t, recipient)
    IN  /\ p \in issued
        /\ t.user # recipient
        /\ Verdict(t, recipient, balance, holding[p], q) = "ok"
        /\ balance' = Paid(balance, payer, payee, Total(t, q))
        /\ holding' = [holding EXCEPT ![p] = Paid(@, payee, payer, t.quantity)]
        /\ trades' = Append(trades, [terms |-> t, quote |-> q])
        /\ UNCHANGED <<recipient, issued, quote>>

\* A request key is spent by the one trade it completes.
ExchangeOnce(t) == Previous(t) = {} /\ Exchange(t)

MarketNext ==
    \/ \E p \in Players, u \in Users : Issue(p, u)
    \/ \E p \in Players, price \in Prices : ConfirmQuote(p, price)
    \/ \E t \in Terms : ExchangeOnce(t)

MarketSpec == MarketInit /\ [][MarketNext]_marketVars

-----------------------------------------------------------------------------
(* What the market promises *)

\* Every issued player has exactly Supply tokens, whoever holds them
\* (constraint market_supply_conserved).
SupplyConserved == \A p \in issued : TotalHeld(holding[p]) = Supply

CreditFlow(t, r, u) ==
    LET amount == Total(t.terms, t.quote)
    IN  (IF Payee(t.terms, r) = u THEN amount ELSE 0)
        - (IF Payer(t.terms, r) = u THEN amount ELSE 0)

TokenFlow(t, r, p, u) ==
    IF t.terms.player # p THEN 0
    ELSE (IF Payer(t.terms, r) = u THEN t.terms.quantity ELSE 0)
         - (IF Payee(t.terms, r) = u THEN t.terms.quantity ELSE 0)

\* The history explains the projections: each balance is the opening credit
\* plus what the retained ledger entries moved, each holding is the issuance
\* plus what the retained token transfers moved (adjust_balance! and
\* receive_tokens! never lose an update).
HistoryExplainsHoldings ==
    /\ \A u \in Users :
         balance[u] = OpeningCredit[u]
             + SumFunction([n \in DOMAIN trades |-> CreditFlow(trades[n], recipient, u)])
    /\ \A p \in issued, u \in Users :
         holding[p][u] = (IF u = recipient THEN Supply ELSE 0)
             + SumFunction([n \in DOMAIN trades |-> TokenFlow(trades[n], recipient, p, u)])

\* One request key of one user never completes two trades.
RequestCompletesOnce ==
    \A m, n \in DOMAIN trades :
        LET t == trades[m].terms
            u == trades[n].terms
        IN  <<t.side, t.user, t.key>> = <<u.side, u.user, u.key>> => m = n

-----------------------------------------------------------------------------
(* The inductive invariant behind the theorems of MarketProofs *)

\* Players are issued to the one recipient.
IssuedToRecipient == recipient \in Users <=> issued # {}

\* Only issued players are traded, and the recipient is the other party.
TradedIssued ==
    \A n \in DOMAIN trades : /\ trades[n].terms.player \in issued
                             /\ trades[n].terms.user # recipient

MarketInv ==
    /\ MarketTypeOK
    /\ IssuedToRecipient
    /\ TradedIssued
    /\ SupplyConserved
    /\ HistoryExplainsHoldings
    /\ RequestCompletesOnce

=============================================================================
