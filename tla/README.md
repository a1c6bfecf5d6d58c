# A verification development of the football market

The repository is an Elixir application: an exchange of player tokens whose
prices come from match statistics. Its durable state is one PostgreSQL database,
its background work are Oban jobs in the same database, and any number of nodes
may run it. What is hard in it is therefore what database transactions of
several processes do to each other, and what is left when one of them dies
between two transactions. Its pages are LiveView processes and a few hundred lines
of JavaScript; what is hard there is what the browser, the network and other pages
do in between. These modules model both parts, translated from the code under
`src/`; paths below are relative to it, `fm/` stands for `lib/football_market/` and
`web/` for `lib/football_market_web/`.

## 1. The system

### Components

| component | state it keeps | operations | correct when |
|---|---|---|---|
| purchases and sales (`fm/market/*_store.ex`, `*_transaction.ex`, `settlement.ex`) | balances, holdings, purchases, sales, ledger entries, token transfers | `execute`, readers | tokens and credits are conserved, the history explains every row, a request key completes once, nobody deadlocks |
| initial issuance (`fm/market.ex`, `fm/market/store.ex`) | the fixed recipient, one issuance and initial quote per player | `initialize_player`, `initialize_primary_player_in_transaction` | each player is issued once, all to one recipient |
| conditional buy orders (`fm/market/conditional_order_store.ex`) | orders and their outcome | create, cancel, evaluate, list, get | executed exactly when one purchase cites it, within limit and lifetime; an outcome stands, and what was read is not taken back |
| order evaluation (`fm/market/order_evaluation*.ex`, two workers) | the singleton pass, its members and cursor, the jobs | request a pass, step, continue, accept an event, recover | first come first served; no wakeup is lost; whatever can be settled is |
| quote calculations (`fm/quotes.ex`, `fm/quotes/`) | requests, calculations, performance quotes, attempts | request, process a request, recover | one quote per calculation; each attempt recorded once; ends stay; every request ends |
| market close (`fm/quotes/closing.ex`) | `admitted_at` of requests, TTL requests | admit due, admit now | every pending import is admitted once |
| evaluation events (`fm/quotes/recovery.ex`) | events, leases, delivery attempts | claim, acknowledge | an event is acknowledged once, under its fence |
| valuation (`fm/valuation/`) | configuration versions and the active one | evaluate, replay, activate | the same facts and version give the same score |
| calculation dispatch (`fm/valuation/calculation_requests.ex`, `fm/workers/calculation_dispatch.ex`) | intents of accepted statistics | accept, dispatch | an intent is handed over once |
| synchronization (`fm/synchronization/`, `fm/workers/catalog_sync.ex`) | runs, attempts, delivery receipts, schedules, occurrences | admit, claim, publish, complete, reconcile, tick | one active run per scope, an attempt is published at most once, a run that published succeeds, runs end |
| catalog ingestion (`fm/catalog/ingestion/`) | leagues, seasons, teams, players, bindings, observations | publish | a delivery is accepted atomically, older ones never overwrite |
| statistics ingestion and freshness (`fm/statistics/`) | matches, performances, checks, refresh state | import, refresh | idem; refreshes coalesce |
| catalog scouting (`fm/catalog/scout*.ex`) | resumable runs | start, advance | no page skipped |
| provider rate limit (`fm/infrastructure/provider_rate_limit.ex`) | one budget per provider | reserve | the budget is never exceeded |
| portfolio, balances, history, analytics (`fm/market/`) | none | read | pages neither skip nor repeat |
| browser sessions (`fm/accounts/browser_sessions.ex`, `web/controllers/session_controller.ex`, `web/plugs/browser_*.ex`, `web/live/browser_auth.ex`) | sessions, the cookie | sign in, sign out, validate, guard a page | an ended session is shown nowhere; an anonymous one is good for one sign-in |
| workspace page in the browser (`assets/js/workspace_session.js`, `app.js`) | one flag, the socket, the document | conceal, recover, reload, connect | nothing queued before a loss of connection is sent after it |
| workspace pages on the server (`web/live/workspace_live.ex`) | what is shown, the key and the intent of a trade | mount, load, trade, renew, hear | an operation is recorded once while its page lives; a page that heard everything is current |
| player media (`assets/js/player_media.js`) | the bound image, its listeners, a class | mount, patch, destroy, load, error | initials are hidden exactly for a photo with pixels |
| API documentation (`priv/static/api-docs/docs.js`) | the method and the credential typed | load, switch, execute | the credential goes to the two catalog reads only, a failure is visible |
| acceptance journeys (`tools/openapi/*.mjs`) | their place in the script | act, wait, assert | each gets to its end |
| accounts and API keys, ranking, queries, observability, providers, controllers | none that interleaves | read, fetch, render | |

### How they interact

Statistics are accepted in a transaction that may issue the player first
(`initialize_player_inventory!`). The acceptance leaves an intent that becomes
calculation requests. A close admits them, a worker prices them, and the
transaction that confirms a successful calculation inserts the quote, an
evaluation event and its job. The event wakes the evaluation of conditional
orders, which executes an order as a purchase of its own. Purchases and sales
read the latest quote. All of them meet on the row of the player: it is locked
`FOR UPDATE` by a trade, an issuance, a confirmation, the creation of an order
and a catalog publication, so that the quote, the holdings and the set of orders
of a player only change under it. The balances are locked under the rows of their
accounts.

A page is rendered twice: by the request, before anything is subscribed, and by its
process, after it. A process is told of what others commit by best-effort
broadcasts after the commit, and reloads. Its session is validated again before
each callback, every 250 ms, at its deadline and when it is revoked. The browser's
side disposes of the socket as soon as the connection is in doubt and reloads.

### What is hard

Two trades that read before either writes; a quote between reading and commit;
requests repeated by clients who lost the answer; locks taken in different
orders; an order that is cancelled, expires and executes at once; a wake that
arrives when the pass went by; a worker that dies between confirming a
calculation and reporting it, or returns after its lease ran out; a
configuration switched between two attempts; a guard that breaks under its owner,
who publishes on; a sweep that acts on what it listed before; a session that ends
while its pages are offline, in the history or about to join; a trade repeated
because its answer was lost, with or without the page; a read between a decision and
its commit; a commit between two readings of a page; events of an
image that was replaced; a credential switched under a request. `PROJECT.json` lists each of these
hazards with its line and the properties that would find it going wrong.

## 2. Modules

| module | models | composed with |
|---|---|---|
| `Market` | the market as one atomic object: issue, confirm a quote, exchange | abstract specification |
| `Trading` | purchases, sales and issuances as transactions of interleaved sessions | EXTENDS `Market`, implements `MarketSpec` |
| `MarketProofs` | theorems about `Market`, and what sums over finite sets are | |
| `TradingProofs` | theorems about `Trading` | EXTENDS `MarketProofs` |
| `ConditionalOrders` | orders, the evaluation pass, jobs, events, the sweep, failures | EXTENDS `Market`, on whose atomicity it stands |
| `OrderReads` | owners who read orders and lists without locks while these are decided | EXTENDS `ConditionalOrders` |
| `ConditionalOrdersProofs` | theorems about `ConditionalOrders` and `OrderReads` | EXTENDS `OrderReads`, `MarketProofs` |
| `QuoteCalculation` | calculation requests, leases, fences, attempts, confirmation | |
| `QuoteCalculationProofs` | theorems about `QuoteCalculation` | |
| `ImportRuns` | what is promised of an import run: published at most once, succeeded exactly if published, final | abstract specification |
| `Synchronization` | admission, guard, workers, receipts, attempts, retries and the sweep of import runs | implements `RunsSpec` of `ImportRuns` |
| `SynchronizationProofs` | theorems about `Synchronization` | |
| `LockOrder` | the row locks of all transactions on the market | |
| `LockOrderProofs` | theorems about `LockOrder` | |
| `Workspace` | browser sessions, the sign-in and its plugs, the guard, and the page's scripts, in two tabs | |
| `TradeDesk` | the pages of one account: the trade form, orders, notifications | stands on the market's exactly-once requests |
| `PlayerMedia` | the hook of an avatar and the images it is bound to | |
| `ApiDocs` | the documentation page and the journey that drives it | |
| `WorkspaceJourneys`, `DeskJourneys` | the acceptance journeys as scripts over the pages | EXTEND `Workspace`, `TradeDesk` |
| `TradeDeskProofs` | theorems about `TradeDesk` as persons use it | |
| `MCClient` | all of the browser's side: a behaviour opens one part and stays in it | EXTENDS the four |
| `ClientProofs` | theorems about `MCClient` and its parts, the journeys included | EXTENDS `TradeDeskProofs` |
| other `MC*` | constants, symmetry and initial conditions for TLC | |

### `Market` and `Trading`

`trades` is `market_purchases` and `market_sales` in commit order; a trade carries
the terms asked for and the quote it was priced with. `holding` and `balance` are
the projections that `write!` updates beside the history. Both sides of the
exchange are the same operation with payer and payee exchanged, as in the code,
where the other party is always the recipient of the issuance.

A session of `Trading` goes through the statements of `PurchaseStore.transact`
and `lock_resources!`: advisory lock on the key, lookup of the former trade, the
player's row, the two accounts in ascending order, the reads and the decision,
the writes and the commit. An issuance takes the initialization row, the player
and the recipient. `seen` keeps what was read, because the holdings are
overwritten from it while the balances are updated in place. The order of the
checks is that of the code, so are the answers. `Abort` is any failure before the
commit: a dead node, a lost connection, a rejected statement. The database's
constraints appear as `Admissible`: the commit is guarded by them, and
`DecisionStands` says that they never fire.

Reading and deciding is one step: everything it reads changes only under locks
the session already holds (this is what `RowsUnchanged` proves). The unlocked
readers change nothing and are left out. Money is a natural number: the code
rejects anything but exact cents, and multiplies exactly.

### `ConditionalOrders`

Orders stand on the atomic market, which `Trading` implements. A transaction that
reads the clock is two steps, for time passes and others read before it commits.
A creation reads it (`Draft`) and commits or is rolled back (`Place`, `Withdraw`).
A cancellation locks the order and reads it (`BeginCancel`), and so does an
evaluation (`BeginEvaluation`) after it locked the player and the balances too;
`decision[o]` is who holds the row and the clock that was read. The outcome is
committed later by that clock (`Cancel`, `Decide`), or rolled back (`Abandon`, `Fail`).
Meanwhile everything that needs one of these rows waits: `PlayerFree`, `MarketFree`
and `PassFree` are the locks of the player, of the recipient's account and of
the pass. So an order may be past its expiry when it is committed as executed or
cancelled; `docs/adr/0036-conditional-order-atomic-lifecycle.md:13` says as much
("eligibility before expiry does not promise commit before expiry").
The pass is the row
`market_order_evaluation_passes(1)` with the members that `capture!` inserts.
Jobs are counted by kind; a worker is an executing slot. `Take` starts a job,
`Accept` is `accept_event`, `RequestPass`, `BeginStep` with `StepMember`, `StepEnd`
and `Continue` are the transactions of `run` and `recover`. `Fail` ends a job anywhere between
them, with or without another attempt. The sweep's pages of 100 events are one
page: its continuation only accepts more events of the same kind.

`OrderReads` adds the owner. A read takes no lock and makes two statements: `get`
reads the row (`ReadRow`) and then the clock (`Get`), `list` the clock (`ReadClock`)
and then the rows (`List`, one order at a time). `shown` is the latest answer, and
`At` computes `expiry_reached` from what was read. An owner reads again after an
answer, not beside it, for two reads at once may be answered in any order. The
answer a cancellation gives is left out: it is `project` at the clock it decided by.

### `QuoteCalculation`

A request row has its state, its attempt count, its fence, its bound version and
two booleans for time: its lease is live, its retry is due. The worker's program
is claim, bind, confirm, finish or retry, each one a transaction. `Ask` is
`Quotes.request`: an explicit caller works on its request without lease or fence,
next to the workers of the recovery sweep. A membership stands for the ordered
facts of a player's week, and its price under a version for the score and its
conversion; price 0 is a calculation without quote. The recovery sweep offers all
unfinished requests again, so a claim needs no particular job.

### `Synchronization`

A run is named by the request that created it, so that `answer[q] = q` says the
request created a run and `answer[q] = r` that it coalesced with r. A request's
normalized input is its season, its player and the rest of its material. A delivery
is a position in the run's `receipts`; the run's `delivery_id` is the last one.
`jobs` are the jobs of both queues that wait for a worker; one that runs or has
ended needs no state of its own, because `repair_locked` treats these alike.

`guard` maps each actor to the season whose advisory lock its guard session
holds. `GuardBreaks` releases the lock and leaves the owner at work: the guard
process kills its owner, but only after PostgreSQL has released the locks. From
then until `Die` two actors are on the same run. A worker goes through `perform`:
guard, claim, import (`Publish`, `ImportFails` or `FencedOut`), completion,
release. `Publish` may lose its answer, and so complete with a failure: `Complete`
goes by the receipt, not by the result. `Die` is the kill by the guard, the job's
timeout, a dead node or a failed transaction; the job is not repeated
(`max_attempts: 1`). `Survey` is the query of `reconcile`; `Visit`, `Skip`,
`Reconcile` and `MoveOn` go through its result, in any order, deciding by the
state that was listed. Retrieval and the facts themselves are abstracted to a
count of publications; triggers only record who asked.

### `LockOrder`

Each transaction of the program is the sequence of rows it locks. `Plans` lists
them all for the market: settlements, issuances, evaluations with and without the
pass, creations and cancellations, confirmations and request updates, catalog
publications. A session takes them one by one and gives up at any point.
`FreshPlayers` says whether a publication inserts players, which it then issues
before it commits.

### `Workspace` and `WorkspaceJourneys`

The server is a set of functions from a cookie and a request to an answer: status,
redirect or document, the cookie and the session table it leaves. `Get` and `Post`
go through plugs and controller in their order. A navigation is answered when it is
sent (`Send`) and its answer arrives later (`Arrive`), which stores the cookie and
follows the redirect with the cookie of that moment, or is lost with the network
(`Lose`); so answers of two tabs overwrite each other's cookies. Leaving a document
conceals it (`pagehide`), and the browser may or may not keep it for `GoBack`;
`PageShow` is the recovery of one it kept. `Connect` is the join of the socket,
`Guard` any validation of a live process, whatever set it off. `Recovered` is
`recover()`: conceal, disconnect, and one retry loop per document. Handles and
tokens are finite and reused only when nobody holds them. Time is one action:
`Expire` passes every deadline so far.

A journey is a sequence of records; `JourneyStep` does the next one when no
navigation it must wait for is under way. An assertion that fails and a wait
that never ends both stop it, which `WorkspaceJourneysEnd` excludes.

### `TradeDesk` and `DeskJourneys`

`page[p]` is the LiveView process and its inbox, `view[p]` what its browser
shows: a click sends the key the view has, which the process may have replaced
since. `Begin` and `Finish` are one callback cut where the market answers, because
other pages commit in between. `attempt` is not in the code: it is what the person
means by a click, so that the properties say something about people and not about
keys. Its operation is a new one only once a definitive rejection was shown, "Nueva
operación" clicked, or the person has nothing unanswered or gives it up. `losses`
counts how often the page was lost (`LoseView`: closed, or its connection in doubt,
which makes `workspace_session.js` reload) while the person waited for an answer:
the page that follows has another key, and a person who goes on with the operation
there repeats it (end of section 3). `AttemptOnce` is what the code keeps: one trade while the
page lives, and at most one more for each loss. An operation belongs to the page it was
started at; that it is taken up at another page of the account is not modelled.
`unconfirmed` is any error that is not definitive, whether or not the
trade was recorded. `lost` is set when a notification was lost, and
when a trade was recorded whose page could not tell the others.

### `PlayerMedia` and `ApiDocs`

A patch rewrites the avatar and calls `updated()` in the same task, so it is one
step. An image is being fetched, has pixels, is complete without width, or failed,
and still has its event to deliver when it is complete; a picture from the cache is
complete before its event. `Deliver` reaches the hook only through a
listener, on whichever element one was left. In `ApiDocs` any set of parts may be
missing. A request is built some time after its click (`Intercept`), from the
method and the value the page holds by then; `secret` is the method the credential
in it was typed for.

## 3. Runs

| run | instance | shows |
|---|---|---|
| `trading` | 2 accounts, 2 players, 2 keys, 2 sessions, 2 trades, one price after the initial one | history (and with it conservation), exactly once, no deadlock, decisions stand, an answer cites its own trade, refinement of `MarketSpec`, requests end |
| `orders` | 2 orders, 2 accounts, 2 workers, one price, which meets the limit, one quote, clock to 1 | justified outcomes that stand, first come first served, no lost wakeup |
| `orders_settle` | 1 order, 1 worker and the facade, one read at a time, direct trades, one quote, one failure, clock to 1 | orders that can be settled are; what was shown is not taken back, but by a decision in time |
| `quotes` | one import and one explicit request of the same facts, 2 workers, 2 versions of which one gives no quote | one quote per calculation, binding, attempts, ends that stay |
| `quotes_end` | an import with a broken mapping and an explicit request, 2 workers | requests end |
| `quote_exhausted` | one import, one worker | finding 1 |
| `synchronization` | 1 run of 2 attempts, 1 slot, 2 workers | one open delivery, fenced publication, immutable history, refinement of `RunsSpec`, runs end |
| `admission` | 4 requests of a season (equal, differing, of another player), 1 worker, 1 attempt | one active run |
| `admission_busy` | 2 requests about different players, 1 worker | finding 3 |
| `lock_order` | 2 rows of each kind, 3 sessions | no wait cycle without new players |
| `lock_order_publication` | 2 rows of each kind, 2 sessions | finding 2 |
| `client` | 2 images, 3 patches; 2 requests; 2 tabs, 2 accounts, 2 acts of a person; 2 pages, 3 acts; all journeys | avatars, credentials, ended sessions, no replay, attempts recorded once, current pages, journeys |

The bounds. Two sessions are enough to interleave any two transactions; the
two accounts trade both ways and the initial recipient is one of them, and the
second player lets one balance be spent on both. `MaxTrades` counts completed and
running trades, so that aborted ones repeat without end. `MaxSequence` is 2 where
a quote must change under a trade. Supply 2 and a credit that pays for one trade
reach every refusal. In `ConditionalOrders` two orders suffice for an order of
service, the budget of 1 makes each job continue in another, and the clock may
pass the expiry of an order that was created before it moved, at any point of its
evaluation or cancellation. `orders` has neither the key of a direct trade
nor an attempt that fails, so its next-state relation, `MCQuietNext`, leaves out those
two actions of `Next`, which its constants disable; `orders_settle` runs the whole of
`Next`, where both happen. Both runs start in a market whose recipient is known, as
if other players had been issued before. In both the quote
is not there yet or meets the limit, and the token or the credit may be gone by then;
quotes above a limit, of which `orders` has none to stay below the time a run may
take, are covered by the theorem `OutcomesJustified`, which holds for every set of
prices and limits. That an order settles is checked for
one failure; that what was shown stands is proved for any number. In `client` a person
does two things to a browser (say, go offline and sign out in the other tab) at any
point of what the tabs have under way, and three
to a desk: two clicks or an act on each page and one of the evaluation. Two images
let one be replaced by the other while both have events to deliver, and three
patches bring the first one back. Two requests of the documentation may be built
and answered in either order. The journeys are whole, with every interleaving of the
pages' own steps. The theorems lift the bounds of the desk, the avatar, the
requests and the acts. The eight handles and tokens of `Workspace` are more than the
seven places a fresh one must differ from (the cookie, and of each tab its document,
the cookie its navigation brings and the document that comes with it), so `FreshHandle` and `FreshToken`
always find one: `FreshAssumption`, which stands for the code's random identities. `MaxFailures` is 0 where the property is about jobs that do not
fail. The properties of `synchronization` relate the rows of a single run, which
others meet only at admission and at the guard; two workers and the dispatcher are
the three actors that can be on it at once after a guard broke, and two attempts give
a first one, which is retried, and a last one (the default policy has three; the
proofs hold for every limit). Deadlock is not checked where these bounds stop the model; it is in
`lock_order`. Symmetry permutes the workers of orders
and quotes, or the two equal requests of `admission`, never accounts or orders,
whose ids are compared; liveness is checked without it.

That the holdings of a player add up to its supply is no property of a run: in what
a trade moves one account's gain is another's loss, so `HistoryExplainsHoldings`, which
`trading` checks, implies it. The theorems about `SupplyConserved` state it.

Every passing run has, for each of its properties, a mutant of the code that
violates it: an order of locks by role, a missing `FOR UPDATE`, a key looked up
per player, a lost rescan, a claim that records nothing and so on. The mutants
are definitions next to those they replace, marked as such.

### Findings

1. `quote_exhausted`. A third attempt that committed its calculation and quote
   and died before `finish_request` is recorded `exhausted`
   (`exhaust_import_request`), with a new quote and an evaluation event.
   `specs/026-quote-recalculation-and-immutable-history/contracts/calculation.md:28`
   and `spec.md:110` (SC-007) say an exhausted calculation has neither.
2. `lock_order_publication`. A catalog publication locks the players of its season
   and then, to issue the ones it inserted, the initialization row; an issuance
   takes the two in the opposite order. `docs/adr/0024-atomic-initial-player-issuance.md:14`
   rules this out. PostgreSQL aborts one of the two, and both callers retry.
3. `admission_busy`. `admit_locked` looks for an active run of the same player,
   under an advisory lock whose key contains the player, but the unique index
   `synchronization_active_scope` knows only operation and season. A request about
   another player finds nothing, its insert fails, and the caller reads
   `store_unavailable` (a refresh: `temporarily_unavailable`).
   `specs/065-statistics-ingestion-pipeline/contracts/ingestion.md:13` promises
   `scope_busy` with the id of the active run.

Two further behaviours of the code are not claimed otherwise by any property, and are
worth knowing:

- `list` samples the clock before it reads the rows, so that an order which expires in
  between may be listed as `expired` with `expiry_reached` false;
  `specs/070-conditional-buy-orders/spec.md:91` (FR-022) wants the mark at or after the
  expiry. The next read corrects it. `get` reads the row first and has no such answer.
- `mount` draws a new `trade_key`, and nothing else remembers the key of an operation. A
  trade is recorded, the connection is lost before the answer is shown, the page
  reloads, and the same operation retried there is recorded again under the new key.
  `specs/077-advance-cp2-product-ui-player-card-trading-actions-and-active-ranking/spec.md`
  says "retries must not duplicate a financial operation" (line 10) and "Trade forms
  retain their request key through retries" (line 38). The reloaded page does show the
  position the first trade left. `AttemptOnce` excepts this case and no other.

## 4. Fairness

`Trading`: strong fairness of each session's steps. PostgreSQL queues the waiters
of a lock, so a lock released again and again is granted. `Begin`, `Abort` and
new quotes need not happen.

`ConditionalOrders`: weak fairness of the end of each transaction and of the cron entry;
strong fairness of each worker's steps, as in `Trading`: Oban executes available jobs,
and PostgreSQL grants the locks of the pass, the order and the player in the order they
were asked for. That a transaction commits rather than fails is not assumed of
creations, cancellations and the facade's evaluations; workers fail `MaxFailures`
times at most. The clock need not advance, and nobody need read.

`QuoteCalculation`: leases and waits end (the clock advances), closes recur, a
worker's process ends one way or another, and each request that stays claimable
from time to time is claimed: the sweep of every minute (`recover_pending`) inserts
a job for each. That a worker succeeds is not assumed; it may die each time.

`Synchronization`: weak fairness of the queues, of the waits of retries and of the
dispatcher's ticks. Beyond that it assumes that races are not lost for ever,
which is strong fairness: a run is visited by a sweep some time, the dispatcher
reaches its reconciliation, one worker or another gets a free guard and reaches its
claim without being killed, a job starts some time while nobody holds the guard, and the sweep
leaves the guard some time before the job it has queued starts. The last two are
needed: a sweep that queues a job while it still holds the guard, and a job that
starts before it lets go, can repeat for ever, as the job ends without a claim
each time. In the code a tick's pause of 15 seconds against one statement makes
this unlikely rather than impossible. That an attempt succeeds is not assumed.

`client`: the browser and the server get on with what they began, which is weak
fairness of the documentation's own steps, of each tab's (an answer arrives or is
lost, a document is shown, a retry, a join, a guard), of each page's work and of the
broadcasts, and of each journey's driver. Nothing obliges anyone to open a part, to
act in it, or the network to come back: an offline tab is concealed all the
same. The guard needs no more than weak fairness as it is repeated every 250 ms.

## 5. Proofs

Every safety property of a passing run is a theorem; what is left to TLC is at the
end of this section.

`MarketProofs` proves for any accounts, players, keys, quantities, prices and supply
(`MarketAssumption`; the accounts are finitely many, or their holdings would have
no sum) `TokensAreConserved` and `HistoryAddsUp`, from `MarketInv`: the types, that
issued players were issued to the recipient and only issued ones are traded, and the
two sums themselves. Sums are the folds the properties are stated with, so the
module begins with three facts about them: a sum over nothing is 0, an element can
be taken out of a sum, and a sum in which one value changes differs by that change.
They need induction over finite sets. The induction theorems of the library take
the hypothesis as an operator, which the provers cannot instantiate; a smallest
counterexample, which exists because strict inclusion of finite sets is well-founded,
does the same with sets alone.

`TradingProofs` proves, for any accounts, players, keys, quantities, prices,
supply and sessions (assumptions `MarketAssumption`, `TradingAssumption`):

- `Invariance`: the inductive invariant `IInv`. Neither type correctness nor
  exactly-once is inductive. That a balance stays natural needs that what was
  compared before is still the balance at commit (`RowsUnchanged`), which needs
  that the session holds the locks it took (`LocksTaken`), that locks are
  exclusive (`Exclusive`), and that the issuance it read stands (`TradeStands`,
  `IssuedToRecipient`).
- `TypeCorrect`: no balance or holding is negative.
- `CompletesOnce`: `RequestCompletesOnce`, from the key lock held since the lookup.
- `ImplementsMarket`: `Spec => MarketSpec`; a commit maps to one exchange at the
  quote and balances of that instant, every other step to a stutter.
- `SessionsConserveTokens` and `SessionsLoseNothing`: what `MarketProofs` proves of
  the atomic market holds of the interleaved sessions, which implement it; so the
  holdings may be overwritten from what was read long before.
- `DecisionsStand`: `DecisionStands`, from `RowsUnchanged`, and from what the payment
  leaves of a sum: the holdings that will be written add up to the supply because
  those that were read did (`PaidConserves`).
- `AnswersCorrect`: `AnswerIsOwnTrade`, by `Answered`: only a session about to
  reply has an answer, and the history it quotes only grows.
- `NeverDeadlocked`: `NoDeadlock`, by `LocksHeld`: a session holds a lock only from
  the step that takes it, and accounts in ascending order. Sessions that block each
  other would wait for ever greater accounts, and of each two that follow each
  other one is the recipient of the issuance: three links are already impossible.

`ConditionalOrdersProofs` proves all safety properties of the orders, for any number
of orders, workers, jobs and failures (`OrdersAssumption`):

- `OutcomesJustified` and `OutcomesStand`, from `OrdersInv`: the rows the property is
  about are well typed, what is being decided is still pending, for its row is locked
  (`DecisionsLocked`), and every outcome is justified, which is inductive because
  purchases of clients never carry the key of an order.
- `ShownFinal`, of `OrderReads`, from `ReadsInv` beside it: a row that was read is the
  order's own if it was settled (`ReadOf`), and a read in progress saw neither an
  earlier row nor an earlier clock than the latest answer (`ReadBehind`). That an
  order cancelled, executed or rejected was completed before its expiry is then
  `OutcomeJustified`.
- `OrdersImplementMarket`: `Spec => MarketSpec`, and with it `OrdersConserveTokens`.
- `OrdersTypeCorrect`, from `QueueInv`: a worker at work has a job and budget left
  (`WorkersConsistent`), and only finitely many orders exist, so that a pass can list
  its members.
- `WakeupsKept`: `NoLostWakeup` is inductive over `QueueInv`. It falls apart into one
  fact per order that waits and one about the pass (`WakeupParts`), and most steps
  leave the order's turn or scan where it was; the ones that do not are the end of a
  pass, which the `rescan` flag turns into another, and a member's turn, which
  settles the order or finds it waiting no more.
- `FirstServed`, from `TurnInv`: the members of a pass are in the order of their
  creation, and every pending order that is not among them was created after those
  of its player that are. An order may be created while a pass is captured; that
  it comes behind all captured ones of its player rests on `DraftIsLatest`: the clock
  is read under the player's lock.

`QuoteCalculationProofs` proves all safety properties of calculation requests, for
any requests, facts, versions, callers, workers and leases
(`CalculationAssumption`). `IInv` joins to the types, `CalculationsBound` and
`OutcomeBacked`: a request that runs has an attempt and an explicit one that ran is
bound (`RowsSound`); a worker that confirms serves a bound request, one that is
about to finish holds the outcome of a calculation that is there, and one without
fence is the caller of an explicit request (`WorkersHonest`). Bound versions and
calculations stay (`EnoughToKeep`), so what a worker holds remains true however
late it goes on: `CalculationsStayBound`, `OutcomesBacked` and `TypeCorrect` follow
at once. `EndsAreFinal` follows because a worker with a fence writes only to the
running row of that fence, `OneQuote` because a confirmation adds quote and
calculation together, and `AttemptsOnce` because a step that leaves `running`
adds the one record of the attempt that ran.

`LockOrderProofs` proves `TypeCorrect` and `NoDeadlock`: when publications bring
no new players, no set of sessions waits in a circle. Each lock has a rank (pass,
init, order, player, calculation, account, then id) and every plan ascends; the
session of a set that holds the greatest lock can be waiting for no other.

`SynchronizationProofs` proves all safety properties of the runs, for any
requests, seasons, workers, slots and limits (`SynchronizationAssumption`):
`TypeCorrect`, `ActiveRunsAreSingle`, `OpenDeliveriesAreSingle`,
`OnlyOpenAttemptsPublish`, `HistoryIsImmutable` and `RunsImplemented`. The
invariant `IInv` says that the ledger of each run is `Sound` (attempt n works on
delivery n, an open one is the newest, a confirmed receipt is the newest
attempt's, exactly one publication for it), that actors past the claim work on a
delivery that has its attempt, and that a request without a run was not accepted.
Nothing in it mentions the guard: the proof shows that safety rests on the rows
and the fence alone, and that the guard only saves work. It goes in two stages.
`Sound*` lemmas say what each transaction does to the four values of one run;
`NextSteps` shows that a step rewrites one run at most, in one of seven ways
(`Created`, `Claimed`, `Published`, `Succeeded`, `FailedForGood`, `FailedForNow`,
`Waited`), from which every theorem follows.

`TradeDeskProofs` proves `AttemptsOnce`, `QuietPages` and the types, for any number
of pages, stock and acts (`DeskAssumption`). Neither property is inductive.
`DeskInv` says of each page, its view and its draws that they are `Sound`: what it
holds it drew itself; the attempt on display is recorded under the page's current
key if at all, and then no renewal is on its way; a click still in the inbox
under that key repeats no attempt recorded under another; a click before a
renewal is not of the attempt on display; and every other attempt at the operation on
display lost its page earlier (`Lagging`), so that an attempt made after a reload is
new. `Sound` mentions one page and the trades, so each
action has two lemmas: what it does to its own page, and that the trades it adds
disturb no other. `Followed` says that a live page is current or something is on its
way that will make it so: a message, a broadcast, or a confirmation about to be
told. It needs that every page that could be told is subscribed before it reads
again.

`ClientProofs` proves of the browser's side as a whole (`ClientSpec`) that every part
keeps its invariant whether a person or a journey uses it: `ClientTypesKept`,
`EventsNeverReplayed` and `PromisesKept`, and of the parts alone `AvatarsTruthful` and
`CredentialsConfined`. The assumptions are those of its modules (`MediaAssumption`,
`DocsAssumption`, `WorkspaceAssumption`, `FreshAssumption`, `DeskAssumption`) and, for the
scripts of the desk, the two pages and the stock they are written for
(`DeskJourneyAssumption`).

- The avatar: the hook listens exactly to the image it shows, and an error is only
  reported of an image that failed (`MediaInv`).
- The documentation: the credential in the form is the method's own unless the method
  was switched before anyone listened (`DocsInv`); `DriverInv` has the page's types.
- The workspace: a join would send what its document has queued. `WorkspaceInv`
  says of every document a tab shows that with anything queued, or a recovery begun,
  its socket is closed (`Disposed`), and that one which is on its way or kept in the
  history has no session (`Arrivals`); rows, cookies and navigations have their types.
  Each request's answer is shown to be such a document, plug by plug (`GetAnswer`,
  `PostAnswer`). An identity drawn is none of those in use: seven places cannot hold
  eight (`Spare`).
- The journeys: the values of a script are records of different shapes, so what is
  needed of them is stated as `Arguments`, by kind of step, and proved of every script
  from its pieces (`Single`, `Few`, `Joined`); a step of a journey is then one of the
  steps of a person with other arguments.

Only model-checked: liveness under fairness (`RequestsEnd`, `OrdersSettle`, `RunsEnd`,
`DocsLoadEnds`, `EndedIsConcealed`, `JourneysEnd`), which is beyond the prover; and the
three properties the code violates.

## 6. Plan

Done: the market, its trades, conditional orders, calculation requests, the lock
order, import runs, the browser's side with its acceptance journeys. Next, in this
order:

1. `Scheduling`: generations and occurrences of recurring schedules, composed with
   the admission of `Synchronization`; the locks of the runs in `LockOrder`.
2. `QuoteAdmission`: closes, TTL requests, intents and their dispatch;
   composed with `QuoteCalculation` into the order of quotes of one player.
3. `EvaluationDelivery`: leases and fences of evaluation events.
4. `CatalogPublication` and `StatisticsFreshness`: revisions, stale deliveries,
   refresh and cooldown.
5. `Portfolio` and `History`: the replayed ledger and keyset pagination as
   operators over `trades`.
6. `ProviderRateLimit`, `CatalogScout`.
7. Proofs of what these modules add: each one's invariant beside its runs.

Not modelled and not planned: providers and scraping (HTTP and parsing), ranking
and the queries of the catalog and the statistics (read only), controllers that only
call the components, observability and configuration, development tooling. Of the
browser's side: registration, the administration and its guard, previews, searches,
pagination and charts, which change only what is displayed; the development reloader
and the progress bar of `app.js`; and of the journeys what they assert about
wording, layout, accessibility, ranking, analytics, unknown paths, resources of other
users, forged sockets and secrets left in the document or its storage, which are
facts about one response each and not about an order of events.
