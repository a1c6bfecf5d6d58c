-------------------------- MODULE QuoteCalculation --------------------------
(***************************************************************************)
(* Durable quote calculation requests.  A worker claims a request with a   *)
(* lease and a fence, binds the active configuration once, confirms the    *)
(* calculation (with its quote) in a transaction of its own and then       *)
(* finishes the request in another.  A worker may die or be overtaken      *)
(* between any two transactions; an explicit caller works on its request   *)
(* without a lease, next to the workers.                                   *)
(*                                                                         *)
(* Time is abstract: a lease is live until it expires, a retry waits until *)
(* it is due, at any moment the fairness allows.  The recovery sweep of    *)
(* every minute offers each unfinished request to the workers again, so a  *)
(* claim is not tied to a particular job.                                  *)
(***************************************************************************)
EXTENDS Integers, Sequences, FiniteSets

CONSTANTS
    Requests,     \* quote_calculation_requests that may be made
    Explicit,     \* those made by a caller; the others come from imports and closes
    Broken,       \* those whose mapping is unavailable
    Players,
    Facts,        \* memberships: the ordered facts of a player's week
    Versions,     \* configuration versions
    FactsOf,      \* the membership retained with a request
    PlayerOf,     \* the player a membership is about
    PriceOf,      \* price of a membership under a version; 0 is no quote
    Workers,      \* slots of the queue quote_calculation, and callers
    None

MaxAttempts == 3

ASSUME CalculationAssumption ==
    /\ Explicit \subseteq Requests /\ Broken \subseteq Requests \ Explicit
    /\ FactsOf \in [Requests -> Facts]
    /\ PlayerOf \in [Facts -> Players]
    /\ PriceOf \in [Facts -> [Versions -> Nat]]
    /\ None \notin Versions /\ None \notin Requests

VARIABLES
    active,        \* the active configuration version
    request,       \* the request rows
    calculations,  \* quote_calculations, by canonical identity
    quotes,        \* performance quotes of each player, by performance_sequence
    attempts,      \* quote_calculation_attempts
    worker         \* what each worker or caller is doing

vars == <<active, request, calculations, quotes, attempts, worker>>

-----------------------------------------------------------------------------
(* Rows *)

Identity == [facts: Facts, version: Versions]

Terminal == {"successful", "no_quote", "validation_failed", "exhausted"}

Open == {"pending", "running", "retrying"}

\* live: the lease runs still.  due: next_attempt_at has passed.
Request == [state: Open \cup Terminal \cup {"absent"}, admitted: BOOLEAN,
            version: Versions \cup {None}, count: 0 .. MaxAttempts, fence: Nat,
            live: BOOLEAN, due: BOOLEAN]

NoRequest == [state |-> "absent", admitted |-> FALSE, version |-> None, count |-> 0,
              fence |-> 0, live |-> FALSE, due |-> FALSE]

Attempt == [request: Requests, number: 1 .. MaxAttempts,
            status: Terminal \cup {"retryable", "interrupted"}]

\* An explicit caller has fence 0.
Idle == [at |-> "idle", request |-> None, fence |-> 0, outcome |-> "none"]

Job == [at: {"idle", "bind", "confirm", "finish", "retry"}, request: Requests \cup {None},
        fence: Nat, outcome: Terminal \cup {"none"}]

TypeOK ==
    /\ active \in Versions \cup {None}
    /\ request \in [Requests -> Request]
    /\ calculations \subseteq Identity
    /\ quotes \in [Players -> Seq(Identity)]
    /\ attempts \subseteq Attempt
    /\ worker \in [Workers -> Job]

Init ==
    /\ active = None
    /\ request = [r \in Requests |-> NoRequest]
    /\ calculations = {}
    /\ quotes = [p \in Players |-> <<>>]
    /\ attempts = {}
    /\ worker = [w \in Workers |-> Idle]

IdentityOf(r) == [facts |-> FactsOf[r], version |-> request[r].version]

Price(i) == PriceOf[i.facts][i.version]

Become(w, state) == worker' = [worker EXCEPT ![w] = state]

Recorded(r, status) == [request |-> r, number |-> request[r].count, status |-> status]

-----------------------------------------------------------------------------
(* Around the requests *)

Activate(v) ==
    /\ active # v
    /\ active' = v
    /\ UNCHANGED <<request, calculations, quotes, attempts, worker>>

\* An accepted import leaves a request that waits for the market close.
RecordImport(r) ==
    /\ r \notin Explicit
    /\ request[r].state = "absent"
    /\ request' = [request EXCEPT ![r].state = "pending"]
    /\ UNCHANGED <<active, calculations, quotes, attempts, worker>>

\* The close admits every request pending before it.
AdmitImports ==
    LET waiting == {r \in Requests \ Explicit :
                        request[r].state = "pending" /\ ~request[r].admitted}
    IN  /\ waiting # {}
        /\ request' = [r \in Requests |->
              IF r \in waiting THEN [request[r] EXCEPT !.admitted = TRUE] ELSE request[r]]
        /\ UNCHANGED <<active, calculations, quotes, attempts, worker>>

\* A caller asks for a calculation, or asks again: it pins the active version,
\* unless a former call did, and goes on without a lease.  Without an active
\* version the request ends at once; a retained failure of this kind is final.
Ask(w, r) ==
    LET row == request[r]
    IN  /\ r \in Explicit
        /\ worker[w] = Idle
        /\ \/ /\ row.state = "absent" /\ active = None
              /\ request' = [request EXCEPT ![r].state = "validation_failed"]
              /\ UNCHANGED worker
           \/ /\ row.state = "absent" /\ active # None
              /\ request' = [request EXCEPT ![r].state = "pending", ![r].version = active,
                                            ![r].admitted = TRUE]
              /\ Become(w, [Idle EXCEPT !.at = "confirm", !.request = r])
           \/ /\ row.state \notin {"absent", "validation_failed"}
              /\ Become(w, [Idle EXCEPT !.at = "confirm", !.request = r])
              /\ UNCHANGED request
        /\ UNCHANGED <<active, calculations, quotes, attempts>>

ExpireLease(r) ==
    /\ request[r].live
    /\ request' = [request EXCEPT ![r].live = FALSE]
    /\ UNCHANGED <<active, calculations, quotes, attempts, worker>>

ComeDue(r) ==
    /\ request[r].state = "retrying" /\ ~request[r].due
    /\ request' = [request EXCEPT ![r].due = TRUE]
    /\ UNCHANGED <<active, calculations, quotes, attempts, worker>>

-----------------------------------------------------------------------------
(* The worker's transactions *)

\* Mutant: a request left running by a dead worker is never taken over.
ClaimableUnlessRunning(r) ==
    LET row == request[r]
    IN  /\ row.admitted
        /\ row.state = "pending" \/ (row.state = "retrying" /\ row.due)

\* Neither leased nor waiting for its retry nor finished.
Claimable(r) ==
    LET row == request[r]
    IN  /\ row.admitted
        /\ \/ row.state = "pending"
           \/ row.state = "running" /\ ~row.live
           \/ row.state = "retrying" /\ row.due

\* What a claim records of an attempt that never ended.
Interrupted(r) ==
    IF request[r].state = "running" THEN {Recorded(r, "interrupted")} ELSE {}

\* Mutant: a claim leaves no record of the interrupted attempt.
ReserveUnrecorded(w, r) ==
    /\ request[r].count < MaxAttempts
    /\ request' = [request EXCEPT ![r].state = "running", ![r].count = @ + 1,
                                  ![r].fence = @ + 1, ![r].live = TRUE, ![r].due = FALSE]
    /\ Become(w, [at |-> "bind", request |-> r, fence |-> request[r].fence + 1,
                  outcome |-> "none"])
    /\ UNCHANGED attempts

\* Mutant: the bound on attempts is checked one too late.
ReserveUnbounded(w, r) ==
    /\ request[r].count <= MaxAttempts
    /\ attempts' = attempts \cup Interrupted(r)
    /\ request' = [request EXCEPT ![r].state = "running", ![r].count = @ + 1,
                                  ![r].fence = @ + 1, ![r].live = TRUE, ![r].due = FALSE]
    /\ Become(w, [at |-> "bind", request |-> r, fence |-> request[r].fence + 1,
                  outcome |-> "none"])

Reserve(w, r) ==
    /\ request[r].count < MaxAttempts
    /\ attempts' = attempts \cup Interrupted(r)
    /\ request' = [request EXCEPT ![r].state = "running", ![r].count = @ + 1,
                                  ![r].fence = @ + 1, ![r].live = TRUE, ![r].due = FALSE]
    /\ Become(w, [at |-> "bind", request |-> r, fence |-> request[r].fence + 1,
                  outcome |-> "none"])

\* The third attempt was interrupted: nothing is tried again.
Exhaust(r) ==
    /\ request[r].count >= MaxAttempts
    /\ attempts' = attempts \cup Interrupted(r)
    /\ request' = [request EXCEPT ![r].state = "exhausted", ![r].live = FALSE]
    /\ UNCHANGED worker

Claim(w, r) ==
    /\ worker[w] = Idle
    /\ Claimable(r)
    /\ Reserve(w, r) \/ Exhaust(r)
    /\ UNCHANGED <<active, calculations, quotes>>

\* The lease that a confirmation needs; an explicit caller needs none.
Leased(w) ==
    LET row == request[worker[w].request]
    IN  \/ worker[w].fence = 0
        \/ row.state = "running" /\ row.fence = worker[w].fence /\ row.live

Proceed(w, at, outcome) == Become(w, [worker[w] EXCEPT !.at = at, !.outcome = outcome])

\* Mutant: every attempt binds the version active at its time.
BindAgain(w) ==
    LET r == worker[w].request
    IN  /\ worker[w].at = "bind"
        /\ r \notin Broken /\ active # None /\ Leased(w)
        /\ Proceed(w, "confirm", "none")
        /\ request' = [request EXCEPT ![r].version = active]
        /\ UNCHANGED <<active, calculations, quotes, attempts>>

\* Fixes the configuration version before the facts are evaluated, once.
Bind(w) ==
    LET r == worker[w].request
    IN  /\ worker[w].at = "bind"
        /\ \/ /\ r \in Broken \/ (request[r].version = None /\ active = None)
              /\ Proceed(w, "finish", "validation_failed")
              /\ UNCHANGED request
           \/ /\ r \notin Broken /\ request[r].version # None
              /\ Proceed(w, "confirm", "none")
              /\ UNCHANGED request
           \/ /\ r \notin Broken /\ request[r].version = None /\ active # None
              /\ IF Leased(w)
                 THEN /\ request' = [request EXCEPT ![r].version = active]
                      /\ Proceed(w, "confirm", "none")
                 ELSE /\ Proceed(w, "retry", "none")
                      /\ UNCHANGED request
        /\ UNCHANGED <<active, calculations, quotes, attempts>>

OutcomeOf(i) == IF Price(i) > 0 THEN "successful" ELSE "no_quote"

\* Mutant: the calculation is inserted without looking for an existing one.
ConfirmAgain(w) ==
    LET i == IdentityOf(worker[w].request)
        p == PlayerOf[i.facts]
    IN  /\ worker[w].at = "confirm"
        /\ Leased(w)
        /\ calculations' = calculations \cup {i}
        /\ quotes' = IF Price(i) > 0 THEN [quotes EXCEPT ![p] = Append(@, i)] ELSE quotes
        /\ Proceed(w, "finish", OutcomeOf(i))
        /\ UNCHANGED <<active, request, attempts>>

\* One transaction under the player's lock and then the request's: checks the
\* lease, returns the calculation of this identity or inserts it, a successful
\* one with its quote and its evaluation event.
Confirm(w) ==
    LET i == IdentityOf(worker[w].request)
        p == PlayerOf[i.facts]
    IN  /\ worker[w].at = "confirm"
        /\ Leased(w)
        /\ calculations' = calculations \cup {i}
        /\ quotes' = IF i \notin calculations /\ Price(i) > 0
                     THEN [quotes EXCEPT ![p] = Append(@, i)] ELSE quotes
        /\ Proceed(w, "finish", OutcomeOf(i))
        /\ UNCHANGED <<active, request, attempts>>

\* The lease is gone, or the storage or the evaluation failed for the moment: a
\* worker schedules the retry, a caller reports the error.
Fail(w) ==
    /\ worker[w].at \in {"bind", "confirm"}
    /\ IF worker[w].fence = 0 THEN Become(w, Idle) ELSE Proceed(w, "retry", "none")
    /\ UNCHANGED <<active, request, calculations, quotes, attempts>>

\* The worker still owns the request; its lease may have expired.
Current(w) ==
    /\ request[worker[w].request].state = "running"
    /\ request[worker[w].request].fence = worker[w].fence

\* Records the attempt and ends the request; a stale worker changes nothing.
Finish(w) ==
    LET r == worker[w].request
    IN  /\ worker[w].at = "finish" /\ worker[w].fence > 0
        /\ IF Current(w)
           THEN /\ attempts' = attempts \cup {Recorded(r, worker[w].outcome)}
                /\ request' = [request EXCEPT ![r].state = worker[w].outcome, ![r].live = FALSE]
           ELSE UNCHANGED <<attempts, request>>
        /\ Become(w, Idle)
        /\ UNCHANGED <<active, calculations, quotes>>

\* An explicit caller overwrites the state of its request, whatever it is.
Complete(w) ==
    LET r == worker[w].request
    IN  /\ worker[w].at = "finish" /\ worker[w].fence = 0
        /\ request' = [request EXCEPT ![r].state = worker[w].outcome]
        /\ Become(w, Idle)
        /\ UNCHANGED <<active, calculations, quotes, attempts>>

\* Mutant: a retry is scheduled even if the request was finished meanwhile.
RetryAlways(w) ==
    LET r == worker[w].request
    IN  /\ worker[w].at = "retry"
        /\ request' = [request EXCEPT ![r].state = "retrying", ![r].live = FALSE, ![r].due = FALSE]
        /\ attempts' = attempts \cup {Recorded(r, "retryable")}
        /\ Become(w, Idle)
        /\ UNCHANGED <<active, calculations, quotes>>

\* Records the failed attempt: the request waits, or after the third it ends.
Retry(w) ==
    LET r == worker[w].request
        over == request[r].count >= MaxAttempts
    IN  /\ worker[w].at = "retry"
        /\ IF Current(w)
           THEN /\ attempts' = attempts \cup {Recorded(r, IF over THEN "exhausted" ELSE "retryable")}
                /\ request' = [request EXCEPT ![r].state = IF over THEN "exhausted" ELSE "retrying",
                                              ![r].live = FALSE, ![r].due = FALSE]
           ELSE UNCHANGED <<attempts, request>>
        /\ Become(w, Idle)
        /\ UNCHANGED <<active, calculations, quotes>>

\* The process or its node dies between two transactions.
Die(w) ==
    /\ worker[w] # Idle
    /\ Become(w, Idle)
    /\ UNCHANGED <<active, request, calculations, quotes, attempts>>

Work(w) == Bind(w) \/ Confirm(w) \/ Finish(w) \/ Complete(w) \/ Retry(w) \/ Fail(w) \/ Die(w)

Next ==
    \/ \E v \in Versions : Activate(v)
    \/ \E r \in Requests : RecordImport(r) \/ ExpireLease(r) \/ ComeDue(r)
    \/ AdmitImports
    \/ \E w \in Workers, r \in Requests : Ask(w, r) \/ Claim(w, r)
    \/ \E w \in Workers : Work(w)

Spec == Init /\ [][Next]_vars

\* Closes recur, leases and waits end, every minute each claimable request is
\* offered again, and a worker's process ends, one way or another.
FairSpec ==
    /\ Spec
    /\ WF_vars(AdmitImports)
    /\ \A r \in Requests : WF_vars(ExpireLease(r)) /\ WF_vars(ComeDue(r))
    /\ \A r \in Requests : SF_vars(\E w \in Workers : Claim(w, r))
    /\ \A w \in Workers : WF_vars(Work(w))

-----------------------------------------------------------------------------
(* Properties *)

\* However many requests, attempts and callers share it, a calculation identity
\* yields one quote if it is successful and none otherwise (FR-010).
OneQuotePerCalculation ==
    \A p \in Players :
        LET confirmed == {i \in calculations : PlayerOf[i.facts] = p /\ Price(i) > 0}
        IN  /\ Len(quotes[p]) = Cardinality(confirmed)
            /\ {quotes[p][n] : n \in DOMAIN quotes[p]} = confirmed

\* Every calculation was made under the version that a request for its facts is
\* bound to: retries never price the same request under two configurations.
CalculationsBound ==
    \A i \in calculations : \E r \in Requests : IdentityOf(r) = i

\* A request reported successful or without quote has the calculation that says
\* so, and a successful one its quote.
OutcomeBacked ==
    \A r \in Requests : request[r].state \in {"successful", "no_quote"} =>
        /\ IdentityOf(r) \in calculations
        /\ request[r].state = OutcomeOf(IdentityOf(r))

\* Each attempt of a deferred request ends once: reserved attempts have exactly
\* one record each, but for the one that runs (quote_calculation_attempt_unique).
AttemptsRecordedOnce ==
    \A r \in Requests \ Explicit :
        LET records == {a \in attempts : a.request = r}
            ended == IF request[r].state = "running" THEN request[r].count - 1
                     ELSE request[r].count
        IN  /\ {a.number : a \in records} = 1 .. ended
            /\ Cardinality(records) = ended

\* No late or overtaken worker reopens or rewrites a deferred request that ended.
TerminalStays ==
    [][\A r \in Requests \ Explicit :
        request[r].state \in Terminal => request'[r].state = request[r].state]_vars

\* Every recorded request ends: after three attempts at the latest, and no
\* death of a worker strands it.
RequestsEnd == \A r \in Requests : request[r].state \in Open ~> request[r].state \in Terminal

\* What the contract says of the exhausted outcome (specs/026, contracts/
\* calculation.md): no quote and no evaluation came of it.
ExhaustedHasNoQuote ==
    \A r \in Requests : request[r].state = "exhausted" =>
        ~ \E p \in Players : \E n \in DOMAIN quotes[p] : quotes[p][n] = IdentityOf(r)

-----------------------------------------------------------------------------
(* The inductive invariant behind the theorems of QuoteCalculationProofs *)

\* A request is bound once it is pinned by its caller, and counts what it runs.
RowSound(r) ==
    /\ request[r].state = "absent" => request[r].version = None
    /\ request[r].state = "running" => request[r].count >= 1
    /\ (r \in Explicit /\ request[r].state \notin {"absent", "validation_failed"}) =>
         request[r].version # None

RowsSound == \A r \in Requests : RowSound(r)

\* A worker serves a bound request when it confirms, and takes to its end the
\* outcome of a calculation that is there; without a fence it is a caller.
Honest(w) ==
    LET r == worker[w].request
    IN  worker[w].at # "idle" =>
            /\ r \in Requests
            /\ worker[w].fence = 0 => r \in Explicit
            /\ worker[w].at = "bind" => worker[w].fence > 0
            /\ worker[w].at = "confirm" => request[r].version # None
            /\ worker[w].at = "finish" =>
                 \/ worker[w].outcome = "validation_failed"
                 \/ /\ IdentityOf(r) \in calculations
                    /\ worker[w].outcome = OutcomeOf(IdentityOf(r))

WorkersHonest == \A w \in Workers : Honest(w)

IInv ==
    /\ TypeOK
    /\ RowsSound
    /\ WorkersHonest
    /\ CalculationsBound
    /\ OutcomeBacked

=============================================================================
