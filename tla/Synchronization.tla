-------------------------- MODULE Synchronization --------------------------
(***************************************************************************)
(* Runs of catalog and statistics imports.  A request is admitted as a run *)
(* with a prepared delivery, that is a receipt and a job.  A worker that   *)
(* takes the job guards the season, claims the delivery as an attempt,     *)
(* imports under the receipt and completes the attempt; a retry gets a new *)
(* delivery.  The dispatcher sweeps the active runs: it ends attempts      *)
(* whose worker is gone and queues jobs again that ended without a claim.  *)
(*                                                                         *)
(* The guard is a session of its own.  It may break while its owner is at  *)
(* work: the owner is killed, but not before others may take the guard.    *)
(*                                                                         *)
(* A run is named by the request that created it, a delivery by its        *)
(* position in the run's receipts: the last one is the run's delivery_id.  *)
(***************************************************************************)
EXTENDS Integers, Sequences, FiniteSets

CONSTANTS
    Requests,
    InputOf,        \* normalized input of a request
    Seasons,        \* operation and league season
    Players,        \* players a statistics request may be about, with None
    AttemptLimit,   \* policy["attempt_limit"] of every run
    Concurrency,    \* execution slots
    Workers,        \* slots of the queues catalog_sync and statistics_import
    Dispatcher,
    None

ASSUME SynchronizationAssumption ==
    /\ \A q \in Requests : InputOf[q].season \in Seasons /\ InputOf[q].player \in Players
    /\ AttemptLimit \in Nat \ {0}
    /\ Concurrency \in Nat \ {0}
    /\ Dispatcher \notin Workers
    /\ None \notin Requests /\ None \notin Seasons

VARIABLES
    answer,      \* of Store.admit to each request
    run,         \* synchronization_runs
    receipts,    \* catalog_delivery_receipts of each run
    attempts,    \* synchronization_attempts of each run, by number
    jobs,        \* jobs waiting for a worker, by the delivery they carry
    published,   \* imports committed for each run
    guard,       \* the season whose advisory lock an actor's guard session holds
    worker,      \* what each worker is doing
    sweep        \* what the dispatcher is doing

rows == <<run, receipts, attempts, jobs, published>>
vars == <<answer, run, receipts, attempts, jobs, published, guard, worker, sweep>>

-----------------------------------------------------------------------------
(* Rows *)

Actors == Workers \cup {Dispatcher}

ActiveStates == {"queued", "executing", "retry_wait"}

\* due: next_retry_at is unset or has passed.
Run == [state: ActiveStates \cup {"absent", "succeeded", "failed"}, due: BOOLEAN]

Attempt == [delivery: Nat \ {0},
            status: {"executing", "succeeded", "failed", "interrupted"}]

Results == {"none", "ok", "retryable", "final", "interrupted"}

Idle == [at |-> "idle", run |-> None, delivery |-> 0, result |-> "none"]

AtRest == [at |-> "idle", found |-> {}, run |-> None, delivery |-> 0, orphan |-> FALSE]

Found == [run: Requests, delivery: Nat, executing: BOOLEAN]

TypeOK ==
    /\ answer \in [Requests -> Requests \cup {"none", "scope_busy", "store_unavailable"}]
    /\ run \in [Requests -> Run]
    /\ receipts \in [Requests -> Seq({"prepared", "confirmed", "revoked"})]
    /\ attempts \in [Requests -> Seq(Attempt)]
    /\ \A r \in Requests : Len(attempts[r]) <= AttemptLimit
    /\ jobs \subseteq Requests \X Nat
    /\ published \in [Requests -> Nat]
    /\ guard \in [Actors -> Seasons \cup {None}]
    /\ worker \in [Workers -> [at: {"idle", "guard", "claim", "import", "complete", "release"},
                               run: Requests \cup {None}, delivery: Nat, result: Results]]
    /\ sweep \in [at: {"idle", "next", "act", "release"}, found: SUBSET Found,
                  run: Requests \cup {None}, delivery: Nat, orphan: BOOLEAN]

Init ==
    /\ answer = [q \in Requests |-> "none"]
    /\ run = [r \in Requests |-> [state |-> "absent", due |-> TRUE]]
    /\ receipts = [r \in Requests |-> <<>>]
    /\ attempts = [r \in Requests |-> <<>>]
    /\ jobs = {}
    /\ published = [r \in Requests |-> 0]
    /\ guard = [a \in Actors |-> None]
    /\ worker = [w \in Workers |-> Idle]
    /\ sweep = AtRest

Active(r) == run[r].state \in ActiveStates

Waiting(r) == run[r].state \in {"queued", "retry_wait"}

Season(r) == InputOf[r].season

Current(r) == Len(receipts[r])

Become(w, state) == worker' = [worker EXCEPT ![w] = state]

-----------------------------------------------------------------------------
(* Admission *)

SameTarget(q, r) == Season(q) = Season(r) /\ InputOf[q].player = InputOf[r].player

\* The active run the admission finds.
Blocking(q) == {r \in Requests : Active(r) /\ SameTarget(q, r)}

IndexByPlayer(q) == \A r \in Requests : ~(Active(r) /\ SameTarget(q, r))

\* The unique index on active runs knows nothing of players.
IndexAdmits(q) == \A r \in Requests : ~(Active(r) /\ Season(r) = Season(q))

Create(q) ==
    /\ Blocking(q) = {} /\ IndexAdmits(q)
    /\ answer' = [answer EXCEPT ![q] = q]
    /\ run' = [run EXCEPT ![q] = [state |-> "queued", due |-> TRUE]]
    /\ receipts' = [receipts EXCEPT ![q] = <<"prepared">>]
    /\ jobs' = jobs \cup {<<q, 1>>}
    /\ UNCHANGED <<attempts, published, guard, worker, sweep>>

Coalesce(q) ==
    /\ \E r \in Blocking(q) :
         /\ InputOf[r] = InputOf[q]
         /\ answer' = [answer EXCEPT ![q] = r]
    /\ UNCHANGED <<rows, guard, worker, sweep>>

Refuse(q) ==
    /\ \/ /\ \E r \in Blocking(q) : InputOf[r] # InputOf[q]
          /\ answer' = [answer EXCEPT ![q] = "scope_busy"]
       \/ /\ Blocking(q) = {} /\ ~IndexAdmits(q)
          /\ answer' = [answer EXCEPT ![q] = "store_unavailable"]
    /\ UNCHANGED <<rows, guard, worker, sweep>>

\* A refused caller may ask again.
Admit(q) ==
    /\ answer[q] \notin Requests
    /\ Create(q) \/ Coalesce(q) \/ Refuse(q)

-----------------------------------------------------------------------------
(* The guard *)

GuardFree(s) ==
    /\ \A a \in Actors : guard[a] # s
    /\ Cardinality({a \in Actors : guard[a] # None}) < Concurrency

Take(a, r) == GuardFree(Season(r)) /\ guard' = [guard EXCEPT ![a] = Season(r)]

Leave(a) == guard' = [guard EXCEPT ![a] = None]

\* The session breaks; its owner does not know yet.
GuardBreaks(a) ==
    /\ guard[a] # None
    /\ Leave(a)
    /\ UNCHANGED <<answer, rows, worker, sweep>>

-----------------------------------------------------------------------------
(* Completion of an attempt, by its worker or by the dispatcher *)

Retried(r, n, result) ==
    /\ result \in {"retryable", "interrupted"}
    /\ n < AttemptLimit

Number(r, d) == CHOOSE n \in DOMAIN attempts[r] : attempts[r][n].delivery = d

OpenAnyway(r, d) == Active(r)

Open(r, d) ==
    /\ run[r].state = "executing"
    /\ attempts[r][Number(r, d)].status = "executing"

EndedAsResult(result) == result

EndedAs(result) == IF result = "interrupted" THEN "interrupted" ELSE "failed"

RevokedNever(r, d) == receipts[r]

Revoked(r, d) == [receipts[r] EXCEPT ![d] = "revoked"]

CompleteConfirmed(r, d) ==
    /\ attempts' = [attempts EXCEPT ![r][Number(r, d)].status = "succeeded"]
    /\ run' = [run EXCEPT ![r] = [state |-> "succeeded", due |-> TRUE]]
    /\ UNCHANGED <<receipts, jobs>>

CompleteFailed(r, d, result) ==
    LET n == Number(r, d)
        retried == Retried(r, n, result)
    IN  /\ attempts' = [attempts EXCEPT ![r][n].status = EndedAs(result)]
        /\ run' = [run EXCEPT ![r] = [state |-> IF retried THEN "retry_wait" ELSE "failed",
                                      due |-> ~retried]]
        /\ receipts' = [receipts EXCEPT ![r] =
                           IF retried THEN Append(Revoked(r, d), "prepared") ELSE Revoked(r, d)]
        /\ jobs' = jobs \cup (IF retried THEN {<<r, Current(r) + 1>>} ELSE {})

CompleteByAnswer(r, d, result) ==
    /\ IF ~Open(r, d)
         THEN UNCHANGED <<attempts, run, receipts, jobs>>
         ELSE IF result = "ok"
                THEN CompleteConfirmed(r, d)
                ELSE CompleteFailed(r, d, result)
    /\ UNCHANGED published

Complete(r, d, result) ==
    /\ IF ~Open(r, d)
         THEN UNCHANGED <<attempts, run, receipts, jobs>>
         ELSE IF receipts[r][d] = "confirmed"
                THEN CompleteConfirmed(r, d)
                ELSE CompleteFailed(r, d, result)
    /\ UNCHANGED published

-----------------------------------------------------------------------------
(* Workers *)

\* The queue starts a job; jobs of a retry are scheduled for its time.
Start(w, r, d) ==
    /\ worker[w] = Idle
    /\ <<r, d>> \in jobs
    /\ d = Current(r) => run[r].due
    /\ jobs' = jobs \ {<<r, d>>}
    /\ Become(w, [at |-> "guard", run |-> r, delivery |-> d, result |-> "none"])
    /\ UNCHANGED <<answer, run, receipts, attempts, published, guard, sweep>>

Acquire(w) ==
    /\ worker[w].at = "guard"
    /\ Take(w, worker[w].run)
    /\ Become(w, [worker[w] EXCEPT !.at = "claim"])
    /\ UNCHANGED <<answer, rows, sweep>>

\* The job ends as completed, without a claim.
Busy(w) ==
    /\ worker[w].at = "guard"
    /\ ~GuardFree(Season(worker[w].run))
    /\ Become(w, Idle)
    /\ UNCHANGED <<answer, rows, guard, sweep>>

Begun(r, d) == \E n \in DOMAIN attempts[r] : attempts[r][n].delivery = d

Claimable(r, d) ==
    /\ d = Current(r)
    /\ Waiting(r) /\ run[r].due
    /\ receipts[r][d] = "prepared"
    /\ ~Begun(r, d)
    /\ Len(attempts[r]) < AttemptLimit

Claim(w) ==
    LET r == worker[w].run
        d == worker[w].delivery
    IN  /\ worker[w].at = "claim"
        /\ Claimable(r, d)
        /\ attempts' = [attempts EXCEPT ![r] =
                           Append(@, [delivery |-> d, status |-> "executing"])]
        /\ run' = [run EXCEPT ![r] = [state |-> "executing", due |-> TRUE]]
        /\ Become(w, [worker[w] EXCEPT !.at = "import"])
        /\ UNCHANGED <<answer, receipts, jobs, published, guard, sweep>>

IgnoreClaim(w) ==
    /\ worker[w].at = "claim"
    /\ ~Claimable(worker[w].run, worker[w].delivery)
    /\ Become(w, [worker[w] EXCEPT !.at = "release"])
    /\ UNCHANGED <<answer, rows, guard, sweep>>
\* Retrieval or reconciliation fails.
ImportFails(w) ==
    /\ worker[w].at = "import"
    /\ \E result \in {"retryable", "final"} :
         Become(w, [worker[w] EXCEPT !.at = "complete", !.result = result])
    /\ UNCHANGED <<answer, rows, guard, sweep>>

\* The facts and the receipt are one transaction; its answer may be lost.
Publish(w) ==
    LET r == worker[w].run
        d == worker[w].delivery
    IN  /\ worker[w].at = "import"
        /\ receipts[r][d] = "prepared"
        /\ receipts' = [receipts EXCEPT ![r][d] = "confirmed"]
        /\ published' = [published EXCEPT ![r] = @ + 1]
        /\ \E result \in {"ok", "retryable"} :
             Become(w, [worker[w] EXCEPT !.at = "complete", !.result = result])
        /\ UNCHANGED <<answer, run, attempts, jobs, guard, sweep>>

FencedOut(w) ==
    /\ worker[w].at = "import"
    /\ receipts[worker[w].run][worker[w].delivery] # "prepared"
    /\ Become(w, [worker[w] EXCEPT !.at = "complete", !.result = "final"])
    /\ UNCHANGED <<answer, rows, guard, sweep>>

Finish(w) ==
    /\ worker[w].at = "complete"
    /\ Complete(worker[w].run, worker[w].delivery, worker[w].result)
    /\ Become(w, [worker[w] EXCEPT !.at = "release"])
    /\ UNCHANGED <<answer, guard, sweep>>

Release(w) ==
    /\ worker[w].at = "release"
    /\ Leave(w)
    /\ Become(w, Idle)
    /\ UNCHANGED <<answer, rows, sweep>>

\* Killed by its guard, its timeout or with its node, or stopped by the
\* store: the queue does not run the job again.
Die(w) ==
    /\ worker[w] # Idle
    /\ Leave(w)
    /\ Become(w, Idle)
    /\ UNCHANGED <<answer, rows, sweep>>

-----------------------------------------------------------------------------
(* The dispatcher *)

Survey ==
    /\ sweep.at = "idle"
    /\ \E r \in Requests : Active(r)
    /\ sweep' = [sweep EXCEPT !.at = "next",
                    !.found = {[run |-> r, delivery |-> Current(r),
                                executing |-> run[r].state = "executing"] :
                                    r \in {q \in Requests : Active(q)}}]
    /\ UNCHANGED <<answer, rows, guard, worker>>

Following(found) == IF found = {} THEN "idle" ELSE "next"

Visit(r) ==
    \E f \in sweep.found :
        /\ sweep.at = "next"
        /\ f.run = r
        /\ Take(Dispatcher, r)
        /\ sweep' = [at |-> "act", found |-> sweep.found \ {f}, run |-> r,
                     delivery |-> f.delivery, orphan |-> f.executing]
        /\ UNCHANGED <<answer, rows, worker>>

Skip(r) ==
    \E f \in sweep.found :
        /\ sweep.at = "next"
        /\ f.run = r
        /\ ~GuardFree(Season(r))
        /\ sweep' = [AtRest EXCEPT !.at = Following(sweep.found \ {f}), !.found = sweep.found \ {f}]
        /\ UNCHANGED <<answer, rows, guard, worker>>

RepairQueued(r) ==
    /\ jobs' = jobs \cup (IF run[r].state = "queued" THEN {<<r, Current(r)>>} ELSE {})
    /\ UNCHANGED <<run, receipts, attempts, published>>

\* The job of the current delivery has ended, or runs without an attempt yet.
Repair(r) ==
    /\ jobs' = jobs \cup (IF Waiting(r) THEN {<<r, Current(r)>>} ELSE {})
    /\ UNCHANGED <<run, receipts, attempts, published>>

\* What to do was decided when the sweep began.
Reconcile ==
    /\ sweep.at = "act"
    /\ IF sweep.orphan
         THEN Complete(sweep.run, sweep.delivery, "interrupted")
         ELSE Repair(sweep.run)
    /\ sweep' = [sweep EXCEPT !.at = "release"]
    /\ UNCHANGED <<answer, guard, worker>>

MoveOn ==
    /\ sweep.at = "release"
    /\ Leave(Dispatcher)
    /\ sweep' = [AtRest EXCEPT !.at = Following(sweep.found), !.found = sweep.found]
    /\ UNCHANGED <<answer, rows, worker>>

\* The supervisor starts it again.
DispatcherDies ==
    /\ sweep # AtRest
    /\ Leave(Dispatcher)
    /\ sweep' = AtRest
    /\ UNCHANGED <<answer, rows, worker>>

\* The wait of a retry is over.
Due(r) ==
    /\ ~run[r].due
    /\ run' = [run EXCEPT ![r].due = TRUE]
    /\ UNCHANGED <<answer, receipts, attempts, jobs, published, guard, worker, sweep>>

-----------------------------------------------------------------------------

Work(w) ==
    \/ \E r \in Requests : \E d \in 1 .. AttemptLimit : Start(w, r, d)
    \/ Acquire(w) \/ Busy(w)
    \/ Claim(w) \/ IgnoreClaim(w)
    \/ ImportFails(w) \/ Publish(w) \/ FencedOut(w)
    \/ Finish(w) \/ Release(w)

Dispatch ==
    \/ Survey
    \/ \E r \in Requests : Visit(r) \/ Skip(r)
    \/ Reconcile
    \/ MoveOn

Next ==
    \/ \E q \in Requests : Admit(q) \/ Due(q)
    \/ \E w \in Workers : Work(w) \/ Die(w)
    \/ \E a \in Actors : GuardBreaks(a)
    \/ Dispatch
    \/ DispatcherDies

Spec == Init /\ [][Next]_vars

\* A job of the run starts while nobody holds the guard.
StartFree(r) ==
    \E w \in Workers, d \in 1 .. AttemptLimit : Start(w, r, d) /\ GuardFree(Season(r))

\* The sweep leaves the guard before the job it queued again has started.
LeaveQueued(r) == MoveOn /\ sweep.run = r /\ <<r, Current(r)>> \in jobs

\* Queues, timers and the ticks of the dispatcher go on.  Races are not lost
\* for ever: that of a job with the sweep and with other workers for the
\* guard, those of a claim and of a sweep with the death of their process.
Fairness ==
    /\ \A r \in Requests :
         /\ WF_vars(Due(r))
         /\ SF_vars(Visit(r))
         /\ SF_vars(LeaveQueued(r))
         /\ SF_vars(StartFree(r))
    /\ \A w \in Workers : WF_vars(Work(w))
    /\ SF_vars(\E w \in Workers : Acquire(w))
    /\ SF_vars(\E w \in Workers : Claim(w))
    /\ WF_vars(Dispatch)
    /\ SF_vars(Reconcile)

FairSpec == Spec /\ Fairness

-----------------------------------------------------------------------------
(* Properties *)

\* FR-005: an admission never lets two runs of an operation and season be
\* active, whatever players they are about (index synchronization_active_scope).
OneActiveRun ==
    \A q, r \in Requests : Active(q) /\ Active(r) /\ Season(q) = Season(r) => q = r

\* A run that executes has exactly its newest attempt open, under a receipt
\* that nobody revoked; every other attempt has ended, and its receipt cannot
\* publish any more (complete_attempt, prepare!, claim_locked).
OneOpenDelivery ==
    \A r \in Requests :
        /\ \A n \in DOMAIN attempts[r] :
             /\ attempts[r][n].delivery = n
             /\ attempts[r][n].status = "executing" <=>
                    run[r].state = "executing" /\ n = Len(attempts[r])
             /\ attempts[r][n].status \in {"failed", "interrupted"} <=> receipts[r][n] = "revoked"
             /\ attempts[r][n].status = "succeeded" => receipts[r][n] = "confirmed"
        /\ run[r].state = "executing" => Len(attempts[r]) = Current(r) /\ attempts[r] # <<>>
        /\ Waiting(r) => Current(r) = Len(attempts[r]) + 1

\* Facts are published only for the attempt that is open: a worker whose guard
\* broke and whose attempt was taken from it is fenced out (DeliveryReceipt.lock!).
PublishedByOpenAttempt ==
    [][\A r \in Requests : published'[r] # published[r] =>
          /\ run[r].state = "executing"
          /\ attempts[r][Len(attempts[r])].status = "executing"]_vars

\* "Terminal run history is immutable": no late worker, sweep or admission
\* touches an ended run, nor an ended attempt of any run.
HistoryStays ==
    [][\A r \in Requests :
          /\ run[r].state \in {"succeeded", "failed"} =>
                 run'[r] = run[r] /\ attempts'[r] = attempts[r] /\ receipts'[r] = receipts[r]
          /\ \A n \in DOMAIN attempts[r] :
                 attempts[r][n].status # "executing" => attempts'[r][n] = attempts[r][n]]_vars

Status == [r \in Requests |-> IF Active(r) THEN "active" ELSE run[r].state]

Runs == INSTANCE ImportRuns WITH status <- Status

\* Runs are published at most once and succeed exactly when they were
\* published, though retrieval, publication and completion are three
\* transactions that others may come between (Store.complete, Recovery).
RunsSpec == Runs!RunsSpec

\* Every accepted run ends by itself: interrupted ones are recovered, jobs that
\* found the guard busy are queued again, retries stop (Recovery, Policy).
RunsEnd == \A r \in Requests : Active(r) ~> ~Active(r)

\* contracts/ingestion.md: "Equivalent active full inputs coalesce; differing
\* inputs produce scope_busy with safe run ID."  An admission that meets an
\* active run of the season is never told that the store is unavailable.
DifferingInputsAreBusy == \A q \in Requests : answer[q] # "store_unavailable"

-----------------------------------------------------------------------------
(* The inductive invariant *)

\* A run x with its receipts rc, its attempts at and p publications.
Sound(x, rc, at, p) ==
    /\ x \in Run /\ rc \in Seq({"prepared", "confirmed", "revoked"})
    /\ at \in Seq(Attempt) /\ p \in {0, 1}
    /\ Len(at) <= AttemptLimit
    /\ ~x.due => x.state = "retry_wait"
    /\ \A n \in 1 .. Len(at) :
         /\ at[n].delivery = n
         /\ at[n].status = "executing" <=> x.state = "executing" /\ n = Len(at)
         /\ at[n].status \in {"failed", "interrupted"} <=> rc[n] = "revoked"
         /\ at[n].status = "succeeded" => rc[n] = "confirmed"
    /\ \A n \in 1 .. Len(rc) : rc[n] = "confirmed" =>
         n = Len(at) /\ x.state \in {"executing", "succeeded"} /\ p = 1
    /\ p = 1 => Len(at) >= 1 /\ rc[Len(at)] = "confirmed"
    /\ x.state \in {"queued", "retry_wait"} => Len(rc) = Len(at) + 1 /\ rc[Len(rc)] = "prepared"
    /\ x.state \in {"executing", "succeeded", "failed"} => Len(rc) = Len(at) /\ Len(at) >= 1
    /\ x.state = "absent" => rc = <<>> /\ at = <<>>
    /\ x.state = "succeeded" => p = 1

Ledger(r) == Sound(run[r], receipts[r], attempts[r], published[r])

\* Only a request that was not accepted may still create its run.
Answered == \A q \in Requests : run[q].state # "absent" => answer[q] = q

JobsKnown == \A j \in jobs : j[2] \in 1 .. Current(j[1])

\* Whoever works on a delivery past the claim finds its attempt.
WorkersKnown ==
    \A w \in Workers :
        /\ worker[w].at # "idle" => /\ worker[w].run \in Requests
                                    /\ worker[w].delivery \in 1 .. Current(worker[w].run)
        /\ worker[w].at \in {"import", "complete"} =>
               worker[w].delivery \in 1 .. Len(attempts[worker[w].run])

SweepKnown ==
    /\ \A f \in sweep.found : f.executing => f.delivery \in 1 .. Len(attempts[f.run])
    /\ sweep.at \in {"act", "release"} => sweep.run \in Requests
    /\ sweep.at = "act" /\ sweep.orphan => sweep.delivery \in 1 .. Len(attempts[sweep.run])

IInv ==
    /\ TypeOK
    /\ \A r \in Requests : Ledger(r)
    /\ OneActiveRun
    /\ Answered
    /\ JobsKnown
    /\ WorkersKnown
    /\ SweepKnown

=============================================================================
