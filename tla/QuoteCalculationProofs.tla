----------------------- MODULE QuoteCalculationProofs ------------------------
(***************************************************************************)
(* Theorems about quote calculation requests, for any number of requests,  *)
(* workers, players and versions: type correctness, calculations bound to  *)
(* their requests' versions, outcomes backed by calculations, one quote    *)
(* per calculation, attempts recorded once, and ends that are final.       *)
(***************************************************************************)
EXTENDS QuoteCalculation, TLAPS, FiniteSetTheorems

-----------------------------------------------------------------------------
(* Lemmas about the operators of the model *)

\* The identity of a bound request; its outcome is one that ends a request.
LEMMA IdentityType ==
    ASSUME NEW r \in Requests, request[r].version \in Versions
    PROVE  /\ IdentityOf(r) \in Identity
           /\ OutcomeOf(IdentityOf(r)) \in {"successful", "no_quote"}
BY CalculationAssumption DEF IdentityOf, Identity, OutcomeOf

\* A calculated identity belongs to a bound request.
LEMMA CalculatedIsBound ==
    ASSUME TypeOK, NEW r \in Requests, IdentityOf(r) \in calculations
    PROVE  request[r].version \in Versions /\ request[r].version # None
BY CalculationAssumption DEF TypeOK, IdentityOf, Identity

\* A row keeps its type when it is pinned, bound, reserved, retried or ended.
LEMMA RowBind ==
    ASSUME NEW row \in Request, NEW version \in Versions \cup {None}
    PROVE  [row EXCEPT !.version = version] \in Request
BY DEF Request

LEMMA RowAsk ==
    ASSUME NEW row \in Request, NEW version \in Versions
    PROVE  [row EXCEPT !.state = "pending", !.version = version, !.admitted = TRUE] \in Request
BY DEF Request, Open

LEMMA RowReserve ==
    ASSUME NEW row \in Request, row.count < MaxAttempts
    PROVE  [row EXCEPT !.state = "running", !.count = row.count + 1, !.fence = row.fence + 1,
                       !.live = TRUE, !.due = FALSE] \in Request
<1>1. row.count + 1 \in 0 .. MaxAttempts /\ row.fence + 1 \in Nat
    BY DEF Request, MaxAttempts
<1> QED
    BY <1>1 DEF Request, Open

LEMMA RowEnd ==
    ASSUME NEW row \in Request, NEW state \in Open \cup Terminal
    PROVE  /\ [row EXCEPT !.state = state] \in Request
           /\ [row EXCEPT !.state = state, !.live = FALSE] \in Request
           /\ [row EXCEPT !.state = state, !.live = FALSE, !.due = FALSE] \in Request
<1>1. [row EXCEPT !.state = state] \in Request
    BY DEF Request
<1>2. [row EXCEPT !.state = state, !.live = FALSE] \in Request
    BY DEF Request
<1>3. [row EXCEPT !.state = state, !.live = FALSE, !.due = FALSE] \in Request
    BY DEF Request
<1> QED
    BY <1>1, <1>2, <1>3

\* The record of an attempt that is under way.
LEMMA RecordedType ==
    ASSUME TypeOK, RowsSound, NEW r \in Requests, request[r].state = "running",
           NEW status \in Terminal \cup {"retryable", "interrupted"}
    PROVE  Recorded(r, status) \in Attempt
BY DEF TypeOK, RowsSound, RowSound, Request, Recorded, Attempt, MaxAttempts

\* The initial state satisfies the inductive invariant.
LEMMA InitInvariant == Init => IInv
<1> SUFFICES ASSUME Init PROVE IInv
    OBVIOUS
<1>1. TypeOK
    BY DEF Init, TypeOK, NoRequest, Request, Job, Idle, Open, MaxAttempts
<1>2. RowsSound /\ WorkersHonest /\ CalculationsBound /\ OutcomeBacked
    BY DEF Init, RowsSound, RowSound, WorkersHonest, Honest, CalculationsBound, OutcomeBacked, NoRequest,
           Idle
<1> QED
    BY <1>1, <1>2 DEF IInv

-----------------------------------------------------------------------------
(* What every step keeps *)

\* Bound versions stay bound and calculations stay: whatever the invariant says
\* of a worker, a request or a calculation that the step does not touch holds on.
Keeping ==
    /\ \A r \in Requests : request[r].version # None =>
                               request'[r].version = request[r].version
    /\ calculations \subseteq calculations'

\* A bound request keeps its identity.
LEMMA IdentityKept ==
    ASSUME TypeOK, Keeping, NEW r \in Requests, request[r].version # None
    PROVE  IdentityOf(r)' = IdentityOf(r)
BY DEF Keeping, IdentityOf

LEMMA HonestKept ==
    ASSUME TypeOK, Keeping, NEW w \in Workers, Honest(w), worker'[w] = worker[w]
    PROVE  Honest(w)'
<1> DEFINE r == worker[w].request
<1>1. CASE worker[w].at = "finish" /\ worker[w].outcome # "validation_failed"
    <2>1. r \in Requests /\ IdentityOf(r) \in calculations
          /\ worker[w].outcome = OutcomeOf(IdentityOf(r))
        BY <1>1 DEF Honest
    <2>2. IdentityOf(r)' = IdentityOf(r)
        BY <2>1, CalculatedIsBound, IdentityKept
    <2> QED
        BY <1>1, <2>1, <2>2 DEF Honest, Keeping, OutcomeOf, Price
<1>2. CASE ~(worker[w].at = "finish" /\ worker[w].outcome # "validation_failed")
    BY <1>2 DEF Honest, Keeping
<1> QED
    BY <1>1, <1>2

LEMMA BoundKept ==
    ASSUME TypeOK, Keeping, CalculationsBound, NEW i \in calculations
    PROVE  \E r \in Requests : IdentityOf(r)' = i
<1>1. PICK r \in Requests : IdentityOf(r) = i
    BY DEF CalculationsBound
<1> QED
    BY <1>1, CalculatedIsBound, IdentityKept

LEMMA BackedKept ==
    ASSUME TypeOK, Keeping, OutcomeBacked, NEW r \in Requests,
           request'[r].state \in {"successful", "no_quote"},
           request'[r].state = request[r].state
    PROVE  IdentityOf(r)' \in calculations' /\ request'[r].state = OutcomeOf(IdentityOf(r))'
<1>1. IdentityOf(r) \in calculations /\ request[r].state = OutcomeOf(IdentityOf(r))
    BY DEF OutcomeBacked
<1>2. IdentityOf(r)' = IdentityOf(r)
    BY <1>1, CalculatedIsBound, IdentityKept
<1> QED
    BY <1>1, <1>2 DEF Keeping, OutcomeOf, Price

\* What is left to show of a step: the workers, requests and calculations that
\* it changes.
LEMMA EnoughToKeep ==
    ASSUME IInv, TypeOK', RowsSound', Keeping,
           \A w \in Workers : worker'[w] # worker[w] => Honest(w)',
           \A i \in calculations' \ calculations : \E r \in Requests : IdentityOf(r)' = i,
           \A r \in Requests :
               (request'[r].state # request[r].state
                  /\ request'[r].state \in {"successful", "no_quote"}) =>
                    /\ IdentityOf(r)' \in calculations'
                    /\ request'[r].state = OutcomeOf(IdentityOf(r))'
    PROVE  IInv'
<1>1. WorkersHonest'
    BY HonestKept DEF WorkersHonest, IInv
<1>2. CalculationsBound'
    BY BoundKept DEF CalculationsBound, IInv
<1>3. OutcomeBacked'
    BY BackedKept DEF OutcomeBacked, IInv
<1> QED
    BY <1>1, <1>2, <1>3 DEF IInv

\* The same of a step that changes one row, or none, and no calculation.
LEMMA EnoughOnRow ==
    ASSUME IInv, NEW r \in Requests, NEW row \in Request,
           request' = [request EXCEPT ![r] = row],
           UNCHANGED <<active, calculations, quotes>>,
           attempts' \subseteq Attempt, worker' \in [Workers -> Job],
           request[r].version # None => row.version = request[r].version,
           RowSound(r)',
           \A w \in Workers : worker'[w] # worker[w] => Honest(w)',
           (row.state # request[r].state /\ row.state \in {"successful", "no_quote"}) =>
               IdentityOf(r) \in calculations /\ row.state = OutcomeOf(IdentityOf(r))
    PROVE  IInv'
<1>1. /\ request' \in [Requests -> Request] /\ request'[r] = row
      /\ \A q \in Requests : q # r => request'[q] = request[q]
    BY DEF IInv, TypeOK
<1>2. TypeOK'
    BY <1>1 DEF IInv, TypeOK
<1>3. RowsSound'
    BY <1>1 DEF IInv, RowsSound, RowSound
<1>4. Keeping
    BY <1>1 DEF Keeping
<1>5. \A q \in Requests :
          (request'[q].state # request[q].state
             /\ request'[q].state \in {"successful", "no_quote"}) =>
               /\ IdentityOf(q)' \in calculations'
               /\ request'[q].state = OutcomeOf(IdentityOf(q))'
    <2> SUFFICES ASSUME request'[r].state # request[r].state,
                        request'[r].state \in {"successful", "no_quote"}
                 PROVE  /\ IdentityOf(r)' \in calculations'
                        /\ request'[r].state = OutcomeOf(IdentityOf(r))'
        BY <1>1
    <2>1. IdentityOf(r) \in calculations /\ row.state = OutcomeOf(IdentityOf(r))
        BY <1>1
    <2>2. IdentityOf(r)' = IdentityOf(r)
        BY <1>4, <2>1, CalculatedIsBound, IdentityKept DEF IInv
    <2> QED
        BY <1>1, <2>1, <2>2 DEF OutcomeOf, Price
<1> QED
    BY <1>2, <1>3, <1>4, <1>5, EnoughToKeep

-----------------------------------------------------------------------------
(* Steps around the requests *)

LEMMA ActivateKeeps ==
    ASSUME IInv, NEW v \in Versions, Activate(v)
    PROVE  IInv'
<1>1. TypeOK' /\ RowsSound' /\ Keeping
    BY DEF Activate, IInv, TypeOK, RowsSound, RowSound, Keeping
<1> QED
    BY <1>1, EnoughToKeep DEF Activate

LEMMA RecordImportKeeps ==
    ASSUME IInv, NEW r \in Requests, RecordImport(r)
    PROVE  IInv'
<1> DEFINE row == [request[r] EXCEPT !.state = "pending"]
<1>1. row \in Request /\ request' = [request EXCEPT ![r] = row]
    BY RowEnd DEF RecordImport, IInv, TypeOK, Open
<1>2. row.version = request[r].version /\ row.state = "pending"
    BY DEF IInv, TypeOK, Request
<1>3. RowSound(r)'
    BY <1>1, <1>2 DEF RecordImport, RowSound, IInv, TypeOK
<1> QED
    BY <1>1, <1>2, <1>3, EnoughOnRow DEF RecordImport, IInv, TypeOK

LEMMA AdmitImportsKeeps ==
    ASSUME IInv, AdmitImports
    PROVE  IInv'
<1>1. \A q \in Requests : request'[q] \in {request[q], [request[q] EXCEPT !.admitted = TRUE]}
    BY DEF AdmitImports
<1>2. \A q \in Requests : /\ request'[q] \in Request
                          /\ request'[q].state = request[q].state
                          /\ request'[q].version = request[q].version
                          /\ request'[q].count = request[q].count
    <2>1. ASSUME NEW row \in Request
          PROVE  LET admitted == [row EXCEPT !.admitted = TRUE]
                 IN  /\ admitted \in Request /\ admitted.state = row.state
                     /\ admitted.version = row.version /\ admitted.count = row.count
        BY DEF Request
    <2>2. \A q \in Requests : request[q] \in Request
        BY DEF IInv, TypeOK
    <2> QED
        BY <1>1, <2>1, <2>2
<1>3. TypeOK'
    BY <1>2 DEF AdmitImports, IInv, TypeOK
<1>4. RowsSound' /\ Keeping
    BY <1>2 DEF AdmitImports, IInv, RowsSound, RowSound, Keeping
<1> QED
    BY <1>2, <1>3, <1>4, EnoughToKeep DEF AdmitImports

LEMMA ClockKeeps ==
    ASSUME IInv, NEW r \in Requests, ExpireLease(r) \/ ComeDue(r)
    PROVE  IInv'
<1>1. PICK row \in {[request[r] EXCEPT !.live = FALSE], [request[r] EXCEPT !.due = TRUE]} :
          request' = [request EXCEPT ![r] = row]
    BY DEF ExpireLease, ComeDue
<1>2. /\ row \in Request /\ row.version = request[r].version
      /\ row.state = request[r].state /\ row.count = request[r].count
    BY DEF IInv, TypeOK, Request
<1>3. RowSound(r)'
    BY <1>1, <1>2 DEF IInv, TypeOK, RowsSound, RowSound
<1> QED
    BY <1>1, <1>2, <1>3, EnoughOnRow DEF ExpireLease, ComeDue, IInv, TypeOK

LEMMA AskKeeps ==
    ASSUME IInv, NEW w \in Workers, NEW r \in Requests, Ask(w, r)
    PROVE  IInv'
<1> DEFINE serving == [Idle EXCEPT !.at = "confirm", !.request = r]
<1> USE DEF IInv
<1>0. /\ r \in Explicit /\ serving \in Job /\ request[r] \in Request
      /\ UNCHANGED <<active, calculations, quotes, attempts>>
    BY DEF Ask, Idle, Job, TypeOK
<1>1. CASE request[r].state = "absent" /\ active = None
    <2> DEFINE row == [request[r] EXCEPT !.state = "validation_failed"]
    <2>1. row \in Request /\ request' = [request EXCEPT ![r] = row] /\ worker' = worker
        BY <1>0, <1>1, RowEnd DEF Ask, Terminal
    <2>2. row.version = request[r].version /\ row.state = "validation_failed"
        BY <1>0 DEF Request
    <2>3. RowSound(r)'
        BY <2>1, <2>2 DEF RowSound, TypeOK
    <2> QED
        BY <1>0, <2>1, <2>2, <2>3, EnoughOnRow DEF TypeOK
<1>2. CASE request[r].state = "absent" /\ active # None
    <2> DEFINE row == [request[r] EXCEPT !.state = "pending", !.version = active, !.admitted = TRUE]
    <2>1. row \in Request
        BY <1>0, <1>2, RowAsk DEF TypeOK
    <2>2. request' = [request EXCEPT ![r] = row] /\ worker' = [worker EXCEPT ![w] = serving]
        BY <1>2 DEF Ask, Become, TypeOK
    <2>3. row.version = active /\ row.state = "pending" /\ request[r].version = None
        BY <1>0, <1>2 DEF Request, RowsSound, RowSound
    <2>4. RowSound(r)' /\ request'[r].version # None
        BY <1>2, <2>2, <2>3 DEF RowSound, TypeOK
    <2>5. Honest(w)'
        BY <1>0, <2>2, <2>4 DEF Honest, Idle, TypeOK
    <2> QED
        BY <1>0, <2>1, <2>2, <2>3, <2>4, <2>5, EnoughOnRow DEF TypeOK
<1>3. CASE request[r].state \notin {"absent", "validation_failed"}
    <2>1. request' = request /\ worker' = [worker EXCEPT ![w] = serving]
        BY <1>3 DEF Ask, Become
    <2>2. request' = [request EXCEPT ![r] = request[r]] /\ RowSound(r)'
        BY <2>1 DEF TypeOK, RowsSound, RowSound
    <2>3. Honest(w)'
        BY <1>0, <1>3, <2>1 DEF Honest, Idle, TypeOK, RowsSound, RowSound
    <2> QED
        BY <1>0, <2>1, <2>2, <2>3, EnoughOnRow DEF TypeOK
<1> QED
    BY <1>1, <1>2, <1>3 DEF Ask

-----------------------------------------------------------------------------
(* The worker's transactions *)

LEMMA ClaimKeeps ==
    ASSUME IInv, NEW w \in Workers, NEW r \in Requests, Claim(w, r)
    PROVE  IInv'
<1> USE DEF IInv
<1>0. /\ attempts' \subseteq Attempt /\ request[r] \in Request
      /\ UNCHANGED <<active, calculations, quotes>>
      /\ request[r].state \in Open
    <2>1. Interrupted(r) \subseteq Attempt
        BY RecordedType DEF Interrupted
    <2> QED
        BY <2>1 DEF Claim, Claimable, Open, Reserve, Exhaust, TypeOK
<1>1. CASE Reserve(w, r)
    <2> DEFINE row == [request[r] EXCEPT !.state = "running", !.count = request[r].count + 1,
                            !.fence = request[r].fence + 1, !.live = TRUE, !.due = FALSE]
               taken == [at |-> "bind", request |-> r, fence |-> request[r].fence + 1,
                         outcome |-> "none"]
    <2>1. row \in Request
        BY <1>0, <1>1, RowReserve DEF Reserve
    <2>2. request' = [request EXCEPT ![r] = row] /\ worker' = [worker EXCEPT ![w] = taken]
        BY <1>1 DEF Reserve, Become, TypeOK, Request
    <2>3. row.version = request[r].version /\ row.state = "running" /\ row.count >= 1
        BY <1>0 DEF Request
    <2>4. taken \in Job /\ taken.fence > 0
        BY <1>0 DEF Job, Request
    <2>5. RowSound(r)'
        BY <1>0, <2>2, <2>3 DEF RowsSound, RowSound, TypeOK, Open
    <2>6. Honest(w)'
        BY <2>2, <2>4 DEF Honest, TypeOK
    <2> QED
        BY <1>0, <2>1, <2>2, <2>3, <2>4, <2>5, <2>6, EnoughOnRow DEF TypeOK
<1>2. CASE Exhaust(r)
    <2> DEFINE row == [request[r] EXCEPT !.state = "exhausted", !.live = FALSE]
    <2>1. row \in Request /\ request' = [request EXCEPT ![r] = row] /\ worker' = worker
        BY <1>0, <1>2, RowEnd DEF Exhaust, Terminal, TypeOK
    <2>2. row.version = request[r].version /\ row.state = "exhausted"
        BY <1>0 DEF Request
    <2>3. RowSound(r)'
        BY <1>0, <2>1, <2>2 DEF RowsSound, RowSound, TypeOK, Open
    <2> QED
        BY <1>0, <2>1, <2>2, <2>3, EnoughOnRow DEF TypeOK
<1> QED
    BY <1>1, <1>2 DEF Claim

LEMMA BindKeeps ==
    ASSUME IInv, NEW w \in Workers, Bind(w)
    PROVE  IInv'
<1> USE DEF IInv
<1>0. PICK r \in Requests :
          /\ worker[w].request = r /\ worker[w].at = "bind" /\ worker[w].fence > 0
          /\ request[r] \in Request /\ worker[w] \in Job /\ UNCHANGED <<active, calculations, quotes, attempts>>
    BY DEF Bind, WorkersHonest, Honest, TypeOK
<1>1. PICK row \in {request[r], [request[r] EXCEPT !.version = active]} :
          /\ request' = [request EXCEPT ![r] = row]
          /\ row # request[r] => /\ request[r].version = None /\ active # None
                                 /\ request[r].state = "running"
    BY <1>0 DEF Bind, Leased, TypeOK
<1>2. /\ row \in Request /\ row.state = request[r].state /\ row.count = request[r].count
      /\ request[r].version # None => row.version = request[r].version
      /\ row # request[r] => row.version # None
    BY <1>0, <1>1, RowBind DEF TypeOK, Request
<1>3. RowSound(r)'
    <2>1. request'[r] = row
        BY <1>0, <1>1 DEF TypeOK
    <2>2. RowSound(r)
        BY <1>0 DEF RowsSound
    <2> QED
        BY <1>1, <1>2, <2>1, <2>2 DEF RowSound
<1>4. PICK at \in {"finish", "confirm", "retry"}, outcome \in {"validation_failed", "none"} :
          /\ worker' = [worker EXCEPT ![w] = [worker[w] EXCEPT !.at = at, !.outcome = outcome]]
          /\ at = "finish" => outcome = "validation_failed"
          /\ at = "confirm" => request'[r].version # None
    <2>1. CASE Proceed(w, "finish", "validation_failed")
        BY <2>1 DEF Proceed, Become
    <2>2. CASE Proceed(w, "retry", "none")
        BY <2>2 DEF Proceed, Become
    <2>3. CASE Proceed(w, "confirm", "none") /\ request'[r].version # None
        BY <2>3 DEF Proceed, Become
    <2>4. CASE /\ request' = [request EXCEPT ![r].version = active]
               /\ Proceed(w, "confirm", "none") /\ active # None
        BY <1>0, <2>3, <2>4 DEF TypeOK, Request
    <2> QED
        BY <1>0, <2>1, <2>2, <2>3, <2>4 DEF Bind
<1>5. [worker[w] EXCEPT !.at = at, !.outcome = outcome] \in Job
    BY <1>0 DEF Job, Terminal
<1>6. Honest(w)'
    <2>1. /\ worker'[w].at = at /\ worker'[w].outcome = outcome /\ worker'[w].request = r
          /\ worker'[w].fence = worker[w].fence
        BY <1>0, <1>4 DEF TypeOK, Job
    <2> QED
        BY <1>0, <1>4, <2>1 DEF WorkersHonest, Honest
<1>7. attempts' \subseteq Attempt
    BY <1>0 DEF TypeOK
<1>8. /\ \A u \in Workers : worker'[u] # worker[u] => Honest(u)'
      /\ worker' \in [Workers -> Job]
    BY <1>4, <1>5, <1>6 DEF TypeOK
<1> HIDE DEF IInv
<1> QED
    BY <1>0, <1>1, <1>2, <1>3, <1>7, <1>8, EnoughOnRow

LEMMA ConfirmKeeps ==
    ASSUME IInv, NEW w \in Workers, Confirm(w)
    PROVE  IInv'
<1> USE DEF IInv
<1>0. PICK r \in Requests, i \in Identity :
          /\ worker[w].request = r /\ worker[w].at = "confirm" /\ i = IdentityOf(r)
          /\ PlayerOf[i.facts] \in Players
          /\ OutcomeOf(i) \in {"successful", "no_quote"}
    <2> DEFINE r == worker[w].request
               i == IdentityOf(r)
    <2>1. r \in Requests /\ worker[w].at = "confirm" /\ request[r].version # None
        BY DEF Confirm, WorkersHonest, Honest
    <2>2. request[r].version \in Versions
        BY <2>1 DEF TypeOK, Request
    <2>3. i \in Identity /\ OutcomeOf(i) \in {"successful", "no_quote"}
        BY <2>1, <2>2, IdentityType
    <2> QED
        BY <2>1, <2>2, <2>3, CalculationAssumption DEF Identity
<1> DEFINE done == [worker[w] EXCEPT !.at = "finish", !.outcome = OutcomeOf(i)]
<1>1. /\ worker' = [worker EXCEPT ![w] = done]
      /\ UNCHANGED <<active, request, attempts>> /\ calculations' = calculations \cup {i}
    BY <1>0 DEF Confirm, Proceed, Become
<1>2. done \in Job
    BY <1>0 DEF TypeOK, Job, Terminal
<1>3. TypeOK'
    <2>1. quotes' \in [Players -> Seq(Identity)]
        BY <1>0 DEF Confirm, TypeOK
    <2> QED
        BY <1>0, <1>1, <1>2, <2>1 DEF TypeOK
<1>4. RowsSound' /\ Keeping
    BY <1>1 DEF RowsSound, RowSound, Keeping
<1>5. Honest(w)'
    <2>1. /\ worker'[w].request = r /\ worker'[w].fence = worker[w].fence
          /\ worker'[w].at = "finish" /\ worker'[w].outcome = OutcomeOf(i)
        BY <1>0, <1>1 DEF TypeOK, Job
    <2>2. IdentityOf(r)' = i /\ OutcomeOf(IdentityOf(r))' = OutcomeOf(i)
        BY <1>0, <1>1 DEF IdentityOf, OutcomeOf, Price
    <2> QED
        BY <1>0, <1>1, <2>1, <2>2 DEF WorkersHonest, Honest
<1>6. \A j \in calculations' \ calculations : \E q \in Requests : IdentityOf(q)' = j
    BY <1>0, <1>1 DEF IdentityOf
<1> QED
    BY <1>1, <1>3, <1>4, <1>5, <1>6, EnoughToKeep DEF TypeOK

\* A worker that gives up, or a process that dies.
LEMMA StopKeeps ==
    ASSUME IInv, NEW w \in Workers, Fail(w) \/ Die(w)
    PROVE  IInv'
<1> USE DEF IInv
<1>1. PICK next \in {Idle, [worker[w] EXCEPT !.at = "retry", !.outcome = "none"]} :
          /\ worker' = [worker EXCEPT ![w] = next]
          /\ next # Idle => worker[w].at \in {"bind", "confirm"}
    BY DEF Fail, Die, Become, Proceed
<1>2. UNCHANGED <<active, request, calculations, quotes, attempts>>
    BY DEF Fail, Die
<1>3. next \in Job
    <2>1. Idle \in Job
        BY DEF Idle, Job
    <2>2. [worker[w] EXCEPT !.at = "retry", !.outcome = "none"] \in Job
        BY DEF TypeOK, Job
    <2> QED
        BY <2>1, <2>2
<1>4. Honest(w)'
    <2>1. CASE next = Idle
        BY <1>1, <2>1 DEF Honest, Idle, TypeOK
    <2>2. CASE next # Idle
        <3>1. /\ worker'[w].at = "retry" /\ worker'[w].request = worker[w].request
              /\ worker'[w].fence = worker[w].fence /\ worker[w].at # "idle"
            BY <1>1, <2>2 DEF TypeOK, Job
        <3> QED
            BY <3>1 DEF WorkersHonest, Honest
    <2> QED
        BY <2>1, <2>2
<1>5. TypeOK'
    BY <1>1, <1>2, <1>3 DEF TypeOK
<1>6. RowsSound' /\ Keeping
    BY <1>2 DEF RowsSound, RowSound, Keeping
<1> QED
    BY <1>1, <1>2, <1>4, <1>5, <1>6, EnoughToKeep DEF TypeOK

\* A worker or a caller that reports its outcome.
LEMMA FinishKeeps ==
    ASSUME IInv, NEW w \in Workers, Finish(w) \/ Complete(w)
    PROVE  IInv'
<1> DEFINE outcome == worker[w].outcome
<1> USE DEF IInv
<1>0. PICK r \in Requests :
          /\ worker[w].request = r /\ request[r] \in Request
          /\ UNCHANGED <<active, calculations, quotes>> /\ worker' = [worker EXCEPT ![w] = Idle]
          /\ \/ outcome = "validation_failed"
             \/ IdentityOf(r) \in calculations /\ outcome = OutcomeOf(IdentityOf(r))
    BY DEF Finish, Complete, Become, WorkersHonest, Honest, TypeOK
<1>1. /\ outcome \in {"validation_failed", "successful", "no_quote"}
      /\ outcome # "validation_failed" => request[r].version # None
    BY <1>0, CalculatedIsBound, IdentityType
<1>2. PICK row \in {request[r], [request[r] EXCEPT !.state = outcome],
                    [request[r] EXCEPT !.state = outcome, !.live = FALSE]} :
          request' = [request EXCEPT ![r] = row]
    BY <1>0 DEF Finish, Complete, TypeOK
<1>3. /\ row \in Request /\ row.version = request[r].version /\ row.count = request[r].count
      /\ row.state \in {request[r].state, outcome}
    <2>1. row \in Request
        <3>1. outcome \in Open \cup Terminal
            BY <1>1 DEF Terminal
        <3>2. /\ [request[r] EXCEPT !.state = outcome] \in Request
              /\ [request[r] EXCEPT !.state = outcome, !.live = FALSE] \in Request
            BY <1>0, <3>1, RowEnd
        <3> QED
            BY <1>0, <1>2, <3>2
    <2> QED
        BY <1>0, <1>2, <2>1 DEF Request
<1>4. RowSound(r)'
    <2>1. request'[r] = row
        BY <1>0, <1>2 DEF TypeOK
    <2>2. RowSound(r)
        BY <1>0 DEF RowsSound
    <2> QED
        BY <1>1, <1>3, <2>1, <2>2 DEF RowSound
<1>5. attempts' \subseteq Attempt
    <2>1. Current(w) => Recorded(r, outcome) \in Attempt
        BY <1>0, <1>1, RecordedType DEF Current, Terminal
    <2> QED
        BY <1>0, <2>1 DEF Finish, Complete, TypeOK
<1>6. Honest(w)' /\ Idle \in Job
    BY <1>0 DEF Honest, Idle, TypeOK, Job
<1>7. /\ \A u \in Workers : worker'[u] # worker[u] => Honest(u)'
      /\ worker' \in [Workers -> Job]
    BY <1>0, <1>6 DEF TypeOK
<1> HIDE DEF IInv
<1> QED
    BY <1>0, <1>1, <1>2, <1>3, <1>4, <1>5, <1>7, EnoughOnRow

LEMMA RetryKeeps ==
    ASSUME IInv, NEW w \in Workers, Retry(w)
    PROVE  IInv'
<1> USE DEF IInv
<1>0. PICK r \in Requests :
          /\ worker[w].request = r /\ request[r] \in Request
          /\ UNCHANGED <<active, calculations, quotes>> /\ worker' = [worker EXCEPT ![w] = Idle]
    BY DEF Retry, Become, WorkersHonest, Honest, TypeOK
<1>1. PICK row \in {request[r],
                    [request[r] EXCEPT !.state = "exhausted", !.live = FALSE, !.due = FALSE],
                    [request[r] EXCEPT !.state = "retrying", !.live = FALSE, !.due = FALSE]} :
          /\ request' = [request EXCEPT ![r] = row]
          /\ row # request[r] => request[r].state = "running"
    BY <1>0 DEF Retry, Current, TypeOK
<1>2. /\ row \in Request /\ row.version = request[r].version
      /\ row.state \in {request[r].state, "exhausted", "retrying"}
      /\ row = request[r] \/ row.state \in {"exhausted", "retrying"}
    <2>1. row \in Request
        <3>1. \A state \in {"exhausted", "retrying"} :
                 [request[r] EXCEPT !.state = state, !.live = FALSE, !.due = FALSE] \in Request
            BY <1>0, RowEnd DEF Terminal, Open
        <3> QED
            BY <1>0, <1>1, <3>1
    <2> QED
        BY <1>0, <1>1, <2>1 DEF Request
<1>3. RowSound(r)'
    <2>1. request'[r] = row
        BY <1>0, <1>1 DEF TypeOK
    <2>2. RowSound(r) /\ (r \in Explicit /\ request[r].state = "running" => request[r].version # None)
        BY <1>0 DEF RowsSound, RowSound
    <2> QED
        BY <1>1, <1>2, <2>1, <2>2 DEF RowSound
<1>4. attempts' \subseteq Attempt
    <2>1. Current(w) => /\ Recorded(r, "exhausted") \in Attempt
                        /\ Recorded(r, "retryable") \in Attempt
        BY <1>0, RecordedType DEF Current, Terminal
    <2> QED
        BY <1>0, <2>1 DEF Retry, TypeOK
<1>5. Honest(w)' /\ Idle \in Job
    BY <1>0 DEF Honest, Idle, TypeOK, Job
<1>6. /\ \A u \in Workers : worker'[u] # worker[u] => Honest(u)'
      /\ worker' \in [Workers -> Job]
    BY <1>0, <1>5 DEF TypeOK
<1> HIDE DEF IInv
<1> QED
    BY <1>0, <1>1, <1>2, <1>3, <1>4, <1>6, EnoughOnRow

LEMMA NextInvariant == IInv /\ [Next]_vars => IInv'
<1> SUFFICES ASSUME IInv, [Next]_vars PROVE IInv'
    OBVIOUS
<1>1. CASE UNCHANGED vars
    <2>1. TypeOK' /\ RowsSound' /\ Keeping
        BY <1>1 DEF vars, IInv, TypeOK, RowsSound, RowSound, Keeping
    <2> QED
        BY <1>1, <2>1, EnoughToKeep DEF vars
<1>2. CASE Next
    BY <1>2, ActivateKeeps, RecordImportKeeps, AdmitImportsKeeps, ClockKeeps, AskKeeps, ClaimKeeps,
       BindKeeps, ConfirmKeeps, StopKeeps, FinishKeeps, RetryKeeps DEF Next, Work
<1> QED
    BY <1>1, <1>2

-----------------------------------------------------------------------------
(* Theorems *)

\* Bound versions, counted attempts and honest workers, at every interleaving.
THEOREM Invariance == Spec => []IInv
BY InitInvariant, NextInvariant, PTL DEF Spec

\* Type correctness: in particular no request starts a fourth attempt.
THEOREM TypeCorrect == Spec => []TypeOK
<1>1. IInv => TypeOK
    BY DEF IInv
<1> QED
    BY <1>1, Invariance, PTL

\* Every calculation was made under the version that a request for its facts is
\* bound to, whatever is activated between two attempts.
THEOREM CalculationsStayBound == Spec => []CalculationsBound
<1>1. IInv => CalculationsBound
    BY DEF IInv
<1> QED
    BY <1>1, Invariance, PTL

\* A request reported successful or without quote has the calculation that says
\* so, whoever reports it and however late.
THEOREM OutcomesBacked == Spec => []OutcomeBacked
<1>1. IInv => OutcomeBacked
    BY DEF IInv
<1> QED
    BY <1>1, Invariance, PTL

\* No late or overtaken worker reopens or rewrites a deferred request that
\* ended: without a fence only its caller writes, with one only who runs it.
THEOREM EndsAreFinal == Spec => TerminalStays
<1> DEFINE Final(r) == request[r].state \in Terminal => request'[r].state = request[r].state
<1>1. IInv /\ [Next]_vars => \A r \in Requests \ Explicit : Final(r)
    <2> SUFFICES ASSUME IInv, [Next]_vars, NEW r \in Requests \ Explicit,
                        request[r].state \in Terminal
                 PROVE  request'[r].state = request[r].state
        OBVIOUS
    <2>0. /\ request \in [Requests -> Request] /\ request[r] \in Request
          /\ request[r].state \notin Open \cup {"absent"}
        BY DEF IInv, TypeOK, Terminal, Open
    <2>1. ASSUME NEW q \in Requests, RecordImport(q) \/ ExpireLease(q) \/ ComeDue(q)
          PROVE  request'[r].state = request[r].state
        <3>1. CASE q # r
            BY <2>0, <2>1, <3>1 DEF RecordImport, ExpireLease, ComeDue
        <3>2. CASE q = r
            BY <2>0, <2>1, <3>2 DEF RecordImport, ExpireLease, ComeDue, Request, Open
        <3> QED
            BY <3>1, <3>2
    <2>2. CASE AdmitImports
        BY <2>0, <2>2 DEF AdmitImports, Request
    <2>3. ASSUME NEW w \in Workers, NEW q \in Requests, Ask(w, q)
          PROVE  request'[r].state = request[r].state
        <3>1. q # r
            BY <2>3 DEF Ask
        <3> QED
            BY <2>0, <2>3, <3>1 DEF Ask
    <2>4. ASSUME NEW w \in Workers, NEW q \in Requests, Claim(w, q)
          PROVE  request'[r].state = request[r].state
        <3>1. q # r
            BY <2>0, <2>4 DEF Claim, Claimable, Open
        <3> QED
            BY <2>0, <2>4, <3>1 DEF Claim, Reserve, Exhaust
    <2>5. ASSUME NEW w \in Workers, Bind(w)
          PROVE  request'[r].state = request[r].state
        BY <2>0, <2>5 DEF Bind, Request
    <2>6. ASSUME NEW w \in Workers, Finish(w) \/ Complete(w) \/ Retry(w)
          PROVE  request'[r].state = request[r].state
        <3>1. CASE worker[w].request = r
            <4>1. ~Current(w)
                BY <2>0, <3>1 DEF Current, Open
            <4>2. ~Complete(w)
                BY <3>1 DEF Complete, IInv, WorkersHonest, Honest
            <4> QED
                BY <2>6, <4>1, <4>2 DEF Finish, Retry
        <3>2. CASE worker[w].request # r
            BY <2>0, <2>6, <3>2 DEF Finish, Complete, Retry
        <3> QED
            BY <3>1, <3>2
    <2>7. \/ request' = request
          \/ \E q \in Requests : RecordImport(q) \/ ExpireLease(q) \/ ComeDue(q)
          \/ AdmitImports
          \/ \E w \in Workers, q \in Requests : Ask(w, q) \/ Claim(w, q)
          \/ \E w \in Workers : Bind(w) \/ Finish(w) \/ Complete(w) \/ Retry(w)
        BY DEF Next, Work, vars, Activate, Confirm, Fail, Die
    <2> QED
        BY <2>1, <2>2, <2>3, <2>4, <2>5, <2>6, <2>7
<1>2. IInv /\ [Next]_vars =>
          [\A r \in Requests \ Explicit : Final(r)]_vars
    BY <1>1
<1> QED
    BY <1>2, Invariance, PTL DEF Spec, TerminalStays

-----------------------------------------------------------------------------
(* Quotes *)

Confirmed(p) == {i \in calculations : PlayerOf[i.facts] = p /\ Price(i) > 0}

QuotesOf(p) == {quotes[p][n] : n \in DOMAIN quotes[p]}

\* A calculation that was there adds nothing; a new one with a price adds itself
\* at the end of its player's quotes.
LEMMA ConfirmOneQuote ==
    ASSUME IInv, OneQuotePerCalculation, IsFiniteSet(calculations), NEW w \in Workers, Confirm(w),
           NEW p \in Players
    PROVE  /\ Len(quotes[p])' = Cardinality(Confirmed(p))'
           /\ QuotesOf(p)' = Confirmed(p)'
<1>1. PICK r \in Requests : worker[w].request = r /\ request[r].version \in Versions
    BY DEF Confirm, IInv, WorkersHonest, Honest, TypeOK, Request
<1>2. PICK i \in Identity : i = IdentityOf(r)
    BY <1>1, IdentityType
<1>3. /\ calculations' = calculations \cup {i}
      /\ quotes' = IF i \notin calculations /\ Price(i) > 0
                   THEN [quotes EXCEPT ![PlayerOf[i.facts]] = Append(@, i)] ELSE quotes
    BY <1>1, <1>2 DEF Confirm
<1>4. /\ quotes \in [Players -> Seq(Identity)] /\ quotes[p] \in Seq(Identity)
      /\ PlayerOf[i.facts] \in Players
    BY <1>2, CalculationAssumption DEF IInv, TypeOK, Identity
<1>5. /\ Len(quotes[p]) = Cardinality(Confirmed(p)) /\ QuotesOf(p) = Confirmed(p)
      /\ IsFiniteSet(Confirmed(p))
    BY FS_Subset DEF OneQuotePerCalculation, Confirmed, QuotesOf
<1>6. CASE i \notin calculations /\ Price(i) > 0 /\ PlayerOf[i.facts] = p
    <2>1. quotes'[p] = Append(quotes[p], i)
        BY <1>3, <1>4, <1>6
    <2>2. Confirmed(p)' = Confirmed(p) \cup {i} /\ i \notin Confirmed(p)
        BY <1>3, <1>6 DEF Confirmed, Price
    <2>3. Cardinality(Confirmed(p) \cup {i}) = Cardinality(Confirmed(p)) + 1
        BY <1>5, <2>2, FS_AddElement
    <2>4. Len(quotes'[p]) = Len(quotes[p]) + 1
        BY <1>4, <2>1
    <2>5. QuotesOf(p)' = QuotesOf(p) \cup {i}
        <3>1. DOMAIN quotes'[p] = DOMAIN quotes[p] \cup {Len(quotes[p]) + 1}
            BY <1>4, <2>1
        <3>2. /\ \A n \in DOMAIN quotes[p] : quotes'[p][n] = quotes[p][n]
              /\ quotes'[p][Len(quotes[p]) + 1] = i
            BY <1>4, <2>1
        <3> QED
            BY <3>1, <3>2 DEF QuotesOf
    <2> QED
        BY <1>5, <2>2, <2>3, <2>4, <2>5
<1>7. CASE ~(i \notin calculations /\ Price(i) > 0 /\ PlayerOf[i.facts] = p)
    <2>1. quotes'[p] = quotes[p]
        BY <1>3, <1>4, <1>7
    <2>2. Confirmed(p)' = Confirmed(p)
        BY <1>3, <1>7 DEF Confirmed, Price
    <2> QED
        BY <1>5, <2>1, <2>2 DEF QuotesOf
<1> QED
    BY <1>6, <1>7

\* However many requests, attempts and callers share it, a calculation identity
\* yields one quote if it is successful and none otherwise.
THEOREM OneQuote == Spec => []OneQuotePerCalculation
<1> DEFINE Inv == OneQuotePerCalculation /\ IsFiniteSet(calculations)
<1>1. Init => Inv
    <2> SUFFICES ASSUME Init PROVE Inv
        OBVIOUS
    <2>1. IsFiniteSet({}) /\ Cardinality({}) = 0
        BY FS_EmptySet
    <2>2. \A p \in Players : Confirmed(p) = {} /\ QuotesOf(p) = {} /\ Len(quotes[p]) = 0
        BY DEF Init, Confirmed, QuotesOf
    <2> QED
        BY <2>1, <2>2 DEF Init, OneQuotePerCalculation, Confirmed, QuotesOf
<1>2. IInv /\ Inv /\ [Next]_vars => Inv'
    <2> SUFFICES ASSUME IInv, Inv, [Next]_vars PROVE Inv'
        OBVIOUS
    <2>1. CASE UNCHANGED <<calculations, quotes>>
        BY <2>1 DEF OneQuotePerCalculation, Price
    <2>2. ASSUME NEW w \in Workers, Confirm(w) PROVE Inv'
        <3>1. IsFiniteSet(calculations')
            BY <2>2, FS_AddElement DEF Confirm
        <3>2. \A p \in Players : /\ Len(quotes[p])' = Cardinality(Confirmed(p))'
                                 /\ QuotesOf(p)' = Confirmed(p)'
            BY <2>2, ConfirmOneQuote
        <3> QED
            BY <3>1, <3>2 DEF OneQuotePerCalculation, Confirmed, QuotesOf
    <2>3. UNCHANGED <<calculations, quotes>> \/ \E w \in Workers : Confirm(w)
        BY DEF Next, Work, vars, Activate, RecordImport, ExpireLease, ComeDue, AdmitImports, Ask,
               Claim, Bind, Finish, Complete, Retry, Fail, Die
    <2> QED
        BY <2>1, <2>2, <2>3
<1> QED
    BY <1>1, <1>2, Invariance, PTL DEF Spec

-----------------------------------------------------------------------------
(* Attempts *)

RecordsOf(r) == {a \in attempts : a.request = r}

Ended(r) == IF request[r].state = "running" THEN request[r].count - 1 ELSE request[r].count

\* The records of a request are as many as its ended attempts, and number them.
Accounted(r) ==
    /\ {a.number : a \in RecordsOf(r)} = 1 .. Ended(r)
    /\ Cardinality(RecordsOf(r)) = Ended(r)

\* What may happen to a deferred request in a step: nothing that counts, or the
\* attempt that runs is recorded as it ends.
SameRecords(r) == RecordsOf(r)' = RecordsOf(r) /\ Ended(r)' = Ended(r)

OneMoreRecord(r) ==
    /\ request[r].state = "running" /\ Ended(r)' = request[r].count
    /\ \E status : attempts' = attempts \cup {Recorded(r, status)}

\* The record of the running attempt is new, as its number is.
LEMMA RecordAccounted ==
    ASSUME IInv, IsFiniteSet(attempts), NEW r \in Requests, Accounted(r), OneMoreRecord(r)
    PROVE  Accounted(r)'
<1>1. request[r].count \in Nat /\ request[r].count >= 1 /\ Ended(r) = request[r].count - 1
    BY DEF IInv, TypeOK, Request, MaxAttempts, RowsSound, RowSound, OneMoreRecord, Ended
<1>2. PICK status : attempts' = attempts \cup {Recorded(r, status)}
    BY DEF OneMoreRecord
<1> DEFINE a == Recorded(r, status)
           numbers == {b.number : b \in RecordsOf(r)}
<1>3. a.request = r /\ a.number = request[r].count
    BY DEF Recorded
<1>4. RecordsOf(r)' = RecordsOf(r) \cup {a}
    BY <1>2, <1>3 DEF RecordsOf
<1>5. a \notin RecordsOf(r)
    BY <1>1, <1>3 DEF Accounted
<1>6. IsFiniteSet(RecordsOf(r))
    BY FS_Subset DEF RecordsOf
<1>7. Cardinality(RecordsOf(r) \cup {a}) = Cardinality(RecordsOf(r)) + 1
    BY <1>5, <1>6, FS_AddElement
<1>8. {b.number : b \in RecordsOf(r) \cup {a}} = numbers \cup {request[r].count}
    BY <1>3
<1>9. numbers \cup {request[r].count} = 1 .. request[r].count
    <2>1. numbers = 1 .. request[r].count - 1
        BY <1>1 DEF Accounted
    <2>2. \A n \in Nat : n >= 1 => (1 .. n - 1) \cup {n} = 1 .. n
        OBVIOUS
    <2> QED
        BY <1>1, <2>1, <2>2
<1>10. Ended(r)' = request[r].count
    BY DEF OneMoreRecord
<1>11. Cardinality(RecordsOf(r)) + 1 = request[r].count
    BY <1>1 DEF Accounted
<1>12. {b.number : b \in RecordsOf(r)}' = {b.number : b \in RecordsOf(r) \cup {a}}
    BY <1>4
<1>13. {b.number : b \in RecordsOf(r)}' = 1 .. Ended(r)'
    BY <1>8, <1>9, <1>10, <1>12
<1>14. Cardinality(RecordsOf(r)') = Ended(r)'
    BY <1>4, <1>7, <1>10, <1>11
<1> QED
    BY <1>13, <1>14 DEF Accounted

\* Every step leaves a deferred request's records alone or adds the one due.
LEMMA StepRecords ==
    ASSUME IInv, [Next]_vars, NEW r \in Requests \ Explicit
    PROVE  SameRecords(r) \/ OneMoreRecord(r)
<1>0. request \in [Requests -> Request] /\ request[r] \in Request
    BY DEF IInv, TypeOK
<1>1. ASSUME attempts' = attempts, request'[r] = request[r] PROVE SameRecords(r)
    BY <1>1 DEF SameRecords, RecordsOf, Ended
<1>2. ASSUME NEW q \in Requests, RecordImport(q) \/ ExpireLease(q) \/ ComeDue(q)
      PROVE  SameRecords(r)
    <2>1. CASE q # r
        BY <1>0, <1>1, <1>2, <2>1 DEF RecordImport, ExpireLease, ComeDue
    <2>2. CASE q = r
        <3>1. /\ request'[r].count = request[r].count
              /\ request'[r].state = "running" <=> request[r].state = "running"
            BY <1>0, <1>2, <2>2 DEF RecordImport, ExpireLease, ComeDue, Request
        <3> QED
            BY <1>2, <3>1 DEF RecordImport, ExpireLease, ComeDue, SameRecords, RecordsOf, Ended
    <2> QED
        BY <2>1, <2>2
<1>3. ASSUME AdmitImports PROVE SameRecords(r)
    <2>1. request'[r].count = request[r].count /\ request'[r].state = request[r].state
        BY <1>0, <1>3 DEF AdmitImports, Request
    <2> QED
        BY <1>3, <2>1 DEF AdmitImports, SameRecords, RecordsOf, Ended
<1>4. ASSUME NEW w \in Workers, NEW q \in Requests, Ask(w, q) PROVE SameRecords(r)
    <2>1. q # r
        BY <1>4 DEF Ask
    <2> QED
        BY <1>0, <1>1, <1>4, <2>1 DEF Ask
<1>5. ASSUME NEW w \in Workers, NEW q \in Requests, Claim(w, q)
      PROVE  SameRecords(r) \/ OneMoreRecord(r)
    <2>1. attempts' = attempts \cup Interrupted(q)
        BY <1>5 DEF Claim, Reserve, Exhaust
    <2>2. CASE q # r
        <3>1. request'[r] = request[r]
            BY <1>0, <1>5, <2>2 DEF Claim, Reserve, Exhaust
        <3>2. RecordsOf(r)' = RecordsOf(r)
            BY <2>1, <2>2 DEF Interrupted, Recorded, RecordsOf
        <3> QED
            BY <3>1, <3>2 DEF SameRecords, Ended
    <2>3. CASE q = r
        <3>1. Ended(r)' = request[r].count
            BY <1>0, <1>5, <2>3 DEF Claim, Reserve, Exhaust, Request, Ended, MaxAttempts
        <3>2. CASE request[r].state = "running"
            BY <2>1, <2>3, <3>1, <3>2 DEF Interrupted, OneMoreRecord
        <3>3. CASE request[r].state # "running"
            BY <2>1, <2>3, <3>1, <3>3 DEF Interrupted, SameRecords, RecordsOf, Ended
        <3> QED
            BY <3>2, <3>3
    <2> QED
        BY <2>2, <2>3
<1>6. ASSUME NEW w \in Workers, Bind(w) PROVE SameRecords(r)
    <2>1. request'[r].count = request[r].count /\ request'[r].state = request[r].state
        BY <1>0, <1>6 DEF Bind, Request
    <2> QED
        BY <1>6, <2>1 DEF Bind, SameRecords, RecordsOf, Ended
<1>7. ASSUME NEW w \in Workers, Complete(w) PROVE SameRecords(r)
    <2>1. worker[w].request # r
        BY <1>7 DEF Complete, IInv, WorkersHonest, Honest
    <2> QED
        BY <1>0, <1>1, <1>7, <2>1 DEF Complete
<1>8. ASSUME NEW w \in Workers, Finish(w) \/ Retry(w)
      PROVE  SameRecords(r) \/ OneMoreRecord(r)
    <2> DEFINE q == worker[w].request
    <2>1. CASE ~Current(w)
        BY <1>1, <1>8, <2>1 DEF Finish, Retry
    <2>2. CASE Current(w) /\ q # r
        <3>1. request'[r] = request[r]
            BY <1>0, <1>8, <2>2 DEF Finish, Retry
        <3>2. PICK status : attempts' = attempts \cup {Recorded(q, status)}
            BY <1>8, <2>2 DEF Finish, Retry
        <3>3. RecordsOf(r)' = RecordsOf(r)
            BY <2>2, <3>2 DEF Recorded, RecordsOf
        <3> QED
            BY <3>1, <3>3 DEF SameRecords, Ended
    <2>3. CASE Current(w) /\ q = r
        <3>1. request[r].state = "running"
            BY <2>3 DEF Current
        <3>2. \E status : attempts' = attempts \cup {Recorded(r, status)}
            BY <1>8, <2>3 DEF Finish, Retry
        <3>3. worker[w].at = "finish" => worker[w].outcome # "running"
            BY <2>3, IdentityType, CalculatedIsBound DEF IInv, WorkersHonest, Honest
        <3>4. request'[r].count = request[r].count /\ request'[r].state # "running"
            BY <1>0, <1>8, <2>3, <3>3 DEF Finish, Retry, Request
        <3> QED
            BY <3>1, <3>2, <3>4 DEF OneMoreRecord, Ended
    <2> QED
        BY <2>1, <2>2, <2>3
<1>9. \/ UNCHANGED <<request, attempts>>
      \/ \E q \in Requests : RecordImport(q) \/ ExpireLease(q) \/ ComeDue(q)
      \/ AdmitImports
      \/ \E w \in Workers, q \in Requests : Ask(w, q) \/ Claim(w, q)
      \/ \E w \in Workers : Bind(w) \/ Finish(w) \/ Complete(w) \/ Retry(w)
    BY DEF Next, Work, vars, Activate, Confirm, Fail, Die
<1> QED
    BY <1>1, <1>2, <1>3, <1>4, <1>5, <1>6, <1>7, <1>8, <1>9

\* Each attempt of a deferred request ends once: reserved attempts have exactly
\* one record each, but for the one that runs, whichever worker claims, dies,
\* retries or finishes in between.
THEOREM AttemptsOnce == Spec => []AttemptsRecordedOnce
<1> DEFINE Inv == /\ IsFiniteSet(attempts)
                  /\ \A r \in Requests \ Explicit : Accounted(r)
<1>1. Init => Inv
    <2> SUFFICES ASSUME Init PROVE Inv
        OBVIOUS
    <2>1. IsFiniteSet({}) /\ Cardinality({}) = 0
        BY FS_EmptySet
    <2>2. \A r \in Requests : RecordsOf(r) = {} /\ Ended(r) = 0
        BY DEF Init, RecordsOf, Ended, NoRequest
    <2>3. \A r \in Requests : Accounted(r)
        BY <2>1, <2>2 DEF Accounted
    <2> QED
        BY <2>1, <2>3 DEF Init
<1>2. IInv /\ Inv /\ [Next]_vars => Inv'
    <2> SUFFICES ASSUME IInv, Inv, [Next]_vars PROVE Inv'
        OBVIOUS
    <2>1. IsFiniteSet(attempts')
        <3>1. \/ attempts' = attempts
              \/ \E a : attempts' = attempts \cup {a}
            BY DEF Next, Work, vars, Activate, RecordImport, ExpireLease, ComeDue, AdmitImports,
                   Ask, Claim, Reserve, Exhaust, Interrupted, Bind, Confirm, Finish, Complete,
                   Retry, Fail, Die
        <3> QED
            BY <3>1, FS_AddElement
    <2>2. \A r \in Requests \ Explicit : Accounted(r)'
        <3> SUFFICES ASSUME NEW r \in Requests \ Explicit PROVE Accounted(r)'
            OBVIOUS
        <3>1. CASE SameRecords(r)
            BY <3>1 DEF SameRecords, Accounted
        <3>2. CASE OneMoreRecord(r)
            BY <3>2, RecordAccounted
        <3> QED
            BY <3>1, <3>2, StepRecords
    <2> QED
        BY <2>1, <2>2
<1>3. Inv => AttemptsRecordedOnce
    BY DEF AttemptsRecordedOnce, Accounted, RecordsOf, Ended
<1> QED
    BY <1>1, <1>2, <1>3, Invariance, PTL DEF Spec

=============================================================================
