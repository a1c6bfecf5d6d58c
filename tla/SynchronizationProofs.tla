----------------------- MODULE SynchronizationProofs ------------------------
(***************************************************************************)
(* Theorems about the runs, for any number of requests, workers, slots and *)
(* attempts: the ledger of every run is sound at all times, only its open  *)
(* attempt publishes, ended history stays, and the runs implement what     *)
(* ImportRuns promises.                                                    *)
(***************************************************************************)
EXTENDS Synchronization, TLAPS

-----------------------------------------------------------------------------
(* One run: what each transaction does to its ledger *)

\* A new run is prepared.
LEMMA SoundCreate ==
    Sound([state |-> "queued", due |-> TRUE], <<"prepared">>, <<>>, 0)
BY SynchronizationAssumption DEF Sound, Run, ActiveStates, Attempt

\* A claim opens the attempt of the newest delivery.
LEMMA SoundClaim ==
    ASSUME NEW x, NEW rc, NEW at, NEW p, Sound(x, rc, at, p),
           x.state \in {"queued", "retry_wait"}, Len(at) < AttemptLimit
    PROVE  Sound([state |-> "executing", due |-> TRUE], rc,
                 Append(at, [delivery |-> Len(rc), status |-> "executing"]), p)
<1> DEFINE new == [delivery |-> Len(rc), status |-> "executing"]
<1>1. /\ at \in Seq(Attempt) /\ Len(at) \in Nat /\ Len(rc) = Len(at) + 1
      /\ AttemptLimit \in Nat
    BY SynchronizationAssumption DEF Sound
<1>2. new \in Attempt
    BY <1>1 DEF Attempt
<1>3. /\ Append(at, new) \in Seq(Attempt) /\ Len(Append(at, new)) = Len(at) + 1
      /\ Append(at, new)[Len(at) + 1] = new
      /\ \A n \in 1 .. Len(at) : Append(at, new)[n] = at[n]
    BY <1>1, <1>2
<1> HIDE DEF new
<1>4. new.delivery = Len(rc) /\ new.status = "executing"
    BY DEF new
<1>5. Sound([state |-> "executing", due |-> TRUE], rc, Append(at, new), p)
    BY <1>1, <1>3, <1>4 DEF Sound, Run, ActiveStates
<1> QED
    BY <1>5 DEF new

\* What can be said of the receipt under which an open attempt works.
LEMMA SoundOpen ==
    ASSUME NEW x, NEW rc, NEW at, NEW p, Sound(x, rc, at, p),
           NEW d \in 1 .. Len(at), at[d].status = "executing"
    PROVE  /\ x.state = "executing" /\ d = Len(at) /\ d = Len(rc)
           /\ rc[d] \in {"prepared", "confirmed"}
           /\ rc[d] = "confirmed" <=> p = 1
<1>1. /\ x.state = "executing" /\ d = Len(at) /\ d = Len(rc) /\ rc[d] # "revoked"
      /\ rc[d] \in {"prepared", "confirmed", "revoked"} /\ p \in {0, 1}
    BY DEF Sound
<1>2. rc[d] = "confirmed" => p = 1
    BY <1>1 DEF Sound
<1>3. p = 1 => rc[d] = "confirmed"
    BY <1>1 DEF Sound
<1> QED
    BY <1>1, <1>2, <1>3

\* A prepared receipt of an attempt belongs to the open one.
LEMMA SoundPrepared ==
    ASSUME NEW x, NEW rc, NEW at, NEW p, Sound(x, rc, at, p),
           NEW d \in 1 .. Len(at), rc[d] = "prepared"
    PROVE  at[d].status = "executing"
<1>1. at[d] \in Attempt
    BY DEF Sound
<1>2. at[d].status \in {"executing", "succeeded", "failed", "interrupted"}
    BY <1>1 DEF Attempt
<1> QED
    BY <1>2 DEF Sound

LEMMA SoundPublish ==
    ASSUME NEW x, NEW rc, NEW at, NEW p, Sound(x, rc, at, p),
           NEW d \in 1 .. Len(at), rc[d] = "prepared"
    PROVE  /\ p = 0
           /\ Sound(x, [rc EXCEPT ![d] = "confirmed"], at, p + 1)
<1>1. at[d].status = "executing"
    BY SoundPrepared
<1>2. x.state = "executing" /\ d = Len(at) /\ d = Len(rc) /\ p # 1
    BY <1>1, SoundOpen
<1>3. p = 0
    BY <1>2 DEF Sound
<1> DEFINE new == [rc EXCEPT ![d] = "confirmed"]
<1>4. /\ new \in Seq({"prepared", "confirmed", "revoked"}) /\ Len(new) = Len(rc)
      /\ new[d] = "confirmed"
      /\ \A n \in 1 .. Len(rc) : n # d => new[n] = rc[n]
    BY <1>2 DEF Sound
<1> HIDE DEF new
<1>5. Sound(x, new, at, p + 1)
    BY <1>1, <1>2, <1>3, <1>4 DEF Sound
<1> QED
    BY <1>3, <1>5 DEF new

LEMMA SoundSucceed ==
    ASSUME NEW x, NEW rc, NEW at, NEW p, Sound(x, rc, at, p),
           NEW d \in 1 .. Len(at), at[d].status = "executing", rc[d] = "confirmed"
    PROVE  Sound([state |-> "succeeded", due |-> TRUE], rc, [at EXCEPT ![d].status = "succeeded"], p)
<1>1. /\ x.state = "executing" /\ d = Len(at) /\ d = Len(rc) /\ p = 1
    BY SoundOpen
<1> DEFINE new == [at EXCEPT ![d].status = "succeeded"]
<1>2. at[d] \in Attempt
    BY DEF Sound
<1>3. [at[d] EXCEPT !.status = "succeeded"] \in Attempt
    BY <1>2 DEF Attempt
<1>4. /\ new \in Seq(Attempt) /\ Len(new) = Len(at)
      /\ new[d].status = "succeeded" /\ new[d].delivery = at[d].delivery
      /\ \A n \in 1 .. Len(at) : n # d => new[n] = at[n]
    BY <1>2, <1>3 DEF Sound, Attempt
<1> HIDE DEF new
<1>5. /\ rc \in Seq({"prepared", "confirmed", "revoked"}) /\ at \in Seq(Attempt)
      /\ Len(at) <= AttemptLimit /\ Len(rc) = Len(at) /\ Len(at) \in Nat
      /\ \A n \in 1 .. Len(rc) : rc[n] = "confirmed" => n = Len(at)
    BY <1>1 DEF Sound
<1>6. \A n \in 1 .. Len(new) :
        /\ new[n].delivery = n
        /\ new[n].status # "executing"
        /\ new[n].status \in {"failed", "interrupted"} <=> rc[n] = "revoked"
        /\ new[n].status = "succeeded" => rc[n] = "confirmed"
    <2> SUFFICES ASSUME NEW n \in 1 .. Len(new)
                 PROVE  /\ new[n].delivery = n
                        /\ new[n].status # "executing"
                        /\ new[n].status \in {"failed", "interrupted"} <=> rc[n] = "revoked"
                        /\ new[n].status = "succeeded" => rc[n] = "confirmed"
        OBVIOUS
    <2>1. n \in 1 .. Len(at) /\ n \in 1 .. Len(rc)
        BY <1>1, <1>4
    <2>2. /\ at[n].delivery = n
          /\ at[n].status = "executing" <=> n = Len(at)
          /\ at[n].status \in {"failed", "interrupted"} <=> rc[n] = "revoked"
          /\ at[n].status = "succeeded" => rc[n] = "confirmed"
        BY <1>1, <2>1 DEF Sound
    <2>3. CASE n = d
        BY <1>4, <2>1, <2>2, <2>3
    <2>4. CASE n # d
        BY <1>1, <1>4, <1>5, <2>1, <2>2, <2>4
    <2> QED
        BY <2>3, <2>4
<1>7. Sound([state |-> "succeeded", due |-> TRUE], rc, new, p)
    BY <1>1, <1>4, <1>5, <1>6 DEF Sound, Run, ActiveStates
<1> QED
    BY <1>7 DEF new

\* Attempt d has ended as e.
EndedWith(at, d, e) == [at EXCEPT ![d].status = e]

\* Ending an open attempt without a confirmed receipt revokes the receipt.
LEMMA SoundFail ==
    ASSUME NEW x, NEW rc, NEW at, NEW p, Sound(x, rc, at, p),
           NEW d \in 1 .. Len(at), at[d].status = "executing", rc[d] # "confirmed",
           NEW e \in {"failed", "interrupted"}
    PROVE  /\ p = 0
           /\ Sound([state |-> "failed", due |-> TRUE], [rc EXCEPT ![d] = "revoked"],
                    EndedWith(at, d, e), p)
<1>1. /\ x.state = "executing" /\ d = Len(at) /\ d = Len(rc) /\ p = 0
    BY SoundOpen DEF Sound
<1> DEFINE new == [at EXCEPT ![d].status = e]
           revoked == [rc EXCEPT ![d] = "revoked"]
<1>2. at[d] \in Attempt
    BY DEF Sound
<1>3. [at[d] EXCEPT !.status = e] \in Attempt
    BY <1>2 DEF Attempt
<1>4. /\ new \in Seq(Attempt) /\ Len(new) = Len(at)
      /\ new[d].status = e /\ new[d].delivery = at[d].delivery
      /\ \A n \in 1 .. Len(at) : n # d => new[n] = at[n]
    BY <1>2, <1>3 DEF Sound, Attempt
<1>5. /\ revoked \in Seq({"prepared", "confirmed", "revoked"}) /\ Len(revoked) = Len(rc)
      /\ revoked[d] = "revoked"
      /\ \A n \in 1 .. Len(rc) : n # d => revoked[n] = rc[n]
    BY <1>1 DEF Sound
<1> HIDE DEF new, revoked
<1>6. /\ at \in Seq(Attempt) /\ Len(at) <= AttemptLimit /\ Len(at) \in Nat
      /\ \A n \in 1 .. Len(rc) : rc[n] = "confirmed" => n = Len(at)
    BY <1>1 DEF Sound
<1>7. \A n \in 1 .. Len(new) :
        /\ new[n].delivery = n
        /\ new[n].status # "executing"
        /\ new[n].status \in {"failed", "interrupted"} <=> revoked[n] = "revoked"
        /\ new[n].status = "succeeded" => revoked[n] = "confirmed"
    <2> SUFFICES ASSUME NEW n \in 1 .. Len(new)
                 PROVE  /\ new[n].delivery = n
                        /\ new[n].status # "executing"
                        /\ new[n].status \in {"failed", "interrupted"} <=> revoked[n] = "revoked"
                        /\ new[n].status = "succeeded" => revoked[n] = "confirmed"
        OBVIOUS
    <2>1. n \in 1 .. Len(at) /\ n \in 1 .. Len(rc)
        BY <1>1, <1>4
    <2>2. /\ at[n].delivery = n
          /\ at[n].status = "executing" <=> n = Len(at)
          /\ at[n].status \in {"failed", "interrupted"} <=> rc[n] = "revoked"
          /\ at[n].status = "succeeded" => rc[n] = "confirmed"
        BY <1>1, <2>1 DEF Sound
    <2>3. CASE n = d
        BY <1>4, <1>5, <2>2, <2>3
    <2>4. CASE n # d
        BY <1>1, <1>4, <1>5, <2>1, <2>2, <2>4
    <2> QED
        BY <2>3, <2>4
<1>8. \A n \in 1 .. Len(revoked) : revoked[n] # "confirmed"
    BY <1>1, <1>5, <1>6
<1>9. Sound([state |-> "failed", due |-> TRUE], revoked, new, p)
    BY <1>1, <1>4, <1>5, <1>6, <1>7, <1>8 DEF Sound, Run, ActiveStates
<1> QED
    BY <1>1, <1>9 DEF new, revoked, EndedWith

\* A failed run below its limit may be prepared once more.
LEMMA SoundRetry ==
    ASSUME NEW x, NEW rc, NEW at, NEW p, Sound(x, rc, at, p), x.state = "failed"
    PROVE  Sound([state |-> "retry_wait", due |-> FALSE], Append(rc, "prepared"), at, p)
<1> DEFINE new == Append(rc, "prepared")
<1>1. /\ rc \in Seq({"prepared", "confirmed", "revoked"})
      /\ Len(rc) = Len(at) /\ Len(at) \in Nat /\ at \in Seq(Attempt)
    BY DEF Sound
<1>2. /\ new \in Seq({"prepared", "confirmed", "revoked"}) /\ Len(new) = Len(rc) + 1
      /\ new[Len(rc) + 1] = "prepared"
      /\ \A n \in 1 .. Len(rc) : new[n] = rc[n]
    BY <1>1
<1> HIDE DEF new
<1>3. Sound([state |-> "retry_wait", due |-> FALSE], new, at, p)
    BY <1>1, <1>2 DEF Sound, Run, ActiveStates
<1> QED
    BY <1>3 DEF new

-----------------------------------------------------------------------------
(* One step: which run it rewrites, and how *)

\* Only the rows of run r may change.
Only(r) ==
    /\ run' = [run EXCEPT ![r] = run'[r]]
    /\ receipts' = [receipts EXCEPT ![r] = receipts'[r]]
    /\ attempts' = [attempts EXCEPT ![r] = attempts'[r]]
    /\ published' = [published EXCEPT ![r] = published'[r]]

Created(r) ==
    /\ run[r].state = "absent" /\ IndexAdmits(r)
    /\ answer'[r] = r
    /\ run'[r] = [state |-> "queued", due |-> TRUE]
    /\ receipts'[r] = <<"prepared">>
    /\ UNCHANGED <<attempts, published>>

Claimed(r) ==
    /\ Waiting(r) /\ Len(attempts[r]) < AttemptLimit
    /\ run'[r] = [state |-> "executing", due |-> TRUE]
    /\ attempts'[r] = Append(attempts[r],
                             [delivery |-> Len(receipts[r]), status |-> "executing"])
    /\ UNCHANGED <<receipts, published>>

Published(r) ==
    \E d \in 1 .. Len(attempts[r]) :
        /\ receipts[r][d] = "prepared"
        /\ receipts'[r] = [receipts[r] EXCEPT ![d] = "confirmed"]
        /\ published'[r] = published[r] + 1
        /\ UNCHANGED <<run, attempts>>

Succeeded(r) ==
    \E d \in 1 .. Len(attempts[r]) :
        /\ attempts[r][d].status = "executing" /\ receipts[r][d] = "confirmed"
        /\ run'[r] = [state |-> "succeeded", due |-> TRUE]
        /\ attempts'[r] = [attempts[r] EXCEPT ![d].status = "succeeded"]
        /\ UNCHANGED <<receipts, published>>

Failed(r, d, e) ==
    /\ attempts[r][d].status = "executing" /\ receipts[r][d] # "confirmed"
    /\ attempts'[r] = EndedWith(attempts[r], d, e)
    /\ UNCHANGED published

FailedForGood(r) ==
    \E d \in 1 .. Len(attempts[r]), e \in {"failed", "interrupted"} :
        /\ Failed(r, d, e)
        /\ run'[r] = [state |-> "failed", due |-> TRUE]
        /\ receipts'[r] = [receipts[r] EXCEPT ![d] = "revoked"]

FailedForNow(r) ==
    \E d \in 1 .. Len(attempts[r]), e \in {"failed", "interrupted"} :
        /\ Failed(r, d, e)
        /\ run'[r] = [state |-> "retry_wait", due |-> FALSE]
        /\ receipts'[r] = Append([receipts[r] EXCEPT ![d] = "revoked"], "prepared")

Waited(r) ==
    /\ ~run[r].due
    /\ run'[r] = [run[r] EXCEPT !.due = TRUE]
    /\ UNCHANGED <<receipts, attempts, published>>

Rewritten(r) ==
    /\ Only(r)
    /\ \/ Created(r) \/ Claimed(r) \/ Published(r) \/ Succeeded(r)
       \/ FailedForGood(r) \/ FailedForNow(r) \/ Waited(r)

Still == UNCHANGED <<run, receipts, attempts, published>>

RowStep == Still \/ \E r \in Requests : Rewritten(r)

\* The types of the rows, from which a change of one run leaves the others alone.
LEMMA OthersKept ==
    ASSUME TypeOK, NEW r \in Requests, Only(r)
    PROVE  \A s \in Requests : s # r =>
               /\ run'[s] = run[s] /\ receipts'[s] = receipts[s]
               /\ attempts'[s] = attempts[s] /\ published'[s] = published[s]
BY DEF TypeOK, Only

\* Every way to rewrite a run keeps its ledger sound.
LEMMA RewrittenSound ==
    ASSUME TypeOK, NEW r \in Requests, Ledger(r), Rewritten(r)
    PROVE  Sound(run'[r], receipts'[r], attempts'[r], published'[r])
<1> USE DEF Ledger
<1>1. CASE Created(r)
    <2>1. receipts[r] = <<>> /\ attempts[r] = <<>> /\ published[r] # 1 /\ published[r] \in {0, 1}
        BY <1>1 DEF Created, Sound
    <2>2. published'[r] = 0 /\ attempts'[r] = <<>>
        BY <1>1, <2>1 DEF Created
    <2> QED
        BY <1>1, <2>2, SoundCreate DEF Created
<1>2. CASE Claimed(r)
    <2>1. Sound([state |-> "executing", due |-> TRUE], receipts[r],
                Append(attempts[r], [delivery |-> Len(receipts[r]), status |-> "executing"]),
                published[r])
        BY <1>2, SoundClaim DEF Claimed, Waiting
    <2> QED
        BY <1>2, <2>1 DEF Claimed
<1>3. CASE Published(r)
    <2>1. PICK d \in 1 .. Len(attempts[r]) :
            /\ receipts[r][d] = "prepared"
            /\ receipts'[r] = [receipts[r] EXCEPT ![d] = "confirmed"]
            /\ published'[r] = published[r] + 1
            /\ UNCHANGED <<run, attempts>>
        BY <1>3 DEF Published
    <2>2. Sound(run[r], [receipts[r] EXCEPT ![d] = "confirmed"], attempts[r], published[r] + 1)
        BY <2>1, SoundPublish
    <2> QED
        BY <2>1, <2>2
<1>4. CASE Succeeded(r)
    <2>1. PICK d \in 1 .. Len(attempts[r]) :
            /\ attempts[r][d].status = "executing" /\ receipts[r][d] = "confirmed"
            /\ run'[r] = [state |-> "succeeded", due |-> TRUE]
            /\ attempts'[r] = [attempts[r] EXCEPT ![d].status = "succeeded"]
            /\ UNCHANGED <<receipts, published>>
        BY <1>4 DEF Succeeded
    <2>2. Sound([state |-> "succeeded", due |-> TRUE], receipts[r],
                [attempts[r] EXCEPT ![d].status = "succeeded"], published[r])
        BY <2>1, SoundSucceed
    <2> QED
        BY <2>1, <2>2
<1>5. CASE FailedForGood(r)
    <2>1. PICK d \in 1 .. Len(attempts[r]), e \in {"failed", "interrupted"} :
            /\ Failed(r, d, e)
            /\ run'[r] = [state |-> "failed", due |-> TRUE]
            /\ receipts'[r] = [receipts[r] EXCEPT ![d] = "revoked"]
        BY <1>5 DEF FailedForGood
    <2>2. /\ Sound(run[r], receipts[r], attempts[r], published[r])
          /\ attempts[r][d].status = "executing" /\ receipts[r][d] # "confirmed"
          /\ attempts'[r] = EndedWith(attempts[r], d, e) /\ published'[r] = published[r]
        BY <2>1 DEF Failed
    <2>3. Sound([state |-> "failed", due |-> TRUE], [receipts[r] EXCEPT ![d] = "revoked"],
                EndedWith(attempts[r], d, e), published[r])
        BY <2>2, SoundFail
    <2> QED
        BY <2>1, <2>2, <2>3
<1>6. CASE FailedForNow(r)
    <2>1. PICK d \in 1 .. Len(attempts[r]), e \in {"failed", "interrupted"} :
            /\ Failed(r, d, e)
            /\ run'[r] = [state |-> "retry_wait", due |-> FALSE]
            /\ receipts'[r] = Append([receipts[r] EXCEPT ![d] = "revoked"], "prepared")
        BY <1>6 DEF FailedForNow
    <2> DEFINE x == [state |-> "failed", due |-> TRUE]
               rc == [receipts[r] EXCEPT ![d] = "revoked"]
               at == EndedWith(attempts[r], d, e)
    <2>2. /\ Sound(run[r], receipts[r], attempts[r], published[r])
          /\ attempts[r][d].status = "executing" /\ receipts[r][d] # "confirmed"
          /\ attempts'[r] = at /\ published'[r] = published[r]
        BY <2>1 DEF Failed
    <2>3. Sound(x, rc, at, published[r])
        BY <2>2, SoundFail
    <2>4. x.state = "failed"
        OBVIOUS
    <2>5. receipts'[r] = Append(rc, "prepared")
        BY <2>1
    <2> HIDE DEF x, rc, at
    <2>6. Sound([state |-> "retry_wait", due |-> FALSE], Append(rc, "prepared"), at, published[r])
        BY <2>3, <2>4, SoundRetry
    <2> QED
        BY <2>1, <2>2, <2>5, <2>6
<1>7. CASE Waited(r)
    <2>1. /\ run'[r].state = run[r].state /\ run'[r] \in Run /\ run'[r].due
        BY <1>7 DEF Waited, Sound, Run
    <2>2. Sound(run'[r], receipts[r], attempts[r], published[r])
        BY <2>1 DEF Sound
    <2> QED
        BY <1>7, <2>2 DEF Waited
<1> QED
    BY <1>1, <1>2, <1>3, <1>4, <1>5, <1>6, <1>7 DEF Rewritten

\* A job that a step queues carries the newest delivery of its run.
JobsStep ==
    \A j \in jobs' : \/ j \in jobs
                     \/ \E r \in Requests : /\ j = <<r, Len(receipts'[r])>>
                                            /\ Len(receipts'[r]) >= 1

Steps == RowStep /\ JobsStep

LEMMA NumberIsDelivery ==
    ASSUME NEW r, Ledger(r), NEW d \in 1 .. Len(attempts[r])
    PROVE  Number(r, d) = d
<1>1. /\ DOMAIN attempts[r] = 1 .. Len(attempts[r])
      /\ \A n \in 1 .. Len(attempts[r]) : attempts[r][n].delivery = n
    BY DEF Ledger, Sound
<1>2. \E n \in DOMAIN attempts[r] : attempts[r][n].delivery = d
    BY <1>1
<1>3. /\ Number(r, d) \in DOMAIN attempts[r]
      /\ attempts[r][Number(r, d)].delivery = d
    BY <1>2, Zenon DEF Number
<1> QED
    BY <1>1, <1>3

LEMMA CompleteSteps ==
    ASSUME TypeOK, NEW r \in Requests, Ledger(r), NEW d \in 1 .. Len(attempts[r]),
           NEW result, Complete(r, d, result)
    PROVE  Steps
<1>1. Number(r, d) = d
    BY NumberIsDelivery
<1>2. /\ run \in [Requests -> Run]
      /\ receipts \in [Requests -> Seq({"prepared", "confirmed", "revoked"})]
      /\ attempts \in [Requests -> Seq(Attempt)]
      /\ published \in [Requests -> Nat]
      /\ published' = published
    BY DEF TypeOK, Complete
<1>3. CASE ~Open(r, d)
    BY <1>2, <1>3 DEF Complete, Steps, RowStep, Still, JobsStep
<1>4. CASE Open(r, d) /\ receipts[r][d] = "confirmed"
    <2>1. attempts[r][d].status = "executing" /\ CompleteConfirmed(r, d)
        BY <1>1, <1>4 DEF Open, Complete
    <2>2. Only(r) /\ Succeeded(r)
        BY <1>1, <1>2, <1>4, <2>1 DEF CompleteConfirmed, Only, Succeeded
    <2> QED
        BY <2>1, <2>2 DEF CompleteConfirmed, Steps, RowStep, JobsStep, Rewritten
<1>5. CASE Open(r, d) /\ receipts[r][d] # "confirmed"
    <2> DEFINE e == EndedAs(result)
               retried == Retried(r, d, result)
    <2>1. attempts[r][d].status = "executing" /\ CompleteFailed(r, d, result)
        BY <1>1, <1>5 DEF Open, Complete
    <2>2. e \in {"failed", "interrupted"}
        BY DEF EndedAs
    <2>3. /\ attempts' = [attempts EXCEPT ![r][d].status = e]
          /\ run' = [run EXCEPT ![r] = [state |-> IF retried THEN "retry_wait" ELSE "failed",
                                        due |-> ~retried]]
          /\ receipts' = [receipts EXCEPT ![r] =
                IF retried THEN Append(Revoked(r, d), "prepared") ELSE Revoked(r, d)]
          /\ jobs' = jobs \cup (IF retried THEN {<<r, Current(r) + 1>>} ELSE {})
        BY <1>1, <2>1 DEF CompleteFailed
    <2>4. attempts'[r] = EndedWith(attempts[r], d, e)
        BY <1>2, <2>3 DEF EndedWith
    <2>5. attempts' = [attempts EXCEPT ![r] = attempts'[r]]
        BY <1>2, <2>3
    <2> HIDE DEF e, retried
    <2>6. Failed(r, d, e)
        BY <1>2, <1>5, <2>1, <2>4 DEF Failed
    <2>7. CASE retried
        <3>1. /\ receipts' = [receipts EXCEPT ![r] = Append(Revoked(r, d), "prepared")]
              /\ run' = [run EXCEPT ![r] = [state |-> "retry_wait", due |-> FALSE]]
              /\ jobs' = jobs \cup {<<r, Current(r) + 1>>}
            BY <2>3, <2>7
        <3>2. FailedForNow(r)
            BY <1>2, <2>2, <2>6, <3>1 DEF FailedForNow, Revoked
        <3>3. Only(r)
            BY <1>2, <2>5, <3>1 DEF Only
        <3>4. Revoked(r, d) \in Seq({"prepared", "confirmed", "revoked"})
              /\ Len(Revoked(r, d)) = Len(receipts[r])
            <4>1. receipts[r] \in Seq({"prepared", "confirmed", "revoked"})
                BY <1>2
            <4>2. d \in 1 .. Len(receipts[r])
                BY <2>1, SoundOpen DEF Ledger
            <4> QED
                BY <4>1, <4>2 DEF Revoked
        <3>5. Len(receipts'[r]) = Current(r) + 1 /\ Current(r) \in Nat
            BY <1>2, <3>1, <3>4 DEF Current
        <3>6. JobsStep
            BY <3>1, <3>5 DEF JobsStep
        <3> QED
            BY <3>2, <3>3, <3>6 DEF Steps, RowStep, Rewritten
    <2>8. CASE ~retried
        <3>1. /\ receipts' = [receipts EXCEPT ![r] = Revoked(r, d)]
              /\ run' = [run EXCEPT ![r] = [state |-> "failed", due |-> TRUE]]
              /\ jobs' = jobs
            BY <2>3, <2>8
        <3>2. FailedForGood(r)
            BY <1>2, <2>2, <2>6, <3>1 DEF FailedForGood, Revoked
        <3>3. Only(r)
            BY <1>2, <2>5, <3>1 DEF Only
        <3> QED
            BY <3>1, <3>2, <3>3 DEF Steps, RowStep, Rewritten, JobsStep
    <2> QED
        BY <2>7, <2>8
<1> QED
    BY <1>3, <1>4, <1>5

LEMMA CreateSteps ==
    ASSUME IInv, NEW q \in Requests, answer[q] \notin Requests, Create(q)
    PROVE  Steps
<1>1. run[q].state = "absent"
    BY DEF IInv, Answered
<1>2. Created(q)
    BY <1>1 DEF IInv, TypeOK, Create, Created
<1>3. Only(q)
    BY DEF IInv, TypeOK, Create, Only
<1>4. receipts'[q] = <<"prepared">> /\ jobs' = jobs \cup {<<q, 1>>}
    BY DEF IInv, TypeOK, Create
<1>5. Len(receipts'[q]) = 1
    BY <1>4
<1>6. JobsStep
    BY <1>4, <1>5 DEF JobsStep
<1> QED
    BY <1>2, <1>3, <1>6 DEF Steps, RowStep, Rewritten

LEMMA ClaimSteps ==
    ASSUME IInv, NEW w \in Workers, Claim(w)
    PROVE  Steps
<1> DEFINE r == worker[w].run
<1>1. r \in Requests
    BY DEF IInv, WorkersKnown, Claim
<1>2. /\ Waiting(r) /\ Len(attempts[r]) < AttemptLimit
      /\ worker[w].delivery = Len(receipts[r])
    BY DEF Claim, Claimable, Current
<1>3. Only(r) /\ Claimed(r) /\ jobs' = jobs
    BY <1>1, <1>2 DEF IInv, TypeOK, Claim, Only, Claimed
<1> QED
    BY <1>1, <1>3 DEF Steps, RowStep, Rewritten, JobsStep

LEMMA PublishSteps ==
    ASSUME IInv, NEW w \in Workers, Publish(w)
    PROVE  Steps
<1> DEFINE r == worker[w].run
           d == worker[w].delivery
<1>1. r \in Requests /\ d \in 1 .. Len(attempts[r])
    BY DEF IInv, WorkersKnown, Publish
<1>2. Only(r) /\ Published(r) /\ jobs' = jobs
    BY <1>1 DEF IInv, TypeOK, Publish, Only, Published
<1> QED
    BY <1>1, <1>2 DEF Steps, RowStep, Rewritten, JobsStep

LEMMA FinishSteps ==
    ASSUME IInv, NEW w \in Workers, Finish(w)
    PROVE  Steps
<1>1. /\ worker[w].run \in Requests
      /\ worker[w].delivery \in 1 .. Len(attempts[worker[w].run])
    BY DEF IInv, WorkersKnown, Finish
<1> QED
    BY <1>1, CompleteSteps DEF IInv, Finish

LEMMA ReconcileSteps ==
    ASSUME IInv, Reconcile
    PROVE  Steps
<1>1. sweep.run \in Requests
    BY DEF IInv, SweepKnown, Reconcile
<1>2. CASE sweep.orphan
    <2>1. sweep.delivery \in 1 .. Len(attempts[sweep.run])
        BY <1>2 DEF IInv, SweepKnown, Reconcile
    <2> QED
        BY <1>1, <1>2, <2>1, CompleteSteps DEF IInv, Reconcile
<1>3. CASE ~sweep.orphan
    <2>1. Repair(sweep.run)
        BY <1>3 DEF Reconcile
    <2>2. Still
        BY <2>1 DEF Repair, Still
    <2>3. Waiting(sweep.run) => Len(receipts[sweep.run]) >= 1
        BY <1>1 DEF IInv, Ledger, Sound, Waiting
    <2>4. JobsStep
        BY <1>1, <2>1, <2>3 DEF Repair, JobsStep, Current
    <2> QED
        BY <2>2, <2>4 DEF Steps, RowStep
<1> QED
    BY <1>2, <1>3

LEMMA DueSteps ==
    ASSUME IInv, NEW r \in Requests, Due(r)
    PROVE  Steps
<1>1. Only(r) /\ Waited(r) /\ jobs' = jobs
    BY DEF IInv, TypeOK, Due, Only, Waited
<1> QED
    BY <1>1 DEF Steps, RowStep, Rewritten, JobsStep

\* Every step rewrites one run at most, in one of the seven ways.
LEMMA NextSteps ==
    ASSUME IInv, [Next]_vars
    PROVE  Steps
<1> USE DEF Steps, RowStep, Still, JobsStep
<1>1. CASE UNCHANGED vars
    BY <1>1 DEF vars
<1>2. CASE \E q \in Requests : Admit(q) \/ Due(q)
    <2>1. PICK q \in Requests : Admit(q) \/ Due(q)
        BY <1>2
    <2>2. CASE Admit(q)
        BY <2>2, CreateSteps DEF Admit, Coalesce, Refuse, rows
    <2>3. CASE Due(q)
        BY <2>3, DueSteps
    <2> QED
        BY <2>1, <2>2, <2>3
<1>3. CASE \E w \in Workers : Work(w) \/ Die(w)
    <2>1. PICK w \in Workers : Work(w) \/ Die(w)
        BY <1>3
    <2>2. CASE \E r \in Requests : \E d \in 1 .. AttemptLimit : Start(w, r, d)
        BY <2>2 DEF Start
    <2>3. CASE Acquire(w) \/ Busy(w) \/ IgnoreClaim(w) \/ ImportFails(w) \/ FencedOut(w)
               \/ Release(w) \/ Die(w)
        BY <2>3 DEF Acquire, Busy, IgnoreClaim, ImportFails, FencedOut, Release, Die, rows
    <2>4. CASE Claim(w)
        BY <2>4, ClaimSteps
    <2>5. CASE Publish(w)
        BY <2>5, PublishSteps
    <2>6. CASE Finish(w)
        BY <2>6, FinishSteps
    <2> QED
        BY <2>1, <2>2, <2>3, <2>4, <2>5, <2>6 DEF Work
<1>4. CASE \E a \in Actors : GuardBreaks(a)
    BY <1>4 DEF GuardBreaks, rows
<1>5. CASE Dispatch
    <2>1. CASE Survey \/ MoveOn
        BY <2>1 DEF Survey, MoveOn, rows
    <2>2. CASE \E r \in Requests : Visit(r) \/ Skip(r)
        BY <2>2 DEF Visit, Skip, rows
    <2>3. CASE Reconcile
        BY <2>3, ReconcileSteps
    <2> QED
        BY <1>5, <2>1, <2>2, <2>3 DEF Dispatch
<1>6. CASE DispatcherDies
    BY <1>6 DEF DispatcherDies, rows
<1> QED
    BY <1>1, <1>2, <1>3, <1>4, <1>5, <1>6 DEF Next

-----------------------------------------------------------------------------
(* The inductive invariant: rows *)

\* Deliveries and attempts are never deleted, a run exists for good.
Grown(r) ==
    /\ Len(receipts'[r]) >= Len(receipts[r])
    /\ Len(attempts'[r]) >= Len(attempts[r])
    /\ run[r].state # "absent" => run'[r].state # "absent"

LEMMA RewrittenGrown ==
    ASSUME TypeOK, NEW r \in Requests, Ledger(r), Rewritten(r)
    PROVE  Grown(r)
<1>1. /\ receipts[r] \in Seq({"prepared", "confirmed", "revoked"})
      /\ attempts[r] \in Seq(Attempt)
      /\ Len(attempts[r]) \in Nat /\ Len(receipts[r]) \in Nat
    BY DEF TypeOK
<1>2. CASE Created(r)
    <2>1. Len(receipts[r]) = 0 /\ attempts'[r] = attempts[r]
        BY <1>2 DEF Created, Ledger, Sound
    <2>2. Len(receipts'[r]) = 1
        BY <1>2 DEF Created
    <2> QED
        BY <1>1, <1>2, <2>1, <2>2 DEF Created, Grown
<1>3. CASE Claimed(r)
    BY <1>1, <1>3 DEF Claimed, Grown
<1>4. CASE Published(r)
    BY <1>1, <1>4 DEF Published, Grown
<1>5. CASE Succeeded(r)
    BY <1>1, <1>5 DEF Succeeded, Grown
<1>6. CASE FailedForGood(r)
    BY <1>1, <1>6 DEF FailedForGood, Failed, EndedWith, Grown
<1>7. CASE FailedForNow(r)
    <2>1. PICK d \in 1 .. Len(attempts[r]), e \in {"failed", "interrupted"} :
            /\ Failed(r, d, e)
            /\ run'[r] = [state |-> "retry_wait", due |-> FALSE]
            /\ receipts'[r] = Append([receipts[r] EXCEPT ![d] = "revoked"], "prepared")
        BY <1>7 DEF FailedForNow
    <2>2. d \in 1 .. Len(receipts[r])
        BY <2>1, SoundOpen DEF Failed, Ledger
    <2> DEFINE rc == [receipts[r] EXCEPT ![d] = "revoked"]
    <2>3. rc \in Seq({"prepared", "confirmed", "revoked"}) /\ Len(rc) = Len(receipts[r])
        BY <1>1, <2>2
    <2>4. Len(receipts'[r]) = Len(receipts[r]) + 1
        BY <2>1, <2>3
    <2>5. Len(attempts'[r]) = Len(attempts[r])
        BY <1>1, <2>1 DEF Failed, EndedWith
    <2> QED
        BY <1>1, <2>1, <2>4, <2>5 DEF Grown
<1>8. CASE Waited(r)
    BY <1>1, <1>8 DEF Waited, TypeOK, Run, Grown
<1> QED
    BY <1>2, <1>3, <1>4, <1>5, <1>6, <1>7, <1>8 DEF Rewritten

LEMMA RowsStep ==
    ASSUME IInv, RowStep
    PROVE  /\ run' \in [Requests -> Run]
           /\ receipts' \in [Requests -> Seq({"prepared", "confirmed", "revoked"})]
           /\ attempts' \in [Requests -> Seq(Attempt)]
           /\ published' \in [Requests -> Nat]
           /\ \A r \in Requests : Ledger(r)' /\ Grown(r)
<1>1. /\ run \in [Requests -> Run]
      /\ receipts \in [Requests -> Seq({"prepared", "confirmed", "revoked"})]
      /\ attempts \in [Requests -> Seq(Attempt)]
      /\ published \in [Requests -> Nat]
      /\ \A r \in Requests : Ledger(r)
      /\ TypeOK
    BY DEF IInv, TypeOK
<1>2. CASE Still
    BY <1>1, <1>2 DEF Still, Ledger, Grown
<1>3. CASE \E r \in Requests : Rewritten(r)
    <2>1. PICK r \in Requests : Rewritten(r)
        BY <1>3
    <2>2. Sound(run'[r], receipts'[r], attempts'[r], published'[r])
        BY <1>1, <2>1, RewrittenSound
    <2>3. Only(r)
        BY <2>1 DEF Rewritten
    <2>4. /\ run'[r] \in Run /\ receipts'[r] \in Seq({"prepared", "confirmed", "revoked"})
          /\ attempts'[r] \in Seq(Attempt) /\ published'[r] \in Nat
        BY <2>2 DEF Sound
    <2>5. /\ run' \in [Requests -> Run]
          /\ receipts' \in [Requests -> Seq({"prepared", "confirmed", "revoked"})]
          /\ attempts' \in [Requests -> Seq(Attempt)]
          /\ published' \in [Requests -> Nat]
        BY <1>1, <2>3, <2>4 DEF Only
    <2>6. ASSUME NEW s \in Requests
          PROVE  Ledger(s)' /\ Grown(s)
        <3>1. CASE s = r
            BY <1>1, <2>1, <2>2, <3>1, RewrittenGrown DEF Ledger
        <3>2. CASE s # r
            <4>1. /\ run'[s] = run[s] /\ receipts'[s] = receipts[s]
                  /\ attempts'[s] = attempts[s] /\ published'[s] = published[s]
                BY <1>1, <2>3, <3>2, OthersKept
            <4>2. Ledger(s)
                BY <1>1
            <4> QED
                BY <1>1, <4>1, <4>2 DEF Ledger, Grown
        <3> QED
            BY <3>1, <3>2
    <2> QED
        BY <2>5, <2>6
<1> QED
    BY <1>2, <1>3 DEF RowStep

LEMMA JobsKnownStep ==
    ASSUME IInv, Steps
    PROVE  (jobs \subseteq Requests \X Nat)' /\ JobsKnown'
<1>1. /\ jobs \subseteq Requests \X Nat /\ JobsKnown
      /\ receipts \in [Requests -> Seq({"prepared", "confirmed", "revoked"})]
    BY DEF IInv, TypeOK
<1>2. /\ receipts' \in [Requests -> Seq({"prepared", "confirmed", "revoked"})]
      /\ \A r \in Requests : Len(receipts'[r]) >= Len(receipts[r])
    BY RowsStep DEF Steps, Grown
<1>3. ASSUME NEW j \in jobs'
      PROVE  j \in Requests \X Nat /\ j[2] \in 1 .. Len(receipts'[j[1]])
    <2>1. CASE j \in jobs
        <3>1. j[1] \in Requests /\ j[2] \in 1 .. Len(receipts[j[1]])
            BY <1>1, <2>1 DEF JobsKnown, Current
        <3>2. Len(receipts[j[1]]) \in Nat /\ Len(receipts'[j[1]]) \in Nat
            BY <1>1, <1>2, <3>1
        <3> QED
            BY <1>1, <1>2, <2>1, <3>1, <3>2
    <2>2. CASE \E r \in Requests : j = <<r, Len(receipts'[r])>> /\ Len(receipts'[r]) >= 1
        <3>1. PICK r \in Requests : j = <<r, Len(receipts'[r])>> /\ Len(receipts'[r]) >= 1
            BY <2>2
        <3>2. Len(receipts'[r]) \in Nat
            BY <1>2
        <3> QED
            BY <3>1, <3>2
    <2> QED
        BY <2>1, <2>2 DEF Steps, JobsStep
<1> QED
    BY <1>3 DEF JobsKnown, Current

LEMMA AnswerStep ==
    ASSUME IInv, [Next]_vars
    PROVE  /\ answer' \in [Requests -> Requests \cup {"none", "scope_busy", "store_unavailable"}]
           /\ \A q \in Requests : answer[q] \in Requests => answer'[q] = answer[q]
<1>1. answer \in [Requests -> Requests \cup {"none", "scope_busy", "store_unavailable"}]
    BY DEF IInv, TypeOK
<1>2. CASE \E q \in Requests : Admit(q)
    <2>1. PICK q \in Requests : Admit(q)
        BY <1>2
    <2>2. \E e \in Requests \cup {"scope_busy", "store_unavailable"} :
              answer' = [answer EXCEPT ![q] = e]
        BY <2>1 DEF Admit, Create, Coalesce, Refuse, Blocking
    <2>3. answer[q] \notin Requests
        BY <2>1 DEF Admit
    <2> QED
        BY <1>1, <2>2, <2>3
<1>3. CASE \A q \in Requests : ~Admit(q)
    <2>1. answer' = answer
        BY <1>3 DEF Next, Due, Work, Start, Acquire, Busy, Claim, IgnoreClaim, ImportFails,
            Publish, FencedOut, Finish, Release, Die, GuardBreaks, Dispatch, Survey, Visit, Skip,
            Reconcile, MoveOn, DispatcherDies, vars
    <2> QED
        BY <1>1, <2>1
<1> QED
    BY <1>2, <1>3

LEMMA AnsweredStep ==
    ASSUME IInv, Steps, [Next]_vars
    PROVE  Answered'
<1>1. \A q \in Requests : run[q].state # "absent" => answer[q] = q
    BY DEF IInv, Answered
<1>2. SUFFICES ASSUME NEW q \in Requests, run'[q].state # "absent", run[q].state = "absent"
               PROVE  answer'[q] = q
    BY <1>1, AnswerStep DEF Answered
<1>3. PICK r \in Requests : Rewritten(r)
    BY <1>2 DEF Steps, RowStep, Still
<1>4. q = r
    BY <1>2, <1>3, OthersKept DEF IInv, Rewritten
<1>5. Ledger(q) /\ run[q].state = "absent"
    BY <1>2 DEF IInv
<1>6. attempts[q] = <<>> /\ run[q].due
    BY <1>5 DEF Ledger, Sound, Run
<1>7. Created(q)
    BY <1>2, <1>3, <1>4, <1>6 DEF Rewritten, Claimed, Waiting, Published, Succeeded,
        FailedForGood, FailedForNow, Waited
<1> QED
    BY <1>7 DEF Created

\* Only an admission makes a run active.
LEMMA OneActiveStep ==
    ASSUME IInv, Steps
    PROVE  OneActiveRun'
<1>1. CASE Still
    BY <1>1 DEF IInv, Still, OneActiveRun, Active
<1>2. CASE \E r \in Requests : Rewritten(r)
    <2>1. PICK r \in Requests : Rewritten(r)
        BY <1>2
    <2>2. \A s \in Requests : s # r => (Active(s)' <=> Active(s))
        BY <2>1, OthersKept DEF IInv, Rewritten, Active
    <2>3. CASE Created(r)
        <3>1. \A s \in Requests : Active(s) => Season(s) # Season(r)
            BY <2>3 DEF Created, IndexAdmits
        <3> QED
            BY <2>2, <3>1 DEF IInv, OneActiveRun, Season
    <2>4. CASE ~Created(r)
        <3>1. Ledger(r)
            BY DEF IInv
        <3>2. Active(r)
            <4>1. CASE Claimed(r)
                BY <4>1 DEF Claimed, Waiting, Active, ActiveStates
            <4>2. CASE Published(r)
                <5>1. PICK d \in 1 .. Len(attempts[r]) : receipts[r][d] = "prepared"
                    BY <4>2 DEF Published
                <5>2. run[r].state = "executing"
                    BY <3>1, <5>1, SoundPrepared, SoundOpen DEF Ledger
                <5> QED
                    BY <5>2 DEF Active, ActiveStates
            <4>3. CASE Succeeded(r) \/ FailedForGood(r) \/ FailedForNow(r)
                <5>1. PICK d \in 1 .. Len(attempts[r]) : attempts[r][d].status = "executing"
                    BY <4>3 DEF Succeeded, FailedForGood, FailedForNow, Failed
                <5>2. run[r].state = "executing"
                    BY <3>1, <5>1, SoundOpen DEF Ledger
                <5> QED
                    BY <5>2 DEF Active, ActiveStates
            <4>4. CASE Waited(r)
                BY <3>1, <4>4 DEF Waited, Ledger, Sound, Active, ActiveStates
            <4> QED
                BY <2>1, <2>4, <4>1, <4>2, <4>3, <4>4 DEF Rewritten
        <3> QED
            BY <2>2, <3>2 DEF IInv, OneActiveRun, Season
    <2> QED
        BY <2>3, <2>4
<1> QED
    BY <1>1, <1>2 DEF Steps, RowStep

-----------------------------------------------------------------------------
(* The inductive invariant: workers and the dispatcher *)

GuardType == guard \in [Actors -> Seasons \cup {None}]

LEMMA GuardStep ==
    ASSUME IInv, [Next]_vars
    PROVE  GuardType'
<1>1. GuardType
    BY DEF IInv, TypeOK, GuardType
<1>2. ASSUME NEW a \in Actors, NEW s \in Seasons \cup {None}, guard' = [guard EXCEPT ![a] = s]
      PROVE  GuardType'
    BY <1>1, <1>2 DEF GuardType
<1>3. \A r \in Requests : Season(r) \in Seasons
    BY SynchronizationAssumption DEF Season
<1>4. Dispatcher \in Actors /\ \A w \in Workers : w \in Actors
    BY DEF Actors
<1>5. CASE \E w \in Workers : Acquire(w)
    <2>1. PICK w \in Workers : Acquire(w)
        BY <1>5
    <2>2. worker[w].run \in Requests
        BY <2>1 DEF IInv, WorkersKnown, Acquire
    <2> QED
        BY <1>2, <1>3, <1>4, <2>1, <2>2 DEF Acquire, Take
<1>6. CASE \E r \in Requests : Visit(r)
    BY <1>2, <1>3, <1>4, <1>6 DEF Visit, Take
<1>7. CASE \E a \in Actors : guard' = [guard EXCEPT ![a] = None]
    BY <1>2, <1>7
<1>8. CASE guard' = guard
    BY <1>1, <1>8 DEF GuardType
<1>9. \/ \E w \in Workers : Acquire(w)
      \/ \E r \in Requests : Visit(r)
      \/ \E a \in Actors : guard' = [guard EXCEPT ![a] = None]
      \/ guard' = guard
    BY <1>4 DEF Next, Admit, Create, Coalesce, Refuse, Due, Work, Start, Busy, Claim, IgnoreClaim,
        ImportFails, Publish, FencedOut, Finish, Release, Die, GuardBreaks, Dispatch, Survey,
        Skip, Reconcile, MoveOn, DispatcherDies, Leave, vars
<1> QED
    BY <1>5, <1>6, <1>7, <1>8, <1>9

\* What a worker may be doing, given the rows.
WorkerType == [at: {"idle", "guard", "claim", "import", "complete", "release"},
               run: Requests \cup {None}, delivery: Nat, result: Results]

Doing(x, rcs, ats) ==
    /\ x.at # "idle" => x.run \in Requests /\ x.delivery \in 1 .. Len(rcs[x.run])
    /\ x.at \in {"import", "complete"} => x.delivery \in 1 .. Len(ats[x.run])

LEMMA DoingStays ==
    ASSUME IInv, Steps, NEW x, Doing(x, receipts, attempts)
    PROVE  Doing(x, receipts', attempts')
<1>1. \A r \in Requests : /\ Len(receipts'[r]) >= Len(receipts[r])
                          /\ Len(attempts'[r]) >= Len(attempts[r])
    BY RowsStep DEF Steps, Grown
<1>2. \A r \in Requests : /\ Len(receipts[r]) \in Nat /\ Len(receipts'[r]) \in Nat
                          /\ Len(attempts[r]) \in Nat /\ Len(attempts'[r]) \in Nat
    <2>1. /\ receipts \in [Requests -> Seq({"prepared", "confirmed", "revoked"})]
          /\ attempts \in [Requests -> Seq(Attempt)]
        BY DEF IInv, TypeOK
    <2>2. /\ receipts' \in [Requests -> Seq({"prepared", "confirmed", "revoked"})]
          /\ attempts' \in [Requests -> Seq(Attempt)]
        BY RowsStep DEF Steps
    <2> QED
        BY <2>1, <2>2
<1> QED
    BY <1>1, <1>2 DEF Doing

\* A worker that changes what it does keeps its delivery, starts one or claims one.
LEMMA WorkerMoves ==
    ASSUME IInv, Steps, NEW w \in Workers, Work(w) \/ Die(w)
    PROVE  \E x \in WorkerType : worker' = [worker EXCEPT ![w] = x] /\ Doing(x, receipts', attempts')
<1> USE DEF Become
<1>1. worker[w] \in WorkerType
    BY DEF IInv, TypeOK, WorkerType
<1>2. Doing(worker[w], receipts, attempts)
    BY DEF IInv, WorkersKnown, Doing, Current
<1>3. Idle \in WorkerType /\ Doing(Idle, receipts', attempts')
    BY DEF Idle, WorkerType, Results, Doing
<1>4. ASSUME NEW x \in WorkerType, worker' = [worker EXCEPT ![w] = x], Doing(x, receipts', attempts')
      PROVE  \E y \in WorkerType : worker' = [worker EXCEPT ![w] = y] /\ Doing(y, receipts', attempts')
    BY <1>4
<1>5. ASSUME NEW a \in {"claim", "complete", "release"}, NEW e \in Results,
             a = "complete" => worker[w].at = "import", worker[w].at # "idle",
             worker' = [worker EXCEPT ![w] = [worker[w] EXCEPT !.at = a, !.result = e]]
      PROVE  \E y \in WorkerType : worker' = [worker EXCEPT ![w] = y] /\ Doing(y, receipts', attempts')
    <2> DEFINE y == [worker[w] EXCEPT !.at = a, !.result = e]
    <2>1. y \in WorkerType /\ y.at = a /\ y.run = worker[w].run /\ y.delivery = worker[w].delivery
        BY <1>1 DEF WorkerType
    <2>2. y.run \in Requests
        BY <1>2, <1>5, <2>1 DEF Doing
    <2>3. Doing(y, receipts, attempts)
        BY <1>2, <1>5, <2>1 DEF Doing
    <2> HIDE DEF y
    <2>4. Doing(y, receipts', attempts')
        BY <2>2, <2>3, DoingStays
    <2> QED
        BY <1>5, <2>1, <2>4 DEF y
<1>6. CASE \E r \in Requests : \E d \in 1 .. AttemptLimit : Start(w, r, d)
    <2>1. PICK r \in Requests, d \in 1 .. AttemptLimit : Start(w, r, d)
        BY <1>6
    <2> DEFINE x == [at |-> "guard", run |-> r, delivery |-> d, result |-> "none"]
    <2>2. x \in WorkerType
        BY SynchronizationAssumption DEF WorkerType, Results
    <2>3. d \in 1 .. Len(receipts[r])
        BY <2>1 DEF Start, IInv, JobsKnown, Current
    <2>4. Doing(x, receipts, attempts) /\ x.run \in Requests
        BY <2>3 DEF Doing
    <2>5. worker' = [worker EXCEPT ![w] = x]
        BY <2>1 DEF Start
    <2> HIDE DEF x
    <2>6. Doing(x, receipts', attempts')
        BY <2>4, DoingStays
    <2> QED
        BY <2>2, <2>5, <2>6
<1>7. CASE Busy(w) \/ Release(w) \/ Die(w)
    <2>1. worker' = [worker EXCEPT ![w] = Idle]
        BY <1>7 DEF Busy, Release, Die
    <2> QED
        BY <1>3, <2>1
<1>8. CASE Claim(w)
    <2> DEFINE x == [worker[w] EXCEPT !.at = "import"]
    <2>1. /\ x \in WorkerType /\ x.at = "import" /\ x.run = worker[w].run
          /\ x.delivery = worker[w].delivery
        BY <1>1 DEF WorkerType
    <2>2. worker' = [worker EXCEPT ![w] = x]
        BY <1>8 DEF Claim
    <2> HIDE DEF x
    <2>3. /\ x.run \in Requests /\ x.delivery \in 1 .. Len(receipts[x.run])
          /\ x.delivery = Len(receipts[x.run])
        BY <1>2, <1>8, <2>1 DEF Claim, Claimable, Current, Doing
    <2>4. attempts'[x.run] = Append(attempts[x.run],
                                    [delivery |-> x.delivery, status |-> "executing"])
          /\ receipts' = receipts
        BY <1>8, <2>1, <2>3 DEF Claim, IInv, TypeOK
    <2>5. attempts[x.run] \in Seq(Attempt) /\ Len(attempts[x.run]) \in Nat
        BY <2>3 DEF IInv, TypeOK
    <2>6. Len(attempts'[x.run]) = Len(attempts[x.run]) + 1
        BY <2>4, <2>5
    <2>7. Len(receipts[x.run]) = Len(attempts[x.run]) + 1
        BY <1>8, <2>1, <2>3 DEF Claim, Claimable, Waiting, IInv, Ledger, Sound
    <2>8. Doing(x, receipts', attempts')
        BY <2>3, <2>4, <2>5, <2>6, <2>7 DEF Doing
    <2> QED
        BY <2>1, <2>2, <2>8
<1>9. CASE Acquire(w) \/ IgnoreClaim(w) \/ Finish(w)
    <2>1. worker[w].result \in Results /\ worker[w].at # "idle"
        BY <1>1, <1>9 DEF WorkerType, Acquire, IgnoreClaim, Finish
    <2>2. \E a \in {"claim", "release"} : worker' = [worker EXCEPT ![w] = [worker[w] EXCEPT !.at = a]]
        BY <1>9 DEF Acquire, IgnoreClaim, Finish
    <2>3. PICK a \in {"claim", "release"} :
            worker' = [worker EXCEPT ![w] = [worker[w] EXCEPT !.at = a]]
        BY <2>2
    <2>4. [worker[w] EXCEPT !.at = a] = [worker[w] EXCEPT !.at = a, !.result = worker[w].result]
        BY <1>1 DEF WorkerType
    <2> QED
        BY <1>5, <2>1, <2>3, <2>4
<1>10. CASE ImportFails(w) \/ Publish(w) \/ FencedOut(w)
    <2>1. \E e \in Results :
            worker' = [worker EXCEPT ![w] = [worker[w] EXCEPT !.at = "complete", !.result = e]]
        BY <1>10 DEF ImportFails, Publish, FencedOut, Results
    <2>2. worker[w].at = "import"
        BY <1>10 DEF ImportFails, Publish, FencedOut
    <2> QED
        BY <1>5, <2>1, <2>2
<1> QED
    BY <1>6, <1>7, <1>8, <1>9, <1>10 DEF Work

LEMMA WorkersStep ==
    ASSUME IInv, Steps, [Next]_vars
    PROVE  worker' \in [Workers -> WorkerType] /\ WorkersKnown'
<1>1. worker \in [Workers -> WorkerType]
    BY DEF IInv, TypeOK, WorkerType
<1>2. \A v \in Workers : Doing(worker[v], receipts, attempts)
    BY DEF IInv, WorkersKnown, Doing, Current
<1>3. \A v \in Workers : Doing(worker[v], receipts', attempts')
    BY <1>2, DoingStays
<1>4. CASE \E w \in Workers : Work(w) \/ Die(w)
    <2>1. PICK w \in Workers : Work(w) \/ Die(w)
        BY <1>4
    <2>2. PICK x \in WorkerType :
            worker' = [worker EXCEPT ![w] = x] /\ Doing(x, receipts', attempts')
        BY <2>1, WorkerMoves
    <2>3. worker' \in [Workers -> WorkerType]
        BY <1>1, <2>2
    <2>4. \A v \in Workers : Doing(worker'[v], receipts', attempts')
        BY <1>1, <1>3, <2>2
    <2> QED
        BY <2>3, <2>4 DEF WorkersKnown, Doing, Current
<1>5. CASE ~\E w \in Workers : Work(w) \/ Die(w)
    <2>1. worker' = worker
        BY <1>5 DEF Next, Admit, Create, Coalesce, Refuse, Due, GuardBreaks, Dispatch, Survey,
            Visit, Skip, Reconcile, MoveOn, DispatcherDies, rows, vars
    <2> QED
        BY <1>1, <1>3, <2>1 DEF WorkersKnown, Doing, Current
<1> QED
    BY <1>4, <1>5

SweepType == [at: {"idle", "next", "act", "release"}, found: SUBSET Found,
              run: Requests \cup {None}, delivery: Nat, orphan: BOOLEAN]

\* What the dispatcher may be doing, given the attempts.
Sweeping(x, ats) ==
    /\ \A f \in x.found : f.executing => f.delivery \in 1 .. Len(ats[f.run])
    /\ x.at \in {"act", "release"} => x.run \in Requests
    /\ x.at = "act" /\ x.orphan => x.delivery \in 1 .. Len(ats[x.run])

LEMMA SweepingStays ==
    ASSUME IInv, Steps, NEW x \in SweepType, Sweeping(x, attempts)
    PROVE  Sweeping(x, attempts')
<1>1. \A r \in Requests : Len(attempts'[r]) >= Len(attempts[r])
    BY RowsStep DEF Steps, Grown
<1>2. \A r \in Requests : Len(attempts[r]) \in Nat /\ Len(attempts'[r]) \in Nat
    <2>1. attempts \in [Requests -> Seq(Attempt)]
        BY DEF IInv, TypeOK
    <2>2. attempts' \in [Requests -> Seq(Attempt)]
        BY RowsStep DEF Steps
    <2> QED
        BY <2>1, <2>2
<1>3. \A f \in x.found : f.run \in Requests
    BY DEF SweepType, Found
<1> QED
    BY <1>1, <1>2, <1>3 DEF Sweeping

\* The dispatcher finds an attempt for every executing run, and keeps what it found.
LEMMA SweepMoves ==
    ASSUME IInv, Dispatch \/ DispatcherDies
    PROVE  sweep' \in SweepType /\ Sweeping(sweep', attempts)
<1>1. sweep \in SweepType /\ Sweeping(sweep, attempts)
    BY DEF IInv, TypeOK, SweepType, SweepKnown, Sweeping
<1>2. AtRest \in SweepType /\ Sweeping(AtRest, attempts)
    BY DEF AtRest, SweepType, Sweeping
<1>3. ASSUME NEW found \in SUBSET sweep.found, NEW a \in {"idle", "next"},
             sweep' = [AtRest EXCEPT !.at = a, !.found = found]
      PROVE  sweep' \in SweepType /\ Sweeping(sweep', attempts)
    BY <1>1, <1>3 DEF AtRest, SweepType, Sweeping
<1>4. \A found : Following(found) \in {"idle", "next"}
    BY DEF Following
<1>5. CASE Survey
    <2> DEFINE found == {[run |-> r, delivery |-> Current(r),
                          executing |-> run[r].state = "executing"] :
                              r \in {q \in Requests : Active(q)}}
    <2>1. sweep' = [sweep EXCEPT !.at = "next", !.found = found]
        BY <1>5 DEF Survey
    <2>2. \A r \in Requests : Current(r) \in Nat
        BY DEF IInv, TypeOK, Current
    <2>3. ASSUME NEW r \in Requests, run[r].state = "executing"
          PROVE  Current(r) \in 1 .. Len(attempts[r])
        BY <2>3 DEF IInv, Ledger, Sound, Current
    <2>4. ASSUME NEW f \in found
          PROVE  f \in Found /\ (f.executing => f.delivery \in 1 .. Len(attempts[f.run]))
        <3>1. PICK r \in Requests :
                f = [run |-> r, delivery |-> Current(r), executing |-> run[r].state = "executing"]
            OBVIOUS
        <3>2. CASE run[r].state = "executing"
            <4>1. f = [run |-> r, delivery |-> Current(r), executing |-> TRUE]
                BY <3>1, <3>2, Zenon
            <4> QED
                BY <2>2, <2>3, <3>2, <4>1 DEF Found
        <3>3. CASE run[r].state # "executing"
            <4>1. f = [run |-> r, delivery |-> Current(r), executing |-> FALSE]
                BY <3>1, <3>3, Zenon
            <4> QED
                BY <2>2, <4>1 DEF Found
        <3> QED
            BY <3>2, <3>3
    <2>5. found \in SUBSET Found /\ \A f \in found : f.executing => f.delivery \in 1 .. Len(attempts[f.run])
        BY <2>4
    <2> HIDE DEF found
    <2>6. /\ sweep'.at = "next" /\ sweep'.found = found /\ sweep'.run = sweep.run
          /\ sweep' \in SweepType
        BY <1>1, <2>1, <2>5 DEF SweepType
    <2> QED
        BY <2>5, <2>6 DEF Sweeping
<1>6. CASE \E r \in Requests : Visit(r)
    <2>1. PICK r \in Requests, f \in sweep.found :
            /\ f.run = r
            /\ sweep' = [at |-> "act", found |-> sweep.found \ {f}, run |-> r,
                         delivery |-> f.delivery, orphan |-> f.executing]
        BY <1>6 DEF Visit
    <2>2. f \in Found /\ sweep.found \in SUBSET Found
        BY <1>1, <2>1 DEF SweepType
    <2>3. sweep' \in SweepType
        BY <2>1, <2>2 DEF SweepType, Found
    <2> QED
        BY <1>1, <2>1, <2>3 DEF Sweeping
<1>7. CASE \E r \in Requests : Skip(r)
    BY <1>3, <1>4, <1>7 DEF Skip
<1>8. CASE Reconcile
    <2>1. sweep' = [sweep EXCEPT !.at = "release"]
        BY <1>8 DEF Reconcile
    <2>2. /\ sweep' \in SweepType /\ sweep'.at = "release"
          /\ sweep'.found = sweep.found /\ sweep'.run = sweep.run
        BY <1>1, <2>1 DEF SweepType
    <2>3. sweep.run \in Requests
        BY <1>1, <1>8 DEF Reconcile, Sweeping
    <2> QED
        BY <1>1, <2>2, <2>3 DEF Sweeping
<1>9. CASE MoveOn
    BY <1>3, <1>4, <1>9 DEF MoveOn
<1>10. CASE DispatcherDies
    BY <1>2, <1>10 DEF DispatcherDies
<1> QED
    BY <1>5, <1>6, <1>7, <1>8, <1>9, <1>10 DEF Dispatch

LEMMA SweepStep ==
    ASSUME IInv, Steps, [Next]_vars
    PROVE  sweep' \in SweepType /\ SweepKnown'
<1>1. sweep \in SweepType /\ Sweeping(sweep, attempts)
    BY DEF IInv, TypeOK, SweepType, SweepKnown, Sweeping
<1>2. CASE Dispatch \/ DispatcherDies
    <2>1. sweep' \in SweepType /\ Sweeping(sweep', attempts)
        BY <1>2, SweepMoves
    <2>2. ASSUME NEW x \in SweepType, Sweeping(x, attempts)
          PROVE  Sweeping(x, attempts')
        BY <2>2, SweepingStays
    <2> QED
        BY <2>1, <2>2 DEF SweepKnown, Sweeping
<1>3. CASE ~(Dispatch \/ DispatcherDies)
    <2>1. sweep' = sweep
        BY <1>3 DEF Next, Admit, Create, Coalesce, Refuse, Due, Work, Start, Acquire, Busy, Claim,
            IgnoreClaim, ImportFails, Publish, FencedOut, Finish, Release, Die, GuardBreaks, vars
    <2>2. Sweeping(sweep, attempts')
        BY <1>1, SweepingStays
    <2> QED
        BY <1>1, <2>1, <2>2 DEF SweepKnown, Sweeping
<1> QED
    BY <1>2, <1>3

-----------------------------------------------------------------------------
(* Theorems *)

LEMMA InitIInv == Init => IInv
<1> SUFFICES ASSUME Init PROVE IInv
    OBVIOUS
<1>1. TypeOK
    BY SynchronizationAssumption DEF Init, TypeOK, Run, ActiveStates, Attempt, Idle, AtRest, Results,
        Actors, Found
<1>2. ASSUME NEW r \in Requests PROVE Ledger(r) /\ ~Active(r) /\ run[r].state = "absent"
    BY SynchronizationAssumption DEF Init, Ledger, Sound, Run, ActiveStates, Active
<1>3. OneActiveRun /\ Answered
    BY <1>2 DEF OneActiveRun, Answered
<1>4. JobsKnown /\ WorkersKnown /\ SweepKnown
    BY DEF Init, JobsKnown, WorkersKnown, SweepKnown, Idle, AtRest
<1> QED
    BY <1>1, <1>2, <1>3, <1>4 DEF IInv

LEMMA NextIInv == IInv /\ [Next]_vars => IInv'
<1> SUFFICES ASSUME IInv, [Next]_vars PROVE IInv'
    OBVIOUS
<1>1. Steps
    BY NextSteps
<1>2. /\ run' \in [Requests -> Run]
      /\ receipts' \in [Requests -> Seq({"prepared", "confirmed", "revoked"})]
      /\ attempts' \in [Requests -> Seq(Attempt)]
      /\ published' \in [Requests -> Nat]
      /\ \A r \in Requests : Ledger(r)'
    BY <1>1, RowsStep DEF Steps
<1>3. \A r \in Requests : Len(attempts'[r]) <= AttemptLimit
    BY <1>2 DEF Ledger, Sound
<1>4. TypeOK'
    BY <1>1, <1>2, <1>3, AnswerStep, JobsKnownStep, GuardStep, WorkersStep, SweepStep
    DEF TypeOK, GuardType, WorkerType, SweepType
<1> QED
    BY <1>1, <1>2, <1>4, OneActiveStep, AnsweredStep, JobsKnownStep, WorkersStep, SweepStep DEF IInv

LEMMA Inductive == Spec => []IInv
BY InitIInv, NextIInv, PTL DEF Spec

\* Runs, deliveries, attempts, workers and the dispatcher keep their types, and
\* no run ever has more attempts than its policy allows (claim_locked).
THEOREM TypeCorrect == Spec => []TypeOK
<1>1. IInv => TypeOK
    BY DEF IInv
<1> QED
    BY <1>1, Inductive, PTL

\* FR-005: at most one run of an operation and season is active (store.ex, the
\* index synchronization_active_scope).
THEOREM ActiveRunsAreSingle == Spec => []OneActiveRun
<1>1. IInv => OneActiveRun
    BY DEF IInv
<1> QED
    BY <1>1, Inductive, PTL

\* Exactly the newest attempt of an executing run is open, under an unrevoked
\* receipt, and no ended attempt keeps a receipt it could publish under.
THEOREM OpenDeliveriesAreSingle == Spec => []OneOpenDelivery
<1>1. ASSUME IInv PROVE OneOpenDelivery
    <2> SUFFICES ASSUME NEW r \in Requests
                 PROVE
        /\ \A n \in DOMAIN attempts[r] :
             /\ attempts[r][n].delivery = n
             /\ attempts[r][n].status = "executing" <=>
                    run[r].state = "executing" /\ n = Len(attempts[r])
             /\ attempts[r][n].status \in {"failed", "interrupted"} <=> receipts[r][n] = "revoked"
             /\ attempts[r][n].status = "succeeded" => receipts[r][n] = "confirmed"
        /\ run[r].state = "executing" => Len(attempts[r]) = Current(r) /\ attempts[r] # <<>>
        /\ Waiting(r) => Current(r) = Len(attempts[r]) + 1
        BY DEF OneOpenDelivery
    <2>1. Sound(run[r], receipts[r], attempts[r], published[r])
        BY <1>1 DEF IInv, Ledger
    <2>2. DOMAIN attempts[r] = 1 .. Len(attempts[r])
        BY <2>1 DEF Sound
    <2>3. run[r].state = "executing" => attempts[r] # <<>>
        BY <2>1 DEF Sound
    <2> QED
        BY <2>1, <2>2, <2>3 DEF Sound, Current, Waiting
<1> QED
    BY <1>1, Inductive, PTL

\* Publication needs the run's open attempt: a worker that lost its guard and
\* whose attempt was recovered publishes nothing (DeliveryReceipt.lock!).
THEOREM OnlyOpenAttemptsPublish == Spec => PublishedByOpenAttempt
<1>1. ASSUME IInv, [Next]_vars, NEW r \in Requests, published'[r] # published[r]
      PROVE  run[r].state = "executing" /\ attempts[r][Len(attempts[r])].status = "executing"
    <2>1. PICK s \in Requests : Rewritten(s)
        BY <1>1, NextSteps DEF Steps, RowStep, Still
    <2>2. s = r
        BY <1>1, <2>1, OthersKept DEF IInv, Rewritten
    <2>3. Published(r)
        BY <1>1, <2>1, <2>2 DEF Rewritten, Created, Claimed, Succeeded, FailedForGood, FailedForNow,
            Failed, Waited
    <2>4. PICK d \in 1 .. Len(attempts[r]) : receipts[r][d] = "prepared"
        BY <2>3 DEF Published
    <2>5. Sound(run[r], receipts[r], attempts[r], published[r])
        BY <1>1 DEF IInv, Ledger
    <2>6. attempts[r][d].status = "executing"
        BY <2>4, <2>5, SoundPrepared
    <2> QED
        BY <2>5, <2>6, SoundOpen
<1>2. IInv /\ [Next]_vars =>
        [\A r \in Requests : published'[r] # published[r] =>
            /\ run[r].state = "executing"
            /\ attempts[r][Len(attempts[r])].status = "executing"]_vars
    BY <1>1
<1> QED
    BY <1>2, Inductive, PTL DEF Spec, PublishedByOpenAttempt

\* Ended runs and ended attempts never change, whoever comes late.
THEOREM HistoryIsImmutable == Spec => HistoryStays
<1>1. ASSUME IInv, [Next]_vars, NEW r \in Requests
      PROVE  /\ run[r].state \in {"succeeded", "failed"} =>
                    run'[r] = run[r] /\ attempts'[r] = attempts[r] /\ receipts'[r] = receipts[r]
             /\ \A n \in DOMAIN attempts[r] :
                    attempts[r][n].status # "executing" => attempts'[r][n] = attempts[r][n]
    <2>1. CASE ~Rewritten(r)
        <3>1. run'[r] = run[r] /\ attempts'[r] = attempts[r] /\ receipts'[r] = receipts[r]
            BY <1>1, <2>1, NextSteps, OthersKept DEF Steps, RowStep, Still, IInv, Rewritten
        <3> QED
            BY <3>1
    <2>2. CASE Rewritten(r)
        <3>1. Sound(run[r], receipts[r], attempts[r], published[r])
            BY <1>1 DEF IInv, Ledger
        <3>2. attempts[r] \in Seq(Attempt) /\ DOMAIN attempts[r] = 1 .. Len(attempts[r])
            BY <3>1 DEF Sound
        <3>3. CASE Created(r)
            BY <3>3 DEF Created
        <3>4. CASE Claimed(r)
            BY <3>2, <3>4 DEF Claimed, Waiting
        <3>5. CASE Published(r)
            <4>1. PICK d \in 1 .. Len(attempts[r]) : receipts[r][d] = "prepared"
                BY <3>5 DEF Published
            <4>2. run[r].state = "executing"
                BY <3>1, <4>1, SoundPrepared, SoundOpen
            <4> QED
                BY <3>5, <4>2 DEF Published
        <3>6. CASE Succeeded(r) \/ FailedForGood(r) \/ FailedForNow(r)
            <4>1. PICK d \in 1 .. Len(attempts[r]), e \in {"succeeded", "failed", "interrupted"} :
                    /\ attempts[r][d].status = "executing"
                    /\ attempts'[r] = EndedWith(attempts[r], d, e)
                BY <3>6 DEF Succeeded, FailedForGood, FailedForNow, Failed, EndedWith
            <4>2. run[r].state = "executing"
                BY <3>1, <4>1, SoundOpen
            <4> QED
                BY <3>2, <4>1, <4>2 DEF EndedWith
        <3>7. CASE Waited(r)
            BY <3>1, <3>7 DEF Waited, Sound
        <3> QED
            BY <2>2, <3>3, <3>4, <3>5, <3>6, <3>7 DEF Rewritten
    <2> QED
        BY <2>1, <2>2
<1>2. IInv /\ [Next]_vars =>
        [\A r \in Requests :
            /\ run[r].state \in {"succeeded", "failed"} =>
                   run'[r] = run[r] /\ attempts'[r] = attempts[r] /\ receipts'[r] = receipts[r]
            /\ \A n \in DOMAIN attempts[r] :
                   attempts[r][n].status # "executing" => attempts'[r][n] = attempts[r][n]]_vars
    BY <1>1
<1> QED
    BY <1>2, Inductive, PTL DEF Spec, HistoryStays

\* Workers and dispatcher together keep the promise of ImportRuns: at most one
\* publication, and success exactly for the runs that published.
THEOREM RunsImplemented == Spec => RunsSpec
<1> USE DEF Status
<1>1. Init => Runs!RunsInit
    <2> SUFFICES ASSUME Init PROVE Runs!RunsInit
        OBVIOUS
    <2>1. \A r \in Requests : run[r].state = "absent" /\ ~Active(r)
        BY DEF Init, Active, ActiveStates
    <2> QED
        BY <2>1 DEF Init, Runs!RunsInit
<1>2. ASSUME IInv, [Next]_vars
      PROVE  [Runs!RunsNext]_(Runs!runsVars)
    <2> USE DEF Runs!runsVars
    <2>1. CASE Still
        BY <2>1 DEF Still, Active
    <2>2. CASE \E r \in Requests : Rewritten(r)
        <3>1. PICK r \in Requests : Rewritten(r)
            BY <2>2
        <3>2. Sound(run[r], receipts[r], attempts[r], published[r])
            BY <1>2 DEF IInv, Ledger
        <3>3. \A s \in Requests : s # r => Status'[s] = Status[s] /\ published'[s] = published[s]
            BY <1>2, <3>1, OthersKept DEF IInv, Rewritten, Active
        <3>4. published \in [Requests -> Nat] /\ published' \in [Requests -> Nat]
            BY <1>2, <3>1, RowsStep DEF IInv, TypeOK, RowStep
        <3>5. ASSUME NEW s, Status'[r] = s
              PROVE  Status' = [Status EXCEPT ![r] = s]
            BY <3>3, <3>5
        <3>6. ASSUME Status'[r] = Status[r], published'[r] = published[r]
              PROVE  UNCHANGED Runs!runsVars
            BY <3>3, <3>4, <3>6
        <3>7. CASE Created(r)
            <4>1. Status[r] = "absent" /\ Status'[r] = "active" /\ published' = published
                BY <3>7 DEF Created, Active, ActiveStates
            <4> QED
                BY <3>5, <4>1 DEF Runs!RunsNext, Runs!AcceptRun
        <3>8. CASE Claimed(r)
            <4>1. Status[r] = "active" /\ Status'[r] = "active" /\ published' = published
                BY <3>8 DEF Claimed, Waiting, Active, ActiveStates
            <4> QED
                BY <3>6, <4>1
        <3>9. CASE Published(r)
            <4>1. PICK d \in 1 .. Len(attempts[r]) : receipts[r][d] = "prepared"
                BY <3>9 DEF Published
            <4>2. attempts[r][d].status = "executing"
                BY <3>2, <4>1, SoundPrepared
            <4>3. run[r].state = "executing" /\ published[r] = 0
                <5>1. run[r].state = "executing" /\ published[r] # 1
                    BY <3>2, <4>1, <4>2, SoundOpen
                <5>2. published[r] \in {0, 1}
                    BY <3>2 DEF Sound
                <5> QED
                    BY <5>1, <5>2
            <4>4. Status[r] = "active" /\ Status' = Status
                BY <3>9, <4>3 DEF Published, Active, ActiveStates
            <4>5. published' = [published EXCEPT ![r] = 1]
                BY <3>3, <3>4, <3>9, <4>3 DEF Published
            <4> QED
                BY <4>3, <4>4, <4>5 DEF Runs!RunsNext, Runs!PublishRun
        <3>10. CASE Succeeded(r)
            <4>1. PICK d \in 1 .. Len(attempts[r]) :
                    attempts[r][d].status = "executing" /\ receipts[r][d] = "confirmed"
                BY <3>10 DEF Succeeded
            <4>2. run[r].state = "executing" /\ published[r] = 1
                BY <3>2, <4>1, SoundOpen
            <4>3. Status[r] = "active" /\ Status'[r] = "succeeded" /\ published' = published
                BY <3>10, <4>2 DEF Succeeded, Active, ActiveStates
            <4> QED
                BY <3>5, <4>2, <4>3 DEF Runs!RunsNext, Runs!EndRun
        <3>11. CASE FailedForGood(r) \/ FailedForNow(r)
            <4>1. PICK d \in 1 .. Len(attempts[r]) :
                    attempts[r][d].status = "executing" /\ receipts[r][d] # "confirmed"
                BY <3>11 DEF FailedForGood, FailedForNow, Failed
            <4>2. run[r].state = "executing" /\ published[r] # 1
                BY <3>2, <4>1, SoundOpen
            <4>3. Status[r] = "active" /\ published' = published
                BY <3>11, <4>2 DEF FailedForGood, FailedForNow, Failed, Active, ActiveStates
            <4>4. CASE FailedForGood(r)
                <5>1. Status'[r] = "failed"
                    BY <4>4 DEF FailedForGood, Active, ActiveStates
                <5> QED
                    BY <3>5, <4>2, <4>3, <5>1 DEF Runs!RunsNext, Runs!EndRun
            <4>5. CASE FailedForNow(r)
                <5>1. Status'[r] = "active"
                    BY <4>5 DEF FailedForNow, Active, ActiveStates
                <5> QED
                    BY <3>6, <4>3, <5>1
            <4> QED
                BY <3>11, <4>4, <4>5
        <3>12. CASE Waited(r)
            <4>1. run'[r].state = run[r].state /\ published' = published
                BY <3>2, <3>12 DEF Waited, Sound, Run
            <4> QED
                BY <3>6, <4>1 DEF Active
        <3> QED
            BY <3>1, <3>7, <3>8, <3>9, <3>10, <3>11, <3>12 DEF Rewritten
    <2> QED
        BY <1>2, <2>1, <2>2, NextSteps DEF Steps, RowStep
<1>3. IInv /\ [Next]_vars => [Runs!RunsNext]_(Runs!runsVars)
    BY <1>2
<1> QED
    BY <1>1, <1>3, Inductive, PTL DEF Spec, RunsSpec, Runs!RunsSpec
=============================================================================
