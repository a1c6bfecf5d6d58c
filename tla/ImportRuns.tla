----------------------------- MODULE ImportRuns -----------------------------
(***************************************************************************)
(* What synchronization promises about a run, whatever workers die on the  *)
(* way: its import is published at most once, a run that published ends    *)
(* as succeeded and no other does, and an ended run stays as it is.        *)
(***************************************************************************)
EXTENDS Naturals

CONSTANT Requests

VARIABLES
    status,      \* of the run a request created, if it created one
    published    \* how often its import was published

runsVars == <<status, published>>

RunsInit ==
    /\ status = [r \in Requests |-> "absent"]
    /\ published = [r \in Requests |-> 0]

AcceptRun(r) ==
    /\ status[r] = "absent"
    /\ status' = [status EXCEPT ![r] = "active"]
    /\ UNCHANGED published

PublishRun(r) ==
    /\ status[r] = "active"
    /\ published[r] = 0
    /\ published' = [published EXCEPT ![r] = 1]
    /\ UNCHANGED status

EndRun(r) ==
    /\ status[r] = "active"
    /\ status' = [status EXCEPT ![r] =
                     IF published[r] = 1 THEN "succeeded" ELSE "failed"]
    /\ UNCHANGED published

RunsNext == \E r \in Requests : AcceptRun(r) \/ PublishRun(r) \/ EndRun(r)

RunsSpec == RunsInit /\ [][RunsNext]_runsVars
=============================================================================
