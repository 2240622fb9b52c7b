------------------------------- MODULE Stores -------------------------------
(***************************************************************************)
(* The two implementations of the store, PostgreSQL and memory, answering  *)
(* the same calls: claims, completions, cancellations and expiry of three  *)
(* runs, the events, secrets and approval of one, the steps of two         *)
(* (StoreAgreement), the deployments of an environment, with and without   *)
(* confirmation (DeploymentAgreement); and the row locks of the            *)
(* transactions that meet in PostgreSQL (LockOrder).  One of them moves,   *)
(* because steps of two that share no variable commute.                    *)
(***************************************************************************)
EXTENDS LockOrder

(* The first run carries a tag only the first runner has. *)
TagsOf == [w \in {"w1", "w2"} |-> IF w = "w1" THEN {"gpu"} ELSE {}]

CapabilitiesOf == [w \in {"w1", "w2"} |-> {"shell", "deploy", "build"}]

(* The second deployment may be rolled back. *)
RollbackOf == [x \in {"d1", "d2", "c2"} |-> IF x = "d2" THEN "c2" ELSE "none"]

ContentOf == [r \in {"r1", "r2"} |-> IF r = "r1" THEN "i1" ELSE "i2"]

(* Every kind of transaction, among those whose rows it can want. *)
Meetings ==
    {<<"transition", "append", "artifact", "cancel">>,
     <<"claim", "claim", "failPre", "cancel">>,
     <<"complete", "cancelRun", "retention", "append">>,
     <<"expire", "fail", "resolve", "renew">>}

VARIABLES
    part,   \* the component that moves
    clP, clM, clTold, clFaults, clSteps,
    evP, evM, evTold, evFaults, evSteps,
    spP, spM, spTold, spFaults, spSteps,
    deD, deM, deDone, deEligible, deFaults,
    cfD, cfM, cfDone, cfEligible, cfFaults

Claims == INSTANCE StoreAgreement WITH
    Runners <- {"w1", "w2"}, Runs <- {1, 2, 3}, RunnerTags <- TagsOf,
    Capabilities <- CapabilitiesOf, RunTags <- <<{"gpu"}, {}, {}>>,
    RunType <- <<"shell", "deploy", "build">>, Secrets <- <<{"b1"}, {"b1"}, {"b1"}>>,
    Deploys <- {2}, Builds <- {3}, BatchSize <- 1, MaxBatches <- 1, ExpiryBatch <- 2,
    Approvals <- {}, Acts <- {"late"}, Keys <- {"k1"}, MaxFaults <- 1, MaxSteps <- 0,
    MaxLogs <- 4, p <- clP, m <- clM, told <- clTold, faults <- clFaults, steps <- clSteps

Events == INSTANCE StoreAgreement WITH
    Runners <- {"w1"}, Runs <- {1}, RunnerTags <- TagsOf, Capabilities <- CapabilitiesOf,
    RunTags <- <<{"gpu"}>>, RunType <- <<"shell">>, Secrets <- <<{"b1"}>>, Deploys <- {},
    Builds <- {}, BatchSize <- 1, MaxBatches <- 1, ExpiryBatch <- 2, Approvals <- {1},
    Acts <- {"late", "cancel", "events", "secrets", "reject"}, Keys <- {"k1", "k2"},
    MaxFaults <- 1, MaxSteps <- 0, MaxLogs <- 2, p <- evP, m <- evM, told <- evTold,
    faults <- evFaults, steps <- evSteps

Steps == INSTANCE StoreAgreement WITH
    Runners <- {"w1", "w2"}, Runs <- {1, 2}, RunnerTags <- TagsOf,
    Capabilities <- CapabilitiesOf, RunTags <- <<{"gpu"}, {}>>,
    RunType <- <<"shell", "deploy">>, Secrets <- <<{"b1"}, {"b1"}>>, Deploys <- {2},
    Builds <- {}, BatchSize <- 1, MaxBatches <- 1, ExpiryBatch <- 2, Approvals <- {},
    Acts <- {"late", "silent"}, Keys <- {"k1"}, MaxFaults <- 1, MaxSteps <- 1, MaxLogs <- 4,
    p <- spP, m <- spM, told <- spTold, faults <- spFaults, steps <- spSteps

Deploys == INSTANCE DeploymentAgreement WITH
    Roots <- {"d1", "d2"}, ChildOf <- RollbackOf, Revisions <- {"r1", "r2"},
    Observed <- ContentOf, Confirm <- FALSE, Safe <- TRUE, MaxAttempts <- 1,
    RequestIds <- {"q1"}, MaxFaults <- 0,
    Acts <- {"service", "environment", "revision", "create", "claim", "expire", "resolve", "transition", "cancel", "fail"},
    d <- deD, m <- deM, done <- deDone, eligible <- deEligible, faults <- deFaults

Confirmed == INSTANCE DeploymentAgreement WITH
    Roots <- {"d1"}, ChildOf <- RollbackOf, Revisions <- {"r1"}, Observed <- ContentOf,
    Confirm <- TRUE, Safe <- FALSE, MaxAttempts <- 2, RequestIds <- {"q1", "q2"},
    MaxFaults <- 2,
    Acts <- {"service", "environment", "revision", "create", "confirm", "refuse", "claim", "expire", "resolve", "transition", "cancel", "fail"},
    d <- cfD, m <- cfM, done <- cfDone, eligible <- cfEligible, faults <- cfFaults

clVars ==
    <<clP, clM, clTold, clFaults, clSteps>>
evVars ==
    <<evP, evM, evTold, evFaults, evSteps>>
spVars ==
    <<spP, spM, spTold, spFaults, spSteps>>
deVars ==
    <<deD, deM, deDone, deEligible, deFaults>>
cfVars ==
    <<cfD, cfM, cfDone, cfEligible, cfFaults>>
allVars == <<part, clVars, evVars, spVars, deVars, cfVars, vars>>

AllInit ==
    /\ part \in {"claims", "events", "steps", "deploys", "confirmed", "locks"}
    /\ Claims!Init /\ Events!Init /\ Steps!Init /\ Deploys!Init /\ Confirmed!Init /\ Init
    \* a component that rests does so in one of its initial states
    /\ part # "locks" => kindOf = CHOOSE s \in Mixes : TRUE
    /\ part # "locks" => st.run = "running"

ClaimsMoves ==
    part = "claims" /\ Claims!Next /\ UNCHANGED <<part, evVars, spVars, deVars, cfVars, vars>>
EventsMoves ==
    part = "events" /\ Events!Next /\ UNCHANGED <<part, clVars, spVars, deVars, cfVars, vars>>
StepsMoves ==
    part = "steps" /\ Steps!Next /\ UNCHANGED <<part, clVars, evVars, deVars, cfVars, vars>>
DeploysMoves ==
    part = "deploys" /\ Deploys!Next /\ UNCHANGED <<part, clVars, evVars, spVars, cfVars, vars>>
ConfirmedMoves ==
    part = "confirmed" /\ Confirmed!Next /\ UNCHANGED <<part, clVars, evVars, spVars, deVars, vars>>
LocksMoves ==
    part = "locks" /\ Next /\ UNCHANGED <<part, clVars, evVars, spVars, deVars, cfVars>>

AllNext == ClaimsMoves \/ EventsMoves \/ StepsMoves \/ DeploysMoves \/ ConfirmedMoves \/ LocksMoves

AllSpec == AllInit /\ [][AllNext]_allVars

-----------------------------------------------------------------------------
(* Both stores grant and refuse every call for the same reason, and keep   *)
(* the same rows: the same runs are claimed by the same runners, and       *)
(* completions, cancellations, approvals, events, secret accesses, reports *)
(* and failures are answered and recorded alike, with the same leases,     *)
(* attempts, logs, queues, deployments and revisions (store.Store,         *)
(* postgres.go and memory.go).  In both, a report accepted once is         *)
(* acknowledged and changes nothing when repeated, a canceled deployment   *)
(* never succeeds, and what is applied was attested by a runner.           *)
StoresAgree ==
    /\ part = "claims" => Claims!STypeOK /\ Claims!SameAnswers /\ Claims!SameRows
    /\ part = "events" => Events!STypeOK /\ Events!SameAnswers /\ Events!SameRows
    /\ part = "steps" => Steps!STypeOK /\ Steps!SameAnswers /\ Steps!SameRows
    /\ part = "deploys" =>
           /\ Deploys!DTypeOK /\ Deploys!SameAnswers /\ Deploys!SameRows
           /\ Deploys!RepeatIsAnswered /\ Deploys!CanceledNeverSucceeds /\ Deploys!AppliedIsAttested
    /\ part = "confirmed" =>
           /\ Confirmed!DTypeOK /\ Confirmed!SameAnswers /\ Confirmed!SameRows
           /\ Confirmed!RepeatIsAnswered
=============================================================================
