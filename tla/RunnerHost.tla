----------------------------- MODULE RunnerHost -----------------------------
(***************************************************************************)
(* A runner's host: the program that executes one attempt after another    *)
(* (RunnerAttempts), the steps of a workflow run, the enrollment and       *)
(* credential of each runner, and the Compose deployments it carries out.  *)
(* Each is a module over variables of its own; here they stand side by     *)
(* side and one of them moves, because steps of two that share no variable *)
(* commute.                                                                *)
(***************************************************************************)
EXTENDS RunnerAttempts

VARIABLES
    part,   \* the component that moves
    wfDependsOn, wfRunStatus, wfState, wfAttempt, wfLease, wfClaim, wfPlan, wfCompletion,
    fleetD, fleetMem, fleetHost, fleetWithdrawn, fleetSeen, fleetFaults,
    cpStatus, cpLease, cpSafe, cpResolved, cpReceipt, cpPc, cpWork, cpSeen, cpExpect, cpOuter,
    cpStopped, cpEnded, cpHost, cpFile, cpUp, cpJournal, cpTouched, cpFaults

Workflow == INSTANCE WorkflowRuns WITH
    Size <- 2, MaxAttempt <- 3, LateHandler <- TRUE, dependsOn <- wfDependsOn,
    runStatus <- wfRunStatus, state <- wfState, attempt <- wfAttempt, lease <- wfLease,
    claim <- wfClaim, plan <- wfPlan, completion <- wfCompletion

Fleet == INSTANCE RunnerFleet WITH
    Hosts <- {"h1", "h2"}, Rotated <- {"r1"},
    CapabilitySets <- {{"shell"}, {"compose", "shell"}},
    Acts <- {"crash", "lost", "expire", "age", "rotate", "revoke", "register"},
    CrashAt <- {"prepare", "consume", "remove", "unlink", "identity", "loop", "beating", "claiming"},
    MaxFaults <- 2, d <- fleetD, mem <- fleetMem, host <- fleetHost,
    withdrawn <- fleetWithdrawn, seen <- fleetSeen, faults <- fleetFaults

Compose == INSTANCE ComposeClaims WITH
    Applies <- {"old", "new"}, Healthy <- {"old", "new"}, MaxFaults <- 3, Cancels <- TRUE,
    Orphans <- FALSE, status <- cpStatus, lease <- cpLease, safe <- cpSafe,
    resolved <- cpResolved, receipt <- cpReceipt, pc <- cpPc, work <- cpWork, seen <- cpSeen,
    expect <- cpExpect, outer <- cpOuter, stopped <- cpStopped, ended <- cpEnded,
    host <- cpHost, file <- cpFile, up <- cpUp, journal <- cpJournal, touched <- cpTouched,
    faults <- cpFaults

wfVars ==
    <<wfDependsOn, wfRunStatus, wfState, wfAttempt, wfLease, wfClaim, wfPlan, wfCompletion>>
fleetVars ==
    <<fleetD, fleetMem, fleetHost, fleetWithdrawn, fleetSeen, fleetFaults>>
cpVars ==
    <<cpStatus, cpLease, cpSafe, cpResolved, cpReceipt, cpPc, cpWork, cpSeen, cpExpect, cpOuter,
      cpStopped, cpEnded, cpHost, cpFile, cpUp, cpJournal, cpTouched, cpFaults>>
allVars == <<part, vars, wfVars, fleetVars, cpVars>>

AllInit ==
    /\ part \in {"attempts", "workflow", "fleet", "compose"}
    /\ Init /\ Workflow!Init /\ Fleet!Init /\ Compose!Init
    \* a component that rests does so in one of its initial states
    /\ part # "workflow" => wfDependsOn = CHOOSE g \in Workflow!Accepted : TRUE
    /\ part # "compose" => cpSafe /\ cpFile = "none"

AttemptsMoves ==
    part = "attempts" /\ Next /\ UNCHANGED <<part, wfVars, fleetVars, cpVars>>
WorkflowMoves ==
    part = "workflow" /\ Workflow!Next /\ UNCHANGED <<part, vars, fleetVars, cpVars>>
FleetMoves ==
    part = "fleet" /\ Fleet!Next /\ UNCHANGED <<part, vars, wfVars, cpVars>>
ComposeMoves ==
    part = "compose" /\ Compose!Next /\ UNCHANGED <<part, vars, wfVars, fleetVars>>

AllNext == AttemptsMoves \/ WorkflowMoves \/ FleetMoves \/ ComposeMoves

AllSpec == AllInit /\ [][AllNext]_allVars

-----------------------------------------------------------------------------
(* A claim hands the runner a step of the accepted plan, a step succeeds   *)
(* only through its completion, a queued run has work left, and what the   *)
(* API accepted has an order in which it can run (ClaimRun,                *)
(* CompleteLeaseRequest and the validation of the app service).            *)
WorkflowStepsAreAccounted ==
    part = "workflow" =>
        /\ Workflow!WTypeOK /\ Workflow!ClaimsHandOutSteps /\ Workflow!SuccessesAreCompletions
        /\ Workflow!QueuedHasWork /\ Workflow!AcceptedHasOrder

(* An enrollment makes one runner however often it is repeated, a runner   *)
(* has its credential on disk before its token is used up, a withdrawn     *)
(* token stays out and both stores hold the same fleet; a deployment that  *)
(* is dropped as never applied has left the host alone, and a cancellation *)
(* is never overruled by a later report (prepareRunnerEnrollmentFiles,     *)
(* Reconcile).                                                             *)
HostStateIsAccounted ==
    /\ part = "fleet" =>
           /\ Fleet!FTypeOK /\ Fleet!OneRunnerPerEnrollment /\ Fleet!CredentialOutlivesToken
           /\ Fleet!WithdrawnStaysOut /\ Fleet!SameFleet
    /\ part = "compose" =>
           Compose!CTypeOK /\ Compose!DiscardedLeftHostAlone /\ Compose!CancellationWins

(* A success is reported for a revision whose containers run, and a runner *)
(* is found stale by a claim alone (executeComposeDeployment, ClaimRun).   *)
HostReportsAreTrue == Compose!ReportedRevisionRuns /\ Fleet!StaleByClaim

(* Bound of the search: how many of the runner's reports are on the way    *)
(* or may still be repeated at once.                                       *)
FewReportsInFlight == Cardinality(eventReq) + Cardinality(doneReq) <= 2
=============================================================================
