--------------------------- MODULE BuildPipeline ----------------------------
(***************************************************************************)
(* A hosting build from its request to its image: the rows and the         *)
(* runner's execution (BuildExecution), its log (BuildLogs), the delivery  *)
(* of material to it (BuildMaterial), the checkout of its source           *)
(* (SourceCheckout) and the engine that builds (BuildEngine).  One of them *)
(* moves, because steps of two that share no variable commute.             *)
(***************************************************************************)
EXTENDS BuildLogs

VARIABLES
    part,   \* the component that moves
    exD, exRefused, exPc, exBld, exKnown, exJournal, exDisk, exHost, exLate, exFaults, exChanges,
    mtNow, mtExpiry, mtLost, mtBuild, mtAudit, mtReply, mtHeld, mtRedacted, mtTries,
    enPc, enOf, enFailed, enLock, enMarker, enDir, enMaterial, enOwned, enLoaded, enReceipt,
    enContent, enOutcome, enCalls, enFaults,
    coAt, coAttempt, coTree, coFiles, coCred, coOpen, coIntime, coMonitor, coCanceled,
    coAccepted, coResult, coFaults

Exec == INSTANCE BuildExecution WITH
    Builds <- {"b1"}, Kind <- "service_account", Private <- TRUE, MaxRev <- 3,
    SettlesSource <- TRUE, MaxChanges <- 2, MaxFaults <- 1,
    Changes <- {"cancel", "source", "edit", "grant", "revoke", "withdraw", "hold", "daemon", "record", "deploy"},
    d <- exD, refused <- exRefused, pc <- exPc, bld <- exBld, known <- exKnown,
    journal <- exJournal, disk <- exDisk, host <- exHost, late <- exLate, faults <- exFaults,
    changes <- exChanges

Material == INSTANCE BuildMaterial WITH
    Kinds <- {"source", "secrets", "registry"}, Window <- 2, LeaseTime <- 3, MaxTime <- 6,
    now <- mtNow, expiry <- mtExpiry, lost <- mtLost, build <- mtBuild, audit <- mtAudit,
    reply <- mtReply, held <- mtHeld, redacted <- mtRedacted, tries <- mtTries

Engine == INSTANCE BuildEngine WITH
    Procs <- {"p1", "p2"}, Builds <- {"b1", "b2"}, MaxCalls <- 3, MaxFaults <- 1, pc <- enPc,
    of <- enOf, failed <- enFailed, lock <- enLock, marker <- enMarker, dir <- enDir,
    material <- enMaterial, owned <- enOwned, loaded <- enLoaded, receipt <- enReceipt,
    content <- enContent, outcome <- enOutcome, calls <- enCalls, faults <- enFaults

Checkout == INSTANCE SourceCheckout WITH
    Private <- TRUE, MaxAttempts <- 2, MaxFaults <- 2, at <- coAt, attempt <- coAttempt,
    tree <- coTree, files <- coFiles, cred <- coCred, open <- coOpen, intime <- coIntime,
    monitor <- coMonitor, canceled <- coCanceled, accepted <- coAccepted, result <- coResult,
    faults <- coFaults

exVars ==
    <<exD, exRefused, exPc, exBld, exKnown, exJournal, exDisk, exHost, exLate, exFaults, exChanges>>
mtVars ==
    <<mtNow, mtExpiry, mtLost, mtBuild, mtAudit, mtReply, mtHeld, mtRedacted, mtTries>>
enVars ==
    <<enPc, enOf, enFailed, enLock, enMarker, enDir, enMaterial, enOwned, enLoaded, enReceipt,
      enContent, enOutcome, enCalls, enFaults>>
coVars ==
    <<coAt, coAttempt, coTree, coFiles, coCred, coOpen, coIntime, coMonitor, coCanceled,
      coAccepted, coResult, coFaults>>
allVars == <<part, exVars, vars, mtVars, enVars, coVars>>

AllInit ==
    /\ part \in {"execution", "logs", "material", "engine", "checkout"}
    /\ Exec!Init /\ Init /\ Material!Init /\ Engine!Init /\ Checkout!Init

ExecMoves ==
    part = "execution" /\ Exec!Next /\ UNCHANGED <<part, vars, mtVars, enVars, coVars>>
LogsMoves ==
    part = "logs" /\ Next /\ UNCHANGED <<part, exVars, mtVars, enVars, coVars>>
MaterialMoves ==
    part = "material" /\ Material!Next /\ UNCHANGED <<part, exVars, vars, enVars, coVars>>
EngineMoves ==
    part = "engine" /\ Engine!Next /\ UNCHANGED <<part, exVars, vars, mtVars, coVars>>
CheckoutMoves ==
    part = "checkout" /\ Checkout!Next /\ UNCHANGED <<part, exVars, vars, mtVars, enVars>>

AllNext == ExecMoves \/ LogsMoves \/ MaterialMoves \/ EngineMoves \/ CheckoutMoves

AllSpec == AllInit /\ [][AllNext]_allVars

-----------------------------------------------------------------------------
(* What a build leaves on its host has its intent in the runner's journal  *)
(* through every crash, a committed completion means that the host was     *)
(* clean, no build starts where an earlier one may have left something,    *)
(* and a build, its task and its lease end together (BuildExecutor.Execute *)
(* and Reconcile, CompleteHostingBuild, ExpireHostingBuildForRun).         *)
BuildEffectsAreJournaled ==
    part = "execution" =>
        /\ Exec!BTypeOK /\ Exec!EffectsAreJournaled /\ Exec!BegunIsRemembered
        /\ Exec!CompletedIsClean /\ Exec!TaskEndsWithBuild /\ Exec!OneUncertainBuild

(* A build succeeds only in a transaction in which its creator, its        *)
(* generations, its placement, its grant and its lease are current, never  *)
(* after it was asked to cancel; receipts are final; and what a deployment *)
(* applies is the result of the resource's present configuration.          *)
SuccessIsCurrent ==
    /\ Exec!SuccessIsCurrent /\ Exec!CanceledNeverSucceeds
    /\ Exec!ReceiptsAreFinal /\ Exec!AppliedIsCurrent

(* Every resource the engine made is named by its durable marker, two      *)
(* builds never share the host, a success left nothing behind; material is *)
(* accepted only in its window and under its lease; and a tree is used     *)
(* only when what fetched it is gone.                                      *)
HostIsLeftClean ==
    /\ part = "engine" =>
           /\ Engine!ETypeOK /\ Engine!OwnedIsMarked /\ Engine!OneBuildOnHost
           /\ Engine!SuccessIsComplete /\ Engine!OthersAreScrubbed
    /\ part = "material" =>
           /\ Material!MTypeOK /\ Material!NothingAfterTheWindow
           /\ Material!AcceptedUnderLease /\ Material!EngineIsRedacted
    /\ part = "checkout" =>
           /\ Checkout!CTypeOK /\ Checkout!UseIsRetired /\ Checkout!RetiredInTime
           /\ Checkout!ReturnIsClean /\ Checkout!BudgetIsNeverIgnored
=============================================================================
