------------------------------ MODULE Progress ------------------------------
(***************************************************************************)
(* What must happen in the end, for every component that owes something:   *)
(* each stands here in a small instance, and one of them moves, because    *)
(* steps of two that share no variable commute.  A component starts in its *)
(* first state and may stop only where it owes nothing.                    *)
(***************************************************************************)
EXTENDS Naturals, Sequences

AB == {"a", "b"}
Name == <<"a", "b", "v">>
Number == [a |-> 1, b |-> 2]

EveryMinute == {[slots |-> 0..9, fixed |-> FALSE]}

(* Reports of the runner among the transactions that may wait for them. *)
Meetings == {<<"transition", "append", "cancel">>, <<"fail", "append", "artifact">>}

VARIABLES
    part,   \* the component that moves
    lsRunStatus, lsRunRunner, lsNextAttempt, lsApproval, lsLeaseStatus, lsLeaseRunner, lsLeft,
    lsCompletionKey, lsDead,
    raLease, raLeft, raMine, raOpen, raStored, raCompletion, raEventReq, raDoneReq, raPhase,
    raAtt, raDeadline, raAnswer, raCanceled, raFatal, raLate, raProc, raGrace, raMemory,
    raDisk, raEmitted, raEarlier, raReplayed,
    hoState, hoBind, hoPort, hoTarget, hoRelease, hoPrev, hoAdmitted, hoResult, hoRequested,
    hoRun, hoLease, hoTries, hoHold, hoHealthy, hoFirstPort, hoClaim, hoSlot, hoLedger,
    hoRunning, hoReferenced, hoGranted, hoRunnerActive, hoRestoreHeld, hoHandler, hoTouching,
    ccStatus, ccLease, ccSafe, ccResolved, ccReceipt, ccPc, ccWork, ccSeen, ccExpect, ccOuter,
    ccStopped, ccEnded, ccHost, ccFile, ccUp, ccJournal, ccTouched, ccFaults,
    flD, flMem, flHost, flWithdrawn, flSeen, flFaults,
    lkKindOf, lkAt, lkQueue, lkSeen, lkSt, lkRepeats,
    bdD, bdRefused, bdPc, bdBld, bdKnown, bdJournal, bdDisk, bdHost, bdLate, bdFaults, bdChanges,
    blBuild, blState, blRows, blReceipts, blJournal, blPc, blLate, blViewer, blPolicy, blFaults,
    puD, puAuthority, puHead, puHooks, puIngress, puWork, puSent, puChecks, puFaults,
    auD, auAuthority, auWake, auTodo, auBusy,
    pxD, pxPc, pxG, pxOut, pxJournal, pxEng, pxPlan, pxFaults,
    bkOp, bkChild, bkJob, bkTask, bkQueue, bkLease, bkReceipts, bkOwner, bkPc, bkCur,
    bkJournal, bkOutcome, bkGuest, bkHost, bkFaults, bkChanges,
    scClock, scHist, scCursor, scOrder, scAnswered, scOcc, scOp, scRetired, scJob, scOwner,
    scSource, scCtl, scFaults, scChanges,
    trTarget, trKeys, trRevoked, trOwner, trBackup, trPinned, trRestore, trXfer, trJob,
    trLease, trReceipts, trCopies, trPc, trCur, trSent, trOwn, trOutcome, trJournal, trObject,
    trCreator, trInflight, trStaged, trFetched, trLate, trFaults, trChanges,
    adWork, adAvail, adCreated, adSuperseded, adFile, adReaders, adUpload, adPolicy, adOwner,
    adPreview, adExec, adPub, adPubRev, adRec, adChanges, adLosses,
    baExec, baItem, baReserved, baAvail, baTask, baLease, baAttempt, baResumes, baReceipts,
    baLost, baPc, baOp, baCompleted, baUnknown, baToProbe, baToDelete, baJournal, baReplay,
    baObj, baInflight, baFaults, baChanges,
    saD, saJ, saE, saX, saAsk, saFaults

Leases == INSTANCE RunLeases WITH
    Run <- {"a", "b"}, TypedRun <- {"a", "b"}, BuildRun <- {}, Runner <- {"m", "n"},
    Eligible <- {<<"m", "a">>, <<"n", "a">>, <<"m", "b">>}, Key <- {"k"}, NoRunner <- "none",
    NoKey <- "", TTL <- 1, MaxAttempt <- 1, runStatus <- lsRunStatus, runRunner <- lsRunRunner,
    nextAttempt <- lsNextAttempt, approval <- lsApproval, leaseStatus <- lsLeaseStatus,
    leaseRunner <- lsLeaseRunner, left <- lsLeft, completionKey <- lsCompletionKey,
    dead <- lsDead

Attempts == INSTANCE RunnerAttempts WITH
    MaxAttempt <- 1, MaxEvent <- 1, Outcome <- {"succeeded"}, BatchCount <- 1, JournalMax <- 2,
    TTL <- 3, Margin <- 2, Grace <- 1, lease <- raLease, left <- raLeft, mine <- raMine,
    open <- raOpen, stored <- raStored, completion <- raCompletion, eventReq <- raEventReq,
    doneReq <- raDoneReq, phase <- raPhase, att <- raAtt, deadline <- raDeadline,
    answer <- raAnswer, canceled <- raCanceled, fatal <- raFatal, late <- raLate,
    proc <- raProc, grace <- raGrace, memory <- raMemory, disk <- raDisk, emitted <- raEmitted,
    earlier <- raEarlier, replayed <- raReplayed

Hosting == INSTANCE HostingOperations WITH
    Op <- {"a", "b"}, Binding <- {"x"}, NoOp <- "none", NoBinding <- "none", Port <- {1},
    MaxAttempts <- 1, MaxObservations <- 1, Events <- {"grant", "runner", "cancel", "restore"},
    state <- hoState, bind <- hoBind, port <- hoPort, target <- hoTarget, release <- hoRelease,
    prev <- hoPrev, admitted <- hoAdmitted, result <- hoResult, requested <- hoRequested,
    run <- hoRun, lease <- hoLease, tries <- hoTries, hold <- hoHold, healthy <- hoHealthy,
    firstPort <- hoFirstPort, claim <- hoClaim, slot <- hoSlot, ledger <- hoLedger,
    running <- hoRunning, referenced <- hoReferenced, granted <- hoGranted,
    runnerActive <- hoRunnerActive, restoreHeld <- hoRestoreHeld, handler <- hoHandler,
    touching <- hoTouching

Compose == INSTANCE ComposeClaims WITH
    Applies <- {"old"}, Healthy <- {"old"}, MaxFaults <- 2, Cancels <- TRUE, Orphans <- TRUE,
    status <- ccStatus, lease <- ccLease, safe <- ccSafe, resolved <- ccResolved,
    receipt <- ccReceipt, pc <- ccPc, work <- ccWork, seen <- ccSeen, expect <- ccExpect,
    outer <- ccOuter, stopped <- ccStopped, ended <- ccEnded, host <- ccHost, file <- ccFile,
    up <- ccUp, journal <- ccJournal, touched <- ccTouched, faults <- ccFaults

Fleet == INSTANCE RunnerFleet WITH
    Hosts <- {"a", "b"}, Rotated <- {"r1"}, CapabilitySets <- {{"shell"}},
    Acts <- {"crash", "lost", "expire", "rotate", "revoke"},
    CrashAt <- {"prepare", "consume", "remove", "identity", "loop"}, MaxFaults <- 2, d <- flD,
    mem <- flMem, host <- flHost, withdrawn <- flWithdrawn, seen <- flSeen, faults <- flFaults

Locks == INSTANCE LockOrder WITH
    Mixes <- Meetings, MaxRepeats <- 2, kindOf <- lkKindOf, at <- lkAt, queue <- lkQueue,
    seen <- lkSeen, st <- lkSt, repeats <- lkRepeats

Builds == INSTANCE BuildExecution WITH
    Builds <- {"a"}, Kind <- "api_token", Private <- FALSE, MaxRev <- 4, Changes <- {"cancel"},
    SettlesSource <- TRUE, MaxChanges <- 1, MaxFaults <- 2, d <- bdD, refused <- bdRefused,
    pc <- bdPc, bld <- bdBld, known <- bdKnown, journal <- bdJournal, disk <- bdDisk,
    host <- bdHost, late <- bdLate, faults <- bdFaults, changes <- bdChanges

Logs == INSTANCE BuildLogs WITH
    MaxEvents <- 2, PageLimit <- 1, BatchSize <- 1, MaxFaults <- 1, build <- blBuild,
    state <- blState, rows <- blRows, receipts <- blReceipts, journal <- blJournal, pc <- blPc,
    late <- blLate, viewer <- blViewer, policy <- blPolicy, faults <- blFaults

Pushes == INSTANCE GitHubPush WITH
    Ids <- {"a"}, Workers <- {"w1"}, Requests <- {"q"}, Changes <- {"day", "retry"},
    Configured <- TRUE, Auto <- FALSE, MaxCommit <- 1, MaxGeneration <- 4, MaxAttempts <- 2,
    PendingLimit <- 2, ReceiptLimit <- 2, CompareLimit <- 2, MaxFaults <- 1, d <- puD,
    authority <- puAuthority, head <- puHead, hooks <- puHooks, ingress <- puIngress,
    work <- puWork, sent <- puSent, checks <- puChecks, faults <- puFaults

Auto == INSTANCE AutoDeploy WITH
    MaxPush <- 2, MaxManual <- 0, MaxGeneration <- 1, MaxAttempts <- 3, MaxLoads <- 0,
    Changes <- {"stop", "expire", "deploy"}, d <- auD, authority <- auAuthority,
    wake <- auWake, todo <- auTodo, busy <- auBusy

Proxy == INSTANCE ProxyExecution WITH
    Routes <- {"a", "b"}, MaxRelease <- 2, Requests <- {"revoke", "switch", "deploy", "route"},
    Installed <- TRUE, Switched <- {{"a"}}, MaxGen <- 3, MaxFaults <- 0, d <- pxD, pc <- pxPc,
    g <- pxG, out <- pxOut, journal <- pxJournal, eng <- pxEng, plan <- pxPlan,
    faults <- pxFaults

Dumps == INSTANCE DatabaseBackups WITH
    Backups <- {"a"}, Restores <- {"b"}, Source <- "s", Generic <- "g", MaxFaults <- 0,
    MaxChanges <- 2, op <- bkOp, child <- bkChild, job <- bkJob, task <- bkTask,
    queue <- bkQueue, lease <- bkLease, receipts <- bkReceipts, owner <- bkOwner, pc <- bkPc,
    cur <- bkCur, journal <- bkJournal, outcome <- bkOutcome, guest <- bkGuest, host <- bkHost,
    faults <- bkFaults, changes <- bkChanges

Schedules == INSTANCE BackupSchedules WITH
    Schedules <- {"a", "b"}, Requests <- {"q1", "q2"}, Actors <- {"o"}, Controllers <- {"c"},
    Frequencies <- EveryMinute, MaxTime <- 1, Fold <- 9, Window <- 0, Requeue <- 1,
    MaxAge <- 2, Batch <- 1, MaxFaults <- 0, MaxChanges <- 0, clock <- scClock, hist <- scHist,
    cursor <- scCursor, order <- scOrder, answered <- scAnswered, occ <- scOcc, op <- scOp,
    retired <- scRetired, job <- scJob, owner <- scOwner, source <- scSource, ctl <- scCtl,
    faults <- scFaults, changes <- scChanges

Transfers == INSTANCE BackupTransfers WITH
    Uploads <- {"a", "b"}, First <- "a", Validations <- {"v"}, Downloads <- {},
    MaxRevision <- 1, MaxFaults <- 1, MaxChanges <- 1, target <- trTarget, keys <- trKeys,
    revoked <- trRevoked, owner <- trOwner, backup <- trBackup, pinned <- trPinned,
    restore <- trRestore, xfer <- trXfer, job <- trJob, lease <- trLease,
    receipts <- trReceipts, copies <- trCopies, pc <- trPc, cur <- trCur, sent <- trSent,
    own <- trOwn, outcome <- trOutcome, journal <- trJournal, object <- trObject,
    creator <- trCreator, inflight <- trInflight, staged <- trStaged, fetched <- trFetched,
    late <- trLate, faults <- trFaults, changes <- trChanges

Admission == INSTANCE RetentionAdmission WITH
    NCopies <- 2, Loc <- <<1, 1>>, Restored <- {}, Uploaded <- {2}, MaxChanges <- 1,
    MaxLosses <- 0, work <- adWork, avail <- adAvail, created <- adCreated,
    superseded <- adSuperseded, file <- adFile, readers <- adReaders, upload <- adUpload,
    policy <- adPolicy, owner <- adOwner, preview <- adPreview, exec <- adExec, pub <- adPub,
    pubRev <- adPubRev, rec <- adRec, changes <- adChanges, losses <- adLosses

Batch == INSTANCE BackupRetention WITH
    Local <- {1, 2}, Remote <- {}, Versioned <- {}, Conditional <- TRUE, MaxAttempts <- 4,
    MaxFaults <- 2, MaxChanges <- 0, exec <- baExec, item <- baItem, reserved <- baReserved,
    avail <- baAvail, task <- baTask, lease <- baLease, attempt <- baAttempt,
    resumes <- baResumes, receipts <- baReceipts, lost <- baLost, pc <- baPc, op <- baOp,
    completed <- baCompleted, unknown <- baUnknown, toProbe <- baToProbe,
    toDelete <- baToDelete, journal <- baJournal, replay <- baReplay, obj <- baObj,
    inflight <- baInflight, faults <- baFaults, changes <- baChanges

Volumes == INSTANCE StorageArchives WITH
    Backups <- {"k"}, Restores <- {}, Recoveries <- {"c1", "c2"}, Source <- "s",
    Writers <- {"a", "b"}, NoOp <- "none", Started <- {"a", "b"}, Archives <- {"none"},
    MaxAttempts <- 2, MaxFaults <- 1, Faults <- {"lost"}, Changes <- {"recover"}, d <- saD,
    j <- saJ, e <- saE, x <- saX, ask <- saAsk, faults <- saFaults

lsVars ==
    <<lsRunStatus, lsRunRunner, lsNextAttempt, lsApproval, lsLeaseStatus, lsLeaseRunner, lsLeft,
      lsCompletionKey, lsDead>>
raVars ==
    <<raLease, raLeft, raMine, raOpen, raStored, raCompletion, raEventReq, raDoneReq, raPhase,
      raAtt, raDeadline, raAnswer, raCanceled, raFatal, raLate, raProc, raGrace, raMemory,
      raDisk, raEmitted, raEarlier, raReplayed>>
hoVars ==
    <<hoState, hoBind, hoPort, hoTarget, hoRelease, hoPrev, hoAdmitted, hoResult, hoRequested,
      hoRun, hoLease, hoTries, hoHold, hoHealthy, hoFirstPort, hoClaim, hoSlot, hoLedger,
      hoRunning, hoReferenced, hoGranted, hoRunnerActive, hoRestoreHeld, hoHandler, hoTouching>>
ccVars ==
    <<ccStatus, ccLease, ccSafe, ccResolved, ccReceipt, ccPc, ccWork, ccSeen, ccExpect, ccOuter,
      ccStopped, ccEnded, ccHost, ccFile, ccUp, ccJournal, ccTouched, ccFaults>>
flVars ==
    <<flD, flMem, flHost, flWithdrawn, flSeen, flFaults>>
lkVars ==
    <<lkKindOf, lkAt, lkQueue, lkSeen, lkSt, lkRepeats>>
bdVars ==
    <<bdD, bdRefused, bdPc, bdBld, bdKnown, bdJournal, bdDisk, bdHost, bdLate, bdFaults, bdChanges>>
blVars ==
    <<blBuild, blState, blRows, blReceipts, blJournal, blPc, blLate, blViewer, blPolicy, blFaults>>
puVars ==
    <<puD, puAuthority, puHead, puHooks, puIngress, puWork, puSent, puChecks, puFaults>>
auVars ==
    <<auD, auAuthority, auWake, auTodo, auBusy>>
pxVars ==
    <<pxD, pxPc, pxG, pxOut, pxJournal, pxEng, pxPlan, pxFaults>>
bkVars ==
    <<bkOp, bkChild, bkJob, bkTask, bkQueue, bkLease, bkReceipts, bkOwner, bkPc, bkCur,
      bkJournal, bkOutcome, bkGuest, bkHost, bkFaults, bkChanges>>
scVars ==
    <<scClock, scHist, scCursor, scOrder, scAnswered, scOcc, scOp, scRetired, scJob, scOwner,
      scSource, scCtl, scFaults, scChanges>>
trVars ==
    <<trTarget, trKeys, trRevoked, trOwner, trBackup, trPinned, trRestore, trXfer, trJob,
      trLease, trReceipts, trCopies, trPc, trCur, trSent, trOwn, trOutcome, trJournal, trObject,
      trCreator, trInflight, trStaged, trFetched, trLate, trFaults, trChanges>>
adVars ==
    <<adWork, adAvail, adCreated, adSuperseded, adFile, adReaders, adUpload, adPolicy, adOwner,
      adPreview, adExec, adPub, adPubRev, adRec, adChanges, adLosses>>
baVars ==
    <<baExec, baItem, baReserved, baAvail, baTask, baLease, baAttempt, baResumes, baReceipts,
      baLost, baPc, baOp, baCompleted, baUnknown, baToProbe, baToDelete, baJournal, baReplay,
      baObj, baInflight, baFaults, baChanges>>
saVars ==
    <<saD, saJ, saE, saX, saAsk, saFaults>>
allVars == <<part, lsVars, raVars, hoVars, ccVars, flVars, lkVars, bdVars, blVars, puVars, auVars, pxVars, bkVars, scVars, trVars, adVars, baVars, saVars>>

AllInit ==
    /\ part \in {"leases", "attempts", "hosting", "compose", "fleet", "locks", "builds", "logs", "pushes", "auto", "proxy", "backups", "schedules", "transfers", "admission", "batch", "archives"}
    /\ Leases!Init /\ Attempts!Init /\ Hosting!Init /\ Compose!Init /\ Fleet!Init /\ Locks!Init /\ Builds!Init /\ Logs!Init /\ Pushes!Init /\ Auto!Init /\ Proxy!Init /\ Dumps!Init /\ Schedules!Init /\ Transfers!Init /\ Admission!Init /\ Batch!Init /\ Volumes!Init
    \* a component that rests does so in one of its initial states
    /\ part # "compose" => ~ccSafe /\ ccHost = "none"
    /\ part # "locks" => lkKindOf[1] = "fail" /\ lkSt.run = "running"
    /\ part # "transfers" => trObject = "missing"
    /\ part # "admission" => adFile = <<"none">>

(* The components that do not move. *)
Rest ==
    /\ part' = part
    /\ IF part = "leases" THEN TRUE ELSE UNCHANGED lsVars
    /\ IF part = "attempts" THEN TRUE ELSE UNCHANGED raVars
    /\ IF part = "hosting" THEN TRUE ELSE UNCHANGED hoVars
    /\ IF part = "compose" THEN TRUE ELSE UNCHANGED ccVars
    /\ IF part = "fleet" THEN TRUE ELSE UNCHANGED flVars
    /\ IF part = "locks" THEN TRUE ELSE UNCHANGED lkVars
    /\ IF part = "builds" THEN TRUE ELSE UNCHANGED bdVars
    /\ IF part = "logs" THEN TRUE ELSE UNCHANGED blVars
    /\ IF part = "pushes" THEN TRUE ELSE UNCHANGED puVars
    /\ IF part = "auto" THEN TRUE ELSE UNCHANGED auVars
    /\ IF part = "proxy" THEN TRUE ELSE UNCHANGED pxVars
    /\ IF part = "backups" THEN TRUE ELSE UNCHANGED bkVars
    /\ IF part = "schedules" THEN TRUE ELSE UNCHANGED scVars
    /\ IF part = "transfers" THEN TRUE ELSE UNCHANGED trVars
    /\ IF part = "admission" THEN TRUE ELSE UNCHANGED adVars
    /\ IF part = "batch" THEN TRUE ELSE UNCHANGED baVars
    /\ IF part = "archives" THEN TRUE ELSE UNCHANGED saVars

AllNext ==
    \/ part = "leases" /\ Leases!Next /\ Rest
    \/ part = "attempts" /\ Attempts!Next /\ Rest
    \/ part = "hosting" /\ Hosting!Next /\ Rest
    \/ part = "compose" /\ Compose!Next /\ Rest
    \/ part = "fleet" /\ Fleet!Next /\ Rest
    \/ part = "locks" /\ Locks!Next /\ Rest
    \/ part = "builds" /\ Builds!Next /\ Rest
    \/ part = "logs" /\ Logs!Next /\ Rest
    \/ part = "pushes" /\ Pushes!Next /\ Rest
    \/ part = "auto" /\ Auto!Next /\ Rest
    \/ part = "proxy" /\ Proxy!Next /\ Rest
    \/ part = "backups" /\ Dumps!Next /\ Rest
    \/ part = "schedules" /\ Schedules!Next /\ Rest
    \/ part = "transfers" /\ Transfers!Next /\ Rest
    \/ part = "admission" /\ Admission!Next /\ Rest
    \/ part = "batch" /\ Batch!Next /\ Rest
    \/ part = "archives" /\ Volumes!Next /\ Rest

AllSpec == AllInit /\ [][AllNext]_allVars

(* What each component may rely on.  The server's clock goes on, its       *)
(* maintenance loop sweeps every due run, River runs its jobs and the      *)
(* recovery loops tick, PostgreSQL grants free locks and breaks circles,   *)
(* a supervisor restarts the runner, whose program takes its steps, and a  *)
(* lease that nobody renews runs out.  Nothing is assumed of operators,    *)
(* except of those who see a storage hold without a lease (Volumes) or an *)
(* interrupted deletion (Batch) and ask again.                             *)
LeasesTurn(k) ==
    \/ k \in 1..2 /\ Leases!Tick(<<Name[k], 1>>)
    \/ k \in 3..4 /\ \E S \in SUBSET AB : Name[k - 2] \in S /\ Leases!ExpireLeases(S)

AttemptsTurn(k) ==
    \/ k = 1 /\ Attempts!Watchdog
    \/ k = 2 /\ Attempts!ProcessStops
    \/ k = 3 /\ Attempts!GiveUp
    \/ k = 4 /\ raCanceled /\ Attempts!ReplayFails
    \/ k = 5 /\ Attempts!Restart
    \/ k = 6 /\ Attempts!SendCompletion
    \/ k = 7 /\ Attempts!PostEvents
    \/ k = 8 /\ \E r \in raEventReq : Attempts!StoreEvents(r)
    \/ k = 9 /\ \E r \in raDoneReq : Attempts!CompleteLease(r)
    \/ k = 10 /\ \E r \in raEventReq : Attempts!AckEvents(r)
    \/ k = 11 /\ \E r \in raDoneReq : Attempts!AckCompletion(r)
    \/ k = 12 /\ Attempts!Drained

HostingTurn(k) ==
    \/ k \in 1..2 /\ Hosting!ReadQueuedOperation(Name[k])
    \/ k \in 3..4 /\ Hosting!PrepareDeployment(Name[k - 2])

ComposeTurn(k) ==
    \/ k = 1 /\ Compose!Step
    \/ k = 2 /\ Compose!Restart
    \/ k = 3 /\ Compose!LeaseExpires
    \/ k = 4 /\ \E d \in Compose!Dep : Compose!Claim(d)

FleetTurn(k) == k \in 1..2 /\ Fleet!Process(Name[k])

LocksTurn(k) ==
    \/ k \in 1..3 /\ Locks!Proceed(k)
    \/ k \in 4..6 /\ Locks!BreakCycle(k - 3)
    \/ k \in 7..9 /\ Locks!SendAgain(k - 6)

BuildsTurn(k) ==
    \/ k = 1 /\ Builds!Runner
    \/ k = 2 /\ Builds!DispatchJob("a")
    \/ k = 3 /\ Builds!PrepareBuild("a")
    \/ k = 4 /\ Builds!recoverBuildDispatch("a")
    \/ k = 5 /\ Builds!LapseLease("a") /\ Builds!NoFault
    \/ k = 6 /\ Builds!SweepLease("a")

LogsTurn(k) ==
    \/ k \in 1..2 /\ Logs!ReplayBuildLogs(k)
    \/ k = 3 /\ Logs!SinkFails
    \/ k = 4 /\ Logs!Exit

PushesTurn(k) ==
    \/ k = 1 /\ Pushes!BeginGitHubPushDelivery("w1", "a")
    \/ k = 2 /\ Pushes!verifyGitHubPush("w1")
    \/ k = 3 /\ Pushes!CommitGitHubPushDelivery("w1")
    \/ k = 4 /\ Pushes!recoverGitHubPushDispatch
    \/ k = 5 /\ Pushes!TokenLapses("a")
    \/ k = 6 /\ Pushes!ComesDue("a")

AutoTurn(k) ==
    \/ k \in 1..2 /\ Auto!BuildEnds(k)
    \/ k \in 3..4 /\ Auto!FirstApply(k - 2)
    \/ k \in 5..6 /\ Auto!DeploymentEnds(k - 4)
    \/ k \in 7..8 /\ Auto!FirstProxyApply(k - 6)
    \/ k \in 9..10 /\ Auto!SwitchEnds(k - 8)
    \/ k = 11 /\ Auto!Begin
    \/ k = 12 /\ Auto!recoverAutoDeployDispatch

ProxyTurn(k) ==
    \/ k \in 1..4 /\ k \in Proxy!Gens(pxD) /\ Proxy!PrepareProxy(k)
    \/ k \in 5..8 /\ k - 4 \in Proxy!Gens(pxD) /\ Proxy!recoverProxyDispatch(k - 4)
    \/ k = 9 /\ Proxy!RunnerSteps

DumpsTurn(k) ==
    \/ k \in 1..2 /\ Dumps!PrepareDatabaseBackup(Name[k])
    \/ k \in 3..4 /\ Dumps!recoverUnscheduledDatabaseBackups(Name[k - 2])
    \/ k = 5 /\ Dumps!ChildSettles("b")
    \/ k = 6 /\ Dumps!RunnerStep

SchedulesTurn(k) ==
    \/ k \in 1..2 /\ \E t \in 0..1 : Schedules!PrepareDatabaseBackup(<<Name[k], t>>)
    \/ k = 3 /\ Schedules!Tick
    \/ k = 4 /\ Schedules!StartPass("c")
    \/ k = 5 /\ Schedules!reconcileDatabaseBackupSchedule("c")

TransfersTurn(k) ==
    \/ k \in 1..3 /\ Transfers!PrepareDatabaseBackupTransfer(Name[k])
    \/ k \in 4..6 /\ Transfers!recoverDatabaseBackupTransfers(Name[k - 3])
    \/ k \in 7..9 /\ trPc = "down" /\ Transfers!LeaseExpires(Name[k - 6])
    \/ k = 10 /\ Transfers!RunnerStep

AdmissionTurn(k) ==
    \/ k \in 1..2 /\ Admission!CompleteBackup(k)
    \/ k \in 3..4 /\ Admission!FinishReader(k - 2)
    \/ k \in 5..6 /\ Admission!FinishUpload(k - 4)
    \/ k = 7 /\ Admission!ReconcileDatabaseBackupRetention

BatchTurn(k) ==
    \/ k = 1 /\ Batch!PrepareDatabaseBackupRetention
    \/ k = 2 /\ Batch!ClaimRun
    \/ k = 3 /\ Batch!ExpireLease
    \/ k = 4 /\ Batch!backupRetentionResumeTx
    \/ k = 5 /\ Batch!RunnerStep
    \/ k = 6 /\ Batch!StartUp

VolumesTurn(k) ==
    \/ k = 1 /\ Volumes!Runner
    \/ k = 2 /\ Volumes!Server
    \/ k = 3 /\ Volumes!RequestRecovery
    \/ k = 4 /\ \E n \in {"c1", "c2"} : Volumes!ReadHold(n, "k")
    \/ k \in 5..7 /\ saX.op # <<"k", "c1", "c2">>[k - 4] /\ Volumes!Lapse(<<"k", "c1", "c2">>[k - 4])

(* One fair action of each component; only one of them moves. *)
Turn(k) ==
    \/ part = "leases" /\ LeasesTurn(k) /\ Rest
    \/ part = "attempts" /\ AttemptsTurn(k) /\ Rest
    \/ part = "hosting" /\ HostingTurn(k) /\ Rest
    \/ part = "compose" /\ ComposeTurn(k) /\ Rest
    \/ part = "fleet" /\ FleetTurn(k) /\ Rest
    \/ part = "locks" /\ LocksTurn(k) /\ Rest
    \/ part = "builds" /\ BuildsTurn(k) /\ Rest
    \/ part = "logs" /\ LogsTurn(k) /\ Rest
    \/ part = "pushes" /\ PushesTurn(k) /\ Rest
    \/ part = "auto" /\ AutoTurn(k) /\ Rest
    \/ part = "proxy" /\ ProxyTurn(k) /\ Rest
    \/ part = "backups" /\ DumpsTurn(k) /\ Rest
    \/ part = "schedules" /\ SchedulesTurn(k) /\ Rest
    \/ part = "transfers" /\ TransfersTurn(k) /\ Rest
    \/ part = "admission" /\ AdmissionTurn(k) /\ Rest
    \/ part = "batch" /\ BatchTurn(k) /\ Rest
    \/ part = "archives" /\ VolumesTurn(k) /\ Rest

(* What succeeds in the end if it is tried for ever: a lease that is not   *)
(* renewed every time, a startup that is not interrupted every time, a     *)
(* claim and a controller that are not lost every time.                    *)
LuckyTurn(k) ==
    \/ k = 1 /\ part = "attempts" /\ (Attempts!Tick) /\ Rest
    \/ k = 2 /\ part = "attempts" /\ ((\E a \in Attempts!Attempt : Attempts!ReplayFenced(a)) /\ raPhase' = "startup") /\ Rest
    \/ k = 1 /\ part = "builds" /\ (Builds!ClaimRun("a") /\ Builds!NoFault) /\ Rest
    \/ k = 1 /\ part = "auto" /\ (Auto!PrepareHostingAutoDeploy) /\ Rest
    \/ k = 2 /\ part = "auto" /\ (\E o \in auTodo : Auto!autoCleanupOrigin(o[1], o[2])) /\ Rest

FairSpec ==
    /\ AllSpec
    /\ \A k \in 1..12 : WF_allVars(Turn(k))
    /\ \A k \in 1..2 : SF_allVars(LuckyTurn(k))

-----------------------------------------------------------------------------
(* What a host or the server still owes to a run. *)
RunOwed(w) ==
    \/ part = "leases" /\ Leases!HeldByDead(w)
    \/ part = "attempts" /\ Attempts!Unsettled(1)
    \/ part = "hosting" /\ Hosting!Undecided(w)
    \/ part = "compose" /\ Compose!Unsettled
    \/ part = "fleet" /\ Fleet!Waiting(w)
    \/ part = "locks" /\ Locks!Unanswered(Number[w])

(* A run whose runner died is taken from it, a completion leaves the       *)
(* journal, a queued hosting operation is decided, a deployment reaches a  *)
(* terminal state whatever fails, an enrolled host gets to work, and a     *)
(* report rolled back in a deadlock is committed at last                   *)
(* (ExpireLeases, replayRunnerJournal, claimHostingDeploy, Reconcile,      *)
(* prepareRunnerEnrollmentFiles, WriteRunnerEvents).                       *)
RunsSettle == \A w \in AB : []<>~RunOwed(w)

(* What the delivery of a push still owes. *)
DeliveryOwed(w) ==
    \/ part = "builds" /\ Builds!Unfinished("a")
    \/ part = "logs" /\ Logs!Unacknowledged(Number[w])
    \/ part = "pushes" /\ Pushes!Unworked("a")
    \/ part = "auto" /\ (Auto!Undecided(Number[w]) \/ Auto!Unadmitted(Number[w]))
    \/ part = "proxy" /\ (Proxy!Unwithdrawn(w) \/ \E h \in 1..3 : Proxy!Queued(h))

(* An accepted build ends, what the server stored leaves the runner's      *)
(* journal, a verified push is worked off, its demand and its switch are   *)
(* decided, a withdrawn route stops being served and a queued generation   *)
(* is dispatched, also when jobs are lost (the recover…Dispatch loops).    *)
DeliverySettles == \A w \in AB : []<>~DeliveryOwed(w)

(* What a backup, a transfer or a retention batch still owes. *)
CopyOwed(w) ==
    \/ part = "backups" /\ Dumps!Outstanding(w)
    \/ part = "schedules" /\ Schedules!Undiscovered(w)
    \/ part = "transfers" /\ (Transfers!Unclassified(w) \/ Transfers!Unprepared(w))
    \/ part = "admission" /\ Admission!Undecided(Number[w])
    \/ part = "batch" /\ Batch!Reserved(Number[w])
    \/ part = "archives" /\ Volumes!Away(w)

(* An admitted backup of an authorized owner settles, a due minute is      *)
(* discovered for every schedule although a pass takes only some, a cut    *)
(* transfer is classified, a publication is decided, an interrupted batch  *)
(* gives back its pool, and stopped writers return                         *)
(* (recoverUnscheduledDatabaseBackups, recoverDatabaseBackupTransfers,     *)
(* ReconcileDatabaseBackupRetention).                                      *)
CopiesSettle == \A w \in AB : []<>~CopyOwed(w)
=============================================================================
