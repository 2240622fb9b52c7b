---------------------------- MODULE StoredCopies ----------------------------
(***************************************************************************)
(* What becomes of stored copies: the selection a retention policy makes   *)
(* (RetentionPolicy), the admission and publication of retention batches   *)
(* with readers, uploads and losses (RetentionAdmission, two instances),   *)
(* the deletions of one batch by a runner (BackupRetention), and the       *)
(* archives of storage volumes with their restores and recoveries          *)
(* (StorageArchives).  One of them moves, because steps of two that share  *)
(* no variable commute.                                                    *)
(***************************************************************************)
EXTENDS RetentionAdmission

(* The first and the last of three backups have the same digest: their     *)
(* copies share a file. *)
FileOfEach == <<1, 2, 1>>

Limits(n, d, b) == [count |-> n, days |-> d, bytes |-> b]

(* Each limit alone, all together, and a policy that is disabled. *)
SamplePolicies ==
    {[enabled |-> TRUE, local |-> l, remote |-> Limits(1, 0, 0)] :
        l \in {Limits(1, 0, 0), Limits(0, 1, 0), Limits(0, 0, 1), Limits(2, 1, 2)}}
    \cup {[enabled |-> FALSE, local |-> Limits(1, 1, 1), remote |-> Limits(1, 1, 1)]}

Arrival(loc, at, bytes, state, reasons) ==
    [loc |-> loc, at |-> at, bytes |-> bytes, avail |-> state, reasons |-> reasons]

SampleArrivals ==
    {Arrival("local", x[1], x[2], "available", {}) : x \in {<<1, 1>>, <<2, 2>>, <<2, 1>>, <<3, 1>>}}
    \cup {Arrival("local", 3, 1, "unproven", {}), Arrival("local", 1, 2, "available", {"active"}),
           Arrival("remote", 1, 1, "available", {})}

VARIABLES
    part,   \* the component that moves
    poInventory, poPolicy, poChanges,
    shWork, shAvail, shCreated, shSuperseded, shFile, shReaders, shUpload, shPolicy, shOwner,
    shPreview, shExec, shPub, shPubRev, shRec, shChanges, shLosses,
    baExec, baItem, baReserved, baAvail, baTask, baLease, baAttempt, baResumes, baReceipts,
    baLost, baPc, baOp, baCompleted, baUnknown, baToProbe, baToDelete, baJournal, baReplay,
    baObj, baInflight, baFaults, baChanges,
    plExec, plItem, plReserved, plAvail, plTask, plLease, plAttempt, plResumes, plReceipts,
    plLost, plPc, plOp, plCompleted, plUnknown, plToProbe, plToDelete, plJournal, plReplay,
    plObj, plInflight, plFaults, plChanges,
    arD, arJ, arE, arX, arAsk, arFaults

Policy == INSTANCE RetentionPolicy WITH
    BatchLimit <- 1, IdMax <- 3, TimeMax <- 3, BytesMax <- 2, MaxChanges <- 1,
    Arrivals <- SampleArrivals, Policies <- SamplePolicies, inventory <- poInventory,
    policy <- poPolicy, changes <- poChanges

Shared == INSTANCE RetentionAdmission WITH
    NCopies <- 2, Loc <- <<1, 1>>, Restored <- {1}, Uploaded <- {2}, MaxChanges <- 2,
    MaxLosses <- 1, work <- shWork, avail <- shAvail, created <- shCreated,
    superseded <- shSuperseded, file <- shFile, readers <- shReaders, upload <- shUpload,
    policy <- shPolicy, owner <- shOwner, preview <- shPreview, exec <- shExec, pub <- shPub,
    pubRev <- shPubRev, rec <- shRec, changes <- shChanges, losses <- shLosses

Batch == INSTANCE BackupRetention WITH
    Local <- {1}, Remote <- {2}, Versioned <- {2}, Conditional <- TRUE, MaxAttempts <- 3,
    MaxFaults <- 2, MaxChanges <- 1, exec <- baExec, item <- baItem, reserved <- baReserved,
    avail <- baAvail, task <- baTask, lease <- baLease, attempt <- baAttempt,
    resumes <- baResumes, receipts <- baReceipts, lost <- baLost, pc <- baPc, op <- baOp,
    completed <- baCompleted, unknown <- baUnknown, toProbe <- baToProbe,
    toDelete <- baToDelete, journal <- baJournal, replay <- baReplay, obj <- baObj,
    inflight <- baInflight, faults <- baFaults, changes <- baChanges

Plain == INSTANCE BackupRetention WITH
    Local <- {}, Remote <- {1, 2}, Versioned <- {}, Conditional <- FALSE, MaxAttempts <- 2,
    MaxFaults <- 1, MaxChanges <- 1, exec <- plExec, item <- plItem, reserved <- plReserved,
    avail <- plAvail, task <- plTask, lease <- plLease, attempt <- plAttempt,
    resumes <- plResumes, receipts <- plReceipts, lost <- plLost, pc <- plPc, op <- plOp,
    completed <- plCompleted, unknown <- plUnknown, toProbe <- plToProbe,
    toDelete <- plToDelete, journal <- plJournal, replay <- plReplay, obj <- plObj,
    inflight <- plInflight, faults <- plFaults, changes <- plChanges

Archives == INSTANCE StorageArchives WITH
    Backups <- {"b1"}, Restores <- {"r1"}, Recoveries <- {"c1"}, Source <- "s",
    Writers <- {"w1", "w2"}, NoOp <- "none", Started <- {"w1"}, Archives <- {"none", "b1"},
    MaxAttempts <- 1, MaxFaults <- 1,
    Faults <- {"lost", "engine", "crash", "lapse", "job", "gate"},
    Changes <- {"recover", "cancel", "deploy"}, d <- arD, j <- arJ, e <- arE, x <- arX,
    ask <- arAsk, faults <- arFaults

poVars ==
    <<poInventory, poPolicy, poChanges>>
shVars ==
    <<shWork, shAvail, shCreated, shSuperseded, shFile, shReaders, shUpload, shPolicy, shOwner,
      shPreview, shExec, shPub, shPubRev, shRec, shChanges, shLosses>>
baVars ==
    <<baExec, baItem, baReserved, baAvail, baTask, baLease, baAttempt, baResumes, baReceipts,
      baLost, baPc, baOp, baCompleted, baUnknown, baToProbe, baToDelete, baJournal, baReplay,
      baObj, baInflight, baFaults, baChanges>>
plVars ==
    <<plExec, plItem, plReserved, plAvail, plTask, plLease, plAttempt, plResumes, plReceipts,
      plLost, plPc, plOp, plCompleted, plUnknown, plToProbe, plToDelete, plJournal, plReplay,
      plObj, plInflight, plFaults, plChanges>>
arVars ==
    <<arD, arJ, arE, arX, arAsk, arFaults>>
allVars == <<part, poVars, vars, shVars, baVars, plVars, arVars>>

AllInit ==
    /\ part \in {"policy", "admission", "shared", "batch", "plain", "archives"}
    /\ Policy!Init /\ Init /\ Shared!Init /\ Batch!Init /\ Plain!Init /\ Archives!Init
    \* a component that rests does so in one of its initial states
    /\ part # "policy" => poPolicy = CHOOSE p \in SamplePolicies : TRUE
    /\ part # "admission" => \A l \in DOMAIN file : file[l] = "none"
    /\ part # "shared" => \A l \in DOMAIN shFile : shFile[l] = "none"
    /\ part # "archives" => arE.cas = {}

PolicyMoves ==
    part = "policy" /\ Policy!Next /\ UNCHANGED <<part, vars, shVars, baVars, plVars, arVars>>
AdmissionMoves ==
    part = "admission" /\ Next /\ UNCHANGED <<part, poVars, shVars, baVars, plVars, arVars>>
SharedMoves ==
    part = "shared" /\ Shared!Next /\ UNCHANGED <<part, poVars, vars, baVars, plVars, arVars>>
BatchMoves ==
    part = "batch" /\ Batch!Next /\ UNCHANGED <<part, poVars, vars, shVars, plVars, arVars>>
PlainMoves ==
    part = "plain" /\ Plain!Next /\ UNCHANGED <<part, poVars, vars, shVars, baVars, arVars>>
ArchivesMoves ==
    part = "archives" /\ Archives!Next /\ UNCHANGED <<part, poVars, vars, shVars, baVars, plVars>>

AllNext == PolicyMoves \/ AdmissionMoves \/ SharedMoves \/ BatchMoves \/ PlainMoves \/ ArchivesMoves

AllSpec == AllInit /\ [][AllNext]_allVars

-----------------------------------------------------------------------------
(* The loops of the selection, with their order, their clamped sum and     *)
(* their two protections, choose exactly what the guide's rule describes.  *)
(* Two copies of one file keep it while one is available or read, through  *)
(* uploads and changes of policy.  A copy recorded deleted is gone, a      *)
(* deletion whose answer was lost keeps its copy reserved, an effect is    *)
(* announced before and kept after, and a nonversioned object is deleted   *)
(* at most once.                                                           *)
CopiesAreAccounted ==
    /\ part = "policy" => Policy!SelectionIsTheRule
    /\ part = "shared" =>
           /\ Shared!TypeOK /\ Shared!AvailableCopyExists
           /\ Shared!ReaderKeepsItsFile /\ Shared!PublicationIsTrue
    /\ part = "batch" =>
           /\ Batch!RTypeOK /\ Batch!DeletedIsGone /\ Batch!UnknownStaysReserved
           /\ Batch!EffectIsAnnounced /\ Batch!NoSecondDelete /\ Batch!EffectIsRetained

(* No sequence of policies, previews gone stale, interrupted deletions and *)
(* losses costs a database its newest usable copy, a file the platform did *)
(* not create, or what another writer put at the key of a copy, also on a  *)
(* store that ignores If-Match; and a storage hold passes only within the  *)
(* family of its operation.                                                *)
DeletionsSpareTheRest ==
    /\ Policy!NewestCopySurvives
    /\ Shared!ForeignFileSurvives /\ Shared!DeletionLeavesNewer
    /\ Batch!OtherObjectSurvives /\ Plain!OtherObjectSurvives
    /\ Archives!HoldStaysInFamily

(* While a helper reads a volume no writer of it runs, whatever fails, is  *)
(* canceled, lapses or is recovered meanwhile; a writer the archive        *)
(* stopped is owed to it by a receipt, a journal entry and a hold; no      *)
(* other writer is started; and a restore opens a whole volume.            *)
WritersAreOwed ==
    part = "archives" =>
        /\ Archives!STypeOK /\ Archives!HelperIsAlone /\ Archives!StoppedIsOwed
        /\ Archives!StoppedIsJournaled /\ Archives!OnlyItsOwn
        /\ Archives!SucceededIsArchived /\ Archives!RestoreIsWhole
=============================================================================
