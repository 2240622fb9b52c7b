--------------------------- MODULE BackupControl ----------------------------
(***************************************************************************)
(* Backups of databases: dumps and restores on a host (DatabaseBackups),   *)
(* their transfers to and from an object store (BackupTransfers), and the  *)
(* schedules that ask for them, with two server processes                  *)
(* (BackupSchedules).  One of them moves, because steps of two that share  *)
(* no variable commute.                                                    *)
(***************************************************************************)
EXTENDS DatabaseBackups

(* Due at the minute that happens twice and two later. *)
FixedHours == {[slots |-> {1, 3}, fixed |-> TRUE]}

VARIABLES
    part,   \* the component that moves
    trTarget, trKeys, trRevoked, trOwner, trBackup, trPinned, trRestore, trXfer, trJob,
    trLease, trReceipts, trCopies, trPc, trCur, trSent, trOwn, trOutcome, trJournal, trObject,
    trCreator, trInflight, trStaged, trFetched, trLate, trFaults, trChanges,
    scClock, scHist, scCursor, scOrder, scAnswered, scOcc, scOp, scRetired, scJob, scOwner,
    scSource, scCtl, scFaults, scChanges

Transfers == INSTANCE BackupTransfers WITH
    Uploads <- {"u1", "u2"}, First <- "u1", Validations <- {"v1"}, Downloads <- {"d1"},
    MaxRevision <- 2, MaxFaults <- 2, MaxChanges <- 1, target <- trTarget, keys <- trKeys,
    revoked <- trRevoked, owner <- trOwner, backup <- trBackup, pinned <- trPinned,
    restore <- trRestore, xfer <- trXfer, job <- trJob, lease <- trLease,
    receipts <- trReceipts, copies <- trCopies, pc <- trPc, cur <- trCur, sent <- trSent,
    own <- trOwn, outcome <- trOutcome, journal <- trJournal, object <- trObject,
    creator <- trCreator, inflight <- trInflight, staged <- trStaged, fetched <- trFetched,
    late <- trLate, faults <- trFaults, changes <- trChanges

Schedules == INSTANCE BackupSchedules WITH
    Schedules <- {"s1"}, Requests <- {"q1"}, Actors <- {"a1"}, Controllers <- {"c1", "c2"},
    Frequencies <- FixedHours, MaxTime <- 5, Fold <- 2, Window <- 1, Requeue <- 2, MaxAge <- 3,
    Batch <- 1, MaxFaults <- 1, MaxChanges <- 1, clock <- scClock, hist <- scHist,
    cursor <- scCursor, order <- scOrder, answered <- scAnswered, occ <- scOcc, op <- scOp,
    retired <- scRetired, job <- scJob, owner <- scOwner, source <- scSource, ctl <- scCtl,
    faults <- scFaults, changes <- scChanges

trVars ==
    <<trTarget, trKeys, trRevoked, trOwner, trBackup, trPinned, trRestore, trXfer, trJob,
      trLease, trReceipts, trCopies, trPc, trCur, trSent, trOwn, trOutcome, trJournal, trObject,
      trCreator, trInflight, trStaged, trFetched, trLate, trFaults, trChanges>>
scVars ==
    <<scClock, scHist, scCursor, scOrder, scAnswered, scOcc, scOp, scRetired, scJob, scOwner,
      scSource, scCtl, scFaults, scChanges>>
allVars == <<part, vars, trVars, scVars>>

AllInit ==
    /\ part \in {"backups", "transfers", "schedules"}
    /\ Init /\ Transfers!Init /\ Schedules!Init
    \* a component that rests does so in one of its initial states
    /\ part # "transfers" => trObject = "missing"

BackupsMoves ==
    part = "backups" /\ Next /\ UNCHANGED <<part, trVars, scVars>>
TransfersMoves ==
    part = "transfers" /\ Transfers!Next /\ UNCHANGED <<part, vars, scVars>>
SchedulesMoves ==
    part = "schedules" /\ Schedules!Next /\ UNCHANGED <<part, vars, trVars>>

AllNext == BackupsMoves \/ TransfersMoves \/ SchedulesMoves

AllSpec == AllInit /\ [][AllNext]_allVars

-----------------------------------------------------------------------------
(* A succeeded upload is whole in the object store, a copy that retention  *)
(* may delete was created by the upload that registered it, uploads of one *)
(* backup act one after another, a restore is ready after its own download *)
(* only, and at most one request passes after authority is withdrawn.      *)
TransfersAreWhole ==
    part = "transfers" =>
        /\ Transfers!TTypeOK /\ Transfers!UploadedIsWhole /\ Transfers!CopyIsCreator
        /\ Transfers!OneUploadUnderWay /\ Transfers!ReadyIsFetched
        /\ Transfers!OneLateRequest /\ Transfers!ApplyingIsJournaled

(* A retired backup never runs, a missed occurrence left nothing behind,   *)
(* the repeated minute of a clock set back runs once, and a repeated save  *)
(* has no second effect.                                                   *)
SchedulesRunOnce ==
    part = "schedules" =>
        /\ Schedules!SchTypeOK /\ Schedules!RetiredNeverRuns /\ Schedules!MissedIsReleased
        /\ Schedules!FoldRunsOnce /\ Schedules!RequestSavedOnce

(* A discovered minute is decided once, whichever process passes again     *)
(* with an older time, and an upload is settled as succeeded only with     *)
(* active keys, an enabled target and an authorized owner.                 *)
BackupDecisionsStand ==
    Schedules!SlotIsDecidedOnce /\ Transfers!SuccessIsAuthorized
=============================================================================
