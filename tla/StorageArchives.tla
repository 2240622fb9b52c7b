---------------------------- MODULE StorageArchives ----------------------------
(***************************************************************************)
(* Backups of an owned upload volume, restores into a new volume and the   *)
(* recovery of either, between the controller and one runner:              *)
(* archiveCoordinator of hosting_storage_archive_execution.go, the         *)
(* start-up replay of hosting_storage_archive_replay.go, the durable       *)
(* journal, and the Docker engine's writers, helper and volumes.           *)
(*                                                                         *)
(* j    the runner's StorageArchive journal entries                        *)
(* e    the host: running writers, the helper container, archives in the   *)
(*      content store, target volumes, bindings deployed to                *)
(* x    the coordinator: its program counter, operation, attempt, owed     *)
(*      writers, whether it holds a helper nonce and id, and its result    *)
(* ask  a recovery request that has read the hold's owner and not yet      *)
(*      taken its locks                                                    *)
(*                                                                         *)
(* A journal append and the call that follows it are one step: nothing     *)
(* else reads the journal, and a crash between them is a lost call.        *)
(*                                                                         *)
(* The controller's half of owned-storage backups, restores into a new     *)
(* volume, and the recovery of either: the rows of migration 0068 and the  *)
(* transactions of postgres_hosting_storage_archive*.go as operators on    *)
(* one record d of rows.                                                   *)
(*                                                                         *)
(* d.op[o]      operation, plan, task and lease of archive operation o     *)
(* d.hold[b]    hosting_binding_state.hold_operation_id of binding b       *)
(* d.admitted   restore targets whose binding has restore_admitted d.blob  *)
(* backups with a row in hosting_storage_archive_blobs d.origin            *)
(* restore targets with a hosting_storage_restore_origins row, with the    *)
(* attempt that inserted it d.made       restore targets with a            *)
(* materialized row d.env        what archiveGate finds in place d.jobs    *)
(* operations with a River job                                             *)
(*                                                                         *)
(* A backup and its recoveries own the source binding; a restore owns the  *)
(* binding of its new resource, which the restore's name stands for.       *)
(***************************************************************************)
EXTENDS Naturals, Sequences, FiniteSets, SequencesExt

CONSTANTS Backups, Restores, Recoveries, Source, Writers, NoOp

Ops == Backups \cup Restores \cup Recoveries
Bindings == {Source} \cup Restores
Gate == {"owner", "config", "runner"}

Terminal == {"succeeded", "failed", "canceled"}
States == {"absent", "queued", "dispatched", "prepared", "applying", "cancel_requested",
           "reconciliation_required"} \cup Terminal
ProgressPhases == {"writer_snapshot", "stop_intent", "stopped", "helper_intent",
                   "helper_identified", "archive_published", "restore_verified",
                   "resume_intent", "resumed"}
Receipts == ProgressPhases \cup {"prepared", "apply_begin", "complete"}

(* HostingStorageArchiveResult without its blob, which the plan fixes. *)
Results == [arch : {"none", "succeeded", "failed", "not_attempted"},
            resume : {"not_needed", "resumed", "uncertain"}, unsure : BOOLEAN, verified : BOOLEAN]
NoResult == [arch |-> "none", resume |-> "not_needed", unsure |-> FALSE, verified |-> FALSE]

(* An operation with its immutable plan: root is the operation a recovery  *)
(* recovers (itself otherwise), snap the running writers of the snapshot   *)
(* the plan or its receipts carry, req RecoveryEvidence's                  *)
(* ResumeRequiredContainerIDs, and rcpt the receipts in order.             *)
Row == [state : States, root : Ops, snapped : BOOLEAN, snap : SUBSET Writers,
        req : SUBSET Writers, rcpt : Seq([phase : Receipts, att : Nat]),
        task : {"none", "queued", "running", "canceled", "succeeded", "failed"},
        att : Nat, lease : {"none", "active", "lapsed", "ended"}]

Absent(o) == [state |-> "absent", root |-> o, snapped |-> FALSE, snap |-> {}, req |-> {},
              rcpt |-> <<>>, task |-> "none", att |-> 0, lease |-> "none"]

NewRows == [op |-> [o \in Ops |-> Absent(o)], hold |-> [b \in Bindings |-> NoOp],
            admitted |-> {}, blob |-> {}, origin |-> [r \in Restores |-> 0], made |-> {},
            env |-> Gate, jobs |-> {}]

Mode(o) == IF o \in Backups THEN "backup" ELSE IF o \in Restores THEN "restore" ELSE "recover"
Root(d, o) == d.op[o].root
BindingOf(d, o) == IF Root(d, o) \in Restores THEN Root(d, o) ELSE Source
Target(d, o) == Root(d, o) \in Restores
Set(d, o, r) == [d EXCEPT !.op[o] = r]

(* RecoveryEvidence.Validate: the writers to resume ran at the snapshot,   *)
(* and without a snapshot there are none.                                  *)
ValidEvidence(r) == r.req \subseteq r.snap /\ (~r.snapped => r.snap = {} /\ r.req = {})

(* Plan.Validate: only a recovery names another operation, and only it     *)
(* carries evidence; a restore target has no writers.                      *)
ValidPlan(o, r) ==
    /\ r.state # "absent" => (r.root # o) = (Mode(o) = "recover")
    /\ Mode(o) # "recover" => r.req = {}
    /\ r.root \in Restores => r.snap = {}
    /\ Mode(o) = "recover" => ValidEvidence(r)

----------------------------------------------------------------------------
(* Queries.                                                                *)

ReadStorageArchiveHoldOwner(d, b) == d.hold[b]
ReadStorageArchiveHolds(d, o) == d.hold[BindingOf(d, o)] = o
AdmitStorageArchiveHold(d, b, o) == [d EXCEPT !.hold[b] = o]
TransferStorageArchiveHold(d, b, o, from) == IF d.hold[b] = from THEN [d EXCEPT !.hold[b] = o] ELSE d
ClearHostingMutationHold(d, b, o) == IF d.hold[b] = o THEN [d EXCEPT !.hold[b] = NoOp] ELSE d
ResolveStorageArchiveTargetHold(d, b, o) ==
    IF d.hold[b] = o THEN [d EXCEPT !.admitted = @ \cup {b}] ELSE d
ReserveStorageArchiveRestoreTarget(d, r) == [d EXCEPT !.hold[r] = r]
SetHostingOperationState(d, o, s) == [d EXCEPT !.op[o].state = s]
StorageArchiveHasPublishedBlob(d, o) == o \in d.blob
InsertStorageArchiveBlob(d, b) == [d EXCEPT !.blob = @ \cup {b}]
RecoverQueuedStorageArchives(d) == {o \in Ops : d.op[o].state = "queued"}
HostingBindingBusy(d, b) ==
    \E o \in Ops : /\ d.op[o].state \notin Terminal \cup {"absent"}
                   /\ BindingOf(d, o) = b

(* Mutant: a live lease is no obstacle. *)
LeaseNeverLive(d, o) == FALSE

(* Whether an attempt under the hold may still act. *)
HostingDeploymentLeaseLive(d, o) == d.op[o].lease = "active"

(* CancelHostingLeases and CancelHostingTask of the operation's run, when  *)
(* it has one.                                                             *)
CancelRun(d, o) ==
    IF d.op[o].task = "none" THEN d
    ELSE [d EXCEPT !.op[o].task = "canceled",
                   !.op[o].lease = IF @ \in {"active", "lapsed"} THEN "ended" ELSE @]

(* CompleteHostingLease and CompleteHostingTask. *)
CompleteRun(d, o, s) == [d EXCEPT !.op[o].task = s, !.op[o].lease = "ended"]

(* ReadStorageArchiveReceipt(s): a phase has at most one receipt, with the *)
(* authority that wrote it.                                                *)
Has(d, o, phase) == \E i \in DOMAIN d.op[o].rcpt : d.op[o].rcpt[i].phase = phase
ReceiptBy(d, o, phase, att) ==
    \E i \in DOMAIN d.op[o].rcpt : d.op[o].rcpt[i] = [phase |-> phase, att |-> att]
InsertStorageArchiveReceipt(d, o, att, phase) ==
    [d EXCEPT !.op[o].rcpt = Append(@, [phase |-> phase, att |-> att])]

(* archiveProgressByPhase's list: the last progress phase, or "". *)
Previous(d, o) ==
    LET s == SelectSeq(d.op[o].rcpt, LAMBDA r : r.phase \in ProgressPhases)
    IN  IF s = <<>> THEN "" ELSE Last(s).phase

----------------------------------------------------------------------------
(* The gate.                                                               *)

archivePlacement(d) == "owner" \in d.env
archiveConfigured(d) == "config" \in d.env
archiveRunner(d) == "runner" \in d.env

(* archiveGate: the creator still owns source and target, the server's     *)
(* helper and limits are the plan's, and the runner is still qualified.    *)
archiveGate(d) == archivePlacement(d) /\ archiveConfigured(d) /\ archiveRunner(d)

(* What a refused gate is to the runner: a missing runner row is 404 or    *)
(* 409, a lost role 403 and a missing configuration 503.                   *)
GateRefusal(d) == IF archivePlacement(d) /\ archiveConfigured(d) THEN "conflict" ELSE "error"

----------------------------------------------------------------------------
(* Requests.                                                               *)

(* archiveInsertPlan with the operation row. *)
archiveInsertPlan(d, o, root, snapped, snap, req) ==
    Set(d, o, [Absent(o) EXCEPT !.state = "queued", !.root = root, !.snapped = snapped,
                                !.snap = snap, !.req = req])

EnqueueStorageArchiveTx(d, o) == [d EXCEPT !.jobs = @ \cup {o}]

(* requestStorageBackupTx: no hold and no unfinished operation on the      *)
(* binding; the new operation takes the hold and gets its job.             *)
CanRequestBackup(d, b) ==
    /\ d.op[b].state = "absent"
    /\ archivePlacement(d) /\ archiveConfigured(d) /\ archiveRunner(d)
    /\ ReadStorageArchiveHoldOwner(d, Source) = NoOp
    /\ ~HostingBindingBusy(d, Source)

requestStorageBackupTx(d, b) ==
    EnqueueStorageArchiveTx(
        AdmitStorageArchiveHold(archiveInsertPlan(d, b, b, FALSE, {}, {}), Source, b), b)

(* RequestStorageRestore: of a succeeded backup, into a new resource whose *)
(* binding is born held and not admitted.                                  *)
CanRequestRestore(d, r, b) ==
    /\ d.op[r].state = "absent"
    /\ archiveGate(d)
    /\ d.op[b].state = "succeeded"
    /\ StorageArchiveHasPublishedBlob(d, b)

RequestStorageRestore(d, r) ==
    EnqueueStorageArchiveTx(
        ReserveStorageArchiveRestoreTarget(archiveInsertPlan(d, r, r, FALSE, {}, {}), r), r)

(* Mutant: an intent to resume counts as proof that the writers run. *)
EvidenceFromIntent(d, o, held) ==
    LET done == Has(d, held, "resume_intent")
    IN  IF held # o
        THEN [ok |-> TRUE, snapped |-> d.op[held].snapped, snap |-> d.op[held].snap,
              req |-> IF done THEN {} ELSE d.op[held].req]
        ELSE [ok |-> TRUE, snapped |-> d.op[o].snapped, snap |-> d.op[o].snap,
              req |-> IF Has(d, o, "stop_intent") /\ ~done THEN d.op[o].snap ELSE {}]

(* archiveRemainingRecoveryEvidence: the held recovery's remaining set     *)
(* less what its own resumed receipt proves; or, from the original, every  *)
(* running writer of the snapshot once a stop was intended and not yet     *)
(* followed by a resumed receipt.                                          *)
archiveRemainingRecoveryEvidence(d, o, held) ==
    IF held # o
    THEN [ok |-> TRUE, snapped |-> d.op[held].snapped, snap |-> d.op[held].snap,
          req |-> d.op[held].req \ (IF Has(d, held, "resumed") THEN d.op[held].snap ELSE {})]
    ELSE LET owes == Has(d, o, "stop_intent") /\ ~Has(d, o, "resumed")
         IN  [ok |-> owes => d.op[o].snapped, snapped |-> d.op[o].snapped,
              snap |-> d.op[o].snap, req |-> IF owes THEN d.op[o].snap ELSE {}]

(* RequestStorageArchiveRecovery: the hold is the original's or one of its *)
(* recoveries', read before the locks as seen and read again under them;   *)
(* no live lease may still act under it.                                   *)
CanRequestRecovery(d, n, o, seen) ==
    /\ d.op[n].state = "absent"
    /\ d.op[o].state \notin {"absent", "succeeded"}
    /\ archiveGate(d)
    /\ seen # NoOp /\ seen = d.hold[BindingOf(d, o)]
    /\ Root(d, seen) = o
    /\ ~HostingDeploymentLeaseLive(d, seen)
    /\ archiveRemainingRecoveryEvidence(d, o, seen).ok

RequestStorageArchiveRecovery(d, n, o, held) ==
    LET ev == archiveRemainingRecoveryEvidence(d, o, held)
        planned == archiveInsertPlan(d, n, o, ev.snapped, ev.snap, ev.req)
        moved == TransferStorageArchiveHold(planned, BindingOf(planned, n), n, held)
        fenced == CancelRun(moved, held)
    IN  EnqueueStorageArchiveTx(SetHostingOperationState(fenced, held, "reconciliation_required"), n)

(* Mutant: every cancellation clears the hold. *)
CancelAlways(d, o) ==
    ClearHostingMutationHold(CancelRun(SetHostingOperationState(d, o, "canceled"), o), BindingOf(d, o), o)

(* archiveCancel: only a backup with no recorded stop intent releases the  *)
(* binding at once; anything else keeps its hold for a recovery.           *)
archiveCancel(d, o) ==
    LET free == ~Target(d, o) /\ ~Has(d, o, "stop_intent") /\ Mode(o) # "recover"
        opened == IF free THEN ClearHostingMutationHold(d, BindingOf(d, o), o) ELSE d
    IN  SetHostingOperationState(CancelRun(opened, o), o, IF free THEN "canceled" ELSE "cancel_requested")

----------------------------------------------------------------------------
(* Dispatch and claim.                                                     *)

(* PrepareStorageArchive: task, target and dispatched state, once. *)
PrepareStorageArchive(d, o) ==
    IF d.op[o].state # "queued" THEN d
    ELSE [d EXCEPT !.op[o].task = "queued", !.op[o].state = "dispatched"]

archiveClaimAllowed(d, o) ==
    /\ d.op[o].task = "queued"
    /\ d.op[o].state \in {"dispatched", "prepared"}
    /\ archiveGate(d)

(* Mutant: the run's and the lease's states are swapped. *)
ClaimSwapped(d, o) ==
    [d EXCEPT !.op[o].task = "active", !.op[o].lease = "running", !.op[o].att = @ + 1]

(* The claim's lease: CreateLease and the run's running state. *)
ClaimRun(d, o) ==
    [d EXCEPT !.op[o].task = "running", !.op[o].lease = "active", !.op[o].att = @ + 1]

(* ExpireActiveLeasesForRun and RequeueExpiredRun: an archive run goes     *)
(* back to the queue whatever its operation's state.                       *)
expireLeasesAtDBClock(d, o) ==
    [d EXCEPT !.op[o].lease = "ended", !.op[o].task = IF @ = "running" THEN "queued" ELSE @]

----------------------------------------------------------------------------
(* The runner's protocol.                                                  *)

(* archiveAuthority: the exact lease tuple, live when the call is a fresh  *)
(* mutation.                                                               *)
archiveAuthority(d, o, att, live) ==
    /\ archiveGate(d)
    /\ att \in 1 .. d.op[o].att
    /\ live => att = d.op[o].att /\ d.op[o].lease = "active"

(* validateArchiveProgress: the order of phases the controller accepts. *)
validateArchiveProgress(d, o, phase) ==
    LET prev == Previous(d, o)
    IN  /\ d.op[o].state = "applying"
        /\ \/ /\ Mode(o) = "recover"
              /\ \/ phase = "resume_intent" /\ prev = "" /\ ~Target(d, o) /\ d.op[o].req # {}
                 \/ phase = "resumed" /\ prev = "resume_intent"
                 \/ phase = "restore_verified" /\ prev = "" /\ Target(d, o)
           \/ /\ Mode(o) = "backup"
              /\ \/ phase = "writer_snapshot" /\ prev = ""
                 \/ phase = "stop_intent" /\ prev = "writer_snapshot"
                 \/ phase = "stopped" /\ prev = "stop_intent"
                 \/ phase = "helper_intent" /\ prev = "stopped"
                 \/ phase = "archive_published" /\ prev = "helper_identified"
                 \/ phase = "resume_intent"
                    /\ prev \in {"stop_intent", "stopped", "helper_intent", "helper_identified", "archive_published"}
                 \/ phase = "resumed" /\ prev = "resume_intent"
           \/ /\ Mode(o) = "restore"
              /\ \/ phase = "helper_intent" /\ prev = ""
                 \/ phase = "restore_verified" /\ prev = "helper_identified"
           \/ Mode(o) # "recover" /\ phase = "helper_identified" /\ prev = "helper_intent"

(* archiveResumeProven: the result's resume outcome is what the receipts   *)
(* prove.                                                                  *)
archiveResumeProven(d, o, res) ==
    LET owed == IF Mode(o) = "recover" THEN d.op[o].req
                ELSE IF Has(d, o, "stop_intent") THEN d.op[o].snap ELSE {}
    IN  IF Target(d, o) \/ owed = {} THEN res.resume = "not_needed"
        ELSE res.resume = "resumed" /\ Has(d, o, "resumed")

CompleteAccepted(d, o, res) ==
    LET proven == archiveResumeProven(d, o, res)
    IN  /\ d.op[o].state \in {"applying", "prepared", "dispatched"}
        /\ proven \/ (res.unsure /\ res.resume = "uncertain")
        /\ ~(res.unsure /\ res.arch = "succeeded")
        /\ IF Mode(o) = "recover"
           THEN /\ res.arch = "not_attempted"
                /\ (Target(d, o) /\ res.verified) => Has(d, o, "restore_verified")
           ELSE IF res.arch = "succeeded"
           THEN /\ proven
                /\ Has(d, o, IF Target(d, o) THEN "restore_verified" ELSE "archive_published")
                /\ res.verified = Target(d, o)
           ELSE res.arch = "failed" /\ ~res.verified

(* Mutant: an uncertain completion clears the hold too. *)
ClearsAlways(d, o, res) == TRUE

(* When StorageArchiveComplete gives the binding back. *)
clearHold(d, o, res) ==
    archiveResumeProven(d, o, res) /\ ~res.unsure /\ (~Target(d, o) \/ res.verified)

(* Mutant: a clearing recovery reports its original as succeeded. *)
OriginalSucceeded(d, o, res) == "succeeded"

(* The state a clearing recovery leaves its original in. *)
OriginalState(d, o, res) ==
    IF StorageArchiveHasPublishedBlob(d, Root(d, o)) \/ (Target(d, o) /\ res.verified)
    THEN "succeeded" ELSE "failed"

(* StorageArchiveComplete's mutation. *)
StorageArchiveComplete(d, o, res) ==
    LET b == BindingOf(d, o)
        clear == clearHold(d, o, res)
        good == (Mode(o) = "recover" /\ clear) \/ res.arch = "succeeded"
        freed == IF clear
                 THEN ClearHostingMutationHold(
                          IF Target(d, o) THEN ResolveStorageArchiveTargetHold(d, b, o) ELSE d, b, o)
                 ELSE d
        state == IF good THEN "succeeded"
                 ELSE IF res.unsure \/ ~archiveResumeProven(d, o, res)
                 THEN "reconciliation_required" ELSE "failed"
        own == SetHostingOperationState(freed, o, state)
        all == IF Mode(o) = "recover" /\ clear
               THEN SetHostingOperationState(own, Root(d, o), OriginalState(d, o, res))
               ELSE own
    IN  CompleteRun(all, o, IF good THEN "succeeded" ELSE "failed")

(* The conditions each runner call adds to the common ones. *)
Accepted(d, o, phase, res) ==
    CASE phase = "prepared" -> d.op[o].state = "dispatched"
      [] phase = "apply_begin" -> /\ d.op[o].state = "prepared" /\ Has(d, o, "prepared")
                                  /\ d.hold[BindingOf(d, o)] = o
                                  /\ Mode(o) = "restore" => o \in d.made
      [] phase = "complete" -> CompleteAccepted(d, o, res)
      [] OTHER -> validateArchiveProgress(d, o, phase)

(* And the rows it changes; snap is the snapshot a writer_snapshot         *)
(* carries.                                                                *)
Effect(d, o, phase, snap, res) ==
    CASE phase = "prepared" -> SetHostingOperationState(d, o, "prepared")
      [] phase = "apply_begin" -> SetHostingOperationState(d, o, "applying")
      [] phase = "writer_snapshot" -> [d EXCEPT !.op[o].snapped = TRUE, !.op[o].snap = snap]
      [] phase = "archive_published" -> InsertStorageArchiveBlob(d, o)
      [] phase = "complete" -> StorageArchiveComplete(d, o, res)
      [] OTHER -> d

(* archiveMutation: an exact historical receipt is acknowledged under the  *)
(* dead lease of its own attempt, and a fresh one needs a live lease and   *)
(* an operation that is neither settled nor withdrawn.                     *)
archiveMutation(d, o, att, phase, snap, res) ==
    IF ~archiveAuthority(d, o, att, FALSE) THEN [reply |-> GateRefusal(d), d |-> d]
    ELSE IF Has(d, o, phase)
    THEN [reply |-> IF ReceiptBy(d, o, phase, att) THEN "ok" ELSE "conflict", d |-> d]
    ELSE IF /\ archiveAuthority(d, o, att, TRUE)
            /\ d.op[o].state \notin Terminal \cup {"cancel_requested", "reconciliation_required"}
            /\ Accepted(d, o, phase, res)
    THEN [reply |-> "ok",
          d |-> InsertStorageArchiveReceipt(Effect(d, o, phase, snap, res), o, att, phase)]
    ELSE [reply |-> "conflict", d |-> d]

(* archiveStorageCreateBegin: the first call of one attempt may create;    *)
(* a repetition by the same attempt only reads.                            *)
archiveStorageCreateBegin(d, o, att) ==
    IF ~archiveAuthority(d, o, att, TRUE) \/ d.op[o].state # "prepared" \/ d.origin[o] \notin {0, att}
    THEN [reply |-> "conflict", d |-> d, create |-> FALSE]
    ELSE [reply |-> "ok", d |-> [d EXCEPT !.origin[o] = att], create |-> d.origin[o] = 0]

archiveStorageMaterialized(d, o, att) ==
    IF /\ archiveAuthority(d, o, att, FALSE) /\ d.origin[o] = att
       /\ o \in d.made \/ (archiveAuthority(d, o, att, TRUE) /\ d.op[o].state = "prepared")
    THEN [reply |-> "ok", d |-> [d EXCEPT !.made = @ \cup {o}]]
    ELSE [reply |-> "conflict", d |-> d]

(* StorageArchivePlan and the checks of archiveCurrentAuthority on it. *)
archiveCurrentAuthority(d, o, att, hold) ==
    /\ archiveAuthority(d, o, att, TRUE)
    /\ ~Has(d, o, "complete")
    /\ hold => ReadStorageArchiveHolds(d, o) /\ d.op[o].state = "applying"

(* archiveLoadBackup: what a reader of the backup is shown. *)
archiveLoadBackup(d, b) == [state |-> d.op[b].state, blob |-> b \in d.blob]

-----------------------------------------------------------------------------
CONSTANTS Started,       \* the writers running at first
          Archives,      \* the backup that may have succeeded before, or NoOp for none
          MaxAttempts,   \* bound on the leases of one operation
          MaxFaults,     \* bound on lost calls, engine errors, crashes and early lapses
          Faults,        \* which of those a run has
          Changes        \* which requests of operators a run has

VARIABLES d, j, e, x, ask, faults

vars == <<d, j, e, x, ask, faults>>

Down == [pc |-> "down", op |-> NoOp, att |-> 0, owed |-> {}, nonce |-> FALSE, id |-> FALSE,
         failing |-> FALSE, create |-> FALSE, res |-> NoResult, todo |-> {}]
NoAsk == [on |-> FALSE, new |-> NoOp, of |-> NoOp, held |-> NoOp]

TypeOfJournal == [op : Ops, att : 1 .. MaxAttempts, res : Results,
                  phase : ProgressPhases \cup {"plan", "prepared", "apply_intent", "storage_create_intent",
                           "storage_materialized", "helper_unverified", "complete", "recovery_settlement"}]

Init ==
    /\ \E archive \in Archives :
           /\ d = IF archive = NoOp THEN NewRows
                  ELSE [NewRows EXCEPT !.op[archive].state = "succeeded", !.blob = {archive}]
           /\ e = [run |-> Started, helper |-> NoOp, cas |-> {archive} \ {NoOp},
                   vol |-> [r \in Restores |-> "absent"], used |-> {}]
    /\ j = {}
    /\ x = [Down EXCEPT !.pc = "idle"]
    /\ ask = NoAsk
    /\ faults = 0

----------------------------------------------------------------------------
(* The journal.                                                            *)

Entry(o, att, phase) == [op |-> o, att |-> att, phase |-> phase, res |-> NoResult]
AppendStorageArchive(phase) == j \cup {Entry(x.op, x.att, phase)}
OfAttempt(o, att) == {k \in j : k.op = o /\ k.att = att}
Journaled(o, phase) == \E k \in j : k.op = o /\ k.phase = phase

(* storageArchiveAttemptPlanOnly: no entry beyond the plan. *)
storageArchiveAttemptPlanOnly(k) == \A n \in OfAttempt(k.op, k.att) : n.phase = "plan"

(* Another archive operation of this storage is in the journal past its    *)
(* plan, and is not kin of the recovery about to run.                      *)
storageArchiveConflict(o) ==
    \E k \in j : /\ ~storageArchiveAttemptPlanOnly(k)
                 /\ k.op # o
                 /\ ~(Mode(o) = "recover" /\ Root(d, k.op) = Root(d, o))

(* Entries of the operation a recovery recovers and of its other           *)
(* recoveries: retireStorageArchiveRecovery's settlements and history.     *)
Kin(o) == {k \in j : k.op # o /\ Mode(o) = "recover" /\ Root(d, k.op) = Root(d, o)}

(* storageArchiveRecoverySource: the original's entries are here, carry    *)
(* the snapshot the evidence names and a stop intent for each writer       *)
(* owed, and no entry of the family already proves that writer resumed.    *)
storageArchiveRecoverySource(o) ==
    LET root == Root(d, o)
    IN  /\ \E k \in j : k.op = root
        /\ Journaled(root, "writer_snapshot") => d.op[o].snapped
        /\ Journaled(root, "helper_identified") \/ Journaled(root, "helper_unverified")
              => Journaled(root, "helper_intent")
        /\ d.op[o].req # {} =>
              /\ Journaled(root, "stop_intent")
              /\ ~\E k \in j : /\ k.phase = "resumed" /\ Root(d, k.op) = root
                               /\ k.op = root \/ d.op[k.op].req \cap d.op[o].req # {}

----------------------------------------------------------------------------
(* Calls of the runner to the controller.                                  *)

MayFail(kind) == kind \in Faults /\ faults < MaxFaults

(* A call's outcomes: its reply, or an error with or without its effect.   *)
Outcomes(c) ==
    {[d |-> c.d, ok |-> c.reply = "ok", cost |-> 0]} \cup
    (IF MayFail("lost") THEN {[d |-> r, ok |-> FALSE, cost |-> 1] : r \in {d, c.d}} ELSE {})

Goto(pc) == [x EXCEPT !.pc = pc]

(* archiveCoordinator.progress and the calls like it: journal, send, and   *)
(* go to good or bad.                                                      *)
Send(entry, phase, snap, good, bad) ==
    \E c \in Outcomes(archiveMutation(d, x.op, x.att, phase, snap, x.res)) :
        /\ j' = AppendStorageArchive(entry)
        /\ d' = c.d
        /\ faults' = faults + c.cost
        /\ x' = IF c.ok THEN good ELSE bad
        /\ UNCHANGED <<e, ask>>

progress(phase, good, bad) == Send(phase, phase, {}, good, bad)
Local == UNCHANGED <<d, j, ask>>
before == archiveCurrentAuthority(d, x.op, x.att, TRUE)

----------------------------------------------------------------------------
(* archiveCoordinator.                                                     *)

Claim(o) ==
    /\ x.pc = "idle" /\ archiveClaimAllowed(d, o) /\ d.op[o].att < MaxAttempts
    /\ d' = ClaimRun(d, o)
    /\ x' = [Down EXCEPT !.pc = "plan", !.op = o, !.att = d.op[o].att + 1]
    /\ UNCHANGED <<j, e, ask, faults>>

(* execute: held on conflicting evidence, else the plan entry and the      *)
(* engine's read-only Prepare.                                             *)
Plan ==
    /\ x.pc = "plan"
    /\ \/ /\ archiveCurrentAuthority(d, x.op, x.att, FALSE)
          /\ ~storageArchiveConflict(x.op)
          /\ j' = AppendStorageArchive("plan")
          /\ x' = Goto("prepare")
       \/ /\ ~archiveCurrentAuthority(d, x.op, x.att, FALSE) \/ storageArchiveConflict(x.op)
          /\ x' = Down
          /\ j' = j
    /\ UNCHANGED <<d, e, ask, faults>>

Prepare ==
    /\ x.pc = "prepare"
    /\ Send("prepared", "prepared", {}, Goto(IF Mode(x.op) = "restore" THEN "create" ELSE "apply"), Down)

(* materialize: the create intent, the volume and its proof. *)
CreateVolume ==
    /\ x.pc = "create"
    /\ LET c == archiveStorageCreateBegin(d, x.op, x.att)
       IN  \E o \in Outcomes(c) :
              /\ j' = AppendStorageArchive("storage_create_intent")
              /\ d' = o.d /\ faults' = faults + o.cost
              /\ x' = IF o.ok THEN [x EXCEPT !.pc = "volume", !.create = c.create] ELSE Down
              /\ UNCHANGED <<e, ask>>

EnsureRestoreVolume ==
    /\ x.pc = "volume"
    /\ IF /\ archiveCurrentAuthority(d, x.op, x.att, FALSE)
          /\ e.vol[x.op] = "empty" \/ (e.vol[x.op] = "absent" /\ x.create)
       THEN x' = Goto("materialized") /\ e' = [e EXCEPT !.vol[x.op] = "empty"]
       ELSE x' = Down /\ e' = e
    /\ Local /\ UNCHANGED faults

Materialized ==
    /\ x.pc = "materialized"
    /\ \E c \in Outcomes(archiveStorageMaterialized(d, x.op, x.att)) :
          /\ j' = AppendStorageArchive("storage_materialized")
          /\ d' = c.d /\ faults' = faults + c.cost
          /\ x' = IF c.ok THEN Goto("apply") ELSE Down
          /\ UNCHANGED <<e, ask>>

ApplyBegin ==
    /\ x.pc = "apply"
    /\ Send("apply_intent", "apply_begin", {},
            Goto(CASE Mode(x.op) = "backup" -> "snapshot"
                   [] Mode(x.op) = "restore" -> "helper"
                   [] OTHER -> "recover"), Down)

Result(arch, resume, unsure, verified) ==
    [arch |-> arch, resume |-> resume, unsure |-> unsure, verified |-> verified]
Finish(res) == [x EXCEPT !.pc = "finish", !.res = res]
Failing == Goto("fail")

(* Mutant: the snapshot lists every writer, running or not. *)
SnapshotAll ==
    /\ x.pc = "snapshot"
    /\ Send("writer_snapshot", "writer_snapshot", Writers, [x EXCEPT !.pc = "intent", !.owed = Writers], Down)

InspectWriters ==
    /\ x.pc = "snapshot"
    /\ \/ Send("writer_snapshot", "writer_snapshot", e.run, [x EXCEPT !.pc = "intent", !.owed = e.run], Down)
       \/ /\ MayFail("engine")
          /\ x' = Finish(Result("failed", "not_needed", FALSE, FALSE))
          /\ faults' = faults + 1
          /\ Local /\ UNCHANGED e

StopIntent == x.pc = "intent" /\ progress("stop_intent", Goto("stop"), Failing)

(* StopWriter on each owed writer, under current authority. *)
StopWriter ==
    /\ x.pc = "stop"
    /\ \/ /\ x.owed \cap e.run = {}
          /\ x' = Goto("stopped") /\ UNCHANGED <<e, faults>>
       \/ \E w \in x.owed \cap e.run :
            \/ before /\ e' = [e EXCEPT !.run = @ \ {w}] /\ UNCHANGED <<x, faults>>
            \/ ~before /\ x' = Failing /\ UNCHANGED <<e, faults>>
            \/ /\ MayFail("engine") /\ before
               /\ e' \in {e, [e EXCEPT !.run = @ \ {w}]}
               /\ x' = Failing /\ faults' = faults + 1
    /\ Local

Stopped == x.pc = "stopped" /\ progress("stopped", Goto("helper"), Failing)

HelperIntent == x.pc = "helper" /\ progress("helper_intent", Goto("create_helper"), Failing)

(* CreateHelper: under current authority and with no writer running; an    *)
(* error may leave the container with or without its identity known.       *)
CreateHelper ==
    /\ x.pc = "create_helper"
    /\ LET may == before /\ (Mode(x.op) = "backup" => e.run = {})
                         /\ (Mode(x.op) = "restore" => e.vol[x.op] = "empty")
       IN  \/ /\ may
              /\ e' = [e EXCEPT !.helper = x.op]
              /\ x' = [x EXCEPT !.pc = "identify", !.nonce = TRUE, !.id = TRUE]
              /\ UNCHANGED <<j, faults>>
           \/ /\ ~may
              /\ x' = [Failing EXCEPT !.nonce = TRUE]
              /\ UNCHANGED <<e, j, faults>>
           \/ /\ may /\ MayFail("engine")
              /\ faults' = faults + 1
              /\ \/ /\ e' \in {e, [e EXCEPT !.helper = x.op]}
                    /\ x' = [Failing EXCEPT !.nonce = TRUE]
                    /\ j' = j
                 \/ /\ e' = [e EXCEPT !.helper = x.op]
                    /\ x' = [Failing EXCEPT !.nonce = TRUE, !.id = TRUE]
                    /\ j' = AppendStorageArchive("helper_unverified")
    /\ UNCHANGED <<d, ask>>

Identify == x.pc = "identify" /\ progress("helper_identified", Goto("archive"), Failing)

(* Backup and Restore of the engine: the helper runs once; a failed        *)
(* extraction leaves the target partly written.                            *)
RunHelper ==
    /\ x.pc = "archive"
    /\ LET done == IF Mode(x.op) = "backup" THEN [e EXCEPT !.cas = @ \cup {x.op}]
                   ELSE [e EXCEPT !.vol[x.op] = "full"]
           part == IF Mode(x.op) = "backup" THEN e ELSE [e EXCEPT !.vol[x.op] = "partial"]
       IN  \/ before /\ e' = done /\ x' = Goto("publish") /\ UNCHANGED faults
           \/ ~before /\ e' = e /\ x' = Failing /\ UNCHANGED faults
           \/ MayFail("engine") /\ before /\ e' = part /\ x' = Failing /\ faults' = faults + 1
    /\ Local

Publish ==
    /\ x.pc = "publish"
    /\ progress(IF Mode(x.op) = "backup" THEN "archive_published" ELSE "restore_verified",
                Goto("cleanup"), Failing)

(* Mutant: the writers are resumed while the helper still exists. *)
ResumeFirst ==
    /\ x.pc = "cleanup" /\ x' = Goto("resume") /\ Local /\ UNCHANGED <<e, faults>>

CleanupHelper ==
    /\ x.pc = "cleanup"
    /\ \/ before /\ e' = [e EXCEPT !.helper = NoOp] /\ x' = Goto("resume") /\ UNCHANGED faults
       \/ ~before /\ x' = Failing /\ UNCHANGED <<e, faults>>
       \/ MayFail("engine") /\ x' = Failing /\ UNCHANGED e /\ faults' = faults + 1
    /\ Local

(* What a coordinator reports once the owed writers run, and when they do  *)
(* not: recover returns held, run and fail report an uncertain outcome.    *)
ResumeDone ==
    LET how == IF x.owed = {} THEN "not_needed" ELSE "resumed"
        part == Target(d, x.op)
    IN  CASE Mode(x.op) = "recover" -> Finish(Result("not_attempted", how, part, FALSE))
          [] Mode(x.op) # "recover" /\ x.failing -> Finish(Result("failed", how, x.nonce /\ part, FALSE))
          [] OTHER -> Finish(Result("succeeded", how, FALSE, part))
ResumeFailed ==
    IF Mode(x.op) = "recover" THEN Down ELSE Finish(Result("failed", "uncertain", TRUE, FALSE))

Resume ==
    /\ x.pc = "resume"
    /\ IF x.owed = {} THEN x' = ResumeDone /\ Local /\ UNCHANGED <<e, faults>>
       ELSE progress("resume_intent", Goto("resuming"), ResumeFailed)

ResumeWriter ==
    /\ x.pc = "resuming"
    /\ \/ /\ x.owed \subseteq e.run
          /\ x' = Goto("resumed") /\ UNCHANGED <<e, faults>>
       \/ \E w \in x.owed \ e.run :
            \/ before /\ e' = [e EXCEPT !.run = @ \cup {w}] /\ UNCHANGED <<x, faults>>
            \/ ~before /\ x' = ResumeFailed /\ UNCHANGED <<e, faults>>
            \/ /\ MayFail("engine") /\ before
               /\ e' \in {e, [e EXCEPT !.run = @ \cup {w}]}
               /\ x' = ResumeFailed /\ faults' = faults + 1
    /\ Local

Resumed == x.pc = "resumed" /\ progress("resumed", ResumeDone, ResumeFailed)

(* Mutant: a failing attempt resumes whatever became of its helper. *)
FailResumes ==
    /\ x.pc = "fail"
    /\ x' = [x EXCEPT !.pc = "resume", !.failing = TRUE]
    /\ Local /\ UNCHANGED <<e, faults>>

(* fail: only a journaled stop intent creates an obligation, the helper    *)
(* must be gone before a writer is resumed, and what cannot be proved is   *)
(* reported as uncertain.                                                  *)
Fail ==
    /\ x.pc = "fail"
    /\ LET owed == IF \E k \in OfAttempt(x.op, x.att) : k.phase = "stop_intent" THEN x.owed ELSE {}
           removed == x.id /\ before
           quiet == ~x.nonce \/ removed
       IN  /\ e' = IF removed THEN [e EXCEPT !.helper = NoOp] ELSE e
           /\ x' = IF quiet THEN [x EXCEPT !.pc = "resume", !.failing = TRUE, !.owed = owed]
                   ELSE [Finish(Result("failed", IF owed = {} THEN "not_needed" ELSE "uncertain", TRUE, FALSE))
                            EXCEPT !.owed = owed]
    /\ Local /\ UNCHANGED faults

(* recover: remove exactly the original's helper, then resume the writers  *)
(* the controller still requires.                                          *)
Recover ==
    /\ x.pc = "recover"
    /\ LET root == Root(d, x.op)
           intent == Journaled(root, "helper_intent")
           known == Journaled(root, "helper_identified") \/ Journaled(root, "helper_unverified")
       IN  IF storageArchiveRecoverySource(x.op) /\ (intent => known /\ before)
           THEN /\ e' = IF intent /\ e.helper = root THEN [e EXCEPT !.helper = NoOp] ELSE e
                /\ x' = [x EXCEPT !.pc = "resume", !.owed = d.op[x.op].req]
           ELSE x' = Down /\ e' = e
    /\ Local /\ UNCHANGED faults

(* op.MutationHold or op.RestoreOwnershipHeld of the answered operation. *)
Held(r, o) == ReadStorageArchiveHolds(r, o) \/ (Target(r, o) /\ Root(r, o) \notin r.admitted)

(* finish: the completion is durable before it is sent. *)
Complete ==
    /\ x.pc = "finish"
    /\ \E c \in Outcomes(archiveMutation(d, x.op, x.att, "complete", {}, x.res)) :
          /\ j' = j \cup {[Entry(x.op, x.att, "complete") EXCEPT !.res = x.res]}
          /\ d' = c.d /\ faults' = faults + c.cost
          /\ x' = IF c.ok /\ ~x.res.unsure /\ ~Held(c.d, x.op) THEN Goto("retire_kin") ELSE Down
          /\ UNCHANGED <<e, ask>>

(* retireStorageArchiveAttempt and retireStorageArchiveRecovery: the       *)
(* family's history, then the attempt, and its completion last.            *)
RetireKin ==
    /\ x.pc = "retire_kin"
    /\ j' = (j \ Kin(x.op)) \cup
            (IF Mode(x.op) = "recover" THEN {Entry(x.op, x.att, "recovery_settlement")} ELSE {})
    /\ x' = Goto("retire_own") /\ UNCHANGED <<d, e, ask, faults>>
RetireOwn ==
    /\ x.pc = "retire_own"
    /\ j' = j \ {k \in OfAttempt(x.op, x.att) : k.phase # "complete"}
    /\ x' = Goto("retire_last") /\ UNCHANGED <<d, e, ask, faults>>
RetireLast ==
    /\ x.pc = "retire_last"
    /\ j' = j \ OfAttempt(x.op, x.att)
    /\ x' = [Down EXCEPT !.pc = "idle"] /\ UNCHANGED <<d, e, ask, faults>>

----------------------------------------------------------------------------
(* Crash, restart and replay.                                              *)

Crash ==
    /\ MayFail("crash") /\ x.pc \notin {"down", "idle"}
    /\ x' = Down /\ faults' = faults + 1
    /\ UNCHANGED <<d, j, e, ask>>

Restart ==
    /\ x.pc = "down"
    /\ x' = [Down EXCEPT !.pc = "start", !.todo = {[op |-> k.op, att |-> k.att] : k \in j}]
    /\ UNCHANGED <<d, j, e, ask, faults>>

Completion(a) == {k \in OfAttempt(a.op, a.att) : k.phase = "complete"}
SettledRecovery(a) == Mode(a.op) = "recover" /\ \E k \in Completion(a) : ~k.res.unsure

(* The saved requests of an attempt, in the order they were journaled,     *)
(* each replayed until one is refused.                                     *)
ReplayOrder == <<"prepared", "storage_materialized", "writer_snapshot", "stop_intent", "stopped",
                 "helper_intent", "helper_identified", "archive_published", "restore_verified",
                 "resume_intent", "resumed">>
Replay(a) ==
    LET saved == SelectSeq(ReplayOrder, LAMBDA p : Entry(a.op, a.att, p) \in j)
        \* The saved snapshot is Started: a writer down at a snapshot would be owed
        \* to another operation's hold (StoppedIsOwed), which refuses this one.
        one(acc, p) == IF acc.reply # "ok" THEN acc
                       ELSE IF p = "storage_materialized" THEN archiveStorageMaterialized(acc.d, a.op, a.att)
                       ELSE archiveMutation(acc.d, a.op, a.att, p, Started, NoResult)
    IN  FoldLeft(one, [reply |-> "ok", d |-> d], saved)

(* storageArchivePreparedTerminal: an attempt that never got past prepared *)
(* of an operation that ended without its hold.                            *)
storageArchivePreparedTerminal(a) ==
    /\ Mode(a.op) # "recover"
    /\ d.op[a.op].state \in {"canceled", "failed"} /\ ~Held(d, a.op)
    /\ ReceiptBy(d, a.op, "prepared", a.att)
    /\ \A k \in OfAttempt(a.op, a.att) : k.phase \in {"plan", "prepared"}

(* Mutant: a completion is retired whether or not the hold is gone. *)
RetireUnsure(a) ==
    /\ x.pc = "start" /\ a \in x.todo
    /\ j' = j \ (IF Completion(a) # {} THEN OfAttempt(a.op, a.att) \cup Kin(a.op) ELSE {})
    /\ x' = [x EXCEPT !.todo = @ \ {a}]
    /\ UNCHANGED <<d, e, ask, faults>>

(* reconcileStorageArchiveJournal, one attempt: a saved completion wins    *)
(* over every intent; a refusal leaves the evidence; any other error ends  *)
(* the process.                                                            *)
Reconcile(a) ==
    /\ x.pc = "start" /\ a \in x.todo
    /\ SettledRecovery(a) \/ \A b \in x.todo : ~SettledRecovery(b)
    /\ LET done == Completion(a)
           c == IF done = {} THEN Replay(a)
                ELSE archiveMutation(d, a.op, a.att, "complete", {}, (CHOOSE k \in done : TRUE).res)
           retires == /\ c.reply = "ok"
                      /\ IF done = {} THEN storageArchivePreparedTerminal(a)
                         ELSE (\A k \in done : ~k.res.unsure) /\ ~Held(c.d, a.op)
       IN  \/ /\ d' = c.d
              /\ j' = IF retires THEN j \ (OfAttempt(a.op, a.att) \cup (IF done = {} THEN {} ELSE Kin(a.op)))
                      ELSE j
              /\ x' = IF c.reply = "error" THEN Down ELSE [x EXCEPT !.todo = @ \ {a}]
              /\ UNCHANGED faults
           \/ /\ MayFail("lost") /\ d' \in {d, c.d} /\ j' = j /\ x' = Down /\ faults' = faults + 1
    /\ UNCHANGED <<e, ask>>

Ready == x.pc = "start" /\ x.todo = {} /\ x' = [Down EXCEPT !.pc = "idle"]
         /\ UNCHANGED <<d, j, e, ask, faults>>

----------------------------------------------------------------------------
(* The controller's own steps and its operators.                           *)

Rows(r) == d' = r /\ UNCHANGED <<j, e, x, ask, faults>>

RequestBackup(b) == CanRequestBackup(d, b) /\ Rows(requestStorageBackupTx(d, b))
RequestRestore(r) ==
    /\ \E b \in Backups : CanRequestRestore(d, r, b)
    /\ Rows(RequestStorageRestore(d, r))

(* The worker's attempt, which River repeats until the gate lets it pass.  *)
Dispatch(o) ==
    /\ o \in d.jobs /\ archiveGate(d)
    /\ Rows([PrepareStorageArchive(d, o) EXCEPT !.jobs = @ \ {o}])
DiscardJob(o) ==
    /\ MayFail("job") /\ o \in d.jobs
    /\ d' = [d EXCEPT !.jobs = @ \ {o}] /\ faults' = faults + 1 /\ UNCHANGED <<j, e, x, ask>>
recoverArchiveDispatch ==
    /\ archiveConfigured(d) /\ ~(RecoverQueuedStorageArchives(d) \subseteq d.jobs)
    /\ Rows([d EXCEPT !.jobs = @ \cup RecoverQueuedStorageArchives(d)])

(* The hold's owner is read before the task locks. *)
ReadHold(n, o) ==
    /\ "recover" \in Changes /\ ~ask.on
    /\ d.op[n].state = "absent" /\ d.op[o].state \notin {"absent", "succeeded"}
    /\ d.hold[BindingOf(d, o)] # NoOp
    /\ ~HostingDeploymentLeaseLive(d, d.hold[BindingOf(d, o)])
    /\ ask' = [on |-> TRUE, new |-> n, of |-> o, held |-> ReadStorageArchiveHoldOwner(d, BindingOf(d, o))]
    /\ UNCHANGED <<d, j, e, x, faults>>
RequestRecovery ==
    /\ ask.on /\ ask' = NoAsk
    /\ d' = IF CanRequestRecovery(d, ask.new, ask.of, ask.held)
            THEN RequestStorageArchiveRecovery(d, ask.new, ask.of, ask.held) ELSE d
    /\ UNCHANGED <<j, e, x, faults>>

Cancel(o) ==
    /\ "cancel" \in Changes /\ archivePlacement(d)
    /\ d.op[o].state \notin Terminal \cup {"absent", "cancel_requested"}
    /\ Rows(archiveCancel(d, o))

(* An owner, the configuration or the runner's qualification goes and      *)
(* comes back.                                                             *)
GateChanges(g) ==
    /\ \/ /\ g \in d.env /\ MayFail("gate")
          /\ d' = [d EXCEPT !.env = @ \ {g}] /\ faults' = faults + 1
       \/ /\ g \notin d.env
          /\ d' = [d EXCEPT !.env = @ \cup {g}] /\ UNCHANGED faults
    /\ UNCHANGED <<j, e, x, ask>>

(* A lease lapses when its runner no longer works on the attempt, or, as a *)
(* fault, while it does.                                                   *)
Lapse(o) ==
    /\ d.op[o].lease = "active"
    /\ \/ x.op # o /\ UNCHANGED faults
       \/ x.op = o /\ MayFail("lapse") /\ faults' = faults + 1
    /\ d' = [d EXCEPT !.op[o].lease = "lapsed"]
    /\ UNCHANGED <<j, e, x, ask>>
Sweep(o) == d.op[o].lease = "lapsed" /\ Rows(expireLeasesAtDBClock(d, o))

(* An ordinary deployment (HostingOperations) needs a binding without a    *)
(* hold and admitted after a restore; it starts the release's writers.     *)
Deploy(b) ==
    /\ "deploy" \in Changes
    /\ d.hold[b] = NoOp /\ (b \in Restores => b \in d.admitted)
    /\ e' = [e EXCEPT !.used = @ \cup {b}, !.run = IF b = Source THEN @ \cup Started ELSE @]
    /\ UNCHANGED <<d, j, x, ask, faults>>

Coordinator ==
    \/ Plan \/ Prepare \/ CreateVolume \/ EnsureRestoreVolume \/ Materialized \/ ApplyBegin
    \/ InspectWriters \/ StopIntent \/ StopWriter \/ Stopped \/ HelperIntent \/ CreateHelper
    \/ Identify \/ RunHelper \/ Publish \/ CleanupHelper \/ Resume \/ ResumeWriter \/ Resumed
    \/ Fail \/ Recover \/ Complete \/ RetireKin \/ RetireOwn \/ RetireLast
Runner ==
    \/ Coordinator \/ Restart \/ Ready
    \/ \E o \in Ops : Claim(o)
    \/ \E a \in x.todo : Reconcile(a)
Server ==
    \/ \E o \in Ops : Dispatch(o) \/ Sweep(o)
    \/ recoverArchiveDispatch

Next ==
    \/ Runner \/ Server \/ Crash
    \/ \E b \in Backups : RequestBackup(b)
    \/ \E r \in Restores : RequestRestore(r)
    \/ \E n \in Recoveries, o \in Backups \cup Restores : ReadHold(n, o)
    \/ RequestRecovery
    \/ \E o \in Ops : Cancel(o) \/ DiscardJob(o) \/ Lapse(o)
    \/ \E g \in Gate : GateChanges(g)
    \/ \E b \in Bindings : Deploy(b)

Spec == Init /\ [][Next]_vars

----------------------------------------------------------------------------
(* Properties.                                                             *)

STypeOK ==
    /\ \A o \in Ops : d.op[o] \in Row /\ ValidPlan(o, d.op[o])
    /\ d.hold \in [Bindings -> Ops \cup {NoOp}]
    /\ d.blob \subseteq Backups /\ d.admitted \subseteq Restores /\ d.made \subseteq Restores
    /\ d.env \subseteq Gate /\ d.jobs \subseteq Ops
    /\ j \subseteq TypeOfJournal
    /\ e.run \subseteq Writers /\ e.helper \in Ops \cup {NoOp} /\ e.cas \subseteq Backups
    /\ e.vol \in [Restores -> {"absent", "empty", "partial", "full"}]
    /\ x.op \in Ops \cup {NoOp} /\ x.owed \subseteq Writers /\ x.res \in Results
    /\ faults \in 0 .. MaxFaults

(* While a helper reads the source volume no writer of it runs, whatever   *)
(* fails, is canceled, lapses or is recovered meanwhile (CreateHelper,     *)
(* fail's quiescence, recover's cleanup before resume, and the hold that   *)
(* keeps deployments out).                                                 *)
HelperIsAlone == e.helper \in Backups => e.run = {}

(* A writer the archive stopped is owed to it: the source binding is held  *)
(* by an operation whose receipts or recovery evidence name the writer, so *)
(* that no settlement forgets an outage and a recovery may end it.         *)
OwedBy(o) == IF Mode(o) = "recover" THEN d.op[o].req
             ELSE IF Has(d, o, "stop_intent") THEN d.op[o].snap ELSE {}
StoppedIsOwed ==
    Started \ e.run # {} =>
        /\ d.hold[Source] # NoOp
        /\ Started \ e.run \subseteq OwedBy(d.hold[Source])

(* And the runner still has the evidence a recovery needs: the journaled   *)
(* stop intent of the operation whose hold it is.                          *)
StoppedIsJournaled ==
    Started \ e.run # {} => Journaled(Root(d, d.hold[Source]), "stop_intent")

(* No writer that was down when the archive began is started by a resume   *)
(* (the owed set is the snapshot's running writers).                       *)
OnlyItsOwn == e.run \subseteq Started

(* A backup its reader sees as succeeded has a published archive, which is *)
(* in the runner's store, also when a recovery settled it.                 *)
SucceededIsArchived ==
    \A b \in Backups :
        archiveLoadBackup(d, b).state = "succeeded" => archiveLoadBackup(d, b).blob /\ b \in e.cas

(* A restore target is opened to deployments only when its volume holds    *)
(* the whole archive.                                                      *)
RestoreIsWhole ==
    \A r \in Restores : r \in d.admitted \cup e.used => e.vol[r] = "full"

(* A hold passes only within one family: to nobody, or from an operation   *)
(* without a live lease to a recovery of the same original.                *)
HoldStaysInFamily ==
    [][\A b \in Bindings :
          LET was == d.hold[b] now == d'.hold[b]
          IN  was # NoOp /\ now # was /\ now # NoOp =>
                /\ Mode(now) = "recover" /\ d'.op[now].root = Root(d, was)
                /\ d.op[was].lease # "active"]_vars

(* A writer that ran at first and does not. *)
Away(w) == w \in Started \ e.run
=============================================================================
