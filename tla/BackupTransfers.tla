--------------------------- MODULE BackupTransfers ---------------------------
(***************************************************************************)
(* Remote copies of one database backup: versioned targets with their      *)
(* credentials, the validation of a target, the upload that follows a      *)
(* local backup, its retries, and the download a restore waits for.  Each  *)
(* is a transfer with one task, one lease and durable receipts; the runner *)
(* performs it against an object store under a short credential grant.     *)
(* All transfers name one object: the archive of the backup at the pinned  *)
(* target revision.                                                        *)
(***************************************************************************)
EXTENDS Naturals, FiniteSets

CONSTANTS Uploads,     \* upload transfers; First follows the local backup
          First,
          Validations, \* validation transfers
          Downloads,   \* download transfers, each of a restore of its own
          MaxRevision, \* edits of the target
          MaxFaults,   \* crashes, lost messages, expired leases, failed requests
          MaxChanges   \* changes of the owner's authority

(* The constants satisfy:
     /\ First \in Uploads
     /\ Uploads \cap Validations = {} /\ Uploads \cap Downloads = {}
     /\ Validations \cap Downloads = {}
     /\ MaxRevision \in Nat \ {0} /\ MaxFaults \in Nat /\ MaxChanges \in Nat *)

Transfers == Uploads \cup Validations \cup Downloads
Revisions == 1 .. MaxRevision
NoTransfer == "none"
Settled == {"succeeded", "failed", "uncertain"}
(* "interrupted" is the phase uncertain with that failure code.            *)
Phases == {"intent", "complete", "failed", "uncertain", "interrupted"}
Results == Phases \ {"intent"}

VARIABLES target,     \* revision and enablement of the target, 0 before creation
          keys,       \* the credential pair each revision refers to
          revoked,    \* credential pairs that were replaced
          owner,      \* the actor is owner, granted, on an active runner
          backup,     \* the local backup: none, running, succeeded
          pinned,     \* the target revision the backup selected
          restore,    \* restore operations: none, waiting, ready, uncertain
          xfer,       \* the transfer rows
          job,        \* River jobs
          lease, receipts,
          copies,     \* uploads whose remote copy is registered as created
          pc, cur, sent, own, outcome,   \* the runner's process
          journal,    \* its durable entries <<transfer, phase>>
          object, creator,   \* what the object store holds, and whose Put made it
          inflight,   \* uploads whose Put may still take effect
          staged,     \* downloads with a private partial file
          fetched,    \* downloads published into the local archive
          late,       \* requests made since a check of authority that is lost now
          faults, changes

admin == <<target, keys, revoked, owner, backup, pinned, restore>>
rows == <<xfer, job, lease, receipts, copies>>
runner == <<pc, cur, sent, own, outcome, journal>>
store == <<object, creator, inflight, staged, fetched>>
vars == <<admin, rows, runner, store, late, faults, changes>>

(* The table row: pinned revision and lifecycle.                           *)
TransferRow == [state : {"none", "queued", "dispatched", "applying"} \cup Settled,
                rev : 0 .. MaxRevision]

Init ==
    /\ target = [rev |-> 0, enabled |-> FALSE]
    /\ keys = [r \in Revisions |-> 0] /\ revoked = {}
    /\ owner = TRUE
    /\ backup = "none" /\ pinned = 0
    /\ restore = [d \in Downloads |-> "none"]
    /\ xfer = [t \in Transfers |-> [state |-> "none", rev |-> 0]]
    /\ job = [t \in Transfers |-> "none"]
    /\ lease = [t \in Transfers |-> "none"]
    /\ receipts = [t \in Transfers |-> {}]
    /\ copies = {}
    /\ pc = "idle" /\ cur = NoTransfer /\ sent = FALSE /\ own = FALSE
    /\ outcome = "none" /\ journal = {}
    /\ object \in {"missing", "other"} /\ creator = NoTransfer
    /\ inflight = {} /\ staged = {} /\ fetched = {}
    /\ late = 0 /\ faults = 0 /\ changes = 0

Fault == faults < MaxFaults /\ faults' = faults + 1

-----------------------------------------------------------------------------
(* Targets and their credentials.                                          *)

ReadDatabaseBackupTargetSnapshot(r) == r \in 1 .. target.rev

LockDatabaseBackupTargetRevision == target.rev

LockDatabaseBackupTargetAuthority == target.rev > 0 /\ target.enabled

LockDatabaseBackupRemoteCredential(k) == k \notin revoked

backupRemoteTargetSnapshot(r) == keys[r]

backupRemoteCredentialRecord(k) == k > 0 /\ LockDatabaseBackupRemoteCredential(k)

LockDatabaseBackupRemoteDestination == owner
LockDatabaseBackupRemoteRunner == owner

(* Restore and retry use the historical revision: enablement is the        *)
(* target's of now, the keys are those the revision named.                 *)
backupRemoteCurrent(r) ==
    /\ owner
    /\ LockDatabaseBackupTargetAuthority
    /\ ReadDatabaseBackupTargetSnapshot(r)
    /\ backupRemoteCredentialRecord(backupRemoteTargetSnapshot(r))
    /\ LockDatabaseBackupRemoteDestination /\ LockDatabaseBackupRemoteRunner

Newest == target.rev

CreateDatabaseBackupTargetVersion(r, k) == keys' = [keys EXCEPT ![r] = k]

RevokeDatabaseBackupRemoteCredentials(k) == revoked' = revoked \cup {k}

UpdateDatabaseBackupTarget(r, on) == target' = [rev |-> r, enabled |-> on]

CreateDatabaseBackupTarget(on) == target' = [rev |-> 1, enabled |-> on]

insertBackupRemoteCredential == target.rev + 1

(* A save with new keys revokes the pair of the revision it replaces; one  *)
(* that only edits the location carries the references over.               *)
SaveDatabaseBackupTarget(on, replace) ==
    /\ owner /\ target.rev < MaxRevision
    /\ IF target.rev = 0
       THEN /\ replace /\ CreateDatabaseBackupTarget(on)
            /\ CreateDatabaseBackupTargetVersion(1, insertBackupRemoteCredential)
            /\ UNCHANGED revoked
       ELSE /\ UpdateDatabaseBackupTarget(target.rev + 1, on)
            /\ IF replace
               THEN /\ RevokeDatabaseBackupRemoteCredentials(backupRemoteTargetSnapshot(Newest))
                    /\ CreateDatabaseBackupTargetVersion(target.rev + 1, insertBackupRemoteCredential)
               ELSE /\ CreateDatabaseBackupTargetVersion(target.rev + 1, backupRemoteTargetSnapshot(Newest))
                    /\ UNCHANGED revoked
    /\ UNCHANGED <<owner, backup, pinned, restore, rows, runner, store, late,
                   faults, changes>>

ChangeOwner ==
    /\ changes < MaxChanges /\ changes' = changes + 1
    /\ owner' = ~ owner
    /\ UNCHANGED <<target, keys, revoked, backup, pinned, restore, rows, runner,
                   store, late, faults>>

-----------------------------------------------------------------------------
(* Admission.                                                              *)

EnqueueDatabaseBackupTransferTx(t) == job' = [job EXCEPT ![t] = "pending"]

CreateDatabaseBackupTransfer(t, r) ==
    xfer' = [xfer EXCEPT ![t] = [state |-> "queued", rev |-> r]]

backupRemoteInsert(t, r) ==
    /\ xfer[t].state = "none"
    /\ CreateDatabaseBackupTransfer(t, r)
    /\ EnqueueDatabaseBackupTransferTx(t)
    /\ UNCHANGED <<lease, receipts, copies>>

ValidateDatabaseBackupTarget(v) ==
    /\ backupRemoteCurrent(LockDatabaseBackupTargetRevision)
    /\ backupRemoteInsert(v, LockDatabaseBackupTargetRevision)
    /\ UNCHANGED <<admin, runner, store, late, faults, changes>>

DatabaseBackupRemoteTargetValidated(r) ==
    \E v \in Validations : xfer[v].state = "succeeded" /\ xfer[v].rev = r

(* A backup may select only the current revision, validated where it runs. *)
backupRemoteSelect ==
    /\ backup = "none"
    /\ DatabaseBackupRemoteTargetValidated(LockDatabaseBackupTargetRevision)
    /\ backupRemoteCurrent(LockDatabaseBackupTargetRevision)
    /\ backup' = "running" /\ pinned' = LockDatabaseBackupTargetRevision
    /\ UNCHANGED <<target, keys, revoked, owner, restore, rows, runner, store,
                   late, faults, changes>>

(* Local success and the queued upload commit together, whatever became of *)
(* the target meanwhile.                                                   *)
backupRemoteLocalComplete ==
    /\ backup = "running" /\ backup' = "succeeded"
    /\ backupRemoteInsert(First, pinned)
    /\ UNCHANGED <<target, keys, revoked, owner, pinned, restore, runner, store,
                   late, faults, changes>>

ReadLatestDatabaseBackupUpload(u) ==
    /\ xfer[u].state # "none"
    /\ Cardinality({x \in Uploads : xfer[x].state # "none"}) = 1
       \/ u # First

(* Mutant: an upload may be retried while it is still under way.           *)
MutRetryAnyState(u, n) ==
    /\ ReadLatestDatabaseBackupUpload(u) /\ backup = "succeeded"
    /\ backupRemoteCurrent(xfer[u].rev)
    /\ backupRemoteInsert(n, xfer[u].rev)
    /\ UNCHANGED <<admin, runner, store, late, faults, changes>>

RetryDatabaseBackupTransfer(u, n) ==
    /\ ReadLatestDatabaseBackupUpload(u)
    /\ xfer[u].state \in {"failed", "uncertain"} /\ backup = "succeeded"
    /\ backupRemoteCurrent(xfer[u].rev)
    /\ backupRemoteInsert(n, xfer[u].rev)
    /\ UNCHANGED <<admin, runner, store, late, faults, changes>>

(* The restore is created waiting, with the download that feeds it.        *)
backupRemoteRestoreAdmit(d, u) ==
    /\ restore[d] = "none" /\ xfer[u].state = "succeeded"
    /\ backupRemoteCurrent(xfer[u].rev)
    /\ restore' = [restore EXCEPT ![d] = "waiting"]
    /\ backupRemoteInsert(d, xfer[u].rev)
    /\ UNCHANGED <<target, keys, revoked, owner, backup, pinned, runner, store,
                   late, faults, changes>>

(* Mutant: the restore does not wait for its own download.                 *)
MutRestoreSkipsDownload(d) ==
    /\ restore[d] = "waiting"
    /\ restore' = [restore EXCEPT ![d] = "ready"]
    /\ UNCHANGED <<target, keys, revoked, owner, backup, pinned, rows, runner,
                   store, late, faults, changes>>

ReadDatabaseBackupDownloadState(d) ==
    /\ restore[d] = "waiting" /\ xfer[d].state \in Settled
    /\ restore' = [restore EXCEPT ![d] =
                      IF xfer[d].state = "succeeded" THEN "ready" ELSE "uncertain"]
    /\ UNCHANGED <<target, keys, revoked, owner, backup, pinned, rows, runner,
                   store, late, faults, changes>>

-----------------------------------------------------------------------------
(* The River job, the claim and the lease.                                 *)

SetState(t, s) == xfer' = [xfer EXCEPT ![t].state = s]

FailDatabaseBackupTransferAuthority(t) == SetState(t, "failed")

(* Mutant: the row is given a state no reader knows.                       *)
MutDispatchState(t) == SetState(t, "assigned")

DispatchDatabaseBackupTransfer(t) == SetState(t, "dispatched")

(* Denied authority settles a queued transfer; nothing has run.            *)
PrepareDatabaseBackupTransfer(t) ==
    /\ job[t] = "pending" /\ job' = [job EXCEPT ![t] = "gone"]
    /\ IF xfer[t].state # "queued" THEN UNCHANGED xfer
       ELSE IF backupRemoteCurrent(xfer[t].rev) THEN DispatchDatabaseBackupTransfer(t)
       ELSE FailDatabaseBackupTransferAuthority(t)
    /\ UNCHANGED <<admin, lease, receipts, copies, runner, store, late, faults, changes>>

(* A database error fails every attempt of the job.                        *)
databaseBackupTransferWorker(t) ==
    /\ job[t] = "pending" /\ Fault
    /\ job' = [job EXCEPT ![t] = "gone"]
    /\ UNCHANGED <<admin, xfer, lease, receipts, copies, runner, store, late, changes>>

ListQueuedDatabaseBackupTransferIDs(t) == xfer[t].state = "queued"

(* Mutant: the recovery pass looks only at dispatched transfers.           *)
MutRecoverOthers(t) ==
    /\ xfer[t].state = "dispatched" /\ job[t] = "gone"
    /\ EnqueueDatabaseBackupTransferTx(t)
    /\ UNCHANGED <<admin, xfer, lease, receipts, copies, runner, store, late,
                   faults, changes>>

recoverDatabaseBackupTransfers(t) ==
    /\ ListQueuedDatabaseBackupTransferIDs(t) /\ job[t] = "gone"
    /\ EnqueueDatabaseBackupTransferTx(t)
    /\ UNCHANGED <<admin, xfer, lease, receipts, copies, runner, store, late,
                   faults, changes>>

databaseBackupTransferClaimAllowed(t) ==
    xfer[t].state = "dispatched" /\ backupRemoteCurrent(xfer[t].rev)

(* The trigger on run_leases grants a transfer one lease, ever.            *)
ClaimRun(t) ==
    /\ pc = "idle" /\ journal = {}
    /\ databaseBackupTransferClaimAllowed(t) /\ lease[t] = "none"
    /\ lease' = [lease EXCEPT ![t] = "active"]
    /\ pc' = "claimed" /\ cur' = t /\ own' = FALSE /\ late' = 0
    /\ UNCHANGED <<admin, xfer, job, receipts, copies, sent, outcome, journal,
                   store, faults, changes>>

(* A supervised attempt loses its lease only by a fault; a dead one does   *)
(* in time.                                                                *)
LeaseExpires(t) ==
    /\ lease[t] = "active"
    /\ IF pc = "down" THEN UNCHANGED faults ELSE Fault
    /\ lease' = [lease EXCEPT ![t] = "expired"]
    /\ UNCHANGED <<admin, xfer, job, receipts, copies, runner, store, late, changes>>

-----------------------------------------------------------------------------
(* Fenced calls of the runner.                                             *)

LockDatabaseBackupTransferAuthority(t, live) ==
    IF live THEN lease[t] = "active" ELSE lease[t] # "none"

DatabaseBackupTransferPlan(t) ==
    /\ LockDatabaseBackupTransferAuthority(t, TRUE)
    /\ xfer[t].state \in {"dispatched", "applying"}
    /\ backupRemoteCurrent(xfer[t].rev)

backupRemoteDeliveryAuthority(t) ==
    LockDatabaseBackupTransferAuthority(t, TRUE) /\ backupRemoteCurrent(xfer[t].rev)

AuthorizeBackupRemoteCredentials(t) ==
    /\ backupRemoteDeliveryAuthority(t)
    /\ backupRemoteCredentialRecord(backupRemoteTargetSnapshot(xfer[t].rev))

RevalidateBackupRemoteCredentials(t) == backupRemoteDeliveryAuthority(t)

ReadDatabaseBackupTransferReceipt(t, phase) == phase \in receipts[t]

(* Mutant: an expired runner may report any result of its upload.          *)
MutExpiredReportsAny(t, phase) ==
    xfer[t].state = "applying" /\ "intent" \in receipts[t] /\ lease[t] = "expired"

ExpiredDatabaseBackupUploadAllowed(t, phase) ==
    lease[t] = "expired" /\ "intent" \in receipts[t]

(* Past its lease the runner may say one thing only: that an upload was    *)
(* interrupted.                                                            *)
backupRemoteExpiredUploadClassification(t, phase) ==
    /\ phase = "interrupted" /\ t \in Uploads /\ xfer[t].state = "applying"
    /\ ExpiredDatabaseBackupUploadAllowed(t, phase)

PhaseState == [intent |-> "applying", complete |-> "succeeded",
               failed |-> "failed", uncertain |-> "uncertain",
               interrupted |-> "uncertain"]

PhaseFrom(phase) == IF phase = "intent" THEN {"dispatched"}
                    ELSE IF phase = "failed" THEN {"dispatched", "applying"}
                    ELSE {"applying"}

SetDatabaseBackupTransferMutationState(t, phase) == SetState(t, PhaseState[phase])

CompleteDatabaseBackupTransferLease(t, phase) ==
    lease' = IF phase \in Results /\ lease[t] = "active"
             THEN [lease EXCEPT ![t] = "done"] ELSE lease

CreateDatabaseBackupTransferReceipt(t, phase) ==
    receipts' = [receipts EXCEPT ![t] = @ \cup {phase}]

(* Mutant: an object that was found is registered as if it were created.   *)
MutRegisterFound(t, phase, created) ==
    copies' = IF t \in Uploads /\ phase = "complete" THEN copies \cup {t} ELSE copies

backupRetentionRegisterRemote(t, phase, created) ==
    copies' = IF t \in Uploads /\ phase = "complete" /\ created
              THEN copies \cup {t} ELSE copies

MutationAdmitted(t, phase) ==
    /\ \/ LockDatabaseBackupTransferAuthority(t, TRUE) /\ backupRemoteCurrent(xfer[t].rev)
       \/ backupRemoteExpiredUploadClassification(t, phase)
    /\ xfer[t].state \in PhaseFrom(phase)

(* A receipt answers the same body again; anything else is a transition of *)
(* the row, its task and lease, its copy and the receipt in one commit.    *)
DatabaseBackupTransferMutation(t, phase, created) ==
    /\ LockDatabaseBackupTransferAuthority(t, FALSE)
    /\ \/ ReadDatabaseBackupTransferReceipt(t, phase) /\ UNCHANGED <<xfer, lease, receipts, copies>>
       \/ /\ ~ ReadDatabaseBackupTransferReceipt(t, phase)
          /\ MutationAdmitted(t, phase)
          /\ SetDatabaseBackupTransferMutationState(t, phase)
          /\ CompleteDatabaseBackupTransferLease(t, phase)
          /\ backupRetentionRegisterRemote(t, phase, created)
          /\ CreateDatabaseBackupTransferReceipt(t, phase)
    /\ UNCHANGED <<admin, job>>

Refused(t, phase) ==
    ~ ReadDatabaseBackupTransferReceipt(t, phase) /\ ~ MutationAdmitted(t, phase)

(* The client's call: answered, answered but lost, lost, or refused.  All  *)
(* but the first end the process.                                          *)
HostingDatabaseBackupTransferMutation(t, phase, created, next) ==
    \/ DatabaseBackupTransferMutation(t, phase, created) /\ pc' = next /\ UNCHANGED faults
    \/ DatabaseBackupTransferMutation(t, phase, created) /\ pc' = "down" /\ Fault
    \/ Fault /\ pc' = "down" /\ UNCHANGED <<admin, rows>>
    \/ Refused(t, phase) /\ pc' = "down" /\ UNCHANGED <<admin, rows, faults>>

-----------------------------------------------------------------------------
(* The runner.                                                             *)

AppendDatabaseBackupTransfer(t, phase) == journal' = journal \cup {<<t, phase>>}
AckDatabaseBackupTransfer(t, phase) == journal' = journal \ {<<t, phase>>}

LoadPlan ==
    /\ pc = "claimed"
    /\ pc' = IF DatabaseBackupTransferPlan(cur) /\ AuthorizeBackupRemoteCredentials(cur)
             THEN "granted" ELSE "down"
    /\ UNCHANGED <<admin, rows, cur, sent, own, outcome, journal, store, late, faults, changes>>

(* The service opens the sealed keys between two transactions, and the     *)
(* second decides whether they leave the server.                           *)
RunnerBackupRemoteCredentials ==
    /\ pc = "granted"
    /\ pc' = IF RevalidateBackupRemoteCredentials(cur) THEN "open" ELSE "down"
    /\ UNCHANGED <<admin, rows, cur, sent, own, outcome, journal, store, late, faults, changes>>

(* Opening the client resolves and checks the endpoint; a denial is a      *)
(* failure recorded without an intent.                                     *)
newBackupRemoteS3 ==
    /\ pc = "open"
    /\ \/ pc' = "intent" /\ AppendDatabaseBackupTransfer(cur, "intent") /\ UNCHANGED <<outcome, faults>>
       \/ /\ Fault /\ outcome' = "failed" /\ pc' = "send"
          /\ AppendDatabaseBackupTransfer(cur, "failed")
    /\ UNCHANGED <<admin, rows, cur, sent, own, store, late, changes>>

SendIntent ==
    /\ pc = "intent"
    /\ HostingDatabaseBackupTransferMutation(cur, "intent", FALSE, "start")
    /\ UNCHANGED <<cur, sent, own, outcome, journal, store, late, changes>>

(* Lease and plan read again before every request.                         *)
before == lease[cur] = "active" /\ DatabaseBackupTransferPlan(cur)

Report(phase) == outcome' = phase /\ pc' = "record" /\ sent' = FALSE

executeBackupRemoteObject ==
    /\ pc = "start"
    /\ IF ~ before THEN Report("uncertain") /\ UNCHANGED staged
       ELSE /\ pc' = IF cur \in Uploads THEN "head"
                     ELSE IF cur \in Downloads THEN "get" ELSE "list"
            /\ staged' = IF cur \in Downloads THEN staged \cup {cur} ELSE staged
            /\ UNCHANGED <<outcome, sent>>
    /\ UNCHANGED <<admin, rows, cur, own, journal, object, creator, inflight,
                   fetched, late, faults, changes>>

(* Mutant: requests are sent without asking the controller again.          *)
MutNoRoundTripCheck ==
    /\ pc \in {"list", "head", "put", "verify", "get"} /\ ~ sent
    /\ sent' = TRUE
    /\ UNCHANGED <<admin, rows, pc, cur, own, outcome, journal, store, late, faults, changes>>

RoundTrip ==
    /\ pc \in {"list", "head", "put", "verify", "get"} /\ ~ sent
    /\ IF before THEN sent' = TRUE /\ late' = 0 /\ UNCHANGED <<pc, outcome>>
       ELSE Report("uncertain") /\ UNCHANGED late
    /\ UNCHANGED <<admin, rows, cur, own, journal, store, faults, changes>>

(* A request in the store's hands: counted when authority is gone by now.  *)
Request(at) ==
    /\ pc = at /\ sent
    /\ late' = IF backupRemoteCurrent(xfer[cur].rev) \/ late = 2 THEN late ELSE late + 1

Step(next) == pc' = next /\ sent' = FALSE /\ UNCHANGED outcome

validate ==
    /\ Request("list") /\ Report("complete")
    /\ UNCHANGED <<admin, rows, cur, own, journal, store, faults, changes>>

HeadObject ==
    /\ Request("head")
    /\ Step(IF object = "missing" THEN "put" ELSE "verify")
    /\ UNCHANGED <<admin, rows, cur, own, journal, store, faults, changes>>

(* PutObject with If-None-Match, of the local archive checked against the  *)
(* recorded digest: it creates, or finds an object and verifies that one.  *)
upload ==
    /\ Request("put") /\ Step("verify")
    /\ own' = (object = "missing")
    /\ IF object = "missing" THEN object' = "whole" /\ creator' = cur
       ELSE UNCHANGED <<object, creator>>
    /\ UNCHANGED <<admin, rows, cur, journal, inflight, staged, fetched, faults, changes>>

(* A request cut short by its deadline, the network, or a grant that could *)
(* not be renewed.  The store may act on the Put later.                    *)
maintainGrant ==
    /\ pc \in {"list", "head", "put", "verify", "get"} /\ sent
    /\ IF backupRemoteCurrent(xfer[cur].rev) THEN Fault ELSE UNCHANGED faults
    /\ Report("uncertain") \/ Report("interrupted")
    /\ inflight' = IF pc = "put" THEN inflight \cup {cur} ELSE inflight
    /\ UNCHANGED <<admin, rows, cur, own, journal, object, creator, staged, fetched,
                   late, changes>>

PutLands(u) ==
    /\ u \in inflight /\ inflight' = inflight \ {u}
    /\ \/ object = "missing" /\ object' = "whole" /\ creator' = u
       \/ UNCHANGED <<object, creator>>
    /\ UNCHANGED <<admin, rows, runner, staged, fetched, late, faults, changes>>

(* A closed failure: access denied, an archive that cannot be read.        *)
backupRemoteFailure ==
    /\ pc \in {"list", "head", "put", "verify", "get"} /\ Fault
    /\ Report("failed")
    /\ UNCHANGED <<admin, rows, cur, own, journal, store, late, changes>>

(* Mutant: the size of the object is compared, not its digest.             *)
MutVerifySize ==
    /\ Request("verify") /\ Report("complete")
    /\ UNCHANGED <<admin, rows, cur, own, journal, store, faults, changes>>

(* The whole body is read and compared with the recorded digest.           *)
verify ==
    /\ Request("verify")
    /\ Report(IF object = "whole" THEN "complete" ELSE "failed")
    /\ UNCHANGED <<admin, rows, cur, own, journal, store, faults, changes>>

(* A download goes to the partial file and is published once it is whole   *)
(* and authority was read again.                                           *)
download ==
    /\ Request("get")
    /\ IF object # "whole" THEN Report("failed") /\ UNCHANGED fetched
       ELSE IF ~ before THEN Report("uncertain") /\ UNCHANGED fetched
       ELSE Report("complete") /\ fetched' = fetched \cup {cur}
    /\ UNCHANGED <<admin, rows, cur, own, journal, object, creator, inflight, staged,
                   faults, changes>>

RecordResult ==
    /\ pc = "record" /\ pc' = "send"
    /\ AppendDatabaseBackupTransfer(cur, outcome)
    /\ UNCHANGED <<admin, rows, cur, sent, own, outcome, store, late, faults, changes>>

SendResult ==
    /\ pc = "send"
    /\ HostingDatabaseBackupTransferMutation(cur, outcome, own, "ack")
    /\ UNCHANGED <<cur, sent, own, outcome, journal, store, late, changes>>

Acknowledge ==
    /\ pc = "ack"
    /\ IF <<cur, "intent">> \in journal
       THEN AckDatabaseBackupTransfer(cur, "intent") /\ UNCHANGED <<pc, cur, outcome>>
       ELSE /\ AckDatabaseBackupTransfer(cur, outcome)
            /\ pc' = "idle" /\ cur' = NoTransfer /\ outcome' = "none"
    /\ UNCHANGED <<admin, rows, sent, own, store, late, faults, changes>>

Crash ==
    /\ pc # "down" /\ Fault
    /\ pc' = "down" /\ sent' = FALSE
    /\ inflight' = IF pc = "put" /\ sent THEN inflight \cup {cur} ELSE inflight
    /\ UNCHANGED <<admin, rows, cur, own, outcome, journal, object, creator, staged,
                   fetched, late, changes>>

-----------------------------------------------------------------------------
(* Start-up.                                                               *)

Restarted ==
    /\ pc = "down" /\ journal = {}
    /\ pc' = "idle" /\ cur' = NoTransfer /\ outcome' = "none"
    /\ UNCHANGED <<admin, rows, sent, own, journal, store, late, faults, changes>>

Paired(t) == \E phase \in Results : <<t, phase>> \in journal

(* Mutant: the evidence is dropped before the classification is accepted.  *)
MutClassifyDropsIntent(t) ==
    /\ pc = "down" /\ <<t, "intent">> \in journal /\ ~ Paired(t)
    /\ t \in Uploads /\ lease[t] = "expired"
    /\ journal' = journal \ {<<t, "intent">>}
    /\ UNCHANGED <<admin, rows, pc, cur, sent, own, outcome, store, late, faults, changes>>

(* An upload's lone intent becomes a durable uncertain result once its     *)
(* lease has run out; other intents, and live leases, hold the start-up.   *)
ClassifyInterrupted(t) ==
    /\ pc = "down" /\ <<t, "intent">> \in journal /\ ~ Paired(t)
    /\ t \in Uploads /\ lease[t] = "expired"
    /\ AppendDatabaseBackupTransfer(t, "interrupted")
    /\ UNCHANGED <<admin, rows, pc, cur, sent, own, outcome, store, late, faults, changes>>

(* A recorded result is sent as it is; its creation proof is in the entry. *)
reconcileDatabaseBackupTransferJournal(t, phase) ==
    /\ pc = "down" /\ <<t, phase>> \in journal /\ phase \in Results
    /\ DatabaseBackupTransferMutation(t, phase, phase = "complete" /\ own)
    /\ journal' = journal \ {<<t, phase>>, <<t, "intent">>}
    /\ UNCHANGED <<pc, cur, sent, own, outcome, store, late, faults, changes>>

Held ==
    /\ pc = "down" /\ journal # {}
    /\ UNCHANGED vars

Poll ==
    /\ pc = "idle" /\ \A t \in Transfers : ~ databaseBackupTransferClaimAllowed(t)
    /\ UNCHANGED vars

-----------------------------------------------------------------------------
RunnerStep ==
    \/ LoadPlan \/ RunnerBackupRemoteCredentials \/ newBackupRemoteS3 \/ SendIntent \/ executeBackupRemoteObject
    \/ RoundTrip \/ validate \/ HeadObject \/ upload \/ verify \/ download
    \/ RecordResult \/ SendResult \/ Acknowledge \/ Restarted
    \/ \E t \in Transfers : ClaimRun(t) \/ ClassifyInterrupted(t)
    \/ \E t \in Transfers, phase \in Results : reconcileDatabaseBackupTransferJournal(t, phase)

Next ==
    \/ \E on, replace \in BOOLEAN : SaveDatabaseBackupTarget(on, replace)
    \/ ChangeOwner
    \/ \E v \in Validations : ValidateDatabaseBackupTarget(v)
    \/ backupRemoteSelect \/ backupRemoteLocalComplete
    \/ \E u, n \in Uploads : RetryDatabaseBackupTransfer(u, n)
    \/ \E d \in Downloads, u \in Uploads : backupRemoteRestoreAdmit(d, u)
    \/ \E d \in Downloads : ReadDatabaseBackupDownloadState(d)
    \/ \E t \in Transfers : \/ PrepareDatabaseBackupTransfer(t) \/ LeaseExpires(t)
                            \/ databaseBackupTransferWorker(t)
                            \/ recoverDatabaseBackupTransfers(t)
    \/ RunnerStep
    \/ maintainGrant \/ backupRemoteFailure \/ Crash
    \/ \E u \in Uploads : PutLands(u)
    \/ Held \/ Poll

Spec == Init /\ [][Next]_vars

-----------------------------------------------------------------------------
(* Types.                                                                  *)
TTypeOK ==
    /\ xfer \in [Transfers -> TransferRow]
    /\ target.rev \in 0 .. MaxRevision /\ target.enabled \in BOOLEAN
    /\ lease \in [Transfers -> {"none", "active", "expired", "done"}]
    /\ journal \subseteq Transfers \X Phases
    /\ object \in {"missing", "other", "whole"}
    /\ restore \in [Downloads -> {"none", "waiting", "ready", "uncertain"}]

(* What the history promises to a restore: a succeeded upload means that   *)
(* the whole archive is in the object store, also when an earlier attempt  *)
(* had put it there, when its answer was lost, or when something else was  *)
(* found under the key.                                                    *)
UploadedIsWhole ==
    \A u \in Uploads : xfer[u].state = "succeeded" => object = "whole"

(* Retention may delete what a registered copy names, so a copy is         *)
(* registered as created only by the upload whose own Put made the object; *)
(* in particular two uploads never both own it.                            *)
CopyIsCreator == \A u \in copies : creator = u

(* The uploads of a backup form a chain: a retry exists only after its     *)
(* predecessor settled, so two of them never act on the object at once.    *)
OneUploadUnderWay ==
    \A u, n \in Uploads :
        /\ xfer[u].state \notin {"none"} \cup Settled
        /\ xfer[n].state \notin {"none"} \cup Settled
        => u = n

(* A restore becomes ready only after its own download has read, verified  *)
(* and published the archive, whatever else was fetched before.            *)
ReadyIsFetched == \A d \in Downloads : restore[d] = "ready" => d \in fetched

(* Disabling the target, replacing its keys or losing the owner stops a    *)
(* transfer at its next request: at most the one request already past its  *)
(* check reaches the object store afterwards.                              *)
OneLateRequest == late <= 1

(* While the controller counts a transfer as applying, the runner holds    *)
(* its evidence; nothing that touched the store is forgotten at a restart. *)
ApplyingIsJournaled ==
    \A t \in Transfers : xfer[t].state = "applying" => \E e \in journal : e[1] = t

(* A replaced key pair is never part of an accepted outcome: the step that *)
(* settles an upload as succeeded is made with active keys, an enabled     *)
(* target and an authorized owner.                                         *)
SuccessIsAuthorized ==
    [][\A u \in Uploads : xfer[u].state # "succeeded" /\ xfer'[u].state = "succeeded"
           => target.enabled /\ keys[xfer[u].rev] \notin revoked /\ owner]_vars

(* Cut short after its intent, with no result recorded. *)
Unclassified(u) == xfer[u].state = "applying" /\ ~ Paired(u)

(* Admitted and neither handed to the runner nor settled. *)
Unprepared(t) == xfer[t].state = "queued"
=============================================================================
