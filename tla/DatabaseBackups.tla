--------------------------- MODULE DatabaseBackups ---------------------------
(***************************************************************************)
(* Logical database backups and their restore into a new database: the     *)
(* admission transaction, the River job that prepares a task, the claim    *)
(* with its lease trigger, the fenced mutations the runner sends, and the  *)
(* runner itself with its durable journal and the tool it starts in the    *)
(* database container.  A restore owns the binding it creates, which the   *)
(* model names by the restore.                                             *)
(***************************************************************************)
EXTENDS Naturals, Sequences, FiniteSets

CONSTANTS Backups,     \* backup operations that may be requested
          Restores,    \* restore operations that may be requested
          Source,      \* the binding of the database that exists from the start
          Generic,     \* one ordinary run of another kind, queued at any time
          MaxFaults,   \* crashes, lost messages, expired leases, failed tools
          MaxChanges   \* changes of the requesting owner's authority

ASSUME BackupAssumption ==
    /\ Backups \cap Restores = {} /\ Source \notin Backups \cup Restores
    /\ Generic \notin Backups \cup Restores
    /\ MaxFaults \in Nat /\ MaxChanges \in Nat

Ops == Backups \cup Restores
Bindings == {Source} \cup Restores
NoOp == "none"

(* Operation states; "none" is an operation not requested yet.             *)
Unsettled == {"queued", "waiting_target", "dispatched", "applying"}
Settled == {"succeeded", "failed", "uncertain"}
Phases == {"intent", "complete", "failed", "uncertain"}

VARIABLES op,         \* the hosting_database_backups row of each operation
          child,      \* the deployment that creates a restore's target
          job,        \* the River job of each operation
          task,       \* the task run of each operation, and the generic run
          queue,      \* the queued runs in claim order
          lease,      \* the only lease a backup run ever has
          receipts,   \* the phases of an operation that have a receipt
          owner,      \* the requester is owner, granted, on an active agent
          pc, cur,    \* the runner: where it is, and for which operation
          journal,    \* the runner's durable entries <<operation, phase>>
          outcome,    \* the phase the last execution is to report
          guest,      \* operations whose tool may be running in a container
          host,       \* what the archive or the restored database holds
          faults, changes

vars == <<op, child, job, task, queue, lease, receipts, owner, pc, cur,
          journal, outcome, guest, host, faults, changes>>
server == <<op, child, job, task, queue, lease, receipts, owner>>
runner == <<pc, cur, journal, outcome>>
box == <<guest, host>>

Absent == [state |-> "none", held |-> FALSE, source |-> Source, blob |-> FALSE]

Init ==
    /\ op = [o \in Ops |-> Absent]
    /\ child = [r \in Restores |-> "none"]
    /\ job = [o \in Ops |-> "none"]
    /\ task = [o \in Ops \cup {Generic} |-> "none"]
    /\ queue = <<>>
    /\ lease = [o \in Ops |-> "none"]
    /\ receipts = [o \in Ops |-> {}]
    /\ owner = TRUE
    /\ pc = "idle" /\ cur = NoOp
    /\ journal = {}
    /\ outcome = "none"
    /\ guest = {}
    /\ host = [o \in Ops |-> "none"]
    /\ faults = 0 /\ changes = 0

Fault == faults < MaxFaults /\ faults' = faults + 1

-----------------------------------------------------------------------------
(* Authority: what every transaction rechecks under the destination lock.  *)

TargetOwnershipHeld(b) == \E r \in Restores : r = b /\ op[r].held

databaseBackupSourceRole(b) == ~ TargetOwnershipHeld(b)

(* A target is a healthy database once its deployment has succeeded.       *)
databaseUpgradeHealthy(b) == b \in Restores => child[b] = "succeeded"

databaseBackupSource(b) == owner /\ databaseUpgradeHealthy(b)

databaseBackupRestoreAuthority == owner

databaseBackupAgent == owner

(* A restore's target joins the plan when the operation is dispatched.     *)
TargetFrozen(o) == op[o].state \notin {"none", "queued", "waiting_target"}

databaseBackupCurrent(o) ==
    /\ databaseBackupAgent
    /\ IF o \in Restores
       THEN /\ databaseBackupRestoreAuthority
            /\ TargetFrozen(o) => databaseBackupSource(o)
       ELSE /\ databaseBackupSource(op[o].source)
            /\ databaseBackupSourceRole(op[o].source)

OperationValid(v) ==
    /\ v.state = "succeeded" => v.blob /\ ~ v.held
    /\ v.state = "uncertain" => v.held

(* A restore names an archive and a deployed target that is not its source.*)
PlanValid(o) ==
    o \in Restores => op[o].blob /\ op[o].source # o /\ databaseUpgradeHealthy(o)

-----------------------------------------------------------------------------
(* Admission.                                                              *)

(* The unique index on a held source, and the trigger that refuses a       *)
(* binding some held restore writes.                                       *)
CreateDatabaseBackup(o, b) ==
    /\ \A other \in Backups : ~ (op[other].held /\ op[other].source = b)
    /\ ~ TargetOwnershipHeld(b)
    /\ op' = [op EXCEPT ![o] = [state |-> "queued", held |-> TRUE,
                                source |-> b, blob |-> FALSE]]

EnqueueDatabaseBackupTx(o) == job' = [job EXCEPT ![o] = "pending"]

(* Mutant: admission ignores a restore that still owns the database.       *)
MutAdmissionIgnoresTarget(o, b) ==
    /\ op[o].state = "none" /\ databaseBackupSource(b)
    /\ op' = [op EXCEPT ![o] = [state |-> "queued", held |-> TRUE,
                                source |-> b, blob |-> FALSE]]
    /\ EnqueueDatabaseBackupTx(o)
    /\ UNCHANGED <<child, task, queue, lease, receipts, owner, faults, changes,
                   runner, box>>

(* A repeated request finds its row and changes nothing.                   *)
RequestDatabaseBackup(o, b) ==
    /\ op[o].state = "none"
    /\ databaseBackupSource(b)
    /\ databaseBackupSourceRole(b)
    /\ CreateDatabaseBackup(o, b)
    /\ EnqueueDatabaseBackupTx(o)
    /\ UNCHANGED <<child, task, queue, lease, receipts, owner, faults, changes,
                   runner, box>>

CreateDatabaseBackupRestore(r, b) ==
    op' = [op EXCEPT ![r] = [state |-> "waiting_target", held |-> TRUE,
                             source |-> op[b].source, blob |-> op[b].blob]]

RequestDatabaseBackupRestore(r, b) ==
    /\ op[r].state = "none"
    /\ op[b].state = "succeeded" /\ op[b].blob
    /\ databaseBackupRestoreAuthority
    /\ child' = [child EXCEPT ![r] = "pending"]
    /\ CreateDatabaseBackupRestore(r, b)
    /\ EnqueueDatabaseBackupTx(r)
    /\ UNCHANGED <<task, queue, lease, receipts, owner, faults, changes,
                   runner, box>>

-----------------------------------------------------------------------------
(* The River job.                                                          *)

MarkDatabaseBackupExecutionUncertain(o) ==
    op' = [op EXCEPT ![o].state = "uncertain"]

CreateHostingTask(o) ==
    /\ task' = [task EXCEPT ![o] = "queued"]
    /\ queue' = Append(queue, o)

(* Mutant: the row is given a state no reader knows.                       *)
MutDispatchState(o) == op' = [op EXCEPT ![o].state = "assigned"]

DispatchDatabaseBackup(o) == op' = [op EXCEPT ![o].state = "dispatched"]

(* Mutant: a target that failed to deploy is waited for like a slow one.   *)
MutPrepareWaitsForever(o) ==
    /\ job[o] = "pending"
    /\ op[o].state \in {"queued", "waiting_target"}
    /\ databaseBackupCurrent(o)
    /\ o \in Restores => child[o] = "succeeded"
    /\ CreateHostingTask(o) /\ DispatchDatabaseBackup(o)
    /\ job' = [job EXCEPT ![o] = "gone"]
    /\ UNCHANGED <<child, lease, receipts, owner, faults, changes,
                   runner, box>>

(* Waiting for the target is a one second snooze and changes nothing; an   *)
(* error leaves the job for its next attempt.                              *)
PrepareDatabaseBackup(o) ==
    /\ job[o] = "pending"
    /\ \/ /\ op[o].state \notin {"queued", "waiting_target"}
          /\ UNCHANGED <<op, task, queue>>
       \/ /\ op[o].state \in {"queued", "waiting_target"}
          /\ databaseBackupCurrent(o)
          /\ o \in Restores => child[o] = "succeeded" /\ databaseBackupSource(o)
          /\ PlanValid(o)
          /\ CreateHostingTask(o)
          /\ DispatchDatabaseBackup(o)
       \/ /\ op[o].state = "waiting_target"
          /\ databaseBackupCurrent(o)
          /\ child[o] = "failed"
          /\ MarkDatabaseBackupExecutionUncertain(o)
          /\ UNCHANGED <<task, queue>>
    /\ job' = [job EXCEPT ![o] = "gone"]
    /\ UNCHANGED <<child, lease, receipts, owner, faults, changes,
                   runner, box>>

(* A job that keeps failing is discarded once its attempts are used.       *)
DiscardJob(o) ==
    /\ job[o] = "pending" /\ ~ databaseBackupCurrent(o) /\ op[o].state # "none"
    /\ job' = [job EXCEPT ![o] = "gone"]
    /\ UNCHANGED <<op, child, task, queue, lease, receipts, owner, faults, changes,
                   runner, box>>

(* Mutant: an operation whose job is gone is never enqueued again.         *)
MutNoRecovery(o) == FALSE /\ UNCHANGED vars

recoverUnscheduledDatabaseBackups(o) ==
    /\ job[o] = "gone" /\ op[o].state \in {"queued", "waiting_target"}
    /\ EnqueueDatabaseBackupTx(o)
    /\ UNCHANGED <<op, child, task, queue, lease, receipts, owner, faults, changes,
                   runner, box>>

(* The deployment of the target is an ordinary hosting operation.          *)
ChildSettles(r) ==
    /\ child[r] = "pending"
    /\ \E s \in {"succeeded", "failed"} : child' = [child EXCEPT ![r] = s]
    /\ UNCHANGED <<op, job, task, queue, lease, receipts, owner, faults, changes,
                   runner, box>>

ChangeOwner ==
    /\ changes < MaxChanges /\ changes' = changes + 1
    /\ owner' = ~ owner
    /\ UNCHANGED <<op, child, job, task, queue, lease, receipts, faults,
                   runner, box>>

-----------------------------------------------------------------------------
(* Claim and lease.                                                        *)

databaseBackupClaimAllowed(o) ==
    op[o].state = "dispatched" /\ databaseBackupCurrent(o) /\ PlanValid(o)

Eligible(x) == x \in Ops => databaseBackupClaimAllowed(x)

(* The trigger on run_leases: one lease for a backup run, ever.            *)
CreateActiveRunLease(o) ==
    /\ op[o].held /\ op[o].state = "dispatched"
    /\ lease[o] = "none"

(* ClaimRun takes the first eligible run after its cursor.  A refused      *)
(* insert of the lease rolls the whole claim back, cursor included, and    *)
(* the runner exits on the error and is started again.                     *)
ClaimRun ==
    /\ pc = "idle"
    /\ \E i \in 1 .. Len(queue) :
        /\ Eligible(queue[i])
        /\ \A j \in 1 .. i - 1 : ~ Eligible(queue[j])
        /\ IF queue[i] # Generic /\ ~ CreateActiveRunLease(queue[i])
           THEN /\ pc' = "down"
                /\ UNCHANGED <<cur, task, queue, lease>>
           ELSE /\ queue' = [j \in 1 .. Len(queue) - 1 |->
                                IF j < i THEN queue[j] ELSE queue[j + 1]]
                /\ task' = [task EXCEPT ![queue[i]] = "running"]
                /\ IF queue[i] = Generic
                   THEN UNCHANGED <<pc, cur, lease>>
                   ELSE /\ lease' = [lease EXCEPT ![queue[i]] = "active"]
                        /\ pc' = "claimed" /\ cur' = queue[i]
    /\ UNCHANGED <<op, child, job, receipts, owner, journal, outcome,
                   guest, host, faults, changes>>

(* Expiry requeues the run whatever the state of its operation.            *)
LeaseExpires(o) ==
    /\ lease[o] = "active" /\ Fault
    /\ lease' = [lease EXCEPT ![o] = "expired"]
    /\ task' = [task EXCEPT ![o] = "queued"]
    /\ queue' = Append(queue, o)
    /\ UNCHANGED <<op, child, job, receipts, owner, changes,
                   runner, box>>

QueueGeneric ==
    /\ task[Generic] = "none"
    /\ task' = [task EXCEPT ![Generic] = "queued"]
    /\ queue' = Append(queue, Generic)
    /\ UNCHANGED <<op, child, job, lease, receipts, owner, faults, changes,
                   runner, box>>

-----------------------------------------------------------------------------
(* The runner's fenced calls.                                              *)

databaseBackupAuthority(o, live) ==
    IF live THEN lease[o] = "active" ELSE lease[o] # "none"

DatabaseBackupPlan(o) ==
    /\ databaseBackupAuthority(o, TRUE) /\ databaseBackupCurrent(o)
    /\ op[o].held /\ PlanValid(o)

ReadDatabaseBackupReceipt(o, phase) == phase \in receipts[o]

PhaseState == [intent |-> "applying", complete |-> "succeeded",
               failed |-> "failed", uncertain |-> "uncertain"]

PhaseFrom == [intent |-> "dispatched", complete |-> "applying",
              failed |-> "dispatched", uncertain |-> "applying"]

PhaseHolds(o, phase) ==
    \/ phase \in {"intent", "uncertain"}
    \/ phase = "failed" /\ o \in Restores

SetDatabaseBackupMutationState(o, phase) ==
    [op[o] EXCEPT !.state = PhaseState[phase], !.held = PhaseHolds(o, phase),
                  !.blob = @ \/ phase = "complete"]

MutationAdmitted(o, phase) ==
    /\ databaseBackupAuthority(o, TRUE)
    /\ databaseBackupCurrent(o)
    /\ op[o].held
    /\ op[o].state = PhaseFrom[phase]
    /\ OperationValid(SetDatabaseBackupMutationState(o, phase))

CompleteDatabaseBackupTask(o, phase) ==
    IF phase = "intent" THEN task
    ELSE [task EXCEPT ![o] = IF phase = "complete" THEN "succeeded" ELSE "failed"]

CompleteDatabaseBackupLease(o, phase) ==
    IF phase = "intent" THEN lease ELSE [lease EXCEPT ![o] = "done"]

(* A receipt already there answers the same body again, lease or no lease. *)
DatabaseBackupMutation(o, phase) ==
    /\ databaseBackupAuthority(o, FALSE)
    /\ \/ /\ ReadDatabaseBackupReceipt(o, phase)
          /\ UNCHANGED <<op, task, lease, receipts>>
       \/ /\ ~ ReadDatabaseBackupReceipt(o, phase)
          /\ MutationAdmitted(o, phase)
          /\ op' = [op EXCEPT ![o] = SetDatabaseBackupMutationState(o, phase)]
          /\ task' = CompleteDatabaseBackupTask(o, phase)
          /\ lease' = CompleteDatabaseBackupLease(o, phase)
          /\ receipts' = [receipts EXCEPT ![o] = @ \cup {phase}]
    /\ UNCHANGED <<child, job, queue, owner, changes>>

MutationRefused(o, phase) ==
    \/ ~ databaseBackupAuthority(o, FALSE)
    \/ ~ ReadDatabaseBackupReceipt(o, phase) /\ ~ MutationAdmitted(o, phase)

-----------------------------------------------------------------------------
(* The runner.  Every error ends the process; it is started again and      *)
(* first reconciles its journal.                                           *)

AppendDatabaseBackup(phase) == journal' = journal \cup {<<cur, phase>>}
AckDatabaseBackup(o, phase) == journal' = journal \ {<<o, phase>>}

LoadPlan ==
    /\ pc = "claimed"
    /\ pc' = IF DatabaseBackupPlan(cur) /\ \A e \in journal : e[1] # cur
             THEN "preflight" ELSE "down"
    /\ UNCHANGED <<server, cur, journal, outcome, box, faults, changes>>

(* The exact container, volume and process of the database, found running. *)
inspect(b) == databaseUpgradeHealthy(b)

(* The published archive, of the recorded digest, size and format. *)
archive(o) == op[o].blob

(* A restore also needs the archive and a tool that can list it. *)
preflight(o) == IF o \in Restores THEN inspect(o) /\ archive(o) ELSE inspect(op[o].source)

PreflightFails ==
    /\ pc = "preflight" /\ (IF preflight(cur) THEN Fault ELSE UNCHANGED faults)
    /\ AppendDatabaseBackup("failed")
    /\ outcome' = "failed" /\ pc' = "send"
    /\ UNCHANGED <<server, cur, box, changes>>

(* Mutant: the intent is sent before it is made durable.                   *)
MutIntentNotJournaled ==
    /\ pc = "preflight"
    /\ UNCHANGED journal
    /\ pc' = "intent"
    /\ UNCHANGED <<server, cur, outcome, box, faults, changes>>

JournalIntent ==
    /\ pc = "preflight" /\ preflight(cur)
    /\ AppendDatabaseBackup("intent")
    /\ pc' = "intent"
    /\ UNCHANGED <<server, cur, outcome, box, faults, changes>>

SendIntent ==
    /\ pc = "intent"
    /\ \/ DatabaseBackupMutation(cur, "intent") /\ pc' = "run" /\ UNCHANGED faults
       \/ DatabaseBackupMutation(cur, "intent") /\ pc' = "down" /\ Fault
       \/ Fault /\ pc' = "down" /\ UNCHANGED <<server, changes>>
       \/ /\ MutationRefused(cur, "intent") /\ pc' = "down"
          /\ UNCHANGED <<server, faults, changes>>
    /\ UNCHANGED <<cur, journal, outcome, box>>

(* The callback before each effect reads the lease and the plan again.     *)
Authorized == lease[cur] = "active" /\ DatabaseBackupPlan(cur)

Unsure == outcome' = "uncertain" /\ pc' = "record"

(* pg_dump into a partial file created exclusively, or pg_restore into the *)
(* target; either may be started only after the intent was accepted.       *)
StartTool ==
    /\ pc = "run"
    /\ IF preflight(cur) /\ Authorized /\ host[cur] = "none"
       THEN /\ pc' = "tool" /\ guest' = guest \cup {cur}
            /\ host' = [host EXCEPT ![cur] = "partial"] /\ UNCHANGED outcome
       ELSE Unsure /\ UNCHANGED box
    /\ UNCHANGED <<server, cur, journal, faults, changes>>

ToolSucceeds ==
    /\ pc = "tool" /\ cur \in guest
    /\ guest' = guest \ {cur}
    /\ host' = [host EXCEPT ![cur] = IF cur \in Restores THEN "whole" ELSE @]
    /\ pc' = "check"
    /\ UNCHANGED <<server, cur, journal, outcome, faults, changes>>

(* Mutant: the exit status of the tool is ignored.                         *)
MutToolErrorIgnored ==
    /\ pc = "tool" /\ Fault
    /\ pc' = "check"
    /\ UNCHANGED <<server, cur, journal, outcome, box, changes>>

(* A deadline or error of the local client: the guest tool may go on.      *)
ToolFails ==
    /\ pc = "tool" /\ Fault
    /\ Unsure
    /\ UNCHANGED <<server, cur, journal, box, changes>>

GuestStops(o) ==
    /\ o \in guest /\ ~ (pc = "tool" /\ cur = o)
    /\ guest' = guest \ {o}
    /\ \E h \in {"partial", "whole"} :
          host' = [host EXCEPT ![o] = IF o \in Restores THEN h ELSE @]
    /\ UNCHANGED <<server, runner, faults, changes>>

CheckAgain ==
    /\ pc = "check"
    /\ IF Authorized THEN pc' = "finish" /\ UNCHANGED outcome ELSE Unsure
    /\ UNCHANGED <<server, cur, journal, box, faults, changes>>

(* Mutant: the result is complete even when publication failed.            *)
MutFinishIgnoresError ==
    /\ pc = "finish"
    /\ outcome' = "complete" /\ pc' = "record"
    /\ \/ /\ host' = [host EXCEPT ![cur] = IF cur \in Backups THEN "whole" ELSE @]
          /\ UNCHANGED faults
       \/ Fault /\ UNCHANGED host
    /\ UNCHANGED <<server, cur, journal, guest, changes>>

(* Publication into the content-addressed store, or the readiness probe.   *)
Finish ==
    /\ pc = "finish"
    /\ \/ /\ host' = [host EXCEPT ![cur] = IF cur \in Backups THEN "whole" ELSE @]
          /\ outcome' = "complete" /\ pc' = "record" /\ UNCHANGED faults
       \/ Fault /\ Unsure /\ UNCHANGED host
    /\ UNCHANGED <<server, cur, journal, guest, changes>>

RecordResult ==
    /\ pc = "record"
    /\ AppendDatabaseBackup(outcome)
    /\ pc' = "send"
    /\ UNCHANGED <<server, cur, outcome, box, faults, changes>>

(* The answer of a complete or failed result leads to acknowledgement; an  *)
(* uncertain one keeps its entries and ends the process.                   *)
SendResult ==
    /\ pc = "send"
    /\ \/ /\ DatabaseBackupMutation(cur, outcome) /\ UNCHANGED faults
          /\ pc' = IF outcome = "uncertain" THEN "down" ELSE "ack"
       \/ DatabaseBackupMutation(cur, outcome) /\ Fault /\ pc' = "down"
       \/ Fault /\ pc' = "down" /\ UNCHANGED <<server, changes>>
       \/ /\ MutationRefused(cur, outcome) /\ pc' = "down"
          /\ UNCHANGED <<server, faults, changes>>
    /\ UNCHANGED <<cur, journal, outcome, box>>

AckIntent ==
    /\ pc = "ack" /\ <<cur, "intent">> \in journal
    /\ AckDatabaseBackup(cur, "intent")
    /\ UNCHANGED <<server, pc, cur, outcome, box, faults, changes>>

AckResult ==
    /\ pc = "ack" /\ <<cur, "intent">> \notin journal
    /\ AckDatabaseBackup(cur, outcome)
    /\ pc' = "idle" /\ cur' = NoOp /\ outcome' = "none"
    /\ UNCHANGED <<server, box, faults, changes>>

Crash ==
    /\ pc # "down" /\ Fault
    /\ pc' = "down"
    /\ UNCHANGED <<server, cur, journal, outcome, box, changes>>

-----------------------------------------------------------------------------
(* Start-up.                                                               *)

Reset == cur' = NoOp /\ outcome' = "none"

ReconcileEmpty ==
    /\ pc = "down" /\ journal = {}
    /\ pc' = "idle" /\ Reset
    /\ UNCHANGED <<server, journal, box, faults, changes>>

(* A saved result is sent again as it is, and its intent retired with it.  *)
ReconcileReplay(o, phase) ==
    /\ pc = "down" /\ <<o, phase>> \in journal /\ phase \in {"complete", "failed"}
    /\ \A p \in Ops : <<p, "uncertain">> \notin journal
    /\ DatabaseBackupMutation(o, phase)
    /\ journal' = journal \ {<<o, phase>>, <<o, "intent">>}
    /\ pc' = "down" /\ Reset
    /\ UNCHANGED <<box, faults>>

(* An unpaired intent, an uncertain result, or a refused replay: start-up  *)
(* fails and is tried again.                                               *)
ReconcileHeld ==
    /\ pc = "down"
    /\ \E e \in journal : \/ e[2] = "uncertain"
                          \/ e[2] \in {"complete", "failed"} /\ MutationRefused(e[1], e[2])
                          \/ e[2] = "intent" /\ <<e[1], "complete">> \notin journal
    /\ UNCHANGED vars

(* Polling an empty queue, or one with nothing eligible.                   *)
PollFindsNothing ==
    /\ pc = "idle"
    /\ \A i \in 1 .. Len(queue) : ~ Eligible(queue[i])
    /\ UNCHANGED vars

-----------------------------------------------------------------------------
RunnerStep ==
    \/ ClaimRun \/ LoadPlan \/ JournalIntent \/ SendIntent \/ StartTool
    \/ ToolSucceeds \/ CheckAgain \/ Finish \/ RecordResult \/ SendResult
    \/ AckIntent \/ AckResult \/ ReconcileEmpty
    \/ \E o \in Ops, phase \in Phases : ReconcileReplay(o, phase)

Next ==
    \/ \E o \in Backups, b \in Bindings : RequestDatabaseBackup(o, b)
    \/ \E r \in Restores, b \in Backups : RequestDatabaseBackupRestore(r, b)
    \/ \E o \in Ops : \/ PrepareDatabaseBackup(o) \/ DiscardJob(o)
                      \/ recoverUnscheduledDatabaseBackups(o)
                      \/ LeaseExpires(o) \/ GuestStops(o)
    \/ \E r \in Restores : ChildSettles(r)
    \/ ChangeOwner \/ QueueGeneric
    \/ RunnerStep
    \/ PreflightFails \/ ToolFails \/ Crash
    \/ ReconcileHeld \/ PollFindsNothing

Spec == Init /\ [][Next]_vars

(* River retries a job and the recovery pass runs every minute; the runner *)
(* process polls, and is started again by its service manager.             *)
Fairness ==
    /\ WF_vars(RunnerStep)
    /\ \A o \in Ops : /\ WF_vars(PrepareDatabaseBackup(o))
                      /\ WF_vars(recoverUnscheduledDatabaseBackups(o))
    /\ \A r \in Restores : WF_vars(ChildSettles(r))

FairSpec == Spec /\ Fairness

-----------------------------------------------------------------------------
(* Types.                                                                  *)
BTypeOK ==
    /\ \A o \in Ops : /\ op[o].state \in {"none"} \cup Unsettled \cup Settled
                      /\ op[o].held \in BOOLEAN /\ op[o].blob \in BOOLEAN
                      /\ op[o].source \in Bindings
    /\ task \in [Ops \cup {Generic} -> {"none", "queued", "running", "succeeded", "failed"}]
    /\ lease \in [Ops -> {"none", "active", "expired", "done"}]
    /\ journal \subseteq Ops \X Phases
    /\ guest \subseteq Ops
    /\ host \in [Ops -> {"none", "partial", "whole"}]

(* Ownership follows the effects, not the reports: while a tool may still  *)
(* run in a container, or has left a half-written archive or database      *)
(* behind, the operation keeps its hold, through crashes, lost answers,    *)
(* expired leases and revoked owners.                                      *)
TouchedIsHeld ==
    \A o \in Ops : (o \in guest \/ host[o] = "partial") => op[o].held

(* What the history says happened on the host: success means the archive   *)
(* was published or the database restored, failure that nothing began.     *)
OutcomeIsTrue ==
    \A o \in Ops : /\ op[o].state = "succeeded" => host[o] = "whole"
                   /\ op[o].state = "failed" => host[o] = "none"

(* No dump reads a database that an unsettled restore is writing, and no   *)
(* two backups hold one database.                                          *)
BindingHasOneOwner ==
    /\ \A o \in Backups, r \in Restores :
          op[o].held /\ op[r].held => op[o].source # r
    /\ \A o, p \in Backups :
          op[o].held /\ op[p].held /\ op[o].source = op[p].source => o = p

(* Whenever the controller believes that effects are under way, the runner *)
(* has the intent on disk, so no restart can mistake the operation for one *)
(* that never began.                                                       *)
ApplyingIsJournaled ==
    \A o \in Ops : op[o].state = "applying" => <<o, "intent">> \in journal

(* Ownership of a database follows the effects on its host and not the     *)
(* reports: a tool that may run, or half-written data, keeps its hold, no  *)
(* dump reads what a restore writes, the history says what happened, and   *)
(* the runner has the intent of what is applied on disk                    *)
(* (DatabaseBackupMutation, CreateDatabaseBackup, the backup executor).    *)
DatabaseHoldsFollowEffects ==
    /\ BTypeOK /\ TouchedIsHeld /\ OutcomeIsTrue /\ BindingHasOneOwner /\ ApplyingIsJournaled

(* A run of another kind that waits in the queue is claimed in the end.    *)
OtherWorkIsClaimed == (task[Generic] = "queued") ~> (task[Generic] = "running")

(* Admitted by an owner who is authorized, and not yet handed to a runner; *)
(* or not settled although the owner never lost that authority.            *)
Outstanding(o) ==
    /\ owner
    /\ \/ op[o].state \in {"queued", "waiting_target"}
       \/ changes = 0 /\ op[o].state \notin {"none"} \cup Settled
=============================================================================
