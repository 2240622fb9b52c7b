-------------------------- MODULE BackupRetention ---------------------------
(***************************************************************************)
(* One retention batch: the controller's rows, the runner that deletes the *)
(* reserved copies under a fenced lease, its journal, and the two kinds of *)
(* storage.  The runner's program is a sequence of locations; each journal *)
(* write, controller transaction and storage effect is a step of its own,  *)
(* and a crash may fall between any two.                                   *)
(***************************************************************************)
EXTENDS Integers, FiniteSets, FiniteSetsExt

CONSTANTS
    Local, Remote,     \* the copies of the batch, as disjoint sets of numbers
    Versioned,         \* remote copies with an immutable version identity
    Conditional,       \* whether the object store honours If-Match on DELETE
    MaxAttempts,       \* leases of the task
    MaxFaults,         \* crashes, lost responses, storage errors
    MaxChanges         \* authority changes, objects replaced by other writers

Copies == Local \cup Remote
Attempts == 1 .. MaxAttempts
Results == {"deleted", "absent", "failed", "uncertain"}
ItemStates == Results \cup {"pending", "intent"}

(* Receipts and journal entries: one mutation of one copy by one attempt.  *)
Entries == [c : Copies, phase : Results \cup {"intent"}, probe : BOOLEAN, attempt : Attempts]

VARIABLES
    exec,       \* the execution's state
    item,       \* each copy's item state
    reserved,   \* the copies whose reservation is held
    avail,      \* each copy's availability
    task,       \* the task: none, queued, running, done
    lease,      \* the latest lease: none, active, expired, closed
    attempt,    \* its number
    resumes,    \* attempts admitted as continuations
    receipts,   \* hosting_database_backup_retention_receipts
    lost,       \* which of the plan's conditions no longer hold
    pc, op,     \* the runner's location and the mutation at hand
    completed, unknown,   \* its classification of the copies
    toProbe, toDelete,    \* the copies its loops have yet to visit
    journal,    \* its retained entries
    replay,     \* the entries a starting process has yet to replay
    obj,        \* each copy's object: ours, other, gone
    inflight,   \* remote deletions whose answer was lost
    faults, changes

rows == <<exec, item, reserved, avail, task, lease, attempt, resumes, receipts>>
server == <<rows, lost>>
loops == <<completed, unknown, toProbe, toDelete>>
runner == <<pc, op, loops, journal, replay>>
world == <<obj, inflight>>
vars == <<server, runner, world, faults, changes>>

(* What backupRetentionCurrent asks again before every mutation.           *)
Conditions == {"owner", "runner", "destination", "target", "download"}

NoOp == [c |-> 0, phase |-> "", probe |-> FALSE]

Locations ==
    {"down", "held", "replay", "idle", "loaded", "probe", "record", "send", "qualify", "delete",
     "deleting", "ack", "ackresult", "retire", "copy"}

RTypeOK ==
    /\ exec \in {"queued", "dispatched", "applying", "succeeded", "failed", "uncertain"}
    /\ item \in [Copies -> ItemStates] /\ reserved \subseteq Copies
    /\ avail \in [Copies -> {"available", "reserved", "deleted", "uncertain"}]
    /\ task \in {"none", "queued", "running", "done"}
    /\ lease \in {"none", "active", "expired", "closed"}
    /\ attempt \in 0 .. MaxAttempts /\ resumes \subseteq Attempts
    /\ receipts \subseteq Entries /\ lost \subseteq Conditions
    /\ pc \in Locations /\ journal \subseteq Entries /\ replay \subseteq Entries
    /\ completed \subseteq Copies /\ unknown \subseteq Copies
    /\ toProbe \subseteq Copies /\ toDelete \subseteq Copies
    /\ obj \in [Copies -> {"ours", "other", "gone"}] /\ inflight \subseteq Remote
    /\ faults \in 0 .. MaxFaults /\ changes \in 0 .. MaxChanges

Init ==
    /\ exec = "queued" /\ item = [c \in Copies |-> "pending"]
    /\ reserved = Copies /\ avail = [c \in Copies |-> "reserved"]
    /\ task = "none" /\ lease = "none" /\ attempt = 0 /\ resumes = {} /\ receipts = {}
    /\ lost = {}
    /\ pc = "idle" /\ op = NoOp
    /\ completed = {} /\ unknown = {} /\ toProbe = {} /\ toDelete = {}
    /\ journal = {} /\ replay = {}
    /\ obj = [c \in Copies |-> "ours"] /\ inflight = {}
    /\ faults = 0 /\ changes = 0

Fault == faults < MaxFaults /\ faults' = faults + 1

-----------------------------------------------------------------------------
(* The controller. *)

databaseBackupRetentionAuthority == "owner" \notin lost

LockDatabaseBackupRetentionRunner == "runner" \notin lost

LockDatabaseBackupRetentionDestination == "destination" \notin lost

(* No browser downloads from the pool.                                     *)
DatabaseDownloadActive == "download" \in lost /\ Local # {}

(* Target revision and keys of a remote copy.                              *)
backupRemoteCurrent == "target" \notin lost \/ Remote = {}

backupRetentionCurrent ==
    /\ databaseBackupRetentionAuthority /\ LockDatabaseBackupRetentionRunner
    /\ LockDatabaseBackupRetentionDestination /\ backupRemoteCurrent /\ ~ DatabaseDownloadActive

DispatchDatabaseBackupRetention == exec' = "dispatched"

(* The job's handler, and the recovery pass that queues it again.          *)
PrepareDatabaseBackupRetention ==
    /\ exec = "queued" /\ backupRetentionCurrent
    /\ DispatchDatabaseBackupRetention /\ task' = "queued"
    /\ UNCHANGED <<item, reserved, avail, lease, attempt, resumes, receipts, lost, runner, world,
                   faults, changes>>

databaseBackupRetentionClaimAllowed == exec = "dispatched" /\ backupRetentionCurrent

DatabaseBackupRetentionLeaseLive == lease = "active"

(* The trigger on new leases.                                              *)
nerocd_backup_retention_lease(n) ==
    /\ reserved # {} /\ exec = "dispatched"
    /\ n > 1 => n \in resumes /\ ~ DatabaseBackupRetentionLeaseLive

ClaimRun ==
    /\ pc = "idle" /\ task = "queued" /\ attempt < MaxAttempts
    /\ databaseBackupRetentionClaimAllowed
    /\ nerocd_backup_retention_lease(attempt + 1)
    /\ task' = "running" /\ lease' = "active" /\ attempt' = attempt + 1
    /\ pc' = "loaded"
    /\ UNCHANGED <<exec, item, reserved, avail, resumes, receipts, lost, op, loops, journal,
                   replay, world, faults, changes>>

(* The deadline passes: while the runner executes that takes a fault, as   *)
(* it renews; a runner that left the claim lets it run out.                *)
ExpireLease ==
    /\ lease = "active"
    /\ IF pc \in {"down", "held", "replay", "idle"} THEN UNCHANGED faults ELSE Fault
    /\ lease' = "expired" /\ task' = "queued"
    /\ UNCHANGED <<exec, item, reserved, avail, attempt, resumes, receipts, lost, runner, world,
                   changes>>

(* Retryable: a held copy that is not an unknown nonversioned deletion.    *)
Retryable ==
    \E c \in reserved : ~ (item[c] = "uncertain" /\ c \in Remote \ Versioned)

(* Mutant: only a settled batch is continued.                              *)
MutResumesSettled == exec \in {"dispatched", "uncertain"} \/ (exec = "failed" /\ reserved # {})

Resumable == exec \in {"dispatched", "applying", "uncertain"} \/ (exec = "failed" /\ reserved # {})

ReadDatabaseBackupRetentionNextAttempt == attempt + 1

CreateDatabaseBackupRetentionResume(n) == n \notin resumes /\ resumes' = resumes \cup {n}

QueueDatabaseBackupRetentionTask == task' = "queued"

UpdateDatabaseBackupRetentionExecutionBody == exec' = "dispatched"

(* The owner submits the saved preview again: audited, on a lease that is  *)
(* no longer live.                                                         *)
backupRetentionResumeTx ==
    /\ backupRetentionCurrent
    /\ Resumable
    /\ ~ DatabaseBackupRetentionLeaseLive
    /\ ReadDatabaseBackupRetentionNextAttempt \in 2 .. MaxAttempts
    /\ Retryable
    /\ CreateDatabaseBackupRetentionResume(ReadDatabaseBackupRetentionNextAttempt)
    /\ QueueDatabaseBackupRetentionTask
    /\ UpdateDatabaseBackupRetentionExecutionBody
    /\ UNCHANGED <<item, reserved, avail, lease, attempt, receipts, lost, runner, world, faults,
                   changes>>

(* The owner's role, the runner, the destination, the target's keys or a   *)
(* browser download come and go.                                           *)
ChangeAuthority(x) ==
    /\ changes < MaxChanges
    /\ lost' = IF x \in lost THEN lost \ {x} ELSE lost \cup {x}
    /\ changes' = changes + 1
    /\ UNCHANGED <<rows, runner, world, faults>>

-----------------------------------------------------------------------------
(* DatabaseBackupRetentionMutation. *)

(* LockDatabaseBackupRetentionAuthority with live authority.               *)
backupRetentionAuthority(n) == n = attempt /\ lease = "active"

ReadDatabaseBackupRetentionReceipt(e) == e \in receipts

Acceptable(e) ==
    /\ backupRetentionAuthority(e.attempt) /\ backupRetentionCurrent
    /\ IF e.probe THEN e.c \in Remote \cap reserved
       ELSE IF e.phase = "intent" THEN item[e.c] \in {"pending", "intent", "uncertain"}
       ELSE item[e.c] \in {"intent", "uncertain"} \/ (e.phase = "failed" /\ item[e.c] = "pending")

ProbeFailed(e) == e.probe /\ e.phase \in {"uncertain", "failed"}

(* Mutant: an uncertain deletion releases its reservation.                 *)
MutReleasesUncertain(e) ==
    IF e.probe \/ e.phase = "intent" THEN reserved ELSE reserved \ {e.c}

Reservations(e) ==
    IF e.probe \/ e.phase \in {"intent", "uncertain"} THEN reserved ELSE reserved \ {e.c}

(* Mutant: every result but a deletion makes the copy available again.     *)
MutUncertainAvailable(phase) ==
    IF phase \in {"deleted", "absent"} THEN "deleted" ELSE "available"

(* Mutant: a copy whose deletion is unknown is listed as deleted.          *)
MutUncertainDeleted(phase) == IF phase = "failed" THEN "available" ELSE "deleted"

(* Mutant: the result's phase is stored as the copy's availability.        *)
MutKeepsPhase(phase) == IF phase = "failed" THEN "available" ELSE phase

SettledAvailability(phase) ==
    CASE phase \in {"deleted", "absent"} -> "deleted"
      [] phase = "uncertain" -> "uncertain"
      [] OTHER -> "available"

Settled == {"succeeded", "failed", "uncertain"}

Aggregate(e, items) ==
    LET done == ProbeFailed(e) \/ \A c \in Copies : items[c] \in Results
    IN  IF done
        THEN CASE ProbeFailed(e) \/ \E c \in Copies : items[c] = "uncertain" -> "uncertain"
               [] \E c \in Copies : items[c] = "failed" -> "failed"
               [] OTHER -> "succeeded"
        ELSE IF ~ e.probe /\ e.phase = "intent" THEN "applying" ELSE exec

SetDatabaseBackupRetentionItem(e) ==
    /\ item' = IF e.probe THEN item ELSE [item EXCEPT ![e.c] = e.phase]
    /\ reserved' = Reservations(e)

SetDatabaseBackupCopyAvailability(e) ==
    avail' = IF e.probe \/ e.phase = "intent" THEN avail
             ELSE [avail EXCEPT ![e.c] = SettledAvailability(e.phase)]

CompleteDatabaseBackupRetentionTask(done) == task' = IF done THEN "done" ELSE task

CompleteDatabaseBackupRetentionLease(done) == lease' = IF done THEN "closed" ELSE lease

CreateDatabaseBackupRetentionReceipt(e) == receipts' = receipts \cup {e}

Apply(e) ==
    /\ SetDatabaseBackupRetentionItem(e)
    /\ SetDatabaseBackupCopyAvailability(e)
    /\ exec' = Aggregate(e, item')
    /\ CompleteDatabaseBackupRetentionTask(exec' \in Settled)
    /\ CompleteDatabaseBackupRetentionLease(exec' \in Settled)
    /\ CreateDatabaseBackupRetentionReceipt(e)
    /\ UNCHANGED <<attempt, resumes, lost>>

(* The replay of a receipt answers without effect, whatever has become of  *)
(* the lease; anything new needs live authority.                           *)
DatabaseBackupRetentionMutation(e) ==
    \/ ReadDatabaseBackupRetentionReceipt(e) /\ UNCHANGED server
    \/ ~ ReadDatabaseBackupRetentionReceipt(e) /\ Acceptable(e) /\ Apply(e)

Refused(e) == ~ ReadDatabaseBackupRetentionReceipt(e) /\ ~ Acceptable(e)

DatabaseBackupRetentionRetirement(n) ==
    (\E m \in resumes : m > n) /\ (n = attempt => lease # "active")

-----------------------------------------------------------------------------
(* The runner: a claim. *)

Entry(o) == [c |-> o.c, phase |-> o.phase, probe |-> o.probe, attempt |-> attempt]

Old(c, probe) == {e \in journal : e.attempt < attempt /\ e.c = c /\ e.probe = probe}

(* Any error of a claim ends the process; errBackupRetentionHeld is told   *)
(* apart so that properties can speak of it.                               *)
Exit(where) ==
    /\ pc' = where /\ op' = NoOp
    /\ completed' = {} /\ unknown' = {} /\ toProbe' = {} /\ toDelete' = {}
    /\ replay' = {}

DatabaseBackupRetentionPlan == backupRetentionAuthority(attempt) /\ exec \in {"dispatched", "applying"} /\ backupRetentionCurrent

(* The keys of a target go to the live attempt of a current plan.          *)
backupRetentionDeliveryAuthority ==
    backupRetentionAuthority(attempt) /\ exec \in {"dispatched", "applying"} /\ backupRetentionCurrent

AuthorizeBackupRetentionCredentials == Remote # {} => backupRetentionDeliveryAuthority

LatestResult(c) ==
    LET results == {e \in Old(c, FALSE) : e.phase # "intent"}
    IN  {e \in results : \A f \in results : f.attempt <= e.attempt}

(* Mutant: an interrupted deletion of a nonversioned object is repeated.   *)
MutRepeatsUnknown(c) == FALSE

(* A DELETE of a nonversioned object that may have been sent.              *)
UnknownDelete(c) ==
    c \in Remote \ Versioned /\ item[c] \in {"intent", "uncertain"}

SavedEffect(c) == \E e \in LatestResult(c) : e.phase \in {"deleted", "absent"}

(* The plan, the saved entries, and what is observed of each copy.         *)
Classify ==
    /\ pc = "loaded" /\ DatabaseBackupRetentionPlan /\ AuthorizeBackupRetentionCredentials
    /\ LET open == {c \in Copies : item[c] \in {"pending", "intent", "uncertain"}}
           seen == {c \in open : SavedEffect(c) /\ obj[c] = "gone"}
           doubt == {c \in open : (SavedEffect(c) /\ obj[c] # "gone")
                                     \/ (~ SavedEffect(c) /\ UnknownDelete(c))}
       IN  /\ open # {}
           /\ completed' = seen /\ unknown' = doubt
           /\ toProbe' = (open \cap Remote) \ (seen \cup doubt)
           /\ toDelete' = open
           /\ journal' = journal \ UNION {Old(c, FALSE) : c \in Copies \ open}
    /\ pc' = "probe"
    /\ UNCHANGED <<server, op, replay, world, faults, changes>>

ClassifyFails ==
    /\ pc = "loaded" /\ ~ DatabaseBackupRetentionPlan
    /\ Exit("down")
    /\ UNCHANGED <<server, journal, world, faults, changes>>

Unpaired(c) ==
    \E e \in Old(c, TRUE) :
        /\ e.phase = "intent"
        /\ ~ \E f \in Old(c, TRUE) : f.attempt = e.attempt /\ f.phase \in {"deleted", "absent"}

Probe ==
    /\ pc = "probe" /\ toProbe # {}
    /\ LET c == Min(toProbe) IN
       \/ /\ Unpaired(c) /\ Exit("held")
       \/ /\ ~ Unpaired(c)
          /\ op' = [c |-> c, probe |-> TRUE,
                     phase |-> IF \E e \in Old(c, TRUE) : e.phase = "intent" THEN "absent" ELSE "intent"]
          /\ pc' = "record"
          /\ UNCHANGED <<loops, replay>>
    /\ UNCHANGED <<server, journal, world, faults, changes>>

ProbesDone ==
    /\ pc = "probe" /\ toProbe = {}
    /\ pc' = "copy"
    /\ UNCHANGED <<server, op, loops, journal, replay, world, faults, changes>>

(* Mutant: the conditional probe is not evaluated.                         *)
MutQualifiesAny == TRUE

(* PUT, a DELETE that must be refused, a DELETE that must succeed.         *)
qualifyRetention == Conditional

Qualify ==
    /\ pc = "qualify"
    /\ \/ qualifyRetention /\ op' = [op EXCEPT !.phase = "deleted"] /\ UNCHANGED faults
       \/ ~ qualifyRetention /\ op' = [op EXCEPT !.phase = "uncertain"] /\ UNCHANGED faults
       \/ Fault /\ op' = [op EXCEPT !.phase = "uncertain"]
    /\ pc' = "record"
    /\ UNCHANGED <<server, loops, journal, replay, world, changes>>

NextCopy ==
    /\ pc = "copy" /\ toDelete # {}
    /\ LET c == Min(toDelete) IN
       op' = [c |-> c, probe |-> FALSE,
              phase |-> IF c \in completed THEN "absent" ELSE IF c \in unknown THEN "uncertain"
                        ELSE "intent"]
    /\ pc' = "record"
    /\ UNCHANGED <<server, loops, journal, replay, world, faults, changes>>

ClaimDone ==
    /\ pc = "copy" /\ toDelete = {}
    /\ Exit("idle")
    /\ UNCHANGED <<server, journal, world, faults, changes>>

(* Mutant: the mutation is sent without being retained first.              *)
MutSkipsJournal == journal

AppendDatabaseBackupRetention == journal \cup {Entry(op)}

(* Mutant: a deletion starts before the controller has its intent.         *)
MutDeletesFirst == IF op.phase = "intent" /\ ~ op.probe THEN "delete" ELSE "send"

AfterRecord == "send"

Record ==
    /\ pc = "record"
    /\ journal' = AppendDatabaseBackupRetention
    /\ pc' = AfterRecord
    /\ UNCHANGED <<server, op, loops, replay, world, faults, changes>>

AfterSend ==
    CASE op.phase = "intent" /\ op.probe -> "qualify"
      [] op.phase = "intent" -> "delete"
      [] OTHER -> "ack"

Send ==
    /\ pc = "send"
    /\ DatabaseBackupRetentionMutation(Entry(op))
    /\ IF ProbeFailed(op) THEN Exit("held")
       ELSE pc' = AfterSend /\ UNCHANGED <<op, loops, replay>>
    /\ UNCHANGED <<journal, world, faults, changes>>

SendRefused ==
    /\ pc = "send" /\ Refused(Entry(op))
    /\ Exit("down")
    /\ UNCHANGED <<server, journal, world, faults, changes>>

(* Never delivered, or delivered and the answer lost.                      *)
SendFails ==
    /\ pc = "send" /\ Fault
    /\ UNCHANGED server \/ DatabaseBackupRetentionMutation(Entry(op))
    /\ Exit("down")
    /\ UNCHANGED <<journal, world, changes>>

(* The lease and the plan, read again before the effect.                   *)
retentionBefore == DatabaseBackupRetentionPlan

(* Mutant: whatever file has the name is removed.                          *)
MutRemovesAny(c) == obj[c] \in {"ours", "other"}

(* The open file has the recorded device, inode, size and digest.          *)
OwnedFile(c) == obj[c] = "ours"

(* RemoveOwnedWithAuthority: one locked look and unlink; an error after    *)
(* the unlink is not told apart from one before it.                        *)
DeleteLocal ==
    /\ pc = "delete" /\ op.c \in Local
    /\ \/ /\ ~ retentionBefore \/ (obj[op.c] # "gone" /\ ~ OwnedFile(op.c))
          /\ op' = [op EXCEPT !.phase = "uncertain"] /\ UNCHANGED <<obj, faults>>
       \/ /\ retentionBefore /\ obj[op.c] = "gone"
          /\ op' = [op EXCEPT !.phase = "absent"] /\ UNCHANGED <<obj, faults>>
       \/ /\ retentionBefore /\ OwnedFile(op.c)
          /\ op' = [op EXCEPT !.phase = "deleted"]
          /\ obj' = [obj EXCEPT ![op.c] = "gone"] /\ UNCHANGED faults
       \/ /\ retentionBefore /\ OwnedFile(op.c) /\ Fault
          /\ op' = [op EXCEPT !.phase = "uncertain"]
          /\ obj' = [obj EXCEPT ![op.c] = "gone"]
    /\ pc' = "record"
    /\ UNCHANGED <<server, loops, journal, replay, inflight, changes>>

(* HEAD and GET of the exact object.                                       *)
retentionHead ==
    /\ pc = "delete" /\ op.c \in Remote
    /\ \/ /\ ~ retentionBefore \/ obj[op.c] = "other"
          /\ op' = [op EXCEPT !.phase = "uncertain"] /\ pc' = "record"
       \/ /\ retentionBefore /\ obj[op.c] = "gone"
          /\ op' = [op EXCEPT !.phase = "absent"] /\ pc' = "record"
       \/ retentionBefore /\ obj[op.c] = "ours" /\ pc' = "deleting" /\ UNCHANGED op
    /\ UNCHANGED <<server, loops, journal, replay, world, faults, changes>>

(* What a DELETE with the saved ETag does to whatever is there.            *)
Land(c) == IF obj[c] = "ours" \/ ~ Conditional THEN "gone" ELSE obj[c]

deleteRetentionCopy ==
    /\ pc = "deleting"
    /\ \/ /\ Land(op.c) = "gone" /\ obj' = [obj EXCEPT ![op.c] = "gone"]
          /\ op' = [op EXCEPT !.phase = "deleted"] /\ UNCHANGED <<inflight, faults>>
       \/ /\ Land(op.c) # "gone"
          /\ op' = [op EXCEPT !.phase = "uncertain"] /\ UNCHANGED <<obj, inflight, faults>>
       \/ /\ Fault /\ inflight' = inflight \cup {op.c}
          /\ op' = [op EXCEPT !.phase = "uncertain"] /\ UNCHANGED obj
    /\ pc' = "record"
    /\ UNCHANGED <<server, loops, journal, replay, changes>>

(* Acknowledged entries leave the journal: the intent, the result, then    *)
(* what older attempts left for this copy.                                 *)
Ack ==
    /\ pc = "ack"
    /\ journal' = journal \ {Entry([op EXCEPT !.phase = "intent"])}
    /\ pc' = "ackresult"
    /\ UNCHANGED <<server, op, loops, replay, world, faults, changes>>

AckResult ==
    /\ pc = "ackresult"
    /\ journal' = journal \ {Entry(op)}
    /\ pc' = "retire"
    /\ UNCHANGED <<server, op, loops, replay, world, faults, changes>>

RetireOld ==
    /\ pc = "retire"
    /\ journal' = journal \ Old(op.c, op.probe)
    /\ IF op.probe
       THEN /\ toProbe' = IF op.phase = "absent" THEN toProbe ELSE toProbe \ {op.c}
            /\ pc' = "probe" /\ UNCHANGED toDelete
       ELSE toDelete' = toDelete \ {op.c} /\ pc' = "copy" /\ UNCHANGED toProbe
    /\ op' = NoOp
    /\ UNCHANGED <<server, completed, unknown, replay, world, faults, changes>>

Crash ==
    /\ pc \notin {"down", "held"} /\ Fault
    /\ Exit("down")
    /\ UNCHANGED <<server, journal, world, changes>>

-----------------------------------------------------------------------------
(* The runner: start-up, reconcileDatabaseBackupRetentionJournal.          *)

Start ==
    /\ pc \in {"down", "held"}
    /\ pc' = "replay" /\ replay' = {e \in journal : e.phase # "intent"}
    /\ UNCHANGED <<server, op, loops, journal, world, faults, changes>>

AckPair(e) == journal \ {e, [e EXCEPT !.phase = "intent"]}

(* Mutant: entries are dropped whether or not the controller answered.     *)
MutDropsEntries(e) == AckPair(e)

(* A failed probe stays as evidence although its receipt is there.         *)
Replayed(e) ==
    IF Refused(e) \/ (e.probe /\ e.phase = "uncertain") THEN journal ELSE AckPair(e)

ReplayEntry ==
    /\ pc = "replay"
    /\ \E e \in replay :
          /\ IF Refused(e) THEN UNCHANGED server ELSE DatabaseBackupRetentionMutation(e)
          /\ journal' = Replayed(e)
          /\ replay' = replay \ {e}
    /\ UNCHANGED <<pc, op, loops, world, faults, changes>>

(* What is left must belong to attempts an audited continuation replaced.  *)
StartSettles ==
    /\ pc = "replay" /\ replay = {}
    /\ pc' = IF \A e \in journal : DatabaseBackupRetentionRetirement(e.attempt) THEN "idle" ELSE "down"
    /\ UNCHANGED <<server, op, loops, journal, replay, world, faults, changes>>

-----------------------------------------------------------------------------
(* The outside world. *)

LateDelete(c) ==
    /\ c \in inflight
    /\ obj' = [obj EXCEPT ![c] = Land(c)] /\ inflight' = inflight \ {c}
    /\ UNCHANGED <<server, runner, faults, changes>>

(* Another writer replaces or removes the file or the current object; an   *)
(* immutable version is out of its reach.                                  *)
Replace(c) ==
    /\ changes < MaxChanges /\ c \notin Versioned /\ obj[c] \in {"ours", "gone"}
    /\ changes' = changes + 1
    /\ \/ obj' = [obj EXCEPT ![c] = "other"]
       \/ obj[c] = "ours" /\ obj' = [obj EXCEPT ![c] = "gone"]
    /\ UNCHANGED <<server, runner, inflight, faults>>

RunnerStep ==
    \/ Classify \/ ClassifyFails \/ Probe \/ ProbesDone \/ Qualify \/ NextCopy \/ ClaimDone
    \/ Record \/ Send \/ SendRefused \/ DeleteLocal \/ retentionHead \/ deleteRetentionCopy
    \/ Ack \/ AckResult \/ RetireOld

StartUp == Start \/ ReplayEntry \/ StartSettles

Next ==
    \/ PrepareDatabaseBackupRetention \/ ClaimRun \/ ExpireLease \/ backupRetentionResumeTx
    \/ \E x \in Conditions : ChangeAuthority(x)
    \/ RunnerStep \/ SendFails \/ Crash \/ StartUp
    \/ \E c \in Copies : LateDelete(c)
    \/ \E c \in Copies : Replace(c)

Spec == Init /\ [][Next]_vars

-----------------------------------------------------------------------------
(* A copy recorded deleted is gone for good: the platform's object is not  *)
(* there, and no later deletion of this batch can touch what another       *)
(* writer puts in its place.                                               *)
DeletedIsGone ==
    \A c \in Copies : avail[c] = "deleted" => obj[c] # "ours"

(* A deletion of a nonversioned object whose answer was lost keeps its     *)
(* copy reserved: nothing is admitted on the key while the provider may    *)
(* still remove what is there.                                             *)
UnknownStaysReserved ==
    \A c \in inflight \ Versioned : c \in reserved /\ avail[c] \in {"reserved", "uncertain"}

(* The controller learns of a deletion before it happens: an object of the *)
(* batch that this runner removed was announced by an intent, and a copy   *)
(* listed available was not touched.                                       *)
EffectIsAnnounced ==
    changes = 0 =>
        \A c \in Copies : obj[c] = "gone" \/ c \in inflight =>
            item[c] \in {"intent", "deleted", "absent", "uncertain"}

(* What another writer put at the key of a copy survives, also on a store  *)
(* that ignores If-Match: the probe refuses such a store.                  *)
OtherObjectSurvives ==
    [][\A c \in Copies : obj[c] = "other" => obj'[c] = "other"]_vars

(* A nonversioned object is deleted at most once: while one DELETE is      *)
(* unanswered the runner is not about to send another.                     *)
NoSecondDelete == pc = "deleting" /\ op.c \notin Versioned => op.c \notin inflight

(* A result the runner has seen is not lost: until the controller has it,  *)
(* the journal holds an entry of the copy.                                 *)
EffectIsRetained ==
    \A c \in Local :
        changes = 0 /\ obj[c] = "gone" /\ item[c] \notin Results =>
            \E e \in journal : e.c = c /\ ~ e.probe

(* Untouched copies can continue in the same batch: a resumed attempt with *)
(* live authority does not give up before it has tried the local copies.   *)
UntouchedCopiesContinue ==
    pc = "held" /\ attempt > 1 /\ backupRetentionAuthority(attempt) /\ backupRetentionCurrent =>
        \A c \in Local : item[c] # "pending"

(* A copy of the batch that still belongs to it. *)
Reserved(c) == c \in reserved
=============================================================================
