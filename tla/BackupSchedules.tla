--------------------------- MODULE BackupSchedules ---------------------------
(* Backup schedules of one database: owners save revisions of a schedule, and  *)
(* the hosting controllers of the server processes make passes over the        *)
(* schedules that discover the newest due minute, admit it as an ordinary      *)
(* backup, and recover or retire admitted backups whose job was lost.          *)
(*                                                                             *)
(* A transaction is one action.  A pass reads its discovery time and its list  *)
(* first and takes the schedules one transaction each, so two controllers and  *)
(* the owners interleave between them.  Time is counted in units; Window,      *)
(* Requeue and MaxAge stand for ten minutes, sixty minutes and a day.          *)
EXTENDS Integers, Sequences, FiniteSets, FiniteSetsExt, SequencesExt

CONSTANTS
    Schedules,      \* schedule identifiers
    Requests,       \* request identifiers of SaveDatabaseBackupSchedule
    Actors,         \* principals that may own the project
    Controllers,    \* server processes
    Frequencies,    \* records [slots, fixed]: wall minutes, and whether hours are fixed
    MaxTime,        \* bound of the clock
    Fold,           \* the first minute after the local clock was set back by one
    Window, Requeue, MaxAge,
    Batch,          \* schedules a pass takes at most
    MaxFaults,      \* failed passes and discarded jobs
    MaxChanges      \* changes of an owner's role and of the source

Times == 0..MaxTime
Never == -1
Slots == Schedules \X Times

(* The constants satisfy:
     /\ Window < Requeue /\ Requeue < MaxAge
     /\ \A f \in Frequencies : f.slots \subseteq Nat /\ f.fixed \in BOOLEAN *)

VARIABLES
    clock,
    hist,       \* hosting_database_backup_schedule_versions of each schedule
    cursor,     \* last_scheduled_at
    order,      \* schedules by checked_at
    answered,   \* hosting_database_backup_schedule_requests
    occ,        \* hosting_database_backup_schedule_occurrences
    op,         \* the backup of an admitted occurrence
    retired,    \* hosting_database_backup_schedule_retirements
    job,        \* slots whose backup has a job in the queue
    owner,      \* who owns the project now
    source,     \* the database: "healthy", "gone" or "moved" to another binding
    ctl,        \* the controllers' passes
    faults, changes

vars == <<clock, hist, cursor, order, answered, occ, op, retired, job, owner,
          source, ctl, faults, changes>>
tables == <<hist, cursor, order, answered, occ, op, retired, job>>

NoOcc == [state |-> "none", reason |-> "", rev |-> 0, enqueued |-> Never]
NoOp == [state |-> "none", held |-> FALSE]
Idle == [pc |-> "idle", time |-> Never, ids |-> <<>>]

Init ==
    /\ clock = 0
    /\ hist = [s \in Schedules |-> <<>>] /\ cursor = [s \in Schedules |-> Never]
    /\ order = <<>> /\ answered = [r \in Requests |-> <<>>]
    /\ occ = [x \in Slots |-> NoOcc] /\ op = [x \in Slots |-> NoOp]
    /\ retired = [x \in Slots |-> "none"] /\ job = {}
    /\ owner = [a \in Actors |-> TRUE] /\ source = "healthy"
    /\ ctl = [c \in Controllers |-> Idle]
    /\ faults = 0 /\ changes = 0

Fault == faults < MaxFaults /\ faults' = faults + 1

Revision(s) == Len(hist[s])
Current(s) == hist[s][Revision(s)]
Enabled(s) == hist[s] # <<>> /\ Current(s).enabled

-----------------------------------------------------------------------------
(* Discovery of a due minute.                                                *)

(* The local wall clock; the minute before Fold happens twice. *)
Wall(t) == IF t >= Fold THEN t - 1 ELSE t

backupSchedule(f, t) == Wall(t) \in f.slots

(* Mutant: the cursor is not compared with the candidate. *)
MutCursorIgnored(f, now, last) ==
    LET due == {t \in Times : t <= now /\ t >= now - Window /\ backupSchedule(f, t)}
    IN  IF due = {} THEN Never ELSE Max(due)

(* Mutant: a repeated wall minute is taken for a new one. *)
MutFoldIgnored(f, now, last) ==
    LET due == {t \in Times : t <= now /\ t >= now - Window /\ backupSchedule(f, t)}
    IN  IF due = {} \/ Max(due) <= last THEN Never ELSE Max(due)

NewestHostingDatabaseBackupOccurrence(f, now, last) ==
    LET due == {t \in Times : t <= now /\ t >= now - Window /\ backupSchedule(f, t)}
        newest == Max(due)
    IN  IF \/ due = {}
           \/ newest <= last
           \/ last # Never /\ f.fixed /\ Wall(newest) = Wall(last)
        THEN Never ELSE newest

-----------------------------------------------------------------------------
(* The owner's requests.                                                      *)

databaseBackupScheduleAuthority(a) == owner[a] /\ source # "gone"

(* The saved answer is returned for a request that was answered before. *)
ReadDatabaseBackupScheduleRequest(r) == answered[r] # <<>>

CreateDatabaseBackupSchedule(s) == order' = <<s>> \o order
UpdateDatabaseBackupSchedule(s) == order' = order

CreateDatabaseBackupScheduleVersion(s, v) == hist' = [hist EXCEPT ![s] = Append(@, v)]
CreateDatabaseBackupScheduleRequest(r, s, rev) == answered' = [answered EXCEPT ![r] = <<s, rev>>]

Version(r, a, f, e) == [request |-> r, actor |-> a, freq |-> f, enabled |-> e]

(* Mutant: a repeated request is not recognised. *)
MutSaveTwice(r, a, s, expected, f, e) ==
    /\ databaseBackupScheduleAuthority(a)
    /\ expected = Revision(s)
    /\ CreateDatabaseBackupScheduleVersion(s, Version(r, a, f, e))
    /\ CreateDatabaseBackupScheduleRequest(r, s, expected + 1)
    /\ IF expected = 0 THEN CreateDatabaseBackupSchedule(s) ELSE UpdateDatabaseBackupSchedule(s)
    /\ UNCHANGED <<clock, cursor, occ, op, retired, job, owner, source, ctl, faults, changes>>

(* An expected version of zero creates the schedule under a fresh identifier;  *)
(* any other revises the schedule at exactly that revision, and the binding    *)
(* must be the one the schedule was created for.  The cursor is kept.          *)
SaveDatabaseBackupSchedule(r, a, s, expected, f, e) ==
    /\ databaseBackupScheduleAuthority(a)
    /\ ~ ReadDatabaseBackupScheduleRequest(r)
    /\ expected = Revision(s)
    /\ expected > 0 => source = "healthy"
    /\ CreateDatabaseBackupScheduleVersion(s, Version(r, a, f, e))
    /\ CreateDatabaseBackupScheduleRequest(r, s, expected + 1)
    /\ IF expected = 0 THEN CreateDatabaseBackupSchedule(s) ELSE UpdateDatabaseBackupSchedule(s)
    /\ UNCHANGED <<clock, cursor, occ, op, retired, job, owner, source, ctl, faults, changes>>

-----------------------------------------------------------------------------
(* The controller's pass.                                                     *)

QueuedOf(s) == {x \in Slots : x[1] = s /\ occ[x].state = "admitted" /\ op[x].state = "queued"}

(* Mutant: a disabled schedule is not looked at any more. *)
MutListEnabledOnly == SelectSeq(order, LAMBDA s : Enabled(s))

ListDatabaseBackupSchedulesToReconcile == SelectSeq(order, LAMBDA s : Enabled(s) \/ QueuedOf(s) # {})

StartPass(c) ==
    /\ ctl[c].pc = "idle"
    /\ LET ids == ListDatabaseBackupSchedulesToReconcile
       IN  /\ ids # <<>>
           /\ ctl' = [ctl EXCEPT ![c] = [pc |-> "pass", time |-> clock,
                        ids |-> SubSeq(ids, 1, IF Len(ids) < Batch THEN Len(ids) ELSE Batch)]]
    /\ UNCHANGED <<clock, tables, owner, source, faults, changes>>

(* Mutant: a checked schedule keeps its place in the order. *)
MutCheckKeepsPlace(s) == order

(* Mutant: a checked schedule is listed a second time. *)
MutCheckTwice(s) == Append(order, s)

CheckDatabaseBackupSchedule(s) == Append(SelectSeq(order, LAMBDA t : t # s), s)

DatabaseBackupSourceBusy == \E x \in Slots : op[x].held

(* "" when admitted, otherwise why the occurrence is refused. *)
backupScheduleDenial(s) ==
    LET a == Current(s).actor
    IN  CASE ~ owner[a] -> "authority_denied"
          [] owner[a] /\ source = "gone" -> "source_unavailable"
          [] owner[a] /\ source = "moved" -> "placement_changed"
          [] owner[a] /\ source = "healthy" /\ DatabaseBackupSourceBusy -> "source_busy"
          [] OTHER -> ""

CreateDatabaseBackupScheduleOccurrence(s, due) ==
    LET reason == backupScheduleDenial(s)
    IN  [state |-> CASE reason = "" -> "admitted"
                     [] reason = "authority_denied" -> "denied"
                     [] OTHER -> "skipped",
         reason |-> reason, rev |-> Revision(s),
         enqueued |-> clock]

ListRecoverableDatabaseBackupOccurrences(s) ==
    {x \in QueuedOf(s) : occ[x].enqueued < clock - Requeue}

(* What the recovery does with a queued occurrence: its requester lost the     *)
(* source, it was superseded or is too old, or its job is published again.     *)
RecoveryOutcome(x, last) ==
    CASE ~ owner[hist[x[1]][occ[x].rev].actor] \/ source # "healthy" -> "held"
      [] last > x[2] \/ x[2] < clock - MaxAge -> "released"
      [] OTHER -> "enqueued"

(* FailExpiredDatabaseBackup keeps the hold, ReleaseExpiredDatabaseBackup ends *)
(* it; a released occurrence is recorded as missed.                            *)
RecordUnreleasedDatabaseBackupRetirement == [state |-> "failed", held |-> TRUE]
RecordReleasedDatabaseBackupRetirement == [state |-> "failed", held |-> FALSE]
MissDatabaseBackupOccurrence(o) == [o EXCEPT !.state = "missed", !.reason = "newer_occurrence"]
EnqueueDatabaseBackupOccurrence(o) == [o EXCEPT !.enqueued = clock]

(* Mutant: a revoked backup is recorded as missed although its hold remains. *)
MutMissesHeld(s, last, occ1, op1, job1) ==
    LET lost == ListRecoverableDatabaseBackupOccurrences(s)
        out(x) == RecoveryOutcome(x, last)
    IN  /\ op' = [x \in Slots |->
            IF x \notin lost \/ out(x) = "enqueued" THEN op1[x]
            ELSE IF out(x) = "held" THEN RecordUnreleasedDatabaseBackupRetirement
            ELSE RecordReleasedDatabaseBackupRetirement]
        /\ occ' = [x \in Slots |->
            IF x \notin lost THEN occ1[x]
            ELSE IF out(x) # "enqueued" THEN MissDatabaseBackupOccurrence(occ1[x])
            ELSE EnqueueDatabaseBackupOccurrence(occ1[x])]
        /\ retired' = [x \in Slots |->
            IF x \in lost /\ out(x) # "enqueued" THEN out(x) ELSE retired[x]]
        /\ job' = job1 \cup {x \in lost : out(x) = "enqueued"}

recoverDatabaseBackupScheduleOccurrences(s, last, occ1, op1, job1) ==
    LET lost == ListRecoverableDatabaseBackupOccurrences(s)
        out(x) == RecoveryOutcome(x, last)
    IN  /\ op' = [x \in Slots |->
            IF x \notin lost \/ out(x) = "enqueued" THEN op1[x]
            ELSE IF out(x) = "held" THEN RecordUnreleasedDatabaseBackupRetirement
            ELSE RecordReleasedDatabaseBackupRetirement]
        /\ occ' = [x \in Slots |->
            IF x \notin lost \/ out(x) = "held" THEN occ1[x]
            ELSE IF out(x) = "released" THEN MissDatabaseBackupOccurrence(occ1[x])
            ELSE EnqueueDatabaseBackupOccurrence(occ1[x])]
        /\ retired' = [x \in Slots |->
            IF x \in lost /\ out(x) # "enqueued" THEN out(x) ELSE retired[x]]
        /\ job' = job1 \cup {x \in lost : out(x) = "enqueued"}

NextSchedule(c) ==
    ctl' = [ctl EXCEPT ![c] = IF Len(@.ids) > 1 THEN [@ EXCEPT !.ids = Tail(@)] ELSE Idle]

(* The schedule is read again under its lock; the discovery time is the pass's. *)
reconcileDatabaseBackupSchedule(c) ==
    /\ ctl[c].pc = "pass"
    /\ LET s == Head(ctl[c].ids)
           due == IF Enabled(s)
                  THEN NewestHostingDatabaseBackupOccurrence(Current(s).freq, ctl[c].time, cursor[s])
                  ELSE Never
           x == <<s, due>>
           new == CreateDatabaseBackupScheduleOccurrence(s, due)
           admitted == due # Never /\ new.state = "admitted"
           last == IF due # Never THEN due ELSE cursor[s]
       IN  /\ order' = CheckDatabaseBackupSchedule(s)
           /\ cursor' = [cursor EXCEPT ![s] = last]
           /\ recoverDatabaseBackupScheduleOccurrences(s, last,
                IF due # Never THEN [occ EXCEPT ![x] = new] ELSE occ,
                IF admitted THEN [op EXCEPT ![x] = [state |-> "queued", held |-> TRUE]] ELSE op,
                IF admitted THEN job \cup {x} ELSE job)
    /\ NextSchedule(c)
    /\ UNCHANGED <<clock, hist, answered, owner, source, faults, changes>>

(* The deadline of a pass, a lost connection or a failed publication rolls the *)
(* schedule's transaction back and ends the pass.                              *)
PassFails(c) ==
    /\ ctl[c].pc = "pass" /\ Fault
    /\ ctl' = [ctl EXCEPT ![c] = Idle]
    /\ UNCHANGED <<clock, tables, owner, source, changes>>

-----------------------------------------------------------------------------
(* The rest of a backup's life, as far as a schedule sees it.                 *)

(* Mutant: the worker does not look at the operation's state. *)
MutPrepareBlind(x) ==
    /\ x \in job /\ job' = job \ {x}
    /\ op' = [op EXCEPT ![x] = [state |-> "dispatched", held |-> TRUE]]
    /\ UNCHANGED <<clock, hist, cursor, order, answered, occ, retired, owner, source, ctl, faults, changes>>

(* The job returns without effect unless the operation is still queued. *)
PrepareDatabaseBackup(x) ==
    /\ x \in job /\ job' = job \ {x}
    /\ IF op[x].state # "queued" THEN op' = op
       ELSE /\ owner[hist[x[1]][occ[x].rev].actor] /\ source = "healthy"
            /\ op' = [op EXCEPT ![x].state = "dispatched"]
    /\ UNCHANGED <<clock, hist, cursor, order, answered, occ, retired, owner, source, ctl, faults, changes>>

(* The queue gives a job up after its last retry; LastDiscard leaves the clock *)
(* room for the recovery.                                                      *)
LastDiscard == MaxTime - Requeue - 1

DiscardJob(x) ==
    /\ clock <= LastDiscard
    /\ x \in job /\ Fault /\ job' = job \ {x}
    /\ UNCHANGED <<clock, hist, cursor, order, answered, occ, op, retired, owner, source, ctl, changes>>

(* The runner's result releases the source, or keeps it when uncertain. *)
BackupSettles(x) ==
    /\ op[x].state = "dispatched"
    /\ \E v \in {[state |-> "succeeded", held |-> FALSE], [state |-> "uncertain", held |-> TRUE]} :
            op' = [op EXCEPT ![x] = v]
    /\ UNCHANGED <<clock, hist, cursor, order, answered, occ, retired, job, owner, source, ctl, faults, changes>>

ChangeOwner(a) ==
    /\ changes < MaxChanges /\ changes' = changes + 1
    /\ owner' = [owner EXCEPT ![a] = ~ @]
    /\ UNCHANGED <<clock, tables, source, ctl, faults>>

ChangeSource(v) ==
    /\ changes < MaxChanges /\ changes' = changes + 1
    /\ source # v /\ source' = v
    /\ UNCHANGED <<clock, tables, owner, ctl, faults>>

Tick ==
    /\ clock < MaxTime /\ clock' = clock + 1
    /\ UNCHANGED <<tables, owner, source, ctl, faults, changes>>

Next ==
    \/ \E r \in Requests, a \in Actors, s \in Schedules, n \in 0..Cardinality(Requests),
          f \in Frequencies, e \in BOOLEAN : SaveDatabaseBackupSchedule(r, a, s, n, f, e)
    \/ \E c \in Controllers : StartPass(c) \/ reconcileDatabaseBackupSchedule(c) \/ PassFails(c)
    \/ \E x \in Slots : PrepareDatabaseBackup(x) \/ DiscardJob(x) \/ BackupSettles(x)
    \/ \E a \in Actors : ChangeOwner(a)
    \/ \E v \in {"healthy", "gone", "moved"} : ChangeSource(v)
    \/ Tick

Spec == Init /\ [][Next]_vars

-----------------------------------------------------------------------------
(* Every variable has its type, and the order lists each schedule once. *)
SchTypeOK ==
    /\ clock \in Times
    /\ \A s \in Schedules : cursor[s] \in Times \cup {Never}
    /\ \A x \in Slots :
        /\ occ[x].state \in {"none", "admitted", "denied", "skipped", "missed"}
        /\ op[x].state \in {"none", "queued", "dispatched", "succeeded", "failed", "uncertain"}
    /\ ToSet(order) = {s \in Schedules : hist[s] # <<>>}
    /\ Len(order) = Cardinality(ToSet(order))
    /\ job \subseteq Slots /\ owner \in [Actors -> BOOLEAN]

(* A discovered minute is decided once: later passes, of any controller and    *)
(* with an older discovery time, never overwrite an occurrence; it can only    *)
(* be marked missed or have its job published again.                           *)
SlotIsDecidedOnce ==
    [][\A x \in Slots : occ[x].state # "none" =>
        /\ occ'[x].rev = occ[x].rev
        /\ occ'[x].state # occ[x].state =>
            occ[x].state = "admitted" /\ occ'[x].state = "missed"]_vars

(* A retired backup never runs: whatever job is still queued or delayed for it *)
(* leaves it failed, and its hold on the database as the retirement recorded.  *)
RetiredNeverRuns ==
    \A x \in Slots : retired[x] # "none" =>
        op[x] = [state |-> "failed", held |-> retired[x] = "held"]

(* A missed occurrence left nothing behind: its backup was retired with its    *)
(* hold released, and a later minute of the schedule was discovered or it was  *)
(* older than a day.  A backup whose requester was revoked keeps its hold and  *)
(* stays admitted in the history.                                              *)
MissedIsReleased ==
    \A x \in Slots :
        /\ occ[x].state = "missed" => retired[x] = "released"
        /\ retired[x] = "held" => occ[x].state = "admitted"

(* When the local clock is set back, a schedule with fixed hours does not run  *)
(* at a minute with the wall time of the minute it ran at last.                *)
FoldRunsOnce ==
    \A s \in Schedules : \A t, u \in Times :
        /\ t < u /\ occ[<<s, t>>].state # "none" /\ occ[<<s, u>>].state # "none"
        /\ \A v \in Times : t < v /\ v < u => occ[<<s, v>>].state = "none"
        /\ hist[s][occ[<<s, u>>].rev].freq.fixed
        => Wall(t) # Wall(u)

(* A request that is repeated, for instance because its answer was lost, has   *)
(* no second effect: no two revisions of any schedules come from one request.  *)
RequestSavedOnce ==
    \A s, t \in Schedules : \A i \in 1..Len(hist[s]), j \in 1..Len(hist[t]) :
        hist[s][i].request = hist[t][j].request => s = t /\ i = j

(* A due minute inside the window that no pass has discovered. *)
Undiscovered(s) ==
    Enabled(s) /\ NewestHostingDatabaseBackupOccurrence(Current(s).freq, clock, cursor[s]) # Never
=============================================================================
