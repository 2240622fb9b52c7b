--------------------------- MODULE StoreAgreement ---------------------------
(***************************************************************************)
(* The two stores behind one interface: the tests and the demonstration    *)
(* server run on MemoryStore, production on PostgresStore.  Both receive   *)
(* the same calls here, in the same order, and are compared: what a caller *)
(* is told, and what the rows say afterwards.                              *)
(*                                                                         *)
(* The same methods in MemoryStore, which keeps slices under one mutex and *)
(* loops over them where the PostgreSQL store queries, on rows of the same *)
(* shape.                                                                  *)
(*                                                                         *)
(* The rows of the run queue and the PostgreSQL store's operations on      *)
(* them: task runs, run leases, the claim cursors of the runners, the run  *)
(* log and the audit rows of secret accesses.  Every operator named after  *)
(* a query is that query; every operator named after a method of           *)
(* PostgresStore is its transaction and yields the rows it leaves and the  *)
(* answer it gives.                                                        *)
(*                                                                         *)
(* Run ids are numbers, so that they have the order the queries sort by.   *)
(* claim_order_at is a number too: a row that is stamped with the clock    *)
(* gets a number above all others.  A lease is named by its place in the   *)
(* sequence of leases, which stands for its id and its fence; "late" says  *)
(* that its expires_at has passed, "fresh" that a heartbeat is younger     *)
(* than two lease lifetimes.                                               *)
(***************************************************************************)
EXTENDS Integers, Sequences, FiniteSets, SequencesExt

CONSTANTS
    Runners,        \* runner ids
    Runs,           \* run ids, numbers
    RunnerTags,     \* [Runners -> set of tags]
    Capabilities,   \* [Runners -> set of run types]
    RunTags,        \* [Runs -> set of tags]
    RunType,        \* [Runs -> run type]
    Secrets,        \* [Runs -> set of secret bindings]
    Deploys,        \* the runs that belong to a deployment
    Builds,         \* the runs that are hosting builds
    BatchSize,      \* claimCandidateBatchSize
    MaxBatches,     \* claimCandidateMaxBatches
    ExpiryBatch     \* leaseExpiryBatchSize

NoRun == 0
NoLease == 0
Head0 == [order |-> 0, run |-> NoRun]
Terminal == {"succeeded", "failed", "canceled"}
RunStatuses == {"absent", "waiting_approval", "queued", "running"} \cup Terminal
LeaseStatuses == {"active", "expired"} \cup Terminal

EmptyRows ==
    [runs   |-> [r \in Runs |-> [status |-> "absent", runner |-> "none", order |-> 0,
                                 next |-> 1, dep |-> "none", appr |-> "none",
                                 gate |-> TRUE]],
     leases |-> <<>>,
     cursor |-> [w \in Runners |-> Head0],
     status |-> [w \in Runners |-> "active"],
     fresh  |-> [w \in Runners |-> TRUE],
     access |-> {},
     logs   |-> [r \in Runs |-> <<>>]]

Answer(d, code, run, lease) == [rows |-> d, code |-> code, run |-> run, lease |-> lease]
Ok(d, run, lease) == Answer(d, "ok", run, lease)
Refused(d, code) == Answer(d, code, NoRun, NoLease)

(* F of the value of x.                                                     *)
With(x, F(_)) == CHOOSE y \in {F(v) : v \in {x}} : TRUE

Leases(d) == DOMAIN d.leases
Queued(d) == {r \in Runs : d.runs[r].status = "queued"}
Clock(d) == 1 + CHOOSE t \in {d.runs[r].order : r \in Runs} :
                    \A r \in Runs : d.runs[r].order <= t
LeasesOf(d, r) == {n \in Leases(d) : d.leases[n].run = r}
MapLeases(d, S, f(_)) ==
    [d EXCEPT !.leases = [n \in Leases(d) |-> IF n \in S THEN f(@[n]) ELSE @[n]]]

----------------------------------------------------------------------------
(* Matching a runner with a run.                                            *)

covers(values, required) == required \subseteq values

Fits(w, r) == covers(RunnerTags[w], RunTags[r]) /\ RunType[r] \in Capabilities[w]

----------------------------------------------------------------------------
(* scheduler.sql                                                            *)

MarkStaleRunnerForClaim(d, w) == d.status[w] = "active" /\ ~ d.fresh[w]

GetActiveRunnerForClaim(d, w) == d.status[w] = "active" /\ d.fresh[w]

LockRunnerClaimCursor(d, w) == d.cursor[w]

Before(d, q, r) ==
    \/ d.runs[q].order < d.runs[r].order
    \/ d.runs[q].order = d.runs[r].order /\ q < r

(* ORDER BY claim_order_at, id, LIMIT n.                                    *)
FirstOf(d, S, n) ==
    LET all == SetToSortSeq(S, LAMBDA q, r : Before(d, q, r))
    IN  SubSeq(all, 1, IF Len(all) < n THEN Len(all) ELSE n)

ListQueuedClaimCandidatesFromHead(d, locked) == FirstOf(d, Queued(d) \ locked, BatchSize)

ListQueuedClaimCandidatesAfterCursor(d, c, locked) ==
    FirstOf(d, {r \in Queued(d) \ locked :
                   \/ d.runs[r].order > c.order
                   \/ d.runs[r].order = c.order /\ r > c.run}, BatchSize)

StoreRunnerClaimCursor(d, w, c) == [d EXCEPT !.cursor[w] = c]

ClaimQueuedRun(d, r, w) ==
    [d EXCEPT !.runs[r] = [@ EXCEPT !.status = "running", !.runner = w, !.next = @ + 1]]

CreateActiveRunLease(d, r, w, attempt) ==
    [d EXCEPT !.leases = Append(@, [run |-> r, runner |-> w, status |-> "active", late |-> FALSE,
                                    attempt |-> attempt, key |-> "none", att |-> "none"])]

(* The runs of one sweep: running, with an active lease past its deadline,  *)
(* in the order of their ids, rows locked by another transaction skipped.   *)
ListExpiredRunningRunIDs(d, locked) ==
    LET due == {r \in Runs \ locked :
                   /\ d.runs[r].status = "running"
                   /\ \E n \in LeasesOf(d, r) : d.leases[n].status = "active" /\ d.leases[n].late}
        all == SetToSortSeq(due, LAMBDA q, r : q < r)
    IN  SubSeq(all, 1, IF Len(all) < ExpiryBatch THEN Len(all) ELSE ExpiryBatch)

ExpireActiveLeasesForRun(d, r) ==
    MapLeases(d, {n \in LeasesOf(d, r) : d.leases[n].status = "active" /\ d.leases[n].late},
              LAMBDA l : [l EXCEPT !.status = "expired"])

ExpireDeploymentAttemptsForRun(d, r) ==
    MapLeases(d, {n \in LeasesOf(d, r) : d.leases[n].status = "expired" /\ d.leases[n].att = "active"},
              LAMBDA l : [l EXCEPT !.att = "failed"])

(* A build run ends, any other run goes back to the tail of the queue.      *)
RequeueExpiredRun(d, r) ==
    IF d.runs[r].status # "running" THEN d
    ELSE [d EXCEPT !.runs[r] = [@ EXCEPT !.status = IF r \in Builds THEN "failed" ELSE "queued",
                                         !.runner = "none", !.order = Clock(d)]]

QueueApprovedRun(d, r) ==
    [d EXCEPT !.runs[r] = [@ EXCEPT !.status = "queued", !.order = Clock(d)]]

InvalidateActiveLeasesForRestoreRun(d, r) ==
    MapLeases(d, {n \in LeasesOf(d, r) : d.leases[n].status = "active"},
              LAMBDA l : [l EXCEPT !.status = "expired"])

----------------------------------------------------------------------------
(* leases.sql: every authority of a runner is one row that still matches.   *)

(* Mutant: the status of the lease is not compared. *)
MutAnyStatus(d, n, w, attempt) ==
    n \in Leases(d) /\ d.leases[n].runner = w /\ d.leases[n].attempt = attempt /\ ~ d.leases[n].late

Authorized(d, n, w, attempt) ==
    /\ n \in Leases(d)
    /\ d.leases[n].runner = w /\ d.leases[n].attempt = attempt
    /\ d.leases[n].status = "active" /\ ~ d.leases[n].late

LockAuthorizedLease(d, n, r, w, attempt) ==
    Authorized(d, n, w, attempt) /\ d.leases[n].run = r

GetLeaseReplayIdentity(d, n, r, w, attempt) ==
    n \in Leases(d) /\ d.leases[n].run = r /\ d.leases[n].runner = w /\ d.leases[n].attempt = attempt

CompleteAuthorizedLease(d, n, status, key) ==
    [d EXCEPT !.leases[n] = [@ EXCEPT !.status = status, !.key = key]]

GetCommittedCompletion(d, n, w, attempt, status, key) ==
    /\ d.leases[n].runner = w /\ d.leases[n].attempt = attempt
    /\ d.leases[n].key = key /\ d.leases[n].status = status

CancelActiveLeasesForRun(d, r) ==
    MapLeases(d, {n \in LeasesOf(d, r) : d.leases[n].status = "active"},
              LAMBDA l : [l EXCEPT !.status = "canceled"])

CancelRun(d, r) == [d EXCEPT !.runs[r] = [@ EXCEPT !.status = "canceled", !.runner = "none"]]

(* A run that is queued again is stamped with the clock.                    *)
UpdateRunStatus(d, r, status) ==
    [d EXCEPT !.runs[r] = [@ EXCEPT !.status = status,
                                    !.order = IF status = "queued" THEN Clock(d) ELSE @]]

IsDeploymentRun(d, r) == r \in Deploys

(* Hosting work and deployments have transitions of their own: the generic  *)
(* requests refuse them.                                                    *)
rejectGenericHostingRun(d, r) == r \in Builds \/ IsDeploymentRun(d, r)

ResolveApproval(d, r, status) == [d EXCEPT !.runs[r].appr = status]

----------------------------------------------------------------------------
(* logs.sql and audit.sql                                                   *)

Sequences(d, r) == {d.logs[r][i].seq : i \in DOMAIN d.logs[r]}

(* Mutant: the first free sequence from the wanted one on. *)
MutFirstFree(d, r, key, lease, want) ==
    LET seq == CHOOSE q \in want..(want + Len(d.logs[r])) :
                   q \notin Sequences(d, r) /\ \A p \in want..(q - 1) : p \in Sequences(d, r)
    IN  [d EXCEPT !.logs[r] = Append(@, [seq |-> seq, key |-> key, lease |-> lease, want |-> want])]

(* MAX(sequence) + 1 when a sequence at or above the wanted one exists,     *)
(* else the wanted one.                                                     *)
InsertRunLogWithSequence(d, r, key, lease, want) ==
    LET above == {q \in Sequences(d, r) : q >= want}
        seq == IF above = {} THEN want ELSE 1 + CHOOSE q \in above : \A p \in above : p <= q
    IN  [d EXCEPT !.logs[r] = Append(@, [seq |-> seq, key |-> key, lease |-> lease, want |-> want])]

GetRunnerEventByKey(d, r, key) == {i \in DOMAIN d.logs[r] : d.logs[r][i].key = key}

GetAuditEventByID(d, id) == {a \in d.access : a.id = id}

CreateSecretAccessAudit(d, a) == [d EXCEPT !.access = @ \cup {a}]

----------------------------------------------------------------------------
(* postgres_runs.go and postgres_approvals.go                               *)

(* A run is stored with its approval, if it needs one, and a first log.     *)
CreateRunRequest(d, r, approval) ==
    LET row == [d.runs[r] EXCEPT !.status = IF approval THEN "waiting_approval" ELSE "queued",
                                 !.appr = IF approval THEN "pending" ELSE "none",
                                 !.dep = IF r \in Deploys THEN "queued" ELSE "none",
                                 !.order = Clock(d)]
    IN  Ok(InsertRunLogWithSequence([d EXCEPT !.runs[r] = row], r, "none", NoLease, 1), r, NoLease)

ApproveRun(d, r) ==
    IF rejectGenericHostingRun(d, r) THEN Refused(d, "conflict")
    ELSE IF d.runs[r].appr # "pending" \/ d.runs[r].status # "waiting_approval"
         THEN Refused(d, "not_found")
    ELSE Ok(QueueApprovedRun(ResolveApproval(d, r, "approved"), r), r, NoLease)

RejectRun(d, r) ==
    IF rejectGenericHostingRun(d, r) THEN Refused(d, "conflict")
    ELSE IF d.runs[r].appr # "pending" THEN Refused(d, "not_found")
    ELSE Ok(UpdateRunStatus(ResolveApproval(d, r, "rejected"), r, "canceled"), r, NoLease)

CancelRunRequest(d, r) ==
    IF d.runs[r].status = "absent" THEN Refused(d, "not_found")
    ELSE IF rejectGenericHostingRun(d, r) THEN Refused(d, "conflict")
    ELSE IF d.runs[r].status \in Terminal THEN Refused(d, "not_found")
    ELSE Ok(InsertRunLogWithSequence(CancelRun(CancelActiveLeasesForRun(d, r), r),
                                     r, "none", NoLease, 1), r, NoLease)

(* Mutant: an event is stored without the lookup of its key. *)
MutStoreAgain(d, r, n, w, attempt, key, want) ==
    IF ~ LockAuthorizedLease(d, n, r, w, attempt) THEN Refused(d, "not_found")
    ELSE Ok(InsertRunLogWithSequence(d, r, key, n, want), r, n)

(* An event of a lease is stored once: a replay needs the identity of the   *)
(* attempt and the same content, a new event the live lease.                *)
CreateRunLogsForLease(d, r, n, w, attempt, key, want) ==
    LET old == GetRunnerEventByKey(d, r, key)
    IN  IF r \in Builds THEN Refused(d, "conflict")
        ELSE IF ~ GetLeaseReplayIdentity(d, n, r, w, attempt) THEN Refused(d, "not_found")
        ELSE IF old # {}
             THEN IF \A i \in old : d.logs[r][i].lease = n /\ d.logs[r][i].want = want
                  THEN Ok(d, r, n) ELSE Refused(d, "conflict")
        ELSE IF ~ LockAuthorizedLease(d, n, r, w, attempt) THEN Refused(d, "not_found")
        ELSE Ok(InsertRunLogWithSequence(d, r, key, n, want), r, n)

----------------------------------------------------------------------------
(* postgres_runners.go                                                      *)

(* Mutant: the deployment attempt of an expired lease is left active. *)
MutAttemptStays(d, r) == RequeueExpiredRun(d, r)

settleExpiredRun(d, r) == RequeueExpiredRun(ExpireDeploymentAttemptsForRun(d, r), r)

expireLeasesAtDBClock(d, locked) ==
    FoldLeft(LAMBDA acc, r : settleExpiredRun(ExpireActiveLeasesForRun(acc, r), r),
             d, ListExpiredRunningRunIDs(d, locked))

(* Offline after a restore: every active lease ends, late or not.           *)
InvalidateRunnerLeasesForRestoreTx(d) ==
    LET held == {r \in Runs : \E n \in LeasesOf(d, r) : d.leases[n].status = "active"}
    IN  FoldLeft(LAMBDA acc, r : settleExpiredRun(InvalidateActiveLeasesForRestoreRun(acc, r), r),
                 d, SetToSortSeq(held, LAMBDA q, r : q < r))

(* The candidates of one batch up to the first one the runner may take.     *)
Examine(d, w, batch) ==
    LET takes == {i \in DOMAIN batch : d.runs[batch[i]].gate /\ Fits(w, batch[i])}
        stop == IF takes = {} THEN Len(batch) ELSE CHOOSE i \in takes : \A j \in takes : i <= j
    IN  [run |-> IF takes = {} THEN NoRun ELSE batch[stop], last |-> stop]

(* The batches of one claim, from the cursor on.                            *)
RECURSIVE Scan(_, _, _, _, _)
Scan(d, w, c, batches, locked) ==
    With(IF c = Head0 THEN ListQueuedClaimCandidatesFromHead(d, locked)
         ELSE ListQueuedClaimCandidatesAfterCursor(d, c, locked),
    LAMBDA batch : With(Examine(d, w, batch),
    LAMBDA e :
        LET end == Len(batch) < BatchSize
            moved == IF e.last = 0 THEN c
                     ELSE [order |-> d.runs[batch[e.last]].order, run |-> batch[e.last]]
        IN  IF e.run # NoRun \/ end \/ batches = 1 THEN [run |-> e.run, cursor |-> moved, end |-> end]
            ELSE Scan(d, w, moved, batches - 1, locked)))

(* Mutant: a claim that found nothing starts over. *)
MutStartsOver(d, w, s) ==
    StoreRunnerClaimCursor(d, w, IF s.run = NoRun THEN Head0 ELSE s.cursor)

(* The cursor a claim leaves: at the run it took, else at the last row it   *)
(* examined, and at the head again once the tail of the queue was reached.  *)
MoveCursor(d, w, s) ==
    StoreRunnerClaimCursor(d, w, IF s.run = NoRun /\ s.end THEN Head0 ELSE s.cursor)

(* Mutant: every lease gets a deployment attempt. *)
MutAttemptForAll(d, r, n) == [d EXCEPT !.leases[n].att = "active"]

CreateDeploymentAttemptForLease(d, r, n) ==
    IF r \notin Deploys THEN d
    ELSE [d EXCEPT !.leases[n].att = "active",
                   !.runs[r].dep = IF @ = "queued" THEN "assigned" ELSE @]

(* One claim: a runner whose heartbeat is too old is marked and sent away;  *)
(* overdue leases are settled; the queue is scanned from the cursor on; the *)
(* run that was found is leased under its next attempt.                     *)
ClaimRun(d, w, locked) ==
    IF MarkStaleRunnerForClaim(d, w)
    THEN Refused([d EXCEPT !.status[w] = "stale"], "not_found")
    ELSE IF ~ GetActiveRunnerForClaim(d, w) THEN Refused(d, "not_found")
    ELSE With(expireLeasesAtDBClock(d, locked),
         LAMBDA e : With(Scan(e, w, LockRunnerClaimCursor(e, w), MaxBatches, locked),
         LAMBDA s : With(MoveCursor(e, w, s),
         LAMBDA c : IF s.run = NoRun THEN Refused(c, "not_found")
                    ELSE Ok(CreateDeploymentAttemptForLease(
                                CreateActiveRunLease(ClaimQueuedRun(c, s.run, w), s.run, w,
                                                     c.runs[s.run].next),
                                s.run, 1 + Len(c.leases)), s.run, 1 + Len(c.leases)))))

RenewLease(d, n, w, attempt) ==
    IF Authorized(d, n, w, attempt) THEN Ok(d, d.leases[n].run, n) ELSE Refused(d, "not_found")

(* The lease and its run settle in one transaction; the completion key      *)
(* makes a repetition an answer and a second, different completion a        *)
(* conflict.  runStatus is "queued" when a workflow has a further step.     *)
CompleteLeaseRequest(d, n, w, attempt, status, key, runStatus) ==
    IF n \notin Leases(d) THEN Refused(d, "not_found")
    ELSE IF rejectGenericHostingRun(d, d.leases[n].run) THEN Refused(d, "conflict")
    ELSE IF GetCommittedCompletion(d, n, w, attempt, status, key) THEN Ok(d, d.leases[n].run, n)
    ELSE IF ~ Authorized(d, n, w, attempt)
         THEN Refused(d, IF /\ d.leases[n].runner = w /\ d.leases[n].attempt = attempt
                            /\ d.leases[n].key # "none" THEN "conflict" ELSE "not_found")
    ELSE Ok(InsertRunLogWithSequence(
                UpdateRunStatus(CompleteAuthorizedLease(d, n, status, key), d.leases[n].run, runStatus),
                d.leases[n].run, "none", NoLease, 1), d.leases[n].run, n)

runAuthorizesSecretAccess(r, binding) == binding \in Secrets[r]

(* Mutant: the audit row of an earlier access answers before the lease is   *)
(* looked at. *)
MutAuditFirst(d, n, r, w, attempt, id, binding) ==
    LET a == [id |-> id, run |-> r, lease |-> n, runner |-> w, binding |-> binding]
    IN  IF GetAuditEventByID(d, id) = {a} THEN Ok(d, r, n)
        ELSE IF ~ LockAuthorizedLease(d, n, r, w, attempt) THEN Refused(d, "not_found")
        ELSE IF GetAuditEventByID(d, id) # {} THEN Refused(d, "conflict")
        ELSE Ok(CreateSecretAccessAudit(d, a), r, n)

(* A secret is granted to the live lease only; the access id makes a        *)
(* repetition an answer and a different request under it a conflict.        *)
AuthorizeSecretAccess(d, n, r, w, attempt, id, binding) ==
    LET a == [id |-> id, run |-> r, lease |-> n, runner |-> w, binding |-> binding]
        old == GetAuditEventByID(d, id)
    IN  IF ~ LockAuthorizedLease(d, n, r, w, attempt) THEN Refused(d, "not_found")
        ELSE IF old \notin {{}, {a}} THEN Refused(d, "conflict")
        ELSE IF ~ runAuthorizesSecretAccess(r, binding) THEN Refused(d, "not_found")
        ELSE Ok(CreateSecretAccessAudit(d, a), r, n)

----------------------------------------------------------------------------
(* The clock and the runners' heartbeats.                                   *)

Deadline(d, n) == [d EXCEPT !.leases[n].late = TRUE]

HeartbeatRunner(d, w) == [d EXCEPT !.status[w] = "active", !.fresh[w] = TRUE]

-----------------------------------------------------------------------------
Limit == BatchSize * MaxBatches

hostingRunLocked(r) == r \in Builds \cup Deploys

(* Mutant: the deployment attempt of an expired lease is left alone. *)
MutAttemptLeft(d) ==
    FoldLeft(LAMBDA acc, n :
                 LET l == acc.leases[n]
                 IN  IF l.status # "active" \/ ~ l.late \/ acc.runs[l.run].status # "running" THEN acc
                     ELSE [acc EXCEPT
                              !.leases[n].status = "expired",
                              !.runs[l.run] = [@ EXCEPT !.status = IF l.run \in Builds THEN "failed" ELSE "queued",
                                                        !.runner = "none", !.order = Clock(d)]],
             d, [n \in Leases(d) |-> n])

(* memory_runners.go: every overdue lease of a running run, in the order of *)
(* the leases and all with one stamp; the attempt of a lease fails with it. *)
expireLeasesLocked(d) ==
    FoldLeft(LAMBDA acc, n :
                 LET l == acc.leases[n]
                 IN  IF l.status # "active" \/ ~ l.late \/ acc.runs[l.run].status # "running" THEN acc
                     ELSE [acc EXCEPT
                              !.leases[n] = [@ EXCEPT !.status = "expired",
                                                      !.att = IF @ = "active" THEN "failed" ELSE @],
                              !.runs[l.run] = [@ EXCEPT !.status = IF l.run \in Builds THEN "failed" ELSE "queued",
                                                        !.runner = "none", !.order = Clock(d)]],
             d, [n \in Leases(d) |-> n])

(* All queued runs past the cursor, sorted; at most Limit are examined.     *)
Candidates(d, w) ==
    SetToSortSeq({r \in Queued(d) :
                     \/ d.cursor[w] = Head0
                     \/ d.runs[r].order > d.cursor[w].order
                     \/ d.runs[r].order = d.cursor[w].order /\ r > d.cursor[w].run},
                 LAMBDA q, r : Before(d, q, r))

(* Mutant: a page is taken for full when it is larger than the limit. *)
MutFullPage(d, w, all, taken) ==
    IF taken # NoRun THEN [d EXCEPT !.cursor[w] = [order |-> d.runs[taken].order, run |-> taken]]
    ELSE IF Len(all) > Limit
         THEN [d EXCEPT !.cursor[w] = [order |-> d.runs[all[Limit]].order, run |-> all[Limit]]]
    ELSE [d EXCEPT !.cursor[w] = Head0]

(* The cursor of a claim: at the run it took, at the last key of a full     *)
(* page, and gone after a page that was not full.                           *)
MemoryCursor(d, w, all, taken) ==
    IF taken # NoRun THEN [d EXCEPT !.cursor[w] = [order |-> d.runs[taken].order, run |-> taken]]
    ELSE IF Len(all) >= Limit
         THEN [d EXCEPT !.cursor[w] = [order |-> d.runs[all[Limit]].order, run |-> all[Limit]]]
    ELSE [d EXCEPT !.cursor[w] = Head0]

(* Mutant: the run is marked without its lease. *)
MutNoLease(d, r, w) ==
    [d EXCEPT !.runs[r] = [@ EXCEPT !.status = "running", !.runner = w, !.next = @ + 1]]

(* The lease, its deployment attempt and the deployment's assignment.       *)
MemoryLease(d, r, w) ==
    [d EXCEPT !.runs[r] = [@ EXCEPT !.status = "running", !.runner = w, !.next = @ + 1,
                                    !.dep = IF r \in Deploys /\ @ = "queued" THEN "assigned" ELSE @],
              !.leases = Append(@, [run |-> r, runner |-> w, status |-> "active", late |-> FALSE,
                                    attempt |-> d.runs[r].next, key |-> "none",
                                    att |-> IF r \in Deploys THEN "active" ELSE "none"])]

(* ClaimRun: leases are expired before the runner is looked at.             *)
MemoryClaimRun(d, w) ==
    With(expireLeasesLocked(d), LAMBDA e :
    With(IF e.status[w] = "active" /\ ~ e.fresh[w] THEN [e EXCEPT !.status[w] = "stale"] ELSE e,
    LAMBDA m :
        IF m.status[w] # "active" THEN Refused(m, "not_found")
        ELSE With(Candidates(m, w), LAMBDA all :
             LET fit == {i \in DOMAIN all : i <= Limit /\ m.runs[all[i]].gate /\ Fits(w, all[i])}
                 taken == IF fit = {} THEN NoRun ELSE all[CHOOSE i \in fit : \A j \in fit : i <= j]
                 c == MemoryCursor(m, w, all, taken)
             IN  IF taken = NoRun THEN Refused(c, "not_found")
                 ELSE Ok(MemoryLease(c, taken, w), taken, 1 + Len(c.leases)))))

MemoryRenewLease(d, n, w, attempt) ==
    IF \E m \in Leases(d) : /\ m = n /\ d.leases[m].runner = w /\ d.leases[m].attempt = attempt
                            /\ d.leases[m].status = "active" /\ ~ d.leases[m].late
    THEN Ok(d, d.leases[n].run, n) ELSE Refused(d, "not_found")

(* createRunLogLocked: the first free sequence from the wanted one on.      *)
createRunLogLocked(d, r, key, lease, want) ==
    LET seq == CHOOSE q \in want..(want + Len(d.logs[r])) :
                   q \notin Sequences(d, r) /\ \A p \in want..(q - 1) : p \in Sequences(d, r)
    IN  [d EXCEPT !.logs[r] = Append(@, [seq |-> seq, key |-> key, lease |-> lease, want |-> want])]

(* A stored completion key is looked at first: the same key and status are  *)
(* the answer, anything else a conflict.                                    *)
MemoryCompleteLeaseRequest(d, n, w, attempt, status, key, runStatus) ==
    IF n \notin Leases(d) \/ d.leases[n].runner # w \/ d.leases[n].attempt # attempt
    THEN Refused(d, "not_found")
    ELSE LET l == d.leases[n]
         IN  IF hostingRunLocked(l.run) THEN Refused(d, "conflict")
             ELSE IF l.key # "none"
                  THEN IF l.key = key /\ l.status = status THEN Ok(d, l.run, n) ELSE Refused(d, "conflict")
             ELSE IF l.status # "active" \/ l.late THEN Refused(d, "not_found")
             ELSE Ok(createRunLogLocked(
                         [d EXCEPT !.leases[n] = [@ EXCEPT !.status = status, !.key = key],
                                   !.runs[l.run] = [@ EXCEPT !.status = runStatus,
                                       !.order = IF runStatus = "queued" THEN Clock(d) ELSE @]],
                         l.run, "none", NoLease, 1), l.run, n)

MemoryCancelRunRequest(d, r) ==
    IF hostingRunLocked(r) /\ d.runs[r].status # "absent" THEN Refused(d, "conflict")
    ELSE IF d.runs[r].status \in Terminal \cup {"absent"} THEN Refused(d, "not_found")
    ELSE Ok(createRunLogLocked(
                [d EXCEPT !.leases = [n \in DOMAIN @ |->
                              IF @[n].run = r /\ @[n].status = "active"
                              THEN [@[n] EXCEPT !.status = "canceled"] ELSE @[n]],
                          !.runs[r] = [@ EXCEPT !.status = "canceled", !.runner = "none"]],
                r, "none", NoLease, 1), r, NoLease)

MemoryCreateRunRequest(d, r, approval) ==
    LET row == [d.runs[r] EXCEPT !.status = IF approval THEN "waiting_approval" ELSE "queued",
                                 !.appr = IF approval THEN "pending" ELSE "none",
                                 !.dep = IF r \in Deploys THEN "queued" ELSE "none",
                                 !.order = Clock(d)]
    IN  Ok([d EXCEPT !.runs[r] = row,
                     !.logs[r] = Append(@, [seq |-> 1, key |-> "none", lease |-> NoLease, want |-> 1])],
           r, NoLease)

(* memory_approvals.go                                                      *)
MemoryApproveRun(d, r) ==
    IF hostingRunLocked(r) THEN Refused(d, "conflict")
    ELSE IF d.runs[r].appr # "pending" THEN Refused(d, "not_found")
    ELSE IF d.runs[r].status # "waiting_approval" THEN Refused(d, "not_found")
    ELSE Ok([d EXCEPT !.runs[r] = [@ EXCEPT !.appr = "approved", !.status = "queued",
                                            !.order = Clock(d)]], r, NoLease)

MemoryRejectRun(d, r) ==
    IF hostingRunLocked(r) THEN Refused(d, "conflict")
    ELSE IF d.runs[r].appr # "pending" THEN Refused(d, "not_found")
    ELSE Ok([d EXCEPT !.runs[r] = [@ EXCEPT !.appr = "rejected", !.status = "canceled"]], r, NoLease)

(* Mutant: the live lease is asked for before the replay is looked up. *)
MutLiveFirst(d, r, n, w, attempt, key, want) ==
    IF d.leases[n].status # "active" \/ d.leases[n].late THEN Refused(d, "not_found")
    ELSE LET old == {i \in DOMAIN d.logs[r] : d.logs[r][i].key = key}
         IN  IF \E i \in old : d.logs[r][i].lease # n \/ d.logs[r][i].want # want
             THEN Refused(d, "conflict")
             ELSE IF old # {} THEN Ok(d, r, n)
             ELSE Ok(createRunLogLocked(d, r, key, n, want), r, n)

(* memory_runs.go                                                           *)
MemoryCreateRunLogsForLease(d, r, n, w, attempt, key, want) ==
    IF r \in Builds THEN Refused(d, "conflict")
    ELSE IF ~ \E m \in Leases(d) : /\ m = n /\ d.leases[m].run = r /\ d.leases[m].runner = w
                              /\ d.leases[m].attempt = attempt
    THEN Refused(d, "not_found")
    ELSE LET old == {i \in DOMAIN d.logs[r] : d.logs[r][i].key = key}
         IN  IF \E i \in old : d.logs[r][i].lease # n \/ d.logs[r][i].want # want
             THEN Refused(d, "conflict")
             ELSE IF old # {} THEN Ok(d, r, n)
             ELSE IF d.leases[n].status # "active" \/ d.leases[n].late THEN Refused(d, "not_found")
             ELSE Ok(createRunLogLocked(d, r, key, n, want), r, n)

(* Mutant: another access under the same id is stored beside it. *)
MutSecondAccess(d, n, r, w, attempt, id, binding) ==
    IF d.leases[n].status # "active" \/ d.leases[n].late THEN Refused(d, "not_found")
    ELSE IF ~ runAuthorizesSecretAccess(r, binding) THEN Refused(d, "not_found")
    ELSE Ok([d EXCEPT !.access = @ \cup {[id |-> id, run |-> r, lease |-> n, runner |-> w, binding |-> binding]}], r, n)

(* The lease comes first, then the audit row under the access id, then the  *)
(* bindings of the run.                                                     *)
MemoryAuthorizeSecretAccess(d, n, r, w, attempt, id, binding) ==
    LET a == [id |-> id, run |-> r, lease |-> n, runner |-> w, binding |-> binding]
    IN  IF ~ \E m \in Leases(d) : /\ m = n /\ d.leases[m].run = r /\ d.leases[m].runner = w
                                  /\ d.leases[m].attempt = attempt
                                  /\ d.leases[m].status = "active" /\ ~ d.leases[m].late
        THEN Refused(d, "not_found")
        ELSE IF \E b \in d.access : b.id = id /\ b # a THEN Refused(d, "conflict")
        ELSE IF ~ runAuthorizesSecretAccess(r, binding) THEN Refused(d, "not_found")
        ELSE Ok([d EXCEPT !.access = @ \cup {a}], r, n)

-----------------------------------------------------------------------------
CONSTANTS
    Approvals,      \* the runs that wait for an approval
    Acts,           \* "late", "silent", "events", "secrets", "cancel", "reject"
    Keys,           \* event keys and completion keys
    MaxFaults,      \* missed deadlines and silent runners
    MaxSteps,       \* completions that leave a further workflow step
    MaxLogs         \* rows in the log of a run

VARIABLES
    p,              \* the PostgreSQL rows
    m,              \* the memory rows
    told,           \* [pg, mem]: the last answers, as [code, run, lease]
    faults,
    steps

vars == <<p, m, told, faults, steps>>

Said(a) == [code |-> a.code, run |-> a.run, lease |-> a.lease]
Silence == [code |-> "ok", run |-> NoRun, lease |-> NoLease]

Init ==
    /\ p = EmptyRows /\ m = EmptyRows
    /\ told = [pg |-> Silence, mem |-> Silence] /\ faults = 0 /\ steps = 0

Call(pg, mem) ==
    \E a \in {pg}, b \in {mem} :
        p' = a.rows /\ m' = b.rows /\ told' = [pg |-> Said(a), mem |-> Said(b)]

Quietly(pg, mem) ==
    \E a \in {pg}, b \in {mem} :
        p' = a /\ m' = b /\ told' = [pg |-> Silence, mem |-> Silence]

Disturb(kind) == kind \in Acts /\ faults < MaxFaults /\ faults' = faults + 1 /\ UNCHANGED steps

Request(r) ==
    /\ p.runs[r].status = "absent"
    /\ Call(CreateRunRequest(p, r, r \in Approvals), MemoryCreateRunRequest(m, r, r \in Approvals))
    /\ UNCHANGED <<faults, steps>>

Approve(r) ==
    /\ p.runs[r].appr # "none"
    /\ Call(ApproveRun(p, r), MemoryApproveRun(m, r))
    /\ UNCHANGED <<faults, steps>>

Reject(r) ==
    /\ "reject" \in Acts /\ p.runs[r].appr # "none"
    /\ Call(RejectRun(p, r), MemoryRejectRun(m, r))
    /\ UNCHANGED <<faults, steps>>

Cancel(r) ==
    /\ "cancel" \in Acts
    /\ Call(CancelRunRequest(p, r), MemoryCancelRunRequest(m, r))
    /\ UNCHANGED <<faults, steps>>

Claim(w) ==
    /\ Call(ClaimRun(p, w, {}), MemoryClaimRun(m, w))
    /\ UNCHANGED <<faults, steps>>

ExpireLeases ==
    /\ Quietly(expireLeasesAtDBClock(p, {}), expireLeasesLocked(m))
    /\ UNCHANGED <<faults, steps>>

MissDeadline(n) ==
    /\ p.leases[n].status = "active" /\ ~ p.leases[n].late
    /\ Disturb("late")
    /\ Quietly(Deadline(p, n), Deadline(m, n))

FallSilent(w) ==
    /\ p.fresh[w] /\ Disturb("silent")
    /\ Quietly([p EXCEPT !.fresh[w] = FALSE], [m EXCEPT !.fresh[w] = FALSE])

Beat(w) ==
    /\ ~ p.fresh[w]
    /\ Quietly(HeartbeatRunner(p, w), HeartbeatRunner(m, w))
    /\ UNCHANGED <<faults, steps>>

Renew(n) ==
    LET l == p.leases[n]
    IN  /\ Call(RenewLease(p, n, l.runner, l.attempt), MemoryRenewLease(m, n, l.runner, l.attempt))
        /\ UNCHANGED <<faults, steps>>

Finish(n, key, status) ==
    LET l == p.leases[n]
    IN  /\ Call(CompleteLeaseRequest(p, n, l.runner, l.attempt, status, key, status),
                MemoryCompleteLeaseRequest(m, n, l.runner, l.attempt, status, key, status))
        /\ UNCHANGED <<faults, steps>>

FinishStep(n, key) ==
    LET l == p.leases[n]
    IN  /\ steps < MaxSteps /\ steps' = steps + 1 /\ UNCHANGED faults
        /\ Call(CompleteLeaseRequest(p, n, l.runner, l.attempt, "succeeded", key, "queued"),
                MemoryCompleteLeaseRequest(m, n, l.runner, l.attempt, "succeeded", key, "queued"))

SendEvent(n, key, want) ==
    LET l == p.leases[n]
    IN  /\ "events" \in Acts /\ Len(p.logs[l.run]) < MaxLogs
        /\ Call(CreateRunLogsForLease(p, l.run, n, l.runner, l.attempt, key, want),
                MemoryCreateRunLogsForLease(m, l.run, n, l.runner, l.attempt, key, want))
        /\ UNCHANGED <<faults, steps>>

AskSecret(n, id, binding) ==
    LET l == p.leases[n]
    IN  /\ "secrets" \in Acts
        /\ Call(AuthorizeSecretAccess(p, n, l.run, l.runner, l.attempt, id, binding),
                MemoryAuthorizeSecretAccess(m, n, l.run, l.runner, l.attempt, id, binding))
        /\ UNCHANGED <<faults, steps>>

Next ==
    \/ \E r \in Runs : Request(r) \/ Approve(r) \/ Reject(r) \/ Cancel(r)
    \/ \E w \in Runners : Claim(w) \/ FallSilent(w) \/ Beat(w)
    \/ ExpireLeases
    \/ \E n \in Leases(p) : MissDeadline(n) \/ Renew(n)
    \/ \E n \in Leases(p), k \in Keys : FinishStep(n, k)
    \/ \E n \in Leases(p), k \in Keys, s \in {"succeeded", "failed"} : Finish(n, k, s)
    \/ \E n \in Leases(p), k \in Keys, want \in 1..2 : SendEvent(n, k, want)
    \/ \E n \in Leases(p), i \in Keys, b \in {"b1", "b2"} : AskSecret(n, i, b)

Spec == Init /\ [][Next]_vars

----------------------------------------------------------------------------
(* ActiveLeaseForRun of either store.                                       *)
ActiveLeaseForRun(d, r) ==
    {n \in Leases(d) : d.leases[n].run = r /\ d.leases[n].status = "active" /\ ~ d.leases[n].late}

(* The queued runs in the order a claim meets them, from the cursor on.     *)
Ahead(d, w) ==
    SelectSeq(SetToSortSeq(Queued(d), LAMBDA q, r : Before(d, q, r)),
              LAMBDA r : \/ d.runs[r].order > d.cursor[w].order
                         \/ d.runs[r].order = d.cursor[w].order /\ r > d.cursor[w].run)

(* Type invariant: the memory rows are of the shape of the PostgreSQL rows. *)
STypeOK ==
    /\ Len(m.leases) = Len(p.leases)
    /\ \A r \in Runs : m.runs[r].status \in RunStatuses /\ m.runs[r].runner \in Runners \cup {"none"}
    /\ \A n \in Leases(m) : m.leases[n].status \in LeaseStatuses /\ m.leases[n].run \in Runs

(* The two stores give every caller the same answer: the same runs are      *)
(* claimed by the same runners, and completions, cancellations, approvals,  *)
(* events and secret accesses are granted or refused for the same reason.   *)
SameAnswers == told.pg = told.mem

(* ... and keep the same rows: run and lease states, attempts, deployment   *)
(* attempts, approvals, granted accesses, log contents, the queue ahead of  *)
(* every runner's cursor.                                                   *)
SameRows ==
    /\ \A r \in Runs : \A f \in {"status", "runner", "next", "dep", "appr"} : p.runs[r][f] = m.runs[r][f]
    /\ p.leases = m.leases /\ p.access = m.access /\ p.status = m.status
    /\ \A r \in Runs :
          /\ Len(p.logs[r]) = Len(m.logs[r])
          /\ \A i \in DOMAIN p.logs[r] : \A f \in {"key", "lease", "want"} : p.logs[r][i][f] = m.logs[r][i][f]
          /\ ActiveLeaseForRun(p, r) = ActiveLeaseForRun(m, r)
    /\ \A w \in Runners : Ahead(p, w) = Ahead(m, w)

(* A lease that has run out is settled alike in both stores, whoever asks   *)
(* for work next.                                                           *)
SameExpiry == \A n \in Leases(p) : p.leases[n].status = m.leases[n].status
=============================================================================
