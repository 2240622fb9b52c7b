------------------------------ MODULE RunLeases ------------------------------
(***************************************************************************)
(* The control plane's task runs and the leases that authorise runners to  *)
(* execute them: internal/store/postgres_runners.go, postgres_runs.go,     *)
(* postgres_approvals.go and the SQL they call (sql/leases.sql,            *)
(* sql/scheduler.sql, sql/runs.sql, sql/approvals.sql).  Each action is    *)
(* one PostgreSQL transaction: every one of them locks the task run, or    *)
(* tests the row it writes in the WHERE clause of the update, so a         *)
(* transaction is one atomic step.                                         *)
(*                                                                         *)
(* A lease is identified by <<run, attempt>>.  In the code its authority   *)
(* is the tuple run ID, lease ID, runner, attempt and fence; ClaimRun      *)
(* draws the ID and the fence at random for one attempt of one run, so the *)
(* pair names the same lease as the tuple.                                 *)
(*                                                                         *)
(* The database clock appears as left[l], the time to the lease's          *)
(* expires_at; the lease is unexpired while left[l] > 0.  The clocks of    *)
(* two leases advance independently.                                       *)
(***************************************************************************)
EXTENDS Naturals

CONSTANTS Run,          \* task runs
          TypedRun,     \* runs of Compose deployments and of hosting builds
          BuildRun,     \* the typed runs that a hosting build owns
          Runner,       \* enrolled runners
          Eligible,     \* pairs <<runner, run>>: tags and capabilities match
          Key,          \* completion keys
          NoRunner, NoKey,
          TTL,          \* lease duration in clock steps
          MaxAttempt    \* bound on the claims of one run

ASSUME RunAssumption == BuildRun \subseteq TypedRun /\ TypedRun \subseteq Run

ASSUME RunnerAssumption == Eligible \subseteq Runner \X Run /\ NoRunner \notin Runner

ASSUME KeyAssumption == NoKey \notin Key

ASSUME BoundAssumption == TTL \in Nat \ {0} /\ MaxAttempt \in Nat \ {0}

VARIABLES runStatus,      \* task_runs.status, "absent" before the insert
          runRunner,      \* task_runs.runner_id
          nextAttempt,    \* task_runs.next_attempt
          approval,       \* approvals.status, "none" without a row
          leaseStatus,    \* run_leases.status, "none" before the insert
          leaseRunner,    \* run_leases.runner_id
          left,           \* time until run_leases.expires_at
          completionKey,  \* run_leases.completion_key
          dead            \* runners that have stopped for good

runVars == <<runStatus, runRunner, nextAttempt, approval>>

leaseVars == <<leaseStatus, leaseRunner, left, completionKey>>

vars == <<runVars, leaseVars, dead>>

Attempt == 1..MaxAttempt

Lease == Run \X Attempt

TerminalRunStatus == {"succeeded", "failed", "canceled"}

RunStatus == {"absent", "waiting_approval", "queued", "running"} \cup TerminalRunStatus

LeaseStatus == {"none", "active", "expired"} \cup TerminalRunStatus

TypeOK ==
    /\ runStatus \in [Run -> RunStatus]
    /\ runRunner \in [Run -> Runner \cup {NoRunner}]
    /\ nextAttempt \in [Run -> 1..(MaxAttempt + 1)]
    /\ approval \in [Run -> {"none", "pending", "approved", "rejected"}]
    /\ leaseStatus \in [Lease -> LeaseStatus]
    /\ leaseRunner \in [Lease -> Runner \cup {NoRunner}]
    /\ left \in [Lease -> 0..TTL]
    /\ completionKey \in [Lease -> Key \cup {NoKey}]
    /\ dead \subseteq Runner

Init ==
    /\ runStatus = [r \in Run |-> "absent"]
    /\ runRunner = [r \in Run |-> NoRunner]
    /\ nextAttempt = [r \in Run |-> 1]
    /\ approval = [r \in Run |-> "none"]
    /\ leaseStatus = [l \in Lease |-> "none"]
    /\ leaseRunner = [l \in Lease |-> NoRunner]
    /\ left = [l \in Lease |-> 0]
    /\ completionKey = [l \in Lease |-> NoKey]
    /\ dead = {}

-----------------------------------------------------------------------------
(* Mutant: the statement tests the deadline only. *)
AuthorizedByDeadline(l) == leaseStatus[l] # "none" /\ left[l] > 0

(* The WHERE clause shared by every fenced statement: the lease is active  *)
(* and unexpired.  Identity and fence are the lease l itself.              *)
Authorized(l) == leaseStatus[l] = "active" /\ left[l] > 0

(* The leases ListExpiredRunningRunIDs looks for. *)
Lapsed(l) == leaseStatus[l] = "active" /\ left[l] = 0

(* Mutant: the sweep leaves typed runs to their own protocols. *)
DueGenericOnly == {r \in Run \ TypedRun : runStatus[r] = "running" /\ \E a \in Attempt : Lapsed(<<r, a>>)}

Due == {r \in Run : runStatus[r] = "running" /\ \E a \in Attempt : Lapsed(<<r, a>>)}

(* ExpireActiveLeasesForRun, for every run of a sweep. *)
Expire(S) ==
    [l \in Lease |-> IF l[1] \in S /\ Lapsed(l) THEN "expired" ELSE leaseStatus[l]]

(* Mutant: only the build case of the update survives. *)
RequeueBuildsOnly(S) ==
    [r \in Run |-> IF r \in S \cap BuildRun /\ runStatus[r] = "running"
                   THEN "failed" ELSE runStatus[r]]

(* RequeueExpiredRun: a build's run fails, any other is queued again. *)
Requeue(S) ==
    [r \in Run |-> IF r \in S /\ runStatus[r] = "running"
                   THEN IF r \in BuildRun THEN "failed" ELSE "queued"
                   ELSE runStatus[r]]

Unassign(S) ==
    [r \in Run |-> IF r \in S /\ runStatus[r] = "running" THEN NoRunner ELSE runRunner[r]]

-----------------------------------------------------------------------------
(* Mutant: the approval is recorded but the run is queued at once. *)
CreateRunRequestQueued(r, requiresAck) ==
    /\ r \notin TypedRun
    /\ runStatus[r] = "absent"
    /\ runStatus' = [runStatus EXCEPT ![r] = "queued"]
    /\ approval' = [approval EXCEPT ![r] = IF requiresAck THEN "pending" ELSE "none"]
    /\ UNCHANGED <<runRunner, nextAttempt, leaseVars, dead>>

(* RequestRun: a generic run, held for approval when its template asks. *)
CreateRunRequest(r, requiresAck) ==
    /\ r \notin TypedRun
    /\ runStatus[r] = "absent"
    /\ runStatus' = [runStatus EXCEPT ![r] = IF requiresAck THEN "waiting_approval" ELSE "queued"]
    /\ approval' = [approval EXCEPT ![r] = IF requiresAck THEN "pending" ELSE "none"]
    /\ UNCHANGED <<runRunner, nextAttempt, leaseVars, dead>>

(* The run a deployment or a build inserts for itself; a deployment that   *)
(* asks for confirmation holds its run back.                               *)
CreateTypedRun(r, status) ==
    /\ r \in TypedRun
    /\ status = "queued" \/ r \notin BuildRun
    /\ runStatus[r] = "absent"
    /\ runStatus' = [runStatus EXCEPT ![r] = status]
    /\ UNCHANGED <<runRunner, nextAttempt, approval, leaseVars, dead>>

(* QueueConfirmedDeploymentRun. *)
ConfirmTypedRun(r) ==
    /\ r \in TypedRun
    /\ runStatus[r] = "waiting_approval"
    /\ runStatus' = [runStatus EXCEPT ![r] = "queued"]
    /\ UNCHANGED <<runRunner, nextAttempt, approval, leaseVars, dead>>

(* FailPreAssignmentDeploymentRun, and CancelQueuedHostingBuildTask for a  *)
(* build that no lease was ever granted for.                               *)
CloseUnclaimedRun(r, status) ==
    /\ r \in TypedRun
    /\ IF r \in BuildRun
       THEN runStatus[r] = "queued" /\ nextAttempt[r] = 1 /\ status = "canceled"
       ELSE runStatus[r] \in {"queued", "waiting_approval"} /\ status = "failed"
    /\ runStatus' = [runStatus EXCEPT ![r] = status]
    /\ runRunner' = [runRunner EXCEPT ![r] = NoRunner]
    /\ UNCHANGED <<nextAttempt, approval, leaseVars, dead>>

(* ApproveRun: both updates carry their precondition. *)
ApproveRun(r) ==
    /\ r \notin TypedRun
    /\ approval[r] = "pending"
    /\ runStatus[r] = "waiting_approval"
    /\ approval' = [approval EXCEPT ![r] = "approved"]
    /\ runStatus' = [runStatus EXCEPT ![r] = "queued"]
    /\ UNCHANGED <<runRunner, nextAttempt, leaseVars, dead>>

(* RejectRun tests the approval only; the run's status is overwritten. *)
RejectRun(r) ==
    /\ r \notin TypedRun
    /\ approval[r] = "pending"
    /\ approval' = [approval EXCEPT ![r] = "rejected"]
    /\ runStatus' = [runStatus EXCEPT ![r] = "canceled"]
    /\ UNCHANGED <<runRunner, nextAttempt, leaseVars, dead>>

(* ExpireLeases, the periodic sweep.  S is what one batch caught: rows     *)
(* locked by others are skipped and the batch has a limit.                 *)
ExpireLeases(S) ==
    /\ S # {}
    /\ S \subseteq Due
    /\ leaseStatus' = Expire(S)
    /\ runStatus' = Requeue(S)
    /\ runRunner' = Unassign(S)
    /\ UNCHANGED <<nextAttempt, approval, leaseRunner, left, completionKey, dead>>

(* ClaimRun when the scan finds r: the sweep, the queued-to-running CAS    *)
(* and the new lease commit together.  A run that this very sweep requeued *)
(* can be the one claimed.                                                 *)
ClaimRun(n, S, r) ==
    LET l == <<r, nextAttempt[r]>>
    IN  /\ n \notin dead
        /\ S \subseteq Due
        /\ <<n, r>> \in Eligible
        /\ Requeue(S)[r] = "queued"
        /\ nextAttempt[r] <= MaxAttempt
        /\ runStatus' = [Requeue(S) EXCEPT ![r] = "running"]
        /\ runRunner' = [Unassign(S) EXCEPT ![r] = n]
        /\ nextAttempt' = [nextAttempt EXCEPT ![r] = @ + 1]
        /\ leaseStatus' = [Expire(S) EXCEPT ![l] = "active"]
        /\ leaseRunner' = [leaseRunner EXCEPT ![l] = n]
        /\ left' = [left EXCEPT ![l] = TTL]
        /\ UNCHANGED <<approval, completionKey, dead>>

(* Mutant: the new deadline is counted from the old one. *)
RenewLeaseFromDeadline(l) ==
    /\ Authorized(l)
    /\ leaseRunner[l] \notin dead
    /\ left' = [left EXCEPT ![l] = @ + TTL]
    /\ UNCHANGED <<runVars, leaseStatus, leaseRunner, completionKey, dead>>

(* RenewLease touches the lease row only. *)
RenewLease(l) ==
    /\ Authorized(l)
    /\ leaseRunner[l] \notin dead
    /\ left' = [left EXCEPT ![l] = TTL]
    /\ UNCHANGED <<runVars, leaseStatus, leaseRunner, completionKey, dead>>

(* CompleteLeaseRequest.  The run's own status is not tested: the lease is *)
(* the only guard.  A repeat with the recorded key and status returns the  *)
(* stored lease and changes nothing.                                       *)
CompleteLeaseRequest(l, status, key, newStatus) ==
    /\ l[1] \notin TypedRun
    /\ Authorized(l)
    /\ leaseRunner[l] \notin dead
    /\ leaseStatus' = [leaseStatus EXCEPT ![l] = status]
    /\ completionKey' = [completionKey EXCEPT ![l] = key]
    /\ runStatus' = [runStatus EXCEPT ![l[1]] = newStatus]
    /\ UNCHANGED <<runRunner, nextAttempt, approval, leaseRunner, left, dead>>

(* What completionRunState can answer: the completion's own status, or     *)
(* "queued" when a workflow has a further step.                            *)
CompletedRunStatus(status) ==
    {status} \cup (IF status = "succeeded" THEN {"queued"} ELSE {})

(* CompleteDeploymentLease with CompleteDeploymentRun, and their          *)
(* counterparts for builds.  Only a build records a completion key and     *)
(* keeps the runner on its run.                                            *)
SettleTypedLease(l, status, key) ==
    /\ l[1] \in TypedRun
    /\ Authorized(l)
    /\ leaseRunner[l] \notin dead
    /\ leaseStatus' = [leaseStatus EXCEPT ![l] = status]
    /\ completionKey' = [completionKey EXCEPT ![l] = IF l[1] \in BuildRun THEN key ELSE @]
    /\ runRunner' = [runRunner EXCEPT ![l[1]] = IF l[1] \in BuildRun THEN @ ELSE NoRunner]
    /\ UNCHANGED <<nextAttempt, approval, leaseRunner, left, dead>>

SettleTypedRun(l, status, key) ==
    /\ SettleTypedLease(l, status, key)
    /\ runStatus[l[1]] = "running"
    /\ runStatus' = [runStatus EXCEPT ![l[1]] = status]

(* The run's half of FailDeploymentAndCreateRollback: the failed run is    *)
(* settled and the rollback's run c is queued in the same transaction.     *)
FailTypedRunAndQueue(l, c) ==
    /\ l[1] \notin BuildRun
    /\ c \in TypedRun \ BuildRun
    /\ SettleTypedLease(l, "failed", NoKey)
    /\ runStatus[l[1]] = "running"
    /\ runStatus[c] = "absent"
    /\ runStatus' = [runStatus EXCEPT ![l[1]] = "failed", ![c] = "queued"]

(* Mutant: the run is canceled and its lease forgotten. *)
CancelRunOnly(r) ==
    /\ r \notin BuildRun
    /\ runStatus[r] \notin TerminalRunStatus \cup {"absent"}
    /\ runStatus' = [runStatus EXCEPT ![r] = "canceled"]
    /\ runRunner' = [runRunner EXCEPT ![r] = NoRunner]
    /\ UNCHANGED <<nextAttempt, approval, leaseVars, dead>>

(* Mutant: every lease of the run is canceled, settled ones included. *)
CancelEveryLease(r) ==
    /\ r \notin BuildRun
    /\ runStatus[r] \notin TerminalRunStatus \cup {"absent"}
    /\ leaseStatus' = [l \in Lease |-> IF l[1] = r /\ leaseStatus[l] # "none"
                                       THEN "canceled" ELSE leaseStatus[l]]
    /\ runStatus' = [runStatus EXCEPT ![r] = "canceled"]
    /\ runRunner' = [runRunner EXCEPT ![r] = NoRunner]
    /\ UNCHANGED <<nextAttempt, approval, leaseRunner, left, completionKey, dead>>

(* CancelRunRequest, and the same three updates in the cancellation of a   *)
(* deployment before apply: every active lease is canceled, expired or     *)
(* not.                                                                    *)
CancelRunRequest(r) ==
    /\ r \notin BuildRun
    /\ runStatus[r] \notin TerminalRunStatus \cup {"absent"}
    /\ leaseStatus' = [l \in Lease |-> IF l[1] = r /\ leaseStatus[l] = "active"
                                       THEN "canceled" ELSE leaseStatus[l]]
    /\ runStatus' = [runStatus EXCEPT ![r] = "canceled"]
    /\ runRunner' = [runRunner EXCEPT ![r] = NoRunner]
    /\ UNCHANGED <<nextAttempt, approval, leaseRunner, left, completionKey, dead>>

(* InvalidateRunnerLeasesForRestoreTx: after a restore every active lease  *)
(* is expired, whatever its deadline, and its run is settled.              *)
InvalidateLeasesForRestore ==
    LET S == {r \in Run : \E a \in Attempt : leaseStatus[<<r, a>>] = "active"}
    IN  /\ S # {}
        /\ leaseStatus' = [l \in Lease |-> IF leaseStatus[l] = "active"
                                           THEN "expired" ELSE leaseStatus[l]]
        /\ runStatus' = Requeue(S)
        /\ runRunner' = Unassign(S)
        /\ UNCHANGED <<nextAttempt, approval, leaseRunner, left, completionKey, dead>>

-----------------------------------------------------------------------------
(* The environment: the database clock, and runners that die. *)
Tick(l) ==
    /\ Authorized(l)
    /\ left' = [left EXCEPT ![l] = @ - 1]
    /\ UNCHANGED <<runVars, leaseStatus, leaseRunner, completionKey, dead>>

RunnerDies(n) ==
    /\ n \notin dead
    /\ dead' = dead \cup {n}
    /\ UNCHANGED <<runVars, leaseVars>>

Complete(l) ==
    \E status \in TerminalRunStatus, key \in Key :
        \E newStatus \in CompletedRunStatus(status) :
            CompleteLeaseRequest(l, status, key, newStatus)

Next ==
    \/ \E r \in Run, requiresAck \in BOOLEAN : CreateRunRequest(r, requiresAck)
    \/ \E r \in Run, status \in {"waiting_approval", "queued"} : CreateTypedRun(r, status)
    \/ \E r \in Run : ConfirmTypedRun(r)
    \/ \E r \in Run, status \in {"failed", "canceled"} : CloseUnclaimedRun(r, status)
    \/ \E r \in Run : ApproveRun(r)
    \/ \E r \in Run : RejectRun(r)
    \/ \E r \in Run : CancelRunRequest(r)
    \/ \E S \in SUBSET Run : ExpireLeases(S)
    \/ \E n \in Runner, S \in SUBSET Run, r \in Run : ClaimRun(n, S, r)
    \/ \E l \in Lease : RenewLease(l)
    \/ \E l \in Lease : Complete(l)
    \/ \E l \in Lease, status \in TerminalRunStatus, key \in Key : SettleTypedRun(l, status, key)
    \/ \E l \in Lease, c \in Run : FailTypedRunAndQueue(l, c)
    \/ InvalidateLeasesForRestore
    \/ \E l \in Lease : Tick(l)
    \/ \E n \in Runner : RunnerDies(n)

Spec == Init /\ [][Next]_vars

-----------------------------------------------------------------------------
(* An active lease is the newest attempt of a run that is running on the   *)
(* lease's runner, so a run never has two holders and no lease outlives    *)
(* the run it authorises.  CompleteLeaseRequest relies on this: it writes  *)
(* the run's status without reading it.                                    *)
AuthorityIsCurrent ==
    \A r \in Run, a \in Attempt :
        leaseStatus[<<r, a>>] = "active" =>
            /\ nextAttempt[r] = a + 1
            /\ runStatus[r] = "running"
            /\ runRunner[r] = leaseRunner[<<r, a>>]

(* A running run has an active lease, so the sweep can always find and     *)
(* requeue it: no path leaves a run in "running" that nobody holds.        *)
RunningIsLeased ==
    \A r \in Run : runStatus[r] = "running" =>
        \E a \in Attempt : leaseStatus[<<r, a>>] = "active"

(* A run that still waits for its approval, or whose approval was refused, *)
(* was never leased to a runner, whatever cancellation, rejection and      *)
(* claims did in between.                                                  *)
ApprovalGatesExecution ==
    \A r \in Run : approval[r] \in {"pending", "rejected"} =>
        \A a \in Attempt : leaseStatus[<<r, a>>] = "none"

(* A terminal run stays as it ended.  CompleteLeaseRequest and RejectRun   *)
(* overwrite the status unconditionally, and the sweep and the restore     *)
(* settle runs in bulk.                                                    *)
TerminalRunIsFinal ==
    [][\A r \in Run : runStatus[r] \in TerminalRunStatus => runStatus'[r] = runStatus[r]]_vars

(* A lease that was settled keeps its status and its completion key: a     *)
(* late, repeated or conflicting completion, a sweep, a cancellation or a  *)
(* restore cannot settle it again.                                         *)
SettledLeaseIsFinal ==
    [][\A l \in Lease : leaseStatus[l] \notin {"none", "active"} =>
           /\ leaseStatus'[l] = leaseStatus[l]
           /\ completionKey'[l] = completionKey[l]]_vars

-----------------------------------------------------------------------------
(* The holder of a run is the runner of its newest lease, while active. *)
Holder ==
    [r \in Run |-> IF nextAttempt[r] > 1 /\ leaseStatus[<<r, nextAttempt[r] - 1>>] = "active"
                   THEN leaseRunner[<<r, nextAttempt[r] - 1>>] ELSE NoRunner]

Generation == [r \in Run |-> nextAttempt[r] - 1]

Closed == {r \in Run : runStatus[r] \in TerminalRunStatus}

Authority == INSTANCE FencedAuthority WITH holder <- Holder, generation <- Generation, closed <- Closed

(* The rows of two tables, written by separate statements of each          *)
(* transaction, implement one authority per run: no run ends while a lease *)
(* on it stays active, and none is granted while another lease is.         *)
ImplementsAuthority == Authority!Spec

(* A run held by a runner that died. *)
HeldByDead(r) == runStatus[r] = "running" /\ runRunner[r] \in dead
=============================================================================
