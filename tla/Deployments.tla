---------------------------- MODULE Deployments ----------------------------
(***************************************************************************)
(* Compose deployments over the fenced leases of RunLeases:                *)
(* internal/store/postgres_deployments.go with sql/deployments.sql, the    *)
(* state tables of internal/domain/state.go, and the unique indexes and    *)
(* the trigger of db/migrations/0027_linked_rollback_lifecycle.sql.        *)
(*                                                                         *)
(* A deployment and its task run are inserted together and never share     *)
(* either with another, so one name stands for both.  Each action is one   *)
(* transaction: the transaction of RunLeases on the run, and in the same   *)
(* step what it does to the deployment, its attempt and its environment.   *)
(* Exact repeats of a request are answered from the stored row and change  *)
(* nothing, so they are no steps here.                                     *)
(***************************************************************************)
EXTENDS RunLeases, DeploymentStates

CONSTANTS Root,         \* deployments that a maintainer requests
          Child,        \* rollback deployments
          RollbackOf,   \* the root a rollback belongs to
          Env, EnvOf,   \* environments, and the one of each deployment
          Tag,
          RunnerTags,   \* the tags of each runner
          Selector,     \* the runner selector of each environment
          Revision, NoRevision

ASSUME DeploymentAssumption ==
    /\ Run = Root \cup Child /\ Root \cap Child = {}
    /\ TypedRun = Run /\ BuildRun = {} /\ Key # {}
    /\ RollbackOf \in [Child -> Root]
    /\ \A c, d \in Child : RollbackOf[c] = RollbackOf[d] => c = d
    /\ EnvOf \in [Run -> Env]
    /\ \A c \in Child : EnvOf[c] = EnvOf[RollbackOf[c]]
    /\ NoRevision \notin Revision

ASSUME TagAssumption ==
    RunnerTags \in [Runner -> SUBSET Tag] /\ Selector \in [Env -> SUBSET Tag]

(* task_runs.runner_tags: a root copies its environment's selector, a      *)
(* rollback is created with an empty list.                                 *)
RunTags(d) == IF d \in Child THEN {} ELSE Selector[EnvOf[d]]

(* The claim offers a run to a runner whose tags cover the run's tags;     *)
(* every runner here has the compose-deploy capability.                    *)
ASSUME EligibleAssumption ==
    Eligible = {p \in Runner \X Run : RunTags(p[2]) \subseteq RunnerTags[p[1]]}

VARIABLES dStatus,        \* deployments.status, "absent" before the insert
          desired,        \* deployments.desired_revision_id
          previous,       \* deployments.previous_healthy_revision_id
          healthy,        \* environments.current_healthy_revision_id
          confirm,        \* environments with confirmation_required
          rollbackSafe,   \* environments with rollback_safe
          resolved,       \* revisions with resolved provenance
          attemptStatus,  \* deployment_attempts.status, by lease
          applied,        \* deployments with a transition row to applying or verifying
          receipt         \* deployments with a cancellation receipt

envVars == <<healthy, confirm, rollbackSafe, resolved>>

depVars == <<dStatus, desired, previous, attemptStatus, applied, receipt>>

dVars == <<vars, envVars, depVars>>

(* Mutant: a deployment being applied still counts as not applied. *)
BeforeApplyOrApplying == {"queued", "waiting_confirmation", "assigned", "preparing", "applying"}

BeforeApply == {"queued", "waiting_confirmation", "assigned", "preparing"}

(* Mutant: the index forgets a root whose rollback is executing. *)
OpenUntilRollback == BeforeApply \cup {"applying", "verifying", "cancel_requested"}

(* The statuses of deployments_one_active_root_environment. *)
Open == BeforeApply \cup {"applying", "verifying", "cancel_requested", "rolling_back"}

DeploymentStatus == {"absent"} \cup Open \cup TerminalDeployment

AttemptStatus == {"none", "active"} \cup TerminalRunStatus

DTypeOK ==
    /\ dStatus \in [Run -> DeploymentStatus]
    /\ desired \in [Run -> Revision \cup {NoRevision}]
    /\ previous \in [Run -> Revision \cup {NoRevision}]
    /\ healthy \in [Env -> Revision \cup {NoRevision}]
    /\ confirm \subseteq Env /\ rollbackSafe \subseteq Env
    /\ resolved \subseteq Revision
    /\ attemptStatus \in [Lease -> AttemptStatus]
    /\ applied \subseteq Run /\ receipt \subseteq Root

(* Environments may already be healthy from deployments that are over. *)
DInit ==
    /\ Init
    /\ dStatus = [d \in Run |-> "absent"]
    /\ desired = [d \in Run |-> NoRevision]
    /\ previous = [d \in Run |-> NoRevision]
    /\ resolved \in SUBSET Revision
    /\ healthy \in [Env -> resolved \cup {NoRevision}]
    /\ confirm \in SUBSET Env /\ rollbackSafe \in SUBSET Env
    /\ attemptStatus = [l \in Lease |-> "none"]
    /\ applied = {} /\ receipt = {}

-----------------------------------------------------------------------------
DeploymentRoleTransitionAllowed(d, from, to) ==
    <<from, to>> \in IF d \in Child THEN RollbackChildTransition ELSE RootDeploymentTransition

(* Mutant: applying does not wait for provenance. *)
TransitionAllowedUnresolved(d, target) == DeploymentRoleTransitionAllowed(d, dStatus[d], target)

TransitionAllowed(d, target) ==
    /\ DeploymentRoleTransitionAllowed(d, dStatus[d], target)
    /\ target = "applying" => desired[d] \in resolved

(* Mutant: the deployment's own status is stored for its attempt and run. *)
TerminalOutcomeVerbatim(status) == status

(* deploymentTerminalOutcome: what the attempt, the lease and the run of a *)
(* finished deployment are set to.                                         *)
TerminalOutcome(status) ==
    CASE status \in {"succeeded", "rolled_back"} -> "succeeded"
      [] status = "canceled" -> "canceled"
      [] OTHER -> "failed"

(* Mutant: the sweep leaves the attempts alone. *)
KeepAttempts(S, leases) == attemptStatus

(* ExpireDeploymentAttemptsForRun, for every run of a sweep: the active    *)
(* attempts whose lease is expired in the new lease table.                 *)
ExpireAttempts(S, leases) ==
    [l \in Lease |-> IF l[1] \in S /\ attemptStatus[l] = "active" /\ leases[l] = "expired"
                     THEN "failed" ELSE attemptStatus[l]]

-----------------------------------------------------------------------------
(* CreateDeploymentRequest.  The unique index refuses a second open root   *)
(* in the environment, and the trigger copies the environment's healthy    *)
(* revision.                                                               *)
CreateDeploymentRequest(d, v) ==
    LET e == EnvOf[d]
    IN  /\ d \in Root
        /\ \E n \in Runner : <<n, d>> \in Eligible
        /\ \A x \in Root : EnvOf[x] = e => dStatus[x] \notin Open
        /\ CreateTypedRun(d, IF e \in confirm THEN "waiting_approval" ELSE "queued")
        /\ dStatus' = [dStatus EXCEPT ![d] = IF e \in confirm THEN "waiting_confirmation" ELSE "queued"]
        /\ desired' = [desired EXCEPT ![d] = v]
        /\ previous' = [previous EXCEPT ![d] = healthy[e]]
        /\ UNCHANGED <<envVars, attemptStatus, applied, receipt>>

(* Mutant: the update confirms by ID alone. *)
ConfirmById(d) ==
    /\ dStatus[d] # "absent"
    /\ IF runStatus[d] = "waiting_approval" THEN ConfirmTypedRun(d) ELSE UNCHANGED vars
    /\ dStatus' = [dStatus EXCEPT ![d] = "assigned"]
    /\ UNCHANGED <<envVars, desired, previous, attemptStatus, applied, receipt>>

(* ConfirmDeployment goes to "assigned", while the run is only queued. *)
ConfirmDeployment(d) ==
    /\ dStatus[d] = "waiting_confirmation"
    /\ ConfirmTypedRun(d)
    /\ dStatus' = [dStatus EXCEPT ![d] = "assigned"]
    /\ UNCHANGED <<envVars, desired, previous, attemptStatus, applied, receipt>>

(* Mutant: the run stays queued. *)
FailDeploymentOnly(d) ==
    /\ dStatus[d] \in {"queued", "waiting_confirmation"}
    /\ dStatus' = [dStatus EXCEPT ![d] = "failed"]
    /\ UNCHANGED <<vars, envVars, desired, previous, attemptStatus, applied, receipt>>

(* FailPreAssignmentDeployment: neither the handler nor the statement asks *)
(* whether the deployment is a rollback.                                   *)
FailPreAssignmentDeployment(d) ==
    /\ dStatus[d] \in {"queued", "waiting_confirmation"}
    /\ CloseUnclaimedRun(d, "failed")
    /\ dStatus' = [dStatus EXCEPT ![d] = "failed"]
    /\ UNCHANGED <<envVars, desired, previous, attemptStatus, applied, receipt>>

(* ClaimRun: the attempt is inserted with its lease, and a queued          *)
(* deployment becomes assigned.  Any other status is left as it is: a new  *)
(* attempt takes a deployment over wherever the last one left it.          *)
ClaimDeployment(n, S, d) ==
    /\ ClaimRun(n, S, d)
    /\ dStatus' = [dStatus EXCEPT ![d] = IF @ = "queued" THEN "assigned" ELSE @]
    /\ attemptStatus' = [ExpireAttempts(S, Expire(S)) EXCEPT ![<<d, nextAttempt[d]>>] = "active"]
    /\ UNCHANGED <<envVars, desired, previous, applied, receipt>>

ExpireDeploymentLeases(S) ==
    /\ ExpireLeases(S)
    /\ attemptStatus' = ExpireAttempts(S, Expire(S))
    /\ UNCHANGED <<envVars, dStatus, desired, previous, applied, receipt>>

InvalidateDeploymentLeasesForRestore ==
    /\ InvalidateLeasesForRestore
    /\ attemptStatus' = ExpireAttempts(Run, leaseStatus')
    /\ UNCHANGED <<envVars, dStatus, desired, previous, applied, receipt>>

(* ResolveRevisionProvenance.  A revision that is already resolved must be *)
(* attested with the same content, which changes no row modelled here.     *)
ResolveRevisionProvenance(l) ==
    /\ Authorized(l)
    /\ leaseRunner[l] \notin dead
    /\ dStatus[l[1]] \in {"assigned", "preparing", "applying", "verifying"}
    /\ desired[l[1]] \notin resolved
    /\ resolved' = resolved \cup {desired[l[1]]}
    /\ UNCHANGED <<vars, healthy, confirm, rollbackSafe, depVars>>

(* The tail of TransitionDeploymentAttempt for a terminal target. *)
SettleAttempt(l, outcome) ==
    /\ attemptStatus[l] = "active"
    /\ attemptStatus' = [attemptStatus EXCEPT ![l] = outcome]
    /\ \E key \in Key : SettleTypedRun(l, outcome, key)

(* TransitionDeploymentAttempt.  A success is accepted with passed health  *)
(* only, and commits the desired revision as the environment's healthy     *)
(* one.  A rollback that ends settles its root in the same transaction.    *)
TransitionDeploymentAttempt(l, target) ==
    LET d == l[1]
        Ended(x) == target \in TerminalDeployment /\ d \in Child /\ x = RollbackOf[d]
    IN  /\ Authorized(l)
        /\ leaseRunner[l] \notin dead
        /\ TransitionAllowed(d, target)
        /\ \A x \in Root : Ended(x) => dStatus[x] = "rolling_back"
        /\ dStatus' = [x \in Run |-> IF x = d \/ Ended(x) THEN target ELSE dStatus[x]]
        /\ healthy' = IF target \in {"succeeded", "rolled_back"}
                      THEN [healthy EXCEPT ![EnvOf[d]] = desired[d]] ELSE healthy
        /\ applied' = IF target \in {"applying", "verifying"} THEN applied \cup {d} ELSE applied
        /\ IF target \in TerminalDeployment
           THEN SettleAttempt(l, TerminalOutcome(target))
           ELSE UNCHANGED <<vars, attemptStatus>>
        /\ UNCHANGED <<confirm, rollbackSafe, resolved, desired, previous, receipt>>

(* CancelDeploymentRequest before apply settles every owned row; after     *)
(* apply it records the intent and leaves the lease to the runner.         *)
CancelDeploymentRequest(d) ==
    /\ d \in Root \ receipt
    /\ \/ /\ dStatus[d] \in BeforeApply
          /\ CancelRunRequest(d)
          /\ dStatus' = [dStatus EXCEPT ![d] = "canceled"]
          /\ attemptStatus' = [l \in Lease |-> IF l[1] = d /\ attemptStatus[l] = "active"
                                                THEN "canceled" ELSE attemptStatus[l]]
       \/ /\ dStatus[d] \in {"applying", "verifying"}
          /\ dStatus' = [dStatus EXCEPT ![d] = "cancel_requested"]
          /\ UNCHANGED <<vars, attemptStatus>>
    /\ receipt' = receipt \cup {d}
    /\ UNCHANGED <<envVars, desired, previous, applied>>

(* rollbackUnsafe of FailDeploymentAndCreateRollback. *)
RollbackUnsafe(d) ==
    \/ previous[d] = NoRevision
    \/ EnvOf[d] \notin rollbackSafe
    \/ healthy[EnvOf[d]] = NoRevision
    \/ healthy[EnvOf[d]] # previous[d]

(* finishFailureManualIntervention: no safe target, so no child. *)
FinishFailureManualIntervention(l) ==
    /\ RollbackUnsafe(l[1])
    /\ dStatus' = [dStatus EXCEPT ![l[1]] = "manual_intervention"]
    /\ SettleAttempt(l, "failed")
    /\ UNCHANGED <<envVars, desired, previous, applied, receipt>>

(* Mutant: the rollback is given the revision that failed. *)
CreateRollbackToDesired(l, c) ==
    LET d == l[1]
    IN  /\ ~RollbackUnsafe(d)
        /\ RollbackOf[c] = d
        /\ d \in applied
        /\ attemptStatus[l] = "active"
        /\ FailTypedRunAndQueue(l, c)
        /\ dStatus' = [dStatus EXCEPT ![d] = "rolling_back", ![c] = "queued"]
        /\ desired' = [desired EXCEPT ![c] = desired[d]]
        /\ previous' = [previous EXCEPT ![c] = healthy[EnvOf[d]]]
        /\ attemptStatus' = [attemptStatus EXCEPT ![l] = "failed"]
        /\ UNCHANGED <<envVars, applied, receipt>>

(* The linked rollback c is inserted with its run.  The trigger sets its   *)
(* previous revision, and insists on a root that reached apply.            *)
CreateRollback(l, c) ==
    LET d == l[1]
    IN  /\ ~RollbackUnsafe(d)
        /\ RollbackOf[c] = d
        /\ d \in applied
        /\ attemptStatus[l] = "active"
        /\ FailTypedRunAndQueue(l, c)
        /\ dStatus' = [dStatus EXCEPT ![d] = "rolling_back", ![c] = "queued"]
        /\ desired' = [desired EXCEPT ![c] = previous[d]]
        /\ previous' = [previous EXCEPT ![c] = healthy[EnvOf[d]]]
        /\ attemptStatus' = [attemptStatus EXCEPT ![l] = "failed"]
        /\ UNCHANGED <<envVars, applied, receipt>>

(* FailDeploymentAndCreateRollback.  composePostApplyFailure sends it for  *)
(* roots only, and a canceled deployment needs its receipt.                *)
FailDeploymentAndCreateRollback(l) ==
    /\ l[1] \in Root
    /\ Authorized(l)
    /\ leaseRunner[l] \notin dead
    /\ \/ dStatus[l[1]] \in {"applying", "verifying"}
       \/ dStatus[l[1]] = "cancel_requested" /\ l[1] \in receipt
    /\ \/ FinishFailureManualIntervention(l)
       \/ \E c \in Child : CreateRollback(l, c)

(* The lease's own steps: renewal, the clock, a runner that dies. *)
LeaseStep ==
    /\ \/ \E l \in Lease : RenewLease(l) \/ Tick(l)
       \/ \E n \in Runner : RunnerDies(n)
    /\ UNCHANGED <<envVars, depVars>>

DNext ==
    \/ \E d \in Run, v \in Revision : CreateDeploymentRequest(d, v)
    \/ \E d \in Run : ConfirmDeployment(d)
    \/ \E d \in Run : FailPreAssignmentDeployment(d)
    \/ \E n \in Runner, S \in SUBSET Due, d \in Run : ClaimDeployment(n, S, d)
    \/ \E S \in SUBSET Due : ExpireDeploymentLeases(S)
    \/ InvalidateDeploymentLeasesForRestore
    \/ \E l \in Lease : ResolveRevisionProvenance(l)
    \/ \E l \in Lease, target \in DeploymentStatus : TransitionDeploymentAttempt(l, target)
    \/ \E d \in Run : CancelDeploymentRequest(d)
    \/ \E l \in Lease : FailDeploymentAndCreateRollback(l)
    \/ LeaseStep

DSpec == DInit /\ [][DNext]_dVars

-----------------------------------------------------------------------------
(* At most one runner at a time has authority over an environment: its     *)
(* deployments, rollbacks included, never hold two active leases.  The     *)
(* index covers roots only, so this rests on a root's lease being settled  *)
(* before its rollback can be claimed and on the root staying open until   *)
(* the rollback ends.                                                      *)
OneActorPerEnvironment ==
    \A l, m \in Lease :
        (leaseStatus[l] = "active" /\ leaseStatus[m] = "active" /\ EnvOf[l[1]] = EnvOf[m[1]]) => l = m

(* While a deployment is open the healthy revision it recorded when it was *)
(* inserted is still its environment's, and a rollback's target is that    *)
(* revision: no other deployment can move it in between.                   *)
PreviousIsCurrent ==
    \A d \in Run : dStatus[d] \in Open =>
        /\ previous[d] = healthy[EnvOf[d]]
        /\ d \in Child => desired[d] = healthy[EnvOf[d]]

(* Only a root that verified and succeeded moves an environment's healthy  *)
(* revision; the commit that a finished rollback makes leaves it as it was.*)
OnlySuccessMovesHealthy ==
    [][\A e \in Env : healthy'[e] # healthy[e] =>
           \E d \in Root : EnvOf[d] = e /\ dStatus[d] = "verifying" /\ dStatus'[d] = "succeeded"]_dVars

(* A revision is recorded as healthy only with its provenance resolved. *)
HealthyIsResolved ==
    \A e \in Env : healthy[e] # NoRevision => healthy[e] \in resolved

(* Once a deployment was told to apply it is never simply failed or        *)
(* canceled: it ends succeeded, rolled back, or loudly, as the comment on  *)
(* RootDeploymentTransitionAllowed says.                                   *)
AppliedIsNotDiscarded ==
    \A d \in applied : dStatus[d] \notin {"failed", "canceled"}

(* A deployment and its run agree: the run is over exactly when the        *)
(* deployment is over or waits for its rollback, although the two rows are *)
(* written by different statements in every transaction.                   *)
DeploymentMatchesRun ==
    \A d \in Run :
        runStatus[d] \in TerminalRunStatus <=> dStatus[d] \in TerminalDeployment \cup {"rolling_back"}

(* A deployment attempt is active exactly while its lease is, through      *)
(* claims, sweeps, restores, cancellations and rollbacks: no attempt is    *)
(* left behind for a lease that no longer authorises it.                   *)
AttemptFollowsLease ==
    \A l \in Lease : attemptStatus[l] = "active" <=> leaseStatus[l] = "active"

(* A finished deployment never changes again, whatever confirmation,       *)
(* cancellation, late transition or rollback still arrives.                *)
TerminalDeploymentIsFinal ==
    [][\A d \in Run : dStatus[d] \in TerminalDeployment => dStatus'[d] = dStatus[d]]_dVars

(* A rollback that is over has settled its root: RollbackChildTransition-  *)
(* Allowed says a linked child "cannot succeed, cancel, or fail as an      *)
(* ordinary run".                                                          *)
EndedRollbackSettlesRoot ==
    \A c \in Child : dStatus[c] \in TerminalDeployment => dStatus[RollbackOf[c]] = dStatus[c]

(* Every lease of an environment's deployments, rollbacks included, is     *)
(* held by a runner that the environment's selector selects.               *)
SelectedRunnersOnly ==
    \A l \in Lease : leaseStatus[l] = "active" =>
        Selector[EnvOf[l[1]]] \subseteq RunnerTags[leaseRunner[l]]

=============================================================================
