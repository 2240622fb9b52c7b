------------------------- MODULE DeploymentsProofs -------------------------
(***************************************************************************)
(* Theorems about Deployments, for any number of environments, requests,   *)
(* runners and attempts: the inductive invariant, the steps that keep it,  *)
(* and what follows.  Every step of a deployment is a step of its run or   *)
(* leaves the runs alone, so the theorems of RunLeases carry over.         *)
(***************************************************************************)
EXTENDS Deployments, RunLeasesProofs

(* deployments_one_active_root_environment, for roots. *)
OneOpenRoot ==
    \A x, y \in Root : (dStatus[x] \in Open /\ dStatus[y] \in Open /\ EnvOf[x] = EnvOf[y]) => x = y

(* The rollback takes its root's place: it is open only while the root     *)
(* waits for it, and has no status but those of its own table.             *)
ChildHasWaitingRoot ==
    \A c \in Child :
        /\ dStatus[c] \in Open => dStatus[RollbackOf[c]] = "rolling_back"
        /\ dStatus[c] \notin {"rolling_back", "cancel_requested", "waiting_confirmation"}

(* The deployment and its run are inserted together and end together. *)
RunAndDeployment ==
    /\ \A d \in Run : dStatus[d] = "absent" <=> runStatus[d] = "absent"
    /\ DeploymentMatchesRun

(* What a deployment, and one that was told to apply, has behind it. *)
ApplyFacts ==
    /\ \A d \in Run : dStatus[d] # "absent" => desired[d] \in Revision
    /\ \A d \in Run : dStatus[d] \in {"applying", "verifying"} => desired[d] \in resolved
    /\ \A d \in applied : dStatus[d] \notin BeforeApply \cup {"absent", "failed", "canceled"}

(* The inductive invariant of deployments, over that of the leases. *)
DInv ==
    /\ DTypeOK
    /\ OneOpenRoot
    /\ ChildHasWaitingRoot
    /\ RunAndDeployment
    /\ AttemptFollowsLease
    /\ PreviousIsCurrent
    /\ HealthyIsResolved
    /\ ApplyFacts

(* A batch of due runs is a set of runs. *)
LEMMA DueIsRun == \A S \in SUBSET Due : S \in SUBSET Run
  BY Zenon DEF Due

-----------------------------------------------------------------------------
(* Every step of a deployment is a step of RunLeases, or leaves it alone,  *)
(* so what is proved of runs and leases holds of deployments' runs.        *)
LEMMA StepIsLeaseStep == DNext => [Next]_vars
  <1> SUFFICES ASSUME DNext PROVE [Next]_vars
    BY Zenon
  <1> USE DEF Next
  <1>1. ASSUME NEW d \in Run, NEW v \in Revision, CreateDeploymentRequest(d, v) PROVE Next
    <2>1. CreateTypedRun(d, IF EnvOf[d] \in confirm THEN "waiting_approval" ELSE "queued")
      BY <1>1, Zenon DEF CreateDeploymentRequest
    <2> QED
      BY <2>1, Zenon
  <1>2. ASSUME NEW d \in Run, ConfirmDeployment(d) PROVE Next
    BY <1>2, Zenon DEF ConfirmDeployment
  <1>3. ASSUME NEW d \in Run, FailPreAssignmentDeployment(d) PROVE Next
    BY <1>3, Zenon DEF FailPreAssignmentDeployment
  <1>4. ASSUME NEW n \in Runner, NEW S \in SUBSET Run, NEW d \in Run, ClaimDeployment(n, S, d) PROVE Next
    BY <1>4, Zenon DEF ClaimDeployment
  <1>5. ASSUME NEW S \in SUBSET Run, ExpireDeploymentLeases(S) PROVE Next
    BY <1>5, Zenon DEF ExpireDeploymentLeases
  <1>6. ASSUME InvalidateDeploymentLeasesForRestore PROVE Next
    BY <1>6, Zenon DEF InvalidateDeploymentLeasesForRestore
  <1>7. ASSUME NEW l \in Lease, ResolveRevisionProvenance(l) PROVE UNCHANGED vars
    BY <1>7, Zenon DEF ResolveRevisionProvenance
  <1>8. ASSUME NEW l \in Lease, NEW target \in DeploymentStatus, TransitionDeploymentAttempt(l, target)
        PROVE  [Next]_vars
    <2>1. CASE target \in TerminalDeployment
      <3>1. \E key \in Key : SettleTypedRun(l, TerminalOutcome(target), key)
        BY <1>8, <2>1, Zenon DEF TransitionDeploymentAttempt, SettleAttempt
      <3>2. TerminalOutcome(target) \in TerminalRunStatus
        BY Zenon DEF TerminalOutcome, TerminalRunStatus
      <3> QED
        BY <3>1, <3>2, Zenon
    <2>2. CASE target \notin TerminalDeployment
      BY <1>8, <2>2, Zenon DEF TransitionDeploymentAttempt
    <2> QED
      BY <2>1, <2>2, Zenon
  <1>9. ASSUME NEW d \in Run, CancelDeploymentRequest(d) PROVE [Next]_vars
    BY <1>9, Zenon DEF CancelDeploymentRequest
  <1>10. ASSUME NEW l \in Lease, FailDeploymentAndCreateRollback(l) PROVE Next
    <2>1. CASE FinishFailureManualIntervention(l)
      <3>1. \E key \in Key : SettleTypedRun(l, "failed", key)
        BY <2>1, Zenon DEF FinishFailureManualIntervention, SettleAttempt
      <3>2. "failed" \in TerminalRunStatus
        BY Zenon DEF TerminalRunStatus
      <3> QED
        BY <3>1, <3>2, Zenon
    <2>2. CASE \E c \in Child : CreateRollback(l, c)
      <3>1. PICK c \in Child : CreateRollback(l, c)
        BY <2>2, Zenon
      <3>2. c \in Run /\ FailTypedRunAndQueue(l, c)
        BY <3>1, DeploymentAssumption, Zenon DEF CreateRollback
      <3> QED
        BY <3>2, Zenon
    <2> QED
      BY <1>10, <2>1, <2>2, Zenon DEF FailDeploymentAndCreateRollback
  <1>11. ASSUME LeaseStep PROVE Next
    BY <1>11, Zenon DEF LeaseStep
  <1> HIDE DEF Next
  <1> QED
    BY <1>1, <1>2, <1>3, <1>4, <1>5, <1>6, <1>7, <1>8, <1>9, <1>10, <1>11, DueIsRun, Zenon DEF DNext

(* The lease invariant along a step of deployments. *)
LEMMA LeaseInvStep == IInv /\ [DNext]_dVars => IInv'
  <1>1. [DNext]_dVars => [Next]_vars
    BY StepIsLeaseStep, Zenon DEF dVars
  <1> QED
    BY <1>1, NextIInv, Zenon

-----------------------------------------------------------------------------
(* The empty database satisfies the invariant. *)
THEOREM InitDInv == DInit => DInv
  <1> SUFFICES ASSUME DInit PROVE DInv
    BY Zenon
  <1> USE DEF DInit, Init
  <1>1. DTypeOK
    BY Zenon DEF DTypeOK, DeploymentStatus, AttemptStatus
  <1>2. OneOpenRoot /\ PreviousIsCurrent
    BY DeploymentAssumption, Zenon DEF OneOpenRoot, PreviousIsCurrent, Open, BeforeApply
  <1>3. ChildHasWaitingRoot
    BY DeploymentAssumption, Zenon DEF ChildHasWaitingRoot, Open, BeforeApply
  <1>4. RunAndDeployment
    BY Zenon DEF RunAndDeployment, DeploymentMatchesRun, TerminalRunStatus, TerminalDeployment
  <1>5. AttemptFollowsLease /\ HealthyIsResolved /\ ApplyFacts
    BY Zenon DEF AttemptFollowsLease, HealthyIsResolved, ApplyFacts
  <1> QED
    BY <1>1, <1>2, <1>3, <1>4, <1>5, Zenon DEF DInv

-----------------------------------------------------------------------------
(* A step that moves no deployment keeps the invariant when it neither     *)
(* inserts nor ends a run and expires attempts with their leases.          *)
LEMMA DeploymentsUntouched ==
  ASSUME DInv,
         UNCHANGED <<healthy, confirm, rollbackSafe, dStatus, desired, previous, applied, receipt>>,
         resolved \subseteq resolved', resolved' \subseteq Revision,
         \A d \in Run : /\ runStatus'[d] = "absent" <=> runStatus[d] = "absent"
                        /\ runStatus'[d] \in TerminalRunStatus <=> runStatus[d] \in TerminalRunStatus,
         attemptStatus' \in [Lease -> AttemptStatus],
         AttemptFollowsLease'
  PROVE  DInv'
  <1> USE DEF DInv
  <1>1. DTypeOK'
    BY Zenon DEF DTypeOK
  <1>2. OneOpenRoot' /\ ChildHasWaitingRoot' /\ PreviousIsCurrent'
    BY Zenon DEF OneOpenRoot, ChildHasWaitingRoot, PreviousIsCurrent
  <1>3. RunAndDeployment'
    BY Zenon DEF RunAndDeployment, DeploymentMatchesRun
  <1>4. HealthyIsResolved'
    BY Zenon DEF HealthyIsResolved
  <1>5. ApplyFacts'
    BY Zenon DEF ApplyFacts
  <1> QED
    BY <1>1, <1>2, <1>3, <1>4, <1>5, Zenon

(* Attempts go where the expired leases go. *)
LEMMA ExpireAttemptsFacts ==
  ASSUME DTypeOK, AttemptFollowsLease, NEW S \in SUBSET Run, NEW leases \in [Lease -> LeaseStatus],
         \A l \in Lease : leases[l] = leaseStatus[l] \/ (leases[l] = "expired" /\ l[1] \in S)
  PROVE  /\ ExpireAttempts(S, leases) \in [Lease -> AttemptStatus]
         /\ \A l \in Lease : ExpireAttempts(S, leases)[l] = "active" <=> leases[l] = "active"
  <1>1. ExpireAttempts(S, leases) \in [Lease -> AttemptStatus]
    BY Zenon DEF ExpireAttempts, DTypeOK, AttemptStatus, TerminalRunStatus
  <1>2. ASSUME NEW l \in Lease
        PROVE  ExpireAttempts(S, leases)[l] = "active" <=> leases[l] = "active"
    BY Zenon DEF ExpireAttempts, AttemptFollowsLease
  <1> QED
    BY <1>1, <1>2, Zenon

(* Expire only turns active leases of the sweep into expired ones. *)
LEMMA ExpireFacts ==
  ASSUME NEW S \in SUBSET Run
  PROVE  \A l \in Lease : Expire(S)[l] = leaseStatus[l] \/ (Expire(S)[l] = "expired" /\ l[1] \in S)
  BY Zenon DEF Expire

(* A sweep neither inserts nor ends a deployment's run. *)
LEMMA RequeueFacts ==
  ASSUME NEW S \in SUBSET Run
  PROVE  \A d \in Run : /\ Requeue(S)[d] = "absent" <=> runStatus[d] = "absent"
                        /\ Requeue(S)[d] \in TerminalRunStatus <=> runStatus[d] \in TerminalRunStatus
  <1>1. BuildRun = {}
    BY DeploymentAssumption, Zenon
  <1>2. ASSUME NEW d \in Run
        PROVE  Requeue(S)[d] = IF d \in S /\ runStatus[d] = "running" THEN "queued" ELSE runStatus[d]
    BY <1>1, Zenon DEF Requeue
  <1> QED
    BY <1>2, Zenon DEF TerminalRunStatus

(* The invariant across the sweep of expired leases. *)
LEMMA ExpireDeploymentLeasesStep ==
  ASSUME IInv, DInv, NEW S \in SUBSET Run, ExpireDeploymentLeases(S)
  PROVE  DInv'
  <1>1. Expire(S) \in [Lease -> LeaseStatus] /\ leaseStatus' = Expire(S) /\ runStatus' = Requeue(S)
    BY SweepFacts, Zenon DEF ExpireDeploymentLeases, ExpireLeases
  <1>2. /\ attemptStatus' \in [Lease -> AttemptStatus]
        /\ AttemptFollowsLease'
    BY <1>1, ExpireFacts, ExpireAttemptsFacts, Zenon DEF ExpireDeploymentLeases,
        AttemptFollowsLease, DInv
  <1>3. UNCHANGED <<envVars, dStatus, desired, previous, applied, receipt>>
    BY Zenon DEF ExpireDeploymentLeases
  <1> QED
    BY <1>1, <1>2, <1>3, RequeueFacts, DeploymentsUntouched, Zenon DEF envVars, DInv, DTypeOK

(* The invariant across the restore's invalidation of every active lease. *)
LEMMA RestoreStep ==
  ASSUME IInv, DInv, InvalidateDeploymentLeasesForRestore
  PROVE  DInv'
  <1> USE DEF InvalidateDeploymentLeasesForRestore, InvalidateLeasesForRestore
  <1>1. leaseStatus' \in [Lease -> LeaseStatus]
    BY Zenon DEF IInv, TypeOK, LeaseStatus
  <1>2. \A l \in Lease : leaseStatus'[l] = leaseStatus[l] \/ (leaseStatus'[l] = "expired" /\ l[1] \in Run)
    BY LeaseIsPair, Zenon
  <1>3. /\ attemptStatus' \in [Lease -> AttemptStatus]
        /\ AttemptFollowsLease'
    BY <1>1, <1>2, ExpireAttemptsFacts, ZenonT(30) DEF AttemptFollowsLease, DInv
  <1>4. \E S \in SUBSET Run : runStatus' = Requeue(S)
    BY Zenon
  <1>5. UNCHANGED <<envVars, dStatus, desired, previous, applied, receipt>>
    BY Zenon
  <1> QED
    BY <1>3, <1>4, <1>5, RequeueFacts, DeploymentsUntouched, Zenon DEF envVars, DInv, DTypeOK

(* The invariant across renewals, the clock and deaths. *)
LEMMA LeaseStepStep ==
  ASSUME DInv, LeaseStep
  PROVE  DInv'
  <1>1. UNCHANGED <<runStatus, leaseStatus, envVars, depVars>>
    BY Zenon DEF LeaseStep, RenewLease, Tick, RunnerDies, runVars, leaseVars
  <1>2. attemptStatus' \in [Lease -> AttemptStatus] /\ AttemptFollowsLease'
    BY <1>1, Zenon DEF depVars, DInv, DTypeOK, AttemptFollowsLease
  <1> QED
    BY <1>1, <1>2, DeploymentsUntouched, Zenon DEF envVars, depVars, DInv, DTypeOK

(* The invariant across the resolution of a revision. *)
LEMMA ResolveStep ==
  ASSUME IInv, DInv, NEW l \in Lease, ResolveRevisionProvenance(l)
  PROVE  DInv'
  <1> USE DEF ResolveRevisionProvenance
  <1>1. UNCHANGED <<runStatus, leaseStatus, depVars, healthy, confirm, rollbackSafe>>
    BY Zenon DEF vars, runVars, leaseVars
  <1>2. attemptStatus' \in [Lease -> AttemptStatus] /\ AttemptFollowsLease'
    BY <1>1, Zenon DEF depVars, DInv, DTypeOK, AttemptFollowsLease
  <1>3. desired[l[1]] \in Revision
    BY LeaseIsPair, Zenon DEF DInv, ApplyFacts
  <1> QED
    BY <1>1, <1>2, <1>3, DeploymentsUntouched, Zenon DEF depVars, DInv, DTypeOK

-----------------------------------------------------------------------------
(* The statuses of a deployment that its own run still carries. *)
Carried == Open \ {"rolling_back"}

(* A deployment that moves between two of them. *)
LEMMA OpenMove ==
  ASSUME DInv, NEW d \in Run, NEW new \in Carried,
         dStatus[d] \in Carried,
         dStatus' = [dStatus EXCEPT ![d] = new],
         d \in Child => new \notin {"cancel_requested", "waiting_confirmation"},
         UNCHANGED <<envVars, desired, previous>>,
         \A x \in Run : runStatus'[x] = "absent" <=> runStatus[x] = "absent",
         \A x \in Run : runStatus'[x] \in TerminalRunStatus <=> runStatus[x] \in TerminalRunStatus,
         attemptStatus' \in [Lease -> AttemptStatus], AttemptFollowsLease',
         new \in {"applying", "verifying"} => desired[d] \in resolved,
         applied \subseteq applied', applied' \subseteq applied \cup {d},
         new \in BeforeApply => d \notin applied',
         receipt' \subseteq Root
  PROVE  DInv'
  <1> USE DEF DInv
  <1>1. /\ new \in Open /\ new # "rolling_back" /\ new \in DeploymentStatus
        /\ dStatus[d] \in Open /\ dStatus[d] # "rolling_back"
        /\ new # "absent" /\ new \notin TerminalDeployment
        /\ dStatus[d] # "absent" /\ dStatus[d] \notin TerminalDeployment
    BY Zenon DEF Carried, DeploymentStatus, TerminalDeployment, Open, BeforeApply
  <1>2. dStatus \in [Run -> DeploymentStatus]
    BY Zenon DEF DTypeOK
  <1>3. dStatus'[d] = new /\ \A x \in Run : x # d => dStatus'[x] = dStatus[x]
    BY <1>2, Zenon
  <1>4. DTypeOK'
    BY <1>1, Zenon DEF DTypeOK, envVars
  <1>5. OneOpenRoot'
    BY <1>1, <1>3, DeploymentAssumption, Zenon DEF OneOpenRoot
  <1>6. ChildHasWaitingRoot'
    <2> SUFFICES ASSUME NEW c \in Child
                 PROVE  /\ dStatus'[c] \in Open => dStatus'[RollbackOf[c]] = "rolling_back"
                        /\ dStatus'[c] \notin {"rolling_back", "cancel_requested", "waiting_confirmation"}
      BY Zenon DEF ChildHasWaitingRoot
    <2>1. c \in Run /\ RollbackOf[c] \in Run /\ RollbackOf[c] # c
      BY DeploymentAssumption
    <2>2. dStatus[c] \in Open => RollbackOf[c] # d
      BY <1>1, Zenon DEF ChildHasWaitingRoot
    <2> QED
      BY <1>1, <1>3, <2>1, <2>2, Zenon DEF ChildHasWaitingRoot
  <1>7. RunAndDeployment'
    BY <1>1, <1>3, Zenon DEF RunAndDeployment, DeploymentMatchesRun
  <1>8. PreviousIsCurrent'
    BY <1>1, <1>3, Zenon DEF PreviousIsCurrent, envVars
  <1>9. HealthyIsResolved'
    BY Zenon DEF HealthyIsResolved, envVars
  <1>10. ApplyFacts'
    <2>1. \A x \in Run : dStatus'[x] # "absent" => desired'[x] \in Revision
      BY <1>1, <1>3, Zenon DEF ApplyFacts
    <2>2. \A x \in Run : dStatus'[x] \in {"applying", "verifying"} => desired'[x] \in resolved'
      BY <1>3, Zenon DEF ApplyFacts, envVars
    <2>3. new \notin {"absent", "failed", "canceled"}
      BY <1>1, Zenon DEF TerminalDeployment
    <2>4. \A x \in applied' : dStatus'[x] \notin BeforeApply \cup {"absent", "failed", "canceled"}
      BY <1>3, <2>3, Zenon DEF ApplyFacts, DTypeOK
    <2> QED
      BY <2>1, <2>2, <2>4, Zenon DEF ApplyFacts
  <1> QED
    BY <1>4, <1>5, <1>6, <1>7, <1>8, <1>9, <1>10, Zenon

(* A deployment that ends with its run, its environment untouched. *)
LEMMA TerminalMove ==
  ASSUME DInv, NEW d \in Run, NEW new \in TerminalDeployment,
         dStatus[d] \in Carried,
         dStatus' = [dStatus EXCEPT ![d] = new],
         UNCHANGED <<envVars, desired, previous, applied>>,
         runStatus'[d] \in TerminalRunStatus,
         \A x \in Run : x # d => runStatus'[x] = runStatus[x],
         attemptStatus' \in [Lease -> AttemptStatus], AttemptFollowsLease',
         new \in {"failed", "canceled"} => d \notin applied,
         receipt' \subseteq Root
  PROVE  DInv'
  <1> USE DEF DInv
  <1>1. /\ new \notin Open /\ new # "absent" /\ new \in DeploymentStatus
        /\ dStatus[d] \in Open /\ dStatus[d] # "rolling_back"
        /\ dStatus[d] # "absent"
    BY Zenon DEF Carried, DeploymentStatus, TerminalDeployment, Open, BeforeApply
  <1>2. dStatus \in [Run -> DeploymentStatus]
    BY Zenon DEF DTypeOK
  <1>3. dStatus'[d] = new /\ \A x \in Run : x # d => dStatus'[x] = dStatus[x]
    BY <1>2, Zenon
  <1>4. DTypeOK'
    BY <1>1, Zenon DEF DTypeOK, envVars
  <1>5. OneOpenRoot'
    BY <1>1, <1>3, DeploymentAssumption, Zenon DEF OneOpenRoot
  <1>6. ChildHasWaitingRoot'
    <2> SUFFICES ASSUME NEW c \in Child
                 PROVE  /\ dStatus'[c] \in Open => dStatus'[RollbackOf[c]] = "rolling_back"
                        /\ dStatus'[c] \notin {"rolling_back", "cancel_requested", "waiting_confirmation"}
      BY Zenon DEF ChildHasWaitingRoot
    <2>1. c \in Run /\ RollbackOf[c] \in Run /\ RollbackOf[c] # c
      BY DeploymentAssumption, Zenon
    <2>2. dStatus[c] \in Open => RollbackOf[c] # d
      BY <1>1, Zenon DEF ChildHasWaitingRoot
    <2>3. new \notin {"rolling_back", "cancel_requested", "waiting_confirmation"}
      BY Zenon DEF TerminalDeployment
    <2> QED
      BY <1>1, <1>3, <2>1, <2>2, <2>3, Zenon DEF ChildHasWaitingRoot
  <1>7. RunAndDeployment'
    <2>1. runStatus'[d] # "absent"
      BY Zenon DEF TerminalRunStatus
    <2> QED
      BY <1>1, <1>3, <2>1, Zenon DEF RunAndDeployment, DeploymentMatchesRun
  <1>8. PreviousIsCurrent'
    BY <1>1, <1>3, Zenon DEF PreviousIsCurrent, envVars
  <1>9. HealthyIsResolved'
    BY Zenon DEF HealthyIsResolved, envVars
  <1>10. ApplyFacts'
    <2>1. \A x \in Run : dStatus'[x] # "absent" => desired'[x] \in Revision
      BY <1>1, <1>3, Zenon DEF ApplyFacts
    <2>2. new \notin {"applying", "verifying"} \cup BeforeApply
      BY Zenon DEF TerminalDeployment, BeforeApply
    <2>3. \A x \in Run : dStatus'[x] \in {"applying", "verifying"} => desired'[x] \in resolved'
      BY <1>3, <2>2, Zenon DEF ApplyFacts, envVars
    <2>4. \A x \in applied' : dStatus'[x] \notin BeforeApply \cup {"absent", "failed", "canceled"}
      BY <1>1, <1>3, <2>2, Zenon DEF ApplyFacts, DTypeOK
    <2> QED
      BY <2>1, <2>3, <2>4, Zenon DEF ApplyFacts
  <1> QED
    BY <1>4, <1>5, <1>6, <1>7, <1>8, <1>9, <1>10, Zenon

-----------------------------------------------------------------------------
(* The invariant across a request: the index admits it only when no other  *)
(* root of the environment is open, and then no rollback is either.        *)
LEMMA CreateStep ==
  ASSUME IInv, DInv, NEW d \in Run, NEW v \in Revision, CreateDeploymentRequest(d, v)
  PROVE  DInv'
  <1> USE DEF DInv
  <1>1. PICK new \in {"waiting_confirmation", "queued"} : dStatus' = [dStatus EXCEPT ![d] = new]
    BY Zenon DEF CreateDeploymentRequest
  <1>2. \E status \in {"waiting_approval", "queued"} : runStatus' = [runStatus EXCEPT ![d] = status]
    BY Zenon DEF CreateDeploymentRequest, CreateTypedRun
  <1>3. /\ d \in Root /\ runStatus[d] = "absent" /\ dStatus[d] = "absent"
        /\ \A x \in Root : EnvOf[x] = EnvOf[d] => dStatus[x] \notin Open
        /\ desired' = [desired EXCEPT ![d] = v]
        /\ previous' = [previous EXCEPT ![d] = healthy[EnvOf[d]]]
        /\ UNCHANGED <<envVars, attemptStatus, applied, receipt, leaseStatus>>
    BY Zenon DEF CreateDeploymentRequest, CreateTypedRun, RunAndDeployment, leaseVars
  <1>4. d \notin Child /\ EnvOf[d] \in Env
    BY <1>3, DeploymentAssumption, Zenon
  <1>5. /\ new \in Open /\ new \in BeforeApply /\ new \in DeploymentStatus /\ new # "absent"
        /\ new \notin TerminalDeployment \cup {"rolling_back", "applying", "verifying"}
    BY Zenon DEF Open, BeforeApply, DeploymentStatus, TerminalDeployment
  <1>6. dStatus'[d] = new /\ \A x \in Run : x # d => dStatus'[x] = dStatus[x]
    BY <1>1, Zenon DEF DTypeOK
  <1>7. desired'[d] = v /\ \A x \in Run : x # d => desired'[x] = desired[x]
    BY <1>3, Zenon DEF DTypeOK
  <1>8. previous'[d] = healthy[EnvOf[d]] /\ \A x \in Run : x # d => previous'[x] = previous[x]
    BY <1>3, Zenon DEF DTypeOK
  <1>9. DTypeOK'
    BY <1>1, <1>3, <1>4, <1>5, Zenon DEF DTypeOK, envVars
  <1>10. OneOpenRoot'
    BY <1>3, <1>6, DeploymentAssumption DEF OneOpenRoot
  <1>11. ChildHasWaitingRoot'
    <2> SUFFICES ASSUME NEW c \in Child
                 PROVE  /\ dStatus'[c] \in Open => dStatus'[RollbackOf[c]] = "rolling_back"
                        /\ dStatus'[c] \notin {"rolling_back", "cancel_requested", "waiting_confirmation"}
      BY Zenon DEF ChildHasWaitingRoot
    <2>1. c \in Run /\ c # d /\ RollbackOf[c] \in Run
      BY <1>4, DeploymentAssumption, Zenon
    <2>2. dStatus[c] \in Open => RollbackOf[c] # d
      BY <1>3, Zenon DEF ChildHasWaitingRoot
    <2> QED
      BY <1>6, <2>1, <2>2, Zenon DEF ChildHasWaitingRoot
  <1>12. RunAndDeployment'
    <2>1. runStatus'[d] \notin TerminalRunStatus \cup {"absent"} /\ \A x \in Run : x # d => runStatus'[x] = runStatus[x]
      BY <1>2, Zenon DEF IInv, TypeOK, TerminalRunStatus
    <2> QED
      BY <1>5, <1>6, <2>1, Zenon DEF RunAndDeployment, DeploymentMatchesRun
  <1>13. AttemptFollowsLease'
    BY <1>3, Zenon DEF AttemptFollowsLease
  <1>14. PreviousIsCurrent'
    BY <1>3, <1>4, <1>6, <1>7, <1>8 DEF PreviousIsCurrent, envVars
  <1>15. HealthyIsResolved'
    BY <1>3, Zenon DEF HealthyIsResolved, envVars
  <1>16. ApplyFacts'
    <2>1. \A x \in Run : dStatus'[x] # "absent" => desired'[x] \in Revision
      BY <1>6, <1>7, Zenon DEF ApplyFacts
    <2>2. \A x \in Run : dStatus'[x] \in {"applying", "verifying"} => desired'[x] \in resolved'
      BY <1>3, <1>5, <1>6, <1>7 DEF ApplyFacts, envVars
    <2>3. d \notin applied
      BY <1>3, Zenon DEF ApplyFacts
    <2>4. \A x \in applied' : dStatus'[x] \notin BeforeApply \cup {"absent", "failed", "canceled"}
      BY <1>3, <1>6, <2>3, Zenon DEF ApplyFacts, DTypeOK
    <2> QED
      BY <2>1, <2>2, <2>4, Zenon DEF ApplyFacts
  <1> QED
    BY <1>9, <1>10, <1>11, <1>12, <1>13, <1>14, <1>15, <1>16, Zenon

(* The invariant across a confirmation. *)
LEMMA ConfirmStep ==
  ASSUME IInv, DInv, NEW d \in Run, ConfirmDeployment(d)
  PROVE  DInv'
  <1> USE DEF ConfirmDeployment, ConfirmTypedRun
  <1>1. "assigned" \in Carried /\ dStatus[d] \in Carried /\ "assigned" \in BeforeApply
    BY Zenon DEF Carried, Open, BeforeApply
  <1>2. /\ \A x \in Run : runStatus'[x] = "absent" <=> runStatus[x] = "absent"
        /\ \A x \in Run : runStatus'[x] \in TerminalRunStatus <=> runStatus[x] \in TerminalRunStatus
    BY Zenon DEF IInv, TypeOK, TerminalRunStatus
  <1>3. attemptStatus' \in [Lease -> AttemptStatus] /\ AttemptFollowsLease'
    BY Zenon DEF DInv, DTypeOK, AttemptFollowsLease, leaseVars
  <1>4. d \notin applied' /\ receipt' \subseteq Root
    BY <1>1, Zenon DEF DInv, DTypeOK, ApplyFacts, BeforeApply
  <1> QED
    BY <1>1, <1>2, <1>3, <1>4, OpenMove, Zenon

(* The invariant across a pre-assignment failure. *)
LEMMA FailPreAssignmentStep ==
  ASSUME IInv, DInv, NEW d \in Run, FailPreAssignmentDeployment(d)
  PROVE  DInv'
  <1> USE DEF FailPreAssignmentDeployment, CloseUnclaimedRun
  <1>1. "failed" \in TerminalDeployment /\ dStatus[d] \in Carried
    BY Zenon DEF Carried, Open, BeforeApply, TerminalDeployment
  <1>2. runStatus'[d] \in TerminalRunStatus /\ \A x \in Run : x # d => runStatus'[x] = runStatus[x]
    BY Zenon DEF IInv, TypeOK, TerminalRunStatus
  <1>3. attemptStatus' \in [Lease -> AttemptStatus] /\ AttemptFollowsLease'
    BY Zenon DEF DInv, DTypeOK, AttemptFollowsLease, leaseVars
  <1>4. d \notin applied /\ receipt' \subseteq Root
    BY Zenon DEF DInv, DTypeOK, ApplyFacts, BeforeApply
  <1> QED
    BY <1>1, <1>2, <1>3, <1>4, TerminalMove, Zenon

(* The invariant across a cancellation, before and after apply. *)
LEMMA CancelStep ==
  ASSUME IInv, DInv, NEW d \in Run, CancelDeploymentRequest(d)
  PROVE  DInv'
  <1> USE DEF CancelDeploymentRequest
  <1>0. d \in Root /\ d \notin Child /\ receipt' \subseteq Root
    BY DeploymentAssumption, Zenon DEF DInv, DTypeOK
  <1>1. CASE dStatus[d] \in BeforeApply
    <2>1. "canceled" \in TerminalDeployment /\ dStatus[d] \in Carried /\ dStatus[d] \notin {"applying", "verifying"}
      BY <1>1, Zenon DEF Carried, Open, BeforeApply, TerminalDeployment
    <2>2. /\ CancelRunRequest(d)
          /\ dStatus' = [dStatus EXCEPT ![d] = "canceled"]
          /\ attemptStatus' = [l \in Lease |-> IF l[1] = d /\ attemptStatus[l] = "active"
                                                THEN "canceled" ELSE attemptStatus[l]]
      BY <2>1, Zenon
    <2>3. runStatus'[d] \in TerminalRunStatus /\ \A x \in Run : x # d => runStatus'[x] = runStatus[x]
      BY <2>2, Zenon DEF IInv, TypeOK, TerminalRunStatus, CancelRunRequest
    <2>4. attemptStatus' \in [Lease -> AttemptStatus]
      BY <2>2, Zenon DEF DInv, DTypeOK, AttemptStatus, TerminalRunStatus
    <2>5. AttemptFollowsLease'
      BY <2>2, Zenon DEF DInv, AttemptFollowsLease, CancelRunRequest
    <2>6. d \notin applied
      BY <1>1, Zenon DEF DInv, ApplyFacts
    <2> QED
      BY <1>0, <2>1, <2>2, <2>3, <2>4, <2>5, <2>6, TerminalMove, Zenon
  <1>2. CASE dStatus[d] \in {"applying", "verifying"}
    <2>1. "cancel_requested" \in Carried /\ "cancel_requested" \notin BeforeApply
          /\ dStatus[d] \in Carried /\ dStatus[d] \notin BeforeApply
      BY <1>2, Zenon DEF Carried, Open, BeforeApply
    <2>2. /\ dStatus' = [dStatus EXCEPT ![d] = "cancel_requested"]
          /\ UNCHANGED <<runStatus, leaseStatus, attemptStatus>>
      BY <2>1, Zenon DEF vars, runVars, leaseVars
    <2>3. attemptStatus' \in [Lease -> AttemptStatus] /\ AttemptFollowsLease'
      BY <2>2, Zenon DEF DInv, DTypeOK, AttemptFollowsLease
    <2> QED
      BY <1>0, <2>1, <2>2, <2>3, OpenMove, Zenon
  <1> QED
    BY <1>1, <1>2, Zenon

(* The invariant across a claim, whose sweep may requeue other runs. *)
LEMMA ClaimStep ==
  ASSUME IInv, DInv, NEW n \in Runner, NEW S \in SUBSET Run, NEW d \in Run, ClaimDeployment(n, S, d)
  PROVE  DInv'
  <1> DEFINE new == IF dStatus[d] = "queued" THEN "assigned" ELSE dStatus[d]
             l == <<d, nextAttempt[d]>>
  <1>1. /\ S \subseteq Due /\ Requeue(S)[d] = "queued" /\ nextAttempt[d] <= MaxAttempt
        /\ runStatus' = [Requeue(S) EXCEPT ![d] = "running"]
        /\ leaseStatus' = [Expire(S) EXCEPT ![l] = "active"]
        /\ attemptStatus' = [ExpireAttempts(S, Expire(S)) EXCEPT ![l] = "active"]
        /\ dStatus' = [dStatus EXCEPT ![d] = new]
        /\ UNCHANGED <<envVars, desired, previous, applied, receipt>>
    BY Zenon DEF ClaimDeployment, ClaimRun
  <1>2. Requeue(S) \in [Run -> RunStatus] /\ Expire(S) \in [Lease -> LeaseStatus]
    BY <1>1, SweepFacts, Zenon
  <1>3. /\ \A x \in Run : runStatus'[x] = "absent" <=> runStatus[x] = "absent"
        /\ \A x \in Run : runStatus'[x] \in TerminalRunStatus <=> runStatus[x] \in TerminalRunStatus
        /\ runStatus[d] \notin TerminalRunStatus \cup {"absent"}
    BY <1>1, <1>2, RequeueFacts, Zenon DEF TerminalRunStatus
  <1>4. l \in Lease
    BY <1>1, LeasePair DEF IInv, TypeOK, Attempt
  <1>5. /\ ExpireAttempts(S, Expire(S)) \in [Lease -> AttemptStatus]
        /\ \A m \in Lease : ExpireAttempts(S, Expire(S))[m] = "active" <=> Expire(S)[m] = "active"
    BY <1>2, ExpireFacts, ExpireAttemptsFacts, Zenon DEF DInv
  <1>6. attemptStatus' \in [Lease -> AttemptStatus]
    BY <1>1, <1>4, <1>5, Zenon DEF AttemptStatus
  <1>7. AttemptFollowsLease'
    BY <1>1, <1>2, <1>4, <1>5, Zenon DEF AttemptFollowsLease
  <1>8. dStatus[d] \in DeploymentStatus /\ dStatus[d] \notin TerminalDeployment \cup {"rolling_back", "absent"}
    BY <1>3, Zenon DEF DInv, DTypeOK, RunAndDeployment, DeploymentMatchesRun
  <1>9. dStatus[d] \in Carried /\ new \in Carried
    BY <1>8, Zenon DEF Carried, Open, BeforeApply, DeploymentStatus
  <1>10. d \in Child => new \notin {"cancel_requested", "waiting_confirmation"}
    BY Zenon DEF DInv, ChildHasWaitingRoot
  <1>11. /\ new \in {"applying", "verifying"} => desired[d] \in resolved
         /\ new \in BeforeApply => d \notin applied
    BY Zenon DEF DInv, ApplyFacts, BeforeApply
  <1>12. receipt' \subseteq Root
    BY <1>1, Zenon DEF DInv, DTypeOK
  <1> HIDE DEF new
  <1> QED
    BY <1>1, <1>3, <1>6, <1>7, <1>9, <1>10, <1>11, <1>12, OpenMove, Zenon


-----------------------------------------------------------------------------
(* What the settlement of a finished attempt leaves behind. *)
LEMMA SettleAttemptFacts ==
  ASSUME IInv, DInv, NEW l \in Lease, NEW outcome \in TerminalRunStatus, SettleAttempt(l, outcome)
  PROVE  /\ runStatus'[l[1]] \in TerminalRunStatus
         /\ \A x \in Run : x # l[1] => runStatus'[x] = runStatus[x]
         /\ attemptStatus' \in [Lease -> AttemptStatus]
         /\ AttemptFollowsLease'
  <1>1. /\ runStatus' = [runStatus EXCEPT ![l[1]] = outcome]
        /\ leaseStatus' = [leaseStatus EXCEPT ![l] = outcome]
        /\ attemptStatus' = [attemptStatus EXCEPT ![l] = outcome]
    BY Zenon DEF SettleAttempt, SettleTypedRun, SettleTypedLease
  <1>2. outcome # "active" /\ outcome \in AttemptStatus
    BY Zenon DEF TerminalRunStatus, AttemptStatus
  <1>3. l[1] \in Run
    BY LeaseIsPair, Zenon
  <1> QED
    BY <1>1, <1>2, <1>3, Zenon DEF IInv, TypeOK, DInv, DTypeOK, AttemptFollowsLease

(* The outcome of a terminal status is one of a run's. *)
LEMMA OutcomeType == \A status : TerminalOutcome(status) \in TerminalRunStatus
  BY Zenon DEF TerminalOutcome, TerminalRunStatus

(* A deployment that does not end moves between carried statuses. *)
LEMMA AdvanceStep ==
  ASSUME IInv, DInv, NEW l \in Lease, NEW target \in DeploymentStatus, TransitionDeploymentAttempt(l, target),
         target \notin TerminalDeployment
  PROVE  DInv'
  <1> DEFINE d == l[1]
  <1> USE DEF TransitionDeploymentAttempt
  <1>1. d \in Run
    BY LeaseIsPair, Zenon
  <1>2. <<dStatus[d], target>> \in (IF d \in Child THEN RollbackChildTransition ELSE RootDeploymentTransition)
    BY Zenon DEF TransitionAllowed, DeploymentRoleTransitionAllowed
  <1>3. /\ dStatus[d] \in Carried /\ target \in Carried
        /\ d \in Child => target \notin {"cancel_requested", "waiting_confirmation"}
        /\ target \in BeforeApply => dStatus[d] \in BeforeApply
    BY <1>2, Zenon DEF RollbackChildTransition, RootDeploymentTransition, Carried, Open,
        BeforeApply,
                TerminalDeployment
  <1>4. dStatus' = [dStatus EXCEPT ![d] = target]
    BY <1>1, Zenon DEF DInv, DTypeOK
  <1>5. UNCHANGED <<runStatus, leaseStatus, attemptStatus, envVars, desired, previous, receipt>>
    BY Zenon DEF vars, runVars, leaseVars, envVars, TerminalDeployment
  <1>6. attemptStatus' \in [Lease -> AttemptStatus] /\ AttemptFollowsLease' /\ receipt' \subseteq Root
    BY <1>5, Zenon DEF DInv, DTypeOK, AttemptFollowsLease
  <1>7. target \in {"applying", "verifying"} => desired[d] \in resolved
    <2>1. CASE target = "applying"
      BY <2>1, Zenon DEF TransitionAllowed
    <2>2. CASE target = "verifying"
      <3>1. dStatus[d] = "applying"
        BY <1>2, <2>2, Zenon DEF RollbackChildTransition, RootDeploymentTransition
      <3> QED
        BY <1>1, <3>1, Zenon DEF DInv, ApplyFacts
    <2> QED
      BY <2>1, <2>2, Zenon
  <1>8. applied \subseteq applied' /\ applied' \subseteq applied \cup {d}
    BY Zenon
  <1>9. target \in BeforeApply => d \notin applied'
    BY <1>1, <1>3, Zenon DEF DInv, ApplyFacts, BeforeApply
  <1> QED
    BY <1>1, <1>3, <1>4, <1>5, <1>6, <1>7, <1>8, <1>9, OpenMove, Zenon

(* A root that stops before apply, or asks for manual intervention. *)
LEMMA StopStep ==
  ASSUME IInv, DInv, NEW l \in Lease, NEW target \in {"failed", "canceled", "manual_intervention"},
         TransitionDeploymentAttempt(l, target)
  PROVE  DInv'
  <1> DEFINE d == l[1]
  <1> USE DEF TransitionDeploymentAttempt
  <1>1. d \in Run
    BY LeaseIsPair, Zenon
  <1>2. <<dStatus[d], target>> \in (IF d \in Child THEN RollbackChildTransition ELSE RootDeploymentTransition)
    BY Zenon DEF TransitionAllowed, DeploymentRoleTransitionAllowed
  <1>3. d \notin Child
    BY <1>2, Zenon DEF RollbackChildTransition
  <1>4. /\ dStatus[d] \in Carried /\ target \in TerminalDeployment
        /\ target \in {"failed", "canceled"} => dStatus[d] \in BeforeApply
    BY <1>2, <1>3, Zenon DEF RootDeploymentTransition, Carried, Open, BeforeApply,
        TerminalDeployment
  <1>5. dStatus' = [dStatus EXCEPT ![d] = target]
    BY <1>1, <1>3, Zenon DEF DInv, DTypeOK
  <1>6. SettleAttempt(l, TerminalOutcome(target))
    BY <1>4, Zenon
  <1>7. UNCHANGED <<envVars, desired, previous, applied, receipt>>
    BY Zenon DEF envVars
  <1>8. target \in {"failed", "canceled"} => d \notin applied
    BY <1>4, Zenon DEF DInv, ApplyFacts
  <1>9. receipt' \subseteq Root
    BY <1>7, Zenon DEF DInv, DTypeOK
  <1> QED
    BY <1>1, <1>4, <1>5, <1>6, <1>7, <1>8, <1>9, OutcomeType, SettleAttemptFacts, TerminalMove

(* A root that succeeds moves its environment's healthy revision.  No      *)
(* other deployment of the environment is open: another root would share   *)
(* the index entry, and a rollback would have this root waiting.           *)
LEMMA SuccessStep ==
  ASSUME IInv, DInv, NEW l \in Lease, TransitionDeploymentAttempt(l, "succeeded")
  PROVE  DInv' /\ l[1] \in Root /\ dStatus[l[1]] = "verifying" /\ dStatus'[l[1]] = "succeeded"
  <1> DEFINE d == l[1]
  <1> USE DEF DInv
  <1>1. d \in Run
    BY LeaseIsPair, Zenon
  <1>2. <<dStatus[d], "succeeded">> \in (IF d \in Child THEN RollbackChildTransition ELSE RootDeploymentTransition)
    BY Zenon DEF TransitionDeploymentAttempt, TransitionAllowed, DeploymentRoleTransitionAllowed
  <1>3. d \in Root /\ d \notin Child
    BY <1>1, <1>2, DeploymentAssumption, Zenon DEF RollbackChildTransition
  <1>4. dStatus[d] = "verifying"
    BY <1>2, <1>3, Zenon DEF RootDeploymentTransition
  <1>5. /\ dStatus' = [dStatus EXCEPT ![d] = "succeeded"]
        /\ healthy' = [healthy EXCEPT ![EnvOf[d]] = desired[d]]
        /\ SettleAttempt(l, TerminalOutcome("succeeded"))
        /\ UNCHANGED <<confirm, rollbackSafe, resolved, desired, previous, applied, receipt>>
    BY <1>1, <1>3, Zenon DEF DTypeOK, TransitionDeploymentAttempt, TerminalDeployment
  <1>6. dStatus'[d] = "succeeded" /\ \A x \in Run : x # d => dStatus'[x] = dStatus[x]
    BY <1>1, <1>5, Zenon DEF DTypeOK
  <1>7. EnvOf[d] \in Env /\ desired[d] \in Revision /\ desired[d] \in resolved
    BY <1>1, <1>4, DeploymentAssumption, Zenon DEF ApplyFacts
  <1>8. healthy'[EnvOf[d]] = desired[d] /\ \A e \in Env : e # EnvOf[d] => healthy'[e] = healthy[e]
    BY <1>5, <1>7, Zenon DEF DTypeOK
  <1>9. /\ "succeeded" \in DeploymentStatus /\ "succeeded" \in TerminalDeployment
        /\ "succeeded" \notin Open /\ "verifying" \in Open
    BY Zenon DEF DeploymentStatus, TerminalDeployment, Open, BeforeApply
  <1>10. DTypeOK' /\ AttemptFollowsLease'
    <2>1. attemptStatus' \in [Lease -> AttemptStatus] /\ AttemptFollowsLease'
      BY <1>5, OutcomeType, SettleAttemptFacts, Zenon
    <2> QED
      BY <1>5, <1>7, <1>9, <2>1, Zenon DEF DTypeOK
  <1>11. OneOpenRoot'
    BY <1>6, <1>9, DeploymentAssumption DEF OneOpenRoot
  <1>12. \A c \in Child : dStatus[c] \in Open => EnvOf[c] # EnvOf[d]
    <2> SUFFICES ASSUME NEW c \in Child, dStatus[c] \in Open, EnvOf[c] = EnvOf[d]
                 PROVE  FALSE
      BY Zenon
    <2>1. dStatus[RollbackOf[c]] = "rolling_back" /\ RollbackOf[c] \in Root /\ EnvOf[RollbackOf[c]] = EnvOf[d]
      BY DeploymentAssumption, Zenon DEF ChildHasWaitingRoot
    <2>2. "rolling_back" \in Open
      BY Zenon DEF Open
    <2> QED
      BY <1>3, <1>4, <1>9, <2>1, <2>2, Zenon DEF OneOpenRoot
  <1>13. ChildHasWaitingRoot'
    <2> SUFFICES ASSUME NEW c \in Child
                 PROVE  /\ dStatus'[c] \in Open => dStatus'[RollbackOf[c]] = "rolling_back"
                        /\ dStatus'[c] \notin {"rolling_back", "cancel_requested", "waiting_confirmation"}
      BY Zenon DEF ChildHasWaitingRoot
    <2>1. c \in Run /\ RollbackOf[c] \in Run /\ c # d
      BY <1>3, DeploymentAssumption, Zenon
    <2> QED
      BY <1>4, <1>6, <2>1, Zenon DEF ChildHasWaitingRoot
  <1>14. RunAndDeployment'
    <2>1. runStatus'[d] \in TerminalRunStatus /\ \A x \in Run : x # d => runStatus'[x] = runStatus[x]
      BY <1>5, OutcomeType, SettleAttemptFacts, Zenon
    <2>2. runStatus'[d] # "absent"
      BY <2>1, Zenon DEF TerminalRunStatus
    <2> QED
      BY <1>6, <1>9, <2>1, <2>2 DEF RunAndDeployment, DeploymentMatchesRun
  <1>15. PreviousIsCurrent'
    <2> SUFFICES ASSUME NEW x \in Run, dStatus'[x] \in Open
                 PROVE  /\ previous'[x] = healthy'[EnvOf[x]]
                        /\ x \in Child => desired'[x] = healthy'[EnvOf[x]]
      BY Zenon DEF PreviousIsCurrent
    <2>1. x # d /\ dStatus[x] \in Open
      BY <1>6, <1>9, Zenon
    <2>2. EnvOf[x] # EnvOf[d] /\ EnvOf[x] \in Env
      BY <1>3, <1>4, <1>9, <1>12, <2>1, DeploymentAssumption, Zenon DEF OneOpenRoot
    <2> QED
      BY <1>5, <1>8, <2>1, <2>2, Zenon DEF PreviousIsCurrent
  <1>16. HealthyIsResolved'
    BY <1>5, <1>7, <1>8 DEF HealthyIsResolved
  <1>17. ApplyFacts'
    <2>1. "succeeded" \notin BeforeApply
      BY Zenon DEF BeforeApply
    <2> QED
      BY <1>5, <1>6, <1>7, <2>1, Zenon DEF ApplyFacts, DTypeOK
  <1> QED
    BY <1>3, <1>4, <1>6, <1>10, <1>11, <1>13, <1>14, <1>15, <1>16, <1>17, Zenon

(* A rollback that ends settles its waiting root with it, and commits the  *)
(* revision that is already the environment's healthy one.                 *)
LEMMA RollbackEndStep ==
  ASSUME IInv, DInv, NEW l \in Lease, NEW target \in {"rolled_back", "rollback_failed"},
         TransitionDeploymentAttempt(l, target)
  PROVE  DInv' /\ healthy' = healthy /\ dStatus[RollbackOf[l[1]]] = "rolling_back"
         /\ \A x \in Run : x \notin {l[1], RollbackOf[l[1]]} => dStatus'[x] = dStatus[x]
  <1> DEFINE c == l[1]
             d == RollbackOf[c]
  <1> USE DEF DInv
  <1>1. c \in Run
    BY LeaseIsPair, Zenon
  <1>2. <<dStatus[c], target>> \in (IF c \in Child THEN RollbackChildTransition ELSE RootDeploymentTransition)
    BY Zenon DEF TransitionDeploymentAttempt, TransitionAllowed, DeploymentRoleTransitionAllowed
  <1>3. c \in Child
    BY <1>2, Zenon DEF RootDeploymentTransition
  <1>4. dStatus[c] = "verifying"
    BY <1>2, <1>3, Zenon DEF RollbackChildTransition
  <1>5. d \in Root /\ d \in Run /\ d # c /\ EnvOf[c] = EnvOf[d] /\ EnvOf[d] \in Env
    BY <1>3, DeploymentAssumption, Zenon
  <1>6. /\ target \in TerminalDeployment /\ target \in DeploymentStatus /\ target \notin Open
        /\ target \notin {"absent", "rolling_back", "cancel_requested", "waiting_confirmation"}
        /\ target \notin BeforeApply \cup {"failed", "canceled", "applying", "verifying"}
        /\ "verifying" \in Open
    BY Zenon DEF TerminalDeployment, DeploymentStatus, Open, BeforeApply
  <1>7. /\ dStatus' = [x \in Run |-> IF x = c \/ x = d THEN target ELSE dStatus[x]]
        /\ dStatus[d] = "rolling_back"
        /\ healthy' = IF target = "rolled_back" THEN [healthy EXCEPT ![EnvOf[c]] = desired[c]] ELSE healthy
        /\ SettleAttempt(l, TerminalOutcome(target))
        /\ UNCHANGED <<confirm, rollbackSafe, resolved, desired, previous, applied, receipt>>
    BY <1>3, <1>5, <1>6, Zenon DEF TransitionDeploymentAttempt
  <1>8. healthy' = healthy
    BY <1>1, <1>3, <1>4, <1>5, <1>6, <1>7 DEF DTypeOK, PreviousIsCurrent
  <1>9. /\ dStatus'[c] = target /\ dStatus'[d] = target
        /\ \A x \in Run : x \notin {c, d} => dStatus'[x] = dStatus[x]
    BY <1>1, <1>5, <1>7, Zenon
  <1>10. /\ runStatus'[c] \in TerminalRunStatus
         /\ \A x \in Run : x # c => runStatus'[x] = runStatus[x]
         /\ attemptStatus' \in [Lease -> AttemptStatus]
         /\ AttemptFollowsLease'
    BY <1>7, OutcomeType, SettleAttemptFacts, Zenon
  <1>11. DTypeOK'
    BY <1>6, <1>7, <1>8, <1>10, Zenon DEF DTypeOK
  <1>12. OneOpenRoot'
    BY <1>6, <1>9, DeploymentAssumption DEF OneOpenRoot
  <1>13. ChildHasWaitingRoot'
    <2> SUFFICES ASSUME NEW x \in Child
                 PROVE  /\ dStatus'[x] \in Open => dStatus'[RollbackOf[x]] = "rolling_back"
                        /\ dStatus'[x] \notin {"rolling_back", "cancel_requested", "waiting_confirmation"}
      BY Zenon DEF ChildHasWaitingRoot
    <2>1. x \in Run /\ RollbackOf[x] \in Run /\ x # d /\ RollbackOf[x] # c
      BY <1>3, <1>5, DeploymentAssumption, Zenon
    <2>2. x # c => RollbackOf[x] # d
      BY <1>3, DeploymentAssumption, Zenon
    <2> QED
      BY <1>6, <1>9, <2>1, <2>2, Zenon DEF ChildHasWaitingRoot
  <1>14. RunAndDeployment'
    <2>1. runStatus'[c] # "absent"
      BY <1>10, Zenon DEF TerminalRunStatus
    <2>2. runStatus'[d] \in TerminalRunStatus /\ runStatus'[d] # "absent"
      BY <1>5, <1>7, <1>10, Zenon DEF RunAndDeployment, DeploymentMatchesRun, TerminalRunStatus
    <2> QED
      BY <1>6, <1>9, <1>10, <2>1, <2>2 DEF RunAndDeployment, DeploymentMatchesRun
  <1>15. PreviousIsCurrent'
    BY <1>6, <1>7, <1>8, <1>9, Zenon DEF PreviousIsCurrent
  <1>16. HealthyIsResolved'
    BY <1>7, <1>8, Zenon DEF HealthyIsResolved
  <1>17. ApplyFacts'
    <2>1. desired[c] \in Revision /\ desired[d] \in Revision
      BY <1>1, <1>4, <1>5, <1>7, Zenon DEF ApplyFacts
    <2> QED
      BY <1>6, <1>7, <1>9, <2>1, Zenon DEF ApplyFacts, DTypeOK
  <1> QED
    BY <1>7, <1>8, <1>9, <1>10, <1>11, <1>12, <1>13, <1>14, <1>15, <1>16, <1>17, Zenon

-----------------------------------------------------------------------------
(* A failure without a safe target ends the root loudly. *)
LEMMA ManualStep ==
  ASSUME IInv, DInv, NEW l \in Lease, FailDeploymentAndCreateRollback(l), FinishFailureManualIntervention(l)
  PROVE  DInv'
  <1> DEFINE d == l[1]
  <1> USE DEF FinishFailureManualIntervention
  <1>1. d \in Run
    BY LeaseIsPair, Zenon
  <1>2. dStatus[d] \in {"applying", "verifying", "cancel_requested"}
    BY Zenon DEF FailDeploymentAndCreateRollback
  <1>3. dStatus[d] \in Carried /\ "manual_intervention" \in TerminalDeployment
    BY <1>2, Zenon DEF Carried, Open, BeforeApply, TerminalDeployment
  <1>4. /\ runStatus'[d] \in TerminalRunStatus
        /\ \A x \in Run : x # d => runStatus'[x] = runStatus[x]
        /\ attemptStatus' \in [Lease -> AttemptStatus]
        /\ AttemptFollowsLease'
    <2>1. "failed" \in TerminalRunStatus
      BY Zenon DEF TerminalRunStatus
    <2> QED
      BY <2>1, SettleAttemptFacts, Zenon
  <1>5. receipt' \subseteq Root
    BY Zenon DEF DInv, DTypeOK
  <1> QED
    BY <1>1, <1>3, <1>4, <1>5, TerminalMove, Zenon

(* A failure with a safe target: the root waits, and its rollback is       *)
(* queued with the healthy revision.                                       *)
LEMMA CreateRollbackStep ==
  ASSUME IInv, DInv, NEW l \in Lease, NEW c \in Child, FailDeploymentAndCreateRollback(l), CreateRollback(l, c)
  PROVE  /\ DInv'
         /\ dStatus[c] = "absent"
         /\ dStatus[l[1]] \in {"applying", "verifying", "cancel_requested"}
         /\ \A x \in Run : x \notin {c, l[1]} => dStatus'[x] = dStatus[x]
  <1> DEFINE d == l[1]
  <1> USE DEF DInv
  <1>1. d \in Root /\ d \in Run /\ c \in Run /\ d # c /\ d = RollbackOf[c] /\ d \notin Child
        /\ EnvOf[c] = EnvOf[d] /\ EnvOf[d] \in Env
    BY LeaseIsPair, DeploymentAssumption, Zenon DEF FailDeploymentAndCreateRollback, CreateRollback
  <1>2. dStatus[d] \in {"applying", "verifying", "cancel_requested"}
    BY Zenon DEF FailDeploymentAndCreateRollback
  <1>3. /\ runStatus' = [runStatus EXCEPT ![d] = "failed", ![c] = "queued"]
        /\ leaseStatus' = [leaseStatus EXCEPT ![l] = "failed"]
        /\ runStatus[c] = "absent"
        /\ attemptStatus' = [attemptStatus EXCEPT ![l] = "failed"]
    BY Zenon DEF CreateRollback, FailTypedRunAndQueue, SettleTypedLease
  <1>4. /\ dStatus' = [dStatus EXCEPT ![d] = "rolling_back", ![c] = "queued"]
        /\ desired' = [desired EXCEPT ![c] = previous[d]]
        /\ previous' = [previous EXCEPT ![c] = healthy[EnvOf[d]]]
        /\ UNCHANGED <<envVars, applied, receipt>>
        /\ d \in applied
    BY Zenon DEF CreateRollback
  <1>5. dStatus[c] = "absent"
    BY <1>1, <1>3, Zenon DEF RunAndDeployment
  <1>6. previous[d] \in Revision /\ previous[d] = healthy[EnvOf[d]]
    BY <1>1, Zenon DEF CreateRollback, RollbackUnsafe, DTypeOK
  <1>7. /\ dStatus'[d] = "rolling_back" /\ dStatus'[c] = "queued"
        /\ \A x \in Run : x \notin {c, d} => dStatus'[x] = dStatus[x]
    BY <1>1, <1>4, Zenon DEF DTypeOK
  <1>8. /\ desired'[c] = previous[d] /\ previous'[c] = healthy[EnvOf[d]]
        /\ \A x \in Run : x # c => desired'[x] = desired[x] /\ previous'[x] = previous[x]
    BY <1>1, <1>4, Zenon DEF DTypeOK
  <1>9. /\ "rolling_back" \in Open /\ "queued" \in Open /\ dStatus[d] \in Open
        /\ "rolling_back" \in DeploymentStatus /\ "queued" \in DeploymentStatus
        /\ "queued" \notin TerminalDeployment \cup {"rolling_back"}
        /\ "rolling_back" \notin BeforeApply
    BY <1>2, Zenon DEF Open, BeforeApply, DeploymentStatus, TerminalDeployment
  <1>10. DTypeOK'
    <2>1. "failed" \in AttemptStatus
      BY Zenon DEF AttemptStatus, TerminalRunStatus
    <2> QED
      BY <1>1, <1>3, <1>4, <1>6, <1>9, <2>1, Zenon DEF DTypeOK, envVars
  <1>11. OneOpenRoot'
    <2>1. \A x \in Root : x \in Run /\ x # c
      BY <1>1, DeploymentAssumption, Zenon
    <2>2. \A x \in Root : dStatus'[x] \in Open => dStatus[x] \in Open
      BY <1>7, <1>9, <2>1, Zenon
    <2> QED
      BY <2>2, Zenon DEF OneOpenRoot
  <1>12. ChildHasWaitingRoot'
    <2> SUFFICES ASSUME NEW x \in Child
                 PROVE  /\ dStatus'[x] \in Open => dStatus'[RollbackOf[x]] = "rolling_back"
                        /\ dStatus'[x] \notin {"rolling_back", "cancel_requested", "waiting_confirmation"}
      BY Zenon DEF ChildHasWaitingRoot
    <2>1. x \in Run /\ RollbackOf[x] \in Run /\ x # d /\ RollbackOf[x] # c
      BY <1>1, DeploymentAssumption, Zenon
    <2>2. x # c => RollbackOf[x] # d
      BY <1>1, DeploymentAssumption, Zenon
    <2> QED
      BY <1>1, <1>7, <2>1, <2>2, Zenon DEF ChildHasWaitingRoot
  <1>13. RunAndDeployment'
    <2>1. /\ runStatus'[d] = "failed" /\ runStatus'[c] = "queued"
          /\ \A x \in Run : x \notin {c, d} => runStatus'[x] = runStatus[x]
      BY <1>1, <1>3, Zenon DEF IInv, TypeOK
    <2> QED
      BY <1>7, <1>9, <2>1 DEF RunAndDeployment, DeploymentMatchesRun, TerminalRunStatus
  <1>14. AttemptFollowsLease'
    BY <1>3, Zenon DEF AttemptFollowsLease, IInv, TypeOK, DTypeOK
  <1>15. PreviousIsCurrent'
    <2> SUFFICES ASSUME NEW x \in Run, dStatus'[x] \in Open
                 PROVE  /\ previous'[x] = healthy'[EnvOf[x]]
                        /\ x \in Child => desired'[x] = healthy'[EnvOf[x]]
      BY Zenon DEF PreviousIsCurrent
    <2>1. healthy' = healthy
      BY <1>4, Zenon DEF envVars
    <2>2. x # c => dStatus[x] \in Open
      BY <1>7, <1>9, Zenon
    <2> QED
      BY <1>1, <1>6, <1>8, <2>1, <2>2, Zenon DEF PreviousIsCurrent
  <1>16. HealthyIsResolved'
    BY <1>4, Zenon DEF HealthyIsResolved, envVars
  <1>17. ApplyFacts'
    <2>1. \A x \in Run : dStatus'[x] # "absent" => desired'[x] \in Revision
      BY <1>2, <1>6, <1>7, <1>8, Zenon DEF ApplyFacts
    <2>2. \A x \in Run : dStatus'[x] \in {"applying", "verifying"} => desired'[x] \in resolved'
      BY <1>4, <1>7, <1>8 DEF ApplyFacts, envVars
    <2>3. c \notin applied /\ applied' = applied
      BY <1>4, <1>5, Zenon DEF ApplyFacts
    <2>4. \A x \in applied' : dStatus'[x] \notin BeforeApply \cup {"absent", "failed", "canceled"}
      BY <1>7, <1>9, <2>3 DEF ApplyFacts, DTypeOK
    <2> QED
      BY <2>1, <2>2, <2>4, Zenon DEF ApplyFacts
  <1> QED
    BY <1>2, <1>5, <1>7, <1>10, <1>11, <1>12, <1>13, <1>14, <1>15, <1>16, <1>17, Zenon

-----------------------------------------------------------------------------
(* Which targets a transition can have. *)
LEMMA TransitionCases ==
  ASSUME NEW l \in Lease, NEW target \in DeploymentStatus
  PROVE  \/ target \notin TerminalDeployment
         \/ target \in {"failed", "canceled", "manual_intervention"}
         \/ target = "succeeded"
         \/ target \in {"rolled_back", "rollback_failed"}
  BY Zenon DEF TerminalDeployment

(* Every action keeps the invariant, given that of the leases. *)
THEOREM NextDInv == IInv /\ DInv /\ [DNext]_dVars => DInv'
  <1> SUFFICES ASSUME IInv, DInv, [DNext]_dVars PROVE DInv'
    BY Zenon
  <1>1. ASSUME NEW d \in Run, NEW v \in Revision, CreateDeploymentRequest(d, v) PROVE DInv'
    BY <1>1, CreateStep, Zenon
  <1>2. ASSUME NEW d \in Run, ConfirmDeployment(d) PROVE DInv'
    BY <1>2, ConfirmStep, Zenon
  <1>3. ASSUME NEW d \in Run, FailPreAssignmentDeployment(d) PROVE DInv'
    BY <1>3, FailPreAssignmentStep
  <1>4. ASSUME NEW n \in Runner, NEW S \in SUBSET Run, NEW d \in Run, ClaimDeployment(n, S, d) PROVE DInv'
    BY <1>4, ClaimStep, Zenon
  <1>5. ASSUME NEW S \in SUBSET Run, ExpireDeploymentLeases(S) PROVE DInv'
    BY <1>5, ExpireDeploymentLeasesStep, Zenon
  <1>6. ASSUME InvalidateDeploymentLeasesForRestore PROVE DInv'
    BY <1>6, RestoreStep, Zenon
  <1>7. ASSUME NEW l \in Lease, ResolveRevisionProvenance(l) PROVE DInv'
    BY <1>7, ResolveStep, Zenon
  <1>8. ASSUME NEW l \in Lease, NEW target \in DeploymentStatus, TransitionDeploymentAttempt(l, target)
        PROVE  DInv'
    BY <1>8, TransitionCases, AdvanceStep, StopStep, SuccessStep, RollbackEndStep, Zenon
  <1>9. ASSUME NEW d \in Run, CancelDeploymentRequest(d) PROVE DInv'
    BY <1>9, CancelStep
  <1>10. ASSUME NEW l \in Lease, FailDeploymentAndCreateRollback(l) PROVE DInv'
    BY <1>10, ManualStep, CreateRollbackStep, Zenon DEF FailDeploymentAndCreateRollback
  <1>11. ASSUME LeaseStep PROVE DInv'
    BY <1>11, LeaseStepStep, Zenon
  <1>12. ASSUME UNCHANGED dVars PROVE DInv'
    <2>1. UNCHANGED <<runStatus, leaseStatus, envVars, depVars>>
      BY <1>12, Zenon DEF dVars, vars, runVars, leaseVars
    <2>2. attemptStatus' \in [Lease -> AttemptStatus] /\ AttemptFollowsLease'
      BY <2>1, Zenon DEF depVars, DInv, DTypeOK, AttemptFollowsLease
    <2> QED
      BY <2>1, <2>2, DeploymentsUntouched, Zenon DEF envVars, depVars, DInv, DTypeOK
  <1> QED
    BY <1>1, <1>2, <1>3, <1>4, <1>5, <1>6, <1>7, <1>8, <1>9, <1>10, <1>11, <1>12, DueIsRun,
        Zenon DEF DNext

(* The invariant of leases and deployments holds throughout. *)
THEOREM DInvariance == DSpec => [](IInv /\ DInv)
  <1>1. DInit => IInv /\ DInv
    BY InitIInv, InitDInv, Zenon DEF DInit
  <1>2. IInv /\ DInv /\ [DNext]_dVars => (IInv /\ DInv)'
    BY LeaseInvStep, NextDInv, Zenon
  <1> QED
    BY <1>1, <1>2, PTL DEF DSpec

-----------------------------------------------------------------------------
(* Two active leases in one environment would belong to two deployments    *)
(* whose runs are running: two open roots, or a rollback beside a root     *)
(* that does not wait for it.                                              *)
LEMMA OneActor == IInv /\ DInv => OneActorPerEnvironment
  <1> SUFFICES ASSUME IInv, DInv, NEW l \in Lease, NEW m \in Lease,
                      leaseStatus[l] = "active", leaseStatus[m] = "active", EnvOf[l[1]] = EnvOf[m[1]]
               PROVE  l = m
    BY Zenon DEF OneActorPerEnvironment
  <1> DEFINE d == l[1]
             e == m[1]
  <1>1. /\ d \in Run /\ runStatus[d] = "running" /\ nextAttempt[d] = l[2] + 1
        /\ e \in Run /\ runStatus[e] = "running" /\ nextAttempt[e] = m[2] + 1
    BY HolderFacts, Zenon
  <1>2. \A x \in Run : runStatus[x] = "running" => dStatus[x] \in Open /\ dStatus[x] # "rolling_back"
    BY Zenon DEF DInv, DTypeOK, RunAndDeployment, DeploymentMatchesRun, TerminalRunStatus,
        DeploymentStatus
  <1>3. "rolling_back" \in Open
    BY Zenon DEF Open
  <1>4. \A c \in Child : dStatus[c] \in Open =>
           /\ RollbackOf[c] \in Root /\ EnvOf[RollbackOf[c]] = EnvOf[c]
           /\ dStatus[RollbackOf[c]] = "rolling_back"
    BY DeploymentAssumption, Zenon DEF DInv, ChildHasWaitingRoot
  <1>5. d = e
    <2>1. CASE d \in Root /\ e \in Root
      BY <1>1, <1>2, <2>1, Zenon DEF DInv, OneOpenRoot
    <2>2. CASE d \in Root /\ e \in Child
      BY <1>1, <1>2, <1>3, <1>4, <2>2 DEF DInv, OneOpenRoot
    <2>3. CASE d \in Child /\ e \in Root
      BY <1>1, <1>2, <1>3, <1>4, <2>3 DEF DInv, OneOpenRoot
    <2>4. CASE d \in Child /\ e \in Child
      <3>1. RollbackOf[d] = RollbackOf[e]
        BY <1>1, <1>2, <1>3, <1>4, <2>4 DEF DInv, OneOpenRoot
      <3> QED
        BY <2>4, <3>1, DeploymentAssumption, Zenon
    <2> QED
      BY <1>1, <2>1, <2>2, <2>3, <2>4, DeploymentAssumption, Zenon
  <1>6. l[2] = m[2]
    BY <1>1, <1>5, LeaseIsPair, AttemptType
  <1> QED
    BY <1>5, <1>6, LeaseIsPair, Zenon

(* Deployments implement the leases, so every theorem of RunLeases holds   *)
(* of a deployment's run.                                                  *)
THEOREM DeploymentsImplementLeases == DSpec => Spec
  <1>1. DInit => Init
    BY Zenon DEF DInit
  <1>2. [DNext]_dVars => [Next]_vars
    BY StepIsLeaseStep, Zenon DEF dVars
  <1> QED
    BY <1>1, <1>2, PTL DEF DSpec, Spec

(* At most one runner at a time has authority over an environment. *)
THEOREM OneActorTheorem == DSpec => []OneActorPerEnvironment
  BY DInvariance, OneActor, PTL

(* The recorded previous revision of an open deployment, and the target of *)
(* an open rollback, are the environment's healthy revision.               *)
THEOREM PreviousTheorem == DSpec => []PreviousIsCurrent
  <1>1. DInv => PreviousIsCurrent
    BY Zenon DEF DInv
  <1> QED
    BY DInvariance, <1>1, PTL

(* A healthy revision has resolved provenance. *)
THEOREM HealthyTheorem == DSpec => []HealthyIsResolved
  <1>1. DInv => HealthyIsResolved
    BY Zenon DEF DInv
  <1> QED
    BY DInvariance, <1>1, PTL

(* A deployment that was told to apply is never failed or canceled. *)
THEOREM AppliedTheorem == DSpec => []AppliedIsNotDiscarded
  <1>1. DInv => AppliedIsNotDiscarded
    BY Zenon DEF DInv, ApplyFacts, AppliedIsNotDiscarded
  <1> QED
    BY DInvariance, <1>1, PTL

(* A deployment's run is over exactly when the deployment is over or waits *)
(* for its rollback.                                                       *)
THEOREM MatchTheorem == DSpec => []DeploymentMatchesRun
  <1>1. DInv => DeploymentMatchesRun
    BY Zenon DEF DInv, RunAndDeployment
  <1> QED
    BY DInvariance, <1>1, PTL

(* Attempts and leases are active together. *)
THEOREM AttemptTheorem == DSpec => []AttemptFollowsLease
  <1>1. DInv => AttemptFollowsLease
    BY Zenon DEF DInv
  <1> QED
    BY DInvariance, <1>1, PTL

-----------------------------------------------------------------------------
(* One step never changes a deployment that is over. *)
LEMMA TerminalDeploymentStep ==
  ASSUME IInv, DInv, DNext, NEW x \in Run, dStatus[x] \in TerminalDeployment
  PROVE  dStatus'[x] = dStatus[x]
  <1>0. /\ dStatus \in [Run -> DeploymentStatus]
        /\ dStatus[x] \notin Open \cup {"absent"}
        /\ {"rolling_back", "queued", "assigned", "applying", "verifying", "waiting_confirmation",
            "cancel_requested", "preparing"} \subseteq Open
        /\ BeforeApply \subseteq Open
    BY Zenon DEF DInv, DTypeOK, TerminalDeployment, Open, BeforeApply
  <1>1. ASSUME NEW d \in Run, NEW v \in Revision, CreateDeploymentRequest(d, v) PROVE dStatus'[x] = dStatus[x]
    <2>1. dStatus[d] = "absent"
      BY <1>1, Zenon DEF CreateDeploymentRequest, CreateTypedRun, DInv, RunAndDeployment
    <2> QED
      BY <1>0, <1>1, <2>1, Zenon DEF CreateDeploymentRequest
  <1>2. ASSUME NEW d \in Run, ConfirmDeployment(d) PROVE dStatus'[x] = dStatus[x]
    BY <1>0, <1>2, Zenon DEF ConfirmDeployment
  <1>3. ASSUME NEW d \in Run, FailPreAssignmentDeployment(d) PROVE dStatus'[x] = dStatus[x]
    BY <1>0, <1>3, Zenon DEF FailPreAssignmentDeployment
  <1>4. ASSUME NEW n \in Runner, NEW S \in SUBSET Run, NEW d \in Run, ClaimDeployment(n, S, d)
        PROVE  dStatus'[x] = dStatus[x]
    BY <1>0, <1>4, Zenon DEF ClaimDeployment
  <1>5. ASSUME NEW S \in SUBSET Run, ExpireDeploymentLeases(S) PROVE dStatus'[x] = dStatus[x]
    BY <1>5, Zenon DEF ExpireDeploymentLeases
  <1>6. ASSUME InvalidateDeploymentLeasesForRestore PROVE dStatus'[x] = dStatus[x]
    BY <1>6, Zenon DEF InvalidateDeploymentLeasesForRestore
  <1>7. ASSUME NEW l \in Lease, ResolveRevisionProvenance(l) PROVE dStatus'[x] = dStatus[x]
    BY <1>7, Zenon DEF ResolveRevisionProvenance, depVars
  <1>8. ASSUME NEW l \in Lease, NEW target \in DeploymentStatus, TransitionDeploymentAttempt(l, target)
        PROVE  dStatus'[x] = dStatus[x]
    <2>1. <<dStatus[l[1]], target>>
             \in (IF l[1] \in Child THEN RollbackChildTransition ELSE RootDeploymentTransition)
      BY <1>8, Zenon DEF TransitionDeploymentAttempt, TransitionAllowed,
          DeploymentRoleTransitionAllowed
    <2>2. dStatus[l[1]] \in Open
      BY <1>0, <2>1, Zenon DEF RollbackChildTransition, RootDeploymentTransition
    <2>3. \A y \in Root : (target \in TerminalDeployment /\ l[1] \in Child /\ y = RollbackOf[l[1]])
             => dStatus[y] = "rolling_back"
      BY <1>8, Zenon DEF TransitionDeploymentAttempt
    <2>4. dStatus' = [y \in Run |-> IF y = l[1] \/ (target \in TerminalDeployment /\ l[1] \in Child /\ y = RollbackOf[l[1]])
                                    THEN target ELSE dStatus[y]]
      BY <1>8, Zenon DEF TransitionDeploymentAttempt
    <2>5. l[1] \in Child => RollbackOf[l[1]] \in Root
      BY DeploymentAssumption, Zenon
    <2> QED
      BY <1>0, <2>2, <2>3, <2>4, <2>5, Zenon
  <1>9. ASSUME NEW d \in Run, CancelDeploymentRequest(d) PROVE dStatus'[x] = dStatus[x]
    BY <1>0, <1>9, Zenon DEF CancelDeploymentRequest
  <1>10. ASSUME NEW l \in Lease, FailDeploymentAndCreateRollback(l) PROVE dStatus'[x] = dStatus[x]
    <2>1. dStatus[l[1]] \in Open
      BY <1>0, <1>10, Zenon DEF FailDeploymentAndCreateRollback
    <2>2. CASE FinishFailureManualIntervention(l)
      BY <1>0, <2>1, <2>2, Zenon DEF FinishFailureManualIntervention
    <2>3. CASE \E c \in Child : CreateRollback(l, c)
      BY <1>0, <1>10, <2>1, <2>3, CreateRollbackStep, Zenon
    <2> QED
      BY <1>10, <2>2, <2>3, Zenon DEF FailDeploymentAndCreateRollback
  <1>11. ASSUME LeaseStep PROVE dStatus'[x] = dStatus[x]
    BY <1>11, Zenon DEF LeaseStep, depVars
  <1> QED
    BY <1>1, <1>2, <1>3, <1>4, <1>5, <1>6, <1>7, <1>8, <1>9, <1>10, <1>11, DueIsRun, Zenon DEF DNext

(* A finished deployment never changes again. *)
THEOREM TerminalDeploymentTheorem == DSpec => TerminalDeploymentIsFinal
  <1> DEFINE Kept == \A d \in Run : dStatus[d] \in TerminalDeployment => dStatus'[d] = dStatus[d]
  <1>1. IInv /\ DInv /\ [DNext]_dVars => [Kept]_dVars
    BY TerminalDeploymentStep, Zenon
  <1>2. DSpec => [][Kept]_dVars
    BY <1>1, DInvariance, PTL DEF DSpec
  <1> QED
    BY <1>2, Zenon DEF TerminalDeploymentIsFinal

(* One step moves a healthy revision only by a root's success. *)
LEMMA HealthyStep ==
  ASSUME IInv, DInv, DNext, NEW e \in Env, healthy'[e] # healthy[e]
  PROVE  \E d \in Root : EnvOf[d] = e /\ dStatus[d] = "verifying" /\ dStatus'[d] = "succeeded"
  <1>1. PICK l \in Lease, target \in DeploymentStatus : TransitionDeploymentAttempt(l, target)
    BY Zenon DEF DNext, CreateDeploymentRequest, ConfirmDeployment, FailPreAssignmentDeployment,
        ClaimDeployment,
           ExpireDeploymentLeases, InvalidateDeploymentLeasesForRestore, ResolveRevisionProvenance,
           CancelDeploymentRequest, FailDeploymentAndCreateRollback, FinishFailureManualIntervention,
           CreateRollback, LeaseStep, envVars
  <1>2. target \in {"succeeded", "rolled_back"}
    BY <1>1, Zenon DEF TransitionDeploymentAttempt
  <1>3. CASE target = "rolled_back"
    BY <1>1, <1>3, RollbackEndStep, Zenon
  <1>4. CASE target = "succeeded"
    <2>1. l[1] \in Root /\ dStatus[l[1]] = "verifying" /\ dStatus'[l[1]] = "succeeded"
      BY <1>1, <1>4, SuccessStep, Zenon
    <2>2. healthy' = [healthy EXCEPT ![EnvOf[l[1]]] = desired[l[1]]]
      BY <1>1, <1>4, Zenon DEF TransitionDeploymentAttempt
    <2>3. EnvOf[l[1]] = e
      BY <2>2, Zenon DEF DInv, DTypeOK
    <2> QED
      BY <2>1, <2>3, Zenon
  <1> QED
    BY <1>2, <1>3, <1>4, Zenon

(* Only a root that verified and succeeded moves the healthy revision. *)
THEOREM HealthyMovesTheorem == DSpec => OnlySuccessMovesHealthy
  <1> DEFINE Moved == \A e \in Env : healthy'[e] # healthy[e] =>
                        \E d \in Root : EnvOf[d] = e /\ dStatus[d] = "verifying" /\ dStatus'[d] = "succeeded"
  <1>1. IInv /\ DInv /\ [DNext]_dVars => [Moved]_dVars
    BY HealthyStep, Zenon
  <1>2. DSpec => [][Moved]_dVars
    BY <1>1, DInvariance, PTL DEF DSpec
  <1> QED
    BY <1>2, Zenon DEF OnlySuccessMovesHealthy

=============================================================================
