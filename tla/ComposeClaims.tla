--------------------------- MODULE ComposeClaims ---------------------------
(***************************************************************************)
(* The runner's side of one Compose deployment and of the rollback it may  *)
(* need: resolveComposeClaim of internal/runnerruntime/                    *)
(* provenance_resolver.go with the engine of compose_engine.go, against    *)
(* the server operations that Deployments models in full.                  *)
(*                                                                         *)
(* A runner process works on one claim at a time, step by step; the server *)
(* may meanwhile expire its lease or accept a cancellation, a request or   *)
(* its answer may be lost, a command may fail, and the process may crash   *)
(* and be started again.  The host holds what outlives the process: the    *)
(* containers of the Compose project, the reconciliation file, the journal *)
(* of provenance, and a docker command whose parent is gone.               *)
(***************************************************************************)
EXTENDS Naturals, DeploymentStates

CONSTANTS Applies,    \* revisions that Compose can bring up
          Healthy,    \* revisions whose health endpoint answers
          MaxFaults,  \* lost requests, failed commands, crashes, lapsed leases
          Cancels,    \* whether the deployment may be canceled
          Orphans     \* whether the process may die under a docker command

Dep == {"root", "child"}

(* The root brings in a new revision; its rollback goes back to the last   *)
(* healthy one.                                                            *)
Target(d) == IF d = "root" THEN "new" ELSE "old"

Revision == {"old", "new"}

VARIABLES
    status,    \* deployments.status
    lease,     \* the deployment whose run has an active lease
    safe,      \* the root has a healthy revision to go back to
    resolved,  \* revisions with resolved provenance
    receipt,   \* the root has a cancellation receipt
    pc, work,  \* where the runner process is, and the deployment it claimed
    seen,      \* plan.Status of the claim
    expect,    \* the status a failure after apply is reported from
    outer,     \* the failure is settled after the callback returned
    stopped,   \* the watcher saw the receipt and canceled the operation
    ended,     \* the supervisor's context is over
    host,      \* what the project's containers run
    file,      \* the revision in the reconciliation file
    up,        \* the deployment whose "docker compose up" is running
    journal,   \* the deployment whose provenance is journaled
    touched,   \* deployments that ran "docker compose up"
    faults

serverVars == <<status, lease, safe, resolved, receipt>>
claimVars == <<work, seen, expect, outer, stopped, ended>>
hostVars == <<host, file, up, journal, touched>>
vars == <<serverVars, pc, claimVars, hostVars, faults>>

Location == {"down", "idle", "plan", "prepare", "resolve", "journal", "report", "ack", "images",
             "reconcile", "toApplying", "adopt", "apply", "applying", "record", "toVerifying",
             "resumeVerifying", "verify", "finish", "postFail", "error", "preFail", "preFail2",
             "preFail3", "cancelRollback"}

CTypeOK ==
    /\ status \in [Dep -> {"absent", "queued", "assigned", "preparing", "applying", "verifying",
                           "cancel_requested", "rolling_back"} \cup TerminalDeployment]
    /\ lease \in Dep \cup {"none"} /\ work \in Dep /\ up \in Dep \cup {"none"}
    /\ journal \in Dep \cup {"none"}
    /\ pc \in Location
    /\ seen \in {"assigned", "preparing", "applying", "verifying", "cancel_requested"}
    /\ expect \in {"applying", "verifying"}
    /\ resolved \subseteq Revision /\ touched \subseteq Dep
    /\ host \in Revision \cup {"none", "mixed"} /\ file \in Revision \cup {"none"}
    /\ {safe, receipt, outer, stopped, ended} \subseteq BOOLEAN
    /\ faults \in 0..MaxFaults

(* The environment is new, or runs the old revision; its reconciliation    *)
(* file is missing when the working directory was replaced.                *)
Init ==
    /\ status = [d \in Dep |-> IF d = "root" THEN "queued" ELSE "absent"]
    /\ lease = "none" /\ receipt = FALSE
    /\ safe \in BOOLEAN
    /\ host \in IF safe THEN {"old"} ELSE {"old", "none"}
    /\ file \in {"none", host}
    /\ resolved = {host} \ {"none"}
    /\ pc = "idle" /\ work = "root" /\ seen = "assigned" /\ expect = "applying"
    /\ outer = FALSE /\ stopped = FALSE /\ ended = FALSE
    /\ up = "none" /\ journal = "none" /\ touched = {} /\ faults = 0

Fault == faults < MaxFaults /\ faults' = faults + 1

(* A command of the operation fails by itself, or because its context was  *)
(* canceled.                                                               *)
CommandFails == \/ (stopped \/ ended) /\ UNCHANGED faults
                \/ Fault

CommandWorks == ~stopped /\ ~ended /\ UNCHANGED faults

Goto(l) == pc' = l

-----------------------------------------------------------------------------
(* The server.  Every request carries the claim's fence, which the server  *)
(* honours while the lease of that claim is active; the supervisor refuses *)
(* to send one after its local deadline.                                   *)
Authorized == lease = work /\ ~ended

(* Mutant: the table is asked about the status in the request. *)
TransitionRequested(from, target) ==
    /\ Authorized
    /\ <<from, target>> \in IF work = "child" THEN RollbackChildTransition ELSE RootDeploymentTransition
    /\ target = "applying" => Target(work) \in resolved

TransitionAllowed(from, target) ==
    /\ Authorized
    /\ status[work] = from
    /\ <<from, target>> \in IF work = "child" THEN RollbackChildTransition ELSE RootDeploymentTransition
    /\ target = "applying" => Target(work) \in resolved

(* A terminal target settles the lease, and a rollback also its root. *)
CommitTransition(target) ==
    /\ status' = IF target \in TerminalDeployment /\ work = "child"
                 THEN [d \in Dep |-> target] ELSE [status EXCEPT ![work] = target]
    /\ lease' = IF target \in TerminalDeployment THEN "none" ELSE lease
    /\ UNCHANGED <<safe, resolved, receipt>>

(* One request without a retry.  It is refused, lost, or committed, and    *)
(* the answer of a committed one may be lost as well.                      *)
Transition(from, target, next, failed) ==
    \/ /\ TransitionAllowed(from, target)
       /\ CommitTransition(target)
       /\ \/ Goto(next) /\ UNCHANGED faults
          \/ Goto(failed) /\ Fault
    \/ /\ Goto(failed)
       /\ UNCHANGED serverVars
       /\ IF TransitionAllowed(from, target) THEN Fault ELSE UNCHANGED faults

(* FailDeploymentAndCreateRollback: a rollback where one is safe, a case   *)
(* for an operator otherwise.                                              *)
FailAndRollback(from, next, failed) ==
    LET Allowed == Authorized /\ status["root"] = from
    IN  \/ /\ Allowed
           /\ status' = IF safe THEN [status EXCEPT !["root"] = "rolling_back", !["child"] = "queued"]
                        ELSE [status EXCEPT !["root"] = "manual_intervention"]
           /\ lease' = "none"
           /\ UNCHANGED <<safe, resolved, receipt>>
           /\ \/ Goto(next) /\ UNCHANGED faults
              \/ Goto(failed) /\ Fault
        \/ /\ Goto(failed)
           /\ UNCHANGED serverVars
           /\ IF Allowed THEN Fault ELSE UNCHANGED faults

(* CancelDeploymentRequest: before apply it ends the deployment and its    *)
(* lease, afterwards it leaves a receipt for the runner.                   *)
CancelDeployment ==
    /\ Cancels /\ ~receipt
    /\ \/ /\ status["root"] \in {"queued", "assigned", "preparing"}
          /\ status' = [status EXCEPT !["root"] = "canceled"]
          /\ lease' = "none"
       \/ /\ status["root"] \in {"applying", "verifying"}
          /\ status' = [status EXCEPT !["root"] = "cancel_requested"]
          /\ UNCHANGED lease
    /\ receipt' = TRUE
    /\ UNCHANGED <<safe, resolved, pc, claimVars, hostVars, faults>>

(* Mutant: the sweep passes over the leases of a runner that is up. *)
LeaseOfDeadRunnerExpires ==
    /\ lease # "none"
    /\ pc = "down"
    /\ lease' = "none"
    /\ UNCHANGED <<status, safe, resolved, receipt, pc, claimVars, hostVars, faults>>

(* The lease of a process that is gone, or has moved on, expires; that of  *)
(* a working process only after its supervisor gave up, with a margin in   *)
(* which a running command is killed.                                      *)
LeaseExpires ==
    /\ lease # "none"
    /\ pc \in {"down", "idle"} \/ (ended /\ pc # "applying")
    /\ lease' = "none"
    /\ UNCHANGED <<status, safe, resolved, receipt, pc, claimVars, hostVars, faults>>

(* Renewals fail until the local deadline, or the lease watcher finds the  *)
(* lease revoked.                                                          *)
SupervisorEnds ==
    /\ pc \notin {"down", "idle"} /\ ~ended
    /\ IF lease = work THEN Fault ELSE UNCHANGED faults
    /\ ended' = TRUE
    /\ UNCHANGED <<serverVars, pc, work, seen, expect, outer, stopped, hostVars>>

-----------------------------------------------------------------------------
(* The process starts, and before it claims anything replays the           *)
(* provenance it journaled: under a live lease the report is sent again,   *)
(* otherwise the entry is dropped.                                         *)
Restart ==
    /\ pc = "down"
    /\ Goto("idle")
    /\ resolved' = IF /\ journal # "none"
                      /\ lease = journal
                      /\ status[journal] \in {"assigned", "preparing", "applying", "verifying"}
                   THEN resolved \cup {Target(journal)} ELSE resolved
    /\ journal' = "none"
    /\ UNCHANGED <<status, lease, safe, receipt, claimVars, host, file, up, touched, faults>>

(* Mutant: a first claim does not assign the deployment. *)
ClaimQueued(d) ==
    /\ pc = "idle" /\ lease = "none"
    /\ status[d] \in {"queued", "assigned", "preparing", "applying", "verifying", "cancel_requested"}
    /\ lease' = d /\ work' = d
    /\ Goto("plan")
    /\ stopped' = FALSE /\ outer' = FALSE /\ ended' = FALSE
    /\ UNCHANGED <<status, safe, resolved, receipt, seen, expect, hostVars, faults>>

(* A claim takes the deployment over wherever the last one left it. *)
Claim(d) ==
    /\ pc = "idle" /\ lease = "none"
    /\ status[d] \in {"queued", "assigned", "preparing", "applying", "verifying", "cancel_requested"}
    /\ status' = [status EXCEPT ![d] = IF @ = "queued" THEN "assigned" ELSE @]
    /\ lease' = d /\ work' = d
    /\ Goto("plan")
    /\ stopped' = FALSE /\ outer' = FALSE /\ ended' = FALSE
    /\ UNCHANGED <<safe, resolved, receipt, seen, expect, hostVars, faults>>

(* resolveComposeClaim up to the operation: an error here ends the         *)
(* process, and a receipt that is already there is only replayed.          *)
ReadPlan ==
    /\ pc = "plan"
    /\ \/ /\ Authorized
          /\ UNCHANGED faults
          /\ seen' = status[work]
          /\ Goto(CASE seen' = "assigned" -> "prepare"
                    [] seen' = "cancel_requested" -> "cancelRollback"
                    [] OTHER -> "resolve")
       \/ /\ IF Authorized THEN Fault ELSE UNCHANGED faults
          /\ Goto("down")
          /\ UNCHANGED seen
    /\ UNCHANGED <<serverVars, work, expect, outer, stopped, ended, hostVars>>

Prepare ==
    /\ pc = "prepare"
    /\ Transition("assigned", "preparing", "resolve", "down")
    /\ seen' = "preparing"
    /\ UNCHANGED <<work, expect, outer, stopped, ended, hostVars>>

(* The status watcher polls while the operation runs.  A rollback has no   *)
(* watcher.                                                                *)
WatcherSeesReceipt ==
    /\ work = "root" /\ Authorized /\ ~stopped
    /\ pc \notin {"down", "idle", "plan", "prepare", "error", "preFail", "cancelRollback"}
    /\ status["root"] = "cancel_requested"
    /\ stopped' = TRUE
    /\ UNCHANGED <<serverVars, pc, work, seen, expect, outer, ended, hostVars, faults>>

-----------------------------------------------------------------------------
(* The operation.  resolveDeploymentProvenanceWithCredentialWorkspace      *)
(* checks the commit out, prepares the secrets and renders the Compose     *)
(* file; whatever goes wrong there goes to the handler after the callback. *)
ResolveProvenance ==
    /\ pc = "resolve"
    /\ \/ CommandWorks /\ Goto("journal")
       \/ CommandFails /\ Goto("error")
    /\ UNCHANGED <<serverVars, claimVars, hostVars>>

(* commitProvenanceJournal: append, report, acknowledge. *)
AppendProvenance ==
    /\ pc = "journal"
    /\ \/ journal' = work /\ Goto("report") /\ UNCHANGED faults
       \/ Fault /\ Goto("error") /\ UNCHANGED journal
    /\ UNCHANGED <<serverVars, claimVars, host, file, up, touched>>

(* The report is retried until it is answered. *)
ReportProvenance ==
    /\ pc = "report"
    /\ IF Authorized /\ status[work] \in {"assigned", "preparing", "applying", "verifying"}
       THEN resolved' = resolved \cup {Target(work)} /\ Goto("ack")
       ELSE UNCHANGED resolved /\ Goto("error")
    /\ UNCHANGED <<status, lease, safe, receipt, claimVars, hostVars, faults>>

AckProvenance ==
    /\ pc = "ack"
    /\ \/ journal' = "none" /\ Goto("images") /\ UNCHANGED faults
       \/ Fault /\ Goto("error") /\ UNCHANGED journal
    /\ UNCHANGED <<serverVars, claimVars, host, file, up, touched>>

(* A failure of the callback: before apply it ends the deployment, from    *)
(* apply on it asks for the rollback.                                      *)
FailFrom(s) ==
    IF s = "preparing" THEN Goto("preFail") /\ UNCHANGED expect
    ELSE Goto("postFail") /\ expect' = s

(* EnsureAvailability. *)
EnsureAvailability ==
    /\ pc = "images"
    /\ \/ CommandWorks /\ Goto("reconcile") /\ UNCHANGED expect
       \/ CommandFails /\ FailFrom(seen)
    /\ UNCHANGED <<serverVars, work, seen, outer, stopped, ended, hostVars>>

(* Reconcile compares the file with the target, and only then asks Docker  *)
(* whether the project has containers; a project without any is an error.  *)
Reconciled == [found |-> file = Target(work) /\ host # "none",
               error |-> file = Target(work) /\ host = "none"]

(* What follows depends on the status the claim found. *)
Reconcile ==
    /\ pc = "reconcile"
    /\ \/ /\ CommandWorks /\ ~Reconciled.error
          /\ CASE seen = "verifying" /\ ~Reconciled.found -> Goto("postFail") /\ expect' = "verifying"
               [] seen = "verifying" /\ Reconciled.found -> Goto("verify") /\ UNCHANGED expect
               [] seen = "applying" -> /\ Goto(IF Reconciled.found THEN "resumeVerifying" ELSE "apply")
                                       /\ UNCHANGED expect
               [] OTHER -> /\ Goto(IF Reconciled.found THEN "adopt" ELSE "toApplying")
                           /\ UNCHANGED expect
       \/ /\ CommandFails \/ (Reconciled.error /\ UNCHANGED faults)
          /\ FailFrom(seen)
    /\ UNCHANGED <<serverVars, work, seen, outer, stopped, ended, hostVars>>

(* Mutant: Compose is run before the server has recorded it. *)
ApplyThenReport ==
    /\ pc \in {"toApplying", "adopt"}
    /\ Transition("preparing", "applying", IF pc = "adopt" THEN "resumeVerifying" ELSE "apply", "error")
    /\ touched' = IF pc = "toApplying" THEN touched \cup {work} ELSE touched
    /\ UNCHANGED <<claimVars, host, file, up, journal>>

ToApplying ==
    /\ pc \in {"toApplying", "adopt"}
    /\ Transition("preparing", "applying", IF pc = "adopt" THEN "resumeVerifying" ELSE "apply", "error")
    /\ UNCHANGED <<claimVars, hostVars>>

(* Apply: "docker compose up", which may stop half way. *)
StartApply ==
    /\ pc = "apply"
    /\ \/ /\ CommandWorks
          /\ Goto("applying") /\ UNCHANGED expect
          /\ up' = work /\ touched' = touched \cup {work}
       \/ /\ CommandFails
          /\ Goto("postFail") /\ expect' = "applying"
          /\ UNCHANGED <<up, touched>>
    /\ UNCHANGED <<serverVars, work, seen, outer, stopped, ended, host, file, journal>>

FinishApply ==
    /\ pc = "applying"
    /\ \/ /\ CommandWorks /\ Target(work) \in Applies
          /\ host' = Target(work)
          /\ Goto("record") /\ UNCHANGED expect
       \/ /\ CommandFails \/ (Target(work) \notin Applies /\ UNCHANGED faults)
          /\ host' \in {host, "mixed"} \cup (Applies \cap {Target(work)})
          /\ Goto("postFail") /\ expect' = "applying"
    /\ up' = "none"
    /\ UNCHANGED <<serverVars, work, seen, outer, stopped, ended, file, journal, touched>>

(* The end of Apply reads the containers back and writes the file. *)
WriteReconciliationState ==
    /\ pc = "record"
    /\ \/ /\ CommandWorks
          /\ file' = Target(work)
          /\ Goto(IF seen = "applying" THEN "resumeVerifying" ELSE "toVerifying")
          /\ UNCHANGED expect
       \/ /\ CommandFails
          /\ UNCHANGED file
          /\ Goto("postFail") /\ expect' = "applying"
    /\ UNCHANGED <<serverVars, work, seen, outer, stopped, ended, host, up, journal, touched>>

(* Only a first apply turns a lost answer into a failure report. *)
ToVerifying ==
    /\ \/ /\ pc = "toVerifying"
          /\ Transition("applying", "verifying", "verify", "postFail")
          /\ expect' = "applying"
       \/ /\ pc = "resumeVerifying"
          /\ Transition("applying", "verifying", "verify", "error")
          /\ UNCHANGED expect
    /\ UNCHANGED <<work, seen, outer, stopped, ended, hostVars>>

(* Mutant: any healthy answer will do. *)
HealthyAnswer == host # "none"

(* The health check wants the revision of the target in the answer. *)
HealthPasses == host = Target(work) /\ host \in Healthy

Verify ==
    /\ pc = "verify"
    /\ \/ CommandWorks /\ HealthPasses /\ Goto("finish") /\ UNCHANGED expect
       \/ /\ CommandFails \/ (~HealthPasses /\ UNCHANGED faults)
          /\ Goto("postFail") /\ expect' = "verifying"
    /\ UNCHANGED <<serverVars, work, seen, outer, stopped, ended, hostVars>>

Finish ==
    /\ pc = "finish"
    /\ Transition("verifying", IF work = "child" THEN "rolled_back" ELSE "succeeded", "idle", "error")
    /\ UNCHANGED <<claimVars, hostVars>>

-----------------------------------------------------------------------------
(* composePostApplyFailure: a rollback is reported failed from where it    *)
(* was, a root is handed to a rollback.                                    *)
PostApplyFailure ==
    /\ pc = "postFail"
    /\ IF work = "child" THEN Transition(expect, "rollback_failed", "idle", "error")
       ELSE FailAndRollback(expect, "idle", "error")
    /\ UNCHANGED <<claimVars, hostVars>>

(* composePreApplyFailure.  A rollback has to walk through its states.  An *)
(* error inside the callback still reaches the handler after it.           *)
PreApplyFailure ==
    LET Failed == IF outer THEN "down" ELSE "error"
    IN  /\ \/ /\ pc = "preFail" /\ work = "root"
              /\ Transition("preparing", "failed", "idle", Failed)
           \/ /\ pc = "preFail" /\ work = "child"
              /\ Transition("preparing", "applying", "preFail2", Failed)
           \/ pc = "preFail2" /\ Transition("applying", "verifying", "preFail3", Failed)
           \/ pc = "preFail3" /\ Transition("verifying", "rollback_failed", "idle", Failed)
        /\ UNCHANGED <<claimVars, hostVars>>

(* The error handler after the callback: a cancellation that the watcher   *)
(* or a second look at the status finds is replayed; an attempt that was   *)
(* fenced off ends quietly; anything else is settled as before apply.      *)
HandleError ==
    LET Receipt == work = "root" /\ (stopped \/ (Authorized /\ status["root"] = "cancel_requested"))
    IN  /\ pc = "error"
        /\ \/ Receipt /\ Goto("cancelRollback") /\ UNCHANGED <<outer, faults>>
           \/ ~Receipt /\ ended /\ Goto("idle") /\ UNCHANGED <<outer, faults>>
           \/ /\ ~stopped /\ ~ended
              /\ IF Receipt THEN Fault ELSE UNCHANGED faults
              /\ Goto("preFail") /\ outer' = TRUE
        /\ UNCHANGED <<serverVars, work, seen, expect, stopped, ended, hostVars>>

CancellationRollback ==
    /\ pc = "cancelRollback"
    /\ FailAndRollback("cancel_requested", "idle", "down")
    /\ UNCHANGED <<claimVars, hostVars>>

-----------------------------------------------------------------------------
(* The process dies.  Nothing ends the process group of a docker command   *)
(* that it was running.                                                    *)
Crash ==
    /\ pc \notin {"down", "idle"}
    /\ pc = "applying" => Orphans
    /\ Fault
    /\ Goto("down")
    /\ UNCHANGED <<serverVars, claimVars, hostVars>>

OrphanEnds ==
    /\ up # "none" /\ pc # "applying"
    /\ host' \in {"mixed"} \cup (Applies \cap {Target(up)})
    /\ up' = "none"
    /\ UNCHANGED <<serverVars, pc, claimVars, file, journal, touched, faults>>

(* The claim loop polls, and nothing can be claimed. *)
PollFindsNothing == pc = "idle" /\ (lease # "none" \/ status["root"] \in TerminalDeployment) /\ UNCHANGED vars

Step ==
    \/ ReadPlan \/ Prepare \/ ResolveProvenance \/ AppendProvenance \/ ReportProvenance
    \/ AckProvenance \/ EnsureAvailability \/ Reconcile \/ ToApplying \/ StartApply \/ FinishApply
    \/ WriteReconciliationState \/ ToVerifying \/ Verify \/ Finish \/ PostApplyFailure
    \/ PreApplyFailure \/ HandleError \/ CancellationRollback

Next ==
    \/ Step \/ Restart \/ LeaseExpires \/ SupervisorEnds \/ WatcherSeesReceipt \/ CancelDeployment
    \/ Crash \/ OrphanEnds \/ PollFindsNothing
    \/ \E d \in Dep : Claim(d)

(* The process keeps running and is started again when it ends, leases run *)
(* out, and the claim loop polls.  Nothing forces a fault.                 *)
Fairness ==
    /\ WF_vars(Step) /\ WF_vars(Restart) /\ WF_vars(LeaseExpires)
    /\ WF_vars(\E d \in Dep : Claim(d))

Spec == Init /\ [][Next]_vars /\ Fairness

-----------------------------------------------------------------------------
(* A deployment that is reported as succeeded, or a rollback as rolled     *)
(* back, finds the project's containers running exactly its revision at    *)
(* that moment, whether this claim brought it up, an earlier one did, or   *)
(* the reconciliation file let it skip that.                               *)
ReportedRevisionRuns ==
    [][\A d \in Dep : (status'[d] # status[d] /\ status'[d] = IF d = "root" THEN "succeeded" ELSE "rolled_back")
           => host = Target(d)]_vars

(* A root that ends failed or canceled never ran "docker compose up": the  *)
(* comment after the callback says "no mutation can have occurred", and a  *)
(* cancellation before apply ends the deployment on the same ground.       *)
DiscardedLeftHostAlone ==
    status["root"] \in {"failed", "canceled"} => "root" \notin touched

(* A cancellation accepted after apply is never overtaken: the root ends   *)
(* rolled back or with an operator, not as an ordinary success or failure, *)
(* although the runner may be anywhere in its operation.                   *)
CancellationWins ==
    (receipt /\ "root" \in touched) => status["root"] \notin {"succeeded", "failed", "canceled"}

(* Reconcile says that "a matching verified state is a retry/restart       *)
(* no-op": the claim skips its apply only where its target runs.           *)
SkippedApplyRuns == pc = "adopt" => host = Target(work)

(* runBoundedProvenanceCommand says that a command must not "keep a        *)
(* process alive beyond an attempt boundary".                              *)
CommandsEndWithAttempt == up # "none" => lease = up

Unsettled == status["root"] \notin TerminalDeployment
=============================================================================
