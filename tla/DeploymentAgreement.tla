------------------------ MODULE DeploymentAgreement ------------------------
(***************************************************************************)
(* The deployment service over either store.  Every call is made to both   *)
(* PostgresStore and MemoryStore; any call that was accepted once may come *)
(* again at any later time, because the runner and the browser repeat what *)
(* they got no answer to.                                                  *)
(*                                                                         *)
(* The same operations as MemoryStore carries them out: loops over slices  *)
(* under one mutex, in the order its code asks its questions.              *)
(*                                                                         *)
(* The deployment tables and the statements of PostgresStore on them, one  *)
(* operator per query, in one record that the calls hand on.  A call gives *)
(* back the rows and what the caller is told.  A deployment stands for its *)
(* idempotency key, its id and its task run; an attempt for its number,    *)
(* its lease, its runner and its fence.                                    *)
(***************************************************************************)
EXTENDS Naturals, Sequences, FiniteSets, DeploymentStates

CONSTANTS
    Roots,          \* the keys of requested deployments
    ChildOf,        \* the rollback of a deployment, "none" where the bound ends
    Revisions,
    Observed,       \* the content a runner finds for each revision
    Confirm, Safe,  \* the environment asks for confirmation; allows rollback
    MaxAttempts

Deps == DOMAIN ChildOf

NoRow == [status |-> "absent", desired |-> "none", prev |-> "none", code |-> "", health |-> "nil",
          of |-> "none", req |-> ""]

EmptyTables ==
    [service |-> FALSE, env |-> [made |-> FALSE, healthy |-> "none"],
     rev |-> [r \in Revisions |-> [state |-> "absent", identity |-> "none"]],
     dep |-> [x \in Deps |-> NoRow], order |-> <<>>,
     run |-> [x \in Deps |-> "absent"], lease |-> [x \in Deps |-> <<>>], late |-> [x \in Deps |-> FALSE],
     att |-> [x \in Deps |-> <<>>], trans |-> [x \in Deps |-> {}],
     prov |-> {}, cancel |-> [x \in Deps |-> "none"]]

Told(d, code) == [rows |-> d, code |-> code]
Ok(d) == Told(d, "ok")

Live(d, x, n) == n = Len(d.lease[x]) /\ n > 0 /\ d.lease[x][n] = "active" /\ ~ d.late[x]

----------------------------------------------------------------------------
(* The catalog.                                                             *)

ServiceRow(d) == [d EXCEPT !.service = TRUE]
EnvironmentRow(d) == [d EXCEPT !.env.made = TRUE]
RevisionRow(d, r) == [d EXCEPT !.rev[r].state = "pending"]

GetServiceByID(d) == d.service
GetEnvironmentByID(d) == d.env.made
KnownRevision(d, r) == d.rev[r].state # "absent"

CreateService(d) == IF GetServiceByID(d) THEN Told(d, "conflict") ELSE Ok(ServiceRow(d))

CreateEnvironment(d) ==
    IF ~ GetServiceByID(d) THEN Told(d, "not_found")
    ELSE IF GetEnvironmentByID(d) THEN Told(d, "conflict") ELSE Ok(EnvironmentRow(d))

CreateRevision(d, r) ==
    IF ~ GetServiceByID(d) THEN Told(d, "not_found")
    ELSE IF KnownRevision(d, r) THEN Told(d, "conflict") ELSE Ok(RevisionRow(d, r))

----------------------------------------------------------------------------
(* A request, its confirmation and the failure before an assignment.        *)

GetDeploymentByEnvironmentKey(d, x) == d.dep[x].status # "absent"

CreateDeploymentRun(d, x, status) == [d EXCEPT !.run[x] = status]

(* The unique index over open roots and the trigger that fills in the       *)
(* healthy revision of the environment.                                     *)
OpenRoot(d) == {x \in Deps : d.dep[x].status \notin TerminalDeployment \cup {"absent"} /\ d.dep[x].of = "none"}

CreateDeployment(d, x, rev, status) ==
    [d EXCEPT !.dep[x] = [NoRow EXCEPT !.status = status, !.desired = rev, !.prev = d.env.healthy],
              !.order = Append(@, x)]

CreateDeploymentRequest(d, x, rev) ==
    IF ~ GetEnvironmentByID(d) \/ ~ KnownRevision(d, rev) THEN Told(d, "not_found")
    ELSE IF GetDeploymentByEnvironmentKey(d, x)
         THEN Told(d, IF d.dep[x].desired = rev THEN "ok" ELSE "conflict")
    ELSE IF OpenRoot(d) # {} THEN Told(d, "conflict")
    ELSE Ok(CreateDeployment(CreateDeploymentRun(d, x, IF Confirm THEN "waiting_approval" ELSE "queued"),
                             x, rev, IF Confirm THEN "waiting_confirmation" ELSE "queued"))

QueueConfirmedDeploymentRun(d, x) ==
    IF d.run[x] = "waiting_approval" THEN [d EXCEPT !.run[x] = "queued"] ELSE d

ConfirmedRow(d, x) == [d EXCEPT !.dep[x].status = "assigned"]

ConfirmDeployment(d, x) ==
    IF d.dep[x].status # "waiting_confirmation" THEN Told(d, "conflict")
    ELSE Ok(QueueConfirmedDeploymentRun(ConfirmedRow(d, x), x))

FailPreAssignmentDeploymentRun(d, x) == [d EXCEPT !.run[x] = "failed"]

RefusedRow(d, x, code) == [d EXCEPT !.dep[x] = [@ EXCEPT !.status = "failed", !.code = code]]

FailPreAssignmentDeployment(d, x, code) ==
    IF d.dep[x].status = "absent" THEN Told(d, "not_found")
    ELSE IF d.dep[x].status = "failed" THEN Told(d, IF d.dep[x].code = code THEN "ok" ELSE "conflict")
    ELSE IF d.dep[x].status \notin {"queued", "waiting_confirmation"} \/ d.run[x] \notin {"queued", "waiting_approval"}
         THEN Told(d, "conflict")
    ELSE Ok(FailPreAssignmentDeploymentRun(RefusedRow(d, x, code), x))

----------------------------------------------------------------------------
(* A lease, and its end by the clock.                                       *)

CreateDeploymentAttemptForLease(d, x) == [d EXCEPT !.att[x] = Append(@, "active")]

AssignDeploymentForLease(d, x) ==
    IF d.dep[x].status = "queued" THEN [d EXCEPT !.dep[x].status = "assigned"] ELSE d

ClaimDeployment(d, x) ==
    IF d.run[x] # "queued" \/ Len(d.lease[x]) = MaxAttempts THEN Told(d, "not_found")
    ELSE Ok(AssignDeploymentForLease(CreateDeploymentAttemptForLease(
              [d EXCEPT !.run[x] = "running", !.lease[x] = Append(@, "active"), !.late[x] = FALSE], x), x))

Last(s, v) == [s EXCEPT ![Len(s)] = v]

ExpireDeploymentAttemptsForRun(d, x) == [d EXCEPT !.att[x] = Last(@, "expired")]

ExpireLease(d, x) ==
    IF d.run[x] # "running" \/ ~ d.late[x] THEN Told(d, "not_found")
    ELSE Ok(ExpireDeploymentAttemptsForRun([d EXCEPT !.run[x] = "queued", !.lease[x] = Last(@, "expired")], x))

----------------------------------------------------------------------------
(* The transitions a runner asks for.  A request is a record of the attempt, *)
(* the statuses it goes from and to, the health and the code.               *)

LockDeploymentAttempt(d, x, n) == n \in DOMAIN d.att[x]

GetDeploymentTransitionReplay(d, x, key) == {t \in d.trans[x] : t.key = key}
CreateDeploymentTransitionReplay(d, x, t) == [d EXCEPT !.trans[x] = @ \cup {t}]

FencedTransitionDeployment(d, x, t) ==
    [d EXCEPT !.dep[x] = [@ EXCEPT !.status = t.to, !.health = t.health, !.code = t.code]]

CommitDeploymentHealthyRevision(d, x) == [d EXCEPT !.env.healthy = d.dep[x].desired]

FinishRollbackSource(d, x, status) == [d EXCEPT !.dep[x].status = status]

CompleteDeploymentLease(d, x, n, status) == [d EXCEPT !.lease[x][n] = status]
CompleteDeploymentRun(d, x, status) == [d EXCEPT !.run[x] = status]
FinishDeploymentAttempt(d, x, n, status) == [d EXCEPT !.att[x][n] = status]

(* Mutant: a pending revision counts. *)
MutAnyState(d, rev) == d.rev[rev].state # "absent"
IsRevisionProvenanceResolved(d, rev) == d.rev[rev].state = "resolved"

deploymentTerminalOutcome(to) ==
    CASE to \in {"succeeded", "rolled_back"} -> "succeeded"
      [] to \in {"failed", "rollback_failed", "manual_intervention"} -> "failed"
      [] to = "canceled" -> "canceled"
      [] OTHER -> "none"

Settle(d, x, n, status) ==
    FinishDeploymentAttempt(CompleteDeploymentRun(CompleteDeploymentLease(d, x, n, status), x, status), x, n, status)

Proves(d, x, t) == t.to = "succeeded" \/ (t.to = "rolled_back" /\ d.dep[x].of # "none")

RoleTransitions(child) == IF child THEN RollbackChildTransition ELSE RootDeploymentTransition

ApplyTransition(d, x, t) ==
    LET moved   == FencedTransitionDeployment(d, x, t)
        proven  == IF Proves(d, x, t) THEN CommitDeploymentHealthyRevision(moved, x) ELSE moved
        rolled  == IF d.dep[x].of # "none" /\ t.to \in {"rolled_back", "rollback_failed"}
                   THEN FinishRollbackSource(proven, d.dep[x].of, t.to) ELSE proven
        outcome == deploymentTerminalOutcome(t.to)
        ended   == IF outcome = "none" THEN rolled ELSE Settle(rolled, x, t.n, outcome)
    IN CreateDeploymentTransitionReplay(ended, x, t)

(* Mutant: the lease is asked for before the receipt. *)
MutLeaseFirst(d, x, t) ==
    IF d.dep[x].status = "absent" \/ ~ LockDeploymentAttempt(d, x, t.n) \/ ~ Live(d, x, t.n) THEN Told(d, "not_found")
    ELSE IF GetDeploymentTransitionReplay(d, x, t.key) # {}
         THEN Told(d, IF t \in d.trans[x] THEN "ok" ELSE "conflict")
    ELSE IF \/ <<d.dep[x].status, t.to>> \notin RoleTransitions(d.dep[x].of # "none") \/ d.dep[x].status # t.from
            \/ (Proves(d, x, t) /\ t.health # "yes")
            \/ (t.to = "applying" /\ ~ IsRevisionProvenanceResolved(d, d.dep[x].desired)) THEN Told(d, "conflict")
    ELSE Ok(ApplyTransition(d, x, t))

(* A receipt is answered before the lease is asked for: an exact repeat is  *)
(* acknowledged although the lease has ended.                               *)
TransitionDeploymentAttempt(d, x, t) ==
    IF d.dep[x].status = "absent" \/ ~ LockDeploymentAttempt(d, x, t.n) THEN Told(d, "not_found")
    ELSE IF GetDeploymentTransitionReplay(d, x, t.key) # {}
         THEN Told(d, IF t \in d.trans[x] THEN "ok" ELSE "conflict")
    ELSE IF ~ Live(d, x, t.n) THEN Told(d, "not_found")
    ELSE IF \/ <<d.dep[x].status, t.to>> \notin RoleTransitions(d.dep[x].of # "none") \/ d.dep[x].status # t.from
            \/ (Proves(d, x, t) /\ t.health # "yes")
            \/ (t.to = "applying" /\ ~ IsRevisionProvenanceResolved(d, d.dep[x].desired)) THEN Told(d, "conflict")
    ELSE IF deploymentTerminalOutcome(t.to) # "none" /\ (d.att[x][t.n] # "active" \/ d.run[x] # "running")
         THEN Told(d, "conflict")
    ELSE Ok(ApplyTransition(d, x, t))

----------------------------------------------------------------------------
(* Provenance.                                                              *)

GetProvenanceResolutionReplay(d, x, key) == {p \in d.prov : p.x = x /\ p.key = key}
LockProvenanceAttempt(d, x, n) == d.dep[x].status # "absent" /\ n \in DOMAIN d.att[x]
ProvenanceAttemptIsActive(d, x, n) ==
    Live(d, x, n) /\ d.dep[x].status \in {"assigned", "preparing", "applying", "verifying"}
CreateProvenanceResolutionReplay(d, p) == [d EXCEPT !.prov = @ \cup {p}]

(* No two resolved revisions of a service have the same content.            *)
IdentityTaken(d, rev, identity) ==
    \E r \in Revisions \ {rev} : d.rev[r].state = "resolved" /\ d.rev[r].identity = identity

ResolvedRow(d, rev, identity) == [d EXCEPT !.rev[rev] = [state |-> "resolved", identity |-> identity]]

ResolveRevisionProvenance(d, p) ==
    LET rev == d.dep[p.x].desired IN
    IF GetProvenanceResolutionReplay(d, p.x, p.key) # {} THEN Told(d, IF p \in d.prov THEN "ok" ELSE "conflict")
    ELSE IF ~ LockProvenanceAttempt(d, p.x, p.n) \/ ~ ProvenanceAttemptIsActive(d, p.x, p.n) THEN Told(d, "not_found")
    ELSE IF d.rev[rev].state = "resolved"
         THEN IF d.rev[rev].identity = p.identity THEN Ok(CreateProvenanceResolutionReplay(d, p)) ELSE Told(d, "conflict")
    ELSE IF IdentityTaken(d, rev, p.identity) THEN Told(d, "conflict")
    ELSE Ok(CreateProvenanceResolutionReplay(ResolvedRow(d, rev, p.identity), p))

----------------------------------------------------------------------------
(* Cancellation.                                                            *)

GetDeploymentCancellation(d, x) == d.cancel[x]
CreateDeploymentCancellation(d, x, req) == [d EXCEPT !.cancel[x] = req]
CancelDeploymentBeforeApply(d, x) == [d EXCEPT !.dep[x].status = "canceled"]
(* Mutant: only the receipt is kept. *)
MutReceiptOnly(d, x) == d
RequestDeploymentCancellation(d, x) == [d EXCEPT !.dep[x].status = "cancel_requested"]

EndActive(s, v) == [i \in DOMAIN s |-> IF s[i] = "active" THEN v ELSE s[i]]
(* Mutant: the lease outlives its run. *)
MutLeasesStay(d, x) == d
CancelDeploymentActiveLeases(d, x) == [d EXCEPT !.lease[x] = EndActive(@, "canceled")]
CancelDeploymentActiveAttempts(d, x) == [d EXCEPT !.att[x] = EndActive(@, "canceled")]
CancelDeploymentRun(d, x) == [d EXCEPT !.run[x] = "canceled"]

CancelDeploymentRequest(d, x, req) ==
    LET noted == CreateDeploymentCancellation(d, x, req) IN
    IF d.dep[x].status = "absent" THEN Told(d, "not_found")
    ELSE IF d.dep[x].of # "none" THEN Told(d, "conflict")
    ELSE IF GetDeploymentCancellation(d, x) # "none" THEN Told(d, IF d.cancel[x] = req THEN "ok" ELSE "conflict")
    ELSE IF d.dep[x].status \in {"queued", "waiting_confirmation", "assigned", "preparing"}
         THEN Ok(CancelDeploymentRun(CancelDeploymentActiveAttempts(CancelDeploymentActiveLeases(
                    CancelDeploymentBeforeApply(noted, x), x), x), x))
    ELSE IF d.dep[x].status \in {"applying", "verifying"} THEN Ok(RequestDeploymentCancellation(noted, x))
    ELSE Told(d, "conflict")

----------------------------------------------------------------------------
(* The failure after apply: f is a record of the deployment, the attempt,   *)
(* the status expected and the request id.                                  *)

FailureReceipt(f, to) ==
    [key |-> <<0, f.req>>, n |-> f.n, from |-> f.from, to |-> to, health |-> "nil", code |-> "failed"]

LockRollbackEnvironment(d) == [safe |-> Safe, healthy |-> d.env.healthy]

RollbackUnsafe(d, x) ==
    \/ d.dep[x].prev = "none" \/ ~ LockRollbackEnvironment(d).safe
    \/ LockRollbackEnvironment(d).healthy = "none" \/ LockRollbackEnvironment(d).healthy # d.dep[x].prev

(* The insert of the child, with the trigger that requires its source to be *)
(* rolling back and to have reached the target.                             *)
CreateRollbackDeploymentIfAbsent(d, x, req) ==
    [d EXCEPT !.dep[ChildOf[x]] = [NoRow EXCEPT !.status = "queued", !.desired = d.dep[x].prev, !.prev = d.env.healthy,
                                                !.of = x, !.req = req],
              !.run[ChildOf[x]] = "queued", !.order = Append(@, ChildOf[x])]

ReplayMatches(d, f, to) == d.att[f.x][f.n] = "failed" /\ FailureReceipt(f, to) \in d.trans[f.x]

replayFailedDeployment(d, f, to) ==
    IF f.n \notin DOMAIN d.att[f.x] THEN Told(d, "not_found")
    ELSE Told(d, IF ReplayMatches(d, f, to) THEN "ok" ELSE "conflict")

finishFailureManualIntervention(d, f) ==
    LET t == FailureReceipt(f, "manual_intervention") IN
    CreateDeploymentTransitionReplay(Settle(FencedTransitionDeployment(d, f.x, t), f.x, f.n, "failed"), f.x, t)

StartRollback(d, f) ==
    LET t == FailureReceipt(f, "rolling_back") IN
    CreateRollbackDeploymentIfAbsent(
        CreateDeploymentTransitionReplay(Settle(FencedTransitionDeployment(d, f.x, t), f.x, f.n, "failed"), f.x, t),
        f.x, f.req)

(* Mutant: only a child is a receipt. *)
MutNoManualReceipt(d, f) ==
    LET x == f.x child == ChildOf[x] IN
    IF f.from = "cancel_requested" /\ (d.cancel[x] = "none" \/ d.cancel[x] # f.req) THEN Told(d, "conflict")
    ELSE IF child # "none" /\ d.dep[child].status # "absent" /\ d.dep[child].req = f.req
         THEN replayFailedDeployment(d, f, "rolling_back")
    ELSE IF d.dep[x].status = "absent" \/ ~ LockDeploymentAttempt(d, x, f.n) \/ ~ Live(d, x, f.n) THEN Told(d, "not_found")
    ELSE IF d.dep[x].status # f.from \/ d.att[x][f.n] # "active" THEN Told(d, "conflict")
    ELSE IF RollbackUnsafe(d, x) THEN Ok(finishFailureManualIntervention(d, f))
    ELSE IF child = "none" THEN Told(d, "bound")
    ELSE Ok(StartRollback(d, f))

FailDeploymentAndCreateRollback(d, f) ==
    LET x == f.x child == ChildOf[x] IN
    IF f.from = "cancel_requested" /\ (GetDeploymentCancellation(d, x) = "none" \/ d.cancel[x] # f.req)
    THEN Told(d, "conflict")
    ELSE IF child # "none" /\ d.dep[child].status # "absent" /\ d.dep[child].req = f.req
         THEN replayFailedDeployment(d, f, "rolling_back")
    ELSE IF d.dep[x].status = "absent" THEN Told(d, "not_found")
    ELSE IF d.dep[x].status = "manual_intervention" THEN replayFailedDeployment(d, f, "manual_intervention")
    ELSE IF ~ LockDeploymentAttempt(d, x, f.n) \/ ~ Live(d, x, f.n) THEN Told(d, "not_found")
    ELSE IF d.dep[x].status # f.from \/ d.att[x][f.n] # "active" THEN Told(d, "conflict")
    ELSE IF RollbackUnsafe(d, x) THEN Ok(finishFailureManualIntervention(d, f))
    ELSE IF child = "none" THEN Told(d, "bound")
    ELSE Ok(StartRollback(d, f))

----------------------------------------------------------------------------
(* Reads.                                                                   *)

ListServices(d) == {k \in {"service"} : d.service}
ListEnvironments(d) == {e \in {d.env} : e.made}
ListRevisions(d) == {r \in Revisions : KnownRevision(d, r)}
GetDeployment(d, x) == d.dep[x]
ListDeployments(d) == {x \in Deps : d.dep[x].status # "absent"}

PlanRow(d, x, n) == d.dep[x].status # "absent" /\ n \in DOMAIN d.att[x] /\ Live(d, x, n)

(* What the plan tells the runner: a resolved revision is named by its      *)
(* content, an unresolved one by the reference that was asked for.          *)
DeploymentPlan(d, x, n) ==
    IF ~ PlanRow(d, x, n) THEN [found |-> FALSE]
    ELSE [found |-> TRUE, status |-> d.dep[x].status, ref |-> d.rev[d.dep[x].desired].identity,
          prev |-> d.dep[x].prev, of |-> d.dep[x].of, cancel |-> d.cancel[x]]

-----------------------------------------------------------------------------
Answered(d, code) == [rows |-> d, code |-> code]

MemCreateService(d) ==
    IF d.service THEN Answered(d, "conflict") ELSE Answered([d EXCEPT !.service = TRUE], "ok")

MemCreateEnvironment(d) ==
    CASE ~ d.service  -> Answered(d, "not_found")
      [] d.env.made   -> Answered(d, "conflict")
      [] OTHER        -> Answered([d EXCEPT !.env = [made |-> TRUE, healthy |-> "none"]], "ok")

MemCreateRevision(d, r) ==
    CASE ~ d.service                   -> Answered(d, "not_found")
      [] d.rev[r].state # "absent"     -> Answered(d, "conflict")
      [] OTHER -> Answered([d EXCEPT !.rev[r] = [state |-> "pending", identity |-> "none"]], "ok")

(* The slice is walked from its oldest row: the first row that has the key  *)
(* or is still open decides.                                                *)
Decides(d, x) ==
    {i \in DOMAIN d.order : d.order[i] = x \/ d.dep[d.order[i]].status \notin TerminalDeployment}

MemCreateDeploymentRequest(d, x, rev) ==
    LET first == d.order[CHOOSE i \in Decides(d, x) : \A j \in Decides(d, x) : i <= j] IN
    IF ~ d.env.made \/ d.rev[rev].state = "absent" THEN Answered(d, "not_found")
    ELSE IF Decides(d, x) # {}
         THEN Answered(d, IF first = x /\ d.dep[x].desired = rev THEN "ok" ELSE "conflict")
    ELSE Answered([d EXCEPT !.run[x] = IF Confirm THEN "waiting_approval" ELSE "queued",
                            !.dep[x] = [NoRow EXCEPT !.status = IF Confirm THEN "waiting_confirmation" ELSE "queued",
                                                     !.desired = rev, !.prev = d.env.healthy],
                            !.order = Append(@, x)], "ok")

MemConfirmDeployment(d, x) ==
    CASE d.dep[x].status = "absent" -> Answered(d, "not_found")
      [] d.dep[x].status # "waiting_confirmation" -> Answered(d, "conflict")
      [] OTHER -> Answered([d EXCEPT !.dep[x].status = "assigned",
                                     !.run[x] = IF @ = "waiting_approval" THEN "queued" ELSE @], "ok")

MemFailPreAssignmentDeployment(d, x, code) ==
    LET row == d.dep[x] IN
    CASE row.status = "absent" -> Answered(d, "not_found")
      [] row.status = "failed" -> Answered(d, IF row.code = code THEN "ok" ELSE "conflict")
      [] row.status \in {"queued", "waiting_confirmation"} /\ d.run[x] \in {"queued", "waiting_approval"} ->
            Answered([d EXCEPT !.dep[x] = [@ EXCEPT !.status = "failed", !.code = code], !.run[x] = "failed"], "ok")
      [] OTHER -> Answered(d, "conflict")

MemClaimDeployment(d, x) ==
    IF d.run[x] # "queued" \/ Len(d.lease[x]) = MaxAttempts THEN Answered(d, "not_found")
    ELSE Answered([d EXCEPT !.run[x] = "running", !.lease[x] = Append(@, "active"), !.late[x] = FALSE,
                            !.att[x] = Append(@, "active"),
                            !.dep[x].status = IF @ = "queued" THEN "assigned" ELSE @], "ok")

(* Mutant: the attempt stays active. *)
MutAttemptActive(d, x) ==
    IF d.run[x] # "running" \/ ~ d.late[x] THEN Answered(d, "not_found")
    ELSE Answered([d EXCEPT !.run[x] = "queued", !.lease[x] = Last(@, "expired")], "ok")

MemExpireLease(d, x) ==
    IF d.run[x] # "running" \/ ~ d.late[x] THEN Answered(d, "not_found")
    ELSE Answered([d EXCEPT !.run[x] = "queued", !.lease[x] = Last(@, "expired"), !.att[x] = Last(@, "expired")], "ok")

(* The receipts are a map from the deployment and the key to the request.   *)
sameDeploymentTransition(left, right) == left = right

MemSettle(d, x, n, status) ==
    [d EXCEPT !.lease[x][n] = status, !.run[x] = status, !.att[x][n] = status]

(* Mutant: the end of a rollback leaves its source rolling back. *)
MutSourceStays(d, x, t) ==
    LET ended  == IF deploymentTerminalOutcome(t.to) = "none" THEN d
                  ELSE MemSettle(d, x, t.n, deploymentTerminalOutcome(t.to))
        healed == IF Proves(d, x, t) THEN [ended EXCEPT !.env.healthy = d.dep[x].desired] ELSE ended
    IN [healed EXCEPT !.dep[x] = [@ EXCEPT !.status = t.to, !.health = t.health, !.code = t.code],
                      !.trans[x] = @ \cup {t}]

MemTransition(d, x, t) ==
    LET proves == t.to = "succeeded" \/ (t.to = "rolled_back" /\ d.dep[x].of # "none")
        source == d.dep[x].of
        ended  == IF deploymentTerminalOutcome(t.to) = "none" THEN d
                  ELSE MemSettle(d, x, t.n, deploymentTerminalOutcome(t.to))
        healed == IF proves THEN [ended EXCEPT !.env.healthy = d.dep[x].desired] ELSE ended
        rolled == IF source # "none" /\ t.to \in {"rolled_back", "rollback_failed"} /\ d.dep[source].status = "rolling_back"
                  THEN [healed EXCEPT !.dep[source].status = t.to] ELSE healed
    IN [rolled EXCEPT !.dep[x] = [@ EXCEPT !.status = t.to, !.health = t.health, !.code = t.code],
                      !.trans[x] = @ \cup {t}]

(* Mutant: a revision need not be resolved to be applied. *)
MutUnresolved(d, x, t) ==
    LET row == d.dep[x] kept == {r \in d.trans[x] : r.key = t.key} IN
    IF t.n \notin DOMAIN d.lease[x] \/ t.n \notin DOMAIN d.att[x] THEN Answered(d, "not_found")
    ELSE IF kept # {} THEN Answered(d, IF \E r \in kept : sameDeploymentTransition(r, t) THEN "ok" ELSE "conflict")
    ELSE IF ~ Live(d, x, t.n) THEN Answered(d, "not_found")
    ELSE IF \/ row.status # t.from \/ <<row.status, t.to>> \notin RoleTransitions(row.of # "none")
            \/ (Proves(d, x, t) /\ t.health # "yes")
         THEN Answered(d, "conflict")
    ELSE Answered(MemTransition(d, x, t), "ok")

MemTransitionDeploymentAttempt(d, x, t) ==
    LET row == d.dep[x] kept == {r \in d.trans[x] : r.key = t.key} IN
    IF t.n \notin DOMAIN d.lease[x] \/ t.n \notin DOMAIN d.att[x] THEN Answered(d, "not_found")
    ELSE IF kept # {} THEN Answered(d, IF \E r \in kept : sameDeploymentTransition(r, t) THEN "ok" ELSE "conflict")
    ELSE IF ~ Live(d, x, t.n) THEN Answered(d, "not_found")
    ELSE IF \/ row.status # t.from \/ <<row.status, t.to>> \notin RoleTransitions(row.of # "none")
            \/ (t.to = "applying" /\ d.rev[row.desired].state # "resolved")
            \/ (Proves(d, x, t) /\ t.health # "yes")
            \/ (deploymentTerminalOutcome(t.to) # "none" /\ (d.att[x][t.n] # "active" \/ d.run[x] # "running"))
         THEN Answered(d, "conflict")
    ELSE Answered(MemTransition(d, x, t), "ok")

(* Memory knows no index over the contents of the revisions of a service.   *)
MemResolveRevisionProvenance(d, p) ==
    LET rev == d.dep[p.x].desired kept == {r \in d.prov : r.x = p.x /\ r.key = p.key}
        noted == [d EXCEPT !.prov = @ \cup {p}] IN
    IF kept # {} THEN Answered(d, IF p \in kept THEN "ok" ELSE "conflict")
    ELSE IF \/ p.n \notin DOMAIN d.att[p.x] \/ ~ Live(d, p.x, p.n)
            \/ d.dep[p.x].status \notin {"assigned", "preparing", "applying", "verifying"} THEN Answered(d, "not_found")
    ELSE IF d.rev[rev].state = "resolved"
         THEN IF d.rev[rev].identity = p.identity THEN Answered(noted, "ok") ELSE Answered(d, "conflict")
    ELSE Answered([noted EXCEPT !.rev[rev] = [state |-> "resolved", identity |-> p.identity]], "ok")

MemCancelDeploymentRequest(d, x, req) ==
    LET status == d.dep[x].status noted == [d EXCEPT !.cancel[x] = req] IN
    IF d.cancel[x] # "none" THEN Answered(d, IF d.cancel[x] = req THEN "ok" ELSE "conflict")
    ELSE IF status = "absent" THEN Answered(d, "not_found")
    ELSE IF d.dep[x].of # "none" \/ status \in TerminalDeployment THEN Answered(d, "conflict")
    ELSE IF status \in {"queued", "waiting_confirmation", "assigned", "preparing"}
         THEN Answered([noted EXCEPT !.dep[x].status = "canceled", !.run[x] = "canceled",
                                     !.lease[x] = EndActive(@, "canceled"), !.att[x] = EndActive(@, "canceled")], "ok")
    ELSE IF status \in {"applying", "verifying"} THEN Answered([noted EXCEPT !.dep[x].status = "cancel_requested"], "ok")
    ELSE Answered(d, "conflict")

(* A repeat is compared with the receipt that the first report left.        *)
MemFailureRepeat(d, f, to) ==
    IF f.n \notin DOMAIN d.att[f.x] THEN Answered(d, "not_found")
    ELSE Answered(d, IF d.att[f.x][f.n] = "failed" /\ FailureReceipt(f, to) \in d.trans[f.x] THEN "ok" ELSE "conflict")

MemFailDeploymentAndCreateRollback(d, f) ==
    LET x == f.x child == ChildOf[x] IN
    IF f.from = "cancel_requested" /\ d.cancel[x] # f.req THEN Answered(d, "conflict")
    ELSE IF d.dep[x].status = "manual_intervention" THEN MemFailureRepeat(d, f, "manual_intervention")
    ELSE IF child # "none" /\ d.dep[child].status # "absent" /\ d.dep[child].req = f.req
         THEN MemFailureRepeat(d, f, "rolling_back")
    ELSE IF ~ Live(d, x, f.n) \/ d.att[x][f.n] # "active" \/ d.run[x] # "running" THEN Answered(d, "not_found")
    ELSE IF d.dep[x].status # f.from THEN Answered(d, "conflict")
    ELSE IF d.dep[x].prev = "none" \/ ~ Safe \/ d.env.healthy # d.dep[x].prev
         THEN Answered([MemSettle(d, x, f.n, "failed") EXCEPT
                           !.dep[x] = [@ EXCEPT !.status = "manual_intervention", !.code = "failed"],
                           !.trans[x] = @ \cup {FailureReceipt(f, "manual_intervention")}], "ok")
    ELSE IF \E y \in Deps \ {x} : d.dep[y].status \notin TerminalDeployment \cup {"absent"} THEN Answered(d, "conflict")
    ELSE IF child = "none" THEN Answered(d, "bound")
    ELSE Answered([MemSettle(d, x, f.n, "failed") EXCEPT
                      !.dep = [@ EXCEPT ![x] = [@ EXCEPT !.status = "rolling_back", !.code = "failed"],
                                        ![child] = [NoRow EXCEPT !.status = "queued", !.desired = d.dep[x].prev,
                                                                 !.prev = d.dep[x].prev, !.of = x, !.req = f.req]],
                      !.trans[x] = @ \cup {FailureReceipt(f, "rolling_back")},
                      !.run[child] = "queued", !.order = Append(@, child)], "ok")

----------------------------------------------------------------------------
(* Reads.                                                                   *)

deploymentBackedRunLocked(d, x) == d.dep[x].status # "absent"

MemListServices(d) == IF d.service THEN {"service"} ELSE {}
MemListEnvironments(d) == IF d.env.made THEN {d.env} ELSE {}
MemListRevisions(d) == {r \in Revisions : d.rev[r].state \in {"pending", "resolved"}}
MemGetDeployment(d, x) == IF deploymentBackedRunLocked(d, x) THEN d.dep[x] ELSE NoRow
MemListDeployments(d) == {d.order[i] : i \in DOMAIN d.order}

MemDeploymentPlan(d, x, n) ==
    IF d.dep[x].status = "absent" \/ ~ Live(d, x, n) THEN [found |-> FALSE]
    ELSE [found |-> TRUE, status |-> d.dep[x].status, ref |-> d.rev[d.dep[x].desired].identity,
          prev |-> d.dep[x].prev, of |-> d.dep[x].of, cancel |-> d.cancel[x]]

-----------------------------------------------------------------------------
CONSTANTS
    RequestIds,     \* ids of cancellations and failure reports
    Acts,           \* the operations of a run
    MaxFaults       \* missed deadlines and absent runners

VARIABLES
    d,          \* the rows in PostgreSQL
    m,          \* the rows in memory
    done,       \* calls that were accepted
    eligible,   \* an active runner has the tags and can deploy
    faults

vars == <<d, m, done, eligible, faults>>

----------------------------------------------------------------------------
(* The service in front of a store.  What a runner may not do is forbidden, *)
(* whatever the store knows of it.                                          *)

Forbidden(answer) == IF answer.code = "not_found" THEN [answer EXCEPT !.code = "forbidden"] ELSE answer

SvcCreateDeployment(rows, c, answer) ==
    IF ~ rows.env.made \/ rows.rev[c.rev].state = "absent" THEN Told(rows, "not_found")
    ELSE IF ~ eligible THEN Told(rows, "no_runner")
    ELSE answer

SvcConfirmDeployment(rows, c, answer) == IF rows.dep[c.x].status = "absent" THEN Told(rows, "not_found") ELSE answer

SvcTransitionDeploymentAttempt(rows, c, answer) ==
    IF rows.dep[c.x].status = "absent" THEN Told(rows, "forbidden")
    ELSE IF \/ <<c.t.from, c.t.to>> \notin RoleTransitions(rows.dep[c.x].of # "none")
            \/ (c.t.to = "succeeded" /\ c.t.health # "yes") THEN Told(rows, "conflict")
    ELSE Forbidden(answer)

Postgres(rows, c) ==
    CASE c.op = "service"     -> CreateService(rows)
      [] c.op = "environment" -> CreateEnvironment(rows)
      [] c.op = "revision"    -> CreateRevision(rows, c.rev)
      [] c.op = "create"      -> SvcCreateDeployment(rows, c, CreateDeploymentRequest(rows, c.x, c.rev))
      [] c.op = "confirm"     -> SvcConfirmDeployment(rows, c, ConfirmDeployment(rows, c.x))
      [] c.op = "refuse"      -> SvcConfirmDeployment(rows, c, FailPreAssignmentDeployment(rows, c.x, c.req))
      [] c.op = "claim"       -> ClaimDeployment(rows, c.x)
      [] c.op = "expire"      -> ExpireLease(rows, c.x)
      [] c.op = "resolve"     -> Forbidden(ResolveRevisionProvenance(rows, c.p))
      [] c.op = "transition"  -> SvcTransitionDeploymentAttempt(rows, c, TransitionDeploymentAttempt(rows, c.x, c.t))
      [] c.op = "cancel"      -> CancelDeploymentRequest(rows, c.x, c.req)
      [] c.op = "fail"        -> Forbidden(FailDeploymentAndCreateRollback(rows, c.f))

Memory(rows, c) ==
    CASE c.op = "service"     -> MemCreateService(rows)
      [] c.op = "environment" -> MemCreateEnvironment(rows)
      [] c.op = "revision"    -> MemCreateRevision(rows, c.rev)
      [] c.op = "create"      -> SvcCreateDeployment(rows, c, MemCreateDeploymentRequest(rows, c.x, c.rev))
      [] c.op = "confirm"     -> SvcConfirmDeployment(rows, c, MemConfirmDeployment(rows, c.x))
      [] c.op = "refuse"      -> SvcConfirmDeployment(rows, c, MemFailPreAssignmentDeployment(rows, c.x, c.req))
      [] c.op = "claim"       -> MemClaimDeployment(rows, c.x)
      [] c.op = "expire"      -> MemExpireLease(rows, c.x)
      [] c.op = "resolve"     -> Forbidden(MemResolveRevisionProvenance(rows, c.p))
      [] c.op = "transition"  -> SvcTransitionDeploymentAttempt(rows, c, MemTransitionDeploymentAttempt(rows, c.x, c.t))
      [] c.op = "cancel"      -> MemCancelDeploymentRequest(rows, c.x, c.req)
      [] c.op = "fail"        -> Forbidden(MemFailDeploymentAndCreateRollback(rows, c.f))

----------------------------------------------------------------------------
(* Every call somebody may make.                                            *)

Attempts == 1 .. MaxAttempts

Pairs == RootDeploymentTransition \cup RollbackChildTransition

Bodies(n) ==
    {[key |-> <<n, pr[2]>>, n |-> n, from |-> pr[1], to |-> pr[2], health |-> h,
      code |-> IF pr[2] \in {"failed", "rollback_failed", "manual_intervention"} THEN "code" ELSE ""] :
     pr \in Pairs, h \in {"nil", "yes"}}

(* A runner sends a health result with the two statuses that depend on it.  *)
Requests(n) == {t \in Bodies(n) : t.health = "nil" \/ t.to \in {"succeeded", "rolled_back"}}

Of(op) == IF op \notin Acts THEN {} ELSE
    CASE op \in {"service", "environment"}    -> {[op |-> op]}
      [] op = "revision"   -> {[op |-> op, rev |-> r] : r \in Revisions}
      [] op = "create"     -> {[op |-> op, x |-> x, rev |-> r] : x \in Roots, r \in Revisions}
      [] op \in {"confirm", "claim", "expire"} -> {[op |-> op, x |-> x] : x \in Deps}
      [] op \in {"cancel", "refuse"}           -> {[op |-> op, x |-> x, req |-> q] : x \in Deps, q \in RequestIds}
      [] op = "resolve"    -> {[op |-> op, p |-> [x |-> x, n |-> n, key |-> n, identity |-> i]] :
                               x \in Deps, n \in Attempts, i \in {Observed[r] : r \in Revisions}}
      [] op = "transition" -> UNION {{[op |-> op, x |-> x, t |-> t] : x \in Deps, t \in Requests(n)} : n \in Attempts}
      [] op = "fail"       -> {[op |-> op, f |-> [x |-> x, n |-> n, from |-> s, req |-> q]] :
                               x \in IF "failchild" \in Acts THEN Deps ELSE Roots, n \in Attempts,
                               s \in {"applying", "verifying", "cancel_requested"}, q \in RequestIds}

Ops == {"service", "environment", "revision", "create", "confirm", "refuse", "claim", "expire", "resolve", "transition",
        "cancel", "fail"}
Calls == UNION {Of(op) : op \in Ops}

----------------------------------------------------------------------------
Init ==
    /\ d = EmptyTables
    /\ m = EmptyTables
    /\ done = {}
    /\ eligible = TRUE
    /\ faults = 0

(* A runner that resolves finds the content of the revision it deploys.     *)
Finds(c) == c.op = "resolve" => (d.dep[c.p.x].desired # "none" /\ c.p.identity = Observed[d.dep[c.p.x].desired])

Repeatable == {"create", "refuse", "resolve", "transition", "cancel", "fail"}

Call(c) ==
    \E a \in {Postgres(d, c)} :
        /\ a.code = "ok" /\ a.rows # d /\ Finds(c)
        /\ d' = a.rows
        /\ m' = Memory(m, c).rows
        /\ done' = IF c.op \in Repeatable THEN done \cup {c} ELSE done
        /\ UNCHANGED <<eligible, faults>>

CallService     == \E c \in Of("service") : Call(c)
CallEnvironment == \E c \in Of("environment") : Call(c)
CallRevision    == \E c \in Of("revision") : Call(c)
CallCreate      == \E c \in Of("create") : Call(c)
CallConfirm     == \E c \in Of("confirm") : Call(c)
CallRefuse      == \E c \in Of("refuse") : Call(c)
CallClaim       == \E c \in Of("claim") : Call(c)
CallExpire      == \E c \in Of("expire") : Call(c)
CallResolve     == \E c \in Of("resolve") : Call(c)
CallTransition  == \E c \in Of("transition") : Call(c)
CallCancel      == \E c \in Of("cancel") : Call(c)
CallFail        == \E c \in Of("fail") : Call(c)

(* The deadline of a lease passes.                                          *)
DeadlinePasses ==
    /\ faults < MaxFaults
    /\ \E x \in Deps :
        /\ d.run[x] = "running" /\ ~ d.late[x]
        /\ d' = [d EXCEPT !.late[x] = TRUE]
        /\ m' = [m EXCEPT !.late[x] = TRUE]
    /\ faults' = faults + 1
    /\ UNCHANGED <<done, eligible>>

(* The last runner that could deploy goes away.                             *)
RunnerLeaves ==
    /\ faults < MaxFaults
    /\ eligible
    /\ eligible' = FALSE
    /\ faults' = faults + 1
    /\ UNCHANGED <<d, m, done>>

Next ==
    \/ CallService \/ CallEnvironment \/ CallRevision \/ CallCreate \/ CallConfirm \/ CallRefuse \/ CallClaim
    \/ CallExpire \/ CallResolve \/ CallTransition \/ CallCancel \/ CallFail \/ DeadlinePasses \/ RunnerLeaves

Spec == Init /\ [][Next]_vars

----------------------------------------------------------------------------
Statuses == TerminalDeployment \cup {"absent", "queued", "waiting_confirmation", "assigned", "preparing", "applying",
                                     "verifying", "cancel_requested", "rolling_back"}
Ends == {"active", "expired", "succeeded", "failed", "canceled"}

(* The rows of both stores have their types: statuses the tables allow, a    *)
(* lease for every attempt, and only the last lease active.                  *)
DTypeOK ==
    \A rows \in {d, m} : \A x \in Deps :
        /\ rows.dep[x].status \in Statuses
        /\ rows.run[x] \in {"absent", "waiting_approval", "queued", "running", "succeeded", "failed", "canceled"}
        /\ Len(rows.att[x]) = Len(rows.lease[x])
        /\ \A i \in DOMAIN rows.lease[x] :
            /\ rows.lease[x][i] \in Ends /\ rows.att[x][i] \in Ends
            /\ rows.lease[x][i] = "active" => i = Len(rows.lease[x]) /\ rows.run[x] = "running"

(* What was accepted once is acknowledged, and changes nothing, whenever it  *)
(* is asked again: after the lease ran out, after the deployment ended, after *)
(* its rollback ended.  Only a request to deploy also needs a runner to be   *)
(* there again.                                                              *)
RepeatIsAnswered ==
    \A c \in done :
        (c.op = "create" => eligible) => Postgres(d, c) = Ok(d) /\ Memory(m, c) = Ok(m)

(* A deployment somebody has cancelled never succeeds, whatever the runner   *)
(* reports and however the two cross.                                        *)
CanceledNeverSucceeds ==
    \A x \in Deps : d.cancel[x] # "none" =>
        /\ d.dep[x].status \in {"canceled", "cancel_requested", "manual_intervention", "rolling_back", "rolled_back",
                               "rollback_failed"}
        /\ d.run[x] # "succeeded"

(* What is applied, and what an environment is said to run, is a revision    *)
(* whose content a runner has attested; a rollback returns to such a one.    *)
AppliedIsAttested ==
    /\ \A x \in Deps :
        d.dep[x].status \in {"applying", "verifying", "cancel_requested", "succeeded", "rolling_back"}
            => d.rev[d.dep[x].desired].state = "resolved"
    /\ d.env.healthy # "none" => d.rev[d.env.healthy].state = "resolved"

(* Both stores give the same answer to every call that could be made now.    *)
SameAnswers == \A c \in {k \in Calls : Finds(k)} : Postgres(d, c).code = Memory(m, c).code

(* Both stores hold the same rows and show the same to a reader.             *)
SameRows ==
    /\ d = m
    /\ ListServices(d) = MemListServices(m) /\ ListEnvironments(d) = MemListEnvironments(m)
    /\ ListRevisions(d) = MemListRevisions(m) /\ ListDeployments(d) = MemListDeployments(m)
    /\ \A x \in Deps : /\ GetDeployment(d, x) = MemGetDeployment(m, x)
                       /\ \A n \in Attempts : DeploymentPlan(d, x, n) = MemDeploymentPlan(m, x, n)
=============================================================================
