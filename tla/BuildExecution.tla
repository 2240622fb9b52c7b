--------------------------- MODULE BuildExecution ---------------------------
(***************************************************************************)
(* Image builds of one resource from request to deployment: maintainers    *)
(* request, cancel and reconfigure; the River job dispatches; one runner   *)
(* claims, journals its intent, checks the source out, builds and reports; *)
(* leases lapse and are swept; a crash leaves the journal and the disk to  *)
(* start-up reconciliation; a result is deployed while it is current. Each *)
(* database transaction and each durable local write is one action.        *)
(*                                                                         *)
(* The rows behind the image builds of one resource: its source            *)
(* configuration and credential grant, the facts an actor and a placement  *)
(* are checked against, and every build with its task, lease, receipts and *)
(* artifact.  An operator named after a query or a store function takes    *)
(* the rows d and returns the rows it leaves, or whether it lets the       *)
(* transaction go on; the actions chain them as the code does.             *)
(***************************************************************************)
EXTENDS Integers, FiniteSets

CONSTANTS
    Builds,    \* identities of builds
    Kind,      \* the kind of principal that requests them
    Private,   \* whether the source needs a credential grant
    MaxRev     \* bound on a build's revision: recovery touches end there

(* The constants satisfy:
     /\ IsFiniteSet(Builds) /\ MaxRev \in Nat
     /\ Kind \in {"human", "service_account", "api_token"} /\ Private \in BOOLEAN *)

Daemons == {"d1", "d2"}
Running == {"queued", "sourcing", "building"}
Terminal == {"succeeded", "failed", "canceled"}
BuildStates == Running \cup Terminal \cup {"cleanup_required"}
Codes == {"", "authority_lost", "cancel_requested", "build_failed"}
Completions == {"succeeded", "failed"}

(* hosting_builds, the snapshot it froze (generations, grant, expected     *)
(* daemon), its task, its lease and its receipts.  A build has one task    *)
(* and the task one lease, so the build stands for the authority tuple.    *)
(* key "none" is a row not inserted yet.                                   *)
Build ==
    [state : BuildStates, key : {"k1", "k2", "none"}, rev : Nat, code : Codes, run : BOOLEAN,
     daemon : Daemons \cup {""}, gen : Nat, sgen : Nat, expected : Daemons \cup {""},
     grant : Nat, source : BOOLEAN, complete : Completions \cup {"none"}, artifact : Daemons \cup {""},
     task : {"none", "queued", "running", "succeeded", "failed", "canceled"},
     lease : {"none", "active", "lapsed", "ended"}]
NoBuild ==
    [state |-> "queued", key |-> "none", rev |-> 0, code |-> "", run |-> FALSE, daemon |-> "",
     gen |-> 0, sgen |-> 0, expected |-> "", grant |-> 0, source |-> FALSE, complete |-> "none",
     artifact |-> "", task |-> "none", lease |-> "none"]

(* The principal's row: users with project_members, service_accounts or    *)
(* api_tokens.  live is active, unarchived, unrevoked and unexpired.       *)
Actor == [live : BOOLEAN, admin : BOOLEAN, role : {"", "viewer", "maintainer", "owner"}]
(* hosting_source_grants: numbered by the source generation its creation   *)
(* was audited with; 0 is no grant.                                        *)
Grant == [sgen : Nat, revoked : BOOLEAN]
(* A deployment of a local build: the build it names and its progress.     *)
Deployment == [of : Builds \cup {"none"}, st : {"none", "queued", "planned", "applied", "failed"}]

Rows ==
    [project : BOOLEAN, actor : Actor, gen : Nat, sgen : Nat, grant : Grant, secret : BOOLEAN,
     dest : BOOLEAN, held : BOOLEAN, runner : BOOLEAN, enrolled : BOOLEAN,
     observed : Daemons \cup {""}, builds : [Builds -> Build], jobs : SUBSET Builds,
     dep : Deployment]

Exists(d, b) == d.builds[b].key # "none"

--------------------------------------------------------------------------
(* Who may act. *)

buildRoleRank(role) ==
    CASE role = "owner" -> 3 [] role = "maintainer" -> 2 [] role = "viewer" -> 1 [] OTHER -> 0

LockHostingBuildProject(d) == d.project
LockHostingBuildUser(d) == d.actor.live
LockHostingBuildMember(d) == d.actor.role
LockHostingBuildServiceAccount(d) == d.actor.live
LockHostingBuildToken(d) == d.actor.live

(* A human is an administrator or a member of rank; a service account has  *)
(* its own role; a plain token must carry the administrator role.          *)
authorizeBuildActor(d, minimum) ==
    /\ LockHostingBuildProject(d)
    /\ \/ /\ Kind = "human" /\ LockHostingBuildUser(d)
          /\ d.actor.admin \/ buildRoleRank(LockHostingBuildMember(d)) >= buildRoleRank(minimum)
       \/ /\ Kind = "service_account" /\ LockHostingBuildServiceAccount(d)
          /\ buildRoleRank(d.actor.role) >= buildRoleRank(minimum)
       \/ Kind = "api_token" /\ LockHostingBuildToken(d) /\ d.actor.admin

(* Where it may run. *)

LockHostingBuildRunner(d) == d.runner
LockHostingBuildEnrollment(d) == d.enrolled
HostingBuildObservedDaemon(d) == d.observed

lockBuildTarget(d) == d.dest /\ ~d.held /\ LockHostingBuildRunner(d) /\ LockHostingBuildEnrollment(d)

(* The credential. *)

LockHostingBuildSecretVersion(d) == d.secret

checkBuildGrant(d, grant) ==
    \/ ~Private /\ grant = 0
    \/ Private /\ grant > 0 /\ d.grant = [sgen |-> grant, revoked |-> FALSE]
               /\ LockHostingBuildSecretVersion(d)

(* The grant's audit row binds it to the source generation it was made for. *)
checkConfiguredSourceGrant(d, b) == Private => d.builds[b].grant = d.builds[b].sgen

checkBuildPlacement(d, b, credentials) ==
    LET row == d.builds[b]
    IN  /\ lockBuildTarget(d)
        /\ "" \in {row.daemon, HostingBuildObservedDaemon(d)} \/ row.daemon = HostingBuildObservedDaemon(d)
        /\ credentials => checkBuildGrant(d, row.grant)

--------------------------------------------------------------------------
(* Whether a build is still what its resource asks for. *)

exactBuildResourceSource(d, b) == d.builds[b].sgen = d.sgen

currentBuildIntent(d, b) ==
    /\ authorizeBuildActor(d, "maintainer")
    /\ d.builds[b].gen = d.gen /\ exactBuildResourceSource(d, b)
    /\ checkBuildPlacement(d, b, TRUE)

(* The build secrets and the registry credential are versions of managed    *)
(* secrets; only the source credential's is modelled.                       *)
currentBuildExecution(d, b) == currentBuildIntent(d, b)

(* CheckHostingBuildAuthority: the exact tuple, live or historical. *)
CheckHostingBuildAuthority(d, b, live) ==
    /\ Exists(d, b) /\ d.builds[b].lease # "none"
    /\ live => d.builds[b].lease = "active" /\ d.builds[b].task = "running"

freshBuildAuthority(d, b) ==
    currentBuildExecution(d, b) /\ CheckHostingBuildAuthority(d, b, TRUE)

--------------------------------------------------------------------------
(* Statements on builds, with the update trigger: revisions grow by one,   *)
(* run and daemon are written once, terminal states are final.             *)

MayBecome(row, state) ==
    \/ state = row.state
    \/ row.state = "queued" /\ state \in {"sourcing", "failed", "canceled", "cleanup_required"}
    \/ row.state = "sourcing" /\ state \in {"building", "failed", "canceled", "cleanup_required"}
    \/ row.state = "building" /\ state \in Terminal \cup {"cleanup_required"}
    \/ row.state = "cleanup_required" /\ state \in {"failed", "canceled"}

UpdateAllowed(row, new) ==
    /\ row.state \notin Terminal /\ MayBecome(row, new.state)
    /\ new.rev = row.rev + 1 /\ (row.run => new.run) /\ (row.daemon # "" => new.daemon = row.daemon)
    /\ new.state = "building" => new.daemon # "" /\ new.source
    /\ new.state = "succeeded" => new.artifact # ""

InsertHostingBuild(d, b, key) ==
    [d EXCEPT !.builds[b] = [NoBuild EXCEPT !.key = key, !.rev = 1, !.gen = d.gen, !.sgen = d.sgen,
        !.grant = IF Private THEN d.grant.sgen ELSE 0, !.expected = HostingBuildObservedDaemon(d)]]

SetHostingBuildState(d, b, state, code) ==
    [d EXCEPT !.builds[b].state = state, !.builds[b].code = code, !.builds[b].rev = @ + 1]

PinHostingBuildDaemon(d, b, daemon) ==
    [d EXCEPT !.builds[b].daemon = daemon, !.builds[b].state = "building", !.builds[b].rev = @ + 1]

BindHostingBuildRun(d, b) == [d EXCEPT !.builds[b].run = TRUE, !.builds[b].rev = @ + 1]
InsertCanonicalHostingBuildRun(d, b) == [d EXCEPT !.builds[b].task = "queued"]
HostingBuildTaskExists(d, b) == d.builds[b].task # "none"
TouchHostingBuild(d, b) == [d EXCEPT !.builds[b].rev = @ + 1]
RecoverQueuedHostingBuilds(d) ==
    {b \in Builds : Exists(d, b) /\ d.builds[b].state = "queued" /\ ~d.builds[b].run}

InsertHostingBuildArtifact(d, b, daemon) == [d EXCEPT !.builds[b].artifact = daemon]

CompleteHostingBuildLease(d, b, state) ==
    [d EXCEPT !.builds[b].task = state, !.builds[b].lease = "ended"]

(* A task nobody leased is canceled; one that was leased is left alone. *)
CancelQueuedAllowed(d, b) == d.builds[b].task = "queued" /\ d.builds[b].lease = "none"
CancelQueuedHostingBuildTask(d, b) == [d EXCEPT !.builds[b].task = "canceled"]

(* Mutant: the failure code is written as the state. *)
ExpireHostingBuildSwapped(d, b) ==
    IF d.builds[b].state \in Running
    THEN SetHostingBuildState(d, b, "authority_lost", "cleanup_required") ELSE d

ExpireHostingBuildForRun(d, b) ==
    IF d.builds[b].state \in Running
    THEN SetHostingBuildState(d, b, "cleanup_required", "authority_lost") ELSE d

EnqueueBuildTx(d, b) == [d EXCEPT !.jobs = @ \cup {b}]

--------------------------------------------------------------------------
(* Configuration of the resource. *)

(* mutateHostingResource: every accepted edit takes a resource generation; *)
(* one that changes the source document also takes a source generation.    *)
AdvanceHostingBuildSource(d) == [d EXCEPT !.sgen = @ + 1]
mutateHostingResource(d, source) ==
    LET e == [d EXCEPT !.gen = @ + 1] IN IF source THEN AdvanceHostingBuildSource(e) ELSE e

CreateHostingSourceGrant(d) == [d EXCEPT !.grant = [sgen |-> d.sgen, revoked |-> FALSE]]
RevokeHostingSourceGrant(d) == [d EXCEPT !.grant.revoked = TRUE]

--------------------------------------------------------------------------
(* Requests. *)

HostingBuildIdempotency(d, key) == {b \in Builds : d.builds[b].key = key}

(* What a new request of expected generations must meet. *)
requestHostingBuildTx(d, gen, sgen) ==
    /\ authorizeBuildActor(d, "maintainer")
    /\ gen = d.gen /\ sgen = d.sgen /\ lockBuildTarget(d)
    /\ checkBuildGrant(d, IF Private THEN d.grant.sgen ELSE 0)
    /\ Private => d.grant.sgen = d.sgen

(* What a dispatch must meet, after its locks and its second read. *)
DispatchHostingBuild(d, b) ==
    /\ authorizeBuildActor(d, "maintainer") /\ checkBuildPlacement(d, b, TRUE)
    /\ d.builds[b].state = "queued" /\ ~d.builds[b].run /\ ~HostingBuildTaskExists(d, b)
    /\ checkConfiguredSourceGrant(d, b) /\ currentBuildExecution(d, b)

Dispatched(d, b) == BindHostingBuildRun(InsertCanonicalHostingBuildRun(d, b), b)

buildClaimAllowed(d, b) ==
    /\ d.builds[b].task = "queued" /\ d.builds[b].state = "queued" /\ d.builds[b].run
    /\ currentBuildExecution(d, b)

(* Mutant: a leased task of a canceled build is canceled with it. *)
CancelHostingBuildLeased(d, b) ==
    SetHostingBuildState(IF d.builds[b].run THEN CancelQueuedHostingBuildTask(d, b) ELSE d,
                         b, "canceled", "cancel_requested")

CancelHostingBuild(d, b) ==
    LET e == IF CancelQueuedAllowed(d, b) THEN CancelQueuedHostingBuildTask(d, b) ELSE d
    IN  SetHostingBuildState(e, b, IF ~d.builds[b].run \/ CancelQueuedAllowed(d, b)
                                   THEN "canceled" ELSE "cleanup_required", "cancel_requested")

--------------------------------------------------------------------------
(* The runner's phases.  Each runs inside buildRunnerTransaction, which    *)
(* wants the historical tuple, the creator and the placement; the build's  *)
(* credential only where the phase needs it.                               *)

buildRunnerTransaction(d, b, credentials) ==
    /\ CheckHostingBuildAuthority(d, b, FALSE)
    /\ authorizeBuildActor(d, "maintainer") /\ checkBuildPlacement(d, b, credentials)

BeginHostingBuildSource(d, b, rev) ==
    /\ buildRunnerTransaction(d, b, TRUE) /\ d.builds[b].state = "queued" /\ d.builds[b].rev = rev
    /\ freshBuildAuthority(d, b)

(* The receipt of a phase already committed answers again. *)
CommitHostingBuildSource(d, b) ==
    /\ buildRunnerTransaction(d, b, TRUE)
    /\ d.builds[b].source \/ (d.builds[b].state = "sourcing" /\ freshBuildAuthority(d, b))

SourceCommitted(d, b) ==
    IF d.builds[b].source THEN d
    ELSE SetHostingBuildState([d EXCEPT !.builds[b].source = TRUE], b, d.builds[b].state, d.builds[b].code)

PrepareHostingBuild(d, b, rev, daemon) ==
    LET row == d.builds[b]
    IN  /\ buildRunnerTransaction(d, b, TRUE) /\ row.rev = rev /\ row.source
        /\ row.state \in {"sourcing", "building"}
        /\ {row.daemon, row.expected, HostingBuildObservedDaemon(d)} \subseteq {"", daemon}
        /\ freshBuildAuthority(d, b)

Prepared(d, b, daemon) ==
    IF d.builds[b].state = "building" THEN d ELSE PinHostingBuildDaemon(d, b, daemon)

(* Mutant: completion trusts the lease and not the resource's present state. *)
CompleteHostingBuildLeased(d, b, rev, state, daemon) ==
    /\ d.builds[b].complete = "none" /\ d.builds[b].rev = rev /\ d.builds[b].state = "building"
    /\ CheckHostingBuildAuthority(d, b, TRUE)

(* Mutant: a canceled build may still report success. *)
CompleteHostingBuildCanceled(d, b, rev, state, daemon) ==
    d.builds[b].complete = "none" /\ CheckHostingBuildAuthority(d, b, TRUE)

CompleteHostingBuild(d, b, rev, state, daemon) ==
    LET row == d.builds[b]
    IN  /\ buildRunnerTransaction(d, b, state = "succeeded")
        /\ \/ row.complete = state
           \/ /\ row.complete = "none" /\ row.rev = rev /\ row.state \notin Terminal
              /\ state = "succeeded" => row.state = "building" /\ daemon = row.daemon
              /\ freshBuildAuthority(d, b)
              /\ UpdateAllowed(row, [row EXCEPT !.state = state, !.rev = @ + 1, !.artifact = daemon])

(* Mutant: a replayed completion is applied again. *)
CompletedAgain(d, b, state, daemon) ==
    CompleteHostingBuildLease(SetHostingBuildState(
        InsertHostingBuildArtifact([d EXCEPT !.builds[b].complete = state], b, daemon),
        b, state, ""), b, state)

(* The artifact, the receipt, the state, then the task and its lease. *)
Completed(d, b, state, daemon) ==
    IF d.builds[b].complete # "none" THEN d
    ELSE LET r == [d EXCEPT !.builds[b].complete = state]
             a == IF state = "succeeded" THEN InsertHostingBuildArtifact(r, b, daemon) ELSE r
             s == SetHostingBuildState(a, b, state, IF state = "failed" THEN "build_failed" ELSE "")
         IN  CompleteHostingBuildLease(s, b, state)

(* What the runner is told. *)
HostingBuildStatus(d, b) ==
    [live |-> d.builds[b].state \in Running /\ currentBuildExecution(d, b)
              /\ CheckHostingBuildAuthority(d, b, TRUE),
     state |-> d.builds[b].state, rev |-> d.builds[b].rev, daemon |-> d.builds[b].daemon,
     source |-> d.builds[b].source, complete |-> d.builds[b].complete]

renewHostingBuildLease(d, b) ==
    /\ buildRunnerTransaction(d, b, TRUE) /\ d.builds[b].state \in Running /\ freshBuildAuthority(d, b)

--------------------------------------------------------------------------
(* Deployment of a result. *)

(* Mutant: any successful build of the resource can be deployed. *)
resolveCurrentAny(d, b) == authorizeBuildActor(d, "maintainer") /\ d.builds[b].state = "succeeded"

resolveCurrentHostingBuildResultTx(d, b) ==
    /\ authorizeBuildActor(d, "maintainer")
    /\ d.builds[b].state = "succeeded" /\ d.builds[b].artifact # ""
    /\ d.builds[b].gen = d.gen /\ exactBuildResourceSource(d, b)
    /\ checkBuildPlacement(d, b, TRUE)

requestHostingBuildDeploymentTx(d, b) ==
    resolveCurrentHostingBuildResultTx(d, b) /\ d.dep.st \notin {"queued", "planned"}

(* Every step of the operation asks again until its effect is applied. *)
localHostingOperationAuthority(d) == resolveCurrentHostingBuildResultTx(d, d.dep.of)

-----------------------------------------------------------------------------
CONSTANTS
    Changes,        \* which disturbances and requests this instance has
    SettlesSource,  \* whether a failed checkout is reported (ssh, dockerfile, compose)
    MaxChanges,     \* bound on disturbances
    MaxFaults       \* bound on crashes, lost calls, lost jobs and late leases

VARIABLES
    d,          \* the rows
    refused,    \* jobs whose dispatch was refused, before the outcome is recorded
    pc, bld,    \* the runner's place and the build it works on
    known,      \* what it read: the revision, the daemon, the engine's outcome
    journal,    \* the build entries of the attempt journal
    disk,       \* the checkout directories and the engine's cleanup marker
    host,       \* the identity of the host's Docker daemon
    late,       \* requests the runner gave up on and the server may still serve
    faults, changes

vars == <<d, refused, pc, bld, known, journal, disk, host, late, faults, changes>>
runner == <<pc, bld, known, journal, disk>>
counters == <<faults, changes>>

NoEntry == [intent |-> FALSE, source |-> FALSE, result |-> "none", rev |-> 0, daemon |-> ""]
Entry == [intent : BOOLEAN, source : BOOLEAN, result : Completions \cup {"none"}, rev : Nat,
          daemon : Daemons \cup {""}]
Known == [rev : Nat, daemon : Daemons \cup {""}, out : Completions \cup {"none"}]
Nothing == [rev |-> 0, daemon |-> "", out |-> "none"]
Disk == [checkout : SUBSET Builds, marker : SUBSET Builds]
Requests ==
    [op : {"begin"}, b : Builds, rev : Nat] \cup [op : {"source"}, b : Builds]
      \cup [op : {"prepare"}, b : Builds, rev : Nat, daemon : Daemons]
      \cup [op : {"complete"}, b : Builds, rev : Nat, out : Completions, daemon : Daemons \cup {""}]

Watched == {"begun", "fetched", "sourceentry", "sourceacked", "sourced", "observed", "prepared",
            "engine", "built"}
Working == Watched \cup {"claimed", "intent", "cleaned", "resultentry", "acked"}
Places == Working \cup {"down", "reconcile", "idle"}

Row == d.builds[bld]
Budget == faults < MaxFaults
Fault == Budget /\ faults' = faults + 1 /\ changes' = changes
NoFault == UNCHANGED counters
Server == UNCHANGED <<refused, host, late>>

Init ==
    /\ d = [project |-> TRUE, actor |-> [live |-> TRUE, admin |-> Kind = "api_token", role |-> "maintainer"],
            gen |-> 1, sgen |-> 1, grant |-> [sgen |-> IF Private THEN 1 ELSE 0, revoked |-> FALSE],
            secret |-> TRUE, dest |-> TRUE, held |-> FALSE, runner |-> TRUE, enrolled |-> TRUE,
            observed |-> "", builds |-> [b \in Builds |-> NoBuild], jobs |-> {},
            dep |-> [of |-> "none", st |-> "none"]]
    /\ refused = {} /\ pc = "idle" /\ bld = (CHOOSE b \in Builds : TRUE) /\ known = Nothing
    /\ journal = [b \in Builds |-> NoEntry] /\ disk = [checkout |-> {}, marker |-> {}]
    /\ host = "d1" /\ late = {} /\ faults = 0 /\ changes = 0

--------------------------------------------------------------------------
(* Requests and disturbances: one transaction each. *)

Quiet == UNCHANGED <<refused, runner, host, late>>
Change(kind) == kind \in Changes /\ changes < MaxChanges /\ changes' = changes + 1 /\ faults' = faults

(* RequestHostingBuild with the generations the client read.  A key that   *)
(* was used answers with its build and changes nothing.                    *)
RequestHostingBuild(b, key) ==
    /\ Quiet /\ NoFault /\ ~Exists(d, b) /\ HostingBuildIdempotency(d, key) = {}
    /\ \E gen, sgen \in 1..d.gen : requestHostingBuildTx(d, gen, sgen)
    /\ d' = EnqueueBuildTx(InsertHostingBuild(d, b, key), b)

RequestCancel(b) ==
    /\ Quiet /\ Change("cancel") /\ Exists(d, b) /\ d.builds[b].state \notin Terminal
    /\ authorizeBuildActor(d, "maintainer")
    /\ d' = CancelHostingBuild(d, b)

(* An accepted edit of the resource, with or without a new source document. *)
EditResource(source) ==
    /\ Quiet /\ Change(IF source THEN "source" ELSE "edit") /\ authorizeBuildActor(d, "maintainer")
    /\ d' = mutateHostingResource(d, source)

(* A grant for the present source generation replaces the one before it. *)
RequestHostingSourceGrant ==
    /\ Quiet /\ Change("grant") /\ Private /\ d.secret
    /\ d.grant # [sgen |-> d.sgen, revoked |-> FALSE] /\ d.grant.sgen # d.sgen
    /\ d' = CreateHostingSourceGrant(d)

RevokeGrant ==
    /\ Quiet /\ Change("revoke") /\ Private /\ ~d.grant.revoked
    /\ d' = RevokeHostingSourceGrant(d)

(* The other facts a build was admitted on, withdrawn by their own owners. *)
Withdraw ==
    /\ Quiet /\ Change("withdraw")
    /\ \/ d' = [d EXCEPT !.actor.role = "viewer", !.actor.admin = FALSE]
       \/ d' = [d EXCEPT !.actor.live = FALSE]
       \/ d' = [d EXCEPT !.project = FALSE]
       \/ d' = [d EXCEPT !.secret = FALSE]
       \/ d' = [d EXCEPT !.dest = FALSE]
       \/ d' = [d EXCEPT !.runner = FALSE]
       \/ d' = [d EXCEPT !.enrolled = FALSE]
    /\ d' # d

(* A restore of the binding's database holds it, and later lets it go. *)
RestoreHold ==
    /\ Quiet /\ Change("hold")
    /\ d' = [d EXCEPT !.held = ~@]

(* Another operation of the binding records the daemon it ran on. *)
RecordDaemon ==
    /\ Quiet /\ Change("record") /\ d.observed = ""
    /\ d' = [d EXCEPT !.observed = host]

ReplaceDaemon ==
    /\ Change("daemon") /\ host = "d1" /\ host' = "d2"
    /\ UNCHANGED <<d, refused, runner, late>>

--------------------------------------------------------------------------
(* Dispatch.  The job's refusal and its record are two transactions. *)

DispatchJob(b) ==
    /\ b \in d.jobs /\ b \notin refused /\ UNCHANGED <<runner, host, late>> /\ NoFault
    /\ \/ /\ DispatchHostingBuild(d, b) /\ UNCHANGED refused
          /\ d' = [Dispatched(d, b) EXCEPT !.jobs = @ \ {b}]
       \/ /\ ~DispatchHostingBuild(d, b) /\ refused' = refused \cup {b} /\ UNCHANGED d

PrepareBuild(b) ==
    LET e == [d EXCEPT !.jobs = @ \ {b}]
    IN  /\ b \in refused /\ refused' = refused \ {b} /\ UNCHANGED <<runner, host, late>> /\ NoFault
        /\ d' = IF d.builds[b].state = "queued" /\ ~d.builds[b].run
                THEN SetHostingBuildState(e, b, "failed", "authority_lost") ELSE e

(* A job that used up its attempts, or whose worker died. *)
LoseJob(b) ==
    /\ Fault /\ b \in d.jobs /\ refused' = refused \ {b} /\ UNCHANGED <<runner, host, late>>
    /\ d' = [d EXCEPT !.jobs = @ \ {b}]

(* Mutant: recovery only marks the row. *)
recoverBuildDispatchNever(b) ==
    /\ b \in RecoverQueuedHostingBuilds(d) \ d.jobs /\ d.builds[b].rev < MaxRev
    /\ Quiet /\ NoFault /\ d' = TouchHostingBuild(d, b)

recoverBuildDispatch(b) ==
    /\ b \in RecoverQueuedHostingBuilds(d) \ d.jobs /\ d.builds[b].rev < MaxRev
    /\ Quiet /\ NoFault /\ d' = TouchHostingBuild(EnqueueBuildTx(d, b), b)

--------------------------------------------------------------------------
(* Leases. *)

Claimed(b) == [d EXCEPT !.builds[b].task = "running", !.builds[b].lease = "active"]

(* The claim's answer may be lost: the lease is then nobody's. *)
ClaimRun(b) ==
    /\ pc = "idle" /\ Exists(d, b) /\ buildClaimAllowed(d, b) /\ d' = Claimed(b)
    /\ UNCHANGED <<known, journal, disk>> /\ Server
    /\ \/ NoFault /\ pc' = "claimed" /\ bld' = b
       \/ Fault /\ pc' = "down" /\ UNCHANGED bld

Renews(b) == pc \in Working /\ bld = b /\ renewHostingBuildLease(d, b)

(* A lease that is not renewed passes its expiry; one that could have been *)
(* renewed in time passes it by a fault.                                   *)
LapseLease(b) ==
    /\ d.builds[b].lease = "active" /\ IF Renews(b) THEN Fault ELSE NoFault
    /\ d' = [d EXCEPT !.builds[b].lease = "lapsed"] /\ Quiet

(* The sweep fails the task and asks for cleanup of what it was doing. *)
SweepLease(b) ==
    /\ d.builds[b].lease = "lapsed" /\ Quiet /\ NoFault
    /\ d' = [ExpireHostingBuildForRun(d, b) EXCEPT !.builds[b].lease = "ended", !.builds[b].task = "failed"]

--------------------------------------------------------------------------
(* The server's side of the phases. *)

Serves(r) ==
    CASE r.op = "begin"    -> BeginHostingBuildSource(d, r.b, r.rev)
      [] r.op = "source"   -> CommitHostingBuildSource(d, r.b)
      [] r.op = "prepare"  -> PrepareHostingBuild(d, r.b, r.rev, r.daemon)
      [] r.op = "complete" -> CompleteHostingBuild(d, r.b, r.rev, r.out, r.daemon)

Served(r) ==
    CASE r.op = "begin"    -> SetHostingBuildState(d, r.b, "sourcing", d.builds[r.b].code)
      [] r.op = "source"   -> SourceCommitted(d, r.b)
      [] r.op = "prepare"  -> Prepared(d, r.b, r.daemon)
      [] r.op = "complete" -> Completed(d, r.b, r.out, r.daemon)

(* A request the runner no longer waits for reaches the server. *)
ServeLate(r) ==
    /\ r \in late /\ late' = late \ {r} /\ NoFault /\ UNCHANGED <<refused, runner, host>>
    /\ IF Serves(r) THEN d' = Served(r) ELSE UNCHANGED d

--------------------------------------------------------------------------
(* The runner. *)

Status == HostingBuildStatus(d, bld)
Same == UNCHANGED <<d, bld>> /\ Server
Goto(place) == pc' = place

(* An error ends the process.  What it deferred runs first: the checkout   *)
(* is removed, and the engine's cleanup, unless one of them fails.         *)
Fail ==
    /\ pc' = "down" /\ UNCHANGED <<bld, journal>> /\ known' = Nothing
    /\ \/ disk' = [checkout |-> disk.checkout \ {bld}, marker |-> disk.marker \ {bld}] /\ NoFault
       \/ disk' = disk /\ disk.checkout \cup disk.marker # {} /\ Fault
Stop(cond) == cond /\ Fail /\ UNCHANGED d /\ Server

(* A request to the server: served, refused, or its answer or itself lost. *)
Call(r, next, mem) ==
    /\ UNCHANGED <<refused, host>>
    /\ \/ /\ Serves(r) /\ d' = Served(r) /\ Goto(next) /\ known' = mem
          /\ UNCHANGED <<bld, journal, disk, late>> /\ NoFault
       \/ ~Serves(r) /\ Fail /\ UNCHANGED <<d, late>>
       \/ /\ Fault /\ pc' = "down" /\ known' = Nothing /\ UNCHANGED <<bld, journal>>
          /\ disk' = [checkout |-> disk.checkout \ {bld}, marker |-> disk.marker \ {bld}]
          /\ \/ Serves(r) /\ d' = Served(r) /\ UNCHANGED late
             \/ late' = late \cup {r} /\ UNCHANGED d

Local(b) == b \in disk.checkout \/ disk.marker # {}
NoJournal(b) == journal[b] = NoEntry
MayStart == Renews(bld) /\ Status.live /\ Status.state = "queued" /\ NoJournal(bld) /\ ~Local(bld)

(* Mutant: the source is begun first and the intent written when it answers. *)
StartUnjournaled ==
    /\ pc = "claimed" /\ MayStart /\ Goto("intent") /\ known' = [known EXCEPT !.rev = Status.rev]
    /\ UNCHANGED <<disk, journal>> /\ Same /\ NoFault

(* The lease is confirmed, the status read, and the intent made durable. *)
Start ==
    \/ /\ pc = "claimed" /\ MayStart /\ Goto("intent") /\ known' = [known EXCEPT !.rev = Status.rev]
       /\ journal' = [journal EXCEPT ![bld].intent = TRUE] /\ UNCHANGED disk /\ Same /\ NoFault
    \/ pc = "claimed" /\ Stop(~MayStart)

BuildSourceBegin ==
    /\ pc = "intent" /\ Call([op |-> "begin", b |-> bld, rev |-> known.rev], "begun", known)

(* The watcher reads the status on its own clock and cancels the rest. *)
Watch == pc \in Watched /\ Stop(~Status.live)

Checkout ==
    /\ pc = "begun" /\ Goto("fetched") /\ disk' = [disk EXCEPT !.checkout = @ \cup {bld}]
    /\ UNCHANGED <<known, journal>> /\ Same /\ NoFault

(* A checkout that fails ends the attempt, unless its kind reports it. *)
CheckoutFails ==
    /\ pc = "begun" /\ Budget
    /\ IF SettlesSource
       THEN /\ Goto("cleaned") /\ known' = [known EXCEPT !.out = "failed"] /\ Fault
            /\ UNCHANGED <<journal, disk>> /\ Same
       ELSE Stop(TRUE)

JournalSource ==
    /\ pc = "fetched" /\ Goto("sourceentry") /\ journal' = [journal EXCEPT ![bld].source = TRUE]
    /\ UNCHANGED <<known, disk>> /\ Same /\ NoFault

BuildSourceCommit ==
    pc = "sourceentry" /\ Call([op |-> "source", b |-> bld], "sourceacked", known)

AckSource ==
    /\ pc = "sourceacked" /\ Goto("sourced") /\ journal' = [journal EXCEPT ![bld].source = FALSE]
    /\ UNCHANGED <<known, disk>> /\ Same /\ NoFault

(* The host's daemon must be the one expected; the revision is read anew. *)
Observe ==
    LET agrees == {Row.daemon, Row.expected} \subseteq {"", host} /\ Status.live
    IN  \/ /\ pc = "sourced" /\ agrees /\ Goto("observed")
           /\ known' = [known EXCEPT !.daemon = host, !.rev = Status.rev]
           /\ UNCHANGED <<journal, disk>> /\ Same /\ NoFault
        \/ pc = "sourced" /\ Stop(~agrees)

BuildPrepare ==
    /\ pc = "observed"
    /\ Call([op |-> "prepare", b |-> bld, rev |-> known.rev, daemon |-> known.daemon], "prepared", known)

(* The engine writes its marker before it owns anything. *)
StartEngine ==
    LET ready == Status.live /\ Status.state = "building" /\ Status.daemon = known.daemon
    IN  \/ /\ pc = "prepared" /\ ready /\ Goto("engine") /\ disk' = [disk EXCEPT !.marker = {bld}]
           /\ UNCHANGED <<known, journal>> /\ Same /\ NoFault
        \/ pc = "prepared" /\ Stop(~ready)

(* Mutant: a build whose cleanup failed is reported as an ordinary failure. *)
EngineReturnsDirty ==
    /\ pc = "engine" /\ Goto("built") /\ known' = [known EXCEPT !.out = "failed"]
    /\ UNCHANGED <<journal, disk>> /\ Same /\ Fault

(* It verifies the daemon once more, cleans up and removes its marker; a   *)
(* cleanup it cannot confirm keeps the marker and the intent.              *)
EngineReturns ==
    \/ /\ pc = "engine" /\ Goto("built") /\ disk' = [disk EXCEPT !.marker = {}]
       /\ \E out \in Completions : /\ out = "succeeded" => host = known.daemon
                                   /\ known' = [known EXCEPT !.out = out]
                                   /\ IF out = "failed" /\ host = known.daemon THEN Fault ELSE NoFault
       /\ UNCHANGED journal /\ Same
    \/ /\ pc = "engine" /\ Fault /\ pc' = "down" /\ known' = Nothing
       /\ disk' = [disk EXCEPT !.checkout = @ \ {bld}] /\ UNCHANGED journal /\ Same

RemoveCheckout ==
    \/ /\ pc = "built" /\ Goto("cleaned") /\ disk' = [disk EXCEPT !.checkout = @ \ {bld}]
       /\ UNCHANGED <<known, journal>> /\ Same /\ NoFault
    \/ /\ pc = "built" /\ Fault /\ pc' = "down" /\ known' = Nothing /\ UNCHANGED <<disk, journal>> /\ Same

(* The result is durable, with the revision it expects, before it is sent. *)
JournalResult ==
    LET ready == Status.live /\ Status.daemon \in {known.daemon, ""}
    IN  \/ /\ pc = "cleaned" /\ ready /\ Goto("resultentry")
           /\ journal' = [journal EXCEPT ![bld].result = known.out, ![bld].rev = Status.rev,
                                         ![bld].daemon = IF known.out = "succeeded" THEN known.daemon ELSE ""]
           /\ UNCHANGED <<known, disk>> /\ Same /\ NoFault
        \/ pc = "cleaned" /\ Stop(~ready)

Completion(b) == [op |-> "complete", b |-> b, rev |-> journal[b].rev, out |-> journal[b].result,
                  daemon |-> journal[b].daemon]

BuildComplete == pc = "resultentry" /\ Call(Completion(bld), "acked", known)

(* Result and intent leave the journal in one write. *)
AckBuildCompletion ==
    /\ pc = "acked" /\ Goto("idle") /\ journal' = [journal EXCEPT ![bld] = NoEntry]
    /\ known' = Nothing /\ UNCHANGED disk /\ Same /\ NoFault

Crash ==
    /\ pc # "down" /\ Fault /\ pc' = "down" /\ known' = Nothing
    /\ UNCHANGED <<journal, disk>> /\ Same

Restart ==
    /\ pc = "down" /\ Goto("reconcile") /\ UNCHANGED <<known, journal, disk>> /\ Same /\ NoFault

(* Start-up.  A retained request is sent again when the status proves it   *)
(* was committed or still lets it be; a result also wants a clean disk.    *)
ReconcileSource(b) ==
    LET s == HostingBuildStatus(d, b)
    IN  /\ pc = "reconcile" /\ journal[b].source /\ (s.source \/ s.live)
        /\ CommitHostingBuildSource(d, b) /\ d' = SourceCommitted(d, b)
        /\ journal' = [journal EXCEPT ![b].source = FALSE]
        /\ UNCHANGED <<pc, bld, known, disk>> /\ Server /\ NoFault

(* Mutant: a result is dropped once its lease can no longer commit it. *)
ReconcileResultDropped(b) ==
    /\ pc = "reconcile" /\ journal[b].result # "none" /\ ~HostingBuildStatus(d, b).live
    /\ journal' = [journal EXCEPT ![b] = NoEntry]
    /\ UNCHANGED <<d, pc, bld, known, disk>> /\ Server /\ NoFault

ReconcileResult(b) ==
    LET s == HostingBuildStatus(d, b)
        r == Completion(b)
    IN  /\ pc = "reconcile" /\ ~journal[b].source /\ journal[b].result # "none"
        /\ s.complete = journal[b].result \/ s.live
        /\ ~Local(b) /\ Serves(r) /\ d' = Served(r)
        /\ journal' = [journal EXCEPT ![b] = NoEntry]
        /\ UNCHANGED <<pc, bld, known, disk>> /\ Server /\ NoFault

(* Mutant: an intent nothing else is known of does not stop the runner. *)
ReconciledAnyway ==
    /\ pc = "reconcile" /\ Goto("idle") /\ UNCHANGED <<known, journal, disk>>
    /\ Same /\ NoFault

(* Any entry that is left, an intent included, keeps the runner down. *)
Reconciled ==
    /\ pc = "reconcile" /\ (\A b \in Builds : NoJournal(b)) /\ Goto("idle")
    /\ UNCHANGED <<known, journal, disk>> /\ Same /\ NoFault

--------------------------------------------------------------------------
(* A deployment of a result: admitted, planned and applied while current. *)

RequestDeployment(b) ==
    /\ Quiet /\ Change("deploy") /\ Exists(d, b) /\ requestHostingBuildDeploymentTx(d, b)
    /\ d' = [d EXCEPT !.dep = [of |-> b, st |-> "queued"]]

DeployStep(from, to) ==
    /\ Quiet /\ NoFault /\ d.dep.st = from
    /\ d' = [d EXCEPT !.dep.st = IF localHostingOperationAuthority(d) THEN to ELSE "failed"]

--------------------------------------------------------------------------
Runner ==
    \/ Start \/ BuildSourceBegin \/ Watch \/ Checkout \/ JournalSource \/ BuildSourceCommit
    \/ AckSource \/ Observe \/ BuildPrepare \/ StartEngine \/ EngineReturns \/ RemoveCheckout
    \/ JournalResult \/ BuildComplete \/ AckBuildCompletion \/ Restart \/ Reconciled
    \/ \E b \in Builds : ClaimRun(b) \/ ReconcileSource(b) \/ ReconcileResult(b)

Next ==
    \/ \E b \in Builds, key \in {"k1", "k2"} : RequestHostingBuild(b, key)
    \/ \E b \in Builds : \/ RequestCancel(b) \/ DispatchJob(b) \/ PrepareBuild(b) \/ LoseJob(b)
                         \/ recoverBuildDispatch(b) \/ LapseLease(b) \/ SweepLease(b)
                         \/ RequestDeployment(b)
    \/ \E source \in BOOLEAN : EditResource(source)
    \/ RequestHostingSourceGrant \/ RevokeGrant \/ Withdraw \/ RestoreHold
    \/ RecordDaemon \/ ReplaceDaemon
    \/ \E r \in late : ServeLate(r)
    \/ Runner \/ CheckoutFails \/ Crash
    \/ DeployStep("queued", "planned") \/ DeployStep("planned", "applied")

Spec == Init /\ [][Next]_vars

--------------------------------------------------------------------------
(* The rows and the runner's memory have the shapes of their tables.       *)
BTypeOK ==
    /\ d \in Rows /\ refused \in SUBSET Builds /\ pc \in Places /\ bld \in Builds
    /\ known \in Known /\ journal \in [Builds -> Entry] /\ disk \in Disk
    /\ host \in Daemons /\ late \subseteq Requests

(* What a build leaves on the host - a checkout, a cleanup marker - always *)
(* has its intent in the runner's journal, through every crash and error.  *)
EffectsAreJournaled ==
    \A b \in disk.checkout \cup disk.marker : journal[b].intent

(* While the server counts a build as being sourced or built, the runner   *)
(* still remembers that it started it (BuildExecutor.Execute appends the   *)
(* intent first; only an acknowledged completion removes it).              *)
BegunIsRemembered ==
    \A b \in Builds : d.builds[b].state \in {"sourcing", "building"} => journal[b].intent

(* A committed completion means the host was clean: no checkout directory  *)
(* and no engine marker of that build is left (Execute, Reconcile).        *)
CompletedIsClean ==
    \A b \in Builds : d.builds[b].complete # "none" => b \notin disk.checkout \cup disk.marker

(* A build, its task and its lease end together: a terminal build has no   *)
(* task waiting or running, and a running task's build is not terminal.    *)
TaskEndsWithBuild ==
    \A b \in Builds :
        d.builds[b].state \in Terminal => /\ d.builds[b].task \notin {"queued", "running"}
                                          /\ d.builds[b].lease # "active"

(* The runner never starts another build on a host where an earlier one    *)
(* may have left something behind.                                         *)
OneUncertainBuild ==
    pc \in Working => \A b \in Builds \ {bld} : journal[b] = NoEntry /\ b \notin disk.checkout \cup disk.marker

(* A build succeeds only in a transaction in which its creator, its        *)
(* generations, its placement, its grant and its lease are all current     *)
(* (freshBuildAuthority), however long ago it was admitted.                *)
SuccessIsCurrent ==
    [][\A b \in Builds : d.builds[b].state # "succeeded" /\ d'.builds[b].state = "succeeded" =>
        /\ authorizeBuildActor(d, "maintainer") /\ d.builds[b].gen = d.gen /\ d.builds[b].sgen = d.sgen
        /\ lockBuildTarget(d) /\ (Private => ~d.grant.revoked /\ d.grant.sgen = d.sgen)
        /\ d.builds[b].lease = "active" /\ d.observed \in {"", d'.builds[b].artifact}]_vars

(* A build asked to cancel never succeeds afterwards, whichever request of *)
(* the runner was on its way.                                              *)
CanceledNeverSucceeds ==
    [][\A b \in Builds : d.builds[b].code = "cancel_requested" => d'.builds[b].state # "succeeded"]_vars

(* A committed receipt answers its own request again with the same outcome *)
(* and is never replaced (receiptReplay).                                  *)
ReceiptsAreFinal ==
    [][\A b \in Builds : /\ d.builds[b].complete # "none" => d'.builds[b] = d.builds[b]
                         /\ d.builds[b].source => d'.builds[b].source]_vars

(* What a deployment applies is the result of the configuration the        *)
(* resource has at that moment, on the daemon the binding knows.           *)
AppliedIsCurrent ==
    [][d.dep.st # "applied" /\ d'.dep.st = "applied" =>
        LET row == d.builds[d.dep.of]
        IN  row.state = "succeeded" /\ row.gen = d.gen /\ row.sgen = d.sgen
            /\ row.artifact \in {d.observed, row.daemon} /\ d.observed \in {"", row.artifact}]_vars

Unfinished(b) == Exists(d, b) /\ d.builds[b].state \in Running
=============================================================================
