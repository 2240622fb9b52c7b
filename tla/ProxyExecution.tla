--------------------------- MODULE ProxyExecution ---------------------------
(***************************************************************************)
(* One managed proxy from request to served configuration: administrators  *)
(* and maintainers change routes, grants and selections; the River job     *)
(* dispatches a generation; the runner prepares, journals, is admitted,    *)
(* lets the engine publish and reports; start-up reconciliation settles    *)
(* what a crash left in the journal; a metadata conflict is repaired from  *)
(* a reviewed plan.  Each database transaction is one action.              *)
(*                                                                         *)
(* The rows of one managed proxy: its routes, the hostname and destination *)
(* grants behind them, and the sequence of whole-proxy generations.  A     *)
(* generation is an operation with an immutable snapshot of every route's  *)
(* release; a strict generation (a verified switch) also records what each *)
(* switched route selected before.  Every operator below takes the rows d  *)
(* and returns the rows one statement, or one store function, leaves; the  *)
(* actions at the end chain them as the transactions do.                   *)
(***************************************************************************)
EXTENDS Integers, Sequences, FiniteSets

CONSTANTS
    Routes,      \* the routes of the proxy
    MaxRelease   \* bound on deployments; releases are numbered as they succeed

(* The constants satisfy:
     IsFiniteSet(Routes) /\ MaxRelease \in Nat \ {0} *)

Releases == 1..MaxRelease
NoRelease == 0      \* a route that a snapshot leaves out

Outcomes == {"applied", "rolled_back", "refused", "uncertain"}
Settled == {"applied", "rolled_back", "refused", "superseded", "canceled"}
Unadmitted == {"queued", "dispatched", "prepared"}
States == Settled \cup Unadmitted \cup {"applying", "uncertain", "cancel_requested"}

(* hosting_proxy_routes; version 0 stands for a row not created yet. *)
Route == [on : BOOLEAN, version : Nat, sel : Releases \cup {NoRelease}]
Snapshot == [Routes -> Releases \cup {NoRelease}]
(* HostingVerifiedSwitchRoute: the version and release a switch replaces. *)
Prior == [version : Nat, rel : Releases]
Switches == UNION {[R -> Prior] : R \in SUBSET Routes}
Ordinary == [r \in {} |-> 0]

(* hosting_proxy_operations with its task, admission and receipts.  prev is *)
(* the predecessor frozen in the plan, base the loaded generation a switch  *)
(* expects, task the state of the proxy_apply run, lease its attempt.       *)
Operation == [state : States, snap : Snapshot, sw : Switches, base : Nat, prev : Nat,
              task : {"none", "queued", "running", "succeeded", "failed", "canceled"},
              lease : {"none", "active", "ended"}, job : BOOLEAN, prepared : BOOLEAN,
              admitted : BOOLEAN, result : Outcomes \cup {"none"}, conflict : BOOLEAN,
              resolved : BOOLEAN, kind : {"route", "withdraw", "switch"}]

(* hosting_proxies; a generation is its operation's identity, 0 is none. *)
Proxy == [on : BOOLEAN, loaded : Nat, active : Nat, hold : Nat, restored : BOOLEAN]
Rows == [proxy : Proxy, routes : [Routes -> Route], granted : SUBSET Routes,
         healthy : Releases, retained : SUBSET Releases, ops : Seq(Operation)]

Strict(o) == o.sw # Ordinary
ProxyGeneration(d) == Len(d.ops)
Gens(d) == 1..Len(d.ops)

--------------------------------------------------------------------------
(* Statements on the proxy row. *)

ProxySetEnabled(d, on) == [d EXCEPT !.proxy.on = on]

ProxySetActive(d, g) ==
    IF d.proxy.active = 0 /\ d.proxy.hold = 0 THEN [d EXCEPT !.proxy.active = g] ELSE d

ProxyHold(d, g) == [d EXCEPT !.proxy.hold = g]

ProxyHoldAllowed(d, g) == d.proxy.active = g /\ d.proxy.hold = 0

ProxySettle(d, g, loaded) ==
    [d EXCEPT !.proxy.active = 0, !.proxy.hold = 0, !.proxy.loaded = loaded]

ProxySettleUnadmitted(d, g) ==
    IF d.proxy.active = g /\ d.proxy.hold = 0 THEN [d EXCEPT !.proxy.active = 0] ELSE d

(* Mutant: superseding clears the active operation whoever holds it. *)
ProxyClearActive(d) == [d EXCEPT !.proxy.active = 0]

(* The active operation is cleared only while nothing admitted holds it. *)
ProxyClearUnadmittedActive(d) ==
    IF d.proxy.active # 0 /\ d.proxy.hold = 0 /\ ~d.ops[d.proxy.active].admitted
    THEN [d EXCEPT !.proxy.active = 0] ELSE d

(* Statements on operations. *)
(* A job whose operation left the queued state finds nothing to do; the     *)
(* model drops it there.                                                    *)
ProxySetState(d, g, s) == [d EXCEPT !.ops[g].state = s, !.ops[g].job = FALSE]

ProxySupersedeUnadmitted(d) ==
    [d EXCEPT !.ops = [g \in Gens(d) |->
        IF d.ops[g].state \in Unadmitted /\ ~d.ops[g].admitted
        THEN [d.ops[g] EXCEPT !.state = "superseded", !.job = FALSE] ELSE d.ops[g]]]

ProxyCreateOperation(d, snap, sw, base, kind) ==
    [d EXCEPT !.ops = Append(@,
        [state |-> "queued", snap |-> snap, sw |-> sw, base |-> base, prev |-> 0,
         task |-> "none", lease |-> "none", job |-> TRUE, prepared |-> FALSE,
         admitted |-> FALSE, result |-> "none", conflict |-> FALSE,
         resolved |-> FALSE, kind |-> kind])]

ProxyDispatch(d, g) ==
    [d EXCEPT !.ops[g].state = "dispatched", !.ops[g].prev = d.proxy.loaded,
              !.ops[g].task = "queued", !.ops[g].job = FALSE]

ProxyAdmit(d, g) == [d EXCEPT !.ops[g].admitted = TRUE]

(* An operation still owns something: it holds the proxy or is not settled. *)
PendingOps(d) == {g \in Gens(d) : d.proxy.hold = g \/ d.ops[g].state \notin Settled}
ProxyPending(d) == PendingOps(d) # {}
ProxyStrictPending(d) == {g \in PendingOps(d) : Strict(d.ops[g])}

ProxyDeferredWithdrawals(d, settled) ==
    {g \in Gens(d) : g > settled /\ d.ops[g].state = "queued" /\ ~Strict(d.ops[g])}

ProxyQueuedRecovery(d) ==
    {g \in Gens(d) : d.ops[g].state = "queued" /\ d.ops[g].task = "none"}

(* The loaded generation's own operation, when it was applied. *)
ProxyLoadedAppliedOperation(d) ==
    IF d.proxy.loaded > 0 /\ d.ops[d.proxy.loaded].state = "applied"
    THEN d.proxy.loaded ELSE 0

ProxyRecoveryCompeting(d, g) ==
    \E h \in Gens(d) \ {g} :
        /\ d.ops[h].state \in Unadmitted \cup {"applying", "uncertain"}
        /\ d.ops[h].state # "queued" \/ Strict(d.ops[h]) \/ d.ops[h].admitted

--------------------------------------------------------------------------
(* Statements on routes and grants. *)

ProxyCreateRoute(d, r, rel) ==
    [d EXCEPT !.routes[r] = [on |-> TRUE, version |-> 1, sel |-> rel]]

ProxyUpdateRoute(d, r, rel) ==
    [d EXCEPT !.routes[r] = [on |-> TRUE, version |-> @.version + 1, sel |-> rel]]

ProxyDeleteRoute(d, r) ==
    [d EXCEPT !.routes[r].on = FALSE, !.routes[r].version = @ + 1]

ProxySwitchRoute(d, R, rel) ==
    [d EXCEPT !.routes = [r \in Routes |-> IF r \in R
        THEN [d.routes[r] EXCEPT !.sel = rel, !.version = @ + 1] ELSE d.routes[r]]]

(* Withdrawal disables the enabled routes of R and takes their version. *)
Withdraw(d, R) ==
    [d EXCEPT !.routes = [r \in Routes |-> IF r \in R /\ d.routes[r].on
        THEN [d.routes[r] EXCEPT !.on = FALSE, !.version = @ + 1] ELSE d.routes[r]]]

ProxyWithdrawAllRoutes(d) == Withdraw(d, Routes)
ProxyWithdrawGrantRoutes(d, r) == Withdraw(d, {r})
ProxyRevokeGrant(d, r) == [d EXCEPT !.granted = @ \ {r}]
ProxyCreateGrant(d, r) == [d EXCEPT !.granted = @ \cup {r}]

(* The candidate still owns route r: its version and selection are the ones *)
(* the switch wrote.                                                        *)
OwnsSelection(d, g, r) ==
    /\ d.routes[r].version = d.ops[g].sw[r].version + 1
    /\ d.routes[r].sel = d.ops[g].snap[r]

RestoreRoutes(d, g, R) ==
    [d EXCEPT !.routes = [r \in Routes |-> IF r \in R
        THEN [d.routes[r] EXCEPT !.sel = d.ops[g].sw[r].rel, !.version = @ + 1]
        ELSE d.routes[r]]]

ProxyRestoreSwitchRoute(d, g) ==
    RestoreRoutes(d, g, {r \in DOMAIN d.ops[g].sw : OwnsSelection(d, g, r)})

ProxyRecoveryRestoreRoute(d, g) ==
    RestoreRoutes(d, g, {r \in DOMAIN d.ops[g].sw : d.routes[r].sel # d.ops[g].sw[r].rel})

--------------------------------------------------------------------------
(* Store functions built from them. *)

(* proxyHealthyTarget: the grant is live and the release is retained running. *)
proxyHealthyTarget(d, r, rel) == r \in d.granted /\ rel \in d.retained

EnabledRoutes(d) == IF d.proxy.on THEN {r \in Routes : d.routes[r].on} ELSE {}

(* The snapshot of the current metadata, and whether it can be taken. *)
proxyCurrentScope(d) ==
    [r \in Routes |-> IF r \in EnabledRoutes(d) THEN d.routes[r].sel ELSE NoRelease]

ScopeHealthy(d) == \A r \in EnabledRoutes(d) : proxyHealthyTarget(d, r, d.routes[r].sel)

(* No strict operation is pending, so ordinary metadata may change. *)
proxyOrdinaryMutationAllowed(d) == ProxyStrictPending(d) = {}

proxyInsertSnapshot(d, snap, sw, supersede, kind) ==
    LET e == IF supersede THEN ProxyClearUnadmittedActive(ProxySupersedeUnadmitted(d)) ELSE d
    IN  ProxyCreateOperation(e, snap, sw, d.proxy.loaded, kind)

QueueAllowed(d) == proxyOrdinaryMutationAllowed(d) /\ ScopeHealthy(d)
queueProxyGeneration(d, kind) ==
    proxyInsertSnapshot(d, proxyCurrentScope(d), Ordinary, TRUE, kind)

(* Mutant: the candidate stays selected when a switch ends. *)
proxyRestoreSwitchMetadataKept(d, g) == d

(* A finished switch gives back the selections it still owns; when another  *)
(* change took one of them, the operation keeps (or takes) the hold.        *)
proxyRestoreSwitchMetadata(d, g) ==
    LET e == ProxyRestoreSwitchRoute(d, g)
        a == ProxySetActive(e, g)
        h == IF a.proxy.hold = 0 THEN ProxyHold(a, g) ELSE a
    IN  IF \A r \in DOMAIN d.ops[g].sw : OwnsSelection(d, g, r) THEN e
        ELSE [ProxySetState(h, g, "uncertain") EXCEPT !.ops[g].conflict = TRUE]

RestoreConflicts(d, g) == \E r \in DOMAIN d.ops[g].sw : ~OwnsSelection(d, g, r)

(* proxyPrepareRevocation: an unadmitted switch is undone and superseded. *)
Revocable(d) == {g \in ProxyStrictPending(d) : d.proxy.hold # g}

(* Mutant: revocation forgets to undo the switch it supersedes. *)
proxyPrepareRevocationKeeping(d) ==
    IF Revocable(d) = {} THEN d
    ELSE LET g == CHOOSE g \in Revocable(d) : TRUE
         IN  ProxySettleUnadmitted(ProxySetState(d, g, "superseded"), g)

proxyPrepareRevocation(d) ==
    IF Revocable(d) = {} THEN d
    ELSE LET g == CHOOSE g \in Revocable(d) : TRUE
             e == proxyRestoreSwitchMetadata(d, g)
         IN  IF RestoreConflicts(d, g) THEN e
             ELSE ProxySettleUnadmitted(ProxySetState(e, g, "superseded"), g)

(* The routes of the loaded generation that are still enabled and granted. *)
WithdrawnPredecessor(d) ==
    [r \in Routes |-> IF r \in EnabledRoutes(d) \cap d.granted
                      THEN d.ops[d.proxy.loaded].snap[r] ELSE NoRelease]

RevocationAllowed(d, held) ==
    IF held = 0 THEN QueueAllowed(d)
    ELSE /\ ProxyLoadedAppliedOperation(d) # 0
         /\ ProxyLoadedAppliedOperation(d) = d.ops[held].base

(* Mutant: a withdrawal is queued only behind a held switch. *)
proxyQueueRevocationHeld(d, held) ==
    IF held = 0 THEN d
    ELSE proxyInsertSnapshot(d, WithdrawnPredecessor(d), Ordinary, TRUE, "withdraw")

proxyQueueRevocation(d, held) ==
    IF held = 0 THEN queueProxyGeneration(d, "withdraw")
    ELSE proxyInsertSnapshot(d, WithdrawnPredecessor(d), Ordinary, TRUE, "withdraw")

HeldStrict(d) ==
    IF d.proxy.hold # 0 /\ Strict(d.ops[d.proxy.hold]) THEN d.proxy.hold ELSE 0

(* Mutant: an outcome leaves the deferred withdrawal as it was derived. *)
proxyFinishDeferredWithdrawalKept(d, settled) == d

(* A settled switch replaces a withdrawal deferred behind it by one of the  *)
(* metadata its outcome leaves.                                             *)
proxyFinishDeferredWithdrawal(d, settled) ==
    IF ProxyDeferredWithdrawals(d, settled) = {} THEN d
    ELSE queueProxyGeneration(d, "withdraw")

FinishAllowed(d, settled) ==
    ProxyDeferredWithdrawals(d, settled) = {} \/ QueueAllowed(d)

(* proxyValidateSnapshot: every route of the snapshot is still enabled and  *)
(* still resolves to the same healthy target.                               *)
proxyValidateSnapshot(d, g) ==
    \A r \in Routes : d.ops[g].snap[r] # NoRelease =>
        /\ r \in EnabledRoutes(d)
        /\ d.routes[r].sel = d.ops[g].snap[r]
        /\ proxyHealthyTarget(d, r, d.ops[g].snap[r])

HostingProxyPriorRoutes(o) ==
    [r \in Routes |-> IF r \in DOMAIN o.sw THEN o.sw[r].rel ELSE o.snap[r]]

proxyValidateStrictSnapshot(d, g) ==
    LET o == d.ops[g]
    IN  /\ d.proxy.on /\ ~d.proxy.restored
        /\ d.proxy.loaded = o.base
        /\ ProxyLoadedAppliedOperation(d) = o.base
        /\ d.ops[o.base].snap = HostingProxyPriorRoutes(o)
        /\ ScopeHealthy(d) /\ proxyCurrentScope(d) = o.snap
        /\ \A r \in DOMAIN o.sw : d.routes[r].version = o.sw[r].version + 1

proxyValidateOperationSnapshot(d, g) ==
    IF Strict(d.ops[g]) THEN proxyValidateStrictSnapshot(d, g) ELSE proxyValidateSnapshot(d, g)

(* HostingReleaseReferenced: cleanup keeps what a route selects, what the   *)
(* loaded, held or pending generations route to, and what a switch replaced. *)
Referencing(d) == PendingOps(d) \cup (Gens(d) \cap {d.proxy.loaded})

(* Mutant: only the pending generations protect their releases. *)
HostingReleaseReferencedPending(d, rel) ==
    \/ \E r \in Routes : d.routes[r].on /\ d.routes[r].sel = rel
    \/ \E g \in {h \in Gens(d) : d.ops[h].state \notin Settled} : \E r \in Routes :
           d.ops[g].snap[r] = rel

HostingReleaseReferenced(d, rel) ==
    \/ \E r \in Routes : d.routes[r].on /\ d.routes[r].sel = rel
    \/ \E g \in Referencing(d), r \in Routes : d.ops[g].snap[r] = rel
    \/ \E g \in PendingOps(d) : \E r \in DOMAIN d.ops[g].sw : d.ops[g].sw[r].rel = rel

-----------------------------------------------------------------------------
CONSTANTS
    Requests,    \* which kinds of requests and disturbances this instance has
    Installed,   \* whether the instance starts with a served first generation
    Switched,    \* the sets of routes a switch request may name
    MaxGen,      \* bound on generations
    MaxFaults    \* bound on crashes, lost leases and failing applies

VARIABLES
    d,           \* the rows
    pc, g,       \* the runner's place and the generation it works on
    out,         \* the engine outcome it carries
    journal,     \* the proxy entries of the attempt journal
    eng,         \* what the engine serves, and its local receipt
    plan,        \* the unexpired recovery plan, if any
    faults

vars == <<d, pc, g, out, journal, eng, plan, faults>>
runner == <<pc, g, out, journal, eng>>
memory == <<g, out>>

Phases == {"none", "intent", "committed"}
Places == {"down", "reconcile", "idle", "plan", "prepared", "intent", "begin",
           "apply", "publish", "verify", "record", "complete", "ack"}
NoEntries == [gen |-> 0, prepared |-> FALSE, intent |-> FALSE, result |-> "none"]
NoPlan == [gen |-> 0]

Row == d.ops[g]
Budget == faults < MaxFaults
Fault == Budget /\ faults' = faults + 1
NoFault == faults' = faults

(* An installed proxy whose first generation routes everything to release 1. *)
FirstGeneration ==
    [state |-> "applied", snap |-> [r \in Routes |-> 1], sw |-> Ordinary, base |-> 0, prev |-> 0,
     task |-> "succeeded", lease |-> "ended", job |-> FALSE, prepared |-> TRUE, admitted |-> TRUE,
     result |-> "applied", conflict |-> FALSE, resolved |-> FALSE, kind |-> "route"]

Init ==
    /\ d = [proxy |-> [on |-> Installed, loaded |-> IF Installed THEN 1 ELSE 0,
                       active |-> 0, hold |-> 0, restored |-> FALSE],
            routes |-> [r \in Routes |-> IF Installed THEN [on |-> TRUE, version |-> 1, sel |-> 1]
                                         ELSE [on |-> FALSE, version |-> 0, sel |-> NoRelease]],
            granted |-> Routes, healthy |-> 1, retained |-> {1},
            ops |-> IF Installed THEN <<FirstGeneration>> ELSE <<>>]
    /\ pc = "idle" /\ g = 0 /\ out = "none" /\ journal = NoEntries
    /\ eng = IF Installed THEN [served |-> 1, gen |-> 1, phase |-> "committed"]
             ELSE [served |-> 0, gen |-> 0, phase |-> "none"]
    /\ plan = NoPlan /\ faults = 0

--------------------------------------------------------------------------
(* Requests.  Each one is one transaction under the destination and proxy  *)
(* locks; room for another generation is the bound of the instance.        *)

Request(kind) == kind \in Requests /\ UNCHANGED <<runner, plan, faults>>
Queues == ProxyGeneration(d) < MaxGen

(* ConfigureHostingProxy creates the row and queues the first generation. *)
ConfigureHostingProxy ==
    /\ UNCHANGED <<runner, plan, faults>> /\ d.ops = <<>>
    /\ d' = queueProxyGeneration(ProxySetEnabled(d, TRUE), "withdraw")

(* A withdrawal: undo what can be undone, apply the change, queue. *)
Revocation(change(_)) ==
    LET e == change(proxyPrepareRevocation(d))
    IN  /\ Queues /\ RevocationAllowed(e, HeldStrict(e))
        /\ d' = proxyQueueRevocation(e, HeldStrict(e))

DisableProxy ==
    /\ Request("disable") /\ d.ops # <<>>
    /\ Revocation(LAMBDA e : ProxySetEnabled(ProxyWithdrawAllRoutes(e), FALSE))

(* Enabling has no revocation to prepare: it is an ordinary generation. *)
EnableProxy ==
    LET e == ProxySetEnabled(d, TRUE)
    IN  /\ Request("disable") /\ d.ops # <<>> /\ ~d.proxy.on /\ Queues
        /\ QueueAllowed(e) /\ d' = queueProxyGeneration(e, "withdraw")

RevokeHostingHostname(r) ==
    /\ Request("revoke") /\ d.ops # <<>> /\ r \in d.granted
    /\ Revocation(LAMBDA e : ProxyWithdrawGrantRoutes(ProxyRevokeGrant(e, r), r))

(* Granting again queues nothing: the route rows stay disabled. *)
GrantHostingHostname(r) ==
    /\ Request("grant") /\ r \notin d.granted
    /\ d' = ProxyCreateGrant(d, r)

(* proxyWithdrawDestinationProject: the project loses the destination; with *)
(* no enabled route there is nothing to withdraw and nothing is queued.     *)
RevokeDestination ==
    LET e == [proxyPrepareRevocation(d) EXCEPT !.granted = {}]
        w == ProxyWithdrawAllRoutes(e)
    IN  /\ Request("destination") /\ d.ops # <<>> /\ d.granted # {}
        /\ IF \E r \in Routes : e.routes[r].on
           THEN Queues /\ RevocationAllowed(w, HeldStrict(w))
                       /\ d' = proxyQueueRevocation(w, HeldStrict(w))
           ELSE d' = e

RequestHostingRoute(r) ==
    LET e == IF d.routes[r].version = 0 THEN ProxyCreateRoute(d, r, d.healthy)
             ELSE ProxyUpdateRoute(d, r, d.healthy)
    IN  /\ Request("route") /\ Queues /\ d.proxy.on /\ ~d.proxy.restored
        /\ r \in d.granted /\ QueueAllowed(e)
        /\ d' = queueProxyGeneration(e, "route")

DeleteHostingRoute(r) ==
    LET e == ProxyDeleteRoute(d, r)
    IN  /\ Request("delete") /\ Queues /\ d.routes[r].on
        /\ QueueAllowed(e) /\ d' = queueProxyGeneration(e, "withdraw")

(* requestHostingRouteSwitchTx: nothing is pending, and the metadata is     *)
(* exactly the loaded generation's.                                         *)
SwitchAllowed(R, rel) ==
    /\ d.proxy.on /\ ~d.proxy.restored /\ d.proxy.active = 0 /\ d.proxy.hold = 0
    /\ ~ProxyPending(d)
    /\ ProxyLoadedAppliedOperation(d) # 0
    /\ ScopeHealthy(d) /\ proxyCurrentScope(d) = d.ops[d.proxy.loaded].snap
    /\ \A r \in R : d.routes[r].on /\ d.routes[r].sel # rel /\ proxyHealthyTarget(d, r, rel)

RequestHostingRouteSwitch(R, rel) ==
    LET sw == [r \in R |-> [version |-> d.routes[r].version, rel |-> d.routes[r].sel]]
        e == ProxySwitchRoute(d, R, rel)
    IN  /\ Request("switch") /\ Queues /\ SwitchAllowed(R, rel)
        /\ d' = proxyInsertSnapshot(e, proxyCurrentScope(e), sw, FALSE, "switch")

(* CancelHostingProxyOperation: an admitted operation keeps its hold. *)
CancelHostingProxyOperation(h) ==
    LET held == d.proxy.hold = h
        e == proxyRestoreSwitchMetadata(d, h)
        c == IF held THEN ProxySetState(d, h, "cancel_requested")
             ELSE IF RestoreConflicts(d, h) THEN e
             ELSE ProxySettleUnadmitted(ProxySetState(e, h, "canceled"), h)
    IN  /\ Request("cancel")
        /\ d.ops[h].state \in Unadmitted \cup {"applying"}
        /\ d' = [c EXCEPT !.ops[h].lease = IF @ = "active" THEN "ended" ELSE @,
                          !.ops[h].task = IF @ = "none" THEN @ ELSE "canceled"]

(* The bindings behind the routes: a deployment makes another release the   *)
(* healthy one and retains the old; cleanup removes what nothing needs.     *)
Deploy(rel) ==
    /\ Request("deploy") /\ rel = d.healthy + 1
    /\ d' = [d EXCEPT !.healthy = rel, !.retained = @ \cup {rel}]

Cleanup(rel) ==
    /\ Request("cleanup") /\ rel \in d.retained \ {d.healthy}
    /\ ~HostingReleaseReferenced(d, rel)
    /\ d' = [d EXCEPT !.retained = @ \ {rel}]

EndLease(o) ==
    IF o.lease = "active" THEN [o EXCEPT !.lease = "ended", !.task = "queued"] ELSE o

(* A database restore marks every proxy; the mark is permanent. *)
RestoreDatabase ==
    /\ Request("restore") /\ d.ops # <<>> /\ ~d.proxy.restored
    /\ d' = [d EXCEPT !.proxy.restored = TRUE, !.ops = [h \in Gens(d) |-> EndLease(d.ops[h])]]

--------------------------------------------------------------------------
(* Dispatch. *)

(* PrepareProxy, the River handler.  A job that finds the proxy owned, held  *)
(* or restored ends without an effect; recovery enqueues it again.           *)
PrepareProxy(h) ==
    LET e == [d EXCEPT !.ops[h].job = FALSE]
        blocked == d.proxy.active # 0 \/ d.proxy.hold # 0 \/ d.proxy.restored
    IN  /\ d.ops[h].job /\ d.ops[h].state = "queued" /\ UNCHANGED <<runner, plan, faults>>
        /\ d' = IF blocked THEN e
                ELSE IF ~proxyValidateOperationSnapshot(d, h)
                THEN proxyRestoreSwitchMetadata(ProxySetState(e, h, "refused"), h)
                ELSE ProxyDispatch(ProxySetActive(e, h), h)

(* Mutant: the recovery loop does not look at queued generations. *)
recoverProxyDispatchNever(h) == FALSE /\ UNCHANGED vars

(* recoverProxyDispatch, each tick of the recovery loop. *)
recoverProxyDispatch(h) ==
    /\ h \in ProxyQueuedRecovery(d) /\ ~d.ops[h].job
    /\ d' = [d EXCEPT !.ops[h].job = TRUE]
    /\ UNCHANGED <<runner, plan, faults>>

(* The lease of an attempt lapses and its run is queued again. *)
ExpireLease(h) ==
    /\ d.ops[h].lease = "active" /\ Fault
    /\ d' = [d EXCEPT !.ops[h] = EndLease(@)] /\ UNCHANGED <<runner, plan>>

(* ProxyCheckAuthority for a live report. *)
Live(h) ==
    /\ d.ops[h].lease = "active" /\ d.ops[h].task = "running"
    /\ d.ops[h].state \notin {"cancel_requested", "canceled", "superseded"}

(* proxyAttemptLock *)
Attempt(h) == Live(h) /\ ~d.proxy.restored /\ d.proxy.active = h

--------------------------------------------------------------------------
(* The runner program.  A refused request or an error ends the process.     *)

Goto(place) == pc' = place /\ UNCHANGED memory
Ends == Goto("down") /\ UNCHANGED <<d, journal>>
AtRunner(place) == pc = place /\ UNCHANGED plan

ProxyClaimEligible(h) ==
    /\ d.ops[h].state \in {"dispatched", "prepared"} /\ d.ops[h].task = "queued"
    /\ d.proxy.active = h /\ d.proxy.hold = 0 /\ ~d.proxy.restored

ClaimRun(h) ==
    /\ AtRunner("idle") /\ ProxyClaimEligible(h)
    /\ d' = [d EXCEPT !.ops[h].lease = "active", !.ops[h].task = "running"]
    /\ pc' = "plan" /\ g' = h /\ out' = "none" /\ UNCHANGED <<journal, eng, faults>>

(* RunnerProxyPlan, local preparation, and the journal entry for it. *)
RunnerProxyPlan ==
    /\ AtRunner("plan") /\ NoFault /\ UNCHANGED eng
    /\ IF ~Attempt(g) \/ d.proxy.hold # 0 THEN Ends
       ELSE /\ Goto(IF Row.prepared THEN "intent" ELSE "prepared")
            /\ journal' = [journal EXCEPT !.gen = g, !.prepared = ~Row.prepared]
            /\ UNCHANGED d

PreparedAllowed(h) ==
    Attempt(h) /\ d.ops[h].state = "dispatched" /\ proxyValidateOperationSnapshot(d, h)

Prepared(h) == [ProxySetState(d, h, "prepared") EXCEPT !.ops[h].prepared = TRUE]

RunnerProxyPrepared ==
    /\ AtRunner("prepared") /\ NoFault /\ UNCHANGED eng
    /\ IF PreparedAllowed(g)
       THEN /\ d' = Prepared(g) /\ Goto("intent")
            /\ journal' = [journal EXCEPT !.prepared = FALSE]
       ELSE Ends

JournalIntent ==
    /\ AtRunner("intent") /\ NoFault /\ Goto("begin")
    /\ journal' = [journal EXCEPT !.gen = g, !.intent = TRUE] /\ UNCHANGED <<d, eng>>

(* Mutant: admission asks only for a running lease and a preparation. *)
ApplyAllowedLeased(h) == d.ops[h].lease = "active" /\ d.ops[h].prepared

(* RunnerProxyApplyBegin: still the newest generation, on the predecessor   *)
(* it was planned against, with targets that still hold.                    *)
ApplyAllowed(h) ==
    /\ Attempt(h) /\ d.ops[h].state = "prepared" /\ ProxyHoldAllowed(d, h)
    /\ ProxyGeneration(d) = h /\ d.ops[h].prev = d.proxy.loaded
    /\ proxyValidateOperationSnapshot(d, h)

RunnerProxyApplyBegin ==
    /\ AtRunner("begin") /\ NoFault /\ UNCHANGED <<journal, eng>>
    /\ IF ApplyAllowed(g)
       THEN d' = ProxySetState(ProxyAdmit(ProxyHold(d, g), g), g, "applying") /\ Goto("apply")
       ELSE Goto("down") /\ UNCHANGED d

--------------------------------------------------------------------------
(* The engine: a local receipt in phase intent precedes the file, and only  *)
(* a verified outcome commits a receipt again.                              *)

Result(o, place) == out' = o /\ pc' = place /\ UNCHANGED <<g, d, journal>>

(* A receipt left in phase intent makes any later apply uncertain, another  *)
(* predecessor makes it refused; a failed baseline check refuses a switch.  *)
EngineIntent ==
    /\ AtRunner("apply")
    /\ \/ /\ eng.phase = "intent" /\ Result("uncertain", "record") /\ UNCHANGED eng /\ NoFault
       \/ /\ eng.phase # "intent" /\ eng.gen # Row.prev
          /\ Result("refused", "record") /\ UNCHANGED eng /\ NoFault
       \/ /\ eng.phase # "intent" /\ Strict(Row) /\ Fault
          /\ Result("refused", "record") /\ UNCHANGED eng
       \/ /\ eng.phase # "intent" /\ eng.gen = Row.prev /\ NoFault
          /\ eng' = [eng EXCEPT !.phase = "intent"] /\ Result(out, "publish")

EnginePublish ==
    /\ AtRunner("publish") /\ NoFault
    /\ eng' = [eng EXCEPT !.served = g] /\ Result(out, "verify")

(* Mutant: a rollback restores the receipt before the file is verified. *)
EngineVerifyBlind ==
    /\ AtRunner("verify")
    /\ \/ NoFault /\ eng' = [eng EXCEPT !.gen = g, !.phase = "committed"] /\ Result("applied", "record")
       \/ /\ Row.prev # 0 /\ Fault
          /\ eng' = [eng EXCEPT !.phase = "committed"] /\ Result("rolled_back", "record")

EngineVerify ==
    /\ AtRunner("verify")
    /\ \/ NoFault /\ eng' = [eng EXCEPT !.gen = g, !.phase = "committed"] /\ Result("applied", "record")
       \/ /\ Row.prev # 0 /\ Fault
          /\ eng' = [served |-> Row.prev, gen |-> Row.prev, phase |-> "committed"]
          /\ Result("rolled_back", "record")
       \/ /\ Fault /\ \E s \in {g, Row.prev} : eng' = [eng EXCEPT !.served = s]
          /\ Result("uncertain", "record")

JournalResult ==
    /\ AtRunner("record") /\ NoFault /\ Goto("complete")
    /\ journal' = [journal EXCEPT !.result = out] /\ UNCHANGED <<d, eng>>

--------------------------------------------------------------------------
(* Completion. *)

Loaded(h, o) == IF o = "applied" THEN h ELSE d.ops[h].prev

Reported(h, o) ==
    [ProxySetState(d, h, o) EXCEPT !.ops[h].result = o, !.ops[h].lease = "ended",
        !.ops[h].task = IF o = "applied" THEN "succeeded" ELSE "failed"]

(* Mutant: an uncertain outcome settles like a rolled back one. *)
OwnershipSettled(h, o) ==
    LET m == IF o = "applied" THEN Reported(h, o) ELSE proxyRestoreSwitchMetadata(Reported(h, o), h)
    IN  IF m.ops[h].conflict THEN m ELSE ProxySettle(m, h, Loaded(h, o))

(* Uncertainty and a metadata conflict keep the hold. *)
Ownership(h, o) ==
    LET m == IF o \in {"rolled_back", "refused"}
             THEN proxyRestoreSwitchMetadata(Reported(h, o), h) ELSE Reported(h, o)
    IN  IF o = "uncertain" \/ m.ops[h].conflict THEN m ELSE ProxySettle(m, h, Loaded(h, o))

(* RunnerProxyComplete: the receipt, the state, the lease and task, the     *)
(* metadata of a rejected switch, ownership, and a deferred withdrawal, in  *)
(* one transaction, which fails when the withdrawal cannot be derived.      *)
Finishes(h, e) == Strict(d.ops[h]) /\ e.proxy.hold = 0
Completed(h, o) ==
    LET e == Ownership(h, o)
    IN  IF Finishes(h, e) THEN proxyFinishDeferredWithdrawal(e, h) ELSE e

CompleteAllowed(h, o) ==
    /\ Attempt(h) /\ d.ops[h].state = "applying"
    /\ LET e == Ownership(h, o) IN Finishes(h, e) => FinishAllowed(e, h)

(* Mutant: the journal is cleared whatever the controller answered. *)
AcknowledgedAlways(h, o) == d.ops[h].result = o

(* proxyResultAcknowledged: settled with exactly this outcome. *)
Acknowledged(h, o) ==
    d.ops[h].result = o /\ d.proxy.hold # h /\ d.ops[h].state = o /\ o # "uncertain"

RunnerProxyComplete ==
    /\ AtRunner("complete") /\ NoFault /\ UNCHANGED eng
    /\ IF CompleteAllowed(g, out) THEN d' = Completed(g, out) /\ Goto("ack") /\ UNCHANGED journal
       ELSE Ends

AckResult ==
    /\ AtRunner("ack") /\ NoFault /\ UNCHANGED <<d, eng>>
    /\ IF Acknowledged(g, out)
       THEN journal' = NoEntries /\ Goto(IF out = "applied" THEN "idle" ELSE "down")
       ELSE Goto("down") /\ UNCHANGED journal

Crash ==
    /\ pc \notin {"down"} /\ Fault /\ UNCHANGED <<d, journal, eng, plan>>
    /\ pc' = "down" /\ g' = 0 /\ out' = "none"

Restart ==
    /\ AtRunner("down") /\ pc' = "reconcile" /\ g' = 0 /\ out' = "none"
    /\ UNCHANGED <<d, journal, eng, faults>>

--------------------------------------------------------------------------
(* reconcileProxyJournal, before any heartbeat or claim: it never applies.  *)
(* Entries are read phase by phase; what cannot be proved ends the process. *)

Abandoned(h) == d.ops[h].result = "none" /\ d.ops[h].state \in {"canceled", "superseded"}
Reconcile == pc = "reconcile" /\ NoFault /\ UNCHANGED <<plan, eng>>
Unproved == Ends

ReconcilePrepared ==
    LET h == journal.gen
    IN  /\ Reconcile /\ journal.prepared
        /\ IF ~d.proxy.restored /\ (d.ops[h].prepared \/ PreparedAllowed(h) \/ Abandoned(h))
           THEN /\ d' = IF ~d.ops[h].prepared /\ PreparedAllowed(h) THEN Prepared(h) ELSE d
                /\ journal' = [journal EXCEPT !.prepared = FALSE] /\ UNCHANGED <<pc, memory>>
           ELSE Unproved

(* verifyProxyLocalReceipt *)
LocalReceipt(h, o) == eng.phase # "intent" /\ eng.gen = Loaded(h, o)

(* A committed receipt is only compared; an uncommitted one is sent while   *)
(* the attempt is still live.                                               *)
ReconcileResult ==
    LET h == journal.gen
        o == journal.result
    IN  /\ Reconcile /\ ~journal.prepared /\ o # "none"
        /\ IF d.proxy.restored THEN Unproved
           ELSE IF d.ops[h].result = "none" /\ CompleteAllowed(h, o)
           THEN d' = Completed(h, o) /\ UNCHANGED <<pc, memory, journal>>
           ELSE IF d.ops[h].result # "none" /\ Acknowledged(h, o) /\ LocalReceipt(h, o)
           THEN journal' = [journal EXCEPT !.result = "none"] /\ UNCHANGED <<pc, memory, d>>
           ELSE Unproved

(* Mutant: an intent without a result is dropped as if nothing happened. *)
IntentProvedAnyway(h) == ~d.proxy.restored

(* An intent ends with a committed, settled result, or with a generation    *)
(* that ended unadmitted.                                                   *)
IntentProved(h) ==
    /\ ~d.proxy.restored /\ d.proxy.hold # h /\ d.ops[h].prepared
    /\ \/ Abandoned(h)
       \/ /\ d.ops[h].result # "none" /\ Acknowledged(h, d.ops[h].result)
          /\ LocalReceipt(h, d.ops[h].result)

ReconcileIntent ==
    /\ Reconcile /\ ~journal.prepared /\ journal.result = "none" /\ journal.intent
    /\ IF IntentProved(journal.gen)
       THEN journal' = [journal EXCEPT !.intent = FALSE] /\ UNCHANGED <<pc, memory, d>>
       ELSE Unproved

ReconcileDone ==
    /\ Reconcile /\ ~journal.prepared /\ ~journal.intent /\ journal.result = "none"
    /\ journal' = NoEntries /\ Goto("idle") /\ UNCHANGED d

--------------------------------------------------------------------------
(* Repair of a completed metadata conflict. *)

(* proxyRecoveryScope: the operation holds the proxy, its engine outcome is *)
(* committed and rejected, its attempt is over and nothing competes.        *)
Recoverable(h) ==
    /\ d.proxy.hold = h /\ d.proxy.active = h /\ ~d.proxy.restored
    /\ d.ops[h].state = "uncertain" /\ d.ops[h].conflict /\ ~d.ops[h].resolved
    /\ d.ops[h].result \in {"rolled_back", "refused"}
    /\ d.ops[h].task = "failed" /\ d.ops[h].lease = "ended"
    /\ d.ops[h].prev = d.proxy.loaded /\ ProxyLoadedAppliedOperation(d) = d.ops[h].base
    /\ ~ProxyRecoveryCompeting(d, h)

(* The facts a review binds: the proxy, every route and grant, and the      *)
(* withdrawals deferred behind the hold.                                    *)
Review(h) ==
    [gen |-> h, proxy |-> d.proxy, routes |-> d.routes, granted |-> d.granted,
     deferred |-> ProxyDeferredWithdrawals(d, h)]

PlanHostingProxyRecovery(h) ==
    /\ "recover" \in Requests /\ Recoverable(h) /\ plan = NoPlan
    /\ plan' = Review(h) /\ UNCHANGED <<d, runner, faults>>

(* Thirty seconds pass. *)
ExpirePlan ==
    /\ plan # NoPlan /\ Fault /\ plan' = NoPlan /\ UNCHANGED <<d, runner>>

Reviewed(h) == plan.gen = h /\ Recoverable(h) /\ plan = Review(h)

(* Mutant: recovery settles without repairing the selections. *)
RecoveredUnrestored(h) ==
    LET e == ProxySettle(ProxySetState(d, h, d.ops[h].result), h, d.proxy.loaded)
    IN  [proxyQueueRevocation(e, h) EXCEPT !.ops[h].resolved = TRUE, !.ops[h].conflict = FALSE]

(* Mutant: recovery converges on the rejected snapshot. *)
RecoveredCandidate(h) ==
    LET r == ProxyRecoveryRestoreRoute(d, h)
        e == ProxySettle(ProxySetState(r, h, d.ops[h].result), h, d.proxy.loaded)
    IN  [proxyInsertSnapshot(e, d.ops[h].snap, Ordinary, TRUE, "withdraw")
           EXCEPT !.ops[h].resolved = TRUE, !.ops[h].conflict = FALSE]

Recovered(h) ==
    LET r == ProxyRecoveryRestoreRoute(d, h)
        e == ProxySettle(ProxySetState(r, h, d.ops[h].result), h, d.proxy.loaded)
    IN  [proxyQueueRevocation(e, h) EXCEPT !.ops[h].resolved = TRUE, !.ops[h].conflict = FALSE]

ApplyHostingProxyRecovery(h) ==
    /\ Reviewed(h) /\ d' = Recovered(h)
    /\ plan' = NoPlan /\ UNCHANGED <<runner, faults>>

--------------------------------------------------------------------------
(* The whole proxy.                                                         *)

Administration ==
    \/ ConfigureHostingProxy \/ DisableProxy \/ EnableProxy \/ RevokeDestination
    \/ RestoreDatabase
    \/ \E r \in Routes : \/ RevokeHostingHostname(r) \/ GrantHostingHostname(r)
                         \/ RequestHostingRoute(r) \/ DeleteHostingRoute(r)
    \/ \E R \in Switched, rel \in Releases : RequestHostingRouteSwitch(R, rel)
    \/ \E h \in Gens(d) : CancelHostingProxyOperation(h)
    \/ \E rel \in Releases : Deploy(rel) \/ Cleanup(rel)

Recovery == \E h \in Gens(d) :
    PlanHostingProxyRecovery(h) \/ ApplyHostingProxyRecovery(h)

Dispatch == \E h \in Gens(d) : PrepareProxy(h) \/ recoverProxyDispatch(h)

RunnerSteps ==
    \/ RunnerProxyPlan \/ RunnerProxyPrepared \/ JournalIntent \/ RunnerProxyApplyBegin
    \/ EngineIntent \/ EnginePublish \/ EngineVerify \/ JournalResult
    \/ RunnerProxyComplete \/ AckResult \/ Restart
    \/ ReconcilePrepared \/ ReconcileResult \/ ReconcileIntent \/ ReconcileDone
    \/ \E h \in Gens(d) : ClaimRun(h)

Disturbance == Crash \/ ExpirePlan \/ \E h \in Gens(d) : ExpireLease(h)

Next == Administration \/ Recovery \/ Dispatch \/ RunnerSteps \/ Disturbance

Spec == Init /\ [][Next]_vars

--------------------------------------------------------------------------
(* What readers are told. *)

(* ProxyRouteOperation: the holding operation first, then the newest that    *)
(* concerns the route; a deletion concerns a route that is off already.      *)
Concerns(h, r) == d.ops[h].snap[r] # NoRelease \/ r \in DOMAIN d.ops[h].sw
ProxyRouteOperation(r) ==
    LET about == {h \in Gens(d) : Concerns(h, r)}
    IN  IF about = {} THEN 0
        ELSE IF d.proxy.hold \in about THEN d.proxy.hold
        ELSE CHOOSE h \in about : \A k \in about : k <= h

(* The targets a verified result proved, none while the result is missing   *)
(* or proves nothing.                                                       *)
Proved(o) ==
    IF o.result = "applied" THEN o.snap
    ELSE IF Strict(o) /\ o.result = "rolled_back" THEN HostingProxyPriorRoutes(o)
    ELSE [r \in Routes |-> NoRelease]

(* Mutant: readiness ignores that the route was withdrawn since. *)
proxyRouteStatusDisabled(r) ==
    LET h == ProxyRouteOperation(r)
    IN  h # 0 /\ h # d.proxy.hold /\ Proved(d.ops[h])[r] \in {d.routes[r].sel} \ {NoRelease}

(* proxyRouteStatus: whether the route is reported ready. *)
proxyRouteStatus(r) ==
    LET h == ProxyRouteOperation(r)
    IN  /\ h # 0 /\ h # d.proxy.hold /\ d.routes[r].on
        /\ Proved(d.ops[h])[r] \in {d.routes[r].sel} \ {NoRelease}

(* switchReadRouteTarget: why route r cannot be described, if it cannot. *)
switchReadRouteTarget(r) == IF proxyHealthyTarget(d, r, d.routes[r].sel) THEN "" ELSE "stale_routes"

(* Mutant: options do not compare the metadata with the loaded generation. *)
HostingRouteSwitchOptionsStale ==
    IF ~d.proxy.on THEN "proxy_unavailable" ELSE IF d.proxy.restored THEN "restore_hold"
    ELSE IF ProxyPending(d) THEN "busy" ELSE IF d.proxy.loaded = 0 THEN "no_loaded_generation"
    ELSE IF EnabledRoutes(d) = {} THEN "no_routes" ELSE "available"

(* The reason options are offered or withheld, read without locks; the      *)
(* targets are the releases retained running.                               *)
HostingRouteSwitchOptions ==
    IF ~d.proxy.on THEN "proxy_unavailable"
    ELSE IF d.proxy.restored THEN "restore_hold"
    ELSE IF ProxyPending(d) \/ d.proxy.active # 0 \/ d.proxy.hold # 0 THEN "busy"
    ELSE IF d.proxy.loaded = 0 THEN "no_loaded_generation"
    ELSE IF EnabledRoutes(d) = {} THEN "no_routes"
    ELSE IF \/ ProxyLoadedAppliedOperation(d) = 0
            \/ \E r \in EnabledRoutes(d) : switchReadRouteTarget(r) # ""
            \/ proxyCurrentScope(d) # d.ops[d.proxy.loaded].snap
    THEN "stale_routes"
    ELSE "available"

--------------------------------------------------------------------------
(* Properties. *)

Snap(h) == IF h = 0 THEN [r \in Routes |-> NoRelease] ELSE d.ops[h].snap
Serves(r) == Snap(eng.served)[r] # NoRelease
Authorized(r) == r \in EnabledRoutes(d) \cap d.granted

(* The rows, the runner and the engine stay in their types. *)
XTypeOK ==
    /\ d.proxy \in Proxy /\ d.routes \in [Routes -> Route] /\ d.granted \subseteq Routes
    /\ d.healthy \in d.retained /\ d.retained \subseteq Releases
    /\ \A h \in Gens(d) : d.ops[h].state \in States /\ d.ops[h].snap \in Snapshot
    /\ d.proxy.active \in 0..Len(d.ops) /\ d.proxy.hold \in {0, d.proxy.active}
    /\ pc \in Places /\ out \in Outcomes \cup {"none"} /\ eng.phase \in Phases

(* While no operation holds the proxy, the engine serves exactly the         *)
(* generation the proxy row calls loaded, under a committed local receipt:   *)
(* RunnerProxyApplyBegin takes the hold before any effect and only a proved  *)
(* outcome releases it.                                                      *)
SettledIsServed ==
    d.proxy.hold = 0 =>
        /\ eng.served = d.proxy.loaded /\ eng.gen = d.proxy.loaded
        /\ eng.phase = IF d.proxy.loaded = 0 THEN "none" ELSE "committed"

(* Every release the engine routes traffic to is retained running, whatever  *)
(* was deployed since and however the last operation ended: cleanup asks     *)
(* HostingReleaseReferenced.                                                 *)
ServedIsRetained ==
    \A r \in Routes : Serves(r) => Snap(eng.served)[r] \in d.retained

(* When nothing is pending or held and every generation after the loaded one *)
(* was a switch, the metadata is the loaded generation's again: a rejected,  *)
(* canceled or refused switch leaves no trace in the selections.             *)
SwitchLeavesNoTrace ==
    /\ ~ProxyPending(d) /\ d.proxy.loaded > 0
    /\ \A h \in Gens(d) : h > d.proxy.loaded => Strict(d.ops[h])
    => proxyCurrentScope(d) = Snap(d.proxy.loaded)

(* A switch that ended without being applied and holds nothing is selected   *)
(* by no route it switched, disabled ones included, until another request    *)
(* selects a release: metadata restoration, revocation and recovery all give *)
(* the prior release back.                                                   *)
RejectedIsUnselected ==
    \A h \in Gens(d) :
        /\ Strict(d.ops[h]) /\ d.ops[h].state \in Settled \ {"applied"} /\ d.proxy.hold # h
        /\ \A k \in Gens(d) : k > h => d.ops[k].kind = "withdraw"
        => \A r \in DOMAIN d.ops[h].sw : d.routes[r].sel = d.ops[h].sw[r].rel

(* A route that lost its authority while it is served is on its way out: a   *)
(* generation without it is pending, or ownership is held, or an             *)
(* administrator or the engine ended the withdrawal.  SupersedeUnadmitted    *)
(* and deferral behind a switch never lose a withdrawal.                     *)
WithdrawalIsNotLost ==
    \A r \in Routes : Snap(d.proxy.loaded)[r] # NoRelease /\ ~Authorized(r) =>
        \/ d.proxy.hold # 0
        \/ \E h \in Gens(d) : h > d.proxy.loaded /\ Snap(h)[r] = NoRelease
              /\ (d.ops[h].state \notin Settled \/ d.ops[h].state = "canceled" \/ d.ops[h].admitted)

(* An admitted effect that holds the proxy keeps its evidence: the runner's  *)
(* journal has the intent of the operation until the controller settled it.  *)
HoldIsJournaled ==
    d.proxy.hold # 0 /\ d.ops[d.proxy.hold].admitted =>
        journal.gen = d.proxy.hold /\ journal.intent

(* A generation is admitted only over the generation the engine serves, and  *)
(* publishes only routes that are enabled, granted and still select what it  *)
(* publishes.                                                                *)
AdmissionIsCurrent ==
    [][\A h \in Gens(d) : ~d.ops[h].admitted /\ d'.ops[h].admitted =>
        /\ eng.served = d.ops[h].prev
        /\ \A r \in Routes : Snap(h)[r] # NoRelease =>
             Authorized(r) /\ d.routes[r].sel = Snap(h)[r]]_vars

(* Recovery publishes nothing of the rejected candidate: the generation it   *)
(* queues takes each route from the loaded predecessor or leaves it out, and *)
(* the loaded generation stays what it was.                                  *)
RecoveryConverges ==
    [][\A h \in Gens(d) : ~d.ops[h].resolved /\ d'.ops[h].resolved =>
        LET c == d'.ops[Len(d'.ops)]
        IN  /\ d'.proxy.loaded = d.proxy.loaded
            /\ \A r \in Routes : c.snap[r] =
                 IF Authorized(r) THEN Snap(d.proxy.loaded)[r] ELSE NoRelease]_vars

(* A route reported ready is served, to the release its row selects: the     *)
(* status binds readiness to a proved result that still matches the row.     *)
ReadyIsServed ==
    \A r \in Routes : proxyRouteStatus(r) => Snap(eng.served)[r] = d.routes[r].sel

(* Options are offered exactly when a switch to one of them would be         *)
(* admitted: the lock-free read and the locked admission agree.              *)
OptionsMatchAdmission ==
    \A r \in Routes, rel \in d.retained :
        d.routes[r].on /\ d.routes[r].sel # rel =>
            ((HostingRouteSwitchOptions = "available") <=> SwitchAllowed({r}, rel))

Queued(h) == h \in Gens(d) /\ d.ops[h].state = "queued"

(* Still served although its grant or its row was withdrawn. *)
Unwithdrawn(r) == Serves(r) /\ ~Authorized(r)
=============================================================================
