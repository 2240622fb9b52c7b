------------------------- MODULE HostingOperations -------------------------
(***************************************************************************)
(* Image deployments and release cleanups on one destination:              *)
(* internal/store/postgres_hosting_execution.go with                       *)
(* sql/hosting_execution.sql and RequeueExpiredRun of sql/scheduler.sql.   *)
(*                                                                         *)
(* A destination has one server and one runner, and every transaction here *)
(* takes the destination's advisory lock before it decides, so an action   *)
(* is a whole transaction.  The exception is PrepareDeployment, which      *)
(* reads the operation before it waits for the lock: it is two actions.    *)
(* Exact repeats are answered from the stored receipt and change nothing.  *)
(* The sweep inside a claim is the step ExpireRun before the claim.        *)
(***************************************************************************)
EXTENDS Integers, FiniteSets, FiniteSetsExt

CONSTANTS Op, Binding, NoOp, NoBinding,
          Port,              \* the ports of the hosting range
          MaxAttempts,       \* bound on the leases of a deploy or cleanup task
          MaxObservations,   \* bound on the leases of an observation task
          Events             \* what may disturb the operations

ASSUME HostingAssumption ==
    /\ NoOp \notin Op /\ NoBinding \notin Binding
    /\ Port \subseteq Nat \ {0} /\ IsFiniteSet(Port)
    /\ MaxAttempts \in Nat /\ MaxObservations \in Nat
    /\ Events \subseteq {"route", "grant", "runner", "cancel", "observe", "lapse", "restore"}

VARIABLES state,        \* hosting_operations.state, "absent" before the insert
          bind,         \* hosting_operations.binding_id
          port,         \* hosting_snapshots.body.host_port
          target,       \* hosting_cleanup_targets.target_operation_id, NoOp for a deployment
          release,      \* operations with a hosting_releases row and its plan
          prev,         \* the healthy release that the stored plan names
          admitted,     \* operations with a hosting_apply_admissions row
          result,       \* the body of the complete receipt
          requested,    \* operations with reconcile_requested
          run, lease,   \* task_runs.status and the task's last lease
          tries,        \* leases granted to the task
          hold,         \* hosting_binding_state.hold_operation_id
          healthy,      \* hosting_binding_state.healthy
          firstPort,    \* hosting_binding_state.host_port, 0 without a row
          claim,        \* hosting_release_claims.state
          slot,         \* hosting_release_slots.binding_id
          ledger,       \* hosting_retained_releases.state
          running,      \* releases with retained_running
          referenced,   \* releases that a route or a proxy generation uses
          granted,      \* bindings whose project grant is not revoked
          runnerActive, \* the destination's runner is active and enrolled
          restoreHeld,  \* hosting_binding_restore_holds
          handler,      \* operations that a dispatch handler has read as queued
          touching      \* operations whose Docker commands may be running

opVars == <<state, bind, port, target, release, prev, admitted, result, requested>>

taskVars == <<run, lease, tries>>

portVars == <<firstPort, claim, slot, ledger, running>>

envVars == <<referenced, granted, runnerActive, restoreHeld>>

vars == <<opVars, taskVars, hold, healthy, portVars, envVars, handler, touching>>

(* An operation has one deploy or cleanup task, and one observation task. *)
Task == Op \X {"main", "observe"}

Main(o) == <<o, "main">>

Observe(o) == <<o, "observe">>

Attempts(t) == IF t[2] = "main" THEN MaxAttempts ELSE MaxObservations

Terminal == {"succeeded", "failed", "canceled"}

OperationState ==
    Terminal \cup {"absent", "queued", "dispatched", "preparing", "prepared", "applying",
                   "verifying", "cancel_requested", "reconciliation_required"}

(* "restored" is a failure after which the previous release runs again;    *)
(* "failed" leaves that open, "uncertain" says that nothing is known.      *)
Result == {"succeeded", "restored", "failed", "uncertain"}

HTypeOK ==
    /\ state \in [Op -> OperationState] /\ bind \in [Op -> Binding \cup {NoBinding}]
    /\ port \in [Op -> Port \cup {0}] /\ target \in [Op -> Op \cup {NoOp}]
    /\ release \subseteq Op /\ admitted \subseteq Op /\ requested \subseteq Op
    /\ prev \in [Op -> Op \cup {NoOp}] /\ result \in [Op -> Result \cup {"none"}]
    /\ run \in [Task -> {"none", "queued", "running", "over"}]
    /\ lease \in [Task -> {"none", "active", "lapsed", "over"}]
    /\ \A t \in Task : tries[t] \in 0 .. Attempts(t)
    /\ hold \in [Binding -> Op \cup {NoOp}] /\ healthy \in [Binding -> Op \cup {NoOp}]
    /\ firstPort \in [Binding -> Port \cup {0}]
    /\ claim \in [Op -> {"none", "reserved", "held", "retained", "released"}]
    /\ slot \in [Port -> Binding \cup {NoBinding}]
    /\ ledger \in [Op -> {"none", "healthy", "retained", "cleanup_pending", "removed"}]
    /\ running \subseteq Op /\ referenced \subseteq Op
    /\ granted \subseteq Binding /\ runnerActive \in BOOLEAN /\ restoreHeld \subseteq Binding
    /\ handler \subseteq Op /\ touching \subseteq Op

Init ==
    /\ state = [o \in Op |-> "absent"] /\ bind = [o \in Op |-> NoBinding]
    /\ port = [o \in Op |-> 0] /\ target = [o \in Op |-> NoOp]
    /\ release = {} /\ prev = [o \in Op |-> NoOp] /\ admitted = {}
    /\ result = [o \in Op |-> "none"] /\ requested = {}
    /\ run = [t \in Task |-> "none"] /\ lease = [t \in Task |-> "none"]
    /\ tries = [t \in Task |-> 0]
    /\ hold = [b \in Binding |-> NoOp] /\ healthy = [b \in Binding |-> NoOp]
    /\ firstPort = [b \in Binding |-> 0] /\ claim = [o \in Op |-> "none"]
    /\ slot = [p \in Port |-> NoBinding] /\ ledger = [o \in Op |-> "none"]
    /\ running = {} /\ referenced = {} /\ granted = Binding
    /\ runnerActive = TRUE /\ restoreHeld = {} /\ handler = {} /\ touching = {}

-----------------------------------------------------------------------------
OnPort(p) == {o \in Op : port[o] = p}

Holds(o) == bind[o] \in Binding /\ hold[bind[o]] = o

(* The task's lease is active and has not passed its expiry. *)
Live(t) == lease[t] = "active"

(* hostingTargetGate, in the order of its checks. *)
Gate(b) ==
    CASE b \notin granted -> "conflict"
      [] b \in restoreHeld -> "held"
      [] ~runnerActive -> "conflict"
      [] OTHER -> "open"

(* The gate in observe mode does not stop at a restore hold. *)
ObserveGate(b) == b \in granted /\ runnerActive

(* Mutant: only an operation that holds the binding makes it busy. *)
BusyWhenHeld(b) == hold[b] # NoOp

HostingBindingBusy(b) == \E o \in Op : bind[o] = b /\ state[o] \notin Terminal

(* Mutant: a route to the healthy release does not count. *)
OldReleaseReferenced(p) == {r \in referenced \cap OnPort(p) : ledger[r] # "healthy"} # {}

HostingReleasePortReferenced(p) == referenced \cap OnPort(p) # {}

(* The plan leaves the previous release running when it has another port. *)
RetainPrevious(o) == prev[o] # NoOp /\ port[prev[o]] # port[o]

(* Mutant: only releases on record keep a slot. *)
ReclaimUnrecorded(p) ==
    /\ \A o \in OnPort(p) : ledger[o] \in {"none", "removed"}
    /\ \A b \in Binding : firstPort[b] # p

(* ReclaimUnusedHostingReleaseSlots, for one slot. *)
Reclaimable(p) ==
    /\ \E o \in OnPort(p) : claim[o] = "released"
    /\ \A o \in OnPort(p) : /\ claim[o] \in {"none", "released"}
                            /\ ledger[o] \in {"none", "removed"}
                            /\ state[o] \in Terminal
    /\ \A b \in Binding : firstPort[b] # p
    /\ slot[p] \in Binding => hold[slot[p]] = NoOp /\ slot[p] \notin restoreHeld
    /\ ~HostingReleasePortReferenced(p)

(* Mutant: a release that still runs on the port is overlooked. *)
ReusableByClaims(p, b) ==
    /\ \A o \in OnPort(p) : claim[o] \notin {"reserved", "held"}
    /\ \A c \in Binding \ {b} : firstPort[c] # p

HostingReleaseSlotReusable(p, b) ==
    /\ \A o \in OnPort(p) : claim[o] \notin {"reserved", "held"}
    /\ \A o \in OnPort(p) \ {healthy[b]} :
           /\ ledger[o] # "cleanup_pending"
           /\ ledger[o] \in {"healthy", "retained"} => o \notin running
    /\ \A c \in Binding \ {b} : firstPort[c] # p

(* Without a requested port the server first reclaims slots. *)
SlotsFor(auto) == [p \in Port |-> IF auto /\ Reclaimable(p) THEN NoBinding ELSE slot[p]]

(* resolveHostingReleasePort: p is the requested port, or the lowest one   *)
(* that has neither a slot nor a reservation.                              *)
ResolveHostingReleasePort(b, p, auto) ==
    LET free == {q \in Port : SlotsFor(auto)[q] = NoBinding /\ \A c \in Binding : firstPort[c] # q}
    IN  /\ auto => free # {} /\ p = Min(free)
        /\ ~HostingReleasePortReferenced(p)
        /\ HostingReleaseSlotReusable(p, b)
        /\ SlotsFor(auto)[p] \in {NoBinding, b}

RequestHostingDeployment(o, b, p, auto) ==
    /\ state[o] = "absent"
    /\ Gate(b) = "open"
    /\ hold[b] = NoOp
    /\ ~HostingBindingBusy(b)
    /\ ResolveHostingReleasePort(b, p, auto)
    /\ slot' = [SlotsFor(auto) EXCEPT ![p] = b]
    /\ firstPort' = [firstPort EXCEPT ![b] = IF @ = 0 THEN p ELSE @]
    /\ state' = [state EXCEPT ![o] = "queued"]
    /\ bind' = [bind EXCEPT ![o] = b]
    /\ port' = [port EXCEPT ![o] = p]
    /\ claim' = [claim EXCEPT ![o] = "reserved"]
    /\ UNCHANGED <<target, release, prev, admitted, result, requested, taskVars, hold, healthy,
                   ledger, running, envVars, handler, touching>>

(* hostingCleanupUnreferenced; current is the healthy release of the plan. *)
HostingCleanupUnreferenced(r, current) ==
    /\ ledger[r] \in {"retained", "cleanup_pending"}
    /\ r \notin referenced
    /\ healthy[bind[r]] # r /\ healthy[bind[r]] = current

(* The snapshot of a cleanup is the one of its target, port included. *)
RequestHostingReleaseCleanup(o, r) ==
    LET b == bind[r]
    IN  /\ state[o] = "absent"
        /\ ledger[r] = "retained"
        /\ Gate(b) = "open"
        /\ HostingCleanupUnreferenced(r, healthy[b])
        /\ hold[b] = NoOp
        /\ ~HostingBindingBusy(b)
        /\ state' = [state EXCEPT ![o] = "queued"]
        /\ bind' = [bind EXCEPT ![o] = b]
        /\ port' = [port EXCEPT ![o] = port[r]]
        /\ target' = [target EXCEPT ![o] = r]
        /\ prev' = [prev EXCEPT ![o] = healthy[b]]
        /\ UNCHANGED <<release, admitted, result, requested, taskVars, hold, healthy, portVars,
                       envVars, handler, touching>>

-----------------------------------------------------------------------------
(* ReleaseHostingFailedClaim, which a cleanup has no row for. *)
ReleaseHostingFailedClaim(o) ==
    [claim EXCEPT ![o] = IF @ = "none" THEN @ ELSE "released"]

(* The River job reads the operation, and then waits in the gate.  Jobs    *)
(* are unique by operation, so one handler runs for it at a time.          *)
ReadQueuedOperation(o) ==
    /\ state[o] = "queued"
    /\ o \notin handler
    /\ handler' = handler \cup {o}
    /\ UNCHANGED <<opVars, taskVars, hold, healthy, portVars, envVars, touching>>

(* Mutant: a refused operation is left for the next try. *)
PrepareWhenOpen(o) ==
    /\ o \in handler
    /\ handler' = handler \ {o}
    /\ IF Gate(bind[o]) = "open" /\ state[o] = "queued"
       THEN /\ state' = [state EXCEPT ![o] = "dispatched"]
            /\ run' = [run EXCEPT ![Main(o)] = "queued"]
       ELSE UNCHANGED <<state, run>>
    /\ UNCHANGED <<bind, port, target, release, prev, admitted, result, requested, lease, tries,
                   hold, healthy, portVars, envVars, touching>>

PrepareDeployment(o) ==
    LET refused == Gate(bind[o]) = "conflict"
        dispatched == Gate(bind[o]) = "open" /\ state[o] = "queued"
    IN  /\ o \in handler
        /\ handler' = handler \ {o}
        /\ state' = [state EXCEPT ![o] = IF dispatched THEN "dispatched"
                                         ELSE IF refused /\ @ = "queued" THEN "failed" ELSE @]
        /\ claim' = IF refused THEN ReleaseHostingFailedClaim(o) ELSE claim
        /\ run' = IF dispatched THEN [run EXCEPT ![Main(o)] = "queued"] ELSE run
        /\ UNCHANGED <<bind, port, target, release, prev, admitted, result, requested, lease, tries,
                       hold, healthy, firstPort, slot, ledger, running, envVars, touching>>

(* hostingClaimAllowed *)
HostingClaimAllowed(t) ==
    LET o == t[1]
    IN  IF t = Observe(o)
        THEN o \in requested /\ ObserveGate(bind[o])
        ELSE /\ ~Holds(o)
             /\ state[o] \in {"dispatched", "preparing", "prepared"}
             /\ Gate(bind[o]) = "open"

(* A lease for a queued task. *)
Grant(t) ==
    /\ tries[t] < Attempts(t)
    /\ run' = [run EXCEPT ![t] = "running"]
    /\ lease' = [lease EXCEPT ![t] = "active"]
    /\ tries' = [tries EXCEPT ![t] = @ + 1]
    /\ UNCHANGED <<opVars, hold, healthy, portVars, envVars, handler, touching>>

ClaimRun(t) ==
    /\ run[t] = "queued"
    /\ HostingClaimAllowed(t)
    /\ Grant(t)

(* Time passes a lease that its runner did not renew. *)
Lapse(t) ==
    /\ "lapse" \in Events
    /\ Live(t)
    /\ lease' = [lease EXCEPT ![t] = "lapsed"]
    /\ UNCHANGED <<opVars, run, tries, hold, healthy, portVars, envVars, handler, touching>>

(* RequeueExpiredRun for the tasks of S.  It does not look at the state    *)
(* that the operation has.                                                 *)
RequeueExpiredRuns(S) ==
    /\ lease' = [t \in Task |-> IF t \in S THEN "over" ELSE lease[t]]
    /\ run' = [t \in Task |-> IF t \notin S THEN run[t]
                              ELSE IF t = Main(t[1]) /\ Holds(t[1]) THEN "over" ELSE "queued"]
    /\ state' = [o \in Op |-> IF Main(o) \notin S THEN state[o]
                              ELSE IF Holds(o) THEN "reconciliation_required"
                              ELSE IF o \in release THEN "prepared" ELSE "dispatched"]
    /\ UNCHANGED hold

ExpireRun(t) ==
    /\ lease[t] = "lapsed"
    /\ RequeueExpiredRuns({t})
    /\ UNCHANGED <<bind, port, target, release, prev, admitted, result, requested, tries, healthy,
                   portVars, envVars, handler, touching>>

-----------------------------------------------------------------------------
HostingRunnerPlan(o) ==
    /\ Live(Main(o))
    /\ state[o] \in {"dispatched", "preparing", "prepared"}
    /\ Gate(bind[o]) = "open"
    /\ ~Holds(o)
    /\ state' = [state EXCEPT ![o] = IF target[o] # NoOp THEN "prepared"
                                     ELSE IF @ = "dispatched" THEN "preparing" ELSE @]
    /\ UNCHANGED <<bind, port, target, release, prev, admitted, result, requested, taskVars, hold,
                   healthy, portVars, envVars, handler, touching>>

HostingPrepared(o) ==
    /\ target[o] = NoOp
    /\ Live(Main(o))
    /\ state[o] \in {"preparing", "prepared"}
    /\ Gate(bind[o]) = "open"
    /\ o \notin release
    /\ hold[bind[o]] = NoOp
    /\ release' = release \cup {o}
    /\ prev' = [prev EXCEPT ![o] = healthy[bind[o]]]
    /\ state' = [state EXCEPT ![o] = "prepared"]
    /\ UNCHANGED <<bind, port, target, admitted, result, requested, taskVars, hold, healthy,
                   portVars, envVars, handler, touching>>

(* AdmitHostingMutation: from here on the runner may change the host. *)
Admit(o) ==
    /\ Live(Main(o))
    /\ Gate(bind[o]) = "open"
    /\ state[o] = "prepared"
    /\ hold[bind[o]] = NoOp
    /\ hold' = [hold EXCEPT ![bind[o]] = o]
    /\ admitted' = admitted \cup {o}
    /\ state' = [state EXCEPT ![o] = "applying"]
    /\ touching' = touching \cup {o}
    /\ UNCHANGED <<bind, port, target, release, prev, result, requested, taskVars, healthy,
                   firstPort, slot, running, envVars, handler>>

HostingApplyBegin(o) ==
    /\ o \in release
    /\ RetainPrevious(o) \/ ~HostingReleasePortReferenced(port[o])
    /\ Admit(o)
    /\ claim' = [claim EXCEPT ![o] = IF @ = "reserved" THEN "held" ELSE @]
    /\ UNCHANGED ledger

AdmitHostingCleanup(o) ==
    /\ target[o] # NoOp
    /\ HostingCleanupUnreferenced(target[o], prev[o])
    /\ ledger[target[o]] = "retained"
    /\ Admit(o)
    /\ ledger' = [ledger EXCEPT ![target[o]] = "cleanup_pending"]
    /\ UNCHANGED claim

(* HostingStatus with phase verifying *)
HostingStatus(o) ==
    /\ Live(Main(o))
    /\ target[o] = NoOp
    /\ Holds(o)
    /\ state[o] = "applying"
    /\ state' = [state EXCEPT ![o] = "verifying"]
    /\ UNCHANGED <<bind, port, target, release, prev, admitted, result, requested, taskVars, hold,
                   healthy, portVars, envVars, handler, touching>>

(* The runner's last command is over; it may have lost its lease before. *)
RunnerStops(o) ==
    /\ o \in touching
    /\ touching' = touching \ {o}
    /\ UNCHANGED <<opVars, taskVars, hold, healthy, portVars, envVars, handler>>
-----------------------------------------------------------------------------
(* The task and its lease end with the report. *)
Settle(t) ==
    /\ lease' = [lease EXCEPT ![t] = "over"]
    /\ run' = [run EXCEPT ![t] = "over"]
    /\ UNCHANGED tries

(* Mutant: every failure is taken for a restored one. *)
AnyFailureIsCertain(o, res) == Holds(o) /\ res = "uncertain"

(* A failure that did not restore the previous release leaves the hold. *)
Unsettled(o, res) == Holds(o) /\ res \in {"failed", "uncertain"}

(* Mutant: the runner's outcome is stored as it is. *)
OutcomeVerbatim(o, res) == IF Unsettled(o, res) THEN "reconciliation_required" ELSE res

OutcomeState(o, res) ==
    IF Unsettled(o, res) THEN "reconciliation_required"
    ELSE IF res = "succeeded" THEN "succeeded" ELSE "failed"

(* Mutant: the previous release stays marked healthy. *)
RecordHealthyOnly(o) == [ledger EXCEPT ![o] = "healthy"]

(* RetainPreviousHostingRelease and RecordHostingHealthyRelease *)
LedgerAfterSuccess(o) ==
    [r \in Op |-> IF r = o THEN "healthy"
                  ELSE IF r = prev[o] /\ ledger[r] = "healthy" THEN "retained" ELSE ledger[r]]

(* HostingComplete for a deployment.  The runner reports success, or the   *)
(* previous release restored, only when its commands are over.             *)
HostingComplete(o, res) ==
    LET b == bind[o]
        healed == res = "succeeded"
        failed == ~healed /\ ~Unsettled(o, res)
    IN  /\ target[o] = NoOp
        /\ Live(Main(o))
        /\ state[o] \notin Terminal
        /\ IF Holds(o) THEN res \in {"succeeded", "restored"} => o \notin touching
                       ELSE res = "failed" /\ state[o] # "cancel_requested"
        /\ result' = [result EXCEPT ![o] = res]
        /\ Settle(Main(o))
        /\ state' = [state EXCEPT ![o] = OutcomeState(o, res)]
        /\ hold' = [hold EXCEPT ![b] = IF @ = o /\ ~Unsettled(o, res) THEN NoOp ELSE @]
        /\ healthy' = [healthy EXCEPT ![b] = IF healed THEN o ELSE @]
        /\ ledger' = IF healed THEN LedgerAfterSuccess(o) ELSE ledger
        /\ running' = IF ~healed THEN running
                      ELSE IF RetainPrevious(o) THEN running \cup {o} ELSE (running \ {prev[o]}) \cup {o}
        /\ claim' = IF failed THEN ReleaseHostingFailedClaim(o)
                    ELSE IF healed THEN [claim EXCEPT ![o] = "retained"] ELSE claim
        /\ UNCHANGED <<bind, port, target, release, prev, admitted, requested, firstPort, slot, envVars,
                       handler, touching>>

(* ReleaseHostingCleanupClaim and ReleaseUnusedHostingSlot *)
SlotsAfterCleanup(r) ==
    LET unused == /\ \A o \in OnPort(port[r]) \ {r} : /\ claim[o] \in {"none", "released"}
                                                      /\ ledger[o] \in {"none", "removed"}
                  /\ \A b \in Binding : firstPort[b] # port[r]
    IN  IF unused THEN [slot EXCEPT ![port[r]] = NoBinding] ELSE slot

(* completeHostingCleanup: anything but a success leaves the hold. *)
CompleteHostingCleanup(o, res) ==
    LET r == target[o]
        removed == res = "succeeded"
    IN  /\ r # NoOp
        /\ Live(Main(o))
        /\ Holds(o)
        /\ state[o] = "applying"
        /\ removed => o \notin touching
        /\ result' = [result EXCEPT ![o] = res]
        /\ Settle(Main(o))
        /\ state' = [state EXCEPT ![o] = IF removed THEN "succeeded" ELSE "reconciliation_required"]
        /\ hold' = [hold EXCEPT ![bind[o]] = IF removed THEN NoOp ELSE @]
        /\ ledger' = [ledger EXCEPT ![r] = IF removed THEN "removed" ELSE @]
        /\ running' = IF removed THEN running \ {r} ELSE running
        /\ claim' = IF removed THEN ReleaseHostingFailedClaim(r) ELSE claim
        /\ slot' = IF removed THEN SlotsAfterCleanup(r) ELSE slot
        /\ UNCHANGED <<bind, port, target, release, prev, admitted, requested, healthy, firstPort,
                       envVars, handler, touching>>

-----------------------------------------------------------------------------
(* Mutant: the cancellation leaves the leases to expire. *)
CancelOperationOnly(o) ==
    /\ "cancel" \in Events
    /\ state[o] \notin Terminal \cup {"absent"}
    /\ state' = [state EXCEPT ![o] = IF Holds(o) THEN "cancel_requested" ELSE "canceled"]
    /\ requested' = requested \ {o}
    /\ claim' = IF Holds(o) THEN claim ELSE ReleaseHostingFailedClaim(o)
    /\ UNCHANGED <<bind, port, target, release, prev, admitted, result, taskVars, hold, healthy,
                   firstPort, slot, ledger, running, envVars, handler, touching>>

(* hostingControlMutation, cancel: an operation that holds its binding     *)
(* keeps the hold, and both tasks end.                                     *)
CancelHostingOperation(o) ==
    LET ended == {t \in Task : t[1] = o /\ run[t] # "none"}
    IN  /\ "cancel" \in Events
        /\ state[o] \notin Terminal \cup {"absent"}
        /\ state' = [state EXCEPT ![o] = IF Holds(o) THEN "cancel_requested" ELSE "canceled"]
        /\ requested' = requested \ {o}
        /\ claim' = IF Holds(o) THEN claim ELSE ReleaseHostingFailedClaim(o)
        /\ lease' = [t \in Task |-> IF t \in ended /\ lease[t] \in {"active", "lapsed"}
                                    THEN "over" ELSE lease[t]]
        /\ run' = [t \in Task |-> IF t \in ended THEN "over" ELSE run[t]]
        /\ UNCHANGED <<bind, port, target, release, prev, admitted, result, tries, hold, healthy,
                       firstPort, slot, ledger, running, envVars, handler, touching>>

(* hostingControlMutation, reconcile: the observation task is created, or  *)
(* queued again.                                                           *)
RequestHostingReconciliation(o) ==
    /\ "observe" \in Events
    /\ state[o] # "absent"
    /\ o \notin requested
    /\ ObserveGate(bind[o])
    /\ requested' = requested \cup {o}
    /\ run' = [run EXCEPT ![Observe(o)] = "queued"]
    /\ UNCHANGED <<state, bind, port, target, release, prev, admitted, result, lease, tries, hold,
                   healthy, portVars, envVars, handler, touching>>

(* ClaimHostingObservation: a runner that once had the deployment's lease  *)
(* takes the observation over from a lapsed lease, or from the queue.      *)
ClaimHostingObservation(o) ==
    /\ target[o] = NoOp
    /\ tries[Main(o)] > 0
    /\ ObserveGate(bind[o])
    /\ o \in requested
    /\ ~Live(Observe(o))
    /\ Grant(Observe(o))

(* Mutant: an observation settles any operation that has reported. *)
ObservationSettlesAny(o) == Holds(o) /\ ~Live(Main(o))

(* What an observation can settle: a hold whose operation has reported a   *)
(* certain result.                                                         *)
ObservationSettles(o) ==
    /\ Holds(o) /\ ~Live(Main(o)) /\ o \in release
    /\ result[o] = "succeeded" \/ (result[o] = "restored" /\ prev[o] # NoOp)

(* HostingReconciliation, when what the runner sees is what is expected. *)
HostingReconciliation(o) ==
    LET b == bind[o]
        settles == ObservationSettles(o)
    IN  /\ Live(Observe(o))
        /\ ObserveGate(b)
        /\ o \in requested
        /\ b \notin restoreHeld
        /\ Holds(o) => settles
        /\ ~Holds(o) => ~(o \in admitted /\ result[o] = "none")
        /\ healthy' = [healthy EXCEPT ![b] = IF ~settles THEN @
                                             ELSE IF result[o] = "succeeded" THEN o ELSE prev[o]]
        /\ hold' = [hold EXCEPT ![b] = IF settles THEN NoOp ELSE @]
        /\ state' = [state EXCEPT ![o] = IF ~settles THEN @
                                         ELSE IF result[o] = "succeeded" THEN "succeeded" ELSE "failed"]
        /\ requested' = requested \ {o}
        /\ Settle(Observe(o))
        /\ UNCHANGED <<bind, port, target, release, prev, admitted, result, portVars, envVars,
                       handler, touching>>

-----------------------------------------------------------------------------
(* RequestHostingRoute: a route selects the healthy release of a binding   *)
(* that no operation is working on.                                        *)
RequestHostingRoute(b) ==
    /\ "route" \in Events
    /\ ~HostingBindingBusy(b)
    /\ b \in granted /\ b \notin restoreHeld
    /\ hold[b] = NoOp
    /\ healthy[b] # NoOp
    /\ ledger[healthy[b]] \in {"healthy", "retained"} /\ healthy[b] \in running
    /\ referenced' = referenced \cup {healthy[b]}
    /\ UNCHANGED <<opVars, taskVars, hold, healthy, portVars, granted, runnerActive, restoreHeld,
                   handler, touching>>

(* The route is withdrawn, and the proxy has loaded a generation without it. *)
WithdrawRoute(o) ==
    /\ o \in referenced
    /\ referenced' = referenced \ {o}
    /\ UNCHANGED <<opVars, taskVars, hold, healthy, portVars, granted, runnerActive, restoreHeld,
                   handler, touching>>

(* A grant is revoked or given again; the runner goes stale or comes back. *)
ChangeGrant(b) ==
    /\ "grant" \in Events
    /\ granted' = IF b \in granted THEN granted \ {b} ELSE granted \cup {b}
    /\ UNCHANGED <<opVars, taskVars, hold, healthy, portVars, referenced, runnerActive, restoreHeld,
                   handler, touching>>

ChangeRunner ==
    /\ "runner" \in Events
    /\ runnerActive' = ~runnerActive
    /\ UNCHANGED <<opVars, taskVars, hold, healthy, portVars, referenced, granted, restoreHeld,
                   handler, touching>>

(* Mutant: the restored leases stay active. *)
RestoreHoldsOnly ==
    /\ "restore" \in Events
    /\ restoreHeld = {} /\ restoreHeld' = Binding
    /\ UNCHANGED <<opVars, taskVars, hold, healthy, portVars, referenced, granted, runnerActive,
                   handler, touching>>

(* The offline restore of a backup that holds the current rows: every      *)
(* lease is invalidated and every binding is held for good.                *)
Restore ==
    /\ "restore" \in Events
    /\ restoreHeld = {}
    /\ RequeueExpiredRuns({t \in Task : lease[t] \in {"active", "lapsed"}})
    /\ restoreHeld' = Binding
    /\ handler' = {}
    /\ UNCHANGED <<bind, port, target, release, prev, admitted, result, requested, tries, healthy,
                   portVars, referenced, granted, runnerActive, touching>>

Next ==
    \/ \E o \in Op, b \in Binding, p \in Port, auto \in BOOLEAN : RequestHostingDeployment(o, b, p, auto)
    \/ \E o, r \in Op : RequestHostingReleaseCleanup(o, r)
    \/ \E o \in Op :
           \/ ReadQueuedOperation(o)
           \/ PrepareDeployment(o)
           \/ HostingRunnerPlan(o)
           \/ HostingPrepared(o)
           \/ HostingApplyBegin(o)
           \/ AdmitHostingCleanup(o)
           \/ HostingStatus(o)
           \/ RunnerStops(o)
           \/ CancelHostingOperation(o)
           \/ RequestHostingReconciliation(o)
           \/ ClaimHostingObservation(o)
           \/ HostingReconciliation(o)
           \/ WithdrawRoute(o)
           \/ \E res \in Result : HostingComplete(o, res) \/ CompleteHostingCleanup(o, res)
    \/ \E t \in Task : ClaimRun(t) \/ Lapse(t) \/ ExpireRun(t)
    \/ \E b \in Binding : RequestHostingRoute(b) \/ ChangeGrant(b)
    \/ ChangeRunner
    \/ Restore

Spec == Init /\ [][Next]_vars

-----------------------------------------------------------------------------
(* A runner whose Docker commands may be running holds the binding, after  *)
(* it lost its lease, was canceled or reported an uncertain end as well:   *)
(* no two runners change one binding's containers.                         *)
MutationIsExclusive == \A o \in touching : Holds(o)

(* A binding has at most one operation under way, and a hold belongs to    *)
(* an operation that was admitted and is not over.                         *)
OneOperationPerBinding ==
    /\ \A o, q \in {u \in Op : state[u] \notin Terminal \cup {"absent"}} :
           bind[o] = bind[q] => o = q
    /\ \A b \in Binding : hold[b] # NoOp =>
           /\ bind[hold[b]] = b /\ hold[b] \in admitted
           /\ state[hold[b]] \in {"applying", "verifying", "cancel_requested", "reconciliation_required"}

(* Releases that may have a container on their port: the recorded running  *)
(* ones, and the one of a deployment that was let at the host.             *)
MayListen ==
    {o \in Op : \/ ledger[o] \in {"healthy", "retained", "cleanup_pending"} /\ o \in running
                \/ target[o] = NoOp /\ Holds(o)}

(* Two releases share a host port only while a deployment replaces the     *)
(* healthy release of its own binding in place.                            *)
PortsAreExclusive ==
    \A o, q \in MayListen : o # q /\ port[o] = port[q] =>
        \/ Holds(o) /\ prev[o] = q
        \/ Holds(q) /\ prev[q] = o

(* The healthy pointer of a binding and the release ledger agree, and the  *)
(* healthy release keeps its claim.                                        *)
HealthyIsInLedger ==
    \A o \in Op : (ledger[o] = "healthy") <=>
        /\ bind[o] \in Binding /\ healthy[bind[o]] = o
        /\ state[o] = "succeeded" /\ o \in running /\ claim[o] = "retained"

(* A claim that is not released has its slot: reclaiming and cleanup never *)
(* hand out the port of an open operation or a kept release.               *)
ClaimsHaveSlots ==
    \A o \in Op :
        /\ claim[o] \in {"reserved", "held", "retained"} => slot[port[o]] = bind[o]
        /\ state[o] \notin Terminal \cup {"absent"} /\ target[o] = NoOp => claim[o] \in {"reserved", "held"}

(* A release that a route or the proxy uses runs, and nobody has been let  *)
(* at the host to replace or remove it.                                    *)
ReferencedReleasesRun ==
    \A r \in referenced :
        /\ ledger[r] \in {"healthy", "retained"} /\ r \in running
        /\ \A o \in Op : Holds(o) => target[o] # r /\ (prev[o] = r => RetainPrevious(o) \/ target[o] # NoOp)

(* An operation that is over stays over, although an expired lease writes  *)
(* the state of its operation unconditionally.                             *)
TerminalOperationIsFinal ==
    [][\A o \in Op : state[o] \in Terminal => state'[o] = state[o]]_vars

(* Only the runner that was let at the host ends a hold, with a live lease *)
(* and after its last command: no cancellation, expiry or observation does.*)
OnlyHolderEndsHold ==
    [][\A b \in Binding : hold[b] # NoOp /\ hold'[b] # hold[b] =>
           Live(Main(hold[b])) /\ hold[b] \notin touching /\ hold'[b] = NoOp]_vars

(* Nothing moves on a binding of a restored database: neither its hold nor *)
(* its healthy release.                                                    *)
RestoredBindingsStayStill ==
    [][\A b \in restoreHeld : hold'[b] = hold[b] /\ healthy'[b] = healthy[b]]_vars

(* Neither dispatched, refused nor canceled, and no restore holds it. *)
Undecided(o) == state[o] = "queued" /\ restoreHeld = {}
=============================================================================
