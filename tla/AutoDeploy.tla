----------------------------- MODULE AutoDeploy -----------------------------
(***************************************************************************)
(* Automatic deployment of one resource with one route: the demand a       *)
(* verified push records, the controller that moves it from build to       *)
(* deployment to route switch, the runner that admits and finishes both    *)
(* operations, cleanup of superseded work, and the owner who meanwhile     *)
(* deploys and switches by hand or changes the policy.  The n-th push has  *)
(* commit, build, deployment, switch and demand number n; release 0 is the *)
(* reviewed manual one and release -k the owner's k-th manual choice.      *)
(***************************************************************************)
EXTENDS Integers, FiniteSets

CONSTANTS
    MaxPush,        \* bound on verified pushes
    MaxManual,      \* bound on the owner's manual selections
    MaxGeneration,  \* bound on policy generations
    MaxAttempts,    \* GitHubPushMaxAttempts, the shared budget
    MaxLoads,       \* bound on loads by unrelated resources
    Changes         \* the disturbances of this instance

(* The constants satisfy:
     MaxPush > 0 /\ MaxAttempts > 1 *)

Pushes == 1..MaxPush
Manual == {-k : k \in 1..MaxManual}
Releases == {0} \cup Pushes \cup Manual
Operations == Pushes \cup Manual
Kinds == {"deployment", "switch"}
Selection == [version : Nat, release : Releases]

Waiting == {"waiting_build", "waiting_deployment", "waiting_switch"}
Ended == {"succeeded", "failed", "blocked", "expired"}

(* hosting_operations and hosting_proxy_operations, by number.  admitted is *)
(* the first apply receipt; a held operation is admitted and uncertain.     *)
Operation == [state : {"none", "queued", "applying", "held", "succeeded", "failed", "canceled"},
              admitted : BOOLEAN, prior : Selection]
NoOperation == [state |-> "none", admitted |-> FALSE, prior |-> [version |-> 0, release |-> 0]]
Settled == {"succeeded", "failed", "canceled"}

(* hosting_auto_deploy_origins: what the demand and the control said when   *)
(* the operation was requested.                                             *)
Origin == [gen : Nat, epoch : Nat, route : Selection, base : Nat, attempts : 0..MaxAttempts]
NoOrigin == [gen |-> 0, epoch |-> 0, route |-> [version |-> 0, release |-> 0], base |-> 0, attempts |-> 0]

Reviewed == [version |-> 1, release |-> 0]
NoDemand == [id |-> 0, gen |-> 0, epoch |-> 0, stage |-> "blocked", attempts |-> 0, open |-> FALSE]

VARIABLES
    d,          \* the rows, and what the proxy has loaded
    authority,  \* owner, actor, grants, placement, runtime and capabilities are as reviewed
    wake,       \* the resource has a River job
    todo,       \* the controller's list of unsettled origins, read before its transactions
    busy        \* the controller is between that read and its last transaction

vars == <<d, authority, wake, todo, busy>>

Init ==
    /\ d = [policy |-> [gen |-> 1, enabled |-> TRUE, desired |-> 0],
            control |-> [epoch |-> 0, seen |-> 0, route |-> Reviewed, base |-> 1],
            demand |-> NoDemand,
            build |-> [n \in Pushes |-> "none"],
            deploy |-> [n \in Pushes |-> NoOperation],
            switch |-> [n \in Operations |-> NoOperation],
            origin |-> [k \in Kinds |-> [n \in Pushes |-> NoOrigin]],
            route |-> Reviewed,
            proxy |-> [active |-> 0, hold |-> 0],
            loaded |-> [gen |-> 1, release |-> 0]]
    /\ authority = TRUE /\ wake = FALSE /\ todo = {} /\ busy = FALSE

--------------------------------------------------------------------------
(* Statements and the functions built from them. *)

Row(x, kind, n) == IF kind = "deployment" THEN x.deploy[n] ELSE x.switch[n]

AutoAdvanceDemand(x, stage, attempts) == [x EXCEPT !.demand.stage = stage, !.demand.attempts = attempts]
Advance(x, stage) == AutoAdvanceDemand(x, stage, x.demand.attempts)

AutoBumpManualEpoch(x) == [x EXCEPT !.control.epoch = @ + 1]

(* A newer push replaces the current demand, whatever its stage.            *)
AutoReplaceDemand(x, n) ==
    [x EXCEPT !.demand = [id |-> n, gen |-> x.policy.gen, epoch |-> x.control.seen, stage |-> "waiting_build",
                          attempts |-> 1, open |-> TRUE]]

AutoInsertOrigin(x, kind, n, base) ==
    [x EXCEPT !.origin[kind][n] = [gen |-> x.demand.gen, epoch |-> x.demand.epoch, route |-> x.control.route,
                                   base |-> base, attempts |-> x.demand.attempts + 1]]

HasOrigin(x, kind, n) == n \in Pushes /\ x.origin[kind][n] # NoOrigin

AutoUnsettledOrigins(x) ==
    {o \in Kinds \X Pushes : HasOrigin(x, o[1], o[2]) /\ Row(x, o[1], o[2]).state \notin Settled}

AutoUpdateBaseline(x, route, base) == [x EXCEPT !.control.route = route, !.control.base = base]

(* What a switch of origin o leaves on the route it was given.              *)
Switched(o, n) == [version |-> o.route.version + 1, release |-> n]

autoSelections(x) == x.route = x.control.route

(* autoLoadedHTTPS of the loaded predecessor: it carries the release.       *)
autoLoadedHTTPS(x, release) == x.loaded.release = release

autoCurrent(x) == authority /\ x.control.epoch = x.control.seen

(* Mutant: a manual change does not invalidate the demand. *)
autoLiveWhateverEpoch(x, n, deadline) ==
    /\ x.policy.enabled /\ authority
    /\ x.demand.id = n /\ x.demand.gen = x.policy.gen /\ n = x.policy.desired
    /\ deadline => x.demand.open /\ x.demand.attempts <= MaxAttempts

(* The demand is the current one of the current policy, under the authority *)
(* and the manual epoch the owner reviewed.                                 *)
autoLive(x, n, deadline) ==
    /\ x.policy.enabled /\ autoCurrent(x)
    /\ x.demand.id = n /\ x.demand.gen = x.policy.gen /\ n = x.policy.desired
    /\ x.demand.epoch = x.control.seen
    /\ deadline => x.demand.open /\ x.demand.attempts <= MaxAttempts

(* Mutant: the runner's first apply is not checked again. *)
FirstMutationUnchecked(x, kind, n) == TRUE

(* The first apply of an operation the controller requested; an operation   *)
(* without an origin is the owner's.                                        *)
autoFirstMutation(x, kind, n) ==
    HasOrigin(x, kind, n) =>
       LET o == x.origin[kind][n]
       IN  /\ autoLive(x, n, TRUE)
           /\ x.demand.stage \in {"waiting_deployment", "waiting_switch"}
           /\ o.attempts <= x.demand.attempts
           /\ kind = "deployment" => x.control.base = o.base /\ x.route = o.route
           /\ kind = "switch" => x.route = Switched(o, n)

(* requestHostingBuildDeploymentTx: one unsettled operation per binding.    *)
DeploymentFree(x) == \A n \in Pushes : x.deploy[n].state \in {"none"} \cup Settled
RequestDeployment(x, n) == [x EXCEPT !.deploy[n].state = "queued"]

(* requestHostingRouteSwitchTx: nothing is active or held, and the route is *)
(* the one the request names.                                               *)
SwitchFree(x, n, expected) == x.proxy.active = 0 /\ x.proxy.hold = 0 /\ x.route = expected
(* Mutant: a switch keeps the version of the route it changes. *)
RequestSameVersion(x, n) ==
    [x EXCEPT !.switch[n] = [state |-> "queued", admitted |-> FALSE, prior |-> x.route],
              !.route.release = n, !.proxy.active = n]

RequestSwitch(x, n) ==
    [x EXCEPT !.switch[n] = [state |-> "queued", admitted |-> FALSE, prior |-> x.route],
              !.route = [version |-> x.route.version + 1, release |-> n],
              !.proxy.active = n]

Owns(x, n) == x.route.version = x.switch[n].prior.version + 1 /\ x.route.release = n

(* Mutant: a canceled switch leaves its selection on the route. *)
KeepSelection(x, n) == [x EXCEPT !.proxy.active = 0]

(* proxyRestoreSwitchMetadata: compare and swap; a lost race keeps a hold.  *)
RestoreSwitch(x, n) ==
    IF Owns(x, n)
    THEN [x EXCEPT !.route = [version |-> @.version + 1, release |-> x.switch[n].prior.release], !.proxy.active = 0]
    ELSE [x EXCEPT !.proxy.hold = n]

--------------------------------------------------------------------------
(* The controller: PrepareHostingAutoDeploy. *)

Rest == UNCHANGED <<authority, wake>>

Begin ==
    /\ wake /\ ~busy
    /\ todo' = AutoUnsettledOrigins(d) /\ busy' = TRUE /\ wake' = FALSE
    /\ UNCHANGED <<d, authority>>

(* Mutant: admitted work of a superseded demand is canceled too. *)
CleanStaleOnly(x, kind, n) ==
    LET o == x.origin[kind][n]
    IN  x.demand.id # n \/ x.policy.gen # o.gen \/ ~x.policy.enabled \/ x.control.epoch # o.epoch
(* autoCleanupOrigin settles work that is stale and was never admitted.     *)
CleanAllowed(x, kind, n) ==
    LET o == x.origin[kind][n]
    IN  /\ \/ x.demand.id # n \/ x.policy.gen # o.gen \/ ~x.policy.enabled
           \/ x.control.epoch # o.epoch \/ ~x.demand.open \/ x.demand.stage \in {"blocked", "expired", "failed"}
        /\ ~Row(x, kind, n).admitted
        /\ Row(x, kind, n).state = "queued"
        /\ kind = "switch" => x.proxy.hold = 0

Canceled(x, kind, n) ==
    IF kind = "deployment" THEN [x EXCEPT !.deploy[n].state = "canceled"]
    ELSE LET y == RestoreSwitch(x, n)
         IN  [y EXCEPT !.switch[n].state = IF y.proxy.hold = n THEN "held" ELSE "canceled"]

autoCleanupOrigin(kind, n) ==
    /\ busy /\ <<kind, n>> \in todo
    /\ todo' = todo \ {<<kind, n>>}
    /\ d' = IF CleanAllowed(d, kind, n) THEN Canceled(d, kind, n) ELSE d
    /\ UNCHANGED <<busy, authority, wake>>

(* An older switch that finished late moves the accepted baseline.          *)
Reconcilable(x) ==
    {n \in Pushes : /\ HasOrigin(x, "switch", n) /\ x.switch[n].state = "succeeded"
                    /\ LET o == x.origin["switch"][n]
                       IN  /\ o.gen = x.policy.gen /\ o.epoch = x.control.seen /\ o.route = x.control.route
                           /\ x.route = Switched(o, n)
                    /\ x.proxy.hold = 0 /\ autoLoadedHTTPS(x, n)}

autoReconcileBaseline(x) ==
    IF Reconcilable(x) = {} THEN x
    ELSE LET n == CHOOSE n \in Reconcilable(x) : TRUE
         IN  AutoUpdateBaseline(x, Switched(x.origin["switch"][n], n), x.loaded.gen)

(* autoSuccess: the switch is this demand's own, and what is loaded and     *)
(* selected now still carries it.                                           *)
autoSuccess(x, n) ==
    LET o == x.origin["switch"][n]
        r == Switched(o, n)
    IN  IF x.proxy.hold # 0 THEN x
        ELSE IF autoLoadedHTTPS(x, n) /\ x.route = r
             THEN Advance(AutoUpdateBaseline(x, r, x.loaded.gen), "succeeded")
             ELSE Advance(x, "blocked")

WaitingSwitch(x, n) ==
    CASE x.switch[n].state = "succeeded" -> autoSuccess(x, n)
      [] x.switch[n].state \in {"failed", "canceled"} -> Advance(x, "failed")
      [] OTHER -> x

(* A refused admission costs an attempt. *)
Deferred(x) == AutoAdvanceDemand(x, x.demand.stage, x.demand.attempts + 1)

Admitted(x, kind, n) ==
    AutoAdvanceDemand(IF kind = "deployment" THEN AutoInsertOrigin(RequestDeployment(x, n), kind, n, x.control.base)
                      ELSE AutoInsertOrigin(RequestSwitch(x, n), kind, n, x.loaded.gen),
                      IF kind = "deployment" THEN "waiting_deployment" ELSE "waiting_switch",
                      x.demand.attempts + 1)

(* Mutant: admissions that are put off are tried without a budget. *)
AdmitWithoutBudget(x, n) ==
    IF ~autoSelections(x) THEN Advance(x, "blocked")
    ELSE IF x.demand.stage = "waiting_build"
         THEN IF DeploymentFree(x) THEN Admitted(x, "deployment", n) ELSE Deferred(x)
         ELSE IF SwitchFree(x, n, x.control.route) THEN Admitted(x, "switch", n) ELSE Deferred(x)

(* The next admission of a demand whose build, or deployment, succeeded.    *)
Admit(x, n) ==
    IF x.demand.attempts >= MaxAttempts \/ ~autoSelections(x) THEN Advance(x, "blocked")
    ELSE IF x.demand.stage = "waiting_build"
         THEN IF DeploymentFree(x) THEN Admitted(x, "deployment", n) ELSE Deferred(x)
         ELSE IF SwitchFree(x, n, x.control.route) /\ autoLoadedHTTPS(x, x.control.route.release)
              THEN Admitted(x, "switch", n) ELSE Deferred(x)

WaitingWork(x, n) ==
    LET state == IF x.demand.stage = "waiting_build" THEN x.build[n] ELSE x.deploy[n].state
    IN  CASE ~x.demand.open -> Advance(x, "expired")
          [] x.demand.open /\ state \in {"failed", "canceled"} -> Advance(x, "failed")
          [] x.demand.open /\ state = "succeeded" -> Admit(x, n)
          [] OTHER -> x

(* Mutant: the controller rebases a demand onto the route it finds. *)
PrepareRebased(x) ==
    LET y == [x EXCEPT !.control.route = x.route]
    IN  CASE x.demand.stage \in Ended -> x
          [] x.demand.stage = "waiting_switch" -> WaitingSwitch(x, x.demand.id)
          [] OTHER -> WaitingWork(y, x.demand.id)

(* Mutant: the applied receipt of the switch alone is success. *)
PrepareOnReceipt(x) ==
    CASE x.demand.stage \in Ended -> x
      [] x.demand.stage = "waiting_switch" /\ x.switch[x.demand.id].state = "succeeded" -> Advance(x, "succeeded")
      [] OTHER -> WaitingWork(x, x.demand.id)

PrepareRows(x) ==
    LET n == x.demand.id
        y == autoReconcileBaseline(x)
    IN  CASE n = 0 -> x
          [] n # 0 /\ ~autoLive(x, n, FALSE) -> Advance(x, "blocked")
          [] n # 0 /\ autoLive(x, n, FALSE) /\ x.demand.stage \in Ended -> y
          [] n # 0 /\ autoLive(x, n, FALSE) /\ x.demand.stage = "waiting_switch" -> WaitingSwitch(y, n)
          [] OTHER -> WaitingWork(y, n)

PrepareHostingAutoDeploy ==
    /\ busy /\ todo = {}
    /\ d' = PrepareRows(d)
    /\ busy' = FALSE
    /\ UNCHANGED <<todo, authority, wake>>

(* The controller dies, or River gives its job up. *)
ControllerStops ==
    /\ "stop" \in Changes /\ busy
    /\ busy' = FALSE /\ todo' = {}
    /\ UNCHANGED <<d, authority, wake>>

(* Mutant: only waiting demands are found again. *)
DueWaiting(x) == x.demand.id # 0 /\ x.demand.stage \in Waiting
(* Mutant: only unsettled operations are found again. *)
DueUnsettled(x) == AutoUnsettledOrigins(x) # {}

AutoRecoverDue(x) == x.demand.id # 0 /\ (x.demand.stage \in Waiting \/ AutoUnsettledOrigins(x) # {})

recoverAutoDeployDispatch ==
    /\ AutoRecoverDue(d) /\ ~wake /\ ~busy
    /\ wake' = TRUE
    /\ UNCHANGED <<d, authority, todo, busy>>

--------------------------------------------------------------------------
(* Pushes, builds and the runner.  A completion wakes the controller in a   *)
(* savepoint: the wakeup may be lost, the receipt is not.                   *)

Other == UNCHANGED <<authority, todo, busy>>
autoWakeup == wake' \in {wake, TRUE}

autoRecordDemand ==
    LET n == d.policy.desired + 1
    IN  /\ n \in Pushes /\ d.policy.enabled /\ autoCurrent(d)
        /\ d' = [AutoReplaceDemand(d, n) EXCEPT !.policy.desired = n, !.build[n] = "queued"]
        /\ wake' = TRUE /\ Other

BuildEnds(n) ==
    /\ d.build[n] = "queued"
    /\ \E s \in {"succeeded", "failed"} : d' = [d EXCEPT !.build[n] = s]
    /\ autoWakeup /\ Other

FirstApply(n) ==
    /\ d.deploy[n].state = "queued" /\ autoFirstMutation(d, "deployment", n)
    /\ d' = [d EXCEPT !.deploy[n].state = "applying", !.deploy[n].admitted = TRUE]
    /\ UNCHANGED wake /\ Other

(* An operation may fail in preparation, or after its admission.            *)
DeploymentEnds(n) ==
    /\ \/ /\ d.deploy[n].state = "applying"
          /\ \E s \in {"succeeded", "failed"} \cup ({"held"} \cap Changes) : d' = [d EXCEPT !.deploy[n].state = s]
       \/ /\ d.deploy[n].state = "held"
          /\ \E s \in {"succeeded", "failed"} : d' = [d EXCEPT !.deploy[n].state = s]
    /\ autoWakeup /\ Other

FirstProxyApply(n) ==
    /\ d.switch[n].state = "queued" /\ autoFirstMutation(d, "switch", n)
    /\ d' = [d EXCEPT !.switch[n].state = "applying", !.switch[n].admitted = TRUE]
    /\ UNCHANGED wake /\ Other

SwitchApplied(x, n) ==
    [x EXCEPT !.switch[n].state = "succeeded", !.loaded = [gen |-> @.gen + 1, release |-> n],
              !.proxy = [active |-> 0, hold |-> 0]]

SwitchRolledBack(x, n) ==
    LET y == RestoreSwitch([x EXCEPT !.proxy.hold = 0], n)
    IN  [y EXCEPT !.switch[n].state = IF y.proxy.hold = n THEN "held" ELSE "failed"]

SwitchEnds(n) ==
    /\ d.switch[n].state \in {"applying", "held"}
    /\ \/ d' = SwitchApplied(d, n)
       \/ d' = SwitchRolledBack(d, n)
       \/ /\ "held" \in Changes /\ d.switch[n].state = "applying"
          /\ d' = [d EXCEPT !.switch[n].state = "held", !.proxy.hold = n]
    /\ autoWakeup /\ Other

(* Another resource's change loads a generation with the same route.        *)
UnrelatedLoad ==
    /\ d.proxy = [active |-> 0, hold |-> 0] /\ d.loaded.gen <= MaxLoads
    /\ d' = [d EXCEPT !.loaded.gen = @ + 1]
    /\ UNCHANGED wake /\ Other

--------------------------------------------------------------------------
(* The owner. *)

Chosen == {k \in Manual : d.switch[k].state # "none"}

(* A manual switch or route update, once per request.                       *)
ManualSelect ==
    LET k == -(Cardinality(Chosen) + 1)
    IN  /\ k \in Manual /\ SwitchFree(d, k, d.route)
        /\ d' = AutoBumpManualEpoch(RequestSwitch(d, k))
        /\ UNCHANGED wake /\ Other

ManualDeploy ==
    /\ "deploy" \in Changes /\ DeploymentFree(d) /\ d.control.epoch < 2
    /\ d' = AutoBumpManualEpoch(d)
    /\ UNCHANGED wake /\ Other

(* autoConfigure reviews what is loaded, healthy and manual; the epoch row  *)
(* is kept.  Saving leaves the policy disabled.                             *)
autoConfigure ==
    /\ "configure" \in Changes /\ authority /\ d.policy.gen < MaxGeneration
    /\ d.proxy = [active |-> 0, hold |-> 0] /\ d.route.release \notin Pushes /\ autoLoadedHTTPS(d, d.route.release)
    /\ d' = [d EXCEPT !.policy.gen = @ + 1, !.policy.enabled = FALSE,
                      !.control.seen = d.control.epoch, !.control.route = d.route, !.control.base = d.loaded.gen]
    /\ UNCHANGED wake /\ Other

SetEnabled ==
    /\ "enable" \in Changes /\ d.policy.gen < MaxGeneration
    /\ ~d.policy.enabled => autoCurrent(d)
    /\ d' = [d EXCEPT !.policy.gen = @ + 1, !.policy.enabled = ~@]
    /\ UNCHANGED wake /\ Other

ChangeAuthority ==
    /\ "authority" \in Changes
    /\ authority' = ~authority
    /\ UNCHANGED <<d, wake, todo, busy>>

Expire ==
    /\ "expire" \in Changes /\ d.demand.open
    /\ d' = [d EXCEPT !.demand.open = FALSE]
    /\ UNCHANGED wake /\ Other

Next ==
    \/ Begin \/ PrepareHostingAutoDeploy \/ ControllerStops \/ recoverAutoDeployDispatch
    \/ \E o \in todo : autoCleanupOrigin(o[1], o[2])
    \/ autoRecordDemand \/ UnrelatedLoad
    \/ \E n \in Pushes : BuildEnds(n) \/ FirstApply(n) \/ DeploymentEnds(n)
    \/ \E n \in Operations : FirstProxyApply(n) \/ SwitchEnds(n)
    \/ ManualSelect \/ ManualDeploy \/ autoConfigure \/ SetEnabled \/ ChangeAuthority \/ Expire

Spec == Init /\ [][Next]_vars

--------------------------------------------------------------------------
(* Properties. *)

(* Rows are well formed; the attempts a demand has spent on verification    *)
(* and on admissions never exceed the one budget.                           *)
ATypeOK ==
    /\ d.policy \in [gen : 1..MaxGeneration, enabled : BOOLEAN, desired : {0} \cup Pushes]
    /\ d.control \in [epoch : Nat, seen : Nat, route : Selection, base : Nat]
    /\ d.demand \in [id : {0} \cup Pushes, gen : Nat, epoch : Nat, stage : Waiting \cup Ended,
                     attempts : 0..MaxAttempts, open : BOOLEAN]
    /\ d.deploy \in [Pushes -> Operation] /\ d.switch \in [Operations -> Operation]
    /\ d.origin \in [Kinds -> [Pushes -> Origin]] /\ d.route \in Selection
    /\ d.proxy \in [active : Operations \cup {0}, hold : Operations \cup {0}]
    /\ d.loaded \in [gen : Nat, release : Releases]
    /\ todo \subseteq (Kinds \X Pushes) /\ (todo # {} => busy)

(* "succeeded" is never about an older switch or an earlier look: in that   *)
(* step the proxy has this demand's release loaded, the route selects it,   *)
(* nothing is held and the owner has changed nothing since the review.      *)
SucceededIsServed ==
    [][(d.demand.stage # "succeeded" /\ d'.demand.stage = "succeeded") =>
          /\ d'.loaded.release = d'.demand.id /\ d'.route.release = d'.demand.id
          /\ d'.proxy.hold = 0 /\ d'.control.epoch = d'.demand.epoch]_vars

(* Automation moves a route away from the owner's choice only when exactly  *)
(* that version and release was reviewed: a selection made by hand, however *)
(* late in a demand's life, stands until the owner reviews again, or until  *)
(* that manual switch itself rolls back.                                    *)
ManualChoiceStands ==
    [][(d.route.release \notin Pushes /\ d'.route.release \in Pushes) =>
          \/ d.control.route = d.route /\ d.control.epoch = d.control.seen
          \/ \E k \in Manual : d.switch[k].state # "failed" /\ d'.switch[k].state = "failed"]_vars

(* No host mutation begins for a demand that is not current: at the first   *)
(* apply of either operation the demand is the policy's desired one, its    *)
(* window is open and no manual change has come in between.                 *)
NoStaleFirstMutation ==
    [][\A n \in Pushes :
          ((~d.deploy[n].admitted /\ d'.deploy[n].admitted) \/ (~d.switch[n].admitted /\ d'.switch[n].admitted)) =>
             d.policy.enabled /\ d.policy.desired = n /\ d.demand.open /\ d.control.epoch = d.demand.epoch]_vars

(* Cleanup, racing the runner, never cancels what the runner was admitted   *)
(* to do: an admitted operation keeps its receipt or its hold.              *)
AdmittedIsNotCanceled ==
    /\ \A n \in Pushes : d.deploy[n].admitted => d.deploy[n].state # "canceled"
    /\ \A n \in Operations : d.switch[n].admitted => d.switch[n].state # "canceled"

(* With nothing active and nothing held the route says what is loaded:      *)
(* canceled and rolled back switches leave no selection behind.             *)
RouteIsServed == d.proxy = [active |-> 0, hold |-> 0] => d.route.release = d.loaded.release

(* The accepted baseline is a selection the route has had: it is never      *)
(* ahead of the route, and at the route's own version it is the route.      *)
BaselineIsARoute ==
    /\ d.control.route.version <= d.route.version
    /\ d.control.route.version = d.route.version => d.control.route = d.route

(* A demand that neither ended nor stands behind a hold. *)
Undecided(n) ==
    /\ d.demand.id = n /\ d.demand.stage \in Waiting
    /\ d.deploy[n].state # "held" /\ d.proxy.hold = 0

(* A switch that is neither admitted, canceled nor behind a hold. *)
Unadmitted(n) == d.switch[n].state = "queued" /\ d.proxy.hold = 0
=============================================================================
