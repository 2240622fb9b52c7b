# NeroCD: TLA+ models and proofs

This directory holds TLA+ models of NeroCD's control plane and runners, the TLC
configurations that check them, and TLAPS proofs of the properties that matter
most. The models are translated from the Go code and the SQL it executes;
`PROJECT.json` maps every definition to the lines it stands for.

## The system

NeroCD is a deployment control plane. An HTTP server (`internal/api`) hands
requests to a service layer (`internal/app`), which keeps all durable state in
PostgreSQL (`internal/store`; an in-memory implementation of the same interface
serves tests and demos). Runners (`internal/runnerruntime`, `internal/runner`)
poll the server for work. A claim gives a runner a *lease* on a *task run*: a
tuple of run, lease, attempt number and random fence that every later request
for that work must present. A runner records its reports in a local journal
before it sends them, and replays the journal when it starts.

On top of runs and leases the code builds Compose deployments with rollback,
hosting operations (builds, releases, databases, storage, proxy routes), backup
schedules, notifications and automatic deployment from GitHub pushes.

The parts that interact most, and that the models follow first:

1. the server's tables of runs and leases, changed by users, runners and the
   expiry sweep (`RunLeases`);
2. the tables of deployments, which change together with the run and lease of
   the deployment (`Deployments`, over `RunLeases`);
3. the runner, which works under a lease it may already have lost and reports
   over a network that loses, delays and repeats requests (`RunnerAttempts`);
4. hosting operations, whose authority over a host outlives the lease they were
   admitted under (`HostingOperations`).

`PROJECT.json` lists every part, modelled or not, and the hazards of the code.

## Modules

| Module | Models |
| --- | --- |
| `RunLeases` | task runs, approvals and leases: request, approve, reject, claim, renew, complete, cancel, expire, restore |
| `FencedAuthority` | what the lease protocol promises, with no leases, rows or deadlines |
| `RunLeasesProofs` | invariance theorems about `RunLeases` |
| `RunLeasesRefinement` | the theorem that `RunLeases` implements `FencedAuthority` |
| `Deployments` | Compose deployments, their attempts, cancellation and rollback |
| `DeploymentsSteps`, `DeploymentsProofs` | invariance theorems about `Deployments`, and that it implements `RunLeases` |
| `RunnerAttempts` | one runner: supervision, journal, reporting, completion, crash and replay |
| `RunnerAttemptsProofs` | type correctness, and that no two attempts execute together |
| `HostingOperations` | image deployments and release cleanups on a destination: holds, ports, the release ledger |
| `MCRunLeases`, `MCDeployments`, `MCRunnerAttempts`, `MCHostingOperations` | instances for TLC |

### RunLeases

Variables are columns. `runStatus`, `runRunner` and `nextAttempt` are columns of
`task_runs`; `approval` is `approvals.status`; `leaseStatus`, `leaseRunner` and
`completionKey` are columns of `run_leases`. A lease is named by its run and its
attempt. The code adds a random ID and a random fence, drawn by `ClaimRun` for
that attempt, so the pair names the same lease.

Each action is one PostgreSQL transaction. That is sound because each of them
locks the task run before it decides, or repeats its precondition in the WHERE
clause of the update.

Two conventions need care.

* `left` is the time until a lease's `expires_at`. Renewing resets it and `Tick`
  lowers it. The clocks of two leases advance independently, which allows more
  interleavings than one clock would.
* `ExpireLeases(S)` takes any nonempty set of due runs. The code takes a batch
  of at most 64 and skips rows that another transaction has locked.

`TypedRun` holds the runs of Compose deployments and of hosting builds. Those
are created, confirmed and settled by the transactions of their owners, whose
effect on the run and its lease is `CreateTypedRun`, `ConfirmTypedRun`,
`CloseUnclaimedRun`, `SettleTypedRun` and `FailTypedRunAndQueue`.

### Deployments

`Deployments` extends `RunLeases`. A deployment and its run are inserted
together, so one name stands for both. Every action is the `RunLeases` action
for the run conjoined with what the same transaction does to `deployments`,
`deployment_attempts`, `environments` and `revisions`; that is why the theorem
`DSpec => Spec` holds, and with it every theorem about leases.

* `RootDeploymentTransition` and `RollbackChildTransition` are the two tables of
  `domain/state.go`.
* `Open` is the status list of the unique index on roots in migration 0027.
* `applied` stands for the rows of `deployment_transitions` to `applying` or
  `verifying`, which `FailDeploymentAndCreateRollback` looks for.
* The revision an environment is healthy with, the confirmation flag and the
  rollback flag are arbitrary in `DInit`, since earlier deployments and the
  creation of the environment chose them. `MCInit` drops initial states in
  which a resolved revision is not the healthy one, for size only; the proofs
  use `DInit`.

### RunnerAttempts

One runner and one generic run. The server's half repeats the lease rules of
`RunLeases` for that run, with a second runner that may claim it. The runner's
half follows `RunContext`: `phase` is where it is, `att` the attempt it works on.

* A request, once sent, stays in `eventReq` or `doneReq` and can be delivered
  late or repeatedly. The server answers an exact repeat from its tables, so an
  answer can be received whenever the effect is stored. A crash, a refusal or a
  retry stands for a lost answer.
* `memory` and `disk` are the journal in the process and in the file. A write
  can fail before the rename (neither changes) or after it (the file changes and
  the process keeps its old state); `Restart` reads the file.
* `deadline` is the time left of the expiry the supervisor knows. `Watchdog`
  cancels at `Margin`, `ProcessStops` gives the group `Grace`, and `Tick` cannot
  pass a moment at which one of them is due.

Assumptions that the code does not enforce by itself: the clocks of server and
runner agree to within the margin, the runner's goroutines run when they are
due, and the service manager ends the process group together with a runner that
is killed.

### HostingOperations

A destination, its bindings and its range of ports. Once a runner is admitted to
change the host, the binding's `hold_operation_id` names the operation until the
runner reports a certain end. Losing the lease, cancellation or an uncertain
report do not clear it, because Docker commands may still be running: `touching`
is the set of operations for which that is so. The rows are `state` and the
other columns of `hosting_operations`; `hold`, `healthy` and `firstPort` of
`hosting_binding_state`; `claim` and `slot` for ports; `ledger` and `running` for
`hosting_retained_releases`.

* Every transaction takes the destination's advisory lock before it decides, so
  each is one action. `PrepareDeployment` reads the operation before it waits
  for that lock, hence `ReadQueuedOperation` and `PrepareDeployment`.
* `RequeueExpiredRuns` writes the operation's state whatever it was, as the SQL
  does; `TerminalOperationIsFinal` says why that is harmless.
* `referenced` is the set of releases that a route or a proxy generation uses.
  The proxy itself is not modelled yet; `WithdrawRoute` stands for the deletion
  of a route up to the point where no loaded generation names the release.
* A hold after an uncertain end is not cleared by anything the server offers, as
  `docs/hosting-execution.md:80` says too. An observation can settle a hold only
  after a certain report, which for image deployments has cleared it already.
* The runner is assumed to report success, or that the previous release runs
  again, only after its commands have ended.

Not in this module: the storage, database, stack and local-build variants of an
operation, the limit of 32 kept releases, the proxy's management port, and a
restore from a backup that is older than the current rows.

## Runs

| Run | Shows | States |
| --- | --- | --- |
| `leases` | authority, approval and finality of runs and leases, and the refinement of `FencedAuthority` | two runs, two runners, two attempts |
| `live` | a run whose runner died is released | same, typed runs |
| `deployments` | one deployment at a time acts on an environment; the revision to roll back to is current; nothing applied is forgotten | 606,104 |
| `rollback_child` | violation: a queued rollback failed before assignment leaves its root rolling back | |
| `selector` | violation: a rollback is claimed by a runner outside the selector | |
| `attempts` | no two attempts execute together; logs are prefixes; nothing is dropped before the completion | 2,361,038 |
| `attempts_live` | a journaled completion is settled | 27,248 |
| `late_output` | violation: output that was read and journaled is lost after the bounded drain | |
| `hosting` | whoever may be changing a host has its hold, and only a certain report ends it; a finished operation is never reopened; a restored binding stays still | 276,824 |
| `hosting_releases` | the healthy pointer and the ledger agree; a release in use is neither replaced nor removed | 225,037 |
| `hosting_ports` | one operation per binding; no two releases share a port; claims keep their slots | 310,339 |
| `hosting_live` | a queued operation is decided | 119,952 |

Every property of a passing run has a mutant in `PROJECT.json`: a definition
changed the way a bug would change the code, which makes TLC find the property
violated.

### What disagrees

* `FailPreAssignmentDeployment` accepts a queued rollback child. It ends
  `failed`, its root stays `rolling_back`, and the environment accepts no other
  deployment. `state.go:89` says that a child "cannot succeed, cancel, or fail as
  an ordinary run".
* A rollback's run is created without the tags of its environment's selector,
  so any runner that can deploy may take it.
* `executor.go:175` says that unread output is discarded when a callback is
  stuck. Output that was read, and is journaled after the completion was sent,
  is discarded too.

## Bounds

Leases: two runs, two runners, two attempts and a lease of two clock steps. Two
runs are needed for a sweep that catches one run and not the other; two attempts
for a stale holder beside a current one; two clock steps for a renewal that
differs from a fresh lease.

Deployments: two requests and a rollback for each in one environment, two
revisions, two attempts. A second request is what the unique index and the
revision to roll back to are about. Environments share no row. `NobodyDead`
removes states in which a runner has died, because a dead runner only stops
taking steps; safety loses no behaviour.

Attempts: two attempts, so that a stale attempt meets its successor; two events
and a batch of two, so that a batch can overlap a longer one; a journal of two
entries, so that it can be full when the completion comes; `TTL` 3, `Margin` 2
and `Grace` 1 are the smallest values with `Grace < Margin < TTL`, the order the
code's half second, one second and lease duration have. The liveness run keeps
one attempt: replay works on each attempt separately.

Hosting: `Events` selects what may disturb the operations, so that each run pays
for the events its properties depend on. `hosting` has every event but routes,
with two attempts, so that a reclaimed operation meets its earlier lease.
`hosting_releases` has four operations on one binding with two ports: two
deployments, a cleanup of the first, and one more to reuse its port.
`hosting_ports` has two bindings and three ports, the least with which a slot
can be taken from another binding while a lower one is free. `MaxAttempts` and
`MaxObservations` cap the leases of a task.

The theorems hold for every value that the named assumptions allow.

## Fairness

`RunLeases!FairSpec` is fair to the clock and to the expiry sweep, a background
loop of the server; it assumes nothing of runners and users.
`RunnerAttempts!FairSpec` is fair to each step that the runtime's loops retry and
to the service manager's restart, strongly fair to time (a crash loop must not
stop the clock) and to a startup that finds an attempt fenced and gets through.
`HostingOperations!HFairSpec` is fair to the dispatch job, which River retries and
`recoverHostingDispatch` enqueues again. None is fair to a user, to a crash or
to a failing write.

## Proofs

`RunLeasesProofs`. The inductive invariant `IInv` adds to `AuthorityIsCurrent` and
`RunningIsLeased` that the leases of a run are exactly the attempts below
`next_attempt`, and what an undecided approval says about the run. The
properties alone are not inductive: a claim is safe only because no lease with
the new number exists.

`RunLeasesRefinement`. The mapping takes the holder of a run to the runner of its
newest lease while that is active, and the generation to the number of that
lease. Each action maps to a step of `FencedAuthority` or to a stutter.

`DeploymentsProofs`. `DInv` adds to the checked properties that an environment has
at most one open root, that an open rollback has a root waiting for it, that a
deployment and its run are inserted and end together, and what a deployment
that was told to apply has behind it. `DSpec => Spec` is proved on the way, so
`IInv` is available.

`RunnerAttemptsProofs`. `OverlapInv` has five parts. Attempts are granted in
order; a run that has ended has no active lease; until the supervisor cancels,
its deadline is at least the margin away and no later than the server's; a
canceled process group is gone before the lease can expire; and a process runs
only while its attempt is being executed. The first attempt's process is
stopped while its lease still has time, so no second lease exists yet.

Only model-checked: liveness, `HostingOperations`, and `LogIsPrefix`, `NothingDropped` and
`CompletionIsLast` of `RunnerAttempts`, whose inductive invariant is about the
journal's contents and is still to be written.

## Not modelled

Generated code, codecs, validation of single requests, encryption, HTTP and the
web client have no state that several steps can disturb, or are exercised well
by tests. Row locks are not modelled: a transaction is one step, and a deadlock
between two of them is resolved by PostgreSQL, which aborts one.

## Plan

1. Workflow runs: step state written outside the claim's transaction.
2. Runner rows: enrollment, heartbeat, staleness, rotation, revocation.
3. Compose claims on the runner, over `Deployments`, with the retry of a
   rollback that fails while it is applied.
4. Builds, proxy generations and route switches, databases and stacks, beside
   `HostingOperations`.
5. Backups, schedules, retention and notifications.
6. GitHub pushes, automatic deployment and server bootstrap.
7. Proofs of the journal's properties and of the holds.
