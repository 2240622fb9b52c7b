---------------------------- MODULE WorkflowRuns ----------------------------
(***************************************************************************)
(* The steps of a workflow run: internal/app/service.go (the step          *)
(* bookkeeping), runs_service.go (the request), runners_service.go (claim  *)
(* and completion) and the two statements that store the state.            *)
(*                                                                         *)
(* A claim is two transactions.  The store's ClaimRun takes the run and    *)
(* returns its row; the handler then picks a step from that row and writes *)
(* the workflow state back with a statement that carries no lease.  A      *)
(* completion likewise reads the run, computes the next state and writes   *)
(* it in a transaction that only the lease guards.  One run is modelled;   *)
(* its leases are those of RunLeases, with the clock left out: a lease may *)
(* run out at any time.                                                    *)
(***************************************************************************)
EXTENDS Naturals, FiniteSets

CONSTANTS Size,        \* number of steps; a step is its position in the workflow
          MaxAttempt,  \* bound on the claims of the run
          LateHandler  \* whether a claim handler may outlive its own lease

(* The constants satisfy:
     Size \in Nat \ {0} /\ MaxAttempt \in Nat \ {0} /\ LateHandler \in BOOLEAN *)

VARIABLES dependsOn,   \* workflow.steps[].depends_on
          runStatus,   \* task_runs.status
          state,       \* task_runs.workflow_state: the steps' statuses and the current step
          attempt,     \* the newest attempt
          lease,       \* run_leases.status of each attempt
          claim,       \* what the handler of each attempt's claim still has to do
          plan,        \* the step each attempt executes
          completion   \* completions that have read the run and not yet committed

vars == <<dependsOn, runStatus, state, attempt, lease, claim, plan, completion>>

Step == 1..Size

Attempt == 1..MaxAttempt

NoStep == 0

(* The run's own specification instead of one of its steps. *)
Parent == Size + 1

TerminalStatus == {"succeeded", "failed", "canceled"}

StepStatus == {"pending", "running"} \cup TerminalStatus

WorkflowState == [steps : [Step -> StepStatus], current : Step \cup {NoStep}]

Nothing == [kind |-> "none"]

-----------------------------------------------------------------------------
(* Mutant: a step that is met again is taken for one that was finished. *)
VisitOnce(deps, step, path) == TRUE

(* visit in normalizeWorkflowNodes: a depth-first walk that fails when it  *)
(* meets a step of its own path.  The visited set only saves repeats.      *)
RECURSIVE Visit(_, _, _)

Visit(deps, step, path) ==
    /\ step \notin path
    /\ \A d \in deps[step] : Visit(deps, d, path \cup {step})

(* normalizeWorkflowNodes: dependencies name other steps and have no       *)
(* cycle.                                                                  *)
NormalizeWorkflow(deps) ==
    \A s \in Step : s \notin deps[s] /\ Visit(deps, s, {})

Accepted == {deps \in [Step -> SUBSET Step] : NormalizeWorkflow(deps)}

(* The reference for NormalizeWorkflow. *)
Orderable ==
    {deps \in [Step -> SUBSET Step] :
        \E rank \in [Step -> Step] : \A s \in Step : \A d \in deps[s] : rank[d] < rank[s]}

InitialWorkflowState == [steps |-> [s \in Step |-> "pending"], current |-> NoStep]

Ready(w) ==
    {s \in Step : w.steps[s] = "pending" /\ \A d \in dependsOn[s] : w.steps[d] = "succeeded"}

(* nextWorkflowStepIndex: the first ready step, in the workflow's order. *)
NextStep(w) ==
    IF Ready(w) = {} THEN NoStep ELSE CHOOSE s \in Ready(w) : \A t \in Ready(w) : s <= t

(* executableRunForWorkflowStep. *)
ExecutableStep(w) == IF w.current = NoStep THEN Parent ELSE w.current

(* Mutant: the step that is abandoned is no longer current. *)
StepStartedAnew(w) ==
    IF NextStep(w) = NoStep
    THEN [w EXCEPT !.current = NoStep]
    ELSE [steps |-> [w.steps EXCEPT ![NextStep(w)] = "running"], current |-> NextStep(w)]

(* Mutant: a started step is given the status of a run. *)
StepQueued(w) ==
    IF NextStep(w) = NoStep
    THEN w
    ELSE [steps |-> [w.steps EXCEPT ![NextStep(w)] = "queued"], current |-> NextStep(w)]

(* markWorkflowStepRunning: with no ready step the state is left alone, so *)
(* a step that an expired attempt left running is started again.           *)
StepStarted(w) ==
    IF NextStep(w) = NoStep
    THEN w
    ELSE [steps |-> [w.steps EXCEPT ![NextStep(w)] = "running"], current |-> NextStep(w)]

(* Mutant: every step that runs is given the attempt's outcome. *)
StepsFinished(w, status) ==
    [steps |-> [s \in Step |-> IF w.steps[s] = "running" THEN status ELSE w.steps[s]],
     current |-> NoStep]

(* completionRunState, the workflow's half. *)
StepFinished(w, status) ==
    IF w.current = NoStep
    THEN w
    ELSE [steps |-> [w.steps EXCEPT ![w.current] = status], current |-> NoStep]

(* completionRunState, the run's half: a success with a further step       *)
(* queues the run again.                                                   *)
CompletionRunStatus(w, status) ==
    IF status = "succeeded" /\ w.current # NoStep /\ NextStep(StepFinished(w, status)) # NoStep
    THEN "queued" ELSE status

-----------------------------------------------------------------------------
(* RequestRunWithSpec: any workflow that normalises. *)
Init ==
    /\ dependsOn \in Accepted
    /\ runStatus = "queued"
    /\ state = InitialWorkflowState
    /\ attempt = 0
    /\ lease = [a \in Attempt |-> "none"]
    /\ claim = [a \in Attempt |-> Nothing]
    /\ plan = [a \in Attempt |-> NoStep]
    /\ completion = [a \in Attempt |-> Nothing]

(* The store's half of a claim; the row it returns is the handler's. *)
ClaimRun ==
    /\ runStatus = "queued"
    /\ attempt < MaxAttempt
    /\ attempt' = attempt + 1
    /\ runStatus' = "running"
    /\ lease' = [lease EXCEPT ![attempt + 1] = "active"]
    /\ claim' = [claim EXCEPT ![attempt + 1] = [kind |-> "row", state |-> state]]
    /\ UNCHANGED <<dependsOn, state, plan, completion>>

(* UpdateRunWorkflowState names the run only: neither the lease nor the    *)
(* status is tested.                                                       *)
MarkWorkflowStepRunning(a) ==
    /\ claim[a].kind = "row"
    /\ LET w == StepStarted(claim[a].state)
       IN  /\ state' = IF NextStep(claim[a].state) = NoStep THEN state ELSE w
           /\ claim' = [claim EXCEPT ![a] = [kind |-> "answer", step |-> ExecutableStep(w)]]
    /\ UNCHANGED <<dependsOn, runStatus, attempt, lease, plan, completion>>

(* The answer reaches the runner. *)
StartAttempt(a) ==
    /\ claim[a].kind = "answer"
    /\ plan' = [plan EXCEPT ![a] = claim[a].step]
    /\ claim' = [claim EXCEPT ![a] = Nothing]
    /\ UNCHANGED <<dependsOn, runStatus, state, attempt, lease, completion>>

(* The handler dies, before or after its write, or its answer is lost. *)
LoseClaim(a) ==
    /\ claim[a] # Nothing
    /\ claim' = [claim EXCEPT ![a] = Nothing]
    /\ UNCHANGED <<dependsOn, runStatus, state, attempt, lease, plan, completion>>

(* CompleteLease up to its transaction: the run is read without a lock. *)
ReadForCompletion(a, status) ==
    /\ plan[a] # NoStep
    /\ completion[a] = Nothing
    /\ lease[a] \notin TerminalStatus
    /\ completion' = [completion EXCEPT ![a] = [kind |-> "read", state |-> state, status |-> status]]
    /\ UNCHANGED <<dependsOn, runStatus, state, attempt, lease, claim, plan>>

(* Mutant: the lease is not tested. *)
CompleteAnyLease(a) ==
    /\ completion[a].kind = "read"
    /\ completion' = [completion EXCEPT ![a] = Nothing]
    /\ LET w == completion[a].state
           status == completion[a].status
       IN  /\ lease' = [lease EXCEPT ![a] = status]
           /\ runStatus' = CompletionRunStatus(w, status)
           /\ state' = StepFinished(w, status)
    /\ UNCHANGED <<dependsOn, attempt, claim, plan>>

(* CompleteLeaseRequest, or its refusal when the lease has gone. *)
CompleteLeaseRequest(a) ==
    /\ completion[a].kind = "read"
    /\ completion' = [completion EXCEPT ![a] = Nothing]
    /\ LET w == completion[a].state
           status == completion[a].status
       IN  IF lease[a] = "active"
           THEN /\ lease' = [lease EXCEPT ![a] = status]
                /\ runStatus' = CompletionRunStatus(w, status)
                /\ state' = StepFinished(w, status)
           ELSE UNCHANGED <<lease, runStatus, state>>
    /\ UNCHANGED <<dependsOn, attempt, claim, plan>>

(* The sweep: the run is queued again and its workflow state left as it    *)
(* is.                                                                     *)
ExpireLeases(a) ==
    /\ lease[a] = "active"
    /\ LateHandler \/ claim[a].kind # "row"
    /\ lease' = [lease EXCEPT ![a] = "expired"]
    /\ runStatus' = "queued"
    /\ UNCHANGED <<dependsOn, state, attempt, claim, plan, completion>>

(* CancelRunRequest leaves the workflow state alone, too. *)
CancelRunRequest ==
    /\ runStatus \notin TerminalStatus
    /\ runStatus' = "canceled"
    /\ lease' = [a \in Attempt |-> IF lease[a] = "active" THEN "canceled" ELSE lease[a]]
    /\ UNCHANGED <<dependsOn, state, attempt, claim, plan, completion>>

Next ==
    \/ ClaimRun
    \/ \E a \in Attempt : MarkWorkflowStepRunning(a)
    \/ \E a \in Attempt : StartAttempt(a)
    \/ \E a \in Attempt : LoseClaim(a)
    \/ \E a \in Attempt, status \in TerminalStatus : ReadForCompletion(a, status)
    \/ \E a \in Attempt : CompleteLeaseRequest(a)
    \/ \E a \in Attempt : ExpireLeases(a)
    \/ CancelRunRequest

Spec == Init /\ [][Next]_vars

-----------------------------------------------------------------------------
WTypeOK ==
    /\ dependsOn \in [Step -> SUBSET Step]
    /\ runStatus \in {"queued", "running"} \cup TerminalStatus
    /\ state \in WorkflowState
    /\ attempt \in 0..MaxAttempt
    /\ lease \in [Attempt -> {"none", "active", "expired"} \cup TerminalStatus]
    /\ plan \in [Attempt -> Step \cup {NoStep, Parent}]

(* normalizeWorkflowNodes accepts exactly the graphs that have an order in *)
(* which every step follows its dependencies; a new run has one of them.   *)
AcceptedHasOrder == attempt = 0 => dependsOn \in Accepted /\ Accepted = Orderable

(* A claim of a workflow run always hands out one of its steps.  When no   *)
(* step is ready and none is current, executableRunForWorkflowStep would   *)
(* hand out the run's own specification; expiry, cancellation and late     *)
(* handlers must never lead there.                                         *)
ClaimsHandOutSteps == \A a \in Attempt : plan[a] # Parent

(* Every step recorded as succeeded is paid for by a completion of its     *)
(* own: no interleaving of late handlers, repeated reads and expiries      *)
(* makes one success count for two steps.                                  *)
SuccessesAreCompletions ==
    Cardinality({s \in Step : state.steps[s] = "succeeded"})
        <= Cardinality({a \in Attempt : lease[a] = "succeeded"})

(* A run that waits in the queue has something to execute: a ready step,   *)
(* or a current step whose attempt was lost.                               *)
QueuedHasWork ==
    runStatus = "queued" => NextStep(state) # NoStep \/ state.current # NoStep

(* A step's recorded success is never taken back, and a completion credits *)
(* the step that its attempt executed: true as long as a claim handler     *)
(* finishes within its own lease.                                          *)
SuccessIsKept ==
    [][/\ \A s \in Step : state.steps[s] = "succeeded" => state'.steps[s] = "succeeded"
       /\ \A a \in Attempt : lease[a] = "active" /\ lease'[a] = "succeeded" =>
              state'.steps[plan[a]] = "succeeded"]_vars

(* A workflow that succeeds has finished cleanly: no step is current and   *)
(* every step succeeded.                                                   *)
FinishesCleanly ==
    runStatus = "succeeded" =>
        state.current = NoStep /\ \A s \in Step : state.steps[s] = "succeeded"
=============================================================================
