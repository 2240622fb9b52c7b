------------------------------ MODULE LockOrder ------------------------------
(***************************************************************************)
(* The row and advisory locks of the transactions that touch one           *)
(* deployment, its run, its attempt and its lease, and of the retention    *)
(* execution that touches several runs.  Elsewhere in this project a       *)
(* transaction is one step; here it is the sequence of the locks it takes, *)
(* held until it commits, so that two transactions can wait for each       *)
(* other.  PostgreSQL's detector rolls back one member of a wait cycle;    *)
(* the transaction's caller sees a 5xx answer.                             *)
(***************************************************************************)
EXTENDS Naturals, Sequences, FiniteSets, FiniteSetsExt, Functions

CONSTANTS
    Mixes,         \* the kinds of transactions that meet, each a sequence
    MaxRepeats     \* how often the runner's loop repeats a report

VARIABLES
    kindOf,        \* the kinds of the transactions in flight
    at,            \* [Txns -> number of locks taken, or Done or Aborted]
    queue,         \* transactions that wait for their next lock, in the order they asked
    seen,          \* [Txns -> the status read under the lock that guards it]
    st,            \* [run, dep]: status of the run and of its deployment, as committed
    repeats        \* [Txns -> repetitions after a rolled back attempt]

(* The transactions that are modelled. *)
Kinds == {"complete", "append", "cancelRun", "transition", "fail", "cancel", "failPre",
          "claim", "expire", "resolve", "artifact", "renew", "retention"}

ASSUME LockAssumption == Mixes \subseteq Seq(Kinds) /\ MaxRepeats \in Nat

vars == <<kindOf, at, queue, seen, st, repeats>>

(* The transactions in flight. *)
Txns == DOMAIN kindOf

(* FOR UPDATE excludes every other lock of the row, an UPDATE that changes no
   key excludes all but the KEY SHARE of a foreign key, and SKIP LOCKED never
   waits: the row is left out. *)
Modes == {"update", "nokey", "keyshare", "skip"}

Conflicts(a, b) == \/ "update" \in {a, b} \/ "skip" \in {a, b}
                   \/ a = "nokey" /\ b = "nokey"

X(rows) == [i \in DOMAIN rows |-> [row |-> rows[i], mode |-> "update"]]
L(row, mode) == <<[row |-> row, mode |-> mode]>>

(* Mutant: a completion locks the lease, which it ends, and not the run. *)
CompleteLeaseOnly == X(<<"log", "lease">>)

(* LockRunID and AcquireRunLogLock open the completion of a lease, a log append
   and the cancellation of a run; the lease follows. *)
CompleteRunLease == X(<<"run", "log", "lease">>)
CreateRunLogsForLease == X(<<"run", "log", "lease">>)
CancelRunRequest == X(<<"run", "log", "lease">>)

(* Mutant: the transition locks its lease before the run. *)
TransitionLeaseFirst == X(<<"lease", "run", "log", "deployment", "attempt">>) \o L("environment", "nokey")

TransitionDeploymentAttempt ==
    X(<<"run", "log", "deployment", "attempt", "lease">>) \o L("environment", "nokey")

(* The insert of the rollback child shares keys of rows that are locked. *)
FailDeploymentAndCreateRollback ==
    X(<<"run", "log", "deployment", "attempt", "lease", "environment">>)

(* Mutant: the cancellation reads the deployment from its snapshot, and locks
   the run alone. *)
CancelUnlocked == X(<<"snapshot", "run", "log">>) \o L("lease", "nokey") \o L("attempt", "nokey")

CancelDeploymentRequest ==
    X(<<"deployment", "run", "log">>) \o L("lease", "nokey") \o L("attempt", "nokey")

FailPreAssignmentDeployment == X(<<"deployment">>) \o L("run", "nokey")

(* The claim holds the runs it examined and inserts the lease and the attempt,
   whose foreign keys it has locked. *)
ClaimRun == X(<<"cursor">>) \o L("run", "skip") \o X(<<"deployment">>)

(* Mutant: the sweep does not lock the runs it lists. *)
ExpireUnlocked == L("lease", "nokey") \o L("attempt", "nokey")

ExpireLeases == L("run", "skip") \o L("lease", "nokey") \o L("attempt", "nokey")

ResolveRevisionProvenance == X(<<"deployment", "attempt", "revision", "lease">>)

(* The artifact's run_id is a foreign key: its insert shares the run's key. *)
CreateArtifactForLease == X(<<"lease">>) \o L("run", "keyshare")

RenewRunLease == L("lease", "nokey")

(* Candidate runs are locked one after the other, in the order of their ids,
   and all of them are held to the end. *)
ExecuteRunLogRetention == X(<<"policy", "run", "log", "lease", "run2", "log2">>)

LocksOf(kind) ==
    CASE kind = "complete"   -> CompleteRunLease
      [] kind = "append"     -> CreateRunLogsForLease
      [] kind = "cancelRun"  -> CancelRunRequest
      [] kind = "transition" -> TransitionDeploymentAttempt
      [] kind = "fail"       -> FailDeploymentAndCreateRollback
      [] kind = "cancel"     -> CancelDeploymentRequest
      [] kind = "failPre"    -> FailPreAssignmentDeployment
      [] kind = "claim"      -> ClaimRun
      [] kind = "expire"     -> ExpireLeases
      [] kind = "resolve"    -> ResolveRevisionProvenance
      [] kind = "artifact"   -> CreateArtifactForLease
      [] kind = "renew"      -> RenewRunLease
      [] kind = "retention"  -> ExecuteRunLogRetention

(* Transactions that lock a deployment, an attempt or a lease while they do not
   hold the run. *)
Inverted == {"cancel", "failPre", "artifact", "resolve"}

(* Mutant: a 5xx answer to a deployment transition is taken as final. *)
RepeatedButTransitions == {"append", "renew", "resolve"}

(* Reports the runner sends again when ClassifyFailure calls the failure
   transient, as it does any 5xx answer. *)
Repeated == {"complete", "append", "transition", "fail", "renew", "resolve"}

-----------------------------------------------------------------------------
Done == 100
Aborted == 101
Unread == "unread"

Init == /\ kindOf \in Mixes
        /\ at = [t \in Txns |-> 0]
        /\ queue = <<>>
        /\ seen = [t \in Txns |-> Unread]
        /\ st \in {[run |-> "queued", dep |-> "queued"], [run |-> "running", dep |-> "assigned"]}
        /\ repeats = [t \in Txns |-> 0]

Running(t) == at[t] \notin {Done, Aborted}
Kind(t) == kindOf[t]
Locks(t) == LocksOf(Kind(t))
Held(t) == IF Running(t) THEN {Locks(t)[i] : i \in 1 .. at[t]} ELSE {}
More(t) == Running(t) /\ at[t] < Len(Locks(t))
Wanted(t) == Locks(t)[at[t] + 1]

(* t asks for a row that u holds in a mode that excludes it. *)
WaitsFor(t, u) ==
    /\ t # u /\ More(t)
    /\ \E h \in Held(u) : h.row = Wanted(t).row /\ Conflicts(h.mode, Wanted(t).mode)

Free(t) == \A u \in Txns : ~WaitsFor(t, u)

Waiting == Range(queue)

(* The queue once a transaction has left it, in which nobody stands twice. *)
Without(q, t) ==
    IF t \notin Range(q) THEN q
    ELSE LET i == CHOOSE i \in DOMAIN q : q[i] = t
         IN SubSeq(q, 1, i - 1) \o SubSeq(q, i + 1, Len(q))

(* A row's lock goes to those that wait for it in the order they asked. *)
Behind(t) == \E i \in DOMAIN queue : /\ Wanted(queue[i]).row = Wanted(t).row
                                     /\ \A j \in 1 .. i : queue[j] # t

(* The row whose status decides what the transaction does, and the lock with
   which it is read: its own, or the first when the transaction takes none. *)
Guards(kind) == IF kind \in {"cancel", "failPre", "resolve"} THEN "deployment" ELSE "run"

ReadsAt(t) ==
    LET own == {i \in 1 .. Len(Locks(t)) : Locks(t)[i].row = Guards(Kind(t))}
    IN IF own = {} THEN 1 ELSE CHOOSE i \in own : TRUE

Status(t) == IF Guards(Kind(t)) = "deployment" THEN st.dep ELSE st.run

(* Only a queued run is claimed, only a queued deployment fails before its
   assignment, and only a running run's lease accepts a report or expires. *)
Admits(kind, status) ==
    CASE kind \in {"claim", "failPre"} -> status = "queued"
      [] kind \in {"cancel", "resolve"} -> status \in {"queued", "assigned"}
      [] kind = "cancelRun" -> status \in {"queued", "running"}
      [] kind = "retention" -> TRUE
      [] OTHER -> status = "running"

(* Mutant: the sweep writes the status of the lease to the run. *)
AfterExpired(kind) == IF kind = "expire" THEN [st EXCEPT !.run = "expired"] ELSE st

After(kind) ==
    CASE kind = "claim" -> [run |-> "running", dep |-> "assigned"]
      [] kind = "expire" -> [st EXCEPT !.run = "queued"]
      [] kind = "complete" -> [st EXCEPT !.run = "ended"]
      [] kind = "cancelRun" -> [st EXCEPT !.run = "canceled"]
      [] kind = "cancel" -> [run |-> "canceled", dep |-> "canceled"]
      [] kind \in {"transition", "fail", "failPre"} -> [run |-> "ended", dep |-> "ended"]
      [] OTHER -> st

-----------------------------------------------------------------------------
(* The next lock is granted; a transaction that reads a status it does not
   admit returns its error and releases everything. *)
Take(t) ==
    /\ More(t) /\ Free(t) /\ ~Behind(t)
    /\ LET reads == at[t] + 1 = ReadsAt(t)
       IN /\ seen' = IF reads THEN [seen EXCEPT ![t] = Status(t)] ELSE seen
          /\ at' = [at EXCEPT ![t] = IF reads /\ ~Admits(Kind(t), Status(t)) THEN Done ELSE @ + 1]
    /\ queue' = Without(queue, t)
    /\ UNCHANGED <<kindOf, st, repeats>>

Wait(t) ==
    /\ More(t) /\ (~Free(t) \/ Behind(t)) /\ t \notin Waiting /\ Wanted(t).mode # "skip"
    /\ queue' = Append(queue, t)
    /\ UNCHANGED <<kindOf, at, seen, st, repeats>>

(* SKIP LOCKED leaves a locked run to a later poll. *)
Skip(t) ==
    /\ More(t) /\ Wanted(t).mode = "skip" /\ (~Free(t) \/ Behind(t))
    /\ at' = [at EXCEPT ![t] = Done]
    /\ UNCHANGED <<kindOf, queue, seen, st, repeats>>

Commit(t) ==
    /\ Running(t) /\ ~More(t)
    /\ at' = [at EXCEPT ![t] = Done]
    /\ st' = After(Kind(t))
    /\ UNCHANGED <<kindOf, queue, seen, repeats>>

(* The members of a cycle among the waiting transactions of a set. *)
CycleIn(txns) ==
    LET waits == {p \in txns \X txns : WaitsFor(p[1], p[2])}
        through(k, r) == r \cup {p \in txns \X txns : <<p[1], k>> \in r /\ <<k, p[2]>> \in r}
    IN {t \in txns : <<t, t>> \in FoldSet(through, waits, txns)}

(* PostgreSQL rolls one member of a wait cycle back. *)
DetectDeadlock(t) ==
    /\ t \in Waiting /\ t \in CycleIn(Waiting)
    /\ at' = [at EXCEPT ![t] = Aborted]
    /\ queue' = Without(queue, t)
    /\ UNCHANGED <<kindOf, seen, st, repeats>>

(* The runner sends a report again when the answer was transient. *)
Repeat(t) ==
    /\ at[t] = Aborted /\ Kind(t) \in Repeated /\ repeats[t] < MaxRepeats
    /\ at' = [at EXCEPT ![t] = 0]
    /\ seen' = [seen EXCEPT ![t] = Unread]
    /\ repeats' = [repeats EXCEPT ![t] = @ + 1]
    /\ UNCHANGED <<kindOf, queue, st>>

Next == \E t \in Txns :
    Take(t) \/ Wait(t) \/ Skip(t) \/ Commit(t) \/ DetectDeadlock(t) \/ Repeat(t)

Spec == Init /\ [][Next]_vars

(* What PostgreSQL does for a transaction: it grants free locks and ends it. *)
Proceed(t) == t \in Txns /\ (Take(t) \/ Wait(t) \/ Skip(t) \/ Commit(t))
BreakCycle(t) == t \in Txns /\ DetectDeadlock(t)
SendAgain(t) == t \in Txns /\ Repeat(t)

-----------------------------------------------------------------------------
Statuses == {"queued", "running", "assigned", "canceled", "ended"}

(* Types; only those wait that want a lock and may wait for it. *)
LTypeOK ==
    /\ kindOf \in Mixes /\ at \in [Txns -> Nat]
    /\ \A t \in Txns : at[t] \in {Done, Aborted} \cup 0 .. Len(Locks(t))
    /\ queue \in Seq(Txns) /\ IsInjective(queue)
    /\ \A t \in Waiting : More(t) /\ Wanted(t).mode # "skip"
    /\ seen \in [Txns -> Statuses \cup {Unread}]
    /\ st \in [run : Statuses, dep : Statuses]
    /\ repeats \in [Txns -> 0 .. MaxRepeats]

(* No two transactions hold one row in modes that exclude each other. *)
LocksExclude ==
    \A t, u \in Txns : t # u =>
        \A h \in Held(t), g \in Held(u) : h.row = g.row => ~Conflicts(h.mode, g.mode)

(* The comments on ExecuteRunLogRetention, TransitionDeploymentAttempt and
   FailDeploymentAndCreateRollback promise one lock order: transactions that
   take the run first never wait for each other in a circle, whatever else is
   in flight.  Every deadlock has a cancellation of a deployment, a failure
   before assignment, an artifact or a provenance resolution in it. *)
RunFirstNeverDeadlocks ==
    \A S \in SUBSET {t \in Txns : Kind(t) \notin Inverted} :
        (\A t \in S : \E u \in S : WaitsFor(t, u)) => S = {}

(* What a transaction that will change the status has read under its lock is
   still the committed status: nobody can have decided otherwise in between. *)
ReadIsCurrent ==
    \A t \in Txns : Running(t) /\ seen[t] # Unread /\ After(Kind(t)) # st => seen[t] = Status(t)

(* Transactions that take the run's row first never wait for each other in
   a circle, and what one of them will overwrite it has read under a lock
   that still holds (ExecuteRunLogRetention, TransitionDeploymentAttempt,
   FailDeploymentAndCreateRollback). *)
LockOrderIsKept == LTypeOK /\ LocksExclude /\ RunFirstNeverDeadlocks /\ ReadIsCurrent

(* A report of the runner that has not been committed. *)
Unanswered(t) ==
    t \in Txns /\ Kind(t) \in {"append", "transition", "fail", "renew"} /\ at[t] # Done
=============================================================================
