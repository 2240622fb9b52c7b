-------------------------- MODULE RunLeasesProofs --------------------------
(***************************************************************************)
(* Theorems about RunLeases, for any sets of runs and runners, any lease   *)
(* duration and any number of attempts.                                    *)
(***************************************************************************)
EXTENDS RunLeases, TLAPS

(* The leases of a run are the attempts below next_attempt. *)
AttemptsAreUsedInOrder ==
    \A r \in Run, a \in Attempt : leaseStatus[<<r, a>>] = "none" <=> a >= nextAttempt[r]

(* A run that does not exist yet, or is held back by its approval, has not *)
(* been claimed.                                                           *)
UndecidedIsUnclaimed ==
    \A r \in Run :
        /\ runStatus[r] = "absent" => approval[r] = "none"
        /\ runStatus[r] \in {"absent", "waiting_approval"} => nextAttempt[r] = 1
        /\ approval[r] = "pending" => runStatus[r] \in {"waiting_approval", "canceled"}
        /\ approval[r] = "rejected" => runStatus[r] = "canceled"
        /\ approval[r] \in {"pending", "rejected"} => nextAttempt[r] = 1
        /\ r \in TypedRun => approval[r] = "none"

(* The inductive invariant. *)
IInv ==
    /\ TypeOK
    /\ AuthorityIsCurrent
    /\ RunningIsLeased
    /\ AttemptsAreUsedInOrder
    /\ UndecidedIsUnclaimed

-----------------------------------------------------------------------------
(* A run and an attempt name a lease, and the lease names them. *)
LEMMA LeasePair == \A r \in Run, a \in Attempt : <<r, a>> \in Lease /\ <<r, a>>[1] = r /\ <<r, a>>[2] = a
  BY Zenon DEF Lease

(* Every lease is such a pair. *)
LEMMA LeaseIsPair == \A l \in Lease : l[1] \in Run /\ l[2] \in Attempt /\ l = <<l[1], l[2]>>
  BY DEF Lease

(* Attempts are positive numbers up to the bound. *)
LEMMA AttemptType == \A a \in Attempt : a \in Nat /\ a >= 1 /\ a <= MaxAttempt
  BY BoundAssumption DEF Attempt

(* The empty database satisfies the invariant. *)
THEOREM InitIInv == Init => IInv
  <1> SUFFICES ASSUME Init PROVE IInv
    BY Zenon
  <1> USE DEF Init
  <1>1. TypeOK
    BY BoundAssumption DEF TypeOK, RunStatus, LeaseStatus
  <1>2. AuthorityIsCurrent /\ RunningIsLeased
    BY LeasePair, Zenon DEF AuthorityIsCurrent, RunningIsLeased
  <1>3. AttemptsAreUsedInOrder
    BY LeasePair, AttemptType, Zenon DEF AttemptsAreUsedInOrder
  <1>4. UndecidedIsUnclaimed
    BY Zenon DEF UndecidedIsUnclaimed
  <1> QED
    BY <1>1, <1>2, <1>3, <1>4, Zenon DEF IInv

-----------------------------------------------------------------------------
(* A lease that is active is the newest attempt of its run, and the run is *)
(* running: what an action must know before it writes through a lease.     *)
LEMMA HolderFacts ==
  ASSUME IInv, NEW l \in Lease, leaseStatus[l] = "active"
  PROVE  /\ l[1] \in Run
         /\ runStatus[l[1]] = "running"
         /\ nextAttempt[l[1]] = l[2] + 1
         /\ runRunner[l[1]] = leaseRunner[l]
         /\ approval[l[1]] \notin {"pending", "rejected"}
  BY LeaseIsPair, LeasePair DEF IInv, AuthorityIsCurrent, UndecidedIsUnclaimed

(* A step that leaves the leases alone and neither starts nor stops a run  *)
(* keeps holders and runs in agreement.                                    *)
LEMMA LeasesUntouched ==
  ASSUME IInv,
         UNCHANGED <<leaseStatus, leaseRunner, nextAttempt>>,
         \A r \in Run : runStatus'[r] = "running" <=> runStatus[r] = "running",
         \A r \in Run : runStatus[r] = "running" => runRunner'[r] = runRunner[r]
  PROVE  AuthorityIsCurrent' /\ RunningIsLeased' /\ AttemptsAreUsedInOrder'
  <1>1. AuthorityIsCurrent'
    BY Zenon DEF IInv, AuthorityIsCurrent
  <1>2. RunningIsLeased'
    BY Zenon DEF IInv, RunningIsLeased
  <1>3. AttemptsAreUsedInOrder'
    BY Zenon DEF IInv, AttemptsAreUsedInOrder
  <1> QED
    BY <1>1, <1>2, <1>3, Zenon

(* Creating, approving and rejecting a run touch no lease. *)
LEMMA CreateRunRequestStep ==
  ASSUME IInv, NEW r \in Run, NEW requiresAck \in BOOLEAN, CreateRunRequest(r, requiresAck)
  PROVE  IInv'
  <1> USE DEF CreateRunRequest, leaseVars, IInv
  <1>1. \E status \in {"waiting_approval", "queued"} : runStatus' = [runStatus EXCEPT ![r] = status]
    BY requiresAck \/ ~requiresAck, Zenon
  <1>2. TypeOK'
    BY Zenon DEF TypeOK, RunStatus, TerminalRunStatus
  <1>3. \A q \in Run : runStatus'[q] = "running" <=> runStatus[q] = "running"
    BY <1>1, Zenon DEF TypeOK
  <1>4. AuthorityIsCurrent' /\ RunningIsLeased' /\ AttemptsAreUsedInOrder'
    BY <1>3, LeasesUntouched, Zenon
  <1>5. UndecidedIsUnclaimed'
    BY <1>1, Zenon DEF UndecidedIsUnclaimed, TypeOK
  <1> QED
    BY <1>2, <1>4, <1>5, Zenon

(* Inserting the run of a deployment or a build, and confirming it, touch  *)
(* no lease.                                                               *)
LEMMA CreateTypedRunStep ==
  ASSUME IInv, NEW r \in Run, NEW status \in {"waiting_approval", "queued"},
         CreateTypedRun(r, status) \/ ConfirmTypedRun(r)
  PROVE  IInv'
  <1> USE DEF CreateTypedRun, ConfirmTypedRun, leaseVars, IInv
  <1>1. /\ runStatus[r] \in {"absent", "waiting_approval"} /\ r \in TypedRun
        /\ \E new \in {"waiting_approval", "queued"} : runStatus' = [runStatus EXCEPT ![r] = new]
    BY Zenon
  <1>2. TypeOK'
    BY <1>1, Zenon DEF TypeOK, RunStatus, TerminalRunStatus
  <1>3. \A q \in Run : runStatus'[q] = "running" <=> runStatus[q] = "running"
    BY <1>1, Zenon DEF TypeOK
  <1>4. AuthorityIsCurrent' /\ RunningIsLeased' /\ AttemptsAreUsedInOrder'
    BY <1>3, LeasesUntouched, Zenon
  <1>5. UndecidedIsUnclaimed'
    BY <1>1, Zenon DEF UndecidedIsUnclaimed, TypeOK
  <1> QED
    BY <1>2, <1>4, <1>5, Zenon

(* Closing a run that nobody claimed touches no lease. *)
LEMMA CloseUnclaimedRunStep ==
  ASSUME IInv, NEW r \in Run, NEW status \in {"failed", "canceled"}, CloseUnclaimedRun(r, status)
  PROVE  IInv'
  <1> USE DEF CloseUnclaimedRun, leaseVars, IInv
  <1>1. runStatus[r] \in {"queued", "waiting_approval"} /\ r \in TypedRun
    BY Zenon
  <1>2. TypeOK'
    BY Zenon DEF TypeOK, RunStatus, TerminalRunStatus
  <1>3. /\ \A q \in Run : runStatus'[q] = "running" <=> runStatus[q] = "running"
        /\ \A q \in Run : runStatus[q] = "running" => runRunner'[q] = runRunner[q]
    BY <1>1, Zenon DEF TypeOK
  <1>4. AuthorityIsCurrent' /\ RunningIsLeased' /\ AttemptsAreUsedInOrder'
    BY <1>3, LeasesUntouched, Zenon
  <1>5. UndecidedIsUnclaimed'
    BY <1>1, Zenon DEF UndecidedIsUnclaimed, TypeOK
  <1> QED
    BY <1>2, <1>4, <1>5, Zenon

(* Approval moves a waiting run to the queue; nobody holds it. *)
LEMMA ApproveRunStep ==
  ASSUME IInv, NEW r \in Run, ApproveRun(r)
  PROVE  IInv'
  <1> USE DEF ApproveRun, leaseVars, IInv
  <1>1. runStatus[r] = "waiting_approval"
    BY Zenon
  <1>2. TypeOK'
    BY Zenon DEF TypeOK, RunStatus, TerminalRunStatus
  <1>3. \A q \in Run : runStatus'[q] = "running" <=> runStatus[q] = "running"
    BY <1>1, Zenon DEF TypeOK
  <1>4. AuthorityIsCurrent' /\ RunningIsLeased' /\ AttemptsAreUsedInOrder'
    BY <1>3, LeasesUntouched, Zenon
  <1>5. UndecidedIsUnclaimed'
    BY <1>1, Zenon DEF UndecidedIsUnclaimed, TypeOK
  <1> QED
    BY <1>2, <1>4, <1>5, Zenon

(* RejectRun overwrites the run's status: the run it finds is waiting or   *)
(* already canceled, so no lease loses its run.                            *)
LEMMA RejectRunStep ==
  ASSUME IInv, NEW r \in Run, RejectRun(r)
  PROVE  IInv'
  <1> USE DEF RejectRun, leaseVars, IInv
  <1>1. runStatus[r] \in {"waiting_approval", "canceled"}
    BY Zenon DEF UndecidedIsUnclaimed
  <1>2. TypeOK'
    BY Zenon DEF TypeOK, RunStatus, TerminalRunStatus
  <1>3. \A q \in Run : runStatus'[q] = "running" <=> runStatus[q] = "running"
    BY <1>1, Zenon DEF TypeOK
  <1>4. AuthorityIsCurrent' /\ RunningIsLeased' /\ AttemptsAreUsedInOrder'
    BY <1>3, LeasesUntouched, Zenon
  <1>5. UndecidedIsUnclaimed'
    BY <1>1, Zenon DEF UndecidedIsUnclaimed, TypeOK
  <1> QED
    BY <1>2, <1>4, <1>5, Zenon

(* The clock and renewals move a deadline and nothing else. *)
LEMMA DeadlineStep ==
  ASSUME IInv, NEW l \in Lease, RenewLease(l) \/ Tick(l)
  PROVE  IInv'
  <1> USE DEF IInv, RenewLease, Tick, runVars
  <1>1. TypeOK'
    BY BoundAssumption DEF TypeOK, Authorized
  <1>2. AuthorityIsCurrent' /\ RunningIsLeased' /\ AttemptsAreUsedInOrder'
    BY LeasesUntouched, Zenon
  <1>3. UndecidedIsUnclaimed'
    BY Zenon DEF UndecidedIsUnclaimed
  <1> QED
    BY <1>1, <1>2, <1>3, Zenon

(* A dying runner changes nothing in the database. *)
LEMMA RunnerDiesStep ==
  ASSUME IInv, NEW n \in Runner, RunnerDies(n)
  PROVE  IInv'
  BY DEF RunnerDies, runVars, leaseVars, IInv, TypeOK, AuthorityIsCurrent,
         RunningIsLeased, AttemptsAreUsedInOrder, UndecidedIsUnclaimed

-----------------------------------------------------------------------------
(* What a sweep of due runs leaves behind, in ExpireLeases and inside      *)
(* ClaimRun.  The active lease of a due run is its only one, so expiring   *)
(* the lapsed leases leaves the run without a holder.                      *)
LEMMA SweepFacts ==
  ASSUME IInv, NEW S \in SUBSET Run, S \subseteq Due
  PROVE  /\ Expire(S) \in [Lease -> LeaseStatus]
         /\ Requeue(S) \in [Run -> RunStatus]
         /\ Unassign(S) \in [Run -> Runner \cup {NoRunner}]
         /\ \A l \in Lease : Expire(S)[l] = "none" <=> leaseStatus[l] = "none"
         /\ \A l \in Lease : Expire(S)[l] = "active" =>
                leaseStatus[l] = "active" /\ l[1] \notin S
         /\ \A l \in Lease : l[1] \notin S => Expire(S)[l] = leaseStatus[l]
         /\ \A r \in S : runStatus[r] = "running" /\ Requeue(S)[r] \in {"queued", "failed"}
         /\ \A r \in Run \ S : Requeue(S)[r] = runStatus[r] /\ Unassign(S)[r] = runRunner[r]
  <1>1. Expire(S) \in [Lease -> LeaseStatus]
    BY Zenon DEF IInv, TypeOK, Expire, LeaseStatus
  <1>2. Requeue(S) \in [Run -> RunStatus] /\ Unassign(S) \in [Run -> Runner \cup {NoRunner}]
    BY Zenon DEF IInv, TypeOK, Requeue, Unassign, RunStatus, TerminalRunStatus
  <1>3. \A l \in Lease : Expire(S)[l] = "none" <=> leaseStatus[l] = "none"
    BY Zenon DEF Expire, Lapsed
  <1>4. ASSUME NEW l \in Lease, Expire(S)[l] = "active"
        PROVE  leaseStatus[l] = "active" /\ l[1] \notin S
    <2>1. leaseStatus[l] = "active"
      BY <1>4, Zenon DEF Expire
    <2>2. SUFFICES ASSUME l[1] \in S PROVE FALSE
      BY <2>1, Zenon
    <2>3. PICK a \in Attempt : Lapsed(<<l[1], a>>)
      BY <2>2, Zenon DEF Due
    <2>4. a = l[2]
      BY <2>1, <2>3, LeaseIsPair, LeasePair, AttemptType, HolderFacts DEF Lapsed
    <2> QED
      BY <1>4, <2>2, <2>3, <2>4, LeaseIsPair, Zenon DEF Expire
  <1>5. \A l \in Lease : l[1] \notin S => Expire(S)[l] = leaseStatus[l]
    BY Zenon DEF Expire
  <1>6. \A r \in S : runStatus[r] = "running" /\ Requeue(S)[r] \in {"queued", "failed"}
    BY Zenon DEF Due, Requeue
  <1>7. \A r \in Run \ S : Requeue(S)[r] = runStatus[r] /\ Unassign(S)[r] = runRunner[r]
    BY Zenon DEF Requeue, Unassign
  <1> QED
    BY <1>1, <1>2, <1>3, <1>4, <1>5, <1>6, <1>7, Zenon

(* The sweep takes lease and run together. *)
LEMMA ExpireLeasesStep ==
  ASSUME IInv, NEW S \in SUBSET Run, ExpireLeases(S)
  PROVE  IInv'
  <1> USE DEF ExpireLeases
  <1>1. TypeOK'
    BY SweepFacts, Zenon DEF IInv, TypeOK
  <1>2. AuthorityIsCurrent'
    <2> SUFFICES ASSUME NEW r \in Run, NEW a \in Attempt, leaseStatus'[<<r, a>>] = "active"
                 PROVE  /\ nextAttempt'[r] = a + 1
                        /\ runStatus'[r] = "running"
                        /\ runRunner'[r] = leaseRunner'[<<r, a>>]
      BY Zenon DEF AuthorityIsCurrent
    <2>1. leaseStatus[<<r, a>>] = "active" /\ r \notin S
      BY SweepFacts, LeasePair
    <2> QED
      BY <2>1, SweepFacts DEF IInv, AuthorityIsCurrent
  <1>3. RunningIsLeased'
    <2> SUFFICES ASSUME NEW r \in Run, runStatus'[r] = "running"
                 PROVE  \E a \in Attempt : leaseStatus'[<<r, a>>] = "active"
      BY Zenon DEF RunningIsLeased
    <2>1. r \notin S /\ runStatus[r] = "running"
      BY SweepFacts
    <2>2. PICK a \in Attempt : leaseStatus[<<r, a>>] = "active"
      BY <2>1, Zenon DEF IInv, RunningIsLeased
    <2> QED
      BY <2>1, <2>2, SweepFacts, LeasePair
  <1>4. AttemptsAreUsedInOrder'
    <2>1. \A l \in Lease : leaseStatus'[l] = "none" <=> leaseStatus[l] = "none"
      BY SweepFacts, Zenon
    <2>2. \A r \in Run, a \in Attempt : <<r, a>> \in Lease
      BY LeasePair, Zenon
    <2> QED
      BY <2>1, <2>2, Zenon DEF IInv, AttemptsAreUsedInOrder
  <1>5. UndecidedIsUnclaimed'
    <2>1. \A r \in S : runStatus[r] = "running" /\ runStatus'[r] \in {"queued", "failed"}
      BY SweepFacts, Zenon
    <2>2. \A r \in Run \ S : runStatus'[r] = runStatus[r]
      BY SweepFacts
    <2> QED
      BY <2>1, <2>2, Zenon DEF IInv, UndecidedIsUnclaimed
  <1> QED
    BY <1>1, <1>2, <1>3, <1>4, <1>5, Zenon DEF IInv

(* ClaimRun: after the sweep the claimed run is queued, so it has no       *)
(* holder, and the attempt it takes was never used.                        *)
LEMMA ClaimRunStep ==
  ASSUME IInv, NEW n \in Runner, NEW S \in SUBSET Run, NEW r \in Run, ClaimRun(n, S, r)
  PROVE  IInv'
  <1> DEFINE l == <<r, nextAttempt[r]>>
  <1> USE DEF ClaimRun
  <1>1. /\ nextAttempt[r] \in Attempt
        /\ l \in Lease
        /\ Requeue(S)[r] = "queued"
    BY LeasePair DEF IInv, TypeOK, Attempt
  <1>2. r \in S \/ runStatus[r] = "queued"
    BY SweepFacts
  <1>3. \A a \in Attempt : Expire(S)[<<r, a>>] # "active"
    BY <1>2, SweepFacts, LeasePair DEF IInv, AuthorityIsCurrent
  <1>4. TypeOK'
    <2>1. runStatus' \in [Run -> RunStatus] /\ leaseStatus' \in [Lease -> LeaseStatus]
      BY <1>1, SweepFacts, Zenon DEF RunStatus, LeaseStatus
    <2>2. runRunner' \in [Run -> Runner \cup {NoRunner}]
      BY SweepFacts, Zenon
    <2>3. nextAttempt' \in [Run -> 1..(MaxAttempt + 1)]
      BY BoundAssumption DEF IInv, TypeOK
    <2>4. leaseRunner' \in [Lease -> Runner \cup {NoRunner}] /\ left' \in [Lease -> 0..TTL]
      BY <1>1, BoundAssumption DEF IInv, TypeOK
    <2> QED
      BY <2>1, <2>2, <2>3, <2>4, Zenon DEF IInv, TypeOK
  <1>5. AuthorityIsCurrent'
    <2> SUFFICES ASSUME NEW q \in Run, NEW a \in Attempt, leaseStatus'[<<q, a>>] = "active"
                 PROVE  /\ nextAttempt'[q] = a + 1
                        /\ runStatus'[q] = "running"
                        /\ runRunner'[q] = leaseRunner'[<<q, a>>]
      BY Zenon DEF AuthorityIsCurrent
    <2>1. CASE q = r
      <3>1. <<q, a>> = l
        BY <1>1, <1>3, <2>1, SweepFacts, LeasePair, Zenon
      <3>2. a = nextAttempt[r]
        BY <3>1, Zenon
      <3> QED
        BY <1>1, <2>1, <3>1, <3>2, SweepFacts DEF IInv, TypeOK
    <2>2. CASE q # r
      <3>1. <<q, a>> # l /\ <<q, a>> \in Lease
        BY <2>2, LeasePair, Zenon
      <3>2. leaseStatus[<<q, a>>] = "active" /\ q \notin S
        BY <1>1, <3>1, SweepFacts, LeasePair
      <3>3. /\ nextAttempt'[q] = nextAttempt[q]
            /\ runStatus'[q] = runStatus[q]
            /\ runRunner'[q] = runRunner[q]
            /\ leaseRunner'[<<q, a>>] = leaseRunner[<<q, a>>]
        BY <1>1, <2>2, <3>1, <3>2, SweepFacts DEF IInv, TypeOK
      <3> QED
        BY <3>2, <3>3, Zenon DEF IInv, AuthorityIsCurrent
    <2> QED
      BY <2>1, <2>2, Zenon
  <1>6. RunningIsLeased'
    <2> SUFFICES ASSUME NEW q \in Run, runStatus'[q] = "running"
                 PROVE  \E a \in Attempt : leaseStatus'[<<q, a>>] = "active"
      BY Zenon DEF RunningIsLeased
    <2>1. CASE q = r
      BY <1>1, <2>1, SweepFacts
    <2>2. CASE q # r
      <3>1. q \notin S /\ runStatus[q] = "running"
        BY <2>2, SweepFacts
      <3>2. PICK a \in Attempt : leaseStatus[<<q, a>>] = "active"
        BY <3>1, Zenon DEF IInv, RunningIsLeased
      <3>3. <<q, a>> # l /\ <<q, a>> \in Lease /\ <<q, a>>[1] = q
        BY <2>2, LeasePair, Zenon
      <3> QED
        BY <1>1, <3>1, <3>2, <3>3, SweepFacts
    <2> QED
      BY <2>1, <2>2, Zenon
  <1>7. AttemptsAreUsedInOrder'
    <2> SUFFICES ASSUME NEW q \in Run, NEW a \in Attempt
                 PROVE  leaseStatus'[<<q, a>>] = "none" <=> a >= nextAttempt'[q]
      BY Zenon DEF AttemptsAreUsedInOrder
    <2>0. <<q, a>> \in Lease /\ a \in Nat /\ nextAttempt[q] \in Nat
      BY LeasePair, AttemptType DEF IInv, TypeOK
    <2>1. CASE <<q, a>> = l
      BY <1>1, <2>0, <2>1, SweepFacts DEF IInv, TypeOK
    <2>2. CASE <<q, a>> # l
      <3>1. leaseStatus'[<<q, a>>] = "none" <=> leaseStatus[<<q, a>>] = "none"
        BY <1>1, <2>0, <2>2, SweepFacts
      <3>2. leaseStatus[<<q, a>>] = "none" <=> a >= nextAttempt[q]
        BY Zenon DEF IInv, AttemptsAreUsedInOrder
      <3>3. CASE q = r
        <4>1. a # nextAttempt[q]
          BY <2>2, <3>3, Zenon
        <4>2. nextAttempt'[q] = nextAttempt[q] + 1
          BY <3>3, Zenon DEF IInv, TypeOK
        <4> QED
          BY <2>0, <3>1, <3>2, <4>1, <4>2
      <3>4. CASE q # r
        BY <3>1, <3>2, <3>4, Zenon DEF IInv, TypeOK
      <3> QED
        BY <3>3, <3>4, Zenon
    <2> QED
      BY <2>1, <2>2, Zenon
  <1>8. UndecidedIsUnclaimed'
    <2>1. runStatus[r] \in {"queued", "running"} /\ runStatus'[r] = "running"
      BY <1>2, SweepFacts
    <2>2. \A q \in Run \ {r} : \/ runStatus'[q] = runStatus[q]
                               \/ runStatus[q] = "running" /\ runStatus'[q] \in {"queued", "failed"}
      BY SweepFacts
    <2>3. \A q \in Run \ {r} : nextAttempt'[q] = nextAttempt[q]
      BY Zenon DEF IInv, TypeOK
    <2> QED
      BY <2>1, <2>2, <2>3 DEF IInv, UndecidedIsUnclaimed
  <1> QED
    BY <1>4, <1>5, <1>6, <1>7, <1>8, Zenon DEF IInv

-----------------------------------------------------------------------------
(* A step that takes its active leases away from a set of runs, and stops  *)
(* those runs, keeps the invariant: CompleteLeaseRequest, CancelRunRequest *)
(* and InvalidateLeasesForRestore are instances.                           *)
LEMMA SettleFacts ==
  ASSUME IInv, NEW S \in SUBSET Run,
         \A l \in Lease : leaseStatus'[l] = "none" <=> leaseStatus[l] = "none",
         \A l \in Lease : leaseStatus'[l] = "active" <=> leaseStatus[l] = "active" /\ l[1] \notin S,
         \A r \in S : runStatus'[r] # "running",
         \A r \in Run \ S : runStatus'[r] = "running" <=> runStatus[r] = "running",
         \A r \in Run \ S : runRunner'[r] = runRunner[r],
         UNCHANGED <<nextAttempt, leaseRunner>>
  PROVE  AuthorityIsCurrent' /\ RunningIsLeased' /\ AttemptsAreUsedInOrder'
  <1>1. \A r \in Run, a \in Attempt : <<r, a>> \in Lease /\ <<r, a>>[1] = r
    BY LeasePair, Zenon
  <1>2. AuthorityIsCurrent'
    <2> SUFFICES ASSUME NEW r \in Run, NEW a \in Attempt, leaseStatus'[<<r, a>>] = "active"
                 PROVE  nextAttempt'[r] = a + 1 /\ runStatus'[r] = "running"
                        /\ runRunner'[r] = leaseRunner'[<<r, a>>]
      BY DEF AuthorityIsCurrent
    <2>1. leaseStatus[<<r, a>>] = "active" /\ r \in Run \ S
      BY <1>1, Zenon
    <2>2. nextAttempt[r] = a + 1 /\ runStatus[r] = "running" /\ runRunner[r] = leaseRunner[<<r, a>>]
      BY <2>1 DEF IInv, AuthorityIsCurrent
    <2> QED
      BY <2>1, <2>2, Zenon
  <1>3. RunningIsLeased'
    <2> SUFFICES ASSUME NEW r \in Run, runStatus'[r] = "running"
                 PROVE  \E a \in Attempt : leaseStatus'[<<r, a>>] = "active"
      BY Zenon DEF RunningIsLeased
    <2>1. PICK a \in Attempt : leaseStatus[<<r, a>>] = "active"
      BY Zenon DEF IInv, RunningIsLeased
    <2> QED
      BY <1>1, <2>1, Zenon
  <1>4. AttemptsAreUsedInOrder'
    <2> SUFFICES ASSUME NEW r \in Run, NEW a \in Attempt
                 PROVE  leaseStatus'[<<r, a>>] = "none" <=> a >= nextAttempt'[r]
      BY Zenon DEF AttemptsAreUsedInOrder
    <2>1. leaseStatus'[<<r, a>>] = "none" <=> leaseStatus[<<r, a>>] = "none"
      BY <1>1, Zenon
    <2>2. leaseStatus[<<r, a>>] = "none" <=> a >= nextAttempt[r]
      BY Zenon DEF IInv, AttemptsAreUsedInOrder
    <2> QED
      BY <2>1, <2>2, Zenon
  <1> QED
    BY <1>2, <1>3, <1>4, Zenon

(* A completion settles the newest lease with its run. *)
LEMMA CompleteStep ==
  ASSUME IInv, NEW l \in Lease, Complete(l)
  PROVE  IInv'
  <1>0. PICK status \in TerminalRunStatus, key \in Key :
          \E newStatus \in CompletedRunStatus(status) : CompleteLeaseRequest(l, status, key, newStatus)
    BY Zenon DEF Complete
  <1>1. PICK newStatus \in CompletedRunStatus(status) : CompleteLeaseRequest(l, status, key, newStatus)
    BY <1>0, Zenon
  <1> USE DEF CompleteLeaseRequest
  <1>2. leaseStatus[l] = "active" /\ l[1] \in Run /\ runStatus[l[1]] = "running"
        /\ nextAttempt[l[1]] = l[2] + 1 /\ approval[l[1]] \notin {"pending", "rejected"}
    BY <1>1, HolderFacts, Zenon DEF Authorized
  <1>3. newStatus \in TerminalRunStatus \cup {"queued"}
    BY Zenon DEF CompletedRunStatus
  <1>4. TypeOK'
    BY <1>1, <1>2, <1>3, Zenon DEF IInv, TypeOK, RunStatus, LeaseStatus
  <1>5. \A m \in Lease : m[1] = l[1] /\ leaseStatus[m] = "active" => m = l
    BY <1>2, HolderFacts, LeaseIsPair, AttemptType
  <1>6. AuthorityIsCurrent' /\ RunningIsLeased' /\ AttemptsAreUsedInOrder'
    <2>1. \A m \in Lease : leaseStatus'[m] = "none" <=> leaseStatus[m] = "none"
      BY <1>1, <1>2, Zenon DEF IInv, TypeOK, TerminalRunStatus
    <2>2. \A m \in Lease : leaseStatus'[m] = "active" <=> leaseStatus[m] = "active" /\ m[1] \notin {l[1]}
      BY <1>1, <1>5, Zenon DEF IInv, TypeOK, TerminalRunStatus
    <2>3. \A r \in {l[1]} : runStatus'[r] # "running"
      BY <1>1, <1>2, <1>3, Zenon DEF IInv, TypeOK, TerminalRunStatus
    <2>4. /\ \A r \in Run \ {l[1]} : runStatus'[r] = "running" <=> runStatus[r] = "running"
          /\ \A r \in Run \ {l[1]} : runRunner'[r] = runRunner[r]
      BY <1>1, Zenon DEF IInv, TypeOK
    <2>5. UNCHANGED <<nextAttempt, leaseRunner>>
      BY <1>1, Zenon
    <2>6. {l[1]} \in SUBSET Run
      BY <1>2, Zenon
    <2> QED
      BY <2>1, <2>2, <2>3, <2>4, <2>5, <2>6, SettleFacts, Zenon
  <1>7. UndecidedIsUnclaimed'
    BY <1>1, <1>2, <1>3, Zenon DEF IInv, TypeOK, UndecidedIsUnclaimed, TerminalRunStatus
  <1> QED
    BY <1>4, <1>6, <1>7, Zenon DEF IInv

(* What settling the lease of a typed run does, alone or together with the *)
(* queueing of a rollback.                                                 *)
LEMMA SettleTypedLeaseFacts ==
  ASSUME IInv, NEW l \in Lease, NEW status \in TerminalRunStatus, NEW key \in Key \cup {NoKey},
         SettleTypedLease(l, status, key),
         runStatus' \in [Run -> RunStatus], runStatus'[l[1]] = status,
         \A r \in Run \ {l[1]} : \/ runStatus'[r] = runStatus[r]
                                 \/ r \in TypedRun /\ runStatus[r] = "absent" /\ runStatus'[r] = "queued"
  PROVE  IInv'
  <1> USE DEF SettleTypedLease
  <1>1. leaseStatus[l] = "active" /\ l[1] \in Run /\ runStatus[l[1]] = "running"
        /\ nextAttempt[l[1]] = l[2] + 1 /\ approval[l[1]] \notin {"pending", "rejected"}
    BY HolderFacts, Zenon DEF Authorized
  <1>2. TypeOK'
    <2>1. leaseStatus' \in [Lease -> LeaseStatus]
      BY Zenon DEF IInv, TypeOK, LeaseStatus
    <2>2. completionKey' \in [Lease -> Key \cup {NoKey}]
      BY Zenon DEF IInv, TypeOK
    <2>3. runRunner' \in [Run -> Runner \cup {NoRunner}]
      BY <1>1, Zenon DEF IInv, TypeOK
    <2> QED
      BY <2>1, <2>2, <2>3, Zenon DEF IInv, TypeOK
  <1>3. \A m \in Lease : m[1] = l[1] /\ leaseStatus[m] = "active" => m = l
    BY <1>1, HolderFacts, LeaseIsPair, AttemptType
  <1>4. AuthorityIsCurrent' /\ RunningIsLeased' /\ AttemptsAreUsedInOrder'
    <2>1. \A m \in Lease : leaseStatus'[m] = "none" <=> leaseStatus[m] = "none"
      BY <1>1, Zenon DEF IInv, TypeOK, TerminalRunStatus
    <2>2. \A m \in Lease : leaseStatus'[m] = "active" <=> leaseStatus[m] = "active" /\ m[1] \notin {l[1]}
      BY <1>3, Zenon DEF IInv, TypeOK, TerminalRunStatus
    <2>3. \A r \in {l[1]} : runStatus'[r] # "running"
      BY Zenon DEF TerminalRunStatus
    <2>4. /\ \A r \in Run \ {l[1]} : runStatus'[r] = "running" <=> runStatus[r] = "running"
          /\ \A r \in Run \ {l[1]} : runRunner'[r] = runRunner[r]
      BY Zenon DEF IInv, TypeOK
    <2>5. {l[1]} \in SUBSET Run
      BY <1>1, Zenon
    <2> QED
      BY <2>1, <2>2, <2>3, <2>4, <2>5, SettleFacts
  <1>5. UndecidedIsUnclaimed'
    BY <1>1 DEF IInv, UndecidedIsUnclaimed, TerminalRunStatus
  <1> QED
    BY <1>2, <1>4, <1>5, Zenon DEF IInv

(* The terminal step of a deployment or a build settles lease and run. *)
LEMMA SettleTypedRunStep ==
  ASSUME IInv, NEW l \in Lease, NEW status \in TerminalRunStatus, NEW key \in Key,
         SettleTypedRun(l, status, key)
  PROVE  IInv'
  <1>1. l[1] \in Run
    BY LeaseIsPair, Zenon
  <1>2. /\ runStatus' \in [Run -> RunStatus] /\ runStatus'[l[1]] = status
        /\ \A r \in Run \ {l[1]} : runStatus'[r] = runStatus[r]
    BY <1>1, Zenon DEF SettleTypedRun, IInv, TypeOK, RunStatus
  <1> QED
    BY <1>2, SettleTypedLeaseFacts, Zenon DEF SettleTypedRun

(* The failed deployment's run ends in the step that queues the rollback. *)
LEMMA FailTypedRunAndQueueStep ==
  ASSUME IInv, NEW l \in Lease, NEW c \in Run, FailTypedRunAndQueue(l, c)
  PROVE  IInv'
  <1> USE DEF FailTypedRunAndQueue
  <1>1. l[1] \in Run /\ c # l[1] /\ "failed" \in TerminalRunStatus
    BY LeaseIsPair, Zenon DEF TerminalRunStatus
  <1>2. /\ runStatus' \in [Run -> RunStatus] /\ runStatus'[l[1]] = "failed"
        /\ \A r \in Run \ {l[1]} : \/ runStatus'[r] = runStatus[r]
                                   \/ r \in TypedRun /\ runStatus[r] = "absent" /\ runStatus'[r] = "queued"
    BY <1>1, Zenon DEF IInv, TypeOK, RunStatus
  <1> QED
    BY <1>1, <1>2, SettleTypedLeaseFacts, Zenon

(* A cancellation settles every active lease of the run with it. *)
LEMMA CancelRunRequestStep ==
  ASSUME IInv, NEW r \in Run, CancelRunRequest(r)
  PROVE  IInv'
  <1> USE DEF CancelRunRequest
  <1>1. TypeOK'
    BY Zenon DEF IInv, TypeOK, RunStatus, LeaseStatus, TerminalRunStatus
  <1>2. AuthorityIsCurrent' /\ RunningIsLeased' /\ AttemptsAreUsedInOrder'
    <2>1. \A m \in Lease : leaseStatus'[m] = "none" <=> leaseStatus[m] = "none"
      BY Zenon
    <2>2. \A m \in Lease : leaseStatus'[m] = "active" <=> leaseStatus[m] = "active" /\ m[1] \notin {r}
      BY Zenon
    <2>3. \A q \in {r} : runStatus'[q] # "running"
      BY Zenon DEF IInv, TypeOK
    <2>4. /\ \A q \in Run \ {r} : runStatus'[q] = "running" <=> runStatus[q] = "running"
          /\ \A q \in Run \ {r} : runRunner'[q] = runRunner[q]
      BY Zenon DEF IInv, TypeOK
    <2>5. {r} \in SUBSET Run
      BY Zenon
    <2> QED
      BY <2>1, <2>2, <2>3, <2>4, <2>5, SettleFacts
  <1>3. UndecidedIsUnclaimed'
    BY Zenon DEF IInv, TypeOK, UndecidedIsUnclaimed, TerminalRunStatus
  <1> QED
    BY <1>1, <1>2, <1>3, Zenon DEF IInv

(* After a restore no lease is active and no run is running. *)
LEMMA InvalidateLeasesForRestoreStep ==
  ASSUME IInv, InvalidateLeasesForRestore
  PROVE  IInv'
  <1> DEFINE S == {r \in Run : \E a \in Attempt : leaseStatus[<<r, a>>] = "active"}
  <1> USE DEF InvalidateLeasesForRestore
  <1>1. \A m \in Lease : leaseStatus[m] = "active" => m[1] \in S
    BY LeaseIsPair
  <1>2. \A r \in S : runStatus[r] = "running"
    BY Zenon DEF IInv, AuthorityIsCurrent
  <1> HIDE DEF S
  <1>3. S \in SUBSET Run
    BY Zenon DEF S
  <1>4. runStatus' = Requeue(S) /\ runRunner' = Unassign(S)
    BY Zenon DEF S
  <1>5. /\ \A r \in S : runStatus'[r] \in {"queued", "failed"}
        /\ \A r \in Run \ S : runStatus'[r] = runStatus[r] /\ runRunner'[r] = runRunner[r]
    BY <1>2, <1>3, <1>4, Zenon DEF Requeue, Unassign
  <1>6. TypeOK'
    <2>1. runStatus' \in [Run -> RunStatus] /\ runRunner' \in [Run -> Runner \cup {NoRunner}]
      BY <1>4, Zenon DEF IInv, TypeOK, Requeue, Unassign, RunStatus, TerminalRunStatus
    <2>2. leaseStatus' \in [Lease -> LeaseStatus]
      BY Zenon DEF IInv, TypeOK, LeaseStatus
    <2> QED
      BY <2>1, <2>2, Zenon DEF IInv, TypeOK
  <1>7. AuthorityIsCurrent' /\ RunningIsLeased' /\ AttemptsAreUsedInOrder'
    <2>1. \A m \in Lease : leaseStatus'[m] = "none" <=> leaseStatus[m] = "none"
      BY Zenon
    <2>2. \A m \in Lease : leaseStatus'[m] = "active" <=> leaseStatus[m] = "active" /\ m[1] \notin S
      BY <1>1, Zenon
    <2>3. \A r \in S : runStatus'[r] # "running"
      BY <1>5, Zenon
    <2>4. /\ \A r \in Run \ S : runStatus'[r] = "running" <=> runStatus[r] = "running"
          /\ \A r \in Run \ S : runRunner'[r] = runRunner[r]
      BY <1>5, Zenon
    <2> QED
      BY <1>3, <2>1, <2>2, <2>3, <2>4, SettleFacts, Zenon
  <1>8. UndecidedIsUnclaimed'
    BY <1>2, <1>3, <1>5, Zenon DEF IInv, UndecidedIsUnclaimed
  <1> QED
    BY <1>6, <1>7, <1>8, Zenon DEF IInv

-----------------------------------------------------------------------------
(* Every transaction, clock step and runner death preserves the invariant. *)
THEOREM NextIInv == IInv /\ [Next]_vars => IInv'
  <1> SUFFICES ASSUME IInv, [Next]_vars PROVE IInv'
    BY Zenon
  <1>1. CASE \E r \in Run, requiresAck \in BOOLEAN : CreateRunRequest(r, requiresAck)
    BY <1>1, CreateRunRequestStep, Zenon
  <1>2. CASE \E r \in Run, status \in {"waiting_approval", "queued"} : CreateTypedRun(r, status)
    BY <1>2, CreateTypedRunStep, Zenon
  <1>2a. CASE \E r \in Run : ConfirmTypedRun(r)
    BY <1>2a, CreateTypedRunStep, Zenon
  <1>2b. CASE \E r \in Run, status \in {"failed", "canceled"} : CloseUnclaimedRun(r, status)
    BY <1>2b, CloseUnclaimedRunStep, Zenon
  <1>3. CASE \E r \in Run : ApproveRun(r)
    BY <1>3, ApproveRunStep, Zenon
  <1>4. CASE \E r \in Run : RejectRun(r)
    BY <1>4, RejectRunStep
  <1>5. CASE \E r \in Run : CancelRunRequest(r)
    BY <1>5, CancelRunRequestStep
  <1>6. CASE \E S \in SUBSET Run : ExpireLeases(S)
    BY <1>6, ExpireLeasesStep, Zenon
  <1>7. CASE \E n \in Runner, S \in SUBSET Run, r \in Run : ClaimRun(n, S, r)
    BY <1>7, ClaimRunStep, Zenon
  <1>8. CASE \E l \in Lease : RenewLease(l)
    BY <1>8, DeadlineStep, Zenon
  <1>9. CASE \E l \in Lease : Complete(l)
    BY <1>9, CompleteStep, Zenon
  <1>9a. CASE \E l \in Lease, status \in TerminalRunStatus, key \in Key : SettleTypedRun(l, status, key)
    BY <1>9a, SettleTypedRunStep, Zenon
  <1>9b. CASE \E l \in Lease, c \in Run : FailTypedRunAndQueue(l, c)
    BY <1>9b, FailTypedRunAndQueueStep, Zenon
  <1>10. CASE InvalidateLeasesForRestore
    BY <1>10, InvalidateLeasesForRestoreStep, Zenon
  <1>11. CASE \E l \in Lease : Tick(l)
    BY <1>11, DeadlineStep, Zenon
  <1>12. CASE \E n \in Runner : RunnerDies(n)
    BY <1>12, RunnerDiesStep
  <1>13. CASE UNCHANGED vars
    BY <1>13 DEF vars, runVars, leaseVars, IInv, TypeOK, AuthorityIsCurrent,
                 RunningIsLeased, AttemptsAreUsedInOrder, UndecidedIsUnclaimed
  <1> QED
    BY <1>1, <1>2, <1>2a, <1>2b, <1>3, <1>4, <1>5, <1>6, <1>7, <1>8, <1>9, <1>9a, <1>9b,
       <1>10, <1>11, <1>12, <1>13, Zenon DEF Next

(* The inductive invariant holds in every state of every behaviour. *)
THEOREM Invariance == Spec => []IInv
  BY InitIInv, NextIInv, PTL DEF Spec

(* Every variable keeps its type. *)
THEOREM TypeCorrect == Spec => []TypeOK
  <1>1. IInv => TypeOK
    BY Zenon DEF IInv
  <1> QED
    BY <1>1, Invariance, PTL

(* A run has at most one holder, and the holder is its newest attempt. *)
THEOREM AuthorityTheorem == Spec => []AuthorityIsCurrent
  <1>1. IInv => AuthorityIsCurrent
    BY Zenon DEF IInv
  <1> QED
    BY <1>1, Invariance, PTL

(* No running run is without a lease the sweep can expire. *)
THEOREM LeasedTheorem == Spec => []RunningIsLeased
  <1>1. IInv => RunningIsLeased
    BY Zenon DEF IInv
  <1> QED
    BY <1>1, Invariance, PTL

(* A run whose approval is pending or refused was never leased. *)
THEOREM ApprovalTheorem == Spec => []ApprovalGatesExecution
  <1>1. IInv => ApprovalGatesExecution
    <2> SUFFICES ASSUME IInv, NEW r \in Run, approval[r] \in {"pending", "rejected"},
                        NEW a \in Attempt
                 PROVE  leaseStatus[<<r, a>>] = "none"
      BY Zenon DEF ApprovalGatesExecution
    <2>1. nextAttempt[r] = 1
      BY Zenon DEF IInv, UndecidedIsUnclaimed
    <2> QED
      BY <2>1, AttemptType, Zenon DEF IInv, AttemptsAreUsedInOrder
  <1> QED
    BY <1>1, Invariance, PTL

-----------------------------------------------------------------------------
(* No step changes the status of a run that has ended. *)
LEMMA TerminalRunStep ==
  ASSUME IInv, [Next]_vars, NEW r \in Run, runStatus[r] \in TerminalRunStatus
  PROVE  runStatus'[r] = runStatus[r]
  <1> USE DEF TerminalRunStatus
  <1>0. runStatus \in [Run -> RunStatus]
    BY Zenon DEF IInv, TypeOK
  <1>1. CASE \E q \in Run, requiresAck \in BOOLEAN : CreateRunRequest(q, requiresAck)
    BY <1>0, <1>1, Zenon DEF CreateRunRequest
  <1>2. CASE \E q \in Run, status \in {"waiting_approval", "queued"} : CreateTypedRun(q, status)
    BY <1>0, <1>2, Zenon DEF CreateTypedRun
  <1>2a. CASE \/ \E q \in Run, status \in {"failed", "canceled"} : CloseUnclaimedRun(q, status)
              \/ \E q \in Run : ConfirmTypedRun(q) \/ ApproveRun(q)
    BY <1>0, <1>2a, Zenon DEF CloseUnclaimedRun, ConfirmTypedRun, ApproveRun
  <1>3. CASE \E q \in Run : RejectRun(q)
    <2>1. PICK q \in Run : RejectRun(q)
      BY <1>3, Zenon
    <2>2. q = r => runStatus[r] = "canceled"
      BY <2>1, Zenon DEF RejectRun, IInv, UndecidedIsUnclaimed
    <2> QED
      BY <1>0, <2>1, <2>2, Zenon DEF RejectRun
  <1>4. CASE \E q \in Run : CancelRunRequest(q)
    BY <1>0, <1>4, Zenon DEF CancelRunRequest
  <1>5. CASE \E S \in SUBSET Run : ExpireLeases(S)
    BY <1>5, Zenon DEF ExpireLeases, Requeue
  <1>6. CASE \E n \in Runner, S \in SUBSET Run, q \in Run : ClaimRun(n, S, q)
    <2>1. PICK n \in Runner, S \in SUBSET Run, q \in Run : ClaimRun(n, S, q)
      BY <1>6, Zenon
    <2>2. Requeue(S)[r] = runStatus[r]
      BY Zenon DEF Requeue
    <2>3. q # r
      BY <2>1, <2>2, Zenon DEF ClaimRun
    <2>4. Requeue(S) \in [Run -> RunStatus]
      BY <2>1, SweepFacts, Zenon DEF ClaimRun
    <2> QED
      BY <2>1, <2>2, <2>3, <2>4, Zenon DEF ClaimRun
  <1>7. CASE \E l \in Lease : Complete(l)
    <2>1. PICK l \in Lease, status \in TerminalRunStatus, key \in Key, newStatus \in RunStatus :
            CompleteLeaseRequest(l, status, key, newStatus)
      BY <1>7, Zenon DEF Complete, CompletedRunStatus, RunStatus
    <2>2. runStatus[l[1]] = "running"
      BY <2>1, HolderFacts, Zenon DEF CompleteLeaseRequest, Authorized
    <2> QED
      BY <1>0, <2>1, <2>2, Zenon DEF CompleteLeaseRequest
  <1>7a. CASE \/ \E l \in Lease, status \in TerminalRunStatus, key \in Key : SettleTypedRun(l, status, key)
              \/ \E l \in Lease, c \in Run : FailTypedRunAndQueue(l, c)
    BY <1>0, <1>7a, Zenon DEF SettleTypedRun, FailTypedRunAndQueue
  <1>8. CASE InvalidateLeasesForRestore
    BY <1>8, Zenon DEF InvalidateLeasesForRestore, Requeue
  <1>9. CASE (\E l \in Lease : RenewLease(l) \/ Tick(l)) \/ (\E n \in Runner : RunnerDies(n)) \/ UNCHANGED vars
    BY <1>9, Zenon DEF RenewLease, Tick, RunnerDies, vars, runVars
  <1> QED
    BY <1>1, <1>2, <1>2a, <1>3, <1>4, <1>5, <1>6, <1>7, <1>7a, <1>8, <1>9, Zenon DEF Next

(* A terminal run is final. *)
THEOREM TerminalTheorem == Spec => TerminalRunIsFinal
  <1>1. IInv /\ [Next]_vars =>
          [\A r \in Run : runStatus[r] \in TerminalRunStatus => runStatus'[r] = runStatus[r]]_vars
    BY TerminalRunStep, Zenon
  <1> QED
    BY <1>1, Invariance, PTL DEF Spec, TerminalRunIsFinal

(* No step changes a lease that was settled. *)
LEMMA SettledLeaseStep ==
  ASSUME IInv, [Next]_vars, NEW l \in Lease, leaseStatus[l] \notin {"none", "active"}
  PROVE  leaseStatus'[l] = leaseStatus[l] /\ completionKey'[l] = completionKey[l]
  <1>0. leaseStatus \in [Lease -> LeaseStatus] /\ completionKey \in [Lease -> Key \cup {NoKey}]
    BY Zenon DEF IInv, TypeOK
  <1>1. CASE \/ \E r \in Run, requiresAck \in BOOLEAN : CreateRunRequest(r, requiresAck)
             \/ \E r \in Run, status \in {"waiting_approval", "queued"} : CreateTypedRun(r, status)
             \/ \E r \in Run, status \in {"failed", "canceled"} : CloseUnclaimedRun(r, status)
             \/ \E r \in Run : ConfirmTypedRun(r) \/ ApproveRun(r) \/ RejectRun(r)
    BY <1>1, Zenon DEF CreateRunRequest, CreateTypedRun, ConfirmTypedRun, CloseUnclaimedRun,
        ApproveRun, RejectRun, leaseVars
  <1>2. CASE \E r \in Run : CancelRunRequest(r)
    BY <1>2, Zenon DEF CancelRunRequest
  <1>3. CASE \E S \in SUBSET Run : ExpireLeases(S)
    BY <1>3, Zenon DEF ExpireLeases, Expire, Lapsed
  <1>4. CASE \E n \in Runner, S \in SUBSET Run, r \in Run : ClaimRun(n, S, r)
    <2>1. PICK n \in Runner, S \in SUBSET Run, r \in Run : ClaimRun(n, S, r)
      BY <1>4, Zenon
    <2>2. Expire(S)[l] = leaseStatus[l] /\ Expire(S) \in [Lease -> LeaseStatus]
      BY <2>1, SweepFacts, Zenon DEF Expire, Lapsed, ClaimRun
    <2>3. l # <<r, nextAttempt[r]>>
      <3>1. nextAttempt[r] \in Attempt
        BY <2>1 DEF ClaimRun, IInv, TypeOK, Attempt
      <3>2. leaseStatus[<<r, nextAttempt[r]>>] = "none"
        BY <3>1, AttemptType DEF IInv, AttemptsAreUsedInOrder
      <3> QED
        BY <3>2, Zenon
    <2> QED
      BY <2>1, <2>2, <2>3, Zenon DEF ClaimRun
  <1>5. CASE \E m \in Lease : Complete(m)
    BY <1>0, <1>5, Zenon DEF Complete, CompleteLeaseRequest, Authorized
  <1>5a. CASE \/ \E m \in Lease, status \in TerminalRunStatus, key \in Key : SettleTypedRun(m, status, key)
              \/ \E m \in Lease, c \in Run : FailTypedRunAndQueue(m, c)
    BY <1>0, <1>5a DEF SettleTypedRun, FailTypedRunAndQueue, SettleTypedLease, Authorized
  <1>6. CASE InvalidateLeasesForRestore
    BY <1>6, Zenon DEF InvalidateLeasesForRestore
  <1>7. CASE (\E m \in Lease : RenewLease(m) \/ Tick(m)) \/ (\E n \in Runner : RunnerDies(n)) \/ UNCHANGED vars
    BY <1>7, Zenon DEF RenewLease, Tick, RunnerDies, vars, leaseVars
  <1> QED
    BY <1>1, <1>2, <1>3, <1>4, <1>5, <1>5a, <1>6, <1>7, Zenon DEF Next

(* A settled lease keeps its status and its completion key. *)
THEOREM SettledTheorem == Spec => SettledLeaseIsFinal
  <1>1. IInv /\ [Next]_vars =>
          [\A l \in Lease : leaseStatus[l] \notin {"none", "active"} =>
              /\ leaseStatus'[l] = leaseStatus[l]
              /\ completionKey'[l] = completionKey[l]]_vars
    BY SettledLeaseStep, Zenon
  <1> QED
    BY <1>1, Invariance, PTL DEF Spec, SettledLeaseIsFinal

-----------------------------------------------------------------------------
(* RunLeases implements FencedAuthority.  Every step but ClaimRun maps to  *)
(* Withdraw or to a stutter; ClaimRun maps to Grant.                       *)

(* An active lease belongs to a runner. *)
HolderIsRunner == \A l \in Lease : leaseStatus[l] = "active" => leaseRunner[l] \in Runner

(* No step but ClaimRun activates a lease, renames its runner or starts an *)
(* attempt.                                                                *)
LEMMA OnlyClaimGrants ==
  ASSUME IInv, [Next]_vars,
         ~ \E n \in Runner, S \in SUBSET Run, r \in Run : ClaimRun(n, S, r)
  PROVE  /\ UNCHANGED <<nextAttempt, leaseRunner>>
         /\ \A l \in Lease : leaseStatus'[l] = "active" => leaseStatus[l] = "active"
  <1>0. leaseStatus \in [Lease -> LeaseStatus]
    BY Zenon DEF IInv, TypeOK
  <1>1. CASE \/ \E r \in Run, requiresAck \in BOOLEAN : CreateRunRequest(r, requiresAck)
             \/ \E r \in Run, status \in {"waiting_approval", "queued"} : CreateTypedRun(r, status)
             \/ \E r \in Run, status \in {"failed", "canceled"} : CloseUnclaimedRun(r, status)
             \/ \E r \in Run : ConfirmTypedRun(r) \/ ApproveRun(r) \/ RejectRun(r)
    BY <1>1, Zenon DEF CreateRunRequest, CreateTypedRun, CloseUnclaimedRun, ConfirmTypedRun,
                ApproveRun, RejectRun, leaseVars
  <1>2. CASE \E r \in Run : CancelRunRequest(r)
    BY <1>2, Zenon DEF CancelRunRequest
  <1>3. CASE \E S \in SUBSET Run : ExpireLeases(S)
    BY <1>3, Zenon DEF ExpireLeases, Expire
  <1>4. CASE \E l \in Lease : Complete(l)
    BY <1>0, <1>4, Zenon DEF Complete, CompleteLeaseRequest, Authorized
  <1>5. CASE \/ \E l \in Lease, status \in TerminalRunStatus, key \in Key : SettleTypedRun(l, status, key)
             \/ \E l \in Lease, c \in Run : FailTypedRunAndQueue(l, c)
    BY <1>0, <1>5, Zenon DEF SettleTypedRun, FailTypedRunAndQueue, SettleTypedLease, Authorized
  <1>6. CASE InvalidateLeasesForRestore
    BY <1>6, Zenon DEF InvalidateLeasesForRestore
  <1>7. CASE \/ \E l \in Lease : RenewLease(l) \/ Tick(l)
             \/ \E n \in Runner : RunnerDies(n)
             \/ UNCHANGED vars
    BY <1>7, Zenon DEF RenewLease, Tick, RunnerDies, vars, runVars, leaseVars
  <1> QED
    BY <1>1, <1>2, <1>3, <1>4, <1>5, <1>6, <1>7, Zenon DEF Next

(* ClaimRun names the claiming runner on the lease it activates. *)
LEMMA HolderIsRunnerStep ==
  ASSUME IInv, HolderIsRunner, [Next]_vars PROVE HolderIsRunner'
  <1>1. CASE \E n \in Runner, S \in SUBSET Run, r \in Run : ClaimRun(n, S, r)
    <2>1. PICK n \in Runner, S \in SUBSET Run, r \in Run : ClaimRun(n, S, r)
      BY <1>1, Zenon
    <2>2. \A l \in Lease : Expire(S)[l] = "active" => leaseStatus[l] = "active"
      BY Zenon DEF Expire
    <2>3. leaseRunner \in [Lease -> Runner \cup {NoRunner}] /\ Expire(S) \in [Lease -> LeaseStatus]
      BY <2>1, SweepFacts, Zenon DEF IInv, TypeOK, ClaimRun
    <2> QED
      BY <2>1, <2>2, <2>3, Zenon DEF ClaimRun, HolderIsRunner
  <1> QED
    BY <1>1, OnlyClaimGrants, Zenon DEF HolderIsRunner

-----------------------------------------------------------------------------
(* The mapped holder is the runner of the run's active lease, and a held   *)
(* run has not ended.                                                      *)
HoldersAgree ==
    \A r \in Run :
        /\ Holder[r] # NoRunner =>
             r \notin Closed /\ \E a \in Attempt : leaseStatus[<<r, a>>] = "active"
        /\ \A a \in Attempt : leaseStatus[<<r, a>>] = "active" =>
             Holder[r] = leaseRunner[<<r, a>>] /\ Holder[r] # NoRunner

(* It does in every state of the invariant. *)
LEMMA HolderDef == IInv /\ HolderIsRunner => HoldersAgree
  <1> SUFFICES ASSUME IInv, HolderIsRunner, NEW r \in Run
               PROVE  /\ Holder[r] # NoRunner =>
                           r \notin Closed /\ \E a \in Attempt : leaseStatus[<<r, a>>] = "active"
                      /\ \A a \in Attempt : leaseStatus[<<r, a>>] = "active" =>
                           Holder[r] = leaseRunner[<<r, a>>] /\ Holder[r] # NoRunner
    BY Zenon DEF HoldersAgree
  <1>1. ASSUME NEW a \in Attempt, leaseStatus[<<r, a>>] = "active"
        PROVE  Holder[r] = leaseRunner[<<r, a>>] /\ Holder[r] # NoRunner
    <2>1. nextAttempt[r] = a + 1 /\ a >= 1 /\ a \in Nat
      BY <1>1, AttemptType, Zenon DEF IInv, AuthorityIsCurrent
    <2>2. nextAttempt[r] > 1 /\ nextAttempt[r] - 1 = a
      BY <2>1
    <2>3. leaseRunner[<<r, a>>] \in Runner
      BY <1>1, LeasePair, Zenon DEF HolderIsRunner
    <2> QED
      BY <1>1, <2>2, <2>3, RunnerAssumption, Zenon DEF Holder
  <1>2. Holder[r] # NoRunner => \E a \in Attempt : leaseStatus[<<r, a>>] = "active"
    <2> SUFFICES ASSUME Holder[r] # NoRunner
                 PROVE  \E a \in Attempt : leaseStatus[<<r, a>>] = "active"
      BY Zenon
    <2>1. nextAttempt[r] > 1 /\ leaseStatus[<<r, nextAttempt[r] - 1>>] = "active"
      BY Zenon DEF Holder
    <2>2. nextAttempt[r] - 1 \in Attempt
      BY <2>1, BoundAssumption DEF IInv, TypeOK, Attempt
    <2> QED
      BY <2>1, <2>2, Zenon
  <1>3. Holder[r] # NoRunner => r \notin Closed
    BY <1>2, Zenon DEF IInv, AuthorityIsCurrent, Closed, TerminalRunStatus
  <1> QED
    BY <1>1, <1>2, <1>3, Zenon

(* The same after a step. *)
LEMMA HolderDefNext == IInv' /\ HolderIsRunner' => HoldersAgree'
  BY HolderDef, PTL

-----------------------------------------------------------------------------
(* A step that grants nothing withdraws the runs whose holder changed and  *)
(* closes those that ended.  That no held run ends without its holder      *)
(* losing it is HoldersAgree after the step.                                 *)
LEMMA WithdrawMaps ==
  ASSUME IInv, HolderIsRunner, IInv', HolderIsRunner', [Next]_vars,
         UNCHANGED <<nextAttempt, leaseRunner>>,
         \A l \in Lease : leaseStatus'[l] = "active" => leaseStatus[l] = "active"
  PROVE  Authority!Next
  <1> DEFINE S == {r \in Run : Holder[r] # NoRunner /\ Holder'[r] = NoRunner}
             C == Closed' \ Closed
  <1>1. \A r \in Run : Holder'[r] = Holder[r] \/ Holder'[r] = NoRunner
    <2> SUFFICES ASSUME NEW r \in Run, Holder'[r] # NoRunner PROVE Holder'[r] = Holder[r]
      BY Zenon
    <2>1. PICK a \in Attempt : leaseStatus'[<<r, a>>] = "active" /\ Holder'[r] = leaseRunner'[<<r, a>>]
      BY HolderDefNext, Zenon DEF HoldersAgree
    <2>2. leaseStatus[<<r, a>>] = "active"
      BY <2>1, LeasePair, Zenon
    <2> QED
      BY <2>1, <2>2, HolderDef, Zenon DEF HoldersAgree
  <1>2. Closed \subseteq Closed'
    BY TerminalRunStep, Zenon DEF Closed
  <1>3. \A r \in Run : Holder'[r] # NoRunner => r \notin Closed'
    BY HolderDefNext, Zenon DEF HoldersAgree
  <1>4. Authority!Withdraw(S, C)
    <2>1. S \subseteq Authority!Held
      BY Zenon DEF Authority!Held
    <2>2. C \subseteq Run \ Closed
      BY Zenon DEF Closed
    <2>3. C \cap Authority!Held \subseteq S
      BY <1>3, Zenon DEF Authority!Held
    <2>4. Holder' = Authority!Without(S)
      BY <1>1, Zenon DEF Authority!Without, Holder
    <2>5. Closed' = Closed \cup C
      BY <1>2, Zenon
    <2>6. Generation' = Generation
      BY Zenon DEF Generation
    <2> QED
      BY <2>1, <2>2, <2>3, <2>4, <2>5, <2>6, Zenon DEF Authority!Withdraw
  <1>5. S \in SUBSET Run /\ C \in SUBSET Run
    BY Zenon DEF Closed
  <1> HIDE DEF S, C
  <1> QED
    BY <1>4, <1>5, Zenon DEF Authority!Next

(* A claim maps to a grant: the swept runs lose their holders, the builds  *)
(* among them end, and the claimed run has a new holder.                   *)
LEMMA ClaimMaps ==
  ASSUME IInv, HolderIsRunner, IInv', HolderIsRunner',
         NEW n \in Runner, NEW S \in SUBSET Run, NEW r \in Run, ClaimRun(n, S, r)
  PROVE  Authority!Next
  <1> DEFINE l == <<r, nextAttempt[r]>>
             C == {q \in S : Requeue(S)[q] = "failed"}
  <1>0. /\ S \subseteq Due /\ Requeue(S)[r] = "queued" /\ nextAttempt[r] <= MaxAttempt
        /\ runStatus' = [Requeue(S) EXCEPT ![r] = "running"]
        /\ nextAttempt' = [nextAttempt EXCEPT ![r] = @ + 1]
        /\ leaseStatus' = [Expire(S) EXCEPT ![l] = "active"]
        /\ leaseRunner' = [leaseRunner EXCEPT ![l] = n]
    BY Zenon DEF ClaimRun
  <1>1. /\ l \in Lease /\ nextAttempt[r] \in Attempt
        /\ leaseStatus' \in [Lease -> LeaseStatus] /\ leaseRunner \in [Lease -> Runner \cup {NoRunner}]
        /\ nextAttempt \in [Run -> 1..(MaxAttempt + 1)]
        /\ Requeue(S) \in [Run -> RunStatus] /\ Expire(S) \in [Lease -> LeaseStatus]
    BY <1>0, SweepFacts, LeasePair DEF IInv, TypeOK, Attempt
  <1>2. S \subseteq Authority!Held
    BY <1>0, HolderDef, Zenon DEF Due, Lapsed, HoldersAgree, Authority!Held
  <1>3. r \notin Closed /\ r \notin Authority!Held \ S
    <2>1. r \in S \/ runStatus[r] = "queued"
      BY <1>0, SweepFacts
    <2>2. r \in S => runStatus[r] = "running"
      BY <1>0, SweepFacts, Zenon
    <2>3. Holder[r] # NoRunner => runStatus[r] = "running"
      BY HolderDef, Zenon DEF HoldersAgree, IInv, AuthorityIsCurrent
    <2> QED
      BY <2>1, <2>2, <2>3, Zenon DEF Closed, TerminalRunStatus, Authority!Held
  <1>4. Holder' = [Authority!Without(S) EXCEPT ![r] = n]
    <2>1. Holder'[r] = n
      BY <1>0, <1>1, HolderDefNext, Zenon DEF HoldersAgree
    <2>2. ASSUME NEW q \in Run \ {r} PROVE Holder'[q] = Authority!Without(S)[q]
      <3>1. \A a \in Attempt : /\ <<q, a>> \in Lease /\ <<q, a>> # l /\ <<q, a>>[1] = q
                               /\ leaseRunner'[<<q, a>>] = leaseRunner[<<q, a>>]
                               /\ leaseStatus'[<<q, a>>] = Expire(S)[<<q, a>>]
        BY <1>0, <1>1, LeasePair, Zenon
      <3>2. CASE q \in S
        <4>1. \A a \in Attempt : leaseStatus'[<<q, a>>] # "active"
          BY <1>0, <3>1, <3>2, SweepFacts
        <4> QED
          BY <3>2, <4>1, HolderDefNext, Zenon DEF HoldersAgree, Authority!Without
      <3>3. CASE q \notin S
        <4>1. \A a \in Attempt : leaseStatus'[<<q, a>>] = leaseStatus[<<q, a>>]
          BY <3>1, <3>3, Zenon DEF Expire
        <4>2. nextAttempt'[q] = nextAttempt[q]
          BY <1>0, <1>1, Zenon
        <4>3. nextAttempt[q] > 1 => nextAttempt[q] - 1 \in Attempt
          BY <1>1, BoundAssumption DEF Attempt
        <4>4. Holder'[q] = Holder[q]
          BY <3>1, <4>1, <4>2, <4>3, Zenon DEF Holder
        <4> QED
          BY <3>3, <4>4, Zenon DEF Authority!Without
      <3> QED
        BY <3>2, <3>3, Zenon
    <2>3. \E f, g : Holder' = [q \in Run |-> f[q]] /\ Authority!Without(S) = [q \in Run |-> g[q]]
      <3>1. Holder' = [q \in Run |-> Holder'[q]] /\ Authority!Without(S) = [q \in Run |-> Authority!Without(S)[q]]
        BY Zenon DEF Holder, Authority!Without
      <3> QED
        BY <3>1, Zenon
    <2> QED
      BY <2>1, <2>2, <2>3, Zenon
  <1>5. Generation' = [Generation EXCEPT ![r] = @ + 1] /\ Generation[r] < MaxAttempt
    <2>1. \A q \in Run : nextAttempt'[q] = IF q = r THEN nextAttempt[q] + 1 ELSE nextAttempt[q]
      BY <1>0, <1>1, Zenon
    <2>2. \A q \in Run : nextAttempt[q] \in Nat
      BY <1>1
    <2>3. \A q \in Run : nextAttempt'[q] - 1 = IF q = r THEN nextAttempt[q] - 1 + 1 ELSE nextAttempt[q] - 1
      BY <2>1, <2>2
    <2>4. Generation' = [Generation EXCEPT ![r] = @ + 1]
      BY <2>3, Zenon DEF Generation
    <2> QED
      BY <1>0, <2>2, <2>4, BoundAssumption DEF Generation
  <1>6. Closed' = Closed \cup C
    BY <1>0, <1>1, SweepFacts DEF Closed, TerminalRunStatus
  <1>7. C \subseteq S \ {r}
    BY <1>0, Zenon
  <1> HIDE DEF C
  <1>8. Authority!Grant(S, C, r, n)
    BY <1>2, <1>3, <1>4, <1>5, <1>6, <1>7, Zenon DEF Authority!Grant
  <1> QED
    BY <1>7, <1>8, Zenon DEF Authority!Next

(* RunLeases implements FencedAuthority under the mapping of RunLeases. *)
THEOREM AuthorityRefinement == Spec => ImplementsAuthority
  <1>1. Init => Authority!Init
    BY DEF Init, Authority!Init, Holder, Generation, Closed, TerminalRunStatus
  <1>2. Init => HolderIsRunner
    BY Zenon DEF Init, HolderIsRunner
  <1>3. IInv /\ HolderIsRunner /\ [Next]_vars => HolderIsRunner'
    BY HolderIsRunnerStep, Zenon
  <1>4. IInv /\ HolderIsRunner /\ IInv' /\ HolderIsRunner' /\ [Next]_vars =>
          [Authority!Next]_(Authority!avars)
    BY OnlyClaimGrants, WithdrawMaps, ClaimMaps, Zenon
  <1> QED
    BY <1>1, <1>2, <1>3, <1>4, Invariance, PTL DEF Spec, ImplementsAuthority, Authority!Spec
=============================================================================
