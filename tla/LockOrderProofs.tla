-------------------------- MODULE LockOrderProofs --------------------------
(***************************************************************************)
(* The locks of the store's transactions, for every mix of transactions in *)
(* flight, any number of each kind, and every number of repetitions: those *)
(* that take the run's row first never wait for each other in a circle,    *)
(* and a transaction that is about to write a status still holds the one   *)
(* it read.                                                                *)
(***************************************************************************)
EXTENDS LockOrder, TLAPS

-----------------------------------------------------------------------------
(* The lists of locks. *)

U(row) == [row |-> row, mode |-> "update"]
N(row) == [row |-> row, mode |-> "nokey"]

(* s has the length and the elements of t. *)
Same(s, t) == Len(s) = Len(t) /\ \A i \in 1 .. Len(t) : s[i] = t[i]

(* Each transaction's list, written out. *)
LEMMA ListsWrittenOut ==
    /\ Same(LocksOf("complete"), <<U("run"), U("log"), U("lease")>>)
    /\ Same(LocksOf("append"), <<U("run"), U("log"), U("lease")>>)
    /\ Same(LocksOf("cancelRun"), <<U("run"), U("log"), U("lease")>>)
    /\ Same(LocksOf("transition"), <<U("run"), U("log"), U("deployment"), U("attempt"),
           U("lease"), N("environment")>>)
    /\ Same(LocksOf("fail"), <<U("run"), U("log"), U("deployment"), U("attempt"), U("lease"),
           U("environment")>>)
    /\ Same(LocksOf("cancel"), <<U("deployment"), U("run"), U("log"), N("lease"), N("attempt")>>)
    /\ Same(LocksOf("failPre"), <<U("deployment"), N("run")>>)
    /\ Same(LocksOf("claim"), <<U("cursor"), [row |-> "run", mode |-> "skip"], U("deployment")>>)
    /\ Same(LocksOf("expire"), <<[row |-> "run", mode |-> "skip"], N("lease"), N("attempt")>>)
    /\ Same(LocksOf("resolve"), <<U("deployment"), U("attempt"), U("revision"), U("lease")>>)
    /\ Same(LocksOf("artifact"), <<U("lease"), [row |-> "run", mode |-> "keyshare"]>>)
    /\ Same(LocksOf("renew"), <<N("lease")>>)
    /\ Same(LocksOf("retention"), <<U("policy"), U("run"), U("log"), U("lease"), U("run2"),
           U("log2")>>)
<1>1. /\ LocksOf("complete") = CompleteRunLease
      /\ LocksOf("append") = CreateRunLogsForLease
      /\ LocksOf("cancelRun") = CancelRunRequest
      /\ LocksOf("transition") = TransitionDeploymentAttempt
      /\ LocksOf("fail") = FailDeploymentAndCreateRollback
      /\ LocksOf("cancel") = CancelDeploymentRequest
      /\ LocksOf("failPre") = FailPreAssignmentDeployment
      /\ LocksOf("claim") = ClaimRun
      /\ LocksOf("expire") = ExpireLeases
      /\ LocksOf("resolve") = ResolveRevisionProvenance
      /\ LocksOf("artifact") = CreateArtifactForLease
      /\ LocksOf("renew") = RenewRunLease
      /\ LocksOf("retention") = ExecuteRunLogRetention
  BY Zenon DEF LocksOf
<1>2. /\ Same(CompleteRunLease, <<U("run"), U("log"), U("lease")>>)
      /\ Same(CreateRunLogsForLease, <<U("run"), U("log"), U("lease")>>)
      /\ Same(CancelRunRequest, <<U("run"), U("log"), U("lease")>>)
  BY DEF Same, CompleteRunLease, CreateRunLogsForLease, CancelRunRequest, X, U
<1>3. Same(TransitionDeploymentAttempt, <<U("run"), U("log"), U("deployment"), U("attempt"),
          U("lease"), N("environment")>>)
  BY DEF Same, TransitionDeploymentAttempt, X, L, U, N
<1>4. Same(FailDeploymentAndCreateRollback, <<U("run"), U("log"), U("deployment"), U("attempt"),
          U("lease"), U("environment")>>)
  BY DEF Same, FailDeploymentAndCreateRollback, X, U
<1>5. Same(CancelDeploymentRequest, <<U("deployment"), U("run"), U("log"), N("lease"),
          N("attempt")>>)
  BY DEF Same, CancelDeploymentRequest, X, L, U, N
<1>6. /\ Same(FailPreAssignmentDeployment, <<U("deployment"), N("run")>>)
      /\ Same(ClaimRun, <<U("cursor"), [row |-> "run", mode |-> "skip"], U("deployment")>>)
  BY DEF Same, FailPreAssignmentDeployment, ClaimRun, X, L, U, N
<1>7. Same(ExpireLeases, <<[row |-> "run", mode |-> "skip"], N("lease"), N("attempt")>>)
  BY DEF Same, ExpireLeases, L, N
<1>8. Same(ResolveRevisionProvenance, <<U("deployment"), U("attempt"), U("revision"), U("lease")>>)
  BY DEF Same, ResolveRevisionProvenance, X, U
<1>9. /\ Same(CreateArtifactForLease, <<U("lease"), [row |-> "run", mode |-> "keyshare"]>>)
      /\ Same(RenewRunLease, <<N("lease")>>)
  BY DEF Same, CreateArtifactForLease, RenewRunLease, X, L, U, N
<1>10. Same(ExecuteRunLogRetention, <<U("policy"), U("run"), U("log"), U("lease"), U("run2"),
           U("log2")>>)
  BY DEF Same, ExecuteRunLogRetention, X, U
<1> QED BY <1>1, <1>2, <1>3, <1>4, <1>5, <1>6, <1>7, <1>8, <1>9, <1>10, Zenon

(* No list is longer than six locks, so no position is Done or Aborted. *)
LEMMA ListLength ==
    ASSUME NEW k \in Kinds
    PROVE  Len(LocksOf(k)) \in 1 .. 6
BY ListsWrittenOut DEF Same, Kinds

(* The order in which rows are taken by the transactions that take the run *)
(* first.                                                                  *)
Rank(row) ==
    IF row \in {"cursor", "policy"} THEN 0
    ELSE IF row = "run" THEN 1
    ELSE IF row = "log" THEN 2
    ELSE IF row = "deployment" THEN 3
    ELSE IF row = "attempt" THEN 4
    ELSE IF row = "lease" THEN 5
    ELSE IF row = "environment" THEN 6
    ELSE IF row = "run2" THEN 7
    ELSE 8

(* All of them but the sweep of expired leases take their rows in that     *)
(* order (postgres_runners.go, postgres_deployments.go, retention.go).     *)
LEMMA RowsAscend ==
    ASSUME NEW k \in Kinds, k \notin Inverted, k # "expire",
           NEW i \in 1 .. Len(LocksOf(k)), NEW j \in 1 .. Len(LocksOf(k)), i < j
    PROVE  Rank(LocksOf(k)[i].row) < Rank(LocksOf(k)[j].row)
<1>1. CASE k \in {"complete", "append", "cancelRun"}
  <2>1. Same(LocksOf(k), <<U("run"), U("log"), U("lease")>>)
    BY <1>1, ListsWrittenOut, Zenon
  <2> QED BY <2>1 DEF Same, Rank, U
<1>2. CASE k = "transition"
  BY <1>2, ListsWrittenOut DEF Same, Rank, U, N
<1>3. CASE k = "fail"
  BY <1>3, ListsWrittenOut DEF Same, Rank, U
<1>4. CASE k = "claim"
  BY <1>4, ListsWrittenOut DEF Same, Rank, U
<1>5. CASE k = "renew"
  BY <1>5, ListsWrittenOut DEF Same
<1>6. CASE k = "retention"
  BY <1>6, ListsWrittenOut DEF Same, Rank, U
<1> QED BY <1>1, <1>2, <1>3, <1>4, <1>5, <1>6 DEF Kinds, Inverted

(* The sweep locks the run, then its lease and its attempt (ExpireLeases). *)
(* Whoever else takes the run first holds it when it holds one of those;   *)
(* a renewal takes the lease alone.                                        *)
LEMMA RunIsFirst ==
    ASSUME NEW k \in Kinds, k \notin Inverted, k # "renew",
           NEW i \in 1 .. Len(LocksOf(k)), LocksOf(k)[i].row \in {"lease", "attempt"}
    PROVE  \E j \in 1 .. i : LocksOf(k)[j].row = "run" /\ LocksOf(k)[j].mode \in {"update", "skip"}
<1>1. CASE k \in {"complete", "append", "cancelRun", "transition", "fail"}
  <2>1. LocksOf(k)[1] = U("run")
    BY <1>1, ListsWrittenOut DEF Same
  <2> QED BY <2>1, ListLength DEF U
<1>2. CASE k = "claim"
  <2>1. \A m \in 1 .. Len(LocksOf(k)) : LocksOf(k)[m].row \notin {"lease", "attempt"}
    BY <1>2, ListsWrittenOut DEF Same, U
  <2> QED BY <2>1, Zenon
<1>3. CASE k = "expire"
  <2>1. LocksOf(k)[1].row = "run" /\ LocksOf(k)[1].mode = "skip"
    BY <1>3, ListsWrittenOut DEF Same
  <2> QED BY <2>1, ListLength
<1>4. CASE k = "retention"
  <2>1. LocksOf(k)[1] = U("policy") /\ LocksOf(k)[2] = U("run")
    BY <1>4, ListsWrittenOut DEF Same
  <2>2. i >= 2
    BY <2>1, ListLength DEF U
  <2> QED BY <2>1, <2>2, ListLength DEF U
<1> QED BY <1>1, <1>2, <1>3, <1>4, Zenon DEF Kinds, Inverted

LEMMA SweepList ==
    /\ Len(LocksOf("expire")) = 3
    /\ LocksOf("expire")[1] = [row |-> "run", mode |-> "skip"]
    /\ LocksOf("expire")[2].row = "lease" /\ LocksOf("expire")[3].row = "attempt"
BY ListsWrittenOut DEF Same, N

-----------------------------------------------------------------------------
(* The inductive invariant. *)

(* A status that was read was read with the lock that guards it. *)
ReadIsLocked == \A t \in Txns : Running(t) /\ seen[t] # Unread => at[t] >= ReadsAt(t)

(* The transactions that write a status, and what they read stands. *)
Deciders == {"claim", "expire", "complete", "cancelRun", "cancel", "transition", "fail", "failPre"}

ReadStands ==
    \A t \in Txns : Kind(t) \in Deciders /\ Running(t) /\ seen[t] # Unread => seen[t] = Status(t)

LockInv == LTypeOK /\ LocksExclude /\ ReadIsLocked /\ ReadStands

(* The kind of a transaction in flight is one of the thirteen. *)
LEMMA KindIsKnown ==
    ASSUME LTypeOK, NEW t \in Txns
    PROVE  Kind(t) \in Kinds /\ Len(Locks(t)) \in 1 .. 6
BY LockAssumption, ListLength DEF LTypeOK, Txns, Kind, Locks

(* Its place is one of its list while it runs. *)
LEMMA PlaceInList ==
    ASSUME LTypeOK, NEW t \in Txns, Running(t)
    PROVE  at[t] \in 0 .. Len(Locks(t))
BY Zenon DEF LTypeOK, Running

(* A lock that is held is one of those the transaction has taken. *)
LEMMA HeldIsTaken ==
    ASSUME LTypeOK, NEW t \in Txns, NEW h \in Held(t)
    PROVE  Running(t) /\ \E i \in 1 .. at[t] : i \in 1 .. Len(Locks(t)) /\ h = Locks(t)[i]
<1>1. Running(t) /\ \E i \in 1 .. at[t] : h = Locks(t)[i]
  BY Zenon DEF Held
<1> QED BY <1>1, PlaceInList, KindIsKnown

(* What the transaction has taken it holds. *)
LEMMA TakenIsHeld ==
    ASSUME NEW t \in Txns, Running(t), NEW i \in 1 .. at[t]
    PROVE  Locks(t)[i] \in Held(t)
BY Zenon DEF Held

-----------------------------------------------------------------------------
(* No circle. *)

(* A sweep that holds its run waits for nobody who waits: whoever holds    *)
(* the lease or the attempt it wants would hold the run as well, and a     *)
(* renewal, which does not, waits for nothing.                             *)
LEMMA SweepIsInNoCircle ==
    ASSUME LTypeOK, LocksExclude, NEW t \in Txns, Kind(t) = "expire", at[t] >= 1,
           NEW u \in Txns, Kind(u) \notin Inverted, WaitsFor(t, u), More(u)
    PROVE  FALSE
<1>1. Running(t) /\ t # u /\ at[t] \in {1, 2}
  <2>1. Running(t) /\ t # u /\ at[t] < Len(Locks(t))
    BY Zenon DEF WaitsFor, More
  <2>2. at[t] \in 0 .. Len(Locks(t))
    BY <2>1, PlaceInList, Zenon
  <2>3. Len(Locks(t)) = 3
    BY SweepList, Zenon DEF Locks
  <2> QED BY <2>1, <2>2, <2>3
<1>2. Wanted(t).row \in {"lease", "attempt"}
  BY <1>1, SweepList DEF Wanted, Locks
<1>3. PICK h \in Held(u) : h.row = Wanted(t).row
  BY Zenon DEF WaitsFor
<1>4. Running(u)
  BY HeldIsTaken, Zenon
<1>5. PICK i \in 1 .. at[u] : i \in 1 .. Len(Locks(u)) /\ h = Locks(u)[i]
  BY HeldIsTaken, Zenon
<1>6. at[u] \in Nat
  BY <1>4, PlaceInList, KindIsKnown
<1>7. CASE Kind(u) = "renew"
  <2>1. Len(Locks(u)) = 1
    BY <1>7, ListsWrittenOut, Zenon DEF Same, Locks
  <2> QED BY <2>1, <1>5, <1>6 DEF More
<1>8. CASE Kind(u) # "renew"
  <2>1. PICK j \in 1 .. i : Locks(u)[j].row = "run" /\ Locks(u)[j].mode \in {"update", "skip"}
    BY <1>2, <1>3, <1>5, <1>8, KindIsKnown, RunIsFirst DEF Locks
  <2>2. Locks(u)[j] \in Held(u)
    BY <1>4, <1>5, <1>6, TakenIsHeld
  <2>3. Locks(t)[1] \in Held(t)
    BY <1>1, TakenIsHeld
  <2>4. Locks(t)[1].row = "run" /\ Locks(t)[1].mode = "skip"
    BY SweepList DEF Locks
  <2>5. ~Conflicts(Locks(t)[1].mode, Locks(u)[j].mode)
    BY <1>1, <2>1, <2>2, <2>3, <2>4, Zenon DEF LocksExclude
  <2> QED BY <2>4, <2>5, Zenon DEF Conflicts
<1> QED BY <1>7, <1>8, Zenon

(* Others want a row beyond every row they hold, so the row a transaction  *)
(* wants is before the one its holder wants.                               *)
LEMMA HolderWantsMore ==
    ASSUME LTypeOK, NEW t \in Txns, NEW u \in Txns, WaitsFor(t, u), More(u),
           Kind(u) \notin Inverted, Kind(u) # "expire"
    PROVE  Rank(Wanted(t).row) < Rank(Wanted(u).row)
<1>1. PICK h \in Held(u) : h.row = Wanted(t).row
  BY Zenon DEF WaitsFor
<1>2. PICK i \in 1 .. at[u] : i \in 1 .. Len(Locks(u)) /\ h = Locks(u)[i]
  BY HeldIsTaken, Zenon
<1>3. at[u] \in Nat /\ at[u] < Len(Locks(u)) /\ Len(Locks(u)) \in Nat
  BY PlaceInList, KindIsKnown DEF More
<1>4. i < at[u] + 1 /\ at[u] + 1 \in 1 .. Len(Locks(u))
  BY <1>2, <1>3
<1> QED BY <1>1, <1>2, <1>4, KindIsKnown, RowsAscend, Zenon DEF Locks, Wanted

(* The transactions that take the run first never wait in a circle: of     *)
(* those that hold something one would want the last row.                  *)
LEMMA NoCircle ==
    ASSUME LTypeOK, LocksExclude
    PROVE  RunFirstNeverDeadlocks
<1> SUFFICES ASSUME NEW S \in SUBSET {t \in Txns : Kind(t) \notin Inverted},
                    \A t \in S : \E u \in S : WaitsFor(t, u), S # {}
             PROVE  FALSE
  BY Zenon DEF RunFirstNeverDeadlocks
<1> DEFINE T == {u \in S : at[u] >= 1}
<1>1. \A t \in S : t \in Txns /\ Kind(t) \notin Inverted /\ More(t) /\ Running(t)
  BY Zenon DEF WaitsFor, More
<1>2. \A t \in S : \E u \in T : WaitsFor(t, u)
  <2> SUFFICES ASSUME NEW t \in S PROVE \E u \in T : WaitsFor(t, u)
    BY Zenon
  <2>1. PICK u \in S : WaitsFor(t, u)
    BY Zenon
  <2>2. PICK h \in Held(u) : h.row = Wanted(t).row
    BY <2>1, Zenon DEF WaitsFor
  <2>3. at[u] >= 1
    BY <1>1, <2>2, HeldIsTaken, PlaceInList, KindIsKnown
  <2> QED BY <2>1, <2>3, Zenon
<1>3. \A t \in T : Kind(t) # "expire"
  BY <1>1, <1>2, SweepIsInNoCircle, Zenon
<1> DEFINE P(n) == \E u \in T : Rank(Wanted(u).row) >= n
<1>4. \A n \in 0 .. 8 : P(n) => P(n + 1)
  <2> SUFFICES ASSUME NEW n \in 0 .. 8, NEW t \in T, Rank(Wanted(t).row) >= n PROVE P(n + 1)
    BY Zenon
  <2>1. PICK u \in T : WaitsFor(t, u)
    BY <1>2, Zenon
  <2>2. Rank(Wanted(t).row) < Rank(Wanted(u).row)
    BY <1>1, <1>3, <2>1, HolderWantsMore, Zenon
  <2>3. Rank(Wanted(t).row) \in Nat /\ Rank(Wanted(u).row) \in Nat
    BY Zenon DEF Rank
  <2> QED BY <2>2, <2>3
<1>5. P(0)
  BY <1>2 DEF Rank
<1>6. P(9)
  <2> HIDE DEF P
  <2> QED BY <1>4, <1>5
<1> QED BY <1>6 DEF Rank

-----------------------------------------------------------------------------
(* The queue. *)

(* Without takes its element out of a queue without repetitions. *)
LEMMA Removed ==
    ASSUME NEW D, NEW q \in Seq(D), IsInjective(q), NEW e
    PROVE  LET r == Without(q, e)
           IN /\ r \in Seq(D) /\ IsInjective(r)
              /\ \A x \in Range(r) : x # e /\ x \in Range(q)
<1>1. CASE e \notin Range(q)
  BY <1>1, Zenon DEF Without
<1>2. CASE e \in Range(q)
  <2>1. PICK i \in 1 .. Len(q) :
            /\ q[i] = e
            /\ Without(q, e) = SubSeq(q, 1, i - 1) \o SubSeq(q, i + 1, Len(q))
    <3> DEFINE c == CHOOSE i \in DOMAIN q : q[i] = e
    <3>1. c \in DOMAIN q /\ q[c] = e
      BY <1>2, Zenon DEF Range
    <3>2. Without(q, e) = SubSeq(q, 1, c - 1) \o SubSeq(q, c + 1, Len(q))
      BY <1>2, Zenon DEF Without
    <3> HIDE DEF c
    <3>3. c \in 1 .. Len(q)
      BY <3>1
    <3> QED BY <3>1, <3>2, <3>3, Zenon
  <2> DEFINE a == SubSeq(q, 1, i - 1)
             b == SubSeq(q, i + 1, Len(q))
             r == a \o b
  <2>2. /\ a \in Seq(D) /\ Len(a) = i - 1
        /\ \A j \in 1 .. Len(a) : a[j] = q[j]
    OBVIOUS
  <2>3. /\ b \in Seq(D) /\ Len(b) = Len(q) - i
        /\ \A j \in 1 .. Len(b) : b[j] = q[i + j]
    OBVIOUS
  <2>4. /\ r \in Seq(D) /\ DOMAIN r = 1 .. Len(q) - 1
        /\ \A j \in 1 .. Len(q) - 1 : r[j] = IF j < i THEN q[j] ELSE q[j + 1]
    <3> HIDE DEF a, b
    <3> QED BY <2>2, <2>3
  <2> HIDE DEF r
  <2>5. IsInjective(r)
    BY <2>4 DEF IsInjective
  <2>6. \A x \in Range(r) : x # e /\ x \in Range(q)
    <3> SUFFICES ASSUME NEW j \in DOMAIN r PROVE r[j] # e /\ r[j] \in Range(q)
      BY Zenon DEF Range
    <3>1. PICK k \in 1 .. Len(q) : k # i /\ r[j] = q[k]
      BY <2>1, <2>4
    <3> QED BY <2>1, <3>1 DEF IsInjective, Range
  <2> QED BY <2>1, <2>4, <2>5, <2>6, Zenon DEF r
<1> QED BY <1>1, <1>2, Zenon

-----------------------------------------------------------------------------
(* What is read and what is written. *)

(* The lock with which a status is read is one of the list. *)
LEMMA ReadsInList ==
    ASSUME LTypeOK, NEW t \in Txns
    PROVE  ReadsAt(t) \in 1 .. Len(Locks(t))
<1> DEFINE own == {i \in 1 .. Len(Locks(t)) : Locks(t)[i].row = Guards(Kind(t))}
<1>1. CASE own = {}
  <2>1. ReadsAt(t) = 1
    BY <1>1, Zenon DEF ReadsAt
  <2> QED BY <2>1, KindIsKnown
<1>2. CASE own # {}
  <2>1. ReadsAt(t) = CHOOSE i \in own : TRUE
    BY <1>2, Zenon DEF ReadsAt
  <2>2. (CHOOSE i \in own : TRUE) \in own
    BY <1>2, Zenon
  <2> QED BY <2>1, <2>2, Zenon
<1> QED BY <1>1, <1>2, Zenon

(* A transaction that writes a status reads it under FOR UPDATE. *)
LEMMA DecidersLock ==
    ASSUME LTypeOK, NEW t \in Txns, Kind(t) \in Deciders
    PROVE  /\ Locks(t)[ReadsAt(t)].row = Guards(Kind(t))
           /\ Locks(t)[ReadsAt(t)].mode \in {"update", "skip"}
<1> DEFINE k == Kind(t)
           own == {i \in 1 .. Len(Locks(t)) : Locks(t)[i].row = Guards(k)}
<1>1. /\ \E i \in 1 .. Len(Locks(t)) : Locks(t)[i].row = Guards(k)
      /\ \A i \in 1 .. Len(Locks(t)) :
             Locks(t)[i].row = Guards(k) => Locks(t)[i].mode \in {"update", "skip"}
  <2>1. CASE k \in {"complete", "cancelRun"}
    <3>1. Same(Locks(t), <<U("run"), U("log"), U("lease")>>)
      BY <2>1, ListsWrittenOut, Zenon DEF Locks
    <3>2. Locks(t)[1].row = "run" /\ Guards(k) = "run"
      BY <2>1, <3>1 DEF Same, U, Guards
    <3> QED BY <3>1, <3>2 DEF Same, U
  <2>2. CASE k = "transition"
    <3>1. Same(Locks(t), <<U("run"), U("log"), U("deployment"), U("attempt"), U("lease"),
              N("environment")>>)
      BY <2>2, ListsWrittenOut, Zenon DEF Locks
    <3>2. Locks(t)[1].row = "run" /\ Guards(k) = "run"
      BY <2>2, <3>1 DEF Same, U, Guards
    <3> QED BY <3>1, <3>2 DEF Same, U, N
  <2>3. CASE k = "fail"
    <3>1. Same(Locks(t), <<U("run"), U("log"), U("deployment"), U("attempt"), U("lease"),
              U("environment")>>)
      BY <2>3, ListsWrittenOut, Zenon DEF Locks
    <3>2. Locks(t)[1].row = "run" /\ Guards(k) = "run"
      BY <2>3, <3>1 DEF Same, U, Guards
    <3> QED BY <3>1, <3>2 DEF Same, U
  <2>4. CASE k = "cancel"
    <3>1. Same(Locks(t), <<U("deployment"), U("run"), U("log"), N("lease"), N("attempt")>>)
      BY <2>4, ListsWrittenOut, Zenon DEF Locks
    <3>2. Locks(t)[1].row = "deployment" /\ Guards(k) = "deployment"
      BY <2>4, <3>1 DEF Same, U, Guards
    <3> QED BY <3>1, <3>2 DEF Same, U, N
  <2>5. CASE k = "failPre"
    <3>1. Same(Locks(t), <<U("deployment"), N("run")>>)
      BY <2>5, ListsWrittenOut, Zenon DEF Locks
    <3>2. Locks(t)[1].row = "deployment" /\ Guards(k) = "deployment"
      BY <2>5, <3>1 DEF Same, U, Guards
    <3> QED BY <3>1, <3>2 DEF Same, U, N
  <2>6. CASE k = "claim"
    <3>1. Same(Locks(t), <<U("cursor"), [row |-> "run", mode |-> "skip"], U("deployment")>>)
      BY <2>6, ListsWrittenOut, Zenon DEF Locks
    <3>2. Locks(t)[2].row = "run" /\ Guards(k) = "run"
      BY <2>6, <3>1 DEF Same, U, Guards
    <3> QED BY <3>1, <3>2 DEF Same, U
  <2>7. CASE k = "expire"
    <3>1. Same(Locks(t), <<[row |-> "run", mode |-> "skip"], N("lease"), N("attempt")>>)
      BY <2>7, ListsWrittenOut, Zenon DEF Locks
    <3>2. Locks(t)[1].row = "run" /\ Guards(k) = "run"
      BY <2>7, <3>1 DEF Same, Guards
    <3> QED BY <3>1, <3>2 DEF Same, N
  <2> QED BY <2>1, <2>2, <2>3, <2>4, <2>5, <2>6, <2>7 DEF Deciders
<1>2. own # {}
  BY <1>1, Zenon
<1>3. ReadsAt(t) = CHOOSE i \in own : TRUE
  BY <1>2, Zenon DEF ReadsAt
<1>4. (CHOOSE i \in own : TRUE) \in own
  BY <1>2, Zenon
<1> QED BY <1>1, <1>3, <1>4, Zenon

(* What each kind of transaction writes. *)
LEMMA WritesWrittenOut ==
    /\ After("claim") = [run |-> "running", dep |-> "assigned"]
    /\ After("expire") = [st EXCEPT !.run = "queued"]
    /\ After("complete") = [st EXCEPT !.run = "ended"]
    /\ After("cancelRun") = [st EXCEPT !.run = "canceled"]
    /\ After("cancel") = [run |-> "canceled", dep |-> "canceled"]
    /\ \A k \in {"transition", "fail", "failPre"} : After(k) = [run |-> "ended", dep |-> "ended"]
    /\ \A k \in Kinds \ Deciders : After(k) = st
BY Zenon DEF After, Kinds, Deciders

(* Whoever writes the status of the run or of the deployment has its row   *)
(* in its list, and writes a status.                                       *)
LEMMA WritersLock ==
    ASSUME LTypeOK, NEW u \in Txns
    PROVE  /\ After(Kind(u)) \in [run : Statuses, dep : Statuses]
           /\ After(Kind(u)).run # st.run => \E i \in 1 .. Len(Locks(u)) : Locks(u)[i].row = "run"
           /\ After(Kind(u)).dep # st.dep => \E i \in 1 .. Len(Locks(u)) : Locks(u)[i].row = "deployment"
<1> DEFINE k == Kind(u)
<1>0. st \in [run : Statuses, dep : Statuses] /\ k \in Kinds /\ Len(Locks(u)) \in 1 .. 6
  BY KindIsKnown, Zenon DEF LTypeOK
<1>1. CASE k \in Kinds \ Deciders
  <2>1. After(k) = st
    BY <1>1, WritesWrittenOut, Zenon
  <2> QED BY <1>0, <2>1, Zenon
<1>2. CASE k \in {"complete", "cancelRun", "expire"}
  <2>1. Locks(u)[1].row = "run"
    BY <1>2, ListsWrittenOut DEF Same, U, Locks
  <2>2. \E s \in Statuses : After(k) = [st EXCEPT !.run = s]
    BY <1>2, WritesWrittenOut, Zenon DEF Statuses
  <2> QED BY <1>0, <2>1, <2>2
<1>3. CASE k \in {"transition", "fail"}
  <2>1. Locks(u)[1].row = "run" /\ Locks(u)[3].row = "deployment" /\ Len(Locks(u)) = 6
    BY <1>3, ListsWrittenOut DEF Same, U, Locks
  <2>2. After(k) = [run |-> "ended", dep |-> "ended"]
    BY <1>3, WritesWrittenOut, Zenon
  <2> QED BY <2>1, <2>2 DEF Statuses
<1>4. CASE k = "failPre"
  <2>1. Locks(u)[1].row = "deployment" /\ Locks(u)[2].row = "run" /\ Len(Locks(u)) = 2
    BY <1>4, ListsWrittenOut DEF Same, U, N, Locks
  <2>2. After(k) = [run |-> "ended", dep |-> "ended"]
    BY <1>4, WritesWrittenOut, Zenon
  <2> QED BY <2>1, <2>2 DEF Statuses
<1>5. CASE k = "cancel"
  <2>1. Locks(u)[1].row = "deployment" /\ Locks(u)[2].row = "run" /\ Len(Locks(u)) = 5
    BY <1>5, ListsWrittenOut DEF Same, U, Locks
  <2>2. After(k) = [run |-> "canceled", dep |-> "canceled"]
    BY <1>5, WritesWrittenOut, Zenon
  <2> QED BY <2>1, <2>2 DEF Statuses
<1>6. CASE k = "claim"
  <2>1. Locks(u)[3].row = "deployment" /\ Locks(u)[2].row = "run" /\ Len(Locks(u)) = 3
    BY <1>6, ListsWrittenOut DEF Same, U, Locks
  <2>2. After(k) = [run |-> "running", dep |-> "assigned"]
    BY <1>6, WritesWrittenOut, Zenon
  <2> QED BY <2>1, <2>2 DEF Statuses
<1> QED BY <1>0, <1>1, <1>2, <1>3, <1>4, <1>5, <1>6, Zenon DEF Deciders

-----------------------------------------------------------------------------
(* The steps. *)

(* Every step is one of one transaction, and leaves the others and the     *)
(* kinds of all where they are.                                            *)
LEMMA OneMoves ==
    ASSUME LTypeOK, NEW t \in Txns,
           Take(t) \/ Wait(t) \/ Skip(t) \/ Commit(t) \/ DetectDeadlock(t) \/ Repeat(t)
    PROVE  /\ kindOf' = kindOf
           /\ \A u \in Txns : u # t => at'[u] = at[u] /\ seen'[u] = seen[u]
           /\ \A u \in Txns : Kind(u)' = Kind(u) /\ Locks(u)' = Locks(u) /\ ReadsAt(u)' = ReadsAt(u)
<1>1. kindOf' = kindOf
  BY Zenon DEF Take, Wait, Skip, Commit, DetectDeadlock, Repeat
<1>2. \A u \in Txns : u # t => at'[u] = at[u] /\ seen'[u] = seen[u]
  <2>1. CASE Take(t)
    BY <2>1, Zenon DEF Take, LTypeOK
  <2>2. CASE Wait(t) \/ Skip(t) \/ Commit(t)
    BY <2>2, Zenon DEF Wait, Skip, Commit, LTypeOK
  <2>3. CASE DetectDeadlock(t) \/ Repeat(t)
    BY <2>3, Zenon DEF DetectDeadlock, Repeat, LTypeOK
  <2> QED BY <2>1, <2>2, <2>3, Zenon
<1>3. \A u \in Txns : Kind(u)' = Kind(u) /\ Locks(u)' = Locks(u)
  BY <1>1, Zenon DEF Kind, Locks
<1>4. \A u \in Txns : ReadsAt(u)' = ReadsAt(u)
  BY <1>1 DEF ReadsAt, Locks, Kind
<1> QED BY <1>1, <1>2, <1>3, <1>4, Zenon

(* Where the transaction that moves is afterwards. *)
LEMMA MoverIsAt ==
    ASSUME LTypeOK, NEW t \in Txns
    PROVE  /\ Take(t) => at'[t] = at[t] + 1 \/ at'[t] = Done
           /\ Wait(t) => at'[t] = at[t]
           /\ Skip(t) \/ Commit(t) => at'[t] = Done
           /\ DetectDeadlock(t) => at'[t] = Aborted
           /\ Repeat(t) => at'[t] = 0 /\ at[t] = Aborted
BY Zenon DEF LTypeOK, Take, Wait, Skip, Commit, DetectDeadlock, Repeat

(* The steps of a transaction. *)
Moves(t) == Take(t) \/ Wait(t) \/ Skip(t) \/ Commit(t) \/ DetectDeadlock(t) \/ Repeat(t)

(* The queue holds after a step only those that still wait. *)
LEMMA QueueKept ==
    ASSUME LTypeOK, NEW t \in Txns, Moves(t)
    PROVE  (/\ queue \in Seq(Txns) /\ IsInjective(queue)
            /\ \A u \in Waiting : More(u) /\ Wanted(u).mode # "skip")'
<1>0. /\ queue \in Seq(Txns) /\ IsInjective(queue)
      /\ \A u \in Waiting : More(u) /\ Wanted(u).mode # "skip"
  BY Zenon DEF LTypeOK
<1>1. /\ kindOf' = kindOf
      /\ \A u \in Txns : u # t => at'[u] = at[u]
      /\ \A u \in Txns : Locks(u)' = Locks(u)
  BY OneMoves, Zenon DEF Moves
<1>2. Txns' = Txns
  BY <1>1, Zenon DEF Txns
<1>3. \A u \in Txns : at'[u] = at[u] => More(u)' = More(u) /\ Wanted(u)' = Wanted(u)
  BY <1>1, Zenon DEF More, Wanted, Running
<1>4. Waiting \subseteq Txns
  BY <1>0 DEF Waiting, Range
<1>5. CASE Take(t) \/ DetectDeadlock(t)
  <2>1. queue' = Without(queue, t)
    BY <1>5, Zenon DEF Take, DetectDeadlock
  <2>2. queue' \in Seq(Txns) /\ IsInjective(queue') /\ \A x \in Range(queue') : x # t /\ x \in Waiting
    BY <1>0, <2>1, Removed, Zenon DEF Waiting
  <2> QED BY <1>0, <1>1, <1>2, <1>3, <1>4, <2>2 DEF Waiting
<1>6. CASE Wait(t)
  <2>1. queue' = Append(queue, t) /\ t \notin Waiting /\ More(t) /\ Wanted(t).mode # "skip" /\ at' = at
    BY <1>6, Zenon DEF Wait
  <2>2. queue' \in Seq(Txns) /\ IsInjective(queue')
    BY <1>0, <2>1 DEF IsInjective, Waiting, Range
  <2>3. \A x \in Range(queue') : x \in Waiting \/ x = t
    BY <1>0, <2>1 DEF Waiting, Range
  <2> QED BY <1>0, <1>2, <1>3, <1>4, <2>1, <2>2, <2>3 DEF Waiting
<1>7. CASE Skip(t) \/ Commit(t) \/ Repeat(t)
  <2>1. queue' = queue /\ t \notin Waiting
    BY <1>0, <1>7, Zenon DEF Skip, Commit, Repeat, More, Running
  <2> QED BY <1>0, <1>1, <1>2, <1>3, <1>4, <2>1, Zenon DEF Waiting
<1> QED BY <1>5, <1>6, <1>7, Zenon DEF Moves

(* Types survive a step. *)
LEMMA TypesKept ==
    ASSUME LTypeOK, NEW t \in Txns, Moves(t)
    PROVE  LTypeOK'
<1>1. /\ kindOf' = kindOf
      /\ \A u \in Txns : u # t => at'[u] = at[u]
      /\ \A u \in Txns : Kind(u)' = Kind(u) /\ Locks(u)' = Locks(u)
  BY OneMoves, Zenon DEF Moves
<1>2. Txns' = Txns
  BY <1>1, Zenon DEF Txns
<1>3. kindOf' \in Mixes
  BY <1>1, Zenon DEF LTypeOK
<1>4. at'[t] \in {Done, Aborted} \cup 0 .. Len(Locks(t))
  <2>1. CASE Take(t)
    <3>1. More(t)
      BY <2>1, Zenon DEF Take
    <3>2. at[t] \in 0 .. Len(Locks(t)) /\ at[t] < Len(Locks(t)) /\ Len(Locks(t)) \in Nat
      BY <3>1, PlaceInList, KindIsKnown DEF More
    <3> QED BY <2>1, <3>2, MoverIsAt
  <2>2. CASE Wait(t)
    BY <2>2, MoverIsAt, Zenon DEF LTypeOK
  <2>3. CASE Repeat(t)
    BY <2>3, MoverIsAt, KindIsKnown
  <2> QED BY <2>1, <2>2, <2>3, MoverIsAt DEF Moves
<1>5. at' \in [Txns -> Nat]
  <2>1. at'[t] \in Nat
    BY <1>4, KindIsKnown DEF Done, Aborted
  <2>2. at \in [Txns -> Nat]
    BY Zenon DEF LTypeOK
  <2>3. at' = [at EXCEPT ![t] = at'[t]]
    <3>1. CASE Take(t)
      BY <2>2, <3>1, Zenon DEF Take
    <3>2. CASE Wait(t) \/ Skip(t) \/ Commit(t)
      BY <2>2, <3>2, Zenon DEF Wait, Skip, Commit
    <3>3. CASE DetectDeadlock(t) \/ Repeat(t)
      BY <2>2, <3>3, Zenon DEF DetectDeadlock, Repeat
    <3> QED BY <3>1, <3>2, <3>3, Zenon DEF Moves
  <2> QED BY <2>1, <2>2, <2>3, Zenon
<1>6. \A u \in Txns : at'[u] \in {Done, Aborted} \cup 0 .. Len(Locks(u)')
  BY <1>1, <1>4, Zenon DEF LTypeOK
<1>7. seen' \in [Txns -> Statuses \cup {Unread}]
  <2>1. seen \in [Txns -> Statuses \cup {Unread}] /\ Status(t) \in Statuses
    BY Zenon DEF LTypeOK, Status
  <2>2. CASE Take(t)
    BY <2>1, <2>2, Zenon DEF Take
  <2>3. CASE ~Take(t)
    BY <2>1, <2>3, Zenon DEF Moves, Wait, Skip, Commit, DetectDeadlock, Repeat
  <2> QED BY <2>2, <2>3, Zenon
<1>8. st' \in [run : Statuses, dep : Statuses]
  <2>1. CASE Commit(t)
    BY <2>1, WritersLock, Zenon DEF Commit
  <2>2. CASE ~Commit(t)
    BY <2>2, Zenon DEF Moves, Take, Wait, Skip, DetectDeadlock, Repeat, LTypeOK
  <2> QED BY <2>1, <2>2, Zenon
<1>9. repeats' \in [Txns -> 0 .. MaxRepeats]
  <2>1. repeats \in [Txns -> 0 .. MaxRepeats] /\ MaxRepeats \in Nat
    BY LockAssumption, Zenon DEF LTypeOK
  <2>2. CASE Repeat(t)
    BY <2>1, <2>2 DEF Repeat
  <2>3. CASE ~Repeat(t)
    BY <2>1, <2>3, Zenon DEF Moves, Take, Wait, Skip, Commit, DetectDeadlock
  <2> QED BY <2>2, <2>3, Zenon
<1> QED BY <1>2, <1>3, <1>5, <1>6, <1>7, <1>8, <1>9, QueueKept DEF LTypeOK

(* A lock is granted when nobody holds its row in a mode that excludes it, *)
(* and every other step keeps or releases what is held.                    *)
LEMMA ExclusionKept ==
    ASSUME LTypeOK, LocksExclude, NEW t \in Txns, Moves(t)
    PROVE  LocksExclude'
<1>1. /\ kindOf' = kindOf
      /\ \A u \in Txns : u # t => at'[u] = at[u]
      /\ \A u \in Txns : Locks(u)' = Locks(u)
  BY OneMoves, Zenon DEF Moves
<1>2. Txns' = Txns
  BY <1>1, Zenon DEF Txns
<1>3. \A u \in Txns : u # t => Held(u)' = Held(u)
  BY <1>1, Zenon DEF Held, Running
<1>4. \A a, b : Conflicts(a, b) => Conflicts(b, a)
  BY Zenon DEF Conflicts
<1>5. CASE Take(t) /\ at'[t] = at[t] + 1
  <2>1. More(t) /\ Free(t)
    BY <1>5, Zenon DEF Take
  <2>2. at[t] \in Nat /\ Running(t)
    BY <2>1, PlaceInList, KindIsKnown DEF More
  <2>3. \A h \in Held(t)' : h \in Held(t) \/ h = Wanted(t)
    BY <1>1, <1>5, <2>2 DEF Held, Wanted
  <2>4. \A u \in Txns : u # t =>
            \A g \in Held(u) : g.row = Wanted(t).row => ~Conflicts(g.mode, Wanted(t).mode)
    BY <2>1, Zenon DEF Free, WaitsFor
  <2>5. \A u \in Txns : u # t => \A h \in Held(t)', g \in Held(u) :
            h.row = g.row => ~Conflicts(h.mode, g.mode) /\ ~Conflicts(g.mode, h.mode)
    BY <1>4, <2>3, <2>4, Zenon DEF LocksExclude
  <2> QED BY <1>2, <1>3, <2>5 DEF LocksExclude
<1>6. CASE ~(Take(t) /\ at'[t] = at[t] + 1)
  <2>1. at'[t] = at[t] \/ at'[t] \in {Done, Aborted, 0}
    BY <1>6, MoverIsAt, Zenon DEF Moves
  <2>2. Held(t)' \subseteq Held(t)
    BY <1>1, <2>1 DEF Held, Running
  <2> QED BY <1>2, <1>3, <2>2 DEF LocksExclude
<1> QED BY <1>5, <1>6, Zenon

(* A status is read with its lock, and the lock is kept to the end. *)
LEMMA ReadLockKept ==
    ASSUME LTypeOK, ReadIsLocked, NEW t \in Txns, Moves(t)
    PROVE  ReadIsLocked'
<1>1. /\ kindOf' = kindOf
      /\ \A u \in Txns : u # t => at'[u] = at[u] /\ seen'[u] = seen[u]
      /\ \A u \in Txns : ReadsAt(u)' = ReadsAt(u)
  BY OneMoves, Zenon DEF Moves
<1>2. Txns' = Txns
  BY <1>1, Zenon DEF Txns
<1>3. ASSUME Running(t)', seen'[t] # Unread PROVE at'[t] >= ReadsAt(t)
  <2>1. ReadsAt(t) \in Nat
    BY ReadsInList, KindIsKnown
  <2>2. CASE Take(t)
    <3>1. at'[t] = at[t] + 1 /\ Running(t) /\ at[t] \in Nat
      <4>1. Running(t) /\ at[t] \in 0 .. Len(Locks(t)) /\ Len(Locks(t)) \in Nat
        BY <2>2, PlaceInList, KindIsKnown DEF Take, More
      <4>2. at'[t] \notin {Done, Aborted}
        BY <1>3, Zenon DEF Running
      <4>3. at'[t] = at[t] + 1
        BY <2>2, <4>2, MoverIsAt, Zenon
      <4> QED BY <4>1, <4>3
    <3>2. CASE at[t] + 1 = ReadsAt(t)
      BY <2>1, <3>1, <3>2
    <3>3. CASE at[t] + 1 # ReadsAt(t)
      <4>1. seen' = seen
        BY <2>2, <3>3, Zenon DEF Take
      <4> QED BY <1>3, <2>1, <3>1, <4>1 DEF ReadIsLocked
    <3> QED BY <3>2, <3>3, Zenon
  <2>3. CASE Wait(t)
    BY <1>3, <2>3, Zenon DEF Wait, ReadIsLocked, Running
  <2>4. CASE Repeat(t)
    BY <1>3, <2>4, Zenon DEF Repeat, LTypeOK
  <2>5. CASE Skip(t) \/ Commit(t) \/ DetectDeadlock(t)
    BY <1>3, <2>5, MoverIsAt, Zenon DEF Running
  <2> QED BY <2>2, <2>3, <2>4, <2>5 DEF Moves
<1> QED BY <1>1, <1>2, <1>3, Zenon DEF ReadIsLocked, Running

(* A commit that writes a status holds its row, which no other transaction *)
(* that read it can have let go.                                           *)
LEMMA CommitSpares ==
    ASSUME LockInv, NEW u \in Txns, Commit(u), NEW t \in Txns, t # u,
           Kind(t) \in Deciders, Running(t), seen[t] # Unread
    PROVE  IF Guards(Kind(t)) = "deployment" THEN st'.dep = st.dep ELSE st'.run = st.run
<1> DEFINE g == Locks(t)[ReadsAt(t)]
<1>1. g \in Held(t)
  <2>1. ReadsAt(t) \in 1 .. at[t]
    BY ReadsInList, PlaceInList, KindIsKnown DEF LockInv, ReadIsLocked
  <2> QED BY <2>1, TakenIsHeld, Zenon
<1>2. g.row = Guards(Kind(t)) /\ g.mode \in {"update", "skip"}
  BY DecidersLock, Zenon DEF LockInv
<1>3. Guards(Kind(t)) \in {"deployment", "run"}
  BY Zenon DEF Guards
<1>4. \A i \in 1 .. Len(Locks(u)) : Locks(u)[i] \in Held(u)
  <2>1. Running(u) /\ at[u] = Len(Locks(u))
    BY PlaceInList, KindIsKnown DEF LockInv, Commit, More
  <2> QED BY <2>1, TakenIsHeld, Zenon
<1>5. \A i \in 1 .. Len(Locks(u)) : Locks(u)[i].row # g.row
  <2> SUFFICES ASSUME NEW i \in 1 .. Len(Locks(u)), Locks(u)[i].row = g.row PROVE FALSE
    BY Zenon
  <2>1. ~Conflicts(g.mode, Locks(u)[i].mode)
    BY <1>1, <1>4, Zenon DEF LockInv, LocksExclude
  <2> QED BY <1>2, <2>1, Zenon DEF Conflicts
<1>6. st' = After(Kind(u)) /\ LTypeOK
  BY Zenon DEF Commit, LockInv
<1>7. /\ After(Kind(u)).run # st.run => \E i \in 1 .. Len(Locks(u)) : Locks(u)[i].row = "run"
      /\ After(Kind(u)).dep # st.dep => \E i \in 1 .. Len(Locks(u)) : Locks(u)[i].row = "deployment"
  BY <1>6, WritersLock, Zenon
<1> HIDE DEF g
<1> QED BY <1>2, <1>3, <1>5, <1>6, <1>7

(* What was read stands until the transaction ends. *)
LEMMA ReadKept ==
    ASSUME LockInv, NEW t \in Txns, Moves(t)
    PROVE  ReadStands'
<1>0. LTypeOK
  BY Zenon DEF LockInv
<1>1. /\ kindOf' = kindOf
      /\ \A u \in Txns : u # t => at'[u] = at[u] /\ seen'[u] = seen[u]
      /\ \A u \in Txns : Kind(u)' = Kind(u)
  BY <1>0, OneMoves, Zenon DEF Moves
<1>2. Txns' = Txns
  BY <1>1, Zenon DEF Txns
<1> SUFFICES ASSUME NEW u \in Txns, Kind(u) \in Deciders, Running(u)', seen'[u] # Unread
             PROVE  seen'[u] = Status(u)'
  BY <1>1, <1>2, Zenon DEF ReadStands
<1>3. CASE Commit(t)
  <2>1. u # t
    BY <1>0, <1>3, MoverIsAt, Zenon DEF Running
  <2>2. Running(u) /\ seen[u] # Unread /\ seen'[u] = seen[u]
    BY <1>1, <2>1, Zenon DEF Running
  <2>3. seen[u] = Status(u)
    BY <2>2, Zenon DEF LockInv, ReadStands
  <2>4. IF Guards(Kind(u)) = "deployment" THEN st'.dep = st.dep ELSE st'.run = st.run
    BY <1>3, <2>1, <2>2, CommitSpares, Zenon
  <2> QED BY <1>1, <2>2, <2>3, <2>4, Zenon DEF Status
<1>4. CASE ~Commit(t)
  <2>1. st' = st
    BY <1>4, Zenon DEF Moves, Take, Wait, Skip, DetectDeadlock, Repeat
  <2>2. Status(u)' = Status(u)
    BY <1>1, <2>1, Zenon DEF Status
  <2>3. CASE seen'[u] = seen[u]
    <3>1. Running(u)
      <4>1. CASE u # t
        BY <1>1, <4>1, Zenon DEF Running
      <4>2. CASE u = t
        <5>1. CASE Take(t)
          BY <4>2, <5>1, Zenon DEF Take, More
        <5>2. CASE Repeat(t)
          BY <1>0, <4>2, <5>2, Zenon DEF Repeat, LTypeOK
        <5>3. CASE Wait(t)
          BY <4>2, <5>3, Zenon DEF Wait, More
        <5>4. CASE Skip(t) \/ DetectDeadlock(t)
          BY <1>0, <4>2, <5>4, MoverIsAt, Zenon DEF Running
        <5> QED BY <1>4, <5>1, <5>2, <5>3, <5>4 DEF Moves
      <4> QED BY <4>1, <4>2, Zenon
    <3> QED BY <2>2, <2>3, <3>1, Zenon DEF LockInv, ReadStands
  <2>4. CASE seen'[u] # seen[u]
    <3>1. u = t
      BY <1>1, <2>4, Zenon
    <3>2. Take(t)
      BY <1>0, <1>4, <2>4, <3>1, Zenon DEF Moves, Wait, Skip, DetectDeadlock, Repeat, LTypeOK
    <3>3. seen' = [seen EXCEPT ![t] = Status(t)]
      BY <2>4, <3>2, Zenon DEF Take
    <3> QED BY <1>0, <2>2, <3>1, <3>3, Zenon DEF LTypeOK
  <2> QED BY <2>3, <2>4, Zenon
<1> QED BY <1>3, <1>4, Zenon

-----------------------------------------------------------------------------
(* The theorem. *)

(* Init establishes the invariant. *)
LEMMA InitLocked == Init => LockInv
<1> SUFFICES ASSUME Init PROVE LockInv
  BY Zenon
<1>1. kindOf \in Seq(Kinds)
  BY LockAssumption, Zenon DEF Init
<1>2. \A t \in Txns : Kind(t) \in Kinds
  BY <1>1 DEF Txns, Kind
<1>3. \A t \in Txns : Len(Locks(t)) \in 1 .. 6
  BY <1>2, ListLength, Zenon DEF Locks
<1>4. LTypeOK
  BY <1>3, LockAssumption DEF Init, LTypeOK, IsInjective, Waiting, Range, Statuses
<1>5. \A t \in Txns : Held(t) = {} /\ seen[t] = Unread
  BY DEF Init, Held
<1> QED BY <1>4, <1>5, Zenon DEF LockInv, LocksExclude, ReadIsLocked, ReadStands

(* Every step keeps it. *)
LEMMA NextLocked == LockInv /\ [Next]_vars => LockInv'
<1> SUFFICES ASSUME LockInv, [Next]_vars PROVE LockInv'
  BY Zenon
<1>1. CASE Next
  <2>1. PICK t \in Txns : Moves(t)
    BY <1>1, Zenon DEF Next, Moves
  <2> QED BY <2>1, TypesKept, ExclusionKept, ReadLockKept, ReadKept, Zenon DEF LockInv
<1>2. CASE UNCHANGED vars
  BY <1>2 DEF vars, LockInv, LTypeOK, LocksExclude, ReadIsLocked, ReadStands, Txns, Held,
              Running, Locks, Kind, ReadsAt, Status, Waiting, More, Wanted
<1> QED BY <1>1, <1>2, Zenon

(* It says that the lock order is kept. *)
LEMMA LockedImplies == LockInv => LockOrderIsKept
<1> SUFFICES ASSUME LockInv PROVE LockOrderIsKept
  BY Zenon
<1>1. ReadIsCurrent
  <2> SUFFICES ASSUME NEW t \in Txns, Running(t), seen[t] # Unread, After(Kind(t)) # st
               PROVE  seen[t] = Status(t)
    BY Zenon DEF ReadIsCurrent
  <2>1. Kind(t) \in Deciders
    BY KindIsKnown, WritesWrittenOut, Zenon DEF LockInv
  <2> QED BY <2>1, Zenon DEF LockInv, ReadStands
<1> QED BY <1>1, NoCircle, Zenon DEF LockInv, LockOrderIsKept

(* Whatever transactions meet, any number of each kind: those that take    *)
(* the run's row first never wait for each other in a circle, no two hold  *)
(* a row in modes that exclude each other, and what a transaction will     *)
(* overwrite is what it read under its lock (LockRunID, FOR UPDATE and     *)
(* SKIP LOCKED in postgres_runs.go, postgres_runners.go,                   *)
(* postgres_deployments.go and retention.go).                              *)
THEOREM LockOrderIsAlwaysKept == Spec => []LockOrderIsKept
BY InitLocked, NextLocked, LockedImplies, PTL DEF Spec
=============================================================================
