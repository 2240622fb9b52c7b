--------------------------- MODULE BuildLogsProofs ---------------------------
(***************************************************************************)
(* The output of a build, proved for every number of events, page size,    *)
(* retention batch and number of faults: what is committed has no hole and *)
(* keeps the runner's order, retention removes a prefix and says so, a     *)
(* viewer misses nothing silently, and a completed build is complete.      *)
(***************************************************************************)
EXTENDS BuildLogs, FiniteSetTheorems, TLAPS

(* The rows of the server: event e has sequence e, and exactly the         *)
(* sequences above the watermark have a row.                               *)
ServerIsDense ==
    /\ state \in [last : 0..MaxEvents, deleted : 0..MaxEvents]
    /\ state.deleted <= state.last
    /\ DOMAIN rows = (state.deleted + 1)..state.last
    /\ Committed = 1..state.last
    /\ \A e \in Committed : receipts[e] = e

(* The runner is at most one event ahead of the server, and that event is  *)
(* in its journal; nothing it stopped waiting for is ahead of the journal. *)
RunnerIsNext ==
    /\ journal \in [pending : SUBSET Events, cursor : 0..MaxEvents, intent : BOOLEAN]
    /\ journal.cursor = state.last \/ journal.cursor = state.last + 1
    /\ journal.pending \subseteq {journal.cursor}
    /\ journal.pending = {} => journal.cursor = state.last
    /\ \A e \in late : e \in 1..journal.cursor
    /\ pc = "finished" => journal.pending = {}

(* A completed build has ended, with the journal drained. *)
CompletionIsDrained ==
    /\ build \in [state : BuildStates, live : BOOLEAN, leased : BOOLEAN, complete : BOOLEAN]
    /\ build.complete => ~Running /\ journal.cursor = state.last

(* The viewer's cursor is at a sequence the server gave, what lies before  *)
(* it was shown or reported, and who was told of the end saw the last row. *)
ViewerIsTold ==
    /\ viewer.after \in 0..state.last
    /\ viewer.gap \/ 1..viewer.after \subseteq viewer.shown
    /\ viewer.done => ~Running /\ state.last <= viewer.after

OutputInv == ServerIsDense /\ RunnerIsNext /\ CompletionIsDrained /\ ViewerIsTold

-----------------------------------------------------------------------------
(* Sets of numbers. *)

(* Max of a bounded set of numbers that is not empty is its largest member. *)
LEMMA MaxIsLargest ==
    ASSUME NEW n \in Nat, NEW S \in SUBSET (0..n), S # {}
    PROVE  Max(S) \in S /\ \A y \in S : y <= Max(S)
<1> DEFINE T == {b \in Nat : \A y \in S : y <= b}
           R == OpToRel(<, Nat)
<1>1. n \in T
  OBVIOUS
<1>2. \E x \in T : \A y \in T : ~(<<y, x>> \in R)
  <2>1. T \subseteq Nat /\ T # {}
    BY <1>1, Zenon
  <2> HIDE DEF T
  <2> QED
    BY <2>1, NatLessThanWellFounded, WFMin, Zenon
<1>3. \A x, y \in Nat : y < x => <<y, x>> \in R
  BY Zenon DEF OpToRel
<1> HIDE DEF R
<1>4. PICK x \in T : \A y \in T : ~(y < x)
  BY <1>2, <1>3, Zenon
<1>7. x \in S
  <2>1. x \in Nat /\ \A y \in S : y <= x /\ y \in Nat
    OBVIOUS
  <2>2. CASE x = 0
    <3>1. PICK y \in S : TRUE
      BY Zenon
    <3>2. y = 0
      BY <2>1, <2>2, <3>1
    <3> QED
      BY <2>2, <3>2, Zenon
  <2>3. CASE x # 0 /\ x \notin S
    <3>1. x - 1 \in Nat /\ x - 1 < x
      BY <2>1, <2>3
    <3>2. \A y \in S : y <= x - 1
      BY <2>1, <2>3
    <3> QED
      BY <3>1, <3>2, <1>4, Zenon
  <2> QED
    BY <2>2, <2>3, Zenon
<1>5. \E z \in S : \A y \in S : z >= y
  BY <1>7, <1>4, Zenon
<1>6. Max(S) \in S /\ \A y \in S : Max(S) >= y
  BY <1>5, Zenon DEF Max
<1> QED
  BY <1>6, Zenon

(* Below a smaller member of a set lie no more members than below a larger *)
(* one, and below a member lie fewer than the set has: the order in which  *)
(* LIMIT cuts a list of sequences.                                         *)
LEMMA FewerBelow ==
    ASSUME NEW T \in SUBSET Nat, IsFiniteSet(T), NEW s \in T
    PROVE  /\ Cardinality(T) \in Nat
           /\ Cardinality({u \in T : u < s}) \in Nat
           /\ Cardinality({u \in T : u < s}) < Cardinality(T)
           /\ \A t \in T : t < s =>
                  /\ Cardinality({u \in T : u < t}) \in Nat
                  /\ Cardinality({u \in T : u < t}) <= Cardinality({u \in T : u < s})
<1> DEFINE B(x) == {u \in T : u < x}
<1>1. \A x : B(x) \in SUBSET T
  BY Zenon
<1>2. s \notin B(s) /\ s \in T
  OBVIOUS
<1>3. ASSUME NEW t \in T, t < s
      PROVE  B(t) \in SUBSET B(s)
  <2>1. \A u \in T : u < t => u < s
    BY <1>3
  <2> QED
    BY <2>1, Zenon
<1> HIDE DEF B
<1>4. \A x : IsFiniteSet(B(x)) /\ Cardinality(B(x)) <= Cardinality(T)
             /\ (Cardinality(T) = Cardinality(B(x)) => T = B(x))
  BY <1>1, FS_Subset, Zenon
<1>5. Cardinality(T) \in Nat /\ \A x : Cardinality(B(x)) \in Nat
  BY <1>4, FS_CardinalityType, Zenon
<1>6. Cardinality(B(s)) < Cardinality(T)
  BY <1>2, <1>4, <1>5
<1>7. \A t \in T : t < s => Cardinality(B(t)) <= Cardinality(B(s))
  BY <1>3, <1>4, FS_Subset, Zenon
<1> QED
  BY <1>5, <1>6, <1>7, Zenon DEF B


-----------------------------------------------------------------------------
(* The invariant says what the property states. *)

(* Dense rows with receipts equal to their events, a drained journal and a *)
(* viewer who was told give every part of BuildOutputIsWhole.              *)
LEMMA OutputInvImplies == OutputInv => BuildOutputIsWhole
<1> SUFFICES ASSUME OutputInv
             PROVE  BuildOutputIsWhole
  BY Zenon
<1> USE DEF OutputInv
<1>0. /\ MaxEvents \in Nat /\ state.last \in 0..MaxEvents /\ state.deleted \in 0..MaxEvents
      /\ DOMAIN rows = (state.deleted + 1)..state.last /\ Committed = 1..state.last
  BY LogAssumption, Zenon DEF ServerIsDense
<1>1. LTypeOK
  <2>1. DOMAIN rows \subseteq 1..MaxEvents /\ Committed \subseteq Events
    BY <1>0 DEF Events
  <2>2. viewer.after \in 0..MaxEvents
    BY <1>0 DEF ViewerIsTold
  <2> QED
    BY <2>1, <2>2, Zenon DEF LTypeOK, ServerIsDense, RunnerIsNext, CompletionIsDrained
<1>2. CommittedIsDense
  <2>1. {receipts[e] : e \in Committed} = 1..state.last
    BY <1>0 DEF ServerIsDense
  <2>2. Cardinality(1..state.last) = state.last
    <3>1. ASSUME NEW n \in Nat
          PROVE  Cardinality(1..n) = n
      <4>1. Cardinality(1..n) = IF 1 > n THEN 0 ELSE n - 1 + 1
        BY FS_Interval
      <4> QED
        BY <4>1
    <3> QED
      BY <3>1, <1>0
  <2>3. \A s \in 1..state.last : (s \in DOMAIN rows) = (s > state.deleted)
    BY <1>0
  <2> QED
    BY <2>1, <2>2, <2>3, <1>0, Zenon DEF CommittedIsDense
<1>3. OrderIsKept
  BY <1>0, Zenon DEF OrderIsKept, ServerIsDense
<1>4. ViewerMissesNothing /\ TerminalPageIsLast
  BY Zenon DEF ViewerMissesNothing, TerminalPageIsLast, ViewerIsTold
<1>5. CompletionHasItsOutput
  BY <1>0, Zenon DEF CompletionHasItsOutput, CompletionIsDrained
<1> QED
  BY <1>1, <1>2, <1>3, <1>4, <1>5, Zenon DEF BuildOutputIsWhole

(* Nothing is numbered, committed, shown or ended at first. *)
LEMMA OutputInvInit == Init => OutputInv
<1> SUFFICES ASSUME Init
             PROVE  OutputInv
  BY Zenon
<1> USE LogAssumption DEF Init
<1>1. ServerIsDense
  BY DEF ServerIsDense, Committed
<1>2. RunnerIsNext
  BY DEF RunnerIsNext, Events
<1>3. CompletionIsDrained
  BY Zenon DEF CompletionIsDrained, BuildStates
<1>4. ViewerIsTold
  BY DEF ViewerIsTold
<1> QED
  BY <1>1, <1>2, <1>3, <1>4, Zenon DEF OutputInv

-----------------------------------------------------------------------------
(* The append. *)

(* An event that was sent and has no receipt is the one after the last.    *)
LEMMA UncommittedIsNext ==
    ASSUME OutputInv, NEW e \in 1..journal.cursor, e \notin Committed
    PROVE  e = state.last + 1 /\ journal.cursor = e /\ ~build.complete
<1>1. state.last \in Nat /\ Committed = 1..state.last
  BY DEF OutputInv, ServerIsDense
<1>2. journal.cursor = state.last \/ journal.cursor = state.last + 1
  BY Zenon DEF OutputInv, RunnerIsNext
<1>3. e = state.last + 1 /\ journal.cursor = e
  BY <1>1, <1>2
<1> QED
  BY <1>1, <1>3, Zenon DEF OutputInv, CompletionIsDrained

(* AppendHostingBuildLogs of an event the runner has journaled: a repeat   *)
(* changes nothing, a new one is given the next sequence, and a viewer who *)
(* was told of the end is not surprised, since new output needs a running  *)
(* build.                                                                  *)
LEMMA AppendStep ==
    ASSUME OutputInv, NEW e \in 1..journal.cursor, AppendAllowed(e),
           AppendHostingBuildLogs(e), UNCHANGED <<build, viewer>>
    PROVE  /\ ServerIsDense' /\ ViewerIsTold'
           /\ journal.cursor = state.last' \/ journal.cursor = state.last' + 1
           /\ e <= state.last'
           /\ journal.cursor = state.last => state.last' = state.last
           /\ build.complete => state.last' = state.last
<1>0. /\ state \in [last : 0..MaxEvents, deleted : 0..MaxEvents] /\ MaxEvents \in Nat
      /\ state.last \in Nat /\ state.deleted \in Nat /\ state.deleted <= state.last
      /\ DOMAIN rows = (state.deleted + 1)..state.last
      /\ DOMAIN receipts = 1..state.last /\ Committed = DOMAIN receipts
      /\ \A f \in Committed : receipts[f] = f
  BY LogAssumption DEF OutputInv, ServerIsDense, Committed
<1>c. /\ journal.cursor = state.last \/ journal.cursor = state.last + 1
      /\ journal.cursor \in 0..MaxEvents
  BY Zenon DEF OutputInv, RunnerIsNext
<1>1. CASE e \in Committed
  <2>1. UNCHANGED <<rows, receipts, state>>
    BY <1>1, Zenon DEF AppendHostingBuildLogs, GetHostingBuildLogReceipt
  <2>2. ServerIsDense' /\ ViewerIsTold'
    BY <2>1, Zenon DEF OutputInv, ServerIsDense, ViewerIsTold, Committed, Running
  <2> QED
    BY <2>1, <2>2, <1>1, <1>0, <1>c
<1>2. CASE e \notin Committed
  <2>1. e = state.last + 1 /\ journal.cursor = e /\ ~build.complete
    BY <1>2, UncommittedIsNext, Zenon
  <2>2. /\ rows' = [t \in DOMAIN rows \cup {e} |-> IF t = e THEN FALSE ELSE rows[t]]
        /\ receipts' = [f \in Committed \cup {e} |-> IF f = e THEN e ELSE receipts[f]]
        /\ state' = [state EXCEPT !.last = e]
    BY <1>2, <2>1 DEF AppendHostingBuildLogs, GetHostingBuildLogReceipt, InsertHostingBuildLog,
       InsertHostingBuildLogReceipt, AdvanceHostingBuildLogSequence
  <2>3. /\ state' \in [last : 0..MaxEvents, deleted : 0..MaxEvents]
        /\ state'.last = state.last + 1 /\ state'.deleted = state.deleted
    BY <2>1, <2>2, <1>0, <1>c, Zenon
  <2>4. DOMAIN rows' = (state.deleted + 1)..(state.last + 1)
    BY <2>1, <2>2, <1>0
  <2>5. /\ DOMAIN receipts' = 1..(state.last + 1)
        /\ \A f \in DOMAIN receipts' : receipts'[f] = f
    BY <2>1, <2>2, <1>0
  <2>6. ServerIsDense'
    BY <2>3, <2>4, <2>5, <1>0 DEF ServerIsDense, Committed
  <2>7. Running
    BY <1>2, Zenon DEF AppendAllowed, GetHostingBuildLogReceipt, Fresh
  <2>8. ViewerIsTold'
    BY <2>3, <2>7, <1>0 DEF OutputInv, ViewerIsTold, Running
  <2> QED
    BY <2>1, <2>3, <2>6, <2>8, <1>0
<1> QED
  BY <1>1, <1>2, Zenon


-----------------------------------------------------------------------------
(* Retention. *)

(* ListHostingBuildLogRetentionPrefix is closed towards lower rows, so the *)
(* rows that stay after ExecuteRunLogRetention are those above the new     *)
(* watermark.                                                              *)
LEMMA RetentionStep ==
    ASSUME ServerIsDense,
           state' = AdvanceHostingBuildLogWatermark(ListHostingBuildLogRetentionPrefix),
           rows' = DeleteRunLogRetentionCandidates(ListHostingBuildLogRetentionPrefix),
           UNCHANGED receipts
    PROVE  ServerIsDense' /\ state'.last = state.last
<1> DEFINE old == {s \in DOMAIN rows : \A t \in DOMAIN rows : t <= s => rows[t]}
           S == {s \in old : Cardinality({t \in old : t < s}) < BatchSize}
           D == {state.deleted} \cup S
<1>0. /\ state \in [last : 0..MaxEvents, deleted : 0..MaxEvents] /\ MaxEvents \in Nat
      /\ state.last \in Nat /\ state.deleted \in Nat /\ state.deleted <= state.last
      /\ state.last <= MaxEvents /\ BatchSize \in Nat
      /\ DOMAIN rows = (state.deleted + 1)..state.last
      /\ Committed = 1..state.last
      /\ \A f \in Committed : receipts[f] = f
  BY LogAssumption DEF ServerIsDense
<1>1. state' = [state EXCEPT !.deleted = Max(D)] /\ DOMAIN rows' = DOMAIN rows \ S
  BY Zenon DEF AdvanceHostingBuildLogWatermark, DeleteRunLogRetentionCandidates,
         ListHostingBuildLogRetentionPrefix
<1>2. \A s \in old, t \in DOMAIN rows : t < s => t \in old
  BY <1>0
<1>3. old \in SUBSET Nat /\ \A s \in old : s <= state.last
  BY <1>0
<1>4. old \subseteq DOMAIN rows
  BY Zenon
<1> HIDE DEF old
<1>5. IsFiniteSet(old)
  BY <1>0, <1>3, FS_BoundedSetOfNaturals, Zenon
<1>6. \A s \in S, t \in DOMAIN rows : t < s => t \in S
  <2> SUFFICES ASSUME NEW s \in S, NEW t \in DOMAIN rows, t < s
               PROVE  t \in S
    BY Zenon
  <2>1. s \in old /\ t \in old
    BY <1>2, Zenon
  <2>2. /\ Cardinality({u \in old : u < s}) \in Nat
        /\ Cardinality({u \in old : u < t}) \in Nat
        /\ Cardinality({u \in old : u < t}) <= Cardinality({u \in old : u < s})
    BY <2>1, <1>3, <1>5, FewerBelow, Zenon
  <2> QED
    BY <2>1, <2>2, <1>0
<1>7. S \subseteq DOMAIN rows
  BY <1>4, Zenon
<1> HIDE DEF S
<1>8. D \in SUBSET (0..state.last) /\ D # {}
  BY <1>0, <1>7
<1>9. Max(D) \in D /\ \A y \in D : y <= Max(D)
  BY <1>8, <1>0, MaxIsLargest, Zenon
<1>10. Max(D) \in Nat /\ Max(D) <= state.last /\ state.deleted <= Max(D)
  <2>1. state.deleted \in D
    BY Zenon
  <2> HIDE DEF D
  <2>2. Max(D) \in 0..state.last
    BY <1>8, <1>9, Zenon
  <2>3. state.deleted <= Max(D)
    BY <2>1, <1>9, Zenon
  <2> QED
    BY <2>2, <2>3, <1>0
<1>11. \A s \in DOMAIN rows : s \in S <=> s <= Max(D)
  <2>1. \A s \in S : s <= Max(D)
    BY <1>9, Zenon
  <2>2. \A s \in DOMAIN rows : s <= Max(D) => s \in S
    <3>1. CASE Max(D) = state.deleted
      BY <3>1, <1>0
    <3>2. CASE Max(D) \in S
      BY <3>2, <1>6, <1>0, <1>10
    <3> QED
      BY <3>1, <3>2, <1>9, Zenon
  <2> QED
    BY <2>1, <2>2, Zenon
<1> HIDE DEF D
<1>12. DOMAIN rows' = (Max(D) + 1)..state.last
  BY <1>1, <1>0, <1>10, <1>11
<1>13. /\ state' \in [last : 0..MaxEvents, deleted : 0..MaxEvents]
       /\ state'.last = state.last /\ state'.deleted = Max(D)
  BY <1>1, <1>0, <1>10
<1> QED
  BY <1>0, <1>10, <1>12, <1>13, Zenon DEF ServerIsDense, Committed

-----------------------------------------------------------------------------
(* The viewer. *)

(* ListHostingBuildLogs: a page holds the lowest rows after the cursor, so *)
(* between the old cursor and the new one nothing is left out, and a page  *)
(* that is not truncated reaches the last row.                             *)
LEMMA PageStep ==
    ASSUME ServerIsDense, ViewerIsTold, ListHostingBuildLogs
    PROVE  ViewerIsTold'
<1> DEFINE a == viewer.after
           newer == {s \in DOMAIN rows : s > a}
           items == {s \in newer : Cardinality({t \in newer : t < s}) < PageLimit}
           next == NextSequence(a, items)
<1>0. /\ state.last \in Nat /\ state.deleted \in Nat /\ state.deleted <= state.last
      /\ PageLimit \in Nat /\ PageLimit > 0
      /\ DOMAIN rows = (state.deleted + 1)..state.last
      /\ a \in Nat /\ a <= state.last
  BY LogAssumption DEF ServerIsDense, ViewerIsTold
<1>1. /\ viewer'.after = next /\ viewer'.shown = viewer.shown \cup items
      /\ viewer'.gap = (viewer.gap \/ a < state.deleted)
      /\ viewer'.done = (~Running /\ ~(Cardinality(newer) > PageLimit))
      /\ UNCHANGED <<build, state>>
  BY Zenon DEF ListHostingBuildLogs, ListHostingBuildLogItems, PageGap, PageTerminal,
      PageTruncated, server
<1>2. newer \in SUBSET Nat /\ \A s \in newer : s <= state.last /\ s > a /\ s > state.deleted
  BY <1>0
<1>3. \A s \in (state.deleted + 1)..state.last : s > a => s \in newer
  BY <1>0, Zenon
<1> HIDE DEF newer
<1>4. IsFiniteSet(newer)
  BY <1>0, <1>2, FS_BoundedSetOfNaturals, Zenon
<1>5. \A s \in items, t \in newer : t < s => t \in items
  <2> SUFFICES ASSUME NEW s \in items, NEW t \in newer, t < s
               PROVE  t \in items
    BY Zenon
  <2>1. s \in newer
    BY Zenon
  <2>2. /\ Cardinality({u \in newer : u < s}) \in Nat
        /\ Cardinality({u \in newer : u < t}) \in Nat
        /\ Cardinality({u \in newer : u < t}) <= Cardinality({u \in newer : u < s})
    BY <2>1, <1>2, <1>4, FewerBelow, Zenon
  <2> QED
    BY <2>2, <1>0
<1>6. ~(Cardinality(newer) > PageLimit) => newer \subseteq items
  <2> SUFFICES ASSUME ~(Cardinality(newer) > PageLimit), NEW s \in newer
               PROVE  s \in items
    BY Zenon
  <2>1. /\ Cardinality({u \in newer : u < s}) \in Nat /\ Cardinality(newer) \in Nat
        /\ Cardinality({u \in newer : u < s}) < Cardinality(newer)
    BY <1>2, <1>4, FewerBelow, Zenon
  <2> QED
    BY <2>1, <1>0
<1>7. items \subseteq newer
  BY Zenon
<1> HIDE DEF items
<1>8. CASE items = {}
  <2>1. next = Max({a, state.deleted})
    BY <1>8, Zenon DEF NextSequence
  <2>2. {a, state.deleted} \in SUBSET (0..state.last) /\ {a, state.deleted} # {}
    BY <1>0
  <2>3. /\ Max({a, state.deleted}) \in {a, state.deleted}
        /\ \A y \in {a, state.deleted} : y <= Max({a, state.deleted})
    BY <2>2, <1>0, MaxIsLargest, Zenon
  <2>4. next \in 0..state.last /\ a <= next /\ state.deleted <= next
        /\ (~(a < state.deleted) => next = a)
    BY <2>1, <2>3, <1>0
  <2>5. ~(Cardinality(newer) > PageLimit) => state.last <= next
    <3> SUFFICES ASSUME ~(Cardinality(newer) > PageLimit)
                 PROVE  state.last <= next
      BY Zenon
    <3>1. newer = {}
      BY <1>6, <1>8, Zenon
    <3>2. state.last = state.deleted \/ state.last <= a
      BY <3>1, <1>3, <1>0
    <3> QED
      BY <3>2, <2>4, <1>0
  <2> HIDE DEF next
  <2>6. (viewer.gap \/ a < state.deleted) \/ 1..next \subseteq viewer.shown \cup items
    BY <2>4, Zenon DEF ViewerIsTold
  <2> QED
    BY <2>4, <2>5, <2>6, <1>1, Zenon DEF ViewerIsTold, Running
<1>9. CASE items # {}
  <2>1. next = Max(items)
    BY <1>9, Zenon DEF NextSequence
  <2>2. items \in SUBSET (0..state.last)
    BY <1>2, <1>7, <1>0
  <2>3. Max(items) \in items /\ \A y \in items : y <= Max(items)
    BY <2>2, <1>9, <1>0, MaxIsLargest, Zenon
  <2>4. next \in items /\ next \in Nat /\ next <= state.last /\ a < next
    BY <2>1, <2>2, <2>3, <1>2, <1>7, Zenon
  <2>5. ~(Cardinality(newer) > PageLimit) => state.last <= next
    <3> SUFFICES ASSUME ~(Cardinality(newer) > PageLimit)
                 PROVE  state.last <= next
      OBVIOUS
    <3>1. state.last \in newer
      BY <1>2, <1>3, <1>0, <2>4, <1>7
    <3> QED
      BY <3>1, <1>6, <2>1, <2>3, Zenon
  <2> HIDE DEF next
  <2>6. (viewer.gap \/ a < state.deleted) \/ 1..next \subseteq viewer.shown \cup items
    <3> SUFFICES ASSUME ~viewer.gap, ~(a < state.deleted), NEW s \in 1..next, s \notin viewer.shown
                 PROVE  s \in items
      BY Zenon
    <3>1. s > a
      BY <1>0 DEF ViewerIsTold
    <3>2. s \in newer
      BY <3>1, <1>3, <1>0, <2>4
    <3> QED
      BY <3>2, <2>4, <1>5, <1>0
  <2>7. next \in 0..state.last
    BY <2>4, <1>0
  <2> QED
    BY <2>5, <2>6, <2>7, <1>1, Zenon DEF ViewerIsTold, Running
<1> QED
  BY <1>8, <1>9, Zenon


-----------------------------------------------------------------------------
(* The steps. *)

(* A step that leaves the server's rows, the journal, the late batches and *)
(* the viewer alone, and under which the build does not run again, keeps   *)
(* the invariant when a finished runner has a drained journal.             *)
LEMMA QuietStep ==
    ASSUME OutputInv, UNCHANGED <<state, receipts, journal, late, viewer>>, DOMAIN rows' = DOMAIN rows,
           build' \in [state : BuildStates, live : BOOLEAN, leased : BOOLEAN, complete : BOOLEAN],
           Running' => Running, build'.complete => build.complete,
           pc' = "finished" => journal.pending = {}
    PROVE  OutputInv'
<1>1. ServerIsDense'
  BY Zenon DEF OutputInv, ServerIsDense, Committed
<1>2. RunnerIsNext'
  BY Zenon DEF OutputInv, RunnerIsNext
<1>3. CompletionIsDrained'
  BY Zenon DEF OutputInv, CompletionIsDrained
<1>4. ViewerIsTold'
  BY Zenon DEF OutputInv, ViewerIsTold
<1> QED
  BY <1>1, <1>2, <1>3, <1>4, Zenon DEF OutputInv

(* Sink numbers an event only when the journal is drained. *)
LEMMA NumberStep == ASSUME OutputInv, AppendBuildLog PROVE OutputInv'
<1> USE DEF AppendBuildLog, NoChange, Intent
<1>0. /\ state.last \in Nat /\ MaxEvents \in Nat /\ journal.cursor = state.last
      /\ journal \in [pending : SUBSET Events, cursor : 0..MaxEvents, intent : BOOLEAN]
  BY LogAssumption DEF OutputInv, ServerIsDense, RunnerIsNext
<1>1. ServerIsDense'
  BY Zenon DEF OutputInv, ServerIsDense, Committed
<1>2. RunnerIsNext'
  <2>1. journal' \in [pending : SUBSET Events, cursor : 0..MaxEvents, intent : BOOLEAN]
    <3>1. journal.cursor + 1 \in 0..MaxEvents /\ {journal.cursor + 1} \in SUBSET Events
      BY <1>0 DEF Events
    <3> QED
      BY <3>1, <1>0, Zenon
  <2>2. /\ journal'.cursor = state'.last + 1 /\ journal'.pending = {journal'.cursor}
        /\ late' = late /\ pc' = "running"
    BY <1>0, Zenon
  <2>3. \A e \in late' : e \in 1..journal'.cursor
    BY <1>0, <2>2 DEF OutputInv, RunnerIsNext
  <2> QED
    BY <2>1, <2>2, <2>3, Zenon DEF RunnerIsNext
<1>3. CompletionIsDrained'
  BY Zenon DEF OutputInv, CompletionIsDrained, Running
<1>4. ViewerIsTold'
  BY Zenon DEF OutputInv, ViewerIsTold, Running
<1> QED
  BY <1>1, <1>2, <1>3, <1>4, Zenon DEF OutputInv

(* A batch served with its answer read, its answer lost, or not waited     *)
(* for (drainBuildLogs).                                                   *)
LEMMA ReplayStep ==
    ASSUME OutputInv, NEW e \in Events, ReplayBuildLogs(e)
    PROVE  OutputInv'
<1>0. /\ UNCHANGED <<build, viewer>> /\ pc' = pc /\ pc # "finished" /\ e \in journal.pending
  BY Zenon DEF ReplayBuildLogs, NoChange
<1>1. /\ journal.pending = {e} /\ journal.cursor = e /\ e \in 1..journal.cursor
      /\ journal \in [pending : SUBSET Events, cursor : 0..MaxEvents, intent : BOOLEAN]
      /\ \A f \in late : f \in 1..journal.cursor
  BY <1>0, LogAssumption DEF OutputInv, RunnerIsNext, Events
<1>2. ASSUME AppendAllowed(e), AppendHostingBuildLogs(e), late' = late,
             AckBuildLogs(e) \/ UNCHANGED journal
      PROVE  OutputInv'
  <2>1. /\ ServerIsDense' /\ ViewerIsTold'
        /\ journal.cursor = state'.last \/ journal.cursor = state'.last + 1
        /\ e <= state'.last
        /\ build.complete => state'.last = state.last
    BY <1>0, <1>1, <1>2, AppendStep, Zenon
  <2>2. /\ journal' \in [pending : SUBSET Events, cursor : 0..MaxEvents, intent : BOOLEAN]
        /\ journal'.cursor = journal.cursor /\ journal'.pending \subseteq journal.pending
    BY <1>1, <1>2, Zenon DEF AckBuildLogs
  <2>3. state'.last \in Nat
    BY <2>1 DEF ServerIsDense
  <2>4. journal.cursor = state'.last
    BY <2>1, <2>3, <1>1
  <2>5. RunnerIsNext'
    BY <2>2, <2>4, <1>0, <1>1, <1>2, Zenon DEF RunnerIsNext
  <2>6. CompletionIsDrained'
    BY <2>2, <2>4, <1>0, Zenon DEF OutputInv, CompletionIsDrained, Running
  <2> QED
    BY <2>1, <2>5, <2>6, Zenon DEF OutputInv
<1>3. ASSUME late' = late \cup {e}, UNCHANGED <<state, rows, receipts, journal>>
      PROVE  OutputInv'
  <2>1. ServerIsDense' /\ CompletionIsDrained' /\ ViewerIsTold'
    BY <1>0, <1>3, Zenon DEF OutputInv, ServerIsDense, Committed, CompletionIsDrained,
        ViewerIsTold, Running
  <2>2. RunnerIsNext'
    BY <1>0, <1>1, <1>3, Zenon DEF OutputInv, RunnerIsNext
  <2> QED
    BY <2>1, <2>2, Zenon DEF OutputInv
<1> QED
  BY <1>2, <1>3, Zenon DEF ReplayBuildLogs

(* A batch whose sender stopped waiting is committed late or refused. *)
LEMMA LateStep ==
    ASSUME OutputInv, NEW e \in Events, ServeLate(e)
    PROVE  OutputInv'
<1>0. UNCHANGED <<build, viewer, journal, pc>> /\ e \in late /\ late' = late \ {e}
  BY Zenon DEF ServeLate, NoChange
<1>1. CASE AppendAllowed(e) /\ AppendHostingBuildLogs(e)
  <2>0. e \in 1..journal.cursor
    BY <1>0, Zenon DEF OutputInv, RunnerIsNext
  <2>1. /\ ServerIsDense' /\ ViewerIsTold'
        /\ journal.cursor = state'.last \/ journal.cursor = state'.last + 1
        /\ journal.cursor = state.last => state'.last = state.last
        /\ build.complete => state'.last = state.last
    BY <1>0, <1>1, <2>0, AppendStep, Zenon
  <2>2. RunnerIsNext'
    BY <2>1, <1>0, Zenon DEF OutputInv, RunnerIsNext
  <2>3. CompletionIsDrained'
    BY <2>1, <1>0, Zenon DEF OutputInv, CompletionIsDrained, Running
  <2> QED
    BY <2>1, <2>2, <2>3, Zenon DEF OutputInv
<1>2. CASE UNCHANGED <<state, rows, receipts>>
  <2>1. ServerIsDense' /\ CompletionIsDrained' /\ ViewerIsTold'
    BY <1>0, <1>2, Zenon DEF OutputInv, ServerIsDense, Committed, CompletionIsDrained,
        ViewerIsTold, Running
  <2>2. RunnerIsNext'
    BY <1>0, <1>2, Zenon DEF OutputInv, RunnerIsNext
  <2> QED
    BY <2>1, <2>2 DEF OutputInv
<1> QED
  BY <1>1, <1>2, Zenon DEF ServeLate

(* CompleteHostingBuild is reached by a runner that finished, and so       *)
(* drained its journal.                                                    *)
LEMMA CompleteStep == ASSUME OutputInv, Complete PROVE OutputInv'
<1> USE DEF Complete
<1>1. ServerIsDense'
  BY Zenon DEF OutputInv, ServerIsDense, Committed
<1>2. RunnerIsNext'
  BY Zenon DEF OutputInv, RunnerIsNext
<1>3. CompletionIsDrained'
  <2>1. journal.cursor = state.last
    BY Zenon DEF OutputInv, RunnerIsNext
  <2>2. /\ build' \in [state : BuildStates, live : BOOLEAN, leased : BOOLEAN, complete : BOOLEAN]
        /\ build'.state = "succeeded"
    BY Zenon DEF OutputInv, CompletionIsDrained, BuildStates
  <2> QED
    BY <2>1, <2>2, Zenon DEF CompletionIsDrained, Running
<1>4. ViewerIsTold'
  <2>1. build'.state = "succeeded"
    BY Zenon DEF OutputInv, CompletionIsDrained
  <2> QED
    BY <2>1, Zenon DEF OutputInv, ViewerIsTold, Running
<1> QED
  BY <1>1, <1>2, <1>3, <1>4, Zenon DEF OutputInv


(* Every step keeps the invariant. *)
LEMMA OutputInvNext == OutputInv /\ [Next]_vars => OutputInv'
<1> SUFFICES ASSUME OutputInv, [Next]_vars
             PROVE  OutputInv'
  BY Zenon
<1>0. /\ build \in [state : BuildStates, live : BOOLEAN, leased : BOOLEAN, complete : BOOLEAN]
      /\ pc = "finished" => journal.pending = {}
  BY Zenon DEF OutputInv, CompletionIsDrained, RunnerIsNext
<1>1. CASE AppendBuildLog
  BY <1>1, NumberStep, Zenon
<1>2. CASE SinkFails \/ Exit \/ Finish \/ Crash
  <2>1. /\ UNCHANGED <<state, receipts, journal, late, viewer, build, rows>>
        /\ pc' = "finished" => journal.pending = {}
    BY <1>2, Zenon DEF SinkFails, Exit, Finish, Crash, NoChange
  <2> QED
    BY <2>1, <1>0, QuietStep, Zenon DEF Running
<1>3. CASE Complete
  BY <1>3, CompleteStep
<1>4. CASE AckBuildCompletion
  <2> USE <1>4 DEF AckBuildCompletion, NoChange
  <2>1. ServerIsDense' /\ ViewerIsTold'
    BY Zenon DEF OutputInv, ServerIsDense, ViewerIsTold, Committed, Running
  <2>2. journal' \in [pending : SUBSET Events, cursor : 0..MaxEvents, intent : BOOLEAN]
        /\ journal'.cursor = journal.cursor /\ journal'.pending = journal.pending
    BY Zenon DEF OutputInv, RunnerIsNext
  <2>3. RunnerIsNext'
    BY <2>2, Zenon DEF OutputInv, RunnerIsNext
  <2>4. CompletionIsDrained'
    BY <2>2, Zenon DEF OutputInv, CompletionIsDrained, Running
  <2> QED
    BY <2>1, <2>3, <2>4, Zenon DEF OutputInv
<1>5. ASSUME NEW e \in Events, ReplayBuildLogs(e) \/ ServeLate(e)
      PROVE  OutputInv'
  BY <1>5, ReplayStep, LateStep, Zenon
<1>6. CASE StartBuilding \/ CancelHostingBuild \/ LoseAuthority \/ SweepLease
  <2>1. UNCHANGED <<state, receipts, journal, late, viewer, pc, rows>>
    BY <1>6, Zenon DEF StartBuilding, CancelHostingBuild, LoseAuthority, SweepLease
  <2>2. /\ build' \in [state : BuildStates, live : BOOLEAN, leased : BOOLEAN, complete : BOOLEAN]
        /\ build'.complete = build.complete
        /\ Running' => Running
    BY <1>0, <1>6, Zenon DEF StartBuilding, CancelHostingBuild, LoseAuthority, SweepLease,
        Running, BuildStates
  <2> QED
    BY <2>1, <2>2, <1>0, QuietStep, Zenon
<1>7. CASE Age
  <2>1. UNCHANGED <<state, receipts, journal, late, viewer, pc, build>> /\ DOMAIN rows' = DOMAIN rows
    BY <1>7, Zenon DEF Age
  <2> QED
    BY <2>1, <1>0, QuietStep, Zenon DEF Running
<1>8. ASSUME NEW request \in 1..2, ExecuteRunLogRetention(request)
      PROVE  OutputInv'
  <2>1. ServerIsDense' /\ state'.last = state.last
    BY <1>8, RetentionStep, Zenon DEF ExecuteRunLogRetention, OutputInv
  <2>2. UNCHANGED <<build, journal, pc, late, viewer>>
    BY <1>8, Zenon DEF ExecuteRunLogRetention
  <2>3. RunnerIsNext' /\ CompletionIsDrained' /\ ViewerIsTold'
    BY <2>1, <2>2, Zenon DEF OutputInv, RunnerIsNext, CompletionIsDrained, ViewerIsTold, Running
  <2> QED
    BY <2>1, <2>3, Zenon DEF OutputInv
<1>9. CASE UpdateRunLogRetentionPolicy
  <2>1. UNCHANGED <<state, receipts, journal, late, viewer, pc, build, rows>>
    BY <1>9, Zenon DEF UpdateRunLogRetentionPolicy, server
  <2> QED
    BY <2>1, <1>0, QuietStep, Zenon DEF Running
<1>10. CASE ListHostingBuildLogs
  <2>1. UNCHANGED <<state, receipts, journal, late, pc, build, rows>>
    BY <1>10, Zenon DEF ListHostingBuildLogs, server
  <2>2. ViewerIsTold'
    BY <1>10, PageStep, Zenon DEF OutputInv
  <2>3. ServerIsDense' /\ RunnerIsNext' /\ CompletionIsDrained'
    BY <2>1, Zenon DEF OutputInv, ServerIsDense, Committed, RunnerIsNext, CompletionIsDrained,
        Running
  <2> QED
    BY <2>2, <2>3, Zenon DEF OutputInv
<1>11. CASE UNCHANGED vars
  <2>1. UNCHANGED <<state, receipts, journal, late, viewer, pc, build, rows>>
    BY <1>11, Zenon DEF vars
  <2> QED
    BY <2>1, <1>0, QuietStep DEF Running
<1> QED
  BY <1>1, <1>2, <1>3, <1>4, <1>5, <1>6, <1>7, <1>8, <1>9, <1>10, <1>11, Zenon DEF Next

-----------------------------------------------------------------------------
(* Whatever is repeated, late, retained or paged, the committed output of  *)
(* a build has no hole, keeps the runner's order and is whole before the   *)
(* completion, and a viewer is shown everything or told of the gap         *)
(* (AppendHostingBuildLogs, ExecuteRunLogRetention, ListHostingBuildLogs). *)
THEOREM BuildOutputIsAlwaysWhole == Spec => []BuildOutputIsWhole
<1>1. Init => OutputInv
  BY OutputInvInit, Zenon
<1>2. OutputInv /\ [Next]_vars => OutputInv'
  BY OutputInvNext, Zenon
<1>3. OutputInv => BuildOutputIsWhole
  BY OutputInvImplies, Zenon
<1> QED
  BY <1>1, <1>2, <1>3, PTL DEF Spec

(* What no step may do: take back a receipt or give it another sequence,   *)
(* lower the watermark of retention, or append output to a build whose end *)
(* a viewer was told of (GetHostingBuildLogReceipt,                        *)
(* AdvanceHostingBuildLogWatermark, ListHostingBuildLogs).                 *)
ReceiptsStand ==
    /\ \A e \in Committed : e \in Committed' /\ receipts'[e] = receipts[e]
    /\ state.deleted <= state'.deleted
    /\ viewer.done => state'.last = state.last

(* Both counters of hosting_build_log_states only rise. *)
LEMMA CountersRise ==
    ASSUME OutputInv, [Next]_vars
    PROVE  state.last <= state'.last /\ state.deleted <= state'.deleted
<1>0. /\ state \in [last : 0..MaxEvents, deleted : 0..MaxEvents] /\ MaxEvents \in Nat
      /\ state.last \in Nat /\ state.deleted \in Nat
  BY LogAssumption DEF OutputInv, ServerIsDense
<1>1. ASSUME NEW e, AppendHostingBuildLogs(e)
      PROVE  state.last <= state'.last /\ state.deleted <= state'.deleted
  BY <1>0, <1>1 DEF AppendHostingBuildLogs, AdvanceHostingBuildLogSequence
<1>2. CASE UNCHANGED state
  BY <1>0, <1>2
<1>3. ASSUME NEW request \in 1..2, ExecuteRunLogRetention(request)
      PROVE  state.last <= state'.last /\ state.deleted <= state'.deleted
  <2>1. ServerIsDense' /\ state'.last = state.last
    BY <1>3, RetentionStep DEF ExecuteRunLogRetention, OutputInv
  <2>2. /\ state' = [state EXCEPT !.deleted = Max({state.deleted} \cup ListHostingBuildLogRetentionPrefix)]
        /\ ListHostingBuildLogRetentionPrefix \subseteq DOMAIN rows
    BY <1>3, Zenon DEF ExecuteRunLogRetention, AdvanceHostingBuildLogWatermark,
        ListHostingBuildLogRetentionPrefix
  <2> DEFINE D == {state.deleted} \cup ListHostingBuildLogRetentionPrefix
  <2>3. D \in SUBSET (0..MaxEvents) /\ state.deleted \in D
    BY <1>0, <2>2 DEF OutputInv, ServerIsDense
  <2>4. state'.deleted = Max(D)
    BY <1>0, <2>2, Zenon
  <2> HIDE DEF D
  <2>5. state.deleted <= Max(D)
    BY <1>0, <2>3, MaxIsLargest, Zenon
  <2> QED
    BY <1>0, <2>1, <2>4, <2>5
<1>4. CASE \E e \in Events : ReplayBuildLogs(e) \/ ServeLate(e)
  BY <1>1, <1>2, <1>4, Zenon DEF ReplayBuildLogs, ServeLate
<1>5. CASE \/ AppendBuildLog \/ SinkFails \/ Exit \/ Finish \/ Complete \/ AckBuildCompletion
           \/ Crash \/ StartBuilding \/ CancelHostingBuild \/ LoseAuthority \/ SweepLease
           \/ Age \/ UpdateRunLogRetentionPolicy \/ ListHostingBuildLogs \/ UNCHANGED vars
  BY <1>2, <1>5, Zenon DEF AppendBuildLog, SinkFails, Exit, Finish, Complete,
      AckBuildCompletion, Crash,
     StartBuilding, CancelHostingBuild, LoseAuthority, SweepLease, Age,
     UpdateRunLogRetentionPolicy, ListHostingBuildLogs, server, vars
<1> QED
  BY <1>3, <1>4, <1>5, Zenon DEF Next

(* A committed event keeps its sequence, the watermark only rises, and     *)
(* nothing follows a page that said the build had ended.                   *)
THEOREM ReceiptsAlwaysStand == Spec => [][ReceiptsStand]_vars
<1>1. ASSUME OutputInv, OutputInv', [Next]_vars
      PROVE  ReceiptsStand
  <2>0. state.last \in Nat /\ state'.last \in Nat
    BY <1>1, LogAssumption DEF OutputInv, ServerIsDense
  <2>1. state.last <= state'.last /\ state.deleted <= state'.deleted
    BY <1>1, CountersRise, Zenon
  <2>2. \A e \in Committed : e \in Committed' /\ receipts'[e] = receipts[e]
    BY <1>1, <2>0, <2>1 DEF OutputInv, ServerIsDense
  <2>3. viewer.done => viewer' = viewer
    BY <1>1, Zenon DEF Next, vars, NoChange, AppendBuildLog, SinkFails, Exit, Finish, Complete,
       AckBuildCompletion, Crash, ReplayBuildLogs, ServeLate, StartBuilding, CancelHostingBuild,
       LoseAuthority, SweepLease, Age, ExecuteRunLogRetention, UpdateRunLogRetentionPolicy,
       ListHostingBuildLogs
  <2>4. viewer.done => state'.last = state.last
    BY <1>1, <2>0, <2>1, <2>3 DEF OutputInv, ViewerIsTold
  <2> QED
    BY <2>1, <2>2, <2>4, Zenon DEF ReceiptsStand
<1>2. Init => OutputInv
  BY OutputInvInit
<1>3. OutputInv /\ [Next]_vars => OutputInv'
  BY OutputInvNext
<1> QED
  BY <1>1, <1>2, <1>3, PTL DEF Spec
=============================================================================
