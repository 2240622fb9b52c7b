------------------------ MODULE RunnerAttemptsProofs ------------------------
(***************************************************************************)
(* Type correctness of RunnerAttempts, and the proof that two attempts of  *)
(* a run never execute at once, for every number of attempts and events    *)
(* and every lease duration, margin and grace with grace < margin < TTL.   *)
(* Then the log of an attempt, for every batch and journal size: run_logs  *)
(* has no gap, an attempt completes after the events journaled before its  *)
(* completion, and no event leaves the journal of a live attempt unstored. *)
(***************************************************************************)
EXTENDS RunnerAttempts, TLAPS

-----------------------------------------------------------------------------
(* What makes NoOverlap inductive. *)

(* Attempts follow one another: only the last one can be active. *)
AttemptsInOrder ==
    \A a, b \in Attempt : b < a /\ lease[a] # "none" => lease[b] = "over"

(* A run that has ended has no active lease. *)
EndedIsReleased == open \/ \A a \in Attempt : lease[a] # "active"

(* Until the supervisor cancels, its deadline is at least the margin away
   and no later than the server's. *)
GuardIsEarly ==
    phase \in {"preflight"} \cup Executing /\ ~canceled =>
        /\ deadline >= Margin
        /\ open => /\ lease[att] = "active"
                   /\ deadline <= left[att] /\ answer <= left[att]

(* A canceled process group is gone before the lease can expire. *)
GraceIsShort ==
    proc = "stopping" => /\ canceled
                         /\ open => lease[att] = "active" /\ grace < left[att]

(* The process belongs to the attempt that is being executed. *)
ProcessIsSupervised ==
    /\ proc = "running" => phase = "executing" /\ ~canceled
    /\ proc # "none" => phase = "executing"

(* The inductive invariant behind NoOverlap. *)
OverlapInv ==
    /\ AttemptsInOrder /\ EndedIsReleased
    /\ GuardIsEarly /\ GraceIsShort /\ ProcessIsSupervised

(* What those invariants are about. *)
timeVars == <<lease, left, open, phase, att, deadline, answer, canceled, proc, grace>>

-----------------------------------------------------------------------------
(* Types. *)

(* Every journal the runner writes is a journal. *)
LEMMA JournalType ==
    ASSUME TypeOK, NEW a \in Attempt
    PROVE  /\ EmptyJournal \in Journal
           /\ \A i \in Event : WithEvent(a, i) \in Journal
           /\ \A o \in Outcome : WithCompletion(a, o) \in Journal
           /\ \A B : WithoutEvents(a, B) \in Journal
           /\ \A o : WithoutCompletion(a, o) \in Journal
           /\ WithoutAttempt(a) \in Journal
  <1> memory \in Journal
    BY Zenon DEF TypeOK
  <1>1. EmptyJournal \in Journal
    BY Zenon DEF EmptyJournal, Journal
  <1>2. \A i \in Event : WithEvent(a, i) \in Journal
    BY DEF WithEvent, Journal
  <1>3. \A o \in Outcome : WithCompletion(a, o) \in Journal
    BY DEF WithCompletion, Journal
  <1>4. \A B : WithoutEvents(a, B) \in Journal
    BY Zenon DEF WithoutEvents, Journal
  <1>5. \A o : WithoutCompletion(a, o) \in Journal
    BY Zenon DEF WithoutCompletion, Journal
  <1>6. WithoutAttempt(a) \in Journal
    BY Zenon DEF WithoutAttempt, Journal
  <1> QED
    BY <1>1, <1>2, <1>3, <1>4, <1>5, <1>6, Zenon

(* The types of the three groups of variables that actions move together. *)
ServerOK ==
    /\ lease \in [Attempt -> {"none", "active", "over", "completed"}]
    /\ left \in [Attempt -> 0..TTL]
    /\ mine \subseteq Attempt /\ open \in BOOLEAN
    /\ stored \in [Attempt -> SUBSET Event]
    /\ completion \in [Attempt -> Outcome \cup {"none"}]

NetOK ==
    /\ eventReq \subseteq Attempt \X SUBSET Event
    /\ doneReq \subseteq Attempt \X Outcome

WorkOK ==
    phase \in Phase /\ att \in Attempt /\ late \subseteq Attempt /\ replayed \subseteq Event

SuperOK ==
    /\ deadline \in 0..TTL /\ answer \in 0..TTL
    /\ canceled \in BOOLEAN /\ fatal \in BOOLEAN
    /\ proc \in {"none", "running", "stopping"} /\ grace \in 0..Grace

JournalOK ==
    /\ memory \in Journal /\ disk \in Journal
    /\ emitted \in [Attempt -> 0..MaxEvent] /\ earlier \in [Attempt -> 0..MaxEvent]

LEMMA Groups == TypeOK <=> ServerOK /\ NetOK /\ WorkOK /\ SuperOK /\ JournalOK
  BY Zenon DEF TypeOK, ServerOK, NetOK, WorkOK, SuperOK, JournalOK

(* A group that an action leaves alone keeps its type. *)
LEMMA SameType ==
    ASSUME TypeOK
    PROVE  /\ UNCHANGED serverVars => ServerOK'
           /\ UNCHANGED netVars => NetOK'
           /\ UNCHANGED workVars => WorkOK'
           /\ UNCHANGED superVars => SuperOK'
           /\ UNCHANGED journalVars => JournalOK'
  <1>1. UNCHANGED serverVars => ServerOK'
    BY Zenon DEF TypeOK, ServerOK, serverVars
  <1>2. UNCHANGED netVars => NetOK'
    BY Zenon DEF TypeOK, NetOK, netVars
  <1>3. UNCHANGED workVars => WorkOK'
    BY Zenon DEF TypeOK, WorkOK, workVars
  <1>4. UNCHANGED superVars => SuperOK'
    BY Zenon DEF TypeOK, SuperOK, superVars
  <1>5. UNCHANGED journalVars => JournalOK'
    BY Zenon DEF TypeOK, JournalOK, journalVars
  <1> QED
    BY <1>1, <1>2, <1>3, <1>4, <1>5, Zenon

LEMMA GroupsNext ==
    ASSUME ServerOK', NetOK', WorkOK', SuperOK', JournalOK'
    PROVE  TypeOK'
  BY Zenon DEF TypeOK, ServerOK, NetOK, WorkOK, SuperOK, JournalOK

LEMMA StopType ==
    ASSUME TypeOK, Stop, fatal' \in BOOLEAN
    PROVE  SuperOK'
  BY ClockAssumption DEF TypeOK, Stop, SuperOK

LEMMA ExitType ==
    ASSUME TypeOK, Exit
    PROVE  WorkOK' /\ SuperOK' /\ (disk' \in Journal => JournalOK')
  <1>1. WorkOK'
    BY Zenon DEF TypeOK, Exit, WorkOK, Phase
  <1>2. SuperOK'
    <2>1. canceled' \in BOOLEAN /\ fatal' \in BOOLEAN
      BY Zenon DEF Exit
    <2>2. deadline' \in 0..TTL /\ answer' \in 0..TTL /\ grace' \in 0..Grace
      BY ClockAssumption DEF Exit
    <2> QED
      BY <2>1, <2>2, Zenon DEF Exit, SuperOK
  <1>3. EmptyJournal \in Journal
    BY Zenon DEF EmptyJournal, Journal
  <1>4. disk' \in Journal => JournalOK'
    BY <1>3, Zenon DEF TypeOK, Exit, JournalOK
  <1> QED
    BY <1>1, <1>2, <1>4, Zenon

LEMMA GrantType ==
    ASSUME TypeOK, NEW a \in Attempt, Grant(a), mine' \subseteq Attempt
    PROVE  ServerOK'
  BY ClockAssumption DEF TypeOK, Grant, ServerOK

LEMMA ServerType ==
    ASSUME TypeOK, Server
    PROVE  TypeOK'
  <1>1. ASSUME NEW a \in Attempt, OtherRunner(a)
        PROVE  TypeOK'
    <2>1. ServerOK'
      <3>1. CASE Grant(a)
        BY <1>1, <3>1, GrantType, Zenon DEF OtherRunner, TypeOK
      <3>2. CASE ~Grant(a)
        <4>1. open' \in BOOLEAN
          BY <1>1, <3>2, Zenon DEF OtherRunner, TypeOK
        <4>2. left' \in [Attempt -> 0..TTL]
          BY <1>1, <3>2, ClockAssumption DEF OtherRunner, TypeOK
        <4>3. lease' \in [Attempt -> {"none", "active", "over", "completed"}]
          BY <1>1, <3>2, Zenon DEF OtherRunner, TypeOK
        <4> QED
          BY <1>1, <3>2, <4>1, <4>2, <4>3, Zenon DEF OtherRunner, TypeOK, ServerOK
      <3> QED
        BY <3>1, <3>2, Zenon
    <2> QED
      BY SameType, GroupsNext, <1>1, <2>1, Zenon DEF OtherRunner
  <1>2. ASSUME NEW a \in Attempt, Expire(a)
        PROVE  TypeOK'
    <2>1. ServerOK'
      BY <1>2, Zenon DEF Expire, TypeOK, ServerOK
    <2> QED
      BY SameType, GroupsNext, <1>2, <2>1, Zenon DEF Expire
  <1>3. CASE CancelRun
    <2>1. ServerOK'
      BY <1>3, Zenon DEF CancelRun, TypeOK, ServerOK
    <2> QED
      BY SameType, GroupsNext, <1>3, <2>1, Zenon DEF CancelRun
  <1>4. ASSUME NEW r \in eventReq, StoreEvents(r)
        PROVE  TypeOK'
    <2>1. r[1] \in Attempt /\ r[2] \in SUBSET Event
      BY Zenon DEF TypeOK
    <2>2. ServerOK'
      BY <1>4, <2>1, Zenon DEF StoreEvents, TypeOK, ServerOK
    <2> QED
      BY SameType, GroupsNext, <1>4, <2>2, Zenon DEF StoreEvents
  <1>5. ASSUME NEW r \in doneReq, CompleteLease(r)
        PROVE  TypeOK'
    <2>1. r[1] \in Attempt /\ r[2] \in Outcome
      BY Zenon DEF TypeOK
    <2>2. ServerOK'
      BY <1>5, <2>1, Zenon DEF CompleteLease, TypeOK, ServerOK
    <2> QED
      BY SameType, GroupsNext, <1>5, <2>2, Zenon DEF CompleteLease
  <1> QED
    BY <1>1, <1>2, <1>3, <1>4, <1>5, Zenon DEF Server

LEMMA SupervisionType ==
    ASSUME TypeOK, Supervision
    PROVE  TypeOK'
  <1>1. CASE Tick
    <2>1. \A n \in Nat : Less(n) \in Nat /\ Less(n) <= n
      BY DEF Less
    <2>2. left' \in [Attempt -> 0..TTL]
      BY <1>1, <2>1, ClockAssumption DEF Tick, TypeOK
    <2>3. ServerOK'
      BY <1>1, <2>2, Zenon DEF Tick, TypeOK, ServerOK
    <2>4. SuperOK'
      BY <1>1, <2>1, ClockAssumption DEF Tick, TypeOK, SuperOK
    <2> QED
      BY SameType, GroupsNext, <1>1, <2>3, <2>4, Zenon DEF Tick
  <1>2. CASE Watchdog \/ Shutdown
    <2>1. SuperOK'
      BY <1>2, StopType, Zenon DEF Watchdog, Shutdown, TypeOK
    <2> QED
      BY SameType, GroupsNext, <1>2, <2>1, Zenon DEF Watchdog, Shutdown
  <1>3. CASE ProcessStops
    <2>1. SuperOK'
      BY <1>3, ClockAssumption DEF ProcessStops, TypeOK, SuperOK
    <2> QED
      BY SameType, GroupsNext, <1>3, <2>1, Zenon DEF ProcessStops
  <1>4. CASE Crash
    <2>1. disk' \in Journal
      BY <1>4, Zenon DEF Crash, TypeOK
    <2> QED
      BY SameType, GroupsNext, <1>4, <2>1, ExitType, Zenon DEF Crash
  <1> QED
    BY <1>1, <1>2, <1>3, <1>4, Zenon DEF Supervision

LEMMA DiscardType ==
    ASSUME TypeOK, NEW a \in Attempt, Discard(a)
    PROVE  TypeOK'
  <1>0. WithoutAttempt(a) \in Journal
    BY JournalType, Zenon
  <1>1. CASE Exit
    <2>1. disk' \in Journal
      BY <1>0, <1>1, Zenon DEF Discard, Persist, TypeOK
    <2> QED
      BY SameType, GroupsNext, <1>1, <2>1, ExitType, Zenon DEF Discard
  <1>2. CASE ~Exit
    <2>1. JournalOK'
      BY <1>0, <1>2, Zenon DEF Discard, Persist, TypeOK, JournalOK
    <2>2. WorkOK'
      BY <1>2, Zenon DEF Discard, TypeOK, WorkOK, Phase
    <2>3. SuperOK'
      <3>1. canceled' \in BOOLEAN /\ fatal' \in BOOLEAN
        BY <1>2, Zenon DEF Discard
      <3>2. deadline' \in 0..TTL /\ answer' \in 0..TTL
        BY <1>2, ClockAssumption DEF Discard
      <3> QED
        BY <1>2, <3>1, <3>2, Zenon DEF Discard, TypeOK, SuperOK
    <2> QED
      BY SameType, GroupsNext, <1>2, <2>1, <2>2, <2>3, Zenon DEF Discard
  <1> QED
    BY <1>1, <1>2, Zenon

LEMMA ReplayType ==
    ASSUME TypeOK, Replay
    PROVE  TypeOK'
  <1>1. CASE Restart
    <2>1. WorkOK' /\ JournalOK'
      BY <1>1, Zenon DEF Restart, TypeOK, WorkOK, JournalOK, Phase
    <2> QED
      BY SameType, GroupsNext, <1>1, <2>1, Zenon DEF Restart
  <1>2. CASE Reconciled
    <2>1. WorkOK'
      BY <1>2, Zenon DEF Reconciled, TypeOK, WorkOK, Phase
    <2> QED
      BY SameType, GroupsNext, <1>2, <2>1, Zenon DEF Reconciled
  <1>3. ASSUME NEW a \in Attempt, ReplayAuthorized(a)
        PROVE  TypeOK'
    <2>1. WorkOK'
      BY <1>3, Zenon DEF ReplayAuthorized, TypeOK, WorkOK, Phase, Replaying
    <2>2. SuperOK'
      BY <1>3, Zenon DEF ReplayAuthorized, TypeOK, SuperOK
    <2> QED
      BY SameType, GroupsNext, <1>3, <2>1, <2>2, Zenon DEF ReplayAuthorized
  <1>4. ASSUME NEW a \in Attempt, ReplayFenced(a)
        PROVE  TypeOK'
    BY <1>4, DiscardType, Zenon DEF ReplayFenced
  <1>5. ASSUME NEW r \in eventReq, ReplayEventsAcked(r)
        PROVE  TypeOK'
    <2>1. WorkOK'
      BY <1>5, Zenon DEF ReplayEventsAcked, TypeOK, WorkOK
    <2> QED
      BY SameType, GroupsNext, <1>5, <2>1, Zenon DEF ReplayEventsAcked
  <1>6. CASE ReplayEventsDone
    <2>1. WorkOK'
      BY <1>6, Zenon DEF ReplayEventsDone, TypeOK, WorkOK, Phase, Replaying
    <2> QED
      BY SameType, GroupsNext, <1>6, <2>1, Zenon DEF ReplayEventsDone
  <1>7. ASSUME NEW r \in doneReq, ReplayCompletionAcked(r)
        PROVE  TypeOK'
    <2>1. WorkOK'
      BY <1>7, Zenon DEF ReplayCompletionAcked, TypeOK, WorkOK, Phase, Replaying
    <2> QED
      BY SameType, GroupsNext, <1>7, <2>1, Zenon DEF ReplayCompletionAcked
  <1>8. CASE ReplayDiscard
    BY <1>8, DiscardType, Zenon DEF ReplayDiscard, TypeOK
  <1>9. CASE ReplayFails
    <2>1. disk' \in Journal
      BY <1>9, Zenon DEF ReplayFails, TypeOK
    <2> QED
      BY SameType, GroupsNext, <1>9, <2>1, ExitType, Zenon DEF ReplayFails
  <1> QED
    BY <1>1, <1>2, <1>3, <1>4, <1>5, <1>6, <1>7, <1>8, <1>9, Zenon DEF Replay

(* What appending an event, whether or not it succeeds, does to types. *)
LEMMA AppendType ==
    ASSUME TypeOK, NEW a \in Attempt, AppendEvent(a) \/ AppendEventFails(a)
    PROVE  JournalOK'
  <1>1. emitted[a] < MaxEvent => emitted[a] + 1 \in Event /\ emitted[a] + 1 \in 0..MaxEvent
    BY SizeAssumption DEF TypeOK, Event
  <1>2. emitted[a] < MaxEvent => WithEvent(a, emitted[a] + 1) \in Journal
    BY <1>1, JournalType, Zenon
  <1>3. CASE AppendEvent(a)
    <2>1. emitted' \in [Attempt -> 0..MaxEvent]
      BY <1>1, <1>3, Zenon DEF AppendEvent, TypeOK
    <2> QED
      BY <1>2, <1>3, <2>1, Zenon DEF AppendEvent, Persist, TypeOK, JournalOK
  <1>4. CASE AppendEventFails(a)
    <2>1. memory' \in Journal /\ disk' \in Journal
      BY <1>2, <1>4, Zenon DEF AppendEventFails, PersistFails, TypeOK
    <2> QED
      BY <1>4, <2>1, Zenon DEF AppendEventFails, TypeOK, JournalOK
  <1> QED
    BY <1>3, <1>4, Zenon

LEMMA PersistType ==
    ASSUME TypeOK, NEW j \in Journal, Persist(j) \/ PersistFails(j)
    PROVE  memory' \in Journal /\ disk' \in Journal
  BY Zenon DEF Persist, PersistFails, TypeOK

LEMMA WorkType ==
    ASSUME TypeOK, Work
    PROVE  TypeOK'
  <1>1. ASSUME NEW a \in Attempt, ClaimRun(a)
        PROVE  TypeOK'
    <2>1. ServerOK'
      BY <1>1, GrantType, Zenon DEF ClaimRun, TypeOK
    <2>2. CASE Exit
      <3>1. disk' \in Journal
        BY <1>1, <2>2, Zenon DEF ClaimRun, TypeOK, journalVars
      <3> QED
        BY <1>1, <2>1, <2>2, <3>1, SameType, GroupsNext, ExitType, Zenon DEF ClaimRun
    <2>3. CASE ~Exit
      <3>1. WorkOK'
        BY <1>1, <2>3, Zenon DEF ClaimRun, TypeOK, WorkOK, Phase
      <3>2. SuperOK'
        <4>1. canceled' \in BOOLEAN /\ fatal' \in BOOLEAN
          BY <1>1, <2>3, Zenon DEF ClaimRun
        <4>2. deadline' \in 0..TTL /\ answer' \in 0..TTL
          BY <1>1, <2>3, ClockAssumption DEF ClaimRun
        <4> QED
          BY <1>1, <2>3, <4>1, <4>2, Zenon DEF ClaimRun, TypeOK, SuperOK
      <3> QED
        BY <1>1, <2>1, <2>3, <3>1, <3>2, SameType, GroupsNext, Zenon DEF ClaimRun
    <2> QED
      BY <2>2, <2>3, Zenon
  <1>2. ASSUME NEW a \in Attempt, LateEmit(a)
        PROVE  TypeOK'
    <2>1. JournalOK'
      BY <1>2, AppendType, Zenon DEF LateEmit
    <2>2. WorkOK'
      BY <1>2, Zenon DEF LateEmit, TypeOK, WorkOK
    <2>3. SuperOK'
      BY <1>2, SameType, StopType, Zenon DEF LateEmit
    <2> QED
      BY <1>2, <2>1, <2>2, <2>3, SameType, GroupsNext, Zenon DEF LateEmit
  <1>3. ASSUME NEW a \in Attempt, LateReturns(a)
        PROVE  TypeOK'
    <2>1. WorkOK'
      BY <1>3, Zenon DEF LateReturns, TypeOK, WorkOK
    <2> QED
      BY <1>3, <2>1, SameType, GroupsNext, Zenon DEF LateReturns
  <1>4. CASE RenewLease
    <2>1. ServerOK'
      BY <1>4, ClockAssumption DEF RenewLease, TypeOK, ServerOK
    <2>2. SuperOK'
      BY <1>4, ClockAssumption DEF RenewLease, TypeOK, SuperOK
    <2> QED
      BY <1>4, <2>1, <2>2, SameType, GroupsNext, Zenon DEF RenewLease
  <1>5. CASE RenewAnswer
    <2>1. WorkOK'
      BY <1>5, Zenon DEF RenewAnswer, TypeOK, WorkOK, Phase, Executing, Replaying
    <2>2. SuperOK'
      BY <1>5, ClockAssumption DEF RenewAnswer, Later, TypeOK, SuperOK
    <2> QED
      BY <1>5, <2>1, <2>2, SameType, GroupsNext, Zenon DEF RenewAnswer
  <1>6. CASE AuthorityRefused
    <2>1. SuperOK'
      BY <1>6, StopType, Zenon DEF AuthorityRefused, TypeOK
    <2> QED
      BY <1>6, <2>1, SameType, GroupsNext, Zenon DEF AuthorityRefused
  <1>7. CASE Emit
    <2>1. JournalOK'
      BY <1>7, AppendType, Zenon DEF Emit, TypeOK
    <2>2. SuperOK'
      BY <1>7, SameType, StopType, Zenon DEF Emit
    <2> QED
      BY <1>7, <2>1, <2>2, SameType, GroupsNext, Zenon DEF Emit
  <1>8. CASE PostEvents
    <2>1. NetOK'
      <3>1. PICK B \in Batch(Pending(att) \ replayed) : eventReq' = eventReq \cup {<<att, B>>}
        BY <1>8, Zenon DEF PostEvents
      <3>2. B \subseteq Event
        BY <3>1, Zenon DEF Batch, Pending
      <3>3. eventReq' \subseteq Attempt \X SUBSET Event
        BY <3>1, <3>2 DEF TypeOK
      <3> QED
        BY <1>8, <3>3, Zenon DEF PostEvents, TypeOK, NetOK
    <2> QED
      BY <1>8, <2>1, SameType, GroupsNext, Zenon DEF PostEvents
  <1>9. ASSUME NEW r \in eventReq, AckEvents(r)
        PROVE  TypeOK'
    <2>1. WithoutEvents(att, r[2]) \in Journal
      BY JournalType, Zenon DEF TypeOK
    <2>2. JournalOK'
      BY <1>9, <2>1, PersistType, Zenon DEF AckEvents, TypeOK, JournalOK
    <2>3. SuperOK'
      BY <1>9, SameType, StopType, Zenon DEF AckEvents
    <2> QED
      BY <1>9, <2>2, <2>3, SameType, GroupsNext, Zenon DEF AckEvents
  <1>10. ASSUME NEW r \in eventReq, EventsRefused(r)
         PROVE  TypeOK'
    <2>1. SuperOK'
      BY <1>10, StopType, Zenon DEF EventsRefused
    <2> QED
      BY <1>10, <2>1, SameType, GroupsNext, Zenon DEF EventsRefused
  <1>11. CASE ProcessReturns
    <2>1. WorkOK'
      BY <1>11, Zenon DEF ProcessReturns, TypeOK, WorkOK, Phase, Executing
    <2>2. SuperOK'
      BY <1>11, Zenon DEF ProcessReturns, TypeOK, SuperOK
    <2> QED
      BY <1>11, <2>1, <2>2, SameType, GroupsNext, Zenon DEF ProcessReturns
  <1>12. ASSUME NEW o \in Outcome, AppendCompletion(o)
         PROVE  TypeOK'
    <2>1. WithCompletion(att, o) \in Journal
      BY JournalType, Zenon DEF TypeOK
    <2>2. memory' \in Journal /\ disk' \in Journal
      BY <1>12, <2>1, PersistType, Zenon DEF AppendCompletion, TypeOK
    <2>3. JournalOK'
      BY <1>12, <2>2, Zenon DEF AppendCompletion, TypeOK, JournalOK
    <2>4. SuperOK'
      BY <1>12, SameType, StopType, Zenon DEF AppendCompletion, TypeOK
    <2>5. WorkOK'
      BY <1>12, Zenon DEF AppendCompletion, TypeOK, WorkOK, Phase, Executing
    <2> QED
      BY <1>12, <2>3, <2>4, <2>5, SameType, GroupsNext, Zenon DEF AppendCompletion
  <1>13. CASE Drained
    <2>1. WorkOK'
      BY <1>13, Zenon DEF Drained, TypeOK, WorkOK, Phase, Executing
    <2>2. SuperOK'
      BY <1>13, ClockAssumption DEF Drained, TypeOK, SuperOK
    <2> QED
      BY <1>13, <2>1, <2>2, SameType, GroupsNext, Zenon DEF Drained
  <1>14. CASE SendCompletion
    <2>1. NetOK'
      BY <1>14, Zenon DEF SendCompletion, TypeOK, NetOK, Journal
    <2> QED
      BY <1>14, <2>1, SameType, GroupsNext, Zenon DEF SendCompletion
  <1>15. ASSUME NEW r \in doneReq, AckCompletion(r)
         PROVE  TypeOK'
    <2>1. WithoutCompletion(att, r[2]) \in Journal
      BY JournalType, Zenon DEF TypeOK
    <2>2. CASE Exit
      <3>1. disk' \in Journal
        BY <1>15, <2>1, <2>2, PersistType, Zenon DEF AckCompletion
      <3> QED
        BY <1>15, <2>2, <3>1, SameType, GroupsNext, ExitType, Zenon DEF AckCompletion
    <2>3. CASE ~Exit
      <3>1. memory' \in Journal /\ disk' \in Journal
        BY <1>15, <2>1, <2>3, PersistType, Zenon DEF AckCompletion
      <3>2. JournalOK'
        BY <1>15, <2>3, <3>1, Zenon DEF AckCompletion, TypeOK, JournalOK
      <3>3. WorkOK'
        BY <1>15, <2>3, Zenon DEF AckCompletion, TypeOK, WorkOK, Phase, workVars
      <3>4. SuperOK'
        <4>1. CASE Stop /\ UNCHANGED fatal
          BY <4>1, StopType, Zenon DEF TypeOK
        <4>2. CASE ~(Stop /\ UNCHANGED fatal)
          <5>1. canceled' \in BOOLEAN /\ fatal' \in BOOLEAN
            BY <1>15, <2>3, <4>2, Zenon DEF AckCompletion
          <5>2. deadline' \in 0..TTL /\ answer' \in 0..TTL
            BY <1>15, <2>3, <4>2, ClockAssumption DEF AckCompletion
          <5> QED
            BY <1>15, <2>3, <4>2, <5>1, <5>2, Zenon DEF AckCompletion, TypeOK, SuperOK
        <4> QED
          BY <4>1, <4>2, Zenon
      <3> QED
        BY <1>15, <3>2, <3>3, <3>4, SameType, GroupsNext, Zenon DEF AckCompletion
    <2> QED
      BY <2>2, <2>3, Zenon
  <1>16. ASSUME NEW r \in doneReq, CompletionRefused(r)
         PROVE  TypeOK'
    <2>1. SuperOK'
      BY <1>16, StopType, Zenon DEF CompletionRefused, TypeOK
    <2> QED
      BY <1>16, <2>1, SameType, GroupsNext, Zenon DEF CompletionRefused
  <1>17. CASE GiveUp
    <2>1. disk' \in Journal
      BY <1>17, Zenon DEF GiveUp, TypeOK
    <2> QED
      BY <1>17, <2>1, SameType, GroupsNext, ExitType, Zenon DEF GiveUp
  <1> QED
    BY <1>1, <1>2, <1>3, <1>4, <1>5, <1>6, <1>7, <1>8, <1>9, <1>10, <1>11,
       <1>12, <1>13, <1>14, <1>15, <1>16, <1>17, Zenon DEF Work

LEMMA TypeStep == TypeOK /\ [Next]_vars => TypeOK'
  <1> SUFFICES ASSUME TypeOK, [Next]_vars
               PROVE  TypeOK'
    BY Zenon
  <1>1. CASE UNCHANGED vars
    BY <1>1, SameType, GroupsNext, Zenon DEF vars
  <1> QED
    BY <1>1, ServerType, WorkType, SupervisionType, ReplayType, Zenon DEF Next

LEMMA TypeInit == Init => TypeOK
  <1> SUFFICES ASSUME Init
               PROVE  TypeOK
    BY Zenon
  <1>1. EmptyJournal \in Journal
    BY Zenon DEF EmptyJournal, Journal
  <1>2. 1 \in Attempt /\ 0 \in 0..TTL /\ 0 \in 0..Grace /\ 0 \in 0..MaxEvent
    BY SizeAssumption, ClockAssumption DEF Attempt
  <1>3. open \in BOOLEAN /\ canceled \in BOOLEAN /\ fatal \in BOOLEAN
    BY Zenon DEF Init
  <1> QED
    BY <1>1, <1>2, <1>3, Zenon DEF Init, TypeOK, Phase

(* The runner's and the server's state keep their types: no deadline ever  *)
(* exceeds the lease duration, no journal holds a foreign record, whatever *)
(* the network, crashes and failed writes do.                              *)
THEOREM TypeCorrect == Spec => []TypeOK
  BY TypeInit, TypeStep, PTL DEF Spec

-----------------------------------------------------------------------------
(* Overlap. *)

(* What the proof reads of the types. *)
LEMMA TimeTypes ==
    ASSUME TypeOK
    PROVE  /\ att \in Attempt /\ phase \in Phase
           /\ \A a \in Attempt : left[a] \in Nat /\ left[a] <= TTL
           /\ lease = [a \in Attempt |-> lease[a]]
           /\ left = [a \in Attempt |-> left[a]]
           /\ deadline \in Nat /\ answer \in Nat /\ grace \in Nat
           /\ deadline <= TTL /\ answer <= TTL
           /\ \A a, b \in Attempt : a \in Nat /\ b \in Nat
  <1> USE DEF TypeOK
  <1>1. att \in Attempt /\ phase \in Phase
    BY Zenon
  <1>2. \A a \in Attempt : left[a] \in Nat /\ left[a] <= TTL
    BY ClockAssumption
  <1>3. lease = [a \in Attempt |-> lease[a]] /\ left = [a \in Attempt |-> left[a]]
    BY Zenon
  <1>4. /\ deadline \in Nat /\ answer \in Nat /\ grace \in Nat
        /\ deadline <= TTL /\ answer <= TTL
    BY ClockAssumption
  <1>5. \A a, b \in Attempt : a \in Nat /\ b \in Nat
    BY DEF Attempt
  <1> HIDE DEF TypeOK
  <1> QED
    BY <1>1, <1>2, <1>3, <1>4, <1>5, Zenon

LEMMA SameOverlap ==
    ASSUME OverlapInv, UNCHANGED timeVars
    PROVE  OverlapInv'
  BY Zenon DEF OverlapInv, timeVars, AttemptsInOrder, EndedIsReleased, GuardIsEarly,
         GraceIsShort, ProcessIsSupervised

(* The conjuncts about the leases alone. *)
LEMMA SameLeases ==
    ASSUME OverlapInv, UNCHANGED <<lease, open>>
    PROVE  AttemptsInOrder' /\ EndedIsReleased'
  BY Zenon DEF OverlapInv, AttemptsInOrder, EndedIsReleased

(* Canceling leaves the process group less time than the lease has. *)
LEMMA StopOverlap ==
    ASSUME TypeOK, OverlapInv, Stop, UNCHANGED <<lease, left, open, att>>,
           \/ phase' = phase
           \/ proc = "none"
    PROVE  OverlapInv'
  <1>1. AttemptsInOrder' /\ EndedIsReleased'
    BY SameLeases, Zenon
  <1>2. GuardIsEarly'
    BY Zenon DEF Stop, GuardIsEarly
  <1>3. GraceIsShort'
    BY TimeTypes, ClockAssumption
    DEF Stop, OverlapInv, GuardIsEarly, GraceIsShort, ProcessIsSupervised, Executing
  <1>4. ProcessIsSupervised'
    BY Zenon DEF Stop, OverlapInv, ProcessIsSupervised, TypeOK
  <1> QED
    BY <1>1, <1>2, <1>3, <1>4, Zenon DEF OverlapInv

LEMMA StopInPlace ==
    ASSUME TypeOK, OverlapInv, Stop, UNCHANGED <<lease, left, open, phase, att>>
    PROVE  OverlapInv'
  <1>1. \/ phase' = phase
        \/ proc = "none"
    BY Zenon
  <1>2. UNCHANGED <<lease, left, open, att>>
    BY Zenon
  <1> QED
    BY <1>1, <1>2, StopOverlap, Zenon

(* Without a process and without an attempt there is nothing to guard. *)
LEMMA RestOverlap ==
    ASSUME OverlapInv, UNCHANGED <<lease, open>>, proc' = "none",
           phase' \notin {"preflight"} \cup Executing
    PROVE  OverlapInv'
  BY SameLeases, Zenon DEF OverlapInv, GuardIsEarly, GraceIsShort, ProcessIsSupervised

LEMMA ExitOverlap ==
    ASSUME OverlapInv, Exit, UNCHANGED <<lease, open>>
    PROVE  OverlapInv'
  BY RestOverlap, Zenon DEF Exit, Executing

(* A new lease is granted only when every earlier one is over, so the      *)
(* runner is not executing an attempt.                                     *)
LEMMA GrantFacts ==
    ASSUME TypeOK, OverlapInv, NEW a \in Attempt, Grant(a)
    PROVE  /\ AttemptsInOrder' /\ EndedIsReleased'
           /\ open /\ open' = open
           /\ \A b \in Attempt : lease[b] # "active"
           /\ proc # "none" => FALSE
           /\ phase \in {"preflight"} \cup Executing => canceled
  <1>1. open /\ open' = open /\ lease[a] = "none" /\ lease'[a] = "active"
        /\ \A b \in Attempt \ {a} : lease'[b] = lease[b]
    BY TimeTypes, Zenon DEF Grant, Claimable
  <1>2. \A b \in Attempt : b < a => lease[b] = "over"
    BY Zenon DEF Grant, Claimable
  <1>3. \A b \in Attempt : a < b => lease[b] = "none"
    BY <1>1, Zenon DEF OverlapInv, AttemptsInOrder
  <1>4. \A b \in Attempt : lease[b] # "active"
    BY <1>1, <1>2, <1>3, TimeTypes
  <1>5. AttemptsInOrder'
    BY <1>1, <1>2, <1>3, TimeTypes, Zenon DEF OverlapInv, AttemptsInOrder
  <1>6. EndedIsReleased'
    BY <1>1, Zenon DEF EndedIsReleased
  <1>7. phase \in {"preflight"} \cup Executing => canceled
    BY <1>1, <1>4, TimeTypes, Zenon DEF OverlapInv, GuardIsEarly
  <1>8. proc # "none" => FALSE
    BY <1>1, <1>4, <1>7, TimeTypes, Zenon
    DEF OverlapInv, GraceIsShort, ProcessIsSupervised, TypeOK, Executing
  <1> QED
    BY <1>1, <1>4, <1>5, <1>6, <1>7, <1>8, Zenon

(* At most one lease is active. *)
LEMMA OneActive ==
    ASSUME TypeOK, OverlapInv, NEW a \in Attempt, NEW b \in Attempt,
           lease[a] = "active", lease[b] = "active"
    PROVE  a = b
  BY TimeTypes DEF OverlapInv, AttemptsInOrder

(* When the active lease completes the run is over. *)
LEMMA CompleteOverlap ==
    ASSUME TypeOK, OverlapInv, NEW a \in Attempt, Authorized(a),
           lease' = [lease EXCEPT ![a] = "completed"], open' = FALSE,
           UNCHANGED <<left, phase, att, superVars>>
    PROVE  OverlapInv'
  <1>1. lease[a] = "active" /\ lease'[a] = "completed"
        /\ \A b \in Attempt \ {a} : lease'[b] = lease[b]
    BY TimeTypes, Zenon DEF Authorized
  <1>2. AttemptsInOrder'
    BY <1>1, TimeTypes, Zenon DEF OverlapInv, AttemptsInOrder
  <1>3. EndedIsReleased'
    BY <1>1, OneActive, Zenon DEF EndedIsReleased
  <1>4. GuardIsEarly' /\ GraceIsShort' /\ ProcessIsSupervised'
    BY Zenon DEF OverlapInv, GuardIsEarly, GraceIsShort, ProcessIsSupervised, superVars
  <1> QED
    BY <1>2, <1>3, <1>4, Zenon DEF OverlapInv

(* A renewal only moves a lease's expiry away. *)
LEMMA RenewOverlap ==
    ASSUME TypeOK, OverlapInv, NEW a \in Attempt,
           left' = [left EXCEPT ![a] = TTL], answer' \in {answer, TTL},
           answer' = answer \/ a = att,
           UNCHANGED <<lease, open, phase, att, deadline, canceled, proc, grace>>
    PROVE  OverlapInv'
  <1>1. AttemptsInOrder' /\ EndedIsReleased'
    BY SameLeases, Zenon
  <1>2. \A b \in Attempt : left'[b] \in Nat /\ left[b] \in Nat /\ left'[b] >= left[b]
    BY TimeTypes, ClockAssumption
  <1>3. a = att => left'[att] = TTL
    BY TimeTypes, Zenon
  <1>4. GuardIsEarly'
    BY <1>2, <1>3, TimeTypes, ClockAssumption DEF OverlapInv, GuardIsEarly
  <1>5. GraceIsShort' /\ ProcessIsSupervised'
    BY <1>2, TimeTypes DEF OverlapInv, GraceIsShort, ProcessIsSupervised
  <1> QED
    BY <1>1, <1>4, <1>5, Zenon DEF OverlapInv

LEMMA ServerOverlap ==
    ASSUME TypeOK, OverlapInv, Server
    PROVE  OverlapInv'
  <1>1. ASSUME NEW a \in Attempt, OtherRunner(a)
        PROVE  OverlapInv'
    <2>0. UNCHANGED <<phase, att, superVars>>
      BY <1>1, Zenon DEF OtherRunner, workVars
    <2>1. CASE Grant(a)
      BY <2>0, <2>1, GrantFacts, Zenon
      DEF OverlapInv, GuardIsEarly, GraceIsShort, ProcessIsSupervised, superVars
    <2>2. CASE /\ left' = [left EXCEPT ![a] = TTL]
               /\ UNCHANGED <<lease, open>>
      BY <2>0, <2>2, RenewOverlap, Zenon DEF superVars
    <2>3. CASE /\ Authorized(a) /\ lease' = [lease EXCEPT ![a] = "completed"]
               /\ open' = FALSE /\ UNCHANGED left
      BY <2>0, <2>3, CompleteOverlap, Zenon
    <2> QED
      BY <1>1, <2>1, <2>2, <2>3, Zenon DEF OtherRunner
  <1>2. ASSUME NEW a \in Attempt, Expire(a)
        PROVE  OverlapInv'
    <2>1. /\ lease[a] = "active" /\ lease'[a] = "over" /\ left[a] = 0
          /\ \A b \in Attempt \ {a} : lease'[b] = lease[b]
          /\ UNCHANGED <<left, open, phase, att, deadline, answer, canceled, proc, grace>>
      BY <1>2, TimeTypes, Zenon DEF Expire, workVars, superVars
    <2>2. AttemptsInOrder' /\ EndedIsReleased'
      BY <2>1, TimeTypes, Zenon DEF OverlapInv, AttemptsInOrder, EndedIsReleased
    <2>3. GuardIsEarly'
      BY <2>1, TimeTypes, ClockAssumption DEF OverlapInv, GuardIsEarly
    <2>4. GraceIsShort' /\ ProcessIsSupervised'
      BY <2>1, TimeTypes DEF OverlapInv, GraceIsShort, ProcessIsSupervised
    <2> QED
      BY <2>2, <2>3, <2>4, Zenon DEF OverlapInv
  <1>3. CASE CancelRun
    <2>1. /\ open' = FALSE
          /\ \A a \in Attempt : lease'[a] = IF lease[a] = "active" THEN "over" ELSE lease[a]
          /\ UNCHANGED <<left, phase, att, deadline, answer, canceled, proc, grace>>
      BY <1>3, Zenon DEF CancelRun, workVars, superVars
    <2>2. AttemptsInOrder' /\ EndedIsReleased'
      BY <2>1, Zenon DEF OverlapInv, AttemptsInOrder, EndedIsReleased
    <2>3. GuardIsEarly' /\ GraceIsShort' /\ ProcessIsSupervised'
      BY <2>1, Zenon DEF OverlapInv, GuardIsEarly, GraceIsShort, ProcessIsSupervised
    <2> QED
      BY <2>2, <2>3, Zenon DEF OverlapInv
  <1>4. ASSUME NEW r \in eventReq, StoreEvents(r)
        PROVE  OverlapInv'
    BY <1>4, SameOverlap, Zenon DEF StoreEvents, timeVars, workVars, superVars
  <1>5. ASSUME NEW r \in doneReq, CompleteLease(r)
        PROVE  OverlapInv'
    <2>1. r[1] \in Attempt
      BY Zenon DEF TypeOK
    <2> QED
      BY <1>5, <2>1, CompleteOverlap, Zenon DEF CompleteLease, workVars, superVars
  <1> QED
    BY <1>1, <1>2, <1>3, <1>4, <1>5, Zenon DEF Server

LEMMA SupervisionOverlap ==
    ASSUME TypeOK, OverlapInv, Supervision
    PROVE  OverlapInv'
  <1>1. CASE Tick
    <2>1. /\ \A a \in Attempt : left'[a] = IF left[a] = 0 THEN 0 ELSE left[a] - 1
          /\ deadline' = IF deadline = 0 THEN 0 ELSE deadline - 1
          /\ answer' = IF answer = 0 THEN 0 ELSE answer - 1
          /\ grace' = IF grace = 0 THEN 0 ELSE grace - 1
          /\ UNCHANGED <<lease, open, phase, att, canceled, proc>>
      BY <1>1, Zenon DEF Tick, Less, workVars
    <2>2. /\ phase \in {"preflight"} \cup Executing /\ ~canceled => deadline > Margin
          /\ proc = "stopping" => grace > 0
      BY <1>1, TimeTypes, ClockAssumption DEF Tick, GuardDue, KillDue, Supervised
    <2>3. AttemptsInOrder' /\ EndedIsReleased'
      BY <2>1, SameLeases, Zenon
    <2>4. GuardIsEarly'
      BY <2>1, <2>2, TimeTypes, ClockAssumption DEF OverlapInv, GuardIsEarly
    <2>5. GraceIsShort' /\ ProcessIsSupervised'
      BY <2>1, <2>2, TimeTypes DEF OverlapInv, GraceIsShort, ProcessIsSupervised
    <2> QED
      BY <2>3, <2>4, <2>5, Zenon DEF OverlapInv
  <1>2. CASE Watchdog \/ Shutdown
    BY <1>2, StopInPlace, Zenon DEF Watchdog, Shutdown, serverVars, workVars
  <1>3. CASE ProcessStops
    <2>1. /\ proc' = "none"
          /\ UNCHANGED <<lease, left, open, phase, att, deadline, answer, canceled>>
      BY <1>3, Zenon DEF ProcessStops, serverVars, workVars
    <2>2. AttemptsInOrder' /\ EndedIsReleased'
      BY <2>1, SameLeases, Zenon
    <2> QED
      BY <2>1, <2>2, Zenon DEF OverlapInv, GuardIsEarly, GraceIsShort, ProcessIsSupervised
  <1>4. CASE Crash
    BY <1>4, ExitOverlap, Zenon DEF Crash, serverVars
  <1> QED
    BY <1>1, <1>2, <1>3, <1>4, Zenon DEF Supervision

LEMMA ReplayOverlap ==
    ASSUME TypeOK, OverlapInv, Replay
    PROVE  OverlapInv'
  <1>0. phase \notin Executing => proc = "none"
    BY Zenon DEF OverlapInv, ProcessIsSupervised, Executing
  <1>1. CASE Restart \/ Reconciled
    BY <1>0, <1>1, RestOverlap, Zenon DEF Restart, Reconciled, serverVars, superVars, Executing
  <1>2. ASSUME NEW a \in Attempt, ReplayAuthorized(a)
        PROVE  OverlapInv'
    BY <1>0, <1>2, RestOverlap, Zenon DEF ReplayAuthorized, serverVars, Executing
  <1>3. ASSUME NEW a \in Attempt, phase \notin Executing, Discard(a)
        PROVE  OverlapInv'
    <2>1. UNCHANGED <<lease, open>>
      BY <1>3, Zenon DEF Discard, serverVars
    <2>2. CASE Exit
      BY <2>1, <2>2, ExitOverlap, Zenon
    <2>3. CASE phase' = "startup" /\ UNCHANGED proc
      BY <1>0, <1>3, <2>1, <2>3, RestOverlap, Zenon DEF Executing
    <2> QED
      BY <1>3, <2>2, <2>3, Zenon DEF Discard
  <1>4. ASSUME NEW r \in eventReq, ReplayEventsAcked(r)
        PROVE  OverlapInv'
    BY <1>4, SameOverlap, Zenon DEF ReplayEventsAcked, timeVars, serverVars, superVars
  <1>5. CASE ReplayEventsDone
    BY <1>0, <1>5, RestOverlap, Zenon DEF ReplayEventsDone, serverVars, superVars, Executing
  <1>6. ASSUME NEW r \in doneReq, ReplayCompletionAcked(r)
        PROVE  OverlapInv'
    BY <1>0, <1>6, RestOverlap, Zenon DEF ReplayCompletionAcked, serverVars, superVars, Executing
  <1>7. CASE ReplayFails
    BY <1>7, ExitOverlap, Zenon DEF ReplayFails, serverVars
  <1>8. CASE ReplayDiscard
    BY <1>3, <1>8, Zenon DEF ReplayDiscard, TypeOK, Executing
  <1>9. ASSUME NEW a \in Attempt, ReplayFenced(a)
        PROVE  OverlapInv'
    BY <1>3, <1>9, Zenon DEF ReplayFenced, Executing
  <1> QED
    BY <1>1, <1>2, <1>4, <1>5, <1>6, <1>7, <1>8, <1>9, Zenon DEF Replay

LEMMA WorkOverlap ==
    ASSUME TypeOK, OverlapInv, Work
    PROVE  OverlapInv'
  <1>1. ASSUME NEW a \in Attempt, ClaimRun(a)
        PROVE  OverlapInv'
    <2>1. Grant(a)
      BY <1>1, Zenon DEF ClaimRun
    <2>2. AttemptsInOrder' /\ EndedIsReleased' /\ proc = "none"
      BY <2>1, GrantFacts, Zenon
    <2>3. CASE Exit
      BY <2>2, <2>3, Zenon DEF OverlapInv, Exit, GuardIsEarly, GraceIsShort,
          ProcessIsSupervised, Executing
    <2>4. CASE /\ phase' = "preflight" /\ att' = a /\ deadline' = TTL
               /\ answer' = 0 /\ UNCHANGED proc
      <3>1. lease'[a] = "active" /\ left'[a] = TTL
        BY <2>1, TimeTypes, Zenon DEF Grant
      <3>2. GuardIsEarly'
        BY <2>4, <3>1, ClockAssumption DEF GuardIsEarly
      <3> QED
        BY <2>2, <2>4, <3>2, Zenon DEF OverlapInv, GraceIsShort, ProcessIsSupervised
    <2> QED
      BY <1>1, <2>3, <2>4, Zenon DEF ClaimRun
  <1>2. ASSUME NEW a \in Attempt, LateEmit(a)
        PROVE  OverlapInv'
    <2>1. UNCHANGED <<lease, left, open, phase, att>>
      BY <1>2, Zenon DEF LateEmit, serverVars
    <2>2. CASE Stop
      BY <2>1, <2>2, StopInPlace, Zenon
    <2>3. CASE UNCHANGED superVars
      BY <2>1, <2>3, SameOverlap, Zenon DEF timeVars, superVars
    <2> QED
      BY <1>2, <2>2, <2>3, Zenon DEF LateEmit
  <1>3. ASSUME NEW a \in Attempt, LateReturns(a)
        PROVE  OverlapInv'
    BY <1>3, SameOverlap, Zenon DEF LateReturns, timeVars, serverVars, superVars
  <1>4. CASE RenewLease
    BY <1>4, TimeTypes, RenewOverlap, Zenon DEF RenewLease, workVars
  <1>5. CASE RenewAnswer
    <2>1. /\ UNCHANGED <<lease, left, open, att, canceled, grace>> /\ ~canceled
          /\ deadline' = Later(deadline, answer) /\ answer' = 0
          /\ phase' \in {"preflight"} \cup Executing => phase \in {"preflight"} \cup Executing
          /\ proc' = IF phase = "preflight" THEN "running" ELSE proc
          /\ phase = "preflight" => phase' = "executing"
          /\ phase = "executing" => phase' = "executing"
      BY <1>5, Zenon DEF RenewAnswer, serverVars, Executing
    <2>2. AttemptsInOrder' /\ EndedIsReleased'
      BY <2>1, SameLeases, Zenon
    <2>3. GuardIsEarly'
      BY <2>1, TimeTypes, ClockAssumption DEF OverlapInv, GuardIsEarly, Later
    <2>4. GraceIsShort' /\ ProcessIsSupervised'
      BY <2>1, Zenon DEF OverlapInv, GraceIsShort, ProcessIsSupervised
    <2> QED
      BY <2>2, <2>3, <2>4 DEF OverlapInv
  <1>6. CASE AuthorityRefused
    BY <1>6, StopInPlace, Zenon DEF AuthorityRefused, serverVars, workVars
  <1>7. CASE Emit
    <2>1. UNCHANGED <<lease, left, open, phase, att>>
      BY <1>7, Zenon DEF Emit, serverVars, workVars
    <2>2. CASE Stop
      BY <2>1, <2>2, StopInPlace, Zenon
    <2>3. CASE UNCHANGED superVars
      BY <2>1, <2>3, SameOverlap, Zenon DEF timeVars, superVars
    <2> QED
      BY <1>7, <2>2, <2>3, Zenon DEF Emit
  <1>8. CASE PostEvents \/ SendCompletion
    BY <1>8, SameOverlap, Zenon DEF PostEvents, SendCompletion, timeVars, serverVars, workVars,
        superVars
  <1>9. ASSUME NEW r \in eventReq, AckEvents(r)
        PROVE  OverlapInv'
    <2>1. UNCHANGED <<lease, left, open, phase, att>>
      BY <1>9, Zenon DEF AckEvents, serverVars, workVars
    <2>2. CASE Stop
      BY <2>1, <2>2, StopInPlace, Zenon
    <2>3. CASE UNCHANGED superVars
      BY <2>1, <2>3, SameOverlap, Zenon DEF timeVars, superVars
    <2> QED
      BY <1>9, <2>2, <2>3, Zenon DEF AckEvents
  <1>10. ASSUME NEW r \in eventReq, EventsRefused(r)
         PROVE  OverlapInv'
    BY <1>10, StopInPlace, Zenon DEF EventsRefused, serverVars, workVars
  <1>11. ASSUME phase \in Executing, phase' \in Executing, proc' = "none",
                deadline' = deadline, answer' \in {answer, 0},
                UNCHANGED <<lease, left, open, att, canceled>>
         PROVE  OverlapInv'
    <2>1. AttemptsInOrder' /\ EndedIsReleased'
      BY <1>11, SameLeases, Zenon
    <2>2. GuardIsEarly'
      BY <1>11, TimeTypes DEF OverlapInv, GuardIsEarly
    <2>3. GraceIsShort' /\ ProcessIsSupervised'
      BY <1>11, Zenon DEF GraceIsShort, ProcessIsSupervised
    <2> QED
      BY <2>1, <2>2, <2>3 DEF OverlapInv
  <1>12. CASE ProcessReturns
    BY <1>11, <1>12, Zenon DEF ProcessReturns, serverVars, Executing
  <1>13. proc # "none" => phase = "executing"
    BY Zenon DEF OverlapInv, ProcessIsSupervised
  <1>14. CASE Drained
    BY <1>11, <1>13, <1>14, Zenon DEF Drained, serverVars, Executing
  <1>15. ASSUME NEW o \in Outcome, AppendCompletion(o)
         PROVE  OverlapInv'
    <2>1. /\ phase = "finishing" /\ phase' = "draining" /\ proc = "none"
          /\ UNCHANGED <<lease, left, open, att>>
      BY <1>13, <1>15, Zenon DEF AppendCompletion, serverVars
    <2>2. CASE Stop
      BY <2>1, <2>2, StopOverlap, Zenon
    <2>3. CASE UNCHANGED superVars
      BY <1>11, <2>1, <2>3, Zenon DEF superVars, Executing
    <2> QED
      BY <1>15, <2>2, <2>3, Zenon DEF AppendCompletion
  <1>16. ASSUME NEW r \in doneReq, AckCompletion(r)
         PROVE  OverlapInv'
    <2>1. phase = "completing" /\ proc = "none" /\ UNCHANGED <<lease, left, open>>
      BY <1>13, <1>16, Zenon DEF AckCompletion, serverVars
    <2>2. CASE Exit
      BY <2>1, <2>2, ExitOverlap, Zenon
    <2>3. CASE Stop /\ UNCHANGED workVars
      BY <2>1, <2>3, StopInPlace, Zenon DEF workVars
    <2>4. CASE phase' = "idle" /\ UNCHANGED proc
      BY <2>1, <2>4, RestOverlap, Zenon DEF Executing
    <2> QED
      BY <1>16, <2>2, <2>3, <2>4, Zenon DEF AckCompletion
  <1>17. ASSUME NEW r \in doneReq, CompletionRefused(r)
         PROVE  OverlapInv'
    BY <1>17, StopInPlace, Zenon DEF CompletionRefused, serverVars, workVars
  <1>18. CASE GiveUp
    BY <1>18, ExitOverlap, Zenon DEF GiveUp, serverVars
  <1> QED
    BY <1>1, <1>2, <1>3, <1>4, <1>5, <1>6, <1>7, <1>8, <1>9, <1>10, <1>12,
       <1>14, <1>15, <1>16, <1>17, <1>18, Zenon DEF Work

LEMMA OverlapStep == TypeOK /\ OverlapInv /\ [Next]_vars => OverlapInv'
  <1> SUFFICES ASSUME TypeOK, OverlapInv, [Next]_vars
               PROVE  OverlapInv'
    BY Zenon
  <1>1. CASE UNCHANGED vars
    BY <1>1, SameOverlap, Zenon DEF vars, timeVars, serverVars, workVars, superVars
  <1> QED
    BY <1>1, ServerOverlap, WorkOverlap, SupervisionOverlap, ReplayOverlap, Zenon DEF Next

LEMMA OverlapInit == Init => OverlapInv
  BY DEF Init, OverlapInv, AttemptsInOrder, EndedIsReleased, GuardIsEarly,
         GraceIsShort, ProcessIsSupervised, Executing

LEMMA OverlapImplies == TypeOK /\ OverlapInv => NoOverlap
  <1> SUFFICES ASSUME TypeOK, OverlapInv, proc # "none",
                      NEW b \in Attempt \ {att}, lease[b] = "active"
               PROVE  FALSE
    BY Zenon DEF NoOverlap
  <1>1. open
    BY Zenon DEF OverlapInv, EndedIsReleased
  <1>2. lease[att] = "active"
    BY <1>1, Zenon DEF OverlapInv, GuardIsEarly, GraceIsShort, ProcessIsSupervised, Executing,
        TypeOK
  <1> QED
    BY <1>2, OneActive, TimeTypes, Zenon

(* The watchdog's margin, which is longer than the termination grace,      *)
(* makes the runner's process group end before the server can give the run *)
(* to the next attempt, however renewals and their answers are delayed.    *)
THEOREM NoTwoAttemptsExecute == Spec => []NoOverlap
  BY TypeInit, TypeStep, OverlapInit, OverlapStep, OverlapImplies, PTL DEF Spec

-----------------------------------------------------------------------------
(* The log: what makes LogIsPrefix inductive. *)

(* An event is accounted for: the server has it, or journal J does. *)
Has(J, a, i) == i \in stored[a] \/ <<a, i>> \in J.events

(* The phases before the terminal intent of an attempt is journaled. *)
Fresh == phase \in {"preflight", "executing", "finishing"}

(* An attempt that still appends output, delivers it, or may be replayed. *)
Kept(a) ==
    Authorized(a) \/ a \in late \/ (a = att /\ (Fresh \/ phase = "draining"))

(* What a journal guarantees: before an event it holds everything earlier  *)
(* is accounted for, and so is all output of a live attempt and all output *)
(* before a journaled completion.                                          *)
Good(J) ==
    \A a \in Attempt :
        /\ \A i, k \in Event : <<a, i>> \in J.events /\ k < i => Has(J, a, k)
        /\ a \in mine /\ Kept(a) => \A i \in Event : i <= emitted[a] => Has(J, a, i)
        /\ \A o \in Outcome : <<a, o>> \in J.done =>
               /\ a \in mine /\ ~ (Fresh /\ a = att)
               /\ \A i \in Event : i <= earlier[a] => Has(J, a, i)

(* The file is good, and so is what a running process has read of it. *)
JournalsAreGood == Good(disk) /\ (phase # "down" => Good(memory))

(* A batch on its way leaves no gap, however late it arrives. *)
BatchesLeaveNoGap ==
    \A a \in Attempt, B \in SUBSET Event : <<a, B>> \in eventReq =>
        \A i \in B, k \in Event : k < i => k \in B \/ k \in stored[a]

(* A completion is sent, and accepted, after the events before it. *)
CompletionsFollowEvents ==
    /\ \A a \in Attempt, o \in Outcome : <<a, o>> \in doneReq =>
           a \in mine /\ \A i \in Event : i <= earlier[a] => i \in stored[a]
    /\ \A a \in mine : lease[a] = "completed" =>
           \A i \in Event : i <= earlier[a] => i \in stored[a]
    /\ phase \in {"completing", "replayCompletion"} =>
           \A i \in Event : i <= earlier[att] => i \in stored[att]
    /\ Fresh => lease[att] # "completed" /\ \A o \in Outcome : <<att, o>> \notin doneReq

(* Output and completions belong to attempts this runner has claimed. *)
OutputIsOwned ==
    /\ \A a \in mine : lease[a] # "none"
    /\ \A a \in Attempt : a \notin mine => emitted[a] = 0 /\ a \notin late
    /\ phase \in {"preflight"} \cup Executing => att \in mine
    /\ \A a \in Attempt : earlier[a] <= emitted[a]

(* The startup replay has delivered what it counts as delivered, and no    *)
(* callback of an earlier process is left.                                 *)
ReplayIsDelivered ==
    /\ phase \notin Replaying => replayed = {}
    /\ replayed \subseteq stored[att]
    /\ phase \in {"replayCompletion", "replayDiscard"} => Pending(att) \subseteq replayed
    /\ phase \in {"down", "startup"} \cup Replaying => late = {}

LogInv ==
    /\ JournalsAreGood /\ BatchesLeaveNoGap /\ CompletionsFollowEvents
    /\ OutputIsOwned /\ ReplayIsDelivered /\ LogIsPrefix

-----------------------------------------------------------------------------
(* Good(J) after a step, for a journal J named before it. *)
NextHas(J, a, i) == i \in stored'[a] \/ <<a, i>> \in J.events

NextGood(J) ==
    \A a \in Attempt :
        /\ \A i, k \in Event : <<a, i>> \in J.events /\ k < i => NextHas(J, a, k)
        /\ a \in mine' /\ Kept(a)' => \A i \in Event : i <= emitted'[a] => NextHas(J, a, i)
        /\ \A o \in Outcome : <<a, o>> \in J.done =>
               /\ a \in mine' /\ ~ (Fresh' /\ a = att')
               /\ \A i \in Event : i <= earlier'[a] => NextHas(J, a, i)

LEMMA NextJournals ==
    ASSUME NextGood(disk'), phase' # "down" => NextGood(memory')
    PROVE  JournalsAreGood'
  BY Zenon DEF JournalsAreGood, Good, Has, NextGood, NextHas

(* A step that appends nothing, claims nothing and revives no attempt. *)
Steady ==
    /\ \A a \in Attempt : stored[a] \subseteq stored'[a]
    /\ mine' = mine /\ emitted' = emitted /\ earlier' = earlier
    /\ \A a \in mine : Kept(a)' => Kept(a)
    /\ Fresh' => Fresh /\ att' = att

(* A good journal is good after it. *)
LEMMA SteadyGood == Steady => \A J : Good(J) => NextGood(J)
  <1> SUFFICES ASSUME Steady, NEW J, Good(J), NEW a \in Attempt
      PROVE  /\ \A i, k \in Event : <<a, i>> \in J.events /\ k < i => NextHas(J, a, k)
             /\ a \in mine' /\ Kept(a)' => \A i \in Event : i <= emitted'[a] => NextHas(J, a, i)
             /\ \A o \in Outcome : <<a, o>> \in J.done =>
                    /\ a \in mine' /\ ~ (Fresh' /\ a = att')
                    /\ \A i \in Event : i <= earlier'[a] => NextHas(J, a, i)
    BY Zenon DEF NextGood
  <1>1. \A i : Has(J, a, i) => NextHas(J, a, i)
    BY Zenon DEF Has, NextHas, Steady
  <1>2. \A i, k \in Event : <<a, i>> \in J.events /\ k < i => NextHas(J, a, k)
    BY <1>1, Zenon DEF Good
  <1>3. a \in mine' /\ Kept(a)' => \A i \in Event : i <= emitted'[a] => NextHas(J, a, i)
    BY <1>1, Zenon DEF Good, Steady
  <1>4. ASSUME NEW o \in Outcome, <<a, o>> \in J.done
        PROVE  /\ a \in mine' /\ ~ (Fresh' /\ a = att')
               /\ \A i \in Event : i <= earlier'[a] => NextHas(J, a, i)
    <2>1. a \in mine /\ ~ (Fresh /\ a = att) /\ \A i \in Event : i <= earlier[a] => Has(J, a, i)
      BY <1>4, Zenon DEF Good
    <2> QED
      BY <1>1, <2>1, Zenon DEF Steady
  <1> QED
    BY <1>2, <1>3, <1>4, Zenon

(* When the journal is left alone. *)
LEMMA SteadyJournals ==
    ASSUME LogInv, Steady, UNCHANGED <<memory, disk>>, phase # "down"
    PROVE  JournalsAreGood'
  <1>1. NextGood(disk) /\ NextGood(memory)
    BY SteadyGood, Zenon DEF LogInv, JournalsAreGood
  <1>2. disk' = disk /\ memory' = memory
    BY Zenon
  <1> QED
    BY <1>1, <1>2, NextJournals, Zenon

(* A step that neither sends nor stores a batch. *)
LEMMA SameLogs ==
    ASSUME LogInv, stored' = stored, eventReq' = eventReq
    PROVE  BatchesLeaveNoGap' /\ LogIsPrefix'
  BY Zenon DEF LogInv, BatchesLeaveNoGap, LogIsPrefix

(* Steps of time, of the supervisor and of other runners. *)
LEMMA QuietLog ==
    ASSUME LogInv, UNCHANGED <<stored, mine, netVars, phase, att, replayed, journalVars>>,
           late' \subseteq late,
           \A a \in mine : /\ lease'[a] = "completed" => lease[a] = "completed"
                           /\ lease'[a] # "none"
                           /\ Authorized(a)' => Authorized(a)
    PROVE  LogInv'
  <1>0. /\ stored' = stored /\ mine' = mine /\ eventReq' = eventReq /\ doneReq' = doneReq
        /\ phase' = phase /\ att' = att /\ replayed' = replayed
        /\ memory' = memory /\ disk' = disk /\ emitted' = emitted /\ earlier' = earlier
    BY Zenon DEF netVars, journalVars
  <1>1. (Fresh' <=> Fresh) /\ \A a \in mine : Kept(a)' => Kept(a)
    BY <1>0, Zenon DEF Fresh, Kept
  <1>2. Steady
    BY <1>0, <1>1, Zenon DEF Steady
  <1>3. JournalsAreGood'
    <2>1. NextGood(disk') /\ (phase' # "down" => NextGood(memory'))
      BY <1>0, <1>2, SteadyGood, Zenon DEF LogInv, JournalsAreGood
    <2> QED
      BY <2>1, NextJournals, Zenon
  <1>4. BatchesLeaveNoGap' /\ LogIsPrefix'
    BY <1>0, SameLogs, Zenon
  <1>5. CompletionsFollowEvents'
    <2>1. Fresh => att \in mine
      BY Zenon DEF LogInv, OutputIsOwned, Fresh, Executing
    <2> QED
      BY <1>0, <1>1, <2>1, Zenon DEF LogInv, CompletionsFollowEvents
  <1>6. OutputIsOwned'
    BY <1>0, Zenon DEF LogInv, OutputIsOwned
  <1>7. ReplayIsDelivered'
    BY <1>0, Zenon DEF LogInv, ReplayIsDelivered, Pending
  <1> QED
    BY <1>3, <1>4, <1>5, <1>6, <1>7, Zenon DEF LogInv

(* The end of the process: the file is what survives. *)
LEMMA ExitLog ==
    ASSUME LogInv, Exit, UNCHANGED <<serverVars, netVars>>, \E J : Good(J) /\ disk' = J
    PROVE  LogInv'
  <1>0. /\ stored' = stored /\ mine' = mine /\ eventReq' = eventReq /\ doneReq' = doneReq
        /\ lease' = lease /\ left' = left /\ emitted' = emitted /\ earlier' = earlier
        /\ phase' = "down" /\ att' = att /\ late' = {} /\ replayed' = {}
    BY Zenon DEF serverVars, netVars, Exit
  <1>1. ~Fresh' /\ \A a \in mine : Kept(a)' => Kept(a)
    BY <1>0, Zenon DEF Fresh, Kept, Authorized
  <1>2. Steady
    BY <1>0, <1>1, Zenon DEF Steady
  <1>3. JournalsAreGood'
    BY <1>0, <1>2, SteadyGood, NextJournals, Zenon
  <1>4. BatchesLeaveNoGap' /\ LogIsPrefix'
    BY <1>0, SameLogs, Zenon
  <1>5. CompletionsFollowEvents'
    <2>1. phase' \notin {"completing", "replayCompletion"}
      BY <1>0, Zenon
    <2> QED
      BY <1>0, <1>1, <2>1, Zenon DEF LogInv, CompletionsFollowEvents
  <1>6. OutputIsOwned'
    <2>1. phase' \notin {"preflight"} \cup Executing
      BY <1>0, Zenon DEF Executing
    <2> QED
      BY <1>0, <2>1, Zenon DEF LogInv, OutputIsOwned
  <1>7. ReplayIsDelivered'
    <2>1. phase' \notin {"replayCompletion", "replayDiscard"}
      BY <1>0, Zenon
    <2> QED
      BY <1>0, <2>1, Zenon DEF ReplayIsDelivered
  <1> QED
    BY <1>3, <1>4, <1>5, <1>6, <1>7, Zenon DEF LogInv

(* The runner dies or gives up. *)
LEMMA ExitKeepsLog ==
    ASSUME LogInv, Exit, UNCHANGED <<serverVars, netVars>>, disk' = disk
    PROVE  LogInv'
  BY ExitLog, Zenon DEF LogInv, JournalsAreGood

(* The supervisor alone moves. *)
LEMMA RestLog ==
    ASSUME TypeOK, LogInv, UNCHANGED <<serverVars, netVars, workVars, journalVars>>
    PROVE  LogInv'
  <1>1. /\ lease' = lease /\ left' = left /\ mine' = mine /\ stored' = stored
        /\ phase' = phase /\ att' = att /\ late' = late /\ replayed' = replayed
    BY Zenon DEF serverVars, workVars
  <1>2. \A a \in mine : lease[a] # "none" /\ (Authorized(a)' => Authorized(a))
    BY <1>1, Zenon DEF Authorized, LogInv, OutputIsOwned
  <1> QED
    BY <1>1, <1>2, QuietLog, Zenon

LEMMA SupervisionLog ==
    ASSUME TypeOK, LogInv, Supervision
    PROVE  LogInv'
  <1>0. \A a \in mine : a \in Attempt /\ lease[a] # "none"
    BY Zenon DEF TypeOK, LogInv, OutputIsOwned
  <1>1. CASE Tick
    <2>1. \A a \in mine : lease'[a] = lease[a] /\ left'[a] = Less(left[a]) /\ left[a] \in Nat
      BY <1>1, <1>0, ClockAssumption DEF Tick, TypeOK
    <2>2. \A n \in Nat : Less(n) > 0 => n > 0
      BY DEF Less
    <2>3. \A a \in mine : Authorized(a)' => Authorized(a)
      BY <2>1, <2>2, Zenon DEF Authorized
    <2> QED
      BY <1>0, <1>1, <2>1, <2>3, QuietLog, Zenon DEF Tick, workVars
  <1>2. CASE Watchdog \/ Shutdown \/ ProcessStops
    BY <1>2, RestLog, Zenon DEF Watchdog, Shutdown, ProcessStops
  <1>3. CASE Crash
    BY <1>3, ExitKeepsLog, Zenon DEF Crash
  <1> QED
    BY <1>1, <1>2, <1>3, Zenon DEF Supervision

(* A late batch, a late completion. *)
LEMMA StoreLog ==
    ASSUME TypeOK, LogInv, NEW r \in eventReq, StoreEvents(r)
    PROVE  LogInv'
  <1>1. PICK b \in Attempt, B \in SUBSET Event : r = <<b, B>>
    BY DEF TypeOK
  <1>2. /\ stored'[b] = stored[b] \cup B
        /\ \A a \in Attempt : a # b => stored'[a] = stored[a]
    BY <1>1, Zenon DEF StoreEvents, TypeOK
  <1>3. /\ lease' = lease /\ left' = left /\ mine' = mine /\ UNCHANGED <<netVars, journalVars>>
        /\ phase' = phase /\ att' = att /\ late' = late /\ replayed' = replayed
    BY Zenon DEF StoreEvents, workVars
  <1>4. /\ eventReq' = eventReq /\ doneReq' = doneReq
        /\ memory' = memory /\ disk' = disk /\ emitted' = emitted /\ earlier' = earlier
    BY <1>3, Zenon DEF netVars, journalVars
  <1>5. \A a \in Attempt : stored[a] \subseteq stored'[a]
    BY <1>2, Zenon
  <1>6. (Fresh' <=> Fresh) /\ \A a \in mine : Kept(a)' => Kept(a)
    BY <1>3, Zenon DEF Fresh, Kept, Authorized
  <1>7. JournalsAreGood'
    <2>1. NextGood(disk') /\ (phase' # "down" => NextGood(memory'))
      BY <1>3, <1>4, <1>5, <1>6, SteadyGood, Zenon DEF LogInv, JournalsAreGood, Steady
    <2> QED
      BY <2>1, NextJournals, Zenon
  <1>8. BatchesLeaveNoGap'
    BY <1>4, <1>5, Zenon DEF LogInv, BatchesLeaveNoGap
  <1>9. LogIsPrefix'
    <2> SUFFICES ASSUME NEW a \in Attempt, NEW i \in stored'[a], NEW k \in Event, k < i
                 PROVE  k \in stored'[a]
      BY Zenon DEF LogIsPrefix
    <2>1. CASE i \in stored[a]
      BY <1>5, <2>1, Zenon DEF LogInv, LogIsPrefix
    <2>2. CASE i \notin stored[a]
      <3>1. a = b /\ i \in B
        BY <1>2, <2>2, Zenon
      <3>2. k \in B \/ k \in stored[b]
        BY <1>1, <3>1, Zenon DEF LogInv, BatchesLeaveNoGap
      <3> QED
        BY <1>2, <3>1, <3>2, Zenon
    <2> QED
      BY <2>1, <2>2, Zenon
  <1>10. CompletionsFollowEvents'
    <2>1. \A a \in mine : a \in Attempt
      BY Zenon DEF TypeOK
    <2>2. att \in Attempt
      BY Zenon DEF TypeOK
    <2> QED
      BY <1>3, <1>4, <1>5, <1>6, <2>1, <2>2, Zenon DEF LogInv, CompletionsFollowEvents
  <1>11. OutputIsOwned'
    BY <1>3, <1>4, Zenon DEF LogInv, OutputIsOwned
  <1>12. ReplayIsDelivered'
    <2>1. att \in Attempt
      BY Zenon DEF TypeOK
    <2> QED
      BY <1>3, <1>4, <1>5, <2>1, Zenon DEF LogInv, ReplayIsDelivered, Pending
  <1> QED
    BY <1>7, <1>8, <1>9, <1>10, <1>11, <1>12, Zenon DEF LogInv

LEMMA CompleteLog ==
    ASSUME TypeOK, LogInv, NEW r \in doneReq, CompleteLease(r)
    PROVE  LogInv'
  <1>1. PICK b \in Attempt, o \in Outcome : r = <<b, o>>
    BY DEF TypeOK
  <1>2. /\ lease'[b] = "completed" /\ lease[b] = "active"
        /\ \A a \in Attempt : a # b => lease'[a] = lease[a]
    BY <1>1, Zenon DEF CompleteLease, TypeOK, Authorized
  <1>3. /\ stored' = stored /\ left' = left /\ mine' = mine /\ UNCHANGED <<netVars, journalVars>>
        /\ phase' = phase /\ att' = att /\ late' = late /\ replayed' = replayed
    BY Zenon DEF CompleteLease, workVars
  <1>4. /\ eventReq' = eventReq /\ doneReq' = doneReq
        /\ memory' = memory /\ disk' = disk /\ emitted' = emitted /\ earlier' = earlier
    BY <1>3, Zenon DEF netVars, journalVars
  <1>5. \A a \in mine : a \in Attempt
    BY Zenon DEF TypeOK
  <1>6. \A a \in mine : Authorized(a)' => Authorized(a)
    BY <1>2, <1>3, <1>5, Zenon DEF Authorized
  <1>7. (Fresh' <=> Fresh) /\ \A a \in mine : Kept(a)' => Kept(a)
    BY <1>3, <1>6, Zenon DEF Fresh, Kept
  <1>8. JournalsAreGood'
    <2>1. Steady
      BY <1>3, <1>4, <1>7, Zenon DEF Steady
    <2>2. NextGood(disk') /\ (phase' # "down" => NextGood(memory'))
      BY <1>3, <1>4, <2>1, SteadyGood, Zenon DEF LogInv, JournalsAreGood
    <2> QED
      BY <2>2, NextJournals, Zenon
  <1>9. BatchesLeaveNoGap' /\ LogIsPrefix'
    BY <1>3, <1>4, SameLogs, Zenon
  <1>10. CompletionsFollowEvents'
    <2>1. \A i \in Event : i <= earlier[b] => i \in stored[b]
      BY <1>1, Zenon DEF LogInv, CompletionsFollowEvents
    <2>2. \A a \in mine : lease'[a] = "completed" => \A i \in Event : i <= earlier[a] => i \in stored[a]
      BY <1>2, <1>5, <2>1, Zenon DEF LogInv, CompletionsFollowEvents
    <2>3. Fresh => lease'[att] # "completed"
      BY <1>1, <1>2, Zenon DEF LogInv, CompletionsFollowEvents, TypeOK
    <2> QED
      BY <1>3, <1>4, <1>7, <2>2, <2>3, Zenon DEF LogInv, CompletionsFollowEvents
  <1>11. OutputIsOwned'
    <2>1. \A a \in mine : lease'[a] # "none"
      BY <1>2, <1>5, Zenon DEF LogInv, OutputIsOwned
    <2> QED
      BY <1>3, <1>4, <2>1, Zenon DEF LogInv, OutputIsOwned
  <1>12. ReplayIsDelivered'
    BY <1>3, <1>4, Zenon DEF LogInv, ReplayIsDelivered, Pending
  <1> QED
    BY <1>8, <1>9, <1>10, <1>11, <1>12, Zenon DEF LogInv

(* Another runner's steps do not touch this runner's attempts. *)
LEMMA ServerLog ==
    ASSUME TypeOK, LogInv, Server
    PROVE  LogInv'
  <1>0. \A a \in mine : a \in Attempt /\ lease[a] # "none"
    BY Zenon DEF TypeOK, LogInv, OutputIsOwned
  <1>1. ASSUME NEW a \in Attempt, OtherRunner(a)
        PROVE  LogInv'
    <2>1. a \notin mine
      BY <1>0, <1>1, Zenon DEF OtherRunner, Grant, Claimable
    <2>2. \A b \in mine : lease'[b] = lease[b] /\ left'[b] = left[b]
      BY <1>0, <1>1, <2>1, Zenon DEF OtherRunner, Grant, TypeOK
    <2>3. \A b \in mine : lease'[b] # "none" /\ (Authorized(b)' => Authorized(b))
      BY <1>0, <2>2, Zenon DEF Authorized
    <2>4. stored' = stored /\ mine' = mine /\ UNCHANGED <<netVars, workVars, journalVars>>
      BY <1>1, Zenon DEF OtherRunner, Grant
    <2> QED
      BY <2>2, <2>3, <2>4, QuietLog, Zenon DEF workVars
  <1>2. ASSUME NEW a \in Attempt, Expire(a)
        PROVE  LogInv'
    <2>1. \A b \in mine : left'[b] = left[b] /\ (lease'[b] = lease[b] \/ lease'[b] = "over")
      BY <1>0, <1>2, Zenon DEF Expire, TypeOK
    <2>2. \A b \in mine : Authorized(b)' => Authorized(b)
      BY <2>1, Zenon DEF Authorized
    <2>3. \A b \in mine : lease'[b] # "none" /\ (lease'[b] = "completed" => lease[b] = "completed")
      BY <1>0, <2>1, Zenon
    <2> QED
      BY <1>2, <2>2, <2>3, QuietLog, Zenon DEF Expire, workVars
  <1>3. CASE CancelRun
    <2>1. \A b \in mine : left'[b] = left[b] /\ (lease'[b] = lease[b] \/ lease'[b] = "over")
      BY <1>0, <1>3, Zenon DEF CancelRun, TypeOK
    <2>2. \A b \in mine : Authorized(b)' => Authorized(b)
      BY <2>1, Zenon DEF Authorized
    <2>3. \A b \in mine : lease'[b] # "none" /\ (lease'[b] = "completed" => lease[b] = "completed")
      BY <1>0, <2>1, Zenon
    <2> QED
      BY <1>3, <2>2, <2>3, QuietLog, Zenon DEF CancelRun, workVars
  <1> QED
    BY <1>1, <1>2, <1>3, StoreLog, CompleteLog, Zenon DEF Server

-----------------------------------------------------------------------------
(* What the journal's operations do to its entries. *)
LEMMA JournalFields ==
    ASSUME TypeOK, NEW a \in Attempt
    PROVE  /\ \A i \in Event :
                  /\ WithEvent(a, i).done = memory.done
                  /\ \A b, k : <<b, k>> \in WithEvent(a, i).events <=>
                         <<b, k>> \in memory.events \/ (b = a /\ k = i)
           /\ \A o \in Outcome :
                  /\ WithCompletion(a, o).events = memory.events
                  /\ \A b, p : <<b, p>> \in WithCompletion(a, o).done <=>
                         <<b, p>> \in memory.done \/ (b = a /\ p = o)
           /\ \A B : /\ WithoutEvents(a, B).done = memory.done
                     /\ \A b, k : <<b, k>> \in WithoutEvents(a, B).events <=>
                            <<b, k>> \in memory.events /\ ~ (b = a /\ k \in B)
           /\ \A o : /\ WithoutCompletion(a, o).events = memory.events
                     /\ WithoutCompletion(a, o).done \subseteq memory.done
           /\ \A b, k : <<b, k>> \in WithoutAttempt(a).events <=>
                  <<b, k>> \in memory.events /\ b # a
           /\ \A b, p : <<b, p>> \in WithoutAttempt(a).done <=>
                  <<b, p>> \in memory.done /\ b # a
  <1>0. memory \in [events : SUBSET (Attempt \X Event), done : SUBSET (Attempt \X Outcome)]
    BY Zenon DEF TypeOK, Journal
  <1>1. \A i \in Event :
           /\ WithEvent(a, i).done = memory.done
           /\ \A b, k : <<b, k>> \in WithEvent(a, i).events <=>
                  <<b, k>> \in memory.events \/ (b = a /\ k = i)
    BY <1>0, Zenon DEF WithEvent
  <1>2. \A o \in Outcome :
           /\ WithCompletion(a, o).events = memory.events
           /\ \A b, p : <<b, p>> \in WithCompletion(a, o).done <=>
                  <<b, p>> \in memory.done \/ (b = a /\ p = o)
    BY <1>0, Zenon DEF WithCompletion
  <1>3. \A B : /\ WithoutEvents(a, B).done = memory.done
               /\ \A b, k : <<b, k>> \in WithoutEvents(a, B).events <=>
                      <<b, k>> \in memory.events /\ ~ (b = a /\ k \in B)
    BY <1>0, Zenon DEF WithoutEvents
  <1>4. \A o : /\ WithoutCompletion(a, o).events = memory.events
               /\ WithoutCompletion(a, o).done \subseteq memory.done
    BY <1>0, Zenon DEF WithoutCompletion
  <1>5. /\ \A b, k : <<b, k>> \in WithoutAttempt(a).events <=> <<b, k>> \in memory.events /\ b # a
        /\ \A b, p : <<b, p>> \in WithoutAttempt(a).done <=> <<b, p>> \in memory.done /\ b # a
    BY <1>0, Zenon DEF WithoutAttempt
  <1> QED
    BY <1>1, <1>2, <1>3, <1>4, <1>5, Zenon

(* Output appended in order leaves no gap. *)
LEMMA GoodWithEvent ==
    ASSUME TypeOK, Good(memory), NEW a \in mine, Kept(a), emitted[a] < MaxEvent
    PROVE  Good(WithEvent(a, emitted[a] + 1))
  <1>1. a \in Attempt /\ emitted[a] + 1 \in Event
    BY SizeAssumption DEF TypeOK, Event
  <1>2. \A k \in Event : k < emitted[a] + 1 => k <= emitted[a]
    BY <1>1 DEF TypeOK, Event
  <1> DEFINE e == emitted[a] + 1
             J == WithEvent(a, e)
  <1>3. /\ J.done = memory.done
        /\ \A b, k : <<b, k>> \in J.events <=> <<b, k>> \in memory.events \/ (b = a /\ k = e)
    <2>1. \A i \in Event :
             /\ WithEvent(a, i).done = memory.done
             /\ \A b, k : <<b, k>> \in WithEvent(a, i).events <=>
                    <<b, k>> \in memory.events \/ (b = a /\ k = i)
      BY <1>1, JournalFields, Zenon
    <2> QED
      BY <1>1, <2>1, Zenon
  <1>4. \A k \in Event : k < e => Has(memory, a, k)
    BY <1>1, <1>2, Zenon DEF Good
  <1> HIDE DEF e, J
  <1>5. \A b, k : Has(memory, b, k) => Has(J, b, k)
    BY <1>3, Zenon DEF Has
  <1>6. Good(J)
    BY <1>3, <1>4, <1>5, Zenon DEF Good
  <1> QED
    BY <1>6, Zenon DEF e, J

(* What the server has may leave it. *)
LEMMA GoodWithoutEvents ==
    ASSUME TypeOK, Good(memory), NEW a \in Attempt, NEW B, B \subseteq stored[a]
    PROVE  Good(WithoutEvents(a, B))
  <1> DEFINE J == WithoutEvents(a, B)
  <1>1. /\ J.done = memory.done
        /\ \A b, k : <<b, k>> \in J.events <=> <<b, k>> \in memory.events /\ ~ (b = a /\ k \in B)
    BY JournalFields, Zenon
  <1> HIDE DEF J
  <1>2. \A b, k : Has(memory, b, k) => Has(J, b, k)
    BY <1>1, Zenon DEF Has
  <1>3. Good(J)
    BY <1>1, <1>2, Zenon DEF Good
  <1> QED
    BY <1>3, Zenon DEF J

LEMMA GoodWithoutCompletion ==
    ASSUME TypeOK, Good(memory), NEW a \in Attempt, NEW o
    PROVE  Good(WithoutCompletion(a, o))
  <1> DEFINE J == WithoutCompletion(a, o)
  <1>1. J.events = memory.events /\ J.done \subseteq memory.done
    BY JournalFields, Zenon
  <1> HIDE DEF J
  <1>2. \A b, k : Has(memory, b, k) <=> Has(J, b, k)
    BY <1>1, Zenon DEF Has
  <1>3. Good(J)
    BY <1>1, <1>2, Zenon DEF Good
  <1> QED
    BY <1>3, Zenon DEF J

(* An attempt is discarded when it is dead or delivered. *)
LEMMA GoodWithoutAttempt ==
    ASSUME TypeOK, Good(memory), NEW a \in Attempt,
           a \in mine /\ Kept(a) => \A i \in Event : i <= emitted[a] => i \in stored[a]
    PROVE  Good(WithoutAttempt(a))
  <1> DEFINE J == WithoutAttempt(a)
  <1>1. /\ \A b, k : <<b, k>> \in J.events <=> <<b, k>> \in memory.events /\ b # a
        /\ \A b, p : <<b, p>> \in J.done <=> <<b, p>> \in memory.done /\ b # a
    BY JournalFields, Zenon
  <1> HIDE DEF J
  <1>2. /\ \A b, k : b # a /\ Has(memory, b, k) => Has(J, b, k)
        /\ \A k : k \in stored[a] => Has(J, a, k)
    BY <1>1, Zenon DEF Has
  <1>3. Good(J)
    BY <1>1, <1>2, Zenon DEF Good
  <1> QED
    BY <1>3, Zenon DEF J

-----------------------------------------------------------------------------
(* A step of the runner that appends nothing: it may change its phase and  *)
(* rewrite its journal.                                                    *)
LEMMA MoveLog ==
    ASSUME TypeOK, LogInv, UNCHANGED <<serverVars, netVars, emitted, earlier>>,
           \E J : Good(J) /\ memory' = J, \E J : Good(J) /\ disk' = J,
           Fresh' => Fresh /\ att' = att, \A a \in mine : Kept(a)' => Kept(a),
           late' \subseteq mine,
           phase' \in {"preflight"} \cup Executing => att' \in mine,
           phase' \in {"completing", "replayCompletion"} =>
               \A i \in Event : i <= earlier[att'] => i \in stored[att'],
           ReplayIsDelivered'
    PROVE  LogInv'
  <1>0. /\ stored' = stored /\ mine' = mine /\ eventReq' = eventReq /\ doneReq' = doneReq
        /\ lease' = lease /\ emitted' = emitted /\ earlier' = earlier
    BY Zenon DEF serverVars, netVars
  <1>1. Steady
    BY <1>0, Zenon DEF Steady
  <1>2. JournalsAreGood'
    BY <1>1, SteadyGood, NextJournals, Zenon
  <1>3. BatchesLeaveNoGap' /\ LogIsPrefix'
    BY <1>0, SameLogs, Zenon
  <1>4. CompletionsFollowEvents'
    BY <1>0, Zenon DEF LogInv, CompletionsFollowEvents
  <1>5. OutputIsOwned'
    BY <1>0, Zenon DEF LogInv, OutputIsOwned
  <1> QED
    BY <1>2, <1>3, <1>4, <1>5, Zenon DEF LogInv

(* The journal of a running process is rewritten. *)
LEMMA JournalLog ==
    ASSUME TypeOK, LogInv,
           UNCHANGED <<serverVars, netVars, phase, att, replayed, emitted, earlier>>,
           late' \subseteq late, phase \notin {"down"} \cup Replaying,
           \E J : Good(J) /\ memory' = J, \E J : Good(J) /\ disk' = J
    PROVE  LogInv'
  <1>0. /\ phase' = phase /\ att' = att /\ replayed' = replayed /\ stored' = stored
        /\ lease' = lease /\ left' = left
    BY Zenon DEF serverVars
  <1>1. (Fresh' <=> Fresh) /\ \A a \in mine : Kept(a)' => Kept(a)
    BY <1>0, Zenon DEF Fresh, Kept, Authorized
  <1>2. late' \subseteq mine
    BY Zenon DEF TypeOK, LogInv, OutputIsOwned
  <1>3. ReplayIsDelivered'
    <2>1. phase \notin {"replayCompletion", "replayDiscard"}
      BY Zenon DEF Replaying
    <2> QED
      BY <1>0, <2>1, Zenon DEF LogInv, ReplayIsDelivered
  <1>4. /\ phase' \in {"preflight"} \cup Executing => att' \in mine
        /\ phase' \in {"completing", "replayCompletion"} =>
               \A i \in Event : i <= earlier[att'] => i \in stored[att']
    BY <1>0, Zenon DEF LogInv, OutputIsOwned, CompletionsFollowEvents
  <1> QED
    BY <1>0, <1>1, <1>2, <1>3, <1>4, MoveLog, Zenon

(* Output of a live attempt reaches the journal. *)
LEMMA AppendLog ==
    ASSUME TypeOK, LogInv, NEW a \in mine, Kept(a), phase \notin {"down"} \cup Replaying,
           AppendEvent(a), UNCHANGED <<serverVars, netVars, workVars>>
    PROVE  LogInv'
  <1>0. /\ stored' = stored /\ mine' = mine /\ eventReq' = eventReq /\ doneReq' = doneReq
        /\ lease' = lease /\ left' = left /\ earlier' = earlier
        /\ phase' = phase /\ att' = att /\ replayed' = replayed /\ late' = late
    BY Zenon DEF serverVars, netVars, workVars, AppendEvent
  <1> DEFINE e == emitted[a] + 1
             J == WithEvent(a, e)
  <1>1. /\ a \in Attempt /\ e \in Event /\ emitted'[a] = e
        /\ \A b \in Attempt : b # a => emitted'[b] = emitted[b]
        /\ emitted[a] \in Nat /\ emitted[a] < MaxEvent
    BY SizeAssumption DEF TypeOK, Event, AppendEvent
  <1>2. memory' = J /\ disk' = J
    BY Zenon DEF AppendEvent, Persist
  <1>3. Good(J)
    BY <1>1, GoodWithEvent, Zenon DEF LogInv, JournalsAreGood
  <1>4. Has(J, a, e)
    <2>1. \A i \in Event : <<a, i>> \in WithEvent(a, i).events
      BY <1>1, JournalFields, Zenon
    <2> QED
      BY <1>1, <2>1, Zenon DEF Has
  <1>5. \A i \in Event : i <= e => i <= emitted[a] \/ i = e
    BY <1>1 DEF Event
  <1>6. \A b \in Attempt : earlier[b] <= emitted'[b]
    <2>1. \A b \in Attempt : earlier[b] <= emitted[b]
      BY Zenon DEF LogInv, OutputIsOwned
    <2>2. earlier[a] <= e
      BY <1>1, <2>1 DEF TypeOK
    <2> QED
      BY <1>1, <2>1, <2>2, Zenon
  <1> HIDE DEF e, J
  <1>7. \A b : (Kept(b)' <=> Kept(b)) /\ (Fresh' <=> Fresh)
    BY <1>0, Zenon DEF Fresh, Kept, Authorized
  <1>8. \A b, i : NextHas(J, b, i) <=> Has(J, b, i)
    BY <1>0, Zenon DEF Has, NextHas
  <1>9. \A b \in Attempt, i \in Event :
          b \in mine /\ Kept(b) /\ i <= emitted'[b] => Has(J, b, i)
    BY <1>1, <1>3, <1>4, <1>5, Zenon DEF Good
  <1>10. NextGood(J)
    BY <1>0, <1>3, <1>7, <1>8, <1>9, Zenon DEF Good, NextGood
  <1>11. JournalsAreGood'
    BY <1>2, <1>10, NextJournals, Zenon
  <1>12. BatchesLeaveNoGap' /\ LogIsPrefix'
    BY <1>0, SameLogs, Zenon
  <1>13. CompletionsFollowEvents'
    BY <1>0, <1>7, Zenon DEF LogInv, CompletionsFollowEvents
  <1>14. OutputIsOwned'
    <2>1. \A b \in Attempt : b \notin mine => emitted'[b] = 0
      BY <1>1, Zenon DEF LogInv, OutputIsOwned
    <2> QED
      BY <1>0, <1>6, <2>1, Zenon DEF LogInv, OutputIsOwned
  <1>15. ReplayIsDelivered'
    <2>1. phase \notin {"replayCompletion", "replayDiscard"}
      BY Zenon DEF Replaying
    <2> QED
      BY <1>0, <2>1, Zenon DEF LogInv, ReplayIsDelivered
  <1> QED
    BY <1>11, <1>12, <1>13, <1>14, <1>15, Zenon DEF LogInv

(* A failed append may or may not have replaced the file. *)
LEMMA AppendFailsLog ==
    ASSUME TypeOK, LogInv, NEW a \in mine, Kept(a), phase \notin {"down"} \cup Replaying,
           AppendEventFails(a), UNCHANGED <<serverVars, netVars, phase, att, replayed>>,
           late' \subseteq late
    PROVE  LogInv'
  <1>1. Good(memory) /\ Good(disk)
    BY Zenon DEF LogInv, JournalsAreGood
  <1>2. emitted[a] < MaxEvent => Good(WithEvent(a, emitted[a] + 1))
    BY <1>1, GoodWithEvent, Zenon
  <1>3. \E J : Good(J) /\ memory' = J
    BY <1>1, Zenon DEF AppendEventFails, PersistFails
  <1>4. \E J : Good(J) /\ disk' = J
    BY <1>1, <1>2, Zenon DEF AppendEventFails, PersistFails
  <1> QED
    BY <1>3, <1>4, JournalLog, Zenon DEF AppendEventFails

-----------------------------------------------------------------------------
(* The steps of an attempt. *)

(* A new attempt has no output yet and nothing about it is journaled. *)
LEMMA ClaimLog ==
    ASSUME TypeOK, LogInv, NEW a \in Attempt, ClaimRun(a)
    PROVE  LogInv'
  <1>0. /\ stored' = stored /\ mine' = mine \cup {a} /\ eventReq' = eventReq
        /\ doneReq' = doneReq /\ disk' = disk /\ emitted' = emitted /\ earlier' = earlier
        /\ phase = "idle" /\ replayed' = {} /\ late' \subseteq late
    <2>1. phase = "idle" => replayed = {}
      BY Zenon DEF LogInv, ReplayIsDelivered, Replaying
    <2> QED
      BY <2>1, Zenon DEF ClaimRun, Grant, Exit, netVars, journalVars
  <1>1. \/ phase' = "preflight" /\ att' = a /\ memory' = memory /\ late' = late
        \/ phase' = "down" /\ late' = {}
    BY Zenon DEF ClaimRun, Exit, journalVars
  <1>2. /\ lease[a] = "none" /\ lease'[a] = "active"
        /\ \A b \in Attempt : b # a => lease'[b] = lease[b] /\ left'[b] = left[b]
    BY Zenon DEF ClaimRun, Grant, Claimable, TypeOK
  <1>3. a \notin mine /\ emitted[a] = 0 /\ mine \subseteq Attempt
    BY <1>2, Zenon DEF LogInv, OutputIsOwned, TypeOK
  <1>4. \A i \in Event : ~ i <= emitted[a]
    BY <1>3 DEF Event
  <1>5. \A b \in mine : b # a /\ (Kept(b)' => Kept(b))
    <2>1. \A b \in mine : b # a
      BY <1>3, Zenon
    <2>2. \A b \in mine : ~ (b = att' /\ (Fresh' \/ phase' = "draining"))
      BY <1>1, <2>1, Zenon DEF Fresh
    <2>3. \A b \in mine : Authorized(b)' => Authorized(b)
      BY <1>2, <1>3, <2>1, Zenon DEF Authorized
    <2> QED
      BY <1>0, <2>1, <2>2, <2>3, Zenon DEF Kept
  <1>6. Fresh' => att' = a
    BY <1>1, Zenon DEF Fresh
  <1>7. \A J : Good(J) => NextGood(J)
    <2> SUFFICES ASSUME NEW J, Good(J) PROVE NextGood(J)
      BY Zenon
    <2>1. \A b, i : NextHas(J, b, i) <=> Has(J, b, i)
      BY <1>0, Zenon DEF Has, NextHas
    <2> QED
      BY <1>0, <1>3, <1>4, <1>5, <1>6, <2>1, Zenon DEF Good, NextGood
  <1>8. JournalsAreGood'
    <2>1. phase # "down"
      BY <1>0, Zenon
    <2> QED
      BY <1>0, <1>1, <1>7, <2>1, NextJournals, Zenon DEF LogInv, JournalsAreGood
  <1>9. BatchesLeaveNoGap' /\ LogIsPrefix'
    BY <1>0, SameLogs, Zenon
  <1>10. CompletionsFollowEvents'
    <2>1. \A o \in Outcome : <<a, o>> \notin doneReq
      BY <1>3, Zenon DEF LogInv, CompletionsFollowEvents
    <2>2. phase' \notin {"completing", "replayCompletion"}
      BY <1>1, Zenon
    <2>3. lease'[a] # "completed"
      BY <1>2, Zenon
    <2>4. \A b \in mine' : lease'[b] = "completed" => b \in mine /\ lease[b] = "completed"
      BY <1>0, <1>2, <1>3, <2>3, Zenon
    <2> QED
      BY <1>0, <1>6, <2>1, <2>2, <2>3, <2>4, Zenon DEF LogInv, CompletionsFollowEvents
  <1>11. OutputIsOwned'
    <2>1. \A b \in mine' : lease'[b] # "none"
      BY <1>0, <1>2, <1>3, Zenon DEF LogInv, OutputIsOwned
    <2>2. phase' \in {"preflight"} \cup Executing => att' \in mine'
      BY <1>0, <1>1, Zenon DEF Executing
    <2> QED
      BY <1>0, <2>1, <2>2, Zenon DEF LogInv, OutputIsOwned
  <1>12. ReplayIsDelivered'
    BY <1>0, <1>1, Zenon DEF ReplayIsDelivered, Replaying
  <1> QED
    BY <1>8, <1>9, <1>10, <1>11, <1>12, Zenon DEF LogInv

(* A prefix of what is pending leaves no gap behind it. *)
LEMMA PostLog ==
    ASSUME TypeOK, LogInv, PostEvents
    PROVE  LogInv'
  <1>0. /\ UNCHANGED <<stored, lease, left, mine, doneReq, phase, att, late, replayed>>
        /\ UNCHANGED <<memory, disk, emitted, earlier>>
    BY Zenon DEF PostEvents, serverVars, workVars, journalVars
  <1>1. PICK B \in Batch(Pending(att) \ replayed) : eventReq' = eventReq \cup {<<att, B>>}
    BY Zenon DEF PostEvents
  <1>2. /\ B \subseteq Pending(att) \ replayed
        /\ \A i \in B, k \in Pending(att) \ replayed : k < i => k \in B
    BY Zenon DEF Batch
  <1>3. att \in Attempt /\ phase # "down"
    BY Zenon DEF TypeOK, PostEvents
  <1>4. \A i \in B, k \in Event : k < i => k \in B \/ k \in stored[att]
    <2> SUFFICES ASSUME NEW i \in B, NEW k \in Event, k < i
                 PROVE  k \in B \/ k \in stored[att]
      BY Zenon
    <2>1. i \in Event /\ <<att, i>> \in memory.events
      BY <1>2, Zenon DEF Pending
    <2>2. Has(memory, att, k)
      BY <1>3, <2>1, Zenon DEF LogInv, JournalsAreGood, Good
    <2>3. replayed \subseteq stored[att]
      BY Zenon DEF LogInv, ReplayIsDelivered
    <2> QED
      BY <1>2, <2>2, <2>3, Zenon DEF Has, Pending
  <1>5. BatchesLeaveNoGap'
    <2> SUFFICES ASSUME NEW b \in Attempt, NEW C \in SUBSET Event, <<b, C>> \in eventReq',
                        NEW i \in C, NEW k \in Event, k < i
                 PROVE  k \in C \/ k \in stored[b]
      BY <1>0, Zenon DEF BatchesLeaveNoGap
    <2>1. CASE <<b, C>> \in eventReq
      BY <2>1, Zenon DEF LogInv, BatchesLeaveNoGap
    <2>2. CASE <<b, C>> \notin eventReq
      <3>1. b = att /\ C = B
        BY <1>1, <2>2, Zenon
      <3> QED
        BY <1>4, <3>1, Zenon
    <2> QED
      BY <2>1, <2>2, Zenon
  <1>6. (Fresh' <=> Fresh) /\ \A b : Kept(b)' => Kept(b)
    BY <1>0, Zenon DEF Fresh, Kept, Authorized
  <1>7. JournalsAreGood'
    BY <1>0, <1>3, <1>6, SteadyJournals, Zenon DEF Steady
  <1>8. LogIsPrefix' /\ CompletionsFollowEvents' /\ OutputIsOwned'
    BY <1>0, <1>6, Zenon DEF LogInv, LogIsPrefix, CompletionsFollowEvents, OutputIsOwned
  <1>9. ReplayIsDelivered'
    BY <1>0, Zenon DEF LogInv, ReplayIsDelivered, Pending
  <1> QED
    BY <1>5, <1>7, <1>8, <1>9, Zenon DEF LogInv

(* The completion is journaled behind the output that was appended. *)
LEMMA AppendCompletionLog ==
    ASSUME TypeOK, LogInv, NEW o \in Outcome, AppendCompletion(o)
    PROVE  LogInv'
  <1>0. /\ UNCHANGED <<stored, lease, left, mine, eventReq, doneReq>>
        /\ UNCHANGED <<att, late, replayed, emitted>>
        /\ phase = "finishing" /\ phase' = "draining"
    BY Zenon DEF AppendCompletion, serverVars, netVars
  <1>1. /\ att \in Attempt /\ earlier'[att] = emitted[att]
        /\ \A b \in Attempt : b # att => earlier'[b] = earlier[b]
    BY Zenon DEF AppendCompletion, TypeOK
  <1>2. /\ Fresh /\ ~Fresh' /\ Kept(att)
        /\ \A b : Kept(b)' => Kept(b)
    BY <1>0, Zenon DEF Fresh, Kept, Authorized
  <1>3. att \in mine
    BY <1>0, Zenon DEF LogInv, OutputIsOwned, Executing
  <1>4. ASSUME NEW J, Good(J) PROVE NextGood(J)
    <2>1. \A b, i : NextHas(J, b, i) <=> Has(J, b, i)
      BY <1>0, Zenon DEF Has, NextHas
    <2>2. \A p \in Outcome : <<att, p>> \notin J.done
      BY <1>1, <1>2, <1>4, Zenon DEF Good
    <2> QED
      BY <1>0, <1>1, <1>2, <1>4, <2>1, <2>2, Zenon DEF Good, NextGood
  <1>5. Good(memory) /\ Good(disk)
    BY <1>0 DEF LogInv, JournalsAreGood
  <1>6. NextGood(WithCompletion(att, o))
    <2> DEFINE J == WithCompletion(att, o)
    <2>1. /\ J.events = memory.events
          /\ \A b, p : <<b, p>> \in J.done <=> <<b, p>> \in memory.done \/ (b = att /\ p = o)
      <3>1. \A q \in Outcome :
               /\ WithCompletion(att, q).events = memory.events
               /\ \A b, p : <<b, p>> \in WithCompletion(att, q).done <=>
                      <<b, p>> \in memory.done \/ (b = att /\ p = q)
        BY <1>1, JournalFields, Zenon
      <3> QED
        BY <3>1, Zenon
    <2> HIDE DEF J
    <2>2. \A b, i : NextHas(J, b, i) <=> Has(memory, b, i)
      BY <1>0, <2>1, Zenon DEF Has, NextHas
    <2>3. \A i \in Event : i <= emitted[att] => Has(memory, att, i)
      BY <1>1, <1>2, <1>3, <1>5, Zenon DEF Good
    <2>4. \A b \in Attempt, p \in Outcome : <<b, p>> \in J.done =>
              b \in mine /\ \A i \in Event : i <= earlier'[b] => Has(memory, b, i)
      <3> SUFFICES ASSUME NEW b \in Attempt, NEW p \in Outcome, <<b, p>> \in J.done
                   PROVE  b \in mine /\ \A i \in Event : i <= earlier'[b] => Has(memory, b, i)
        BY Zenon
      <3>1. CASE b = att
        BY <1>1, <1>3, <2>3, <3>1, Zenon
      <3>2. CASE b # att
        BY <1>1, <1>5, <2>1, <3>2, Zenon DEF Good
      <3> QED
        BY <3>1, <3>2, Zenon
    <2>5. NextGood(J)
      BY <1>0, <1>2, <1>5, <2>1, <2>2, <2>4, Zenon DEF Good, NextGood
    <2> QED
      BY <2>5, Zenon DEF J
  <1>7. JournalsAreGood'
    <2>1. /\ memory' \in {memory, WithCompletion(att, o)}
          /\ disk' \in {memory, disk, WithCompletion(att, o)}
      BY Zenon DEF AppendCompletion, Persist, PersistFails
    <2> QED
      BY <1>4, <1>5, <1>6, <2>1, NextJournals, Zenon
  <1>8. BatchesLeaveNoGap' /\ LogIsPrefix'
    BY <1>0, SameLogs, Zenon
  <1>9. CompletionsFollowEvents'
    <2>1. phase' \notin {"completing", "replayCompletion"}
      BY <1>0, Zenon
    <2>2. lease[att] # "completed" /\ \A p \in Outcome : <<att, p>> \notin doneReq
      BY <1>2, Zenon DEF LogInv, CompletionsFollowEvents
    <2>3. \A b \in mine : b \in Attempt
      BY Zenon DEF TypeOK
    <2> QED
      BY <1>0, <1>1, <1>2, <2>1, <2>2, <2>3, Zenon DEF LogInv, CompletionsFollowEvents
  <1>10. OutputIsOwned'
    <2>1. earlier'[att] <= emitted[att]
      BY <1>1 DEF TypeOK
    <2> QED
      BY <1>0, <1>1, <1>3, <2>1, Zenon DEF LogInv, OutputIsOwned
  <1>11. ReplayIsDelivered'
    BY <1>0, Zenon DEF LogInv, ReplayIsDelivered, Replaying
  <1> QED
    BY <1>7, <1>8, <1>9, <1>10, <1>11, Zenon DEF LogInv

(* A completion is sent once its events are stored. *)
LEMMA SendLog ==
    ASSUME TypeOK, LogInv, SendCompletion
    PROVE  LogInv'
  <1>0. /\ UNCHANGED <<stored, lease, left, mine, eventReq, phase, att, late, replayed>>
        /\ UNCHANGED <<memory, disk, emitted, earlier>>
    BY Zenon DEF SendCompletion, serverVars, workVars, journalVars
  <1>1. phase \in {"completing", "replayCompletion"} /\ phase # "down" /\ ~Fresh /\ ~Fresh'
    BY <1>0, Zenon DEF SendCompletion, Fresh
  <1>2. \A a \in Attempt, o \in Outcome : <<a, o>> \in doneReq' =>
            <<a, o>> \in doneReq \/ (a = att /\ <<a, o>> \in memory.done)
    BY DEF SendCompletion
  <1>3. \A o \in Outcome : <<att, o>> \in memory.done => att \in mine
    BY <1>1, Zenon DEF LogInv, JournalsAreGood, Good, TypeOK
  <1>4. \A i \in Event : i <= earlier[att] => i \in stored[att]
    BY <1>1, Zenon DEF LogInv, CompletionsFollowEvents
  <1>5. CompletionsFollowEvents'
    <2>1. \A a \in Attempt, o \in Outcome : <<a, o>> \in doneReq' =>
              a \in mine /\ \A i \in Event : i <= earlier[a] => i \in stored[a]
      BY <1>2, <1>3, <1>4, Zenon DEF LogInv, CompletionsFollowEvents
    <2> QED
      BY <1>0, <1>1, <2>1, Zenon DEF LogInv, CompletionsFollowEvents
  <1>6. \A b : Kept(b)' => Kept(b)
    BY <1>0, Zenon DEF Fresh, Kept, Authorized
  <1>7. JournalsAreGood'
    BY <1>0, <1>1, <1>6, SteadyJournals, Zenon DEF Steady
  <1>8. BatchesLeaveNoGap' /\ LogIsPrefix'
    BY <1>0, SameLogs, Zenon
  <1>9. OutputIsOwned'
    BY <1>0, Zenon DEF LogInv, OutputIsOwned
  <1>10. ReplayIsDelivered'
    BY <1>0, Zenon DEF LogInv, ReplayIsDelivered, Pending
  <1> QED
    BY <1>5, <1>7, <1>8, <1>9, <1>10, Zenon DEF LogInv

(* Acknowledged events leave the journal. *)
LEMMA AckLog ==
    ASSUME TypeOK, LogInv, NEW r \in eventReq, AckEvents(r)
    PROVE  LogInv'
  <1>1. phase \notin {"down"} \cup Replaying
    BY Zenon DEF AckEvents, Replaying
  <1>2. Good(memory) /\ Good(disk)
    BY <1>1, Zenon DEF LogInv, JournalsAreGood
  <1>3. Good(WithoutEvents(att, r[2]))
    BY <1>2, GoodWithoutEvents, Zenon DEF AckEvents, TypeOK
  <1>4. (\E J : Good(J) /\ memory' = J) /\ (\E J : Good(J) /\ disk' = J)
    BY <1>2, <1>3, Zenon DEF AckEvents, Persist, PersistFails
  <1> QED
    BY <1>1, <1>4, JournalLog, Zenon DEF AckEvents, workVars

(* An acknowledged completion leaves it. *)
LEMMA AckCompletionLog ==
    ASSUME TypeOK, LogInv, NEW r \in doneReq, AckCompletion(r)
    PROVE  LogInv'
  <1>1. phase = "completing" /\ phase \notin {"down"} \cup Replaying
    BY Zenon DEF AckCompletion, Replaying
  <1>2. Good(memory) /\ Good(disk)
    BY <1>1, Zenon DEF LogInv, JournalsAreGood
  <1>3. Good(WithoutCompletion(att, r[2]))
    BY <1>2, GoodWithoutCompletion, Zenon DEF TypeOK
  <1>4. CASE /\ Persist(WithoutCompletion(att, r[2])) /\ phase' = "idle"
             /\ UNCHANGED <<att, late, replayed, proc, grace, emitted, earlier>>
    <2>1. UNCHANGED <<serverVars, netVars>>
      BY Zenon DEF AckCompletion
    <2>2. lease' = lease /\ left' = left /\ stored' = stored /\ att' = att /\ late' = late
      BY <1>4, <2>1, Zenon DEF serverVars
    <2>3. ~Fresh' /\ \A a \in mine : Kept(a)' => Kept(a)
      BY <1>4, <2>2, Zenon DEF Fresh, Kept, Authorized
    <2>4. late' \subseteq mine
      BY <2>2, Zenon DEF TypeOK, LogInv, OutputIsOwned
    <2>5. phase' \notin {"preflight"} \cup Executing /\ phase' \notin {"completing", "replayCompletion"}
      BY <1>4, Zenon DEF Executing
    <2>6. ReplayIsDelivered'
      BY <1>1, <1>4, <2>2 DEF LogInv, ReplayIsDelivered, Replaying
    <2>7. (\E J : Good(J) /\ memory' = J) /\ (\E J : Good(J) /\ disk' = J)
      BY <1>3, <1>4, Zenon DEF Persist
    <2> QED
      BY <1>4, <2>1, <2>3, <2>4, <2>5, <2>6, <2>7, MoveLog, Zenon
  <1>5. CASE Exit /\ disk' = WithoutCompletion(att, r[2])
    BY <1>3, <1>5, ExitLog, Zenon DEF AckCompletion
  <1>6. CASE PersistFails(WithoutCompletion(att, r[2])) /\ UNCHANGED <<workVars, emitted, earlier>>
    <2>1. (\E J : Good(J) /\ memory' = J) /\ (\E J : Good(J) /\ disk' = J)
      BY <1>2, <1>3, <1>6, Zenon DEF PersistFails
    <2> QED
      BY <1>1, <1>6, <2>1, JournalLog, Zenon DEF AckCompletion, workVars
  <1> QED
    BY <1>4, <1>5, <1>6, Zenon DEF AckCompletion

(* Nothing pending: all the output of the attempt is stored. *)
LEMMA DrainedLog ==
    ASSUME TypeOK, LogInv, Drained
    PROVE  LogInv'
  <1>0. /\ UNCHANGED <<serverVars, netVars, journalVars, att, late, replayed>>
        /\ phase = "draining" /\ phase' = "completing" /\ Pending(att) = {}
    BY Zenon DEF Drained
  <1>1. /\ lease' = lease /\ left' = left /\ stored' = stored /\ att' = att /\ late' = late
        /\ memory' = memory /\ disk' = disk /\ UNCHANGED <<emitted, earlier>>
    BY <1>0, Zenon DEF serverVars, journalVars
  <1>2. att \in Attempt /\ att \in mine /\ Kept(att)
    BY <1>0, Zenon DEF TypeOK, LogInv, OutputIsOwned, Executing, Kept
  <1>3. Good(memory) /\ Good(disk)
    BY <1>0, Zenon DEF LogInv, JournalsAreGood
  <1>4. \A i \in Event : i <= emitted[att] => i \in stored[att]
    <2>1. \A i \in Event : i <= emitted[att] => Has(memory, att, i)
      BY <1>2, <1>3, Zenon DEF Good
    <2> QED
      BY <1>0, <2>1, Zenon DEF Has, Pending
  <1>5. \A i \in Event : i <= earlier[att] => i <= emitted[att]
    <2>1. earlier[att] <= emitted[att]
      BY <1>2, Zenon DEF LogInv, OutputIsOwned
    <2> QED
      BY <1>2, <2>1 DEF TypeOK, Event
  <1>6. ~Fresh' /\ \A a \in mine : Kept(a)' => Kept(a)
    BY <1>0, <1>1, Zenon DEF Fresh, Kept, Authorized
  <1>7. late' \subseteq mine
    BY <1>1, Zenon DEF TypeOK, LogInv, OutputIsOwned
  <1>8. ReplayIsDelivered'
    BY <1>0, <1>1, Zenon DEF LogInv, ReplayIsDelivered, Replaying
  <1> QED
    BY <1>0, <1>1, <1>2, <1>3, <1>4, <1>5, <1>6, <1>7, <1>8, MoveLog, Zenon

(* A process starts or returns. *)
LEMMA ProcessLog ==
    ASSUME TypeOK, LogInv, UNCHANGED <<serverVars, netVars, journalVars, att, replayed>>,
           \/ phase = "preflight" /\ phase' = "executing" /\ late' = late
           \/ phase = "executing" /\ phase' = "finishing" /\ late' \in {late, late \cup {att}}
    PROVE  LogInv'
  <1>1. /\ lease' = lease /\ left' = left /\ stored' = stored /\ att' = att
        /\ memory' = memory /\ disk' = disk /\ UNCHANGED <<emitted, earlier>>
    BY Zenon DEF serverVars, journalVars
  <1>2. att \in mine /\ Fresh /\ Kept(att)
    BY Zenon DEF LogInv, OutputIsOwned, Executing, Kept, Fresh
  <1>3. Good(memory) /\ Good(disk)
    BY Zenon DEF LogInv, JournalsAreGood
  <1>4. \A a \in mine : Kept(a)' => Kept(a)
    <2>1. \A a \in late' : a = att \/ a \in late
      BY Zenon
    <2> QED
      BY <1>1, <1>2, <2>1, Zenon DEF Kept, Authorized
  <1>5. late' \subseteq mine
    BY <1>2, Zenon DEF TypeOK, LogInv, OutputIsOwned
  <1>6. phase' \notin {"completing", "replayCompletion"}
    BY Zenon
  <1>7. ReplayIsDelivered'
    BY <1>1 DEF LogInv, ReplayIsDelivered, Replaying
  <1> QED
    BY <1>1, <1>2, <1>3, <1>4, <1>5, <1>6, <1>7, MoveLog, Zenon

LEMMA WorkLog ==
    ASSUME TypeOK, LogInv, Work
    PROVE  LogInv'
  <1>0. \A a \in late : a \in mine /\ Kept(a) /\ phase \notin {"down"} \cup Replaying
    BY Zenon DEF TypeOK, LogInv, OutputIsOwned, ReplayIsDelivered, Kept
  <1>1. ASSUME NEW a \in Attempt, LateEmit(a)
        PROVE  LogInv'
    <2>1. CASE AppendEvent(a) /\ late' = late
      BY <1>0, <1>1, <2>1, AppendLog, Zenon DEF LateEmit, workVars
    <2>2. CASE AppendEventFails(a) /\ late' = late \ {a}
      BY <1>0, <1>1, <2>2, AppendFailsLog, Zenon DEF LateEmit
    <2> QED
      BY <1>1, <2>1, <2>2, Zenon DEF LateEmit
  <1>2. ASSUME NEW a \in Attempt, LateReturns(a)
        PROVE  LogInv'
    <2>1. lease' = lease /\ left' = left /\ stored' = stored /\ mine' = mine /\ late' \subseteq late
      BY <1>2, Zenon DEF LateReturns, serverVars
    <2>2. \A b \in mine : lease[b] # "none" /\ (Authorized(b)' => Authorized(b))
      BY <2>1, Zenon DEF Authorized, LogInv, OutputIsOwned
    <2> QED
      BY <1>2, <2>1, <2>2, QuietLog, Zenon DEF LateReturns
  <1>3. CASE RenewLease
    <2>1. /\ Authorized(att) /\ lease' = lease /\ stored' = stored /\ mine' = mine
          /\ UNCHANGED <<netVars, workVars, journalVars>>
      BY <1>3, Zenon DEF RenewLease
    <2>2. \A b \in Attempt : b # att => left'[b] = left[b]
      BY <1>3, Zenon DEF RenewLease, TypeOK
    <2>3. \A b \in mine : lease[b] # "none" /\ (Authorized(b)' => Authorized(b))
      BY <2>1, <2>2, Zenon DEF Authorized, LogInv, OutputIsOwned, TypeOK
    <2> QED
      BY <2>1, <2>3, QuietLog, Zenon DEF workVars
  <1>4. CASE RenewAnswer
    <2>0. UNCHANGED <<serverVars, netVars, journalVars, att, late, replayed>>
      BY <1>4, Zenon DEF RenewAnswer
    <2>1. CASE phase = "preflight"
      <3>1. phase' = "executing"
        BY <1>4, <2>1, Zenon DEF RenewAnswer
      <3> QED
        BY <2>0, <2>1, <3>1, ProcessLog, Zenon
    <2>2. CASE phase = "replayRenew"
      <3>1. phase' = "replayEvents"
        BY <1>4, <2>2, Zenon DEF RenewAnswer
      <3>2. /\ lease' = lease /\ left' = left /\ stored' = stored /\ att' = att /\ late' = late
            /\ memory' = memory /\ disk' = disk /\ UNCHANGED <<emitted, earlier>>
        BY <2>0, Zenon DEF serverVars, journalVars
      <3>3. ~Fresh' /\ \A a \in mine : Kept(a)' => Kept(a)
        BY <3>1, <3>2, Zenon DEF Fresh, Kept, Authorized
      <3>4. late' \subseteq mine
        BY <3>2, Zenon DEF TypeOK, LogInv, OutputIsOwned
      <3>5. phase' \notin {"preflight"} \cup Executing /\ phase' \notin {"completing", "replayCompletion"}
        BY <3>1, Zenon DEF Executing
      <3>6. ReplayIsDelivered'
        BY <2>0, <2>2, <3>1, <3>2, Zenon DEF LogInv, ReplayIsDelivered, Replaying
      <3>7. Good(memory) /\ Good(disk)
        BY <2>2, Zenon DEF LogInv, JournalsAreGood
      <3> QED
        BY <2>0, <3>2, <3>3, <3>4, <3>5, <3>6, <3>7, MoveLog, Zenon
    <2>3. CASE phase \notin {"preflight", "replayRenew"}
      <3>1. phase' = phase
        BY <1>4, <2>3, Zenon DEF RenewAnswer
      <3> QED
        BY <2>0, <3>1, RestLog, Zenon DEF workVars
    <2> QED
      BY <2>1, <2>2, <2>3, Zenon
  <1>5. CASE \/ AuthorityRefused \/ \E r \in eventReq : EventsRefused(r)
             \/ \E r \in doneReq : CompletionRefused(r)
    BY <1>5, RestLog, Zenon DEF AuthorityRefused, EventsRefused, CompletionRefused
  <1>6. CASE Emit
    <2>1. att \in mine /\ Kept(att) /\ phase \notin {"down"} \cup Replaying
      BY <1>6, Zenon DEF Emit, LogInv, OutputIsOwned, Executing, Kept, Fresh, Replaying
    <2>2. CASE AppendEvent(att)
      BY <1>6, <2>1, <2>2, AppendLog, Zenon DEF Emit
    <2>3. CASE AppendEventFails(att)
      BY <1>6, <2>1, <2>3, AppendFailsLog, Zenon DEF Emit, workVars
    <2> QED
      BY <1>6, <2>2, <2>3, Zenon DEF Emit
  <1>7. CASE ProcessReturns
    BY <1>7, ProcessLog, Zenon DEF ProcessReturns
  <1>8. CASE GiveUp
    BY <1>8, ExitKeepsLog, Zenon DEF GiveUp
  <1> QED
    BY <1>1, <1>2, <1>3, <1>4, <1>5, <1>6, <1>7, <1>8, ClaimLog, PostLog, AckLog,
       AppendCompletionLog, DrainedLog, SendLog, AckCompletionLog, Zenon DEF Work

-----------------------------------------------------------------------------
(* The startup replay. *)

(* A step between the phases of the replay, which leaves the file alone. *)
LEMMA ReplayMoveLog ==
    ASSUME TypeOK, LogInv, UNCHANGED <<serverVars, netVars, late, emitted, earlier>>,
           phase' \in {"startup", "idle"} \cup Replaying, late = {},
           \E J : Good(J) /\ memory' = J, \E J : Good(J) /\ disk' = J,
           phase' = "replayCompletion" =>
               \A i \in Event : i <= earlier[att'] => i \in stored[att'],
           phase' \notin Replaying => replayed' = {},
           replayed' \subseteq stored[att'],
           phase' \in {"replayCompletion", "replayDiscard"} => Pending(att)' \subseteq replayed'
    PROVE  LogInv'
  <1>1. lease' = lease /\ left' = left /\ stored' = stored /\ late' = {}
    BY Zenon DEF serverVars
  <1>2. phase' \notin {"preflight", "completing", "down", "draining"} \cup Executing /\ ~Fresh'
    BY Zenon DEF Executing, Replaying, Fresh
  <1>3. \A a \in mine : Kept(a)' => Kept(a)
    BY <1>1, <1>2, Zenon DEF Kept, Authorized
  <1>4. ReplayIsDelivered'
    BY <1>1, Zenon DEF ReplayIsDelivered
  <1>5. /\ late' \subseteq mine
        /\ phase' \in {"preflight"} \cup Executing => att' \in mine
        /\ phase' \in {"completing", "replayCompletion"} =>
               \A i \in Event : i <= earlier[att'] => i \in stored[att']
    BY <1>1, <1>2, Zenon
  <1> QED
    BY <1>2, <1>3, <1>4, <1>5, MoveLog, Zenon

(* Only a dead or a delivered attempt is discarded. *)
LEMMA DiscardLog ==
    ASSUME TypeOK, LogInv, NEW a \in Attempt, phase \in {"startup"} \cup Replaying, Discard(a),
           a \in mine /\ Kept(a) => \A i \in Event : i <= emitted[a] => i \in stored[a]
    PROVE  LogInv'
  <1>1. Good(memory) /\ Good(disk) /\ late = {}
    BY Zenon DEF LogInv, JournalsAreGood, ReplayIsDelivered, Replaying
  <1>2. Good(WithoutAttempt(a))
    BY <1>1, GoodWithoutAttempt, Zenon
  <1>3. CASE Exit /\ disk' \in {disk, WithoutAttempt(a)}
    BY <1>1, <1>2, <1>3, ExitLog, Zenon DEF Discard
  <1>4. CASE /\ Persist(WithoutAttempt(a)) /\ phase' = "startup" /\ replayed' = {}
             /\ UNCHANGED <<att, late, proc, grace, emitted, earlier>>
    <2>1. (\E J : Good(J) /\ memory' = J) /\ (\E J : Good(J) /\ disk' = J)
      BY <1>2, <1>4, Zenon DEF Persist
    <2>2. /\ phase' \in {"startup", "idle"} \cup Replaying /\ phase' # "replayCompletion"
          /\ phase' \notin {"replayCompletion", "replayDiscard"}
      BY <1>4, Zenon
    <2>3. replayed' \subseteq stored[att']
      BY <1>4, Zenon
    <2>4. UNCHANGED <<serverVars, netVars, late, emitted, earlier>>
      BY <1>4, Zenon DEF Discard
    <2> QED
      BY <1>1, <1>4, <2>1, <2>2, <2>3, <2>4, ReplayMoveLog, Zenon
  <1> QED
    BY <1>3, <1>4, Zenon DEF Discard

(* The replay is over when the journal's events of the attempt are stored. *)
LEMMA ReplayDoneLog ==
    ASSUME TypeOK, LogInv, ReplayEventsDone
    PROVE  LogInv'
  <1>0. /\ UNCHANGED <<serverVars, netVars, journalVars, att, late, replayed>>
        /\ phase = "replayEvents" /\ Pending(att) \subseteq replayed
    BY Zenon DEF ReplayEventsDone
  <1>1. /\ stored' = stored /\ att' = att /\ replayed' = replayed
        /\ memory' = memory /\ disk' = disk /\ UNCHANGED <<emitted, earlier>>
    BY <1>0, Zenon DEF serverVars, journalVars
  <1>2. Good(memory) /\ Good(disk) /\ late = {} /\ att \in Attempt
    BY <1>0, Zenon DEF LogInv, JournalsAreGood, ReplayIsDelivered, Replaying, TypeOK
  <1>3. phase' \in {"replayCompletion", "replayDiscard"} /\ phase' \in Replaying
    BY Zenon DEF ReplayEventsDone, Replaying
  <1>4. Pending(att) \subseteq stored[att] /\ replayed \subseteq stored[att]
    BY <1>0, Zenon DEF LogInv, ReplayIsDelivered
  <1>5. phase' = "replayCompletion" => \E o \in Outcome : <<att, o>> \in memory.done
    <2>1. phase' = "replayCompletion" => \E d \in memory.done : d[1] = att
      BY Zenon DEF ReplayEventsDone
    <2>2. memory.done \subseteq Attempt \X Outcome
      BY DEF TypeOK, Journal
    <2> QED
      BY <2>1, <2>2
  <1>6. phase' = "replayCompletion" => \A i \in Event : i <= earlier[att] => i \in stored[att]
    <2>1. phase' = "replayCompletion" => \A i \in Event : i <= earlier[att] => Has(memory, att, i)
      BY <1>2, <1>5, Zenon DEF Good
    <2> QED
      BY <1>4, <2>1, Zenon DEF Has, Pending
  <1>7. Pending(att)' \subseteq replayed'
    BY <1>0, <1>1, Zenon DEF Pending
  <1> QED
    BY <1>0, <1>1, <1>2, <1>3, <1>4, <1>6, <1>7, ReplayMoveLog, Zenon

LEMMA ReplayLog ==
    ASSUME TypeOK, LogInv, Replay
    PROVE  LogInv'
  <1>1. CASE Restart
    <2>1. /\ phase = "down" /\ phase' = "startup" /\ memory' = disk /\ disk' = disk
          /\ UNCHANGED <<serverVars, netVars, late, replayed, att, emitted, earlier>>
      BY <1>1, Zenon DEF Restart
    <2>2. late = {} /\ replayed = {} /\ Good(disk)
      BY <2>1, Zenon DEF LogInv, ReplayIsDelivered, JournalsAreGood, Replaying
    <2>3. phase' \in {"startup", "idle"} \cup Replaying /\ phase' \notin {"replayCompletion", "replayDiscard"}
      BY <2>1, Zenon
    <2> QED
      BY <2>1, <2>2, <2>3, ReplayMoveLog, Zenon
  <1>2. CASE Reconciled
    <2>1. /\ phase = "startup" /\ phase' = "idle"
          /\ UNCHANGED <<serverVars, netVars, late, replayed, att, journalVars>>
      BY <1>2, Zenon DEF Reconciled
    <2>2. late = {} /\ replayed = {} /\ Good(disk) /\ Good(memory)
      BY <2>1, Zenon DEF LogInv, ReplayIsDelivered, JournalsAreGood, Replaying
    <2>3. phase' \in {"startup", "idle"} \cup Replaying /\ phase' \notin {"replayCompletion", "replayDiscard"}
      BY <2>1, Zenon
    <2> QED
      BY <2>1, <2>2, <2>3, ReplayMoveLog, Zenon DEF journalVars
  <1>3. ASSUME NEW a \in Attempt, ReplayAuthorized(a)
        PROVE  LogInv'
    <2>1. phase = "startup" /\ UNCHANGED <<serverVars, netVars, late, replayed, journalVars>>
      BY <1>3, Zenon DEF ReplayAuthorized
    <2>2. late = {} /\ replayed = {} /\ Good(disk) /\ Good(memory)
      BY <2>1, Zenon DEF LogInv, ReplayIsDelivered, JournalsAreGood, Replaying
    <2>3. phase' \in {"startup", "idle"} \cup Replaying /\ phase' \notin {"replayCompletion", "replayDiscard"}
      BY <1>3, Zenon DEF ReplayAuthorized, Replaying
    <2> QED
      BY <2>1, <2>2, <2>3, ReplayMoveLog, Zenon DEF journalVars
  <1>4. ASSUME NEW a \in Attempt, ReplayFenced(a)
        PROVE  LogInv'
    <2>1. phase = "startup" /\ ~Kept(a)
      BY <1>4, Zenon DEF ReplayFenced, LogInv, ReplayIsDelivered, Kept, Fresh
    <2> QED
      BY <1>4, <2>1, DiscardLog, Zenon DEF ReplayFenced
  <1>5. ASSUME NEW r \in eventReq, ReplayEventsAcked(r)
        PROVE  LogInv'
    <2>1. /\ phase = "replayEvents" /\ phase' = phase /\ att' = att /\ r[2] \subseteq stored[att]
          /\ replayed' = replayed \cup r[2] /\ UNCHANGED <<serverVars, netVars, late, journalVars>>
      BY <1>5, Zenon DEF ReplayEventsAcked
    <2>2. late = {} /\ replayed \subseteq stored[att] /\ Good(disk) /\ Good(memory)
      BY <2>1, Zenon DEF LogInv, ReplayIsDelivered, JournalsAreGood, Replaying
    <2>3. phase' \in Replaying /\ phase' \notin {"replayCompletion", "replayDiscard"}
      BY <2>1, Zenon DEF Replaying
    <2>4. replayed' \subseteq stored[att']
      BY <2>1, <2>2, Zenon
    <2> QED
      BY <2>1, <2>2, <2>3, <2>4, ReplayMoveLog, Zenon DEF journalVars
  <1>6. ASSUME NEW r \in doneReq, ReplayCompletionAcked(r)
        PROVE  LogInv'
    <2>1. /\ phase = "replayCompletion" /\ phase' = "replayDiscard" /\ att' = att
          /\ UNCHANGED <<serverVars, netVars, late, replayed, journalVars>>
      BY <1>6, Zenon DEF ReplayCompletionAcked
    <2>2. /\ late = {} /\ replayed \subseteq stored[att] /\ Good(disk) /\ Good(memory)
          /\ Pending(att) \subseteq replayed
      BY <2>1, Zenon DEF LogInv, ReplayIsDelivered, JournalsAreGood, Replaying
    <2>3. phase' \in Replaying /\ phase' # "replayCompletion"
      BY <2>1, Zenon DEF Replaying
    <2>4. Pending(att)' \subseteq replayed'
      BY <2>1, <2>2, Zenon DEF Pending, journalVars
    <2> QED
      BY <2>1, <2>2, <2>3, <2>4, ReplayMoveLog, Zenon DEF journalVars
  <1>7. CASE ReplayDiscard
    <2>1. phase = "replayDiscard" /\ phase \in {"startup"} \cup Replaying /\ Discard(att)
      BY <1>7, Zenon DEF ReplayDiscard, Replaying
    <2>2. att \in Attempt /\ Good(memory) /\ Pending(att) \subseteq stored[att]
      BY <2>1, Zenon DEF LogInv, JournalsAreGood, ReplayIsDelivered, TypeOK
    <2>3. att \in mine /\ Kept(att) => \A i \in Event : i <= emitted[att] => i \in stored[att]
      BY <2>2, Zenon DEF Good, Has, Pending
    <2> QED
      BY <2>1, <2>2, <2>3, DiscardLog, Zenon
  <1>8. CASE ReplayFails
    BY <1>8, ExitKeepsLog, Zenon DEF ReplayFails
  <1> QED
    BY <1>1, <1>2, <1>3, <1>4, <1>5, <1>6, <1>7, <1>8, ReplayDoneLog, Zenon DEF Replay

-----------------------------------------------------------------------------
LEMMA LogStep == TypeOK /\ LogInv /\ [Next]_vars => LogInv'
  <1> SUFFICES ASSUME TypeOK, LogInv, [Next]_vars PROVE LogInv'
    BY Zenon
  <1>1. CASE UNCHANGED vars
    BY <1>1, RestLog, Zenon DEF vars
  <1> QED
    BY <1>1, ServerLog, WorkLog, SupervisionLog, ReplayLog, Zenon DEF Next

LEMMA LogInit == Init => LogInv
  <1> SUFFICES ASSUME Init PROVE LogInv
    BY Zenon
  <1>1. Good(disk)
    BY Zenon DEF Init, Good, Has, EmptyJournal
  <1>2. JournalsAreGood /\ BatchesLeaveNoGap /\ LogIsPrefix /\ ReplayIsDelivered
    BY <1>1, Zenon DEF Init, JournalsAreGood, BatchesLeaveNoGap, LogIsPrefix, ReplayIsDelivered,
        Replaying
  <1>3. CompletionsFollowEvents
    BY Zenon DEF Init, CompletionsFollowEvents, Fresh
  <1>4. OutputIsOwned
    BY DEF Init, OutputIsOwned, Executing
  <1> QED
    BY <1>2, <1>3, <1>4, Zenon DEF LogInv

(* The invariant of the logs holds throughout. *)
THEOREM LogInvariance == Spec => []LogInv
  BY TypeCorrect, LogInit, LogStep, PTL DEF Spec

(* run_logs holds a prefix of what the runner journaled: no retry, delay,  *)
(* repetition, crash or replay leaves a gap (flushOnce, replay.go,         *)
(* CreateRunLogsForLease).                                                 *)
THEOREM LogIsAlwaysPrefix == Spec => []LogIsPrefix
  BY LogInvariance, PTL DEF LogInv

(* A lease is completed only after the output journaled before its         *)
(* completion is stored (completeReportedAttempt, replayAttempt).          *)
THEOREM CompletionIsAlwaysLast == Spec => []CompletionIsLast
  <1>1. TypeOK /\ LogInv => CompletionIsLast
    <2> SUFFICES ASSUME TypeOK, LogInv, NEW a \in mine, lease[a] = "completed"
                 PROVE  1..earlier[a] \subseteq stored[a]
      BY Zenon DEF CompletionIsLast
    <2>1. \A i \in Event : i <= earlier[a] => i \in stored[a]
      BY Zenon DEF LogInv, CompletionsFollowEvents
    <2>2. \A i \in 1..earlier[a] : i \in Event /\ i <= earlier[a]
      BY SizeAssumption DEF TypeOK, Event
    <2> QED
      BY <2>1, <2>2, Zenon
  <1> QED
    BY <1>1, LogInvariance, TypeCorrect, PTL

(* While the lease lives, an event that was journaled is stored or still   *)
(* in the journal's file, across crashes and failed writes.                *)
THEOREM NothingIsDropped == Spec => []NothingDropped
  <1>1. TypeOK /\ LogInv => NothingDropped
    <2> SUFFICES ASSUME TypeOK, LogInv, NEW a \in mine, Authorized(a), NEW i \in 1..emitted[a]
                 PROVE  i \in stored[a] \/ <<a, i>> \in disk.events
      BY Zenon DEF NothingDropped
    <2>1. i \in Event /\ i <= emitted[a] /\ a \in Attempt
      BY SizeAssumption DEF TypeOK, Event
    <2> QED
      BY <2>1, Zenon DEF LogInv, JournalsAreGood, Good, Has, Kept
  <1> QED
    BY <1>1, LogInvariance, TypeCorrect, PTL
=============================================================================
