--------------------------- MODULE RunnerAttempts ---------------------------
(***************************************************************************)
(* One runner executing the attempts of one generic run over an unreliable *)
(* network: internal/runnerruntime/runtime.go and replay.go, the journal   *)
(* of internal/runner/journal.go, the process group of executor.go, and    *)
(* what the server does with the runner's requests (CreateRunLogsForLease, *)
(* CompleteLeaseRequest, RenewLease and the sweep of RunLeases).           *)
(*                                                                         *)
(* A request stays deliverable once it is sent, so it can arrive late and  *)
(* more than once.  The server stores a batch in one transaction and       *)
(* answers a repeat of what it already holds, so an answer can be received *)
(* exactly when its effect is in the tables; a lost answer is one that is  *)
(* not received.                                                           *)
(*                                                                         *)
(* Time is what is left: of each lease at the server, of the deadline the  *)
(* runner knows, of the deadline a renewal's answer carries, and of the    *)
(* termination grace of a canceled process.  The clocks run at one rate.   *)
(***************************************************************************)
EXTENDS Naturals, FiniteSets

CONSTANTS MaxAttempt,   \* bound on the claims of the run
          MaxEvent,     \* bound on the output events of one attempt
          Outcome,      \* completion statuses
          BatchCount,   \* runnerEventBatchCount
          JournalMax,   \* journalMaxEntries
          TTL,          \* lease duration
          Margin,       \* what the supervisor keeps of a lease
          Grace         \* processTerminationGrace

ASSUME SizeAssumption ==
    /\ MaxAttempt \in Nat \ {0} /\ MaxEvent \in Nat \ {0}
    /\ BatchCount \in Nat \ {0} /\ JournalMax \in Nat

(* Half a second of grace, at least a second of margin. *)
ASSUME ClockAssumption ==
    TTL \in Nat /\ Margin \in Nat /\ Grace \in Nat /\ Grace < Margin /\ Margin < TTL

VARIABLES lease,      \* run_leases.status of each attempt
          left,       \* time until run_leases.expires_at
          mine,       \* the attempts that this runner claimed
          open,       \* the run has not ended
          stored,     \* the events of each attempt in run_logs
          completion, \* run_leases.status of a completed attempt
          eventReq,   \* event batches sent: <<attempt, events>>
          doneReq,    \* completions sent: <<attempt, outcome>>
          phase,      \* where RunContext is
          att,        \* the attempt it works on
          deadline,   \* time until the supervisor's expiry
          answer,     \* time until the expiry in a renewal's answer
          canceled,   \* the supervisor's context is done
          fatal,      \* the reporter has failed
          late,       \* attempts whose output callback outlived the process
          proc,       \* the process group: "none", "running" or "stopping"
          grace,      \* time until a stopping group is killed
          memory,     \* the journal's state in the process
          disk,       \* the journal's file
          emitted,    \* how many events were appended, by attempt
          earlier,    \* how many when the completion was appended
          replayed    \* events the startup replay has delivered

serverVars == <<lease, left, mine, open, stored, completion>>

netVars == <<eventReq, doneReq>>

workVars == <<phase, att, late, replayed>>

superVars == <<deadline, answer, canceled, fatal, proc, grace>>

journalVars == <<memory, disk, emitted, earlier>>

vars == <<serverVars, netVars, workVars, superVars, journalVars>>

Attempt == 1..MaxAttempt

Event == 1..MaxEvent

Journal == [events : SUBSET (Attempt \X Event), done : SUBSET (Attempt \X Outcome)]

EmptyJournal == [events |-> {}, done |-> {}]

Executing == {"executing", "finishing", "draining", "completing"}

Replaying == {"replayRenew", "replayEvents", "replayCompletion", "replayDiscard"}

Phase == {"down", "startup", "idle", "preflight"} \cup Executing \cup Replaying

TypeOK ==
    /\ lease \in [Attempt -> {"none", "active", "over", "completed"}]
    /\ left \in [Attempt -> 0..TTL]
    /\ mine \subseteq Attempt /\ open \in BOOLEAN
    /\ stored \in [Attempt -> SUBSET Event]
    /\ completion \in [Attempt -> Outcome \cup {"none"}]
    /\ eventReq \subseteq Attempt \X SUBSET Event
    /\ doneReq \subseteq Attempt \X Outcome
    /\ phase \in Phase /\ att \in Attempt
    /\ deadline \in 0..TTL /\ answer \in 0..TTL
    /\ canceled \in BOOLEAN /\ fatal \in BOOLEAN /\ late \subseteq Attempt
    /\ proc \in {"none", "running", "stopping"} /\ grace \in 0..Grace
    /\ memory \in Journal /\ disk \in Journal
    /\ emitted \in [Attempt -> 0..MaxEvent] /\ earlier \in [Attempt -> 0..MaxEvent]
    /\ replayed \subseteq Event

Init ==
    /\ lease = [a \in Attempt |-> "none"]
    /\ left = [a \in Attempt |-> 0]
    /\ mine = {} /\ open = TRUE
    /\ stored = [a \in Attempt |-> {}]
    /\ completion = [a \in Attempt |-> "none"]
    /\ eventReq = {} /\ doneReq = {}
    /\ phase = "down" /\ att = 1
    /\ deadline = 0 /\ answer = 0
    /\ canceled = FALSE /\ fatal = FALSE /\ late = {}
    /\ proc = "none" /\ grace = 0
    /\ memory = EmptyJournal /\ disk = EmptyJournal
    /\ emitted = [a \in Attempt |-> 0] /\ earlier = [a \in Attempt |-> 0]
    /\ replayed = {}

-----------------------------------------------------------------------------
(* The server. *)

(* LockAuthorizedLease, RenewAuthorizedLease, CompleteAuthorizedLease and
   GetActiveLeaseForRunner all ask for an active lease that has not expired. *)
Authorized(a) == lease[a] = "active" /\ left[a] > 0

(* An attempt that the sweep gave up is followed by the next one. *)
Claimable(a) ==
    /\ open /\ lease[a] = "none"
    /\ \A b \in Attempt : b < a => lease[b] = "over"

Grant(a) ==
    /\ Claimable(a)
    /\ lease' = [lease EXCEPT ![a] = "active"]
    /\ left' = [left EXCEPT ![a] = TTL]
    /\ UNCHANGED <<open, stored, completion>>

(* Another runner's attempt: claimed, renewed, completed. *)
OtherRunner(a) ==
    /\ \/ Grant(a)
       \/ /\ a \notin mine /\ Authorized(a)
          /\ left' = [left EXCEPT ![a] = TTL]
          /\ UNCHANGED <<lease, open, stored, completion>>
       \/ /\ a \notin mine /\ Authorized(a)
          /\ lease' = [lease EXCEPT ![a] = "completed"]
          /\ open' = FALSE
          /\ UNCHANGED <<left, stored, completion>>
    /\ UNCHANGED <<mine, netVars, workVars, superVars, journalVars>>

(* The sweep requeues the run of an expired lease. *)
Expire(a) ==
    /\ lease[a] = "active" /\ left[a] = 0
    /\ lease' = [lease EXCEPT ![a] = "over"]
    /\ UNCHANGED <<left, mine, open, stored, completion>>
    /\ UNCHANGED <<netVars, workVars, superVars, journalVars>>

(* A user cancels the run: its active lease ends with it. *)
CancelRun ==
    /\ open
    /\ open' = FALSE
    /\ lease' = [a \in Attempt |-> IF lease[a] = "active" THEN "over" ELSE lease[a]]
    /\ UNCHANGED <<left, mine, stored, completion>>
    /\ UNCHANGED <<netVars, workVars, superVars, journalVars>>

(* CreateRunLogsForLease: one transaction per batch; an event whose key is
   there already is skipped. *)
StoreEvents(r) ==
    /\ Authorized(r[1])
    /\ stored' = [stored EXCEPT ![r[1]] = @ \cup r[2]]
    /\ UNCHANGED <<lease, left, mine, open, completion>>
    /\ UNCHANGED <<netVars, workVars, superVars, journalVars>>

(* CompleteLeaseRequest with the runner's completion key. *)
CompleteLease(r) ==
    /\ Authorized(r[1])
    /\ lease' = [lease EXCEPT ![r[1]] = "completed"]
    /\ completion' = [completion EXCEPT ![r[1]] = r[2]]
    /\ open' = FALSE
    /\ UNCHANGED <<left, mine, stored>>
    /\ UNCHANGED <<netVars, workVars, superVars, journalVars>>

-----------------------------------------------------------------------------
(* The journal: a record is in memory only once it is durable, and a failed
   write may still have replaced the file. *)

Persist(j) == memory' = j /\ disk' = j

PersistFails(j) == memory' = memory /\ disk' \in {disk, j}

Entries(j) == Cardinality(j.events) + Cardinality(j.done)

WithEvent(a, i) == [memory EXCEPT !.events = @ \cup {<<a, i>>}]

WithCompletion(a, o) == [memory EXCEPT !.done = @ \cup {<<a, o>>}]

WithoutPending(a, B) == [memory EXCEPT !.events = {e \in @ : e[1] # a}]

WithoutEvents(a, B) == [memory EXCEPT !.events = @ \ {<<a, i>> : i \in B}]

WithoutCompletion(a, o) == [memory EXCEPT !.done = @ \ {<<a, o>>}]

WithoutAttempt(a) ==
    [events |-> {e \in memory.events : e[1] # a}, done |-> {d \in memory.done : d[1] # a}]

Pending(a) == {i \in Event : <<a, i>> \in memory.events}

Journaled == {e[1] : e \in memory.events} \cup {d[1] : d \in memory.done}

-----------------------------------------------------------------------------
(* The supervisor. *)

Supervised == phase \in {"preflight"} \cup Executing \cup Replaying

(* supervisor.cancel: the process group is told to stop. *)
Stop ==
    /\ canceled' = TRUE
    /\ proc' = IF proc = "running" THEN "stopping" ELSE proc
    /\ grace' = IF proc = "running" THEN Grace ELSE grace
    /\ UNCHANGED <<deadline, answer>>

(* The runner process ends: only the journal's file survives it. *)
Exit ==
    /\ phase' = "down" /\ late' = {} /\ replayed' = {}
    /\ deadline' = 0 /\ answer' = 0 /\ canceled' = FALSE /\ fatal' = FALSE
    /\ proc' = "none" /\ grace' = 0
    /\ memory' = EmptyJournal
    /\ UNCHANGED <<att, emitted, earlier>>

Less(n) == IF n = 0 THEN 0 ELSE n - 1

GuardDueAtExpiry == Supervised /\ ~canceled /\ deadline = 0

GuardDue == Supervised /\ ~canceled /\ deadline <= Margin

KillDue == proc = "stopping" /\ grace = 0

(* Time passes, but not past the watchdog's timer or the kill. *)
Tick ==
    /\ ~GuardDue /\ ~KillDue
    /\ left' = [a \in Attempt |-> Less(left[a])]
    /\ deadline' = Less(deadline) /\ answer' = Less(answer) /\ grace' = Less(grace)
    /\ UNCHANGED <<lease, mine, open, stored, completion, netVars, workVars>>
    /\ UNCHANGED <<canceled, fatal, proc, journalVars>>

Watchdog ==
    /\ GuardDue
    /\ Stop /\ UNCHANGED fatal
    /\ UNCHANGED <<serverVars, netVars, workVars, journalVars>>

(* The group stops on SIGTERM, or is killed when its grace is over. *)
ProcessStops ==
    /\ proc = "stopping"
    /\ proc' = "none" /\ grace' = 0
    /\ UNCHANGED <<deadline, answer, canceled, fatal>>
    /\ UNCHANGED <<serverVars, netVars, workVars, journalVars>>

-----------------------------------------------------------------------------
(* An attempt, from its claim to its completion. *)

(* RunContext claims; when the answer is lost it returns the error. *)
ClaimRun(a) ==
    /\ phase = "idle"
    /\ Grant(a) /\ mine' = mine \cup {a}
    /\ \/ /\ phase' = "preflight" /\ att' = a /\ deadline' = TTL
          /\ answer' = 0 /\ canceled' = FALSE /\ fatal' = FALSE
          /\ UNCHANGED <<late, replayed, proc, grace, journalVars>>
       \/ Exit /\ UNCHANGED disk
    /\ UNCHANGED netVars

(* The server renews; the answer is on its way. *)
RenewLease ==
    /\ phase \in {"preflight", "executing", "finishing", "draining", "replayRenew"}
    /\ ~canceled /\ Authorized(att)
    /\ left' = [left EXCEPT ![att] = TTL]
    /\ answer' = TTL
    /\ UNCHANGED <<lease, mine, open, stored, completion, netVars, workVars>>
    /\ UNCHANGED <<deadline, canceled, fatal, proc, grace, journalVars>>

(* supervisor.Update keeps the later expiry. *)
AddExpiry(m, n) == m + n

Later(m, n) == IF n > m THEN n ELSE m

(* The first answer starts the work of the attempt, or the replay of its
   events. *)
RenewAnswer ==
    /\ answer > 0 /\ ~canceled
    /\ deadline' = Later(deadline, answer)
    /\ answer' = 0
    /\ phase' = CASE phase = "preflight" -> "executing"
                  [] phase = "replayRenew" -> "replayEvents"
                  [] OTHER -> phase
    /\ proc' = IF phase = "preflight" THEN "running" ELSE proc
    /\ UNCHANGED <<att, late, replayed, canceled, fatal, grace>>
    /\ UNCHANGED <<serverVars, netVars, journalVars>>

(* The renewer, or the watcher that polls the lease, is refused. *)
AuthorityRefused ==
    /\ phase \in {"executing", "finishing", "draining"}
    /\ ~canceled /\ ~Authorized(att)
    /\ Stop /\ UNCHANGED fatal
    /\ UNCHANGED <<serverVars, netVars, workVars, journalVars>>

(* Output of attempt a is appended to the journal before it is sent. *)
AppendEvent(a) ==
    /\ Entries(memory) < JournalMax
    /\ emitted[a] < MaxEvent
    /\ emitted' = [emitted EXCEPT ![a] = @ + 1]
    /\ Persist(WithEvent(a, emitted[a] + 1))
    /\ UNCHANGED earlier

AppendEventFails(a) ==
    /\ \/ Entries(memory) >= JournalMax /\ UNCHANGED <<memory, disk>>
       \/ /\ Entries(memory) < JournalMax /\ emitted[a] < MaxEvent
          /\ PersistFails(WithEvent(a, emitted[a] + 1))
    /\ UNCHANGED <<emitted, earlier>>

Emit ==
    /\ phase \in {"executing", "finishing"} /\ ~fatal
    /\ \/ AppendEvent(att) /\ UNCHANGED superVars
       \/ AppendEventFails(att) /\ Stop /\ fatal' = TRUE
    /\ UNCHANGED <<serverVars, netVars, workVars>>

(* A callback that is still appending after ExecuteProcess has returned
   reports to the reporter and the supervisor of its own attempt. *)
LateEmit(a) ==
    /\ a \in late
    /\ a = att /\ phase \in Executing => ~fatal
    /\ \/ AppendEvent(a) /\ UNCHANGED <<superVars, late>>
       \/ /\ AppendEventFails(a)
          /\ late' = late \ {a}
          /\ IF a = att /\ phase \in Executing
             THEN Stop /\ fatal' = TRUE
             ELSE UNCHANGED superVars
    /\ UNCHANGED <<serverVars, netVars, phase, att, replayed>>

LateReturns(a) ==
    /\ a \in late
    /\ late' = late \ {a}
    /\ UNCHANGED <<phase, att, replayed>>
    /\ UNCHANGED <<serverVars, netVars, superVars, journalVars>>

(* A batch is a non-empty prefix of what is pending, limited by count and
   by size. *)
BatchUnordered(P) == {B \in SUBSET P : B # {} /\ Cardinality(B) <= BatchCount}

Batch(P) ==
    {B \in SUBSET P : /\ B # {} /\ Cardinality(B) <= BatchCount
                      /\ \A i \in B, j \in P : j < i => j \in B}

(* flushOnce of the reporter, and the replay of what is not yet delivered. *)
PostEvents ==
    /\ phase \in {"executing", "finishing", "draining", "replayEvents"}
    /\ ~canceled /\ ~fatal
    /\ \E B \in Batch(Pending(att) \ replayed) :
          eventReq' = eventReq \cup {<<att, B>>}
    /\ UNCHANGED <<doneReq, serverVars, workVars, superVars, journalVars>>

(* The server has the whole batch: its events leave the journal. *)
AckEvents(r) ==
    /\ phase \in {"executing", "finishing", "draining"} /\ ~fatal
    /\ r[1] = att /\ r[2] \subseteq stored[att] \cap Pending(att)
    /\ \/ Persist(WithoutEvents(att, r[2])) /\ UNCHANGED superVars
       \/ PersistFails(WithoutEvents(att, r[2])) /\ Stop /\ fatal' = TRUE
    /\ UNCHANGED <<emitted, earlier, serverVars, netVars, workVars>>

EventsRefused(r) ==
    /\ phase \in {"executing", "finishing", "draining"} /\ ~fatal /\ ~canceled
    /\ r[1] = att /\ ~ r[2] \subseteq stored[att] /\ ~Authorized(att)
    /\ Stop /\ fatal' = TRUE
    /\ UNCHANGED <<serverVars, netVars, workVars, journalVars>>

(* ExecuteProcess returns with the supervisor alive.  The drain of the
   output is bounded: a callback may still be at work. *)
ProcessReturns ==
    /\ phase = "executing" /\ proc = "running" /\ ~canceled
    /\ phase' = "finishing" /\ proc' = "none"
    /\ late' \in {late, late \cup {att}}
    /\ UNCHANGED <<att, replayed, deadline, answer, canceled, fatal, grace>>
    /\ UNCHANGED <<serverVars, netVars, journalVars>>

(* completeReportedAttempt: the terminal intent is appended first. *)
AppendCompletion(o) ==
    /\ phase = "finishing"
    /\ phase' = "draining"
    /\ earlier' = [earlier EXCEPT ![att] = emitted[att]]
    /\ \/ /\ Entries(memory) < JournalMax
          /\ Persist(WithCompletion(att, o))
          /\ UNCHANGED superVars
       \/ /\ \/ Entries(memory) >= JournalMax /\ UNCHANGED <<memory, disk>>
             \/ Entries(memory) < JournalMax /\ PersistFails(WithCompletion(att, o))
          /\ Stop /\ UNCHANGED fatal
    /\ UNCHANGED <<emitted, att, late, replayed, serverVars, netVars>>

(* WaitEmpty, then the reporter, the watcher and the renewer are joined. *)
DrainedUnchecked ==
    /\ phase = "draining" /\ ~canceled /\ ~fatal
    /\ phase' = "completing" /\ answer' = 0
    /\ UNCHANGED <<att, late, replayed, deadline, canceled, fatal, proc, grace>>
    /\ UNCHANGED <<serverVars, netVars, journalVars>>

Drained ==
    /\ phase = "draining" /\ ~canceled /\ ~fatal
    /\ Pending(att) = {}
    /\ phase' = "completing" /\ answer' = 0
    /\ UNCHANGED <<att, late, replayed, deadline, canceled, fatal, proc, grace>>
    /\ UNCHANGED <<serverVars, netVars, journalVars>>

SendCompletion ==
    /\ phase \in {"completing", "replayCompletion"} /\ ~canceled
    /\ doneReq' = doneReq \cup {d \in memory.done : d[1] = att}
    /\ UNCHANGED <<eventReq, serverVars, workVars, superVars, journalVars>>

(* The server holds this completion of the attempt. *)
Accepted(r) == r[1] = att /\ lease[att] = "completed" /\ completion[att] = r[2]

(* The next loop of RunContext, or its end when the process could not run. *)
AckCompletion(r) ==
    /\ phase = "completing" /\ Accepted(r)
    /\ \/ /\ Persist(WithoutCompletion(att, r[2]))
          /\ phase' = "idle"
          /\ deadline' = 0 /\ answer' = 0 /\ canceled' = FALSE /\ fatal' = FALSE
          /\ UNCHANGED <<att, late, replayed, proc, grace, emitted, earlier>>
       \/ Exit /\ disk' = WithoutCompletion(att, r[2])
       \/ /\ PersistFails(WithoutCompletion(att, r[2])) /\ Stop
          /\ UNCHANGED <<fatal, workVars, emitted, earlier>>
    /\ UNCHANGED <<serverVars, netVars>>

CompletionRefused(r) ==
    /\ phase = "completing" /\ ~canceled
    /\ r[1] = att /\ ~Authorized(att) /\ ~Accepted(r)
    /\ Stop /\ UNCHANGED fatal
    /\ UNCHANGED <<serverVars, netVars, workVars, journalVars>>

(* Authority was lost: once the group is gone RunContext returns the error. *)
GiveUp ==
    /\ phase \in {"preflight"} \cup Executing /\ canceled /\ proc = "none"
    /\ Exit /\ UNCHANGED disk
    /\ UNCHANGED <<serverVars, netVars>>

-----------------------------------------------------------------------------
(* Shutdown, crash, and the reconciliation of the journal at startup. *)

(* SIGTERM cancels the context every supervisor derives from. *)
Shutdown ==
    /\ Supervised /\ ~canceled
    /\ Stop /\ UNCHANGED fatal
    /\ UNCHANGED <<serverVars, netVars, workVars, journalVars>>

(* The runner dies, and its service manager ends the process group. *)
Crash ==
    /\ phase # "down"
    /\ Exit /\ UNCHANGED disk
    /\ UNCHANGED <<serverVars, netVars>>

Restart ==
    /\ phase = "down"
    /\ phase' = "startup" /\ memory' = disk
    /\ UNCHANGED <<att, late, replayed, disk, emitted, earlier>>
    /\ UNCHANGED <<serverVars, netVars, superVars>>

(* Startup claims nothing before the journal is settled. *)
Reconciled ==
    /\ phase = "startup" /\ Journaled = {}
    /\ phase' = "idle"
    /\ UNCHANGED <<att, late, replayed>>
    /\ UNCHANGED <<serverVars, netVars, superVars, journalVars>>

(* probeReplayAuthority finds the lease: a supervisor guards the replay,
   which renews only an attempt that has no completion. *)
ReplayAuthorized(a) ==
    /\ phase = "startup" /\ a \in Journaled /\ Authorized(a)
    /\ att' = a /\ deadline' = left[a] /\ canceled' = FALSE
    /\ phase' = IF \E d \in memory.done : d[1] = a THEN "replayEvents" ELSE "replayRenew"
    /\ UNCHANGED <<late, replayed, answer, fatal, proc, grace>>
    /\ UNCHANGED <<serverVars, netVars, journalVars>>

(* DiscardAttempt, or the end of the startup when it fails. *)
Discard(a) ==
    /\ \/ /\ Persist(WithoutAttempt(a))
          /\ phase' = "startup" /\ replayed' = {}
          /\ deadline' = 0 /\ answer' = 0 /\ canceled' = FALSE /\ fatal' = FALSE
          /\ UNCHANGED <<att, late, proc, grace, emitted, earlier>>
       \/ Exit /\ disk' \in {disk, WithoutAttempt(a)}
    /\ UNCHANGED <<serverVars, netVars>>

(* Only a verified 404 makes the runner drop what it did not deliver. *)
ReplayFencedCompleted(a) ==
    /\ phase = "startup" /\ a \in Journaled /\ lease[a] = "completed"
    /\ Discard(a)

ReplayFenced(a) ==
    /\ phase = "startup" /\ a \in Journaled /\ ~Authorized(a)
    /\ Discard(a)

ReplayEventsAcked(r) ==
    /\ phase = "replayEvents" /\ ~canceled
    /\ r[1] = att /\ r[2] \subseteq stored[att] \cap Pending(att)
    /\ replayed' = replayed \cup r[2]
    /\ UNCHANGED <<phase, att, late>>
    /\ UNCHANGED <<serverVars, netVars, superVars, journalVars>>

(* The completion follows the last batch. *)
ReplayEventsDone ==
    /\ phase = "replayEvents" /\ ~canceled /\ Pending(att) \subseteq replayed
    /\ phase' = IF \E d \in memory.done : d[1] = att THEN "replayCompletion" ELSE "replayDiscard"
    /\ UNCHANGED <<att, late, replayed>>
    /\ UNCHANGED <<serverVars, netVars, superVars, journalVars>>

ReplayCompletionAcked(r) ==
    /\ phase = "replayCompletion" /\ ~canceled /\ Accepted(r)
    /\ phase' = "replayDiscard"
    /\ UNCHANGED <<att, late, replayed>>
    /\ UNCHANGED <<serverVars, netVars, superVars, journalVars>>

ReplayDiscard == phase = "replayDiscard" /\ Discard(att)

(* A refusal, a network failure or the guard ends the startup with the
   journal as it was. *)
ReplayFails ==
    /\ phase \in {"startup"} \cup Replaying
    /\ Exit /\ UNCHANGED disk
    /\ UNCHANGED <<serverVars, netVars>>

-----------------------------------------------------------------------------
Server ==
    \/ \E a \in Attempt : OtherRunner(a) \/ Expire(a)
    \/ CancelRun
    \/ \E r \in eventReq : StoreEvents(r)
    \/ \E r \in doneReq : CompleteLease(r)

Replay ==
    \/ Restart \/ Reconciled
    \/ \E a \in Attempt : ReplayAuthorized(a) \/ ReplayFenced(a)
    \/ \E r \in eventReq : ReplayEventsAcked(r)
    \/ ReplayEventsDone
    \/ \E r \in doneReq : ReplayCompletionAcked(r)
    \/ ReplayDiscard \/ ReplayFails

Work ==
    \/ \E a \in Attempt : ClaimRun(a) \/ LateEmit(a) \/ LateReturns(a)
    \/ RenewLease \/ RenewAnswer \/ AuthorityRefused \/ Emit \/ PostEvents
    \/ \E r \in eventReq : AckEvents(r) \/ EventsRefused(r)
    \/ ProcessReturns \/ (\E o \in Outcome : AppendCompletion(o)) \/ Drained
    \/ SendCompletion
    \/ \E r \in doneReq : AckCompletion(r) \/ CompletionRefused(r)
    \/ GiveUp

Supervision == Tick \/ Watchdog \/ ProcessStops \/ Shutdown \/ Crash

Next == Server \/ Work \/ Supervision \/ Replay

Spec == Init /\ [][Next]_vars

-----------------------------------------------------------------------------
(* The process group of an attempt never runs while another attempt of the
   run holds a lease: the watchdog stops it, and the grace ends, before the
   lease that the runner last heard of can expire at the server. *)
NoOverlap ==
    proc # "none" => \A b \in Attempt \ {att} : lease[b] # "active"

(* The log of an attempt has no gap: whatever is retried, delayed, repeated
   or replayed, run_logs holds the first events the journal took. *)
LogIsPrefix ==
    \A a \in Attempt : \A i \in stored[a], j \in Event : j < i => j \in stored[a]

(* What has left the journal was accepted: while the lease is active every
   event that was appended is in run_logs or still in the journal's file,
   across crashes and failed writes. *)
NothingDropped ==
    \A a \in mine : Authorized(a) =>
        \A i \in 1..emitted[a] : i \in stored[a] \/ <<a, i>> \in disk.events

(* A lease completes after every event that was journaled before the
   completion has been stored. *)
CompletionIsLast ==
    \A a \in mine : lease[a] = "completed" => 1..earlier[a] \subseteq stored[a]

(* The bounded drain of ExecuteProcess gives up unread output only: what was
   read and journaled for an attempt is in its log once it is completed. *)
OnlyUnreadOutputIsLost ==
    \A a \in mine : lease[a] = "completed" => 1..emitted[a] \subseteq stored[a]

(* The journal still holds the completion of an attempt. *)
Unsettled(a) == \E d \in disk.done : d[1] = a
=============================================================================
