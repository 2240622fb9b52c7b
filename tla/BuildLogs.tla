------------------------------ MODULE BuildLogs ------------------------------
(***************************************************************************)
(* The output of one build: the runner numbers and journals every event    *)
(* before it sends it, the server gives committed events a dense sequence  *)
(* of its own and a receipt, retention deletes a prefix of what is old,    *)
(* and a viewer pages through what is left.  Requests are lost, repeated   *)
(* and late; the attempt's authority may end at any moment.                *)
(***************************************************************************)
EXTENDS Integers, FiniteSets, FiniteSetsExt

CONSTANTS
    MaxEvents,   \* bound on the events of the build
    PageLimit,   \* rows a viewer asks for
    BatchSize,   \* rows one retention execution may delete
    MaxFaults    \* bound on crashes, lost and late requests

ASSUME LogAssumption ==
    {MaxEvents, PageLimit, BatchSize} \subseteq Nat \ {0} /\ MaxFaults \in Nat

Events == 1..MaxEvents    \* an event's key is its requested sequence
NoEvent == 0
BuildStates == {"sourcing", "building", "cleanup_required", "succeeded"}

VARIABLES
    build,      \* the build's state and whether its authority is current
    state,      \* hosting_build_log_states
    rows,       \* run_logs: committed sequence -> is it older than the cutoff
    receipts,   \* hosting_build_log_receipts: event -> committed sequence
    journal,    \* pending events, the cursor, the intent
    pc,         \* the runner: running, failed, finished, down
    late,       \* batches the runner stopped waiting for
    viewer,     \* the cursor, the rows shown, whether a gap was reported, done
    policy,     \* the retention policy's version and the executed requests
    faults

vars == <<build, state, rows, receipts, journal, pc, late, viewer, policy, faults>>
server == <<build, state, rows, receipts>>

Running == build.state \in {"sourcing", "building"}
Committed == DOMAIN receipts
Fault == faults < MaxFaults /\ faults' = faults + 1
NoFault == faults' = faults

Init ==
    /\ build = [state |-> "sourcing", live |-> TRUE, leased |-> TRUE, complete |-> FALSE]
    /\ state = [last |-> 0, deleted |-> 0]
    /\ rows = [s \in {} |-> FALSE] /\ receipts = [e \in {} |-> 0]
    /\ journal = [pending |-> {}, cursor |-> 0, intent |-> TRUE]
    /\ pc = "running" /\ late = {} /\ faults = 0
    /\ viewer = [after |-> 0, shown |-> {}, gap |-> FALSE, done |-> FALSE]
    /\ policy = [version |-> 1, executed |-> {}]

--------------------------------------------------------------------------
(* The server's append. *)

GetHostingBuildLogReceipt(e) == e \in Committed

(* Events of the engine are taken only while it builds. *)
Component(e) == IF e = 1 THEN "build" ELSE "buildkit"

(* Mutant: output is accepted for as long as the lease lives. *)
FreshLeased(e) == build.live /\ (Component(e) # "build" => build.state # "sourcing")

(* freshBuildAuthority, the build's state and its component. *)
Fresh(e) ==
    /\ build.live /\ Running
    /\ Component(e) # "build" => build.state = "building"

(* Mutant: the acknowledgment of a committed event wants current authority. *)
AppendAllowedFresh(e) == Fresh(e)

(* Exact committed replay precedes every check of current authority. *)
AppendAllowed(e) == GetHostingBuildLogReceipt(e) \/ Fresh(e)

InsertHostingBuildLog(s) == [t \in DOMAIN rows \cup {s} |-> IF t = s THEN FALSE ELSE rows[t]]
InsertHostingBuildLogReceipt(e, s) == [f \in Committed \cup {e} |-> IF f = e THEN s ELSE receipts[f]]
AdvanceHostingBuildLogSequence(s) == [state EXCEPT !.last = s]

(* Mutant: a replayed event is given a row of its own. *)
AppendHostingBuildLogsTwice(e) ==
    /\ rows' = InsertHostingBuildLog(state.last + 1)
    /\ receipts' = InsertHostingBuildLogReceipt(e, state.last + 1)
    /\ state' = AdvanceHostingBuildLogSequence(state.last + 1)

AppendHostingBuildLogs(e) ==
    IF GetHostingBuildLogReceipt(e) THEN UNCHANGED <<rows, receipts, state>>
    ELSE LET next == state.last + 1
         IN  /\ rows' = InsertHostingBuildLog(next) /\ receipts' = InsertHostingBuildLogReceipt(e, next)
             /\ state' = AdvanceHostingBuildLogSequence(next)

--------------------------------------------------------------------------
(* The runner. *)

Intent == journal.intent
NoChange == UNCHANGED <<build, viewer, policy>>

(* Sink: an event is numbered and durable before it is sent; the next one  *)
(* waits until the journal is drained.                                     *)
AppendBuildLog ==
    /\ pc = "running" /\ journal.pending = {} /\ journal.cursor < MaxEvents
    /\ build.live /\ Running /\ Intent
    /\ Component(journal.cursor + 1) # "build" => build.state = "building"
    /\ journal' = [journal EXCEPT !.cursor = @ + 1, !.pending = {journal.cursor + 1}]
    /\ UNCHANGED <<state, rows, receipts, pc, late, faults>> /\ NoChange

AckBuildLogs(e) == journal' = [journal EXCEPT !.pending = @ \ {e}]

(* One try of drainBuildLogs, or at start-up of its historical form, which *)
(* does not ask for live authority.  A transient failure is tried again, a *)
(* refusal fails the sink for good or stops the start-up.                  *)
ReplayBuildLogs(e) ==
    /\ pc \in {"running", "down"} /\ e \in journal.pending /\ Intent /\ NoChange
    /\ pc = "running" => build.live /\ Running
    /\ \/ /\ AppendAllowed(e) /\ AppendHostingBuildLogs(e) /\ AckBuildLogs(e)
          /\ UNCHANGED <<pc, late>> /\ NoFault
       \/ /\ AppendAllowed(e) /\ AppendHostingBuildLogs(e) /\ Fault
          /\ UNCHANGED <<journal, pc, late>>
       \/ /\ Fault /\ late' = late \cup {e} /\ UNCHANGED <<state, rows, receipts, journal, pc>>

SinkFails ==
    /\ pc = "running" /\ journal.pending # {} /\ ~(build.live /\ Running) /\ pc' = "failed"
    /\ UNCHANGED <<state, rows, receipts, journal, late, faults>> /\ NoChange

(* A failed sink, or a result nobody may report any more, ends the process. *)
Exit ==
    /\ pc = "failed" \/ (pc = "finished" /\ ~build.complete /\ ~(build.live /\ Running))
    /\ pc' = "down"
    /\ UNCHANGED <<state, rows, receipts, journal, late, faults>> /\ NoChange

(* A batch whose sender stopped waiting reaches the server. *)
ServeLate(e) ==
    /\ e \in late /\ late' = late \ {e}
    /\ IF AppendAllowed(e) THEN AppendHostingBuildLogs(e) ELSE UNCHANGED <<state, rows, receipts>>
    /\ UNCHANGED <<journal, pc, faults>> /\ NoChange

(* Mutant: the adapter finishes without draining its journal. *)
FinishUndrained ==
    /\ pc = "running" /\ build.live /\ build.state = "building" /\ pc' = "finished"
    /\ UNCHANGED <<state, rows, receipts, journal, late, faults>> /\ NoChange

(* Finish flushes and drains; only then is a result journaled. *)
Finish ==
    /\ pc = "running" /\ build.live /\ build.state = "building" /\ journal.pending = {}
    /\ pc' = "finished"
    /\ UNCHANGED <<state, rows, receipts, journal, late, faults>> /\ NoChange

Complete ==
    /\ pc = "finished" /\ build.live /\ Running
    /\ build' = [build EXCEPT !.state = "succeeded", !.live = FALSE, !.leased = FALSE, !.complete = TRUE]
    /\ UNCHANGED <<state, rows, receipts, journal, pc, late, viewer, policy, faults>>

(* The intent and the cursor leave the journal with the result, once no    *)
(* event of the attempt is pending.                                        *)
AckBuildCompletion ==
    /\ pc = "finished" /\ build.complete /\ journal.pending = {} /\ Intent
    /\ journal' = [journal EXCEPT !.intent = FALSE]
    /\ UNCHANGED <<state, rows, receipts, pc, late, faults>> /\ NoChange

Crash ==
    /\ pc # "down" /\ Fault /\ pc' = "down"
    /\ UNCHANGED <<state, rows, receipts, journal, late>> /\ NoChange

--------------------------------------------------------------------------
(* The rest of the server. *)

StartBuilding ==
    /\ build.live /\ build.state = "sourcing" /\ build' = [build EXCEPT !.state = "building"]
    /\ UNCHANGED <<state, rows, receipts, journal, pc, late, viewer, policy, faults>>

(* Cancellation leaves the lease alone; a withdrawn creator, source or     *)
(* placement leaves state and lease alone; the sweep of a lease ends both. *)
CancelHostingBuild ==
    /\ Running /\ build' = [build EXCEPT !.state = "cleanup_required"]
    /\ UNCHANGED <<state, rows, receipts, journal, pc, late, viewer, policy, faults>>

LoseAuthority ==
    /\ build.live /\ build' = [build EXCEPT !.live = FALSE]
    /\ UNCHANGED <<state, rows, receipts, journal, pc, late, viewer, policy, faults>>

SweepLease ==
    /\ build.leased
    /\ build' = [build EXCEPT !.live = FALSE, !.leased = FALSE, !.state = "cleanup_required"]
    /\ UNCHANGED <<state, rows, receipts, journal, pc, late, viewer, policy, faults>>

(* Time passes: rows grow older than the cutoff in the order they came. *)
Age ==
    /\ \E s \in DOMAIN rows : ~rows[s] /\ (\A t \in DOMAIN rows : t < s => rows[t])
                              /\ rows' = [rows EXCEPT ![s] = TRUE]
    /\ UNCHANGED <<build, state, receipts, journal, pc, late, viewer, policy, faults>>

(* Mutant: any old row may go, newest first. *)
RetentionPrefixAny == {s \in DOMAIN rows : rows[s] /\ Cardinality({t \in DOMAIN rows : t > s}) < BatchSize}

(* Rows with nothing newer than the cutoff at or before them, lowest first. *)
ListHostingBuildLogRetentionPrefix ==
    LET old == {s \in DOMAIN rows : \A t \in DOMAIN rows : t <= s => rows[t]}
    IN  {s \in old : Cardinality({t \in old : t < s}) < BatchSize}

AdvanceHostingBuildLogWatermark(S) ==
    [state EXCEPT !.deleted = Max({@} \cup S)]

DeleteRunLogRetentionCandidates(S) == [s \in DOMAIN rows \ S |-> rows[s]]

(* ExecuteRunLogRetention: a request already executed answers with its     *)
(* receipt; a new one must name the present policy; only a run whose task  *)
(* ended and that no active lease holds is touched.                        *)
ExecuteRunLogRetention(request) ==
    LET S == ListHostingBuildLogRetentionPrefix
    IN  /\ request = policy.version /\ request \notin policy.executed
        /\ ~build.leased
        /\ policy' = [policy EXCEPT !.executed = @ \cup {request}]
        /\ state' = AdvanceHostingBuildLogWatermark(S) /\ rows' = DeleteRunLogRetentionCandidates(S)
        /\ UNCHANGED <<build, receipts, journal, pc, late, viewer, faults>>

UpdateRunLogRetentionPolicy ==
    /\ policy.version < 2 /\ policy' = [policy EXCEPT !.version = @ + 1]
    /\ UNCHANGED <<server, journal, pc, late, viewer, faults>>

(* ListHostingBuildLogs: the page after the cursor, whether rows before it *)
(* are gone, whether the build has ended, and the next cursor.             *)
ListHostingBuildLogItems(after) ==
    LET newer == {s \in DOMAIN rows : s > after}
    IN  {s \in newer : Cardinality({t \in newer : t < s}) < PageLimit}

(* Mutant: a gap is reported only when nothing is left to show. *)
PageGapOnlyEmpty(after, items) == items = {} /\ after < state.deleted

PageGap(after, items) == after < state.deleted

PageTerminal == ~Running
PageTruncated(after) == Cardinality({s \in DOMAIN rows : s > after}) > PageLimit
NextSequence(after, items) ==
    IF items = {} THEN Max({after, state.deleted}) ELSE Max(items)

ListHostingBuildLogs ==
    LET items == ListHostingBuildLogItems(viewer.after)
    IN  /\ ~viewer.done
        /\ viewer' = [after |-> NextSequence(viewer.after, items), shown |-> viewer.shown \cup items,
                      gap |-> viewer.gap \/ PageGap(viewer.after, items),
                      done |-> PageTerminal /\ ~PageTruncated(viewer.after)]
        /\ UNCHANGED <<server, journal, pc, late, policy, faults>>

Next ==
    \/ AppendBuildLog \/ SinkFails \/ Exit \/ Finish \/ Complete \/ AckBuildCompletion \/ Crash
    \/ \E e \in Events : ReplayBuildLogs(e) \/ ServeLate(e)
    \/ StartBuilding \/ CancelHostingBuild \/ LoseAuthority \/ SweepLease \/ Age
    \/ \E request \in 1..2 : ExecuteRunLogRetention(request)
    \/ UpdateRunLogRetentionPolicy \/ ListHostingBuildLogs

Spec == Init /\ [][Next]_vars

--------------------------------------------------------------------------
(* The shapes of the rows, the journal and the viewer's cursor. *)
LTypeOK ==
    /\ build \in [state : BuildStates, live : BOOLEAN, leased : BOOLEAN, complete : BOOLEAN]
    /\ state \in [last : 0..MaxEvents, deleted : 0..MaxEvents]
    /\ DOMAIN rows \subseteq 1..MaxEvents /\ Committed \subseteq Events
    /\ journal \in [pending : SUBSET Events, cursor : 0..MaxEvents, intent : BOOLEAN]
    /\ viewer.after \in 0..MaxEvents

(* Committed sequences are 1..last without holes or repeats, and a         *)
(* sequence whose row is gone lies at or below the durable watermark, so   *)
(* nothing disappears without the viewer being told.                       *)
CommittedIsDense ==
    /\ {receipts[e] : e \in Committed} = 1..state.last /\ Cardinality(Committed) = state.last
    /\ \A s \in 1..state.last : (s \in DOMAIN rows) = (s > state.deleted)

(* The server's order is the runner's order, whatever was repeated or late. *)
OrderIsKept == \A e, f \in Committed : e < f => receipts[e] < receipts[f]

(* A viewer who follows the cursor has been shown every sequence up to it, *)
(* or was told of a gap.                                                   *)
ViewerMissesNothing == viewer.gap \/ 1..viewer.after \subseteq viewer.shown

(* A page that says the build ended and is not truncated is the last one:  *)
(* no output follows it.                                                   *)
TerminalPageIsLast == viewer.done => state.last <= viewer.after

(* A build is completed only with all of its output committed. *)
CompletionHasItsOutput == build.complete => 1..journal.cursor \subseteq Committed

(* Committed output is without holes, in the runner's order and whole      *)
(* before the completion, and a viewer who follows the cursor is shown     *)
(* everything or told of a gap, whatever is repeated, late or retained     *)
(* (AppendHostingBuildLogs, ExecuteRunLogRetention, ListHostingBuildLogs). *)
BuildOutputIsWhole ==
    /\ LTypeOK /\ CommittedIsDense /\ OrderIsKept /\ ViewerMissesNothing
    /\ TerminalPageIsLast /\ CompletionHasItsOutput

(* Committed by the server and still in the runner's journal. *)
Unacknowledged(e) == e \in journal.pending /\ e \in Committed
=============================================================================
