------------------------ MODULE DatabaseBackupsProofs ------------------------
(***************************************************************************)
(* Backups and restores of databases, proved for every set of operations   *)
(* and every number of faults and changes of authority: what the rows say  *)
(* of an operation agrees with what its tool did on the host.              *)
(***************************************************************************)
EXTENDS DatabaseBackups, SequenceTheorems, TLAPS

States == {"none"} \cup Unsettled \cup Settled
Places == {"idle", "down", "claimed", "preflight", "intent", "run", "tool",
           "check", "finish", "record", "send", "ack"}

Types ==
    /\ op \in [Ops -> [state : States, held : BOOLEAN, source : Bindings, blob : BOOLEAN]]
    /\ child \in [Restores -> {"none", "pending", "succeeded", "failed"}]
    /\ task \in [Ops \cup {Generic} -> {"none", "queued", "running", "succeeded", "failed"}]
    /\ queue \in Seq(Ops \cup {Generic})
    /\ lease \in [Ops -> {"none", "active", "expired", "done"}]
    /\ receipts \in [Ops -> SUBSET Phases]
    /\ journal \subseteq Ops \X Phases
    /\ guest \subseteq Ops
    /\ host \in [Ops -> {"none", "partial", "whole"}]
    /\ pc \in Places

(* The row of an operation: when it keeps its hold, what it says of the    *)
(* host, and which receipts it has.                                        *)
RowIsTrue(o) ==
    /\ op[o].state \in Unsettled \cup {"uncertain"} => op[o].held
    /\ op[o].state \in {"none", "succeeded"} => ~op[o].held
    /\ op[o].state \notin {"applying", "uncertain", "succeeded"} => host[o] = "none"
    /\ op[o].state \notin {"applying", "uncertain"} => o \notin guest
    /\ op[o].state = "succeeded" => host[o] = "whole"
    /\ "intent" \in receipts[o] => op[o].state \in {"applying", "succeeded", "uncertain"}
    /\ "complete" \in receipts[o] => op[o].state = "succeeded"
    /\ "failed" \in receipts[o] => op[o].state = "failed"
    /\ "uncertain" \in receipts[o] => op[o].state = "uncertain"

(* The runner's journal: a saved result is what happened, and nothing is   *)
(* saved of an operation that was never leased.                            *)
EntryIsTrue(o) ==
    /\ op[o].state = "applying" => <<o, "intent">> \in journal
    /\ <<o, "complete">> \in journal =>
           op[o].state \in {"applying", "succeeded"} /\ host[o] = "whole" /\ o \notin guest
    /\ <<o, "failed">> \in journal => op[o].state \in {"dispatched", "failed"}
    /\ lease[o] = "none" => \A phase \in Phases : <<o, phase>> \notin journal

(* A database that is backed up is the source or a restored one whose      *)
(* deployment succeeded.                                                   *)
SourceIsDeployed ==
    /\ \A o \in Ops : op[o].source \in Restores => child[op[o].source] = "succeeded"
    /\ \A r \in Restores : op[r].state = "none" => child[r] = "none"

(* Where the runner is in the execution of an operation. *)
RunnerIsAt ==
    /\ pc \notin {"idle", "down"} => cur \in Ops /\ lease[cur] # "none"
    /\ pc \in {"claimed", "preflight", "intent"} =>
           op[cur].state = "dispatched" /\ <<cur, "failed">> \notin journal
    /\ pc = "intent" => <<cur, "intent">> \in journal
    /\ pc \in {"run", "tool", "check", "finish", "record"} =>
           op[cur].state = "applying" /\ <<cur, "complete">> \notin journal
    /\ pc \in {"check", "finish"} =>
           cur \notin guest /\ (cur \in Restores => host[cur] = "whole")
    /\ pc = "record" =>
           \/ outcome = "uncertain"
           \/ outcome = "complete" /\ cur \notin guest /\ host[cur] = "whole"
    /\ pc = "send" =>
           /\ <<cur, outcome>> \in journal
           /\ \/ outcome = "failed" /\ op[cur].state = "dispatched"
              \/ outcome = "complete" /\ op[cur].state = "applying"
              \/ outcome = "uncertain" /\ op[cur].state = "applying" /\ <<cur, "complete">> \notin journal
    /\ pc = "ack" => op[cur].state \in {"succeeded", "failed"}

HoldInv ==
    /\ Types /\ SourceIsDeployed /\ BindingHasOneOwner /\ RunnerIsAt
    /\ \A o \in Ops : RowIsTrue(o) /\ EntryIsTrue(o)


-----------------------------------------------------------------------------
(* The invariant says what the property states. *)

LEMMA HoldInvImplies == HoldInv => DatabaseHoldsFollowEffects
<1> SUFFICES ASSUME HoldInv
             PROVE  DatabaseHoldsFollowEffects
  BY Zenon
<1>1. BTypeOK
  BY Zenon DEF HoldInv, Types, BTypeOK, States
<1>2. \A o \in Ops : RowIsTrue(o) /\ EntryIsTrue(o) /\ op[o].state \in States
  BY Zenon DEF HoldInv, Types
<1>3. TouchedIsHeld
  <2> SUFFICES ASSUME NEW o \in Ops, o \in guest \/ host[o] = "partial"
               PROVE  op[o].held
    BY Zenon DEF TouchedIsHeld
  <2>1. op[o].state \in {"applying", "uncertain"}
    BY <1>2, Zenon DEF RowIsTrue
  <2>2. op[o].state \in Unsettled \cup {"uncertain"}
    BY <2>1, Zenon DEF Unsettled
  <2> QED
    BY <2>2, <1>2, Zenon DEF RowIsTrue
<1>4. OutcomeIsTrue
  BY <1>2, Zenon DEF OutcomeIsTrue, RowIsTrue
<1>5. ApplyingIsJournaled
  BY <1>2, Zenon DEF ApplyingIsJournaled, EntryIsTrue
<1> QED
  BY <1>1, <1>3, <1>4, <1>5, Zenon DEF DatabaseHoldsFollowEffects, HoldInv

(* Nothing is requested, journaled or running at first. *)
LEMMA HoldInvInit == Init => HoldInv
<1> SUFFICES ASSUME Init
             PROVE  HoldInv
  BY Zenon
<1> USE DEF Init, Absent
<1>1. Types
  BY DEF Types, States, Bindings, Places
<1>2. SourceIsDeployed
  BY BackupAssumption, Zenon DEF SourceIsDeployed, Ops
<1>3. BindingHasOneOwner
  BY Zenon DEF BindingHasOneOwner, Ops
<1>4. RunnerIsAt
  BY Zenon DEF RunnerIsAt
<1>5. \A o \in Ops : RowIsTrue(o) /\ EntryIsTrue(o)
  BY Zenon DEF RowIsTrue, EntryIsTrue, Unsettled
<1> QED
  BY <1>1, <1>2, <1>3, <1>4, <1>5, Zenon DEF HoldInv

-----------------------------------------------------------------------------
(* Rows that are not handed to a runner yet. *)

Early == {"none", "queued", "waiting_target"}

(* A runner at work has an operation that was dispatched to it. *)
LEMMA RunnerIsPastEarly ==
    ASSUME HoldInv, pc \notin {"idle", "down"}
    PROVE  cur \in Ops /\ op[cur].state \notin Early
<1>1. pc \in Places /\ cur \in Ops
  BY Zenon DEF HoldInv, Types, RunnerIsAt
<1>2. op[cur].state \in {"dispatched", "applying", "succeeded", "failed"}
  BY <1>1, Zenon DEF HoldInv, RunnerIsAt, Places
<1> QED
  BY <1>1, <1>2, Zenon DEF Early

(* An operation that no runner had yet is admitted, dispatched or given    *)
(* up: it keeps or takes its hold, and neither host nor journal know it    *)
(* (CreateDatabaseBackup, DispatchDatabaseBackup).                         *)
LEMMA EarlyStep ==
    ASSUME HoldInv, NEW o \in Ops, op[o].state \in Early,
           NEW v \in [state : {"queued", "waiting_target", "dispatched", "uncertain"}, held : {TRUE},
                      source : Bindings, blob : BOOLEAN],
           op' = [op EXCEPT ![o] = v], UNCHANGED <<receipts, lease, runner, box>>
    PROVE  /\ op' \in [Ops -> [state : States, held : BOOLEAN, source : Bindings, blob : BOOLEAN]]
           /\ op'[o] = v
           /\ \A p \in Ops : p # o => op'[p] = op[p]
           /\ \A p \in Ops : RowIsTrue(p)' /\ EntryIsTrue(p)'
           /\ RunnerIsAt'
<1>0. UNCHANGED <<receipts, lease, pc, cur, journal, outcome, guest, host>>
  BY Zenon DEF runner, box
<1>1. op \in [Ops -> [state : States, held : BOOLEAN, source : Bindings, blob : BOOLEAN]]
  BY Zenon DEF HoldInv, Types
<1>2. v \in [state : States, held : BOOLEAN, source : Bindings, blob : BOOLEAN]
  BY Zenon DEF States, Unsettled, Settled
<1>3. op' \in [Ops -> [state : States, held : BOOLEAN, source : Bindings, blob : BOOLEAN]]
  BY <1>1, <1>2, Zenon
<1>4. op'[o] = v /\ \A p \in Ops : p # o => op'[p] = op[p]
  BY <1>1, Zenon
<1>5. v.state \in {"queued", "waiting_target", "dispatched", "uncertain"} /\ v.held
  BY Zenon
<1>6. RowIsTrue(o) /\ EntryIsTrue(o)
  BY Zenon DEF HoldInv
<1>7. /\ host[o] = "none" /\ o \notin guest
      /\ \A phase \in {"intent", "complete", "failed", "uncertain"} : phase \notin receipts[o]
      /\ <<o, "complete">> \notin journal /\ <<o, "failed">> \notin journal
  BY <1>6, Zenon DEF RowIsTrue, EntryIsTrue, Early
<1>8. RowIsTrue(o)'
  BY <1>0, <1>4, <1>5, <1>7, Zenon DEF RowIsTrue
<1>9. EntryIsTrue(o)'
  BY <1>0, <1>4, <1>5, <1>6, <1>7, Zenon DEF EntryIsTrue
<1>10. ASSUME NEW p \in Ops, p # o
       PROVE  RowIsTrue(p)' /\ EntryIsTrue(p)'
  BY <1>0, <1>4, <1>10 DEF HoldInv, RowIsTrue, EntryIsTrue
<1>11. RunnerIsAt'
  <2>1. CASE pc \in {"idle", "down"}
    BY <1>0, <2>1, Zenon DEF RunnerIsAt
  <2>2. CASE pc \notin {"idle", "down"}
    <3>1. cur \in Ops /\ op'[cur] = op[cur]
      BY <2>2, <1>4, RunnerIsPastEarly, Zenon
    <3> QED
      BY <1>0, <3>1, Zenon DEF HoldInv, RunnerIsAt
  <2> QED
    BY <2>1, <2>2, Zenon
<1> QED
  BY <1>3, <1>4, <1>8, <1>9, <1>10, <1>11, Zenon


(* A binding is owned by those who hold it: no step but an admission adds  *)
(* a holder, and none moves an operation to another source.                *)
LEMMA HoldersOnlyLeave ==
    ASSUME HoldInv, \A p \in Ops : op'[p].source = op[p].source /\ (op'[p].held => op[p].held)
    PROVE  BindingHasOneOwner'
<1>0. Backups \subseteq Ops /\ Restores \subseteq Ops
  BY Zenon DEF Ops
<1>1. ASSUME NEW p \in Backups, NEW r \in Restores, op'[p].held, op'[r].held
      PROVE  op'[p].source # r
  <2>1. op[p].held /\ op[r].held /\ op'[p].source = op[p].source
    BY <1>0, <1>1, Zenon
  <2> QED
    BY <2>1, Zenon DEF HoldInv, BindingHasOneOwner
<1>2. ASSUME NEW p \in Backups, NEW q \in Backups, op'[p].held, op'[q].held,
             op'[p].source = op'[q].source
      PROVE  p = q
  <2>1. op[p].held /\ op[q].held /\ op[p].source = op[q].source
    BY <1>0, <1>2, Zenon
  <2> QED
    BY <2>1, Zenon DEF HoldInv, BindingHasOneOwner
<1> QED
  BY <1>1, <1>2, Zenon DEF BindingHasOneOwner

(* RequestDatabaseBackup: the index on held sources and the trigger on     *)
(* targets admit the only holder of a binding.                             *)
LEMMA RequestBackupStep ==
    ASSUME HoldInv, NEW o \in Backups, NEW b \in Bindings, RequestDatabaseBackup(o, b)
    PROVE  HoldInv'
<1> DEFINE v == [state |-> "queued", held |-> TRUE, source |-> b, blob |-> FALSE]
<1>0. /\ o \in Ops /\ op[o].state \in Early /\ op' = [op EXCEPT ![o] = v]
      /\ UNCHANGED <<child, task, queue, lease, receipts, runner, box>>
  BY Zenon DEF RequestDatabaseBackup, CreateDatabaseBackup, Ops, Early
<1>1. v \in [state : {"queued", "waiting_target", "dispatched", "uncertain"}, held : {TRUE},
             source : Bindings, blob : BOOLEAN]
  BY Zenon
<1>2. v.held /\ v.source = b /\ v.state = "queued"
  BY Zenon
<1> HIDE DEF v
<1>3. /\ op' \in [Ops -> [state : States, held : BOOLEAN, source : Bindings, blob : BOOLEAN]]
      /\ op'[o] = v /\ \A p \in Ops : p # o => op'[p] = op[p]
      /\ \A p \in Ops : RowIsTrue(p)' /\ EntryIsTrue(p)'
      /\ RunnerIsAt'
  BY <1>0, <1>1, EarlyStep, Zenon
<1>4. Types'
  BY <1>0, <1>3, Zenon DEF HoldInv, Types, runner, box
<1>5. SourceIsDeployed'
  <2>1. b \in Restores => child[b] = "succeeded"
    BY Zenon DEF RequestDatabaseBackup, databaseBackupSource, databaseUpgradeHealthy
  <2>2. o \notin Restores
    BY BackupAssumption, Zenon
  <2>3. child' = child
    BY <1>0, Zenon
  <2>4. \A p \in Ops : op'[p].source \in Restores => child[op'[p].source] = "succeeded"
    BY <2>1, <1>2, <1>3, Zenon DEF HoldInv, SourceIsDeployed
  <2>5. \A r \in Restores : op'[r].state = "none" => child[r] = "none"
    BY <2>2, <1>3, Zenon DEF HoldInv, SourceIsDeployed, Ops
  <2> QED
    BY <2>3, <2>4, <2>5, Zenon DEF SourceIsDeployed
<1>6. BindingHasOneOwner'
  <2>1. /\ \A other \in Backups : ~(op[other].held /\ op[other].source = b)
        /\ \A r \in Restores : op[r].held => r # b
    BY Zenon DEF RequestDatabaseBackup, CreateDatabaseBackup, TargetOwnershipHeld
  <2>2. \A r \in Restores : r \in Ops /\ r # o
    BY BackupAssumption, Zenon DEF Ops
  <2>3. \A p \in Backups : p \in Ops
    BY Zenon DEF Ops
  <2>4. ASSUME NEW p \in Backups, NEW r \in Restores, op'[p].held, op'[r].held
        PROVE  op'[p].source # r
    <3>0. op[r].held /\ op'[r] = op[r]
      BY <2>2, <2>4, <1>3, Zenon
    <3>1. CASE p = o
      BY <3>0, <3>1, <2>1, <1>2, <1>3, Zenon
    <3>2. CASE p # o
      <4>1. op'[p] = op[p]
        BY <3>2, <2>3, <1>3, Zenon
      <4> QED
        BY <4>1, <3>0, <2>4, Zenon DEF HoldInv, BindingHasOneOwner
    <3> QED
      BY <3>1, <3>2, Zenon
  <2>5. ASSUME NEW p \in Backups, NEW q \in Backups, op'[p].held, op'[q].held,
               op'[p].source = op'[q].source
        PROVE  p = q
    BY <2>1, <2>3, <2>5, <1>2, <1>3, Zenon DEF HoldInv, BindingHasOneOwner
  <2> QED
    BY <2>4, <2>5, Zenon DEF BindingHasOneOwner
<1> QED
  BY <1>3, <1>4, <1>5, <1>6, Zenon DEF HoldInv

(* RequestDatabaseBackupRestore: the new target has no backups, because    *)
(* none is admitted of a database that is not deployed.                    *)
LEMMA RequestRestoreStep ==
    ASSUME HoldInv, NEW r \in Restores, NEW b \in Backups, RequestDatabaseBackupRestore(r, b)
    PROVE  HoldInv'
<1> DEFINE v == [state |-> "waiting_target", held |-> TRUE, source |-> op[b].source, blob |-> op[b].blob]
<1>0. /\ r \in Ops /\ b \in Ops /\ op[r].state \in Early /\ op' = [op EXCEPT ![r] = v]
      /\ op[r].state = "none" /\ child' = [child EXCEPT ![r] = "pending"]
      /\ UNCHANGED <<task, queue, lease, receipts, runner, box>>
  BY Zenon DEF RequestDatabaseBackupRestore, CreateDatabaseBackupRestore, Ops, Early
<1>t. /\ op \in [Ops -> [state : States, held : BOOLEAN, source : Bindings, blob : BOOLEAN]]
      /\ child \in [Restores -> {"none", "pending", "succeeded", "failed"}]
  BY Zenon DEF HoldInv, Types
<1>1. v \in [state : {"queued", "waiting_target", "dispatched", "uncertain"}, held : {TRUE},
             source : Bindings, blob : BOOLEAN]
  <2>1. op[b].source \in Bindings /\ op[b].blob \in BOOLEAN
    BY <1>0, <1>t, Zenon
  <2> QED
    BY <2>1, Zenon
<1>2. v.held /\ v.source = op[b].source /\ v.state = "waiting_target"
  BY Zenon
<1> HIDE DEF v
<1>3. /\ op' \in [Ops -> [state : States, held : BOOLEAN, source : Bindings, blob : BOOLEAN]]
      /\ op'[r] = v /\ \A p \in Ops : p # r => op'[p] = op[p]
      /\ \A p \in Ops : RowIsTrue(p)' /\ EntryIsTrue(p)'
      /\ RunnerIsAt'
  BY <1>0, <1>1, EarlyStep, Zenon
<1>c. /\ child' \in [Restores -> {"none", "pending", "succeeded", "failed"}]
      /\ \A q \in Restores : q # r => child'[q] = child[q]
  BY <1>0, <1>t, Zenon
<1>4. Types'
  BY <1>0, <1>3, <1>c, Zenon DEF HoldInv, Types, runner, box
<1>n. \A p \in Ops : op[p].source # r
  <2>1. child[r] = "none"
    BY <1>0, Zenon DEF HoldInv, SourceIsDeployed
  <2>2. \A p \in Ops : op[p].source \in Restores => child[op[p].source] = "succeeded"
    BY Zenon DEF HoldInv, SourceIsDeployed
  <2> QED
    BY <2>1, <2>2, Zenon
<1>5. SourceIsDeployed'
  <2>1. \A p \in Ops : op'[p].source \in Restores => child'[op'[p].source] = "succeeded"
    <3> SUFFICES ASSUME NEW p \in Ops, op'[p].source \in Restores
                 PROVE  child'[op'[p].source] = "succeeded"
      BY Zenon
    <3>1. PICK q \in Ops : op'[p].source = op[q].source
      BY <1>0, <1>2, <1>3, Zenon
    <3>2. op[q].source \in Restores /\ child[op[q].source] = "succeeded" /\ op[q].source # r
      BY <3>1, <1>n, Zenon DEF HoldInv, SourceIsDeployed
    <3> QED
      BY <3>1, <3>2, <1>c, Zenon
  <2>2. \A q \in Restores : op'[q].state = "none" => child'[q] = "none"
    BY <1>2, <1>3, <1>c DEF HoldInv, SourceIsDeployed, Ops
  <2> QED
    BY <2>1, <2>2, Zenon DEF SourceIsDeployed
<1>6. BindingHasOneOwner'
  <2>1. \A p \in Backups : p \in Ops /\ p # r
    BY BackupAssumption, Zenon DEF Ops
  <2>2. \A q \in Restores : q \in Ops
    BY Zenon DEF Ops
  <2> QED
    <3>1. \A p \in Backups : op'[p] = op[p] /\ op[p].source # r
      BY <2>1, <1>3, <1>n, Zenon
    <3>2. ASSUME NEW p \in Backups, NEW q \in Restores, op'[p].held, op'[q].held
          PROVE  op'[p].source # q
      <4>1. CASE q = r
        BY <4>1, <3>1, Zenon
      <4>2. CASE q # r
        <5>1. op'[q] = op[q] /\ op'[p] = op[p]
          BY <4>2, <3>1, <2>2, <1>3, Zenon
        <5> QED
          BY <5>1, <3>2, Zenon DEF HoldInv, BindingHasOneOwner
      <4> QED
        BY <4>1, <4>2, Zenon
    <3>3. ASSUME NEW p \in Backups, NEW q \in Backups, op'[p].held, op'[q].held,
                 op'[p].source = op'[q].source
          PROVE  p = q
      <4>1. op'[q] = op[q] /\ op'[p] = op[p]
        BY <3>1, Zenon
      <4> QED
        BY <4>1, <3>3, Zenon DEF HoldInv, BindingHasOneOwner
    <3> QED
      BY <3>2, <3>3, Zenon DEF BindingHasOneOwner
<1> QED
  BY <1>3, <1>4, <1>5, <1>6, Zenon DEF HoldInv

(* PrepareDatabaseBackup dispatches an operation, gives a restore up whose *)
(* target failed, or finds nothing to do.                                  *)
LEMMA PrepareStep ==
    ASSUME HoldInv, NEW o \in Ops, PrepareDatabaseBackup(o)
    PROVE  HoldInv'
<1>0. UNCHANGED <<child, lease, receipts, runner, box>>
  BY Zenon DEF PrepareDatabaseBackup
<1>t. /\ op \in [Ops -> [state : States, held : BOOLEAN, source : Bindings, blob : BOOLEAN]]
      /\ task \in [Ops \cup {Generic} -> {"none", "queued", "running", "succeeded", "failed"}]
      /\ queue \in Seq(Ops \cup {Generic})
  BY Zenon DEF HoldInv, Types
<1>1. /\ task' \in [Ops \cup {Generic} -> {"none", "queued", "running", "succeeded", "failed"}]
      /\ queue' \in Seq(Ops \cup {Generic})
  <2>1. CASE UNCHANGED <<task, queue>>
    BY <2>1, <1>t, Zenon
  <2>2. CASE CreateHostingTask(o)
    <3>1. o \in Ops \cup {Generic}
      BY Zenon
    <3> QED
      BY <3>1, <2>2, <1>t DEF CreateHostingTask
  <2> QED
    BY <2>1, <2>2, Zenon DEF PrepareDatabaseBackup
<1>2. CASE UNCHANGED op
  <2>1. Types'
    BY <1>0, <1>1, <1>2, Zenon DEF HoldInv, Types, runner, box
  <2>2. SourceIsDeployed' /\ BindingHasOneOwner' /\ RunnerIsAt'
    BY <1>0, <1>2, Zenon DEF HoldInv, SourceIsDeployed, BindingHasOneOwner, RunnerIsAt, runner, box
  <2>3. \A p \in Ops : RowIsTrue(p)' /\ EntryIsTrue(p)'
    BY <1>0, <1>2, Zenon DEF HoldInv, RowIsTrue, EntryIsTrue, runner, box
  <2> QED
    BY <2>1, <2>2, <2>3, Zenon DEF HoldInv
<1>3. ASSUME op[o].state \in Early \ {"none"}, NEW s \in {"dispatched", "uncertain"},
             op' = [op EXCEPT ![o].state = s]
      PROVE  HoldInv'
  <2> DEFINE v == [op[o] EXCEPT !.state = s]
  <2>1. op' = [op EXCEPT ![o] = v] /\ op[o].state \in Early
    BY <1>3, Zenon
  <2>2. op[o].held
    <3>1. op[o].state \in Unsettled \cup {"uncertain"}
      BY <1>3, Zenon DEF Early, Unsettled
    <3> QED
      BY <3>1, Zenon DEF HoldInv, RowIsTrue
  <2>3. /\ v \in [state : {"queued", "waiting_target", "dispatched", "uncertain"}, held : {TRUE},
                  source : Bindings, blob : BOOLEAN]
        /\ v.source = op[o].source /\ v.state # "none"
    BY <2>2, <1>3, <1>t, Zenon
  <2> HIDE DEF v
  <2>4. /\ op' \in [Ops -> [state : States, held : BOOLEAN, source : Bindings, blob : BOOLEAN]]
        /\ op'[o] = v /\ \A p \in Ops : p # o => op'[p] = op[p]
        /\ \A p \in Ops : RowIsTrue(p)' /\ EntryIsTrue(p)'
        /\ RunnerIsAt'
    BY <2>1, <2>3, <1>0, EarlyStep, Zenon
  <2>5. Types'
    BY <1>0, <1>1, <2>4, Zenon DEF HoldInv, Types, runner, box
  <2>6. \A p \in Ops : op'[p].source = op[p].source /\ (op'[p].held => op[p].held)
    BY <2>2, <2>3, <2>4, Zenon
  <2>7. SourceIsDeployed'
    <3>1. \A r \in Restores : op'[r].state = "none" => child[r] = "none"
      BY <2>3, <2>4, Zenon DEF HoldInv, SourceIsDeployed, Ops
    <3> QED
      BY <3>1, <1>0, <2>6, Zenon DEF HoldInv, SourceIsDeployed
  <2> QED
    BY <2>4, <2>5, <2>6, <2>7, HoldersOnlyLeave, Zenon DEF HoldInv
<1>4. Early \ {"none"} = {"queued", "waiting_target"}
  BY Zenon DEF Early
<1> QED
  BY <1>2, <1>3, <1>4, Zenon DEF PrepareDatabaseBackup, DispatchDatabaseBackup,
     MarkDatabaseBackupExecutionUncertain


-----------------------------------------------------------------------------
(* What a step leaves alone. *)

(* Without a new row or deployment the sources and their owners stay. *)
LEMMA OwnersUntouched ==
    ASSUME HoldInv, UNCHANGED <<op, child>>
    PROVE  SourceIsDeployed' /\ BindingHasOneOwner'
BY Zenon DEF HoldInv, SourceIsDeployed, BindingHasOneOwner

(* Rows stay true while neither they nor the host change. *)
LEMMA RowsUntouched ==
    ASSUME HoldInv, UNCHANGED <<op, receipts, guest, host>>
    PROVE  \A o \in Ops : RowIsTrue(o)'
BY Zenon DEF HoldInv, RowIsTrue

(* Saved entries stay true while no lease is taken back. *)
LEMMA EntriesUntouched ==
    ASSUME HoldInv, UNCHANGED <<op, journal, guest, host>>,
           \A o \in Ops : lease'[o] = "none" => lease[o] = "none"
    PROVE  \A o \in Ops : EntryIsTrue(o)'
BY Zenon DEF HoldInv, EntryIsTrue

(* The runner's place stays true while what it saw does. *)
LEMMA PlaceUntouched ==
    ASSUME HoldInv, UNCHANGED <<op, pc, cur, outcome, journal, guest, host>>,
           \A o \in Ops : lease'[o] = "none" => lease[o] = "none"
    PROVE  RunnerIsAt'
<1>1. RunnerIsAt
  BY Zenon DEF HoldInv
<1>2. pc \notin {"idle", "down"} => lease'[cur] # "none"
  BY <1>1, Zenon DEF RunnerIsAt
<1> QED
  BY <1>1, <1>2, Zenon DEF RunnerIsAt

-----------------------------------------------------------------------------
(* The fenced mutation. *)

(* DatabaseBackupMutation answers with its receipt, or moves one row from  *)
(* the state its phase expects to the state it names.                      *)
LEMMA MutationEffect ==
    ASSUME HoldInv, NEW o \in Ops, NEW phase \in Phases, DatabaseBackupMutation(o, phase)
    PROVE  /\ op' \in [Ops -> [state : States, held : BOOLEAN, source : Bindings, blob : BOOLEAN]]
           /\ task' \in [Ops \cup {Generic} -> {"none", "queued", "running", "succeeded", "failed"}]
           /\ lease' \in [Ops -> {"none", "active", "expired", "done"}]
           /\ receipts' \in [Ops -> SUBSET Phases]
           /\ lease[o] # "none" /\ \A p \in Ops : lease'[p] = "none" => lease[p] = "none"
           /\ \A p \in Ops : p # o => op'[p] = op[p] /\ receipts'[p] = receipts[p]
           /\ \/ UNCHANGED <<op, receipts>> /\ phase \in receipts[o]
              \/ /\ op[o].state = PhaseFrom[phase] /\ op[o].held
                 /\ op'[o].state = PhaseState[phase] /\ op'[o].source = op[o].source
                 /\ op'[o].held = PhaseHolds(o, phase)
                 /\ receipts'[o] = receipts[o] \cup {phase}
<1>t. /\ op \in [Ops -> [state : States, held : BOOLEAN, source : Bindings, blob : BOOLEAN]]
      /\ task \in [Ops \cup {Generic} -> {"none", "queued", "running", "succeeded", "failed"}]
      /\ lease \in [Ops -> {"none", "active", "expired", "done"}]
      /\ receipts \in [Ops -> SUBSET Phases]
  BY Zenon DEF HoldInv, Types
<1>l. lease[o] # "none"
  BY Zenon DEF DatabaseBackupMutation, databaseBackupAuthority
<1>1. CASE UNCHANGED <<op, task, lease, receipts>> /\ phase \in receipts[o]
  BY <1>1, <1>t, <1>l, Zenon
<1>2. CASE /\ MutationAdmitted(o, phase)
           /\ op' = [op EXCEPT ![o] = SetDatabaseBackupMutationState(o, phase)]
           /\ task' = CompleteDatabaseBackupTask(o, phase)
           /\ lease' = CompleteDatabaseBackupLease(o, phase)
           /\ receipts' = [receipts EXCEPT ![o] = @ \cup {phase}]
  <2> DEFINE v == SetDatabaseBackupMutationState(o, phase)
  <2>1. PhaseState[phase] \in States
    BY DEF PhaseState, Phases, States, Unsettled, Settled
  <2>2. PhaseHolds(o, phase) \in BOOLEAN
    BY Zenon DEF PhaseHolds
  <2>3. op[o] \in [state : States, held : BOOLEAN, source : Bindings, blob : BOOLEAN]
    BY <1>t, Zenon
  <2>4. /\ v \in [state : States, held : BOOLEAN, source : Bindings, blob : BOOLEAN]
        /\ v.state = PhaseState[phase] /\ v.source = op[o].source
        /\ v.held = PhaseHolds(o, phase)
    BY <2>1, <2>2, <2>3, Zenon DEF SetDatabaseBackupMutationState
  <2> HIDE DEF v
  <2>5. /\ op' \in [Ops -> [state : States, held : BOOLEAN, source : Bindings, blob : BOOLEAN]]
        /\ op'[o] = v /\ \A p \in Ops : p # o => op'[p] = op[p]
    BY <1>2, <1>t, <2>4, Zenon DEF v
  <2>6. task' \in [Ops \cup {Generic} -> {"none", "queued", "running", "succeeded", "failed"}]
    BY <1>2, <1>t, Zenon DEF CompleteDatabaseBackupTask
  <2>7. /\ lease' \in [Ops -> {"none", "active", "expired", "done"}]
        /\ \A p \in Ops : lease'[p] = "none" => lease[p] = "none"
    BY <1>2, <1>t, Zenon DEF CompleteDatabaseBackupLease
  <2>8. /\ receipts' \in [Ops -> SUBSET Phases]
        /\ receipts'[o] = receipts[o] \cup {phase}
        /\ \A p \in Ops : p # o => receipts'[p] = receipts[p]
    BY <1>2, <1>t, Zenon
  <2>9. op[o].state = PhaseFrom[phase] /\ op[o].held
    BY <1>2, Zenon DEF MutationAdmitted
  <2> QED
    BY <2>4, <2>5, <2>6, <2>7, <2>8, <2>9, <1>l, Zenon
<1> QED
  BY <1>1, <1>2, Zenon DEF DatabaseBackupMutation, ReadDatabaseBackupReceipt

(* A mutation whose report is true of the host leaves rows that are true,  *)
(* in the state its phase names.                                           *)
LEMMA MutationRows ==
    ASSUME HoldInv, NEW o \in Ops, NEW phase \in Phases, DatabaseBackupMutation(o, phase),
           UNCHANGED <<guest, host>>,
           phase = "complete" => host[o] = "whole" /\ o \notin guest
    PROVE  /\ \A p \in Ops : RowIsTrue(p)'
           /\ SourceIsDeployed' /\ BindingHasOneOwner'
           /\ phase # "intent" => op'[o].state = PhaseState[phase]
           /\ \A p \in Ops : p # o => op'[p] = op[p]
<1>1. /\ \A p \in Ops : p # o => op'[p] = op[p] /\ receipts'[p] = receipts[p]
      /\ \/ UNCHANGED <<op, receipts>> /\ phase \in receipts[o]
         \/ /\ op[o].state = PhaseFrom[phase] /\ op[o].held
            /\ op'[o].state = PhaseState[phase] /\ op'[o].source = op[o].source
            /\ op'[o].held = PhaseHolds(o, phase)
            /\ receipts'[o] = receipts[o] \cup {phase}
  BY MutationEffect, Zenon
<1>2. RowIsTrue(o) /\ child' = child
  BY Zenon DEF HoldInv, DatabaseBackupMutation
<1>3. CASE UNCHANGED <<op, receipts>> /\ phase \in receipts[o]
  <2>1. \A p \in Ops : RowIsTrue(p)'
    BY <1>3, RowsUntouched, Zenon
  <2>2. SourceIsDeployed' /\ BindingHasOneOwner'
    BY <1>2, <1>3, OwnersUntouched, Zenon
  <2>3. phase # "intent" => op[o].state = PhaseState[phase]
    BY <1>2, <1>3 DEF RowIsTrue, PhaseState, Phases
  <2> QED
    BY <1>3, <2>1, <2>2, <2>3, Zenon
<1>4. CASE /\ op[o].state = PhaseFrom[phase] /\ op[o].held
           /\ op'[o].state = PhaseState[phase] /\ op'[o].source = op[o].source
           /\ op'[o].held = PhaseHolds(o, phase)
           /\ receipts'[o] = receipts[o] \cup {phase}
  <2>1. RowIsTrue(o)'
    <3>1. CASE phase = "intent"
      <4>1. op[o].state = "dispatched" /\ op'[o].state = "applying"
        BY <1>4, <3>1, Zenon DEF PhaseFrom, PhaseState
      <4>2. op'[o].held
        BY <1>4, <3>1, Zenon DEF PhaseHolds
      <4>3. receipts'[o] = {"intent"} \cup receipts[o]
        BY <1>4, <3>1, Zenon
      <4> QED
        BY <4>1, <4>2, <4>3, <1>2, Zenon DEF RowIsTrue
    <3>2. CASE phase = "complete"
      <4>1. op[o].state = "applying" /\ op'[o].state = "succeeded"
        BY <1>4, <3>2, Zenon DEF PhaseFrom, PhaseState
      <4>2. ~op'[o].held
        BY <1>4, <3>2, Zenon DEF PhaseHolds
      <4>3. receipts'[o] = {"complete"} \cup receipts[o]
        BY <1>4, <3>2, Zenon
      <4>4. "succeeded" \notin Unsettled \cup {"uncertain"}
        BY Zenon DEF Unsettled
      <4> QED
        BY <4>1, <4>2, <4>3, <4>4, <3>2, <1>2, Zenon DEF RowIsTrue
    <3>3. CASE phase = "failed"
      <4>1. op[o].state = "dispatched" /\ op'[o].state = "failed"
        BY <1>4, <3>3, Zenon DEF PhaseFrom, PhaseState
      <4>3. receipts'[o] = {"failed"} \cup receipts[o]
        BY <1>4, <3>3, Zenon
      <4>4. "failed" \notin Unsettled \cup {"uncertain"}
        BY Zenon DEF Unsettled
      <4> QED
        BY <4>1, <4>3, <4>4, <1>2, Zenon DEF RowIsTrue
    <3>4. CASE phase = "uncertain"
      <4>1. op[o].state = "applying" /\ op'[o].state = "uncertain"
        BY <1>4, <3>4, Zenon DEF PhaseFrom, PhaseState
      <4>2. op'[o].held
        BY <1>4, <3>4, Zenon DEF PhaseHolds
      <4>3. receipts'[o] = {"uncertain"} \cup receipts[o]
        BY <1>4, <3>4, Zenon
      <4> QED
        BY <4>1, <4>2, <4>3, <1>2, Zenon DEF RowIsTrue
    <3> QED
      BY <3>1, <3>2, <3>3, <3>4, Zenon DEF Phases
  <2>2. \A p \in Ops : p # o => RowIsTrue(p)'
    BY <1>1, Zenon DEF HoldInv, RowIsTrue
  <2>3. \A p \in Ops : op'[p].source = op[p].source /\ (op'[p].held => op[p].held)
    BY <1>1, <1>4, Zenon
  <2>4. SourceIsDeployed'
    <3>1. \A p \in Ops : op'[p].source \in Restores => child'[op'[p].source] = "succeeded"
      BY <1>2, <2>3, Zenon DEF HoldInv, SourceIsDeployed
    <3>2. PhaseState[phase] # "none"
      BY DEF PhaseState, Phases
    <3>3. \A r \in Restores : op'[r].state = "none" => child'[r] = "none"
      BY <1>1, <1>2, <1>4, <3>2, Zenon DEF HoldInv, SourceIsDeployed, Ops
    <3> QED
      BY <3>1, <3>3, Zenon DEF SourceIsDeployed
  <2> QED
    BY <1>1, <1>4, <2>1, <2>2, <2>3, <2>4, HoldersOnlyLeave, Zenon
<1> QED
  BY <1>1, <1>3, <1>4, Zenon


(* SendIntent: the operation leaves "dispatched" with its intent on disk. *)
LEMMA SendIntentStep == ASSUME HoldInv, SendIntent PROVE HoldInv'
<1>0. pc = "intent" /\ UNCHANGED <<cur, journal, outcome, guest, host>>
  BY Zenon DEF SendIntent, box
<1>1. /\ cur \in Ops /\ op[cur].state = "dispatched" /\ lease[cur] # "none"
      /\ <<cur, "failed">> \notin journal /\ <<cur, "intent">> \in journal
      /\ <<cur, "complete">> \notin journal
  <2>1. /\ cur \in Ops /\ op[cur].state = "dispatched" /\ lease[cur] # "none"
        /\ <<cur, "failed">> \notin journal /\ <<cur, "intent">> \in journal
    BY <1>0, Zenon DEF HoldInv, RunnerIsAt
  <2> QED
    BY <2>1, Zenon DEF HoldInv, EntryIsTrue
<1>2. ASSUME DatabaseBackupMutation(cur, "intent"), pc' \in {"run", "down"}
      PROVE  HoldInv'
  <2>p. "intent" \in Phases
    BY Zenon DEF Phases
  <2>1. /\ op' \in [Ops -> [state : States, held : BOOLEAN, source : Bindings, blob : BOOLEAN]]
        /\ task' \in [Ops \cup {Generic} -> {"none", "queued", "running", "succeeded", "failed"}]
        /\ lease' \in [Ops -> {"none", "active", "expired", "done"}]
        /\ receipts' \in [Ops -> SUBSET Phases]
        /\ \A p \in Ops : lease'[p] = "none" => lease[p] = "none"
        /\ \/ UNCHANGED <<op, receipts>> /\ "intent" \in receipts[cur]
           \/ op'[cur].state = PhaseState["intent"]
    BY <1>1, <1>2, <2>p, MutationEffect, Zenon
  <2>2. /\ \A p \in Ops : RowIsTrue(p)'
        /\ SourceIsDeployed' /\ BindingHasOneOwner'
        /\ \A p \in Ops : p # cur => op'[p] = op[p]
    <3>1. "intent" # "complete"
      BY Zenon
    <3> QED
      BY <1>0, <1>1, <1>2, <2>p, <3>1, MutationRows, Zenon
  <2>3. op'[cur].state = "applying"
    <3>1. "intent" \notin receipts[cur]
      BY <1>1, Zenon DEF HoldInv, RowIsTrue
    <3> QED
      BY <2>1, <3>1, Zenon DEF PhaseState
  <2>4. Types'
    <3>1. UNCHANGED <<child, queue>>
      BY <1>2, Zenon DEF DatabaseBackupMutation
    <3>2. pc' \in Places
      BY <1>2, Zenon DEF Places
    <3> QED
      BY <1>0, <2>1, <3>1, <3>2, Zenon DEF HoldInv, Types
  <2>5. ASSUME NEW p \in Ops, p = cur
        PROVE  EntryIsTrue(p)'
    BY <1>0, <1>1, <2>1, <2>3, <2>5, Zenon DEF EntryIsTrue
  <2>6. \A p \in Ops : p # cur => EntryIsTrue(p)'
    BY <1>0, <2>1, <2>2, Zenon DEF HoldInv, EntryIsTrue
  <2>7. RunnerIsAt'
    BY <1>0, <1>1, <1>2, <2>1, <2>3, Zenon DEF RunnerIsAt
  <2> QED
    BY <2>2, <2>4, <2>5, <2>6, <2>7, Zenon DEF HoldInv
<1>3. ASSUME UNCHANGED server, pc' = "down"
      PROVE  HoldInv'
  <2>1. UNCHANGED <<op, child, task, queue, lease, receipts>>
    BY <1>3, Zenon DEF server
  <2>2. Types'
    <3>1. pc' \in Places
      BY <1>3, Zenon DEF Places
    <3> QED
      BY <1>0, <2>1, <3>1, Zenon DEF HoldInv, Types
  <2>3. RunnerIsAt'
    BY <1>3, Zenon DEF RunnerIsAt
  <2>4. \A p \in Ops : RowIsTrue(p)' /\ EntryIsTrue(p)'
    BY <1>0, <2>1, RowsUntouched, EntriesUntouched, Zenon
  <2> QED
    BY <2>1, <2>2, <2>3, <2>4, OwnersUntouched, Zenon DEF HoldInv
<1> QED
  BY <1>2, <1>3, Zenon DEF SendIntent

(* A saved result is reported, by the process that saved it or by the next *)
(* one, and the operation leaves the state in which effects are under way. *)
LEMMA ReportStep ==
    ASSUME HoldInv, NEW o \in Ops, NEW phase \in Phases \ {"intent"}, DatabaseBackupMutation(o, phase),
           UNCHANGED <<guest, host>>, <<o, phase>> \in journal,
           phase = "uncertain" => <<o, "complete">> \notin journal /\ <<o, "failed">> \notin journal,
           journal' \subseteq journal,
           \A p \in Ops, f \in Phases : p # o => (<<p, f>> \in journal' <=> <<p, f>> \in journal),
           pc' \in Places, RunnerIsAt'
    PROVE  HoldInv'
<1>p. phase \in Phases
  BY Zenon
<1>0. /\ phase = "complete" => host[o] = "whole" /\ o \notin guest
      /\ lease[o] # "none"
  BY Zenon DEF HoldInv, EntryIsTrue, DatabaseBackupMutation, databaseBackupAuthority
<1>1. /\ op' \in [Ops -> [state : States, held : BOOLEAN, source : Bindings, blob : BOOLEAN]]
      /\ task' \in [Ops \cup {Generic} -> {"none", "queued", "running", "succeeded", "failed"}]
      /\ lease' \in [Ops -> {"none", "active", "expired", "done"}]
      /\ receipts' \in [Ops -> SUBSET Phases]
      /\ \A p \in Ops : lease'[p] = "none" => lease[p] = "none"
  BY <1>p, MutationEffect, Zenon
<1>2. /\ \A p \in Ops : RowIsTrue(p)'
      /\ SourceIsDeployed' /\ BindingHasOneOwner'
      /\ op'[o].state = PhaseState[phase]
      /\ \A p \in Ops : p # o => op'[p] = op[p]
  BY <1>0, <1>p, MutationRows, Zenon
<1>3. Types'
  <2>1. UNCHANGED <<child, queue>>
    BY Zenon DEF DatabaseBackupMutation
  <2>2. journal' \subseteq Ops \X Phases
    BY Zenon DEF HoldInv, Types
  <2> QED
    BY <1>1, <2>1, <2>2, Zenon DEF HoldInv, Types
<1>4. EntryIsTrue(o)'
  <2>0. /\ <<o, "complete">> \in journal =>
              op[o].state \in {"applying", "succeeded"} /\ host[o] = "whole" /\ o \notin guest
        /\ <<o, "failed">> \in journal => op[o].state \in {"dispatched", "failed"}
        /\ lease'[o] # "none"
    BY <1>0, <1>1, Zenon DEF HoldInv, EntryIsTrue
  <2>1. CASE phase = "complete"
    <3>1. op'[o].state = "succeeded" /\ <<o, "failed">> \notin journal
      BY <2>0, <2>1, <1>2, Zenon DEF PhaseState
    <3> QED
      BY <2>0, <3>1, Zenon DEF EntryIsTrue
  <2>2. CASE phase = "failed"
    <3>1. op'[o].state = "failed" /\ <<o, "complete">> \notin journal
      BY <2>0, <2>2, <1>2, Zenon DEF PhaseState
    <3> QED
      BY <2>0, <3>1, Zenon DEF EntryIsTrue
  <2>3. CASE phase = "uncertain"
    <3>1. op'[o].state = "uncertain" /\ <<o, "complete">> \notin journal /\ <<o, "failed">> \notin journal
      BY <2>3, <1>2, Zenon DEF PhaseState
    <3> QED
      BY <2>0, <3>1, Zenon DEF EntryIsTrue
  <2> QED
    BY <2>1, <2>2, <2>3, Zenon DEF Phases
<1>5. ASSUME NEW p \in Ops, p # o
      PROVE  EntryIsTrue(p)'
  <2>1. /\ op'[p] = op[p] /\ (lease'[p] = "none" => lease[p] = "none")
        /\ \A f \in Phases : <<p, f>> \in journal' <=> <<p, f>> \in journal
    BY <1>1, <1>2, <1>5, Zenon
  <2>2. {"intent", "complete", "failed"} \subseteq Phases
    BY Zenon DEF Phases
  <2> QED
    BY <2>1, <2>2, Zenon DEF HoldInv, EntryIsTrue
<1> QED
  BY <1>2, <1>3, <1>4, <1>5, Zenon DEF HoldInv

(* SendResult, and the start-up that sends a saved result again. *)
LEMMA SendResultStep == ASSUME HoldInv, SendResult PROVE HoldInv'
<1>0. pc = "send" /\ UNCHANGED <<cur, journal, outcome, guest, host>>
  BY Zenon DEF SendResult, box
<1>1. /\ cur \in Ops /\ lease[cur] # "none" /\ <<cur, outcome>> \in journal
      /\ \/ outcome = "failed" /\ op[cur].state = "dispatched"
         \/ outcome = "complete" /\ op[cur].state = "applying"
         \/ outcome = "uncertain" /\ op[cur].state = "applying" /\ <<cur, "complete">> \notin journal
  BY <1>0, Zenon DEF HoldInv, RunnerIsAt
<1>2. outcome \in Phases \ {"intent"}
  BY <1>1, Zenon DEF Phases
<1>3. outcome = "uncertain" => <<cur, "complete">> \notin journal /\ <<cur, "failed">> \notin journal
  BY <1>1, Zenon DEF HoldInv, EntryIsTrue
<1>4. ASSUME DatabaseBackupMutation(cur, outcome),
             pc' = "down" \/ (pc' = "ack" /\ outcome # "uncertain")
      PROVE  HoldInv'
  <2>1. outcome = "complete" => host[cur] = "whole" /\ cur \notin guest
    BY <1>1, Zenon DEF HoldInv, EntryIsTrue
  <2>2. op'[cur].state = PhaseState[outcome]
    BY <1>0, <1>1, <1>2, <1>4, <2>1, MutationRows, Zenon
  <2>3. lease'[cur] # "none"
    BY <1>1, <1>2, <1>4, MutationEffect, Zenon
  <2>4. pc' = "ack" => op'[cur].state \in {"succeeded", "failed"}
    BY <1>1, <1>4, <2>2 DEF PhaseState
  <2>5. RunnerIsAt' /\ pc' \in Places
    BY <1>0, <1>1, <1>4, <2>3, <2>4, Zenon DEF RunnerIsAt, Places
  <2>6. journal' \subseteq journal
        /\ \A p \in Ops, f \in Phases : p # cur => (<<p, f>> \in journal' <=> <<p, f>> \in journal)
    BY <1>0, Zenon
  <2> QED
    <3>1. UNCHANGED <<guest, host>> /\ cur \in Ops /\ <<cur, outcome>> \in journal
      BY <1>0, <1>1, Zenon
    <3>2. DatabaseBackupMutation(cur, outcome)
      BY <1>4, Zenon
    <3> QED
      BY <3>1, <3>2, <1>2, <1>3, <2>5, <2>6, ReportStep, Zenon
<1>5. ASSUME UNCHANGED server, pc' = "down"
      PROVE  HoldInv'
  <2>1. UNCHANGED <<op, child, task, queue, lease, receipts>>
    BY <1>5, Zenon DEF server
  <2>2. Types'
    <3>1. pc' \in Places
      BY <1>5 DEF Places
    <3> QED
      BY <1>0, <2>1, <3>1, Zenon DEF HoldInv, Types
  <2>3. RunnerIsAt'
    BY <1>5 DEF RunnerIsAt
  <2>4. \A p \in Ops : RowIsTrue(p)' /\ EntryIsTrue(p)'
    BY <1>0, <2>1, RowsUntouched, EntriesUntouched, Zenon
  <2> QED
    BY <2>1, <2>2, <2>3, <2>4, OwnersUntouched, Zenon DEF HoldInv
<1> QED
  BY <1>4, <1>5, Zenon DEF SendResult

LEMMA ReplayStep ==
    ASSUME HoldInv, NEW o \in Ops, NEW phase \in Phases, ReconcileReplay(o, phase)
    PROVE  HoldInv'
<1>1. /\ pc' = "down" /\ UNCHANGED <<guest, host>> /\ <<o, phase>> \in journal
      /\ phase \in {"complete", "failed"} /\ DatabaseBackupMutation(o, phase)
      /\ journal' = journal \ {<<o, phase>>, <<o, "intent">>}
  BY Zenon DEF ReconcileReplay, box
<1>2. RunnerIsAt' /\ pc' \in Places
  BY <1>1, Zenon DEF RunnerIsAt, Places
<1>3. phase \in Phases \ {"intent"} /\ phase # "uncertain"
  BY <1>1, Zenon
<1>4. journal' \subseteq journal
      /\ \A p \in Ops, f \in Phases : p # o => (<<p, f>> \in journal' <=> <<p, f>> \in journal)
  BY <1>1, Zenon
<1> QED
  BY <1>1, <1>2, <1>3, <1>4, ReportStep, Zenon


-----------------------------------------------------------------------------
(* The server's other steps. *)

(* Jobs, the target's deployment, expiry and other runs touch neither a    *)
(* row nor the host.                                                       *)
LEMMA BackgroundStep ==
    ASSUME HoldInv,
           \/ \E o \in Ops : DiscardJob(o) \/ recoverUnscheduledDatabaseBackups(o) \/ LeaseExpires(o)
           \/ \E r \in Restores : ChildSettles(r)
           \/ ChangeOwner \/ QueueGeneric \/ ReconcileHeld \/ PollFindsNothing \/ UNCHANGED vars
    PROVE  HoldInv'
<1>t. /\ task \in [Ops \cup {Generic} -> {"none", "queued", "running", "succeeded", "failed"}]
      /\ queue \in Seq(Ops \cup {Generic})
      /\ lease \in [Ops -> {"none", "active", "expired", "done"}]
      /\ child \in [Restores -> {"none", "pending", "succeeded", "failed"}]
  BY Zenon DEF HoldInv, Types
<1>0. UNCHANGED <<op, receipts, pc, cur, journal, outcome, guest, host>>
  BY Zenon DEF DiscardJob, recoverUnscheduledDatabaseBackups, LeaseExpires, ChildSettles,
     ChangeOwner, QueueGeneric, ReconcileHeld, PollFindsNothing, runner, box, vars
<1>1. \/ UNCHANGED <<child, task, queue, lease>>
      \/ UNCHANGED <<child, lease>> /\ QueueGeneric
      \/ UNCHANGED child /\ \E o \in Ops : LeaseExpires(o)
      \/ UNCHANGED <<task, queue, lease>> /\ \E r \in Restores : ChildSettles(r)
  BY Zenon DEF DiscardJob, recoverUnscheduledDatabaseBackups, LeaseExpires, ChildSettles,
     ChangeOwner, QueueGeneric, ReconcileHeld, PollFindsNothing, vars
<1>2. /\ task' \in [Ops \cup {Generic} -> {"none", "queued", "running", "succeeded", "failed"}]
      /\ queue' \in Seq(Ops \cup {Generic})
  <2>1. CASE QueueGeneric
    BY <2>1, <1>t DEF QueueGeneric
  <2>2. ASSUME NEW o \in Ops, LeaseExpires(o)
        PROVE  /\ task' \in [Ops \cup {Generic} -> {"none", "queued", "running", "succeeded", "failed"}]
               /\ queue' \in Seq(Ops \cup {Generic})
    <3>1. o \in Ops \cup {Generic}
      BY Zenon
    <3> QED
      BY <3>1, <2>2, <1>t DEF LeaseExpires
  <2>3. CASE UNCHANGED <<task, queue>>
    BY <2>3, <1>t, Zenon
  <2> QED
    BY <1>1, <2>1, <2>2, <2>3, Zenon
<1>3. /\ lease' \in [Ops -> {"none", "active", "expired", "done"}]
      /\ \A o \in Ops : lease'[o] = "none" => lease[o] = "none"
  <2>1. ASSUME NEW o \in Ops, LeaseExpires(o)
        PROVE  /\ lease' \in [Ops -> {"none", "active", "expired", "done"}]
               /\ \A p \in Ops : lease'[p] = "none" => lease[p] = "none"
    BY <2>1, <1>t, Zenon DEF LeaseExpires
  <2>2. CASE UNCHANGED lease
    BY <2>2, <1>t, Zenon
  <2> QED
    BY <1>1, <2>1, <2>2, Zenon
<1>4. /\ child' \in [Restores -> {"none", "pending", "succeeded", "failed"}]
      /\ \A r \in Restores : child[r] \in {"none", "succeeded"} => child'[r] = child[r]
  <2>1. ASSUME NEW r \in Restores, ChildSettles(r)
        PROVE  /\ child' \in [Restores -> {"none", "pending", "succeeded", "failed"}]
               /\ \A q \in Restores : child[q] \in {"none", "succeeded"} => child'[q] = child[q]
    BY <2>1, <1>t, Zenon DEF ChildSettles
  <2>2. CASE UNCHANGED child
    BY <2>2, <1>t, Zenon
  <2> QED
    BY <1>1, <2>1, <2>2, Zenon
<1>5. Types'
  BY <1>0, <1>2, <1>3, <1>4, Zenon DEF HoldInv, Types
<1>6. SourceIsDeployed'
  <2>1. /\ \A o \in Ops : op[o].source \in Restores => child[op[o].source] = "succeeded"
        /\ \A r \in Restores : op[r].state = "none" => child[r] = "none"
    BY Zenon DEF HoldInv, SourceIsDeployed
  <2> QED
    BY <1>0, <1>4, <2>1, Zenon DEF SourceIsDeployed
<1>7. BindingHasOneOwner'
  BY <1>0, Zenon DEF HoldInv, BindingHasOneOwner
<1>8. RunnerIsAt' /\ \A o \in Ops : RowIsTrue(o)' /\ EntryIsTrue(o)'
  BY <1>0, <1>3, RowsUntouched, EntriesUntouched, PlaceUntouched, Zenon
<1> QED
  BY <1>5, <1>6, <1>7, <1>8, Zenon DEF HoldInv

(* ClaimRun: the lease trigger lets an operation be claimed once, when it  *)
(* is dispatched and the runner has nothing saved of it.                   *)
LEMMA ClaimStep == ASSUME HoldInv, ClaimRun PROVE HoldInv'
<1>t. /\ task \in [Ops \cup {Generic} -> {"none", "queued", "running", "succeeded", "failed"}]
      /\ queue \in Seq(Ops \cup {Generic})
      /\ lease \in [Ops -> {"none", "active", "expired", "done"}]
  BY Zenon DEF HoldInv, Types
<1>0. UNCHANGED <<op, child, receipts, journal, outcome, guest, host>> /\ pc = "idle"
  BY Zenon DEF ClaimRun
<1>1. PICK i \in 1..Len(queue) :
        IF queue[i] # Generic /\ ~CreateActiveRunLease(queue[i])
        THEN pc' = "down" /\ UNCHANGED <<cur, task, queue, lease>>
        ELSE /\ queue' = [j \in 1 .. Len(queue) - 1 |-> IF j < i THEN queue[j] ELSE queue[j + 1]]
             /\ task' = [task EXCEPT ![queue[i]] = "running"]
             /\ IF queue[i] = Generic
                THEN UNCHANGED <<pc, cur, lease>>
                ELSE /\ lease' = [lease EXCEPT ![queue[i]] = "active"]
                     /\ pc' = "claimed" /\ cur' = queue[i]
  BY Zenon DEF ClaimRun
<1>2. queue[i] \in Ops \cup {Generic} /\ Len(queue) \in Nat
  BY <1>t
<1>3. /\ task' \in [Ops \cup {Generic} -> {"none", "queued", "running", "succeeded", "failed"}]
      /\ queue' \in Seq(Ops \cup {Generic})
  <2>1. CASE UNCHANGED <<task, queue>>
    BY <2>1, <1>t, Zenon
  <2>2. CASE /\ queue' = [j \in 1 .. Len(queue) - 1 |-> IF j < i THEN queue[j] ELSE queue[j + 1]]
             /\ task' = [task EXCEPT ![queue[i]] = "running"]
    <3>1. task' \in [Ops \cup {Generic} -> {"none", "queued", "running", "succeeded", "failed"}]
      BY <1>2, <1>t, <2>2, Zenon
    <3>2. Len(queue) - 1 \in Nat
      BY <1>2
    <3>3. \A j \in 1 .. Len(queue) - 1 :
              (IF j < i THEN queue[j] ELSE queue[j + 1]) \in Ops \cup {Generic}
      <4>1. \A j \in 1 .. Len(queue) - 1 : j \in 1..Len(queue) /\ j + 1 \in 1..Len(queue)
        BY <1>2
      <4>2. \A j \in 1..Len(queue) : queue[j] \in Ops \cup {Generic}
        BY <1>t
      <4> QED
        BY <4>1, <4>2, Zenon
    <3>4. queue' \in [1 .. Len(queue) - 1 -> Ops \cup {Generic}]
      BY <2>2, <3>3, Zenon
    <3> QED
      BY <3>1, <3>2, <3>4, SeqDef
  <2> QED
    BY <1>1, <2>1, <2>2, Zenon
<1>4. CASE UNCHANGED lease /\ pc' \in {"down", "idle"}
  <2>1. Types'
    <3>1. pc' \in Places
      BY <1>4, Zenon DEF Places
    <3> QED
      BY <1>0, <1>3, <1>4, <3>1, Zenon DEF HoldInv, Types
  <2>2. RunnerIsAt'
    BY <1>4, Zenon DEF RunnerIsAt
  <2>3. \A o \in Ops : RowIsTrue(o)' /\ EntryIsTrue(o)'
    BY <1>0, <1>4, RowsUntouched, EntriesUntouched, Zenon
  <2> QED
    BY <1>0, <2>1, <2>2, <2>3, OwnersUntouched, Zenon DEF HoldInv
<1>5. CASE /\ queue[i] # Generic /\ CreateActiveRunLease(queue[i])
           /\ lease' = [lease EXCEPT ![queue[i]] = "active"]
           /\ pc' = "claimed" /\ cur' = queue[i]
  <2>1. queue[i] \in Ops
    BY <1>2, <1>5, Zenon
  <2>2. op[queue[i]].state = "dispatched" /\ lease[queue[i]] = "none"
    BY <1>5, Zenon DEF CreateActiveRunLease
  <2>3. <<queue[i], "failed">> \notin journal
    <3>1. "failed" \in Phases
      BY Zenon DEF Phases
    <3> QED
      BY <2>1, <2>2, <3>1, Zenon DEF HoldInv, EntryIsTrue
  <2>4. /\ lease' \in [Ops -> {"none", "active", "expired", "done"}]
        /\ lease'[queue[i]] = "active"
        /\ \A o \in Ops : lease'[o] = "none" => lease[o] = "none"
    BY <1>5, <1>t, <2>1, Zenon
  <2>5. RunnerIsAt'
    BY <1>0, <1>5, <2>1, <2>2, <2>3, <2>4, Zenon DEF RunnerIsAt
  <2>6. Types'
    <3>1. pc' \in Places
      BY <1>5, Zenon DEF Places
    <3> QED
      BY <1>0, <1>3, <2>4, <3>1, Zenon DEF HoldInv, Types
  <2>7. \A o \in Ops : RowIsTrue(o)' /\ EntryIsTrue(o)'
    BY <1>0, <2>4, RowsUntouched, EntriesUntouched, Zenon
  <2> QED
    BY <1>0, <2>5, <2>6, <2>7, OwnersUntouched, Zenon DEF HoldInv
<1> QED
  BY <1>0, <1>1, <1>4, <1>5, Zenon


-----------------------------------------------------------------------------
(* The runner's own steps, between its calls. *)

(* What remains to be shown of a step that leaves the server alone. *)
LEMMA RunnerOnly ==
    ASSUME HoldInv, UNCHANGED server, journal' \subseteq Ops \X Phases, guest' \subseteq Ops,
           host' \in [Ops -> {"none", "partial", "whole"}], pc' \in Places, RunnerIsAt',
           \A o \in Ops : RowIsTrue(o)' /\ EntryIsTrue(o)'
    PROVE  HoldInv'
<1>1. UNCHANGED <<op, child, task, queue, lease, receipts>>
  BY Zenon DEF server
<1>2. Types'
  BY <1>1, Zenon DEF HoldInv, Types
<1> QED
  BY <1>1, <1>2, OwnersUntouched, Zenon DEF HoldInv

(* Steps that only move the runner: reading the plan, a tool that failed,  *)
(* the check of authority, a crash, a start-up with nothing saved.         *)
LEMMA MoveStep ==
    ASSUME HoldInv, LoadPlan \/ ToolFails \/ CheckAgain \/ Crash \/ ReconcileEmpty
    PROVE  HoldInv'
<1>0. UNCHANGED <<server, journal, guest, host>>
  BY Zenon DEF LoadPlan, ToolFails, CheckAgain, Crash, ReconcileEmpty, box
<1>1. UNCHANGED <<op, lease, receipts>>
  BY <1>0, Zenon DEF server
<1>2. RunnerIsAt' /\ pc' \in Places
  <2>1. CASE LoadPlan
    <3>1. pc = "claimed" /\ pc' \in {"preflight", "down"} /\ cur' = cur
      BY <2>1, Zenon DEF LoadPlan
    <3>2. cur \in Ops /\ lease[cur] # "none" /\ op[cur].state = "dispatched" /\ <<cur, "failed">> \notin journal
      BY <3>1, Zenon DEF HoldInv, RunnerIsAt
    <3> QED
      BY <1>0, <1>1, <3>1, <3>2, Zenon DEF RunnerIsAt, Places
  <2>2. CASE ToolFails \/ CheckAgain
    <3>1. /\ pc \in {"tool", "check"} /\ cur' = cur
          /\ \/ pc' = "record" /\ outcome' = "uncertain"
             \/ pc = "check" /\ pc' = "finish"
      BY <2>2, Zenon DEF ToolFails, CheckAgain, Unsure
    <3>2. /\ cur \in Ops /\ lease[cur] # "none" /\ op[cur].state = "applying" /\ <<cur, "complete">> \notin journal
          /\ pc = "check" => cur \notin guest /\ (cur \in Restores => host[cur] = "whole")
      BY <3>1, Zenon DEF HoldInv, RunnerIsAt
    <3> QED
      BY <1>0, <1>1, <3>1, <3>2, Zenon DEF RunnerIsAt, Places
  <2>3. CASE Crash \/ ReconcileEmpty
    <3>1. pc' \in {"down", "idle"}
      BY <2>3, Zenon DEF Crash, ReconcileEmpty
    <3> QED
      BY <3>1, Zenon DEF RunnerIsAt, Places
  <2> QED
    BY <2>1, <2>2, <2>3, Zenon
<1>3. \A o \in Ops : RowIsTrue(o)' /\ EntryIsTrue(o)'
  BY <1>0, <1>1, RowsUntouched, EntriesUntouched, Zenon
<1>4. /\ journal' \subseteq Ops \X Phases /\ guest' \subseteq Ops
      /\ host' \in [Ops -> {"none", "partial", "whole"}]
  BY <1>0, Zenon DEF HoldInv, Types
<1> QED
  BY <1>0, <1>2, <1>3, <1>4, RunnerOnly, Zenon

(* AppendDatabaseBackup: an entry is saved of the operation at hand, and   *)
(* it is true when it is saved.                                            *)
LEMMA SaveStep ==
    ASSUME HoldInv, PreflightFails \/ JournalIntent \/ RecordResult
    PROVE  HoldInv'
<1>0. UNCHANGED <<server, guest, host, cur>>
  BY Zenon DEF PreflightFails, JournalIntent, RecordResult, box
<1>1. UNCHANGED <<op, lease, receipts>>
  BY <1>0, Zenon DEF server
<1>2. pc \in {"preflight", "record"}
  BY Zenon DEF PreflightFails, JournalIntent, RecordResult
<1>3. /\ cur \in Ops /\ lease[cur] # "none"
      /\ pc = "preflight" => op[cur].state = "dispatched" /\ <<cur, "failed">> \notin journal
      /\ pc = "record" =>
             /\ op[cur].state = "applying" /\ <<cur, "complete">> \notin journal
             /\ \/ outcome = "uncertain"
                \/ outcome = "complete" /\ cur \notin guest /\ host[cur] = "whole"
  BY <1>2, Zenon DEF HoldInv, RunnerIsAt
<1>4. PICK phase \in Phases :
         /\ journal' = journal \cup {<<cur, phase>>}
         /\ \/ pc = "preflight" /\ phase = "failed" /\ pc' = "send" /\ outcome' = phase
            \/ pc = "preflight" /\ phase = "intent" /\ pc' = "intent"
            \/ pc = "record" /\ phase = outcome /\ pc' = "send" /\ outcome' = phase
  <2>1. CASE PreflightFails
    BY <2>1, Zenon DEF PreflightFails, AppendDatabaseBackup, Phases
  <2>2. CASE JournalIntent
    BY <2>2, Zenon DEF JournalIntent, AppendDatabaseBackup, Phases
  <2>3. CASE RecordResult
    <3>1. pc = "record" /\ outcome \in Phases
      BY <2>3, <1>3, Zenon DEF RecordResult, Phases
    <3> QED
      BY <2>3, <3>1, Zenon DEF RecordResult, AppendDatabaseBackup
  <2> QED
    BY <2>1, <2>2, <2>3, Zenon
<1>5. /\ phase = "complete" => op[cur].state = "applying" /\ cur \notin guest /\ host[cur] = "whole"
      /\ phase = "failed" => op[cur].state = "dispatched"
  BY <1>3, <1>4, Zenon
<1>6. ASSUME NEW o \in Ops
      PROVE  EntryIsTrue(o)'
  <2>1. EntryIsTrue(o)
    BY Zenon DEF HoldInv
  <2>2. CASE o # cur
    <3>1. \A f : <<o, f>> \in journal' <=> <<o, f>> \in journal
      BY <1>4, <2>2, Zenon
    <3> QED
      BY <1>0, <1>1, <2>1, <3>1, Zenon DEF EntryIsTrue
  <2>3. CASE o = cur
    <3>1. \A f : <<o, f>> \in journal' <=> (<<o, f>> \in journal \/ f = phase)
      BY <1>4, <2>3, Zenon
    <3> QED
      BY <1>0, <1>1, <1>3, <1>5, <2>1, <2>3, <3>1, Zenon DEF EntryIsTrue
  <2> QED
    BY <2>2, <2>3, Zenon
<1>7. RunnerIsAt' /\ pc' \in Places
  <2>1. \A f : <<cur, f>> \in journal' <=> (<<cur, f>> \in journal \/ f = phase)
    BY <1>4, Zenon
  <2>2. CASE pc' = "intent"
    BY <1>0, <1>1, <1>3, <1>4, <2>1, <2>2, Zenon DEF RunnerIsAt, Places
  <2>3. CASE pc' = "send"
    BY <1>0, <1>1, <1>3, <1>4, <2>1, <2>3, Zenon DEF RunnerIsAt, Places
  <2> QED
    BY <1>4, <2>2, <2>3, Zenon
<1>8. \A o \in Ops : RowIsTrue(o)'
  BY <1>0, <1>1, RowsUntouched, Zenon
<1>9. /\ journal' \subseteq Ops \X Phases /\ guest' \subseteq Ops
      /\ host' \in [Ops -> {"none", "partial", "whole"}]
  BY <1>0, <1>3, <1>4 DEF HoldInv, Types
<1> QED
  BY <1>0, <1>6, <1>7, <1>8, <1>9, RunnerOnly, Zenon

(* AckDatabaseBackup: entries leave the journal when the operation is no   *)
(* longer under way for the server.                                        *)
LEMMA AckStep == ASSUME HoldInv, AckIntent \/ AckResult PROVE HoldInv'
<1>0. UNCHANGED <<server, guest, host>> /\ pc = "ack"
  BY Zenon DEF AckIntent, AckResult, box
<1>1. UNCHANGED <<op, lease, receipts>>
  BY <1>0, Zenon DEF server
<1>2. cur \in Ops /\ lease[cur] # "none" /\ op[cur].state \in {"succeeded", "failed"}
  BY <1>0, Zenon DEF HoldInv, RunnerIsAt
<1>3. /\ journal' \subseteq journal
      /\ \A o \in Ops : \A f : o # cur => (<<o, f>> \in journal' <=> <<o, f>> \in journal)
      /\ (pc' = "ack" /\ cur' = cur) \/ pc' = "idle"
  BY <1>0, Zenon DEF AckIntent, AckResult, AckDatabaseBackup
<1>4. ASSUME NEW o \in Ops
      PROVE  EntryIsTrue(o)'
  <2>1. EntryIsTrue(o)
    BY Zenon DEF HoldInv
  <2>2. op[o].state = "applying" => o # cur
    BY <1>2, Zenon
  <2> QED
    BY <1>0, <1>1, <1>3, <2>1, <2>2, Zenon DEF EntryIsTrue
<1>5. RunnerIsAt' /\ pc' \in Places
  BY <1>1, <1>2, <1>3, Zenon DEF RunnerIsAt, Places
<1>6. \A o \in Ops : RowIsTrue(o)'
  BY <1>0, <1>1, RowsUntouched, Zenon
<1>7. /\ journal' \subseteq Ops \X Phases /\ guest' \subseteq Ops
      /\ host' \in [Ops -> {"none", "partial", "whole"}]
  BY <1>0, <1>3, Zenon DEF HoldInv, Types
<1> QED
  BY <1>0, <1>4, <1>5, <1>6, <1>7, RunnerOnly, Zenon

(* The host changes only under an operation that is being applied or whose *)
(* end is uncertain, and never under a saved complete result.              *)
LEMMA HostStep ==
    ASSUME HoldInv, UNCHANGED <<server, journal>>, NEW o \in Ops,
           op[o].state \in {"applying", "uncertain"}, <<o, "complete">> \notin journal,
           guest' \subseteq Ops, host' \in [Ops -> {"none", "partial", "whole"}],
           \A p \in Ops : p # o => host'[p] = host[p] /\ (p \in guest' <=> p \in guest),
           pc' \in Places, RunnerIsAt'
    PROVE  HoldInv'
<1>1. UNCHANGED <<op, lease, receipts>>
  BY Zenon DEF server
<1>2. RowIsTrue(o)' /\ EntryIsTrue(o)'
  <2>1. RowIsTrue(o) /\ EntryIsTrue(o)
    BY Zenon DEF HoldInv
  <2> QED
    BY <1>1, <2>1, Zenon DEF RowIsTrue, EntryIsTrue
<1>3. \A p \in Ops : p # o => RowIsTrue(p)' /\ EntryIsTrue(p)'
  BY <1>1, Zenon DEF HoldInv, RowIsTrue, EntryIsTrue
<1>4. journal' \subseteq Ops \X Phases
  BY Zenon DEF HoldInv, Types
<1> QED
  BY <1>2, <1>3, <1>4, RunnerOnly, Zenon

(* StartTool, ToolSucceeds and Finish act on the operation at hand. *)
LEMMA ToolStep ==
    ASSUME HoldInv, StartTool \/ ToolSucceeds \/ Finish
    PROVE  HoldInv'
<1>t. guest \subseteq Ops /\ host \in [Ops -> {"none", "partial", "whole"}]
  BY Zenon DEF HoldInv, Types
<1>0. UNCHANGED <<server, journal, cur>> /\ pc \in {"run", "tool", "finish"}
  BY Zenon DEF StartTool, ToolSucceeds, Finish
<1>1. UNCHANGED <<op, lease, receipts>>
  BY <1>0, Zenon DEF server
<1>2. /\ cur \in Ops /\ lease[cur] # "none" /\ op[cur].state = "applying" /\ <<cur, "complete">> \notin journal
      /\ pc = "finish" => cur \notin guest /\ (cur \in Restores => host[cur] = "whole")
  BY <1>0, Zenon DEF HoldInv, RunnerIsAt
<1>3. /\ guest' \subseteq Ops /\ host' \in [Ops -> {"none", "partial", "whole"}]
      /\ \A p \in Ops : p # cur => host'[p] = host[p] /\ (p \in guest' <=> p \in guest)
      /\ \/ pc' = "tool"
         \/ pc' = "check" /\ cur \notin guest' /\ (cur \in Restores => host'[cur] = "whole")
         \/ pc' = "record" /\ outcome' = "uncertain"
         \/ pc' = "record" /\ outcome' = "complete" /\ cur \notin guest' /\ host'[cur] = "whole"
  <2>1. CASE StartTool
    BY <2>1, <1>t, <1>2 DEF StartTool, Unsure, box
  <2>2. CASE ToolSucceeds
    BY <2>2, <1>t, <1>2, Zenon DEF ToolSucceeds
  <2>3. CASE Finish
    <3>1. cur \in Backups \/ cur \in Restores
      BY <1>2, Zenon DEF Ops
    <3> QED
      BY <2>3, <1>t, <1>2, <3>1, Zenon DEF Finish, Unsure
  <2> QED
    BY <2>1, <2>2, <2>3, Zenon
<1>4. RunnerIsAt' /\ pc' \in Places
  BY <1>0, <1>1, <1>2, <1>3, Zenon DEF RunnerIsAt, Places
<1>5. UNCHANGED <<server, journal>> /\ op[cur].state \in {"applying", "uncertain"}
  BY <1>0, <1>2, Zenon
<1> QED
  BY <1>2, <1>3, <1>4, <1>5, HostStep, Zenon

(* A tool whose client is gone goes on and stops by itself. *)
LEMMA GuestStep ==
    ASSUME HoldInv, NEW o \in Ops, GuestStops(o)
    PROVE  HoldInv'
<1>t. guest \subseteq Ops /\ host \in [Ops -> {"none", "partial", "whole"}] /\ pc \in Places
  BY Zenon DEF HoldInv, Types
<1>0. UNCHANGED <<server, pc, cur, journal, outcome>> /\ o \in guest /\ guest' = guest \ {o}
  BY Zenon DEF GuestStops, runner
<1>1. UNCHANGED <<op, lease, receipts>>
  BY <1>0, Zenon DEF server
<1>2. op[o].state \in {"applying", "uncertain"} /\ <<o, "complete">> \notin journal
  BY <1>0, Zenon DEF HoldInv, RowIsTrue, EntryIsTrue
<1>3. /\ guest' \subseteq Ops /\ host' \in [Ops -> {"none", "partial", "whole"}]
      /\ \A p \in Ops : p # o => host'[p] = host[p] /\ (p \in guest' <=> p \in guest)
  BY <1>0, <1>t, Zenon DEF GuestStops
<1>4. RunnerIsAt'
  <2>1. CASE cur = o \/ cur \notin Ops
    <3>1. pc \notin {"check", "finish"} /\ ~(pc = "record" /\ outcome = "complete")
      BY <2>1, <1>0, Zenon DEF HoldInv, RunnerIsAt
    <3> QED
      BY <1>0, <1>1, <3>1, Zenon DEF HoldInv, RunnerIsAt
  <2>2. CASE cur # o /\ cur \in Ops
    <3>1. host'[cur] = host[cur] /\ (cur \in guest' <=> cur \in guest)
      BY <2>2, <1>3, Zenon
    <3> QED
      BY <1>0, <1>1, <3>1, Zenon DEF HoldInv, RunnerIsAt
  <2> QED
    BY <2>1, <2>2, Zenon
<1>5. UNCHANGED <<server, journal>> /\ pc' \in Places
  BY <1>0, <1>t, Zenon
<1> QED
  BY <1>2, <1>3, <1>4, <1>5, HostStep, Zenon

-----------------------------------------------------------------------------
(* Every step keeps the invariant. *)
LEMMA HoldInvNext == HoldInv /\ [Next]_vars => HoldInv'
<1> SUFFICES ASSUME HoldInv, [Next]_vars
             PROVE  HoldInv'
  BY Zenon
<1>1. CASE \E o \in Backups, b \in Bindings : RequestDatabaseBackup(o, b)
  BY <1>1, RequestBackupStep, Zenon
<1>2. CASE \E r \in Restores, b \in Backups : RequestDatabaseBackupRestore(r, b)
  BY <1>2, RequestRestoreStep, Zenon
<1>3. CASE \E o \in Ops : PrepareDatabaseBackup(o) \/ GuestStops(o)
  BY <1>3, PrepareStep, GuestStep, Zenon
<1>4. CASE \/ \E o \in Ops : DiscardJob(o) \/ recoverUnscheduledDatabaseBackups(o) \/ LeaseExpires(o)
           \/ \E r \in Restores : ChildSettles(r)
           \/ ChangeOwner \/ QueueGeneric \/ ReconcileHeld \/ PollFindsNothing \/ UNCHANGED vars
  BY <1>4, BackgroundStep, Zenon
<1>5. CASE ClaimRun \/ SendIntent \/ SendResult
  BY <1>5, ClaimStep, SendIntentStep, SendResultStep, Zenon
<1>6. CASE LoadPlan \/ ToolFails \/ CheckAgain \/ Crash \/ ReconcileEmpty
  BY <1>6, MoveStep, Zenon
<1>7. CASE PreflightFails \/ JournalIntent \/ RecordResult \/ AckIntent \/ AckResult
  BY <1>7, SaveStep, AckStep, Zenon
<1>8. CASE StartTool \/ ToolSucceeds \/ Finish
  BY <1>8, ToolStep, Zenon
<1>9. CASE \E o \in Ops, phase \in Phases : ReconcileReplay(o, phase)
  BY <1>9, ReplayStep, Zenon
<1> QED
  BY <1>1, <1>2, <1>3, <1>4, <1>5, <1>6, <1>7, <1>8, <1>9, Zenon DEF Next, RunnerStep

(* Through crashes, lost answers, expired leases and withdrawn authority,  *)
(* a tool that may run or half-written data keeps the operation's hold, no *)
(* dump reads what a restore writes, the history says what happened on the *)
(* host, and what is applied has its intent on disk (the receipts of       *)
(* DatabaseBackupMutation, the lease trigger, the executor's journal).     *)
THEOREM DatabaseHoldsAlwaysFollowEffects == Spec => []DatabaseHoldsFollowEffects
<1>1. Init => HoldInv
  BY HoldInvInit, Zenon
<1>2. HoldInv /\ [Next]_vars => HoldInv'
  BY HoldInvNext, Zenon
<1>3. HoldInv => DatabaseHoldsFollowEffects
  BY HoldInvImplies, Zenon
<1> QED
  BY <1>1, <1>2, <1>3, PTL DEF Spec


(* What no step may do: change the row of an operation that is settled, or *)
(* touch on the host what was reported as succeeded or as never begun.     *)
SettledStands ==
    \A o \in Ops : op[o].state \in Settled =>
        /\ op'[o] = op[o]
        /\ op[o].state # "uncertain" => host'[o] = host[o] /\ o \notin guest'

(* A mutation moves an operation only from "dispatched" or "applying". *)
LEMMA MutationSparesSettled ==
    ASSUME HoldInv, NEW o \in Ops, NEW phase \in Phases, DatabaseBackupMutation(o, phase)
    PROVE  \A p \in Ops : op[p].state \in Settled => op'[p] = op[p]
<1>1. /\ \A p \in Ops : p # o => op'[p] = op[p]
      /\ op' = op \/ op[o].state = PhaseFrom[phase]
  <2>1. /\ \A p \in Ops : p # o => op'[p] = op[p] /\ receipts'[p] = receipts[p]
        /\ \/ UNCHANGED <<op, receipts>> /\ phase \in receipts[o]
           \/ op[o].state = PhaseFrom[phase]
    BY MutationEffect, Zenon
  <2> QED
    BY <2>1, Zenon
<1>2. PhaseFrom[phase] \notin Settled
  BY DEF PhaseFrom, Phases, Settled
<1> QED
  BY <1>1, <1>2, Zenon

(* The rows of settled operations are final. *)
LEMMA SettledRowsStand ==
    ASSUME HoldInv, [Next]_vars
    PROVE  \A p \in Ops : op[p].state \in Settled => op'[p] = op[p]
<1>0. /\ op \in [Ops -> [state : States, held : BOOLEAN, source : Bindings, blob : BOOLEAN]]
      /\ Early \cap Settled = {}
  BY Zenon DEF HoldInv, Types, Early, Settled
<1>1. ASSUME NEW o \in Ops, op[o].state \in Early, NEW v, op' = [op EXCEPT ![o] = v]
      PROVE  \A p \in Ops : op[p].state \in Settled => op'[p] = op[p]
  BY <1>0, <1>1, Zenon
<1>2. CASE \E o \in Backups, b \in Bindings : RequestDatabaseBackup(o, b)
  <2>1. PICK o \in Backups, b \in Bindings : RequestDatabaseBackup(o, b)
    BY <1>2, Zenon
  <2>2. o \in Ops /\ op[o].state \in Early /\ \E v : op' = [op EXCEPT ![o] = v]
    BY <2>1, Zenon DEF RequestDatabaseBackup, CreateDatabaseBackup, Ops, Early
  <2> QED
    BY <1>1, <2>2, Zenon
<1>3. CASE \E r \in Restores, b \in Backups : RequestDatabaseBackupRestore(r, b)
  <2>1. PICK r \in Restores, b \in Backups : RequestDatabaseBackupRestore(r, b)
    BY <1>3, Zenon
  <2>2. r \in Ops /\ op[r].state \in Early /\ \E v : op' = [op EXCEPT ![r] = v]
    BY <2>1, Zenon DEF RequestDatabaseBackupRestore, CreateDatabaseBackupRestore, Ops, Early
  <2> QED
    BY <1>1, <2>2, Zenon
<1>4. ASSUME NEW o \in Ops, PrepareDatabaseBackup(o)
      PROVE  \A p \in Ops : op[p].state \in Settled => op'[p] = op[p]
  <2>1. \/ UNCHANGED op
        \/ op[o].state \in Early /\ \E v : op' = [op EXCEPT ![o] = v]
    BY <1>4, Zenon DEF PrepareDatabaseBackup, DispatchDatabaseBackup,
        MarkDatabaseBackupExecutionUncertain, Early
  <2> QED
    BY <1>1, <2>1, Zenon
<1>5. CASE SendIntent
  <2>1. cur \in Ops /\ "intent" \in Phases
    BY <1>5, Zenon DEF SendIntent, HoldInv, RunnerIsAt, Phases
  <2> QED
    BY <1>5, <2>1, MutationSparesSettled, Zenon DEF SendIntent, server
<1>6. CASE SendResult
  <2>1. cur \in Ops /\ outcome \in Phases
    BY <1>6, Zenon DEF SendResult, HoldInv, RunnerIsAt, Phases
  <2> QED
    BY <1>6, <2>1, MutationSparesSettled, Zenon DEF SendResult, server
<1>7. CASE \E o \in Ops, phase \in Phases : ReconcileReplay(o, phase)
  BY <1>7, MutationSparesSettled, Zenon DEF ReconcileReplay
<1>8. CASE \/ \E o \in Ops : \/ DiscardJob(o) \/ recoverUnscheduledDatabaseBackups(o)
                             \/ LeaseExpires(o) \/ GuestStops(o)
           \/ \E r \in Restores : ChildSettles(r)
           \/ ChangeOwner \/ QueueGeneric \/ ReconcileHeld \/ PollFindsNothing \/ UNCHANGED vars
           \/ ClaimRun \/ LoadPlan \/ ToolFails \/ CheckAgain \/ Crash \/ ReconcileEmpty
           \/ PreflightFails \/ JournalIntent \/ RecordResult \/ AckIntent \/ AckResult
           \/ StartTool \/ ToolSucceeds \/ Finish
  <2>1. UNCHANGED op
    BY <1>8, Zenon DEF DiscardJob, recoverUnscheduledDatabaseBackups, LeaseExpires, GuestStops,
       ChildSettles, ChangeOwner, QueueGeneric, ReconcileHeld, PollFindsNothing, vars, ClaimRun,
       LoadPlan, ToolFails, CheckAgain, Crash, ReconcileEmpty, PreflightFails, JournalIntent,
       RecordResult, AckIntent, AckResult, StartTool, ToolSucceeds, Finish, server
  <2> QED
    BY <2>1, Zenon
<1> QED
  BY <1>2, <1>3, <1>4, <1>5, <1>6, <1>7, <1>8, Zenon DEF Next, RunnerStep

(* A settled operation is never changed, and what the history calls        *)
(* succeeded or failed is never touched again: no tool of it is running or *)
(* starts later, whatever was lost or repeated (DatabaseBackupMutation).   *)
THEOREM SettledAlwaysStands == Spec => [][SettledStands]_vars
<1>1. ASSUME HoldInv, HoldInv', [Next]_vars
      PROVE  SettledStands
  <2>1. \A o \in Ops : op[o].state \in Settled => op'[o] = op[o]
    BY <1>1, SettledRowsStand, Zenon
  <2>2. ASSUME NEW o \in Ops, op[o].state \in {"succeeded", "failed"}, op'[o] = op[o]
        PROVE  host'[o] = host[o] /\ o \notin guest'
    <3>1. RowIsTrue(o) /\ RowIsTrue(o)'
      BY <1>1, Zenon DEF HoldInv
    <3> QED
      BY <2>2, <3>1, Zenon DEF RowIsTrue
  <2> QED
    BY <2>1, <2>2, Zenon DEF SettledStands, Settled
<1>2. Init => HoldInv
  BY HoldInvInit
<1>3. HoldInv /\ [Next]_vars => HoldInv'
  BY HoldInvNext
<1> QED
  BY <1>1, <1>2, <1>3, PTL DEF Spec
=============================================================================
