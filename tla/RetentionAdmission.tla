------------------------- MODULE RetentionAdmission -------------------------
(***************************************************************************)
(* Admission of backup retention on one runner's private archive pool.     *)
(* Backups publish content-addressed files, restores read them, owners and *)
(* the publication trigger preview and execute deletions.  Every action is *)
(* one transaction under the advisory lock on copy admission; the steps of *)
(* the publication reconciler are separate transactions.  The policy keeps *)
(* the newest copy.  What a batch does to its reserved copies is Settle    *)
(* here and BackupRetention in detail.                                     *)
(***************************************************************************)
EXTENDS Integers, FiniteSets

CONSTANTS
    NCopies,      \* backups, numbered in the order of their creation
    Loc,          \* the archive file (server, pool and digest) of each backup
    Restored,     \* the backups somebody restores from the pool
    Uploaded,     \* the backups somebody uploads
    MaxChanges,   \* policy revisions and changes of the owner's role
    MaxLosses     \* archive files that vanish outside the platform

ASSUME RetentionAssumption == NCopies \in Nat /\ MaxChanges \in Nat /\ MaxLosses \in Nat

Copies == 1 .. NCopies
Batches == 0 .. NCopies       \* 0: the owner's request; c: the publication of c
Locs == {Loc[c] : c \in Copies}

VARIABLES
    work,       \* each backup: none, active, published, failed
    avail,      \* hosting_database_backup_copies.availability, or none
    created,    \* the copies whose proof says the platform created the file
    superseded, \* the copies replaced by a verified download
    file,       \* the archive files on disk: none, ours, foreign
    readers,    \* copies a restore is reading
    upload,     \* each copy's remote upload: none, active (uncertain included), done, failed
    policy,     \* rev, enabled
    owner,      \* the policy's actor still owns the project
    preview,    \* each batch: none, or rev and chosen copies
    exec,       \* each batch: the copies still reserved, or none
    pub,        \* each publication: none, pending, admitted, skipped, denied
    pubRev,     \* the policy revision a publication recorded
    rec,        \* the reconciler: the publication at hand and its step
    changes, losses

disk == <<work, avail, created, superseded, file, readers, upload, losses>>
plans == <<policy, owner, preview, exec, changes>>
publications == <<pub, pubRev, rec>>
vars == <<disk, plans, publications>>

Idle == [c |-> 0, step |-> "idle"]

NoPreview == [rev |-> 0, chosen |-> {}]

TypeOK ==
    /\ work \in [Copies -> {"none", "active", "published", "failed"}]
    /\ avail \in [Copies -> {"none", "available", "reserved", "deleted", "uncertain", "unproven"}]
    /\ created \subseteq Copies /\ superseded \subseteq Copies /\ readers \subseteq Copies
    /\ file \in [Locs -> {"none", "ours", "foreign"}]
    /\ upload \in [Copies -> {"none", "active", "done", "failed"}]
    /\ policy \in [rev : 0 .. MaxChanges + 1, enabled : BOOLEAN] /\ owner \in BOOLEAN
    /\ preview \in [Batches -> [rev : 0 .. MaxChanges + 1, chosen : SUBSET Copies]]
    /\ exec \in [Batches -> [state : {"none", "admitted"}, held : SUBSET Copies]]
    /\ pub \in [Copies -> {"none", "pending", "admitted", "skipped", "denied"}]
    /\ pubRev \in [Copies -> 0 .. MaxChanges + 1]
    /\ rec \in [c : 0 .. NCopies, step : {"idle", "execute", "admitted", "skipped", "denied"}]
    /\ changes \in 0 .. MaxChanges /\ losses \in 0 .. MaxLosses

Init ==
    /\ work = [c \in Copies |-> "none"]
    /\ avail = [c \in Copies |-> "none"]
    /\ created = {} /\ superseded = {} /\ readers = {}
    /\ file \in [Locs -> {"none", "foreign"}]
    /\ upload = [c \in Copies |-> "none"]
    /\ policy = [rev |-> 1, enabled |-> TRUE] /\ owner = TRUE
    /\ preview = [b \in Batches |-> NoPreview]
    /\ exec = [b \in Batches |-> [state |-> "none", held |-> {}]]
    /\ pub = [c \in Copies |-> "none"] /\ pubRev = [c \in Copies |-> 0]
    /\ rec = Idle
    /\ changes = 0 /\ losses = 0

-----------------------------------------------------------------------------
(* Inventory and selection. *)

ReservedItems == UNION {exec[b].held : b \in Batches}

(* The trigger on new backups and transfers: no admission while a          *)
(* retention execution on the runner still holds a reservation.            *)
nerocd_backup_copy_admission == ReservedItems = {}

Active == readers # {} \/ \E c \in Copies : work[c] = "active"

(* Uploads make the pool busy without protecting the copies they leave     *)
(* alone.                                                                  *)
DatabaseBackupRetentionRunnerBusy == Active \/ \E c \in Copies : upload[c] = "active"

Current == {c \in Copies : avail[c] \notin {"none", "deleted"} /\ c \notin superseded}

(* backupRetentionInventory's reasons: shared, active, reserved, unproven, *)
(* and an upload that has not succeeded.                                   *)
Unprotected(c) ==
    /\ ~ Active /\ upload[c] \notin {"active", "failed"}
    /\ c \in created
    /\ \A d \in Current \ {c} : Loc[d] # Loc[c]
    /\ \A d \in ReservedItems : Loc[d] # Loc[c]

Usable == {c \in Current : avail[c] \in {"available", "unproven"}}

(* Mutant: the newest copy counts like any other.                          *)
MutSelectsNewest ==
    {c \in Current : policy.enabled /\ avail[c] = "available" /\ Unprotected(c)}

Selected ==
    {c \in Current :
        /\ policy.enabled /\ avail[c] = "available" /\ Unprotected(c)
        /\ \E d \in Usable : d > c}

-----------------------------------------------------------------------------
(* The owner. *)

SaveDatabaseBackupRetention ==
    /\ owner /\ changes < MaxChanges
    /\ \E enabled \in BOOLEAN : policy' = [rev |-> policy.rev + 1, enabled |-> enabled]
    /\ changes' = changes + 1
    /\ UNCHANGED <<disk, owner, preview, exec, publications>>

SetRole ==
    /\ changes < MaxChanges
    /\ owner' = ~ owner /\ changes' = changes + 1
    /\ UNCHANGED <<disk, policy, preview, exec, publications>>

(* backupRetentionPreviewTx, once per request identity.                    *)
SavePreview(b, rev) ==
    preview' = [preview EXCEPT ![b] = [rev |-> rev, chosen |-> Selected]]

PreviewDatabaseBackupRetention ==
    /\ owner /\ preview[0] = NoPreview
    /\ SavePreview(0, policy.rev)
    /\ UNCHANGED <<disk, policy, owner, exec, changes, publications>>

(* Mutant: execution trusts the saved selection.                           *)
MutTrustsPreview(b) ==
    /\ policy.enabled /\ policy.rev = preview[b].rev /\ preview[b].chosen # {}

(* The whole selection is recomputed against the current inventory.        *)
StillSelected(b) ==
    /\ policy.enabled /\ policy.rev = preview[b].rev /\ preview[b].chosen # {}
    /\ Selected = preview[b].chosen

(* The execution with one item per chosen copy.                            *)
CreateDatabaseBackupRetentionItem(b) ==
    exec' = [exec EXCEPT ![b] = [state |-> "admitted", held |-> preview[b].chosen]]

ReserveDatabaseBackupCopy(chosen) ==
    avail' = [c \in Copies |-> IF c \in chosen THEN "reserved" ELSE avail[c]]

Reserve(b) ==
    /\ CreateDatabaseBackupRetentionItem(b)
    /\ ReserveDatabaseBackupCopy(preview[b].chosen)

Admissible(b) ==
    /\ exec[b].state = "none" /\ StillSelected(b)
    /\ ~ DatabaseBackupRetentionRunnerBusy

ExecuteDatabaseBackupRetention ==
    /\ owner /\ Admissible(0) /\ Reserve(0)
    /\ UNCHANGED <<work, created, superseded, file, readers, upload, losses, policy, owner, preview,
                   changes, publications>>

-----------------------------------------------------------------------------
(* Backups, restores and uploads. *)

AdmitBackup(c) ==
    /\ work[c] = "none" /\ \A d \in Copies : d < c => work[d] \in {"published", "failed"}
    /\ nerocd_backup_copy_admission
    /\ work' = [work EXCEPT ![c] = "active"]
    /\ UNCHANGED <<avail, created, superseded, file, readers, upload, losses, plans, publications>>

FindOwnedDatabaseBackupLocalCopy(l) ==
    \E d \in Current \cap created : Loc[d] = l /\ avail[d] \in {"available", "reserved"}

(* Mutant: a file that was already there counts as created.                *)
MutAdoptsForeign(c) == TRUE

(* Ownership of the published file: created now, or known from before.     *)
Owned(c) == file[Loc[c]] = "none" \/ FindOwnedDatabaseBackupLocalCopy(Loc[c])

CreateDatabaseBackupLocalCopy(c) ==
    avail' = [avail EXCEPT ![c] = IF Owned(c) THEN "available" ELSE "unproven"]

backupRetentionRegisterLocal(c) ==
    /\ file' = [file EXCEPT ![Loc[c]] = IF @ = "none" THEN "ours" ELSE @]
    /\ created' = IF Owned(c) THEN created \cup {c} ELSE created
    /\ CreateDatabaseBackupLocalCopy(c)

backupRetentionPublication(c) ==
    /\ pub' = [pub EXCEPT ![c] = IF policy.enabled THEN "pending" ELSE @]
    /\ pubRev' = [pubRev EXCEPT ![c] = IF policy.enabled THEN policy.rev ELSE @]

CompleteBackup(c) ==
    /\ work[c] = "active"
    /\ work' = [work EXCEPT ![c] = "published"]
    /\ backupRetentionRegisterLocal(c)
    /\ backupRetentionPublication(c)
    /\ UNCHANGED <<superseded, readers, upload, losses, plans, rec>>

FailBackup(c) ==
    /\ work[c] = "active"
    /\ work' = [work EXCEPT ![c] = "failed"]
    /\ UNCHANGED <<avail, created, superseded, file, readers, upload, losses, plans, publications>>

DatabaseBackupLocalArchiveDenied(c) == c \notin Usable

(* Mutant: the availability of the copy is not asked.                      *)
MutAdmitsAny(c) == nerocd_backup_copy_admission

backupRetentionArchiveAdmission(c) ==
    nerocd_backup_copy_admission /\ ~ DatabaseBackupLocalArchiveDenied(c)

AdmitReader(c) ==
    /\ c \in Restored /\ avail[c] # "none" /\ c \notin readers
    /\ backupRetentionArchiveAdmission(c)
    /\ readers' = readers \cup {c}
    /\ UNCHANGED <<work, avail, created, superseded, file, upload, losses, plans, publications>>

FinishReader(c) ==
    /\ c \in readers
    /\ readers' = readers \ {c}
    /\ UNCHANGED <<work, avail, created, superseded, file, upload, losses, plans, publications>>

(* A transfer passes the same admission; a failed one may be retried.      *)
AdmitUpload(c) ==
    /\ c \in Uploaded /\ avail[c] # "none" /\ upload[c] \in {"none", "failed"}
    /\ backupRetentionArchiveAdmission(c)
    /\ upload' = [upload EXCEPT ![c] = "active"]
    /\ IF upload[c] = "none" THEN UNCHANGED changes
       ELSE changes < MaxChanges /\ changes' = changes + 1
    /\ UNCHANGED <<work, avail, created, superseded, file, readers, losses, policy, owner, preview,
                   exec, publications>>

FinishUpload(c) ==
    /\ upload[c] = "active"
    /\ \E state \in {"done", "failed"} : upload' = [upload EXCEPT ![c] = state]
    /\ UNCHANGED <<work, avail, created, superseded, file, readers, losses, plans, publications>>

Lose(l) ==
    /\ losses < MaxLosses /\ file[l] = "ours"
    /\ losses' = losses + 1
    /\ file' = [file EXCEPT ![l] = "none"]
    /\ UNCHANGED <<work, avail, created, superseded, readers, upload, plans, publications>>

LockDatabaseBackupLocalCopyPredecessor(d) == avail[d] \notin {"reserved", "uncertain"}

SupersedeDatabaseBackupCopy(d) ==
    superseded' = IF avail[d] = "deleted" THEN superseded ELSE superseded \cup {d}

(* A verified remote download publishes backup d's archive again under a   *)
(* new copy c; the vanished generation is superseded, never resurrected.   *)
DownloadCopy(c, d) ==
    /\ work[c] = "none" /\ \A x \in Copies : x < c => work[x] \in {"published", "failed"}
    /\ d < c /\ Loc[d] = Loc[c] /\ work[d] = "published"
    /\ nerocd_backup_copy_admission
    /\ file[Loc[c]] = "none"
    /\ LockDatabaseBackupLocalCopyPredecessor(d)
    /\ work' = [work EXCEPT ![c] = "published"]
    /\ SupersedeDatabaseBackupCopy(d)
    /\ backupRetentionRegisterLocal(c)
    /\ UNCHANGED <<readers, upload, losses, plans, publications>>

-----------------------------------------------------------------------------
(* Mutant: a failed deletion is written to the copy as it is.              *)
MutKeepsPhase(phase) == phase

SettledAvailability(phase) == IF phase = "failed" THEN "available" ELSE phase

(* The runner settles one reserved copy.  An uncertain deletion keeps its  *)
(* reservation, and its effect is unknown.                                 *)
Settle(b, c, phase) ==
    /\ c \in exec[b].held /\ avail[c] # "uncertain"
    /\ exec' = [exec EXCEPT ![b].held = IF phase = "uncertain" THEN @ ELSE @ \ {c}]
    /\ avail' = [avail EXCEPT ![c] = SettledAvailability(phase)]
    /\ \/ phase \in {"deleted", "uncertain"} /\ file' = [file EXCEPT ![Loc[c]] = "none"]
       \/ phase \in {"failed", "uncertain"} /\ UNCHANGED file
    /\ UNCHANGED <<work, created, superseded, readers, upload, losses, policy, owner, preview, changes,
                   publications>>

-----------------------------------------------------------------------------
(* ReconcileDatabaseBackupRetention: preview, execute and record, each its *)
(* own transaction, repeated after a crash under the same identities.      *)

(* Mutant: every pass previews afresh.                                     *)
MutPreviewsAgain(c) == FALSE

(* The request of a publication has one identity; its answer is saved.     *)
backupRetentionReplay(c) == preview[c] # NoPreview

ReconcilePreview(c) ==
    /\ rec = Idle /\ pub[c] = "pending"
    /\ \/ /\ ~ owner \/ (~ backupRetentionReplay(c) /\ policy.rev # pubRev[c])
          /\ rec' = [c |-> c, step |-> "denied"] /\ UNCHANGED preview
       \/ /\ owner /\ ~ backupRetentionReplay(c) /\ policy.rev = pubRev[c]
          /\ SavePreview(c, policy.rev)
          /\ rec' = [c |-> c, step |-> IF Selected = {} THEN "skipped" ELSE "execute"]
       \/ /\ owner /\ backupRetentionReplay(c)
          /\ rec' = [c |-> c, step |-> IF preview[c].chosen = {} THEN "skipped" ELSE "execute"]
          /\ UNCHANGED preview
    /\ UNCHANGED <<disk, policy, owner, exec, changes, pub, pubRev>>

FindDatabaseBackupRetentionPreviewExecution(c) == exec[c].state # "none"

(* A busy pool leaves the publication pending for the next pass.           *)
ReconcileExecute ==
    LET c == rec.c IN
    /\ rec.step = "execute"
    /\ \/ /\ owner /\ FindDatabaseBackupRetentionPreviewExecution(c)
          /\ rec' = [rec EXCEPT !.step = "admitted"] /\ UNCHANGED <<exec, avail>>
       \/ owner /\ Admissible(c) /\ Reserve(c) /\ rec' = [rec EXCEPT !.step = "admitted"]
       \/ /\ owner /\ exec[c].state = "none" /\ StillSelected(c) /\ DatabaseBackupRetentionRunnerBusy
          /\ rec' = Idle /\ UNCHANGED <<exec, avail>>
       \/ /\ ~ owner \/ (~ FindDatabaseBackupRetentionPreviewExecution(c) /\ ~ StillSelected(c))
          /\ rec' = [rec EXCEPT !.step = "denied"] /\ UNCHANGED <<exec, avail>>
    /\ UNCHANGED <<work, created, superseded, file, readers, upload, losses, policy, owner, preview,
                   changes, pub, pubRev>>

(* Mutant: a denied publication is left for the next pass.                 *)
MutDeniedStays ==
    /\ rec.step \in {"admitted", "skipped", "denied"}
    /\ pub' = [pub EXCEPT ![rec.c] =
                  IF @ = "pending" /\ rec.step # "denied" THEN rec.step ELSE @]
    /\ rec' = Idle
    /\ UNCHANGED <<disk, plans, pubRev>>

SetDatabaseBackupRetentionPublicationState ==
    /\ rec.step \in {"admitted", "skipped", "denied"}
    /\ pub' = [pub EXCEPT ![rec.c] = IF @ = "pending" THEN rec.step ELSE @]
    /\ rec' = Idle
    /\ UNCHANGED <<disk, plans, pubRev>>

Crash ==
    /\ rec # Idle /\ changes < MaxChanges
    /\ changes' = changes + 1 /\ rec' = Idle
    /\ UNCHANGED <<disk, policy, owner, preview, exec, pub, pubRev>>

ReconcileDatabaseBackupRetention ==
    \/ \E c \in Copies : ReconcilePreview(c)
    \/ ReconcileExecute
    \/ SetDatabaseBackupRetentionPublicationState

Next ==
    \/ SaveDatabaseBackupRetention \/ SetRole
    \/ PreviewDatabaseBackupRetention \/ ExecuteDatabaseBackupRetention
    \/ \E c \in Copies : AdmitBackup(c)
    \/ \E c \in Copies : CompleteBackup(c)
    \/ \E c \in Copies : FailBackup(c)
    \/ \E c \in Copies : AdmitReader(c)
    \/ \E c \in Copies : FinishReader(c)
    \/ \E c \in Copies : AdmitUpload(c)
    \/ \E c \in Copies : FinishUpload(c)
    \/ \E l \in Locs : Lose(l)
    \/ \E c, d \in Copies : DownloadCopy(c, d)
    \/ \E b \in Batches, c \in Copies, phase \in {"deleted", "failed", "uncertain"} :
          Settle(b, c, phase)
    \/ ReconcileDatabaseBackupRetention
    \/ Crash

Spec == Init /\ [][Next]_vars

-----------------------------------------------------------------------------
(* While the platform alone touches the pool, a copy listed available has  *)
(* its file: no batch, stale preview, shared digest or late publication    *)
(* takes it away.                                                          *)
AvailableCopyExists ==
    \A c \in Copies : losses = 0 /\ avail[c] = "available" => file[Loc[c]] # "none"

(* A restore or an upload admitted on a copy keeps the file it reads until *)
(* it ends.                                                                *)
ReaderKeepsItsFile ==
    \A c \in readers \cup {d \in Copies : upload[d] = "active"} : losses = 0 => file[Loc[c]] # "none"

(* A file the platform did not create is never deleted by a batch, however *)
(* its digest comes to match.                                              *)
ForeignFileSurvives ==
    [][\A l \in Locs : file[l] = "foreign" => file'[l] = "foreign"]_vars

(* When a deletion settles, a newer usable copy of the database is still   *)
(* listed: a preview gone stale never costs the last recovery point.       *)
DeletionLeavesNewer ==
    [][\A c \in Copies : avail[c] = "reserved" /\ avail'[c] = "deleted" =>
           \E d \in Copies : d > c /\ d \in Usable]_vars

(* What the publication records agrees with what was admitted: skipped and *)
(* admitted publications have no batch and exactly one.                    *)
PublicationIsTrue ==
    \A c \in Copies : /\ pub[c] = "admitted" => exec[c].state = "admitted"
                      /\ pub[c] = "skipped" => exec[c].state = "none"

(* The promises of retention together: available copies and files being    *)
(* read stay, publications are true, and a deletion takes neither a file   *)
(* the platform did not create nor the last recovery point.                *)
RetentionIsSafe ==
    /\ [](TypeOK /\ AvailableCopyExists /\ ReaderKeepsItsFile /\ PublicationIsTrue)
    /\ ForeignFileSurvives /\ DeletionLeavesNewer

(* Created and not decided. *)
Undecided(c) == pub[c] = "pending"
=============================================================================
