-------------------------- MODULE RetentionProofs ---------------------------
(***************************************************************************)
(* Proofs about RetentionAdmission, for every number of copies, every      *)
(* placement of their files and every number of policy changes and losses. *)
(* The invariant says what a reservation guarantees while it lasts: it is  *)
(* one batch's, the pool is quiet, no other current copy has the file, and *)
(* a newer usable copy stays.  Admission checks those facts once, under    *)
(* one lock; that they still hold when a deletion settles, transactions    *)
(* later, is what has to be proved.                                        *)
(***************************************************************************)
EXTENDS RetentionAdmission, NaturalsInduction, WellFoundedInduction, TLAPS

(* A copy that is held is reserved, or its deletion is uncertain, by an    *)
(* execution that was admitted, and its file was created by the platform.  *)
HeldIsReserved ==
    \A b \in Batches : \A c \in exec[b].held :
        avail[c] \in {"reserved", "uncertain"} /\ c \in created /\ exec[b].state = "admitted"

(* A reservation belongs to a batch, and to one only.                      *)
ReservedIsHeld == \A c \in Copies : avail[c] = "reserved" => \E b \in Batches : c \in exec[b].held

HeldOnce == \A a, b \in Batches : \A c \in exec[a].held : c \in exec[b].held => a = b

(* While anything is held nothing on the runner reads, writes or uploads.  *)
HeldIsQuiet ==
    \A b \in Batches : \A c \in exec[b].held :
        /\ readers = {}
        /\ \A d \in Copies : work[d] # "active" /\ upload[d] # "active"

(* No other current copy has the file of a reserved one.                   *)
ReservedIsAlone ==
    \A c, d \in Copies : avail[c] = "reserved" /\ d # c /\ d \in Current => Loc[d] # Loc[c]

(* Some newer copy can be restored as long as the reservation lasts.       *)
ReservedHasNewer ==
    \A c \in Copies : avail[c] = "reserved" => \E d \in Usable : d > c

(* A created copy never points at a file somebody else put there.          *)
CreatedIsOurs == \A c \in created : file[Loc[c]] # "foreign"

(* Nothing is superseded unless a file vanished, and every copy not yet    *)
(* deleted has its file.                                                   *)
NothingVanishes ==
    losses = 0 =>
        /\ superseded = {}
        /\ \A c \in Copies : avail[c] \in {"available", "unproven", "reserved"} => file[Loc[c]] # "none"

(* Copies are listed when their backup is published.                       *)
ListedIsPublished == \A c \in Copies : work[c] = "published" => avail[c] # "none"

DiskInv ==
    /\ HeldIsReserved /\ ReservedIsHeld /\ HeldOnce /\ HeldIsQuiet /\ ReservedIsAlone
    /\ ReservedHasNewer /\ CreatedIsOurs /\ NothingVanishes /\ ReaderKeepsItsFile
    /\ ListedIsPublished

(* An empty preview that was saved.                                        *)
Skips(b) == preview[b] # NoPreview /\ preview[b].chosen = {}

PlanInv ==
    /\ policy.rev >= 1 /\ policy.rev <= changes + 1
    /\ \A b \in Batches : exec[b].state = "admitted" => preview[b].chosen # {}
    /\ \A c \in Copies : /\ pub[c] = "admitted" => exec[c].state = "admitted"
                         /\ pub[c] = "skipped" => Skips(c)
    /\ rec.step = "admitted" => exec[rec.c].state = "admitted"
    /\ rec.step = "skipped" => Skips(rec.c)

RetentionInv == TypeOK /\ DiskInv /\ PlanInv


-----------------------------------------------------------------------------
(* Numbers. *)

(* A set of copies that is not empty has a newest one.                     *)
LEMMA HasNewest ==
    ASSUME NEW S \in SUBSET Copies, S # {}
    PROVE  \E m \in S : \A y \in S : y <= m
<1> DEFINE T == {b \in Nat : \A y \in S : y <= b}
           R == OpToRel(<, Nat)
<1>1. NCopies \in T
  BY RetentionAssumption DEF Copies
<1>2. \E x \in T : \A y \in T : ~(<<y, x>> \in R)
  <2>1. T \subseteq Nat /\ T # {}
    BY <1>1, Zenon
  <2> HIDE DEF T
  <2> QED
    BY <2>1, NatLessThanWellFounded, WFMin, Zenon
<1>3. \A x, y \in Nat : y < x => <<y, x>> \in R
  BY Zenon DEF OpToRel
<1> HIDE DEF R
<1>4. PICK x \in T : \A y \in T : ~(y < x)
  BY <1>2, <1>3, Zenon
<1>5. S \subseteq Nat \ {0}
  BY RetentionAssumption DEF Copies
<1>6. PICK s \in S : TRUE
  BY Zenon
<1>7. x \in Nat \ {0} /\ x - 1 \in Nat /\ x - 1 < x
  BY <1>5, <1>6
<1>8. ~ (x - 1 \in T)
  BY <1>4, <1>7
<1>9. PICK y \in S : ~ (y <= x - 1)
  BY <1>7, <1>8
<1>10. y = x
  BY <1>5, <1>7, <1>9
<1> QED
  BY <1>10

-----------------------------------------------------------------------------
(* Types. *)

LEMMA Constants ==
    /\ 0 \in Batches /\ Copies \subseteq Batches /\ Copies \subseteq Nat /\ Batches = 0 .. NCopies
    /\ \A c \in Copies : Loc[c] \in Locs
  BY RetentionAssumption DEF Copies, Batches, Locs

LEMMA SelectedAreCopies ==
    Selected \subseteq Copies /\ Usable \subseteq Copies /\ Current \subseteq Copies
  BY Zenon DEF Selected, Usable, Current

(* What a new copy writes keeps the types.                                 *)
LEMMA RegisterTypes ==
    ASSUME TypeOK, NEW c \in Copies, backupRetentionRegisterLocal(c)
    PROVE  /\ avail' \in [Copies -> {"none", "available", "reserved", "deleted", "uncertain", "unproven"}]
           /\ created' \subseteq Copies
           /\ file' \in [Locs -> {"none", "ours", "foreign"}]
<1>1. avail' \in [Copies -> {"none", "available", "reserved", "deleted", "uncertain", "unproven"}]
  BY DEF TypeOK, backupRetentionRegisterLocal, CreateDatabaseBackupLocalCopy
<1>2. created' \subseteq Copies
  BY DEF TypeOK, backupRetentionRegisterLocal
<1>3. file' \in [Locs -> {"none", "ours", "foreign"}]
  BY Constants DEF TypeOK, backupRetentionRegisterLocal
<1> QED
  BY <1>1, <1>2, <1>3, Zenon

(* So does a reservation.                                                  *)
LEMMA ReserveTypes ==
    ASSUME TypeOK, NEW b \in Batches, Reserve(b)
    PROVE  /\ avail' \in [Copies -> {"none", "available", "reserved", "deleted", "uncertain", "unproven"}]
           /\ exec' \in [Batches -> [state : {"none", "admitted"}, held : SUBSET Copies]]
<1>1. preview[b].chosen \subseteq Copies
  BY DEF TypeOK
<1>2. avail' \in [Copies -> {"none", "available", "reserved", "deleted", "uncertain", "unproven"}]
  BY DEF TypeOK, Reserve, ReserveDatabaseBackupCopy
<1>3. exec' \in [Batches -> [state : {"none", "admitted"}, held : SUBSET Copies]]
  BY <1>1 DEF TypeOK, Reserve, CreateDatabaseBackupRetentionItem
<1> QED
  BY <1>2, <1>3, Zenon

(* Every step keeps the types.                                             *)
LEMMA TypesKept ==
    ASSUME TypeOK, PlanInv, [Next]_vars
    PROVE  TypeOK'
<1> USE RetentionAssumption
<1>1. CASE SaveDatabaseBackupRetention
  <2>1. policy' \in [rev : 0 .. MaxChanges + 1, enabled : BOOLEAN] /\ changes' \in 0 .. MaxChanges
    BY <1>1 DEF TypeOK, PlanInv, SaveDatabaseBackupRetention
  <2> QED
    BY <1>1, <2>1 DEF TypeOK, SaveDatabaseBackupRetention, disk, publications
<1>2. CASE SetRole
  BY <1>2 DEF TypeOK, SetRole, disk, publications
<1>3. CASE PreviewDatabaseBackupRetention
  <2>1. preview' \in [Batches -> [rev : 0 .. MaxChanges + 1, chosen : SUBSET Copies]]
    BY <1>3, SelectedAreCopies, Zenon DEF TypeOK, PreviewDatabaseBackupRetention, SavePreview
  <2> QED
    BY <1>3, <2>1 DEF TypeOK, PreviewDatabaseBackupRetention, disk, publications
<1>4. CASE ExecuteDatabaseBackupRetention
  <2>1. Reserve(0)
    BY <1>4, Zenon DEF ExecuteDatabaseBackupRetention
  <2> QED
    BY <1>4, <2>1, Constants, ReserveTypes, Zenon DEF TypeOK, ExecuteDatabaseBackupRetention, publications
<1>5. CASE \E c \in Copies : AdmitBackup(c)
  BY <1>5 DEF TypeOK, AdmitBackup, plans, publications
<1>6. ASSUME NEW c \in Copies, CompleteBackup(c) PROVE TypeOK'
  <2>1. backupRetentionRegisterLocal(c)
    BY <1>6, Zenon DEF CompleteBackup
  <2>2. pub' \in [Copies -> {"none", "pending", "admitted", "skipped", "denied"}]
    BY <1>6 DEF TypeOK, CompleteBackup, backupRetentionPublication
  <2>3. pubRev' \in [Copies -> 0 .. MaxChanges + 1]
    BY <1>6 DEF TypeOK, CompleteBackup, backupRetentionPublication
  <2>4. work' \in [Copies -> {"none", "active", "published", "failed"}]
    BY <1>6 DEF TypeOK, CompleteBackup
  <2> QED
    BY <1>6, <2>1, <2>2, <2>3, <2>4, RegisterTypes DEF TypeOK, CompleteBackup, plans
<1>7. CASE \E c \in Copies : FailBackup(c)
  BY <1>7 DEF TypeOK, FailBackup, plans, publications
<1>8. CASE \E c \in Copies : AdmitReader(c)
  BY <1>8 DEF TypeOK, AdmitReader, plans, publications
<1>9. CASE \E c \in Copies : FinishReader(c)
  BY <1>9 DEF TypeOK, FinishReader, plans, publications
<1>10. ASSUME NEW c \in Copies, AdmitUpload(c) PROVE TypeOK'
  <2>1. upload' \in [Copies -> {"none", "active", "done", "failed"}]
    BY <1>10 DEF TypeOK, AdmitUpload
  <2>2. changes' \in 0 .. MaxChanges
    BY <1>10 DEF TypeOK, AdmitUpload
  <2> QED
    BY <1>10, <2>1, <2>2, Zenon DEF TypeOK, AdmitUpload, publications
<1>11. CASE \E c \in Copies : FinishUpload(c)
  BY <1>11 DEF TypeOK, FinishUpload, plans, publications
<1>12. CASE \E l \in Locs : Lose(l)
  BY <1>12 DEF TypeOK, Lose, plans, publications
<1>13. ASSUME NEW c \in Copies, NEW d \in Copies, DownloadCopy(c, d) PROVE TypeOK'
  <2>1. backupRetentionRegisterLocal(c)
    BY <1>13, Zenon DEF DownloadCopy
  <2>2. work' \in [Copies -> {"none", "active", "published", "failed"}]
    BY <1>13 DEF TypeOK, DownloadCopy
  <2>3. superseded' \subseteq Copies
    BY <1>13 DEF TypeOK, DownloadCopy, SupersedeDatabaseBackupCopy
  <2> QED
    BY <1>13, <2>1, <2>2, <2>3, RegisterTypes DEF TypeOK, DownloadCopy, plans, publications
<1>14. ASSUME NEW b \in Batches, NEW c \in Copies, NEW phase \in {"deleted", "failed", "uncertain"},
              Settle(b, c, phase)
       PROVE  TypeOK'
  <2>1. avail' \in [Copies -> {"none", "available", "reserved", "deleted", "uncertain", "unproven"}]
    <3>1. SettledAvailability(phase) \in {"available", "deleted", "uncertain"}
      BY DEF SettledAvailability
    <3> QED
      BY <1>14, <3>1 DEF TypeOK, Settle
  <2>2. file' \in [Locs -> {"none", "ours", "foreign"}]
    BY <1>14 DEF TypeOK, Settle
  <2>3. exec' \in [Batches -> [state : {"none", "admitted"}, held : SUBSET Copies]]
    BY <1>14 DEF TypeOK, Settle
  <2> QED
    BY <1>14, <2>1, <2>2, <2>3 DEF TypeOK, Settle, publications
<1>15. ASSUME NEW c \in Copies, ReconcilePreview(c) PROVE TypeOK'
  <2>1. preview' \in [Batches -> [rev : 0 .. MaxChanges + 1, chosen : SUBSET Copies]]
    <3>1. SavePreview(c, policy.rev) \/ UNCHANGED preview
      BY <1>15, Zenon DEF ReconcilePreview
    <3>2. policy.rev \in 0 .. MaxChanges + 1 /\ Selected \in SUBSET Copies
      BY SelectedAreCopies DEF TypeOK
    <3> QED
      BY <3>1, <3>2 DEF TypeOK, SavePreview
  <2>2. rec' \in [c : 0 .. NCopies, step : {"idle", "execute", "admitted", "skipped", "denied"}]
    BY <1>15, Constants DEF TypeOK, ReconcilePreview
  <2> QED
    BY <1>15, <2>1, <2>2 DEF TypeOK, ReconcilePreview, disk
<1>16. CASE ReconcileExecute
  <2>1. rec' \in [c : 0 .. NCopies, step : {"idle", "execute", "admitted", "skipped", "denied"}]
    BY <1>16 DEF TypeOK, ReconcileExecute, Idle
  <2>2. rec.c \in Batches
    BY Constants DEF TypeOK
  <2>3. Reserve(rec.c) \/ UNCHANGED <<exec, avail>>
    BY <1>16, Zenon DEF ReconcileExecute
  <2>4. /\ avail' \in [Copies -> {"none", "available", "reserved", "deleted", "uncertain", "unproven"}]
        /\ exec' \in [Batches -> [state : {"none", "admitted"}, held : SUBSET Copies]]
    BY <2>2, <2>3, ReserveTypes DEF TypeOK
  <2> QED
    BY <1>16, <2>1, <2>4 DEF TypeOK, ReconcileExecute
<1>17. CASE SetDatabaseBackupRetentionPublicationState
  <2>1. pub' \in [Copies -> {"none", "pending", "admitted", "skipped", "denied"}]
    BY <1>17, Zenon DEF TypeOK, SetDatabaseBackupRetentionPublicationState
  <2> QED
    BY <1>17, <2>1 DEF TypeOK, SetDatabaseBackupRetentionPublicationState, Idle, disk, plans
<1>18. CASE Crash
  BY <1>18 DEF TypeOK, Crash, Idle, disk
<1>19. CASE UNCHANGED vars
  BY <1>19, Zenon DEF TypeOK, vars, disk, plans, publications, Usable, Current
<1> QED
  BY <1>1, <1>2, <1>3, <1>4, <1>5, <1>6, <1>7, <1>8, <1>9, <1>10, <1>11, <1>12, <1>13, <1>14, <1>15,
     <1>16, <1>17, <1>18, <1>19, Zenon DEF Next, ReconcileDatabaseBackupRetention

-----------------------------------------------------------------------------
(* Plans: previews, executions and publications. *)

LEMMA PlansUntouched ==
    ASSUME PlanInv, UNCHANGED <<policy, changes, preview, exec, pub, rec>>
    PROVE  PlanInv'
  BY Zenon DEF PlanInv, Skips, Usable, Current

(* A saved preview stays; a first one belongs to no execution.             *)
LEMMA PreviewKept ==
    ASSUME TypeOK, PlanInv, NEW b \in Batches, preview[b] = NoPreview, SavePreview(b, policy.rev)
    PROVE  /\ \A a \in Batches : exec[a].state = "admitted" => preview'[a].chosen # {}
           /\ \A a \in Batches : Skips(a) => Skips(a)'
           /\ Selected = {} => Skips(b)'
<1>1. exec[b].state # "admitted" /\ ~ Skips(b)
  BY DEF PlanInv, Skips, NoPreview
<1>2. \A a \in Batches : a # b => preview'[a] = preview[a]
  BY DEF SavePreview, TypeOK
<1>3. preview'[b] = [rev |-> policy.rev, chosen |-> Selected]
  BY DEF SavePreview, TypeOK
<1>4. policy.rev # 0 /\ [rev |-> policy.rev, chosen |-> Selected] # NoPreview
  BY DEF PlanInv, NoPreview
<1>5. \A a \in Batches : exec[a].state = "admitted" => preview'[a].chosen # {}
  BY <1>1, <1>2, Zenon DEF PlanInv
<1>6. \A a \in Batches : Skips(a) => Skips(a)'
  BY <1>1, <1>2, Zenon DEF Skips
<1>7. Selected = {} => Skips(b)'
  BY <1>3, <1>4 DEF Skips, NoPreview
<1> QED
  BY <1>5, <1>6, <1>7, Zenon

(* An execution is admitted under a preview that chose something.          *)
LEMMA ExecutionKept ==
    ASSUME TypeOK, PlanInv, NEW b \in Batches, Admissible(b), Reserve(b), UNCHANGED preview
    PROVE  /\ \A a \in Batches : exec'[a].state = "admitted" => preview'[a].chosen # {}
           /\ \A a \in Batches : exec[a].state = "admitted" => exec'[a].state = "admitted"
           /\ \A a \in Batches : Skips(a) => Skips(a)'
           /\ exec'[b].state = "admitted"
<1>1. \A a \in Batches : a # b => exec'[a] = exec[a]
  BY DEF Reserve, CreateDatabaseBackupRetentionItem, TypeOK
<1>2. exec'[b].state = "admitted"
  BY DEF Reserve, CreateDatabaseBackupRetentionItem, TypeOK
<1>3. preview[b].chosen # {}
  BY Zenon DEF Admissible, StillSelected
<1> QED
  BY <1>1, <1>2, <1>3, Zenon DEF PlanInv, Skips

(* Every step keeps the plans.                                             *)
LEMMA PlansKept ==
    ASSUME TypeOK, PlanInv, [Next]_vars
    PROVE  PlanInv'
<1>0. Copies \subseteq Batches /\ 0 \in Batches
  BY Constants, Zenon
<1>1. CASE SaveDatabaseBackupRetention
  <2>1. policy'.rev >= 1 /\ policy'.rev <= changes' + 1
    BY <1>1, RetentionAssumption DEF TypeOK, PlanInv, SaveDatabaseBackupRetention
  <2> QED
    BY <1>1, <2>1, Zenon DEF PlanInv, Skips, SaveDatabaseBackupRetention, publications
<1>2. CASE SetRole
  <2>1. policy'.rev >= 1 /\ policy'.rev <= changes' + 1
    BY <1>2, RetentionAssumption DEF TypeOK, PlanInv, SetRole
  <2> QED
    BY <1>2, <2>1, Zenon DEF PlanInv, Skips, SetRole, publications
<1>3. CASE PreviewDatabaseBackupRetention
  <2>1. preview[0] = NoPreview /\ SavePreview(0, policy.rev)
    BY <1>3, Zenon DEF PreviewDatabaseBackupRetention
  <2>2. rec.c \in Batches
    BY Constants DEF TypeOK
  <2>3. UNCHANGED <<policy, changes, exec, pub, rec>>
    BY <1>3, Zenon DEF PreviewDatabaseBackupRetention, publications
  <2> QED
    BY <1>0, <2>1, <2>2, <2>3, PreviewKept, Zenon DEF PlanInv
<1>4. CASE ExecuteDatabaseBackupRetention
  <2>1. Admissible(0) /\ Reserve(0) /\ UNCHANGED <<policy, changes, preview, pub, rec>>
    BY <1>4, Zenon DEF ExecuteDatabaseBackupRetention, publications
  <2>2. rec.c \in Batches
    BY Constants DEF TypeOK
  <2> QED
    BY <1>0, <2>1, <2>2, ExecutionKept, Zenon DEF PlanInv
<1>5. CASE \/ \E c \in Copies : AdmitBackup(c) \/ FailBackup(c) \/ AdmitReader(c) \/ FinishReader(c)
                                \/ FinishUpload(c)
           \/ \E l \in Locs : Lose(l)
           \/ \E c, d \in Copies : DownloadCopy(c, d)
           \/ UNCHANGED vars
  <2>1. UNCHANGED <<policy, changes, preview, exec, pub, rec>>
    BY <1>5, Zenon DEF AdmitBackup, FailBackup, AdmitReader, FinishReader, FinishUpload, Lose,
                       DownloadCopy, vars, plans, publications
  <2> QED
    BY <2>1, PlansUntouched, Zenon
<1>6. ASSUME NEW c \in Copies, CompleteBackup(c) PROVE PlanInv'
  <2>1. \A d \in Copies : pub'[d] \in {pub[d], "pending"}
    BY <1>6 DEF CompleteBackup, backupRetentionPublication, TypeOK
  <2>2. UNCHANGED <<policy, changes, preview, exec, rec>>
    BY <1>6, Zenon DEF CompleteBackup, plans
  <2>3. \A d \in Copies : /\ pub'[d] = "admitted" => pub[d] = "admitted"
                          /\ pub'[d] = "skipped" => pub[d] = "skipped"
    BY <2>1
  <2> QED
    BY <2>2, <2>3, Zenon DEF PlanInv, Skips
<1>7. ASSUME NEW c \in Copies, AdmitUpload(c) PROVE PlanInv'
  <2>1. policy'.rev >= 1 /\ policy'.rev <= changes' + 1
    BY <1>7, RetentionAssumption DEF TypeOK, PlanInv, AdmitUpload
  <2>2. UNCHANGED <<policy, preview, exec, pub, rec>>
    BY <1>7, Zenon DEF AdmitUpload, publications
  <2> QED
    BY <2>1, <2>2, Zenon DEF PlanInv, Skips
<1>8. ASSUME NEW b \in Batches, NEW c \in Copies, NEW phase \in {"deleted", "failed", "uncertain"},
             Settle(b, c, phase)
      PROVE  PlanInv'
  <2>1. \A a \in Batches : exec'[a].state = exec[a].state
    BY <1>8 DEF Settle, TypeOK
  <2>2. UNCHANGED <<policy, changes, preview, pub, rec>>
    BY <1>8, Zenon DEF Settle, publications
  <2>3. rec.c \in Batches
    BY Constants DEF TypeOK
  <2> QED
    BY <1>0, <2>1, <2>2, <2>3, Zenon DEF PlanInv, Skips
<1>9. ASSUME NEW c \in Copies, ReconcilePreview(c) PROVE PlanInv'
  <2>0. UNCHANGED <<policy, changes, exec, pub>> /\ c \in Batches
    BY <1>0, <1>9, Zenon DEF ReconcilePreview
  <2>1. CASE UNCHANGED preview /\ rec' = [c |-> c, step |-> "denied"]
    <3>1. rec'.step = "denied"
      BY <2>1
    <3>2. rec'.step # "admitted" /\ rec'.step # "skipped"
      BY <3>1
    <3> QED
      BY <2>0, <2>1, <3>2, Zenon DEF PlanInv, Skips
  <2>2. CASE /\ preview[c] = NoPreview /\ SavePreview(c, policy.rev)
             /\ rec' = [c |-> c, step |-> IF Selected = {} THEN "skipped" ELSE "execute"]
    <3>1. rec'.step # "admitted" /\ rec'.c = c /\ (rec'.step = "skipped" => Selected = {})
      BY <2>2
    <3>2. rec'.step = "skipped" => Skips(rec.c)'
      BY <2>0, <2>2, <3>1, PreviewKept DEF Skips
    <3> QED
      BY <1>0, <2>0, <2>2, <3>1, <3>2, PreviewKept, Zenon DEF PlanInv
  <2>3. CASE /\ preview[c] # NoPreview /\ UNCHANGED preview
             /\ rec' = [c |-> c, step |-> IF preview[c].chosen = {} THEN "skipped" ELSE "execute"]
    <3>1. rec'.step # "admitted" /\ rec'.c = c /\ (rec'.step = "skipped" => preview[c].chosen = {})
      BY <2>3
    <3>2. rec'.step = "skipped" => Skips(rec.c)'
      BY <2>3, <3>1 DEF Skips
    <3> QED
      BY <2>0, <2>3, <3>1, <3>2, Zenon DEF PlanInv, Skips
  <2> QED
    BY <1>9, <2>1, <2>2, <2>3, Zenon DEF ReconcilePreview, backupRetentionReplay
<1>10. CASE ReconcileExecute
  <2>0. UNCHANGED <<policy, changes, preview, pub>> /\ rec.c \in Batches
    BY <1>10, Constants DEF ReconcileExecute, TypeOK
  <2>1. CASE exec[rec.c].state # "none" /\ rec' = [rec EXCEPT !.step = "admitted"] /\ UNCHANGED exec
    <3>1. rec'.step = "admitted" /\ rec'.c = rec.c /\ exec[rec.c].state = "admitted"
      BY <2>0, <2>1 DEF TypeOK
    <3>2. rec'.step # "skipped"
      BY <3>1
    <3> QED
      BY <2>0, <2>1, <3>1, <3>2, Zenon DEF PlanInv, Skips
  <2>2. CASE Admissible(rec.c) /\ Reserve(rec.c) /\ rec' = [rec EXCEPT !.step = "admitted"]
    <3>1. rec'.step = "admitted" /\ rec'.c = rec.c
      BY <2>0, <2>2 DEF TypeOK
    <3>2. rec'.step # "skipped"
      BY <3>1
    <3> QED
      BY <1>0, <2>0, <2>2, <3>1, <3>2, ExecutionKept, Zenon DEF PlanInv
  <2>3. CASE rec' \in {Idle, [rec EXCEPT !.step = "denied"]} /\ UNCHANGED exec
    <3>1. rec'.step # "admitted" /\ rec'.step # "skipped"
      BY <2>3 DEF TypeOK, Idle
    <3> QED
      BY <2>0, <2>3, <3>1, Zenon DEF PlanInv, Skips
  <2> QED
    BY <1>10, <2>1, <2>2, <2>3, Zenon
       DEF ReconcileExecute, FindDatabaseBackupRetentionPreviewExecution
<1>11. CASE SetDatabaseBackupRetentionPublicationState
  <2>0. UNCHANGED <<policy, changes, preview, exec>> /\ rec' = Idle
    BY <1>11, Zenon DEF SetDatabaseBackupRetentionPublicationState, plans
  <2>1. rec'.step # "admitted" /\ rec'.step # "skipped"
    BY <2>0 DEF Idle
  <2>2. \A d \in Copies : pub'[d] = pub[d] \/ (d = rec.c /\ pub'[d] = rec.step)
    BY <1>11 DEF SetDatabaseBackupRetentionPublicationState, TypeOK
  <2> QED
    BY <2>0, <2>1, <2>2, Zenon DEF PlanInv, Skips
<1>12. CASE Crash
  <2>0. UNCHANGED <<policy, preview, exec, pub>> /\ rec' = Idle
    BY <1>12, Zenon DEF Crash
  <2>1. rec'.step # "admitted" /\ rec'.step # "skipped"
    BY <2>0 DEF Idle
  <2>2. policy'.rev >= 1 /\ policy'.rev <= changes' + 1
    BY <1>12, RetentionAssumption DEF TypeOK, PlanInv, Crash
  <2> QED
    BY <2>0, <2>1, <2>2, Zenon DEF PlanInv, Skips
<1> QED
  BY <1>1, <1>2, <1>3, <1>4, <1>5, <1>6, <1>7, <1>8, <1>9, <1>10, <1>11, <1>12, Zenon
     DEF Next, ReconcileDatabaseBackupRetention

-----------------------------------------------------------------------------
(* The disk: what the steps that hold nothing do. *)

LEMMA DiskUntouched ==
    ASSUME DiskInv, UNCHANGED <<disk, exec>>
    PROVE  DiskInv'
<1>1. Current' = Current /\ Usable' = Usable
  BY Zenon DEF Current, Usable, disk
<1> QED
  BY <1>1, Zenon DEF DiskInv, HeldIsReserved, ReservedIsHeld, HeldOnce, HeldIsQuiet, ReservedIsAlone,
     ReservedHasNewer, CreatedIsOurs, NothingVanishes, ReaderKeepsItsFile, ListedIsPublished, disk

(* The facts about copies and batches alone.                               *)
CopyInv ==
    /\ HeldIsReserved /\ ReservedIsHeld /\ HeldOnce /\ ReservedIsAlone /\ ReservedHasNewer

LEMMA CopiesUntouched ==
    ASSUME CopyInv, UNCHANGED <<avail, created, superseded, exec>>
    PROVE  CopyInv'
<1>1. Current' = Current /\ Usable' = Usable
  BY Zenon DEF Current, Usable
<1> QED
  BY <1>1, Zenon DEF CopyInv, HeldIsReserved, ReservedIsHeld, HeldOnce, ReservedIsAlone, ReservedHasNewer

LEMMA DiskParts ==
    DiskInv <=> /\ CopyInv /\ HeldIsQuiet /\ CreatedIsOurs /\ NothingVanishes
                /\ ReaderKeepsItsFile /\ ListedIsPublished
  BY Zenon DEF DiskInv, CopyInv

(* When nothing is held nothing is reserved.                               *)
LEMMA NothingReserved ==
    ASSUME DiskInv, nerocd_backup_copy_admission
    PROVE  /\ \A b \in Batches : exec[b].held = {}
           /\ \A c \in Copies : avail[c] # "reserved"
<1>1. \A b \in Batches : exec[b].held = {}
  <2> SUFFICES ASSUME NEW b \in Batches, NEW c \in exec[b].held PROVE FALSE
    BY Zenon
  <2>1. c \in ReservedItems
    BY DEF ReservedItems
  <2> QED
    BY <2>1, Zenon DEF nerocd_backup_copy_admission
<1> QED
  BY <1>1, Zenon DEF DiskInv, ReservedIsHeld

(* A backup, a restore or an upload that is admitted meets no reservation, *)
(* and one that ends only makes the pool quieter.                          *)
LEMMA WorkKeepsDisk ==
    ASSUME TypeOK, DiskInv, NEW c \in Copies,
           AdmitBackup(c) \/ FailBackup(c) \/ AdmitReader(c) \/ FinishReader(c)
              \/ AdmitUpload(c) \/ FinishUpload(c)
    PROVE  DiskInv'
<1>0. UNCHANGED <<avail, created, superseded, file, losses, exec>>
  BY Zenon DEF AdmitBackup, FailBackup, AdmitReader, FinishReader, AdmitUpload, FinishUpload, plans
<1>1. CopyInv'
  BY <1>0, DiskParts, CopiesUntouched, Zenon
<1>2. CreatedIsOurs' /\ NothingVanishes'
  BY <1>0, Zenon DEF DiskInv, CreatedIsOurs, NothingVanishes
<1>3. ListedIsPublished'
  <2>1. \A d \in Copies : work'[d] = "published" => work[d] = "published"
    BY DEF AdmitBackup, FailBackup, AdmitReader, FinishReader, AdmitUpload, FinishUpload, TypeOK
  <2> QED
    BY <1>0, <2>1, Zenon DEF DiskInv, ListedIsPublished
<1>4. CASE AdmitBackup(c) \/ AdmitReader(c) \/ AdmitUpload(c)
  <2>1. nerocd_backup_copy_admission
    BY <1>4, Zenon DEF AdmitBackup, AdmitReader, AdmitUpload, backupRetentionArchiveAdmission
  <2>2. HeldIsQuiet'
    BY <1>0, <2>1, NothingReserved, Zenon DEF HeldIsQuiet
  <2>3. \A d \in Copies : \/ upload'[d] # "active" \/ upload[d] = "active"
                          \/ d \in Usable
    BY <1>4 DEF AdmitBackup, AdmitReader, AdmitUpload, backupRetentionArchiveAdmission,
                DatabaseBackupLocalArchiveDenied, TypeOK
  <2>4. \A d \in readers' : d \in readers \/ d \in Usable
    BY <1>4, Zenon DEF AdmitBackup, AdmitReader, AdmitUpload, backupRetentionArchiveAdmission,
                       DatabaseBackupLocalArchiveDenied
  <2>5. \A d \in Usable : losses = 0 => file[Loc[d]] # "none"
    BY DEF DiskInv, NothingVanishes, Usable, Current
  <2>6. ReaderKeepsItsFile'
    BY <1>0, <2>3, <2>4, <2>5, Zenon DEF DiskInv, ReaderKeepsItsFile
  <2> QED
    BY <1>1, <1>2, <1>3, <2>2, <2>6, Zenon DEF DiskInv, CopyInv
<1>5. CASE FailBackup(c) \/ FinishReader(c) \/ FinishUpload(c)
  <2>1. readers' \subseteq readers
    BY <1>5, Zenon DEF FailBackup, FinishReader, FinishUpload
  <2>2. \A d \in Copies : /\ work'[d] = "active" => work[d] = "active"
                          /\ upload'[d] = "active" => upload[d] = "active"
    BY <1>5 DEF FailBackup, FinishReader, FinishUpload, TypeOK
  <2>3. HeldIsQuiet'
    BY <1>0, <2>1, <2>2, Zenon DEF DiskInv, HeldIsQuiet
  <2>4. ReaderKeepsItsFile'
    BY <1>0, <2>1, <2>2, Zenon DEF DiskInv, ReaderKeepsItsFile
  <2> QED
    BY <1>1, <1>2, <1>3, <2>3, <2>4, Zenon DEF DiskInv, CopyInv
<1> QED
  BY <1>4, <1>5, Zenon

(* A file that vanishes takes only the promises made while nothing did.    *)
LEMMA LossKeepsDisk ==
    ASSUME TypeOK, DiskInv, NEW l \in Locs, Lose(l)
    PROVE  DiskInv'
<1>0. UNCHANGED <<work, avail, created, superseded, readers, upload, exec>>
  BY Zenon DEF Lose, plans
<1>1. CopyInv'
  BY <1>0, DiskParts, CopiesUntouched, Zenon
<1>2. losses' # 0
  BY RetentionAssumption DEF Lose, TypeOK
<1>3. \A k \in Locs : file'[k] = "foreign" => file[k] = "foreign"
  BY DEF Lose, TypeOK
<1>4. CreatedIsOurs'
  BY <1>0, <1>3, Constants DEF DiskInv, CreatedIsOurs, TypeOK
<1> QED
  BY <1>0, <1>1, <1>2, <1>4, Zenon
     DEF DiskInv, CopyInv, NothingVanishes, ReaderKeepsItsFile, HeldIsQuiet, ListedIsPublished

-----------------------------------------------------------------------------
(* The disk: publishing a copy. *)

(* The file of a new copy is there afterwards, other files stay as they    *)
(* are, and a copy counts as created only where no foreign file lies.      *)
LEMMA RegisterEffect ==
    ASSUME TypeOK, DiskInv, NEW c \in Copies, backupRetentionRegisterLocal(c)
    PROVE  /\ avail'[c] \in {"available", "unproven"}
           /\ \A d \in Copies : d # c => avail'[d] = avail[d]
           /\ file'[Loc[c]] # "none"
           /\ \A k \in Locs : /\ file[k] # "none" => file'[k] = file[k]
                              /\ file'[k] = "foreign" => file[k] = "foreign"
           /\ \A d \in created' : file'[Loc[d]] # "foreign"
<1>1. avail'[c] \in {"available", "unproven"} /\ \A d \in Copies : d # c => avail'[d] = avail[d]
  BY DEF backupRetentionRegisterLocal, CreateDatabaseBackupLocalCopy, TypeOK
<1>2. /\ file'[Loc[c]] = IF file[Loc[c]] = "none" THEN "ours" ELSE file[Loc[c]]
      /\ \A k \in Locs : k # Loc[c] => file'[k] = file[k]
  BY Constants DEF backupRetentionRegisterLocal, TypeOK
<1>3. \A k \in Locs : /\ file[k] # "none" => file'[k] = file[k]
                      /\ file'[k] = "foreign" => file[k] = "foreign"
  BY <1>2
<1>4. Owned(c) => file[Loc[c]] # "foreign"
  BY DEF Owned, FindOwnedDatabaseBackupLocalCopy, DiskInv, CreatedIsOurs
<1>5. \A d \in created' : d \in Copies /\ file[Loc[d]] # "foreign"
  <2>1. created' \subseteq created \/ (Owned(c) /\ created' \subseteq created \cup {c})
    BY Zenon DEF backupRetentionRegisterLocal
  <2>2. \A d \in created : d \in Copies /\ file[Loc[d]] # "foreign"
    BY DEF DiskInv, CreatedIsOurs, TypeOK
  <2> QED
    BY <1>4, <2>1, <2>2, Zenon
<1>6. \A d \in created' : file'[Loc[d]] # "foreign"
  BY <1>3, <1>5, Constants, Zenon
<1>7. file'[Loc[c]] # "none"
  BY <1>2
<1> QED
  BY <1>1, <1>3, <1>6, <1>7, Zenon

(* Where nothing is held, publishing keeps the disk.                       *)
LEMMA PublishKeepsDisk ==
    ASSUME TypeOK, DiskInv, NEW c \in Copies, backupRetentionRegisterLocal(c),
           \A b \in Batches : exec[b].held = {},
           work' = [work EXCEPT ![c] = "published"], losses = 0 => superseded' = superseded,
           UNCHANGED <<exec, readers, upload, losses>>
    PROVE  DiskInv'
<1>1. \A d \in Copies : avail'[d] # "reserved"
  <2>1. \A d \in Copies : avail[d] # "reserved"
    BY Zenon DEF DiskInv, ReservedIsHeld
  <2> QED
    BY <2>1, RegisterEffect
<1>2. HeldIsReserved' /\ ReservedIsHeld' /\ HeldOnce' /\ HeldIsQuiet' /\ ReservedIsAlone'
        /\ ReservedHasNewer'
  BY <1>1, Zenon DEF HeldIsReserved, ReservedIsHeld, HeldOnce, HeldIsQuiet, ReservedIsAlone,
     ReservedHasNewer
<1>3. CreatedIsOurs'
  BY RegisterEffect, Zenon DEF CreatedIsOurs
<1>4. NothingVanishes'
  <2>1. ASSUME losses = 0, NEW d \in Copies, avail'[d] \in {"available", "unproven", "reserved"}
        PROVE  file'[Loc[d]] # "none"
    <3>1. CASE d = c
      BY <3>1, RegisterEffect, Zenon
    <3>2. CASE d # c
      <4>1. avail[d] \in {"available", "unproven", "reserved"}
        BY <2>1, <3>2, RegisterEffect, Zenon
      <4>2. file[Loc[d]] # "none"
        BY <2>1, <4>1, Zenon DEF DiskInv, NothingVanishes
      <4> QED
        BY <4>2, RegisterEffect, Constants, Zenon
    <3> QED
      BY <3>1, <3>2, Zenon
  <2> QED
    BY <2>1, Zenon DEF DiskInv, NothingVanishes
<1>5. ReaderKeepsItsFile'
  <2>1. \A d \in Copies : file[Loc[d]] # "none" => file'[Loc[d]] # "none"
    BY RegisterEffect, Constants, Zenon
  <2>2. readers \subseteq Copies
    BY DEF TypeOK
  <2> QED
    BY <2>1, <2>2, Zenon DEF DiskInv, ReaderKeepsItsFile
<1>6. ListedIsPublished'
  <2>1. \A d \in Copies : d # c => work'[d] = work[d]
    BY DEF TypeOK
  <2>2. avail'[c] # "none"
    BY RegisterEffect
  <2>3. \A d \in Copies : d # c => avail'[d] = avail[d]
    BY RegisterEffect, Zenon
  <2> QED
    BY <2>1, <2>2, <2>3, Zenon DEF DiskInv, ListedIsPublished
<1> QED
  BY <1>2, <1>3, <1>4, <1>5, <1>6, Zenon DEF DiskInv

(* A backup that completes was under way, so nothing is held.              *)
LEMMA CompletionKeepsDisk ==
    ASSUME TypeOK, DiskInv, NEW c \in Copies, CompleteBackup(c)
    PROVE  DiskInv'
<1>1. \A b \in Batches : exec[b].held = {}
  BY Zenon DEF DiskInv, HeldIsQuiet, CompleteBackup
<1>2. /\ backupRetentionRegisterLocal(c) /\ work' = [work EXCEPT ![c] = "published"]
      /\ UNCHANGED <<superseded, exec, readers, upload, losses>>
  BY Zenon DEF CompleteBackup, plans
<1> QED
  BY <1>1, <1>2, PublishKeepsDisk, Zenon

(* A download finds the file of its backup gone; while no file vanished    *)
(* that copy was deleted, and nothing is superseded.                       *)
LEMMA DownloadKeepsDisk ==
    ASSUME TypeOK, DiskInv, NEW c \in Copies, NEW d \in Copies, DownloadCopy(c, d)
    PROVE  DiskInv'
<1>1. \A b \in Batches : exec[b].held = {}
  BY NothingReserved, Zenon DEF DownloadCopy
<1>2. /\ backupRetentionRegisterLocal(c) /\ work' = [work EXCEPT ![c] = "published"]
      /\ UNCHANGED <<exec, readers, upload, losses>>
  BY Zenon DEF DownloadCopy, plans
<1>3. ASSUME losses = 0 PROVE superseded' = superseded
  <2>1. file[Loc[d]] = "none" /\ avail[d] # "none"
    BY Zenon DEF DownloadCopy, DiskInv, ListedIsPublished
  <2>2. avail[d] \notin {"available", "unproven", "reserved"}
    BY <1>3, <2>1, Zenon DEF DiskInv, NothingVanishes
  <2>3. avail[d] = "deleted"
    BY <2>1, <2>2 DEF DownloadCopy, LockDatabaseBackupLocalCopyPredecessor, TypeOK
  <2> QED
    BY <2>3, Zenon DEF DownloadCopy, SupersedeDatabaseBackupCopy
<1> QED
  BY <1>1, <1>2, <1>3, PublishKeepsDisk, Zenon

-----------------------------------------------------------------------------
(* The disk: reserving and settling. *)

(* Admission chooses among the available copies, never the newest usable   *)
(* one, so that one is left for every reservation, older ones included.    *)
LEMMA ReserveKeepsDisk ==
    ASSUME TypeOK, DiskInv, NEW b \in Batches, Admissible(b), Reserve(b),
           UNCHANGED <<work, created, superseded, file, readers, upload, losses>>
    PROVE  DiskInv'
<1>1. preview[b].chosen = Selected
  BY Zenon DEF Admissible, StillSelected
<1>2. \A c \in Selected : /\ c \in Copies /\ avail[c] = "available" /\ c \in created
                          /\ \A d \in Current : d # c => Loc[d] # Loc[c]
                          /\ \E d \in Usable : d > c
  BY Zenon DEF Selected, Unprotected, Current
<1>3. \A c \in Copies : avail'[c] = IF c \in Selected THEN "reserved" ELSE avail[c]
  BY <1>1, Zenon DEF Reserve, ReserveDatabaseBackupCopy
<1>4. /\ exec'[b].held = Selected /\ exec'[b].state = "admitted"
      /\ \A a \in Batches : a # b => exec'[a] = exec[a]
  BY <1>1 DEF Reserve, CreateDatabaseBackupRetentionItem, TypeOK
<1>5. exec[b].held = {}
  BY DEF Admissible, DiskInv, HeldIsReserved
<1>6. Current' = Current
  BY <1>2, <1>3 DEF Current
<1>7. Usable' = Usable \ Selected
  <2>1. \A c \in Selected : avail'[c] \notin {"available", "unproven"} /\ avail[c] = "available"
    BY <1>2, <1>3
  <2>2. \A c \in Copies : c \notin Selected => avail'[c] = avail[c]
    BY <1>3, Zenon
  <2> QED
    BY <1>6, <2>1, <2>2, SelectedAreCopies DEF Usable
<1>8. HeldIsReserved'
  <2> SUFFICES ASSUME NEW a \in Batches, NEW x \in exec'[a].held
               PROVE  /\ avail'[x] \in {"reserved", "uncertain"} /\ x \in created
                      /\ exec'[a].state = "admitted"
    BY Zenon DEF HeldIsReserved
  <2>1. CASE a = b
    BY <1>2, <1>3, <1>4, <2>1, Zenon
  <2>2. CASE a # b
    <3>1. x \in exec[a].held /\ exec'[a].state = exec[a].state
      BY <1>4, <2>2, Zenon
    <3>2. x \in Copies /\ avail[x] \in {"reserved", "uncertain"} /\ x \in created
            /\ exec[a].state = "admitted"
      BY <3>1 DEF DiskInv, HeldIsReserved, TypeOK
    <3>3. avail'[x] \in {"reserved", "uncertain"}
      BY <1>3, <3>2, Zenon
    <3> QED
      BY <3>1, <3>2, <3>3, Zenon
  <2> QED
    BY <2>1, <2>2, Zenon
<1>9. ReservedIsHeld'
  BY <1>3, <1>4, <1>5, Zenon DEF DiskInv, ReservedIsHeld
<1>10. HeldOnce'
  <2>1. \A a \in Batches : \A c \in exec[a].held : c \notin Selected
    BY <1>2 DEF DiskInv, HeldIsReserved
  <2> QED
    BY <1>4, <2>1, Zenon DEF DiskInv, HeldOnce
<1>11. HeldIsQuiet'
  BY Zenon DEF HeldIsQuiet, Admissible, DatabaseBackupRetentionRunnerBusy, Active
<1>12. ReservedIsAlone'
  BY <1>2, <1>3, <1>6, Zenon DEF DiskInv, ReservedIsAlone
<1>13. ReservedHasNewer'
  <2> SUFFICES ASSUME NEW c \in Copies, avail'[c] = "reserved"
               PROVE  \E d \in Usable' : d > c
    BY Zenon DEF ReservedHasNewer
  <2>1. PICK d \in Usable : d > c
    BY <1>2, <1>3, Zenon DEF DiskInv, ReservedHasNewer
  <2>2. PICK m \in Usable : \A y \in Usable : y <= m
    BY <2>1, HasNewest, SelectedAreCopies, Zenon
  <2>3. c \in Nat /\ d \in Nat /\ m \in Nat /\ Usable \subseteq Nat
    BY SelectedAreCopies, Constants, Zenon
  <2>4. m > c /\ \A y \in Usable : ~ (y > m)
    BY <2>1, <2>2, <2>3
  <2>5. m \notin Selected
    BY <1>2, <2>4, Zenon
  <2> QED
    BY <1>7, <2>4, <2>5, Zenon
<1>14. NothingVanishes'
  BY <1>2, <1>3, Zenon DEF DiskInv, NothingVanishes
<1>15. CreatedIsOurs' /\ ReaderKeepsItsFile'
  BY Zenon DEF DiskInv, CreatedIsOurs, ReaderKeepsItsFile
<1>16. ListedIsPublished'
  BY <1>3 DEF DiskInv, ListedIsPublished
<1> QED
  BY <1>8, <1>9, <1>10, <1>11, <1>12, <1>13, <1>14, <1>15, <1>16, Zenon DEF DiskInv

(* Settling takes one copy out of its reservation.                         *)
LEMMA SettleAvailability ==
    ASSUME TypeOK, DiskInv, NEW b \in Batches, NEW c \in Copies,
           NEW phase \in {"deleted", "failed", "uncertain"}, Settle(b, c, phase)
    PROVE  /\ avail[c] = "reserved" /\ c \in created
           /\ avail'[c] \in {"available", "deleted", "uncertain"}
           /\ avail'[c] = "available" => phase = "failed"
           /\ phase = "uncertain" => avail'[c] = "uncertain"
           /\ \A d \in Copies : d # c => avail'[d] = avail[d]
<1>1. avail[c] = "reserved" /\ c \in created
  BY DEF DiskInv, HeldIsReserved, Settle
<1>2. avail'[c] = SettledAvailability(phase) /\ \A d \in Copies : d # c => avail'[d] = avail[d]
  BY DEF Settle, TypeOK
<1>3. /\ SettledAvailability(phase) \in {"available", "deleted", "uncertain"}
      /\ SettledAvailability(phase) = "available" => phase = "failed"
      /\ phase = "uncertain" => SettledAvailability(phase) = "uncertain"
  BY DEF SettledAvailability
<1> QED
  BY <1>1, <1>2, <1>3, Zenon

(* Only its own file may go, and a failed deletion leaves it.              *)
LEMMA SettleFile ==
    ASSUME TypeOK, NEW b \in Batches, NEW c \in Copies,
           NEW phase \in {"deleted", "failed", "uncertain"}, Settle(b, c, phase)
    PROVE  /\ phase = "failed" => file' = file
           /\ \A k \in Locs : k # Loc[c] => file'[k] = file[k]
           /\ \A k \in Locs : file'[k] = "foreign" => file[k] = "foreign"
<1>1. phase = "failed" => file' = file
  BY DEF Settle
<1>2. \A k \in Locs : k # Loc[c] => file'[k] = file[k]
  BY DEF Settle, TypeOK
<1>3. \A k \in Locs : file'[k] = "foreign" => file[k] = "foreign"
  BY DEF Settle, TypeOK
<1> QED
  BY <1>1, <1>2, <1>3, Zenon

(* No batch gains a copy, and its own batch keeps it only while uncertain. *)
LEMMA SettleHeld ==
    ASSUME TypeOK, NEW b \in Batches, NEW c \in Copies,
           NEW phase \in {"deleted", "failed", "uncertain"}, Settle(b, c, phase)
    PROVE  /\ \A a \in Batches : exec'[a].state = exec[a].state
           /\ \A a \in Batches : exec'[a].held \subseteq exec[a].held
           /\ \A a \in Batches : \A d \in exec[a].held : d # c => d \in exec'[a].held
           /\ c \in exec'[b].held => phase = "uncertain"
<1>1. /\ \A a \in Batches : a # b => exec'[a] = exec[a]
      /\ exec'[b].state = exec[b].state
      /\ exec'[b].held = IF phase = "uncertain" THEN exec[b].held ELSE exec[b].held \ {c}
  BY DEF Settle, TypeOK
<1>2. \A a \in Batches : exec'[a].state = exec[a].state
  BY <1>1, Zenon
<1>3. \A a \in Batches : exec'[a].held \subseteq exec[a].held
  BY <1>1
<1>4. \A a \in Batches : \A d \in exec[a].held : d # c => d \in exec'[a].held
  BY <1>1
<1>5. c \in exec'[b].held => phase = "uncertain"
  BY <1>1
<1> QED
  BY <1>2, <1>3, <1>4, <1>5, Zenon

(* Settling keeps the disk.                                                *)
LEMMA SettleKeepsDisk ==
    ASSUME TypeOK, DiskInv, NEW b \in Batches, NEW c \in Copies,
           NEW phase \in {"deleted", "failed", "uncertain"}, Settle(b, c, phase)
    PROVE  DiskInv'
<1>0. UNCHANGED <<work, created, superseded, readers, upload, losses>> /\ c \in exec[b].held
  BY Zenon DEF Settle
<1>a. /\ avail[c] = "reserved" /\ c \in created
      /\ avail'[c] \in {"available", "deleted", "uncertain"}
      /\ avail'[c] = "available" => phase = "failed"
      /\ phase = "uncertain" => avail'[c] = "uncertain"
  BY SettleAvailability, Zenon
<1>b. \A d \in Copies : d # c => avail'[d] = avail[d]
  BY SettleAvailability, Zenon
<1>c. /\ \A a \in Batches : exec'[a].state = exec[a].state
      /\ \A a \in Batches : exec'[a].held \subseteq exec[a].held
      /\ \A a \in Batches : \A d \in exec[a].held : d # c => d \in exec'[a].held
      /\ c \in exec'[b].held => phase = "uncertain"
  BY SettleHeld
<1>d. /\ phase = "failed" => file' = file
      /\ \A k \in Locs : k # Loc[c] => file'[k] = file[k]
      /\ \A k \in Locs : file'[k] = "foreign" => file[k] = "foreign"
  BY SettleFile
<1>1. avail'[c] # "reserved" /\ avail'[c] # "none" /\ avail'[c] # "unproven"
  BY <1>a
<1>2. Current' \subseteq Current
  BY <1>0, <1>a, <1>b DEF Current
<1>3. Usable \subseteq Usable'
  BY <1>0, <1>a, <1>b DEF Usable, Current
<1>4. HeldIsReserved'
  <2> SUFFICES ASSUME NEW a \in Batches, NEW x \in exec'[a].held
               PROVE  /\ avail'[x] \in {"reserved", "uncertain"} /\ x \in created'
                      /\ exec'[a].state = "admitted"
    BY Zenon DEF HeldIsReserved
  <2>1. x \in exec[a].held /\ exec'[a].state = exec[a].state /\ x \in Copies
    BY <1>c DEF TypeOK
  <2>2. CASE x # c
    BY <1>0, <1>b, <2>1, <2>2, Zenon DEF DiskInv, HeldIsReserved
  <2>3. CASE x = c
    <3>1. a = b
      BY <1>0, <2>1, <2>3, Zenon DEF DiskInv, HeldOnce
    <3>2. avail'[c] = "uncertain"
      BY <1>a, <1>c, <2>3, <3>1, Zenon
    <3> QED
      BY <1>0, <2>1, <2>3, <3>2, Zenon DEF DiskInv, HeldIsReserved
  <2> QED
    BY <2>2, <2>3, Zenon
<1>5. ReservedIsHeld'
  BY <1>1, <1>b, <1>c, Zenon DEF DiskInv, ReservedIsHeld
<1>6. HeldOnce'
  BY <1>c, Zenon DEF DiskInv, HeldOnce
<1>7. HeldIsQuiet'
  BY <1>0, <1>c, Zenon DEF DiskInv, HeldIsQuiet
<1>8. ReservedIsAlone'
  BY <1>1, <1>2, <1>b, Zenon DEF DiskInv, ReservedIsAlone
<1>9. ReservedHasNewer'
  BY <1>1, <1>3, <1>b, Zenon DEF DiskInv, ReservedHasNewer
<1>10. CreatedIsOurs'
  <2>1. created \subseteq Copies
    BY DEF TypeOK
  <2> QED
    BY <1>0, <1>d, <2>1, Constants, Zenon DEF DiskInv, CreatedIsOurs
<1>11. NothingVanishes'
  <2> SUFFICES ASSUME losses = 0, NEW d \in Copies, avail'[d] \in {"available", "unproven", "reserved"}
               PROVE  file'[Loc[d]] # "none"
    BY <1>0, Zenon DEF DiskInv, NothingVanishes
  <2>1. CASE d = c
    <3>1. avail'[c] = "available" /\ file' = file
      BY <1>1, <1>a, <1>d, <2>1
    <3> QED
      BY <1>a, <2>1, <3>1, Zenon DEF DiskInv, NothingVanishes
  <2>2. CASE d # c
    <3>1. avail[d] \in {"available", "unproven", "reserved"} /\ superseded = {}
      BY <1>b, <2>2, Zenon DEF DiskInv, NothingVanishes
    <3>2. d \in Current
      BY <3>1 DEF Current
    <3>3. Loc[d] # Loc[c] /\ Loc[d] \in Locs
      BY <1>a, <2>2, <3>2, Constants, Zenon DEF DiskInv, ReservedIsAlone
    <3> QED
      BY <1>d, <3>1, <3>3, Zenon DEF DiskInv, NothingVanishes
  <2> QED
    BY <2>1, <2>2, Zenon
<1>12. ReaderKeepsItsFile'
  BY <1>0, Zenon DEF DiskInv, HeldIsQuiet, ReaderKeepsItsFile
<1>13. ListedIsPublished'
  BY <1>0, <1>1, <1>b, Zenon DEF DiskInv, ListedIsPublished
<1> QED
  BY <1>4, <1>5, <1>6, <1>7, <1>8, <1>9, <1>10, <1>11, <1>12, <1>13, Zenon DEF DiskInv

-----------------------------------------------------------------------------
(* The theorems. *)

(* Every step keeps the disk.                                              *)
LEMMA DiskKept ==
    ASSUME TypeOK, DiskInv, [Next]_vars
    PROVE  DiskInv'
<1>0. 0 \in Batches
  BY Constants, Zenon
<1>1. CASE \/ SaveDatabaseBackupRetention \/ SetRole \/ PreviewDatabaseBackupRetention
           \/ \E c \in Copies : ReconcilePreview(c)
           \/ SetDatabaseBackupRetentionPublicationState \/ Crash \/ UNCHANGED vars
  <2>1. UNCHANGED <<disk, exec>>
    BY <1>1, Zenon DEF SaveDatabaseBackupRetention, SetRole, PreviewDatabaseBackupRetention,
       ReconcilePreview, SetDatabaseBackupRetentionPublicationState, Crash, vars, plans
  <2> QED
    BY <2>1, DiskUntouched, Zenon
<1>2. CASE ExecuteDatabaseBackupRetention
  <2>1. /\ Admissible(0) /\ Reserve(0)
        /\ UNCHANGED <<work, created, superseded, file, readers, upload, losses>>
    BY <1>2, Zenon DEF ExecuteDatabaseBackupRetention
  <2> QED
    BY <1>0, <2>1, ReserveKeepsDisk, Zenon
<1>3. CASE \E c \in Copies : \/ AdmitBackup(c) \/ FailBackup(c) \/ AdmitReader(c) \/ FinishReader(c)
                             \/ AdmitUpload(c) \/ FinishUpload(c)
  BY <1>3, WorkKeepsDisk, Zenon
<1>4. CASE \E c \in Copies : CompleteBackup(c)
  BY <1>4, CompletionKeepsDisk, Zenon
<1>5. CASE \E l \in Locs : Lose(l)
  BY <1>5, LossKeepsDisk, Zenon
<1>6. CASE \E c, d \in Copies : DownloadCopy(c, d)
  BY <1>6, DownloadKeepsDisk, Zenon
<1>7. CASE \E b \in Batches, c \in Copies, phase \in {"deleted", "failed", "uncertain"} :
              Settle(b, c, phase)
  BY <1>7, SettleKeepsDisk, Zenon
<1>8. CASE ReconcileExecute
  <2>1. rec.c \in Batches
    BY Constants DEF TypeOK
  <2>2. UNCHANGED <<work, created, superseded, file, readers, upload, losses>>
    BY <1>8, Zenon DEF ReconcileExecute
  <2>3. CASE Admissible(rec.c) /\ Reserve(rec.c)
    BY <2>1, <2>2, <2>3, ReserveKeepsDisk, Zenon
  <2>4. CASE UNCHANGED <<exec, avail>>
    BY <2>2, <2>4, DiskUntouched, Zenon DEF disk
  <2> QED
    BY <1>8, <2>3, <2>4, Zenon DEF ReconcileExecute
<1> QED
  BY <1>1, <1>2, <1>3, <1>4, <1>5, <1>6, <1>7, <1>8, Zenon DEF Next, ReconcileDatabaseBackupRetention

(* The invariant holds of every reachable state, for every number of       *)
(* backups, digests, policy changes and vanished files.                    *)
THEOREM RetentionInvariant == Spec => []RetentionInv
<1>1. Init => RetentionInv
  <2> SUFFICES ASSUME Init PROVE RetentionInv
    OBVIOUS
  <2>1. TypeOK
    BY RetentionAssumption DEF Init, TypeOK, NoPreview, Idle
  <2>2. \A b \in Batches : exec[b].held = {} /\ exec[b].state = "none"
    BY DEF Init
  <2>3. \A c \in Copies : /\ avail[c] = "none" /\ work[c] = "none" /\ upload[c] = "none"
                          /\ pub[c] = "none"
    BY DEF Init
  <2>4. created = {} /\ superseded = {} /\ readers = {}
    BY Zenon DEF Init
  <2>5. DiskInv
    BY <2>2, <2>3, <2>4
       DEF DiskInv, HeldIsReserved, ReservedIsHeld, HeldOnce, HeldIsQuiet, ReservedIsAlone,
           ReservedHasNewer, CreatedIsOurs, NothingVanishes, ReaderKeepsItsFile, ListedIsPublished
  <2>6. rec.step = "idle" /\ policy.rev = 1 /\ changes = 0
    BY DEF Init, Idle
  <2>7. PlanInv
    BY <2>2, <2>3, <2>6 DEF PlanInv
  <2> QED
    BY <2>1, <2>5, <2>7, Zenon DEF RetentionInv
<1>2. RetentionInv /\ [Next]_vars => RetentionInv'
  BY TypesKept, PlansKept, DiskKept, Zenon DEF RetentionInv
<1> QED
  BY <1>1, <1>2, PTL DEF Spec

(* No batch, stale preview, shared digest or late publication takes away a *)
(* copy listed available or a file being read, and publications are true   *)
(* (ExecuteDatabaseBackupRetention, ReconcileDatabaseBackupRetention).     *)
THEOREM StoredCopiesAreAlwaysKept ==
    Spec => [](TypeOK /\ AvailableCopyExists /\ ReaderKeepsItsFile /\ PublicationIsTrue)
<1>1. RetentionInv => TypeOK /\ AvailableCopyExists /\ ReaderKeepsItsFile /\ PublicationIsTrue
  <2> SUFFICES ASSUME RetentionInv
               PROVE  TypeOK /\ AvailableCopyExists /\ ReaderKeepsItsFile /\ PublicationIsTrue
    OBVIOUS
  <2>1. AvailableCopyExists
    BY Zenon DEF RetentionInv, DiskInv, NothingVanishes, AvailableCopyExists
  <2>2. ASSUME NEW c \in Copies, pub[c] = "skipped" PROVE exec[c].state = "none"
    <3>1. c \in Batches
      BY Constants, Zenon
    <3>2. exec[c].state # "admitted"
      BY <2>2, <3>1, Zenon DEF RetentionInv, PlanInv, Skips
    <3> QED
      BY <3>1, <3>2 DEF RetentionInv, TypeOK
  <2>3. PublicationIsTrue
    BY <2>2, Zenon DEF RetentionInv, PlanInv, PublicationIsTrue
  <2> QED
    BY <2>1, <2>3, Zenon DEF RetentionInv, DiskInv
<1> QED
  BY <1>1, RetentionInvariant, PTL

(* A deletion takes neither a file the platform did not create nor the     *)
(* last recovery point of a database, also when files vanish.              *)
THEOREM DeletionsAlwaysSpare == Spec => ForeignFileSurvives /\ DeletionLeavesNewer
<1>1. RetentionInv /\ [Next]_vars =>
         [\A l \in Locs : file[l] = "foreign" => file'[l] = "foreign"]_vars
  <2> SUFFICES ASSUME RetentionInv, [Next]_vars, NEW l \in Locs, file[l] = "foreign"
               PROVE  file'[l] = "foreign"
    BY Zenon
  <2>0. TypeOK /\ DiskInv
    BY Zenon DEF RetentionInv
  <2>1. CASE UNCHANGED file
    BY <2>1, Zenon
  <2>2. ASSUME NEW c \in Copies, backupRetentionRegisterLocal(c) PROVE file'[l] = "foreign"
    <3>1. file[l] # "none" => file'[l] = file[l]
      BY <2>0, <2>2, RegisterEffect, Zenon
    <3> QED
      BY <3>1
  <2>3. ASSUME NEW k \in Locs, Lose(k) PROVE file'[l] = "foreign"
    BY <2>0, <2>3 DEF Lose, TypeOK
  <2>4. ASSUME NEW b \in Batches, NEW c \in Copies, NEW phase \in {"deleted", "failed", "uncertain"},
               Settle(b, c, phase)
        PROVE  file'[l] = "foreign"
    <3>1. c \in created /\ \A k \in Locs : k # Loc[c] => file'[k] = file[k]
      BY <2>0, <2>4, SettleAvailability, SettleFile, Zenon
    <3>2. Loc[c] # l
      BY <2>0, <3>1, Zenon DEF DiskInv, CreatedIsOurs
    <3> QED
      BY <3>1, <3>2, Zenon
  <2> QED
    BY <2>1, <2>2, <2>3, <2>4, Zenon DEF Next, SaveDatabaseBackupRetention, SetRole,
       PreviewDatabaseBackupRetention, ExecuteDatabaseBackupRetention, AdmitBackup, CompleteBackup,
       FailBackup, AdmitReader, FinishReader, AdmitUpload, FinishUpload, DownloadCopy, Crash,
       ReconcileDatabaseBackupRetention, ReconcilePreview, ReconcileExecute,
       SetDatabaseBackupRetentionPublicationState, vars, disk
<1>2. RetentionInv /\ [Next]_vars =>
         [\A c \in Copies : avail[c] = "reserved" /\ avail'[c] = "deleted" =>
             \E d \in Copies : d > c /\ d \in Usable]_vars
  BY SelectedAreCopies, Zenon DEF RetentionInv, DiskInv, ReservedHasNewer
<1> QED
  BY <1>1, <1>2, RetentionInvariant, PTL DEF Spec, ForeignFileSurvives, DeletionLeavesNewer

(* Retention is safe: both together.                                       *)
THEOREM RetentionIsAlwaysSafe == Spec => RetentionIsSafe
  BY StoredCopiesAreAlwaysKept, DeletionsAlwaysSpare, PTL DEF RetentionIsSafe
=============================================================================
