----------------------------- MODULE BuildEngine -----------------------------
(***************************************************************************)
(* The image build engine on a runner's host (hostingbuild): admission     *)
(* under the host lock, protected material on disk, the durable marker of  *)
(* the resources a build owns, their creation one by one, the retained     *)
(* receipt and its replay, and the unwinding of every failure.  Runner     *)
(* processes that share the host may crash at any step.                    *)
(***************************************************************************)
EXTENDS Integers, Sequences, FiniteSets

CONSTANTS Procs, Builds, MaxCalls, MaxFaults

(* The constants satisfy:
     Builds # {} /\ MaxCalls \in Nat /\ MaxFaults \in Nat *)

None == "none"
Owned == {"group", "volume", "builder", "planner"}
Kinds == {"registry", "secrets"}

VARIABLES
    pc, of,         \* each process: where its call stands, and its build
    failed,         \* whether the call is unwinding an error
    lock,           \* the process holding the host lock and the state lock
    marker,         \* cleanup_unconfirmed.json: the build it names
    dir,            \* builds whose directory exists
    material,       \* protected files, per build
    owned,          \* Docker resources and the cgroup, per build
    loaded,         \* images in the daemon, by build and content
    receipt,        \* receipt.json, per build: the content it records
    content,        \* what the caller's checkout holds
    outcome,        \* last answer of a call, per build
    calls, faults

vars == <<pc, of, failed, lock, marker, dir, material, owned, loaded, receipt,
          content, outcome, calls, faults>>

call == <<pc, of, failed>>
disk == <<marker, dir, material, receipt>>
daemon == <<owned, loaded>>
caller == <<content, outcome, calls, faults>>

Init ==
    /\ pc = [p \in Procs |-> "idle"] /\ of = [p \in Procs |-> None] /\ failed = [p \in Procs |-> FALSE]
    /\ lock = None /\ marker = None /\ dir = {} /\ loaded = {}
    /\ material = [b \in Builds |-> {}] /\ owned = [b \in Builds |-> {}]
    /\ receipt = [b \in Builds |-> None] /\ content = [b \in Builds |-> "old"]
    /\ outcome = [b \in Builds |-> [ok |-> FALSE, content |-> None]]
    /\ calls = 0 /\ faults = 0

Goto(p, l) == pc' = [pc EXCEPT ![p] = l]
Fault == faults < MaxFaults /\ faults' = faults + 1

--------------------------------------------------------------------------
(* Admission. *)

(* A call with a retained marker is refused before it takes any lock. *)
Enter(p, b) ==
    /\ pc[p] = "idle" /\ calls < MaxCalls /\ marker = None
    /\ calls' = calls + 1 /\ of' = [of EXCEPT ![p] = b] /\ failed' = [failed EXCEPT ![p] = FALSE]
    /\ Goto(p, "admit")
    /\ UNCHANGED <<lock, disk, daemon, content, outcome, faults>>

(* Mutant: the marker is not read again under the lock. *)
AdmitStale(p) ==
    /\ pc[p] = "admit" /\ lock = None /\ lock' = p
    /\ material' = [b \in Builds |-> {}]
    /\ IF of[p] \in dir THEN Goto(p, "replay") /\ UNCHANGED dir ELSE Goto(p, "registry") /\ dir' = dir \cup {of[p]}
    /\ UNCHANGED <<of, failed, marker, receipt, daemon, caller>>

(* Mutant: admission scrubs nothing. *)
AdmitUnscrubbed(p) ==
    /\ pc[p] = "admit" /\ lock = None /\ marker = None /\ lock' = p
    /\ IF of[p] \in dir THEN Goto(p, "replay") /\ UNCHANGED dir ELSE Goto(p, "registry") /\ dir' = dir \cup {of[p]}
    /\ UNCHANGED <<of, failed, marker, material, receipt, daemon, caller>>

(* Mutant: an interrupted build starts over in its directory. *)
AdmitAgain(p) ==
    /\ pc[p] = "admit" /\ lock = None /\ marker = None /\ lock' = p
    /\ material' = [b \in Builds |-> {}]
    /\ IF receipt[of[p]] # None THEN Goto(p, "replay") ELSE Goto(p, "registry")
    /\ dir' = dir \cup {of[p]}
    /\ UNCHANGED <<of, failed, marker, receipt, daemon, caller>>

(* Both locks, the marker again, the scrub of material a crash left, and   *)
(* the build's directory: existing, it is answered from its receipt.       *)
Admit(p) ==
    /\ pc[p] = "admit" /\ lock = None /\ marker = None /\ lock' = p
    /\ material' = [b \in Builds |-> {}]
    /\ IF of[p] \in dir THEN Goto(p, "replay") /\ UNCHANGED dir ELSE Goto(p, "registry") /\ dir' = dir \cup {of[p]}
    /\ UNCHANGED <<of, failed, marker, receipt, daemon, caller>>

Refuse(p) ==
    /\ pc[p] = "admit" /\ (lock # None \/ marker # None) /\ Goto(p, "idle")
    /\ UNCHANGED <<of, failed, lock, disk, daemon, caller>>

(* Mutant: the lock files stay open. *)
LeaveLocked(p) == UNCHANGED lock /\ Goto(p, "idle")

(* The deferred Close of both lock files. *)
Leave(p) == lock' = None /\ Goto(p, "idle")

(* Mutant: a retained receipt is returned whatever the source holds. *)
ReplayBlind(p) ==
    /\ pc[p] = "replay" /\ Leave(p)
    /\ IF receipt[of[p]] # None /\ <<of[p], receipt[of[p]]>> \in loaded
       THEN outcome' = [outcome EXCEPT ![of[p]] = [ok |-> TRUE, content |-> content[of[p]]]]
       ELSE UNCHANGED outcome
    /\ UNCHANGED <<of, failed, disk, daemon, content, calls, faults>>

(* replay: the receipt must exist, match the request and the staged        *)
(* source, and its image must still be in the daemon.                      *)
Replay(p) ==
    /\ pc[p] = "replay" /\ Leave(p)
    /\ IF receipt[of[p]] = content[of[p]] /\ <<of[p], receipt[of[p]]>> \in loaded
       THEN outcome' = [outcome EXCEPT ![of[p]] = [ok |-> TRUE, content |-> content[of[p]]]]
       ELSE UNCHANGED outcome
    /\ UNCHANGED <<of, failed, disk, daemon, content, calls, faults>>

--------------------------------------------------------------------------
(* A fresh build. *)

(* The steps of BuildWithMaterials up to its receipt, in order. *)
Steps == <<"registry", "secrets", "inspect", "mark", "group", "volume", "builder", "planner", "image", "load", "receipt">>
After(l) == Steps[(CHOOSE i \in 1..Len(Steps) : Steps[i] = l) + 1]

(* Where an error unwinds from: the deferred calls installed so far. *)
Unwind(l) == IF l \in {"registry", "secrets", "inspect", "mark"} THEN "wipe" ELSE "cleanup"

(* writeBuildRegistryConfig and writeBuildSecrets: the file appears even   *)
(* when the step that follows it fails.                                    *)
WriteMaterial(p) ==
    /\ pc[p] \in Kinds /\ material' = [material EXCEPT ![of[p]] = @ \cup {pc[p]}]
    /\ Goto(p, After(pc[p]))
    /\ UNCHANGED <<of, failed, lock, marker, dir, receipt, daemon, caller>>

(* The daemon, free space, pinned image and staged context. *)
InspectHost(p) ==
    /\ pc[p] = "inspect" /\ Goto(p, After(pc[p]))
    /\ UNCHANGED <<of, failed, lock, disk, daemon, caller>>

(* durableJSON of the resources that are about to be created. *)
Mark(p) ==
    /\ pc[p] = "mark" /\ marker' = of[p] /\ Goto(p, After(pc[p]))
    /\ UNCHANGED <<of, failed, lock, dir, material, receipt, daemon, caller>>

(* createBuildGroup, volume create, create and start of the builder, and   *)
(* the planner's container.                                                *)
Create(p) ==
    /\ pc[p] \in Owned /\ owned' = [owned EXCEPT ![of[p]] = @ \cup {pc[p]}]
    /\ Goto(p, After(pc[p]))
    /\ UNCHANGED <<of, failed, lock, disk, loaded, caller>>

(* The build itself, with its export validated. *)
RunBuild(p) ==
    /\ pc[p] = "image" /\ Goto(p, "load")
    /\ UNCHANGED <<of, failed, lock, disk, daemon, caller>>

LoadImage(p) ==
    /\ pc[p] = "load" /\ loaded' = loaded \cup {<<of[p], content[of[p]]>>} /\ Goto(p, "receipt")
    /\ UNCHANGED <<of, failed, lock, disk, owned, caller>>

(* receipt.json is written last, while the builder still exists. *)
WriteReceipt(p) ==
    /\ pc[p] = "receipt" /\ receipt' = [receipt EXCEPT ![of[p]] = content[of[p]]]
    /\ Goto(p, "cleanup")
    /\ UNCHANGED <<of, failed, lock, marker, dir, material, daemon, caller>>

(* Any step may fail, among others because the monitor canceled the build  *)
(* over its disk budget or a foreign descendant.                           *)
StepFails(p) ==
    /\ \E i \in 1..Len(Steps) : pc[p] = Steps[i]
    /\ Fault /\ failed' = [failed EXCEPT ![p] = TRUE]
    /\ Goto(p, Unwind(pc[p]))
    /\ material' = IF pc[p] \in Kinds THEN [material EXCEPT ![of[p]] = @ \cup {pc[p]}] ELSE material
    /\ owned' = IF pc[p] \in Owned THEN [owned EXCEPT ![of[p]] = @ \cup {pc[p]}] ELSE owned
    /\ UNCHANGED <<of, lock, marker, dir, receipt, loaded, content, outcome, calls>>

--------------------------------------------------------------------------
(* Unwinding, in the order of the deferred calls. *)

(* Mutant: the marker goes first. *)
CleanupUnmarked(p) ==
    /\ pc[p] = "cleanup"
    /\ \/ owned' = [owned EXCEPT ![of[p]] = {}] /\ marker' = None /\ UNCHANGED <<failed, faults>>
       \/ Fault /\ failed' = [failed EXCEPT ![p] = TRUE] /\ marker' = None
          /\ \E rest \in SUBSET owned[of[p]] : owned' = [owned EXCEPT ![of[p]] = rest]
    /\ Goto(p, "wipe")
    /\ UNCHANGED <<of, lock, dir, material, receipt, loaded, content, outcome, calls>>

(* cleanup removes planner, builder, volume and group after checking that  *)
(* each is owned; the marker goes when all are confirmed absent, and stays *)
(* with the call in error when any is not.                                 *)
Cleanup(p) ==
    /\ pc[p] = "cleanup"
    /\ \/ owned' = [owned EXCEPT ![of[p]] = {}] /\ marker' = None /\ UNCHANGED <<failed, faults>>
       \/ Fault /\ failed' = [failed EXCEPT ![p] = TRUE] /\ UNCHANGED marker
          /\ \E rest \in SUBSET owned[of[p]] : owned' = [owned EXCEPT ![of[p]] = rest]
    /\ Goto(p, "wipe")
    /\ UNCHANGED <<of, lock, dir, material, receipt, loaded, content, outcome, calls>>

(* Mutant: a failed removal of protected files is not an error. *)
WipeQuietly(p) ==
    /\ pc[p] = "wipe" /\ UNCHANGED failed
    /\ \/ material' = [material EXCEPT ![of[p]] = {}] /\ UNCHANGED faults
       \/ Fault /\ UNCHANGED material
    /\ Goto(p, "return")
    /\ UNCHANGED <<of, lock, marker, dir, receipt, daemon, content, outcome, calls>>

(* removeBuildRegistryConfig and removeBuildSecrets. *)
Wipe(p) ==
    /\ pc[p] = "wipe"
    /\ \/ material' = [material EXCEPT ![of[p]] = {}] /\ UNCHANGED <<failed, faults>>
       \/ Fault /\ UNCHANGED material /\ failed' = [failed EXCEPT ![p] = TRUE]
    /\ Goto(p, "return")
    /\ UNCHANGED <<of, lock, marker, dir, receipt, daemon, content, outcome, calls>>

(* The locks are released and the caller has its answer. *)
Return(p) ==
    /\ pc[p] = "return" /\ Leave(p)
    /\ outcome' = IF failed[p] THEN outcome
                  ELSE [outcome EXCEPT ![of[p]] = [ok |-> TRUE, content |-> content[of[p]]]]
    /\ UNCHANGED <<of, failed, disk, daemon, content, calls, faults>>

--------------------------------------------------------------------------
(* What may happen around the engine. *)

(* A process dies: its locks go with it and nothing is unwound. *)
Crash(p) ==
    /\ pc[p] # "idle" /\ Fault /\ Goto(p, "idle")
    /\ lock' = IF lock = p THEN None ELSE lock
    /\ UNCHANGED <<of, failed, disk, daemon, content, outcome, calls>>

(* An operator removes what a marker names, and then the marker. *)
OperatorClears ==
    /\ marker # None /\ lock = None
    /\ owned' = [owned EXCEPT ![marker] = {}] /\ marker' = None
    /\ UNCHANGED <<call, lock, dir, material, receipt, loaded, caller>>

(* A caller presents the same build with another source. *)
SourceChanges(b) ==
    /\ content[b] = "old" /\ content' = [content EXCEPT ![b] = "new"]
    /\ outcome' = [outcome EXCEPT ![b] = [ok |-> FALSE, content |-> None]]
    /\ \A p \in Procs : of[p] = b => pc[p] = "idle"
    /\ UNCHANGED <<call, lock, disk, daemon, calls, faults>>

Next ==
    \/ \E p \in Procs :
        \/ \E b \in Builds : Enter(p, b)
        \/ Admit(p) \/ Refuse(p) \/ Replay(p) \/ WriteMaterial(p) \/ InspectHost(p) \/ Mark(p)
        \/ Create(p) \/ RunBuild(p) \/ LoadImage(p) \/ WriteReceipt(p) \/ StepFails(p)
        \/ Cleanup(p) \/ Wipe(p) \/ Return(p) \/ Crash(p)
    \/ OperatorClears
    \/ \E b \in Builds : SourceChanges(b)

Spec == Init /\ [][Next]_vars

--------------------------------------------------------------------------
(* A process inside the locks. *)
Inside(p) == pc[p] \notin {"idle", "admit"}

(* The shapes of the disk and the daemon, and one engine call at a time.   *)
ETypeOK ==
    /\ marker \in Builds \cup {None} /\ dir \subseteq Builds /\ lock \in Procs \cup {None}
    /\ material \in [Builds -> SUBSET Kinds] /\ owned \in [Builds -> SUBSET Owned]
    /\ receipt \in [Builds -> {None, "old", "new"}]
    /\ \A p \in Procs : Inside(p) <=> lock = p

(* Every container, volume and group the engine made is named by the       *)
(* durable marker for as long as it exists, whatever step a crash or a     *)
(* failed removal interrupts: uncertainty is never forgotten.              *)
OwnedIsMarked == \A b \in Builds : owned[b] # {} => marker = b

(* Two builds never have resources on the host together, even when a call  *)
(* looked at the marker before another process wrote it and died.          *)
OneBuildOnHost == Cardinality({b \in Builds : owned[b] # {}}) <= 1

(* A call that reports success left nothing behind: no resources, no       *)
(* protected file, a durable receipt and the image of that very source.    *)
SuccessIsComplete ==
    \A b \in Builds : outcome[b].ok =>
        /\ owned[b] = {} /\ marker # b /\ <<b, outcome[b].content>> \in loaded
        /\ receipt[b] = outcome[b].content
        /\ (\A p \in Procs : of[p] = b => ~Inside(p)) => material[b] = {}

(* While one build is in progress the protected files of no other are on   *)
(* the disk: admission scrubs what a crash left.                           *)
OthersAreScrubbed ==
    \A p \in Procs : Inside(p) => \A b \in Builds \ {of[p]} : material[b] = {}

(* A build identity is worked on once: whoever finds its directory only    *)
(* replays the receipt, so a build that was interrupted, or failed, never  *)
(* gets one afterwards.                                                    *)
IdentityIsUsedOnce ==
    [][\A b \in dir : (\A p \in Procs : of[p] = b => ~Inside(p)) =>
        /\ receipt'[b] = receipt[b]
        /\ \A p \in Procs : (of'[p] = b /\ Inside(p)') => pc'[p] = "replay"]_vars
=============================================================================
