--------------------------- MODULE SourceCheckout ---------------------------
(***************************************************************************)
(* WithSourceCheckout: a build's source is fetched under a credential with *)
(* a closing window, its receipt accepted, the transport material          *)
(* destroyed, and only then is the tree used.  A monitor goroutine watches *)
(* the workspace budget and cancels; every return runs the deferred        *)
(* removals; a crash runs none of them.                                    *)
(***************************************************************************)
EXTENDS Integers

CONSTANTS Private, MaxAttempts, MaxFaults

(* The constants satisfy:
     Private \in BOOLEAN /\ {MaxAttempts, MaxFaults} \subseteq Nat *)

VARIABLES
    at,         \* where the call stands
    attempt,    \* which call it is
    tree,       \* the attempt whose checkout directory exists, 0 without one
    files,      \* the call's other files: transport material, Git metadata
    cred,       \* credential bytes in memory
    open,       \* the credential's window has not passed
    intime,     \* the transport was destroyed before the window passed
    monitor,    \* off, on, tripped, joined
    canceled,   \* the operation's context
    accepted,   \* the attempt whose receipt the caller recorded
    result,     \* what the call returns
    faults

vars == <<at, attempt, tree, files, cred, open, intime, monitor, canceled, accepted, result, faults>>

Init ==
    /\ at = "idle" /\ attempt = 0 /\ tree = 0 /\ files = {} /\ cred = FALSE /\ open = TRUE
    /\ intime = FALSE /\ monitor = "off" /\ canceled = FALSE /\ accepted = 0 /\ result = "none"
    /\ faults = 0

Fault == faults < MaxFaults /\ faults' = faults + 1

(* An error at a step starts the deferred calls. *)
Fails(code) == at' = "join" /\ result' = code

(* checkTransport: not canceled, and the window still open. *)
checkTransport == ~canceled /\ (Private => open)

--------------------------------------------------------------------------
(* Mutant: an existing directory is taken over. *)
MkdirAll ==
    /\ at = "idle" /\ attempt < MaxAttempts /\ attempt' = attempt + 1
    /\ at' = "fetch" /\ tree' = (IF tree = 0 THEN attempt' ELSE tree) /\ files' = {"transport"} /\ monitor' = "on"
    /\ open' = TRUE /\ canceled' = FALSE /\ result' = "none"
    /\ intime' = FALSE /\ cred' = Private
    /\ UNCHANGED <<accepted, faults>>

(* Validation, the DNS policy and the pinned address, then the exclusive   *)
(* directory, the transport directory, the monitor and the credential.     *)
Mkdir ==
    /\ at = "idle" /\ attempt < MaxAttempts /\ attempt' = attempt + 1
    /\ open' = TRUE /\ canceled' = FALSE /\ intime' = FALSE
    /\ IF tree # 0
       THEN result' = "checkout_unavailable" /\ UNCHANGED <<at, tree, files, cred, monitor>>
       ELSE /\ at' = "fetch" /\ tree' = attempt' /\ files' = {"transport"} /\ monitor' = "on"
            /\ cred' = Private /\ result' = "none"
    /\ UNCHANGED <<accepted, faults>>

(* The fetch runs under the window's deadline and leaves Git metadata; the *)
(* commit must be the frozen one and the index free of submodules.         *)
Fetch ==
    /\ at = "fetch" /\ files' = files \cup {"git"}
    /\ IF checkTransport THEN at' = "strip" /\ UNCHANGED <<result, faults>> ELSE Fails("fetch_failed") /\ UNCHANGED faults
    /\ UNCHANGED <<attempt, tree, cred, open, intime, monitor, canceled, accepted>>

(* Git metadata is removed before the tree is measured. *)
Strip ==
    /\ at = "strip" /\ files' = files \ {"git"} /\ at' = "digest"
    /\ UNCHANGED <<attempt, tree, cred, open, intime, monitor, canceled, accepted, result, faults>>

Digest ==
    /\ at = "digest"
    /\ IF checkTransport THEN at' = "accept" /\ UNCHANGED result ELSE Fails("credential_expired")
    /\ UNCHANGED <<attempt, tree, files, cred, open, intime, monitor, canceled, accepted, faults>>

(* Mutant: the tree is used while the transport still exists. *)
AcceptAndUse ==
    /\ at = "accept" /\ at' = "use" /\ accepted' = attempt
    /\ UNCHANGED <<attempt, tree, files, cred, open, intime, monitor, canceled, result, faults>>

(* The caller's accept: the receipt is durable before anything uses it. *)
Accept ==
    /\ at = "accept" /\ at' = "retire" /\ accepted' = attempt
    /\ UNCHANGED <<attempt, tree, files, cred, open, intime, monitor, canceled, result, faults>>

(* Transport material off the disk, bytes cleared. *)
Retire ==
    /\ at = "retire" /\ files' = files \ {"transport"} /\ cred' = FALSE /\ intime' = open /\ at' = "check"
    /\ UNCHANGED <<attempt, tree, open, monitor, canceled, accepted, result, faults>>

(* Mutant: the window is not looked at again. *)
CheckOnce ==
    /\ at = "check" /\ at' = "use"
    /\ UNCHANGED <<attempt, tree, files, cred, open, intime, monitor, canceled, accepted, result, faults>>

(* The last checkTransport: from here the window no longer matters. *)
Check ==
    /\ at = "check"
    /\ IF checkTransport THEN at' = "use" /\ UNCHANGED result ELSE Fails("credential_expired")
    /\ UNCHANGED <<attempt, tree, files, cred, open, intime, monitor, canceled, accepted, faults>>

Use ==
    /\ at = "use" /\ at' = "join" /\ result' = IF canceled THEN "canceled" ELSE "ok"
    /\ UNCHANGED <<attempt, tree, files, cred, open, intime, monitor, canceled, accepted, faults>>

(* Any step, and the caller's own callbacks, may fail. *)
StepFails ==
    /\ at \in {"fetch", "strip", "digest", "accept", "retire", "use"} /\ Fault /\ Fails("failed")
    /\ UNCHANGED <<attempt, tree, files, cred, open, intime, monitor, canceled, accepted>>

--------------------------------------------------------------------------
(* The deferred calls, last installed first. *)

(* Mutant: the monitor is canceled but its verdict is not read. *)
JoinBlind ==
    /\ at = "join" /\ cred' = FALSE /\ at' = "remove" /\ canceled' = TRUE
    /\ monitor' = IF monitor = "on" THEN "joined" ELSE monitor
    /\ UNCHANGED <<attempt, tree, files, open, intime, accepted, result, faults>>

(* Mutant: the bytes are left to the garbage collector. *)
JoinUncleared ==
    /\ at = "join" /\ at' = "remove" /\ canceled' = TRUE
    /\ monitor' = IF monitor = "on" THEN "joined" ELSE monitor
    /\ result' = IF monitor = "tripped" THEN "workspace_limit" ELSE result
    /\ UNCHANGED <<attempt, tree, files, cred, open, intime, accepted, faults>>

(* Bytes are cleared, the monitor joined; its error replaces the result. *)
Join ==
    /\ at = "join" /\ cred' = FALSE /\ at' = "remove" /\ canceled' = TRUE
    /\ monitor' = IF monitor = "on" THEN "joined" ELSE monitor
    /\ result' = IF monitor = "tripped" THEN "workspace_limit" ELSE result
    /\ UNCHANGED <<attempt, tree, files, open, intime, accepted, faults>>

(* Mutant: a removal that fails keeps the earlier result. *)
RemoveQuietly ==
    /\ at = "remove" /\ at' = "idle" /\ UNCHANGED result
    /\ \/ tree' = 0 /\ files' = {} /\ UNCHANGED faults
       \/ Fault /\ tree' \in {0, tree} /\ files' \in {{}, files} /\ <<tree', files'>> # <<0, {}>>
    /\ UNCHANGED <<attempt, cred, open, intime, monitor, canceled, accepted>>

(* Both directories; a failed removal is the result, whatever came before. *)
Remove ==
    /\ at = "remove" /\ at' = "idle"
    /\ \/ tree' = 0 /\ files' = {} /\ UNCHANGED <<result, faults>>
       \/ /\ Fault /\ tree' \in {0, tree} /\ files' \in {{}, files} /\ <<tree', files'>> # <<0, {}>>
          /\ result' = "cleanup_unconfirmed"
    /\ UNCHANGED <<attempt, cred, open, intime, monitor, canceled, accepted>>

--------------------------------------------------------------------------
(* monitorSourceWorkspace: a breached budget cancels the operation. *)
Trip ==
    /\ at \notin {"idle", "remove"} /\ monitor = "on" /\ Fault /\ monitor' = "tripped" /\ canceled' = TRUE
    /\ UNCHANGED <<at, attempt, tree, files, cred, open, intime, accepted, result>>

WindowPasses ==
    /\ Private /\ at # "idle" /\ open /\ open' = FALSE
    /\ UNCHANGED <<at, attempt, tree, files, cred, intime, monitor, canceled, accepted, result, faults>>

(* The runner dies: memory is gone, the disk is not. *)
Crash ==
    /\ at # "idle" /\ Fault /\ at' = "idle" /\ cred' = FALSE /\ monitor' = "off" /\ result' = "crashed"
    /\ UNCHANGED <<attempt, tree, files, open, intime, canceled, accepted>>

Next ==
    \/ Mkdir \/ Fetch \/ Strip \/ Digest \/ Accept \/ Retire \/ Check \/ Use \/ StepFails
    \/ Join \/ Remove \/ Trip \/ WindowPasses \/ Crash

Spec == Init /\ [][Next]_vars

--------------------------------------------------------------------------
(* The shapes of the variables; credential bytes live only inside a call. *)
CTypeOK ==
    /\ attempt \in 0..MaxAttempts /\ {tree, accepted} \subseteq 0..attempt
    /\ files \subseteq {"transport", "git"} /\ (cred => at \notin {"idle", "remove"})
    /\ monitor \in {"off", "on", "tripped", "joined"} /\ {open, canceled, intime} \subseteq BOOLEAN

(* While the tree is in use its receipt is recorded, the tree is this very *)
(* attempt's, and neither transport material, Git metadata nor credential  *)
(* bytes exist any more.                                                   *)
UseIsRetired == at = "use" => accepted = attempt /\ tree = attempt /\ files = {} /\ ~cred

(* A tree is used only if its credential was destroyed within its window. *)
RetiredInTime == Private /\ at = "use" => intime

(* A call that returns anything but cleanup_unconfirmed or checkout_unavailable *)
(* leaves nothing on disk.                                                 *)
ReturnIsClean ==
    at = "idle" /\ result \notin {"none", "crashed", "cleanup_unconfirmed", "checkout_unavailable"}
        => tree = 0 /\ files \cap {"transport", "git"} = {}

(* A breached workspace budget never ends in success, even when it is      *)
(* noticed after the last step.                                            *)
BudgetIsNeverIgnored == at \in {"remove", "idle"} /\ monitor = "tripped" => result # "ok"
=============================================================================
