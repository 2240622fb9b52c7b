---------------------------- MODULE PolicyReview ----------------------------
(***************************************************************************)
(* How an owner reviews automatic deployment.  GET reads the policy, its   *)
(* status and the review options in one lock-free snapshot and checks the  *)
(* reader's rank again after closing it; Configure revalidates under locks *)
(* what the owner selected from such an answer.  The facts of the hosting  *)
(* system are a set of what is wrong with the resource, and the two        *)
(* counters a selection names; other components change them at any time.   *)
(***************************************************************************)
EXTENDS Naturals, FiniteSets

CONSTANTS
    Wrong,       \* the facts that can go wrong in this instance
    MaxLoaded,   \* bound on loaded proxy generations
    MaxVersion,  \* bound on route versions
    MaxEpoch     \* bound on manual epochs

AllWrong == {"unbound", "restore_held", "runner", "automatic_release", "source_changed", "destination",
             "proxy_off", "proxy_busy", "grant", "release", "https"}

(* The constants satisfy:
     Wrong \subseteq AllWrong *)

Ranks == 0..3   \* none, viewer, maintainer, owner
Selection == [loaded : 0..MaxLoaded, version : 0..MaxVersion]
NoSelection == [loaded |-> 0, version |-> 0]
Answer == [owner : BOOLEAN, reason : STRING, pick : Selection]
NoAnswer == [owner |-> FALSE, reason |-> "", pick |-> NoSelection]

VARIABLES
    wrong,    \* what is wrong with the resource now
    now,      \* the loaded generation and the route's version
    epoch,    \* the durable manual epoch
    rank,     \* the reader's rank in the project
    snap,     \* an answer built in a snapshot, not yet disclosed
    page,     \* the answer the reader has
    shown,    \* the rank at the disclosure of page
    control   \* the saved review: epoch, selection and a fingerprint of the facts

vars == <<wrong, now, epoch, rank, snap, page, shown, control>>

NoControl == [saved |-> FALSE, epoch |-> 0, pick |-> NoSelection, wrong |-> {}]

Init ==
    /\ wrong \in {{}} \cup {{w} : w \in Wrong} /\ now = [loaded |-> 1, version |-> 1] /\ epoch = 0 /\ rank = 3
    /\ snap = NoAnswer /\ page = NoAnswer /\ shown = 3 /\ control = NoControl

--------------------------------------------------------------------------

(* Mutant: the options are offered while the proxy is at work. *)
OptionsWhileBusy(w) == IF w \subseteq {"proxy_busy"} THEN "eligible" ELSE "baseline_changed"

(* autoOptions: the first reason that applies, in the order of the code.    *)
autoOptions(w) ==
    CASE "unbound" \in w -> "unbound"
      [] w \cap {"unbound"} = {} /\ "restore_held" \in w -> "restore_hold"
      [] w \cap {"unbound", "restore_held"} = {} /\ "runner" \in w -> "runner_unsupported"
      [] w \cap {"unbound", "restore_held", "runner"} = {} /\ "automatic_release" \in w -> "manual_healthy_required"
      [] w \cap {"unbound", "restore_held", "runner", "automatic_release"} = {}
            /\ w \cap {"source_changed", "destination"} # {} -> "baseline_changed"
      [] w # {} /\ w \subseteq {"proxy_off", "proxy_busy", "grant", "release", "https"} ->
            IF w \cap {"proxy_off", "proxy_busy"} # {} THEN "proxy_not_ready"
            ELSE IF w \cap {"grant", "release"} # {} THEN "routes_unavailable" ELSE "proxy_not_ready"
      [] OTHER -> "eligible"

(* proxyHealthyTarget and autoReadHealthyTarget, with and without locks.    *)
autoReadHealthyTarget(w) == w \cap {"unbound", "grant", "release"} = {}

(* autoCurrent, at admission: the reviewed facts that have to hold still;   *)
(* the proxy may be busy, and the selected release may be an automatic one. *)
autoCurrent(c, w) ==
    /\ c.saved /\ c.epoch = epoch /\ "source_changed" \notin w /\ rank = 3
    /\ w \cap {"unbound", "proxy_off", "restore_held", "runner"} = {}
    /\ autoReadHealthyTarget(w)

(* Mutant: the reader forgets the manual epoch. *)
ReadCurrentAnyEpoch(c, w) == c.saved /\ rank = 3 /\ w \cap {"source_changed", "unbound", "proxy_off", "restore_held", "runner"} = {}

(* autoReadCurrent, in the snapshot, is written out a second time.          *)
autoReadCurrent(c, w) ==
    LET identity == c.saved /\ epoch = c.epoch /\ ~("source_changed" \in w)
        placement == ~("unbound" \in w) /\ ~("proxy_off" \in w) /\ ~("restore_held" \in w)
        capable == ~("runner" \in w)
        owner == ~(rank < 3)
    IN  identity /\ owner /\ placement /\ capable /\ autoReadHealthyTarget(w)

autoStatus(c, w) == IF autoReadCurrent(c, w) THEN "idle" ELSE "blocked"

(* Mutant: the baseline is offered whatever the reason says. *)
SnapshotAlways(w, r) == [owner |-> r = 3, reason |-> autoOptions(w), pick |-> now]

(* autoReadPolicySnapshot: options only for an owner, under its own rank.   *)
autoReadPolicySnapshot(w, r) ==
    IF r < 3 THEN [NoAnswer EXCEPT !.reason = "viewer"]
    ELSE [owner |-> TRUE, reason |-> autoOptions(w), pick |-> IF autoOptions(w) = "eligible" THEN now ELSE NoSelection]

Snapshot ==
    /\ rank >= 1 /\ snap = NoAnswer
    /\ snap' = autoReadPolicySnapshot(wrong, rank)
    /\ UNCHANGED <<wrong, now, epoch, rank, page, shown, control>>

(* Mutant: the answer is sent as the snapshot built it. *)
DiscloseAsRead(a, r) == a

(* GetGitHubPushPolicy after the snapshot: a rank lost meanwhile strips the *)
(* owner's part, or the whole answer.                                       *)
Disclosed(a, r) == IF r < 1 THEN NoAnswer ELSE IF r < 3 THEN [NoAnswer EXCEPT !.reason = "viewer"] ELSE a

Disclose ==
    /\ snap # NoAnswer
    /\ page' = Disclosed(snap, rank) /\ shown' = rank /\ snap' = NoAnswer
    /\ UNCHANGED <<wrong, now, epoch, rank, control>>

(* Mutant: Configure trusts the page it was given. *)
ConfigureAsSeen(w, pick) == w \cap {"unbound", "restore_held"} = {}

(* autoConfigure revalidates every fact under the locks, and that loaded    *)
(* generation and route are the selected ones.                              *)
autoConfigure(w, pick) ==
    /\ w \cap {"unbound", "proxy_off", "restore_held", "proxy_busy"} = {} /\ pick.loaded = now.loaded
    /\ w \cap {"automatic_release", "source_changed"} = {}
    /\ w \cap {"destination", "runner"} = {}
    /\ pick.version = now.version /\ autoReadHealthyTarget(w)
    /\ "https" \notin w

Configure ==
    /\ page.pick # NoSelection /\ rank = 3
    /\ autoConfigure(wrong, page.pick)
    /\ control' = [saved |-> TRUE, epoch |-> epoch, pick |-> page.pick, wrong |-> wrong]
    /\ UNCHANGED <<wrong, now, epoch, rank, snap, page, shown>>

(* The rest of the system. *)
FactChanges ==
    /\ \E w \in Wrong : wrong' = IF w \in wrong THEN wrong \ {w} ELSE wrong \cup {w}
    /\ UNCHANGED <<now, epoch, rank, snap, page, shown, control>>

RouteChanges ==
    /\ now.loaded < MaxLoaded /\ now.version < MaxVersion
    /\ now' = [loaded |-> now.loaded + 1, version |-> now.version + 1]
    /\ epoch' \in {epoch, epoch + 1} /\ epoch' <= MaxEpoch
    /\ UNCHANGED <<wrong, rank, snap, page, shown, control>>

RankChanges ==
    /\ rank' \in Ranks \ {rank}
    /\ UNCHANGED <<wrong, now, epoch, snap, page, shown, control>>

Next == Snapshot \/ Disclose \/ Configure \/ FactChanges \/ RouteChanges \/ RankChanges

Spec == Init /\ [][Next]_vars

--------------------------------------------------------------------------

(* Every variable keeps its shape, and an answer offers a selection only    *)
(* together with "eligible".                                                *)
RTypeOK ==
    /\ wrong \subseteq Wrong /\ now \in Selection /\ epoch \in 0..MaxEpoch /\ rank \in Ranks /\ shown \in Ranks
    /\ snap.pick \in Selection /\ page.pick \in Selection
    /\ (page.pick # NoSelection) <=> (page.reason = "eligible")
    /\ control.pick \in Selection

(* Two readings of the same facts agree: what the lock-free options call    *)
(* eligible is what Configure accepts at that moment, and nothing else.     *)
EligibleIsAccepted == (autoOptions(wrong) = "eligible") <=> autoConfigure(wrong, now)

(* The status an owner reads is "blocked" exactly when the next admission   *)
(* would find the review invalid: the snapshot's copy of the check has not  *)
(* drifted from the locked one.                                             *)
StatusIsTheGate == (autoStatus(control, wrong) = "idle") <=> autoCurrent(control, wrong)

(* Owner configuration and options reach only someone who was an owner when *)
(* the answer was sent, although it was built under an earlier rank.        *)
DisclosureIsCurrent == page.owner => shown = 3

(* A saved review is of the facts at the moment of saving, not of those the *)
(* owner once read: nothing was wrong, and generation and version were the  *)
(* loaded ones.                                                             *)
ReviewIsOfNow == [][control' # control => (wrong = {} /\ control'.pick = now /\ control'.epoch = epoch)]_vars

=============================================================================
