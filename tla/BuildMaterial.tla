---------------------------- MODULE BuildMaterial ----------------------------
(***************************************************************************)
(* Delivery of a build's credentials to its runner: the Git credential     *)
(* while the source is fetched, the build secrets and the registry         *)
(* credential while the image is built.  A delivery is authorized once,    *)
(* in a window of at most a minute that its audit row fixes for good;      *)
(* every retry answers within that window or not at all.  Time is in       *)
(* ticks; leases are renewed, and the authority may end at any tick.       *)
(***************************************************************************)
EXTENDS Integers, FiniteSets

CONSTANTS
    Kinds,      \* which of the three deliveries the build needs
    Window,     \* a minute, in ticks
    LeaseTime,  \* the time a renewal gives, in ticks
    MaxTime     \* bound on the clock

(* The constants satisfy:
     /\ Kinds \subseteq {"source", "secrets", "registry"}
     /\ {Window, LeaseTime, MaxTime} \subseteq Nat \ {0} *)

MaxAttempts == 3   \* tries of privateBuildCredential
Never == 0         \* no window, no material, authority not lost

VARIABLES
    now, expiry,    \* the clock and the lease's expiry
    lost,           \* the tick at which the build's authority ended
    build,          \* its state, as the runner's phases move it
    audit,          \* the window of each delivery's audit row
    reply,          \* authorized material on its way to the runner
    held,           \* material the runner accepted: its window and when
    redacted,       \* deliveries the output adapter knows to redact
    tries           \* attempts per delivery

vars == <<now, expiry, lost, build, audit, reply, held, redacted, tries>>

Least(x, y) == IF x < y THEN x ELSE y
Live == lost = Never /\ now < expiry

Init ==
    /\ now = 1 /\ expiry = 1 + LeaseTime /\ lost = Never /\ build = "sourcing"
    /\ audit = [k \in Kinds |-> Never] /\ reply = [k \in Kinds |-> Never]
    /\ held = [k \in Kinds |-> [until |-> Never, at |-> Never]]
    /\ redacted = {} /\ tries = [k \in Kinds |-> 0]

Tick ==
    /\ now < MaxTime /\ now' = now + 1
    /\ UNCHANGED <<expiry, lost, build, audit, reply, held, redacted, tries>>

RenewLease ==
    /\ Live /\ expiry' = now + LeaseTime /\ expiry' # expiry
    /\ UNCHANGED <<now, lost, build, audit, reply, held, redacted, tries>>

(* Revocation, reconfiguration, cancellation. *)
LoseAuthority ==
    /\ lost = Never /\ lost' = now
    /\ UNCHANGED <<now, expiry, build, audit, reply, held, redacted, tries>>

(* The phase in which a delivery may be authorized: the Git credential     *)
(* while no source receipt is committed, the others once a daemon is       *)
(* pinned.                                                                 *)
Phase(k) == IF k = "source" THEN "sourcing" ELSE "building"

(* Mutant: the minute alone. *)
LeaseWindowMinute == now + Window

(* HostingSourceDeliveryLeaseWindow: a minute, and never past the lease. *)
LeaseWindow == Least(now + Window, expiry)

(* Mutant: a retry is given a window of its own. *)
UseUntilRenewed(k) == LeaseWindow

(* The audit row's window, or the one this transaction would write. *)
UseUntil(k) == IF audit[k] # Never THEN audit[k] ELSE LeaseWindow

(* AuthorizeHostingSourceCredential, AuthorizeHostingBuildSecrets and      *)
(* AuthorizeHostingBuildRegistryCredential: one transaction, with the      *)
(* present authority checked before and after the audit row.               *)
Authorize(k) ==
    /\ build = Phase(k) /\ Live /\ now < UseUntil(k)
    /\ audit' = [audit EXCEPT ![k] = UseUntil(k)]
    /\ reply' = [reply EXCEPT ![k] = UseUntil(k)]

(* Mutant: the attempts are not counted. *)
AskForever(k) ==
    /\ reply[k] = Never /\ held[k].until = Never /\ tries[k] <= MaxAttempts
    /\ build = Phase(k) /\ Live /\ tries' = [tries EXCEPT ![k] = @ + 1]
    /\ UNCHANGED <<now, expiry, lost, build, held, redacted>>
    /\ Authorize(k) \/ UNCHANGED <<audit, reply>>

(* One attempt of the runner: the status must be live and in the phase.    *)
(* The request may be refused, and its answer lost.                        *)
Ask(k) ==
    /\ reply[k] = Never /\ held[k].until = Never /\ tries[k] < (IF k = "source" THEN MaxAttempts ELSE 1)
    /\ build = Phase(k) /\ Live /\ tries' = [tries EXCEPT ![k] = @ + 1]
    /\ UNCHANGED <<now, expiry, lost, build, held, redacted>>
    /\ Authorize(k) \/ UNCHANGED <<audit, reply>>

(* The server opens the envelope only inside the window; a reply that is   *)
(* late there, or lost on its way, carries nothing.                        *)
LoseReply(k) ==
    /\ reply[k] # Never /\ reply' = [reply EXCEPT ![k] = Never]
    /\ UNCHANGED <<now, expiry, lost, build, audit, held, redacted, tries>>

(* Mutant: the runner takes a reply whenever it comes. *)
AcceptLate(k) ==
    /\ reply[k] # Never /\ reply' = [reply EXCEPT ![k] = Never]
    /\ held' = [held EXCEPT ![k] = [until |-> reply[k], at |-> now]] /\ redacted' = redacted \cup {k}
    /\ UNCHANGED <<now, expiry, lost, build, audit, tries>>

(* Mutant: the output adapter learns of the material after it is in use. *)
AcceptUnredacted(k) ==
    /\ reply[k] # Never /\ now < reply[k] /\ reply' = [reply EXCEPT ![k] = Never]
    /\ held' = [held EXCEPT ![k] = [until |-> reply[k], at |-> now]]
    /\ UNCHANGED <<now, expiry, lost, build, audit, redacted, tries>>

(* The runner accepts inside the window only, and tells the adapter before *)
(* anything can print what it received.                                    *)
Accept(k) ==
    /\ reply[k] # Never /\ now < reply[k] /\ reply' = [reply EXCEPT ![k] = Never]
    /\ held' = [held EXCEPT ![k] = [until |-> reply[k], at |-> now]]
    /\ redacted' = redacted \cup {k}
    /\ UNCHANGED <<now, expiry, lost, build, audit, tries>>

(* The fetch ends, or its window does: the transport is canceled and the   *)
(* material cleared.  The source receipt comes after.                      *)
FetchEnds ==
    /\ build = "sourcing" /\ ("source" \in Kinds => held["source"].until # Never)
    /\ held' = [k \in Kinds |-> IF k = "source" THEN [until |-> Never, at |-> Never] ELSE held[k]]
    /\ IF "source" \in Kinds /\ now >= held["source"].until
       THEN build' = "failed" ELSE build' = "building" /\ Live
    /\ UNCHANGED <<now, expiry, lost, audit, reply, redacted, tries>>

(* The engine asks for what its strategy selects and then runs. *)
EngineRuns ==
    /\ build = "building" /\ \A k \in Kinds \ {"source"} : held[k].until # Never
    /\ build' = "engine"
    /\ UNCHANGED <<now, expiry, lost, audit, reply, held, redacted, tries>>

Next ==
    \/ Tick \/ RenewLease \/ LoseAuthority \/ FetchEnds \/ EngineRuns
    \/ \E k \in Kinds : Ask(k) \/ LoseReply(k) \/ Accept(k)

Spec == Init /\ [][Next]_vars

--------------------------------------------------------------------------
(* The shapes of windows, replies and phases. *)
MTypeOK ==
    /\ now \in 1..MaxTime /\ expiry \in Nat /\ lost \in 0..MaxTime
    /\ build \in {"sourcing", "building", "engine", "failed"}
    /\ audit \in [Kinds -> Nat] /\ reply \in [Kinds -> Nat] /\ redacted \subseteq Kinds
    /\ \A k \in Kinds : tries[k] \in 0..MaxAttempts

(* A delivery's window never moves once its audit row exists, though the   *)
(* lease is renewed and the request repeated.                              *)
WindowIsFixed == [][\A k \in Kinds : audit[k] # Never => audit'[k] = audit[k]]_vars

(* A minute after the build lost its authority no credential is accepted   *)
(* any more, however slow the answer was.                                  *)
NothingAfterTheWindow ==
    \A k \in Kinds : held[k].at # Never /\ lost # Never => held[k].at < lost + Window

(* What the runner accepted, it accepted under the lease it was authorized *)
(* with: no window outlives the lease as it stood when it was opened, so a *)
(* lease that was never renewed bounds every use.                          *)
AcceptedUnderLease ==
    \A k \in Kinds : held[k].at # Never => held[k].at < held[k].until /\ held[k].until <= expiry

(* The engine runs only with output redaction for all it was given. *)
EngineIsRedacted == build = "engine" => Kinds \ {"source"} \subseteq redacted
=============================================================================
