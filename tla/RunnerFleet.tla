---------------------------- MODULE RunnerFleet ----------------------------
(****************************************************************************)
(* How a runner gets, keeps and loses its identity.  An administrator makes  *)
(* an enrollment for one runner id; the process that holds the token invents *)
(* a credential, stores it, exchanges the token for a runner row bound to    *)
(* that credential and destroys the token file.  From then on every request  *)
(* authenticates with the credential before the handler touches the row, so  *)
(* that a heartbeat may overtake a rotation, a revocation or the mark of     *)
(* staleness.  The rows are kept by both stores; they are compared.          *)
(****************************************************************************)
EXTENDS Naturals, FiniteSets

CONSTANTS
    Hosts,          \* machines that hold a copy of the enrollment token
    Rotated,        \* the credentials administrators may issue
    CapabilitySets, \* the capabilities an administrator may ask for
    Acts,           \* "register", "rotate", "revoke", "lost", "expire", "age"
    CrashAt,        \* the points at which a process may die
    MaxFaults       \* deaths, lost answers, expiries and long silences

VARIABLES
    d,              \* the PostgreSQL rows: [enr, run]
    mem,            \* the rows of the memory store
    host,           \* [Hosts -> [pc, file, cred]]
    withdrawn,      \* the credentials that were rotated away or revoked
    seen,           \* the credential that authenticated in this step
    faults

vars == <<d, mem, host, withdrawn, seen, faults>>

Credentials == Hosts \cup Rotated
Compose == {"compose", "build", "image", "proxy"}

NoRows == [enr |-> [st |-> "none", expired |-> FALSE, cred |-> "none", caps |-> {}],
           run |-> [status |-> "absent", token |-> "none", fresh |-> FALSE, caps |-> {}]]

Init ==
    /\ d = NoRows /\ mem = NoRows
    /\ host = [h \in Hosts |-> [pc |-> "down", file |-> "token", cred |-> "none"]]
    /\ withdrawn = {} /\ seen = "none" /\ faults = 0

Answer(rows, code) == [rows |-> rows, code |-> code]

----------------------------------------------------------------------------
(* The queries and transactions of the PostgreSQL store.                    *)

CreateRunnerEnrollment(r, caps) ==
    IF r.enr.st # "none" THEN Answer(r, "conflict")
    ELSE Answer([r EXCEPT !.enr = [@ EXCEPT !.st = "open", !.caps = caps]], "ok")

RevokeUnusedRunnerEnrollment(r) ==
    IF r.enr.st # "open" THEN Answer(r, "not_found") ELSE Answer([r EXCEPT !.enr.st = "revoked"], "ok")

MarkRunnerEnrollmentUsed(r, cred) == [r EXCEPT !.enr = [@ EXCEPT !.st = "used", !.cred = cred]]

CreateRunnerForEnrollment(r, cred) ==
    [r EXCEPT !.run = [status |-> "active", token |-> cred, fresh |-> TRUE, caps |-> r.enr.caps]]

(* Mutant: a used enrollment answers any credential. *)
MutAnyReplay(r, cred) ==
    IF r.enr.st = "used" THEN Answer(r, "ok")
    ELSE IF r.enr.st # "open" \/ r.enr.expired THEN Answer(r, "not_found")
    ELSE IF r.run.status # "absent" THEN Answer(r, "conflict")
    ELSE Answer(CreateRunnerForEnrollment(MarkRunnerEnrollmentUsed(r, cred), cred), "ok")

(* Mutant: a used enrollment has expired like any other. *)
MutReplayExpires(r, cred) ==
    IF r.enr.st \in {"none", "revoked"} \/ r.enr.expired THEN Answer(r, "not_found")
    ELSE IF r.enr.st = "used"
         THEN Answer(r, IF r.enr.cred = cred /\ r.run.token = cred THEN "ok" ELSE "conflict")
    ELSE IF r.run.status # "absent" THEN Answer(r, "conflict")
    ELSE Answer(CreateRunnerForEnrollment(MarkRunnerEnrollmentUsed(r, cred), cred), "ok")

(* A used enrollment answers the request that used it, for as long as the   *)
(* row still carries that credential; an open one makes the runner.         *)
ConsumeRunnerEnrollment(r, cred) ==
    IF r.enr.st = "none" THEN Answer(r, "not_found")
    ELSE IF r.enr.st = "used"
         THEN Answer(r, IF r.enr.cred = cred /\ r.run.token = cred THEN "ok" ELSE "conflict")
    ELSE IF r.enr.st # "open" \/ r.enr.expired THEN Answer(r, "not_found")
    ELSE IF r.run.status # "absent" THEN Answer(r, "conflict")
    ELSE Answer(CreateRunnerForEnrollment(MarkRunnerEnrollmentUsed(r, cred), cred), "ok")

RegisterRunner(r, cred, caps) ==
    IF r.run.status # "absent" THEN Answer(r, "conflict")
    ELSE Answer([r EXCEPT !.run = [status |-> "active", token |-> cred, fresh |-> TRUE, caps |-> caps]], "ok")

UpdateRunnerToken(r, cred, status) ==
    IF r.run.status = "absent" THEN Answer(r, "not_found")
    ELSE Answer([r EXCEPT !.run = [@ EXCEPT !.token = cred, !.status = status, !.fresh = TRUE]], "ok")

GetRunnerByTokenHash(r, cred) == r.run.token = cred /\ cred # "none" /\ r.run.status = "active"

(* By id alone: neither the status nor the credential is compared.          *)
HeartbeatRunner(r) == [r EXCEPT !.run = [@ EXCEPT !.status = "active", !.fresh = TRUE]]

(* Mutant: every claim looks too late. *)
MutStaleAlways(r) == IF r.run.status = "active" THEN [r EXCEPT !.run.status = "stale"] ELSE r

(* What a claim does to the row; a stale runner is told there is no work.   *)
MarkStaleRunnerForClaim(r) ==
    IF r.run.status = "active" /\ ~ r.run.fresh THEN [r EXCEPT !.run.status = "stale"] ELSE r

----------------------------------------------------------------------------
(* The same methods of the memory store.                                    *)

MemoryCreateRunnerEnrollment(r, caps) ==
    IF r.enr.st = "none" THEN [r EXCEPT !.enr = [@ EXCEPT !.st = "open", !.caps = caps]] ELSE r

MemoryRevokeRunnerEnrollment(r) ==
    IF r.enr.st \in {"revoked", "used", "none"} THEN r ELSE [r EXCEPT !.enr.st = "revoked"]

(* Mutant: the runner is made before the enrollment is looked at. *)
MutConsumeRevoked(r, cred) ==
    IF r.enr.st = "none" \/ r.enr.st = "used" \/ r.run.status # "absent" THEN r
    ELSE [enr |-> [r.enr EXCEPT !.st = "used", !.cred = cred],
          run |-> [status |-> "active", token |-> cred, fresh |-> TRUE, caps |-> r.enr.caps]]

MemoryConsumeRunnerEnrollment(r, cred) ==
    IF \/ r.enr.st \in {"none", "used", "revoked"} \/ r.enr.expired
       \/ r.run.status # "absent" THEN r
    ELSE [enr |-> [r.enr EXCEPT !.st = "used", !.cred = cred],
          run |-> [status |-> "active", token |-> cred, fresh |-> TRUE, caps |-> r.enr.caps]]

MemoryRegisterRunner(r, cred, caps) ==
    IF r.run.status # "absent" THEN r
    ELSE [r EXCEPT !.run = [status |-> "active", token |-> cred, fresh |-> TRUE, caps |-> caps]]

MemoryUpdateRunnerToken(r, cred, status) ==
    IF r.run.status = "absent" THEN r
    ELSE [r EXCEPT !.run = [@ EXCEPT !.token = cred, !.status = status, !.fresh = TRUE]]

MemoryGetRunnerByTokenHash(r, cred) == r.run.token = cred /\ r.run.status = "active"

MemoryHeartbeatRunner(r) ==
    IF r.run.status = "absent" THEN r ELSE [r EXCEPT !.run = [@ EXCEPT !.status = "active", !.fresh = TRUE]]

----------------------------------------------------------------------------
(* The service.                                                             *)

composeRunnerHasGenericShell(caps) == caps \cap Compose # {} /\ "shell" \in caps

(* Mutant: the pool check is left to the registration. *)
MutAnyCapabilities(caps) == caps # {}

ValidCapabilities(caps) == caps # {} /\ ~ composeRunnerHasGenericShell(caps)

(* Mutant: the credential stays with the revoked row. *)
MutRevokeStatus(r) == UpdateRunnerToken(r, r.run.token, "revoked")

RevokeRunnerToken(r) == UpdateRunnerToken(r, "none", "revoked")

AuthenticateRunnerToken(cred) == GetRunnerByTokenHash(d, cred)

CurrentRunnerIdentity == d.run.status = "active" /\ d.run.token # "none"

Fault(kind) == kind \in Acts /\ faults < MaxFaults /\ faults' = faults + 1

Enroll(caps) ==
    /\ ValidCapabilities(caps)
    /\ d' = CreateRunnerEnrollment(d, caps).rows
    /\ mem' = MemoryCreateRunnerEnrollment(mem, caps)
    /\ seen' = "none" /\ UNCHANGED <<host, withdrawn, faults>>

RevokeEnrollment ==
    /\ d' = RevokeUnusedRunnerEnrollment(d).rows
    /\ mem' = MemoryRevokeRunnerEnrollment(mem)
    /\ seen' = "none" /\ UNCHANGED <<host, withdrawn, faults>>

(* An administrator registers the id directly.                              *)
Register(cred, caps) ==
    /\ "register" \in Acts /\ cred \notin withdrawn /\ cred # d.run.token /\ ValidCapabilities(caps)
    /\ d' = RegisterRunner(d, cred, caps).rows
    /\ mem' = MemoryRegisterRunner(mem, cred, caps)
    /\ seen' = "none" /\ UNCHANGED <<host, withdrawn, faults>>

Rotate(cred) ==
    /\ "rotate" \in Acts /\ cred \notin withdrawn /\ cred # d.run.token
    /\ d' = UpdateRunnerToken(d, cred, "active").rows
    /\ mem' = MemoryUpdateRunnerToken(mem, cred, "active")
    /\ withdrawn' = withdrawn \cup ({d.run.token} \ {"none"})
    /\ seen' = "none" /\ UNCHANGED <<host, faults>>

Revoke ==
    /\ "revoke" \in Acts /\ d.run.token # "none"
    /\ d' = RevokeRunnerToken(d).rows
    /\ mem' = MemoryUpdateRunnerToken(mem, "none", "revoked")
    /\ withdrawn' = withdrawn \cup {d.run.token}
    /\ seen' = "none" /\ UNCHANGED <<host, faults>>

Expire ==
    /\ d.enr.st = "open" \/ d.enr.st = "used"
    /\ ~ d.enr.expired /\ Fault("expire")
    /\ d' = [d EXCEPT !.enr.expired = TRUE] /\ mem' = [mem EXCEPT !.enr.expired = TRUE]
    /\ seen' = "none" /\ UNCHANGED <<host, withdrawn>>

(* More than two lease lifetimes without a heartbeat.                       *)
Age ==
    /\ d.run.fresh /\ Fault("age")
    /\ d' = [d EXCEPT !.run.fresh = FALSE] /\ mem' = [mem EXCEPT !.run.fresh = FALSE]
    /\ seen' = "none" /\ UNCHANGED <<host, withdrawn>>

----------------------------------------------------------------------------
(* The runner process.                                                      *)

At(h, pc) == host[h].pc = pc
Goto(h, pc) == host' = [host EXCEPT ![h].pc = pc]
Local == seen' = "none" /\ UNCHANGED <<d, mem, withdrawn, faults>>

(* The launcher takes the enrollment file while there is one.               *)
RunOwnedAgent(h) ==
    /\ At(h, "down")
    /\ \/ host[h].file # "none" /\ Goto(h, "prepare")
       \/ host[h].file = "none" /\ host[h].cred # "none" /\ Goto(h, "identity")
    /\ Local

(* Mutant: the credential is not stored before the exchange. *)
MutLateCredential(h) ==
    /\ At(h, "prepare") /\ host' = [host EXCEPT ![h].pc = "consume"]
    /\ Local

(* A pending credential is used again, a missing one is created and synced. *)
prepareRunnerEnrollmentFiles(h) ==
    /\ At(h, "prepare")
    /\ host' = [host EXCEPT ![h].pc = "consume", ![h].cred = IF @ = "none" THEN h ELSE @]
    /\ Local

(* The exchange.  What is not a token is refused; a lost answer is tried    *)
(* again by this process or the next.                                       *)
consumeEnrollment(h) ==
    /\ At(h, "consume")
    /\ IF host[h].file # "token" THEN Goto(h, "down") /\ Local
       ELSE \E a \in {ConsumeRunnerEnrollment(d, host[h].cred)} :
                /\ d' = a.rows /\ mem' = MemoryConsumeRunnerEnrollment(mem, host[h].cred)
                /\ seen' = "none" /\ UNCHANGED withdrawn
                /\ \/ Goto(h, IF a.code = "ok" THEN "remove" ELSE "down") /\ UNCHANGED faults
                   \/ Fault("lost") /\ (Goto(h, "consume") \/ Goto(h, "down"))

(* remove: zeros are written and synced ...                                 *)
overwriteToken(h) ==
    /\ At(h, "remove")
    /\ host' = [host EXCEPT ![h].pc = "unlink", ![h].file = "zero"]
    /\ Local

(* ... and the entry is unlinked.                                           *)
unlinkToken(h) ==
    /\ At(h, "unlink")
    /\ host' = [host EXCEPT ![h].pc = "identity", ![h].file = "none"]
    /\ Local

(* A request that is authenticated goes on to its handler; one that is not  *)
(* ends the process.                                                        *)
Authenticate(h, from, to) ==
    /\ At(h, from)
    /\ IF AuthenticateRunnerToken(host[h].cred)
       THEN seen' = host[h].cred /\ Goto(h, to)
       ELSE seen' = "none" /\ Goto(h, "down")
    /\ UNCHANGED <<d, mem, withdrawn, faults>>

Identify(h) ==
    /\ At(h, "identifying")
    /\ Goto(h, IF CurrentRunnerIdentity THEN "loop" ELSE "down")
    /\ Local

Beat(h) ==
    /\ At(h, "beating") /\ Goto(h, "beaten")
    /\ d' = HeartbeatRunner(d) /\ mem' = MemoryHeartbeatRunner(mem)
    /\ seen' = "none" /\ UNCHANGED <<withdrawn, faults>>

Claim(h) ==
    /\ At(h, "claiming") /\ Goto(h, "loop")
    /\ d' = MarkStaleRunnerForClaim(d) /\ mem' = MarkStaleRunnerForClaim(mem)
    /\ seen' = "none" /\ UNCHANGED <<withdrawn, faults>>

Crash(h) ==
    /\ host[h].pc \in CrashAt /\ Fault("crash") /\ Goto(h, "down")
    /\ seen' = "none" /\ UNCHANGED <<d, mem, withdrawn>>

(* An operator puts the current credential on a stopped host.               *)
Install(h) ==
    /\ At(h, "down") /\ d.run.token \in Rotated /\ host[h].cred # d.run.token
    /\ host' = [host EXCEPT ![h].cred = d.run.token, ![h].file = "none"]
    /\ Local

Process(h) ==
    \/ RunOwnedAgent(h) \/ prepareRunnerEnrollmentFiles(h) \/ consumeEnrollment(h)
    \/ overwriteToken(h) \/ unlinkToken(h)
    \/ Authenticate(h, "identity", "identifying") \/ Identify(h)
    \/ Authenticate(h, "loop", "beating") \/ Beat(h)
    \/ Authenticate(h, "beaten", "claiming") \/ Claim(h)

Next ==
    \/ \E caps \in CapabilitySets : Enroll(caps) \/ (\E c \in Rotated : Register(c, caps))
    \/ RevokeEnrollment \/ Revoke \/ Expire \/ Age
    \/ \E c \in Rotated : Rotate(c)
    \/ \E h \in Hosts : Process(h) \/ Crash(h) \/ Install(h)

Spec == Init /\ [][Next]_vars

----------------------------------------------------------------------------
(* Type invariant: statuses and credentials stay in their ranges, and no    *)
(* runner or enrollment mixes a managed pool with a generic shell.          *)
FTypeOK ==
    /\ d.enr.st \in {"none", "open", "used", "revoked"}
    /\ d.run.status \in {"absent", "active", "stale", "revoked"}
    /\ d.run.token \in Credentials \cup {"none"} /\ withdrawn \subseteq Credentials
    /\ \A h \in Hosts : host[h].file \in {"token", "zero", "none"} /\ host[h].cred \in Credentials \cup {"none"}
    /\ ~ composeRunnerHasGenericShell(d.enr.caps) /\ ~ composeRunnerHasGenericShell(d.run.caps)

(* One enrollment makes one runner: a process that passes the exchange      *)
(* holds the credential the enrollment was used with, whatever was lost or  *)
(* repeated and however many hosts have the token, and the row carries that *)
(* credential until an administrator withdraws it.                          *)
OneRunnerPerEnrollment ==
    /\ \A h \in Hosts : host[h].pc \in {"remove", "unlink"} => d.enr.cred = host[h].cred
    /\ d.enr.st = "used" =>
          d.run.status # "absent" /\ (d.run.token = d.enr.cred \/ d.enr.cred \in withdrawn)

(* The token is destroyed only when it is no longer needed: a host without  *)
(* a usable token file has on disk a credential that was accepted.          *)
CredentialOutlivesToken ==
    \A h \in Hosts : host[h].file # "token" =>
        host[h].cred # "none" /\ (host[h].cred = d.enr.cred \/ host[h].cred \in Rotated)

(* A credential that was rotated away or revoked never authenticates again, *)
(* although a heartbeat in flight may set the revoked row to active.        *)
WithdrawnStaysOut == seen # "none" => seen \notin withdrawn

(* Both stores hold the same rows and let the same credentials in.          *)
SameFleet ==
    /\ d = mem
    /\ \A c \in Credentials : GetRunnerByTokenHash(d, c) = MemoryGetRunnerByTokenHash(mem, c)

(* A runner is found stale only by a claim that comes long after its last   *)
(* heartbeat, and only an administrator takes a runner's row from active to *)
(* revoked.                                                                 *)
StaleByClaim ==
    [][d.run.status = "active" /\ d'.run.status # "active" =>
          \/ d'.run.status = "stale" /\ ~ d.run.fresh /\ \E h \in Hosts : At(h, "claiming")
          \/ d'.run.status = "revoked" /\ d'.run.token = "none"]_vars

(* Its exchange was accepted, and its process is not at work. *)
Waiting(h) == d.enr.st = "used" /\ d.enr.cred = h /\ ~At(h, "loop") /\ h \notin withdrawn
=============================================================================
