----------------------------- MODULE GitHubPush -----------------------------
(***************************************************************************)
(* Building on a GitHub push: one resource's policy, the owner's commands  *)
(* on it, the webhook deliveries GitHub sends (late, twice, out of order), *)
(* the River workers that verify a delivery against the provider and admit *)
(* a pinned build, and the recovery pass.  Provider calls happen between   *)
(* transactions, so everything read before one may be stale after it.      *)
(* Commits are numbered along the branch: a smaller one is an ancestor.    *)
(***************************************************************************)
EXTENDS Integers, Sequences, FiniteSets

CONSTANTS
    Ids,            \* GitHub delivery identifiers
    Workers,        \* concurrent River workers
    Requests,       \* owner request identifiers
    Changes,        \* which commands and disturbances this instance has
    Configured,     \* start from an enabled policy rather than from none
    Auto,           \* whether the policy deploys automatically
    MaxCommit,      \* bound on pushes
    MaxGeneration,  \* bound on policy generations
    MaxAttempts,    \* GitHubPushMaxAttempts
    PendingLimit,   \* GitHubPushPendingResourceLimit
    ReceiptLimit,   \* GitHubPushReceiptResourceLimit
    CompareLimit,   \* GitHubPushComparisonLimit
    MaxFaults       \* bound on provider failures, lost jobs and lapsed tokens

(* The constants satisfy:
     PendingLimit <= ReceiptLimit /\ MaxAttempts > 0 *)

NoCommit == -1
Commits == 0..MaxCommit
Optional == Commits \cup {NoCommit}
None == "none"

Pending == {"received", "verifying", "retry_wait"}
Terminal == {"queued", "coalesced", "ignored", "obsolete", "blocked_exhausted"}

(* hosting_github_push_policies; generation 0 is no policy.  vtoken is the  *)
(* request that owns the verification attempt, vlive its deadline, proof    *)
(* the age of the last verification, last the commit of the last build.     *)
Policy == [gen : 0..MaxGeneration, enabled : BOOLEAN, status : {"disabled", "verified", "enabled", "blocked"},
           repo : BOOLEAN, desired : Optional, last : Optional, proof : {"none", "fresh", "stale"},
           vtoken : Requests \cup {None}, vlive : BOOLEAN]

(* hosting_github_push_deliveries.  live: the processing token's deadline,  *)
(* open: expires_at, day: 24 hours from receipt, due: next_retry_at, kept:  *)
(* retain_until.                                                            *)
Delivery == [gen : 0..MaxGeneration, after : Optional, state : Pending \cup Terminal \cup {"absent"},
             attempts : 0..MaxAttempts, token : Workers \cup {None}, live : BOOLEAN, open : BOOLEAN,
             day : BOOLEAN, due : BOOLEAN, kept : BOOLEAN, renewed : BOOLEAN, built : BOOLEAN]
Absent == [gen |-> 0, after |-> NoCommit, state |-> "absent", attempts |-> 0, token |-> None, live |-> FALSE,
           open |-> FALSE, day |-> FALSE, due |-> FALSE, kept |-> FALSE, renewed |-> FALSE, built |-> FALSE]

(* hosting_github_push_commands: absent, begun without a receipt, or done.  *)
Command == {None, "begun", "done"}

(* GitHubPushAuthorization with the provider evidence gathered under it.    *)
Evidence == [head : Optional, base : Optional]
NoProof == [head |-> NoCommit, base |-> NoCommit]
Reasons == {"", "authority_unavailable", "comparison_limit", "ancestry_unverified", "provider_unavailable"}
Authorization == [intent : Ids \cup {None}, gen : 0..MaxGeneration, desired : Optional, done : BOOLEAN,
                  proof : Evidence, reason : Reasons]
Idle == [intent |-> None, gen |-> 0, desired |-> NoCommit, done |-> FALSE, proof |-> NoProof, reason |-> ""]

VARIABLES
    d,          \* the rows: policy, deliveries, commands, intents, builds, demand, jobs
    authority,  \* pushCurrent: source, automation actor, grant and secrets are current
    head,       \* the branch head at the provider
    hooks,      \* what GitHub recorded for each delivery identifier
    ingress,    \* authorized webhook calls between key check and acceptance
    work,       \* the workers' authorizations
    sent,       \* the owner's requests
    checks,     \* verifications between their two transactions
    faults

vars == <<d, authority, head, hooks, ingress, work, sent, checks, faults>>

Enabled0 == [gen |-> 3, enabled |-> TRUE, status |-> "enabled", repo |-> TRUE, desired |-> 0, last |-> NoCommit,
             proof |-> "stale", vtoken |-> None, vlive |-> FALSE]
Unconfigured == [gen |-> 0, enabled |-> FALSE, status |-> "disabled", repo |-> FALSE, desired |-> NoCommit,
                 last |-> NoCommit, proof |-> "none", vtoken |-> None, vlive |-> FALSE]
NoHook == [sent |-> FALSE, after |-> NoCommit]
NoRequest == [kind |-> None, gen |-> 0, id |-> None]
NoDemand == [gen |-> 0, commit |-> NoCommit]

Init ==
    /\ d = [policy |-> IF Configured THEN Enabled0 ELSE Unconfigured,
            deliveries |-> [i \in Ids |-> Absent], commands |-> [r \in Requests |-> None],
            intents |-> {}, builds |-> <<>>, demand |-> NoDemand, jobs |-> {}]
    /\ authority = TRUE /\ head = 0
    /\ hooks = [i \in Ids |-> NoHook] /\ ingress = {}
    /\ work = [w \in Workers |-> Idle]
    /\ sent = [r \in Requests |-> NoRequest] /\ checks = [r \in Requests |-> Idle]
    /\ faults = 0

--------------------------------------------------------------------------
(* Statements. *)

SetDelivery(x, i, v) == [x EXCEPT !.deliveries[i] = v]

InsertGitHubPushDelivery(x, i, after, state) ==
    SetDelivery(x, i, [Absent EXCEPT !.gen = x.policy.gen, !.after = after, !.state = state, !.open = TRUE,
                                     !.day = TRUE, !.due = TRUE, !.kept = TRUE])

ClaimGitHubPushDelivery(x, i, w) ==
    SetDelivery(x, i, [x.deliveries[i] EXCEPT !.state = "verifying", !.token = w, !.live = TRUE,
                                              !.attempts = @ + 1, !.due = FALSE])

(* Mutant: a settled delivery keeps its processing token. *)
FinishKeepingToken(x, i, state, built) ==
    SetDelivery(x, i, [x.deliveries[i] EXCEPT !.state = state, !.due = FALSE, !.built = built])

FinishGitHubPushDelivery(x, i, state, built) ==
    SetDelivery(x, i, [x.deliveries[i] EXCEPT !.state = state, !.token = None, !.live = FALSE,
                                              !.due = FALSE, !.built = built])

RetryDelivery(x, i) ==
    SetDelivery(x, i, [x.deliveries[i] EXCEPT !.state = "received", !.attempts = 0, !.token = None, !.live = FALSE,
                                              !.open = TRUE, !.kept = TRUE, !.due = TRUE, !.renewed = TRUE])

ObsoleteGitHubPushDeliveries(x) ==
    [x EXCEPT !.deliveries = [i \in Ids |->
        IF x.deliveries[i].state \in Pending
        THEN [x.deliveries[i] EXCEPT !.state = "obsolete", !.token = None, !.live = FALSE] ELSE x.deliveries[i]]]

PendingOf(x) == {i \in Ids : x.deliveries[i].state \in Pending}
RetainedOf(x) == {i \in Ids : x.deliveries[i].state # "absent"}
TerminalOf(x) == RetainedOf(x) \ PendingOf(x)

(* A row that is gone takes its identifier with it: its job can only fail.  *)
DropDeliveries(x, gone) ==
    [x EXCEPT !.jobs = @ \ gone, !.deliveries = [i \in Ids |-> IF i \in gone THEN Absent ELSE x.deliveries[i]]]

EvictGitHubPushResourceReceipt(x, i) == DropDeliveries(x, {i})

ReadGitHubPushCommitIntent(x, commit) == <<x.policy.gen, commit>> \in x.intents

ExpireGitHubPushDeliveries(x) ==
    LET over(v) == v.state \in Pending /\ (~v.open \/ (v.attempts >= MaxAttempts /\ v.due))
    IN  [x EXCEPT !.deliveries = [i \in Ids |->
            IF over(x.deliveries[i]) THEN [x.deliveries[i] EXCEPT !.state = "blocked_exhausted", !.token = None,
                                                                   !.live = FALSE] ELSE x.deliveries[i]]]

PurgeGitHubPushReceipts(x) == DropDeliveries(x, {i \in TerminalOf(x) : ~x.deliveries[i].kept})

(* The due deliveries get a job, and their next turn moves 30 seconds on.   *)
RecoverGitHubPushDeliveries(x) ==
    LET due == {i \in PendingOf(x) : x.deliveries[i].due}
    IN  [x EXCEPT !.jobs = @ \cup due,
                  !.deliveries = [i \in Ids |-> [x.deliveries[i] EXCEPT !.due = @ /\ i \notin due]]]

--------------------------------------------------------------------------
(* The branch, and GitHub's deliveries for it. *)

Here == UNCHANGED <<authority, head, hooks>>

(* A push records a delivery; nothing says when, or how often, it arrives.  *)
Push(i) ==
    /\ ~hooks[i].sent /\ head < MaxCommit
    /\ head' = head + 1
    /\ hooks' = [hooks EXCEPT ![i] = [sent |-> TRUE, after |-> head + 1]]
    /\ UNCHANGED <<d, authority, ingress, work, sent, checks, faults>>

Ping(i) ==
    /\ "ping" \in Changes /\ ~hooks[i].sent
    /\ hooks' = [hooks EXCEPT ![i] = [sent |-> TRUE, after |-> NoCommit]]
    /\ UNCHANGED <<d, authority, head, ingress, work, sent, checks, faults>>

(* A forced push: its webhook is refused, the branch no longer descends.    *)
ForcePush ==
    /\ "force" \in Changes /\ head > 0
    /\ head' = head - 1
    /\ UNCHANGED <<d, authority, hooks, ingress, work, sent, checks, faults>>

ChangeAuthority ==
    /\ "authority" \in Changes
    /\ authority' = ~authority
    /\ UNCHANGED <<d, head, hooks, ingress, work, sent, checks, faults>>

(* Client.Verify: the branch head, and that it descends from desired.       *)
Verify(desired) ==
    CASE desired = NoCommit -> [proof |-> [head |-> head, base |-> NoCommit], reason |-> ""]
      [] desired = head -> [proof |-> [head |-> head, base |-> head], reason |-> ""]
      [] head - desired > CompareLimit -> [proof |-> NoProof, reason |-> "comparison_limit"]
      [] desired < head -> [proof |-> [head |-> head, base |-> desired], reason |-> ""]
      [] OTHER -> [proof |-> NoProof, reason |-> "ancestry_unverified"]

(* The proof must start at what the locked policy desires now.              *)
pushProof(x, e) == e # NoProof /\ e.base = x.policy.desired

Unavailable == [proof |-> NoProof, reason |-> "provider_unavailable"]
Unauthorized == [proof |-> NoProof, reason |-> "authority_unavailable"]

--------------------------------------------------------------------------
(* Ingress. *)

(* GitHubPushWebhookAuthority and the webhook key, before the body is read. *)
WebhookAuthority(i) ==
    /\ hooks[i].sent /\ authority /\ d.policy.gen > 0
    /\ ingress' = ingress \cup {[id |-> i, gen |-> d.policy.gen]}
    /\ UNCHANGED <<d, authority, head, hooks, work, sent, checks, faults>>

(* Mutant: whatever arrives is kept. *)
Unlimited(x, allocate) == {x}

(* The rows pushCapacity leaves, none when the limits refuse.               *)
pushCapacity(x, allocate) ==
    IF allocate /\ Cardinality(PendingOf(x)) >= PendingLimit THEN {}
    ELSE IF Cardinality(RetainedOf(x)) >= ReceiptLimit
         THEN {EvictGitHubPushResourceReceipt(x, i) : i \in TerminalOf(x)}
         ELSE {x}

Ignored(x, i) == hooks[i].after = NoCommit \/ ~x.policy.enabled

EnqueueGitHubPush(x, i) == [x EXCEPT !.jobs = @ \cup {i}]

(* The rows after an accepted delivery; a known identifier is a replay.     *)
AcceptGitHubPushDelivery(x, i) ==
    IF x.deliveries[i].state # "absent" THEN {x}
    ELSE {IF Ignored(x, i) THEN InsertGitHubPushDelivery(y, i, hooks[i].after, "ignored")
          ELSE EnqueueGitHubPush(InsertGitHubPushDelivery(y, i, hooks[i].after, "received"), i) :
            y \in pushCapacity(x, ~Ignored(x, i))}

(* The webhook answers; past its 30 seconds, or at another generation of    *)
(* the policy, it records nothing.  A policy that is not verified has no    *)
(* repository identity to match.                                            *)
Receive(a) ==
    /\ a \in ingress
    /\ ingress' = ingress \ {a}
    /\ \/ /\ a.gen = d.policy.gen /\ authority /\ d.policy.repo
          /\ d' \in AcceptGitHubPushDelivery(d, a.id)
       \/ d' = d
    /\ UNCHANGED <<authority, head, hooks, work, sent, checks, faults>>

--------------------------------------------------------------------------
(* Workers. *)

Running(w, i) == work[w].intent = i
Abandoned(w) == work[w].intent # None /\ ~(d.deliveries[work[w].intent].token = w
                                           /\ d.deliveries[work[w].intent].live)

Authorized(i) == [Idle EXCEPT !.intent = i, !.gen = d.policy.gen, !.desired = d.policy.desired]

(* BeginGitHubPushDelivery once authority is current: the rows it leaves,   *)
(* and whether the worker goes on to the provider.                          *)
BeginClaims(x, i) ==
    LET v == x.deliveries[i]
    IN  /\ v.gen = x.policy.gen /\ x.policy.enabled /\ v.state \in Pending
        /\ v.attempts < MaxAttempts /\ v.open
        /\ ~(v.state = "verifying" /\ v.live) /\ ~(v.state = "retry_wait" /\ ~v.due)

BeginSettles(x, i) ==
    LET v == x.deliveries[i]
    IN  CASE v.gen # x.policy.gen \/ ~x.policy.enabled -> FinishGitHubPushDelivery(x, i, "obsolete", FALSE)
          [] v.state \in Pending /\ (v.attempts >= MaxAttempts \/ ~v.open) ->
                FinishGitHubPushDelivery(x, i, "blocked_exhausted", FALSE)
          [] OTHER -> x

(* A job without current authority fails and stays for River to retry; an   *)
(* earlier run of it may still be at work, late.                            *)
BeginGitHubPushDelivery(w, i) ==
    /\ i \in d.jobs /\ work[w].intent = None
    /\ \A v \in Workers \ {w} : Running(v, i) => Abandoned(v)
    /\ authority
    /\ IF BeginClaims(d, i)
       THEN /\ d' = ClaimGitHubPushDelivery(d, i, w)
            /\ work' = [work EXCEPT ![w] = Authorized(i)]
       ELSE /\ d' = [BeginSettles(d, i) EXCEPT !.jobs = @ \ {i}]
            /\ work' = work
    /\ UNCHANGED <<authority, head, hooks, ingress, sent, checks, faults>>

(* AuthorizeGitHubPushSecret for the provider-read key of a delivery.       *)
MayRead(w) ==
    LET v == d.deliveries[work[w].intent]
    IN  authority /\ work[w].gen = d.policy.gen /\ d.policy.enabled /\ v.token = w /\ v.live /\ v.open

verifyGitHubPush(w) ==
    /\ work[w].intent # None /\ ~work[w].done
    /\ \E e \in {IF MayRead(w) THEN Verify(work[w].desired) ELSE Unauthorized, Unavailable} :
          /\ faults' = IF e = Unavailable THEN faults + 1 ELSE faults
          /\ faults' <= MaxFaults
          /\ work' = [work EXCEPT ![w].done = TRUE, ![w].proof = e.proof, ![w].reason = e.reason]
    /\ UNCHANGED <<d, authority, head, hooks, ingress, sent, checks>>

(* Mutant: what was read before the provider calls is not read again. *)
CommitAlways(x, a, w) == TRUE

CommitAllowed(x, a, w) ==
    LET v == x.deliveries[a.intent]
    IN  /\ x.policy.gen = a.gen /\ x.policy.enabled /\ v.gen = x.policy.gen
        /\ v.token = w /\ v.live /\ v.open

(* Mutant: a proof about the earlier desired commit is still accepted. *)
CommitReasonLoose(x, a) == IF a.reason # "" THEN a.reason ELSE IF a.proof # NoProof THEN "" ELSE "ancestry_unverified"

CommitReason(x, a) ==
    CASE x.policy.desired # a.desired -> "policy_changed"
      [] a.reason # "" -> a.reason
      [] ~pushProof(x, a.proof) -> "ancestry_unverified"
      [] OTHER -> ""

(* A reason blocks the policy and sends the delivery to wait, or to rest.   *)
CommitBlocked(x, i) ==
    FinishGitHubPushDelivery([x EXCEPT !.policy.status = "blocked"], i,
        IF x.deliveries[i].attempts >= MaxAttempts THEN "blocked_exhausted" ELSE "retry_wait", FALSE)

(* Mutant: the demand is not recorded with the build it is for. *)
NoDemandRecorded(x, commit) == x

(* autoRecordDemand refuses once a day has passed since receipt, or the     *)
(* delivery has no attempt left.                                            *)
DemandAllowed(v) == ~Auto \/ (v.day /\ v.attempts < MaxAttempts)
autoRecordDemand(x, commit) ==
    IF Auto THEN [x EXCEPT !.demand = [gen |-> x.policy.gen, commit |-> commit]] ELSE x

RecordBuild(x, i, commit) ==
    [x EXCEPT !.builds = Append(@, [gen |-> x.policy.gen, commit |-> commit, id |-> i]),
              !.intents = @ \cup {<<x.policy.gen, commit>>},
              !.policy.desired = commit, !.policy.last = commit, !.policy.status = "enabled"]

(* Mutant: whatever the provider says is built, whichever push was signed.  *)
CommitAnyHead(x, i, commit) ==
    IF ReadGitHubPushCommitIntent(x, commit) THEN FinishGitHubPushDelivery(x, i, "coalesced", TRUE)
    ELSE FinishGitHubPushDelivery(autoRecordDemand(RecordBuild(x, i, commit), commit), i, "queued", TRUE)

(* Mutant: a redelivery of a commit that already has its build gets another. *)
CommitAgain(x, i, commit) ==
    IF x.deliveries[i].after # commit THEN FinishGitHubPushDelivery(x, i, "ignored", FALSE)
    ELSE FinishGitHubPushDelivery(autoRecordDemand(RecordBuild(x, i, commit), commit), i, "queued", TRUE)

(* A signed event admits its own commit, once per policy generation.        *)
CommitVerified(x, i, commit) ==
    IF x.deliveries[i].after # commit THEN FinishGitHubPushDelivery(x, i, "ignored", FALSE)
    ELSE IF ReadGitHubPushCommitIntent(x, commit) THEN FinishGitHubPushDelivery(x, i, "coalesced", TRUE)
    ELSE FinishGitHubPushDelivery(autoRecordDemand(RecordBuild(x, i, commit), commit), i, "queued", TRUE)

Admits(x, i, commit) == x.deliveries[i].after = commit /\ ~ReadGitHubPushCommitIntent(x, commit)

(* CommitGitHubPushDelivery: one transaction; a refusal rolls it all back   *)
(* and leaves the job to River.                                             *)
Commits1(x, a, w) ==
    IF ~authority \/ x.deliveries[a.intent].state = "absent" \/ ~CommitAllowed(x, a, w) THEN {}
    ELSE IF CommitReason(x, a) # "" THEN {CommitBlocked(x, a.intent)}
    ELSE IF Admits(x, a.intent, a.proof.head) /\ ~DemandAllowed(x.deliveries[a.intent]) THEN {}
    ELSE {CommitVerified(x, a.intent, a.proof.head)}

CommitGitHubPushDelivery(w) ==
    /\ work[w].done
    /\ \/ /\ Commits1(d, work[w], w) = {}
          /\ d' = d
       \/ \E y \in Commits1(d, work[w], w) : d' = [y EXCEPT !.jobs = @ \ {work[w].intent}]
    /\ work' = [work EXCEPT ![w] = Idle]
    /\ UNCHANGED <<authority, head, hooks, ingress, sent, checks, faults>>

(* A worker dies; River gives its job up after its last attempt.            *)
WorkerDies(w) ==
    /\ work[w].intent # None /\ faults < MaxFaults
    /\ work' = [work EXCEPT ![w] = Idle]
    /\ faults' = faults + 1
    /\ UNCHANGED <<d, authority, head, hooks, ingress, sent, checks>>

LoseJob(i) ==
    /\ i \in d.jobs /\ faults < MaxFaults
    /\ d' = [d EXCEPT !.jobs = @ \ {i}]
    /\ faults' = faults + 1
    /\ UNCHANGED <<authority, head, hooks, ingress, work, sent, checks>>

(* Mutant: recovery only drops what is over. *)
RecoverNothing(x) == PurgeGitHubPushReceipts(ExpireGitHubPushDeliveries(x))
(* Mutant: recovery leaves the end of a window to the workers. *)
RecoverOnly(x) == RecoverGitHubPushDeliveries(PurgeGitHubPushReceipts(x))

RecoverRows(x) == RecoverGitHubPushDeliveries(PurgeGitHubPushReceipts(ExpireGitHubPushDeliveries(x)))

recoverGitHubPushDispatch ==
    /\ d' = RecoverRows(d) /\ d' # d
    /\ UNCHANGED <<authority, head, hooks, ingress, work, sent, checks, faults>>

--------------------------------------------------------------------------
(* Time. *)

Elapse(x) == d' = x /\ UNCHANGED <<authority, head, hooks, ingress, work, sent, checks>>

(* Thirty seconds: the token of a claim and its next turn end together; a   *)
(* worker that is still at it is late.                                      *)
TokenLapses(i) ==
    LET busy == \E w \in Workers : Running(w, i) /\ ~Abandoned(w)
    IN  /\ d.deliveries[i].live /\ (busy => faults < MaxFaults)
        /\ faults' = IF busy THEN faults + 1 ELSE faults
        /\ Elapse([d EXCEPT !.deliveries[i].live = FALSE, !.deliveries[i].due = TRUE])

ComesDue(i) ==
    /\ d.deliveries[i].state \in Pending /\ ~d.deliveries[i].due /\ ~d.deliveries[i].live
    /\ faults' = faults
    /\ Elapse([d EXCEPT !.deliveries[i].due = TRUE])

(* A day after receipt; a renewed window has a day of its own.              *)
DayEnds(i) ==
    LET v == d.deliveries[i]
    IN  /\ "day" \in Changes /\ v.open
        /\ faults' = faults
        /\ Elapse([d EXCEPT !.deliveries = [j \in Ids |->
                IF j = i THEN [v EXCEPT !.day = FALSE, !.open = v.day /\ v.renewed, !.live = FALSE, !.due = TRUE]
                ELSE [d.deliveries[j] EXCEPT !.live = FALSE, !.due = @ \/ d.deliveries[j].state \in Pending]],
                     !.policy.proof = IF @ = "fresh" THEN "stale" ELSE @, !.policy.vlive = FALSE])

RetentionEnds(i) ==
    /\ "day" \in Changes /\ d.deliveries[i].kept /\ ~d.deliveries[i].open
    /\ faults' = faults
    /\ Elapse([d EXCEPT !.deliveries[i].kept = FALSE])

VerificationLapses ==
    /\ d.policy.vlive \/ d.policy.proof = "fresh"
    /\ faults' = faults
    /\ Elapse([d EXCEPT !.policy.vlive = FALSE, !.policy.proof = IF @ = "fresh" THEN "stale" ELSE @])

--------------------------------------------------------------------------
(* The owner's commands.  A request is written against the generation the   *)
(* owner saw; the client may send it again, at any time.                    *)

Kinds == {"configure", "verify", "enable", "disable", "retry"} \cap Changes

Send(r) ==
    /\ sent[r] = NoRequest
    /\ \E k \in Kinds, i \in Ids \cup {None} :
          /\ (k = "retry") = (i # None)
          /\ k # "configure" => d.policy.gen > 0
          /\ sent' = [sent EXCEPT ![r] = [kind |-> k, gen |-> d.policy.gen, id |-> i]]
    /\ UNCHANGED <<d, authority, head, hooks, ingress, work, checks, faults>>

(* pushCommand: a request with a receipt is a replay, and a new one needs   *)
(* the current generation.                                                  *)
Replayed(r) == d.commands[r] = "done"
pushCommand(r) == d.commands[r] # None \/ sent[r].gen = d.policy.gen
(* Mutant: a request that was answered runs again. *)
FreshAlways(r, k) == sent[r].kind = k /\ d.policy.gen < MaxGeneration
Fresh(r, k) == sent[r].kind = k /\ ~Replayed(r) /\ pushCommand(r) /\ d.policy.gen < MaxGeneration

pushFinishCommand(x, r) == [x EXCEPT !.commands[r] = "done"]

Owner == UNCHANGED <<authority, head, hooks, ingress, work, sent, faults>>

(* Saves disabled, with a fresh baseline to verify.                         *)
ConfigureGitHubPushPolicy(r) ==
    /\ Fresh(r, "configure") /\ authority
    /\ d' = pushFinishCommand(ObsoleteGitHubPushDeliveries(
                [d EXCEPT !.policy = [Unconfigured EXCEPT !.gen = d.policy.gen + 1,
                                                          !.vtoken = d.policy.vtoken, !.vlive = d.policy.vlive]]), r)
    /\ checks' = checks /\ Owner

(* A verification attempt belongs to the request that began it last.        *)
BeginGitHubPushVerification(r) ==
    /\ sent[r].kind = "verify" /\ ~Replayed(r) /\ pushCommand(r) /\ authority
    /\ sent[r].gen = d.policy.gen /\ checks[r] = Idle
    /\ \/ /\ d.commands[r] = None
          /\ d' = [d EXCEPT !.commands[r] = "begun", !.policy.vtoken = r, !.policy.vlive = TRUE]
       \/ /\ d.commands[r] = "begun" /\ d.policy.vtoken = r /\ d.policy.vlive
          /\ d' = d
    /\ checks' = [checks EXCEPT ![r] = [Idle EXCEPT !.gen = d.policy.gen, !.desired = d.policy.desired]]
    /\ Owner

VerifyPolicy(r) ==
    /\ checks[r] # Idle /\ ~checks[r].done
    /\ \E e \in {Verify(checks[r].desired), Unavailable} :
          /\ faults' = IF e = Unavailable THEN faults + 1 ELSE faults
          /\ faults' <= MaxFaults
          /\ checks' = [checks EXCEPT ![r].done = TRUE, ![r].proof = e.proof, ![r].reason = e.reason]
    /\ UNCHANGED <<d, authority, head, hooks, ingress, work, sent>>

(* Mutant: the attempt's token is not compared when its answer returns. *)
FinishAllowedAny(a, r) == authority /\ a.gen = d.policy.gen
FinishAllowed(a, r) == authority /\ a.gen = d.policy.gen /\ d.policy.vtoken = r /\ d.policy.vlive

Verified(p, e) ==
    [p EXCEPT !.gen = @ + 1, !.status = "verified", !.repo = TRUE, !.proof = "fresh",
              !.desired = IF @ = NoCommit THEN e.head ELSE @]

FinishGitHubPushVerification(r) ==
    LET a == checks[r]
        reason == IF a.reason # "" THEN a.reason ELSE IF pushProof(d, a.proof) THEN "" ELSE "ancestry_unverified"
    IN  /\ a.done /\ checks' = [checks EXCEPT ![r] = Idle]
        /\ \/ /\ ~FinishAllowed(a, r)
              /\ d' = d
           \/ /\ FinishAllowed(a, r) /\ d.policy.gen < MaxGeneration
              /\ d' = pushFinishCommand([d EXCEPT !.policy =
                        IF reason = "" THEN Verified(d.policy, a.proof)
                        ELSE [d.policy EXCEPT !.gen = @ + 1, !.status = "blocked", !.proof = "none"]], r)
        /\ Owner

(* Mutant: any known policy can be enabled. *)
EnableAnyway(p) == p.status # "blocked"
EnableAllowed(p) == p.proof = "fresh" /\ p.repo

(* Enabling consumes a fresh verification; an owner may always disable.     *)
SetGitHubPushEnabled(r) ==
    /\ \/ Fresh(r, "enable") /\ authority /\ EnableAllowed(d.policy)
       \/ Fresh(r, "disable")
    /\ LET on == sent[r].kind = "enable"
       IN  d' = pushFinishCommand(ObsoleteGitHubPushDeliveries(
                    [d EXCEPT !.policy.gen = @ + 1, !.policy.enabled = on,
                              !.policy.status = IF on THEN "enabled" ELSE "disabled"]), r)
    /\ checks' = checks /\ Owner

(* Mutant: a delivery is reopened whatever became of it. *)
RetryAnyState(v) == v.gen = d.policy.gen

RetryAllowed(v) ==
    /\ v.gen = d.policy.gen /\ v.state \in {"blocked_exhausted", "retry_wait"}
    /\ v.state = "blocked_exhausted" => Cardinality(PendingOf(d)) < PendingLimit

RetryGitHubPushDelivery(r) ==
    LET i == sent[r].id
    IN  /\ Fresh(r, "retry") /\ authority /\ d.policy.enabled
        /\ RetryAllowed(d.deliveries[i])
        /\ d' = pushFinishCommand(EnqueueGitHubPush(RetryDelivery(d, i), i), r)
        /\ checks' = checks /\ Owner

--------------------------------------------------------------------------

Next ==
    \/ \E i \in Ids : Push(i) \/ Ping(i) \/ WebhookAuthority(i) \/ LoseJob(i) \/ TokenLapses(i)
                      \/ ComesDue(i) \/ DayEnds(i) \/ RetentionEnds(i)
    \/ \E a \in ingress : Receive(a)
    \/ \E w \in Workers : verifyGitHubPush(w) \/ CommitGitHubPushDelivery(w) \/ WorkerDies(w)
                          \/ \E i \in Ids : BeginGitHubPushDelivery(w, i)
    \/ \E r \in Requests : Send(r) \/ ConfigureGitHubPushPolicy(r) \/ BeginGitHubPushVerification(r)
                           \/ VerifyPolicy(r) \/ FinishGitHubPushVerification(r) \/ SetGitHubPushEnabled(r)
                           \/ RetryGitHubPushDelivery(r)
    \/ ForcePush \/ ChangeAuthority \/ VerificationLapses \/ recoverGitHubPushDispatch

Spec == Init /\ [][Next]_vars

--------------------------------------------------------------------------
(* Properties. *)

Rows == [policy : Policy, deliveries : [Ids -> Delivery], commands : [Requests -> Command],
         intents : SUBSET ((1..MaxGeneration) \X Commits),
         builds : Seq([gen : 1..MaxGeneration, commit : Commits, id : Ids]),
         demand : [gen : 0..MaxGeneration, commit : Optional], jobs : SUBSET Ids]

(* The rows, GitHub's records and every authorization in flight are well    *)
(* formed (pushDocument and the table checks): a delivery is claimed by the *)
(* holder of its token, and attempts stay within the budget.                *)
PTypeOK ==
    /\ d \in Rows /\ authority \in BOOLEAN /\ head \in Commits
    /\ hooks \in [Ids -> [sent : BOOLEAN, after : Optional]]
    /\ ingress \subseteq [id : Ids, gen : 1..MaxGeneration]
    /\ work \in [Workers -> Authorization] /\ checks \in [Requests -> Authorization]
    /\ sent \in [Requests -> [kind : Kinds \cup {None}, gen : 0..MaxGeneration, id : Ids \cup {None}]]
    /\ faults \in 0..MaxFaults
    /\ \A i \in Ids : (d.deliveries[i].token # None) <=> (d.deliveries[i].state = "verifying")

(* However often a delivery is repeated, evicted and received again,        *)
(* retried or worked on twice, CommitGitHubPushDelivery admits one build    *)
(* per policy generation and commit.                                        *)
OneBuildPerCommit ==
    \A m, n \in 1..Len(d.builds) :
       m < n => <<d.builds[m].gen, d.builds[m].commit>> # <<d.builds[n].gen, d.builds[n].commit>>

(* A build is only ever of the commit its own signed delivery announced: a  *)
(* delayed event never builds a newer head that some other push made.       *)
BuildIsOfItsPush == \A n \in 1..Len(d.builds) : hooks[d.builds[n].id].after = d.builds[n].commit

(* Within one generation of the policy, builds follow the branch: whatever  *)
(* the order of arrival and of the workers, no build goes back to an        *)
(* ancestor of an earlier one.                                              *)
BuildsAdvance ==
    \A m, n \in 1..Len(d.builds) :
       (m < n /\ d.builds[m].gen = d.builds[n].gen) => d.builds[m].commit < d.builds[n].commit

(* The desired commit, the last build and, when the policy deploys, the     *)
(* demand are written together: none is ever ahead of another.              *)
DesiredIsBuilt ==
    d.policy.last # NoCommit =>
       /\ d.policy.desired = d.policy.last
       /\ d.builds[Len(d.builds)].commit = d.policy.last
       /\ Auto => d.demand.commit = d.policy.last

(* A build is admitted only while the policy is enabled, at the generation  *)
(* the delivery was accepted under, and under current authority, however    *)
(* long ago the worker read them.                                           *)
BuildsAreAuthorized ==
    [][Len(d'.builds) > Len(d.builds) =>
          /\ authority /\ d.policy.enabled
          /\ d.deliveries[d'.builds[Len(d'.builds)].id].gen = d.policy.gen]_vars

(* The branch baseline moves only forward; only the owner's Configure, with *)
(* its acknowledged reset, gives it up.                                     *)
BaselineOnlyAdvances ==
    [][d'.policy.desired < d.policy.desired => d'.policy.desired = NoCommit /\ ~d'.policy.enabled]_vars

(* Pending deliveries and retained receipts stay within their limits, also  *)
(* when the owner retries exhausted ones.                                   *)
PendingIsBounded ==
    Cardinality(PendingOf(d)) <= PendingLimit /\ Cardinality(RetainedOf(d)) <= ReceiptLimit

(* A delivery that was settled under the policy's present generation stays  *)
(* as it was settled; only an exhausted one is opened again, by its owner,  *)
(* and only a receipt may be dropped.                                       *)
SettledStays ==
    [][\A i \in Ids :
          (d.deliveries[i].state \in Terminal /\ d.deliveries[i].gen = d'.policy.gen
             /\ d'.deliveries[i].state # d.deliveries[i].state) =>
             \/ d'.deliveries[i].state = "absent"
             \/ d.deliveries[i].state = "blocked_exhausted" /\ d'.deliveries[i].state = "received"]_vars

(* An owner's request takes effect once: a generation is spent, and a       *)
(* delivery's window renewed, only by a request that has no receipt yet.    *)
CommandsTakeEffectOnce ==
    [][(d'.policy.gen # d.policy.gen \/ \E i \in Ids : d'.deliveries[i].renewed /\ ~d.deliveries[i].open
                                                        /\ d'.deliveries[i].open)
          => \E r \in Requests : d.commands[r] # "done" /\ d'.commands[r] = "done"]_vars

(* The policy is enabled only by a verification whose attempt the owner     *)
(* began last and whose answer came in time; a known repository and a       *)
(* baseline come with it.                                                   *)
EnabledIsVerified ==
    d.policy.enabled => d.policy.repo /\ d.policy.desired # NoCommit

(* A verification attempt the owner has since begun anew leaves no mark.    *)
SupersededVerificationIsDropped ==
    [][\A r \in Requests :
          (d.commands[r] = "begun" /\ d'.commands[r] = "done") => d.policy.vtoken = r /\ d.policy.vlive]_vars

(* Not taken to the provider and answered, or pending after its window. *)
Unworked(i) ==
    \/ d.deliveries[i].state \in {"received", "verifying"}
    \/ d.deliveries[i].state \in Pending /\ ~d.deliveries[i].open
=============================================================================
