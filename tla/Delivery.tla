------------------------------ MODULE Delivery ------------------------------
(***************************************************************************)
(* From a push to the served route: signed deliveries and the builds they  *)
(* admit, by two workers, by an owner who changes the policy and at the    *)
(* limits of the receipts (GitHubPush), the automatic deployment of a      *)
(* built commit (AutoDeploy), the review of its policy (PolicyReview), and *)
(* the managed proxy with verified switches and recovery, or with its      *)
(* installation, route edits and disablement (ProxyExecution).  One of     *)
(* them moves, because steps of two that share no variable commute.        *)
(***************************************************************************)

VARIABLES
    part,   \* the component that moves
    puD, puAuthority, puHead, puHooks, puIngress, puWork, puSent, puChecks, puFaults,
    owD, owAuthority, owHead, owHooks, owIngress, owWork, owSent, owChecks, owFaults,
    rcD, rcAuthority, rcHead, rcHooks, rcIngress, rcWork, rcSent, rcChecks, rcFaults,
    auD, auAuthority, auWake, auTodo, auBusy,
    rvWrong, rvNow, rvEpoch, rvRank, rvSnap, rvPage, rvShown, rvControl,
    swD, swPc, swG, swOut, swJournal, swEng, swPlan, swFaults,
    suD, suPc, suG, suOut, suJournal, suEng, suPlan, suFaults

Pushes == INSTANCE GitHubPush WITH
    Ids <- {"i1", "i2"}, Workers <- {"w1", "w2"}, Requests <- {}, Changes <- {"force"},
    Configured <- TRUE, Auto <- TRUE, MaxCommit <- 2, MaxGeneration <- 3, MaxAttempts <- 2,
    PendingLimit <- 2, ReceiptLimit <- 2, CompareLimit <- 2, MaxFaults <- 1, d <- puD,
    authority <- puAuthority, head <- puHead, hooks <- puHooks, ingress <- puIngress,
    work <- puWork, sent <- puSent, checks <- puChecks, faults <- puFaults

Owner == INSTANCE GitHubPush WITH
    Ids <- {"i1"}, Workers <- {"w1"}, Requests <- {"q1", "q2", "q3"},
    Changes <- {"configure", "verify", "enable", "disable", "authority"}, Configured <- FALSE,
    Auto <- FALSE, MaxCommit <- 1, MaxGeneration <- 4, MaxAttempts <- 2, PendingLimit <- 2,
    ReceiptLimit <- 2, CompareLimit <- 2, MaxFaults <- 0, d <- owD, authority <- owAuthority,
    head <- owHead, hooks <- owHooks, ingress <- owIngress, work <- owWork, sent <- owSent,
    checks <- owChecks, faults <- owFaults

Receipts == INSTANCE GitHubPush WITH
    Ids <- {"i1", "i2"}, Workers <- {"w1"}, Requests <- {"q1"},
    Changes <- {"ping", "day", "retry", "disable"}, Configured <- TRUE, Auto <- FALSE,
    MaxCommit <- 1, MaxGeneration <- 4, MaxAttempts <- 1, PendingLimit <- 1, ReceiptLimit <- 1,
    CompareLimit <- 2, MaxFaults <- 0, d <- rcD, authority <- rcAuthority, head <- rcHead,
    hooks <- rcHooks, ingress <- rcIngress, work <- rcWork, sent <- rcSent, checks <- rcChecks,
    faults <- rcFaults

Auto == INSTANCE AutoDeploy WITH
    MaxPush <- 1, MaxManual <- 1, MaxGeneration <- 2, MaxAttempts <- 3, MaxLoads <- 1,
    Changes <- {"stop", "expire", "held", "authority", "enable", "configure", "deploy"},
    d <- auD, authority <- auAuthority, wake <- auWake, todo <- auTodo, busy <- auBusy

Review == INSTANCE PolicyReview WITH
    Wrong <- {"restore_held", "proxy_busy", "grant"}, MaxLoaded <- 2, MaxVersion <- 2,
    MaxEpoch <- 1, wrong <- rvWrong, now <- rvNow, epoch <- rvEpoch, rank <- rvRank,
    snap <- rvSnap, page <- rvPage, shown <- rvShown, control <- rvControl

Switch == INSTANCE ProxyExecution WITH
    Routes <- {"r1", "r2"}, MaxRelease <- 2, Switched <- {{"r1", "r2"}}, MaxGen <- 3,
    MaxFaults <- 1,
    Requests <- {"switch", "revoke", "grant", "deploy", "cleanup", "cancel", "recover", "restore"},
    Installed <- TRUE, d <- swD, pc <- swPc, g <- swG, out <- swOut, journal <- swJournal,
    eng <- swEng, plan <- swPlan, faults <- swFaults

Setup == INSTANCE ProxyExecution WITH
    Routes <- {"r1", "r2"}, MaxRelease <- 2, Switched <- {{"r1"}}, MaxGen <- 3, MaxFaults <- 1,
    Requests <- {"route", "delete", "disable", "destination"}, Installed <- FALSE, d <- suD,
    pc <- suPc, g <- suG, out <- suOut, journal <- suJournal, eng <- suEng, plan <- suPlan,
    faults <- suFaults

puVars ==
    <<puD, puAuthority, puHead, puHooks, puIngress, puWork, puSent, puChecks, puFaults>>
owVars ==
    <<owD, owAuthority, owHead, owHooks, owIngress, owWork, owSent, owChecks, owFaults>>
rcVars ==
    <<rcD, rcAuthority, rcHead, rcHooks, rcIngress, rcWork, rcSent, rcChecks, rcFaults>>
auVars ==
    <<auD, auAuthority, auWake, auTodo, auBusy>>
rvVars ==
    <<rvWrong, rvNow, rvEpoch, rvRank, rvSnap, rvPage, rvShown, rvControl>>
swVars ==
    <<swD, swPc, swG, swOut, swJournal, swEng, swPlan, swFaults>>
suVars ==
    <<suD, suPc, suG, suOut, suJournal, suEng, suPlan, suFaults>>
allVars == <<part, puVars, owVars, rcVars, auVars, rvVars, swVars, suVars>>

AllInit ==
    /\ part \in {"pushes", "owner", "receipts", "auto", "review", "switch", "setup"}
    /\ Pushes!Init /\ Owner!Init /\ Receipts!Init /\ Auto!Init /\ Review!Init /\ Switch!Init /\ Setup!Init
    \* a component that rests does so in one of its initial states
    /\ part # "review" => rvWrong = {}

PushesMoves ==
    part = "pushes" /\ Pushes!Next /\ UNCHANGED <<part, owVars, rcVars, auVars, rvVars, swVars, suVars>>
OwnerMoves ==
    part = "owner" /\ Owner!Next /\ UNCHANGED <<part, puVars, rcVars, auVars, rvVars, swVars, suVars>>
ReceiptsMoves ==
    part = "receipts" /\ Receipts!Next /\ UNCHANGED <<part, puVars, owVars, auVars, rvVars, swVars, suVars>>
AutoMoves ==
    part = "auto" /\ Auto!Next /\ UNCHANGED <<part, puVars, owVars, rcVars, rvVars, swVars, suVars>>
ReviewMoves ==
    part = "review" /\ Review!Next /\ UNCHANGED <<part, puVars, owVars, rcVars, auVars, swVars, suVars>>
SwitchMoves ==
    part = "switch" /\ Switch!Next /\ UNCHANGED <<part, puVars, owVars, rcVars, auVars, rvVars, suVars>>
SetupMoves ==
    part = "setup" /\ Setup!Next /\ UNCHANGED <<part, puVars, owVars, rcVars, auVars, rvVars, swVars>>

AllNext == PushesMoves \/ OwnerMoves \/ ReceiptsMoves \/ AutoMoves \/ ReviewMoves \/ SwitchMoves \/ SetupMoves

AllSpec == AllInit /\ [][AllNext]_allVars

-----------------------------------------------------------------------------
(* However often a delivery is repeated, evicted, retried or worked on     *)
(* twice, and in whatever order: one build per generation and commit, of   *)
(* the commit the delivery announced, never back to an ancestor; pending   *)
(* deliveries and receipts stay within their limits; and what is enabled   *)
(* was verified (CommitGitHubPushDelivery, ReceiveGitHubPush,              *)
(* FinishGitHubPushVerification).                                          *)
BuildsFollowTheBranch ==
    /\ part = "pushes" =>
           /\ Pushes!PTypeOK /\ Pushes!OneBuildPerCommit /\ Pushes!BuildIsOfItsPush
           /\ Pushes!BuildsAdvance /\ Pushes!DesiredIsBuilt
    /\ part = "owner" => Owner!EnabledIsVerified
    /\ part = "receipts" => Receipts!PendingIsBounded

(* A build is admitted only under the authority, the policy and the        *)
(* generation of that moment, a settled delivery stays settled, an owner's *)
(* request takes effect once, a superseded verification leaves no mark and *)
(* the baseline of the branch only advances.                               *)
PushStepsAreAuthorized ==
    /\ Pushes!BaselineOnlyAdvances /\ Receipts!SettledStays
    /\ Receipts!BuildsAreAuthorized /\ Owner!BuildsAreAuthorized
    /\ Owner!CommandsTakeEffectOnce /\ Owner!SupersededVerificationIsDropped

(* An automatic deployment that was admitted is not canceled by its own    *)
(* clean-up, the route it reports is served and its baseline was a route;  *)
(* a setting the review page offers is one the save accepts, the status it *)
(* shows is the gate the deployment meets, and what is disclosed is        *)
(* current (PrepareHostingAutoDeploy, autoCleanupOrigin, the policy page). *)
AutomaticPolicyIsServed ==
    /\ part = "auto" =>
           Auto!ATypeOK /\ Auto!AdmittedIsNotCanceled /\ Auto!RouteIsServed /\ Auto!BaselineIsARoute
    /\ part = "review" =>
           /\ Review!RTypeOK /\ Review!EligibleIsAccepted
           /\ Review!StatusIsTheGate /\ Review!DisclosureIsCurrent

(* While no operation holds the proxy, the engine serves exactly the       *)
(* generation the row calls loaded, every release it serves is kept        *)
(* running, and an admitted effect keeps its journal until the controller  *)
(* settled it.  A rejected, canceled or refused switch leaves no trace in  *)
(* the selections; a route is offered a switch exactly when the admission  *)
(* would take it; and a route that lost its authority while it is served   *)
(* is on its way out, whatever supersedes or defers its withdrawal         *)
(* (RunnerProxyApplyBegin, HostingReleaseReferenced, the reconciliation of *)
(* the runner).                                                            *)
ProxyServesItsRecord ==
    /\ part = "switch" =>
           /\ Switch!XTypeOK /\ Switch!SettledIsServed /\ Switch!ServedIsRetained
           /\ Switch!HoldIsJournaled /\ Switch!ReadyIsServed
           /\ Switch!SwitchLeavesNoTrace /\ Switch!RejectedIsUnselected
           /\ Switch!OptionsMatchAdmission /\ Switch!WithdrawalIsNotLost
    /\ part = "setup" =>
           Setup!XTypeOK /\ Setup!SettledIsServed /\ Setup!WithdrawalIsNotLost

(* A proxy generation is admitted only over the generation the engine      *)
(* serves and with routes that are still authorized and select what it     *)
(* publishes; a recovery queues nothing of the rejected candidate.  The    *)
(* first change an automatic deployment makes is made under the current    *)
(* policy, an owner's manual choice stands against an older one, and its   *)
(* success is recorded for what is served.                                 *)
AdmissionsAreCurrent ==
    /\ Switch!AdmissionIsCurrent /\ Setup!AdmissionIsCurrent /\ Switch!RecoveryConverges
    /\ Auto!ManualChoiceStands /\ Auto!NoStaleFirstMutation /\ Auto!SucceededIsServed
=============================================================================
