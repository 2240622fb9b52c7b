-------------------------- MODULE RetentionPolicy ---------------------------
(***************************************************************************)
(* Retention over time: copies are published, lose their availability,     *)
(* and are deleted in bounded batches under a policy an owner may change.  *)
(*                                                                         *)
(* Which recovery copies a retention policy may delete.  A copy is a       *)
(* record with id, loc, at (creation time), bytes, avail, and reasons (the *)
(* protections the inventory found).  The loops of the code are written    *)
(* over the newest-first order of one location, including the saturating   *)
(* sum that keeps the byte total inside 64 bits; Expected states the rule  *)
(* the owner's guide gives.                                                *)
(***************************************************************************)
EXTENDS Integers, FiniteSets, Sequences, SequencesExt, FiniteSetsExt, TLC

CONSTANTS
    BatchLimit,      \* BackupRetentionBatchLimit
    IdMax, TimeMax, BytesMax

Locations == {"local", "remote"}

Availability == {"available", "reserved", "deleted", "uncertain", "unproven"}

BackupRetentionLimits == [count : 0 .. IdMax, days : 0 .. TimeMax, bytes : 0 .. IdMax * BytesMax]

BackupRetentionItem ==
    [id : 1 .. IdMax, loc : Locations, at : 1 .. TimeMax, bytes : 1 .. BytesMax,
     avail : Availability, reasons : SUBSET {"shared", "active"}]

(* Newest first; equal times by descending id. *)
Newer(a, b) == a.at > b.at \/ (a.at = b.at /\ a.id > b.id)

(* Mutant: the comparison is the wrong way round.                          *)
MutOldestFirst(inventory, loc) ==
    SetToSortSeq({c \in inventory : c.loc = loc /\ c.avail # "deleted"}, LAMBDA a, b : Newer(b, a))

Indices(inventory, loc) ==
    SetToSortSeq({c \in inventory : c.loc = loc /\ c.avail # "deleted"}, Newer)

Tail2(s, n) == {s[i] : i \in n + 1 .. Len(s)}

MatchedByCount(s, keep) == IF keep = 0 THEN {} ELSE Tail2(s, keep)

MatchedByAge(s, days) == {c \in ToSet(s) : days > 0 /\ c.at < s[1].at - days}

(* The running sum over the older copies, clamped just above the limit. *)
Total(s, max) ==
    LET total[i \in 1 .. Len(s)] ==
            IF i = 1 THEN 0
            ELSE IF total[i - 1] > max - s[i].bytes THEN max + 1
            ELSE total[i - 1] + s[i].bytes
    IN total

(* Mutant: the copy that crosses the limit is selected as well.            *)
MutSizeDropsThreshold(s, max) ==
    LET over == {i \in 2 .. Len(s) : Total(s, max)[i] > max}
    IN  IF max = 0 \/ over = {} THEN {} ELSE Tail2(s, Min(over) - 1)

MatchedBySize(s, max) ==
    LET over == {i \in 2 .. Len(s) : Total(s, max)[i] > max}
    IN  IF max = 0 \/ over = {} THEN {} ELSE Tail2(s, Min(over))

Matched(policy, s) ==
    IF s = <<>> \/ ~ policy.enabled THEN {}
    ELSE LET limits == policy[s[1].loc]
         IN  MatchedByCount(s, limits.count) \cup MatchedByAge(s, limits.days)
                 \cup MatchedBySize(s, limits.bytes)

(* The newest copy and the newest usable copy. *)
Newest(s) ==
    LET usable == {i \in 1 .. Len(s) : s[i].avail \in {"available", "unproven"}}
    IN  {s[1]} \cup {s[i] : i \in IF usable = {} THEN {} ELSE {Min(usable)}}

Eligible(policy, inventory) ==
    UNION {LET s == Indices(inventory, loc)
           IN  {c \in Matched(policy, s) :
                    c.avail = "available" /\ c.reasons = {} /\ c \notin Newest(s)} : loc \in Locations}

(* Mutant: the bounded batch takes the newest of the eligible copies.      *)
MutBatchNewest(eligible) ==
    {c \in eligible : Cardinality({d \in eligible : Newer(d, c)}) < BatchLimit}

Batch(eligible) ==
    {c \in eligible : Cardinality({d \in eligible : Newer(c, d)}) < BatchLimit}

SelectBackupRetention(policy, inventory) == Batch(Eligible(policy, inventory))

-----------------------------------------------------------------------------
(* The rule without loops, clamps or sorting. *)
NewerThan(inventory, c) ==
    {d \in inventory : d.loc = c.loc /\ d.avail # "deleted" /\ Newer(d, c)}

RuleMatches(limits, inventory, c) ==
    LET newer == NewerThan(inventory, c)
        first == CHOOSE d \in newer \cup {c} : NewerThan(inventory, d) = {}
        sum   == MapThenSumSet(LAMBDA d : d.bytes, newer \ {first})
    IN  \/ limits.count > 0 /\ Cardinality(newer) >= limits.count
        \/ limits.days > 0 /\ first.at - c.at > limits.days
        \/ limits.bytes > 0 /\ newer # {} /\ sum > limits.bytes

Expected(policy, inventory) ==
    {c \in inventory :
        /\ policy.enabled /\ c.avail = "available" /\ c.reasons = {}
        /\ RuleMatches(policy[c.loc], inventory, c)
        /\ NewerThan(inventory, c) # {}
        /\ \E d \in NewerThan(inventory, c) : d.avail \in {"available", "unproven"}}

-----------------------------------------------------------------------------
CONSTANTS
    Policies,        \* the policies an owner may save
    Arrivals,        \* the copies that may be registered: loc, at, bytes, avail, reasons
    MaxChanges       \* how often the owner changes the policy

VARIABLES inventory, policy, changes

vars == <<inventory, policy, changes>>

Init ==
    /\ inventory = {}
    /\ policy \in Policies
    /\ changes = 0

SaveDatabaseBackupRetention(p) ==
    /\ changes < MaxChanges /\ p # policy
    /\ policy' = p /\ changes' = changes + 1
    /\ UNCHANGED inventory

(* A copy is registered with the time of its backup, so a late upload may  *)
(* enter behind newer ones; an adopted object is never proven to be ours.  *)
Register(a) ==
    /\ Cardinality(inventory) < IdMax
    /\ inventory' = inventory \cup {a @@ [id |-> Cardinality(inventory) + 1]}
    /\ UNCHANGED <<policy, changes>>

(* An interrupted deletion leaves its copy uncertain. *)
SetDatabaseBackupCopyAvailability(c) ==
    /\ c \in SelectBackupRetention(policy, inventory)
    /\ inventory' = (inventory \ {c}) \cup {[c EXCEPT !.avail = "uncertain"]}
    /\ UNCHANGED <<policy, changes>>

Retire ==
    /\ SelectBackupRetention(policy, inventory) # {}
    /\ inventory' = {IF c \in SelectBackupRetention(policy, inventory)
                     THEN [c EXCEPT !.avail = "deleted"] ELSE c : c \in inventory}
    /\ UNCHANGED <<policy, changes>>

Next ==
    \/ \E p \in Policies : SaveDatabaseBackupRetention(p)
    \/ \E a \in Arrivals : Register(a)
    \/ \E c \in inventory : SetDatabaseBackupCopyAvailability(c)
    \/ Retire

Spec == Init /\ [][Next]_vars

-----------------------------------------------------------------------------
Usable(loc) == {c \in inventory : c.loc = loc /\ c.avail \in {"available", "unproven"}}

(* The loops of the selection, with their order, their clamped sum and     *)
(* their two protections, choose exactly what the guide's rule describes,  *)
(* oldest first when the batch limit cuts it.                              *)
SelectionIsTheRule ==
    LET expected == Expected(policy, inventory)
        chosen   == SelectBackupRetention(policy, inventory)
    IN  /\ chosen \subseteq expected
        /\ Cardinality(chosen) = Min({Cardinality(expected), BatchLimit})
        /\ \A c \in chosen, d \in expected \ chosen : Newer(d, c)

(* No sequence of policies, publications and interrupted deletions costs a *)
(* location its newest usable copy.                                        *)
NewestCopySurvives ==
    [][\A loc \in Locations : \A c \in Usable(loc) :
           (\A d \in Usable(loc) : d = c \/ Newer(c, d)) => c \in Usable(loc)']_vars
=============================================================================
