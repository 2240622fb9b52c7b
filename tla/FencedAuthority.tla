--------------------------- MODULE FencedAuthority ---------------------------
(***************************************************************************)
(* What the lease protocol promises, without leases, deadlines or rows: a  *)
(* run has at most one holder, every grant starts a new generation, a run  *)
(* is closed only in the step that takes it from its holder, and a closed  *)
(* run is never granted again.                                             *)
(***************************************************************************)
EXTENDS Naturals

CONSTANTS Run, Runner, NoRunner, MaxAttempt

VARIABLES holder,      \* who may report for the run
          generation,  \* grants so far
          closed       \* runs that have ended

avars == <<holder, generation, closed>>

Init ==
    /\ holder = [r \in Run |-> NoRunner]
    /\ generation = [r \in Run |-> 0]
    /\ closed = {}

Held == {r \in Run : holder[r] # NoRunner}

Without(S) == [r \in Run |-> IF r \in S THEN NoRunner ELSE holder[r]]

(* The runs of S lose their holders and those of C end.  A held run may    *)
(* end only if its holder loses it in the same step.                       *)
Withdraw(S, C) ==
    /\ S \subseteq Held
    /\ C \subseteq Run \ closed
    /\ C \cap Held \subseteq S
    /\ holder' = Without(S)
    /\ closed' = closed \cup C
    /\ UNCHANGED generation

(* After the runs of S were taken back, and those of C ended, r is granted. *)
Grant(S, C, r, n) ==
    /\ S \subseteq Held
    /\ C \subseteq S \ {r}
    /\ r \notin closed
    /\ r \notin Held \ S
    /\ generation[r] < MaxAttempt
    /\ holder' = [Without(S) EXCEPT ![r] = n]
    /\ generation' = [generation EXCEPT ![r] = @ + 1]
    /\ closed' = closed \cup C

Next ==
    \/ \E S, C \in SUBSET Run : Withdraw(S, C)
    \/ \E S, C \in SUBSET Run, r \in Run, n \in Runner : Grant(S, C, r, n)

Spec == Init /\ [][Next]_avars
=============================================================================
