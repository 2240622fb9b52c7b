--------------------------- MODULE MCDeployments ---------------------------
(* Two requests, and their rollbacks, in one environment. *)
EXTENDS Deployments, TLC

CONSTANTS d1, d2, c1, c2, env, v1, v2, n1, n2, t1

OneRollbackEach == c1 :> d1 @@ c2 :> d2

OneEnvironment == [d \in {d1, d2, c1, c2} |-> env]

NoSelector == env :> {}

NoTags == n1 :> {}

EveryRunner == Runner \X Run

(* With a selector: n1 has the tag it names, n2 has none. *)
OneSelector == env :> {t1}

OneSelectedRunner == n1 :> {t1} @@ n2 :> {}

CoveringRunners == ({n1} \X Run) \cup ({n2} \X Child)

(* The environment starts new, or healthy with the only resolved revision. *)
MCInit == DInit /\ \A v \in resolved : healthy[env] = v

MCSpec == MCInit /\ [][DNext]_dVars

(* A dead runner only stops taking steps, so what follows its death adds   *)
(* no step that a slow runner's behaviours do not have.                    *)
NobodyDead == dead = {}

Symmetry == Permutations({v1, v2})
=============================================================================
