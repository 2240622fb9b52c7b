---------------------------- MODULE MCRunLeases ----------------------------
(* A generic and a build run, or a deployment's run and the one of its     *)
(* rollback, with two runners.  Runs of both pairs are not explored        *)
(* together.                                                               *)
EXTENDS RunLeases, TLC

CONSTANTS r1, r2, d1, d2, n1, n2, k1, k2

(* One runner may not execute the build, nor the rollback. *)
OneExcluded == (Runner \X Run) \ {<<n2, r2>>, <<n2, d2>>}

KeySymmetry == Permutations({k1, k2})

OnePair ==
    LET created == {r \in Run : runStatus[r] # "absent"}
    IN  created \subseteq {r1, r2} \/ created \subseteq {d1, d2}
=============================================================================
