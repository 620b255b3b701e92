---------------------------- MODULE MCDeployment ---------------------------
(* Two commits: the first creates two resources, the second replaces one of  *)
(* them, deletes the other and changes an output.                            *)
EXTENDS Deployment, TLC

CONSTANTS r1, r2, a, b

Symmetry == Permutations(Run)

TheAddress == (r1 :> "r1") @@ (r2 :> "r2")

TheReplaces == {<<a, b>>}

TheConfig ==
    <<(r1 :> a) @@ (r2 :> a), (r1 :> b) @@ (r2 :> Absent)>>

TheOutput == <<a, b>>
===========================================================================
