---------------------------- MODULE MCWorkerSync ----------------------------
EXTENDS WorkerSync, TLC

CONSTANTS n1, u1, v1, v2, r1, r2

\* A notice and an update.
TwoBoards == (n1 :> "NOTICE") @@ (u1 :> "UPDATE")

TwoRunners == {r1, r2}
TwoContents == {v1, v2}
Symmetry == Permutations(TwoRunners) \cup Permutations(TwoContents)
=============================================================================
