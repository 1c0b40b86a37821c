--------------------------- MODULE MCLocalRuntime ---------------------------
EXTENDS LocalRuntime, TLC
CONSTANTS i1, i2, app1, m1, m2, t1, t2, p1, p2
\* Two generations of one application.
OneApp == i1 :> app1 @@ i2 :> app1
\* Requests for either are made by any thread, and any pid may be given.
Symmetry == UNION {Permutations(S) : S \in {Managers, Threads, Pids, Instances}}
=============================================================================
