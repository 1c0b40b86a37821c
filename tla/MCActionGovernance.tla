------------------------- MODULE MCActionGovernance -------------------------
(* Small instances of ActionGovernance for TLC. *)
EXTENDS ActionGovernance, TLC

CONSTANTS r1, r2, a1, a2, s1, s2, c1

\* All actions of the instance belong to one chat session.
OneHome == [r \in Runs |-> c1]

\* A port that proposes what the coordinator derives for an executing run (the
\* port of the repository's tests), and one that may also propose otherwise.
Agreeing == [v \in Verifications |-> {TerminalWhenExecuting(v)}]
Disagreeing == [v \in Verifications |->
    Agreeing[v] \cup {"recovered", "outcome_unknown"}]

Symmetry == Permutations(Attempts) \cup Permutations(Scanners)
=============================================================================
