------------------------- MODULE MCDesktopLifecycle -------------------------
(* Small instances of DesktopLifecycle for TLC. *)
EXTENDS DesktopLifecycle, TLC

CONSTANTS r1, a1, a2, s1, c1

\* The action of the instance belongs to one chat session.
OneHome == [r \in Runs |-> c1]

Agreeing == [v \in Verifications |-> {TerminalWhenExecuting(v)}]

Symmetry == Permutations(Attempts)
=============================================================================
