-------------------------- MODULE MCSandboxRenewal --------------------------
(* Small instances of SandboxRenewal for TLC. *)
EXTENDS SandboxRenewal, TLC

CONSTANTS q1, q2, o, b1, b2, w1, w2, w3

\* Two requests of one browser in two processes; another browser is opened.
TwoOfOne == [r \in Requests |-> IF r \in {q1, q2} THEN b1 ELSE b2]
Spread   == [r \in Requests |-> IF r = q1 THEN w1 ELSE IF r = q2 THEN w2 ELSE w3]

\* The two requests differ in their process only, and no state names one.
Symmetry == Permutations({q1, q2})
=============================================================================
