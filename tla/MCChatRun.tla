------------------------------ MODULE MCChatRun ------------------------------
(* Small instances of ChatRun for TLC. *)
EXTENDS ChatRun, TLC

CONSTANTS m1, m2

\* One run of two events, to tell an order, and one of a single event.
UnequalRuns == m1 :> 2 @@ m2 :> 1
=============================================================================
