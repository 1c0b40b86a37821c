---------------------------- MODULE DesktopLifecycle ----------------------------
(***************************************************************************)
(* Session cancellation and deletion on the desktop build, whose database  *)
(* is SQLite: FOR UPDATE is ignored and a transaction takes the write lock *)
(* at its first UPDATE, so the rows the two requests SELECT may change     *)
(* before they write.  They write ORM objects back by primary key, with    *)
(* the versions and generations they read.  Every other transaction of     *)
(* ActionGovernance starts with an UPDATE and is atomic here too.          *)
(***************************************************************************)
EXTENDS ActionGovernance

\* The abort or delete request in flight (bound: one at a time) and the rows
\* its SELECT returned.
VARIABLE request

NoRequest == [kind |-> "none", session |-> None, runs |-> <<>>, tickets |-> <<>>]

desktopVars == <<vars, request>>

DesktopInit == Init /\ request = NoRequest

SelectRunsToCancel(session) ==
    LET hit == {r \in RunsOf(session) :
                    run[r].status \in CANCELLABLE_RUN_STATUSES}
    IN
    /\ request = NoRequest
    /\ session \in sessions
    /\ hit # {}
    /\ request' = [NoRequest EXCEPT !.kind = "cancel", !.session = session,
                                    !.runs = [r \in hit |-> run[r]]]
    /\ UNCHANGED vars

\* Only attributes that differ from what was loaded are written: a lease that
\* was NULL when read is left as it is.
FlushCancel ==
    LET read == request.runs IN
    /\ request.kind = "cancel"
    /\ run' = [r \in Runs |->
            IF r \in DOMAIN read
            THEN LET new == Cancelled(read[r]) IN
                 [run[r] EXCEPT !.status = new.status,
                                !.generation = new.generation,
                                !.version = new.version,
                                !.owner = IF read[r].owner = None THEN @ ELSE None,
                                !.lease = IF read[r].owner = None THEN @ ELSE 0]
            ELSE run[r]]
    /\ request' = NoRequest
    /\ UNCHANGED <<clock, sessions, ticket, object, attempt, scanner>>

SelectTicketsToDelete(session) ==
    /\ request = NoRequest
    /\ session \in sessions
    /\ request' = [NoRequest EXCEPT !.kind = "delete", !.session = session,
                        !.tickets = [r \in RunsOf(session) |-> ticket[r]]]
    /\ UNCHANGED vars

\* The revocations are flushed before the runs are read, which takes the write
\* lock; without a revocation no ticket read can still start its run.
FlushDelete ==
    LET read == request.tickets
        active == \E r \in DOMAIN read :
                    \/ read[r].status = "reserved"
                    \/ run[r].status \in RUN_BLOCKING_STATUSES
        written(r) ==
            IF Revoked(read[r]) = read[r] THEN ticket[r]
            ELSE [ticket[r] EXCEPT !.status = "revoked",
                                   !.version = Revoked(read[r]).version]
    IN
    /\ request.kind = "delete"
    /\ request' = NoRequest
    /\ IF active \/ request.session \notin sessions
       THEN UNCHANGED <<ticket, sessions>>
       ELSE /\ sessions' = sessions \ {request.session}
            /\ ticket' = [r \in Runs |->
                    CASE r \in DOMAIN read -> [written(r) EXCEPT !.session = None]
                      [] r \in RunsOf(request.session) \ DOMAIN read ->
                            [ticket[r] EXCEPT !.session = None] \* ON DELETE SET NULL
                      [] OTHER -> ticket[r]]
    /\ UNCHANGED <<clock, run, object, attempt, scanner>>

\* The client goes away between the SELECT and the write.
DropRequest ==
    /\ request # NoRequest
    /\ request' = NoRequest
    /\ UNCHANGED vars

DesktopNext ==
    \/ /\ \/ Tick
          \/ CreationStep
          \/ \E a \in Attempts : AttemptStep(a)
          \/ \E s \in Scanners : ScannerStep(s)
          \/ \E r \in Runs : cancel_action_run(r)
       /\ UNCHANGED request
    \/ \E session \in Sessions : \/ SelectRunsToCancel(session)
                                 \/ SelectTicketsToDelete(session)
    \/ FlushCancel
    \/ FlushDelete
    \/ DropRequest

DesktopSpec == DesktopInit /\ [][DesktopNext]_desktopVars

-----------------------------------------------------------------------------
\* What survives without row locks: an action is still called by one attempt
\* only, because every CAS that leads to the call starts its transaction.
DesktopOneGovernedCall == OneGovernedCall

\* NOT what the desktop build does (see the README): a closed row is immutable.
DesktopClosedRunsStay ==
    [][\A r \in Runs : run[r].status \in ClosedStatuses =>
            run'[r] = run[r]]_desktopVars
=============================================================================
