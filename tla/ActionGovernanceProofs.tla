----------------------- MODULE ActionGovernanceProofs -----------------------
(***************************************************************************)
(* Theorems about ActionGovernance, for every set of actions, attempts,    *)
(* scanners and sessions: types; what a step can do to a row, and the      *)
(* safety properties that follow; recovery; and that the whole implements  *)
(* ActionContract.  At the end, what is left of them for DesktopLifecycle, *)
(* where no row is locked.                                                 *)
(***************************************************************************)
EXTENDS DesktopLifecycle, TLAPS

-----------------------------------------------------------------------------
\* What each write makes of a row.  Later proofs use these facts and never
\* expand the writes themselves.

\* A transition of a ticket sets its status and keeps its session.
LEMMA StampedRow ==
    ASSUME NEW row \in TicketRows, NEW status \in TicketStatuses
    PROVE  /\ Stamped(row, status) \in TicketRows
           /\ Stamped(row, status).status = status
           /\ Stamped(row, status).version = row.version + 1
           /\ Stamped(row, status).session = row.session
  <1>1. ASSUME NEW v \in Nat
        PROVE  [row EXCEPT !.status = status, !.version = v] \in TicketRows
    BY DEF TicketRows
  <1>2. row.version + 1 \in Nat
    BY DEF TicketRows
  <1> QED
    BY <1>1, <1>2 DEF Stamped, TicketRows

\* Starting a run makes the attempt its lease owner.
LEMMA ExecutingRow ==
    ASSUME TypeOK, NEW row \in RunRows, NEW a \in Attempts
    PROVE  /\ Executing(row, a) \in RunRows
           /\ Executing(row, a).status = "executing"
           /\ Executing(row, a).version = row.version + 1
           /\ Executing(row, a).owner = a
           /\ Executing(row, a).generation = row.generation + 1
           /\ Executing(row, a).recovery = row.recovery
           /\ Executing(row, a).seen = row.seen
  <1>1. ASSUME NEW g \in Nat, NEW l \in Nat, NEW v \in Nat
        PROVE  [row EXCEPT !.status = "executing", !.version = v,
                           !.generation = g, !.owner = a, !.lease = l] \in RunRows
    BY DEF RunRows, RunStatuses, ActiveStatuses
  <1>2. /\ row.version + 1 \in Nat /\ row.generation + 1 \in Nat
        /\ attempt[a].now + ExecLease \in Nat
    BY ConstantsAssumption DEF TypeOK, RunRows, AttemptStates
  <1> QED
    BY <1>1, <1>2 DEF Executing, RunRows

\* Closing a run writes its status and observation and nothing else that
\* another process compares.
LEMMA ClosedRow ==
    ASSUME NEW row \in RunRows, NEW status \in RunStatuses,
           NEW seen \in Observations \cup {None}
    PROVE  /\ Closed(row, status, seen) \in RunRows
           /\ Closed(row, status, seen).status = status
           /\ Closed(row, status, seen).version = row.version + 1
           /\ Closed(row, status, seen).owner = row.owner
           /\ Closed(row, status, seen).generation = row.generation
           /\ Closed(row, status, seen).recovery = row.recovery
           /\ Closed(row, status, seen).seen = seen
  <1>1. ASSUME NEW v \in Nat
        PROVE  [row EXCEPT !.status = status, !.version = v, !.seen = seen,
                           !.late = FALSE] \in RunRows
    BY DEF RunRows
  <1>2. row.version + 1 \in Nat
    BY DEF RunRows
  <1> QED
    BY <1>1, <1>2 DEF Closed, RunRows

\* Cancelling a run takes its lease and its generation away.
LEMMA CancelledRow ==
    ASSUME NEW row \in RunRows
    PROVE  /\ Cancelled(row) \in RunRows
           /\ Cancelled(row).status =
                IF row.status = "executing" THEN "outcome_unknown" ELSE "aborted"
           /\ Cancelled(row).version = row.version + 1
           /\ Cancelled(row).owner = None
           /\ Cancelled(row).generation = row.generation + 1
           /\ Cancelled(row).recovery = row.recovery
           /\ Cancelled(row).seen = row.seen
  <1>1. ASSUME NEW status \in RunStatuses, NEW v \in Nat, NEW g \in Nat
        PROVE  [row EXCEPT !.status = status, !.version = v, !.generation = g,
                           !.owner = None, !.lease = 0] \in RunRows
    BY DEF RunRows
  <1>2. "aborted" \in RunStatuses /\ "outcome_unknown" \in RunStatuses
    BY DEF RunStatuses, TERMINAL_RUN_STATUSES
  <1>3. row.version + 1 \in Nat /\ row.generation + 1 \in Nat
    BY DEF RunRows
  <1> QED
    BY <1>1, <1>2, <1>3 DEF Cancelled, RunRows

\* Claiming a run changes who recovers it and until when.
LEMMA ClaimedRow ==
    ASSUME TypeOK, NEW row \in RunRows, NEW s \in Scanners
    PROVE  /\ Claimed(row, s) \in RunRows
           /\ Claimed(row, s).status = row.status
           /\ Claimed(row, s).version = row.version + 1
           /\ Claimed(row, s).owner = row.owner
           /\ Claimed(row, s).generation = row.generation
           /\ Claimed(row, s).recovery = s
           /\ Claimed(row, s).seen = row.seen
  <1>1. ASSUME NEW v \in Nat, NEW l \in Nat
        PROVE  [row EXCEPT !.version = v, !.recovery = s,
                           !.recoveryLease = l] \in RunRows
    BY DEF RunRows
  <1>2. row.version + 1 \in Nat /\ clock + RecoveryLease \in Nat
    BY ConstantsAssumption DEF TypeOK, RunRows
  <1> QED
    BY <1>1, <1>2 DEF Claimed, RunRows

\* The late marker leaves everything but the version as it is.
LEMMA MarkedRow ==
    ASSUME NEW row \in RunRows
    PROVE  /\ Marked(row) \in RunRows
           /\ Marked(row).status = row.status
           /\ Marked(row).version = row.version + 1
           /\ Marked(row).owner = row.owner
           /\ Marked(row).generation = row.generation
           /\ Marked(row).recovery = row.recovery
           /\ Marked(row).seen = row.seen
  <1>1. ASSUME NEW v \in Nat
        PROVE  [row EXCEPT !.version = v, !.late = TRUE] \in RunRows
    BY DEF RunRows
  <1>2. row.version + 1 \in Nat
    BY DEF RunRows
  <1> QED
    BY <1>1, <1>2 DEF Marked, RunRows

\* A persisted terminal candidate changes the observation and the version.
LEMMA NotedRow ==
    ASSUME NEW row \in RunRows, NEW seen \in Observations \cup {None}
    PROVE  /\ Noted(row, seen) \in RunRows
           /\ Noted(row, seen).status = row.status
           /\ Noted(row, seen).version = row.version + 1
           /\ Noted(row, seen).owner = row.owner
           /\ Noted(row, seen).generation = row.generation
           /\ Noted(row, seen).recovery = row.recovery
           /\ Noted(row, seen).seen = seen
  <1>1. ASSUME NEW v \in Nat
        PROVE  [row EXCEPT !.version = v, !.seen = seen] \in RunRows
    BY DEF RunRows
  <1>2. row.version + 1 \in Nat
    BY DEF RunRows
  <1> QED
    BY <1>1, <1>2 DEF Noted, RunRows

-----------------------------------------------------------------------------
\* Types.

\* The state of one attempt is well formed.
AttemptOK(new) ==
    /\ new \in AttemptStates
    /\ new.pc # "idle" => new.run \in Runs
    /\ new.pc = "completing" => new.result \in {"succeeded", "failed"}

\* The state of one scanner is well formed.
ScannerOK(new) ==
    /\ new \in ScannerStates
    /\ new.pc \in {"claimed", "verified", "recovering", "persisted"} =>
            new.cand \in Candidates
    /\ new.pc \in {"verified", "recovering", "persisted"} =>
            new.found \in Observations
    /\ new.pc \in {"verified", "persisted"} => new.writes \in Outcomes

RowsOK ==
    /\ clock \in Nat
    /\ sessions \subseteq Sessions
    /\ ticket \in [Runs -> TicketRows]
    /\ run \in [Runs -> RunRows]
    /\ object \in [Runs -> Effects]

\* TypeOK, process by process.
LEMMA TypeOKParts ==
    TypeOK <=> /\ RowsOK
               /\ attempt \in [Attempts -> AttemptStates]
               /\ \A a \in Attempts : AttemptOK(attempt[a])
               /\ scanner \in [Scanners -> ScannerStates]
               /\ \A s \in Scanners : ScannerOK(scanner[s])
  BY DEF TypeOK, RowsOK, AttemptOK, ScannerOK, Claiming

\* A step of one attempt has to type the rows and that attempt.
LEMMA AttemptTyped ==
    ASSUME TypeOK, RowsOK', UNCHANGED scanner,
           NEW a \in Attempts, NEW new, AttemptOK(new),
           attempt' = [attempt EXCEPT ![a] = new]
    PROVE  TypeOK'
  BY TypeOKParts DEF TypeOK, RowsOK, AttemptOK, Claiming

\* A step of one scanner has to type the rows and that scanner.
LEMMA ScannerTyped ==
    ASSUME TypeOK, RowsOK', UNCHANGED attempt,
           NEW s \in Scanners, NEW new, ScannerOK(new),
           scanner' = [scanner EXCEPT ![s] = new]
    PROVE  TypeOK'
  BY TypeOKParts DEF TypeOK, RowsOK, ScannerOK, Claiming

\* What is derived, and what is persisted of an observation.
LEMMA DerivedType ==
    ASSUME NEW status, NEW v \in Verifications
    PROVE  DerivedTerminal(status, v) \in Outcomes
  BY DEF DerivedTerminal, TerminalWhenExecuting, TerminalWhenUnknown,
         TerminalWhenPartial, Outcomes, TERMINAL_RUN_STATUSES

LEMMA ReadingType ==
    ASSUME NEW v \in Verifications, NEW terminal \in Outcomes
    PROVE  Reading(v, terminal) \in Observations
  BY DEF Reading, Observations

LEMMA NoticedType ==
    ASSUME NEW status, NEW v \in Verifications, NEW p \in Outcomes
    PROVE  Noticed(status, v, p) \in Observations
  BY DerivedType, ReadingType DEF Noticed

LEMMA RecoveredType ==
    ASSUME NEW v, NEW p
    PROVE  TerminalWhenRecovered(v, p) \in {"recovered", "recovery_blocked"} \cap Outcomes
  BY DEF TerminalWhenRecovered, Outcomes, TERMINAL_RUN_STATUSES

\* Moving on to the next candidate is always well typed.
LEMMA ToNextType ==
    ASSUME TypeOK, NEW s \in Scanners
    PROVE  ScannerOK(ToNext(s))
  BY DEF TypeOK, ScannerOK, ToNext, ScannerStates, ScannerPCs

\* The initial state is well typed.
LEMMA InitType == Init => TypeOK
  BY DEF Init, TypeOK, NoTicket, NoRun, IdleAttempt, IdleScanner, TicketRows,
         RunRows, AttemptStates, ScannerStates, Claiming, TicketStatuses,
         RunStatuses, Effects, AttemptPCs, ScannerPCs

\* Creation, cancellation and deletion write well-typed rows.
LEMMA LifecycleType ==
    ASSUME TypeOK, Tick \/ CreationStep \/ LifecycleStep
    PROVE  TypeOK'
  <1>1. SUFFICES RowsOK' /\ UNCHANGED <<attempt, scanner>>
    BY TypeOKParts DEF TypeOK, RowsOK, Claiming
  <1>2. UNCHANGED <<attempt, scanner>>
    BY DEF Tick, CreationStep, LifecycleStep, CreateAction, confirm_ticket,
           cancel_action_run, cancel_session_action_runs, delete_session_with_guard
  <1>3. RowsOK
    BY TypeOKParts
  <1>4. CASE Tick
    BY <1>3, <1>4 DEF Tick, RowsOK
  <1>5. ASSUME NEW r \in Runs, NEW status \in {"issued", "authorized"},
               CreateAction(r, status)
        PROVE  RowsOK'
    <2>1. [status |-> status, session |-> Home[r],
           version |-> IF status = "issued" THEN 0 ELSE 1,
           expires |-> clock + TicketTTL] \in TicketRows
      BY <1>3, ConstantsAssumption DEF RowsOK, TicketRows, TicketStatuses
    <2>2. [run[r] EXCEPT !.status = "authorized"] \in RunRows
      BY <1>3 DEF RowsOK, RunRows, RunStatuses, ActiveStatuses
    <2> QED
      BY <1>3, <1>5, <2>1, <2>2 DEF CreateAction, RowsOK
  <1>6. ASSUME NEW r \in Runs, confirm_ticket(r)
        PROVE  RowsOK'
    BY <1>3, <1>6, StampedRow DEF confirm_ticket, RowsOK, TicketStatuses
  <1>7. ASSUME NEW r \in Runs, cancel_action_run(r)
        PROVE  RowsOK'
    BY <1>3, <1>7, CancelledRow DEF cancel_action_run, RowsOK
  <1>8. ASSUME NEW session \in Sessions, cancel_session_action_runs(session)
        PROVE  RowsOK'
    BY <1>3, <1>8, CancelledRow DEF cancel_session_action_runs, RowsOK
  <1>9. ASSUME NEW session \in Sessions, delete_session_with_guard(session)
        PROVE  RowsOK'
    <2>1. ASSUME NEW row \in TicketRows
          PROVE  [Revoked(row) EXCEPT !.session = None] \in TicketRows
      <3>1. Revoked(row) \in TicketRows
        BY StampedRow DEF Revoked, TicketStatuses
      <3> QED
        BY <3>1 DEF TicketRows
    <2> QED
      BY <1>3, <1>9, <2>1 DEF delete_session_with_guard, RowsOK
  <1> QED
    BY <1>2, <1>4, <1>5, <1>6, <1>7, <1>8, <1>9 DEF CreationStep, LifecycleStep

\* Every step of an attempt is well typed.
LEMMA AttemptType ==
    ASSUME TypeOK, NEW a \in Attempts, AttemptStep(a)
    PROVE  TypeOK'
  <1> DEFINE r == attempt[a].run
             me == attempt[a]
  <1>1. RowsOK /\ AttemptOK(me) /\ me \in AttemptStates
    BY TypeOKParts
  <1>2. me.pc # "idle" => r \in Runs
    BY <1>1 DEF AttemptOK
  <1>3. ASSUME NEW pc \in AttemptPCs \ {"idle", "completing"}, me.pc # "idle",
               Goto(a, pc), RowsOK', UNCHANGED scanner
        PROVE  TypeOK'
    <2>1. AttemptOK([me EXCEPT !.pc = pc])
      BY <1>1, <1>2, <1>3 DEF AttemptOK, AttemptStates
    <2>2. attempt' = [attempt EXCEPT ![a] = [me EXCEPT !.pc = pc]]
      BY <1>3 DEF Goto
    <2> QED
      BY <1>3, <2>1, <2>2, AttemptTyped
  <1>4. ASSUME NEW q \in Runs, Enter(a, q)
        PROVE  TypeOK'
    <2> DEFINE new == [me EXCEPT !.pc = "entered", !.run = q, !.now = clock,
                                 !.tver = ticket[q].version,
                                 !.rver = run[q].version]
    <2>1. /\ clock \in Nat /\ ticket[q].version \in Nat /\ run[q].version \in Nat
      BY <1>1 DEF RowsOK, TicketRows, RunRows
    <2>2. AttemptOK(new)
      BY <1>1, <2>1 DEF AttemptOK, AttemptStates, AttemptPCs
    <2>3. attempt' = [attempt EXCEPT ![a] = new] /\ RowsOK' /\ UNCHANGED scanner
      BY <1>1, <1>4 DEF Enter, RowsOK
    <2> QED
      BY <2>2, <2>3, AttemptTyped
  <1>5. ASSUME NEW pc \in {"fence", "unknown"}, ReserveTicketAndRun(a, pc)
        PROVE  TypeOK'
    <2> DEFINE new == [me EXCEPT !.pc = pc, !.generation = run[r].generation + 1]
    <2>1. r \in Runs
      BY <1>2, <1>5 DEF ReserveTicketAndRun
    <2>2. run[r] \in RunRows /\ ticket[r] \in TicketRows
      BY <1>1, <2>1 DEF RowsOK
    <2>3. run[r].generation + 1 \in Nat
      BY <2>2 DEF RunRows
    <2>4. AttemptOK(new)
      BY <1>1, <2>1, <2>3 DEF AttemptOK, AttemptStates, AttemptPCs
    <2>5. Executing(run[r], a) \in RunRows /\ Stamped(ticket[r], "reserved") \in TicketRows
      BY <2>2, ExecutingRow, StampedRow DEF TicketStatuses
    <2>6. attempt' = [attempt EXCEPT ![a] = new] /\ RowsOK' /\ UNCHANGED scanner
      BY <1>1, <1>5, <2>1, <2>5 DEF ReserveTicketAndRun, RowsOK
    <2> QED
      BY <2>4, <2>6, AttemptTyped
  <1>6. CASE ReserveRolledBack(a)
    <2> DEFINE new == [me EXCEPT !.pc = "unknown",
                                 !.generation = run[r].generation + 1]
    <2>1. r \in Runs
      BY <1>2, <1>6 DEF ReserveRolledBack
    <2>2. run[r].generation + 1 \in Nat
      BY <1>1, <2>1 DEF RowsOK, RunRows
    <2>3. AttemptOK(new)
      BY <1>1, <2>1, <2>2 DEF AttemptOK, AttemptStates, AttemptPCs
    <2>4. attempt' = [attempt EXCEPT ![a] = new] /\ RowsOK' /\ UNCHANGED scanner
      BY <1>1, <1>6 DEF ReserveRolledBack, RowsOK
    <2> QED
      BY <2>3, <2>4, AttemptTyped
  <1>7. CASE ReserveConflict(a)
    BY <1>1, <1>3, <1>7 DEF ReserveConflict, RowsOK, AttemptPCs
  <1>8. CASE ResolveCommit(a)
    <2>1. RowsOK' /\ UNCHANGED scanner /\ me.pc # "idle"
      BY <1>1, <1>8 DEF ResolveCommit, RowsOK
    <2>2. \E pc \in AttemptPCs \ {"idle", "completing"} : Goto(a, pc)
      BY <1>8 DEF ResolveCommit, AttemptPCs
    <2> QED
      BY <1>3, <2>1, <2>2
  <1>9. CASE AssertFence(a)
    <2> DEFINE new == IF FenceHolds(a)
                      THEN [me EXCEPT !.pc = "cleared"]
                      ELSE [me EXCEPT !.pc = "completing", !.result = "failed"]
    <2>1. r \in Runs
      BY <1>2, <1>9 DEF AssertFence
    <2>2. AttemptOK(new)
      BY <1>1, <2>1 DEF AttemptOK, AttemptStates, AttemptPCs
    <2>3. attempt' = [attempt EXCEPT ![a] = new] /\ RowsOK' /\ UNCHANGED scanner
      BY <1>1, <1>9 DEF AssertFence, RowsOK
    <2> QED
      BY <2>2, <2>3, AttemptTyped
  <1>10. CASE CallGoverned(a) \/ CallLegacy(a)
    <2>1. PICK pc \in {"running", "done"}, called \in {"governed", "legacy"} :
            attempt' = [attempt EXCEPT ![a] =
                            [me EXCEPT !.pc = pc, !.called = called]]
      BY <1>10 DEF CallGoverned, CallLegacy
    <2>2. r \in Runs
      BY <1>2, <1>10 DEF CallGoverned, CallLegacy
    <2>3. AttemptOK([me EXCEPT !.pc = pc, !.called = called])
      BY <1>1, <2>2 DEF AttemptOK, AttemptStates, AttemptPCs
    <2>4. RowsOK' /\ UNCHANGED scanner
      BY <1>1, <1>10 DEF CallGoverned, CallLegacy, RowsOK
    <2> QED
      BY <2>1, <2>3, <2>4, AttemptTyped
  <1>11. ASSUME NEW effect \in {"present", "partial"}, EffectLands(a, effect)
         PROVE  TypeOK'
    <2>1. RowsOK' /\ UNCHANGED scanner /\ me.pc # "idle"
      BY <1>1, <1>11 DEF EffectLands, RowsOK, Effects
    <2>2. \E pc \in AttemptPCs \ {"idle", "completing"} : Goto(a, pc)
      BY <1>11 DEF EffectLands, AttemptPCs
    <2> QED
      BY <1>3, <2>1, <2>2
  <1>12. ASSUME NEW result \in {"succeeded", "failed"}, HandlerReturns(a, result)
         PROVE  TypeOK'
    <2>1. r \in Runs
      BY <1>2, <1>12 DEF HandlerReturns
    <2>2. AttemptOK([me EXCEPT !.pc = "completing", !.result = result])
      BY <1>1, <2>1 DEF AttemptOK, AttemptStates, AttemptPCs
    <2>3. /\ attempt' = [attempt EXCEPT ![a] =
                            [me EXCEPT !.pc = "completing", !.result = result]]
          /\ RowsOK' /\ UNCHANGED scanner
      BY <1>1, <1>12 DEF HandlerReturns, RowsOK
    <2> QED
      BY <2>2, <2>3, AttemptTyped
  <1>13. ASSUME NEW told \in BOOLEAN, CompleteRun(a, told)
         PROVE  TypeOK'
    <2> DEFINE new == [me EXCEPT !.pc = "done", !.told = told]
    <2>1. r \in Runs /\ me.result \in {"succeeded", "failed"}
      BY <1>1, <1>2, <1>13 DEF CompleteRun, AttemptOK
    <2>2. AttemptOK(new)
      BY <1>1, <2>1 DEF AttemptOK, AttemptStates, AttemptPCs
    <2>3. run[r] \in RunRows /\ ticket[r] \in TicketRows
      BY <1>1, <2>1 DEF RowsOK
    <2>4. me.result \in RunStatuses /\ "consumed" \in TicketStatuses
      BY <2>1 DEF RunStatuses, TERMINAL_RUN_STATUSES, TicketStatuses
    <2>5. /\ Closed(run[r], me.result, None) \in RunRows
          /\ Stamped(ticket[r], "consumed") \in TicketRows
      BY <2>3, <2>4, ClosedRow, StampedRow
    <2>6. attempt' = [attempt EXCEPT ![a] = new] /\ RowsOK' /\ UNCHANGED scanner
      BY <1>1, <1>13, <2>1, <2>5 DEF CompleteRun, RowsOK
    <2> QED
      BY <2>2, <2>6, AttemptTyped
  <1>14. CASE CompleteMisses(a)
    <2>1. RowsOK' /\ UNCHANGED scanner /\ me.pc # "idle"
      BY <1>1, <1>14 DEF CompleteMisses, RowsOK
    <2>2. \E pc \in AttemptPCs \ {"idle", "completing"} : Goto(a, pc)
      BY <1>14 DEF CompleteMisses, AttemptPCs
    <2> QED
      BY <1>3, <2>1, <2>2
  <1>15. CASE MarkLate(a)
    <2>1. r \in Runs
      BY <1>2, <1>15 DEF MarkLate
    <2>2. run[r] \in RunRows
      BY <1>1, <2>1 DEF RowsOK
    <2>3. Marked(run[r]) \in RunRows
      BY <2>2, MarkedRow
    <2>4. RowsOK' /\ UNCHANGED scanner /\ me.pc # "idle" /\ Goto(a, "done")
      BY <1>1, <1>15, <2>1, <2>3 DEF MarkLate, RowsOK
    <2> QED
      BY <1>3, <2>4 DEF AttemptPCs
  <1>16. CASE Stop(a)
    <2>1. RowsOK' /\ UNCHANGED scanner /\ me.pc # "idle"
      BY <1>1, <1>16 DEF Stop, RowsOK
    <2>2. \E pc \in AttemptPCs \ {"idle", "completing"} : Goto(a, pc)
      BY <1>16 DEF Stop, AttemptPCs
    <2> QED
      BY <1>3, <2>1, <2>2
  <1> QED
    BY <1>4, <1>5, <1>6, <1>7, <1>8, <1>9, <1>10, <1>11, <1>12, <1>13, <1>14,
       <1>15, <1>16 DEF AttemptStep

\* Every step of a recovery scanner is well typed.
LEMMA ScannerType ==
    ASSUME TypeOK, NEW s \in Scanners, ScannerStep(s)
    PROVE  TypeOK'
  <1> DEFINE me == scanner[s]
             c == me.cand
  <1>1. RowsOK /\ ScannerOK(me) /\ me \in ScannerStates
    BY TypeOKParts
  <1>2. ScannerOK(ToNext(s)) /\ ScannerOK(IdleScanner)
    BY ToNextType DEF ScannerOK, IdleScanner, ScannerStates, ScannerPCs
  <1>3. CASE _load_candidates(s)
    <2> DEFINE rows == {r \in Runs : run[r].status \in SCANNABLE_STATUSES}
               todo == {Snapshot(r) : r \in rows}
    <2>1. ASSUME NEW r \in rows
          PROVE  Snapshot(r) \in Candidates
      BY <1>1 DEF Snapshot, Candidates, RowsOK, RunRows
    <2>2. todo \subseteq Candidates
      BY <2>1
    <2>3. ScannerOK([me EXCEPT !.pc = "scanning", !.todo = todo])
      BY <1>1, <2>2 DEF ScannerOK, ScannerStates, ScannerPCs
    <2>4. /\ scanner' = [scanner EXCEPT ![s] =
                            [me EXCEPT !.pc = "scanning", !.todo = todo]]
          /\ RowsOK' /\ UNCHANGED attempt
      BY <1>1, <1>3 DEF _load_candidates, RowsOK
    <2> QED
      BY <2>3, <2>4, ScannerTyped
  <1>4. ASSUME NEW d \in me.todo, _claim(s, d)
        PROVE  TypeOK'
    <2> DEFINE new == [me EXCEPT !.pc = "claimed", !.todo = me.todo \ {d}, !.cand = d,
                                 !.version = d.version + 1]
    <2>1. d \in Candidates /\ me.todo \ {d} \subseteq Candidates
      BY <1>1 DEF ScannerStates
    <2>2. d.run \in Runs /\ d.version + 1 \in Nat
      BY <2>1 DEF Candidates
    <2>3. ScannerOK(new)
      BY <1>1, <2>1, <2>2 DEF ScannerOK, ScannerStates, ScannerPCs
    <2>4. run[d.run] \in RunRows
      BY <1>1, <2>2 DEF RowsOK
    <2>5. Claimed(run[d.run], s) \in RunRows
      BY <2>4, ClaimedRow
    <2>6. scanner' = [scanner EXCEPT ![s] = new] /\ RowsOK' /\ UNCHANGED attempt
      BY <1>1, <1>4, <2>2, <2>5 DEF _claim, RowsOK
    <2> QED
      BY <2>3, <2>6, ScannerTyped
  <1>5. ASSUME NEW d \in me.todo, ClaimConflict(s, d)
        PROVE  TypeOK'
    <2> DEFINE rest == me.todo \ {d}
               new == [me EXCEPT !.todo = rest,
                                 !.pc = IF rest = {} THEN "idle" ELSE "scanning"]
    <2>1. rest \subseteq Candidates
      BY <1>1 DEF ScannerStates
    <2>2. ScannerOK(new)
      BY <1>1, <2>1 DEF ScannerOK, ScannerStates, ScannerPCs
    <2>3. scanner' = [scanner EXCEPT ![s] = new] /\ RowsOK' /\ UNCHANGED attempt
      BY <1>1, <1>5 DEF ClaimConflict, RowsOK
    <2> QED
      BY <2>2, <2>3, ScannerTyped
  <1>6. CASE UsePending(s)
    <2>1. c \in Candidates /\ c.seen \in Observations
      BY <1>1, <1>6 DEF UsePending, ScannerOK, IsPending, Candidates
    <2>2. c.seen.terminal \in Outcomes
      BY <2>1 DEF Observations
    <2> DEFINE new == [me EXCEPT !.pc = "persisted", !.found = c.seen,
                                 !.writes = c.seen.terminal]
    <2>3. ScannerOK(new)
      BY <1>1, <2>1, <2>2 DEF ScannerOK, ScannerStates, ScannerPCs
    <2>4. scanner' = [scanner EXCEPT ![s] = new] /\ RowsOK' /\ UNCHANGED attempt
      BY <1>1, <1>6 DEF UsePending, RowsOK
    <2> QED
      BY <2>3, <2>4, ScannerTyped
  <1>7. ASSUME NEW seen \in Observations, NEW terminal \in Outcomes, c \in Candidates
        PROVE  /\ ScannerOK([me EXCEPT !.pc = "recovering", !.found = seen])
               /\ ScannerOK([me EXCEPT !.pc = "verified", !.found = seen,
                                       !.writes = terminal])
    BY <1>1, <1>7 DEF ScannerOK, ScannerStates, ScannerPCs
  <1>8. ASSUME NEW v \in Verifications, NEW p \in Outcomes, VerifyAndClassify(s, v, p)
        PROVE  TypeOK'
    <2> DEFINE asks   == [me EXCEPT !.pc = "recovering", !.found = Reading(v, p)]
               judges == [me EXCEPT !.pc = "verified", !.found = Noticed(c.status, v, p),
                                    !.writes = DerivedTerminal(c.status, v)]
    <2>1. RowsOK' /\ UNCHANGED attempt /\ me.pc = "claimed"
      BY <1>1, <1>8 DEF VerifyAndClassify, RowsOK
    <2>2. c \in Candidates
      BY <1>1, <2>1 DEF ScannerOK
    <2>3. ScannerOK(asks) /\ ScannerOK(judges)
      BY <1>7, <2>2, ReadingType, NoticedType, DerivedType
    <2>4. \/ scanner' = [scanner EXCEPT ![s] = ToNext(s)]
          \/ scanner' = [scanner EXCEPT ![s] = asks]
          \/ scanner' = [scanner EXCEPT ![s] = judges]
      BY <1>8 DEF VerifyAndClassify
    <2> QED
      BY <1>2, <2>1, <2>3, <2>4, ScannerTyped
  <1>9. ASSUME NEW restores \in BOOLEAN, NEW v \in Verifications, NEW p \in Outcomes,
               RecoverChange(s, restores, v, p)
        PROVE  TypeOK'
    <2> DEFINE terminal == TerminalWhenRecovered(v, p)
               new      == [me EXCEPT !.pc = "verified", !.found = Reading(v, terminal),
                                      !.writes = terminal]
    <2>1. RowsOK' /\ UNCHANGED attempt /\ me.pc = "recovering"
      BY <1>1, <1>9 DEF RecoverChange, RowsOK, Effects
    <2>2. c \in Candidates
      BY <1>1, <2>1 DEF ScannerOK
    <2>3. ScannerOK(new)
      BY <1>7, <2>2, ReadingType, RecoveredType
    <2>4. scanner' = [scanner EXCEPT ![s] = new]
      BY <1>9 DEF RecoverChange
    <2> QED
      BY <2>1, <2>3, <2>4, ScannerTyped
  <1>10. CASE _persist_terminal_candidate(s)
    <2> DEFINE new == [me EXCEPT !.pc = "persisted", !.version = me.version + 1]
    <2>1. c \in Candidates /\ me.found \in Observations /\ me.writes \in Outcomes
      BY <1>1, <1>10 DEF _persist_terminal_candidate, ScannerOK
    <2>2. c.run \in Runs /\ me.version + 1 \in Nat
      BY <1>1, <2>1 DEF Candidates, ScannerStates
    <2>3. ScannerOK(new)
      BY <1>1, <2>1, <2>2 DEF ScannerOK, ScannerStates, ScannerPCs
    <2>4. run[c.run] \in RunRows
      BY <1>1, <2>2 DEF RowsOK
    <2>5. Noted(run[c.run], me.found) \in RunRows
      BY <2>1, <2>4, NotedRow
    <2>6. scanner' = [scanner EXCEPT ![s] = new] /\ RowsOK' /\ UNCHANGED attempt
      BY <1>1, <1>10, <2>2, <2>5 DEF _persist_terminal_candidate, RowsOK
    <2> QED
      BY <2>3, <2>6, ScannerTyped
  <1>11. CASE _write_terminal(s)
    <2>1. c \in Candidates /\ me.found \in Observations /\ me.writes \in Outcomes
      BY <1>1, <1>11 DEF _write_terminal, ScannerOK
    <2>2. c.run \in Runs /\ me.writes \in RunStatuses
      BY <2>1 DEF Candidates, Outcomes, RunStatuses
    <2>3. run[c.run] \in RunRows /\ ticket[c.run] \in TicketRows
      BY <1>1, <2>2 DEF RowsOK
    <2>4. /\ Closed(run[c.run], me.writes, me.found) \in RunRows
          /\ Stamped(ticket[c.run], "consumed") \in TicketRows
      BY <2>1, <2>2, <2>3, ClosedRow, StampedRow DEF TicketStatuses
    <2>5. /\ scanner' = [scanner EXCEPT ![s] = ToNext(s)]
          /\ RowsOK' /\ UNCHANGED attempt
      BY <1>1, <1>11, <2>2, <2>3, <2>4 DEF _write_terminal, RowsOK
    <2> QED
      BY <1>2, <2>5, ScannerTyped
  <1>12. CASE GiveUp(s)
    <2>1. /\ scanner' = [scanner EXCEPT ![s] = ToNext(s)]
          /\ RowsOK' /\ UNCHANGED attempt
      BY <1>1, <1>12 DEF GiveUp, RowsOK
    <2> QED
      BY <1>2, <2>1, ScannerTyped
  <1>13. CASE ScanStops(s)
    <2>1. /\ scanner' = [scanner EXCEPT ![s] = IdleScanner]
          /\ RowsOK' /\ UNCHANGED attempt
      BY <1>1, <1>13 DEF ScanStops, RowsOK
    <2> QED
      BY <1>2, <2>1, ScannerTyped
  <1> QED
    BY <1>3, <1>4, <1>5, <1>6, <1>8, <1>9, <1>10, <1>11, <1>12, <1>13
    DEF ScannerStep

\* TypeOK is inductive.
LEMMA TypeStep == TypeOK /\ [Next]_vars => TypeOK'
  <1> SUFFICES ASSUME TypeOK, [Next]_vars PROVE TypeOK'
    OBVIOUS
  <1>1. CASE Next
    BY <1>1, LifecycleType, AttemptType, ScannerType DEF Next
  <1>2. CASE UNCHANGED vars
    BY <1>2 DEF vars, TypeOK, Claiming
  <1> QED
    BY <1>1, <1>2

\* No interleaving of attempts, scanners, cancellations and deletions writes a
\* row outside its table's constraints or leaves a coroutine without a value
\* that the rest of its code reads.
THEOREM TypeCorrect == Spec => []TypeOK
  BY InitType, TypeStep, PTL DEF Spec

-----------------------------------------------------------------------------
(***************************************************************************)
(* The safety of governed actions, for every set of actions, attempts,     *)
(* scanners and sessions: the two rows agree, closed rows never change,    *)
(* one attempt calls the tool, and a reported completion stands.           *)
(* The argument has two halves.  RowMove says what any step may do to the  *)
(* rows of one action; Winner(a) says that attempt a is, or will be, the   *)
(* one that calls the tool, and a ticket that has a winner is spent.       *)
(***************************************************************************)

\* What a step other than a reservation does to the rows of one action.

\* From ticket status t and run status u to tt and uu.
StatusMove(t, u, tt, uu) ==
    \/ tt = t /\ uu = u
    \/ t = "absent" /\ tt \in {"issued", "authorized"} /\ uu = "authorized"
    \/ /\ t \in {"issued", "authorized"}
       /\ tt \in {"authorized", "revoked"}
       /\ uu = u
    \/ tt = t /\ u = "authorized" /\ uu = "aborted"
    \/ tt = t /\ u = "executing" /\ uu = "outcome_unknown"
    \/ t = "reserved" /\ tt = "consumed" /\ uu \in Outcomes
    \/ t # "reserved" /\ tt = t /\ u \in SCANNABLE_STATUSES /\ uu \in Outcomes

\* Only a run that is not closed is written, always with a new version, and
\* nobody becomes its lease owner.
RowWrite(r) ==
    /\ run'[r].owner \in {run[r].owner, None}
    /\ \/ run'[r] = run[r]
       \/ run[r].status = "absent"
       \/ /\ run[r].status \notin ClosedStatuses
          /\ run'[r].version = run[r].version + 1

RowMove(r) ==
    /\ RowWrite(r)
    /\ StatusMove(ticket[r].status, run[r].status,
                  ticket'[r].status, run'[r].status)

\* Both rows of an action are born together.
Born == \A r \in Runs : ticket[r].status = "absent" => run[r].status = "absent"

\* Rows that are left alone move trivially.
LEMMA RowStays ==
    ASSUME NEW r \in Runs, run'[r] = run[r], ticket'[r].status = ticket[r].status
    PROVE  RowMove(r)
  BY DEF RowMove, RowWrite, StatusMove

\* Creation, cancellation and deletion move rows.
LEMMA LifecycleMoves ==
    ASSUME TypeOK, Born, Tick \/ CreationStep \/ LifecycleStep, NEW r \in Runs
    PROVE  RowMove(r)
  <1> DEFINE t == ticket[r]
             u == run[r]
  <1>1. t \in TicketRows /\ u \in RunRows
    BY DEF TypeOK
  <1>2. CASE Tick
    BY <1>2, RowStays DEF Tick
  <1>3. ASSUME NEW q \in Runs, NEW status \in {"issued", "authorized"},
               CreateAction(q, status)
        PROVE  RowMove(r)
    <2>1. CASE q # r
      BY <1>3, <2>1, RowStays DEF CreateAction, TypeOK
    <2>2. CASE q = r
      <3>1. t.status = "absent" /\ u.status = "absent"
        BY <1>3, <2>2 DEF CreateAction, Born
      <3>2. ticket'[r].status = status
        BY <1>3, <2>2 DEF CreateAction, TypeOK
      <3>3. run'[r] = [u EXCEPT !.status = "authorized"]
        BY <1>3, <2>2 DEF CreateAction, TypeOK
      <3>4. run'[r].status = "authorized" /\ run'[r].owner = u.owner
        BY <1>1, <3>3 DEF RunRows
      <3> QED
        BY <3>1, <3>2, <3>4 DEF RowMove, RowWrite, StatusMove
    <2> QED
      BY <2>1, <2>2
  <1>4. ASSUME NEW q \in Runs, confirm_ticket(q)
        PROVE  RowMove(r)
    <2>1. CASE q # r
      BY <1>4, <2>1, RowStays DEF confirm_ticket, TypeOK
    <2>2. CASE q = r
      <3>1. t.status = "issued" /\ ticket'[r] = Stamped(t, "authorized")
            /\ run'[r] = u
        BY <1>4, <2>2 DEF confirm_ticket, TypeOK
      <3>2. ticket'[r].status = "authorized"
        BY <1>1, <3>1, StampedRow DEF TicketStatuses
      <3> QED
        BY <3>1, <3>2 DEF RowMove, RowWrite, StatusMove
    <2> QED
      BY <2>1, <2>2
  <1>5. ASSUME u.status \in CANCELLABLE_RUN_STATUSES, run'[r] = Cancelled(u),
               ticket'[r] = t
        PROVE  RowMove(r)
    BY <1>1, <1>5, CancelledRow
    DEF RowMove, RowWrite, StatusMove, CANCELLABLE_RUN_STATUSES, ActiveStatuses,
        ClosedStatuses
  <1>6. ASSUME NEW q \in Runs, cancel_action_run(q)
        PROVE  RowMove(r)
    <2>1. ticket'[r] = t
      BY <1>6 DEF cancel_action_run
    <2>2. CASE q # r
      BY <1>6, <2>1, <2>2, RowStays DEF cancel_action_run, TypeOK
    <2>3. CASE q = r
      BY <1>5, <1>6, <2>1, <2>3 DEF cancel_action_run, TypeOK
    <2> QED
      BY <2>2, <2>3
  <1>7. ASSUME NEW session \in Sessions, cancel_session_action_runs(session)
        PROVE  RowMove(r)
    <2>1. ticket'[r] = t
      BY <1>7 DEF cancel_session_action_runs
    <2>2. \/ run'[r] = u
          \/ u.status \in CANCELLABLE_RUN_STATUSES /\ run'[r] = Cancelled(u)
      BY <1>7 DEF cancel_session_action_runs
    <2> QED
      BY <1>5, <2>1, <2>2, RowStays
  <1>8. ASSUME NEW session \in Sessions, delete_session_with_guard(session)
        PROVE  RowMove(r)
    <2>1. run'[r] = u
      BY <1>8 DEF delete_session_with_guard
    <2>2. CASE ticket'[r] = t
      BY <2>1, <2>2, RowStays
    <2>3. CASE ticket'[r] = [Revoked(t) EXCEPT !.session = None]
      <3>1. Revoked(t) \in TicketRows
        BY <1>1, StampedRow DEF Revoked, TicketStatuses
      <3>2. ticket'[r].status = Revoked(t).status
        BY <2>3, <3>1 DEF TicketRows
      <3>3. \/ Revoked(t) = t
            \/ t.status \in {"issued", "authorized"} /\ Revoked(t).status = "revoked"
        BY <1>1, StampedRow DEF Revoked, TicketStatuses
      <3> QED
        BY <2>1, <3>2, <3>3 DEF RowMove, RowWrite, StatusMove
    <2> QED
      BY <1>8, <2>2, <2>3 DEF delete_session_with_guard
  <1> QED
    BY <1>2, <1>3, <1>4, <1>6, <1>7, <1>8 DEF CreationStep, LifecycleStep

\* So do completions and late markers of an attempt.
LEMMA AttemptMoves ==
    ASSUME TypeOK, Born, NEW a \in Attempts, AttemptStep(a), NEW r \in Runs,
           \A pc \in {"fence", "unknown"} : ~ReserveTicketAndRun(a, pc)
    PROVE  RowMove(r)
  <1> DEFINE t == ticket[r]
             u == run[r]
             q == attempt[a].run
  <1>1. t \in TicketRows /\ u \in RunRows
    BY DEF TypeOK
  <1>2. CASE UNCHANGED <<ticket, run>>
    BY <1>2, RowStays
  <1>3. ASSUME NEW told \in BOOLEAN, CompleteRun(a, told)
        PROVE  RowMove(r)
    <2>1. CASE q # r
      BY <1>3, <2>1, RowStays DEF CompleteRun, TypeOK
    <2>2. CASE q = r
      <3>1. attempt[a].result \in {"succeeded", "failed"}
        BY <1>3 DEF CompleteRun, TypeOK
      <3>2. /\ t.status = "reserved" /\ ticket'[r] = Stamped(t, "consumed")
            /\ u.status = "executing"
            /\ run'[r] = Closed(u, attempt[a].result, None)
        BY <1>3, <2>2 DEF CompleteRun, IsCurrent, TypeOK
      <3>3. attempt[a].result \in RunStatuses /\ attempt[a].result \in Outcomes
        BY <3>1 DEF Outcomes, RunStatuses, TERMINAL_RUN_STATUSES
      <3>4. ticket'[r].status = "consumed"
        BY <1>1, <3>2, StampedRow DEF TicketStatuses
      <3>5. /\ run'[r].status = attempt[a].result
            /\ run'[r].version = u.version + 1
            /\ run'[r].owner = u.owner
        BY <1>1, <3>2, <3>3, ClosedRow
      <3> QED
        BY <3>2, <3>3, <3>4, <3>5 DEF RowMove, RowWrite, StatusMove, ClosedStatuses
    <2> QED
      BY <2>1, <2>2
  <1>4. CASE MarkLate(a)
    <2>1. ticket'[r] = t
      BY <1>4 DEF MarkLate
    <2>2. CASE run'[r] = u
      BY <2>1, <2>2, RowStays
    <2>3. CASE q = r /\ TakesMarker(r) /\ run'[r] = Marked(u)
      BY <1>1, <2>1, <2>3, MarkedRow
      DEF RowMove, RowWrite, StatusMove, TakesMarker, ClosedStatuses,
          TERMINAL_RUN_STATUSES
    <2> QED
      BY <1>4, <2>2, <2>3 DEF MarkLate, TypeOK
  <1> QED
    BY <1>2, <1>3, <1>4
    DEF AttemptStep, Enter, ReserveRolledBack, ReserveConflict, ResolveCommit, Goto,
        AssertFence, CallGoverned, CallLegacy, EffectLands, HandlerReturns,
        CompleteMisses, Stop

\* And so do claims, persisted candidates and terminals of a scanner.
LEMMA ScannerMoves ==
    ASSUME TypeOK, Born, NEW s \in Scanners, ScannerStep(s), NEW r \in Runs
    PROVE  RowMove(r)
  <1> DEFINE t == ticket[r]
             u == run[r]
             c == scanner[s].cand
  <1>1. t \in TicketRows /\ u \in RunRows
    BY DEF TypeOK
  <1>2. CASE UNCHANGED <<ticket, run>>
    BY <1>2, RowStays
  <1>3. ASSUME NEW d \in scanner[s].todo, _claim(s, d)
        PROVE  RowMove(r)
    <2>1. d \in Candidates
      BY DEF TypeOK, ScannerStates
    <2>2. d.run \in Runs /\ d.status \in SCANNABLE_STATUSES
      BY <2>1 DEF Candidates
    <2>3. ticket'[r] = t
      BY <1>3 DEF _claim
    <2>4. CASE d.run # r
      BY <1>3, <2>3, <2>4, RowStays DEF _claim, TypeOK
    <2>5. CASE d.run = r
      <3>1. run'[r] = Claimed(u, s) /\ u.status \in SCANNABLE_STATUSES
        BY <1>3, <2>2, <2>5 DEF _claim, CanClaim, TypeOK
      <3> QED
        BY <1>1, <2>3, <3>1, ClaimedRow
        DEF RowMove, RowWrite, StatusMove, ClosedStatuses, SCANNABLE_STATUSES
    <2> QED
      BY <2>4, <2>5
  <1>4. ASSUME Claiming(s), HoldsClaim(s)
        PROVE  /\ c.run \in Runs
               /\ c.run = r => u.status \in SCANNABLE_STATUSES
    <2>1. c \in Candidates
      BY <1>4 DEF TypeOK
    <2> QED
      BY <1>4, <2>1 DEF Candidates, HoldsClaim
  <1>5. CASE _persist_terminal_candidate(s)
    <2>1. scanner[s].found \in Observations
      BY <1>5 DEF TypeOK, _persist_terminal_candidate
    <2>2. ticket'[r] = t
      BY <1>5 DEF _persist_terminal_candidate
    <2>3. CASE c.run # r
      BY <1>5, <2>2, <2>3, RowStays DEF _persist_terminal_candidate, TypeOK
    <2>4. CASE c.run = r
      <3>1. run'[r] = Noted(u, scanner[s].found) /\ u.status \in SCANNABLE_STATUSES
        BY <1>4, <1>5, <2>4 DEF _persist_terminal_candidate, Claiming, TypeOK
      <3> QED
        BY <1>1, <2>1, <2>2, <3>1, NotedRow
        DEF RowMove, RowWrite, StatusMove, ClosedStatuses, SCANNABLE_STATUSES
    <2> QED
      BY <2>3, <2>4
  <1>6. CASE _write_terminal(s)
    <2> DEFINE found    == scanner[s].found
               terminal == scanner[s].writes
    <2>1. found \in Observations /\ terminal \in Outcomes
      BY <1>6 DEF TypeOK, _write_terminal
    <2>2. CASE c.run # r
      BY <1>6, <2>2, RowStays DEF _write_terminal, TypeOK
    <2>3. CASE c.run = r
      <3>1. /\ run'[r] = Closed(u, terminal, found)
            /\ ticket'[r] = IF t.status = "reserved" THEN Stamped(t, "consumed")
                                                     ELSE t
            /\ u.status \in SCANNABLE_STATUSES
        BY <1>4, <1>6, <2>3 DEF _write_terminal, Claiming, TypeOK
      <3>2. terminal \in RunStatuses
        BY <2>1 DEF Outcomes, RunStatuses
      <3>3. /\ run'[r].status = terminal
            /\ run'[r].version = u.version + 1
            /\ run'[r].owner = u.owner
        BY <1>1, <2>1, <3>1, <3>2, ClosedRow
      <3>4. t.status = "reserved" => ticket'[r].status = "consumed"
        BY <1>1, <3>1, StampedRow DEF TicketStatuses
      <3>5. u.status \notin ClosedStatuses
        BY <3>1 DEF ClosedStatuses, SCANNABLE_STATUSES
      <3> QED
        BY <2>1, <3>1, <3>3, <3>4, <3>5 DEF RowMove, RowWrite, StatusMove
    <2> QED
      BY <2>2, <2>3
  <1> QED
    BY <1>2, <1>3, <1>5, <1>6
    DEF ScannerStep, _load_candidates, ClaimConflict, UsePending, VerifyAndClassify,
        RecoverChange, GiveUp, ScanStops

\* The one other write: an attempt reserves its action.
RowReserved(r, a) ==
    /\ ticket[r].status = "authorized" /\ ticket'[r].status = "reserved"
    /\ run[r].status = "authorized" /\ run'[r].status = "executing"
    /\ run'[r].owner = a
    /\ run'[r].version = run[r].version + 1

\* A reservation takes one authorized pair and leaves the other rows alone.
LEMMA ReserveMoves ==
    ASSUME TypeOK, NEW a \in Attempts, NEW pc, ReserveTicketAndRun(a, pc)
    PROVE  /\ attempt[a].run \in Runs
           /\ RowReserved(attempt[a].run, a)
           /\ \A r \in Runs \ {attempt[a].run} : RowMove(r)
  <1> DEFINE q == attempt[a].run
  <1>1. q \in Runs /\ ticket[q] \in TicketRows /\ run[q] \in RunRows
    BY DEF ReserveTicketAndRun, TypeOK
  <1>2. /\ ticket'[q] = Stamped(ticket[q], "reserved")
        /\ run'[q] = Executing(run[q], a)
    BY <1>1 DEF ReserveTicketAndRun, TypeOK
  <1>3. ticket'[q].status = "reserved"
    BY <1>1, <1>2, StampedRow DEF TicketStatuses
  <1>4. RowReserved(q, a)
    BY <1>1, <1>2, <1>3, ExecutingRow DEF RowReserved, ReserveTicketAndRun, CanReserve
  <1>5. ASSUME NEW r \in Runs \ {q}
        PROVE  RowMove(r)
    BY RowStays DEF ReserveTicketAndRun, TypeOK
  <1> QED
    BY <1>1, <1>4, <1>5

\* Every step moves the rows of an action, or is its reservation.
LEMMA EveryMove ==
    ASSUME TypeOK, RowsAgree, [Next]_vars, NEW r \in Runs
    PROVE  RowMove(r) \/ \E a \in Attempts : RowReserved(r, a)
  <1>1. CASE UNCHANGED vars
    BY <1>1, RowStays DEF vars
  <1>2. Born
    BY DEF RowsAgree, Born
  <1>3. ASSUME NEW a \in Attempts, AttemptStep(a)
        PROVE  RowMove(r) \/ RowReserved(r, a)
    BY <1>2, <1>3, AttemptMoves, ReserveMoves
  <1> QED
    BY <1>1, <1>2, <1>3, LifecycleMoves, ScannerMoves DEF Next

-----------------------------------------------------------------------------
\* The two rows of an action agree.

\* Moves and reservations keep the rows in agreement.
LEMMA RowsAgreeStep ==
    ASSUME TypeOK, RowsAgree, [Next]_vars
    PROVE  RowsAgree'
  <1>1. ASSUME NEW r \in Runs
        PROVE  \/ StatusMove(ticket[r].status, run[r].status,
                             ticket'[r].status, run'[r].status)
               \/ ticket'[r].status = "reserved" /\ run'[r].status = "executing"
    BY EveryMove DEF RowMove, RowReserved
  <1> QED
    BY <1>1
    DEF RowsAgree, StatusMove, Outcomes, TERMINAL_RUN_STATUSES, SCANNABLE_STATUSES

\* Both rows of every action tell the same story in every reachable state: no
\* run executes without its reserved ticket, and no spent ticket lacks a run.
THEOREM RowsAlwaysAgree == Spec => []RowsAgree
  <1>1. Init => RowsAgree
    BY DEF Init, RowsAgree, NoTicket, NoRun
  <1>2. TypeOK /\ RowsAgree /\ [Next]_vars => RowsAgree'
    BY RowsAgreeStep
  <1> QED
    BY <1>1, <1>2, TypeCorrect, PTL DEF Spec

\* A closed run is never written again, whoever is late, retries or recovers.
THEOREM ClosedRunsAreImmutable == Spec => ClosedRunsStay
  <1>1. ASSUME TypeOK, RowsAgree, [Next]_vars
        PROVE  [\A r \in Runs : run[r].status \in ClosedStatuses =>
                    run'[r] = run[r]]_vars
    BY <1>1, EveryMove DEF RowMove, RowWrite, RowReserved, ClosedStatuses
  <1> QED
    BY <1>1, TypeCorrect, RowsAlwaysAgree, PTL DEF Spec, ClosedRunsStay

-----------------------------------------------------------------------------
\* One attempt calls the tool.

\* Attempt a passed the reservation and may call the tool, or has called it.
Winner(a) == attempt[a].pc \in {"fence", "cleared"} \/ attempt[a].called = "governed"

\* The argument has two uses: in this module a ticket is spent for good when it is
\* reserved or consumed; without row locks it may end as revoked all the same.
Spent == {"reserved", "consumed"}

\* S can play this part: what is in it was reserved, and can be reserved no more.
Lasting(S) == Spent \subseteq S /\ S \cap {"absent", "issued", "authorized"} = {}

\* A ticket in S stays there, and nobody becomes the lease owner of its run.
CallMove(r, S) ==
    /\ ticket[r].status \in S => ticket'[r].status \in S
    /\ run'[r].owner \in {run[r].owner, None}

LEMMA MovesCall ==
    ASSUME NEW r \in Runs, RowMove(r), NEW S, Lasting(S)
    PROVE  CallMove(r, S)
  BY DEF RowMove, RowWrite, StatusMove, Lasting, Spent, CallMove

\* Only a spent ticket has a winner or a lease owner.
SpentFirst(S) ==
    /\ \A r \in Runs : run[r].owner # None => ticket[r].status \in S
    /\ \A a \in Attempts : Winner(a) => ticket[attempt[a].run].status \in S

\* While the lease is not taken away it belongs to the winner.
WinnerOwns ==
    \A a \in Attempts : Winner(a) => run[attempt[a].run].owner \in {a, None}

\* No action has two winners.
OneWinner ==
    \A a, b \in Attempts :
        Winner(a) /\ Winner(b) /\ attempt[a].run = attempt[b].run => a = b

\* An attempt that has not entered has called nothing.
FreshAttempts ==
    \A a \in Attempts : attempt[a].pc = "idle" => ~Winner(a)

\* OneGovernedCall is not inductive: nothing in it stops a second attempt from
\* passing its own reservation.  This is.
CallInv(S) == SpentFirst(S) /\ WinnerOwns /\ OneWinner /\ FreshAttempts

\* Row moves and attempts that neither win nor change their run keep CallInv.
LEMMA CallInvKept ==
    ASSUME TypeOK, NEW S, CallInv(S),
           \A r \in Runs : CallMove(r, S),
           \A a \in Attempts :
                /\ Winner(a)' => Winner(a)
                /\ Winner(a) => attempt'[a].run = attempt[a].run
                /\ attempt'[a].pc = "idle" => attempt[a].pc = "idle"
    PROVE  CallInv(S)'
  <1>1. \A a \in Attempts : Winner(a) => attempt[a].run \in Runs
    BY DEF CallInv, FreshAttempts, TypeOK
  <1>2. \A r \in Runs : run'[r].owner \in {run[r].owner, None}
    BY DEF CallMove
  <1>3. SpentFirst(S)'
    BY <1>1, <1>2 DEF CallInv, SpentFirst, CallMove
  <1>4. WinnerOwns'
    BY <1>1, <1>2 DEF CallInv, WinnerOwns
  <1>5. OneWinner'
    BY <1>1 DEF CallInv, OneWinner
  <1>6. FreshAttempts'
    BY DEF CallInv, FreshAttempts
  <1> QED
    BY <1>3, <1>4, <1>5, <1>6 DEF CallInv

\* Steps of an attempt that do not make it a winner.
LEMMA NoNewWinner ==
    ASSUME TypeOK, Born, NEW S, Lasting(S), CallInv(S), NEW a \in Attempts, AttemptStep(a),
           \A pc \in {"fence", "unknown"} : ~ReserveTicketAndRun(a, pc),
           ~ResolveCommit(a)
    PROVE  CallInv(S)'
  <1>1. \A r \in Runs : CallMove(r, S)
    BY AttemptMoves, MovesCall
  <1>2. \A b \in Attempts \ {a} : attempt'[b] = attempt[b]
    BY DEF AttemptStep, Enter, ReserveRolledBack, ReserveConflict, Goto, AssertFence,
           CallGoverned, CallLegacy, EffectLands, HandlerReturns, CompleteRun,
           CompleteMisses, MarkLate, Stop, TypeOK
  <1>3. /\ attempt'[a].pc # "idle"
        /\ attempt[a].pc = "idle" \/ attempt'[a].run = attempt[a].run
        /\ \/ attempt'[a].called = attempt[a].called
           \/ attempt[a].pc = "cleared" \/ attempt'[a].called = "legacy"
        /\ attempt'[a].pc = "cleared" => attempt[a].pc = "fence"
        /\ attempt'[a].pc # "fence"
    <2>1. attempt[a] \in AttemptStates /\ attempt \in [Attempts -> AttemptStates]
      BY DEF TypeOK
    <2>2. ASSUME NEW pc \in {"done", "marking", "acted", "gone", "inflight"}, Goto(a, pc)
          PROVE  /\ attempt'[a].pc = pc
                 /\ attempt'[a].run = attempt[a].run
                 /\ attempt'[a].called = attempt[a].called
      BY <2>1, <2>2 DEF Goto, AttemptStates
    <2>3. CASE \E r \in Runs : Enter(a, r)
      BY <2>1, <2>3 DEF Enter, AttemptStates
    <2>4. CASE ReserveRolledBack(a)
      BY <2>1, <2>4 DEF ReserveRolledBack, AttemptStates
    <2>5. CASE AssertFence(a)
      BY <2>1, <2>5 DEF AssertFence, AttemptStates
    <2>6. CASE CallGoverned(a) \/ CallLegacy(a)
      <3>1. CASE CallGoverned(a)
        BY <2>1, <3>1 DEF CallGoverned, AttemptStates
      <3>2. CASE CallLegacy(a)
        BY <2>1, <3>2 DEF CallLegacy, AttemptStates
      <3> QED
        BY <2>6, <3>1, <3>2
    <2>7. CASE \E result \in {"succeeded", "failed"} : HandlerReturns(a, result)
      BY <2>1, <2>7 DEF HandlerReturns, AttemptStates
    <2>8. CASE \E told \in BOOLEAN : CompleteRun(a, told)
      BY <2>1, <2>8 DEF CompleteRun, AttemptStates
    <2>9. CASE ReserveConflict(a) \/ CompleteMisses(a) \/ MarkLate(a) \/ Stop(a)
      <3>1. /\ attempt[a].pc # "idle"
            /\ \E pc \in {"done", "marking", "gone", "inflight"} : Goto(a, pc)
        BY <2>9 DEF ReserveConflict, CompleteMisses, MarkLate, Stop
      <3> QED
        BY <2>2, <3>1
    <2>10. CASE \E effect \in {"present", "partial"} : EffectLands(a, effect)
      <3>1. /\ attempt[a].pc # "idle"
            /\ \E pc \in {"acted", "gone"} : Goto(a, pc)
        BY <2>10 DEF EffectLands
      <3> QED
        BY <2>2, <3>1
    <2> QED
      BY <2>3, <2>4, <2>5, <2>6, <2>7, <2>8, <2>9, <2>10 DEF AttemptStep
  <1>4. ~(attempt[a].pc = "idle" /\ Winner(a))
    BY DEF CallInv, FreshAttempts
  <1>5. Winner(a)' => Winner(a)
    BY <1>3, <1>4 DEF Winner
  <1>6. \A b \in Attempts \ {a} : Winner(b)' <=> Winner(b)
    BY <1>2 DEF Winner
  <1> QED
    BY <1>1, <1>2, <1>3, <1>4, <1>5, <1>6, CallInvKept

\* Reserving an action makes its attempt the only possible winner.
LEMMA ReserveWins ==
    ASSUME TypeOK, Born, NEW S, Lasting(S), CallInv(S), NEW a \in Attempts,
           NEW pc \in {"fence", "unknown"}, ReserveTicketAndRun(a, pc)
    PROVE  CallInv(S)'
  <1> DEFINE q == attempt[a].run
  <1>1. /\ q \in Runs /\ RowReserved(q, a)
        /\ \A r \in Runs \ {q} : CallMove(r, S)
    BY ReserveMoves, MovesCall
  <1>2. /\ \A b \in Attempts \ {a} : attempt'[b] = attempt[b]
        /\ attempt'[a].run = q /\ attempt'[a].pc = pc
    BY DEF ReserveTicketAndRun, TypeOK, AttemptStates
  <1>3. \A b \in Attempts : Winner(b) => /\ attempt[b].run \in Runs
                                        /\ ticket[attempt[b].run].status \in S
    BY DEF CallInv, FreshAttempts, SpentFirst, TypeOK
  <1>4. ticket[q].status \notin S /\ ticket'[q].status \in S
    BY <1>1 DEF RowReserved, Lasting, Spent
  <1>5. \A b \in Attempts \ {a} : Winner(b)' => Winner(b) /\ attempt[b].run # q
    BY <1>2, <1>3, <1>4 DEF Winner
  <1>6. \A r \in Runs \ {q} : /\ ticket[r].status \in S => ticket'[r].status \in S
                              /\ run'[r].owner \in {run[r].owner, None}
    BY <1>1 DEF CallMove
  <1>7. run'[q].owner = a
    BY <1>1 DEF RowReserved
  <1>8. SpentFirst(S)'
    BY <1>2, <1>3, <1>4, <1>5, <1>6 DEF CallInv, SpentFirst
  <1>9. WinnerOwns'
    BY <1>2, <1>3, <1>5, <1>6, <1>7 DEF CallInv, WinnerOwns
  <1>10. OneWinner'
    BY <1>2, <1>5 DEF CallInv, OneWinner
  <1>11. FreshAttempts'
    BY <1>2, <1>5 DEF CallInv, FreshAttempts
  <1> QED
    BY <1>8, <1>9, <1>10, <1>11 DEF CallInv

\* An attempt whose commit raised goes on as a winner only if it owns the lease,
\* so nobody else can be the winner.
LEMMA ResolveWins ==
    ASSUME TypeOK, Born, NEW S, Lasting(S), CallInv(S), NEW a \in Attempts, ResolveCommit(a)
    PROVE  CallInv(S)'
  <1> DEFINE q == attempt[a].run
  <1>1. UNCHANGED <<ticket, run>> /\ q \in Runs
    BY DEF ResolveCommit, TypeOK
  <1>2. /\ \A b \in Attempts \ {a} : attempt'[b] = attempt[b]
        /\ attempt'[a].run = q /\ attempt'[a].pc # "idle"
        /\ attempt'[a].called = attempt[a].called
        /\ attempt'[a].pc # "cleared"
        /\ attempt'[a].pc = "fence" => MatchesAttempt(a)
    BY DEF ResolveCommit, Goto, TypeOK, AttemptStates
  <1>3. MatchesAttempt(a) => run[q].owner = a /\ ticket[q].status \in S
    BY DEF MatchesAttempt, Lasting, Spent
  <1>4. Winner(a)' => Winner(a) \/ (run[q].owner = a /\ ticket[q].status \in S)
    BY <1>2, <1>3 DEF Winner
  <1>5. \A b \in Attempts \ {a} : Winner(b)' <=> Winner(b)
    BY <1>2 DEF Winner
  <1>7. \A b \in Attempts : Winner(b) => attempt[b].run \in Runs
    BY DEF CallInv, FreshAttempts, TypeOK
  <1>8. SpentFirst(S)'
    BY <1>1, <1>2, <1>4, <1>5, <1>7 DEF CallInv, SpentFirst
  <1>9. WinnerOwns'
    BY <1>1, <1>2, <1>4, <1>5 DEF CallInv, WinnerOwns
  <1>10. OneWinner'
    <2>1. ASSUME NEW b \in Attempts \ {a}, Winner(b), attempt[b].run = q, Winner(a)'
          PROVE  FALSE
      BY <1>4, <2>1, ConstantsAssumption DEF CallInv, OneWinner, WinnerOwns
    <2> QED
      BY <1>2, <1>5, <2>1 DEF CallInv, OneWinner
  <1>11. FreshAttempts'
    BY <1>2, <1>5 DEF CallInv, FreshAttempts
  <1> QED
    BY <1>8, <1>9, <1>10, <1>11 DEF CallInv

\* CallInv is inductive.
LEMMA CallInvStep ==
    ASSUME TypeOK, Born, NEW S, Lasting(S), CallInv(S), [Next]_vars
    PROVE  CallInv(S)'
  <1>1. CASE Tick \/ CreationStep \/ LifecycleStep \/ UNCHANGED vars
    <2>1. \A r \in Runs : CallMove(r, S)
      BY <1>1, LifecycleMoves, RowStays, MovesCall DEF vars
    <2>2. UNCHANGED attempt
      BY <1>1 DEF Tick, CreationStep, LifecycleStep, CreateAction, confirm_ticket, vars,
           cancel_action_run, cancel_session_action_runs, delete_session_with_guard
    <2> QED
      BY <2>1, <2>2, CallInvKept DEF Winner
  <1>2. ASSUME NEW s \in Scanners, ScannerStep(s)
        PROVE  CallInv(S)'
    <2>1. \A r \in Runs : CallMove(r, S)
      BY <1>2, ScannerMoves, MovesCall
    <2>2. UNCHANGED attempt
      BY <1>2 DEF ScannerStep, _load_candidates, _claim, ClaimConflict, UsePending,
           VerifyAndClassify, RecoverChange, _persist_terminal_candidate,
           _write_terminal, GiveUp, ScanStops
    <2> QED
      BY <2>1, <2>2, CallInvKept DEF Winner
  <1>3. ASSUME NEW a \in Attempts, AttemptStep(a)
        PROVE  CallInv(S)'
    BY <1>3, NoNewWinner, ReserveWins, ResolveWins
  <1> QED
    BY <1>1, <1>2, <1>3 DEF Next

LEMMA CallInvInit ==
    ASSUME NEW S, Init PROVE CallInv(S)
  BY DEF Init, CallInv, SpentFirst, WinnerOwns, OneWinner, FreshAttempts, Winner,
         NoRun, IdleAttempt

LEMMA CallInvMeans ==
    ASSUME NEW S, CallInv(S) PROVE OneGovernedCall
  BY DEF CallInv, OneWinner, Winner, OneGovernedCall

\* Where rows are locked, every step keeps the invariant of reserved and consumed.
LEMMA SpentStep ==
    ASSUME TypeOK, RowsAgree, CallInv(Spent), [Next]_vars
    PROVE  CallInv(Spent)'
  <1>1. Born /\ Lasting(Spent)
    BY DEF RowsAgree, Born, Lasting, Spent
  <1> QED
    BY <1>1, CallInvStep

\* The tool of an action is called by one attempt at most, however many race
\* and whatever became of their commits.
THEOREM OneCallOnly == Spec => []OneGovernedCall
  <1>1. Init => CallInv(Spent)
    BY CallInvInit
  <1>2. TypeOK /\ RowsAgree /\ CallInv(Spent) /\ [Next]_vars => CallInv(Spent)'
    BY SpentStep
  <1>3. CallInv(Spent) => OneGovernedCall
    BY CallInvMeans
  <1> QED
    BY <1>1, <1>2, <1>3, TypeCorrect, RowsAlwaysAgree, PTL DEF Spec

-----------------------------------------------------------------------------
\* A reported completion stands.

\* What ToldIsDurable needs besides: an attempt that was told is over, and what
\* it was told closes a run.
ToldInv ==
    /\ ToldIsDurable
    /\ \A a \in Attempts : attempt[a].told =>
        /\ attempt[a].pc = "done"
        /\ attempt[a].run \in Runs
        /\ attempt[a].result \in {"succeeded", "failed"}

\* The rows behind an attempt that was told are out of reach for every step.
LEMMA ToldRowsStay ==
    ASSUME TypeOK, RowsAgree, ToldInv, [Next]_vars,
           NEW a \in Attempts, attempt[a].told, UNCHANGED attempt[a]
    PROVE  /\ run'[attempt'[a].run].status = attempt'[a].result
           /\ ticket'[attempt'[a].run].status = "consumed"
  <1> DEFINE q == attempt[a].run
  <1>1. /\ q \in Runs /\ run[q].status \in {"succeeded", "failed"}
        /\ run[q].status = attempt[a].result
        /\ ticket[q].status = "consumed"
    BY DEF ToldInv, ToldIsDurable
  <1>2. RowMove(q)
    BY <1>1, EveryMove DEF RowReserved
  <1>3. run'[q] = run[q]
    BY <1>1, <1>2 DEF RowMove, RowWrite, ClosedStatuses
  <1>4. ticket'[q].status = "consumed"
    BY <1>1, <1>2, <1>3 DEF RowMove, StatusMove
  <1> QED
    BY <1>1, <1>3, <1>4

\* Only complete_action_run tells an attempt anything, and then it is over.
LEMMA ToldSteps ==
    ASSUME TypeOK, ToldInv, [Next]_vars, NEW a \in Attempts
    PROVE  \/ UNCHANGED attempt[a]
           \/ ~attempt[a].told /\ ~attempt'[a].told
           \/ CompleteRun(a, TRUE)
  <1>1. attempt[a] \in AttemptStates /\ attempt \in [Attempts -> AttemptStates]
    BY DEF TypeOK
  <1>2. attempt[a].told => attempt[a].pc = "done"
    BY DEF ToldInv
  <1>3. CASE UNCHANGED attempt
    BY <1>3
  <1>4. ASSUME NEW b \in Attempts \ {a}, AttemptStep(b)
        PROVE  UNCHANGED attempt[a]
    BY <1>1, <1>4
    DEF AttemptStep, Enter, ReserveTicketAndRun, ReserveRolledBack, ReserveConflict,
        ResolveCommit, Goto, AssertFence, CallGoverned, CallLegacy, EffectLands,
        HandlerReturns, CompleteRun, CompleteMisses, MarkLate, Stop
  <1>5. CASE AttemptStep(a)
    <2>1. attempt[a].pc # "done"
      BY <1>5
      DEF AttemptStep, Enter, ReserveTicketAndRun, ReserveRolledBack, ReserveConflict,
          ResolveCommit, AssertFence, CallGoverned, CallLegacy, EffectLands,
          HandlerReturns, CompleteRun, CompleteMisses, MarkLate, Stop
    <2>2. ~attempt[a].told
      BY <1>2, <2>1
    <2>3. ASSUME NEW pc, Goto(a, pc)
          PROVE  ~attempt'[a].told
      BY <1>1, <2>2, <2>3 DEF Goto, AttemptStates
    <2>4. CASE \/ ReserveConflict(a) \/ ResolveCommit(a) \/ CompleteMisses(a)
               \/ MarkLate(a) \/ Stop(a)
               \/ \E effect \in {"present", "partial"} : EffectLands(a, effect)
      <3>1. \E pc \in AttemptPCs : Goto(a, pc)
        BY <2>4
        DEF ReserveConflict, ResolveCommit, CompleteMisses, MarkLate, Stop, EffectLands,
            AttemptPCs
      <3> QED
        BY <2>2, <2>3, <3>1
    <2>5. ASSUME NEW r \in Runs, Enter(a, r)
          PROVE  ~attempt'[a].told
      BY <1>1, <2>2, <2>5 DEF Enter, AttemptStates
    <2>6. ASSUME NEW pc \in {"fence", "unknown"}, ReserveTicketAndRun(a, pc)
          PROVE  ~attempt'[a].told
      BY <1>1, <2>2, <2>6 DEF ReserveTicketAndRun, AttemptStates
    <2>7. CASE ReserveRolledBack(a)
      BY <1>1, <2>2, <2>7 DEF ReserveRolledBack, AttemptStates
    <2>8. CASE AssertFence(a)
      BY <1>1, <2>2, <2>8 DEF AssertFence, AttemptStates
    <2>9. CASE CallGoverned(a)
      BY <1>1, <2>2, <2>9 DEF CallGoverned, AttemptStates
    <2>10. CASE CallLegacy(a)
      BY <1>1, <2>2, <2>10 DEF CallLegacy, AttemptStates
    <2>11. ASSUME NEW result \in {"succeeded", "failed"}, HandlerReturns(a, result)
           PROVE  ~attempt'[a].told
      BY <1>1, <2>2, <2>11 DEF HandlerReturns, AttemptStates
    <2>12. CASE CompleteRun(a, FALSE)
      BY <1>1, <2>2, <2>12 DEF CompleteRun, AttemptStates
    <2> QED
      BY <1>5, <2>2, <2>4, <2>5, <2>6, <2>7, <2>8, <2>9, <2>10, <2>11, <2>12
      DEF AttemptStep
  <1>6. ASSUME NEW s \in Scanners, ScannerStep(s)
        PROVE  UNCHANGED attempt
    BY <1>6 DEF ScannerStep, _load_candidates, _claim, ClaimConflict, UsePending,
         VerifyAndClassify, RecoverChange, _persist_terminal_candidate,
         _write_terminal, GiveUp, ScanStops
  <1>7. ASSUME Tick \/ CreationStep \/ LifecycleStep \/ UNCHANGED vars
        PROVE  UNCHANGED attempt
    BY <1>7 DEF Tick, CreationStep, LifecycleStep, CreateAction, confirm_ticket, vars,
         cancel_action_run, cancel_session_action_runs, delete_session_with_guard
  <1> QED
    BY <1>3, <1>4, <1>5, <1>6, <1>7 DEF Next

\* ToldInv is inductive.
LEMMA ToldInvStep ==
    ASSUME TypeOK, RowsAgree, ToldInv, [Next]_vars
    PROVE  ToldInv'
  <1> SUFFICES ASSUME NEW a \in Attempts, attempt'[a].told
               PROVE  /\ attempt'[a].pc = "done"
                      /\ attempt'[a].run \in Runs
                      /\ attempt'[a].result \in {"succeeded", "failed"}
                      /\ run'[attempt'[a].run].status = attempt'[a].result
                      /\ ticket'[attempt'[a].run].status = "consumed"
    BY DEF ToldInv, ToldIsDurable
  <1>1. CASE UNCHANGED attempt[a]
    BY <1>1, ToldRowsStay DEF ToldInv
  <1>2. CASE CompleteRun(a, TRUE)
    <2> DEFINE q == attempt[a].run
    <2>1. /\ attempt[a] \in AttemptStates /\ q \in Runs
          /\ attempt[a].result \in {"succeeded", "failed"}
          /\ run[q] \in RunRows /\ ticket[q] \in TicketRows
      BY <1>2 DEF CompleteRun, TypeOK
    <2>2. attempt'[a] = [attempt[a] EXCEPT !.pc = "done", !.told = TRUE]
      BY <1>2 DEF CompleteRun, TypeOK
    <2>3. /\ run'[q] = Closed(run[q], attempt[a].result, None)
          /\ ticket'[q] = Stamped(ticket[q], "consumed")
      BY <1>2, <2>1 DEF CompleteRun, TypeOK
    <2>4. attempt[a].result \in RunStatuses /\ "consumed" \in TicketStatuses
      BY <2>1 DEF RunStatuses, TERMINAL_RUN_STATUSES, TicketStatuses
    <2>5. run'[q].status = attempt[a].result /\ ticket'[q].status = "consumed"
      BY <2>1, <2>3, <2>4, ClosedRow, StampedRow
    <2> QED
      BY <2>1, <2>2, <2>5 DEF AttemptStates
  <1> QED
    BY <1>1, <1>2, ToldSteps

\* No cancellation, recovery or stale completion takes back a completion that
\* complete_action_run reported.
THEOREM CompletionsStand == Spec => []ToldIsDurable
  <1>1. Init => ToldInv
    BY DEF Init, ToldInv, ToldIsDurable, IdleAttempt
  <1>2. TypeOK /\ RowsAgree /\ ToldInv /\ [Next]_vars => ToldInv'
    BY ToldInvStep
  <1>3. ToldInv => ToldIsDurable
    BY DEF ToldInv
  <1> QED
    BY <1>1, <1>2, <1>3, TypeCorrect, RowsAlwaysAgree, PTL DEF Spec

-----------------------------------------------------------------------------
\* Nothing lives after a deletion.

\* The rows of r are out of the way of a deletion.
Quiet(r) ==
    /\ ticket[r].status \notin {"issued", "authorized", "reserved"}
    /\ run[r].status \notin RUN_BLOCKING_STATUSES

\* What QuietAfterDelete needs besides: while its session exists, a ticket is
\* linked to it, so the deletion sees it.
Linked ==
    \A r \in Runs : ticket[r].status # "absent" /\ Home[r] \in sessions
                        => ticket[r].session = Home[r]
QuietInv == Linked /\ QuietAfterDelete

\* Apart from a deletion, only a creation gives a ticket a session, and only one
\* that exists.
LinkKept(r) ==
    \/ /\ ticket'[r].session = ticket[r].session
       /\ ticket[r].status = "absent" => ticket'[r].status = "absent"
    \/ Home[r] \in sessions /\ ticket'[r].session = Home[r]

\* A ticket that leaves a status other than "absent" keeps its session.
LEMMA StampKeepsLink ==
    ASSUME TypeOK, NEW q \in Runs, NEW status \in TicketStatuses, NEW r \in Runs,
           ticket[q].status # "absent",
           ticket' = [ticket EXCEPT ![q] = Stamped(@, status)]
    PROVE  LinkKept(r)
  <1>1. ticket \in [Runs -> TicketRows]
    BY DEF TypeOK
  <1>2. CASE q = r
    <2>1. ticket'[r] = Stamped(ticket[r], status)
      BY <1>1, <1>2
    <2> QED
      BY <1>1, <1>2, <2>1, StampedRow DEF LinkKept
  <1>3. CASE q # r
    <2>1. ticket'[r] = ticket[r]
      BY <1>1, <1>3
    <2> QED
      BY <2>1 DEF LinkKept
  <1> QED
    BY <1>2, <1>3

\* Every step other than a deletion keeps sessions and links.
LEMMA LinksKept ==
    ASSUME TypeOK, [Next]_vars,
           \A session \in Sessions : ~delete_session_with_guard(session)
    PROVE  sessions' = sessions /\ \A r \in Runs : LinkKept(r)
  <1>1. ASSUME UNCHANGED <<sessions, ticket>>
        PROVE  sessions' = sessions /\ \A r \in Runs : LinkKept(r)
    BY <1>1 DEF LinkKept
  <1>2. ticket \in [Runs -> TicketRows]
    BY DEF TypeOK
  <1>3. CASE CreationStep
    <2>1. ASSUME NEW q \in Runs, NEW status \in {"issued", "authorized"},
                 CreateAction(q, status), NEW r \in Runs
          PROVE  LinkKept(r)
      <3>1. CASE q = r
        BY <1>2, <2>1, <3>1 DEF CreateAction, LinkKept
      <3>2. CASE q # r
        BY <1>2, <2>1, <3>2 DEF CreateAction, LinkKept
      <3> QED
        BY <3>1, <3>2
    <2>2. ASSUME NEW q \in Runs, confirm_ticket(q), NEW r \in Runs
          PROVE  LinkKept(r)
      BY <2>2, StampKeepsLink DEF confirm_ticket, TicketStatuses
    <2>3. sessions' = sessions
      BY <1>3 DEF CreationStep, CreateAction, confirm_ticket
    <2> QED
      BY <1>3, <2>1, <2>2, <2>3 DEF CreationStep
  <1>4. ASSUME NEW a \in Attempts, AttemptStep(a)
        PROVE  sessions' = sessions /\ \A r \in Runs : LinkKept(r)
    <2>1. ASSUME NEW pc, ReserveTicketAndRun(a, pc), NEW r \in Runs
          PROVE  LinkKept(r)
      BY <2>1, StampKeepsLink
      DEF ReserveTicketAndRun, CanReserve, TicketStatuses, TypeOK
    <2>2. ASSUME NEW told \in BOOLEAN, CompleteRun(a, told), NEW r \in Runs
          PROVE  LinkKept(r)
      BY <2>2, StampKeepsLink DEF CompleteRun, TicketStatuses, TypeOK
    <2>3. sessions' = sessions
      BY <1>4
      DEF AttemptStep, Enter, ReserveTicketAndRun, ReserveRolledBack, ReserveConflict,
          ResolveCommit, AssertFence, CallGoverned, CallLegacy, EffectLands,
          HandlerReturns, CompleteRun, CompleteMisses, MarkLate, Stop
    <2>4. \/ UNCHANGED ticket
          \/ \E pc \in {"fence", "unknown"} : ReserveTicketAndRun(a, pc)
          \/ \E told \in BOOLEAN : CompleteRun(a, told)
      BY <1>4
      DEF AttemptStep, Enter, ReserveRolledBack, ReserveConflict, ResolveCommit,
          AssertFence, CallGoverned, CallLegacy, EffectLands, HandlerReturns,
          CompleteMisses, MarkLate, Stop
    <2> QED
      BY <1>1, <2>1, <2>2, <2>3, <2>4
  <1>5. ASSUME NEW s \in Scanners, ScannerStep(s)
        PROVE  sessions' = sessions /\ \A r \in Runs : LinkKept(r)
    <2>1. CASE _write_terminal(s)
      <3> DEFINE q == scanner[s].cand.run
      <3>1. q \in Runs
        BY <2>1 DEF _write_terminal, Claiming, Candidates, TypeOK
      <3>2. CASE ticket[q].status = "reserved"
        <4>1. ticket' = [ticket EXCEPT ![q] = Stamped(@, "consumed")]
          BY <2>1, <3>2 DEF _write_terminal
        <4> QED
          BY <2>1, <3>1, <3>2, <4>1, StampKeepsLink DEF _write_terminal, TicketStatuses
      <3>3. CASE ticket[q].status # "reserved"
        <4>1. UNCHANGED <<sessions, ticket>>
          BY <1>2, <2>1, <3>3 DEF _write_terminal
        <4> QED
          BY <1>1, <4>1
      <3> QED
        BY <3>2, <3>3
    <2>2. CASE UNCHANGED <<sessions, ticket>>
      BY <1>1, <2>2
    <2> QED
      BY <1>5, <2>1, <2>2
      DEF ScannerStep, _load_candidates, _claim, ClaimConflict, UsePending,
          VerifyAndClassify, RecoverChange, _persist_terminal_candidate, GiveUp,
          ScanStops
  <1>6. CASE Tick \/ LifecycleStep \/ UNCHANGED vars
    BY <1>1, <1>6
    DEF Tick, LifecycleStep, cancel_action_run, cancel_session_action_runs, vars
  <1> QED
    BY <1>3, <1>4, <1>5, <1>6 DEF Next

\* No step but a creation wakes the rows of an action that are quiet.
LEMMA QuietStays ==
    ASSUME TypeOK, RowsAgree, [Next]_vars, NEW r \in Runs, Quiet(r),
           ticket[r].status = "absent" => ticket'[r].status = "absent"
    PROVE  Quiet(r)'
  <1>1. RowMove(r)
    BY EveryMove DEF RowReserved, Quiet
  <1>2. StatusMove(ticket[r].status, run[r].status, ticket'[r].status, run'[r].status)
    BY <1>1 DEF RowMove
  <1> QED
    BY <1>2
    DEF StatusMove, Quiet, RUN_BLOCKING_STATUSES, SCANNABLE_STATUSES

\* A deletion revokes what is pending and is refused when anything else lives.
LEMMA DeletionQuiets ==
    ASSUME TypeOK, RowsAgree, QuietInv, NEW session \in Sessions,
           delete_session_with_guard(session)
    PROVE  QuietInv'
  <1>1. /\ ticket \in [Runs -> TicketRows] /\ UNCHANGED run
        /\ sessions' = sessions \ {session}
    BY DEF TypeOK, delete_session_with_guard
  <1>2. ASSUME NEW r \in Runs, ticket[r].session # session
        PROVE  ticket'[r] = ticket[r]
    BY <1>2 DEF delete_session_with_guard, RunsOf
  <1>3. ASSUME NEW r \in Runs, ticket[r].session = session
        PROVE  Quiet(r)' /\ ticket'[r].status = Revoked(ticket[r]).status
    <2>1. /\ ticket[r].status # "reserved"
          /\ run[r].status \notin RUN_BLOCKING_STATUSES
      BY <1>3 DEF delete_session_with_guard, HasActiveAction, RunsOf
    <2>2. ticket'[r] = [Revoked(ticket[r]) EXCEPT !.session = None]
      BY <1>3 DEF delete_session_with_guard, RunsOf
    <2>3. Revoked(ticket[r]) \in TicketRows
      BY <1>1, StampedRow DEF Revoked, TicketStatuses
    <2>4. ticket'[r].status = Revoked(ticket[r]).status
      BY <2>2, <2>3 DEF TicketRows
    <2>5. Revoked(ticket[r]).status \notin {"issued", "authorized", "reserved"}
      BY <1>1, <2>1, StampedRow DEF Revoked, TicketStatuses
    <2> QED
      BY <1>1, <2>1, <2>4, <2>5 DEF Quiet
  <1>4. ASSUME NEW r \in Runs, ticket[r].status = "absent"
        PROVE  ticket'[r].status = "absent"
    BY <1>2, <1>3, <1>4 DEF Revoked
  <1>5. ASSUME NEW r \in Runs, ticket'[r].status # "absent", Home[r] \in sessions'
        PROVE  ticket'[r].session = Home[r]
    <2>1. ticket[r].session = Home[r] /\ Home[r] # session
      BY <1>1, <1>4, <1>5 DEF QuietInv, Linked
    <2> QED
      BY <1>2, <2>1
  <1>6. ASSUME NEW r \in Runs, Home[r] \notin sessions'
        PROVE  Quiet(r)'
    <2>1. CASE ticket[r].session = session
      BY <1>3, <2>1
    <2>2. CASE ticket[r].session # session /\ Home[r] \notin sessions
      BY <1>1, <1>2, <2>2 DEF QuietInv, QuietAfterDelete, Quiet
    <2>3. CASE ticket[r].session # session /\ ticket[r].status = "absent"
      <3>1. run[r].status = "absent"
        BY <2>3 DEF RowsAgree
      <3> QED
        BY <1>1, <1>4, <2>3, <3>1 DEF Quiet, RUN_BLOCKING_STATUSES
    <2> QED
      BY <1>1, <1>6, <2>1, <2>2, <2>3 DEF QuietInv, Linked
  <1> QED
    BY <1>5, <1>6 DEF QuietInv, Linked, QuietAfterDelete, Quiet

\* QuietInv is inductive.
LEMMA QuietInvStep ==
    ASSUME TypeOK, RowsAgree, QuietInv, [Next]_vars
    PROVE  QuietInv'
  <1>1. CASE \E session \in Sessions : delete_session_with_guard(session)
    BY <1>1, DeletionQuiets
  <1>2. CASE \A session \in Sessions : ~delete_session_with_guard(session)
    <2>1. sessions' = sessions /\ \A r \in Runs : LinkKept(r)
      BY <1>2, LinksKept
    <2>2. ASSUME NEW r \in Runs, ticket'[r].status # "absent", Home[r] \in sessions
          PROVE  ticket'[r].session = Home[r]
      BY <2>1, <2>2 DEF LinkKept, QuietInv, Linked
    <2>3. ASSUME NEW r \in Runs, Home[r] \notin sessions
          PROVE  Quiet(r)'
      <3>1. Quiet(r)
        BY <2>3 DEF QuietInv, QuietAfterDelete, Quiet
      <3>2. ticket[r].status = "absent" => ticket'[r].status = "absent"
        BY <2>1, <2>3 DEF LinkKept
      <3> QED
        BY <3>1, <3>2, QuietStays
    <2> QED
      BY <2>1, <2>2, <2>3 DEF QuietInv, Linked, QuietAfterDelete, Quiet
  <1> QED
    BY <1>1, <1>2

\* Once a session is deleted, no ticket of it can be used and no run of it is
\* open, and none comes back.
THEOREM NothingLivesOn == Spec => []QuietAfterDelete
  <1>1. Init => QuietInv
    BY ConstantsAssumption DEF Init, QuietInv, Linked, QuietAfterDelete, NoTicket
  <1>2. TypeOK /\ RowsAgree /\ QuietInv /\ [Next]_vars => QuietInv'
    BY QuietInvStep
  <1>3. QuietInv => QuietAfterDelete
    BY DEF QuietInv
  <1> QED
    BY <1>1, <1>2, <1>3, TypeCorrect, RowsAlwaysAgree, PTL DEF Spec

-----------------------------------------------------------------------------
(***************************************************************************)
(* Versions.  Nobody writes a row without advancing its version, so a      *)
(* scanner that finds the version it holds finds the row it looked at.     *)
(***************************************************************************)

\* A candidate is an earlier look at the row, or the same one.
Fits(c, row) ==
    /\ c.version <= row.version
    /\ row.status # "absent"
    /\ c.version = row.version => row.status = c.status /\ row.seen = c.seen

\* A scanner that claimed the row is its owner until its version moves on.
Held(s, me, row) ==
    /\ me.version <= row.version
    /\ row.status # "absent"
    /\ me.version = row.version =>
        /\ row.status = me.cand.status
        /\ row.recovery = s
        /\ row.seen = IF me.pc = "persisted" THEN me.found ELSE me.cand.seen

ClaimingPCs == {"claimed", "verified", "recovering", "persisted"}

\* What is persisted of an observation, by the status it started from.
Derives(status, seen) ==
    /\ status = "executing" => seen.terminal \in Proposals[seen.evidence]
    /\ status = "outcome_unknown" =>
            seen.terminal \in {"failed", "recovered", "recovery_blocked"}
    /\ status = "partially_failed" => seen.terminal \in {"recovered", "recovery_blocked"}

\* The terminals an observation may be closed with.
Writable(status, seen) ==
    {seen.terminal} \cup IF status = "executing"
                         THEN {TerminalWhenExecuting(seen.evidence)} ELSE {}

\* What scanner s, whose state is me, knows of the rows, why it verified and
\* what it writes.
Knows(s, me, rows) ==
    /\ \A c \in me.todo : Fits(c, rows[c.run])
    /\ me.pc \in ClaimingPCs => Held(s, me, rows[me.cand.run])
    /\ me.pc \in {"recovering", "verified"} => ~IsPending(me.cand)
    /\ me.pc = "recovering" => me.cand.status = "partially_failed"
    /\ me.pc = "verified" => Derives(me.cand.status, me.found)
    /\ me.pc \in {"verified", "persisted"} =>
            me.writes \in Writable(me.cand.status, me.found)

ScanInv == \A s \in Scanners : Knows(s, scanner[s], run)

-----------------------------------------------------------------------------
\* A row once written is left alone or written under a later version.
LEMMA VersionsGrow ==
    ASSUME TypeOK, RowsAgree, [Next]_vars, NEW r \in Runs, run[r].status # "absent"
    PROVE  \/ run'[r] = run[r]
           \/ run'[r].version > run[r].version /\ run'[r].status # "absent"
  <1>1. run[r].version \in Nat
    BY DEF TypeOK, RunRows
  <1>2. CASE RowMove(r)
    <2>1. run'[r].status # "absent"
      BY <1>2 DEF RowMove, StatusMove, Outcomes, TERMINAL_RUN_STATUSES
    <2>2. run'[r] = run[r] \/ run'[r].version = run[r].version + 1
      BY <1>2 DEF RowMove, RowWrite
    <2> QED
      BY <1>1, <2>1, <2>2
  <1>3. CASE \E a \in Attempts : RowReserved(r, a)
    BY <1>1, <1>3 DEF RowReserved
  <1> QED
    BY <1>2, <1>3, EveryMove

\* Scanners and their candidates are about written rows.
LEMMA ScannerTypes ==
    ASSUME TypeOK, NEW s \in Scanners
    PROVE  /\ scanner \in [Scanners -> ScannerStates]
           /\ scanner[s] \in ScannerStates
           /\ scanner[s].todo \subseteq Candidates
           /\ scanner[s].version \in Nat
           /\ scanner[s].pc \in ClaimingPCs => scanner[s].cand \in Candidates
  BY DEF TypeOK, ScannerStates, Claiming, ClaimingPCs

\* No step makes false what a scanner knows and holds on to.
LEMMA KnowledgeStays ==
    ASSUME TypeOK, RowsAgree, [Next]_vars, NEW s \in Scanners, Knows(s, scanner[s], run)
    PROVE  Knows(s, scanner[s], run')
  <1> DEFINE me == scanner[s]
  <1>1. /\ me.todo \subseteq Candidates /\ me.version \in Nat
        /\ me.pc \in ClaimingPCs => me.cand \in Candidates
    BY ScannerTypes
  <1>2. run \in [Runs -> RunRows] /\ run' \in [Runs -> RunRows]
    BY TypeStep DEF TypeOK
  <1>3. ASSUME NEW c \in me.todo
        PROVE  Fits(c, run'[c.run])
    <2>1. /\ c.run \in Runs /\ c.version \in Nat
          /\ run[c.run].version \in Nat /\ run'[c.run].version \in Nat
      BY <1>1, <1>2 DEF Candidates, RunRows
    <2>2. Fits(c, run[c.run])
      BY DEF Knows
    <2> QED
      BY <2>1, <2>2, VersionsGrow DEF Fits
  <1>4. ASSUME me.pc \in ClaimingPCs
        PROVE  Held(s, me, run'[me.cand.run])
    <2>1. me.cand.run \in Runs
      BY <1>1, <1>4 DEF Candidates
    <2>2. run[me.cand.run].version \in Nat /\ run'[me.cand.run].version \in Nat
      BY <1>2, <2>1 DEF RunRows
    <2>3. Held(s, me, run[me.cand.run])
      BY <1>4 DEF Knows
    <2> QED
      BY <1>1, <2>1, <2>2, <2>3, VersionsGrow DEF Held
  <1> QED
    BY <1>3, <1>4 DEF Knows

\* A scanner that goes on to its next candidate keeps the others.
LEMMA NextCandidate ==
    ASSUME TypeOK, NEW s \in Scanners, NEW rows, Knows(s, scanner[s], rows)
    PROVE  Knows(s, ToNext(s), rows)
  <1>1. scanner[s] \in ScannerStates
    BY ScannerTypes
  <1>2. /\ ToNext(s).todo = scanner[s].todo
        /\ ToNext(s).pc \in {"idle", "scanning"}
    BY <1>1 DEF ToNext, ScannerStates
  <1> QED
    BY <1>2 DEF Knows, ClaimingPCs

\* A claim writes the row under the version the scanner goes on with.
LEMMA ClaimKnows ==
    ASSUME TypeOK, NEW s \in Scanners, NEW c \in scanner[s].todo, _claim(s, c),
           Knows(s, scanner[s], run), Knows(s, scanner[s], run')
    PROVE  Knows(s, scanner'[s], run')
  <1> DEFINE me  == scanner[s]
             new == scanner'[s]
             row == run[c.run]
  <1>1. me \in ScannerStates /\ scanner \in [Scanners -> ScannerStates] /\ c \in Candidates
    BY ScannerTypes
  <1>2. c.run \in Runs /\ row \in RunRows /\ run \in [Runs -> RunRows]
    BY <1>1 DEF TypeOK, Candidates
  <1>3. run'[c.run] = Claimed(row, s)
    BY <1>2 DEF _claim
  <1>4. new = [me EXCEPT !.pc = "claimed", !.todo = me.todo \ {c},
                         !.cand = c, !.version = c.version + 1]
    BY <1>1 DEF _claim
  <1>5. /\ new.pc = "claimed" /\ new.todo = me.todo \ {c}
        /\ new.cand = c /\ new.version = c.version + 1
    BY <1>1, <1>4 DEF ScannerStates
  <1>6. row.status = c.status /\ row.version = c.version /\ row.seen = c.seen
    BY DEF _claim, CanClaim, Knows, Fits
  <1>7. row.status # "absent"
    BY DEF Knows, Fits
  <1>8. /\ run'[c.run].status = c.status /\ run'[c.run].version = c.version + 1
        /\ run'[c.run].recovery = s /\ run'[c.run].seen = c.seen
    BY <1>2, <1>3, <1>6, ClaimedRow
  <1>9. c.version + 1 \in Nat
    BY <1>1 DEF Candidates
  <1>10. Held(s, new, run'[c.run])
    BY <1>5, <1>6, <1>7, <1>8, <1>9 DEF Held
  <1> QED
    BY <1>5, <1>10 DEF Knows

\* So does the candidate it persists.
LEMMA PersistKnows ==
    ASSUME TypeOK, NEW s \in Scanners, _persist_terminal_candidate(s),
           Knows(s, scanner[s], run), Knows(s, scanner[s], run')
    PROVE  Knows(s, scanner'[s], run')
  <1> DEFINE me  == scanner[s]
             new == scanner'[s]
             c   == me.cand
             row == run[c.run]
  <1>1. me \in ScannerStates /\ scanner \in [Scanners -> ScannerStates]
    BY ScannerTypes
  <1>2. me.pc = "verified" /\ HoldsClaim(s) /\ c \in Candidates
    BY ScannerTypes DEF _persist_terminal_candidate, ClaimingPCs
  <1>3. c.run \in Runs /\ row \in RunRows /\ run \in [Runs -> RunRows]
        /\ me.found \in Observations /\ me.version \in Nat
    BY <1>1, <1>2 DEF TypeOK, Candidates, ScannerStates
  <1>4. run'[c.run] = Noted(row, me.found)
    BY <1>3 DEF _persist_terminal_candidate
  <1>5. new = [me EXCEPT !.pc = "persisted", !.version = me.version + 1]
    BY <1>1 DEF _persist_terminal_candidate
  <1>6. /\ new.pc = "persisted" /\ new.todo = me.todo /\ new.cand = c
        /\ new.found = me.found /\ new.version = me.version + 1
        /\ new.writes = me.writes
    BY <1>1, <1>5 DEF ScannerStates
  <1>7. /\ row.status = c.status /\ row.version = me.version /\ row.recovery = s
        /\ row.status # "absent"
    BY <1>2 DEF HoldsClaim, Knows, Held, ClaimingPCs
  <1>8. /\ run'[c.run].status = c.status /\ run'[c.run].version = me.version + 1
        /\ run'[c.run].recovery = s /\ run'[c.run].seen = me.found
    BY <1>3, <1>4, <1>7, NotedRow
  <1>9. Held(s, new, run'[c.run])
    BY <1>3, <1>6, <1>7, <1>8 DEF Held
  <1> QED
    BY <1>2, <1>6, <1>9 DEF Knows

\* And every other step of the scanner itself.
LEMMA ScannerKnows ==
    ASSUME TypeOK, NEW s \in Scanners, ScannerStep(s),
           Knows(s, scanner[s], run), Knows(s, scanner[s], run')
    PROVE  Knows(s, scanner'[s], run')
  <1> DEFINE me  == scanner[s]
             new == scanner'[s]
  <1>1. /\ me \in ScannerStates /\ scanner \in [Scanners -> ScannerStates]
        /\ run \in [Runs -> RunRows]
    BY ScannerTypes DEF TypeOK
  <1>2. CASE new = ToNext(s)
    BY <1>2, NextCandidate
  <1>3. CASE _load_candidates(s)
    <2> DEFINE rows == {r \in Runs : run[r].status \in SCANNABLE_STATUSES}
               todo == {Snapshot(r) : r \in rows}
    <2>1. new = [me EXCEPT !.pc = "scanning", !.todo = todo] /\ run' = run
      BY <1>1, <1>3 DEF _load_candidates
    <2>2. new.pc = "scanning" /\ new.todo = todo
      BY <1>1, <2>1 DEF ScannerStates
    <2>3. ASSUME NEW r \in rows
          PROVE  Fits(Snapshot(r), run'[Snapshot(r).run])
      BY <1>1, <2>1 DEF Snapshot, Fits, RunRows, SCANNABLE_STATUSES
    <2> QED
      BY <2>2, <2>3 DEF Knows, ClaimingPCs
  <1>4. ASSUME NEW c \in me.todo, ClaimConflict(s, c)
        PROVE  Knows(s, new, run')
    <2> DEFINE rest == me.todo \ {c}
    <2>1. new = [me EXCEPT !.todo = rest, !.pc = IF rest = {} THEN "idle" ELSE "scanning"]
      BY <1>1, <1>4 DEF ClaimConflict
    <2>2. new.todo = rest /\ new.pc \in {"idle", "scanning"}
      BY <1>1, <2>1 DEF ScannerStates
    <2> QED
      BY <2>2 DEF Knows, ClaimingPCs
  <1>5. ASSUME ~IsPending(me.cand), run' = run,
               me.pc \in {"claimed", "recovering"}, new.pc \in {"recovering", "verified"},
               new.todo = me.todo, new.cand = me.cand, new.version = me.version,
               new.pc = "recovering" => me.cand.status = "partially_failed",
               new.pc = "verified" =>
                    /\ Derives(me.cand.status, new.found)
                    /\ new.writes \in Writable(me.cand.status, new.found)
        PROVE  Knows(s, new, run')
    <2>1. Held(s, me, run[me.cand.run]) /\ me.pc # "persisted"
      BY <1>5 DEF Knows, ClaimingPCs
    <2>2. Held(s, new, run[me.cand.run])
      BY <1>5, <2>1 DEF Held
    <2> QED
      BY <1>5, <2>2 DEF Knows
  <1>6. CASE UsePending(s)
    <2>1. /\ new = [me EXCEPT !.pc = "persisted", !.found = me.cand.seen,
                              !.writes = me.cand.seen.terminal]
          /\ me.pc = "claimed" /\ run' = run
      BY <1>1, <1>6 DEF UsePending
    <2>2. /\ new.todo = me.todo /\ new.cand = me.cand /\ new.version = me.version
          /\ new.pc = "persisted" /\ new.found = me.cand.seen
          /\ new.writes = me.cand.seen.terminal
      BY <1>1, <2>1 DEF ScannerStates
    <2>3. Held(s, me, run[me.cand.run])
      BY <2>1 DEF Knows, ClaimingPCs
    <2>4. Held(s, new, run[me.cand.run])
      BY <2>1, <2>2, <2>3 DEF Held
    <2> QED
      BY <2>1, <2>2, <2>4 DEF Knows, Writable
  <1>7. ASSUME NEW v \in Verifications, NEW p \in Outcomes, VerifyAndClassify(s, v, p)
        PROVE  Knows(s, new, run')
    <2> DEFINE status == me.cand.status
               seen   == Noticed(status, v, p)
    <2>1. /\ me.pc = "claimed" /\ run' = run /\ ~IsPending(me.cand)
          /\ p \in Proposals[v]
      BY <1>7 DEF VerifyAndClassify
    <2>2. \/ new = ToNext(s)
          \/ /\ status = "partially_failed"
             /\ new = [me EXCEPT !.pc = "recovering", !.found = Reading(v, p)]
          \/ new = [me EXCEPT !.pc = "verified", !.found = seen,
                              !.writes = DerivedTerminal(status, v)]
      BY <1>1, <1>7 DEF VerifyAndClassify
    <2>3. CASE /\ status = "partially_failed"
               /\ new = [me EXCEPT !.pc = "recovering", !.found = Reading(v, p)]
      <3>1. /\ new.todo = me.todo /\ new.cand = me.cand /\ new.version = me.version
            /\ new.pc = "recovering"
        BY <1>1, <2>3 DEF ScannerStates
      <3> QED
        BY <1>5, <2>1, <2>3, <3>1
    <2>4. CASE new = [me EXCEPT !.pc = "verified", !.found = seen,
                                !.writes = DerivedTerminal(status, v)]
      <3>1. /\ new.todo = me.todo /\ new.cand = me.cand /\ new.version = me.version
            /\ new.pc = "verified" /\ new.found = seen
            /\ new.writes = DerivedTerminal(status, v)
        BY <1>1, <2>4 DEF ScannerStates
      <3>2. Derives(status, seen)
        BY <2>1
        DEF Derives, Noticed, Reading, DerivedTerminal, TerminalWhenUnknown,
            TerminalWhenPartial
      <3>3. DerivedTerminal(status, v) \in Writable(status, seen)
        BY DEF Writable, Noticed, Reading, DerivedTerminal
      <3> QED
        BY <1>5, <2>1, <3>1, <3>2, <3>3
    <2> QED
      BY <1>2, <2>2, <2>3, <2>4
  <1>8. ASSUME NEW restores \in BOOLEAN, NEW v \in Verifications, NEW p \in Outcomes,
               RecoverChange(s, restores, v, p)
        PROVE  Knows(s, new, run')
    <2> DEFINE terminal == TerminalWhenRecovered(v, p)
    <2>1. /\ new = [me EXCEPT !.pc = "verified", !.found = Reading(v, terminal),
                              !.writes = terminal]
          /\ me.pc = "recovering" /\ run' = run
      BY <1>1, <1>8 DEF RecoverChange
    <2>2. /\ new.todo = me.todo /\ new.cand = me.cand /\ new.version = me.version
          /\ new.pc = "verified" /\ new.found = Reading(v, terminal)
          /\ new.writes = terminal
      BY <1>1, <2>1 DEF ScannerStates
    <2>3. ~IsPending(me.cand) /\ me.cand.status = "partially_failed"
      BY <2>1 DEF Knows
    <2>4. /\ Derives(me.cand.status, Reading(v, terminal))
          /\ terminal \in Writable(me.cand.status, Reading(v, terminal))
      BY <2>3, RecoveredType DEF Derives, Writable, Reading
    <2> QED
      BY <1>5, <2>1, <2>2, <2>3, <2>4
  <1>9. CASE ScanStops(s)
    <2>1. new = IdleScanner
      BY <1>1, <1>9 DEF ScanStops
    <2> QED
      BY <2>1 DEF IdleScanner, Knows, ClaimingPCs
  <1>10. CASE _write_terminal(s) \/ GiveUp(s)
    <2>1. new = ToNext(s)
      BY <1>1, <1>10 DEF _write_terminal, GiveUp
    <2> QED
      BY <1>2, <2>1
  <1> QED
    BY <1>3, <1>4, <1>6, <1>7, <1>8, <1>9, <1>10, ClaimKnows, PersistKnows DEF ScannerStep

\* ScanInv is inductive.
LEMMA ScanInvStep ==
    ASSUME TypeOK, RowsAgree, ScanInv, [Next]_vars
    PROVE  ScanInv'
  <1> SUFFICES ASSUME NEW s \in Scanners
               PROVE  Knows(s, scanner'[s], run')
    BY DEF ScanInv
  <1>1. Knows(s, scanner[s], run) /\ Knows(s, scanner[s], run')
    BY KnowledgeStays DEF ScanInv
  <1>2. CASE ScannerStep(s)
    BY <1>1, <1>2, ScannerKnows
  <1>3. ASSUME NEW z \in Scanners \ {s}, ScannerStep(z)
        PROVE  scanner'[s] = scanner[s]
    <2>1. scanner \in [Scanners -> ScannerStates]
      BY ScannerTypes
    <2> QED
      BY <1>3, <2>1
      DEF ScannerStep, _load_candidates, _claim, ClaimConflict, UsePending,
          VerifyAndClassify, RecoverChange, _persist_terminal_candidate,
          _write_terminal, GiveUp, ScanStops
  <1>4. ASSUME NEW a \in Attempts, AttemptStep(a)
        PROVE  UNCHANGED scanner
    BY <1>4
    DEF AttemptStep, Enter, ReserveTicketAndRun, ReserveRolledBack, ReserveConflict,
        ResolveCommit, AssertFence, CallGoverned, CallLegacy, EffectLands,
        HandlerReturns, CompleteRun, CompleteMisses, MarkLate, Stop
  <1>5. ASSUME Tick \/ CreationStep \/ LifecycleStep \/ UNCHANGED vars
        PROVE  UNCHANGED scanner
    BY <1>5
    DEF Tick, CreationStep, LifecycleStep, CreateAction, confirm_ticket, vars,
        cancel_action_run, cancel_session_action_runs, delete_session_with_guard
  <1>6. UNCHANGED scanner => Knows(s, scanner'[s], run')
    BY <1>1
  <1> QED
    BY <1>1, <1>2, <1>3, <1>4, <1>5, <1>6 DEF Next

\* A scanner that finds the version it holds finds the row it classified, still
\* claimed by it: comparing state_version is enough for its writes.
THEOREM VersionProvesClaim == Spec => []ClaimProvesSnapshot
  <1>1. Init => ScanInv
    BY DEF Init, ScanInv, Knows, IdleScanner, ClaimingPCs
  <1>2. TypeOK /\ RowsAgree /\ ScanInv /\ [Next]_vars => ScanInv'
    BY ScanInvStep
  <1>3. ScanInv => ClaimProvesSnapshot
    <2> SUFFICES ASSUME ScanInv, NEW s \in Scanners, Claiming(s),
                        run[scanner[s].cand.run].version = scanner[s].version
                 PROVE  /\ run[scanner[s].cand.run].status = scanner[s].cand.status
                        /\ run[scanner[s].cand.run].recovery = s
                        /\ run[scanner[s].cand.run].seen
                              \in {scanner[s].cand.seen, scanner[s].found}
      BY DEF ClaimProvesSnapshot
    <2>1. Held(s, scanner[s], run[scanner[s].cand.run])
      BY DEF ScanInv, Knows, Claiming, ClaimingPCs
    <2> QED
      BY <2>1 DEF Held
  <1> QED
    BY <1>1, <1>2, <1>3, TypeCorrect, RowsAlwaysAgree, PTL DEF Spec

-----------------------------------------------------------------------------
\* What was observed first is what a run ends with.

\* What the writes other than those below do to the observation, the recovery
\* owner and the status of a row.
RowKept(r) ==
    /\ run'[r].seen = run[r].seen
    /\ run'[r].recovery \in {run[r].recovery} \cup Scanners
    /\ \/ run'[r].status = run[r].status
       \/ run[r].status = "executing" /\ run'[r].status = "outcome_unknown"
       \/ run[r].status \in {"absent", "authorized"}

Completes(r) ==
    \E a \in Attempts, told \in BOOLEAN : CompleteRun(a, told) /\ attempt[a].run = r
Persists(r) ==
    \E s \in Scanners : _persist_terminal_candidate(s) /\ scanner[s].cand.run = r
Writes(r) ==
    \E s \in Scanners : _write_terminal(s) /\ scanner[s].cand.run = r

\* A row that is observed has had a recovery owner, so no attempt completes it;
\* while it executes, its observation is as the port gave it.
SeenInv ==
    \A r \in Runs : run[r].seen # None =>
        /\ run[r].recovery # None /\ run[r].status \notin {"absent", "authorized"}
        /\ run[r].status = "executing" =>
                run[r].seen.terminal \in Proposals[run[r].seen.evidence]

\* Every step is one of these to a row.
LEMMA SeenMoves ==
    ASSUME TypeOK, RowsAgree, [Next]_vars, NEW r \in Runs
    PROVE  RowKept(r) \/ Completes(r) \/ Persists(r) \/ Writes(r)
  <1> DEFINE row == run[r]
  <1>1. row \in RunRows /\ run \in [Runs -> RunRows]
    BY DEF TypeOK
  <1>2. run'[r] = row => RowKept(r)
    BY DEF RowKept
  <1>3. CASE CreationStep
    <2>1. ASSUME NEW q \in Runs, NEW status, CreateAction(q, status)
          PROVE  RowKept(r)
      <3>1. CASE q = r
        <4>1. row.status = "absent"
          BY <2>1, <3>1 DEF CreateAction, RowsAgree
        <4>2. run'[r] = [row EXCEPT !.status = "authorized"]
          BY <1>1, <2>1, <3>1 DEF CreateAction
        <4> QED
          BY <1>1, <4>1, <4>2 DEF RowKept, RunRows
      <3>2. CASE q # r
        BY <1>1, <1>2, <2>1, <3>2 DEF CreateAction
      <3> QED
        BY <3>1, <3>2
    <2> QED
      BY <1>2, <1>3, <2>1 DEF CreationStep, confirm_ticket
  <1>4. CASE LifecycleStep
    <2>1. \/ run'[r] = row
          \/ row.status \in CANCELLABLE_RUN_STATUSES /\ run'[r] = Cancelled(row)
      BY <1>1, <1>4
      DEF LifecycleStep, cancel_action_run, cancel_session_action_runs,
          delete_session_with_guard
    <2> QED
      BY <1>1, <1>2, <2>1, CancelledRow
      DEF RowKept, CANCELLABLE_RUN_STATUSES, ActiveStatuses
  <1>5. ASSUME NEW a \in Attempts, AttemptStep(a)
        PROVE  RowKept(r) \/ Completes(r)
    <2>1. ASSUME NEW pc, ReserveTicketAndRun(a, pc)
          PROVE  RowKept(r)
      <3>1. CASE attempt[a].run = r
        <4>1. row.status = "authorized" /\ run'[r] = Executing(row, a)
          BY <1>1, <2>1, <3>1 DEF ReserveTicketAndRun, CanReserve
        <4> QED
          BY <1>1, <4>1, ExecutingRow DEF RowKept
      <3>2. CASE attempt[a].run # r
        BY <1>1, <1>2, <2>1, <3>2 DEF ReserveTicketAndRun
      <3> QED
        BY <3>1, <3>2
    <2>2. ASSUME NEW told \in BOOLEAN, CompleteRun(a, told)
          PROVE  RowKept(r) \/ Completes(r)
      <3>1. CASE attempt[a].run = r
        BY <2>2, <3>1 DEF Completes
      <3>2. CASE attempt[a].run # r
        BY <1>1, <1>2, <2>2, <3>2 DEF CompleteRun
      <3> QED
        BY <3>1, <3>2
    <2>3. CASE MarkLate(a)
      <3>1. run'[r] = row \/ run'[r] = Marked(row)
        BY <1>1, <2>3 DEF MarkLate
      <3> QED
        BY <1>1, <1>2, <3>1, MarkedRow DEF RowKept
    <2>4. CASE UNCHANGED run
      BY <1>2, <2>4
    <2> QED
      BY <1>5, <2>1, <2>2, <2>3, <2>4
      DEF AttemptStep, Enter, ReserveRolledBack, ReserveConflict, ResolveCommit,
          AssertFence, CallGoverned, CallLegacy, EffectLands, HandlerReturns,
          CompleteMisses, Stop
  <1>6. ASSUME NEW s \in Scanners, ScannerStep(s)
        PROVE  RowKept(r) \/ Persists(r) \/ Writes(r)
    <2>1. ASSUME NEW c, _claim(s, c)
          PROVE  RowKept(r)
      <3>1. run'[r] = row \/ run'[r] = Claimed(row, s)
        BY <1>1, <2>1 DEF _claim
      <3> QED
        BY <1>1, <1>2, <3>1, ClaimedRow DEF RowKept
    <2>2. CASE _persist_terminal_candidate(s) \/ _write_terminal(s)
      <3>1. CASE scanner[s].cand.run = r
        BY <2>2, <3>1 DEF Persists, Writes
      <3>2. CASE scanner[s].cand.run # r
        BY <1>1, <1>2, <2>2, <3>2 DEF _persist_terminal_candidate, _write_terminal
      <3> QED
        BY <3>1, <3>2
    <2>3. CASE UNCHANGED run
      BY <1>2, <2>3
    <2> QED
      BY <1>6, <2>1, <2>2, <2>3
      DEF ScannerStep, _load_candidates, ClaimConflict, UsePending, VerifyAndClassify,
          RecoverChange, GiveUp, ScanStops
  <1> QED
    BY <1>2, <1>3, <1>4, <1>5, <1>6 DEF Next, Tick, vars

\* What a scanner writes, it writes to a row it knows.
LEMMA ScannerWrites ==
    ASSUME TypeOK, ScanInv, NEW s \in Scanners,
           _persist_terminal_candidate(s) \/ _write_terminal(s)
    PROVE  LET c   == scanner[s].cand
               row == run[c.run]
           IN  /\ c \in Candidates /\ c.run \in Runs /\ HoldsClaim(s)
               /\ scanner[s].found \in Observations
               /\ Held(s, scanner[s], row)
               /\ row.status = c.status /\ row.recovery = s
               /\ row.seen = IF scanner[s].pc = "persisted" THEN scanner[s].found ELSE c.seen
               /\ _persist_terminal_candidate(s) => run'[c.run] = Noted(row, scanner[s].found)
               /\ _write_terminal(s) =>
                    /\ run'[c.run] = Closed(row, scanner[s].writes, scanner[s].found)
                    /\ scanner[s].writes \in Outcomes
                    /\ scanner[s].writes \in Writable(c.status, scanner[s].found)
  <1> DEFINE c   == scanner[s].cand
             row == run[c.run]
  <1>1. scanner[s].pc \in {"verified", "persisted"} /\ HoldsClaim(s)
    BY DEF _persist_terminal_candidate, _write_terminal
  <1>2. c \in Candidates /\ scanner[s].found \in Observations
    BY <1>1 DEF TypeOK, Claiming
  <1>3. c.run \in Runs
    BY <1>2 DEF Candidates
  <1>4. Held(s, scanner[s], row)
    BY <1>1 DEF ScanInv, Knows, ClaimingPCs
  <1>5. row.status = c.status /\ row.recovery = s /\ row.version = scanner[s].version
    BY <1>1 DEF HoldsClaim
  <1>6. row.seen = IF scanner[s].pc = "persisted" THEN scanner[s].found ELSE c.seen
    BY <1>4, <1>5 DEF Held
  <1>7. _persist_terminal_candidate(s) => run'[c.run] = Noted(row, scanner[s].found)
    BY <1>3 DEF _persist_terminal_candidate, TypeOK
  <1>8. _write_terminal(s) =>
            /\ run'[c.run] = Closed(row, scanner[s].writes, scanner[s].found)
            /\ scanner[s].writes \in Outcomes
            /\ scanner[s].writes \in Writable(c.status, scanner[s].found)
    BY <1>1, <1>3 DEF _write_terminal, TypeOK, ScanInv, Knows
  <1> QED
    BY <1>1, <1>2, <1>3, <1>4, <1>5, <1>6, <1>7, <1>8

\* Writing a terminal writes what was observed, or what is derived from it.
LEMMA WriteIsSeen ==
    ASSUME TypeOK, ScanInv, NEW r \in Runs, Writes(r)
    PROVE  /\ run[r].seen \in Observations
           /\ run'[r].seen = run[r].seen
           /\ run[r].status \in SCANNABLE_STATUSES
           /\ run'[r].status \in Outcomes
           /\ run'[r].status \in Writable(run[r].status, run[r].seen)
  <1>1. PICK s \in Scanners : _write_terminal(s) /\ scanner[s].cand.run = r
    BY DEF Writes
  <1>2. scanner[s].pc = "persisted"
    BY <1>1 DEF _write_terminal
  <1>3. /\ scanner[s].found \in Observations /\ run[r].seen = scanner[s].found
        /\ run'[r] = Closed(run[r], scanner[s].writes, scanner[s].found)
        /\ scanner[s].writes \in Outcomes /\ run[r].status = scanner[s].cand.status
        /\ scanner[s].writes \in Writable(run[r].status, run[r].seen)
    BY <1>1, <1>2, ScannerWrites
  <1>4. scanner[s].writes \in RunStatuses
    BY <1>3 DEF Outcomes, RunStatuses
  <1>5. run[r] \in RunRows
    BY DEF TypeOK
  <1>6. run[r].status \in SCANNABLE_STATUSES
    BY <1>1, <1>3, ScannerWrites DEF Candidates
  <1> QED
    BY <1>3, <1>4, <1>5, <1>6, ClosedRow

\* SeenInv is inductive.
LEMMA SeenInvStep ==
    ASSUME TypeOK, RowsAgree, ScanInv, SeenInv, [Next]_vars
    PROVE  SeenInv'
  <1> SUFFICES ASSUME NEW r \in Runs, run'[r].seen # None
               PROVE  /\ run'[r].recovery # None
                      /\ run'[r].status \notin {"absent", "authorized"}
                      /\ run'[r].status = "executing" =>
                            run'[r].seen.terminal \in Proposals[run'[r].seen.evidence]
    BY DEF SeenInv
  <1>1. run[r] \in RunRows
    BY DEF TypeOK
  <1>2. CASE RowKept(r)
    BY <1>2, ConstantsAssumption DEF RowKept, SeenInv
  <1>3. CASE Completes(r)
    <2>1. PICK a \in Attempts, told \in BOOLEAN : CompleteRun(a, told) /\ attempt[a].run = r
      BY <1>3 DEF Completes
    <2>2. run'[r] = Closed(run[r], attempt[a].result, None)
      BY <2>1 DEF CompleteRun, TypeOK
    <2>3. attempt[a].result \in RunStatuses
      BY <2>1 DEF CompleteRun, TypeOK, RunStatuses, TERMINAL_RUN_STATUSES
    <2> QED
      BY <1>1, <2>2, <2>3, ClosedRow
  <1>4. ASSUME NEW s \in Scanners, scanner[s].cand.run = r,
               _persist_terminal_candidate(s) \/ _write_terminal(s)
        PROVE  /\ run[r].recovery = s /\ run[r].recovery # None
               /\ run[r].status \in SCANNABLE_STATUSES
    BY <1>4, ScannerWrites, ConstantsAssumption DEF Candidates
  <1>5. CASE Persists(r)
    <2>1. PICK s \in Scanners : _persist_terminal_candidate(s) /\ scanner[s].cand.run = r
      BY <1>5 DEF Persists
    <2>2. /\ scanner[s].found \in Observations /\ run[r].status = scanner[s].cand.status
          /\ run'[r] = Noted(run[r], scanner[s].found)
      BY <2>1, ScannerWrites
    <2>3. Derives(run[r].status, scanner[s].found)
      BY <2>1, <2>2 DEF _persist_terminal_candidate, ScanInv, Knows
    <2>4. /\ run'[r].status = run[r].status /\ run'[r].seen = scanner[s].found
          /\ run'[r].recovery = run[r].recovery
      BY <1>1, <2>2, NotedRow
    <2> QED
      BY <1>4, <2>1, <2>3, <2>4 DEF Derives, SCANNABLE_STATUSES
  <1>6. CASE Writes(r)
    <2>1. PICK s \in Scanners : _write_terminal(s) /\ scanner[s].cand.run = r
      BY <1>6 DEF Writes
    <2>2. /\ scanner[s].found \in Observations /\ scanner[s].writes \in Outcomes
          /\ run'[r] = Closed(run[r], scanner[s].writes, scanner[s].found)
      BY <2>1, ScannerWrites
    <2>3. /\ scanner[s].writes \in RunStatuses
          /\ {"absent", "authorized", "executing"} \cap Outcomes = {}
      BY <2>2 DEF Outcomes, RunStatuses, TERMINAL_RUN_STATUSES
    <2>4. run'[r].status = scanner[s].writes /\ run'[r].recovery = run[r].recovery
      BY <1>1, <2>2, <2>3, ClosedRow
    <2> QED
      BY <1>4, <2>1, <2>2, <2>3, <2>4
  <1> QED
    BY <1>2, <1>3, <1>5, <1>6, SeenMoves

\* A pending observation is written or kept, and nothing comes after it.
LEMMA PendingStep ==
    ASSUME TypeOK, RowsAgree, ScanInv, SeenInv, [Next]_vars, NEW r \in Runs,
           Pending(run[r])
    PROVE  /\ run'[r].seen = run[r].seen
           /\ \/ run'[r].status \in {run[r].status, run[r].seen.terminal}
              \/ /\ run[r].status = "executing"
                 /\ run'[r].status \in {TerminalWhenExecuting(run[r].seen.evidence),
                                        "outcome_unknown"}
  <1>1. run[r].recovery # None /\ run[r].status \notin {"absent", "authorized"}
    BY DEF SeenInv, Pending
  <1>2. CASE RowKept(r)
    BY <1>1, <1>2 DEF RowKept
  <1>3. ~Completes(r)
    BY <1>1 DEF Completes, CompleteRun, IsCurrent
  <1>4. ~Persists(r)
    <2> SUFFICES ASSUME NEW s \in Scanners, _persist_terminal_candidate(s),
                        scanner[s].cand.run = r
                 PROVE  FALSE
      BY DEF Persists
    <2>1. scanner[s].pc = "verified" /\ ~IsPending(scanner[s].cand)
      BY DEF _persist_terminal_candidate, ScanInv, Knows
    <2>2. run[r].seen = scanner[s].cand.seen /\ run[r].status = scanner[s].cand.status
      BY <2>1, ScannerWrites
    <2> QED
      BY <2>1, <2>2 DEF IsPending, Pending
  <1>5. CASE Writes(r)
    BY <1>5, WriteIsSeen DEF Writable
  <1> QED
    BY <1>2, <1>3, <1>4, <1>5, SeenMoves

\* Both invariants hold for ever.
LEMMA ObservationsKept == Spec => [](ScanInv /\ SeenInv)
  <1>1. Init => ScanInv /\ SeenInv
    BY DEF Init, ScanInv, Knows, IdleScanner, ClaimingPCs, SeenInv, NoRun
  <1>2. TypeOK /\ RowsAgree /\ ScanInv /\ SeenInv /\ [Next]_vars => (ScanInv /\ SeenInv)'
    BY ScanInvStep, SeenInvStep
  <1> QED
    BY <1>1, <1>2, TypeCorrect, RowsAlwaysAgree, PTL DEF Spec

\* What one scan has observed and persisted is what the run ends with, whoever
\* goes on after its crash and whatever the port proposed: no later scan
\* observes again, and no attempt completes the run.
THEOREM ObservedOnce == Spec => OneReading
  <1>1. ASSUME TypeOK, RowsAgree, ScanInv, SeenInv, [Next]_vars
        PROVE  [\A r \in Runs :
                  LET row == run[r] IN Pending(row) =>
                    /\ run'[r].seen = row.seen
                    /\ \/ run'[r].status \in {row.status, row.seen.terminal}
                       \/ /\ row.status = "executing"
                          /\ run'[r].status \in
                                {TerminalWhenExecuting(row.seen.evidence),
                                 "outcome_unknown"}]_vars
    BY <1>1, PendingStep
  <1> QED
    BY <1>1, TypeCorrect, RowsAlwaysAgree, ObservationsKept, PTL DEF Spec, OneReading

\* With a port that proposes for every verification what the coordinator derives
\* from it, as the port of the repository's tests does, a terminal derived by one
\* scan is the one every later scan writes.
THEOREM AgreeingPortDerivesOnce ==
    ASSUME \A v \in Verifications : Proposals[v] = {TerminalWhenExecuting(v)}
    PROVE  Spec => DerivedTerminalWins
  <1>1. ASSUME TypeOK, RowsAgree, ScanInv, SeenInv, [Next]_vars, NEW r \in Runs,
               run[r].status = "executing", Pending(run[r]), run'[r].status # "executing"
        PROVE  run'[r].status \in {TerminalWhenExecuting(run[r].seen.evidence),
                                   "outcome_unknown"}
    <2>1. run[r].seen # None
      BY <1>1 DEF Pending
    <2>2. run[r].seen.evidence \in Verifications
      BY <1>1, <2>1 DEF TypeOK, RunRows, Observations
    <2>3. run[r].seen.terminal = TerminalWhenExecuting(run[r].seen.evidence)
      BY <1>1, <2>1, <2>2 DEF SeenInv
    <2> QED
      BY <1>1, <2>3, PendingStep
  <1>2. ASSUME TypeOK, RowsAgree, ScanInv, SeenInv, [Next]_vars
        PROVE  [\A r \in Runs :
                    /\ run[r].status = "executing" /\ Pending(run[r])
                    /\ run'[r].status # "executing"
                    => run'[r].status \in {TerminalWhenExecuting(run[r].seen.evidence),
                                           "outcome_unknown"}]_vars
    BY <1>1, <1>2
  <1> QED
    BY <1>2, TypeCorrect, RowsAlwaysAgree, ObservationsKept, PTL
    DEF Spec, DerivedTerminalWins

-----------------------------------------------------------------------------
(***************************************************************************)
(* The two tables and everything that writes them implement the contract   *)
(* of ActionContract, for every set of actions, attempts, scanners and     *)
(* sessions.  A step either moves one action, or it is a cancellation or a *)
(* deletion, which moves those of a session, or the call of a tool.        *)
(***************************************************************************)

\* The variables of the contract, action by action.

Out(r)   == IF ticket[r].status = "consumed" THEN run[r].status ELSE "none"
Calls(r) == {a \in Attempts : attempt[a].run = r /\ attempt[a].called = "governed"}

Same(r) == Phase(r)' = Phase(r) /\ Out(r)' = Out(r)

\* What a step can make of an action.
PhaseMove(r) ==
    \/ Same(r)
    \/ Phase(r) = "absent" /\ Phase(r)' = "offered" /\ Out(r)' = Out(r)
    \/ Phase(r) = "offered" /\ Phase(r)' \in {"withdrawn", "started"} /\ Out(r)' = Out(r)
    \/ Phase(r) = "started" /\ Phase(r)' = "settled" /\ Out(r)' \in Outcomes
    \/ Phase(r) = "settled" /\ Phase(r)' = "settled"

\* Every step makes one of these moves of every action.
LEMMA Phases ==
    ASSUME TypeOK, RowsAgree, [Next]_vars, NEW r \in Runs
    PROVE  PhaseMove(r)
  <1> DEFINE t  == ticket[r].status
             u  == run[r].status
             tt == ticket'[r].status
             uu == run'[r].status
  <1>1. t \in TicketStatuses /\ tt \in TicketStatuses
    BY TypeStep DEF TypeOK, TicketRows
  <1>2. /\ t = "absent" <=> u = "absent"
        /\ t \in {"issued", "authorized", "revoked"} => u \in {"authorized", "aborted"}
        /\ t = "reserved" => u \in {"executing", "outcome_unknown"}
        /\ t = "consumed" => u \in Outcomes
    BY DEF RowsAgree
  <1>3. CASE RowMove(r)
    <2>1. StatusMove(t, u, tt, uu)
      BY <1>3 DEF RowMove
    <2> QED
      BY <1>1, <1>2, <2>1
      DEF StatusMove, PhaseMove, Same, Phase, Out, TicketStatuses, Outcomes,
          TERMINAL_RUN_STATUSES, SCANNABLE_STATUSES
  <1>4. CASE \E a \in Attempts : RowReserved(r, a)
    BY <1>4 DEF RowReserved, PhaseMove, Phase, Out
  <1> QED
    BY <1>3, <1>4, EveryMove

-----------------------------------------------------------------------------
\* Steps of the contract.

\* A step that moves nothing is none of the contract's.
LEMMA Stutters ==
    ASSUME \A r \in Runs : Same(r) /\ Calls(r)' = Calls(r), sessions' = sessions
    PROVE  UNCHANGED Contract!contractVars
  BY DEF Same, Out, Calls, Contract!contractVars

\* An action appears while its session is open.
LEMMA Offers ==
    ASSUME NEW q \in Runs, \A r \in Runs \ {q} : Same(r), Out(q)' = Out(q),
           \A r \in Runs : Calls(r)' = Calls(r), sessions' = sessions,
           Phase(q) = "absent", Phase(q)' = "offered", Home[q] \in sessions
    PROVE  Contract!Offer(q)
  BY DEF Same, Out, Calls, Contract!Offer

\* A reservation starts it.
LEMMA Starts ==
    ASSUME NEW q \in Runs, \A r \in Runs \ {q} : Same(r), Out(q)' = Out(q),
           \A r \in Runs : Calls(r)' = Calls(r), sessions' = sessions,
           Phase(q) = "offered", Phase(q)' = "started"
    PROVE  Contract!Start(q)
  BY DEF Same, Out, Calls, Contract!Start

\* Whoever closes its run settles it, with the outcome of the run.
LEMMA Settles ==
    ASSUME NEW q \in Runs, \A r \in Runs \ {q} : Same(r), NEW o, Out(q)' = o,
           \A r \in Runs : Calls(r)' = Calls(r), sessions' = sessions,
           Phase(q) = "started", Phase(q)' = "settled"
    PROVE  Contract!Settle(q, o)
  BY DEF Same, Out, Calls, Contract!Settle

\* Recovery replaces an outcome that is not the last by a follow-up.
LEMMA Resolves ==
    ASSUME NEW q \in Runs, \A r \in Runs \ {q} : Same(r), Phase(q)' = Phase(q),
           \A r \in Runs : Calls(r)' = Calls(r), sessions' = sessions,
           NEW o, Out(q)' = o,
           Out(q) \in Contract!Unresolved, o \in ContractFollowups[Out(q)]
    PROVE  Contract!Resolve(q, o)
  BY DEF Same, Out, Calls, Contract!Resolve, Contract!Unresolved

WithdrawnOrSame(r) ==
    \/ Same(r)
    \/ Phase(r) = "offered" /\ Phase(r)' = "withdrawn" /\ Out(r)' = Out(r)

\* A cancellation withdraws any number of actions that have not started.
LEMMA Withdraws ==
    ASSUME \A r \in Runs : WithdrawnOrSame(r),
           \A r \in Runs : Calls(r)' = Calls(r), sessions' = sessions
    PROVE  \/ UNCHANGED Contract!contractVars
           \/ \E some \in SUBSET Runs : Contract!Withdraw(some)
  <1> DEFINE some == {r \in Runs : Phase(r)' # Phase(r)}
  <1>1. CASE some = {}
    <2>1. \A r \in Runs : Same(r)
      BY <1>1 DEF WithdrawnOrSame
    <2> QED
      BY <2>1, Stutters
  <1>2. CASE some # {}
    <2>1. \A r \in Runs : Phase(r)' = IF r \in some THEN "withdrawn" ELSE Phase(r)
      BY DEF WithdrawnOrSame, Same
    <2>2. \A r \in some : Phase(r) = "offered"
      BY DEF WithdrawnOrSame, Same
    <2>3. \A r \in Runs : Out(r)' = Out(r)
      BY DEF WithdrawnOrSame, Same
    <2>4. some \in SUBSET Runs
      OBVIOUS
    <2> HIDE DEF some
    <2>5. Contract!Withdraw(some)
      BY <1>2, <2>1, <2>2, <2>3, <2>4 DEF Out, Calls, Contract!Withdraw
    <2> QED
      BY <2>4, <2>5
  <1> QED
    BY <1>1, <1>2

\* A call of the tool is the first for its action.
LEMMA CallsTool ==
    ASSUME NEW q \in Runs, NEW a \in Attempts, \A r \in Runs : Same(r),
           \A r \in Runs \ {q} : Calls(r)' = Calls(r), sessions' = sessions,
           Phase(q) \in {"started", "settled"}, Calls(q) = {}, Calls(q)' = {a}
    PROVE  Contract!Call(q, a)
  <1> DEFINE before == [r \in Runs |-> Calls(r)]
  <1>1. /\ [r \in Runs |-> Phase(r)]' = [r \in Runs |-> Phase(r)]
        /\ [r \in Runs |-> Out(r)]' = [r \in Runs |-> Out(r)]
    BY DEF Same
  <1>2. before' = [before EXCEPT ![q] = {a}]
    OBVIOUS
  <1>3. before[q] = {}
    OBVIOUS
  <1> QED
    BY <1>1, <1>2, <1>3 DEF Out, Calls, Contract!Call

-----------------------------------------------------------------------------
\* Who has called the tool.

NotYetPCs == {"idle", "entered", "unknown", "fence", "cleared", "legacy"}

\* An attempt that is not past the handler has called nothing.
NotYet ==
    \A a \in Attempts : attempt[a].pc \in NotYetPCs => attempt[a].called = "none"

\* Nothing but a call of the tool changes who has called it.
Steady(a) ==
    /\ attempt'[a].pc \in NotYetPCs => attempt'[a].called = "none"
    /\ \A r \in Runs : attempt'[a].run = r /\ attempt'[a].called = "governed"
            <=> attempt[a].run = r /\ attempt[a].called = "governed"

\* Every step of an attempt but the call of the tool is steady.
LEMMA SteadySteps ==
    ASSUME TypeOK, NotYet, NEW a \in Attempts, AttemptStep(a), ~CallGoverned(a)
    PROVE  Steady(a)
  <1>1. attempt[a] \in AttemptStates /\ attempt \in [Attempts -> AttemptStates]
    BY DEF TypeOK
  <1>2. attempt[a].pc \in NotYetPCs => attempt[a].called = "none"
    BY DEF NotYet
  <1>3. ASSUME attempt'[a].run = attempt[a].run, attempt'[a].called = attempt[a].called,
               attempt'[a].pc \in NotYetPCs => attempt[a].pc \in NotYetPCs
        PROVE  Steady(a)
    BY <1>2, <1>3 DEF Steady
  <1>4. ASSUME NEW pc, Goto(a, pc), pc \in NotYetPCs => attempt[a].pc \in NotYetPCs
        PROVE  Steady(a)
    <2>1. /\ attempt'[a].run = attempt[a].run /\ attempt'[a].called = attempt[a].called
          /\ attempt'[a].pc = pc
      BY <1>1, <1>4 DEF Goto, AttemptStates
    <2> QED
      BY <1>3, <1>4, <2>1
  <1>5. CASE ReserveConflict(a) \/ ResolveCommit(a) \/ CompleteMisses(a)
             \/ MarkLate(a) \/ Stop(a)
             \/ \E effect \in {"present", "partial"} : EffectLands(a, effect)
    <2>1. \E pc \in AttemptPCs : /\ Goto(a, pc)
                                 /\ pc \in NotYetPCs => attempt[a].pc \in NotYetPCs
      BY <1>5
      DEF ReserveConflict, ResolveCommit, CompleteMisses, MarkLate, Stop, EffectLands,
          AttemptPCs, NotYetPCs
    <2> QED
      BY <1>4, <2>1
  <1>6. ASSUME NEW r \in Runs, Enter(a, r)
        PROVE  Steady(a)
    <2>1. /\ attempt'[a].pc = "entered" /\ attempt'[a].called = attempt[a].called
          /\ attempt[a].pc = "idle"
      BY <1>1, <1>6 DEF Enter, AttemptStates
    <2>2. attempt[a].called = "none"
      BY <1>2, <2>1 DEF NotYetPCs
    <2> QED
      BY <2>1, <2>2 DEF Steady
  <1>7. ASSUME NEW pc \in {"fence", "unknown"}, ReserveTicketAndRun(a, pc)
        PROVE  Steady(a)
    BY <1>1, <1>3, <1>7 DEF ReserveTicketAndRun, AttemptStates, NotYetPCs
  <1>8. CASE ReserveRolledBack(a)
    BY <1>1, <1>3, <1>8 DEF ReserveRolledBack, AttemptStates, NotYetPCs
  <1>9. CASE AssertFence(a)
    BY <1>1, <1>3, <1>9 DEF AssertFence, AttemptStates, NotYetPCs
  <1>10. CASE CallLegacy(a)
    <2>1. /\ attempt'[a].pc = "done" /\ attempt'[a].called = "legacy"
          /\ attempt[a].pc = "legacy"
      BY <1>1, <1>10 DEF CallLegacy, AttemptStates
    <2> QED
      BY <1>2, <2>1 DEF Steady, NotYetPCs
  <1>11. ASSUME NEW result \in {"succeeded", "failed"}, HandlerReturns(a, result)
         PROVE  Steady(a)
    BY <1>1, <1>3, <1>11 DEF HandlerReturns, AttemptStates, NotYetPCs
  <1>12. ASSUME NEW told \in BOOLEAN, CompleteRun(a, told)
         PROVE  Steady(a)
    BY <1>1, <1>3, <1>12 DEF CompleteRun, AttemptStates, NotYetPCs
  <1> QED
    BY <1>5, <1>6, <1>7, <1>8, <1>9, <1>10, <1>11, <1>12 DEF AttemptStep

\* The others stand still while one attempt moves.
LEMMA OthersStand ==
    ASSUME TypeOK, NEW a \in Attempts, AttemptStep(a), NEW b \in Attempts \ {a}
    PROVE  attempt'[b] = attempt[b]
  BY DEF AttemptStep, Enter, ReserveTicketAndRun, ReserveRolledBack, ReserveConflict,
         ResolveCommit, Goto, AssertFence, CallGoverned, CallLegacy, EffectLands,
         HandlerReturns, CompleteRun, CompleteMisses, MarkLate, Stop, TypeOK

\* No other process writes what an attempt remembers.
LEMMA AttemptsStand ==
    ASSUME [Next]_vars, \A a \in Attempts : ~AttemptStep(a)
    PROVE  attempt' = attempt
  <1>1. ASSUME NEW s \in Scanners, ScannerStep(s)
        PROVE  UNCHANGED attempt
    BY <1>1 DEF ScannerStep, _load_candidates, _claim, ClaimConflict, UsePending,
         VerifyAndClassify, RecoverChange, _persist_terminal_candidate,
         _write_terminal, GiveUp, ScanStops
  <1>2. ASSUME Tick \/ CreationStep \/ LifecycleStep \/ UNCHANGED vars
        PROVE  UNCHANGED attempt
    BY <1>2 DEF Tick, CreationStep, LifecycleStep, CreateAction, confirm_ticket, vars,
         cancel_action_run, cancel_session_action_runs, delete_session_with_guard
  <1> QED
    BY <1>1, <1>2 DEF Next

\* A step that is not a call of the tool leaves the callers of every action alone.
LEMMA CallsStand ==
    ASSUME TypeOK, NotYet, [Next]_vars, \A a \in Attempts : ~CallGoverned(a)
    PROVE  \A r \in Runs : Calls(r)' = Calls(r)
  <1>1. ASSUME NEW a \in Attempts, AttemptStep(a), NEW r \in Runs
        PROVE  Calls(r)' = Calls(r)
    BY <1>1, SteadySteps, OthersStand DEF Calls, Steady
  <1> QED
    BY <1>1, AttemptsStand DEF Calls

\* NotYet is inductive.
LEMMA NotYetStep ==
    ASSUME TypeOK, NotYet, [Next]_vars
    PROVE  NotYet'
  <1>1. ASSUME NEW a \in Attempts, CallGoverned(a)
        PROVE  attempt'[a].pc \notin NotYetPCs
    BY <1>1 DEF CallGoverned, TypeOK, AttemptStates, NotYetPCs
  <1>2. ASSUME NEW a \in Attempts, AttemptStep(a)
        PROVE  NotYet'
    BY <1>1, <1>2, SteadySteps, OthersStand DEF NotYet, Steady
  <1> QED
    BY <1>2, AttemptsStand DEF NotYet

-----------------------------------------------------------------------------
\* Which rows a step moves.

\* Rows that keep their status are the same action to the contract.
LEMMA SameRows ==
    ASSUME NEW r \in Runs, ticket'[r].status = ticket[r].status,
           run'[r].status = run[r].status
    PROVE  Same(r)
  BY DEF Same, Phase, Out

Untouched(r) == ticket'[r] = ticket[r] /\ run'[r] = run[r]

\* Only q is moved, if anything is.
OneRow(q) == \A r \in Runs \ {q} : Untouched(r)

SessionWide == \E session \in Sessions : \/ cancel_session_action_runs(session)
                                         \/ delete_session_with_guard(session)

\* Steps other than those of a whole session are about one action.
LEMMA OneAtATime ==
    ASSUME TypeOK, [Next]_vars, ~SessionWide
    PROVE  (\A r \in Runs : Untouched(r)) \/ \E q \in Runs : OneRow(q)
  <1>1. ticket \in [Runs -> TicketRows] /\ run \in [Runs -> RunRows]
    BY DEF TypeOK
  <1>2. CASE UNCHANGED <<ticket, run>>
    BY <1>2 DEF Untouched
  <1>3. ASSUME NEW q \in Runs, NEW status \in {"issued", "authorized"},
               CreateAction(q, status)
        PROVE  OneRow(q)
    BY <1>1, <1>3 DEF CreateAction, OneRow, Untouched
  <1>4. ASSUME NEW q \in Runs, confirm_ticket(q) \/ cancel_action_run(q)
        PROVE  OneRow(q)
    BY <1>1, <1>4 DEF confirm_ticket, cancel_action_run, OneRow, Untouched
  <1>5. ASSUME NEW a \in Attempts, AttemptStep(a)
        PROVE  UNCHANGED <<ticket, run>> \/ \E q \in Runs : OneRow(q)
    <2>1. ASSUME NEW pc, ReserveTicketAndRun(a, pc)
          PROVE  attempt[a].run \in Runs /\ OneRow(attempt[a].run)
      BY <1>1, <2>1 DEF ReserveTicketAndRun, OneRow, Untouched, TypeOK
    <2>2. ASSUME NEW told, CompleteRun(a, told)
          PROVE  attempt[a].run \in Runs /\ OneRow(attempt[a].run)
      BY <1>1, <2>2 DEF CompleteRun, OneRow, Untouched, TypeOK
    <2>3. CASE MarkLate(a)
      <3>1. attempt[a].run \in Runs
        BY <2>3 DEF MarkLate, TypeOK
      <3>2. OneRow(attempt[a].run)
        BY <1>1, <2>3 DEF MarkLate, OneRow, Untouched
      <3> QED
        BY <3>1, <3>2
    <2> QED
      BY <1>5, <2>1, <2>2, <2>3
      DEF AttemptStep, Enter, ReserveRolledBack, ReserveConflict, ResolveCommit,
          AssertFence, CallGoverned, CallLegacy, EffectLands, HandlerReturns,
          CompleteMisses, Stop
  <1>6. ASSUME NEW s \in Scanners, ScannerStep(s)
        PROVE  UNCHANGED <<ticket, run>> \/ \E q \in Runs : OneRow(q)
    <2>1. ASSUME NEW c \in scanner[s].todo, _claim(s, c)
          PROVE  c.run \in Runs /\ OneRow(c.run)
      <3>1. c.run \in Runs
        BY ScannerTypes DEF Candidates
      <3> QED
        BY <1>1, <2>1, <3>1 DEF _claim, OneRow, Untouched
    <2>2. ASSUME _persist_terminal_candidate(s) \/ _write_terminal(s)
          PROVE  scanner[s].cand.run \in Runs /\ OneRow(scanner[s].cand.run)
      <3>1. scanner[s].cand.run \in Runs
        BY <2>2
        DEF _persist_terminal_candidate, _write_terminal, Claiming, Candidates, TypeOK
      <3> QED
        BY <1>1, <2>2, <3>1
        DEF _persist_terminal_candidate, _write_terminal, OneRow, Untouched
    <2> QED
      BY <1>6, <2>1, <2>2
      DEF ScannerStep, _load_candidates, ClaimConflict, UsePending, VerifyAndClassify,
          RecoverChange, GiveUp, ScanStops
  <1>7. CASE Tick \/ UNCHANGED vars
    BY <1>2, <1>7 DEF Tick, vars
  <1> QED
    BY <1>2, <1>3, <1>4, <1>5, <1>6, <1>7 DEF Next, CreationStep, LifecycleStep, SessionWide

-----------------------------------------------------------------------------
\* What may follow an outcome that is not the last.

\* A settled action with an unresolved outcome got it from a scanner, which left
\* its observation; the next one names a follow-up.
Resolvable ==
    \A r \in Runs :
        ticket[r].status = "consumed" /\ run[r].status \in Contract!Unresolved =>
            \/ run[r].seen.terminal = run[r].status
            \/ run[r].seen.terminal \in ContractFollowups[run[r].status]

\* What a scan derives for an unresolved outcome is a follow-up of it.
LEMMA DerivedFollows ==
    ASSUME NEW status \in Contract!Unresolved, NEW seen, Derives(status, seen)
    PROVE  seen.terminal \in ContractFollowups[status]
  BY DEF Derives, Contract!Unresolved, ContractFollowups

\* So is what the port proposed for an executing run that a scan left in it.
LEMMA ProposedFollows ==
    ASSUME NEW seen \in Observations, seen.terminal \in Proposals[seen.evidence],
           TerminalWhenExecuting(seen.evidence) \in Contract!Unresolved
    PROVE  seen.terminal \in ContractFollowups[TerminalWhenExecuting(seen.evidence)]
  <1>1. seen.evidence \in Verifications
    BY DEF Observations
  <1>2. CASE seen.evidence = "effect_partial"
    BY <1>2 DEF TerminalWhenExecuting, ContractFollowups
  <1>3. CASE seen.evidence \in {"effect_unknown", "external_modified", "error"}
    BY <1>3 DEF TerminalWhenExecuting, ContractFollowups
  <1>4. CASE seen.evidence \in {"no_effect", "effect_matches"}
    BY <1>4 DEF TerminalWhenExecuting, Contract!Unresolved
  <1> QED
    BY <1>1, <1>2, <1>3, <1>4 DEF Verifications

\* Persisting an observation keeps the status and names a follow-up.
LEMMA PersistDerives ==
    ASSUME TypeOK, ScanInv, NEW r \in Runs, Persists(r)
    PROVE  /\ run'[r].status = run[r].status
           /\ run'[r].seen \in Observations
           /\ Derives(run[r].status, run'[r].seen)
  <1>1. PICK s \in Scanners : _persist_terminal_candidate(s) /\ scanner[s].cand.run = r
    BY DEF Persists
  <1>2. /\ scanner[s].found \in Observations /\ run[r].status = scanner[s].cand.status
        /\ run'[r] = Noted(run[r], scanner[s].found)
    BY <1>1, ScannerWrites
  <1>3. Derives(scanner[s].cand.status, scanner[s].found)
    BY <1>1 DEF _persist_terminal_candidate, ScanInv, Knows
  <1>4. run[r] \in RunRows
    BY DEF TypeOK
  <1> QED
    BY <1>2, <1>3, <1>4, NotedRow

\* A completion makes a success or a failure of a reserved action.
LEMMA CompletionCloses ==
    ASSUME TypeOK, NEW r \in Runs, Completes(r)
    PROVE  run'[r].status \in {"succeeded", "failed"} /\ ticket[r].status = "reserved"
  <1>1. PICK a \in Attempts, told \in BOOLEAN : CompleteRun(a, told) /\ attempt[a].run = r
    BY DEF Completes
  <1>2. /\ attempt[a].result \in {"succeeded", "failed"} /\ ticket[r].status = "reserved"
        /\ run'[r] = Closed(run[r], attempt[a].result, None)
    BY <1>1 DEF CompleteRun, TypeOK
  <1>3. attempt[a].result \in RunStatuses
    BY <1>2 DEF RunStatuses, TERMINAL_RUN_STATUSES
  <1>4. run[r] \in RunRows
    BY DEF TypeOK
  <1> QED
    BY <1>2, <1>3, <1>4, ClosedRow

\* The ticket of an action is consumed by the one who closes its run.
LEMMA Consumes ==
    ASSUME TypeOK, RowsAgree, [Next]_vars, NEW r \in Runs,
           ticket[r].status # "consumed", ticket'[r].status = "consumed"
    PROVE  Completes(r) \/ Writes(r)
  <1>1. ticket \in [Runs -> TicketRows] /\ ticket[r] \in TicketRows
    BY DEF TypeOK
  <1>2. ASSUME NEW row \in TicketRows, NEW status \in TicketStatuses, status # "consumed",
               ticket'[r] = Stamped(row, status)
        PROVE  FALSE
    BY <1>2, StampedRow
  <1>3. ~CreationStep
    <2>1. ASSUME NEW q \in Runs, NEW status \in {"issued", "authorized"},
                 CreateAction(q, status)
          PROVE  FALSE
      BY <1>1, <2>1 DEF CreateAction
    <2>2. ASSUME NEW q \in Runs, confirm_ticket(q)
          PROVE  FALSE
      <3>1. ticket'[r] = IF q = r THEN Stamped(ticket[r], "authorized") ELSE ticket[r]
        BY <1>1, <2>2 DEF confirm_ticket
      <3> QED
        BY <1>1, <1>2, <3>1 DEF TicketStatuses
    <2> QED
      BY <2>1, <2>2 DEF CreationStep
  <1>4. ~LifecycleStep
    <2>1. ASSUME NEW session \in Sessions, delete_session_with_guard(session)
          PROVE  FALSE
      <3>1. Revoked(ticket[r]) \in TicketRows /\ Revoked(ticket[r]).status # "consumed"
        BY <1>1, StampedRow DEF Revoked, TicketStatuses
      <3>2. \/ ticket'[r] = ticket[r]
            \/ ticket'[r] = [Revoked(ticket[r]) EXCEPT !.session = None]
        BY <2>1 DEF delete_session_with_guard
      <3> QED
        BY <3>1, <3>2 DEF TicketRows
    <2> QED
      BY <2>1 DEF LifecycleStep, cancel_action_run, cancel_session_action_runs
  <1>5. ASSUME NEW a \in Attempts, AttemptStep(a)
        PROVE  Completes(r)
    <2>1. ASSUME NEW pc, ReserveTicketAndRun(a, pc)
          PROVE  FALSE
      <3>1. \/ ticket'[r] = Stamped(ticket[r], "reserved")
            \/ ticket'[r] = ticket[r]
        BY <1>1, <2>1 DEF ReserveTicketAndRun
      <3> QED
        BY <1>1, <1>2, <3>1 DEF TicketStatuses
    <2>2. ASSUME NEW told \in BOOLEAN, CompleteRun(a, told)
          PROVE  Completes(r)
      <3>1. attempt[a].run = r
        BY <1>1, <2>2 DEF CompleteRun
      <3> QED
        BY <2>2, <3>1 DEF Completes
    <2> QED
      BY <1>5, <2>1, <2>2
      DEF AttemptStep, Enter, ReserveRolledBack, ReserveConflict, ResolveCommit,
          AssertFence, CallGoverned, CallLegacy, EffectLands, HandlerReturns,
          CompleteMisses, MarkLate, Stop
  <1>6. ASSUME NEW s \in Scanners, ScannerStep(s)
        PROVE  Writes(r)
    <2>1. _write_terminal(s)
      BY <1>6
      DEF ScannerStep, _load_candidates, _claim, ClaimConflict, UsePending,
          VerifyAndClassify, RecoverChange, _persist_terminal_candidate, GiveUp, ScanStops
    <2>2. scanner[s].cand.run = r
      BY <1>1, <2>1 DEF _write_terminal
    <2> QED
      BY <2>1, <2>2 DEF Writes
  <1> QED
    BY <1>3, <1>4, <1>5, <1>6 DEF Next, Tick, vars

\* An observation is not the NULL of a row without one.
LEMMA ObservationIsSet == \A seen \in Observations : seen # None
  BY NoneAssumption

\* Resolvable is inductive.
LEMMA ResolvableStep ==
    ASSUME TypeOK, RowsAgree, ScanInv, SeenInv, Resolvable, [Next]_vars
    PROVE  Resolvable'
  <1> SUFFICES ASSUME NEW r \in Runs, ticket'[r].status = "consumed",
                      run'[r].status \in Contract!Unresolved
               PROVE  \/ run'[r].seen.terminal = run'[r].status
                      \/ run'[r].seen.terminal \in ContractFollowups[run'[r].status]
    BY DEF Resolvable, Contract!Unresolved
  <1>1. ~Completes(r)
    BY CompletionCloses DEF Contract!Unresolved
  <1>2. CASE Writes(r)
    <2>1. /\ run[r].seen \in Observations /\ run'[r].seen = run[r].seen
          /\ run'[r].status \in Writable(run[r].status, run[r].seen)
      BY <1>2, WriteIsSeen
    <2>2. run[r].seen # None
      BY <2>1, ObservationIsSet
    <2>3. CASE run'[r].status # run[r].seen.terminal
      <3>1. /\ run[r].status = "executing"
            /\ run'[r].status = TerminalWhenExecuting(run[r].seen.evidence)
        BY <2>1, <2>3 DEF Writable
      <3>2. run[r].seen.terminal \in Proposals[run[r].seen.evidence]
        BY <2>2, <3>1 DEF SeenInv
      <3> QED
        BY <2>1, <3>1, <3>2, ProposedFollows
    <2> QED
      BY <2>1, <2>3
  <1>3. CASE ~Writes(r)
    <2>1. ticket[r].status = "consumed"
      BY <1>1, <1>3, Consumes
    <2>2. run[r].status \in Outcomes
      BY <2>1 DEF RowsAgree
    <2>3. CASE Persists(r)
      BY <2>3, PersistDerives, DerivedFollows
    <2>4. CASE RowKept(r)
      <3>1. run'[r].status = run[r].status /\ run'[r].seen = run[r].seen
        BY <2>2, <2>4 DEF RowKept, Outcomes, TERMINAL_RUN_STATUSES
      <3> QED
        BY <2>1, <3>1 DEF Resolvable
    <2> QED
      BY <1>1, <1>3, <2>3, <2>4, SeenMoves
  <1> QED
    BY <1>2, <1>3

-----------------------------------------------------------------------------
\* A settled action either keeps its outcome or gets a follow-up of it.
LEMMA FollowsUp ==
    ASSUME TypeOK, RowsAgree, ScanInv, Resolvable, [Next]_vars, NEW r \in Runs,
           Phase(r) = "settled", Phase(r)' = "settled"
    PROVE  \/ Same(r)
           \/ /\ Out(r) \in Contract!Unresolved
              /\ Out(r)' \in ContractFollowups[Out(r)]
  <1>1. ticket[r].status = "consumed" /\ ticket'[r].status = "consumed"
    BY DEF Phase
  <1>2. Out(r) = run[r].status /\ Out(r)' = run'[r].status /\ run[r].status \in Outcomes
    BY <1>1 DEF Out, RowsAgree
  <1>3. ~Completes(r)
    BY <1>1, CompletionCloses
  <1>4. CASE run'[r].status = run[r].status
    BY <1>1, <1>4, SameRows
  <1>5. CASE run'[r].status # run[r].status
    <2>1. ~RowKept(r)
      BY <1>2, <1>5 DEF RowKept, Outcomes, TERMINAL_RUN_STATUSES
    <2>2. Writes(r)
      BY <1>3, <1>5, <2>1, SeenMoves, PersistDerives
    <2>3. /\ run[r].status \in SCANNABLE_STATUSES
          /\ run'[r].status \in Writable(run[r].status, run[r].seen)
      BY <2>2, WriteIsSeen
    <2>4. run[r].status \in Contract!Unresolved /\ run[r].status # "executing"
      BY <1>2, <2>3
      DEF SCANNABLE_STATUSES, Outcomes, TERMINAL_RUN_STATUSES, Contract!Unresolved
    <2>5. run'[r].status = run[r].seen.terminal
      BY <2>3, <2>4 DEF Writable
    <2>6. run[r].seen.terminal \in ContractFollowups[run[r].status]
      BY <1>1, <1>5, <2>4, <2>5 DEF Resolvable
    <2> QED
      BY <1>2, <2>4, <2>5, <2>6
  <1> QED
    BY <1>4, <1>5

\* Follow-ups are outcomes.
LEMMA FollowupTypes ==
    ASSUME NEW o \in Contract!Unresolved
    PROVE  ContractFollowups[o] \subseteq Contract!FirstOutcomes
  <1>1. Contract!FirstOutcomes = Outcomes
    BY DEF Contract!FirstOutcomes, Contract!Unresolved, Outcomes, TERMINAL_RUN_STATUSES
  <1>2. \A v \in Verifications : Proposals[v] \subseteq Outcomes
    BY ProposalsAssumption
  <1> QED
    BY <1>1, <1>2
    DEF ContractFollowups, Contract!Unresolved, Verifications, Outcomes,
        TERMINAL_RUN_STATUSES

\* A step that moves the rows of one action is a step of the contract.
LEMMA RowStep ==
    ASSUME TypeOK, RowsAgree, ScanInv, Resolvable, [Next]_vars,
           NEW q \in Runs, OneRow(q), sessions' = sessions, LinkKept(q),
           \A r \in Runs : Calls(r)' = Calls(r)
    PROVE  [Contract!Next]_(Contract!contractVars)
  <1>1. \A r \in Runs \ {q} : Same(r)
    BY SameRows DEF OneRow, Untouched
  <1>2. CASE Same(q)
    BY <1>1, <1>2, Stutters
  <1>3. CASE Phase(q) = "absent" /\ Phase(q)' = "offered" /\ Out(q)' = Out(q)
    <2>1. Home[q] \in sessions
      BY <1>3 DEF LinkKept, Phase
    <2>2. Contract!Offer(q)
      BY <1>1, <1>3, <2>1, Offers
    <2> QED
      BY <2>2 DEF Contract!Next
  <1>4. CASE Phase(q) = "offered" /\ Phase(q)' = "started" /\ Out(q)' = Out(q)
    <2>1. Contract!Start(q)
      BY <1>1, <1>4, Starts
    <2> QED
      BY <2>1 DEF Contract!Next
  <1>5. CASE Phase(q) = "offered" /\ Phase(q)' = "withdrawn" /\ Out(q)' = Out(q)
    <2>1. \A r \in Runs : WithdrawnOrSame(r)
      BY <1>1, <1>5 DEF WithdrawnOrSame
    <2> QED
      BY <2>1, Withdraws DEF Contract!Next
  <1>6. CASE Phase(q) = "started" /\ Phase(q)' = "settled" /\ Out(q)' \in Outcomes
    <2>1. PICK o \in Outcomes : Out(q)' = o
      BY <1>6
    <2>2. Contract!Settle(q, o)
      BY <1>1, <1>6, <2>1, Settles
    <2>3. o \in Contract!FirstOutcomes
      BY <2>1
      DEF Outcomes, TERMINAL_RUN_STATUSES, Contract!FirstOutcomes, Contract!Unresolved
    <2> QED
      BY <2>2, <2>3 DEF Contract!Next
  <1>7. CASE Phase(q) = "settled" /\ Phase(q)' = "settled" /\ ~Same(q)
    <2>1. /\ Out(q) \in Contract!Unresolved
          /\ Out(q)' \in ContractFollowups[Out(q)]
      BY <1>7, FollowsUp
    <2>2. PICK o \in ContractFollowups[Out(q)] : Out(q)' = o
      BY <2>1
    <2>3. Contract!Resolve(q, o)
      BY <1>1, <1>7, <2>1, <2>2, Resolves
    <2>4. o \in Contract!FirstOutcomes
      BY <2>1, <2>2, FollowupTypes
    <2> QED
      BY <2>3, <2>4 DEF Contract!Next
  <1>8. PhaseMove(q)
    BY Phases
  <1> QED
    BY <1>2, <1>3, <1>4, <1>5, <1>6, <1>7, <1>8 DEF PhaseMove

\* Cancelling the runs of a session withdraws what was offered.
LEMMA CancelStep ==
    ASSUME TypeOK, RowsAgree, [Next]_vars, NEW session \in Sessions,
           cancel_session_action_runs(session),
           \A r \in Runs : Calls(r)' = Calls(r)
    PROVE  [Contract!Next]_(Contract!contractVars)
  <1>1. ticket' = ticket /\ sessions' = sessions
    BY DEF cancel_session_action_runs
  <1>2. ASSUME NEW r \in Runs
        PROVE  WithdrawnOrSame(r)
    <2>1. run[r] \in RunRows
      BY DEF TypeOK
    <2>2. \/ run'[r] = run[r]
          \/ run[r].status \in CANCELLABLE_RUN_STATUSES /\ run'[r] = Cancelled(run[r])
      BY DEF cancel_session_action_runs
    <2>3. CASE run'[r] = run[r]
      BY <1>1, <2>3, SameRows DEF WithdrawnOrSame
    <2>4. CASE /\ run[r].status \in CANCELLABLE_RUN_STATUSES
               /\ run'[r] = Cancelled(run[r])
      <3>1. \/ run[r].status = "executing" /\ ticket[r].status \in {"reserved"}
            \/ /\ run[r].status = "authorized" /\ run'[r].status = "aborted"
               /\ ticket[r].status \notin {"absent", "reserved", "consumed"}
        BY <2>1, <2>4, CancelledRow
        DEF CANCELLABLE_RUN_STATUSES, ActiveStatuses, RowsAgree, Outcomes,
            TERMINAL_RUN_STATUSES, TypeOK, TicketRows, TicketStatuses
      <3> QED
        BY <1>1, <3>1 DEF WithdrawnOrSame, Same, Phase, Out
    <2> QED
      BY <2>2, <2>3, <2>4
  <1> QED
    BY <1>1, <1>2, Withdraws DEF Contract!Next

\* Deleting a session closes it.
LEMMA DeleteStep ==
    ASSUME TypeOK, RowsAgree, QuietInv, NEW session \in Sessions,
           delete_session_with_guard(session),
           \A r \in Runs : Calls(r)' = Calls(r)
    PROVE  Contract!Close(session)
  <1>1. /\ ticket \in [Runs -> TicketRows] /\ run' = run
        /\ session \in sessions /\ sessions' = sessions \ {session}
    BY DEF TypeOK, delete_session_with_guard
  <1>2. ASSUME NEW r \in Runs
        PROVE  \/ ticket'[r].status = ticket[r].status
               \/ /\ ticket[r].status \in {"issued", "authorized"}
                  /\ ticket'[r].status = "revoked"
                  /\ ticket[r].session = session
    <2>1. \/ ticket'[r] = ticket[r]
          \/ /\ ticket'[r] = [Revoked(ticket[r]) EXCEPT !.session = None]
             /\ ticket[r].session = session
      BY DEF delete_session_with_guard, RunsOf
    <2>2. /\ Revoked(ticket[r]) \in TicketRows
          /\ \/ Revoked(ticket[r]) = ticket[r]
             \/ /\ ticket[r].status \in {"issued", "authorized"}
                /\ Revoked(ticket[r]).status = "revoked"
      BY <1>1, StampedRow DEF Revoked, TicketStatuses
    <2> QED
      BY <2>1, <2>2 DEF TicketRows
  <1>3. ASSUME NEW r \in Runs, Home[r] = session
        PROVE  /\ Phase(r) # "started"
               /\ Out(r) \notin Contract!Unresolved \cup {"recovery_blocked"}
               /\ Phase(r)' = IF Phase(r) = "offered" THEN "withdrawn" ELSE Phase(r)
               /\ Out(r)' = Out(r)
    <2>1. CASE ticket[r].status = "absent"
      BY <1>1, <1>2, <2>1 DEF Phase, Out, Contract!Unresolved
    <2>2. CASE ticket[r].status # "absent"
      <3>1. ticket[r].session = session
        BY <1>1, <1>3, <2>2 DEF QuietInv, Linked
      <3>2. ticket[r].status # "reserved" /\ run[r].status \notin RUN_BLOCKING_STATUSES
        BY <3>1 DEF delete_session_with_guard, HasActiveAction, RunsOf
      <3>3. ticket'[r].status = IF ticket[r].status \in {"issued", "authorized"}
                                THEN "revoked" ELSE ticket[r].status
        <4>1. ticket'[r] = [Revoked(ticket[r]) EXCEPT !.session = None]
          BY <3>1 DEF delete_session_with_guard, RunsOf
        <4>2. Revoked(ticket[r]) \in TicketRows
          BY <1>1, StampedRow DEF Revoked, TicketStatuses
        <4>3. ticket'[r].status = Revoked(ticket[r]).status
          BY <4>1, <4>2 DEF TicketRows
        <4> QED
          BY <1>1, <4>3, StampedRow DEF Revoked, TicketStatuses
      <3> QED
        BY <1>1, <3>2, <3>3 DEF Phase, Out, Contract!Unresolved, RUN_BLOCKING_STATUSES
    <2> QED
      BY <2>1, <2>2
  <1>4. ASSUME NEW r \in Runs, Home[r] # session
        PROVE  Same(r)
    <2>1. CASE Home[r] \in sessions
      <3>1. ticket[r].status = "absent" \/ ticket[r].session # session
        BY <1>4, <2>1 DEF QuietInv, Linked
      <3> QED
        BY <1>1, <1>2, <3>1, SameRows
    <2>2. CASE Home[r] \notin sessions
      <3>1. ticket[r].status \notin {"issued", "authorized"}
        BY <2>2 DEF QuietInv, QuietAfterDelete
      <3> QED
        BY <1>1, <1>2, <3>1, SameRows
    <2> QED
      BY <2>1, <2>2
  <1>5. \A r \in Runs :
            Phase(r)' = IF r \in {x \in Runs : Home[x] = session} /\ Phase(r) = "offered"
                        THEN "withdrawn" ELSE Phase(r)
    BY <1>3, <1>4 DEF Same
  <1>6. \A r \in Runs : Out(r)' = Out(r)
    BY <1>3, <1>4 DEF Same
  <1>7. \A r \in {x \in Runs : Home[x] = session} :
            /\ Phase(r) # "started"
            /\ Out(r) \notin Contract!Unresolved \cup {"recovery_blocked"}
    BY <1>3
  <1> QED
    BY <1>1, <1>5, <1>6, <1>7 DEF Out, Calls, Contract!Close

\* Calling the tool is the one call the contract allows.
LEMMA CallStep ==
    ASSUME TypeOK, RowsAgree, CallInv(Spent), NotYet, NEW a \in Attempts, CallGoverned(a)
    PROVE  [Contract!Next]_(Contract!contractVars)
  <1>1. attempt \in [Attempts -> AttemptStates] /\ attempt[a].pc = "cleared"
    BY DEF CallGoverned, TypeOK
  <1>2. PICK q \in Runs : q = attempt[a].run
    BY <1>1 DEF TypeOK
  <1>3. UNCHANGED <<sessions, ticket, run>>
    BY DEF CallGoverned
  <1>4. \A r \in Runs : Same(r)
    BY <1>3, SameRows
  <1>5. attempt'[a].run = q /\ attempt'[a].called = "governed"
    BY <1>1, <1>2 DEF CallGoverned, AttemptStates
  <1>6. \A b \in Attempts \ {a} : attempt'[b] = attempt[b]
    BY <1>1 DEF CallGoverned
  <1>7. Winner(a) /\ attempt[a].called = "none"
    BY <1>1 DEF Winner, NotYet, NotYetPCs
  <1>8. \A b \in Attempts \ {a} : ~(attempt[b].run = q /\ attempt[b].called = "governed")
    BY <1>2, <1>7 DEF CallInv, OneWinner, Winner
  <1>9. Calls(q) = {} /\ Calls(q)' = {a}
    BY <1>2, <1>5, <1>6, <1>7, <1>8 DEF Calls
  <1>10. \A r \in Runs \ {q} : Calls(r)' = Calls(r)
    BY <1>2, <1>5, <1>6, <1>7 DEF Calls
  <1>11. Phase(q) \in {"started", "settled"}
    BY <1>2, <1>7 DEF CallInv, SpentFirst, Spent, Phase
  <1>12. Contract!Call(q, a)
    BY <1>1, <1>3, <1>4, <1>9, <1>10, <1>11, CallsTool
  <1> QED
    BY <1>1, <1>12 DEF Contract!Next

-----------------------------------------------------------------------------
\* All that the refinement rests on.
Inv == TypeOK /\ RowsAgree /\ CallInv(Spent) /\ QuietInv /\ ScanInv /\ SeenInv /\ NotYet
       /\ Resolvable

\* It holds in every reachable state.
LEMMA Invariance == Spec => []Inv
  <1>1. Init => Inv
    <2> SUFFICES ASSUME Init PROVE Inv
      OBVIOUS
    <2>1. TypeOK
      BY InitType
    <2>2. RowsAgree
      BY DEF Init, RowsAgree, NoTicket, NoRun
    <2>3. CallInv(Spent)
      BY CallInvInit
    <2>4. QuietInv
      BY ConstantsAssumption DEF Init, QuietInv, Linked, QuietAfterDelete, NoTicket
    <2>5. ScanInv /\ SeenInv
      BY DEF Init, ScanInv, Knows, IdleScanner, ClaimingPCs, SeenInv, NoRun
    <2>6. NotYet
      BY DEF Init, NotYet, IdleAttempt
    <2>7. Resolvable
      BY DEF Init, Resolvable, NoTicket
    <2> QED
      BY <2>1, <2>2, <2>3, <2>4, <2>5, <2>6, <2>7 DEF Inv
  <1>2. Inv /\ [Next]_vars => Inv'
    BY TypeStep, RowsAgreeStep, SpentStep, QuietInvStep, ScanInvStep, SeenInvStep,
       NotYetStep, ResolvableStep DEF Inv
  <1> QED
    BY <1>1, <1>2, PTL DEF Spec

\* At first nothing is offered, called or settled and every session is open.
LEMMA ContractInit == Init => Contract!Init
  <1> SUFFICES ASSUME Init PROVE Contract!Init
    OBVIOUS
  <1>1. \A r \in Runs : Phase(r) = "absent" /\ Out(r) = "none" /\ Calls(r) = {}
    BY DEF Init, NoTicket, IdleAttempt, Phase, Out, Calls
  <1> QED
    BY <1>1 DEF Init, Out, Calls, Contract!Init

\* Every step is a step of the contract or leaves it alone.
LEMMA ContractStep ==
    ASSUME Inv, [Next]_vars
    PROVE  [Contract!Next]_(Contract!contractVars)
  <1> USE DEF Inv
  <1>1. CASE \E a \in Attempts : CallGoverned(a)
    BY <1>1, CallStep
  <1>2. CASE \A a \in Attempts : ~CallGoverned(a)
    <2>1. \A r \in Runs : Calls(r)' = Calls(r)
      BY <1>2, CallsStand
    <2>2. ASSUME NEW session \in Sessions, cancel_session_action_runs(session)
          PROVE  [Contract!Next]_(Contract!contractVars)
      BY <2>1, <2>2, CancelStep
    <2>3. ASSUME NEW session \in Sessions, delete_session_with_guard(session)
          PROVE  [Contract!Next]_(Contract!contractVars)
      BY <2>1, <2>3, DeleteStep DEF Contract!Next
    <2>4. CASE ~SessionWide
      <3>1. sessions' = sessions /\ \A r \in Runs : LinkKept(r)
        BY <2>4, LinksKept DEF SessionWide
      <3>2. CASE \A r \in Runs : Untouched(r)
        <4>1. \A r \in Runs : Same(r)
          BY <3>2, SameRows DEF Untouched
        <4> QED
          BY <2>1, <3>1, <4>1, Stutters
      <3>3. CASE \E q \in Runs : OneRow(q)
        BY <2>1, <3>1, <3>3, RowStep
      <3> QED
        BY <2>4, <3>2, <3>3, OneAtATime
    <2> QED
      BY <2>2, <2>3, <2>4 DEF SessionWide
  <1> QED
    BY <1>1, <1>2

\* Whatever races, crashes and recoveries the two tables go through, an action
\* is offered, withdrawn or started, called and settled as ActionContract says.
THEOREM GovernanceKeepsContract == Spec => ImplementsContract
  <1>1. Inv /\ [Next]_vars => [Contract!Next]_(Contract!contractVars)
    BY ContractStep
  <1> QED
    BY ContractInit, Invariance, <1>1, PTL DEF Spec, ImplementsContract, Contract!Spec

-----------------------------------------------------------------------------
(***************************************************************************)
(* What is left of the safety of governed actions on a database without    *)
(* row locks.  RowsAgree is not: a cancellation writes back what it read   *)
(* before a reservation, and a deletion revokes tickets that have been     *)
(* consumed since.  An action is called by one attempt all the same,       *)
(* because a ticket that was reserved never becomes available again.       *)
(***************************************************************************)
\* What the SELECT of the request returned are rows, of actions that exist.
RequestOK ==
    /\ request.kind \in {"none", "cancel", "delete"}
    /\ \A r \in DOMAIN request.runs :
          /\ r \in Runs /\ request.runs[r] \in RunRows
          /\ ticket[r].status # "absent"
    /\ \A r \in DOMAIN request.tickets :
          r \in Runs /\ request.tickets[r] \in TicketRows

\* A revoked ticket may have been reserved, or consumed, before.
SpentOrRevoked == Spent \cup {"revoked"}

DesktopInv == TypeOK /\ RequestOK /\ Born /\ CallInv(SpentOrRevoked)

LEMMA SpentOrRevokedLasts == Lasting(SpentOrRevoked)
  BY DEF Lasting, SpentOrRevoked, Spent

LEMMA NothingRequested ==
    DOMAIN NoRequest.runs = {} /\ DOMAIN NoRequest.tickets = {}
  BY DEF NoRequest

\* A ticket that exists goes on to exist.
Exists == \A r \in Runs : ticket[r].status # "absent" => ticket'[r].status # "absent"

\* A request that waits keeps what it read.
LEMMA RequestWaits ==
    ASSUME RequestOK, Exists, UNCHANGED request
    PROVE  RequestOK'
  BY DEF RequestOK, Exists

LEMMA RequestOver ==
    ASSUME request' = NoRequest
    PROVE  RequestOK'
  <1>1. request'.kind = "none" /\ DOMAIN request'.runs = {}
        /\ DOMAIN request'.tickets = {}
    BY NothingRequested DEF NoRequest
  <1> QED
    BY <1>1 DEF RequestOK

\* The steps it shares with the other build keep the invariant.
LEMMA SharedStep ==
    ASSUME DesktopInv, Next, UNCHANGED request
    PROVE  DesktopInv'
  <1>1. TypeOK'
    BY TypeStep DEF DesktopInv
  <1>2. CallInv(SpentOrRevoked)'
    BY CallInvStep, SpentOrRevokedLasts DEF DesktopInv
  <1>3. ASSUME NEW r \in Runs
        PROVE  RowMove(r) \/ \E a \in Attempts : RowReserved(r, a)
    <2>1. ASSUME NEW a \in Attempts, AttemptStep(a)
          PROVE  RowMove(r) \/ RowReserved(r, a)
      BY <2>1, AttemptMoves, ReserveMoves DEF DesktopInv
    <2> QED
      BY <2>1, LifecycleMoves, ScannerMoves DEF Next, DesktopInv
  <1>4. ASSUME NEW r \in Runs
        PROVE  /\ ticket[r].status # "absent" => ticket'[r].status # "absent"
               /\ ticket'[r].status = "absent" => run'[r].status = "absent"
    BY <1>3 DEF RowMove, RowReserved, StatusMove, DesktopInv, Born, SCANNABLE_STATUSES
  <1>5. Exists /\ Born'
    BY <1>4 DEF Exists, Born
  <1> QED
    BY <1>1, <1>2, <1>5, RequestWaits DEF DesktopInv

\* A SELECT changes no row.
LEMMA SelectStep ==
    ASSUME DesktopInv, NEW session \in Sessions,
           SelectRunsToCancel(session) \/ SelectTicketsToDelete(session)
    PROVE  DesktopInv'
  <1>1. UNCHANGED vars
    BY DEF SelectRunsToCancel, SelectTicketsToDelete
  <1>2. TypeOK' /\ Born' /\ CallInv(SpentOrRevoked)'
    BY <1>1 DEF DesktopInv, vars, TypeOK, Claiming, Born, CallInv, SpentFirst, WinnerOwns,
                OneWinner, FreshAttempts, Winner
  <1>3. CASE SelectRunsToCancel(session)
    <2> DEFINE hit == {r \in RunsOf(session) :
                          run[r].status \in CANCELLABLE_RUN_STATUSES}
    <2>1. /\ request'.kind = "cancel" /\ request'.runs = [r \in hit |-> run[r]]
          /\ request'.tickets = NoRequest.tickets
      BY <1>3 DEF SelectRunsToCancel, NoRequest
    <2>2. ASSUME NEW r \in hit
          PROVE  r \in Runs /\ run[r] \in RunRows /\ ticket[r].status # "absent"
      BY DEF RunsOf, DesktopInv, TypeOK, Born, CANCELLABLE_RUN_STATUSES, ActiveStatuses
    <2>3. RequestOK'
      BY <1>1, <2>1, <2>2, NothingRequested DEF RequestOK, vars
    <2> QED
      BY <1>2, <2>3 DEF DesktopInv
  <1>4. CASE SelectTicketsToDelete(session)
    <2>1. /\ request'.kind = "delete"
          /\ request'.tickets = [r \in RunsOf(session) |-> ticket[r]]
          /\ request'.runs = NoRequest.runs
      BY <1>4 DEF SelectTicketsToDelete, NoRequest
    <2>2. ASSUME NEW r \in RunsOf(session)
          PROVE  r \in Runs /\ ticket[r] \in TicketRows
      BY DEF RunsOf, DesktopInv, TypeOK
    <2>3. RequestOK'
      BY <2>1, <2>2, NothingRequested DEF RequestOK
    <2> QED
      BY <1>2, <2>3 DEF DesktopInv
  <1> QED
    BY <1>3, <1>4

\* A write of the runs or of the tickets alone, whose rows are rows, keeps types.
LEMMA WriteTyped ==
    ASSUME TypeOK, UNCHANGED <<clock, object, attempt, scanner>>,
           sessions' \subseteq Sessions,
           ticket' \in [Runs -> TicketRows], run' \in [Runs -> RunRows]
    PROVE  TypeOK'
  BY DEF TypeOK, Claiming

\* No write makes a winner.
LEMMA WriteCalls ==
    ASSUME TypeOK, CallInv(SpentOrRevoked), UNCHANGED attempt,
           \A r \in Runs : CallMove(r, SpentOrRevoked)
    PROVE  CallInv(SpentOrRevoked)'
  BY CallInvKept DEF Winner

\* The cancellation writes runs that exist, and only takes leases away.
LEMMA FlushCancelStep ==
    ASSUME DesktopInv, FlushCancel
    PROVE  DesktopInv'
  <1> DEFINE read == request.runs
  <1>1. /\ UNCHANGED <<clock, sessions, ticket, object, attempt, scanner>>
        /\ request' = NoRequest /\ sessions \subseteq Sessions
        /\ ticket \in [Runs -> TicketRows] /\ TypeOK
    BY DEF FlushCancel, DesktopInv, TypeOK
  <1>2. ASSUME NEW r \in Runs
        PROVE  \/ run'[r] = run[r]
               \/ /\ r \in DOMAIN read
                  /\ run'[r] = [run[r] EXCEPT !.status = Cancelled(read[r]).status,
                                  !.generation = Cancelled(read[r]).generation,
                                  !.version = Cancelled(read[r]).version,
                                  !.owner = IF read[r].owner = None THEN @ ELSE None,
                                  !.lease = IF read[r].owner = None THEN @ ELSE 0]
    BY DEF FlushCancel
  <1>3. ASSUME NEW r \in Runs
        PROVE  /\ run'[r] \in RunRows
               /\ run'[r].owner \in {run[r].owner, None}
               /\ run'[r] = run[r] \/ ticket[r].status # "absent"
    <2>1. run[r] \in RunRows
      BY DEF DesktopInv, TypeOK
    <2>2. CASE run'[r] # run[r]
      <3>1. r \in DOMAIN read /\ ticket[r].status # "absent" /\ read[r] \in RunRows
        BY <1>2, <2>2 DEF DesktopInv, RequestOK
      <3>2. Cancelled(read[r]) \in RunRows
        BY <3>1, CancelledRow
      <3>3. LET new == Cancelled(read[r])
            IN  new.status \in RunStatuses /\ new.generation \in Nat /\ new.version \in Nat
        BY <3>2 DEF RunRows
      <3>4. run[r].owner \in Attempts \cup {None} /\ run[r].lease \in Nat
        BY <2>1 DEF RunRows
      <3>5. run'[r] \in RunRows /\ run'[r].owner \in {run[r].owner, None}
        <4> DEFINE new == Cancelled(read[r])
                   owner == IF read[r].owner = None THEN run[r].owner ELSE None
                   lease == IF read[r].owner = None THEN run[r].lease ELSE 0
        <4>1. owner \in Attempts \cup {None} /\ owner \in {run[r].owner, None}
          BY <3>4
        <4>2. lease \in Nat
          BY <3>4
        <4>3. run'[r] = [run[r] EXCEPT !.status = new.status,
                            !.generation = new.generation, !.version = new.version,
                            !.owner = owner, !.lease = lease]
          BY <1>2, <2>2
        <4>4. new.status \in RunStatuses /\ new.generation \in Nat /\ new.version \in Nat
          BY <3>3
        <4> HIDE DEF new, owner, lease
        <4> QED
          BY <2>1, <4>1, <4>2, <4>3, <4>4 DEF RunRows
      <3> QED
        BY <3>1, <3>5
    <2> QED
      BY <2>1, <2>2
  <1>4. run' \in [Runs -> RunRows]
    BY <1>3 DEF FlushCancel
  <1>5. TypeOK'
    BY <1>1, <1>4, WriteTyped
  <1>6. Born'
    BY <1>1, <1>3 DEF DesktopInv, Born
  <1>7. CallInv(SpentOrRevoked)'
    <2>1. \A r \in Runs : CallMove(r, SpentOrRevoked)
      BY <1>1, <1>3 DEF CallMove
    <2> QED
      BY <1>1, <2>1, WriteCalls DEF DesktopInv
  <1> QED
    BY <1>1, <1>5, <1>6, <1>7, RequestOver DEF DesktopInv

\* The deletion leaves the status of a ticket alone or revokes it.
LEMMA FlushDeleteStep ==
    ASSUME DesktopInv, FlushDelete
    PROVE  DesktopInv'
  <1> DEFINE read == request.tickets
             written(r) == IF Revoked(read[r]) = read[r] THEN ticket[r]
                           ELSE [ticket[r] EXCEPT !.status = "revoked",
                                                  !.version = Revoked(read[r]).version]
  <1>1. /\ UNCHANGED <<clock, run, object, attempt, scanner>>
        /\ request' = NoRequest /\ TypeOK
        /\ run \in [Runs -> RunRows] /\ ticket \in [Runs -> TicketRows]
        /\ sessions \subseteq Sessions
    BY DEF FlushDelete, DesktopInv, TypeOK
  <1>2. sessions' \subseteq Sessions
    BY <1>1 DEF FlushDelete
  <1>3. ASSUME NEW r \in Runs
        PROVE  \/ ticket'[r] = ticket[r]
               \/ r \in DOMAIN read /\ ticket'[r] = [written(r) EXCEPT !.session = None]
               \/ ticket'[r] = [ticket[r] EXCEPT !.session = None]
    BY DEF FlushDelete
  <1>4. ASSUME NEW r \in Runs
        PROVE  /\ ticket'[r] \in TicketRows
               /\ ticket'[r].status \in {ticket[r].status, "revoked"}
    <2>1. ticket[r] \in TicketRows
      BY <1>1
    <2>2. ASSUME NEW row \in TicketRows
          PROVE  /\ [row EXCEPT !.session = None] \in TicketRows
                 /\ [row EXCEPT !.session = None].status = row.status
      BY DEF TicketRows
    <2>3. ASSUME r \in DOMAIN read
          PROVE  /\ written(r) \in TicketRows
                 /\ written(r).status \in {ticket[r].status, "revoked"}
      <3>1. Revoked(read[r]) \in TicketRows
        BY <2>3, StampedRow DEF DesktopInv, RequestOK, Revoked, TicketStatuses
      <3>2. Revoked(read[r]).version \in Nat
        BY <3>1 DEF TicketRows
      <3>3. ASSUME NEW version \in Nat
            PROVE  LET row == [ticket[r] EXCEPT !.status = "revoked", !.version = version]
                   IN  row \in TicketRows /\ row.status = "revoked"
        BY <2>1 DEF TicketRows, TicketStatuses
      <3> QED
        BY <2>1, <3>2, <3>3
    <2> HIDE DEF written
    <2> QED
      BY <1>3, <2>1, <2>2, <2>3
  <1>5. ticket' \in [Runs -> TicketRows]
    <2>1. \E f : ticket' = [r \in Runs |-> f[r]]
      BY <1>1 DEF FlushDelete
    <2> QED
      BY <1>4, <2>1
  <1>6. TypeOK'
    BY <1>1, <1>2, <1>5, WriteTyped
  <1>7. Born'
    BY <1>1, <1>4 DEF DesktopInv, Born
  <1>8. CallInv(SpentOrRevoked)'
    <2>1. \A r \in Runs : CallMove(r, SpentOrRevoked)
      BY <1>1, <1>4 DEF CallMove, SpentOrRevoked
    <2> QED
      BY <1>1, <2>1, WriteCalls DEF DesktopInv
  <1> QED
    BY <1>1, <1>6, <1>7, <1>8, RequestOver DEF DesktopInv

\* It holds in every reachable state of the desktop build.
LEMMA DesktopInvariance == DesktopSpec => []DesktopInv
  <1>1. DesktopInit => DesktopInv
    <2> SUFFICES ASSUME DesktopInit PROVE DesktopInv
      OBVIOUS
    <2>1. Init /\ request = NoRequest
      BY DEF DesktopInit
    <2>2. RequestOK
      BY <2>1, NothingRequested DEF RequestOK, NoRequest
    <2>3. Born
      BY <2>1 DEF Init, Born, NoRun
    <2> QED
      BY <2>1, <2>2, <2>3, InitType, CallInvInit DEF DesktopInv
  <1>2. DesktopInv /\ [DesktopNext]_desktopVars => DesktopInv'
    <2> SUFFICES ASSUME DesktopInv, [DesktopNext]_desktopVars PROVE DesktopInv'
      OBVIOUS
    <2>1. CASE /\ \/ Tick
                  \/ CreationStep
                  \/ \E a \in Attempts : AttemptStep(a)
                  \/ \E s \in Scanners : ScannerStep(s)
                  \/ \E r \in Runs : cancel_action_run(r)
               /\ UNCHANGED request
      BY <2>1, SharedStep DEF Next, LifecycleStep
    <2>2. CASE \E session \in Sessions : \/ SelectRunsToCancel(session)
                                         \/ SelectTicketsToDelete(session)
      BY <2>2, SelectStep
    <2>3. CASE DropRequest \/ UNCHANGED desktopVars
      <3>1. UNCHANGED vars /\ (request' = NoRequest \/ UNCHANGED request)
        BY <2>3 DEF DropRequest, desktopVars
      <3>2. RequestOK'
        BY <3>1, RequestOver DEF DesktopInv, RequestOK, vars
      <3> QED
        BY <3>1, <3>2 DEF DesktopInv, vars, TypeOK, Claiming, Born, CallInv, SpentFirst,
                          WinnerOwns, OneWinner, FreshAttempts, Winner
    <2> QED
      BY <2>1, <2>2, <2>3, FlushCancelStep, FlushDeleteStep DEF DesktopNext
  <1> QED
    BY <1>1, <1>2, PTL DEF DesktopSpec

\* On the desktop the requests of session_lifecycle.py write rows that have
\* changed since they were read.  What they write is well typed, and ...
THEOREM DesktopTypes == DesktopSpec => []TypeOK
  <1>1. DesktopInv => TypeOK
    BY DEF DesktopInv
  <1> QED
    BY <1>1, DesktopInvariance, PTL

\* ... the tool of an action is still called by one attempt at most: neither
\* request ever makes a ticket available again or hands a lease to anybody.
THEOREM OneCallOnTheDesktop == DesktopSpec => []DesktopOneGovernedCall
  <1>1. DesktopInv => DesktopOneGovernedCall
    BY CallInvMeans DEF DesktopInv, DesktopOneGovernedCall
  <1> QED
    BY <1>1, DesktopInvariance, PTL
=============================================================================
