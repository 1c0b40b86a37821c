--------------------------- MODULE ActionGovernance ---------------------------
(***************************************************************************)
(* Governed system-assistant actions: every action is a ticket row and a   *)
(* run row of one database, driven by                                      *)
(*   - execution attempts (execute_with_governance, complete_action_run),  *)
(*   - cancellation and session deletion (session_lifecycle.py),           *)
(*   - recovery scanners (recovery_coordinator.py),                        *)
(* which share nothing but those rows, a clock and the object the tool     *)
(* changes.  An action here is one transaction, or one call to the tool or *)
(* to the recovery port; whatever one coroutine remembers between two of   *)
(* its awaits is in its own record (attempt[a], scanner[s]).               *)
(* The database locks rows (MySQL); DesktopLifecycle.tla drops that.       *)
(***************************************************************************)
EXTENDS Naturals, FiniteSets

CONSTANTS
    Runs,          \* actions; a run and its ticket share an identity
    Attempts,      \* calls of execute_with_governance
    Scanners,      \* recovery owners (one uuid per scan)
    Sessions,      \* chat sessions
    Home,          \* Home[r]: the session the action was created in
    Doubts,        \* inconclusive answers the verifier may give in this model
    Proposals,     \* Proposals[v]: terminals the recovery port may propose with v
    None,          \* SQL NULL
    TicketTTL,     \* expires_at - creation   (300 s in agent.py)
    ExecLease,     \* lease_seconds of execute_with_governance (60 s)
    RecoveryLease, \* lease_seconds of the coordinator (30 s)
    MaxClock,      \* bound: the clock stops here
    MaxVersion     \* bound: no scan claims a run of this state_version

ASSUME ConstantsAssumption ==
    /\ Home \in [Runs -> Sessions]
    /\ Doubts \subseteq {"effect_unknown", "external_modified", "error"}
    /\ None \notin Attempts \cup Scanners
    /\ {TicketTTL, ExecLease, RecoveryLease} \subseteq Nat \ {0}
    /\ {MaxClock, MaxVersion} \subseteq Nat

VARIABLES
    clock,     \* utc_now()
    sessions,  \* rows of ai_chat_sessions
    ticket,    \* rows of system_assistant_action_tickets
    run,       \* rows of system_assistant_action_runs
    object,    \* what the tool did to the object of each action
    attempt,   \* local state of each execution attempt
    scanner    \* local state of each recovery scanner

vars == <<clock, sessions, ticket, run, object, attempt, scanner>>

TicketStatuses ==
    {"absent", "issued", "authorized", "reserved", "consumed", "revoked"}
ActiveStatuses == {"authorized", "executing"}
TERMINAL_RUN_STATUSES ==
    {"succeeded", "failed", "partially_failed", "recovered",
     "recovery_blocked", "outcome_unknown", "aborted"}
RunStatuses == {"absent"} \cup ActiveStatuses \cup TERMINAL_RUN_STATUSES
RUN_BLOCKING_STATUSES ==
    {"executing", "partially_failed", "recovery_blocked", "outcome_unknown"}
SCANNABLE_STATUSES == {"executing", "partially_failed", "outcome_unknown"}
\* Mutants: the status guard of a cancellation, too wide.
Cancellable_Unknown == ActiveStatuses \cup {"outcome_unknown"}
Cancellable_Any == RunStatuses \ {"absent"}
CANCELLABLE_RUN_STATUSES == ActiveStatuses
Verifications ==
    {"no_effect", "effect_matches", "effect_partial", "effect_unknown",
     "external_modified", "error"}
Effects == {"none", "present", "partial"}

\* The terminals of a run that was started.
Outcomes == TERMINAL_RUN_STATUSES \ {"aborted"}

\* The recovery port is external.  The coordinator never looks at the terminal
\* it proposes; this model assumes that it is the status of a run that ended.
\* The coordinator's own observation of an error proposes outcome_unknown.
ASSUME ProposalsAssumption ==
    /\ Proposals \in [Verifications -> SUBSET Outcomes]
    /\ \A v \in Verifications : Proposals[v] # {}
    /\ "outcome_unknown" \in Proposals["error"]

\* result_summary.recovery_observation: the terminal it proposes and the digest
\* of its evidence, which here is the verification it reports.
Observations == [terminal : Outcomes, evidence : Verifications]
ASSUME NoneAssumption == None \notin Observations

Candidates == [run : Runs, status : SCANNABLE_STATUSES, version : Nat,
               seen : Observations \cup {None}]

AttemptPCs ==
    {"idle", "entered", "unknown", "fence", "cleared", "legacy", "running",
     "acted", "completing", "marking", "inflight", "gone", "done"}
ScannerPCs ==
    {"idle", "scanning", "claimed", "verified", "recovering", "persisted"}

NoTicket == [status |-> "absent", version |-> 0, expires |-> 0, session |-> None]
NoRun == [status |-> "absent", version |-> 0, generation |-> 0,
          owner |-> None, lease |-> 0, recovery |-> None, recoveryLease |-> 0,
          seen |-> None, late |-> FALSE]
IdleAttempt == [pc |-> "idle", run |-> None, now |-> 0, tver |-> 0, rver |-> 0,
                generation |-> 0, called |-> "none", result |-> None,
                told |-> FALSE]
IdleScanner == [pc |-> "idle", todo |-> {}, cand |-> None, version |-> 0,
                found |-> None, writes |-> None]

Init ==
    /\ clock = 0
    /\ sessions = Sessions
    /\ ticket = [r \in Runs |-> NoTicket]
    /\ run = [r \in Runs |-> NoRun]
    /\ object = [r \in Runs |-> "none"]
    /\ attempt = [a \in Attempts |-> IdleAttempt]
    /\ scanner = [s \in Scanners |-> IdleScanner]

-----------------------------------------------------------------------------
\* Time and the creation of an action.

Tick ==
    /\ clock < MaxClock
    /\ clock' = clock + 1
    /\ UNCHANGED <<sessions, ticket, run, object, attempt, scanner>>

\* Every transition of a ticket also advances its state_version.
Stamped(row, status) == [row EXCEPT !.status = status, !.version = @ + 1]

\* Both rows are inserted in one commit; the foreign key of the ticket needs
\* the session row.  The live driver creates the ticket already authorized.
CreateAction(r, status) ==
    /\ ticket[r].status = "absent"
    /\ Home[r] \in sessions
    /\ ticket' = [ticket EXCEPT ![r] =
            [status |-> status, session |-> Home[r],
             version |-> IF status = "issued" THEN 0 ELSE 1,
             expires |-> clock + TicketTTL]]
    /\ run' = [run EXCEPT ![r] = [@ EXCEPT !.status = "authorized"]]
    /\ UNCHANGED <<clock, sessions, object, attempt, scanner>>

confirm_ticket(r) ==
    /\ ticket[r].status = "issued"
    /\ ticket[r].expires > clock
    /\ ticket' = [ticket EXCEPT ![r] = Stamped(@, "authorized")]
    /\ UNCHANGED <<clock, sessions, run, object, attempt, scanner>>

-----------------------------------------------------------------------------
\* execute_with_governance, await by await.

Goto(a, pc) == attempt' = [attempt EXCEPT ![a] = [@ EXCEPT !.pc = pc]]

\* now and the expected versions are fixed when the attempt enters.
Enter(a, r) ==
    /\ attempt[a].pc = "idle"
    /\ ticket[r].status # "absent"
    /\ attempt' = [attempt EXCEPT ![a] =
            [@ EXCEPT !.pc = "entered", !.run = r, !.now = clock,
                      !.tver = ticket[r].version, !.rver = run[r].version]]
    /\ UNCHANGED <<clock, sessions, ticket, run, object, scanner>>

\* Mutant: only the run is compared and swapped.
CanReserve_RunOnly(a) ==
    LET r == attempt[a].run IN
    run[r].status = "authorized" /\ run[r].version = attempt[a].rver

CanReserve(a) ==
    LET r == attempt[a].run IN
    /\ ticket[r].status = "authorized"
    /\ ticket[r].version = attempt[a].tver
    /\ ticket[r].expires > attempt[a].now
    /\ run[r].status = "authorized"
    /\ run[r].version = attempt[a].rver

Executing(row, a) ==
    [row EXCEPT !.status = "executing",
                !.version = @ + 1,
                !.generation = @ + 1,
                !.owner = a,
                !.lease = attempt[a].now + ExecLease]

\* reserve_ticket_and_run followed by a commit that is durable; the commit may
\* still raise because its acknowledgement is lost ("unknown").
ReserveTicketAndRun(a, pc) ==
    LET r == attempt[a].run IN
    /\ attempt[a].pc = "entered"
    /\ CanReserve(a)
    /\ ticket' = [ticket EXCEPT ![r] = Stamped(@, "reserved")]
    /\ run' = [run EXCEPT ![r] = Executing(@, a)]
    /\ attempt' = [attempt EXCEPT ![a] =
            [@ EXCEPT !.pc = pc, !.generation = run[r].generation + 1]]
    /\ UNCHANGED <<clock, sessions, object, scanner>>

\* The commit raises and nothing of the transaction survives.
ReserveRolledBack(a) ==
    /\ attempt[a].pc = "entered"
    /\ CanReserve(a)
    /\ attempt' = [attempt EXCEPT ![a] =
            [@ EXCEPT !.pc = "unknown",
                      !.generation = run[attempt[a].run].generation + 1]]
    /\ UNCHANGED <<clock, sessions, ticket, run, object, scanner>>

\* ActionCASConflict: neither handler is called.
ReserveConflict(a) ==
    /\ attempt[a].pc = "entered"
    /\ ~CanReserve(a)
    /\ Goto(a, "done")
    /\ UNCHANGED <<clock, sessions, ticket, run, object, scanner>>

\* Mutant: the lease owner is not compared.
MatchesAttempt_AnyOwner(a) ==
    LET r == attempt[a].run IN
    /\ ticket[r].status = "reserved"
    /\ run[r].status = "executing"
    /\ run[r].generation = attempt[a].generation

\* _matches_attempt on the rows an independent connection reads.
MatchesAttempt(a) ==
    LET r == attempt[a].run IN
    /\ ticket[r].status = "reserved"
    /\ run[r].status = "executing"
    /\ run[r].generation = attempt[a].generation
    /\ run[r].owner = a

\* After a commit that raised.  The independent read itself may fail, and the
\* live driver passes no factory for it: then neither path is taken.
ResolveCommit(a) ==
    LET r == attempt[a].run IN
    /\ attempt[a].pc = "unknown"
    /\ \/ Goto(a, "done")
       \/ MatchesAttempt(a) /\ Goto(a, "fence")
       \/ /\ ticket[r].status = "authorized" /\ run[r].status = "authorized"
          /\ Goto(a, "legacy")
    /\ UNCHANGED <<clock, sessions, ticket, run, object, scanner>>

FenceHolds(a) ==
    LET r == attempt[a].run IN
    /\ run[r].status = "executing"
    /\ run[r].generation = attempt[a].generation
    /\ run[r].owner # None
    /\ run[r].lease > clock
    /\ run[r].recovery = None

\* assert_execution_fence; a rejected attempt still reports a failure.
AssertFence(a) ==
    /\ attempt[a].pc = "fence"
    /\ attempt' = [attempt EXCEPT ![a] =
            IF FenceHolds(a)
            THEN [@ EXCEPT !.pc = "cleared"]
            ELSE [@ EXCEPT !.pc = "completing", !.result = "failed"]]
    /\ UNCHANGED <<clock, sessions, ticket, run, object, scanner>>

\* The handler starts after one more await; it never looks at the fence.
CallGoverned(a) ==
    /\ attempt[a].pc = "cleared"
    /\ attempt' = [attempt EXCEPT ![a] =
            [@ EXCEPT !.pc = "running", !.called = "governed"]]
    /\ UNCHANGED <<clock, sessions, ticket, run, object, scanner>>

CallLegacy(a) ==
    /\ attempt[a].pc = "legacy"
    /\ attempt' = [attempt EXCEPT ![a] =
            [@ EXCEPT !.pc = "done", !.called = "legacy"]]
    /\ UNCHANGED <<clock, sessions, ticket, run, object, scanner>>

\* The tool changes its object.  A handler that was cancelled or whose process
\* died may have its request on the wire ("inflight").
EffectLands(a, effect) ==
    LET pc == attempt[a].pc IN
    /\ pc \in {"running", "inflight"}
    /\ object' = [object EXCEPT ![attempt[a].run] = effect]
    /\ Goto(a, IF pc = "running" THEN "acted" ELSE "gone")
    /\ UNCHANGED <<clock, sessions, ticket, run, scanner>>

\* A returned value is reported as a success, an exception as a failure.
HandlerReturns(a, result) ==
    /\ attempt[a].pc \in {"running", "acted"}
    /\ attempt' = [attempt EXCEPT ![a] =
            [@ EXCEPT !.pc = "completing", !.result = result]]
    /\ UNCHANGED <<clock, sessions, ticket, run, object, scanner>>

\* The coroutine is cancelled (abort route) or its process dies at an await.
Stop(a) ==
    /\ attempt[a].pc \notin {"idle", "done", "gone", "inflight"}
    /\ Goto(a, IF attempt[a].pc = "running" THEN "inflight" ELSE "gone")
    /\ UNCHANGED <<clock, sessions, ticket, run, object, scanner>>

-----------------------------------------------------------------------------
\* complete_action_run: ticket CAS, then run CAS, in one transaction.

IsCurrent(a) ==
    LET r == attempt[a].run IN
    /\ run[r].status = "executing"
    /\ run[r].generation = attempt[a].generation
    /\ run[r].lease > clock
    /\ run[r].recovery = None

\* A terminal status, written with the observation it rests on.
Closed(row, status, seen) ==
    [row EXCEPT !.status = status, !.version = @ + 1,
                !.seen = seen, !.late = FALSE]

\* told: the caller learns that it won (the acknowledgement may be lost).
CompleteRun(a, told) ==
    LET r == attempt[a].run IN
    /\ attempt[a].pc = "completing"
    /\ ticket[r].status = "reserved"
    /\ IsCurrent(a)
    /\ ticket' = [ticket EXCEPT ![r] = Stamped(@, "consumed")]
    /\ run' = [run EXCEPT ![r] = Closed(@, attempt[a].result, None)]
    /\ attempt' = [attempt EXCEPT ![a] =
            [@ EXCEPT !.pc = "done", !.told = told]]
    /\ UNCHANGED <<clock, sessions, object, scanner>>

\* A current run whose ticket is not reserved ends the call; a stale completion
\* goes on to leave its marker in a second transaction.
CompleteMisses(a) ==
    LET r == attempt[a].run IN
    /\ attempt[a].pc = "completing"
    /\ ~(ticket[r].status = "reserved" /\ IsCurrent(a))
    /\ Goto(a, IF IsCurrent(a) THEN "done" ELSE "marking")
    /\ UNCHANGED <<clock, sessions, ticket, run, object, scanner>>

\* Mutant: the marker also lands on terminal rows.
TakesMarker_Any(r) == ~run[r].late

TakesMarker(r) ==
    run[r].status \notin TERMINAL_RUN_STATUSES /\ ~run[r].late

Marked(row) == [row EXCEPT !.version = @ + 1, !.late = TRUE]

\* LATE_COMPLETION_IGNORED, once, and never on a terminal row.
MarkLate(a) ==
    LET r == attempt[a].run IN
    /\ attempt[a].pc = "marking"
    /\ run' = IF TakesMarker(r)
              THEN [run EXCEPT ![r] = Marked(@)]
              ELSE run
    /\ Goto(a, "done")
    /\ UNCHANGED <<clock, sessions, ticket, object, scanner>>

-----------------------------------------------------------------------------
\* session_lifecycle.py: cancellation and deletion.

\* Mutants: a status outside the table's CHECK; a write that keeps the version.
Cancelled_NewStatus(row) ==
    [row EXCEPT !.status = "cancelled", !.generation = @ + 1,
                !.owner = None, !.lease = 0, !.version = @ + 1]
Cancelled_SameVersion(row) ==
    [row EXCEPT !.status = IF @ = "executing" THEN "outcome_unknown" ELSE "aborted",
                !.generation = @ + 1, !.owner = None, !.lease = 0]

Cancelled(row) ==
    [row EXCEPT !.status = IF @ = "executing" THEN "outcome_unknown"
                                              ELSE "aborted",
                !.version = @ + 1,
                !.generation = @ + 1,
                !.owner = None,
                !.lease = 0]

\* The caller names a generation; a stale one changes nothing.
cancel_action_run(r) ==
    /\ run[r].status \in CANCELLABLE_RUN_STATUSES
    /\ run' = [run EXCEPT ![r] = Cancelled(@)]
    /\ UNCHANGED <<clock, sessions, ticket, object, attempt, scanner>>

RunsOf(session) == {r \in Runs : ticket[r].session = session}

cancel_session_action_runs(session) ==
    LET hit == {r \in RunsOf(session) :
                    run[r].status \in CANCELLABLE_RUN_STATUSES}
    IN
    /\ session \in sessions
    /\ hit # {}
    /\ run' = [r \in Runs |-> IF r \in hit THEN Cancelled(run[r]) ELSE run[r]]
    /\ UNCHANGED <<clock, sessions, ticket, object, attempt, scanner>>

Revoked(row) ==
    IF row.status \in {"issued", "authorized"}
    THEN Stamped(row, "revoked")
    ELSE row

\* Mutant: only the tickets are inspected.
HasActiveAction_Tickets(session) ==
    \E r \in RunsOf(session) : ticket[r].status = "reserved"

HasActiveAction(session) ==
    \E r \in RunsOf(session) : \/ ticket[r].status = "reserved"
                               \/ run[r].status \in RUN_BLOCKING_STATUSES

\* A 409 rolls the revocations back with the rest of the transaction.
delete_session_with_guard(session) ==
    /\ session \in sessions
    /\ ~HasActiveAction(session)
    /\ ticket' = [r \in Runs |->
            IF r \in RunsOf(session)
            THEN [Revoked(ticket[r]) EXCEPT !.session = None]
            ELSE ticket[r]]
    /\ sessions' = sessions \ {session}
    /\ UNCHANGED <<clock, run, object, attempt, scanner>>

-----------------------------------------------------------------------------
\* RecoveryCoordinator.scan, await by await.

ToNext(s) ==
    [scanner[s] EXCEPT !.pc = IF scanner[s].todo = {} THEN "idle"
                                                      ELSE "scanning",
                       !.cand = None, !.version = 0, !.found = None,
                       !.writes = None]

Snapshot(r) == [run |-> r, status |-> run[r].status,
                version |-> run[r].version, seen |-> run[r].seen]

_load_candidates(s) ==
    LET rows == {r \in Runs : run[r].status \in SCANNABLE_STATUSES} IN
    /\ scanner[s].pc = "idle"
    /\ rows # {}
    /\ scanner' = [scanner EXCEPT ![s] =
            [@ EXCEPT !.pc = "scanning", !.todo = {Snapshot(r) : r \in rows}]]
    /\ UNCHANGED <<clock, sessions, ticket, run, object, attempt>>

CanClaim(s, c) ==
    LET row == run[c.run] IN
    /\ row.status = c.status
    /\ row.version = c.version
    /\ row.recovery \in {None, s} \/ row.recoveryLease <= clock
    /\ c.status = "executing" => row.lease <= clock

Claimed(row, s) ==
    [row EXCEPT !.version = @ + 1, !.recovery = s,
                !.recoveryLease = clock + RecoveryLease]

_claim(s, c) ==
    /\ scanner[s].pc = "scanning"
    /\ c \in scanner[s].todo
    /\ CanClaim(s, c)
    /\ c.version < MaxVersion
    /\ run' = [run EXCEPT ![c.run] = Claimed(@, s)]
    /\ scanner' = [scanner EXCEPT ![s] =
            [@ EXCEPT !.pc = "claimed", !.todo = scanner[s].todo \ {c},
                      !.cand = c, !.version = c.version + 1]]
    /\ UNCHANGED <<clock, sessions, ticket, object, attempt>>

ClaimConflict(s, c) ==
    /\ scanner[s].pc = "scanning"
    /\ c \in scanner[s].todo
    /\ ~CanClaim(s, c)
    /\ LET rest == scanner[s].todo \ {c} IN
       scanner' = [scanner EXCEPT ![s] =
            [@ EXCEPT !.todo = rest,
                      !.pc = IF rest = {} THEN "idle" ELSE "scanning"]]
    /\ UNCHANGED <<clock, sessions, ticket, run, object, attempt>>

\* Mutant: every scan asks the verifier again.
IsPending_Never(c) == FALSE

\* An observation persisted by an earlier scan that proposes another status.
IsPending(c) == c.seen # None /\ c.seen.terminal # c.status

UsePending(s) ==
    /\ scanner[s].pc = "claimed"
    /\ IsPending(scanner[s].cand)
    /\ scanner' = [scanner EXCEPT ![s] =
            [@ EXCEPT !.pc = "persisted", !.found = scanner[s].cand.seen,
                      !.writes = scanner[s].cand.seen.terminal]]
    /\ UNCHANGED <<clock, sessions, ticket, run, object, attempt>>

\* What verify_change may answer about an object in state e.
Answers(e) ==
    {CASE e = "none"    -> "no_effect"
       [] e = "present" -> "effect_matches"
       [] e = "partial" -> "effect_partial"} \cup Doubts

TerminalWhenExecuting(v) ==
    CASE v = "no_effect"      -> "failed"
      [] v = "effect_matches" -> "succeeded"
      [] v = "effect_partial" -> "partially_failed"
      [] OTHER                -> "outcome_unknown"

TerminalWhenUnknown(v) ==
    CASE v = "no_effect"      -> "failed"
      [] v = "effect_matches" -> "recovered"
      [] OTHER                -> "recovery_blocked"

TerminalWhenPartial(v) ==
    IF v = "no_effect" THEN "recovered" ELSE "recovery_blocked"

DerivedTerminal(status, v) ==
    CASE status = "executing"       -> TerminalWhenExecuting(v)
      [] status = "outcome_unknown" -> TerminalWhenUnknown(v)
      [] OTHER                      -> TerminalWhenPartial(v)

Reading(v, terminal) == [evidence |-> v, terminal |-> terminal]

\* The observation that is persisted: for an executing run it keeps the
\* terminal p the port proposed, in the other branches the derived one
\* replaces it.
Noticed(status, v, p) ==
    Reading(v, IF status = "executing" THEN p ELSE DerivedTerminal(status, v))

\* verify_change and _classify, up to a call of recover_change.
VerifyAndClassify(s, v, p) ==
    LET c == scanner[s].cand IN
    /\ scanner[s].pc = "claimed"
    /\ ~IsPending(c)
    /\ v \in Answers(object[c.run])
    /\ p \in Proposals[v]
    /\ scanner' = [scanner EXCEPT ![s] =
            CASE /\ c.status = "outcome_unknown"
                 /\ c.seen # None /\ c.seen.evidence = v -> ToNext(s)
              [] /\ c.status = "partially_failed"
                 /\ v \in {"effect_matches", "effect_partial"} ->
                    [@ EXCEPT !.pc = "recovering", !.found = Reading(v, p)]
              [] OTHER -> [@ EXCEPT !.pc = "verified",
                                    !.found = Noticed(c.status, v, p),
                                    !.writes = DerivedTerminal(c.status, v)]]
    /\ UNCHANGED <<clock, sessions, ticket, run, object, attempt>>

\* The terminal of a recovery whose port answers v and proposes p.
TerminalWhenRecovered(v, p) ==
    IF /\ v # "external_modified" /\ p # "recovery_blocked"
       /\ v = "no_effect" \/ p = "recovered"
    THEN "recovered" ELSE "recovery_blocked"

\* recover_change is fenced by the revision verify_change observed, so it
\* restores only an object still in that state, and answers what it reads
\* then; it may also raise ("error").
RecoverChange(s, restores, v, p) ==
    LET c == scanner[s].cand
        unmoved == scanner[s].found.evidence \in Answers(object[c.run]) \ Doubts
        terminal == TerminalWhenRecovered(v, p)
    IN
    /\ scanner[s].pc = "recovering"
    /\ restores => unmoved
    /\ object' = IF restores THEN [object EXCEPT ![c.run] = "none"] ELSE object
    /\ \/ v \in Answers(object'[c.run]) \cup {"error"}
       \/ v = "external_modified" /\ ~restores
    /\ scanner' = [scanner EXCEPT ![s] =
            [@ EXCEPT !.pc = "verified", !.found = Reading(v, terminal),
                      !.writes = terminal]]
    /\ UNCHANGED <<clock, sessions, ticket, run, attempt>>

\* The CAS shared by _persist_terminal_candidate and _write_terminal.
HoldsClaim(s) ==
    LET c == scanner[s].cand IN
    /\ run[c.run].status = c.status
    /\ run[c.run].version = scanner[s].version
    /\ run[c.run].recovery = s

Noted(row, seen) == [row EXCEPT !.version = @ + 1, !.seen = seen]

_persist_terminal_candidate(s) ==
    LET r == scanner[s].cand.run IN
    /\ scanner[s].pc = "verified"
    /\ HoldsClaim(s)
    /\ run' = [run EXCEPT ![r] = Noted(@, scanner[s].found)]
    /\ scanner' = [scanner EXCEPT ![s] =
            [@ EXCEPT !.pc = "persisted", !.version = scanner[s].version + 1]]
    /\ UNCHANGED <<clock, sessions, ticket, object, attempt>>

_write_terminal(s) ==
    LET r == scanner[s].cand.run IN
    /\ scanner[s].pc = "persisted"
    /\ HoldsClaim(s)
    /\ ticket' = [ticket EXCEPT ![r] =
            IF @.status = "reserved"
            THEN Stamped(@, "consumed")
            ELSE @]
    /\ run' = [run EXCEPT ![r] =
            Closed(@, scanner[s].writes, scanner[s].found)]
    /\ scanner' = [scanner EXCEPT ![s] = ToNext(s)]
    /\ UNCHANGED <<clock, sessions, object, attempt>>

\* A lost CAS, or a terminal commit that raises and is rolled back.
GiveUp(s) ==
    /\ \/ scanner[s].pc \in {"verified", "persisted"} /\ ~HoldsClaim(s)
       \/ scanner[s].pc = "persisted"
    /\ scanner' = [scanner EXCEPT ![s] = ToNext(s)]
    /\ UNCHANGED <<clock, sessions, ticket, run, object, attempt>>

\* The startup timeout cancels the scan, or the process dies.
ScanStops(s) ==
    /\ scanner[s].pc # "idle"
    /\ scanner' = [scanner EXCEPT ![s] = IdleScanner]
    /\ UNCHANGED <<clock, sessions, ticket, run, object, attempt>>

-----------------------------------------------------------------------------
AttemptStep(a) ==
    \/ \E r \in Runs : Enter(a, r)
    \/ \E pc \in {"fence", "unknown"} : ReserveTicketAndRun(a, pc)
    \/ ReserveRolledBack(a)
    \/ ReserveConflict(a)
    \/ ResolveCommit(a)
    \/ AssertFence(a)
    \/ CallGoverned(a)
    \/ CallLegacy(a)
    \/ \E effect \in {"present", "partial"} : EffectLands(a, effect)
    \/ \E result \in {"succeeded", "failed"} : HandlerReturns(a, result)
    \/ \E told \in BOOLEAN : CompleteRun(a, told)
    \/ CompleteMisses(a)
    \/ MarkLate(a)
    \/ Stop(a)

ScannerStep(s) ==
    \/ _load_candidates(s)
    \/ \E c \in scanner[s].todo : _claim(s, c) \/ ClaimConflict(s, c)
    \/ UsePending(s)
    \/ \E v \in Verifications, p \in Outcomes :
            \/ VerifyAndClassify(s, v, p)
            \/ \E restores \in BOOLEAN : RecoverChange(s, restores, v, p)
    \/ _persist_terminal_candidate(s)
    \/ _write_terminal(s)
    \/ GiveUp(s)
    \/ ScanStops(s)

LifecycleStep ==
    \/ \E r \in Runs : cancel_action_run(r)
    \/ \E session \in Sessions : \/ cancel_session_action_runs(session)
                                 \/ delete_session_with_guard(session)

CreationStep ==
    \E r \in Runs : \/ \E status \in {"issued", "authorized"} : CreateAction(r, status)
                    \/ confirm_ticket(r)

Next ==
    \/ Tick
    \/ CreationStep
    \/ \E a \in Attempts : AttemptStep(a)
    \/ \E s \in Scanners : ScannerStep(s)
    \/ LifecycleStep

Spec == Init /\ [][Next]_vars

-----------------------------------------------------------------------------
\* Properties.

TicketRows == [status : TicketStatuses, version : Nat, expires : Nat,
               session : Sessions \cup {None}]
RunRows == [status : RunStatuses, version : Nat, generation : Nat,
            owner : Attempts \cup {None}, lease : Nat,
            recovery : Scanners \cup {None}, recoveryLease : Nat,
            seen : Observations \cup {None}, late : BOOLEAN]
AttemptStates ==
    [pc : AttemptPCs, run : Runs \cup {None}, now : Nat, tver : Nat, rver : Nat,
     generation : Nat, called : {"none", "governed", "legacy"},
     result : {"succeeded", "failed", None}, told : BOOLEAN]
ScannerStates ==
    [pc : ScannerPCs, todo : SUBSET Candidates, cand : Candidates \cup {None},
     version : Nat, found : Observations \cup {None},
     writes : Outcomes \cup {None}]

Claiming(s) ==
    scanner[s].pc \in {"claimed", "verified", "recovering", "persisted"}

\* Every row and every local record has its type, and a coroutine that is past
\* an await remembers what the rest of its code uses.
TypeOK ==
    /\ clock \in Nat
    /\ sessions \subseteq Sessions
    /\ ticket \in [Runs -> TicketRows]
    /\ run \in [Runs -> RunRows]
    /\ object \in [Runs -> Effects]
    /\ attempt \in [Attempts -> AttemptStates]
    /\ scanner \in [Scanners -> ScannerStates]
    /\ \A a \in Attempts :
        /\ attempt[a].pc # "idle" => attempt[a].run \in Runs
        /\ attempt[a].pc = "completing" =>
                attempt[a].result \in {"succeeded", "failed"}
    /\ \A s \in Scanners :
        /\ Claiming(s) => scanner[s].cand \in Candidates
        /\ scanner[s].pc \in {"verified", "recovering", "persisted"} =>
                scanner[s].found \in Observations
        /\ scanner[s].pc \in {"verified", "persisted"} =>
                scanner[s].writes \in Outcomes

\* The two rows of an action never disagree about where it stands, although
\* cancellation writes the run alone, revocation the ticket alone, and a lost
\* CAS rolls back half-done pairs: a run executes only on a reserved ticket, a
\* reserved ticket always has a run that somebody can still finish, and a
\* consumed ticket has a run with an outcome.
RowsAgree ==
    \A r \in Runs :
        /\ ticket[r].status = "absent" <=> run[r].status = "absent"
        /\ ticket[r].status \in {"issued", "authorized", "revoked"} =>
                run[r].status \in {"authorized", "aborted"}
        /\ ticket[r].status = "reserved" =>
                run[r].status \in {"executing", "outcome_unknown"}
        /\ ticket[r].status = "consumed" => run[r].status \in Outcomes

\* However many attempts race for a ticket, and whatever their commits did, the
\* governed handler of an action is called by at most one of them.
OneGovernedCall ==
    \A a, b \in Attempts :
        /\ attempt[a].called = "governed" /\ attempt[b].called = "governed"
        /\ attempt[a].run = attempt[b].run
        => a = b

\* What complete_action_run reported to its caller stays what the rows say: no
\* cancellation, no recovery scanner and no stale completion takes it back.
ToldIsDurable ==
    \A a \in Attempts : attempt[a].told =>
        /\ run[attempt[a].run].status = attempt[a].result
        /\ ticket[attempt[a].run].status = "consumed"

\* state_version is a sound proof of freshness for a scanner: as long as the
\* version it holds is the row's, the row is still the one it classified, it is
\* the recovery owner, and no attempt can complete the run.
ClaimProvesSnapshot ==
    \A s \in Scanners :
        LET c == scanner[s].cand IN
        Claiming(s) /\ run[c.run].version = scanner[s].version =>
            /\ run[c.run].status = c.status
            /\ run[c.run].recovery = s
            /\ run[c.run].seen \in {c.seen, scanner[s].found}

\* A deleted session leaves no action behind that could still start, run or be
\* waiting for recovery.
QuietAfterDelete ==
    \A r \in Runs : Home[r] \notin sessions =>
        /\ ticket[r].status \notin {"issued", "authorized", "reserved"}
        /\ run[r].status \notin RUN_BLOCKING_STATUSES

ClosedStatuses ==
    {"succeeded", "failed", "recovered", "recovery_blocked", "aborted"}

\* Terminal rows are immutable after their winning CAS: late completions,
\* repeated cancels and stale scanners leave a closed run's row alone.
ClosedRunsStay ==
    [][\A r \in Runs : run[r].status \in ClosedStatuses =>
            run'[r] = run[r]]_vars

\* The observation in the row proposes another status than the row has.
Pending(row) == row.seen # None /\ row.seen.terminal # row.status

\* What one scan observed survives its crash: no later scan replaces a pending
\* observation with a newer reading of the verifier.  The run ends with that
\* reading, as the scan that made it derives it or, once that scan is gone, as
\* its port proposed it; only a cancellation may come in between, and it keeps
\* the observation.
OneReading ==
    [][\A r \in Runs :
        LET row == run[r] IN Pending(row) =>
            /\ run'[r].seen = row.seen
            /\ \/ run'[r].status \in {row.status, row.seen.terminal}
               \/ /\ row.status = "executing"
                  /\ run'[r].status \in {TerminalWhenExecuting(row.seen.evidence),
                                         "outcome_unknown"}]_vars

\* A terminal derived by one scan is the one every later scan writes.  So it is
\* if the port agrees with the coordinator on executing runs; the code does not
\* see to it for any other port.
DerivedTerminalWins ==
    [][\A r \in Runs :
        /\ run[r].status = "executing" /\ Pending(run[r])
        /\ run'[r].status # "executing"
        => run'[r].status \in {TerminalWhenExecuting(run[r].seen.evidence),
                               "outcome_unknown"}]_vars

\* The phase of an action in the contract, read off its two rows.
Phase(r) ==
    CASE ticket[r].status = "absent"   -> "absent"
      [] ticket[r].status = "reserved" -> "started"
      [] ticket[r].status = "consumed" -> "settled"
      [] ticket[r].status \in {"issued", "authorized"} /\ run[r].status = "authorized"
                                       -> "offered"
      [] OTHER                         -> "withdrawn"

\* What may replace an unresolved outcome: what a scan derives, and what the
\* port proposed when it gave the answers that lead to that outcome.
ContractFollowups ==
    [partially_failed |-> {"recovered", "recovery_blocked"}
                          \cup Proposals["effect_partial"],
     outcome_unknown  |-> {"failed", "recovered", "recovery_blocked"}
                          \cup Proposals["effect_unknown"]
                          \cup Proposals["external_modified"]
                          \cup Proposals["error"]]

Contract == INSTANCE ActionContract WITH
    Followups <- ContractFollowups, Actions <- Runs, Callers <- Attempts, Chats <- Sessions, ChatOf <- Home,
    phase   <- [r \in Runs |-> Phase(r)],
    outcome <- [r \in Runs |-> IF ticket[r].status = "consumed"
                               THEN run[r].status ELSE "none"],
    callers <- [r \in Runs |-> {a \in Attempts :
                    attempt[a].run = r /\ attempt[a].called = "governed"}],
    open    <- sessions

\* The two tables and everything that writes them implement the contract.
ImplementsContract == Contract!Spec

\* NOT what the code does (see the README): an unknown outcome is only ever
\* followed by failed, recovered or recovery_blocked.
FrozenFollowups ==
    [][\A r \in Runs :
        run[r].status = "outcome_unknown" /\ run'[r].status # run[r].status
        => run'[r].status \in {"failed", "recovered", "recovery_blocked"}]_vars
=============================================================================
