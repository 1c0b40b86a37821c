# Dolphin AI Client: specifications and proofs

TLA+ models of the stateful core of this repository, the TLC runs that check
them on small instances, and theorems about them that TLAPS proves for every
value of their constants.

## 1. The system

The backend (`backend/app`, FastAPI on one asyncio loop per process) serves a
chat assistant that changes applications of a low-code platform. It is deployed
as a web service on MySQL, and inside a Tauri shell (`src-tauri`) on SQLite. The
shell supervises the backend as a sidecar process and runs workspaces as local
processes of its own.

| Part | State | Operations | Talks to |
| --- | --- | --- | --- |
| Governed actions (`system_assistant/action_store.py`, `action_execution.py`, `session_lifecycle.py`, driver in `ai_chat/agent.py`) | a ticket row and a run row per action; locals of each coroutine | create, confirm, reserve, fence, call, complete, mark late, cancel, delete session | recovery and lifecycle through the rows; the tool by a call |
| Startup recovery (`recovery_coordinator.py`) | lease and observation columns of the run; locals of a scan | load, claim, verify, recover, persist, write terminal | change port by calls; everything else through the rows |
| Application lock (`app_locks.py`) | one lock entry per application in memory | acquire, force open, release | update and generation routes |
| Chat runs (`ai_chat/run_bus.py`, `harness/run_registry.py`, `routes/ai_chat.py`) | registry entry, background task, bus and queues per session | send, publish, attach, abort | agent loop by a task, clients by SSE, actions through abort |
| Agent harness (`routes/harness.py`, `harness/manager.py`, `harness/events.py`) | registry entry and turn rows per conversation; task, bus and queues per turn | start turn, publish, settle, attach, stop | registry, SSE, database |
| Desktop supervisor (`src-tauri/src/desktop_backend.rs`) | phase, generation lease, handles, intent queue, shutdown fields | commands of the window, sidecar end, exit request, panic | manager and sidecar by calls, window by the phase |
| Desktop local runtime (`src-tauri/src/local_runtime/`) | active map, retained children, journal file, scope lock | start, status, stop, reconcile | operating system; the backend by HTTP |
| Event publisher (`agents/db_publisher.py`) | stored history and live queues | publish, subscribe | nobody: nothing in the application publishes through it |
| Code runtime (`code_runtime/`, `routes/code_runtime.py`) | a row per browser with its sandbox cookie and generation, the binding of the session, the tokens of the user, the session row; locks of a process | proxy a request, renew, open, delete | sandbox service and control plane by calls; other processes through the rows |
| Engineering sessions (`engineering_sessions/`) | registry, git state | open, publish, close | git |
| Publication (`routes/applications/`) | versions, dedup window | publish, generate | platform |
| Pure parts (policy, projections, contracts, parsers, config diff) | none | functions | their callers |
| I/O parts (platform clients, git, deploy, MCP, frontends) | external | calls | services |

What is hard here: rows that several processes write without a common lock;
awaits between a check and its use; commits whose acknowledgement is lost;
coroutines cancelled in the middle of an external effect, or before their first
step; leases that expire under their holder; queues that drop; two databases
with different locking; commands that supersede each other while a worker acts
on an older one; processes and pids that outlive the program that knew them.
`PROJECT.json` lists these hazards at their lines.

What makes each part correct:

* *Governed actions*: one call of the tool per ticket; two rows that never
  contradict each other; a closed run is final and a reported completion
  stands; no session is deleted under an action that lives.
* *Recovery*: a claim proves that nothing has moved; what one scan observed
  survives its crash and is not read again.
* *Application lock*: one operation at a time, and the lock never gets stuck.
* *Chat runs*: one run per session; a stream is complete, in order, and ends.
* *Harness*: streams without gaps or repetitions that end; the last event
  follows the stored outcome; a running turn can be found and stopped.
* *Desktop supervisor*: one sidecar and one manager at most, none forgotten; a
  window that tells the truth; an exit that happens and leaves nothing behind.
* *Local runtime*: one runtime per scope, found again after a crash and by the
  next manager of the shell; no process of another program is killed, as far as a
  look before the signal can tell.
* *Code runtime*: a generation names one credential; a credential is renewed
  once, however many requests and processes find it expired; no token of the
  user is refreshed without need or sent twice; a request's calls are bounded.
* *Publication* (planned): no publish is merged with one it differs from.

## 2. Modules

| Module | Models |
| --- | --- |
| `ActionGovernance` | tickets, runs, execution attempts, lifecycle and recovery scanners on a database with row locks |
| `ActionContract` | what governance promises about an action: an abstract specification |
| `DesktopLifecycle` | abort and deletion on SQLite, composed with the actions of `ActionGovernance` |
| `ActionGovernanceProofs` | the theorems of both: types, safety, recovery, the refinement of `ActionContract`, and what is left of them on SQLite |
| `AppLock`, `AppLockProofs` | the application lock; its theorems |
| `ChatRun`, `ChatRunProofs` | runs, buses, streams and aborts of one chat session; its theorems, the refinement of `EventStream` among them |
| `EventStream` | what a stream of numbered events promises its reader: an abstract specification |
| `HarnessRun`, `HarnessRunProofs` | turns, buses, streams and stops of one conversation; its theorems, the same refinement among them |
| `StreamLemmas` | lemmas about one subscriber of a bus, used by both proofs |
| `DesktopBackend`, `DesktopBackendProofs` | the shell's supervisor: commands, worker, sidecar, manager, exit; its theorems |
| `LocalRuntime`, `LocalRuntimeProofs` | the Runtime Managers of one scope, their journal, processes, servers and restarts; their theorems |
| `SandboxRenewal`, `SandboxRenewalProofs` | the sandbox credentials of the browsers of one code session; its theorems |
| `MCActionGovernance`, `MCDesktopLifecycle`, `MCChatRun`, `MCLocalRuntime`, `MCSandboxRenewal` | constants and symmetry for TLC |

Definitions named `X_Something` after an operator `X` are plausible bugs of the
code `X` models. No specification uses them; each property is known to fail when
one of them takes the place of its operator.

### ActionGovernance

One action is one transaction, or one call to the tool or the port. The web
build runs on MySQL, where the `SELECT ... FOR UPDATE` and conditional `UPDATE`
statements of one transaction hold their row locks to its end, so a transaction
is atomic; what one coroutine remembers between two awaits is in its record
`attempt[a]` or `scanner[s]`.

* `ticket[r]`, `run[r]`: the two rows of action `r`, with the columns that a
  statement compares or that decide a status. Their session foreign key, versions,
  generation, leases and the recovery observation (`seen`) are kept;
  digests, correlation ids, telemetry and timestamps of display are not. The
  digests and revisions a reservation compares are immutable after creation.
* `attempt[a].pc` follows `execute_with_governance` await by await: `entered`
  (versions and `now` fixed), `unknown` (the commit raised), `fence`,
  `cleared` (fence passed, handler not yet called), `running`, `acted`,
  `completing`, `marking`, `legacy`; `inflight` is a cancelled handler whose
  request may still be on the wire.
* `scanner[s]` follows `RecoveryCoordinator.scan`: its snapshot list (`todo`),
  the claimed candidate, the version it holds, the observation found (`found`) and
  the terminal to write (`writes`). The two are apart: `_classify` returns what it
  derives, but for an executing run it leaves the terminal that the port
  proposed in the observation (`Noticed`). The observation is what is
  persisted, and a later scan that finds it writes what it proposes (`UsePending`).
* `object[r]` is what the tool did; the verifier answers about it truthfully,
  or with a `Doubts` answer where the instance allows one. The port is a
  protocol with no implementation in the repository: the model takes from its
  fence that `recover_change` acts only on the state that was verified. It may
  propose any terminal of `Proposals` with an answer; the coordinator accepts any
  string, and the model those that are the status of an ended run.

Every way an update can lose its compare-and-swap is an action of its own
(`ReserveConflict`, `CompleteMisses`, `ClaimConflict`, `GiveUp`), and every
coroutine can be cancelled or die at any await (`Stop`, `ScanStops`).

`reserve_ticket` and `claim_recovery` of `action_store.py` have no caller in the
application and are not modelled. The `expired` ticket status and the
`prepared` run status of the CHECK constraints are never written.

### ActionContract

Offer, withdraw, start, call, settle, resolve and close, with no rows, leases
or scanners. `ActionGovernance` implements it under the mapping `Phase`
(`ImplementsContract`): the phase of an action is read off the statuses of its
two rows, its outcome off the run once the ticket is consumed. `Followups` are the
outcomes that may replace an unresolved one: those a scan derives, and what the
port may propose with the answers that lead there (`ContractFollowups`).

### DesktopLifecycle

On SQLite `FOR UPDATE` does nothing and a transaction takes the write lock at
its first `UPDATE`. Abort and deletion begin with a `SELECT` and write ORM
objects back by primary key, so each is two actions here (`SelectRunsToCancel`
/ `FlushCancel`, `SelectTicketsToDelete` / `FlushDelete`) with the rows it read
in `request`. Every other transaction begins with an `UPDATE` and stays atomic.

### AppLock

The desktop workflows build with Python 3.11, whose `asyncio.wait_for` runs
`Lock.acquire` in a task: an operation is suspended before (`acquiring`) and
after it (`granted`). `MaxHold` bounds how long a block lasts;
`punctual` is a history variable that says whether some block has outlived the
timeout yet.

### ChatRun

One session of one process. A run is named by the send that started it. The
abort event is left out: it ends a run between two turns, and `Finish` may end
a run at any time. A cancelled task that has not had its first step never
enters its `try`, so it sends no sentinel and stays in the registry. A stream
subscribes and takes its replay in one step (`StartStream`), yields the replay
(`todo`), then follows its queue. The queue has room for `QueueSize` items;
`HasRoom` decides whether a broadcast reaches it, events and sentinel alike, and
`dropped` is a history variable for what found it full. A client of `Leaving` may
go away (`Disconnect`), before its stream has begun or after.

It implements `EventStream` too. `Views` reads a stream that replays or follows as
a reader that is in, and one that has not begun, was refused or went away before
it began as one that never joined.

### EventStream and HarnessRun

`EventStream` knows runs that publish events 1, 2, ... until they are closed,
and readers that join after a number, get events, may *lose* an event only
while they are `Limit` events behind the run, and end only when nothing is
owed to them. No tasks, queues, sentinels or registries appear in it.

`HarnessRun` is one conversation. An action is what a coroutine does between
two suspensions.

* `turn[t].pc` follows the request and its background task: `idle`, `posting`
  (guard passed, rows being committed), `ready` (task created, not begun),
  `working`, `settling` / `failing` (a commit of the status), `announcing` /
  `lamenting` (the last event), `closing` (the `finally` clause up to its
  await), `saving`, `over`. `cancelled` is `task.cancel()`.
* `row[t]` is `harness_turns.status`. A commit that raises may or may not have
  reached the row.
* `stream[s]` is one `event_stream` or `attach_stream` generator with its queue
  and what is left of its replay.
* `registry` is the conversation's handle. A turn that began without a
  conversation (`Unbound`) is bound by an event of its own and is not in the
  registry; its `finally` clause removes whoever is.
* `alone` is a history variable: no two turns have run at the same time. The
  guard and the registration are separated by awaits, so they may.

It implements `EventStream` (`ImplementsContract`): `Published`, `Finished` and
`Views` read the contract's variables off the bus counters, the tasks and the
streams.

### DesktopBackend

A step is one stretch of code under the supervisor's mutex, or one call outside
it. Commands (`QueueSaveSetup`, `QueueRetry`, ...) take a generation, show their
first phase and queue an intent; the worker `w` takes intents in order, drops
those that are superseded (`Begins`) and runs one operation each
(`RunInitialize`, ..., `RunShutdown`), whose every check of the generation is a
step. A generation starts at most one manager and one sidecar, so both are named
by it. `listeners` are the log tasks that will report the end of a sidecar;
`pending` is `pending_sidecar_error`; `r` is the thread that shuts down when the
worker is gone. A panic drops what the unwinding operation holds: a manager
stops when dropped, a child does not. `overwritten` is a history variable for the
retry that changes the phase after it has been superseded.

### LocalRuntime

Each thread of a server has a program counter and a list of steps to follow
(`todo`); an error path replaces the list, and an error of the rollback of a start is
ignored (`Failed`). `start`, `stop` and `reconcile` take the scope's file lock,
`status` does not. A pid may be given to any process once nobody holds it
(`StrangerComesOrGoes`), also while the driver is at work on it.

The shell opens one server after another, each with a manager: `active[m]`,
`mutex[m]`, `retained[m]` and `recovered[m]` are the maps of manager `m` and its
driver. They are gone with the last thread that has it, or with the shell
(`Crash`); the journal and the processes (`os`) are not. A close waits for the
requests under way and then reconciles (`Drained`). If they take longer than 155 s
(`api.rs:17`) it returns without (`DrainTimesOut`), the shell may open the next
server, and the threads that are left go on with the manager they have. `parted` is
a history variable: this shell has done so. A server that is shut down and then
dropped is closed twice, so `Done` leads from `closing` to `draining` too.

`RecoverThen` is `recover_identity` and what start and reconcile do with its answer.
A process that runs is recognised if it is a child of this manager, or by its start
time, its arguments and its executable. The last is compared with that of the
appliance of now, so a process may run and not be recognised; its record is then
removed without a stop (`Disown`). A child is stopped in two steps, out of the
driver's map and back into it if its end is not confirmed (`StopChild`); a recovered
process in three: a look (`LookAgain`), `SIGTERM`, and after a wait `SIGKILL`, both to
the bare pid (`Signal`). On Windows the process is ended through the handle it was looked at with, which is the
case of `Signal` in which nothing comes between.

`lost` is a history variable: the runtimes the code itself let go of while they
ran. There are five places, named at `Accounted`: the rollback of a start whose stop
failed, a status that removes a record it has not looked at, a crash before the
record, a process that is not recognised, and, after a drain that was given up, a
thread that removes the record of another manager's child.

### SandboxRenewal

One code session, its browsers, and the processes that serve them. A step is what
a coroutine does between two suspensions.

* `row[b]` is the browser's row (cookie and `auth_generation`), `binding` the
  generation of the session's binding, `user` the two tokens of the user,
  `session` the chat session and its deletion.
* `request[r].pc` follows a request: `call` (to the sandbox, first to align the
  agent session, then the request itself), `wait` and `rowwait` (for
  `_renewal_lock` and the browser's row), `token`, `refresh`, `store` (of the
  user), `open`, `boot`, `commit`; `flush`, `session` and `bind` belong to `/open`.
  `seen` is the generation it used, `base` the one it will exceed, `kept` the
  refresh token an `/open` writes back. `attempt` and `relaunched` are the
  variables of the loop it is in: a renewal opens and bootstraps once more after an
  error that is no refusal; an `/open` waits for a sandbox that is not up yet
  (`BootRetries` times, 5 in the code) and opens once more for a new launch
  token. `opens` and `boots` count the calls made.
* `issued`, `live` are the sandbox's; `pairs`, `tired`, `revoked`, `spent` the
  control plane's. `mislaid` is a history variable: some refresh token did not
  stay in the user's row.

Locks are no variables: who holds one is read off where the requests are
(`HoldsProcess`, `HoldsRow`, `HoldsSession`, `HoldsUser`). The binding is read
without a lock; at READ COMMITTED and above the read may be stale by the commit,
and `LockRow` keeps what it read in `base`. SQLite ignores `FOR UPDATE`, but there
is one process there and its own lock does the same work. An `/open` is for a
browser of its own, since no caller passes a `browser_session_id`.

Left out: how a failure is worded and which ones clear cookies, exhaustion of the
connection pool, a refresh that answers without a new refresh token, and the
process lock around `/open`, because `_refresh_runtime_binding` does the same
without it.

## 3. Runs

| Run | Instance | Shows |
| --- | --- | --- |
| `race` | 1 action, 2 attempts, 1 scanner | types, agreeing rows, one call, durable completions; the contract |
| `scan` | 1 action, 1 attempt, 2 scanners, a doubtful verifier, a port that proposes what is derived or something else | sound claims, final rows, one reading per run that survives a crash; nothing lives after a deletion |
| `desktop` | `DesktopLifecycle`, 2 attempts | one call also on SQLite |
| `lock` | 4 operations, blocks within and beyond the timeout | exclusion until the first block outlives the timeout; never stuck |
| `chat` | 2 sends (runs of 2 and 1 events), 1 returning client that may leave, 1 abort, queues of 1 | ordered streams, complete but for what full queues drop; the contract; attached streams end |
| `harness` | 2 turns, one without a conversation and one with a reader, 1 returning client, queues of 2 | streams keep the contract and end; the last event follows the row; the registry knows who runs |
| `desktop_backend` | 5 generations, any commands, deaths, a panic and exits | one of each process, none forgotten, a truthful window, an exit that happens |
| `local_runtime` | 2 managers, 2 threads, 2 instances of an application, 2 pids, 2 spawns, 2 faults (failing calls, crashes, drains given up, processes not recognised) | runtimes accounted for, never side by side; a stranger is hit only by a stop that had found the runtime itself |
| `sandbox` | 2 requests of one browser in 2 processes, an `/open` of another in a third, 1 wait of the `/open`, 2 cookies per browser, 2 pairs of tokens | generations, single flight, necessary refreshes, the budget, no standstill |

Runs that find a violation, each of a statement the repository makes about
itself (the findings of `PROJECT.json` quote them):

| Run | What the code does |
| --- | --- |
| `followup` | a terminal persisted for an executing run is written after a cancellation, without new evidence, on an unknown outcome |
| `desktop_abort` | on SQLite an abort overwrites a completed run |
| `chat_double` | one session has two runs |

Seen while modelling and written into a property as its exception, or left out
of what is claimed:

* A lock that was forced open admits a second operation beside a holder that is
  within its timeout (`app_locks.py:103`); `Exclusion` speaks of `punctual` only.
* The stream of a send whose run was over before it subscribed only pings
  (`routes/ai_chat.py:953`); `AttachEnds` speaks of attached streams. So does one
  whose full queue dropped the sentinel (`run_bus.py:55`), the other exception of
  `AttachEnds`.
* `status` of the local runtime removes a journal record it has not looked at
  (`manager.rs:246`), the rollback of a start one whose process may run
  (`manager.rs:193`), and a start or a reconcile one whose process runs and is not
  recognised (`manager.rs:160`, `manager.rs:355`); all end in `lost`.
* A drain that is given up (`api.rs:142`) leaves requests at work beside the next
  manager. The scope's file lock keeps their starts and stops apart, so that still
  no two runtimes run, but one of them may remove the record of the other one's
  child, which ends in `lost` too.
* A stopped turn's row stays `running` (`harness/manager.py`), so `ToldIsStored`
  speaks of turns whose last event was published.
* `routes/harness.py:282` has the same gap between guard and registration as
  `chat_double` shows for the chat; `Reachable` speaks of `alone`.
* A deletion that holds the session row waits for a browser's row; its renewal
  holds that row while it waits for the user's row; an `/open` whose assigned
  tokens were flushed holds the user's row and waits for the session
  (`Knot`, the exception of `NoStandstill`). The renewal uses a database session
  of its own for the token, so no database sees the cycle; PostgreSQL has no
  lock timeout by default, MySQL ends it by `innodb_lock_wait_timeout`. The design
  (`docs/superpowers/specs/2026-07-17-builder-sandbox-token-free-transparent-renewal-design.md`,
  9.2) obtains the token before it locks the row.
* An `/open` that refreshed writes its new access token together with the old
  refresh token over the pair just committed (`routes/code_runtime.py:437`);
  `RefreshSentOnce` has `mislaid` for it.
* The same design allows two `workspace/open` calls per request (9.4). The code
  makes three when the first open is refused for its token and the bootstrap after
  the second fails, and a test expects it (`test_code_runtime_routes.py`,
  `open_calls == 3`). `Bounded` claims three, of the requests of the proxy. The design
  also says that the binding's generation rises with every renewal (6.2), which two
  browsers that renew at once break, and that a failed refresh is no logout (9.1),
  which the code answers with `login_required`; nothing here rests on either.
* For an executing run the observation that is persisted keeps the terminal the port
  proposed, and the scan that takes over from one that crashed writes it
  (`recovery_coordinator.py:243`, 157-169); nothing compares it with what the
  coordinator derives. A test says "A later verifier read must not change the
  already derived terminal" (`test_system_assistant_recovery_crash_windows.py:77`),
  with a port that always proposes what is derived. `OneReading` claims that there is
  no later reading; that the derived terminal wins (`DerivedTerminalWins`) is claimed of
  such a port only.
* A recovered process is looked at once and then signalled twice by its bare pid, with
  up to five seconds in between (`process_driver.rs:593`, 598; macOS 1037). A program
  that gets the pid after the look is hit; `OnlyLateStrangers` claims that it is never
  hit otherwise.
* A superseded retry replaces the phase of the command after it
  (`desktop_backend.rs:1667`) and the window stays at "starting";
  `SettledUnlessOverwritten` names this as its one exception.

Bounds. `MaxClock` stops the clock; leases and the ticket lifetime are one or
two ticks, so each of them expires, before, between and after the steps that
read it. `MaxVersion` bounds only how often a run is claimed: four or five
versions hold a reservation, a cancellation or marker, and two full claims.
Two attempts are enough for a race because attempts meet only in the rows of one
action; two scanners because a claim excludes all but one. Attempts and
scanners are symmetric where a configuration says so, under safety properties
only. In `chat` and in `harness` the queues are smaller than the events of a run and
its sentinel, so that both are dropped in some behaviours; in `chat` the streams
of the sends stay, so that a run has a second reader that a departure does not
touch. `MaxGen = 5` holds the initialisation, three commands that
supersede each other, and a shutdown. `MaxSpawns = 2` is the first number at
which two runtimes could run side by side, `MaxFaults = 2` allows a failed call
and a crash, or a drain that is given up and one of these, and two pids allow a pid
to be used again beside another. Two managers are the one that was given up and the
next; a manager without threads is as good as new, so two serve any number of
restarts. Two instances of one application replace each other; that an instance of
another application is refused differs from a refused conflict in the answer alone. In
`sandbox` one wait of an `/open` is enough to come before and after the new launch
token; two requests of one browser are the race for a renewal, the third is
the browser that moves the binding's generation beside them; two cookies and
two pairs allow a credential to expire after it was renewed and a token to be
refused after it was refreshed.

Deadlock is checked for `desktop_backend` (a shell that has exited stutters by
the action `Exited`) and `local_runtime`. The other systems may come to rest:
their rows close, their requests are finite.

Fairness. `ActionGovernance`, `AppLock`, `LocalRuntime` and `SandboxRenewal` are
checked for safety only. In `ChatRun` the event loop runs what is ready (`Start`, `StartStream`,
`Replay`, `Follow`), and a run ends (`Finish`), because its turns are bounded by
`MAX_TURNS` and its calls time out. In `HarnessRun` the loop runs ready tasks and
readers, timers included, and a turn's work ends for the same reason. In
`DesktopBackend` the worker and the recovery thread run: their calls outside the
mutex have deadlines (60 health polls, 155 s to drain the manager). No request,
command, abort, stop, disconnection, crash or panic is assumed to happen.

## 4. Proofs

### Governed actions

For any sets of actions, attempts, scanners and sessions, any verifier, any
proposals of its port and any bounds, from `ConstantsAssumption` (leases and
lifetimes are positive, NULL is no attempt and no scanner), `ProposalsAssumption`
(the port proposes some outcome with every answer) and `NoneAssumption` (NULL is no
observation):

* `TypeCorrect`: `Spec => []TypeOK`. One lemma per write says what it makes of a
  row (`StampedRow`, `ExecutingRow`, `ClosedRow`, ...); the steps of one process
  only have to type the rows and that process (`AttemptTyped`, `ScannerTyped`).
* `RowsAlwaysAgree`: `Spec => []RowsAgree`.
* `ClosedRunsAreImmutable`: `Spec => ClosedRunsStay`.
* `OneCallOnly`: `Spec => []OneGovernedCall`.
* `CompletionsStand`: `Spec => []ToldIsDurable`.
* `NothingLivesOn`: `Spec => []QuietAfterDelete`.
* `VersionProvesClaim`: `Spec => []ClaimProvesSnapshot`.
* `ObservedOnce`: `Spec => OneReading`.
* `AgreeingPortDerivesOnce`: `Spec => DerivedTerminalWins`, if the port proposes
  with every answer what the coordinator derives from it for an executing run.
* `GovernanceKeepsContract`: `Spec => ImplementsContract`, the refinement of
  `ActionContract`.

The safety proofs share one idea. `RowMove` lists everything a step other than a
reservation can do to the two rows of an action: which pairs of statuses
follow which, that only open runs are written, always under a new version,
and that nobody becomes lease owner. `EveryMove` proves that each step is such
a move or `RowReserved`. Agreement, immutability and durability then follow from
`RowMove` alone, without looking at the actions again.

`OneGovernedCall` is not inductive: nothing in it keeps a second attempt from
passing the reservation. `CallInv` strengthens it: a *winner* (an attempt that
passed the reservation and has called, or may still call, the tool) exists only
on a ticket that has been spent (`SpentFirst`); the lease owner of its run is that attempt or
nobody (`WinnerOwns`); and no action has two winners (`OneWinner`). The subtle
case is `ResolveCommit`: an attempt whose commit raised becomes a winner only
when the row names it as lease owner, which by `WinnerOwns` excludes another.
`CallInv(S)` has the set of statuses that count as spent as a parameter, and all
its lemmas ask of `S` is that it lasts (`Lasting`): a reserved ticket is in it, one
that can be reserved is not. Here it is `Spent`.

`QuietAfterDelete` needs that a deletion sees every ticket of its session:
`Linked` says that a ticket keeps its session while the session exists. A quiet
pair of rows stays quiet because no `RowMove` but a creation wakes one, and a
creation needs the session.

The recovery theorems rest on versions that only grow (`VersionsGrow`). A scanner
that finds the version it holds therefore finds the row it knew (`Fits` for the
rows still on its list, `Held` for the one it claimed), whoever wrote in between.
`ObservedOnce` needs `SeenInv` besides: a row with an observation has had a
recovery owner, so `IsCurrent` fails for every attempt and none completes it. A
pending observation (`PendingStep`) is written by the scan that made it, with the
terminal it derived, or by a later one, with the terminal in the observation; for an
executing run `SeenInv` says that this is one of the port's proposals, so the two are the
same when the port agrees with the coordinator.

The refinement puts these together. `Phases` reads off `RowMove` how the phase of
an action can move; `OneAtATime` says that a step other than a cancellation or
deletion of a session touches the rows of one action. The contract's `Call`
needs `CallInv` (the tool has not been called before), `Close` needs `QuietInv`
(the deletion saw every action), and `Resolve` needs `Resolvable`: an outcome that
is not the last carries the observation of the scan that wrote it, and whatever
replaces the observation names a follow-up.

### The desktop database

For the same constants: `OneCallOnTheDesktop`
(`DesktopSpec => []DesktopOneGovernedCall`) and `DesktopTypes`
(`DesktopSpec => []TypeOK`). `RowsAgree` does not hold there, so the lemmas about
row moves rest on the little of it that does: both rows of an action are
born together (`Born`). The two flushes are no row moves; all they have in common
with one is that a ticket once reserved stays reserved, consumed or revoked, and that nobody
becomes lease owner (`CallMove`). That is enough for `CallInv(SpentOrRevoked)`,
so the one call survives although everything else about the rows does not.

### Application lock

For any set of operations, any timeout and any bounds on the clock and on a
block: `OneAtATime` (`Spec => []Exclusion`) and `NeverStuck`
(`Spec => []NeverOrphaned`).

Exclusion is about `punctual` histories, and its strengthening is too. While
`punctual` holds, at most one operation holds the lock, and then nobody has been
woken (`OneHolder`); only the oldest waiter is ever woken, and only while the
lock is free (`OneWoken`); and the entry's `acquired_at` is that of the operation
inside, which is not late (`EntryIsFresh`). `NotStale` draws the consequence:
nobody who looks at the entry finds it expired, so nobody forces it open.

### Streams: the harness and the chat

`HarnessRun`, for any sets of turns and clients, any numbers asked for, any number of events
and any size of the queues:

* `StreamsKeepTheContract`: `Spec => ImplementsContract`. Initial states map to
  initial states, and every step to a step of `EventStream` or a stutter.
* `SettledFirst`: `Spec => []ToldIsStored`.
* `RegistryKnows`: `Spec => []Reachable`.
* `HarnessTypes`: `Spec => []TypeOK`.
* `StreamsNeverStuck`: `Spec => []EndsGo`.
* `StreamsComeNearer`: `Spec => [][Nearer]_vars`.

`ChatRun`, for any sets of sends, watchers, aborts and clients that leave, any
number of events and any size of the queues, from `ChatRunAssumption` alone (a
watcher is no send, and a queue has a place):

* `ChatTypes`: `Spec => []TypeOK`; with the proof, no run checks it.
* `ChatInOrder`: `Spec => []StreamInOrder`.
* `ChatComplete`: `Spec => []EndedComplete`.
* `ChatKeepsTheContract`: `Spec => ImplementsContract`.
* `ChatNeverInVain`: `Spec => []NeverInVain`.
* `ChatComesNearer`: `Spec => [][Nearer]_vars`.

Both rest on the same predicate about one subscriber. `Good` speaks of one open
stream and the number of events its run has published: the replay is the stretch after the number
asked for (`HistoryFollows`), what was got lies below it (`YieldedBelow`), the
queue holds events in rising order, none published yet to come, the sentinel
only at its end (`QueueNew`, `QueueRises`, `QueueBehind`), and every event owed
is got, in the replay, in the queue, or dropped (`NothingMissing`). It is stated
over values, not variables, so the lemmas about publishing, dropping, replaying,
following and closing are proved once, in `StreamLemmas`.

For the harness, the arguments run on numbers of any size (`TypeInv`); that none
passes its bound is `TurnsNumbered`, which keeps the last number for the last
event, and `StreamsNarrow`, which follows an event from its number into the
history, the queue and what was got. `TurnsInv` adds that the last event is the
last one (`LastIsLast`), follows the row (`RowFirst`), and that a task that has
not begun has published nothing (`Unbegun`); `RegistryInv` that while turns
run alone one runs (`OneRuns`) and is registered if it is bound (`Registered`).

For the chat, `Sound` says of a stream that it holds nothing before it begins,
is `Good` while it reads, keeps the order of what it got when it is gone, and owes
nothing once it has ended; and the stream of a send is that of its own run, which
`StartStream` relies on, since only an attach looks at what it got
from the registry. `Unsent` keeps a run from existing before its send, and
`RegistryInv` an abort from reaching one that does not. The sentinel is an item of
the queue but no event of the contract: `FinishStep` shows that sending or dropping
it changes nothing a reader could see.

The contract lets a reader lose an event only when it is a whole queue behind.
`FullIsBehind` is that fact: a full queue of rising numbers puts its reader
`QueueSize` events behind the run. It is the one place where the order of the
queue is needed for anything but itself.

That streams end is liveness, but what the code must do for it is safety, and
proved. `EndsGo` and `NeverInVain` say that nobody waits for nothing: the open
stream can step, or its task can (for the chat: or the sentinel was dropped,
which `AttachEnds` excepts). `Nearer` says that each of these steps lowers a natural
number (`EndDistance`, `Distance`), and that no step of anybody raises it: what is left
of the history and of the queue, and twice the steps the task has left, since one
of them adds one entry at most. The harness needs that a followed run has been
launched (`FollowedInv`); the chat, that it has begun, and that once it is over
its sentinel is in the queue or was dropped (`EndInv`). A chat stream that is
opened but not started counts the history it may be given, too.

### Sandbox credentials

For any sets of requests, browsers and processes and any numbers of cookies and
tokens, from `SandboxAssumption` alone (an `/open` has a browser of its own):

* `GenerationSafety`: `Spec => []GenerationNamesCookie`.
* `SingleFlight`: `Spec => OnlyRefusedReplaced`.
* `RefreshSafety`: `Spec => []RefreshSentOnce`.
* `RefreshNeed`: `Spec => []RefreshIsNeeded`.
* `BudgetKept`: `Spec => []Bounded`, of the workspaces opened and the bootstraps,
  for any number of waits an `/open` is allowed.
* `SandboxTypes`: `Spec => []TypeOK`.
* `LocksLetGo`: `Spec => []SomebodyGoes`.

`IInv` carries the first two. One request at most is past the row lock of a
browser (`OneRenewer`), it renews the credential that it was refused and the
row still holds (`RenewsWhatFailed`), and its `base` is not below the row's
generation; so the generation it writes is new to that browser although the
binding was read without a lock, and who has a generation has its cookie
(`HoldsCredential`). An `/open` is the only writer of its browser's first row
(`OpensOnce`). `TokenInv` does the same for the user: one request refreshes at a
time (`OneRefresher`), the pairs come in order (`Issued`, `Succeeded`), and who
refreshes has looked at the stored token under the lock (`Prudent`). `Budget` counts
what a request has spent from where it stands, and `Within` says that no cookie
and no token is in use that was not issued: a copy of a refresh token, for one, is
carried only by an `/open`, and never without an access token beside it
(`Carried`), or its commit would store a user without one.

`SomebodyGoes` is `NoStandstill` with the guards of the steps (`CanGo`, `CanCascade`)
where the run asks TLC for `ENABLED`. Its proof follows those who wait: for the
process, a row, the user and the session, in this order, and from the session
only by way of its deletion back to a row. That is the one cycle, and `Knot`
describes it exactly.

### Local runtime

For any managers, any finite set of threads, any instances, applications and pids,
and any numbers of spawns and failures, from `LocalRuntimeAssumption` alone (the
threads are apart, nobody is no thread and no manager, and a stranger is not a
nonce):

* `TypeCorrect`: `Spec => []TypeOK`.
* `RuntimesAccounted`: `Spec => []Accounted`.
* `NeverSideBySide`: `Spec => []OneRuntime`.
* `ShownIsRecorded`: `Spec => []ReadyIsRecorded`.
* `StrangersLive`: `Spec => OnlyLateStrangers`.
* `HoldersNeverWait`: `Spec => []HoldersGo`.
* `WaitsEnd`: `Spec => []WaitsForHolder`.

None of the first four is inductive: why a start may spawn depends on what it did
ten steps before, and what a thread finds may be the work of another manager.
`IInv` therefore says of each thread at which step of which operation it stands and
what is left of it (`Placed`), and what it may count on there (`Duty`), in three
parts: that the child it holds has its pid (`HeldDuty`), what it has seen of its map
(`MapDuty`) and of the journal (`JournalDuty`). Who replaces an instance found it in
the map and in the journal (`Judges`, `Replaces`), who removes a record knows that
its process has ended or is no child of its manager (`Forsaken`), who spawns finds
the journal empty, who rolls a start back has the only runtime of its nonce (`Own`).

Duties rest on facts that hold whoever stands where: a pid keeps its process until
its one parent reaps it (`PidsKept`), a nonce is given once (`NoncesOnce`), and the
map of a manager shows what the journal has if the journal's process is a child of
that manager (`MapAgrees`). If it is not, then a drain has been given up before
(`parted`). `Turns` says who is at work when: the main thread only while the server
boots or closes and nobody else has its manager, no thread of another manager
unless a drain was given up, and a manager without threads has nothing in its map.
`Budget` keeps the counter inside its bound.

A step has three lemmas behind it. `OutOfTheWay`: a thread without the scope's lock
counts on nothing that the one with the lock changes, whichever managers they have.
`Undisturbed`: a status, an exit or a stranger, which take no lock, only let things
ebb away (`Ebbs`: a process or an entry disappears, an ended child is reaped, a
manager goes), and no duty is lost by that; a status may remove a record while a
start is between its steps, which is why a duty never says that the record is there,
only that no other is. `Moves`: a step of a thread that keeps its place and the
facts above keeps all of `IInv`. `AtMostOne` draws the conclusion for two runtimes:
one of them would be recorded and the other in the hands of the thread with the
lock, whose duty says that the record is its own.

The last three are about the locks and the stop. `LocksInv` says who may hold them
where: the mutex of a manager is kept between two steps by a stop only, which holds
the file lock too, and only at steps that take neither. So whoever holds a lock
goes on, and whoever waits, waits for such a thread (`Waits`, `Goes` name them by the
guards of the steps). `Recovered` adds that a driver has a recovered process
only while the thread with the lock is about to stop it, and that it is the one of the
record; so what `LookAgain` finds is that one (`Sure`), which is all that
`OnlyLateStrangers` claims. The stop of a child never meets a stranger, because the
child's pid is kept until it is waited for (`HeldDuty`).

### Desktop supervisor

For any bound on the generations, so for any number of commands, exits, ends of
the sidecar and panics, from `MaxGenAssumption` alone (the bound is a number, and at least 2):

* `TypeInvariant`: `Spec => []TypeOK`.
* `OneOfEach`: `Spec => []AtMostOne`.
* `NothingLost`: `Spec => []NothingIsLost`.
* `ReadyBacked`: `Spec => []ReadyIsBacked`.
* `Settled`: `Spec => []SettledUnlessOverwritten`.
* `NothingLeftBehind`: `Spec => []ExitLeavesNothing`.
* `ExitNeverLost`: `Spec => []ExitStands`.
* `ExitNeverStuck`: `Spec => []ExitGoes`.
* `ExitComesNearer`: `Spec => [][Nearer]_vars`.

The first six are read off one invariant (`Invariant`). The worker is a single thread, so most of it
says where the worker may stand with what in its hands: `Turns` ties its step to
the lease, to a failure and to the shutdown; `Hands` says at which steps it
holds a sidecar or a manager and at which the shared state holds none, which is
why a spawn finds nothing running; `Held` adds that whatever runs is there. A step that stops
what it took goes on to `w.next`, so these parts speak of `Aim`, the step that
counts once the stop is done.

`Orders` is about generations: an intent of a command is the only one of its
generation, and once it has been taken up, no other waits (`Behind`). That is what
`Settles` needs. The window shows what the newest command put there, and
this command is either waiting or at work, unless a retry that has been superseded
wrote over it (`overwritten`). From the look that precedes a spawn on, only a newer
command changes the phase (`Launches`), so a worker that arrives at
`publishReady` in vain does so for a good reason. `Backs` follows the sidecar of the newest
request from its first health check to the end of its log task or the intent
that the task queued (`Told`).

The last three are the safety behind `ExitHappens`. `ExitStands` follows the
request: its intent is queued under the newest generation, where the worker will
not drop it, since no generation comes after it (`AskedOnce`); or it is served;
or the worker has died of a panic and a recovery has seen the request. So a thread
can step (`ExitGoes`), and each step lowers `Distance`: the intents to take up, the
rest of the operation at work (`Layer` counts its steps from the end) with the stops
between two of them, and what a recovery has left to do. A panic leaves less to
do than any operation, so it lowers it as well.

### Model-checked only

Liveness under fairness (`AttachEnds`, `StreamsEnd`, `ExitHappens`) and
`NoStandstill` stay with TLC, since the prover has no rules for `ENABLED` and
fairness. What of them is safety is proved, with the guards of the steps in the
place of `ENABLED`: of the three, that somebody can step and that such a step
brings the end nearer, so that only fairness and the descent of a natural number
remain; of `NoStandstill`, the form with guards (`LocksLetGo`). On the
configurations of the runs TLC finds that these guards are equivalent to `ENABLED`.
Every other invariant and action property of the passing runs is a theorem.

## 5. Not modelled

* Most of the repository, by lines, is request handlers that translate between
  HTTP and a platform, prompts and tools of agents, parsers, pipelines over the
  file system, and two frontends. They keep no state that two actors share, or
  leave it to a service outside the repository, so there is little a
  state-machine model could be wrong about. The modelled share of the lines is
  small for that reason.
* Liveness of recovery: it needs a configured change port, which the repository
  does not provide, and a restart of the process.
* The other routes of `ai_chat.py`, the agent's turns, prompts and tools.
* `db_publisher.py`: nothing publishes through it; the pipeline uses the
  in-memory publisher.
* The harness's generic thread routes, stored replay and SSE adapters; the
  contents of the desktop configuration, its diagnostics and windows; the state
  field of a journal record, which nothing reads.
* The rest of the code runtime: activation, locations, agent sessions, proxying and
  the rewriting of builder pages serve one request each.
* The parts marked `not_modelled` in `PROJECT.json`.

## 6. Plan

Done: `ActionGovernance` with its contract and its desktop variant, `AppLock`,
`ChatRun`, `HarnessRun` with its contract, `DesktopBackend`, `LocalRuntime`,
`SandboxRenewal`, and the theorems above. What is left, most important first:

1. `Republish`: the deduplication window and version writes
   (`routes/applications/extension.py`).
2. Recovery with restarts: crash, restart and startup scan, and the liveness
   of an action under a port that answers.
