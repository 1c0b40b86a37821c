--------------------------- MODULE DesktopBackend ---------------------------
(***************************************************************************)
(* The lifecycle supervisor of the desktop shell                           *)
(* (src-tauri/src/desktop_backend.rs).  Commands of the window, the end of *)
(* the sidecar process and the request to exit take a new generation under *)
(* one mutex, change the visible phase and queue an intent; one worker     *)
(* thread takes the intents in order, skips those whose generation is no   *)
(* longer the desired one, and starts or stops the two resources: the      *)
(* local Runtime Manager (an API server inside the shell) and the sidecar  *)
(* (the backend's process).                                                *)
(*                                                                         *)
(* A step is one stretch of code under the mutex, or one call outside it.  *)
(* A generation starts at most one manager and spawns at most one sidecar, *)
(* so both are named by the generation that made them; 0 is "none".        *)
(* Errors, diagnostics, the setup scope and the contents of the            *)
(* configuration are left out: no step below depends on them.              *)
(***************************************************************************)
EXTENDS Naturals, Sequences, FiniteSets

CONSTANT
    MaxGen      \* bound: generations requested, the initialisation included

ASSUME MaxGenAssumption == MaxGen \in Nat /\ MaxGen >= 2

VARIABLES
    phase,      \* what the window shows
    config,     \* a configuration is loaded
    desired,    \* lease.desired_generation
    active,     \* lease.active_generation
    runtime,    \* the manager held in the shared state
    sidecar,    \* the sidecar child held in the shared state
    pending,    \* generation of pending_sidecar_error
    failed,     \* worker_failed
    shutdown,   \* the shutdown_* fields
    queue,      \* intents sent to the worker
    w,          \* the worker: program counter, intent, and the handles it holds
    r,          \* the recovery thread of a shutdown the worker cannot serve
    sidecars,   \* sidecar processes that run
    managers,   \* managers that serve
    listeners,  \* sidecars whose end is still to be reported
    exited,     \* the shell has exited
    overwritten \* history: a superseded retry replaced the phase of a newer command

lease     == <<desired, active>>
processes == <<sidecars, managers>>
vars == <<phase, config, desired, active, runtime, sidecar, pending, failed,
          shutdown, queue, w, r, sidecars, managers, listeners, exited,
          overwritten>>

Gens   == 1..MaxGen
OrNone == 0..MaxGen

Phases    == {"NeedsSetup", "SavingConfig", "StartingRuntime",
              "StartingSidecar", "Ready", "Failed"}
Transient == {"SavingConfig", "StartingRuntime", "StartingSidecar"}

Commands == {"SaveSetup", "Retry", "EnterLoginSetup", "UpdateLogin"}
Kinds    == Commands \cup {"Initialize", "SidecarTerminated", "Shutdown"}
Intents  == [kind : Kinds, gen : Gens]

Idle == [pc |-> "idle", kind |-> "Initialize", gen |-> 1,
         child |-> 0, mgr |-> 0, next |-> "finish", flag |-> FALSE]

Locations == {"idle", "initialize", "saveTake", "saveCheck", "save",
              "loginNavigate", "loginTake", "loginDone", "retryTake",
              "retryCheck", "retryLoad", "retryDesired", "retryTransition",
              "updateNavigate", "updateTake", "updateCheck", "updatePersist",
              "updateFailed", "updateTransition", "terminated",
              "shutdownTake", "shutdownDone", "stopSidecar", "stopManager",
              "fullStart", "managerStart", "managerCheck", "managerPublish",
              "spawnCheck", "spawn", "spawned", "adopt", "watch", "health",
              "cancelled", "unhealthy", "healthy", "publishReady",
              "navigate", "navigateFailed", "finish", "recover",
              "recovered", "broken"}

TypeOK ==
    /\ phase \in Phases
    /\ config \in BOOLEAN
    /\ desired \in OrNone /\ active \in OrNone
    /\ runtime \in OrNone /\ sidecar \in OrNone /\ pending \in OrNone
    /\ failed \in BOOLEAN
    /\ shutdown \in [requested : BOOLEAN, gen : OrNone, enqueued : BOOLEAN,
                     recovering : BOOLEAN, complete : BOOLEAN]
    /\ queue \in Seq(Intents)
    /\ w \in [pc : Locations, kind : Kinds, gen : Gens, child : OrNone,
              mgr : OrNone, next : Locations, flag : BOOLEAN]
    /\ r \in [pc : {"none", "take", "stopSidecar", "stopManager", "exit"},
              child : OrNone, mgr : OrNone]
    /\ sidecars \subseteq Gens /\ managers \subseteq Gens
    /\ listeners \subseteq Gens
    /\ exited \in BOOLEAN /\ overwritten \in BOOLEAN

(***************************************************************************)
(* setup() queues the initialisation before the window's event loop runs.  *)
(***************************************************************************)
Init ==
    /\ phase = "NeedsSetup" /\ config = FALSE
    /\ desired = 1 /\ active = 0
    /\ runtime = 0 /\ sidecar = 0 /\ pending = 0
    /\ failed = FALSE
    /\ shutdown = [requested |-> FALSE, gen |-> 0, enqueued |-> FALSE,
                   recovering |-> FALSE, complete |-> FALSE]
    /\ queue = <<[kind |-> "Initialize", gen |-> 1]>>
    /\ w = Idle
    /\ r = [pc |-> "none", child |-> 0, mgr |-> 0]
    /\ sidecars = {} /\ managers = {} /\ listeners = {}
    /\ exited = FALSE /\ overwritten = FALSE

-----------------------------------------------------------------------------
(***************************************************************************)
(* Commands of the window, and events, each under the mutex.               *)
(***************************************************************************)
Accepting == ~shutdown.requested /\ ~failed

\* request_generation(): the width of u64 is far beyond the bound.
RequestGeneration == desired' = desired + 1

Submit(kind, gen) == queue' = Append(queue, [kind |-> kind, gen |-> gen])

\* A command takes a generation, shows its first phase and queues its intent.
\* The bound keeps one generation for the shutdown.
Command(kind, first) ==
    /\ ~exited
    /\ Accepting
    /\ desired + 1 < MaxGen
    /\ RequestGeneration
    /\ phase' = first
    /\ Submit(kind, desired')
    /\ UNCHANGED <<config, active, runtime, sidecar, pending, failed, shutdown,
                   w, r, processes, listeners, exited, overwritten>>

QueueSaveSetup       == Command("SaveSetup", "SavingConfig")
QueueRetry           == phase = "Failed" /\ Command("Retry", "StartingRuntime")
QueueEnterLoginSetup == config /\ Command("EnterLoginSetup", "NeedsSetup")
QueueUpdateLogin     == config /\ Command("UpdateLogin", "SavingConfig")

\* The sidecar ends by itself: its log task will be told.
SidecarDies(g) ==
    /\ ~exited
    /\ g \in sidecars
    /\ sidecars' = sidecars \ {g}
    /\ UNCHANGED <<phase, config, lease, runtime, sidecar, pending, failed,
                   shutdown, queue, w, r, managers, listeners, exited,
                   overwritten>>

\* A bug: only the end of a sidecar that is already Ready is reported.
QueueSidecarTerminated_ReadyOnly(g) ==
    /\ ~exited
    /\ g \in listeners \ sidecars
    /\ listeners' = listeners \ {g}
    /\ IF Accepting /\ desired = g /\ phase = "Ready"
       THEN pending' = g /\ Submit("SidecarTerminated", g)
       ELSE UNCHANGED <<pending, queue>>
    /\ UNCHANGED <<phase, config, lease, runtime, sidecar, failed, shutdown,
                   w, r, processes, exited, overwritten>>

\* The log task of sidecar g sees the end of its process, however it came.
QueueSidecarTerminated(g) ==
    /\ ~exited
    /\ g \in listeners \ sidecars
    /\ listeners' = listeners \ {g}
    /\ IF Accepting /\ desired = g /\ phase \in {"StartingSidecar", "Ready"}
       THEN pending' = g /\ Submit("SidecarTerminated", g)
       ELSE UNCHANGED <<pending, queue>>
    /\ UNCHANGED <<phase, config, lease, runtime, sidecar, failed, shutdown,
                   w, r, processes, exited, overwritten>>

\* RunEvent::ExitRequested: let the shell go, wait, ask the worker, or, when
\* the worker is gone, start the recovery thread.
ExitRequested ==
    /\ ~exited
    /\ \/ /\ shutdown.complete
          /\ exited' = TRUE
          /\ UNCHANGED <<shutdown, desired, queue, r>>
       \/ /\ ~shutdown.complete /\ ~shutdown.enqueued /\ failed
          /\ ~shutdown.recovering
          /\ shutdown' = [shutdown EXCEPT !.requested = TRUE, !.recovering = TRUE]
          /\ r' = [r EXCEPT !.pc = "take"]
          /\ UNCHANGED <<desired, queue, exited>>
       \/ /\ ~shutdown.complete /\ ~shutdown.enqueued /\ ~failed
          /\ IF shutdown.gen # 0 THEN desired' = desired ELSE RequestGeneration
          /\ LET g == IF shutdown.gen # 0 THEN shutdown.gen ELSE desired'
             IN  /\ shutdown' = [shutdown EXCEPT !.requested = TRUE, !.gen = g,
                                                 !.enqueued = TRUE]
                 /\ Submit("Shutdown", g)
          /\ UNCHANGED <<r, exited>>
    /\ UNCHANGED <<phase, config, active, runtime, sidecar, pending, failed,
                   w, processes, listeners, overwritten>>

-----------------------------------------------------------------------------
(***************************************************************************)
(* The worker thread.                                                      *)
(***************************************************************************)
At(pc)           == ~exited /\ w.pc = pc
Current          == active = w.gen /\ desired = w.gen
CurrentIn(ph)    == Current /\ phase = ph
Goto(pc)         == w' = [w EXCEPT !.pc = pc]
Return           == Goto("finish")
\* A bug: a failure is not shown once the manager has been published.
ShowIfCurrent_Quiet(ph) ==
    phase' = IF Current /\ phase # "StartingSidecar" THEN ph ELSE phase
ShowIfCurrent(ph) == phase' = IF Current THEN ph ELSE phase

Entry(kind) ==
    CASE kind = "Initialize"        -> "initialize"
      [] kind = "SaveSetup"         -> "saveTake"
      [] kind = "Retry"             -> "retryTake"
      [] kind = "EnterLoginSetup"   -> "loginNavigate"
      [] kind = "UpdateLogin"       -> "updateNavigate"
      [] kind = "SidecarTerminated" -> "terminated"
      [] kind = "Shutdown"          -> "shutdownTake"

\* try_begin(): an intent of a superseded generation is dropped.
Begins(gen) == active = 0 /\ desired = gen

Receive ==
    /\ At("idle")
    /\ queue # <<>>
    /\ queue' = Tail(queue)
    /\ LET intent == Head(queue)
       IN  IF Begins(intent.gen)
           THEN /\ active' = intent.gen
                /\ w' = [Idle EXCEPT !.pc = Entry(intent.kind),
                                     !.kind = intent.kind, !.gen = intent.gen]
           ELSE UNCHANGED <<active, w>>
    /\ UNCHANGED <<phase, config, desired, runtime, sidecar, pending, failed,
                   shutdown, r, processes, listeners, exited, overwritten>>

\* The lease is released; after a shutdown the shell exits.
Finish ==
    /\ At("finish")
    /\ active' = IF active = w.gen THEN 0 ELSE active
    /\ IF w.kind = "Shutdown"
       THEN w' = [Idle EXCEPT !.pc = "broken"] /\ exited' = TRUE
       ELSE w' = Idle /\ exited' = exited
    /\ UNCHANGED <<phase, config, desired, runtime, sidecar, pending, failed,
                   shutdown, queue, r, processes, listeners, overwritten>>

\* Handles leave the shared state under the mutex and are stopped outside it:
\* the sidecar's process first, the manager after it.
\* A bug: the child leaves the state and nobody stops it.
TakeSidecar_Forgets(next) ==
    /\ w' = [w EXCEPT !.pc = next]
    /\ sidecar' = 0
TakeSidecar(next) ==
    /\ w' = [w EXCEPT !.pc = "stopSidecar", !.child = sidecar, !.next = next]
    /\ sidecar' = 0
TakeRuntime(next) ==
    /\ w' = [w EXCEPT !.pc = "stopManager", !.mgr = runtime, !.next = next]
    /\ runtime' = 0
\* A bug: the manager leaves the state and nobody stops it.
TakeBoth_SidecarOnly(next) ==
    /\ w' = [w EXCEPT !.pc = "stopSidecar", !.child = sidecar, !.next = next]
    /\ sidecar' = 0 /\ runtime' = 0
TakeBoth(next) ==
    /\ w' = [w EXCEPT !.pc = "stopSidecar", !.child = sidecar,
                      !.mgr = runtime, !.next = next]
    /\ sidecar' = 0 /\ runtime' = 0

StopSidecar ==
    /\ At("stopSidecar")
    /\ sidecars' = sidecars \ {w.child}
    /\ w' = [w EXCEPT !.child = 0,
                      !.pc = IF w.mgr # 0 THEN "stopManager" ELSE w.next]
    /\ UNCHANGED <<phase, config, lease, runtime, sidecar, pending, failed,
                   shutdown, queue, r, managers, listeners, exited, overwritten>>

StopManager ==
    /\ At("stopManager")
    /\ managers' = managers \ {w.mgr}
    /\ w' = [w EXCEPT !.mgr = 0, !.pc = w.next]
    /\ UNCHANGED <<phase, config, lease, runtime, sidecar, pending, failed,
                   shutdown, queue, r, sidecars, listeners, exited, overwritten>>

\* What no step of an operation before the start of the services changes.
Elsewhere == <<lease, failed, shutdown, queue, r, sidecars, managers, listeners,
               exited>>

RunInitialize ==
    /\ At("initialize")
    /\ \/ /\ ShowIfCurrent("NeedsSetup")          \* no configuration, or invalid
          /\ config' = IF Current THEN FALSE ELSE config
          /\ Return
       \/ /\ ShowIfCurrent("StartingRuntime")
          /\ config' = IF Current THEN TRUE ELSE config
          /\ IF Current THEN Goto("fullStart") ELSE Return
    /\ UNCHANGED <<Elsewhere, runtime, sidecar, pending, overwritten>>

RunSaveSetup ==
    /\ \/ At("saveTake") /\ TakeBoth("saveCheck") /\ UNCHANGED <<phase, config>>
       \/ /\ At("saveCheck")
          /\ IF CurrentIn("SavingConfig") THEN Goto("save") ELSE Return
          /\ UNCHANGED <<phase, config, sidecar, runtime>>
       \/ /\ At("save")                            \* the save fails
          /\ ShowIfCurrent("NeedsSetup")
          /\ Return
          /\ UNCHANGED <<config, sidecar, runtime>>
       \/ /\ At("save")
          /\ ShowIfCurrent("StartingRuntime")
          /\ config' = (config \/ Current)
          /\ IF Current THEN Goto("fullStart") ELSE Return
          /\ UNCHANGED <<sidecar, runtime>>
    /\ UNCHANGED <<Elsewhere, pending, overwritten>>

\* w.flag: the packaged page could not be shown.
RunEnterLoginSetup ==
    /\ \/ /\ At("loginNavigate")
          /\ \E f \in BOOLEAN :
                w' = [w EXCEPT !.pc = "loginTake", !.flag = f]
          /\ UNCHANGED <<phase, sidecar>>
       \/ At("loginTake") /\ TakeSidecar("loginDone") /\ UNCHANGED phase
       \/ /\ At("loginDone")
          /\ phase' = IF w.flag /\ Current THEN "Failed" ELSE phase
          /\ Return
          /\ UNCHANGED sidecar
    /\ UNCHANGED <<Elsewhere, config, runtime, pending, overwritten>>

\* retryDesired and retryTransition are two stretches of the mutex: the second
\* changes the phase without looking at the generation again.
RunRetry ==
    /\ \/ /\ At("retryTake") /\ TakeSidecar("retryCheck")
          /\ UNCHANGED <<phase, config, runtime, overwritten>>
       \/ /\ At("retryCheck")
          /\ IF CurrentIn("StartingRuntime") THEN Goto("retryLoad") ELSE Return
          /\ UNCHANGED <<phase, config, runtime, sidecar, overwritten>>
       \/ /\ At("retryLoad")                       \* no configuration, or invalid
          /\ TakeRuntime("finish")
          /\ ShowIfCurrent("NeedsSetup")
          /\ \/ config' = (config /\ ~Current)
             \/ config' = config
          /\ UNCHANGED <<sidecar, overwritten>>
       \/ /\ At("retryLoad")
          /\ config' = (config \/ Current)
          /\ \/ ~Current /\ Return /\ UNCHANGED runtime
             \/ Current /\ TakeRuntime("retryDesired")   \* the root has moved
             \/ Current /\ Goto("retryDesired") /\ UNCHANGED runtime
          /\ UNCHANGED <<phase, sidecar, overwritten>>
       \/ /\ At("retryDesired")
          /\ IF desired = w.gen THEN Goto("retryTransition") ELSE Return
          /\ UNCHANGED <<phase, config, runtime, sidecar, overwritten>>
       \/ /\ At("retryTransition")
          /\ IF runtime # 0
             THEN phase' = "StartingSidecar" /\ Goto("spawnCheck")
             ELSE phase' = "StartingRuntime" /\ Goto("fullStart")
          /\ overwritten' = (overwritten \/ desired # w.gen)
          /\ UNCHANGED <<config, runtime, sidecar>>
    /\ UNCHANGED <<Elsewhere, pending>>

RunUpdateLogin ==
    /\ \/ /\ At("updateNavigate")
          /\ IF config
             THEN \E f \in BOOLEAN :
                    w' = [w EXCEPT !.pc = "updateTake", !.flag = f]
             ELSE Return
          /\ UNCHANGED <<phase, sidecar>>
       \/ At("updateTake") /\ TakeSidecar("updateCheck") /\ UNCHANGED phase
       \/ /\ At("updateCheck")
          /\ phase' = IF w.flag /\ Current THEN "Failed" ELSE phase
          /\ IF ~w.flag /\ CurrentIn("SavingConfig")
             THEN Goto("updatePersist") ELSE Return
          /\ UNCHANGED sidecar
       \/ /\ At("updatePersist")                   \* persist_login_update()
          /\ \/ ~CurrentIn("SavingConfig") /\ Return
             \/ CurrentIn("SavingConfig") /\ Goto("updateTransition")
             \/ CurrentIn("SavingConfig") /\ Goto("updateFailed")
          /\ UNCHANGED <<phase, sidecar>>
       \/ /\ At("updateFailed")
          /\ ShowIfCurrent("NeedsSetup")
          /\ Return
          /\ UNCHANGED sidecar
       \/ /\ At("updateTransition")
          /\ IF ~Current THEN Return /\ phase' = phase
             ELSE IF runtime # 0
                  THEN phase' = "StartingSidecar" /\ Goto("spawnCheck")
                  ELSE phase' = "StartingRuntime" /\ Goto("fullStart")
          /\ UNCHANGED sidecar
    /\ UNCHANGED <<Elsewhere, config, runtime, pending, overwritten>>

\* A bug: a phase the window does not know.
RunSidecarTerminated_Stopped ==
    /\ At("terminated")
    /\ TakeSidecar("finish")
    /\ pending' = 0
    /\ phase' = "Stopped"
    /\ UNCHANGED <<Elsewhere, config, runtime, overwritten>>

RunSidecarTerminated ==
    /\ At("terminated")
    /\ IF Current /\ phase \in {"StartingSidecar", "Ready", "Failed"}
       THEN /\ TakeSidecar("finish")
            /\ pending' = 0
            /\ phase' = "Failed"
       ELSE Return /\ UNCHANGED <<sidecar, pending, phase>>
    /\ UNCHANGED <<Elsewhere, config, runtime, overwritten>>

RunShutdown ==
    /\ \/ At("shutdownTake") /\ TakeBoth("shutdownDone") /\ UNCHANGED shutdown
       \/ /\ At("shutdownDone")
          /\ shutdown' = [shutdown EXCEPT !.enqueued = FALSE, !.complete = TRUE]
          /\ Return
          /\ UNCHANGED <<runtime, sidecar>>
    /\ UNCHANGED <<phase, config, lease, pending, failed, queue, r, processes,
                   listeners, exited, overwritten>>

-----------------------------------------------------------------------------
(***************************************************************************)
(* Starting the services.                                                  *)
(***************************************************************************)
RunFullStart ==
    /\ \/ /\ At("fullStart")
          /\ IF CurrentIn("StartingRuntime") THEN Goto("managerStart") ELSE Return
          /\ UNCHANGED <<phase, runtime, managers>>
       \/ /\ At("managerStart")                    \* set_launch_failed()
          /\ ShowIfCurrent("Failed")
          /\ Return
          /\ UNCHANGED <<runtime, managers>>
       \/ /\ At("managerStart")
          /\ managers' = managers \cup {w.gen}
          /\ w' = [w EXCEPT !.pc = "managerCheck", !.mgr = w.gen]
          /\ UNCHANGED <<phase, runtime>>
       \/ /\ At("managerCheck")
          /\ IF CurrentIn("StartingRuntime") THEN Goto("managerPublish")
             ELSE w' = [w EXCEPT !.pc = "stopManager", !.next = "finish"]
          /\ UNCHANGED <<phase, runtime, managers>>
       \/ /\ At("managerPublish")
          /\ IF Current
             THEN /\ runtime' = w.mgr
                  /\ managers' = managers \ ({runtime} \ {w.mgr})
                  /\ phase' = "StartingSidecar"
                  /\ w' = [w EXCEPT !.pc = "spawnCheck", !.mgr = 0]
             ELSE /\ w' = [w EXCEPT !.pc = "stopManager", !.next = "finish"]
                  /\ UNCHANGED <<phase, runtime, managers>>
    /\ UNCHANGED <<config, lease, sidecar, pending, failed, shutdown, queue, r,
                   sidecars, listeners, exited, overwritten>>

SpawnSidecar ==
    /\ \/ /\ At("spawnCheck")
          /\ IF CurrentIn("StartingSidecar") THEN Goto("spawn") ELSE Return
          /\ UNCHANGED <<phase, sidecar, sidecars, listeners>>
       \/ /\ At("spawn")                           \* set_launch_failed()
          /\ ShowIfCurrent("Failed")
          /\ Return
          /\ UNCHANGED <<sidecar, sidecars, listeners>>
       \/ /\ At("spawn")
          /\ sidecars' = sidecars \cup {w.gen}
          /\ w' = [w EXCEPT !.pc = "spawned", !.child = w.gen]
          /\ UNCHANGED <<phase, sidecar, listeners>>
       \/ /\ At("spawned")
          /\ IF CurrentIn("StartingSidecar") THEN Goto("adopt")
             ELSE w' = [w EXCEPT !.pc = "stopSidecar", !.next = "finish"]
          /\ UNCHANGED <<phase, sidecar, sidecars, listeners>>
       \/ /\ At("adopt")                           \* the replaced child is stopped
          /\ sidecar' = w.child
          /\ w' = [w EXCEPT !.pc = IF sidecar # 0 THEN "stopSidecar" ELSE "watch",
                            !.child = sidecar, !.next = "watch"]
          /\ UNCHANGED <<phase, sidecars, listeners>>
       \/ /\ At("watch")                           \* log_sidecar_events()
          /\ listeners' = listeners \cup {w.gen}
          /\ Goto("health")
          /\ UNCHANGED <<phase, sidecar, sidecars>>
    /\ UNCHANGED <<config, lease, runtime, pending, failed, shutdown, queue, r,
                   managers, exited, overwritten>>

\* One round of the poll looks at the lease, then at the pending error, then at
\* the health page: a command may come between the first and the other two.
WaitHealthy ==
    /\ At("health")
    /\ \/ ~CurrentIn("StartingSidecar") /\ Goto("cancelled")
       \/ pending = w.gen /\ Goto("unhealthy")
       \/ w.gen \in sidecars /\ Goto("healthy")
       \/ Goto("unhealthy")                        \* sixty rounds have passed
    /\ UNCHANGED <<phase, config, lease, runtime, sidecar, pending, failed,
                   shutdown, queue, r, processes, listeners, exited, overwritten>>

\* publish_ready_for_navigation()
PublishReady ==
    IF CurrentIn("StartingSidecar")
    THEN phase' = "Ready" /\ pending' = 0 /\ Goto("navigate")
    ELSE Goto("cancelled") /\ UNCHANGED <<phase, pending>>

FinishSpawn ==
    /\ \/ /\ At("cancelled") /\ TakeSidecar("finish")
          /\ UNCHANGED <<phase, pending>>
       \/ /\ At("unhealthy") /\ TakeSidecar("finish")
          /\ ShowIfCurrent("Failed")
          /\ pending' = IF Current THEN 0 ELSE pending
       \/ /\ At("healthy")
          /\ IF CurrentIn("StartingSidecar") THEN Goto("publishReady")
             ELSE Goto("cancelled")
          /\ UNCHANGED <<phase, sidecar, pending>>
       \/ At("publishReady") /\ PublishReady /\ UNCHANGED sidecar
       \/ /\ At("navigate")
          /\ Return \/ Goto("navigateFailed")
          /\ UNCHANGED <<phase, sidecar, pending>>
       \/ /\ At("navigateFailed")                  \* fail_ready_navigation()
          /\ IF CurrentIn("Ready")
             THEN TakeSidecar("finish") /\ pending' = 0 /\ phase' = "Failed"
             ELSE Return /\ UNCHANGED <<phase, sidecar, pending>>
    /\ UNCHANGED <<config, lease, runtime, failed, shutdown, queue, r, processes,
                   listeners, exited, overwritten>>

-----------------------------------------------------------------------------
(***************************************************************************)
(* A panic of the worker, and the shutdown without a worker.               *)
(***************************************************************************)

\* The operation unwinds: a manager it holds is dropped, which shuts it down;
\* a child it holds is forgotten and its process goes on.
Panic ==
    /\ ~exited
    /\ ~failed /\ w.pc \notin {"idle", "finish", "broken"}
    /\ managers' = managers \ {w.mgr}
    /\ w' = [w EXCEPT !.pc = "recover", !.child = 0, !.mgr = 0]
    /\ UNCHANGED <<phase, config, lease, runtime, sidecar, pending, failed,
                   shutdown, queue, r, sidecars, listeners, exited, overwritten>>

\* A bug: the worker recovers, says that the shutdown is complete, and leaves
\* the shell open.
RecoverWorkerFailure_StaysOpen ==
    /\ \/ /\ At("recover")
          /\ failed' = TRUE
          /\ w' = [w EXCEPT !.pc = "stopSidecar", !.child = sidecar,
                            !.mgr = runtime, !.next = "recovered"]
          /\ shutdown' = [shutdown EXCEPT !.enqueued = FALSE]
          /\ sidecar' = 0 /\ runtime' = 0
       \/ /\ At("recovered")
          /\ shutdown' = [shutdown EXCEPT !.complete = TRUE]
          /\ w' = [Idle EXCEPT !.pc = "broken"]
          /\ UNCHANGED <<failed, sidecar, runtime>>
    /\ UNCHANGED <<phase, config, lease, pending, queue, r, processes, listeners,
                   exited, overwritten>>

\* recover_worker_failure(): w.flag keeps what shutdown_requested was.
RecoverWorkerFailure ==
    /\ \/ /\ At("recover")
          /\ failed' = TRUE
          /\ shutdown' = [shutdown EXCEPT !.enqueued = FALSE]
          /\ pending' = 0
          /\ phase' = "Failed"
          /\ w' = [w EXCEPT !.pc = "stopSidecar", !.child = sidecar,
                            !.mgr = runtime, !.next = "recovered",
                            !.flag = shutdown.requested]
          /\ sidecar' = 0 /\ runtime' = 0
          /\ UNCHANGED <<active, exited>>
       \/ /\ At("recovered")
          /\ shutdown' = IF w.flag THEN [shutdown EXCEPT !.complete = TRUE]
                         ELSE shutdown
          /\ exited' = w.flag
          /\ active' = IF active = w.gen THEN 0 ELSE active
          /\ w' = [Idle EXCEPT !.pc = "broken"]
          /\ UNCHANGED <<failed, pending, phase, sidecar, runtime>>
    /\ UNCHANGED <<config, desired, queue, r, processes, listeners, overwritten>>

ShutdownRecovery ==
    /\ ~exited
    /\ \/ /\ r.pc = "take"
          /\ r' = [pc |-> "stopSidecar", child |-> sidecar, mgr |-> runtime]
          /\ sidecar' = 0 /\ runtime' = 0
          /\ UNCHANGED <<processes, shutdown, exited>>
       \/ /\ r.pc = "stopSidecar"
          /\ sidecars' = sidecars \ {r.child}
          /\ r' = [r EXCEPT !.pc = "stopManager", !.child = 0]
          /\ UNCHANGED <<managers, sidecar, runtime, shutdown, exited>>
       \/ /\ r.pc = "stopManager"
          /\ managers' = managers \ {r.mgr}
          /\ r' = [r EXCEPT !.pc = "exit", !.mgr = 0]
          /\ UNCHANGED <<sidecars, sidecar, runtime, shutdown, exited>>
       \/ /\ r.pc = "exit"
          /\ shutdown' = [shutdown EXCEPT !.complete = TRUE]
          /\ exited' = TRUE
          /\ UNCHANGED <<r, processes, sidecar, runtime>>
    /\ UNCHANGED <<phase, config, lease, pending, failed, queue, w, listeners,
                   overwritten>>

Worker ==
    \/ Receive \/ Finish \/ StopSidecar \/ StopManager
    \/ RunInitialize \/ RunSaveSetup \/ RunEnterLoginSetup \/ RunRetry
    \/ RunUpdateLogin \/ RunSidecarTerminated \/ RunShutdown
    \/ RunFullStart \/ SpawnSidecar \/ WaitHealthy \/ FinishSpawn
    \/ RecoverWorkerFailure

\* Nothing runs in the shell once it has exited.
Exited == exited /\ UNCHANGED vars

Next ==
    \/ QueueSaveSetup \/ QueueRetry \/ QueueEnterLoginSetup \/ QueueUpdateLogin
    \/ ExitRequested
    \/ \E g \in Gens : SidecarDies(g) \/ QueueSidecarTerminated(g)
    \/ Worker \/ Panic \/ ShutdownRecovery
    \/ Exited

Spec == Init /\ [][Next]_vars

\* The threads run: the worker's calls outside the mutex all have a deadline
\* (60 health polls, 155 s to drain the manager).  Nothing is assumed of the
\* user, of the sidecar, or of panics.
FairSpec == Spec /\ WF_vars(Worker) /\ WF_vars(ShutdownRecovery)

-----------------------------------------------------------------------------
(***************************************************************************)
(* Properties.                                                             *)
(***************************************************************************)

\* A command, a retry pressed twice or a restart after a failure never leaves
\* two sidecars or two managers running side by side: the next operation begins
\* only after the one before it has stopped, or handed over, what it had.
AtMostOne == Cardinality(sidecars) <= 1 /\ Cardinality(managers) <= 1

\* Every process that runs is in somebody's hands: the shared state's, the
\* worker's or the recovery thread's.  Only a panic forgets one.
NothingIsLost ==
    w.pc \in {"recover"} \/ failed \/ exited
        \/ /\ sidecars \subseteq {sidecar, w.child, r.child}
           /\ managers \subseteq {runtime, w.mgr, r.mgr}

\* The window says Ready only for the sidecar of the newest request, and when
\* that sidecar has ended, somebody is still about to say so: its log task, the
\* queued intent, the worker that handles it, or the recovery of its panic.
ReadyIsBacked ==
    phase = "Ready" /\ ~shutdown.requested =>
        /\ sidecar = desired
        /\ \/ sidecar \in sidecars
           \/ sidecar \in listeners
           \/ \E i \in 1..Len(queue) :
                 queue[i] = [kind |-> "SidecarTerminated", gen |-> sidecar]
           \/ w.pc = "terminated" /\ w.gen = sidecar
           \/ w.pc = "recover"

\* Once the worker has nothing left to do the window does not go on saying that
\* something is being saved or started.  The one way there is the retry that
\* replaces the phase of the command that superseded it.
SettledUnlessOverwritten ==
    (w.pc = "idle" /\ queue = <<>> /\ phase \in Transient) => overwritten

\* The shell exits with nothing running behind it, as long as its worker lived.
ExitLeavesNothing ==
    exited /\ ~failed => sidecars = {} /\ managers = {}

\* A request to exit is always honoured, whatever the worker is doing, even if
\* it panics before or after the request.
ExitHappens == shutdown.requested ~> exited
=============================================================================
