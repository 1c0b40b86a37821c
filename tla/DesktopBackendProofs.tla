------------------------ MODULE DesktopBackendProofs ------------------------
(***************************************************************************)
(* Theorems about DesktopBackend, for any number of commands, exits, ends  *)
(* of the sidecar and panics: at most one sidecar and one manager run,     *)
(* none is lost or left behind, and the window tells the truth.            *)
(*                                                                         *)
(* The worker is one thread, so most of the invariant says what it has at  *)
(* each of its steps (Hands), and what the window shows then (Settles,     *)
(* Launches, Backs).  The rest is about generations: an intent of a        *)
(* command is the only one of its generation, and once it has been taken   *)
(* up there is none (Orders).                                              *)
(***************************************************************************)
EXTENDS DesktopBackend, FiniteSetTheorems, TLAPS

Requests == Commands \cup {"Initialize"}

\* Generations: never below 1, one kept for the shutdown.
Bounded == desired # 0 /\ (shutdown.gen = 0 => desired < MaxGen)

Types == TypeOK /\ Bounded

-----------------------------------------------------------------------------
(***************************************************************************)
(* Generations and intents.                                                *)
(***************************************************************************)
Busy == w.pc \notin {"idle", "broken"}

\* No intent of a command of generation g is waiting.
Behind(g) == \A i \in 1..Len(queue) : queue[i].gen = g => queue[i].kind \notin Requests

Orders ==
    /\ w.gen <= desired /\ shutdown.gen <= desired
    /\ \A g \in listeners : g <= desired /\ Behind(g)
    /\ Busy /\ w.kind # "Shutdown" => Behind(w.gen)
    /\ \A i \in 1..Len(queue) :
          /\ queue[i].gen <= desired
          /\ queue[i].kind = "SidecarTerminated" => Behind(queue[i].gen)
          /\ queue[i].kind = "Shutdown" => shutdown.requested
          /\ queue[i].kind = "Initialize" => i = 1 /\ w = Idle /\ sidecar = 0 /\ runtime = 0
    /\ \A i, j \in 1..Len(queue) :
          (/\ queue[i].kind \in Requests /\ queue[j].kind \in Requests
           /\ queue[i].gen = queue[j].gen) => i = j

-----------------------------------------------------------------------------
(***************************************************************************)
(* Who holds the lease and what the worker has in its hands.               *)
(***************************************************************************)
Stops == {"stopSidecar", "stopManager"}

\* The step the worker is at, or goes to when it has stopped what it took.
Aim == IF w.pc \in Stops THEN w.next ELSE w.pc

Closing == {"shutdownTake", "shutdownDone"}

Turns ==
    /\ w.pc = "idle" => active = 0 /\ w.child = 0 /\ w.mgr = 0
    /\ Busy => active = w.gen
    /\ failed => /\ w.pc = "broken" \/ Aim = "recovered"
                 /\ phase = "Failed"
    /\ Aim = "recovered" => failed
    /\ ~failed => r = [pc |-> "none", child |-> 0, mgr |-> 0] /\ ~shutdown.recovering
    /\ w.pc = "broken" /\ ~failed => exited
    /\ Aim \in Closing => w.kind = "Shutdown"
    /\ w.kind = "SidecarTerminated" =>
          Aim \in {"terminated", "finish", "recover", "recovered"}
    /\ w.pc = "terminated" => w.kind = "SidecarTerminated"
    /\ w.kind = "Shutdown" =>
          /\ shutdown.requested
          /\ \/ Aim \in Closing \cup {"recover", "recovered"}
             \/ w.pc = "finish" /\ shutdown.complete
    /\ shutdown.complete /\ ~failed =>
          /\ sidecars = {} /\ managers = {} /\ sidecar = 0 /\ runtime = 0
          /\ (w.kind = "Shutdown" /\ w.pc = "finish") \/ exited
    /\ exited /\ ~failed => sidecars = {} /\ managers = {}

\* The steps after the sidecar has been taken, or before there is one.
Without == {"initialize", "saveCheck", "save", "loginDone", "retryCheck", "retryLoad",
            "retryDesired", "retryTransition", "updateCheck", "updatePersist",
            "updateFailed", "updateTransition", "shutdownDone", "fullStart",
            "managerStart", "managerCheck", "managerPublish", "spawnCheck",
            "spawn", "spawned", "adopt", "recovered"} \cup Stops

\* ... and the same for the manager.
Bare == {"initialize", "saveCheck", "save", "shutdownDone", "fullStart",
         "managerStart", "managerCheck", "managerPublish", "recovered"}

\* Where it goes on when what it took has been stopped.
Targets == {"saveCheck", "loginDone", "retryCheck", "retryDesired", "updateCheck",
            "shutdownDone", "finish", "recovered"}

Hands ==
    /\ w.child # 0 => w.pc \in {"spawned", "adopt", "stopSidecar"}
    /\ w.mgr # 0 => w.pc \in {"managerCheck", "managerPublish"} \cup Stops
    /\ w.pc \in {"spawned", "adopt"} => w.child = w.gen
    /\ w.pc \in {"managerCheck", "managerPublish"} => w.mgr = w.gen
    /\ w.pc \in Without => sidecar = 0
    /\ Aim \in Bare => runtime = 0
    /\ w.pc = "stopManager" \/ w.mgr # 0 => runtime = 0
    /\ w.pc \in Stops => w.next \in Targets
    /\ w.pc \in {"watch", "health", "healthy", "publishReady"} => sidecar = w.gen

\* What runs is in somebody's hands.
Held ==
    /\ w.pc # "recover" /\ ~failed =>
          sidecars \subseteq {sidecar, w.child} /\ managers \subseteq {runtime, w.mgr}
    /\ \A a, b \in sidecars : a = b
    /\ \A a, b \in managers : a = b

-----------------------------------------------------------------------------
(***************************************************************************)
(* What the window shows.                                                  *)
(***************************************************************************)
Saving   == {"saveTake", "saveCheck", "save", "updateNavigate", "updateTake",
             "updateCheck", "updatePersist", "updateTransition"}
Starting == {"retryTake", "retryCheck", "retryLoad", "retryDesired",
             "retryTransition", "fullStart", "managerStart", "managerCheck",
             "managerPublish"}
Calm     == {"loginNavigate", "loginTake", "loginDone", "cancelled", "navigate",
             "navigateFailed", "finish"}

\* What a queued command left the window with, until the worker takes it up.
Shown(kind) ==
    /\ kind \in {"SaveSetup", "UpdateLogin"} => phase = "SavingConfig"
    /\ kind = "Retry" => phase = "StartingRuntime"
    /\ kind = "EnterLoginSetup" => phase = "NeedsSetup"

Waiting == \E i \in 1..Len(queue) :
              queue[i].gen = desired /\ queue[i].kind # "SidecarTerminated"
AtWork  == Busy /\ w.gen = desired /\ w.kind # "SidecarTerminated"

Configured ==
    /\ \A i \in 1..Len(queue) :
          queue[i].gen = desired /\ queue[i].kind = "UpdateLogin" => config
    /\ w.pc = "updateNavigate" /\ w.gen = desired => config

\* What the operation at work left the window with.
Task ==
    AtWork /\ w.kind # "Shutdown" =>
        /\ Aim \in Saving => phase = "SavingConfig"
        /\ Aim \in Starting => phase = "StartingRuntime"
        /\ Aim = "spawnCheck" => phase = "StartingSidecar"
        /\ Aim \in Calm => phase \notin Transient

Settles ==
    ~overwritten /\ ~failed /\ w.pc \notin {"recover", "broken"} =>
        /\ \A i \in 1..Len(queue) : queue[i].gen = desired => Shown(queue[i].kind)
        /\ Task
        /\ ~Waiting /\ ~AtWork => phase \notin Transient

\* From the look before the spawn on, only a newer command changes the phase.
Launches ==
    w.pc \in {"spawn", "spawned", "adopt", "watch", "health", "healthy", "publishReady"}
        /\ desired = w.gen => phase = "StartingSidecar"

\* Somebody will tell that the sidecar has ended.
Told(g) == \/ g \in listeners
           \/ \E i \in 1..Len(queue) :
                 queue[i] = [kind |-> "SidecarTerminated", gen |-> g]

Backs ==
    ~shutdown.requested =>
        /\ w.pc \in {"health", "healthy", "publishReady"} /\ desired = w.gen => Told(w.gen)
        /\ phase = "Ready" =>
              /\ sidecar = desired /\ Behind(desired)
              /\ \/ w.pc = "idle"
                 \/ /\ w.gen = desired
                    /\ w.pc \in {"navigate", "navigateFailed", "finish", "terminated",
                                 "recover"}
              /\ Told(desired) \/ w.pc \in {"terminated", "recover"}

IInv ==
    Types /\ Orders /\ Turns /\ Hands /\ Held /\ Configured /\ Settles /\ Launches
          /\ Backs

-----------------------------------------------------------------------------
(***************************************************************************)
(* What the steps of an operation of the worker have in common.            *)
(***************************************************************************)
Thread == [pc : Locations, kind : Kinds, gen : Gens, child : OrNone,
           mgr : OrNone, next : Locations, flag : BOOLEAN]

\* The lease, the intents and the exit are left alone.
Quiet == UNCHANGED <<lease, failed, shutdown, queue, r, exited>>

\* The worker goes on with its operation.
Proceeds == /\ Busy /\ Busy'
            /\ w' \in Thread /\ w'.gen = w.gen /\ w'.kind = w.kind

\* The worker takes a step to pc, with child and mgr in its hands.
Moves(pc, child, mgr, next) ==
    /\ w' \in Thread /\ w'.gen = w.gen /\ w'.kind = w.kind
    /\ w'.pc = pc /\ w'.child = child /\ w'.mgr = mgr /\ w'.next = next

LEMMA GotoMoves ==
  ASSUME TypeOK, NEW pc \in Locations, Goto(pc)
  PROVE  Moves(pc, w.child, w.mgr, w.next) /\ w'.flag = w.flag
BY DEF TypeOK, Thread, Goto, Moves

LEMMA FlagMoves ==
  ASSUME TypeOK, NEW pc \in Locations, NEW f \in BOOLEAN,
         w' = [w EXCEPT !.pc = pc, !.flag = f]
  PROVE  Moves(pc, w.child, w.mgr, w.next)
BY DEF TypeOK, Thread, Moves

LEMMA ReturnMoves ==
  ASSUME TypeOK, Return PROVE Moves("finish", w.child, w.mgr, w.next)
BY GotoMoves DEF Locations, Return

LEMMA TakeSidecarMoves ==
  ASSUME TypeOK, NEW next \in Locations, TakeSidecar(next)
  PROVE  Moves("stopSidecar", sidecar, w.mgr, next) /\ sidecar' = 0
BY DEF TypeOK, Thread, TakeSidecar, Moves, Locations

LEMMA TakeRuntimeMoves ==
  ASSUME TypeOK, NEW next \in Locations, TakeRuntime(next)
  PROVE  Moves("stopManager", w.child, runtime, next) /\ runtime' = 0
BY DEF TypeOK, Thread, TakeRuntime, Moves, Locations

LEMMA TakeBothMoves ==
  ASSUME TypeOK, NEW next \in Locations, TakeBoth(next)
  PROVE  Moves("stopSidecar", sidecar, runtime, next) /\ sidecar' = 0 /\ runtime' = 0
BY DEF TypeOK, Thread, TakeBoth, Moves, Locations

LEMMA NamesOrNone ==
  0 \in OrNone /\ Gens \subseteq OrNone /\ 0 \notin Gens
BY MaxGenAssumption DEF Gens, OrNone

LEMMA ManagerMoves ==
  ASSUME TypeOK
  PROVE  /\ w' = [w EXCEPT !.pc = "managerCheck", !.mgr = w.gen] =>
               Moves("managerCheck", w.child, w.gen, w.next)
         /\ w' = [w EXCEPT !.pc = "stopManager", !.next = "finish"] =>
               Moves("stopManager", w.child, w.mgr, "finish")
         /\ w' = [w EXCEPT !.pc = "spawnCheck", !.mgr = 0] =>
               Moves("spawnCheck", w.child, 0, w.next)
<1>1. ASSUME w' = [w EXCEPT !.pc = "managerCheck", !.mgr = w.gen]
      PROVE  Moves("managerCheck", w.child, w.gen, w.next)
  BY <1>1, NamesOrNone DEF TypeOK, Thread, Moves, Locations
<1>2. ASSUME w' = [w EXCEPT !.pc = "stopManager", !.next = "finish"]
      PROVE  Moves("stopManager", w.child, w.mgr, "finish")
  BY <1>2 DEF TypeOK, Thread, Moves, Locations
<1>3. ASSUME w' = [w EXCEPT !.pc = "spawnCheck", !.mgr = 0]
      PROVE  Moves("spawnCheck", w.child, 0, w.next)
  BY <1>3, NamesOrNone DEF TypeOK, Thread, Moves, Locations
<1>. QED BY <1>1, <1>2, <1>3

LEMMA SpawnMoves ==
  ASSUME TypeOK
  PROVE  /\ w' = [w EXCEPT !.pc = "spawned", !.child = w.gen] =>
               Moves("spawned", w.gen, w.mgr, w.next)
         /\ w' = [w EXCEPT !.pc = "stopSidecar", !.next = "finish"] =>
               Moves("stopSidecar", w.child, w.mgr, "finish")
         /\ sidecar = 0 /\ w' = [w EXCEPT !.pc = IF sidecar # 0 THEN "stopSidecar"
                                                             ELSE "watch",
                                         !.child = sidecar, !.next = "watch"] =>
               Moves("watch", 0, w.mgr, "watch")
<1>1. ASSUME w' = [w EXCEPT !.pc = "spawned", !.child = w.gen]
      PROVE  Moves("spawned", w.gen, w.mgr, w.next)
  BY <1>1, NamesOrNone DEF TypeOK, Thread, Moves, Locations
<1>2. ASSUME w' = [w EXCEPT !.pc = "stopSidecar", !.next = "finish"]
      PROVE  Moves("stopSidecar", w.child, w.mgr, "finish")
  BY <1>2 DEF TypeOK, Thread, Moves, Locations
<1>3. ASSUME sidecar = 0,
             w' = [w EXCEPT !.pc = IF sidecar # 0 THEN "stopSidecar" ELSE "watch",
                            !.child = sidecar, !.next = "watch"]
      PROVE  Moves("watch", 0, w.mgr, "watch")
  <2>1. w' = [w EXCEPT !.pc = "watch", !.child = 0, !.next = "watch"]
    BY <1>3
  <2>. QED BY <2>1, NamesOrNone DEF TypeOK, Thread, Moves, Locations
<1>. QED BY <1>1, <1>2, <1>3

LEMMA AtWorkCurrent ==
  ASSUME IInv, Busy PROVE Current <=> desired = w.gen
BY DEF IInv, Turns, Current

\* Generations and intents stay as they are, but that a new sidecar is watched.
LEMMA QuietOrders ==
  ASSUME IInv, UNCHANGED <<lease, queue>>, Proceeds,
         shutdown'.gen = shutdown.gen, shutdown'.requested = shutdown.requested,
         \/ listeners' = listeners
         \/ w.kind # "Shutdown" /\ listeners' = listeners \cup {w.gen}
  PROVE  Bounded' /\ Orders' /\ Waiting' = Waiting /\ AtWork' = AtWork
<1>1. Bounded' BY DEF IInv, Types, Bounded, lease
<1>2. \A i \in 1..Len(queue) : queue[i].kind # "Initialize"
  BY DEF IInv, Orders, Proceeds, Busy, Idle
<1>3. \A g : Behind(g)' = Behind(g) BY DEF Behind
<1>4. Orders'
  BY <1>2, <1>3 DEF IInv, Orders, lease, Proceeds
<1>. QED BY <1>1, <1>4 DEF Waiting, AtWork, lease, Proceeds

\* A step that shows something of the current generation only, or says that it
\* has overwritten what a newer command shows.
LEMMA QuietSettles ==
  ASSUME IInv, UNCHANGED <<lease, queue, failed>>, Proceeds,
         w.pc # "recover", overwritten => overwritten',
         \/ phase' = phase
         \/ /\ desired = w.gen /\ w.kind # "Shutdown"
            /\ w.kind = "SidecarTerminated" => phase' \notin Transient
         \/ overwritten',
         ~overwritten /\ ~failed => Task'
  PROVE  Settles'
<1>1. /\ Waiting' = Waiting /\ AtWork' = AtWork /\ desired' = desired
      /\ queue' = queue /\ failed' = failed
  BY DEF lease, Waiting, AtWork, Proceeds
<1>2. w.pc \notin {"recover", "broken"}
  BY DEF Proceeds, Busy
<1>3. ASSUME NEW i \in 1..Len(queue), queue[i].gen = desired, ~overwritten', ~failed
      PROVE  Shown(queue[i].kind)'
  <2>1. Shown(queue[i].kind) BY <1>2, <1>3 DEF IInv, Settles
  <2>2. CASE phase' = phase BY <1>1, <2>1, <2>2 DEF Shown
  <2>3. CASE desired = w.gen /\ w.kind # "Shutdown"
    <3>1. queue[i].kind \notin Requests \/ phase' = phase
      BY <1>3, <2>3 DEF IInv, Orders, Behind, Proceeds
    <3>. QED BY <2>2, <1>1, <3>1 DEF Shown, Requests, Commands
  <2>. QED BY <1>3, <2>2, <2>3
<1>4. ASSUME ~overwritten', ~failed, ~Waiting, ~AtWork PROVE phase' \notin Transient
  BY <1>2, <1>4 DEF IInv, Settles, AtWork, Proceeds
<1>. QED BY <1>1, <1>3, <1>4 DEF Settles

LEMMA QuietConfigured ==
  ASSUME IInv, UNCHANGED <<lease, queue>>, Proceeds,
         config' = config \/ (desired = w.gen /\ w.kind # "Shutdown"),
         w'.pc # "updateNavigate"
  PROVE  Configured'
BY DEF IInv, Configured, Orders, Behind, Requests, Commands, lease, Proceeds

LEMMA Appended ==
  ASSUME queue \in Seq(Intents), NEW x \in Intents, queue' = Append(queue, x)
  PROVE  /\ queue' \in Seq(Intents) /\ Len(queue) \in Nat /\ Len(queue') = Len(queue) + 1
         /\ \A i \in 1..Len(queue) : i \in 1..Len(queue') /\ queue'[i] = queue[i]
         /\ queue'[Len(queue) + 1] = x
         /\ \A i \in 1..Len(queue') : i \in 1..Len(queue) \/ i = Len(queue) + 1
OBVIOUS

LEMMA TakenUp ==
  ASSUME queue \in Seq(Intents), queue # <<>>, queue' = Tail(queue)
  PROVE  /\ queue' \in Seq(Intents) /\ 1 \in 1..Len(queue)
         /\ Head(queue) = queue[1] /\ Head(queue) \in Intents
         /\ \A i \in 1..Len(queue') :
               i \in Nat /\ i + 1 \in 1..Len(queue) /\ i + 1 # 1 /\ queue'[i] = queue[i + 1]
         /\ \A i \in 1..Len(queue) : i # 1 =>
               i - 1 \in 1..Len(queue') /\ queue'[i - 1] = queue[i]
OBVIOUS

\* The initialisation.
LEMMA InitializeKeeps == ASSUME IInv, RunInitialize PROVE IInv'
<1>1. UNCHANGED <<lease, failed, shutdown, queue, r, exited, runtime, sidecar,
                  sidecars, managers, pending, listeners, overwritten>>
  BY DEF RunInitialize, Elsewhere, lease, processes
<1>2. /\ w.pc = "initialize"
      /\ \/ /\ Moves("finish", w.child, w.mgr, w.next)
            /\ phase' = (IF Current THEN "NeedsSetup" ELSE phase)
         \/ /\ Moves(IF Current THEN "fullStart" ELSE "finish", w.child, w.mgr, w.next)
            /\ phase' = (IF Current THEN "StartingRuntime" ELSE phase)
  BY GotoMoves, ReturnMoves
     DEF IInv, Types, RunInitialize, At, Locations, ShowIfCurrent
<1>3. Proceeds /\ (Current <=> desired = w.gen)
  BY <1>2, AtWorkCurrent DEF Proceeds, Busy, Moves, Locations
<1>4. /\ w.kind # "Shutdown" /\ w.kind # "SidecarTerminated"
      /\ w.pc # "recover" /\ ~failed /\ ~exited
  BY <1>2 DEF IInv, Turns, Aim, Stops, Closing, RunInitialize, At
<1>5. config' \in BOOLEAN /\ (config' = config \/ desired = w.gen)
  BY <1>3, Zenon DEF IInv, Types, TypeOK, RunInitialize
<1>6. TypeOK'
  BY MaxGenAssumption, <1>1, <1>2, <1>3, <1>5 DEF IInv, Types, TypeOK, lease, Proceeds,
     Thread, Phases, OrNone
<1>7. Bounded' /\ Orders'
  BY <1>1, <1>2, <1>3, <1>4, QuietOrders
<1>8. Turns'
  BY <1>1, <1>2, <1>3, <1>4 DEF IInv, Turns, Aim, Stops, Closing, Busy, lease, Moves,
     Proceeds
<1>9. Hands'
  BY <1>1, <1>2, <1>3 DEF IInv, Hands, Aim, Bare, Without, Stops, Moves, Proceeds,
     Targets
<1>10. Held'
  BY <1>1, <1>2, <1>3, <1>4 DEF IInv, Types, TypeOK, Held, Hands, Without, Bare, Aim,
     Stops, Moves, Gens
<1>11. Configured'
  BY <1>1, <1>2, <1>3, <1>4, <1>5, QuietConfigured DEF Moves
<1>12. Settles'
  <2>1. ~overwritten /\ ~failed => Task'
    BY <1>1, <1>2, <1>3, <1>4
    DEF IInv, Settles, Task, AtWork, Aim, Saving, Starting, Calm, Stops, Transient,
        Proceeds, lease, Moves, CurrentIn
  <2>. QED BY <1>1, <1>2, <1>3, <1>4, <1>5, <2>1, QuietSettles DEF Transient, CurrentIn
<1>13. Launches'
  BY <1>1, <1>2, <1>3 DEF IInv, Launches, Moves, Proceeds, lease, CurrentIn
<1>14. Backs'
  BY <1>1, <1>2, <1>3, <1>4 DEF IInv, Backs, Behind, Told, Moves, Proceeds, lease,
     CurrentIn
<1>. QED BY <1>6, <1>7, <1>8, <1>9, <1>10, <1>11, <1>12, <1>13, <1>14 DEF IInv, Types

\* Saving the setup.
LEMMA SaveSetupKeeps == ASSUME IInv, RunSaveSetup PROVE IInv'
<1>1. UNCHANGED <<lease, failed, shutdown, queue, r, exited, sidecars, managers,
                  pending, listeners, overwritten>>
  BY DEF RunSaveSetup, Elsewhere, lease, processes
<1>2. \/ /\ w.pc = "saveTake" /\ Moves("stopSidecar", sidecar, runtime, "saveCheck")
         /\ sidecar' = 0 /\ runtime' = 0 /\ phase' = phase
      \/ /\ w.pc = "saveCheck" /\ UNCHANGED <<phase, sidecar, runtime>>
         /\ Moves(IF CurrentIn("SavingConfig") THEN "save" ELSE "finish", w.child, w.mgr, w.next)
      \/ /\ w.pc = "save" /\ UNCHANGED <<sidecar, runtime>>
         /\ \/ /\ Moves("finish", w.child, w.mgr, w.next)
               /\ phase' = (IF Current THEN "NeedsSetup" ELSE phase)
            \/ /\ Moves(IF Current THEN "fullStart" ELSE "finish", w.child, w.mgr, w.next)
               /\ phase' = (IF Current THEN "StartingRuntime" ELSE phase)
  BY GotoMoves, ReturnMoves, TakeBothMoves
     DEF IInv, Types, RunSaveSetup, At, Locations, ShowIfCurrent
<1>3. Proceeds /\ (Current <=> desired = w.gen)
  BY <1>2, AtWorkCurrent DEF Proceeds, Busy, Moves, Locations
<1>4. /\ w.kind # "Shutdown" /\ w.kind # "SidecarTerminated"
      /\ w.pc # "recover" /\ ~failed /\ ~exited
  BY <1>2 DEF IInv, Turns, Aim, Stops, Closing, RunSaveSetup, At
<1>5. config' \in BOOLEAN /\ (config' = config \/ desired = w.gen)
  BY <1>3, Zenon DEF IInv, Types, TypeOK, RunSaveSetup
<1>6. TypeOK'
  BY MaxGenAssumption, <1>1, <1>2, <1>3, <1>5 DEF IInv, Types, TypeOK, lease, Proceeds,
     Thread, Phases, OrNone
<1>7. Bounded' /\ Orders'
  BY <1>1, <1>2, <1>3, <1>4, QuietOrders
<1>8. Turns'
  BY <1>1, <1>2, <1>3, <1>4 DEF IInv, Turns, Aim, Stops, Closing, Busy, lease, Moves,
     Proceeds
<1>9. Hands'
  BY <1>1, <1>2, <1>3 DEF IInv, Hands, Aim, Bare, Without, Stops, Moves, Proceeds,
     Targets
<1>10. Held'
  BY <1>1, <1>2, <1>3, <1>4 DEF IInv, Types, TypeOK, Held, Hands, Without, Bare, Aim,
     Stops, Moves, Gens
<1>11. Configured'
  BY <1>1, <1>2, <1>3, <1>4, <1>5, QuietConfigured DEF Moves
<1>12. Settles'
  <2>1. ~overwritten /\ ~failed => Task'
    BY <1>1, <1>2, <1>3, <1>4
    DEF IInv, Settles, Task, AtWork, Aim, Saving, Starting, Calm, Stops, Transient,
        Proceeds, lease, Moves, CurrentIn
  <2>. QED BY <1>1, <1>2, <1>3, <1>4, <1>5, <2>1, QuietSettles DEF Transient, CurrentIn
<1>13. Launches'
  BY <1>1, <1>2, <1>3 DEF IInv, Launches, Moves, Proceeds, lease, CurrentIn
<1>14. Backs'
  BY <1>1, <1>2, <1>3, <1>4 DEF IInv, Backs, Behind, Told, Moves, Proceeds, lease,
     CurrentIn
<1>. QED BY <1>6, <1>7, <1>8, <1>9, <1>10, <1>11, <1>12, <1>13, <1>14 DEF IInv, Types

\* The way back to the login page.
LEMMA EnterLoginSetupKeeps == ASSUME IInv, RunEnterLoginSetup PROVE IInv'
<1>1. UNCHANGED <<lease, failed, shutdown, queue, r, exited, config, runtime, sidecars,
                  managers, pending, listeners, overwritten>>
  BY DEF RunEnterLoginSetup, Elsewhere, lease, processes
<1>2. \/ /\ w.pc = "loginNavigate" /\ Moves("loginTake", w.child, w.mgr, w.next)
         /\ UNCHANGED <<phase, sidecar>>
      \/ /\ w.pc = "loginTake" /\ Moves("stopSidecar", sidecar, w.mgr, "loginDone")
         /\ sidecar' = 0 /\ phase' = phase
      \/ /\ w.pc = "loginDone" /\ Moves("finish", w.child, w.mgr, w.next)
         /\ sidecar' = sidecar /\ phase' \in {phase, IF Current THEN "Failed" ELSE phase}
  BY ReturnMoves, TakeSidecarMoves, FlagMoves
     DEF IInv, Types, RunEnterLoginSetup, At, Locations
<1>3. Proceeds /\ (Current <=> desired = w.gen)
  BY <1>2, AtWorkCurrent DEF Proceeds, Busy, Moves, Locations
<1>4. /\ w.kind # "Shutdown" /\ w.kind # "SidecarTerminated"
      /\ w.pc # "recover" /\ ~failed /\ ~exited
  BY <1>2 DEF IInv, Turns, Aim, Stops, Closing, RunEnterLoginSetup, At
<1>5. TypeOK'
  BY MaxGenAssumption, <1>1, <1>2, <1>3 DEF IInv, Types, TypeOK, lease, Proceeds,
     Thread, Phases, OrNone
<1>6. Bounded' /\ Orders'
  BY <1>1, <1>2, <1>3, <1>4, QuietOrders
<1>7. Turns'
  BY <1>1, <1>2, <1>3, <1>4 DEF IInv, Turns, Aim, Stops, Closing, Busy, lease, Moves,
     Proceeds
<1>8. Hands'
  BY <1>1, <1>2, <1>3 DEF IInv, Hands, Aim, Bare, Without, Stops, Moves, Proceeds,
     Targets
<1>9. Held'
  BY <1>1, <1>2, <1>3, <1>4 DEF IInv, Types, TypeOK, Held, Hands, Without, Bare, Aim,
     Stops, Moves, Gens
<1>10. Configured'
  BY <1>1, <1>2, <1>3, <1>4, QuietConfigured DEF Moves
<1>11. Settles'
  <2>1. ~overwritten /\ ~failed => Task'
    BY <1>1, <1>2, <1>3, <1>4
    DEF IInv, Settles, Task, AtWork, Aim, Saving, Starting, Calm, Stops, Transient,
        Proceeds, lease, Moves, CurrentIn
  <2>. QED BY <1>1, <1>2, <1>3, <1>4, <2>1, QuietSettles DEF Transient, CurrentIn
<1>12. Launches'
  BY <1>1, <1>2, <1>3 DEF IInv, Launches, Moves, Proceeds, lease, CurrentIn
<1>13. Backs'
  BY <1>1, <1>2, <1>3, <1>4 DEF IInv, Backs, Behind, Told, Moves, Proceeds, lease,
     CurrentIn
<1>. QED BY <1>5, <1>6, <1>7, <1>8, <1>9, <1>10, <1>11, <1>12, <1>13 DEF IInv, Types

\* Starting again.
LEMMA RetryKeeps == ASSUME IInv, RunRetry PROVE IInv'
<1>1. UNCHANGED <<lease, failed, shutdown, queue, r, exited, sidecars, managers,
                  pending, listeners>>
  BY DEF RunRetry, Elsewhere, lease, processes
<1>2. /\ \/ /\ w.pc = "retryTake" /\ Moves("stopSidecar", sidecar, w.mgr, "retryCheck")
            /\ sidecar' = 0 /\ UNCHANGED <<phase, runtime>>
         \/ /\ w.pc = "retryCheck" /\ UNCHANGED <<phase, sidecar, runtime>>
            /\ Moves(IF CurrentIn("StartingRuntime") THEN "retryLoad" ELSE "finish",
                     w.child, w.mgr, w.next)
         \/ /\ w.pc = "retryLoad" /\ Moves("stopManager", w.child, runtime, "finish")
            /\ runtime' = 0 /\ sidecar' = sidecar
            /\ phase' = (IF Current THEN "NeedsSetup" ELSE phase)
         \/ /\ w.pc = "retryLoad" /\ UNCHANGED <<phase, sidecar>>
            /\ \/ ~Current /\ Moves("finish", w.child, w.mgr, w.next) /\ runtime' = runtime
               \/ /\ Current /\ Moves("stopManager", w.child, runtime, "retryDesired")
                  /\ runtime' = 0
               \/ Current /\ Moves("retryDesired", w.child, w.mgr, w.next) /\ runtime' = runtime
         \/ /\ w.pc = "retryDesired" /\ UNCHANGED <<phase, sidecar, runtime>>
            /\ Moves(IF desired = w.gen THEN "retryTransition" ELSE "finish",
                     w.child, w.mgr, w.next)
         \/ /\ w.pc = "retryTransition" /\ UNCHANGED <<sidecar, runtime>>
            /\ \/ /\ runtime # 0 /\ phase' = "StartingSidecar"
                  /\ Moves("spawnCheck", w.child, w.mgr, w.next)
               \/ /\ runtime = 0 /\ phase' = "StartingRuntime"
                  /\ Moves("fullStart", w.child, w.mgr, w.next)
  <2>1. CASE w.pc = "retryTake"
    BY <2>1, GotoMoves, ReturnMoves, TakeSidecarMoves, TakeRuntimeMoves
    DEF IInv, Types, RunRetry, At, Locations, ShowIfCurrent
  <2>2. CASE w.pc = "retryCheck"
    BY <2>2, GotoMoves, ReturnMoves, TakeSidecarMoves, TakeRuntimeMoves
    DEF IInv, Types, RunRetry, At, Locations, ShowIfCurrent
  <2>3. CASE w.pc = "retryLoad"
    BY <2>3, GotoMoves, ReturnMoves, TakeSidecarMoves, TakeRuntimeMoves
    DEF IInv, Types, RunRetry, At, Locations, ShowIfCurrent
  <2>4. CASE w.pc = "retryDesired"
    BY <2>4, GotoMoves, ReturnMoves, TakeSidecarMoves, TakeRuntimeMoves
    DEF IInv, Types, RunRetry, At, Locations, ShowIfCurrent
  <2>5. CASE w.pc = "retryTransition"
    BY <2>5, GotoMoves, ReturnMoves, TakeSidecarMoves, TakeRuntimeMoves
    DEF IInv, Types, RunRetry, At, Locations, ShowIfCurrent
  <2>. QED BY <2>1, <2>2, <2>3, <2>4, <2>5 DEF RunRetry, At
<1>3. Proceeds /\ (Current <=> desired = w.gen)
  BY <1>2, AtWorkCurrent DEF Proceeds, Busy, Moves, Locations
<1>4. /\ w.kind # "Shutdown" /\ w.kind # "SidecarTerminated"
      /\ w.pc # "recover" /\ ~failed /\ ~exited
  BY <1>2 DEF IInv, Turns, Aim, Stops, Closing, RunRetry, At
<1>5. config' \in BOOLEAN /\ (config' = config \/ desired = w.gen)
      /\ overwritten' \in BOOLEAN /\ (overwritten => overwritten')
      /\ (w.pc = "retryTransition" => desired = w.gen \/ overwritten')
  <2>1. config' = config \/ config' = (config /\ ~Current) \/ config' = (config \/ Current)
    BY Zenon DEF RunRetry
  <2>2. /\ config' \in BOOLEAN
        /\ config' = config \/ desired = w.gen
    BY <2>1, <1>3, Zenon DEF IInv, Types, TypeOK
  <2>3. \/ overwritten' = overwritten /\ w.pc # "retryTransition"
        \/ overwritten' = (overwritten \/ desired # w.gen)
    BY DEF RunRetry, At
  <2>4. /\ overwritten' \in BOOLEAN /\ (overwritten => overwritten')
        /\ (w.pc = "retryTransition" => desired = w.gen \/ overwritten')
    BY <2>3, Zenon DEF IInv, Types, TypeOK
  <2>. QED BY <2>2, <2>4
<1>6. TypeOK'
  <2>1. phase' \in Phases BY <1>1, <1>2 DEF IInv, Types, TypeOK, Phases
  <2>2. runtime' \in OrNone /\ sidecar' \in OrNone
    BY MaxGenAssumption, <1>1, <1>2 DEF IInv, Types, TypeOK, OrNone
  <2>. QED BY <1>1, <1>3, <1>5, <2>1, <2>2 DEF IInv, Types, TypeOK, lease, Proceeds,
              Thread
<1>7. Bounded' /\ Orders'
  BY <1>1, <1>2, <1>3, <1>4, QuietOrders
<1>8. Turns'
  BY <1>1, <1>2, <1>3, <1>4 DEF IInv, Turns, Aim, Stops, Closing, Busy, lease, Moves,
     Proceeds
<1>9. Hands'
  BY <1>1, <1>2, <1>3 DEF IInv, Hands, Aim, Bare, Without, Stops, Moves, Proceeds,
     Targets
<1>10. Held'
  BY <1>1, <1>2, <1>3, <1>4 DEF IInv, Types, TypeOK, Held, Hands, Without, Bare, Aim,
     Stops, Moves, Gens
<1>11. Configured'
  BY <1>1, <1>2, <1>3, <1>4, <1>5, QuietConfigured DEF Moves
<1>12. Settles'
  <2>1. ~overwritten /\ ~failed => Task'
    BY <1>1, <1>2, <1>3, <1>4
    DEF IInv, Settles, Task, AtWork, Aim, Saving, Starting, Calm, Stops, Transient,
        Proceeds, lease, Moves, CurrentIn
  <2>. QED BY <1>1, <1>2, <1>3, <1>4, <1>5, <2>1, QuietSettles DEF Transient, CurrentIn
<1>13. Launches'
  BY <1>1, <1>2, <1>3 DEF IInv, Launches, Moves, Proceeds, lease, CurrentIn
<1>14. Backs'
  BY <1>1, <1>2, <1>3, <1>4 DEF IInv, Backs, Behind, Told, Moves, Proceeds, lease,
     CurrentIn
<1>. QED BY <1>6, <1>7, <1>8, <1>9, <1>10, <1>11, <1>12, <1>13, <1>14 DEF IInv, Types

\* A new login.
LEMMA UpdateLoginKeeps == ASSUME IInv, RunUpdateLogin PROVE IInv'
<1>1. UNCHANGED <<lease, failed, shutdown, queue, r, exited, config, runtime, sidecars,
                  managers, pending, listeners, overwritten>>
  BY DEF RunUpdateLogin, Elsewhere, lease, processes
<1>2. \/ /\ w.pc = "updateNavigate" /\ UNCHANGED <<phase, sidecar>>
         /\ \/ config /\ Moves("updateTake", w.child, w.mgr, w.next)
            \/ ~config /\ Moves("finish", w.child, w.mgr, w.next)
      \/ /\ w.pc = "updateTake" /\ Moves("stopSidecar", sidecar, w.mgr, "updateCheck")
         /\ sidecar' = 0 /\ phase' = phase
      \/ /\ w.pc = "updateCheck" /\ sidecar' = sidecar
         /\ \/ /\ w.flag /\ phase' = (IF Current THEN "Failed" ELSE phase)
               /\ Moves("finish", w.child, w.mgr, w.next)
            \/ /\ ~w.flag /\ phase' = phase
               /\ Moves(IF CurrentIn("SavingConfig") THEN "updatePersist" ELSE "finish",
                        w.child, w.mgr, w.next)
      \/ /\ w.pc = "updatePersist" /\ UNCHANGED <<phase, sidecar>>
         /\ \/ ~CurrentIn("SavingConfig") /\ Moves("finish", w.child, w.mgr, w.next)
            \/ /\ CurrentIn("SavingConfig")
               /\ \E pc \in {"updateTransition", "updateFailed"} :
                     Moves(pc, w.child, w.mgr, w.next)
      \/ /\ w.pc = "updateFailed" /\ sidecar' = sidecar
         /\ phase' = (IF Current THEN "NeedsSetup" ELSE phase)
         /\ Moves("finish", w.child, w.mgr, w.next)
      \/ /\ w.pc = "updateTransition" /\ sidecar' = sidecar
         /\ \/ ~Current /\ phase' = phase /\ Moves("finish", w.child, w.mgr, w.next)
            \/ /\ Current /\ runtime # 0 /\ phase' = "StartingSidecar"
               /\ Moves("spawnCheck", w.child, w.mgr, w.next)
            \/ /\ Current /\ runtime = 0 /\ phase' = "StartingRuntime"
               /\ Moves("fullStart", w.child, w.mgr, w.next)
  <2>1. CASE w.pc = "updateNavigate"
    BY <2>1, GotoMoves, ReturnMoves, TakeSidecarMoves, FlagMoves
    DEF IInv, Types, RunUpdateLogin, At, Locations, ShowIfCurrent
  <2>2. CASE w.pc = "updateTake"
    BY <2>2, GotoMoves, ReturnMoves, TakeSidecarMoves, FlagMoves
    DEF IInv, Types, RunUpdateLogin, At, Locations, ShowIfCurrent
  <2>3. CASE w.pc = "updateCheck"
    BY <2>3, GotoMoves, ReturnMoves, TakeSidecarMoves, FlagMoves
    DEF IInv, Types, RunUpdateLogin, At, Locations, ShowIfCurrent
  <2>4. CASE w.pc = "updatePersist"
    BY <2>4, GotoMoves, ReturnMoves, TakeSidecarMoves, FlagMoves
    DEF IInv, Types, RunUpdateLogin, At, Locations, ShowIfCurrent
  <2>5. CASE w.pc = "updateFailed"
    BY <2>5, GotoMoves, ReturnMoves, TakeSidecarMoves, FlagMoves
    DEF IInv, Types, RunUpdateLogin, At, Locations, ShowIfCurrent
  <2>6. CASE w.pc = "updateTransition"
    BY <2>6, GotoMoves, ReturnMoves, TakeSidecarMoves, FlagMoves
    DEF IInv, Types, RunUpdateLogin, At, Locations, ShowIfCurrent
  <2>. QED BY <2>1, <2>2, <2>3, <2>4, <2>5, <2>6 DEF RunUpdateLogin, At
<1>3. Proceeds /\ (Current <=> desired = w.gen)
  BY <1>2, AtWorkCurrent DEF Proceeds, Busy, Moves, Locations
<1>4. /\ w.kind # "Shutdown" /\ w.kind # "SidecarTerminated"
      /\ w.pc # "recover" /\ ~failed /\ ~exited
  BY <1>2 DEF IInv, Turns, Aim, Stops, Closing, RunUpdateLogin, At
<1>5. TypeOK'
  BY MaxGenAssumption, <1>1, <1>2, <1>3 DEF IInv, Types, TypeOK, lease, Proceeds,
     Thread, Phases, OrNone
<1>6. Bounded' /\ Orders'
  BY <1>1, <1>2, <1>3, <1>4, QuietOrders
<1>7. Turns'
  BY <1>1, <1>2, <1>3, <1>4 DEF IInv, Turns, Aim, Stops, Closing, Busy, lease, Moves,
     Proceeds
<1>8. Hands'
  BY <1>1, <1>2, <1>3 DEF IInv, Hands, Aim, Bare, Without, Stops, Moves, Proceeds,
     Targets
<1>9. Held'
  BY <1>1, <1>2, <1>3, <1>4 DEF IInv, Types, TypeOK, Held, Hands, Without, Bare, Aim,
     Stops, Moves, Gens
<1>10. Configured'
  BY <1>1, <1>2, <1>3, <1>4, QuietConfigured DEF Moves
<1>11. Settles'
  <2>1. ~overwritten /\ ~failed => Task'
    BY <1>1, <1>2, <1>3, <1>4
    DEF IInv, Settles, Task, AtWork, Aim, Saving, Starting, Calm, Stops, Transient,
        Proceeds, lease, Moves, CurrentIn, Configured
  <2>. QED BY <1>1, <1>2, <1>3, <1>4, <2>1, QuietSettles DEF Transient, CurrentIn
<1>12. Launches'
  BY <1>1, <1>2, <1>3 DEF IInv, Launches, Moves, Proceeds, lease, CurrentIn
<1>13. Backs'
  BY <1>1, <1>2, <1>3, <1>4 DEF IInv, Backs, Behind, Told, Moves, Proceeds, lease,
     CurrentIn
<1>. QED BY <1>5, <1>6, <1>7, <1>8, <1>9, <1>10, <1>11, <1>12, <1>13 DEF IInv, Types

\* The sidecar has ended by itself.
LEMMA SidecarTerminatedKeeps == ASSUME IInv, RunSidecarTerminated PROVE IInv'
<1>1. UNCHANGED <<lease, failed, shutdown, queue, r, exited, config, runtime, sidecars,
                  managers, listeners, overwritten>>
  BY DEF RunSidecarTerminated, Elsewhere, lease, processes
<1>2. /\ w.pc = "terminated"
      /\ \/ /\ Current /\ Moves("stopSidecar", sidecar, w.mgr, "finish")
            /\ sidecar' = 0 /\ pending' = 0 /\ phase' = "Failed"
         \/ /\ ~(Current /\ phase \in {"StartingSidecar", "Ready", "Failed"})
            /\ Moves("finish", w.child, w.mgr, w.next) /\ UNCHANGED <<sidecar, pending,
                                                                      phase>>
  BY ReturnMoves, TakeSidecarMoves
     DEF IInv, Types, RunSidecarTerminated, At, Locations
<1>3. Proceeds /\ (Current <=> desired = w.gen)
  BY <1>2, AtWorkCurrent DEF Proceeds, Busy, Moves, Locations
<1>4. /\ w.kind # "Shutdown" /\ w.kind = "SidecarTerminated"
      /\ w.pc # "recover" /\ ~failed /\ ~exited
  BY <1>2 DEF IInv, Turns, Aim, Stops, Closing, RunSidecarTerminated, At
<1>5. TypeOK'
  BY MaxGenAssumption, <1>1, <1>2, <1>3 DEF IInv, Types, TypeOK, lease, Proceeds,
     Thread, Phases, OrNone
<1>6. Bounded' /\ Orders'
  BY <1>1, <1>2, <1>3, <1>4, QuietOrders
<1>7. Turns'
  BY <1>1, <1>2, <1>3, <1>4 DEF IInv, Turns, Aim, Stops, Closing, Busy, lease, Moves,
     Proceeds
<1>8. Hands'
  BY <1>1, <1>2, <1>3 DEF IInv, Hands, Aim, Bare, Without, Stops, Moves, Proceeds,
     Targets
<1>9. Held'
  BY <1>1, <1>2, <1>3, <1>4 DEF IInv, Types, TypeOK, Held, Hands, Without, Bare, Aim,
     Stops, Moves, Gens
<1>10. Configured'
  BY <1>1, <1>2, <1>3, <1>4, QuietConfigured DEF Moves
<1>11. Settles'
  <2>1. ~overwritten /\ ~failed => Task'
    BY <1>1, <1>2, <1>3, <1>4
    DEF IInv, Settles, Task, AtWork, Aim, Saving, Starting, Calm, Stops, Transient,
        Proceeds, lease, Moves, CurrentIn
  <2>. QED BY <1>1, <1>2, <1>3, <1>4, <2>1, QuietSettles DEF Transient, CurrentIn
<1>12. Launches'
  BY <1>1, <1>2, <1>3 DEF IInv, Launches, Moves, Proceeds, lease, CurrentIn
<1>13. Backs'
  BY <1>1, <1>2, <1>3, <1>4 DEF IInv, Backs, Behind, Told, Moves, Proceeds, lease,
     CurrentIn
<1>. QED BY <1>5, <1>6, <1>7, <1>8, <1>9, <1>10, <1>11, <1>12, <1>13 DEF IInv, Types

\* The start of the Runtime Manager.
LEMMA FullStartKeeps == ASSUME IInv, RunFullStart PROVE IInv'
<1>1. UNCHANGED <<lease, failed, shutdown, queue, r, exited, config, sidecar, sidecars,
                  pending, listeners, overwritten>>
  BY DEF RunFullStart, Elsewhere, lease, processes
<1>2. \/ /\ w.pc = "fullStart" /\ UNCHANGED <<phase, runtime, managers>>
         /\ Moves(IF CurrentIn("StartingRuntime") THEN "managerStart" ELSE "finish",
                  w.child, w.mgr, w.next)
      \/ /\ w.pc = "managerStart" /\ UNCHANGED <<runtime, managers>>
         /\ phase' = (IF Current THEN "Failed" ELSE phase)
         /\ Moves("finish", w.child, w.mgr, w.next)
      \/ /\ w.pc = "managerStart" /\ UNCHANGED <<phase, runtime>>
         /\ managers' = managers \cup {w.gen}
         /\ Moves("managerCheck", w.child, w.gen, w.next)
      \/ /\ w.pc = "managerCheck" /\ UNCHANGED <<phase, runtime, managers>>
         /\ \/ CurrentIn("StartingRuntime") /\ Moves("managerPublish", w.child, w.mgr, w.next)
            \/ ~CurrentIn("StartingRuntime") /\ Moves("stopManager", w.child, w.mgr, "finish")
      \/ /\ w.pc = "managerPublish"
         /\ \/ /\ Current /\ runtime' = w.mgr /\ phase' = "StartingSidecar"
               /\ managers' = managers \ ({runtime} \ {w.mgr})
               /\ Moves("spawnCheck", w.child, 0, w.next)
            \/ /\ ~Current /\ UNCHANGED <<phase, runtime, managers>>
               /\ Moves("stopManager", w.child, w.mgr, "finish")
  <2>1. CASE w.pc = "fullStart"
    BY <2>1, GotoMoves, ReturnMoves, ManagerMoves
    DEF IInv, Types, RunFullStart, At, Locations, ShowIfCurrent
  <2>2. CASE w.pc = "managerStart"
    BY <2>2, GotoMoves, ReturnMoves, ManagerMoves
    DEF IInv, Types, RunFullStart, At, Locations, ShowIfCurrent
  <2>3. CASE w.pc = "managerCheck"
    BY <2>3, GotoMoves, ReturnMoves, ManagerMoves
    DEF IInv, Types, RunFullStart, At, Locations, ShowIfCurrent
  <2>4. CASE w.pc = "managerPublish"
    BY <2>4, GotoMoves, ReturnMoves, ManagerMoves
    DEF IInv, Types, RunFullStart, At, Locations, ShowIfCurrent
  <2>. QED BY <2>1, <2>2, <2>3, <2>4 DEF RunFullStart, At
<1>3. Proceeds /\ (Current <=> desired = w.gen)
  BY <1>2, AtWorkCurrent DEF Proceeds, Busy, Moves, Locations
<1>4. /\ w.kind # "Shutdown" /\ w.kind # "SidecarTerminated"
      /\ w.pc # "recover" /\ ~failed /\ ~exited
  BY <1>2 DEF IInv, Turns, Aim, Stops, Closing, RunFullStart, At
<1>5. TypeOK'
  BY MaxGenAssumption, <1>1, <1>2, <1>3 DEF IInv, Types, TypeOK, lease, Proceeds,
     Thread, Phases, OrNone
<1>6. Bounded' /\ Orders'
  BY <1>1, <1>2, <1>3, <1>4, QuietOrders
<1>7. Turns'
  BY <1>1, <1>2, <1>3, <1>4 DEF IInv, Turns, Aim, Stops, Closing, Busy, lease, Moves,
     Proceeds
<1>8. Hands'
  BY <1>1, <1>2, <1>3 DEF IInv, Hands, Aim, Bare, Without, Stops, Moves, Proceeds,
     Targets
<1>9. Held'
  <2>1. w.pc = "managerStart" => managers = {}
    BY <1>4 DEF IInv, Types, TypeOK, Held, Hands, Bare, Aim, Stops, Gens
  <2>2. /\ sidecars \subseteq {sidecar, w.child} /\ managers \subseteq {runtime, w.mgr}
        /\ sidecars \subseteq {sidecar', w'.child}
    BY <1>1, <1>2, <1>4 DEF IInv, Held, Moves
  <2>3. managers' \subseteq {runtime', w'.mgr}
    BY <1>2, <2>1, <2>2 DEF Moves
  <2>4. \A a, b \in managers' : a = b
    BY <1>2, <2>1 DEF IInv, Held
  <2>. QED BY <1>1, <2>2, <2>3, <2>4 DEF IInv, Held
<1>10. Configured'
  BY <1>1, <1>2, <1>3, <1>4, QuietConfigured DEF Moves
<1>11. Settles'
  <2>1. ~overwritten /\ ~failed => Task'
    BY <1>1, <1>2, <1>3, <1>4
    DEF IInv, Settles, Task, AtWork, Aim, Saving, Starting, Calm, Stops, Transient,
        Proceeds, lease, Moves, CurrentIn
  <2>. QED BY <1>1, <1>2, <1>3, <1>4, <2>1, QuietSettles DEF Transient, CurrentIn
<1>12. Launches'
  BY <1>1, <1>2, <1>3 DEF IInv, Launches, Moves, Proceeds, lease, CurrentIn
<1>13. Backs'
  BY <1>1, <1>2, <1>3, <1>4 DEF IInv, Backs, Behind, Told, Moves, Proceeds, lease,
     CurrentIn
<1>. QED BY <1>5, <1>6, <1>7, <1>8, <1>9, <1>10, <1>11, <1>12, <1>13 DEF IInv, Types

\* The start of the sidecar.
LEMMA SpawnKeeps == ASSUME IInv, SpawnSidecar PROVE IInv'
<1>1. UNCHANGED <<lease, failed, shutdown, queue, r, exited, config, runtime, managers,
                  pending, overwritten>>
  BY DEF SpawnSidecar, Elsewhere, lease, processes
<1>2. \/ /\ w.pc = "spawnCheck" /\ UNCHANGED <<phase, sidecar, sidecars, listeners>>
         /\ \/ CurrentIn("StartingSidecar") /\ Moves("spawn", w.child, w.mgr, w.next)
            \/ ~CurrentIn("StartingSidecar") /\ Moves("finish", w.child, w.mgr, w.next)
      \/ /\ w.pc = "spawn" /\ UNCHANGED <<sidecar, sidecars, listeners>>
         /\ phase' = (IF Current THEN "Failed" ELSE phase)
         /\ Moves("finish", w.child, w.mgr, w.next)
      \/ /\ w.pc = "spawn" /\ UNCHANGED <<phase, sidecar, listeners>>
         /\ sidecars' = sidecars \cup {w.gen}
         /\ Moves("spawned", w.gen, w.mgr, w.next)
      \/ /\ w.pc = "spawned" /\ UNCHANGED <<phase, sidecar, sidecars, listeners>>
         /\ \/ CurrentIn("StartingSidecar") /\ Moves("adopt", w.child, w.mgr, w.next)
            \/ ~CurrentIn("StartingSidecar") /\ Moves("stopSidecar", w.child, w.mgr, "finish")
      \/ /\ w.pc = "adopt" /\ UNCHANGED <<phase, sidecars, listeners>>
         /\ sidecar' = w.child /\ Moves("watch", 0, w.mgr, "watch")
      \/ /\ w.pc = "watch" /\ UNCHANGED <<phase, sidecar, sidecars>>
         /\ listeners' = listeners \cup {w.gen}
         /\ Moves("health", w.child, w.mgr, w.next)
  <2>1. CASE w.pc = "spawnCheck"
    BY <2>1, GotoMoves, ReturnMoves, SpawnMoves
    DEF IInv, Types, SpawnSidecar, At, Locations, ShowIfCurrent, Hands, Without
  <2>2. CASE w.pc = "spawn"
    BY <2>2, GotoMoves, ReturnMoves, SpawnMoves
    DEF IInv, Types, SpawnSidecar, At, Locations, ShowIfCurrent, Hands, Without
  <2>3. CASE w.pc = "spawned"
    BY <2>3, GotoMoves, ReturnMoves, SpawnMoves
    DEF IInv, Types, SpawnSidecar, At, Locations, ShowIfCurrent, Hands, Without
  <2>4. CASE w.pc = "adopt"
    BY <2>4, GotoMoves, ReturnMoves, SpawnMoves
    DEF IInv, Types, SpawnSidecar, At, Locations, ShowIfCurrent, Hands, Without
  <2>5. CASE w.pc = "watch"
    BY <2>5, GotoMoves, ReturnMoves, SpawnMoves
    DEF IInv, Types, SpawnSidecar, At, Locations, ShowIfCurrent, Hands, Without
  <2>. QED BY <2>1, <2>2, <2>3, <2>4, <2>5 DEF SpawnSidecar, At
<1>3. Proceeds /\ (Current <=> desired = w.gen)
  BY <1>2, AtWorkCurrent DEF Proceeds, Busy, Moves, Locations
<1>4. /\ w.kind # "Shutdown" /\ w.kind # "SidecarTerminated"
      /\ w.pc # "recover" /\ ~failed /\ ~exited
  BY <1>2 DEF IInv, Turns, Aim, Stops, Closing, SpawnSidecar, At
<1>5. TypeOK'
  BY MaxGenAssumption, <1>1, <1>2, <1>3 DEF IInv, Types, TypeOK, lease, Proceeds,
     Thread, Phases, OrNone
<1>6. Bounded' /\ Orders'
  BY <1>1, <1>2, <1>3, <1>4, QuietOrders
<1>7. Turns'
  BY <1>1, <1>2, <1>3, <1>4 DEF IInv, Turns, Aim, Stops, Closing, Busy, lease, Moves,
     Proceeds
<1>8. Hands'
  BY <1>1, <1>2, <1>3 DEF IInv, Hands, Aim, Bare, Without, Stops, Moves, Proceeds,
     Targets
<1>9. Held'
  <2>1. w.pc = "spawn" => sidecars = {}
    BY <1>4 DEF IInv, Types, TypeOK, Held, Hands, Without, Gens
  <2>2. /\ sidecars \subseteq {sidecar, w.child} /\ managers \subseteq {runtime, w.mgr}
        /\ managers \subseteq {runtime', w'.mgr}
    BY <1>1, <1>2, <1>4 DEF IInv, Held, Moves
  <2>3. w.pc = "adopt" => sidecar = 0
    BY DEF IInv, Hands, Without
  <2>4. sidecars' \subseteq {sidecar', w'.child}
    <3>1. 0 \notin sidecars BY DEF IInv, Types, TypeOK, Gens
    <3>2. \/ sidecars' = sidecars /\ sidecar' = sidecar /\ w'.child = w.child
          \/ sidecars' = {w.gen} /\ w'.child = w.gen
          \/ sidecar = 0 /\ sidecars' = sidecars /\ sidecar' = w.child
      BY <1>2, <2>1, <2>3 DEF Moves
    <3>. QED BY <2>2, <3>1, <3>2
  <2>5. \A a, b \in sidecars' : a = b
    BY <1>2, <2>1 DEF IInv, Held
  <2>. QED BY <1>1, <2>2, <2>4, <2>5 DEF IInv, Held
<1>10. Configured'
  BY <1>1, <1>2, <1>3, <1>4, QuietConfigured DEF Moves
<1>11. Settles'
  <2>1. ~overwritten /\ ~failed => Task'
    BY <1>1, <1>2, <1>3, <1>4
    DEF IInv, Settles, Task, AtWork, Aim, Saving, Starting, Calm, Stops, Transient,
        Proceeds, lease, Moves, CurrentIn, Launches
  <2>. QED BY <1>1, <1>2, <1>3, <1>4, <2>1, QuietSettles DEF Transient, CurrentIn
<1>12. Launches'
  BY <1>1, <1>2, <1>3 DEF IInv, Launches, Moves, Proceeds, lease, CurrentIn
<1>13. Backs'
  BY <1>1, <1>2, <1>3, <1>4 DEF IInv, Backs, Behind, Told, Moves, Proceeds, lease,
     CurrentIn
<1>. QED BY <1>5, <1>6, <1>7, <1>8, <1>9, <1>10, <1>11, <1>12, <1>13 DEF IInv, Types

\* The wait for the health page.
LEMMA WaitHealthyKeeps == ASSUME IInv, WaitHealthy PROVE IInv'
<1>1. UNCHANGED <<lease, failed, shutdown, queue, r, exited, phase, config, runtime,
                  sidecar, sidecars, managers, pending, listeners, overwritten>>
  BY DEF WaitHealthy, Elsewhere, lease, processes
<1>2. /\ w.pc = "health"
      /\ \/ ~CurrentIn("StartingSidecar") /\ Moves("cancelled", w.child, w.mgr, w.next)
         \/ Moves("unhealthy", w.child, w.mgr, w.next)
         \/ Moves("healthy", w.child, w.mgr, w.next)
  BY GotoMoves
     DEF IInv, Types, WaitHealthy, At, Locations
<1>3. Proceeds /\ (Current <=> desired = w.gen)
  BY <1>2, AtWorkCurrent DEF Proceeds, Busy, Moves, Locations
<1>4. /\ w.kind # "Shutdown" /\ w.kind # "SidecarTerminated"
      /\ w.pc # "recover" /\ ~failed /\ ~exited
  BY <1>2 DEF IInv, Turns, Aim, Stops, Closing, WaitHealthy, At
<1>5. TypeOK'
  BY MaxGenAssumption, <1>1, <1>2, <1>3 DEF IInv, Types, TypeOK, lease, Proceeds,
     Thread, Phases, OrNone
<1>6. Bounded' /\ Orders'
  BY <1>1, <1>2, <1>3, <1>4, QuietOrders
<1>7. Turns'
  BY <1>1, <1>2, <1>3, <1>4 DEF IInv, Turns, Aim, Stops, Closing, Busy, lease, Moves,
     Proceeds
<1>8. Hands'
  BY <1>1, <1>2, <1>3 DEF IInv, Hands, Aim, Bare, Without, Stops, Moves, Proceeds,
     Targets
<1>9. Held'
  BY <1>1, <1>2, <1>3, <1>4 DEF IInv, Types, TypeOK, Held, Hands, Without, Bare, Aim,
     Stops, Moves, Gens
<1>10. Configured'
  BY <1>1, <1>2, <1>3, <1>4, QuietConfigured DEF Moves
<1>11. Settles'
  <2>1. ~overwritten /\ ~failed => Task'
    BY <1>1, <1>2, <1>3, <1>4
    DEF IInv, Settles, Task, AtWork, Aim, Saving, Starting, Calm, Stops, Transient,
        Proceeds, lease, Moves, CurrentIn, Launches
  <2>. QED BY <1>1, <1>2, <1>3, <1>4, <2>1, QuietSettles DEF Transient, CurrentIn
<1>12. Launches'
  BY <1>1, <1>2, <1>3 DEF IInv, Launches, Moves, Proceeds, lease, CurrentIn
<1>13. Backs'
  BY <1>1, <1>2, <1>3, <1>4 DEF IInv, Backs, Behind, Told, Moves, Proceeds, lease,
     CurrentIn
<1>. QED BY <1>5, <1>6, <1>7, <1>8, <1>9, <1>10, <1>11, <1>12, <1>13 DEF IInv, Types

\* What follows the wait.
LEMMA FinishSpawnKeeps == ASSUME IInv, FinishSpawn PROVE IInv'
<1>1. UNCHANGED <<lease, failed, shutdown, queue, r, exited, config, runtime, sidecars,
                  managers, listeners, overwritten>>
  BY DEF FinishSpawn, Elsewhere, lease, processes
<1>2. /\ pending' \in {0, pending}
      /\ \/ /\ w.pc = "cancelled" /\ Moves("stopSidecar", sidecar, w.mgr, "finish")
            /\ sidecar' = 0 /\ phase' = phase
         \/ /\ w.pc = "unhealthy" /\ Moves("stopSidecar", sidecar, w.mgr, "finish")
            /\ sidecar' = 0 /\ phase' = (IF Current THEN "Failed" ELSE phase)
         \/ /\ w.pc = "healthy" /\ UNCHANGED <<sidecar, phase>>
            /\ \/ CurrentIn("StartingSidecar") /\ Moves("publishReady", w.child, w.mgr, w.next)
               \/ ~CurrentIn("StartingSidecar") /\ Moves("cancelled", w.child, w.mgr, w.next)
         \/ /\ w.pc = "publishReady" /\ sidecar' = sidecar
            /\ \/ /\ CurrentIn("StartingSidecar") /\ phase' = "Ready"
                  /\ Moves("navigate", w.child, w.mgr, w.next)
               \/ /\ ~CurrentIn("StartingSidecar") /\ phase' = phase
                  /\ Moves("cancelled", w.child, w.mgr, w.next)
         \/ /\ w.pc = "navigate" /\ UNCHANGED <<sidecar, phase>>
            /\ \E pc \in {"finish", "navigateFailed"} : Moves(pc, w.child, w.mgr, w.next)
         \/ /\ w.pc = "navigateFailed" /\ CurrentIn("Ready")
            /\ Moves("stopSidecar", sidecar, w.mgr, "finish")
            /\ sidecar' = 0 /\ phase' = "Failed"
         \/ /\ w.pc = "navigateFailed" /\ ~CurrentIn("Ready") /\ UNCHANGED <<sidecar,
                                                                             phase>>
            /\ Moves("finish", w.child, w.mgr, w.next)
  <2>1. CASE w.pc = "cancelled"
    BY <2>1, GotoMoves, ReturnMoves, TakeSidecarMoves
    DEF IInv, Types, FinishSpawn, At, Locations, ShowIfCurrent, PublishReady
  <2>2. CASE w.pc = "unhealthy"
    BY <2>2, GotoMoves, ReturnMoves, TakeSidecarMoves
    DEF IInv, Types, FinishSpawn, At, Locations, ShowIfCurrent, PublishReady
  <2>3. CASE w.pc = "healthy"
    BY <2>3, GotoMoves, ReturnMoves, TakeSidecarMoves
    DEF IInv, Types, FinishSpawn, At, Locations, ShowIfCurrent, PublishReady
  <2>4. CASE w.pc = "publishReady"
    BY <2>4, GotoMoves, ReturnMoves, TakeSidecarMoves
    DEF IInv, Types, FinishSpawn, At, Locations, ShowIfCurrent, PublishReady
  <2>5. CASE w.pc = "navigate"
    BY <2>5, GotoMoves, ReturnMoves, TakeSidecarMoves
    DEF IInv, Types, FinishSpawn, At, Locations, ShowIfCurrent, PublishReady
  <2>6. CASE w.pc = "navigateFailed"
    BY <2>6, GotoMoves, ReturnMoves, TakeSidecarMoves
    DEF IInv, Types, FinishSpawn, At, Locations, ShowIfCurrent, PublishReady
  <2>. QED BY <2>1, <2>2, <2>3, <2>4, <2>5, <2>6 DEF FinishSpawn, At
<1>3. Proceeds /\ (Current <=> desired = w.gen)
  BY <1>2, AtWorkCurrent DEF Proceeds, Busy, Moves, Locations
<1>4. /\ w.kind # "Shutdown" /\ w.kind # "SidecarTerminated"
      /\ w.pc # "recover" /\ ~failed /\ ~exited
  BY <1>2 DEF IInv, Turns, Aim, Stops, Closing, FinishSpawn, At
<1>5. TypeOK'
  BY MaxGenAssumption, <1>1, <1>2, <1>3 DEF IInv, Types, TypeOK, lease, Proceeds,
     Thread, Phases, OrNone
<1>6. Bounded' /\ Orders'
  BY <1>1, <1>2, <1>3, <1>4, QuietOrders
<1>7. Turns'
  BY <1>1, <1>2, <1>3, <1>4 DEF IInv, Turns, Aim, Stops, Closing, Busy, lease, Moves,
     Proceeds
<1>8. Hands'
  BY <1>1, <1>2, <1>3 DEF IInv, Hands, Aim, Bare, Without, Stops, Moves, Proceeds,
     Targets
<1>9. Held'
  BY <1>1, <1>2, <1>3, <1>4 DEF IInv, Types, TypeOK, Held, Hands, Without, Bare, Aim,
     Stops, Moves, Gens
<1>10. Configured'
  BY <1>1, <1>2, <1>3, <1>4, QuietConfigured DEF Moves
<1>11. Settles'
  <2>1. ~overwritten /\ ~failed => Task'
    BY <1>1, <1>2, <1>3, <1>4
    DEF IInv, Settles, Task, AtWork, Aim, Saving, Starting, Calm, Stops, Transient,
        Proceeds, lease, Moves, CurrentIn, Launches
  <2>. QED BY <1>1, <1>2, <1>3, <1>4, <2>1, QuietSettles DEF Transient, CurrentIn
<1>12. Launches'
  BY <1>1, <1>2, <1>3 DEF IInv, Launches, Moves, Proceeds, lease, CurrentIn
<1>13. Backs'
  BY <1>1, <1>2, <1>3, <1>4 DEF IInv, Backs, Behind, Told, Moves, Proceeds, lease,
     CurrentIn, Hands, Orders
<1>. QED BY <1>5, <1>6, <1>7, <1>8, <1>9, <1>10, <1>11, <1>12, <1>13 DEF IInv, Types

\* The sidecar in the worker's hands is stopped.
LEMMA StopSidecarKeeps == ASSUME IInv, StopSidecar PROVE IInv'
<1>1. UNCHANGED <<lease, failed, shutdown, queue, r, exited, phase, config, runtime,
                  sidecar, managers, pending, listeners, overwritten>>
  BY DEF StopSidecar, Elsewhere, lease, processes
<1>2. /\ w.pc = "stopSidecar" /\ sidecars' = sidecars \ {w.child}
      /\ Moves(IF w.mgr # 0 THEN "stopManager" ELSE w.next, 0, w.mgr, w.next)
  BY NamesOrNone DEF IInv, Types, TypeOK, StopSidecar, At, Moves, Thread, Locations
<1>3. Proceeds /\ (Current <=> desired = w.gen)
  BY <1>2, AtWorkCurrent DEF Proceeds, Busy, Moves, Locations, IInv, Hands, Stops,
     Targets
<1>4. /\ ~exited /\ w.next \in Targets /\ w'.next = w.next /\ w'.pc \in {"stopManager", w.next}
  BY <1>2 DEF StopSidecar, At, IInv, Hands, Stops, Moves
<1>5. TypeOK'
  BY MaxGenAssumption, <1>1, <1>2, <1>3 DEF IInv, Types, TypeOK, lease, Proceeds,
     Thread, Phases, OrNone
<1>6. Bounded' /\ Orders'
  BY <1>1, <1>2, <1>3, <1>4, QuietOrders
<1>7. Turns'
  <2>1. Aim' = Aim
    BY <1>2, <1>4 DEF Aim, Stops, Targets
  <2>. QED BY <1>1, <1>2, <1>3, <1>4, <2>1
       DEF IInv, Turns, Closing, Busy, lease, Moves, Proceeds, Aim, Stops, Targets
<1>8. Hands'
  BY <1>1, <1>2, <1>3, <1>4 DEF IInv, Hands, Aim, Bare, Without, Stops, Moves,
     Proceeds, Targets
<1>9. Held'
  <2>1. /\ \A a, b \in sidecars' : a = b
        /\ \A a, b \in managers' : a = b
    BY <1>1, <1>2 DEF IInv, Held
  <2>2. CASE failed BY <1>1, <2>1, <2>2 DEF Held
  <2>3. CASE ~failed
    <3>1. sidecars \subseteq {sidecar, w.child} /\ managers \subseteq {runtime, w.mgr}
      BY <1>2, <2>3 DEF IInv, Held
    <3>. QED BY <1>1, <1>2, <2>1, <3>1 DEF Held, Moves
  <2>. QED BY <2>2, <2>3
<1>10. Configured'
  BY <1>1, <1>2, <1>3, <1>4, QuietConfigured DEF Moves, Targets
<1>11. Settles'
  <2>1. ~overwritten /\ ~failed => Task'
    BY <1>1, <1>2, <1>3, <1>4
    DEF IInv, Settles, Task, AtWork, Aim, Saving, Starting, Calm, Stops, Transient,
        Proceeds, lease, Moves, CurrentIn
  <2>. QED BY <1>1, <1>2, <1>3, <1>4, <2>1, QuietSettles DEF Transient, CurrentIn
<1>12. Launches'
  BY <1>1, <1>4 DEF Launches, Targets
<1>13. Backs'
  BY <1>1, <1>2, <1>3, <1>4 DEF IInv, Backs, Behind, Told, Moves, Proceeds, lease,
     Targets
<1>. QED BY <1>5, <1>6, <1>7, <1>8, <1>9, <1>10, <1>11, <1>12, <1>13 DEF IInv, Types

\* The manager in the worker's hands is stopped.
LEMMA StopManagerKeeps == ASSUME IInv, StopManager PROVE IInv'
<1>1. UNCHANGED <<lease, failed, shutdown, queue, r, exited, phase, config, runtime,
                  sidecar, sidecars, pending, listeners, overwritten>>
  BY DEF StopManager, Elsewhere, lease, processes
<1>2. /\ w.pc = "stopManager" /\ managers' = managers \ {w.mgr}
      /\ Moves(w.next, w.child, 0, w.next)
  BY NamesOrNone DEF IInv, Types, TypeOK, StopManager, At, Moves, Thread, Locations
<1>3. Proceeds /\ (Current <=> desired = w.gen)
  BY <1>2, AtWorkCurrent DEF Proceeds, Busy, Moves, Locations, IInv, Hands, Stops,
     Targets
<1>4. /\ ~exited /\ w.next \in Targets /\ w'.next = w.next /\ w'.pc = w.next
  BY <1>2 DEF StopManager, At, IInv, Hands, Stops, Moves
<1>5. TypeOK'
  BY MaxGenAssumption, <1>1, <1>2, <1>3 DEF IInv, Types, TypeOK, lease, Proceeds,
     Thread, Phases, OrNone
<1>6. Bounded' /\ Orders'
  BY <1>1, <1>2, <1>3, <1>4, QuietOrders
<1>7. Turns'
  <2>1. Aim' = Aim
    BY <1>2, <1>4 DEF Aim, Stops, Targets
  <2>. QED BY <1>1, <1>2, <1>3, <1>4, <2>1
       DEF IInv, Turns, Closing, Busy, lease, Moves, Proceeds, Aim, Stops, Targets
<1>8. Hands'
  BY <1>1, <1>2, <1>3, <1>4 DEF IInv, Hands, Aim, Bare, Without, Stops, Moves,
     Proceeds, Targets
<1>9. Held'
  <2>1. /\ \A a, b \in sidecars' : a = b
        /\ \A a, b \in managers' : a = b
    BY <1>1, <1>2 DEF IInv, Held
  <2>2. CASE failed BY <1>1, <2>1, <2>2 DEF Held
  <2>3. CASE ~failed
    <3>1. sidecars \subseteq {sidecar, w.child} /\ managers \subseteq {runtime, w.mgr}
      BY <1>2, <2>3 DEF IInv, Held
    <3>. QED BY <1>1, <1>2, <2>1, <3>1 DEF Held, Moves
  <2>. QED BY <2>2, <2>3
<1>10. Configured'
  BY <1>1, <1>2, <1>3, <1>4, QuietConfigured DEF Moves, Targets
<1>11. Settles'
  <2>1. ~overwritten /\ ~failed => Task'
    BY <1>1, <1>2, <1>3, <1>4
    DEF IInv, Settles, Task, AtWork, Aim, Saving, Starting, Calm, Stops, Transient,
        Proceeds, lease, Moves, CurrentIn
  <2>. QED BY <1>1, <1>2, <1>3, <1>4, <2>1, QuietSettles DEF Transient, CurrentIn
<1>12. Launches'
  BY <1>1, <1>4 DEF Launches, Targets
<1>13. Backs'
  BY <1>1, <1>2, <1>3, <1>4 DEF IInv, Backs, Behind, Told, Moves, Proceeds, lease,
     Targets
<1>. QED BY <1>5, <1>6, <1>7, <1>8, <1>9, <1>10, <1>11, <1>12, <1>13 DEF IInv, Types

\* A panic.
LEMMA PanicKeeps == ASSUME IInv, Panic PROVE IInv'
<1>1. UNCHANGED <<lease, failed, shutdown, queue, r, exited, phase, config, runtime,
                  sidecar, sidecars, pending, listeners, overwritten>>
  BY DEF Panic, Elsewhere, lease, processes
<1>2. /\ w.pc \notin {"idle", "finish", "broken"} /\ managers' = managers \ {w.mgr}
      /\ Moves("recover", 0, 0, w.next)
  BY NamesOrNone DEF IInv, Types, TypeOK, Panic, Moves, Thread, Locations
<1>3. Proceeds /\ (Current <=> desired = w.gen)
  BY <1>2, AtWorkCurrent DEF Proceeds, Busy, Moves, Locations
<1>4. ~failed /\ ~exited BY DEF Panic
<1>5. TypeOK'
  BY MaxGenAssumption, <1>1, <1>2, <1>3 DEF IInv, Types, TypeOK, lease, Proceeds,
     Thread, Phases, OrNone
<1>6. Bounded' /\ Orders'
  BY <1>1, <1>2, <1>3, <1>4, QuietOrders
<1>7. Turns'
  BY <1>1, <1>2, <1>3, <1>4 DEF IInv, Turns, Aim, Stops, Closing, Busy, lease, Moves,
     Proceeds
<1>8. Hands'
  BY <1>1, <1>2, <1>3 DEF IInv, Hands, Aim, Bare, Without, Stops, Moves, Proceeds,
     Targets
<1>9. Held'
  BY <1>1, <1>2 DEF IInv, Held, Moves
<1>10. Configured'
  BY <1>1, <1>2, <1>3, <1>4, QuietConfigured DEF Moves
<1>11. Settles'
  BY <1>2 DEF Settles, Moves
<1>12. Launches'
  BY <1>1, <1>2, <1>3 DEF IInv, Launches, Moves, Proceeds, lease, CurrentIn
<1>13. Backs'
  BY <1>1, <1>2, <1>3, <1>4 DEF IInv, Backs, Behind, Told, Moves, Proceeds, lease,
     CurrentIn
<1>. QED BY <1>5, <1>6, <1>7, <1>8, <1>9, <1>10, <1>11, <1>12, <1>13 DEF IInv, Types

\* The shutdown by the worker.
LEMMA ShutdownKeeps == ASSUME IInv, RunShutdown PROVE IInv'
<1>1. UNCHANGED <<lease, failed, queue, r, exited, phase, config, sidecars, managers,
                  pending, listeners, overwritten>>
  BY DEF RunShutdown, Elsewhere, lease, processes
<1>2. \/ /\ w.pc = "shutdownTake" /\ shutdown' = shutdown
         /\ Moves("stopSidecar", sidecar, runtime, "shutdownDone") /\ sidecar' = 0 /\ runtime' = 0
      \/ /\ w.pc = "shutdownDone" /\ UNCHANGED <<sidecar, runtime>>
         /\ shutdown' = [shutdown EXCEPT !.enqueued = FALSE, !.complete = TRUE]
         /\ Moves("finish", w.child, w.mgr, w.next)
  BY ReturnMoves, TakeBothMoves DEF IInv, Types, RunShutdown, At, Locations
<1>3. Proceeds /\ (Current <=> desired = w.gen)
  BY <1>2, AtWorkCurrent DEF Proceeds, Busy, Moves, Locations
<1>4. /\ w.kind = "Shutdown" /\ ~failed /\ ~exited
  BY <1>2 DEF IInv, Turns, Aim, Stops, Closing, RunShutdown, At
<1>5. /\ shutdown' \in [requested : BOOLEAN, gen : OrNone, enqueued : BOOLEAN,
                       recovering : BOOLEAN, complete : BOOLEAN]
      /\ shutdown'.gen = shutdown.gen /\ shutdown'.requested = shutdown.requested
      /\ shutdown'.recovering = shutdown.recovering
      /\ \/ shutdown'.complete = shutdown.complete
         \/ w.pc = "shutdownDone" /\ shutdown'.complete
  BY <1>2 DEF IInv, Types, TypeOK
<1>6. w.pc = "shutdownDone" => sidecars = {} /\ managers = {} /\ sidecar = 0 /\ runtime = 0
  BY <1>4 DEF IInv, Types, TypeOK, Hands, Held, Without, Bare, Aim, Stops, Gens
<1>7. TypeOK'
  BY MaxGenAssumption, <1>1, <1>2, <1>3, <1>5 DEF IInv, Types, TypeOK, lease, Proceeds,
     Thread, Phases, OrNone
<1>8. Bounded' /\ Orders'
  BY <1>1, <1>2, <1>3, <1>4, <1>5, QuietOrders
<1>9. Turns'
  BY <1>1, <1>2, <1>3, <1>4, <1>5, <1>6 DEF IInv, Turns, Aim, Stops, Closing, Busy,
     lease, Moves, Proceeds
<1>10. Hands'
  BY <1>1, <1>2, <1>3 DEF IInv, Hands, Aim, Bare, Without, Stops, Moves, Proceeds,
     Targets
<1>11. Held'
  BY <1>1, <1>2, <1>3, <1>4, <1>5, <1>6 DEF IInv, Types, TypeOK, Held, Hands, Without,
     Bare, Aim, Stops, Moves, Gens
<1>12. Configured'
  BY <1>1, <1>2, <1>3, <1>4, <1>5, QuietConfigured DEF Moves
<1>13. Settles'
  <2>1. ~overwritten /\ ~failed => Task'
    BY <1>1, <1>2, <1>3, <1>4
    DEF IInv, Settles, Task, AtWork, Aim, Saving, Starting, Calm, Stops, Transient,
        Proceeds, lease, Moves, CurrentIn
  <2>. QED BY <1>1, <1>2, <1>3, <1>4, <2>1, QuietSettles DEF Transient, CurrentIn
<1>14. Launches'
  BY <1>1, <1>2, <1>3 DEF IInv, Launches, Moves, Proceeds, lease, CurrentIn
<1>15. Backs'
  BY <1>1, <1>2, <1>3, <1>4, <1>5, <1>6 DEF IInv, Backs, Behind, Told, Moves, Proceeds,
     lease, CurrentIn
<1>. QED BY <1>7, <1>8, <1>9, <1>10, <1>11, <1>12, <1>13, <1>14, <1>15 DEF IInv, Types

-----------------------------------------------------------------------------
(***************************************************************************)
(* The worker takes up an intent, and lets go of the lease.                *)
(***************************************************************************)

LEMMA IdleIs ==
  ASSUME NEW v \in {Idle, [Idle EXCEPT !.pc = "broken"]}
  PROVE  /\ v \in Thread /\ v.kind = "Initialize" /\ v.gen = 1 /\ v.child = 0 /\ v.mgr = 0
         /\ v = Idle => v.pc = "idle"
         /\ v # Idle => v.pc = "broken"
<1>1. 1 \in Gens BY MaxGenAssumption DEF Gens
<1>2. {"idle", "broken", "finish"} \subseteq Locations /\ "Initialize" \in Kinds
  BY DEF Locations, Kinds
<1>3. PICK pc \in {"idle", "broken"} :
         /\ v = [pc |-> pc, kind |-> "Initialize", gen |-> 1, child |-> 0, mgr |-> 0,
                 next |-> "finish", flag |-> FALSE]
         /\ v = Idle <=> pc = "idle"
  BY DEF Idle
<1>. QED BY <1>1, <1>2, <1>3, NamesOrNone DEF Thread

\* What the worker does with an intent.
LEMMA EntryMoves ==
  ASSUME TypeOK, NEW x \in Intents,
         w' = [Idle EXCEPT !.pc = Entry(x.kind), !.kind = x.kind, !.gen = x.gen]
  PROVE  /\ w' \in Thread /\ w'.gen = x.gen /\ w'.kind = x.kind /\ w'.child = 0 /\ w'.mgr = 0
         /\ x.kind = "Initialize" => w'.pc = "initialize"
         /\ x.kind = "SaveSetup" => w'.pc = "saveTake"
         /\ x.kind = "Retry" => w'.pc = "retryTake"
         /\ x.kind = "EnterLoginSetup" => w'.pc = "loginNavigate"
         /\ x.kind = "UpdateLogin" => w'.pc = "updateNavigate"
         /\ x.kind = "SidecarTerminated" => w'.pc = "terminated"
         /\ x.kind = "Shutdown" => w'.pc = "shutdownTake"
         /\ w'.pc \in {"initialize", "saveTake", "retryTake", "loginNavigate",
                       "updateNavigate", "terminated", "shutdownTake"}
<1>1. x.kind \in Kinds /\ x.gen \in Gens BY DEF Intents
<1>2. /\ x.kind = "Initialize" => Entry(x.kind) = "initialize"
      /\ x.kind = "SaveSetup" => Entry(x.kind) = "saveTake"
      /\ x.kind = "Retry" => Entry(x.kind) = "retryTake"
      /\ x.kind = "EnterLoginSetup" => Entry(x.kind) = "loginNavigate"
      /\ x.kind = "UpdateLogin" => Entry(x.kind) = "updateNavigate"
      /\ x.kind = "SidecarTerminated" => Entry(x.kind) = "terminated"
      /\ x.kind = "Shutdown" => Entry(x.kind) = "shutdownTake"
  BY DEF Entry
<1>3. Entry(x.kind) \in {"initialize", "saveTake", "retryTake", "loginNavigate",
                         "updateNavigate", "terminated", "shutdownTake"}
  BY <1>1, <1>2 DEF Kinds, Commands
<1>4. Entry(x.kind) \in Locations BY <1>3 DEF Locations
<1>5. w' \in Thread BY <1>1, <1>4, IdleIs DEF Thread
<1>6. /\ w'.pc = Entry(x.kind) /\ w'.kind = x.kind /\ w'.gen = x.gen
      /\ w'.child = 0 /\ w'.mgr = 0
  BY IdleIs DEF Thread
<1>. QED BY <1>2, <1>3, <1>5, <1>6

\* An intent of a generation that is no longer the desired one is dropped.
LEMMA ReceiveKeeps == ASSUME IInv, Receive PROVE IInv'
<1>1. /\ UNCHANGED <<phase, config, desired, runtime, sidecar, pending, failed,
                     shutdown, r,
                     sidecars, managers, listeners, exited, overwritten>>
      /\ w.pc = "idle" /\ ~exited /\ queue # <<>> /\ queue' = Tail(queue)
  BY DEF Receive, At, processes
<1>2. /\ queue \in Seq(Intents) /\ queue' \in Seq(Intents) /\ 1 \in 1..Len(queue)
      /\ Head(queue) = queue[1] /\ queue[1] \in Intents
      /\ \A i \in 1..Len(queue') :
            i \in Nat /\ i + 1 \in 1..Len(queue) /\ i + 1 # 1 /\ queue'[i] = queue[i + 1]
      /\ \A i \in 1..Len(queue) : i # 1 =>
            i - 1 \in 1..Len(queue') /\ queue'[i - 1] = queue[i]
  BY <1>1, TakenUp DEF IInv, Types, TypeOK
<1>3. active = 0 /\ w.child = 0 /\ w.mgr = 0 /\ ~failed /\ ~shutdown.complete /\ ~Busy
  BY <1>1 DEF IInv, Turns, Aim, Stops, Busy
<1>4. \/ /\ desired = queue[1].gen /\ active' = queue[1].gen
         /\ w' \in Thread /\ w'.gen = queue[1].gen /\ w'.kind = queue[1].kind
         /\ w'.child = 0 /\ w'.mgr = 0
         /\ queue[1].kind = "Initialize" => w'.pc = "initialize"
         /\ queue[1].kind = "SaveSetup" => w'.pc = "saveTake"
         /\ queue[1].kind = "Retry" => w'.pc = "retryTake"
         /\ queue[1].kind = "EnterLoginSetup" => w'.pc = "loginNavigate"
         /\ queue[1].kind = "UpdateLogin" => w'.pc = "updateNavigate"
         /\ queue[1].kind = "SidecarTerminated" => w'.pc = "terminated"
         /\ queue[1].kind = "Shutdown" => w'.pc = "shutdownTake"
         /\ w'.pc \in {"initialize", "saveTake", "retryTake", "loginNavigate",
                       "updateNavigate", "terminated", "shutdownTake"}
      \/ desired # queue[1].gen /\ UNCHANGED <<active, w>>
  BY <1>2, <1>3, EntryMoves DEF IInv, Types, Receive, Begins
<1>5. /\ queue[1].gen \in Gens /\ queue[1].kind \in Kinds
  BY <1>2 DEF Intents
<1>6. TypeOK'
  BY <1>1, <1>2, <1>4, <1>5, NamesOrNone DEF IInv, Types, TypeOK, Thread
<1>7. \A g : Behind(g) => Behind(g)'
  BY <1>2 DEF Behind
<1>8. \A i \in 1..Len(queue') : queue'[i].kind # "Initialize"
  BY <1>2 DEF IInv, Orders
<1>9. Orders'
  <2>1. /\ w'.gen <= desired /\ shutdown.gen <= desired
        /\ \A g \in listeners : g <= desired /\ Behind(g)'
    BY <1>1, <1>4, <1>7, <1>5 DEF IInv, Orders, Gens, Types, TypeOK, OrNone
  <2>2. Busy' /\ w'.kind # "Shutdown" => Behind(w.gen)'
    <3>1. CASE w' = w BY <3>1, <1>3 DEF Busy
    <3>2. CASE queue[1].kind = "SidecarTerminated" /\ w'.gen = queue[1].gen
      BY <1>2, <1>7, <3>2 DEF IInv, Orders
    <3>3. CASE queue[1].kind \in Requests /\ w'.gen = queue[1].gen
      <4>1. ASSUME NEW i \in 1..Len(queue'), queue'[i].gen = queue[1].gen,
                   queue'[i].kind \in Requests
            PROVE  FALSE
        BY <1>2, <3>3, <4>1 DEF IInv, Orders
      <4>. QED BY <4>1, <3>3 DEF Behind
    <3>. QED BY <1>4, <1>5, <3>1, <3>2, <3>3 DEF Kinds, Requests
  <2>3. \A i \in 1..Len(queue') :
           /\ queue'[i].gen <= desired
           /\ queue'[i].kind = "SidecarTerminated" => Behind(queue[i].gen)'
           /\ queue'[i].kind = "Shutdown" => shutdown.requested
    BY <1>2, <1>7 DEF IInv, Orders
  <2>4. \A i, j \in 1..Len(queue') :
           queue'[i].kind \in Requests /\ queue'[j].kind \in Requests
              /\ queue'[i].gen = queue'[j].gen => i = j
    <3>1. SUFFICES ASSUME NEW i \in 1..Len(queue'), NEW j \in 1..Len(queue'),
                          queue'[i].kind \in Requests, queue'[j].kind \in Requests,
                          queue'[i].gen = queue'[j].gen
                   PROVE  i = j
      OBVIOUS
    <3>2. /\ i + 1 \in 1..Len(queue) /\ j + 1 \in 1..Len(queue)
          /\ queue[i + 1] = queue'[i] /\ queue[j + 1] = queue'[j]
      BY <1>2
    <3>3. \A m, n \in 1..Len(queue) :
             queue[m].kind \in Requests /\ queue[n].kind \in Requests
                /\ queue[m].gen = queue[n].gen => m = n
      BY DEF IInv, Orders
    <3>4. i + 1 = j + 1
      BY <3>1, <3>2, <3>3
    <3>. QED BY <1>2, <3>4
  <2>. QED BY <1>1, <1>8, <2>1, <2>2, <2>3, <2>4 DEF Orders
<1>10. Bounded' BY <1>1 DEF IInv, Types, Bounded
<1>11. Turns'
  BY <1>1, <1>2, <1>3, <1>4, <1>5 DEF IInv, Turns, Aim, Stops, Closing, Busy, Orders,
     Kinds,
     Commands
<1>12. Hands'
  BY <1>1, <1>2, <1>3, <1>4, <1>5 DEF IInv, Hands, Aim, Stops, Bare, Without, Orders,
     Kinds,
     Commands
<1>13. Held' BY <1>1, <1>3, <1>4 DEF IInv, Held
<1>14. Configured'
  BY <1>1, <1>2, <1>4, <1>5 DEF IInv, Configured, Kinds, Commands
<1>15. Settles'
  <2>1. ASSUME ~overwritten
        PROVE  /\ \A i \in 1..Len(queue) : queue[i].gen = desired => Shown(queue[i].kind)
               /\ ~Waiting => phase \notin Transient
    BY <1>1, <1>3, <2>1 DEF IInv, Settles, AtWork, Busy
  <2>2. ~overwritten => \A i \in 1..Len(queue') : queue'[i].gen = desired => Shown(queue[i].kind)'
    BY <1>1, <1>2, <2>1 DEF Shown
  <2>3. ~overwritten => Task'
    BY <1>1, <1>2, <1>3, <1>4, <1>5, <2>1 DEF Task, AtWork, Busy, Shown, Aim, Stops,
       Saving, Starting, Calm, Transient, Kinds, Commands
  <2>4. Waiting => Waiting' \/ AtWork'
    BY <1>1, <1>2, <1>4, <1>5 DEF Waiting, AtWork, Busy, Kinds, Commands
  <2>. QED BY <1>1, <1>3, <2>1, <2>2, <2>3, <2>4 DEF Settles
<1>16. Launches' BY <1>1, <1>4 DEF Launches
<1>17. Backs'
  <2>1. SUFFICES ASSUME ~shutdown.requested, phase = "Ready" PROVE Backs'
    BY <1>1, <1>4 DEF Backs
  <2>2. sidecar = desired /\ Behind(desired) /\ Told(desired)
    BY <1>1, <2>1 DEF IInv, Backs
  <2>3. desired = queue[1].gen => w'.pc = "terminated"
    BY <1>2, <1>4, <1>5, <2>1, <2>2 DEF Behind, Kinds, Requests, IInv, Orders
  <2>4. Told(desired)' \/ desired = queue[1].gen
    BY <1>1, <1>2, <2>2 DEF Told
  <2>. QED BY <1>1, <1>4, <1>7, <2>1, <2>2, <2>3, <2>4 DEF Backs
<1>. QED BY <1>6, <1>9, <1>10, <1>11, <1>12, <1>13, <1>14, <1>15, <1>16, <1>17
            DEF IInv, Types

\* The lease is released; after a shutdown the shell exits.
LEMMA FinishKeeps == ASSUME IInv, Finish PROVE IInv'
<1>1. /\ UNCHANGED <<phase, config, desired, runtime, sidecar, pending, failed,
                     shutdown, queue,
                     r, sidecars, managers, listeners, overwritten>>
      /\ w.pc = "finish" /\ ~exited
  BY DEF Finish, At, processes
<1>2. /\ active = w.gen /\ Busy /\ ~failed /\ w.child = 0 /\ w.mgr = 0
      /\ w.kind = "Shutdown" <=> shutdown.complete
  BY <1>1 DEF IInv, Turns, Aim, Stops, Closing, Busy, Hands
<1>3. /\ w' \in Thread /\ w'.gen = 1 /\ w'.kind = "Initialize" /\ w'.child = 0 /\ w'.mgr = 0
      /\ active' = 0 /\ exited' \in BOOLEAN
      /\ \/ w.kind = "Shutdown" /\ w'.pc = "broken" /\ exited'
         \/ w.kind # "Shutdown" /\ w'.pc = "idle" /\ ~exited'
  <2>1. active' = 0 /\ exited' \in BOOLEAN BY <1>1, <1>2 DEF Finish, IInv, Types, TypeOK
  <2>2. CASE w.kind = "Shutdown"
    <3>1. exited' /\ w' = [Idle EXCEPT !.pc = "broken"] BY <2>2 DEF Finish
    <3>2. w' # Idle BY <3>1 DEF Idle
    <3>. QED BY <2>1, <2>2, <3>1, <3>2, IdleIs
  <2>3. CASE w.kind # "Shutdown"
    <3>1. ~exited' /\ w' = Idle BY <1>1, <2>3 DEF Finish
    <3>. QED BY <2>1, <2>3, <3>1, IdleIs
  <2>. QED BY <2>2, <2>3
<1>4. TypeOK'
  BY <1>1, <1>3, NamesOrNone DEF IInv, Types, TypeOK, Thread
<1>5. Orders'
  <2>1. \A i \in 1..Len(queue) : queue[i].kind # "Initialize"
    BY <1>2 DEF IInv, Orders, Idle, Busy
  <2>2. \A g : Behind(g)' = Behind(g) BY <1>1 DEF Behind
  <2>3. 1 <= desired BY DEF IInv, Types, Bounded, TypeOK, OrNone
  <2>. QED BY <1>1, <1>3, <2>1, <2>2, <2>3 DEF IInv, Orders, Busy
<1>6. Bounded' BY <1>1 DEF IInv, Types, Bounded
<1>7. Turns'
  BY <1>1, <1>2, <1>3 DEF IInv, Turns, Aim, Stops, Closing, Busy
<1>8. Hands'
  BY <1>1, <1>2, <1>3 DEF IInv, Hands, Aim, Stops, Bare, Without
<1>9. Held' BY <1>1, <1>2, <1>3 DEF IInv, Held
<1>10. Configured' BY <1>1, <1>3 DEF IInv, Configured
<1>11. Settles'
  BY <1>1, <1>2, <1>3 DEF IInv, Settles, Task, AtWork, Waiting, Busy, Shown, Aim,
     Stops, Calm, Saving, Starting
<1>12. Launches' BY <1>1, <1>3 DEF Launches
<1>13. Backs'
  BY <1>1, <1>3 DEF IInv, Backs, Told, Behind, Turns
<1>. QED BY <1>4, <1>5, <1>6, <1>7, <1>8, <1>9, <1>10, <1>11, <1>12, <1>13 DEF IInv,
            Types

-----------------------------------------------------------------------------
(***************************************************************************)
(* Commands, events and the request to exit.                               *)
(***************************************************************************)

\* An intent has been queued that is no command's of an earlier generation.
LEMMA CommandKeeps ==
  ASSUME IInv, NEW kind \in Commands, NEW first \in Phases, Command(kind, first),
         kind \in {"SaveSetup", "UpdateLogin"} => first = "SavingConfig",
         kind = "Retry" => first = "StartingRuntime",
         kind = "EnterLoginSetup" => first = "NeedsSetup",
         kind = "UpdateLogin" => config
  PROVE  IInv'
<1>1. /\ UNCHANGED <<config, active, runtime, sidecar, pending, failed, shutdown, w, r,
                     sidecars,
                     managers, listeners, exited, overwritten>>
      /\ ~exited /\ ~shutdown.requested /\ ~failed /\ desired + 1 < MaxGen
      /\ desired' = desired + 1 /\ phase' = first
      /\ queue' = Append(queue, [kind |-> kind, gen |-> desired + 1])
  BY DEF Command, Accepting, RequestGeneration, Submit, processes
<1>2. /\ desired \in Nat /\ desired + 1 \in Gens /\ desired + 1 \in OrNone
      /\ first # "Ready"
  BY <1>1, MaxGenAssumption DEF IInv, Types, TypeOK, OrNone, Gens, Commands
<1> DEFINE x == [kind |-> kind, gen |-> desired + 1]
<1>3. x \in Intents /\ x.kind = kind /\ x.gen = desired + 1
  BY <1>2 DEF Intents, Kinds
<1> HIDE DEF x
<1>4. /\ queue' \in Seq(Intents) /\ Len(queue) \in Nat /\ Len(queue') = Len(queue) + 1
      /\ \A i \in 1..Len(queue) : i \in 1..Len(queue') /\ queue'[i] = queue[i]
      /\ queue'[Len(queue) + 1] = x
      /\ \A i \in 1..Len(queue') : i \in 1..Len(queue) \/ i = Len(queue) + 1
  BY <1>1, <1>3, Appended DEF IInv, Types, TypeOK, x
<1>5. \A g \in OrNone : g <= desired => g # desired + 1 /\ g <= desired + 1
  BY <1>2 DEF OrNone
<1>6. \A g \in Gens : g <= desired /\ Behind(g) => Behind(g)'
  BY <1>3, <1>4, <1>5, NamesOrNone DEF Behind
<1>7. TypeOK'
  BY <1>1, <1>2, <1>4 DEF IInv, Types, TypeOK
<1>8. Bounded'
  BY <1>1, <1>2 DEF IInv, Types, Bounded
<1>9. w.gen \in Gens /\ w.gen <= desired /\ shutdown.gen \in OrNone /\ listeners \subseteq Gens
  BY DEF IInv, Types, TypeOK, Orders
<1>10. \A i \in 1..Len(queue) : queue[i].gen \in Gens /\ queue[i].gen <= desired
  <2>1. \A i \in 1..Len(queue) : queue[i] \in Intents BY DEF IInv, Types, TypeOK
  <2>. QED BY <2>1 DEF IInv, Orders, Intents
<1>11. Orders'
  <2>1. /\ w.gen <= desired' /\ shutdown.gen <= desired'
        /\ \A g \in listeners : g <= desired' /\ Behind(g)'
    BY <1>1, <1>5, <1>6, <1>9, NamesOrNone DEF IInv, Orders
  <2>2. Busy /\ w.kind # "Shutdown" => Behind(w.gen)'
    BY <1>1, <1>6, <1>9 DEF IInv, Orders, Behind
  <2>3. ASSUME NEW i \in 1..Len(queue')
        PROVE  /\ queue'[i].gen <= desired'
               /\ queue'[i].kind = "SidecarTerminated" => Behind(queue[i].gen)'
               /\ queue'[i].kind = "Shutdown" => shutdown.requested
               /\ queue'[i].kind = "Initialize" =>
                     i = 1 /\ w = Idle /\ sidecar = 0 /\ runtime = 0
    <3>1. CASE i = Len(queue) + 1
      BY <1>1, <1>2, <1>3, <1>4, <3>1 DEF Commands
    <3>2. CASE i \in 1..Len(queue)
      <4>1. queue'[i] = queue[i] BY <1>4, <3>2
      <4>2. queue[i].kind = "SidecarTerminated" => Behind(queue[i].gen)
        BY <3>2 DEF IInv, Orders
      <4>3. queue[i].kind = "SidecarTerminated" => (Behind(queue[i].gen))'
        BY <1>6, <1>10, <3>2, <4>1, <4>2 DEF Behind
      <4>. QED BY <1>1, <1>5, <1>10, <3>2, <4>1, <4>3, NamesOrNone DEF IInv, Orders
    <3>. QED BY <1>4, <3>1, <3>2
  <2>4. ASSUME NEW i \in 1..Len(queue'), NEW j \in 1..Len(queue'),
               queue'[i].kind \in Requests, queue'[j].kind \in Requests,
               queue'[i].gen = queue'[j].gen
        PROVE  i = j
    <3>1. CASE i \in 1..Len(queue) /\ j \in 1..Len(queue)
      BY <1>4, <2>4, <3>1 DEF IInv, Orders
    <3>. QED BY <1>3, <1>4, <1>5, <1>10, <2>4, <3>1, NamesOrNone
  <2>. QED BY <1>1, <2>1, <2>2, <2>3, <2>4 DEF Orders, Busy
<1>12. Turns' BY <1>1 DEF IInv, Turns, Aim, Stops, Closing, Busy
<1>13. Hands' BY <1>1 DEF IInv, Hands, Aim, Stops
<1>14. Held' BY <1>1 DEF IInv, Held
<1>15. /\ \A i \in 1..Len(queue') : queue'[i].gen = desired' => queue'[i] = x
      /\ w.gen # desired'
  BY <1>1, <1>4, <1>5, <1>9, <1>10, NamesOrNone
<1>16. Configured' BY <1>1, <1>3, <1>15 DEF IInv, Configured
<1>17. Settles'
  <2>1. Waiting' BY <1>1, <1>3, <1>4 DEF Waiting, Commands
  <2>2. ~AtWork' BY <1>1, <1>15 DEF AtWork
  <2>3. \A i \in 1..Len(queue') : queue'[i].gen = desired' => Shown(queue[i].kind)'
    BY <1>1, <1>3, <1>15 DEF Shown
  <2>. QED BY <2>1, <2>2, <2>3 DEF Settles, Task
<1>18. Launches' BY <1>1, <1>15 DEF Launches
<1>19. Backs' BY <1>1, <1>2, <1>15 DEF Backs
<1>. QED BY <1>7, <1>8, <1>11, <1>12, <1>13, <1>14, <1>16, <1>17, <1>18, <1>19
            DEF IInv, Types

\* A sidecar ends by itself.
LEMMA SidecarDiesKeeps ==
  ASSUME IInv, NEW g \in Gens, SidecarDies(g) PROVE IInv'
<1>1. /\ UNCHANGED <<phase, config, lease, runtime, sidecar, pending, failed, shutdown,
                     queue, w, r,
                     managers, listeners, exited, overwritten>>
      /\ sidecars' = sidecars \ {g}
  BY DEF SidecarDies
<1>2. TypeOK' /\ Bounded' BY <1>1 DEF IInv, Types, TypeOK, Bounded, lease
<1>3. Orders' /\ Configured' /\ Launches'
  BY <1>1 DEF IInv, Orders, Configured, Launches, Busy, Behind, lease
<1>4. Turns' BY <1>1 DEF IInv, Turns, Busy, Aim, lease
<1>5. Hands' BY <1>1 DEF IInv, Hands, Aim
<1>6. Held' BY <1>1 DEF IInv, Held
<1>7. Settles'
  BY <1>1 DEF IInv, Settles, Task, AtWork, Waiting, Shown, Aim, Busy, lease
<1>8. Backs' BY <1>1 DEF IInv, Backs, Behind, Told, lease
<1>. QED BY <1>2, <1>3, <1>4, <1>5, <1>6, <1>7, <1>8 DEF IInv, Types

\* What is queued for no command leaves the order of the intents alone.
LEMMA NotedOrders ==
  ASSUME IInv, NEW x \in Intents, queue' = Append(queue, x),
         x.kind \in {"SidecarTerminated", "Shutdown"},
         desired' \in Nat, desired <= desired', x.gen <= desired',
         x.kind = "SidecarTerminated" => Behind(x.gen),
         shutdown'.requested \in BOOLEAN, shutdown'.gen <= desired',
         x.kind = "Shutdown" \/ shutdown.requested => shutdown'.requested,
         UNCHANGED <<w, sidecar, runtime>>, listeners' \subseteq listeners
  PROVE  Orders' /\ \A g : Behind(g)' <=> Behind(g)
<1>1. /\ queue' \in Seq(Intents) /\ Len(queue) \in Nat /\ Len(queue') = Len(queue) + 1
      /\ \A i \in 1..Len(queue) : i \in 1..Len(queue') /\ queue'[i] = queue[i]
      /\ queue'[Len(queue) + 1] = x
      /\ \A i \in 1..Len(queue') : i \in 1..Len(queue) \/ i = Len(queue) + 1
  BY Appended DEF IInv, Types, TypeOK
<1>2. x.kind \notin Requests /\ x.kind # "Initialize" BY DEF Requests, Commands
<1>3. \A g : Behind(g)' <=> Behind(g) BY <1>1, <1>2 DEF Behind
<1>4. \A g \in Gens : g <= desired => g <= desired'
  BY DEF IInv, Types, TypeOK, Gens, OrNone
<1>5. /\ \A i \in 1..Len(queue) : queue[i] \in Intents
      /\ w.gen \in Gens /\ listeners \subseteq Gens
  BY DEF IInv, Types, TypeOK
<1>6. \A i \in 1..Len(queue) : queue[i].gen \in Gens
  BY <1>5 DEF Intents
<1>7. /\ w.gen <= desired'
      /\ \A g \in listeners' : g <= desired' /\ Behind(g)'
      /\ Busy' /\ w'.kind # "Shutdown" => Behind(w.gen)'
  BY <1>3, <1>4, <1>5 DEF IInv, Orders, Busy
<1>8. ASSUME NEW i \in 1..Len(queue')
      PROVE  /\ queue'[i].gen <= desired'
             /\ queue'[i].kind = "SidecarTerminated" => Behind(queue[i].gen)'
             /\ queue'[i].kind = "Shutdown" => shutdown'.requested
             /\ queue'[i].kind = "Initialize" =>
                   i = 1 /\ w = Idle /\ sidecar = 0 /\ runtime = 0
  <2>1. CASE i = Len(queue) + 1 /\ queue'[i] = x
    BY <1>2, <1>3, <2>1
  <2>2. CASE i \in 1..Len(queue) /\ queue'[i] = queue[i]
    BY <1>3, <1>4, <1>6, <2>2 DEF IInv, Orders
  <2>. QED BY <1>1, <2>1, <2>2
<1>9. ASSUME NEW i \in 1..Len(queue'), NEW j \in 1..Len(queue'),
             queue'[i].kind \in Requests, queue'[j].kind \in Requests,
             queue'[i].gen = queue'[j].gen
      PROVE  i = j
  BY <1>1, <1>2, <1>9 DEF IInv, Orders
<1>. QED BY <1>3, <1>7, <1>8, <1>9 DEF Orders

\* The end of a sidecar is noted, or is nobody's business any more.
LEMMA SidecarTerminatedNoted ==
  ASSUME IInv, NEW g \in Gens, QueueSidecarTerminated(g) PROVE IInv'
<1>1. /\ UNCHANGED <<phase, config, lease, runtime, sidecar, failed, shutdown, w, r,
                     sidecars,
                     managers, exited, overwritten>>
      /\ ~exited /\ g \in listeners /\ listeners' = listeners \ {g}
  BY DEF QueueSidecarTerminated, processes
<1> DEFINE x == [kind |-> "SidecarTerminated", gen |-> g]
<1>2. x \in Intents /\ x.kind = "SidecarTerminated" /\ x.gen = g
  BY DEF Intents, Kinds
<1> HIDE DEF x
<1>3. \/ /\ ~shutdown.requested /\ ~failed /\ desired = g
         /\ pending' = g /\ queue' = Append(queue, x)
      \/ /\ shutdown.requested \/ failed \/ desired # g
               \/ phase \notin {"StartingSidecar", "Ready"}
         /\ UNCHANGED <<pending, queue>>
  BY DEF QueueSidecarTerminated, Accepting, Submit, x
<1>4. /\ desired \in Nat /\ g <= desired /\ Behind(g) /\ shutdown.gen <= desired
      /\ shutdown.requested \in BOOLEAN
  BY <1>1 DEF IInv, Orders, Types, TypeOK, OrNone
<1>5. /\ Orders' /\ \A h : Behind(h)' <=> Behind(h)
      /\ queue' \in Seq(Intents)
  <2>1. CASE queue' = queue
    BY <1>1, <2>1 DEF IInv, Orders, Behind, Busy, lease, Types, TypeOK
  <2>2. CASE queue' = Append(queue, x)
    BY <1>1, <1>2, <1>4, <2>2, NotedOrders, Appended DEF lease, IInv, Types, TypeOK
  <2>. QED BY <1>3, <2>1, <2>2
<1>6. /\ \A i \in 1..Len(queue) : i \in 1..Len(queue') /\ queue'[i] = queue[i]
      /\ \A i \in 1..Len(queue') :
            (i \in 1..Len(queue) /\ queue'[i] = queue[i]) \/ queue'[i] = x
      /\ queue' # queue => x = queue'[Len(queue')] /\ Len(queue') \in 1..Len(queue')
  <2>1. CASE queue' = queue BY <2>1
  <2>2. CASE queue' = Append(queue, x)
    <3>1. /\ queue' \in Seq(Intents) /\ Len(queue) \in Nat /\ Len(queue') = Len(queue) + 1
          /\ \A i \in 1..Len(queue) : i \in 1..Len(queue') /\ queue'[i] = queue[i]
          /\ queue'[Len(queue) + 1] = x
          /\ \A i \in 1..Len(queue') : i \in 1..Len(queue) \/ i = Len(queue) + 1
      BY <1>2, <2>2, Appended DEF IInv, Types, TypeOK
    <3>. QED BY <3>1
  <2>. QED BY <1>3, <2>1, <2>2
<1>7. TypeOK'
  BY <1>1, <1>3, <1>5, NamesOrNone DEF IInv, Types, TypeOK, lease
<1>8. Bounded' BY <1>1 DEF IInv, Types, Bounded, lease
<1>9. Turns' BY <1>1 DEF IInv, Turns, Aim, Busy, lease
<1>10. Hands' BY <1>1 DEF IInv, Hands, Aim
<1>11. Held' BY <1>1 DEF IInv, Held
<1>12. Configured' BY <1>1, <1>2, <1>6 DEF IInv, Configured, lease
<1>13. Settles'
  <2>1. Waiting' <=> Waiting
    BY <1>1, <1>2, <1>6 DEF Waiting, lease
  <2>2. AtWork' = AtWork /\ Task' = Task BY <1>1 DEF AtWork, Task, Busy, Aim, lease
  <2>3. \A kind : Shown(kind)' <=> Shown(kind) BY <1>1 DEF Shown
  <2>4. Shown(x.kind) BY <1>2 DEF Shown
  <2>. QED BY <1>1, <1>6, <2>1, <2>2, <2>3, <2>4 DEF IInv, Settles, lease
<1>14. Launches' BY <1>1 DEF IInv, Launches, lease
<1>15. Backs'
  <2>1. ASSUME NEW h \in Gens, h = desired, Told(h), ~shutdown.requested, ~failed,
               phase \in {"StartingSidecar", "Ready"}
        PROVE  Told(h)'
    BY <1>1, <1>2, <1>3, <1>6, <2>1 DEF Told, x
  <2>2. ASSUME ~shutdown.requested, w.pc \in {"health", "healthy", "publishReady"},
               desired = w.gen
        PROVE  Told(w.gen)'
    BY <1>1, <2>1, <2>2 DEF IInv, Backs, Launches, Turns, Aim, Stops, Types, TypeOK
  <2>3. ASSUME ~shutdown.requested, phase = "Ready"
        PROVE  Told(desired)' \/ w.pc \in {"terminated", "recover"}
    <3>1. desired \in Gens /\ desired' = desired /\ ~failed
      BY <1>1, <2>3 DEF IInv, Types, TypeOK, Bounded, Gens, OrNone, Turns, lease
    <3>. QED BY <2>1, <2>3, <3>1 DEF IInv, Backs
  <2>. QED BY <1>1, <1>5, <2>2, <2>3 DEF IInv, Backs, lease
<1>. QED BY <1>5, <1>7, <1>8, <1>9, <1>10, <1>11, <1>12, <1>13, <1>14, <1>15 DEF IInv,
            Types

\* The shell may go, has nobody to ask, or asks the worker.
LEMMA ExitRequestedKeeps == ASSUME IInv, ExitRequested PROVE IInv'
<1>1. /\ UNCHANGED <<phase, config, active, runtime, sidecar, pending, failed, w,
                     sidecars, managers,
                     listeners, overwritten>>
      /\ ~exited
  BY DEF ExitRequested, processes
<1>2. Held' /\ Hands' BY <1>1 DEF IInv, Held, Hands, Aim
<1>3. CASE /\ shutdown.complete /\ exited' = TRUE /\ UNCHANGED <<shutdown, desired,
                                                                 queue, r>>
  <2>1. TypeOK' /\ Bounded' BY <1>1, <1>3 DEF IInv, Types, TypeOK, Bounded
  <2>2. Orders' /\ Configured' /\ Launches'
    BY <1>1, <1>3 DEF IInv, Orders, Configured, Launches, Busy, Behind
  <2>3. Turns' BY <1>1, <1>3 DEF IInv, Turns, Busy, Aim
  <2>4. Settles'
    BY <1>1, <1>3 DEF IInv, Settles, Task, AtWork, Waiting, Shown, Aim, Busy
  <2>5. Backs' BY <1>1, <1>3 DEF IInv, Backs, Behind, Told
  <2>. QED BY <1>2, <2>1, <2>2, <2>3, <2>4, <2>5 DEF IInv, Types
<1>4. CASE /\ failed /\ UNCHANGED <<desired, queue, exited>>
           /\ shutdown' = [shutdown EXCEPT !.requested = TRUE, !.recovering = TRUE]
           /\ r' = [r EXCEPT !.pc = "take"]
  <2>1. /\ shutdown' \in [requested : BOOLEAN, gen : OrNone, enqueued : BOOLEAN,
                          recovering : BOOLEAN, complete : BOOLEAN]
        /\ shutdown'.gen = shutdown.gen /\ shutdown'.requested
        /\ r' \in [pc : {"none", "take", "stopSidecar", "stopManager", "exit"},
                   child : OrNone, mgr : OrNone]
    BY <1>4 DEF IInv, Types, TypeOK
  <2>2. TypeOK' /\ Bounded' BY <1>1, <1>4, <2>1 DEF IInv, Types, TypeOK, Bounded
  <2>3. Orders' /\ Configured' /\ Launches'
    BY <1>1, <1>4, <2>1 DEF IInv, Orders, Configured, Launches, Busy, Behind
  <2>4. Turns' BY <1>1, <1>4, <2>1 DEF IInv, Turns, Busy, Aim
  <2>5. Settles' /\ Backs' BY <1>1, <1>4, <2>1 DEF Settles, Backs
  <2>. QED BY <1>2, <2>2, <2>3, <2>4, <2>5 DEF IInv, Types
<1>5. CASE /\ ~failed /\ ~shutdown.complete /\ UNCHANGED <<r, exited>>
           /\ IF shutdown.gen # 0 THEN desired' = desired ELSE RequestGeneration
           /\ LET g == IF shutdown.gen # 0 THEN shutdown.gen ELSE desired'
              IN  /\ shutdown' = [shutdown EXCEPT !.requested = TRUE, !.gen = g,
                                                  !.enqueued = TRUE]
                  /\ Submit("Shutdown", g)
  <2>1. PICK g \in Gens :
           /\ g <= desired' /\ desired' \in Nat /\ desired <= desired' /\ desired' \in OrNone
           /\ desired' = desired \/ desired' = desired + 1
           /\ desired' # desired => g = desired'
           /\ shutdown' = [shutdown EXCEPT !.requested = TRUE, !.gen = g, !.enqueued = TRUE]
           /\ queue' = Append(queue, [kind |-> "Shutdown", gen |-> g])
    <3>1. CASE shutdown.gen # 0
      <4>1. shutdown.gen \in Gens /\ shutdown.gen <= desired /\ desired \in Nat
            /\ desired <= desired /\ desired \in OrNone
        BY <3>1 DEF IInv, Types, TypeOK, Orders, Gens, OrNone
      <4>2. /\ desired' = desired
            /\ shutdown' = [shutdown EXCEPT !.requested = TRUE, !.gen = shutdown.gen,
                                            !.enqueued = TRUE]
            /\ queue' = Append(queue, [kind |-> "Shutdown", gen |-> shutdown.gen])
        BY <1>5, <3>1 DEF Submit
      <4>. QED BY <4>1, <4>2
    <3>2. CASE shutdown.gen = 0
      <4>1. desired' = desired + 1 /\ desired + 1 \in Gens /\ desired \in Nat
        BY <1>5, <3>2, MaxGenAssumption
        DEF IInv, Types, TypeOK, Bounded, Gens, OrNone, RequestGeneration
      <4>2. desired <= desired + 1 /\ desired + 1 <= desired + 1 /\ desired + 1 \in Nat
            /\ desired + 1 \in OrNone
        BY <4>1 DEF Gens, OrNone
      <4>3. /\ shutdown' = [shutdown EXCEPT !.requested = TRUE, !.gen = desired + 1,
                                            !.enqueued = TRUE]
            /\ queue' = Append(queue, [kind |-> "Shutdown", gen |-> desired + 1])
        BY <1>5, <3>2, <4>1 DEF Submit
      <4>. QED BY <4>1, <4>2, <4>3
    <3>. QED BY <3>1, <3>2
  <2>2. /\ shutdown' \in [requested : BOOLEAN, gen : OrNone, enqueued : BOOLEAN,
                          recovering : BOOLEAN, complete : BOOLEAN]
        /\ shutdown'.gen = g /\ shutdown'.requested
        /\ shutdown'.recovering = shutdown.recovering /\ ~shutdown'.complete
    BY <1>5, <2>1, NamesOrNone DEF IInv, Types, TypeOK
  <2> DEFINE x == [kind |-> "Shutdown", gen |-> g]
  <2>3. x \in Intents /\ x.kind = "Shutdown" /\ x.gen = g
    BY DEF Intents, Kinds
  <2>4. queue' = Append(queue, x) BY <2>1
  <2> HIDE DEF x
  <2>5. Orders' BY <1>1, <2>1, <2>2, <2>3, <2>4, NotedOrders
  <2>6. /\ queue' \in Seq(Intents) /\ Len(queue) \in Nat /\ Len(queue') = Len(queue) + 1
        /\ \A i \in 1..Len(queue) : i \in 1..Len(queue') /\ queue'[i] = queue[i]
        /\ queue'[Len(queue) + 1] = x
        /\ \A i \in 1..Len(queue') : i \in 1..Len(queue) \/ i = Len(queue) + 1
    BY <2>3, <2>4, Appended DEF IInv, Types, TypeOK
  <2>7. TypeOK' BY <1>1, <1>5, <2>1, <2>2, <2>6 DEF IInv, Types, TypeOK
  <2>8. Bounded' BY <2>1, <2>2 DEF IInv, Types, Bounded, TypeOK, OrNone, Gens
  <2>9. Turns' BY <1>1, <1>5, <2>2 DEF IInv, Turns, Aim, Busy
  <2>10. /\ desired' # desired => desired' # w.gen
         /\ \A i \in 1..Len(queue) : desired' # desired => desired' # queue[i].gen
    <3>1. \A i \in 1..Len(queue) : queue[i] \in Intents /\ queue[i].gen <= desired
      BY DEF IInv, Types, TypeOK, Orders
    <3>2. \A h \in Gens : h <= desired => desired' = desired \/ desired' # h
      BY <2>1 DEF IInv, Types, TypeOK, Gens, OrNone
    <3>3. w.gen \in Gens /\ w.gen <= desired BY DEF IInv, Types, TypeOK, Orders
    <3>. QED BY <3>1, <3>2, <3>3 DEF Intents
  <2>11. Configured' BY <1>1, <2>3, <2>6, <2>10 DEF IInv, Configured
  <2>12. Settles'
    <3>1. \A i \in 1..Len(queue') : queue'[i].gen = desired' =>
             queue'[i] = x \/ (i \in 1..Len(queue) /\ queue'[i] = queue[i] /\ desired' = desired)
      BY <2>6, <2>10
    <3>2. \A kind : Shown(kind)' <=> Shown(kind) BY <1>1 DEF Shown
    <3>3. Shown(x.kind) BY <2>3 DEF Shown
    <3>4. AtWork' => AtWork /\ desired' = desired BY <1>1, <2>10 DEF AtWork, Busy
    <3>5. Task => Task' BY <1>1, <3>4 DEF Task, Aim
    <3>6. Waiting => Waiting' \/ desired' # desired BY <2>6 DEF Waiting
    <3>7. desired' # desired => Waiting' BY <2>1, <2>3, <2>6 DEF Waiting
    <3>8. AtWork => AtWork' \/ desired' # desired BY <1>1 DEF AtWork, Busy
    <3>. QED BY <1>1, <3>1, <3>2, <3>3, <3>4, <3>5, <3>6, <3>7, <3>8 DEF IInv, Settles
  <2>13. Launches' BY <1>1, <2>10 DEF IInv, Launches
  <2>14. Backs' BY <2>2 DEF Backs
  <2>. QED BY <1>2, <2>5, <2>7, <2>8, <2>9, <2>11, <2>12, <2>13, <2>14 DEF IInv, Types
<1>. QED BY <1>3, <1>4, <1>5 DEF ExitRequested

-----------------------------------------------------------------------------
(***************************************************************************)
(* A panic of the worker, and the shutdown without a worker.               *)
(***************************************************************************)

\* The worker recovers from its panic, stops what the state holds and ends.
LEMMA RecoverKeeps == ASSUME IInv, RecoverWorkerFailure PROVE IInv'
<1>1. /\ UNCHANGED <<config, desired, queue, r, sidecars, managers, listeners,
                     overwritten>>
      /\ ~exited
  BY DEF RecoverWorkerFailure, At, processes
<1>2. CASE At("recover")
  <2>1. /\ w.pc = "recover" /\ failed' = TRUE /\ phase' = "Failed" /\ pending' = 0
        /\ shutdown' = [shutdown EXCEPT !.enqueued = FALSE]
        /\ w' = [w EXCEPT !.pc = "stopSidecar", !.child = sidecar, !.mgr = runtime,
                          !.next = "recovered", !.flag = shutdown.requested]
        /\ sidecar' = 0 /\ runtime' = 0 /\ UNCHANGED <<active, exited>>
    BY <1>2 DEF RecoverWorkerFailure, At
  <2>2. /\ shutdown' \in [requested : BOOLEAN, gen : OrNone, enqueued : BOOLEAN,
                          recovering : BOOLEAN, complete : BOOLEAN]
        /\ shutdown'.gen = shutdown.gen /\ shutdown'.requested = shutdown.requested
        /\ shutdown.requested \in BOOLEAN
    BY <2>1 DEF IInv, Types, TypeOK
  <2>3. /\ w' \in Thread /\ w'.pc = "stopSidecar" /\ w'.next = "recovered"
        /\ w'.gen = w.gen /\ w'.kind = w.kind
    BY <2>1, <2>2 DEF IInv, Types, TypeOK, Thread, Locations
  <2>4. Proceeds BY <2>1, <2>3 DEF Proceeds, Busy
  <2>5. TypeOK'
    BY <1>1, <2>1, <2>2, <2>3, NamesOrNone DEF IInv, Types, TypeOK, Thread, Phases
  <2>6. Bounded' /\ Orders' BY <1>1, <2>1, <2>2, <2>4, QuietOrders DEF lease
  <2>7. Turns'
    BY <1>1, <2>1, <2>2, <2>3 DEF IInv, Turns, Aim, Stops, Closing, Busy
  <2>8. Hands' BY <2>1, <2>3 DEF Hands, Aim, Stops, Bare, Without, Targets
  <2>9. Held' BY <1>1, <2>1 DEF IInv, Held
  <2>10. Configured' BY <1>1, <2>3 DEF IInv, Configured
  <2>11. Settles' /\ Launches' /\ Backs' BY <2>1, <2>3 DEF Settles, Launches, Backs
  <2>. QED BY <2>5, <2>6, <2>7, <2>8, <2>9, <2>10, <2>11 DEF IInv, Types
<1>3. CASE At("recovered")
  <2>1. /\ w.pc = "recovered" /\ UNCHANGED <<failed, pending, phase, sidecar, runtime>>
        /\ shutdown' = IF w.flag THEN [shutdown EXCEPT !.complete = TRUE] ELSE shutdown
        /\ exited' = w.flag
        /\ active' = IF active = w.gen THEN 0 ELSE active
        /\ w' = [Idle EXCEPT !.pc = "broken"]
    BY <1>3 DEF RecoverWorkerFailure, At
  <2>2. failed /\ phase = "Failed" /\ Busy
    BY <2>1 DEF IInv, Turns, Aim, Stops, Busy
  <2>3. /\ w' \in Thread /\ w'.pc = "broken" /\ w'.kind = "Initialize" /\ w'.gen = 1
        /\ w'.child = 0 /\ w'.mgr = 0
    <3>1. w' # Idle BY <2>1 DEF Idle
    <3>. QED BY <2>1, <3>1, IdleIs
  <2>4. /\ shutdown' \in [requested : BOOLEAN, gen : OrNone, enqueued : BOOLEAN,
                          recovering : BOOLEAN, complete : BOOLEAN]
        /\ shutdown'.gen = shutdown.gen /\ shutdown'.requested = shutdown.requested
    BY <2>1 DEF IInv, Types, TypeOK
  <2>5. exited' \in BOOLEAN /\ active' \in OrNone
    BY <2>1, NamesOrNone DEF IInv, Types, TypeOK
  <2>6. TypeOK'
    BY <1>1, <2>1, <2>3, <2>4, <2>5 DEF IInv, Types, TypeOK, Thread
  <2>7. Bounded' BY <1>1, <2>4 DEF IInv, Types, Bounded
  <2>8. Orders'
    <3>1. \A i \in 1..Len(queue) : queue[i].kind # "Initialize"
      BY <2>2 DEF IInv, Orders, Idle, Busy
    <3>2. \A g : Behind(g)' = Behind(g) BY <1>1 DEF Behind
    <3>3. 1 <= desired BY DEF IInv, Types, Bounded, TypeOK, OrNone
    <3>. QED BY <1>1, <2>3, <2>4, <3>1, <3>2, <3>3 DEF IInv, Orders, Busy
  <2>9. Turns' BY <2>1, <2>2, <2>3 DEF Turns, Aim, Stops, Closing, Busy
  <2>10. Hands' BY <2>3 DEF Hands, Aim, Stops, Bare, Without
  <2>11. Held' BY <1>1, <2>1, <2>2 DEF IInv, Held
  <2>12. Configured' BY <1>1, <2>3 DEF IInv, Configured
  <2>13. Settles' /\ Launches' /\ Backs'
    BY <2>1, <2>2, <2>3 DEF Settles, Launches, Backs
  <2>. QED BY <2>6, <2>7, <2>8, <2>9, <2>10, <2>11, <2>12, <2>13 DEF IInv, Types
<1>. QED BY <1>2, <1>3 DEF RecoverWorkerFailure

\* The recovery thread stops what the state holds and lets the shell go.
LEMMA ShutdownRecoveryKeeps == ASSUME IInv, ShutdownRecovery PROVE IInv'
<1>1. /\ UNCHANGED <<phase, config, lease, pending, failed, queue, w, listeners,
                     overwritten>>
      /\ ~exited /\ r.pc # "none"
  BY DEF ShutdownRecovery
<1>2. failed /\ phase = "Failed" /\ w # Idle /\ (w.pc = "broken" \/ Aim = "recovered")
  BY <1>1 DEF IInv, Turns, Idle, Aim, Stops
<1>3. /\ sidecars' \subseteq sidecars /\ managers' \subseteq managers
      /\ sidecar' \in {0, sidecar} /\ runtime' \in {0, runtime}
  BY DEF ShutdownRecovery, processes
<1>4. /\ shutdown' \in [requested : BOOLEAN, gen : OrNone, enqueued : BOOLEAN,
                        recovering : BOOLEAN, complete : BOOLEAN]
      /\ shutdown'.gen = shutdown.gen /\ shutdown'.requested = shutdown.requested
  BY DEF ShutdownRecovery, IInv, Types, TypeOK
<1>5. r' \in [pc : {"none", "take", "stopSidecar", "stopManager", "exit"},
              child : OrNone, mgr : OrNone]
  <2>1. \/ r' = [pc |-> "stopSidecar", child |-> sidecar, mgr |-> runtime]
        \/ r' = [r EXCEPT !.pc = "stopManager", !.child = 0]
        \/ r' = [r EXCEPT !.pc = "exit", !.mgr = 0]
        \/ r' = r
    BY DEF ShutdownRecovery
  <2>2. CASE r' = [pc |-> "stopSidecar", child |-> sidecar, mgr |-> runtime]
    BY <2>2 DEF IInv, Types, TypeOK
  <2>3. CASE r' = [r EXCEPT !.pc = "stopManager", !.child = 0]
    BY <2>3, NamesOrNone DEF IInv, Types, TypeOK
  <2>4. CASE r' = [r EXCEPT !.pc = "exit", !.mgr = 0]
    BY <2>4, NamesOrNone DEF IInv, Types, TypeOK
  <2>5. CASE r' = r BY <2>5 DEF IInv, Types, TypeOK
  <2>. QED BY <2>1, <2>2, <2>3, <2>4, <2>5
<1>6. exited' \in BOOLEAN BY DEF ShutdownRecovery, IInv, Types, TypeOK
<1>7. TypeOK'
  BY <1>1, <1>3, <1>4, <1>5, <1>6, NamesOrNone DEF IInv, Types, TypeOK, lease
<1>8. Bounded' BY <1>1, <1>4 DEF IInv, Types, Bounded, lease
<1>9. Orders'
  BY <1>1, <1>2, <1>4 DEF IInv, Orders, Behind, Busy, lease
<1>10. Turns' BY <1>1, <1>2, <1>4 DEF IInv, Turns, Aim, Busy, lease
<1>11. Hands'
  BY <1>1, <1>2, <1>3 DEF IInv, Hands, Aim, Stops
<1>12. Held' BY <1>1, <1>2, <1>3 DEF IInv, Held
<1>13. Configured' BY <1>1 DEF IInv, Configured, lease
<1>14. Settles' /\ Launches' /\ Backs'
  BY <1>1, <1>2 DEF Settles, Launches, Backs, Aim, Stops
<1>. QED BY <1>7, <1>8, <1>9, <1>10, <1>11, <1>12, <1>13, <1>14 DEF IInv, Types

-----------------------------------------------------------------------------
(***************************************************************************)
(* The theorems.                                                           *)
(***************************************************************************)
LEMMA InitEstablishes == ASSUME Init PROVE IInv
<1>1. /\ phase = "NeedsSetup" /\ desired = 1 /\ active = 0 /\ runtime = 0 /\ sidecar = 0
      /\ pending = 0 /\ failed = FALSE /\ config = FALSE
      /\ sidecars = {} /\ managers = {} /\ listeners = {} /\ exited = FALSE
      /\ overwritten = FALSE /\ w = Idle /\ r = [pc |-> "none", child |-> 0, mgr |-> 0]
  BY DEF Init
<1>2. /\ shutdown \in [requested : BOOLEAN, gen : OrNone, enqueued : BOOLEAN,
                       recovering : BOOLEAN, complete : BOOLEAN]
      /\ ~shutdown.requested /\ shutdown.gen = 0 /\ ~shutdown.complete /\ ~shutdown.recovering
  BY NamesOrNone DEF Init
<1>3. w \in Thread /\ w.kind = "Initialize" /\ w.gen = 1 /\ w.child = 0 /\ w.mgr = 0
      /\ w.pc = "idle"
  BY <1>1, IdleIs
<1>4. /\ queue \in Seq(Intents) /\ Len(queue) = 1
      /\ queue[1].kind = "Initialize" /\ queue[1].gen = 1
  <2>1. [kind |-> "Initialize", gen |-> 1] \in Intents
    BY MaxGenAssumption DEF Intents, Kinds, Gens
  <2>. QED BY <2>1 DEF Init
<1>5. 1 \in OrNone /\ 1 < MaxGen BY MaxGenAssumption DEF OrNone
<1>6. TypeOK BY <1>1, <1>2, <1>3, <1>4, <1>5, NamesOrNone DEF TypeOK, Thread, Phases
<1>7. Bounded BY <1>1, <1>5 DEF Bounded
<1>8. Orders BY <1>1, <1>2, <1>3, <1>4 DEF Orders, Busy
<1>9. Turns BY <1>1, <1>2, <1>3 DEF Turns, Aim, Stops, Closing, Busy
<1>10. Hands /\ Held BY <1>1, <1>3 DEF Hands, Aim, Stops, Bare, Without, Held
<1>11. Configured BY <1>3, <1>4 DEF Configured
<1>12. Settles
  BY <1>1, <1>3, <1>4 DEF Settles, Task, AtWork, Busy, Shown, Transient
<1>13. Launches /\ Backs BY <1>1, <1>3 DEF Launches, Backs
<1>. QED BY <1>6, <1>7, <1>8, <1>9, <1>10, <1>11, <1>12, <1>13 DEF IInv, Types

LEMMA StutterKeeps == ASSUME IInv, UNCHANGED vars PROVE IInv'
<1>1. TypeOK' /\ Bounded' BY DEF IInv, Types, TypeOK, Bounded, vars, lease, processes
<1>2. Orders' /\ Configured' /\ Launches'
  BY DEF IInv, Orders, Configured, Launches, Busy, Behind, vars, lease, processes
<1>3. Turns' BY DEF IInv, Turns, Busy, Aim, vars, lease, processes
<1>4. Hands' /\ Held' BY DEF IInv, Hands, Held, Aim, vars, lease, processes
<1>5. Settles'
  BY DEF IInv, Settles, Task, AtWork, Waiting, Shown, Aim, Busy, vars, lease, processes
<1>6. Backs' BY DEF IInv, Backs, Behind, Told, vars, lease, processes
<1>. QED BY <1>1, <1>2, <1>3, <1>4, <1>5, <1>6 DEF IInv, Types

LEMMA NextKeeps == ASSUME IInv, [Next]_vars PROVE IInv'
<1>1. CASE QueueSaveSetup
  BY <1>1, CommandKeeps DEF QueueSaveSetup, Commands, Phases
<1>2. CASE QueueRetry
  BY <1>2, CommandKeeps DEF QueueRetry, Commands, Phases
<1>3. CASE QueueEnterLoginSetup
  BY <1>3, CommandKeeps DEF QueueEnterLoginSetup, Commands, Phases
<1>4. CASE QueueUpdateLogin
  BY <1>4, CommandKeeps DEF QueueUpdateLogin, Commands, Phases
<1>5. CASE ExitRequested BY <1>5, ExitRequestedKeeps
<1>6. ASSUME NEW g \in Gens, SidecarDies(g) \/ QueueSidecarTerminated(g) PROVE IInv'
  BY <1>6, SidecarDiesKeeps, SidecarTerminatedNoted
<1>7. CASE Worker
  BY <1>7, ReceiveKeeps, FinishKeeps, StopSidecarKeeps, StopManagerKeeps,
     InitializeKeeps,
     SaveSetupKeeps, EnterLoginSetupKeeps, RetryKeeps, UpdateLoginKeeps,
     SidecarTerminatedKeeps, ShutdownKeeps, FullStartKeeps, SpawnKeeps,
     WaitHealthyKeeps,
     FinishSpawnKeeps, RecoverKeeps
  DEF Worker
<1>8. CASE Panic BY <1>8, PanicKeeps
<1>9. CASE ShutdownRecovery BY <1>9, ShutdownRecoveryKeeps
<1>10. CASE UNCHANGED vars BY <1>10, StutterKeeps
<1>. QED BY <1>1, <1>2, <1>3, <1>4, <1>5, <1>6, <1>7, <1>8, <1>9, <1>10 DEF Next, Exited

\* The invariant, which all that follows is read off.
THEOREM Invariant == Spec => []IInv
<1>1. Init => IInv BY InitEstablishes
<1>2. IInv /\ [Next]_vars => IInv' BY NextKeeps
<1>. QED BY <1>1, <1>2, PTL DEF Spec

\* One resource at most, in the set of those that run.
LEMMA OneAtMost ==
  ASSUME NEW S, S \subseteq Gens, \A a, b \in S : a = b PROVE Cardinality(S) <= 1
<1>1. CASE S = {} BY <1>1, FS_EmptySet
<1>2. CASE S # {}
  <2>1. PICK a \in S : TRUE BY <1>2
  <2>2. S = {a} BY <2>1
  <2>3. Cardinality(S) = 1 BY <2>2, FS_Singleton
  <2>. QED BY <2>3
<1>. QED BY <1>1, <1>2

\* The shared state of the shell (desktop_backend.rs, DesktopShared, the worker
\* and the recovery thread) keeps its shape, whatever is asked of it and
\* wherever the worker panics.
THEOREM TypeInvariant == Spec => []TypeOK
<1>1. IInv => TypeOK BY DEF IInv, Types
<1>. QED BY <1>1, Invariant, PTL

\* However often the user saves, retries and logs in, and whatever fails in
\* between, two sidecars never run side by side, nor two managers: spawn_sidecar
\* and start_services_full find nothing running when they start one.
THEOREM OneOfEach == Spec => []AtMostOne
<1>1. IInv => AtMostOne
  BY OneAtMost DEF IInv, Types, TypeOK, Held, AtMostOne
<1>. QED BY <1>1, Invariant, PTL

\* What runs is held by the shared state or by the worker, which will stop it or
\* hand it over: no early return of the operations drops a handle.
THEOREM NothingLost == Spec => []NothingIsLost
<1>1. IInv => NothingIsLost
  BY DEF IInv, Held, NothingIsLost
<1>. QED BY <1>1, Invariant, PTL

\* When the window says Ready, the sidecar is the one of the newest request, and
\* its end cannot go unnoticed: log_sidecar_events still watches it, or the intent
\* it queued is waiting or being handled.
THEOREM ReadyBacked == Spec => []ReadyIsBacked
<1>1. IInv => ReadyIsBacked
  BY DEF IInv, Backs, Told, ReadyIsBacked
<1>. QED BY <1>1, Invariant, PTL

\* With nothing left to do the worker has not left the window saying that
\* something is being saved or started, but for the retry of retry_lifecycle that
\* shows its phase over that of a newer command.
THEOREM Settled == Spec => []SettledUnlessOverwritten
<1>1. IInv => SettledUnlessOverwritten
  <2>1. SUFFICES ASSUME IInv, w.pc = "idle", queue = <<>>, ~overwritten
                 PROVE  phase \notin Transient
    BY DEF SettledUnlessOverwritten
  <2>2. ~failed BY <2>1 DEF IInv, Turns, Aim, Stops
  <2>3. ~Waiting /\ ~AtWork BY <2>1 DEF Waiting, AtWork, Busy
  <2>. QED BY <2>1, <2>2, <2>3 DEF IInv, Settles
<1>. QED BY <1>1, Invariant, PTL

\* The shell leaves neither a sidecar nor a manager behind when it exits with a
\* worker that lived: it exits only after run_shutdown has stopped both.
THEOREM NothingLeftBehind == Spec => []ExitLeavesNothing
<1>1. IInv => ExitLeavesNothing
  BY DEF IInv, Turns, ExitLeavesNothing
<1>. QED BY <1>1, Invariant, PTL

-----------------------------------------------------------------------------
(***************************************************************************)
(* A request to exit is honoured.  The liveness ExitHappens needs fairness,*)
(* which stays with TLC; what the code must do for it is safety: the       *)
(* request is never lost (ExitStands), so that a thread can always step    *)
(* (ExitGoes), and every step of a thread brings the exit nearer (Nearer). *)
(***************************************************************************)
\* The request stands: its intent is queued under the newest generation, so that
\* the worker will not drop it; or the worker serves it, or recovers from a panic
\* and has seen it; or the recovery thread was started for it.
Asked == \E i \in 1..Len(queue) : queue[i] = [kind |-> "Shutdown", gen |-> desired]

ExitStands ==
    shutdown.requested /\ ~exited =>
        \/ /\ ~failed
           /\ Asked \/ w.pc = "recover" \/ (Busy /\ w.kind = "Shutdown")
        \/ /\ failed
           /\ r.pc # "none" \/ (Busy /\ w.flag)

\* It is asked for once.
AskedOnce ==
    /\ shutdown.gen # 0 => shutdown.requested /\ shutdown.gen = desired
    /\ shutdown.requested /\ ~failed /\ ~shutdown.complete => shutdown.enqueued
    /\ r.pc # "none" => shutdown.recovering

ExitInv == ExitStands /\ AskedOnce

\* Some thread of the shell can take a step: the guards of Worker and of
\* ShutdownRecovery.
WorkerGoes   == Busy \/ (w.pc = "idle" /\ queue # <<>>)
RecoveryGoes == r.pc # "none"

ExitGoes == shutdown.requested /\ ~exited => WorkerGoes \/ RecoveryGoes

\* The steps of an operation that are still ahead of the worker, at most.
Layer(pc) ==
    CASE pc = "finish" -> 1
      [] pc \in {"navigateFailed", "cancelled", "unhealthy", "terminated",
                 "loginDone", "updateFailed", "shutdownDone"} -> 2
      [] pc \in {"navigate", "loginTake", "shutdownTake"} -> 3
      [] pc \in {"publishReady", "loginNavigate"} -> 4
      [] pc = "healthy" -> 5
      [] pc = "health" -> 6
      [] pc = "watch" -> 7
      [] pc = "adopt" -> 8
      [] pc = "spawned" -> 9
      [] pc = "spawn" -> 10
      [] pc = "spawnCheck" -> 11
      [] pc = "managerPublish" -> 12
      [] pc = "managerCheck" -> 13
      [] pc = "managerStart" -> 14
      [] pc = "fullStart" -> 15
      [] pc \in {"initialize", "save", "retryTransition", "updateTransition"} -> 16
      [] pc \in {"saveCheck", "retryDesired", "updatePersist"} -> 17
      [] pc \in {"saveTake", "retryLoad", "updateCheck"} -> 18
      [] pc \in {"retryCheck", "updateTake"} -> 19
      [] pc \in {"retryTake", "updateNavigate"} -> 20
      [] OTHER -> 0

\* Between two of them it may stop a sidecar and a manager.
StopsLeft ==
    IF w.pc = "stopSidecar" THEN 2 ELSE IF w.pc = "stopManager" THEN 1 ELSE 0

\* How far the shell is from its exit: the intents the worker has to take up or
\* to drop, the rest of the operation at work, what a recovery has left to do.
Ahead ==
    IF failed \/ w.pc = "recover"
    THEN IF w.pc = "recover" THEN 9
         ELSE IF w.pc = "broken" THEN 0 ELSE 1 + StopsLeft
    ELSE 10 + 64 * Len(queue) + 3 * Layer(Aim) + StopsLeft

Left ==
    IF r.pc = "none" THEN 5 ELSE IF r.pc = "take" THEN 4
    ELSE IF r.pc = "stopSidecar" THEN 3 ELSE IF r.pc = "stopManager" THEN 2 ELSE 1

Distance == Ahead + Left

Nearer ==
    shutdown.requested =>
        /\ exited' \/ Distance' <= Distance
        /\ Worker \/ ShutdownRecovery => exited' \/ Distance' < Distance

Operating == Locations \ ({"idle", "broken", "recover", "recovered"} \cup Stops)

\* The worker goes on with its operation, and next to pc in it.
Lands(pc) ==
    /\ w' \in Thread /\ w'.kind = w.kind /\ Busy' /\ w'.pc # "recover"
    /\ Aim' = pc

GoesDown == /\ w.pc \in Operating
            /\ \E pc \in Operating : Lands(pc) /\ Layer(pc) < Layer(w.pc)

LEMMA LayerIs ==
  /\ Layer("idle") = 0
  /\ Layer("finish") = 1
  /\ Layer("navigateFailed") = 2 /\ Layer("cancelled") = 2 /\ Layer("unhealthy") = 2
  /\ Layer("terminated") = 2 /\ Layer("loginDone") = 2 /\ Layer("updateFailed") = 2
  /\ Layer("shutdownDone") = 2
  /\ Layer("navigate") = 3 /\ Layer("loginTake") = 3 /\ Layer("shutdownTake") = 3
  /\ Layer("publishReady") = 4 /\ Layer("loginNavigate") = 4
  /\ Layer("healthy") = 5 /\ Layer("health") = 6 /\ Layer("watch") = 7
  /\ Layer("adopt") = 8 /\ Layer("spawned") = 9 /\ Layer("spawn") = 10
  /\ Layer("spawnCheck") = 11 /\ Layer("managerPublish") = 12
  /\ Layer("managerCheck") = 13 /\ Layer("managerStart") = 14
  /\ Layer("fullStart") = 15
  /\ Layer("initialize") = 16 /\ Layer("save") = 16 /\ Layer("retryTransition") = 16
  /\ Layer("updateTransition") = 16
  /\ Layer("saveCheck") = 17 /\ Layer("retryDesired") = 17 /\ Layer("updatePersist") = 17
  /\ Layer("saveTake") = 18 /\ Layer("retryLoad") = 18 /\ Layer("updateCheck") = 18
  /\ Layer("retryCheck") = 19 /\ Layer("updateTake") = 19
  /\ Layer("retryTake") = 20 /\ Layer("updateNavigate") = 20
BY DEF Layer

LEMMA LayerBounds == ASSUME NEW pc PROVE Layer(pc) \in 0..20
BY DEF Layer

LEMMA GotoLands ==
  ASSUME TypeOK, NEW pc \in Operating, Goto(pc) PROVE Lands(pc)
BY GotoMoves DEF Operating, Moves, Lands, Aim, Busy

LEMMA FlagLands ==
  ASSUME TypeOK, NEW pc \in Operating, NEW f \in BOOLEAN,
         w' = [w EXCEPT !.pc = pc, !.flag = f]
  PROVE  Lands(pc)
BY FlagMoves DEF Operating, Moves, Lands, Aim, Busy

LEMMA ReturnLands == ASSUME TypeOK, Return PROVE Lands("finish")
BY ReturnMoves DEF Moves, Lands, Aim, Busy, Stops

LEMMA TakeLands ==
  ASSUME TypeOK, NEW next \in Operating,
         TakeSidecar(next) \/ TakeRuntime(next) \/ TakeBoth(next)
  PROVE  Lands(next)
<1>1. \E pc \in Stops : \E child, mgr : Moves(pc, child, mgr, next)
  BY TakeSidecarMoves, TakeRuntimeMoves, TakeBothMoves DEF Operating, Stops
<1>. QED BY <1>1 DEF Moves, Lands, Aim, Busy, Stops

LEMMA InitializeGoesDown == ASSUME IInv, RunInitialize PROVE Quiet /\ GoesDown
<1>1. Quiet BY DEF RunInitialize, Elsewhere, Quiet
<1>2. /\ w.pc = "initialize"
      /\ Lands("fullStart") \/ Lands("finish")
  BY GotoLands, ReturnLands DEF IInv, Types, RunInitialize, At, Locations, Operating,
     Stops
<1>. QED BY <1>1, <1>2, LayerIs DEF GoesDown, Operating, Locations, Stops

LEMMA SaveSetupGoesDown == ASSUME IInv, RunSaveSetup PROVE Quiet /\ GoesDown
<1>1. Quiet BY DEF RunSaveSetup, Elsewhere, Quiet
<1>2. \/ w.pc = "saveTake" /\ Lands("saveCheck")
      \/ w.pc = "saveCheck" /\ (Lands("save") \/ Lands("finish"))
      \/ w.pc = "save" /\ (Lands("fullStart") \/ Lands("finish"))
  BY GotoLands, ReturnLands, TakeLands
  DEF IInv, Types, RunSaveSetup, At, Locations, Operating, Stops
<1>. QED BY <1>1, <1>2, LayerIs DEF GoesDown, Operating, Locations, Stops
LEMMA EnterLoginSetupGoesDown == ASSUME IInv, RunEnterLoginSetup PROVE Quiet /\ GoesDown
<1>1. Quiet BY DEF RunEnterLoginSetup, Elsewhere, Quiet
<1>2. \/ w.pc = "loginNavigate" /\ Lands("loginTake")
      \/ w.pc = "loginTake" /\ Lands("loginDone")
      \/ w.pc = "loginDone" /\ Lands("finish")
  BY FlagLands, ReturnLands, TakeLands
  DEF IInv, Types, RunEnterLoginSetup, At, Locations, Operating, Stops
<1>. QED BY <1>1, <1>2, LayerIs DEF GoesDown, Operating, Locations, Stops

LEMMA RetryGoesDown == ASSUME IInv, RunRetry PROVE Quiet /\ GoesDown
<1>1. Quiet BY DEF RunRetry, Elsewhere, Quiet
<1>2. \/ w.pc = "retryTake" /\ Lands("retryCheck")
      \/ w.pc = "retryCheck" /\ (Lands("retryLoad") \/ Lands("finish"))
      \/ w.pc = "retryLoad" /\ (Lands("retryDesired") \/ Lands("finish"))
      \/ w.pc = "retryDesired" /\ (Lands("retryTransition") \/ Lands("finish"))
      \/ w.pc = "retryTransition" /\ (Lands("spawnCheck") \/ Lands("fullStart"))
  <2>1. CASE w.pc = "retryTake"
    BY <2>1, GotoLands, ReturnLands, TakeLands
    DEF IInv, Types, RunRetry, At, Locations, Operating, Stops
  <2>2. CASE w.pc = "retryCheck"
    BY <2>2, GotoLands, ReturnLands, TakeLands
    DEF IInv, Types, RunRetry, At, Locations, Operating, Stops
  <2>3. CASE w.pc = "retryLoad"
    BY <2>3, GotoLands, ReturnLands, TakeLands
    DEF IInv, Types, RunRetry, At, Locations, Operating, Stops
  <2>4. CASE w.pc = "retryDesired"
    BY <2>4, GotoLands, ReturnLands, TakeLands
    DEF IInv, Types, RunRetry, At, Locations, Operating, Stops
  <2>5. CASE w.pc = "retryTransition"
    BY <2>5, GotoLands, ReturnLands, TakeLands
    DEF IInv, Types, RunRetry, At, Locations, Operating, Stops
  <2>. QED BY <2>1, <2>2, <2>3, <2>4, <2>5 DEF RunRetry, At
<1>. QED BY <1>1, <1>2, LayerIs DEF GoesDown, Operating, Locations, Stops

LEMMA UpdateLoginGoesDown == ASSUME IInv, RunUpdateLogin PROVE Quiet /\ GoesDown
<1>1. Quiet BY DEF RunUpdateLogin, Elsewhere, Quiet
<1>2. \/ w.pc = "updateNavigate" /\ (Lands("updateTake") \/ Lands("finish"))
      \/ w.pc = "updateTake" /\ Lands("updateCheck")
      \/ w.pc = "updateCheck" /\ (Lands("updatePersist") \/ Lands("finish"))
      \/ w.pc = "updatePersist" /\ (Lands("updateTransition") \/ Lands("updateFailed") \/ Lands("finish"))
      \/ w.pc = "updateFailed" /\ Lands("finish")
      \/ w.pc = "updateTransition" /\ (Lands("spawnCheck") \/ Lands("fullStart") \/ Lands("finish"))
  <2>1. CASE w.pc = "updateNavigate"
    BY <2>1, FlagLands, GotoLands, ReturnLands, TakeLands
    DEF IInv, Types, RunUpdateLogin, At, Locations, Operating, Stops
  <2>2. CASE w.pc = "updateTake"
    BY <2>2, FlagLands, GotoLands, ReturnLands, TakeLands
    DEF IInv, Types, RunUpdateLogin, At, Locations, Operating, Stops
  <2>3. CASE w.pc = "updateCheck"
    BY <2>3, FlagLands, GotoLands, ReturnLands, TakeLands
    DEF IInv, Types, RunUpdateLogin, At, Locations, Operating, Stops
  <2>4. CASE w.pc = "updatePersist"
    BY <2>4, FlagLands, GotoLands, ReturnLands, TakeLands
    DEF IInv, Types, RunUpdateLogin, At, Locations, Operating, Stops
  <2>5. CASE w.pc = "updateFailed"
    BY <2>5, FlagLands, GotoLands, ReturnLands, TakeLands
    DEF IInv, Types, RunUpdateLogin, At, Locations, Operating, Stops
  <2>6. CASE w.pc = "updateTransition"
    BY <2>6, FlagLands, GotoLands, ReturnLands, TakeLands
    DEF IInv, Types, RunUpdateLogin, At, Locations, Operating, Stops
  <2>. QED BY <2>1, <2>2, <2>3, <2>4, <2>5, <2>6 DEF RunUpdateLogin, At
<1>. QED BY <1>1, <1>2, LayerIs DEF GoesDown, Operating, Locations, Stops

LEMMA SidecarTerminatedGoesDown == ASSUME IInv, RunSidecarTerminated PROVE Quiet /\ GoesDown
<1>1. Quiet BY DEF RunSidecarTerminated, Elsewhere, Quiet
<1>2. w.pc = "terminated" /\ Lands("finish")
  BY ReturnLands, TakeLands
  DEF IInv, Types, RunSidecarTerminated, At, Locations, Operating, Stops
<1>. QED BY <1>1, <1>2, LayerIs DEF GoesDown, Operating, Locations, Stops

LEMMA ServicesLand ==
  ASSUME TypeOK
  PROVE  /\ w' = [w EXCEPT !.pc = "managerCheck", !.mgr = w.gen] => Lands("managerCheck")
         /\ w' = [w EXCEPT !.pc = "stopManager", !.next = "finish"] => Lands("finish")
         /\ w' = [w EXCEPT !.pc = "spawnCheck", !.mgr = 0] => Lands("spawnCheck")
         /\ w' = [w EXCEPT !.pc = "spawned", !.child = w.gen] => Lands("spawned")
         /\ w' = [w EXCEPT !.pc = "stopSidecar", !.next = "finish"] => Lands("finish")
         /\ sidecar = 0 /\ w' = [w EXCEPT !.pc = IF sidecar # 0 THEN "stopSidecar"
                                                             ELSE "watch",
                                         !.child = sidecar, !.next = "watch"] =>
               Lands("watch")
<1>1. \A pc, child, mgr, next : Moves(pc, child, mgr, next) =>
         /\ pc \in Operating => Lands(pc)
         /\ pc \in Stops /\ next \in Operating => Lands(next)
  BY DEF Moves, Lands, Aim, Busy, Operating, Stops
<1>2. /\ {"managerCheck", "spawnCheck", "spawned", "watch", "finish"} \subseteq Operating
      /\ {"stopManager", "stopSidecar"} \subseteq Stops
  BY DEF Operating, Locations, Stops
<1>. QED BY <1>1, <1>2, ManagerMoves, SpawnMoves

LEMMA FullStartGoesDown == ASSUME IInv, RunFullStart PROVE Quiet /\ GoesDown
<1>1. Quiet BY DEF RunFullStart, Elsewhere, Quiet
<1>2. \/ w.pc = "fullStart" /\ (Lands("managerStart") \/ Lands("finish"))
      \/ w.pc = "managerStart" /\ (Lands("managerCheck") \/ Lands("finish"))
      \/ w.pc = "managerCheck" /\ (Lands("managerPublish") \/ Lands("finish"))
      \/ w.pc = "managerPublish" /\ (Lands("spawnCheck") \/ Lands("finish"))
  <2>1. CASE w.pc = "fullStart"
    BY <2>1, GotoLands, ReturnLands, ServicesLand
    DEF IInv, Types, RunFullStart, At, Locations, Operating, Stops
  <2>2. CASE w.pc = "managerStart"
    BY <2>2, GotoLands, ReturnLands, ServicesLand
    DEF IInv, Types, RunFullStart, At, Locations, Operating, Stops
  <2>3. CASE w.pc = "managerCheck"
    BY <2>3, GotoLands, ReturnLands, ServicesLand
    DEF IInv, Types, RunFullStart, At, Locations, Operating, Stops
  <2>4. CASE w.pc = "managerPublish"
    BY <2>4, GotoLands, ReturnLands, ServicesLand
    DEF IInv, Types, RunFullStart, At, Locations, Operating, Stops
  <2>. QED BY <2>1, <2>2, <2>3, <2>4 DEF RunFullStart, At
<1>. QED BY <1>1, <1>2, LayerIs DEF GoesDown, Operating, Locations, Stops

LEMMA SpawnGoesDown == ASSUME IInv, SpawnSidecar PROVE Quiet /\ GoesDown
<1>1. Quiet BY DEF SpawnSidecar, Elsewhere, Quiet
<1>2. \/ w.pc = "spawnCheck" /\ (Lands("spawn") \/ Lands("finish"))
      \/ w.pc = "spawn" /\ (Lands("spawned") \/ Lands("finish"))
      \/ w.pc = "spawned" /\ (Lands("adopt") \/ Lands("finish"))
      \/ w.pc = "adopt" /\ Lands("watch")
      \/ w.pc = "watch" /\ Lands("health")
  <2>1. CASE w.pc = "spawnCheck"
    BY <2>1, GotoLands, ReturnLands, ServicesLand
    DEF IInv, Types, SpawnSidecar, At, Locations, Operating, Stops, Hands, Without
  <2>2. CASE w.pc = "spawn"
    BY <2>2, GotoLands, ReturnLands, ServicesLand
    DEF IInv, Types, SpawnSidecar, At, Locations, Operating, Stops, Hands, Without
  <2>3. CASE w.pc = "spawned"
    BY <2>3, GotoLands, ReturnLands, ServicesLand
    DEF IInv, Types, SpawnSidecar, At, Locations, Operating, Stops, Hands, Without
  <2>4. CASE w.pc = "adopt"
    BY <2>4, GotoLands, ReturnLands, ServicesLand
    DEF IInv, Types, SpawnSidecar, At, Locations, Operating, Stops, Hands, Without
  <2>5. CASE w.pc = "watch"
    BY <2>5, GotoLands, ReturnLands, ServicesLand
    DEF IInv, Types, SpawnSidecar, At, Locations, Operating, Stops, Hands, Without
  <2>. QED BY <2>1, <2>2, <2>3, <2>4, <2>5 DEF SpawnSidecar, At
<1>. QED BY <1>1, <1>2, LayerIs DEF GoesDown, Operating, Locations, Stops

LEMMA WaitHealthyGoesDown == ASSUME IInv, WaitHealthy PROVE Quiet /\ GoesDown
<1>1. Quiet BY DEF WaitHealthy, Elsewhere, Quiet
<1>2. w.pc = "health" /\ (Lands("cancelled") \/ Lands("unhealthy") \/ Lands("healthy"))
  BY GotoLands
  DEF IInv, Types, WaitHealthy, At, Locations, Operating, Stops
<1>. QED BY <1>1, <1>2, LayerIs DEF GoesDown, Operating, Locations, Stops

LEMMA FinishSpawnGoesDown == ASSUME IInv, FinishSpawn PROVE Quiet /\ GoesDown
<1>1. Quiet BY DEF FinishSpawn, Elsewhere, Quiet
<1>2. \/ w.pc = "cancelled" /\ Lands("finish")
      \/ w.pc = "unhealthy" /\ Lands("finish")
      \/ w.pc = "healthy" /\ (Lands("publishReady") \/ Lands("cancelled"))
      \/ w.pc = "publishReady" /\ (Lands("navigate") \/ Lands("cancelled"))
      \/ w.pc = "navigate" /\ (Lands("navigateFailed") \/ Lands("finish"))
      \/ w.pc = "navigateFailed" /\ Lands("finish")
  <2>1. CASE w.pc = "cancelled"
    BY <2>1, GotoLands, ReturnLands, TakeLands
    DEF IInv, Types, FinishSpawn, At, Locations, Operating, Stops, PublishReady
  <2>2. CASE w.pc = "unhealthy"
    BY <2>2, GotoLands, ReturnLands, TakeLands
    DEF IInv, Types, FinishSpawn, At, Locations, Operating, Stops, PublishReady
  <2>3. CASE w.pc = "healthy"
    BY <2>3, GotoLands, ReturnLands, TakeLands
    DEF IInv, Types, FinishSpawn, At, Locations, Operating, Stops, PublishReady
  <2>4. CASE w.pc = "publishReady"
    BY <2>4, GotoLands, ReturnLands, TakeLands
    DEF IInv, Types, FinishSpawn, At, Locations, Operating, Stops, PublishReady
  <2>5. CASE w.pc = "navigate"
    BY <2>5, GotoLands, ReturnLands, TakeLands
    DEF IInv, Types, FinishSpawn, At, Locations, Operating, Stops, PublishReady
  <2>6. CASE w.pc = "navigateFailed"
    BY <2>6, GotoLands, ReturnLands, TakeLands
    DEF IInv, Types, FinishSpawn, At, Locations, Operating, Stops, PublishReady
  <2>. QED BY <2>1, <2>2, <2>3, <2>4, <2>5, <2>6 DEF FinishSpawn, At
<1>. QED BY <1>1, <1>2, LayerIs DEF GoesDown, Operating, Locations, Stops

\* What a step of an operation does to the distance and to the request.
LEMMA OperationNearer ==
  ASSUME IInv, GoesDown, UNCHANGED <<failed, queue, r>>
  PROVE  Distance' < Distance
<1>1. PICK pc \in Operating : Lands(pc) /\ Layer(pc) < Layer(w.pc)
  BY DEF GoesDown
<1>2. ~failed /\ w.pc \notin Stops /\ w.pc # "recover" /\ Aim = w.pc
  BY DEF GoesDown, Operating, IInv, Turns, Aim
<1>3. Len(queue) \in Nat BY DEF IInv, Types, TypeOK
<1>4. StopsLeft = 0 BY <1>2 DEF StopsLeft, Stops
<1>5. StopsLeft' \in 0..2 BY DEF StopsLeft
<1>6. Left' = Left /\ Left \in Nat BY DEF Left
<1>7. Distance = 10 + 64 * Len(queue) + 3 * Layer(w.pc) + 0 + Left
  <2>1. Ahead = 10 + 64 * Len(queue) + 3 * Layer(w.pc) + 0
    BY <1>2, <1>4 DEF Ahead
  <2>. QED BY <2>1 DEF Distance
<1>8. Distance' = 10 + 64 * Len(queue) + 3 * Layer(pc) + StopsLeft' + Left
  <2>1. Ahead' = 10 + 64 * Len(queue) + 3 * Layer(pc) + StopsLeft'
    BY <1>1, <1>2 DEF Ahead, Lands
  <2>. QED BY <1>6, <2>1 DEF Distance
<1>9. Layer(pc) \in Nat /\ Layer(w.pc) \in Nat /\ Layer(pc) < Layer(w.pc)
  BY <1>1, LayerBounds
<1>10. \A m, k, l, n \in Nat, i \in 0..2 : l < k =>
          10 + 64 * m + 3 * l + i + n < 10 + 64 * m + 3 * k + 0 + n
  OBVIOUS
<1>11. 10 + 64 * Len(queue) + 3 * Layer(pc) + StopsLeft' + Left
         < 10 + 64 * Len(queue) + 3 * Layer(w.pc) + 0 + Left
  BY <1>3, <1>5, <1>6, <1>9, <1>10
<1>. QED BY <1>7, <1>8, <1>11

LEMMA OperationKeepsExit ==
  ASSUME IInv, ExitInv, Quiet, GoesDown PROVE ExitInv'
<1>1. ~failed /\ Busy /\ w.pc # "recover"
  BY DEF GoesDown, Operating, IInv, Turns, Aim, Busy
<1>2. w'.kind = w.kind /\ Busy' BY DEF GoesDown, Lands
<1>3. Asked' = Asked BY DEF Asked, Quiet, lease
<1>. QED BY <1>1, <1>2, <1>3 DEF ExitInv, ExitStands, AskedOnce, Quiet, lease, Busy

\* The last operation.
LEMMA ShutdownGoesDown ==
  ASSUME IInv, RunShutdown
  PROVE  /\ GoesDown /\ UNCHANGED <<lease, failed, queue, r, exited>>
         /\ \/ shutdown' = shutdown
            \/ /\ shutdown' = [shutdown EXCEPT !.enqueued = FALSE, !.complete = TRUE]
<1>1. /\ UNCHANGED <<lease, failed, queue, r, exited>>
      /\ \/ shutdown' = shutdown
         \/ /\ shutdown' = [shutdown EXCEPT !.enqueued = FALSE, !.complete = TRUE]
  BY DEF RunShutdown
<1>2. \/ w.pc = "shutdownTake" /\ Lands("shutdownDone")
      \/ w.pc = "shutdownDone" /\ Lands("finish")
  BY ReturnLands, TakeLands
  DEF IInv, Types, RunShutdown, At, Locations, Operating, Stops
<1>. QED BY <1>1, <1>2, LayerIs DEF GoesDown, Operating, Locations, Stops

LEMMA ShutdownKeepsExit ==
  ASSUME IInv, ExitInv, RunShutdown PROVE ExitInv'
<1>1. ~failed /\ Busy /\ w.pc # "recover"
  BY ShutdownGoesDown DEF GoesDown, Operating, IInv, Turns, Aim, Busy
<1>2. w'.kind = w.kind /\ Busy' BY ShutdownGoesDown DEF GoesDown, Lands
<1>3. /\ Asked' = Asked /\ UNCHANGED <<desired, failed, exited, r>>
  BY ShutdownGoesDown DEF Asked, lease
<1>4. /\ shutdown'.gen = shutdown.gen /\ shutdown'.requested = shutdown.requested
      /\ shutdown'.recovering = shutdown.recovering
      /\ \/ shutdown'.complete
         \/ shutdown'.complete = shutdown.complete /\ shutdown'.enqueued = shutdown.enqueued
  BY ShutdownGoesDown DEF IInv, Types, TypeOK
<1>5. ExitStands'
  BY <1>1, <1>2, <1>3, <1>4 DEF ExitInv, ExitStands
<1>6. AskedOnce'
  BY <1>3, <1>4 DEF ExitInv, AskedOnce
<1>. QED BY <1>5, <1>6 DEF ExitInv

Counted == Ahead \in Nat /\ Left \in 1..5

LEMMA Counts ==
  ASSUME IInv PROVE Ahead \in Nat /\ Left \in 1..5
<1>1. Len(queue) \in Nat BY DEF IInv, Types, TypeOK
<1>2. StopsLeft \in 0..2 BY DEF StopsLeft
<1>3. Layer(Aim) \in 0..20 BY LayerBounds
<1>4. 64 * Len(queue) \in Nat BY <1>1
<1> DEFINE n == 64 * Len(queue)
           a == Layer(Aim)
<1>0. n \in Nat /\ a \in Nat BY <1>3, <1>4
<1> HIDE DEF n, a
<1>5. 10 + n + 3 * a + StopsLeft \in Nat
  BY <1>0, <1>2
<1>6. 1 + StopsLeft \in Nat BY <1>2
<1>7. Ahead \in {9, 0, 1 + StopsLeft, 10 + n + 3 * a + StopsLeft}
  BY DEF Ahead, n, a
<1>. QED BY <1>5, <1>6, <1>7 DEF Left

LEMMA CountsNext == IInv' => Counted'
<1>1. IInv => Counted BY Counts DEF Counted
<1>. QED BY <1>1, PTL

\* The sidecar or the manager in the worker's hands has been stopped.
LEMMA StopGoesDown ==
  ASSUME IInv, StopSidecar \/ StopManager
  PROVE  /\ Quiet /\ w.pc \in Stops /\ Busy'
         /\ w'.kind = w.kind /\ w'.flag = w.flag /\ Aim' = Aim
         /\ StopsLeft' < StopsLeft
         /\ w'.pc # "recover" /\ w'.pc # "broken"
<1>1. Quiet BY DEF StopSidecar, StopManager, Quiet, lease
<1>2. w \in Thread BY DEF IInv, Types, TypeOK, Thread
<1>3. CASE StopSidecar
  <2>1. /\ w.pc = "stopSidecar" /\ w.next \in Targets
        /\ w'.pc = (IF w.mgr # 0 THEN "stopManager" ELSE w.next)
        /\ w'.next = w.next /\ w'.kind = w.kind /\ w'.flag = w.flag
    BY <1>2, <1>3 DEF StopSidecar, At, IInv, Hands, Stops, Thread
  <2>. QED BY <1>1, <2>1 DEF Targets, Stops, Aim, StopsLeft, Busy
<1>4. CASE StopManager
  <2>1. /\ w.pc = "stopManager" /\ w.next \in Targets
        /\ w'.pc = w.next
        /\ w'.next = w.next /\ w'.kind = w.kind /\ w'.flag = w.flag
    BY <1>2, <1>4 DEF StopManager, At, IInv, Hands, Stops, Thread
  <2>. QED BY <1>1, <2>1 DEF Targets, Stops, Aim, StopsLeft, Busy
<1>. QED BY <1>3, <1>4

LEMMA Sums ==
  \A m, l, i, j \in Nat : j < i => m + j + l < m + i + l
OBVIOUS

LEMMA StopNearer ==
  ASSUME IInv, StopSidecar \/ StopManager PROVE Distance' < Distance
<1>1. /\ UNCHANGED <<failed, queue, r>> /\ w.pc \in Stops /\ Aim' = Aim
      /\ StopsLeft' < StopsLeft /\ w'.pc # "recover" /\ w'.pc # "broken"
  BY StopGoesDown DEF Quiet
<1>2. StopsLeft \in Nat /\ StopsLeft' \in Nat BY DEF StopsLeft
<1>6. StopsLeft' < StopsLeft BY <1>1
<1>7. Left \in Nat BY Counts
<1>3. w.pc # "recover" /\ w.pc # "broken" BY <1>1 DEF Stops
<1>0. Left' = Left BY <1>1 DEF Left
<1>4. CASE failed
  <2>1. Ahead = 1 + StopsLeft /\ Ahead' = 1 + StopsLeft'
    BY <1>1, <1>3, <1>4 DEF Ahead
  <2>2. Distance = 1 + StopsLeft + Left /\ Distance' = 1 + StopsLeft' + Left
    BY <1>0, <2>1 DEF Distance
  <2>3. 1 + StopsLeft' + Left < 1 + StopsLeft + Left BY <1>2, <1>6, <1>7, Sums
  <2>. QED BY <2>2, <2>3
<1>5. CASE ~failed
  <2> DEFINE n == 10 + 64 * Len(queue) + 3 * Layer(Aim)
  <2>1. n \in Nat
    <3>1. Len(queue) \in Nat BY DEF IInv, Types, TypeOK
    <3>2. Layer(Aim) \in Nat BY LayerBounds
    <3>. QED BY <3>1, <3>2
  <2>2. Ahead = n + StopsLeft /\ Ahead' = n + StopsLeft'
    BY <1>1, <1>3, <1>5 DEF Ahead
  <2>. HIDE DEF n
  <2>3. Distance = n + StopsLeft + Left /\ Distance' = n + StopsLeft' + Left
    BY <1>0, <2>2 DEF Distance
  <2>4. n + StopsLeft' + Left < n + StopsLeft + Left BY <1>2, <1>6, <1>7, <2>1, Sums
  <2>. QED BY <2>3, <2>4
<1>. QED BY <1>4, <1>5

LEMMA StopKeepsExit ==
  ASSUME IInv, ExitInv, StopSidecar \/ StopManager PROVE ExitInv'
<1>1. /\ UNCHANGED <<lease, failed, shutdown, queue, r, exited>> /\ w.pc # "recover"
      /\ Busy' /\ w'.kind = w.kind /\ w'.flag = w.flag
  BY StopGoesDown DEF Quiet, Stops
<1>2. Asked' = Asked BY <1>1 DEF Asked, lease
<1>. QED BY <1>1, <1>2 DEF ExitInv, ExitStands, AskedOnce, lease

\* An intent has been taken up, or dropped.
LEMMA ReceiveIs ==
  ASSUME IInv, Receive
  PROVE  /\ UNCHANGED <<desired, failed, shutdown, r, exited>>
         /\ w.pc = "idle" /\ ~exited /\ ~failed /\ active = 0
         /\ queue \in Seq(Intents) /\ queue # <<>> /\ queue' = Tail(queue)
         /\ Len(queue) \in Nat /\ Len(queue') \in Nat /\ Len(queue) = Len(queue') + 1
         /\ 1 \in 1..Len(queue) /\ Head(queue) = queue[1] /\ queue[1] \in Intents
         /\ \A i \in 1..Len(queue) : i # 1 =>
               i - 1 \in 1..Len(queue') /\ queue'[i - 1] = queue[i]
         /\ \/ w' = w /\ desired # queue[1].gen
            \/ /\ w' \in Thread /\ w'.kind = queue[1].kind
               /\ w'.pc \in {"initialize", "saveTake", "retryTake", "loginNavigate",
                             "updateNavigate", "terminated", "shutdownTake"}
<1>1. /\ UNCHANGED <<desired, failed, shutdown, r, exited>>
      /\ w.pc = "idle" /\ ~exited /\ queue # <<>> /\ queue' = Tail(queue)
  BY DEF Receive, At
<1>2. active = 0 /\ ~failed
  BY <1>1 DEF IInv, Turns, Aim, Stops
<1>3. queue \in Seq(Intents) BY DEF IInv, Types, TypeOK
<1>4. /\ 1 \in 1..Len(queue) /\ Head(queue) = queue[1] /\ queue[1] \in Intents
      /\ \A i \in 1..Len(queue) : i # 1 =>
            i - 1 \in 1..Len(queue') /\ queue'[i - 1] = queue[i]
  BY <1>1, <1>3, TakenUp
<1>5. Len(queue) \in Nat /\ Len(queue') \in Nat /\ Len(queue) = Len(queue') + 1
  BY <1>1, <1>3
<1>6. \/ w' = w /\ desired # queue[1].gen
      \/ /\ w' \in Thread /\ w'.kind = queue[1].kind
         /\ w'.pc \in {"initialize", "saveTake", "retryTake", "loginNavigate",
                       "updateNavigate", "terminated", "shutdownTake"}
  BY <1>2, <1>4, EntryMoves DEF IInv, Types, Receive, Begins
<1>. QED BY <1>1, <1>2, <1>3, <1>4, <1>5, <1>6

LEMMA ReceiveNearer == ASSUME IInv, Receive PROVE Distance' < Distance
<1>1. Left' = Left BY ReceiveIs DEF Left
<1>2. /\ w.pc = "idle" /\ ~failed /\ ~failed'
      /\ Len(queue) \in Nat /\ Len(queue') \in Nat /\ Len(queue) = Len(queue') + 1
  BY ReceiveIs
<1>3. /\ w'.pc \notin Stops /\ w'.pc # "recover"
      /\ Layer(Aim') \in 0..20 /\ StopsLeft' = 0
  <2>1. w'.pc \in {"idle", "initialize", "saveTake", "retryTake", "loginNavigate",
                   "updateNavigate", "terminated", "shutdownTake"}
    BY ReceiveIs
  <2>. QED BY <2>1, LayerBounds DEF Stops, StopsLeft
<1>4. Ahead = 10 + 64 * Len(queue) + 3 * 0 + 0
  BY <1>2, LayerIs DEF Ahead, Aim, Stops, StopsLeft
<1>5. Ahead' = 10 + 64 * Len(queue') + 3 * Layer(Aim') + 0
  BY <1>2, <1>3 DEF Ahead
<1>6. \A m, n \in Nat, k \in 0..20 :
         /\ n = m + 1 => 10 + 64 * m + 3 * k + 0 < 10 + 64 * n + 3 * 0 + 0
         /\ 10 + 64 * m + 3 * k + 0 \in Nat
  OBVIOUS
<1>7. Ahead' < Ahead BY <1>2, <1>3, <1>4, <1>5, <1>6
<1>8. Ahead' \in Nat BY <1>2, <1>3, <1>5, <1>6
<1>12. Ahead \in Nat /\ Left \in Nat BY Counts
<1>9. \A m, k, l \in Nat : l < k => l + m < k + m
  OBVIOUS
<1>10. Distance = Ahead + Left /\ Distance' = Ahead' + Left
  BY <1>1 DEF Distance
<1>11. Ahead' + Left < Ahead + Left BY <1>7, <1>8, <1>9, <1>12
<1>. QED BY <1>10, <1>11

\* The request at the head of the queue is of the newest generation, and no lease
\* is held: it begins.
LEMMA ReceiveKeepsExit == ASSUME IInv, ExitInv, Receive PROVE ExitInv'
<1>1. AskedOnce' BY ReceiveIs DEF ExitInv, AskedOnce
<1>2. ExitStands'
  <2>1. SUFFICES ASSUME shutdown.requested
                 PROVE  Asked' \/ (Busy' /\ w'.kind = "Shutdown")
    BY ReceiveIs DEF ExitStands
  <2>2. Asked BY <2>1, ReceiveIs DEF ExitInv, ExitStands, Busy
  <2>3. PICK i \in 1..Len(queue) : queue[i] = [kind |-> "Shutdown", gen |-> desired]
    BY <2>2 DEF Asked
  <2>4. CASE i = 1
    BY <2>3, <2>4, ReceiveIs DEF Busy
  <2>5. CASE i # 1
    BY <2>3, <2>5, ReceiveIs DEF Asked
  <2>. QED BY <2>4, <2>5
<1>. QED BY <1>1, <1>2 DEF ExitInv

\* The operation is over: after a shutdown the shell has exited.
LEMMA FinishIs ==
  ASSUME IInv, Finish
  PROVE  /\ UNCHANGED <<desired, failed, shutdown, queue, r>>
         /\ w.pc = "finish" /\ ~failed
         /\ \/ w.kind = "Shutdown" /\ exited'
            \/ w.kind # "Shutdown" /\ w'.pc = "idle" /\ exited' = exited
<1>1. /\ UNCHANGED <<desired, failed, shutdown, queue, r>> /\ w.pc = "finish"
  BY DEF Finish, At
<1>2. ~failed BY <1>1 DEF IInv, Turns, Aim, Stops
<1>3. \/ w.kind = "Shutdown" /\ exited'
      \/ w.kind # "Shutdown" /\ w' = Idle /\ exited' = exited
  BY DEF Finish
<1>. QED BY <1>1, <1>2, <1>3, IdleIs

LEMMA FinishNearer == ASSUME IInv, Finish PROVE exited' \/ Distance' < Distance
<1>1. SUFFICES ASSUME ~exited' PROVE Distance' < Distance
  OBVIOUS
<1>2. /\ UNCHANGED <<failed, queue, r>> /\ w.pc = "finish" /\ ~failed /\ w'.pc = "idle"
  BY <1>1, FinishIs
<1>3. Left' = Left BY <1>2 DEF Left
<1>4. Ahead = 10 + 64 * Len(queue) + 3 * 1 + 0
  BY <1>2, LayerIs DEF Ahead, Aim, Stops, StopsLeft
<1>5. Ahead' = 10 + 64 * Len(queue) + 3 * 0 + 0
  BY <1>2, LayerIs DEF Ahead, Aim, Stops, StopsLeft
<1>6. Len(queue) \in Nat BY DEF IInv, Types, TypeOK
<1>7. \A n, m \in Nat : 10 + 64 * n + 3 * 0 + 0 + m < 10 + 64 * n + 3 * 1 + 0 + m
  OBVIOUS
<1>8. Distance = 10 + 64 * Len(queue) + 3 * 1 + 0 + Left
  BY <1>4 DEF Distance
<1>9. Distance' = 10 + 64 * Len(queue) + 3 * 0 + 0 + Left
  BY <1>3, <1>5 DEF Distance
<1>10. Left \in Nat BY Counts
<1>. QED BY <1>6, <1>7, <1>8, <1>9, <1>10

LEMMA FinishKeepsExit == ASSUME IInv, ExitInv, Finish PROVE ExitInv'
<1>1. Asked' = Asked BY FinishIs DEF Asked
<1>. QED BY <1>1, FinishIs DEF ExitInv, ExitStands, AskedOnce

\* A panic costs the operation at work, and what the recovery does instead is
\* less than any operation has left.
LEMMA PanicIs ==
  ASSUME IInv, Panic
  PROVE  /\ UNCHANGED <<desired, failed, shutdown, queue, r, exited>>
         /\ ~failed /\ w'.pc = "recover"
<1>1. w \in Thread BY DEF IInv, Types, TypeOK, Thread
<1>. QED BY <1>1 DEF Panic, lease, Thread

LEMMA PanicNearer == ASSUME IInv, Panic PROVE Distance' <= Distance
<1>1. UNCHANGED <<failed, queue, r>> /\ ~failed /\ w'.pc = "recover"
  BY PanicIs
<1>2. Left' = Left /\ Left \in Nat BY <1>1, Counts DEF Left
<1>3. Distance' = 9 + Left BY <1>1, <1>2 DEF Distance, Ahead
<1>4. CASE w.pc = "recover"
  <2>1. Distance = 9 + Left BY <1>4 DEF Distance, Ahead
  <2>2. \A m \in Nat : 9 + m <= 9 + m OBVIOUS
  <2>. QED BY <1>2, <1>3, <2>1, <2>2
<1>5. CASE w.pc # "recover"
  <2>1. Ahead = 10 + 64 * Len(queue) + 3 * Layer(Aim) + StopsLeft
    BY <1>1, <1>5 DEF Ahead
  <2>2. /\ Len(queue) \in Nat /\ Layer(Aim) \in 0..20 /\ StopsLeft \in 0..2
    BY LayerBounds DEF IInv, Types, TypeOK, StopsLeft
  <2>3. \A m, n \in Nat, k \in 0..20, l \in 0..2 :
           9 + m <= 10 + 64 * n + 3 * k + l + m
    OBVIOUS
  <2>4. Distance = 10 + 64 * Len(queue) + 3 * Layer(Aim) + StopsLeft + Left
    BY <2>1 DEF Distance
  <2>. QED BY <1>2, <1>3, <2>2, <2>3, <2>4
<1>. QED BY <1>4, <1>5

LEMMA PanicKeepsExit == ASSUME IInv, ExitInv, Panic PROVE ExitInv'
BY PanicIs DEF ExitInv, ExitStands, AskedOnce

\* recover_worker_failure() has seen the request, or leaves it to the thread that
\* ExitRequested starts.
LEMMA RecoverIs ==
  ASSUME IInv, RecoverWorkerFailure
  PROVE  /\ UNCHANGED <<desired, queue, r>> /\ failed'
         /\ shutdown'.gen = shutdown.gen /\ shutdown'.requested = shutdown.requested
         /\ shutdown'.recovering = shutdown.recovering
         /\ \/ /\ w.pc = "recover" /\ w'.pc = "stopSidecar"
               /\ w'.flag = shutdown.requested
            \/ /\ w.pc = "recovered" /\ w'.pc = "broken" /\ failed
               /\ exited' = w.flag
<1>1. w \in Thread BY DEF IInv, Types, TypeOK, Thread
<1>2. UNCHANGED <<desired, queue, r>> BY DEF RecoverWorkerFailure
<1>3. CASE At("recover")
  <2>1. /\ failed' /\ shutdown' = [shutdown EXCEPT !.enqueued = FALSE]
        /\ w' = [w EXCEPT !.pc = "stopSidecar", !.child = sidecar, !.mgr = runtime,
                          !.next = "recovered", !.flag = shutdown.requested]
        /\ w.pc = "recover"
    BY <1>3 DEF RecoverWorkerFailure, At
  <2>2. w'.pc = "stopSidecar" /\ w'.flag = shutdown.requested
    BY <1>1, <2>1 DEF Thread
  <2>3. /\ shutdown'.gen = shutdown.gen /\ shutdown'.requested = shutdown.requested
        /\ shutdown'.recovering = shutdown.recovering
    BY <2>1 DEF IInv, Types, TypeOK
  <2>. QED BY <1>2, <2>1, <2>2, <2>3
<1>4. CASE At("recovered")
  <2>1. /\ w.pc = "recovered" /\ exited' = w.flag /\ failed' = failed
        /\ shutdown' = IF w.flag THEN [shutdown EXCEPT !.complete = TRUE] ELSE shutdown
        /\ w' = [Idle EXCEPT !.pc = "broken"]
    BY <1>4 DEF RecoverWorkerFailure, At
  <2>2. w'.pc = "broken" BY <2>1 DEF Idle
  <2>3. /\ shutdown'.gen = shutdown.gen /\ shutdown'.requested = shutdown.requested
        /\ shutdown'.recovering = shutdown.recovering
    BY <2>1 DEF IInv, Types, TypeOK
  <2>4. failed BY <2>1 DEF IInv, Turns, Aim, Stops
  <2>. QED BY <1>2, <2>1, <2>2, <2>3, <2>4
<1>. QED BY <1>3, <1>4 DEF RecoverWorkerFailure

LEMMA RecoverNearer == ASSUME IInv, RecoverWorkerFailure PROVE Distance' < Distance
<1>1. Left' = Left BY RecoverIs DEF Left
<1>2. Left \in Nat BY Counts
<1>3. CASE w.pc = "recover"
  <2>1. failed' /\ w'.pc = "stopSidecar" BY <1>3, RecoverIs
  <2>2. Ahead' = 1 + 2 /\ Ahead = 9 BY <1>3, <2>1 DEF Ahead, StopsLeft
  <2>3. Distance' = 1 + 2 + Left /\ Distance = 9 + Left BY <1>1, <2>2 DEF Distance
  <2>4. \A m \in Nat : 1 + 2 + m < 9 + m OBVIOUS
  <2>. QED BY <1>2, <2>3, <2>4
<1>4. CASE w.pc # "recover"
  <2>1. failed /\ failed' /\ w.pc = "recovered" /\ w'.pc = "broken" BY <1>4, RecoverIs
  <2>2. Ahead' = 0 /\ Ahead = 1 + 0 BY <2>1 DEF Ahead, StopsLeft
  <2>3. Distance' = 0 + Left /\ Distance = 1 + 0 + Left BY <1>1, <2>2 DEF Distance
  <2>4. \A m \in Nat : 0 + m < 1 + 0 + m OBVIOUS
  <2>. QED BY <1>2, <2>3, <2>4
<1>. QED BY <1>3, <1>4

LEMMA RecoverKeepsExit == ASSUME IInv, ExitInv, RecoverWorkerFailure PROVE ExitInv'
<1>1. AskedOnce' BY RecoverIs DEF ExitInv, AskedOnce
<1>2. CASE w.pc = "recover"
  BY <1>1, <1>2, RecoverIs DEF ExitInv, ExitStands, Busy
<1>3. CASE w.pc # "recover"
  <2>1. ~exited BY DEF RecoverWorkerFailure, At
  <2>. QED BY <1>1, <1>3, <2>1, RecoverIs DEF ExitInv, ExitStands
<1>. QED BY <1>2, <1>3

\* The recovery thread.
LEMMA ShutdownRecoveryIs ==
  ASSUME IInv, ShutdownRecovery
  PROVE  /\ UNCHANGED <<desired, failed, queue, w>> /\ failed
         /\ shutdown'.gen = shutdown.gen /\ shutdown'.requested = shutdown.requested
         /\ shutdown'.recovering = shutdown.recovering
         /\ r.pc # "none" /\ r'.pc # "none"
         /\ \/ exited'
            \/ r.pc = "take" /\ r'.pc = "stopSidecar"
            \/ r.pc = "stopSidecar" /\ r'.pc = "stopManager"
            \/ r.pc = "stopManager" /\ r'.pc = "exit"
<1>1. UNCHANGED <<desired, failed, queue, w>> BY DEF ShutdownRecovery, lease
<1>2. \/ r.pc = "take" /\ r' = [pc |-> "stopSidecar", child |-> sidecar, mgr |-> runtime]
      \/ r.pc = "stopSidecar" /\ r' = [r EXCEPT !.pc = "stopManager", !.child = 0]
      \/ r.pc = "stopManager" /\ r' = [r EXCEPT !.pc = "exit", !.mgr = 0]
      \/ r.pc = "exit" /\ r' = r /\ exited'
  BY DEF ShutdownRecovery
<1>3. \/ r.pc = "take" /\ r'.pc = "stopSidecar"
      \/ r.pc = "stopSidecar" /\ r'.pc = "stopManager"
      \/ r.pc = "stopManager" /\ r'.pc = "exit"
      \/ r.pc = "exit" /\ r'.pc = "exit" /\ exited'
  <2>1. r \in [pc : {"none", "take", "stopSidecar", "stopManager", "exit"},
               child : OrNone, mgr : OrNone]
    BY DEF IInv, Types, TypeOK
  <2>2. CASE r.pc = "take" /\ r' = [pc |-> "stopSidecar", child |-> sidecar,
                                   mgr |-> runtime]
    BY <2>2
  <2>3. CASE r.pc = "stopSidecar" /\ r' = [r EXCEPT !.pc = "stopManager", !.child = 0]
    BY <2>1, <2>3
  <2>4. CASE r.pc = "stopManager" /\ r' = [r EXCEPT !.pc = "exit", !.mgr = 0]
    BY <2>1, <2>4
  <2>5. CASE r.pc = "exit" /\ r' = r /\ exited'
    BY <2>5
  <2>. QED BY <1>2, <2>2, <2>3, <2>4, <2>5
<1>4. failed BY <1>3 DEF IInv, Turns
<1>5. shutdown' \in {shutdown, [shutdown EXCEPT !.complete = TRUE]}
  BY DEF ShutdownRecovery
<1>6. /\ shutdown'.gen = shutdown.gen /\ shutdown'.requested = shutdown.requested
      /\ shutdown'.recovering = shutdown.recovering
  BY <1>5 DEF IInv, Types, TypeOK
<1>. QED BY <1>1, <1>3, <1>4, <1>6

LEMMA ShutdownRecoveryNearer ==
  ASSUME IInv, ShutdownRecovery PROVE exited' \/ Distance' < Distance
<1>1. SUFFICES ASSUME ~exited' PROVE Distance' < Distance
  OBVIOUS
<1>2. UNCHANGED <<failed, queue, w>> BY ShutdownRecoveryIs
<1>3. Ahead' = Ahead BY <1>2 DEF Ahead, Aim, StopsLeft
<1>4. Ahead \in Nat BY Counts
<1>5. /\ Left \in Nat /\ Left' \in Nat /\ Left' < Left
  BY <1>1, ShutdownRecoveryIs DEF Left
<1>6. \A m, k, l \in Nat : l < k => m + l < m + k
  OBVIOUS
<1>7. Ahead + Left' < Ahead + Left BY <1>4, <1>5, <1>6
<1>8. Distance' = Ahead + Left' /\ Distance = Ahead + Left BY <1>3 DEF Distance
<1>. QED BY <1>7, <1>8

LEMMA ShutdownRecoveryKeepsExit ==
  ASSUME IInv, ExitInv, ShutdownRecovery PROVE ExitInv'
BY ShutdownRecoveryIs DEF ExitInv, ExitStands, AskedOnce

\* What comes from outside: a command, the end of a sidecar, the request itself.
Outside ==
    \/ QueueSaveSetup \/ QueueRetry \/ QueueEnterLoginSetup \/ QueueUpdateLogin
    \/ \E g \in Gens : SidecarDies(g) \/ QueueSidecarTerminated(g)

LEMMA OutsideIs ==
  ASSUME Outside
  PROVE  /\ UNCHANGED <<shutdown, failed, w, r, exited>>
         /\ shutdown.requested => UNCHANGED <<queue, desired>>
<1>1. CASE QueueSaveSetup BY <1>1 DEF QueueSaveSetup, Command, Accepting
<1>2. CASE QueueRetry BY <1>2 DEF QueueRetry, Command, Accepting
<1>3. CASE QueueEnterLoginSetup BY <1>3 DEF QueueEnterLoginSetup, Command, Accepting
<1>4. CASE QueueUpdateLogin BY <1>4 DEF QueueUpdateLogin, Command, Accepting
<1>5. ASSUME NEW g \in Gens, SidecarDies(g) \/ QueueSidecarTerminated(g)
      PROVE  /\ UNCHANGED <<shutdown, failed, w, r, exited>>
             /\ shutdown.requested => UNCHANGED <<queue, desired>>
  BY <1>5 DEF SidecarDies, QueueSidecarTerminated, Accepting, lease
<1>. QED BY <1>1, <1>2, <1>3, <1>4, <1>5 DEF Outside

LEMMA OutsideKeepsExit == ASSUME ExitInv, Outside PROVE ExitInv'
<1>1. CASE shutdown.requested
  <2>1. UNCHANGED <<shutdown, failed, w, r, exited, queue, desired>>
    BY <1>1, OutsideIs
  <2>2. Asked' = Asked BY <2>1 DEF Asked
  <2>. QED BY <2>1, <2>2 DEF ExitInv, ExitStands, AskedOnce, Busy
<1>2. CASE ~shutdown.requested
  BY <1>2, OutsideIs DEF ExitInv, ExitStands, AskedOnce
<1>. QED BY <1>1, <1>2

\* The first request takes the last generation and is queued; a request that
\* finds the worker gone starts the recovery thread, once.
LEMMA ExitRequestedIs ==
  ASSUME IInv, ExitInv, ExitRequested
  PROVE  /\ UNCHANGED <<failed, w>>
         /\ \/ exited' /\ UNCHANGED <<shutdown, desired, r>>
            \/ /\ failed /\ r.pc = "none" /\ r'.pc = "take"
               /\ shutdown'.requested /\ shutdown'.gen = shutdown.gen
               /\ shutdown'.recovering /\ UNCHANGED <<desired, queue>>
            \/ /\ ~failed /\ ~shutdown.requested
               /\ shutdown'.requested /\ shutdown'.gen = desired' /\ shutdown'.enqueued
               /\ shutdown'.recovering = shutdown.recovering
               /\ queue' = Append(queue, [kind |-> "Shutdown", gen |-> desired'])
               /\ desired' \in Gens /\ r' = r
<1>1. UNCHANGED <<failed, w>> BY DEF ExitRequested
<1>2. CASE shutdown.complete /\ exited' = TRUE /\ UNCHANGED <<shutdown, desired, queue, r>>
  BY <1>1, <1>2
<1>3. CASE /\ ~shutdown.complete /\ ~shutdown.enqueued /\ failed /\ ~shutdown.recovering
           /\ shutdown' = [shutdown EXCEPT !.requested = TRUE, !.recovering = TRUE]
           /\ r' = [r EXCEPT !.pc = "take"]
           /\ UNCHANGED <<desired, queue, exited>>
  <2>1. r.pc = "none" BY <1>3 DEF ExitInv, AskedOnce
  <2>2. r'.pc = "take" BY <1>3 DEF IInv, Types, TypeOK
  <2>3. shutdown'.requested /\ shutdown'.gen = shutdown.gen /\ shutdown'.recovering
    BY <1>3 DEF IInv, Types, TypeOK
  <2>. QED BY <1>1, <1>3, <2>1, <2>2, <2>3
<1>4. CASE /\ ~shutdown.complete /\ ~shutdown.enqueued /\ ~failed
           /\ IF shutdown.gen # 0 THEN desired' = desired ELSE RequestGeneration
           /\ LET g == IF shutdown.gen # 0 THEN shutdown.gen ELSE desired'
              IN  /\ shutdown' = [shutdown EXCEPT !.requested = TRUE, !.gen = g,
                                                  !.enqueued = TRUE]
                  /\ Submit("Shutdown", g)
           /\ UNCHANGED <<r, exited>>
  <2>1. ~shutdown.requested /\ shutdown.gen = 0
    BY <1>4 DEF ExitInv, AskedOnce
  <2>2. /\ desired' = desired + 1
        /\ shutdown' = [shutdown EXCEPT !.requested = TRUE, !.gen = desired',
                                        !.enqueued = TRUE]
        /\ queue' = Append(queue, [kind |-> "Shutdown", gen |-> desired'])
    BY <1>4, <2>1 DEF RequestGeneration, Submit
  <2>3. desired' \in Gens
    BY <2>1, <2>2, MaxGenAssumption DEF IInv, Types, TypeOK, Bounded, Gens, OrNone
  <2>4. /\ shutdown'.requested /\ shutdown'.gen = desired' /\ shutdown'.enqueued
        /\ shutdown'.recovering = shutdown.recovering
    BY <2>2 DEF IInv, Types, TypeOK
  <2>. QED BY <1>1, <1>4, <2>1, <2>2, <2>3, <2>4
<1>. QED BY <1>2, <1>3, <1>4 DEF ExitRequested

LEMMA ExitRequestedKeepsExit == ASSUME IInv, ExitInv, ExitRequested PROVE ExitInv'
<1>1. CASE exited' /\ UNCHANGED <<shutdown, desired, r>>
  BY <1>1, ExitRequestedIs DEF ExitInv, ExitStands, AskedOnce
<1>2. CASE /\ failed /\ r'.pc = "take" /\ shutdown'.requested
           /\ shutdown'.gen = shutdown.gen /\ shutdown'.recovering
           /\ UNCHANGED <<desired, queue>>
  BY <1>2, ExitRequestedIs DEF ExitInv, ExitStands, AskedOnce
<1>3. CASE /\ ~failed /\ ~shutdown.requested
           /\ shutdown'.requested /\ shutdown'.gen = desired' /\ shutdown'.enqueued
           /\ shutdown'.recovering = shutdown.recovering
           /\ queue' = Append(queue, [kind |-> "Shutdown", gen |-> desired'])
           /\ desired' \in Gens /\ r' = r
  <2> DEFINE x == [kind |-> "Shutdown", gen |-> desired']
  <2>1. x \in Intents BY <1>3 DEF Intents, Kinds
  <2>2. Len(queue) \in Nat /\ Len(queue') = Len(queue) + 1 /\ queue'[Len(queue) + 1] = x
    BY <1>3, <2>1, Appended DEF IInv, Types, TypeOK
  <2>3. Asked' BY <2>2 DEF Asked
  <2>4. ~failed' BY <1>3, ExitRequestedIs
  <2>. QED BY <1>3, <2>3, <2>4 DEF ExitInv, ExitStands, AskedOnce
<1>. QED BY <1>1, <1>2, <1>3, ExitRequestedIs

LEMMA WorkerNearer == ASSUME IInv, Worker PROVE exited' \/ Distance' < Distance
<1>1. ASSUME GoesDown, UNCHANGED <<failed, queue, r>> PROVE Distance' < Distance
  BY <1>1, OperationNearer
<1>2. CASE \/ RunInitialize \/ RunSaveSetup \/ RunEnterLoginSetup \/ RunRetry
           \/ RunUpdateLogin \/ RunSidecarTerminated \/ RunFullStart \/ SpawnSidecar
           \/ WaitHealthy \/ FinishSpawn
  <2>1. GoesDown /\ Quiet
    BY <1>2, InitializeGoesDown, SaveSetupGoesDown, EnterLoginSetupGoesDown,
       RetryGoesDown, UpdateLoginGoesDown, SidecarTerminatedGoesDown,
       FullStartGoesDown, SpawnGoesDown, WaitHealthyGoesDown, FinishSpawnGoesDown
  <2>. QED BY <1>1, <2>1 DEF Quiet
<1>3. CASE RunShutdown BY <1>1, <1>3, ShutdownGoesDown
<1>. QED
  BY <1>2, <1>3, ReceiveNearer, FinishNearer, StopNearer, RecoverNearer DEF Worker

LEMMA WorkerKeepsExit == ASSUME IInv, ExitInv, Worker PROVE ExitInv'
<1>1. CASE \/ RunInitialize \/ RunSaveSetup \/ RunEnterLoginSetup \/ RunRetry
           \/ RunUpdateLogin \/ RunSidecarTerminated \/ RunFullStart \/ SpawnSidecar
           \/ WaitHealthy \/ FinishSpawn
  <2>1. GoesDown /\ Quiet
    BY <1>1, InitializeGoesDown, SaveSetupGoesDown, EnterLoginSetupGoesDown,
       RetryGoesDown, UpdateLoginGoesDown, SidecarTerminatedGoesDown,
       FullStartGoesDown, SpawnGoesDown, WaitHealthyGoesDown, FinishSpawnGoesDown
  <2>. QED BY <2>1, OperationKeepsExit
<1>. QED
  BY <1>1, ShutdownKeepsExit, ReceiveKeepsExit, FinishKeepsExit, StopKeepsExit,
     RecoverKeepsExit DEF Worker

LEMMA UnchangedDistance ==
  ASSUME IInv, UNCHANGED <<failed, queue, w, r>> PROVE Distance' <= Distance
<1>1. Distance' = Distance BY DEF Distance, Ahead, Left, Aim, StopsLeft
<1>2. Ahead \in Nat /\ Left \in Nat BY Counts
<1>3. \A m, l \in Nat : m + l <= m + l OBVIOUS
<1>4. Ahead + Left <= Ahead + Left BY <1>2, <1>3
<1>5. Distance = Ahead + Left BY DEF Distance
<1>. QED BY <1>1, <1>4, <1>5

LEMMA NextNearer == ASSUME IInv, ExitInv, [Next]_vars PROVE Nearer
<1>1. SUFFICES ASSUME shutdown.requested, ~exited'
               PROVE  /\ Distance' <= Distance
                      /\ Worker \/ ShutdownRecovery => Distance' < Distance
  BY DEF Nearer
<1>2. Worker \/ ShutdownRecovery => Distance' < Distance
  BY <1>1, WorkerNearer, ShutdownRecoveryNearer
<1>3. ASSUME Distance' < Distance PROVE Distance' <= Distance
  <2>1. Ahead \in Nat /\ Left \in Nat BY Counts
  <2>2. Ahead' \in Nat /\ Left' \in Nat
    <3>1. IInv' BY NextKeeps
    <3>. QED BY <3>1, CountsNext DEF Counted
  <2>3. \A a, b, c, d \in Nat : a + b < c + d => a + b <= c + d OBVIOUS
  <2>4. Ahead' + Left' <= Ahead + Left
    BY <1>3, <2>1, <2>2, <2>3 DEF Distance
  <2>. QED BY <2>4 DEF Distance
<1>4. CASE Outside
  <2>1. UNCHANGED <<failed, queue, w, r>> BY <1>1, <1>4, OutsideIs
  <2>. QED BY <1>2, <2>1, UnchangedDistance
<1>5. CASE ExitRequested
  <2>1. UNCHANGED <<failed, w, queue>> /\ r.pc = "none" /\ r'.pc = "take"
    BY <1>1, <1>5, ExitRequestedIs
  <2>2. Ahead' = Ahead /\ Left = 5 /\ Left' = 4
    BY <2>1 DEF Ahead, Left, Aim, StopsLeft
  <2>3. Distance' = Ahead + 4 /\ Distance = Ahead + 5 BY <2>2 DEF Distance
  <2>4. \A m \in Nat : m + 4 <= m + 5 OBVIOUS
  <2>. QED BY <1>2, <2>3, <2>4, Counts
<1>6. CASE Panic BY <1>2, <1>6, PanicNearer
<1>7. CASE UNCHANGED vars
  BY <1>2, <1>7, UnchangedDistance DEF vars
<1>8. CASE Worker \/ ShutdownRecovery
  BY <1>2, <1>3, <1>8
<1>. QED BY <1>2, <1>4, <1>5, <1>6, <1>7, <1>8 DEF Next, Outside, Exited

LEMMA NextKeepsExit == ASSUME IInv, ExitInv, [Next]_vars PROVE ExitInv'
<1>1. CASE UNCHANGED vars
  <2>1. Asked' = Asked BY <1>1 DEF Asked, vars, lease
  <2>. QED BY <1>1, <2>1 DEF ExitInv, ExitStands, AskedOnce, Busy, vars, lease
<1>. QED
  BY <1>1, OutsideKeepsExit, ExitRequestedKeepsExit, WorkerKeepsExit, PanicKeepsExit,
     ShutdownRecoveryKeepsExit DEF Next, Outside, Exited

LEMMA ExitInvariant == Spec => []ExitInv
<1>1. Init => ExitInv
  BY DEF Init, ExitInv, ExitStands, AskedOnce
<1>2. IInv /\ ExitInv /\ [Next]_vars => ExitInv' BY NextKeepsExit
<1>. QED BY <1>1, <1>2, Invariant, PTL DEF Spec

\* A request to exit is never lost (desktop_backend.rs, the ExitRequested event
\* and recover_worker_failure): until the shell has exited, its intent is queued
\* under the newest generation, or the worker serves it, or a recovery that has
\* seen it is at work, or the recovery thread is.
THEOREM ExitNeverLost == Spec => []ExitStands
<1>1. ExitInv => ExitStands BY DEF ExitInv
<1>. QED BY <1>1, ExitInvariant, PTL

\* So there is always a thread of the shell that can take a step ...
THEOREM ExitNeverStuck == Spec => []ExitGoes
<1>1. IInv /\ ExitInv => ExitGoes
  <2>1. SUFFICES ASSUME IInv, ExitInv, shutdown.requested, ~exited
                 PROVE  WorkerGoes \/ RecoveryGoes
    BY DEF ExitGoes
  <2>2. CASE failed BY <2>1, <2>2 DEF ExitInv, ExitStands, WorkerGoes, RecoveryGoes
  <2>3. CASE ~failed
    <3>1. CASE Busy BY <3>1 DEF WorkerGoes
    <3>2. CASE ~Busy
      <4>1. Asked BY <2>1, <2>3, <3>2 DEF ExitInv, ExitStands, Busy
      <4>2. queue # <<>> BY <4>1 DEF Asked
      <4>3. w.pc = "idle" BY <2>1, <2>3, <3>2 DEF IInv, Turns, Busy
      <4>. QED BY <4>2, <4>3 DEF WorkerGoes
    <3>. QED BY <3>1, <3>2
  <2>. QED BY <2>2, <2>3
<1>. QED BY <1>1, ExitInvariant, Invariant, PTL

\* ... and every such step brings the exit nearer, by a natural number that
\* nothing raises again: no command, no end of a sidecar, no panic and no second
\* request.  What is left to the scheduler is to let the thread run.
THEOREM ExitComesNearer == Spec => [][Nearer]_vars
<1>1. IInv /\ ExitInv /\ [Next]_vars => [Nearer]_vars BY NextNearer
<1>. QED BY <1>1, ExitInvariant, Invariant, PTL DEF Spec
=============================================================================
