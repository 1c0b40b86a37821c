---------------------------- MODULE LocalRuntime ----------------------------
(***************************************************************************)
(* The local Runtime Manager of the desktop shell                          *)
(* (src-tauri/src/local_runtime: manager.rs, process_driver.rs,            *)
(* journal.rs, api.rs), for one runtime scope.                             *)
(*                                                                         *)
(* Requests run on threads of their own.  start, stop and reconcile hold   *)
(* the scope's file lock; status does not.  What a manager knows is kept   *)
(* three times: its map of active instances and its driver's maps, lost    *)
(* with it, and the journal file, which outlives it.  The processes        *)
(* outlive it too.                                                         *)
(*                                                                         *)
(* The shell closes its manager and opens another one, of the same data    *)
(* root, whenever it restarts its backend.  A close waits for the requests *)
(* under way, but not for ever: those that are left go on, with the maps   *)
(* of their own manager, beside the next one.                              *)
(*                                                                         *)
(* A runtime is named by the nonce its spawn gave it (with the start time, *)
(* the identity the code compares); a pid may be used again by any         *)
(* process once nobody holds it, also while the driver is at work on it.   *)
(* (The OS keeps the pid of a child nobody waits for until the shell ends; *)
(* the model may use it again sooner.)  The state field of a journal       *)
(* record is left out: nothing reads it.                                   *)
(***************************************************************************)
EXTENDS Naturals, Sequences, FiniteSets

CONSTANTS
    Managers,   \* LocalRuntimeManager objects, each with its driver
    Threads,    \* threads of the API servers
    Main,       \* the thread that starts and closes the servers
    Instances,  \* sandbox instance ids a request may carry
    AppOf,      \* the application of an instance
    Pids,
    MaxSpawns,  \* bound: runtimes spawned
    MaxFaults,  \* bound: failing calls and crashes
    NoThread, NoManager, Stranger

ASSUME LocalRuntimeAssumption ==
    /\ Main \notin Threads /\ NoThread \notin Threads \cup {Main}
    /\ NoManager \notin Managers
    /\ MaxSpawns \in Nat /\ MaxFaults \in Nat
    /\ IsFiniteSet(Threads) /\ Stranger \notin Nat

VARIABLES
    server,     \* down, booting, serving, draining, closing
    manager,    \* the manager of that server
    active,     \* of a manager: the map's entry of the scope, at most one status
    mutex,      \* of a manager: who keeps the map's mutex across steps
    journal,    \* the scope's journal file: a sequence of at most one record
    lock,       \* who holds the scope's file lock
    os,         \* what runs under each pid: 0, a nonce, or a stranger
    retained,   \* of a manager: driver.processes, the nonce of a pid's child, or 0
    recovered,  \* of a manager: driver.recovered_processes
    th,         \* the threads
    spawned,    \* the last nonce given
    faults,
    lost,       \* history: nonces the code itself let go of while they ran
    parted      \* history: this shell has closed a manager with requests under way

vars == <<server, manager, active, mutex, journal, lock, os, retained, recovered,
          th, spawned, faults, lost, parted>>
shell  == <<server, manager, parted>>
driver == <<os, retained, recovered, spawned>>

Workers  == Threads \cup {Main}
Nonces   == 1..MaxSpawns
OrNone   == 0..MaxSpawns
Records  == [inst : Instances, pid : Pids, nonce : Nonces]
Statuses == [inst : Instances, pid : Pids, ready : BOOLEAN]
AtMostOneOf(S) == {<<>>} \cup {<<x>> : x \in S}

\* The steps a thread can stand at; "todo" lists those that follow.
Steps == {"idle", "lock", "look", "judge", "clear", "rewrite", "stop",
          "stopping", "signal", "outlast", "unrecord", "disown", "orphan", "spawn",
          "record", "announce", "await", "ready", "publish", "check", "drop",
          "peek", "load", "verify", "statusClear", "statusRemove", "list",
          "recover", "done"}

\* held: the child a stop has taken out of the map.  was: history, what ran
\* under the pid of a recovered process when its stop began.
IdleThread == [pc |-> "idle", op |-> "status", mgr |-> NoManager, inst |-> <<>>,
               seen |-> <<>>, rec |-> <<>>, pid |-> <<>>, nonce |-> 0, held |-> 0,
               was |-> 0, todo |-> <<>>]

NoPids == [p \in Pids |-> 0]

TypeOK ==
    /\ server \in {"down", "booting", "serving", "draining", "closing"}
    /\ manager \in Managers \cup {NoManager}
    /\ active \in [Managers -> AtMostOneOf(Statuses)]
    /\ mutex \in [Managers -> Workers \cup {NoThread}]
    /\ lock \in Workers \cup {NoThread}
    /\ journal \in AtMostOneOf(Records)
    /\ os \in [Pids -> OrNone \cup {Stranger}]
    /\ retained \in [Managers -> [Pids -> OrNone]]
    /\ recovered \in [Managers -> [Pids -> OrNone]]
    /\ \A t \in Workers :
          /\ th[t].pc \in Steps
          /\ th[t].op \in {"start", "stop", "status", "reconcile"}
          /\ th[t].mgr \in Managers \cup {NoManager}
          /\ th[t].inst \in AtMostOneOf(Instances)
          /\ th[t].seen \in AtMostOneOf(Statuses)
          /\ th[t].rec \in AtMostOneOf(Records)
          /\ th[t].pid \in AtMostOneOf(Pids)
          /\ th[t].nonce \in OrNone /\ th[t].held \in OrNone
          /\ th[t].was \in OrNone \cup {Stranger}
          /\ th[t].todo \in Seq(Steps)
    /\ spawned \in OrNone /\ faults \in 0..MaxFaults
    /\ lost \subseteq Nonces /\ parted \in BOOLEAN

Init ==
    /\ server = "down" /\ manager = NoManager
    /\ active = [m \in Managers |-> <<>>] /\ mutex = [m \in Managers |-> NoThread]
    /\ journal = <<>> /\ lock = NoThread
    /\ os = NoPids
    /\ retained = [m \in Managers |-> NoPids]
    /\ recovered = [m \in Managers |-> NoPids]
    /\ th = [t \in Workers |-> IdleThread]
    /\ spawned = 0 /\ faults = 0 /\ lost = {} /\ parted = FALSE

-----------------------------------------------------------------------------
(***************************************************************************)
(* Threads.  An operation is a list of steps; a step that fails goes on to *)
(* the list the code's error path gives it.                                *)
(***************************************************************************)
At(t, pc) == th[t].pc = pc
Mine(t)   == th[t].mgr
Shown(t)  == active[Mine(t)]
Returning(t) == [IdleThread EXCEPT !.pc = "done", !.mgr = Mine(t)]
Follow(t, steps) ==
    th' = [th EXCEPT ![t] =
             IF Head(steps) = "done" THEN Returning(t)
             ELSE [@ EXCEPT !.pc = Head(steps), !.todo = Tail(steps),
                            !.held = 0, !.was = 0]]
Proceed(t) == Follow(t, th[t].todo)
Return(t)  == Follow(t, <<"done">>)

\* A bug: what follows a stop follows it also when it fails.
Failed_GoesOn(t) == Proceed(t)

\* An error ends the operation, but for one of the rollback of a start, whose
\* process has been spawned: what that answers is ignored.
RollsBack(t) == th[t].nonce # 0
Failed(t)    == IF RollsBack(t) THEN Proceed(t) ELSE Return(t)

\* A call of the file system or of the driver may fail, within the bound.
Fault == faults < MaxFaults /\ faults' = faults + 1

\* The map's mutex is taken and released inside one step ...
MapFree(t) == mutex[Mine(t)] \in {NoThread, t}

Named(rec)  == rec # <<>>
Runs(rec)   == Named(rec) /\ os[rec[1].pid] = rec[1].nonce
Matches(rec, status) ==
    /\ Named(rec)
    /\ rec[1].pid = status[1].pid /\ rec[1].inst = status[1].inst

\* driver.identity(): the nonce of a retained child that still runs, or 0; a
\* child found to have ended is reaped, which frees its pid.
Identity(m, p) ==
    IF retained[m][p] # 0 /\ os[p] = retained[m][p] THEN retained[m][p] ELSE 0
Reap(m, p) == [retained EXCEPT ![m][p] = Identity(m, p)]

\* The manager is dropped with the last of its threads.
LastOf(t)  == \A u \in Workers \ {t} : Mine(u) # Mine(t)
Forget(m) ==
    /\ active' = [active EXCEPT ![m] = <<>>]
    /\ retained' = [retained EXCEPT ![m] = NoPids]
    /\ recovered' = [recovered EXCEPT ![m] = NoPids]

\* Everybody lets go of the lock and of the mutex when he returns.
Done(t) ==
    /\ At(t, "done")
    /\ th' = [th EXCEPT ![t] = IdleThread]
    /\ lock' = IF lock = t THEN NoThread ELSE lock
    /\ mutex' = [m \in Managers |-> IF mutex[m] = t THEN NoThread ELSE mutex[m]]
    /\ \/ t # Main /\ UNCHANGED <<server, manager, faults>>
       \/ t = Main /\ server = "booting" /\ server' = "serving"
          /\ UNCHANGED <<manager, faults>>
       \/ t = Main /\ server = "booting" /\ server' = "down"
          /\ manager' = NoManager /\ Fault
       \/ t = Main /\ server = "closing" /\ server' = "draining"
          /\ UNCHANGED <<manager, faults>>
       \/ t = Main /\ server = "closing" /\ server' = "down"
          /\ manager' = NoManager /\ UNCHANGED faults
    /\ IF manager' # Mine(t) /\ LastOf(t) THEN Forget(Mine(t))
       ELSE UNCHANGED <<active, retained, recovered>>
    /\ UNCHANGED <<journal, os, spawned, lost, parted>>

\* A bug: the scope's lock keeps nobody out.
Acquire_Shared(t) ==
    /\ At(t, "lock")
    /\ lock' = t
    /\ Proceed(t)
    /\ UNCHANGED <<shell, active, mutex, journal, driver, faults, lost>>

Acquire(t) ==
    /\ At(t, "lock")
    /\ lock = NoThread
    /\ lock' = t
    /\ Proceed(t)
    /\ UNCHANGED <<shell, active, mutex, journal, driver, faults, lost>>

\* clear_status(): only the entry of the instance that was seen.
ClearEntry(m, inst) ==
    active' = IF active[m] # <<>> /\ <<active[m][1].inst>> = inst
              THEN [active EXCEPT ![m] = <<>>] ELSE active

\* The journal's runtime runs and is not a child of this manager, which may be
\* so once a manager was closed before its requests were over.
OfAnother(t) ==
    /\ parted /\ Runs(journal)
    /\ retained[Mine(t)][journal[1].pid] # journal[1].nonce

\* journal.remove() after a stop, or of a record that no longer counts.
Unrecord(t) ==
    /\ At(t, "unrecord")
    /\ \/ /\ journal' = <<>>
          /\ lost' = IF Runs(journal) /\ (RollsBack(t) \/ OfAnother(t))
                     THEN lost \cup {journal[1].nonce} ELSE lost
          /\ Proceed(t) /\ UNCHANGED faults
       \/ Fault /\ Failed(t) /\ UNCHANGED <<journal, lost>>
    /\ UNCHANGED <<shell, active, mutex, lock, driver>>

\* The same for a process that runs, but was not recognised.
Disown(t) ==
    /\ At(t, "disown")
    /\ \/ /\ journal' = <<>>
          /\ lost' = IF Runs(journal) THEN lost \cup {journal[1].nonce} ELSE lost
          /\ Proceed(t) /\ UNCHANGED faults
       \/ Fault /\ Return(t) /\ UNCHANGED <<journal, lost>>
    /\ UNCHANGED <<shell, active, mutex, lock, driver>>

\* The Stopping record: the one that was loaded, whatever the file holds now.
Rewrite(t) ==
    /\ At(t, "rewrite")
    /\ \/ journal' = th[t].rec /\ Proceed(t) /\ UNCHANGED faults
       \/ Fault /\ Return(t) /\ UNCHANGED journal
    /\ UNCHANGED <<shell, active, mutex, lock, driver, lost>>

-----------------------------------------------------------------------------
(***************************************************************************)
(* driver.stop()                                                           *)
(***************************************************************************)

\* What a failed stop lets go of: the process of a start that has no record.
LetGo(t) ==
    lost' = IF /\ RollsBack(t) /\ os[th[t].pid[1]] = th[t].nonce
               /\ ~(Named(journal) /\ journal[1].nonce = th[t].nonce)
            THEN lost \cup {th[t].nonce} ELSE lost
StopFails(t) == Failed(t) /\ LetGo(t)

\* A retained child leaves the map while it is killed, and comes back if its
\* end is not confirmed in time.  Its pid is its own until it is waited for.
StopChild(t) ==
    LET p == th[t].pid[1]
        m == Mine(t)
    IN  \/ /\ At(t, "stop") /\ retained[m][p] # 0
           /\ th' = [th EXCEPT ![t].pc = "stopping", ![t].held = retained[m][p]]
           /\ retained' = [retained EXCEPT ![m][p] = 0]
           /\ UNCHANGED <<os, recovered, faults, lost>>
        \/ /\ At(t, "stopping")
           /\ os' = [os EXCEPT ![p] = IF @ = th[t].held THEN 0 ELSE @]
           /\ Proceed(t)
           /\ UNCHANGED <<retained, recovered, faults, lost>>
        \/ /\ At(t, "stopping")
           /\ os[p] = th[t].held /\ Fault
           /\ retained' = [retained EXCEPT ![m][p] = th[t].held]
           /\ StopFails(t)
           /\ UNCHANGED <<os, recovered>>

\* A bug: a recovered process is signalled without another look.
LookAgain_Blind(t) ==
    LET p == th[t].pid[1]
        m == Mine(t)
    IN  /\ At(t, "stop") /\ retained[m][p] = 0
        /\ recovered' = [recovered EXCEPT ![m][p] = 0]
        /\ \/ /\ recovered[m][p] # 0
              /\ th' = [th EXCEPT ![t].pc = "signal", ![t].was = os[p]]
              /\ UNCHANGED <<faults, lost>>
           \/ recovered[m][p] = 0 /\ StopFails(t) /\ UNCHANGED faults

\* Any other process must have been recovered, and is looked at once more.
LookAgain(t) ==
    LET p == th[t].pid[1]
        m == Mine(t)
        itself == recovered[m][p] # 0 /\ os[p] = recovered[m][p]
    IN  /\ At(t, "stop") /\ retained[m][p] = 0
        /\ recovered' = [recovered EXCEPT ![m][p] = 0]
        /\ \/ /\ itself
              /\ th' = [th EXCEPT ![t].pc = "signal", ![t].was = os[p]]
              /\ UNCHANGED <<faults, lost>>
           \/ itself /\ Fault /\ StopFails(t)
           \/ ~itself /\ StopFails(t) /\ UNCHANGED faults

\* From here on it is a bare pid: SIGTERM, then, if something still has it five
\* seconds later, SIGKILL.  A signal may be refused.  (On Windows the process
\* is ended through the handle it was looked at with; nothing comes between.)
Signal(t) ==
    LET p == th[t].pid[1]
    IN  \/ /\ At(t, "signal")
           /\ os' \in {os, [os EXCEPT ![p] = 0]}
           /\ th' = [th EXCEPT ![t].pc = "outlast"]
           /\ UNCHANGED <<faults, lost>>
        \/ /\ At(t, "outlast")
           /\ os' = [os EXCEPT ![p] = 0]
           /\ Proceed(t)
           /\ UNCHANGED <<faults, lost>>
        \/ /\ At(t, "signal") \/ At(t, "outlast")
           /\ Fault /\ os[p] # 0
           /\ os' \in {os, [os EXCEPT ![p] = 0]}
           /\ StopFails(t)

Stop(t) ==
    /\ \/ StopChild(t)
       \/ LookAgain(t) /\ UNCHANGED <<os, retained>>
       \/ Signal(t) /\ UNCHANGED <<retained, recovered>>
    /\ UNCHANGED <<shell, active, mutex, journal, lock, spawned>>

-----------------------------------------------------------------------------
(***************************************************************************)
(* LocalRuntimeManager::start                                              *)
(***************************************************************************)

\* The bound on spawns is kept here, so that no start waits for it.
Start(t, i) ==
    /\ server = "serving" /\ At(t, "idle") /\ t \in Threads
    /\ spawned + Cardinality({u \in Threads : th[u].op = "start"
                                               /\ th[u].nonce = 0}) < MaxSpawns
    /\ th' = [th EXCEPT ![t].pc = "lock", ![t].op = "start", ![t].mgr = manager,
                        ![t].inst = <<i>>, ![t].todo = <<"look">>]
    /\ UNCHANGED <<shell, active, mutex, journal, lock, driver, faults, lost>>

Look(t) ==
    /\ At(t, "look")
    /\ MapFree(t)
    /\ th' = [th EXCEPT ![t].seen = Shown(t),
                        ![t].pc = IF Shown(t) = <<>> THEN "orphan" ELSE "judge"]
    /\ UNCHANGED <<shell, active, mutex, journal, lock, driver, faults, lost>>

\* What to do with the instance the map shows: hand it back, forget it, replace
\* it, or refuse.
Judge(t) ==
    /\ At(t, "judge")
    /\ LET status     == th[t].seen[1]
           identity   == Identity(Mine(t), status.pid)
           ownsRecord == Matches(journal, th[t].seen)
           ownsProcess == Named(journal) /\ identity = journal[1].nonce
           same       == <<status.inst>> = th[t].inst
           sameApp    == AppOf[status.inst] = AppOf[th[t].inst[1]]
           plan       ==
             CASE same /\ ownsRecord /\ ownsProcess -> <<"done">>
               [] same /\ ~(ownsRecord /\ ownsProcess) ->
                    <<"clear", "unrecord", "orphan">>
               [] ~same /\ sameApp /\ ownsRecord /\ ownsProcess ->
                    <<"rewrite", "stop", "unrecord", "clear", "orphan">>
               [] ~same /\ sameApp /\ ownsRecord /\ ~ownsProcess /\ identity = 0 ->
                    <<"unrecord", "clear", "orphan">>
               [] OTHER -> <<"done">>
       IN  \/ /\ retained' = Reap(Mine(t), status.pid)
              /\ th' = [th EXCEPT ![t].rec = journal, ![t].pid = <<status.pid>>,
                                  ![t].pc = Head(plan), ![t].todo = Tail(plan)]
              /\ UNCHANGED faults
           \/ Fault /\ Return(t) /\ UNCHANGED retained
    /\ UNCHANGED <<shell, active, mutex, journal, lock, os, recovered, spawned,
                   lost>>

\* Before the spawn the entry that was seen, after it the request's own.
Clear(t) ==
    /\ At(t, "clear")
    /\ MapFree(t)
    /\ ClearEntry(Mine(t), IF th[t].nonce = 0 THEN <<th[t].seen[1].inst>> ELSE th[t].inst)
    /\ Proceed(t)
    /\ UNCHANGED <<shell, mutex, journal, lock, driver, faults, lost>>

\* driver.recover_identity() of a record, and what follows: a process that is
\* recognised is stopped, any other leaves only the record to remove.  A child
\* of this manager is recognised as such; another process by its start time and
\* its executable, which is not the one expected if the appliance was moved or
\* replaced since (and on other systems than the three supported never is).
RecoverThen(t, rec, after) ==
    LET p == rec[1].pid
        m == Mine(t)
    IN  /\ retained' = Reap(m, p)
        /\ \/ /\ Fault /\ Return(t) /\ UNCHANGED recovered
           \/ /\ Runs(rec)
              /\ recovered' = IF Identity(m, p) # 0 THEN recovered
                              ELSE [recovered EXCEPT ![m][p] = rec[1].nonce]
              /\ th' = [th EXCEPT ![t].rec = rec, ![t].pid = <<p>>, ![t].pc = "stop",
                                  ![t].todo = <<"unrecord", after>>]
              /\ UNCHANGED faults
           \/ /\ Runs(rec) /\ Identity(m, p) = 0 /\ Fault
              /\ Follow(t, <<"disown", after>>)
              /\ UNCHANGED recovered
           \/ /\ ~Runs(rec)
              /\ Follow(t, <<"unrecord", after>>)
              /\ UNCHANGED <<recovered, faults>>

\* A bug: the record of an earlier shell is overwritten by the next start.
Orphan_Ignored(t) ==
    /\ At(t, "orphan")
    /\ Follow(t, <<"spawn">>)
    /\ UNCHANGED <<shell, active, mutex, journal, lock, driver, faults, lost>>

\* A record without an entry in the map is a runtime of an earlier shell.
Orphan(t) ==
    /\ At(t, "orphan")
    /\ IF Named(journal) THEN RecoverThen(t, journal, "spawn")
       ELSE Follow(t, <<"spawn">>) /\ UNCHANGED <<retained, recovered, faults>>
    /\ UNCHANGED <<shell, active, mutex, journal, lock, os, spawned, lost>>

\* A pid is free when nothing runs under it and no unreaped child keeps it.
Free(p) ==
    /\ os[p] = 0 /\ \A m \in Managers : retained[m][p] = 0
    /\ \A u \in Workers : th[u].pid = <<p>> => th[u].held = 0

Rollback == <<"clear", "stop", "unrecord", "done">>

Spawn(t) ==
    /\ At(t, "spawn")
    /\ \/ /\ \/ Fault
             \/ (\A p \in Pids : ~Free(p)) /\ UNCHANGED faults
          /\ Return(t)
          /\ UNCHANGED <<os, retained, spawned>>
       \/ /\ spawned' = spawned + 1
          /\ \E p \in Pids :
                /\ Free(p)
                /\ os' = [os EXCEPT ![p] = spawned']
                /\ retained' = [retained EXCEPT ![Mine(t)][p] = spawned']
                /\ th' = [th EXCEPT
                     ![t].pid = <<p>>, ![t].nonce = spawned',
                     ![t].rec = <<[inst |-> th[t].inst[1], pid |-> p,
                                   nonce |-> spawned']>>,
                     ![t].pc = "record",
                     ![t].todo = <<"announce", "await", "ready", "publish", "done">>]
          /\ UNCHANGED faults
    /\ UNCHANGED <<shell, active, mutex, journal, lock, recovered, lost>>

\* journal.write() of the new record, Starting and later Ready.
WriteOr(t, from, failure) ==
    /\ At(t, from)
    /\ \/ journal' = th[t].rec /\ Proceed(t) /\ UNCHANGED faults
       \/ Fault /\ Follow(t, failure) /\ UNCHANGED journal
    /\ UNCHANGED <<shell, active, mutex, lock, driver, lost>>

Record(t) ==
    \/ WriteOr(t, "record", <<"stop", "done">>)
    \/ WriteOr(t, "ready", Rollback)

\* A bug: the map keeps the entry of the generation before.
PublishEntry_Beside(t, from, isReady) ==
    /\ At(t, from)
    /\ MapFree(t)
    /\ active' = [active EXCEPT ![Mine(t)] =
                     Append(@, [inst |-> th[t].inst[1], pid |-> th[t].pid[1],
                                ready |-> isReady])]
    /\ Proceed(t)
    /\ UNCHANGED <<shell, mutex, journal, lock, driver, faults, lost>>

PublishEntry(t, from, isReady) ==
    /\ At(t, from)
    /\ MapFree(t)
    /\ active' = [active EXCEPT ![Mine(t)] =
                     <<[inst |-> th[t].inst[1], pid |-> th[t].pid[1],
                        ready |-> isReady]>>]
    /\ Proceed(t)
    /\ UNCHANGED <<shell, mutex, journal, lock, driver, faults, lost>>

Publish(t) == PublishEntry(t, "announce", FALSE) \/ PublishEntry(t, "publish", TRUE)

\* wait_ready(): the process answers, or has ended, or the deadline passes.
Await(t) ==
    /\ At(t, "await")
    /\ LET runs == os[th[t].pid[1]] = th[t].nonce
       IN  \/ runs /\ Proceed(t) /\ UNCHANGED faults
           \/ runs /\ Fault /\ Follow(t, Rollback)
           \/ ~runs /\ Follow(t, Rollback) /\ UNCHANGED faults
    /\ UNCHANGED <<shell, active, mutex, journal, lock, driver, lost>>

-----------------------------------------------------------------------------
(***************************************************************************)
(* LocalRuntimeManager::stop, which keeps the map's mutex throughout, and  *)
(* ::status, which takes no scope lock.                                    *)
(***************************************************************************)
RequestStop(t, i) ==
    /\ server = "serving" /\ At(t, "idle") /\ t \in Threads
    /\ th' = [th EXCEPT ![t].pc = "lock", ![t].op = "stop", ![t].mgr = manager,
                        ![t].inst = <<i>>, ![t].todo = <<"check">>]
    /\ UNCHANGED <<shell, active, mutex, journal, lock, driver, faults, lost>>

Check(t) ==
    /\ At(t, "check")
    /\ MapFree(t)
    /\ mutex' = [mutex EXCEPT ![Mine(t)] = t]
    /\ IF Shown(t) # <<>> /\ <<Shown(t)[1].inst>> = th[t].inst
          /\ Matches(journal, Shown(t))
       THEN /\ retained' = Reap(Mine(t), journal[1].pid)
            /\ IF Identity(Mine(t), journal[1].pid) = journal[1].nonce
               THEN th' = [th EXCEPT
                       ![t].rec = journal, ![t].pid = <<journal[1].pid>>,
                       ![t].pc = "rewrite",
                       ![t].todo = <<"stop", "unrecord", "drop", "done">>]
               ELSE Return(t)
       ELSE Return(t) /\ UNCHANGED retained
    /\ UNCHANGED <<shell, active, journal, lock, os, recovered, spawned, faults,
                   lost>>

Drop(t) ==
    /\ At(t, "drop")
    /\ active' = [active EXCEPT ![Mine(t)] = <<>>]
    /\ Proceed(t)
    /\ UNCHANGED <<shell, mutex, journal, lock, driver, faults, lost>>

RequestStatus(t) ==
    /\ server = "serving" /\ At(t, "idle") /\ t \in Threads
    /\ th' = [th EXCEPT ![t].pc = "peek", ![t].op = "status", ![t].mgr = manager]
    /\ UNCHANGED <<shell, active, mutex, journal, lock, driver, faults, lost>>

Peek(t) ==
    /\ At(t, "peek")
    /\ MapFree(t)
    /\ IF Shown(t) # <<>> /\ Shown(t)[1].ready
       THEN th' = [th EXCEPT ![t].seen = Shown(t), ![t].pc = "load"]
       ELSE Return(t)
    /\ UNCHANGED <<shell, active, mutex, journal, lock, driver, faults, lost>>

Load(t) ==
    /\ At(t, "load")
    /\ th' = [th EXCEPT ![t].rec = journal, ![t].pc = "verify"]
    /\ UNCHANGED <<shell, active, mutex, journal, lock, driver, faults, lost>>

Verify(t) ==
    /\ At(t, "verify")
    /\ LET p == th[t].seen[1].pid
           good == /\ Matches(th[t].rec, th[t].seen)
                   /\ Identity(Mine(t), p) = th[t].rec[1].nonce
       IN  /\ retained' = IF Named(th[t].rec) THEN Reap(Mine(t), p) ELSE retained
           /\ Follow(t, IF good THEN <<"done">> ELSE <<"statusClear">>)
    /\ UNCHANGED <<shell, active, mutex, journal, lock, os, recovered, spawned,
                   faults, lost>>

\* The entry and the record are those of now, not those that were looked at;
\* the record is removed if the one looked at matched.
StatusClear(t) ==
    /\ At(t, "statusClear")
    /\ MapFree(t)
    /\ ClearEntry(Mine(t), <<th[t].seen[1].inst>>)
    /\ Follow(t, IF Matches(th[t].rec, th[t].seen)
                 THEN <<"statusRemove">> ELSE <<"done">>)
    /\ UNCHANGED <<shell, mutex, journal, lock, driver, faults, lost>>

StatusRemove(t) ==
    /\ At(t, "statusRemove")
    /\ \/ /\ journal' = <<>>
          /\ lost' = IF Runs(journal) THEN lost \cup {journal[1].nonce} ELSE lost
          /\ UNCHANGED faults
       \/ Fault /\ UNCHANGED <<journal, lost>>
    /\ Return(t)
    /\ UNCHANGED <<shell, active, mutex, lock, driver>>

-----------------------------------------------------------------------------
(***************************************************************************)
(* The server: reconcile before it serves, and again when it is closed and *)
(* its requests have drained; it is closed twice when it is shut down and  *)
(* then dropped.  A drain that takes too long is given up: the shell goes  *)
(* on without that manager, whose requests are not over.                   *)
(***************************************************************************)
StartReconcile(m) == [th EXCEPT ![Main].pc = "list", ![Main].op = "reconcile",
                                ![Main].mgr = m]

Boot ==
    /\ server = "down" /\ server' = "booting"
    /\ \E m \in Managers :
          /\ \A t \in Workers : Mine(t) # m
          /\ manager' = m /\ th' = StartReconcile(m)
    /\ UNCHANGED <<active, mutex, journal, lock, driver, faults, lost, parted>>

Close ==
    /\ server = "serving" /\ server' = "draining"
    /\ UNCHANGED <<manager, active, mutex, journal, lock, driver, th, faults, lost,
                   parted>>

UnderWay == \E t \in Threads : Mine(t) = manager

Drained ==
    /\ server = "draining" /\ ~UnderWay
    /\ server' = "closing"
    /\ th' = StartReconcile(manager)
    /\ UNCHANGED <<manager, active, mutex, journal, lock, driver, faults, lost,
                   parted>>

DrainTimesOut ==
    /\ server = "draining" /\ UnderWay /\ Fault
    /\ server' = "down" /\ manager' = NoManager /\ parted' = TRUE
    /\ UNCHANGED <<active, mutex, journal, lock, driver, th, lost>>

\* The records are listed before the scope's lock is taken.
Reconcile ==
    \/ /\ At(Main, "list")
       /\ th' = [th EXCEPT ![Main].rec = journal,
                           ![Main].pc = IF Named(journal) THEN "lock" ELSE "done",
                           ![Main].todo = <<"recover">>]
       /\ UNCHANGED <<shell, active, mutex, journal, lock, driver, faults, lost>>
    \/ /\ At(Main, "recover")
       /\ RecoverThen(Main, th[Main].rec, "done")
       /\ UNCHANGED <<shell, active, mutex, journal, lock, os, spawned, lost>>

Crash ==
    /\ server # "down" \/ \E t \in Threads : ~At(t, "idle")
    /\ Fault
    /\ server' = "down" /\ manager' = NoManager /\ parted' = FALSE
    /\ active' = [m \in Managers |-> <<>>]
    /\ mutex' = [m \in Managers |-> NoThread] /\ lock' = NoThread
    /\ retained' = [m \in Managers |-> NoPids]
    /\ recovered' = [m \in Managers |-> NoPids]
    /\ th' = [t \in Workers |-> IdleThread]
    /\ lost' = lost \cup {os[p] : p \in {q \in Pids :
                  os[q] \in Nonces /\ ~(Runs(journal) /\ journal[1].pid = q)}}
    /\ UNCHANGED <<journal, os, spawned>>

RuntimeExits(p) ==
    /\ os[p] \in Nonces
    /\ os' = [os EXCEPT ![p] = 0]
    /\ UNCHANGED <<shell, active, mutex, journal, lock, retained, recovered, th,
                   spawned, faults, lost>>

StrangerComesOrGoes(p) ==
    /\ \/ Free(p) /\ os' = [os EXCEPT ![p] = Stranger]
       \/ os[p] = Stranger /\ os' = [os EXCEPT ![p] = 0]
    /\ UNCHANGED <<shell, active, mutex, journal, lock, retained, recovered, th,
                   spawned, faults, lost>>

Work(t) ==
    \/ Acquire(t) \/ Look(t) \/ Judge(t) \/ Clear(t) \/ Rewrite(t) \/ Stop(t)
    \/ Unrecord(t) \/ Orphan(t) \/ Spawn(t) \/ Record(t) \/ Publish(t)
    \/ Await(t) \/ Disown(t) \/ Check(t) \/ Drop(t)
    \/ Peek(t) \/ Load(t) \/ Verify(t) \/ StatusClear(t) \/ StatusRemove(t)
    \/ Done(t)

Next ==
    \/ \E t \in Threads : RequestStatus(t)
    \/ \E t \in Threads, i \in Instances : Start(t, i) \/ RequestStop(t, i)
    \/ \E t \in Workers : Work(t)
    \/ Reconcile
    \/ Boot \/ Close \/ Drained \/ DrainTimesOut \/ Crash
    \/ \E p \in Pids : RuntimeExits(p) \/ StrangerComesOrGoes(p)

Spec == Init /\ [][Next]_vars

-----------------------------------------------------------------------------
(***************************************************************************)
(* Properties.                                                             *)
(***************************************************************************)

\* The process was spawned and its record is not written yet, or the start is
\* being rolled back.
InHand(n) ==
    \E t \in Threads :
        /\ th[t].nonce = n
        /\ th[t].pc \in {"record", "stop", "stopping", "signal", "outlast"}

\* A runtime that runs is named by the journal, so that the next start, stop or
\* reconcile finds it, or a start has it in hand, or it is one the code has let
\* go of.  It does so in these places only: the rollback of a start whose stop
\* failed; a status that removes the record of a process that runs; a crash
\* before the record; the recovery of a record whose process runs but is not
\* recognised, for it has another executable now (Disown); and, once a drain
\* was given up, a thread of one manager that removes the record of a runtime
\* which is another one's child (OfAnother).
Accounted ==
    \A p \in Pids : os[p] \in Nonces =>
        \/ Runs(journal) /\ journal[1].pid = p
        \/ InHand(os[p])
        \/ os[p] \in lost

\* Two runtimes never work on the scope's worktree side by side, apart from the
\* ones let go of: a start ends the one before it first, whichever way it finds
\* it, after a crash and beside the requests of an earlier manager too.
OneRuntime ==
    Cardinality({p \in Pids : os[p] \in Nonces \ lost}) <= 1

\* What a request is answered with: an instance shown as ready is the journal's,
\* unless it has ended or its record was removed under it.
ReadyIsRecorded ==
    \A m \in Managers :
        /\ active[m] # <<>> /\ active[m][1].ready
        /\ lock = NoThread /\ mutex[m] = NoThread
        => LET n == Identity(m, active[m][1].pid)
           IN  n # 0 => Matches(journal, active[m]) \/ n \in lost

StrangerEnds(p) == os[p] = Stranger /\ os'[p] # Stranger

\* A process the manager did not spawn is ended by its own owner, or by a stop
\* that found the recorded runtime itself under that pid when it began: a pid
\* that was used again before is noticed, and the stop of a child never meets
\* one.  That the signals of a recovered process may still reach whoever has its
\* pid by then is what the code does, which looks once and signals twice.
OnlyLateStrangers ==
    [][\A p \in Pids : StrangerEnds(p) =>
          \/ th' = th
          \/ \E t \in Workers :
                /\ th[t].pid = <<p>> /\ th'[t] # th[t]
                /\ th[t].rec # <<>> /\ th[t].was = th[t].rec[1].nonce]_vars
=============================================================================
