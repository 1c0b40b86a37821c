-------------------------------- MODULE AppLock --------------------------------
(***************************************************************************)
(* acquire_app_lock (app_locks.py): the lock entry of one application and  *)
(* the operations that compete for it on one event loop.  An action is     *)
(* what a coroutine does between two suspensions.  asyncio.Lock and        *)
(* asyncio.wait_for are those of Python 3.11, the version the release      *)
(* workflow builds with: wait_for runs acquire in a task of its own, so an *)
(* operation is suspended before and after it.                             *)
(***************************************************************************)
EXTENDS Naturals, Sequences, SequencesExt

CONSTANTS
    Ops,      \* calls of acquire_app_lock for the application
    Timeout,  \* LOCK_TIMEOUT_SECONDS, in ticks
    MaxHold,  \* the longest an operation stays in its block, in ticks
    MaxClock  \* bound: the clock stops here

ASSUME AppLockAssumption ==
    {Timeout, MaxHold, MaxClock} \subseteq Nat \ {0}

VARIABLES
    clock,      \* time.monotonic()
    locked,     \* asyncio.Lock: _locked
    waiters,    \* asyncio.Lock: _waiters, in order
    woken,      \* the waiters whose future is done
    acquiredAt, \* entry.acquired_at
    op,         \* where each operation is
    since,      \* when it entered its block (for MaxHold and the properties)
    punctual    \* history: no block has outlived the timeout yet

vars == <<clock, locked, waiters, woken, acquiredAt, op, since, punctual>>

Init ==
    /\ clock = 1
    /\ locked = FALSE
    /\ waiters = <<>>
    /\ woken = {}
    /\ acquiredAt = 0
    /\ op = [o \in Ops |-> "idle"]
    /\ since = [o \in Ops |-> 0]
    /\ punctual = TRUE

Goto(o, pc) == op' = [op EXCEPT ![o] = pc]

Inside == {o \in Ops : op[o] = "inside"}

Tick ==
    /\ clock < MaxClock
    /\ \A o \in Inside : clock < since[o] + MaxHold
    /\ clock' = clock + 1
    /\ punctual' = (punctual /\ \A o \in Inside : clock' - since[o] <= Timeout)
    /\ UNCHANGED <<locked, waiters, woken, acquiredAt, op, since>>

\* _wake_up_first: the oldest waiter, if it is not awake already.
WakeFirst(queue) == woken' = IF queue = <<>> THEN woken ELSE woken \cup {Head(queue)}

\* Lock.release; the RuntimeError of a lock that is not locked is swallowed.
Release ==
    IF locked
    THEN locked' = FALSE /\ WakeFirst(waiters)
    ELSE UNCHANGED <<locked, woken>>

\* Mutant: off by one.
IsStale_Early == acquiredAt # 0 /\ clock - acquiredAt >= Timeout

IsStale == acquiredAt # 0 /\ clock - acquiredAt > Timeout

\* The check of acquire_app_lock, up to the start of wait_for.
Try(o) ==
    /\ op[o] = "idle"
    /\ \/ ~locked /\ Goto(o, "acquiring") /\ UNCHANGED <<locked, woken>>
       \/ locked /\ IsStale /\ Goto(o, "acquiring") /\ Release
       \/ locked /\ ~IsStale /\ Goto(o, "refused") /\ UNCHANGED <<locked, woken>>
    /\ UNCHANGED <<clock, waiters, acquiredAt, since, punctual>>

\* The task of Lock.acquire: at once, or as the last waiter.
Acquire(o) ==
    /\ op[o] = "acquiring"
    /\ IF ~locked /\ waiters = <<>>
       THEN locked' = TRUE /\ Goto(o, "granted") /\ UNCHANGED waiters
       ELSE waiters' = Append(waiters, o) /\ Goto(o, "waiting") /\ UNCHANGED locked
    /\ UNCHANGED <<clock, woken, acquiredAt, since, punctual>>

\* A waiter whose future is done takes the lock without looking again.
Resume(o) ==
    /\ op[o] = "waiting" /\ o \in woken
    /\ locked' = TRUE
    /\ \E i \in 1..Len(waiters) : waiters[i] = o /\ waiters' = RemoveAt(waiters, i)
    /\ woken' = woken \ {o}
    /\ Goto(o, "granted")
    /\ UNCHANGED <<clock, acquiredAt, since, punctual>>

\* wait_for gives up after half a second; a cancelled waiter passes the wake-up on.
GiveUp(o) ==
    /\ op[o] = "waiting"
    /\ \E i \in 1..Len(waiters) : waiters[i] = o /\ waiters' = RemoveAt(waiters, i)
    /\ woken' = (woken \ {o})
                \cup (IF locked \/ waiters' = <<>> THEN {} ELSE {Head(waiters')})
    /\ Goto(o, "refused")
    /\ UNCHANGED <<clock, locked, acquiredAt, since, punctual>>

\* The operation resumes, stamps the entry and runs its block.
Begin(o) ==
    /\ op[o] = "granted"
    /\ acquiredAt' = clock
    /\ since' = [since EXCEPT ![o] = clock]
    /\ Goto(o, "inside")
    /\ UNCHANGED <<clock, locked, waiters, woken, punctual>>

\* Mutant: the block is left without releasing.
Finish_Keeps(o) ==
    /\ op[o] = "inside"
    /\ acquiredAt' = 0
    /\ Goto(o, "done")
    /\ UNCHANGED <<clock, locked, waiters, woken, since, punctual>>

\* The finally clause; it does not ask whose lock it releases.
Finish(o) ==
    /\ op[o] = "inside"
    /\ acquiredAt' = 0
    /\ Release
    /\ Goto(o, "done")
    /\ UNCHANGED <<clock, waiters, since, punctual>>

Next ==
    \/ Tick
    \/ \E o \in Ops : \/ Try(o)
                      \/ Acquire(o)
                      \/ Resume(o)
                      \/ GiveUp(o)
                      \/ Begin(o)
                      \/ Finish(o)

Spec == Init /\ [][Next]_vars

-----------------------------------------------------------------------------
\* Properties.

\* Two operations never change the application at the same time: the promise of
\* the module, kept until the first block outlives the timeout, whatever forced
\* releases, late grants and abandoned waits are pending then.
Exclusion == punctual => \A o, p \in Inside : o = p

\* Whatever is forced, timed out or released twice, the lock is never left locked
\* with nobody to release it: a later caller is not refused for ever.
NeverOrphaned ==
    locked => \E o \in Ops : op[o] \in {"granted", "inside"}
=============================================================================
