---------------------------- MODULE AppLockProofs ----------------------------
(***************************************************************************)
(* Theorems about AppLock, for any operations, timeout and bounds.         *)
(***************************************************************************)
EXTENDS AppLock, SequenceTheorems, TLAPS

Places == {"idle", "acquiring", "waiting", "granted", "inside", "done", "refused"}

\* Every variable has its type.
TypeInv ==
    /\ clock \in Nat \ {0}
    /\ locked \in BOOLEAN
    /\ waiters \in Seq(Ops)
    /\ woken \subseteq Ops
    /\ acquiredAt \in Nat
    /\ op \in [Ops -> Places]
    /\ since \in [Ops -> Nat]
    /\ punctual \in BOOLEAN

Holders == {o \in Ops : op[o] \in {"granted", "inside"}}

\* At most one operation holds the lock, and then nobody has been woken.
OneHolder ==
    /\ \A o, p \in Holders : o = p
    /\ Holders # {} => locked /\ woken = {}

\* Only the oldest waiter is woken, and only while the lock is free.
OneWoken ==
    woken # {} => ~locked /\ waiters # <<>> /\ woken = {Head(waiters)}

\* The time in the entry is that of the operation inside, which is not late.
EntryIsFresh ==
    /\ acquiredAt # 0 => Inside # {}
    /\ \A o \in Inside : since[o] = acquiredAt /\ clock - since[o] <= Timeout

ExclusionInv == punctual => OneHolder /\ OneWoken /\ EntryIsFresh

-----------------------------------------------------------------------------
\* A waiter that leaves from behind the first leaves the first where it is.
LEMMA HeadStays ==
    ASSUME NEW S, NEW s \in Seq(S), NEW i \in 1..Len(s)
    PROVE  /\ RemoveAt(s, i) \in Seq(S)
           /\ i # 1 => RemoveAt(s, i) # <<>> /\ Head(RemoveAt(s, i)) = Head(s)
  <1> DEFINE front == SubSeq(s, 1, i - 1)
             back  == SubSeq(s, i + 1, Len(s))
  <1>1. front \in Seq(S) /\ back \in Seq(S)
    OBVIOUS
  <1>2. i # 1 => Len(front) = i - 1 /\ i - 1 >= 1 /\ front[1] = s[1]
    OBVIOUS
  <1>3. i # 1 => /\ Len(front \o back) >= 1
                 /\ (front \o back)[1] = front[1]
    BY <1>1, <1>2
  <1>4. front \o back \in Seq(S)
    BY <1>1
  <1>5. RemoveAt(s, i) = front \o back
    BY DEF RemoveAt
  <1>6. i # 1 => front \o back # <<>> /\ Head(front \o back) = (front \o back)[1]
    BY <1>3, <1>4
  <1>7. i # 1 => Head(s) = s[1]
    OBVIOUS
  <1> QED
    BY <1>2, <1>3, <1>4, <1>5, <1>6, <1>7

LEMMA TypeInit == Init => TypeInv
  <1> SUFFICES ASSUME Init PROVE TypeInv
    OBVIOUS
  <1>1. locked \in BOOLEAN /\ punctual \in BOOLEAN
    BY Zenon DEF Init
  <1>2. clock \in Nat \ {0} /\ waiters \in Seq(Ops) /\ acquiredAt \in Nat
    BY DEF Init
  <1>3. woken \subseteq Ops /\ op \in [Ops -> Places] /\ since \in [Ops -> Nat]
    BY DEF Init, Places
  <1> QED
    BY <1>1, <1>2, <1>3 DEF TypeInv

LEMMA TypeNext == TypeInv /\ [Next]_vars => TypeInv'
  <1> SUFFICES ASSUME TypeInv, [Next]_vars PROVE TypeInv'
    OBVIOUS
  <1> USE DEF TypeInv, Places
  <1>1. CASE Tick
    BY <1>1 DEF Tick
  <1>2. ASSUME NEW o \in Ops, Try(o) PROVE TypeInv'
    <2>1. woken' \subseteq Ops
      BY <1>2 DEF Try, Release, WakeFirst
    <2> QED
      <3>1. UNCHANGED <<clock, waiters, acquiredAt, since, punctual>>
        BY <1>2 DEF Try
      <3>2. locked' \in BOOLEAN
        BY <1>2 DEF Try, Release
      <3>3. op' \in [Ops -> Places]
        BY <1>2 DEF Try, Goto
      <3> QED
        BY <2>1, <3>1, <3>2, <3>3
  <1>3. ASSUME NEW o \in Ops, Acquire(o) PROVE TypeInv'
    <2>1. UNCHANGED <<clock, woken, acquiredAt, since, punctual>>
      BY <1>3 DEF Acquire
    <2>2. locked' \in BOOLEAN
      BY <1>3 DEF Acquire
    <2>3. waiters' \in Seq(Ops)
      <3>1. waiters' = waiters \/ waiters' = Append(waiters, o)
        BY <1>3 DEF Acquire
      <3>2. Append(waiters, o) \in Seq(Ops)
        BY AppendProperties
      <3> QED
        BY <3>1, <3>2
    <2>4. op' \in [Ops -> Places]
      BY <1>3 DEF Acquire, Goto
    <2> QED
      BY <2>1, <2>2, <2>3, <2>4
  <1>4. ASSUME NEW o \in Ops, Resume(o) PROVE TypeInv'
    <2>1. waiters' \in Seq(Ops)
      BY <1>4, HeadStays DEF Resume
    <2> QED
      BY <1>4, <2>1 DEF Resume, Goto
  <1>5. ASSUME NEW o \in Ops, GiveUp(o) PROVE TypeInv'
    <2>1. waiters' \in Seq(Ops)
      BY <1>5, HeadStays DEF GiveUp
    <2>2. woken' \subseteq Ops
      BY <1>5, <2>1 DEF GiveUp
    <2> QED
      BY <1>5, <2>1, <2>2 DEF GiveUp, Goto
  <1>6. ASSUME NEW o \in Ops, Begin(o) PROVE TypeInv'
    BY <1>6 DEF Begin, Goto
  <1>7. ASSUME NEW o \in Ops, Finish(o) PROVE TypeInv'
    <2>1. woken' \subseteq Ops
      BY <1>7 DEF Finish, Release, WakeFirst
    <2> QED
      BY <1>7, <2>1 DEF Finish, Goto, Release
  <1>8. CASE UNCHANGED vars
    BY <1>8 DEF vars
  <1> QED
    BY <1>1, <1>2, <1>3, <1>4, <1>5, <1>6, <1>7, <1>8 DEF Next

-----------------------------------------------------------------------------
LEMMA ExclusionInit == Init => ExclusionInv
  BY DEF Init, ExclusionInv, OneHolder, OneWoken, EntryIsFresh, Holders, Inside

\* While nobody is late the entry is not stale, so nothing is forced open.
LEMMA NotStale ==
    ASSUME TypeInv, ExclusionInv, punctual
    PROVE  ~IsStale
  <1>1. CASE acquiredAt = 0
    BY <1>1 DEF IsStale
  <1>2. CASE acquiredAt # 0
    <2>1. PICK o \in Inside : since[o] = acquiredAt /\ clock - since[o] <= Timeout
      BY <1>2 DEF ExclusionInv, EntryIsFresh
    <2> QED
      BY <2>1, AppLockAssumption DEF IsStale, TypeInv
  <1> QED
    BY <1>1, <1>2

LEMMA ExclusionNext == TypeInv /\ ExclusionInv /\ [Next]_vars => ExclusionInv'
  <1> SUFFICES ASSUME TypeInv, ExclusionInv, [Next]_vars, punctual'
               PROVE  (OneHolder /\ OneWoken /\ EntryIsFresh)'
    BY DEF ExclusionInv
  <1>0. punctual
    BY DEF Next, vars, Tick, Try, Acquire, Resume, GiveUp, Begin, Finish, TypeInv
  <1> USE <1>0 DEF TypeInv, Places
  <1>a. OneHolder /\ OneWoken /\ EntryIsFresh
    BY DEF ExclusionInv
  <1>1. CASE Tick
    <2>1. OneHolder' /\ OneWoken'
      BY <1>1, <1>a DEF Tick, OneHolder, OneWoken, Holders
    <2>2. EntryIsFresh'
      BY <1>1, <1>a DEF Tick, EntryIsFresh, Inside
    <2> QED
      BY <2>1, <2>2
  <1>2. ASSUME NEW o \in Ops, Try(o) PROVE (OneHolder /\ OneWoken /\ EntryIsFresh)'
    <2>1. UNCHANGED <<clock, locked, woken, waiters, acquiredAt, since>>
      BY <1>2, NotStale DEF Try
    <2>2. op[o] = "idle" /\ op' \in {[op EXCEPT ![o] = "acquiring"],
                                     [op EXCEPT ![o] = "refused"]}
      BY <1>2 DEF Try, Goto
    <2>3. Holders' = Holders /\ Inside' = Inside
      BY <2>2 DEF Holders, Inside
    <2> QED
      BY <1>a, <2>1, <2>3 DEF OneHolder, OneWoken, EntryIsFresh
  <1>3. ASSUME NEW o \in Ops, Acquire(o) PROVE (OneHolder /\ OneWoken /\ EntryIsFresh)'
    <2>1. Inside' = Inside /\ UNCHANGED <<clock, acquiredAt, since, woken>>
      BY <1>3 DEF Acquire, Goto, Inside
    <2>2. EntryIsFresh'
      BY <1>a, <2>1 DEF EntryIsFresh
    <2>3. CASE ~locked /\ waiters = <<>>
      <3>1. woken = {} /\ Holders = {}
        BY <1>a, <2>3 DEF OneWoken, OneHolder
      <3>2. Holders' = {o} /\ locked'
        BY <1>3, <2>3, <3>1 DEF Acquire, Goto, Holders
      <3> QED
        BY <2>1, <2>2, <3>1, <3>2 DEF OneHolder, OneWoken
    <2>4. CASE ~(~locked /\ waiters = <<>>)
      <3>1. Holders' = Holders /\ locked' = locked
        BY <1>3, <2>4 DEF Acquire, Goto, Holders
      <3>2. waiters' = Append(waiters, o)
        BY <1>3, <2>4 DEF Acquire
      <3>3. waiters # <<>> => Head(waiters') = Head(waiters)
        BY <3>2
      <3>4. waiters' # <<>>
        BY <3>2
      <3> QED
        BY <1>a, <2>1, <2>2, <3>1, <3>3, <3>4 DEF OneHolder, OneWoken
    <2> QED
      BY <2>3, <2>4
  <1>4. ASSUME NEW o \in Ops, Resume(o) PROVE (OneHolder /\ OneWoken /\ EntryIsFresh)'
    <2>1. woken = {o} /\ ~locked /\ Holders = {}
      BY <1>4, <1>a DEF Resume, OneWoken, OneHolder
    <2>2. Holders' = {o} /\ locked' /\ woken' = {}
      BY <1>4, <2>1 DEF Resume, Goto, Holders
    <2>3. Inside' = Inside /\ UNCHANGED <<clock, acquiredAt, since>>
      BY <1>4 DEF Resume, Goto, Inside
    <2> QED
      BY <1>a, <2>2, <2>3 DEF OneHolder, OneWoken, EntryIsFresh
  <1>5. ASSUME NEW o \in Ops, GiveUp(o) PROVE (OneHolder /\ OneWoken /\ EntryIsFresh)'
    <2>1. /\ Inside' = Inside /\ Holders' = Holders
          /\ UNCHANGED <<clock, acquiredAt, since, locked>>
      BY <1>5 DEF GiveUp, Goto, Inside, Holders
    <2>2. PICK i \in 1..Len(waiters) : waiters[i] = o /\ waiters' = RemoveAt(waiters, i)
      BY <1>5 DEF GiveUp
    <2>3. woken' = (woken \ {o})
                     \cup (IF locked \/ waiters' = <<>> THEN {} ELSE {Head(waiters')})
      BY <1>5 DEF GiveUp
    <2>4. CASE woken \ {o} = {}
      BY <1>a, <2>1, <2>3, <2>4 DEF OneHolder, OneWoken, EntryIsFresh
    <2>5. CASE woken \ {o} # {}
      <3>1. woken = {Head(waiters)} /\ o # Head(waiters) /\ ~locked
        BY <1>a, <2>5 DEF OneWoken
      <3>2. i # 1
        BY <2>2, <3>1
      <3>3. waiters' # <<>> /\ Head(waiters') = Head(waiters)
        BY <2>2, <3>2, HeadStays
      <3>4. woken' = {Head(waiters')} /\ Holders = {}
        BY <1>a, <2>3, <3>1, <3>3 DEF OneHolder
      <3> QED
        BY <1>a, <2>1, <3>1, <3>3, <3>4 DEF OneHolder, OneWoken, EntryIsFresh
    <2> QED
      BY <2>4, <2>5
  <1>6. ASSUME NEW o \in Ops, Begin(o) PROVE (OneHolder /\ OneWoken /\ EntryIsFresh)'
    <2>1. Holders = {o} /\ Holders' = {o} /\ Inside' = {o}
      BY <1>6, <1>a DEF Begin, Goto, OneHolder, Holders, Inside
    <2>2. since'[o] = acquiredAt' /\ clock' - since'[o] <= Timeout
      BY <1>6, AppLockAssumption DEF Begin
    <2> QED
      BY <1>6, <1>a, <2>1, <2>2 DEF Begin, OneHolder, OneWoken, EntryIsFresh
  <1>7. ASSUME NEW o \in Ops, Finish(o) PROVE (OneHolder /\ OneWoken /\ EntryIsFresh)'
    <2>1. Holders = {o} /\ Holders' = {} /\ Inside' = {}
      BY <1>7, <1>a DEF Finish, Goto, OneHolder, Holders, Inside
    <2>2. locked /\ woken = {} /\ ~locked' /\ acquiredAt' = 0 /\ waiters' = waiters
      BY <1>7, <1>a, <2>1 DEF Finish, Release, OneHolder
    <2>3. woken' = IF waiters = <<>> THEN {} ELSE {Head(waiters)}
      BY <1>7, <2>2 DEF Finish, Release, WakeFirst
    <2> QED
      BY <2>1, <2>2, <2>3 DEF OneHolder, OneWoken, EntryIsFresh
  <1>8. CASE UNCHANGED vars
    BY <1>8, <1>a DEF vars, OneHolder, OneWoken, EntryIsFresh, Holders, Inside
  <1> QED
    BY <1>1, <1>2, <1>3, <1>4, <1>5, <1>6, <1>7, <1>8 DEF Next

\* As long as no block has outlived the timeout, two operations never change the
\* application at the same time, for any number of callers (acquire_app_lock).
THEOREM OneAtATime == Spec => []Exclusion
  <1>1. Init => TypeInv /\ ExclusionInv
    BY TypeInit, ExclusionInit
  <1>2. TypeInv /\ ExclusionInv /\ [Next]_vars => (TypeInv /\ ExclusionInv)'
    BY TypeNext, ExclusionNext
  <1>3. ExclusionInv => Exclusion
    BY DEF ExclusionInv, OneHolder, Exclusion, Holders, Inside
  <1> QED
    BY <1>1, <1>2, <1>3, PTL DEF Spec

-----------------------------------------------------------------------------
LEMMA OrphanNext == TypeInv /\ NeverOrphaned /\ [Next]_vars => NeverOrphaned'
  <1> SUFFICES ASSUME TypeInv, NeverOrphaned, [Next]_vars, locked'
               PROVE  \E o \in Ops : op'[o] \in {"granted", "inside"}
    BY DEF NeverOrphaned
  <1> USE DEF TypeInv, NeverOrphaned, Goto
  <1>1. CASE Tick
    BY <1>1 DEF Tick
  <1>2. ASSUME NEW o \in Ops, Try(o) PROVE \E p \in Ops : op'[p] \in {"granted", "inside"}
    BY <1>2 DEF Try, Release
  <1>3. ASSUME NEW o \in Ops, Acquire(o) PROVE \E p \in Ops : op'[p] \in {"granted", "inside"}
    BY <1>3 DEF Acquire
  <1>4. ASSUME NEW o \in Ops, Resume(o) PROVE \E p \in Ops : op'[p] \in {"granted", "inside"}
    BY <1>4 DEF Resume
  <1>5. ASSUME NEW o \in Ops, GiveUp(o) PROVE \E p \in Ops : op'[p] \in {"granted", "inside"}
    BY <1>5 DEF GiveUp
  <1>6. ASSUME NEW o \in Ops, Begin(o) PROVE \E p \in Ops : op'[p] \in {"granted", "inside"}
    BY <1>6 DEF Begin
  <1>7. ASSUME NEW o \in Ops, Finish(o) PROVE \E p \in Ops : op'[p] \in {"granted", "inside"}
    BY <1>7 DEF Finish, Release
  <1>8. CASE UNCHANGED vars
    BY <1>8 DEF vars
  <1> QED
    BY <1>1, <1>2, <1>3, <1>4, <1>5, <1>6, <1>7, <1>8 DEF Next

\* The lock is never left locked without somebody who will release it, whatever
\* was forced open, timed out or released twice.
THEOREM NeverStuck == Spec => []NeverOrphaned
  <1>1. Init => TypeInv /\ NeverOrphaned
    BY TypeInit DEF Init, NeverOrphaned
  <1>2. TypeInv /\ NeverOrphaned /\ [Next]_vars => (TypeInv /\ NeverOrphaned)'
    BY TypeNext, OrphanNext
  <1> QED
    BY <1>1, <1>2, PTL DEF Spec
=============================================================================
