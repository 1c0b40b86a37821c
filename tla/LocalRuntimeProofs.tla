------------------------- MODULE LocalRuntimeProofs -------------------------
(***************************************************************************)
(* Theorems about LocalRuntime, for any managers, threads, instances,      *)
(* applications, pids and bounds: the scope's runtimes are accounted for,  *)
(* one runs at a time, and a stop looks before it signals.                 *)
(*                                                                         *)
(* The invariant says of every thread at which step of which operation it  *)
(* stands and what is left of it (Placed), what it may count on there      *)
(* (Duty), and how the maps of the managers, the journal and the drivers'  *)
(* children agree whoever stands where (MapAgrees).  Once a drain has been *)
(* given up, a manager may find a record that is another one's: all that   *)
(* is claimed of it then is that it is no child of this manager.           *)
(***************************************************************************)
EXTENDS LocalRuntime, FiniteSetTheorems, TLAPS

Ops == {"start", "stop", "status", "reconcile"}
Thread == [pc : Steps, op : Ops, mgr : Managers \cup {NoManager},
           inst : AtMostOneOf(Instances),
           seen : AtMostOneOf(Statuses), rec : AtMostOneOf(Records),
           pid : AtMostOneOf(Pids), nonce : OrNone, held : OrNone,
           was : OrNone \cup {Stranger}, todo : Seq(Steps)]

Types == TypeOK /\ th \in [Workers -> Thread]

\* The steps at which the scope's file lock is held.
Locked == {"look", "judge", "clear", "rewrite", "stop", "stopping", "signal",
           "outlast", "unrecord", "disown", "orphan", "spawn", "record",
           "announce", "await", "ready", "publish", "check", "drop", "recover"}
Stopping == {"stop", "stopping", "signal", "outlast"}
Hand == {"record"} \cup Stopping

-----------------------------------------------------------------------------
(***************************************************************************)
(* Where a thread w can stand, and what is left of its operation.          *)
(***************************************************************************)
Asks(w) ==
    /\ w.op = "status" /\ w.nonce = 0
    /\ \/ w.pc = "peek"
       \/ w.pc \in {"load", "verify", "statusClear", "statusRemove"} /\ w.seen # <<>>

Begins(w) == w.op = "start" /\ w.nonce = 0 /\ w.inst # <<>>

Enters(w) ==
    /\ w.pc = "lock"
    /\ \/ Begins(w) /\ w.todo = <<"look">>
       \/ w.op = "stop" /\ w.nonce = 0 /\ w.todo = <<"check">>

Looks(w)  == Begins(w) /\ w.pc = "look"
Judges(w) == Begins(w) /\ w.pc = "judge" /\ w.seen # <<>>

\* The instance that was seen is ended, or is found to have ended.
Replaces(w) ==
    /\ Begins(w) /\ w.seen # <<>>
    /\ \/ w.pc = "rewrite" /\ w.todo = <<"stop", "unrecord", "clear", "orphan">>
       \/ w.pc \in Stopping /\ w.todo = <<"unrecord", "clear", "orphan">>
       \/ w.pc = "unrecord" /\ w.todo = <<"clear", "orphan">>
       \/ w.pc = "clear" /\ w.todo = <<"orphan">>

Forgets(w) ==
    /\ Begins(w) /\ w.seen # <<>>
    /\ w.pc = "clear" /\ w.todo = <<"unrecord", "orphan">>

\* The map is empty; what the journal still names is ended, or disowned.
Prepares(w) ==
    /\ Begins(w)
    /\ \/ w.pc = "unrecord" /\ w.todo = <<"orphan">>
       \/ w.pc = "orphan"
       \/ w.pc \in Stopping /\ w.todo = <<"unrecord", "spawn">>
       \/ w.pc \in {"unrecord", "disown"} /\ w.todo = <<"spawn">>
       \/ w.pc = "spawn"

Minted(w) ==
    /\ w.op = "start" /\ w.nonce # 0 /\ w.inst # <<>> /\ w.pid # <<>>
    /\ w.rec = <<[inst |-> w.inst[1], pid |-> w.pid[1], nonce |-> w.nonce]>>

Creates(w) ==
    /\ Minted(w)
    /\ \/ w.pc = "record"
          /\ w.todo = <<"announce", "await", "ready", "publish", "done">>
       \/ w.pc = "announce" /\ w.todo = <<"await", "ready", "publish", "done">>
       \/ w.pc = "await" /\ w.todo = <<"ready", "publish", "done">>
       \/ w.pc = "ready" /\ w.todo = <<"publish", "done">>
       \/ w.pc = "publish" /\ w.todo = <<"done">>

Undoes(w) ==
    /\ Minted(w)
    /\ \/ w.pc = "clear" /\ w.todo = <<"stop", "unrecord", "done">>
       \/ w.pc \in Stopping
          /\ (w.todo = <<"unrecord", "done">> \/ w.todo = <<"done">>)
       \/ w.pc = "unrecord" /\ w.todo = <<"done">>

Ends(w) ==
    /\ w.op = "stop" /\ w.nonce = 0
    /\ \/ w.pc = "check"
       \/ w.pc = "rewrite" /\ w.todo = <<"stop", "unrecord", "drop", "done">>
       \/ w.pc \in Stopping /\ w.todo = <<"unrecord", "drop", "done">>
       \/ w.pc = "unrecord" /\ w.todo = <<"drop", "done">>
       \/ w.pc = "drop" /\ w.todo = <<"done">>

Sweeps(w) ==
    /\ w.op = "reconcile" /\ w.nonce = 0
    /\ \/ w.pc = "list"
       \/ w.pc = "lock" /\ w.todo = <<"recover">> /\ w.rec # <<>>
       \/ w.pc = "recover" /\ w.rec # <<>>
       \/ w.pc \in Stopping /\ w.todo = <<"unrecord", "done">>
       \/ w.pc \in {"unrecord", "disown"} /\ w.todo = <<"done">>

Placed(w) ==
    \/ w = IdleThread
    \/ /\ w.mgr \in Managers
       /\ \/ w.pc = "done"
          \/ Asks(w) \/ Enters(w) \/ Looks(w) \/ Judges(w) \/ Replaces(w)
          \/ Forgets(w) \/ Prepares(w) \/ Creates(w) \/ Undoes(w) \/ Ends(w)
          \/ Sweeps(w)

-----------------------------------------------------------------------------
(***************************************************************************)
(* What it may count on there.                                             *)
(***************************************************************************)
\* The runtime of a record, if it runs, is a child of m; or it need not be
\* m's, which is so only once a manager was closed too early.
Child(m, rec) == Runs(rec) => retained[m][rec[1].pid] = rec[1].nonce
Within(m, rec) == active[m] = <<>> \/ Matches(rec, active[m])
Own(w)      == \A p \in Pids : os[p] = w.nonce => w.pid = <<p>>
Sound(m, status) ==
    Runs(journal) => IF retained[m][journal[1].pid] = journal[1].nonce
                     THEN Matches(journal, status) ELSE parted
Forsaken(t) == Runs(journal) => OfAnother(t)
Names(rec)  == journal = <<>> \/ journal = rec

MapDuty(t) ==
    LET w == th[t]
    IN  /\ Judges(w) \/ Replaces(w) \/ Forgets(w) => active[w.mgr] \in {<<>>, w.seen}
        /\ Prepares(w) \/ w.pc = "record" => active[w.mgr] = <<>>
        /\ w.pc = "rewrite" \/ Creates(w) => Within(w.mgr, w.rec)

JournalDuty(t) ==
    LET w == th[t]
    IN  /\ w.pc = "judge" => Sound(w.mgr, w.seen)
        /\ Forgets(w) \/ (w.pc = "unrecord" /\ w.nonce = 0) => Forsaken(t)
        /\ w.pc \in Stopping =>
              /\ w.pid # <<>> /\ (w.pc = "stopping" => w.held # 0)
              /\ Runs(journal) => journal[1].pid = w.pid[1] \/ OfAnother(t)
        /\ w.pc = "rewrite" => w.rec # <<>> /\ w.pid = <<w.rec[1].pid>>
        /\ w.pc = "rewrite" \/ Creates(w) => Names(w.rec) /\ Child(w.mgr, w.rec)
        /\ Undoes(w) => Names(w.rec)
        /\ Creates(w) \/ Undoes(w) => Own(w)
        /\ w.pc \in {"spawn", "record"} => journal = <<>>
        /\ w.op = "reconcile" /\ w.pc \in {"lock", "recover"} =>
              (Runs(journal) => journal = w.rec \/ OfAnother(t))

HeldDuty(t) ==
    LET w == th[t]
    IN  w.held # 0 => /\ w.pc = "stopping" /\ w.pid # <<>>
                      /\ os[w.pid[1]] \in {0, w.held}
                      /\ \A m \in Managers : retained[m][w.pid[1]] = 0

Duty(t) ==
    LET w == th[t]
    IN  /\ Placed(w)
        /\ w.pc \in Locked => lock = t
        /\ w.op = "reconcile" => t = Main
        /\ t = Main => w = IdleThread \/ w.pc = "done" \/ w.op = "reconcile"
        /\ HeldDuty(t) /\ MapDuty(t) /\ JournalDuty(t)

\* The child of a manager under a pid, also while a stop has it in hand.
Kept(m, p, n) ==
    \/ retained[m][p] = n
    \/ \E t \in Workers : th[t].mgr = m /\ th[t].held = n /\ th[t].pid = <<p>>

\* A pid keeps its process, or nothing, until its one parent reaps it.
PidsKept ==
    /\ \A m \in Managers, p \in Pids :
          retained[m][p] # 0 => os[p] \in {0, retained[m][p]}
    /\ \A m, n \in Managers, p \in Pids :
          retained[m][p] # 0 /\ retained[n][p] # 0 => m = n

NoncesOnce ==
    /\ \A p \in Pids : os[p] \in Nonces => os[p] <= spawned
    /\ \A p, q \in Pids : os[p] \in Nonces /\ os[p] = os[q] => p = q

\* A map shows what the journal has, and its process is a child of the map's
\* manager; or it is not, and a manager was closed too early.
MapAgrees ==
    \A m \in Managers : active[m] # <<>> /\ Runs(journal) =>
        IF Kept(m, journal[1].pid, journal[1].nonce)
        THEN Matches(journal, active[m]) ELSE parted

\* Who is at work when.
Turns ==
    /\ server # "down" <=> manager \in Managers
    /\ th[Main] # IdleThread =>
          /\ server \in {"booting", "closing"} /\ Mine(Main) = manager
          /\ \A t \in Threads : Mine(t) # manager
    /\ ~parted => \A t \in Threads : th[t] = IdleThread \/ Mine(t) = manager
    /\ \A m \in Managers : m # manager /\ (\A t \in Workers : Mine(t) # m)
                              => active[m] = <<>>

Pending == {t \in Threads : th[t].op = "start" /\ th[t].nonce = 0}
Budget  == spawned + Cardinality(Pending) <= MaxSpawns

IInv ==
    /\ Types
    /\ \A t \in Workers : Duty(t)
    /\ PidsKept /\ NoncesOnce /\ MapAgrees /\ Turns /\ Budget
    /\ Accounted

-----------------------------------------------------------------------------
(***************************************************************************)
(* What the operators of the model do.                                     *)
(***************************************************************************)
LEMMA Singles ==
    ASSUME NEW S, NEW s \in AtMostOneOf(S), s # <<>>
    PROVE  s[1] \in S /\ s = <<s[1]>>
  BY DEF AtMostOneOf

LEMMA Heads ==
    ASSUME NEW a, NEW b, NEW c, NEW d, NEW e
    PROVE  /\ Head(<<a>>) = a /\ Tail(<<a>>) = <<>>
           /\ Head(<<a, b>>) = a /\ Tail(<<a, b>>) = <<b>>
           /\ Head(<<a, b, c>>) = a /\ Tail(<<a, b, c>>) = <<b, c>>
           /\ Head(<<a, b, c, d>>) = a /\ Tail(<<a, b, c, d>>) = <<b, c, d>>
           /\ Head(<<a, b, c, d, e>>) = a
           /\ Tail(<<a, b, c, d, e>>) = <<b, c, d, e>>
           /\ <<a>> # <<>> /\ <<a, b>> # <<>> /\ <<a, b, c>> # <<>>
           /\ <<a, b, c, d>> # <<>> /\ <<a, b, c, d, e>> # <<>>
  OBVIOUS

LEMMA Rest ==
    ASSUME NEW S, NEW s \in Seq(S), s # <<>>
    PROVE  Head(s) \in S /\ Tail(s) \in Seq(S)
  OBVIOUS

LEMMA Lists ==
    ASSUME NEW S, NEW a \in S, NEW b \in S, NEW c \in S, NEW d \in S, NEW e \in S
    PROVE  /\ <<a>> \in Seq(S) /\ <<a, b>> \in Seq(S) /\ <<a, b, c>> \in Seq(S)
           /\ <<a, b, c, d>> \in Seq(S) /\ <<a, b, c, d, e>> \in Seq(S)
  OBVIOUS

LEMMA Idle ==
    /\ IdleThread \in Thread
    /\ IdleThread.pc = "idle" /\ IdleThread.op = "status" /\ IdleThread.mgr = NoManager
    /\ IdleThread.nonce = 0 /\ IdleThread.held = 0 /\ IdleThread.mgr \notin Managers
  <1>1. 0 \in OrNone /\ NoManager \notin Managers
    BY LocalRuntimeAssumption DEF OrNone
  <1>2. <<>> \in Seq(Steps)
    OBVIOUS
  <1> QED
    BY <1>1, <1>2 DEF IdleThread, Thread, Steps, Ops, AtMostOneOf

LEMMA NoStranger == Stranger \notin Nonces /\ Stranger # 0 /\ Stranger \notin OrNone
                    /\ 0 \notin Nonces /\ 0 \in OrNone /\ Nonces \subseteq OrNone
  BY LocalRuntimeAssumption DEF Nonces, OrNone

LEMMA ThreadType ==
    ASSUME Types, NEW t \in Workers
    PROVE  /\ th[t] \in Thread
           /\ th[t].pc \in Steps /\ th[t].op \in Ops /\ th[t].todo \in Seq(Steps)
           /\ th[t].mgr \in Managers \cup {NoManager}
           /\ th[t].inst \in AtMostOneOf(Instances)
           /\ th[t].seen \in AtMostOneOf(Statuses)
           /\ th[t].rec \in AtMostOneOf(Records)
           /\ th[t].pid \in AtMostOneOf(Pids)
           /\ th[t].nonce \in OrNone /\ th[t].held \in OrNone
  BY DEF Types, Thread

\* A thread that goes on to other steps keeps what it knows, and one that
\* returns knows nothing any more.
LEMMA Follows ==
    ASSUME Types, NEW t \in Workers, NEW s, Follow(t, s),
           Head(s) \in Steps, Tail(s) \in Seq(Steps)
    PROVE  /\ th' \in [Workers -> Thread]
           /\ \A u \in Workers : u # t => th'[u] = th[u]
           /\ th'[t].pc = Head(s) /\ th'[t].held = 0 /\ th'[t].mgr = th[t].mgr
           /\ Head(s) = "done" => th'[t].op = "status" /\ th'[t].nonce = 0
           /\ Head(s) # "done" =>
                 /\ th'[t].todo = Tail(s)
                 /\ th'[t].op = th[t].op /\ th'[t].inst = th[t].inst
                 /\ th'[t].seen = th[t].seen /\ th'[t].rec = th[t].rec
                 /\ th'[t].pid = th[t].pid /\ th'[t].nonce = th[t].nonce
  <1>1. th \in [Workers -> Thread] /\ 0 \in OrNone /\ th[t] \in Thread
    BY LocalRuntimeAssumption DEF Types, OrNone
  <1>2. CASE Head(s) = "done"
    <2>1. th' = [th EXCEPT ![t] = Returning(t)]
      BY <1>2 DEF Follow
    <2>2. Returning(t) \in Thread /\ Returning(t).pc = "done" /\ Returning(t).held = 0
          /\ Returning(t).op = "status" /\ Returning(t).nonce = 0
          /\ Returning(t).mgr = th[t].mgr
      <3>1. "done" \in Steps /\ th[t].mgr \in Managers \cup {NoManager}
        BY <1>1 DEF Steps, Thread
      <3>2. Returning(t) = [IdleThread EXCEPT !.pc = "done", !.mgr = th[t].mgr]
        BY DEF Returning, Mine
      <3> QED
        BY <3>1, <3>2, Idle DEF Thread
    <2> QED
      BY <1>1, <1>2, <2>1, <2>2
  <1>3. CASE Head(s) # "done"
    <2>1. th' = [th EXCEPT ![t] = [th[t] EXCEPT !.pc = Head(s), !.todo = Tail(s),
                                                 !.held = 0, !.was = 0]]
      BY <1>1, <1>3 DEF Follow
    <2>2. [th[t] EXCEPT !.pc = Head(s), !.todo = Tail(s), !.held = 0, !.was = 0] \in Thread
      BY <1>1 DEF Thread
    <2> QED
      BY <1>1, <1>3, <2>1, <2>2 DEF Thread
  <1> QED
    BY <1>2, <1>3

LEMMA Proceeds ==
    ASSUME Types, NEW t \in Workers, Proceed(t), th[t].todo # <<>>
    PROVE  /\ th' \in [Workers -> Thread]
           /\ \A u \in Workers : u # t => th'[u] = th[u]
           /\ th'[t].pc = Head(th[t].todo) /\ th'[t].held = 0 /\ th'[t].mgr = th[t].mgr
           /\ th'[t].pc = "done" => th'[t].op = "status" /\ th'[t].nonce = 0
           /\ th'[t].pc # "done" =>
                 /\ th'[t].todo = Tail(th[t].todo)
                 /\ th'[t].op = th[t].op /\ th'[t].inst = th[t].inst
                 /\ th'[t].seen = th[t].seen /\ th'[t].rec = th[t].rec
                 /\ th'[t].pid = th[t].pid /\ th'[t].nonce = th[t].nonce
  <1>1. th[t].todo \in Seq(Steps)
    BY DEF Types, Thread
  <1>2. Head(th[t].todo) \in Steps /\ Tail(th[t].todo) \in Seq(Steps)
    BY <1>1, Rest
  <1> QED
    BY <1>2, Follows DEF Proceed

LEMMA Returns ==
    ASSUME Types, NEW t \in Workers, Return(t)
    PROVE  /\ th' \in [Workers -> Thread]
           /\ \A u \in Workers : u # t => th'[u] = th[u]
           /\ th'[t].pc = "done" /\ th'[t].held = 0 /\ th'[t].mgr = th[t].mgr
           /\ th'[t].op = "status" /\ th'[t].nonce = 0
  <1>1. Head(<<"done">>) = "done" /\ Tail(<<"done">>) = <<>>
    BY Heads
  <1>2. Head(<<"done">>) \in Steps /\ Tail(<<"done">>) \in Seq(Steps)
    BY <1>1 DEF Steps
  <1> QED
    BY <1>1, <1>2, Follows DEF Return

LEMMA Identities ==
    ASSUME Types, NEW m \in Managers, NEW p \in Pids
    PROVE  /\ Identity(m, p) \in OrNone
           /\ Identity(m, p) # 0 => /\ Identity(m, p) = retained[m][p]
                                    /\ os[p] = retained[m][p]
           /\ retained[m][p] # 0 /\ os[p] = retained[m][p]
                 => Identity(m, p) = retained[m][p]
           /\ Reap(m, p) \in [Managers -> [Pids -> OrNone]]
           /\ \A n \in Managers, q \in Pids :
                 \/ Reap(m, p)[n][q] = retained[n][q]
                 \/ Reap(m, p)[n][q] = 0 /\ os[q] # retained[n][q]
           /\ Identity(m, p) = 0 => Reap(m, p)[m][p] = 0
  <1>1. retained \in [Managers -> [Pids -> OrNone]] /\ 0 \in OrNone
    BY LocalRuntimeAssumption DEF Types, TypeOK, OrNone
  <1>2. retained[m] \in [Pids -> OrNone]
    BY <1>1
  <1>3. Reap(m, p) = [retained EXCEPT ![m] = [retained[m] EXCEPT ![p] = Identity(m, p)]]
    BY <1>1 DEF Reap
  <1>4. /\ Identity(m, p) \in OrNone
        /\ \/ Identity(m, p) = retained[m][p]
           \/ Identity(m, p) = 0 /\ os[p] # retained[m][p]
    BY <1>1, <1>2 DEF Identity
  <1> QED
    BY <1>1, <1>2, <1>3, <1>4 DEF Identity

-----------------------------------------------------------------------------
(***************************************************************************)
(* What a step leaves as it was.                                           *)
(***************************************************************************)
\* A manager nobody works for any more, and whose maps are empty.
Gone(m) == active'[m] = <<>> /\ \A u \in Workers : th'[u].mgr # m

\* Nothing starts to run, and a child is forgotten only when it has ended or
\* with its manager.
Ebbs ==
    /\ \A p \in Pids : \/ os'[p] = os[p] \/ os'[p] = 0
                       \/ os'[p] = Stranger /\ Free(p)
    /\ \A m \in Managers, p \in Pids :
          \/ retained'[m][p] = retained[m][p]
          \/ retained'[m][p] = 0 /\ (os[p] # retained[m][p] \/ Gone(m))
    /\ \A m \in Managers : active'[m] \in {active[m], <<>>}
    /\ spawned' = spawned /\ lost \subseteq lost' /\ (parted => parted')

LEMMA RecordType ==
    ASSUME NEW r \in AtMostOneOf(Records), r # <<>>
    PROVE  /\ r[1] \in Records /\ r[1].pid \in Pids /\ r[1].nonce \in Nonces
           /\ r[1].inst \in Instances /\ r = <<r[1]>> /\ r[1].nonce # 0
           /\ r[1].nonce # Stranger
  <1>1. r[1] \in Records /\ r = <<r[1]>>
    BY Singles
  <1> QED
    BY <1>1, NoStranger DEF Records

LEMMA EbbsRuns ==
    ASSUME Ebbs, NEW r \in AtMostOneOf(Records), NEW m \in Managers, ~Gone(m)
    PROVE  /\ Runs(r)' => Runs(r)
           /\ Child(m, r) => Child(m, r)'
           /\ Within(m, r) => Within(m, r)'
           /\ Runs(r)' /\ retained[m][r[1].pid] # r[1].nonce
                => retained'[m][r[1].pid] # r[1].nonce
  <1>1. Runs(r)' => Runs(r)
    BY RecordType, NoStranger DEF Ebbs, Runs, Named
  <1>2. Child(m, r) => Child(m, r)'
    <2> SUFFICES ASSUME Child(m, r), Runs(r)'
                 PROVE  retained'[m][r[1].pid] = r[1].nonce
      BY DEF Child
    <2>1. Runs(r) /\ retained[m][r[1].pid] = r[1].nonce /\ r # <<>>
      BY <1>1 DEF Child, Runs, Named
    <2> QED
      BY <2>1, RecordType DEF Ebbs, Runs
  <1>3. Within(m, r) => Within(m, r)'
    BY DEF Ebbs, Within, Matches
  <1>4. Runs(r)' /\ retained[m][r[1].pid] # r[1].nonce
          => retained'[m][r[1].pid] # r[1].nonce
    BY RecordType DEF Ebbs, Runs, Named
  <1> QED
    BY <1>1, <1>2, <1>3, <1>4

\* What a manager says of the journal while the scope ebbs around it.
LEMMA EbbsSound ==
    ASSUME Types, Ebbs, NEW u \in Workers, NEW m \in Managers, th[u].mgr = m,
           th'[u] = th[u], journal' = journal \/ journal' = <<>>,
           NEW s
    PROVE  /\ Runs(journal)' => journal' = journal /\ Runs(journal)
           /\ OfAnother(u) /\ Runs(journal)' => OfAnother(u)'
           /\ Sound(m, s) => Sound(m, s)'
  <1>1. journal \in AtMostOneOf(Records) /\ ~Gone(m)
    BY DEF Types, TypeOK, Gone
  <1>2. Runs(journal)' => journal' = journal /\ Runs(journal) /\ journal # <<>>
    <2>1. CASE journal' = journal
      BY <1>1, <2>1, EbbsRuns DEF Runs, Named
    <2>2. CASE journal' = <<>>
      BY <2>2 DEF Runs, Named
    <2> QED
      BY <2>1, <2>2
  <1>3. OfAnother(u) /\ Runs(journal)' => OfAnother(u)'
    <2> SUFFICES ASSUME OfAnother(u), Runs(journal)'
                 PROVE  OfAnother(u)'
      OBVIOUS
    <2>1. journal' = journal /\ journal # <<>> /\ parted'
      BY <1>2 DEF OfAnother, Ebbs
    <2>2. retained[m][journal[1].pid] # journal[1].nonce
      BY DEF OfAnother, Mine
    <2>3. retained'[m][journal[1].pid] # journal[1].nonce
      BY <1>1, <2>1, <2>2, RecordType DEF Ebbs
    <2> QED
      BY <2>1, <2>3 DEF OfAnother, Mine
  <1>4. Sound(m, s) => Sound(m, s)'
    <2> SUFFICES ASSUME Sound(m, s), Runs(journal)'
                 PROVE  IF retained'[m][journal'[1].pid] = journal'[1].nonce
                        THEN Matches(journal', s) ELSE parted'
      BY DEF Sound, Matches
    <2>1. journal' = journal /\ Runs(journal) /\ journal # <<>>
      BY <1>2
    <2>2. CASE retained[m][journal[1].pid] = journal[1].nonce
      <3>1. retained'[m][journal[1].pid] = journal[1].nonce
        BY <1>1, <2>1, <2>2, RecordType DEF Ebbs, Runs
      <3> QED
        BY <2>1, <2>2, <3>1 DEF Sound
    <2>3. CASE retained[m][journal[1].pid] # journal[1].nonce
      <3>1. retained'[m][journal[1].pid] # journal[1].nonce
        BY <1>1, <2>1, <2>3, RecordType DEF Ebbs
      <3> QED
        BY <2>1, <2>3, <3>1 DEF Sound, Ebbs
    <2> QED
      BY <2>2, <2>3
  <1> QED
    BY <1>2, <1>3, <1>4

LEMMA IdleDuty ==
    ASSUME NEW u \in Workers, th[u] = IdleThread
    PROVE  Duty(u)
  <1>1. /\ th[u].pc = "idle" /\ th[u].op = "status" /\ th[u].held = 0
    BY Idle
  <1>2. /\ ~Judges(th[u]) /\ ~Replaces(th[u]) /\ ~Forgets(th[u]) /\ ~Prepares(th[u])
        /\ ~Creates(th[u]) /\ ~Undoes(th[u])
    BY <1>1 DEF Judges, Replaces, Forgets, Prepares, Creates, Undoes, Begins, Minted
  <1> QED
    BY <1>1, <1>2 DEF Duty, Placed, HeldDuty, MapDuty, JournalDuty, Locked, Stopping

LEMMA IdleStays ==
    ASSUME NEW u \in Workers, th'[u] = IdleThread
    PROVE  Duty(u)'
  <1>1. /\ th'[u].pc = "idle" /\ th'[u].op = "status" /\ th'[u].held = 0
    BY Idle
  <1>2. /\ ~Judges(th'[u]) /\ ~Replaces(th'[u]) /\ ~Forgets(th'[u]) /\ ~Prepares(th'[u])
        /\ ~Creates(th'[u]) /\ ~Undoes(th'[u])
    BY <1>1 DEF Judges, Replaces, Forgets, Prepares, Creates, Undoes, Begins, Minted
  <1> QED
    BY <1>1, <1>2 DEF Duty, Placed, HeldDuty, MapDuty, JournalDuty, Locked, Stopping

\* A thread whose scope ebbs around it stands where it stood.
LEMMA Undisturbed ==
    ASSUME Types, Ebbs, NEW u \in Workers, Duty(u), th'[u] = th[u],
           lock = u => lock' = u,
           journal' = journal \/ journal' = <<>>
    PROVE  Duty(u)'
  <1> DEFINE w == th[u]
             m == th[u].mgr
  <1>1. CASE w = IdleThread
    BY <1>1, IdleStays
  <1>2. CASE w # IdleThread
    <2>1. /\ m \in Managers /\ ~Gone(m)
          /\ w.rec \in AtMostOneOf(Records) /\ w.pid \in AtMostOneOf(Pids)
          /\ w.held \in OrNone /\ w.nonce \in OrNone
          /\ journal \in AtMostOneOf(Records)
      BY <1>2, ThreadType DEF Duty, Placed, Gone, Types, TypeOK
    <2>2. /\ Runs(journal)' => journal' = journal /\ Runs(journal)
          /\ OfAnother(u) /\ Runs(journal)' => OfAnother(u)'
          /\ Sound(m, w.seen) => Sound(m, w.seen)'
      BY <2>1, EbbsSound
    <2>3. Forsaken(u) => Forsaken(u)'
      BY <2>2 DEF Forsaken
    <2>4. /\ Within(m, w.rec) => Within(m, w.rec)'
          /\ Child(m, w.rec) => Child(m, w.rec)'
      BY <2>1, EbbsRuns
    <2>5. w.nonce # 0 /\ Own(w) => Own(w)'
      <3> SUFFICES ASSUME w.nonce # 0, Own(w), NEW p \in Pids, os'[p] = w.nonce
                   PROVE  w.pid = <<p>>
        BY DEF Own
      <3>1. os'[p] = os[p]
        BY <2>1, NoStranger DEF Ebbs
      <3> QED
        BY <3>1 DEF Own
    <2>6. HeldDuty(u)'
      <3> SUFFICES ASSUME w.held # 0
                   PROVE  /\ w.pc = "stopping" /\ w.pid # <<>>
                          /\ os'[w.pid[1]] \in {0, w.held}
                          /\ \A n \in Managers : retained'[n][w.pid[1]] = 0
        BY DEF HeldDuty
      <3>1. /\ w.pc = "stopping" /\ w.pid # <<>>
            /\ os[w.pid[1]] \in {0, w.held}
            /\ \A n \in Managers : retained[n][w.pid[1]] = 0
        BY DEF Duty, HeldDuty
      <3>2. w.pid[1] \in Pids /\ w.pid = <<w.pid[1]>>
        BY <2>1, <3>1, Singles
      <3>3. ~Free(w.pid[1])
        BY <3>2 DEF Free
      <3> QED
        BY <3>1, <3>2, <3>3 DEF Ebbs
    <2>7. MapDuty(u)'
      BY <2>1, <2>4 DEF Duty, MapDuty, Ebbs
    <2>8. JournalDuty(u)'
      <3>1. JournalDuty(u) /\ (Creates(w) \/ Undoes(w) => w.nonce # 0)
        BY DEF Duty, Creates, Undoes, Minted
      <3>2. Names(w.rec) => Names(w.rec)'
        BY DEF Names
      <3> QED
        BY <2>2, <2>3, <2>4, <2>5, <3>1, <3>2 DEF JournalDuty
    <2> QED
      BY <2>6, <2>7, <2>8 DEF Duty
  <1> QED
    BY <1>1, <1>2

-----------------------------------------------------------------------------
(***************************************************************************)
(* What holds whoever stands where.                                        *)
(***************************************************************************)
LEMMA PidsEbb ==
    ASSUME PidsKept, Ebbs
    PROVE  PidsKept'
  BY DEF PidsKept, Ebbs, Free

LEMMA NoncesEbb ==
    ASSUME NoncesOnce, \A p \in Pids : os'[p] \in Nonces => os'[p] = os[p],
           spawned' = spawned
    PROVE  NoncesOnce'
  BY DEF NoncesOnce

LEMMA MapEbbs ==
    ASSUME Types, MapAgrees, Ebbs,
           journal' = journal \/ journal' = <<>>,
           \A u \in Workers : /\ th'[u].held = th[u].held
                              /\ th[u].held # 0 => /\ th'[u].mgr = th[u].mgr
                                                   /\ th'[u].pid = th[u].pid
    PROVE  MapAgrees'
  <1>1. journal \in AtMostOneOf(Records)
    BY DEF Types, TypeOK
  <1> SUFFICES ASSUME NEW m \in Managers, active'[m] # <<>>, Runs(journal)'
               PROVE  IF Kept(m, journal[1].pid, journal[1].nonce)'
                      THEN Matches(journal, active[m])' ELSE parted'
    BY DEF MapAgrees
  <1>2. active'[m] = active[m] /\ active[m] # <<>> /\ ~Gone(m)
    BY DEF Ebbs, Gone
  <1>3. journal' = journal /\ journal # <<>>
    BY DEF Runs, Named
  <1>4. Runs(journal)
    BY <1>1, <1>2, <1>3, EbbsRuns DEF Runs, Named
  <1>5. /\ journal[1].pid \in Pids /\ journal[1].nonce # 0
        /\ os[journal[1].pid] = journal[1].nonce
    BY <1>1, <1>3, <1>4, RecordType DEF Runs
  <1>6. Kept(m, journal[1].pid, journal[1].nonce)'
          <=> Kept(m, journal[1].pid, journal[1].nonce)
    <2>1. retained'[m][journal[1].pid] = journal[1].nonce
            <=> retained[m][journal[1].pid] = journal[1].nonce
      BY <1>2, <1>5 DEF Ebbs
    <2>2. \A u \in Workers :
             (/\ th'[u].mgr = m /\ th'[u].held = journal[1].nonce
              /\ th'[u].pid = <<journal[1].pid>>)
             <=> (/\ th[u].mgr = m /\ th[u].held = journal[1].nonce
                  /\ th[u].pid = <<journal[1].pid>>)
      BY <1>5
    <2> QED
      BY <1>3, <2>1, <2>2 DEF Kept
  <1>7. IF Kept(m, journal[1].pid, journal[1].nonce)
        THEN Matches(journal, active[m]) ELSE parted
    BY <1>2, <1>4 DEF MapAgrees
  <1> QED
    BY <1>2, <1>3, <1>6, <1>7 DEF Matches, Named, Ebbs

LEMMA PendingFinite ==
    /\ IsFiniteSet(Pending) /\ Cardinality(Pending) \in Nat
    /\ \A S : S \subseteq Pending =>
          IsFiniteSet(S) /\ Cardinality(S) \in Nat /\ Cardinality(S) <= Cardinality(Pending)
  <1>1. IsFiniteSet(Threads) /\ Pending \subseteq Threads
    BY LocalRuntimeAssumption DEF Pending
  <1>2. IsFiniteSet(Pending)
    BY <1>1, FS_Subset
  <1> QED
    BY <1>2, FS_Subset, FS_CardinalityType

LEMMA BudgetEbbs ==
    ASSUME Types, Budget, spawned' = spawned,
           \A u \in Threads : th'[u].op = "start" /\ th'[u].nonce = 0
                                => th[u].op = "start" /\ th[u].nonce = 0
    PROVE  Budget'
  <1>1. Pending' \subseteq Pending
    BY DEF Pending
  <1>2. Cardinality(Pending') \in Nat /\ Cardinality(Pending') <= Cardinality(Pending)
    BY <1>1, PendingFinite
  <1>3. spawned \in Nat /\ MaxSpawns \in Nat /\ Cardinality(Pending) \in Nat
    BY LocalRuntimeAssumption, PendingFinite DEF Types, TypeOK, OrNone
  <1> QED
    BY <1>2, <1>3 DEF Budget

\* A thread lets go of what it has in hand only when somebody else answers for it.
Hands(t) ==
    t \in Threads /\ th[t].pc \in Hand =>
        \/ th'[t].pc \in Hand /\ th'[t].nonce = th[t].nonce
        \/ \A p \in Pids : os'[p] \in Nonces /\ os'[p] = th[t].nonce =>
              os'[p] \in lost' \/ (Runs(journal)' /\ journal'[1].pid = p)

\* The record is left, or is that of a process that does not run or is given up.
Removes == journal' = <<>> /\ (Runs(journal) => journal[1].nonce \in lost')

LEMMA AccountedMoves ==
    ASSUME Accounted, NEW t \in Workers, Hands(t),
           \A u \in Workers : u # t => th'[u] = th[u],
           \A p \in Pids : os'[p] \in Nonces => os'[p] = os[p],
           lost \subseteq lost', journal' = journal \/ Removes
    PROVE  Accounted'
  <1> SUFFICES ASSUME NEW p \in Pids, os'[p] \in Nonces
               PROVE  \/ Runs(journal)' /\ journal'[1].pid = p
                      \/ InHand(os[p])'
                      \/ os'[p] \in lost'
    BY DEF Accounted
  <1>1. os'[p] = os[p]
    OBVIOUS
  <1>2. CASE Runs(journal) /\ journal[1].pid = p
    BY <1>1, <1>2 DEF Runs, Named, Removes
  <1>3. CASE InHand(os[p])
    <2>1. PICK u \in Threads : th[u].nonce = os[p] /\ th[u].pc \in Hand
      BY <1>3 DEF InHand, Hand, Stopping
    <2>2. CASE u # t
      BY <1>1, <2>1, <2>2 DEF InHand, Hand, Stopping, Workers
    <2>3. CASE u = t
      <3>1. CASE th'[t].pc \in Hand /\ th'[t].nonce = th[t].nonce
        BY <1>1, <2>1, <2>3, <3>1 DEF InHand, Hand, Stopping
      <3>2. CASE \A q \in Pids : os'[q] \in Nonces /\ os'[q] = th[t].nonce =>
                    os'[q] \in lost' \/ (Runs(journal)' /\ journal'[1].pid = q)
        BY <1>1, <2>1, <2>3, <3>2
      <3> QED
        BY <2>1, <2>3, <3>1, <3>2 DEF Hands
    <2> QED
      BY <2>2, <2>3
  <1>4. CASE os[p] \in lost
    BY <1>1, <1>4
  <1> QED
    BY <1>1, <1>2, <1>3, <1>4 DEF Accounted

LEMMA TurnsStay ==
    ASSUME IInv, NEW t \in Workers, th[t] # IdleThread, UNCHANGED shell,
           \A u \in Workers : u # t => th'[u] = th[u],
           th'[t].mgr = th[t].mgr,
           \A m \in Managers : m # th[t].mgr => active'[m] \in {active[m], <<>>}
    PROVE  Turns'
  <1>1. Turns /\ Main \in Workers /\ Threads \subseteq Workers
    BY DEF IInv, Workers
  <1>2. \A u \in Workers : th'[u].mgr = th[u].mgr
    OBVIOUS
  <1>3. \A u \in Workers : th'[u] # IdleThread => th[u] # IdleThread
    OBVIOUS
  <1>4. server' = server /\ manager' = manager /\ parted' = parted
    BY DEF shell
  <1>5. ASSUME th'[Main] # IdleThread
        PROVE  /\ server \in {"booting", "closing"} /\ Mine(Main)' = manager
               /\ \A u \in Threads : Mine(u)' # manager
    BY <1>1, <1>2, <1>3, <1>5 DEF Turns, Mine
  <1>6. ASSUME ~parted, NEW u \in Threads
        PROVE  th'[u] = IdleThread \/ Mine(u)' = manager
    <2>1. th[u] = IdleThread \/ Mine(u) = manager
      BY <1>1, <1>6 DEF Turns
    <2>2. th[u] = IdleThread => u # t
      OBVIOUS
    <2> QED
      BY <1>1, <1>2, <2>1, <2>2 DEF Mine
  <1>7. ASSUME NEW m \in Managers, m # manager, \A u \in Workers : Mine(u)' # m
        PROVE  active'[m] = <<>>
    <2>1. \A u \in Workers : Mine(u) # m
      BY <1>2, <1>7 DEF Mine
    <2>2. active[m] = <<>>
      BY <1>1, <1>7, <2>1 DEF Turns
    <2> QED
      BY <2>1, <2>2 DEF Mine
  <1> QED
    BY <1>1, <1>4, <1>5, <1>6, <1>7 DEF Turns

LEMMA Awake ==
    ASSUME IInv, NEW t \in Workers, th[t].pc # "idle"
    PROVE  /\ Types /\ Duty(t) /\ th[t] # IdleThread /\ th[t].mgr \in Managers
           /\ th[t].pc # "stopping" => th[t].held = 0
  BY Idle DEF IInv, Duty, Placed, HeldDuty

\* A step of one thread around which the scope ebbs keeps the invariant, if the
\* thread may count on what it finds at its next step.
LEMMA Moves ==
    ASSUME IInv, NEW t \in Workers, th[t].pc # "idle",
           th[t].held = 0, th'[t].held = 0, th'[t].mgr = th[t].mgr,
           Types', Ebbs, journal' = journal \/ Removes, UNCHANGED shell,
           \A u \in Workers : u # t => th'[u] = th[u],
           th[t].pc \in Locked \/ (\A u \in Workers : u # t /\ lock = u => lock' = u),
           th'[t].op = "start" /\ th'[t].nonce = 0
             => th[t].op = "start" /\ th[t].nonce = 0,
           Hands(t), Duty(t)'
    PROVE  IInv'
  <1>1. Types /\ th[t] # IdleThread /\ Duty(t)
    BY Awake
  <1>2. \A u \in Workers : Duty(u)'
    <2> SUFFICES ASSUME NEW u \in Workers, u # t
                 PROVE  Duty(u)'
      OBVIOUS
    <2>1. lock = u => lock' = u
      BY <1>1 DEF Duty
    <2> QED
      BY <2>1, Undisturbed DEF IInv, Removes
  <1>3. \A p \in Pids : os'[p] \in Nonces => os'[p] = os[p]
    BY NoStranger DEF Ebbs
  <1>4. PidsKept' /\ NoncesOnce' /\ MapAgrees'
    BY <1>3, PidsEbb, NoncesEbb, MapEbbs DEF IInv, Ebbs, Removes
  <1>5. Budget' /\ Accounted'
    <2>1. \A u \in Threads : u \in Workers
      BY DEF Workers
    <2>2. Budget'
      BY <2>1, BudgetEbbs DEF IInv, Ebbs
    <2>3. Accounted'
      BY <1>3, AccountedMoves DEF IInv, Ebbs
    <2> QED
      BY <2>2, <2>3
  <1>6. Turns'
    BY <1>1, TurnsStay DEF Ebbs
  <1> QED
    BY <1>2, <1>4, <1>5, <1>6 DEF IInv

\* What a thread with the lock may make of the journal: leave it, or write there
\* a child of its own manager.
Leaves(t) ==
    Runs(journal)' =>
        \/ /\ journal' = journal /\ Runs(journal)
           /\ \A m \in Managers : m # th[t].mgr => retained'[m] = retained[m]
        \/ retained'[th[t].mgr][journal'[1].pid] = journal'[1].nonce

\* While one thread has the lock, the others count on nothing else it changes.
LEMMA OutOfTheWay ==
    ASSUME IInv, NEW t \in Workers, th[t].pc \in Locked,
           Types', Leaves(t), PidsKept', parted' = parted,
           NEW u \in Workers, u # t, th'[u] = th[u]
    PROVE  Duty(u)'
  <1> DEFINE w == th[u]
  <1>1. /\ Types /\ Duty(u) /\ Duty(t) /\ th[t] # IdleThread /\ th[t].mgr \in Managers
        /\ w.held = 0 /\ w.pc \notin Locked
    <2>1. Duty(t) /\ Duty(u) /\ Types /\ th[t].pc # "idle"
      BY DEF IInv, Locked
    <2>2. th[t] # IdleThread /\ th[t].mgr \in Managers
      BY <2>1, Awake
    <2>3. w.pc \notin Locked
      BY <2>1 DEF Duty
    <2> QED
      BY <2>1, <2>2, <2>3 DEF Duty, HeldDuty, Locked
  <1>2. /\ ~Looks(w) /\ ~Judges(w) /\ ~Replaces(w) /\ ~Forgets(w) /\ ~Prepares(w)
        /\ ~Creates(w) /\ ~Undoes(w)
    BY <1>1 DEF Locked, Looks, Judges, Replaces, Forgets, Prepares, Creates,
                Undoes, Stopping
  <1>3. ASSUME w.op = "reconcile", w.pc \in {"lock", "recover"}, Runs(journal)'
        PROVE  journal' = w.rec \/ OfAnother(u)'
    <2>1. u = Main /\ t \in Threads /\ w # IdleThread
      BY <1>1, <1>3, Idle DEF Duty, Workers
    <2>2. w.mgr = manager /\ th[t].mgr # manager /\ w.mgr \in Managers
      BY <1>1, <2>1 DEF IInv, Turns, Mine, Duty, Placed
    <2>3. parted
      BY <1>1, <2>1, <2>2 DEF IInv, Turns, Mine
    <2>4. Runs(journal) => journal = w.rec \/ OfAnother(u)
      BY <1>1, <1>3 DEF Duty, JournalDuty
    <2>5. CASE /\ journal' = journal /\ Runs(journal)
               /\ \A m \in Managers : m # th[t].mgr => retained'[m] = retained[m]
      BY <1>3, <2>2, <2>3, <2>4, <2>5 DEF OfAnother, Mine
    <2>6. CASE retained'[th[t].mgr][journal'[1].pid] = journal'[1].nonce
      <3>1. journal' \in AtMostOneOf(Records) /\ journal' # <<>>
        BY <1>3 DEF Types, TypeOK, Runs, Named
      <3>2. journal'[1].pid \in Pids /\ journal'[1].nonce # 0
        BY <3>1, RecordType
      <3>3. retained'[w.mgr][journal'[1].pid] = 0
        BY <1>1, <2>2, <2>6, <3>2 DEF PidsKept
      <3> QED
        BY <1>3, <2>3, <3>2, <3>3 DEF OfAnother, Mine
    <2> QED
      BY <1>3, <2>5, <2>6 DEF Leaves
  <1>4. HeldDuty(u)' /\ MapDuty(u)'
    BY <1>1, <1>2 DEF HeldDuty, MapDuty, Locked
  <1>5. JournalDuty(u)'
    BY <1>1, <1>2, <1>3 DEF JournalDuty, Locked, Stopping
  <1> QED
    BY <1>1, <1>4, <1>5 DEF Duty

\* ... and so does a step of the one with the lock that changes the map, the
\* journal or the processes, if they agree afterwards.
LEMMA MovesAlone ==
    ASSUME IInv, NEW t \in Workers, th[t].pc \in Locked,
           Types', UNCHANGED shell, spawned' = spawned,
           \A u \in Workers : u # t => th'[u] = th[u],
           th'[t].mgr = th[t].mgr,
           \A m \in Managers : m # th[t].mgr => active'[m] = active[m],
           th'[t].op = "start" /\ th'[t].nonce = 0
             => th[t].op = "start" /\ th[t].nonce = 0,
           Leaves(t), PidsKept', MapAgrees', Accounted',
           \A p \in Pids : os'[p] \in Nonces => os'[p] = os[p],
           Duty(t)'
    PROVE  IInv'
  <1>1. th[t] # IdleThread /\ parted' = parted /\ Types
    BY Idle DEF Locked, shell, IInv
  <1>2. \A u \in Workers : Duty(u)'
    BY <1>1, OutOfTheWay
  <1>3. NoncesOnce' /\ Budget'
    <2>1. \A u \in Threads : u \in Workers
      BY DEF Workers
    <2>2. Budget'
      BY <2>1, BudgetEbbs DEF IInv
    <2> QED
      BY <2>2, NoncesEbb DEF IInv
  <1>4. Turns'
    BY <1>1, TurnsStay
  <1> QED
    BY <1>2, <1>3, <1>4 DEF IInv


-----------------------------------------------------------------------------
(***************************************************************************)
(* Threads that go on, and threads that return.                            *)
(***************************************************************************)
LEMMA Faulty ==
    ASSUME Types, Fault \/ faults' = faults
    PROVE  faults' \in 0..MaxFaults
  BY LocalRuntimeAssumption DEF Types, TypeOK, Fault

LEMMA TypesNext ==
    ASSUME th' \in [Workers -> Thread],
           server' \in {"down", "booting", "serving", "draining", "closing"},
           manager' \in Managers \cup {NoManager},
           active' \in [Managers -> AtMostOneOf(Statuses)],
           mutex' \in [Managers -> Workers \cup {NoThread}],
           lock' \in Workers \cup {NoThread},
           journal' \in AtMostOneOf(Records),
           os' \in [Pids -> OrNone \cup {Stranger}],
           retained' \in [Managers -> [Pids -> OrNone]],
           recovered' \in [Managers -> [Pids -> OrNone]],
           spawned' \in OrNone, faults' \in 0..MaxFaults, lost' \subseteq Nonces,
           parted' \in BOOLEAN
    PROVE  Types'
  BY DEF Types, TypeOK, Thread, Ops

\* What most steps leave alone.
LEMMA Still ==
    ASSUME UNCHANGED shell
    PROVE  server' = server /\ manager' = manager /\ parted' = parted
  BY DEF shell

LEMMA StillDriver ==
    ASSUME UNCHANGED driver
    PROVE  /\ os' = os /\ retained' = retained /\ recovered' = recovered
           /\ spawned' = spawned
  BY DEF driver

LEMMA StillEbbs ==
    ASSUME UNCHANGED <<shell, active, driver>>, lost \subseteq lost'
    PROVE  Ebbs
  BY DEF Ebbs, driver, shell

LEMMA ReturnDuty ==
    ASSUME IInv, NEW t \in Workers, th[t].pc # "idle",
           th'[t].pc = "done", th'[t].op = "status", th'[t].held = 0,
           th'[t].mgr = th[t].mgr
    PROVE  Duty(t)'
  <1>1. th[t].mgr \in Managers
    BY Awake
  <1>2. Placed(th'[t])
    BY <1>1 DEF Placed
  <1>3. /\ ~Judges(th'[t]) /\ ~Replaces(th'[t]) /\ ~Forgets(th'[t])
        /\ ~Prepares(th'[t]) /\ ~Creates(th'[t]) /\ ~Undoes(th'[t])
    BY DEF Judges, Replaces, Forgets, Prepares, Creates, Undoes, Begins, Minted
  <1> QED
    BY <1>2, <1>3 DEF Duty, HeldDuty, MapDuty, JournalDuty, Locked, Stopping

\* A step that stays within an operation: what is left to say of the thread.
LEMMA Arrives ==
    ASSUME IInv, NEW t \in Workers, th[t].pc \notin {"idle", "done"},
           th'[t].pc # "done", th'[t].op = th[t].op, th'[t].held = 0,
           th'[t].mgr = th[t].mgr,
           th'[t].pc \in Locked => lock' = t,
           Placed(th'[t]), MapDuty(t)', JournalDuty(t)'
    PROVE  Duty(t)'
  <1>1. Duty(t) /\ th[t] # IdleThread
    BY Awake
  <1>2. t = Main => th'[t].op = "reconcile"
    BY <1>1 DEF Duty
  <1> QED
    BY <1>1, <1>2 DEF Duty, HeldDuty

\* Where a thread can be, by its step.
LEMMA Places ==
    ASSUME NEW w, Placed(w)
    PROVE  /\ w.pc = "lock" => Enters(w) \/ (Sweeps(w) /\ w.todo = <<"recover">>
                                                     /\ w.rec # <<>>)
           /\ w.pc = "look" => Looks(w)
           /\ w.pc = "judge" => Judges(w)
           /\ w.pc = "clear" =>
                 \/ Replaces(w) /\ w.todo = <<"orphan">>
                 \/ Forgets(w) /\ w.todo = <<"unrecord", "orphan">>
                 \/ Undoes(w) /\ w.todo = <<"stop", "unrecord", "done">>
           /\ w.pc = "rewrite" =>
                 \/ Replaces(w) /\ w.todo = <<"stop", "unrecord", "clear", "orphan">>
                 \/ Ends(w) /\ w.todo = <<"stop", "unrecord", "drop", "done">>
           /\ w.pc \in Stopping =>
                 \/ Replaces(w) /\ w.todo = <<"unrecord", "clear", "orphan">>
                 \/ Prepares(w) /\ w.todo = <<"unrecord", "spawn">>
                 \/ Undoes(w) /\ w.todo \in {<<"unrecord", "done">>, <<"done">>}
                 \/ Ends(w) /\ w.todo = <<"unrecord", "drop", "done">>
                 \/ Sweeps(w) /\ w.todo = <<"unrecord", "done">>
           /\ w.pc = "unrecord" =>
                 \/ Replaces(w) /\ w.todo = <<"clear", "orphan">>
                 \/ Prepares(w) /\ w.todo \in {<<"orphan">>, <<"spawn">>}
                 \/ Undoes(w) /\ w.todo = <<"done">>
                 \/ Ends(w) /\ w.todo = <<"drop", "done">>
                 \/ Sweeps(w) /\ w.todo = <<"done">>
           /\ w.pc = "disown" =>
                 \/ Prepares(w) /\ w.todo = <<"spawn">>
                 \/ Sweeps(w) /\ w.todo = <<"done">>
           /\ w.pc \in {"orphan", "spawn"} => Prepares(w)
           /\ w.pc = "check" => Ends(w)
           /\ w.pc = "drop" => Ends(w) /\ w.todo = <<"done">>
           /\ w.pc \in {"record", "announce", "await", "ready", "publish"} => Creates(w)
           /\ w.pc \in {"peek", "load", "verify", "statusClear", "statusRemove"}
                 => Asks(w)
           /\ w.pc \in {"list", "recover"} => Sweeps(w)
           /\ w.pc \notin {"idle", "done"} => w.mgr \in Managers
  <1>1. w.pc \notin {"idle", "done"} => w # IdleThread
    BY Idle
  <1> QED
    BY <1>1, Idle DEF Placed, Asks, Enters, Looks, Judges, Replaces, Forgets, Prepares,
       Creates, Undoes, Ends, Sweeps, Stopping

\* The steps of a thread with the lock that goes on, and those that fail.
LEMMA GoesOn ==
    ASSUME IInv, NEW t \in Workers, th[t].pc \in Locked, Proceed(t),
           th[t].todo # <<>>,
           UNCHANGED shell, lock' = lock,
           mutex' \in [Managers -> Workers \cup {NoThread}],
           active' \in [Managers -> AtMostOneOf(Statuses)],
           journal' \in AtMostOneOf(Records),
           os' \in [Pids -> OrNone \cup {Stranger}],
           retained' \in [Managers -> [Pids -> OrNone]],
           recovered' \in [Managers -> [Pids -> OrNone]],
           spawned' = spawned,
           Fault \/ faults' = faults, lost' \subseteq Nonces
    PROVE  /\ th' \in [Workers -> Thread] /\ Types'
           /\ \A u \in Workers : u # t => th'[u] = th[u]
           /\ th'[t].pc = Head(th[t].todo) /\ th'[t].held = 0
           /\ th'[t].mgr = th[t].mgr /\ lock' = t
           /\ th'[t].pc = "done" => th'[t].op = "status" /\ th'[t].nonce = 0
           /\ th'[t].pc # "done" =>
                 /\ th'[t].todo = Tail(th[t].todo)
                 /\ th'[t].op = th[t].op /\ th'[t].inst = th[t].inst
                 /\ th'[t].seen = th[t].seen /\ th'[t].rec = th[t].rec
                 /\ th'[t].pid = th[t].pid /\ th'[t].nonce = th[t].nonce
  <1>1. Types /\ Duty(t)
    BY DEF IInv
  <1>2. /\ th' \in [Workers -> Thread]
        /\ \A u \in Workers : u # t => th'[u] = th[u]
        /\ th'[t].pc = Head(th[t].todo) /\ th'[t].held = 0 /\ th'[t].mgr = th[t].mgr
        /\ th'[t].pc = "done" => th'[t].op = "status" /\ th'[t].nonce = 0
        /\ th'[t].pc # "done" =>
                 /\ th'[t].todo = Tail(th[t].todo)
                 /\ th'[t].op = th[t].op /\ th'[t].inst = th[t].inst
                 /\ th'[t].seen = th[t].seen /\ th'[t].rec = th[t].rec
                 /\ th'[t].pid = th[t].pid /\ th'[t].nonce = th[t].nonce
    BY <1>1, Proceeds
  <1>3. Types'
    BY <1>1, <1>2, TypesNext, Faulty DEF Types, TypeOK, shell
  <1> QED
    BY <1>1, <1>2, <1>3 DEF Duty

LEMMA GivesUp ==
    ASSUME IInv, NEW t \in Workers, th[t].pc # "idle",
           th[t].pc \notin Hand, lock' = lock,
           Fault \/ faults' = faults, Return(t), Ebbs, UNCHANGED shell,
           mutex' \in [Managers -> Workers \cup {NoThread}],
           active' \in [Managers -> AtMostOneOf(Statuses)],
           journal' \in AtMostOneOf(Records), journal' = journal \/ Removes,
           os' \in [Pids -> OrNone \cup {Stranger}],
           retained' \in [Managers -> [Pids -> OrNone]],
           recovered' \in [Managers -> [Pids -> OrNone]], lost' \subseteq Nonces
    PROVE  IInv'
  <1>1. Types /\ th[t].held = 0
    BY Awake DEF Hand, Stopping
  <1>2. /\ th' \in [Workers -> Thread]
        /\ \A u \in Workers : u # t => th'[u] = th[u]
        /\ th'[t].pc = "done" /\ th'[t].held = 0 /\ th'[t].mgr = th[t].mgr
        /\ th'[t].op = "status" /\ th'[t].nonce = 0
    BY <1>1, Returns
  <1>3. Types'
    BY <1>1, <1>2, TypesNext, Faulty DEF Types, TypeOK, shell, Ebbs
  <1>4. Duty(t)'
    BY <1>2, ReturnDuty
  <1>5. Hands(t)
    BY DEF Hands
  <1> QED
    BY <1>1, <1>2, <1>3, <1>4, <1>5, Moves

LEMMA Acquires ==
    ASSUME IInv, NEW t \in Workers, Acquire(t)
    PROVE  IInv'
  <1> DEFINE w == th[t]
             x == th'[t]
  <1>1. /\ w.pc = "lock" /\ lock = NoThread /\ lock' = t /\ Proceed(t)
        /\ UNCHANGED <<shell, active, mutex, journal, driver, faults, lost>>
    BY DEF Acquire, At
  <1>2. Types /\ Duty(t) /\ w.held = 0 /\ w.mgr \in Managers
    BY <1>1, Awake
  <1>3. Enters(w) \/ (Sweeps(w) /\ w.todo = <<"recover">> /\ w.rec # <<>>)
    BY <1>1, <1>2, Places DEF Duty
  <1>4. w.todo \in {<<"look">>, <<"check">>, <<"recover">>} /\ w.todo # <<>>
    BY <1>3, Heads DEF Enters
  <1>5. /\ th' \in [Workers -> Thread]
        /\ \A u \in Workers : u # t => th'[u] = th[u]
        /\ x.pc = Head(w.todo) /\ x.held = 0 /\ x.mgr = w.mgr
        /\ x.pc # "done" => /\ x.op = w.op /\ x.inst = w.inst /\ x.rec = w.rec
                            /\ x.nonce = w.nonce
    BY <1>1, <1>2, <1>4, Proceeds
  <1>6. x.pc \in {"look", "check", "recover"}
    BY <1>4, <1>5, Heads
  <1>7. Types'
    BY <1>1, <1>2, <1>5, TypesNext, Still, StillDriver DEF Types, TypeOK
  <1>8. Duty(t)'
    <2>1. CASE Begins(w) /\ w.todo = <<"look">>
      <3>1. Looks(x)
        BY <1>5, <1>6, <2>1, Heads DEF Looks, Begins
      <3>2. MapDuty(t)' /\ JournalDuty(t)'
        BY <3>1 DEF MapDuty, JournalDuty, Looks, Begins, Judges, Replaces, Forgets,
                    Prepares, Creates, Undoes, Stopping
      <3> QED
        BY <1>1, <1>2, <1>5, <1>6, <3>1, <3>2, Arrives DEF Placed
    <2>2. CASE w.op = "stop" /\ w.todo = <<"check">> /\ w.nonce = 0
      <3>1. Ends(x) /\ x.pc = "check"
        BY <1>5, <1>6, <2>2, Heads DEF Ends
      <3>2. MapDuty(t)' /\ JournalDuty(t)'
        BY <3>1 DEF MapDuty, JournalDuty, Ends, Begins, Judges, Replaces, Forgets,
                    Prepares, Creates, Undoes, Stopping
      <3> QED
        BY <1>1, <1>2, <1>5, <1>6, <3>1, <3>2, Arrives DEF Placed
    <2>3. CASE Sweeps(w) /\ w.todo = <<"recover">> /\ w.rec # <<>>
      <3>1. Sweeps(x) /\ x.pc = "recover"
        BY <1>5, <1>6, <2>3, Heads DEF Sweeps
      <3>2. Runs(journal) => journal = w.rec \/ OfAnother(t)
        BY <1>1, <1>2, <2>3 DEF Duty, JournalDuty, Sweeps
      <3>3. MapDuty(t)' /\ JournalDuty(t)'
        BY <1>1, <1>2, <1>5, <1>6, <3>1, <3>2, Still, StillDriver
           DEF MapDuty, JournalDuty, Sweeps, Begins, Judges, Replaces, Forgets,
               Prepares, Creates, Undoes, Minted, Stopping, Runs, Named, OfAnother, Mine
      <3> QED
        BY <1>1, <1>2, <1>5, <1>6, <3>1, <3>3, Arrives DEF Placed
    <2> QED
      BY <1>3, <2>1, <2>2, <2>3 DEF Enters
  <1>9. \A u \in Workers : u # t /\ lock = u => lock' = u
    BY <1>1, LocalRuntimeAssumption DEF Workers
  <1>10. Ebbs /\ Hands(t)
    BY <1>1, StillEbbs DEF Hands, Hand, Stopping
  <1>11. x.op = "start" /\ x.nonce = 0 => w.op = "start" /\ w.nonce = 0
    BY <1>5, <1>6
  <1>12. journal' = journal /\ UNCHANGED shell
    BY <1>1
  <1> QED
    BY <1>1, <1>2, <1>5, <1>7, <1>8, <1>9, <1>10, <1>11, <1>12, Moves

LEMMA LookSteps ==
    ASSUME IInv, NEW t \in Workers, Look(t)
    PROVE  IInv'
  <1> DEFINE w == th[t]
             x == th'[t]
             m == th[t].mgr
  <1>1. /\ w.pc = "look"
        /\ UNCHANGED <<shell, active, mutex, journal, lock, driver, faults, lost>>
        /\ th' = [th EXCEPT ![t].seen = active[m],
                            ![t].pc = IF active[m] = <<>> THEN "orphan" ELSE "judge"]
    BY DEF Look, At, Shown, Mine
  <1>2. Types /\ Duty(t) /\ w.held = 0 /\ m \in Managers /\ lock = t /\ w.pc \in Locked
    BY <1>1, Awake DEF Duty, Locked
  <1>3. Looks(w)
    BY <1>1, <1>2, Places DEF Duty
  <1>4. active[m] \in AtMostOneOf(Statuses) /\ th \in [Workers -> Thread]
        /\ journal \in AtMostOneOf(Records)
    BY <1>2 DEF Types, TypeOK
  <1>5. /\ th' \in [Workers -> Thread]
        /\ \A u \in Workers : u # t => th'[u] = th[u]
        /\ x.pc = (IF active[m] = <<>> THEN "orphan" ELSE "judge")
        /\ x.op = w.op /\ x.nonce = w.nonce /\ x.inst = w.inst /\ x.mgr = w.mgr
        /\ x.seen = active[m] /\ x.held = 0
    BY <1>1, <1>2, <1>4 DEF Thread, Steps
  <1>6. Types'
    BY <1>1, <1>2, <1>5, TypesNext, Still, StillDriver DEF Types, TypeOK
  <1>7. Duty(t)'
    <2>1. CASE active[m] = <<>>
      <3>1. Prepares(x) /\ x.pc = "orphan"
        BY <1>3, <1>5, <2>1 DEF Prepares, Looks, Begins
      <3>2. MapDuty(t)' /\ JournalDuty(t)'
        BY <1>1, <1>5, <2>1, <3>1
           DEF MapDuty, JournalDuty, Prepares, Begins, Judges, Replaces, Forgets,
               Creates, Undoes, Minted, Stopping
      <3> QED
        BY <1>1, <1>2, <1>5, <3>1, <3>2, Arrives DEF Placed
    <2>2. CASE active[m] # <<>>
      <3>1. Judges(x) /\ x.pc = "judge"
        BY <1>3, <1>5, <2>2 DEF Judges, Looks, Begins
      <3>2. Sound(m, active[m])
        <4> SUFFICES ASSUME Runs(journal)
                     PROVE  IF retained[m][journal[1].pid] = journal[1].nonce
                            THEN Matches(journal, active[m]) ELSE parted
          BY DEF Sound
        <4>1. journal[1].nonce # 0
          BY <1>4, RecordType DEF Runs, Named
        <4>2. \A u \in Workers : th[u].held # journal[1].nonce
          <5>1. \A u \in Workers : u # t => th[u].pc \notin Locked
            BY <1>2 DEF IInv, Duty
          <5> QED
            BY <1>1, <1>2, <4>1, <5>1 DEF IInv, Duty, HeldDuty, Locked
        <4> QED
          BY <1>2, <2>2, <4>2 DEF IInv, MapAgrees, Kept
      <3>3. Sound(m, active[m])'
        BY <1>1, <1>5, <3>2, Still, StillDriver DEF Sound, Matches, Runs, Named
      <3>4. MapDuty(t)' /\ JournalDuty(t)'
        BY <1>1, <1>5, <2>2, <3>1, <3>3
           DEF MapDuty, JournalDuty, Prepares, Begins, Judges, Replaces, Forgets,
               Creates, Undoes, Minted, Stopping
      <3> QED
        BY <1>1, <1>2, <1>5, <3>1, <3>4, Arrives DEF Placed
    <2> QED
      BY <2>1, <2>2
  <1>8. Ebbs /\ Hands(t)
    BY <1>1, StillEbbs DEF Hands, Hand, Stopping
  <1>9. journal' = journal /\ UNCHANGED shell /\ w.held = 0 /\ x.held = 0
    BY <1>1, <1>2, <1>5
  <1> QED
    BY <1>1, <1>2, <1>5, <1>6, <1>7, <1>8, <1>9, Moves

LEMMA Reaps ==
    ASSUME Types, NEW m \in Managers, NEW p \in Pids, retained' = Reap(m, p),
           UNCHANGED <<shell, active, os, spawned>>, lost \subseteq lost'
    PROVE  Ebbs /\ retained' \in [Managers -> [Pids -> OrNone]]
  BY Identities DEF Ebbs, shell

\* What a manager says of the journal, while its own thread goes on.
LEMMA ForsakenStays ==
    ASSUME Types, Ebbs, NEW t \in Workers, th[t].mgr \in Managers,
           th'[t].mgr = th[t].mgr, journal' = journal \/ journal' = <<>>
    PROVE  /\ Forsaken(t) => Forsaken(t)'
           /\ OfAnother(t) /\ Runs(journal)' => OfAnother(t)'
           /\ Runs(journal)' => Runs(journal) /\ journal' = journal
  <1> DEFINE m == th[t].mgr
  <1>1. journal \in AtMostOneOf(Records) /\ ~Gone(m)
    BY DEF Types, TypeOK, Gone
  <1>2. Runs(journal)' => Runs(journal) /\ journal' = journal /\ journal # <<>>
    <2>1. CASE journal' = journal
      BY <1>1, <2>1, EbbsRuns DEF Runs, Named
    <2>2. CASE journal' = <<>>
      BY <2>2 DEF Runs, Named
    <2> QED
      BY <2>1, <2>2
  <1>3. ASSUME OfAnother(t), Runs(journal)'
        PROVE  OfAnother(t)'
    <2>1. journal' = journal /\ journal # <<>> /\ parted'
      BY <1>2, <1>3 DEF OfAnother, Ebbs
    <2>2. retained[m][journal[1].pid] # journal[1].nonce
      BY <1>3 DEF OfAnother, Mine
    <2>3. retained'[m][journal[1].pid] # journal[1].nonce
      BY <1>1, <2>1, <2>2, RecordType DEF Ebbs
    <2> QED
      BY <1>3, <2>1, <2>3 DEF OfAnother, Mine
  <1> QED
    BY <1>2, <1>3 DEF Forsaken

\* An operation that ends by the record it has read.
LEMMA ReadyMade ==
    ASSUME IInv, NEW t \in Workers, th[t].pc # "idle",
           th'[t].pc = "done", th'[t].op = th[t].op, th'[t].held = 0,
           th'[t].mgr = th[t].mgr
    PROVE  Duty(t)'
  <1>1. th[t].mgr \in Managers /\ Duty(t)
    BY Awake
  <1>2. Placed(th'[t])
    BY <1>1 DEF Placed
  <1>3. /\ ~Judges(th'[t]) /\ ~Replaces(th'[t]) /\ ~Forgets(th'[t])
        /\ ~Prepares(th'[t]) /\ ~Creates(th'[t]) /\ ~Undoes(th'[t])
    BY DEF Judges, Replaces, Forgets, Prepares, Creates, Undoes, Begins, Minted, Stopping
  <1> QED
    BY <1>1, <1>2, <1>3 DEF Duty, HeldDuty, MapDuty, JournalDuty, Locked, Stopping

LEMMA JudgeSteps ==
    ASSUME IInv, NEW t \in Workers, Judge(t)
    PROVE  IInv'
  <1> DEFINE w == th[t]
             x == th'[t]
             m == th[t].mgr
             status     == w.seen[1]
             identity   == Identity(Mine(t), status.pid)
             ownsRecord == Matches(journal, w.seen)
             ownsProcess == Named(journal) /\ identity = journal[1].nonce
             same       == <<status.inst>> = w.inst
             sameApp    == AppOf[status.inst] = AppOf[w.inst[1]]
             plan       ==
               CASE same /\ ownsRecord /\ ownsProcess -> <<"done">>
                 [] same /\ ~(ownsRecord /\ ownsProcess) ->
                      <<"clear", "unrecord", "orphan">>
                 [] ~same /\ sameApp /\ ownsRecord /\ ownsProcess ->
                      <<"rewrite", "stop", "unrecord", "clear", "orphan">>
                 [] ~same /\ sameApp /\ ownsRecord /\ ~ownsProcess /\ identity = 0 ->
                      <<"unrecord", "clear", "orphan">>
                 [] OTHER -> <<"done">>
  <1>1. /\ w.pc = "judge"
        /\ UNCHANGED <<shell, active, mutex, journal, lock, os, recovered, spawned,
                       lost>>
        /\ \/ /\ retained' = Reap(m, status.pid)
              /\ th' = [th EXCEPT ![t].rec = journal, ![t].pid = <<status.pid>>,
                                  ![t].pc = Head(plan), ![t].todo = Tail(plan)]
              /\ UNCHANGED faults
           \/ Fault /\ Return(t) /\ UNCHANGED retained
    BY DEF Judge, At, Mine
  <1>2. /\ Types /\ Duty(t) /\ w.held = 0 /\ m \in Managers /\ lock = t
        /\ w.pc \in Locked /\ w.pc \notin Hand
    BY <1>1, Awake DEF Duty, Locked, Hand, Stopping
  <1>3. Judges(w) /\ active[m] \in {<<>>, w.seen} /\ Sound(m, w.seen)
    BY <1>1, <1>2, Places DEF Duty, MapDuty, JournalDuty
  <1>4. /\ status.pid \in Pids /\ w.seen # <<>>
        /\ active \in [Managers -> AtMostOneOf(Statuses)]
        /\ journal \in AtMostOneOf(Records)
        /\ retained \in [Managers -> [Pids -> OrNone]]
        /\ journal # <<>> => journal[1].pid \in Pids /\ journal[1].nonce \in Nonces
                             /\ journal[1].nonce # 0
    <2>1. w.seen \in AtMostOneOf(Statuses) /\ w.seen # <<>>
      BY <1>2, <1>3, ThreadType DEF Judges
    <2>2. journal \in AtMostOneOf(Records)
      BY <1>2 DEF Types, TypeOK
    <2> QED
      BY <1>2, <2>1, <2>2, Singles, RecordType DEF Statuses, Types, TypeOK
  <1>5. Ebbs /\ retained' \in [Managers -> [Pids -> OrNone]]
    <2>1. CASE retained' = Reap(m, status.pid)
      BY <1>1, <1>2, <1>4, <2>1, Reaps
    <2>2. CASE retained' = retained
      BY <1>1, <1>4, <2>2 DEF Ebbs, shell
    <2> QED
      BY <1>1, <2>1, <2>2
  <1>6. ~(ownsRecord /\ ownsProcess) => Forsaken(t)
    <2> SUFFICES ASSUME ~(ownsRecord /\ ownsProcess), Runs(journal)
                 PROVE  OfAnother(t)
      BY DEF Forsaken
    <2>1. retained[m][journal[1].pid] # journal[1].nonce
      <3> SUFFICES ASSUME retained[m][journal[1].pid] = journal[1].nonce
                   PROVE  FALSE
        OBVIOUS
      <3>1. Matches(journal, w.seen) /\ journal # <<>>
        BY <1>3 DEF Sound, Runs, Named
      <3>2. status.pid = journal[1].pid
        BY <3>1 DEF Matches
      <3>3. identity = journal[1].nonce
        BY <1>2, <1>4, <3>1, <3>2, Identities DEF Runs, Mine
      <3> QED
        BY <3>1, <3>3 DEF Named
    <2> QED
      BY <1>3, <2>1 DEF OfAnother, Sound, Mine
  <1>7. CASE Fault /\ Return(t) /\ UNCHANGED retained
    BY <1>1, <1>2, <1>5, <1>7, GivesUp DEF Types, TypeOK
  <1>8. \/ plan = <<"done">>
        \/ /\ plan = <<"clear", "unrecord", "orphan">>
           /\ ~(ownsRecord /\ ownsProcess)
        \/ /\ plan = <<"rewrite", "stop", "unrecord", "clear", "orphan">>
           /\ ownsRecord /\ ownsProcess
        \/ /\ plan = <<"unrecord", "clear", "orphan">> /\ ~(ownsRecord /\ ownsProcess)
    OBVIOUS
  <1>9. CASE retained' = Reap(m, status.pid) /\ faults' = faults /\
             th' = [th EXCEPT ![t].rec = journal, ![t].pid = <<status.pid>>,
                              ![t].pc = Head(plan), ![t].todo = Tail(plan)]
    <2> HIDE DEF plan
    <2>1. Head(plan) \in Steps /\ Tail(plan) \in Seq(Steps)
      <3>1. /\ "done" \in Steps /\ "clear" \in Steps /\ "unrecord" \in Steps
            /\ "orphan" \in Steps /\ "rewrite" \in Steps /\ "stop" \in Steps
        BY DEF Steps
      <3>2. /\ <<>> \in Seq(Steps)
            /\ <<"unrecord", "orphan">> \in Seq(Steps)
            /\ <<"stop", "unrecord", "clear", "orphan">> \in Seq(Steps)
            /\ <<"clear", "orphan">> \in Seq(Steps)
        BY <3>1, Lists
      <3>3. /\ Head(<<"done">>) = "done" /\ Tail(<<"done">>) = <<>>
            /\ Head(<<"clear", "unrecord", "orphan">>) = "clear"
            /\ Tail(<<"clear", "unrecord", "orphan">>) = <<"unrecord", "orphan">>
            /\ Head(<<"unrecord", "clear", "orphan">>) = "unrecord"
            /\ Tail(<<"unrecord", "clear", "orphan">>) = <<"clear", "orphan">>
        BY Heads
      <3>4. /\ Head(<<"rewrite", "stop", "unrecord", "clear", "orphan">>) = "rewrite"
            /\ Tail(<<"rewrite", "stop", "unrecord", "clear", "orphan">>)
                 = <<"stop", "unrecord", "clear", "orphan">>
        BY Heads
      <3>5. plan \in {<<"done">>, <<"clear", "unrecord", "orphan">>,
                      <<"unrecord", "clear", "orphan">>,
                      <<"rewrite", "stop", "unrecord", "clear", "orphan">>}
        BY <1>8
      <3> QED
        BY <3>1, <3>2, <3>3, <3>4, <3>5
    <2>2. th \in [Workers -> Thread] /\ <<status.pid>> \in AtMostOneOf(Pids)
      BY <1>2, <1>4 DEF Types, AtMostOneOf
    <2>3. /\ th' \in [Workers -> Thread]
          /\ \A u \in Workers : u # t => th'[u] = th[u]
          /\ x.pc = Head(plan) /\ x.todo = Tail(plan) /\ x.rec = journal
          /\ x.pid = <<status.pid>> /\ x.held = 0 /\ x.op = w.op /\ x.mgr = w.mgr
          /\ x.nonce = w.nonce /\ x.inst = w.inst /\ x.seen = w.seen
      <3> DEFINE y == [w EXCEPT !.rec = journal, !.pid = <<status.pid>>,
                                !.pc = Head(plan), !.todo = Tail(plan)]
      <3>1. th' = [th EXCEPT ![t] = y]
        BY <1>9, <2>2
      <3>2. w \in Thread
        BY <2>2
      <3>3. /\ y \in Thread /\ y.pc = Head(plan) /\ y.todo = Tail(plan)
            /\ y.rec = journal /\ y.pid = <<status.pid>> /\ y.held = w.held
            /\ y.op = w.op /\ y.mgr = w.mgr
            /\ y.nonce = w.nonce /\ y.inst = w.inst /\ y.seen = w.seen
        BY <1>4, <2>1, <2>2, <3>2 DEF Thread
      <3> HIDE DEF y
      <3> QED
        BY <1>2, <2>2, <3>1, <3>3
    <2>4. Types'
      BY <1>1, <1>2, <1>5, <1>9, <2>3, TypesNext, Still DEF Types, TypeOK
    <2>5. (Begins(w) => Begins(x)) /\ lock' = t /\ w.op = "start" /\ Begins(w)
      BY <1>1, <1>2, <1>3, <2>3 DEF Begins, Judges
    <2>6. Forsaken(t) => Forsaken(t)'
      BY <1>1, <1>2, <1>5, <2>3, ForsakenStays
    <2>7. active'[m] = active[m] /\ journal' = journal
      BY <1>1
    <2>8. Duty(t)'
      <3>1. CASE plan = <<"done">>
        BY <1>1, <2>3, <3>1, Heads, ReadyMade
      <3>2. CASE /\ plan = <<"clear", "unrecord", "orphan">>
                 /\ ~(ownsRecord /\ ownsProcess)
        <4>1. x.pc = "clear" /\ x.todo = <<"unrecord", "orphan">>
          BY <2>3, <3>2, Heads
        <4>2. Forgets(x) /\ Forsaken(t)'
          BY <1>3, <1>6, <2>3, <2>5, <2>6, <3>2, <4>1 DEF Forgets, Judges
        <4>3. MapDuty(t)' /\ JournalDuty(t)'
          BY <1>3, <2>3, <2>5, <2>7, <4>1, <4>2
             DEF MapDuty, JournalDuty, Prepares, Begins, Creates, Undoes, Minted, Stopping
        <4> QED
          BY <1>1, <1>2, <2>3, <2>5, <4>1, <4>2, <4>3, Arrives DEF Placed
      <3>3. CASE /\ plan = <<"rewrite", "stop", "unrecord", "clear", "orphan">>
                 /\ ownsRecord /\ ownsProcess
        <4>1. x.pc = "rewrite" /\ x.todo = <<"stop", "unrecord", "clear", "orphan">>
          BY <2>3, <3>3, Heads
        <4>2. Replaces(x)
          BY <1>3, <2>3, <2>5, <4>1 DEF Replaces, Judges
        <4>3. /\ x.rec # <<>> /\ x.pid = <<x.rec[1].pid>> /\ status.pid = journal[1].pid
          BY <2>3, <3>3 DEF Matches, Named
        <4>4. retained[m][journal[1].pid] = journal[1].nonce
          BY <1>2, <1>4, <2>3, <3>3, <4>3, Identities DEF Mine
        <4>5. Child(m, journal)'
          <5>1. ~Gone(m)
            BY <2>3 DEF Gone
          <5>2. /\ journal[1].pid \in Pids /\ journal # <<>> /\ x.mgr = m
                /\ os' = os /\ journal' = journal
            BY <1>1, <1>4, <2>3, <3>3 DEF Named
          <5>3. \/ retained'[m][journal[1].pid] = retained[m][journal[1].pid]
                \/ os[journal[1].pid] # retained[m][journal[1].pid]
            BY <1>2, <1>5, <5>1, <5>2 DEF Ebbs
          <5> QED
            BY <4>4, <5>2, <5>3 DEF Child, Runs, Named
        <4>6. Within(w.mgr, w.rec)' /\ Names(w.rec)' /\ Child(w.mgr, w.rec)'
          BY <1>3, <2>3, <2>7, <3>3, <4>5 DEF Within, Names, Child, Runs, Named, Matches
        <4>8. ~Prepares(x) /\ ~Creates(x) /\ ~Undoes(x) /\ ~Forgets(x) /\ ~Judges(x)
          BY <2>5, <4>1
             DEF Prepares, Begins, Creates, Undoes, Minted, Forgets, Judges, Stopping
        <4>7. MapDuty(t)' /\ JournalDuty(t)'
          BY <1>3, <2>3, <2>5, <2>7, <4>1, <4>3, <4>6, <4>8
             DEF MapDuty, JournalDuty, Stopping
        <4> QED
          BY <1>1, <1>2, <2>3, <2>5, <4>1, <4>2, <4>7, Arrives DEF Placed
      <3>4. CASE plan = <<"unrecord", "clear", "orphan">> /\ ~(ownsRecord /\ ownsProcess)
        <4>1. x.pc = "unrecord" /\ x.todo = <<"clear", "orphan">>
          BY <2>3, <3>4, Heads
        <4>2. Replaces(x) /\ Forsaken(t)'
          BY <1>3, <1>6, <2>3, <2>5, <2>6, <3>4, <4>1 DEF Replaces, Judges
        <4>3. ~Prepares(x) /\ ~Creates(x) /\ ~Undoes(x) /\ ~Forgets(x) /\ ~Judges(x)
          <5>1. x.todo # <<"orphan">> /\ x.todo # <<"spawn">>
            BY <4>1, Heads
          <5> QED
            BY <2>5, <4>1, <5>1
               DEF Prepares, Begins, Creates, Undoes, Minted, Forgets, Judges, Stopping
        <4>4. MapDuty(t)' /\ JournalDuty(t)'
          BY <1>3, <2>3, <2>5, <2>7, <4>1, <4>2, <4>3 DEF MapDuty, JournalDuty, Stopping
        <4> QED
          BY <1>1, <1>2, <2>3, <2>5, <4>1, <4>2, <4>4, Arrives DEF Placed
      <3> QED
        BY <1>8, <3>1, <3>2, <3>3, <3>4
    <2>9. Hands(t) /\ UNCHANGED shell /\ journal' = journal
      BY <1>1, <1>2 DEF Hands
    <2>10. x.op = "start" /\ x.nonce = 0 => w.op = "start" /\ w.nonce = 0
      BY <2>3
    <2> QED
      BY <1>1, <1>2, <1>5, <2>3, <2>4, <2>8, <2>9, <2>10, Moves
  <1> QED
    BY <1>1, <1>7, <1>9

LEMMA ClearSteps ==
    ASSUME IInv, NEW t \in Workers, Clear(t)
    PROVE  IInv'
  <1> DEFINE w == th[t]
             x == th'[t]
             m == th[t].mgr
  <1>1. /\ w.pc = "clear" /\ Proceed(t)
        /\ ClearEntry(m, IF w.nonce = 0 THEN <<w.seen[1].inst>> ELSE w.inst)
        /\ UNCHANGED <<shell, mutex, journal, lock, driver, faults, lost>>
    BY DEF Clear, At, Mine
  <1>2. /\ Types /\ Duty(t) /\ w.held = 0 /\ m \in Managers /\ lock = t
        /\ w.pc \in Locked /\ w.pc \notin Hand
    BY <1>1, Awake DEF Duty, Locked, Hand, Stopping
  <1>3. \/ Replaces(w) /\ w.todo = <<"orphan">>
        \/ Forgets(w) /\ w.todo = <<"unrecord", "orphan">>
        \/ Undoes(w) /\ w.todo = <<"stop", "unrecord", "done">>
    BY <1>1, <1>2, Places DEF Duty
  <1>4. active \in [Managers -> AtMostOneOf(Statuses)] /\ <<>> \in AtMostOneOf(Statuses)
    BY <1>2 DEF Types, TypeOK, AtMostOneOf
  <1>5. /\ active' \in [Managers -> AtMostOneOf(Statuses)]
        /\ \A n \in Managers : active'[n] \in {active[n], <<>>}
        /\ w.nonce = 0 /\ active[m] \in {<<>>, w.seen} => active'[m] = <<>>
    BY <1>1, <1>2, <1>4 DEF ClearEntry
  <1>6. Ebbs
    BY <1>1, <1>5 DEF Ebbs, driver, shell
  <1>7. w.todo # <<>>
    BY <1>3, Heads
  <1>8. /\ th' \in [Workers -> Thread] /\ Types'
        /\ \A u \in Workers : u # t => th'[u] = th[u]
        /\ x.pc = Head(w.todo) /\ x.held = 0 /\ x.mgr = w.mgr /\ lock' = t
        /\ x.pc = "done" => x.op = "status" /\ x.nonce = 0
        /\ x.pc # "done" =>
              /\ x.todo = Tail(w.todo) /\ x.op = w.op /\ x.inst = w.inst
              /\ x.seen = w.seen /\ x.rec = w.rec /\ x.pid = w.pid /\ x.nonce = w.nonce
    BY <1>1, <1>2, <1>5, <1>7, GoesOn, StillDriver DEF Types, TypeOK
  <1>9. Duty(t)' /\ x.pc # "done"
    <2>1. CASE Replaces(w) /\ w.todo = <<"orphan">>
      <3>1. x.pc = "orphan" /\ Begins(w)
        BY <1>8, <2>1, Heads DEF Replaces
      <3>2. Prepares(x) /\ Begins(x)
        BY <1>8, <3>1 DEF Begins, Prepares
      <3>3. active'[m] = <<>>
        BY <1>2, <1>5, <2>1, <3>1 DEF Duty, MapDuty, Begins
      <3>4. MapDuty(t)' /\ JournalDuty(t)'
        BY <1>8, <3>1, <3>2, <3>3
           DEF MapDuty, JournalDuty, Judges, Replaces, Forgets, Creates, Undoes, Begins,
               Minted, Stopping
      <3> QED
        BY <1>1, <1>2, <1>8, <3>1, <3>2, <3>4, Arrives DEF Placed
    <2>2. CASE Forgets(w) /\ w.todo = <<"unrecord", "orphan">>
      <3>1. x.pc = "unrecord" /\ x.todo = <<"orphan">> /\ Begins(w)
        BY <1>8, <2>2, Heads DEF Forgets
      <3>2. Prepares(x) /\ Begins(x) /\ x.todo # <<"clear", "orphan">>
        BY <1>8, <3>1, Heads DEF Begins, Prepares
      <3>3. active'[m] = <<>>
        BY <1>2, <1>5, <2>2, <3>1 DEF Duty, MapDuty, Begins
      <3>4. Forsaken(t)'
        BY <1>1, <1>2, <1>6, <1>8, <2>2, ForsakenStays DEF Duty, JournalDuty
      <3>5. MapDuty(t)' /\ JournalDuty(t)'
        BY <1>8, <3>1, <3>2, <3>3, <3>4
           DEF MapDuty, JournalDuty, Judges, Replaces, Forgets, Creates, Undoes, Begins,
               Minted, Stopping
      <3> QED
        BY <1>1, <1>2, <1>8, <3>1, <3>2, <3>5, Arrives DEF Placed
    <2>3. CASE Undoes(w) /\ w.todo = <<"stop", "unrecord", "done">>
      <3>1. x.pc = "stop" /\ x.todo = <<"unrecord", "done">> /\ Minted(w)
        BY <1>8, <2>3, Heads DEF Undoes
      <3>2. Undoes(x) /\ Minted(x)
        BY <1>8, <3>1 DEF Undoes, Minted, Stopping
      <3>3. Own(w) /\ Names(w.rec)
        BY <1>2, <2>3 DEF Duty, JournalDuty
      <3>4. Own(w)' /\ Names(w.rec)'
        BY <1>1, <1>8, <3>1, <3>3 DEF Own, Names, driver
      <3>5. journal' # <<>> => journal'[1].pid = x.pid[1]
        BY <1>1, <1>8, <3>1, <3>3 DEF Names, Minted
      <3>6. ~Judges(x) /\ ~Replaces(x) /\ ~Forgets(x) /\ ~Prepares(x) /\ ~Creates(x)
        BY <3>1, <3>2
           DEF Judges, Replaces, Forgets, Prepares, Creates, Begins, Minted, Stopping
      <3>7. x.op # "reconcile" /\ x.pid # <<>>
        BY <3>2 DEF Minted
      <3>8. MapDuty(t)' /\ JournalDuty(t)'
        BY <3>1, <3>4, <3>5, <3>6, <3>7 DEF MapDuty, JournalDuty, Stopping, Runs, Named
      <3> QED
        BY <1>1, <1>2, <1>8, <3>1, <3>2, <3>8, Arrives DEF Placed
    <2> QED
      BY <1>3, <2>1, <2>2, <2>3
  <1>10. Hands(t) /\ UNCHANGED shell /\ journal' = journal
    BY <1>1, <1>2 DEF Hands
  <1> QED
    BY <1>1, <1>2, <1>6, <1>8, <1>9, <1>10, Moves

\* What is left of the journal's runtime when the record is that of the thread.
LEMMA RecordStands ==
    ASSUME Types, Accounted, NEW t \in Workers, NEW r \in AtMostOneOf(Records), r # <<>>,
           Names(r), journal' = r, os' = os, lost' = lost,
           \A u \in Workers : u # t => th'[u] = th[u],
           t \in Threads /\ th[t].pc \in Hand =>
               /\ r[1].nonce = th[t].nonce
               /\ \A p \in Pids : os[p] = th[t].nonce => r[1].pid = p
    PROVE  Accounted'
  <1> SUFFICES ASSUME NEW p \in Pids, os'[p] \in Nonces
               PROVE  \/ Runs(journal)' /\ journal'[1].pid = p
                      \/ InHand(os[p])'
                      \/ os'[p] \in lost'
    BY DEF Accounted
  <1>1. CASE Runs(journal) /\ journal[1].pid = p
    BY <1>1 DEF Runs, Named, Names
  <1>2. CASE InHand(os[p])
    <2>1. PICK u \in Threads : th[u].nonce = os[p] /\ th[u].pc \in Hand
      BY <1>2 DEF InHand, Hand, Stopping
    <2>2. CASE u # t
      BY <2>1, <2>2 DEF InHand, Hand, Stopping, Workers
    <2>3. CASE u = t
      BY <2>1, <2>3 DEF Runs, Named
    <2> QED
      BY <2>2, <2>3
  <1> QED
    BY <1>1, <1>2 DEF Accounted

\* The record of a thread with the lock, of a child of its own manager, is the
\* one the maps of all managers agree with.
LEMMA RecordAgrees ==
    ASSUME IInv, NEW t \in Workers, th[t].pc \in Locked, th[t].mgr \in Managers,
           NEW r \in AtMostOneOf(Records), r # <<>>,
           Names(r), Child(th[t].mgr, r), Within(th[t].mgr, r), journal' = r,
           UNCHANGED <<shell, active, driver>>,
           \A u \in Workers : u # t => th'[u] = th[u],
           th'[t].mgr = th[t].mgr, th'[t].held = 0
    PROVE  MapAgrees' /\ Leaves(t)
  <1> DEFINE m == th[t].mgr
  <1>1. os' = os /\ retained' = retained /\ active' = active /\ parted' = parted
    BY DEF driver, shell
  <1>2. Runs(journal)' => Runs(r) /\ retained[m][r[1].pid] = r[1].nonce
    BY <1>1 DEF Runs, Named, Child
  <1>3. r[1].pid \in Pids /\ r[1].nonce # 0
    BY RecordType
  <1>4. Leaves(t)
    BY <1>1, <1>2 DEF Leaves
  <1>5. ASSUME NEW n \in Managers, active'[n] # <<>>, Runs(journal)'
        PROVE  IF Kept(n, journal[1].pid, journal[1].nonce)'
               THEN Matches(journal, active[n])' ELSE parted'
    <2>1. CASE n = m
      <3>1. Matches(r, active[m])
        BY <1>1, <1>5, <2>1 DEF Within
      <3>2. Kept(n, journal[1].pid, journal[1].nonce)'
        BY <1>1, <1>2, <1>5, <2>1 DEF Kept
      <3> QED
        BY <1>1, <2>1, <3>1, <3>2 DEF Matches, Named
    <2>2. CASE n # m
      <3>1. retained[n][r[1].pid] = 0
        BY <1>2, <1>3, <1>5, <2>2 DEF IInv, PidsKept
      <3>2. \A u \in Workers : th'[u].held # r[1].nonce
        <4>1. \A u \in Workers : u # t => th[u].pc \notin Locked
          BY DEF IInv, Duty
        <4> QED
          BY <1>3, <4>1 DEF IInv, Duty, HeldDuty, Locked
      <3>3. ~Kept(n, journal[1].pid, journal[1].nonce)'
        BY <1>1, <1>3, <3>1, <3>2 DEF Kept
      <3>4. parted
        <4> SUFFICES ASSUME ~parted
                     PROVE  FALSE
          OBVIOUS
        <4>1. \A u \in Threads : th[u] = IdleThread \/ Mine(u) = manager
          BY DEF IInv, Turns
        <4>2. th[t] # IdleThread
          BY Idle
        <4>3. th[t].mgr = manager
          BY <4>1, <4>2 DEF IInv, Turns, Mine, Workers
        <4>4. \A u \in Workers : Mine(u) # n
          BY <2>2, <4>1, <4>3, Idle DEF IInv, Turns, Mine, Workers
        <4> QED
          BY <1>1, <1>5, <2>2, <4>3, <4>4 DEF IInv, Turns
      <3> QED
        BY <1>1, <3>3, <3>4
    <2> QED
      BY <2>1, <2>2
  <1> QED
    BY <1>4, <1>5 DEF MapAgrees

LEMMA RewriteSteps ==
    ASSUME IInv, NEW t \in Workers, Rewrite(t)
    PROVE  IInv'
  <1> DEFINE w == th[t]
             x == th'[t]
             m == th[t].mgr
  <1>1. /\ w.pc = "rewrite"
        /\ \/ journal' = w.rec /\ Proceed(t) /\ UNCHANGED faults
           \/ Fault /\ Return(t) /\ UNCHANGED journal
        /\ UNCHANGED <<shell, active, mutex, lock, driver, lost>>
    BY DEF Rewrite, At
  <1>2. /\ Types /\ Duty(t) /\ w.held = 0 /\ m \in Managers /\ lock = t
        /\ w.pc \in Locked /\ w.pc \notin Hand
    BY <1>1, Awake DEF Duty, Locked, Hand, Stopping
  <1>3. CASE Fault /\ Return(t) /\ UNCHANGED journal
    BY <1>1, <1>2, <1>3, GivesUp, StillEbbs, StillDriver DEF Types, TypeOK
  <1>4. CASE journal' = w.rec /\ Proceed(t) /\ UNCHANGED faults
    <2>1. \/ Replaces(w) /\ w.todo = <<"stop", "unrecord", "clear", "orphan">>
          \/ Ends(w) /\ w.todo = <<"stop", "unrecord", "drop", "done">>
      BY <1>1, <1>2, Places DEF Duty
    <2>2. /\ w.rec # <<>> /\ w.pid = <<w.rec[1].pid>>
          /\ Within(m, w.rec) /\ Child(m, w.rec) /\ Names(w.rec)
      BY <1>1, <1>2 DEF Duty, MapDuty, JournalDuty
    <2>3. w.rec \in AtMostOneOf(Records) /\ w.todo # <<>>
      <3>1. /\ <<"stop", "unrecord", "clear", "orphan">> # <<>>
            /\ <<"stop", "unrecord", "drop", "done">> # <<>>
        BY Heads
      <3> QED
        BY <1>2, <2>1, <3>1, ThreadType
    <2>4. /\ th' \in [Workers -> Thread] /\ Types'
          /\ \A u \in Workers : u # t => th'[u] = th[u]
          /\ x.pc = Head(w.todo) /\ x.held = 0 /\ x.mgr = w.mgr /\ lock' = t
          /\ x.pc # "done" =>
                /\ x.todo = Tail(w.todo) /\ x.op = w.op /\ x.inst = w.inst
                /\ x.seen = w.seen /\ x.rec = w.rec /\ x.pid = w.pid
                /\ x.nonce = w.nonce
      BY <1>1, <1>2, <1>4, <2>3, GoesOn, StillDriver DEF Types, TypeOK
    <2>5. x.pc = "stop"
      <3>1. /\ Head(<<"stop", "unrecord", "clear", "orphan">>) = "stop"
            /\ Head(<<"stop", "unrecord", "drop", "done">>) = "stop"
        BY Heads
      <3> QED
        BY <2>1, <2>4, <3>1
    <2>6. MapAgrees' /\ Leaves(t)
      BY <1>1, <1>2, <1>4, <2>2, <2>3, <2>4, RecordAgrees
    <2>7. Accounted'
      BY <1>1, <1>2, <1>4, <2>2, <2>3, <2>4, StillDriver, RecordStands DEF IInv
    <2>8. PidsKept'
      BY <1>1, StillDriver DEF IInv, PidsKept
    <2>9. x.pid # <<>> /\ (Runs(journal)' => journal'[1].pid = x.pid[1])
      <3>1. x.pid = <<w.rec[1].pid>>
        BY <2>2, <2>4, <2>5
      <3> QED
        BY <1>4, <3>1 DEF Runs, Named
    <2>10. Duty(t)'
      <3>1. CASE Replaces(w) /\ w.todo = <<"stop", "unrecord", "clear", "orphan">>
        <4>1. x.todo = <<"unrecord", "clear", "orphan">>
          BY <2>4, <2>5, <3>1, Heads
        <4>2. Replaces(x) /\ Begins(x)
          BY <2>4, <2>5, <3>1, <4>1 DEF Replaces, Begins, Stopping
        <4>3. active'[m] \in {<<>>, x.seen}
          BY <1>1, <1>2, <2>4, <2>5, <3>1 DEF Duty, MapDuty
        <4>4. x.todo # <<"unrecord", "spawn">>
          BY <4>1
        <4>5. ~Judges(x) /\ ~Forgets(x) /\ ~Prepares(x) /\ ~Creates(x) /\ ~Undoes(x)
          BY <2>5, <4>2, <4>4
             DEF Judges, Forgets, Prepares, Creates, Undoes, Begins, Minted, Stopping
        <4>6. MapDuty(t)' /\ JournalDuty(t)'
          BY <2>4, <2>5, <2>9, <4>2, <4>3, <4>5
             DEF MapDuty, JournalDuty, Stopping, Begins
        <4> QED
          BY <1>1, <1>2, <2>4, <2>5, <4>2, <4>6, Arrives DEF Placed
      <3>2. CASE Ends(w) /\ w.todo = <<"stop", "unrecord", "drop", "done">>
        <4>1. x.todo = <<"unrecord", "drop", "done">>
          BY <2>4, <2>5, <3>2, Heads
        <4>2. Ends(x)
          BY <2>4, <2>5, <3>2, <4>1 DEF Ends, Stopping
        <4>3. ~Judges(x) /\ ~Replaces(x) /\ ~Forgets(x) /\ ~Prepares(x) /\ ~Creates(x)
              /\ ~Undoes(x)
          BY <4>2
             DEF Ends, Judges, Replaces, Forgets, Prepares, Creates, Undoes, Begins, Minted
        <4>4. MapDuty(t)' /\ JournalDuty(t)'
          BY <2>5, <2>9, <4>2, <4>3 DEF MapDuty, JournalDuty, Stopping, Ends
        <4> QED
          BY <1>1, <1>2, <2>4, <2>5, <4>2, <4>4, Arrives DEF Placed
      <3> QED
        BY <2>1, <3>1, <3>2
    <2>11. \A p \in Pids : os'[p] \in Nonces => os'[p] = os[p]
      BY <1>1, StillDriver
    <2>12. UNCHANGED shell /\ spawned' = spawned
           /\ \A n \in Managers : n # w.mgr => active'[n] = active[n]
      BY <1>1, StillDriver
    <2> QED
      BY <1>2, <2>4, <2>5, <2>6, <2>7, <2>8, <2>10, <2>11, <2>12, MovesAlone
  <1> QED
    BY <1>1, <1>3, <1>4

LEMMA LastStep ==
    ASSUME NEW t, Proceed(t), Head(th[t].todo) = "done"
    PROVE  Return(t)
  BY Heads DEF Proceed, Return, Follow

\* The record is removed: of a process that does not run, or that is given up.
LEMMA Removal ==
    ASSUME IInv, NEW t \in Workers, th[t].pc \in {"unrecord", "disown"},
           journal' = <<>>, Runs(journal) => journal[1].nonce \in lost',
           lost \subseteq lost', lost' \subseteq Nonces, Proceed(t),
           UNCHANGED <<shell, active, mutex, lock, driver, faults>>
    PROVE  IInv'
  <1> DEFINE w == th[t]
             x == th'[t]
             m == th[t].mgr
  <1>1. /\ Types /\ Duty(t) /\ w.held = 0 /\ m \in Managers /\ lock = t
        /\ w.pc \in Locked /\ w.pc \notin Hand /\ w.pc # "idle"
    BY Awake DEF Duty, Locked, Hand, Stopping
  <1>2. Removes /\ Ebbs
    BY StillEbbs DEF Removes
  <1>3. \/ Replaces(w) /\ w.todo = <<"clear", "orphan">>
        \/ Prepares(w) /\ w.todo \in {<<"orphan">>, <<"spawn">>}
        \/ Undoes(w) /\ w.todo = <<"done">>
        \/ Ends(w) /\ w.todo = <<"drop", "done">>
        \/ Sweeps(w) /\ w.todo = <<"done">>
    BY <1>1, Places DEF Duty
  <1>4. /\ <<>> \in AtMostOneOf(Records)
        /\ Head(<<"orphan">>) = "orphan" /\ Head(<<"spawn">>) = "spawn"
        /\ Head(<<"clear", "orphan">>) = "clear"
        /\ Tail(<<"clear", "orphan">>) = <<"orphan">>
        /\ Head(<<"drop", "done">>) = "drop" /\ Tail(<<"drop", "done">>) = <<"done">>
        /\ Head(<<"done">>) = "done"
        /\ <<"clear", "orphan">> # <<>> /\ <<"orphan">> # <<>> /\ <<"spawn">> # <<>>
        /\ <<"drop", "done">> # <<>>
    BY Heads DEF AtMostOneOf
  <1>5. CASE w.todo = <<"done">>
    BY <1>1, <1>2, <1>4, <1>5, LastStep, GivesUp, StillDriver DEF Types, TypeOK
  <1>6. CASE w.todo # <<"done">>
    <2>1. w.todo # <<>>
      BY <1>3, <1>4, <1>6
    <2>2. /\ th' \in [Workers -> Thread] /\ Types'
          /\ \A u \in Workers : u # t => th'[u] = th[u]
          /\ x.pc = Head(w.todo) /\ x.held = 0 /\ x.mgr = w.mgr /\ lock' = t
          /\ x.pc # "done" =>
                /\ x.todo = Tail(w.todo) /\ x.op = w.op /\ x.inst = w.inst
                /\ x.seen = w.seen /\ x.rec = w.rec /\ x.pid = w.pid
                /\ x.nonce = w.nonce
      BY <1>1, <1>4, <2>1, GoesOn, StillDriver DEF Types, TypeOK
    <2>3. active' = active
      OBVIOUS
    <2>4. Duty(t)' /\ x.pc # "done"
      <3>1. CASE Replaces(w) /\ w.todo = <<"clear", "orphan">>
        <4>1. x.pc = "clear" /\ x.todo = <<"orphan">> /\ Replaces(x) /\ Begins(x)
          BY <1>4, <2>2, <3>1 DEF Replaces, Begins
        <4>2. active'[m] \in {<<>>, x.seen}
          BY <1>1, <2>2, <2>3, <3>1, <4>1 DEF Duty, MapDuty
        <4>3. x.todo # <<"unrecord", "orphan">>
          BY <4>1, Heads
        <4>4. ~Judges(x) /\ ~Forgets(x) /\ ~Prepares(x) /\ ~Creates(x) /\ ~Undoes(x)
          BY <4>1, <4>3
             DEF Judges, Forgets, Prepares, Creates, Undoes, Begins, Minted, Stopping
        <4>5. MapDuty(t)' /\ JournalDuty(t)'
          BY <2>2, <4>1, <4>2, <4>4 DEF MapDuty, JournalDuty, Stopping, Begins
        <4> QED
          BY <1>1, <2>2, <4>1, <4>5, Arrives DEF Placed
      <3>2. CASE Prepares(w) /\ w.todo \in {<<"orphan">>, <<"spawn">>}
        <4>1. x.pc \in {"orphan", "spawn"} /\ Prepares(x) /\ Begins(x)
          BY <1>4, <2>2, <3>2 DEF Prepares, Begins
        <4>2. active'[m] = <<>>
          BY <1>1, <2>3, <3>2 DEF Duty, MapDuty
        <4>3. ~Judges(x) /\ ~Forgets(x) /\ ~Replaces(x) /\ ~Creates(x) /\ ~Undoes(x)
          BY <4>1
             DEF Judges, Forgets, Replaces, Creates, Undoes, Begins, Minted, Stopping
        <4>4. MapDuty(t)' /\ JournalDuty(t)'
          BY <2>2, <4>1, <4>2, <4>3 DEF MapDuty, JournalDuty, Stopping, Begins
        <4> QED
          BY <1>1, <2>2, <4>1, <4>4, Arrives DEF Placed
      <3>3. CASE Ends(w) /\ w.todo = <<"drop", "done">>
        <4>1. x.pc = "drop" /\ Ends(x)
          BY <1>4, <2>2, <3>3 DEF Ends
        <4>2. ~Judges(x) /\ ~Forgets(x) /\ ~Replaces(x) /\ ~Creates(x) /\ ~Undoes(x)
              /\ ~Prepares(x)
          BY <4>1
             DEF Judges, Forgets, Replaces, Creates, Undoes, Begins, Minted, Prepares, Ends
        <4>3. MapDuty(t)' /\ JournalDuty(t)'
          BY <2>2, <4>1, <4>2 DEF MapDuty, JournalDuty, Stopping, Ends
        <4> QED
          BY <1>1, <2>2, <4>1, <4>3, Arrives DEF Placed
      <3> QED
        BY <1>3, <1>6, <3>1, <3>2, <3>3
    <2>5. Hands(t) /\ UNCHANGED shell
      BY <1>1 DEF Hands
    <2> QED
      BY <1>1, <1>2, <2>2, <2>4, <2>5, Moves
  <1> QED
    BY <1>5, <1>6

LEMMA UnrecordSteps ==
    ASSUME IInv, NEW t \in Workers, Unrecord(t)
    PROVE  IInv'
  <1> DEFINE w == th[t]
  <1>1. /\ w.pc = "unrecord"
        /\ \/ /\ journal' = <<>>
              /\ lost' = IF Runs(journal) /\ (RollsBack(t) \/ OfAnother(t))
                         THEN lost \cup {journal[1].nonce} ELSE lost
              /\ Proceed(t) /\ UNCHANGED faults
           \/ Fault /\ Failed(t) /\ UNCHANGED <<journal, lost>>
        /\ UNCHANGED <<shell, active, mutex, lock, driver>>
    BY DEF Unrecord, At
  <1>2. /\ Types /\ Duty(t) /\ lock = t /\ w.pc \notin Hand
        /\ w.pc # "idle"
    BY <1>1, Awake DEF Duty, Locked, Hand, Stopping
  <1>3. CASE /\ journal' = <<>> /\ Proceed(t) /\ UNCHANGED faults
             /\ lost' = IF Runs(journal) /\ (RollsBack(t) \/ OfAnother(t))
                        THEN lost \cup {journal[1].nonce} ELSE lost
    <2>1. Runs(journal) => RollsBack(t) \/ OfAnother(t)
      BY <1>1, <1>2 DEF Duty, JournalDuty, Forsaken, RollsBack
    <2>2. Runs(journal) => journal[1].nonce \in lost'
      BY <1>3, <2>1
    <2>3. lost \subseteq lost' /\ lost' \subseteq Nonces
      BY <1>2, <1>3, RecordType DEF Types, TypeOK, Runs, Named
    <2> QED
      BY <1>1, <1>3, <2>2, <2>3, Removal
  <1>4. CASE Fault /\ Failed(t) /\ UNCHANGED <<journal, lost>>
    <2>1. Return(t)
      <3>1. CASE RollsBack(t)
        <4>1. w.todo = <<"done">>
          BY <1>1, <1>2, <3>1, Places
             DEF Duty, RollsBack, Replaces, Prepares, Ends, Sweeps, Begins
        <4> QED
          BY <1>4, <3>1, <4>1, Heads, LastStep DEF Failed
      <3>2. CASE ~RollsBack(t)
        BY <1>4, <3>2 DEF Failed
      <3> QED
        BY <3>1, <3>2
    <2> QED
      BY <1>1, <1>2, <1>4, <2>1, GivesUp, StillEbbs, StillDriver DEF Types, TypeOK
  <1> QED
    BY <1>1, <1>3, <1>4

LEMMA DisownSteps ==
    ASSUME IInv, NEW t \in Workers, Disown(t)
    PROVE  IInv'
  <1> DEFINE w == th[t]
  <1>1. /\ w.pc = "disown"
        /\ \/ /\ journal' = <<>>
              /\ lost' = IF Runs(journal) THEN lost \cup {journal[1].nonce} ELSE lost
              /\ Proceed(t) /\ UNCHANGED faults
           \/ Fault /\ Return(t) /\ UNCHANGED <<journal, lost>>
        /\ UNCHANGED <<shell, active, mutex, lock, driver>>
    BY DEF Disown, At
  <1>2. /\ Types /\ Duty(t) /\ lock = t /\ w.pc \notin Hand
        /\ w.pc # "idle"
    BY <1>1, Awake DEF Duty, Locked, Hand, Stopping
  <1>3. CASE /\ journal' = <<>> /\ Proceed(t) /\ UNCHANGED faults
             /\ lost' = IF Runs(journal) THEN lost \cup {journal[1].nonce} ELSE lost
    <2>1. Runs(journal) => journal[1].nonce \in lost'
      BY <1>3
    <2>2. lost \subseteq lost' /\ lost' \subseteq Nonces
      BY <1>2, <1>3, RecordType DEF Types, TypeOK, Runs, Named
    <2> QED
      BY <1>1, <1>3, <2>1, <2>2, Removal
  <1>4. CASE Fault /\ Return(t) /\ UNCHANGED <<journal, lost>>
    BY <1>1, <1>2, <1>4, GivesUp, StillEbbs, StillDriver DEF Types, TypeOK
  <1> QED
    BY <1>1, <1>3, <1>4

\* A thread that is asked for the status owes nothing to anybody.
LEMMA AsksDuty ==
    ASSUME IInv, NEW t \in Workers, Asks(th[t]), Asks(th'[t]),
           th'[t].held = 0, th'[t].mgr = th[t].mgr
    PROVE  Duty(t)'
  <1> DEFINE w == th[t]
             x == th'[t]
  <1>1. w.pc \notin {"idle", "done"} /\ x.pc # "done" /\ x.op = w.op /\ x.pc \notin Locked
    BY DEF Asks, Locked
  <1>2. th[t].mgr \in Managers
    BY <1>1, Awake
  <1>3. ~Judges(x) /\ ~Forgets(x) /\ ~Replaces(x) /\ ~Creates(x) /\ ~Undoes(x)
        /\ ~Prepares(x)
    BY DEF Asks, Judges, Forgets, Replaces, Creates, Undoes, Begins, Minted, Prepares
  <1>4. MapDuty(t)' /\ JournalDuty(t)'
    BY <1>3 DEF MapDuty, JournalDuty, Stopping, Asks
  <1> QED
    BY <1>1, <1>2, <1>4, Arrives DEF Placed

LEMMA Asked ==
    ASSUME IInv, NEW t \in Workers, Asks(th[t]), Asks(th'[t]),
           th'[t].held = 0, th'[t].mgr = th[t].mgr,
           \A u \in Workers : u # t => th'[u] = th[u],
           Types', Ebbs, journal' = journal, UNCHANGED <<shell, lock>>
    PROVE  IInv'
  <1>1. th[t].pc # "idle" /\ th[t].pc \notin Hand /\ th'[t].op = "status"
        /\ th[t].pc # "stopping"
    BY DEF Asks, Hand, Stopping
  <1>2. Duty(t)' /\ th[t].held = 0 /\ Hands(t) /\ Types
    BY <1>1, AsksDuty, Awake DEF Hands
  <1>3. \A u \in Workers : u # t /\ lock = u => lock' = u
    OBVIOUS
  <1> QED
    BY <1>1, <1>2, <1>3, Moves

LEMMA PeekSteps ==
    ASSUME IInv, NEW t \in Workers, Peek(t)
    PROVE  IInv'
  <1> DEFINE w == th[t]
             x == th'[t]
             m == th[t].mgr
  <1>1. /\ w.pc = "peek" /\ w.pc # "idle" /\ w.pc \notin Hand
        /\ IF active[m] # <<>> /\ active[m][1].ready
           THEN th' = [th EXCEPT ![t].seen = active[m], ![t].pc = "load"]
           ELSE Return(t)
        /\ UNCHANGED <<shell, active, mutex, journal, lock, driver, faults, lost>>
    BY DEF Peek, At, Shown, Mine, Hand, Stopping
  <1>2. /\ Types /\ Duty(t) /\ w.held = 0 /\ m \in Managers /\ Asks(w) /\ Ebbs
    BY <1>1, Awake, Places, StillEbbs DEF Duty
  <1>3. CASE Return(t)
    BY <1>1, <1>2, <1>3, GivesUp, StillDriver DEF Types, TypeOK
  <1>4. CASE /\ active[m] # <<>>
             /\ th' = [th EXCEPT ![t].seen = active[m], ![t].pc = "load"]
    <2>1. active[m] \in AtMostOneOf(Statuses) /\ th \in [Workers -> Thread]
      BY <1>2 DEF Types, TypeOK
    <2>2. /\ th' \in [Workers -> Thread]
          /\ \A u \in Workers : u # t => th'[u] = th[u]
          /\ x.pc = "load" /\ x.seen = active[m] /\ x.op = w.op /\ x.nonce = w.nonce
          /\ x.held = 0 /\ x.mgr = w.mgr
      <3> DEFINE y == [w EXCEPT !.seen = active[m], !.pc = "load"]
      <3>1. th' = [th EXCEPT ![t] = y]
        BY <1>4, <2>1
      <3>2. /\ y \in Thread /\ y.pc = "load" /\ y.seen = active[m] /\ y.op = w.op
            /\ y.nonce = w.nonce /\ y.held = w.held /\ y.mgr = w.mgr
        <4>1. w \in Thread /\ "load" \in Steps
          BY <2>1 DEF Steps
        <4> QED
          BY <2>1, <4>1 DEF Thread
      <3> HIDE DEF y
      <3> QED
        BY <1>2, <2>1, <3>1, <3>2
    <2>3. Types'
      BY <1>1, <1>2, <2>2, TypesNext, Still, StillDriver DEF Types, TypeOK
    <2>4. Asks(x)
      BY <1>2, <1>4, <2>2 DEF Asks
    <2> QED
      BY <1>1, <1>2, <2>2, <2>3, <2>4, Asked
  <1> QED
    BY <1>1, <1>3, <1>4

LEMMA LoadSteps ==
    ASSUME IInv, NEW t \in Workers, Load(t)
    PROVE  IInv'
  <1> DEFINE w == th[t]
             x == th'[t]
             m == th[t].mgr
  <1>1. /\ w.pc = "load" /\ w.pc # "idle"
        /\ th' = [th EXCEPT ![t].rec = journal, ![t].pc = "verify"]
        /\ UNCHANGED <<shell, active, mutex, journal, lock, driver, faults, lost>>
    BY DEF Load, At
  <1>2. /\ Types /\ Duty(t) /\ w.held = 0 /\ m \in Managers /\ Asks(w) /\ Ebbs
    BY <1>1, Awake, Places, StillEbbs DEF Duty
  <1>3. journal \in AtMostOneOf(Records) /\ th \in [Workers -> Thread]
    BY <1>2 DEF Types, TypeOK
  <1>4. /\ th' \in [Workers -> Thread]
        /\ \A u \in Workers : u # t => th'[u] = th[u]
        /\ x.pc = "verify" /\ x.seen = w.seen /\ x.op = w.op /\ x.nonce = w.nonce
        /\ x.held = 0 /\ x.mgr = w.mgr
    BY <1>1, <1>2, <1>3 DEF Thread, Steps
  <1>5. Types'
    BY <1>1, <1>2, <1>4, TypesNext, Still, StillDriver DEF Types, TypeOK
  <1>6. Asks(x)
    BY <1>1, <1>2, <1>4 DEF Asks
  <1> QED
    BY <1>1, <1>2, <1>4, <1>5, <1>6, Asked

LEMMA VerifySteps ==
    ASSUME IInv, NEW t \in Workers, Verify(t)
    PROVE  IInv'
  <1> DEFINE w == th[t]
             x == th'[t]
             m == th[t].mgr
             p == w.seen[1].pid
             good == /\ Matches(w.rec, w.seen)
                     /\ Identity(Mine(t), p) = w.rec[1].nonce
  <1>1. /\ w.pc = "verify" /\ w.pc # "idle" /\ w.pc \notin Hand
        /\ retained' = IF Named(w.rec) THEN Reap(m, p) ELSE retained
        /\ Follow(t, IF good THEN <<"done">> ELSE <<"statusClear">>)
        /\ UNCHANGED <<shell, active, mutex, journal, lock, os, recovered, spawned,
                       faults, lost>>
    BY DEF Verify, At, Mine, Hand, Stopping
  <1>2. /\ Types /\ Duty(t) /\ w.held = 0 /\ m \in Managers /\ Asks(w)
    BY <1>1, Awake, Places DEF Duty
  <1>3. p \in Pids /\ retained \in [Managers -> [Pids -> OrNone]]
    <2>1. w.seen # <<>> /\ w.seen \in AtMostOneOf(Statuses)
      BY <1>1, <1>2, ThreadType DEF Asks
    <2> QED
      BY <1>2, <2>1, Singles DEF Statuses, Types, TypeOK
  <1>4. Ebbs /\ retained' \in [Managers -> [Pids -> OrNone]]
    <2>1. CASE Named(w.rec)
      BY <1>1, <1>2, <1>3, <2>1, Reaps
    <2>2. CASE ~Named(w.rec)
      BY <1>1, <1>3, <2>2 DEF Ebbs, shell
    <2> QED
      BY <2>1, <2>2
  <1>5. CASE good
    <2>1. Return(t)
      BY <1>1, <1>5 DEF Return
    <2> QED
      BY <1>1, <1>2, <1>4, <2>1, GivesUp DEF Types, TypeOK
  <1>6. CASE ~good
    <2>1. Follow(t, <<"statusClear">>) /\ Head(<<"statusClear">>) = "statusClear"
          /\ Tail(<<"statusClear">>) = <<>>
      BY <1>1, <1>6, Heads
    <2>2. "statusClear" \in Steps /\ <<>> \in Seq(Steps)
      BY DEF Steps
    <2>3. /\ th' \in [Workers -> Thread]
          /\ \A u \in Workers : u # t => th'[u] = th[u]
          /\ x.pc = "statusClear" /\ x.seen = w.seen /\ x.op = w.op
          /\ x.nonce = w.nonce /\ x.held = 0 /\ x.mgr = w.mgr
      BY <1>2, <2>1, <2>2, Follows
    <2>4. Types'
      BY <1>1, <1>2, <1>4, <2>3, TypesNext, Still DEF Types, TypeOK
    <2>5. Asks(x)
      BY <1>1, <1>2, <2>3 DEF Asks
    <2> QED
      BY <1>1, <1>2, <1>4, <2>3, <2>4, <2>5, Asked
  <1> QED
    BY <1>5, <1>6

LEMMA StatusClearSteps ==
    ASSUME IInv, NEW t \in Workers, StatusClear(t)
    PROVE  IInv'
  <1> DEFINE w == th[t]
             x == th'[t]
             m == th[t].mgr
  <1>1. /\ w.pc = "statusClear" /\ w.pc # "idle" /\ w.pc \notin Hand
        /\ ClearEntry(m, <<w.seen[1].inst>>)
        /\ \/ Follow(t, <<"statusRemove">>)
           \/ Return(t)
        /\ UNCHANGED <<shell, mutex, journal, lock, driver, faults, lost>>
    BY DEF StatusClear, At, Mine, Hand, Stopping, Return
  <1>2. /\ Types /\ Duty(t) /\ w.held = 0 /\ m \in Managers /\ Asks(w)
    BY <1>1, Awake, Places DEF Duty
  <1>3. active \in [Managers -> AtMostOneOf(Statuses)] /\ <<>> \in AtMostOneOf(Statuses)
    BY <1>2 DEF Types, TypeOK, AtMostOneOf
  <1>4. /\ active' \in [Managers -> AtMostOneOf(Statuses)]
        /\ \A n \in Managers : active'[n] \in {active[n], <<>>}
    BY <1>1, <1>2, <1>3 DEF ClearEntry
  <1>5. Ebbs
    BY <1>1, <1>4 DEF Ebbs, driver, shell
  <1>6. CASE Return(t)
    BY <1>1, <1>2, <1>4, <1>5, <1>6, GivesUp, StillDriver DEF Types, TypeOK
  <1>7. CASE Follow(t, <<"statusRemove">>)
    <2>1. Head(<<"statusRemove">>) = "statusRemove" /\ Tail(<<"statusRemove">>) = <<>>
      BY Heads
    <2>2. "statusRemove" \in Steps /\ <<>> \in Seq(Steps)
      BY DEF Steps
    <2>3. /\ th' \in [Workers -> Thread]
          /\ \A u \in Workers : u # t => th'[u] = th[u]
          /\ x.pc = "statusRemove" /\ x.seen = w.seen /\ x.op = w.op
          /\ x.nonce = w.nonce /\ x.held = 0 /\ x.mgr = w.mgr
      BY <1>2, <1>7, <2>1, <2>2, Follows
    <2>4. Types'
      BY <1>1, <1>2, <1>4, <2>3, TypesNext, Still, StillDriver DEF Types, TypeOK
    <2>5. Asks(x)
      BY <1>1, <1>2, <2>3 DEF Asks
    <2> QED
      BY <1>1, <1>2, <1>5, <2>3, <2>4, <2>5, Asked
  <1> QED
    BY <1>1, <1>6, <1>7

LEMMA StatusRemoveSteps ==
    ASSUME IInv, NEW t \in Workers, StatusRemove(t)
    PROVE  IInv'
  <1>1. /\ th[t].pc = "statusRemove" /\ th[t].pc # "idle" /\ th[t].pc \notin Hand
        /\ \/ /\ journal' = <<>>
              /\ lost' = IF Runs(journal) THEN lost \cup {journal[1].nonce} ELSE lost
              /\ UNCHANGED faults
           \/ Fault /\ UNCHANGED <<journal, lost>>
        /\ Return(t)
        /\ UNCHANGED <<shell, active, mutex, lock, driver>>
    BY DEF StatusRemove, At, Hand, Stopping
  <1>2. Types
    BY DEF IInv
  <1>3. /\ journal' = journal \/ Removes
        /\ lost \subseteq lost' /\ lost' \subseteq Nonces
        /\ journal' \in AtMostOneOf(Records)
    <2>1. journal \in AtMostOneOf(Records) /\ lost \subseteq Nonces
          /\ <<>> \in AtMostOneOf(Records)
      BY <1>2 DEF Types, TypeOK, AtMostOneOf
    <2> QED
      BY <1>1, <2>1, RecordType DEF Removes, Runs, Named
  <1>4. Ebbs
    BY <1>1, <1>3, StillEbbs
  <1> QED
    BY <1>1, <1>2, <1>3, <1>4, GivesUp, StillDriver DEF Types, TypeOK

-----------------------------------------------------------------------------
(***************************************************************************)
(* start: what an earlier manager left, and the new process.               *)
(***************************************************************************)
LEMMA RecoverMoves ==
    ASSUME IInv, NEW t \in Workers, NEW rec \in AtMostOneOf(Records), rec # <<>>,
           NEW after, RecoverThen(t, rec, after),
           Runs(journal) => journal = rec \/ OfAnother(t),
           \/ th[t].pc = "orphan" /\ after = "spawn"
           \/ th[t].pc = "recover" /\ after = "done",
           UNCHANGED <<shell, active, mutex, journal, lock, os, spawned, lost>>
    PROVE  IInv'
  <1> DEFINE w == th[t]
             x == th'[t]
             m == th[t].mgr
             p == rec[1].pid
  <1>1. /\ Types /\ Duty(t) /\ w.held = 0 /\ m \in Managers /\ lock = t
        /\ w.pc \in Locked /\ w.pc \notin Hand
        /\ w.pc \notin {"idle", "done"}
    BY Awake DEF Duty, Locked, Hand, Stopping
  <1>2. /\ retained' = Reap(m, p)
        /\ \/ /\ Fault /\ Return(t) /\ UNCHANGED recovered
           \/ /\ Runs(rec)
              /\ recovered' = IF Identity(m, p) # 0 THEN recovered
                              ELSE [recovered EXCEPT ![m][p] = rec[1].nonce]
              /\ th' = [th EXCEPT ![t].rec = rec, ![t].pid = <<p>>, ![t].pc = "stop",
                                  ![t].todo = <<"unrecord", after>>]
              /\ UNCHANGED faults
           \/ /\ Runs(rec) /\ Fault /\ UNCHANGED recovered
              /\ Follow(t, <<"disown", after>>)
           \/ /\ ~Runs(rec) /\ UNCHANGED <<recovered, faults>>
              /\ Follow(t, <<"unrecord", after>>)
    BY DEF RecoverThen, Mine
  <1>3. p \in Pids /\ rec[1].nonce \in OrNone
        /\ recovered \in [Managers -> [Pids -> OrNone]]
    BY <1>1, RecordType, NoStranger DEF Types, TypeOK
  <1>4. Ebbs /\ retained' \in [Managers -> [Pids -> OrNone]]
    BY <1>1, <1>2, <1>3, Reaps
  <1>5. /\ \/ Prepares(w) /\ after = "spawn" /\ active[m] = <<>>
           \/ Sweeps(w) /\ after = "done"
        /\ w.nonce = 0
    BY <1>1, Places DEF Duty, MapDuty, Prepares, Begins, Sweeps
  <1>6. recovered' \in [Managers -> [Pids -> OrNone]]
    BY <1>1, <1>2, <1>3
  <1>7. CASE Return(t) /\ Fault
    BY <1>1, <1>4, <1>6, <1>7, GivesUp DEF Types, TypeOK
  <1>8. /\ Head(<<"disown", after>>) = "disown" /\ Tail(<<"disown", after>>) = <<after>>
        /\ Head(<<"unrecord", after>>) = "unrecord"
        /\ Tail(<<"unrecord", after>>) = <<after>>
        /\ "disown" \in Steps /\ "unrecord" \in Steps /\ "stop" \in Steps
        /\ <<after>> \in Seq(Steps) /\ <<"unrecord", after>> \in Seq(Steps)
    <2>1. "spawn" \in Steps /\ "done" \in Steps /\ "disown" \in Steps
          /\ "unrecord" \in Steps /\ "stop" \in Steps
      BY DEF Steps
    <2>2. after \in Steps
      BY <2>1
    <2> QED
      BY <2>1, <2>2, Heads, Lists
  <1>9. ASSUME th' \in [Workers -> Thread], \A u \in Workers : u # t => th'[u] = th[u],
               x.held = 0, x.mgr = w.mgr, x.op = w.op, x.inst = w.inst, x.nonce = w.nonce,
               Fault \/ faults' = faults,
               \/ x.pc = "stop" /\ x.pid = <<p>> /\ x.todo = <<"unrecord", after>>
               \/ x.pc = "disown" /\ x.todo = <<after>>
               \/ x.pc = "unrecord" /\ x.todo = <<after>> /\ ~Runs(rec)
        PROVE  IInv'
    <2>1. Types'
      BY <1>1, <1>4, <1>6, <1>9, TypesNext, Still, Faulty DEF Types, TypeOK
    <2>2. /\ OfAnother(t) /\ Runs(journal)' => OfAnother(t)'
          /\ Runs(journal)' => Runs(journal) /\ journal' = journal
      BY <1>1, <1>4, <1>9, ForsakenStays
    <2>3. Runs(journal)' => journal'[1].pid = p \/ OfAnother(t)'
      BY <2>2
    <2>4. ~Runs(rec) => Forsaken(t)'
      BY <2>2 DEF Forsaken, Runs, Named
    <2>5. x.todo # <<"clear", "orphan">>
      BY <1>9, Heads
    <2>6. \/ Prepares(x) /\ Begins(x) /\ after = "spawn" /\ active'[m] = <<>>
          \/ Sweeps(x) /\ after = "done"
      BY <1>5, <1>9 DEF Prepares, Sweeps, Begins, Stopping
    <2>7. Duty(t)'
      <3>1. CASE Prepares(x) /\ Begins(x) /\ after = "spawn" /\ active'[m] = <<>>
        <4>1. /\ x.todo # <<"unrecord", "clear", "orphan">> /\ x.todo # <<"unrecord", "orphan">>
          BY <1>9, <3>1
        <4>2. ~Judges(x) /\ ~Replaces(x) /\ ~Forgets(x) /\ ~Creates(x) /\ ~Undoes(x)
          BY <1>9, <2>5, <3>1, <4>1
             DEF Judges, Replaces, Forgets, Creates, Undoes, Begins, Minted, Stopping
        <4>3. x.pid = <<p>> => x.pid # <<>> /\ x.pid[1] = p
          BY Heads
        <4>4. MapDuty(t)' /\ JournalDuty(t)'
          BY <1>9, <2>3, <2>4, <3>1, <4>2, <4>3 DEF MapDuty, JournalDuty, Stopping, Begins
        <4> QED
          BY <1>1, <1>9, <3>1, <4>4, Arrives DEF Placed
      <3>2. CASE Sweeps(x) /\ after = "done"
        <4>1. ~Judges(x) /\ ~Replaces(x) /\ ~Forgets(x) /\ ~Creates(x) /\ ~Undoes(x)
              /\ ~Prepares(x)
          BY <3>2
             DEF Judges, Replaces, Forgets, Creates, Undoes, Begins, Minted, Prepares, Sweeps
        <4>3. x.pid = <<p>> => x.pid # <<>> /\ x.pid[1] = p
          BY Heads
        <4>4. MapDuty(t)' /\ JournalDuty(t)'
          BY <1>9, <2>3, <2>4, <3>2, <4>1, <4>3 DEF MapDuty, JournalDuty, Stopping
        <4> QED
          BY <1>1, <1>9, <3>2, <4>4, Arrives DEF Placed
      <3> QED
        BY <2>6, <3>1, <3>2
    <2>8. Hands(t) /\ journal' = journal /\ UNCHANGED shell
      BY <1>1 DEF Hands
    <2> QED
      BY <1>1, <1>4, <1>9, <2>1, <2>7, <2>8, Moves
  <1>10. CASE /\ Runs(rec) /\ UNCHANGED faults
              /\ th' = [th EXCEPT ![t].rec = rec, ![t].pid = <<p>>, ![t].pc = "stop",
                                  ![t].todo = <<"unrecord", after>>]
    <2> DEFINE y == [w EXCEPT !.rec = rec, !.pid = <<p>>, !.pc = "stop",
                              !.todo = <<"unrecord", after>>]
    <2>1. th' = [th EXCEPT ![t] = y] /\ th \in [Workers -> Thread]
      BY <1>1, <1>10 DEF Types
    <2>2. w \in Thread /\ <<p>> \in AtMostOneOf(Pids)
      BY <1>3, <2>1 DEF AtMostOneOf
    <2>3. /\ y \in Thread /\ y.pc = "stop" /\ y.pid = <<p>>
          /\ y.todo = <<"unrecord", after>> /\ y.held = w.held /\ y.mgr = w.mgr
          /\ y.op = w.op /\ y.inst = w.inst /\ y.nonce = w.nonce
      BY <1>8, <2>2 DEF Thread
    <2> HIDE DEF y
    <2>4. /\ th' \in [Workers -> Thread] /\ \A u \in Workers : u # t => th'[u] = th[u]
          /\ x = y
      BY <2>1, <2>3
    <2> QED
      BY <1>1, <1>9, <1>10, <2>3, <2>4
  <1>11. CASE Follow(t, <<"disown", after>>) /\ Fault
    <2>1. /\ th' \in [Workers -> Thread] /\ \A u \in Workers : u # t => th'[u] = th[u]
          /\ x.pc = "disown" /\ x.held = 0 /\ x.mgr = w.mgr
          /\ x.todo = <<after>> /\ x.op = w.op /\ x.inst = w.inst /\ x.nonce = w.nonce
      BY <1>1, <1>8, <1>11, Follows
    <2> QED
      BY <1>9, <1>11, <2>1
  <1>12. CASE Follow(t, <<"unrecord", after>>) /\ UNCHANGED faults /\ ~Runs(rec)
    <2>1. /\ th' \in [Workers -> Thread] /\ \A u \in Workers : u # t => th'[u] = th[u]
          /\ x.pc = "unrecord" /\ x.held = 0 /\ x.mgr = w.mgr
          /\ x.todo = <<after>> /\ x.op = w.op /\ x.inst = w.inst /\ x.nonce = w.nonce
      BY <1>1, <1>8, <1>12, Follows
    <2> QED
      BY <1>9, <1>12, <2>1
  <1> QED
    BY <1>2, <1>7, <1>10, <1>11, <1>12

LEMMA OrphanSteps ==
    ASSUME IInv, NEW t \in Workers, Orphan(t)
    PROVE  IInv'
  <1> DEFINE w == th[t]
             x == th'[t]
             m == th[t].mgr
  <1>1. /\ w.pc = "orphan"
        /\ IF Named(journal) THEN RecoverThen(t, journal, "spawn")
           ELSE Follow(t, <<"spawn">>) /\ UNCHANGED <<retained, recovered, faults>>
        /\ UNCHANGED <<shell, active, mutex, journal, lock, os, spawned, lost>>
    BY DEF Orphan, At
  <1>2. /\ Types /\ Duty(t) /\ w.held = 0 /\ m \in Managers /\ lock = t
        /\ w.pc \in Locked /\ w.pc \notin Hand
        /\ w.pc \notin {"idle", "done"} /\ Prepares(w)
    BY <1>1, Awake, Places DEF Duty, Locked, Hand, Stopping
  <1>3. CASE Named(journal)
    <2>1. journal \in AtMostOneOf(Records) /\ journal # <<>>
      BY <1>2, <1>3 DEF Types, TypeOK, Named
    <2> QED
      BY <1>1, <1>3, <2>1, RecoverMoves
  <1>4. CASE ~Named(journal)
    <2>1. /\ Head(<<"spawn">>) = "spawn" /\ Tail(<<"spawn">>) = <<>>
          /\ "spawn" \in Steps /\ <<>> \in Seq(Steps)
      BY Heads DEF Steps
    <2>2. /\ th' \in [Workers -> Thread] /\ \A u \in Workers : u # t => th'[u] = th[u]
          /\ x.pc = "spawn" /\ x.held = 0 /\ x.mgr = w.mgr
          /\ x.op = w.op /\ x.inst = w.inst /\ x.nonce = w.nonce
      BY <1>1, <1>2, <1>4, <2>1, Follows
    <2>3. Types'
      BY <1>1, <1>2, <1>4, <2>2, TypesNext, Still DEF Types, TypeOK
    <2>4. Prepares(x) /\ Begins(x) /\ active'[m] = <<>>
      BY <1>1, <1>2, <2>2 DEF Prepares, Begins, Duty, MapDuty
    <2>5. ~Judges(x) /\ ~Replaces(x) /\ ~Forgets(x) /\ ~Creates(x) /\ ~Undoes(x)
      BY <2>2, <2>4
         DEF Judges, Replaces, Forgets, Creates, Undoes, Begins, Minted, Stopping
    <2>6. journal' = <<>>
      BY <1>1, <1>4 DEF Named
    <2>7. MapDuty(t)' /\ JournalDuty(t)'
      BY <2>2, <2>4, <2>5, <2>6 DEF MapDuty, JournalDuty, Stopping, Begins
    <2>8. Duty(t)'
      BY <1>1, <1>2, <2>2, <2>4, <2>7, Arrives DEF Placed
    <2>9. Hands(t) /\ Ebbs /\ journal' = journal /\ UNCHANGED shell
      BY <1>1, <1>2, <1>4 DEF Hands, Ebbs, shell
    <2> QED
      BY <1>1, <1>2, <2>2, <2>3, <2>8, <2>9, Moves
  <1> QED
    BY <1>3, <1>4

\* A thread that reads the runtime's own record once more before it is stopped.
LEMMA CheckSteps ==
    ASSUME IInv, NEW t \in Workers, Check(t)
    PROVE  IInv'
  <1> DEFINE w == th[t]
             x == th'[t]
             m == th[t].mgr
             mine == /\ active[m] # <<>> /\ <<active[m][1].inst>> = w.inst
                     /\ Matches(journal, active[m])
  <1>1. /\ w.pc = "check"
        /\ mutex' = [mutex EXCEPT ![m] = t]
        /\ IF mine
           THEN /\ retained' = Reap(m, journal[1].pid)
                /\ IF Identity(m, journal[1].pid) = journal[1].nonce
                   THEN th' = [th EXCEPT
                           ![t].rec = journal, ![t].pid = <<journal[1].pid>>,
                           ![t].pc = "rewrite",
                           ![t].todo = <<"stop", "unrecord", "drop", "done">>]
                   ELSE Return(t)
           ELSE Return(t) /\ UNCHANGED retained
        /\ UNCHANGED <<shell, active, journal, lock, os, recovered, spawned, faults,
                       lost>>
    BY DEF Check, At, Shown, Mine
  <1>2. /\ Types /\ Duty(t) /\ w.held = 0 /\ m \in Managers /\ lock = t
        /\ w.pc \in Locked /\ w.pc \notin Hand
        /\ w.pc \notin {"idle", "done"} /\ Ends(w)
    BY <1>1, Awake, Places DEF Duty, Locked, Hand, Stopping
  <1>3. journal \in AtMostOneOf(Records) /\ retained \in [Managers -> [Pids -> OrNone]]
        /\ th \in [Workers -> Thread] /\ mutex \in [Managers -> Workers \cup {NoThread}]
    BY <1>2 DEF Types, TypeOK
  <1>4. mine => journal # <<>> /\ journal[1].pid \in Pids /\ journal[1].nonce # 0
    BY <1>3, RecordType DEF Matches, Named
  <1>5. mutex' \in [Managers -> Workers \cup {NoThread}]
    BY <1>1, <1>3
  <1>6. Ebbs /\ retained' \in [Managers -> [Pids -> OrNone]]
    <2>1. CASE mine
      BY <1>1, <1>2, <1>4, <2>1, Reaps
    <2>2. CASE ~mine
      BY <1>1, <1>3, <2>2 DEF Ebbs, shell
    <2> QED
      BY <2>1, <2>2
  <1>7. CASE Return(t)
    BY <1>1, <1>2, <1>5, <1>6, <1>7, GivesUp DEF Types, TypeOK
  <1>8. CASE /\ mine /\ Identity(m, journal[1].pid) = journal[1].nonce
             /\ th' = [th EXCEPT
                   ![t].rec = journal, ![t].pid = <<journal[1].pid>>,
                   ![t].pc = "rewrite",
                   ![t].todo = <<"stop", "unrecord", "drop", "done">>]
    <2> DEFINE y == [w EXCEPT !.rec = journal, !.pid = <<journal[1].pid>>,
                              !.pc = "rewrite",
                              !.todo = <<"stop", "unrecord", "drop", "done">>]
    <2>1. th' = [th EXCEPT ![t] = y]
      BY <1>3, <1>8
    <2>2. w \in Thread /\ <<journal[1].pid>> \in AtMostOneOf(Pids) /\ "rewrite" \in Steps
          /\ <<"stop", "unrecord", "drop", "done">> \in Seq(Steps)
      <3>1. "stop" \in Steps /\ "unrecord" \in Steps /\ "drop" \in Steps
            /\ "done" \in Steps /\ "rewrite" \in Steps
        BY DEF Steps
      <3> QED
        BY <1>3, <1>4, <1>8, <3>1, Lists DEF AtMostOneOf
    <2>3. /\ y \in Thread /\ y.pc = "rewrite" /\ y.pid = <<journal[1].pid>>
          /\ y.rec = journal
          /\ y.todo = <<"stop", "unrecord", "drop", "done">>
          /\ y.held = w.held /\ y.mgr = w.mgr /\ y.op = w.op /\ y.nonce = w.nonce
      BY <1>3, <2>2 DEF Thread
    <2> HIDE DEF y
    <2>4. /\ th' \in [Workers -> Thread] /\ \A u \in Workers : u # t => th'[u] = th[u]
          /\ x = y
      BY <1>3, <2>1, <2>3
    <2>5. Types'
      BY <1>1, <1>2, <1>5, <1>6, <2>4, TypesNext, Still DEF Types, TypeOK
    <2>6. Ends(x)
      BY <1>2, <2>3, <2>4 DEF Ends
    <2>7. retained[m][journal[1].pid] = journal[1].nonce
      BY <1>2, <1>4, <1>8, Identities
    <2>8. /\ Within(w.mgr, w.rec)' /\ Names(w.rec)' /\ Child(w.mgr, w.rec)'
      <3>1. ~Gone(m)
        BY <1>2, <2>3, <2>4 DEF Gone
      <3>2. \/ retained'[m][journal[1].pid] = retained[m][journal[1].pid]
            \/ os[journal[1].pid] # retained[m][journal[1].pid]
        BY <1>2, <1>4, <1>6, <1>8, <3>1 DEF Ebbs
      <3>3. x.rec = journal /\ x.mgr = m /\ os' = os /\ journal' = journal
            /\ active' = active
        BY <1>1, <2>3, <2>4
      <3> QED
        BY <1>8, <2>7, <3>2, <3>3 DEF Within, Names, Child, Runs, Named, Matches
    <2>9. ~Judges(x) /\ ~Replaces(x) /\ ~Forgets(x) /\ ~Creates(x) /\ ~Undoes(x)
          /\ ~Prepares(x)
      BY <2>6
         DEF Judges, Replaces, Forgets, Creates, Undoes, Begins, Minted, Prepares, Ends
    <2>10. MapDuty(t)' /\ JournalDuty(t)'
      <3>1. x.rec # <<>> /\ x.pid = <<x.rec[1].pid>> /\ x.op = "stop"
        BY <1>4, <1>8, <2>3, <2>4, <2>6 DEF Ends
      <3> QED
        BY <2>3, <2>4, <2>8, <2>9, <3>1 DEF MapDuty, JournalDuty, Stopping
    <2>11. Duty(t)'
      BY <1>1, <1>2, <2>3, <2>4, <2>6, <2>10, Arrives DEF Placed
    <2>12. Hands(t) /\ journal' = journal /\ UNCHANGED shell
      BY <1>1, <1>2 DEF Hands
    <2> QED
      BY <1>1, <1>2, <1>6, <2>3, <2>4, <2>5, <2>11, <2>12, Moves
  <1> QED
    BY <1>1, <1>7, <1>8

LEMMA DropSteps ==
    ASSUME IInv, NEW t \in Workers, Drop(t)
    PROVE  IInv'
  <1>1. /\ th[t].pc = "drop" /\ th[t].pc # "idle" /\ th[t].pc \notin Hand
        /\ active' = [active EXCEPT ![th[t].mgr] = <<>>]
        /\ Proceed(t)
        /\ UNCHANGED <<shell, mutex, journal, lock, driver, faults, lost>>
    BY DEF Drop, At, Mine, Hand, Stopping
  <1>2. Types /\ Duty(t) /\ th[t].mgr \in Managers
    BY <1>1, Awake
  <1>3. Return(t)
    BY <1>1, <1>2, Places, LastStep, Heads DEF Duty
  <1>4. active \in [Managers -> AtMostOneOf(Statuses)] /\ <<>> \in AtMostOneOf(Statuses)
    BY <1>2 DEF Types, TypeOK, AtMostOneOf
  <1>5. Ebbs /\ active' \in [Managers -> AtMostOneOf(Statuses)]
    BY <1>1, <1>2, <1>4 DEF Ebbs, driver, shell
  <1> QED
    BY <1>1, <1>2, <1>3, <1>5, GivesUp, StillDriver DEF Types, TypeOK

\* A start that goes on to create its runtime, or to undo what it did.
LEMMA CreatesDuty ==
    ASSUME IInv, NEW t \in Workers, th[t].pc \notin {"idle", "done"}, Creates(th[t]),
           Creates(th'[t]) \/ Undoes(th'[t]),
           th'[t].pc \notin {"record", "unrecord", "stopping"},
           th'[t].held = 0, th'[t].mgr = th[t].mgr, th'[t].op = th[t].op,
           th'[t].rec = th[t].rec, th'[t].pid = th[t].pid, th'[t].nonce = th[t].nonce,
           lock' = t, os' = os, retained' = retained,
           journal' = <<>> \/ journal' = th[t].rec,
           Creates(th'[t]) => Within(th[t].mgr, th[t].rec)'
    PROVE  Duty(t)'
  <1> DEFINE w == th[t]
             x == th'[t]
  <1>1. Duty(t) /\ w.mgr \in Managers
    BY Awake
  <1>2. Own(w) /\ Child(w.mgr, w.rec) /\ Minted(w) /\ Minted(x)
    BY <1>1 DEF Duty, JournalDuty, Creates, Undoes
  <1>3. Own(w)' /\ Child(w.mgr, w.rec)' /\ Names(w.rec)'
    BY <1>2 DEF Own, Child, Names, Runs, Named
  <1>4. ~Judges(x) /\ ~Replaces(x) /\ ~Forgets(x) /\ ~Prepares(x) /\ x.op = "start"
        /\ x.pid # <<>> /\ x.pc # "done"
    BY <1>2 DEF Judges, Replaces, Forgets, Prepares, Begins, Minted, Creates, Undoes, Stopping
  <1>5. journal' # <<>> => journal'[1].pid = x.pid[1]
    BY <1>2 DEF Minted
  <1>6. x.pc \notin {"judge", "spawn", "rewrite"}
    BY DEF Creates, Undoes, Stopping
  <1>7. MapDuty(t)' /\ JournalDuty(t)'
    BY <1>3, <1>4, <1>5, <1>6 DEF MapDuty, JournalDuty, Stopping, Runs, Named
  <1> QED
    BY <1>1, <1>4, <1>7, Arrives DEF Placed

\* Where the steps of a start lead.
LEMMA RollbackSteps ==
    /\ Head(Rollback) = "clear" /\ Tail(Rollback) = <<"stop", "unrecord", "done">>
    /\ Head(<<"stop", "done">>) = "stop" /\ Tail(<<"stop", "done">>) = <<"done">>
    /\ "clear" \in Steps /\ "stop" \in Steps
    /\ <<"done">> \in Seq(Steps) /\ <<"stop", "unrecord", "done">> \in Seq(Steps)
  <1>1. "clear" \in Steps /\ "stop" \in Steps /\ "done" \in Steps /\ "unrecord" \in Steps
    BY DEF Steps
  <1> QED
    BY <1>1, Heads, Lists DEF Rollback

LEMMA CreatingLists ==
    /\ Head(<<"announce", "await", "ready", "publish", "done">>) = "announce"
    /\ Tail(<<"announce", "await", "ready", "publish", "done">>)
         = <<"await", "ready", "publish", "done">>
    /\ Head(<<"await", "ready", "publish", "done">>) = "await"
    /\ Tail(<<"await", "ready", "publish", "done">>) = <<"ready", "publish", "done">>
    /\ Head(<<"ready", "publish", "done">>) = "ready"
    /\ Tail(<<"ready", "publish", "done">>) = <<"publish", "done">>
    /\ Head(<<"publish", "done">>) = "publish" /\ Tail(<<"publish", "done">>) = <<"done">>
    /\ Head(<<"done">>) = "done"
    /\ <<"announce", "await", "ready", "publish", "done">> # <<>>
    /\ <<"await", "ready", "publish", "done">> # <<>>
    /\ <<"ready", "publish", "done">> # <<>> /\ <<"publish", "done">> # <<>>
    /\ <<"done">> # <<>>
  BY Heads

LEMMA Undoing ==
    ASSUME Types, NEW t \in Workers, Creates(th[t]),
           Follow(t, Rollback) \/ Follow(t, <<"stop", "done">>)
    PROVE  /\ th' \in [Workers -> Thread] /\ Undoes(th'[t])
           /\ \A u \in Workers : u # t => th'[u] = th[u]
           /\ Follow(t, Rollback) => th'[t].pc = "clear"
           /\ Follow(t, <<"stop", "done">>) => th'[t].pc = "stop"
           /\ th'[t].held = 0 /\ th'[t].mgr = th[t].mgr
           /\ th'[t].op = th[t].op /\ th'[t].rec = th[t].rec
           /\ th'[t].pid = th[t].pid /\ th'[t].nonce = th[t].nonce
  <1> DEFINE w == th[t]
             x == th'[t]
  <1>1. CASE Follow(t, Rollback)
    <2>1. /\ th' \in [Workers -> Thread] /\ \A u \in Workers : u # t => th'[u] = th[u]
          /\ x.pc = "clear" /\ x.todo = <<"stop", "unrecord", "done">>
          /\ x.held = 0 /\ x.mgr = w.mgr /\ x.op = w.op /\ x.rec = w.rec
          /\ x.pid = w.pid /\ x.nonce = w.nonce /\ x.inst = w.inst
      BY <1>1, RollbackSteps, Follows
    <2>2. Undoes(x)
      BY <2>1 DEF Creates, Undoes, Minted
    <2>3. ~Follow(t, <<"stop", "done">>)
      <3> SUFFICES ASSUME Follow(t, <<"stop", "done">>)
                   PROVE  FALSE
        OBVIOUS
      <3>1. x.pc = "stop"
        BY RollbackSteps, Follows
      <3> QED
        BY <2>1, <3>1
    <2> QED
      BY <2>1, <2>2, <2>3
  <1>2. CASE Follow(t, <<"stop", "done">>) /\ ~Follow(t, Rollback)
    <2>1. /\ th' \in [Workers -> Thread] /\ \A u \in Workers : u # t => th'[u] = th[u]
          /\ x.pc = "stop" /\ x.todo = <<"done">>
          /\ x.held = 0 /\ x.mgr = w.mgr /\ x.op = w.op /\ x.rec = w.rec
          /\ x.pid = w.pid /\ x.nonce = w.nonce /\ x.inst = w.inst
      BY <1>2, RollbackSteps, Follows
    <2>2. Undoes(x)
      BY <2>1 DEF Creates, Undoes, Minted, Stopping
    <2> QED
      BY <1>2, <2>1, <2>2
  <1> QED
    BY <1>1, <1>2

LEMMA AwaitSteps ==
    ASSUME IInv, NEW t \in Workers, Await(t)
    PROVE  IInv'
  <1> DEFINE w == th[t]
             x == th'[t]
  <1>1. /\ w.pc = "await"
        /\ \/ Proceed(t) /\ faults' = faults
           \/ (Fault \/ faults' = faults) /\ Follow(t, Rollback)
        /\ UNCHANGED <<shell, active, mutex, journal, lock, driver, lost>>
    BY DEF Await, At
  <1>2. /\ Types /\ Duty(t) /\ w.held = 0 /\ w.mgr \in Managers /\ lock = t
        /\ w.pc \in Locked /\ w.pc \notin Hand
        /\ w.pc \notin {"idle", "done"} /\ Creates(w)
    BY <1>1, Awake, Places DEF Duty, Locked, Hand, Stopping
  <1>3. /\ th' \in [Workers -> Thread]
        /\ \A u \in Workers : u # t => th'[u] = th[u]
        /\ Creates(x) \/ Undoes(x)
        /\ x.pc \in {"ready", "clear"}
        /\ x.held = 0 /\ x.mgr = w.mgr /\ x.op = w.op /\ x.rec = w.rec
        /\ x.pid = w.pid /\ x.nonce = w.nonce
    <2>1. CASE Proceed(t)
      <3>1. w.todo = <<"ready", "publish", "done">>
        BY <1>1, <1>2 DEF Creates
      <3>2. /\ th' \in [Workers -> Thread] /\ \A u \in Workers : u # t => th'[u] = th[u]
            /\ x.pc = "ready" /\ x.todo = <<"publish", "done">>
            /\ x.held = 0 /\ x.mgr = w.mgr /\ x.op = w.op /\ x.rec = w.rec
            /\ x.pid = w.pid /\ x.nonce = w.nonce /\ x.inst = w.inst
        BY <1>2, <2>1, <3>1, Proceeds, CreatingLists
      <3>3. Creates(x)
        BY <1>2, <3>2 DEF Creates, Minted
      <3> QED
        BY <3>2, <3>3
    <2>2. CASE Follow(t, Rollback)
      BY <1>2, <2>2, Undoing
    <2> QED
      BY <1>1, <2>1, <2>2
  <1>4. Types'
    BY <1>1, <1>2, <1>3, TypesNext, Still, StillDriver, Faulty DEF Types, TypeOK
  <1>5. Within(w.mgr, w.rec)' /\ (journal = <<>> \/ journal = w.rec)
    <2>1. Within(w.mgr, w.rec) /\ Names(w.rec)
      BY <1>2 DEF Duty, MapDuty, JournalDuty
    <2> QED
      BY <1>1, <1>3, <2>1 DEF Within, Matches, Named, Names
  <1>6. Duty(t)'
    BY <1>1, <1>2, <1>3, <1>5, StillDriver, CreatesDuty
  <1>7. Hands(t) /\ Ebbs /\ journal' = journal /\ UNCHANGED shell
    BY <1>1, <1>2, StillEbbs DEF Hands
  <1> QED
    BY <1>1, <1>2, <1>3, <1>4, <1>6, <1>7, Moves

LEMMA RecordSteps ==
    ASSUME IInv, NEW t \in Workers, Record(t)
    PROVE  IInv'
  <1> DEFINE w == th[t]
             x == th'[t]
             m == th[t].mgr
  <1>1. /\ \/ /\ w.pc = "record"
              /\ \/ journal' = w.rec /\ Proceed(t) /\ UNCHANGED faults
                 \/ Fault /\ Follow(t, <<"stop", "done">>) /\ UNCHANGED journal
           \/ /\ w.pc = "ready"
              /\ \/ journal' = w.rec /\ Proceed(t) /\ UNCHANGED faults
                 \/ Fault /\ Follow(t, Rollback) /\ UNCHANGED journal
        /\ UNCHANGED <<shell, active, mutex, lock, driver, lost>>
    BY DEF Record, WriteOr, At
  <1>2. /\ Types /\ Duty(t) /\ w.held = 0 /\ m \in Managers /\ lock = t
        /\ w.pc \in Locked /\ w.pc \notin {"idle", "done"} /\ Creates(w)
    BY <1>1, Awake, Places DEF Duty, Locked
  <1>3. /\ Within(m, w.rec) /\ Child(m, w.rec) /\ Names(w.rec) /\ Own(w)
        /\ Minted(w) /\ w.rec \in AtMostOneOf(Records) /\ w.rec # <<>>
    <2>1. Minted(w) /\ w.rec \in AtMostOneOf(Records)
      BY <1>2, ThreadType DEF Creates
    <2>2. w.rec # <<>>
      BY <2>1, Heads DEF Minted
    <2> QED
      BY <1>2, <2>1, <2>2 DEF Duty, MapDuty, JournalDuty
  <1>4. CASE journal' = w.rec /\ Proceed(t) /\ UNCHANGED faults
    <2>1. /\ th' \in [Workers -> Thread]
          /\ \A u \in Workers : u # t => th'[u] = th[u]
          /\ x.pc \in {"announce", "publish"} /\ Creates(x)
          /\ x.held = 0 /\ x.mgr = w.mgr /\ x.op = w.op /\ x.rec = w.rec
          /\ x.pid = w.pid /\ x.nonce = w.nonce
      <3>1. CASE w.pc = "record"
        <4>1. w.todo = <<"announce", "await", "ready", "publish", "done">>
          BY <1>2, <3>1 DEF Creates
        <4>2. /\ th' \in [Workers -> Thread]
              /\ \A u \in Workers : u # t => th'[u] = th[u]
              /\ x.pc = "announce" /\ x.todo = <<"await", "ready", "publish", "done">>
              /\ x.held = 0 /\ x.mgr = w.mgr /\ x.op = w.op /\ x.rec = w.rec
              /\ x.pid = w.pid /\ x.nonce = w.nonce /\ x.inst = w.inst
          BY <1>2, <1>4, <4>1, Proceeds, CreatingLists
        <4>3. Creates(x)
          BY <1>3, <4>2 DEF Creates, Minted
        <4> QED
          BY <4>2, <4>3
      <3>2. CASE w.pc = "ready"
        <4>1. w.todo = <<"publish", "done">>
          BY <1>2, <3>2 DEF Creates
        <4>2. /\ th' \in [Workers -> Thread]
              /\ \A u \in Workers : u # t => th'[u] = th[u]
              /\ x.pc = "publish" /\ x.todo = <<"done">>
              /\ x.held = 0 /\ x.mgr = w.mgr /\ x.op = w.op /\ x.rec = w.rec
              /\ x.pid = w.pid /\ x.nonce = w.nonce /\ x.inst = w.inst
          BY <1>2, <1>4, <4>1, Proceeds, CreatingLists
        <4>3. Creates(x)
          BY <1>3, <4>2 DEF Creates, Minted
        <4> QED
          BY <4>2, <4>3
      <3> QED
        BY <1>1, <3>1, <3>2
    <2>2. Types'
      BY <1>1, <1>2, <1>3, <1>4, <2>1, TypesNext, Still, StillDriver DEF Types, TypeOK
    <2>3. Within(w.mgr, w.rec)'
      BY <1>1, <1>3, <2>1 DEF Within, Matches, Named
    <2>4. Duty(t)'
      BY <1>1, <1>2, <1>4, <2>1, <2>3, StillDriver, CreatesDuty
    <2>5. MapAgrees' /\ Leaves(t)
      BY <1>1, <1>2, <1>3, <1>4, <2>1, RecordAgrees
    <2>6. Accounted'
      <3>1. w.rec[1].nonce = w.nonce /\ w.pid = <<w.rec[1].pid>>
        <4>1. w.pid \in AtMostOneOf(Pids) /\ w.pid # <<>>
          BY <1>2, <1>3, ThreadType DEF Minted
        <4> QED
          BY <1>3, <4>1, Singles DEF Minted
      <3>2. \A p \in Pids : os[p] = w.nonce => w.rec[1].pid = p
        BY <1>3, <3>1 DEF Own
      <3> QED
        BY <1>1, <1>2, <1>3, <1>4, <2>1, <3>1, <3>2, StillDriver, RecordStands DEF IInv
    <2>7. PidsKept'
      BY <1>1, StillDriver DEF IInv, PidsKept
    <2>8. \A p \in Pids : os'[p] \in Nonces => os'[p] = os[p]
      BY <1>1, StillDriver
    <2>9. UNCHANGED shell /\ spawned' = spawned
          /\ \A n \in Managers : n # w.mgr => active'[n] = active[n]
      BY <1>1, StillDriver
    <2> QED
      BY <1>2, <2>1, <2>2, <2>4, <2>5, <2>6, <2>7, <2>8, <2>9, MovesAlone
  <1>5. CASE /\ Fault /\ UNCHANGED journal
             /\ \/ w.pc = "record" /\ Follow(t, <<"stop", "done">>)
                \/ w.pc = "ready" /\ Follow(t, Rollback)
    <2>1. /\ th' \in [Workers -> Thread] /\ Undoes(x)
          /\ \A u \in Workers : u # t => th'[u] = th[u]
          /\ w.pc = "record" => x.pc = "stop"
          /\ w.pc = "ready" => x.pc = "clear"
          /\ x.held = 0 /\ x.mgr = w.mgr /\ x.op = w.op /\ x.rec = w.rec
          /\ x.pid = w.pid /\ x.nonce = w.nonce
      BY <1>2, <1>5, Undoing
    <2>2. Types'
      BY <1>1, <1>2, <1>5, <2>1, TypesNext, Still, StillDriver, Faulty DEF Types, TypeOK
    <2>3. ~Creates(x) /\ x.pc \notin {"record", "unrecord", "stopping"}
      BY <1>1, <2>1 DEF Creates
    <2>4. Duty(t)'
      BY <1>1, <1>2, <1>3, <1>5, <2>1, <2>3, StillDriver, CreatesDuty DEF Names
    <2>5. Hands(t) /\ Ebbs /\ journal' = journal /\ UNCHANGED shell
      BY <1>1, <1>5, <2>1, StillEbbs DEF Hands, Hand, Stopping
    <2> QED
      BY <1>1, <1>2, <2>1, <2>2, <2>4, <2>5, Moves
  <1> QED
    BY <1>1, <1>4, <1>5

LEMMA PublishSteps ==
    ASSUME IInv, NEW t \in Workers, Publish(t)
    PROVE  IInv'
  <1> DEFINE w == th[t]
             x == th'[t]
             m == th[t].mgr
  <1>1. PICK isReady \in BOOLEAN :
           /\ w.pc \in {"announce", "publish"}
           /\ active' = [active EXCEPT ![m] =
                            <<[inst |-> w.inst[1], pid |-> w.pid[1], ready |-> isReady]>>]
           /\ Proceed(t)
           /\ UNCHANGED <<shell, mutex, journal, lock, driver, faults, lost>>
    BY DEF Publish, PublishEntry, At, Mine
  <1>2. /\ Types /\ Duty(t) /\ w.held = 0 /\ m \in Managers /\ lock = t
        /\ w.pc \in Locked /\ w.pc \notin {"idle", "done"} /\ Creates(w)
        /\ w.pc \notin Hand
    BY <1>1, Awake, Places DEF Duty, Locked, Hand, Stopping
  <1>3. /\ Child(m, w.rec) /\ Names(w.rec) /\ Minted(w)
        /\ w.rec \in AtMostOneOf(Records) /\ w.rec # <<>>
    <2>1. Minted(w) /\ w.rec \in AtMostOneOf(Records)
      BY <1>2, ThreadType DEF Creates
    <2>2. w.rec # <<>>
      BY <2>1, Heads DEF Minted
    <2> QED
      BY <1>2, <2>1, <2>2 DEF Duty, JournalDuty
  <1>4. /\ w.inst[1] \in Instances /\ w.pid[1] \in Pids
        /\ active \in [Managers -> AtMostOneOf(Statuses)]
    BY <1>2, <1>3, ThreadType, Singles DEF Minted, Types, TypeOK
  <1>5. /\ active' \in [Managers -> AtMostOneOf(Statuses)]
        /\ active'[m] = <<[inst |-> w.inst[1], pid |-> w.pid[1], ready |-> isReady]>>
        /\ \A n \in Managers : n # m => active'[n] = active[n]
    <2>1. [inst |-> w.inst[1], pid |-> w.pid[1], ready |-> isReady] \in Statuses
      BY <1>4 DEF Statuses
    <2> QED
      BY <1>1, <1>2, <1>4, <2>1 DEF AtMostOneOf
  <1>6. Matches(w.rec, active'[m])
    BY <1>3, <1>5 DEF Matches, Minted, Named
  <1>7. os' = os /\ retained' = retained /\ recovered' = recovered /\ spawned' = spawned
        /\ journal' = journal /\ parted' = parted
    BY <1>1, Still, StillDriver
  <1>8. /\ th' \in [Workers -> Thread]
        /\ \A u \in Workers : u # t => th'[u] = th[u]
        /\ x.held = 0 /\ x.mgr = m
        /\ \/ x.pc = "done" /\ x.op = "status" /\ x.nonce = 0
           \/ /\ x.pc = "await" /\ Creates(x) /\ x.op = w.op /\ x.rec = w.rec
              /\ x.pid = w.pid /\ x.nonce = w.nonce
    <2>1. CASE w.pc = "announce"
      <3>1. w.todo = <<"await", "ready", "publish", "done">>
        BY <1>2, <2>1 DEF Creates
      <3>2. /\ th' \in [Workers -> Thread]
            /\ \A u \in Workers : u # t => th'[u] = th[u]
            /\ x.pc = "await" /\ x.todo = <<"ready", "publish", "done">>
            /\ x.held = 0 /\ x.mgr = w.mgr /\ x.op = w.op /\ x.rec = w.rec
            /\ x.pid = w.pid /\ x.nonce = w.nonce /\ x.inst = w.inst
        BY <1>1, <1>2, <3>1, Proceeds, CreatingLists
      <3>3. Creates(x)
        BY <1>3, <3>2 DEF Creates, Minted
      <3> QED
        BY <3>2, <3>3
    <2>2. CASE w.pc = "publish"
      <3>1. w.todo = <<"done">>
        BY <1>2, <2>2 DEF Creates
      <3>2. Return(t)
        BY <1>1, <3>1, LastStep, CreatingLists
      <3> QED
        BY <1>2, <3>2, Returns
    <2> QED
      BY <1>1, <2>1, <2>2
  <1>9. Types'
    BY <1>1, <1>2, <1>5, <1>7, <1>8, TypesNext, Still DEF Types, TypeOK
  <1>10. Duty(t)'
    <2>1. CASE x.pc = "done"
      BY <1>2, <1>8, <2>1, ReturnDuty
    <2>2. CASE x.pc = "await"
      <3>1. Within(w.mgr, w.rec)'
        BY <1>5, <1>6, <1>8, <2>2 DEF Within, Matches, Named
      <3> QED
        BY <1>1, <1>2, <1>3, <1>7, <1>8, <2>2, <3>1, CreatesDuty DEF Names
    <2> QED
      BY <1>8, <2>1, <2>2
  <1>11. Leaves(t)
    BY <1>7 DEF Leaves, Runs, Named
  <1>12. MapAgrees'
    <2> SUFFICES ASSUME NEW n \in Managers, active'[n] # <<>>, Runs(journal)'
                 PROVE  IF Kept(n, journal[1].pid, journal[1].nonce)'
                        THEN Matches(journal, active[n])' ELSE parted'
      BY DEF MapAgrees
    <2>1. Runs(journal) /\ journal = w.rec
      BY <1>3, <1>7 DEF Names, Runs, Named
    <2>2. CASE n = m
      <3>1. retained[m][journal[1].pid] = journal[1].nonce
        BY <1>3, <2>1 DEF Child
      <3>2. Kept(n, journal[1].pid, journal[1].nonce)'
        BY <1>7, <2>2, <3>1 DEF Kept
      <3> QED
        BY <1>6, <1>7, <2>1, <2>2, <3>2 DEF Matches, Named
    <2>3. CASE n # m
      <3>1. journal[1].nonce # 0
        BY <1>3, <2>1, RecordType
      <3>2. Kept(n, journal[1].pid, journal[1].nonce)'
              => Kept(n, journal[1].pid, journal[1].nonce)
        BY <1>2, <1>7, <1>8, <3>1 DEF Kept
      <3>3. Kept(n, journal[1].pid, journal[1].nonce)
              => Kept(n, journal[1].pid, journal[1].nonce)'
        BY <1>2, <1>7, <1>8, <3>1 DEF Kept
      <3>4. IF Kept(n, journal[1].pid, journal[1].nonce)
            THEN Matches(journal, active[n]) ELSE parted
        BY <1>5, <2>1, <2>3 DEF IInv, MapAgrees
      <3> QED
        BY <1>5, <1>7, <2>3, <3>2, <3>3, <3>4 DEF Matches, Named
    <2> QED
      BY <2>2, <2>3
  <1>13. PidsKept'
    BY <1>7 DEF IInv, PidsKept
  <1>14. Accounted'
    <2>1. Hands(t) /\ lost' = lost
      BY <1>1, <1>2 DEF Hands
    <2> QED
      BY <1>7, <1>8, <2>1, AccountedMoves DEF IInv
  <1>15. x.op = "start" /\ x.nonce = 0 => w.op = "start" /\ w.nonce = 0
    BY <1>8
  <1>16. UNCHANGED shell /\ (\A p \in Pids : os'[p] \in Nonces => os'[p] = os[p])
    BY <1>1, <1>7
  <1> QED
    BY <1>2, <1>5, <1>7, <1>8, <1>9, <1>10, <1>11, <1>12, <1>13, <1>14, <1>15, <1>16,
       MovesAlone

LEMMA SpawnSteps ==
    ASSUME IInv, NEW t \in Workers, Spawn(t)
    PROVE  IInv'
  <1> DEFINE w == th[t]
             x == th'[t]
             m == th[t].mgr
             n == spawned + 1
  <1>1. /\ w.pc = "spawn"
        /\ \/ /\ Fault \/ faults' = faults
              /\ Return(t)
              /\ UNCHANGED <<os, retained, spawned>>
           \/ /\ spawned' = n
              /\ \E p \in Pids :
                    /\ Free(p)
                    /\ os' = [os EXCEPT ![p] = n]
                    /\ retained' = [retained EXCEPT ![m][p] = n]
                    /\ th' = [th EXCEPT
                         ![t].pid = <<p>>, ![t].nonce = n,
                         ![t].rec = <<[inst |-> w.inst[1], pid |-> p, nonce |-> n]>>,
                         ![t].pc = "record",
                         ![t].todo = <<"announce", "await", "ready", "publish", "done">>]
              /\ UNCHANGED faults
        /\ UNCHANGED <<shell, active, mutex, journal, lock, recovered, lost>>
    BY DEF Spawn, At, Mine
  <1>2. /\ Types /\ Duty(t) /\ w.held = 0 /\ m \in Managers /\ lock = t
        /\ w.pc \in Locked /\ w.pc \notin {"idle", "done"} /\ Prepares(w)
        /\ w.pc \notin Hand
    BY <1>1, Awake, Places DEF Duty, Locked, Hand, Stopping
  <1>3. /\ os \in [Pids -> OrNone \cup {Stranger}]
        /\ retained \in [Managers -> [Pids -> OrNone]]
        /\ spawned \in OrNone /\ th \in [Workers -> Thread]
        /\ spawned \in Nat /\ MaxSpawns \in Nat
    BY <1>2, LocalRuntimeAssumption DEF Types, TypeOK, OrNone
  <1>4. CASE /\ Fault \/ faults' = faults
             /\ Return(t)
             /\ UNCHANGED <<os, retained, spawned>>
    <2>1. Ebbs
      BY <1>1, <1>4 DEF Ebbs, shell
    <2> QED
      BY <1>1, <1>2, <1>4, <2>1, GivesUp DEF Types, TypeOK
  <1>5. ASSUME spawned' = n, faults' = faults, NEW p \in Pids, Free(p),
               os' = [os EXCEPT ![p] = n],
               retained' = [retained EXCEPT ![m][p] = n],
               th' = [th EXCEPT
                         ![t].pid = <<p>>, ![t].nonce = n,
                         ![t].rec = <<[inst |-> w.inst[1], pid |-> p, nonce |-> n]>>,
                         ![t].pc = "record",
                         ![t].todo = <<"announce", "await", "ready", "publish", "done">>]
        PROVE  IInv'
    <2> DEFINE r == [inst |-> w.inst[1], pid |-> p, nonce |-> n]
               list == <<"announce", "await", "ready", "publish", "done">>
               y == [w EXCEPT !.pid = <<p>>, !.nonce = n, !.rec = <<r>>,
                              !.pc = "record", !.todo = list]
    <2>1. /\ journal = <<>> /\ active[m] = <<>> /\ w.op = "start" /\ w.nonce = 0
          /\ w.inst # <<>> /\ w.op # "reconcile"
      BY <1>1, <1>2 DEF Duty, MapDuty, JournalDuty, Prepares, Begins
    <2>2. t \in Threads
      BY <1>1, <1>2, <2>1, Idle DEF Duty, Workers
    <2>3. n \in Nonces /\ n \in OrNone /\ n \in Nat /\ n # 0 /\ n # Stranger
      <3>1. t \in Pending
        BY <2>1, <2>2 DEF Pending
      <3>2. Cardinality(Pending) >= 1
        <4>1. {t} \subseteq Pending
          BY <3>1
        <4>2. Cardinality({t}) = 1
          BY FS_Singleton
        <4> QED
          BY <4>1, <4>2, PendingFinite
      <3>3. spawned + 1 <= MaxSpawns
        BY <1>3, <3>2, PendingFinite DEF IInv, Budget
      <3> QED
        BY <1>3, <3>3, LocalRuntimeAssumption DEF Nonces, OrNone
    <2>4. w.inst[1] \in Instances /\ r \in Records
      BY <1>2, <2>1, <2>3, ThreadType, Singles DEF Records
    <2>5. list \in Seq(Steps) /\ "record" \in Steps
      <3>1. /\ "announce" \in Steps /\ "await" \in Steps /\ "ready" \in Steps
            /\ "publish" \in Steps /\ "done" \in Steps /\ "record" \in Steps
        BY DEF Steps
      <3> QED
        BY <3>1, Lists
    <2>6. th' = [th EXCEPT ![t] = y]
      BY <1>3, <1>5
    <2>7. w \in Thread /\ <<p>> \in AtMostOneOf(Pids) /\ <<r>> \in AtMostOneOf(Records)
      BY <1>3, <2>4 DEF AtMostOneOf
    <2>8. /\ y \in Thread /\ y.pid = <<p>> /\ y.nonce = n /\ y.rec = <<r>>
          /\ y.pc = "record" /\ y.todo = list /\ y.held = w.held /\ y.mgr = w.mgr
          /\ y.op = w.op /\ y.inst = w.inst
      BY <2>3, <2>5, <2>7 DEF Thread
    <2>9. /\ th' \in [Workers -> Thread] /\ \A u \in Workers : u # t => th'[u] = th[u]
          /\ x = y
      <3> HIDE DEF y
      <3> QED
        BY <1>3, <2>6, <2>8
    <2>10. x.pid = <<p>> /\ x.nonce = n /\ x.rec = <<r>> /\ x.pc = "record" /\ x.todo = list
           /\ x.held = 0 /\ x.mgr = m /\ x.op = "start" /\ x.inst = w.inst
      BY <1>2, <2>1, <2>8, <2>9
    <2> HIDE DEF y, list
    <2>11. /\ os' \in [Pids -> OrNone \cup {Stranger}] /\ os'[p] = n
           /\ \A q \in Pids : q # p => os'[q] = os[q]
           /\ retained' \in [Managers -> [Pids -> OrNone]] /\ retained'[m][p] = n
           /\ \A k \in Managers, q \in Pids :
                 k # m \/ q # p => retained'[k][q] = retained[k][q]
      BY <1>2, <1>3, <1>5, <2>3
    <2>12. Types'
      BY <1>1, <1>2, <1>5, <2>3, <2>9, <2>11, TypesNext, Still DEF Types, TypeOK
    <2>13. os[p] = 0 /\ \A k \in Managers : retained[k][p] = 0
      BY <1>5 DEF Free
    <2>14. PidsKept'
      BY <2>3, <2>11, <2>13 DEF IInv, PidsKept
    <2>15. \A q \in Pids : os'[q] = n => q = p
      <3> SUFFICES ASSUME NEW q \in Pids, q # p, os[q] = n
                   PROVE  FALSE
        BY <2>11
      <3> QED
        BY <1>3, <2>3 DEF IInv, NoncesOnce
    <2>16. NoncesOnce'
      <3>1. \A q \in Pids : os'[q] \in Nonces => os'[q] <= spawned'
        BY <1>3, <1>5, <2>3, <2>11 DEF IInv, NoncesOnce, Nonces
      <3>2. \A q, s \in Pids : os'[q] \in Nonces /\ os'[q] = os'[s] => q = s
        BY <2>11, <2>15 DEF IInv, NoncesOnce
      <3> QED
        BY <3>1, <3>2 DEF NoncesOnce
    <2>17. journal' = <<>> /\ ~Runs(journal)'
      BY <1>1, <2>1 DEF Runs, Named
    <2>18. Leaves(t) /\ MapAgrees' /\ parted' = parted
      BY <1>1, <2>17, Still DEF Leaves, MapAgrees
    <2>19. Creates(x) /\ active'[m] = <<>>
      <3>1. x.pid # <<>> /\ x.pid[1] = p
        BY <2>10
      <3>2. x.rec = <<[inst |-> x.inst[1], pid |-> x.pid[1], nonce |-> x.nonce]>>
        BY <2>10, <3>1
      <3>3. Minted(x)
        BY <2>1, <2>3, <2>10, <3>1, <3>2 DEF Minted
      <3> QED
        BY <1>1, <2>1, <2>10, <3>3 DEF Creates, list
    <2>20. ~Judges(x) /\ ~Replaces(x) /\ ~Forgets(x) /\ ~Prepares(x) /\ ~Undoes(x)
      BY <2>10, <2>3
         DEF Judges, Replaces, Forgets, Prepares, Undoes, Begins, Stopping
    <2>21. MapDuty(t)' /\ JournalDuty(t)'
      <3>1. Own(w)'
        BY <2>10, <2>15 DEF Own
      <3>2. Within(w.mgr, w.rec)' /\ Names(w.rec)'
        BY <2>10, <2>17, <2>19 DEF Within, Names
      <3>3. Child(w.mgr, w.rec)'
        BY <2>10, <2>11 DEF Child, Runs, Named
      <3> QED
        BY <2>10, <2>17, <2>19, <2>20, <3>1, <3>2, <3>3 DEF MapDuty, JournalDuty, Stopping
    <2>22. Duty(t)'
      BY <1>1, <1>2, <2>1, <2>10, <2>19, <2>21, Arrives DEF Placed
    <2>23. \A u \in Workers : Duty(u)'
      BY <1>2, <2>9, <2>12, <2>14, <2>18, <2>22, OutOfTheWay
    <2>24. Budget'
      <3>1. Pending' = Pending \ {t} /\ t \in Pending
        <4>1. \A u \in Threads : u # t => th'[u] = th[u]
          BY <2>9 DEF Workers
        <4> QED
          BY <2>1, <2>2, <2>3, <2>10, <4>1 DEF Pending
      <3>2. IsFiniteSet(Pending) /\ Cardinality(Pending) \in Nat
        BY PendingFinite
      <3>3. Cardinality(Pending \ {t}) = Cardinality(Pending) - 1
        BY <3>1, <3>2, FS_RemoveElement
      <3> QED
        BY <1>3, <1>5, <3>1, <3>2, <3>3 DEF IInv, Budget
    <2>25. Turns'
      <3>1. w # IdleThread /\ UNCHANGED shell
            /\ \A k \in Managers : k # w.mgr => active'[k] \in {active[k], <<>>}
        BY <1>1, <1>2, Idle
      <3> QED
        BY <2>9, <2>10, <3>1, TurnsStay
    <2>26. Accounted'
      <3> SUFFICES ASSUME NEW q \in Pids, os'[q] \in Nonces
                   PROVE  InHand(os[q])' \/ os'[q] \in lost'
        BY DEF Accounted
      <3>1. CASE q = p
        BY <2>2, <2>10, <2>11, <3>1 DEF InHand
      <3>2. CASE q # p
        <4>1. os'[q] = os[q] /\ lost' = lost
          BY <1>1, <2>11, <3>2
        <4>2. ~Runs(journal)
          BY <2>1 DEF Runs, Named
        <4>3. CASE os[q] \in lost
          BY <4>1, <4>3
        <4>4. CASE InHand(os[q])
          <5>1. PICK u \in Threads : th[u].nonce = os[q] /\ th[u].pc \in Hand
            BY <4>4 DEF InHand, Hand, Stopping
          <5>2. u # t /\ u \in Workers
            BY <1>2, <5>1 DEF Workers
          <5> QED
            BY <2>9, <4>1, <5>1, <5>2 DEF InHand, Hand, Stopping
        <4> QED
          BY <4>1, <4>2, <4>3, <4>4 DEF IInv, Accounted
      <3> QED
        BY <3>1, <3>2
    <2> QED
      BY <2>12, <2>14, <2>16, <2>18, <2>23, <2>24, <2>25, <2>26 DEF IInv
  <1> QED
    BY <1>1, <1>4, <1>5

-----------------------------------------------------------------------------
(***************************************************************************)
(* The stop of a process.                                                  *)
(***************************************************************************)
LEMMA AtStop ==
    ASSUME IInv, NEW t \in Workers, th[t].pc \in Stopping
    PROVE  /\ Types /\ Duty(t) /\ th[t].mgr \in Managers /\ lock = t
           /\ th[t].pc \in Locked /\ th[t].pc \notin {"idle", "done"}
           /\ th[t].pid[1] \in Pids /\ th[t].pid = <<th[t].pid[1]>> /\ th[t].pid # <<>>
           /\ th[t].nonce \in OrNone
           /\ Runs(journal) => journal[1].pid = th[t].pid[1] \/ OfAnother(t)
           /\ \/ Replaces(th[t]) /\ th[t].todo = <<"unrecord", "clear", "orphan">>
                 /\ th[t].nonce = 0 /\ th[t].op = "start"
                 /\ active[th[t].mgr] \in {<<>>, th[t].seen}
              \/ Prepares(th[t]) /\ th[t].todo = <<"unrecord", "spawn">>
                 /\ th[t].nonce = 0 /\ th[t].op = "start" /\ active[th[t].mgr] = <<>>
              \/ Undoes(th[t]) /\ th[t].todo \in {<<"unrecord", "done">>, <<"done">>}
                 /\ th[t].nonce # 0 /\ th[t].op = "start" /\ Own(th[t])
                 /\ Names(th[t].rec)
              \/ Ends(th[t]) /\ th[t].todo = <<"unrecord", "drop", "done">>
                 /\ th[t].nonce = 0 /\ th[t].op = "stop"
              \/ Sweeps(th[t]) /\ th[t].todo = <<"unrecord", "done">>
                 /\ th[t].nonce = 0 /\ th[t].op = "reconcile"
  <1> DEFINE w == th[t]
  <1>1. w.pc \in Locked /\ w.pc \notin {"idle", "done"}
    BY DEF Stopping, Locked
  <1>2. Types /\ Duty(t) /\ w.mgr \in Managers /\ lock = t
    BY <1>1, Awake DEF Duty
  <1>3. w.pid # <<>> /\ w.pid \in AtMostOneOf(Pids) /\ w.nonce \in OrNone
    BY <1>2, ThreadType DEF Duty, JournalDuty
  <1>4. w.pid[1] \in Pids /\ w.pid = <<w.pid[1]>>
    BY <1>3, Singles
  <1>5. Runs(journal) => journal[1].pid = w.pid[1] \/ OfAnother(t)
    BY <1>2 DEF Duty, JournalDuty
  <1>6. \/ Replaces(w) /\ w.todo = <<"unrecord", "clear", "orphan">>
        \/ Prepares(w) /\ w.todo = <<"unrecord", "spawn">>
        \/ Undoes(w) /\ w.todo \in {<<"unrecord", "done">>, <<"done">>}
        \/ Ends(w) /\ w.todo = <<"unrecord", "drop", "done">>
        \/ Sweeps(w) /\ w.todo = <<"unrecord", "done">>
    BY <1>2, Places DEF Duty
  <1>7. /\ Replaces(w) => active[w.mgr] \in {<<>>, w.seen}
        /\ Prepares(w) => active[w.mgr] = <<>>
        /\ Undoes(w) => Own(w) /\ Names(w.rec)
    BY <1>2 DEF Duty, MapDuty, JournalDuty
  <1>8. /\ Replaces(w) \/ Prepares(w) => w.nonce = 0 /\ w.op = "start"
        /\ Undoes(w) => w.nonce # 0 /\ w.op = "start"
        /\ Ends(w) => w.nonce = 0 /\ w.op = "stop"
        /\ Sweeps(w) => w.nonce = 0 /\ w.op = "reconcile"
    BY DEF Replaces, Prepares, Begins, Undoes, Minted, Ends, Sweeps
  <1> QED
    BY <1>1, <1>2, <1>3, <1>4, <1>5, <1>6, <1>7, <1>8

\* It goes on with its stop.
LEMMA StopStays ==
    ASSUME IInv, NEW t \in Workers, th[t].pc \in Stopping, th'[t].pc \in Stopping,
           th'[t].pc = "stopping" => th'[t].held # 0,
           th'[t].op = th[t].op, th'[t].mgr = th[t].mgr, th'[t].inst = th[t].inst,
           th'[t].seen = th[t].seen, th'[t].rec = th[t].rec, th'[t].pid = th[t].pid,
           th'[t].nonce = th[t].nonce, th'[t].todo = th[t].todo,
           active' = active, journal' = journal, lock' = lock,
           \A q \in Pids : os'[q] = os[q] \/ os'[q] = 0,
           Runs(journal)' => journal[1].pid = th[t].pid[1] \/ OfAnother(t)'
    PROVE  /\ Placed(th'[t]) /\ MapDuty(t)' /\ JournalDuty(t)' /\ Hands(t)
           /\ HeldDuty(t)' => Duty(t)'
  <1> DEFINE w == th[t]
             x == th'[t]
  <1>1. Types /\ Duty(t) /\ w.mgr \in Managers /\ lock = t /\ w.pid # <<>>
        /\ w.pc \notin {"idle", "done"} /\ w.nonce \in OrNone
    BY AtStop
  <1>2. Hands(t)
    BY DEF Hands, Hand
  <1>3. /\ Replaces(x) <=> Replaces(w)
        /\ Prepares(x) <=> Prepares(w)
        /\ Undoes(x) <=> Undoes(w)
        /\ Ends(x) <=> Ends(w)
        /\ Sweeps(x) <=> Sweeps(w)
        /\ ~Judges(x) /\ ~Forgets(x) /\ ~Creates(x)
    BY DEF Replaces, Prepares, Undoes, Ends, Sweeps, Begins, Minted, Judges, Forgets,
           Creates, Stopping
  <1>4. Placed(x)
    BY <1>1, <1>3, AtStop DEF Placed
  <1>5. MapDuty(t)'
    <2>1. x.pc \notin {"record", "rewrite"}
      BY DEF Stopping
    <2>2. /\ Replaces(w) => active[w.mgr] \in {<<>>, w.seen}
          /\ Prepares(w) => active[w.mgr] = <<>>
      BY <1>1 DEF Duty, MapDuty
    <2> QED
      BY <1>3, <2>1, <2>2 DEF MapDuty
  <1>6. JournalDuty(t)'
    <2>1. x.pc \notin {"judge", "unrecord", "rewrite", "spawn", "record", "lock", "recover"}
      BY DEF Stopping
    <2>2. Undoes(w) => Own(w)' /\ Names(w.rec)'
      <3>1. Undoes(w) => Own(w) /\ Names(w.rec) /\ w.nonce # 0
        BY <1>1 DEF Duty, JournalDuty, Undoes, Minted
      <3> QED
        BY <3>1 DEF Own, Names
    <2> QED
      BY <1>1, <1>3, <2>1, <2>2 DEF JournalDuty
  <1>7. HeldDuty(t)' => Duty(t)'
    <2>1. (x.op = "reconcile" => t = Main) /\ (t = Main => x.op = "reconcile")
      BY <1>1, Idle DEF Duty
    <2> QED
      BY <1>1, <1>4, <1>5, <1>6, <2>1 DEF Duty
  <1> QED
    BY <1>2, <1>4, <1>5, <1>6, <1>7

LEMMA StopLists ==
    /\ Head(<<"unrecord", "clear", "orphan">>) = "unrecord"
    /\ Tail(<<"unrecord", "clear", "orphan">>) = <<"clear", "orphan">>
    /\ Head(<<"unrecord", "spawn">>) = "unrecord" /\ Tail(<<"unrecord", "spawn">>) = <<"spawn">>
    /\ Head(<<"unrecord", "done">>) = "unrecord" /\ Tail(<<"unrecord", "done">>) = <<"done">>
    /\ Head(<<"unrecord", "drop", "done">>) = "unrecord"
    /\ Tail(<<"unrecord", "drop", "done">>) = <<"drop", "done">>
    /\ Head(<<"done">>) = "done"
    /\ <<"unrecord", "clear", "orphan">> # <<>> /\ <<"unrecord", "spawn">> # <<>>
    /\ <<"unrecord", "done">> # <<>> /\ <<"unrecord", "drop", "done">> # <<>>
    /\ <<"done">> # <<>>
  BY Heads

\* It goes on after its stop: to the record, or, where none was written, home.
LEMMA StopLeads ==
    ASSUME IInv, NEW t \in Workers, th[t].pc \in Stopping, Proceed(t),
           active' = active, journal' = journal, lock' = lock,
           \A q \in Pids : os'[q] = os[q] \/ os'[q] = 0,
           th[t].nonce = 0 => Forsaken(t)'
    PROVE  /\ th' \in [Workers -> Thread]
           /\ \A u \in Workers : u # t => th'[u] = th[u]
           /\ th'[t].held = 0 /\ th'[t].mgr = th[t].mgr
           /\ th'[t].op = "start" /\ th'[t].nonce = 0
                => th[t].op = "start" /\ th[t].nonce = 0
           /\ Duty(t)'
  <1> DEFINE w == th[t]
             x == th'[t]
  <1>1. Types /\ Duty(t) /\ w.mgr \in Managers /\ lock = t /\ w.pid # <<>>
        /\ w.pc \notin {"idle", "done"} /\ w.nonce \in OrNone
    BY AtStop
  <1>2. \/ Replaces(w) /\ w.todo = <<"unrecord", "clear", "orphan">>
           /\ w.nonce = 0 /\ w.op = "start" /\ active[w.mgr] \in {<<>>, w.seen}
        \/ Prepares(w) /\ w.todo = <<"unrecord", "spawn">>
           /\ w.nonce = 0 /\ w.op = "start" /\ active[w.mgr] = <<>>
        \/ Undoes(w) /\ w.todo \in {<<"unrecord", "done">>, <<"done">>}
           /\ w.nonce # 0 /\ w.op = "start" /\ Own(w) /\ Names(w.rec)
        \/ Ends(w) /\ w.todo = <<"unrecord", "drop", "done">>
           /\ w.nonce = 0 /\ w.op = "stop"
        \/ Sweeps(w) /\ w.todo = <<"unrecord", "done">>
           /\ w.nonce = 0 /\ w.op = "reconcile"
    BY AtStop
  <1>3. w.todo # <<>>
    BY <1>2, StopLists
  <1>4. /\ th' \in [Workers -> Thread]
        /\ \A u \in Workers : u # t => th'[u] = th[u]
        /\ x.pc = Head(w.todo) /\ x.held = 0 /\ x.mgr = w.mgr
        /\ x.pc = "done" => x.op = "status" /\ x.nonce = 0
        /\ x.pc # "done" =>
              /\ x.todo = Tail(w.todo) /\ x.op = w.op /\ x.inst = w.inst
              /\ x.seen = w.seen /\ x.rec = w.rec /\ x.pid = w.pid /\ x.nonce = w.nonce
    BY <1>1, <1>3, Proceeds
  <1>5. CASE w.todo = <<"done">>
    BY <1>1, <1>4, <1>5, StopLists, ReturnDuty
  <1>6. CASE w.todo # <<"done">>
    <2>1. x.pc = "unrecord"
      BY <1>2, <1>4, <1>6, StopLists
    <2>2. /\ Replaces(w) /\ w.nonce = 0 => Replaces(x)
          /\ Prepares(w) /\ w.nonce = 0 /\ w.todo = <<"unrecord", "spawn">> => Prepares(x)
          /\ Undoes(w) => Undoes(x)
          /\ Ends(w) /\ w.todo = <<"unrecord", "drop", "done">> => Ends(x)
          /\ Sweeps(w) => Sweeps(x)
      <3>1. Replaces(w) /\ w.nonce = 0 => Replaces(x)
        <4> SUFFICES ASSUME Replaces(w), w.nonce = 0
                     PROVE  Replaces(x)
          OBVIOUS
        <4>1. w.todo = <<"unrecord", "clear", "orphan">>
          BY DEF Replaces, Stopping
        <4>2. x.todo = <<"clear", "orphan">>
          BY <1>4, <2>1, <4>1, StopLists
        <4> QED
          BY <1>4, <2>1, <4>2 DEF Replaces, Begins
      <3>2. Prepares(w) /\ w.nonce = 0 /\ w.todo = <<"unrecord", "spawn">> => Prepares(x)
        BY <1>4, <2>1, StopLists DEF Prepares, Begins
      <3>3. Undoes(w) => Undoes(x)
        <4> SUFFICES ASSUME Undoes(w)
                     PROVE  Undoes(x)
          OBVIOUS
        <4>1. w.todo = <<"unrecord", "done">>
          BY <1>6 DEF Undoes, Stopping
        <4>2. x.todo = <<"done">>
          BY <1>4, <2>1, <4>1, StopLists
        <4> QED
          BY <1>4, <2>1, <4>2 DEF Undoes, Minted
      <3>4. Ends(w) /\ w.todo = <<"unrecord", "drop", "done">> => Ends(x)
        BY <1>4, <2>1, StopLists DEF Ends
      <3>5. Sweeps(w) => Sweeps(x)
        <4> SUFFICES ASSUME Sweeps(w)
                     PROVE  Sweeps(x)
          OBVIOUS
        <4>1. w.todo = <<"unrecord", "done">>
          BY DEF Sweeps, Stopping
        <4>2. x.todo = <<"done">>
          BY <1>4, <2>1, <4>1, StopLists
        <4> QED
          BY <1>4, <2>1, <4>2 DEF Sweeps
      <3> QED
        BY <3>1, <3>2, <3>3, <3>4, <3>5
    <2>3. Placed(x)
      BY <1>1, <1>2, <1>4, <2>2 DEF Placed
    <2>4. ~Judges(x) /\ ~Forgets(x) /\ ~Creates(x)
      BY <2>1 DEF Judges, Forgets, Creates
    <2>5. MapDuty(t)'
      <3>1. Replaces(x) => active'[w.mgr] \in {<<>>, x.seen}
        <4> SUFFICES ASSUME Replaces(x)
                     PROVE  active'[w.mgr] \in {<<>>, x.seen}
          OBVIOUS
        <4>1. w.nonce = 0 /\ w.op = "start"
          BY <1>4, <2>1 DEF Replaces, Begins
        <4> QED
          BY <1>2, <1>4, <2>1, <4>1
      <3>2. Prepares(x) => active'[w.mgr] = <<>>
        <4> SUFFICES ASSUME Prepares(x)
                     PROVE  active'[w.mgr] = <<>>
          OBVIOUS
        <4>1. w.nonce = 0 /\ w.op = "start" /\ x.todo \in {<<"orphan">>, <<"spawn">>}
          BY <1>4, <2>1 DEF Prepares, Begins, Stopping
        <4>2. w.todo # <<"unrecord", "clear", "orphan">>
          <5>1. /\ Head(<<"clear", "orphan">>) = "clear"
                /\ Head(<<"orphan">>) = "orphan" /\ Head(<<"spawn">>) = "spawn"
            BY Heads
          <5>2. x.todo # <<"clear", "orphan">>
            BY <4>1, <5>1
          <5> QED
            BY <1>4, <2>1, <5>2, StopLists
        <4> QED
          BY <1>2, <4>1, <4>2
      <3> QED
        BY <1>4, <2>1, <2>4, <3>1, <3>2 DEF MapDuty
    <2>6. JournalDuty(t)'
      <3>1. Undoes(x) => Own(w)' /\ Names(w.rec)'
        <4> SUFFICES ASSUME Undoes(x)
                     PROVE  Own(w)' /\ Names(w.rec)'
          OBVIOUS
        <4>1. w.nonce # 0
          BY <1>4, <2>1 DEF Undoes, Minted
        <4>2. Own(w) /\ Names(w.rec)
          BY <1>2, <4>1
        <4> QED
          BY <1>4, <2>1, <4>1, <4>2 DEF Own, Names
      <3> QED
        BY <1>4, <2>1, <2>4, <3>1 DEF JournalDuty, Stopping
    <2> QED
      BY <1>1, <1>4, <2>1, <2>3, <2>5, <2>6, Arrives
  <1> QED
    BY <1>5, <1>6

\* The child of the journal's runtime is still the same manager's, or nobody's.
LEMMA KeptAgrees ==
    ASSUME MapAgrees, journal' = journal, active' = active, parted' = parted,
           Runs(journal)' => Runs(journal),
           \A m \in Managers : Runs(journal)' =>
              (Kept(m, journal[1].pid, journal[1].nonce)'
                 <=> Kept(m, journal[1].pid, journal[1].nonce))
    PROVE  MapAgrees'
  <1> SUFFICES ASSUME NEW m \in Managers, active'[m] # <<>>, Runs(journal)'
               PROVE  IF Kept(m, journal[1].pid, journal[1].nonce)'
                      THEN Matches(journal, active[m])' ELSE parted'
    BY DEF MapAgrees
  <1>1. IF Kept(m, journal[1].pid, journal[1].nonce)
        THEN Matches(journal, active[m]) ELSE parted
    BY DEF MapAgrees
  <1> QED
    BY <1>1 DEF Matches, Named

\* The process is gone: a thread with the lock goes on to the record.
LEMMA StopEnds ==
    ASSUME IInv, NEW t \in Workers, th[t].pc \in Stopping, Proceed(t),
           active' = active, journal' = journal, lock' = lock, parted' = parted,
           retained' = retained, os'[th[t].pid[1]] = 0,
           \A q \in Pids : os'[q] = os[q] \/ os'[q] = 0
    PROVE  /\ th' \in [Workers -> Thread]
           /\ \A u \in Workers : u # t => th'[u] = th[u]
           /\ th'[t].held = 0 /\ th'[t].mgr = th[t].mgr
           /\ th'[t].op = "start" /\ th'[t].nonce = 0
                => th[t].op = "start" /\ th[t].nonce = 0
           /\ Duty(t)' /\ Hands(t)
           /\ Runs(journal)' => Runs(journal) /\ journal[1].pid # th[t].pid[1]
  <1> DEFINE w == th[t]
             p == th[t].pid[1]
  <1>1. /\ Types /\ w.mgr \in Managers /\ p \in Pids /\ w.pid = <<p>>
        /\ Runs(journal) => journal[1].pid = p \/ OfAnother(t)
        /\ w.todo # <<>>
        /\ w.nonce # 0 => Own(w)
    BY AtStop, StopLists
  <1>2. th'[t].mgr = w.mgr
    BY <1>1, Proceeds
  <1>3. Runs(journal)' => /\ Runs(journal) /\ journal[1].pid # p
                          /\ journal \in AtMostOneOf(Records) /\ journal # <<>>
    <2>1. journal \in AtMostOneOf(Records)
      BY <1>1 DEF Types, TypeOK
    <2> QED
      BY <2>1, RecordType DEF Runs, Named
  <1>4. Forsaken(t)'
    <2> SUFFICES ASSUME Runs(journal)'
                 PROVE  OfAnother(t)'
      BY DEF Forsaken
    <2> QED
      BY <1>1, <1>2, <1>3 DEF OfAnother, Mine
  <1>5. Hands(t)
    <2> SUFFICES ASSUME NEW q \in Pids, os'[q] \in Nonces, os'[q] = w.nonce
                 PROVE  FALSE
      BY DEF Hands
    <2>1. os[q] = w.nonce /\ w.nonce # 0
      BY NoStranger
    <2>2. q = p
      BY <1>1, <2>1 DEF Own
    <2> QED
      BY <2>2, NoStranger
  <1> QED
    BY <1>3, <1>4, <1>5, StopLeads

\* A stop that fails: a start goes on undoing itself, any other operation ends.
LEMMA StopHolds ==
    ASSUME IInv, NEW t \in Workers, th[t].pc \in Stopping, StopFails(t),
           active' = active, journal' = journal, lock' = lock,
           \A q \in Pids : os'[q] = os[q] \/ os'[q] = 0
    PROVE  /\ th' \in [Workers -> Thread]
           /\ \A u \in Workers : u # t => th'[u] = th[u]
           /\ th'[t].held = 0 /\ th'[t].mgr = th[t].mgr
           /\ th'[t].op = "start" /\ th'[t].nonce = 0
                => th[t].op = "start" /\ th[t].nonce = 0
           /\ Duty(t)' /\ Hands(t) /\ lost \subseteq lost' /\ lost' \subseteq Nonces
  <1> DEFINE w == th[t]
             p == th[t].pid[1]
  <1>1. /\ Types /\ w.mgr \in Managers /\ p \in Pids /\ w.pid = <<p>>
        /\ w.pc # "idle" /\ w.nonce \in OrNone
        /\ w.nonce # 0 => Own(w) /\ Names(w.rec) /\ Undoes(w)
    BY AtStop
  <1>2. /\ lost \subseteq lost' /\ lost' \subseteq Nonces
    <2>1. w.nonce # 0 => w.nonce \in Nonces
      BY <1>1, LocalRuntimeAssumption DEF OrNone, Nonces
    <2>2. lost \subseteq Nonces
      BY <1>1 DEF Types, TypeOK
    <2> QED
      BY <2>1, <2>2 DEF StopFails, LetGo, RollsBack
  <1>3. Hands(t)
    <2> SUFFICES ASSUME NEW q \in Pids, os'[q] \in Nonces, os'[q] = w.nonce
                 PROVE  os'[q] \in lost' \/ (Runs(journal)' /\ journal'[1].pid = q)
      BY DEF Hands
    <2>1. os[q] = w.nonce /\ w.nonce # 0
      BY NoStranger
    <2>2. q = p
      BY <1>1, <2>1 DEF Own
    <2>3. CASE Named(journal) /\ journal[1].nonce = w.nonce
      <3>1. journal = w.rec /\ w.rec[1].pid = p
        BY <1>1, <2>1, <2>3 DEF Names, Named, Undoes, Minted
      <3> QED
        BY <2>2, <2>3, <3>1 DEF Runs, Named
    <2>4. CASE ~(Named(journal) /\ journal[1].nonce = w.nonce)
      BY <2>1, <2>2, <2>4 DEF StopFails, LetGo, RollsBack
    <2> QED
      BY <2>3, <2>4
  <1>4. CASE w.nonce # 0
    <2>1. Proceed(t)
      BY <1>4 DEF StopFails, Failed, RollsBack
    <2> QED
      BY <1>2, <1>3, <1>4, <2>1, StopLeads
  <1>5. CASE w.nonce = 0
    <2>1. Return(t)
      BY <1>5 DEF StopFails, Failed, RollsBack
    <2>2. /\ th' \in [Workers -> Thread]
          /\ \A u \in Workers : u # t => th'[u] = th[u]
          /\ th'[t].pc = "done" /\ th'[t].held = 0 /\ th'[t].mgr = th[t].mgr
          /\ th'[t].op = "status" /\ th'[t].nonce = 0
      BY <1>1, <2>1, Returns
    <2> QED
      BY <1>1, <1>2, <1>3, <2>2, ReturnDuty
  <1> QED
    BY <1>4, <1>5

\* One that begins: the child leaves the map and is held.
LEMMA TakesChild ==
    ASSUME IInv, NEW t \in Workers, Stop(t), th[t].pc = "stop",
           retained[th[t].mgr][th[t].pid[1]] # 0
    PROVE  IInv'
  <1> DEFINE w == th[t]
             x == th'[t]
             m == th[t].mgr
             p == th[t].pid[1]
             n == retained[m][p]
             y == [w EXCEPT !.pc = "stopping", !.held = n]
  <1>1. /\ th' = [th EXCEPT ![t] = y]
        /\ retained' = [retained EXCEPT ![m][p] = 0]
        /\ UNCHANGED <<os, recovered, faults, lost, shell, active, mutex, journal,
                       lock, spawned>>
    BY DEF Stop, StopChild, LookAgain, Signal, At, Mine
  <1>2. /\ Types /\ Duty(t) /\ m \in Managers /\ lock = t /\ w.pc \in Locked
        /\ w.pc \in Stopping /\ w.held = 0 /\ p \in Pids /\ w.pid = <<p>> /\ w.pid # <<>>
        /\ Runs(journal) => journal[1].pid = p \/ OfAnother(t)
    BY AtStop, Awake DEF Stopping
  <1>3. /\ retained \in [Managers -> [Pids -> OrNone]] /\ 0 \in OrNone /\ n \in OrNone
        /\ journal \in AtMostOneOf(Records)
    BY <1>2, LocalRuntimeAssumption DEF Types, TypeOK, OrNone
  <1>4. /\ retained' \in [Managers -> [Pids -> OrNone]] /\ retained'[m][p] = 0
        /\ \A k \in Managers, q \in Pids :
              k # m \/ q # p => retained'[k][q] = retained[k][q]
        /\ \A k \in Managers : k # m => retained'[k] = retained[k]
    BY <1>1, <1>2, <1>3
  <1>5. /\ y \in Thread /\ y.pc = "stopping" /\ y.held = n /\ y.op = w.op /\ y.mgr = m
        /\ y.inst = w.inst /\ y.seen = w.seen /\ y.rec = w.rec /\ y.pid = w.pid
        /\ y.nonce = w.nonce /\ y.todo = w.todo
    <2>1. w \in Thread
      BY <1>2 DEF Types
    <2> QED
      BY <1>3, <2>1 DEF Thread, Steps
  <1>6. /\ th' \in [Workers -> Thread] /\ \A u \in Workers : u # t => th'[u] = th[u]
        /\ x = y
    <2> HIDE DEF y
    <2> QED
      BY <1>1, <1>2, <1>5 DEF Types
  <1>7. Types'
    BY <1>1, <1>2, <1>4, <1>6, TypesNext, Still DEF Types, TypeOK
  <1> HIDE DEF y
  <1>8. Runs(journal)' <=> Runs(journal)
    BY <1>1 DEF Runs, Named
  <1>9. /\ Placed(x) /\ MapDuty(t)' /\ JournalDuty(t)' /\ Hands(t)
        /\ HeldDuty(t)' => Duty(t)'
    <2>1. Runs(journal)' => journal[1].pid = p \/ OfAnother(t)'
      <3> SUFFICES ASSUME Runs(journal), journal[1].pid # p
                   PROVE  OfAnother(t)'
        BY <1>8
      <3>1. OfAnother(t) /\ journal[1].pid \in Pids
        BY <1>2, <1>3, RecordType DEF Runs, Named
      <3> QED
        BY <1>1, <1>2, <1>4, <1>5, <1>6, <1>8, <3>1, Still DEF OfAnother, Mine
    <2>2. x.pc \in Stopping /\ x.held # 0
      BY <1>5, <1>6 DEF Stopping
    <2> QED
      BY <1>1, <1>2, <1>5, <1>6, <2>1, <2>2, StopStays
  <1>10. HeldDuty(t)'
    BY <1>1, <1>2, <1>4, <1>5, <1>6 DEF HeldDuty, IInv, PidsKept
  <1>11. Leaves(t)
    BY <1>1, <1>4, <1>8 DEF Leaves
  <1>12. PidsKept'
    BY <1>1, <1>2, <1>4 DEF IInv, PidsKept
  <1>13. MapAgrees'
    <2>1. ASSUME NEW k \in Managers, Runs(journal)
          PROVE  Kept(k, journal[1].pid, journal[1].nonce)'
                   <=> Kept(k, journal[1].pid, journal[1].nonce)
      <3> DEFINE jp == journal[1].pid
                 jn == journal[1].nonce
      <3>1. jn # 0 /\ jp \in Pids /\ journal' = journal
        BY <1>1, <1>3, <2>1, RecordType DEF Runs, Named
      <3>2. \A u \in Workers : u # t =>
               (/\ th'[u].mgr = k /\ th'[u].held = jn /\ th'[u].pid = <<jp>>)
               <=> (/\ th[u].mgr = k /\ th[u].held = jn /\ th[u].pid = <<jp>>)
        BY <1>6
      <3>3. (/\ x.mgr = k /\ x.held = jn /\ x.pid = <<jp>>)
              <=> (m = k /\ n = jn /\ p = jp)
        BY <1>2, <1>5, <1>6
      <3>4. w.held # jn
        BY <1>2, <3>1
      <3>5. CASE m = k /\ p = jp
        BY <1>4, <3>1, <3>2, <3>3, <3>4, <3>5 DEF Kept
      <3>6. CASE m # k \/ p # jp
        BY <1>4, <3>1, <3>2, <3>3, <3>4, <3>6 DEF Kept
      <3> QED
        BY <3>5, <3>6
    <2> QED
      BY <1>1, <1>8, <2>1, KeptAgrees, Still DEF IInv
  <1>14. Accounted'
    BY <1>1, <1>6, <1>9, AccountedMoves DEF IInv
  <1>15. x.mgr = m /\ x.op = w.op /\ x.nonce = w.nonce
    BY <1>5, <1>6
  <1>16. /\ UNCHANGED shell /\ spawned' = spawned /\ active' = active /\ os' = os
    BY <1>1
  <1> QED
    BY <1>2, <1>6, <1>7, <1>9, <1>10, <1>11, <1>12, <1>13, <1>14, <1>15, <1>16,
       MovesAlone

\* The child has ended, and is waited for; or it comes back into the map.
LEMMA ChildEnds ==
    ASSUME IInv, NEW t \in Workers, Stop(t), th[t].pc = "stopping"
    PROVE  IInv'
  <1> DEFINE w == th[t]
             x == th'[t]
             m == th[t].mgr
             p == th[t].pid[1]
  <1>1. /\ UNCHANGED <<recovered, shell, active, mutex, journal, lock, spawned>>
        /\ \/ /\ os' = [os EXCEPT ![p] = IF @ = w.held THEN 0 ELSE @]
              /\ Proceed(t) /\ UNCHANGED <<retained, faults, lost>>
           \/ /\ os[p] = w.held /\ Fault
              /\ retained' = [retained EXCEPT ![m][p] = w.held]
              /\ StopFails(t) /\ os' = os
    BY DEF Stop, StopChild, LookAgain, Signal, At, Mine
  <1>2. /\ Types /\ Duty(t) /\ m \in Managers /\ lock = t /\ w.pc \in Locked
        /\ w.pc \in Stopping /\ p \in Pids /\ w.pid = <<p>> /\ w.pid # <<>>
    BY AtStop DEF Stopping
  <1>3. /\ retained \in [Managers -> [Pids -> OrNone]] /\ 0 \in OrNone
        /\ w.held \in OrNone
        /\ journal \in AtMostOneOf(Records) /\ os \in [Pids -> OrNone \cup {Stranger}]
    BY <1>2, ThreadType, LocalRuntimeAssumption DEF Types, TypeOK, OrNone
  <1>4. /\ w.held # 0 /\ os[p] \in {0, w.held}
        /\ \A k \in Managers : retained[k][p] = 0
    BY <1>2 DEF Duty, HeldDuty, JournalDuty
  <1>5. parted' = parted
    BY <1>1, Still
  <1>6. CASE os' = [os EXCEPT ![p] = IF @ = w.held THEN 0 ELSE @]
             /\ Proceed(t) /\ UNCHANGED <<retained, faults, lost>>
    <2>1. os'[p] = 0 /\ (\A q \in Pids : q # p => os'[q] = os[q])
          /\ os' \in [Pids -> OrNone \cup {Stranger}]
      BY <1>2, <1>3, <1>4, <1>6
    <2>2. /\ th' \in [Workers -> Thread]
          /\ \A u \in Workers : u # t => th'[u] = th[u]
          /\ x.held = 0 /\ x.mgr = m
          /\ x.op = "start" /\ x.nonce = 0 => w.op = "start" /\ w.nonce = 0
          /\ Duty(t)' /\ Hands(t)
          /\ Runs(journal)' => Runs(journal) /\ journal[1].pid # p
      BY <1>1, <1>2, <1>5, <1>6, <2>1, StopEnds
    <2>3. Types'
      BY <1>1, <1>2, <1>6, <2>1, <2>2, TypesNext, Still DEF Types, TypeOK
    <2>4. Leaves(t) /\ PidsKept'
      BY <1>1, <1>4, <1>6, <2>1, <2>2 DEF Leaves, IInv, PidsKept
    <2>5. MapAgrees'
      <3>1. ASSUME NEW k \in Managers, Runs(journal)'
            PROVE  Kept(k, journal[1].pid, journal[1].nonce)'
                     <=> Kept(k, journal[1].pid, journal[1].nonce)
        <4>1. journal[1].nonce # 0 /\ journal[1].pid # p
          BY <1>3, <2>2, <3>1, RecordType DEF Runs, Named
        <4> QED
          BY <1>1, <1>2, <1>6, <2>2, <4>1 DEF Kept
      <3> QED
        BY <1>1, <1>5, <2>2, <3>1, KeptAgrees DEF IInv
    <2>6. \A q \in Pids : os'[q] \in Nonces => os'[q] = os[q]
      BY <2>1, NoStranger
    <2>7. Accounted'
      BY <1>1, <1>6, <2>2, <2>6, AccountedMoves DEF IInv
    <2>8. UNCHANGED shell /\ spawned' = spawned /\ active' = active
      BY <1>1
    <2> QED
      BY <1>2, <2>2, <2>3, <2>4, <2>5, <2>6, <2>7, <2>8, MovesAlone
  <1>7. CASE /\ os[p] = w.held /\ Fault
             /\ retained' = [retained EXCEPT ![m][p] = w.held]
             /\ StopFails(t) /\ os' = os
    <2>1. /\ retained' \in [Managers -> [Pids -> OrNone]] /\ retained'[m][p] = w.held
          /\ \A k \in Managers, q \in Pids :
                k # m \/ q # p => retained'[k][q] = retained[k][q]
          /\ \A k \in Managers : k # m => retained'[k] = retained[k]
      BY <1>2, <1>3, <1>7
    <2>2. /\ th' \in [Workers -> Thread]
          /\ \A u \in Workers : u # t => th'[u] = th[u]
          /\ x.held = 0 /\ x.mgr = m
          /\ x.op = "start" /\ x.nonce = 0 => w.op = "start" /\ w.nonce = 0
          /\ Duty(t)' /\ Hands(t) /\ lost \subseteq lost' /\ lost' \subseteq Nonces
      BY <1>1, <1>2, <1>7, StopHolds
    <2>3. Types'
      BY <1>1, <1>2, <1>7, <2>1, <2>2, TypesNext, Still, Faulty DEF Types, TypeOK
    <2>4. Leaves(t)
      BY <1>1, <1>7, <2>1 DEF Leaves, Runs, Named
    <2>5. PidsKept'
      BY <1>4, <1>7, <2>1 DEF IInv, PidsKept
    <2>6. MapAgrees'
      <3>1. Runs(journal)' <=> Runs(journal)
        BY <1>1, <1>7 DEF Runs, Named
      <3>2. ASSUME NEW k \in Managers, Runs(journal)
            PROVE  Kept(k, journal[1].pid, journal[1].nonce)'
                     <=> Kept(k, journal[1].pid, journal[1].nonce)
        <4> DEFINE jp == journal[1].pid
                   jn == journal[1].nonce
        <4>1. jn # 0 /\ jp \in Pids /\ journal' = journal
          BY <1>1, <1>3, <3>2, RecordType DEF Runs, Named
        <4>2. \A u \in Workers : u # t =>
                 (/\ th'[u].mgr = k /\ th'[u].held = jn /\ th'[u].pid = <<jp>>)
                 <=> (/\ th[u].mgr = k /\ th[u].held = jn /\ th[u].pid = <<jp>>)
          BY <2>2
        <4>3. x.held # jn
          BY <2>2, <4>1
        <4>4. (/\ w.mgr = k /\ w.held = jn /\ w.pid = <<jp>>)
                <=> (m = k /\ w.held = jn /\ p = jp)
          BY <1>2
        <4>5. CASE m = k /\ p = jp
          BY <1>4, <2>1, <4>1, <4>2, <4>3, <4>4, <4>5 DEF Kept
        <4>6. CASE m # k \/ p # jp
          BY <2>1, <4>1, <4>2, <4>3, <4>4, <4>6 DEF Kept
        <4> QED
          BY <4>5, <4>6
      <3> QED
        BY <1>1, <1>5, <3>1, <3>2, KeptAgrees DEF IInv
    <2>7. Accounted'
      BY <1>1, <1>7, <2>2, AccountedMoves DEF IInv
    <2>8. UNCHANGED shell /\ spawned' = spawned /\ active' = active /\ os' = os
      BY <1>1, <1>7
    <2> QED
      BY <1>2, <2>2, <2>3, <2>4, <2>5, <2>6, <2>7, <2>8, MovesAlone
  <1> QED
    BY <1>1, <1>6, <1>7

\* A stop of a process that is no child of this manager.
LEMMA StopsOther ==
    ASSUME IInv, NEW t \in Workers, th[t].pc \in Stopping, th[t].held = 0,
           UNCHANGED <<shell, active, mutex, journal, lock, retained, spawned>>,
           recovered' \in [Managers -> [Pids -> OrNone]],
           Fault \/ faults' = faults,
           os' \in {os, [os EXCEPT ![th[t].pid[1]] = 0]},
           \/ /\ \E s \in {"signal", "outlast"}, n \in OrNone \cup {Stranger} :
                    th' = [th EXCEPT ![t] = [th[t] EXCEPT !.pc = s, !.was = n]]
              /\ lost' = lost
           \/ /\ os' = [os EXCEPT ![th[t].pid[1]] = 0] /\ Proceed(t) /\ lost' = lost
           \/ StopFails(t)
    PROVE  IInv'
  <1> DEFINE w == th[t]
             x == th'[t]
             m == th[t].mgr
             p == th[t].pid[1]
  <1>1. /\ Types /\ Duty(t) /\ m \in Managers /\ lock = t /\ w.pc \in Locked
        /\ w.pc # "idle" /\ p \in Pids /\ w.pid = <<p>> /\ w.pid # <<>>
        /\ Runs(journal) => journal[1].pid = p \/ OfAnother(t)
    BY AtStop
  <1>2. /\ os' \in [Pids -> OrNone \cup {Stranger}]
        /\ \A q \in Pids : os'[q] = os[q] \/ os'[q] = 0
    BY <1>1, LocalRuntimeAssumption DEF Types, TypeOK, OrNone
  <1>3. parted' = parted /\ active' = active /\ journal' = journal /\ lock' = lock
        /\ retained' = retained /\ spawned' = spawned
    BY Still
  <1>4. /\ th' \in [Workers -> Thread]
        /\ \A u \in Workers : u # t => th'[u] = th[u]
        /\ x.held = 0 /\ x.mgr = m
        /\ x.op = "start" /\ x.nonce = 0 => w.op = "start" /\ w.nonce = 0
        /\ Duty(t)' /\ Hands(t) /\ lost \subseteq lost' /\ lost' \subseteq Nonces
    <2>1. CASE /\ \E s \in {"signal", "outlast"}, n \in OrNone \cup {Stranger} :
                     th' = [th EXCEPT ![t] = [w EXCEPT !.pc = s, !.was = n]]
               /\ lost' = lost
      <3>1. PICK s \in {"signal", "outlast"}, n \in OrNone \cup {Stranger} :
               th' = [th EXCEPT ![t] = [w EXCEPT !.pc = s, !.was = n]]
        BY <2>1
      <3> DEFINE y == [w EXCEPT !.pc = s, !.was = n]
      <3>2. /\ y \in Thread /\ y.pc = s /\ y.held = 0 /\ y.op = w.op /\ y.mgr = m
            /\ y.inst = w.inst /\ y.seen = w.seen /\ y.rec = w.rec /\ y.pid = w.pid
            /\ y.nonce = w.nonce /\ y.todo = w.todo
        <4>1. w \in Thread
          BY <1>1 DEF Types
        <4> QED
          BY <4>1 DEF Thread, Steps
      <3>3. th' = [th EXCEPT ![t] = y]
        BY <3>1
      <3> HIDE DEF y
      <3>4. /\ th' \in [Workers -> Thread] /\ x = y
            /\ \A u \in Workers : u # t => th'[u] = th[u]
        BY <1>1, <3>2, <3>3 DEF Types
      <3>5. x.pc \in Stopping /\ x.pc # "stopping"
        BY <3>1, <3>2, <3>4 DEF Stopping
      <3>6. Runs(journal)' => journal[1].pid = p \/ OfAnother(t)'
        <4> SUFFICES ASSUME Runs(journal)', journal[1].pid # p
                     PROVE  OfAnother(t)'
          OBVIOUS
        <4>1. journal \in AtMostOneOf(Records) /\ journal # <<>>
          BY <1>1, <1>3 DEF Types, TypeOK, Runs, Named
        <4>2. Runs(journal) /\ OfAnother(t)
          BY <1>1, <1>2, <1>3, <4>1, RecordType DEF Runs, Named
        <4> QED
          BY <1>3, <3>2, <3>4, <4>2 DEF OfAnother, Mine
      <3>7. HeldDuty(t)'
        BY <3>2, <3>4 DEF HeldDuty
      <3>8. Hands(t) /\ Duty(t)'
        BY <1>2, <1>3, <3>2, <3>4, <3>5, <3>6, <3>7, StopStays
      <3> QED
        BY <1>1, <2>1, <3>2, <3>4, <3>8 DEF Types, TypeOK
    <2>2. CASE os' = [os EXCEPT ![p] = 0] /\ Proceed(t) /\ lost' = lost
      <3>1. os'[p] = 0
        BY <1>1, <2>2 DEF Types, TypeOK
      <3> QED
        BY <1>1, <1>2, <1>3, <2>2, <3>1, StopEnds DEF Types, TypeOK
    <2>3. CASE StopFails(t)
      BY <1>2, <1>3, <2>3, StopHolds
    <2> QED
      BY <2>1, <2>2, <2>3
  <1>5. Types'
    BY <1>1, <1>2, <1>4, TypesNext, Still, Faulty DEF Types, TypeOK
  <1>6. Ebbs
    BY <1>2, <1>3, <1>4 DEF Ebbs
  <1> QED
    BY <1>1, <1>3, <1>4, <1>5, <1>6, Moves

LEMMA StopSteps ==
    ASSUME IInv, NEW t \in Workers, Stop(t)
    PROVE  IInv'
  <1> DEFINE w == th[t]
             m == th[t].mgr
             p == th[t].pid[1]
  <1>1. w.pc \in Stopping
    BY DEF Stop, StopChild, LookAgain, Signal, At, Stopping
  <1>2. Types /\ m \in Managers /\ p \in Pids /\ w.pc # "idle"
    BY <1>1, AtStop
  <1>3. CASE w.pc = "stop" /\ retained[m][p] # 0
    BY <1>3, TakesChild
  <1>4. CASE w.pc = "stopping"
    BY <1>4, ChildEnds
  <1>5. CASE w.pc = "stop" /\ retained[m][p] = 0
    <2>1. LookAgain(t) /\ UNCHANGED <<os, retained>>
          /\ UNCHANGED <<shell, active, mutex, journal, lock, spawned>>
      BY <1>5 DEF Stop, StopChild, Signal, At, Mine
    <2>2. /\ recovered' = [recovered EXCEPT ![m][p] = 0]
          /\ \/ /\ th' = [th EXCEPT ![t].pc = "signal", ![t].was = os[p]]
                /\ UNCHANGED <<faults, lost>>
             \/ Fault /\ StopFails(t)
             \/ StopFails(t) /\ UNCHANGED faults
      BY <2>1 DEF LookAgain, Mine
    <2>3. recovered' \in [Managers -> [Pids -> OrNone]]
      <3>1. recovered \in [Managers -> [Pids -> OrNone]] /\ 0 \in OrNone
        BY <1>2, LocalRuntimeAssumption DEF Types, TypeOK, OrNone
      <3> QED
        BY <1>2, <2>2, <3>1
    <2>4. os[p] \in OrNone \cup {Stranger} /\ th \in [Workers -> Thread]
      BY <1>2 DEF Types, TypeOK
    <2>5. ASSUME th' = [th EXCEPT ![t].pc = "signal", ![t].was = os[p]]
          PROVE  \E s \in {"signal", "outlast"}, n \in OrNone \cup {Stranger} :
                    th' = [th EXCEPT ![t] = [th[t] EXCEPT !.pc = s, !.was = n]]
      <3>1. th' = [th EXCEPT ![t] = [th[t] EXCEPT !.pc = "signal", !.was = os[p]]]
        BY <2>4, <2>5
      <3> QED
        BY <2>4, <3>1
    <2>6. w.held = 0
      BY <1>2, <1>5, Awake
    <2> QED
      BY <1>1, <2>1, <2>2, <2>3, <2>5, <2>6, StopsOther
  <1>6. CASE w.pc \in {"signal", "outlast"}
    <2>1. Signal(t) /\ UNCHANGED <<retained, recovered>>
          /\ UNCHANGED <<shell, active, mutex, journal, lock, spawned>>
      BY <1>6 DEF Stop, StopChild, LookAgain, At, Mine
    <2>2. w.held = 0 /\ w.was \in OrNone \cup {Stranger} /\ th \in [Workers -> Thread]
          /\ recovered \in [Managers -> [Pids -> OrNone]]
      <3>1. w.held = 0
        BY <1>2, <1>6, Awake
      <3> QED
        BY <1>2, <3>1 DEF Types, TypeOK
    <2>3. CASE /\ w.pc = "signal" /\ os' \in {os, [os EXCEPT ![p] = 0]}
               /\ th' = [th EXCEPT ![t].pc = "outlast"] /\ UNCHANGED <<faults, lost>>
      <3>1. th' = [th EXCEPT ![t] = [th[t] EXCEPT !.pc = "outlast", !.was = w.was]]
        <4>1. [th[t] EXCEPT !.pc = "outlast", !.was = w.was] = [th[t] EXCEPT !.pc = "outlast"]
          BY <2>2 DEF Thread
        <4> QED
          BY <2>2, <2>3, <4>1
      <3> QED
        BY <1>1, <2>1, <2>2, <2>3, <3>1, StopsOther
    <2>4. CASE /\ os' = [os EXCEPT ![p] = 0] /\ Proceed(t) /\ UNCHANGED <<faults, lost>>
      BY <1>1, <2>1, <2>2, <2>4, StopsOther
    <2>5. CASE /\ os' \in {os, [os EXCEPT ![p] = 0]} /\ Fault /\ StopFails(t)
      BY <1>1, <2>1, <2>2, <2>5, StopsOther
    <2> QED
      BY <2>1, <2>3, <2>4, <2>5 DEF Signal, At
  <1> QED
    BY <1>1, <1>3, <1>4, <1>5, <1>6 DEF Stopping

-----------------------------------------------------------------------------
(***************************************************************************)
(* Requests, the server, and what is beyond the manager.                   *)
(***************************************************************************)
LEMMA NobodyIsIdle ==
    ASSUME NEW t \in Workers, Placed(th[t]), th[t].pc = "idle" \/ th[t].mgr \notin Managers
    PROVE  th[t] = IdleThread
  BY DEF Placed, Asks, Enters, Looks, Judges, Replaces, Forgets, Prepares, Creates,
         Undoes, Ends, Sweeps, Stopping

LEMMA TurnsType ==
    ASSUME IInv
    PROVE  /\ Types /\ Turns /\ Main \in Workers /\ Main \notin Threads
           /\ \A t \in Threads : t \in Workers /\ t # Main
           /\ \A t \in Workers : Placed(th[t])
           /\ NoManager \notin Managers /\ IdleThread.mgr = NoManager
           /\ manager \in Managers \cup {NoManager}
           /\ th \in [Workers -> Thread]
  BY LocalRuntimeAssumption, Idle DEF IInv, Workers, Types, TypeOK, Duty

\* Nobody moves, and the scope ebbs.
LEMMA Rests ==
    ASSUME IInv, Ebbs, th' = th, journal' = journal, lock' = lock,
           Types', Turns'
    PROVE  IInv'
  <1>1. \A p \in Pids : os'[p] \in Nonces => os'[p] = os[p]
    BY NoStranger DEF Ebbs
  <1>2. \A u \in Workers : Duty(u)'
    <2> SUFFICES ASSUME NEW u \in Workers
                 PROVE  Duty(u)'
      OBVIOUS
    <2>1. Types /\ Duty(u) /\ th'[u] = th[u]
      BY DEF IInv
    <2> QED
      BY <2>1, Undisturbed
  <1>3. PidsKept' /\ NoncesOnce' /\ MapAgrees'
    BY <1>1, PidsEbb, NoncesEbb, MapEbbs DEF IInv, Ebbs
  <1>4. Budget'
    BY DEF IInv, Budget, Pending, Ebbs
  <1>5. Accounted'
    <2>1. Main \in Workers /\ Hands(Main)
      BY DEF Workers, Hands
    <2> QED
      BY <1>1, <2>1, AccountedMoves DEF IInv, Ebbs
  <1> QED
    BY <1>2, <1>3, <1>4, <1>5 DEF IInv

\* A thread that was idle takes up an operation.
LEMMA Joins ==
    ASSUME IInv, NEW t \in Workers, th[t] = IdleThread,
           UNCHANGED <<active, journal, lock, driver, lost, parted>>,
           \A u \in Workers : u # t => th'[u] = th[u], th'[t].held = 0,
           Types', Duty(t)', Budget', Turns'
    PROVE  IInv'
  <1>1. /\ Types /\ Ebbs /\ os' = os /\ th[t].held = 0 /\ th[t].pc = "idle"
        /\ spawned' = spawned
    BY Idle, StillDriver DEF IInv, Ebbs
  <1>2. \A u \in Workers : Duty(u)'
    <2> SUFFICES ASSUME NEW u \in Workers, u # t
                 PROVE  Duty(u)'
      OBVIOUS
    <2>1. Duty(u) /\ th'[u] = th[u]
      BY DEF IInv
    <2> QED
      BY <1>1, <2>1, Undisturbed
  <1>3. PidsKept' /\ NoncesOnce' /\ MapAgrees'
    BY <1>1, PidsEbb, NoncesEbb, MapEbbs DEF IInv
  <1>4. Accounted'
    <2>1. Hands(t)
      BY <1>1 DEF Hands, Hand, Stopping
    <2> QED
      BY <1>1, <2>1, AccountedMoves DEF IInv
  <1> QED
    BY <1>2, <1>3, <1>4 DEF IInv

\* A request keeps the turns: it is one of the serving manager's.
LEMMA RequestTurns ==
    ASSUME IInv, NEW t \in Threads, th[t] = IdleThread, server = "serving",
           UNCHANGED <<shell, active>>, th'[t].mgr = manager,
           \A u \in Workers : u # t => th'[u] = th[u]
    PROVE  Turns'
  <1>1. server' = server /\ manager' = manager /\ parted' = parted
    BY Still
  <1>2. th[Main] = IdleThread /\ th'[Main] = IdleThread
    BY TurnsType DEF Turns
  <1>3. ~parted' => \A u \in Threads : th'[u] = IdleThread \/ Mine(u)' = manager'
    BY <1>1, TurnsType DEF Turns, Mine
  <1>4. ASSUME NEW m \in Managers, m # manager, \A u \in Workers : Mine(u)' # m
        PROVE  active'[m] = <<>>
    <2>1. \A u \in Workers : Mine(u) # m
      BY <1>4, TurnsType DEF Mine
    <2> QED
      BY <1>4, <2>1, TurnsType DEF Turns
  <1> QED
    BY <1>1, <1>2, <1>3, <1>4, TurnsType DEF Turns

LEMMA StartSteps ==
    ASSUME IInv, NEW t \in Threads, NEW i \in Instances, Start(t, i)
    PROVE  IInv'
  <1> DEFINE x == th'[t]
             y == [th[t] EXCEPT !.pc = "lock", !.op = "start", !.mgr = manager,
                                !.inst = <<i>>, !.todo = <<"look">>]
  <1>1. /\ server = "serving" /\ th[t].pc = "idle" /\ t \in Workers
        /\ spawned + Cardinality(Pending) < MaxSpawns
        /\ th' = [th EXCEPT ![t] = y]
        /\ UNCHANGED <<shell, active, mutex, journal, lock, driver, faults, lost>>
    BY TurnsType DEF Start, At, Pending
  <1>2. th[t] = IdleThread /\ manager \in Managers
    BY <1>1, NobodyIsIdle, TurnsType DEF Turns
  <1>3. /\ y \in Thread /\ y.pc = "lock" /\ y.op = "start" /\ y.inst = <<i>>
        /\ y.todo = <<"look">> /\ y.nonce = 0 /\ y.held = 0 /\ y.mgr = manager
    <2>1. <<"look">> \in Seq(Steps) /\ <<i>> \in AtMostOneOf(Instances)
      BY DEF Steps, AtMostOneOf
    <2>2. th[t] \in Thread /\ th[t].nonce = 0 /\ th[t].held = 0
      BY <1>2, Idle
    <2> QED
      BY <1>2, <2>1, <2>2 DEF Thread, Steps, Ops
  <1> HIDE DEF y
  <1>4. /\ th' \in [Workers -> Thread] /\ x = y
        /\ \A u \in Workers : u # t => th'[u] = th[u]
    BY <1>1, <1>3, TurnsType
  <1>5. Types'
    BY <1>1, <1>4, TypesNext, TurnsType, Still, StillDriver DEF Types, TypeOK
  <1>6. Begins(x) /\ Enters(x)
    BY <1>3, <1>4 DEF Enters, Begins
  <1>7. Duty(t)'
    <2>1. Placed(x)
      BY <1>2, <1>3, <1>4, <1>6 DEF Placed
    <2>2. /\ ~Judges(x) /\ ~Replaces(x) /\ ~Forgets(x) /\ ~Prepares(x)
          /\ ~Creates(x) /\ ~Undoes(x)
      BY <1>3, <1>4 DEF Judges, Replaces, Forgets, Prepares, Creates, Undoes, Minted,
                        Stopping
    <2> QED
      BY <1>3, <1>4, <2>1, <2>2, TurnsType
         DEF Duty, HeldDuty, MapDuty, JournalDuty, Locked, Stopping
  <1>8. Budget'
    <2>1. Pending' = Pending \cup {t} /\ t \notin Pending
      <3>1. th[t].op # "start" /\ x.op = "start" /\ x.nonce = 0
        BY <1>2, <1>3, <1>4, Idle
      <3> QED
        BY <1>4, <3>1, TurnsType DEF Pending
    <2>2. Cardinality(Pending') = Cardinality(Pending) + 1
      BY <2>1, PendingFinite, FS_AddElement
    <2>3. spawned' = spawned /\ spawned \in Nat /\ Cardinality(Pending) \in Nat
      BY <1>1, TurnsType, PendingFinite, LocalRuntimeAssumption, StillDriver
         DEF Types, TypeOK, OrNone
    <2> QED
      BY <1>1, <2>2, <2>3, LocalRuntimeAssumption DEF Budget
  <1>9. Turns'
    BY <1>1, <1>2, <1>3, <1>4, RequestTurns
  <1>10. parted' = parted /\ x.held = 0
    BY <1>1, <1>3, <1>4, Still
  <1> QED
    BY <1>1, <1>2, <1>4, <1>5, <1>7, <1>8, <1>9, <1>10, Joins

LEMMA RequestSteps ==
    ASSUME IInv, NEW t \in Threads,
           RequestStatus(t) \/ \E i \in Instances : RequestStop(t, i)
    PROVE  IInv'
  <1> DEFINE x == th'[t]
  <1>1. /\ server = "serving" /\ th[t].pc = "idle" /\ t \in Workers
        /\ UNCHANGED <<shell, active, mutex, journal, lock, driver, faults, lost>>
    BY TurnsType DEF RequestStatus, RequestStop, At
  <1>2. th[t] = IdleThread /\ manager \in Managers
    BY <1>1, NobodyIsIdle, TurnsType DEF Turns
  <1>3. /\ th[t] \in Thread /\ th[t].nonce = 0 /\ th[t].held = 0
        /\ th[t].todo \in Seq(Steps) /\ th[t].inst \in AtMostOneOf(Instances)
    BY <1>1, <1>2, Idle, TurnsType, ThreadType
  <1>4. /\ th' \in [Workers -> Thread]
        /\ \A u \in Workers : u # t => th'[u] = th[u]
        /\ \/ x.pc = "peek" /\ x.op = "status"
           \/ x.pc = "lock" /\ x.op = "stop" /\ x.todo = <<"check">>
        /\ x.held = 0 /\ x.nonce = 0 /\ x.mgr = manager
    <2>1. CASE RequestStatus(t)
      <3> DEFINE y == [th[t] EXCEPT !.pc = "peek", !.op = "status", !.mgr = manager]
      <3>1. th' = [th EXCEPT ![t] = y]
        BY <2>1 DEF RequestStatus
      <3>2. /\ y \in Thread /\ y.pc = "peek" /\ y.op = "status" /\ y.held = 0
            /\ y.nonce = 0 /\ y.mgr = manager
        BY <1>2, <1>3 DEF Thread, Steps, Ops
      <3> HIDE DEF y
      <3> QED
        BY <1>1, <3>1, <3>2, TurnsType
    <2>2. ASSUME NEW i \in Instances, RequestStop(t, i)
          PROVE  /\ th' \in [Workers -> Thread]
                 /\ \A u \in Workers : u # t => th'[u] = th[u]
                 /\ x.pc = "lock" /\ x.op = "stop" /\ x.todo = <<"check">>
                 /\ x.held = 0 /\ x.nonce = 0 /\ x.mgr = manager
      <3> DEFINE y == [th[t] EXCEPT !.pc = "lock", !.op = "stop", !.mgr = manager,
                                    !.inst = <<i>>, !.todo = <<"check">>]
      <3>1. th' = [th EXCEPT ![t] = y]
        BY <2>2 DEF RequestStop
      <3>2. <<"check">> \in Seq(Steps) /\ <<i>> \in AtMostOneOf(Instances)
        BY DEF Steps, AtMostOneOf
      <3>3. /\ y \in Thread /\ y.pc = "lock" /\ y.op = "stop" /\ y.held = 0
            /\ y.nonce = 0 /\ y.mgr = manager /\ y.todo = <<"check">>
        BY <1>2, <1>3, <3>2 DEF Thread, Steps, Ops
      <3> HIDE DEF y
      <3> QED
        BY <1>1, <3>1, <3>3, TurnsType
    <2> QED
      BY <2>1, <2>2
  <1>5. Types'
    BY <1>1, <1>4, TypesNext, TurnsType, Still, StillDriver DEF Types, TypeOK
  <1>6. Duty(t)'
    <2>1. Enters(x) \/ Asks(x)
      BY <1>4 DEF Enters, Asks
    <2>2. Placed(x)
      BY <1>2, <1>4, <2>1 DEF Placed
    <2>3. /\ ~Judges(x) /\ ~Replaces(x) /\ ~Forgets(x) /\ ~Prepares(x)
          /\ ~Creates(x) /\ ~Undoes(x)
      BY <1>4 DEF Judges, Replaces, Forgets, Prepares, Creates, Undoes, Minted,
                  Begins, Stopping
    <2> QED
      BY <1>4, <2>2, <2>3, TurnsType
         DEF Duty, HeldDuty, MapDuty, JournalDuty, Locked, Stopping
  <1>7. Budget'
    <2>1. \A u \in Threads : th'[u].op = "start" /\ th'[u].nonce = 0
                               => th[u].op = "start" /\ th[u].nonce = 0
      BY <1>4, TurnsType
    <2> QED
      BY <1>1, <2>1, BudgetEbbs, TurnsType, StillDriver DEF IInv
  <1>8. Turns'
    BY <1>1, <1>2, <1>4, RequestTurns
  <1>9. parted' = parted
    BY <1>1, Still
  <1> QED
    BY <1>1, <1>2, <1>4, <1>5, <1>6, <1>7, <1>8, <1>9, Joins

\* Main takes up the reconciliation for a manager.
LEMMA Reconciles ==
    ASSUME IInv, th[Main] = IdleThread, NEW m \in Managers, th' = StartReconcile(m),
           UNCHANGED <<active, mutex, journal, lock, driver, faults, lost, parted>>,
           server' \in {"booting", "closing"}, manager' = m,
           \A t \in Threads : th[t].mgr # m,
           ~parted => \A t \in Threads : th[t] = IdleThread,
           \A n \in Managers : n # m /\ (\A u \in Workers : th[u].mgr # n) => active[n] = <<>>
    PROVE  IInv'
  <1> DEFINE x == th'[Main]
             y == [th[Main] EXCEPT !.pc = "list", !.op = "reconcile", !.mgr = m]
  <1>1. th' = [th EXCEPT ![Main] = y]
    BY DEF StartReconcile
  <1>2. /\ y \in Thread /\ y.pc = "list" /\ y.op = "reconcile" /\ y.held = 0
        /\ y.nonce = 0 /\ y.mgr = m
    <2>1. th[Main] \in Thread /\ th[Main].nonce = 0 /\ th[Main].held = 0
      BY Idle
    <2> QED
      BY <2>1 DEF Thread, Steps, Ops
  <1> HIDE DEF y
  <1>3. /\ th' \in [Workers -> Thread] /\ x = y
        /\ \A u \in Workers : u # Main => th'[u] = th[u]
    BY <1>1, <1>2, TurnsType
  <1>4. Types'
    BY <1>3, TypesNext, TurnsType, StillDriver DEF Types, TypeOK
  <1>5. Duty(Main)'
    <2>1. Placed(x)
      BY <1>2, <1>3 DEF Placed, Sweeps
    <2>2. /\ ~Judges(x) /\ ~Replaces(x) /\ ~Forgets(x) /\ ~Prepares(x)
          /\ ~Creates(x) /\ ~Undoes(x)
      BY <1>2, <1>3 DEF Judges, Replaces, Forgets, Prepares, Creates, Undoes, Minted,
                  Begins, Stopping
    <2> QED
      BY <1>2, <1>3, <2>1, <2>2
         DEF Duty, HeldDuty, MapDuty, JournalDuty, Locked, Stopping
  <1>6. Budget'
    <2>1. \A u \in Threads : th'[u] = th[u]
      BY <1>3, TurnsType
    <2> QED
      BY <2>1, BudgetEbbs, TurnsType, StillDriver DEF IInv
  <1>7. Turns'
    <2>1. \A u \in Threads : th'[u] = th[u]
      BY <1>3, TurnsType
    <2>2. x.mgr = m /\ th[Main].mgr \notin Managers
      BY <1>2, <1>3, Idle
    <2>3. ASSUME NEW n \in Managers, n # m, \A u \in Workers : Mine(u)' # n
          PROVE  active'[n] = <<>>
      <3>1. \A u \in Workers : th[u].mgr # n
        BY <1>3, <2>2, <2>3 DEF Mine
      <3> QED
        BY <2>3, <3>1
    <2> QED
      BY <2>1, <2>2, <2>3 DEF Turns, Mine
  <1>8. x.held = 0 /\ Main \in Workers
    BY <1>2, <1>3, TurnsType
  <1> QED
    BY <1>3, <1>4, <1>5, <1>6, <1>7, <1>8, Joins

LEMMA ServerSteps ==
    ASSUME IInv, Boot \/ Drained
    PROVE  IInv'
  <1>1. CASE Boot
    <2>1. PICK m \in Managers :
             /\ \A t \in Workers : Mine(t) # m
             /\ manager' = m /\ th' = StartReconcile(m)
      BY <1>1 DEF Boot
    <2>2. /\ server = "down" /\ server' = "booting"
          /\ UNCHANGED <<active, mutex, journal, lock, driver, faults, lost, parted>>
      BY <1>1 DEF Boot
    <2>3. manager = NoManager /\ th[Main] = IdleThread
      BY <2>2, TurnsType DEF Turns
    <2>4. ~parted => \A t \in Threads : th[t] = IdleThread
      BY <2>3, NobodyIsIdle, TurnsType DEF Turns, Mine
    <2>5. \A n \in Managers : (\A u \in Workers : th[u].mgr # n) => active[n] = <<>>
      BY <2>3, TurnsType DEF Turns, Mine
    <2>6. \A t \in Threads : th[t].mgr # m
      BY <2>1, TurnsType DEF Mine
    <2> QED
      BY <2>1, <2>2, <2>3, <2>4, <2>5, <2>6, Reconciles
  <1>2. CASE Drained
    <2>1. /\ server = "draining" /\ server' = "closing"
          /\ \A t \in Threads : th[t].mgr # manager
          /\ th' = StartReconcile(manager) /\ manager' = manager
          /\ UNCHANGED <<active, mutex, journal, lock, driver, faults, lost, parted>>
      BY <1>2 DEF Drained, UnderWay, Mine
    <2>2. manager \in Managers /\ th[Main] = IdleThread
      BY <2>1, TurnsType DEF Turns
    <2>3. ~parted => \A t \in Threads : th[t] = IdleThread
      BY <2>1, TurnsType DEF Turns, Mine
    <2>4. \A n \in Managers : n # manager /\ (\A u \in Workers : th[u].mgr # n)
                                => active[n] = <<>>
      BY TurnsType DEF Turns, Mine
    <2> QED
      BY <2>1, <2>2, <2>3, <2>4, Reconciles
  <1> QED
    BY <1>1, <1>2

LEMMA CloseSteps ==
    ASSUME IInv, Close \/ DrainTimesOut
    PROVE  IInv'
  <1>1. /\ server \in {"serving", "draining"} /\ server' \in {"draining", "down"}
        /\ UNCHANGED <<active, mutex, journal, lock, driver, th, lost>>
        /\ \/ server' = "draining" /\ manager' = manager /\ parted' = parted
           \/ /\ server' = "down" /\ manager' = NoManager /\ parted' = TRUE
              /\ \E t \in Threads : Mine(t) = manager
        /\ Fault \/ faults' = faults
    BY DEF Close, DrainTimesOut, UnderWay
  <1>2. Types'
    BY <1>1, TypesNext, TurnsType, StillDriver, Faulty DEF Types, TypeOK
  <1>3. Ebbs
    BY <1>1, StillDriver, TurnsType DEF Ebbs, Types, TypeOK
  <1>4. Turns'
    <2>1. th[Main] = IdleThread
      BY <1>1, TurnsType DEF Turns
    <2>2. CASE server' = "draining" /\ manager' = manager /\ parted' = parted
      BY <1>1, <2>1, <2>2, TurnsType DEF Turns, Mine
    <2>3. CASE /\ server' = "down" /\ manager' = NoManager /\ parted' = TRUE
               /\ \E t \in Threads : Mine(t) = manager
      <3>1. ASSUME NEW m \in Managers, \A u \in Workers : Mine(u) # m
            PROVE  active[m] = <<>>
        BY <2>3, <3>1, TurnsType DEF Turns
      <3> QED
        BY <1>1, <2>1, <2>3, <3>1, TurnsType DEF Turns, Mine
    <2> QED
      BY <1>1, <2>2, <2>3
  <1> QED
    BY <1>1, <1>2, <1>3, <1>4, Rests

LEMMA ReconcileSteps ==
    ASSUME IInv, Reconcile
    PROVE  IInv'
  <1> DEFINE w == th[Main]
             x == th'[Main]
  <1>1. CASE /\ At(Main, "list")
             /\ th' = [th EXCEPT ![Main].rec = journal,
                                 ![Main].pc = IF Named(journal) THEN "lock" ELSE "done",
                                 ![Main].todo = <<"recover">>]
             /\ UNCHANGED <<shell, active, mutex, journal, lock, driver, faults, lost>>
    <2> DEFINE pc == IF Named(journal) THEN "lock" ELSE "done"
               y == [w EXCEPT !.rec = journal, !.pc = pc, !.todo = <<"recover">>]
    <2>1. /\ w.pc = "list" /\ th' = [th EXCEPT ![Main] = y]
      BY <1>1 DEF At
    <2>2. /\ Types /\ Duty(Main) /\ w.held = 0 /\ w.mgr \in Managers /\ w # IdleThread
          /\ w.op = "reconcile" /\ w.nonce = 0
      <3>1. Types /\ Duty(Main) /\ w.held = 0 /\ w.mgr \in Managers
        BY <2>1, Awake, TurnsType
      <3>2. Sweeps(w)
        BY <2>1, <3>1, Places DEF Duty
      <3> QED
        BY <2>1, <3>1, <3>2, Idle DEF Sweeps
    <2>3. /\ y \in Thread /\ y.rec = journal /\ y.pc = pc /\ y.todo = <<"recover">>
          /\ y.held = 0 /\ y.mgr = w.mgr /\ y.op = w.op /\ y.nonce = 0
      <3>1. /\ journal \in AtMostOneOf(Records) /\ w \in Thread
            /\ <<"recover">> \in Seq(Steps) /\ pc \in Steps
        BY <2>2, TurnsType DEF Types, TypeOK, Steps
      <3> QED
        BY <2>2, <3>1 DEF Thread
    <2>4. /\ th' \in [Workers -> Thread] /\ x = y
          /\ \A u \in Workers : u # Main => th'[u] = th[u]
      <3> HIDE DEF y
      <3> QED
        BY <2>1, <2>3, TurnsType
    <2>5. /\ x.rec = journal /\ x.pc = pc /\ x.todo = <<"recover">>
          /\ x.held = 0 /\ x.mgr = w.mgr /\ x.op = "reconcile" /\ x.nonce = 0
      BY <2>2, <2>3, <2>4
    <2> HIDE DEF y
    <2>6. Types'
      BY <1>1, <2>4, TypesNext, TurnsType, Still, StillDriver DEF Types, TypeOK
    <2>7. Duty(Main)'
      <3>1. Placed(x)
        BY <2>2, <2>5 DEF Placed, Sweeps, Named
      <3>2. /\ ~Judges(x) /\ ~Replaces(x) /\ ~Forgets(x) /\ ~Prepares(x)
            /\ ~Creates(x) /\ ~Undoes(x)
        BY <2>5 DEF Judges, Replaces, Forgets, Prepares, Creates, Undoes, Minted,
                    Begins, Stopping
      <3>3. x.pc \in {"lock", "done"} /\ journal' = x.rec
        BY <1>1, <2>5
      <3> QED
        BY <2>5, <3>1, <3>2, <3>3
           DEF Duty, HeldDuty, MapDuty, JournalDuty, Locked, Stopping
    <2>8. Ebbs /\ Hands(Main)
      BY <1>1, <2>1, StillEbbs DEF Hands, Hand, Stopping
    <2>9. /\ journal' = journal /\ UNCHANGED shell /\ Main \in Workers /\ w.pc # "idle"
          /\ \A u \in Workers : u # Main /\ lock = u => lock' = u
      BY <1>1, <2>1, TurnsType
    <2> QED
      BY <2>2, <2>4, <2>5, <2>6, <2>7, <2>8, <2>9, Moves
  <1>2. CASE /\ At(Main, "recover")
             /\ RecoverThen(Main, w.rec, "done")
             /\ UNCHANGED <<shell, active, mutex, journal, lock, os, spawned, lost>>
    <2>1. w.pc = "recover"
      BY <1>2 DEF At
    <2>2. Types /\ Duty(Main) /\ Main \in Workers
      BY TurnsType DEF IInv
    <2>3. Sweeps(w)
      BY <2>1, <2>2, Places DEF Duty
    <2>4. w.rec # <<>> /\ w.rec \in AtMostOneOf(Records)
          /\ (Runs(journal) => journal = w.rec \/ OfAnother(Main))
      BY <2>1, <2>2, <2>3, ThreadType DEF Sweeps, Stopping, Duty, JournalDuty
    <2> QED
      BY <1>2, <2>1, <2>2, <2>4, RecoverMoves
  <1> QED
    BY <1>1, <1>2 DEF Reconcile

LEMMA DoneSteps ==
    ASSUME IInv, NEW t \in Workers, Done(t)
    PROVE  IInv'
  <1> DEFINE w == th[t]
             x == th'[t]
             m == th[t].mgr
  <1>1. /\ w.pc = "done"
        /\ th' = [th EXCEPT ![t] = IdleThread]
        /\ lock' = IF lock = t THEN NoThread ELSE lock
        /\ mutex' = [n \in Managers |-> IF mutex[n] = t THEN NoThread ELSE mutex[n]]
        /\ UNCHANGED <<journal, os, spawned, lost, parted>>
        /\ Fault \/ faults' = faults
        /\ \/ t # Main /\ UNCHANGED <<server, manager>>
           \/ /\ t = Main /\ server = "booting" /\ server' = "serving"
              /\ manager' = manager
           \/ /\ t = Main /\ server = "booting" /\ server' = "down"
              /\ manager' = NoManager
           \/ /\ t = Main /\ server = "closing" /\ server' = "draining"
              /\ manager' = manager
           \/ /\ t = Main /\ server = "closing" /\ server' = "down"
              /\ manager' = NoManager
        /\ IF manager' # m /\ LastOf(t) THEN Forget(m)
           ELSE UNCHANGED <<active, retained, recovered>>
    BY DEF Done, At, Mine
  <1>2. Types /\ Duty(t) /\ w # IdleThread /\ m \in Managers /\ w.held = 0
    BY <1>1, Awake
  <1>3. /\ th' \in [Workers -> Thread] /\ x = IdleThread
        /\ \A u \in Workers : u # t => th'[u] = th[u]
    BY <1>1, Idle, TurnsType
  <1>4. x.held = 0 /\ x.op = "status" /\ x.mgr = NoManager
    BY <1>3, Idle
  <1>5. ASSUME LastOf(t)
        PROVE  \A u \in Workers : th'[u].mgr # m
    BY <1>2, <1>3, <1>4, <1>5, TurnsType DEF LastOf, Mine
  <1>6. /\ active \in [Managers -> AtMostOneOf(Statuses)]
        /\ retained \in [Managers -> [Pids -> OrNone]]
        /\ recovered \in [Managers -> [Pids -> OrNone]]
        /\ mutex \in [Managers -> Workers \cup {NoThread}]
        /\ NoPids \in [Pids -> OrNone] /\ <<>> \in AtMostOneOf(Statuses)
    BY <1>2, NoStranger DEF Types, TypeOK, NoPids, AtMostOneOf
  <1>7. /\ active' \in [Managers -> AtMostOneOf(Statuses)]
        /\ retained' \in [Managers -> [Pids -> OrNone]]
        /\ recovered' \in [Managers -> [Pids -> OrNone]]
        /\ \A n \in Managers : active'[n] \in {active[n], <<>>}
        /\ \A n \in Managers, p \in Pids :
              \/ retained'[n][p] = retained[n][p]
              \/ retained'[n][p] = 0 /\ Gone(n)
        /\ manager' # m /\ LastOf(t) => active'[m] = <<>>
    <2>1. CASE manager' # m /\ LastOf(t)
      <3>1. /\ active' = [active EXCEPT ![m] = <<>>]
            /\ retained' = [retained EXCEPT ![m] = NoPids]
            /\ recovered' = [recovered EXCEPT ![m] = NoPids]
        BY <1>1, <2>1 DEF Forget
      <3>2. active'[m] = <<>> /\ Gone(m)
        BY <1>2, <1>5, <1>6, <2>1, <3>1 DEF Gone
      <3>3. \A p \in Pids : retained'[m][p] = 0
        BY <1>2, <1>6, <3>1 DEF NoPids
      <3> QED
        BY <1>2, <1>6, <3>1, <3>2, <3>3
    <2>2. CASE ~(manager' # m /\ LastOf(t))
      BY <1>1, <1>6, <2>2
    <2> QED
      BY <2>1, <2>2
  <1>8. Ebbs
    BY <1>1, <1>7 DEF Ebbs
  <1>9. Types'
    <2>1. mutex' \in [Managers -> Workers \cup {NoThread}]
      BY <1>1, <1>6
    <2> QED
      BY <1>1, <1>2, <1>3, <1>7, <2>1, TypesNext, Faulty, TurnsType DEF Types, TypeOK
  <1>10. \A u \in Workers : Duty(u)'
    <2> SUFFICES ASSUME NEW u \in Workers
                 PROVE  Duty(u)'
      OBVIOUS
    <2>1. CASE u = t
      BY <1>3, <2>1, IdleStays
    <2>2. CASE u # t
      <3>1. Duty(u) /\ th'[u] = th[u] /\ (lock = u => lock' = u) /\ journal' = journal
        BY <1>1, <1>3, <2>2 DEF IInv
      <3> QED
        BY <1>2, <1>8, <3>1, Undisturbed
    <2> QED
      BY <2>1, <2>2
  <1>11. PidsKept' /\ NoncesOnce' /\ MapAgrees'
    <2>1. \A u \in Workers : /\ th'[u].held = th[u].held
                             /\ th[u].held # 0 => /\ th'[u].mgr = th[u].mgr
                                                  /\ th'[u].pid = th[u].pid
      BY <1>2, <1>3, <1>4
    <2> QED
      BY <1>1, <1>2, <1>8, <2>1, PidsEbb, NoncesEbb, MapEbbs DEF IInv
  <1>12. Budget'
    <2>1. \A u \in Threads : th'[u].op = "start" /\ th'[u].nonce = 0
                               => th[u].op = "start" /\ th[u].nonce = 0
      BY <1>3, <1>4, TurnsType
    <2> QED
      BY <1>1, <1>2, <2>1, BudgetEbbs DEF IInv
  <1>13. Accounted'
    <2>1. Hands(t)
      BY <1>1 DEF Hands, Hand, Stopping
    <2> QED
      BY <1>1, <1>3, <2>1, AccountedMoves DEF IInv
  <1>14. Turns'
    <2>1. t = Main => m = manager /\ \A u \in Threads : th[u].mgr # manager
      BY <1>2, TurnsType DEF Turns, Mine
    <2>2. server # "down" <=> manager \in Managers
      BY TurnsType DEF Turns
    <2>3. server' # "down" <=> manager' \in Managers
      BY <1>1, <2>1, <2>2, TurnsType
    <2>4. ASSUME th'[Main] # IdleThread
          PROVE  /\ server' \in {"booting", "closing"} /\ th'[Main].mgr = manager'
                 /\ \A u \in Threads : th'[u].mgr # manager'
      <3>1. t # Main /\ th'[Main] = th[Main] /\ server' = server /\ manager' = manager
        BY <1>1, <1>3, <2>4, TurnsType
      <3>2. /\ server \in {"booting", "closing"} /\ th[Main].mgr = manager
            /\ \A u \in Threads : th[u].mgr # manager
        BY <2>4, <3>1, TurnsType DEF Turns, Mine
      <3>3. manager # NoManager
        BY <2>2, <3>2, TurnsType
      <3> QED
        BY <1>3, <1>4, <3>1, <3>2, <3>3, TurnsType
    <2>5. ASSUME ~parted, NEW u \in Threads
          PROVE  th'[u] = IdleThread \/ th'[u].mgr = manager'
      <3>1. th[u] = IdleThread \/ th[u].mgr = manager
        BY <2>5, TurnsType DEF Turns, Mine
      <3>2. t # Main => manager' = manager
        BY <1>1
      <3> QED
        BY <1>3, <2>1, <3>1, <3>2, TurnsType
    <2>6. ASSUME NEW n \in Managers, n # manager', \A u \in Workers : th'[u].mgr # n
          PROVE  active'[n] = <<>>
      <3>1. CASE n = m
        <4>1. LastOf(t)
          BY <1>3, <2>6, <3>1 DEF LastOf, Mine
        <4> QED
          BY <1>7, <2>6, <3>1, <4>1
      <3>2. CASE n # m
        <4>1. \A u \in Workers : th[u].mgr # n
          BY <1>3, <2>6, <3>2
        <4>2. n # manager
          BY <1>1, <2>1, <2>6, <3>2
        <4>3. active[n] = <<>>
          BY <4>1, <4>2, TurnsType DEF Turns, Mine
        <4> QED
          BY <1>7, <4>3
      <3> QED
        BY <3>1, <3>2
    <2>7. parted' = parted
      BY <1>1
    <2> QED
      BY <2>3, <2>4, <2>5, <2>6, <2>7 DEF Turns, Mine
  <1> QED
    BY <1>9, <1>10, <1>11, <1>12, <1>13, <1>14 DEF IInv

LEMMA CrashSteps ==
    ASSUME IInv, Crash
    PROVE  IInv'
  <1>1. /\ Fault /\ server' = "down" /\ manager' = NoManager /\ parted' = FALSE
        /\ active' = [m \in Managers |-> <<>>]
        /\ mutex' = [m \in Managers |-> NoThread] /\ lock' = NoThread
        /\ retained' = [m \in Managers |-> NoPids]
        /\ recovered' = [m \in Managers |-> NoPids]
        /\ th' = [t \in Workers |-> IdleThread]
        /\ lost' = lost \cup {os[p] : p \in {q \in Pids :
                      os[q] \in Nonces /\ ~(Runs(journal) /\ journal[1].pid = q)}}
        /\ journal' = journal /\ os' = os /\ spawned' = spawned
    BY DEF Crash
  <1>2. NoPids \in [Pids -> OrNone] /\ <<>> \in AtMostOneOf(Statuses)
        /\ \A p \in Pids : NoPids[p] = 0
    BY NoStranger DEF NoPids, AtMostOneOf
  <1>3. \A t \in Workers : th'[t] = IdleThread
    BY <1>1
  <1>4. th' \in [Workers -> Thread] /\ lost' \subseteq Nonces
    BY <1>1, Idle, TurnsType DEF Types, TypeOK
  <1>5. Types'
    BY <1>1, <1>2, <1>4, TypesNext, TurnsType, Faulty DEF Types, TypeOK
  <1>6. \A t \in Workers : Duty(t)'
    BY <1>3, IdleStays
  <1>7. PidsKept' /\ NoncesOnce' /\ MapAgrees'
    BY <1>1, <1>2 DEF IInv, PidsKept, NoncesOnce, MapAgrees
  <1>8. Turns'
    BY <1>1, <1>3, TurnsType DEF Turns
  <1>9. Budget'
    <2>1. \A u \in Threads : th'[u].op # "start"
      BY <1>3, Idle, TurnsType
    <2> QED
      BY <1>1, <2>1, BudgetEbbs, TurnsType DEF IInv
  <1>10. Accounted'
    BY <1>1 DEF Accounted, Runs, Named
  <1> QED
    BY <1>5, <1>6, <1>7, <1>8, <1>9, <1>10 DEF IInv

LEMMA ProcessSteps ==
    ASSUME IInv,
           \/ \E p \in Pids : RuntimeExits(p) \/ StrangerComesOrGoes(p)
           \/ UNCHANGED vars
    PROVE  IInv'
  <1>1. /\ UNCHANGED <<shell, active, mutex, journal, lock, retained, recovered, th,
                       spawned, faults, lost>>
        /\ \/ os' = os
           \/ \E p \in Pids : \/ os' = [os EXCEPT ![p] = 0]
                              \/ os' = [os EXCEPT ![p] = Stranger] /\ Free(p)
    BY DEF RuntimeExits, StrangerComesOrGoes, vars, shell
  <1>2. Types /\ os \in [Pids -> OrNone \cup {Stranger}]
    BY TurnsType DEF Types, TypeOK
  <1>3. /\ Ebbs /\ os' \in [Pids -> OrNone \cup {Stranger}]
    BY <1>1, <1>2, NoStranger, Still DEF Ebbs
  <1>4. Types'
    BY <1>1, <1>2, <1>3, TypesNext, Still DEF Types, TypeOK
  <1>5. Turns'
    BY <1>1, TurnsType, Still DEF Turns, Mine
  <1> QED
    BY <1>1, <1>3, <1>4, <1>5, Rests

-----------------------------------------------------------------------------
(***************************************************************************)
(* The invariant holds at first, every step keeps it, and it implies the   *)
(* properties.                                                             *)
(***************************************************************************)
LEMMA Begin == Init => IInv
  <1> SUFFICES ASSUME Init
               PROVE  IInv
    OBVIOUS
  <1>1. \A t \in Workers : th[t] = IdleThread
    BY DEF Init
  <1>2. Types
    <2>1. th \in [Workers -> Thread]
      BY Idle DEF Init
    <2>2. /\ active \in [Managers -> AtMostOneOf(Statuses)]
          /\ mutex \in [Managers -> Workers \cup {NoThread}]
          /\ journal \in AtMostOneOf(Records)
      BY DEF Init, AtMostOneOf
    <2>3. /\ os \in [Pids -> OrNone \cup {Stranger}]
          /\ retained \in [Managers -> [Pids -> OrNone]]
          /\ recovered \in [Managers -> [Pids -> OrNone]]
      BY NoStranger DEF Init, NoPids
    <2>4. spawned \in OrNone /\ faults \in 0..MaxFaults
      BY LocalRuntimeAssumption DEF Init, OrNone
    <2> QED
      BY <2>1, <2>2, <2>3, <2>4 DEF Init, Types, TypeOK, Thread, Ops
  <1>3. \A t \in Workers : Duty(t)
    BY <1>1, IdleDuty
  <1>4. PidsKept /\ NoncesOnce /\ MapAgrees /\ Turns /\ Accounted
    BY <1>1, NoStranger, LocalRuntimeAssumption
       DEF Init, PidsKept, NoncesOnce, MapAgrees, Turns, Accounted, Workers, NoPids
  <1>5. Budget
    <2>1. Pending = {}
      BY <1>1, Idle DEF Pending, Workers
    <2> QED
      BY <2>1, FS_EmptySet, LocalRuntimeAssumption DEF Init, Budget
  <1> QED
    BY <1>2, <1>3, <1>4, <1>5 DEF IInv

LEMMA WorkSteps ==
    ASSUME IInv, NEW t \in Workers, Work(t)
    PROVE  IInv'
  <1>1. CASE Acquire(t)
    BY <1>1, Acquires
  <1>2. CASE Look(t)
    BY <1>2, LookSteps
  <1>3. CASE Judge(t)
    BY <1>3, JudgeSteps
  <1>4. CASE Clear(t)
    BY <1>4, ClearSteps
  <1>5. CASE Rewrite(t)
    BY <1>5, RewriteSteps
  <1>6. CASE Stop(t)
    BY <1>6, StopSteps
  <1>7. CASE Unrecord(t)
    BY <1>7, UnrecordSteps
  <1>8. CASE Orphan(t)
    BY <1>8, OrphanSteps
  <1>9. CASE Spawn(t)
    BY <1>9, SpawnSteps
  <1>10. CASE Record(t)
    BY <1>10, RecordSteps
  <1>11. CASE Publish(t)
    BY <1>11, PublishSteps
  <1>12. CASE Await(t)
    BY <1>12, AwaitSteps
  <1>13. CASE Disown(t)
    BY <1>13, DisownSteps
  <1>14. CASE Check(t)
    BY <1>14, CheckSteps
  <1>15. CASE Drop(t)
    BY <1>15, DropSteps
  <1>16. CASE Peek(t)
    BY <1>16, PeekSteps
  <1>17. CASE Load(t)
    BY <1>17, LoadSteps
  <1>18. CASE Verify(t)
    BY <1>18, VerifySteps
  <1>19. CASE StatusClear(t)
    BY <1>19, StatusClearSteps
  <1>20. CASE StatusRemove(t)
    BY <1>20, StatusRemoveSteps
  <1>21. CASE Done(t)
    BY <1>21, DoneSteps
  <1> QED
    BY <1>1, <1>2, <1>3, <1>4, <1>5, <1>6, <1>7, <1>8, <1>9, <1>10, <1>11, <1>12,
       <1>13, <1>14, <1>15, <1>16, <1>17, <1>18, <1>19, <1>20, <1>21
       DEF Work

LEMMA StepKeeps == IInv /\ [Next]_vars => IInv'
  <1> SUFFICES ASSUME IInv, [Next]_vars
               PROVE  IInv'
    OBVIOUS
  <1>1. ASSUME NEW t \in Threads, RequestStatus(t)
        PROVE  IInv'
    BY <1>1, RequestSteps
  <1>2. ASSUME NEW t \in Threads, NEW i \in Instances, Start(t, i)
        PROVE  IInv'
    BY <1>2, StartSteps
  <1>3. ASSUME NEW t \in Threads, NEW i \in Instances, RequestStop(t, i)
        PROVE  IInv'
    BY <1>3, RequestSteps
  <1>4. ASSUME NEW t \in Workers, Work(t)
        PROVE  IInv'
    BY <1>4, WorkSteps
  <1>5. CASE Reconcile
    BY <1>5, ReconcileSteps
  <1>6. CASE Boot \/ Drained
    BY <1>6, ServerSteps
  <1>7. CASE Close \/ DrainTimesOut
    BY <1>7, CloseSteps
  <1>8. CASE Crash
    BY <1>8, CrashSteps
  <1>9. CASE \/ \E p \in Pids : RuntimeExits(p) \/ StrangerComesOrGoes(p)
             \/ UNCHANGED vars
    BY <1>9, ProcessSteps
  <1> QED
    BY <1>1, <1>2, <1>3, <1>4, <1>5, <1>6, <1>7, <1>8, <1>9 DEF Next

\* A runtime in hand, and no other, is the one the journal may name meanwhile.
LEMMA InHandAlone ==
    ASSUME IInv, NEW u \in Threads, th[u].pc \in Hand, th[u].nonce # 0
    PROVE  /\ lock = u
           /\ Runs(journal) => journal[1].nonce = th[u].nonce
  <1> DEFINE w == th[u]
  <1>1. Duty(u) /\ w.pc \in Locked /\ u \in Workers
    BY DEF IInv, Hand, Stopping, Locked, Workers
  <1>2. lock = u
    BY <1>1 DEF Duty
  <1>3. CASE w.pc = "record"
    BY <1>1, <1>2, <1>3 DEF Duty, JournalDuty, Runs, Named
  <1>4. CASE w.pc \in Stopping
    <2>1. Undoes(w) /\ Names(w.rec)
      BY <1>4, AtStop, <1>1
    <2> QED
      BY <1>2, <2>1 DEF Undoes, Minted, Names, Runs, Named
  <1> QED
    BY <1>3, <1>4 DEF Hand

LEMMA AtMostOne ==
    ASSUME IInv, NEW p \in Pids, NEW q \in Pids,
           os[p] \in Nonces \ lost, os[q] \in Nonces \ lost
    PROVE  p = q
  <1>1. /\ (Runs(journal) /\ journal[1].pid = p) \/ InHand(os[p])
        /\ (Runs(journal) /\ journal[1].pid = q) \/ InHand(os[q])
    BY DEF IInv, Accounted
  <1>2. ASSUME NEW n \in Nonces, InHand(n)
        PROVE  /\ th[lock].nonce = n
               /\ Runs(journal) => journal[1].nonce = n
    <2>1. PICK u \in Threads : th[u].nonce = n /\ th[u].pc \in Hand
      BY <1>2 DEF InHand, Hand, Stopping
    <2> QED
      BY <2>1, InHandAlone, NoStranger
  <1>3. os[p] = os[q] => p = q
    BY DEF IInv, NoncesOnce
  <1>4. CASE InHand(os[p]) /\ InHand(os[q])
    BY <1>2, <1>3, <1>4
  <1>5. CASE Runs(journal) /\ journal[1].pid = p /\ InHand(os[q])
    BY <1>2, <1>3, <1>5 DEF Runs
  <1>6. CASE Runs(journal) /\ journal[1].pid = q /\ InHand(os[p])
    BY <1>2, <1>3, <1>6 DEF Runs
  <1> QED
    BY <1>1, <1>4, <1>5, <1>6

LEMMA Alone == IInv => OneRuntime
  <1> SUFFICES ASSUME IInv
               PROVE  OneRuntime
    OBVIOUS
  <1> DEFINE R == {p \in Pids : os[p] \in Nonces \ lost}
  <1>1. CASE R = {}
    BY <1>1, FS_EmptySet DEF OneRuntime
  <1>2. ASSUME NEW p \in R
        PROVE  OneRuntime
    <2>1. R = {p}
      BY <1>2, AtMostOne
    <2>2. Cardinality({p}) = 1
      BY FS_Singleton
    <2> QED
      BY <2>1, <2>2 DEF OneRuntime
  <1> QED
    BY <1>1, <1>2

LEMMA Recorded == IInv => ReadyIsRecorded
  <1> SUFFICES ASSUME IInv, NEW m \in Managers, active[m] # <<>>, lock = NoThread,
                      Identity(m, active[m][1].pid) # 0,
                      Identity(m, active[m][1].pid) \notin lost
               PROVE  Matches(journal, active[m])
    BY DEF ReadyIsRecorded
  <1> DEFINE p == active[m][1].pid
             n == Identity(m, active[m][1].pid)
  <1>1. p \in Pids
    BY Singles DEF IInv, Types, TypeOK, Statuses
  <1>2. n = retained[m][p] /\ os[p] = n /\ n \in Nonces
    <2>1. n = retained[m][p] /\ os[p] = n /\ n \in OrNone
      BY <1>1, Identities DEF IInv
    <2> QED
      BY <2>1, LocalRuntimeAssumption DEF OrNone, Nonces
  <1>3. ~InHand(n)
    <2>1. ASSUME NEW u \in Threads, th[u].nonce = n, th[u].pc \in Hand
          PROVE  FALSE
      <3>1. lock = u
        BY <1>2, <2>1, InHandAlone, NoStranger
      <3> QED
        BY <3>1, LocalRuntimeAssumption
    <2> QED
      BY <2>1 DEF InHand, Hand, Stopping
  <1>4. Runs(journal) /\ journal[1].pid = p
    BY <1>1, <1>2, <1>3 DEF IInv, Accounted
  <1>5. Kept(m, journal[1].pid, journal[1].nonce)
    BY <1>2, <1>4 DEF Kept, Runs
  <1> QED
    BY <1>4, <1>5 DEF IInv, MapAgrees

LEMMA Invariant == Spec => []IInv
  <1>1. Init => IInv
    BY Begin
  <1>2. IInv /\ [Next]_vars => IInv'
    BY StepKeeps
  <1> QED
    BY <1>1, <1>2, PTL DEF Spec

\* What the shell's process, its files and its threads hold stays within its
\* types, whatever fails and whenever the shell ends.
THEOREM TypeCorrect == Spec => []TypeOK
  <1>1. IInv => TypeOK
    BY DEF IInv, Types
  <1> QED
    BY <1>1, Invariant, PTL

\* A runtime that runs is named by the journal, or a start has it in hand, or
\* the code let go of it where Accounted says: not recognised, not stopped in a
\* rollback, struck out by a status or by another manager's thread, or spawned
\* when the shell crashed (manager.rs, process_driver.rs, api.rs).
THEOREM RuntimesAccounted == Spec => []Accounted
  <1>1. IInv => Accounted
    BY DEF IInv
  <1> QED
    BY <1>1, Invariant, PTL

\* Never do two runtimes the code has not let go of work on the scope's worktree
\* side by side: start ends the one before it, after a crash too, and beside
\* the requests of a manager that was closed too early (manager.rs).
THEOREM NeverSideBySide == Spec => []OneRuntime
  <1>1. IInv => OneRuntime
    BY Alone
  <1> QED
    BY <1>1, Invariant, PTL

\* The instance a status request of any manager is shown as ready is the
\* journal's, unless it has ended or was let go of (manager.rs, status and start).
THEOREM ShownIsRecorded == Spec => []ReadyIsRecorded
  <1>1. IInv => ReadyIsRecorded
    BY Recorded
  <1> QED
    BY <1>1, Invariant, PTL

-----------------------------------------------------------------------------
(***************************************************************************)
(* The two locks, and the looks: whoever holds a lock never waits for the  *)
(* other, and what a stop signals it has looked at.                        *)
(***************************************************************************)
\* The steps that take the mutex of the manager's map.
MapSteps == {"look", "clear", "announce", "publish", "check", "peek", "statusClear"}

\* The steps at which a stop keeps it.
Keeping == {"rewrite", "unrecord", "drop"} \cup Stopping

Waits(t) ==
    \/ At(t, "lock") /\ lock # NoThread
    \/ th[t].pc \in MapSteps /\ ~MapFree(t)

Goes(t) == ~At(t, "idle") /\ ~Waits(t)

Holds(t) == lock = t \/ \E m \in Managers : mutex[m] = t

HoldersGo == \A t \in Workers : Holds(t) => Goes(t)

WaitsForHolder ==
    \A t \in Workers : Waits(t) => \E u \in Workers \ {t} : Holds(u) /\ Goes(u)

Keeps(w) == w.pc = "done" \/ (w.op = "stop" /\ w.pc \in Keeping)

LocksInv ==
    /\ lock # NoThread => th[lock].pc \in Locked \cup {"done"}
    /\ \A m \in Managers : mutex[m] # NoThread => lock = mutex[m] /\ Keeps(th[lock])

\* A process that was recovered is about to be stopped ...
Recovered ==
    \A m \in Managers, p \in Pids : recovered[m][p] # 0 =>
        /\ lock # NoThread /\ th[lock].pc = "stop" /\ th[lock].mgr = m
        /\ th[lock].pid = <<p>> /\ th[lock].rec # <<>>
        /\ th[lock].rec[1].nonce = recovered[m][p] /\ retained[m][p] = 0

\* ... and it was the recorded one that the stop found.
Killing == {"signal", "outlast"}
Sure(w) == w.pc \in Killing => w.rec # <<>> /\ w.was = w.rec[1].nonce

Looked == LocksInv /\ Recovered /\ \A t \in Workers : Sure(th[t])

\* A step of t that leaves the locks where they are.
GoesAlong(t) ==
    /\ \A u \in Workers : u # t => th'[u] = th[u]
    /\ th[t].pc \in Locked \cup {"done"} => th'[t].pc \in Locked \cup {"done"}
    /\ Keeps(th[t]) => Keeps(th'[t])
    /\ Sure(th'[t])

LEMMA Sleeps == "idle" \notin Locked \cup {"done"} \cup Keeping \cup Killing
  BY DEF Locked, Keeping, Stopping, Killing

\* Who works with the lock, but not on a stop, has recovered no process.
LEMMA NoneRecovered ==
    ASSUME IInv, Looked, NEW t \in Workers, th[t].pc \in Locked, th[t].pc # "stop",
           NEW m \in Managers, NEW p \in Pids
    PROVE  recovered[m][p] = 0
  <1>1. lock = t
    BY DEF IInv, Duty
  <1> QED
    BY <1>1 DEF Looked, Recovered

LEMMA StaysLooked ==
    ASSUME IInv, Looked, NEW t \in Workers, GoesAlong(t), lock' = lock, mutex' = mutex,
           Recovered'
    PROVE  Looked'
  <1>1. lock \in Workers \cup {NoThread}
    BY DEF IInv, Types, TypeOK
  <1>2. LocksInv'
    BY <1>1, LocalRuntimeAssumption DEF LocksInv, GoesAlong, Looked, Workers
  <1>3. \A u \in Workers : Sure(th'[u])
    BY DEF GoesAlong, Looked
  <1> QED
    BY <1>2, <1>3 DEF Looked

LEMMA LocksStay ==
    ASSUME IInv, Looked, NEW t \in Workers, GoesAlong(t), lock' = lock, mutex' = mutex,
           recovered' = recovered, th[t].pc # "stop",
           th[t].pc \in Locked \/ \A m \in Managers, p \in Pids :
              retained[m][p] = 0 => retained'[m][p] = 0
    PROVE  Looked'
  <1>1. CASE th[t].pc \in Locked
    BY <1>1, NoneRecovered, StaysLooked DEF Recovered
  <1>2. CASE th[t].pc \notin Locked
    <2>1. \A m \in Managers, p \in Pids : recovered[m][p] # 0 => th'[lock] = th[lock]
      <3> SUFFICES ASSUME NEW m \in Managers, NEW p \in Pids, recovered[m][p] # 0
                   PROVE  th'[lock] = th[lock]
        OBVIOUS
      <3>1. lock # NoThread /\ th[lock].pc = "stop" /\ lock \in Workers
        BY DEF Looked, Recovered, IInv, Types, TypeOK
      <3> QED
        BY <3>1 DEF GoesAlong
    <2> QED
      BY <1>2, <2>1, StaysLooked DEF Recovered, Looked
  <1> QED
    BY <1>1, <1>2

LEMMA ReturnsAlong ==
    ASSUME IInv, NEW t \in Workers, Return(t)
    PROVE  GoesAlong(t) /\ th'[t].pc = "done"
  BY Returns DEF GoesAlong, Keeps, Sure, Killing, IInv

\* What is left of an operation that has the lock needs it, or returns; a stop
\* that keeps the mutex goes on to steps that keep it.
LEMMA ProceedsAlong ==
    ASSUME IInv, NEW t \in Workers, Proceed(t),
           th[t].pc \in Stopping \cup {"clear", "rewrite", "unrecord", "disown", "record",
                         "ready", "announce", "await", "publish", "drop"}
    PROVE  GoesAlong(t) /\ th'[t].pc \notin Killing
  <1> DEFINE w == th[t]
             todo == th[t].todo
  <1>1. Types /\ Placed(w)
    BY DEF IInv, Duty
  <1>2. /\ todo # <<>> /\ Head(todo) \in (Locked \cup {"done"}) \ Killing
        /\ w.op = "stop" => Head(todo) \in Keeping \cup {"done"}
    <2>1. CASE Ends(w)
      <3>1. \/ todo = <<"stop", "unrecord", "drop", "done">>
            \/ todo = <<"unrecord", "drop", "done">>
            \/ todo = <<"drop", "done">> \/ todo = <<"done">>
        BY <2>1 DEF Ends, Stopping
      <3>2. todo # <<>> /\ Head(todo) \in {"stop", "unrecord", "drop", "done"}
        BY <3>1, Heads, SMTT(30)
      <3> QED
        BY <3>2 DEF Locked, Keeping, Killing, Stopping
    <2>2. CASE Replaces(w) \/ Forgets(w)
      <3>1. /\ w.op # "stop"
            /\ \/ todo = <<"stop", "unrecord", "clear", "orphan">>
               \/ todo = <<"unrecord", "clear", "orphan">>
               \/ todo = <<"clear", "orphan">> \/ todo = <<"orphan">>
               \/ todo = <<"unrecord", "orphan">>
        BY <2>2 DEF Replaces, Forgets, Begins, Stopping
      <3>2. /\ todo # <<>>
            /\ Head(todo) \in {"stop", "unrecord", "clear", "orphan"}
        BY <3>1, Heads, SMTT(30)
      <3> QED
        BY <3>1, <3>2 DEF Locked, Killing
    <2>3. CASE Prepares(w)
      <3>1. /\ w.op # "stop"
            /\ \/ todo = <<"orphan">> \/ todo = <<"unrecord", "spawn">>
               \/ todo = <<"spawn">>
        BY <2>3 DEF Prepares, Begins, Stopping
      <3>2. todo # <<>> /\ Head(todo) \in {"orphan", "unrecord", "spawn"}
        BY <3>1, Heads, SMTT(30)
      <3> QED
        BY <3>1, <3>2 DEF Locked, Killing
    <2>4. CASE Creates(w)
      <3>1. /\ w.op # "stop"
            /\ \/ todo = <<"announce", "await", "ready", "publish", "done">>
               \/ todo = <<"await", "ready", "publish", "done">>
               \/ todo = <<"ready", "publish", "done">>
               \/ todo = <<"publish", "done">> \/ todo = <<"done">>
        BY <2>4 DEF Creates, Minted
      <3>2. /\ todo # <<>>
            /\ Head(todo) \in {"announce", "await", "ready", "publish", "done"}
        BY <3>1, Heads, SMTT(30)
      <3> QED
        BY <3>1, <3>2 DEF Locked, Killing
    <2>5. CASE Undoes(w)
      <3>1. /\ w.op # "stop"
            /\ \/ todo = <<"stop", "unrecord", "done">>
               \/ todo = <<"unrecord", "done">> \/ todo = <<"done">>
        BY <2>5 DEF Undoes, Minted, Stopping
      <3>2. todo # <<>> /\ Head(todo) \in {"stop", "unrecord", "done"}
        BY <3>1, Heads, SMTT(30)
      <3> QED
        BY <3>1, <3>2 DEF Locked, Killing
    <2>6. CASE Sweeps(w)
      <3>1. w.op # "stop" /\ (todo = <<"unrecord", "done">> \/ todo = <<"done">>)
        BY <2>6 DEF Sweeps, Stopping
      <3> QED
        BY <3>1, Heads DEF Locked, Killing
    <2>7. \/ Ends(w) \/ Replaces(w) \/ Forgets(w) \/ Prepares(w)
          \/ Creates(w) \/ Undoes(w) \/ Sweeps(w)
      BY <1>1, Places DEF Stopping
    <2> QED
      BY <2>1, <2>2, <2>3, <2>4, <2>5, <2>6, <2>7
  <1>3. /\ \A u \in Workers : u # t => th'[u] = th[u]
        /\ th'[t].pc = Head(todo) /\ (th'[t].pc # "done" => th'[t].op = w.op)
    BY <1>1, <1>2, Proceeds
  <1>4. w.pc # "done"
    BY DEF Stopping
  <1>5. Keeps(w) => Keeps(th'[t])
    <2> SUFFICES ASSUME Keeps(w) PROVE Keeps(th'[t])
      OBVIOUS
    <2>1. w.op = "stop"
      BY <1>4 DEF Keeps
    <2> QED
      BY <1>2, <1>3, <2>1 DEF Keeps
  <1>6. Sure(th'[t])
    BY <1>2, <1>3 DEF Sure
  <1> QED
    BY <1>2, <1>3, <1>5, <1>6 DEF GoesAlong

\* Steps named by the list they go on to.
LEMMA FollowsAlong ==
    ASSUME IInv, NEW t \in Workers, NEW s, Follow(t, s),
           Head(s) \in (Locked \cup {"done"}) \ Killing, Tail(s) \in Seq(Steps),
           ~Keeps(th[t])
    PROVE  GoesAlong(t)
  BY Follows DEF GoesAlong, Sure, IInv, Locked, Steps, Stopping

\* A failed stop returns, or goes on to the record.
LEMMA FailsAlong ==
    ASSUME IInv, NEW t \in Workers, th[t].pc \in Stopping, StopFails(t)
    PROVE  GoesAlong(t) /\ th'[t].pc \notin Killing
  BY ProceedsAlong, ReturnsAlong DEF StopFails, Failed, Killing

LEMMA StopLocks ==
    ASSUME IInv, Looked, NEW t \in Workers, Stop(t)
    PROVE  Looked'
  <1> DEFINE w == th[t]
             m == th[t].mgr
             p == th[t].pid[1]
  <1>1. /\ w.pc \in Stopping /\ lock' = lock /\ mutex' = mutex
        /\ th \in [Workers -> Thread]
    BY DEF Stop, StopChild, LookAgain, Signal, At, Stopping, IInv, Types
  <1>2. /\ Types /\ m \in Managers /\ p \in Pids /\ w.pid = <<p>> /\ lock = t
        /\ w.pc \in Locked
    BY <1>1, AtStop
  <1>3. CASE w.pc = "stop" /\ retained[m][p] # 0
    <2>1. /\ th' = [th EXCEPT ![t].pc = "stopping", ![t].held = retained[m][p]]
          /\ recovered' = recovered
      BY <1>3 DEF Stop, StopChild, LookAgain, Signal, At, Mine
    <2>2. /\ \A u \in Workers : u # t => th'[u] = th[u]
          /\ th'[t].pc = "stopping" /\ th'[t].op = w.op
      BY <1>1, <2>1 DEF Thread
    <2>3. GoesAlong(t)
      BY <1>3, <2>2 DEF GoesAlong, Locked, Keeps, Keeping, Stopping, Sure, Killing
    <2>4. \A n \in Managers, q \in Pids : recovered[n][q] = 0
      BY <1>2, <1>3, <2>1 DEF Looked, Recovered
    <2> QED
      BY <1>1, <2>1, <2>3, <2>4, StaysLooked DEF Recovered
  <1>4. CASE w.pc = "stop" /\ retained[m][p] = 0
    <2>1. /\ recovered' = [recovered EXCEPT ![m][p] = 0]
          /\ \/ /\ recovered[m][p] # 0 /\ os[p] = recovered[m][p]
                /\ th' = [th EXCEPT ![t].pc = "signal", ![t].was = os[p]]
             \/ StopFails(t)
      BY <1>4 DEF Stop, StopChild, LookAgain, Signal, At, Mine
    <2>2. \A n \in Managers, q \in Pids : recovered'[n][q] = 0
      <3>1. recovered \in [Managers -> [Pids -> OrNone]]
        BY <1>2 DEF Types, TypeOK
      <3>2. \A n \in Managers, q \in Pids : recovered[n][q] # 0 => n = m /\ q = p
        BY <1>2 DEF Looked, Recovered
      <3> QED
        BY <1>2, <2>1, <3>1, <3>2
    <2>3. CASE /\ recovered[m][p] # 0 /\ os[p] = recovered[m][p]
               /\ th' = [th EXCEPT ![t].pc = "signal", ![t].was = os[p]]
      <3>1. /\ \A u \in Workers : u # t => th'[u] = th[u]
            /\ th'[t].pc = "signal" /\ th'[t].op = w.op /\ th'[t].was = os[p]
            /\ th'[t].rec = w.rec
        BY <1>1, <2>3 DEF Thread
      <3>2. w.rec # <<>> /\ w.rec[1].nonce = os[p]
        BY <1>2, <2>3 DEF Looked, Recovered
      <3>3. GoesAlong(t)
        BY <1>4, <3>1, <3>2 DEF GoesAlong, Locked, Keeps, Keeping, Stopping, Sure
      <3> QED
        BY <1>1, <2>2, <3>3, StaysLooked DEF Recovered
    <2>4. CASE StopFails(t)
      BY <1>1, <2>2, <2>4, FailsAlong, StaysLooked DEF Recovered
    <2> QED
      BY <2>1, <2>3, <2>4
  <1>5. CASE w.pc # "stop"
    <2>1. /\ recovered' = recovered
          /\ \/ Proceed(t) \/ StopFails(t)
             \/ w.pc = "signal" /\ th' = [th EXCEPT ![t].pc = "outlast"]
      BY <1>5 DEF Stop, StopChild, LookAgain, Signal, At, Mine
    <2>2. CASE Proceed(t) \/ StopFails(t)
      BY <1>1, <1>2, <1>5, <2>1, <2>2, ProceedsAlong, FailsAlong, LocksStay
    <2>3. CASE w.pc = "signal" /\ th' = [th EXCEPT ![t].pc = "outlast"]
      <3>1. /\ \A u \in Workers : u # t => th'[u] = th[u]
            /\ th'[t].pc = "outlast" /\ th'[t].op = w.op /\ th'[t].was = w.was
            /\ th'[t].rec = w.rec
        BY <1>1, <2>3 DEF Thread
      <3>2. Sure(w)
        BY DEF Looked
      <3>3. GoesAlong(t)
        BY <2>3, <3>1, <3>2
           DEF GoesAlong, Locked, Keeps, Keeping, Stopping, Sure, Killing
      <3> QED
        BY <1>1, <1>2, <1>5, <2>1, <3>3, LocksStay
    <2> QED
      BY <2>1, <2>2, <2>3
  <1> QED
    BY <1>3, <1>4, <1>5

\* Everybody lets go of both locks when he returns.
LEMMA DoneLocks ==
    ASSUME IInv, Looked, NEW t \in Workers, Done(t)
    PROVE  Looked'
  <1>1. /\ th[t].pc = "done" /\ th' = [th EXCEPT ![t] = IdleThread]
        /\ lock' = IF lock = t THEN NoThread ELSE lock
        /\ mutex' = [m \in Managers |-> IF mutex[m] = t THEN NoThread ELSE mutex[m]]
        /\ Forget(Mine(t)) \/ UNCHANGED <<active, retained, recovered>>
    BY DEF Done, At
  <1>2. /\ th \in [Workers -> Thread] /\ lock \in Workers \cup {NoThread}
        /\ recovered \in [Managers -> [Pids -> OrNone]]
        /\ retained \in [Managers -> [Pids -> OrNone]]
        /\ Mine(t) \in Managers
    BY <1>1, Awake DEF IInv, Types, TypeOK, Mine
  <1>3. /\ \A u \in Workers : u # t => th'[u] = th[u]
        /\ th'[t].pc = "idle"
    BY <1>1, <1>2, Idle
  <1>4. LocksInv'
    <2>1. lock' # NoThread => lock' = lock /\ lock # t /\ th'[lock] = th[lock]
      BY <1>1, <1>2, <1>3
    <2>2. \A m \in Managers : mutex'[m] # NoThread => mutex'[m] = mutex[m] /\ mutex[m] # t
      BY <1>1
    <2> QED
      BY <1>1, <2>1, <2>2 DEF LocksInv, Looked
  <1>5. Recovered'
    <2> SUFFICES ASSUME NEW m \in Managers, NEW p \in Pids, recovered'[m][p] # 0
                 PROVE  /\ lock' = lock /\ lock # NoThread /\ th'[lock] = th[lock]
                        /\ recovered'[m][p] = recovered[m][p]
                        /\ retained'[m][p] = retained[m][p]
      BY DEF Looked, Recovered
    <2>1. recovered'[m][p] = recovered[m][p] /\ retained'[m][p] = retained[m][p]
      BY <1>1, <1>2 DEF Forget, NoPids
    <2>2. lock # NoThread /\ th[lock].pc = "stop" /\ lock # t
      BY <1>1, <2>1 DEF Looked, Recovered
    <2> QED
      BY <1>1, <1>2, <1>3, <2>1, <2>2
  <1>6. \A u \in Workers : Sure(th'[u])
    BY <1>3, Sleeps DEF Looked, Sure
  <1> QED
    BY <1>4, <1>5, <1>6 DEF Looked

\* Only he who finds the file lock free takes it; nobody has a mutex then.
LEMMA AcquireLocks ==
    ASSUME IInv, Looked, NEW t \in Workers, Acquire(t)
    PROVE  Looked'
  <1>1. /\ lock = NoThread /\ lock' = t /\ mutex' = mutex /\ th[t].pc = "lock"
        /\ recovered' = recovered /\ Proceed(t)
    BY StillDriver DEF Acquire, At
  <1>2. Types /\ Placed(th[t])
    BY DEF IInv, Duty
  <1>3. \A m \in Managers : mutex[m] = NoThread
    <2>1. \A m \in Managers : mutex[m] \in Workers \cup {NoThread}
      BY <1>2 DEF Types, TypeOK
    <2> QED
      BY <1>1, <2>1 DEF Looked, LocksInv
  <1>4. \/ th[t].todo = <<"look">> \/ th[t].todo = <<"check">>
        \/ th[t].todo = <<"recover">>
    BY <1>1, <1>2, Places DEF Enters
  <1>5. /\ th'[t].pc \in {"look", "check", "recover"}
        /\ \A u \in Workers : u # t => th'[u] = th[u]
    <2>1. th[t].todo # <<>> /\ Head(th[t].todo) \in {"look", "check", "recover"}
      BY <1>4, Heads
    <2> QED
      BY <1>1, <1>2, <2>1, Proceeds
  <1>6. LocksInv'
    BY <1>1, <1>3, <1>5 DEF LocksInv, Locked
  <1>7. Recovered'
    BY <1>1 DEF Looked, Recovered
  <1>8. \A u \in Workers : Sure(th'[u])
    BY <1>5 DEF Looked, Sure, Killing
  <1> QED
    BY <1>6, <1>7, <1>8 DEF Looked

\* A process that is the recorded one is stopped, any other is only struck out.
LEMMA RecoversLocks ==
    ASSUME IInv, Looked, NEW t \in Workers, NEW rec \in AtMostOneOf(Records), rec # <<>>,
           NEW after \in {"spawn", "done"},
           RecoverThen(t, rec, after), th[t].pc \in {"orphan", "recover"},
           lock' = lock, mutex' = mutex
    PROVE  Looked'
  <1> DEFINE w == th[t]
             m == th[t].mgr
             p == rec[1].pid
  <1>1. /\ Types /\ th \in [Workers -> Thread] /\ ~Keeps(w) /\ w.pc \in Locked
        /\ w.pc # "stop" /\ m \in Managers /\ lock = t /\ p \in Pids
    <2>1. ~Keeps(w) /\ w.pc \in Locked /\ w.pc \notin {"stop", "idle"}
      BY DEF Keeps, Keeping, Stopping, Locked
    <2>2. Types /\ m \in Managers /\ lock = t
      BY <2>1, Awake DEF Duty
    <2> QED
      BY <2>1, <2>2, RecordType DEF Types
  <1>2. \A n \in Managers, q \in Pids : recovered[n][q] = 0
    BY <1>1, NoneRecovered
  <1>3. CASE recovered' = recovered /\ GoesAlong(t)
    BY <1>1, <1>3, LocksStay
  <1>4. CASE Return(t) /\ recovered' = recovered
    BY <1>3, <1>4, ReturnsAlong
  <1>5. CASE Follow(t, <<"unrecord", after>>) /\ recovered' = recovered
    <2>1. /\ Head(<<"unrecord", after>>) = "unrecord"
          /\ Tail(<<"unrecord", after>>) \in Seq(Steps)
      BY Heads, Lists DEF Steps
    <2> QED
      BY <1>1, <1>3, <1>5, <2>1, FollowsAlong DEF Locked, Killing
  <1>6. CASE Follow(t, <<"disown", after>>) /\ recovered' = recovered
    <2>1. /\ Head(<<"disown", after>>) = "disown"
          /\ Tail(<<"disown", after>>) \in Seq(Steps)
      BY Heads, Lists DEF Steps
    <2> QED
      BY <1>1, <1>3, <1>6, <2>1, FollowsAlong DEF Locked, Killing
  <1>7. CASE /\ recovered' = IF Identity(m, p) # 0 THEN recovered
                             ELSE [recovered EXCEPT ![m][p] = rec[1].nonce]
             /\ th' = [th EXCEPT ![t].rec = rec, ![t].pid = <<p>>, ![t].pc = "stop",
                                 ![t].todo = <<"unrecord", after>>]
             /\ retained' = Reap(m, p)
    <2>1. /\ \A u \in Workers : u # t => th'[u] = th[u]
          /\ th'[t].pc = "stop" /\ th'[t].rec = rec /\ th'[t].pid = <<p>>
          /\ th'[t].mgr = m
      BY <1>1, <1>7 DEF Thread
    <2>2. GoesAlong(t)
      BY <1>1, <2>1 DEF GoesAlong, Locked, Sure, Killing
    <2>3. Recovered'
      <3>1. CASE Identity(m, p) # 0
        BY <1>2, <1>7, <3>1 DEF Recovered
      <3>2. CASE Identity(m, p) = 0
        <4>1. recovered \in [Managers -> [Pids -> OrNone]]
          BY <1>1 DEF Types, TypeOK
        <4>2. \A n \in Managers, q \in Pids : recovered'[n][q] # 0 =>
                 n = m /\ q = p /\ recovered'[n][q] = rec[1].nonce
          BY <1>1, <1>2, <1>7, <3>2, <4>1
        <4>3. retained'[m][p] = 0
          BY <1>1, <1>7, <3>2, Identities
        <4>4. t # NoThread
          BY LocalRuntimeAssumption DEF Workers
        <4> QED
          BY <1>1, <2>1, <4>2, <4>3, <4>4 DEF Recovered
      <3> QED
        BY <3>1, <3>2
    <2> QED
      BY <2>2, <2>3, StaysLooked
  <1> QED
    BY <1>4, <1>5, <1>6, <1>7 DEF RecoverThen, Mine

LEMMA OrphanLocks ==
    ASSUME IInv, Looked, NEW t \in Workers, Orphan(t)
    PROVE  Looked'
  <1>1. lock' = lock /\ mutex' = mutex /\ th[t].pc = "orphan"
    BY DEF Orphan, At
  <1>2. CASE Named(journal)
    <2>1. journal \in AtMostOneOf(Records) /\ journal # <<>>
      BY <1>2 DEF IInv, Types, TypeOK, Named
    <2> QED
      BY <1>1, <1>2, <2>1, RecoversLocks DEF Orphan
  <1>3. CASE ~Named(journal)
    <2>1. Follow(t, <<"spawn">>) /\ recovered' = recovered
      BY <1>3 DEF Orphan
    <2>2. Head(<<"spawn">>) = "spawn" /\ Tail(<<"spawn">>) \in Seq(Steps)
      BY Heads
    <2>3. ~Keeps(th[t]) /\ th[t].pc \in Locked
      BY <1>1 DEF Keeps, Keeping, Stopping, Locked
    <2>4. GoesAlong(t)
      BY <2>1, <2>2, <2>3, FollowsAlong DEF Locked, Killing
    <2> QED
      BY <1>1, <2>1, <2>3, <2>4, LocksStay
  <1> QED
    BY <1>2, <1>3

\* A stop takes the mutex when it has the file lock, and keeps both.
LEMMA CheckLocks ==
    ASSUME IInv, Looked, NEW t \in Workers, Check(t)
    PROVE  Looked'
  <1>1. /\ th[t].pc = "check" /\ lock' = lock /\ recovered' = recovered
        /\ mutex' = [mutex EXCEPT ![Mine(t)] = t]
    BY DEF Check, At
  <1>2. /\ Types /\ Placed(th[t]) /\ lock = t /\ th[t].pc \in Locked
        /\ th[t].op = "stop" /\ t # NoThread
    BY <1>1, Awake, Places, LocalRuntimeAssumption DEF Duty, Locked, Ends, Workers
  <1>3. /\ \A u \in Workers : u # t => th'[u] = th[u]
        /\ Keeps(th'[t]) /\ th'[t].pc \in {"rewrite", "done"}
    <2>1. CASE Return(t)
      BY <1>2, <2>1, Returns DEF Keeps
    <2>2. CASE ~Return(t)
      <3>1. th' = [th EXCEPT
                     ![t].rec = journal, ![t].pid = <<journal[1].pid>>,
                     ![t].pc = "rewrite",
                     ![t].todo = <<"stop", "unrecord", "drop", "done">>]
        BY <2>2 DEF Check
      <3> QED
        BY <1>2, <3>1 DEF Types, Thread, Keeps, Keeping
    <2> QED
      BY <2>1, <2>2
  <1>4. \A m \in Managers : mutex'[m] # NoThread => mutex'[m] = t
    <2>1. mutex \in [Managers -> Workers \cup {NoThread}]
      BY <1>2 DEF Types, TypeOK
    <2>2. \A m \in Managers : mutex[m] # NoThread => mutex[m] = t
      BY <1>2 DEF Looked, LocksInv
    <2> QED
      BY <1>1, <2>1, <2>2
  <1>5. LocksInv'
    BY <1>1, <1>2, <1>3, <1>4 DEF LocksInv, Locked
  <1>6. Recovered'
    BY <1>1, <1>2, NoneRecovered DEF Recovered
  <1>7. \A u \in Workers : Sure(th'[u])
    BY <1>3 DEF Looked, Sure, Killing
  <1> QED
    BY <1>5, <1>6, <1>7 DEF Looked

\* Whatever a start decides, it keeps the file lock or returns.
LEMMA JudgeLocks ==
    ASSUME IInv, Looked, NEW t \in Workers, Judge(t)
    PROVE  Looked'
  <1> DEFINE w == th[t]
             status     == w.seen[1]
             identity   == Identity(Mine(t), status.pid)
             ownsRecord == Matches(journal, w.seen)
             ownsProcess == Named(journal) /\ identity = journal[1].nonce
             same       == <<status.inst>> = w.inst
             sameApp    == AppOf[status.inst] = AppOf[w.inst[1]]
             plan       ==
               CASE same /\ ownsRecord /\ ownsProcess -> <<"done">>
                 [] same /\ ~(ownsRecord /\ ownsProcess) ->
                      <<"clear", "unrecord", "orphan">>
                 [] ~same /\ sameApp /\ ownsRecord /\ ownsProcess ->
                      <<"rewrite", "stop", "unrecord", "clear", "orphan">>
                 [] ~same /\ sameApp /\ ownsRecord /\ ~ownsProcess /\ identity = 0 ->
                      <<"unrecord", "clear", "orphan">>
                 [] OTHER -> <<"done">>
  <1>1. /\ w.pc = "judge" /\ lock' = lock /\ mutex' = mutex /\ recovered' = recovered
        /\ \/ th' = [th EXCEPT ![t].rec = journal, ![t].pid = <<status.pid>>,
                               ![t].pc = Head(plan), ![t].todo = Tail(plan)]
           \/ Return(t)
    BY DEF Judge, At
  <1>2. w.pc \in Locked /\ ~Keeps(w)
    <2>1. Judges(w)
      BY <1>1, Awake, Places DEF Duty
    <2> QED
      BY <1>1, <2>1 DEF Locked, Keeps, Keeping, Stopping
  <1>3. CASE Return(t)
    BY <1>1, <1>2, <1>3, ReturnsAlong, LocksStay
  <1>4. CASE th' = [th EXCEPT ![t].rec = journal, ![t].pid = <<status.pid>>,
                              ![t].pc = Head(plan), ![t].todo = Tail(plan)]
    <2>1. \/ plan = <<"done">> \/ plan = <<"clear", "unrecord", "orphan">>
          \/ plan = <<"rewrite", "stop", "unrecord", "clear", "orphan">>
          \/ plan = <<"unrecord", "clear", "orphan">>
      OBVIOUS
    <2> HIDE DEF plan
    <2>2. Head(plan) \in {"done", "clear", "rewrite", "unrecord"}
      BY <2>1, Heads
    <2>3. (\A u \in Workers : u # t => th'[u] = th[u]) /\ th'[t].pc = Head(plan)
      BY <1>4 DEF IInv, Types, Thread
    <2>4. GoesAlong(t)
      BY <1>2, <2>2, <2>3 DEF GoesAlong, Locked, Sure, Killing
    <2> QED
      BY <1>1, <1>2, <2>4, LocksStay
  <1> QED
    BY <1>1, <1>3, <1>4

LEMMA SpawnLocks ==
    ASSUME IInv, Looked, NEW t \in Workers, Spawn(t)
    PROVE  Looked'
  <1> DEFINE n == spawned'
  <1>1. /\ th[t].pc = "spawn" /\ lock' = lock /\ mutex' = mutex
        /\ recovered' = recovered /\ th[t].pc \in Locked /\ ~Keeps(th[t])
    BY DEF Spawn, At, Locked, Keeps, Keeping, Stopping
  <1>2. CASE Return(t)
    BY <1>1, <1>2, ReturnsAlong, LocksStay
  <1>3. CASE \E p \in Pids :
                th' = [th EXCEPT
                     ![t].pid = <<p>>, ![t].nonce = n,
                     ![t].rec = <<[inst |-> th[t].inst[1], pid |-> p, nonce |-> n]>>,
                     ![t].pc = "record",
                     ![t].todo = <<"announce", "await", "ready", "publish", "done">>]
    <2>1. /\ \A u \in Workers : u # t => th'[u] = th[u]
          /\ th'[t].pc = "record"
      BY <1>3 DEF IInv, Types, Thread
    <2>2. GoesAlong(t)
      BY <1>1, <2>1 DEF GoesAlong, Locked, Sure, Killing
    <2> QED
      BY <1>1, <2>2, LocksStay
  <1> QED
    BY <1>2, <1>3 DEF Spawn

\* A failing start goes on to its rollback.
LEMMA TailLocks ==
    ASSUME IInv, Looked, NEW t \in Workers, Record(t) \/ Await(t)
    PROVE  Looked'
  <1>1. /\ lock' = lock /\ mutex' = mutex /\ recovered' = recovered
        /\ th[t].pc \in {"record", "ready", "await"}
    BY StillDriver DEF Record, WriteOr, Await, At
  <1>2. Proceed(t) \/ Follow(t, Rollback) \/ Follow(t, <<"stop", "done">>)
    BY DEF Record, WriteOr, Await
  <1>3. /\ Head(Rollback) = "clear" /\ Tail(Rollback) \in Seq(Steps)
        /\ Head(<<"stop", "done">>) = "stop" /\ Tail(<<"stop", "done">>) \in Seq(Steps)
    BY Heads, Lists DEF Rollback, Steps
  <1>4. th[t].pc \in Locked /\ th[t].pc # "stop" /\ ~Keeps(th[t])
    BY <1>1 DEF Locked, Keeps, Keeping, Stopping
  <1>5. GoesAlong(t)
    BY <1>1, <1>2, <1>3, <1>4, ProceedsAlong, FollowsAlong DEF Locked, Killing
  <1> QED
    BY <1>1, <1>4, <1>5, LocksStay

\* A status holds neither lock, and what it finds in the driver it only reaps.
LEMMA StatusLocks ==
    ASSUME IInv, Looked, NEW t \in Workers,
           Peek(t) \/ Load(t) \/ Verify(t) \/ StatusClear(t) \/ StatusRemove(t)
    PROVE  Looked'
  <1>1. /\ lock' = lock /\ mutex' = mutex /\ recovered' = recovered
        /\ th[t].pc \in {"peek", "load", "verify", "statusClear", "statusRemove"}
    BY StillDriver DEF Peek, Load, Verify, StatusClear, StatusRemove, At
  <1>2. th[t].pc \notin Locked \cup {"done", "stop"} /\ ~Keeps(th[t])
    BY <1>1 DEF Locked, Keeps, Keeping, Stopping
  <1>3. Types /\ Duty(t) /\ th[t].mgr \in Managers
    BY <1>1, Awake
  <1>4. \A m \in Managers, p \in Pids : retained[m][p] = 0 => retained'[m][p] = 0
    <2>1. CASE Verify(t)
      <3>1. th[t].pc = "verify"
        BY <2>1 DEF Verify, At
      <3>2. Asks(th[t])
        BY <1>3, <3>1, Places DEF Duty
      <3>3. th[t].seen[1].pid \in Pids
        <4>1. th[t].seen \in AtMostOneOf(Statuses) /\ th[t].seen # <<>>
          BY <1>3, <3>1, <3>2, ThreadType DEF Asks
        <4> QED
          BY <4>1, Singles DEF Statuses
      <3> QED
        BY <1>3, <2>1, <3>3, Identities DEF Verify, Mine
    <2>2. CASE ~Verify(t)
      BY <2>2, StillDriver DEF Peek, Load, StatusClear, StatusRemove
    <2> QED
      BY <2>1, <2>2
  <1>5. /\ \A u \in Workers : u # t => th'[u] = th[u]
        /\ th'[t].pc \in Steps \ Killing
    <2>1. th \in [Workers -> Thread]
      BY <1>3 DEF Types
    <2>2. CASE Return(t)
      BY <1>3, <2>2, Returns DEF Steps, Killing
    <2>3. CASE Follow(t, <<"statusClear">>) \/ Follow(t, <<"statusRemove">>)
      <3>1. /\ Head(<<"statusClear">>) = "statusClear"
            /\ Head(<<"statusRemove">>) = "statusRemove"
            /\ Tail(<<"statusClear">>) \in Seq(Steps)
            /\ Tail(<<"statusRemove">>) \in Seq(Steps)
        BY Heads
      <3> QED
        BY <1>3, <2>3, <3>1, Follows DEF Steps, Killing
    <2>4. CASE \/ th' = [th EXCEPT ![t].seen = Shown(t), ![t].pc = "load"]
               \/ th' = [th EXCEPT ![t].rec = journal, ![t].pc = "verify"]
      BY <2>1, <2>4 DEF Thread, Steps, Killing
    <2>5. \/ Return(t) \/ Follow(t, <<"statusClear">>) \/ Follow(t, <<"statusRemove">>)
          \/ th' = [th EXCEPT ![t].seen = Shown(t), ![t].pc = "load"]
          \/ th' = [th EXCEPT ![t].rec = journal, ![t].pc = "verify"]
      BY DEF Peek, Load, Verify, StatusClear, StatusRemove, Return
    <2> QED
      BY <2>2, <2>3, <2>4, <2>5
  <1>6. GoesAlong(t)
    BY <1>2, <1>5 DEF GoesAlong, Sure
  <1> QED
    BY <1>1, <1>2, <1>4, <1>6, LocksStay

LEMMA WorkLocks ==
    ASSUME IInv, Looked, NEW t \in Workers, Work(t)
    PROVE  Looked'
  <1>1. CASE Look(t)
    <2>1. /\ \A u \in Workers : u # t => th'[u] = th[u]
          /\ lock' = lock /\ mutex' = mutex /\ recovered' = recovered
          /\ th[t].pc = "look" /\ th'[t].pc \in {"orphan", "judge"}
      BY <1>1, StillDriver DEF IInv, Types, Look, At, Thread
    <2>2. th[t].pc \in Locked /\ ~Keeps(th[t])
      BY <2>1 DEF Locked, Keeps, Keeping, Stopping
    <2>3. GoesAlong(t)
      BY <2>1, <2>2 DEF GoesAlong, Locked, Sure, Killing
    <2> QED
      BY <2>1, <2>2, <2>3, LocksStay
  <1>2. CASE \/ Clear(t) \/ Rewrite(t) \/ Unrecord(t) \/ Disown(t) \/ Publish(t)
             \/ Drop(t)
    <2>1. /\ lock' = lock /\ mutex' = mutex /\ recovered' = recovered
          /\ Proceed(t) \/ Return(t)
      BY <1>2, StillDriver
         DEF Clear, Rewrite, Unrecord, Disown, Publish, PublishEntry, Drop, Failed
    <2>2. th[t].pc \in {"clear", "rewrite", "unrecord", "disown", "announce",
                        "publish", "drop"}
      BY <1>2 DEF Clear, Rewrite, Unrecord, Disown, Publish, PublishEntry, Drop, At
    <2>3. th[t].pc \in Locked /\ th[t].pc # "stop"
      BY <2>2 DEF Locked
    <2>4. GoesAlong(t)
      BY <2>1, <2>2, ProceedsAlong, ReturnsAlong
    <2> QED
      BY <2>1, <2>3, <2>4, LocksStay
  <1> QED
    BY <1>1, <1>2, AcquireLocks, JudgeLocks, StopLocks, OrphanLocks, SpawnLocks,
       TailLocks, CheckLocks, StatusLocks, DoneLocks
    DEF Work

\* A thread that was idle begins.
LEMMA BeginsLocks ==
    ASSUME IInv, Looked, NEW t \in Workers, th[t].pc = "idle", th'[t].pc \notin Killing,
           \A u \in Workers : u # t => th'[u] = th[u],
           lock' = lock, mutex' = mutex, recovered' = recovered, retained' = retained
    PROVE  Looked'
  <1>1. GoesAlong(t)
    BY Sleeps DEF GoesAlong, Sure, Keeps, Locked, Keeping, Stopping
  <1> QED
    BY <1>1, LocksStay

LEMMA LocksNext == IInv /\ Looked /\ [Next]_vars => Looked'
  <1> SUFFICES ASSUME IInv, Looked, [Next]_vars PROVE Looked'
    OBVIOUS
  <1>1. /\ th \in [Workers -> Thread] /\ Main \in Workers
        /\ Threads \subseteq Workers
    BY DEF IInv, Types, Workers
  <1>2. ASSUME NEW t \in Threads, NEW i,
               RequestStatus(t) \/ Start(t, i) \/ RequestStop(t, i)
        PROVE  Looked'
    <2>1. /\ t \in Workers /\ th[t].pc = "idle" /\ lock' = lock /\ mutex' = mutex
          /\ recovered' = recovered /\ retained' = retained
      BY <1>1, <1>2, StillDriver DEF RequestStatus, Start, RequestStop, At
    <2>2. /\ \A u \in Workers : u # t => th'[u] = th[u]
          /\ th'[t].pc \in {"peek", "lock"}
      BY <1>1, <1>2, <2>1 DEF RequestStatus, Start, RequestStop, Thread
    <2> QED
      BY <2>1, <2>2, BeginsLocks DEF Killing
  <1>3. CASE Boot \/ Drained
    <2>1. /\ lock' = lock /\ mutex' = mutex /\ recovered' = recovered
          /\ retained' = retained /\ \E m : th' = StartReconcile(m)
      BY <1>3, StillDriver DEF Boot, Drained
    <2>2. th[Main].pc = "idle"
      <3>1. server \notin {"booting", "closing"}
        BY <1>3 DEF Boot, Drained
      <3> QED
        BY <3>1, Idle DEF IInv, Turns
    <2>3. /\ \A u \in Workers : u # Main => th'[u] = th[u]
          /\ th'[Main].pc = "list"
      BY <1>1, <2>1 DEF StartReconcile, Thread
    <2> QED
      BY <1>1, <2>1, <2>2, <2>3, BeginsLocks DEF Killing
  <1>4. CASE Reconcile
    <2>1. CASE At(Main, "list")
      <3>1. /\ lock' = lock /\ mutex' = mutex /\ recovered' = recovered
            /\ retained' = retained /\ th[Main].pc = "list"
            /\ th' = [th EXCEPT ![Main].rec = journal,
                                ![Main].pc = IF Named(journal) THEN "lock" ELSE "done",
                                ![Main].todo = <<"recover">>]
        BY <1>4, <2>1, StillDriver DEF Reconcile, At
      <3>2. /\ \A u \in Workers : u # Main => th'[u] = th[u]
            /\ th'[Main].pc \in {"lock", "done"}
        BY <1>1, <3>1 DEF Thread
      <3>3. GoesAlong(Main)
        BY <3>1, <3>2 DEF GoesAlong, Locked, Sure, Killing, Keeps, Keeping, Stopping
      <3> QED
        BY <1>1, <3>1, <3>3, LocksStay
    <2>2. CASE At(Main, "recover")
      <3>1. /\ RecoverThen(Main, th[Main].rec, "done")
            /\ lock' = lock /\ mutex' = mutex /\ th[Main].pc = "recover"
        BY <1>4, <2>2 DEF Reconcile, At
      <3>2. Types /\ Sweeps(th[Main])
        BY <1>1, <3>1, Awake, Places DEF Duty
      <3>3. th[Main].rec \in AtMostOneOf(Records) /\ th[Main].rec # <<>>
        BY <1>1, <3>1, <3>2, ThreadType DEF Sweeps, Stopping
      <3> QED
        BY <1>1, <3>1, <3>3, RecoversLocks
    <2> QED
      BY <1>4, <2>1, <2>2 DEF Reconcile
  <1>5. CASE Crash
    <2>1. /\ lock' = NoThread /\ \A m \in Managers : mutex'[m] = NoThread
          /\ \A u \in Workers : th'[u].pc = "idle"
          /\ \A m \in Managers, p \in Pids : recovered'[m][p] = 0
      BY <1>5, Idle DEF Crash, NoPids
    <2> QED
      BY <2>1, Sleeps DEF Looked, LocksInv, Recovered, Sure
  <1>6. CASE UNCHANGED <<th, lock, mutex, recovered, retained>>
    BY <1>6 DEF Looked, LocksInv, Recovered
  <1> QED
    BY <1>2, <1>3, <1>4, <1>5, <1>6, WorkLocks, StillDriver
    DEF Next, vars, Close, DrainTimesOut, RuntimeExits, StrangerComesOrGoes

LEMMA Locks == Spec => [](IInv /\ Looked)
  <1>1. Init => Looked
    <2> SUFFICES ASSUME Init PROVE Looked
      OBVIOUS
    <2>1. /\ lock = NoThread /\ \A m \in Managers : mutex[m] = NoThread
          /\ \A u \in Workers : th[u].pc = "idle"
          /\ \A m \in Managers, p \in Pids : recovered[m][p] = 0
      BY Idle DEF Init, NoPids
    <2> QED
      BY <2>1, Sleeps DEF Looked, LocksInv, Recovered, Sure
  <1> QED
    BY <1>1, Invariant, LocksNext, PTL DEF Spec

LEMMA HoldersFree == IInv /\ Looked => HoldersGo
  <1> SUFFICES ASSUME IInv, Looked, NEW t \in Workers, Holds(t)
               PROVE  Goes(t)
    BY DEF HoldersGo
  <1>1. t # NoThread
    BY LocalRuntimeAssumption DEF Workers
  <1>2. lock = t /\ th[t].pc \in Locked \cup {"done"}
    BY <1>1 DEF Holds, Looked, LocksInv
  <1>3. th[t].pc \notin {"idle", "lock"}
    BY <1>2 DEF Locked
  <1>4. MapFree(t)
    <2>1. Mine(t) \in Managers /\ mutex[Mine(t)] \in Workers \cup {NoThread}
      BY <1>3, Awake DEF Mine, Types, TypeOK
    <2> QED
      BY <1>2, <2>1 DEF MapFree, Looked, LocksInv
  <1> QED
    BY <1>3, <1>4 DEF Goes, Waits, At

\* Only a stop that is past its look ends a process that is not the manager's.
LEMMA StrangersEnd ==
    ASSUME IInv, Looked, [Next]_vars, NEW p \in Pids, StrangerEnds(p)
    PROVE  \/ th' = th
           \/ \E t \in Workers :
                 /\ th[t].pid = <<p>> /\ th'[t] # th[t]
                 /\ th[t].rec # <<>> /\ th[t].was = th[t].rec[1].nonce
  <1>1. os[p] = Stranger /\ os'[p] # os[p] /\ os' # os
        /\ os \in [Pids -> OrNone \cup {Stranger}]
    BY DEF StrangerEnds, IInv, Types, TypeOK
  <1>2. ASSUME NEW t \in Workers, Spawn(t) PROVE FALSE
    BY <1>1, <1>2, NoStranger DEF Spawn, Free
  <1>3. ASSUME NEW t \in Workers, Stop(t)
        PROVE  /\ th[t].pid = <<p>> /\ th'[t] # th[t]
               /\ th[t].rec # <<>> /\ th[t].was = th[t].rec[1].nonce
    <2>1. th[t].pc \in Stopping /\ th \in [Workers -> Thread]
      BY <1>3 DEF Stop, StopChild, LookAgain, Signal, At, Stopping, IInv, Types
    <2>2. /\ th[t].pid = <<th[t].pid[1]>> /\ th[t].held \in OrNone /\ Types
          /\ th[t].pid[1] \in Pids
      BY <2>1, AtStop, ThreadType
    <2>3. ~StopChild(t)
      BY <1>1, <2>2, NoStranger DEF StopChild
    <2>4. Signal(t)
      BY <1>1, <1>3, <2>3 DEF Stop
    <2>5. th[t].pc \in Killing
      BY <2>4 DEF Signal, At, Killing
    <2>6. p = th[t].pid[1]
      BY <1>1, <2>2, <2>4 DEF Signal
    <2>7. th'[t] # th[t]
      <3>1. CASE th[t].pc = "signal" /\ th' = [th EXCEPT ![t].pc = "outlast"]
        BY <2>1, <3>1 DEF Thread
      <3>2. CASE Proceed(t) \/ StopFails(t)
        <4>1. th'[t].pc \notin Killing
          BY <2>1, <3>2, ProceedsAlong, FailsAlong
        <4> QED
          BY <2>5, <4>1
      <3> QED
        BY <2>4, <3>1, <3>2 DEF Signal, At
    <2> QED
      BY <2>2, <2>5, <2>6, <2>7 DEF Looked, Sure
  <1>4. ASSUME NEW t \in Workers, Work(t), ~Spawn(t), ~Stop(t) PROVE FALSE
    BY <1>1, <1>4, StillDriver
    DEF Work, Acquire, Look, Judge, Clear, Rewrite, Unrecord, Orphan, Record, WriteOr,
        Publish, PublishEntry, Await, Disown, Check, Drop, Peek, Load, Verify,
        StatusClear, StatusRemove, Done
  <1>5. ASSUME NEW t \in Threads, NEW i,
               RequestStatus(t) \/ Start(t, i) \/ RequestStop(t, i)
        PROVE  FALSE
    BY <1>1, <1>5, StillDriver DEF RequestStatus, Start, RequestStop
  <1>6. CASE Reconcile \/ Boot \/ Close \/ Drained \/ DrainTimesOut \/ Crash
    BY <1>1, <1>6, StillDriver
    DEF Reconcile, Boot, Close, Drained, DrainTimesOut, Crash
  <1>7. CASE \E q \in Pids : RuntimeExits(q) \/ StrangerComesOrGoes(q)
    BY <1>7 DEF RuntimeExits, StrangerComesOrGoes
  <1> QED
    BY <1>1, <1>2, <1>3, <1>4, <1>5, <1>6, <1>7 DEF Next, vars

\* Nobody else's process is ended by any stop of a manager, whatever pids are
\* used again and whenever, but for one whose owner took over the pid of a
\* recorded runtime after a stop had looked at it and found it to be that
\* runtime (process_driver.rs, stop_recovered_child).
THEOREM StrangersLive == Spec => OnlyLateStrangers
  <1>1. IInv /\ Looked /\ [Next]_vars =>
           [\A p \in Pids : StrangerEnds(p) =>
              \/ th' = th
              \/ \E t \in Workers :
                    /\ th[t].pid = <<p>> /\ th'[t] # th[t]
                    /\ th[t].rec # <<>> /\ th[t].was = th[t].rec[1].nonce]_vars
    BY StrangersEnd
  <1> QED
    BY <1>1, Locks, PTL DEF Spec, OnlyLateStrangers

\* No thread of any manager, however many there are, waits for a lock whose holder
\* waits: not a start or a stop that has the file lock and needs the map's mutex,
\* nor a stop that keeps the mutex (manager.rs, start and stop).
THEOREM HoldersNeverWait == Spec => []HoldersGo
  BY HoldersFree, Locks, PTL

\* Whoever waits, waits for somebody else, who holds the lock and can go on: the
\* file lock and the mutexes close no circle, and a status that takes the mutex
\* without the file lock (manager.rs, status) does not either.
THEOREM WaitsEnd == Spec => []WaitsForHolder
  <1>1. IInv /\ Looked => WaitsForHolder
    <2> SUFFICES ASSUME IInv, Looked, NEW t \in Workers, Waits(t)
                 PROVE  \E u \in Workers \ {t} : Holds(u) /\ Goes(u)
      BY DEF WaitsForHolder
    <2>1. ~Goes(t)
      BY DEF Goes
    <2>2. \E u \in Workers : Holds(u)
      <3>1. CASE At(t, "lock") /\ lock # NoThread
        BY <3>1 DEF IInv, Types, TypeOK, Holds
      <3>2. CASE th[t].pc \in MapSteps /\ ~MapFree(t)
        <4>1. th[t].pc # "idle"
          BY <3>2 DEF MapSteps
        <4>2. Mine(t) \in Managers /\ mutex[Mine(t)] \in Workers \cup {NoThread}
          BY <4>1, Awake DEF Mine, Types, TypeOK
        <4> QED
          BY <3>2, <4>2 DEF MapFree, Holds
      <3> QED
        BY <3>1, <3>2 DEF Waits
    <2> QED
      BY <2>1, <2>2, HoldersFree DEF HoldersGo
  <1> QED
    BY <1>1, Locks, PTL
=============================================================================
