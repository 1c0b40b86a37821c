----------------------------- MODULE HarnessRun -----------------------------
(***************************************************************************)
(* Turns of one coding conversation (routes/harness.py, harness/manager.py,*)
(* harness/events.py, harness/run_registry.py): a request passes a guard   *)
(* and starts a turn as a background task; the turn publishes events on a  *)
(* bus of its own, settles its row and ends its streams; clients follow it,*)
(* come back to it, or stop it.                                            *)
(*                                                                         *)
(* An action is what a coroutine does between two suspensions.  A request  *)
(* makes a thread of its own for its turn, so events are numbered from one *)
(* and the whole history of a run is in memory.  What an adapter shows of  *)
(* an event, and the rows that keep events for later, are left out.        *)
(***************************************************************************)
EXTENDS Naturals, Sequences, FiniteSets, SequencesExt

CONSTANTS
    Turns,      \* requests of the conversation
    Unbound,    \* those made before the conversation has an id
    Watched,    \* those whose client reads the response to its end
    Clients,    \* clients that attach
    After,      \* the after_seq of a client: of this run, or of an earlier one
    MaxItems,   \* bound: events a turn publishes besides the first and the last
    QueueSize,  \* maxsize of a subscriber's queue
    NoTurn

ASSUME HarnessAssumption ==
    /\ Unbound \subseteq Turns /\ Watched \subseteq Turns /\ NoTurn \notin Turns
    /\ Turns \cap Clients = {}
    /\ After \subseteq Nat
    /\ MaxItems \in Nat /\ QueueSize \in Nat \ {0}

VARIABLES
    registry,  \* run_registry: the turn of the conversation's handle
    turn,      \* requests, their tasks and buses
    row,       \* harness_turns.status
    stream,    \* event streams: the one of each request, and those attached
    alone      \* history: no two turns have run at the same time

vars == <<registry, turn, row, stream, alone>>

Streams  == Watched \cup Clients
Sentinel == 0
MaxSeq   == MaxItems + 2

\* A task is at one of these awaits, or has not begun, or is over.
Running == {"ready", "working", "settling", "announcing", "failing",
            "lamenting", "closing", "saving"}
Open    == Running \ {"saving"}

NoStream == [state |-> "out", of |-> NoTurn, from |-> 0, todo |-> <<>>,
             queue |-> <<>>, got |-> <<>>, dropped |-> {}]

TypeOK ==
    /\ registry \in Turns \cup {NoTurn}
    /\ turn \in [Turns -> [pc : {"idle", "posting", "over"} \cup Running,
                           bound : BOOLEAN, cancelled : BOOLEAN,
                           seq : 0..MaxSeq, last : 0..MaxSeq]]
    /\ row \in [Turns -> {"none", "running", "completed", "failed"}]
    /\ \A s \in Streams :
          /\ stream[s].state \in {"out", "in", "over", "left"}
          /\ stream[s].of \in Turns \cup {NoTurn}
          /\ stream[s].queue \in Seq(0..MaxSeq) /\ Len(stream[s].queue) <= QueueSize
          /\ stream[s].todo \in Seq(1..MaxSeq) /\ stream[s].got \in Seq(1..MaxSeq)
          /\ stream[s].from \in After \cup {0} /\ stream[s].dropped \subseteq 1..MaxSeq
    /\ alone \in BOOLEAN

Init ==
    /\ registry = NoTurn
    /\ turn = [t \in Turns |-> [pc |-> "idle", bound |-> t \notin Unbound,
                                cancelled |-> FALSE, seq |-> 0, last |-> 0]]
    /\ row = [t \in Turns |-> "none"]
    /\ stream = [s \in Streams |-> NoStream]
    /\ alone = TRUE

-----------------------------------------------------------------------------
(***************************************************************************)
(* The request.                                                            *)
(***************************************************************************)
IsRunning == registry # NoTurn /\ turn[registry].pc # "over"

At(t, pc)   == turn[t].pc = pc
Goto(t, pc) == turn' = [turn EXCEPT ![t].pc = pc]

\* The guard of _start_coding_turn_sse; the rows of the thread and of the turn
\* are committed after it.  A request whose statements fail starts nothing.
Post(t) ==
    /\ At(t, "idle")
    /\ turn[t].bound => ~IsRunning
    /\ Goto(t, "posting")
    /\ UNCHANGED <<registry, row, stream, alone>>

\* start_turn() after its last await: subscribe, create the task, register it.
Launch(t) ==
    /\ At(t, "posting")
    /\ Goto(t, "ready")
    /\ row' = [row EXCEPT ![t] = "running"]
    /\ registry' = IF turn[t].bound THEN t ELSE registry
    /\ stream' = [s \in Streams |-> IF s = t THEN [NoStream EXCEPT
                         !.state = "in", !.of = t] ELSE stream[s]]
    /\ alone' = (alone /\ \A u \in Turns \ {t} : turn[u].pc \notin Running)

-----------------------------------------------------------------------------
(***************************************************************************)
(* The bus.  A subscriber is a stream that has joined and not left.        *)
(***************************************************************************)
Subscribed(s, t) == stream[s].of = t /\ stream[s].state = "in"
\* A bug: one entry too many.
HasRoom_OffByOne(s) == Len(stream[s].queue) <= QueueSize
HasRoom(s)       == Len(stream[s].queue) < QueueSize

\* Every subscriber gets the entry, unless its queue is full.
Broadcast(t, entry) ==
    stream' = [s \in Streams |->
        CASE Subscribed(s, t) /\ HasRoom(s) ->
               [stream[s] EXCEPT !.queue = Append(@, entry)]
          [] Subscribed(s, t) /\ ~HasRoom(s) /\ entry # Sentinel ->
               [stream[s] EXCEPT !.dropped = @ \cup {entry}]
          [] OTHER -> stream[s]]

\* publish(), up to the await that stores the event.
Publish(t, pc, binds, isLast) ==
    /\ turn' = [turn EXCEPT ![t].pc = pc, ![t].seq = @ + 1,
                            ![t].bound = @ \/ binds,
                            ![t].last = IF isLast THEN turn[t].seq + 1 ELSE @]
    /\ Broadcast(t, turn[t].seq + 1)

-----------------------------------------------------------------------------
(***************************************************************************)
(* The background task.                                                    *)
(***************************************************************************)
Resumes(t, pc) == At(t, pc) /\ ~turn[t].cancelled

Begin(t) ==
    /\ Resumes(t, "ready")
    /\ Publish(t, "working", FALSE, FALSE)
    /\ UNCHANGED <<registry, row, alone>>

\* An event of the profile; one that names the conversation binds the turn to it.
Emit(t) ==
    /\ Resumes(t, "working")
    /\ turn[t].seq <= MaxItems
    /\ \E binds \in BOOLEAN : Publish(t, "working", binds, FALSE)
    /\ UNCHANGED <<registry, row, alone>>

WorkEnds(t) ==
    /\ Resumes(t, "working")
    /\ Goto(t, "settling") \/ Goto(t, "failing")
    /\ UNCHANGED <<registry, row, stream, alone>>

\* The status is committed; a commit that raises may have reached the row.
Settle(t, from, status, committed, raised) ==
    /\ Resumes(t, from)
    /\ \/ row' = [row EXCEPT ![t] = status] /\ Goto(t, committed)
       \/ row' \in {row, [row EXCEPT ![t] = status]} /\ Goto(t, raised)
    /\ UNCHANGED <<registry, stream, alone>>

Complete(t) == Settle(t, "settling", "completed", "announcing", "failing")
\* A bug: the failure is announced even if it could not be stored.
Fail_Swallows(t) == Settle(t, "failing", "failed", "lamenting", "lamenting")
Fail(t)     == Settle(t, "failing", "failed", "lamenting", "closing")

\* turn.completed or turn.failed, after the commit.
Announce(t) ==
    /\ Resumes(t, "announcing") \/ Resumes(t, "lamenting")
    /\ Publish(t, "closing", FALSE, TRUE)
    /\ UNCHANGED <<registry, row, alone>>

\* The finally clause up to its await: the sentinel, and the conversation's
\* entry, whoever is registered there.
Close(t) ==
    /\ At(t, "closing")
    /\ turn' = [turn EXCEPT ![t].pc = "saving", ![t].cancelled = FALSE]
    /\ Broadcast(t, Sentinel)
    /\ registry' = IF turn[t].bound THEN NoTurn ELSE registry
    /\ UNCHANGED <<row, alone>>

\* thread.last_seq; a failure is swallowed.
Save(t) ==
    /\ At(t, "saving")
    /\ Goto(t, "over")
    /\ UNCHANGED <<registry, row, stream, alone>>

\* A cancellation is raised at the await the task stands at; the commit it
\* interrupts may have reached the row.  A task that has not begun never enters
\* its try block.
Cancelled(t) ==
    /\ turn[t].cancelled
    /\ \/ At(t, "ready") /\ Goto(t, "over") /\ UNCHANGED row
       \/ /\ turn[t].pc \in {"working", "settling", "announcing", "failing",
                             "lamenting"}
          /\ Goto(t, "closing")
          /\ \/ UNCHANGED row
             \/ At(t, "settling") /\ row' = [row EXCEPT ![t] = "completed"]
             \/ At(t, "failing") /\ row' = [row EXCEPT ![t] = "failed"]
    /\ UNCHANGED <<registry, stream, alone>>

\* A bug: the stop button takes the run out of the registry itself.
Stop_Unregisters ==
    /\ IsRunning
    /\ ~turn[registry].cancelled
    /\ turn' = [turn EXCEPT ![registry].cancelled = TRUE]
    /\ registry' = NoTurn
    /\ UNCHANGED <<row, stream, alone>>

\* coding_stop()
Stop ==
    /\ IsRunning
    /\ ~turn[registry].cancelled
    /\ turn' = [turn EXCEPT ![registry].cancelled = TRUE]
    /\ UNCHANGED <<registry, row, stream, alone>>

-----------------------------------------------------------------------------
(***************************************************************************)
(* Streams.  attach_stream() joins the bus and reads the history in one    *)
(* step; run-status, which a client asks first, changes nothing.           *)
(***************************************************************************)
Attach(c) ==
    /\ stream[c].state = "out"
    /\ IsRunning
    /\ \E k \in After :
          stream' = [stream EXCEPT
              ![c].state = "in", ![c].of = registry, ![c].from = k,
              ![c].todo = [i \in 1..(IF k < turn[registry].seq
                                     THEN turn[registry].seq - k ELSE 0) |-> k + i]]
    /\ UNCHANGED <<registry, turn, row, alone>>

Replay(s) ==
    /\ stream[s].state = "in" /\ stream[s].todo # <<>>
    /\ stream' = [stream EXCEPT ![s].got = Append(@, Head(stream[s].todo)),
                                ![s].todo = Tail(@)]
    /\ UNCHANGED <<registry, turn, row, alone>>

\* A bug: the number the client asked for is forgotten.
Seen_FromStart(s) == IF stream[s].got = <<>> THEN 0 ELSE Last(stream[s].got)
Seen(s) == IF stream[s].got = <<>> THEN stream[s].from ELSE Last(stream[s].got)

\* The stream of a request ends with the last event, an attached one does not.
IsLast(s, entry) == s \in Turns /\ entry = turn[stream[s].of].last

\* The stream unsubscribes and its queue is gone.
Closed(s, state) ==
    [stream[s] EXCEPT !.state = state, !.queue = <<>>, !.todo = <<>>]

Follow(s) ==
    /\ stream[s].state = "in" /\ stream[s].todo = <<>> /\ stream[s].queue # <<>>
    /\ LET entry == Head(stream[s].queue)
           rest  == Tail(stream[s].queue)
       IN  stream' = [stream EXCEPT ![s] =
             CASE entry = Sentinel -> Closed(s, "over")
               [] entry # Sentinel /\ entry <= Seen(s) -> [@ EXCEPT !.queue = rest]
               [] entry > Seen(s) /\ IsLast(s, entry) ->
                    [Closed(s, "over") EXCEPT !.got = Append(@, entry)]
               [] entry > Seen(s) /\ ~IsLast(s, entry) ->
                    [@ EXCEPT !.queue = rest, !.got = Append(@, entry)]]
    /\ UNCHANGED <<registry, turn, row, alone>>

\* A bug: a heartbeat is sent whether or not the task is done.
TimeOut_Heartbeat(s) ==
    /\ stream[s].state = "in" /\ stream[s].todo = <<>> /\ stream[s].queue = <<>>
    /\ UNCHANGED vars

\* Nothing has come for a second: a heartbeat, or the end if the task is done.
TimeOut(s) ==
    /\ stream[s].state = "in" /\ stream[s].todo = <<>> /\ stream[s].queue = <<>>
    /\ At(stream[s].of, "over")
    /\ stream' = [stream EXCEPT ![s] = Closed(s, "over")]
    /\ UNCHANGED <<registry, turn, row, alone>>

Disconnect(s) ==
    /\ stream[s].state = "in"
    /\ stream' = [stream EXCEPT ![s] = Closed(s, "left")]
    /\ UNCHANGED <<registry, turn, row, alone>>

-----------------------------------------------------------------------------
Task(t) ==
    \/ Begin(t) \/ Emit(t) \/ WorkEnds(t) \/ Complete(t) \/ Fail(t)
    \/ Announce(t) \/ Close(t) \/ Save(t) \/ Cancelled(t)

Reads(s) == Replay(s) \/ Follow(s) \/ TimeOut(s)

Next ==
    \/ \E t \in Turns : Post(t) \/ Launch(t) \/ Task(t)
    \/ Stop
    \/ \E c \in Clients : Attach(c) \/ Disconnect(c)
    \/ \E s \in Streams : Reads(s)

Spec == Init /\ [][Next]_vars

\* The event loop runs what is ready, timers included, and a turn ends: its
\* calls have deadlines and its rounds are bounded.
FairSpec ==
    /\ Spec
    /\ WF_vars(\E t \in Turns : Task(t))
    /\ WF_vars(\E s \in Streams : Reads(s))

-----------------------------------------------------------------------------
(***************************************************************************)
(* Properties.                                                             *)
(***************************************************************************)

\* What the contract sees: what each run has published, whether it publishes no
\* more, and what each reader asked for, got and lost.
Published     == [t \in Turns |-> turn[t].seq]
IsFinished(t) == turn[t].last # 0 \/ turn[t].pc \in {"saving", "over"}
Finished      == [t \in Turns |-> IsFinished(t)]
View(s)       == [state |-> stream[s].state, of |-> stream[s].of,
                  from |-> stream[s].from, got |-> stream[s].got,
                  lost |-> stream[s].dropped]
Views         == [s \in Streams |-> View(s)]

\* The streams keep the contract of EventStream: complete and in order up to
\* the end of the run, except for what a full queue drops.
Contract == INSTANCE EventStream WITH
    Runs      <- Turns,
    Readers   <- Streams,
    Limit     <- QueueSize,
    NoRun     <- NoTurn,
    Positions <- After \cup {0},
    length    <- Published,
    closed    <- Finished,
    reader    <- Views
ImplementsContract == Contract!Spec

\* Every stream comes to its end, also when the sentinel was dropped or nobody
\* sent one: a full queue, a task cancelled before its first step.
StreamsEnd == \A s \in Streams : stream[s].state = "in" ~> stream[s].state # "in"

\* A client that was shown the last event of a turn finds the row settled, and it
\* stays so: the event follows the commit, on every path.
ToldIsStored ==
    \A s \in Streams : \A t \in Turns :
        (stream[s].of = t /\ turn[t].last # 0
            /\ turn[t].last \in ToSet(stream[s].got)) =>
                row[t] \in {"completed", "failed"}

\* While turns run one at a time, the stop button and a returning client find
\* the turn that runs, if its request knew the conversation.
Reachable ==
    alone => \A t \in Turns \ Unbound : turn[t].pc \in Open => registry = t
=============================================================================
