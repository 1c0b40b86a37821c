-------------------------------- MODULE ChatRun --------------------------------
(***************************************************************************)
(* The runs of one chat session inside one backend process (run_bus.py,    *)
(* run_registry.py and the send, attach and abort routes).  A send starts  *)
(* a background task that publishes events on a bus of its own; SSE        *)
(* streams subscribe to a bus, replay what they missed and follow it until *)
(* the sentinel.  An action is what a coroutine does between two           *)
(* suspensions.  The abort event is left out: all it does is end a run     *)
(* between two turns, and Finish may end a run at any time.                *)
(***************************************************************************)
EXTENDS Naturals, Sequences, FiniteSets, SequencesExt

CONSTANTS
    Sends,     \* POST /send requests; a run is named by its send
    Watchers,  \* clients that come back: GET /run-status, then GET /attach
    Aborts,    \* POST /abort requests
    Leaving,   \* those of them whose client may go away before the end
    None,
    MaxEvents, \* bound: events of each run
    QueueSize  \* maxsize of a subscriber's queue (1000)

ASSUME ChatRunAssumption ==
    /\ None \notin Sends
    /\ Sends \cap Watchers = {} /\ Leaving \subseteq Sends \cup Watchers
    /\ MaxEvents \in [Sends -> Nat] /\ QueueSize \in Nat \ {0}

VARIABLES
    registry, \* the run the registry holds for the session
    send,     \* where each send request is
    task,     \* the background task of each run
    seq,      \* bus._seq: the history of a bus is 1..seq
    stream,   \* the SSE stream of each send and each watcher
    abort     \* where each abort request is

vars == <<registry, send, task, seq, stream, abort>>

Streams == Sends \cup Watchers

\* In a queue; events are numbered from 1.
Sentinel == 0

\* What a client may ask for: a position in any run of the session.
Positions == {0} \cup UNION {1..MaxEvents[s] : s \in Sends}

NoStream == [pc |-> "none", bus |-> None, after |-> 0, todo |-> <<>>,
             queue |-> <<>>, got |-> <<>>, dropped |-> {}]

\* dropped is a history: what the queue of the stream had no room for.
TypeOK ==
    /\ registry \in Sends \cup {None}
    /\ send \in [Sends -> {"idle", "checked", "rejected", "registered"}]
    /\ task \in [Sends -> {"none", "ready", "running", "stopping", "done"}]
    /\ DOMAIN seq = Sends /\ \A s \in Sends : seq[s] \in 0..MaxEvents[s]
    /\ abort \in [Aborts -> {"idle", "done"}]
    /\ \A x \in Streams :
          /\ stream[x].pc \in {"none", "polled", "opened", "refused", "away",
                               "replaying", "live", "ended", "closed"}
          /\ stream[x].bus \in Sends \cup {None}
          /\ stream[x].after \in Positions /\ stream[x].dropped \subseteq Positions
          /\ stream[x].todo \in Seq(Positions) /\ stream[x].got \in Seq(Positions)
          /\ stream[x].queue \in Seq(Positions) /\ Len(stream[x].queue) <= QueueSize

Init ==
    /\ registry = None
    /\ send = [s \in Sends |-> "idle"]
    /\ task = [s \in Sends |-> "none"]
    /\ seq = [s \in Sends |-> 0]
    /\ stream = [x \in Streams |-> NoStream]
    /\ abort = [x \in Aborts |-> "idle"]

IsRunning == registry # None /\ task[registry] # "done"

-----------------------------------------------------------------------------
\* send_message: the guard, and after the commit of the user message the task.

Guard(s) ==
    /\ send[s] = "idle"
    /\ send' = [send EXCEPT ![s] = IF IsRunning THEN "rejected" ELSE "checked"]
    /\ UNCHANGED <<registry, task, seq, stream, abort>>

Register(s) ==
    /\ send[s] = "checked"
    /\ send' = [send EXCEPT ![s] = "registered"]
    /\ task' = [task EXCEPT ![s] = "ready"]
    /\ registry' = s
    /\ stream' = [stream EXCEPT ![s] = [@ EXCEPT !.pc = "opened", !.bus = s]]
    /\ UNCHANGED <<seq, abort>>

-----------------------------------------------------------------------------
\* _run_bg and the bus.

Start(t) ==
    /\ task[t] = "ready"
    /\ task' = [task EXCEPT ![t] = "running"]
    /\ UNCHANGED <<registry, send, seq, stream, abort>>

Subscribers(t) ==
    {x \in Streams : stream[x].bus = t /\ stream[x].pc \in {"replaying", "live"}}

\* Mutant: one item too few.
HasRoom_Early(x) == Len(stream[x].queue) + 1 < QueueSize

HasRoom(x) == Len(stream[x].queue) < QueueSize

\* put_nowait for every subscriber: a full queue drops the item.
Broadcast(t, item) ==
    stream' = [x \in Streams |->
        CASE x \in Subscribers(t) /\ HasRoom(x) ->
               [stream[x] EXCEPT !.queue = Append(@, item)]
          [] x \in Subscribers(t) /\ ~HasRoom(x) ->
               [stream[x] EXCEPT !.dropped = @ \cup {item}]
          [] OTHER -> stream[x]]

publish(t) ==
    /\ task[t] = "running"
    /\ seq[t] < MaxEvents[t]
    /\ seq' = [seq EXCEPT ![t] = @ + 1]
    /\ Broadcast(t, seq[t] + 1)
    /\ UNCHANGED <<registry, send, task, abort>>

\* The finally clause; unregister pops whatever the session's entry is.
Finish(t) ==
    /\ task[t] \in {"running", "stopping"}
    /\ task' = [task EXCEPT ![t] = "done"]
    /\ Broadcast(t, Sentinel)
    /\ registry' = None
    /\ UNCHANGED <<send, seq, abort>>

-----------------------------------------------------------------------------
\* abort_session, after its last await (the durable cancellation of the actions
\* before it changes nothing here).  A task cancelled before its first step never
\* enters its try.
Abort(x) ==
    /\ abort[x] = "idle"
    /\ abort' = [abort EXCEPT ![x] = "done"]
    /\ task' = IF IsRunning
               THEN [task EXCEPT ![registry] =
                        IF @ = "ready" THEN "done" ELSE "stopping"]
               ELSE task
    /\ UNCHANGED <<registry, send, seq, stream>>

-----------------------------------------------------------------------------
\* The streams.

\* ai_chat_run_status: the client attaches only to a running run.
RunStatus(w) ==
    /\ stream[w].pc = "none"
    /\ IsRunning
    /\ stream' = [stream EXCEPT ![w] =
            [@ EXCEPT !.pc = "polled", !.after = seq[registry]]]
    /\ UNCHANGED <<registry, send, task, seq, abort>>

\* ai_chat_attach reads the registry; the response starts later.
Attach(w) ==
    /\ stream[w].pc = "polled"
    /\ stream' = [stream EXCEPT ![w] = [@ EXCEPT !.pc = "opened", !.bus = registry]]
    /\ UNCHANGED <<registry, send, task, seq, abort>>

\* Mutant: the handle of a finished run is accepted.
TurnedAway_NoHandle(x) == x \in Watchers /\ stream[x].bus = None

\* Only attach asks whether the run is over; send never does.
TurnedAway(x) ==
    /\ x \in Watchers
    /\ stream[x].bus = None \/ task[stream[x].bus] = "done"

\* Mutant: the history is not replayed.
Replayed_Nothing(x) == <<>>

Replayed(x) ==
    LET last  == seq[stream[x].bus]
        after == stream[x].after
    IN  [i \in 1..(IF after < last THEN last - after ELSE 0) |-> after + i]

\* The first step of event_stream: subscribe and replay_after, with no
\* suspension in between.  By then the task has had its first step.
StartStream(x) ==
    /\ stream[x].pc = "opened"
    /\ stream[x].bus # None => task[stream[x].bus] # "ready"
    /\ stream' = [stream EXCEPT ![x] =
            IF TurnedAway(x) THEN [@ EXCEPT !.pc = "refused"]
            ELSE [@ EXCEPT !.pc = "replaying", !.todo = Replayed(x)]]
    /\ UNCHANGED <<registry, send, task, seq, abort>>

Replay(x) ==
    LET todo == stream[x].todo IN
    /\ stream[x].pc = "replaying"
    /\ \/ todo = <<>> /\ stream' = [stream EXCEPT ![x].pc = "live"]
       \/ todo # <<>> /\ stream' = [stream EXCEPT ![x].got = Append(@, Head(todo)),
                                                ![x].todo = Tail(todo)]
    /\ UNCHANGED <<registry, send, task, seq, abort>>

\* seen: the last event yielded, or the client's position.
Seen(x) == IF stream[x].got = <<>> THEN stream[x].after ELSE Last(stream[x].got)

\* Mutant: an event the client already has is yielded again.
IsNew_Any(x, item) == TRUE

IsNew(x, item) == item > Seen(x)

\* unsubscribe: the queue of the stream is gone.
Unsubscribed(x, pc) ==
    [stream[x] EXCEPT !.pc = pc, !.queue = <<>>, !.todo = <<>>]

Follow(x) ==
    LET item == Head(stream[x].queue)
        rest == Tail(stream[x].queue)
    IN
    /\ stream[x].pc = "live"
    /\ stream[x].queue # <<>>
    /\ stream' = [stream EXCEPT ![x] =
            CASE item = Sentinel -> Unsubscribed(x, "ended")
              [] item # Sentinel /\ IsNew(x, item) ->
                    [@ EXCEPT !.queue = rest, !.got = Append(@, item)]
              [] item # Sentinel /\ ~IsNew(x, item) -> [@ EXCEPT !.queue = rest]]
    /\ UNCHANGED <<registry, send, task, seq, abort>>

\* The client goes away, before its stream has begun or after; the run goes on.
Disconnect(x) ==
    /\ stream[x].pc \in {"polled", "opened", "replaying", "live"}
    /\ stream' = [stream EXCEPT ![x] =
            IF @.pc \in {"polled", "opened"} THEN [NoStream EXCEPT !.pc = "away"]
            ELSE Unsubscribed(x, "closed")]
    /\ UNCHANGED <<registry, send, task, seq, abort>>

-----------------------------------------------------------------------------
Next ==
    \/ \E s \in Sends : \/ Guard(s)
                        \/ Register(s)
                        \/ Start(s)
                        \/ publish(s)
                        \/ Finish(s)
    \/ \E x \in Aborts : Abort(x)
    \/ \E w \in Watchers : RunStatus(w) \/ Attach(w)
    \/ \E x \in Streams : \/ StartStream(x)
                          \/ Replay(x)
                          \/ Follow(x)
    \/ \E x \in Leaving : Disconnect(x)

Spec == Init /\ [][Next]_vars

\* The event loop runs every coroutine that is ready, an agent run ends (its
\* turns are bounded and its calls time out), and responses are sent.
Fairness ==
    /\ \A s \in Sends : WF_vars(Start(s)) /\ WF_vars(Finish(s))
    /\ \A x \in Streams :
        /\ WF_vars(StartStream(x))
        /\ WF_vars(Replay(x))
        /\ WF_vars(Follow(x))

FairSpec == Spec /\ Fairness

-----------------------------------------------------------------------------
\* Properties.

\* A stream yields events of its bus after the client's position, each once and
\* in order, whichever came from the replay and whichever from the queue.
StreamInOrder ==
    \A x \in Streams :
        LET got == stream[x].got IN
        \A i, j \in 1..Len(got) :
            /\ i < j => got[i] < got[j]
            /\ stream[x].after < got[i] /\ got[i] <= seq[stream[x].bus]

\* A stream that ended with the sentinel has yielded every event of the run after
\* the client's position, except what its full queue dropped: none is lost
\* between the replay and the queue.
EndedComplete ==
    \A x \in Streams : stream[x].pc = "ended" =>
        \A n \in stream[x].after + 1 .. seq[stream[x].bus] :
            \/ n \in stream[x].dropped
            \/ \E i \in 1..Len(stream[x].got) : stream[x].got[i] = n

\* What the contract sees of the runs and of their streams.
Finished == [s \in Sends |-> task[s] = "done"]
Reading  == {"replaying", "live"}
View(x)  ==
    LET w == stream[x] IN
    IF w.pc \in Reading \cup {"ended", "closed"}
    THEN [state |-> CASE w.pc \in Reading  -> "in"
                      [] w.pc = "ended"  -> "over"
                      [] w.pc = "closed" -> "left",
          of |-> w.bus, from |-> w.after, got |-> w.got,
          lost |-> w.dropped \ {Sentinel}]
    ELSE [state |-> "out", of |-> None, from |-> 0, got |-> <<>>, lost |-> {}]
Views    == [x \in Streams |-> View(x)]

\* The streams keep the contract of EventStream, as the streams of the coding
\* turns do: only a reader whose queue is full loses an event.
Contract == INSTANCE EventStream WITH
    Runs    <- Sends,
    Readers <- Streams,
    Limit   <- QueueSize,
    NoRun   <- None,
    length  <- seq,
    closed  <- Finished,
    reader  <- Views
ImplementsContract == Contract!Spec

\* Whoever comes back to a run sees the end of the stream, also when the run ends,
\* or is aborted, between the status, the attach and the start of the stream;
\* unless he leaves, or the sentinel found his queue full.
AttachEnds ==
    \A w \in Watchers :
        stream[w].pc = "opened" ~>
            \/ stream[w].pc \in {"ended", "refused", "closed", "away"}
            \/ Sentinel \in stream[w].dropped

\* NOT what the code does (see the README): one session, one run.
OneRun ==
    \A s, t \in Sends :
        {task[s], task[t]} \subseteq {"ready", "running", "stopping"} => s = t
=============================================================================
