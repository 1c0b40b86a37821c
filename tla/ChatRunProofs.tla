----------------------------- MODULE ChatRunProofs -----------------------------
(***************************************************************************)
(* Theorems about ChatRun, for any sends, watchers, aborts and bounds.     *)
(***************************************************************************)
EXTENDS ChatRun, StreamLemmas

-----------------------------------------------------------------------------
(***************************************************************************)
(* The variables have their types.                                         *)
(***************************************************************************)
Pcs == {"none", "polled", "opened", "refused", "away",
        "replaying", "live", "ended", "closed"}
Outside == {"none", "polled", "opened", "refused", "away"}

StreamType == [pc : Pcs, bus : Sends \cup {None}, after : Positions,
               todo : Seq(Positions), queue : Seq(Positions), got : Seq(Positions),
               dropped : SUBSET Positions]

TypeInv ==
    /\ registry \in Sends \cup {None}
    /\ send \in [Sends -> {"idle", "checked", "rejected", "registered"}]
    /\ task \in [Sends -> {"none", "ready", "running", "stopping", "done"}]
    /\ seq \in [Sends -> Nat] /\ \A s \in Sends : seq[s] <= MaxEvents[s]
    /\ abort \in [Aborts -> {"idle", "done"}]
    /\ stream \in [Streams -> StreamType]
    /\ \A x \in Streams : Len(stream[x].queue) <= QueueSize

\* What a client may ask for is a number, and so is every position of a run.
LEMMA PositionsFacts ==
    /\ Positions \subseteq Nat /\ 0 \in Positions
    /\ \A s \in Sends : \A n \in Nat : n <= MaxEvents[s] => n \in Positions
  <1>1. \A s \in Sends : MaxEvents[s] \in Nat
    BY ChatRunAssumption
  <1>2. ASSUME NEW s \in Sends, NEW n \in Nat, n <= MaxEvents[s]
        PROVE  n \in Positions
    <2>1. CASE n = 0
      BY <2>1 DEF Positions
    <2>2. CASE n # 0
      <3>1. n \in 1..MaxEvents[s]
        BY <1>1, <1>2, <2>2
      <3> QED
        BY <3>1 DEF Positions
    <2> QED
      BY <2>1, <2>2
  <1>3. Positions \subseteq Nat
    BY <1>1 DEF Positions
  <1>4. 0 \in Positions
    BY DEF Positions
  <1> QED
    BY <1>2, <1>3, <1>4

LEMMA NumberSeq ==
    ASSUME NEW q \in Seq(Positions)
    PROVE  q \in Seq(Nat)
  BY PositionsFacts, SeqMonotonic

LEMMA NoStreamType == NoStream \in StreamType /\ Len(NoStream.queue) = 0
  BY PositionsFacts DEF NoStream, StreamType, Pcs

\* The head and the tail of a sequence of positions.
LEMMA TailType ==
    ASSUME NEW q \in Seq(Positions), q # <<>>
    PROVE  /\ Head(q) \in Positions /\ Head(q) \in Nat
           /\ Tail(q) \in Seq(Positions) /\ Len(Tail(q)) <= Len(q)
  <1>1. Len(q) \in Nat
    BY LenProperties
  <1>2. Head(q) \in Positions
    OBVIOUS
  <1>3. Tail(q) \in Seq(Positions)
    OBVIOUS
  <1>4. Len(Tail(q)) = Len(q) - 1
    OBVIOUS
  <1>5. Head(q) \in Nat
    BY <1>2, PositionsFacts
  <1>6. Len(Tail(q)) <= Len(q)
    BY <1>1, <1>4
  <1> QED
    BY <1>2, <1>3, <1>5, <1>6, Zenon

\* The stream of a send knows its bus when the response starts.
BusesKnown == \A s \in Sends : stream[s].pc = "opened" => stream[s].bus = s

LEMMA TypeInit == Init => TypeInv
  BY NoStreamType, ChatRunAssumption DEF Init, TypeInv, NoStream

\* A step that replaces one stream.
LEMMA OneStreamType ==
    ASSUME TypeInv, NEW x \in Streams, NEW new \in StreamType,
           Len(new.queue) <= QueueSize, stream' = [stream EXCEPT ![x] = new]
    PROVE  /\ stream' \in [Streams -> StreamType]
           /\ \A y \in Streams : Len(stream'[y].queue) <= QueueSize
  BY DEF TypeInv

\* What a broadcast does to each stream.
LEMMA BroadcastStreams ==
    ASSUME TypeInv, NEW t \in Sends, NEW item \in Positions, Broadcast(t, item)
    PROVE  /\ stream' \in [Streams -> StreamType]
           /\ \A x \in Streams : Len(stream'[x].queue) <= QueueSize
           /\ \A x \in Streams :
                 \/ x \notin Subscribers(t) /\ stream'[x] = stream[x]
                 \/ /\ x \in Subscribers(t) /\ HasRoom(x)
                    /\ stream'[x] = [stream[x] EXCEPT
                           !.queue = Append(stream[x].queue, item)]
                 \/ /\ x \in Subscribers(t) /\ ~HasRoom(x)
                    /\ stream'[x] = [stream[x] EXCEPT
                           !.dropped = stream[x].dropped \cup {item}]
  <1>1. \A x \in Streams :
                 \/ x \notin Subscribers(t) /\ stream'[x] = stream[x]
                 \/ /\ x \in Subscribers(t) /\ HasRoom(x)
                    /\ stream'[x] = [stream[x] EXCEPT
                           !.queue = Append(stream[x].queue, item)]
                 \/ /\ x \in Subscribers(t) /\ ~HasRoom(x)
                    /\ stream'[x] = [stream[x] EXCEPT
                           !.dropped = stream[x].dropped \cup {item}]
    BY DEF Broadcast
  <1>2. ASSUME NEW x \in Streams
        PROVE  stream'[x] \in StreamType /\ Len(stream'[x].queue) <= QueueSize
    <2>1. stream[x] \in StreamType /\ Len(stream[x].queue) <= QueueSize
      BY DEF TypeInv
    <2>2. stream[x].queue \in Seq(Positions) /\ QueueSize \in Nat
      BY <2>1, ChatRunAssumption DEF StreamType
    <2>3. /\ Append(stream[x].queue, item) \in Seq(Positions)
          /\ Len(Append(stream[x].queue, item)) = Len(stream[x].queue) + 1
      BY <2>2, AppendProperties
    <2>4. HasRoom(x) => Len(Append(stream[x].queue, item)) <= QueueSize
      BY <2>2, <2>3 DEF HasRoom
    <2>5. stream[x].dropped \cup {item} \in SUBSET Positions
      BY <2>1 DEF StreamType
    <2>6. CASE stream'[x] = stream[x]
      BY <2>1, <2>6
    <2>7. CASE /\ HasRoom(x)
               /\ stream'[x] = [stream[x] EXCEPT
                           !.queue = Append(stream[x].queue, item)]
      BY <2>1, <2>3, <2>4, <2>7 DEF StreamType
    <2>8. CASE stream'[x] = [stream[x] EXCEPT
                           !.dropped = stream[x].dropped \cup {item}]
      BY <2>1, <2>5, <2>8 DEF StreamType
    <2> QED
      BY <1>1, <2>6, <2>7, <2>8
  <1>3. stream' = [x \in Streams |-> stream'[x]]
    BY DEF Broadcast
  <1> QED
    BY <1>1, <1>2, <1>3

\* A request and the record of its stream; a client that asks and attaches.
LEMMA RegisterStream ==
    ASSUME TypeInv, NEW s \in Sends, Register(s)
    PROVE  LET new == [stream[s] EXCEPT !.pc = "opened", !.bus = s]
           IN  s \in Streams /\ stream' = [stream EXCEPT ![s] = new]
               /\ new \in StreamType /\ Len(new.queue) <= QueueSize
  BY DEF Register, TypeInv, StreamType, Pcs, Streams

LEMMA PollStream ==
    ASSUME TypeInv, NEW w \in Watchers, RunStatus(w)
    PROVE  LET new == [stream[w] EXCEPT !.pc = "polled", !.after = seq[registry]]
           IN  w \in Streams /\ stream' = [stream EXCEPT ![w] = new]
               /\ new \in StreamType /\ Len(new.queue) <= QueueSize
  <1>1. registry \in Sends
    BY DEF RunStatus, IsRunning, TypeInv
  <1>2. seq[registry] \in Positions
    BY <1>1, PositionsFacts DEF TypeInv
  <1> QED
    BY <1>2 DEF RunStatus, TypeInv, StreamType, Pcs, Streams

LEMMA AttachStream ==
    ASSUME TypeInv, NEW w \in Watchers, Attach(w)
    PROVE  LET new == [stream[w] EXCEPT !.pc = "opened", !.bus = registry]
           IN  w \in Streams /\ stream' = [stream EXCEPT ![w] = new]
               /\ new \in StreamType /\ Len(new.queue) <= QueueSize
  BY DEF Attach, TypeInv, StreamType, Pcs, Streams

\* The history a stream replays.
LEMMA ReplayedType ==
    ASSUME TypeInv, NEW x \in Streams, stream[x].bus \in Sends
    PROVE  Replayed(x) \in Seq(Positions)
  <1> DEFINE bus   == stream[x].bus
             last  == seq[bus]
             after == stream[x].after
             len   == IF after < last THEN last - after ELSE 0
  <1>1. last \in Nat /\ last <= MaxEvents[bus] /\ MaxEvents[bus] \in Nat
    BY ChatRunAssumption DEF TypeInv
  <1>2. after \in Nat
    BY PositionsFacts DEF TypeInv, StreamType
  <1>3. len \in Nat
    BY <1>1, <1>2
  <1>4. \A i \in 1..len : after + i \in Positions
    <2> SUFFICES ASSUME NEW i \in 1..len PROVE after + i \in Positions
      OBVIOUS
    <2> HIDE DEF after, last
    <2>1. after + i \in Nat /\ after + i <= MaxEvents[bus]
      BY <1>1, <1>2
    <2> QED
      BY <2>1, PositionsFacts
  <1>5. Replayed(x) = [i \in 1..len |-> after + i]
    BY DEF Replayed
  <1> HIDE DEF len, after
  <1> QED
    BY <1>3, <1>4, <1>5

LEMMA StartedStream ==
    ASSUME TypeInv, NEW x \in Streams, StartStream(x),
           stream[x].bus \in Sends \/ TurnedAway(x)
    PROVE  \/ /\ stream[x].pc = "opened"
              /\ stream' = [stream EXCEPT ![x] = [stream[x] EXCEPT !.pc = "refused"]]
              /\ [stream[x] EXCEPT !.pc = "refused"] \in StreamType
              /\ Len([stream[x] EXCEPT !.pc = "refused"].queue) <= QueueSize
           \/ LET new == [stream[x] EXCEPT !.pc = "replaying", !.todo = Replayed(x)]
              IN  /\ stream[x].pc = "opened" /\ stream[x].bus \in Sends
                  /\ stream' = [stream EXCEPT ![x] = new]
                  /\ new \in StreamType /\ Len(new.queue) <= QueueSize
  <1>1. stream[x] \in StreamType /\ Len(stream[x].queue) <= QueueSize
    BY DEF TypeInv
  <1>2. CASE TurnedAway(x)
    BY <1>1, <1>2 DEF StartStream, StreamType, Pcs, TypeInv
  <1>3. CASE ~TurnedAway(x)
    <2>1. Replayed(x) \in Seq(Positions)
      BY <1>3, ReplayedType
    <2> QED
      BY <1>1, <1>3, <2>1 DEF StartStream, StreamType, Pcs, TypeInv
  <1> QED
    BY <1>2, <1>3

LEMMA ReplayStream ==
    ASSUME TypeInv, NEW x \in Streams, Replay(x)
    PROVE  LET me   == stream[x]
               live == [me EXCEPT !.pc = "live"]
               more == [me EXCEPT !.got = Append(me.got, Head(me.todo)),
                                  !.todo = Tail(me.todo)]
           IN  /\ me.pc = "replaying"
               /\ \/ /\ me.todo = <<>> /\ stream' = [stream EXCEPT ![x] = live]
                     /\ live \in StreamType /\ Len(live.queue) <= QueueSize
                  \/ /\ me.todo # <<>> /\ stream' = [stream EXCEPT ![x] = more]
                     /\ more \in StreamType /\ Len(more.queue) <= QueueSize
  <1> DEFINE me  == stream[x]
             got == Append(me.got, Head(me.todo))
             tl  == Tail(me.todo)
  <1>1. me \in StreamType /\ Len(me.queue) <= QueueSize /\ me.pc = "replaying"
    BY DEF TypeInv, Replay
  <1>2. CASE me.todo = <<>>
    BY <1>1, <1>2 DEF Replay, StreamType, Pcs, TypeInv
  <1>3. CASE me.todo # <<>>
    <2>1. Head(me.todo) \in Positions /\ tl \in Seq(Positions)
      BY <1>1, <1>3, TailType DEF StreamType
    <2>2. got \in Seq(Positions)
      BY <1>1, <2>1, AppendProperties DEF StreamType
    <2>3. stream' = [stream EXCEPT ![x] = [me EXCEPT !.got = got, !.todo = tl]]
      BY <1>1, <1>3 DEF Replay, StreamType, TypeInv
    <2> HIDE DEF got, tl
    <2>4. /\ [me EXCEPT !.got = got, !.todo = tl] \in StreamType
          /\ [me EXCEPT !.got = got, !.todo = tl].queue = me.queue
      BY <1>1, <2>1, <2>2 DEF StreamType
    <2> QED
      BY <1>1, <1>3, <2>3, <2>4 DEF got, tl
  <1> QED
    BY <1>2, <1>3

LEMMA FollowStream ==
    ASSUME TypeInv, NEW x \in Streams, Follow(x)
    PROVE  LET me   == stream[x]
               item == Head(me.queue)
               skip == [me EXCEPT !.queue = Tail(me.queue)]
               more == [me EXCEPT !.queue = Tail(me.queue),
                                  !.got = Append(me.got, item)]
               over == Unsubscribed(x, "ended")
           IN  /\ me.pc = "live" /\ me.queue # <<>> /\ item \in Nat
               /\ \/ /\ item = 0 /\ stream' = [stream EXCEPT ![x] = over]
                     /\ over \in StreamType /\ Len(over.queue) <= QueueSize
                  \/ /\ item # 0 /\ item <= Seen(x)
                     /\ stream' = [stream EXCEPT ![x] = skip]
                     /\ skip \in StreamType /\ Len(skip.queue) <= QueueSize
                  \/ /\ Seen(x) < item
                     /\ stream' = [stream EXCEPT ![x] = more]
                     /\ more \in StreamType /\ Len(more.queue) <= QueueSize
  <1> DEFINE me   == stream[x]
             item == Head(me.queue)
             rest == Tail(me.queue)
             got  == Append(me.got, item)
             over == Unsubscribed(x, "ended")
  <1>1. /\ me \in StreamType /\ Len(me.queue) <= QueueSize
        /\ me.pc = "live" /\ me.queue # <<>>
    BY DEF TypeInv, Follow
  <1>2. QueueSize \in Nat /\ Len(me.queue) \in Nat
    BY <1>1, ChatRunAssumption, LenProperties DEF StreamType
  <1>3. /\ item \in Positions /\ item \in Nat /\ rest \in Seq(Positions)
        /\ Len(rest) <= Len(me.queue) /\ Len(rest) \in Nat
    BY <1>1, TailType, LenProperties DEF StreamType
  <1>4. got \in Seq(Positions)
    BY <1>1, <1>3, AppendProperties DEF StreamType
  <1>5. Seen(x) \in Nat
    <2>1. me.after \in Nat /\ me.got \in Seq(Nat)
      BY <1>1, PositionsFacts, NumberSeq DEF StreamType
    <2> QED
      BY <2>1, SeenType DEF Seen, SeenOf
  <1>6. stream' = [stream EXCEPT ![x] =
            CASE item = 0 -> over
              [] item # 0 /\ item > Seen(x) ->
                    [me EXCEPT !.queue = rest, !.got = Append(@, item)]
              [] item # 0 /\ ~(item > Seen(x)) -> [me EXCEPT !.queue = rest]]
    BY DEF Follow, Sentinel, IsNew, TypeInv
  <1>7. /\ over \in StreamType /\ Len(over.queue) = 0
    BY <1>1, EmptySeq DEF Unsubscribed, StreamType, Pcs
  <1>8. [me EXCEPT !.queue = rest, !.got = Append(@, item)]
          = [me EXCEPT !.queue = rest, !.got = got]
    BY <1>1 DEF StreamType
  <1> HIDE DEF over, got, rest, item
  <1>9. /\ [me EXCEPT !.queue = rest] \in StreamType
        /\ [me EXCEPT !.queue = rest].queue = rest
        /\ [me EXCEPT !.queue = rest, !.got = got] \in StreamType
        /\ [me EXCEPT !.queue = rest, !.got = got].queue = rest
    BY <1>1, <1>3, <1>4 DEF StreamType
  <1>10. Len(rest) <= QueueSize
    BY <1>1, <1>2, <1>3
  <1>11. CASE item = 0
    <2>1. stream' = [stream EXCEPT ![x] = over]
      BY <1>6, <1>11
    <2> QED
      BY <1>1, <1>2, <1>3, <1>7, <1>11, <2>1 DEF over, got, rest, item
  <1>12. CASE item # 0 /\ item <= Seen(x)
    <2>1. ~(item > Seen(x))
      BY <1>3, <1>5, <1>12
    <2>2. stream' = [stream EXCEPT ![x] = [me EXCEPT !.queue = rest]]
      BY <1>6, <1>12, <2>1
    <2> QED
      BY <1>1, <1>3, <1>9, <1>10, <1>12, <2>2 DEF over, got, rest, item
  <1>13. CASE Seen(x) < item
    <2>1. item # 0 /\ item > Seen(x)
      BY <1>3, <1>5, <1>13
    <2>2. stream' = [stream EXCEPT ![x] = [me EXCEPT !.queue = rest, !.got = got]]
      BY <1>6, <1>8, <2>1
    <2> QED
      BY <1>1, <1>3, <1>9, <1>10, <1>13, <2>2 DEF over, got, rest, item
  <1>14. item = 0 \/ (item # 0 /\ item <= Seen(x)) \/ Seen(x) < item
    BY <1>3, <1>5
  <1> QED
    BY <1>11, <1>12, <1>13, <1>14

LEMMA DisconnectStream ==
    ASSUME TypeInv, NEW x \in Streams, Disconnect(x)
    PROVE  LET gone == [NoStream EXCEPT !.pc = "away"]
               left == Unsubscribed(x, "closed")
           IN  \/ /\ stream[x].pc \in {"polled", "opened"}
                  /\ stream' = [stream EXCEPT ![x] = gone]
                  /\ gone \in StreamType /\ Len(gone.queue) <= QueueSize
               \/ /\ stream[x].pc \in {"replaying", "live"}
                  /\ stream' = [stream EXCEPT ![x] = left]
                  /\ left \in StreamType /\ Len(left.queue) <= QueueSize
  <1>1. stream[x] \in StreamType /\ QueueSize \in Nat
    BY ChatRunAssumption DEF TypeInv
  <1>2. /\ [NoStream EXCEPT !.pc = "away"] \in StreamType
        /\ [NoStream EXCEPT !.pc = "away"].queue = <<>>
    BY NoStreamType DEF StreamType, Pcs, NoStream
  <1>3. /\ Unsubscribed(x, "closed") \in StreamType
        /\ Unsubscribed(x, "closed").queue = <<>>
    BY <1>1, EmptySeq DEF Unsubscribed, StreamType, Pcs
  <1>4. Len(<<>>) <= QueueSize
    BY <1>1
  <1>5. CASE stream[x].pc \in {"polled", "opened"}
    <2>1. stream' = [stream EXCEPT ![x] = [NoStream EXCEPT !.pc = "away"]]
      BY <1>5 DEF Disconnect
    <2> QED
      BY <1>2, <1>4, <1>5, <2>1
  <1>6. CASE stream[x].pc \in {"replaying", "live"}
    <2>1. stream' = [stream EXCEPT ![x] = Unsubscribed(x, "closed")]
      BY <1>6 DEF Disconnect
    <2> QED
      BY <1>3, <1>4, <1>6, <2>1
  <1> QED
    BY <1>5, <1>6 DEF Disconnect

LEMMA TypeNext == TypeInv /\ BusesKnown /\ [Next]_vars => TypeInv'
  <1> SUFFICES ASSUME TypeInv, BusesKnown, [Next]_vars PROVE TypeInv'
    OBVIOUS
  <1>1. \A x \in Streams : stream[x] \in StreamType
    BY DEF TypeInv
  <1>2. ASSUME NEW s \in Sends, Guard(s) PROVE TypeInv'
    BY <1>2 DEF Guard, TypeInv
  <1>3. ASSUME NEW s \in Sends, Register(s) PROVE TypeInv'
    <2>1. /\ stream' \in [Streams -> StreamType]
          /\ \A x \in Streams : Len(stream'[x].queue) <= QueueSize
      BY <1>3, RegisterStream, OneStreamType
    <2> QED
      BY <1>3, <2>1 DEF Register, TypeInv
  <1>4. ASSUME NEW s \in Sends, Start(s) PROVE TypeInv'
    BY <1>4 DEF Start, TypeInv
  <1>5. ASSUME NEW s \in Sends, publish(s) PROVE TypeInv'
    <2>1. seq[s] \in Nat /\ MaxEvents[s] \in Nat /\ seq[s] < MaxEvents[s]
      BY <1>5, ChatRunAssumption DEF publish, TypeInv
    <2>2. seq[s] + 1 \in Nat /\ seq[s] + 1 <= MaxEvents[s] /\ seq[s] + 1 \in Positions
      BY <2>1, PositionsFacts
    <2>3. /\ stream' \in [Streams -> StreamType]
          /\ \A x \in Streams : Len(stream'[x].queue) <= QueueSize
      BY <1>5, <2>2, BroadcastStreams DEF publish
    <2> QED
      BY <1>5, <2>2, <2>3 DEF publish, TypeInv
  <1>6. ASSUME NEW s \in Sends, Finish(s) PROVE TypeInv'
    <2>1. /\ stream' \in [Streams -> StreamType]
          /\ \A x \in Streams : Len(stream'[x].queue) <= QueueSize
      BY <1>6, PositionsFacts, BroadcastStreams DEF Finish, Sentinel
    <2> QED
      BY <1>6, <2>1 DEF Finish, TypeInv
  <1>7. ASSUME NEW x \in Aborts, Abort(x) PROVE TypeInv'
    BY <1>7 DEF Abort, IsRunning, TypeInv
  <1>8. ASSUME NEW x \in Streams, NEW new \in StreamType,
               Len(new.queue) <= QueueSize, stream' = [stream EXCEPT ![x] = new],
               UNCHANGED <<registry, send, task, seq, abort>>
        PROVE  TypeInv'
    <2>1. /\ stream' \in [Streams -> StreamType]
          /\ \A y \in Streams : Len(stream'[y].queue) <= QueueSize
      BY <1>8, OneStreamType
    <2> QED
      BY <1>8, <2>1 DEF TypeInv
  <1>9. ASSUME NEW w \in Watchers, RunStatus(w) PROVE TypeInv'
    BY <1>8, <1>9, PollStream DEF RunStatus
  <1>10. ASSUME NEW w \in Watchers, Attach(w) PROVE TypeInv'
    BY <1>8, <1>10, AttachStream DEF Attach
  <1>11. ASSUME NEW x \in Streams, StartStream(x) PROVE TypeInv'
    <2>1. stream[x].bus \in Sends \/ TurnedAway(x)
      BY <1>11, <1>1 DEF BusesKnown, StartStream, TurnedAway, Streams, StreamType
    <2>2. UNCHANGED <<registry, send, task, seq, abort>>
      BY <1>11 DEF StartStream
    <2> QED
      BY <1>8, <1>11, <2>1, <2>2, StartedStream
  <1>12. ASSUME NEW x \in Streams, Replay(x) PROVE TypeInv'
    <2>1. UNCHANGED <<registry, send, task, seq, abort>>
      BY <1>12 DEF Replay
    <2> QED
      BY <1>8, <1>12, <2>1, ReplayStream
  <1>13. ASSUME NEW x \in Streams, Follow(x) PROVE TypeInv'
    <2>1. UNCHANGED <<registry, send, task, seq, abort>>
      BY <1>13 DEF Follow
    <2> QED
      BY <1>8, <1>13, <2>1, FollowStream
  <1>14. ASSUME NEW x \in Leaving, Disconnect(x) PROVE TypeInv'
    <2>1. UNCHANGED <<registry, send, task, seq, abort>> /\ x \in Streams
      BY <1>14, ChatRunAssumption DEF Disconnect, Streams
    <2> QED
      BY <1>8, <1>14, <2>1, DisconnectStream
  <1>15. CASE UNCHANGED vars
    BY <1>15 DEF vars, TypeInv
  <1> QED
    BY <1>2, <1>3, <1>4, <1>5, <1>6, <1>7, <1>9, <1>10, <1>11, <1>12, <1>13, <1>14,
       <1>15 DEF Next

-----------------------------------------------------------------------------
(***************************************************************************)
(* Every stream that reads holds what its client is still to get, and what *)
(* was yielded is in order.                                                *)
(***************************************************************************)
\* The bus of a run that is over publishes no more.
Place(t) == IF task[t] = "done" THEN "over" ELSE "working"

Lost(w) == w.dropped \ {Sentinel}

Rises(g) == \A i, j \in 1..Len(g) : i < j => g[i] < g[j]

Holds(w) ==
    /\ Good(w.after, w.todo, w.queue, w.got, Lost(w), seq[w.bus], Place(w.bus))
    /\ Rises(w.got)
    /\ w.pc = "live" => w.todo = <<>>

Told(w) ==
    /\ Typed(w.after, w.todo, w.queue, w.got, Lost(w), seq[w.bus])
    /\ YieldedBelow(w.after, w.got, seq[w.bus]) /\ Rises(w.got)

Whole(w) ==
    /\ task[w.bus] = "done"
    /\ OwedTo(w.after, w.got, Lost(w), seq[w.bus]) = {}

Sound(x, w) ==
    /\ w.pc \in Outside => /\ w.todo = <<>> /\ w.queue = <<>> /\ w.got = <<>>
                           /\ w.dropped = {}
    /\ w.pc \notin Outside => w.bus \in Sends
    /\ w.pc \in Reading => Holds(w)
    /\ w.pc \in {"ended", "closed"} => Told(w)
    /\ w.pc = "ended" => Whole(w)
    /\ x \in Sends /\ w.pc = "opened" => w.bus = x

Unsent(s) ==
    send[s] # "registered" => task[s] = "none" /\ stream[s].pc = "none"

StreamsInv ==
    /\ \A x \in Streams : Sound(x, stream[x])
    /\ \A s \in Sends : Unsent(s)

LEMMA StreamsInit == Init => StreamsInv
  BY DEF Init, StreamsInv, Sound, Unsent, NoStream, Outside, Reading, Streams

LEMMA SoundBuses == StreamsInv => BusesKnown
  BY DEF StreamsInv, Sound, BusesKnown, Streams

LEMMA RisesAppend ==
    ASSUME NEW f \in Nat, NEW g \in Seq(Nat), NEW n \in Nat, NEW e \in Nat,
           Rises(g), YieldedBelow(f, g, n), SeenOf(f, g) < e
    PROVE  Rises(Append(g, e))
  <1> DEFINE h == Append(g, e)
  <1>1. /\ Len(h) = Len(g) + 1 /\ h[Len(g) + 1] = e
        /\ \A i \in 1..Len(g) : h[i] = g[i]
    BY AppendProperties
  <1>2. Len(g) \in Nat /\ SeenOf(f, g) \in Nat /\ \A i \in 1..Len(g) : g[i] \in Nat
    <2>1. SeenOf(f, g) \in Nat
      BY SeenType
    <2> QED
      BY <2>1
  <1>3. \A i \in 1..Len(g) : g[i] < e
    BY <1>2 DEF YieldedBelow
  <1> HIDE DEF h
  <1>4. \A i, j \in 1..Len(h) : i < j => h[i] < h[j]
    <2> SUFFICES ASSUME NEW i \in 1..Len(h), NEW j \in 1..Len(h), i < j
                 PROVE  h[i] < h[j]
      OBVIOUS
    <2>1. i \in 1..Len(g) /\ h[i] = g[i]
      BY <1>1, <1>2
    <2>2. CASE j \in 1..Len(g)
      BY <1>1, <2>1, <2>2 DEF Rises
    <2>3. CASE j = Len(g) + 1
      BY <1>1, <1>3, <2>1, <2>3
    <2> QED
      BY <1>1, <1>2, <2>2, <2>3
  <1> QED
    BY <1>4 DEF h, Rises

\* A stream that reads is told in order.
LEMMA HoldsTells ==
    ASSUME NEW w, Holds(w)
    PROVE  Told(w)
  BY DEF Holds, Told, Good

\* A step that leaves a stream alone, and does not publish to its bus.
LEMMA StaysSound ==
    ASSUME TypeInv, NEW x \in Streams, NEW w, Sound(x, w),
           \A t \in Sends : /\ seq'[t] = seq[t]
                            /\ task[t] = "done" => task'[t] = "done"
    PROVE  Sound(x, w)'
  <1>1. CASE w.pc \in Outside
    BY <1>1 DEF Sound, Outside, Reading
  <1>2. CASE w.pc \notin Outside
    <2>1. w.bus \in Sends
      BY <1>2 DEF Sound
    <2>2. seq'[w.bus] = seq[w.bus] /\ (Place(w.bus) \in Done => Place(w.bus)' \in Done)
      BY <2>1 DEF Place, Done
    <2>3. w.pc \in Reading => Holds(w)'
      BY <2>2, MoveGood DEF Sound, Holds
    <2>4. w.pc \in {"ended", "closed"} => Told(w)'
      BY <2>2 DEF Sound, Told
    <2>5. w.pc = "ended" => Whole(w)'
      BY <2>1, <2>2 DEF Sound, Whole
    <2> QED
      BY <1>2, <2>1, <2>3, <2>4, <2>5 DEF Sound, Outside
  <1> QED
    BY <1>1, <1>2

\* A step of a stream: it becomes a sound one.
LEMMA OneStream ==
    ASSUME TypeInv, StreamsInv, NEW x \in Streams, NEW new,
           stream' = [stream EXCEPT ![x] = new],
           seq' = seq, task' = task, send' = send, Sound(x, new),
           stream[x].pc # "none" \/ x \notin Sends
    PROVE  StreamsInv'
  <1>1. ASSUME NEW y \in Streams PROVE Sound(y, stream[y])'
    <2>1. CASE y # x
      <3>1. stream'[y] = stream[y] /\ Sound(y, stream[y])
        BY <2>1 DEF StreamsInv
      <3> QED
        BY <3>1, StaysSound DEF Sound, Holds, Told, Whole, Place
    <2>2. CASE y = x
      <3>1. stream'[y] = new
        BY <2>2 DEF TypeInv
      <3> QED
        BY <2>2, <3>1 DEF Sound, Holds, Told, Whole, Place
    <2> QED
      BY <2>1, <2>2
  <1>2. ASSUME NEW s \in Sends PROVE Unsent(s)'
    <2>1. Unsent(s) /\ s \in Streams
      BY DEF StreamsInv, Streams
    <2>2. CASE s = x
      BY <2>1, <2>2 DEF Unsent
    <2>3. CASE s # x
      <3>1. stream'[s] = stream[s]
        BY <2>3
      <3> QED
        BY <2>1, <3>1 DEF Unsent
    <2> QED
      BY <2>2, <2>3
  <1> QED
    BY <1>1, <1>2 DEF StreamsInv

LEMMA OutsideSound ==
    ASSUME NEW x, NEW w, NEW new, Sound(x, w), w.pc \in Outside, new.pc \in Outside,
           new.todo = w.todo, new.queue = w.queue, new.got = w.got,
           new.dropped = w.dropped, x \in Sends /\ new.pc = "opened" => new.bus = x
    PROVE  Sound(x, new)
  BY DEF Sound, Outside, Reading

LEMMA RegisterStreams ==
    ASSUME TypeInv, StreamsInv, NEW s \in Sends, Register(s)
    PROVE  StreamsInv'
  <1> DEFINE new == [stream[s] EXCEPT !.pc = "opened", !.bus = s]
  <1>1. s \in Streams /\ stream' = [stream EXCEPT ![s] = new]
    BY RegisterStream
  <1>2. task[s] = "none" /\ stream[s].pc = "none" /\ Sound(s, stream[s])
    BY <1>1 DEF StreamsInv, Unsent, Register
  <1>3. stream[s] \in StreamType
    BY <1>1 DEF TypeInv
  <1>4. /\ new.pc = "opened" /\ new.bus = s /\ new.todo = stream[s].todo
        /\ new.queue = stream[s].queue /\ new.got = stream[s].got
        /\ new.dropped = stream[s].dropped
    BY <1>3 DEF StreamType
  <1> HIDE DEF new
  <1>5. Sound(s, new)
    BY <1>2, <1>4, OutsideSound DEF Outside
  <1>6. \A t \in Sends : /\ seq'[t] = seq[t]
                         /\ task[t] = "done" => task'[t] = "done"
    BY <1>2 DEF Register, TypeInv
  <1>7. ASSUME NEW y \in Streams PROVE Sound(y, stream[y])'
    <2>1. CASE y # s
      <3>1. stream'[y] = stream[y] /\ Sound(y, stream[y])
        BY <1>1, <2>1 DEF StreamsInv
      <3> QED
        BY <1>6, <3>1, StaysSound DEF Sound, Holds, Told, Whole, Place
    <2>2. CASE y = s
      <3>1. stream'[y] = new
        BY <1>1, <2>2 DEF TypeInv
      <3> QED
        BY <2>2, <3>1, <1>4, <1>5 DEF Sound, Outside, Reading
    <2> QED
      BY <2>1, <2>2
  <1>8. ASSUME NEW u \in Sends PROVE Unsent(u)'
    <2>1. CASE u = s
      BY <2>1 DEF Unsent, Register, TypeInv
    <2>2. CASE u # s
      <3>1. stream'[u] = stream[u]
        BY <1>1, <2>2
      <3> QED
        BY <2>2, <3>1 DEF Unsent, Register, StreamsInv
    <2> QED
      BY <2>1, <2>2
  <1> QED
    BY <1>7, <1>8 DEF StreamsInv

\* A step that changes no stream and no bus.
LEMMA QuietStreams ==
    ASSUME TypeInv, StreamsInv, stream' = stream, seq' = seq,
           \A t \in Sends : /\ task[t] = "done" => task'[t] = "done"
                            /\ send[t] # "registered" => task'[t] = task[t]
                            /\ send[t] = "registered" => send'[t] = "registered"
    PROVE  StreamsInv'
  <1>1. ASSUME NEW x \in Streams PROVE Sound(x, stream[x])'
    <2>1. Sound(x, stream[x])
      BY DEF StreamsInv
    <2> QED
      BY <2>1, StaysSound DEF Sound, Holds, Told, Whole, Place
  <1>2. ASSUME NEW s \in Sends PROVE Unsent(s)'
    BY DEF StreamsInv, Unsent
  <1> QED
    BY <1>1, <1>2 DEF StreamsInv

\* The history a stream replays when it starts is all it is owed.
LEMMA StartedStreams ==
    ASSUME TypeInv, StreamsInv, NEW x \in Streams, StartStream(x)
    PROVE  StreamsInv'
  <1>1. Sound(x, stream[x]) /\ stream[x] \in StreamType
    BY DEF StreamsInv, TypeInv
  <1>2. stream[x].bus \in Sends \/ TurnedAway(x)
    BY <1>1 DEF Sound, StartStream, TurnedAway, Streams, StreamType
  <1>3. seq' = seq /\ task' = task /\ send' = send
    BY DEF StartStream
  <1>4. CASE /\ stream[x].pc = "opened"
             /\ stream' = [stream EXCEPT ![x] = [stream[x] EXCEPT !.pc = "refused"]]
    <2> DEFINE new == [stream[x] EXCEPT !.pc = "refused"]
    <2>1. /\ new.pc = "refused" /\ new.todo = stream[x].todo
          /\ new.queue = stream[x].queue /\ new.got = stream[x].got
          /\ new.dropped = stream[x].dropped
      BY <1>1 DEF StreamType
    <2>2. stream' = [stream EXCEPT ![x] = new]
      BY <1>4
    <2> HIDE DEF new
    <2>3. Sound(x, new)
      BY <1>1, <1>4, <2>1, OutsideSound DEF Outside
    <2> QED
      BY <1>3, <1>4, <2>2, <2>3, OneStream
  <1>5. CASE /\ stream[x].pc = "opened" /\ stream[x].bus \in Sends
             /\ stream' = [stream EXCEPT ![x] =
                    [stream[x] EXCEPT !.pc = "replaying", !.todo = Replayed(x)]]
    <2> DEFINE todo == Replayed(x)
               new  == [stream[x] EXCEPT !.pc = "replaying", !.todo = todo]
               bus  == stream[x].bus
    <2>1. stream' = [stream EXCEPT ![x] = new]
      BY <1>5
    <2>2. stream[x].after \in Nat /\ seq[bus] \in Nat
      BY <1>1, <1>5, PositionsFacts DEF StreamType, TypeInv
    <2>3. Good(stream[x].after, todo, <<>>, <<>>, {}, seq[bus], Place(bus))
      BY <2>2, JoinGood DEF Replayed
    <2> HIDE DEF todo
    <2>4. /\ new.pc = "replaying" /\ new.todo = todo /\ new.bus = bus
          /\ new.queue = stream[x].queue /\ new.got = stream[x].got
          /\ new.dropped = stream[x].dropped /\ new.after = stream[x].after
      BY <1>1 DEF StreamType
    <2>5. stream[x].queue = <<>> /\ stream[x].got = <<>> /\ stream[x].dropped = {}
      BY <1>1, <1>5 DEF Sound, Outside
    <2> HIDE DEF new
    <2>6. Holds(new)
      <3>1. Lost(new) = {}
        BY <2>4, <2>5 DEF Lost
      <3>2. Rises(new.got)
        BY <2>4, <2>5 DEF Rises
      <3> QED
        BY <2>3, <2>4, <2>5, <3>1, <3>2 DEF Holds
    <2>7. Sound(x, new)
      BY <1>5, <2>4, <2>6 DEF Sound, Outside, Reading
    <2> QED
      BY <1>3, <1>5, <2>1, <2>7, OneStream
  <1> QED
    BY <1>2, <1>4, <1>5, StartedStream

LEMMA ReplayStreams ==
    ASSUME TypeInv, StreamsInv, NEW x \in Streams, Replay(x)
    PROVE  StreamsInv'
  <1> DEFINE me   == stream[x]
             live == [me EXCEPT !.pc = "live"]
             rest == Tail(me.todo)
             got  == Append(me.got, Head(me.todo))
             more == [me EXCEPT !.got = got, !.todo = rest]
  <1>1. /\ me \in StreamType /\ Sound(x, me) /\ me.pc = "replaying"
        /\ \/ me.todo = <<>> /\ stream' = [stream EXCEPT ![x] = live]
           \/ me.todo # <<>> /\ stream' = [stream EXCEPT ![x] = more]
    BY ReplayStream DEF StreamsInv, TypeInv
  <1>2. seq' = seq /\ task' = task /\ send' = send
    BY DEF Replay
  <1>3. Holds(me) /\ me.bus \in Sends
    BY <1>1 DEF Sound, Reading, Outside
  <1>4. CASE me.todo = <<>> /\ stream' = [stream EXCEPT ![x] = live]
    <2>1. /\ live.pc = "live" /\ live.todo = me.todo /\ live.bus = me.bus
          /\ live.queue = me.queue /\ live.got = me.got /\ live.after = me.after
          /\ live.dropped = me.dropped
      BY <1>1 DEF StreamType
    <2> HIDE DEF live
    <2>2. Sound(x, live)
      BY <1>3, <1>4, <2>1 DEF Sound, Holds, Lost, Outside, Reading
    <2> QED
      BY <1>1, <1>2, <1>4, <2>2, OneStream
  <1>5. CASE me.todo # <<>> /\ stream' = [stream EXCEPT ![x] = more]
    <2>1. /\ Good(me.after, rest, me.queue, got, Lost(me), seq[me.bus], Place(me.bus))
      BY <1>3, <1>5, ReplayGood DEF Holds
    <2>2. Rises(got)
      <3>1. /\ me.after \in Nat /\ me.got \in Seq(Nat) /\ seq[me.bus] \in Nat
            /\ me.todo \in Seq(Nat)
        BY <1>3 DEF Holds, Good, Typed
      <3>2. /\ Head(me.todo) \in Nat /\ 1 \in 1..Len(me.todo)
            /\ Head(me.todo) = me.todo[1]
        BY <1>5, <3>1, TailFacts
      <3>3. Head(me.todo) = SeenOf(me.after, me.got) + 1
        BY <1>3, <3>2 DEF Holds, Good, HistoryFollows
      <3>4. SeenOf(me.after, me.got) \in Nat
        BY <3>1, SeenType
      <3>5. SeenOf(me.after, me.got) < Head(me.todo)
        BY <3>3, <3>4
      <3>6. Rises(me.got) /\ YieldedBelow(me.after, me.got, seq[me.bus])
        BY <1>3 DEF Holds, Good
      <3> QED
        BY <3>1, <3>2, <3>5, <3>6, RisesAppend
    <2> HIDE DEF got, rest
    <2>3. /\ more.pc = me.pc /\ more.todo = rest /\ more.bus = me.bus
          /\ more.queue = me.queue /\ more.got = got /\ more.after = me.after
          /\ more.dropped = me.dropped
      BY <1>1 DEF StreamType
    <2> HIDE DEF more
    <2>4. Holds(more)
      <3>1. Lost(more) = Lost(me)
        BY <2>3 DEF Lost
      <3> QED
        BY <1>1, <2>1, <2>2, <2>3, <3>1 DEF Holds
    <2>5. Sound(x, more)
      BY <1>1, <1>3, <2>3, <2>4 DEF Sound, Outside, Reading
    <2> QED
      BY <1>1, <1>2, <1>5, <2>5, OneStream
  <1> QED
    BY <1>1, <1>4, <1>5

\* A stream that unsubscribes keeps what it has yielded.
LEMMA Unsubscribes ==
    ASSUME TypeInv, NEW x \in Streams, Sound(x, stream[x]), stream[x].pc \in Reading,
           NEW pc \in {"ended", "closed"}
    PROVE  LET new == Unsubscribed(x, pc)
           IN  /\ new.pc = pc /\ new.bus = stream[x].bus /\ new.after = stream[x].after
               /\ new.got = stream[x].got /\ new.dropped = stream[x].dropped
               /\ stream[x].bus \in Sends /\ Told(new)
  <1> DEFINE me  == stream[x]
             new == Unsubscribed(x, pc)
  <1>1. me \in StreamType /\ Holds(me) /\ me.bus \in Sends
    BY DEF TypeInv, Sound, Reading, Outside
  <1>2. /\ new.pc = pc /\ new.bus = me.bus /\ new.after = me.after
        /\ new.got = me.got /\ new.dropped = me.dropped
        /\ new.todo = <<>> /\ new.queue = <<>>
    BY <1>1 DEF Unsubscribed, StreamType
  <1> HIDE DEF new
  <1>3. Told(me)
    BY <1>1, HoldsTells
  <1>4. Told(new)
    <2>1. Lost(new) = Lost(me) /\ <<>> \in Seq(Nat)
      BY <1>2 DEF Lost
    <2> QED
      BY <1>2, <1>3, <2>1 DEF Told, Typed
  <1> QED
    BY <1>1, <1>2, <1>4 DEF new

LEMMA FollowStreams ==
    ASSUME TypeInv, StreamsInv, NEW x \in Streams, Follow(x)
    PROVE  StreamsInv'
  <1> DEFINE me   == stream[x]
             item == Head(me.queue)
             rest == Tail(me.queue)
             got  == Append(me.got, item)
             over == Unsubscribed(x, "ended")
             skip == [me EXCEPT !.queue = rest]
             more == [me EXCEPT !.queue = rest, !.got = got]
  <1>1. /\ me.pc = "live" /\ me.queue # <<>> /\ item \in Nat
        /\ \/ item = 0 /\ stream' = [stream EXCEPT ![x] = over]
           \/ item # 0 /\ item <= Seen(x) /\ stream' = [stream EXCEPT ![x] = skip]
           \/ Seen(x) < item /\ stream' = [stream EXCEPT ![x] = more]
    BY FollowStream
  <1>2. seq' = seq /\ task' = task /\ send' = send
    BY DEF Follow
  <1>3. me \in StreamType /\ Sound(x, me)
    BY DEF StreamsInv, TypeInv
  <1>4. Holds(me) /\ me.bus \in Sends /\ me.todo = <<>>
    BY <1>1, <1>3 DEF Sound, Reading, Outside, Holds
  <1>5. Good(me.after, <<>>, me.queue, me.got, Lost(me), seq[me.bus], Place(me.bus))
    BY <1>4 DEF Holds
  <1>6. Seen(x) = SeenOf(me.after, me.got)
    BY DEF Seen, SeenOf
  <1>7. CASE item = 0 /\ stream' = [stream EXCEPT ![x] = over]
    <2>1. /\ over.pc = "ended" /\ over.bus = me.bus /\ over.after = me.after
          /\ over.got = me.got /\ over.dropped = me.dropped /\ Told(over)
      BY <1>1, <1>3, Unsubscribes DEF Reading
    <2> HIDE DEF over
    <2>2. OwedTo(me.after, me.got, Lost(me), seq[me.bus]) = {}
      BY <1>1, <1>5, <1>7, NothingOwed
    <2>3. task[me.bus] = "done"
      <3>1. me.queue \in Seq(Nat)
        BY <1>5 DEF Good, Typed
      <3>2. 1 \in 1..Len(me.queue) /\ me.queue[1] = 0
        BY <1>1, <1>7, <3>1, TailFacts
      <3>3. Place(me.bus) \in Done
        BY <1>5, <3>2 DEF Good, QueueNew
      <3> QED
        BY <3>3 DEF Place, Done
    <2>4. Whole(over)
      BY <2>1, <2>2, <2>3 DEF Whole, Lost
    <2>5. Sound(x, over)
      BY <1>4, <2>1, <2>4 DEF Sound, Outside, Reading
    <2> QED
      BY <1>1, <1>2, <1>7, <2>5, OneStream
  <1>8. CASE /\ item # 0 /\ item <= Seen(x)
             /\ stream' = [stream EXCEPT ![x] = skip]
    <2>1. Good(me.after, <<>>, rest, me.got, Lost(me), seq[me.bus], Place(me.bus))
      BY <1>1, <1>5, <1>6, <1>8, SkipGood
    <2> HIDE DEF rest, item
    <2>2. /\ skip.pc = "live" /\ skip.todo = <<>> /\ skip.bus = me.bus
          /\ skip.queue = rest /\ skip.got = me.got /\ skip.after = me.after
          /\ skip.dropped = me.dropped
      BY <1>1, <1>3, <1>4 DEF StreamType
    <2> HIDE DEF skip
    <2>3. Holds(skip)
      <3>1. Lost(skip) = Lost(me)
        BY <2>2 DEF Lost
      <3> QED
        BY <1>4, <2>1, <2>2, <3>1 DEF Holds
    <2>4. Sound(x, skip)
      BY <1>4, <2>2, <2>3 DEF Sound, Outside, Reading
    <2> QED
      BY <1>1, <1>2, <1>8, <2>4, OneStream
  <1>9. CASE Seen(x) < item /\ stream' = [stream EXCEPT ![x] = more]
    <2>1. Good(me.after, <<>>, rest, got, Lost(me), seq[me.bus], Place(me.bus))
      <3>1. SeenOf(me.after, me.got) < Head(me.queue) /\ me.queue # <<>>
        BY <1>1, <1>6, <1>9
      <3> HIDE DEF me
      <3> QED
        BY <3>1, <1>5, DeliverGood
    <2>2. Rises(got)
      <3>1. /\ me.after \in Nat /\ me.got \in Seq(Nat) /\ seq[me.bus] \in Nat
            /\ Rises(me.got) /\ YieldedBelow(me.after, me.got, seq[me.bus])
        BY <1>4 DEF Holds, Good, Typed
      <3> QED
        BY <1>1, <1>6, <1>9, <3>1, RisesAppend
    <2> HIDE DEF rest, item, got
    <2>3. /\ more.pc = "live" /\ more.todo = <<>> /\ more.bus = me.bus
          /\ more.queue = rest /\ more.got = got /\ more.after = me.after
          /\ more.dropped = me.dropped
      BY <1>1, <1>3, <1>4 DEF StreamType
    <2> HIDE DEF more
    <2>4. Holds(more)
      <3>1. Lost(more) = Lost(me)
        BY <2>3 DEF Lost
      <3> QED
        BY <2>1, <2>2, <2>3, <3>1 DEF Holds
    <2>5. Sound(x, more)
      BY <1>4, <2>3, <2>4 DEF Sound, Outside, Reading
    <2> QED
      BY <1>1, <1>2, <1>9, <2>5, OneStream
  <1> QED
    BY <1>1, <1>7, <1>8, <1>9

LEMMA DisconnectStreams ==
    ASSUME TypeInv, StreamsInv, NEW x \in Streams, Disconnect(x)
    PROVE  StreamsInv'
  <1>1. seq' = seq /\ task' = task /\ send' = send
    BY DEF Disconnect
  <1>2. Sound(x, stream[x]) /\ stream[x] \in StreamType
    BY DEF StreamsInv, TypeInv
  <1>3. CASE /\ stream[x].pc \in {"polled", "opened"}
             /\ stream' = [stream EXCEPT ![x] = [NoStream EXCEPT !.pc = "away"]]
    <2> DEFINE new == [NoStream EXCEPT !.pc = "away"]
    <2>1. /\ new.pc = "away" /\ new.todo = <<>> /\ new.queue = <<>>
          /\ new.got = <<>> /\ new.dropped = {}
      BY DEF NoStream
    <2>2. stream' = [stream EXCEPT ![x] = new]
      BY <1>3
    <2> HIDE DEF new
    <2>3. Sound(x, new)
      BY <2>1 DEF Sound, Outside, Reading
    <2> QED
      BY <1>1, <1>3, <2>2, <2>3, OneStream
  <1>4. CASE /\ stream[x].pc \in {"replaying", "live"}
             /\ stream' = [stream EXCEPT ![x] = Unsubscribed(x, "closed")]
    <2> DEFINE new == Unsubscribed(x, "closed")
    <2>1. new.pc = "closed" /\ new.bus = stream[x].bus /\ Told(new)
          /\ stream[x].bus \in Sends
      BY <1>2, <1>4, Unsubscribes DEF Reading
    <2>2. stream' = [stream EXCEPT ![x] = new]
      BY <1>4
    <2> HIDE DEF new
    <2>3. Sound(x, new)
      BY <2>1 DEF Sound, Outside, Reading
    <2> QED
      BY <1>1, <1>4, <2>2, <2>3, OneStream
  <1> QED
    BY <1>3, <1>4, DisconnectStream

\* The bus of a running task publishes: every reader is sent the event, or loses it.
LEMMA PublishStreams ==
    ASSUME TypeInv, StreamsInv, NEW t \in Sends, publish(t)
    PROVE  StreamsInv'
  <1> DEFINE n == seq[t]
  <1>1. /\ n \in Nat /\ n + 1 \in Nat /\ n + 1 # 0 /\ n + 1 \in Positions
        /\ seq' = [seq EXCEPT ![t] = n + 1] /\ task[t] = "running"
        /\ Broadcast(t, n + 1) /\ task' = task /\ send' = send
    <2>1. seq[t] \in Nat /\ MaxEvents[t] \in Nat /\ seq[t] < MaxEvents[t]
      BY ChatRunAssumption DEF publish, TypeInv
    <2>2. seq[t] + 1 \in Nat /\ seq[t] + 1 <= MaxEvents[t] /\ seq[t] + 1 \in Positions
      BY <2>1, PositionsFacts
    <2> QED
      BY <2>1, <2>2 DEF publish, TypeInv
  <1>2. seq'[t] = n + 1 /\ \A u \in Sends \ {t} : seq'[u] = seq[u]
    BY <1>1 DEF TypeInv
  <1>3. Place(t) \notin Done /\ \A u \in Sends : Place(u)' = Place(u)
    BY <1>1 DEF Place, Done
  <1>4. ASSUME NEW x \in Streams
        PROVE  Sound(x, stream[x])' /\ stream'[x].pc = stream[x].pc
    <2> DEFINE me == stream[x]
    <2>1. Sound(x, me) /\ me \in StreamType
      BY DEF StreamsInv, TypeInv
    <2>2. \/ x \notin Subscribers(t) /\ stream'[x] = me
          \/ /\ x \in Subscribers(t)
             /\ stream'[x] = [me EXCEPT !.queue = Append(me.queue, n + 1)]
          \/ /\ x \in Subscribers(t)
             /\ stream'[x] = [me EXCEPT !.dropped = me.dropped \cup {n + 1}]
      BY <1>1, BroadcastStreams
    <2>3. CASE x \notin Subscribers(t) /\ stream'[x] = me
      <3>1. CASE me.pc \in Outside
        BY <2>1, <2>3, <3>1 DEF Sound, Outside, Reading
      <3>2. CASE me.pc \notin Outside /\ me.bus # t
        <4>1. me.bus \in Sends /\ seq'[me.bus] = seq[me.bus]
          BY <1>2, <2>1, <3>2 DEF Sound
        <4> QED
          BY <1>1, <1>3, <2>1, <2>3, <4>1
          DEF Sound, Outside, Reading, Holds, Told, Whole
      <3>3. CASE me.pc \notin Outside /\ me.bus = t
        <4>1. me.pc \notin Reading /\ me.pc # "ended"
          BY <1>1, <2>1, <2>3, <3>3 DEF Subscribers, Reading, Sound, Whole
        <4>2. Told(me)
          BY <2>1, <3>3, <4>1 DEF Sound, StreamType, Pcs, Outside, Reading
        <4>3. Told(me)'
          <5>1. Lost(me) \subseteq 1..(n + 1)
            BY <1>1, <3>3, <4>2 DEF Told, Typed
          <5>2. SeenOf(me.after, me.got) \in Nat
            BY <4>2, SeenType DEF Told, Typed
          <5>3. YieldedBelow(me.after, me.got, n + 1)
            BY <1>1, <3>3, <4>2, <5>2 DEF Told, YieldedBelow
          <5>4. Lost(me)' = Lost(me) /\ seq'[me.bus] = n + 1
            BY <1>2, <2>3, <3>3 DEF Lost
          <5> QED
            BY <1>1, <2>3, <3>3, <4>2, <5>1, <5>3, <5>4 DEF Told, Typed
        <4> QED
          BY <2>1, <2>3, <4>1, <4>3 DEF Sound, Outside, Reading
      <3> QED
        BY <2>3, <3>1, <3>2, <3>3
    <2>4. ASSUME x \in Subscribers(t)
          PROVE  me.pc \in Reading /\ me.bus = t /\ Holds(me)
      BY <2>1, <2>4 DEF Subscribers, Reading, Sound
    <2>5. CASE /\ x \in Subscribers(t)
               /\ stream'[x] = [me EXCEPT !.queue = Append(me.queue, n + 1)]
      <3> DEFINE q   == Append(me.queue, n + 1)
                 new == [me EXCEPT !.queue = q]
      <3>1. Good(me.after, me.todo, q, me.got, Lost(me), n + 1, Place(t))
        BY <1>3, <2>4, <2>5, EnqueueGood DEF Holds
      <3> HIDE DEF q
      <3>2. /\ new.pc = me.pc /\ new.bus = t /\ new.after = me.after
            /\ new.todo = me.todo /\ new.got = me.got /\ new.queue = q
            /\ new.dropped = me.dropped
        BY <2>1, <2>4, <2>5 DEF StreamType
      <3>3. stream'[x] = new
        BY <2>5 DEF q
      <3> HIDE DEF new
      <3>4. Lost(new) = Lost(me)
        BY <3>2 DEF Lost
      <3>5. Holds(stream[x])'
        BY <1>2, <1>3, <2>4, <2>5, <3>1, <3>2, <3>3, <3>4 DEF Holds, Lost
      <3> QED
        BY <2>4, <2>5, <3>2, <3>3, <3>5 DEF Sound, Outside, Reading
    <2>6. CASE /\ x \in Subscribers(t)
               /\ stream'[x] = [me EXCEPT !.dropped = me.dropped \cup {n + 1}]
      <3> DEFINE d   == me.dropped \cup {n + 1}
                 new == [me EXCEPT !.dropped = d]
      <3>1. Good(me.after, me.todo, me.queue, me.got, Lost(me) \cup {n + 1}, n + 1,
                 Place(t))
        BY <1>3, <2>4, <2>6, DropGood DEF Holds
      <3>2. d \ {Sentinel} = Lost(me) \cup {n + 1}
        BY <1>1 DEF Lost, Sentinel
      <3> HIDE DEF d
      <3>3. /\ new.pc = me.pc /\ new.bus = t /\ new.after = me.after
            /\ new.todo = me.todo /\ new.got = me.got /\ new.queue = me.queue
            /\ new.dropped = d
        BY <2>1, <2>4, <2>6 DEF StreamType
      <3>4. stream'[x] = new
        BY <2>6 DEF d
      <3> HIDE DEF new
      <3>5. Holds(stream[x])'
        BY <1>2, <1>3, <2>4, <2>6, <3>1, <3>2, <3>3, <3>4 DEF Holds, Lost
      <3> QED
        BY <2>4, <2>6, <3>3, <3>4, <3>5 DEF Sound, Outside, Reading
    <2> QED
      BY <2>2, <2>3, <2>5, <2>6, <2>1 DEF StreamType
  <1>5. \A s \in Sends : Unsent(s)'
    BY <1>1, <1>4 DEF StreamsInv, Unsent, Streams
  <1> QED
    BY <1>4, <1>5 DEF StreamsInv

\* The bus of a run that ends sends the sentinel, or loses it.
LEMMA FinishStreams ==
    ASSUME TypeInv, StreamsInv, NEW t \in Sends, Finish(t)
    PROVE  StreamsInv'
  <1>1. /\ seq' = seq /\ send' = send /\ task' = [task EXCEPT ![t] = "done"]
        /\ task[t] \in {"running", "stopping"} /\ Broadcast(t, 0)
    BY DEF Finish, Sentinel
  <1>2. task'[t] = "done" /\ \A u \in Sends \ {t} : task'[u] = task[u]
    BY <1>1 DEF TypeInv
  <1>3. Place(t) \notin Done /\ Place(t)' \in Done /\ seq'[t] = seq[t]
    BY <1>1, <1>2 DEF Place, Done
  <1>4. \A u \in Sends : /\ seq'[u] = seq[u]
                         /\ task[u] = "done" => task'[u] = "done"
    BY <1>1, <1>2
  <1>5. ASSUME NEW x \in Streams
        PROVE  Sound(x, stream[x])' /\ stream'[x].pc = stream[x].pc
    <2> DEFINE me == stream[x]
    <2>1. Sound(x, me) /\ me \in StreamType
      BY DEF StreamsInv, TypeInv
    <2>2. \/ x \notin Subscribers(t) /\ stream'[x] = me
          \/ /\ x \in Subscribers(t)
             /\ stream'[x] = [me EXCEPT !.queue = Append(me.queue, 0)]
          \/ /\ x \in Subscribers(t)
             /\ stream'[x] = [me EXCEPT !.dropped = me.dropped \cup {0}]
      BY <1>1, PositionsFacts, BroadcastStreams
    <2>3. CASE stream'[x] = me
      BY <1>4, <2>1, <2>3, StaysSound DEF Sound, Holds, Told, Whole, Place
    <2>4. ASSUME x \in Subscribers(t)
          PROVE  me.pc \in Reading /\ me.bus = t /\ Holds(me)
      BY <2>1, <2>4 DEF Subscribers, Reading, Sound
    <2>5. CASE /\ x \in Subscribers(t)
               /\ stream'[x] = [me EXCEPT !.queue = Append(me.queue, 0)]
      <3> DEFINE q   == Append(me.queue, 0)
                 new == [me EXCEPT !.queue = q]
      <3>1. Good(me.after, me.todo, q, me.got, Lost(me), seq[t], Place(t)')
        BY <1>3, <2>4, <2>5, SentinelGood DEF Holds
      <3> HIDE DEF q
      <3>2. /\ new.pc = me.pc /\ new.bus = t /\ new.after = me.after
            /\ new.todo = me.todo /\ new.got = me.got /\ new.queue = q
            /\ new.dropped = me.dropped
        BY <2>1, <2>4, <2>5 DEF StreamType
      <3>3. stream'[x] = new
        BY <2>5 DEF q
      <3> HIDE DEF new
      <3>5. Holds(stream[x])'
        BY <1>3, <2>4, <2>5, <3>1, <3>2, <3>3 DEF Holds, Lost, Place
      <3> QED
        BY <2>4, <2>5, <3>2, <3>3, <3>5 DEF Sound, Outside, Reading
    <2>6. CASE /\ x \in Subscribers(t)
               /\ stream'[x] = [me EXCEPT !.dropped = me.dropped \cup {0}]
      <3> DEFINE d   == me.dropped \cup {0}
                 new == [me EXCEPT !.dropped = d]
      <3>1. Good(me.after, me.todo, me.queue, me.got, Lost(me), seq[t], Place(t)')
        BY <1>3, <2>4, <2>6, SentinelGood DEF Holds
      <3>2. d \ {Sentinel} = Lost(me)
        BY DEF Lost, Sentinel
      <3> HIDE DEF d
      <3>3. /\ new.pc = me.pc /\ new.bus = t /\ new.after = me.after
            /\ new.todo = me.todo /\ new.got = me.got /\ new.queue = me.queue
            /\ new.dropped = d
        BY <2>1, <2>4, <2>6 DEF StreamType
      <3>4. stream'[x] = new
        BY <2>6 DEF d
      <3> HIDE DEF new
      <3>5. Holds(stream[x])'
        BY <1>3, <2>4, <2>6, <3>1, <3>2, <3>3, <3>4 DEF Holds, Lost, Place
      <3> QED
        BY <2>4, <2>6, <3>3, <3>4, <3>5 DEF Sound, Outside, Reading
    <2> QED
      BY <2>2, <2>3, <2>5, <2>6, <2>1 DEF StreamType
  <1>6. \A s \in Sends : Unsent(s)'
    <2>1. \A s \in Sends : Unsent(s) /\ s \in Streams
      BY DEF StreamsInv, Streams
    <2> QED
      BY <1>1, <1>2, <1>5, <2>1 DEF Unsent
  <1> QED
    BY <1>5, <1>6 DEF StreamsInv

\* A watcher asks for its position, and attaches.
LEMMA WatcherStreams ==
    ASSUME TypeInv, StreamsInv, NEW w \in Watchers, RunStatus(w) \/ Attach(w)
    PROVE  StreamsInv'
  <1>1. w \in Streams /\ w \notin Sends
    BY ChatRunAssumption DEF Streams
  <1>2. stream[w] \in StreamType /\ Sound(w, stream[w])
    BY <1>1 DEF TypeInv, StreamsInv
  <1>3. seq' = seq /\ task' = task /\ send' = send /\ stream[w].pc \in Outside
    BY DEF RunStatus, Attach, Outside
  <1>4. CASE RunStatus(w)
    <2> DEFINE new == [stream[w] EXCEPT !.pc = "polled", !.after = seq[registry]]
    <2>1. stream' = [stream EXCEPT ![w] = new]
      BY <1>4, PollStream
    <2>2. /\ new.pc = "polled" /\ new.todo = stream[w].todo
          /\ new.queue = stream[w].queue /\ new.got = stream[w].got
          /\ new.dropped = stream[w].dropped
      BY <1>2 DEF StreamType
    <2> HIDE DEF new
    <2>3. Sound(w, new)
      BY <1>1, <1>2, <1>3, <2>2, OutsideSound DEF Outside
    <2> QED
      BY <1>1, <1>3, <2>1, <2>3, OneStream
  <1>5. CASE Attach(w)
    <2> DEFINE new == [stream[w] EXCEPT !.pc = "opened", !.bus = registry]
    <2>1. stream' = [stream EXCEPT ![w] = new]
      BY <1>5, AttachStream
    <2>2. /\ new.pc = "opened" /\ new.todo = stream[w].todo
          /\ new.queue = stream[w].queue /\ new.got = stream[w].got
          /\ new.dropped = stream[w].dropped
      BY <1>2 DEF StreamType
    <2> HIDE DEF new
    <2>3. Sound(w, new)
      BY <1>1, <1>2, <1>3, <2>2, OutsideSound DEF Outside
    <2> QED
      BY <1>1, <1>3, <2>1, <2>3, OneStream
  <1> QED
    BY <1>4, <1>5

\* The session's entry is the run of a send that has registered.
RegistryInv == registry # None => send[registry] = "registered"

LEMMA RegistryInit == Init => RegistryInv
  BY DEF Init, RegistryInv

LEMMA RegistryNext == TypeInv /\ RegistryInv /\ [Next]_vars => RegistryInv'
  <1> SUFFICES ASSUME TypeInv, RegistryInv, [Next]_vars PROVE RegistryInv'
    OBVIOUS
  <1>1. ASSUME NEW s \in Sends, Guard(s) \/ Register(s) PROVE RegistryInv'
    BY <1>1 DEF Guard, Register, RegistryInv, TypeInv
  <1>2. ASSUME NEW s \in Sends, Finish(s) PROVE RegistryInv'
    BY <1>2 DEF Finish, RegistryInv
  <1>3. ASSUME registry' = registry, send' = send PROVE RegistryInv'
    BY <1>3 DEF RegistryInv
  <1> QED
    BY <1>1, <1>2, <1>3
    DEF Next, vars, Start, publish, Abort, RunStatus, Attach, StartStream, Replay,
        Follow, Disconnect

LEMMA StreamsNext ==
    TypeInv /\ RegistryInv /\ StreamsInv /\ [Next]_vars => StreamsInv'
  <1> SUFFICES ASSUME TypeInv, RegistryInv, StreamsInv, [Next]_vars PROVE StreamsInv'
    OBVIOUS
  <1>1. ASSUME NEW s \in Sends, Guard(s) PROVE StreamsInv'
    BY <1>1, QuietStreams DEF Guard, TypeInv
  <1>2. ASSUME NEW s \in Sends, Start(s) PROVE StreamsInv'
    <2>1. send[s] = "registered"
      BY <1>2 DEF StreamsInv, Unsent, Start
    <2> QED
      BY <1>2, <2>1, QuietStreams DEF Start, TypeInv
  <1>3. ASSUME NEW x \in Aborts, Abort(x) PROVE StreamsInv'
    <2>1. CASE IsRunning
      <3>1. /\ registry \in Sends /\ task[registry] # "done"
            /\ send[registry] = "registered"
        BY <2>1 DEF IsRunning, TypeInv, RegistryInv
      <3>2. task' = [task EXCEPT ![registry] =
                        IF task[registry] = "ready" THEN "done" ELSE "stopping"]
        BY <1>3, <2>1 DEF Abort
      <3> QED
        BY <1>3, <3>1, <3>2, QuietStreams DEF Abort, TypeInv
    <2>2. CASE ~IsRunning
      BY <1>3, <2>2, QuietStreams DEF Abort, TypeInv
    <2> QED
      BY <2>1, <2>2
  <1>4. ASSUME NEW x \in Leaving, Disconnect(x) PROVE StreamsInv'
    BY <1>4, ChatRunAssumption, DisconnectStreams DEF Streams
  <1>5. CASE UNCHANGED vars
    BY <1>5, QuietStreams DEF vars
  <1> QED
    BY <1>1, <1>2, <1>3, <1>4, <1>5, RegisterStreams, PublishStreams, FinishStreams,
       WatcherStreams, StartedStreams, ReplayStreams, FollowStreams DEF Next

-----------------------------------------------------------------------------
(***************************************************************************)
(* The streams keep the contract.                                          *)
(***************************************************************************)
\* What the contract sees of a stream.
Record(state, of, from, got, lost) ==
    [state |-> state, of |-> of, from |-> from, got |-> got, lost |-> lost]

Seated(w, state) == Record(state, w.bus, w.after, w.got, Lost(w))
NoReader         == Record("out", None, 0, <<>>, {})

LEMMA ViewFacts ==
    ASSUME NEW x \in Streams
    PROVE  /\ Views[x] = View(x)
           /\ stream[x].pc \in Outside => View(x) = NoReader
           /\ stream[x].pc \in Reading => View(x) = Seated(stream[x], "in")
           /\ stream[x].pc = "ended" => View(x) = Seated(stream[x], "over")
           /\ stream[x].pc = "closed" => View(x) = Seated(stream[x], "left")
  BY DEF Views, View, Outside, Reading, Seated, NoReader, Record, Lost

\* The same after a step, in terms of the new record of the stream.
LEMMA NewView ==
    ASSUME TypeInv, NEW x \in Streams, NEW new, stream' = [stream EXCEPT ![x] = new]
    PROVE  /\ \A y \in Streams \ {x} : View(y)' = View(y)
           /\ new.pc \in Outside => View(x)' = NoReader
           /\ new.pc \in Reading => View(x)' = Seated(new, "in")
           /\ new.pc = "ended" => View(x)' = Seated(new, "over")
           /\ new.pc = "closed" => View(x)' = Seated(new, "left")
  <1>1. stream'[x] = new /\ \A y \in Streams \ {x} : stream'[y] = stream[y]
    BY DEF TypeInv
  <1> QED
    BY <1>1 DEF View, Outside, Reading, Seated, NoReader, Record, Lost

LEMMA OneView ==
    ASSUME NEW x \in Streams, NEW v, View(x)' = v,
           \A y \in Streams \ {x} : View(y)' = View(y)
    PROVE  Views' = [Views EXCEPT ![x] = v]
  BY DEF Views

LEMMA SameViews ==
    ASSUME \A x \in Streams : View(x)' = View(x)
    PROVE  Views' = Views
  BY DEF Views

LEMMA SameRuns ==
    ASSUME \A s \in Sends : task'[s] = "done" <=> task[s] = "done"
    PROVE  Finished' = Finished
  <1>1. \A s \in Sends : (task'[s] = "done") = (task[s] = "done")
    BY Zenon
  <1>2. Finished' = [s \in Sends |-> task'[s] = "done"]
    BY Zenon DEF Finished
  <1> QED
    BY <1>1, <1>2, Zenon DEF Finished

\* The contract sees nothing of a step that changes none of the three.
LEMMA Stutters ==
    ASSUME seq' = seq, Finished' = Finished, Views' = Views
    PROVE  UNCHANGED Contract!vars
  BY DEF Contract!vars

LEMMA ContractInit == Init => Contract!Init
  <1> SUFFICES ASSUME Init PROVE Contract!Init
    OBVIOUS
  <1>1. Finished = [s \in Sends |-> FALSE]
    <2>1. \A s \in Sends : (task[s] = "done") = FALSE
      BY DEF Init
    <2> QED
      BY <2>1, Zenon DEF Finished
  <1>2. \A x \in Streams : View(x) = NoReader
    BY ViewFacts DEF Init, NoStream, Outside
  <1>3. Views = [x \in Streams |-> NoReader]
    BY <1>2 DEF Views
  <1> QED
    BY <1>1, <1>3 DEF Init, Contract!Init, NoReader, Record

LEMMA Closes ==
    ASSUME NEW t \in Sends, task[t] # "done", seq' = seq, Views' = Views,
           task'[t] = "done", \A s \in Sends \ {t} : task'[s] = task[s]
    PROVE  Contract!Close(t)
  <1>1. \A s \in Sends : (task'[s] = "done") = IF s = t THEN TRUE ELSE task[s] = "done"
    BY Zenon
  <1>2. Finished' = [s \in Sends |-> task'[s] = "done"]
    BY Zenon DEF Finished
  <1>3. [Finished EXCEPT ![t] = TRUE] =
            [s \in Sends |-> IF s = t THEN TRUE ELSE task[s] = "done"]
    BY Zenon DEF Finished
  <1>4. Finished' = [Finished EXCEPT ![t] = TRUE]
    BY <1>1, <1>2, <1>3, Zenon
  <1>5. ~Finished[t]
    BY DEF Finished
  <1> QED
    BY <1>4, <1>5 DEF Contract!Close

\* The bus of a running task publishes: only a reader with a full queue loses the
\* event, and he is a whole queue behind.
LEMMA PublishStep ==
    ASSUME TypeInv, StreamsInv, NEW t \in Sends, publish(t)
    PROVE  Contract!Publish(t)
  <1> DEFINE n == seq[t]
             losers == {x \in Streams : x \in Subscribers(t) /\ ~HasRoom(x)}
  <1>1. /\ n \in Nat /\ n + 1 \in Nat /\ n + 1 # 0 /\ n + 1 \in Positions
        /\ seq' = [seq EXCEPT ![t] = n + 1] /\ seq'[t] = n + 1
        /\ task[t] = "running" /\ Broadcast(t, n + 1) /\ task' = task
    <2>1. seq[t] \in Nat /\ MaxEvents[t] \in Nat /\ seq[t] < MaxEvents[t]
      BY ChatRunAssumption DEF publish, TypeInv
    <2>2. seq[t] + 1 \in Nat /\ seq[t] + 1 <= MaxEvents[t] /\ seq[t] + 1 \in Positions
      BY <2>1, PositionsFacts
    <2> QED
      BY <2>1, <2>2 DEF publish, TypeInv
  <1>2. ~Finished[t]
    BY <1>1 DEF Finished
  <1>3. Finished' = [Finished EXCEPT ![t] = FALSE]
    <2>1. \A s \in Sends : (task'[s] = "done") = IF s = t THEN FALSE ELSE task[s] = "done"
      <3>1. \A s \in Sends : task'[s] = task[s]
        BY <1>1
      <3>2. (task'[t] = "done") = FALSE
        BY <1>1
      <3> QED
        BY <3>1, <3>2, Zenon
    <2>2. Finished' = [s \in Sends |-> task'[s] = "done"]
      BY Zenon DEF Finished
    <2>3. [Finished EXCEPT ![t] = FALSE] =
              [s \in Sends |-> IF s = t THEN FALSE ELSE task[s] = "done"]
      BY Zenon DEF Finished
    <2> QED
      BY <2>1, <2>2, <2>3, Zenon
  <1>4. ASSUME NEW x \in losers PROVE x \in Contract!Behind(t)
    <2> DEFINE me == stream[x]
               reached == IF me.got = <<>> THEN 0 ELSE Last(me.got)
    <2>1. x \in Streams /\ me.pc \in Reading /\ me.bus = t
      BY DEF Subscribers, Reading
    <2>2. Good(me.after, me.todo, me.queue, me.got, Lost(me), n, Place(t))
      BY <2>1 DEF StreamsInv, Sound, Holds
    <2>3. me.queue \in Seq(Nat) /\ me.got \in Seq(Nat)
      BY <2>2 DEF Good, Typed
    <2>4. Len(me.queue) >= QueueSize /\ Len(me.queue) # 0
      BY <2>3, ChatRunAssumption DEF HasRoom
    <2>5. Place(t) \notin Done
      BY <1>1 DEF Place, Done
    <2>6. reached \in Nat
      <3>1. me.got # <<>> => Len(me.got) \in 1..Len(me.got)
        BY <2>3
      <3> QED
        BY <2>3, <3>1 DEF Last
    <2>7. n >= reached + Len(me.queue)
      BY <2>2, <2>4, <2>5, FullIsBehind
    <2>8. n >= reached + QueueSize
      <3> HIDE DEF reached
      <3>1. QueueSize \in Nat /\ Len(me.queue) \in Nat
        BY <2>3, ChatRunAssumption
      <3> QED
        BY <1>1, <2>4, <2>6, <2>7, <3>1
    <2>9. Views[x].state = "in" /\ Views[x].of = t /\ Views[x].got = me.got
      BY <2>1, ViewFacts DEF Seated, Record
    <2> QED
      BY <2>1, <2>8, <2>9
      DEF Contract!Behind, Contract!Watches, Contract!IsBehind, Contract!Last, Last
  <1>5. ASSUME NEW x \in Streams
        PROVE  View(x)' = IF x \in losers
                          THEN [Views[x] EXCEPT !.lost = Views[x].lost \cup {n + 1}]
                          ELSE Views[x]
    <2> DEFINE me == stream[x]
    <2>1. me \in StreamType /\ Views[x] = View(x)
      BY ViewFacts DEF TypeInv
    <2>2. \/ x \notin Subscribers(t) /\ stream'[x] = me
          \/ /\ x \in Subscribers(t) /\ HasRoom(x)
             /\ stream'[x] = [me EXCEPT !.queue = Append(me.queue, n + 1)]
          \/ /\ x \in Subscribers(t) /\ ~HasRoom(x)
             /\ stream'[x] = [me EXCEPT !.dropped = me.dropped \cup {n + 1}]
      BY <1>1, BroadcastStreams
    <2>3. CASE x \in losers
      <3>1. stream'[x] = [me EXCEPT !.dropped = me.dropped \cup {n + 1}]
        BY <2>2, <2>3
      <3>2. /\ stream'[x].pc = me.pc /\ stream'[x].bus = me.bus
            /\ stream'[x].after = me.after /\ stream'[x].got = me.got
            /\ stream'[x].dropped = me.dropped \cup {n + 1}
        BY <2>1, <3>1 DEF StreamType
      <3>3. stream'[x].dropped \ {Sentinel} = Lost(me) \cup {n + 1}
        BY <1>1, <3>2 DEF Lost, Sentinel
      <3>4. me.pc \in Reading
        BY <2>3 DEF Subscribers, Reading
      <3>5. View(x)' = Record("in", me.bus, me.after, me.got, Lost(me) \cup {n + 1})
        BY <3>2, <3>3, <3>4 DEF View, Reading, Record
      <3>6. View(x) = Record("in", me.bus, me.after, me.got, Lost(me))
        BY <3>4, ViewFacts DEF Seated
      <3>7. [View(x) EXCEPT !.lost = View(x).lost \cup {n + 1}]
                = Record("in", me.bus, me.after, me.got, Lost(me) \cup {n + 1})
        BY <3>6 DEF Record
      <3> QED
        BY <2>1, <2>3, <3>5, <3>7
    <2>4. CASE x \notin losers
      <3>1. \/ stream'[x] = me
            \/ stream'[x] = [me EXCEPT !.queue = Append(me.queue, n + 1)]
        BY <2>2, <2>4
      <3>2. /\ stream'[x].pc = me.pc /\ stream'[x].bus = me.bus
            /\ stream'[x].after = me.after /\ stream'[x].got = me.got
            /\ stream'[x].dropped = me.dropped
        BY <2>1, <3>1 DEF StreamType
      <3> QED
        BY <2>1, <2>4, <3>2 DEF View
    <2> QED
      BY <2>3, <2>4
  <1>6. losers \in SUBSET Contract!Behind(t)
    BY <1>4
  <1> HIDE DEF losers
  <1>7. Views' = [x \in Streams |->
                  IF x \in losers THEN [Views[x] EXCEPT !.lost = @ \cup {seq'[t]}]
                  ELSE Views[x]]
    BY <1>1, <1>5 DEF Views
  <1>8. seq' = [seq EXCEPT ![t] = @ + 1]
    BY <1>1
  <1> QED
    BY <1>2, <1>3, <1>6, <1>7, <1>8, Zenon DEF Contract!Publish

\* The sentinel is no event: the contract sees the run closed and nothing else.
LEMMA FinishStep ==
    ASSUME TypeInv, StreamsInv, NEW t \in Sends, Finish(t)
    PROVE  Contract!Close(t)
  <1>1. /\ seq' = seq /\ task' = [task EXCEPT ![t] = "done"]
        /\ task[t] # "done" /\ Broadcast(t, 0)
    BY DEF Finish, Sentinel
  <1>2. ASSUME NEW x \in Streams PROVE View(x)' = View(x)
    <2> DEFINE me == stream[x]
    <2>1. me \in StreamType
      BY DEF TypeInv
    <2>2. \/ stream'[x] = me
          \/ stream'[x] = [me EXCEPT !.queue = Append(me.queue, 0)]
          \/ stream'[x] = [me EXCEPT !.dropped = me.dropped \cup {0}]
      BY <1>1, PositionsFacts, BroadcastStreams
    <2>3. /\ stream'[x].pc = me.pc /\ stream'[x].bus = me.bus
          /\ stream'[x].after = me.after /\ stream'[x].got = me.got
          /\ stream'[x].dropped \ {Sentinel} = me.dropped \ {Sentinel}
      BY <2>1, <2>2 DEF StreamType, Sentinel
    <2> QED
      BY <2>3 DEF View
  <1>3. Views' = Views
    BY <1>2, SameViews
  <1>4. task'[t] = "done" /\ \A s \in Sends \ {t} : task'[s] = task[s]
    BY <1>1 DEF TypeInv
  <1> QED
    BY <1>1, <1>3, <1>4, Closes

\* A step that changes no stream: a task may be cancelled before its first step.
LEMMA QuietStep ==
    ASSUME stream' = stream, seq' = seq,
           \/ \A s \in Sends : task'[s] = "done" <=> task[s] = "done"
           \/ \E t \in Sends : /\ task[t] # "done" /\ task'[t] = "done"
                               /\ \A s \in Sends \ {t} : task'[s] = task[s]
    PROVE  [Contract!Next]_(Contract!vars)
  <1>1. Views' = Views
    <2>1. \A x \in Streams : View(x)' = View(x)
      BY DEF View
    <2> QED
      BY <2>1, SameViews
  <1>2. CASE \A s \in Sends : task'[s] = "done" <=> task[s] = "done"
    BY <1>1, <1>2, SameRuns, Stutters
  <1>3. ASSUME NEW t \in Sends, task[t] # "done", task'[t] = "done",
               \A s \in Sends \ {t} : task'[s] = task[s]
        PROVE  [Contract!Next]_(Contract!vars)
    <2>1. Contract!Close(t)
      BY <1>1, <1>3, Closes
    <2> QED
      BY <2>1 DEF Contract!Next
  <1> QED
    BY <1>2, <1>3

LEMMA AbortStep ==
    ASSUME TypeInv, NEW x \in Aborts, Abort(x)
    PROVE  [Contract!Next]_(Contract!vars)
  <1>1. stream' = stream /\ seq' = seq
    BY DEF Abort
  <1>2. CASE IsRunning
    <2>1. /\ registry \in Sends /\ task[registry] # "done"
          /\ task' = [task EXCEPT ![registry] =
                         IF task[registry] = "ready" THEN "done" ELSE "stopping"]
      BY <1>2 DEF Abort, IsRunning, TypeInv
    <2>2. \A s \in Sends \ {registry} : task'[s] = task[s]
      BY <2>1 DEF TypeInv
    <2>3. CASE task[registry] = "ready"
      <3>1. task'[registry] = "done"
        BY <2>1, <2>3 DEF TypeInv
      <3> QED
        BY <1>1, <2>1, <2>2, <3>1, QuietStep
    <2>4. CASE task[registry] # "ready"
      <3>1. task'[registry] = "stopping"
        BY <2>1, <2>4 DEF TypeInv
      <3>2. \A s \in Sends : task'[s] = "done" <=> task[s] = "done"
        BY <2>1, <2>2, <3>1
      <3> QED
        BY <1>1, <3>2, QuietStep
    <2> QED
      BY <2>3, <2>4
  <1>3. CASE ~IsRunning
    <2>1. task' = task
      BY <1>3 DEF Abort
    <2> QED
      BY <1>1, <2>1, QuietStep
  <1> QED
    BY <1>2, <1>3

\* A stream that is not a reader's, before and after.
LEMMA OutsideStep ==
    ASSUME TypeInv, NEW x \in Streams, NEW new, stream' = [stream EXCEPT ![x] = new],
           stream[x].pc \in Outside, new.pc \in Outside, seq' = seq,
           \A s \in Sends : task'[s] = "done" <=> task[s] = "done"
    PROVE  [Contract!Next]_(Contract!vars)
  <1>1. \A y \in Streams : View(y)' = View(y)
    BY NewView, ViewFacts
  <1> QED
    BY <1>1, SameViews, SameRuns, Stutters

LEMMA RegisterStep ==
    ASSUME TypeInv, StreamsInv, NEW s \in Sends, Register(s)
    PROVE  [Contract!Next]_(Contract!vars)
  <1> DEFINE new == [stream[s] EXCEPT !.pc = "opened", !.bus = s]
  <1>1. s \in Streams /\ stream' = [stream EXCEPT ![s] = new]
    BY RegisterStream
  <1>2. task[s] = "none" /\ stream[s].pc = "none"
    BY DEF StreamsInv, Unsent, Register
  <1>3. new.pc = "opened"
    BY <1>1 DEF TypeInv, StreamType
  <1>4. seq' = seq /\ \A t \in Sends : task'[t] = "done" <=> task[t] = "done"
    BY <1>2 DEF Register, TypeInv
  <1> HIDE DEF new
  <1> QED
    BY <1>1, <1>2, <1>3, <1>4, OutsideStep DEF Outside

LEMMA WatcherStep ==
    ASSUME TypeInv, NEW w \in Watchers, RunStatus(w) \/ Attach(w)
    PROVE  [Contract!Next]_(Contract!vars)
  <1>1. w \in Streams /\ stream[w] \in StreamType
    BY DEF Streams, TypeInv
  <1>2. seq' = seq /\ task' = task /\ stream[w].pc \in Outside
    BY DEF RunStatus, Attach, Outside
  <1>3. CASE RunStatus(w)
    <2> DEFINE new == [stream[w] EXCEPT !.pc = "polled", !.after = seq[registry]]
    <2>1. stream' = [stream EXCEPT ![w] = new]
      BY <1>3, PollStream
    <2>2. new.pc = "polled"
      BY <1>1 DEF StreamType
    <2> HIDE DEF new
    <2> QED
      BY <1>1, <1>2, <2>1, <2>2, OutsideStep DEF Outside
  <1>4. CASE Attach(w)
    <2> DEFINE new == [stream[w] EXCEPT !.pc = "opened", !.bus = registry]
    <2>1. stream' = [stream EXCEPT ![w] = new]
      BY <1>4, AttachStream
    <2>2. new.pc = "opened"
      BY <1>1 DEF StreamType
    <2> HIDE DEF new
    <2> QED
      BY <1>1, <1>2, <2>1, <2>2, OutsideStep DEF Outside
  <1> QED
    BY <1>3, <1>4

Joined(v, of, k) == [v EXCEPT !.state = "in", !.of = of, !.from = k]

LEMMA JoinedRecord ==
    ASSUME NEW a, NEW b, NEW c, NEW d, NEW e, NEW of, NEW k
    PROVE  Joined(Record(a, b, c, d, e), of, k) = Record("in", of, k, d, e)
  <1> DEFINE v == [Record(a, b, c, d, e) EXCEPT !.state = "in"]
             w == [v EXCEPT !.of = of]
  <1>1. v = Record("in", b, c, d, e)
    BY DEF Record
  <1>2. Joined(Record(a, b, c, d, e), of, k) = [w EXCEPT !.from = k]
    BY DEF Record, Joined
  <1> HIDE DEF v
  <1>3. w = Record("in", of, c, d, e)
    BY <1>1 DEF Record
  <1> HIDE DEF w
  <1> QED
    BY <1>2, <1>3 DEF Record

\* A stream that starts joins its run at the client's position, or is refused.
LEMMA StartStep ==
    ASSUME TypeInv, StreamsInv, NEW x \in Streams, StartStream(x)
    PROVE  [Contract!Next]_(Contract!vars)
  <1> DEFINE me == stream[x]
  <1>1. Sound(x, me) /\ me \in StreamType
    BY DEF StreamsInv, TypeInv
  <1>2. me.bus \in Sends \/ TurnedAway(x)
    BY <1>1 DEF Sound, StartStream, TurnedAway, Streams, StreamType
  <1>3. seq' = seq /\ task' = task
    BY DEF StartStream
  <1>4. Finished' = Finished
    BY <1>3, SameRuns
  <1>5. CASE /\ me.pc = "opened"
             /\ stream' = [stream EXCEPT ![x] = [me EXCEPT !.pc = "refused"]]
    <2> DEFINE new == [me EXCEPT !.pc = "refused"]
    <2>1. new.pc = "refused" /\ stream' = [stream EXCEPT ![x] = new]
      BY <1>1, <1>5 DEF StreamType
    <2> HIDE DEF new
    <2> QED
      BY <1>3, <1>5, <2>1, OutsideStep DEF Outside
  <1>6. CASE /\ me.pc = "opened" /\ me.bus \in Sends
             /\ stream' = [stream EXCEPT ![x] =
                    [me EXCEPT !.pc = "replaying", !.todo = Replayed(x)]]
    <2> DEFINE todo == Replayed(x)
               new  == [me EXCEPT !.pc = "replaying", !.todo = todo]
    <2>1. stream' = [stream EXCEPT ![x] = new]
      BY <1>6
    <2> HIDE DEF todo
    <2>2. /\ new.pc = "replaying" /\ new.bus = me.bus /\ new.after = me.after
          /\ new.got = me.got /\ new.dropped = me.dropped
      BY <1>1 DEF StreamType
    <2>3. me.got = <<>> /\ me.dropped = {}
      BY <1>1, <1>6 DEF Sound, Outside
    <2> HIDE DEF new
    <2>4. Seated(new, "in") = Record("in", me.bus, me.after, <<>>, {})
      BY <2>2, <2>3 DEF Seated, Lost
    <2>5. Views' = [Views EXCEPT ![x] = Record("in", me.bus, me.after, <<>>, {})]
      <3>1. View(x)' = Seated(new, "in") /\ \A y \in Streams \ {x} : View(y)' = View(y)
        BY <2>1, <2>2, NewView DEF Reading
      <3> QED
        BY <2>4, <3>1, OneView
    <2>6. Views[x] = Record("out", None, 0, <<>>, {})
      BY <1>6, ViewFacts DEF Outside, NoReader
    <2>7. Joined(Views[x], me.bus, me.after) = Record("in", me.bus, me.after, <<>>, {})
      BY <2>6, JoinedRecord
    <2>8. Views[x].state = "out"
      BY <2>6 DEF Record
    <2>9. Views' = [Views EXCEPT ![x].state = "in", ![x].of = me.bus,
                                 ![x].from = me.after]
      <3>1. Views' = [Views EXCEPT ![x] = Joined(Views[x], me.bus, me.after)]
        BY <2>5, <2>7
      <3> QED
        BY <3>1 DEF Joined, Views
    <2>10. Contract!Join(x, me.bus, me.after)
      BY <1>3, <1>4, <2>8, <2>9 DEF Contract!Join
    <2> QED
      BY <1>1, <1>6, <2>10 DEF Contract!Next, StreamType
  <1> QED
    BY <1>2, <1>5, <1>6, StartedStream

OwedBy(x) == OwedTo(Views[x].from, Views[x].got, Views[x].lost, seq[Views[x].of])

\* What a stream that reads is owed, in the words of the contract.
LEMMA OwedFacts ==
    ASSUME TypeInv, StreamsInv, NEW x \in Streams, stream[x].pc \in Reading
    PROVE  /\ Holds(stream[x]) /\ stream[x].bus \in Sends
           /\ Views[x] = Seated(stream[x], "in") /\ Views[x].state = "in"
           /\ Views[x].of = stream[x].bus /\ Views[x].got = stream[x].got
           /\ OwedBy(x) = OwedTo(stream[x].after, stream[x].got, Lost(stream[x]),
                                 seq[stream[x].bus])
           /\ OwedBy(x) = Contract!Owed(x, seq[Views[x].of])
  <1>1. Holds(stream[x]) /\ stream[x].bus \in Sends
    BY DEF StreamsInv, Sound, Outside, Reading
  <1>2. Views[x] = Seated(stream[x], "in")
    BY ViewFacts
  <1>3. /\ Views[x].state = "in" /\ Views[x].of = stream[x].bus
        /\ Views[x].from = stream[x].after /\ Views[x].got = stream[x].got
        /\ Views[x].lost = Lost(stream[x])
    BY <1>2 DEF Seated, Record
  <1>4. OwedBy(x) = Contract!Owed(x, seq[Views[x].of])
    BY DEF OwedBy, OwedTo, ToSet, Contract!Owed, Contract!ToSet
  <1> QED
    BY <1>1, <1>2, <1>3, <1>4 DEF OwedBy

LEMMA Delivers ==
    ASSUME TypeInv, StreamsInv, NEW x \in Streams, stream[x].pc \in Reading,
           NEW n \in OwedBy(x), \A m \in OwedBy(x) : n <= m,
           seq' = seq, task' = task, NEW new,
           stream' = [stream EXCEPT ![x] = new], new.pc \in Reading,
           new.bus = stream[x].bus, new.after = stream[x].after,
           new.dropped = stream[x].dropped, new.got = Append(stream[x].got, n)
    PROVE  Contract!Deliver(x)
  <1> DEFINE got == Append(stream[x].got, n)
  <1>1. /\ Views[x] = Seated(stream[x], "in") /\ Views[x].state = "in"
        /\ Views[x].got = stream[x].got
        /\ OwedBy(x) = Contract!Owed(x, seq[Views[x].of])
    BY OwedFacts
  <1> HIDE DEF got
  <1>2. Seated(new, "in") = [Views[x] EXCEPT !.got = got]
    <2>1. new.got = got /\ Lost(new) = Lost(stream[x])
      BY DEF got, Lost
    <2>2. Seated(new, "in") =
              Record("in", stream[x].bus, stream[x].after, got, Lost(stream[x]))
      BY <2>1 DEF Seated
    <2>3. Views[x] = Record("in", stream[x].bus, stream[x].after, stream[x].got,
                            Lost(stream[x]))
      BY <1>1 DEF Seated
    <2> QED
      BY <2>2, <2>3 DEF Record
  <1>3. Views' = [Views EXCEPT ![x] = [Views[x] EXCEPT !.got = got]]
    <2>1. View(x)' = Seated(new, "in") /\ \A y \in Streams \ {x} : View(y)' = View(y)
      BY NewView
    <2> QED
      BY <1>2, <2>1, OneView
  <1>4. Views' = [Views EXCEPT ![x].got = Append(@, n)]
    BY <1>1, <1>3 DEF Views, got
  <1>5. Finished' = Finished
    BY SameRuns
  <1> QED
    BY <1>1, <1>4, <1>5 DEF Contract!Deliver

\* A stream that unsubscribes is seen to end, or to leave.
LEMMA GoneView ==
    ASSUME TypeInv, StreamsInv, NEW x \in Streams, stream[x].pc \in Reading,
           NEW pc \in {"ended", "closed"}, NEW state,
           (pc = "ended" /\ state = "over") \/ (pc = "closed" /\ state = "left"),
           stream' = [stream EXCEPT ![x] = Unsubscribed(x, pc)]
    PROVE  Views' = [Views EXCEPT ![x].state = state]
  <1> DEFINE new == Unsubscribed(x, pc)
  <1>1. /\ new.pc = pc /\ new.bus = stream[x].bus /\ new.after = stream[x].after
        /\ new.got = stream[x].got /\ new.dropped = stream[x].dropped
    <2>1. Sound(x, stream[x])
      BY DEF StreamsInv
    <2> QED
      BY <2>1, Unsubscribes
  <1>2. stream' = [stream EXCEPT ![x] = new]
    OBVIOUS
  <1> HIDE DEF new
  <1>3. View(x)' = Seated(new, state) /\ \A y \in Streams \ {x} : View(y)' = View(y)
    BY <1>1, <1>2, NewView
  <1>4. Views[x] = Seated(stream[x], "in")
    BY OwedFacts
  <1>5. Seated(new, state) = [Views[x] EXCEPT !.state = state]
    BY <1>1, <1>4 DEF Seated, Record, Lost
  <1>6. Views' = [Views EXCEPT ![x] = [Views[x] EXCEPT !.state = state]]
    BY <1>3, <1>5, OneView
  <1> QED
    BY <1>6 DEF Views

LEMMA ReplayStep ==
    ASSUME TypeInv, StreamsInv, NEW x \in Streams, Replay(x)
    PROVE  [Contract!Next]_(Contract!vars)
  <1> DEFINE me   == stream[x]
             live == [me EXCEPT !.pc = "live"]
             n    == Head(me.todo)
             rest == Tail(me.todo)
             got  == Append(me.got, n)
             more == [me EXCEPT !.got = got, !.todo = rest]
  <1>1. /\ me \in StreamType /\ me.pc = "replaying"
        /\ \/ me.todo = <<>> /\ stream' = [stream EXCEPT ![x] = live]
           \/ me.todo # <<>> /\ stream' = [stream EXCEPT ![x] = more]
    BY ReplayStream DEF TypeInv
  <1>2. seq' = seq /\ task' = task
    BY DEF Replay
  <1>3. CASE stream' = [stream EXCEPT ![x] = live]
    <2>1. /\ live.pc = "live" /\ live.bus = me.bus /\ live.after = me.after
          /\ live.got = me.got /\ live.dropped = me.dropped
      BY <1>1 DEF StreamType
    <2> HIDE DEF live
    <2>2. Seated(live, "in") = Seated(me, "in")
      BY <2>1 DEF Seated, Lost
    <2>3. View(x)' = Seated(live, "in") /\ \A y \in Streams \ {x} : View(y)' = View(y)
      BY <1>3, <2>1, NewView DEF Reading
    <2>4. View(x) = Seated(me, "in")
      BY <1>1, ViewFacts DEF Reading
    <2>5. Views' = Views
      BY <2>2, <2>3, <2>4, SameViews
    <2> QED
      BY <1>2, <2>5, SameRuns, Stutters
  <1>4. CASE me.todo # <<>> /\ stream' = [stream EXCEPT ![x] = more]
    <2>1. /\ Holds(me) /\ OwedBy(x) = OwedTo(me.after, me.got, Lost(me), seq[me.bus])
      BY <1>1, OwedFacts DEF Reading
    <2>2. n \in OwedBy(x) /\ \A m \in OwedBy(x) : n <= m
      BY <1>4, <2>1, ReplayGood DEF Holds
    <2> HIDE DEF got, rest
    <2>3. /\ more.pc = me.pc /\ more.bus = me.bus /\ more.after = me.after
          /\ more.got = got /\ more.dropped = me.dropped
      BY <1>1 DEF StreamType
    <2> HIDE DEF more
    <2>4. more.got = Append(me.got, n)
      BY <2>3 DEF got
    <2> HIDE DEF n
    <2>5. me.pc \in Reading /\ more.pc \in Reading
      BY <1>1, <2>3 DEF Reading
    <2>6. Contract!Deliver(x)
      BY <1>2, <1>4, <2>2, <2>3, <2>4, <2>5, Delivers
    <2> QED
      BY <2>6 DEF Contract!Next
  <1> QED
    BY <1>1, <1>3, <1>4

LEMMA FollowStep ==
    ASSUME TypeInv, StreamsInv, NEW x \in Streams, Follow(x)
    PROVE  [Contract!Next]_(Contract!vars)
  <1> DEFINE me   == stream[x]
             item == Head(me.queue)
             rest == Tail(me.queue)
             got  == Append(me.got, item)
             skip == [me EXCEPT !.queue = rest]
             more == [me EXCEPT !.queue = rest, !.got = got]
  <1>1. /\ me.pc = "live" /\ me.queue # <<>> /\ item \in Nat
        /\ \/ item = 0 /\ stream' = [stream EXCEPT ![x] = Unsubscribed(x, "ended")]
           \/ item # 0 /\ item <= Seen(x) /\ stream' = [stream EXCEPT ![x] = skip]
           \/ Seen(x) < item /\ stream' = [stream EXCEPT ![x] = more]
    BY FollowStream
  <1>2. seq' = seq /\ task' = task /\ me \in StreamType
    BY DEF Follow, TypeInv
  <1>3. me.pc \in Reading
    BY <1>1 DEF Reading
  <1>4. /\ Holds(me) /\ me.bus \in Sends /\ me.todo = <<>>
        /\ Views[x].state = "in" /\ Views[x].of = me.bus
        /\ OwedBy(x) = OwedTo(me.after, me.got, Lost(me), seq[me.bus])
        /\ OwedBy(x) = Contract!Owed(x, seq[Views[x].of])
    BY <1>1, <1>3, OwedFacts DEF Holds
  <1>5. Good(me.after, <<>>, me.queue, me.got, Lost(me), seq[me.bus], Place(me.bus))
    BY <1>4 DEF Holds
  <1>6. CASE item = 0 /\ stream' = [stream EXCEPT ![x] = Unsubscribed(x, "ended")]
    <2>1. Views' = [Views EXCEPT ![x].state = "over"]
      BY <1>3, <1>6, GoneView
    <2>2. OwedBy(x) = {}
      BY <1>1, <1>4, <1>5, <1>6, NothingOwed
    <2>3. Finished[Views[x].of]
      <3>1. me.queue \in Seq(Nat)
        BY <1>5 DEF Good, Typed
      <3>2. 1 \in 1..Len(me.queue) /\ me.queue[1] = 0
        BY <1>1, <1>6, <3>1, TailFacts
      <3>3. Place(me.bus) \in Done
        BY <1>5, <3>2 DEF Good, QueueNew
      <3> QED
        BY <1>4, <3>3 DEF Place, Done, Finished
    <2>4. Finished' = Finished
      BY <1>2, SameRuns
    <2>5. Contract!Ends(x)
      BY <1>2, <1>4, <2>1, <2>2, <2>3, <2>4 DEF Contract!Ends
    <2> QED
      BY <2>5 DEF Contract!Next
  <1>7. CASE stream' = [stream EXCEPT ![x] = skip]
    <2>1. /\ skip.pc = "live" /\ skip.bus = me.bus /\ skip.after = me.after
          /\ skip.got = me.got /\ skip.dropped = me.dropped
      BY <1>1, <1>2 DEF StreamType
    <2> HIDE DEF skip
    <2>2. Seated(skip, "in") = Seated(me, "in")
      BY <2>1 DEF Seated, Lost
    <2>3. View(x)' = Seated(skip, "in") /\ \A y \in Streams \ {x} : View(y)' = View(y)
      BY <1>7, <2>1, NewView DEF Reading
    <2>4. Views' = Views
      BY <1>3, <2>2, <2>3, ViewFacts, SameViews
    <2> QED
      BY <1>2, <2>4, SameRuns, Stutters
  <1>8. CASE Seen(x) < item /\ stream' = [stream EXCEPT ![x] = more]
    <2>1. SeenOf(me.after, me.got) < item
      BY <1>8 DEF Seen, SeenOf
    <2>2. item \in OwedBy(x) /\ \A m \in OwedBy(x) : item <= m
      <3> DEFINE owed == OwedTo(me.after, me.got, Lost(me), seq[me.bus])
      <3>1. SeenOf(me.after, me.got) < Head(me.queue) /\ me.queue # <<>>
        BY <1>1, <2>1
      <3>2. OwedBy(x) = owed
        BY <1>4
      <3> HIDE DEF me
      <3>3. item \in owed /\ \A m \in owed : item <= m
        BY <1>5, <3>1, DeliverGood
      <3> HIDE DEF owed, item
      <3> QED
        BY <3>2, <3>3
    <2> HIDE DEF rest, got
    <2>3. /\ more.pc = me.pc /\ more.bus = me.bus /\ more.after = me.after
          /\ more.got = got /\ more.dropped = me.dropped
      BY <1>2 DEF StreamType
    <2> HIDE DEF more
    <2>4. more.got = Append(me.got, item)
      BY <2>3 DEF got
    <2> HIDE DEF item
    <2>5. more.pc \in Reading
      BY <1>3, <2>3
    <2>6. Contract!Deliver(x)
      BY <1>2, <1>3, <1>8, <2>2, <2>3, <2>4, <2>5, Delivers
    <2> QED
      BY <2>6 DEF Contract!Next
  <1> QED
    BY <1>1, <1>6, <1>7, <1>8

LEMMA DisconnectStep ==
    ASSUME TypeInv, StreamsInv, NEW x \in Streams, Disconnect(x)
    PROVE  [Contract!Next]_(Contract!vars)
  <1>1. seq' = seq /\ task' = task
    BY DEF Disconnect
  <1>2. CASE /\ stream[x].pc \in {"polled", "opened"}
             /\ stream' = [stream EXCEPT ![x] = [NoStream EXCEPT !.pc = "away"]]
    <2> DEFINE new == [NoStream EXCEPT !.pc = "away"]
    <2>1. new.pc = "away" /\ stream' = [stream EXCEPT ![x] = new]
      BY <1>2 DEF NoStream
    <2> HIDE DEF new
    <2> QED
      BY <1>1, <1>2, <2>1, OutsideStep DEF Outside
  <1>3. CASE /\ stream[x].pc \in {"replaying", "live"}
             /\ stream' = [stream EXCEPT ![x] = Unsubscribed(x, "closed")]
    <2>1. Views' = [Views EXCEPT ![x].state = "left"]
      BY <1>3, GoneView DEF Reading
    <2>2. Views[x].state = "in"
      BY <1>3, OwedFacts DEF Reading
    <2>3. Finished' = Finished
      BY <1>1, SameRuns
    <2>4. Contract!Leave(x)
      BY <1>1, <2>1, <2>2, <2>3 DEF Contract!Leave
    <2> QED
      BY <2>4 DEF Contract!Next
  <1> QED
    BY <1>2, <1>3, DisconnectStream

LEMMA ContractNext ==
    TypeInv /\ StreamsInv /\ [Next]_vars => [Contract!Next]_(Contract!vars)
  <1> SUFFICES ASSUME TypeInv, StreamsInv, [Next]_vars
               PROVE  [Contract!Next]_(Contract!vars)
    OBVIOUS
  <1>1. ASSUME NEW s \in Sends, Guard(s) PROVE [Contract!Next]_(Contract!vars)
    BY <1>1, QuietStep DEF Guard
  <1>2. ASSUME NEW s \in Sends, Start(s) PROVE [Contract!Next]_(Contract!vars)
    <2>1. \A t \in Sends : task'[t] = "done" <=> task[t] = "done"
      BY <1>2 DEF Start, TypeInv
    <2> QED
      BY <1>2, <2>1, QuietStep DEF Start
  <1>3. ASSUME NEW s \in Sends, publish(s) \/ Finish(s)
        PROVE  [Contract!Next]_(Contract!vars)
    <2>1. Contract!Publish(s) \/ Contract!Close(s)
      BY <1>3, PublishStep, FinishStep
    <2> QED
      BY <2>1 DEF Contract!Next
  <1>4. ASSUME NEW x \in Leaving, Disconnect(x)
        PROVE  [Contract!Next]_(Contract!vars)
    BY <1>4, ChatRunAssumption, DisconnectStep DEF Streams
  <1>5. CASE UNCHANGED vars
    BY <1>5, QuietStep DEF vars
  <1> QED
    BY <1>1, <1>2, <1>3, <1>4, <1>5, RegisterStep, AbortStep, WatcherStep, StartStep,
       ReplayStep, FollowStep DEF Next

-----------------------------------------------------------------------------
Inv == TypeInv /\ RegistryInv /\ StreamsInv

LEMMA Invariance == Spec => []Inv
  <1>1. Init => Inv
    BY TypeInit, RegistryInit, StreamsInit DEF Inv
  <1>2. Inv /\ [Next]_vars => Inv'
    BY TypeNext, RegistryNext, SoundBuses, StreamsNext DEF Inv
  <1> QED
    BY <1>1, <1>2, PTL DEF Spec

\* The variables have their types; no queue is longer than its size and no run
\* numbers more events than it publishes.
THEOREM ChatTypes == Spec => []TypeOK
  <1>1. Inv => TypeOK
    BY DEF Inv, TypeInv, TypeOK, StreamType, Pcs
  <1> QED
    BY Invariance, <1>1, PTL

\* What a stream has yielded of its run.
LEMMA Yielded ==
    ASSUME TypeInv, StreamsInv, NEW x \in Streams, Len(stream[x].got) # 0
    PROVE  Told(stream[x])
  <1>1. Sound(x, stream[x]) /\ stream[x] \in StreamType
    BY DEF TypeInv, StreamsInv
  <1>2. stream[x].pc \notin Outside
    BY <1>1 DEF Sound
  <1>3. stream[x].pc \in Reading \/ stream[x].pc \in {"ended", "closed"}
    BY <1>1, <1>2 DEF StreamType, Pcs, Outside, Reading
  <1> QED
    BY <1>1, <1>3, HoldsTells DEF Sound

\* Whichever way an event comes, from the history or from the queue, a stream
\* yields each event once, in order and after the client's position.
THEOREM ChatInOrder == Spec => []StreamInOrder
  <1>1. Inv => StreamInOrder
    <2> SUFFICES ASSUME Inv, NEW x \in Streams, NEW i \in 1..Len(stream[x].got),
                        NEW j \in 1..Len(stream[x].got)
                 PROVE  /\ i < j => stream[x].got[i] < stream[x].got[j]
                        /\ stream[x].after < stream[x].got[i]
                        /\ stream[x].got[i] <= seq[stream[x].bus]
      BY DEF StreamInOrder
    <2> DEFINE got == stream[x].got
               bus == stream[x].bus
    <2>1. Told(stream[x])
      BY Yielded DEF Inv, TypeInv, StreamType
    <2>2. got \in Seq(Nat) /\ stream[x].after \in Nat /\ seq[bus] \in Nat
      BY <2>1 DEF Told, Typed
    <2>3. got[i] \in Nat /\ SeenOf(stream[x].after, got) \in Nat /\ Len(got) # 0
      <3>1. SeenOf(stream[x].after, got) \in Nat
        BY <2>2, SeenType
      <3> HIDE DEF got
      <3>2. got[i] \in Nat /\ Len(got) # 0
        BY <2>2 DEF got
      <3> QED
        BY <3>1, <3>2
    <2>4. /\ stream[x].after < got[i] /\ got[i] <= SeenOf(stream[x].after, got)
          /\ SeenOf(stream[x].after, got) <= seq[bus]
      BY <2>1, <2>3 DEF Told, YieldedBelow
    <2>5. i < j => got[i] < got[j]
      BY <2>1 DEF Told, Rises
    <2> HIDE DEF got, bus
    <2>6. got[i] <= seq[bus]
      BY <2>2, <2>3, <2>4
    <2> QED
      BY <2>4, <2>5, <2>6 DEF got, bus
  <1> QED
    BY Invariance, <1>1, PTL

\* A stream that saw the sentinel has yielded all that the run published after the
\* client's position, but for what its own full queue dropped.
THEOREM ChatComplete == Spec => []EndedComplete
  <1>1. Inv => EndedComplete
    <2> SUFFICES ASSUME Inv, NEW x \in Streams, stream[x].pc = "ended",
                        NEW n \in stream[x].after + 1 .. seq[stream[x].bus],
                        n \notin stream[x].dropped
                 PROVE  \E i \in 1..Len(stream[x].got) : stream[x].got[i] = n
      BY DEF EndedComplete
    <2> DEFINE got == stream[x].got
    <2>1. Whole(stream[x]) /\ Told(stream[x])
      BY DEF Inv, StreamsInv, Sound
    <2>2. n \notin OwedTo(stream[x].after, got, Lost(stream[x]), seq[stream[x].bus])
      BY <2>1 DEF Whole
    <2>3. n \in ToSet(got)
      BY <2>2 DEF OwedTo, Lost
    <2>4. got \in Seq(Nat)
      BY <2>1 DEF Told, Typed
    <2> QED
      BY <2>3, <2>4 DEF ToSet
  <1> QED
    BY Invariance, <1>1, PTL

\* The streams of the chat keep the contract of EventStream: a client gets what it
\* asked for once, in order and to the end, unless it is a whole queue behind.
THEOREM ChatKeepsTheContract == Spec => ImplementsContract
  <1>1. Inv /\ [Next]_vars => [Contract!Next]_(Contract!vars)
    BY ContractNext DEF Inv
  <1> QED
    BY ContractInit, Invariance, <1>1, PTL DEF Spec, ImplementsContract, Contract!Spec

-----------------------------------------------------------------------------
(***************************************************************************)
(* Whoever comes back does not wait for nothing.  A step of a stream or of *)
(* its run is named by the guard of the action that takes it.              *)
(***************************************************************************)
\* The stream of x can take its next step.
Going(x) ==
    \/ stream[x].pc = "opened" /\ (stream[x].bus # None => task[stream[x].bus] # "ready")
    \/ stream[x].pc = "replaying"
    \/ stream[x].pc = "live" /\ stream[x].queue # <<>>

\* The run of x has a step left.
RunGoes(x) ==
    /\ stream[x].bus \in Sends
    /\ task[stream[x].bus] \in {"ready", "running", "stopping"}

NeverInVain ==
    \A w \in Watchers :
        stream[w].pc \in {"opened", "replaying", "live"} =>
            Going(w) \/ RunGoes(w) \/ Sentinel \in stream[w].dropped

EndIn(w) ==
    \/ Sentinel \in w.dropped
    \/ \E i \in 1..Len(w.queue) : w.queue[i] = Sentinel

Begun == {"running", "stopping", "done"}

\* A client that comes back attaches to a run that was started, and reads one that
\* has begun; if it is over, the sentinel is in his queue, or found it full.
EndHeld(w) ==
    /\ w.bus \in Sends => task[w.bus] # "none"
    /\ w.pc \in Reading => /\ w.bus \in Sends /\ task[w.bus] \in Begun
                           /\ task[w.bus] = "done" => EndIn(w)

EndInv ==
    /\ registry # None => task[registry] # "none"
    /\ \A w \in Watchers : EndHeld(stream[w])

LEMMA EndInit == Init => EndInv
  BY ChatRunAssumption DEF Init, EndInv, EndHeld, NoStream, Reading, Streams

\* A step of the runs that ends none that has begun.
Continues ==
    \A t \in Sends :
        /\ task[t] # "none" => task'[t] # "none"
        /\ task[t] \in Begun => /\ task'[t] \in Begun
                                /\ task'[t] = "done" => task[t] = "done"

\* Such a step, for a client whose stream it leaves alone.
LEMMA EndStays ==
    ASSUME EndInv, NEW w \in Watchers, stream'[w] = stream[w], Continues
    PROVE  EndHeld(stream[w])'
  BY DEF EndInv, EndHeld, EndIn, Sentinel, Continues

LEMMA EndQuiet ==
    ASSUME EndInv, stream' = stream, Continues, registry' = registry,
           registry \in Sends \cup {None}
    PROVE  EndInv'
  <1>1. \A w \in Watchers : EndHeld(stream[w])'
    BY EndStays
  <1>2. registry' # None => task'[registry'] # "none"
    BY DEF EndInv, Continues
  <1> QED
    BY <1>1, <1>2 DEF EndInv

\* A step that replaces the stream of x.
LEMMA EndOne ==
    ASSUME TypeInv, EndInv, NEW x \in Streams, NEW new,
           stream' = [stream EXCEPT ![x] = new], Continues,
           registry' = registry \/ task'[registry'] # "none",
           x \in Watchers => task' = task /\ EndHeld(new)
    PROVE  EndInv'
  <1>1. registry' # None => task'[registry'] # "none"
    BY DEF EndInv, Continues, TypeInv
  <1>2. ASSUME NEW w \in Watchers PROVE EndHeld(stream[w])'
    <2>1. CASE w = x
      <3>1. stream'[w] = new /\ task' = task /\ EndHeld(new)
        BY <2>1 DEF TypeInv
      <3> QED
        BY <2>1, <3>1 DEF EndHeld, EndIn, Sentinel
    <2>2. CASE w # x
      <3>1. stream'[w] = stream[w]
        BY <2>2, ChatRunAssumption DEF TypeInv, Streams
      <3> QED
        BY <3>1, EndStays
    <2> QED
      BY <2>1, <2>2
  <1> QED
    BY <1>1, <1>2 DEF EndInv

\* A broadcast reaches whoever reads the run, the sentinel included.
LEMMA EndBroadcast ==
    ASSUME TypeInv, EndInv, NEW t \in Sends, NEW item \in Positions, Broadcast(t, item),
           task[t] \in {"running", "stopping"},
           \/ task' = task /\ registry' = registry
           \/ /\ item = Sentinel
              /\ task' = [task EXCEPT ![t] = "done"] /\ registry' = None
    PROVE  EndInv'
  <1>1. registry' # None => task'[registry'] # "none"
    BY DEF EndInv
  <1>2. /\ task'[t] \in Begun /\ (task'[t] = "done" => item = Sentinel)
        /\ \A u \in Sends : u # t => task'[u] = task[u]
    BY DEF TypeInv, Begun
  <1> SUFFICES ASSUME NEW w \in Watchers PROVE EndHeld(stream[w])'
    BY <1>1 DEF EndInv
  <1>3. w \in Streams /\ stream[w] \in StreamType /\ EndHeld(stream[w])
    BY DEF EndInv, TypeInv, Streams
  <1>4. CASE w \notin Subscribers(t) /\ stream'[w] = stream[w]
    <2>1. stream[w].pc \in Reading => stream[w].bus # t
      BY <1>3, <1>4 DEF Subscribers, Reading
    <2> QED
      BY <1>2, <1>3, <1>4, <2>1 DEF EndHeld, EndIn, Sentinel, Begun
  <1>5. CASE /\ w \in Subscribers(t)
             /\ stream'[w] = [stream[w] EXCEPT
                    !.queue = Append(stream[w].queue, item)]
    <2> DEFINE q == stream[w].queue
               new == Append(q, item)
    <2>1. /\ stream'[w].pc = stream[w].pc /\ stream'[w].bus = t
          /\ stream[w].bus = t /\ stream'[w].queue = new
      BY <1>3, <1>5 DEF StreamType, Subscribers
    <2>2. q \in Seq(Positions)
      BY <1>3 DEF StreamType
    <2>3. Len(new) = Len(q) + 1 /\ new[Len(q) + 1] = item /\ Len(q) \in Nat
      BY <2>2, AppendProperties
    <2> HIDE DEF new, q
    <2>4. item = Sentinel => EndIn(stream[w])'
      BY <2>1, <2>3 DEF EndIn, Sentinel
    <2> QED
      BY <1>2, <2>1, <2>4 DEF EndHeld, Begun
  <1>6. CASE /\ w \in Subscribers(t)
             /\ stream'[w] = [stream[w] EXCEPT
                    !.dropped = stream[w].dropped \cup {item}]
    <2>1. /\ stream'[w].bus = t /\ item \in stream'[w].dropped
      BY <1>3, <1>6 DEF StreamType, Subscribers
    <2> QED
      BY <1>2, <2>1 DEF EndHeld, EndIn, Sentinel, Begun
  <1> QED
    BY <1>3, <1>4, <1>5, <1>6, BroadcastStreams

\* A stream that starts is not turned away: its run has begun and is not over.
LEMMA EndStarted ==
    ASSUME TypeInv, EndInv, NEW x \in Streams, StartStream(x)
    PROVE  EndInv'
  <1> DEFINE new == IF TurnedAway(x) THEN [stream[x] EXCEPT !.pc = "refused"]
                    ELSE [stream[x] EXCEPT !.pc = "replaying", !.todo = Replayed(x)]
  <1>1. stream' = [stream EXCEPT ![x] = new] /\ task' = task
    BY DEF StartStream
  <1>2. stream[x] \in StreamType
    BY DEF TypeInv
  <1>3. TurnedAway(x) => new.pc = "refused"
    BY <1>2 DEF StreamType
  <1>4. new.bus = stream[x].bus
    BY <1>2 DEF StreamType
  <1> HIDE DEF new
  <1>5. ASSUME x \in Watchers, ~TurnedAway(x)
        PROVE  new.bus \in Sends /\ task[new.bus] \in Begun \ {"done"}
    <2>1. EndHeld(stream[x])
      BY <1>5 DEF EndInv
    <2> QED
      BY <1>2, <1>4, <1>5, <2>1
      DEF StartStream, TurnedAway, StreamType, TypeInv, EndHeld, Begun
  <1>6. x \in Watchers => EndHeld(new)
    <2>1. x \in Watchers => EndHeld(stream[x])
      BY DEF EndInv
    <2> QED
      BY <1>3, <1>4, <1>5, <2>1 DEF EndHeld, Reading
  <1>7. Continues /\ registry' = registry
    BY <1>1 DEF Continues, Begun, StartStream
  <1> QED
    BY <1>1, <1>6, <1>7, EndOne

\* The replay takes nothing from the queue.
LEMMA EndReplayed ==
    ASSUME TypeInv, EndInv, NEW x \in Streams, Replay(x)
    PROVE  EndInv'
  <1>1. PICK new : /\ stream' = [stream EXCEPT ![x] = new]
                   /\ new.bus = stream[x].bus /\ new.queue = stream[x].queue
                   /\ new.dropped = stream[x].dropped
    <2>1. stream[x] \in StreamType
      BY DEF TypeInv
    <2>2. CASE stream' = [stream EXCEPT ![x].pc = "live"]
      <3> DEFINE w == [stream[x] EXCEPT !.pc = "live"]
      <3>1. /\ stream' = [stream EXCEPT ![x] = w]
            /\ w.bus = stream[x].bus /\ w.queue = stream[x].queue
            /\ w.dropped = stream[x].dropped
        BY <2>1, <2>2 DEF StreamType
      <3> QED
        BY <3>1
    <2>3. CASE ~(stream' = [stream EXCEPT ![x].pc = "live"])
      <3> DEFINE w == [stream[x] EXCEPT !.got = Append(@, Head(stream[x].todo)),
                                        !.todo = Tail(stream[x].todo)]
      <3>1. /\ stream' = [stream EXCEPT ![x] = w]
            /\ w.bus = stream[x].bus /\ w.queue = stream[x].queue
            /\ w.dropped = stream[x].dropped
        BY <2>1, <2>3 DEF StreamType, Replay
      <3> QED
        BY <3>1
    <2> QED
      BY <2>2, <2>3
  <1>2. x \in Watchers => EndHeld(stream[x]) /\ stream[x].pc \in Reading
    BY DEF EndInv, Replay, Reading
  <1>3. x \in Watchers => EndHeld(new)
    BY <1>1, <1>2 DEF EndHeld, EndIn
  <1>4. Continues /\ registry' = registry /\ task' = task
    BY DEF Continues, Begun, Replay
  <1> QED
    BY <1>1, <1>3, <1>4, EndOne

\* A stream that takes an item other than the sentinel leaves the sentinel in place.
LEMMA EndFollowed ==
    ASSUME TypeInv, EndInv, NEW x \in Streams, Follow(x)
    PROVE  EndInv'
  <1> DEFINE q    == stream[x].queue
             item == Head(q)
             new  == CASE item = Sentinel -> Unsubscribed(x, "ended")
                       [] item # Sentinel /\ IsNew(x, item) ->
                             [stream[x] EXCEPT !.queue = Tail(q), !.got = Append(@, item)]
                       [] item # Sentinel /\ ~IsNew(x, item) ->
                             [stream[x] EXCEPT !.queue = Tail(q)]
  <1>1. stream[x] \in StreamType /\ q \in Seq(Positions) /\ q # <<>>
    BY DEF TypeInv, StreamType, Follow
  <1>2. stream' = [stream EXCEPT ![x] = new] /\ stream[x].pc = "live"
    BY DEF Follow
  <1>3. item = Sentinel => new.pc = "ended" /\ new.bus = stream[x].bus
    BY <1>1 DEF StreamType, Unsubscribed
  <1>4. item # Sentinel =>
            /\ new.queue = Tail(q) /\ new.bus = stream[x].bus
            /\ new.dropped = stream[x].dropped
    <2>1. CASE item # Sentinel /\ IsNew(x, item)
      <3>1. new = [stream[x] EXCEPT !.queue = Tail(q), !.got = Append(@, item)]
        BY <2>1
      <3> QED
        BY <1>1, <3>1 DEF StreamType
    <2>2. CASE item # Sentinel /\ ~IsNew(x, item)
      <3>1. new = [stream[x] EXCEPT !.queue = Tail(q)]
        BY <2>2
      <3> QED
        BY <1>1, <3>1 DEF StreamType
    <2> QED
      BY <2>1, <2>2
  <1> HIDE DEF new
  <1>5. ASSUME item # Sentinel, NEW i \in 1..Len(q), q[i] = Sentinel
        PROVE  i - 1 \in 1..Len(Tail(q)) /\ Tail(q)[i - 1] = Sentinel
    <2>1. i # 1 /\ Len(q) \in Nat
      BY <1>1, <1>5
    <2> QED
      BY <1>1, <1>5, <2>1
  <1> HIDE DEF q, item
  <1>6. x \in Watchers => EndHeld(new)
    <2> SUFFICES ASSUME x \in Watchers PROVE EndHeld(new)
      OBVIOUS
    <2>1. EndHeld(stream[x]) /\ stream[x].pc \in Reading
      BY <1>2 DEF EndInv, Reading
    <2>2. CASE item = Sentinel
      BY <1>3, <2>1, <2>2 DEF EndHeld, Reading
    <2>3. CASE item # Sentinel
      <3>1. EndIn(stream[x]) => EndIn(new)
        BY <1>4, <1>5, <2>3 DEF EndIn, q
      <3> QED
        BY <1>4, <2>1, <2>3, <3>1 DEF EndHeld
    <2> QED
      BY <2>2, <2>3
  <1>7. Continues /\ registry' = registry /\ task' = task
    BY DEF Continues, Begun, Follow
  <1> QED
    BY <1>2, <1>6, <1>7, EndOne

LEMMA EndNext == Inv /\ EndInv /\ [Next]_vars => EndInv'
  <1> SUFFICES ASSUME TypeInv, StreamsInv, EndInv, [Next]_vars PROVE EndInv'
    BY DEF Inv
  <1>1. registry \in Sends \cup {None} /\ None \notin Sends
    BY ChatRunAssumption DEF TypeInv
  <1>2. ASSUME NEW s \in Sends, Guard(s) \/ Start(s) PROVE EndInv'
    <2>1. Continues /\ stream' = stream /\ registry' = registry
      BY <1>2 DEF Continues, Begun, Guard, Start, TypeInv
    <2> QED
      BY <1>1, <2>1, EndQuiet
  <1>3. ASSUME NEW s \in Sends, Register(s) PROVE EndInv'
    <2> DEFINE new == [stream[s] EXCEPT !.pc = "opened", !.bus = s]
    <2>1. task[s] = "none" /\ s \in Streams /\ s \notin Watchers
      BY <1>3, ChatRunAssumption DEF Register, StreamsInv, Unsent, Streams
    <2>2. stream' = [stream EXCEPT ![s] = new]
      BY <1>3 DEF Register
    <2>3. Continues /\ task'[registry'] # "none"
      BY <1>3, <2>1 DEF Continues, Begun, Register, TypeInv
    <2> HIDE DEF new
    <2> QED
      BY <2>1, <2>2, <2>3, EndOne
  <1>4. ASSUME NEW s \in Sends, publish(s) PROVE EndInv'
    <2>1. seq[s] + 1 \in Positions
      <3>1. seq[s] \in Nat /\ MaxEvents[s] \in Nat /\ seq[s] < MaxEvents[s]
        BY <1>4, ChatRunAssumption DEF publish, TypeInv
      <3> QED
        BY <3>1, PositionsFacts
    <2> QED
      BY <1>4, <2>1, EndBroadcast DEF publish
  <1>5. ASSUME NEW s \in Sends, Finish(s) PROVE EndInv'
    BY <1>5, EndBroadcast, PositionsFacts DEF Finish, Sentinel
  <1>6. ASSUME NEW x \in Aborts, Abort(x) PROVE EndInv'
    <2>1. Continues
      <3>1. CASE IsRunning
        <4>1. registry \in Sends /\ task[registry] \notin {"none", "done"}
          BY <1>1, <3>1 DEF IsRunning, EndInv
        <4>2. task' = [task EXCEPT ![registry] =
                          IF task[registry] = "ready" THEN "done" ELSE "stopping"]
          BY <1>6, <3>1 DEF Abort
        <4> QED
          BY <4>1, <4>2 DEF Continues, Begun, TypeInv
      <3>2. CASE ~IsRunning
        BY <1>6, <3>2 DEF Abort, Continues
      <3> QED
        BY <3>1, <3>2
    <2> QED
      BY <1>1, <1>6, <2>1, EndQuiet DEF Abort
  <1>7. ASSUME NEW w \in Watchers, RunStatus(w) PROVE EndInv'
    <2> DEFINE new == [stream[w] EXCEPT !.pc = "polled", !.after = seq[registry]]
    <2>1. stream' = [stream EXCEPT ![w] = new] /\ w \in Streams
      BY <1>7 DEF RunStatus, Streams
    <2>2. stream[w] \in StreamType
      BY <2>1 DEF TypeInv
    <2>3. new.pc = "polled" /\ new.bus = stream[w].bus
      BY <2>2 DEF StreamType
    <2> HIDE DEF new
    <2>4. EndHeld(new) /\ Continues /\ registry' = registry /\ task' = task
      BY <1>7, <2>3 DEF EndInv, EndHeld, Reading, Continues, Begun, RunStatus
    <2> QED
      BY <2>1, <2>4, EndOne
  <1>8. ASSUME NEW w \in Watchers, Attach(w) PROVE EndInv'
    <2> DEFINE new == [stream[w] EXCEPT !.pc = "opened", !.bus = registry]
    <2>1. stream' = [stream EXCEPT ![w] = new] /\ w \in Streams
      BY <1>8 DEF Attach, Streams
    <2>2. stream[w] \in StreamType
      BY <2>1 DEF TypeInv
    <2>3. new.pc = "opened" /\ new.bus = registry
      BY <2>2 DEF StreamType
    <2> HIDE DEF new
    <2>4. EndHeld(new) /\ Continues /\ registry' = registry /\ task' = task
      BY <1>1, <1>8, <2>3 DEF EndInv, EndHeld, Reading, Continues, Begun, Attach
    <2> QED
      BY <2>1, <2>4, EndOne
  <1>9. ASSUME NEW x \in Leaving, Disconnect(x) PROVE EndInv'
    <2> DEFINE new == IF stream[x].pc \in {"polled", "opened"}
                      THEN [NoStream EXCEPT !.pc = "away"]
                      ELSE Unsubscribed(x, "closed")
    <2>1. stream' = [stream EXCEPT ![x] = new] /\ x \in Streams
      BY <1>9, ChatRunAssumption DEF Disconnect, Streams
    <2>2. stream[x] \in StreamType
      BY <2>1 DEF TypeInv
    <2>3. /\ new.pc \in {"away", "closed"}
          /\ new.bus \in Sends => new.bus = stream[x].bus
      BY <1>1, <2>2 DEF NoStream, Unsubscribed, StreamType
    <2> HIDE DEF new
    <2>4. x \in Watchers => EndHeld(new)
      BY <2>3 DEF EndInv, EndHeld, Reading
    <2>5. Continues /\ registry' = registry /\ task' = task
      BY <1>9 DEF Continues, Begun, Disconnect
    <2> QED
      BY <2>1, <2>4, <2>5, EndOne
  <1>10. CASE UNCHANGED vars
    BY <1>1, <1>10, EndQuiet DEF vars, Continues
  <1> QED
    BY <1>2, <1>3, <1>4, <1>5, <1>6, <1>7, <1>8, <1>9, <1>10, EndStarted, EndReplayed,
       EndFollowed DEF Next

\* The safety half of AttachEnds: a client that came back and has not seen the end
\* can take a step, or his run can, or his full queue dropped the sentinel.  He
\* never waits on an empty queue for a run that is over.
THEOREM ChatNeverInVain == Spec => []NeverInVain
  <1>1. Inv /\ EndInv => NeverInVain
    <2> SUFFICES ASSUME TypeInv, EndInv, NEW w \in Watchers,
                        stream[w].pc \in {"opened", "replaying", "live"},
                        ~Going(w), Sentinel \notin stream[w].dropped
                 PROVE  RunGoes(w)
      BY DEF NeverInVain, Inv
    <2>1. stream[w] \in StreamType /\ EndHeld(stream[w])
      BY DEF TypeInv, EndInv, Streams
    <2>2. CASE stream[w].pc = "opened"
      BY <2>1, <2>2 DEF Going, RunGoes, StreamType
    <2>3. CASE stream[w].pc = "live"
      <3>1. stream[w].queue = <<>>
        BY <2>3 DEF Going
      <3>2. ~EndIn(stream[w])
        BY <3>1 DEF EndIn
      <3> QED
        BY <2>1, <2>3, <3>2 DEF EndHeld, Reading, RunGoes, Begun
    <2> QED
      BY <2>2, <2>3 DEF Going
  <1> QED
    BY EndInit, EndNext, Invariance, <1>1, PTL DEF Spec

-----------------------------------------------------------------------------
(***************************************************************************)
(* ... and every step of the stream or of its run brings the end nearer.   *)
(* With NeverInVain this is the safety behind AttachEnds; fairness, which  *)
(* makes somebody take the step, stays with TLC.                           *)
(***************************************************************************)
Active(w) == stream[w].pc \in {"opened", "replaying", "live"}

Reads(w)   == StartStream(w) \/ Replay(w) \/ Follow(w)
RunStep(t) == Start(t) \/ publish(t) \/ Finish(t)

\* The steps a run has left, at most.
RunLeft(t) ==
    IF task[t] = "done" THEN 0
    ELSE IF task[t] = "stopping" THEN 1
    ELSE IF task[t] = "running" THEN 1 + (MaxEvents[t] - seq[t])
    ELSE 2 + MaxEvents[t]

\* The steps into the replay, with the history it will have, and out of it.
Entering(w) ==
    IF stream[w].pc = "opened" THEN 2 + MaxEvents[stream[w].bus]
    ELSE IF stream[w].pc = "replaying" THEN 1 ELSE 0

\* How far a stream is from its end: a step of its run adds an item to its queue,
\* at most. One that found no run is turned away with its first step.
Distance(w) ==
    IF stream[w].bus = None THEN 0
    ELSE Entering(w) + Len(stream[w].todo) + Len(stream[w].queue)
             + 2 * RunLeft(stream[w].bus)

Nearer ==
    \A w \in Watchers : Active(w) =>
        /\ ~Active(w)' \/ Distance(w)' <= Distance(w)
        /\ Reads(w) \/ (stream[w].bus # None /\ RunStep(stream[w].bus)) =>
               ~Active(w)' \/ Distance(w)' < Distance(w)

LEMMA RunLeftIs ==
    ASSUME TypeInv, NEW t \in Sends
    PROVE  /\ RunLeft(t) \in Nat /\ MaxEvents[t] \in Nat
           /\ task[t] = "running" => RunLeft(t) = 1 + (MaxEvents[t] - seq[t])
           /\ task[t] \in {"running", "stopping"} => 1 <= RunLeft(t)
           /\ task[t] = "ready" => RunLeft(t) = 2 + MaxEvents[t]
  <1>1. MaxEvents[t] \in Nat /\ seq[t] \in Nat /\ seq[t] <= MaxEvents[t]
    BY ChatRunAssumption DEF TypeInv
  <1>2. MaxEvents[t] - seq[t] \in Nat
    BY <1>1
  <1> QED
    BY <1>1, <1>2 DEF RunLeft

\* No step gives a run that was started more to do, and its own take from it.
LEMMA RunShrinks ==
    ASSUME TypeInv, StreamsInv, TypeInv', [Next]_vars, NEW t \in Sends, task[t] # "none"
    PROVE  /\ RunLeft(t)' \in Nat
           /\ RunLeft(t)' <= RunLeft(t)
           /\ RunStep(t) => RunLeft(t)' < RunLeft(t)
  <1>1. /\ RunLeft(t) \in Nat /\ MaxEvents[t] \in Nat
        /\ task[t] = "running" => RunLeft(t) = 1 + (MaxEvents[t] - seq[t])
        /\ task[t] \in {"running", "stopping"} => 1 <= RunLeft(t)
        /\ task[t] = "ready" => RunLeft(t) = 2 + MaxEvents[t]
    BY RunLeftIs
  <1>2. seq[t] \in Nat /\ seq[t] <= MaxEvents[t]
    BY DEF TypeInv
  <1>3. seq'[t] \in Nat /\ seq'[t] <= MaxEvents[t]
    BY DEF TypeInv
  <1>4. RunLeft(t)' = IF task'[t] = "done" THEN 0
                      ELSE IF task'[t] = "stopping" THEN 1
                      ELSE IF task'[t] = "running" THEN 1 + (MaxEvents[t] - seq'[t])
                      ELSE 2 + MaxEvents[t]
    BY DEF RunLeft
  <1>5. MaxEvents[t] - seq'[t] \in Nat
    BY <1>1, <1>3
  <1>6. RunLeft(t)' \in Nat
    BY <1>1, <1>4, <1>5
  <1>7. ASSUME Start(t) PROVE RunLeft(t)' < RunLeft(t)
    <2>1. task[t] = "ready" /\ task'[t] = "running" /\ seq'[t] = seq[t]
      BY <1>7 DEF Start, TypeInv
    <2>2. RunLeft(t) = 2 + MaxEvents[t] /\ RunLeft(t)' = 1 + (MaxEvents[t] - seq[t])
      BY <1>1, <1>4, <2>1
    <2> QED
      BY <1>1, <1>2, <2>2
  <1>8. ASSUME publish(t) PROVE RunLeft(t)' < RunLeft(t)
    <2>1. task[t] = "running" /\ task'[t] = "running" /\ seq'[t] = seq[t] + 1
      BY <1>8 DEF publish, TypeInv
    <2>2. /\ RunLeft(t) = 1 + (MaxEvents[t] - seq[t])
          /\ RunLeft(t)' = 1 + (MaxEvents[t] - (seq[t] + 1))
      BY <1>1, <1>4, <2>1
    <2> QED
      BY <1>1, <1>2, <2>2
  <1>9. ASSUME Finish(t) PROVE RunLeft(t)' < RunLeft(t)
    <2>1. task[t] \in {"running", "stopping"} /\ task'[t] = "done"
      BY <1>9 DEF Finish, TypeInv
    <2>2. RunLeft(t)' = 0 /\ 1 <= RunLeft(t)
      BY <1>1, <1>4, <2>1
    <2> QED
      BY <1>1, <2>2
  <1>10. RunStep(t) => RunLeft(t)' < RunLeft(t)
    BY <1>7, <1>8, <1>9 DEF RunStep
  <1>11. ASSUME task'[t] = task[t], seq'[t] = seq[t] PROVE RunLeft(t)' <= RunLeft(t)
    <2>1. RunLeft(t)' = RunLeft(t)
      BY <1>11 DEF RunLeft
    <2> QED
      BY <1>1, <2>1
  <1>12. ASSUME NEW s \in Sends, s # t, RunStep(s) PROVE RunLeft(t)' <= RunLeft(t)
    <2>1. task'[t] = task[t] /\ seq'[t] = seq[t]
      BY <1>12 DEF RunStep, Start, publish, Finish, TypeInv
    <2> QED
      BY <1>11, <2>1
  <1>13. ASSUME NEW s \in Sends, Register(s) PROVE RunLeft(t)' <= RunLeft(t)
    <2>1. task[s] = "none"
      BY <1>13 DEF Register, StreamsInv, Unsent
    <2>2. task'[t] = task[t] /\ seq'[t] = seq[t]
      BY <1>13, <2>1 DEF Register, TypeInv
    <2> QED
      BY <1>11, <2>2
  <1>14. ASSUME NEW x \in Aborts, Abort(x) PROVE RunLeft(t)' <= RunLeft(t)
    <2>1. seq' = seq
      BY <1>14 DEF Abort
    <2>2. \/ task'[t] = task[t]
          \/ task[t] # "done" /\ task'[t] \in {"done", "stopping"}
      BY <1>14 DEF Abort, IsRunning, TypeInv
    <2>3. ASSUME task[t] # "done", task'[t] \in {"done", "stopping"}
          PROVE  RunLeft(t)' <= RunLeft(t)
      <3>1. RunLeft(t)' \in {0, 1}
        BY <1>4, <2>3
      <3>2. task[t] \in {"ready", "running", "stopping"}
        BY <2>3 DEF TypeInv
      <3>3. 1 <= RunLeft(t)
        BY <1>1, <3>2
      <3> QED
        BY <1>1, <3>1, <3>3
    <2> QED
      BY <1>11, <2>1, <2>2, <2>3
  <1>15. RunStep(t) => RunLeft(t)' <= RunLeft(t)
    BY <1>1, <1>6, <1>10
  <1>16. ASSUME task' = task, seq' = seq PROVE RunLeft(t)' <= RunLeft(t)
    BY <1>11, <1>16
  <1>17. RunLeft(t)' <= RunLeft(t)
    BY <1>12, <1>13, <1>14, <1>15, <1>16
    DEF Next, RunStep, Guard, RunStatus, Attach, StartStream, Replay, Follow,
        Disconnect, vars
  <1> QED
    BY <1>6, <1>10, <1>17

\* A step of its own takes from what a stream has to do, or ends it.
LEMMA ReadShrinks ==
    ASSUME TypeInv, NEW w \in Watchers, EndHeld(stream[w]), Reads(w), Active(w)'
    PROVE  /\ task' = task /\ seq' = seq /\ stream'[w].bus = stream[w].bus
           /\ stream[w].bus \in Sends
           /\ Entering(w) + Len(stream[w].todo) + Len(stream[w].queue) \in Nat
           /\ (Entering(w) + Len(stream[w].todo) + Len(stream[w].queue))' \in Nat
           /\ (Entering(w) + Len(stream[w].todo) + Len(stream[w].queue))'
                  < Entering(w) + Len(stream[w].todo) + Len(stream[w].queue)
  <1> DEFINE me == stream[w]
  <1>1. w \in Streams /\ me \in StreamType
    BY DEF TypeInv, Streams
  <1>2. Len(me.todo) \in Nat /\ Len(me.queue) \in Nat
    BY <1>1 DEF StreamType
  <1>3. task' = task /\ seq' = seq
    BY DEF Reads, StartStream, Replay, Follow
  <1>4. stream'[w].pc \in {"opened", "replaying", "live"}
    BY DEF Active
  <1>5. ASSUME NEW new, stream' = [stream EXCEPT ![w] = new] PROVE stream'[w] = new
    BY <1>1, <1>5 DEF TypeInv
  <1>6. CASE StartStream(w)
    <2>1. ~TurnedAway(w)
      <3> SUFFICES ASSUME TurnedAway(w) PROVE FALSE
        OBVIOUS
      <3>1. stream' = [stream EXCEPT ![w] = [stream[w] EXCEPT !.pc = "refused"]]
        BY <1>6 DEF StartStream
      <3>2. stream'[w].pc = "refused"
        BY <1>1, <1>5, <3>1 DEF StreamType
      <3> QED
        BY <1>4, <3>2
    <2>2. me.bus \in Sends /\ me.pc = "opened"
      BY <1>1, <1>6, <2>1 DEF TurnedAway, StreamType, StartStream
    <2> DEFINE new == [me EXCEPT !.pc = "replaying", !.todo = Replayed(w)]
    <2>3. stream' = [stream EXCEPT ![w] = new]
      BY <1>6, <2>1 DEF StartStream
    <2>4. /\ stream'[w].bus = me.bus /\ stream'[w].pc = "replaying"
          /\ stream'[w].todo = Replayed(w) /\ stream'[w].queue = me.queue
      BY <1>1, <1>5, <2>3 DEF StreamType
    <2>5. Len(Replayed(w)) \in Nat /\ Len(Replayed(w)) <= MaxEvents[me.bus]
      <3>1. seq[me.bus] \in Nat /\ seq[me.bus] <= MaxEvents[me.bus]
            /\ MaxEvents[me.bus] \in Nat /\ me.after \in Nat
        BY <1>1, <2>2, ChatRunAssumption, PositionsFacts DEF TypeInv, StreamType
      <3> DEFINE len == IF me.after < seq[me.bus] THEN seq[me.bus] - me.after ELSE 0
      <3>2. len \in Nat /\ len <= MaxEvents[me.bus]
        BY <3>1
      <3>3. Replayed(w) = [i \in 1..len |-> me.after + i]
        BY DEF Replayed
      <3>4. Replayed(w) \in Seq(Positions)
        BY <1>1, <2>2, ReplayedType
      <3> HIDE DEF len
      <3>5. Len(Replayed(w)) = len
        BY <3>2, <3>3, <3>4, LenProperties
      <3> QED
        BY <3>2, <3>5
    <2>6. Entering(w) = 2 + MaxEvents[me.bus] /\ MaxEvents[me.bus] \in Nat
      BY <2>2, ChatRunAssumption DEF Entering
    <2>7. Entering(w)' = 1
      BY <2>4 DEF Entering
    <2>8. \A a, b, c, m \in Nat : a <= m => /\ 1 + a + c < (2 + m) + b + c
                                            /\ 1 + a + c \in Nat /\ (2 + m) + b + c \in Nat
      OBVIOUS
    <2>9. LET m == MaxEvents[me.bus]
              a == Len(Replayed(w))
          IN  /\ 1 + a + Len(me.queue) < (2 + m) + Len(me.todo) + Len(me.queue)
              /\ 1 + a + Len(me.queue) \in Nat
              /\ (2 + m) + Len(me.todo) + Len(me.queue) \in Nat
      BY <1>2, <2>5, <2>6, <2>8
    <2> QED
      BY <1>3, <2>2, <2>4, <2>6, <2>7, <2>9
  <1>7. CASE Replay(w)
    <2>1. me.bus \in Sends /\ me.pc = "replaying"
      BY <1>7 DEF Replay, EndHeld, Reading
    <2>2. Entering(w) = 1
      BY <2>1 DEF Entering
    <2>3. CASE me.todo = <<>>
      <3> DEFINE new == [me EXCEPT !.pc = "live"]
      <3>1. stream' = [stream EXCEPT ![w] = new]
        BY <1>1, <1>7, <2>3 DEF Replay, TypeInv
      <3>2. /\ stream'[w].bus = me.bus /\ stream'[w].pc = "live"
            /\ stream'[w].todo = me.todo /\ stream'[w].queue = me.queue
        BY <1>1, <1>5, <3>1 DEF StreamType
      <3>3. Entering(w)' = 0
        BY <3>2 DEF Entering
      <3>4. \A b, c \in Nat : /\ 0 + b + c < 1 + b + c
                              /\ 0 + b + c \in Nat /\ 1 + b + c \in Nat
        OBVIOUS
      <3>5. /\ 0 + Len(me.todo) + Len(me.queue) < 1 + Len(me.todo) + Len(me.queue)
            /\ 0 + Len(me.todo) + Len(me.queue) \in Nat
            /\ 1 + Len(me.todo) + Len(me.queue) \in Nat
        BY <1>2, <3>4
      <3> QED
        BY <1>3, <2>1, <2>2, <3>2, <3>3, <3>5
    <2>4. CASE me.todo # <<>>
      <3> DEFINE got  == Append(me.got, Head(me.todo))
                 todo == Tail(me.todo)
                 new  == [me EXCEPT !.got = got, !.todo = todo]
      <3>1. stream' = [stream EXCEPT ![w] = new]
        BY <1>1, <1>7, <2>4 DEF Replay, TypeInv, StreamType
      <3>2. Len(todo) \in Nat /\ Len(me.todo) = Len(todo) + 1
        <4>1. me.todo \in Seq(Positions)
          BY <1>1 DEF StreamType
        <4>2. Len(Tail(me.todo)) = Len(me.todo) - 1 /\ Len(me.todo) # 0
          BY <2>4, <4>1
        <4> QED
          BY <1>2, <4>2
      <3> HIDE DEF got, todo
      <3>0. /\ new.bus = me.bus /\ new.pc = me.pc
            /\ new.todo = todo /\ new.queue = me.queue
        BY <1>1 DEF StreamType
      <3> HIDE DEF new
      <3>3. /\ stream'[w].bus = me.bus /\ stream'[w].pc = "replaying"
            /\ stream'[w].todo = todo /\ stream'[w].queue = me.queue
        BY <1>5, <2>1, <3>0, <3>1
      <3>4. Entering(w)' = 1
        BY <3>3 DEF Entering
      <3>5. \A b, c \in Nat : /\ 1 + b + c < 1 + (b + 1) + c
                              /\ 1 + b + c \in Nat /\ 1 + (b + 1) + c \in Nat
        OBVIOUS
      <3>6. /\ 1 + Len(todo) + Len(me.queue) < 1 + (Len(todo) + 1) + Len(me.queue)
            /\ 1 + Len(todo) + Len(me.queue) \in Nat
            /\ 1 + (Len(todo) + 1) + Len(me.queue) \in Nat
        BY <1>2, <3>2, <3>5
      <3>7. 1 + (Len(todo) + 1) + Len(me.queue) = 1 + Len(me.todo) + Len(me.queue)
        BY <3>2
      <3> QED
        BY <1>3, <2>1, <2>2, <3>3, <3>4, <3>6, <3>7
    <2> QED
      BY <2>3, <2>4
  <1>8. CASE Follow(w)
    <2> DEFINE item == Head(me.queue)
               rest == Tail(me.queue)
               got  == Append(me.got, item)
               over == Unsubscribed(w, "ended")
               skip == [me EXCEPT !.queue = rest]
               more == [me EXCEPT !.queue = rest, !.got = got]
    <2>1. /\ me.queue # <<>> /\ me.pc = "live"
          /\ \/ stream' = [stream EXCEPT ![w] = over]
             \/ stream' = [stream EXCEPT ![w] = skip]
             \/ stream' = [stream EXCEPT ![w] = more]
      BY <1>1, <1>8, FollowStream, ZenonT(30)
    <2>2. me.bus \in Sends
      BY <2>1 DEF EndHeld, Reading
    <2>3. Len(rest) \in Nat /\ Len(me.queue) = Len(rest) + 1
      <3>1. me.queue \in Seq(Positions)
        BY <1>1 DEF StreamType
      <3>2. Len(Tail(me.queue)) = Len(me.queue) - 1 /\ Len(me.queue) # 0
        BY <2>1, <3>1
      <3> QED
        BY <1>2, <3>2
    <2> HIDE DEF item, rest, got
    <2>4. over.pc = "ended"
      BY <1>1 DEF Unsubscribed, StreamType
    <2>5. /\ skip.bus = me.bus /\ skip.pc = me.pc /\ skip.todo = me.todo
          /\ skip.queue = rest
          /\ more.bus = me.bus /\ more.pc = me.pc /\ more.todo = me.todo
          /\ more.queue = rest
      BY <1>1 DEF StreamType
    <2> HIDE DEF over, skip, more
    <2>6. stream'[w] = over \/ stream'[w] = skip \/ stream'[w] = more
      BY <1>5, <2>1
    <2>7. stream'[w] # over
      BY <1>4, <2>4
    <2>8. /\ stream'[w].bus = me.bus /\ stream'[w].pc = "live"
          /\ stream'[w].todo = me.todo /\ stream'[w].queue = rest
      BY <2>1, <2>5, <2>6, <2>7
    <2>9. Entering(w) = 0 /\ Entering(w)' = 0
      BY <2>1, <2>8 DEF Entering
    <2>10. \A b, c \in Nat : /\ 0 + b + c < 0 + b + (c + 1)
                             /\ 0 + b + c \in Nat /\ 0 + b + (c + 1) \in Nat
      OBVIOUS
    <2>11. /\ 0 + Len(me.todo) + Len(rest) < 0 + Len(me.todo) + (Len(rest) + 1)
           /\ 0 + Len(me.todo) + Len(rest) \in Nat
           /\ 0 + Len(me.todo) + (Len(rest) + 1) \in Nat
      BY <1>2, <2>3, <2>10
    <2>12. 0 + Len(me.todo) + (Len(rest) + 1) = 0 + Len(me.todo) + Len(me.queue)
      BY <2>3
    <2> QED
      BY <1>3, <2>2, <2>8, <2>9, <2>11, <2>12
  <1> QED
    BY <1>6, <1>7, <1>8 DEF Reads

\* Whoever steps: a stream that goes on is as it was, or has stepped itself, or its
\* run has put an item into its queue.
LEMMA StreamMoves ==
    ASSUME TypeInv, [Next]_vars, NEW w \in Watchers, Active(w), Active(w)'
    PROVE  \/ Reads(w)
           \/ stream'[w] = stream[w]
           \/ \E t \in Sends :
                 /\ RunStep(t) /\ stream[w].bus = t
                 /\ stream'[w].bus = t /\ stream'[w].pc = stream[w].pc
                 /\ stream'[w].todo = stream[w].todo
                 /\ Len(stream'[w].queue) \in Nat
                 /\ Len(stream'[w].queue) <= Len(stream[w].queue) + 1
  <1>1. w \in Streams /\ stream[w] \in StreamType /\ w \notin Sends
    BY ChatRunAssumption DEF TypeInv, Streams
  <1>2. Len(stream[w].queue) \in Nat
    BY <1>1 DEF StreamType
  <1>3. stream[w].pc \in {"opened", "replaying", "live"}
        /\ stream'[w].pc \in {"opened", "replaying", "live"}
    BY DEF Active
  <1>4. ASSUME NEW x \in Streams, x # w, NEW new, stream' = [stream EXCEPT ![x] = new]
        PROVE  stream'[w] = stream[w]
    BY <1>1, <1>4 DEF TypeInv
  <1>5. ASSUME NEW t \in Sends, NEW item \in Positions, Broadcast(t, item), RunStep(t)
        PROVE  \/ stream'[w] = stream[w]
               \/ /\ RunStep(t) /\ stream[w].bus = t
                  /\ stream'[w].bus = t /\ stream'[w].pc = stream[w].pc
                  /\ stream'[w].todo = stream[w].todo
                  /\ Len(stream'[w].queue) \in Nat
                  /\ Len(stream'[w].queue) <= Len(stream[w].queue) + 1
    <2>1. \/ stream'[w] = stream[w]
          \/ /\ stream[w].bus = t
             /\ stream'[w] = [stream[w] EXCEPT !.queue = Append(stream[w].queue, item)]
          \/ /\ stream[w].bus = t
             /\ stream'[w] = [stream[w] EXCEPT !.dropped = stream[w].dropped \cup {item}]
      BY <1>1, <1>5, BroadcastStreams DEF Subscribers
    <2>2. CASE /\ stream[w].bus = t
               /\ stream'[w] = [stream[w] EXCEPT !.queue = Append(stream[w].queue, item)]
      <3>1. /\ stream'[w].bus = t /\ stream'[w].pc = stream[w].pc
            /\ stream'[w].todo = stream[w].todo
            /\ stream'[w].queue = Append(stream[w].queue, item)
        BY <1>1, <2>2 DEF StreamType
      <3>2. stream[w].queue \in Seq(Positions)
        BY <1>1 DEF StreamType
      <3>3. Len(Append(stream[w].queue, item)) = Len(stream[w].queue) + 1
        BY <3>2, AppendProperties
      <3>4. /\ Len(stream'[w].queue) \in Nat
            /\ Len(stream'[w].queue) <= Len(stream[w].queue) + 1
        BY <1>2, <3>1, <3>3
      <3> QED
        BY <1>5, <2>2, <3>1, <3>4
    <2>3. CASE /\ stream[w].bus = t
               /\ stream'[w] = [stream[w] EXCEPT !.dropped = stream[w].dropped \cup {item}]
      <3>1. /\ stream'[w].bus = t /\ stream'[w].pc = stream[w].pc
            /\ stream'[w].todo = stream[w].todo
            /\ stream'[w].queue = stream[w].queue
        BY <1>1, <2>3 DEF StreamType
      <3>2. /\ Len(stream'[w].queue) \in Nat
            /\ Len(stream'[w].queue) <= Len(stream[w].queue) + 1
        BY <1>2, <3>1
      <3> QED
        BY <1>5, <2>3, <3>1, <3>2
    <2> QED
      BY <2>1, <2>2, <2>3
  <1>6. ASSUME NEW t \in Sends, publish(t) \/ Finish(t)
        PROVE  \E item \in Positions : Broadcast(t, item)
    <2>1. CASE publish(t)
      <3>1. seq[t] + 1 \in Positions
        <4>1. seq[t] \in Nat /\ MaxEvents[t] \in Nat /\ seq[t] < MaxEvents[t]
          BY <2>1, ChatRunAssumption DEF publish, TypeInv
        <4>2. seq[t] + 1 \in Nat /\ seq[t] + 1 <= MaxEvents[t]
          BY <4>1
        <4> QED
          BY <4>2, PositionsFacts
      <3> QED
        BY <2>1, <3>1 DEF publish
    <2>2. CASE Finish(t)
      BY <2>2, PositionsFacts DEF Finish, Sentinel
    <2> QED
      BY <1>6, <2>1, <2>2
  <1>7. ASSUME NEW t \in Sends, publish(t) \/ Finish(t)
        PROVE  \/ stream'[w] = stream[w]
               \/ /\ RunStep(t) /\ stream[w].bus = t
                  /\ stream'[w].bus = t /\ stream'[w].pc = stream[w].pc
                  /\ stream'[w].todo = stream[w].todo
                  /\ Len(stream'[w].queue) \in Nat
                  /\ Len(stream'[w].queue) <= Len(stream[w].queue) + 1
    <2>1. RunStep(t)
      BY <1>7 DEF RunStep
    <2>2. PICK item \in Positions : Broadcast(t, item)
      BY <1>6, <1>7
    <2> QED
      BY <1>5, <2>1, <2>2
  <1>8. ASSUME NEW s \in Sends, Register(s) PROVE stream'[w] = stream[w]
    BY <1>1, <1>4, <1>8, RegisterStream
  <1>9. ASSUME NEW v \in Watchers, RunStatus(v) \/ Attach(v)
        PROVE  stream'[w] = stream[w]
    <2>1. v # w
      BY <1>3, <1>9 DEF RunStatus, Attach
    <2>2. v \in Streams /\ \E new : stream' = [stream EXCEPT ![v] = new]
      BY <1>9 DEF RunStatus, Attach, Streams
    <2> QED
      BY <1>4, <2>1, <2>2
  <1>10. ASSUME NEW x \in Streams, StartStream(x) \/ Replay(x) \/ Follow(x)
         PROVE  Reads(w) \/ stream'[w] = stream[w]
    <2>1. CASE x = w
      BY <1>10, <2>1 DEF Reads
    <2>2. CASE x # w
      <3>1. ASSUME StartStream(x) PROVE \E new : stream' = [stream EXCEPT ![x] = new]
        BY <3>1 DEF StartStream
      <3>2. ASSUME Replay(x) PROVE \E new : stream' = [stream EXCEPT ![x] = new]
        BY <3>2, ReplayStream
      <3>3. ASSUME Follow(x) PROVE \E new : stream' = [stream EXCEPT ![x] = new]
        BY <3>3 DEF Follow
      <3> QED
        BY <1>4, <1>10, <2>2, <3>1, <3>2, <3>3
    <2> QED
      BY <2>1, <2>2
  <1>11. ASSUME NEW x \in Leaving, Disconnect(x) PROVE stream'[w] = stream[w]
    <2>1. x \in Streams
      BY ChatRunAssumption DEF Streams
    <2>2. PICK new : /\ stream' = [stream EXCEPT ![x] = new]
                     /\ new.pc \in {"away", "closed"}
      <3>1. [NoStream EXCEPT !.pc = "away"].pc = "away"
        BY DEF NoStream
      <3>2. Unsubscribed(x, "closed").pc = "closed"
        BY <2>1 DEF Unsubscribed, TypeInv, StreamType
      <3> QED
        BY <1>11, <2>1, <3>1, <3>2, DisconnectStream
    <2>3. x # w
      BY <1>3, <2>1, <2>2 DEF TypeInv
    <2> QED
      BY <1>4, <2>1, <2>2, <2>3
  <1>12. CASE stream' = stream
    BY <1>12
  <1> QED
    BY <1>7, <1>8, <1>9, <1>10, <1>11, <1>12 DEF Next, Guard, Start, Abort, vars

LEMMA NearerNext == Inv /\ EndInv /\ Inv' /\ [Next]_vars => [Nearer]_vars
  <1> SUFFICES ASSUME Inv, EndInv, Inv', [Next]_vars, NEW w \in Watchers,
                      Active(w), Active(w)'
               PROVE  /\ Distance(w)' <= Distance(w)
                      /\ Reads(w) \/ (stream[w].bus # None /\ RunStep(stream[w].bus)) =>
                             Distance(w)' < Distance(w)
    BY DEF Nearer
  <1>1. TypeInv /\ StreamsInv /\ TypeInv'
    BY DEF Inv
  <1>2. stream[w] \in StreamType /\ EndHeld(stream[w]) /\ None \notin Sends
    BY <1>1, ChatRunAssumption DEF TypeInv, EndInv, Streams
  <1>3. PICK b \in Sends \cup {None} : b = stream[w].bus
    BY <1>2 DEF StreamType
  <1> DEFINE before == Entering(w) + Len(stream[w].todo) + Len(stream[w].queue)
             after  == Entering(w)' + Len(stream'[w].todo) + Len(stream'[w].queue)
  <1>4. ASSUME b \in Sends
        PROVE  /\ RunLeft(b) \in Nat /\ RunLeft(b)' \in Nat
               /\ RunLeft(b)' <= RunLeft(b)
               /\ RunStep(b) => RunLeft(b)' < RunLeft(b)
               /\ Distance(w) = before + 2 * RunLeft(b)
               /\ stream'[w].bus = b => Distance(w)' = after + 2 * RunLeft(b)'
    <2>1. task[b] # "none"
      BY <1>2, <1>3, <1>4 DEF EndHeld
    <2>2. /\ RunLeft(b)' \in Nat /\ RunLeft(b)' <= RunLeft(b)
          /\ RunStep(b) => RunLeft(b)' < RunLeft(b)
      BY <1>1, <1>4, <2>1, RunShrinks
    <2>3. RunLeft(b) \in Nat
      BY <1>1, <1>4, RunLeftIs
    <2>4. Distance(w) = before + 2 * RunLeft(b)
      BY <1>2, <1>3, <1>4 DEF Distance
    <2>5. stream'[w].bus = b => Distance(w)' = after + 2 * RunLeft(b)'
      BY <1>2, <1>4 DEF Distance
    <2> QED
      BY <2>2, <2>3, <2>4, <2>5
  <1>5. b \in Sends => before \in Nat
    <2> SUFFICES ASSUME b \in Sends PROVE before \in Nat
      OBVIOUS
    <2>1. Entering(w) \in Nat
      BY <1>3, ChatRunAssumption DEF Entering
    <2>2. Len(stream[w].todo) \in Nat /\ Len(stream[w].queue) \in Nat
      BY <1>2 DEF StreamType
    <2>3. \A e, t, q \in Nat : e + t + q \in Nat
      OBVIOUS
    <2> QED
      BY <2>1, <2>2, <2>3
  <1>6. \A m, n, j, k \in Nat :
            /\ m < n /\ j <= k => m + 2 * j < n + 2 * k /\ m + 2 * j <= n + 2 * k
            /\ m <= n + 1 /\ j < k => m + 2 * j < n + 2 * k /\ m + 2 * j <= n + 2 * k
            /\ m = n /\ j <= k => m + 2 * j <= n + 2 * k
    OBVIOUS
  <1>7. CASE Reads(w)
    <2>1. /\ stream'[w].bus = b /\ b \in Sends /\ after \in Nat /\ after < before
      BY <1>1, <1>2, <1>3, <1>7, ReadShrinks
    <2>2. /\ after + 2 * RunLeft(b)' < before + 2 * RunLeft(b)
          /\ after + 2 * RunLeft(b)' <= before + 2 * RunLeft(b)
      BY <1>4, <1>5, <1>6, <2>1
    <2> QED
      BY <1>4, <2>1, <2>2
  <1>8. CASE stream'[w] = stream[w] /\ ~Reads(w)
    <2>1. Entering(w)' = Entering(w)
      BY <1>8 DEF Entering
    <2>2. after = before
      BY <1>8, <2>1
    <2>3. CASE b \in Sends
      <3>1. stream'[w].bus = b
        BY <1>3, <1>8
      <3>2. /\ before + 2 * RunLeft(b)' <= before + 2 * RunLeft(b)
            /\ RunStep(b) => before + 2 * RunLeft(b)' < before + 2 * RunLeft(b)
        BY <1>4, <1>5, <1>6, <2>3
      <3> QED
        BY <1>3, <1>4, <1>8, <2>2, <2>3, <3>1, <3>2
    <2>4. CASE b = None
      <3>1. Distance(w) = 0 /\ Distance(w)' = 0
        BY <1>3, <1>8, <2>4 DEF Distance
      <3> QED
        BY <1>3, <1>8, <2>4, <3>1
    <2> QED
      BY <1>3, <2>3, <2>4
  <1>9. CASE /\ RunStep(b) /\ b \in Sends
             /\ stream'[w].bus = b /\ stream'[w].pc = stream[w].pc
             /\ stream'[w].todo = stream[w].todo
             /\ Len(stream'[w].queue) \in Nat
             /\ Len(stream'[w].queue) <= Len(stream[w].queue) + 1
    <2>1. Entering(w)' = Entering(w) /\ Entering(w) \in Nat
      BY <1>3, <1>9, ChatRunAssumption DEF Entering
    <2>2. Len(stream[w].todo) \in Nat /\ Len(stream[w].queue) \in Nat
      BY <1>2 DEF StreamType
    <2>3. \A e, t, p, q \in Nat : p <= q + 1 => e + t + p \in Nat /\ e + t + p <= e + t + q + 1
      OBVIOUS
    <2>4. after \in Nat /\ after <= before + 1
      BY <1>9, <2>1, <2>2, <2>3
    <2>5. /\ after + 2 * RunLeft(b)' < before + 2 * RunLeft(b)
          /\ after + 2 * RunLeft(b)' <= before + 2 * RunLeft(b)
      BY <1>4, <1>5, <1>6, <1>9, <2>4
    <2> QED
      BY <1>4, <1>9, <2>5
  <1> QED
    BY <1>1, <1>3, <1>7, <1>8, <1>9, StreamMoves

\* Every step of the stream that came back, and every step of its run, brings its
\* end nearer, by a natural number that nothing raises again: no other send, no
\* abort, no other client. What is left to the scheduler is to let them run.
THEOREM ChatComesNearer == Spec => [][Nearer]_vars
  <1>1. Spec => []EndInv
    BY EndInit, EndNext, Invariance, PTL DEF Spec
  <1> QED
    BY <1>1, NearerNext, Invariance, PTL DEF Spec
=============================================================================
