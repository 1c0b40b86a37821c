-------------------------- MODULE HarnessRunProofs --------------------------
(***************************************************************************)
(* Theorems about HarnessRun, for any turns, clients and bounds.           *)
(***************************************************************************)
EXTENDS HarnessRun, StreamLemmas

-----------------------------------------------------------------------------
(***************************************************************************)
(* The variables have their types.                                         *)
(***************************************************************************)
Places == {"idle", "posting", "over"} \cup Running

TurnType == [pc : Places, bound : BOOLEAN, cancelled : BOOLEAN,
             seq : Nat, last : Nat]

StreamType == [state : {"out", "in", "over", "left"}, of : Turns \cup {NoTurn},
               from : Nat, todo : Seq(Nat), queue : Seq(Nat), got : Seq(Nat),
               dropped : SUBSET Nat]

TypeInv ==
    /\ registry \in Turns \cup {NoTurn}
    /\ turn \in [Turns -> TurnType]
    /\ row \in [Turns -> {"none", "running", "completed", "failed"}]
    /\ stream \in [Streams -> StreamType]
    /\ alone \in BOOLEAN

LEMMA NoStreamType == NoStream \in StreamType
  BY DEF NoStream, StreamType

LEMMA TypeInit == Init => TypeInv
  <1> SUFFICES ASSUME Init PROVE TypeInv
    OBVIOUS
  <1>1. alone \in BOOLEAN
    BY Zenon DEF Init
  <1>2. turn \in [Turns -> TurnType]
    <2>1. ASSUME NEW t \in Turns
          PROVE  [pc |-> "idle", bound |-> t \notin Unbound, cancelled |-> FALSE,
                  seq |-> 0, last |-> 0] \in TurnType
      <3>1. (t \notin Unbound) \in BOOLEAN /\ FALSE \in BOOLEAN /\ "idle" \in Places
            /\ 0 \in Nat
        BY DEF Places
      <3> QED
        BY <3>1, Zenon DEF TurnType
    <2> QED
      BY <2>1, Zenon DEF Init
  <1>3. stream \in [Streams -> StreamType]
    BY NoStreamType DEF Init
  <1> QED
    BY <1>1, <1>2, <1>3 DEF Init, TypeInv

\* Steps that change a turn keep its type.
LEMMA PublishTurn ==
    ASSUME TypeInv, NEW t \in Turns, NEW pc \in Places, NEW binds \in BOOLEAN,
           NEW isLast \in BOOLEAN, Publish(t, pc, binds, isLast)
    PROVE  /\ turn' \in [Turns -> TurnType]
           /\ turn'[t].pc = pc /\ turn'[t].seq = turn[t].seq + 1
           /\ turn'[t].last = IF isLast THEN turn[t].seq + 1 ELSE turn[t].last
           /\ turn'[t].cancelled = turn[t].cancelled
           /\ turn[t].bound => turn'[t].bound
           /\ \A u \in Turns \ {t} : turn'[u] = turn[u]
  <1>1. turn[t] \in TurnType
    BY DEF TypeInv
  <1> DEFINE new == [turn[t] EXCEPT !.pc = pc, !.seq = turn[t].seq + 1,
                         !.bound = turn[t].bound \/ binds,
                         !.last = IF isLast THEN turn[t].seq + 1 ELSE turn[t].last]
  <1>2. turn' = [turn EXCEPT ![t] = new]
    BY <1>1 DEF Publish, TypeInv, TurnType
  <1>3. new \in TurnType
    <2>1. PICK b \in BOOLEAN : b = (turn[t].bound \/ binds)
      BY Zenon
    <2>2. new = [turn[t] EXCEPT !.pc = pc, !.seq = turn[t].seq + 1, !.bound = b,
                     !.last = IF isLast THEN turn[t].seq + 1 ELSE turn[t].last]
      BY <2>1, Zenon
    <2>3. turn[t].seq + 1 \in Nat
          /\ (IF isLast THEN turn[t].seq + 1 ELSE turn[t].last) \in Nat
      BY <1>1 DEF TurnType
    <2> HIDE DEF new
    <2> QED
      BY <1>1, <2>2, <2>3 DEF TurnType
  <1>4. /\ new.pc = pc /\ new.seq = turn[t].seq + 1
        /\ new.last = IF isLast THEN turn[t].seq + 1 ELSE turn[t].last
        /\ new.cancelled = turn[t].cancelled
    BY <1>1 DEF TurnType
  <1>5. turn[t].bound => new.bound
    BY <1>1 DEF TurnType
  <1> HIDE DEF new
  <1>6. turn'[t] = new /\ \A u \in Turns \ {t} : turn'[u] = turn[u]
    BY <1>2 DEF TypeInv
  <1>7. turn' \in [Turns -> TurnType]
    BY <1>2, <1>3 DEF TypeInv
  <1> QED
    BY <1>4, <1>5, <1>6, <1>7

LEMMA CloseTurn ==
    ASSUME TypeInv, NEW t \in Turns, Close(t)
    PROVE  /\ turn' \in [Turns -> TurnType]
           /\ turn'[t].pc = "saving" /\ turn'[t].seq = turn[t].seq
           /\ turn'[t].last = turn[t].last /\ turn'[t].bound = turn[t].bound
           /\ \A u \in Turns \ {t} : turn'[u] = turn[u]
  BY ZenonT(60) DEF Close, TypeInv, TurnType, Places, Running

\* What a broadcast does to each stream.
LEMMA BroadcastStreams ==
    ASSUME TypeInv, NEW t \in Turns, NEW entry \in Nat, Broadcast(t, entry)
    PROVE  /\ stream' \in [Streams -> StreamType]
           /\ \A s \in Streams :
                 \/ ~Subscribed(s, t) /\ stream'[s] = stream[s]
                 \/ /\ Subscribed(s, t) /\ HasRoom(s)
                    /\ stream'[s] = [stream[s] EXCEPT
                           !.queue = Append(stream[s].queue, entry)]
                 \/ /\ Subscribed(s, t) /\ ~HasRoom(s) /\ entry = Sentinel
                    /\ stream'[s] = stream[s]
                 \/ /\ Subscribed(s, t) /\ ~HasRoom(s) /\ entry # Sentinel
                    /\ stream'[s] = [stream[s] EXCEPT
                           !.dropped = stream[s].dropped \cup {entry}]
  <1>1. \A s \in Streams :
                 \/ ~Subscribed(s, t) /\ stream'[s] = stream[s]
                 \/ /\ Subscribed(s, t) /\ HasRoom(s)
                    /\ stream'[s] = [stream[s] EXCEPT
                           !.queue = Append(stream[s].queue, entry)]
                 \/ /\ Subscribed(s, t) /\ ~HasRoom(s) /\ entry = Sentinel
                    /\ stream'[s] = stream[s]
                 \/ /\ Subscribed(s, t) /\ ~HasRoom(s) /\ entry # Sentinel
                    /\ stream'[s] = [stream[s] EXCEPT
                           !.dropped = stream[s].dropped \cup {entry}]
    BY DEF Broadcast
  <1>2. ASSUME NEW s \in Streams PROVE stream'[s] \in StreamType
    <2>1. stream[s] \in StreamType
      BY DEF TypeInv
    <2>2. Append(stream[s].queue, entry) \in Seq(Nat)
      BY <2>1, AppendProperties DEF StreamType
    <2>3. stream[s].dropped \cup {entry} \in SUBSET Nat
      BY <2>1 DEF StreamType
    <2>4. [stream[s] EXCEPT !.queue = Append(stream[s].queue, entry)] \in StreamType
      BY <2>1, <2>2 DEF StreamType
    <2>5. [stream[s] EXCEPT !.dropped = stream[s].dropped \cup {entry}] \in StreamType
      BY <2>1, <2>3 DEF StreamType
    <2> QED
      BY <1>1, <2>1, <2>4, <2>5
  <1>3. stream' = [s \in Streams |-> stream'[s]]
    BY DEF Broadcast
  <1>4. stream' \in [Streams -> StreamType]
    BY <1>2, <1>3
  <1> QED
    BY <1>1, <1>4

\* What Follow does to its stream.
LEMMA FollowStream ==
    ASSUME TypeInv, NEW s \in Streams, Follow(s)
    PROVE  LET entry == Head(stream[s].queue)
               rest  == Tail(stream[s].queue)
           IN  /\ stream[s].state = "in" /\ stream[s].todo = <<>>
               /\ stream[s].queue # <<>>
               /\ entry \in Nat /\ rest \in Seq(Nat)
               /\ Append(stream[s].got, entry) \in Seq(Nat)
               /\ \/ entry = 0 /\ stream' = [stream EXCEPT ![s] = Closed(s, "over")]
                  \/ /\ entry # 0 /\ entry <= Seen(s)
                     /\ stream' = [stream EXCEPT ![s] =
                           [stream[s] EXCEPT !.queue = rest]]
                  \/ /\ Seen(s) < entry /\ IsLast(s, entry)
                     /\ stream' = [stream EXCEPT ![s] = [Closed(s, "over") EXCEPT
                           !.got = Append(stream[s].got, entry)]]
                  \/ /\ Seen(s) < entry
                     /\ stream' = [stream EXCEPT ![s] = [stream[s] EXCEPT
                           !.queue = rest, !.got = Append(stream[s].got, entry)]]
  <1> DEFINE me == stream[s]
             entry == Head(me.queue)
             rest  == Tail(me.queue)
  <1>1. me.state = "in" /\ me.todo = <<>> /\ me.queue # <<>>
    BY DEF Follow
  <1>2. me \in StreamType
    BY DEF TypeInv
  <1>3. me.queue \in Seq(Nat) /\ me.got \in Seq(Nat) /\ me.from \in Nat
    BY <1>2 DEF StreamType
  <1>4. entry \in Nat /\ rest \in Seq(Nat)
    BY <1>1, <1>3, TailFacts
  <1>5. Append(me.got, entry) \in Seq(Nat)
    BY <1>3, <1>4, AppendProperties
  <1>6. Seen(s) \in Nat
    BY <1>3, SeenType DEF Seen, SeenOf
  <1>7. \/ entry = 0
        \/ entry # 0 /\ entry <= Seen(s)
        \/ entry # 0 /\ Seen(s) < entry /\ IsLast(s, entry)
        \/ entry # 0 /\ Seen(s) < entry /\ ~IsLast(s, entry)
    BY <1>4, <1>6, SMTT(30)
  <1>8. stream' = [stream EXCEPT ![s] =
             CASE entry = 0 -> Closed(s, "over")
               [] entry # 0 /\ entry <= Seen(s) -> [stream[s] EXCEPT !.queue = rest]
               [] entry > Seen(s) /\ IsLast(s, entry) ->
                    [Closed(s, "over") EXCEPT !.got = Append(@, entry)]
               [] entry > Seen(s) /\ ~IsLast(s, entry) ->
                    [stream[s] EXCEPT !.queue = rest, !.got = Append(@, entry)]]
    BY DEF Follow, Sentinel, TypeInv
  <1>9. Closed(s, "over") = [me EXCEPT !.state = "over", !.queue = <<>>, !.todo = <<>>]
    BY DEF Closed
  <1>10. [Closed(s, "over") EXCEPT !.got = Append(@, entry)]
            = [Closed(s, "over") EXCEPT !.got = Append(me.got, entry)]
    BY <1>2, <1>9 DEF StreamType
  <1>11. [me EXCEPT !.queue = rest, !.got = Append(@, entry)]
            = [me EXCEPT !.queue = rest, !.got = Append(me.got, entry)]
    BY <1>2 DEF StreamType
  <1> QED
    <2>1. CASE entry = 0
      <3>1. ~(entry > Seen(s))
        BY <2>1, <1>6
      <3>2. stream' = [stream EXCEPT ![s] = Closed(s, "over")]
        BY <3>1, <2>1, <1>8
      <3> QED
        BY <3>2, <2>1, <1>1, <1>4, <1>5
    <2>2. CASE entry # 0 /\ entry <= Seen(s)
      <3>1. ~(entry > Seen(s))
        BY <2>2, <1>4, <1>6
      <3>2. stream' = [stream EXCEPT ![s] = [me EXCEPT !.queue = rest]]
        BY <3>1, <2>2, <1>8
      <3> QED
        BY <3>2, <2>2, <1>1, <1>4, <1>5
    <2>3. CASE entry # 0 /\ Seen(s) < entry /\ IsLast(s, entry)
      <3>1. entry # 0 /\ ~(entry <= Seen(s)) /\ entry > Seen(s)
        BY <2>3, <1>4, <1>6
      <3>2. stream' = [stream EXCEPT ![s] =
                          [Closed(s, "over") EXCEPT !.got = Append(me.got, entry)]]
        BY <3>1, <2>3, <1>8, <1>10
      <3> QED
        BY <3>2, <2>3, <1>1, <1>4, <1>5
    <2>4. CASE entry # 0 /\ Seen(s) < entry /\ ~IsLast(s, entry)
      <3>1. entry # 0 /\ ~(entry <= Seen(s)) /\ entry > Seen(s)
        BY <2>4, <1>4, <1>6
      <3>2. stream' = [stream EXCEPT ![s] =
                  [me EXCEPT !.queue = rest, !.got = Append(me.got, entry)]]
        BY <3>1, <2>4, <1>8, <1>11
      <3> QED
        BY <3>2, <2>4, <1>1, <1>4, <1>5
    <2> QED
      BY <2>1, <2>2, <2>3, <2>4, <1>7

LEMMA StopTurn ==
    ASSUME TypeInv, Stop
    PROVE  /\ turn' \in [Turns -> TurnType]
           /\ \A t \in Turns : /\ turn'[t].pc = turn[t].pc
                               /\ turn'[t].seq = turn[t].seq
                               /\ turn'[t].last = turn[t].last
                               /\ turn'[t].bound = turn[t].bound
  BY DEF Stop, IsRunning, TypeInv, TurnType

LEMMA GotoTurn ==
    ASSUME TypeInv, NEW t \in Turns, NEW pc \in Places, Goto(t, pc)
    PROVE  /\ turn' \in [Turns -> TurnType]
           /\ turn'[t].pc = pc
           /\ \A u \in Turns : /\ turn'[u].seq = turn[u].seq
                               /\ turn'[u].last = turn[u].last
                               /\ turn'[u].bound = turn[u].bound
                               /\ u # t => turn'[u].pc = turn[u].pc
  BY DEF TypeInv, Goto, TurnType

\* The streams after a request has started its turn, and after a client joined.
LEMMA LaunchStreams ==
    ASSUME TypeInv, NEW t \in Turns, Launch(t)
    PROVE  /\ stream' \in [Streams -> StreamType]
           /\ \A s \in Streams : s # t => stream'[s] = stream[s]
           /\ t \in Streams => stream'[t] = [NoStream EXCEPT !.state = "in", !.of = t]
  <1>1. [NoStream EXCEPT !.state = "in", !.of = t] \in StreamType
    BY NoStreamType DEF StreamType
  <1> QED
    BY <1>1 DEF Launch, TypeInv

History(k, n) == [i \in 1..(IF k < n THEN n - k ELSE 0) |-> k + i]

LEMMA AttachStreams ==
    ASSUME TypeInv, NEW c \in Clients, Attach(c)
    PROVE  /\ registry \in Turns /\ turn[registry].seq \in Nat
           /\ stream[c].state = "out"
           /\ stream' \in [Streams -> StreamType]
           /\ \A s \in Streams : s # c => stream'[s] = stream[s]
           /\ \E k \in After : stream'[c] =
                 [stream[c] EXCEPT !.state = "in", !.of = registry, !.from = k,
                                   !.todo = History(k, turn[registry].seq)]
  <1>1. registry \in Turns /\ turn[registry].seq \in Nat /\ c \in Streams
    BY DEF Attach, IsRunning, TypeInv, TurnType, Streams
  <1>2. PICK k \in After : stream' = [stream EXCEPT
              ![c].state = "in", ![c].of = registry, ![c].from = k,
              ![c].todo = History(k, turn[registry].seq)]
    BY DEF Attach, History
  <1>3. k \in Nat
    BY HarnessAssumption
  <1>4. History(k, turn[registry].seq) \in Seq(Nat)
    <2>1. (IF k < turn[registry].seq THEN turn[registry].seq - k ELSE 0) \in Nat
      BY <1>1, <1>3
    <2>2. \A i \in 1..(IF k < turn[registry].seq THEN turn[registry].seq - k ELSE 0)
            : k + i \in Nat
      BY <1>3
    <2> QED
      BY <2>1, <2>2 DEF History
  <1> DEFINE new == [stream[c] EXCEPT !.state = "in", !.of = registry, !.from = k,
                                      !.todo = History(k, turn[registry].seq)]
  <1>5. stream[c] \in StreamType
    BY <1>1 DEF TypeInv
  <1>6. new \in StreamType
    BY <1>1, <1>3, <1>4, <1>5 DEF StreamType
  <1>7. stream' = [stream EXCEPT ![c] = new]
    BY <1>1, <1>2, <1>5 DEF TypeInv, StreamType
  <1> QED
    BY <1>1, <1>6, <1>7 DEF TypeInv, Attach

LEMMA ReplayStream ==
    ASSUME TypeInv, NEW s \in Streams, Replay(s)
    PROVE  /\ stream[s].state = "in" /\ stream[s].todo # <<>>
           /\ Head(stream[s].todo) \in Nat /\ Tail(stream[s].todo) \in Seq(Nat)
           /\ Append(stream[s].got, Head(stream[s].todo)) \in Seq(Nat)
           /\ stream' = [stream EXCEPT ![s] = [stream[s] EXCEPT
                  !.got = Append(stream[s].got, Head(stream[s].todo)),
                  !.todo = Tail(stream[s].todo)]]
  <1>1. stream[s] \in StreamType
    BY DEF TypeInv
  <1>2. stream[s].state = "in" /\ stream[s].todo # <<>>
    BY DEF Replay
  <1>3. Head(stream[s].todo) \in Nat /\ Tail(stream[s].todo) \in Seq(Nat)
    BY <1>1, <1>2, TailFacts DEF StreamType
  <1>4. Append(stream[s].got, Head(stream[s].todo)) \in Seq(Nat)
    BY <1>1, <1>3, AppendProperties DEF StreamType
  <1>5. stream' = [stream EXCEPT ![s] = [stream[s] EXCEPT
                  !.got = Append(stream[s].got, Head(stream[s].todo)),
                  !.todo = Tail(stream[s].todo)]]
    BY <1>1 DEF Replay, TypeInv, StreamType
  <1> QED
    BY <1>2, <1>3, <1>4, <1>5

LEMMA TypeNext == TypeInv /\ [Next]_vars => TypeInv'
  <1> SUFFICES ASSUME TypeInv, [Next]_vars PROVE TypeInv'
    OBVIOUS
  <1>0. registry \in Turns \cup {NoTurn} /\ alone \in BOOLEAN
        /\ row \in [Turns -> {"none", "running", "completed", "failed"}]
    BY Zenon DEF TypeInv
  <1>1. ASSUME NEW t \in Turns, Post(t) PROVE TypeInv'
    BY <1>1, GotoTurn DEF Post, TypeInv, Places
  <1>2. ASSUME NEW t \in Turns, Launch(t) PROVE TypeInv'
    <2>1. alone' \in BOOLEAN
      BY <1>2, <1>0 DEF Launch
    <2>2. turn' \in [Turns -> TurnType]
      BY <1>2, GotoTurn DEF Launch, Places, Running
    <2>3. stream' \in [Streams -> StreamType]
      BY <1>2, LaunchStreams
    <2> QED
      BY <1>2, <2>1, <2>2, <2>3 DEF Launch, TypeInv
  <1>3. ASSUME NEW t \in Turns, NEW pc \in Places, NEW binds \in BOOLEAN,
               NEW isLast \in BOOLEAN, Publish(t, pc, binds, isLast),
               UNCHANGED <<registry, row, alone>>
        PROVE  TypeInv'
    <2>1. turn' \in [Turns -> TurnType]
      BY <1>3, PublishTurn
    <2>2. turn[t].seq + 1 \in Nat
      BY DEF TypeInv, TurnType
    <2>3. stream' \in [Streams -> StreamType]
      BY <1>3, <2>2, BroadcastStreams DEF Publish
    <2> QED
      BY <1>3, <2>1, <2>3 DEF TypeInv
  <1>4. ASSUME NEW t \in Turns, Begin(t) PROVE TypeInv'
    BY <1>3, <1>4 DEF Begin, Places, Running
  <1>5. ASSUME NEW t \in Turns, Emit(t) PROVE TypeInv'
    BY <1>3, <1>5 DEF Emit, Places, Running
  <1>6. ASSUME NEW t \in Turns, WorkEnds(t) PROVE TypeInv'
    BY <1>6, GotoTurn DEF WorkEnds, TypeInv, Places, Running
  <1>7. ASSUME NEW t \in Turns, Complete(t) PROVE TypeInv'
    BY <1>7, GotoTurn DEF Complete, Settle, TypeInv, Places, Running
  <1>8. ASSUME NEW t \in Turns, Fail(t) PROVE TypeInv'
    BY <1>8, GotoTurn DEF Fail, Settle, TypeInv, Places, Running
  <1>9. ASSUME NEW t \in Turns, Announce(t) PROVE TypeInv'
    BY <1>3, <1>9 DEF Announce, Places, Running
  <1>10. ASSUME NEW t \in Turns, Close(t) PROVE TypeInv'
    <2>1. turn' \in [Turns -> TurnType]
      BY <1>10, CloseTurn
    <2>2. stream' \in [Streams -> StreamType]
      BY <1>10, BroadcastStreams DEF Close, Sentinel
    <2> QED
      BY <1>10, <2>1, <2>2 DEF Close, TypeInv
  <1>11. ASSUME NEW t \in Turns, Save(t) PROVE TypeInv'
    BY <1>11, GotoTurn DEF Save, TypeInv, Places
  <1>12. ASSUME NEW t \in Turns, Cancelled(t) PROVE TypeInv'
    BY <1>12, GotoTurn DEF Cancelled, TypeInv, Places, Running
  <1>13. CASE Stop
    BY <1>13, StopTurn DEF Stop, TypeInv
  <1>14. ASSUME NEW c \in Clients, Attach(c) PROVE TypeInv'
    BY <1>14, AttachStreams DEF Attach, TypeInv
  <1>15. ASSUME NEW s \in Streams, NEW state \in {"over", "left"}
         PROVE  Closed(s, state) \in StreamType
    <2>1. stream[s] \in StreamType
      BY DEF TypeInv
    <2>2. <<>> \in Seq(Nat)
      OBVIOUS
    <2> QED
      BY <2>1, <2>2 DEF Closed, StreamType
  <1>16. ASSUME NEW c \in Clients, Disconnect(c) PROVE TypeInv'
    BY <1>15, <1>16 DEF Disconnect, TypeInv, Streams
  <1>17. ASSUME NEW s \in Streams, Replay(s) PROVE TypeInv'
    <2>1. [stream[s] EXCEPT !.got = Append(stream[s].got, Head(stream[s].todo)),
                            !.todo = Tail(stream[s].todo)] \in StreamType
      BY <1>17, ReplayStream, ZenonT(60) DEF TypeInv, StreamType
    <2> QED
      BY <1>17, <2>1, ReplayStream DEF Replay, TypeInv
  <1>18. ASSUME NEW s \in Streams, Follow(s) PROVE TypeInv'
    <2>1. stream' \in [Streams -> StreamType]
      <3>1. stream[s] \in StreamType /\ Closed(s, "over") \in StreamType
        BY <1>15 DEF TypeInv
      <3> DEFINE entry == Head(stream[s].queue)
                 rest  == Tail(stream[s].queue)
                 more  == Append(stream[s].got, entry)
      <3>2. rest \in Seq(Nat) /\ more \in Seq(Nat)
        BY <1>18, FollowStream
      <3> HIDE DEF rest, more
      <3>3. [stream[s] EXCEPT !.queue = rest] \in StreamType
        BY <3>1, <3>2 DEF StreamType
      <3>4. [Closed(s, "over") EXCEPT !.got = more] \in StreamType
        BY <3>1, <3>2 DEF StreamType
      <3>5. [stream[s] EXCEPT !.queue = rest, !.got = more] \in StreamType
        BY <3>1, <3>2 DEF StreamType
      <3>6. \E new \in StreamType : stream' = [stream EXCEPT ![s] = new]
        BY <1>18, <3>1, <3>3, <3>4, <3>5, FollowStream DEF rest, more
      <3> QED
        BY <3>6 DEF TypeInv
    <2> QED
      BY <1>18, <2>1 DEF Follow, TypeInv
  <1>19. ASSUME NEW s \in Streams, TimeOut(s) PROVE TypeInv'
    BY <1>15, <1>19 DEF TimeOut, TypeInv
  <1>20. CASE UNCHANGED vars
    BY <1>20 DEF vars, TypeInv
  <1> QED
    BY <1>1, <1>2, <1>4, <1>5, <1>6, <1>7, <1>8, <1>9, <1>10, <1>11, <1>12,
       <1>13, <1>14, <1>16, <1>17, <1>18, <1>19, <1>20 DEF Next, Task, Reads

-----------------------------------------------------------------------------
(***************************************************************************)
(* A turn is announced once, last, and after its row is settled.           *)
(***************************************************************************)
Settled == {"completed", "failed"}

LastIsLast(t) ==
    turn[t].last # 0 => /\ turn[t].last = turn[t].seq
                        /\ turn[t].pc \in {"closing"} \cup Done

RowFirst(t) ==
    turn[t].last # 0 \/ turn[t].pc \in {"announcing", "lamenting"} => row[t] \in Settled

Unbegun(t) == turn[t].pc \in {"idle", "posting", "ready"} => turn[t].seq = 0

TurnsInv == \A t \in Turns : LastIsLast(t) /\ RowFirst(t) /\ Unbegun(t)

LEMMA TurnsInit == Init => TurnsInv
  BY DEF Init, TurnsInv, LastIsLast, RowFirst, Unbegun

\* What a task does to a turn that is not its own: nothing.
LEMMA TurnsNext == TypeInv /\ TurnsInv /\ [Next]_vars => TurnsInv'
  <1> SUFFICES ASSUME TypeInv, TurnsInv, [Next]_vars PROVE TurnsInv'
    OBVIOUS
  <1> USE DEF TurnsInv, LastIsLast, RowFirst, Unbegun
  <1>0. \A t \in Turns : turn[t].seq \in Nat /\ turn[t].last \in Nat
    BY DEF TypeInv, TurnType
  <1>1. ASSUME NEW t \in Turns, NEW pc \in Places, Goto(t, pc), row' = row,
               pc \notin {"announcing", "lamenting"},
               turn[t].last = 0 \/ pc \in Done,
               pc \in {"idle", "posting", "ready"} => turn[t].seq = 0
        PROVE  TurnsInv'
    BY <1>1, GotoTurn
  <1>2. ASSUME NEW t \in Turns, NEW pc \in Places, Goto(t, pc), turn[t].last = 0,
               pc \notin {"idle", "posting", "ready"},
               NEW status \in Settled, row' = [row EXCEPT ![t] = status]
        PROVE  TurnsInv'
    <2>1. \A u \in Turns : row'[u] = IF u = t THEN status ELSE row[u]
      BY <1>2 DEF TypeInv
    <2> QED
      BY <1>2, <2>1, GotoTurn
  <1>3. ASSUME NEW t \in Turns, NEW pc \in Places, NEW binds \in BOOLEAN,
               NEW isLast \in BOOLEAN, Publish(t, pc, binds, isLast), row' = row,
               turn[t].last = 0, pc \in {"working", "closing"},
               isLast => pc = "closing" /\ row[t] \in Settled
        PROVE  TurnsInv'
    BY <1>0, <1>3, PublishTurn
  <1>4. ASSUME NEW t \in Turns, Post(t) PROVE TurnsInv'
    <2>1. turn[t].last = 0 /\ turn[t].seq = 0
      BY <1>4 DEF Post, At, Done
    <2> QED
      BY <1>1, <1>4, <2>1 DEF Post, Places
  <1>5. ASSUME NEW t \in Turns, Launch(t) PROVE TurnsInv'
    <2>1. turn[t].last = 0 /\ turn[t].seq = 0
      BY <1>5 DEF Launch, At, Done
    <2>2. \A u \in Turns \ {t} : row'[u] = row[u]
      BY <1>5 DEF Launch, TypeInv
    <2> QED
      BY <1>5, <2>1, <2>2, GotoTurn DEF Launch, Places, Running
  <1>6. ASSUME NEW t \in Turns, Begin(t) PROVE TurnsInv'
    <2>1. turn[t].last = 0
      BY <1>6 DEF Begin, Resumes, At, Done
    <2> QED
      BY <1>3, <1>6, <2>1 DEF Begin, Places, Running
  <1>7. ASSUME NEW t \in Turns, Emit(t) PROVE TurnsInv'
    <2>1. turn[t].last = 0
      BY <1>7 DEF Emit, Resumes, At, Done
    <2> QED
      BY <1>3, <1>7, <2>1 DEF Emit, Places, Running
  <1>8. ASSUME NEW t \in Turns, WorkEnds(t) PROVE TurnsInv'
    <2>1. turn[t].last = 0
      BY <1>8 DEF WorkEnds, Resumes, At, Done
    <2> QED
      BY <1>1, <1>8, <2>1 DEF WorkEnds, Places, Running
  <1>9. ASSUME NEW t \in Turns, NEW from, NEW status \in Settled,
               NEW committed \in Places, NEW raised \in Places,
               Settle(t, from, status, committed, raised), turn[t].last = 0,
               raised \in {"failing", "closing"}, committed \in {"announcing", "lamenting"}
        PROVE  TurnsInv'
    <2>1. CASE row' = [row EXCEPT ![t] = status] /\ Goto(t, committed)
      BY <1>2, <1>9, <2>1
    <2>2. CASE row' \in {row, [row EXCEPT ![t] = status]} /\ Goto(t, raised)
      BY <1>1, <1>2, <1>9, <2>2
    <2> QED
      BY <1>9, <2>1, <2>2 DEF Settle
  <1>10. ASSUME NEW t \in Turns, Complete(t) PROVE TurnsInv'
    <2>1. turn[t].last = 0
      BY <1>10 DEF Complete, Settle, Resumes, At, Done
    <2> QED
      BY <1>9, <1>10, <2>1 DEF Complete, Places, Running, Settled
  <1>11. ASSUME NEW t \in Turns, Fail(t) PROVE TurnsInv'
    <2>1. turn[t].last = 0
      BY <1>11 DEF Fail, Settle, Resumes, At, Done
    <2> QED
      BY <1>9, <1>11, <2>1 DEF Fail, Places, Running, Settled
  <1>12. ASSUME NEW t \in Turns, Announce(t) PROVE TurnsInv'
    <2>1. turn[t].last = 0 /\ row[t] \in Settled
      BY <1>12 DEF Announce, Resumes, At, Done
    <2> QED
      BY <1>3, <1>12, <2>1 DEF Announce, Places, Running
  <1>13. ASSUME NEW t \in Turns, Close(t) PROVE TurnsInv'
    BY <1>13, CloseTurn, ZenonT(60) DEF Close, At, Done
  <1>14. ASSUME NEW t \in Turns, Save(t) PROVE TurnsInv'
    BY <1>1, <1>14 DEF Save, Places, Done
  <1>15. ASSUME NEW t \in Turns, Cancelled(t) PROVE TurnsInv'
    <2>1. turn[t].last = 0
      BY <1>15 DEF Cancelled, At, Done
    <2> QED
      BY <1>1, <1>2, <1>15, <2>1 DEF Cancelled, Places, Running, Settled
  <1>16. CASE Stop
    BY <1>16, StopTurn DEF Stop
  <1>17. CASE UNCHANGED <<turn, row>>
    BY <1>17
  <1> QED
    BY <1>4, <1>5, <1>6, <1>7, <1>8, <1>10, <1>11, <1>12, <1>13, <1>14, <1>15,
       <1>16, <1>17
    DEF Next, Task, Reads, Attach, Disconnect, Replay, Follow, TimeOut, vars

LEMMA ToldLemma == TypeInv /\ TurnsInv => ToldIsStored
  BY DEF TurnsInv, RowFirst, ToldIsStored, Settled

-----------------------------------------------------------------------------
(***************************************************************************)
(* While turns run one at a time the registry knows the one that runs.     *)
(***************************************************************************)
OneRuns == \A t, u \in Turns :
    turn[t].pc \in Running /\ turn[u].pc \in Running => t = u

Registered == \A t \in Turns \ Unbound : turn[t].pc \in Open => registry = t

RegistryInv ==
    /\ \A t \in Turns \ Unbound : turn[t].bound
    /\ alone => OneRuns /\ Registered

LEMMA RegistryInit == Init => RegistryInv
  <1> SUFFICES ASSUME Init PROVE RegistryInv
    OBVIOUS
  <1>1. ASSUME NEW t \in Turns \ Unbound PROVE turn[t].bound
    <2>1. turn[t].bound = (t \notin Unbound)
      BY DEF Init
    <2> QED
      BY <2>1
  <1>2. \A t \in Turns : turn[t].pc = "idle"
    BY DEF Init
  <1> QED
    BY <1>1, <1>2 DEF RegistryInv, OneRuns, Registered, Running, Open

LEMMA RegistryNext == TypeInv /\ RegistryInv /\ [Next]_vars => RegistryInv'
  <1> SUFFICES ASSUME TypeInv, RegistryInv, [Next]_vars PROVE RegistryInv'
    OBVIOUS
  <1> USE DEF RegistryInv, OneRuns, Registered
  \* Steps that leave the registry alone and start nothing.
  <1>1. ASSUME UNCHANGED <<registry, alone>>,
               \A t \in Turns : /\ turn[t].bound => turn'[t].bound
                                /\ turn'[t].pc \in Running => turn[t].pc \in Running
                                /\ turn'[t].pc \in Open => turn[t].pc \in Open
        PROVE  RegistryInv'
    BY <1>1
  <1>2. ASSUME NEW t \in Turns, NEW pc \in Places, Goto(t, pc),
               UNCHANGED <<registry, alone>>,
               pc \in Running => turn[t].pc \in Running,
               pc \in Open => turn[t].pc \in Open
        PROVE  RegistryInv'
    BY <1>1, <1>2, GotoTurn
  <1>3. ASSUME NEW t \in Turns, NEW pc \in Places, NEW binds \in BOOLEAN,
               NEW isLast \in BOOLEAN, Publish(t, pc, binds, isLast),
               UNCHANGED <<registry, alone>>, turn[t].pc \in Open
        PROVE  RegistryInv'
    BY <1>1, <1>3, PublishTurn DEF Open
  <1>4. ASSUME NEW t \in Turns, Post(t) PROVE RegistryInv'
    BY <1>2, <1>4 DEF Post, Places, Running, Open
  <1>5. ASSUME NEW t \in Turns, Launch(t) PROVE RegistryInv'
    <2>1. \A u \in Turns : /\ turn'[u].bound = turn[u].bound
                           /\ u # t => turn'[u].pc = turn[u].pc
      BY <1>5, GotoTurn DEF Launch, Places, Running
    <2>2. alone' => alone /\ \A u \in Turns \ {t} : turn[u].pc \notin Running
      BY <1>5 DEF Launch
    <2>3. turn[t].bound => registry' = t
      BY <1>5 DEF Launch
    <2> QED
      BY <2>1, <2>2, <2>3 DEF Open
  <1>6. ASSUME NEW t \in Turns, Close(t) PROVE RegistryInv'
    <2>1. /\ turn'[t].pc = "saving" /\ turn'[t].bound = turn[t].bound
          /\ \A u \in Turns \ {t} : turn'[u] = turn[u]
      BY <1>6, CloseTurn
    <2>2. turn[t].pc \in Running /\ alone' = alone
      BY <1>6 DEF Close, At, Running
    <2>3. alone => \A u \in Turns \ {t} : turn[u].pc \notin Running
      BY <2>2
    <2> QED
      BY <2>1, <2>2, <2>3 DEF Open
  <1>7. ASSUME NEW t \in Turns, Task(t), ~Close(t) PROVE RegistryInv'
    <2>1. CASE Begin(t) \/ Emit(t) \/ Announce(t)
      BY <1>3, <2>1 DEF Begin, Emit, Announce, Resumes, At, Open, Running, Places
    <2>2. CASE WorkEnds(t) \/ Complete(t) \/ Fail(t)
      BY <1>2, <2>2
      DEF WorkEnds, Complete, Fail, Settle, Resumes, At, Open, Running, Places
    <2>3. CASE Save(t) \/ Cancelled(t)
      BY <1>2, <2>3 DEF Save, Cancelled, At, Open, Running, Places
    <2> QED
      BY <1>7, <2>1, <2>2, <2>3 DEF Task
  <1>8. CASE Stop
    BY <1>1, <1>8, StopTurn DEF Stop
  <1>9. CASE UNCHANGED <<registry, turn, alone>>
    BY <1>1, <1>9
  <1> QED
    BY <1>4, <1>5, <1>6, <1>7, <1>8, <1>9
    DEF Next, Reads, Attach, Disconnect, Replay, Follow, TimeOut, vars

-----------------------------------------------------------------------------
(***************************************************************************)
(* Every stream that is open holds what its client is still to get.        *)
(***************************************************************************)
Holds(s) ==
    Good(stream[s].from, stream[s].todo, stream[s].queue, stream[s].got,
         stream[s].dropped, turn[stream[s].of].seq, turn[stream[s].of].pc)

OpenHolds(s)  == stream[s].state = "in" => stream[s].of \in Turns /\ Holds(s)
OutIsFresh(s) == stream[s].state = "out" => stream[s] = NoStream
NotBefore(s)  == s \in Turns /\ turn[s].pc \in {"idle", "posting"} =>
                     stream[s].state = "out"

StreamsInv == \A s \in Streams : OpenHolds(s) /\ OutIsFresh(s) /\ NotBefore(s)

LEMMA StreamsInit == Init => StreamsInv
  BY DEF Init, StreamsInv, OpenHolds, OutIsFresh, NotBefore, NoStream

\* A task that moves on without its bus leaves the streams as they are.
LEMMA QuietStreams ==
    ASSUME TypeInv, StreamsInv, stream' = stream,
           \A t \in Turns :
              /\ turn'[t].seq = turn[t].seq
              /\ turn[t].pc \in Done => turn'[t].pc \in Done
              /\ turn'[t].pc \in {"idle", "posting"} =>
                     turn[t].pc \in {"idle", "posting"}
    PROVE  StreamsInv'
  <1> SUFFICES ASSUME NEW s \in Streams
               PROVE  OpenHolds(s)' /\ OutIsFresh(s)' /\ NotBefore(s)'
    BY DEF StreamsInv
  <1>1. OpenHolds(s) /\ OutIsFresh(s) /\ NotBefore(s)
    BY DEF StreamsInv
  <1>2. OutIsFresh(s)' /\ NotBefore(s)'
    BY <1>1 DEF OutIsFresh, NotBefore
  <1>3. ASSUME stream[s].state = "in" PROVE stream[s].of \in Turns /\ Holds(s)'
    <2>1. stream[s].of \in Turns /\ Holds(s)
      BY <1>1, <1>3 DEF OpenHolds
    <2> QED
      BY <2>1, MoveGood DEF Holds
  <1> QED
    BY <1>2, <1>3 DEF OpenHolds

LEMMA PublishStreams ==
    ASSUME TypeInv, StreamsInv, NEW t \in Turns, NEW pc \in Places,
           NEW binds \in BOOLEAN, NEW isLast \in BOOLEAN,
           Publish(t, pc, binds, isLast), turn[t].pc \in Open,
           pc \in Running
    PROVE  StreamsInv'
  <1>1. /\ turn'[t].pc = pc /\ turn'[t].seq = turn[t].seq + 1
        /\ \A u \in Turns \ {t} : turn'[u] = turn[u]
    BY PublishTurn
  <1>2. turn[t].seq \in Nat /\ turn[t].seq + 1 \in Nat /\ turn[t].seq + 1 # 0
    BY DEF TypeInv, TurnType
  <1>3. Broadcast(t, turn[t].seq + 1)
    BY DEF Publish
  <1> SUFFICES ASSUME NEW s \in Streams
               PROVE  OpenHolds(s)' /\ OutIsFresh(s)' /\ NotBefore(s)'
    BY DEF StreamsInv
  <1>4. OpenHolds(s) /\ OutIsFresh(s) /\ NotBefore(s) /\ stream[s] \in StreamType
    BY DEF StreamsInv, TypeInv
  <1>5. \/ ~Subscribed(s, t) /\ stream'[s] = stream[s]
        \/ /\ Subscribed(s, t) /\ HasRoom(s)
           /\ stream'[s] = [stream[s] EXCEPT
                  !.queue = Append(stream[s].queue, turn[t].seq + 1)]
        \/ /\ Subscribed(s, t)
           /\ stream'[s] = [stream[s] EXCEPT
                  !.dropped = stream[s].dropped \cup {turn[t].seq + 1}]
    BY <1>2, <1>3, BroadcastStreams DEF Sentinel
  <1>6. stream'[s].state = stream[s].state /\ stream'[s].of = stream[s].of
    BY <1>4, <1>5 DEF StreamType
  <1>7. OutIsFresh(s)'
    BY <1>4, <1>5, <1>6 DEF OutIsFresh, Subscribed
  <1>8. NotBefore(s)'
    <2>1. \A u \in Turns : turn'[u].pc \in {"idle", "posting"} =>
                               turn[u].pc \in {"idle", "posting"}
      BY <1>1 DEF Running
    <2> QED
      BY <1>4, <1>6, <2>1 DEF NotBefore
  <1>9. ASSUME stream[s].state = "in" PROVE stream[s].of \in Turns /\ Holds(s)'
    <2>1. stream[s].of \in Turns /\ Holds(s)
      BY <1>4, <1>9 DEF OpenHolds
    <2>2. CASE stream[s].of # t
      BY <1>1, <1>5, <2>1, <2>2 DEF Holds, Subscribed
    <2>3. CASE stream[s].of = t
      <3>1. Good(stream[s].from, stream[s].todo, stream[s].queue, stream[s].got,
                 stream[s].dropped, turn[t].seq, turn[t].pc)
        BY <2>1, <2>3 DEF Holds
      <3>2. turn[t].pc \notin Done
        BY DEF Open, Running, Done
      <3>3. Good(stream[s].from, stream[s].todo,
                 Append(stream[s].queue, turn[t].seq + 1), stream[s].got,
                 stream[s].dropped, turn[t].seq + 1, pc)
        BY <3>1, <3>2, EnqueueGood
      <3>4. Good(stream[s].from, stream[s].todo, stream[s].queue, stream[s].got,
                 stream[s].dropped \cup {turn[t].seq + 1}, turn[t].seq + 1, pc)
        BY <3>1, <3>2, DropGood
      <3>5. stream'[s].from = stream[s].from /\ stream'[s].todo = stream[s].todo
            /\ stream'[s].got = stream[s].got
        BY <1>4, <1>5 DEF StreamType
      <3>6. CASE stream'[s] = [stream[s] EXCEPT
                      !.queue = Append(stream[s].queue, turn[t].seq + 1)]
        <4>1. stream'[s].queue = Append(stream[s].queue, turn[t].seq + 1)
              /\ stream'[s].dropped = stream[s].dropped
          BY <1>4, <3>6 DEF StreamType
        <4> QED
          BY <1>1, <1>6, <2>1, <2>3, <3>3, <3>5, <4>1 DEF Holds
      <3>7. CASE stream'[s] = [stream[s] EXCEPT
                      !.dropped = stream[s].dropped \cup {turn[t].seq + 1}]
        <4>1. stream'[s].dropped = stream[s].dropped \cup {turn[t].seq + 1}
              /\ stream'[s].queue = stream[s].queue
          BY <1>4, <3>7 DEF StreamType
        <4> QED
          BY <1>1, <1>6, <2>1, <2>3, <3>4, <3>5, <4>1 DEF Holds
      <3> QED
        BY <1>5, <1>9, <2>3, <3>6, <3>7 DEF Subscribed
    <2> QED
      BY <2>1, <2>2, <2>3
  <1> QED
    BY <1>6, <1>7, <1>8, <1>9 DEF OpenHolds

LEMMA CloseStreams ==
    ASSUME TypeInv, StreamsInv, NEW t \in Turns, Close(t)
    PROVE  StreamsInv'
  <1>1. /\ turn'[t].pc = "saving" /\ turn'[t].seq = turn[t].seq
        /\ \A u \in Turns \ {t} : turn'[u] = turn[u]
    BY CloseTurn
  <1> SUFFICES ASSUME NEW s \in Streams
               PROVE  OpenHolds(s)' /\ OutIsFresh(s)' /\ NotBefore(s)'
    BY DEF StreamsInv
  <1>2. OpenHolds(s) /\ OutIsFresh(s) /\ NotBefore(s) /\ stream[s] \in StreamType
    BY DEF StreamsInv, TypeInv
  <1>3. \/ stream'[s] = stream[s]
        \/ /\ Subscribed(s, t)
           /\ stream'[s] = [stream[s] EXCEPT !.queue = Append(stream[s].queue, 0)]
    BY BroadcastStreams DEF Close, Sentinel
  <1>4. /\ stream'[s].state = stream[s].state /\ stream'[s].of = stream[s].of
        /\ stream'[s].from = stream[s].from /\ stream'[s].todo = stream[s].todo
        /\ stream'[s].got = stream[s].got /\ stream'[s].dropped = stream[s].dropped
        /\ \/ stream'[s].queue = stream[s].queue
           \/ Subscribed(s, t) /\ stream'[s].queue = Append(stream[s].queue, 0)
    BY <1>2, <1>3 DEF StreamType
  <1>5. OutIsFresh(s)' /\ NotBefore(s)'
    BY <1>1, <1>2, <1>3, <1>4 DEF OutIsFresh, NotBefore, Subscribed
  <1>6. ASSUME stream[s].state = "in" PROVE stream[s].of \in Turns /\ Holds(s)'
    <2>1. stream[s].of \in Turns /\ Holds(s)
      BY <1>2, <1>6 DEF OpenHolds
    <2>2. CASE stream[s].of # t
      BY <1>1, <1>3, <2>1, <2>2 DEF Holds, Subscribed
    <2>3. CASE stream[s].of = t
      <3>1. Good(stream[s].from, stream[s].todo, stream[s].queue, stream[s].got,
                 stream[s].dropped, turn[t].seq, turn[t].pc)
        BY <2>1, <2>3 DEF Holds
      <3>2. turn[t].pc \notin Done /\ "saving" \in Done
        BY DEF Close, At, Done
      <3>3. /\ Good(stream[s].from, stream[s].todo, Append(stream[s].queue, 0),
                    stream[s].got, stream[s].dropped, turn[t].seq, "saving")
            /\ Good(stream[s].from, stream[s].todo, stream[s].queue,
                    stream[s].got, stream[s].dropped, turn[t].seq, "saving")
        BY <3>1, <3>2, SentinelGood
      <3> QED
        BY <1>1, <1>4, <2>1, <2>3, <3>3 DEF Holds
    <2> QED
      BY <2>1, <2>2, <2>3
  <1> QED
    BY <1>4, <1>5, <1>6 DEF OpenHolds

\* A step that replaces one stream.
LEMMA OneStream ==
    ASSUME TypeInv, StreamsInv, turn' = turn, NEW s \in Streams, NEW new,
           stream' = [stream EXCEPT ![s] = new],
           stream[s].state = "in",
           \/ new.state \in {"over", "left"}
           \/ /\ new.state = "in" /\ new.of = stream[s].of
              /\ Good(new.from, new.todo, new.queue, new.got, new.dropped,
                      turn[new.of].seq, turn[new.of].pc)
    PROVE  StreamsInv'
  <1> SUFFICES ASSUME NEW r \in Streams
               PROVE  OpenHolds(r)' /\ OutIsFresh(r)' /\ NotBefore(r)'
    BY DEF StreamsInv
  <1>1. OpenHolds(r) /\ OutIsFresh(r) /\ NotBefore(r)
    BY DEF StreamsInv
  <1>2. CASE r # s
    BY <1>1, <1>2 DEF OpenHolds, OutIsFresh, NotBefore, Holds
  <1>3. CASE r = s
    <2>1. stream'[r] = new
      BY <1>3 DEF TypeInv
    <2>2. stream[r].of \in Turns /\ new.state # "out"
      BY <1>1, <1>3 DEF OpenHolds
    <2>3. NotBefore(r)'
      BY <1>1, <1>3 DEF NotBefore
    <2> QED
      BY <1>3, <2>1, <2>2, <2>3 DEF OpenHolds, OutIsFresh, Holds
  <1> QED
    BY <1>2, <1>3

LEMMA LaunchStreamsInv ==
    ASSUME TypeInv, TurnsInv, StreamsInv, NEW t \in Turns, Launch(t)
    PROVE  StreamsInv'
  <1>1. /\ turn'[t].pc = "ready" /\ \A u \in Turns : turn'[u].seq = turn[u].seq
        /\ \A u \in Turns \ {t} : turn'[u].pc = turn[u].pc
    BY GotoTurn DEF Launch, Places, Running
  <1>2. turn[t].pc = "posting"
    BY DEF Launch, At
  <1> SUFFICES ASSUME NEW s \in Streams
               PROVE  OpenHolds(s)' /\ OutIsFresh(s)' /\ NotBefore(s)'
    BY DEF StreamsInv
  <1>3. OpenHolds(s) /\ OutIsFresh(s) /\ NotBefore(s)
    BY DEF StreamsInv
  <1>4. CASE s # t
    <2>1. stream'[s] = stream[s]
      BY <1>4, LaunchStreams
    <2>2. OutIsFresh(s)' /\ NotBefore(s)'
      BY <1>1, <1>3, <1>4, <2>1 DEF OutIsFresh, NotBefore
    <2>3. ASSUME stream[s].state = "in" PROVE stream[s].of \in Turns /\ Holds(s)'
      <3>1. stream[s].of \in Turns /\ Holds(s)
        BY <1>3, <2>3 DEF OpenHolds
      <3>2. turn[stream[s].of].pc \in Done => turn'[stream[s].of].pc \in Done
        BY <1>1, <1>2, <3>1 DEF Done
      <3> QED
        BY <1>1, <2>1, <3>1, <3>2, MoveGood DEF Holds
    <2> QED
      BY <2>1, <2>2, <2>3 DEF OpenHolds
  <1>5. CASE s = t
    <2>1. stream'[t] = [NoStream EXCEPT !.state = "in", !.of = t]
      BY <1>5, LaunchStreams
    <2>2. /\ stream'[t].state = "in" /\ stream'[t].of = t /\ stream'[t].from = 0
          /\ stream'[t].todo = <<>> /\ stream'[t].queue = <<>>
          /\ stream'[t].got = <<>> /\ stream'[t].dropped = {}
      BY <2>1 DEF NoStream
    <2>3. turn[t].seq = 0
      BY <1>2 DEF TurnsInv, Unbegun
    <2>4. Good(0, <<>>, <<>>, <<>>, {}, 0, "ready")
      <3>1. Good(0, [i \in 1..(IF 0 < 0 THEN 0 - 0 ELSE 0) |-> 0 + i], <<>>, <<>>, {},
                 0, "ready")
        BY JoinGood
      <3>2. [i \in 1..(IF 0 < 0 THEN 0 - 0 ELSE 0) |-> 0 + i] = <<>>
        OBVIOUS
      <3> QED
        BY <3>1, <3>2
    <2> QED
      BY <1>1, <1>5, <2>2, <2>3, <2>4
      DEF OpenHolds, OutIsFresh, NotBefore, Holds
  <1> QED
    BY <1>4, <1>5

LEMMA AttachStreamsInv ==
    ASSUME TypeInv, StreamsInv, NEW c \in Clients, Attach(c)
    PROVE  StreamsInv'
  <1>1. turn' = turn /\ c \in Streams /\ c \notin Turns
    BY HarnessAssumption DEF Attach, Streams
  <1>2. registry \in Turns /\ turn[registry].seq \in Nat
    BY AttachStreams
  <1>3. PICK k \in After : stream'[c] =
                 [stream[c] EXCEPT !.state = "in", !.of = registry, !.from = k,
                                   !.todo = History(k, turn[registry].seq)]
    BY AttachStreams
  <1>4. stream[c] = NoStream
    BY <1>1, AttachStreams DEF StreamsInv, OutIsFresh
  <1>5. /\ stream'[c].state = "in" /\ stream'[c].of = registry
        /\ stream'[c].from = k /\ stream'[c].todo = History(k, turn[registry].seq)
        /\ stream'[c].queue = <<>> /\ stream'[c].got = <<>>
        /\ stream'[c].dropped = {}
    BY <1>3, <1>4 DEF NoStream
  <1>6. k \in Nat
    BY HarnessAssumption
  <1>7. Good(k, History(k, turn[registry].seq), <<>>, <<>>, {},
             turn[registry].seq, turn[registry].pc)
    BY <1>2, <1>6, JoinGood DEF History
  <1> SUFFICES ASSUME NEW s \in Streams
               PROVE  OpenHolds(s)' /\ OutIsFresh(s)' /\ NotBefore(s)'
    BY DEF StreamsInv
  <1>8. OpenHolds(s) /\ OutIsFresh(s) /\ NotBefore(s)
    BY DEF StreamsInv
  <1>9. CASE s # c
    <2>1. stream'[s] = stream[s]
      BY <1>9, AttachStreams
    <2> QED
      BY <1>1, <1>8, <2>1 DEF OpenHolds, OutIsFresh, NotBefore, Holds
  <1>10. CASE s = c
    BY <1>1, <1>2, <1>5, <1>7, <1>10 DEF OpenHolds, OutIsFresh, NotBefore, Holds
  <1> QED
    BY <1>9, <1>10

LEMMA FollowStreamsInv ==
    ASSUME TypeInv, StreamsInv, NEW s \in Streams, Follow(s)
    PROVE  StreamsInv'
  <1> DEFINE me    == stream[s]
             entry == Head(me.queue)
             rest  == Tail(me.queue)
             more  == Append(me.got, entry)
  <1>1. /\ me.state = "in" /\ me.todo = <<>> /\ me.queue # <<>>
        /\ \/ stream' = [stream EXCEPT ![s] = Closed(s, "over")]
           \/ /\ entry # 0 /\ entry <= Seen(s)
              /\ stream' = [stream EXCEPT ![s] = [me EXCEPT !.queue = rest]]
           \/ stream' = [stream EXCEPT ![s] = [Closed(s, "over") EXCEPT !.got = more]]
           \/ /\ Seen(s) < entry
              /\ stream' = [stream EXCEPT ![s] = [me EXCEPT !.queue = rest, !.got = more]]
    BY FollowStream
  <1>2. me \in StreamType /\ turn' = turn
    BY DEF TypeInv, Follow
  <1>3. /\ Closed(s, "over").state = "over"
        /\ [Closed(s, "over") EXCEPT !.got = more].state = "over"
    BY <1>2 DEF Closed, StreamType
  <1>4. Good(me.from, <<>>, me.queue, me.got, me.dropped, turn[me.of].seq, turn[me.of].pc)
    BY <1>1 DEF StreamsInv, OpenHolds, Holds
  <1>5. Seen(s) = SeenOf(me.from, me.got)
    BY DEF Seen, SeenOf
  <1> HIDE DEF entry, rest, more
  <1>6. CASE \/ stream' = [stream EXCEPT ![s] = Closed(s, "over")]
             \/ stream' = [stream EXCEPT ![s] = [Closed(s, "over") EXCEPT !.got = more]]
    BY <1>1, <1>2, <1>3, <1>6, OneStream
  <1>7. CASE /\ entry # 0 /\ entry <= Seen(s)
             /\ stream' = [stream EXCEPT ![s] = [me EXCEPT !.queue = rest]]
    <2> DEFINE new == [me EXCEPT !.queue = rest]
    <2>1. Good(me.from, <<>>, rest, me.got, me.dropped, turn[me.of].seq, turn[me.of].pc)
      BY <1>1, <1>4, <1>5, <1>7, SkipGood DEF entry, rest
    <2>2. /\ new.state = "in" /\ new.of = me.of /\ new.from = me.from /\ new.todo = <<>>
          /\ new.queue = rest /\ new.got = me.got /\ new.dropped = me.dropped
      BY <1>1, <1>2 DEF StreamType
    <2>3. stream' = [stream EXCEPT ![s] = new]
      BY <1>7
    <2> HIDE DEF new
    <2> QED
      BY <1>1, <1>2, <2>1, <2>2, <2>3, OneStream
  <1>8. CASE /\ Seen(s) < entry
             /\ stream' = [stream EXCEPT ![s] = [me EXCEPT !.queue = rest, !.got = more]]
    <2> DEFINE new == [me EXCEPT !.queue = rest, !.got = more]
    <2>1. Good(me.from, <<>>, rest, more, me.dropped, turn[me.of].seq, turn[me.of].pc)
      <3>1. SeenOf(me.from, me.got) < Head(me.queue) /\ me.queue # <<>>
        BY <1>1, <1>5, <1>8 DEF entry
      <3>2. Good(me.from, <<>>, me.queue, me.got, me.dropped, turn[me.of].seq,
                 turn[me.of].pc)
        BY <1>1, <1>4
      <3> HIDE DEF me
      <3> QED
        BY <3>1, <3>2, DeliverGood DEF entry, rest, more
    <2>2. /\ new.state = "in" /\ new.of = me.of /\ new.from = me.from /\ new.todo = <<>>
          /\ new.queue = rest /\ new.got = more /\ new.dropped = me.dropped
      BY <1>1, <1>2 DEF StreamType
    <2>3. stream' = [stream EXCEPT ![s] = new]
      BY <1>8
    <2> HIDE DEF new
    <2> QED
      BY <1>1, <1>2, <2>1, <2>2, <2>3, OneStream
  <1> QED
    BY <1>1, <1>6, <1>7, <1>8

LEMMA ReplayStreamsInv ==
    ASSUME TypeInv, StreamsInv, NEW s \in Streams, Replay(s)
    PROVE  StreamsInv'
  <1> DEFINE me   == stream[s]
             rest == Tail(me.todo)
             more == Append(me.got, Head(me.todo))
             new  == [me EXCEPT !.got = more, !.todo = rest]
  <1>1. me.state = "in" /\ me.todo # <<>> /\ stream' = [stream EXCEPT ![s] = new]
    BY ReplayStream
  <1>2. me \in StreamType /\ turn' = turn
    BY DEF TypeInv, Replay
  <1>3. Good(me.from, me.todo, me.queue, me.got, me.dropped, turn[me.of].seq,
             turn[me.of].pc)
    BY <1>1 DEF StreamsInv, OpenHolds, Holds
  <1>4. Good(me.from, rest, me.queue, more, me.dropped, turn[me.of].seq,
             turn[me.of].pc)
    BY <1>1, <1>3, ReplayGood
  <1> HIDE DEF rest, more
  <1>5. /\ new.state = "in" /\ new.of = me.of /\ new.from = me.from /\ new.todo = rest
        /\ new.queue = me.queue /\ new.got = more /\ new.dropped = me.dropped
    BY <1>1, <1>2 DEF StreamType
  <1> HIDE DEF new
  <1> QED
    BY <1>1, <1>2, <1>4, <1>5, OneStream

LEMMA StreamsNext == TypeInv /\ TurnsInv /\ StreamsInv /\ [Next]_vars => StreamsInv'
  <1> SUFFICES ASSUME TypeInv, TurnsInv, StreamsInv, [Next]_vars PROVE StreamsInv'
    OBVIOUS
  <1>1. ASSUME NEW t \in Turns, NEW pc \in Places, Goto(t, pc), stream' = stream,
               turn[t].pc \in Done => pc \in Done,
               pc \in {"idle", "posting"} => turn[t].pc \in {"idle", "posting"}
        PROVE  StreamsInv'
    BY <1>1, GotoTurn, QuietStreams
  <1>2. ASSUME NEW t \in Turns, Post(t) PROVE StreamsInv'
    BY <1>1, <1>2 DEF Post, At, Done, Places
  <1>3. ASSUME NEW t \in Turns, Begin(t) \/ Emit(t) \/ Announce(t) PROVE StreamsInv'
    BY <1>3, PublishStreams
    DEF Begin, Emit, Announce, Resumes, At, Open, Running, Places
  <1>4. ASSUME NEW t \in Turns, WorkEnds(t) \/ Complete(t) \/ Fail(t) PROVE StreamsInv'
    BY <1>1, <1>4
    DEF WorkEnds, Complete, Fail, Settle, Resumes, At, Running, Places, Done
  <1>5. ASSUME NEW t \in Turns, Save(t) \/ Cancelled(t) PROVE StreamsInv'
    BY <1>1, <1>5 DEF Save, Cancelled, At, Running, Places, Done
  <1>6. CASE Stop
    BY <1>6, StopTurn, QuietStreams DEF Stop
  <1>7. ASSUME NEW s \in Streams, NEW state \in {"over", "left"},
               stream[s].state = "in", turn' = turn,
               stream' = [stream EXCEPT ![s] = Closed(s, state)]
        PROVE  StreamsInv'
    <2>1. Closed(s, state).state = state
      <3>1. stream[s] \in StreamType
        BY DEF TypeInv
      <3> QED
        BY <3>1 DEF Closed, StreamType
    <2> QED
      BY <1>7, <2>1, OneStream
  <1>8. ASSUME NEW c \in Clients, Disconnect(c) PROVE StreamsInv'
    BY <1>7, <1>8 DEF Disconnect, Streams
  <1>9. ASSUME NEW s \in Streams, TimeOut(s) PROVE StreamsInv'
    BY <1>7, <1>9 DEF TimeOut
  <1>10. CASE UNCHANGED vars
    BY <1>10, QuietStreams DEF vars
  <1> QED
    BY <1>2, <1>3, <1>4, <1>5, <1>6, <1>8, <1>9, <1>10, LaunchStreamsInv,
       CloseStreams, AttachStreamsInv, ReplayStreamsInv, FollowStreamsInv
    DEF Next, Task, Reads

-----------------------------------------------------------------------------
(***************************************************************************)
(* The streams keep the contract.                                          *)
(***************************************************************************)
LEMMA ContractInit == Init => Contract!Init
  <1> SUFFICES ASSUME Init PROVE Contract!Init
    OBVIOUS
  <1>1. Published = [t \in Turns |-> 0]
    BY DEF Init, Published
  <1>2. Finished = [t \in Turns |-> FALSE]
    <2>1. \A t \in Turns : IsFinished(t) = FALSE
      BY DEF Init, IsFinished
    <2> QED
      BY <2>1, Zenon DEF Finished
  <1>3. Views = [s \in Streams |-> [state |-> "out", of |-> NoTurn, from |-> 0,
                                      got |-> <<>>, lost |-> {}]]
    BY DEF Init, Views, View, NoStream
  <1> QED
    BY <1>1, <1>2, <1>3
    DEF Contract!Init

LEMMA SameTurns ==
    ASSUME \A t \in Turns : /\ turn'[t].seq = turn[t].seq
                            /\ IsFinished(t)' <=> IsFinished(t)
    PROVE  Published' = Published /\ Finished' = Finished
  <1>1. Published' = Published
    BY DEF Published
  <1>2. \A t \in Turns : IsFinished(t)' = IsFinished(t)
    BY Zenon DEF IsFinished
  <1>3. Finished' = [t \in Turns |-> IsFinished(t)']
    BY Zenon DEF Finished
  <1>4. Finished' = Finished
    BY <1>2, <1>3, Zenon DEF Finished
  <1> QED
    BY <1>1, <1>4

LEMMA SameViews ==
    ASSUME \A s \in Streams : stream'[s] = stream[s]
    PROVE  Views' = Views
  BY DEF Views, View

LEMMA OneReader ==
    ASSUME TypeInv, NEW s \in Streams, NEW new, stream' = [stream EXCEPT ![s] = new]
    PROVE  Views' = [Views EXCEPT ![s] =
               [state |-> new.state, of |-> new.of, from |-> new.from,
                got |-> new.got, lost |-> new.dropped]]
  BY DEF Views, View, TypeInv

\* The contract sees nothing of a step that changes neither.
LEMMA Stutters ==
    ASSUME Published' = Published, Finished' = Finished, Views' = Views
    PROVE  UNCHANGED Contract!vars
  BY DEF Contract!vars

LEMMA Publishes ==
    ASSUME NEW t \in Turns, ~Finished[t],
           Published' = [Published EXCEPT ![t] = Published[t] + 1],
           NEW last \in BOOLEAN, Finished' = [Finished EXCEPT ![t] = last],
           NEW losers \in SUBSET Streams,
           \A s \in losers : /\ Views[s].state = "in" /\ Views[s].of = t
                             /\ Published[t] >= (IF Views[s].got = <<>> THEN 0
                                              ELSE Last(Views[s].got)) + QueueSize,
           Views' = [s \in Streams |->
               IF s \in losers
               THEN [Views[s] EXCEPT !.lost = Views[s].lost \cup {Published[t] + 1}]
               ELSE Views[s]]
    PROVE  Contract!Publish(t)
  <1>1. losers \in SUBSET Contract!Behind(t)
    BY DEF Contract!Behind, Contract!Watches, Contract!IsBehind, Contract!Last, Last
  <1>2. t \in DOMAIN Published
    BY DEF Published
  <1>3. Published'[t] = Published[t] + 1
    BY <1>2
  <1>4. Views' = [s \in Streams |->
               IF s \in losers
               THEN [Views[s] EXCEPT !.lost = @ \cup {Published'[t]}]
               ELSE Views[s]]
    BY <1>3
  <1>5. Published' = [Published EXCEPT ![t] = @ + 1]
    BY <1>2
  <1> QED
    BY <1>1, <1>4, <1>5, Zenon DEF Contract!Publish

LEMMA Closes ==
    ASSUME NEW t \in Turns, ~Finished[t], Published' = Published, Views' = Views,
           Finished' = [Finished EXCEPT ![t] = TRUE]
    PROVE  Contract!Close(t)
  BY DEF Contract!Close

LEMMA Joins ==
    ASSUME NEW s \in Streams, NEW t \in Turns, NEW k, Views[s].state = "out",
           Published' = Published, Finished' = Finished,
           Views' = [Views EXCEPT ![s] =
               [Views[s] EXCEPT !.state = "in", !.of = t, !.from = k]]
    PROVE  Contract!Join(s, t, k)
  <1>1. Views' = [Views EXCEPT ![s].state = "in", ![s].of = t, ![s].from = k]
    BY DEF Views, View
  <1> QED
    BY <1>1 DEF Contract!Join

OwedBy(s) == OwedTo(Views[s].from, Views[s].got, Views[s].lost,
                    Published[Views[s].of])

LEMMA Delivers ==
    ASSUME NEW s \in Streams, Views[s].state = "in",
           NEW n \in OwedBy(s), \A m \in OwedBy(s) : n <= m,
           Published' = Published, Finished' = Finished,
           Views' = [Views EXCEPT ![s] =
               [Views[s] EXCEPT !.got = Append(Views[s].got, n)]]
    PROVE  Contract!Deliver(s)
  <1>1. Views' = [Views EXCEPT ![s].got = Append(@, n)]
    BY DEF Views, View
  <1>2. OwedBy(s) = Contract!Owed(s, Published[Views[s].of])
    BY DEF OwedBy, OwedTo, ToSet, Contract!Owed, Contract!ToSet
  <1> QED
    BY <1>1, <1>2 DEF Contract!Deliver

LEMMA EndsEmpty ==
    ASSUME NEW s \in Streams, Views[s].state = "in", Finished[Views[s].of],
           OwedBy(s) = {}, Published' = Published, Finished' = Finished,
           Views' = [Views EXCEPT ![s] = [Views[s] EXCEPT !.state = "over"]]
    PROVE  Contract!Ends(s)
  <1>1. Views' = [Views EXCEPT ![s].state = "over"]
    BY DEF Views, View
  <1>2. OwedBy(s) = Contract!Owed(s, Published[Views[s].of])
    BY DEF OwedBy, OwedTo, ToSet, Contract!Owed, Contract!ToSet
  <1> QED
    BY <1>1, <1>2 DEF Contract!Ends

LEMMA EndsLast ==
    ASSUME NEW s \in Streams, Views[s].state = "in", Finished[Views[s].of],
           NEW n, OwedBy(s) = {n}, Published' = Published, Finished' = Finished,
           Views' = [Views EXCEPT ![s] =
               [Views[s] EXCEPT !.state = "over",
                                  !.got = Append(Views[s].got, n)]]
    PROVE  Contract!Ends(s)
  <1>1. Views' = [Views EXCEPT ![s].state = "over", ![s].got = Append(@, n)]
    BY DEF Views, View
  <1>2. OwedBy(s) = Contract!Owed(s, Published[Views[s].of])
    BY DEF OwedBy, OwedTo, ToSet, Contract!Owed, Contract!ToSet
  <1>3. n \in Contract!Owed(s, Published[Views[s].of])
        /\ Contract!Owed(s, Published[Views[s].of]) = {n}
    BY <1>2
  <1> QED
    BY <1>1, <1>3, Zenon DEF Contract!Ends

LEMMA Leaves ==
    ASSUME NEW s \in Streams, Views[s].state = "in",
           Published' = Published, Finished' = Finished,
           Views' = [Views EXCEPT ![s] = [Views[s] EXCEPT !.state = "left"]]
    PROVE  Contract!Leave(s)
  <1>1. Views' = [Views EXCEPT ![s].state = "left"]
    BY DEF Views, View
  <1> QED
    BY <1>1 DEF Contract!Leave

LEMMA Facts ==
    ASSUME TypeInv
    PROVE  /\ \A t \in Turns : Published[t] = turn[t].seq /\ turn[t].seq \in Nat
           /\ \A t \in Turns : Finished[t] <=> IsFinished(t)
           /\ \A s \in Streams : Views[s] = View(s)
  BY DEF TypeInv, TurnType, Published, Finished, Views

LEMMA FinishesAtMost ==
    ASSUME NEW t \in Turns, \A u \in Turns \ {t} : IsFinished(u)' <=> IsFinished(u)
    PROVE  Finished' = [Finished EXCEPT ![t] = IsFinished(t)']
  <1>1. \A u \in Turns : IsFinished(u)' = IF u = t THEN IsFinished(t)' ELSE IsFinished(u)
    BY Zenon DEF IsFinished
  <1>2. Finished' = [u \in Turns |-> IsFinished(u)']
    BY Zenon DEF Finished
  <1>3. [Finished EXCEPT ![t] = IsFinished(t)'] =
            [u \in Turns |-> IF u = t THEN IsFinished(t)' ELSE IsFinished(u)]
    BY Zenon DEF Finished
  <1> QED
    BY <1>1, <1>2, <1>3, Zenon

LEMMA PublishStep ==
    ASSUME TypeInv, TurnsInv, StreamsInv, NEW t \in Turns, NEW pc \in Places,
           NEW binds \in BOOLEAN, NEW isLast \in BOOLEAN,
           Publish(t, pc, binds, isLast), turn[t].pc \in Open \ {"closing"}
    PROVE  Contract!Publish(t)
  <1> DEFINE n == turn[t].seq
             losers == {s \in Streams : Subscribed(s, t) /\ ~HasRoom(s)}
  <1>1. /\ turn'[t].seq = n + 1
        /\ \A u \in Turns \ {t} : turn'[u] = turn[u]
    BY PublishTurn
  <1>2. n \in Nat /\ n + 1 \in Nat /\ n + 1 # 0
    BY DEF TypeInv, TurnType
  <1>3. ~Finished[t]
    <2>1. turn[t].last = 0 /\ turn[t].pc \notin {"saving", "over"}
      BY DEF TurnsInv, LastIsLast, Open, Running, Done
    <2> QED
      BY <2>1, Facts DEF IsFinished
  <1>4. Published' = [Published EXCEPT ![t] = Published[t] + 1]
    BY <1>1 DEF Published
  <1>5. PICK last \in BOOLEAN : Finished' = [Finished EXCEPT ![t] = last]
    <2>1. IsFinished(t)' \in BOOLEAN
      BY Zenon DEF IsFinished
    <2>2. \A u \in Turns \ {t} : IsFinished(u)' <=> IsFinished(u)
      BY <1>1 DEF IsFinished
    <2> QED
      BY <2>1, <2>2, FinishesAtMost
  <1>6. \A s \in Streams : Views[s] = View(s)
    BY Facts
  <1>7. ASSUME NEW s \in losers
        PROVE  /\ Views[s].state = "in" /\ Views[s].of = t
               /\ Published[t] >= (IF Views[s].got = <<>> THEN 0
                                   ELSE Last(Views[s].got)) + QueueSize
    <2>1. stream[s].state = "in" /\ stream[s].of = t /\ s \in Streams
      BY DEF Subscribed
    <2>2. Good(stream[s].from, stream[s].todo, stream[s].queue, stream[s].got,
               stream[s].dropped, n, turn[t].pc)
      BY <2>1 DEF StreamsInv, OpenHolds, Holds
    <2>3. stream[s].queue \in Seq(Nat) /\ stream[s].got \in Seq(Nat)
      BY <2>2 DEF Good, Typed
    <2>4. Len(stream[s].queue) >= QueueSize /\ Len(stream[s].queue) # 0
      BY <2>3, HarnessAssumption DEF HasRoom
    <2>5. turn[t].pc \notin Done
      BY DEF Open, Running, Done
    <2> DEFINE reached == IF stream[s].got = <<>> THEN 0 ELSE Last(stream[s].got)
    <2>6. reached \in Nat
      <3>1. stream[s].got # <<>> => Len(stream[s].got) \in 1..Len(stream[s].got)
        BY <2>3
      <3> QED
        BY <2>3, <3>1 DEF Last
    <2>7. n >= reached + Len(stream[s].queue)
      BY <2>2, <2>4, <2>5, FullIsBehind
    <2>8. n >= reached + QueueSize
      <3> HIDE DEF reached
      <3>1. QueueSize \in Nat /\ Len(stream[s].queue) \in Nat
        BY <2>3, HarnessAssumption
      <3> QED
        BY <1>2, <2>4, <2>6, <2>7, <3>1
    <2>9. Published[t] = n
      BY Facts
    <2>10. Views[s].state = "in" /\ Views[s].of = t /\ Views[s].got = stream[s].got
      <3>1. Views[s] = View(s)
        BY <1>6, <2>1
      <3> QED
        BY <2>1, <3>1 DEF View
    <2> QED
      BY <2>8, <2>9, <2>10
  <1>8. Views' = [s \in Streams |->
               IF s \in losers
               THEN [Views[s] EXCEPT !.lost = Views[s].lost \cup {Published[t] + 1}]
               ELSE Views[s]]
    <2>1. \A s \in Streams : View(s)' =
               IF s \in losers
               THEN [Views[s] EXCEPT !.lost = Views[s].lost \cup {Published[t] + 1}]
               ELSE Views[s]
      <3> SUFFICES ASSUME NEW s \in Streams
                   PROVE  View(s)' =
               IF s \in losers
               THEN [Views[s] EXCEPT !.lost = Views[s].lost \cup {Published[t] + 1}]
               ELSE Views[s]
        OBVIOUS
      <3>1. Views[s] = View(s) /\ Published[t] = n /\ stream[s] \in StreamType
        BY <1>6, Facts DEF TypeInv
      <3>2. \/ ~Subscribed(s, t) /\ stream'[s] = stream[s]
            \/ /\ Subscribed(s, t) /\ HasRoom(s)
               /\ stream'[s] = [stream[s] EXCEPT
                      !.queue = Append(stream[s].queue, n + 1)]
            \/ /\ Subscribed(s, t) /\ ~HasRoom(s)
               /\ stream'[s] = [stream[s] EXCEPT
                      !.dropped = stream[s].dropped \cup {n + 1}]
        BY <1>2, BroadcastStreams DEF Publish, Sentinel
      <3>3. CASE s \in losers
        <4>1. stream'[s] = [stream[s] EXCEPT
                      !.dropped = stream[s].dropped \cup {n + 1}]
          BY <3>2, <3>3
        <4>2. /\ stream'[s].state = stream[s].state /\ stream'[s].of = stream[s].of
              /\ stream'[s].from = stream[s].from /\ stream'[s].got = stream[s].got
              /\ stream'[s].dropped = stream[s].dropped \cup {n + 1}
          BY <3>1, <4>1 DEF StreamType
        <4>3. View(s)' = [View(s) EXCEPT !.lost = stream[s].dropped \cup {n + 1}]
          BY <4>2 DEF View
        <4>4. View(s).lost = stream[s].dropped
          BY DEF View
        <4> QED
          BY <3>1, <3>3, <4>3, <4>4
      <3>4. CASE s \notin losers
        <4>1. \/ stream'[s] = stream[s]
              \/ stream'[s] = [stream[s] EXCEPT
                      !.queue = Append(stream[s].queue, n + 1)]
          BY <3>2, <3>4
        <4> QED
          BY <3>1, <3>4, <4>1 DEF View, StreamType
      <3> QED
        BY <3>3, <3>4
    <2> HIDE DEF losers
    <2> QED
      BY <2>1 DEF Views
  <1>9. losers \in SUBSET Streams
    OBVIOUS
  <1> HIDE DEF losers
  <1> QED
    BY <1>3, <1>4, <1>5, <1>7, <1>8, <1>9, Publishes

\* A task that ends its bus closes the run, unless the last event has.
LEMMA EndStep ==
    ASSUME TypeInv, NEW t \in Turns, Views' = Views,
           turn'[t].seq = turn[t].seq, turn'[t].last = turn[t].last,
           turn'[t].pc \in Done,
           \A u \in Turns \ {t} : /\ turn'[u].pc = turn[u].pc
                                  /\ turn'[u].seq = turn[u].seq
                                  /\ turn'[u].last = turn[u].last
    PROVE  [Contract!Next]_(Contract!vars)
  <1>1. \A u \in Turns \ {t} : IsFinished(u)' <=> IsFinished(u)
    BY DEF IsFinished
  <1>2. IsFinished(t)'
    BY DEF IsFinished, Done
  <1>3. Published' = Published
    BY DEF Published
  <1>4. CASE IsFinished(t)
    <2>1. Finished' = Finished
      BY <1>1, <1>2, <1>4, SameTurns
    <2> QED
      BY <1>3, <2>1, Stutters
  <1>5. CASE ~IsFinished(t)
    <2>1. ~Finished[t]
      BY <1>5, Facts
    <2>2. IsFinished(t)' = TRUE
      BY <1>2, Zenon DEF IsFinished
    <2>3. Finished' = [Finished EXCEPT ![t] = TRUE]
      BY <1>1, <2>2, FinishesAtMost
    <2>4. Contract!Close(t)
      BY <1>3, <2>1, <2>3, Closes
    <2> QED
      BY <2>4 DEF Contract!Next
  <1> QED
    BY <1>4, <1>5

LEMMA CloseStep ==
    ASSUME TypeInv, NEW t \in Turns, Close(t)
    PROVE  [Contract!Next]_(Contract!vars)
  <1>1. \A s \in Streams : View(s)' = View(s)
    <2> SUFFICES ASSUME NEW s \in Streams PROVE View(s)' = View(s)
      OBVIOUS
    <2>1. stream[s] \in StreamType
      BY DEF TypeInv
    <2>2. \/ stream'[s] = stream[s]
          \/ stream'[s] = [stream[s] EXCEPT !.queue = Append(stream[s].queue, 0)]
      BY BroadcastStreams DEF Close, Sentinel
    <2> QED
      BY <2>1, <2>2 DEF View, StreamType
  <1>2. Views' = Views
    BY <1>1 DEF Views
  <1>3. turn'[t].pc \in Done
    BY CloseTurn DEF Done
  <1> QED
    BY <1>2, <1>3, CloseTurn, EndStep

\* A step of the task that its streams do not see.
LEMMA QuietStep ==
    ASSUME TypeInv, stream' = stream,
           \A t \in Turns : /\ turn'[t].seq = turn[t].seq
                            /\ turn'[t].last = turn[t].last
                            /\ turn'[t].pc \in Done <=> turn[t].pc \in Done
    PROVE  [Contract!Next]_(Contract!vars)
  <1>1. Views' = Views
    <2>1. \A s \in Streams : stream'[s] = stream[s]
      OBVIOUS
    <2> QED
      BY <2>1, SameViews
  <1>2. \A t \in Turns : IsFinished(t)' <=> IsFinished(t)
    BY DEF IsFinished, Done
  <1> QED
    BY <1>1, <1>2, SameTurns, Stutters

\* Views are records; two or three of their fields change.
Record(state, of, from, got, lost) ==
    [state |-> state, of |-> of, from |-> from, got |-> got, lost |-> lost]

Ended(x, got)    == [x EXCEPT !.state = "over", !.got = got]
Joined(x, of, k) == [x EXCEPT !.state = "in", !.of = of, !.from = k]

LEMMA EndedRecord ==
    ASSUME NEW a, NEW b, NEW c, NEW d, NEW e, NEW got
    PROVE  Ended(Record(a, b, c, d, e), got) = Record("over", b, c, got, e)
  <1> DEFINE v == [Record(a, b, c, d, e) EXCEPT !.state = "over"]
  <1>1. v = Record("over", b, c, d, e)
    BY DEF Record
  <1>2. Ended(Record(a, b, c, d, e), got) = [v EXCEPT !.got = got]
    BY DEF Record, Ended
  <1> HIDE DEF v
  <1> QED
    BY <1>1, <1>2 DEF Record

LEMMA JoinedRecord ==
    ASSUME NEW a, NEW b, NEW c, NEW d, NEW e, NEW of, NEW k
    PROVE  Joined(Record(a, b, c, d, e), of, k) = Record("in", of, k, d, e)
  <1> DEFINE v == [Record(a, b, c, d, e) EXCEPT !.state = "in"]
             w == [v EXCEPT !.of = of]
  <1>1. v = Record("in", b, c, d, e)
    BY DEF Record
  <1>2. Joined(Record(a, b, c, d, e), of, k) = [w EXCEPT !.from = k]
    BY DEF Record, Joined
  <1> HIDE DEF v
  <1>3. w = Record("in", of, c, d, e)
    BY <1>1 DEF Record
  <1> HIDE DEF w
  <1> QED
    BY <1>2, <1>3 DEF Record

LEMMA LaunchStep ==
    ASSUME TypeInv, StreamsInv, NEW t \in Turns, Launch(t)
    PROVE  [Contract!Next]_(Contract!vars)
  <1>1. turn[t].pc = "posting"
    BY DEF Launch, At
  <1>2. /\ turn'[t].pc = "ready" /\ \A u \in Turns : turn'[u].seq = turn[u].seq
        /\ \A u \in Turns : turn'[u].last = turn[u].last
        /\ \A u \in Turns \ {t} : turn'[u].pc = turn[u].pc
    BY GotoTurn DEF Launch, Places, Running
  <1>3. \A u \in Turns : IsFinished(u)' <=> IsFinished(u)
    BY <1>1, <1>2 DEF IsFinished
  <1>4. Published' = Published /\ Finished' = Finished
    BY <1>2, <1>3, SameTurns
  <1>5. CASE t \notin Streams
    <2>1. Views' = Views
      BY <1>5, LaunchStreams, SameViews
    <2> QED
      BY <1>4, <2>1, Stutters
  <1>6. CASE t \in Streams
    <2>1. stream[t] = NoStream
      BY <1>1, <1>6 DEF StreamsInv, NotBefore, OutIsFresh
    <2> DEFINE new == [NoStream EXCEPT !.state = "in", !.of = t]
    <2>2. stream' = [stream EXCEPT ![t] = new]
      BY <1>6, LaunchStreams DEF TypeInv
    <2>3. Views' = [Views EXCEPT ![t] =
               [state |-> new.state, of |-> new.of, from |-> new.from,
                got |-> new.got, lost |-> new.dropped]]
      BY <1>6, <2>2, OneReader
    <2>4. Views[t] = [state |-> "out", of |-> NoTurn, from |-> 0,
                      got |-> <<>>, lost |-> {}]
      <3>1. Views[t] = View(t)
        BY <1>6, Facts
      <3>2. /\ stream[t].state = "out" /\ stream[t].of = NoTurn /\ stream[t].from = 0
            /\ stream[t].got = <<>> /\ stream[t].dropped = {}
        BY <2>1 DEF NoStream
      <3> QED
        BY <3>1, <3>2 DEF View
    <2>5. [state |-> new.state, of |-> new.of, from |-> new.from,
           got |-> new.got, lost |-> new.dropped]
            = [Views[t] EXCEPT !.state = "in", !.of = t, !.from = 0]
      <3>1. /\ new.state = "in" /\ new.of = t /\ new.from = 0
            /\ new.got = <<>> /\ new.dropped = {}
        BY DEF NoStream
      <3> HIDE DEF new
      <3>2. Views[t] = Record("out", NoTurn, 0, <<>>, {})
        BY <2>4 DEF Record
      <3>3. Joined(Views[t], t, 0) = Record("in", t, 0, <<>>, {})
        BY <3>2, JoinedRecord
      <3>4. [state |-> new.state, of |-> new.of, from |-> new.from,
             got |-> new.got, lost |-> new.dropped] = Joined(Views[t], t, 0)
        BY <3>1, <3>3 DEF Record
      <3> QED
        BY <3>4, Zenon DEF Joined
    <2>6. Views[t].state = "out"
      BY <2>4
    <2>7. Contract!Join(t, t, 0)
      BY <1>4, <1>6, <2>3, <2>5, <2>6, Joins
    <2>8. 0 \in After \cup {0}
      OBVIOUS
    <2> QED
      BY <1>6, <2>7, <2>8 DEF Contract!Next
  <1> QED
    BY <1>5, <1>6

LEMMA AttachStep ==
    ASSUME TypeInv, StreamsInv, NEW c \in Clients, Attach(c)
    PROVE  [Contract!Next]_(Contract!vars)
  <1>1. turn' = turn /\ c \in Streams
    BY DEF Attach, Streams
  <1>2. registry \in Turns /\ stream[c].state = "out"
    BY AttachStreams
  <1>3. Published' = Published /\ Finished' = Finished
    BY <1>1, SameTurns DEF IsFinished
  <1>4. PICK k \in After : stream'[c] =
                 [stream[c] EXCEPT !.state = "in", !.of = registry, !.from = k,
                                   !.todo = History(k, turn[registry].seq)]
    BY AttachStreams
  <1>5. stream[c] = NoStream
    BY <1>1, <1>2 DEF StreamsInv, OutIsFresh
  <1> DEFINE new == [NoStream EXCEPT !.state = "in", !.of = registry, !.from = k,
                                     !.todo = History(k, turn[registry].seq)]
  <1>6. stream' = [stream EXCEPT ![c] = new]
    BY <1>1, <1>4, <1>5, AttachStreams DEF TypeInv
  <1>7. Views' = [Views EXCEPT ![c] =
               [state |-> new.state, of |-> new.of, from |-> new.from,
                got |-> new.got, lost |-> new.dropped]]
    BY <1>1, <1>6, OneReader
  <1>8. Views[c] = [state |-> "out", of |-> NoTurn, from |-> 0,
                    got |-> <<>>, lost |-> {}]
    <2>1. Views[c] = View(c)
      BY <1>1, Facts
    <2>2. /\ stream[c].state = "out" /\ stream[c].of = NoTurn /\ stream[c].from = 0
          /\ stream[c].got = <<>> /\ stream[c].dropped = {}
      BY <1>5 DEF NoStream
    <2> QED
      BY <2>1, <2>2 DEF View
  <1>9. [state |-> new.state, of |-> new.of, from |-> new.from,
         got |-> new.got, lost |-> new.dropped]
            = [Views[c] EXCEPT !.state = "in", !.of = registry, !.from = k]
    <2>1. /\ new.state = "in" /\ new.of = registry /\ new.from = k
          /\ new.got = <<>> /\ new.dropped = {}
      BY DEF NoStream
    <2> HIDE DEF new
    <2>2. Views[c] = Record("out", NoTurn, 0, <<>>, {})
      BY <1>8 DEF Record
    <2>3. Joined(Views[c], registry, k) = Record("in", registry, k, <<>>, {})
      BY <2>2, JoinedRecord
    <2>4. [state |-> new.state, of |-> new.of, from |-> new.from,
           got |-> new.got, lost |-> new.dropped] = Joined(Views[c], registry, k)
      BY <2>1, <2>3 DEF Record
    <2> QED
      BY <2>4, Zenon DEF Joined
  <1>10. Views[c].state = "out"
    BY <1>8
  <1>11. Contract!Join(c, registry, k)
    BY <1>1, <1>2, <1>3, <1>7, <1>9, <1>10, Joins
  <1> QED
    BY <1>1, <1>2, <1>11 DEF Contract!Next

\* What a stream that is open is owed, in the words of the contract.
LEMMA OwedFacts ==
    ASSUME TypeInv, StreamsInv, NEW s \in Streams, stream[s].state = "in"
    PROVE  /\ stream[s].of \in Turns
           /\ Good(stream[s].from, stream[s].todo, stream[s].queue, stream[s].got,
                   stream[s].dropped, turn[stream[s].of].seq, turn[stream[s].of].pc)
           /\ OwedBy(s) = OwedTo(stream[s].from, stream[s].got, stream[s].dropped,
                                 turn[stream[s].of].seq)
           /\ Views[s].state = "in" /\ Views[s].of = stream[s].of
           /\ Views[s].got = stream[s].got
           /\ Views[s] = View(s)
  <1>1. /\ stream[s].of \in Turns
        /\ Good(stream[s].from, stream[s].todo, stream[s].queue, stream[s].got,
                stream[s].dropped, turn[stream[s].of].seq, turn[stream[s].of].pc)
    BY DEF StreamsInv, OpenHolds, Holds
  <1>2. Views[s] = View(s)
    BY Facts
  <1>3. /\ Views[s].state = "in" /\ Views[s].of = stream[s].of
        /\ Views[s].from = stream[s].from /\ Views[s].got = stream[s].got
        /\ Views[s].lost = stream[s].dropped
    BY <1>2 DEF View
  <1>4. Published[stream[s].of] = turn[stream[s].of].seq
    BY <1>1, Facts
  <1>5. OwedBy(s) = OwedTo(stream[s].from, stream[s].got, stream[s].dropped,
                           turn[stream[s].of].seq)
    BY <1>3, <1>4 DEF OwedBy
  <1> QED
    BY <1>1, <1>2, <1>3, <1>5

LEMMA ReplayStep ==
    ASSUME TypeInv, StreamsInv, NEW s \in Streams, Replay(s)
    PROVE  [Contract!Next]_(Contract!vars)
  <1> DEFINE me   == stream[s]
             n    == Head(me.todo)
             more == Append(me.got, n)
             new  == [me EXCEPT !.got = more, !.todo = Tail(me.todo)]
  <1>1. me.state = "in" /\ me.todo # <<>> /\ stream' = [stream EXCEPT ![s] = new]
    BY ReplayStream
  <1>2. Published' = Published /\ Finished' = Finished
    BY SameTurns DEF Replay, IsFinished
  <1>3. n \in OwedBy(s) /\ \A m \in OwedBy(s) : n <= m
    BY <1>1, OwedFacts, ReplayGood
  <1>4. Views' = [Views EXCEPT ![s] =
               [state |-> new.state, of |-> new.of, from |-> new.from,
                got |-> new.got, lost |-> new.dropped]]
    BY <1>1, OneReader
  <1>5. me \in StreamType
    BY DEF TypeInv
  <1> HIDE DEF more
  <1>6. [state |-> new.state, of |-> new.of, from |-> new.from,
         got |-> new.got, lost |-> new.dropped] = [View(s) EXCEPT !.got = more]
    <2>1. /\ new.state = me.state /\ new.of = me.of /\ new.from = me.from
          /\ new.got = more /\ new.dropped = me.dropped
      BY <1>5 DEF StreamType
    <2> HIDE DEF new
    <2> QED
      BY <2>1 DEF View
  <1>7. Views' = [Views EXCEPT ![s] =
               [Views[s] EXCEPT !.got = Append(Views[s].got, n)]]
    BY <1>1, <1>4, <1>6, OwedFacts DEF more
  <1>8. Contract!Deliver(s)
    BY <1>1, <1>2, <1>3, <1>7, OwedFacts, Delivers
  <1> QED
    BY <1>8 DEF Contract!Next

LEMMA ClosedView ==
    ASSUME TypeInv, NEW s \in Streams, NEW state,
           stream' = [stream EXCEPT ![s] = Closed(s, state)]
    PROVE  Views' = [Views EXCEPT ![s] = [Views[s] EXCEPT !.state = state]]
  <1> DEFINE new == Closed(s, state)
  <1>1. stream[s] \in StreamType /\ Views[s] = View(s)
    BY Facts DEF TypeInv
  <1>2. [state |-> new.state, of |-> new.of, from |-> new.from,
         got |-> new.got, lost |-> new.dropped] = [View(s) EXCEPT !.state = state]
    <2>1. /\ new.state = state /\ new.of = stream[s].of /\ new.from = stream[s].from
          /\ new.got = stream[s].got /\ new.dropped = stream[s].dropped
      BY <1>1 DEF StreamType, Closed
    <2> HIDE DEF new
    <2> QED
      BY <2>1 DEF View
  <1>3. Views' = [Views EXCEPT ![s] =
               [state |-> new.state, of |-> new.of, from |-> new.from,
                got |-> new.got, lost |-> new.dropped]]
    BY OneReader
  <1> QED
    BY <1>1, <1>2, <1>3

LEMMA FollowStep ==
    ASSUME TypeInv, TurnsInv, StreamsInv, NEW s \in Streams, Follow(s)
    PROVE  [Contract!Next]_(Contract!vars)
  <1> DEFINE me    == stream[s]
             entry == Head(me.queue)
             rest  == Tail(me.queue)
             more  == Append(me.got, entry)
  <1>1. /\ me.state = "in" /\ me.todo = <<>> /\ me.queue # <<>> /\ entry \in Nat
        /\ \/ entry = 0 /\ stream' = [stream EXCEPT ![s] = Closed(s, "over")]
           \/ /\ entry # 0 /\ entry <= Seen(s)
              /\ stream' = [stream EXCEPT ![s] = [me EXCEPT !.queue = rest]]
           \/ /\ Seen(s) < entry /\ IsLast(s, entry)
              /\ stream' = [stream EXCEPT ![s] = [Closed(s, "over") EXCEPT !.got = more]]
           \/ /\ Seen(s) < entry
              /\ stream' = [stream EXCEPT ![s] = [me EXCEPT !.queue = rest, !.got = more]]
    BY FollowStream
  <1>2. me \in StreamType /\ turn' = turn
    BY DEF TypeInv, Follow
  <1>3. Published' = Published /\ Finished' = Finished
    BY <1>2, SameTurns DEF IsFinished
  <1>4. /\ me.of \in Turns
        /\ Good(me.from, <<>>, me.queue, me.got, me.dropped, turn[me.of].seq,
                turn[me.of].pc)
        /\ OwedBy(s) = OwedTo(me.from, me.got, me.dropped, turn[me.of].seq)
        /\ Views[s].state = "in" /\ Views[s].of = me.of /\ Views[s].got = me.got
        /\ Views[s] = View(s)
    BY <1>1, OwedFacts
  <1>5. Seen(s) = SeenOf(me.from, me.got)
    BY DEF Seen, SeenOf
  <1>6. Seen(s) \in Nat
    BY <1>2, <1>5, SeenType DEF StreamType
  <1>11. ASSUME Seen(s) < entry
         PROVE  entry \in OwedBy(s) /\ \A m \in OwedBy(s) : entry <= m
    <2> DEFINE owed == OwedTo(me.from, me.got, me.dropped, turn[me.of].seq)
    <2>1. SeenOf(me.from, me.got) < Head(me.queue) /\ me.queue # <<>>
      BY <1>1, <1>5, <1>11
    <2>2. Good(me.from, <<>>, me.queue, me.got, me.dropped, turn[me.of].seq,
               turn[me.of].pc)
      BY <1>4
    <2>3. OwedBy(s) = owed
      BY <1>4
    <2> HIDE DEF me
    <2>4. entry \in owed /\ \A m \in owed : entry <= m
      BY <2>1, <2>2, DeliverGood
    <2> HIDE DEF owed, entry
    <2> QED
      BY <2>3, <2>4
  <1>7. CASE entry = 0 /\ stream' = [stream EXCEPT ![s] = Closed(s, "over")]
    <2>1. Views' = [Views EXCEPT ![s] = [Views[s] EXCEPT !.state = "over"]]
      BY <1>7, ClosedView
    <2>2. OwedBy(s) = {}
      BY <1>1, <1>4, <1>7, NothingOwed
    <2>3. turn[me.of].pc \in Done
      <3>1. me.queue \in Seq(Nat)
        BY <1>2 DEF StreamType
      <3>2. 1 \in 1..Len(me.queue) /\ me.queue[1] = 0
        BY <1>1, <1>7, <3>1, TailFacts
      <3> QED
        BY <1>4, <3>2 DEF Good, QueueNew
    <2>4. Finished[Views[s].of]
      BY <1>4, <2>3, Facts DEF IsFinished, Done
    <2>5. Contract!Ends(s)
      BY <1>3, <1>4, <2>1, <2>2, <2>4, EndsEmpty
    <2> QED
      BY <2>5 DEF Contract!Next
  <1>8. CASE stream' = [stream EXCEPT ![s] = [me EXCEPT !.queue = rest]]
    <2>1. \A r \in Streams : View(r)' = View(r)
      BY <1>2, <1>8 DEF View, TypeInv, StreamType
    <2>2. Views' = Views
      BY <2>1 DEF Views
    <2> QED
      BY <1>3, <2>2, Stutters
  <1>9. CASE /\ Seen(s) < entry /\ IsLast(s, entry)
             /\ stream' = [stream EXCEPT ![s] = [Closed(s, "over") EXCEPT !.got = more]]
    <2> DEFINE new == [Closed(s, "over") EXCEPT !.got = more]
    <2>1. Views' = [Views EXCEPT ![s] =
               [state |-> new.state, of |-> new.of, from |-> new.from,
                got |-> new.got, lost |-> new.dropped]]
      BY <1>9, OneReader
    <2>2. [state |-> new.state, of |-> new.of, from |-> new.from,
           got |-> new.got, lost |-> new.dropped]
             = [View(s) EXCEPT !.state = "over", !.got = more]
      <3> HIDE DEF more
      <3>1. /\ new.state = "over" /\ new.of = me.of /\ new.from = me.from
            /\ new.got = more /\ new.dropped = me.dropped
        BY <1>2 DEF StreamType, Closed
      <3> HIDE DEF new
      <3>2. View(s) = Record(me.state, me.of, me.from, me.got, me.dropped)
        BY DEF View, Record
      <3>3. Ended(View(s), more) = Record("over", me.of, me.from, more, me.dropped)
        BY <3>2, EndedRecord
      <3>4. [state |-> new.state, of |-> new.of, from |-> new.from,
             got |-> new.got, lost |-> new.dropped] = Ended(View(s), more)
        BY <3>1, <3>3 DEF Record
      <3> QED
        BY <3>4, Zenon DEF Ended
    <2>3. entry = turn[me.of].last /\ turn[me.of].last # 0
      BY <1>1, <1>6, <1>9 DEF IsLast
    <2>4. entry = turn[me.of].seq
      BY <1>4, <2>3 DEF TurnsInv, LastIsLast
    <2>5. OwedBy(s) = {entry}
      <3>1. entry \in OwedBy(s) /\ \A m \in OwedBy(s) : entry <= m
        BY <1>9, <1>11
      <3>2. \A m \in OwedBy(s) : m \in Nat /\ m <= turn[me.of].seq
        BY <1>4, OwedIsHeld
      <3>3. \A m \in OwedBy(s) : m = entry
        BY <1>1, <2>4, <3>1, <3>2
      <3> QED
        BY <3>1, <3>3
    <2>6. Finished[Views[s].of]
      BY <1>4, <2>3, Facts DEF IsFinished
    <2>7. Views' = [Views EXCEPT ![s] =
               [Views[s] EXCEPT !.state = "over", !.got = Append(Views[s].got, entry)]]
      BY <1>4, <2>1, <2>2
    <2>8. Contract!Ends(s)
      BY <1>3, <1>4, <2>5, <2>6, <2>7, EndsLast
    <2> QED
      BY <2>8 DEF Contract!Next
  <1>10. CASE /\ Seen(s) < entry
              /\ stream' = [stream EXCEPT ![s] = [me EXCEPT !.queue = rest, !.got = more]]
    <2> DEFINE new == [me EXCEPT !.queue = rest, !.got = more]
    <2>1. Views' = [Views EXCEPT ![s] =
               [state |-> new.state, of |-> new.of, from |-> new.from,
                got |-> new.got, lost |-> new.dropped]]
      BY <1>10, OneReader
    <2>2. [state |-> new.state, of |-> new.of, from |-> new.from,
           got |-> new.got, lost |-> new.dropped] = [View(s) EXCEPT !.got = more]
      <3> HIDE DEF more, rest
      <3>1. /\ new.state = me.state /\ new.of = me.of /\ new.from = me.from
            /\ new.got = more /\ new.dropped = me.dropped
        BY <1>2 DEF StreamType
      <3> HIDE DEF new
      <3> QED
        BY <3>1 DEF View
    <2>3. entry \in OwedBy(s) /\ \A m \in OwedBy(s) : entry <= m
      BY <1>10, <1>11
    <2>4. Views' = [Views EXCEPT ![s] =
               [Views[s] EXCEPT !.got = Append(Views[s].got, entry)]]
      BY <1>4, <2>1, <2>2
    <2>5. Contract!Deliver(s)
      BY <1>3, <1>4, <2>3, <2>4, Delivers
    <2> QED
      BY <2>5 DEF Contract!Next
  <1> QED
    BY <1>1, <1>7, <1>8, <1>9, <1>10

LEMMA TimeOutStep ==
    ASSUME TypeInv, StreamsInv, NEW s \in Streams, TimeOut(s)
    PROVE  [Contract!Next]_(Contract!vars)
  <1>1. /\ stream[s].state = "in" /\ stream[s].todo = <<>> /\ stream[s].queue = <<>>
        /\ turn[stream[s].of].pc = "over" /\ turn' = turn
        /\ stream' = [stream EXCEPT ![s] = Closed(s, "over")]
    BY DEF TimeOut, At
  <1>2. Published' = Published /\ Finished' = Finished
    BY <1>1, SameTurns DEF IsFinished
  <1>3. Views' = [Views EXCEPT ![s] = [Views[s] EXCEPT !.state = "over"]]
    BY <1>1, ClosedView
  <1>4. OwedBy(s) = {}
    BY <1>1, OwedFacts, NothingOwed
  <1>5. Finished[Views[s].of]
    BY <1>1, OwedFacts, Facts DEF IsFinished
  <1>6. Contract!Ends(s)
    BY <1>1, <1>2, <1>3, <1>4, <1>5, OwedFacts, EndsEmpty
  <1> QED
    BY <1>6 DEF Contract!Next

LEMMA DisconnectStep ==
    ASSUME TypeInv, StreamsInv, NEW c \in Clients, Disconnect(c)
    PROVE  [Contract!Next]_(Contract!vars)
  <1>1. /\ c \in Streams /\ stream[c].state = "in" /\ turn' = turn
        /\ stream' = [stream EXCEPT ![c] = Closed(c, "left")]
    BY DEF Disconnect, Streams
  <1>2. Published' = Published /\ Finished' = Finished
    BY <1>1, SameTurns DEF IsFinished
  <1>3. Views' = [Views EXCEPT ![c] = [Views[c] EXCEPT !.state = "left"]]
    BY <1>1, ClosedView
  <1>4. Contract!Leave(c)
    BY <1>1, <1>2, <1>3, OwedFacts, Leaves
  <1> QED
    BY <1>1, <1>4 DEF Contract!Next

LEMMA ContractNext ==
    TypeInv /\ TurnsInv /\ StreamsInv /\ [Next]_vars => [Contract!Next]_(Contract!vars)
  <1> SUFFICES ASSUME TypeInv, TurnsInv, StreamsInv, [Next]_vars
               PROVE  [Contract!Next]_(Contract!vars)
    OBVIOUS
  <1>1. ASSUME NEW t \in Turns, NEW pc \in Places, Goto(t, pc), stream' = stream,
               pc \in Done <=> turn[t].pc \in Done
        PROVE  [Contract!Next]_(Contract!vars)
    BY <1>1, GotoTurn, QuietStep
  <1>2. ASSUME NEW t \in Turns, Post(t) PROVE [Contract!Next]_(Contract!vars)
    BY <1>1, <1>2 DEF Post, At, Places, Done
  <1>3. ASSUME NEW t \in Turns, Begin(t) \/ Emit(t) \/ Announce(t)
        PROVE  [Contract!Next]_(Contract!vars)
    <2>1. Contract!Publish(t)
      BY <1>3, PublishStep
      DEF Begin, Emit, Announce, Resumes, At, Open, Running, Places
    <2> QED
      BY <2>1 DEF Contract!Next
  <1>4. ASSUME NEW t \in Turns, WorkEnds(t) \/ Complete(t) \/ Fail(t)
        PROVE  [Contract!Next]_(Contract!vars)
    BY <1>1, <1>4
    DEF WorkEnds, Complete, Fail, Settle, Resumes, At, Running, Places, Done
  <1>5. ASSUME NEW t \in Turns, Save(t) PROVE [Contract!Next]_(Contract!vars)
    BY <1>1, <1>5 DEF Save, At, Places, Done
  <1>6. ASSUME NEW t \in Turns, Cancelled(t) PROVE [Contract!Next]_(Contract!vars)
    <2>1. stream' = stream
      BY <1>6 DEF Cancelled
    <2>2. CASE At(t, "ready") /\ Goto(t, "over")
      <3>1. Views' = Views
        BY <2>1, SameViews
      <3> QED
        BY <2>2, <3>1, GotoTurn, EndStep DEF Places, Done
    <2>3. CASE /\ turn[t].pc \in {"working", "settling", "announcing", "failing",
                                  "lamenting"}
               /\ Goto(t, "closing")
      BY <1>1, <2>1, <2>3 DEF Places, Running, Done
    <2> QED
      BY <1>6, <2>2, <2>3 DEF Cancelled
  <1>7. CASE Stop
    BY <1>7, StopTurn, QuietStep DEF Stop
  <1>8. CASE UNCHANGED vars
    BY <1>8, QuietStep DEF vars
  <1> QED
    BY <1>2, <1>3, <1>4, <1>5, <1>6, <1>7, <1>8, LaunchStep, CloseStep, AttachStep,
       ReplayStep, FollowStep, TimeOutStep, DisconnectStep
    DEF Next, Task, Reads

-----------------------------------------------------------------------------
(***************************************************************************)
(* Numbers and queues stay within their bounds.                            *)
(***************************************************************************)
Numbered(t) ==
    turn[t].seq <= IF turn[t].pc \in {"closing"} \cup Done THEN MaxSeq ELSE MaxSeq - 1

Narrow(w) ==
    /\ w.queue \in Seq(0..MaxSeq) /\ Len(w.queue) <= QueueSize
    /\ w.todo \in Seq(1..MaxSeq) /\ w.got \in Seq(1..MaxSeq)
    /\ w.from \in After \cup {0} /\ w.dropped \subseteq 1..MaxSeq

TurnsNumbered == \A t \in Turns : Numbered(t)
StreamsNarrow == \A s \in Streams : Narrow(stream[s])

LEMMA MaxSeqType == MaxSeq \in Nat /\ MaxSeq - 1 \in Nat /\ MaxSeq = MaxItems + 2
  BY HarnessAssumption DEF MaxSeq

LEMMA NumberedInit == Init => TurnsNumbered
  BY MaxSeqType DEF Init, TurnsNumbered, Numbered

\* The first event is the first, the others leave room for the last.
LEMMA NumberedNext == TypeInv /\ TurnsInv /\ TurnsNumbered /\ [Next]_vars => TurnsNumbered'
  <1> SUFFICES ASSUME TypeInv, TurnsInv, TurnsNumbered, [Next]_vars PROVE TurnsNumbered'
    OBVIOUS
  <1> USE DEF TurnsNumbered, Numbered
  <1>0. /\ \A t \in Turns : turn[t].seq \in Nat /\ turn[t].pc \in Places
        /\ MaxSeq \in Nat /\ MaxItems \in Nat /\ MaxSeq = MaxItems + 2
    BY MaxSeqType, HarnessAssumption DEF TypeInv, TurnType
  <1>1. ASSUME NEW t \in Turns, NEW pc \in Places, Goto(t, pc),
               turn[t].pc \in {"closing"} \cup Done => pc \in {"closing"} \cup Done
        PROVE  TurnsNumbered'
    <2> SUFFICES ASSUME NEW u \in Turns PROVE Numbered(u)'
      OBVIOUS
    <2>1. /\ turn'[u].seq = turn[u].seq
          /\ turn[u].pc \in {"closing"} \cup Done => turn'[u].pc \in {"closing"} \cup Done
      BY <1>1, GotoTurn
    <2>2. Numbered(u)
      OBVIOUS
    <2> QED
      BY <1>0, <2>1, <2>2
  <1>2. ASSUME NEW t \in Turns, NEW pc \in Places, NEW binds \in BOOLEAN,
               NEW isLast \in BOOLEAN, Publish(t, pc, binds, isLast),
               turn[t].seq + 1 <= MaxSeq,
               pc = "closing" \/ turn[t].seq + 1 <= MaxSeq - 1
        PROVE  TurnsNumbered'
    BY <1>0, <1>2, PublishTurn
  <1>3. ASSUME NEW t \in Turns, Post(t) PROVE TurnsNumbered'
    BY <1>1, <1>3 DEF Post, At, Places, Done
  <1>4. ASSUME NEW t \in Turns, Launch(t) PROVE TurnsNumbered'
    BY <1>1, <1>4 DEF Launch, At, Places, Running, Done
  <1>5. ASSUME NEW t \in Turns, Begin(t) PROVE TurnsNumbered'
    <2>1. turn[t].seq = 0
      BY <1>5 DEF Begin, Resumes, At, TurnsInv, Unbegun
    <2>2. turn[t].seq + 1 <= MaxSeq /\ turn[t].seq + 1 <= MaxSeq - 1
      BY <1>0, <2>1
    <2> QED
      BY <1>2, <1>5, <2>2, Zenon DEF Begin, Places, Running
  <1>6. ASSUME NEW t \in Turns, Emit(t) PROVE TurnsNumbered'
    <2>1. turn[t].seq + 1 <= MaxSeq /\ turn[t].seq + 1 <= MaxSeq - 1
      BY <1>0, <1>6 DEF Emit
    <2>2. \E binds \in BOOLEAN : Publish(t, "working", binds, FALSE)
      BY <1>6 DEF Emit
    <2> QED
      BY <1>2, <2>1, <2>2, Zenon DEF Places, Running
  <1>7. ASSUME NEW t \in Turns, WorkEnds(t) PROVE TurnsNumbered'
    BY <1>1, <1>7 DEF WorkEnds, Resumes, At, Places, Running, Done
  <1>8. ASSUME NEW t \in Turns, Complete(t) PROVE TurnsNumbered'
    BY <1>1, <1>8 DEF Complete, Settle, Resumes, At, Places, Running, Done
  <1>9. ASSUME NEW t \in Turns, Fail(t) PROVE TurnsNumbered'
    BY <1>1, <1>9 DEF Fail, Settle, Resumes, At, Places, Running, Done
  <1>10. ASSUME NEW t \in Turns, Announce(t) PROVE TurnsNumbered'
    <2>1. turn[t].seq <= MaxSeq - 1
      BY <1>10 DEF Announce, Resumes, At, Done
    <2>2. turn[t].seq + 1 <= MaxSeq
      BY <1>0, <2>1
    <2> QED
      BY <1>2, <1>10, <2>2, Zenon DEF Announce, Places, Running
  <1>11. ASSUME NEW t \in Turns, Close(t) PROVE TurnsNumbered'
    <2> SUFFICES ASSUME NEW u \in Turns PROVE Numbered(u)'
      OBVIOUS
    <2>1. CASE u = t
      BY <1>0, <1>11, <2>1, CloseTurn DEF Close, At, Done
    <2>2. CASE u # t
      BY <1>11, <2>2, CloseTurn
    <2> QED
      BY <2>1, <2>2
  <1>12. ASSUME NEW t \in Turns, Save(t) PROVE TurnsNumbered'
    BY <1>1, <1>12 DEF Save, Places, Done
  <1>13. ASSUME NEW t \in Turns, Cancelled(t) PROVE TurnsNumbered'
    BY <1>1, <1>13 DEF Cancelled, At, Places, Running, Done
  <1>14. CASE Stop
    BY <1>14, StopTurn
  <1>15. CASE UNCHANGED turn
    BY <1>15
  <1> QED
    BY <1>3, <1>4, <1>5, <1>6, <1>7, <1>8, <1>9, <1>10, <1>11, <1>12, <1>13,
       <1>14, <1>15
    DEF Next, Task, Reads, Attach, Disconnect, Replay, Follow, TimeOut, vars

\* The writes of one stream: what is appended is an event of the run, a queue
\* takes no more than it has room for, and what leaves leaves no gap.
LEMMA NarrowFresh == Narrow(NoStream)
  <1>1. <<>> \in Seq(0..MaxSeq) /\ <<>> \in Seq(1..MaxSeq) /\ Len(<<>>) = 0
    BY EmptySeq
  <1> QED
    BY <1>1, HarnessAssumption DEF Narrow, NoStream

LEMMA NarrowEnqueue ==
    ASSUME NEW w \in StreamType, Narrow(w), NEW entry \in 0..MaxSeq,
           Len(w.queue) < QueueSize
    PROVE  Narrow([w EXCEPT !.queue = Append(w.queue, entry)])
  <1> DEFINE queue == Append(w.queue, entry)
             new   == [w EXCEPT !.queue = queue]
  <1>1. queue \in Seq(0..MaxSeq) /\ Len(queue) = Len(w.queue) + 1
    BY AppendProperties DEF Narrow
  <1>2. Len(w.queue) \in Nat
    BY DEF StreamType
  <1> HIDE DEF queue
  <1>3. /\ new.queue = queue /\ new.todo = w.todo /\ new.got = w.got
        /\ new.from = w.from /\ new.dropped = w.dropped
    BY DEF StreamType
  <1> HIDE DEF new
  <1>4. Len(queue) <= QueueSize
    BY <1>1, <1>2, HarnessAssumption
  <1>5. Narrow(new)
    BY <1>1, <1>3, <1>4 DEF Narrow
  <1> QED
    BY <1>5 DEF new, queue

LEMMA NarrowDrop ==
    ASSUME NEW w \in StreamType, Narrow(w), NEW entry \in 1..MaxSeq
    PROVE  Narrow([w EXCEPT !.dropped = w.dropped \cup {entry}])
  BY DEF StreamType, Narrow

LEMMA NarrowTail ==
    ASSUME NEW S, NEW q \in Seq(S), q # <<>>
    PROVE  Head(q) \in S /\ Tail(q) \in Seq(S) /\ Len(Tail(q)) = Len(q) - 1
  <1>1. Head(q) \in S
    OBVIOUS
  <1>2. Tail(q) \in Seq(S)
    OBVIOUS
  <1>3. Len(Tail(q)) = Len(q) - 1
    OBVIOUS
  <1> QED
    BY <1>1, <1>2, <1>3

LEMMA NarrowStep ==
    ASSUME TypeInv, StreamsNarrow, NEW s \in Streams, NEW new, Narrow(new),
           stream' = [stream EXCEPT ![s] = new]
    PROVE  StreamsNarrow'
  BY DEF TypeInv, StreamsNarrow

LEMMA NarrowBroadcast ==
    ASSUME TypeInv, StreamsNarrow, NEW t \in Turns, NEW entry \in 0..MaxSeq,
           Broadcast(t, entry)
    PROVE  StreamsNarrow'
  <1> SUFFICES ASSUME NEW s \in Streams PROVE Narrow(stream'[s])
    BY DEF StreamsNarrow
  <1>1. stream[s] \in StreamType /\ Narrow(stream[s])
    BY DEF TypeInv, StreamsNarrow
  <1>2. entry \in Nat /\ (entry # Sentinel => entry \in 1..MaxSeq)
    BY MaxSeqType DEF Sentinel
  <1>3. \/ stream'[s] = stream[s]
        \/ HasRoom(s) /\ stream'[s] = [stream[s] EXCEPT
                             !.queue = Append(stream[s].queue, entry)]
        \/ entry # Sentinel /\ stream'[s] = [stream[s] EXCEPT
                                   !.dropped = stream[s].dropped \cup {entry}]
    BY <1>2, BroadcastStreams
  <1>4. CASE stream'[s] = stream[s]
    BY <1>1, <1>4
  <1>5. CASE HasRoom(s) /\ stream'[s] = [stream[s] EXCEPT
                             !.queue = Append(stream[s].queue, entry)]
    <2>1. Len(stream[s].queue) < QueueSize
      BY <1>5 DEF HasRoom
    <2> QED
      BY <1>1, <1>5, <2>1, NarrowEnqueue
  <1>6. CASE entry # Sentinel /\ stream'[s] = [stream[s] EXCEPT
                                   !.dropped = stream[s].dropped \cup {entry}]
    BY <1>1, <1>2, <1>6, NarrowDrop
  <1> QED
    BY <1>3, <1>4, <1>5, <1>6

LEMMA NarrowInit == Init => StreamsNarrow
  BY NarrowFresh DEF Init, StreamsNarrow

LEMMA NarrowLaunch ==
    ASSUME TypeInv, StreamsNarrow, NEW t \in Turns, Launch(t)
    PROVE  StreamsNarrow'
  <1> DEFINE new == [NoStream EXCEPT !.state = "in", !.of = t]
  <1>1. Narrow(new)
    BY NarrowFresh DEF Narrow, NoStream
  <1>2. \A s \in Streams : stream'[s] = stream[s] \/ stream'[s] = new
    BY LaunchStreams
  <1> HIDE DEF new
  <1> QED
    BY <1>1, <1>2 DEF StreamsNarrow

\* The history ends with the run's last event.
LEMMA NarrowAttach ==
    ASSUME TypeInv, TurnsNumbered, StreamsInv, StreamsNarrow, NEW c \in Clients, Attach(c)
    PROVE  StreamsNarrow'
  <1>1. PICK k \in After : stream'[c] =
                 [stream[c] EXCEPT !.state = "in", !.of = registry, !.from = k,
                                   !.todo = History(k, turn[registry].seq)]
    BY AttachStreams
  <1>2. c \in Streams /\ k \in Nat /\ registry \in Turns /\ turn[registry].seq \in Nat
    BY AttachStreams, HarnessAssumption DEF Streams
  <1>3. turn[registry].seq <= MaxSeq
    BY <1>2, MaxSeqType DEF TurnsNumbered, Numbered
  <1> DEFINE len  == IF k < turn[registry].seq THEN turn[registry].seq - k ELSE 0
             todo == History(k, turn[registry].seq)
  <1>4. todo \in Seq(1..MaxSeq)
    <2>1. len \in Nat
      BY <1>2
    <2>2. \A i \in 1..len : k + i \in 1..MaxSeq
      BY <1>2, <1>3, MaxSeqType
    <2>3. todo = [i \in 1..len |-> k + i]
      BY DEF History
    <2> HIDE DEF len, todo
    <2> QED
      BY <2>1, <2>2, <2>3
  <1>5. Narrow(stream[c]) /\ stream[c] \in StreamType
    BY <1>2 DEF TypeInv, StreamsNarrow
  <1> HIDE DEF todo
  <1>6. stream'[c] = [stream[c] EXCEPT !.state = "in", !.of = registry, !.from = k,
                                       !.todo = todo]
    BY <1>1 DEF todo
  <1>7. /\ stream'[c].queue = stream[c].queue /\ stream'[c].todo = todo
        /\ stream'[c].got = stream[c].got /\ stream'[c].from = k
        /\ stream'[c].dropped = stream[c].dropped
    BY <1>5, <1>6 DEF StreamType
  <1>8. Narrow(stream'[c])
    BY <1>4, <1>5, <1>7, ZenonT(30) DEF Narrow
  <1>9. \A s \in Streams : s # c => stream'[s] = stream[s]
    BY AttachStreams
  <1> QED
    BY <1>8, <1>9 DEF StreamsNarrow

LEMMA NarrowClosed ==
    ASSUME NEW s \in Streams, stream[s] \in StreamType, Narrow(stream[s]), NEW state
    PROVE  Narrow(Closed(s, state))
  <1>1. <<>> \in Seq(0..MaxSeq) /\ <<>> \in Seq(1..MaxSeq) /\ Len(<<>>) = 0
    BY EmptySeq
  <1>2. /\ Closed(s, state).queue = <<>> /\ Closed(s, state).todo = <<>>
        /\ Closed(s, state).got = stream[s].got
        /\ Closed(s, state).from = stream[s].from
        /\ Closed(s, state).dropped = stream[s].dropped
    BY DEF StreamType, Closed
  <1>3. 0 <= QueueSize
    BY HarnessAssumption
  <1> QED
    BY <1>1, <1>2, <1>3 DEF Narrow

LEMMA NarrowReplay ==
    ASSUME TypeInv, StreamsNarrow, NEW s \in Streams, Replay(s)
    PROVE  StreamsNarrow'
  <1> DEFINE todo == Tail(stream[s].todo)
             got  == Append(stream[s].got, Head(stream[s].todo))
             new  == [stream[s] EXCEPT !.got = got, !.todo = todo]
  <1>1. Narrow(stream[s]) /\ stream[s] \in StreamType
    BY DEF TypeInv, StreamsNarrow
  <1>2. stream[s].todo # <<>> /\ stream' = [stream EXCEPT ![s] = new]
    BY ReplayStream
  <1>3. Head(stream[s].todo) \in 1..MaxSeq /\ todo \in Seq(1..MaxSeq)
    BY <1>1, <1>2, NarrowTail DEF Narrow
  <1>4. got \in Seq(1..MaxSeq)
    BY <1>1, <1>3, AppendProperties DEF Narrow
  <1> HIDE DEF todo, got
  <1>5. /\ new.queue = stream[s].queue /\ new.todo = todo /\ new.got = got
        /\ new.from = stream[s].from /\ new.dropped = stream[s].dropped
    BY <1>1 DEF StreamType
  <1>6. Narrow(new)
    BY <1>1, <1>3, <1>4, <1>5, ZenonT(30) DEF Narrow
  <1> HIDE DEF new
  <1> QED
    BY <1>2, <1>6, NarrowStep

\* What follows was in the queue, and is no sentinel if it is yielded.
LEMMA NarrowFollow ==
    ASSUME TypeInv, StreamsNarrow, NEW s \in Streams, Follow(s)
    PROVE  StreamsNarrow'
  <1> DEFINE entry == Head(stream[s].queue)
             rest  == Tail(stream[s].queue)
             more  == Append(stream[s].got, entry)
             over  == Closed(s, "over")
             told  == [over EXCEPT !.got = more]
             skip  == [stream[s] EXCEPT !.queue = rest]
             on    == [stream[s] EXCEPT !.queue = rest, !.got = more]
  <1>1. Narrow(stream[s]) /\ stream[s] \in StreamType
    BY DEF TypeInv, StreamsNarrow
  <1>2. stream[s].queue # <<>>
    BY FollowStream
  <1>3. /\ entry \in 0..MaxSeq /\ rest \in Seq(0..MaxSeq)
        /\ Len(rest) = Len(stream[s].queue) - 1
    BY <1>1, <1>2, NarrowTail DEF Narrow
  <1>4. Len(rest) <= QueueSize
    <2>1. Len(stream[s].queue) \in Nat /\ Len(stream[s].queue) <= QueueSize
      BY <1>1 DEF Narrow, StreamType
    <2> QED
      BY <1>3, <2>1, HarnessAssumption
  <1>5. Seen(s) < entry => more \in Seq(1..MaxSeq)
    <2> SUFFICES ASSUME Seen(s) < entry PROVE more \in Seq(1..MaxSeq)
      OBVIOUS
    <2>1. Seen(s) \in Nat
      BY <1>1, SeenType DEF Seen, SeenOf, StreamType
    <2>2. entry \in 1..MaxSeq
      BY <1>3, <2>1, MaxSeqType
    <2> QED
      BY <1>1, <2>2, AppendProperties DEF Narrow
  <1>6. Narrow(over)
    BY <1>1, NarrowClosed
  <1>7. \/ stream' = [stream EXCEPT ![s] = over]
        \/ stream' = [stream EXCEPT ![s] = skip]
        \/ Seen(s) < entry /\ stream' = [stream EXCEPT ![s] = told]
        \/ Seen(s) < entry /\ stream' = [stream EXCEPT ![s] = on]
    BY FollowStream, ZenonT(30)
  <1> HIDE DEF entry, rest, more
  <1>8. /\ skip.queue = rest /\ skip.todo = stream[s].todo /\ skip.got = stream[s].got
        /\ skip.from = stream[s].from /\ skip.dropped = stream[s].dropped
    BY <1>1 DEF StreamType
  <1>9. /\ on.queue = rest /\ on.todo = stream[s].todo /\ on.got = more
        /\ on.from = stream[s].from /\ on.dropped = stream[s].dropped
    BY <1>1 DEF StreamType
  <1>10. /\ told.queue = over.queue /\ told.todo = over.todo /\ told.got = more
         /\ told.from = over.from /\ told.dropped = over.dropped
    BY <1>1 DEF StreamType, Closed
  <1> HIDE DEF over, skip, on, told
  <1>11. Narrow(skip)
    BY <1>1, <1>3, <1>4, <1>8, ZenonT(30) DEF Narrow
  <1>12. more \in Seq(1..MaxSeq) => Narrow(on)
    BY <1>1, <1>3, <1>4, <1>9, ZenonT(30) DEF Narrow
  <1>13. more \in Seq(1..MaxSeq) => Narrow(told)
    BY <1>6, <1>10, ZenonT(30) DEF Narrow
  <1> QED
    BY <1>5, <1>6, <1>7, <1>11, <1>12, <1>13, NarrowStep

LEMMA NarrowNext ==
    TypeInv /\ TurnsInv /\ TurnsNumbered /\ StreamsInv /\ StreamsNarrow /\ [Next]_vars
        => StreamsNarrow'
  <1> SUFFICES ASSUME TypeInv, TurnsInv, TurnsNumbered, StreamsInv, StreamsNarrow,
                      [Next]_vars
               PROVE  StreamsNarrow'
    OBVIOUS
  <1>0. TurnsNumbered'
    BY NumberedNext
  <1>1. ASSUME stream' = stream PROVE StreamsNarrow'
    BY <1>1 DEF StreamsNarrow
  <1>2. ASSUME NEW t \in Turns, NEW pc \in Places, NEW binds \in BOOLEAN,
               NEW isLast \in BOOLEAN, Publish(t, pc, binds, isLast)
        PROVE  StreamsNarrow'
    <2>1. turn'[t].seq = turn[t].seq + 1 /\ turn[t].seq \in Nat
      BY <1>2, PublishTurn DEF TypeInv, TurnType
    <2>2. turn'[t].seq <= MaxSeq
      <3>1. Numbered(t)'
        BY <1>0 DEF TurnsNumbered
      <3> QED
        BY <2>1, <3>1, MaxSeqType DEF Numbered
    <2>3. turn[t].seq + 1 \in 0..MaxSeq
      BY <2>1, <2>2, MaxSeqType
    <2> QED
      BY <1>2, <2>3, NarrowBroadcast DEF Publish
  <1>3. ASSUME NEW t \in Turns, Launch(t) PROVE StreamsNarrow'
    BY <1>3, NarrowLaunch
  <1>4. ASSUME NEW t \in Turns, Begin(t) PROVE StreamsNarrow'
    BY <1>2, <1>4, Zenon DEF Begin, Places, Running
  <1>5. ASSUME NEW t \in Turns, Emit(t) PROVE StreamsNarrow'
    <2>1. \E binds \in BOOLEAN : Publish(t, "working", binds, FALSE)
      BY <1>5 DEF Emit
    <2> QED
      BY <1>2, <2>1, Zenon DEF Places, Running
  <1>6. ASSUME NEW t \in Turns, Announce(t) PROVE StreamsNarrow'
    BY <1>2, <1>6, Zenon DEF Announce, Places, Running
  <1>7. ASSUME NEW t \in Turns, Close(t) PROVE StreamsNarrow'
    BY <1>7, NarrowBroadcast, MaxSeqType DEF Close, Sentinel
  <1>8. ASSUME NEW c \in Clients, Attach(c) PROVE StreamsNarrow'
    BY <1>8, NarrowAttach
  <1>9. ASSUME NEW s \in Streams, NEW state, stream' = [stream EXCEPT ![s] = Closed(s, state)]
        PROVE  StreamsNarrow'
    <2>1. Narrow(Closed(s, state))
      BY NarrowClosed DEF TypeInv, StreamsNarrow
    <2> QED
      BY <1>9, <2>1, NarrowStep
  <1>10. ASSUME NEW c \in Clients, Disconnect(c) PROVE StreamsNarrow'
    BY <1>9, <1>10 DEF Disconnect, Streams
  <1>11. ASSUME NEW s \in Streams, Replay(s) PROVE StreamsNarrow'
    BY <1>11, NarrowReplay
  <1>12. ASSUME NEW s \in Streams, Follow(s) PROVE StreamsNarrow'
    BY <1>12, NarrowFollow
  <1>13. ASSUME NEW s \in Streams, TimeOut(s) PROVE StreamsNarrow'
    BY <1>9, <1>13 DEF TimeOut
  <1> QED
    BY <1>1, <1>3, <1>4, <1>5, <1>6, <1>7, <1>8, <1>10, <1>11, <1>12, <1>13
    DEF Next, Task, Reads, Post, WorkEnds, Complete, Fail, Settle, Save, Cancelled,
        Stop, vars

LEMMA TypesFollow ==
    TypeInv /\ TurnsInv /\ TurnsNumbered /\ StreamsNarrow => TypeOK
  <1> SUFFICES ASSUME TypeInv, TurnsInv, TurnsNumbered, StreamsNarrow PROVE TypeOK
    OBVIOUS
  <1>1. ASSUME NEW t \in Turns
        PROVE  turn[t] \in [pc : {"idle", "posting", "over"} \cup Running,
                            bound : BOOLEAN, cancelled : BOOLEAN,
                            seq : 0..MaxSeq, last : 0..MaxSeq]
    <2>1. turn[t] \in TurnType
      BY DEF TypeInv
    <2>2. turn[t].seq \in Nat /\ turn[t].seq <= MaxSeq
      BY <2>1, MaxSeqType DEF TurnType, TurnsNumbered, Numbered
    <2>3. turn[t].last = 0 \/ turn[t].last = turn[t].seq
      BY DEF TurnsInv, LastIsLast
    <2>4. turn[t].seq \in 0..MaxSeq /\ turn[t].last \in 0..MaxSeq
      BY <2>2, <2>3, MaxSeqType
    <2> QED
      BY <2>1, <2>4, Zenon DEF TurnType, Places
  <1>2. turn \in [Turns -> [pc : {"idle", "posting", "over"} \cup Running,
                            bound : BOOLEAN, cancelled : BOOLEAN,
                            seq : 0..MaxSeq, last : 0..MaxSeq]]
    BY <1>1, Zenon DEF TypeInv
  <1>3. ASSUME NEW s \in Streams
        PROVE  /\ stream[s].state \in {"out", "in", "over", "left"}
               /\ stream[s].of \in Turns \cup {NoTurn}
               /\ Narrow(stream[s])
    BY DEF TypeInv, StreamType, StreamsNarrow
  <1> QED
    BY <1>2, <1>3, Zenon DEF TypeInv, TypeOK, Narrow

-----------------------------------------------------------------------------
Inv ==
    /\ TypeInv /\ TurnsInv /\ StreamsInv /\ RegistryInv
    /\ TurnsNumbered /\ StreamsNarrow

LEMMA Invariance == Spec => []Inv
  <1>1. Init => Inv
    BY TypeInit, TurnsInit, StreamsInit, RegistryInit, NumberedInit, NarrowInit
    DEF Inv
  <1>2. Inv /\ [Next]_vars => Inv'
    BY TypeNext, TurnsNext, StreamsNext, RegistryNext, NumberedNext, NarrowNext
    DEF Inv
  <1> QED
    BY <1>1, <1>2, PTL DEF Spec

\* Whatever the number of turns and of clients, of events and of places in a
\* queue: a reader gets what it asked for once, in order and to the end, unless it
\* is a whole queue behind.
THEOREM StreamsKeepTheContract == Spec => ImplementsContract
  <1>1. Inv /\ [Next]_vars => [Contract!Next]_(Contract!vars)
    BY ContractNext DEF Inv
  <1> QED
    BY ContractInit, Invariance, <1>1, PTL DEF Spec, ImplementsContract, Contract!Spec

\* A client that was shown the end of a turn finds its row settled.
THEOREM SettledFirst == Spec => []ToldIsStored
  <1>1. Inv => ToldIsStored
    BY ToldLemma DEF Inv
  <1> QED
    BY Invariance, <1>1, PTL

\* While turns run one at a time, the registry knows the one that runs.
THEOREM RegistryKnows == Spec => []Reachable
  <1>1. Inv => Reachable
    BY DEF Inv, RegistryInv, Registered, Reachable
  <1> QED
    BY Invariance, <1>1, PTL

\* The variables keep their types: no number and no queue passes its bound.
THEOREM HarnessTypes == Spec => []TypeOK
  <1>1. Inv => TypeOK
    BY TypesFollow DEF Inv
  <1> QED
    BY Invariance, <1>1, PTL

-----------------------------------------------------------------------------
(***************************************************************************)
(* A stream comes to its end.  The liveness StreamsEnd needs fairness,     *)
(* which stays with TLC; what the code must do for it is safety: the       *)
(* stream or its task can always step (EndsGo), and every such step brings *)
(* the end nearer (Nearer).                                                *)
(***************************************************************************)
\* The guards of Task(t), and of Reads(s) for a stream that is open.
TaskGoes(t)   == turn[t].pc \in Running
StreamGoes(s) == stream[s].todo # <<>> \/ stream[s].queue # <<>> \/ At(stream[s].of, "over")

EndsGo == \A s \in Streams : stream[s].state = "in" =>
              StreamGoes(s) \/ TaskGoes(stream[s].of)

Launched(t) == turn[t].pc \in Running \cup {"over"}

\* What is registered and what is followed has been launched.
FollowedInv ==
    /\ registry # NoTurn => Launched(registry)
    /\ \A s \in Streams : stream[s].state = "in" => Launched(stream[s].of)

\* The steps a task has left at most, that has published n events.
StepsLeft(pc, n) ==
    IF pc = "over" THEN 0
    ELSE IF pc = "saving" THEN 1
    ELSE IF pc = "closing" THEN 2
    ELSE IF pc \in {"announcing", "lamenting"} THEN 3
    ELSE IF pc = "failing" THEN 4
    ELSE IF pc = "settling" THEN 5
    ELSE IF pc = "working" THEN 5 + (MaxSeq - n)
    ELSE 5 + MaxSeq

TaskLeft(t) == StepsLeft(turn[t].pc, turn[t].seq)

\* How far a stream is from its end: what it has to replay, what is in its queue,
\* and what its task may still do, which adds an entry with a step at most.
EndDistance(s) ==
    Len(stream[s].todo) + Len(stream[s].queue) + 2 * TaskLeft(stream[s].of)

Nearer ==
    \A s \in Streams : stream[s].state = "in" =>
        /\ stream'[s].state # "in" \/ EndDistance(s)' <= EndDistance(s)
        /\ Reads(s) \/ Task(stream[s].of) =>
               stream'[s].state # "in" \/ EndDistance(s)' < EndDistance(s)

LEMMA FollowedInit == Init => FollowedInv
  BY DEF Init, FollowedInv, NoStream

\* A task that was launched stays so, whoever steps.
LEMMA LaunchedStays ==
    ASSUME TypeInv, [Next]_vars, NEW t \in Turns, Launched(t)
    PROVE  Launched(t)'
  <1>1. ASSUME NEW u \in Turns, NEW pc \in Running \cup {"over"}, Goto(u, pc)
        PROVE  Launched(t)'
    BY <1>1, GotoTurn DEF Launched, Places
  <1>2. ASSUME NEW u \in Turns, NEW pc \in Running, NEW binds \in BOOLEAN,
               NEW isLast \in BOOLEAN, Publish(u, pc, binds, isLast)
        PROVE  Launched(t)'
    BY <1>2, PublishTurn DEF Launched, Places
  <1>3. ASSUME NEW u \in Turns, Post(u) PROVE Launched(t)'
    <2>1. u # t
      BY <1>3 DEF Post, At, Launched, Running
    <2> QED
      BY <1>3, <2>1, GotoTurn DEF Post, Launched, Places
  <1>4. ASSUME NEW u \in Turns, Launch(u) PROVE Launched(t)'
    BY <1>1, <1>4 DEF Launch, Running
  <1>5. ASSUME NEW u \in Turns, Begin(u) \/ Announce(u) PROVE Launched(t)'
    BY <1>2, <1>5, Zenon DEF Begin, Announce, Running
  <1>6. ASSUME NEW u \in Turns, Emit(u) PROVE Launched(t)'
    <2>1. \E binds \in BOOLEAN : Publish(u, "working", binds, FALSE)
      BY <1>6 DEF Emit
    <2> QED
      BY <1>2, <2>1, Zenon DEF Running
  <1>7. ASSUME NEW u \in Turns,
               WorkEnds(u) \/ Complete(u) \/ Fail(u) \/ Save(u) \/ Cancelled(u)
        PROVE  Launched(t)'
    BY <1>1, <1>7 DEF WorkEnds, Complete, Fail, Settle, Save, Cancelled, Running
  <1>8. ASSUME NEW u \in Turns, Close(u) PROVE Launched(t)'
    BY <1>8, CloseTurn DEF Launched, Running
  <1>9. CASE Stop
    BY <1>9, StopTurn DEF Launched
  <1>10. CASE turn' = turn
    BY <1>10 DEF Launched
  <1> QED
    BY <1>3, <1>4, <1>5, <1>6, <1>7, <1>8, <1>9, <1>10
    DEF Next, Task, Reads, Attach, Disconnect, Replay, Follow, TimeOut, vars

\* What a broadcast leaves of each stream.
LEMMA BroadcastAdds ==
    ASSUME TypeInv, NEW t \in Turns, NEW entry \in Nat, Broadcast(t, entry),
           NEW s \in Streams
    PROVE  /\ stream'[s].state = stream[s].state /\ stream'[s].of = stream[s].of
           /\ stream'[s].todo = stream[s].todo
           /\ Len(stream'[s].queue) \in Nat
           /\ Len(stream'[s].queue) <= Len(stream[s].queue) + 1
           /\ stream[s].of # t => stream'[s] = stream[s]
  <1>1. stream[s] \in StreamType
    BY DEF TypeInv
  <1>2. stream[s].queue \in Seq(Nat) /\ Len(stream[s].queue) \in Nat
    BY <1>1 DEF StreamType
  <1>3. \/ stream'[s] = stream[s]
        \/ /\ stream[s].of = t
           /\ stream'[s] = [stream[s] EXCEPT !.queue = Append(stream[s].queue, entry)]
        \/ /\ stream[s].of = t
           /\ stream'[s] = [stream[s] EXCEPT !.dropped = stream[s].dropped \cup {entry}]
    BY BroadcastStreams DEF Subscribed
  <1>4. CASE stream'[s] = stream[s]
    BY <1>2, <1>4
  <1>5. CASE /\ stream[s].of = t
             /\ stream'[s] = [stream[s] EXCEPT !.queue = Append(stream[s].queue, entry)]
    <2>1. /\ stream'[s].state = stream[s].state /\ stream'[s].of = stream[s].of
          /\ stream'[s].todo = stream[s].todo
          /\ stream'[s].queue = Append(stream[s].queue, entry)
      BY <1>1, <1>5 DEF StreamType
    <2>2. Len(Append(stream[s].queue, entry)) = Len(stream[s].queue) + 1
      BY <1>2, AppendProperties
    <2> QED
      BY <1>2, <1>5, <2>1, <2>2
  <1>6. CASE /\ stream[s].of = t
             /\ stream'[s] = [stream[s] EXCEPT !.dropped = stream[s].dropped \cup {entry}]
    <2>1. /\ stream'[s].state = stream[s].state /\ stream'[s].of = stream[s].of
          /\ stream'[s].todo = stream[s].todo
          /\ stream'[s].queue = stream[s].queue
      BY <1>1, <1>6 DEF StreamType
    <2> QED
      BY <1>2, <1>6, <2>1
  <1> QED
    BY <1>3, <1>4, <1>5, <1>6

LEMMA StepsLeftIs ==
    ASSUME NEW n \in 0..MaxSeq
    PROVE  /\ StepsLeft("over", n) = 0 /\ StepsLeft("saving", n) = 1
           /\ StepsLeft("closing", n) = 2 /\ StepsLeft("announcing", n) = 3
           /\ StepsLeft("lamenting", n) = 3 /\ StepsLeft("failing", n) = 4
           /\ StepsLeft("settling", n) = 5
           /\ StepsLeft("working", n) = 5 + (MaxSeq - n)
           /\ StepsLeft("ready", n) = 5 + MaxSeq
           /\ \A pc \in Running \cup {"over"} : StepsLeft(pc, n) \in Nat
  BY MaxSeqType DEF StepsLeft

LEMMA SeqBound ==
    ASSUME TypeInv, TurnsNumbered, NEW t \in Turns
    PROVE  /\ turn[t].seq \in 0..MaxSeq
           /\ turn[t].pc = "working" => turn[t].seq <= MaxSeq - 1
  BY MaxSeqType DEF TypeInv, TurnType, TurnsNumbered, Numbered, Done

LEMMA TaskLeftType ==
    ASSUME TypeInv, TurnsNumbered, NEW t \in Turns, Launched(t)
    PROVE  TaskLeft(t) \in Nat
  BY SeqBound, StepsLeftIs DEF TaskLeft, Launched

\* A step of a task uses up one of those it had left.
LEMMA TaskShrinks ==
    ASSUME TypeInv, TurnsInv, TurnsNumbered, NEW t \in Turns, Task(t)
    PROVE  TaskLeft(t)' < TaskLeft(t)
  <1> DEFINE n == turn[t].seq
  <1>1. /\ n \in 0..MaxSeq /\ MaxSeq \in Nat
        /\ At(t, "working") => n <= MaxSeq - 1
    BY SeqBound, MaxSeqType DEF At
  <1>2. TaskLeft(t)' = StepsLeft(turn'[t].pc, turn'[t].seq)
    BY DEF TaskLeft
  <1>3. \A pc : At(t, pc) => TaskLeft(t) = StepsLeft(pc, n)
    BY DEF TaskLeft, At
  <1>4. ASSUME NEW pc \in Places, Goto(t, pc)
        PROVE  TaskLeft(t)' = StepsLeft(pc, n)
    BY <1>2, <1>4, GotoTurn
  <1>5. ASSUME NEW pc \in Places, NEW binds \in BOOLEAN, NEW isLast \in BOOLEAN,
               Publish(t, pc, binds, isLast)
        PROVE  TaskLeft(t)' = StepsLeft(pc, n + 1)
    BY <1>2, <1>5, PublishTurn
  <1>6. At(t, "working") => 6 <= TaskLeft(t)
    <2>1. StepsLeft("working", n) = 5 + (MaxSeq - n)
      BY <1>1, StepsLeftIs
    <2> QED
      BY <1>1, <1>3, <2>1
  <1>7. CASE Begin(t)
    <2>1. n = 0 /\ At(t, "ready")
      BY <1>7 DEF Begin, Resumes, At, TurnsInv, Unbegun
    <2>2. TaskLeft(t) = 5 + MaxSeq
      BY <1>1, <1>3, <2>1, StepsLeftIs
    <2>3. TaskLeft(t)' = StepsLeft("working", n + 1)
      BY <1>5, <1>7, Zenon DEF Begin, Places, Running
    <2>4. 1 \in 0..MaxSeq
      BY MaxSeqType
    <2>5. StepsLeft("working", 1) = 5 + (MaxSeq - 1)
      BY <2>4, StepsLeftIs
    <2> QED
      BY <1>1, <2>1, <2>2, <2>3, <2>5
  <1>8. CASE Emit(t)
    <2>1. PICK binds \in BOOLEAN : Publish(t, "working", binds, FALSE)
      BY <1>8 DEF Emit
    <2>2. At(t, "working") /\ n <= MaxItems
      BY <1>8 DEF Emit, Resumes
    <2>3. TaskLeft(t)' = StepsLeft("working", n + 1)
      BY <1>5, <2>1, Zenon DEF Places, Running
    <2>4. n + 1 \in 0..MaxSeq
      BY <1>1, <2>2, MaxSeqType
    <2>5. StepsLeft("working", n + 1) = 5 + (MaxSeq - (n + 1))
      BY <2>4, StepsLeftIs
    <2>6. TaskLeft(t) = 5 + (MaxSeq - n)
      BY <1>1, <1>3, <2>2, StepsLeftIs
    <2> QED
      BY <1>1, <2>3, <2>5, <2>6
  <1>9. CASE WorkEnds(t)
    <2>1. At(t, "working")
      BY <1>9 DEF WorkEnds, Resumes
    <2>2. TaskLeft(t)' = StepsLeft("settling", n) \/ TaskLeft(t)' = StepsLeft("failing", n)
      BY <1>4, <1>9 DEF WorkEnds, Places, Running
    <2>3. TaskLeft(t)' \in {4, 5}
      BY <1>1, <2>2, StepsLeftIs
    <2>4. TaskLeft(t) = 5 + (MaxSeq - n)
      BY <1>1, <1>3, <2>1, StepsLeftIs
    <2> QED
      BY <1>1, <2>1, <2>3, <2>4
  <1>10. CASE Complete(t)
    <2>1. At(t, "settling")
      BY <1>10 DEF Complete, Settle, Resumes
    <2>2. TaskLeft(t)' = StepsLeft("announcing", n) \/ TaskLeft(t)' = StepsLeft("failing", n)
      BY <1>4, <1>10 DEF Complete, Settle, Places, Running
    <2>3. TaskLeft(t)' \in {3, 4} /\ TaskLeft(t) = 5
      BY <1>1, <1>3, <2>1, <2>2, StepsLeftIs
    <2> QED
      BY <2>3
  <1>11. CASE Fail(t)
    <2>1. At(t, "failing")
      BY <1>11 DEF Fail, Settle, Resumes
    <2>2. TaskLeft(t)' = StepsLeft("lamenting", n) \/ TaskLeft(t)' = StepsLeft("closing", n)
      BY <1>4, <1>11 DEF Fail, Settle, Places, Running
    <2>3. TaskLeft(t)' \in {2, 3} /\ TaskLeft(t) = 4
      BY <1>1, <1>3, <2>1, <2>2, StepsLeftIs
    <2> QED
      BY <2>3
  <1>12. CASE Announce(t)
    <2>1. At(t, "announcing") \/ At(t, "lamenting")
      BY <1>12 DEF Announce, Resumes
    <2>2. TaskLeft(t)' = StepsLeft("closing", n + 1)
      BY <1>5, <1>12, Zenon DEF Announce, Places, Running
    <2>3. TaskLeft(t)' = 2
      BY <2>2 DEF StepsLeft
    <2>4. TaskLeft(t) = 3
      BY <1>1, <1>3, <2>1, StepsLeftIs
    <2> QED
      BY <2>3, <2>4
  <1>13. CASE Close(t)
    <2>1. At(t, "closing") /\ turn'[t].pc = "saving"
      BY <1>13, CloseTurn DEF Close
    <2>2. TaskLeft(t)' = 1
      BY <1>2, <2>1 DEF StepsLeft
    <2>3. TaskLeft(t) = 2
      BY <1>1, <1>3, <2>1, StepsLeftIs
    <2> QED
      BY <2>2, <2>3
  <1>14. CASE Save(t)
    <2>1. At(t, "saving") /\ TaskLeft(t)' = StepsLeft("over", n)
      BY <1>4, <1>14 DEF Save, Places
    <2>2. TaskLeft(t)' = 0 /\ TaskLeft(t) = 1
      BY <1>1, <1>3, <2>1, StepsLeftIs
    <2> QED
      BY <2>2
  <1>15. CASE Cancelled(t)
    <2>1. CASE At(t, "ready") /\ Goto(t, "over")
      <3>1. TaskLeft(t)' = StepsLeft("over", n)
        BY <1>4, <2>1 DEF Places
      <3>2. TaskLeft(t)' = 0 /\ TaskLeft(t) = 5 + MaxSeq
        BY <1>1, <1>3, <2>1, <3>1, StepsLeftIs
      <3> QED
        BY <1>1, <3>2
    <2>2. CASE /\ turn[t].pc \in {"working", "settling", "announcing", "failing",
                                  "lamenting"}
               /\ Goto(t, "closing")
      <3>1. TaskLeft(t)' = StepsLeft("closing", n)
        BY <1>4, <2>2 DEF Places, Running
      <3>2. TaskLeft(t)' = 2
        BY <1>1, <3>1, StepsLeftIs
      <3>3. At(t, "working") \/ TaskLeft(t) \in {3, 4, 5}
        BY <1>1, <1>3, <2>2, StepsLeftIs DEF At
      <3>4. At(t, "working") => TaskLeft(t) = 5 + (MaxSeq - n)
        BY <1>1, <1>3, StepsLeftIs
      <3> QED
        BY <1>1, <3>2, <3>3, <3>4
    <2> QED
      BY <1>15, <2>1, <2>2 DEF Cancelled
  <1> QED
    BY <1>7, <1>8, <1>9, <1>10, <1>11, <1>12, <1>13, <1>14, <1>15 DEF Task

\* Besides that it adds an entry to the queues of its own streams, at most.
LEMMA TaskAdds ==
    ASSUME TypeInv, NEW t \in Turns, Task(t), NEW s \in Streams
    PROVE  /\ stream'[s].state = stream[s].state /\ stream'[s].of = stream[s].of
           /\ stream'[s].todo = stream[s].todo
           /\ Len(stream'[s].queue) \in Nat
           /\ Len(stream'[s].queue) <= Len(stream[s].queue) + 1
           /\ stream[s].of # t => stream'[s] = stream[s]
           /\ \A u \in Turns \ {t} : /\ turn'[u].pc = turn[u].pc
                                     /\ turn'[u].seq = turn[u].seq
  <1> DEFINE Others == \A u \in Turns \ {t} : /\ turn'[u].pc = turn[u].pc
                                              /\ turn'[u].seq = turn[u].seq
             Added  == /\ stream'[s].state = stream[s].state
                       /\ stream'[s].of = stream[s].of
                       /\ stream'[s].todo = stream[s].todo
                       /\ Len(stream'[s].queue) \in Nat
                       /\ Len(stream'[s].queue) <= Len(stream[s].queue) + 1
                       /\ stream[s].of # t => stream'[s] = stream[s]
  <1>1. ASSUME NEW pc \in Places, NEW binds \in BOOLEAN, NEW isLast \in BOOLEAN,
               Publish(t, pc, binds, isLast)
        PROVE  Added /\ Others
    <2>1. turn[t].seq + 1 \in Nat
      BY DEF TypeInv, TurnType
    <2>2. Added
      BY <1>1, <2>1, BroadcastAdds DEF Publish
    <2>3. Others
      BY <1>1, PublishTurn
    <2> QED
      BY <2>2, <2>3
  <1>2. ASSUME NEW pc \in Places, Goto(t, pc), stream' = stream
        PROVE  Added /\ Others
    <2>1. Len(stream[s].queue) \in Nat
      BY DEF TypeInv, StreamType
    <2>2. Added
      BY <1>2, <2>1
    <2>3. Others
      BY <1>2, GotoTurn
    <2> QED
      BY <2>2, <2>3
  <1>3. ASSUME Close(t) PROVE Added /\ Others
    <2>1. Added
      BY <1>3, BroadcastAdds DEF Close, Sentinel
    <2>2. Others
      BY <1>3, CloseTurn
    <2> QED
      BY <2>1, <2>2
  <1> HIDE DEF Added, Others
  <1>4. ASSUME Begin(t) \/ Announce(t) PROVE Added /\ Others
    BY <1>1, <1>4, Zenon DEF Begin, Announce, Places, Running
  <1>5. ASSUME Emit(t) PROVE Added /\ Others
    <2>1. \E binds \in BOOLEAN : Publish(t, "working", binds, FALSE)
      BY <1>5 DEF Emit
    <2> QED
      BY <1>1, <2>1, Zenon DEF Places, Running
  <1>6. ASSUME WorkEnds(t) \/ Complete(t) \/ Fail(t) \/ Save(t) \/ Cancelled(t)
        PROVE  Added /\ Others
    BY <1>2, <1>6 DEF WorkEnds, Complete, Fail, Settle, Save, Cancelled, Places, Running
  <1>7. Added /\ Others
    BY <1>3, <1>4, <1>5, <1>6 DEF Task
  <1> QED
    BY <1>7 DEF Added, Others

\* Sums of natural numbers.
LEMMA Sums ==
  /\ \A a, b, c \in Nat : c < b => a + c < a + b /\ c + a < b + a
  /\ \A a, b, c, k, m \in Nat :
        c <= b + 1 /\ m < k => /\ a + c + 2 * m < a + b + 2 * k
                              /\ a + c + 2 * m <= a + b + 2 * k
  /\ \A a, b, c, d, k \in Nat : c + d < a + b => c + d + 2 * k < a + b + 2 * k
  OBVIOUS

LEMMA DistanceType ==
    ASSUME Inv, FollowedInv, NEW s \in Streams, stream[s].state = "in"
    PROVE  EndDistance(s) \in Nat
  <1>1. TypeInv /\ TurnsNumbered
    BY DEF Inv
  <1>2. stream[s] \in StreamType /\ stream[s].of \in Turns
    BY <1>1 DEF TypeInv, Inv, StreamsInv, OpenHolds
  <1>3. TaskLeft(stream[s].of) \in Nat
    BY <1>1, <1>2, TaskLeftType DEF FollowedInv
  <1>4. Len(stream[s].todo) \in Nat /\ Len(stream[s].queue) \in Nat
    BY <1>2 DEF StreamType
  <1>5. \A a, b, k \in Nat : a + b + 2 * k \in Nat
    OBVIOUS
  <1>6. Len(stream[s].todo) + Len(stream[s].queue) + 2 * TaskLeft(stream[s].of) \in Nat
    BY <1>3, <1>4, <1>5
  <1> QED
    BY <1>6 DEF EndDistance

\* Whoever's task it is, an open stream is no farther from its end, and nearer to
\* it if the task is its own.
LEMMA TaskNears ==
    ASSUME Inv, FollowedInv, [Next]_vars, NEW t \in Turns, Task(t),
           NEW s \in Streams, stream[s].state = "in"
    PROVE  /\ EndDistance(s)' <= EndDistance(s)
           /\ stream[s].of = t => EndDistance(s)' < EndDistance(s)
  <1>1. TypeInv /\ TurnsInv /\ TurnsNumbered
    BY DEF Inv
  <1>2. stream[s] \in StreamType /\ stream[s].of \in Turns
    BY <1>1 DEF TypeInv, Inv, StreamsInv, OpenHolds
  <1>3. PICK of \in Turns : of = stream[s].of
    BY <1>2
  <1>4. /\ stream'[s].of = of
        /\ stream'[s].todo = stream[s].todo
        /\ Len(stream'[s].queue) \in Nat
        /\ Len(stream'[s].queue) <= Len(stream[s].queue) + 1
        /\ of # t => stream'[s] = stream[s]
        /\ of # t => turn'[of].pc = turn[of].pc /\ turn'[of].seq = turn[of].seq
    BY <1>1, <1>3, TaskAdds
  <1>5. Len(stream[s].todo) \in Nat /\ Len(stream[s].queue) \in Nat
    BY <1>2 DEF StreamType
  <1>6. EndDistance(s) = Len(stream[s].todo) + Len(stream[s].queue) + 2 * TaskLeft(of)
    BY <1>3 DEF EndDistance
  <1>7. EndDistance(s)' = Len(stream[s].todo) + Len(stream'[s].queue) + 2 * TaskLeft(of)'
    BY <1>4 DEF EndDistance
  <1>8. Launched(of)
    BY <1>3 DEF FollowedInv
  <1>9. turn'[of].pc \in Running \cup {"over"}
    <2>1. Launched(of)'
      BY <1>1, <1>8, LaunchedStays
    <2> QED
      BY <2>1 DEF Launched
  <1>10. TaskLeft(of) \in Nat
    BY <1>1, <1>8, TaskLeftType
  <1>11. CASE of # t
    <2>1. TaskLeft(of)' = TaskLeft(of)
      BY <1>4, <1>11 DEF TaskLeft
    <2>2. EndDistance(s)' = EndDistance(s)
      BY <1>4, <1>6, <1>7, <1>11, <2>1
    <2>3. EndDistance(s) \in Nat
      BY DistanceType
    <2> QED
      BY <1>3, <1>11, <2>2, <2>3
  <1>12. CASE of = t
    <2>1. TaskLeft(of)' < TaskLeft(of)
      BY <1>1, <1>12, TaskShrinks
    <2>2. TaskLeft(of)' \in Nat
      <3>1. turn'[of].seq \in 0..MaxSeq
        <4>1. TypeInv' /\ TurnsNumbered'
          BY <1>1, TypeNext, NumberedNext
        <4>2. turn'[of].seq \in Nat /\ turn'[of].seq <= MaxSeq
          BY <4>1, MaxSeqType DEF TypeInv, TurnType, TurnsNumbered, Numbered
        <4> QED
          BY <4>2, MaxSeqType
      <3>2. TaskLeft(of)' = StepsLeft(turn'[of].pc, turn'[of].seq)
        BY DEF TaskLeft
      <3> QED
        BY <1>9, <3>1, <3>2, StepsLeftIs
    <2>3. /\ Len(stream[s].todo) + Len(stream'[s].queue) + 2 * TaskLeft(of)'
                < Len(stream[s].todo) + Len(stream[s].queue) + 2 * TaskLeft(of)
          /\ Len(stream[s].todo) + Len(stream'[s].queue) + 2 * TaskLeft(of)'
                <= Len(stream[s].todo) + Len(stream[s].queue) + 2 * TaskLeft(of)
      BY <1>4, <1>5, <1>10, <2>1, <2>2, Sums
    <2> QED
      BY <1>6, <1>7, <2>3
  <1> QED
    BY <1>11, <1>12

\* What a stream does itself: it replays, follows, or ends.
LEMMA ReadShrinks ==
    ASSUME TypeInv, NEW s \in Streams, Reads(s)
    PROVE  /\ turn' = turn /\ \A u \in Streams \ {s} : stream'[u] = stream[u]
           /\ stream[s].state = "in"
           /\ \/ stream'[s].state # "in"
              \/ /\ stream'[s].of = stream[s].of
                 /\ Len(stream'[s].todo) \in Nat /\ Len(stream'[s].queue) \in Nat
                 /\ Len(stream'[s].todo) + Len(stream'[s].queue)
                        < Len(stream[s].todo) + Len(stream[s].queue)
  <1> DEFINE Shrunk == /\ stream'[s].of = stream[s].of
                       /\ Len(stream'[s].todo) \in Nat /\ Len(stream'[s].queue) \in Nat
                       /\ Len(stream'[s].todo) + Len(stream'[s].queue)
                              < Len(stream[s].todo) + Len(stream[s].queue)
  <1>1. stream[s] \in StreamType
    BY DEF TypeInv
  <1>2. Len(stream[s].todo) \in Nat /\ Len(stream[s].queue) \in Nat
    BY <1>1 DEF StreamType
  <1>3. turn' = turn /\ stream[s].state = "in"
    BY DEF Reads, Replay, Follow, TimeOut
  <1>4. ASSUME NEW new, stream' = [stream EXCEPT ![s] = new]
        PROVE  stream'[s] = new /\ \A u \in Streams \ {s} : stream'[u] = stream[u]
    BY <1>4 DEF TypeInv
  <1>5. CASE Replay(s)
    <2> DEFINE todo == Tail(stream[s].todo)
               got  == Append(stream[s].got, Head(stream[s].todo))
               new  == [stream[s] EXCEPT !.got = got, !.todo = todo]
    <2>1. /\ stream[s].todo # <<>> /\ stream[s].todo \in Seq(Nat)
          /\ stream' = [stream EXCEPT ![s] = new]
      BY <1>1, <1>5, ReplayStream DEF StreamType
    <2>2. Len(todo) = Len(stream[s].todo) - 1 /\ Len(stream[s].todo) # 0
      BY <2>1, NarrowTail
    <2> HIDE DEF todo, got
    <2>3. new.of = stream[s].of /\ new.todo = todo /\ new.queue = stream[s].queue
      BY <1>1 DEF StreamType
    <2> HIDE DEF new
    <2>4. stream'[s] = new /\ \A u \in Streams \ {s} : stream'[u] = stream[u]
      BY <1>4, <2>1
    <2>5. Len(todo) \in Nat /\ Len(todo) < Len(stream[s].todo)
      BY <1>2, <2>2
    <2>6. Len(todo) + Len(stream[s].queue) < Len(stream[s].todo) + Len(stream[s].queue)
      BY <1>2, <2>5, Sums
    <2>7. Shrunk
      BY <1>2, <2>3, <2>4, <2>5, <2>6
    <2> QED
      BY <1>3, <2>4, <2>7
  <1>6. CASE Follow(s)
    <2> DEFINE entry == Head(stream[s].queue)
               rest  == Tail(stream[s].queue)
               more  == Append(stream[s].got, entry)
               over  == Closed(s, "over")
               told  == [over EXCEPT !.got = more]
               skip  == [stream[s] EXCEPT !.queue = rest]
               on    == [stream[s] EXCEPT !.queue = rest, !.got = more]
    <2>1. stream[s].queue # <<>> /\ stream[s].queue \in Seq(Nat)
      BY <1>1, <1>6 DEF StreamType, Follow
    <2>2. \/ stream' = [stream EXCEPT ![s] = over]
          \/ stream' = [stream EXCEPT ![s] = skip]
          \/ stream' = [stream EXCEPT ![s] = told]
          \/ stream' = [stream EXCEPT ![s] = on]
      BY <1>6, FollowStream, ZenonT(30)
    <2>3. Len(rest) = Len(stream[s].queue) - 1 /\ Len(stream[s].queue) # 0
      BY <2>1, NarrowTail
    <2> HIDE DEF entry, rest, more
    <2>4. over.state = "over" /\ told.state = "over"
      BY <1>1 DEF Closed, StreamType
    <2>5. /\ skip.of = stream[s].of /\ skip.queue = rest /\ skip.todo = stream[s].todo
          /\ on.of = stream[s].of /\ on.queue = rest /\ on.todo = stream[s].todo
      BY <1>1 DEF StreamType
    <2> HIDE DEF over, told, skip, on
    <2>6. /\ \/ stream'[s] = over \/ stream'[s] = told
             \/ stream'[s] = skip \/ stream'[s] = on
          /\ \A u \in Streams \ {s} : stream'[u] = stream[u]
      BY <1>4, <2>2
    <2>7. CASE stream'[s] = over \/ stream'[s] = told
      BY <1>3, <2>4, <2>6, <2>7
    <2>8. CASE stream'[s] = skip \/ stream'[s] = on
      <3>1. /\ stream'[s].of = stream[s].of /\ stream'[s].todo = stream[s].todo
            /\ stream'[s].queue = rest
        BY <2>5, <2>8
      <3>2. Len(rest) \in Nat /\ Len(rest) < Len(stream[s].queue)
        BY <1>2, <2>3
      <3>3. Len(stream[s].todo) + Len(rest) < Len(stream[s].todo) + Len(stream[s].queue)
        BY <1>2, <3>2, Sums
      <3>4. Shrunk
        BY <1>2, <3>1, <3>2, <3>3
      <3> QED
        BY <1>3, <2>6, <3>4
    <2> QED
      BY <2>6, <2>7, <2>8
  <1>7. CASE TimeOut(s)
    <2>1. Closed(s, "over").state = "over"
      BY <1>1 DEF Closed, StreamType
    <2>2. stream' = [stream EXCEPT ![s] = Closed(s, "over")]
      BY <1>7 DEF TimeOut
    <2>3. stream'[s].state # "in" /\ \A u \in Streams \ {s} : stream'[u] = stream[u]
      BY <1>4, <2>1, <2>2
    <2> QED
      BY <1>3, <2>3
  <1> QED
    BY <1>5, <1>6, <1>7 DEF Reads

LEMMA ReadNears ==
    ASSUME Inv, FollowedInv, NEW s \in Streams, Reads(s)
    PROVE  \/ stream'[s].state # "in"
           \/ EndDistance(s)' < EndDistance(s) /\ EndDistance(s)' \in Nat
  <1> SUFFICES ASSUME stream'[s].state = "in"
               PROVE  EndDistance(s)' < EndDistance(s) /\ EndDistance(s)' \in Nat
    OBVIOUS
  <1>1. TypeInv /\ TurnsNumbered
    BY DEF Inv
  <1>2. /\ turn' = turn /\ stream[s].state = "in" /\ stream'[s].of = stream[s].of
        /\ Len(stream'[s].todo) \in Nat /\ Len(stream'[s].queue) \in Nat
        /\ Len(stream'[s].todo) + Len(stream'[s].queue)
               < Len(stream[s].todo) + Len(stream[s].queue)
    BY <1>1, ReadShrinks
  <1>3. stream[s] \in StreamType /\ stream[s].of \in Turns
    BY <1>1, <1>2 DEF TypeInv, Inv, StreamsInv, OpenHolds
  <1>4. PICK of \in Turns : of = stream[s].of
    BY <1>3
  <1>5. TaskLeft(of) \in Nat
    BY <1>1, <1>2, <1>4, TaskLeftType DEF FollowedInv
  <1>6. Len(stream[s].todo) \in Nat /\ Len(stream[s].queue) \in Nat
    BY <1>3 DEF StreamType
  <1>7. EndDistance(s) = Len(stream[s].todo) + Len(stream[s].queue) + 2 * TaskLeft(of)
    BY <1>4 DEF EndDistance
  <1>8. EndDistance(s)' = Len(stream'[s].todo) + Len(stream'[s].queue) + 2 * TaskLeft(of)
    BY <1>2, <1>4 DEF EndDistance, TaskLeft
  <1>9. \A a, b, c, d, k \in Nat : c + d < a + b => /\ c + d + 2 * k < a + b + 2 * k
                                                    /\ c + d + 2 * k \in Nat
    OBVIOUS
  <1>10. /\ Len(stream'[s].todo) + Len(stream'[s].queue) + 2 * TaskLeft(of)
                < Len(stream[s].todo) + Len(stream[s].queue) + 2 * TaskLeft(of)
         /\ Len(stream'[s].todo) + Len(stream'[s].queue) + 2 * TaskLeft(of) \in Nat
    BY <1>2, <1>5, <1>6, <1>9
  <1> QED
    BY <1>7, <1>8, <1>10

LEMMA FollowedNext == Inv /\ FollowedInv /\ [Next]_vars => FollowedInv'
  <1> SUFFICES ASSUME Inv, FollowedInv, [Next]_vars PROVE FollowedInv'
    OBVIOUS
  <1>1. TypeInv /\ StreamsInv
    BY DEF Inv
  <1>2. \A t \in Turns : Launched(t) => Launched(t)'
    BY <1>1, LaunchedStays
  <1>3. ASSUME NEW t \in Turns, Launched(t) \/ turn'[t].pc \in Running
        PROVE  turn'[t].pc \in Running \cup {"over"}
    BY <1>2, <1>3 DEF Launched
  <1>4. ASSUME registry' \in {registry, NoTurn} PROVE registry' # NoTurn =>
            turn'[registry'].pc \in Running \cup {"over"}
    BY <1>1, <1>3, <1>4 DEF FollowedInv, TypeInv
  <1>5. ASSUME NEW s \in Streams, stream[s].state = "in", stream'[s].of = stream[s].of
        PROVE  turn'[stream'[s].of].pc \in Running \cup {"over"}
    BY <1>1, <1>3, <1>5 DEF FollowedInv, StreamsInv, OpenHolds
  <1>6. ASSUME registry' \in {registry, NoTurn},
               \A s \in Streams : stream'[s].state = "in" =>
                   stream[s].state = "in" /\ stream'[s].of = stream[s].of
        PROVE  FollowedInv'
    BY <1>4, <1>5, <1>6 DEF FollowedInv, Launched
  <1>7. ASSUME NEW t \in Turns, Task(t) PROVE FollowedInv'
    <2>1. registry' \in {registry, NoTurn}
      BY <1>7 DEF Task, Begin, Emit, WorkEnds, Complete, Fail, Settle, Announce,
                  Close, Save, Cancelled
    <2>2. \A s \in Streams : /\ stream'[s].state = stream[s].state
                             /\ stream'[s].of = stream[s].of
      BY <1>1, <1>7, TaskAdds
    <2> QED
      BY <1>6, <2>1, <2>2
  <1>8. ASSUME NEW t \in Turns, Launch(t) PROVE FollowedInv'
    <2>1. turn'[t].pc \in Running
      BY <1>1, <1>8, GotoTurn DEF Launch, Places, Running
    <2>2. registry' = t \/ registry' = registry
      BY <1>8 DEF Launch
    <2>3. registry' # NoTurn => turn'[registry'].pc \in Running \cup {"over"}
      BY <1>4, <2>1, <2>2
    <2>4. ASSUME NEW s \in Streams, stream'[s].state = "in"
          PROVE  turn'[stream'[s].of].pc \in Running \cup {"over"}
      <3>1. CASE s = t
        <4>1. stream'[s].of = t
          BY <1>1, <1>8, <3>1, LaunchStreams DEF NoStream
        <4> QED
          BY <2>1, <4>1
      <3>2. CASE s # t
        BY <1>1, <1>5, <1>8, <2>4, <3>2, LaunchStreams
      <3> QED
        BY <3>1, <3>2
    <2> QED
      BY <2>3, <2>4 DEF FollowedInv, Launched
  <1>9. ASSUME NEW c \in Clients, Attach(c) PROVE FollowedInv'
    <2>1. registry \in Turns /\ registry' = registry /\ registry # NoTurn
      BY <1>1, <1>9, AttachStreams DEF Attach, IsRunning
    <2>2. turn'[registry].pc \in Running \cup {"over"}
      BY <1>3, <2>1 DEF FollowedInv
    <2>3. ASSUME NEW s \in Streams, stream'[s].state = "in"
          PROVE  turn'[stream'[s].of].pc \in Running \cup {"over"}
      <3>1. CASE s = c
        <4>1. stream'[s].of = registry
          <5>1. stream[c] \in StreamType
            BY <1>1 DEF TypeInv, Streams
          <5> QED
            BY <1>1, <1>9, <3>1, <5>1, AttachStreams DEF StreamType
        <4> QED
          BY <2>2, <4>1
      <3>2. CASE s # c
        BY <1>1, <1>5, <1>9, <2>3, <3>2, AttachStreams
      <3> QED
        BY <3>1, <3>2
    <2> QED
      BY <2>1, <2>2, <2>3 DEF FollowedInv, Launched
  <1>10. ASSUME NEW r \in Streams, Reads(r) PROVE FollowedInv'
    <2>1. registry' = registry
      BY <1>10 DEF Reads, Replay, Follow, TimeOut
    <2>2. ASSUME NEW s \in Streams, stream'[s].state = "in"
          PROVE  stream[s].state = "in" /\ stream'[s].of = stream[s].of
      BY <1>1, <1>10, <2>2, ReadShrinks
    <2> QED
      BY <1>6, <2>1, <2>2
  <1>11. ASSUME NEW c \in Clients, Disconnect(c) PROVE FollowedInv'
    <2>1. Closed(c, "left").state = "left"
      BY <1>1 DEF Closed, TypeInv, Streams, StreamType
    <2> QED
      BY <1>1, <1>6, <1>11, <2>1 DEF Disconnect, TypeInv
  <1>12. CASE registry' = registry /\ stream' = stream
    BY <1>6, <1>12
  <1> QED
    BY <1>7, <1>8, <1>9, <1>10, <1>11, <1>12 DEF Next, Post, Stop, vars

LEMMA Followed == Spec => []FollowedInv
  <1> QED
    BY FollowedInit, FollowedNext, Invariance, PTL DEF Spec

LEMMA NearerNext == Inv /\ FollowedInv /\ [Next]_vars => [Nearer]_vars
  <1> SUFFICES ASSUME Inv, FollowedInv, [Next]_vars, NEW s \in Streams,
                      stream[s].state = "in"
               PROVE  /\ stream'[s].state # "in" \/ EndDistance(s)' <= EndDistance(s)
                      /\ Reads(s) \/ Task(stream[s].of) =>
                             stream'[s].state # "in" \/ EndDistance(s)' < EndDistance(s)
    BY DEF Nearer
  <1>1. TypeInv /\ StreamsInv /\ TurnsNumbered
    BY DEF Inv
  <1>2. stream[s] \in StreamType /\ stream[s].of \in Turns
    BY <1>1 DEF TypeInv, StreamsInv, OpenHolds
  <1>3. EndDistance(s) \in Nat
    BY DistanceType
  <1>4. Reads(s) => stream'[s].state # "in" \/ EndDistance(s)' < EndDistance(s)
    BY ReadNears
  <1>5. Task(stream[s].of) => EndDistance(s)' < EndDistance(s)
    BY <1>2, TaskNears
  <1>6. ASSUME stream'[s] = stream[s],
               turn'[stream[s].of].pc = turn[stream[s].of].pc,
               turn'[stream[s].of].seq = turn[stream[s].of].seq
        PROVE  EndDistance(s)' <= EndDistance(s)
    <2>1. EndDistance(s)' = EndDistance(s)
      BY <1>6 DEF EndDistance, TaskLeft
    <2> QED
      BY <1>3, <2>1
  <1>7. ASSUME NEW t \in Turns, Post(t) \/ Launch(t)
        PROVE  EndDistance(s)' <= EndDistance(s)
    <2>1. turn[t].pc \in {"idle", "posting"}
      BY <1>7 DEF Post, Launch, At
    <2>2. t # stream[s].of
      BY <2>1 DEF FollowedInv, Launched, Running
    <2>3. s # t
      BY <1>1, <2>1 DEF StreamsInv, NotBefore
    <2>4. stream'[s] = stream[s]
      BY <1>1, <1>7, <2>3, LaunchStreams DEF Post
    <2>5. /\ turn'[stream[s].of].pc = turn[stream[s].of].pc
          /\ turn'[stream[s].of].seq = turn[stream[s].of].seq
      BY <1>1, <1>2, <1>7, <2>2, GotoTurn DEF Post, Launch, Places, Running
    <2> QED
      BY <1>6, <2>4, <2>5
  <1>8. ASSUME NEW t \in Turns, Task(t) PROVE EndDistance(s)' <= EndDistance(s)
    BY <1>8, TaskNears
  <1>9. ASSUME Stop PROVE EndDistance(s)' <= EndDistance(s)
    BY <1>1, <1>2, <1>6, <1>9, StopTurn DEF Stop
  <1>10. ASSUME NEW c \in Clients, Attach(c) PROVE EndDistance(s)' <= EndDistance(s)
    <2>1. s # c
      BY <1>10 DEF Attach
    <2> QED
      BY <1>1, <1>6, <1>10, <2>1, AttachStreams DEF Attach
  <1>11. ASSUME NEW c \in Clients, Disconnect(c)
         PROVE  stream'[s].state # "in" \/ EndDistance(s)' <= EndDistance(s)
    <2>1. turn' = turn /\ stream' = [stream EXCEPT ![c] = Closed(c, "left")]
      BY <1>11 DEF Disconnect
    <2>2. CASE s = c
      BY <1>1, <1>2, <2>1, <2>2 DEF Closed, TypeInv, StreamType
    <2>3. CASE s # c
      BY <1>1, <1>6, <2>1, <2>3 DEF TypeInv
    <2> QED
      BY <2>2, <2>3
  <1>12. ASSUME NEW r \in Streams, Reads(r)
         PROVE  stream'[s].state # "in" \/ EndDistance(s)' <= EndDistance(s)
    <2>1. CASE r # s
      <3>1. turn' = turn /\ stream'[s] = stream[s]
        BY <1>1, <1>12, <2>1, ReadShrinks
      <3> QED
        BY <1>6, <3>1
    <2>2. CASE r = s /\ stream'[s].state = "in"
      <3>1. EndDistance(s)' < EndDistance(s) /\ EndDistance(s)' \in Nat
        BY <1>12, <2>2, ReadNears
      <3> QED
        BY <1>3, <3>1
    <2> QED
      BY <2>1, <2>2
  <1>13. ASSUME UNCHANGED vars PROVE EndDistance(s)' <= EndDistance(s)
    BY <1>6, <1>13 DEF vars
  <1>14. stream'[s].state # "in" \/ EndDistance(s)' <= EndDistance(s)
    BY <1>7, <1>8, <1>9, <1>10, <1>11, <1>12, <1>13 DEF Next
  <1> QED
    BY <1>4, <1>5, <1>14

\* An open stream never waits for nothing: it has something to yield, or its task
\* is over, so that its wait runs out (harness/manager.py, the timeout of the
\* queue), or its task can step. A dropped sentinel, and a task that was cancelled
\* before it began, are among the cases.
THEOREM StreamsNeverStuck == Spec => []EndsGo
  <1>1. FollowedInv => EndsGo
    BY DEF FollowedInv, EndsGo, Launched, TaskGoes, StreamGoes, At
  <1> QED
    BY <1>1, Followed, PTL

\* Every such step brings its end nearer, by a natural number that nothing raises
\* again: no other turn, no other client and no stop. What is left to the
\* scheduler is to let the stream and its task run.
THEOREM StreamsComeNearer == Spec => [][Nearer]_vars
  <1> QED
    BY NearerNext, Followed, Invariance, PTL DEF Spec
=============================================================================
