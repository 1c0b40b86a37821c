----------------------------- MODULE StreamLemmas -----------------------------
(***************************************************************************)
(* One subscriber of a bus, for any numbers and queues: what holds of him  *)
(* while he replays the history and follows his queue, and that each step  *)
(* of the bus and of the stream keeps it.  HarnessRun and ChatRun both     *)
(* hold it of every stream.                                                *)
(***************************************************************************)
EXTENDS Naturals, Sequences, SequencesExt, SequenceTheorems, TLAPS

(***************************************************************************)
(* One subscriber: f is the number it asked for, td what is left of the    *)
(* history, q its queue, g what it has yielded, d what its queue dropped,  *)
(* n the last number published, pc where the task is.                      *)
(***************************************************************************)
\* The bus publishes no more.
Done == {"saving", "over"}

SeenOf(f, g) == IF g = <<>> THEN f ELSE Last(g)

Typed(f, td, q, g, d, n) ==
    /\ f \in Nat /\ n \in Nat /\ d \subseteq 1..n
    /\ td \in Seq(Nat) /\ q \in Seq(Nat) /\ g \in Seq(Nat)

\* The history goes on where the client is.
HistoryFollows(f, td, g, d, n) ==
    \A i \in 1..Len(td) :
        td[i] = SeenOf(f, g) + i /\ td[i] <= n /\ td[i] \notin d

\* What was yielded lies between the client's number and the last one seen.
YieldedBelow(f, g, n) ==
    /\ \A i \in 1..Len(g) : f < g[i] /\ g[i] <= SeenOf(f, g)
    /\ Len(g) # 0 => SeenOf(f, g) <= n

\* The queue holds new events that were not dropped, and ends with the sentinel
\* if at all;
QueueNew(q, d, n, pc) ==
    \A i \in 1..Len(q) : IF q[i] = 0 THEN pc \in Done
                         ELSE i <= q[i] /\ q[i] <= n /\ q[i] \notin d

\* it rises,
QueueRises(q) ==
    \A i, j \in 1..Len(q) :
        i < j /\ q[j] # 0 => q[i] # 0 /\ q[j] >= q[i] + (j - i)

\* and lies behind the history once something was or will be yielded.
QueueBehind(f, td, q, g) ==
    Len(td) + Len(g) # 0 =>
        \A i \in 1..Len(q) : q[i] # 0 => q[i] >= SeenOf(f, g) + Len(td) + i

\* Nothing the client asked for is missing.
NothingMissing(f, td, q, g, d, n) ==
    \A m \in Nat : f < m /\ m <= n =>
        \/ m \in d
        \/ \E i \in 1..Len(g) : g[i] = m
        \/ \E i \in 1..Len(td) : td[i] = m
        \/ \E i \in 1..Len(q) : q[i] = m

Good(f, td, q, g, d, n, pc) ==
    /\ Typed(f, td, q, g, d, n)
    /\ HistoryFollows(f, td, g, d, n)
    /\ YieldedBelow(f, g, n)
    /\ QueueNew(q, d, n, pc) /\ QueueRises(q) /\ QueueBehind(f, td, q, g)
    /\ NothingMissing(f, td, q, g, d, n)

OwedTo(f, g, d, n) == ((f + 1)..n) \ (d \cup ToSet(g))

LEMMA SeenType ==
    ASSUME NEW f \in Nat, NEW g \in Seq(Nat)
    PROVE  /\ SeenOf(f, g) \in Nat
           /\ g # <<>> => SeenOf(f, g) = g[Len(g)] /\ Len(g) \in 1..Len(g)
           /\ g = <<>> => SeenOf(f, g) = f
  BY DEF SeenOf, Last

LEMMA SeenAppend ==
    ASSUME NEW f \in Nat, NEW g \in Seq(Nat), NEW e \in Nat
    PROVE  /\ SeenOf(f, Append(g, e)) = e
           /\ Append(g, e) # <<>>
           /\ Append(g, e) \in Seq(Nat)
           /\ Len(Append(g, e)) = Len(g) + 1
           /\ \A i \in 1..Len(g) : Append(g, e)[i] = g[i]
           /\ Append(g, e)[Len(g) + 1] = e
  <1>1. /\ Append(g, e) \in Seq(Nat)
        /\ Len(Append(g, e)) = Len(g) + 1
        /\ \A i \in 1..Len(g) : Append(g, e)[i] = g[i]
        /\ Append(g, e)[Len(g) + 1] = e
    BY AppendProperties
  <1>2. Append(g, e) # <<>>
    BY <1>1
  <1> QED
    BY <1>1, <1>2 DEF SeenOf, Last

\* A stream that joins gets the whole history after its number.
LEMMA JoinGood ==
    ASSUME NEW f \in Nat, NEW n \in Nat, NEW pc
    PROVE  Good(f, [i \in 1..(IF f < n THEN n - f ELSE 0) |-> f + i],
                <<>>, <<>>, {}, n, pc)
  <1> DEFINE len == IF f < n THEN n - f ELSE 0
             td  == [i \in 1..len |-> f + i]
  <1>1. len \in Nat
    OBVIOUS
  <1>2. td \in Seq(Nat) /\ Len(td) = len /\ \A i \in 1..len : td[i] = f + i
    BY <1>1
  <1> HIDE DEF td
  <1>3. Typed(f, td, <<>>, <<>>, {}, n)
    BY <1>2 DEF Typed
  <1>4. HistoryFollows(f, td, <<>>, {}, n)
    BY <1>2 DEF HistoryFollows, SeenOf
  <1>5. /\ YieldedBelow(f, <<>>, n) /\ QueueNew(<<>>, {}, n, pc)
        /\ QueueRises(<<>>) /\ QueueBehind(f, td, <<>>, <<>>)
    BY DEF YieldedBelow, QueueRises, QueueNew, QueueBehind
  <1>6. NothingMissing(f, td, <<>>, <<>>, {}, n)
    <2> SUFFICES ASSUME NEW m \in Nat, f < m, m <= n
                 PROVE  \E i \in 1..Len(td) : td[i] = m
      BY DEF NothingMissing
    <2>1. m - f \in 1..Len(td) /\ td[m - f] = m
      BY <1>2
    <2> QED
      BY <2>1
  <1>7. Good(f, td, <<>>, <<>>, {}, n, pc)
    BY <1>3, <1>4, <1>5, <1>6 DEF Good
  <1> QED
    BY <1>7 DEF td

\* A published event enters the queue ...
LEMMA EnqueueGood ==
    ASSUME NEW f, NEW td, NEW q, NEW g, NEW d, NEW n,
           NEW pc, NEW next, Good(f, td, q, g, d, n, pc), pc \notin Done
    PROVE  Good(f, td, Append(q, n + 1), g, d, n + 1, next)
  <1> DEFINE r == Append(q, n + 1)
             c == SeenOf(f, g)
  <1>1. /\ f \in Nat /\ n \in Nat /\ d \subseteq 1..n
        /\ td \in Seq(Nat) /\ q \in Seq(Nat) /\ g \in Seq(Nat)
    BY DEF Good, Typed
  <1>2. /\ r \in Seq(Nat) /\ Len(r) = Len(q) + 1
        /\ \A i \in 1..Len(q) : r[i] = q[i]
        /\ r[Len(q) + 1] = n + 1
        /\ Len(q) + 1 \in 1..Len(r)
        /\ \A i \in 1..Len(r) : i \in 1..Len(q) \/ i = Len(q) + 1
    BY <1>1, AppendProperties
  <1>3. c \in Nat
    BY <1>1, SeenType
  <1>4. HistoryFollows(f, td, g, d, n + 1)
    BY <1>1, <1>3 DEF Good, HistoryFollows
  <1>5. YieldedBelow(f, g, n + 1)
    BY <1>1, <1>3 DEF Good, YieldedBelow
  <1>6. \A i \in 1..Len(q) : q[i] # 0 /\ i <= q[i] /\ q[i] <= n /\ q[i] \notin d
    BY DEF Good, QueueNew
  <1>7. \A i, j \in 1..Len(q) : i < j => q[j] >= q[i] + (j - i)
    BY <1>6 DEF Good, QueueRises
  <1>8. Len(td) + Len(g) # 0 => \A i \in 1..Len(q) : q[i] >= c + Len(td) + i
    BY <1>6 DEF Good, QueueBehind
  <1>9. n >= Len(q)
    BY <1>1, <1>6
  <1>10. \A i \in 1..Len(q) : n >= q[i] + (Len(q) - i)
    <2> SUFFICES ASSUME NEW i \in 1..Len(q) PROVE n >= q[i] + (Len(q) - i)
      OBVIOUS
    <2>1. Len(q) \in 1..Len(q) /\ q[Len(q)] \in Nat /\ q[i] \in Nat
      BY <1>1
    <2>2. q[Len(q)] <= n
      BY <2>1, <1>6
    <2>3. CASE i = Len(q)
      BY <2>1, <2>2, <2>3, <1>1
    <2>4. CASE i < Len(q)
      <3>1. q[Len(q)] >= q[i] + (Len(q) - i)
        BY <2>1, <2>4, <1>7
      <3> QED
        BY <3>1, <2>1, <2>2, <1>1
    <2> QED
      BY <2>3, <2>4, <1>1
  <1>11. Len(td) + Len(g) # 0 => n >= c + Len(td) + Len(q)
    <2> SUFFICES ASSUME Len(td) + Len(g) # 0 PROVE n >= c + Len(td) + Len(q)
      OBVIOUS
    <2>1. CASE Len(q) # 0
      <3>1. Len(q) \in 1..Len(q) /\ q[Len(q)] \in Nat
        BY <2>1, <1>1
      <3>2. q[Len(q)] >= c + Len(td) + Len(q) /\ q[Len(q)] <= n
        BY <3>1, <1>6, <1>8
      <3> QED
        BY <3>1, <3>2, <1>1, <1>3
    <2>2. CASE Len(q) = 0 /\ Len(td) # 0
      <3>1. Len(td) \in 1..Len(td)
        BY <2>2, <1>1
      <3>2. td[Len(td)] = c + Len(td) /\ td[Len(td)] <= n
        BY <3>1 DEF Good, HistoryFollows
      <3> QED
        BY <3>2, <2>2, <1>1, <1>3
    <2>3. CASE Len(q) = 0 /\ Len(td) = 0
      <3>1. Len(g) # 0 => c <= n
        BY DEF Good, YieldedBelow
      <3> QED
        BY <3>1, <2>3, <1>1, <1>3
    <2> QED
      BY <2>1, <2>2, <2>3
  <1> HIDE DEF r, c
  <1>12. QueueNew(r, d, n + 1, next)
    <2> SUFFICES ASSUME NEW i \in 1..Len(r)
                 PROVE  r[i] # 0 /\ i <= r[i] /\ r[i] <= n + 1 /\ r[i] \notin d
      BY DEF QueueNew
    <2>1. CASE i = Len(q) + 1
      BY <2>1, <1>1, <1>2, <1>9
    <2>2. CASE i \in 1..Len(q)
      <3>1. q[i] # 0 /\ i <= q[i] /\ q[i] <= n /\ q[i] \notin d /\ q[i] \in Nat
        BY <2>2, <1>1, <1>6
      <3>2. r[i] = q[i] /\ i \in Nat
        BY <2>2, <1>1, <1>2, SMTT(30)
      <3> QED
        BY <3>1, <3>2, <1>1
    <2> QED
      BY <2>1, <2>2, <1>1, <1>2
  <1>13. QueueRises(r)
    <2> SUFFICES ASSUME NEW i \in 1..Len(r), NEW j \in 1..Len(r), i < j
                 PROVE  r[i] # 0 /\ r[j] >= r[i] + (j - i)
      BY DEF QueueRises
    <2> HIDE DEF r
    <2>0. Len(q) \in Nat /\ Len(r) = Len(q) + 1 /\ i \in Nat /\ j \in Nat
      BY <1>1, <1>2
    <2>a. i \in 1..Len(q)
      BY <2>0
    <2>1. i \in 1..Len(q) /\ r[i] = q[i] /\ q[i] # 0 /\ q[i] \in Nat
      <3>1. r[i] = q[i]
        BY <2>a, <1>2
      <3>2. q[i] # 0
        BY <2>a, <1>6
      <3>3. q[i] \in Nat
        BY <2>a, <1>1
      <3> QED
        BY <2>a, <3>1, <3>2, <3>3
    <2>2. CASE j = Len(q) + 1
      <3>1. n >= q[i] + (Len(q) - i)
        BY <2>1, <1>10
      <3>2. r[j] = n + 1
        BY <2>2, <1>2
      <3>3. r[j] >= q[i] + (j - i)
        BY <2>0, <2>1, <2>2, <3>1, <3>2, <1>1, SMTT(30)
      <3> QED
        BY <2>1, <3>3
    <2>3. CASE j \in 1..Len(q)
      BY <2>1, <2>3, <1>1, <1>2, <1>7
    <2> QED
      BY <2>2, <2>3, <1>2
  <1>14. QueueBehind(f, td, r, g)
    <2> SUFFICES ASSUME Len(td) + Len(g) # 0, NEW i \in 1..Len(r)
                 PROVE  r[i] >= c + Len(td) + i
      BY DEF QueueBehind, c
    <2>1. CASE i = Len(q) + 1
      BY <2>1, <1>1, <1>2, <1>3, <1>11
    <2>2. CASE i \in 1..Len(q)
      BY <2>2, <1>1, <1>2, <1>3, <1>8
    <2> QED
      BY <2>1, <2>2, <1>1, <1>2
  <1>15. NothingMissing(f, td, r, g, d, n + 1)
    <2> SUFFICES ASSUME NEW m \in Nat, f < m, m <= n + 1
                 PROVE  \/ m \in d
                        \/ \E i \in 1..Len(g) : g[i] = m
                        \/ \E i \in 1..Len(td) : td[i] = m
                        \/ \E i \in 1..Len(r) : r[i] = m
      BY DEF NothingMissing
    <2>1. CASE m = n + 1
      BY <2>1, <1>2
    <2>2. CASE m <= n
      <3>1. \/ m \in d
            \/ \E i \in 1..Len(g) : g[i] = m
            \/ \E i \in 1..Len(td) : td[i] = m
            \/ \E i \in 1..Len(q) : q[i] = m
        BY <2>2 DEF Good, NothingMissing
      <3>2. \A i \in 1..Len(q) : i \in 1..Len(r) /\ r[i] = q[i]
        BY <1>1, <1>2
      <3> QED
        BY <3>1, <3>2
    <2> QED
      BY <2>1, <2>2, <1>1
  <1>16. Typed(f, td, r, g, d, n + 1)
    BY <1>1, <1>2 DEF Typed
  <1>17. Good(f, td, r, g, d, n + 1, next)
    BY <1>4, <1>5, <1>12, <1>13, <1>14, <1>15, <1>16 DEF Good
  <1> QED
    BY <1>17 DEF r

\* ... or is dropped.
LEMMA DropGood ==
    ASSUME NEW f, NEW td, NEW q, NEW g, NEW d, NEW n,
           NEW pc, NEW next, Good(f, td, q, g, d, n, pc), pc \notin Done
    PROVE  Good(f, td, q, g, d \cup {n + 1}, n + 1, next)
  <1>1. /\ f \in Nat /\ n \in Nat /\ d \subseteq 1..n
        /\ td \in Seq(Nat) /\ q \in Seq(Nat) /\ g \in Seq(Nat)
    BY DEF Good, Typed
  <1>2. SeenOf(f, g) \in Nat
    BY <1>1, SeenType
  <1>3. Typed(f, td, q, g, d \cup {n + 1}, n + 1)
    BY <1>1 DEF Typed
  <1>4. HistoryFollows(f, td, g, d \cup {n + 1}, n + 1)
    BY <1>1, <1>2 DEF Good, HistoryFollows
  <1>5. YieldedBelow(f, g, n + 1)
    BY <1>1, <1>2 DEF Good, YieldedBelow
  <1>6. QueueNew(q, d \cup {n + 1}, n + 1, next)
    BY <1>1 DEF Good, QueueNew
  <1>7. NothingMissing(f, td, q, g, d \cup {n + 1}, n + 1)
    <2> SUFFICES ASSUME NEW m \in Nat, f < m, m <= n + 1, m # n + 1
                 PROVE  \/ m \in d
                        \/ \E i \in 1..Len(g) : g[i] = m
                        \/ \E i \in 1..Len(td) : td[i] = m
                        \/ \E i \in 1..Len(q) : q[i] = m
      BY DEF NothingMissing
    <2>1. m <= n
      BY <1>1
    <2> QED
      BY <2>1 DEF Good, NothingMissing
  <1> QED
    BY <1>3, <1>4, <1>5, <1>6, <1>7 DEF Good

\* The sentinel enters the queue, or is dropped.
LEMMA SentinelGood ==
    ASSUME NEW f, NEW td, NEW q, NEW g, NEW d, NEW n,
           NEW pc, NEW next, Good(f, td, q, g, d, n, pc),
           pc \notin Done, next \in Done
    PROVE  /\ Good(f, td, Append(q, 0), g, d, n, next)
           /\ Good(f, td, q, g, d, n, next)
  <1> DEFINE r == Append(q, 0)
  <1>1. /\ f \in Nat /\ n \in Nat /\ d \subseteq 1..n
        /\ td \in Seq(Nat) /\ q \in Seq(Nat) /\ g \in Seq(Nat)
    BY DEF Good, Typed
  <1>2. /\ r \in Seq(Nat) /\ Len(r) = Len(q) + 1
        /\ \A i \in 1..Len(q) : r[i] = q[i]
        /\ r[Len(q) + 1] = 0
    BY <1>1, AppendProperties
  <1> HIDE DEF r
  <1>3. \A i \in 1..Len(r) : r[i] # 0 => i \in 1..Len(q) /\ r[i] = q[i]
    <2>1. Len(q) \in Nat
      BY <1>1
    <2>2. \A i \in 1..Len(r) : i = Len(q) + 1 \/ i \in 1..Len(q)
      BY <1>2, <2>1
    <2> QED
      BY <1>2, <2>2
  <1>4. \A i \in 1..Len(q) : i \in 1..Len(r) /\ r[i] = q[i]
    BY <1>1, <1>2
  <1>5. \A i \in 1..Len(q) : q[i] # 0
    BY DEF Good, QueueNew
  <1>6. QueueNew(r, d, n, next) /\ QueueNew(q, d, n, next)
    BY <1>3, <1>5 DEF Good, QueueNew
  <1>7. QueueRises(r)
    <2> SUFFICES ASSUME NEW i \in 1..Len(r), NEW j \in 1..Len(r), i < j, r[j] # 0
                 PROVE  r[i] # 0 /\ r[j] >= r[i] + (j - i)
      BY DEF QueueRises
    <2>1. j \in 1..Len(q) /\ r[j] = q[j] /\ q[j] # 0
      BY <1>3
    <2>2. i \in 1..Len(q)
      BY <2>1, <1>1
    <2>3. r[i] = q[i]
      BY <2>2, <1>2
    <2> QED
      BY <2>1, <2>2, <2>3 DEF Good, QueueRises
  <1>8. QueueBehind(f, td, r, g)
    BY <1>3 DEF Good, QueueBehind
  <1>9. NothingMissing(f, td, r, g, d, n)
    BY <1>4 DEF Good, NothingMissing
  <1>10. Typed(f, td, r, g, d, n)
    BY <1>1, <1>2 DEF Typed
  <1>11. Good(f, td, r, g, d, n, next) /\ Good(f, td, q, g, d, n, next)
    BY <1>6, <1>7, <1>8, <1>9, <1>10 DEF Good
  <1> QED
    BY <1>11 DEF r

LEMMA TailFacts ==
    ASSUME NEW q \in Seq(Nat), q # <<>>
    PROVE  /\ Len(q) \in Nat \ {0} /\ 1 \in 1..Len(q)
           /\ Head(q) = q[1] /\ Head(q) \in Nat
           /\ Tail(q) \in Seq(Nat) /\ Len(Tail(q)) = Len(q) - 1
           /\ \A i \in 1..Len(Tail(q)) : i + 1 \in 1..Len(q) /\ Tail(q)[i] = q[i + 1]
           /\ \A i \in 1..Len(q) : i = 1 \/ i - 1 \in 1..Len(Tail(q))
  <1>1. Len(q) \in Nat \ {0} /\ Head(q) = q[1]
    OBVIOUS
  <1>2. Tail(q) \in Seq(Nat) /\ Len(Tail(q)) = Len(q) - 1
    OBVIOUS
  <1>3. \A i \in 1..Len(Tail(q)) : i + 1 \in 1..Len(q) /\ Tail(q)[i] = q[i + 1]
    OBVIOUS
  <1>4. \A i \in 1..Len(q) : i = 1 \/ i - 1 \in 1..Len(Tail(q))
    BY <1>1, <1>2
  <1>5. 1 \in 1..Len(q) /\ q[1] \in Nat
    BY <1>1
  <1> QED
    BY <1>1, <1>2, <1>3, <1>4, <1>5

\* What is owed is in the history or in the queue.
LEMMA OwedIsHeld ==
    ASSUME NEW f, NEW td, NEW q, NEW g, NEW d, NEW n, NEW pc,
           Good(f, td, q, g, d, n, pc),
           NEW m \in OwedTo(f, g, d, n)
    PROVE  /\ m \in Nat /\ f < m /\ m <= n /\ m # 0
           /\ (\E i \in 1..Len(td) : td[i] = m) \/ (\E i \in 1..Len(q) : q[i] = m)
  <1>1. f \in Nat /\ n \in Nat /\ g \in Seq(Nat)
    BY DEF Good, Typed
  <1>2. m \in Nat /\ f < m /\ m <= n /\ m # 0 /\ m \notin d /\ m \notin ToSet(g)
    BY <1>1 DEF OwedTo
  <1>3. ~\E i \in 1..Len(g) : g[i] = m
    BY <1>2 DEF ToSet
  <1> QED
    BY <1>2, <1>3 DEF Good, NothingMissing

LEMMA IsOwed ==
    ASSUME NEW f, NEW td, NEW q, NEW g, NEW d, NEW n, NEW pc,
           Good(f, td, q, g, d, n, pc),
           NEW m \in Nat, SeenOf(f, g) < m, m <= n, m \notin d
    PROVE  m \in OwedTo(f, g, d, n)
  <1>1. f \in Nat /\ n \in Nat /\ g \in Seq(Nat)
    BY DEF Good, Typed
  <1>2. SeenOf(f, g) \in Nat /\ (Len(g) = 0 => SeenOf(f, g) = f)
    BY <1>1, SeenType
  <1>3. \A i \in 1..Len(g) : f < g[i] /\ g[i] <= SeenOf(f, g)
    BY DEF Good, YieldedBelow
  <1>4. f < m
    <2>1. CASE Len(g) = 0
      BY <2>1, <1>2
    <2>2. CASE Len(g) # 0
      <3>1. 1 \in 1..Len(g) /\ g[1] \in Nat
        BY <2>2, <1>1
      <3>2. f < g[1] /\ g[1] <= SeenOf(f, g)
        BY <3>1, <1>3
      <3> QED
        BY <3>1, <3>2, <1>1, <1>2
    <2> QED
      BY <2>1, <2>2
  <1>5. m \notin ToSet(g)
    <2> SUFFICES ASSUME NEW i \in 1..Len(g), g[i] = m PROVE FALSE
      BY DEF ToSet
    <2> QED
      BY <1>1, <1>2, <1>3
  <1> QED
    BY <1>1, <1>4, <1>5 DEF OwedTo

\* An event of the history is the next one that is owed.
LEMMA ReplayGood ==
    ASSUME NEW f, NEW td, NEW q, NEW g, NEW d, NEW n, NEW pc,
           Good(f, td, q, g, d, n, pc), td # <<>>
    PROVE  /\ Good(f, Tail(td), q, Append(g, Head(td)), d, n, pc)
           /\ Head(td) \in OwedTo(f, g, d, n)
           /\ \A m \in OwedTo(f, g, d, n) : Head(td) <= m
  <1> DEFINE c == SeenOf(f, g)
             e == Head(td)
             h == Append(g, e)
             u == Tail(td)
  <1>1. /\ f \in Nat /\ n \in Nat /\ d \subseteq 1..n
        /\ td \in Seq(Nat) /\ q \in Seq(Nat) /\ g \in Seq(Nat)
    BY DEF Good, Typed
  <1>2. c \in Nat
    BY <1>1, SeenType
  <1>3. /\ Len(td) \in Nat \ {0} /\ 1 \in 1..Len(td) /\ e = td[1] /\ e \in Nat
        /\ u \in Seq(Nat) /\ Len(u) = Len(td) - 1
        /\ \A i \in 1..Len(u) : i + 1 \in 1..Len(td) /\ u[i] = td[i + 1]
        /\ \A i \in 1..Len(td) : i = 1 \/ i - 1 \in 1..Len(u)
    BY <1>1, TailFacts
  <1>4. /\ SeenOf(f, h) = e /\ h \in Seq(Nat) /\ Len(h) = Len(g) + 1
        /\ \A i \in 1..Len(g) : h[i] = g[i]
        /\ h[Len(g) + 1] = e
    BY <1>1, <1>3, SeenAppend
  <1>5. \A i \in 1..Len(td) : td[i] = c + i /\ td[i] <= n /\ td[i] \notin d
    BY DEF Good, HistoryFollows
  <1>6. e = c + 1 /\ e <= n /\ e \notin d
    BY <1>3, <1>5
  <1>7. \A i \in 1..Len(q) : q[i] # 0 => q[i] >= c + Len(td) + i
    BY <1>1, <1>3 DEF Good, QueueBehind
  <1>8. e \in OwedTo(f, g, d, n)
    BY <1>1, <1>2, <1>3, <1>6, IsOwed
  <1>9. ASSUME NEW m \in OwedTo(f, g, d, n) PROVE e <= m
    <2>1. /\ m \in Nat /\ m # 0
          /\ (\E i \in 1..Len(td) : td[i] = m) \/ (\E i \in 1..Len(q) : q[i] = m)
      BY OwedIsHeld
    <2>2. CASE \E i \in 1..Len(td) : td[i] = m
      <3>1. PICK i \in 1..Len(td) : td[i] = m
        BY <2>2
      <3> QED
        BY <3>1, <1>2, <1>5, <1>6
    <2>3. CASE \E i \in 1..Len(q) : q[i] = m
      <3>1. PICK i \in 1..Len(q) : q[i] = m
        BY <2>3
      <3>2. m >= c + Len(td) + i
        BY <3>1, <2>1, <1>7
      <3> QED
        BY <3>2, <2>1, <1>1, <1>2, <1>3, <1>6, SMTT(30)
    <2> QED
      BY <2>1, <2>2, <2>3
  <1> HIDE DEF c, e, h, u
  <1>10. Typed(f, u, q, h, d, n)
    BY <1>1, <1>3, <1>4 DEF Typed
  <1>11. HistoryFollows(f, u, h, d, n)
    <2> SUFFICES ASSUME NEW i \in 1..Len(u)
                 PROVE  u[i] = e + i /\ u[i] <= n /\ u[i] \notin d
      BY <1>4 DEF HistoryFollows
    <2>1. i + 1 \in 1..Len(td) /\ u[i] = td[i + 1]
      BY <1>3
    <2>2. td[i + 1] = c + (i + 1) /\ td[i + 1] <= n /\ td[i + 1] \notin d
      BY <2>1, <1>5
    <2> QED
      BY <2>1, <2>2, <1>2, <1>6
  <1>12. YieldedBelow(f, h, n)
    <2>1. \A i \in 1..Len(g) : f < g[i] /\ g[i] <= c
      BY DEF Good, YieldedBelow, c
    <2>2. f < e
      BY <1>1, <1>8 DEF OwedTo
    <2>3. ASSUME NEW i \in 1..Len(h) PROVE f < h[i] /\ h[i] <= e
      <3>1. CASE i = Len(g) + 1
        BY <3>1, <1>3, <1>4, <2>2
      <3>2. CASE i \in 1..Len(g)
        <4>a. h[i] = g[i]
          BY <3>2, <1>4
        <4>b. g[i] \in Nat
          BY <3>2, <1>1
        <4>c. f < g[i] /\ g[i] <= c
          BY <3>2, <2>1
        <4> QED
          BY <4>a, <4>b, <4>c, <1>2, <1>6
      <3> QED
        BY <3>1, <3>2, <1>1, <1>4
    <2> QED
      BY <2>3, <1>4, <1>6 DEF YieldedBelow
  <1>13. QueueBehind(f, u, q, h)
    <2> SUFFICES ASSUME NEW i \in 1..Len(q), q[i] # 0
                 PROVE  q[i] >= e + Len(u) + i
      BY <1>4 DEF QueueBehind
    <2>1. q[i] >= c + Len(td) + i
      BY <1>7
    <2>2. e + Len(u) = c + Len(td)
      BY <1>2, <1>3, <1>6
    <2> QED
      BY <2>1, <2>2
  <1>14. NothingMissing(f, u, q, h, d, n)
    <2> SUFFICES ASSUME NEW m \in Nat, f < m, m <= n
                 PROVE  \/ m \in d
                        \/ \E i \in 1..Len(h) : h[i] = m
                        \/ \E i \in 1..Len(u) : u[i] = m
                        \/ \E i \in 1..Len(q) : q[i] = m
      BY DEF NothingMissing
    <2>1. \/ m \in d
          \/ \E i \in 1..Len(g) : g[i] = m
          \/ \E i \in 1..Len(td) : td[i] = m
          \/ \E i \in 1..Len(q) : q[i] = m
      BY DEF Good, NothingMissing
    <2>2. ASSUME NEW i \in 1..Len(g), g[i] = m PROVE \E j \in 1..Len(h) : h[j] = m
      <3>1. i \in 1..Len(h)
        BY <1>1, <1>4
      <3>2. h[i] = m
        BY <2>2, <1>4
      <3> QED
        BY <3>1, <3>2
    <2>3. ASSUME NEW i \in 1..Len(td), td[i] = m
          PROVE  (\E j \in 1..Len(h) : h[j] = m) \/ (\E j \in 1..Len(u) : u[j] = m)
      <3>1. CASE i = 1
        <4>1. Len(g) + 1 \in 1..Len(h) /\ h[Len(g) + 1] = m
          BY <2>3, <3>1, <1>1, <1>3, <1>4
        <4> QED
          BY <4>1
      <3>2. CASE i - 1 \in 1..Len(u)
        <4>1. u[i - 1] = td[(i - 1) + 1] /\ (i - 1) + 1 = i
          BY <3>2, <1>3
        <4> QED
          BY <4>1, <3>2, <2>3
      <3> QED
        BY <3>1, <3>2, <1>3
    <2> QED
      BY <2>1, <2>2, <2>3
  <1>15. Good(f, u, q, h, d, n, pc)
    BY <1>10, <1>11, <1>12, <1>13, <1>14 DEF Good
  <1> QED
    BY <1>8, <1>9, <1>15 DEF u, h, e

\* Once the history is through, an event of the queue that is new is the next
\* one that is owed.
LEMMA DeliverGood ==
    ASSUME NEW f, NEW q, NEW g, NEW d, NEW n, NEW pc,
           Good(f, <<>>, q, g, d, n, pc), q # <<>>, SeenOf(f, g) < Head(q)
    PROVE  /\ Good(f, <<>>, Tail(q), Append(g, Head(q)), d, n, pc)
           /\ Head(q) \in OwedTo(f, g, d, n)
           /\ \A m \in OwedTo(f, g, d, n) : Head(q) <= m
  <1> DEFINE c == SeenOf(f, g)
             e == Head(q)
             h == Append(g, e)
             u == Tail(q)
  <1>1. /\ f \in Nat /\ n \in Nat /\ d \subseteq 1..n
        /\ q \in Seq(Nat) /\ g \in Seq(Nat)
    BY DEF Good, Typed
  <1>2. c \in Nat
    BY <1>1, SeenType
  <1>3. /\ Len(q) \in Nat \ {0} /\ 1 \in 1..Len(q) /\ e = q[1] /\ e \in Nat
        /\ u \in Seq(Nat) /\ Len(u) = Len(q) - 1
        /\ \A i \in 1..Len(u) : i + 1 \in 1..Len(q) /\ u[i] = q[i + 1]
        /\ \A i \in 1..Len(q) : i = 1 \/ i - 1 \in 1..Len(u)
    BY <1>1, TailFacts
  <1>4. /\ SeenOf(f, h) = e /\ h \in Seq(Nat) /\ Len(h) = Len(g) + 1
        /\ \A i \in 1..Len(g) : h[i] = g[i]
        /\ h[Len(g) + 1] = e
    BY <1>1, <1>3, SeenAppend
  <1>5. e # 0
    BY <1>2, <1>3
  <1>6. e <= n /\ e \notin d
    BY <1>3, <1>5 DEF Good, QueueNew
  <1>7. ASSUME NEW i \in 1..Len(u), u[i] # 0
        PROVE  i + 1 \in 1..Len(q) /\ u[i] = q[i + 1] /\ q[i + 1] >= e + i
    <2>1. i + 1 \in 1..Len(q) /\ u[i] = q[i + 1] /\ 1 < i + 1 /\ (i + 1) - 1 = i
      BY <1>3
    <2>2. q[i + 1] >= q[1] + ((i + 1) - 1)
      BY <2>1, <1>3, <1>7 DEF Good, QueueRises
    <2> QED
      BY <2>1, <2>2, <1>3
  <1>8. e \in OwedTo(f, g, d, n)
    BY <1>1, <1>2, <1>3, <1>6, IsOwed
  <1>9. ASSUME NEW m \in OwedTo(f, g, d, n) PROVE e <= m
    <2>1. m \in Nat /\ m # 0 /\ \E i \in 1..Len(q) : q[i] = m
      BY OwedIsHeld
    <2>2. PICK i \in 1..Len(q) : q[i] = m
      BY <2>1
    <2>3. CASE i = 1
      BY <2>2, <2>3, <1>3, <2>1
    <2>4. CASE i - 1 \in 1..Len(u)
      <3>1. u[i - 1] = q[(i - 1) + 1] /\ (i - 1) + 1 = i
        BY <2>4, <1>3
      <3>2. m >= e + (i - 1) /\ i - 1 \in Nat
        BY <3>1, <2>1, <2>2, <2>4, <1>7
      <3> QED
        BY <3>2, <2>1, <1>3
    <2> QED
      BY <2>3, <2>4, <1>3
  <1> HIDE DEF c, e, h, u
  <1>10. Typed(f, <<>>, u, h, d, n)
    BY <1>1, <1>3, <1>4 DEF Typed
  <1>11. HistoryFollows(f, <<>>, h, d, n)
    BY DEF HistoryFollows
  <1>12. YieldedBelow(f, h, n)
    <2>1. \A i \in 1..Len(g) : f < g[i] /\ g[i] <= c
      BY DEF Good, YieldedBelow, c
    <2>2. f < e
      BY <1>1, <1>8 DEF OwedTo
    <2>a. c < e
      BY DEF c, e
    <2>3. ASSUME NEW i \in 1..Len(h) PROVE f < h[i] /\ h[i] <= e
      <3>1. CASE i = Len(g) + 1
        BY <3>1, <1>3, <1>4, <2>2
      <3>2. CASE i \in 1..Len(g)
        <4>a. h[i] = g[i]
          BY <3>2, <1>4
        <4>b. g[i] \in Nat
          BY <3>2, <1>1
        <4>c. f < g[i] /\ g[i] <= c
          BY <3>2, <2>1
        <4> QED
          BY <4>a, <4>b, <4>c, <1>2, <1>3, <2>a
      <3> QED
        BY <3>1, <3>2, <1>1, <1>4
    <2> QED
      BY <2>3, <1>4, <1>6 DEF YieldedBelow
  <1>13. QueueNew(u, d, n, pc)
    <2> SUFFICES ASSUME NEW i \in 1..Len(u)
                 PROVE  IF u[i] = 0 THEN pc \in Done
                        ELSE i <= u[i] /\ u[i] <= n /\ u[i] \notin d
      BY DEF QueueNew
    <2>0. i + 1 \in 1..Len(q) /\ u[i] = q[i + 1] /\ i \in Nat
      BY <1>3
    <2>1. q[i + 1] \in Nat
      BY <2>0, <1>1
    <2>2. IF q[i + 1] = 0 THEN pc \in Done
          ELSE i + 1 <= q[i + 1] /\ q[i + 1] <= n /\ q[i + 1] \notin d
      BY <2>0 DEF Good, QueueNew
    <2> QED
      BY <2>0, <2>1, <2>2, <1>1
  <1>14. QueueRises(u)
    <2> SUFFICES ASSUME NEW i \in 1..Len(u), NEW j \in 1..Len(u), i < j, u[j] # 0
                 PROVE  u[i] # 0 /\ u[j] >= u[i] + (j - i)
      BY DEF QueueRises
    <2>1. /\ i + 1 \in 1..Len(q) /\ u[i] = q[i + 1]
          /\ j + 1 \in 1..Len(q) /\ u[j] = q[j + 1]
          /\ i + 1 < j + 1 /\ (j + 1) - (i + 1) = j - i
      BY <1>3
    <2>2. q[i + 1] # 0 /\ q[j + 1] >= q[i + 1] + ((j + 1) - (i + 1))
      BY <2>1 DEF Good, QueueRises
    <2> QED
      BY <2>1, <2>2
  <1>15. QueueBehind(f, <<>>, u, h)
    <2> SUFFICES ASSUME NEW i \in 1..Len(u), u[i] # 0
                 PROVE  u[i] >= e + 0 + i
      BY <1>4 DEF QueueBehind
    <2>1. u[i] >= e + i
      BY <1>7
    <2> QED
      BY <2>1, <1>3
  <1>16. NothingMissing(f, <<>>, u, h, d, n)
    <2> SUFFICES ASSUME NEW m \in Nat, f < m, m <= n, m \notin d
                 PROVE  \/ \E i \in 1..Len(h) : h[i] = m
                        \/ \E i \in 1..Len(u) : u[i] = m
      BY DEF NothingMissing
    <2>1. \/ \E i \in 1..Len(g) : g[i] = m
          \/ \E i \in 1..Len(q) : q[i] = m
      BY DEF Good, NothingMissing
    <2>2. ASSUME NEW i \in 1..Len(g), g[i] = m PROVE \E j \in 1..Len(h) : h[j] = m
      <3>1. i \in 1..Len(h)
        BY <1>1, <1>4
      <3>2. h[i] = m
        BY <2>2, <1>4
      <3> QED
        BY <3>1, <3>2
    <2>3. ASSUME NEW i \in 1..Len(q), q[i] = m
          PROVE  (\E j \in 1..Len(h) : h[j] = m) \/ (\E j \in 1..Len(u) : u[j] = m)
      <3>1. CASE i = 1
        <4>1. Len(g) + 1 \in 1..Len(h) /\ h[Len(g) + 1] = m
          BY <2>3, <3>1, <1>1, <1>3, <1>4
        <4> QED
          BY <4>1
      <3>2. CASE i - 1 \in 1..Len(u)
        <4>1. u[i - 1] = q[(i - 1) + 1] /\ (i - 1) + 1 = i
          BY <3>2, <1>3
        <4> QED
          BY <4>1, <3>2, <2>3
      <3> QED
        BY <3>1, <3>2, <1>3
    <2> QED
      BY <2>1, <2>2, <2>3
  <1>17. Good(f, <<>>, u, h, d, n, pc)
    BY <1>10, <1>11, <1>12, <1>13, <1>14, <1>15, <1>16 DEF Good
  <1> QED
    BY <1>8, <1>9, <1>17 DEF u, h, e

\* An event that the client has is skipped: it was not asked for.
LEMMA SkipGood ==
    ASSUME NEW f, NEW q, NEW g, NEW d, NEW n, NEW pc,
           Good(f, <<>>, q, g, d, n, pc), q # <<>>,
           Head(q) # 0, Head(q) <= SeenOf(f, g)
    PROVE  Good(f, <<>>, Tail(q), g, d, n, pc)
  <1> DEFINE u == Tail(q)
  <1>1. /\ f \in Nat /\ n \in Nat /\ d \subseteq 1..n
        /\ q \in Seq(Nat) /\ g \in Seq(Nat)
    BY DEF Good, Typed
  <1>2. SeenOf(f, g) \in Nat
    BY <1>1, SeenType
  <1>3. /\ Len(q) \in Nat \ {0} /\ 1 \in 1..Len(q) /\ Head(q) = q[1] /\ q[1] \in Nat
        /\ u \in Seq(Nat) /\ Len(u) = Len(q) - 1
        /\ \A i \in 1..Len(u) : i + 1 \in 1..Len(q) /\ u[i] = q[i + 1]
        /\ \A i \in 1..Len(q) : i = 1 \/ i - 1 \in 1..Len(u)
    BY <1>1, TailFacts
  <1>4. Len(g) = 0
    <2> SUFFICES ASSUME Len(g) # 0 PROVE FALSE
      OBVIOUS
    <2>1. Len(<<>>) + Len(g) # 0
      BY <1>1
    <2>2. q[1] >= SeenOf(f, g) + Len(<<>>) + 1
      BY <2>1, <1>3 DEF Good, QueueBehind
    <2> QED
      BY <2>2, <1>2, <1>3
  <1>a. g = <<>>
    BY <1>1, <1>4
  <1>5. SeenOf(f, g) = f
    BY <1>1, <1>a, SeenType
  <1> HIDE DEF u
  <1>6. Typed(f, <<>>, u, g, d, n)
    BY <1>1, <1>3 DEF Typed
  <1>7. QueueNew(u, d, n, pc)
    <2> SUFFICES ASSUME NEW i \in 1..Len(u)
                 PROVE  IF u[i] = 0 THEN pc \in Done
                        ELSE i <= u[i] /\ u[i] <= n /\ u[i] \notin d
      BY DEF QueueNew
    <2>1. i + 1 \in 1..Len(q) /\ u[i] = q[i + 1] /\ i \in Nat
      BY <1>3
    <2>2. q[i + 1] \in Nat
      BY <2>1, <1>1
    <2>3. IF q[i + 1] = 0 THEN pc \in Done
          ELSE i + 1 <= q[i + 1] /\ q[i + 1] <= n /\ q[i + 1] \notin d
      BY <2>1 DEF Good, QueueNew
    <2> QED
      BY <2>1, <2>2, <2>3, <1>1
  <1>8. QueueRises(u)
    <2> SUFFICES ASSUME NEW i \in 1..Len(u), NEW j \in 1..Len(u), i < j, u[j] # 0
                 PROVE  u[i] # 0 /\ u[j] >= u[i] + (j - i)
      BY DEF QueueRises
    <2>1. /\ i + 1 \in 1..Len(q) /\ u[i] = q[i + 1]
          /\ j + 1 \in 1..Len(q) /\ u[j] = q[j + 1]
          /\ i + 1 < j + 1 /\ (j + 1) - (i + 1) = j - i
      BY <1>3
    <2>2. q[i + 1] # 0 /\ q[j + 1] >= q[i + 1] + ((j + 1) - (i + 1))
      BY <2>1 DEF Good, QueueRises
    <2> QED
      BY <2>1, <2>2
  <1>9. QueueBehind(f, <<>>, u, g)
    BY <1>4 DEF QueueBehind
  <1>10. NothingMissing(f, <<>>, u, g, d, n)
    <2> SUFFICES ASSUME NEW m \in Nat, f < m, m <= n, m \notin d
                 PROVE  \/ \E i \in 1..Len(g) : g[i] = m
                        \/ \E i \in 1..Len(u) : u[i] = m
      BY DEF NothingMissing
    <2>1. \/ \E i \in 1..Len(g) : g[i] = m
          \/ \E i \in 1..Len(q) : q[i] = m
      BY DEF Good, NothingMissing
    <2>2. ASSUME NEW i \in 1..Len(q), q[i] = m PROVE \E j \in 1..Len(u) : u[j] = m
      <3>1. i # 1
        BY <2>2, <1>1, <1>3, <1>5
      <3>2. i - 1 \in 1..Len(u)
        BY <3>1, <1>3
      <3>3. u[i - 1] = q[(i - 1) + 1] /\ (i - 1) + 1 = i
        BY <3>2, <1>3
      <3> QED
        BY <3>2, <3>3, <2>2
    <2> QED
      BY <2>1, <2>2
  <1>11. Good(f, <<>>, u, g, d, n, pc)
    BY <1>6, <1>7, <1>8, <1>9, <1>10 DEF Good
  <1> QED
    BY <1>11 DEF u

\* With nothing but sentinels in the queue nothing is owed.
LEMMA NothingOwed ==
    ASSUME NEW f, NEW q, NEW g, NEW d, NEW n, NEW pc,
           Good(f, <<>>, q, g, d, n, pc), q = <<>> \/ Head(q) = 0
    PROVE  OwedTo(f, g, d, n) = {}
  <1> SUFFICES ASSUME NEW m \in OwedTo(f, g, d, n) PROVE FALSE
    OBVIOUS
  <1>1. q \in Seq(Nat)
    BY DEF Good, Typed
  <1>2. m # 0 /\ \E i \in 1..Len(q) : q[i] = m
    BY OwedIsHeld
  <1>3. PICK i \in 1..Len(q) : q[i] = m
    BY <1>2
  <1>4. q # <<>> /\ Head(q) = q[1] /\ q[1] = 0 /\ 1 \in 1..Len(q)
    BY <1>1, <1>3
  <1>5. 1 < i
    BY <1>1, <1>2, <1>3, <1>4
  <1> QED
    BY <1>2, <1>3, <1>4, <1>5 DEF Good, QueueRises

\* A client with a full queue is that many events behind.
LEMMA FullIsBehind ==
    ASSUME NEW f, NEW td, NEW q, NEW g, NEW d, NEW n,
           NEW pc, Good(f, td, q, g, d, n, pc), pc \notin Done, Len(q) # 0
    PROVE  n >= (IF g = <<>> THEN 0 ELSE Last(g)) + Len(q)
  <1>1. /\ f \in Nat /\ n \in Nat
        /\ td \in Seq(Nat) /\ q \in Seq(Nat) /\ g \in Seq(Nat)
    BY DEF Good, Typed
  <1>2. Len(q) \in 1..Len(q) /\ q[Len(q)] \in Nat
    BY <1>1
  <1>3. q[Len(q)] # 0 /\ Len(q) <= q[Len(q)] /\ q[Len(q)] <= n
    BY <1>2 DEF Good, QueueNew
  <1>4. CASE g = <<>>
    BY <1>1, <1>2, <1>3, <1>4
  <1>5. CASE g # <<>>
    <2>1. SeenOf(f, g) = Last(g) /\ SeenOf(f, g) \in Nat
      BY <1>1, <1>5, SeenType DEF SeenOf
    <2>2. Len(td) + Len(g) # 0
      BY <1>1, <1>5
    <2>3. q[Len(q)] >= SeenOf(f, g) + Len(td) + Len(q)
      BY <2>2, <1>2, <1>3 DEF Good, QueueBehind
    <2> QED
      BY <2>1, <2>3, <1>1, <1>2, <1>3, <1>5
  <1> QED
    BY <1>4, <1>5

\* The task moves on.
LEMMA MoveGood ==
    ASSUME NEW f, NEW td, NEW q, NEW g, NEW d, NEW n, NEW pc, NEW next,
           Good(f, td, q, g, d, n, pc), pc \in Done => next \in Done
    PROVE  Good(f, td, q, g, d, n, next)
  <1>1. QueueNew(q, d, n, next)
    BY DEF Good, QueueNew
  <1> QED
    BY <1>1 DEF Good
=============================================================================
