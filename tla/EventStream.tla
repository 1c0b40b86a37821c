----------------------------- MODULE EventStream -----------------------------
(***************************************************************************)
(* What a run promises to those who watch it: its events are numbered from *)
(* one; a reader asks for those after some number and gets each of them    *)
(* once, in order, until the run has ended and nothing is owed to him.     *)
(* Only a reader who is Limit events behind may lose one.                  *)
(***************************************************************************)
EXTENDS Naturals, Sequences, FiniteSets, SequencesExt

CONSTANTS Runs, Readers, Limit, NoRun, Positions

VARIABLES
    length,  \* events published by each run
    closed,  \* the run publishes no more
    reader   \* what each reader asked for, has got, and has lost

vars == <<length, closed, reader>>

Init ==
    /\ length = [s \in Runs |-> 0]
    /\ closed = [s \in Runs |-> FALSE]
    /\ reader = [r \in Readers |-> [state |-> "out", of |-> NoRun, from |-> 0,
                                    got |-> <<>>, lost |-> {}]]

\* What reader r is still to get when its run has published n events.
Owed(r, n) == ((reader[r].from + 1)..n) \ (reader[r].lost \cup ToSet(reader[r].got))

Watches(r, s) == reader[r].state = "in" /\ reader[r].of = s

\* Limit events have been published since the last one that r got.
IsBehind(r, n) ==
    LET last == IF reader[r].got = <<>> THEN 0 ELSE Last(reader[r].got)
    IN  n >= last + Limit

Behind(s) == {r \in Readers : Watches(r, s) /\ IsBehind(r, length[s])}

Publish(s) ==
    /\ ~closed[s]
    /\ length' = [length EXCEPT ![s] = @ + 1]
    /\ \E last \in BOOLEAN : closed' = [closed EXCEPT ![s] = last]
    /\ \E losers \in SUBSET Behind(s) :
          reader' = [r \in Readers |->
              IF r \in losers THEN [reader[r] EXCEPT !.lost = @ \cup {length'[s]}]
              ELSE reader[r]]

Close(s) ==
    /\ ~closed[s]
    /\ closed' = [closed EXCEPT ![s] = TRUE]
    /\ UNCHANGED <<length, reader>>

Join(r, s, k) ==
    /\ reader[r].state = "out"
    /\ reader' = [reader EXCEPT ![r].state = "in", ![r].of = s, ![r].from = k]
    /\ UNCHANGED <<length, closed>>

Deliver(r) ==
    /\ reader[r].state = "in"
    /\ LET owed == Owed(r, length[reader[r].of])
       IN  \E n \in owed :
              /\ \A m \in owed : n <= m
              /\ reader' = [reader EXCEPT ![r].got = Append(@, n)]
    /\ UNCHANGED <<length, closed>>

\* The last event may come with the end of the stream.
Ends(r) ==
    /\ reader[r].state = "in"
    /\ closed[reader[r].of]
    /\ LET owed == Owed(r, length[reader[r].of])
       IN  \/ owed = {} /\ reader' = [reader EXCEPT ![r].state = "over"]
           \/ \E n \in owed :
                 /\ owed = {n}
                 /\ reader' = [reader EXCEPT ![r].state = "over",
                                             ![r].got = Append(@, n)]
    /\ UNCHANGED <<length, closed>>

Leave(r) ==
    /\ reader[r].state = "in"
    /\ reader' = [reader EXCEPT ![r].state = "left"]
    /\ UNCHANGED <<length, closed>>

Next ==
    \/ \E s \in Runs : Publish(s) \/ Close(s)
    \/ \E r \in Readers : Deliver(r) \/ Ends(r) \/ Leave(r)
    \/ \E r \in Readers, s \in Runs : \E k \in Positions : Join(r, s, k)

Spec == Init /\ [][Next]_vars
=============================================================================
