----------------------------- MODULE ActionContract -----------------------------
(***************************************************************************)
(* What governance promises about one action, whatever happens to the      *)
(* processes that drive it: it is offered in an open chat session, it is   *)
(* either withdrawn before it starts or started, its tool is called at     *)
(* most once, and once started it keeps its session open until it has an   *)
(* outcome nobody has to look at again.                                    *)
(***************************************************************************)
CONSTANTS
    Actions, Callers, Chats, ChatOf,
    Followups  \* Followups[o]: outcomes that may replace the unresolved o

VARIABLES
    phase,    \* where each action stands
    outcome,  \* the recorded outcome of a settled action, else "none"
    callers,  \* who called the tool for the action
    open      \* the chat sessions that exist

contractVars == <<phase, outcome, callers, open>>

Unresolved == {"partially_failed", "outcome_unknown"}
FirstOutcomes == Unresolved \cup {"succeeded", "failed", "recovered", "recovery_blocked"}

Init ==
    /\ phase = [a \in Actions |-> "absent"]
    /\ outcome = [a \in Actions |-> "none"]
    /\ callers = [a \in Actions |-> {}]
    /\ open = Chats

Offer(a) ==
    /\ phase[a] = "absent"
    /\ ChatOf[a] \in open
    /\ phase' = [phase EXCEPT ![a] = "offered"]
    /\ UNCHANGED <<outcome, callers, open>>

\* One request may withdraw several actions of a session.
Withdraw(some) ==
    /\ some # {}
    /\ \A a \in some : phase[a] = "offered"
    /\ phase' = [a \in Actions |-> IF a \in some THEN "withdrawn" ELSE phase[a]]
    /\ UNCHANGED <<outcome, callers, open>>

Start(a) ==
    /\ phase[a] = "offered"
    /\ phase' = [phase EXCEPT ![a] = "started"]
    /\ UNCHANGED <<outcome, callers, open>>

Call(a, c) ==
    /\ phase[a] \in {"started", "settled"}
    /\ callers[a] = {}
    /\ callers' = [callers EXCEPT ![a] = {c}]
    /\ UNCHANGED <<phase, outcome, open>>

Settle(a, o) ==
    /\ phase[a] = "started"
    /\ phase' = [phase EXCEPT ![a] = "settled"]
    /\ outcome' = [outcome EXCEPT ![a] = o]
    /\ UNCHANGED <<callers, open>>

Resolve(a, o) ==
    /\ outcome[a] \in Unresolved
    /\ o \in Followups[outcome[a]]
    /\ outcome' = [outcome EXCEPT ![a] = o]
    /\ UNCHANGED <<phase, callers, open>>

Close(chat) ==
    LET own == {a \in Actions : ChatOf[a] = chat} IN
    /\ chat \in open
    /\ \A a \in own :
        /\ phase[a] # "started"
        /\ outcome[a] \notin Unresolved \cup {"recovery_blocked"}
    /\ open' = open \ {chat}
    /\ phase' = [a \in Actions |->
            IF a \in own /\ phase[a] = "offered" THEN "withdrawn" ELSE phase[a]]
    /\ UNCHANGED <<outcome, callers>>

Next ==
    \/ \E a \in Actions :
        \/ Offer(a)
        \/ Start(a)
        \/ \E c \in Callers : Call(a, c)
        \/ \E o \in FirstOutcomes : Settle(a, o) \/ Resolve(a, o)
    \/ \E some \in SUBSET Actions : Withdraw(some)
    \/ \E chat \in Chats : Close(chat)

Spec == Init /\ [][Next]_contractVars
=============================================================================
