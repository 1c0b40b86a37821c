------------------------- MODULE SandboxRenewalProofs -------------------------
(***************************************************************************)
(* Theorems about SandboxRenewal, for any requests, browsers, processes    *)
(* and bounds.                                                             *)
(***************************************************************************)
EXTENDS SandboxRenewal, FiniteSetTheorems, TLAPS

Places == Renewing \cup {"idle", "call", "done"}

RequestRow == [pc : Places, stage : {"align", "send"},
               cookie : Browsers \X Nat, seen : Nat, recovered : BOOLEAN,
               token : Nat, kept : Nat, forced : BOOLEAN, base : Nat,
               attempt : Nat, relaunched : BOOLEAN, opens : Nat, boots : Nat]

\* What the arguments need of the types.
Typed ==
    /\ row \in [Browsers -> [cookie : Browsers \X Nat, generation : Nat]]
    /\ binding \in Nat
    /\ session \in {"there", "deleting", "gone"}
    /\ request \in [Requests -> RequestRow]
    /\ user \in [access : Nat, refresh : Nat]
    /\ pairs \in Nat
    /\ issued \in [Browsers -> Nat]

\* A browser has cookies of its own, and none the sandbox has still to create.
Genuine(b, c) == c[1] = b /\ c[2] <= issued[b]
CookiesExist ==
    /\ \A b \in Browsers : Genuine(b, row[b].cookie)
    /\ \A r \in Requests : Genuine(Of[r], request[r].cookie)

\* The row of a browser is renewed by one request at a time.
OneRenewer ==
    \A r, q \in Requests : HoldsRow(r) /\ HoldsRow(q) /\ Of[r] = Of[q] => r = q

\* A proxied request holds a credential that is not newer than the row.
HoldsCredential(r) ==
    LET mine == row[Of[r]] IN
    r \notin Opens /\ request[r].pc \notin {"idle", "done"} =>
        /\ request[r].seen > 0
        /\ request[r].pc \in Renewing \ {"commit"} => request[r].cookie \notin live
        /\ ~gone =>
              /\ request[r].seen <= mine.generation
              /\ request[r].seen = mine.generation /\ request[r].pc # "commit"
                     => request[r].cookie = mine.cookie

\* The one that renews the row was refused with what the row still holds.
RenewsWhatFailed(r) ==
    LET mine == row[Of[r]] IN
    HoldsRow(r) =>
        /\ ~gone
        /\ request[r].seen = mine.generation
        /\ request[r].base >= mine.generation
        /\ mine.cookie \notin live

\* A browser has no row before its /open is over, which has the session meanwhile.
OpensOnce(r) ==
    /\ r \in Opens /\ request[r].pc \notin {"idle", "done"} /\ ~gone
          => row[Of[r]].generation = 0
    /\ r \in Opens => request[r].pc \notin {"call", "wait", "rowwait"}
    /\ r \notin Opens => request[r].pc \notin {"flush", "session", "bind"}
    /\ HoldsSession(r) => session = "there"

IInv ==
    /\ Typed /\ CookiesExist /\ OneRenewer
    /\ \A r \in Requests : HoldsCredential(r) /\ RenewsWhatFailed(r) /\ OpensOnce(r)

-----------------------------------------------------------------------------
\* What is asked of each request.
Sound(r) == HoldsCredential(r) /\ RenewsWhatFailed(r) /\ OpensOnce(r)

LEMMA InitInv == Init => IInv
  <1> SUFFICES ASSUME Init PROVE IInv
    OBVIOUS
  <1> USE SandboxAssumption
  <1>1. PICK opened \in SUBSET Browsers :
           /\ binding = Cardinality(opened)
           /\ \E order \in [opened -> 1..Cardinality(opened)] :
                 row = [b \in Browsers |->
                          [cookie |-> Cookie(b, 0),
                           generation |-> IF b \in opened THEN order[b] ELSE 0]]
           /\ opened = Browsers \ {Of[r] : r \in Opens}
    BY DEF Init
  <1>0. /\ request = [r \in Requests |-> Blank(Of[r], "idle")]
        /\ session = "there" /\ issued = [b \in Browsers |-> 0]
        /\ user = [access |-> 1, refresh |-> 1] /\ pairs = 1
    BY DEF Init
  <1>2. \A r \in Requests : request[r] = Blank(Of[r], "idle") /\ Of[r] \in Browsers
    BY <1>0
  <1>3. Typed
    <2>1. binding \in Nat
      BY <1>1, FS_Subset, FS_CardinalityType
    <2>2. row \in [Browsers -> [cookie : Browsers \X Nat, generation : Nat]]
      <3>1. PICK order \in [opened -> 1..Cardinality(opened)] :
               row = [b \in Browsers |->
                        [cookie |-> Cookie(b, 0),
                         generation |-> IF b \in opened THEN order[b] ELSE 0]]
        BY <1>1
      <3>2. \A b \in Browsers : (IF b \in opened THEN order[b] ELSE 0) \in Nat
        BY <2>1
      <3> QED
        BY <3>1, <3>2 DEF Cookie
    <2>3. \A b \in Browsers, pc \in Places : Blank(b, pc) \in RequestRow
      BY DEF Blank, Cookie, RequestRow
    <2>4. request \in [Requests -> RequestRow]
      BY <1>0, <1>2, <2>3 DEF Places
    <2> QED
      BY <1>0, <2>1, <2>2, <2>4 DEF Typed
  <1>4. CookiesExist /\ OneRenewer /\ \A r \in Requests : Sound(r)
    BY <1>0, <1>1, <1>2 DEF CookiesExist, Genuine, OneRenewer, Sound, HoldsCredential, HoldsRow,
       HoldsProcess, RenewsWhatFailed, OpensOnce, Blank, Cookie, Renewing, gone, HoldsSession
  <1> QED
    BY <1>3, <1>4 DEF IInv, Sound

\* A step of one request that leaves the rows and the sandbox alone.
LEMMA LocalStep ==
    ASSUME IInv, NEW r \in Requests,
           \A q \in Requests : q # r => request'[q] = request[q],
           UNCHANGED <<row, session, issued, live>>,
           Genuine(Of[r], request'[r].cookie),
           HoldsRow(r)' => HoldsRow(r) \/ RowFree(r),
           Sound(r)'
    PROVE  CookiesExist' /\ OneRenewer' /\ \A q \in Requests : Sound(q)'
  <1>1. CookiesExist'
    BY DEF CookiesExist, Genuine, IInv
  <1>2. \A q \in Requests : q # r => HoldsRow(q)' = HoldsRow(q)
    BY DEF HoldsRow, HoldsProcess
  <1>3. OneRenewer'
    BY <1>2 DEF OneRenewer, IInv, RowFree
  <1>4. \A q \in Requests : q # r => Sound(q)'
    BY <1>2 DEF Sound, IInv, HoldsCredential, RenewsWhatFailed, OpensOnce, gone, HoldsSession
  <1> QED
    BY <1>1, <1>3, <1>4

\* A request that ends does no harm.
LEMMA FinishStep ==
    ASSUME IInv, NEW r \in Requests, Finish(r), UNCHANGED <<row, session, issued, live>>
    PROVE  CookiesExist' /\ OneRenewer' /\ \A q \in Requests : Sound(q)'
  <1> USE SandboxAssumption
  <1>1. /\ request'[r] = Finished(r)
        /\ \A q \in Requests : q # r => request'[q] = request[q]
    BY DEF Finish, IInv, Typed
  <1>2. request'[r].pc = "done" /\ request'[r].cookie = Cookie(Of[r], 0)
    BY <1>1 DEF Finished, Blank
  <1>3. Genuine(Of[r], request'[r].cookie)
    BY <1>2 DEF Genuine, Cookie, IInv, Typed
  <1>4. ~HoldsRow(r)'
    BY <1>2 DEF HoldsRow, HoldsProcess, Renewing
  <1>5. Sound(r)'
    BY <1>2, <1>4 DEF Sound, HoldsCredential, RenewsWhatFailed, OpensOnce, gone, HoldsSession
  <1> QED
    BY <1>1, <1>3, <1>4, <1>5, LocalStep

-----------------------------------------------------------------------------
\* What a failed bootstrap that is followed by another one leaves of a request.
Failed(r, q, x) ==
    /\ x.cookie = q.cookie /\ x.seen = q.seen /\ x.recovered = q.recovered
    /\ x.token = q.token /\ x.kept = q.kept /\ x.forced = q.forced /\ x.base = q.base
    /\ x.opens = q.opens /\ x.boots = q.boots + 1
    /\ \/ /\ r \notin Opens /\ q.attempt = 0
          /\ x.pc = "open" /\ x.attempt = 1 /\ x.relaunched = q.relaunched
       \/ /\ r \in Opens /\ ~q.relaunched
          /\ x.pc = "open" /\ x.attempt = q.attempt /\ x.relaunched = TRUE
       \/ /\ r \in Opens /\ q.attempt < BootRetries
          /\ x.pc = q.pc /\ x.attempt = q.attempt + 1 /\ x.relaunched = q.relaunched

LEMMA FailedRow ==
    ASSUME request \in [Requests -> RequestRow], NEW r \in Requests, FailedBootstrap(r)
    PROVE  \E x \in RequestRow :
               request' = [request EXCEPT ![r] = x] /\ Failed(r, request[r], x)
  <1> DEFINE q == request[r]
             f == [q EXCEPT !.boots = q.boots + 1]
  <1>0. q \in RequestRow /\ "open" \in Places
    BY DEF Places, Renewing
  <1> HIDE DEF q
  <1>1. /\ f \in RequestRow /\ q.attempt \in Nat
        /\ f.cookie = q.cookie /\ f.seen = q.seen /\ f.recovered = q.recovered
        /\ f.token = q.token /\ f.kept = q.kept /\ f.forced = q.forced /\ f.base = q.base
        /\ f.opens = q.opens /\ f.boots = q.boots + 1 /\ f.pc = q.pc
        /\ f.attempt = q.attempt /\ f.relaunched = q.relaunched
    BY <1>0 DEF RequestRow
  <1> HIDE DEF f
  <1>2. \/ /\ r \notin Opens /\ f.attempt = 0
           /\ request' = [request EXCEPT ![r] = [f EXCEPT !.pc = "open", !.attempt = 1]]
        \/ /\ r \in Opens /\ ~f.relaunched
           /\ request' = [request EXCEPT ![r] = [f EXCEPT !.pc = "open", !.relaunched = TRUE]]
        \/ /\ r \in Opens /\ f.attempt < BootRetries
           /\ request' = [request EXCEPT ![r] = [f EXCEPT !.attempt = f.attempt + 1]]
    BY DEF FailedBootstrap, f, q
  <1>3. /\ [f EXCEPT !.pc = "open", !.attempt = 1] \in RequestRow
        /\ [f EXCEPT !.pc = "open", !.relaunched = TRUE] \in RequestRow
        /\ [f EXCEPT !.attempt = f.attempt + 1] \in RequestRow
    <2>1. f.attempt + 1 \in Nat /\ 1 \in Nat
      BY <1>1
    <2>2. \A n \in Nat : [f EXCEPT !.attempt = n] \in RequestRow
      BY <1>1 DEF RequestRow
    <2>3. /\ [f EXCEPT !.pc = "open", !.relaunched = TRUE] \in RequestRow
          /\ \A n \in Nat : [f EXCEPT !.pc = "open", !.attempt = n] \in RequestRow
      BY <1>0, <1>1 DEF RequestRow
    <2> QED
      BY <2>1, <2>2, <2>3
  <1>4. CASE /\ r \notin Opens /\ f.attempt = 0
             /\ request' = [request EXCEPT ![r] = [f EXCEPT !.pc = "open", !.attempt = 1]]
    <2>1. Failed(r, q, [f EXCEPT !.pc = "open", !.attempt = 1])
      BY <1>1, <1>4 DEF Failed, RequestRow
    <2> QED
      BY <1>3, <1>4, <2>1 DEF q
  <1>5. CASE /\ r \in Opens /\ ~f.relaunched
             /\ request' = [request EXCEPT ![r] = [f EXCEPT !.pc = "open", !.relaunched = TRUE]]
    <2>1. Failed(r, q, [f EXCEPT !.pc = "open", !.relaunched = TRUE])
      BY <1>1, <1>5 DEF Failed, RequestRow
    <2> QED
      BY <1>3, <1>5, <2>1 DEF q
  <1>6. CASE /\ r \in Opens /\ f.attempt < BootRetries
             /\ request' = [request EXCEPT ![r] = [f EXCEPT !.attempt = f.attempt + 1]]
    <2>1. Failed(r, q, [f EXCEPT !.attempt = f.attempt + 1])
      BY <1>1, <1>6 DEF Failed, RequestRow
    <2> QED
      BY <1>3, <1>6, <2>1 DEF q
  <1> QED
    BY <1>2, <1>4, <1>5, <1>6 DEF q

\* The record of a request keeps its type,
LEMMA RequestTyped ==
    ASSUME Typed, NEW r \in Requests,
           Authorize(r) \/ Answered(r) \/ Refused(r) \/ Open(r) \/ Renew(r)
    PROVE  request' \in [Requests -> RequestRow]
  <1> USE SandboxAssumption
  <1> DEFINE Becomes(x) == request' = [request EXCEPT ![r] = x]
  <1> SUFFICES \E x \in RequestRow : Becomes(x)
    BY DEF Typed
  <1>1. /\ request \in [Requests -> RequestRow] /\ request[r] \in RequestRow
        /\ row[Of[r]].cookie \in Browsers \X Nat /\ row[Of[r]].generation \in Nat
        /\ binding \in Nat /\ user.access \in Nat /\ user.refresh \in Nat /\ pairs \in Nat
        /\ Cookie(Of[r], issued[Of[r]] + 1) \in Browsers \X Nat
    BY DEF Typed, Cookie
  <1>2. Finished(r) \in RequestRow
    BY DEF Finished, Blank, Cookie, RequestRow, Places
  <1>3. Finish(r) => Becomes(Finished(r))
    BY DEF Finish
  <1> HIDE DEF Becomes
  <1>4. ASSUME NEW pc \in Places, To(r, pc) PROVE Becomes([request[r] EXCEPT !.pc = pc])
    BY <1>4 DEF To, Becomes
  <1>5. \A pc \in Places : [request[r] EXCEPT !.pc = pc] \in RequestRow
    BY <1>1 DEF RequestRow
  <1>6. ASSUME NEW c \in Browsers \X Nat, NEW g \in Nat, Resume(r, c, g)
        PROVE  \E x \in RequestRow : Becomes(x)
    <2> DEFINE x == [request[r] EXCEPT !.pc = "call", !.cookie = c, !.seen = g,
                                       !.token = 0, !.base = 0, !.forced = FALSE]
    <2>1. x \in RequestRow
      BY <1>1 DEF RequestRow, Places
    <2>2. Becomes(x)
      BY <1>6 DEF Resume, Becomes
    <2> QED
      BY <2>1, <2>2
  <1>7. CASE Authorize(r)
    <2>1. PICK stage \in {"align", "send"} :
             Becomes([request[r] EXCEPT !.pc = "call", !.stage = stage,
                                        !.cookie = row[Of[r]].cookie,
                                        !.seen = row[Of[r]].generation])
      BY <1>7 DEF Authorize, Becomes
    <2>2. [request[r] EXCEPT !.pc = "call", !.stage = stage, !.cookie = row[Of[r]].cookie,
                             !.seen = row[Of[r]].generation] \in RequestRow
      BY <1>1 DEF RequestRow, Places
    <2> QED
      BY <2>1, <2>2
  <1>8. CASE Answered(r)
    <2>1. Becomes([request[r] EXCEPT !.stage = "send"]) \/ Finish(r)
      BY <1>8 DEF Answered, Becomes
    <2>2. [request[r] EXCEPT !.stage = "send"] \in RequestRow
      BY <1>1 DEF RequestRow
    <2> QED
      BY <1>2, <1>3, <2>1, <2>2
  <1>9. CASE Refused(r)
    <2>1. Becomes([request[r] EXCEPT !.pc = "wait", !.recovered = TRUE]) \/ Finish(r)
      BY <1>9 DEF Refused, Becomes
    <2>2. [request[r] EXCEPT !.pc = "wait", !.recovered = TRUE] \in RequestRow
      BY <1>1 DEF RequestRow, Places, Renewing
    <2> QED
      BY <1>2, <1>3, <2>1, <2>2
  <1>10. CASE Open(r)
    <2>1. PICK pc \in {"token", "session"}, kept \in Nat :
             Becomes([request[r] EXCEPT !.pc = pc, !.token = user.access, !.kept = kept])
      BY <1>1, <1>10 DEF Open, Becomes
    <2>2. [request[r] EXCEPT !.pc = pc, !.token = user.access, !.kept = kept] \in RequestRow
      BY <1>1 DEF RequestRow, Places, Renewing
    <2> QED
      BY <2>1, <2>2
  <1>11. CASE EnterProcess(r)
    BY <1>4, <1>5, <1>11 DEF EnterProcess, Places, Renewing
  <1>12. CASE LockRow(r)
    <2>1. \/ Finish(r)
          \/ Resume(r, row[Of[r]].cookie, row[Of[r]].generation)
          \/ Becomes([request[r] EXCEPT !.pc = "token", !.base = NextBase(r)])
      BY <1>12 DEF LockRow, Becomes
    <2>2. [request[r] EXCEPT !.pc = "token", !.base = NextBase(r)] \in RequestRow
      BY <1>1 DEF RequestRow, Places, Renewing, NextBase
    <2> QED
      BY <1>1, <1>2, <1>3, <1>6, <2>1, <2>2
  <1>13. CASE AskToken(r)
    <2>1. PICK pc \in {"open", "flush", "refresh"} :
             Becomes([request[r] EXCEPT !.pc = pc, !.token = user.access])
      BY <1>13 DEF AskToken, WithToken, Becomes
    <2>2. [request[r] EXCEPT !.pc = pc, !.token = user.access] \in RequestRow
      BY <1>1 DEF RequestRow, Places, Renewing
    <2> QED
      BY <2>1, <2>2
  <1>14. CASE Refresh(r)
    <2>1. Becomes([request[r] EXCEPT !.pc = "store", !.token = pairs + 1]) \/ Finish(r)
      BY <1>14 DEF Refresh, Becomes
    <2>2. pairs + 1 \in Nat
      BY <1>1
    <2>3. \A n \in Nat : [request[r] EXCEPT !.pc = "store", !.token = n] \in RequestRow
      BY <1>1 DEF RequestRow, Places, Renewing
    <2> QED
      BY <1>2, <1>3, <2>1, <2>2, <2>3
  <1>15. CASE Store(r)
    BY <1>2, <1>3, <1>4, <1>5, <1>15 DEF Store, WithToken, Places, Renewing
  <1>16. CASE OpenWorkspace(r)
    <2> DEFINE n == request[r].opens + 1
    <2>1. \/ Becomes([request[r] EXCEPT !.pc = "boot", !.opens = n])
          \/ Becomes([request[r] EXCEPT !.pc = "token", !.opens = n, !.forced = TRUE])
          \/ Finish(r)
      BY <1>16 DEF OpenWorkspace, Becomes
    <2>2. n \in Nat
      BY <1>1 DEF RequestRow
    <2> HIDE DEF n
    <2>3. /\ [request[r] EXCEPT !.pc = "boot", !.opens = n] \in RequestRow
          /\ [request[r] EXCEPT !.pc = "token", !.opens = n, !.forced = TRUE] \in RequestRow
      BY <1>1, <2>2 DEF RequestRow, Places, Renewing
    <2> QED
      BY <1>2, <1>3, <2>1, <2>3
  <1>17. CASE Bootstrap(r)
    <2> DEFINE c == Cookie(Of[r], issued[Of[r]] + 1)
               n == request[r].boots + 1
               pc == IF r \in Opens THEN "bind" ELSE "commit"
    <2>1. \/ Becomes([request[r] EXCEPT !.pc = pc, !.cookie = c, !.boots = n])
          \/ FailedBootstrap(r)
          \/ Finish(r)
      BY <1>17 DEF Bootstrap, Becomes
    <2>2. n \in Nat /\ c \in Browsers \X Nat /\ pc \in Places
      BY <1>1 DEF RequestRow, Places, Renewing
    <2> HIDE DEF n, c, pc
    <2>3. [request[r] EXCEPT !.pc = pc, !.cookie = c, !.boots = n] \in RequestRow
      BY <1>1, <2>2 DEF RequestRow
    <2>4. CASE FailedBootstrap(r)
      BY <1>1, <2>4, FailedRow DEF Becomes
    <2> QED
      BY <1>2, <1>3, <2>1, <2>3, <2>4
  <1>18. CASE Commit(r)
    BY <1>1, <1>2, <1>3, <1>6, <1>18 DEF Commit, RequestRow
  <1>19. CASE ReadBinding(r)
    <2>1. Becomes([request[r] EXCEPT !.pc = "commit", !.base = binding])
      BY <1>19 DEF ReadBinding, Becomes
    <2>2. [request[r] EXCEPT !.pc = "commit", !.base = binding] \in RequestRow
      BY <1>1 DEF RequestRow, Places, Renewing
    <2> QED
      BY <2>1, <2>2
  <1>20. CASE CommitOpen(r)
    BY <1>2, <1>3, <1>20 DEF CommitOpen
  <1>21. CASE Flush(r)
    BY <1>4, <1>5, <1>21 DEF Flush, Places, Renewing
  <1>22. CASE LockSession(r)
    BY <1>2, <1>3, <1>4, <1>5, <1>22 DEF LockSession, Places, Renewing
  <1> QED
    BY <1>7, <1>8, <1>9, <1>10, <1>11, <1>12, <1>13, <1>14, <1>15, <1>16, <1>17,
       <1>18, <1>19, <1>20, <1>21, <1>22 DEF Renew

\* and so does everything else.
LEMMA TypeStep == Typed /\ [Next]_vars => Typed'
  <1> SUFFICES ASSUME Typed, [Next]_vars PROVE Typed'
    OBVIOUS
  <1> USE SandboxAssumption
  <1>1. CASE UNCHANGED vars
    BY <1>1 DEF vars, control, Typed
  <1>2. ASSUME NEW r \in Requests,
               Authorize(r) \/ Answered(r) \/ Refused(r) \/ Open(r) \/ Renew(r)
        PROVE  Typed'
    <2>1. request' \in [Requests -> RequestRow] /\ request[r] \in RequestRow
      BY <1>2, RequestTyped DEF Typed
    <2>2. CASE \/ Authorize(r) \/ Answered(r) \/ Refused(r) \/ Open(r) \/ EnterProcess(r)
               \/ LockRow(r) \/ AskToken(r) \/ OpenWorkspace(r) \/ ReadBinding(r) \/ Flush(r)
               \/ LockSession(r)
      <3>1. UNCHANGED <<row, binding, session, user, pairs, issued>>
        BY <2>2 DEF Authorize, Answered, Refused, Open, EnterProcess, LockRow, AskToken,
           OpenWorkspace, ReadBinding, Flush, LockSession, control
      <3> QED
        BY <2>1, <3>1 DEF Typed
    <2>3. CASE Refresh(r)
      BY <2>1, <2>3 DEF Refresh, Typed
    <2>4. CASE Store(r)
      BY <2>1, <2>4 DEF Store, Typed, control, RequestRow
    <2>5. CASE Bootstrap(r)
      <3>1. /\ UNCHANGED <<row, binding, session, user, pairs>>
            /\ issued' = issued \/ issued' = [issued EXCEPT ![Of[r]] = issued[Of[r]] + 1]
        BY <2>5 DEF Bootstrap, control
      <3> QED
        BY <2>1, <3>1 DEF Typed
    <2>6. ASSUME Write(r)
          PROVE  /\ row' \in [Browsers -> [cookie : Browsers \X Nat, generation : Nat]]
                 /\ binding' \in Nat
      BY <2>1, <2>6 DEF Write, Typed, RequestRow
    <2>7. CASE Commit(r)
      BY <2>1, <2>6, <2>7 DEF Commit, Typed, control
    <2>8. CASE CommitOpen(r)
      <3>1. user' \in [access : Nat, refresh : Nat]
        BY <2>1, <2>8 DEF CommitOpen, Typed, RequestRow
      <3> QED
        BY <2>1, <2>6, <2>8, <3>1 DEF CommitOpen, Typed, control
    <2> QED
      BY <1>2, <2>2, <2>3, <2>4, <2>5, <2>7, <2>8 DEF Renew
  <1>3. ASSUME NEW c \in live, Expire(c) PROVE Typed'
    BY <1>3 DEF Expire, Typed, control
  <1>4. ASSUME NEW t \in 1..pairs, Age(t) PROVE Typed'
    BY <1>4 DEF Age, Typed
  <1>5. CASE Delete \/ GiveUp
    BY <1>5 DEF Delete, GiveUp, Typed, control
  <1>7. CASE Cascade
    <2>2. ASSUME NEW b \in Browsers
          PROVE  [row[b] EXCEPT !.generation = 0] \in [cookie : Browsers \X Nat, generation : Nat]
      <3>1. row[b] \in [cookie : Browsers \X Nat, generation : Nat]
        BY DEF Typed
      <3> QED
        BY <3>1
    <2>1. row' \in [Browsers -> [cookie : Browsers \X Nat, generation : Nat]]
      BY <1>7, <2>2 DEF Cascade
    <2> QED
      BY <1>7, <2>1 DEF Cascade, Typed, control
  <1>6. ASSUME NEW w \in Workers, Crash(w) PROVE Typed'
    <2>1. \A r \in Requests : Finished(r) \in RequestRow
      BY DEF Finished, Blank, Cookie, RequestRow, Places
    <2> QED
      BY <1>6, <2>1 DEF Crash, Typed, control
  <1> QED
    BY <1>1, <1>2, <1>3, <1>4, <1>5, <1>6, <1>7 DEF Next

-----------------------------------------------------------------------------
\* Where a renewal goes on with what it holds.
Midway == {"token", "refresh", "store", "flush", "session", "open", "boot"}

\* What an assignment to one request says.
Others(r) == \A q \in Requests : q # r => request'[q] = request[q]

LEMMA MidwayStep ==
    ASSUME IInv, NEW r \in Requests, Others(r),
           UNCHANGED <<row, session, issued, live>>,
           request[r].pc \in Midway, request'[r].pc \in Midway,
           HoldsSession(r)' => HoldsSession(r),
           r \notin Opens => request'[r].pc \notin {"flush", "session"},
           request'[r].cookie = request[r].cookie, request'[r].seen = request[r].seen,
           request'[r].base = request[r].base
    PROVE  CookiesExist' /\ OneRenewer' /\ \A q \in Requests : Sound(q)'
  <1>1. Genuine(Of[r], request'[r].cookie)
    BY DEF IInv, CookiesExist
  <1>2. HoldsRow(r)' = HoldsRow(r)
    BY DEF HoldsRow, HoldsProcess, Midway, Renewing
  <1>3. Sound(r)'
    BY <1>2 DEF Sound, IInv, HoldsCredential, RenewsWhatFailed, OpensOnce, gone, Midway, Renewing
  <1> QED
    BY <1>1, <1>2, <1>3, LocalStep DEF Others

\* The steps of one request before it opens the workspace.
LEMMA EnterStep ==
    ASSUME IInv, NEW r \in Requests,
           Authorize(r) \/ Answered(r) \/ Refused(r) \/ Open(r) \/ EnterProcess(r) \/ LockRow(r)
    PROVE  CookiesExist' /\ OneRenewer' /\ \A q \in Requests : Sound(q)'
  <1> USE SandboxAssumption
  <1> DEFINE mine == row[Of[r]]
  <1>1. /\ request \in [Requests -> RequestRow] /\ request[r] \in RequestRow
        /\ mine.generation \in Nat /\ request[r].seen \in Nat /\ binding \in Nat
        /\ Genuine(Of[r], request[r].cookie) /\ Genuine(Of[r], mine.cookie)
    BY DEF IInv, Typed, CookiesExist, RequestRow
  <1>2. UNCHANGED <<row, session, issued, live>>
    BY DEF Authorize, Answered, Refused, Open, EnterProcess, LockRow
  <1>3. HoldsCredential(r) /\ RenewsWhatFailed(r) /\ OpensOnce(r)
    BY DEF IInv
  <1>4. CASE Finish(r)
    BY <1>2, <1>4, FinishStep
  <1>5. CASE Authorize(r)
    <2>1. /\ Others(r) /\ r \notin Opens /\ mine.generation # 0
          /\ request'[r].pc = "call" /\ request'[r].cookie = mine.cookie
          /\ request'[r].seen = mine.generation
      BY <1>1, <1>5 DEF Authorize, Others, RequestRow
    <2>2. ~HoldsRow(r)' /\ Sound(r)'
      BY <1>1, <1>2, <2>1 DEF HoldsRow, HoldsProcess, Sound, HoldsCredential, RenewsWhatFailed,
         OpensOnce, gone, HoldsSession, Renewing
    <2> QED
      BY <1>1, <1>2, <2>1, <2>2, LocalStep DEF Others
  <1>6. CASE Answered(r) /\ ~Finish(r)
    <2>1. /\ Others(r) /\ request[r].pc = "call"
          /\ request'[r].pc = "call" /\ request'[r].cookie = request[r].cookie
          /\ request'[r].seen = request[r].seen
      BY <1>1, <1>6 DEF Answered, Others, RequestRow, At
    <2>2. ~HoldsRow(r)' /\ Sound(r)'
      BY <1>1, <1>2, <1>3, <2>1 DEF HoldsRow, HoldsProcess, Sound, HoldsCredential,
         RenewsWhatFailed, OpensOnce, gone, HoldsSession, Renewing
    <2> QED
      BY <1>1, <1>2, <2>1, <2>2, LocalStep DEF Others
  <1>7. CASE Refused(r) /\ ~Finish(r)
    <2>1. /\ Others(r) /\ request[r].pc = "call" /\ request[r].cookie \notin live
          /\ request'[r].pc = "wait" /\ request'[r].cookie = request[r].cookie
          /\ request'[r].seen = request[r].seen
      <3>1. /\ request[r].pc = "call" /\ request[r].cookie \notin live
            /\ request' = [request EXCEPT ![r] =
                              [request[r] EXCEPT !.pc = "wait", !.recovered = TRUE]]
        BY <1>7 DEF Refused, At
      <3> QED
        BY <1>1, <3>1 DEF Others, RequestRow
    <2>2. ~HoldsRow(r)' /\ Sound(r)'
      BY <1>1, <1>2, <1>3, <2>1 DEF HoldsRow, HoldsProcess, Sound, HoldsCredential,
         RenewsWhatFailed, OpensOnce, gone, HoldsSession, Renewing
    <2> QED
      BY <1>1, <1>2, <2>1, <2>2, LocalStep DEF Others
  <1>8. CASE Open(r)
    <2>1. /\ Others(r) /\ r \in Opens /\ mine.generation = 0
          /\ request'[r].pc \in {"token", "session"} /\ request'[r].cookie = request[r].cookie
      BY <1>1, <1>8 DEF Open, Others, RequestRow
    <2>2. ~HoldsRow(r)' /\ Sound(r)'
      BY <1>2, <2>1 DEF HoldsRow, HoldsProcess, Sound, HoldsCredential,
         RenewsWhatFailed, OpensOnce, gone, HoldsSession, Renewing
    <2> QED
      BY <1>1, <1>2, <2>1, <2>2, LocalStep DEF Others
  <1>9. CASE EnterProcess(r)
    <2>1. /\ Others(r) /\ request[r].pc = "wait"
          /\ request'[r].pc = "rowwait" /\ request'[r].cookie = request[r].cookie
          /\ request'[r].seen = request[r].seen
      BY <1>1, <1>9 DEF EnterProcess, To, Others, RequestRow, At
    <2>2. ~HoldsRow(r)' /\ Sound(r)'
      BY <1>1, <1>2, <1>3, <2>1 DEF HoldsRow, HoldsProcess, Sound, HoldsCredential,
         RenewsWhatFailed, OpensOnce, gone, HoldsSession, Renewing
    <2> QED
      BY <1>1, <1>2, <2>1, <2>2, LocalStep DEF Others
  <1>10. CASE /\ LockRow(r) /\ Resume(r, mine.cookie, mine.generation)
              /\ mine.generation > request[r].seen
    <2>1. /\ Others(r) /\ request[r].pc = "rowwait"
          /\ request'[r].pc = "call" /\ request'[r].cookie = mine.cookie
          /\ request'[r].seen = mine.generation
      BY <1>1, <1>10 DEF LockRow, Resume, Others, RequestRow, At
    <2>2. ~HoldsRow(r)' /\ Sound(r)'
      BY <1>1, <1>2, <1>3, <1>10, <2>1 DEF HoldsRow, HoldsProcess, Sound, HoldsCredential,
         RenewsWhatFailed, OpensOnce, gone, HoldsSession, Renewing
    <2> QED
      BY <1>1, <1>2, <2>1, <2>2, LocalStep DEF Others
  <1>11. CASE LockRow(r) /\ ~gone /\ ~(mine.generation > request[r].seen)
    <2>1. /\ Others(r) /\ request[r].pc = "rowwait" /\ RowFree(r)
          /\ request'[r].pc = "token" /\ request'[r].cookie = request[r].cookie
          /\ request'[r].seen = request[r].seen /\ request'[r].base = NextBase(r)
      <3>1. /\ request[r].pc = "rowwait" /\ RowFree(r)
            /\ request' = [request EXCEPT ![r] =
                              [request[r] EXCEPT !.pc = "token", !.base = NextBase(r)]]
        BY <1>11 DEF LockRow, At
      <3> QED
        BY <1>1, <3>1 DEF Others, RequestRow
    <2>2. NextBase(r) >= mine.generation
      BY <1>1 DEF NextBase
    <2>3. r \notin Opens => request[r].seen = mine.generation /\ mine.cookie \notin live
      BY <1>1, <1>3, <1>11, <2>1 DEF HoldsCredential, Renewing
    <2>4. Sound(r)'
      BY <1>1, <1>2, <1>3, <1>11, <2>1, <2>2, <2>3 DEF HoldsRow, HoldsProcess, Sound,
         HoldsCredential, RenewsWhatFailed, OpensOnce, gone, HoldsSession, Renewing
    <2> QED
      BY <1>1, <1>2, <2>1, <2>4, LocalStep DEF Others
  <1> QED
    BY <1>4, <1>5, <1>6, <1>7, <1>8, <1>9, <1>10, <1>11 DEF LockRow

\* A cookie is created.
LEMMA BootstrapStep ==
    ASSUME IInv, NEW r \in Requests, Bootstrap(r)
    PROVE  CookiesExist' /\ OneRenewer' /\ \A q \in Requests : Sound(q)'
  <1> USE SandboxAssumption
  <1> DEFINE b == Of[r]
             c == Cookie(b, issued[b] + 1)
  <1>1. /\ request \in [Requests -> RequestRow] /\ request[r] \in RequestRow
        /\ issued \in [Browsers -> Nat] /\ request[r].pc = "boot" /\ UNCHANGED <<row, session>>
    BY DEF IInv, Typed, Bootstrap, At
  <1>2. CASE UNCHANGED <<issued, live>>
    <2>1. CASE Finish(r)
      BY <1>1, <1>2, <2>1, FinishStep
    <2>2. CASE ~Finish(r)
      <3>1. FailedBootstrap(r)
        BY <1>1, <1>2, <2>2 DEF Bootstrap
      <3>2. PICK x \in RequestRow :
               request' = [request EXCEPT ![r] = x] /\ Failed(r, request[r], x)
        BY <1>1, <3>1, FailedRow
      <3>3. /\ Others(r) /\ request'[r].pc \in {"open", "boot"}
            /\ request'[r].cookie = request[r].cookie
            /\ request'[r].seen = request[r].seen /\ request'[r].base = request[r].base
        BY <1>1, <3>2 DEF Others, Failed
      <3> QED
        BY <1>1, <1>2, <3>3, MidwayStep DEF Midway, HoldsSession
    <2> QED
      BY <2>1, <2>2
  <1>3. CASE /\ issued' = [issued EXCEPT ![b] = issued[b] + 1]
             /\ live' = live \cup {c}
             /\ request' = [request EXCEPT ![r] =
                               [request[r] EXCEPT !.pc = IF r \in Opens THEN "bind" ELSE "commit",
                                                  !.cookie = c, !.boots = request[r].boots + 1]]
    <2>1. /\ Others(r) /\ request'[r].pc = (IF r \in Opens THEN "bind" ELSE "commit")
          /\ request'[r].cookie = c
          /\ request'[r].seen = request[r].seen /\ request'[r].base = request[r].base
      BY <1>1, <1>3 DEF Others, RequestRow
    <2>2. /\ \A a \in Browsers, k \in Browsers \X Nat :
                Genuine(a, k) => /\ k[1] = a /\ k[2] <= issued'[a]
                                 /\ k # c
          /\ c[1] = b /\ c[2] <= issued'[b]
      BY <1>1, <1>3 DEF Genuine, Cookie
    <2>3. /\ \A a \in Browsers : row[a].cookie \in Browsers \X Nat
          /\ \A q \in Requests : request[q].cookie \in Browsers \X Nat /\ Of[q] \in Browsers
      BY DEF IInv, Typed, RequestRow
    <2>4. /\ \A a \in Browsers : Genuine(a, row[a].cookie)
          /\ \A q \in Requests : Genuine(Of[q], request[q].cookie)
      BY DEF IInv, CookiesExist
    <2>5. CookiesExist'
      <3>1. \A a \in Browsers : Genuine(a, row[a].cookie)'
        BY <1>1, <2>2, <2>3, <2>4 DEF Genuine
      <3>2. \A q \in Requests : Genuine(Of[q], request[q].cookie)'
        BY <2>1, <2>2, <2>3, <2>4 DEF Others, Genuine
      <3> QED
        BY <3>1, <3>2 DEF CookiesExist
    <2>6. /\ \A a \in Browsers : row[a].cookie # c
          /\ \A q \in Requests : request[q].cookie # c
      BY <2>2, <2>3, <2>4
    <2>7. \A q \in Requests : HoldsRow(q)' = HoldsRow(q)
      BY <1>1, <2>1 DEF HoldsRow, HoldsProcess, Others, Renewing
    <2>8. OneRenewer'
      BY <2>7 DEF OneRenewer, IInv
    <2> HIDE DEF b, c
    <2>9. ASSUME NEW q \in Requests PROVE Sound(q)'
      <3>1. HoldsCredential(q) /\ RenewsWhatFailed(q) /\ OpensOnce(q)
        BY DEF IInv
      <3>2. RenewsWhatFailed(q)'
        BY <1>1, <1>3, <2>1, <2>3, <2>6, <2>7, <3>1 DEF RenewsWhatFailed, Others, gone
      <3>3. OpensOnce(q)'
        BY <1>1, <2>1, <3>1 DEF OpensOnce, gone, HoldsSession, Others
      <3>4. HoldsCredential(q)'
        BY <1>1, <1>3, <2>1, <2>6, <3>1 DEF HoldsCredential, Others, Renewing, gone
      <3> QED
        BY <3>2, <3>3, <3>4 DEF Sound
    <2> QED
      BY <2>5, <2>8, <2>9
  <1> QED
    BY <1>2, <1>3 DEF Bootstrap

\* A renewal is committed: nobody else renews the row, and the new generation
\* is higher than any a request holds for this browser.
LEMMA CommitStep ==
    ASSUME IInv, NEW r \in Requests, Commit(r)
    PROVE  CookiesExist' /\ OneRenewer' /\ \A q \in Requests : Sound(q)'
  <1> USE SandboxAssumption
  <1> DEFINE mine == row[Of[r]]
             g == request[r].base + 1
  <1>1. /\ request \in [Requests -> RequestRow] /\ request[r] \in RequestRow
        /\ row \in [Browsers -> [cookie : Browsers \X Nat, generation : Nat]]
        /\ \A q \in Requests : /\ request[q].seen \in Nat /\ row[Of[q]].generation \in Nat
                                /\ Of[q] \in Browsers
        /\ request[r].base \in Nat
        /\ request[r].pc = "commit" /\ r \notin Opens /\ UNCHANGED <<session, issued, live>>
    BY DEF IInv, Typed, Commit, At, RequestRow
  <1>2. CASE Finish(r) /\ UNCHANGED row
    BY <1>1, <1>2, FinishStep
  <1>3. CASE Write(r) /\ Resume(r, request[r].cookie, g)
    <2>1. /\ HoldsRow(r) /\ ~gone
          /\ request[r].seen = mine.generation /\ request[r].seen > 0
          /\ g > mine.generation /\ g \in Nat
      BY <1>1 DEF IInv, HoldsRow, HoldsProcess, RenewsWhatFailed, HoldsCredential, Renewing
    <2>2. /\ Others(r) /\ request'[r].pc = "call"
          /\ request'[r].cookie = request[r].cookie /\ request'[r].seen = g
      BY <1>1, <1>3 DEF Resume, Others, RequestRow
    <2>3. /\ row'[Of[r]].cookie = request[r].cookie /\ row'[Of[r]].generation = g
          /\ \A b \in Browsers : b # Of[r] => row'[b] = row[b]
      BY <1>1, <1>3 DEF Write
    <2> HIDE DEF g
    <2>4. CookiesExist'
      <3>1. CookiesExist /\ Genuine(Of[r], request[r].cookie)
        BY DEF IInv, CookiesExist
      <3>2. \A b \in Browsers : Genuine(b, row[b].cookie)'
        BY <1>1, <2>3, <3>1 DEF CookiesExist, Genuine
      <3>3. \A q \in Requests : Genuine(Of[q], request[q].cookie)'
        BY <1>1, <2>2, <3>1 DEF CookiesExist, Genuine, Others
      <3> QED
        BY <3>2, <3>3 DEF CookiesExist
    <2>5. \A q \in Requests : HoldsRow(q)' => HoldsRow(q) /\ q # r /\ Of[q] # Of[r]
      BY <2>1, <2>2 DEF HoldsRow, HoldsProcess, Others, Renewing, OneRenewer, IInv
    <2>6. OneRenewer'
      BY <2>5 DEF OneRenewer, IInv
    <2>7. Sound(r)'
      BY <1>1, <2>1, <2>2, <2>3, <2>5 DEF Sound, HoldsCredential, RenewsWhatFailed, OpensOnce,
         gone, HoldsSession, Renewing
    <2>8. ASSUME NEW q \in Requests, q # r PROVE Sound(q)'
      <3>1. HoldsCredential(q) /\ RenewsWhatFailed(q) /\ OpensOnce(q) /\ request'[q] = request[q]
        BY <2>2, <2>8 DEF IInv, Others
      <3>2. CASE Of[q] = Of[r]
        BY <1>1, <2>1, <2>3, <2>5, <3>1, <3>2 DEF Sound, HoldsCredential, RenewsWhatFailed,
           OpensOnce, gone, HoldsSession
      <3>3. CASE Of[q] # Of[r]
        BY <1>1, <2>3, <2>5, <3>1, <3>3 DEF Sound, HoldsCredential, RenewsWhatFailed, OpensOnce,
           gone, HoldsSession
      <3> QED
        BY <3>2, <3>3
    <2> QED
      BY <2>4, <2>6, <2>7, <2>8
  <1> QED
    BY <1>2, <1>3 DEF Commit

\* The first row of a browser: nobody holds a credential of it.
LEMMA CommitOpenStep ==
    ASSUME IInv, NEW r \in Requests, CommitOpen(r)
    PROVE  CookiesExist' /\ OneRenewer' /\ \A q \in Requests : Sound(q)'
  <1> USE SandboxAssumption
  <1> DEFINE g == request[r].base + 1
  <1>1. /\ request \in [Requests -> RequestRow] /\ request[r] \in RequestRow
        /\ row \in [Browsers -> [cookie : Browsers \X Nat, generation : Nat]]
        /\ \A q \in Requests : Of[q] \in Browsers /\ request[q].seen \in Nat
        /\ request[r].pc = "commit" /\ r \in Opens /\ UNCHANGED <<session, issued, live>>
        /\ Finish(r)
    BY DEF IInv, Typed, CommitOpen, At, RequestRow
  <1>2. CASE UNCHANGED row
    BY <1>1, <1>2, FinishStep
  <1>4. ~gone
    BY <1>1 DEF IInv, OpensOnce, HoldsSession, gone
  <1>3. CASE Write(r)
    <2>1. row[Of[r]].generation = 0
      BY <1>1, <1>4 DEF IInv, OpensOnce
    <2>2. /\ Others(r) /\ request'[r].pc = "done" /\ request'[r].cookie = Cookie(Of[r], 0)
      BY <1>1 DEF Finish, Finished, Blank, Others
    <2>3. /\ row'[Of[r]].cookie = request[r].cookie
          /\ \A b \in Browsers : b # Of[r] => row'[b] = row[b]
      BY <1>1, <1>3 DEF Write
    <2>4. CookiesExist'
      <3>1. 0 <= issued[Of[r]]
        BY <1>1 DEF IInv, Typed
      <3>2. /\ CookiesExist /\ Genuine(Of[r], request[r].cookie)
            /\ Genuine(Of[r], Cookie(Of[r], 0))
        BY <3>1 DEF IInv, CookiesExist, Genuine, Cookie
      <3>3. \A b \in Browsers : Genuine(b, row[b].cookie)'
        BY <1>1, <2>3, <3>2 DEF CookiesExist, Genuine
      <3>4. \A q \in Requests : Genuine(Of[q], request[q].cookie)'
        BY <1>1, <2>2, <3>2 DEF CookiesExist, Genuine, Others
      <3> QED
        BY <3>3, <3>4 DEF CookiesExist
    <2>5. \A q \in Requests : q # r /\ Of[q] = Of[r] => request[q].pc \in {"idle", "done"}
      BY <1>1, <1>4, <2>1 DEF IInv, HoldsCredential
    <2>6. \A q \in Requests : HoldsRow(q)' => HoldsRow(q) /\ Of[q] # Of[r]
      BY <2>2, <2>5 DEF HoldsRow, HoldsProcess, Others, Renewing
    <2>7. OneRenewer'
      BY <2>6 DEF OneRenewer, IInv
    <2>8. Sound(r)'
      BY <1>1, <2>2, <2>6 DEF Sound, HoldsCredential, RenewsWhatFailed, OpensOnce, gone,
         HoldsSession
    <2>9. ASSUME NEW q \in Requests, q # r PROVE Sound(q)'
      <3>1. HoldsCredential(q) /\ RenewsWhatFailed(q) /\ OpensOnce(q) /\ request'[q] = request[q]
        BY <2>2, <2>9 DEF IInv, Others
      <3>2. CASE Of[q] = Of[r]
        BY <2>5, <2>6, <2>9, <3>1, <3>2 DEF Sound, HoldsCredential, RenewsWhatFailed, OpensOnce,
           gone, HoldsSession
      <3>3. CASE Of[q] # Of[r]
        BY <1>1, <2>3, <2>6, <3>1, <3>3 DEF Sound, HoldsCredential, RenewsWhatFailed, OpensOnce,
           gone, HoldsSession
      <3> QED
        BY <3>2, <3>3
    <2> QED
      BY <2>4, <2>7, <2>8, <2>9
  <1> QED
    BY <1>2, <1>3 DEF CommitOpen

\* The steps of the surroundings.
LEMMA SurroundingsStep ==
    ASSUME IInv,
           \/ \E c \in live : Expire(c)
           \/ \E p \in 1..pairs : Age(p)
           \/ Delete \/ Cascade \/ GiveUp
           \/ \E w \in Workers : Crash(w)
    PROVE  CookiesExist' /\ OneRenewer' /\ \A q \in Requests : Sound(q)'
  <1> USE SandboxAssumption
  <1>1. ASSUME NEW c \in live, Expire(c)
        PROVE  CookiesExist' /\ OneRenewer' /\ \A q \in Requests : Sound(q)'
    BY <1>1 DEF Expire, IInv, CookiesExist, Genuine, OneRenewer, Sound, HoldsRow, HoldsProcess,
       HoldsCredential, RenewsWhatFailed, OpensOnce, gone, HoldsSession
  <1>2. ASSUME NEW p \in 1..pairs, Age(p)
        PROVE  CookiesExist' /\ OneRenewer' /\ \A q \in Requests : Sound(q)'
    BY <1>2 DEF Age, IInv, CookiesExist, Genuine, OneRenewer, Sound, HoldsRow, HoldsProcess,
       HoldsCredential, RenewsWhatFailed, OpensOnce, gone, HoldsSession
  <1>3. CASE Cascade
    <2>1. /\ session' = "gone" /\ UNCHANGED <<request, issued, live>>
          /\ \A q \in Requests : ~HoldsRow(q) /\ ~HoldsRow(q)'
          /\ \A q \in Requests : ~HoldsSession(q) /\ ~HoldsSession(q)'
      BY <1>3 DEF Cascade, HoldsRow, HoldsProcess, HoldsSession, IInv, OpensOnce
    <2>2. \A b \in Browsers : row'[b].cookie = row[b].cookie
      BY <1>3 DEF Cascade, IInv, Typed
    <2>3. CookiesExist' /\ OneRenewer'
      BY <2>1, <2>2 DEF CookiesExist, Genuine, OneRenewer, IInv
    <2>4. \A q \in Requests : Sound(q)'
      BY <2>1 DEF IInv, Sound, HoldsCredential, RenewsWhatFailed, OpensOnce, gone
    <2> QED
      BY <2>3, <2>4
  <1>5. CASE Delete \/ GiveUp
    <2>1. /\ gone' = gone /\ UNCHANGED <<row, request, issued, live>>
          /\ \A q \in Requests : HoldsSession(q)' => session' = "there"
      BY <1>5 DEF Delete, GiveUp, gone, HoldsSession
    <2>2. CookiesExist' /\ OneRenewer'
      BY <2>1 DEF IInv, CookiesExist, Genuine, OneRenewer, HoldsRow, HoldsProcess
    <2>3. \A q \in Requests : Sound(q)'
      BY <2>1 DEF IInv, Sound, HoldsRow, HoldsProcess, HoldsCredential, RenewsWhatFailed,
         OpensOnce
    <2> QED
      BY <2>2, <2>3
  <1>4. ASSUME NEW w \in Workers, Crash(w)
        PROVE  CookiesExist' /\ OneRenewer' /\ \A q \in Requests : Sound(q)'
    <2>1. /\ UNCHANGED <<row, session, issued, live>>
          /\ \A q \in Requests : request'[q] = request[q] \/ request'[q] = Finished(q)
      BY <1>4 DEF Crash
    <2>2. \A q \in Requests : request'[q] = Finished(q) =>
             request'[q].pc = "done" /\ Genuine(Of[q], request'[q].cookie)
      BY DEF Finished, Blank, Genuine, Cookie, IInv, Typed
    <2>3. \A q \in Requests : HoldsRow(q)' => HoldsRow(q) /\ request'[q] = request[q]
      BY <2>1, <2>2 DEF HoldsRow, HoldsProcess, Renewing
    <2>4. CookiesExist' /\ OneRenewer'
      BY <2>1, <2>2, <2>3 DEF CookiesExist, Genuine, OneRenewer, IInv
    <2>5. ASSUME NEW q \in Requests PROVE Sound(q)'
      <3>1. HoldsCredential(q) /\ RenewsWhatFailed(q) /\ OpensOnce(q)
        BY DEF IInv
      <3>2. CASE request'[q] = request[q]
        BY <2>1, <2>3, <3>1, <3>2 DEF Sound, HoldsCredential, RenewsWhatFailed, OpensOnce, gone,
           HoldsSession
      <3>3. CASE request'[q].pc = "done"
        BY <2>3, <3>3 DEF Sound, HoldsCredential, RenewsWhatFailed, OpensOnce, gone, HoldsSession,
           HoldsRow, HoldsProcess, Renewing
      <3> QED
        BY <2>1, <2>2, <3>2, <3>3
    <2> QED
      BY <2>4, <2>5
  <1> QED
    BY <1>1, <1>2, <1>3, <1>4, <1>5

-----------------------------------------------------------------------------
LEMMA InvStep == IInv /\ [Next]_vars => IInv'
  <1> SUFFICES ASSUME IInv, [Next]_vars
               PROVE  CookiesExist' /\ OneRenewer' /\ \A q \in Requests : Sound(q)'
    BY TypeStep DEF IInv, Sound
  <1>1. CASE UNCHANGED vars
    BY <1>1 DEF vars, IInv, CookiesExist, Genuine, OneRenewer, Sound, HoldsRow, HoldsProcess,
       HoldsCredential, RenewsWhatFailed, OpensOnce, gone, HoldsSession
  <1>2. ASSUME NEW r \in Requests,
               \/ AskToken(r) \/ Refresh(r) \/ Store(r) \/ OpenWorkspace(r) \/ ReadBinding(r)
               \/ Flush(r) \/ LockSession(r)
        PROVE  CookiesExist' /\ OneRenewer' /\ \A q \in Requests : Sound(q)'
    <2>1. UNCHANGED <<row, session, issued, live>>
      BY <1>2 DEF AskToken, Refresh, Store, OpenWorkspace, ReadBinding, Flush, LockSession
    <2>2. request \in [Requests -> RequestRow] /\ request[r] \in RequestRow
      BY DEF IInv, Typed
    <2>3. CASE Finish(r)
      BY <2>1, <2>3, FinishStep
    <2>4. CASE ReadBinding(r)
      <3>1. /\ Others(r) /\ request[r].pc = "bind" /\ request'[r].pc = "commit"
            /\ request'[r].cookie = request[r].cookie
        BY <2>2, <2>4 DEF ReadBinding, Others, RequestRow, At
      <3>2. r \in Opens /\ Genuine(Of[r], request'[r].cookie) /\ ~HoldsRow(r)'
        BY <3>1 DEF IInv, OpensOnce, gone, HoldsSession, CookiesExist, HoldsRow, HoldsProcess
      <3>3. Sound(r)'
        BY <2>1, <3>1, <3>2 DEF IInv, Sound, HoldsCredential, RenewsWhatFailed, OpensOnce, gone,
           HoldsSession
      <3> QED
        BY <2>1, <3>1, <3>2, <3>3, LocalStep DEF Others
    <2>6. CASE LockSession(r) /\ ~Finish(r)
      <3>1. /\ Others(r) /\ request[r].pc = "session" /\ request'[r].pc = "open"
            /\ request'[r].cookie = request[r].cookie /\ session \notin {"deleting", "gone"}
        BY <2>2, <2>6 DEF LockSession, To, Others, RequestRow, At, gone
      <3>2. /\ r \in Opens /\ Genuine(Of[r], request'[r].cookie) /\ ~HoldsRow(r)'
            /\ session = "there"
        BY <3>1 DEF IInv, OpensOnce, CookiesExist, HoldsRow, HoldsProcess, Typed
      <3>3. Sound(r)'
        BY <2>1, <3>1, <3>2 DEF IInv, Sound, HoldsCredential, RenewsWhatFailed, OpensOnce, gone
      <3> QED
        BY <2>1, <3>1, <3>2, <3>3, LocalStep DEF Others
    <2>5. CASE ~Finish(r) /\ ~ReadBinding(r) /\ ~LockSession(r)
      <3>1. /\ Others(r) /\ request[r].pc \in Midway /\ request'[r].pc \in Midway
            /\ r \notin Opens => request'[r].pc \notin {"flush", "session"}
            /\ HoldsSession(r)' => HoldsSession(r)
            /\ request'[r].cookie = request[r].cookie
            /\ request'[r].seen = request[r].seen /\ request'[r].base = request[r].base
        <4>1. CASE AskToken(r)
          <5>1. /\ request[r].pc = "token"
                /\ \E pc \in {WithToken(r), "refresh"} :
                      request' = [request EXCEPT ![r] =
                                     [request[r] EXCEPT !.pc = pc, !.token = user.access]]
            BY <4>1 DEF AskToken, At
          <5> QED
            BY <2>2, <5>1 DEF WithToken, HoldsSession, Others, RequestRow, Midway
        <4>2. CASE Refresh(r)
          <5>1. /\ request[r].pc = "refresh"
                /\ request' = [request EXCEPT ![r] =
                                  [request[r] EXCEPT !.pc = "store", !.token = pairs + 1]]
            BY <2>5, <4>2 DEF Refresh, At
          <5> QED
            BY <2>2, <5>1 DEF HoldsSession, Others, RequestRow, Midway
        <4>3. CASE Store(r)
          <5>1. /\ request[r].pc = "store"
                /\ request' = [request EXCEPT ![r] = [request[r] EXCEPT !.pc = WithToken(r)]]
            BY <2>5, <4>3 DEF Store, To, At
          <5> QED
            BY <2>2, <5>1 DEF WithToken, HoldsSession, Others, RequestRow, Midway
        <4>5. CASE Flush(r)
          <5>1. /\ request[r].pc = "flush" /\ r \in Opens
                /\ request' = [request EXCEPT ![r] = [request[r] EXCEPT !.pc = "session"]]
            BY <4>5 DEF Flush, To, At, IInv, OpensOnce
          <5> QED
            BY <2>2, <5>1 DEF HoldsSession, Others, RequestRow, Midway
        <4>4. CASE OpenWorkspace(r)
          <5> DEFINE n == request[r].opens + 1
          <5>1. /\ request[r].pc = "open"
                /\ \/ request' = [request EXCEPT ![r] =
                                     [request[r] EXCEPT !.pc = "boot", !.opens = n]]
                   \/ request' = [request EXCEPT ![r] =
                                     [request[r] EXCEPT !.pc = "token", !.opens = n,
                                                        !.forced = TRUE]]
            BY <2>5, <4>4 DEF OpenWorkspace, At
          <5> HIDE DEF n
          <5>2. CASE request' = [request EXCEPT ![r] =
                                   [request[r] EXCEPT !.pc = "boot", !.opens = n]]
            BY <2>2, <5>1, <5>2 DEF HoldsSession, Others, RequestRow, Midway
          <5>3. CASE request' = [request EXCEPT ![r] =
                                   [request[r] EXCEPT !.pc = "token", !.opens = n,
                                                      !.forced = TRUE]]
            BY <2>2, <5>1, <5>3 DEF HoldsSession, Others, RequestRow, Midway
          <5> QED
            BY <5>1, <5>2, <5>3
        <4> QED
          BY <1>2, <2>5, <4>1, <4>2, <4>3, <4>4, <4>5
      <3> QED
        BY <2>1, <3>1, MidwayStep
    <2> QED
      BY <2>3, <2>4, <2>5, <2>6
  <1> QED
    BY <1>1, <1>2, EnterStep, BootstrapStep, CommitStep, CommitOpenStep, SurroundingsStep
    DEF Next, Renew

-----------------------------------------------------------------------------
\* Every state satisfies the invariant.
LEMMA Inductive == Spec => []IInv
  <1>1. Init => IInv
    BY InitInv
  <1>2. IInv /\ [Next]_vars => IInv'
    BY InvStep
  <1> QED
    BY <1>1, <1>2, PTL DEF Spec

\* A generation names one credential of a browser, whatever renewals, openings
\* and crashes happen together: a request that compares the generation it used
\* with the row's (_renew_browser_runtime_session) never takes a credential
\* that was replaced for the current one.
THEOREM GenerationSafety == Spec => []GenerationNamesCookie
  <1>1. IInv => GenerationNamesCookie
    BY DEF IInv, HoldsCredential, OpensOnce, gone, HoldsSession, CookiesExist, Genuine,
       GenerationNamesCookie, At
  <1> QED
    BY <1>1, Inductive, PTL

\* What a step may do to the row of a browser: only a credential the sandbox
\* stopped accepting is replaced.
LEMMA ReplaceStep ==
    ASSUME IInv, [Next]_vars, NEW b \in Browsers, row[b].generation # 0,
           row'[b].generation # 0, row'[b] # row[b]
    PROVE  row[b].cookie \notin live
  <1> USE SandboxAssumption
  <1>1. \/ \E r \in Requests : Commit(r) \/ CommitOpen(r)
        \/ Cascade
    BY DEF Next, Renew, vars, Authorize, Answered, Refused, Open, EnterProcess, LockRow, AskToken,
       Refresh, Store, OpenWorkspace, Bootstrap, ReadBinding, Flush, LockSession, Expire, Age,
       Delete, GiveUp, Crash
  <1>2. row \in [Browsers -> [cookie : Browsers \X Nat, generation : Nat]]
    BY DEF IInv, Typed
  <1>3. ASSUME NEW r \in Requests, Commit(r) PROVE row[b].cookie \notin live
    <2>1. HoldsRow(r)
      BY <1>3 DEF Commit, At, HoldsRow, HoldsProcess, Renewing
    <2>2. Of[r] = b
      BY <1>2, <1>3 DEF Commit, Write
    <2> QED
      BY <2>1, <2>2 DEF IInv, RenewsWhatFailed
  <1>4. ASSUME NEW r \in Requests, CommitOpen(r) PROVE FALSE
    <2>1. Of[r] = b
      BY <1>2, <1>4 DEF CommitOpen, Write
    <2> QED
      BY <1>4, <2>1 DEF IInv, OpensOnce, gone, HoldsSession, CommitOpen, At
  <1>5. CASE Cascade
    BY <1>2, <1>5 DEF Cascade
  <1> QED
    BY <1>1, <1>3, <1>4, <1>5

\* Single flight across processes: of the requests that were refused with one
\* credential of a browser, at most one replaces it, and never one the sandbox
\* still accepts (the row lock of _renew_browser_runtime_session).
THEOREM SingleFlight == Spec => OnlyRefusedReplaced
  <1>1. IInv /\ [Next]_vars =>
           [\A b \in Browsers :
              row[b].generation # 0 /\ row'[b].generation # 0 /\ row'[b] # row[b]
                 => row[b].cookie \notin live]_vars
    BY ReplaceStep
  <1> QED
    BY <1>1, Inductive, PTL DEF Spec, OnlyRefusedReplaced

-----------------------------------------------------------------------------
\* The tokens of the user.

\* One request at a time reads, refreshes and stores them.
OneRefresher == \A r, q \in Requests : HoldsUser(r) /\ HoldsUser(q) => r = q

\* A forced renewal asks because its token was refused; a refresh is for an
\* access token that does not serve, and its answer was never used.
Prudent(r) ==
    /\ request[r].kept <= pairs
    /\ request[r].forced => /\ request[r].pc \notin {"idle", "call", "wait", "rowwait"}
                            /\ request[r].pc = "token" => request[r].token \in revoked
    /\ request[r].pc = "refresh" => user.access \in tired \cup revoked
    /\ request[r].pc = "store" => request[r].token \in (1..pairs) \ spent

\* A consumed refresh token has a successor on its way to the row.
Succeeded == user.refresh \in spent /\ ~mislaid => \E r \in Requests : At(r, "store")

Issued == user.refresh \in 1..pairs /\ spent \subseteq 1..pairs

TokenInv == Issued /\ OneRefresher /\ Succeeded /\ \A r \in Requests : Prudent(r)

LEMMA TokenInit == Init => TokenInv
  <1> SUFFICES ASSUME Init PROVE TokenInv
    OBVIOUS
  <1>1. /\ user = [access |-> 1, refresh |-> 1] /\ pairs = 1 /\ spent = {}
        /\ request = [r \in Requests |-> Blank(Of[r], "idle")]
    BY DEF Init
  <1>2. \A r \in Requests : /\ request[r].pc = "idle" /\ request[r].kept = 0
                            /\ request[r].forced = FALSE
    BY <1>1 DEF Blank
  <1>3. \A r \in Requests : Prudent(r) /\ ~HoldsUser(r)
    BY <1>1, <1>2 DEF Prudent, HoldsUser, HoldsSession
  <1> QED
    BY <1>1, <1>3 DEF TokenInv, Issued, OneRefresher, Succeeded

\* A step of one request that leaves the tokens alone.
LEMMA QuietStep ==
    ASSUME TokenInv, NEW r \in Requests, Others(r), UNCHANGED <<user, control>>,
           mislaid => mislaid',
           request[r].pc # "store", request'[r].pc # "store",
           HoldsUser(r)' => HoldsUser(r) \/ \A q \in Requests : ~HoldsUser(q),
           Prudent(r)'
    PROVE  TokenInv'
  <1>1. UNCHANGED <<user, pairs, tired, revoked, spent>>
    BY DEF control
  <1>2. \A q \in Requests : q # r => HoldsUser(q)' = HoldsUser(q) /\ Prudent(q)'
    BY <1>1 DEF Others, HoldsUser, HoldsSession, TokenInv, Prudent
  <1>3. OneRefresher'
    BY <1>2 DEF OneRefresher, TokenInv
  <1>4. Succeeded'
    BY <1>1 DEF Succeeded, TokenInv, Others, At
  <1>5. Issued'
    BY <1>1 DEF Issued, TokenInv
  <1> QED
    BY <1>2, <1>3, <1>4, <1>5 DEF TokenInv

\* A request that ends, not having to store a pair.
LEMMA QuietFinish ==
    ASSUME IInv, TokenInv, NEW r \in Requests, Finish(r), request[r].pc # "store",
           UNCHANGED <<user, control>>, mislaid => mislaid'
    PROVE  TokenInv'
  <1>1. /\ Others(r) /\ request'[r].pc = "done"
        /\ request'[r].kept = 0 /\ request'[r].forced = FALSE
    BY DEF Finish, Finished, Blank, Others, IInv, Typed
  <1>2. Prudent(r)' /\ ~HoldsUser(r)'
    BY <1>1 DEF Prudent, HoldsUser, HoldsSession, control, IInv, Typed
  <1> QED
    BY <1>1, <1>2, QuietStep

\* A request that keeps its copy of a token and goes to a place where nothing
\* is asked of it.
LEMMA QuietMove ==
    ASSUME IInv, TokenInv, NEW r \in Requests, Others(r), UNCHANGED <<user, control, mislaid>>,
           request[r].pc # "store",
           request'[r].pc \notin {"store", "refresh"},
           request'[r].kept \in {request[r].kept, user.refresh, 0},
           request'[r].forced => request'[r].pc \in {"session", "open", "boot", "commit", "bind"},
           \/ request'[r].pc \in {"call", "wait", "rowwait", "token"}
           \/ request'[r].kept = 0
           \/ /\ request'[r].kept = request[r].kept
              /\ request[r].pc \in {"session", "open", "boot", "bind", "commit"}
              /\ request'[r].pc \in {"open", "boot", "bind", "commit"}
    PROVE  TokenInv'
  <1>1. Prudent(r)' /\ (HoldsUser(r)' => HoldsUser(r))
    BY DEF Prudent, HoldsUser, HoldsSession, control, TokenInv, Issued, IInv, Typed
  <1> QED
    BY <1>1, QuietStep

\* The steps of one request that do not touch what is stored for the user.
LEMMA QuietSteps ==
    ASSUME IInv, TokenInv, NEW r \in Requests,
           \/ Authorize(r) \/ Answered(r) \/ Refused(r) \/ Open(r) \/ EnterProcess(r) \/ LockRow(r)
           \/ AskToken(r) \/ OpenWorkspace(r) \/ Bootstrap(r) \/ Commit(r) \/ ReadBinding(r)
           \/ Flush(r) \/ LockSession(r)
    PROVE  TokenInv'
  <1> USE SandboxAssumption
  <1>1. /\ request \in [Requests -> RequestRow] /\ request[r] \in RequestRow
        /\ request[r].forced \in BOOLEAN /\ Prudent(r)
    BY DEF IInv, Typed, TokenInv, RequestRow
  <1>2. UNCHANGED <<user, control, mislaid>>
    BY DEF Authorize, Answered, Refused, Open, EnterProcess, LockRow, AskToken, OpenWorkspace,
       Bootstrap, Commit, ReadBinding, Flush, LockSession
  <1>3. request[r].pc \in {"idle", "call", "wait", "rowwait", "token", "flush", "session", "open",
                           "boot", "commit", "bind"}
    BY DEF Authorize, Answered, Refused, Open, EnterProcess, LockRow, AskToken, OpenWorkspace,
       Bootstrap, Commit, ReadBinding, Flush, LockSession, At
  <1>4. CASE Finish(r)
    BY <1>2, <1>3, <1>4, QuietFinish
  <1>5. request[r].pc \in {"idle", "call", "wait", "rowwait"} => request[r].forced = FALSE
    BY <1>1 DEF Prudent
  <1>6. ASSUME NEW c, NEW g, Resume(r, c, g) PROVE TokenInv'
    <2>1. /\ Others(r) /\ request'[r].pc = "call" /\ request'[r].forced = FALSE
          /\ request'[r].kept = request[r].kept
      BY <1>1, <1>6 DEF Resume, Others, RequestRow
    <2> QED
      BY <1>2, <1>3, <2>1, QuietMove
  <1>7. CASE Authorize(r)
    <2>1. /\ Others(r) /\ request'[r].pc = "call" /\ request'[r].forced = request[r].forced
          /\ request'[r].kept = request[r].kept /\ request[r].pc = "idle"
      BY <1>1, <1>7 DEF Authorize, Others, RequestRow, At
    <2> QED
      BY <1>2, <1>5, <2>1, QuietMove
  <1>8. CASE Answered(r) /\ ~Finish(r)
    <2>1. /\ Others(r) /\ request'[r].pc = "call" /\ request'[r].forced = request[r].forced
          /\ request'[r].kept = request[r].kept /\ request[r].pc = "call"
      BY <1>1, <1>8 DEF Answered, Others, RequestRow, At
    <2> QED
      BY <1>2, <1>5, <2>1, QuietMove
  <1>9. CASE Refused(r) /\ ~Finish(r)
    <2>1. /\ request[r].pc = "call"
          /\ request' = [request EXCEPT ![r] =
                            [request[r] EXCEPT !.pc = "wait", !.recovered = TRUE]]
      BY <1>9 DEF Refused, At
    <2>2. /\ Others(r) /\ request'[r].pc = "wait" /\ request'[r].forced = request[r].forced
          /\ request'[r].kept = request[r].kept
      BY <1>1, <2>1 DEF Others, RequestRow
    <2> QED
      BY <1>2, <1>5, <2>1, <2>2, QuietMove
  <1>10. CASE Open(r)
    <2>1. /\ Others(r) /\ request'[r].pc \in {"token", "session"}
          /\ request'[r].pc = "session" => request'[r].kept = 0
          /\ request'[r].forced = request[r].forced
          /\ request'[r].kept \in {user.refresh, 0} /\ request[r].pc = "idle"
      BY <1>1, <1>10 DEF Open, Others, RequestRow, At
    <2> QED
      BY <1>2, <1>5, <2>1, QuietMove
  <1>11. CASE EnterProcess(r)
    <2>1. /\ Others(r) /\ request'[r].pc = "rowwait" /\ request'[r].forced = request[r].forced
          /\ request'[r].kept = request[r].kept /\ request[r].pc = "wait"
      BY <1>1, <1>11 DEF EnterProcess, To, Others, RequestRow, At
    <2> QED
      BY <1>2, <1>5, <2>1, QuietMove
  <1>12. CASE LockRow(r)
    <2>1. CASE request' = [request EXCEPT ![r] =
                             [request[r] EXCEPT !.pc = "token", !.base = NextBase(r)]]
      <3>1. /\ Others(r) /\ request'[r].pc = "token" /\ request'[r].forced = request[r].forced
            /\ request'[r].kept = request[r].kept
        BY <1>1, <2>1 DEF Others, RequestRow
      <3>2. request[r].pc = "rowwait"
        BY <1>12 DEF LockRow, At
      <3> QED
        BY <1>2, <1>5, <3>1, <3>2, QuietMove
    <2> QED
      BY <1>4, <1>6, <1>12, <2>1 DEF LockRow
  <1>13. CASE AskToken(r)
    <2> DEFINE pc == IF StoredTokenServes(r) THEN WithToken(r) ELSE "refresh"
    <2>1. /\ Others(r) /\ request'[r].pc = pc /\ request'[r].forced = request[r].forced
          /\ request'[r].kept = request[r].kept /\ request[r].pc = "token"
      BY <1>1, <1>13 DEF AskToken, Others, RequestRow, At
    <2>2. ~StoredTokenServes(r) => user.access \in tired \cup revoked
      BY <1>1, <2>1 DEF StoredTokenServes, Prudent
    <2>3. \A q \in Requests : ~HoldsUser(q)
      BY <1>13 DEF AskToken
    <2>4. pc \in {"open", "flush", "refresh"} /\ (pc = "refresh" => ~StoredTokenServes(r))
      BY DEF WithToken
    <2> HIDE DEF pc
    <2>5. Prudent(r)'
      BY <1>1, <1>2, <2>1, <2>2, <2>4 DEF Prudent, control
    <2> QED
      BY <1>2, <2>1, <2>3, <2>4, <2>5, QuietStep
  <1>14. CASE OpenWorkspace(r) /\ ~Finish(r)
    <2> DEFINE n == request[r].opens + 1
    <2>1. CASE request' = [request EXCEPT ![r] = [request[r] EXCEPT !.pc = "boot", !.opens = n]]
      <3> HIDE DEF n
      <3>1. /\ Others(r) /\ request'[r].pc = "boot" /\ request'[r].kept = request[r].kept
            /\ request[r].pc = "open"
        BY <1>1, <1>14, <2>1 DEF OpenWorkspace, At, Others, RequestRow
      <3> QED
        BY <1>2, <1>3, <3>1, QuietMove
    <2>2. CASE /\ request' = [request EXCEPT ![r] =
                                [request[r] EXCEPT !.pc = "token", !.opens = n, !.forced = TRUE]]
               /\ request[r].token \in revoked
      <3> HIDE DEF n
      <3>1. /\ Others(r) /\ request'[r].pc = "token" /\ request'[r].kept = request[r].kept
            /\ request'[r].token = request[r].token
        BY <1>1, <2>2 DEF Others, RequestRow
      <3>2. Prudent(r)' /\ ~HoldsUser(r)'
        BY <1>1, <1>2, <2>2, <3>1 DEF Prudent, HoldsUser, HoldsSession, control
      <3> QED
        BY <1>2, <1>3, <3>1, <3>2, QuietStep
    <2> QED
      BY <1>14, <2>1, <2>2 DEF OpenWorkspace
  <1>15. CASE Bootstrap(r) /\ ~Finish(r)
    <2>1. CASE request' = [request EXCEPT ![r] =
                             [request[r] EXCEPT !.pc = IF r \in Opens THEN "bind" ELSE "commit",
                                                !.cookie = Cookie(Of[r], issued[Of[r]] + 1),
                                                !.boots = request[r].boots + 1]]
      <3>1. /\ Others(r) /\ request'[r].pc = (IF r \in Opens THEN "bind" ELSE "commit")
            /\ request'[r].kept = request[r].kept /\ request[r].pc = "boot"
        BY <1>1, <1>15, <2>1 DEF Bootstrap, At, Others, RequestRow
      <3> QED
        BY <1>2, <1>3, <3>1, QuietMove
    <2>2. CASE FailedBootstrap(r)
      <3>0. PICK x \in RequestRow :
               request' = [request EXCEPT ![r] = x] /\ Failed(r, request[r], x)
        BY <1>1, <2>2, FailedRow
      <3>1. /\ Others(r) /\ request'[r].pc \in {"open", "boot"}
            /\ request'[r].kept = request[r].kept /\ request[r].pc = "boot"
        BY <1>1, <1>15, <3>0 DEF Bootstrap, At, Others, Failed
      <3> QED
        BY <1>2, <1>3, <3>1, QuietMove
    <2> QED
      BY <1>15, <2>1, <2>2 DEF Bootstrap
  <1>16. CASE Commit(r)
    BY <1>4, <1>6, <1>16 DEF Commit
  <1>17. CASE ReadBinding(r)
    <2>1. /\ Others(r) /\ request'[r].pc = "commit" /\ request'[r].kept = request[r].kept
          /\ request[r].pc = "bind"
      BY <1>1, <1>17 DEF ReadBinding, Others, RequestRow, At
    <2> QED
      BY <1>2, <1>3, <2>1, QuietMove
  <1>18. CASE Flush(r)
    <2>1. /\ Others(r) /\ request'[r].pc = "session" /\ request'[r].kept = request[r].kept
          /\ request'[r].forced = request[r].forced /\ request[r].pc = "flush"
      BY <1>1, <1>18 DEF Flush, To, Others, RequestRow, At
    <2>2. \A q \in Requests : ~HoldsUser(q)
      BY <1>18 DEF Flush
    <2>3. Prudent(r)'
      BY <1>1, <1>2, <2>1 DEF Prudent, control
    <2> QED
      BY <1>2, <2>1, <2>2, <2>3, QuietStep
  <1>19. CASE LockSession(r) /\ ~Finish(r)
    <2>1. /\ Others(r) /\ request'[r].pc = "open" /\ request'[r].kept = request[r].kept
          /\ request[r].pc = "session"
      BY <1>1, <1>19 DEF LockSession, To, Others, RequestRow, At
    <2> QED
      BY <1>2, <1>3, <2>1, QuietMove
  <1> QED
    BY <1>4, <1>7, <1>8, <1>9, <1>10, <1>11, <1>12, <1>13, <1>14, <1>15, <1>16, <1>17, <1>18,
       <1>19

\* A refresh: the stored token is consumed, and its successor not used before.
LEMMA RefreshStep ==
    ASSUME IInv, TokenInv, NEW r \in Requests, Refresh(r)
    PROVE  TokenInv'
  <1> USE SandboxAssumption
  <1>1. /\ request \in [Requests -> RequestRow] /\ request[r] \in RequestRow
        /\ pairs \in Nat /\ request[r].pc = "refresh" /\ HoldsUser(r)
        /\ UNCHANGED <<user, tired, revoked>>
        /\ user.refresh \in 1..pairs /\ spent \subseteq 1..pairs
    BY DEF IInv, Typed, TokenInv, Issued, Refresh, At, HoldsUser
  <1>2. \A q \in Requests : q # r => /\ ~HoldsUser(q) /\ Prudent(q)
                                     /\ request[q].pc \notin {"refresh", "store"}
                                     /\ request[q].kept \in Nat
    BY <1>1 DEF TokenInv, OneRefresher, HoldsUser, IInv, Typed, RequestRow
  <1>3. CASE Finish(r) /\ UNCHANGED <<pairs, spent, mislaid>>
    BY <1>1, <1>3, QuietFinish DEF control
  <1>4. CASE Finish(r) /\ UNCHANGED pairs /\ spent' = spent \cup {user.refresh} /\ mislaid' = TRUE
    <2>1. /\ Others(r) /\ request'[r].pc = "done" /\ request'[r].kept = 0
          /\ request'[r].forced = FALSE
      BY <1>1, <1>4 DEF Finish, Finished, Blank, Others
    <2>2. \A q \in Requests : Prudent(q)' /\ ~HoldsUser(q)'
      BY <1>1, <1>2, <1>4, <2>1 DEF Prudent, HoldsUser, HoldsSession, Others
    <2>3. Issued' /\ Succeeded'
      BY <1>1, <1>4 DEF Issued, Succeeded
    <2> QED
      BY <2>2, <2>3 DEF TokenInv, OneRefresher
  <1>5. CASE /\ pairs' = pairs + 1 /\ spent' = spent \cup {user.refresh}
             /\ request' = [request EXCEPT ![r] =
                               [request[r] EXCEPT !.pc = "store", !.token = pairs + 1]]
    <2>1. /\ Others(r) /\ request'[r].pc = "store" /\ request'[r].kept = request[r].kept
          /\ request'[r].forced = request[r].forced /\ request'[r].token = pairs + 1
      BY <1>1, <1>5 DEF Others, RequestRow
    <2>2. Issued' /\ pairs + 1 \in (1..pairs') \ spent'
      BY <1>1, <1>5 DEF Issued
    <2>3. Prudent(r)'
      BY <1>1, <1>5, <2>1, <2>2 DEF Prudent, TokenInv, RequestRow
    <2>4. \A q \in Requests : q # r => Prudent(q)' /\ ~HoldsUser(q)'
      BY <1>1, <1>2, <1>5, <2>1 DEF Prudent, HoldsUser, HoldsSession, Others
    <2>5. Succeeded' /\ OneRefresher'
      BY <2>1, <2>4 DEF Succeeded, OneRefresher, At
    <2> QED
      BY <2>2, <2>3, <2>4, <2>5 DEF TokenInv
  <1> QED
    BY <1>3, <1>4, <1>5 DEF Refresh

\* The successor is stored, or lost with the commit.
LEMMA StoreStep ==
    ASSUME IInv, TokenInv, NEW r \in Requests, Store(r)
    PROVE  TokenInv'
  <1> USE SandboxAssumption
  <1>1. /\ request \in [Requests -> RequestRow] /\ request[r] \in RequestRow
        /\ pairs \in Nat /\ request[r].pc = "store" /\ HoldsUser(r)
        /\ UNCHANGED <<pairs, spent, tired, revoked>>
        /\ user.refresh \in 1..pairs /\ spent \subseteq 1..pairs
        /\ request[r].token \in (1..pairs) \ spent
    BY DEF IInv, Typed, TokenInv, Issued, Store, At, HoldsUser, control, Prudent
  <1>2. \A q \in Requests : q # r => /\ ~HoldsUser(q) /\ Prudent(q)
                                     /\ request[q].pc \notin {"refresh", "store"}
    BY <1>1 DEF TokenInv, OneRefresher, HoldsUser
  <1>3. /\ Others(r) /\ request'[r].pc \in {"open", "flush", "done"}
        /\ request'[r].kept \in {request[r].kept, 0}
        /\ request'[r].pc = "done" => request'[r].kept = 0 /\ request'[r].forced = FALSE
        /\ request'[r].pc = "open" => r \notin Opens
    <2>1. CASE Finish(r)
      BY <1>1, <2>1 DEF Finish, Finished, Blank, Others
    <2>2. CASE To(r, WithToken(r))
      BY <1>1, <2>2 DEF WithToken, To, Others, RequestRow
    <2> QED
      BY <2>1, <2>2 DEF Store
  <1>4. \A q \in Requests : Prudent(q)' /\ ~HoldsUser(q)'
    BY <1>1, <1>2, <1>3 DEF Prudent, HoldsUser, HoldsSession, Others, TokenInv
  <1>5. Issued' /\ Succeeded'
    BY <1>1 DEF Store, Issued, Succeeded
  <1> QED
    BY <1>4, <1>5 DEF TokenInv, OneRefresher

\* An /open writes its copy back: not while somebody refreshes.
LEMMA WriteBackStep ==
    ASSUME IInv, TokenInv, NEW r \in Requests, CommitOpen(r)
    PROVE  TokenInv'
  <1> USE SandboxAssumption
  <1>1. /\ request \in [Requests -> RequestRow] /\ request[r] \in RequestRow
        /\ request[r].pc = "commit" /\ Finish(r) /\ UNCHANGED control
        /\ request[r].kept \in 0..pairs /\ pairs \in Nat
    BY DEF IInv, Typed, CommitOpen, At, TokenInv, Prudent, RequestRow
  <1>2. CASE user' = user /\ (mislaid => mislaid')
    BY <1>1, <1>2, QuietFinish
  <1>3. CASE /\ request[r].kept # 0
             /\ user' = [access |-> request[r].token, refresh |-> request[r].kept]
             /\ (mislaid \/ request[r].kept # user.refresh => mislaid')
    <2>1. /\ Others(r) /\ request'[r].pc = "done" /\ request'[r].kept = 0
          /\ request'[r].forced = FALSE
      BY <1>1 DEF Finish, Finished, Blank, Others
    <2>6. HoldsUser(r)
      BY <1>1, <1>3 DEF HoldsUser, HoldsSession, CommitOpen
    <2>2. \A q \in Requests : /\ request[q].pc \notin {"refresh", "store"} /\ Prudent(q)
                              /\ q # r => ~HoldsUser(q)
      BY <1>1, <2>6 DEF HoldsUser, TokenInv, OneRefresher
    <2>3. \A q \in Requests : Prudent(q)' /\ ~HoldsUser(q)'
      BY <1>1, <2>1, <2>2 DEF Prudent, HoldsUser, HoldsSession, Others, control
    <2>4. Issued'
      BY <1>1, <1>3 DEF Issued, TokenInv, control
    <2>5. Succeeded'
      <3> SUFFICES ASSUME user'.refresh \in spent', ~mislaid' PROVE FALSE
        BY DEF Succeeded
      <3>1. user.refresh \in spent /\ ~mislaid
        BY <1>1, <1>3 DEF control
      <3> QED
        BY <2>2, <3>1 DEF TokenInv, Succeeded, At
    <2> QED
      BY <2>3, <2>4, <2>5 DEF TokenInv, OneRefresher
  <1>4. \/ UNCHANGED <<user, mislaid>>
        \/ mislaid' = (mislaid \/ (request[r].kept # 0 /\ request[r].kept # user.refresh))
    BY DEF CommitOpen
  <1>5. mislaid => mislaid'
    BY <1>4, Zenon
  <1>6. CASE request[r].kept = 0
    <2>1. user' = user
      BY <1>6 DEF CommitOpen
    <2> QED
      BY <1>2, <1>5, <2>1
  <1>7. CASE request[r].kept # 0 /\ ~UNCHANGED <<user, mislaid>>
    BY <1>3, <1>4, <1>7, Zenon DEF CommitOpen
  <1> QED
    BY <1>2, <1>5, <1>6, <1>7

LEMMA TokenStep == IInv /\ TokenInv /\ [Next]_vars => TokenInv'
  <1> SUFFICES ASSUME IInv, TokenInv, [Next]_vars PROVE TokenInv'
    OBVIOUS
  <1>1. CASE UNCHANGED <<user, request, control, mislaid>>
    BY <1>1 DEF TokenInv, Issued, OneRefresher, HoldsUser, HoldsSession, Succeeded, Prudent, At,
       control
  <1>2. ASSUME NEW p \in 1..pairs, Age(p) PROVE TokenInv'
    <2>1. /\ UNCHANGED <<user, request, pairs, spent, mislaid>>
          /\ tired \subseteq tired' /\ revoked \subseteq revoked'
      BY <1>2 DEF Age
    <2> QED
      BY <2>1 DEF TokenInv, Issued, OneRefresher, HoldsUser, HoldsSession, Succeeded, Prudent, At
  <1>3. ASSUME NEW w \in Workers, Crash(w) PROVE TokenInv'
    <2>1. /\ UNCHANGED <<user, pairs, tired, revoked, spent>>
          /\ \A q \in Requests : request'[q] = request[q] \/ request'[q] = Finished(q)
          /\ \A q \in Requests : At(q, "store") /\ ~mislaid' => request'[q] = request[q]
          /\ mislaid => mislaid'
      BY <1>3 DEF Crash, control, At
    <2>2. \A q \in Requests : /\ Finished(q).pc = "done" /\ Finished(q).kept = 0
                              /\ Finished(q).forced = FALSE
      BY DEF Finished, Blank
    <2>3. \A q \in Requests : Prudent(q)' /\ (HoldsUser(q)' => HoldsUser(q))
      BY <2>1, <2>2 DEF Prudent, HoldsUser, HoldsSession, TokenInv, IInv, Typed
    <2>4. OneRefresher' /\ Issued'
      BY <2>1, <2>3 DEF OneRefresher, TokenInv, Issued
    <2>5. Succeeded'
      BY <2>1 DEF Succeeded, TokenInv, At, IInv, Typed
    <2> QED
      BY <2>3, <2>4, <2>5 DEF TokenInv
  <1>4. ASSUME NEW c \in live, Expire(c) PROVE TokenInv'
    BY <1>1, <1>4 DEF Expire
  <1>5. CASE Delete \/ Cascade \/ GiveUp
    BY <1>1, <1>5 DEF Delete, Cascade, GiveUp
  <1>6. CASE UNCHANGED vars
    BY <1>1, <1>6 DEF vars
  <1> QED
    BY <1>2, <1>3, <1>4, <1>5, <1>6, QuietSteps, RefreshStep, StoreStep, WriteBackStep DEF Next,
       Renew

LEMMA TokenInductive == Spec => []TokenInv
  <1>1. Init => TokenInv
    BY TokenInit
  <1>2. IInv /\ TokenInv /\ [Next]_vars => TokenInv'
    BY TokenStep
  <1> QED
    BY <1>1, <1>2, Inductive, PTL DEF Spec

\* A refresh token is sent again only when its successor was lost, or an /open
\* wrote an older one over it (_locked_control_plane_user_authorization commits
\* the pair under the lock on the user).
THEOREM RefreshSafety == Spec => []RefreshSentOnce
  <1>1. TokenInv => RefreshSentOnce
    BY DEF TokenInv, Succeeded, OneRefresher, HoldsUser, At, RefreshSentOnce
  <1> QED
    BY <1>1, TokenInductive, PTL

\* No request refreshes an access token that still serves: what it read under
\* the lock on the user is what it acts upon.
THEOREM RefreshNeed == Spec => []RefreshIsNeeded
  <1>1. TokenInv => RefreshIsNeeded
    BY DEF TokenInv, Prudent, At, RefreshIsNeeded
  <1> QED
    BY <1>1, TokenInductive, PTL

-----------------------------------------------------------------------------
\* The budget of a request.

\* Before it opens the workspace again, every time it did was followed by a
\* bootstrap that failed, but for the one the control plane refused; an /open
\* does so only for a new launch token.
Unforced(q) == IF q.forced THEN 1 ELSE 0
Again(q)    == IF q.relaunched THEN 1 ELSE 0
Opening     == {"token", "refresh", "store", "flush", "session", "open"}
Fresh(q)    == q.pc \in {"idle", "wait", "rowwait"} \/ (q.pc = "call" /\ ~q.recovered)

Rounds(r, q) == IF r \in Opens THEN Again(q) ELSE q.attempt + Unforced(q)
Failures(q)  == q.attempt + Again(q)

Thrifty(r, q) ==
    /\ q.opens <= (IF r \in Opens THEN 2 ELSE 3)
    /\ q.boots <= (IF r \in Opens THEN BootRetries + 2 ELSE 2)
    /\ q.attempt <= (IF r \in Opens THEN BootRetries ELSE 1)
    /\ r \notin Opens => ~q.relaunched
    /\ Fresh(q) => q.opens = 0 /\ q.boots = 0 /\ ~q.forced
    /\ q.pc \in Opening => q.boots <= Failures(q) /\ q.opens <= Rounds(r, q)
    /\ q.pc = "boot" => q.boots <= Failures(q) /\ q.opens <= 1 + Rounds(r, q)
    /\ r \notin Opens /\ q.pc \in Renewing => q.recovered

\* A move that spends nothing.
Spendless(q, p) ==
    /\ p.opens = q.opens /\ p.boots = q.boots
    /\ p.recovered = q.recovered /\ p.forced = q.forced
    /\ p.attempt = q.attempt /\ p.relaunched = q.relaunched

LEMMA FreeMove ==
    ASSUME NEW r \in Requests, NEW q \in RequestRow, NEW p, Thrifty(r, q), Spendless(q, p),
           \/ q.pc = "idle" /\ p.pc = "call"
           \/ q.pc = "idle" /\ r \in Opens /\ p.pc \in Opening
           \/ q.pc = "call" /\ p.pc = "call"
           \/ q.pc \in {"wait", "rowwait"} /\ p.pc \in Opening \cup {"rowwait"}
           \/ q.pc \in Opening /\ p.pc \in Opening
           \/ q.pc = "bind" /\ p.pc = "commit"
    PROVE  Thrifty(r, p)
  <1>1. /\ q.opens \in Nat /\ q.boots \in Nat /\ q.forced \in BOOLEAN
        /\ q.recovered \in BOOLEAN /\ q.attempt \in Nat /\ q.relaunched \in BOOLEAN
    BY DEF RequestRow
  <1>2. Fresh(p) => Fresh(q)
    BY DEF Fresh, Opening, Spendless
  <1>3. p.pc \in Renewing => q.pc \in Renewing \/ r \in Opens
    BY DEF Renewing, Opening
  <1>4. p.pc \in Opening => q.boots <= Failures(q) /\ q.opens <= Rounds(r, q)
    BY <1>1 DEF Thrifty, Fresh, Opening, Unforced, Rounds, Failures, Again
  <1>5. p.pc # "boot" /\ Failures(p) = Failures(q) /\ Rounds(r, p) = Rounds(r, q)
    BY DEF Opening, Unforced, Again, Failures, Rounds, Spendless
  <1> QED
    BY <1>1, <1>2, <1>3, <1>4, <1>5 DEF Thrifty, Spendless

\* Every step of a request keeps within the budget.
LEMMA ThriftyStep ==
    ASSUME Typed, NEW r \in Requests, Thrifty(r, request[r]),
           Authorize(r) \/ Answered(r) \/ Refused(r) \/ Open(r) \/ Renew(r)
    PROVE  Thrifty(r, request'[r])
  <1> DEFINE q == request[r]
             p == request'[r]
  <1>1. /\ request \in [Requests -> RequestRow] /\ q \in RequestRow
        /\ q.opens \in Nat /\ q.boots \in Nat /\ q.forced \in BOOLEAN
        /\ q.recovered \in BOOLEAN /\ q.attempt \in Nat /\ q.relaunched \in BOOLEAN
    BY DEF Typed, RequestRow
  <1>2. CASE Finish(r)
    <2>1. p = Finished(r)
      BY <1>1, <1>2 DEF Finish
    <2> QED
      BY <2>1, SandboxAssumption DEF Finished, Blank, Thrifty, Fresh, Opening, Renewing
  <1>3. ASSUME NEW c, NEW g, Resume(r, c, g), Fresh(q) \/ q.recovered
        PROVE  Thrifty(r, p)
    <2>1. p = [q EXCEPT !.pc = "call", !.cookie = c, !.seen = g,
                        !.token = 0, !.base = 0, !.forced = FALSE]
      BY <1>1, <1>3 DEF Resume
    <2>2. /\ p.pc = "call" /\ p.opens = q.opens /\ p.boots = q.boots
          /\ p.forced = FALSE /\ p.recovered = q.recovered
          /\ p.attempt = q.attempt /\ p.relaunched = q.relaunched
      BY <1>1, <2>1 DEF RequestRow
    <2> QED
      BY <1>1, <1>3, <2>2 DEF Thrifty, Fresh, Opening, Renewing
  <1>4. ASSUME NEW pc, To(r, pc)
        PROVE  p.pc = pc /\ Spendless(q, p)
    <2>1. p = [q EXCEPT !.pc = pc]
      BY <1>1, <1>4 DEF To
    <2> QED
      BY <1>1, <2>1 DEF RequestRow, Spendless
  <1>5. CASE Authorize(r)
    <2>1. PICK stage \in {"align", "send"} :
             p = [q EXCEPT !.pc = "call", !.stage = stage, !.cookie = row[Of[r]].cookie,
                           !.seen = row[Of[r]].generation]
      BY <1>1, <1>5 DEF Authorize
    <2>2. p.pc = "call" /\ Spendless(q, p) /\ q.pc = "idle"
      BY <1>1, <1>5, <2>1 DEF RequestRow, Spendless, Authorize, At
    <2> QED
      BY <1>1, <2>2, FreeMove
  <1>6. CASE Answered(r)
    <2>1. CASE p = [q EXCEPT !.stage = "send"]
      <3>1. p.pc = q.pc /\ Spendless(q, p) /\ q.pc = "call"
        BY <1>1, <1>6, <2>1 DEF RequestRow, Spendless, Answered, At
      <3> QED
        BY <1>1, <3>1, FreeMove
    <2> QED
      BY <1>1, <1>2, <1>6, <2>1 DEF Answered
  <1>7. CASE Refused(r)
    <2>1. CASE ~q.recovered /\ p = [q EXCEPT !.pc = "wait", !.recovered = TRUE]
      <3>1. /\ p.pc = "wait" /\ p.opens = q.opens /\ p.boots = q.boots
            /\ p.forced = q.forced /\ p.recovered = TRUE /\ q.pc = "call"
            /\ p.attempt = q.attempt /\ p.relaunched = q.relaunched
        BY <1>1, <1>7, <2>1 DEF RequestRow, Refused, At
      <3> QED
        BY <1>1, <2>1, <3>1 DEF Thrifty, Fresh, Opening
    <2> QED
      BY <1>1, <1>2, <1>7, <2>1 DEF Refused
  <1>8. CASE Open(r)
    <2>1. PICK pc \in {"token", "session"}, kept \in {user.refresh, 0} :
             p = [q EXCEPT !.pc = pc, !.token = user.access, !.kept = kept]
      BY <1>1, <1>8 DEF Open
    <2>2. p.pc \in Opening /\ Spendless(q, p) /\ q.pc = "idle" /\ r \in Opens
      BY <1>1, <1>8, <2>1 DEF RequestRow, Spendless, Open, At, Opening
    <2> QED
      BY <1>1, <2>2, FreeMove
  <1>9. CASE EnterProcess(r)
    <2>1. p.pc = "rowwait" /\ Spendless(q, p) /\ q.pc = "wait"
      BY <1>4, <1>9 DEF EnterProcess, At
    <2> QED
      BY <1>1, <2>1, FreeMove
  <1>10. CASE LockRow(r)
    <2>1. q.pc = "rowwait"
      BY <1>10 DEF LockRow, At
    <2>2. CASE p = [q EXCEPT !.pc = "token", !.base = NextBase(r)]
      <3>1. p.pc \in Opening /\ Spendless(q, p)
        BY <1>1, <2>2 DEF RequestRow, Spendless, Opening
      <3> QED
        BY <1>1, <2>1, <3>1, FreeMove
    <2> QED
      BY <1>1, <1>2, <1>3, <1>10, <2>1, <2>2 DEF LockRow, Fresh
  <1>11. CASE AskToken(r)
    <2>1. PICK pc \in Opening : p = [q EXCEPT !.pc = pc, !.token = user.access]
      BY <1>1, <1>11 DEF AskToken, WithToken, Opening
    <2>2. p.pc \in Opening /\ Spendless(q, p) /\ q.pc \in Opening
      BY <1>1, <1>11, <2>1 DEF RequestRow, Spendless, AskToken, At, Opening
    <2> QED
      BY <1>1, <2>2, FreeMove
  <1>12. CASE Refresh(r)
    <2>1. CASE p = [q EXCEPT !.pc = "store", !.token = pairs + 1]
      <3>1. p.pc \in Opening /\ Spendless(q, p) /\ q.pc \in Opening
        BY <1>1, <1>12, <2>1 DEF RequestRow, Spendless, Refresh, At, Opening
      <3> QED
        BY <1>1, <3>1, FreeMove
    <2> QED
      BY <1>1, <1>2, <1>12, <2>1 DEF Refresh
  <1>13. CASE Store(r)
    <2>1. q.pc \in Opening /\ WithToken(r) \in Opening
      BY <1>13 DEF Store, At, Opening, WithToken
    <2>2. CASE To(r, WithToken(r))
      <3>1. p.pc \in Opening /\ Spendless(q, p)
        BY <1>4, <2>1, <2>2
      <3> QED
        BY <1>1, <2>1, <3>1, FreeMove
    <2> QED
      BY <1>2, <1>13, <2>2 DEF Store
  <1>14. CASE OpenWorkspace(r)
    <2> DEFINE n == q.opens + 1
    <2>1. q.pc = "open" /\ q.boots <= Failures(q) /\ q.opens <= Rounds(r, q)
      BY <1>14 DEF OpenWorkspace, At, Thrifty, Opening
    <2>2. Rounds(r, q) <= (IF r \in Opens THEN 1 ELSE 2)
      BY <1>1 DEF Rounds, Again, Unforced, Thrifty
    <2>3. r \notin Opens => q.recovered
      BY <2>1 DEF Thrifty, Renewing
    <2>4. CASE p = [q EXCEPT !.pc = "boot", !.opens = n]
      <3>1. /\ p.pc = "boot" /\ p.opens = n /\ p.boots = q.boots /\ p.forced = q.forced
            /\ p.recovered = q.recovered /\ p.attempt = q.attempt
            /\ p.relaunched = q.relaunched
        BY <1>1, <2>4 DEF RequestRow
      <3>2. Failures(p) = Failures(q) /\ Rounds(r, p) = Rounds(r, q)
        BY <3>1 DEF Failures, Rounds, Again, Unforced
      <3>3. Rounds(r, q) \in Nat
        BY <1>1 DEF Rounds, Again, Unforced
      <3> QED
        BY <1>1, <2>1, <2>2, <2>3, <3>1, <3>2, <3>3 DEF Thrifty, Fresh, Opening
    <2>5. CASE /\ r \notin Opens /\ ~q.forced
               /\ p = [q EXCEPT !.pc = "token", !.opens = n, !.forced = TRUE]
      <3>1. /\ p.pc = "token" /\ p.opens = n /\ p.boots = q.boots /\ p.forced = TRUE
            /\ p.recovered = q.recovered /\ p.attempt = q.attempt
            /\ p.relaunched = q.relaunched
        BY <1>1, <2>5 DEF RequestRow
      <3>2. Failures(p) = Failures(q) /\ Rounds(r, p) = Rounds(r, q) + 1
        BY <1>1, <2>5, <3>1 DEF Failures, Rounds, Again, Unforced
      <3>3. Rounds(r, q) \in Nat
        BY <1>1 DEF Rounds, Again, Unforced
      <3> QED
        BY <1>1, <2>1, <2>2, <2>3, <2>5, <3>1, <3>2, <3>3 DEF Thrifty, Fresh, Opening
    <2>6. \/ p = [q EXCEPT !.pc = "boot", !.opens = n]
          \/ /\ r \notin Opens /\ ~q.forced
             /\ p = [q EXCEPT !.pc = "token", !.opens = n, !.forced = TRUE]
          \/ Finish(r)
      BY <1>1, <1>14 DEF OpenWorkspace
    <2> QED
      BY <1>2, <2>4, <2>5, <2>6
  <1>15. CASE Bootstrap(r)
    <2> DEFINE c  == Cookie(Of[r], issued[Of[r]] + 1)
               n  == q.boots + 1
               pc == IF r \in Opens THEN "bind" ELSE "commit"
    <2>1. /\ q.pc = "boot" /\ q.boots <= Failures(q) /\ q.opens <= 1 + Rounds(r, q)
      BY <1>15 DEF Bootstrap, At, Thrifty
    <2>2. r \notin Opens => q.recovered
      BY <2>1 DEF Thrifty, Renewing
    <2>3. \/ p = [q EXCEPT !.pc = pc, !.cookie = c, !.boots = n]
          \/ FailedBootstrap(r)
          \/ Finish(r)
      BY <1>1, <1>15 DEF Bootstrap
    <2>4. pc \in {"bind", "commit"}
      OBVIOUS
    <2>7. Failures(q) <= (IF r \in Opens THEN BootRetries + 1 ELSE 1)
      BY <1>1, SandboxAssumption DEF Failures, Again, Thrifty
    <2> HIDE DEF c, pc
    <2>5. CASE p = [q EXCEPT !.pc = pc, !.cookie = c, !.boots = n]
      <3>1. /\ p.pc = pc /\ p.opens = q.opens /\ p.boots = n /\ p.recovered = q.recovered
            /\ p.attempt = q.attempt /\ p.relaunched = q.relaunched
        BY <1>1, <2>5 DEF RequestRow
      <3>2. Failures(q) \in Nat
        BY <1>1 DEF Failures, Again
      <3> QED
        BY <1>1, <2>1, <2>2, <2>4, <2>7, <3>1, <3>2, SandboxAssumption
        DEF Thrifty, Fresh, Opening
    <2>6. CASE FailedBootstrap(r)
      <3>1. PICK x \in RequestRow : p = x /\ Failed(r, q, x)
        BY <1>1, <2>6, FailedRow
      <3>2. /\ p.opens = q.opens /\ p.boots = n /\ p.recovered = q.recovered
            /\ p.forced = q.forced
        BY <3>1 DEF Failed
      <3>3. CASE /\ r \notin Opens /\ q.attempt = 0
                 /\ p.pc = "open" /\ p.attempt = 1 /\ p.relaunched = q.relaunched
        <4>1. /\ Failures(p) = Failures(q) + 1 /\ Rounds(r, p) = 1 + Rounds(r, q)
              /\ Failures(q) \in Nat /\ Rounds(r, q) \in Nat
          BY <1>1, <3>2, <3>3 DEF Failures, Rounds, Again, Unforced
        <4> QED
          BY <1>1, <2>1, <2>2, <2>7, <3>2, <3>3, <4>1 DEF Thrifty, Fresh, Opening
      <3>4. CASE /\ r \in Opens /\ ~q.relaunched
                 /\ p.pc = "open" /\ p.attempt = q.attempt /\ p.relaunched = TRUE
        <4>1. /\ Failures(p) = Failures(q) + 1 /\ Rounds(r, p) = 1 + Rounds(r, q)
              /\ Failures(q) \in Nat /\ Rounds(r, q) \in Nat
          BY <1>1, <3>2, <3>4 DEF Failures, Rounds, Again, Unforced
        <4> QED
          BY <1>1, <2>1, <2>7, <3>2, <3>4, <4>1, SandboxAssumption DEF Thrifty, Fresh, Opening
      <3>5. CASE /\ r \in Opens /\ q.attempt < BootRetries
                 /\ p.pc = q.pc /\ p.attempt = q.attempt + 1 /\ p.relaunched = q.relaunched
        <4>1. /\ Failures(p) = Failures(q) + 1 /\ Rounds(r, p) = Rounds(r, q)
              /\ Failures(q) \in Nat /\ Rounds(r, q) \in Nat
          BY <1>1, <3>2, <3>5 DEF Failures, Rounds, Again, Unforced
        <4> QED
          BY <1>1, <2>1, <2>7, <3>2, <3>5, <4>1, SandboxAssumption DEF Thrifty, Fresh, Opening
      <3> QED
        BY <3>1, <3>3, <3>4, <3>5 DEF Failed
    <2> QED
      BY <1>2, <2>3, <2>5, <2>6
  <1>16. CASE Commit(r)
    <2>1. q.recovered
      BY <1>16 DEF Commit, At, Thrifty, Renewing
    <2> QED
      BY <1>2, <1>3, <1>16, <2>1 DEF Commit
  <1>17. CASE ReadBinding(r)
    <2>1. p = [q EXCEPT !.pc = "commit", !.base = binding]
      BY <1>1, <1>17 DEF ReadBinding
    <2>2. p.pc = "commit" /\ Spendless(q, p) /\ q.pc = "bind"
      BY <1>1, <1>17, <2>1 DEF RequestRow, Spendless, ReadBinding, At
    <2> QED
      BY <1>1, <2>2, FreeMove
  <1>18. CASE CommitOpen(r)
    BY <1>2, <1>18 DEF CommitOpen
  <1>19. CASE Flush(r)
    <2>1. p.pc \in Opening /\ Spendless(q, p) /\ q.pc \in Opening
      BY <1>4, <1>19 DEF Flush, At, Opening
    <2> QED
      BY <1>1, <2>1, FreeMove
  <1>20. CASE LockSession(r)
    <2>1. CASE To(r, "open")
      <3>1. p.pc \in Opening /\ Spendless(q, p) /\ q.pc \in Opening
        BY <1>4, <1>20, <2>1 DEF LockSession, At, Opening
      <3> QED
        BY <1>1, <3>1, FreeMove
    <2> QED
      BY <1>2, <1>20, <2>1 DEF LockSession
  <1> QED
    BY <1>5, <1>6, <1>7, <1>8, <1>9, <1>10, <1>11, <1>12, <1>13, <1>14, <1>15, <1>16,
       <1>17, <1>18, <1>19, <1>20 DEF Renew

\* A step of one request leaves the others alone.
LEMMA OneAtATime ==
    ASSUME Typed, NEW r \in Requests, NEW o \in Requests \ {r},
           Authorize(r) \/ Answered(r) \/ Refused(r) \/ Open(r) \/ Renew(r)
    PROVE  request'[o] = request[o]
  <1>1. request \in [Requests -> RequestRow]
    BY DEF Typed
  <1> QED
    BY <1>1
    DEF Authorize, Answered, Refused, Open, Renew, EnterProcess, LockRow, AskToken,
        Refresh, Store, OpenWorkspace, Bootstrap, Commit, Flush, LockSession, ReadBinding,
        CommitOpen, Finish, To, Resume, FailedBootstrap

Budget == \A r \in Requests : Thrifty(r, request[r])

LEMMA BudgetStep == Typed /\ Budget /\ [Next]_vars => Budget'
  <1> SUFFICES ASSUME Typed, Budget, [Next]_vars, NEW o \in Requests
               PROVE  Thrifty(o, request'[o])
    BY DEF Budget
  <1>1. Thrifty(o, request[o])
    BY DEF Budget
  <1>2. ASSUME NEW r \in Requests,
               Authorize(r) \/ Answered(r) \/ Refused(r) \/ Open(r) \/ Renew(r)
        PROVE  Thrifty(o, request'[o])
    BY <1>1, <1>2, ThriftyStep, OneAtATime
  <1>3. ASSUME NEW w \in Workers, Crash(w)
        PROVE  Thrifty(o, request'[o])
    <2>1. request'[o] = request[o] \/ request'[o] = Finished(o)
      BY <1>3 DEF Crash
    <2>2. Thrifty(o, Finished(o))
      BY SandboxAssumption DEF Finished, Blank, Thrifty, Fresh, Opening, Renewing
    <2> QED
      BY <1>1, <2>1, <2>2
  <1>4. CASE UNCHANGED request
    BY <1>1, <1>4
  <1> QED
    BY <1>2, <1>3, <1>4 DEF Next, Expire, Age, Delete, Cascade, GiveUp, vars

LEMMA BudgetInductive == Spec => []Budget
  <1>1. Init => Budget
    <2> SUFFICES ASSUME Init, NEW r \in Requests PROVE Thrifty(r, request[r])
      BY DEF Budget
    <2>1. request[r] = Blank(Of[r], "idle")
      BY DEF Init
    <2> QED
      BY <2>1, SandboxAssumption DEF Blank, Thrifty, Fresh, Opening, Renewing, Failures,
         Rounds, Again, Unforced
  <1>2. Typed /\ Budget /\ [Next]_vars => Budget'
    BY BudgetStep
  <1>3. IInv => Typed
    BY DEF IInv
  <1> QED
    BY <1>1, <1>2, <1>3, Inductive, PTL DEF Spec

\* Whatever fails and is tried again, a request of the proxy opens the workspace
\* three times at most and bootstraps twice (_renew_browser_runtime_session); an
\* /open opens it twice, and bootstraps twice besides its waits, of which it has
\* as many as there are delays (open_code_session).
THEOREM BudgetKept == Spec => []Bounded
  <1>1. Budget => Bounded
    BY DEF Budget, Thrifty, Bounded
  <1> QED
    BY <1>1, BudgetInductive, PTL

-----------------------------------------------------------------------------
\* Cookies and tokens stay within their bounds.

\* A copy of a refresh token is carried by an /open, with an access token.
Carried(r) ==
    /\ request[r].token \in 0..MaxPairs
    /\ request[r].kept # 0 => r \in Opens /\ request[r].token # 0

Within ==
    /\ \A b \in Browsers : issued[b] <= MaxCookies
    /\ live \subseteq Cookies
    /\ pairs \in Pairs /\ user.access \in Pairs
    /\ tired \subseteq Pairs /\ revoked \subseteq Pairs
    /\ \A r \in Requests : Carried(r)
    /\ mislaid \in BOOLEAN

LEMMA WithinInit == Init => Within
  <1> SUFFICES ASSUME Init PROVE Within
    OBVIOUS
  <1> USE SandboxAssumption
  <1>1. /\ \A b \in Browsers : issued[b] = 0
        /\ \A r \in Requests : request[r] = Blank(Of[r], "idle")
        /\ pairs = 1 /\ user = [access |-> 1, refresh |-> 1]
        /\ tired = {} /\ revoked = {} /\ mislaid = FALSE
        /\ \E opened \in SUBSET Browsers : live = {Cookie(b, 0) : b \in opened}
    BY DEF Init
  <1>2. 1 \in Pairs /\ 0 \in 0..MaxPairs /\ 0 \in 0..MaxCookies
    BY DEF Pairs
  <1>3. live \subseteq Cookies
    BY <1>1, <1>2 DEF Cookies, Cookie
  <1>4. \A r \in Requests : Carried(r)
    <2>1. ASSUME NEW r \in Requests
          PROVE  request[r].token = 0 /\ request[r].kept = 0
      <3>1. request[r] = Blank(Of[r], "idle")
        BY DEF Init
      <3> QED
        BY <3>1 DEF Blank
    <2> QED
      BY <1>2, <2>1 DEF Carried
  <1>5. mislaid \in BOOLEAN
    BY <1>1, Zenon
  <1>6. /\ pairs \in Pairs /\ user.access \in Pairs
        /\ tired \subseteq Pairs /\ revoked \subseteq Pairs
        /\ \A b \in Browsers : issued[b] <= MaxCookies
    BY <1>1, <1>2
  <1> QED
    BY <1>3, <1>4, <1>5, <1>6, Zenon DEF Within

\* What a request takes with it is what was stored, or what it was given.
LEMMA CarriedStep ==
    ASSUME IInv, TokenInv, Within, NEW r \in Requests,
           Authorize(r) \/ Answered(r) \/ Refused(r) \/ Open(r) \/ Renew(r)
    PROVE  Carried(r)'
  <1> USE SandboxAssumption
  <1>1. /\ request \in [Requests -> RequestRow] /\ request[r] \in RequestRow
        /\ pairs \in Nat /\ pairs \in 1..MaxPairs /\ user.access \in 1..MaxPairs
        /\ MaxPairs \in Nat
        /\ request[r].token \in 0..MaxPairs
        /\ request[r].kept # 0 => r \in Opens /\ request[r].token # 0
    BY DEF IInv, Typed, Within, Pairs, Carried
  <1>2. ASSUME Finish(r) PROVE Carried(r)'
    <2>1. request'[r].token = 0 /\ request'[r].kept = 0
      BY <1>1, <1>2 DEF Finish, Finished, Blank
    <2> QED
      BY <1>1, <2>1 DEF Carried
  <1>3. ASSUME request'[r].token = request[r].token, request'[r].kept = request[r].kept
        PROVE  Carried(r)'
    BY <1>1, <1>3 DEF Carried
  <1>4. ASSUME request'[r].token \in 1..MaxPairs, request'[r].kept = request[r].kept
        PROVE  Carried(r)'
    BY <1>1, <1>4 DEF Carried
  <1>5. ASSUME NEW c, NEW g, Resume(r, c, g), r \notin Opens PROVE Carried(r)'
    <2>1. request'[r].token = 0 /\ request'[r].kept = request[r].kept
      BY <1>1, <1>5 DEF Resume, RequestRow
    <2> QED
      BY <1>1, <1>5, <2>1 DEF Carried
  <1>6. ASSUME NEW pc, To(r, pc) PROVE Carried(r)'
    <2>1. request'[r].token = request[r].token /\ request'[r].kept = request[r].kept
      BY <1>1, <1>6 DEF To, RequestRow
    <2> QED
      BY <1>3, <2>1
  <1> DEFINE Becomes(x) == request' = [request EXCEPT ![r] = x]
  <1>20. ASSUME NEW x, Becomes(x), x.token = request[r].token, x.kept = request[r].kept
         PROVE  Carried(r)'
    <2>1. request'[r] = x
      BY <1>1, <1>20
    <2> QED
      BY <1>3, <1>20, <2>1
  <1> HIDE DEF Becomes
  <1>7. CASE Authorize(r)
    <2>1. PICK stage \in {"align", "send"} :
             Becomes([request[r] EXCEPT !.pc = "call", !.stage = stage,
                                        !.cookie = row[Of[r]].cookie,
                                        !.seen = row[Of[r]].generation])
      BY <1>7 DEF Authorize, Becomes
    <2> QED
      BY <1>1, <1>20, <2>1 DEF RequestRow
  <1>21. CASE Answered(r)
    <2>1. Becomes([request[r] EXCEPT !.stage = "send"]) \/ Finish(r)
      BY <1>21 DEF Answered, Becomes
    <2> QED
      BY <1>1, <1>2, <1>20, <2>1 DEF RequestRow
  <1>22. CASE Refused(r)
    <2>1. Becomes([request[r] EXCEPT !.pc = "wait", !.recovered = TRUE]) \/ Finish(r)
      BY <1>22 DEF Refused, Becomes
    <2> QED
      BY <1>1, <1>2, <1>20, <2>1 DEF RequestRow
  <1>8. CASE Open(r)
    <2>1. request'[r].token = user.access /\ r \in Opens
      BY <1>1, <1>8 DEF Open, RequestRow
    <2> QED
      BY <1>1, <2>1 DEF Carried
  <1>9. CASE EnterProcess(r) \/ Flush(r)
    BY <1>6, <1>9 DEF EnterProcess, Flush
  <1>10. CASE LockRow(r)
    <2>1. r \notin Opens
      BY <1>10 DEF LockRow, At, IInv, OpensOnce
    <2>2. \/ Finish(r)
          \/ Resume(r, row[Of[r]].cookie, row[Of[r]].generation)
          \/ Becomes([request[r] EXCEPT !.pc = "token", !.base = NextBase(r)])
      BY <1>10 DEF LockRow, Becomes
    <2>3. ASSUME NEW n
          PROVE  /\ [request[r] EXCEPT !.pc = "token", !.base = n].token = request[r].token
                 /\ [request[r] EXCEPT !.pc = "token", !.base = n].kept = request[r].kept
      BY <1>1 DEF RequestRow
    <2> QED
      BY <1>2, <1>20, <1>5, <2>1, <2>2, <2>3, Zenon
  <1>11. CASE AskToken(r)
    <2>1. request'[r].token = user.access /\ request'[r].kept = request[r].kept
      BY <1>1, <1>11 DEF AskToken, RequestRow
    <2> QED
      BY <1>1, <1>4, <2>1
  <1>12. CASE Refresh(r)
    <2> DEFINE x == [request[r] EXCEPT !.pc = "store", !.token = pairs + 1]
    <2>1. Finish(r) \/ (pairs < MaxPairs /\ Becomes(x))
      BY <1>12 DEF Refresh, Becomes
    <2>2. CASE pairs < MaxPairs /\ Becomes(x)
      <3>1. request'[r] = x
        BY <1>1, <2>2 DEF Becomes
      <3>2. request'[r].token = pairs + 1 /\ request'[r].kept = request[r].kept
        BY <1>1, <3>1 DEF RequestRow
      <3> QED
        BY <1>1, <1>4, <2>2, <3>2
    <2> QED
      BY <1>2, <2>1, <2>2
  <1>13. CASE Store(r)
    BY <1>2, <1>6, <1>13 DEF Store
  <1>14. CASE OpenWorkspace(r)
    <2> DEFINE n == request[r].opens + 1
    <2>1. \/ Finish(r)
          \/ Becomes([request[r] EXCEPT !.pc = "boot", !.opens = n])
          \/ Becomes([request[r] EXCEPT !.pc = "token", !.opens = n, !.forced = TRUE])
      BY <1>14 DEF OpenWorkspace, Becomes
    <2> HIDE DEF n
    <2> QED
      BY <1>1, <1>2, <1>20, <2>1 DEF RequestRow
  <1>15. CASE Bootstrap(r)
    <2> DEFINE c == Cookie(Of[r], issued[Of[r]] + 1)
               n == request[r].boots + 1
               pc == IF r \in Opens THEN "bind" ELSE "commit"
    <2>1. \/ Becomes([request[r] EXCEPT !.pc = pc, !.cookie = c, !.boots = n])
          \/ FailedBootstrap(r)
          \/ Finish(r)
      BY <1>15 DEF Bootstrap, Becomes
    <2> HIDE DEF n, c, pc
    <2>2. CASE FailedBootstrap(r)
      <3>1. PICK x \in RequestRow : Becomes(x) /\ Failed(r, request[r], x)
        BY <1>1, <2>2, FailedRow DEF Becomes
      <3>2. request'[r] = x
        BY <1>1, <3>1 DEF Becomes
      <3> QED
        BY <1>3, <3>1, <3>2 DEF Failed
    <2> QED
      BY <1>1, <1>2, <1>20, <2>1, <2>2 DEF RequestRow
  <1>16. CASE Commit(r)
    BY <1>2, <1>5, <1>16 DEF Commit
  <1>17. CASE LockSession(r)
    BY <1>2, <1>6, <1>17 DEF LockSession
  <1>18. CASE ReadBinding(r)
    <2>1. request'[r].token = request[r].token /\ request'[r].kept = request[r].kept
      BY <1>1, <1>18 DEF ReadBinding, RequestRow
    <2> QED
      BY <1>3, <2>1
  <1>19. CASE CommitOpen(r)
    BY <1>2, <1>19 DEF CommitOpen
  <1> QED
    BY <1>7, <1>8, <1>9, <1>10, <1>11, <1>12, <1>13, <1>14, <1>15, <1>16, <1>17,
       <1>18, <1>19, <1>21, <1>22 DEF Renew

LEMMA WithinStep == IInv /\ TokenInv /\ Within /\ [Next]_vars => Within'
  <1> SUFFICES ASSUME IInv, TokenInv, Within, [Next]_vars PROVE Within'
    OBVIOUS
  <1> USE SandboxAssumption
  <1>1. /\ issued \in [Browsers -> Nat] /\ MaxCookies \in Nat /\ MaxPairs \in Nat
        /\ pairs \in 1..MaxPairs /\ user.access \in 1..MaxPairs
        /\ request \in [Requests -> RequestRow]
    BY DEF IInv, Typed, Within, Pairs
  <1>2. ASSUME UNCHANGED <<user, pairs, tired, revoked>>, mislaid' \in BOOLEAN,
               \A b \in Browsers : issued'[b] <= MaxCookies,
               live' \subseteq Cookies, \A r \in Requests : Carried(r)'
        PROVE  Within'
    BY <1>2 DEF Within
  <1>3. ASSUME NEW r \in Requests,
               Authorize(r) \/ Answered(r) \/ Refused(r) \/ Open(r) \/ Renew(r)
        PROVE  Within'
    <2>1. \A q \in Requests : Carried(q)'
      <3> SUFFICES ASSUME NEW q \in Requests, q # r PROVE Carried(q)'
        BY <1>3, CarriedStep
      <3>1. request'[q] = request[q]
        BY <1>3, OneAtATime DEF IInv
      <3> QED
        BY <3>1 DEF Within, Carried
    <2>2. CASE \/ Authorize(r) \/ Answered(r) \/ Refused(r) \/ Open(r) \/ EnterProcess(r)
               \/ LockRow(r) \/ AskToken(r) \/ OpenWorkspace(r) \/ ReadBinding(r) \/ Flush(r)
               \/ LockSession(r) \/ Commit(r)
      <3>1. UNCHANGED <<user, pairs, tired, revoked, issued, live, mislaid>>
        BY <2>2 DEF Authorize, Answered, Refused, Open, EnterProcess, LockRow, AskToken,
           OpenWorkspace, ReadBinding, Flush, LockSession, Commit, control
      <3> QED
        BY <1>2, <2>1, <3>1, Zenon DEF Within
    <2>3. CASE Refresh(r)
      <3>1. mislaid' \in BOOLEAN
        BY <2>3, Zenon DEF Refresh, Within
      <3>2. pairs' \in Pairs /\ UNCHANGED <<user, tired, revoked, issued, live>>
        BY <1>1, <2>3 DEF Refresh, Pairs
      <3> QED
        BY <2>1, <3>1, <3>2, Zenon DEF Within
    <2>4. CASE Store(r)
      <3>1. mislaid' \in BOOLEAN
        BY <2>4, Zenon DEF Store, Within
      <3>2. request[r].token \in Pairs
        BY <1>1, <2>4 DEF Store, At, TokenInv, Prudent, Pairs
      <3>3. user'.access \in Pairs /\ UNCHANGED <<pairs, tired, revoked, issued, live>>
        BY <2>4, <3>2 DEF Store, Within, control
      <3> QED
        BY <2>1, <3>1, <3>3, Zenon DEF Within
    <2>5. CASE Bootstrap(r)
      <3> DEFINE c == Cookie(Of[r], issued[Of[r]] + 1)
      <3>1. /\ UNCHANGED <<user, pairs, tired, revoked, mislaid>>
            /\ \/ UNCHANGED <<issued, live>>
               \/ /\ issued[Of[r]] < MaxCookies /\ live' = live \cup {c}
                  /\ issued' = [issued EXCEPT ![Of[r]] = issued[Of[r]] + 1]
        BY <2>5 DEF Bootstrap, control
      <3>2. \A b \in Browsers : issued'[b] <= MaxCookies
        BY <1>1, <3>1 DEF Within
      <3>3. issued[Of[r]] < MaxCookies => c \in Cookies
        BY <1>1 DEF Cookies, Cookie
      <3>4. live' \subseteq Cookies
        BY <3>1, <3>3 DEF Within
      <3>5. mislaid' \in BOOLEAN
        BY <3>1, Zenon DEF Within
      <3> QED
        BY <1>2, <2>1, <3>1, <3>2, <3>4, <3>5, Zenon
    <2>6. CASE CommitOpen(r)
      <3>1. mislaid' \in BOOLEAN
        BY <2>6, Zenon DEF CommitOpen, Within
      <3>2. request[r].kept # 0 => request[r].token \in Pairs
        BY <1>1 DEF Within, Carried, Pairs
      <3>3. user' = user \/ (request[r].kept # 0 /\ user'.access = request[r].token)
        BY <2>6 DEF CommitOpen
      <3>4. user'.access \in Pairs /\ UNCHANGED <<pairs, tired, revoked, issued, live>>
        BY <2>6, <3>2, <3>3 DEF CommitOpen, Within, control
      <3> QED
        BY <2>1, <3>1, <3>4, Zenon DEF Within
    <2> QED
      BY <1>3, <2>2, <2>3, <2>4, <2>5, <2>6 DEF Renew
  <1>4. ASSUME UNCHANGED <<user, pairs, issued, mislaid, request>>, live' \subseteq live,
               tired' \subseteq Pairs, revoked' \subseteq Pairs
        PROVE  Within'
    <2>1. \A r \in Requests : Carried(r)'
      BY <1>4 DEF Within, Carried
    <2>2. live' \subseteq Cookies
      BY <1>4 DEF Within
    <2> QED
      BY <1>4, <2>1, <2>2, Zenon DEF Within
  <1>5. ASSUME NEW c \in live, Expire(c) PROVE Within'
    BY <1>4, <1>5 DEF Expire, control, Within
  <1>6. ASSUME NEW p \in 1..pairs, Age(p) PROVE Within'
    <2>1. p \in Pairs
      BY <1>1 DEF Pairs
    <2>2. tired' \subseteq Pairs /\ revoked' \subseteq Pairs
      BY <1>6, <2>1 DEF Age, Within
    <2>3. UNCHANGED <<user, pairs, issued, mislaid, request>> /\ live' \subseteq live
      BY <1>6 DEF Age
    <2> QED
      BY <1>4, <2>2, <2>3, Zenon
  <1>7. CASE Delete \/ Cascade \/ GiveUp \/ UNCHANGED vars
    BY <1>4, <1>7 DEF Delete, Cascade, GiveUp, vars, control, Within
  <1>8. ASSUME NEW w \in Workers, Crash(w) PROVE Within'
    <2>1. mislaid' \in BOOLEAN
      <3>1. (mislaid \/ \E r \in Requests : At(r, "store") /\ On[r] = w) \in BOOLEAN
        OBVIOUS
      <3> QED
        BY <1>8, Zenon DEF Crash
    <2>2. \A r \in Requests : Carried(r)'
      <3> SUFFICES ASSUME NEW r \in Requests PROVE Carried(r)'
        OBVIOUS
      <3>1. request'[r] = request[r] \/ request'[r] = Finished(r)
        BY <1>8 DEF Crash
      <3>2. Finished(r).token = 0 /\ Finished(r).kept = 0
        BY DEF Finished, Blank
      <3> QED
        BY <1>1, <3>1, <3>2 DEF Within, Carried
    <2>3. UNCHANGED <<user, pairs, tired, revoked, issued, live>>
      BY <1>8 DEF Crash, control
    <2> QED
      BY <2>1, <2>2, <2>3, Zenon DEF Within
  <1> QED
    BY <1>3, <1>5, <1>6, <1>7, <1>8 DEF Next

LEMMA WithinInductive == Spec => []Within
  BY WithinInit, WithinStep, Inductive, TokenInductive, PTL DEF Spec

LEMMA TypesFollow ==
    IInv /\ TokenInv /\ Budget /\ Within => TypeOK
  <1> SUFFICES ASSUME IInv, TokenInv, Budget, Within PROVE TypeOK
    OBVIOUS
  <1> USE SandboxAssumption
  <1>1. \A c \in Browsers \X Nat : c[2] <= MaxCookies => c \in Cookies
    BY DEF Cookies
  <1>2. \A b \in Browsers : issued[b] \in 0..MaxCookies
    BY DEF IInv, Typed, Within
  <1>3. row \in [Browsers -> [cookie : Cookies, generation : Nat]]
    <2> SUFFICES ASSUME NEW b \in Browsers
                 PROVE  row[b] \in [cookie : Cookies, generation : Nat]
      BY DEF IInv, Typed
    <2>1. row[b] \in [cookie : Browsers \X Nat, generation : Nat]
      BY DEF IInv, Typed
    <2>2. row[b].cookie[2] <= issued[b]
      BY DEF IInv, CookiesExist, Genuine
    <2>3. row[b].cookie \in Cookies
      BY <1>1, <1>2, <2>1, <2>2
    <2> QED
      BY <2>1, <2>3
  <1>4. ASSUME NEW r \in Requests
        PROVE  request[r] \in [pc : Renewing \cup {"idle", "call", "done"},
                                 stage : {"align", "send"},
                                 cookie : Cookies, seen : Nat, recovered : BOOLEAN,
                                 token : 0..MaxPairs, kept : 0..MaxPairs,
                                 forced : BOOLEAN, base : Nat,
                                 attempt : 0..(BootRetries + 1), relaunched : BOOLEAN,
                                 opens : Nat, boots : Nat]
    <2>1. request[r] \in RequestRow
      BY DEF IInv, Typed
    <2>2. request[r].cookie[2] <= issued[Of[r]] /\ Of[r] \in Browsers
      BY DEF IInv, CookiesExist, Genuine
    <2>3. request[r].cookie \in Cookies
      BY <1>1, <1>2, <2>1, <2>2 DEF RequestRow
    <2>4. request[r].token \in 0..MaxPairs
      BY DEF Within, Carried
    <2>5. request[r].kept \in 0..MaxPairs
      BY <2>1 DEF TokenInv, Prudent, Within, Pairs, RequestRow
    <2>6. request[r].attempt \in 0..(BootRetries + 1)
      BY <2>1 DEF Budget, Thrifty, RequestRow
    <2> QED
      BY <2>1, <2>3, <2>4, <2>5, <2>6, Zenon DEF RequestRow, Places
  <1>5. user \in [access : Pairs, refresh : Pairs] /\ spent \subseteq Pairs
    <2>1. 1..pairs \subseteq Pairs
      BY DEF Within, Pairs
    <2> QED
      BY <2>1 DEF TokenInv, Issued, IInv, Typed, Within
  <1>6. issued \in [Browsers -> 0..MaxCookies]
    BY <1>2 DEF IInv, Typed
  <1>7. /\ request \in [Requests -> RequestRow] /\ binding \in Nat
        /\ session \in {"there", "deleting", "gone"}
    BY DEF IInv, Typed
  <1> QED
    BY <1>3, <1>4, <1>5, <1>6, <1>7, Zenon DEF Within, TypeOK

\* The variables keep their types: no credential is older or newer than those
\* the sandbox and the control plane have issued.
THEOREM SandboxTypes == Spec => []TypeOK
  BY TypesFollow, Inductive, TokenInductive, BudgetInductive, WithinInductive, PTL
-----------------------------------------------------------------------------
\* Waiting for each other.

\* The locks that the next step of a renewal or an /open waits for are free; the
\* steps that wait for none can at least end the request.
CanGo(r) ==
    /\ request[r].pc \in Renewing
    /\ At(r, "wait") =>
          \A q \in Requests : HoldsProcess(q) => On[q] # On[r] \/ Of[q] # Of[r]
    /\ At(r, "rowwait") => RowFree(r)
    /\ At(r, "token") \/ At(r, "flush") => \A q \in Requests : ~HoldsUser(q)
    /\ At(r, "session") =>
          session # "deleting" /\ \A q \in Requests : ~HoldsSession(q)

CanCascade == session = "deleting" /\ \A r \in Requests : ~HoldsRow(r)

SomebodyGoes ==
    (\E r \in Requests : request[r].pc \in Renewing)
        => (\E r \in Requests : CanGo(r)) \/ CanCascade \/ Knot

\* The chain of those who wait, followed to its end: process, row, user, session,
\* and from the session, by way of its deletion, back to a row.
LEMMA NoCycleButOne == IInv /\ Within => SomebodyGoes
  <1> SUFFICES ASSUME IInv, Within, \A r \in Requests : ~CanGo(r), ~CanCascade, ~Knot,
                      NEW r \in Requests, request[r].pc \in Renewing
               PROVE  FALSE
    BY DEF SomebodyGoes
  <1>1. \A q \in Requests : /\ request[q].kept # 0 => q \in Opens
                            /\ q \in Opens => request[q].pc \notin {"wait", "rowwait"}
                            /\ q \notin Opens => request[q].pc \notin {"flush", "session"}
    BY DEF IInv, OpensOnce, Within, Carried
  <1>2. ASSUME NEW q \in Requests
        PROVE  request[q].pc \notin {"refresh", "store", "open", "boot", "bind", "commit"}
    <2>1. ~CanGo(q)
      OBVIOUS
    <2> QED
      BY <2>1 DEF CanGo, At, Renewing
  <1>3. \A q \in Requests : ~HoldsSession(q)
    BY <1>2 DEF HoldsSession
  <1>4. \A q \in Requests : HoldsUser(q) => At(q, "session") /\ q \in Opens
    BY <1>1, <1>2, <1>3 DEF HoldsUser, At
  <1>5. ASSUME NEW q \in Requests, At(q, "session")
        PROVE  session = "deleting"
    <2>1. ~CanGo(q)
      OBVIOUS
    <2> QED
      BY <1>3, <1>5, <2>1 DEF CanGo, At, Renewing
  <1>6. ASSUME NEW q \in Requests, At(q, "token") \/ At(q, "flush")
        PROVE  \E o \in Opens : At(o, "session") /\ HoldsUser(o)
    <2>1. ~CanGo(q)
      OBVIOUS
    <2>2. \E o \in Requests : HoldsUser(o)
      BY <1>6, <2>1 DEF CanGo, At, Renewing
    <2> QED
      BY <1>4, <2>2
  <1>7. ASSUME NEW q \in Requests, HoldsRow(q)
        PROVE  At(q, "token")
    BY <1>1, <1>2, <1>7 DEF HoldsRow, HoldsProcess, Renewing, At
  <1>8. \A o \in Opens : o \in Requests
    BY SandboxAssumption
  <1>9. session = "deleting" => FALSE
    <2> SUFFICES ASSUME session = "deleting" PROVE FALSE
      OBVIOUS
    <2>1. PICK q \in Requests : HoldsRow(q)
      BY DEF CanCascade
    <2>2. At(q, "token")
      BY <1>7, <2>1
    <2>3. \E o \in Opens : At(o, "session") /\ HoldsUser(o)
      BY <1>6, <2>2
    <2> QED
      BY <2>1, <2>2, <2>3 DEF Knot
  <1>10. ASSUME NEW q \in Requests PROVE ~At(q, "token") /\ ~At(q, "flush") /\ ~At(q, "session")
    BY <1>5, <1>6, <1>8, <1>9
  <1>11. \A q \in Requests : ~HoldsRow(q)
    BY <1>7, <1>10
  <1>12. ASSUME NEW q \in Requests PROVE ~At(q, "rowwait")
    <2>1. ~CanGo(q)
      OBVIOUS
    <2> QED
      BY <1>11, <2>1 DEF CanGo, At, RowFree, Renewing
  <1>13. \A q \in Requests : ~HoldsProcess(q)
    BY <1>11, <1>12 DEF HoldsRow, At
  <1>14. ~At(r, "wait")
    <2>1. ~CanGo(r)
      OBVIOUS
    <2> QED
      BY <1>13, <2>1 DEF CanGo, At, Renewing
  <1> QED
    BY <1>2, <1>10, <1>12, <1>14 DEF Renewing, At

\* While somebody renews or opens, one of them finds the locks of its next step
\* free, or the deletion does, but for the one knot: NoStandstill, with the guards
\* in place of ENABLED.
THEOREM LocksLetGo == Spec => []SomebodyGoes
  BY NoCycleButOne, Inductive, WithinInductive, PTL
=============================================================================
