--------------------------- MODULE SandboxRenewal ---------------------------
(***************************************************************************)
(* Credentials of the sandbox of one code session                          *)
(* (code_runtime/sandbox_auth.py, routes/code_runtime.py).  Every browser  *)
(* has a row with the cookie the proxy sends to the sandbox for it.  A     *)
(* request that is told its cookie expired renews the row and is sent      *)
(* once more: it asks for a token of the user, opens the workspace,        *)
(* bootstraps a session in the sandbox and commits its cookie.  Requests   *)
(* that find the row newer than the cookie they used take that cookie.     *)
(* POST /open does the same for a browser that has no row yet, and is more *)
(* patient with a sandbox that is still starting.                          *)
(*                                                                         *)
(* A step is what a coroutine does between two suspensions; the steps      *)
(* named after an external call are its answer.  How a failure is worded   *)
(* and which of them delete the browser's cookies is left out: a request   *)
(* that fails is over.                                                     *)
(***************************************************************************)
EXTENDS Naturals, FiniteSets

CONSTANTS
    Requests,    \* requests to the proxy and to /open
    Opens,       \* those to /open, each for a browser of its own
    Browsers,
    Of,          \* the browser of a request
    Workers,
    On,          \* the process that serves a request
    BootRetries, \* waits of an /open for a sandbox that does not answer yet: 5
    MaxCookies,  \* bound: sessions the sandbox creates for a browser
    MaxPairs     \* bound: pairs of user tokens the control plane issues

ASSUME SandboxAssumption ==
    /\ IsFiniteSet(Browsers)
    /\ Opens \subseteq Requests
    /\ Of \in [Requests -> Browsers] /\ On \in [Requests -> Workers]
    /\ \A r, q \in Opens : Of[r] = Of[q] => r = q
    /\ BootRetries \in Nat /\ MaxCookies \in Nat /\ MaxPairs \in Nat \ {0}

VARIABLES
    row,      \* code_runtime_browser_sessions; generation 0: there is no row
    binding,  \* auth_generation of code_runtime_bindings; 0: there is no row
    user,     \* access and refresh token stored for the user
    session,  \* row of ai_chat_sessions: there, locked by a deletion, or gone
    request,
    issued,   \* sandbox: sessions it has created for a browser
    live,     \* sandbox: cookies it accepts
    pairs,    \* control plane: pairs of tokens it has issued
    tired,    \* access tokens that are near their expiry
    revoked,  \* access tokens the control plane refuses
    spent,    \* refresh tokens the control plane has consumed
    mislaid   \* history: a refresh token it issued did not stay in the row

control == <<pairs, tired, revoked, spent>>
vars == <<row, binding, user, session, request, issued, live, control, mislaid>>

\* The n-th session of browser b.
Cookie(b, n) == <<b, n>>
Cookies == Browsers \X (0..MaxCookies)
Pairs   == 1..MaxPairs

\* What a request holds at its suspensions.  attempt: bootstraps that failed in
\* the loop it is in; relaunched: the launch token was replaced.  opens and
\* boots count what it has asked of the control plane and of the sandbox.
Renewing == {"wait", "rowwait", "token", "refresh", "store", "flush", "session", "open",
             "boot", "bind", "commit"}
Blank(b, pc) == [pc |-> pc, stage |-> "send", cookie |-> Cookie(b, 0), seen |-> 0,
                 recovered |-> FALSE, token |-> 0, kept |-> 0, forced |-> FALSE,
                 base |-> 0, attempt |-> 0, relaunched |-> FALSE, opens |-> 0, boots |-> 0]

TypeOK ==
    /\ row \in [Browsers -> [cookie : Cookies, generation : Nat]]
    /\ binding \in Nat
    /\ user \in [access : Pairs, refresh : Pairs]
    /\ session \in {"there", "deleting", "gone"}
    /\ request \in [Requests -> [pc : Renewing \cup {"idle", "call", "done"},
                                 stage : {"align", "send"},
                                 cookie : Cookies, seen : Nat, recovered : BOOLEAN,
                                 token : 0..MaxPairs, kept : 0..MaxPairs,
                                 forced : BOOLEAN, base : Nat,
                                 attempt : 0..(BootRetries + 1), relaunched : BOOLEAN,
                                 opens : Nat, boots : Nat]]
    /\ issued \in [Browsers -> 0..MaxCookies]
    /\ live \subseteq Cookies
    /\ pairs \in Pairs
    /\ tired \subseteq Pairs /\ revoked \subseteq Pairs /\ spent \subseteq Pairs
    /\ mislaid \in BOOLEAN

\* Browsers without an /open to come were opened one after the other.
Init ==
    \E opened \in SUBSET Browsers :
       /\ opened = Browsers \ {Of[r] : r \in Opens}
       /\ \E order \in [opened -> 1..Cardinality(opened)] :
             /\ \A b, c \in opened : order[b] = order[c] => b = c
             /\ row = [b \in Browsers |->
                          [cookie |-> Cookie(b, 0),
                           generation |-> IF b \in opened THEN order[b] ELSE 0]]
       /\ binding = Cardinality(opened)
       /\ live = {Cookie(b, 0) : b \in opened}
       /\ user = [access |-> 1, refresh |-> 1]
       /\ session = "there"
       /\ request = [r \in Requests |-> Blank(Of[r], "idle")]
       /\ issued = [b \in Browsers |-> 0]
       /\ pairs = 1 /\ tired = {} /\ revoked = {} /\ spent = {}
       /\ mislaid = FALSE

-----------------------------------------------------------------------------
\* Locks: who holds one is read off where the requests are.

\* _renewal_lock of a process, and the row lock of SELECT ... FOR UPDATE.
HoldsProcess(r) == r \notin Opens /\ request[r].pc \in Renewing \ {"wait"}
HoldsRow(r)     == HoldsProcess(r) /\ request[r].pc # "rowwait"

\* The row lock of the chat session: an /open takes it first and has it until
\* it commits.  Its deletion cascades to the rows of the browsers.
gone == session = "gone"
HoldsSession(r) == r \in Opens /\ request[r].pc \in {"open", "boot", "bind", "commit"}

\* The lock on the user row: during a refresh, and from the moment an /open
\* has flushed the tokens it assigned.  _control_plane_user_lock, taken before
\* it, lets in nobody the row would keep out.
HoldsUser(r) ==
    \/ request[r].pc \in {"refresh", "store"}
    \/ request[r].kept # 0 /\ (HoldsSession(r) \/ request[r].pc = "session")

At(r, pc) == request[r].pc = pc

\* The request is over, and holds nothing.
Finished(r) == Blank(Of[r], "done")
Finish(r)   == request' = [request EXCEPT ![r] = Finished(r)]
To(r, pc)   == request' = [request EXCEPT ![r].pc = pc]

\* The request goes on with a cookie of a generation.
Resume(r, c, g) ==
    request' = [request EXCEPT ![r] = [@ EXCEPT !.pc = "call", !.cookie = c, !.seen = g,
                                                !.token = 0, !.base = 0, !.forced = FALSE]]

-----------------------------------------------------------------------------
\* A request through the proxy.

\* The browser's row gives the cookie and the generation; on a path that wants
\* the right agent session the sandbox is aligned to it first.
Authorize(r) ==
    LET mine == row[Of[r]] IN
    /\ At(r, "idle") /\ r \notin Opens
    /\ ~gone /\ mine.generation # 0
    /\ \E stage \in {"align", "send"} :
          request' = [request EXCEPT ![r] = [@ EXCEPT !.pc = "call", !.stage = stage,
                                                      !.cookie = mine.cookie,
                                                      !.seen = mine.generation]]
    /\ UNCHANGED <<row, binding, user, session, issued, live, control, mislaid>>

\* The sandbox answers.  Aligning is one call, or, when the sandbox does not
\* know the agent session, a second one with the same cookie and budget; the
\* answer to the request itself, and any error, ends it.
Answered(r) ==
    /\ At(r, "call")
    /\ \/ /\ request[r].cookie \in live /\ request[r].stage = "align"
          /\ request' = [request EXCEPT ![r].stage = "send"]
       \/ Finish(r)
    /\ UNCHANGED <<row, binding, user, session, issued, live, control, mislaid>>

\* Mutant: the budget is not marked as used.
Refused_Again(r) ==
    /\ At(r, "call")
    /\ request[r].cookie \notin live
    /\ To(r, "wait")
    /\ UNCHANGED <<row, binding, user, session, issued, live, control, mislaid>>

\* The sandbox says that the cookie expired: the first time the request
\* renews, whichever of its calls it was, after that it passes the answer on.
Refused(r) ==
    /\ At(r, "call")
    /\ request[r].cookie \notin live
    /\ IF request[r].recovered
       THEN Finish(r)
       ELSE request' = [request EXCEPT ![r] = [@ EXCEPT !.pc = "wait", !.recovered = TRUE]]
    /\ UNCHANGED <<row, binding, user, session, issued, live, control, mislaid>>

-----------------------------------------------------------------------------
\* Renewal.

EnterProcess(r) ==
    /\ At(r, "wait")
    /\ \A q \in Requests : HoldsProcess(q) => On[q] # On[r] \/ Of[q] # Of[r]
    /\ To(r, "rowwait")
    /\ UNCHANGED <<row, binding, user, session, issued, live, control, mislaid>>

\* Mutant: the row is read without FOR UPDATE.
RowFree_Unlocked(r) == TRUE

\* The row of the browser can be locked.
RowFree(r) == \A q \in Requests : HoldsRow(q) => Of[q] # Of[r]

\* max(row generation, auth_generation).
NextBase(r) == IF binding > row[Of[r]].generation THEN binding ELSE row[Of[r]].generation

\* Under the row lock: a newer row is joined, otherwise the request renews it.
\* The binding is read once, and not locked.
LockRow(r) ==
    LET mine == row[Of[r]] IN
    /\ At(r, "rowwait")
    /\ RowFree(r)
    /\ \/ gone /\ Finish(r)
       \/ /\ ~gone /\ mine.generation > request[r].seen
          /\ Resume(r, mine.cookie, mine.generation)
       \/ /\ ~gone /\ ~(mine.generation > request[r].seen)
          /\ request' = [request EXCEPT ![r] = [@ EXCEPT !.pc = "token", !.base = NextBase(r)]]
    /\ UNCHANGED <<row, binding, user, session, issued, live, control, mislaid>>

\* Mutant: a forced refresh does not look whether the token was rotated.
StoredTokenServes_NoCheck(r) == ~request[r].forced /\ user.access \notin tired

\* The stored access token serves, or, when the control plane refused one, a
\* different one that somebody stored since.
StoredTokenServes(r) ==
    IF request[r].forced THEN user.access # request[r].token ELSE user.access \notin tired

\* Where a request goes on that was given a token.
WithToken(r) == IF r \in Opens THEN "flush" ELSE "open"

\* Mutant: the user row is read without its lock.
AskToken_Unlocked(r) ==
    /\ At(r, "token")
    /\ request' = [request EXCEPT ![r] =
                      [@ EXCEPT !.pc = IF StoredTokenServes(r) THEN WithToken(r) ELSE "refresh",
                                !.token = user.access]]
    /\ UNCHANGED <<row, binding, user, session, issued, live, control, mislaid>>

\* Mutant: the lock of the user is the one the renewal already holds.
AskToken_SameLock(r) ==
    /\ At(r, "token")
    /\ \A q \in Requests : ~HoldsUser(q) /\ ~HoldsProcess(q)
    /\ request' = [request EXCEPT ![r] =
                      [@ EXCEPT !.pc = IF StoredTokenServes(r) THEN WithToken(r) ELSE "refresh",
                                !.token = user.access]]
    /\ UNCHANGED <<row, binding, user, session, issued, live, control, mislaid>>

\* The user row is locked, and stays locked while a refresh is under way.
AskToken(r) ==
    /\ At(r, "token")
    /\ \A q \in Requests : ~HoldsUser(q)
    /\ request' = [request EXCEPT ![r] =
                      [@ EXCEPT !.pc = IF StoredTokenServes(r) THEN WithToken(r) ELSE "refresh",
                                !.token = user.access]]
    /\ UNCHANGED <<row, binding, user, session, issued, live, control, mislaid>>

\* The refresh token is good for one pair.  It may be consumed and the answer
\* lost; an answer that is an error, or no refresh token at all, changes nothing.
Refresh(r) ==
    /\ At(r, "refresh")
    /\ \/ /\ user.refresh \notin spent /\ pairs < MaxPairs
          /\ pairs' = pairs + 1
          /\ spent' = spent \cup {user.refresh}
          /\ request' = [request EXCEPT ![r] = [@ EXCEPT !.pc = "store", !.token = pairs + 1]]
          /\ UNCHANGED mislaid
       \/ /\ user.refresh \notin spent
          /\ spent' = spent \cup {user.refresh}
          /\ mislaid' = TRUE
          /\ Finish(r) /\ UNCHANGED pairs
       \/ Finish(r) /\ UNCHANGED <<pairs, spent, mislaid>>
    /\ UNCHANGED <<row, binding, user, session, issued, live, tired, revoked>>

\* The pair is committed before it is used, or the commit fails.
Store(r) ==
    /\ At(r, "store")
    /\ \/ /\ user' = [access |-> request[r].token, refresh |-> request[r].token]
          /\ To(r, WithToken(r)) /\ UNCHANGED mislaid
       \/ /\ mislaid' = TRUE
          /\ Finish(r) /\ UNCHANGED user
    /\ UNCHANGED <<row, binding, session, issued, live, control>>

\* workspace/open, within 60 s.  A refused token is replaced once.
OpenWorkspace(r) ==
    LET opens == request[r].opens + 1 IN
    /\ At(r, "open")
    /\ \/ /\ request[r].token \notin revoked
          /\ request' = [request EXCEPT ![r] = [@ EXCEPT !.pc = "boot", !.opens = opens]]
       \/ /\ request[r].token \in revoked
          /\ r \notin Opens /\ ~request[r].forced
          /\ request' = [request EXCEPT ![r] = [@ EXCEPT !.pc = "token", !.opens = opens,
                                                         !.forced = TRUE]]
       \/ Finish(r)
    /\ UNCHANGED <<row, binding, user, session, issued, live, control, mislaid>>

\* Mutant: the waits are not counted.
FailedBootstrap_Endless(r) ==
    LET failed == [request[r] EXCEPT !.boots = @ + 1, !.attempt = @ + 1] IN
    request' = [request EXCEPT ![r] = [failed EXCEPT !.pc = IF r \in Opens THEN @ ELSE "open"]]

\* The bootstrap failed, and there is another one.  A renewal opens the
\* workspace once more after an error that is no refusal; an /open does after
\* an expired launch token, and waits for a sandbox that is not up yet.
FailedBootstrap(r) ==
    LET failed == [request[r] EXCEPT !.boots = @ + 1] IN
    \/ /\ r \notin Opens /\ failed.attempt = 0
       /\ request' = [request EXCEPT ![r] = [failed EXCEPT !.pc = "open", !.attempt = 1]]
    \/ /\ r \in Opens /\ ~failed.relaunched
       /\ request' = [request EXCEPT ![r] = [failed EXCEPT !.pc = "open", !.relaunched = TRUE]]
    \/ /\ r \in Opens /\ failed.attempt < BootRetries
       /\ request' = [request EXCEPT ![r] = [failed EXCEPT !.attempt = @ + 1]]

\* The launch token becomes a session, within 10 s for a renewal.
Bootstrap(r) ==
    LET b == Of[r]
        c == Cookie(b, issued[b] + 1) IN
    /\ At(r, "boot")
    /\ \/ /\ issued[b] < MaxCookies
          /\ issued' = [issued EXCEPT ![b] = @ + 1]
          /\ live' = live \cup {c}
          /\ request' = [request EXCEPT ![r] =
                            [@ EXCEPT !.pc = IF r \in Opens THEN "bind" ELSE "commit",
                                      !.cookie = c, !.boots = request[r].boots + 1]]
       \/ FailedBootstrap(r) /\ UNCHANGED <<issued, live>>
       \/ Finish(r) /\ UNCHANGED <<issued, live>>
    /\ UNCHANGED <<row, binding, user, session, control, mislaid>>

\* Mutant: the generation is the maximum itself.
Write_NoIncrement(r) ==
    LET g == request[r].base IN
    /\ row' = [row EXCEPT ![Of[r]] = [cookie |-> request[r].cookie, generation |-> g]]
    /\ binding' = g

\* The row of the browser and the generation of the binding.
Write(r) ==
    LET g == request[r].base + 1 IN
    /\ row' = [row EXCEPT ![Of[r]] = [cookie |-> request[r].cookie, generation |-> g]]
    /\ binding' = g

\* Both rows are written in one transaction; when it fails the session in the
\* sandbox is left to expire.
Commit(r) ==
    /\ At(r, "commit") /\ r \notin Opens
    /\ \/ Write(r) /\ Resume(r, request[r].cookie, request[r].base + 1)
       \/ Finish(r) /\ UNCHANGED <<row, binding>>
    /\ UNCHANGED <<user, session, issued, live, control, mislaid>>

-----------------------------------------------------------------------------
\* POST /open, for a browser without a row.

\* The user was loaded with the request.  While that copy of the access token
\* is good it is used; otherwise the stored one is asked for, and assigned to
\* the user together with the copy of the refresh token.  The lock a process
\* takes around /open is left out: requests that reopen a session after an
\* expired cookie (_refresh_runtime_binding) do the same without it.
Open(r) ==
    LET stale == user.access \in tired IN
    /\ At(r, "idle") /\ r \in Opens
    /\ ~gone /\ row[Of[r]].generation = 0
    /\ request' = [request EXCEPT ![r] = [@ EXCEPT !.pc = IF stale THEN "token" ELSE "session",
                                                   !.token = user.access,
                                                   !.kept = IF stale THEN user.refresh ELSE 0]]
    /\ UNCHANGED <<row, binding, user, session, issued, live, control, mislaid>>

\* The next query flushes the assignment: the user row is locked until the end.
Flush(r) ==
    /\ At(r, "flush")
    /\ \A q \in Requests : ~HoldsUser(q)
    /\ To(r, "session")
    /\ UNCHANGED <<row, binding, user, session, issued, live, control, mislaid>>

\* The row of the session is locked.
LockSession(r) ==
    /\ At(r, "session")
    /\ session # "deleting" /\ \A q \in Requests : ~HoldsSession(q)
    /\ IF gone THEN Finish(r) ELSE To(r, "open")
    /\ UNCHANGED <<row, binding, user, session, issued, live, control, mislaid>>

ReadBinding(r) ==
    /\ At(r, "bind")
    /\ request' = [request EXCEPT ![r] = [@ EXCEPT !.pc = "commit", !.base = binding]]
    /\ UNCHANGED <<row, binding, user, session, issued, live, control, mislaid>>

\* A binding that was absent is inserted, and only one can be.  The user is
\* part of the transaction when its tokens were assigned.
CommitOpen(r) ==
    LET kept == request[r].kept IN
    /\ At(r, "commit") /\ r \in Opens
    /\ \/ /\ request[r].base = 0 => binding = 0
          /\ Write(r)
          /\ user' = IF kept = 0 THEN user ELSE [access |-> request[r].token, refresh |-> kept]
          /\ mislaid' = (mislaid \/ (kept # 0 /\ kept # user.refresh))
       \/ UNCHANGED <<row, binding, user, mislaid>>
    /\ Finish(r)
    /\ UNCHANGED <<session, issued, live, control>>

-----------------------------------------------------------------------------
\* The surroundings.

\* A session in the sandbox expires or is revoked.
Expire(c) ==
    /\ c \in live /\ live' = live \ {c}
    /\ UNCHANGED <<row, binding, user, session, request, issued, control, mislaid>>

\* An access token comes near its expiry, or is refused from now on.
Age(p) ==
    /\ p <= pairs
    /\ \/ p \notin tired /\ tired' = tired \cup {p} /\ UNCHANGED revoked
       \/ p \notin revoked /\ revoked' = revoked \cup {p} /\ UNCHANGED tired
    /\ UNCHANGED <<row, binding, user, session, request, issued, live, pairs, spent, mislaid>>

\* The chat session is deleted: its row is locked, then those of the browsers
\* go with it, once none is locked.  It may fail, or end with its process.
Delete ==
    /\ session = "there" /\ \A r \in Requests : ~HoldsSession(r)
    /\ session' = "deleting"
    /\ UNCHANGED <<row, binding, user, request, issued, live, control, mislaid>>

Cascade ==
    /\ session = "deleting" /\ \A r \in Requests : ~HoldsRow(r)
    /\ session' = "gone"
    /\ row' = [b \in Browsers |-> [row[b] EXCEPT !.generation = 0]]
    /\ binding' = 0
    /\ UNCHANGED <<user, request, issued, live, control, mislaid>>

GiveUp ==
    /\ session = "deleting" /\ session' = "there"
    /\ UNCHANGED <<row, binding, user, request, issued, live, control, mislaid>>

\* A process ends: its requests with it, and the database frees their locks.
Crash(w) ==
    LET lost == {r \in Requests : On[r] = w /\ request[r].pc \notin {"idle", "done"}} IN
    /\ lost # {}
    /\ request' = [r \in Requests |-> IF r \in lost THEN Finished(r) ELSE request[r]]
    /\ mislaid' = (mislaid \/ \E r \in lost : At(r, "store"))
    /\ UNCHANGED <<row, binding, user, session, issued, live, control>>

-----------------------------------------------------------------------------
Renew(r) ==
    \/ EnterProcess(r) \/ LockRow(r) \/ AskToken(r) \/ Refresh(r) \/ Store(r)
    \/ OpenWorkspace(r) \/ Bootstrap(r) \/ Commit(r)
    \/ Flush(r) \/ LockSession(r) \/ ReadBinding(r) \/ CommitOpen(r)

Next ==
    \/ \E r \in Requests : Authorize(r) \/ Answered(r) \/ Refused(r) \/ Open(r) \/ Renew(r)
    \/ \E c \in live : Expire(c)
    \/ \E p \in 1..pairs : Age(p)
    \/ Delete \/ Cascade \/ GiveUp
    \/ \E w \in Workers : Crash(w)

Spec == Init /\ [][Next]_vars

-----------------------------------------------------------------------------
\* A generation names one credential of a browser: what a request holds was
\* stored for its browser, and is what the row holds unless that is newer.
\* The comparison of generations by which a request joins a renewal rests on
\* this, also when two browsers move the generation of the binding at once.
GenerationNamesCookie ==
    \A r \in Requests : At(r, "call") /\ ~gone =>
        /\ request[r].cookie[1] = Of[r]
        /\ request[r].seen <= row[Of[r]].generation
        /\ request[r].seen = row[Of[r]].generation => request[r].cookie = row[Of[r]].cookie

\* Single flight: however many requests were refused, in whichever process,
\* a credential is replaced only after the sandbox stopped accepting it.
OnlyRefusedReplaced ==
    [][\A b \in Browsers :
          row[b].generation # 0 /\ row'[b].generation # 0 /\ row'[b] # row[b]
             => row[b].cookie \notin live]_vars

\* The budget: whatever fails and is tried again, in however many calls of the
\* sandbox, a request of the proxy opens the workspace at most three times
\* (twice, and once more after a refused token) and bootstraps twice; an /open
\* opens it twice, and bootstraps twice besides the waits it is allowed.  (The
\* design allows the proxy two opens; the code makes three.)
Bounded ==
    \A r \in Requests :
        IF r \in Opens THEN request[r].opens <= 2 /\ request[r].boots <= BootRetries + 2
        ELSE request[r].opens <= 3 /\ request[r].boots <= 2

\* A refresh token the control plane has consumed is sent again only when its
\* successor was lost: with the answer, with the commit or the process, or to
\* the write of an /open.
RefreshSentOnce ==
    (\E r \in Requests : At(r, "refresh")) /\ user.refresh \in spent => mislaid

\* No request renews a token of the user another one has just renewed.
RefreshIsNeeded ==
    \A r \in Requests : At(r, "refresh") => user.access \in tired \cup revoked

\* Locks are taken in the order process, browser's row, user, and user, session,
\* browser's row: while somebody renews or opens, one of them or the deletion
\* can go on, but for one knot no database sees.  A deletion has the session
\* and waits for a browser's row, its renewal waits for the user, whom an /open
\* has that waits for the session.
Knot ==
    /\ session = "deleting"
    /\ \E o \in Opens : At(o, "session") /\ HoldsUser(o)
    /\ \E r \in Requests : At(r, "token") /\ HoldsRow(r)

NoStandstill ==
    (\E r \in Requests : request[r].pc \in Renewing)
        => \/ \E r \in Requests : request[r].pc \in Renewing /\ ENABLED Renew(r)
           \/ ENABLED Cascade
           \/ Knot

=============================================================================
