----------------------------- MODULE AdminAccess -----------------------------
(***************************************************************************)
(* The way into the admin panel: the limit on logins from one address      *)
(* (middleware/rateLimiter.ts), the login and logout of routes/account.ts  *)
(* and routes/admin.ts, the sessions in the database                       *)
(* (services/sessionManager.ts), and the pages behind them                 *)
(* (middleware/auth.ts).  Time is relative: a try has an age, a session    *)
(* the time until its expires_at.                                          *)
(***************************************************************************)
EXTENDS Integers, Sequences, Collections

CONSTANTS
    Cookies,    \* sessions that are ever created
    Visits,     \* requests for a page under way at a time
    Window,     \* ADMIN_WINDOW_SECONDS
    MaxLogins,  \* ADMIN_MAX_ATTEMPTS
    Lifetime    \* SESSION_TTL

VARIABLES
    tries,     \* adminAttempts.get(ip): ages
    browser,   \* of each cookie: none yet, its row being inserted, held, or lost
    rows,      \* the rows of sessions
    due,       \* the time until each session's expires_at
    visits,    \* where each request for a page is
    admitted,  \* history: ages of the tries that were let through
    revoked    \* history: the sessions that were logged out

vars == <<tries, browser, rows, due, visits, admitted, revoked>>
sessionVars == <<browser, rows, due, revoked>>

Idle == [at |-> "idle", cookie |-> "", found |-> FALSE, late |-> FALSE]
Oldest == 2 * Window + 1
Aged(ages) == [i \in DOMAIN ages |-> IF ages[i] < Oldest THEN ages[i] + 1 ELSE Oldest]
Fresh(ages) == Among(ages, 0..Window - 1)

Init ==
    /\ tries = <<>> /\ admitted = <<>>
    /\ browser = [c \in Cookies |-> "none"] /\ due = [c \in Cookies |-> -1]
    /\ rows = {} /\ revoked = {}
    /\ visits = [v \in Visits |-> Idle]

(***************************************************************************)
(* POST /api/login and POST /admin/logout.                                 *)
(***************************************************************************)
\* A wrong key takes a try, too.  The expiry is fixed before the INSERT.
Login ==
    /\ Len(Fresh(tries)) < MaxLogins
    /\ tries' = Append(Fresh(tries), 0) /\ admitted' = Append(admitted, 0)
    /\ \/ UNCHANGED sessionVars
       \/ \E c \in Cookies :
             /\ browser[c] = "none" /\ browser' = [browser EXCEPT ![c] = "inserting"]
             /\ due' = [due EXCEPT ![c] = Lifetime]
             /\ UNCHANGED <<rows, revoked>>
    /\ UNCHANGED visits

Inserted(c) ==
    /\ browser[c] = "inserting" /\ browser' = [browser EXCEPT ![c] = "held"]
    /\ rows' = rows \cup {c}
    /\ UNCHANGED <<tries, due, visits, admitted, revoked>>

\* The browser may keep, and send, the cookie of a session that is over.
Logout(c) ==
    /\ browser[c] = "held"
    /\ rows' = rows \ {c} /\ revoked' = revoked \cup {c}
    /\ UNCHANGED <<tries, browser, due, visits, admitted>>

(***************************************************************************)
(* verifySession(): the row, and after an await the clock.                 *)
(***************************************************************************)
Ask(v, c) ==
    /\ visits[v].at = "idle" /\ browser[c] = "held"
    /\ visits' = [visits EXCEPT ![v] =
                     [at |-> "read", cookie |-> c, found |-> c \in rows, late |-> c \in revoked]]
    /\ UNCHANGED <<tries, sessionVars, admitted>>

\* Seeded fault: the expiry is left to the hourly cleanup.
NeverOver(c) == FALSE

Over(c) == due[c] < 0

\* A row that is over is deleted first; when that fails, the answer is an error.
Answer(v) ==
    LET c == visits[v].cookie IN
    /\ visits[v].at = "read"
    /\ \/ ~visits[v].found /\ visits' = [visits EXCEPT ![v].at = "refused"] /\ UNCHANGED rows
       \/ visits[v].found /\ ~Over(c) /\ visits' = [visits EXCEPT ![v].at = "served"]
          /\ UNCHANGED rows
       \/ visits[v].found /\ Over(c)
          /\ \/ rows' = rows \ {c} /\ visits' = [visits EXCEPT ![v].at = "refused"]
             \/ visits' = [visits EXCEPT ![v] = Idle] /\ UNCHANGED rows
    /\ UNCHANGED <<tries, browser, due, admitted, revoked>>

Answered(v) ==
    /\ visits[v].at \in {"served", "refused"} /\ visits' = [visits EXCEPT ![v] = Idle]
    /\ UNCHANGED <<tries, sessionVars, admitted>>

(***************************************************************************)
(* Timers, and the process.                                                *)
(***************************************************************************)
Tick ==
    /\ tries' = Aged(tries) /\ admitted' = Fresh(Aged(admitted))
    /\ due' = [c \in Cookies |-> IF due[c] < 0 THEN due[c] ELSE due[c] - 1]
    /\ UNCHANGED <<browser, rows, visits, revoked>>

\* Seeded fault: the cutoff lies within the window.
KeptShort(ages) == Among(ages, 0..Window - 2)

Kept(ages) == Among(ages, 0..2 * Window - 1)
Evict ==
    /\ Kept(tries) # tries /\ tries' = Kept(tries)
    /\ UNCHANGED <<sessionVars, visits, admitted>>

Unexpired == {c \in rows : due[c] > 0}
CleanUp ==
    /\ Unexpired # rows /\ rows' = Unexpired
    /\ UNCHANGED <<tries, browser, due, visits, admitted, revoked>>

\* Seeded fault: the sessions are the process', like those of accounts.
NoneLeft == {}

\* initializeSessionManager() removes what has expired.  A statement of a login or a logout
\* that fails ends the process as well: nobody catches its rejection.
Left == Unexpired
Restart ==
    /\ tries' = <<>> /\ admitted' = <<>>
    /\ visits' = [v \in Visits |-> Idle] /\ rows' = Left
    /\ browser' = [c \in Cookies |-> IF browser[c] = "inserting" THEN "lost" ELSE browser[c]]
    /\ UNCHANGED <<due, revoked>>

Next ==
    \/ Login \/ Tick \/ Evict \/ CleanUp \/ Restart
    \/ \E c \in Cookies : Inserted(c) \/ Logout(c) \/ \E v \in Visits : Ask(v, c)
    \/ \E v \in Visits : Answer(v) \/ Answered(v)

Spec == Init /\ [][Next]_vars

TypeOK ==
    /\ \A ages \in {tries, admitted} : ages \in Seq(0..Oldest)
    /\ browser \in [Cookies -> {"none", "inserting", "held", "lost"}]
    /\ rows \subseteq Cookies /\ revoked \subseteq Cookies
    /\ due \in [Cookies -> -1..Lifetime]
    /\ \A v \in Visits : visits[v].at \in {"idle", "read", "served", "refused"}

\* However tries are evicted and windows overlap, an address gets no more tries within a
\* minute than ADMIN_MAX_ATTEMPTS, unless the process restarts.
LoginsLimited == [][Len(admitted') > Len(admitted) => Len(admitted') <= MaxLogins]_vars

\* A page is never served to a visit that began after the logout, or that is answered after
\* the session's end; and none is refused to a session before its end, unless it was logged
\* out, whatever cleanups and restarts do to the rows.
VisitsTrue ==
    [][\A v \in Visits :
          LET c == visits[v].cookie IN
          visits[v].at = "read" =>
              /\ visits'[v].at = "served" => ~visits[v].late /\ due[c] >= 0
              /\ visits'[v].at = "refused" => c \in revoked \/ due[c] <= 0]_vars
=============================================================================
