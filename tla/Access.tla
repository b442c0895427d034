------------------------------- MODULE Access -------------------------------
(***************************************************************************)
(* One client key: its row (services/apiKeyManager.ts), the limiter of     *)
(* middleware/rateLimiter.ts, the checks of middleware/auth.ts, the key's  *)
(* account session (services/accountSessionManager.ts, routes/account.ts), *)
(* and the admin's operations on the row (routes/admin.ts).  Time is       *)
(* relative: an attempt has an age, and the row knows whether its day is   *)
(* over.                                                                   *)
(***************************************************************************)
EXTENDS Integers, Sequences, Collections

CONSTANTS
    Requests,   \* generation requests under way at a time
    Window,     \* the 60 seconds of the limiter
    Limits      \* the values rpd and rpm take

VARIABLES
    row,       \* the row of api_keys
    holder,    \* the check whose transaction holds the row, or none
    request,   \* where each request is
    attempts,  \* apiKeyUsage.get(key): ages
    session,   \* sessions.get(id): live, or none once deleted or run out
    visit,     \* a request of the account page, or a login
    admin,     \* the operations admin requests have resolved the key for
    taken,     \* history: ages of the slots requests took
    counted    \* history: requests admitted since the counter was reset

vars == <<row, holder, request, attempts, session, visit, admin, taken, counted>>
histVars == <<taken, counted>>
webVars == <<session, visit, admin>>

NoOne == "none"
NoRow == [stored |-> FALSE, active |-> FALSE, rpd |-> 0, rpm |-> 0, usage |-> 0, stale |-> FALSE]
NewRow(rpd, rpm) ==
    [stored |-> TRUE, active |-> TRUE, rpd |-> rpd, rpm |-> rpm, usage |-> 0, stale |-> FALSE]
Idle == "idle"

Oldest == 2 * Window + 1
Aged(ages) == [i \in DOMAIN ages |-> IF ages[i] < Oldest THEN ages[i] + 1 ELSE Oldest]
Fresh(ages) == Among(ages, 0..Window - 1)

Init ==
    /\ \E rpd, rpm \in Limits : row = NewRow(rpd, rpm)
    /\ holder = NoOne
    /\ request = [r \in Requests |-> Idle]
    /\ attempts = <<>>
    /\ session = "none" /\ visit = Idle /\ admin = {}
    /\ taken = <<>> /\ counted = 0

(***************************************************************************)
(* A generation request: verifyApiKey(), then checkForGeneration(), whose  *)
(* transaction locks the row (FOR UPDATE; on SQLite the transactions take  *)
(* turns).                                                                 *)
(***************************************************************************)
Verify(r) ==
    /\ request[r] = Idle /\ row.stored
    /\ request' = [request EXCEPT ![r] = "verified"]
    /\ UNCHANGED <<row, holder, attempts, webVars, histVars>>

\* The row is read, then tested in the code's order; a request that is refused
\* rolls back, but a slot it took stays taken.
Entitled == row.stored /\ row.active /\ row.usage < row.rpd
HasSlot == Len(Fresh(attempts)) < row.rpm
Check(r) ==
    /\ request[r] = "verified" /\ holder = NoOne
    /\ \/ ~Entitled /\ request' = [request EXCEPT ![r] = Idle] /\ UNCHANGED <<holder, attempts, taken>>
       \/ Entitled /\ ~HasSlot /\ request' = [request EXCEPT ![r] = Idle]
          /\ attempts' = Fresh(attempts) /\ UNCHANGED <<holder, taken>>
       \/ Entitled /\ HasSlot /\ attempts' = Append(Fresh(attempts), 0)
          /\ taken' = Append(taken, 0)
          /\ \/ request' = [request EXCEPT ![r] = Idle] /\ UNCHANGED holder
             \/ request' = [request EXCEPT ![r] = "counting"] /\ holder' = r
    /\ UNCHANGED <<row, webVars, counted>>

\* Seeded fault: the increment is not part of the transaction.
CountOutside(r) ==
    /\ request[r] = "counting"
    /\ holder' = NoOne /\ request' = [request EXCEPT ![r] = Idle]
    /\ row' = [row EXCEPT !.usage = @ + 1]
    /\ counted' \in {counted, counted + 1}
    /\ UNCHANGED <<attempts, webVars, taken>>

\* The UPDATE and the COMMIT, or their failure.
Count(r) ==
    /\ request[r] = "counting"
    /\ holder' = NoOne /\ request' = [request EXCEPT ![r] = Idle]
    /\ \/ /\ row' = [row EXCEPT !.usage = @ + 1] /\ counted' = counted + 1
       \/ UNCHANGED <<row, counted>>
    /\ UNCHANGED <<attempts, webVars, taken>>

(***************************************************************************)
(* Timers: resetDaily() every hour, the evictions of the limiter.         *)
(***************************************************************************)
\* Seeded fault: a reset is stamped but leaves the count.
ResetDateOnly ==
    /\ holder = NoOne /\ row.stale
    /\ row' = [row EXCEPT !.stale = FALSE]
    /\ UNCHANGED <<holder, request, attempts, webVars, histVars>>

ResetDaily ==
    /\ holder = NoOne /\ row.stale
    /\ row' = [row EXCEPT !.usage = 0, !.stale = FALSE]
    /\ counted' = 0
    /\ UNCHANGED <<holder, request, attempts, webVars, taken>>

\* Seeded fault: the cutoff lies within the window.
StaleSoon(ages) == ages # <<>> /\ \A i \in DOMAIN ages : ages[i] > 0

Stale(ages) == ages # <<>> /\ \A i \in DOMAIN ages : ages[i] > 2 * Window
Evict ==
    /\ Stale(attempts) /\ attempts' = <<>>
    /\ UNCHANGED <<row, holder, request, webVars, histVars>>

Tick ==
    /\ attempts' = Aged(attempts)
    /\ taken' = Fresh(Aged(taken))
    /\ UNCHANGED <<row, holder, request, webVars, counted>>

Midnight ==
    /\ row.stored /\ ~row.stale
    /\ row' = [row EXCEPT !.stale = TRUE]
    /\ UNCHANGED <<holder, request, attempts, webVars, histVars>>

(***************************************************************************)
(* The admin's handlers resolve the key, then run their statement, which   *)
(* waits for the row.                                                      *)
(***************************************************************************)
Operations == {"update", "remove", "add"}
Resolve ==
    /\ \E op \in Operations :
          (op = "add") = ~row.stored /\ op \notin admin /\ admin' = admin \cup {op}
    /\ UNCHANGED <<row, holder, request, attempts, session, visit, histVars>>

\* Another's statement may have run since: the UPDATE then finds no row, the INSERT
\* fails on the one it finds.
Statement(op) ==
    \/ op = "update" /\ row.stored /\ UNCHANGED counted
       /\ \E on \in BOOLEAN, rpd, rpm \in Limits :
             row' = [row EXCEPT !.active = on, !.rpd = rpd, !.rpm = rpm]
    \/ op = "remove" /\ row' = NoRow /\ counted' = 0
    \/ op = "add" /\ ~row.stored /\ counted' = 0
       /\ \E rpd, rpm \in Limits : row' = NewRow(rpd, rpm)
    \/ (op = "update") = ~row.stored /\ op # "remove" /\ UNCHANGED <<row, counted>>
Manage ==
    /\ holder = NoOne
    /\ \E op \in admin : Statement(op) /\ admin' = admin \ {op}
    /\ UNCHANGED <<holder, request, attempts, session, visit, taken>>

(***************************************************************************)
(* POST /api/login and the account page.  The cookie is the session's.     *)
(***************************************************************************)
Login ==
    /\ visit = Idle /\ session = "none"
    /\ visit' = IF row.stored THEN "resolved" ELSE Idle
    /\ UNCHANGED <<row, holder, request, attempts, session, admin, histVars>>

\* createAccountSession(), after the key was resolved.
SignIn ==
    /\ visit = "resolved"
    /\ visit' = Idle /\ session' = "live"
    /\ UNCHANGED <<row, holder, request, attempts, admin, histVars>>

\* The session runs out, is cleaned up, or is deleted by the user.
SessionEnds ==
    /\ session = "live" /\ session' = "none"
    /\ UNCHANGED <<row, holder, request, attempts, visit, admin, histVars>>

\* verifyAccountSession(): the map at once, then the row.
Visit ==
    /\ visit = Idle /\ session = "live"
    /\ visit' = IF row.stored THEN "signedIn" ELSE Idle
    /\ UNCHANGED <<row, holder, request, attempts, session, admin, histVars>>

\* Seeded fault: the page trusts the middleware.
PageUnread ==
    /\ visit = "signedIn" /\ visit' = "shown"
    /\ UNCHANGED <<row, holder, request, attempts, session, admin, histVars>>

\* The handler reads the row again: 404, or the page.
Page ==
    /\ visit = "signedIn"
    /\ visit' = IF row.stored THEN "shown" ELSE Idle
    /\ UNCHANGED <<row, holder, request, attempts, session, admin, histVars>>

Shown ==
    /\ visit = "shown" /\ visit' = Idle
    /\ UNCHANGED <<row, holder, request, attempts, session, admin, histVars>>

\* The maps are the process'.
Restart ==
    /\ holder' = NoOne /\ request' = [r \in Requests |-> Idle]
    /\ attempts' = <<>> /\ taken' = <<>>
    /\ session' = "none" /\ visit' = Idle /\ admin' = {}
    /\ UNCHANGED <<row, counted>>

Next ==
    \/ \E r \in Requests : Verify(r) \/ Check(r) \/ Count(r)
    \/ ResetDaily \/ Evict \/ Tick \/ Midnight
    \/ Resolve \/ Manage
    \/ Login \/ SignIn \/ SessionEnds \/ Visit \/ Page \/ Shown
    \/ Restart

Spec == Init /\ [][Next]_vars

\* A transaction that was begun ends, and the timer fires at an hour without one.
Fairness == SF_vars(ResetDaily) /\ \A r \in Requests : WF_vars(Count(r))
FairSpec == Spec /\ Fairness

TypeOK ==
    /\ row \in [stored : BOOLEAN, active : BOOLEAN, rpd : Limits \cup {0}, rpm : Limits \cup {0},
                usage : Nat, stale : BOOLEAN]
    /\ holder \in Requests \cup {NoOne}
    /\ request \in [Requests -> {Idle, "verified", "counting"}]
    /\ \A ages \in {attempts, taken} : ages \in Seq(0..Oldest)
    /\ session \in {"none", "live"}
    /\ visit \in {Idle, "resolved", "signedIn", "shown"}
    /\ admin \subseteq Operations /\ counted \in Nat

\* Two requests of a key never take the same slot: the slots taken within any minute
\* fit the limit the key has when the last of them is taken, with checks that
\* overlap, evictions and failures in between.
WindowKept ==
    [][Len(taken') > Len(taken) => Len(taken') <= row.rpm]_vars

\* The daily counter is what was admitted since its reset: no increment is lost to
\* a reset, an update or another request, and a refusal is not counted.
UsageTrue == row.usage = counted

\* A request is admitted, and the account page shown, for a key that is stored at
\* that very moment; the former for one that is active and under its daily limit,
\* although the admin's statements run between the reads and the writes.
EntitledWhenServed ==
    [][/\ counted' > counted => Entitled
       /\ visit' = "shown" /\ visit # "shown" => row.stored]_vars

\* A key at its daily limit is not locked out for good: once midnight has passed,
\* the counter falls or the row is gone.
LockoutEnds == row.stale /\ row.usage >= row.rpd ~> ~row.stored \/ row.usage < row.rpd
=============================================================================
