------------------------------ MODULE KeyState ------------------------------
(***************************************************************************)
(* Health of the upstream keys of one endpoint: the rows of key_states and *)
(* key_code_counts (services/keyStateManager.ts), the client requests that *)
(* select keys from them and report what the upstream answered             *)
(* (utils/helpers.ts, utils/requestRouting.ts), the readers of the per-key *)
(* view, and the operator's reset, disable and reset-stats calls.          *)
(*                                                                         *)
(* What a transaction() of the database does is one step.  A SELECT and    *)
(* the UPDATE that uses what it returned are separate steps: every other   *)
(* actor may run between them.  (On SQLite a lone statement can run inside *)
(* another call's open transaction.  Of what is modelled only the status   *)
(* could show that, and a transaction writes it in its last statement.     *)
(* What such a transaction's rollback does to the lone statement is not    *)
(* modelled.)                                                              *)
(*                                                                         *)
(* Time is relative: "left" is the number of clock ticks until a row's     *)
(* disabled_until, and every deadline anyone holds ages by one per Tick.   *)
(* A key with no row behaves exactly as a row in its default state, so     *)
(* ensureRow() leaves nothing to see and rows exist from the start.        *)
(***************************************************************************)
EXTENDS Integers, FiniteSets

CONSTANTS
    N,               \* number of keys the endpoint is configured with
    Requests,        \* client requests, each routed once
    Viewers,         \* readers of getStatesForEndpoint
    Cooldown,        \* keyTimeoutHours, in ticks
    MaxKeyAttempts,  \* 1 + keyHopAttempts
    KeyHealth,       \* resolveKeyHealth() of the endpoint
    Rotation,        \* resolveRotationMode() of the endpoint
    Answers          \* the actionable codes the upstream may answer with

Keys == 1..N                       \* in configured order
NoKey == 0
NoDeadline == -1                   \* disabled_until IS NULL

ACTIONABLE_CODES == {400, 401, 402, 403, 404, 429}
INVALID_CODES == {401, 403, 404}
TIMEOUT_CODE == {402, 429}
HOP_CODES == {401, 402, 403, 429}  \* classifyUpstreamFailure().retryKey
NoCode == 0

ASSUME NAssumption == N \in Nat \ {0}
ASSUME CooldownAssumption == Cooldown \in Nat \ {0}
ASSUME AttemptsAssumption == MaxKeyAttempts \in Nat \ {0}
ASSUME SwitchAssumption == /\ KeyHealth \in BOOLEAN
                           /\ Rotation \in {"sticky", "roundrobin"}
ASSUME AnswersAssumption == Answers \subseteq ACTIONABLE_CODES
ASSUME ActorsAssumption == Requests \cap Viewers = {}

Actors == Requests \cup Viewers

VARIABLES
    row,      \* row[k]: status and deadline of key k
    stats,    \* stats[k]: the counters of key k
    phase,    \* where each actor stands
    snap,     \* snap[a]: the rows actor a read, as long as it may use them
    pend,     \* pend[a]: keys whose recovery UPDATE view a still has to run
    pos,      \* pos[r]: the next key getUsableTokens() looks at
    usable,   \* usable[r]: the keys it has found usable
    tried,    \* tried[r]: attemptedKeyHashes() of the endpoint
    offset,   \* offset[r]: rotationOffset, or -1 before the first selection
    picked,   \* picked[r]: the key the upstream call uses
    code,     \* code[r]: the failure recordFailure() is about to record
    stamp,    \* stamp[r]: its now + hours, as ticks left
    held      \* history: keys the operator disabled and has not reset since

rowVars == <<row, stats, held>>
viewVars == <<snap, pend>>
pickVars == <<pos, usable, tried, offset, picked>>
failVars == <<code, stamp>>
vars == <<rowVars, phase, viewVars, pickVars, failVars>>

Statuses == {"active", "invalid", "timeout", "disabled"}
Row == [status : Statuses, left : Nat \cup {NoDeadline}]
Stat == [total : Nat, failed : Nat, codes : [ACTIONABLE_CODES -> Nat]]
Phases == {"idle", "checking", "calling", "failed", "exhausted",
           "viewing", "recovering", "done"}

ActiveRow == [status |-> "active", left |-> NoDeadline]
InvalidRow == [status |-> "invalid", left |-> NoDeadline]
DisabledRow == [status |-> "disabled", left |-> NoDeadline]
TimeoutRow(ticks) == [status |-> "timeout", left |-> ticks]
ZeroStat == [total |-> 0, failed |-> 0, codes |-> [c \in ACTIONABLE_CODES |-> 0]]
Blank == [k \in Keys |-> ActiveRow]   \* an actor that holds no rows

Init ==
    /\ row = [k \in Keys |-> ActiveRow]
    /\ stats = [k \in Keys |-> ZeroStat]
    /\ phase = [a \in Actors |-> "idle"]
    /\ snap = [a \in Actors |-> Blank]
    /\ pend = [a \in Actors |-> {}]
    /\ pos = [r \in Requests |-> 1]
    /\ usable = [r \in Requests |-> {}]
    /\ tried = [r \in Requests |-> {}]
    /\ offset = [r \in Requests |-> -1]
    /\ picked = [r \in Requests |-> NoKey]
    /\ code = [r \in Requests |-> NoCode]
    /\ stamp = [r \in Requests |-> NoDeadline]
    /\ held = {}

(***************************************************************************)
(* Selection: getUsableTokens() and getEndpointForConcreteModel().         *)
(***************************************************************************)
IsExpired(rw) == rw.status = "timeout" /\ rw.left = 0
\* Seeded fault: only the operator's disable counts as unusable.
IsUsableUnlessDisabled(rw) == rw.status # "disabled"

IsUsable(rw) == rw.status = "active" \/ IsExpired(rw)

\* The SELECT of getUsableTokens(): the rows of the endpoint as they are now.
BeginSelect(r) ==
    /\ phase[r] = "idle"
    /\ phase' = [phase EXCEPT ![r] = "checking"]
    /\ snap' = [snap EXCEPT ![r] = row]
    /\ UNCHANGED <<rowVars, pend, pickVars, failVars>>

\* Seeded fault: the recovery forgets disabled_until = NULL.
RecoverStatusOnly(k) == row' = [row EXCEPT ![k].status = "active"]

\* The row a recovery UPDATE leaves: it is conditional on the key only, not on
\* the status or the deadline that was read.
Recover(k) == row' = [row EXCEPT ![k] = ActiveRow]

\* Seeded fault: the caller's excludeHashes are ignored.
ConsideredAlways(r, k) == TRUE

\* The exclusion of the keys already tried comes before the row is looked at.
Considered(r, k) == k \notin tried[r]

\* isRowUsable() decides from the row that was read and from the clock.  Its
\* decision and its UPDATE are one step: in between nothing it depends on can
\* change back, since an expired deadline stays expired.
CheckToken(r) ==
    /\ phase[r] = "checking"
    /\ pos[r] \in Keys
    /\ LET k == pos[r]
           ok == Considered(r, k) /\ IsUsable(snap[r][k])
       IN /\ usable' = [usable EXCEPT ![r] = IF ok THEN @ \cup {k} ELSE @]
          /\ IF ok /\ IsExpired(snap[r][k]) THEN Recover(k) ELSE UNCHANGED row
    /\ pos' = [pos EXCEPT ![r] = @ + 1]
    /\ UNCHANGED <<stats, held, phase, viewVars, tried, offset, picked, failVars>>

Offsets(r) == IF Rotation = "sticky" THEN {0}
              ELSE IF offset[r] # -1 THEN {offset[r]}
              ELSE 0..(N - 1)

\* orderTokensFrom(): how far key k is from the rotation's start, walking the
\* configured order and wrapping at its end.
Distance(k, start) == (k - 1 - start) % N

PickToken(r) ==
    /\ phase[r] = "checking"
    /\ pos[r] \notin Keys
    /\ \E start \in Offsets(r), k \in usable[r] :
          /\ \A other \in usable[r] : Distance(k, start) <= Distance(other, start)
          /\ offset' = [offset EXCEPT ![r] = start]
          /\ picked' = [picked EXCEPT ![r] = k]
    /\ phase' = [phase EXCEPT ![r] = "calling"]
    /\ snap' = [snap EXCEPT ![r] = Blank]
    /\ pos' = [pos EXCEPT ![r] = 1]
    /\ usable' = [usable EXCEPT ![r] = {}]
    /\ UNCHANGED <<rowVars, pend, tried, failVars>>

\* Seeded fault: exhaustion is noticed only on a request's first selection.
ExhaustedFirstTime(r) ==
    /\ phase[r] = "checking"
    /\ pos[r] \notin Keys
    /\ usable[r] = {}
    /\ tried[r] = {}
    /\ phase' = [phase EXCEPT ![r] = "exhausted"]
    /\ snap' = [snap EXCEPT ![r] = Blank]
    /\ pos' = [pos EXCEPT ![r] = 1]
    /\ UNCHANGED <<rowVars, pend, usable, tried, offset, picked, failVars>>

\* No usable key: tokenExhausted.  The request goes on to describeExhaustion().
Exhausted(r) ==
    /\ phase[r] = "checking"
    /\ pos[r] \notin Keys
    /\ usable[r] = {}
    /\ phase' = [phase EXCEPT ![r] = "exhausted"]
    /\ snap' = [snap EXCEPT ![r] = Blank]
    /\ pos' = [pos EXCEPT ![r] = 1]
    /\ UNCHANGED <<rowVars, pend, usable, tried, offset, picked, failVars>>

(***************************************************************************)
(* The upstream answers.                                                   *)
(***************************************************************************)
\* recordSuccess().
AnswerSuccess(r) ==
    /\ phase[r] = "calling"
    /\ stats' = [stats EXCEPT ![picked[r]].total = @ + 1]
    /\ phase' = [phase EXCEPT ![r] = "done"]
    /\ picked' = [picked EXCEPT ![r] = NoKey]
    /\ UNCHANGED <<row, held, viewVars, pos, usable, tried, offset, failVars>>

\* recordFailure() reads the clock before its transaction starts.
AnswerFailure(r, c) ==
    /\ phase[r] = "calling"
    /\ code' = [code EXCEPT ![r] = c]
    /\ stamp' = [stamp EXCEPT ![r] = Cooldown]
    /\ phase' = [phase EXCEPT ![r] = "failed"]
    /\ UNCHANGED <<rowVars, viewVars, pickVars>>

\* A failure that is not the key's (5xx, timeout, network, client abort or a
\* terminal error): recordKeyFailure() returns without touching the rows.
\* Retries on the same key before it leave no trace here.
AnswerUnrecorded(r) ==
    /\ phase[r] = "calling"
    /\ phase' = [phase EXCEPT ![r] = "done"]
    /\ picked' = [picked EXCEPT ![r] = NoKey]
    /\ UNCHANGED <<rowVars, viewVars, pos, usable, tried, offset, failVars>>

\* Seeded fault: a rate limit is written without its deadline.
SidelinedForGood(rw, c, deadline) ==
    CASE ~KeyHealth -> rw
      [] KeyHealth /\ c \in INVALID_CODES -> InvalidRow
      [] KeyHealth /\ c \in TIMEOUT_CODE -> TimeoutRow(NoDeadline)
      [] OTHER -> rw

\* The status part of recordFailure(): what a failure with code c makes of a
\* row, whatever the row says now.
Sidelined(rw, c, deadline) ==
    CASE ~KeyHealth -> rw
      [] KeyHealth /\ c \in INVALID_CODES -> InvalidRow
      [] KeyHealth /\ c \in TIMEOUT_CODE -> TimeoutRow(deadline)
      [] OTHER -> rw

\* Seeded fault: the code is counted, the failure is not.
CountedCodeOnly(st, c) ==
    [st EXCEPT !.total = @ + 1, !.codes = [@ EXCEPT ![c] = @ + 1]]

Counted(st, c) ==
    [total |-> st.total + 1,
     failed |-> st.failed + 1,
     codes |-> [st.codes EXCEPT ![c] = @ + 1]]

MayHop(r) == code[r] \in HOP_CODES /\ Cardinality(tried[r]) + 1 < MaxKeyAttempts

\* The transaction of recordFailure(), and the loop's next turn: hop to another
\* key, or leave this endpoint.
RecordFailure(r) ==
    /\ phase[r] = "failed"
    /\ LET k == picked[r] IN
          /\ stats' = [stats EXCEPT ![k] = Counted(@, code[r])]
          /\ row' = [row EXCEPT ![k] = Sidelined(@, code[r], stamp[r])]
          /\ tried' = [tried EXCEPT ![r] = @ \cup {k}]
    /\ phase' = [phase EXCEPT ![r] = IF MayHop(r) THEN "idle" ELSE "done"]
    /\ picked' = [picked EXCEPT ![r] = NoKey]
    /\ code' = [code EXCEPT ![r] = NoCode]
    /\ stamp' = [stamp EXCEPT ![r] = NoDeadline]
    /\ UNCHANGED <<held, viewVars, pos, usable, offset>>

\* A statement of the key store fails and the error leaves the routing loop; a
\* transaction is rolled back.  (A failing recordSuccess() is an upstream
\* failure to the loop: AnswerUnrecorded.)
StoreFails(r) ==
    /\ phase[r] \in {"idle", "checking", "failed", "exhausted"}
    /\ phase' = [phase EXCEPT ![r] = "done"]
    /\ snap' = [snap EXCEPT ![r] = Blank]
    /\ pos' = [pos EXCEPT ![r] = 1]
    /\ usable' = [usable EXCEPT ![r] = {}]
    /\ picked' = [picked EXCEPT ![r] = NoKey]
    /\ code' = [code EXCEPT ![r] = NoCode]
    /\ stamp' = [stamp EXCEPT ![r] = NoDeadline]
    /\ UNCHANGED <<rowVars, pend, tried, offset>>

(***************************************************************************)
(* getStatesForEndpoint(): called for the admin's key view, and by a       *)
(* request that found no key.                                              *)
(***************************************************************************)
ViewRead(a) ==
    /\ \/ a \in Viewers /\ phase[a] = "idle"
       \/ phase[a] = "exhausted"
    /\ phase' = [phase EXCEPT ![a] = "viewing"]
    /\ snap' = [snap EXCEPT ![a] = row]
    /\ UNCHANGED <<rowVars, pend, pickVars, failVars>>

\* One reading of the clock decides for all the rows that were read.
ViewDecide(a) ==
    /\ phase[a] = "viewing"
    /\ phase' = [phase EXCEPT ![a] = "recovering"]
    /\ pend' = [pend EXCEPT ![a] = {k \in Keys : IsExpired(snap[a][k])}]
    /\ snap' = [snap EXCEPT ![a] = Blank]
    /\ UNCHANGED <<rowVars, pickVars, failVars>>

\* The UPDATEs run concurrently, in any order.
ViewRecover(a, k) ==
    /\ phase[a] = "recovering"
    /\ k \in pend[a]
    /\ Recover(k)
    /\ pend' = [pend EXCEPT ![a] = @ \ {k}]
    /\ UNCHANGED <<stats, held, phase, snap, pickVars, failVars>>

\* One of them fails: the view is lost, the other UPDATEs run all the same.
ViewRecoverFails(a, k) ==
    /\ phase[a] = "recovering"
    /\ k \in pend[a]
    /\ pend' = [pend EXCEPT ![a] = @ \ {k}]
    /\ UNCHANGED <<rowVars, phase, snap, pickVars, failVars>>

ViewDone(a) ==
    /\ phase[a] = "recovering"
    /\ pend[a] = {}
    /\ phase' = [phase EXCEPT ![a] = IF a \in Viewers THEN "idle" ELSE "done"]
    /\ UNCHANGED <<rowVars, viewVars, pickVars, failVars>>

(***************************************************************************)
(* The operator.                                                           *)
(***************************************************************************)
Disable(k) ==
    /\ row' = [row EXCEPT ![k] = DisabledRow]
    /\ held' = held \cup {k}
    /\ UNCHANGED <<stats, phase, viewVars, pickVars, failVars>>

\* resetKey() of one key, or of all of them.
ResetKeys(ks) ==
    /\ row' = [k \in Keys |-> IF k \in ks THEN ActiveRow ELSE row[k]]
    /\ held' = held \ ks
    /\ UNCHANGED <<stats, phase, viewVars, pickVars, failVars>>

\* resetStats() of one key, or of all of them.
ResetStats(ks) ==
    /\ stats' = [k \in Keys |-> IF k \in ks THEN ZeroStat ELSE stats[k]]
    /\ UNCHANGED <<row, held, phase, viewVars, pickVars, failVars>>

OneOrAll == {{k} : k \in Keys} \cup {Keys}

(***************************************************************************)
(* The clock: every deadline somebody stored or read comes one tick closer.*)
(***************************************************************************)
\* Seeded fault: deadlines that are NULL or past move too.
SoonerAlways(left) == left - 1

Sooner(left) == IF left > 0 THEN left - 1 ELSE left
Aged(rw) == [rw EXCEPT !.left = Sooner(@)]

Tick ==
    /\ row' = [k \in Keys |-> Aged(row[k])]
    /\ snap' = [a \in Actors |-> [k \in Keys |-> Aged(snap[a][k])]]
    /\ stamp' = [r \in Requests |-> Sooner(stamp[r])]
    /\ UNCHANGED <<stats, held, phase, pend, pickVars, code>>

RequestStep(r) ==
    \/ BeginSelect(r)
    \/ CheckToken(r)
    \/ PickToken(r)
    \/ Exhausted(r)
    \/ AnswerSuccess(r)
    \/ AnswerUnrecorded(r)
    \/ \E c \in Answers : AnswerFailure(r, c)
    \/ RecordFailure(r)

ViewStep(a) ==
    \/ ViewRead(a)
    \/ ViewDecide(a)
    \/ \E k \in Keys : ViewRecover(a, k)
    \/ ViewDone(a)

FaultStep ==
    \/ \E r \in Requests : StoreFails(r)
    \/ \E a \in Actors, k \in Keys : ViewRecoverFails(a, k)

OperatorStep ==
    \/ \E k \in Keys : Disable(k)
    \/ \E ks \in OneOrAll : ResetKeys(ks) \/ ResetStats(ks)

Next ==
    \/ \E r \in Requests : RequestStep(r)
    \/ \E a \in Actors : ViewStep(a)
    \/ OperatorStep
    \/ FaultStep
    \/ Tick

Spec == Init /\ [][Next]_vars

\* The clock runs, and what a request has begun goes on: a statement returns, the
\* loop takes its next turn, its upstream call ends.  For the last, axios bounds
\* the wait for a response; a stream that has begun is assumed to end, or its
\* client to leave.
\* Neither new requests, nor admin views, nor the operator, nor a failure of the
\* key store can be relied on.
GoesOn(r) == (phase[r] # "idle" \/ tried[r] # {}) /\ (RequestStep(r) \/ ViewStep(r))

FairSpec ==
    /\ Spec
    /\ WF_vars(Tick)
    /\ \A r \in Requests : WF_vars(GoesOn(r))

(***************************************************************************)
(* Properties.                                                             *)
(***************************************************************************)
\* Types, and what each phase of a request says about its own variables.
TypeOK ==
    /\ row \in [Keys -> Row]
    /\ stats \in [Keys -> Stat]
    /\ phase \in [Actors -> Phases]
    /\ snap \in [Actors -> [Keys -> Row]]
    /\ pend \in [Actors -> SUBSET Keys]
    /\ pos \in [Requests -> Nat \ {0}]
    /\ usable \in [Requests -> SUBSET Keys]
    /\ tried \in [Requests -> SUBSET Keys]
    /\ offset \in [Requests -> Int]
    /\ picked \in [Requests -> Keys \cup {NoKey}]
    /\ code \in [Requests -> ACTIONABLE_CODES \cup {NoCode}]
    /\ stamp \in [Requests -> Nat \cup {NoDeadline}]
    /\ held \subseteq Keys
    /\ \A r \in Requests :
          /\ picked[r] \in Keys <=> phase[r] \in {"calling", "failed"}
          /\ phase[r] = "failed" <=> code[r] # NoCode
          /\ phase[r] = "failed" <=> stamp[r] # NoDeadline

\* A row carries a deadline exactly while it is a timeout, whoever wrote it
\* last: no mixture of failures, recoveries, resets and disables leaves an
\* active key with an old deadline, or a timeout that can never end.
DeadlineIffTimeout ==
    \A k \in Keys : row[k].status = "timeout" <=> row[k].left # NoDeadline

CodesSum(c) == c[400] + c[401] + c[402] + c[403] + c[404] + c[429]

\* The counters the admin sees agree: every failed request of a key is counted
\* under one status code, and no more requests failed than were made, also
\* when reset-stats runs between two failures.
StatsConserved ==
    \A k \in Keys : /\ stats[k].failed = CodesSum(stats[k].codes)
                    /\ stats[k].failed <= stats[k].total

\* One request never uses a key twice on an endpoint (utils/helpers.ts 449),
\* so it never uses more keys than keyHopAttempts allows.
NoKeyTwice ==
    \A r \in Requests : /\ picked[r] \notin tried[r]
                        /\ usable[r] \cap tried[r] = {}
                        /\ Cardinality(tried[r]) <= MaxKeyAttempts

\* Row s, read earlier, gives its holder no reason to use or to recover the key
\* before the row as it is now does.
Agrees(s, now) ==
    \/ s.status \in {"invalid", "disabled"}
    \/ s.status = "timeout" /\ now.status = "timeout" /\ s.left >= now.left

\* The key is benched and no one who read its row earlier is about to use it or
\* to overwrite its status.
Secured(k) ==
    /\ row[k].status # "active"
    /\ ~IsExpired(row[k])
    /\ \A r \in Requests : picked[r] # k /\ k \notin usable[r]
    /\ \A a \in Actors : /\ k \notin pend[a]
                         /\ phase[a] \in {"checking", "viewing"} => Agrees(snap[a][k], row[k])

OperatorActsOn(k) == Disable(k) \/ \E ks \in OneOrAll : k \in ks /\ ResetKeys(ks)

\* Rows and readers fit together: a deadline exactly on a timeout, whoever wrote the row
\* last, and no key called twice by a request.
RowsAndReadersFit == TypeOK /\ DeadlineIffTimeout /\ NoKeyTwice

\* A benched key stays benched once the actors that read its row before are
\* through with it: until its deadline passes or the operator acts on it, no
\* request, however many start, calls it or changes its status.
BenchStands ==
    [][\A k \in Keys :
          Secured(k) => Secured(k)' \/ IsExpired(row[k])' \/ OperatorActsOn(k)]_vars

\* A timeout does not outlive its cooldown for ever: each key that is timed out
\* becomes usable again, or is taken off rotation for another reason.  Requests
\* that still fail on it can only postpone that.
KeyComesBack ==
    \A k \in Keys : row[k].status = "timeout" ~> (row[k].status # "timeout" \/ row[k].left = 0)

\* Every request that has begun to look for a key ends, whatever the operator
\* and the other actors do meanwhile to the rows it works on.
RequestEnds == \A r \in Requests : phase[r] = "checking" ~> phase[r] = "done"

\* What routes/admin.ts 1554 says of disabling: the key is "skipped during
\* rotation until re-enabled", so it is not usable while the operator holds it.
HeldSkipped == \A k \in held : ~IsUsable(row[k])

\* What services/settingsManager.ts 41 says of keyTimeoutHours: the time a
\* rate-limited key "stays timed out before auto-recovering".  Only the
\* operator makes it active earlier.
CooldownHonoured ==
    [][\A k \in Keys :
          (row[k].status = "timeout" /\ row[k].left > 0 /\ row'[k].status = "active")
             => \E ks \in OneOrAll : k \in ks /\ ResetKeys(ks)]_vars
=============================================================================
