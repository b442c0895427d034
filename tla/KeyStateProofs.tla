--------------------------- MODULE KeyStateProofs ---------------------------
(***************************************************************************)
(* Proofs about KeyState, for every number of keys, requests and viewers,  *)
(* every cooldown and every setting.                                       *)
(***************************************************************************)
EXTENDS KeyState, FiniteSetTheorems, TLAPS

USE DEF Keys, NoKey, NoDeadline, NoCode, Actors, Row, Statuses

LEMMA RowsAreRows ==
    /\ ActiveRow \in Row
    /\ InvalidRow \in Row
    /\ DisabledRow \in Row
    /\ \A d \in Nat : TimeoutRow(d) \in Row
    /\ Blank \in [Keys -> Row]
BY DEF ActiveRow, InvalidRow, DisabledRow, TimeoutRow, Blank

LEMMA AgedIsRow == ASSUME NEW rw \in Row PROVE Aged(rw) \in Row
BY DEF Aged, Sooner

LEMMA CountedIsStat ==
    ASSUME NEW st \in Stat, NEW c \in ACTIONABLE_CODES
    PROVE  Counted(st, c) \in Stat
BY DEF Counted, Stat

LEMMA OneMoreIsStat ==
    ASSUME NEW st \in Stat PROVE [st EXCEPT !.total = @ + 1] \in Stat
BY DEF Stat

LEMMA SidelinedIsRow ==
    ASSUME NEW rw \in Row, NEW c, NEW d \in Nat
    PROVE  Sidelined(rw, c, d) \in Row
<1>1. CASE ~KeyHealth BY <1>1 DEF Sidelined
<1>2. CASE KeyHealth /\ c \in INVALID_CODES
      BY <1>2, RowsAreRows DEF Sidelined, INVALID_CODES, TIMEOUT_CODE
<1>3. CASE KeyHealth /\ c \in TIMEOUT_CODE
      BY <1>3, RowsAreRows DEF Sidelined, INVALID_CODES, TIMEOUT_CODE
<1>4. CASE KeyHealth /\ c \notin INVALID_CODES /\ c \notin TIMEOUT_CODE
      BY <1>4 DEF Sidelined
<1>5. QED BY <1>1, <1>2, <1>3, <1>4

LEMMA TypeInit == Init => TypeOK
BY RowsAreRows DEF Init, TypeOK, ZeroStat, Stat, Phases

LEMMA TypeNext == TypeOK /\ [Next]_vars => TypeOK'
<1> SUFFICES ASSUME TypeOK, [Next]_vars PROVE TypeOK'
    OBVIOUS
<1> USE DEF TypeOK, rowVars, viewVars, pickVars, failVars
<1>1. ASSUME NEW r \in Requests, BeginSelect(r) PROVE TypeOK'
      BY <1>1 DEF BeginSelect, Phases
<1>2. ASSUME NEW r \in Requests, CheckToken(r) PROVE TypeOK'
      <2>1. row' \in [Keys -> Row]
            BY <1>2, RowsAreRows DEF CheckToken, Recover
      <2>2. usable' \in [Requests -> SUBSET Keys] /\ pos' \in [Requests -> Nat \ {0}]
            BY <1>2 DEF CheckToken
      <2>3. QED BY <1>2, <2>1, <2>2 DEF CheckToken
<1>3. ASSUME NEW r \in Requests, PickToken(r) PROVE TypeOK'
      <2>1. offset' \in [Requests -> Int] /\ picked' \in [Requests -> Keys \cup {NoKey}]
            BY <1>3 DEF PickToken, Offsets
      <2>2. snap' \in [Actors -> [Keys -> Row]] BY <1>3, RowsAreRows DEF PickToken
      <2>3. picked'[r] \in Keys /\ \A q \in Requests \ {r} : picked'[q] = picked[q]
            BY <1>3 DEF PickToken
      <2>4. phase' = [phase EXCEPT ![r] = "calling"] /\ phase[r] = "checking"
            BY <1>3 DEF PickToken
      <2>5. QED BY <1>3, <2>1, <2>2, <2>3, <2>4 DEF PickToken, Phases
<1>4. ASSUME NEW r \in Requests, Exhausted(r) PROVE TypeOK'
      BY <1>4, RowsAreRows DEF Exhausted, Phases
<1>5. ASSUME NEW r \in Requests, AnswerSuccess(r) PROVE TypeOK'
      <2>1. picked[r] \in Keys BY <1>5 DEF AnswerSuccess
      <2>2. [stats[picked[r]] EXCEPT !.total = @ + 1] \in Stat BY <2>1, OneMoreIsStat
      <2>3. stats' \in [Keys -> Stat] BY <1>5, <2>1, <2>2 DEF AnswerSuccess
      <2>4. QED BY <1>5, <2>3 DEF AnswerSuccess, Phases
<1>6. ASSUME NEW r \in Requests, AnswerUnrecorded(r) PROVE TypeOK'
      BY <1>6 DEF AnswerUnrecorded, Phases
<1>7. ASSUME NEW r \in Requests, NEW c \in Answers, AnswerFailure(r, c) PROVE TypeOK'
      BY CooldownAssumption, AnswersAssumption, <1>7 DEF AnswerFailure, Phases, ACTIONABLE_CODES
<1>8. ASSUME NEW r \in Requests, RecordFailure(r) PROVE TypeOK'
      <2>1. picked[r] \in Keys /\ code[r] \in ACTIONABLE_CODES /\ stamp[r] \in Nat
            BY <1>8 DEF RecordFailure
      <2>2. row' \in [Keys -> Row] BY <1>8, <2>1, SidelinedIsRow DEF RecordFailure
      <2>3. stats' \in [Keys -> Stat] BY <1>8, <2>1, CountedIsStat DEF RecordFailure
      <2>4. tried' \in [Requests -> SUBSET Keys] BY <1>8, <2>1 DEF RecordFailure
      <2>5. QED BY <1>8, <2>1, <2>2, <2>3, <2>4 DEF RecordFailure, Phases
<1>9. ASSUME NEW a \in Actors, ViewRead(a) PROVE TypeOK'
      BY <1>9 DEF ViewRead, Phases
<1>10. ASSUME NEW a \in Actors, ViewDecide(a) PROVE TypeOK'
      BY <1>10, RowsAreRows DEF ViewDecide, Phases
<1>11. ASSUME NEW a \in Actors, NEW k \in Keys, ViewRecover(a, k) PROVE TypeOK'
      BY <1>11, RowsAreRows DEF ViewRecover, Recover
<1>12. ASSUME NEW a \in Actors, ViewDone(a) PROVE TypeOK'
      BY <1>12 DEF ViewDone, Phases
<1>13. ASSUME NEW k \in Keys, Disable(k) PROVE TypeOK'
      BY <1>13, RowsAreRows DEF Disable
<1>14. ASSUME NEW ks \in OneOrAll, ResetKeys(ks) PROVE TypeOK'
      BY <1>14, RowsAreRows DEF ResetKeys
<1>15. ASSUME NEW ks \in OneOrAll, ResetStats(ks) PROVE TypeOK'
      BY <1>15 DEF ResetStats, ZeroStat, Stat
<1>16. CASE Tick
      <2> HIDE DEF Row
      <2>1. row' \in [Keys -> Row] BY <1>16, AgedIsRow DEF Tick
      <2>2. \A a \in Actors : [k \in Keys |-> Aged(snap[a][k])] \in [Keys -> Row]
            BY AgedIsRow
      <2>3. snap' \in [Actors -> [Keys -> Row]] BY <1>16, <2>2 DEF Tick
      <2>4. stamp' \in [Requests -> Nat \cup {NoDeadline}]
            BY <1>16 DEF Tick, Sooner
      <2>5. \A r \in Requests : stamp'[r] # NoDeadline <=> stamp[r] # NoDeadline
            BY <1>16 DEF Tick, Sooner
      <2>6. QED BY <1>16, <2>1, <2>3, <2>4, <2>5 DEF Tick
<1>17. ASSUME NEW r \in Requests, StoreFails(r) PROVE TypeOK'
      BY <1>17, RowsAreRows DEF StoreFails, Phases
<1>18. ASSUME NEW a \in Actors, NEW k \in Keys, ViewRecoverFails(a, k) PROVE TypeOK'
      BY <1>18 DEF ViewRecoverFails
<1>19. CASE UNCHANGED vars BY <1>19 DEF vars
<1>20. QED BY <1>1, <1>2, <1>3, <1>4, <1>5, <1>6, <1>7, <1>8, <1>9, <1>10, <1>11,
              <1>12, <1>13, <1>14, <1>15, <1>16, <1>17, <1>18, <1>19
           DEF Next, RequestStep, ViewStep, FaultStep, OperatorStep

\* Type correctness of the rows, the counters and each request's own variables.
THEOREM TypeCorrect == Spec => []TypeOK
<1>1. QED BY TypeInit, TypeNext, PTL DEF Spec

(***************************************************************************)
(* Deadlines: only the steps that write a row matter.                      *)
(***************************************************************************)
\* A step that writes no row is none of the following.
RowWriter ==
    \/ \E r \in Requests : CheckToken(r) \/ RecordFailure(r)
    \/ \E a \in Actors, k \in Keys : ViewRecover(a, k)
    \/ \E k \in Keys : Disable(k)
    \/ \E ks \in OneOrAll : ResetKeys(ks)
    \/ Tick

LEMMA OnlyWritersWrite == [Next]_vars => RowWriter \/ UNCHANGED row
BY DEF Next, RequestStep, ViewStep, FaultStep, OperatorStep, RowWriter, vars, rowVars,
       BeginSelect, PickToken, Exhausted, AnswerSuccess, AnswerUnrecorded,
       AnswerFailure, StoreFails, ViewRead, ViewDecide, ViewRecoverFails, ViewDone,
       ResetStats

DeadlineOf(rw) == rw.status = "timeout" <=> rw.left # NoDeadline

LEMMA NewRowsHaveDeadlines ==
    /\ DeadlineOf(ActiveRow)
    /\ DeadlineOf(InvalidRow)
    /\ DeadlineOf(DisabledRow)
    /\ \A d \in Nat : DeadlineOf(TimeoutRow(d))
BY DEF DeadlineOf, ActiveRow, InvalidRow, DisabledRow, TimeoutRow

LEMMA AgedKeepsDeadline ==
    ASSUME NEW rw \in Row, DeadlineOf(rw) PROVE DeadlineOf(Aged(rw))
BY DEF DeadlineOf, Aged, Sooner

LEMMA SidelinedKeepsDeadline ==
    ASSUME NEW rw \in Row, DeadlineOf(rw), NEW c, NEW d \in Nat
    PROVE  DeadlineOf(Sidelined(rw, c, d))
<1>1. CASE ~KeyHealth BY <1>1 DEF Sidelined
<1>2. CASE KeyHealth /\ c \in INVALID_CODES
      BY <1>2, NewRowsHaveDeadlines DEF Sidelined, INVALID_CODES, TIMEOUT_CODE
<1>3. CASE KeyHealth /\ c \in TIMEOUT_CODE
      BY <1>3, NewRowsHaveDeadlines DEF Sidelined, INVALID_CODES, TIMEOUT_CODE
<1>4. CASE KeyHealth /\ c \notin INVALID_CODES /\ c \notin TIMEOUT_CODE
      BY <1>4 DEF Sidelined
<1>5. QED BY <1>1, <1>2, <1>3, <1>4

LEMMA DeadlineNext == TypeOK /\ DeadlineIffTimeout /\ [Next]_vars => DeadlineIffTimeout'
<1> SUFFICES ASSUME TypeOK, DeadlineIffTimeout, [Next]_vars,
                    NEW k \in Keys
             PROVE  DeadlineOf(row'[k])
    BY DEF DeadlineIffTimeout, DeadlineOf
<1> USE DEF TypeOK
<1>0. DeadlineOf(row[k]) BY DEF DeadlineIffTimeout, DeadlineOf
<1>1. ASSUME NEW r \in Requests, CheckToken(r) PROVE DeadlineOf(row'[k])
      BY <1>0, <1>1, NewRowsHaveDeadlines DEF CheckToken, Recover
<1>2. ASSUME NEW r \in Requests, RecordFailure(r) PROVE DeadlineOf(row'[k])
      <2>1. stamp[r] \in Nat /\ picked[r] \in Keys BY <1>2 DEF RecordFailure
      <2>2. DeadlineOf(Sidelined(row[k], code[r], stamp[r]))
            BY <1>0, <2>1, SidelinedKeepsDeadline
      <2>3. row'[k] = row[k] \/ row'[k] = Sidelined(row[k], code[r], stamp[r])
            BY <1>2, <2>1 DEF RecordFailure
      <2>4. QED BY <1>0, <2>2, <2>3
<1>3. ASSUME NEW a \in Actors, NEW j \in Keys, ViewRecover(a, j) PROVE DeadlineOf(row'[k])
      BY <1>0, <1>3, NewRowsHaveDeadlines DEF ViewRecover, Recover
<1>4. ASSUME NEW j \in Keys, Disable(j) PROVE DeadlineOf(row'[k])
      BY <1>0, <1>4, NewRowsHaveDeadlines DEF Disable
<1>5. ASSUME NEW ks \in OneOrAll, ResetKeys(ks) PROVE DeadlineOf(row'[k])
      BY <1>0, <1>5, NewRowsHaveDeadlines DEF ResetKeys
<1>6. CASE Tick BY <1>0, <1>6, AgedKeepsDeadline DEF Tick
<1>7. CASE UNCHANGED row BY <1>0, <1>7
<1>8. QED BY <1>1, <1>2, <1>3, <1>4, <1>5, <1>6, <1>7, OnlyWritersWrite DEF RowWriter

\* However failures, recoveries, resets and disables interleave, a row has a
\* deadline exactly while its status is timeout.
THEOREM DeadlineIffTimeoutHolds == Spec => []DeadlineIffTimeout
<1>1. Init => DeadlineIffTimeout
      BY DEF Init, DeadlineIffTimeout, ActiveRow
<1>2. QED BY <1>1, DeadlineNext, TypeCorrect, PTL DEF Spec

(***************************************************************************)
(* Counters.                                                               *)
(***************************************************************************)
Balanced(st) == st.failed = CodesSum(st.codes) /\ st.failed <= st.total

LEMMA CountedIsBalanced ==
    ASSUME NEW st \in Stat, Balanced(st), NEW c \in ACTIONABLE_CODES
    PROVE  Balanced(Counted(st, c))
BY DEF Balanced, Counted, CodesSum, Stat, ACTIONABLE_CODES

LEMMA OneMoreIsBalanced ==
    ASSUME NEW st \in Stat, Balanced(st) PROVE Balanced([st EXCEPT !.total = @ + 1])
<1>1. /\ [st EXCEPT !.total = @ + 1].failed = st.failed
      /\ [st EXCEPT !.total = @ + 1].codes = st.codes
      /\ [st EXCEPT !.total = @ + 1].total = st.total + 1
      BY DEF Stat
<1>2. st.failed \in Nat /\ st.total \in Nat BY DEF Stat
<1>3. QED BY <1>1, <1>2 DEF Balanced

LEMMA ZeroIsBalanced == Balanced(ZeroStat)
BY DEF Balanced, ZeroStat, CodesSum, ACTIONABLE_CODES

StatsWriter ==
    \/ \E r \in Requests : AnswerSuccess(r) \/ RecordFailure(r)
    \/ \E ks \in OneOrAll : ResetStats(ks)

LEMMA OnlyCountersCount == [Next]_vars => StatsWriter \/ UNCHANGED stats
BY DEF Next, RequestStep, ViewStep, FaultStep, OperatorStep, StatsWriter, vars, rowVars,
       BeginSelect, CheckToken, PickToken, Exhausted, AnswerUnrecorded, AnswerFailure,
       StoreFails, ViewRead, ViewDecide, ViewRecover, ViewRecoverFails, ViewDone,
       Disable, ResetKeys, Tick

LEMMA StatsNext == TypeOK /\ StatsConserved /\ [Next]_vars => StatsConserved'
<1> SUFFICES ASSUME TypeOK, StatsConserved, [Next]_vars, NEW k \in Keys
             PROVE  Balanced(stats'[k])
    BY DEF StatsConserved, Balanced
<1> USE DEF TypeOK
<1>0. Balanced(stats[k]) BY DEF StatsConserved, Balanced
<1>1. ASSUME NEW r \in Requests, AnswerSuccess(r) PROVE Balanced(stats'[k])
      BY <1>0, <1>1, OneMoreIsBalanced DEF AnswerSuccess
<1>2. ASSUME NEW r \in Requests, RecordFailure(r) PROVE Balanced(stats'[k])
      <2>1. code[r] \in ACTIONABLE_CODES /\ picked[r] \in Keys BY <1>2 DEF RecordFailure
      <2>2. Balanced(Counted(stats[k], code[r])) BY <1>0, <2>1, CountedIsBalanced
      <2>3. stats'[k] = stats[k] \/ stats'[k] = Counted(stats[k], code[r])
            BY <1>2, <2>1 DEF RecordFailure
      <2>4. QED BY <1>0, <2>2, <2>3
<1>3. ASSUME NEW ks \in OneOrAll, ResetStats(ks) PROVE Balanced(stats'[k])
      BY <1>0, <1>3, ZeroIsBalanced DEF ResetStats
<1>4. CASE UNCHANGED stats BY <1>0, <1>4
<1>5. QED BY <1>1, <1>2, <1>3, <1>4, OnlyCountersCount DEF StatsWriter

\* The counters of every key agree with each other at every moment.
THEOREM StatsConservedHolds == Spec => []StatsConserved
<1>1. Init => StatsConserved
      BY ZeroIsBalanced DEF Init, StatsConserved, Balanced
<1>2. QED BY <1>1, StatsNext, TypeCorrect, PTL DEF Spec

(***************************************************************************)
(* One request, one use of a key.                                          *)
(***************************************************************************)
\* The keys a request has tried, and that it has an attempt left while it is
\* still looking for one or using one.
AttemptsLeft ==
    \A r \in Requests :
        /\ picked[r] \notin tried[r]
        /\ usable[r] \cap tried[r] = {}
        /\ phase[r] # "checking" => usable[r] = {}
        /\ Cardinality(tried[r]) <= MaxKeyAttempts
        /\ phase[r] \in {"idle", "checking", "calling", "failed"}
              => Cardinality(tried[r]) < MaxKeyAttempts

LEMMA TriedIsFinite ==
    ASSUME TypeOK, NEW r \in Requests
    PROVE  IsFiniteSet(tried[r]) /\ Cardinality(tried[r]) \in Nat
<1>1. IsFiniteSet(1..N) BY NAssumption, FS_Interval
<1>2. tried[r] \subseteq 1..N BY DEF TypeOK
<1>3. QED BY <1>1, <1>2, FS_Subset, FS_CardinalityType

LEMMA AttemptsNext == TypeOK /\ AttemptsLeft /\ [Next]_vars => AttemptsLeft'
<1> SUFFICES ASSUME TypeOK, AttemptsLeft, [Next]_vars PROVE AttemptsLeft'
    OBVIOUS
<1> USE DEF TypeOK, AttemptsLeft, rowVars, viewVars, pickVars, failVars
<1>1. ASSUME NEW r \in Requests, BeginSelect(r) PROVE AttemptsLeft'
      BY <1>1 DEF BeginSelect
<1>2. ASSUME NEW r \in Requests, CheckToken(r) PROVE AttemptsLeft'
      BY <1>2 DEF CheckToken, Considered
<1>3. ASSUME NEW r \in Requests, PickToken(r) PROVE AttemptsLeft'
      <2>1. PICK k \in usable[r] : picked' = [picked EXCEPT ![r] = k]
            BY <1>3 DEF PickToken
      <2>2. k \notin tried[r] BY <2>1
      <2>3. QED BY <1>3, <2>1, <2>2 DEF PickToken
<1>4. ASSUME NEW r \in Requests, Exhausted(r) PROVE AttemptsLeft'
      BY <1>4 DEF Exhausted
<1>5. ASSUME NEW r \in Requests, AnswerSuccess(r) PROVE AttemptsLeft'
      BY <1>5 DEF AnswerSuccess
<1>6. ASSUME NEW r \in Requests, AnswerUnrecorded(r) PROVE AttemptsLeft'
      BY <1>6 DEF AnswerUnrecorded
<1>7. ASSUME NEW r \in Requests, NEW c \in Answers, AnswerFailure(r, c) PROVE AttemptsLeft'
      BY <1>7 DEF AnswerFailure
<1>8. ASSUME NEW r \in Requests, RecordFailure(r) PROVE AttemptsLeft'
      <2>1. /\ phase[r] = "failed"
            /\ tried' = [tried EXCEPT ![r] = @ \cup {picked[r]}]
            /\ picked' = [picked EXCEPT ![r] = NoKey]
            /\ phase' = [phase EXCEPT ![r] = IF MayHop(r) THEN "idle" ELSE "done"]
            /\ usable' = usable
            BY <1>8 DEF RecordFailure
      <2>2. usable[r] = {} BY <2>1
      <2>3. Cardinality(tried[r] \cup {picked[r]}) = Cardinality(tried[r]) + 1
            BY <2>1, TriedIsFinite, FS_AddElement
      <2>4. Cardinality(tried[r]) + 1 <= MaxKeyAttempts
            BY AttemptsAssumption, <2>1, TriedIsFinite
      <2>5. NoKey \notin tried[r] \cup {picked[r]} BY <2>1
      <2>6. MayHop(r) => Cardinality(tried[r]) + 1 < MaxKeyAttempts BY DEF MayHop
      <2>7. QED BY <2>1, <2>2, <2>3, <2>4, <2>5, <2>6
<1>9. ASSUME NEW a \in Actors, ViewRead(a) PROVE AttemptsLeft'
      BY <1>9 DEF ViewRead
<1>10. ASSUME NEW a \in Actors, ViewDecide(a) PROVE AttemptsLeft'
      BY <1>10 DEF ViewDecide
<1>11. ASSUME NEW a \in Actors, NEW k \in Keys, ViewRecover(a, k) PROVE AttemptsLeft'
      BY <1>11 DEF ViewRecover
<1>12. ASSUME NEW a \in Actors, ViewDone(a) PROVE AttemptsLeft'
      BY ActorsAssumption, <1>12 DEF ViewDone
<1>13. ASSUME NEW k \in Keys, Disable(k) PROVE AttemptsLeft'
      BY <1>13 DEF Disable
<1>14. ASSUME NEW ks \in OneOrAll, ResetKeys(ks) PROVE AttemptsLeft'
      BY <1>14 DEF ResetKeys
<1>15. ASSUME NEW ks \in OneOrAll, ResetStats(ks) PROVE AttemptsLeft'
      BY <1>15 DEF ResetStats
<1>16. CASE Tick BY <1>16 DEF Tick
<1>17. ASSUME NEW r \in Requests, StoreFails(r) PROVE AttemptsLeft'
      BY <1>17 DEF StoreFails
<1>18. ASSUME NEW a \in Actors, NEW k \in Keys, ViewRecoverFails(a, k) PROVE AttemptsLeft'
      BY <1>18 DEF ViewRecoverFails
<1>19. CASE UNCHANGED vars BY <1>19 DEF vars
<1>20. QED BY <1>1, <1>2, <1>3, <1>4, <1>5, <1>6, <1>7, <1>8, <1>9, <1>10, <1>11,
              <1>12, <1>13, <1>14, <1>15, <1>16, <1>17, <1>18, <1>19
           DEF Next, RequestStep, ViewStep, FaultStep, OperatorStep

\* A request never uses one key twice, nor more keys than it has attempts.
THEOREM NoKeyTwiceHolds == Spec => []NoKeyTwice
<1>1. Init => AttemptsLeft
      BY AttemptsAssumption, FS_EmptySet DEF Init, AttemptsLeft
<1>2. AttemptsLeft => NoKeyTwice
      BY DEF AttemptsLeft, NoKeyTwice
<1>3. QED BY <1>1, <1>2, AttemptsNext, TypeCorrect, PTL DEF Spec

(***************************************************************************)
(* A benched key stays benched.                                            *)
(***************************************************************************)
Stands(k) == Secured(k)' \/ IsExpired(row[k])' \/ OperatorActsOn(k)

\* What a secured key's row and the rows read of it say.
LEMMA SecuredRow ==
    ASSUME TypeOK, DeadlineIffTimeout, NEW k \in Keys, Secured(k)
    PROVE  /\ ~IsUsable(row[k])
           /\ row[k].status \in {"invalid", "disabled"} \/ row[k].left > 0
           /\ Agrees(row[k], row[k])
BY NAssumption DEF TypeOK, DeadlineIffTimeout, Secured, IsUsable, IsExpired, Agrees

LEMMA AgreesUnusable ==
    ASSUME TypeOK, DeadlineIffTimeout, NEW k \in Keys, Secured(k),
           NEW s \in Row, Agrees(s, row[k])
    PROVE  ~IsUsable(s)
BY NAssumption, SecuredRow DEF TypeOK, DeadlineIffTimeout, Agrees, IsUsable, IsExpired, Secured

\* A step that leaves the key's row and everyone's hold on it as they are.
LEMMA SecuredUntouched ==
    ASSUME TypeOK, NEW k \in Keys, Secured(k), row'[k] = row[k],
           \A r \in Requests : picked'[r] # k /\ k \notin usable'[r],
           \A a \in Actors :
              /\ k \notin pend'[a]
              /\ phase'[a] \in {"checking", "viewing"}
                    => \/ phase[a] \in {"checking", "viewing"} /\ snap'[a][k] = snap[a][k]
                       \/ Agrees(snap'[a][k], row[k])
    PROVE  Secured(k)'
BY DEF Secured, IsExpired, Agrees

LEMMA BenchNext ==
    ASSUME TypeOK, DeadlineIffTimeout, [Next]_vars, NEW k \in Keys, Secured(k)
    PROVE  Stands(k)
<1> USE DEF TypeOK, rowVars, viewVars, pickVars, failVars
<1>0. /\ \A r \in Requests : picked[r] # k /\ k \notin usable[r]
      /\ \A a \in Actors : /\ k \notin pend[a]
                           /\ phase[a] \in {"checking", "viewing"}
                                 => Agrees(snap[a][k], row[k]) /\ ~IsUsable(snap[a][k])
      <2>1. ASSUME NEW a \in Actors, phase[a] \in {"checking", "viewing"}
            PROVE  Agrees(snap[a][k], row[k]) /\ ~IsUsable(snap[a][k])
            <3>1. Agrees(snap[a][k], row[k]) BY <2>1 DEF Secured
            <3>2. QED BY NAssumption, <3>1, AgreesUnusable
      <2>2. QED BY <2>1 DEF Secured
<1>1. ASSUME NEW r \in Requests, BeginSelect(r) PROVE Stands(k)
      <2>1. Agrees(row[k], row[k]) BY SecuredRow
      <2>2. QED BY <1>0, <1>1, <2>1, SecuredUntouched DEF BeginSelect, Stands
<1>2. ASSUME NEW r \in Requests, CheckToken(r) PROVE Stands(k)
      <2>1. phase[r] = "checking" BY <1>2 DEF CheckToken
      <2>2. ~IsUsable(snap[r][k]) BY <1>0, <2>1
      <2>3. k \notin usable'[r] /\ \A q \in Requests \ {r} : usable'[q] = usable[q]
            BY <1>0, <1>2, <2>2 DEF CheckToken
      <2>4. row'[k] = row[k]
            BY <1>2, <2>2 DEF CheckToken, Recover, IsUsable
      <2>5. UNCHANGED <<phase, snap, pend, picked>> BY <1>2 DEF CheckToken
      <2>6. QED BY <1>0, <2>3, <2>4, <2>5, SecuredUntouched DEF Stands
<1>3. ASSUME NEW r \in Requests, PickToken(r) PROVE Stands(k)
      <2>1. PICK j \in usable[r] : picked' = [picked EXCEPT ![r] = j]
            BY <1>3 DEF PickToken
      <2>2. j # k BY <1>0
      <2>3. QED BY <1>0, <1>3, <2>1, <2>2, SecuredUntouched DEF PickToken, Stands
<1>4. ASSUME NEW r \in Requests, Exhausted(r) PROVE Stands(k)
      BY <1>0, <1>4, SecuredUntouched DEF Exhausted, Stands
<1>5. ASSUME NEW r \in Requests, AnswerSuccess(r) PROVE Stands(k)
      <2>1. /\ UNCHANGED <<row, viewVars, usable>>
            /\ phase' = [phase EXCEPT ![r] = "done"]
            /\ \A q \in Requests : picked'[q] # k
            BY <1>0, <1>5 DEF AnswerSuccess
      <2>2. QED BY <1>0, <2>1, SecuredUntouched DEF Stands
<1>6. ASSUME NEW r \in Requests, AnswerUnrecorded(r) PROVE Stands(k)
      <2>1. /\ UNCHANGED <<row, viewVars, usable>>
            /\ phase' = [phase EXCEPT ![r] = "done"]
            /\ \A q \in Requests : picked'[q] # k
            BY <1>0, <1>6 DEF AnswerUnrecorded
      <2>2. QED BY <1>0, <2>1, SecuredUntouched DEF Stands
<1>7. ASSUME NEW r \in Requests, NEW c \in Answers, AnswerFailure(r, c) PROVE Stands(k)
      BY <1>0, <1>7, SecuredUntouched DEF AnswerFailure, Stands
<1>8. ASSUME NEW r \in Requests, RecordFailure(r) PROVE Stands(k)
      <2>1. row'[k] = row[k] BY <1>0, <1>8 DEF RecordFailure
      <2>2. /\ UNCHANGED <<viewVars, usable>>
            /\ phase'[r] \in {"idle", "done"}
            /\ \A a \in Actors \ {r} : phase'[a] = phase[a]
            /\ \A q \in Requests : picked'[q] # k
            BY <1>0, <1>8 DEF RecordFailure
      <2>3. QED BY <1>0, <2>1, <2>2, SecuredUntouched DEF Stands
<1>9. ASSUME NEW a \in Actors, ViewRead(a) PROVE Stands(k)
      <2>1. Agrees(row[k], row[k]) BY SecuredRow
      <2>2. QED BY <1>0, <1>9, <2>1, SecuredUntouched DEF ViewRead, Stands
<1>10. ASSUME NEW a \in Actors, ViewDecide(a) PROVE Stands(k)
      <2>1. ~IsExpired(snap[a][k]) BY <1>0, <1>10 DEF ViewDecide, IsUsable
      <2>2. QED BY <1>0, <1>10, <2>1, SecuredUntouched DEF ViewDecide, Stands
<1>11. ASSUME NEW a \in Actors, NEW j \in Keys, ViewRecover(a, j) PROVE Stands(k)
      <2>1. j # k BY <1>0, <1>11 DEF ViewRecover
      <2>2. QED BY <1>0, <1>11, <2>1, SecuredUntouched DEF ViewRecover, Recover, Stands
<1>12. ASSUME NEW a \in Actors, ViewDone(a) PROVE Stands(k)
      BY <1>0, <1>12, SecuredUntouched DEF ViewDone, Stands
<1>13. ASSUME NEW j \in Keys, Disable(j) PROVE Stands(k)
      <2>1. CASE j = k BY <1>13, <2>1 DEF Stands, OperatorActsOn
      <2>2. CASE j # k BY <1>0, <1>13, <2>2, SecuredUntouched DEF Disable, Stands
      <2>3. QED BY <2>1, <2>2
<1>14. ASSUME NEW ks \in OneOrAll, ResetKeys(ks) PROVE Stands(k)
      <2>1. CASE k \in ks BY <1>14, <2>1 DEF Stands, OperatorActsOn
      <2>2. CASE k \notin ks
            BY <1>0, <1>14, <2>2, SecuredUntouched DEF ResetKeys, Stands
      <2>3. QED BY <2>1, <2>2
<1>15. ASSUME NEW ks \in OneOrAll, ResetStats(ks) PROVE Stands(k)
      BY <1>0, <1>15, SecuredUntouched DEF ResetStats, Stands
<1>16. CASE Tick
      <2>1. /\ row'[k] = Aged(row[k])
            /\ \A a \in Actors : snap'[a][k] = Aged(snap[a][k])
            /\ UNCHANGED <<phase, pend, usable, picked>>
            BY <1>16 DEF Tick
      <2>2. Aged(row[k]).status = row[k].status
            BY DEF Aged
      <2>3. CASE row[k].left = 1
            <3>1. row[k].status = "timeout" BY <2>3 DEF DeadlineIffTimeout
            <3>2. IsExpired(row[k])' BY <2>1, <2>3, <3>1 DEF Aged, Sooner, IsExpired
            <3>3. QED BY <3>2 DEF Stands
      <2>4. CASE row[k].left # 1
            <3>1. ~IsExpired(row'[k]) /\ row'[k].status # "active"
                  BY <2>1, <2>4 DEF Aged, Sooner, IsExpired, Secured
            <3>2. ASSUME NEW s \in Row, Agrees(s, row[k])
                  PROVE  Agrees(Aged(s), row'[k])
                  BY <2>1, <3>2, SecuredRow DEF Agrees, Aged, Sooner, DeadlineIffTimeout
            <3>3. ASSUME NEW a \in Actors, phase[a] \in {"checking", "viewing"}
                  PROVE  Agrees(snap'[a][k], row'[k])
                  <4>1. snap[a][k] \in Row /\ Agrees(snap[a][k], row[k])
                        BY NAssumption, <1>0, <3>3
                  <4>2. Agrees(Aged(snap[a][k]), row'[k]) BY <3>2, <4>1
                  <4>3. QED BY <2>1, <4>2
            <3>4. Secured(k)' BY <1>0, <2>1, <3>1, <3>3 DEF Secured, IsExpired, Agrees
            <3>5. QED BY <3>4 DEF Stands
      <2>5. QED BY <2>3, <2>4
<1>17. ASSUME NEW r \in Requests, StoreFails(r) PROVE Stands(k)
      <2>1. /\ UNCHANGED <<row, pend>>
            /\ phase' = [phase EXCEPT ![r] = "done"]
            /\ \A a \in Actors \ {r} : snap'[a] = snap[a]
            /\ \A q \in Requests : picked'[q] # k /\ k \notin usable'[q]
            BY <1>0, <1>17 DEF StoreFails
      <2>2. QED BY <1>0, <2>1, SecuredUntouched DEF Stands
<1>18. ASSUME NEW a \in Actors, NEW j \in Keys, ViewRecoverFails(a, j) PROVE Stands(k)
      BY <1>0, <1>18, SecuredUntouched DEF ViewRecoverFails, Stands
<1>19. CASE UNCHANGED vars
      BY <1>0, <1>19, SecuredUntouched DEF vars, Stands
<1>20. QED BY <1>1, <1>2, <1>3, <1>4, <1>5, <1>6, <1>7, <1>8, <1>9, <1>10, <1>11,
              <1>12, <1>13, <1>14, <1>15, <1>16, <1>17, <1>18, <1>19
           DEF Next, RequestStep, ViewStep, FaultStep, OperatorStep

\* A benched key that nobody still holds an earlier reading of is neither
\* called nor reactivated before its deadline, except by the operator.
THEOREM BenchStandsHolds == Spec => BenchStands
<1>1. TypeOK /\ DeadlineIffTimeout /\ [Next]_vars
         => [\A k \in Keys : Secured(k) =>
                Secured(k)' \/ IsExpired(row[k])' \/ OperatorActsOn(k)]_vars
      BY BenchNext DEF Stands
<1>2. QED BY <1>1, TypeCorrect, DeadlineIffTimeoutHolds, PTL DEF Spec, BenchStands

\* Rows and readers fit together for any number of keys and requests.
THEOREM RowsAndReadersFitHolds == Spec => []RowsAndReadersFit
<1>1. TypeOK /\ DeadlineIffTimeout /\ NoKeyTwice => RowsAndReadersFit
      BY DEF RowsAndReadersFit
<1>2. QED BY <1>1, TypeCorrect, DeadlineIffTimeoutHolds, NoKeyTwiceHolds, PTL
=============================================================================
