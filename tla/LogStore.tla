------------------------------ MODULE LogStore ------------------------------
(***************************************************************************)
(* services/logManager.ts: request rows, the daily rollups summed from     *)
(* them and the cached admin statistics, on SQLite and on PostgreSQL.      *)
(* SQLite's calls are synchronous; PostgreSQL's interleave, and            *)
(* manageModelUsage() takes two transactions there.  A row is its model    *)
(* and its time; of a rollup, `requests`.                                  *)
(***************************************************************************)
EXTENDS Integers, FiniteSets, FiniteSetsExt, Functions

CONSTANTS
    Models,
    DayLength,  \* the times of a day
    MaxTime,    \* bound: the last time
    MaxRows     \* bound: the requests rolled up

VARIABLES
    kind,      \* sqlite or postgres
    now,
    rows,      \* projected request_end rows, per model and time
    legacy,    \* request_end rows of an older version, not projected yet
    rollups,   \* request_daily_rollups, per model and day
    cache,     \* adminStatsCache: empty, pending, or a value
    reads,     \* the snapshots of SELECTs under way for getAdminStats()
    manage,    \* manageModelUsage() between its two transactions
    up,        \* initialize() has run
    owed,      \* history: the days a deletion or a failed rebuild has left rolled up wrongly
    overtaken  \* history: a snapshot under way was taken before an invalidation

tableVars == <<rows, legacy, rollups>>
cacheVars == <<cache, reads, overtaken>>
vars == <<kind, now, tableVars, cacheVars, manage, up, owed>>

Times == 0..MaxTime
Days == 0..(MaxTime \div DayLength)
Day(t) == t \div DayLength
Zero == [m \in Models |-> [t \in Times |-> 0]]
NoDays == [m \in Models |-> [d \in Days |-> 0]]
Count(f) == SumFunction([m \in Models |-> SumFunction(f[m])])
OfDay(f, m, d) == SumFunctionOnSet(f[m], {t \in Times : Day(t) = d})

\* The statistics group the rows by model (and endpoint), not by time.
StatsOf(f) == [m \in Models |-> SumFunction(f[m])]
Stats == StatsOf(rows)
NoStats == [m \in Models |-> 0]
Empty == [at |-> "empty", value |-> NoStats]
Done == [action |-> "none", source |-> "none", target |-> "none"]

Init ==
    /\ kind \in {"sqlite", "postgres"} /\ now = 0
    /\ rows = Zero /\ rollups = NoDays
    /\ legacy \in {Zero, [Zero EXCEPT ![CHOOSE m \in Models : TRUE][0] = 1]}
    /\ cache = Empty /\ reads = {} /\ overtaken = FALSE
    /\ manage = Done /\ up = FALSE /\ owed = {}

Tick == now < MaxTime /\ now' = now + 1
        /\ UNCHANGED <<kind, tableVars, cacheVars, manage, up, owed>>

\* invalidateAdminStatsCache(): a SELECT under way is not called off.
Invalidate == cache' = Empty /\ overtaken' = (reads # {}) /\ UNCHANGED reads

(***************************************************************************)
(* Writers.                                                                *)
(***************************************************************************)
\* Seeded fault: the writer leaves the cached statistics alone.
WriteEndSilent(m) ==
    /\ Count(rollups) < MaxRows
    /\ rows' = [rows EXCEPT ![m][now] = @ + 1]
    /\ rollups' = [rollups EXCEPT ![m][Day(now)] = @ + 1]
    /\ UNCHANGED <<kind, now, legacy, manage, up, owed, cacheVars>>

\* The row and its share of the day's rollup, in one transaction.
WriteEnd(m) ==
    /\ Count(rollups) < MaxRows
    /\ rows' = [rows EXCEPT ![m][now] = @ + 1]
    /\ rollups' = [rollups EXCEPT ![m][Day(now)] = @ + 1]
    /\ Invalidate
    /\ UNCHANGED <<kind, now, legacy, manage, up, owed>>

(***************************************************************************)
(* Rollups.  A rebuild replaces those of the days from the first retained  *)
(* row on; rollups of earlier days have outlived their rows.               *)
(***************************************************************************)
Retained(r) == {t \in Times : \E m \in Models : r[m][t] > 0}
StartDay(r) == Day(Min(Retained(r)))

\* Seeded fault: a rebuild starts from nothing.
RebuiltAll(r, old) == [m \in Models |-> [d \in Days |-> OfDay(r, m, d)]]

Rebuilt(r, old) ==
    IF Retained(r) = {} THEN old
    ELSE [m \in Models |-> [d \in Days |-> IF d < StartDay(r) THEN old[m][d] ELSE OfDay(r, m, d)]]

\* What a rebuild over the rows r does not reach: with none left it does nothing.
Owing(r) == IF Retained(r) = {} THEN owed \cup {d \in Days : \E m \in Models : rollups[m][d] > 0}
            ELSE {}

Projected(r) == Count(r)
RolledUp(r, old) ==
    IF Retained(r) = {} THEN 0
    ELSE SumFunction([m \in Models |-> SumFunctionOnSet(old[m], {d \in Days : d >= StartDay(r)})])

\* A process starts: initialize() backfills the projections of old rows, and
\* rebuilds when it did, or when the numbers of requests differ.
Start ==
    /\ LET all == [m \in Models |-> [t \in Times |-> rows[m][t] + legacy[m][t]]]
       IN  /\ rows' = all
           /\ IF legacy # Zero \/ Projected(all) # RolledUp(all, rollups)
              THEN rollups' = Rebuilt(all, rollups) /\ owed' = Owing(all)
              ELSE UNCHANGED rollups /\ owed' = owed \cup (IF manage = Done THEN {} ELSE Owing(all))
    /\ legacy' = Zero /\ up' = TRUE
    /\ cache' = Empty /\ reads' = {} /\ overtaken' = FALSE /\ manage' = Done
    /\ UNCHANGED <<kind, now>>

Cutoff(t) == (t \div DayLength) * DayLength

\* pruneOldRequests(): details go, rollups stay.
Kept(f, from) == [m \in Models |-> [t \in Times |-> IF t < from THEN 0 ELSE f[m][t]]]
Prune ==
    /\ \E age \in 0..now : rows' = Kept(rows, Cutoff(now - age))
    /\ Invalidate
    /\ UNCHANGED <<kind, now, legacy, rollups, manage, up, owed>>

(***************************************************************************)
(* renameModel() and manageModelUsage(), which moves the rows of a model   *)
(* to another ("rename", "conjoin") or deletes them.                       *)
(***************************************************************************)
Moved(f, from, to) ==
    [m \in Models |-> [t \in Times |-> CASE m = to -> f[to][t] + f[from][t]
                                         [] m = from -> 0
                                         [] OTHER -> f[m][t]]]
Without(f, m) == [f EXCEPT ![m] = [t \in Times |-> 0]]
After(f, action, source, target) ==
    IF action = "delete" THEN Without(f, source) ELSE Moved(f, source, target)

\* SQLite rebuilds within the transaction; PostgreSQL's rename does not rebuild.
RenameModel(from, to) ==
    /\ from # to
    /\ rows' = Moved(rows, from, to)
    /\ IF kind = "sqlite" THEN rollups' = Rebuilt(rows', rollups) /\ owed' = Owing(rows')
       ELSE UNCHANGED <<rollups, owed>>
    /\ Invalidate
    /\ UNCHANGED <<kind, now, legacy, manage, up>>

\* Seeded fault: SQLite's rows change without a rebuild.
ManageAlone(action, source, target) ==
    /\ manage = Done /\ source # target
    /\ rows' = After(rows, action, source, target)
    /\ \/ kind = "sqlite" /\ UNCHANGED <<rollups, owed>>
          /\ Invalidate /\ UNCHANGED manage
       \/ kind = "postgres" /\ UNCHANGED <<rollups, cacheVars, owed>>
          /\ manage' = [action |-> action, source |-> source, target |-> target]
    /\ UNCHANGED <<kind, now, legacy, up>>

Manage(action, source, target) ==
    /\ manage = Done /\ source # target
    /\ rows' = After(rows, action, source, target)
    /\ \/ kind = "sqlite" /\ rollups' = Rebuilt(rows', rollups) /\ owed' = Owing(rows')
          /\ Invalidate /\ UNCHANGED manage
       \/ kind = "postgres" /\ UNCHANGED <<rollups, cacheVars, owed>>
          /\ manage' = [action |-> action, source |-> source, target |-> target]
    /\ UNCHANGED <<kind, now, legacy, up>>

\* PostgreSQL's second transaction.  It fails on a rollup a writer has added since
\* its DELETE; then the cache stays as it is.
ManageRebuilds ==
    /\ manage # Done /\ manage' = Done
    /\ \/ rollups' = Rebuilt(rows, rollups) /\ owed' = Owing(rows) /\ Invalidate
       \/ owed' = Days /\ UNCHANGED <<rollups, cacheVars>>
    /\ UNCHANGED <<kind, now, rows, legacy, up>>

(***************************************************************************)
(* getAdminStats(): a value until it expires, or the SELECT under way.  On *)
(* SQLite query and answer are one step.                                   *)
(***************************************************************************)
GetStats ==
    /\ cache.at = "empty"
    /\ \/ kind = "sqlite" /\ cache' = [at |-> "value", value |-> Stats] /\ UNCHANGED reads
       \/ kind = "postgres" /\ Cardinality(reads) < 2
          /\ reads' = reads \cup {Stats} /\ cache' = [Empty EXCEPT !.at = "pending"]
    /\ UNCHANGED <<kind, now, tableVars, overtaken, manage, up, owed>>

StatsRead(snapshot) ==
    /\ reads' = reads \ {snapshot}
    /\ cache' \in {[at |-> "value", value |-> snapshot], Empty}
    /\ UNCHANGED <<kind, now, tableVars, overtaken, manage, up, owed>>

\* The value's time is over.
Expire ==
    /\ cache.at = "value" /\ cache' = Empty /\ overtaken' = (reads # {} /\ overtaken)
    /\ UNCHANGED <<kind, now, tableVars, reads, manage, up, owed>>

Next ==
    \/ Start
    \/ up /\ \/ Tick \/ Prune
             \/ \E m \in Models : WriteEnd(m)
             \/ \E from, to \in Models : RenameModel(from, to)
             \/ \E action \in {"move", "delete"}, source, target \in Models :
                   Manage(action, source, target)
             \/ ManageRebuilds
             \/ GetStats \/ \E snapshot \in reads : StatsRead(snapshot)
             \/ Expire

Spec == Init /\ [][Next]_vars

TypeOK ==
    /\ kind \in {"sqlite", "postgres"} /\ now \in Times
    /\ \A f \in {rows, legacy} : f \in [Models -> [Times -> Nat]] /\ {cache.value} \cup reads \subseteq [Models -> Nat]
    /\ rollups \in [Models -> [Days -> Nat]]
    /\ cache.at \in {"empty", "pending", "value"} /\ {up, overtaken} \subseteq BOOLEAN /\ owed \subseteq Days

\* The rollups of the retained days are the sums of their rows: on SQLite model by
\* model, after whatever sequence of writes, renames, deletions and pruning; on
\* PostgreSQL, where a rename leaves the names behind, day by day.
RollupsMatch ==
    up /\ manage = Done /\ Retained(rows) # {} =>
        \A d \in {d \in Days \ owed : d >= StartDay(rows)} :
            /\ kind = "sqlite" => \A m \in Models : rollups[m][d] = OfDay(rows, m, d)
            /\ SumFunction([m \in Models |-> rollups[m][d]])
                  = SumFunction([m \in Models |-> OfDay(rows, m, d)])

\* Retention costs details, not history: what has been summed is lost to a deletion
\* only, and neither to pruning nor to a restart or a rebuild after it.
HistoryStep ==
    Count(rollups') < Count(rollups) =>
        \/ \E m \in Models : rows' = Without(rows, m) /\ rows' # rows
        \/ manage.action = "delete" \/ owed # {}
HistoryKept == [][HistoryStep]_vars

\* The cached statistics are those of the rows as they are, except on PostgreSQL for
\* a SELECT that a write has overtaken, and before a management action has told.
StatsFresh ==
    cache.at = "value" => \/ cache.value = Stats
                          \/ kind = "postgres" /\ (overtaken \/ manage # Done \/ owed # {})

\* services/logManager.ts:743: "Rollups are exact for unbounded history."  A deletion that
\* takes the first retained day's rows leaves its rollups; the dashboards' totals count
\* the deleted requests on, beside whatever is written later that day.
RollupsExact ==
    up /\ kind = "sqlite" /\ Retained(rows) # {} =>
        \A m \in Models : \A d \in {d \in Days : d >= StartDay(rows)} :
            rollups[m][d] = OfDay(rows, m, d)
=============================================================================
