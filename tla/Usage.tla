------------------------------- MODULE Usage -------------------------------
(***************************************************************************)
(* What a request costs and where the numbers are shown: the bill          *)
(* logRequestEnd() writes into the request row (utils/logging.ts,          *)
(* utils/pricing.ts), the daily rollup kept beside the rows                *)
(* (services/logManager.ts), and the reports read from either: dashboard,  *)
(* account page, request history (routes/admin.ts, routes/account.ts,      *)
(* utils/usageReporting.ts).  One model; of the token kinds fresh input    *)
(* and cached input; a cached token costs 1.  SQLite and PostgreSQL        *)
(* compute the same sums.                                                  *)
(***************************************************************************)
EXTENDS Integers, FiniteSets, Functions

CONSTANTS
    MaxRows,    \* bound: request rows
    MaxPrompt,  \* bound: tokens of a prompt
    Rates       \* prices of a fresh token an operator may set

VARIABLES
    rate,      \* the model's price in the registry
    shared,    \* the two client keys wear the same mask
    rows,      \* request_end rows: id -> record
    rollups    \* request_daily_rollups: group -> sums

vars == <<rate, shared, rows, rollups>>

Keys == {"k1", "k2"}
Ranges == {"24h", "total"}
NoKey == "none"     \* a row from before keys had an opaque id
NoCost == -1        \* a row without billing.costs
Mask(k) == IF shared THEN "k1" ELSE k

\* The group a row is summed in: the rollup's primary key, and the GROUP BY of a
\* query on rows.  Without the recorded-cost mask:
GroupUnmasked(row) == [key |-> row.key, mask |-> row.mask, recorded |-> TRUE]

Group(row) == [key |-> row.key, mask |-> row.mask, recorded |-> row.cost # NoCost]

Succeeded(row) == row.status = "success"
SumOf(f(_), R) == SumFunction([i \in R |-> f(rows[i])])
One(row) == 1
Success(row) == IF Succeeded(row) THEN 1 ELSE 0
SuccessInput(row) == IF Succeeded(row) THEN row.input ELSE 0
SuccessCached(row) == IF Succeeded(row) THEN row.cached ELSE 0
SuccessCost(row) == IF Succeeded(row) /\ row.cost # NoCost THEN row.cost ELSE 0

Sums(n, s, i, c, b) == [requests |-> n, successes |-> s, input |-> i, cached |-> c, cost |-> b]
Added(x, row) ==
    Sums(x.requests + 1, x.successes + Success(row), x.input + SuccessInput(row),
         x.cached + SuccessCached(row), x.cost + SuccessCost(row))
SumRows(R) ==
    Sums(SumOf(One, R), SumOf(Success, R), SumOf(SuccessInput, R), SumOf(SuccessCached, R),
         SumOf(SuccessCost, R))

(***************************************************************************)
(* The bill.                                                               *)
(***************************************************************************)
\* normalizeBillingTokens(): fresh input tokens, whatever the format counts as input.
Billed(prompt, cached) == [input |-> prompt - cached, cached |-> cached]

\* calculateModelCost(): the accounting version it compares with the number 2 is undefined
\* when a row is written and the text "2" when one is read, so that input always counts
\* as including the cached tokens.
CostAt(price, input, cached) ==
    (IF input > cached THEN input - cached ELSE 0) * price + cached

Row(k, status, b, cost) ==
    [key |-> k, mask |-> IF k = NoKey THEN "k1" ELSE Mask(k), status |-> status,
     input |-> b.input, cached |-> b.cached, cost |-> cost, recent |-> TRUE]

\* Rows of earlier releases, without billing, input including the cached tokens.
Older(k) == [Row(k, "success", [input |-> 2, cached |-> 1], NoCost) EXCEPT !.recent = FALSE]

NoSums == Sums(0, 0, 0, 0, 0)
At(groups, g) == IF g \in DOMAIN groups THEN groups[g] ELSE NoSums

\* updateDailyRollup(): INSERT ... ON CONFLICT DO UPDATE.
UpdateDailyRollup(groups, row) ==
    [g \in (DOMAIN groups) \cup {Group(row)} |->
        IF g = Group(row) THEN Added(At(groups, g), row) ELSE groups[g]]

Init ==
    /\ rate \in Rates /\ shared \in BOOLEAN
    /\ rows \in {<<>>, <<Older(NoKey)>>, <<Older(NoKey), Older("k1")>>}
    /\ rollups = [g \in {Group(rows[i]) : i \in DOMAIN rows} |->
                     SumRows({i \in DOMAIN rows : Group(rows[i]) = g})]

Write(row) ==
    /\ Cardinality(DOMAIN rows) < MaxRows
    /\ rows' = [i \in 1..Cardinality(DOMAIN rows) + 1 |-> IF i \in DOMAIN rows THEN rows[i] ELSE row]
    /\ rollups' = UpdateDailyRollup(rollups, row)
    /\ UNCHANGED <<rate, shared>>

\* logRequestEnd() and writeRequestLog(), one transaction; a failure is logged without
\* usage.
Succeed(k, prompt, cached) ==
    LET b == Billed(prompt, cached) IN
    cached <= prompt /\ Write(Row(k, "success", b, CostAt(rate, b.input, b.cached)))
Fail(k) == Write(Row(k, "failed", Billed(0, 0), 0))

\* The operator sets another price; the registry is read anew.
Reprice == rate' \in Rates \ {rate} /\ UNCHANGED <<shared, rows, rollups>>

\* What was written falls out of the last 24 hours.
DayPasses ==
    /\ \E i \in DOMAIN rows : rows[i].recent
    /\ rows' = [i \in DOMAIN rows |-> [rows[i] EXCEPT !.recent = FALSE]]
    /\ UNCHANGED <<rate, shared, rollups>>

Next ==
    \/ \E k \in Keys, prompt \in 0..MaxPrompt, cached \in 0..MaxPrompt : Succeed(k, prompt, cached)
    \/ \E k \in Keys : Fail(k)
    \/ Reprice
    \/ DayPasses

Spec == Init /\ [][Next]_vars

(***************************************************************************)
(* The reports.                                                            *)
(***************************************************************************)
\* Seeded fault: logIdentityFor() offers a mask two keys wear.
IdentityAnyMask(k) == {[key |-> k, mask |-> Mask(k)], [key |-> NoKey, mask |-> Mask(k)]}

\* logIdentityFor(): the key's id and, if no other key wears it, its mask.
Identity(k) == {[key |-> k, mask |-> Mask(k)]} \cup
               (IF shared THEN {} ELSE {[key |-> NoKey, mask |-> Mask(k)]})
Matches(g, identity) == [key |-> g.key, mask |-> g.mask] \in identity
Everyone == [key : Keys \cup {NoKey}, mask : Keys]

\* getBulkApiKeyAggregates(): unbounded history from the rollups, a window from the rows.
Aggregates(range, identity) ==
    LET R == {i \in DOMAIN rows : rows[i].recent /\ Matches(Group(rows[i]), identity)} IN
    IF range = "total"
    THEN [g \in {h \in DOMAIN rollups : Matches(h, identity)} |-> rollups[g]]
    ELSE [g \in {Group(rows[i]) : i \in R} |-> SumRows({i \in R : Group(rows[i]) = g})]

\* getCostForGroups(): the recorded cost, or today's price.
CostForGroup(g, sums) == IF g.recorded THEN sums.cost ELSE CostAt(rate, sums.input, sums.cached)

\* aggregateUsageGroups()
AggregateUsage(groups) ==
    [requests |-> SumFunction([g \in DOMAIN groups |-> groups[g].requests]),
     successes |-> SumFunction([g \in DOMAIN groups |-> groups[g].successes]),
     cost |-> SumFunction([g \in DOMAIN groups |-> CostForGroup(g, groups[g])])]

AccountSummary(k, range) == AggregateUsage(Aggregates(range, Identity(k)))
DashboardSummary(range) == AggregateUsage(Aggregates(range, Everyone))

\* buildDashboardRanges(): a group without a key goes to the one key that wears its mask.
DashboardKey(k, range) ==
    LET all == Aggregates(range, Everyone)
        Owner(g) == IF g.key # NoKey THEN g.key
                    ELSE IF Cardinality({j \in Keys : Mask(j) = g.mask}) = 1
                         THEN CHOOSE j \in Keys : Mask(j) = g.mask ELSE NoKey
        own == {g \in DOMAIN all : Owner(g) = k}
    IN  AggregateUsage([g \in own |-> all[g]])

\* withEstimatedCost(): what the history shows for one row.
EstimatedCost(row) == IF row.cost # NoCost THEN row.cost ELSE CostAt(rate, row.input, row.cached)

\* computeCostsFromLogs() over the rows that wear the key's mask: what the users page
\* shows beside the counts of the key's own rows.
UserCosts(k, range) ==
    SumOf(EstimatedCost, {i \in DOMAIN rows : /\ Succeeded(rows[i]) /\ rows[i].mask = Mask(k)
                                              /\ range = "total" \/ rows[i].recent})
UserDetail(k, range) == [AccountSummary(k, range) EXCEPT !.cost = UserCosts(k, range)]

TypeOK ==
    /\ rate \in Rates /\ shared \in BOOLEAN
    /\ \A i \in DOMAIN rows :
          rows[i] \in [key : Keys \cup {NoKey}, mask : Keys, status : {"success", "failed"},
                       input : Nat, cached : Nat, cost : Nat \cup {NoCost}, recent : BOOLEAN]
    /\ \A g \in DOMAIN rollups :
          rollups[g] \in [requests : Nat, successes : Nat, input : Nat, cached : Nat, cost : Nat]

\* The dashboard and the account page report identical numbers for a key (AGENT.md:68),
\* and both add up to what the request history shows row by row: a group resolves recorded
\* against calculated cost exactly as it would per request, whatever the operator does to
\* the price, and rollups and rows tell the same story.  The users page agrees while no
\* other key wears the mask.
ReportsAgree ==
    /\ \A k \in Keys, range \in Ranges : AccountSummary(k, range) = DashboardKey(k, range)
    /\ ~shared => \A k \in Keys, range \in Ranges : UserDetail(k, range) = AccountSummary(k, range)
    /\ \A range \in Ranges :
          LET R == {i \in DOMAIN rows : range = "total" \/ rows[i].recent} IN
          DashboardSummary(range) =
              [requests |-> Cardinality(R),
               successes |-> Cardinality({i \in R : Succeeded(rows[i])}),
               cost |-> SumOf(EstimatedCost, R)]

\* Whoever shares the mask: false, costs are collected by mask and counts by identity.
UsersPageTrue == \A k \in Keys, range \in Ranges : UserDetail(k, range) = AccountSummary(k, range)

\* Cached prompt tokens are separated from fresh ones and each is charged once, at its own
\* price, as tests/pricing-and-identity.test.js:14 and :30 have it.
CachedChargedOnce ==
    [][\A i \in DOMAIN rows' \ DOMAIN rows :
          rows'[i].cost = rows'[i].input * rate + rows'[i].cached]_vars
=============================================================================
