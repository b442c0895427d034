------------------------------- MODULE Uptime -------------------------------
(***************************************************************************)
(* The uptime layer: services/uptime/service.ts over store.ts.  Outcomes   *)
(* are counted in memory per model and time bucket; a timer moves closed   *)
(* buckets to storage; a query adds up both.  A row stands for a key of    *)
(* the hot map, one endpoint per model; of its counters, requestCount.     *)
(***************************************************************************)
EXTENDS Integers, FiniteSets, FiniteSetsExt

CONSTANTS
    Models,
    MaxBucket,   \* bound: the time buckets that pass
    MaxHot,      \* MAX_HOT_BUCKETS
    MaxSamples,  \* bound: outcomes recorded
    Retention,   \* RETENTION_DAYS, in buckets
    Window,      \* the hours a query covers, in buckets
    LostAcks     \* a COMMIT can succeed while its answer is lost (PostgreSQL)

VARIABLES
    now,      \* the open bucket
    mode,     \* the process: up, degraded, stopping, closed (the store), off
    hot,      \* hot: 0 for a key that is not in the map
    flush,    \* flushing: the await of the run, and what it has drained
    pending,  \* what shutdown() has taken out of the map
    store,    \* uptime_buckets
    query,    \* a query between store.read() and its answer
    recorded  \* history: what record() has counted

vars == <<now, mode, hot, flush, pending, store, query, recorded>>

Buckets == 0..MaxBucket
Rows == Models \X Buckets
Zero == [r \in Rows |-> 0]
Plus(f, g) == [r \in Rows |-> f[r] + g[r]]
Only(f, R) == [r \in Rows |-> IF r \in R THEN f[r] ELSE 0]
Held(f) == {r \in Rows : f[r] > 0}
Total(f) == MapThenSumSet(LAMBDA r : f[r], Rows)

NoFlush == [at |-> "idle", drained |-> Zero]
NoQuery == [at |-> "idle", persisted |-> Zero, from |-> 0, raced |-> {}]

Init ==
    /\ now = 0 /\ mode = "up"
    /\ hot = Zero /\ flush = NoFlush /\ pending = Zero
    /\ store = Zero /\ query = NoQuery /\ recorded = Zero

Tick == now < MaxBucket /\ now' = now + 1
        /\ UNCHANGED <<mode, hot, flush, pending, store, query, recorded>>

\* A degraded layer counts nothing; a full map takes no new key.
Room == Cardinality(Held(hot)) < MaxHot
Record(m) ==
    /\ mode \notin {"degraded", "off"} /\ Total(recorded) < MaxSamples
    /\ LET row == <<m, now>>
       IN  /\ row \in Held(hot) \/ Room
           /\ hot' = [hot EXCEPT ![row] = @ + 1]
           /\ recorded' = [recorded EXCEPT ![row] = @ + 1]
    /\ UNCHANGED <<now, mode, flush, pending, store, query>>

\* Rows a query may not see: they leave the map while it reads.
Race(R) == query' = IF query.at = "idle" THEN query ELSE [query EXCEPT !.raced = @ \cup R]

\* The timer: the closed buckets leave the map; one run at a time.
Flush ==
    /\ mode = "up" /\ flush.at = "idle"
    /\ LET closed == {r \in Held(hot) : r[2] < now}
       IN  /\ flush' = [at |-> IF closed = {} THEN "retaining" ELSE "persisting",
                        drained |-> Only(hot, closed)]
           /\ hot' = Only(hot, Rows \ closed)
           /\ Race(closed)
    /\ UNCHANGED <<now, mode, pending, store, recorded>>

\* Seeded fault: a failed flush keeps nothing.
RestoreNothing(drained) == UNCHANGED hot

\* restore(): a key that is back in the map is added to, others take what room
\* there is, in an order that is the map's.
Restore(drained) ==
    LET back == Held(drained) \cap Held(hot)
        gone == Held(drained) \ back
        room == Min({Cardinality(gone), Max({0, MaxHot - Cardinality(Held(hot))})})
    IN  \E R \in kSubset(room, gone) : hot' = Plus(hot, Only(drained, back \cup R))

\* persist() returns: one transaction, whose failure may be a lost answer.
Persisted ==
    /\ flush.at = "persisting"
    /\ \/ /\ store' = Plus(store, flush.drained)
          /\ flush' = [flush EXCEPT !.at = "retaining", !.drained = Zero]
          /\ UNCHANGED hot
       \/ /\ store' = store \/ (LostAcks /\ store' = Plus(store, flush.drained))
          /\ flush' = NoFlush
          /\ Restore(flush.drained)
    /\ UNCHANGED <<now, mode, pending, query, recorded>>

\* applyRetention(), whose failure is noted.
Retain ==
    /\ flush.at = "retaining"
    /\ flush' = NoFlush
    /\ \/ store' = Only(store, {r \in Rows : r[2] >= now - Retention})
       \/ UNCHANGED store
    /\ UNCHANGED <<now, mode, hot, pending, query, recorded>>

(***************************************************************************)
(* query(): the window is fixed first, then storage is read, then the map. *)
(***************************************************************************)
Query ==
    /\ mode \notin {"degraded", "off"} /\ query.at = "idle"
    /\ query' = [at |-> "reading", from |-> now - Window, raced |-> Held(flush.drained) \cup Held(pending),
                 persisted |-> Only(store, {r \in Rows : r[2] >= now - Window})]
    /\ UNCHANGED <<now, mode, hot, flush, pending, store, recorded>>

\* Seeded fault: a bucket that is stored already hides what was counted since.
FoldReplaces(q) == [r \in Rows |-> IF q.persisted[r] > 0 \/ r[2] < q.from
                                   THEN q.persisted[r] ELSE hot[r]]

\* foldSummaries() of the persisted rows and the hot ones; a read that failed
\* leaves an empty answer.
Fold(q) == Plus(q.persisted, Only(hot, {r \in Rows : r[2] >= q.from}))
Answer ==
    /\ query.at = "reading"
    /\ \/ query' = [query EXCEPT !.at = "answered", !.persisted = Fold(query)]
       \/ query' = NoQuery
    /\ UNCHANGED <<now, mode, hot, flush, pending, store, recorded>>

\* The response is written.
Sent == query.at = "answered" /\ query' = NoQuery
        /\ UNCHANGED <<now, mode, hot, flush, pending, store, recorded>>

(***************************************************************************)
(* shutdown() does not wait for a flush under way.  A process that ends,   *)
(* at any time, takes its memory along; the next one opens the store, or   *)
(* fails to and runs degraded.                                             *)
(***************************************************************************)
Shutdown ==
    /\ mode = "up"
    /\ mode' = "stopping" /\ pending' = hot /\ hot' = Zero
    /\ Race(Held(hot))
    /\ UNCHANGED <<now, flush, store, recorded>>

Closed ==
    /\ mode = "stopping"
    /\ mode' = "closed" /\ pending' = Zero
    /\ \/ store' = Plus(store, pending)
       \/ UNCHANGED store
    /\ UNCHANGED <<now, hot, flush, query, recorded>>

Exit ==
    /\ mode # "off" /\ mode' = "off"
    /\ hot' = Zero /\ pending' = Zero /\ flush' = NoFlush /\ query' = NoQuery
    /\ UNCHANGED <<now, store, recorded>>

\* initialize() of the next process.
Start ==
    /\ mode = "off" /\ mode' \in {"up", "degraded"}
    /\ UNCHANGED <<now, hot, flush, pending, store, query, recorded>>

Next ==
    \/ Tick \/ \E m \in Models : Record(m)
    \/ Flush \/ Persisted \/ Retain
    \/ Query \/ Answer \/ Sent
    \/ Shutdown \/ Closed \/ Exit \/ Start

Spec == Init /\ [][Next]_vars

TypeOK ==
    /\ now \in Buckets /\ mode \in {"up", "degraded", "stopping", "closed", "off"}
    /\ \A f \in {hot, pending, store, recorded, flush.drained, query.persisted} :
          f \in [Rows -> Nat]
    /\ flush.at \in {"idle", "persisting", "retaining"}
    /\ query.at \in {"idle", "reading", "answered"} /\ query.raced \subseteq Rows

\* The map never holds more keys than its cap, whatever a failed flush returns.
HotBounded == Cardinality(Held(hot)) <= MaxHot

\* Where an outcome is: in the map, drained, taken out by shutdown(), or stored.
Counted == [r \in Rows |-> hot[r] + flush.drained[r] + pending[r] + store[r]]
Process == CASE mode \in {"up", "degraded"} -> "running"
             [] mode \in {"stopping", "closed"} -> "stopping"
             [] mode = "off" -> "off"
Ledger == INSTANCE UptimeLedger WITH count <- Counted, full <- ~Room, process <- Process

\* A flush, failed or not, retention and a query leave every outcome counted once:
\* the layer implements the ledger, which loses some only at the cap of the map
\* and when a process ends.
CountsLikeLedger == Ledger!Spec

\* What a page shows never exceeds what was recorded, and is short of it only by
\* rows that were leaving memory while the query read storage: the flush holds
\* them in neither place.
AnswerStep ==
    query.at = "reading" /\ query'.at = "answered" =>
        \A r \in Rows : r[2] >= query.from =>
           /\ query'.persisted[r] <= recorded[r]
           /\ r \notin query.raced => query'.persisted[r] >= Counted[r]
AnswerTrue == [][AnswerStep]_vars

\* services/uptime/store.ts:85: "Increments rather than replaces, so a retried
\* flush after a partial failure stays correct."
RetriesStayCorrect == \A r \in Rows : store[r] <= recorded[r]
=============================================================================
