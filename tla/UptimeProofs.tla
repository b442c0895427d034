---------------------------- MODULE UptimeProofs ----------------------------
(***************************************************************************)
(* Proofs about Uptime, for every set of models, map size and window: the  *)
(* layer implements UptimeLedger, and a page shows what was recorded.      *)
(* A COMMIT whose answer is lost is excluded (LostAcks): with it both are  *)
(* false.                                                                  *)
(***************************************************************************)
EXTENDS Uptime, FiniteSetTheorems, TLAPS

Bounds == /\ MaxBucket \in Nat /\ MaxHot \in Nat /\ Retention \in Nat /\ Window \in Nat
          /\ IsFiniteSet(Models) /\ LostAcks = FALSE

Counters == [Rows -> Nat]
Modes == {"up", "degraded", "stopping", "closed", "off"}

(***************************************************************************)
(* The operators on counters.                                              *)
(***************************************************************************)
LEMMA PlusTyped == ASSUME NEW f \in Counters, NEW g \in Counters
                   PROVE  /\ Plus(f, g) \in Counters
                          /\ \A r \in Rows : Plus(f, g)[r] = f[r] + g[r]
BY DEF Plus, Counters

LEMMA OnlyTyped == ASSUME NEW f \in Counters, NEW R
                   PROVE  /\ Only(f, R) \in Counters
                          /\ \A r \in Rows : Only(f, R)[r] = IF r \in R THEN f[r] ELSE 0
BY DEF Only, Counters

LEMMA ZeroTyped == Zero \in Counters /\ \A r \in Rows : Zero[r] = 0
BY DEF Zero, Counters

LEMMA HeldIs == ASSUME NEW f \in Counters, NEW r \in Rows
                PROVE  (r \in Held(f)) = (f[r] # 0)
BY DEF Held, Counters

LEMMA RowsFinite == ASSUME Bounds PROVE IsFiniteSet(Rows)
<1>1. IsFiniteSet(Buckets) BY FS_Interval DEF Bounds, Buckets
<1>2. QED BY <1>1, FS_Product DEF Bounds, Rows

LEMMA HeldFinite == ASSUME Bounds, NEW f PROVE IsFiniteSet(Held(f)) /\ Cardinality(Held(f)) \in Nat
<1>1. Held(f) \subseteq Rows BY DEF Held
<1>2. IsFiniteSet(Held(f)) BY <1>1, RowsFinite, FS_Subset
<1>3. QED BY <1>2, FS_CardinalityType

LEMMA MinOf == ASSUME NEW a \in Int, NEW b \in Int
               PROVE  Min({a, b}) \in {a, b} /\ Min({a, b}) <= a /\ Min({a, b}) <= b
<1>1. \E x \in {a, b} : \A y \in {a, b} : x =< y
      <2>1. CASE a <= b BY <2>1
      <2>2. CASE b <= a BY <2>2
      <2>3. QED BY <2>1, <2>2
<1>2. QED BY <1>1 DEF Min

LEMMA MaxOf == ASSUME NEW a \in Int, NEW b \in Int
               PROVE  Max({a, b}) \in {a, b} /\ a <= Max({a, b}) /\ b <= Max({a, b})
<1>1. \E x \in {a, b} : \A y \in {a, b} : x >= y
      <2>1. CASE a <= b BY <2>1
      <2>2. CASE b <= a BY <2>2
      <2>3. QED BY <2>1, <2>2
<1>2. QED BY <1>1 DEF Max

(***************************************************************************)
(* restore(): either every drained row is back, or the map is at its cap,  *)
(* which it never exceeds.                                                 *)
(***************************************************************************)
LEMMA Restored ==
    ASSUME Bounds, hot \in Counters, NEW drained \in Counters, Restore(drained),
           HotBounded
    PROVE  /\ hot' \in Counters
           /\ \A r \in Rows : hot'[r] \in hot[r]..(hot[r] + drained[r])
           /\ \/ \A r \in Rows : hot'[r] = hot[r] + drained[r]
              \/ ~Room'
           /\ HotBounded'
<1> DEFINE back == Held(drained) \cap Held(hot)
           gone == Held(drained) \ back
           left == MaxHot - Cardinality(Held(hot))
           room == Min({Cardinality(gone), Max({0, left})})
<1>1. PICK R \in kSubset(room, gone) : hot' = Plus(hot, Only(drained, back \cup R))
      BY DEF Restore
<1>2. R \subseteq gone /\ Cardinality(R) = room BY <1>1 DEF kSubset
<1>3. hot' \in Counters
      /\ \A r \in Rows : hot'[r] = hot[r] + (IF r \in back \cup R THEN drained[r] ELSE 0)
      BY <1>1, PlusTyped, OnlyTyped
<1>4. \A r \in Rows : hot[r] \in Nat /\ drained[r] \in Nat BY DEF Counters
<1>5. \A r \in Rows : hot'[r] \in hot[r]..(hot[r] + drained[r]) BY <1>3, <1>4
<1>6. Held(hot') = Held(hot) \cup R
      <2>1. \A r \in Rows : r \in Held(hot') <=> r \in Held(hot) \/ r \in R
            BY <1>2, <1>3, <1>4, HeldIs
      <2>2. Held(hot') \subseteq Rows /\ Held(hot) \subseteq Rows /\ R \subseteq Rows
            BY <1>2 DEF Held
      <2>3. QED BY <2>1, <2>2
<1>7. IsFiniteSet(gone) /\ IsFiniteSet(R) /\ Cardinality(R) \in Nat /\ Cardinality(gone) \in Nat
      <2>1. gone \subseteq Held(drained) OBVIOUS
      <2>2. IsFiniteSet(gone) BY <2>1, HeldFinite, FS_Subset
      <2>3. IsFiniteSet(R) BY <1>2, <2>2, FS_Subset
      <2>4. QED BY <2>2, <2>3, FS_CardinalityType
<1>8. Held(hot) \cap R = {} BY <1>2
<1>9. Cardinality(Held(hot')) = Cardinality(Held(hot)) + Cardinality(R)
      <2>1. Cardinality(Held(hot) \cap R) = 0 BY <1>8, FS_EmptySet
      <2>2. Cardinality(Held(hot) \cup R)
               = Cardinality(Held(hot)) + Cardinality(R) - Cardinality(Held(hot) \cap R)
            BY <1>7, HeldFinite, FS_Union
      <2>3. QED BY <1>6, <1>7, <2>1, <2>2, HeldFinite
<1>10. Cardinality(Held(hot)) \in Nat /\ MaxHot \in Nat /\ Cardinality(Held(hot)) <= MaxHot
       BY HeldFinite DEF HotBounded, Bounds
<1>11. Max({0, left}) = left
       <2>1. 0 \in Int /\ left \in Int /\ left >= 0 BY <1>10
       <2>2. Max({0, left}) \in {0, left} /\ 0 <= Max({0, left}) /\ left <= Max({0, left})
             BY <2>1, MaxOf
       <2>3. QED BY <2>1, <2>2
<1>12. room \in {Cardinality(gone), left} /\ room <= Cardinality(gone) /\ room <= left
       <2>1. Cardinality(gone) \in Int /\ left \in Int BY <1>7, <1>10
       <2>2. QED BY ONLY <1>11, <2>1, MinOf
<1>13. Cardinality(Held(hot')) = Cardinality(Held(hot)) + room BY <1>2, <1>9
<1>14. HotBounded'
       <2>1. room \in Int BY <1>7, <1>10, <1>12
       <2>2. Cardinality(Held(hot')) <= MaxHot
             BY ONLY <1>10, <1>12, <1>13, <2>1
       <2>3. QED BY <2>2 DEF HotBounded, Held
<1>15. CASE R = gone
       <2>1. \A r \in Rows : r \in back \cup R \/ drained[r] = 0 BY <1>15, HeldIs
       <2>2. \A r \in Rows : hot'[r] = hot[r] + drained[r] BY <1>3, <1>4, <2>1
       <2>3. QED BY <1>3, <1>5, <1>14, <2>2
<1>16. CASE R # gone
       <2>1. room # Cardinality(gone) BY <1>2, <1>7, <1>16, FS_Subset
       <2>2. room = left BY <1>12, <2>1
       <2>3. Cardinality(Held(hot')) = MaxHot BY ONLY <1>10, <1>13, <2>2
       <2>4. ~Room' BY <2>3 DEF Room, Bounds
       <2>5. QED BY <1>3, <1>5, <1>14, <2>4
<1>17. QED BY <1>15, <1>16

(***************************************************************************)
(* The inductive invariant: types; where counters can be; and, of a query  *)
(* that has read storage, what its snapshot and the map add up to.         *)
(***************************************************************************)
Typed ==
    /\ now \in 0..MaxBucket /\ mode \in Modes
    /\ hot \in Counters /\ pending \in Counters /\ store \in Counters /\ recorded \in Counters
    /\ flush \in [at : {"idle", "persisting", "retaining"}, drained : Counters]
    /\ query \in [at : {"idle", "reading", "answered"}, persisted : Counters,
                  from : Int, raced : SUBSET Rows]

Where ==
    /\ flush.at # "persisting" => flush.drained = Zero
    /\ mode # "stopping" => pending = Zero
    /\ mode = "off" => flush.at = "idle"

Sums(r) == hot[r] + flush.drained[r] + pending[r] + store[r]
Counts == \A r \in Rows : Sums(r) <= recorded[r]

Snapshot ==
    query.at = "reading" => \A r \in Rows : r[2] >= query.from =>
        /\ query.persisted[r] + hot[r] + flush.drained[r] + pending[r] <= recorded[r]
        /\ r \notin query.raced =>
              flush.drained[r] = 0 /\ pending[r] = 0 /\ store[r] <= query.persisted[r]

Inv == Typed /\ Where /\ HotBounded /\ Counts /\ Snapshot

LEMMA NothingHeld == ASSUME Bounds PROVE Held(Zero) = {} /\ Cardinality(Held(Zero)) = 0
<1>1. Held(Zero) = {} BY DEF Held, Zero
<1>2. QED BY <1>1, FS_EmptySet

LEMMA InvInit == ASSUME Bounds, Init PROVE Inv
<1>1. Typed BY ZeroTyped DEF Init, Typed, NoFlush, NoQuery, Modes, Bounds
<1>2. Where /\ Snapshot BY DEF Init, Where, Snapshot, NoFlush, NoQuery
<1>3. HotBounded
      <2>1. MaxHot \in Nat /\ Cardinality(Held(hot)) = 0 BY NothingHeld DEF Init, Bounds
      <2>2. QED BY <2>1 DEF HotBounded
<1>4. Counts BY ZeroTyped DEF Init, Counts, Sums, NoFlush
<1>5. QED BY <1>1, <1>2, <1>3, <1>4 DEF Inv

\* A map that holds fewer keys than another keeps the cap.
LEMMA Fewer == ASSUME Bounds, NEW f \in Counters, NEW g \in Counters,
                      \A r \in Rows : f[r] <= g[r], Cardinality(Held(g)) <= MaxHot
               PROVE  Cardinality(Held(f)) <= MaxHot
<1>1. Held(f) \subseteq Held(g) BY DEF Held, Counters
<1>2. Cardinality(Held(f)) <= Cardinality(Held(g)) BY <1>1, HeldFinite, FS_Subset
<1>3. Cardinality(Held(f)) \in Nat /\ Cardinality(Held(g)) \in Nat /\ MaxHot \in Nat
      BY HeldFinite DEF Bounds
<1>4. QED BY <1>2, <1>3

(***************************************************************************)
(* What each action does to the counters of a row.                         *)
(***************************************************************************)
RowsTyped ==
    \A r \in Rows : /\ hot[r] \in Nat /\ pending[r] \in Nat /\ store[r] \in Nat
                    /\ recorded[r] \in Nat /\ flush.drained[r] \in Nat
                    /\ query.persisted[r] \in Nat

LEMMA AllRowsTyped == ASSUME Typed PROVE RowsTyped
BY DEF Typed, RowsTyped, Counters

LEMMA RecordDoes ==
    ASSUME Bounds, Typed, NEW m \in Models, Record(m)
    PROVE  /\ mode \notin {"degraded", "off"} /\ <<m, now>> \in Rows
           /\ hot' = [hot EXCEPT ![<<m, now>>] = @ + 1]
           /\ recorded' = [recorded EXCEPT ![<<m, now>>] = @ + 1]
           /\ hot' \in Counters /\ recorded' \in Counters
           /\ <<m, now>> \in Held(hot) \/ Room
           /\ UNCHANGED <<now, mode, flush, pending, store, query>>
<1>1. <<m, now>> \in Rows BY DEF Typed, Rows, Buckets
<1>2. hot \in Counters /\ recorded \in Counters BY DEF Typed
<1>3. hot' = [hot EXCEPT ![<<m, now>>] = @ + 1]
      /\ recorded' = [recorded EXCEPT ![<<m, now>>] = @ + 1]
      BY DEF Record
<1>4. hot' \in Counters /\ recorded' \in Counters BY <1>1, <1>2, <1>3 DEF Counters
<1>5. QED BY <1>1, <1>3, <1>4 DEF Record

LEMMA RecordAtRow ==
    ASSUME Bounds, Typed, NEW m \in Models, Record(m), NEW r \in Rows
    PROVE  /\ hot'[r] - hot[r] \in {0, 1} /\ recorded'[r] - recorded[r] = hot'[r] - hot[r]
           /\ hot'[r] \in Nat /\ recorded'[r] \in Nat
<1>1. hot \in [Rows -> Nat] /\ recorded \in [Rows -> Nat] BY DEF Typed, Counters
<1>2. hot[r] \in Nat /\ recorded[r] \in Nat BY <1>1
<1>3. CASE r = <<m, now>>
      <2>1. hot'[r] = hot[r] + 1 /\ recorded'[r] = recorded[r] + 1 BY <1>1, <1>3, RecordDoes
      <2>2. QED BY <1>2, <2>1
<1>4. CASE r # <<m, now>>
      <2>1. hot'[r] = hot[r] /\ recorded'[r] = recorded[r] BY <1>1, <1>4, RecordDoes
      <2>2. QED BY <1>2, <2>1
<1>5. QED BY <1>3, <1>4

LEMMA RaceDoes ==
    ASSUME Typed, NEW R \in SUBSET Rows, Race(R)
    PROVE  /\ query'.at = query.at /\ query'.persisted = query.persisted
           /\ query'.from = query.from
           /\ query.at # "idle" => query'.raced = query.raced \cup R
           /\ query' \in [at : {"idle", "reading", "answered"}, persisted : Counters,
                          from : Int, raced : SUBSET Rows]
<1>1. CASE query.at = "idle" BY <1>1 DEF Race, Typed
<1>2. CASE query.at # "idle"
      <2>1. query' = [query EXCEPT !.raced = query.raced \cup R] BY <1>2 DEF Race
      <2>2. query \in [at : {"idle", "reading", "answered"}, persisted : Counters,
                      from : Int, raced : SUBSET Rows]
            BY DEF Typed
      <2>3. QED BY ONLY <1>2, <2>1, <2>2, R \in SUBSET Rows
<1>3. QED BY <1>1, <1>2

LEMMA FlushDoes ==
    ASSUME Typed, Where, Flush
    PROVE  /\ mode = "up" /\ UNCHANGED <<now, mode, pending, store, recorded>>
           /\ hot' \in Counters /\ flush'.drained \in Counters
           /\ flush' \in [at : {"idle", "persisting", "retaining"}, drained : Counters]
           /\ flush'.at # "persisting" => flush'.drained = Zero
           /\ \A r \in Rows : /\ flush.drained[r] = 0 /\ hot'[r] + flush'.drained[r] = hot[r]
                              /\ hot'[r] <= hot[r]
           /\ \E R \in SUBSET Rows : Race(R) /\ \A r \in Rows \ R : flush'.drained[r] = 0
<1> DEFINE closed == {r \in Held(hot) : r[2] < now}
<1>1. /\ mode = "up" /\ flush.at = "idle" /\ UNCHANGED <<now, mode, pending, store, recorded>>
      /\ flush' = [at |-> IF closed = {} THEN "retaining" ELSE "persisting",
                   drained |-> Only(hot, closed)]
      /\ hot' = Only(hot, Rows \ closed) /\ Race(closed)
      BY DEF Flush
<1>2. closed \in SUBSET Rows BY DEF Held
<1>3. hot \in Counters BY DEF Typed
<1>4. hot' \in Counters /\ flush'.drained \in Counters BY <1>1, <1>3, OnlyTyped
<1>5. \A r \in Rows : /\ flush'.drained[r] = IF r \in closed THEN hot[r] ELSE 0
                     /\ hot'[r] = IF r \in closed THEN 0 ELSE hot[r]
      BY <1>1, <1>3, OnlyTyped
<1>6. \A r \in Rows : flush.drained[r] = 0 BY <1>1, ZeroTyped DEF Where
<1>7. \A r \in Rows : hot[r] \in Nat BY <1>3 DEF Counters
<1>8. flush'.at # "persisting" => flush'.drained = Zero
      <2>1. CASE closed = {} BY <1>1, <2>1 DEF Only, Zero
      <2>2. CASE closed # {} BY <1>1, <2>2
      <2>3. QED BY <2>1, <2>2
<1>9. flush' \in [at : {"idle", "persisting", "retaining"}, drained : Counters] BY <1>1, <1>4
<1>10. \A r \in Rows : hot'[r] + flush'.drained[r] = hot[r] /\ hot'[r] <= hot[r]
       BY <1>5, <1>7
<1>11. \A r \in Rows \ closed : flush'.drained[r] = 0 BY <1>5
<1>12. QED BY <1>1, <1>2, <1>4, <1>6, <1>8, <1>9, <1>10, <1>11

LEMMA PersistedDoes ==
    ASSUME Bounds, Typed, Where, HotBounded, Persisted
    PROVE  /\ UNCHANGED <<now, mode, pending, query, recorded>>
           /\ flush.at = "persisting" /\ flush'.drained = Zero
           /\ flush' \in [at : {"idle", "persisting", "retaining"}, drained : Counters]
           /\ flush'.at # "persisting"
           /\ hot' \in Counters /\ store' \in Counters /\ HotBounded'
           /\ \/ \A r \in Rows : hot'[r] = hot[r] /\ store'[r] = store[r] + flush.drained[r]
              \/ /\ \A r \in Rows : hot'[r] \in hot[r]..(hot[r] + flush.drained[r])
                                    /\ store'[r] = store[r]
                 /\ \/ \A r \in Rows : hot'[r] = hot[r] + flush.drained[r]
                    \/ ~Room'
<1>1. flush.drained \in Counters /\ store \in Counters /\ hot \in Counters BY DEF Typed
<1>2. flush.at = "persisting" /\ UNCHANGED <<now, mode, pending, query, recorded>> BY DEF Persisted
<1>3. CASE /\ store' = Plus(store, flush.drained)
           /\ flush' = [flush EXCEPT !.at = "retaining", !.drained = Zero]
           /\ UNCHANGED hot
      <2>1. store' \in Counters /\ \A r \in Rows : store'[r] = store[r] + flush.drained[r]
            BY <1>1, <1>3, PlusTyped
      <2>2. flush' = [at |-> "retaining", drained |-> Zero]
            BY <1>3 DEF Typed
      <2>3. HotBounded' BY <1>3 DEF HotBounded, Held
      <2>4. QED BY <1>1, <1>2, <1>3, <2>1, <2>2, <2>3, ZeroTyped
<1>4. CASE store' = store /\ flush' = NoFlush /\ Restore(flush.drained)
      <2>1. flush' = [at |-> "idle", drained |-> Zero] BY <1>4 DEF NoFlush
      <2>2. /\ hot' \in Counters
            /\ \A r \in Rows : hot'[r] \in hot[r]..(hot[r] + flush.drained[r])
            /\ \/ \A r \in Rows : hot'[r] = hot[r] + flush.drained[r]
               \/ ~Room'
            /\ HotBounded'
            BY <1>1, <1>4, Restored
      <2>3. QED BY <1>1, <1>2, <1>4, <2>1, <2>2, ZeroTyped
<1>5. QED BY <1>3, <1>4 DEF Persisted, Bounds

LEMMA RetainDoes ==
    ASSUME Typed, Where, Retain
    PROVE  /\ UNCHANGED <<now, mode, hot, pending, query, recorded>>
           /\ flush.at = "retaining" /\ flush.drained = Zero /\ flush' = NoFlush
           /\ store' \in Counters
           /\ \A r \in Rows :
                 store'[r] = store[r] \/ (store'[r] = 0 /\ ~(r[2] >= now - Retention))
<1>1. store \in Counters BY DEF Typed
<1>2. \/ store' = Only(store, {r \in Rows : r[2] >= now - Retention})
      \/ UNCHANGED store
      BY DEF Retain
<1>3. store' \in Counters BY <1>1, <1>2, OnlyTyped
<1>4. \A r \in Rows :
         store'[r] = store[r] \/ (store'[r] = 0 /\ ~(r[2] >= now - Retention))
      BY <1>1, <1>2, OnlyTyped
<1>5. QED BY <1>3, <1>4 DEF Retain, Where

LEMMA QueryDoes ==
    ASSUME Bounds, Typed, Query
    PROVE  /\ UNCHANGED <<now, mode, hot, flush, pending, store, recorded>>
           /\ query' \in [at : {"idle", "reading", "answered"}, persisted : Counters,
                          from : Int, raced : SUBSET Rows]
           /\ query'.at = "reading"
           /\ \A r \in Rows : r[2] >= query'.from => query'.persisted[r] = store[r]
           /\ \A r \in Rows : r \notin query'.raced => flush.drained[r] = 0 /\ pending[r] = 0
<1> DEFINE seen == {r \in Rows : r[2] >= now - Window}
<1>1. store \in Counters /\ flush.drained \in Counters /\ pending \in Counters BY DEF Typed
<1>2. /\ UNCHANGED <<now, mode, hot, flush, pending, store, recorded>>
      /\ query' = [at |-> "reading", from |-> now - Window,
                   raced |-> Held(flush.drained) \cup Held(pending),
                   persisted |-> Only(store, seen)]
      BY DEF Query
<1>3. now - Window \in Int BY DEF Typed, Bounds
<1>4. Only(store, seen) \in Counters
      /\ \A r \in Rows : Only(store, seen)[r] = IF r \in seen THEN store[r] ELSE 0
      BY <1>1, OnlyTyped
<1>5. Held(flush.drained) \cup Held(pending) \in SUBSET Rows BY DEF Held
<1>6. \A r \in Rows : r \notin query'.raced => flush.drained[r] = 0 /\ pending[r] = 0
      BY <1>1, <1>2, HeldIs
<1>7. \A r \in Rows : r[2] >= query'.from => query'.persisted[r] = store[r]
      BY <1>2, <1>4
<1>8. query' \in [at : {"idle", "reading", "answered"}, persisted : Counters,
                 from : Int, raced : SUBSET Rows]
      BY <1>2, <1>3, <1>4, <1>5
<1>9. QED BY <1>2, <1>6, <1>7, <1>8

LEMMA AnswerDoes ==
    ASSUME Typed, Answer
    PROVE  /\ UNCHANGED <<now, mode, hot, flush, pending, store, recorded>>
           /\ query.at = "reading" /\ query'.at # "reading"
           /\ query' \in [at : {"idle", "reading", "answered"}, persisted : Counters,
                          from : Int, raced : SUBSET Rows]
           /\ query'.at = "answered" => query'.persisted = Fold(query)
<1>1. query.persisted \in Counters /\ hot \in Counters BY DEF Typed
<1>2. Fold(query) \in Counters BY <1>1, PlusTyped, OnlyTyped DEF Fold
<1>3. CASE query' = [query EXCEPT !.at = "answered", !.persisted = Fold(query)]
      BY <1>2, <1>3 DEF Answer, Typed
<1>4. CASE query' = NoQuery BY <1>4, ZeroTyped DEF Answer, NoQuery
<1>5. QED BY <1>3, <1>4 DEF Answer

LEMMA ShutdownDoes ==
    ASSUME Typed, Where, Shutdown
    PROVE  /\ mode = "up" /\ mode' = "stopping" /\ UNCHANGED <<now, flush, store, recorded>>
           /\ pending = Zero /\ pending' = hot /\ hot' = Zero
           /\ \E R \in SUBSET Rows : Race(R) /\ \A r \in Rows \ R : pending'[r] = 0
<1>1. hot \in Counters BY DEF Typed
<1>2. Held(hot) \in SUBSET Rows /\ \A r \in Rows \ Held(hot) : hot[r] = 0
      BY <1>1, HeldIs DEF Held
<1>3. QED BY <1>2 DEF Shutdown, Where

LEMMA ClosedDoes ==
    ASSUME Typed, Closed
    PROVE  /\ mode = "stopping" /\ mode' = "closed" /\ pending' = Zero
           /\ UNCHANGED <<now, hot, flush, query, recorded>>
           /\ store' \in Counters
           /\ \A r \in Rows : store'[r] \in store[r]..(store[r] + pending[r])
<1>1. store \in Counters /\ pending \in Counters BY DEF Typed
<1>2. store' = Plus(store, pending) \/ store' = store BY DEF Closed
<1>3. store' \in Counters BY <1>1, <1>2, PlusTyped
<1>4. \A r \in Rows : store[r] \in Nat /\ pending[r] \in Nat BY <1>1 DEF Counters
<1>5. \A r \in Rows : store'[r] = store[r] + pending[r] \/ store'[r] = store[r]
      BY <1>1, <1>2, PlusTyped
<1>6. \A r \in Rows : store'[r] \in store[r]..(store[r] + pending[r]) BY <1>4, <1>5
<1>7. QED BY <1>3, <1>6 DEF Closed

(***************************************************************************)
(* Each conjunct of the invariant is preserved.                            *)
(***************************************************************************)
LEMMA TypedNext == ASSUME Bounds, Typed, Where, HotBounded, [Next]_vars PROVE Typed'
<1> USE DEF Typed
<1>1. CASE Tick BY <1>1 DEF Tick, Bounds
<1>2. ASSUME NEW m \in Models, Record(m) PROVE Typed' BY <1>2, RecordDoes
<1>3. CASE Flush BY <1>3, FlushDoes, RaceDoes
<1>4. CASE Persisted BY <1>4, PersistedDoes
<1>5. CASE Retain BY <1>5, RetainDoes, ZeroTyped DEF NoFlush
<1>6. CASE Query BY <1>6, QueryDoes
<1>7. CASE Answer BY <1>7, AnswerDoes
<1>8. CASE Sent BY <1>8, ZeroTyped DEF Sent, NoQuery
<1>9. CASE Shutdown BY <1>9, ShutdownDoes, RaceDoes, ZeroTyped DEF Modes
<1>10. CASE Closed BY <1>10, ClosedDoes, ZeroTyped DEF Modes
<1>11. CASE Exit BY <1>11, ZeroTyped DEF Exit, NoFlush, NoQuery, Modes
<1>12. CASE Start BY <1>12 DEF Start, Modes
<1>13. CASE UNCHANGED vars BY <1>13 DEF vars
<1>14. QED BY <1>1, <1>2, <1>3, <1>4, <1>5, <1>6, <1>7, <1>8, <1>9, <1>10, <1>11, <1>12,
              <1>13 DEF Next

LEMMA WhereNext == ASSUME Bounds, Typed, Where, HotBounded, [Next]_vars PROVE Where'
<1> USE DEF Where
<1>1. CASE Tick BY <1>1 DEF Tick
<1>2. ASSUME NEW m \in Models, Record(m) PROVE Where' BY <1>2, RecordDoes
<1>3. CASE Flush
      <2>1. mode' = "up" /\ mode = "up" /\ pending' = pending
            /\ (flush'.at # "persisting" => flush'.drained = Zero)
            BY <1>3, FlushDoes
      <2>2. QED BY <2>1
<1>4. CASE Persisted BY <1>4, PersistedDoes
<1>5. CASE Retain BY <1>5, RetainDoes DEF NoFlush
<1>6. CASE Query BY <1>6, QueryDoes
<1>7. CASE Answer BY <1>7, AnswerDoes
<1>8. CASE Sent BY <1>8 DEF Sent
<1>9. CASE Shutdown BY <1>9, ShutdownDoes
<1>10. CASE Closed BY <1>10, ClosedDoes
<1>11. CASE Exit BY <1>11 DEF Exit, NoFlush
<1>12. CASE Start BY <1>12 DEF Start
<1>13. CASE UNCHANGED vars BY <1>13 DEF vars
<1>14. QED BY <1>1, <1>2, <1>3, <1>4, <1>5, <1>6, <1>7, <1>8, <1>9, <1>10, <1>11, <1>12,
              <1>13 DEF Next

LEMMA HotBoundedNext == ASSUME Bounds, Typed, Where, HotBounded, [Next]_vars PROVE HotBounded'
<1>1. CASE UNCHANGED hot BY <1>1 DEF HotBounded, Held
<1>2. ASSUME NEW m \in Models, Record(m) PROVE HotBounded'
      <2> DEFINE row == <<m, now>>
      <2>1. row \in Rows /\ hot' = [hot EXCEPT ![row] = @ + 1] /\ hot \in Counters
            /\ (row \in Held(hot) \/ Room)
            BY <1>2, RecordDoes DEF Typed
      <2>2. Held(hot') = Held(hot) \cup {row} BY <2>1 DEF Held, Counters
      <2>3. Cardinality(Held(hot')) =
               IF row \in Held(hot) THEN Cardinality(Held(hot)) ELSE Cardinality(Held(hot)) + 1
            BY <2>2, HeldFinite, FS_AddElement
      <2>4. Cardinality(Held(hot)) \in Nat /\ MaxHot \in Nat BY HeldFinite DEF Bounds
      <2>5. row \in Held(hot) \/ Cardinality(Held(hot)) < MaxHot BY <2>1 DEF Room
      <2>6. Cardinality(Held(hot')) <= MaxHot
            BY ONLY <2>3, <2>4, <2>5, HotBounded DEF HotBounded
      <2>7. QED BY <2>6 DEF HotBounded, Held
<1>3. ASSUME hot' \in Counters, \A r \in Rows : hot'[r] <= hot[r] PROVE HotBounded'
      <2>1. hot \in Counters /\ Cardinality(Held(hot)) <= MaxHot BY DEF Typed, HotBounded
      <2>2. Cardinality(Held(hot')) <= MaxHot BY <1>3, <2>1, Fewer
      <2>3. QED BY <2>2 DEF HotBounded, Held
<1>4. CASE Flush BY <1>3, <1>4, FlushDoes
<1>5. CASE Persisted BY <1>5, PersistedDoes
<1>6. CASE hot' = Zero
      <2>1. \A r \in Rows : hot'[r] <= hot[r] BY <1>6, ZeroTyped, AllRowsTyped DEF RowsTyped
      <2>2. QED BY <1>3, <1>6, <2>1, ZeroTyped
<1>7. QED BY <1>1, <1>2, <1>4, <1>5, <1>6, RetainDoes, QueryDoes, AnswerDoes, ShutdownDoes,
             ClosedDoes
          DEF Next, Tick, Sent, Exit, Start, vars

LEMMA CountsNext ==
    ASSUME Bounds, Typed, Where, HotBounded, Counts, [Next]_vars PROVE Counts'
<1> USE DEF Counts, Sums
<1>0. RowsTyped BY AllRowsTyped
<1>1. CASE UNCHANGED <<hot, flush, pending, store, recorded>> BY <1>1
<1>2. ASSUME NEW m \in Models, Record(m) PROVE Counts'
      <2>1. \A r \in Rows :
               hot'[r] - hot[r] \in {0, 1} /\ recorded'[r] - recorded[r] = hot'[r] - hot[r]
               /\ hot'[r] \in Nat /\ recorded'[r] \in Nat
            BY <1>2, RecordAtRow
      <2>2. UNCHANGED <<flush, pending, store>> BY <1>2, RecordDoes
      <2>3. QED BY <1>0, <2>1, <2>2 DEF RowsTyped
<1>3. CASE Flush
      <2>1. flush'.drained \in Counters /\ hot' \in Counters BY <1>3, FlushDoes
      <2>2. \A r \in Rows : /\ flush.drained[r] = 0 /\ hot'[r] + flush'.drained[r] = hot[r]
                           /\ hot'[r] \in Nat /\ flush'.drained[r] \in Nat
                           /\ pending'[r] = pending[r] /\ store'[r] = store[r]
                           /\ recorded'[r] = recorded[r]
            BY <1>3, <2>1, FlushDoes DEF Counters
      <2>3. QED BY <1>0, <2>2 DEF RowsTyped
<1>4. CASE Persisted
      <2>1. \A r \in Rows : /\ flush'.drained[r] = 0 /\ pending'[r] = pending[r]
                           /\ recorded'[r] = recorded[r]
            BY <1>4, PersistedDoes, ZeroTyped
      <2>2. \A r \in Rows :
               \/ hot'[r] = hot[r] /\ store'[r] = store[r] + flush.drained[r]
               \/ hot'[r] \in hot[r]..(hot[r] + flush.drained[r]) /\ store'[r] = store[r]
            BY <1>4, PersistedDoes
      <2>3. QED BY <1>0, <2>1, <2>2 DEF RowsTyped
<1>5. CASE Retain
      <2>1. \A r \in Rows : /\ flush.drained[r] = 0 /\ flush'.drained[r] = 0
                           /\ hot'[r] = hot[r] /\ pending'[r] = pending[r]
                           /\ recorded'[r] = recorded[r]
                           /\ (store'[r] = store[r] \/ store'[r] = 0)
            BY <1>5, RetainDoes, ZeroTyped DEF NoFlush
      <2>2. QED BY <1>0, <2>1 DEF RowsTyped
<1>6. CASE Shutdown
      <2>1. \A r \in Rows : /\ pending[r] = 0 /\ pending'[r] = hot[r] /\ hot'[r] = 0
                           /\ flush'.drained[r] = flush.drained[r] /\ store'[r] = store[r]
                           /\ recorded'[r] = recorded[r]
            BY <1>6, ShutdownDoes, ZeroTyped
      <2>2. QED BY <1>0, <2>1 DEF RowsTyped
<1>7. CASE Closed
      <2>1. \A r \in Rows : /\ pending'[r] = 0 /\ hot'[r] = hot[r]
                           /\ flush'.drained[r] = flush.drained[r]
                           /\ store'[r] \in store[r]..(store[r] + pending[r])
                           /\ recorded'[r] = recorded[r]
            BY <1>7, ClosedDoes, ZeroTyped
      <2>2. QED BY <1>0, <2>1 DEF RowsTyped
<1>8. CASE Exit
      <2>1. \A r \in Rows : /\ pending'[r] = 0 /\ hot'[r] = 0 /\ flush'.drained[r] = 0
                           /\ store'[r] = store[r] /\ recorded'[r] = recorded[r]
            BY <1>8, ZeroTyped DEF Exit, NoFlush
      <2>2. QED BY <1>0, <2>1 DEF RowsTyped
<1>9. QED BY <1>1, <1>2, <1>3, <1>4, <1>5, <1>6, <1>7, <1>8, QueryDoes, AnswerDoes
          DEF Next, Tick, Sent, Start, vars

LEMMA SnapshotNext ==
    ASSUME Bounds, Typed, Where, HotBounded, Counts, Snapshot, [Next]_vars PROVE Snapshot'
<1> USE DEF Snapshot
<1>0. RowsTyped BY AllRowsTyped
<1>1. CASE UNCHANGED <<hot, flush, pending, store, recorded, query>> BY <1>1
<1>2. ASSUME NEW m \in Models, Record(m) PROVE Snapshot'
      <2>1. \A r \in Rows :
               hot'[r] - hot[r] \in {0, 1} /\ recorded'[r] - recorded[r] = hot'[r] - hot[r]
               /\ hot'[r] \in Nat /\ recorded'[r] \in Nat
            BY <1>2, RecordAtRow
      <2>2. UNCHANGED <<flush, pending, store, query>> BY <1>2, RecordDoes
      <2>3. QED BY <1>0, <2>1, <2>2 DEF RowsTyped
<1>3. CASE Flush
      <2>1. PICK R \in SUBSET Rows : Race(R) /\ \A r \in Rows \ R : flush'.drained[r] = 0
            BY <1>3, FlushDoes
      <2>2. /\ query'.at = query.at /\ query'.persisted = query.persisted
            /\ query'.from = query.from
            /\ query.at # "idle" => query'.raced = query.raced \cup R
            BY <2>1, RaceDoes
      <2>3. flush'.drained \in Counters /\ hot' \in Counters BY <1>3, FlushDoes
      <2>4. \A r \in Rows : /\ flush.drained[r] = 0 /\ hot'[r] + flush'.drained[r] = hot[r]
                           /\ hot'[r] \in Nat /\ flush'.drained[r] \in Nat
                           /\ pending'[r] = pending[r] /\ store'[r] = store[r]
                           /\ recorded'[r] = recorded[r]
            BY <1>3, <2>3, FlushDoes DEF Counters
      <2>5. QED BY <1>0, <2>1, <2>2, <2>4 DEF RowsTyped
<1>4. CASE Persisted
      <2>1. \A r \in Rows : /\ flush'.drained[r] = 0 /\ pending'[r] = pending[r]
                           /\ recorded'[r] = recorded[r]
            BY <1>4, PersistedDoes, ZeroTyped
      <2>2. \A r \in Rows :
               \/ hot'[r] = hot[r] /\ store'[r] = store[r] + flush.drained[r]
               \/ hot'[r] \in hot[r]..(hot[r] + flush.drained[r]) /\ store'[r] = store[r]
            BY <1>4, PersistedDoes
      <2>3. query' = query BY <1>4, PersistedDoes
      <2>4. QED BY <1>0, <2>1, <2>2, <2>3 DEF RowsTyped
<1>5. CASE Retain
      <2>1. \A r \in Rows : /\ flush.drained[r] = 0 /\ flush'.drained[r] = 0
                           /\ hot'[r] = hot[r] /\ pending'[r] = pending[r]
                           /\ recorded'[r] = recorded[r]
                           /\ (store'[r] = store[r] \/ store'[r] = 0)
            BY <1>5, RetainDoes, ZeroTyped DEF NoFlush
      <2>2. query' = query BY <1>5, RetainDoes
      <2>3. QED BY <1>0, <2>1, <2>2 DEF RowsTyped
<1>6. CASE Query
      <2>1. UNCHANGED <<hot, flush, pending, store, recorded>> BY <1>6, QueryDoes
      <2>2. \A r \in Rows : r[2] >= query'.from => query'.persisted[r] = store[r]
            BY <1>6, QueryDoes
      <2>3. \A r \in Rows : r \notin query'.raced => flush.drained[r] = 0 /\ pending[r] = 0
            BY <1>6, QueryDoes
      <2>4. QED BY <1>0, <2>1, <2>2, <2>3 DEF RowsTyped, Counts, Sums
<1>7. CASE Answer BY <1>7, AnswerDoes
<1>8. CASE Sent BY <1>8 DEF Sent, NoQuery
<1>9. CASE Shutdown
      <2>1. PICK R \in SUBSET Rows : Race(R) /\ \A r \in Rows \ R : pending'[r] = 0
            BY <1>9, ShutdownDoes
      <2>2. /\ query'.at = query.at /\ query'.persisted = query.persisted
            /\ query'.from = query.from
            /\ query.at # "idle" => query'.raced = query.raced \cup R
            BY <2>1, RaceDoes
      <2>3. \A r \in Rows : /\ pending[r] = 0 /\ pending'[r] = hot[r] /\ hot'[r] = 0
                           /\ flush'.drained[r] = flush.drained[r] /\ store'[r] = store[r]
                           /\ recorded'[r] = recorded[r]
            BY <1>9, ShutdownDoes, ZeroTyped
      <2>4. QED BY <1>0, <2>1, <2>2, <2>3 DEF RowsTyped
<1>10. CASE Closed
      <2>1. \A r \in Rows : /\ pending'[r] = 0 /\ hot'[r] = hot[r]
                           /\ flush'.drained[r] = flush.drained[r]
                           /\ store'[r] \in store[r]..(store[r] + pending[r])
                           /\ recorded'[r] = recorded[r]
            BY <1>10, ClosedDoes, ZeroTyped
      <2>2. query' = query BY <1>10, ClosedDoes
      <2>3. QED BY <1>0, <2>1, <2>2 DEF RowsTyped
<1>11. CASE Exit BY <1>11 DEF Exit, NoQuery
<1>12. QED BY <1>1, <1>2, <1>3, <1>4, <1>5, <1>6, <1>7, <1>8, <1>9, <1>10, <1>11
           DEF Next, Tick, Start, vars

(***************************************************************************)
(* The theorems.                                                           *)
(***************************************************************************)
LEMMA Inductive == ASSUME Bounds PROVE Spec => []Inv
<1>1. Init => Inv BY InvInit
<1>2. Inv /\ [Next]_vars => Inv'
      BY TypedNext, WhereNext, HotBoundedNext, CountsNext, SnapshotNext DEF Inv
<1>3. QED BY <1>1, <1>2, PTL DEF Spec

\* Every variable stays in its type (services/uptime/service.ts:96).
THEOREM TypeCorrect == ASSUME Bounds PROVE Spec => []TypeOK
<1>1. Inv => TypeOK BY DEF Inv, Typed, TypeOK, Modes, Counters, Buckets
<1>2. QED BY <1>1, Inductive, PTL

\* The map in memory keeps its cap, whatever a failed flush gives back
\* (services/uptime/service.ts:202).
THEOREM HotBoundedHolds == ASSUME Bounds PROVE Spec => []HotBounded
<1>1. Inv => HotBounded BY DEF Inv
<1>2. QED BY <1>1, Inductive, PTL

\* A page never shows more than was recorded, and lacks only rows that were leaving memory
\* while it read storage (services/uptime/service.ts:223).
THEOREM AnswerTrueHolds == ASSUME Bounds PROVE Spec => AnswerTrue
<1>1. ASSUME Inv, Next, query.at = "reading", query'.at = "answered" PROVE Answer
      <2>1. \A R \in SUBSET Rows : Race(R) => query'.at = query.at BY <1>1, RaceDoes DEF Inv
      <2>2. ~Flush /\ ~Shutdown BY <1>1, <2>1, FlushDoes, ShutdownDoes DEF Inv
      <2>3. ~Query BY <1>1, QueryDoes DEF Inv
      <2>4. ~Exit /\ ~Sent BY <1>1 DEF Exit, Sent, NoQuery
      <2>5. query' # query BY <1>1
      <2>6. QED BY <1>1, <2>2, <2>3, <2>4, <2>5
                DEF Next, Tick, Record, Persisted, Retain, Closed, Start
<1>2. Inv /\ [Next]_vars => [AnswerStep]_vars
      <2> SUFFICES ASSUME Inv, Next, query.at = "reading", query'.at = "answered",
                          NEW r \in Rows, r[2] >= query.from
                   PROVE  /\ query'.persisted[r] <= recorded[r]
                          /\ r \notin query.raced => query'.persisted[r] >= Counted[r]
            BY DEF AnswerStep
      <2>1. query'.persisted = Fold(query) BY <1>1, AnswerDoes DEF Inv
      <2>2. query.persisted \in Counters /\ hot \in Counters BY DEF Inv, Typed
      <2>3. query'.persisted[r] = query.persisted[r] + hot[r]
            BY <2>1, <2>2, PlusTyped, OnlyTyped DEF Fold
      <2>4. Counted[r] = hot[r] + flush.drained[r] + pending[r] + store[r] BY DEF Counted
      <2>5. RowsTyped BY AllRowsTyped DEF Inv
      <2>6. QED BY <2>3, <2>4, <2>5 DEF RowsTyped, Inv, Snapshot
<1>3. QED BY <1>2, Inductive, PTL DEF Spec, AnswerTrue

(***************************************************************************)
(* The refinement: every step of the layer is one of the ledger, or leaves *)
(* its counts alone.                                                       *)
(***************************************************************************)
LEMMA SameCounts == ASSUME \A r \in Rows : Sums(r)' = Sums(r) PROVE Counted' = Counted
BY DEF Counted, Sums

LEMMA CountedAt == ASSUME NEW r \in Rows
                   PROVE  Counted[r] = Sums(r) /\ Counted'[r] = Sums(r)'
BY DEF Counted, Sums

\* What the ledger allows a step to do to the counts.
Allowed ==
    \/ Counted' = Counted
    \/ /\ ~Room' \/ Process = "stopping" \/ Process' = "off"
       /\ \A r \in Rows : Counted'[r] \in 0..Counted[r]
    \/ /\ Process # "off"
       /\ \A r \in Rows :
             Counted'[r] \in (IF r[2] < now - Retention THEN 0 ELSE Counted[r])..Counted[r]
    \/ \E r \in Rows : Process # "off" /\ Counted' = [Counted EXCEPT ![r] = @ + 1]

LEMMA StepAllowed == ASSUME Bounds, Inv, [Next]_vars PROVE Allowed
<1> USE DEF Inv, Sums
<1>0. RowsTyped BY AllRowsTyped
<1>1. CASE UNCHANGED <<hot, flush, pending, store>> BY <1>1 DEF Allowed, Counted
<1>2. ASSUME NEW m \in Models, Record(m) PROVE Allowed
      <2> DEFINE row == <<m, now>>
      <2>1. row \in Rows /\ hot' = [hot EXCEPT ![row] = @ + 1] /\ hot \in [Rows -> Nat]
            /\ UNCHANGED <<flush, pending, store>>
            BY <1>2, RecordDoes DEF Typed, Counters
      <2>2. \A r \in Rows : hot'[r] = IF r = row THEN hot[r] + 1 ELSE hot[r] BY <2>1
      <2>3. \A r \in Rows : Counted'[r] = IF r = row THEN Counted[r] + 1 ELSE Counted[r]
            BY <1>0, <2>1, <2>2, CountedAt DEF RowsTyped
      <2>4. Counted' = [Counted EXCEPT ![row] = @ + 1] BY <2>1, <2>3 DEF Counted
      <2>5. Process # "off" BY <1>2, RecordDoes DEF Process, Typed, Modes
      <2>6. QED BY <2>1, <2>4, <2>5 DEF Allowed
<1>3. CASE Flush
      <2>1. flush'.drained \in Counters /\ hot' \in Counters BY <1>3, FlushDoes
      <2>2. \A r \in Rows : /\ flush.drained[r] = 0 /\ hot'[r] + flush'.drained[r] = hot[r]
                           /\ hot'[r] \in Nat /\ flush'.drained[r] \in Nat
                           /\ pending'[r] = pending[r] /\ store'[r] = store[r]
            BY <1>3, <2>1, FlushDoes DEF Counters
      <2>3. \A r \in Rows : Sums(r)' = Sums(r) BY <1>0, <2>2 DEF RowsTyped
      <2>4. QED BY <2>3, SameCounts DEF Allowed
<1>4. CASE Persisted
      <2>1. \A r \in Rows : flush'.drained[r] = 0 /\ pending'[r] = pending[r]
            BY <1>4, PersistedDoes, ZeroTyped
      <2>2. CASE \/ \A r \in Rows : hot'[r] = hot[r] /\ store'[r] = store[r] + flush.drained[r]
                 \/ \A r \in Rows : hot'[r] = hot[r] + flush.drained[r] /\ store'[r] = store[r]
            <3>1. \A r \in Rows : Sums(r)' = Sums(r) BY <1>0, <2>1, <2>2 DEF RowsTyped
            <3>2. QED BY <3>1, SameCounts DEF Allowed
      <2>3. CASE /\ \A r \in Rows : hot'[r] \in hot[r]..(hot[r] + flush.drained[r])
                                    /\ store'[r] = store[r]
                 /\ ~Room'
            <3>1. \A r \in Rows : Sums(r)' \in 0..Sums(r) BY <1>0, <2>1, <2>3 DEF RowsTyped
            <3>2. QED BY <2>3, <3>1, CountedAt DEF Allowed
      <2>4. QED BY <1>4, <2>2, <2>3, PersistedDoes
<1>5. CASE Retain
      <2>1. \A r \in Rows : /\ flush.drained[r] = 0 /\ flush'.drained[r] = 0
                           /\ hot'[r] = hot[r] /\ pending'[r] = pending[r]
                           /\ \/ store'[r] = store[r]
                              \/ store'[r] = 0 /\ ~(r[2] >= now - Retention)
            BY <1>5, RetainDoes, ZeroTyped DEF NoFlush
      <2>2. \A r \in Rows : r[2] \in Int BY DEF Rows, Buckets
      <2>3. now \in Int /\ Retention \in Int BY DEF Typed, Bounds
      <2>4. \A r \in Rows :
               Sums(r)' = Sums(r) \/ (Sums(r)' \in 0..Sums(r) /\ r[2] < now - Retention)
            BY <1>0, <2>1, <2>2, <2>3 DEF RowsTyped
      <2>5. \A r \in Rows : Sums(r) \in Nat BY <1>0 DEF RowsTyped
      <2>6. \A r \in Rows :
               Counted'[r] \in (IF r[2] < now - Retention THEN 0 ELSE Counted[r])..Counted[r]
            BY <2>4, <2>5, CountedAt
      <2>7. Process # "off" BY <1>5, RetainDoes DEF Process, Typed, Modes, Where
      <2>8. QED BY <2>6, <2>7 DEF Allowed
<1>6. CASE Shutdown
      <2>1. \A r \in Rows : /\ pending[r] = 0 /\ pending'[r] = hot[r] /\ hot'[r] = 0
                           /\ flush'.drained[r] = flush.drained[r] /\ store'[r] = store[r]
            BY <1>6, ShutdownDoes, ZeroTyped
      <2>2. \A r \in Rows : Sums(r)' = Sums(r) BY <1>0, <2>1 DEF RowsTyped
      <2>3. QED BY <2>2, SameCounts DEF Allowed
<1>7. CASE Closed
      <2>1. \A r \in Rows : /\ pending'[r] = 0 /\ hot'[r] = hot[r]
                           /\ flush'.drained[r] = flush.drained[r]
                           /\ store'[r] \in store[r]..(store[r] + pending[r])
            BY <1>7, ClosedDoes, ZeroTyped
      <2>2. \A r \in Rows : Sums(r)' \in 0..Sums(r) BY <1>0, <2>1 DEF RowsTyped
      <2>3. Process = "stopping" BY <1>7, ClosedDoes DEF Process
      <2>4. QED BY <2>2, <2>3, CountedAt DEF Allowed
<1>8. CASE Exit
      <2>1. \A r \in Rows : /\ pending'[r] = 0 /\ hot'[r] = 0 /\ flush'.drained[r] = 0
                           /\ store'[r] = store[r]
            BY <1>8, ZeroTyped DEF Exit, NoFlush
      <2>2. \A r \in Rows : Sums(r)' \in 0..Sums(r) BY <1>0, <2>1 DEF RowsTyped
      <2>3. Process' = "off" BY <1>8 DEF Exit, Process
      <2>4. QED BY <2>2, <2>3, CountedAt DEF Allowed
<1>9. QED BY <1>1, <1>2, <1>3, <1>4, <1>5, <1>6, <1>7, <1>8, QueryDoes, AnswerDoes
          DEF Next, Tick, Sent, Start, vars

LEMMA LedgerStep == ASSUME Bounds, Inv, [Next]_vars PROVE [Ledger!Next]_(Ledger!vars)
<1>1. now' \in now..MaxBucket
      <2>1. now \in 0..MaxBucket /\ MaxBucket \in Nat BY DEF Inv, Typed, Bounds
      <2>2. now' = now \/ (now' = now + 1 /\ now < MaxBucket)
            BY DEF Next, Tick, Record, Flush, Persisted, Retain, Query, Answer, Sent, Shutdown,
                   Closed, Exit, Start, vars
      <2>3. QED BY <2>1, <2>2
<1>2. (~Room)' \in BOOLEAN BY DEF Room
<1>3. Process' \in Ledger!Processes
      <2>1. mode' \in Modes BY TypedNext DEF Inv, Typed
      <2>2. QED BY <2>1 DEF Process, Modes, Ledger!Processes
<1>4. Allowed BY StepAllowed
<1>5. Rows = Ledger!Rows BY DEF Rows, Buckets, Ledger!Rows, Ledger!Buckets
<1>6. \/ UNCHANGED Counted \/ Ledger!Drop \/ Ledger!Expire
      \/ \E r \in Ledger!Rows : Ledger!Count(r)
      BY <1>4, <1>5 DEF Allowed, Ledger!Drop, Ledger!Expire, Ledger!Count
<1>7. QED BY <1>1, <1>2, <1>3, <1>6 DEF Ledger!Next

LEMMA LedgerInit == ASSUME Bounds, Init PROVE Ledger!Init
<1>1. Counted = [r \in Rows |-> 0] BY ZeroTyped DEF Init, Counted, NoFlush
<1>2. Room \in BOOLEAN BY DEF Room
<1>3. QED BY <1>1, <1>2
          DEF Init, Process, Ledger!Init, Ledger!Zero, Ledger!Rows, Ledger!Buckets, Rows, Buckets

\* A flush, failed or not, retention and a query count every outcome once: the layer
\* implements the ledger, which loses some only at the cap of the map and when a process
\* ends (services/uptime/service.ts:162).
THEOREM CountsLikeLedgerHolds == ASSUME Bounds PROVE Spec => CountsLikeLedger
<1>1. Init => Ledger!Init BY LedgerInit
<1>2. Inv /\ [Next]_vars => [Ledger!Next]_(Ledger!vars) BY LedgerStep
<1>3. QED BY <1>1, <1>2, Inductive, PTL DEF Spec, CountsLikeLedger, Ledger!Spec
=============================================================================
