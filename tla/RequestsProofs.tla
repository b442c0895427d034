--------------------------- MODULE RequestsProofs ---------------------------
(***************************************************************************)
(* The theorems of the components, stated of the composition that          *)
(* MCRequests checks: each behaviour of it is one of each component, with  *)
(* stuttering while another is at work.  The proofs about Database,        *)
(* UnaryRequest, Messages, Access and AdminAccess are here, about their    *)
(* instances; those about Uptime are a module of their own, whose theorems *)
(* come with an instance that has the definitions of the one in MCRequests *)
(* (the lemmas called Same...).                                            *)
(***************************************************************************)
EXTENDS MCRequests, CollectionsProofs, TLAPS

UpsProofs == INSTANCE UptimeProofs WITH Window <- UptimeWindow, store <- table

MCVars == <<component, messageVars, unaryVars, accessVars, adminVars, databaseVars, uptimeVars>>

(***************************************************************************)
(* Database, for every number of callers and calls.                        *)
(***************************************************************************)
AtWork(c) == call[c] \in {"begun", "half", "whole"}

\* The writes of its own a caller has behind it.
Behind(c) == IF call[c] = "half" THEN 1 ELSE IF call[c] = "whole" THEN 2 ELSE 0

StoreTypes ==
    /\ kind \in {"sqlite", "postgres"} /\ open \in BOOLEAN /\ calls \in 0..MaxCalls
    /\ call \in [Callers -> {Store!Idle, "waiting", "begun", "half", "whole"}]
    /\ stored \in [Callers -> Nat] /\ buffer \in [Callers -> [Callers -> Nat]]
    /\ told \in [Callers -> {"none", "lone", "done", "failed"}]

\* A caller that waits or works is alone with its writes: they are in its own buffer.
Alone(c) ==
    call[c] # Store!Idle =>
        /\ stored[c] = 0 /\ told[c] = "none" /\ buffer[c][c] = Behind(c)
        /\ \A o \in Callers \ {c} : buffer[o][c] = 0

\* A lone write may be on its way in another's transaction, in one only.
Carried(c) ==
    call[c] = Store!Idle =>
        \A o \in Callers : buffer[o][c] # 0 =>
            /\ buffer[o][c] = 1 /\ stored[c] = 0 /\ told[c] = "lone"
            /\ \A p \in Callers \ {o} : buffer[p][c] = 0

Told(c) ==
    /\ told[c] = "done" => stored[c] = 2
    /\ told[c] = "failed" => stored[c] = 0
    /\ stored[c] \in 0..2

Writes == \A c \in Callers : Alone(c) /\ Carried(c) /\ Told(c)

LEMMA NothingTyped == Store!Nothing \in [Callers -> Nat]
BY DEF Store!Nothing

LEMMA NothingThere == \A c \in Callers : Store!Nothing[c] = 0
BY DEF Store!Nothing

LEMMA StoreTypesInit == ASSUME MaxCalls \in Nat, Store!Init PROVE StoreTypes
<1>2. buffer \in [Callers -> [Callers -> Nat]] BY NothingTyped DEF Store!Init
<1>3. stored \in [Callers -> Nat] BY NothingTyped DEF Store!Init
<1>4. call \in [Callers -> {Store!Idle, "waiting", "begun", "half", "whole"}]
      BY DEF Store!Init
<1>5. told \in [Callers -> {"none", "lone", "done", "failed"}] BY DEF Store!Init
<1>6. kind \in {"sqlite", "postgres"} /\ open \in BOOLEAN BY DEF Store!Init
<1>7. calls \in 0..MaxCalls BY DEF Store!Init
<1>8. QED BY <1>2, <1>3, <1>4, <1>5, <1>6, <1>7 DEF StoreTypes

LEMMA StoreTypesNext ==
    ASSUME MaxCalls \in Nat, StoreTypes, [Store!Next]_(Store!vars) PROVE StoreTypes'
<1> USE DEF StoreTypes, Store!Idle
<1>1. ASSUME NEW c \in Callers, Store!Lone(c) PROVE StoreTypes'
      <2>1. calls' \in 0..MaxCalls BY <1>1 DEF Store!Lone, Store!Ask
      <2>2. stored' \in [Callers -> Nat] BY <1>1 DEF Store!Lone
      <2>3. buffer' \in [Callers -> [Callers -> Nat]]
            <3>1. ASSUME NEW o PROVE [buffer EXCEPT ![o][c] = 1] \in [Callers -> [Callers -> Nat]]
                  OBVIOUS
            <3>2. CASE open
                  <4>1. buffer' = [buffer EXCEPT ![Head(tail)][c] = 1]
                        BY <1>1, <3>2 DEF Store!Lone
                  <4>2. QED BY <4>1, <3>1
            <3>3. CASE ~open BY <1>1, <3>3 DEF Store!Lone
            <3>4. QED BY <3>2, <3>3
      <2>4. QED BY <1>1, <2>1, <2>2, <2>3 DEF Store!Lone, Store!Ask
<1>2. ASSUME NEW c \in Callers, Store!Enter(c) PROVE StoreTypes'
      BY <1>2 DEF Store!Enter, Store!Ask
<1>3. ASSUME NEW c \in Callers, Store!Begin(c) PROVE StoreTypes'
      BY <1>3 DEF Store!Begin
<1>4. ASSUME NEW c \in Callers, Store!BeginFails(c) PROVE StoreTypes'
      BY <1>4 DEF Store!BeginFails
<1>5. ASSUME NEW c \in Callers, Store!Write(c) PROVE StoreTypes'
      BY <1>5 DEF Store!Write
<1>6. ASSUME NEW c \in Callers, Store!Commit(c) PROVE StoreTypes'
      <2>1. buffer' \in [Callers -> [Callers -> Nat]]
            BY <1>6, NothingTyped DEF Store!Commit
      <2>2. stored' \in [Callers -> Nat] BY <1>6 DEF Store!Commit
      <2>3. QED BY <1>6, <2>1, <2>2 DEF Store!Commit
<1>7. ASSUME NEW c \in Callers, Store!Rollback(c) PROVE StoreTypes'
      <2>1. buffer' \in [Callers -> [Callers -> Nat]]
            BY <1>7, NothingTyped DEF Store!Rollback
      <2>2. QED BY <1>7, <2>1 DEF Store!Rollback
<1>8. CASE UNCHANGED Store!vars BY <1>8 DEF Store!vars
<1>9. QED BY <1>1, <1>2, <1>3, <1>4, <1>5, <1>6, <1>7, <1>8 DEF Store!Next, Store!Step

LEMMA WritesInit == ASSUME Store!Init PROVE Writes
<1> SUFFICES ASSUME NEW c \in Callers PROVE Alone(c) /\ Carried(c) /\ Told(c)
    BY DEF Writes
<1>1. call[c] = Store!Idle /\ told[c] = "none" BY DEF Store!Init
<1>2. stored[c] = 0 BY NothingThere DEF Store!Init
<1>3. \A o \in Callers : buffer[o][c] = 0 BY NothingThere DEF Store!Init
<1>4. QED BY <1>1, <1>2, <1>3 DEF Alone, Carried, Told

LEMMA WritesNext == ASSUME StoreTypes, Writes, [Store!Next]_(Store!vars) PROVE Writes'
<1> SUFFICES ASSUME NEW d \in Callers PROVE (Alone(d) /\ Carried(d) /\ Told(d))'
    BY DEF Writes
<1>0. Alone(d) /\ Carried(d) /\ Told(d) BY DEF Writes
<1> USE DEF StoreTypes, Store!Idle, Alone, Carried, Told, Behind
<1>1. ASSUME NEW c \in Callers, Store!Lone(c) PROVE (Alone(d) /\ Carried(d) /\ Told(d))'
      <2>1. call' = call /\ call[c] = Store!Idle /\ told' = [told EXCEPT ![c] = "lone"]
            /\ stored[c] = 0 /\ \A o \in Callers : buffer[o][c] = 0
            BY <1>1 DEF Store!Lone, Store!Ask
      <2>2. CASE open
            <3>1. stored' = stored /\ buffer' = [buffer EXCEPT ![Head(tail)][c] = 1]
                  BY <1>1, <2>2 DEF Store!Lone
            <3>2. CASE d # c
                  <4>1. \A o \in Callers : buffer'[o][d] = buffer[o][d]
                        BY <3>1, <3>2
                  <4>2. QED BY <1>0, <2>1, <3>1, <3>2, <4>1
            <3>3. CASE d = c
                  <4>1. \A o \in Callers : buffer'[o][c] = IF o = Head(tail) THEN 1 ELSE 0
                        BY <2>1, <3>1
                  <4>2. QED BY <1>0, <2>1, <3>1, <3>3, <4>1
            <3>4. QED BY <3>2, <3>3
      <2>3. CASE ~open
            BY <1>0, <1>1, <2>1, <2>3 DEF Store!Lone
      <2>4. QED BY <2>2, <2>3
<1>2. ASSUME NEW c \in Callers, Store!Enter(c) PROVE (Alone(d) /\ Carried(d) /\ Told(d))'
      BY <1>0, <1>2 DEF Store!Enter, Store!Ask
<1>3. ASSUME NEW c \in Callers, Store!Begin(c) PROVE (Alone(d) /\ Carried(d) /\ Told(d))'
      BY <1>0, <1>3 DEF Store!Begin
<1>4. ASSUME NEW c \in Callers, Store!BeginFails(c) PROVE (Alone(d) /\ Carried(d) /\ Told(d))'
      BY <1>0, <1>4 DEF Store!BeginFails
<1>5. ASSUME NEW c \in Callers, Store!Write(c) PROVE (Alone(d) /\ Carried(d) /\ Told(d))'
      BY <1>0, <1>5 DEF Store!Write
<1>6. ASSUME NEW c \in Callers, Store!Commit(c) PROVE (Alone(d) /\ Carried(d) /\ Told(d))'
      <2>1. CASE d # c BY <1>0, <1>6, <2>1, NothingThere DEF Store!Commit
      <2>2. CASE d = c BY <1>0, <1>6, <2>2, NothingThere DEF Store!Commit
      <2>3. QED BY <2>1, <2>2
<1>7. ASSUME NEW c \in Callers, Store!Rollback(c) PROVE (Alone(d) /\ Carried(d) /\ Told(d))'
      BY <1>0, <1>7, NothingThere DEF Store!Rollback
<1>8. CASE UNCHANGED Store!vars BY <1>0, <1>8 DEF Store!vars
<1>9. QED BY <1>1, <1>2, <1>3, <1>4, <1>5, <1>6, <1>7, <1>8 DEF Store!Next, Store!Step

(***************************************************************************)
(* The queue of SQLite: whoever is in it once, and only its head at work.  *)
(***************************************************************************)
Queued(c) == \E i \in 1..Len(tail) : tail[i] = c

Queue ==
    /\ tail \in Seq(Callers)
    /\ kind = "sqlite" =>
          /\ \A i, j \in 1..Len(tail) : tail[i] = tail[j] => i = j
          /\ \A c \in Callers : call[c] # Store!Idle <=> Queued(c)
          /\ \A c \in Callers : AtWork(c) => open /\ tail[1] = c
          /\ open => tail # <<>> /\ AtWork(tail[1])
    /\ kind = "postgres" => tail = <<>>

LEMMA QueueInit == ASSUME Store!Init PROVE Queue
BY DEF Store!Init, Queue, Queued, AtWork, Store!Idle

\* When the head of the queue leaves it, the others keep their order.
LEMMA HeadLeaves ==
    ASSUME StoreTypes, Queue, kind = "sqlite", kind' = kind, NEW c \in Callers,
           call[c] # Store!Idle,
           Head(tail) = c, tail' = Tail(tail), call' = [call EXCEPT ![c] = Store!Idle],
           ~open', \A d \in Callers \ {c} : ~AtWork(d)
    PROVE  Queue'
<1>0. /\ tail \in Seq(Callers)
      /\ \A i, j \in 1..Len(tail) : tail[i] = tail[j] => i = j
      /\ \A d \in Callers : call[d] # Store!Idle <=> Queued(d)
      BY DEF Queue
<1>1. Queued(c) BY <1>0
<1>2. tail # <<>> /\ Len(tail) \in Nat \ {0} BY <1>0, <1>1 DEF Queued
<1>3. tail[1] = c BY <1>0, <1>2
<1>4. tail' \in Seq(Callers) /\ Len(tail') = Len(tail) - 1
      /\ \A i \in 1..Len(tail') : tail'[i] = tail[i + 1]
      BY <1>0, <1>2
<1>5. \A i, j \in 1..Len(tail') : tail'[i] = tail'[j] => i = j
      BY <1>0, <1>2, <1>4
<1>6. ASSUME NEW d \in Callers PROVE call'[d] # Store!Idle <=> Queued(d)'
      <2>1. ASSUME NEW i \in 1..Len(tail'), tail'[i] = d PROVE d # c /\ Queued(d)
            <3>1. i + 1 \in 1..Len(tail) /\ tail[i + 1] = d BY <1>2, <1>4, <2>1
            <3>2. 1 \in 1..Len(tail) /\ i + 1 # 1 BY <1>2
            <3>3. QED BY <1>0, <1>3, <3>1, <3>2 DEF Queued
      <2>2. ASSUME NEW i \in 1..Len(tail), tail[i] = d, d # c PROVE Queued(d)'
            <3>1. i # 1 BY <1>3, <2>2
            <3>2. i - 1 \in 1..Len(tail') /\ (i - 1) + 1 = i BY <1>2, <1>4, <3>1
            <3>3. tail'[i - 1] = d BY <1>4, <2>2, <3>2
            <3>4. QED BY <3>2, <3>3 DEF Queued
      <2>3. Queued(d)' <=> Queued(d) /\ d # c BY <2>1, <2>2 DEF Queued
      <2>4. call'[d] # Store!Idle <=> call[d] # Store!Idle /\ d # c BY DEF StoreTypes
      <2>5. QED BY <1>0, <2>3, <2>4
<1>7. \A d \in Callers : ~AtWork(d)' BY DEF AtWork, StoreTypes, Store!Idle
<1>8. QED BY <1>4, <1>5, <1>6, <1>7 DEF Queue

LEMMA WorkerLeaves ==
    ASSUME StoreTypes, Queue, kind' = kind, NEW c \in Callers, AtWork(c), ~open',
           call' = [call EXCEPT ![c] = Store!Idle],
           tail' = IF kind = "sqlite" THEN Tail(tail) ELSE tail
    PROVE  Queue'
<1>1. CASE kind = "postgres" BY <1>1 DEF StoreTypes, Queue
<1>2. CASE kind = "sqlite"
      <2>1. call[c] # Store!Idle /\ open /\ tail[1] = c /\ tail' = Tail(tail)
            BY <1>2 DEF Queue, AtWork, Store!Idle
      <2>2. tail # <<>> BY <1>2, <2>1 DEF Queue
      <2>3. Head(tail) = c BY <2>1, <2>2 DEF Queue
      <2>4. \A d \in Callers \ {c} : ~AtWork(d) BY <1>2, <2>1 DEF Queue
      <2>5. QED BY <1>2, <2>1, <2>3, <2>4, HeadLeaves
<1>3. QED BY <1>1, <1>2 DEF StoreTypes

In(d, s) == \E i \in 1..Len(s) : s[i] = d

LEMMA Appended ==
    ASSUME NEW S, NEW s \in Seq(S), NEW c \in S
    PROVE  /\ Append(s, c) \in Seq(S) /\ Append(s, c) # <<>>
           /\ s # <<>> => Append(s, c)[1] = s[1]
           /\ \A d : In(d, Append(s, c)) <=> In(d, s) \/ d = c
<1>1. Append(s, c) \in Seq(S) /\ Len(s) \in Nat /\ Len(Append(s, c)) = Len(s) + 1
      /\ Append(s, c)[Len(s) + 1] = c /\ \A i \in 1..Len(s) : Append(s, c)[i] = s[i]
      OBVIOUS
<1>2. Append(s, c) # <<>> /\ (s # <<>> => Append(s, c)[1] = s[1]) BY <1>1
<1>3. ASSUME NEW d, NEW i \in 1..Len(Append(s, c)), Append(s, c)[i] = d
      PROVE  In(d, s) \/ d = c
      <2>1. i \in 1..Len(s) \/ i = Len(s) + 1 BY <1>1
      <2>2. QED BY <1>1, <1>3, <2>1 DEF In
<1>4. ASSUME NEW d, NEW i \in 1..Len(s), s[i] = d PROVE In(d, Append(s, c))
      <2>1. i \in 1..Len(Append(s, c)) BY <1>1
      <2>2. QED BY <1>1, <1>4, <2>1 DEF In
<1>5. In(c, Append(s, c))
      <2>1. Len(s) + 1 \in 1..Len(Append(s, c)) BY <1>1
      <2>2. QED BY <1>1, <2>1 DEF In
<1>6. QED BY <1>1, <1>2, <1>3, <1>4, <1>5 DEF In

LEMMA AppendedOnce ==
    ASSUME NEW S, NEW s \in Seq(S), NEW c \in S, \A i \in 1..Len(s) : s[i] # c,
           \A i, j \in 1..Len(s) : s[i] = s[j] => i = j
    PROVE  \A i, j \in 1..Len(Append(s, c)) : Append(s, c)[i] = Append(s, c)[j] => i = j
<1>1. Len(s) \in Nat /\ Len(Append(s, c)) = Len(s) + 1
      /\ Append(s, c)[Len(s) + 1] = c /\ \A i \in 1..Len(s) : Append(s, c)[i] = s[i]
      OBVIOUS
<1>2. \A i \in 1..Len(Append(s, c)) : i \in 1..Len(s) \/ i = Len(s) + 1 BY <1>1
<1>3. QED BY <1>1, <1>2

LEMMA QueueNext == ASSUME StoreTypes, Queue, [Store!Next]_(Store!vars) PROVE Queue'
<1> USE DEF StoreTypes, Queue, AtWork, Store!Idle
<1>1. ASSUME NEW c \in Callers, Store!Lone(c) PROVE Queue'
      <2>1. call' = call BY <1>1 DEF Store!Lone, Store!Ask
      <2>2. QED BY <1>1, <2>1 DEF Store!Lone, Queued
<1>2. ASSUME NEW c \in Callers, Store!Enter(c) PROVE Queue'
      <2>1. CASE kind = "postgres" BY <1>2, <2>1 DEF Store!Enter
      <2>2. CASE kind = "sqlite"
            <3>1. tail' = Append(tail, c) /\ kind' = kind /\ open' = open /\ call[c] = Store!Idle
                  /\ call' = [call EXCEPT ![c] = "waiting"]
                  BY <1>2, <2>2 DEF Store!Enter, Store!Ask
            <3>2. \A i \in 1..Len(tail) : tail[i] # c BY <2>2, <3>1 DEF Queued
            <3>3. tail' \in Seq(Callers) /\ tail' # <<>> /\ (tail # <<>> => tail'[1] = tail[1])
                  /\ \A d : In(d, tail') <=> In(d, tail) \/ d = c
                  BY <3>1, Appended
            <3>4. \A i, j \in 1..Len(tail') : tail'[i] = tail'[j] => i = j
                  <4>1. tail \in Seq(Callers) /\ \A i, j \in 1..Len(tail) : tail[i] = tail[j] => i = j
                        BY <2>2
                  <4>2. \A i, j \in 1..Len(Append(tail, c)) :
                            Append(tail, c)[i] = Append(tail, c)[j] => i = j
                        BY ONLY <3>2, <4>1, AppendedOnce, c \in Callers
                  <4>3. QED BY <3>1, <4>2
            <3>5. \A d \in Callers : Queued(d)' <=> Queued(d) \/ d = c
                  BY <3>3 DEF In, Queued
            <3>6. \A d \in Callers : (call[d] # Store!Idle <=> Queued(d))'
                  BY <2>2, <3>1, <3>5
            <3>7. \A d \in Callers : AtWork(d)' <=> AtWork(d) BY <3>1
            <3>8. \A d \in Callers : AtWork(d) => tail # <<>> BY <2>2
            <3>9. tail # <<>> => tail[1] \in Callers OBVIOUS
            <3>10. QED BY <2>2, <3>1, <3>3, <3>4, <3>6, <3>7, <3>8, <3>9
      <2>3. QED BY <2>1, <2>2
<1>3. ASSUME NEW c \in Callers, Store!Begin(c) PROVE Queue'
      <2>1. tail' = tail /\ kind' = kind /\ call[c] = "waiting"
            /\ call' = [call EXCEPT ![c] = "begun"]
            BY <1>3 DEF Store!Begin
      <2>2. CASE kind = "postgres" BY <2>1, <2>2
      <2>3. CASE kind = "sqlite"
            <3>1. Head(tail) = c /\ ~open /\ open' BY <1>3, <2>3 DEF Store!Begin, Store!MyTurn
            <3>2. Queued(c) BY <2>1, <2>3
            <3>3. tail # <<>> /\ tail[1] = c BY <3>1, <3>2 DEF Queued
            <3>4. \A d \in Callers : (call[d] # Store!Idle <=> Queued(d))'
                  BY <2>1, <2>3 DEF Queued
            <3>5. \A d \in Callers \ {c} : ~AtWork(d)' BY <2>1, <2>3, <3>1
            <3>6. QED BY <2>1, <2>3, <3>1, <3>3, <3>4, <3>5
      <2>4. QED BY <2>2, <2>3
<1>4. ASSUME NEW c \in Callers, Store!BeginFails(c) PROVE Queue'
      <2>1. CASE kind = "postgres" BY <1>4, <2>1 DEF Store!BeginFails, Store!Release
      <2>2. CASE kind = "sqlite"
            <3>1. Head(tail) = c /\ call[c] = "waiting" /\ tail' = Tail(tail)
                  BY <1>4, <2>2 DEF Store!BeginFails, Store!MyTurn, Store!Release
            <3>2. Queued(c) BY <2>2, <3>1
            <3>3. tail[1] = c BY <3>1, <3>2 DEF Queued
            <3>4. ~open BY <2>2, <3>1, <3>3
            <3>5. QED BY <1>4, <2>2, <3>1, <3>4, HeadLeaves DEF Store!BeginFails
      <2>3. QED BY <2>1, <2>2
<1>5. ASSUME NEW c \in Callers, Store!Write(c) PROVE Queue'
      <2>1. tail' = tail /\ kind' = kind /\ open' = open
            /\ \A d \in Callers : (call'[d] # Store!Idle <=> call[d] # Store!Idle)
                                   /\ (AtWork(d)' <=> AtWork(d))
            BY <1>5 DEF Store!Write
      <2>2. tail # <<>> => tail[1] \in Callers OBVIOUS
      <2>3. QED BY <2>1, <2>2 DEF Queued
<1>6. ASSUME NEW c \in Callers, Store!Commit(c) PROVE Queue'
      <2>1. AtWork(c) BY <1>6 DEF Store!Commit
      <2>2. kind' = kind /\ ~open' /\ call' = [call EXCEPT ![c] = Store!Idle]
            /\ Store!Release(TRUE)
            BY <1>6 DEF Store!Commit
      <2>3. QED BY <2>1, <2>2, WorkerLeaves DEF Store!Release
<1>7. ASSUME NEW c \in Callers, Store!Rollback(c) PROVE Queue'
      <2>1. AtWork(c) BY <1>7 DEF Store!Rollback
      <2>2. kind' = kind /\ ~open' /\ call' = [call EXCEPT ![c] = Store!Idle]
            /\ Store!Release(FALSE)
            BY <1>7 DEF Store!Rollback
      <2>3. QED BY <2>1, <2>2, WorkerLeaves DEF Store!Release
<1>8. CASE UNCHANGED Store!vars BY <1>8 DEF Store!vars, Queued
<1>9. QED BY <1>1, <1>2, <1>3, <1>4, <1>5, <1>6, <1>7, <1>8 DEF Store!Next, Store!Step

\* The state of Database keeps its types, for any callers and calls (services/database.ts:66).
THEOREM StoreTypeCorrect == ASSUME MaxCalls \in Nat PROVE Store!Spec => []Store!TypeOK
<1>1. Store!Init => StoreTypes /\ Writes /\ Queue BY StoreTypesInit, WritesInit, QueueInit
<1>2. StoreTypes /\ Writes /\ Queue /\ [Store!Next]_(Store!vars) => (StoreTypes /\ Writes /\ Queue)'
      BY StoreTypesNext, WritesNext, QueueNext
<1>3. StoreTypes /\ Writes /\ Queue => Store!TypeOK
      <2> SUFFICES ASSUME StoreTypes, Writes, Queue PROVE Store!TypeOK
          OBVIOUS
      <2>1. \A c \in Callers : stored[c] \in 0..2 BY DEF Writes, Told
      <2>2. ASSUME NEW o \in Callers, NEW c \in Callers PROVE buffer[o][c] \in 0..2
            <3>1. CASE call[c] # Store!Idle
                  <4>1. buffer[c][c] \in 0..2 /\ (o # c => buffer[o][c] = 0)
                        BY <3>1 DEF Writes, Alone, Behind
                  <4>2. QED BY <4>1
            <3>2. CASE call[c] = Store!Idle
                  <4>1. buffer[o][c] # 0 => buffer[o][c] = 1 BY <3>2 DEF Writes, Carried
                  <4>2. QED BY <4>1
            <3>3. QED BY <3>1, <3>2
      <2>3. stored \in [Callers -> 0..2] BY <2>1 DEF StoreTypes
      <2>4. buffer \in [Callers -> [Callers -> 0..2]] BY <2>2 DEF StoreTypes
      <2>5. QED BY <2>3, <2>4 DEF Store!TypeOK, StoreTypes, Queue
<1>4. QED BY <1>1, <1>2, <1>3, PTL DEF Store!Spec

\* A transaction is in the tables whole or not at all, whatever runs beside it
\* (services/database.ts:95).
THEOREM StoreAllOrNothing == ASSUME MaxCalls \in Nat PROVE Store!Spec => []Store!AllOrNothing
<1>1. Store!Init => StoreTypes /\ Writes BY StoreTypesInit, WritesInit
<1>2. StoreTypes /\ Writes /\ [Store!Next]_(Store!vars) => (StoreTypes /\ Writes)'
      BY StoreTypesNext, WritesNext
<1>3. Writes => Store!AllOrNothing BY DEF Writes, Alone, Told, Store!AllOrNothing
<1>4. QED BY <1>1, <1>2, <1>3, PTL DEF Store!Spec

\* On SQLite two transactions are never at work at once: the promise tail is a queue in
\* which a caller stands once, and only its head has begun (services/database.ts:96).
THEOREM OneAtATimeHolds ==
    ASSUME MaxCalls \in Nat
    PROVE  Store!Spec => [](kind = "sqlite" =>
                        \A c, d \in Callers : AtWork(c) /\ AtWork(d) => c = d)
<1>1. Store!Init => StoreTypes /\ Queue BY StoreTypesInit, QueueInit
<1>2. StoreTypes /\ Queue /\ [Store!Next]_(Store!vars) => (StoreTypes /\ Queue)'
      BY StoreTypesNext, QueueNext
<1>3. Queue => (kind = "sqlite" => \A c, d \in Callers : AtWork(c) /\ AtWork(d) => c = d)
      BY DEF Queue
<1>4. QED BY <1>1, <1>2, <1>3, PTL DEF Store!Spec

LEMMA StoreRefined == MCSpec => Store!Spec
<1>1. MCInit => Store!Init BY DEF MCInit
<1>2. [MCNext]_MCVars => [Store!Next]_(Store!vars)
      BY DEF MCNext, MCVars, Store!vars, databaseVars
<1>3. QED BY <1>1, <1>2, PTL DEF MCSpec, MCVars, Store!Spec

\* A transaction is in the tables whole or not at all, with any number of callers and
\* calls (services/database.ts:95).
THEOREM AllOrNothingHolds == ASSUME MaxCalls \in Nat PROVE MCSpec => []AllOrNothing
BY StoreRefined, StoreTypeCorrect, StoreAllOrNothing, PTL DEF AllOrNothing

(***************************************************************************)
(* UnaryRequest, for every number of attempts.                             *)
(***************************************************************************)
Outcomes == {"success", "failed"}

LEMMA OneMore ==
    ASSUME NEW S, NEW s \in Seq(S), NEW e \in S PROVE Append(s, e) \in Seq(S)
OBVIOUS

(***************************************************************************)
(* Types.  What is credited is bounded by the attempts made; the attempt   *)
(* that is on its way is not credited yet.                                 *)
(***************************************************************************)
Flags ==
    /\ route \in {"image", "embedding"} /\ uPhase \in Unary!Phases /\ answer \in Unary!Answers
    /\ uFaults \subseteq {"failed", "lost", "credit"}
    /\ unread \in BOOLEAN /\ uActive \in BOOLEAN /\ uForgotten \in BOOLEAN

Counts ==
    /\ uAttempts \in 0..UnaryAttempts /\ credited \in 0..uAttempts
    /\ uPhase \in {"calling", "crediting"} => credited < uAttempts

Logs ==
    /\ uEnds \in Seq(Outcomes) /\ uSamples \in Seq(Outcomes)
    /\ uErrorRows = IF answer = "error" THEN 1 ELSE 0
    /\ answer # "none" => uPhase = "done"

LEMMA UnaryTypesInit == ASSUME UnaryAttempts \in Nat, Unary!Init PROVE Flags /\ Counts /\ Logs
<1>1. Flags BY DEF Unary!Init, Flags, Unary!Phases, Unary!Answers
<1>2. Counts BY DEF Unary!Init, Counts
<1>3. Logs
      <2>1. uEnds \in Seq(Outcomes) /\ uSamples \in Seq(Outcomes) BY DEF Unary!Init
      <2>2. QED BY <2>1 DEF Unary!Init, Logs
<1>4. QED BY <1>1, <1>2, <1>3

LEMMA FlagsNext == ASSUME Flags, [Unary!Next]_(Unary!vars) PROVE Flags'
<1> USE DEF Flags, Unary!Phases, Unary!Answers, Unary!callVars, Unary!logVars
<1>1. CASE Unary!Admit BY <1>1 DEF Unary!Admit
<1>2. CASE Unary!Start BY <1>2 DEF Unary!Start
<1>3. CASE Unary!Attempt BY <1>3 DEF Unary!Attempt, Unary!Posted, Unary!Unprepared
<1>4. CASE Unary!Responds BY <1>4 DEF Unary!Responds
<1>5. CASE Unary!Credit BY <1>5 DEF Unary!Credit
<1>6. CASE Unary!Route BY <1>6 DEF Unary!Route
<1>7. CASE Unary!LogSuccess
      BY <1>7 DEF Unary!LogSuccess, Unary!Logged, Unary!RowWritten, Unary!RowFails
<1>8. CASE Unary!LogFailure
      BY <1>8 DEF Unary!LogFailure, Unary!Logged, Unary!RowWritten, Unary!RowFails
<1>9. CASE Unary!Persist BY <1>9 DEF Unary!Persist
<1>10. CASE Unary!Cleanup BY <1>10 DEF Unary!Cleanup
<1>11. CASE UNCHANGED Unary!vars BY <1>11 DEF Unary!vars
<1>12. QED BY <1>1, <1>2, <1>3, <1>4, <1>5, <1>6, <1>7, <1>8, <1>9, <1>10, <1>11
           DEF Unary!Next, Unary!HandlerStep

LEMMA CountsNext ==
    ASSUME UnaryAttempts \in Nat, Flags, Counts, [Unary!Next]_(Unary!vars) PROVE Counts'
<1> USE DEF Flags, Counts, Unary!callVars
<1>1. CASE Unary!Admit BY <1>1 DEF Unary!Admit
<1>2. CASE Unary!Start BY <1>2 DEF Unary!Start
<1>3. CASE Unary!Attempt BY <1>3 DEF Unary!Attempt, Unary!Posted, Unary!Unprepared
<1>4. CASE Unary!Responds BY <1>4 DEF Unary!Responds
<1>5. CASE Unary!Credit BY <1>5 DEF Unary!Credit
<1>6. CASE Unary!Route BY <1>6 DEF Unary!Route
<1>7. CASE Unary!LogSuccess BY <1>7 DEF Unary!LogSuccess
<1>8. CASE Unary!LogFailure BY <1>8 DEF Unary!LogFailure
<1>9. CASE Unary!Persist BY <1>9 DEF Unary!Persist
<1>10. CASE Unary!Cleanup BY <1>10 DEF Unary!Cleanup
<1>11. CASE UNCHANGED Unary!vars BY <1>11 DEF Unary!vars
<1>12. QED BY <1>1, <1>2, <1>3, <1>4, <1>5, <1>6, <1>7, <1>8, <1>9, <1>10, <1>11
           DEF Unary!Next, Unary!HandlerStep

LEMMA LogsNext == ASSUME Flags, Logs, [Unary!Next]_(Unary!vars) PROVE Logs'
<1> USE DEF Logs, Unary!logVars
<1>1. CASE Unary!Admit BY <1>1 DEF Unary!Admit
<1>2. CASE Unary!Start BY <1>2 DEF Unary!Start
<1>3. CASE Unary!Attempt BY <1>3 DEF Unary!Attempt
<1>4. CASE Unary!Responds BY <1>4 DEF Unary!Responds
<1>5. CASE Unary!Credit BY <1>5 DEF Unary!Credit
<1>6. CASE Unary!Route BY <1>6 DEF Unary!Route
<1>7. CASE Unary!LogSuccess
      <2>1. uEnds' \in Seq(Outcomes) /\ uSamples' \in Seq(Outcomes)
            BY <1>7, OneMore
            DEF Unary!LogSuccess, Unary!Logged, Unary!RowWritten, Unary!RowFails, Outcomes
      <2>2. QED BY <1>7, <2>1 DEF Unary!LogSuccess
<1>8. CASE Unary!LogFailure
      <2>1. uEnds' \in Seq(Outcomes) /\ uSamples' \in Seq(Outcomes)
            BY <1>8, OneMore
            DEF Unary!LogFailure, Unary!Logged, Unary!RowWritten, Unary!RowFails, Outcomes
      <2>2. QED BY <1>8, <2>1 DEF Unary!LogFailure
<1>9. CASE Unary!Persist BY <1>9 DEF Unary!Persist
<1>10. CASE Unary!Cleanup BY <1>10 DEF Unary!Cleanup, Unary!Stopped
<1>11. CASE UNCHANGED Unary!vars BY <1>11 DEF Unary!vars
<1>12. QED BY <1>1, <1>2, <1>3, <1>4, <1>5, <1>6, <1>7, <1>8, <1>9, <1>10, <1>11
           DEF Unary!Next, Unary!HandlerStep

(***************************************************************************)
(* What the log holds at each place of the handler.  An entry that is not  *)
(* active any more was forgotten by the cleanup, or has its one row.       *)
(***************************************************************************)
Trying == {"starting", "selecting", "calling", "crediting", "routing", "logging"}

Closed(outcome) ==
    \/ uEnds = <<outcome>> /\ uSamples = <<outcome>>
    \/ uEnds = <<>> /\ uSamples = <<>> /\ uForgotten

Story ==
    /\ uPhase = "checking" => uAttempts = 0 /\ uEnds = <<>> /\ uSamples = <<>>
    /\ uPhase \in Trying => uEnds = <<>> /\ uSamples = <<>> /\ (uActive \/ uForgotten)
    /\ uPhase = "failing" => /\ uSamples = <<>> /\ (uActive \/ uForgotten)
                             /\ uFaults = {} => uEnds = <<>>
    /\ uPhase = "persisting" /\ uFaults = {} => Closed("failed")
    /\ answer = "error" /\ uFaults = {} => Closed("failed")
    /\ answer = "body" => Closed("success")
    /\ answer \in {"refused", "invalid"} => uEnds = <<>> /\ uAttempts = 0

LEMMA StoryInit == ASSUME Unary!Init PROVE Story
BY DEF Unary!Init, Story, Trying

LEMMA StoryNext == ASSUME Flags, Logs, Story, [Unary!Next]_(Unary!vars) PROVE Story'
<1> USE DEF Flags, Logs, Story, Trying, Unary!callVars, Unary!logVars
<1>1. CASE Unary!Admit BY <1>1 DEF Unary!Admit
<1>2. CASE Unary!Start BY <1>2 DEF Unary!Start
<1>3. CASE Unary!Attempt BY <1>3 DEF Unary!Attempt, Unary!Posted, Unary!Unprepared
<1>4. CASE Unary!Responds BY <1>4 DEF Unary!Responds
<1>5. CASE Unary!Credit BY <1>5 DEF Unary!Credit
<1>6. CASE Unary!Route BY <1>6 DEF Unary!Route
<1>7. CASE Unary!LogSuccess
      <2>1. uEnds = <<>> /\ uSamples = <<>> /\ (uActive \/ uForgotten) /\ uForgotten' = uForgotten
            BY <1>7 DEF Unary!LogSuccess
      <2>2. CASE Unary!Logged("success") /\ uPhase' = "done" /\ answer' = "body"
            <3>1. Closed("success")' BY <2>1, <2>2 DEF Closed, Unary!Logged, Unary!RowWritten
            <3>2. QED BY <2>2, <3>1
      <2>3. CASE uActive /\ Unary!RowFails("success") /\ uPhase' = "failing" /\ UNCHANGED answer
            BY <1>7, <2>1, <2>3 DEF Unary!LogSuccess, Unary!RowFails
      <2>4. QED BY <1>7, <2>2, <2>3 DEF Unary!LogSuccess
<1>8. CASE Unary!LogFailure
      <2>1. uSamples = <<>> /\ (uActive \/ uForgotten) /\ (uFaults = {} => uEnds = <<>>)
            /\ uForgotten' = uForgotten /\ answer' = answer /\ answer = "none"
            BY <1>8 DEF Unary!LogFailure
      <2>2. CASE Unary!Logged("failed") /\ uPhase' = "persisting"
            <3>1. uFaults' = uFaults BY <2>2 DEF Unary!Logged, Unary!RowWritten
            <3>2. uFaults = {} => Closed("failed")'
                  BY <2>1, <2>2 DEF Closed, Unary!Logged, Unary!RowWritten
            <3>3. QED BY <2>1, <2>2, <3>1, <3>2
      <2>3. CASE uActive /\ Unary!RowFails("failed") /\ uPhase' = "rejected"
            BY <2>1, <2>3
      <2>4. QED BY <1>8, <2>2, <2>3 DEF Unary!LogFailure
<1>9. CASE Unary!Persist BY <1>9 DEF Unary!Persist, Closed
<1>10. CASE Unary!Cleanup BY <1>10 DEF Unary!Cleanup, Unary!Stopped, Closed
<1>11. CASE UNCHANGED Unary!vars BY <1>11 DEF Unary!vars, Closed
<1>12. QED BY <1>1, <1>2, <1>3, <1>4, <1>5, <1>6, <1>7, <1>8, <1>9, <1>10, <1>11
           DEF Unary!Next, Unary!HandlerStep

(***************************************************************************)
(* A credit leads to the log, unless it failed or nothing could be read.   *)
(***************************************************************************)
Paid ==
    ~unread /\ "credit" \notin uFaults =>
        credited \in IF uPhase \in {"logging", "failing", "persisting", "done", "rejected"}
                     THEN {0, 1} ELSE {0}

LEMMA PaidInit == ASSUME Unary!Init PROVE Paid
BY DEF Unary!Init, Paid

LEMMA PaidNext == ASSUME Flags, Paid, [Unary!Next]_(Unary!vars) PROVE Paid'
<1> USE DEF Flags, Unary!Phases, Paid, Unary!callVars, Unary!logVars
<1>1. CASE Unary!Admit BY <1>1 DEF Unary!Admit
<1>2. CASE Unary!Start BY <1>2 DEF Unary!Start
<1>3. CASE Unary!Attempt BY <1>3 DEF Unary!Attempt, Unary!Posted, Unary!Unprepared
<1>4. CASE Unary!Responds BY <1>4 DEF Unary!Responds
<1>5. CASE Unary!Credit BY <1>5 DEF Unary!Credit
<1>6. CASE Unary!Route BY <1>6 DEF Unary!Route
<1>7. CASE Unary!LogSuccess
      BY <1>7 DEF Unary!LogSuccess, Unary!Logged, Unary!RowWritten, Unary!RowFails
<1>8. CASE Unary!LogFailure
      BY <1>8 DEF Unary!LogFailure, Unary!Logged, Unary!RowWritten, Unary!RowFails
<1>9. CASE Unary!Persist BY <1>9 DEF Unary!Persist
<1>10. CASE Unary!Cleanup BY <1>10 DEF Unary!Cleanup
<1>11. CASE UNCHANGED Unary!vars BY <1>11 DEF Unary!vars
<1>12. QED BY <1>1, <1>2, <1>3, <1>4, <1>5, <1>6, <1>7, <1>8, <1>9, <1>10, <1>11
           DEF Unary!Next, Unary!HandlerStep

\* The state of UnaryRequest keeps its types, for any number of attempts (routes/images.ts:97).
THEOREM UnaryTypeCorrect == ASSUME UnaryAttempts \in Nat PROVE Unary!Spec => []Unary!TypeOK
<1>1. Unary!Init => Flags /\ Counts /\ Logs BY UnaryTypesInit
<1>2. Flags /\ Counts /\ Logs /\ [Unary!Next]_(Unary!vars) => (Flags /\ Counts /\ Logs)'
      BY FlagsNext, CountsNext, LogsNext
<1>3. Flags /\ Counts /\ Logs => Unary!TypeOK BY DEF Flags, Counts, Logs, Outcomes, Unary!TypeOK
<1>4. QED BY <1>1, <1>2, <1>3, PTL DEF Unary!Spec

\* An answer and its log row agree, whatever fails and whenever the cleanup runs
\* (routes/images.ts:140, routes/embeddings.ts:169).
THEOREM UnaryAnsweredAsLogged ==
    ASSUME UnaryAttempts \in Nat
    PROVE  Unary!Spec => []Unary!AnsweredAsLogged
<1>1. Unary!Init => Flags /\ Logs /\ Story BY UnaryTypesInit, StoryInit
<1>2. Flags /\ Logs /\ Story /\ [Unary!Next]_(Unary!vars) => (Flags /\ Logs /\ Story)'
      BY FlagsNext, LogsNext, StoryNext
<1>3. Logs /\ Story => Unary!AnsweredAsLogged
      BY DEF Logs, Story, Closed, Unary!AnsweredAsLogged
<1>4. QED BY <1>1, <1>2, <1>3, PTL DEF Unary!Spec

\* A generation that was credited is not bought again, but behind a credit that failed
\* itself or an embedding nobody could read (routes/images.ts:216).
THEOREM PaidOnceHolds == ASSUME UnaryAttempts \in Nat PROVE Unary!Spec => []Unary!PaidOnce
<1>1. Unary!Init => Flags /\ Paid BY UnaryTypesInit, PaidInit
<1>2. Flags /\ Paid /\ [Unary!Next]_(Unary!vars) => (Flags /\ Paid)' BY FlagsNext, PaidNext
<1>3. Paid => Unary!PaidOnce BY DEF Paid, Unary!PaidOnce
<1>4. QED BY <1>1, <1>2, <1>3, PTL DEF Unary!Spec

LEMMA UnaryRefined == MCSpec => Unary!Spec
<1>1. MCInit => Unary!Init BY DEF MCInit
<1>2. [MCNext]_MCVars => [Unary!Next]_(Unary!vars)
      BY DEF MCNext, MCVars, Unary!vars, Unary!logVars, Unary!callVars, unaryVars
<1>3. QED BY <1>1, <1>2, PTL DEF MCSpec, MCVars, Unary!Spec

\* An answer and its log row agree, and a credited generation is not bought again, with
\* any number of attempts (routes/images.ts:140, routes/embeddings.ts:169).
THEOREM AnsweredAsLoggedHolds ==
    ASSUME UnaryAttempts \in Nat PROVE MCSpec => []AnsweredAsLogged
BY UnaryRefined, UnaryTypeCorrect, UnaryAnsweredAsLogged, PaidOnceHolds, PTL DEF AnsweredAsLogged

(***************************************************************************)
(* Messages, for every number of attempts and events.                      *)
(***************************************************************************)
(* Types.                                                                  *)
(***************************************************************************)
RouteFlags ==
    /\ phase \in Route!Phases /\ error \in Route!Errors /\ upstream \in {"none", "open", "closed"}
    /\ faults \subseteq {"failed", "lost"} /\ errorRows \subseteq Route!Errors
    /\ streaming \in BOOLEAN /\ ended \in BOOLEAN /\ gone \in BOOLEAN
    /\ left \in BOOLEAN /\ active \in BOOLEAN /\ forgotten \in BOOLEAN

Records ==
    /\ attempts \in 0..MessageAttempts
    /\ phase \in {"requesting", "reading", "consuming", "settling", "recording", "logged"}
          => attempts \in 1..MessageAttempts
    /\ response \in Seq(Route!Frames)
    /\ tasks \in [1..MessageAttempts -> Route!TaskStates]
    /\ ends \in Seq(Outcomes) /\ samples \in Seq(Outcomes)

LEMMA RouteTypesInit == ASSUME MessageAttempts \in Nat, Route!Init PROVE RouteFlags /\ Records
<1>1. RouteFlags BY DEF Route!Init, RouteFlags, Route!Phases, Route!Errors
<1>2. response \in Seq(Route!Frames) /\ ends \in Seq(Outcomes) /\ samples \in Seq(Outcomes)
      BY DEF Route!Init
<1>3. tasks \in [1..MessageAttempts -> Route!TaskStates] BY DEF Route!Init, Route!TaskStates
<1>4. Records BY <1>2, <1>3 DEF Route!Init, Records
<1>5. QED BY <1>1, <1>4

\* What the departure of a client does, at each phase.
LEMMA Leaving ==
    ASSUME Route!ClientLeaves
    PROVE  /\ gone' = TRUE
           /\ UNCHANGED <<streaming, attempts, tasks>> /\ UNCHANGED <<response, ended>>
           /\ UNCHANGED <<active, ends, samples>> /\ UNCHANGED <<errorRows, faults, forgotten>>
           /\ \/ UNCHANGED <<left, phase, error, upstream>>
              \/ /\ Route!Attached /\ left' = TRUE
                 /\ upstream' = IF upstream = "open" THEN "closed" ELSE upstream
                 /\ \/ phase \in {"requesting", "reading"} /\ error' = "abort" /\ phase' = "failing"
                    \/ phase = "consuming" /\ error' = "abort" /\ phase' = "settling"
                    \/ phase \notin {"requesting", "reading", "consuming"}
                          /\ UNCHANGED <<phase, error>>
<1> USE DEF Route!sentVars, Route!logVars, Route!rareVars
<1>1. CASE ~Route!Attached \/ ended BY <1>1 DEF Route!ClientLeaves
<1>2. CASE ~(~Route!Attached \/ ended)
      <2>1. CASE phase \in {"requesting", "reading"} BY <1>2, <2>1 DEF Route!ClientLeaves
      <2>2. CASE phase = "consuming" BY <1>2, <2>2 DEF Route!ClientLeaves
      <2>3. CASE phase \notin {"requesting", "reading", "consuming"}
            BY <1>2, <2>3 DEF Route!ClientLeaves
      <2>4. QED BY <2>1, <2>2, <2>3
<1>3. QED BY <1>1, <1>2

LEMMA RouteFlagsNext == ASSUME RouteFlags, [Route!Next]_(Route!vars) PROVE RouteFlags'
<1> USE
      DEF RouteFlags, Route!upVars, Route!sentVars, Route!clientVars, Route!logVars,
          Route!rareVars
<1>1. CASE Route!Start BY <1>1 DEF Route!Start, Route!Phases
<1>2. CASE Route!Attempt
      BY <1>2 DEF Route!Attempt, Route!Post, Route!Caught, Route!Throw, Route!Phases, Route!Errors
<1>3. CASE Route!Route BY <1>3 DEF Route!Route, Route!Phases, Route!Errors
<1>4. CASE Route!Settled
      BY <1>4 DEF Route!Settled, Route!Caught, Route!Throw, Route!Phases, Route!Errors
<1>5. CASE Route!Record
      BY <1>5 DEF Route!Record, Route!Caught, Route!Throw, Route!Phases, Route!Errors
<1>6. CASE Route!LogAnswer
      BY <1>6
            DEF Route!LogAnswer, Route!RowWritten, Route!RowFails, Route!Throw, Route!Phases,
                Route!Errors
<1>7. CASE Route!LogFailure
      BY <1>7 DEF Route!LogFailure, Route!RowWritten, Route!RowFails, Route!Phases
<1>8. CASE Route!Persist BY <1>8 DEF Route!Persist, Route!Phases
<1>9. CASE Route!Answer BY <1>9 DEF Route!Answer, Route!Phases
<1>10. ASSUME NEW a \in 1..MessageAttempts, Route!Task(a) PROVE RouteFlags'
       BY <1>10 DEF Route!Task, Route!RowWritten, Route!RowFails
<1>11. CASE Route!Responds
      BY <1>11 DEF Route!Responds, Route!Caught, Route!Throw, Route!Phases, Route!Errors
<1>12. CASE Route!ErrorBodyRead
      BY <1>12 DEF Route!ErrorBodyRead, Route!Caught, Route!Throw, Route!Phases, Route!Errors
<1>13. CASE Route!Event BY <1>13 DEF Route!Event
<1>14. CASE Route!StreamFails BY <1>14 DEF Route!StreamFails, Route!Phases, Route!Errors
<1>15. CASE Route!StreamEnds BY <1>15 DEF Route!StreamEnds, Route!Phases
<1>16. CASE Route!ClientLeaves
      <2>1. /\ streaming' = streaming /\ ended' = ended /\ active' = active
            /\ forgotten' = forgotten /\ errorRows' = errorRows /\ faults' = faults
            /\ gone' = TRUE
            BY <1>16, Leaving
      <2>2. left' \in BOOLEAN /\ upstream' \in {"none", "open", "closed"}
            BY <1>16, Leaving
      <2>3. phase' \in Route!Phases /\ error' \in Route!Errors
            BY <1>16, Leaving DEF Route!Phases, Route!Errors
      <2>4. QED BY <2>1, <2>2, <2>3
<1>17. CASE Route!Cleanup BY <1>17 DEF Route!Cleanup
<1>18. CASE UNCHANGED Route!vars BY <1>18 DEF Route!vars
<1>19. QED BY <1>1, <1>2, <1>3, <1>4, <1>5, <1>6, <1>7, <1>8, <1>9, <1>10, <1>11, <1>12,
              <1>13, <1>14, <1>15, <1>16, <1>17, <1>18
           DEF Route!Next, Route!HandlerStep, Route!TaskStep, Route!UpstreamStep

LEMMA FramesTyped ==
    ASSUME attempts \in 0..MessageAttempts, NEW k \in {"event", "stop", "error", "body", "errorBody"}
    PROVE  Route!Frame(k) \in Route!Frames
BY DEF Route!Frame, Route!Frames

LEMMA LastFramesTyped ==
    ASSUME attempts \in 0..MessageAttempts
    PROVE  /\ Route!LastFrames \in Seq(Route!Frames)
           /\ \/ Route!LastFrames = <<>> /\ (error = "abort" \/ ended)
              \/ Route!LastFrames = <<Route!Frame("errorBody")>>
              \/ Route!LastFrames = <<Route!Frame("error")>>
<1>1. CASE error = "abort" \/ ended BY <1>1 DEF Route!LastFrames, Route!HeadersSent
<1>2. CASE error # "abort" /\ ~ended /\ ~Route!HeadersSent
      BY <1>2, FramesTyped DEF Route!LastFrames
<1>3. CASE error # "abort" /\ ~ended /\ Route!HeadersSent
      <2>1. Route!LastFrames = <<Route!Frame("error")>> BY <1>3 DEF Route!LastFrames
      <2>2. QED BY <2>1, FramesTyped
<1>4. QED BY <1>1, <1>2, <1>3

LEMMA RecordsNext ==
    ASSUME MessageAttempts \in Nat, RouteFlags, Records, [Route!Next]_(Route!vars) PROVE Records'
<1> USE DEF Records, Route!upVars, Route!sentVars, Route!clientVars, Route!logVars, Route!rareVars
<1>1. CASE Route!Start BY <1>1 DEF Route!Start
<1>2. CASE Route!Attempt BY <1>2 DEF Route!Attempt, Route!Post, Route!Caught, Route!Throw
<1>3. CASE Route!Route BY <1>3 DEF Route!Route
<1>4. CASE Route!Settled BY <1>4 DEF Route!Settled, Route!Caught, Route!Throw
<1>5. CASE Route!Record BY <1>5 DEF Route!Record, Route!Caught, Route!Throw
<1>6. CASE Route!LogAnswer
      <2>1. ends' \in Seq(Outcomes) /\ samples' \in Seq(Outcomes)
            BY <1>6, OneMore DEF Route!LogAnswer, Route!RowWritten, Route!RowFails, Outcomes
      <2>2. response' \in Seq(Route!Frames)
            BY <1>6, OneMore, FramesTyped DEF Route!LogAnswer
      <2>3. phase' \in {"done", "failing", "noting"} BY <1>6 DEF Route!LogAnswer, Route!Throw
      <2>4. QED BY <1>6, <2>1, <2>2, <2>3 DEF Route!LogAnswer
<1>7. CASE Route!LogFailure
      <2>1. ends' \in Seq(Outcomes) /\ samples' \in Seq(Outcomes)
            BY <1>7, OneMore DEF Route!LogFailure, Route!RowWritten, Route!RowFails, Outcomes
      <2>2. phase' \in {"answering", "persisting", "rejected"} BY <1>7 DEF Route!LogFailure
      <2>3. QED BY <1>7, <2>1, <2>2 DEF Route!LogFailure
<1>8. CASE Route!Persist BY <1>8 DEF Route!Persist
<1>9. CASE Route!Answer
      <2>1. response' \in Seq(Route!Frames) BY <1>9, LastFramesTyped DEF Route!Answer
      <2>2. QED BY <1>9, <2>1 DEF Route!Answer
<1>10. ASSUME NEW a \in 1..MessageAttempts, Route!Task(a) PROVE Records'
      <2>1. ends' \in Seq(Outcomes) /\ samples' \in Seq(Outcomes)
            BY <1>10, OneMore DEF Route!Task, Route!RowWritten, Route!RowFails, Outcomes
      <2>2. tasks' \in [1..MessageAttempts -> Route!TaskStates]
            BY <1>10 DEF Route!Task, Route!TaskStates
      <2>3. QED BY <1>10, <2>1, <2>2 DEF Route!Task
<1>11. CASE Route!Responds BY <1>11 DEF Route!Responds, Route!Caught, Route!Throw
<1>12. CASE Route!ErrorBodyRead BY <1>12 DEF Route!ErrorBodyRead, Route!Caught, Route!Throw
<1>13. CASE Route!Event
      <2>1. response' \in Seq(Route!Frames) BY <1>13, OneMore, FramesTyped DEF Route!Event
      <2>2. QED BY <1>13, <2>1 DEF Route!Event
<1>14. CASE Route!StreamFails BY <1>14 DEF Route!StreamFails
<1>15. CASE Route!StreamEnds
      <2>1. tasks' \in [1..MessageAttempts -> Route!TaskStates]
            BY <1>15 DEF Route!StreamEnds, Route!TaskStates
      <2>2. QED BY <1>15, <2>1 DEF Route!StreamEnds
<1>16. CASE Route!ClientLeaves BY <1>16, Leaving
<1>17. CASE Route!Cleanup BY <1>17 DEF Route!Cleanup
<1>18. CASE UNCHANGED Route!vars BY <1>18 DEF Route!vars
<1>19. QED BY <1>1, <1>2, <1>3, <1>4, <1>5, <1>6, <1>7, <1>8, <1>9, <1>10, <1>11, <1>12,
              <1>13, <1>14, <1>15, <1>16, <1>17, <1>18
           DEF Route!Next, Route!HandlerStep, Route!TaskStep, Route!UpstreamStep

(***************************************************************************)
(* Where the handler can be with its client gone, or its upstream open.    *)
(***************************************************************************)
Path ==
    /\ left => /\ streaming
               /\ phase \notin {"starting", "requesting", "reading", "consuming", "logged"}
    /\ error = "abort" /\ phase \in {"failing", "persisting", "answering"} => left
    /\ upstream = "open" => phase \in {"reading", "consuming"}
    /\ phase = "logged" => ~streaming
    /\ phase \in {"reading", "consuming", "settling"} => streaming
    /\ phase = "settling" => error = "upstream" \/ left
    /\ phase = "noting" => error # "abort"

LEMMA PathInit == ASSUME Route!Init PROVE Path
BY DEF Route!Init, Path

LEMMA PathNext == ASSUME RouteFlags, Path, [Route!Next]_(Route!vars) PROVE Path'
<1> USE
      DEF RouteFlags, Path, Route!upVars, Route!sentVars, Route!clientVars, Route!logVars,
          Route!rareVars
<1>1. CASE Route!Start BY <1>1 DEF Route!Start
<1>2. CASE Route!Attempt BY <1>2 DEF Route!Attempt, Route!Post, Route!Caught, Route!Throw
<1>3. CASE Route!Route BY <1>3 DEF Route!Route
<1>4. CASE Route!Settled BY <1>4 DEF Route!Settled, Route!Caught, Route!Throw
<1>5. CASE Route!Record BY <1>5 DEF Route!Record, Route!Caught, Route!Throw
<1>6. CASE Route!LogAnswer BY <1>6 DEF Route!LogAnswer, Route!Throw
<1>7. CASE Route!LogFailure BY <1>7 DEF Route!LogFailure
<1>8. CASE Route!Persist BY <1>8 DEF Route!Persist
<1>9. CASE Route!Answer BY <1>9 DEF Route!Answer
<1>10. ASSUME NEW a \in 1..MessageAttempts, Route!Task(a) PROVE Path' BY <1>10 DEF Route!Task
<1>11. CASE Route!Responds BY <1>11 DEF Route!Responds, Route!Caught, Route!Throw
<1>12. CASE Route!ErrorBodyRead BY <1>12 DEF Route!ErrorBodyRead, Route!Caught, Route!Throw
<1>13. CASE Route!Event BY <1>13 DEF Route!Event
<1>14. CASE Route!StreamFails BY <1>14 DEF Route!StreamFails
<1>15. CASE Route!StreamEnds BY <1>15 DEF Route!StreamEnds
<1>16. CASE Route!ClientLeaves
      <2>1. streaming' = streaming BY <1>16, Leaving
      <2>2. CASE UNCHANGED <<left, phase, error, upstream>> BY <2>1, <2>2
      <2>3. CASE ~UNCHANGED <<left, phase, error, upstream>>
            <3>1. /\ Route!Attached /\ left' = TRUE
                  /\ upstream' = IF upstream = "open" THEN "closed" ELSE upstream
                  /\ \/ phase \in {"requesting", "reading"} /\ error' = "abort" /\ phase' = "failing"
                     \/ phase = "consuming" /\ error' = "abort" /\ phase' = "settling"
                     \/ phase \notin {"requesting", "reading", "consuming"}
                           /\ UNCHANGED <<phase, error>>
                  BY <1>16, <2>3, Leaving
            <3>2. QED BY <2>1, <3>1 DEF Route!Attached
      <2>4. QED BY <2>2, <2>3
<1>17. CASE Route!Cleanup BY <1>17 DEF Route!Cleanup
<1>18. CASE UNCHANGED Route!vars BY <1>18 DEF Route!vars
<1>19. QED BY <1>1, <1>2, <1>3, <1>4, <1>5, <1>6, <1>7, <1>8, <1>9, <1>10, <1>11, <1>12,
              <1>13, <1>14, <1>15, <1>16, <1>17, <1>18
           DEF Route!Next, Route!HandlerStep, Route!TaskStep, Route!UpstreamStep

\* With the client gone the only frames left to write are those of an error.
LEMMA LeaverStep ==
    ASSUME RouteFlags, Records, Path, [Route!Next]_(Route!vars), left
    PROVE  /\ attempts' = attempts /\ upstream' # "open"
           /\ \A i \in DOMAIN response' \ DOMAIN response :
                 response'[i].kind \in {"error", "errorBody"}
<1> USE
      DEF RouteFlags, Path, Route!upVars, Route!sentVars, Route!clientVars, Route!logVars,
          Route!rareVars
<1>1. attempts' = attempts /\ upstream' # "open"
      BY Leaving
            DEF Route!Next, Route!HandlerStep, Route!TaskStep, Route!UpstreamStep, Route!Start,
                Route!Attempt, Route!Post, Route!Caught, Route!Route,
         Route!Settled, Route!Record, Route!LogAnswer, Route!LogFailure, Route!Persist,
         Route!Answer, Route!Task, Route!Responds,
         Route!ErrorBodyRead, Route!Event, Route!StreamFails, Route!StreamEnds, Route!Cleanup,
         Route!vars
<1>2. CASE Route!Answer
      <2>1. DOMAIN response = 1..Len(response) /\ Len(response) \in Nat BY DEF Records
      <2> SUFFICES ASSUME NEW i \in DOMAIN response' \ DOMAIN response
                   PROVE  response'[i].kind \in {"error", "errorBody"}
            BY <1>1
      <2>2. ASSUME Route!LastFrames = <<>> PROVE FALSE
            <3>1. response' = response BY <1>2, <2>2 DEF Route!Answer, Records
            <3>2. QED BY <3>1
      <2>3. ASSUME NEW k \in {"error", "errorBody"}, Route!LastFrames = <<Route!Frame(k)>>
            PROVE  response'[i].kind \in {"error", "errorBody"}
            <3>1. response' = response \o <<Route!Frame(k)>> BY <1>2, <2>3 DEF Route!Answer
            <3>2. Len(response') = Len(response) + 1 /\ response' \in Seq(Route!Frames)
                  /\ response'[Len(response) + 1] = Route!Frame(k)
                  BY <2>3, <3>1, FramesTyped DEF Records
            <3>3. DOMAIN response' = 1..(Len(response) + 1) BY <3>2
            <3>4. i = Len(response) + 1 BY <2>1, <3>3
            <3>5. Route!Frame(k).kind = k BY DEF Route!Frame
            <3>6. QED BY <3>2, <3>4, <3>5
      <2>4. QED BY <2>2, <2>3, LastFramesTyped DEF Records
<1>3. CASE ~Route!Answer
      <2>1. response' = response
            BY <1>3, Leaving
                  DEF Route!Next, Route!HandlerStep, Route!TaskStep, Route!UpstreamStep,
                      Route!Start, Route!Attempt, Route!Route,
               Route!Settled, Route!Record, Route!LogAnswer, Route!LogFailure, Route!Persist,
               Route!Task, Route!Responds,
               Route!ErrorBodyRead, Route!Event, Route!StreamFails, Route!StreamEnds,
               Route!Cleanup, Route!vars
      <2>2. DOMAIN response' \ DOMAIN response = {} BY <2>1
      <2>3. QED BY <1>1, <2>2
<1>4. QED BY <1>1, <1>2, <1>3

(***************************************************************************)
(* One voice: every frame is of the current attempt, and until the handler *)
(* is done the client has read events only.  An attempt that starts has    *)
(* therefore found nothing written, for its guard is ~Output.              *)
(***************************************************************************)
Endings == {"error", "body", "errorBody"}
Voice ==
    /\ \A i \in DOMAIN response : response[i].by = attempts
    /\ phase # "done" => \A i \in DOMAIN response : response[i].kind \in {"event", "stop"}
    /\ \A i \in DOMAIN response :
          response[i].kind \in Endings => ended /\ i = Len(response)

LEMMA VoiceInit == ASSUME Route!Init PROVE Voice
BY DEF Route!Init, Voice

LEMMA Longer ==
    ASSUME NEW S, NEW s \in Seq(S), NEW e \in S, NEW t, t = Append(s, e)
    PROVE  /\ t \in Seq(S) /\ Len(t) = Len(s) + 1 /\ Len(s) \in Nat
           /\ \A i \in DOMAIN t :
                 \/ i \in DOMAIN s /\ i # Len(t) /\ t[i] = s[i]
                 \/ i = Len(t) /\ t[i] = e
           /\ DOMAIN t = 1..(Len(s) + 1) /\ DOMAIN s = 1..Len(s)
<1>1. t \in Seq(S) /\ Len(t) = Len(s) + 1 /\ Len(s) \in Nat OBVIOUS
<1>2. DOMAIN t = 1..(Len(s) + 1) /\ DOMAIN s = 1..Len(s) BY <1>1
<1>3. t[Len(s) + 1] = e /\ \A i \in 1..Len(s) : t[i] = s[i] OBVIOUS
<1>4. ASSUME NEW i \in DOMAIN t
      PROVE  \/ i \in DOMAIN s /\ i # Len(t) /\ t[i] = s[i]
             \/ i = Len(t) /\ t[i] = e
      <2>1. CASE i = Len(s) + 1 BY <1>1, <1>3, <2>1
      <2>2. CASE i \in 1..Len(s) /\ i # Len(s) + 1 BY <1>1, <1>2, <1>3, <2>2
      <2>3. QED BY <1>1, <1>2, <2>1, <2>2
<1>5. QED BY <1>1, <1>2, <1>4

\* A frame of the attempt written behind events, the last of its response or not.
LEMMA Speaks ==
    ASSUME Records, Voice, phase # "done", attempts' = attempts, NEW e \in Route!Frames,
           e.by = attempts, response' = Append(response, e),
           \/ e.kind \in {"event", "stop"}
           \/ ended' = TRUE /\ phase' = "done"
    PROVE  Voice'
<1> USE Longer DEF Records, Voice
<1>1. \A i \in DOMAIN response' :
         \/ i \in DOMAIN response /\ i # Len(response') /\ response'[i] = response[i]
         \/ i = Len(response') /\ response'[i] = e
      OBVIOUS
<1>2. \A i \in DOMAIN response' : response'[i].by = attempts' BY <1>1
<1>3. phase' # "done" => \A i \in DOMAIN response' : response'[i].kind \in {"event", "stop"}
      BY <1>1
<1>4. \A i \in DOMAIN response' : response'[i].kind \in Endings => ended' /\ i = Len(response')
      BY <1>1 DEF Endings
<1>5. QED BY <1>2, <1>3, <1>4

\* A step that writes nothing, makes no attempt and leaves an ended response ended.
LEMMA Silent ==
    ASSUME Voice, response' = response, attempts' = attempts, ended => ended',
           phase = "done" => phase' = "done"
    PROVE  Voice'
BY DEF Voice

LEMMA FrameFields == \A k : Route!Frame(k).kind = k /\ Route!Frame(k).by = attempts
BY DEF Route!Frame

LEMMA VoiceNext ==
    ASSUME MessageAttempts \in Nat, RouteFlags, Records, Voice, [Route!Next]_(Route!vars)
          PROVE Voice'
<1> USE DEF Route!upVars, Route!sentVars, Route!clientVars, Route!logVars, Route!rareVars
<1>1. CASE Route!Start BY <1>1, Silent DEF Route!Start
<1>2. CASE Route!Attempt
      <2>1. response = <<>>
            <3>1. \A i \in DOMAIN response : FALSE
                  BY <1>2 DEF Route!Attempt, Route!Output, Route!Wrote, Voice
            <3>2. Len(response) \in Nat /\ DOMAIN response = 1..Len(response) BY DEF Records
            <3>3. Len(response) = 0 BY <3>1, <3>2
            <3>4. QED BY <3>3 DEF Records
      <2>2. response' = <<>> BY <1>2, <2>1 DEF Route!Attempt
      <2>3. DOMAIN response' = {} BY <2>2
      <2>4. QED BY <2>3 DEF Voice
<1>3. CASE Route!Route BY <1>3, Silent DEF Route!Route
<1>4. CASE Route!Settled BY <1>4, Silent DEF Route!Settled
<1>5. CASE Route!Record BY <1>5, Silent DEF Route!Record
<1>6. CASE Route!LogAnswer
      <2>1. CASE UNCHANGED Route!sentVars BY <1>6, <2>1, Silent DEF Route!LogAnswer
      <2>2. CASE ~UNCHANGED Route!sentVars
            <3>1. /\ phase' = "done" /\ response' = Append(response, Route!Frame("body")) /\ ended' = TRUE
                  /\ attempts' = attempts /\ phase # "done"
                  BY <1>6, <2>2 DEF Route!LogAnswer
            <3>2. Route!Frame("body") \in Route!Frames BY FramesTyped DEF Records
            <3>3. QED BY <3>1, <3>2, Speaks, FrameFields
      <2>3. QED BY <2>1, <2>2
<1>7. CASE Route!LogFailure BY <1>7, Silent DEF Route!LogFailure
<1>8. CASE Route!Persist BY <1>8, Silent DEF Route!Persist
<1>9. CASE Route!Answer
      <2>1. phase' = "done" /\ ended' = TRUE /\ attempts' = attempts /\ phase # "done"
            /\ response' = response \o Route!LastFrames
            BY <1>9 DEF Route!Answer
      <2>2. CASE Route!LastFrames = <<>>
            <3>1. response' = response BY <2>1, <2>2 DEF Records
            <3>2. QED BY <2>1, <3>1, Silent
      <2>3. ASSUME NEW k \in {"error", "errorBody"}, Route!LastFrames = <<Route!Frame(k)>>
            PROVE Voice'
            <3>1. Route!Frame(k) \in Route!Frames BY FramesTyped DEF Records
            <3>2. response' = Append(response, Route!Frame(k)) BY <2>1, <2>3, <3>1 DEF Records
            <3>3. QED BY <2>1, <3>1, <3>2, Speaks, FrameFields
      <2>4. QED BY <2>2, <2>3, LastFramesTyped DEF Records
<1>10. ASSUME NEW a \in 1..MessageAttempts, Route!Task(a) PROVE Voice'
      BY <1>10, Silent DEF Route!Task
<1>11. CASE Route!Responds BY <1>11, Silent DEF Route!Responds
<1>12. CASE Route!ErrorBodyRead BY <1>12, Silent DEF Route!ErrorBodyRead
<1>13. CASE Route!Event
      <2>1. phase # "done" /\ attempts' = attempts /\ UNCHANGED <<phase, ended>>
            BY <1>13 DEF Route!Event
      <2>2. CASE ended BY <1>13, <2>1, <2>2, Silent DEF Route!Event
      <2>3. CASE ~ended
            <3>1. PICK k \in {"event", "stop"} : response' = Append(response, Route!Frame(k))
                  BY <1>13, <2>3 DEF Route!Event
            <3>2. Route!Frame(k) \in Route!Frames BY FramesTyped DEF Records
            <3>3. QED BY <2>1, <3>1, <3>2, Speaks, FrameFields
      <2>4. QED BY <2>2, <2>3
<1>14. CASE Route!StreamFails BY <1>14, Silent DEF Route!StreamFails
<1>15. CASE Route!StreamEnds BY <1>15, Silent DEF Route!StreamEnds
<1>16. CASE Route!ClientLeaves
      <2>1. phase = "done" => phase' = "done" BY <1>16, Leaving DEF Route!Attached
      <2>2. response' = response /\ ended' = ended /\ attempts' = attempts BY <1>16, Leaving
      <2>3. QED BY <2>1, <2>2, Silent
<1>17. CASE Route!Cleanup BY <1>17, Silent DEF Route!Cleanup
<1>18. CASE UNCHANGED Route!vars BY <1>18, Silent DEF Route!vars
<1>19. QED BY <1>1, <1>2, <1>3, <1>4, <1>5, <1>6, <1>7, <1>8, <1>9, <1>10, <1>11, <1>12,
              <1>13, <1>14, <1>15, <1>16, <1>17, <1>18
           DEF Route!Next, Route!HandlerStep, Route!TaskStep, Route!UpstreamStep

(***************************************************************************)
(* The account of a request, while its statements work and nothing drops   *)
(* it: open until the attempt's task or the handler's catch writes it.     *)
(***************************************************************************)
NoTask == \A a \in 1..MessageAttempts : tasks[a] = "none"
Open == active /\ ends = <<>> /\ samples = <<>>
Written(outcome) == ~active /\ ends = <<outcome>> /\ samples = ends

\* The stream has ended, and its task is to log it or has done so.
Tasked ==
    /\ ~Route!Failed /\ attempts \in 1..MessageAttempts
    /\ \A a \in 1..MessageAttempts \ {attempts} : tasks[a] = "none"
    /\ \/ tasks[attempts] = "writing" /\ Open /\ ~ended
       \/ tasks[attempts] = "over" /\ Written("success") /\ ended

RouteClosed ==
    /\ NoTask
    /\ \/ Written("success") /\ ~Route!Failed
       \/ Written("failed") /\ (Route!Failed \/ left)

Ledger ==
    faults = {} /\ ~forgotten =>
        /\ phase # "rejected"
        /\ phase \notin {"recording", "persisting", "answering", "done"}
              => Open /\ NoTask /\ ~ended
        /\ phase = "recording" => IF streaming THEN Tasked ELSE Open /\ NoTask /\ ~ended
        /\ phase \in {"persisting", "answering"} => Written("failed") /\ NoTask /\ ~ended
        /\ phase = "done" => Tasked \/ RouteClosed

LEMMA LedgerInit == ASSUME Route!Init PROVE Ledger
BY DEF Route!Init, Ledger, Open, NoTask

LEMMA NotFailed == ASSUME Voice, phase # "done" PROVE ~Route!Failed
BY DEF Voice, Route!Failed, Route!Wrote

LEMMA One == ASSUME NEW e, NEW s, s = <<>> PROVE Append(s, e) = <<e>>
OBVIOUS

Unwritten ==
    \/ phase \notin {"recording", "persisting", "answering", "done", "rejected"}
    \/ phase = "recording" /\ ~streaming

\* A step that neither writes nor logs keeps an open account open.
LEMMA StillOpen ==
    ASSUME Ledger,
           Unwritten, faults' # {} \/ (Unwritten' /\ faults' = faults),
           forgotten' = forgotten, active' = active, ends' = ends, samples' = samples,
           tasks' = tasks, ended' = ended
    PROVE  Ledger'
BY DEF Ledger, Open, NoTask, Unwritten

LEMMA Faulty == \A f : faults \cup {f} # {}
OBVIOUS

LEMMA LedgerNext ==
    ASSUME MessageAttempts \in Nat, RouteFlags, Records, Path, Voice, Ledger, [Route!Next]_(Route!vars)
          PROVE Ledger'
<1> USE DEF Route!upVars, Route!sentVars, Route!clientVars, Route!logVars, Route!rareVars
<1>1. CASE Route!Start
      <2>1. \/ faults' = faults \cup {"failed"}
            \/ phase' = "selecting" /\ faults' = faults
            BY <1>1 DEF Route!Start
      <2>2. faults' # {} \/ (phase' = "selecting" /\ faults' = faults) BY <2>1, Faulty
      <2>3. QED BY <1>1, <2>2, StillOpen DEF Route!Start, Unwritten
<1>2. CASE Route!Attempt
      BY <1>2, StillOpen DEF Route!Attempt, Route!Post, Route!Caught, Route!Throw, Unwritten
<1>3. CASE Route!Route
      <2>1. \/ faults' = faults \cup {"failed"}
            \/ phase' \in {"selecting", "failing"} /\ faults' = faults
            BY <1>3 DEF Route!Route
      <2>2. faults' # {} \/ (phase' \in {"selecting", "failing"} /\ faults' = faults)
            BY <2>1, Faulty
      <2>3. QED BY <1>3, <2>2, StillOpen DEF Route!Route, Unwritten
<1>4. CASE Route!Settled
      BY <1>4, StillOpen DEF Route!Settled, Route!Caught, Route!Throw, Unwritten
<1>5. CASE Route!Record
      <2>1. CASE ~streaming
            <3>1. \/ faults' = faults \cup {"failed"}
                  \/ phase' \in {"logged", "noting", "failing"} /\ faults' = faults
                  BY <1>5, <2>1 DEF Route!Record, Route!Throw
            <3>2. faults' # {} \/ (phase' \in {"logged", "noting", "failing"} /\ faults' = faults)
                  BY <3>1, Faulty
            <3>3. QED BY <1>5, <2>1, <3>2, StillOpen DEF Route!Record, Unwritten
      <2>2. CASE streaming /\ phase' = "done" /\ faults' = faults
            <3>1. UNCHANGED <<response, ended, tasks, active, ends, samples, attempts, forgotten>>
                  /\ phase = "recording"
                  BY <1>5 DEF Route!Record
            <3>2. QED BY <2>2, <3>1 DEF Ledger, Tasked, Open, Written, Route!Failed, Route!Wrote
      <2>3. CASE streaming /\ faults' # {} BY <2>3 DEF Ledger
      <2>4. QED BY <1>5, <2>1, <2>2, <2>3 DEF Route!Record, Route!Caught, Route!Throw
<1>6. CASE Route!LogAnswer
      <2>1. phase = "logged" /\ UNCHANGED <<forgotten, tasks>> BY <1>6 DEF Route!LogAnswer
      <2>2. CASE faults' # {} BY <2>2 DEF Ledger
      <2>3. CASE faults' = {} /\ ~forgotten'
            <3>1. faults = {} /\ Open /\ NoTask
                  BY <1>6, <2>1, <2>3
                        DEF Route!LogAnswer, Route!RowWritten, Route!RowFails, Ledger
            <3>2. phase' = "done" /\ Route!RowWritten("success")
                  /\ response' = Append(response, Route!Frame("body"))
                  BY <1>6, <2>3, <3>1 DEF Route!LogAnswer, Route!RowFails, Open
            <3>3. Written("success")' BY <3>1, <3>2, One DEF Written, Route!RowWritten, Open
            <3>4. ~Route!Failed'
                  <4>1. ~Route!Failed BY <2>1, NotFailed
                  <4>2. \A i \in DOMAIN response' :
                           \/ i \in DOMAIN response /\ response'[i] = response[i]
                           \/ response'[i] = Route!Frame("body")
                        BY <3>2, Longer, FramesTyped DEF Records
                  <4>3. QED BY <4>1, <4>2, FrameFields DEF Route!Failed, Route!Wrote
            <3>5. NoTask' BY <2>1, <3>1 DEF NoTask
            <3>6. QED BY <3>2, <3>3, <3>4, <3>5 DEF Ledger, RouteClosed
      <2>4. QED BY <2>2, <2>3 DEF Ledger
<1>7. CASE Route!LogFailure
      <2>1. phase = "failing" /\ UNCHANGED <<forgotten, tasks, ended>>
            BY <1>7 DEF Route!LogFailure
      <2>2. CASE faults' # {} BY <2>2 DEF Ledger
      <2>3. CASE faults' = {} /\ ~forgotten'
            <3>1. faults = {} /\ Open /\ NoTask /\ ~ended
                  BY <1>7, <2>1, <2>3
                        DEF Route!LogFailure, Route!RowWritten, Route!RowFails, Ledger
            <3>2. phase' \in {"answering", "persisting"} /\ Route!RowWritten("failed")
                  BY <1>7, <2>3, <3>1 DEF Route!LogFailure, Route!RowFails, Open
            <3>3. Written("failed")' BY <3>1, <3>2, One DEF Written, Route!RowWritten, Open
            <3>4. NoTask' /\ ~ended' BY <2>1, <3>1 DEF NoTask
            <3>5. QED BY <3>2, <3>3, <3>4 DEF Ledger
      <2>4. QED BY <2>2, <2>3 DEF Ledger
<1>8. CASE Route!Persist BY <1>8 DEF Route!Persist, Ledger, Written, NoTask
<1>9. CASE Route!Answer
      <2>1. phase = "answering" /\ phase' = "done"
            /\ UNCHANGED <<left, error, active, ends, samples, tasks, faults, forgotten>>
            /\ response' = response \o Route!LastFrames
            BY <1>9 DEF Route!Answer
      <2>2. CASE faults = {} /\ ~forgotten
            <3>1. Written("failed") /\ NoTask /\ ~ended BY <2>1, <2>2 DEF Ledger
            <3>2. CASE error = "abort"
                  BY <2>1, <3>1, <3>2 DEF Path, Ledger, RouteClosed, Written, NoTask
            <3>3. CASE error # "abort"
                  <4>1. PICK k \in {"error", "errorBody"} : Route!LastFrames = <<Route!Frame(k)>>
                        BY <3>1, <3>3, LastFramesTyped DEF Records
                  <4>2. Route!Frame(k) \in Route!Frames BY FramesTyped DEF Records
                  <4>3. response' = Append(response, Route!Frame(k))
                        BY <2>1, <4>1, <4>2 DEF Records
                  <4>4. Len(response') \in DOMAIN response' /\ response'[Len(response')] = Route!Frame(k)
                        BY <4>2, <4>3 DEF Records
                  <4>5. Route!Failed' BY <4>4, FrameFields DEF Route!Failed, Route!Wrote
                  <4>6. QED BY <2>1, <3>1, <4>5 DEF Ledger, RouteClosed, Written, NoTask
            <3>4. QED BY <3>2, <3>3
      <2>3. QED BY <2>1, <2>2 DEF Ledger
<1>10. ASSUME NEW a \in 1..MessageAttempts, Route!Task(a) PROVE Ledger'
      <2>1. UNCHANGED <<streaming, phase, attempts, response, forgotten, left>>
            /\ tasks' = [tasks EXCEPT ![a] = "over"] /\ ended' = TRUE
            /\ tasks[a] # "none"
            BY <1>10 DEF Route!Task
      <2>2. CASE faults' # {} BY <2>2 DEF Ledger
      <2>3. CASE faults' = {} /\ ~forgotten'
            <3>1. faults = {} /\ ~forgotten /\ ~NoTask
                  BY <1>10, <2>1, <2>3 DEF Route!Task, Route!RowWritten, Route!RowFails, NoTask
            <3>2. Tasked /\ ((phase = "recording" /\ streaming) \/ phase = "done")
                  BY <3>1 DEF Ledger, RouteClosed, Records, RouteFlags, Route!Phases
            <3>3. a = attempts /\ tasks[a] = "writing" /\ Open
                  BY <1>10, <2>1, <3>2 DEF Tasked, Route!Task
            <3>4. Route!RowWritten("success") BY <1>10, <2>3, <3>3 DEF Route!Task, Route!RowFails
            <3>5. Written("success")' BY <3>3, <3>4, One DEF Written, Route!RowWritten, Open
            <3>6. /\ tasks'[attempts'] = "over"
                  /\ \A b \in 1..MessageAttempts \ {attempts'} : tasks'[b] = "none"
                  BY <2>1, <3>2, <3>3 DEF Tasked, Records
            <3>7. ~Route!Failed' BY <2>1, <3>2 DEF Tasked, Route!Failed, Route!Wrote
            <3>8. Tasked' BY <2>1, <3>2, <3>5, <3>6, <3>7 DEF Tasked
            <3>9. QED BY <2>1, <3>2, <3>8 DEF Ledger
      <2>4. QED BY <2>2, <2>3 DEF Ledger
<1>11. CASE Route!Responds
      BY <1>11, StillOpen DEF Route!Responds, Route!Caught, Route!Throw, Unwritten
<1>12. CASE Route!ErrorBodyRead
      BY <1>12, StillOpen DEF Route!ErrorBodyRead, Route!Caught, Route!Throw, Unwritten
<1>13. CASE Route!Event BY <1>13, StillOpen DEF Route!Event, Unwritten
<1>14. CASE Route!StreamFails BY <1>14, StillOpen DEF Route!StreamFails, Unwritten
<1>15. CASE Route!StreamEnds
      <2>1. phase = "consuming" /\ phase' = "recording" /\ streaming /\ streaming'
            /\ UNCHANGED <<attempts, active, ends, samples, ended, response, faults, forgotten>>
            /\ tasks' = [tasks EXCEPT ![attempts] = IF active THEN "writing" ELSE "ending"]
            BY <1>15 DEF Route!StreamEnds, Path
      <2>2. CASE faults = {} /\ ~forgotten
            <3>1. Open /\ NoTask /\ ~ended BY <2>1, <2>2 DEF Ledger
            <3>2. attempts \in 1..MessageAttempts BY <2>1 DEF Records
            <3>3. tasks'[attempts] = "writing"
                  /\ \A b \in 1..MessageAttempts \ {attempts} : tasks'[b] = "none"
                  BY <2>1, <3>1, <3>2 DEF Records, NoTask, Open
            <3>4. ~Route!Failed' BY <2>1, NotFailed DEF Route!Failed, Route!Wrote
            <3>5. Tasked' BY <2>1, <3>1, <3>2, <3>3, <3>4 DEF Tasked, Open
            <3>6. QED BY <2>1, <3>5 DEF Ledger
      <2>3. QED BY <2>1, <2>2 DEF Ledger
<1>16. CASE Route!ClientLeaves
      <2>1. UNCHANGED <<streaming, attempts, response, ended, tasks, active, ends, samples,
                        faults, forgotten>>
            BY <1>16, Leaving
      <2>4. left => left' BY <1>16, Leaving
      <2>2. \/ phase' = phase
            \/ phase \in {"requesting", "reading"} /\ phase' = "failing"
            \/ phase = "consuming" /\ phase' = "settling"
            BY <1>16, Leaving
      <2>3. QED BY <2>1, <2>2, <2>4
            DEF Ledger, Tasked, RouteClosed, Open, Written, NoTask, Route!Failed, Route!Wrote
<1>17. CASE Route!Cleanup BY <1>17 DEF Route!Cleanup, Ledger
<1>18. CASE UNCHANGED Route!vars
      BY <1>18
            DEF Route!vars, Ledger, Tasked, RouteClosed, Open, Written, NoTask, Route!Failed,
                Route!Wrote
<1>19. QED BY <1>1, <1>2, <1>3, <1>4, <1>5, <1>6, <1>7, <1>8, <1>9, <1>10, <1>11, <1>12,
              <1>13, <1>14, <1>15, <1>16, <1>17, <1>18
           DEF Route!Next, Route!HandlerStep, Route!TaskStep, Route!UpstreamStep

(***************************************************************************)
(* The theorems.                                                           *)
(***************************************************************************)
RouteInv == RouteFlags /\ Records /\ Path /\ Voice /\ Ledger

LEMMA RouteInductive == ASSUME MessageAttempts \in Nat PROVE Route!Spec => []RouteInv
<1>1. Route!Init => RouteInv
      BY RouteTypesInit, PathInit, VoiceInit, LedgerInit DEF RouteInv
<1>2. RouteInv /\ [Route!Next]_(Route!vars) => RouteInv'
      BY RouteFlagsNext, RecordsNext, PathNext, VoiceNext, LedgerNext DEF RouteInv
<1>3. QED BY <1>1, <1>2, PTL DEF Route!Spec

\* Every variable stays in its type (routes/messages.ts:823).
THEOREM RouteTypeCorrect ==
    ASSUME MessageAttempts \in Nat PROVE Route!Spec => []Route!TypeOK
<1>1. RouteInv => Route!TypeOK BY DEF RouteInv, RouteFlags, Records, Route!TypeOK, Outcomes
<1>2. QED BY <1>1, RouteInductive, PTL

\* A client never reads events of two upstream calls, and an error or a whole answer is
\* the last thing it reads (routes/messages.ts:544).
THEOREM OneVoiceHolds ==
    ASSUME MessageAttempts \in Nat PROVE Route!Spec => []Route!OneVoice
<1>1. RouteInv => Route!OneVoice BY DEF RouteInv, Voice, Endings, Route!OneVoice
<1>2. QED BY <1>1, RouteInductive, PTL

\* A request has one row and one sample, which tell what its client has read, however
\* its task and its handler interleave (routes/messages.ts:1483).
THEOREM RouteAccountedOnce ==
    ASSUME MessageAttempts \in Nat PROVE Route!Spec => []Route!AccountedOnce
<1>1. RouteInv /\ Route!Finished /\ faults = {} /\ ~forgotten =>
         \/ Written("success") /\ ~Route!Failed
         \/ Written("failed") /\ (Route!Failed \/ left)
      BY DEF RouteInv, Ledger, Tasked, RouteClosed, Route!Finished, Records
<1>2. \A o : Written(o) => Len(ends) = 1 /\ samples = ends /\ ends[1] = o
      BY DEF Written
<1>3. RouteInv => Route!AccountedOnce BY <1>1, <1>2 DEF Route!AccountedOnce
<1>4. QED BY <1>3, RouteInductive, PTL

\* A client seen to leave costs no upstream call and no event (routes/messages.ts:832).
THEOREM RouteLeaverCostsNothing ==
    ASSUME MessageAttempts \in Nat PROVE Route!Spec => Route!LeaverCostsNothing
<1>1. RouteInv /\ [Route!Next]_(Route!vars) =>
         [left => /\ attempts' = attempts /\ upstream' # "open"
                  /\ \A i \in DOMAIN response' \ DOMAIN response :
                        response'[i].kind \in {"error", "errorBody"}]_(Route!vars)
      BY LeaverStep DEF RouteInv
<1>2. QED BY <1>1, RouteInductive, PTL DEF Route!Spec, Route!LeaverCostsNothing

LEMMA RouteRefined == MCSpec => Route!Spec
<1>1. MCInit => Route!Init BY DEF MCInit
<1>2. [MCNext]_MCVars => [Route!Next]_(Route!vars)
      BY DEF MCNext, MCVars, Route!vars, Route!upVars, Route!sentVars, Route!clientVars,
          Route!logVars, Route!rareVars, messageVars
<1>3. QED BY <1>1, <1>2, PTL DEF MCSpec, MCVars, Route!Spec

\* One attempt speaks, and a request has one row and one sample, which tell what its
\* client has read, with any number of attempts and events (routes/messages.ts:544, 1483).
THEOREM AccountedOnceHolds ==
    ASSUME MessageAttempts \in Nat PROVE MCSpec => []AccountedOnce
BY RouteRefined, RouteTypeCorrect, OneVoiceHolds, RouteAccountedOnce, PTL DEF AccountedOnce

\* A client seen to leave costs no upstream call and no event (routes/messages.ts:832).
THEOREM LeaverCostsNothingHolds ==
    ASSUME MessageAttempts \in Nat PROVE MCSpec => LeaverCostsNothing
BY RouteRefined, RouteLeaverCostsNothing DEF LeaverCostsNothing

(***************************************************************************)
(* Uptime.                                                                 *)
(***************************************************************************)
LEMMA SameUpsInit == Ups!Init => UpsProofs!Init
BY DEF Ups!Init, UpsProofs!Init, Ups!Zero, UpsProofs!Zero, Ups!Rows, UpsProofs!Rows,
    Ups!Buckets, UpsProofs!Buckets, Ups!NoFlush, UpsProofs!NoFlush, Ups!NoQuery,
    UpsProofs!NoQuery

LEMMA SameCardinality == \A S : Ups!Cardinality(S) = UpsProofs!Cardinality(S)
BY DEF Ups!Cardinality, UpsProofs!Cardinality

LEMMA SameSubsets == \A k, S : Ups!kSubset(k, S) = UpsProofs!kSubset(k, S)
BY SameCardinality DEF Ups!kSubset, UpsProofs!kSubset

LEMMA SameTotal == \A f : Ups!Total(f) = UpsProofs!Total(f)
BY Zenon DEF Ups!Total, UpsProofs!Total, Ups!MapThenSumSet, UpsProofs!MapThenSumSet,
    Ups!MapThenFoldSet, UpsProofs!MapThenFoldSet, Ups!Rows, UpsProofs!Rows, Ups!Buckets,
    UpsProofs!Buckets

LEMMA SameHeld == \A f : Ups!Held(f) = UpsProofs!Held(f)
BY DEF Ups!Held, UpsProofs!Held, Ups!Rows, UpsProofs!Rows, Ups!Buckets, UpsProofs!Buckets

LEMMA SameRoom == (Ups!Room <=> UpsProofs!Room) /\ (Ups!Room' <=> UpsProofs!Room')
BY SameHeld, SameCardinality DEF Ups!Room, UpsProofs!Room

LEMMA SameRestore == \A d : Ups!Restore(d) => UpsProofs!Restore(d)
<1>1. \A f, g : Ups!Plus(f, g) = UpsProofs!Plus(f, g)
      BY DEF Ups!Plus, UpsProofs!Plus, Ups!Rows, UpsProofs!Rows, Ups!Buckets, UpsProofs!Buckets
<1>2. \A f, R : Ups!Only(f, R) = UpsProofs!Only(f, R)
      BY DEF Ups!Only, UpsProofs!Only, Ups!Rows, UpsProofs!Rows, Ups!Buckets, UpsProofs!Buckets
<1>3. \A S : Ups!Min(S) = UpsProofs!Min(S) /\ Ups!Max(S) = UpsProofs!Max(S)
      BY DEF Ups!Min, UpsProofs!Min, Ups!Max, UpsProofs!Max
<1>4. QED BY <1>1, <1>2, <1>3, SameCardinality, SameSubsets, SameHeld
          DEF Ups!Restore, UpsProofs!Restore

LEMMA SameUpsNext == Ups!Next => UpsProofs!Next
<1>1. Ups!Tick => UpsProofs!Tick
      BY DEF Ups!Tick, UpsProofs!Tick
<1>2. \A m : Ups!Record(m) => UpsProofs!Record(m)
      BY SameTotal, SameHeld, SameRoom DEF Ups!Record, UpsProofs!Record
<1>3. Ups!Flush => UpsProofs!Flush
      BY DEF Ups!Flush, UpsProofs!Flush, Ups!Held, UpsProofs!Held, Ups!Only, UpsProofs!Only,
          Ups!Rows, UpsProofs!Rows, Ups!Race, UpsProofs!Race, Ups!Buckets, UpsProofs!Buckets
<1>4. Ups!Persisted => UpsProofs!Persisted
      BY SameRestore
      DEF Ups!Persisted, UpsProofs!Persisted, Ups!Plus, UpsProofs!Plus, Ups!Zero,
          UpsProofs!Zero, Ups!NoFlush, UpsProofs!NoFlush, Ups!Rows, UpsProofs!Rows,
          Ups!Buckets, UpsProofs!Buckets
<1>5. Ups!Retain => UpsProofs!Retain
      BY DEF Ups!Retain, UpsProofs!Retain, Ups!NoFlush, UpsProofs!NoFlush, Ups!Only,
          UpsProofs!Only, Ups!Rows, UpsProofs!Rows, Ups!Zero, UpsProofs!Zero, Ups!Buckets,
          UpsProofs!Buckets
<1>6. Ups!Query => UpsProofs!Query
      BY DEF Ups!Query, UpsProofs!Query, Ups!Held, UpsProofs!Held, Ups!Only, UpsProofs!Only,
          Ups!Rows, UpsProofs!Rows, Ups!Buckets, UpsProofs!Buckets
<1>7. Ups!Answer => UpsProofs!Answer
      BY DEF Ups!Answer, UpsProofs!Answer, Ups!Fold, UpsProofs!Fold, Ups!NoQuery,
          UpsProofs!NoQuery, Ups!Plus, UpsProofs!Plus, Ups!Only, UpsProofs!Only, Ups!Rows,
          UpsProofs!Rows, Ups!Zero, UpsProofs!Zero, Ups!Buckets, UpsProofs!Buckets
<1>8. Ups!Sent => UpsProofs!Sent
      BY DEF Ups!Sent, UpsProofs!Sent, Ups!NoQuery, UpsProofs!NoQuery, Ups!Zero, UpsProofs!Zero,
          Ups!Rows, UpsProofs!Rows, Ups!Buckets, UpsProofs!Buckets
<1>9. Ups!Shutdown => UpsProofs!Shutdown
      BY DEF Ups!Shutdown, UpsProofs!Shutdown, Ups!Zero, UpsProofs!Zero, Ups!Race, UpsProofs!Race,
          Ups!Held, UpsProofs!Held, Ups!Rows, UpsProofs!Rows, Ups!Buckets, UpsProofs!Buckets
<1>10. Ups!Closed => UpsProofs!Closed
      BY DEF Ups!Closed, UpsProofs!Closed, Ups!Zero, UpsProofs!Zero, Ups!Plus, UpsProofs!Plus,
          Ups!Rows, UpsProofs!Rows, Ups!Buckets, UpsProofs!Buckets
<1>11. Ups!Exit => UpsProofs!Exit
      BY DEF Ups!Exit, UpsProofs!Exit, Ups!Zero, UpsProofs!Zero, Ups!NoFlush, UpsProofs!NoFlush,
          Ups!NoQuery, UpsProofs!NoQuery, Ups!Rows, UpsProofs!Rows, Ups!Buckets,
          UpsProofs!Buckets
<1>12. Ups!Start => UpsProofs!Start
      BY DEF Ups!Start, UpsProofs!Start
<1>13. QED BY <1>1, <1>2, <1>3, <1>4, <1>5, <1>6, <1>7, <1>8, <1>9, <1>10, <1>11, <1>12
      DEF Ups!Next, UpsProofs!Next

LEMMA UpsRefined == MCSpec => UpsProofs!Spec
<1>1. MCInit => UpsProofs!Init BY SameUpsInit DEF MCInit
<1>2. [MCNext]_MCVars => [UpsProofs!Next]_(UpsProofs!vars)
      BY SameUpsNext DEF MCNext, MCVars, UpsProofs!vars, uptimeVars
<1>3. QED BY <1>1, <1>2, PTL DEF MCSpec, MCVars, UpsProofs!Spec

LEMMA SameCounted == Ups!Counted = UpsProofs!Counted /\ Ups!Counted' = UpsProofs!Counted'
BY DEF Ups!Counted, UpsProofs!Counted, Ups!Rows, UpsProofs!Rows, Ups!Buckets, UpsProofs!Buckets

LEMMA SameProcess == Ups!Process = UpsProofs!Process /\ Ups!Process' = UpsProofs!Process'
BY DEF Ups!Process, UpsProofs!Process

LEMMA SameLedgerInit == UpsProofs!Ledger!Init => Ups!Ledger!Init
BY SameCounted, SameProcess, SameRoom
DEF Ups!Ledger!Init, UpsProofs!Ledger!Init, Ups!Ledger!Zero, UpsProofs!Ledger!Zero,
    Ups!Ledger!Rows, UpsProofs!Ledger!Rows, Ups!Ledger!Buckets, UpsProofs!Ledger!Buckets

LEMMA SameLedgerNext ==
    [UpsProofs!Ledger!Next]_(UpsProofs!Ledger!vars) => [Ups!Ledger!Next]_(Ups!Ledger!vars)
<1>1. Ups!Ledger!Rows = UpsProofs!Ledger!Rows
      BY DEF Ups!Ledger!Rows, UpsProofs!Ledger!Rows, Ups!Ledger!Buckets, UpsProofs!Ledger!Buckets
<1>2. UpsProofs!Ledger!Drop => Ups!Ledger!Drop
      BY <1>1, SameCounted, SameProcess, SameRoom DEF Ups!Ledger!Drop, UpsProofs!Ledger!Drop
<1>3. UpsProofs!Ledger!Expire => Ups!Ledger!Expire
      BY <1>1, SameCounted, SameProcess DEF Ups!Ledger!Expire, UpsProofs!Ledger!Expire
<1>4. \A r : UpsProofs!Ledger!Count(r) => Ups!Ledger!Count(r)
      BY SameCounted, SameProcess DEF Ups!Ledger!Count, UpsProofs!Ledger!Count
<1>5. CASE UpsProofs!Ledger!Next
      BY <1>1, <1>2, <1>3, <1>4, <1>5, SameCounted, SameProcess, SameRoom
      DEF Ups!Ledger!Next, UpsProofs!Ledger!Next, Ups!Ledger!Processes,
          UpsProofs!Ledger!Processes
<1>6. CASE UNCHANGED UpsProofs!Ledger!vars
      BY <1>6, SameCounted, SameProcess, SameRoom DEF Ups!Ledger!vars, UpsProofs!Ledger!vars
<1>7. QED BY <1>5, <1>6

\* The uptime layer counts like its ledger, whatever flushes, queries and shutdowns do
\* (services/uptime/service.ts:162).
THEOREM CountsLikeLedgerHolds == ASSUME UpsProofs!Bounds PROVE MCSpec => CountsLikeLedger
<1>2. UpsProofs!Spec => UpsProofs!CountsLikeLedger BY UpsProofs!CountsLikeLedgerHolds
<1>3. UpsProofs!CountsLikeLedger => CountsLikeLedger
      BY SameLedgerInit, SameLedgerNext, PTL
      DEF CountsLikeLedger, Ups!CountsLikeLedger, UpsProofs!CountsLikeLedger,
          Ups!Ledger!Spec, UpsProofs!Ledger!Spec
<1>4. QED BY <1>2, <1>3, UpsRefined, PTL

LEMMA SameAnswerStep == UpsProofs!AnswerStep => Ups!AnswerStep
BY SameCounted DEF Ups!AnswerStep, UpsProofs!AnswerStep, Ups!Rows, UpsProofs!Rows,
    Ups!Buckets, UpsProofs!Buckets

\* A page of the uptime layer never shows more than was recorded, and lacks only what was
\* leaving memory; the map in memory keeps its cap (services/uptime/service.ts:202, 223).
THEOREM AnswerTrueHolds == ASSUME UpsProofs!Bounds PROVE MCSpec => AnswerTrue
<1>1. UpsProofs!Spec => []UpsProofs!TypeOK BY UpsProofs!TypeCorrect
<1>2. UpsProofs!Spec => []UpsProofs!HotBounded BY UpsProofs!HotBoundedHolds
<1>3. UpsProofs!Spec => [][UpsProofs!AnswerStep]_(UpsProofs!vars)
      BY UpsProofs!AnswerTrueHolds DEF UpsProofs!AnswerTrue
<1>4. UpsProofs!TypeOK => Ups!TypeOK
      BY DEF Ups!TypeOK, UpsProofs!TypeOK, Ups!Rows, UpsProofs!Rows, Ups!Buckets,
         UpsProofs!Buckets
<1>5. UpsProofs!HotBounded => Ups!HotBounded
      BY SameHeld, SameCardinality DEF Ups!HotBounded, UpsProofs!HotBounded
<1>6. UpsProofs!TypeOK /\ UpsProofs!HotBounded /\ [UpsProofs!AnswerStep]_(UpsProofs!vars)
        => [component = "uptime" => Ups!TypeOK /\ Ups!HotBounded /\ Ups!AnswerStep]_uptimeVars
      BY <1>4, <1>5, SameAnswerStep DEF UpsProofs!vars, uptimeVars
<1>7. QED BY <1>1, <1>2, <1>3, <1>6, UpsRefined, PTL DEF AnswerTrue

(***************************************************************************)
(* Access.                                                                 *)
(***************************************************************************)
KeyRows == [stored : BOOLEAN, active : BOOLEAN, rpd : Limits \cup {0}, rpm : Limits \cup {0},
            usage : Nat, stale : BOOLEAN]
Rated == row \in KeyRows /\ row.usage = counted

LEMMA RowsMade ==
    /\ Key!NoRow \in KeyRows /\ Key!NoRow.usage = 0
    /\ \A rpd, rpm \in Limits : Key!NewRow(rpd, rpm) \in KeyRows /\ Key!NewRow(rpd, rpm).usage = 0
<1>1. Key!NoRow \in KeyRows /\ Key!NoRow.usage = 0 BY DEF Key!NoRow, KeyRows
<1>2. ASSUME NEW rpd \in Limits, NEW rpm \in Limits
      PROVE  Key!NewRow(rpd, rpm) \in KeyRows /\ Key!NewRow(rpd, rpm).usage = 0
      <2>1. Key!NewRow(rpd, rpm) = [stored |-> TRUE, active |-> TRUE, rpd |-> rpd, rpm |-> rpm,
                                    usage |-> 0, stale |-> FALSE]
            BY DEF Key!NewRow
      <2>2. QED BY <2>1 DEF KeyRows
<1>3. QED BY <1>1, <1>2

LEMMA RatedNext == ASSUME Rated, Key!Next PROVE Rated'
<1> USE DEF Rated, KeyRows
<1>1. ASSUME NEW r \in Requests, Key!Verify(r) \/ Key!Check(r) PROVE Rated'
      BY <1>1 DEF Key!Verify, Key!Check, Key!histVars
<1>2. ASSUME NEW r \in Requests, Key!Count(r) PROVE Rated'
      BY <1>2 DEF Key!Count
<1>3. CASE Key!ResetDaily BY <1>3 DEF Key!ResetDaily
<1>4. CASE Key!Midnight BY <1>4 DEF Key!Midnight, Key!histVars
<1>5. ASSUME NEW op, Key!Statement(op) PROVE Rated'
      <2>1. CASE UNCHANGED <<row, counted>> BY <2>1
      <2>2. CASE \E on \in BOOLEAN, rpd, rpm \in Limits :
                    /\ row' = [row EXCEPT !.active = on, !.rpd = rpd, !.rpm = rpm]
                    /\ counted' = counted
            BY <2>2
      <2>3. CASE counted' = 0 /\ row' = Key!NoRow BY <2>3, RowsMade
      <2>4. CASE counted' = 0 /\ \E rpd, rpm \in Limits : row' = Key!NewRow(rpd, rpm)
            BY <2>4, RowsMade
      <2>5. QED BY <1>5, <2>1, <2>2, <2>3, <2>4 DEF Key!Statement
<1>6. CASE Key!Manage BY <1>5, <1>6 DEF Key!Manage
<1>7. QED BY <1>1, <1>2, <1>3, <1>4, <1>6
          DEF Key!Next, Key!Evict, Key!Tick, Key!Resolve, Key!Login, Key!SignIn,
              Key!SessionEnds, Key!Visit, Key!Page, Key!Shown, Key!Restart, Key!histVars

\* The daily counter of a key is what was admitted since its reset, with any number of
\* requests, limits and changes to the row (services/apiKeyManager.ts:286).
THEOREM UsageTrueHolds == MCSpec => []UsageTrue
<1>1. MCInit => Rated
      BY RowsMade DEF MCInit, Key!Init, Rated
<1>2. Rated /\ [MCNext]_MCVars => Rated'
      BY RatedNext DEF KeyRows, MCNext, MCVars, accessVars, Rated
<1>3. Rated => UsageTrue BY DEF Rated, UsageTrue, Key!UsageTrue
<1>4. QED BY <1>1, <1>2, <1>3, PTL DEF MCSpec, MCVars

(***************************************************************************)
(* The limiters' windows, for every length of a window.                    *)
(***************************************************************************)
Span == Window \in Nat /\ Window > 0
AllAges == 0..2 * Window + 1
Older(a) == IF a < 2 * Window + 1 THEN a + 1 ELSE 2 * Window + 1
AllOlder(s) == [i \in DOMAIN s |-> Older(s[i])]
Recent(s) == Among(s, 0..Window - 1)

LEMMA SameWindows ==
    /\ \A s : Key!Fresh(s) = Recent(s) /\ Key!Aged(s) = AllOlder(s)
    /\ \A s : Panel!Fresh(s) = Recent(s) /\ Panel!Aged(s) = AllOlder(s)
    /\ \A s : Panel!Kept(s) = Among(s, 0..2 * Window - 1)
    /\ Key!Oldest = 2 * Window + 1 /\ Panel!Oldest = 2 * Window + 1
<1>1. \A s, S : Key!Among(s, S) = Among(s, S) BY Zenon DEF Key!Among, Among
<1>2. \A s, S : Panel!Among(s, S) = Among(s, S) BY Zenon DEF Panel!Among, Among
<1>3. Key!Oldest = 2 * Window + 1 /\ Panel!Oldest = 2 * Window + 1 BY DEF Key!Oldest, Panel!Oldest
<1>4. \A s : Key!Fresh(s) = Recent(s) /\ Panel!Fresh(s) = Recent(s)
      BY <1>1, <1>2 DEF Key!Fresh, Panel!Fresh, Recent
<1>5. \A s : Panel!Kept(s) = Among(s, 0..2 * Window - 1) BY <1>2 DEF Panel!Kept
<1>6. \A s : Key!Aged(s) = AllOlder(s) /\ Panel!Aged(s) = AllOlder(s)
      BY <1>3, Zenon DEF Key!Aged, Panel!Aged, AllOlder, Older
<1>7. QED BY <1>3, <1>4, <1>5, <1>6

LEMMA OlderType ==
    ASSUME Span, NEW s \in Seq(AllAges)
    PROVE  AllOlder(s) \in Seq(AllAges) /\ Len(AllOlder(s)) = Len(s)
<1>1. Len(s) \in Nat /\ DOMAIN s = 1..Len(s) /\ \A i \in 1..Len(s) : s[i] \in AllAges
      BY LenProperties, ElementOfSeq
<1>2. \A a \in AllAges : Older(a) \in AllAges BY DEF Span, AllAges, Older
<1> HIDE DEF AllAges
<1>3. AllOlder(s) \in [1..Len(s) -> AllAges] BY <1>1, <1>2 DEF AllOlder
<1> DEFINE n == Len(s)
<1>4. n \in Nat /\ AllOlder(s) \in [1..n -> AllAges] BY <1>1, <1>3
<1> HIDE DEF n
<1>5. AllOlder(s) \in Seq(AllAges) /\ Len(AllOlder(s)) = n BY <1>4
<1>6. QED BY <1>5 DEF n

LEMMA OlderEmpty == AllOlder(<<>>) = <<>>
BY DEF AllOlder

LEMMA OlderAppend ==
    ASSUME Span, NEW s \in Seq(AllAges), NEW a \in AllAges
    PROVE  AllOlder(Append(s, a)) = Append(AllOlder(s), Older(a)) /\ Older(a) \in AllAges
<1> DEFINE t == Append(s, a)
           u == Append(AllOlder(s), Older(a))
<1>1. Older(a) \in AllAges BY DEF Span, AllAges, Older
<1> HIDE DEF AllAges
<1>2. /\ t \in Seq(AllAges) /\ Len(t) = Len(s) + 1 /\ Len(s) \in Nat /\ t[Len(s) + 1] = a
      /\ \A i \in 1..Len(s) : t[i] = s[i]
      BY AppendProperties, LenProperties
<1>3. AllOlder(s) \in Seq(AllAges) /\ Len(AllOlder(s)) = Len(s) BY OlderType
<1>4. /\ u \in Seq(AllAges) /\ Len(u) = Len(s) + 1 /\ u[Len(s) + 1] = Older(a)
      /\ \A i \in 1..Len(s) : u[i] = AllOlder(s)[i]
      BY <1>1, <1>3, AppendProperties
<1> HIDE DEF t, u
<1>5. AllOlder(t) \in Seq(AllAges) /\ Len(AllOlder(t)) = Len(t) BY <1>2, OlderType
<1>6. DOMAIN t = 1..Len(s) + 1 /\ DOMAIN s = 1..Len(s) BY <1>2, LenProperties
<1>7. \A i \in 1..Len(s) + 1 : AllOlder(t)[i] = u[i]
      <2>1. TAKE i \in 1..Len(s) + 1
      <2>2. AllOlder(t)[i] = Older(t[i]) BY <1>6 DEF AllOlder
      <2>3. CASE i = Len(s) + 1 BY <1>2, <1>4, <2>2, <2>3
      <2>4. CASE i # Len(s) + 1
            <3>1. i \in 1..Len(s) BY <1>2, <2>4
            <3>2. AllOlder(s)[i] = Older(s[i]) BY <1>6, <3>1 DEF AllOlder
            <3>3. QED BY <1>2, <1>4, <2>2, <3>1, <3>2
      <2>5. QED BY <2>3, <2>4
<1>8. AllOlder(t) = u BY <1>2, <1>4, <1>5, <1>7, SeqEqual
<1>9. QED BY <1>1, <1>8 DEF t, u

LEMMA RecentAppend ==
    ASSUME NEW s \in Seq(AllAges), NEW a \in AllAges
    PROVE  Recent(Append(s, a)) = IF a \in 0..Window - 1 THEN Append(Recent(s), a) ELSE Recent(s)
<1> DEFINE S == 0..Window - 1
<1> HIDE DEF S
<1>1. Among(Append(s, a), S) = IF a \in S THEN Append(Among(s, S), a) ELSE Among(s, S)
      BY AmongAppend
<1>2. QED BY <1>1 DEF S, Recent

\* What is not recent has no part in what is recent later.
LEMMA RecentOlder ==
    ASSUME Span, NEW s \in Seq(AllAges)
    PROVE  Recent(AllOlder(Recent(s))) = Recent(AllOlder(s))
<1> DEFINE P == {t \in Seq(AllAges) : Recent(AllOlder(Recent(t))) = Recent(AllOlder(t))}
<1>1. <<>> \in P BY AmongEmpty, OlderEmpty, EmptySeq DEF Recent
<1>2. ASSUME NEW t \in P, NEW a \in AllAges PROVE Append(t, a) \in P
      <2> DEFINE u == AllOlder(t)
                 w == AllOlder(Recent(t))
                 b == Older(a)
      <2>1. t \in Seq(AllAges) /\ a \in AllAges /\ Recent(w) = Recent(u) OBVIOUS
      <2>2. /\ Recent(t) \in Seq(AllAges) /\ Append(t, a) \in Seq(AllAges)
            /\ u \in Seq(AllAges)
            BY <2>1, AmongType, AppendProperties, OlderType DEF Recent
      <2>3. w \in Seq(AllAges) BY <2>2, OlderType
      <2>4. AllOlder(Append(t, a)) = Append(u, b) /\ b \in AllAges BY <2>1, OlderAppend
      <2>5. AllOlder(Append(Recent(t), a)) = Append(w, b) BY <2>1, <2>2, OlderAppend
      <2>6. a \notin 0..Window - 1 => b \notin 0..Window - 1
            BY <2>1 DEF Span, AllAges, Older
      <2> HIDE DEF u, w, b
      <2>7. Recent(Append(u, b)) = IF b \in 0..Window - 1 THEN Append(Recent(u), b) ELSE Recent(u)
            BY <2>2, <2>4, RecentAppend
      <2>8. Recent(Append(w, b)) = IF b \in 0..Window - 1 THEN Append(Recent(w), b) ELSE Recent(w)
            BY <2>3, <2>4, RecentAppend
      <2>9. Recent(Append(t, a)) = IF a \in 0..Window - 1 THEN Append(Recent(t), a) ELSE Recent(t)
            BY <2>1, RecentAppend
      <2>10. CASE a \in 0..Window - 1 BY <2>1, <2>2, <2>4, <2>5, <2>7, <2>8, <2>9, <2>10
      <2>11. CASE a \notin 0..Window - 1
             <3>1. AllOlder(Recent(Append(t, a))) = w BY <2>9, <2>11 DEF w
             <3>2. QED BY <2>1, <2>2, <2>4, <2>6, <2>7, <2>11, <3>1
      <2>12. QED BY <2>10, <2>11
<1>3. P \in SUBSET Seq(AllAges) OBVIOUS
<1> HIDE DEF P
<1>4. P = Seq(AllAges) BY <1>1, <1>2, <1>3, Sequentially
<1>5. QED BY <1>4 DEF P

LEMMA RecentTwice ==
    ASSUME Span, NEW s \in Seq(AllAges) PROVE Recent(Recent(s)) = Recent(s)
BY AmongTwice DEF Recent

LEMMA RecentFacts ==
    ASSUME Span, NEW s \in Seq(AllAges)
    PROVE  /\ Recent(s) \in Seq(AllAges) /\ Len(Recent(s)) \in Nat /\ Len(Recent(s)) <= Len(s)
           /\ Append(Recent(s), 0) \in Seq(AllAges)
           /\ Len(Append(Recent(s), 0)) = Len(Recent(s)) + 1
           /\ Recent(Append(Recent(s), 0)) = Append(Recent(s), 0)
<1>1. Recent(s) \in Seq(AllAges) /\ Len(Recent(s)) <= Len(s) BY AmongType, AmongShorter DEF Recent
<1>2. 0 \in AllAges /\ 0 \in 0..Window - 1 BY DEF Span, AllAges
<1>3. Recent(Append(Recent(s), 0)) = Append(Recent(Recent(s)), 0)
      BY <1>1, <1>2, RecentAppend
<1>4. QED BY <1>1, <1>2, <1>3, RecentTwice, AppendProperties, LenProperties

LEMMA NoneRecent == Recent(<<>>) = <<>> /\ <<>> \in Seq(AllAges) /\ Len(<<>>) = 0
BY AmongEmpty, EmptySeq DEF Recent

(***************************************************************************)
(* Access: the limiter and the row's lock.                                 *)
(***************************************************************************)
Places ==
    /\ holder \in Requests \cup {Key!NoOne}
    /\ request \in [Requests -> {Key!Idle, "verified", "counting"}]
    /\ session \in {"none", "live"}
    /\ visit \in {Key!Idle, "resolved", "signedIn", "shown"}
    /\ admin \subseteq Key!Operations

\* What the limiter still counts is what was taken within the window.
Limited == slots \in Seq(AllAges) /\ taken = Recent(slots)

\* Who counts holds the row, which still is what was checked.
Holding == \A r \in Requests : request[r] = "counting" => holder = r /\ Key!Entitled

LEMMA PlacesNext == ASSUME Places, Key!Next PROVE Places'
<1> USE DEF Places, Key!Idle, Key!NoOne
<1>1. ASSUME NEW r \in Requests, Key!Verify(r) PROVE Places'
      BY <1>1 DEF Key!Verify, Key!webVars
<1>2. ASSUME NEW r \in Requests, Key!Check(r) PROVE Places'
      BY <1>2 DEF Key!Check, Key!webVars
<1>3. ASSUME NEW r \in Requests, Key!Count(r) PROVE Places'
      BY <1>3 DEF Key!Count, Key!webVars
<1>4. CASE Key!ResetDaily \/ Key!Evict \/ Key!Tick \/ Key!Midnight
      BY <1>4 DEF Key!ResetDaily, Key!Evict, Key!Tick, Key!Midnight, Key!webVars
<1>5. CASE Key!Resolve BY <1>5 DEF Key!Resolve
<1>6. CASE Key!Manage BY <1>6 DEF Key!Manage
<1>7. CASE Key!Login \/ Key!SignIn \/ Key!SessionEnds
      BY <1>7 DEF Key!Login, Key!SignIn, Key!SessionEnds
<1>8. CASE Key!Visit \/ Key!Page \/ Key!Shown BY <1>8 DEF Key!Visit, Key!Page, Key!Shown
<1>9. CASE Key!Restart BY <1>9 DEF Key!Restart
<1>10. QED BY <1>1, <1>2, <1>3, <1>4, <1>5, <1>6, <1>7, <1>8, <1>9 DEF Key!Next

\* What a check does to the limiter.
LEMMA CheckDoes ==
    ASSUME NEW r \in Requests, Key!Check(r)
    PROVE  \/ UNCHANGED <<slots, taken>>
           \/ slots' = Recent(slots) /\ taken' = taken
           \/ /\ slots' = Append(Recent(slots), 0) /\ taken' = Append(taken, 0)
              /\ Len(Recent(slots)) < row.rpm
BY SameWindows DEF Key!Check, Key!HasSlot

LEMMA StaleIs ==
    ASSUME Span, slots \in Seq(AllAges), Key!Stale(slots) PROVE Recent(slots) = <<>>
<1>1. \A i \in DOMAIN slots : slots[i] \notin 0..Window - 1
      <2>1. TAKE i \in DOMAIN slots
      <2>2. slots[i] > 2 * Window BY DEF Key!Stale
      <2>3. slots[i] \in AllAges BY LenProperties, ElementOfSeq
      <2>4. QED BY <2>2, <2>3 DEF Span, AllAges
<1> DEFINE S == 0..Window - 1
<1>2. \A i \in DOMAIN slots : slots[i] \notin S BY <1>1
<1> HIDE DEF S
<1>3. Among(slots, S) = <<>> BY <1>2, AmongNone
<1>4. QED BY <1>3 DEF S, Recent

LEMMA LimitedNext ==
    ASSUME Span, Limits \subseteq Nat, row \in KeyRows, Limited, Key!Next
    PROVE  Limited' /\ (Len(taken') > Len(taken) => Len(taken') <= row.rpm)
<1> DEFINE Goal == Limited' /\ (Len(taken') > Len(taken) => Len(taken') <= row.rpm)
<1>1. /\ slots \in Seq(AllAges) /\ taken = Recent(slots) /\ taken \in Seq(AllAges)
      /\ Len(taken) \in Nat /\ row.rpm \in Nat
      <2>1. slots \in Seq(AllAges) /\ taken = Recent(slots) BY DEF Limited
      <2>2. taken \in Seq(AllAges) /\ Len(taken) \in Nat BY <2>1, RecentFacts
      <2>3. row.rpm \in Nat
            <3>1. row.rpm \in Limits \cup {0} BY DEF KeyRows
            <3>2. \A x \in Limits \cup {0} : x \in Nat OBVIOUS
            <3>3. QED BY <3>1, <3>2, Zenon
      <2>4. QED BY <2>1, <2>2, <2>3
<1>2. CASE UNCHANGED <<slots, taken>> BY <1>1, <1>2 DEF Limited
<1>3. CASE slots' = Recent(slots) /\ taken' = taken
      BY <1>1, <1>3, RecentTwice, RecentFacts DEF Limited
<1>4. CASE /\ slots' = Append(Recent(slots), 0) /\ taken' = Append(taken, 0)
           /\ Len(Recent(slots)) < row.rpm
      <2>1. Limited' BY <1>1, <1>4, RecentFacts DEF Limited
      <2>2. Len(taken') = Len(Recent(slots)) + 1 BY <1>1, <1>4, RecentFacts
      <2>3. Len(taken') <= row.rpm BY <1>1, <1>4, <2>2
      <2>4. QED BY <2>1, <2>3
<1>5. CASE Key!Evict
      <2>1. slots' = <<>> /\ taken' = taken /\ Key!Stale(slots)
            BY <1>5 DEF Key!Evict, Key!histVars
      <2>2. taken' = <<>> BY <1>1, <2>1, StaleIs
      <2>3. QED BY <1>1, <2>1, <2>2, NoneRecent DEF Limited
<1>6. CASE Key!Tick
      <2>1. slots' = AllOlder(slots) /\ taken' = Recent(AllOlder(taken))
            BY <1>6, SameWindows DEF Key!Tick
      <2>2. AllOlder(slots) \in Seq(AllAges) BY <1>1, OlderType
      <2>3. Limited' BY <1>1, <2>1, <2>2, RecentOlder DEF Limited
      <2>4. AllOlder(taken) \in Seq(AllAges) /\ Len(AllOlder(taken)) = Len(taken)
            BY <1>1, OlderType
      <2>5. Len(taken') <= Len(taken) /\ Len(taken') \in Nat BY <2>1, <2>4, RecentFacts
      <2>6. QED BY <1>1, <2>3, <2>5
<1>7. CASE Key!Restart
      <2>1. slots' = <<>> /\ taken' = <<>> BY <1>7 DEF Key!Restart
      <2>2. QED BY <1>1, <2>1, NoneRecent DEF Limited
<1>8. ASSUME NEW r \in Requests, Key!Check(r) PROVE Goal
      BY <1>2, <1>3, <1>4, <1>8, CheckDoes
<1>9. QED BY <1>2, <1>5, <1>6, <1>7, <1>8
          DEF Key!Next, Key!Verify, Key!Count, Key!ResetDaily, Key!Midnight, Key!Resolve,
              Key!Manage, Key!Login, Key!SignIn, Key!SessionEnds, Key!Visit, Key!Page,
              Key!Shown, Key!histVars

LEMMA HoldingNext ==
    ASSUME Key!NoOne \notin Requests, row \in KeyRows, Places, Holding, Key!Next PROVE Holding'
<1> USE DEF Holding
<1>1. CASE UNCHANGED <<request, holder, row>> BY <1>1 DEF Key!Entitled
<1>2. ASSUME NEW r \in Requests, Key!Verify(r) PROVE Holding'
      BY <1>2 DEF Key!Verify, Places, Key!Entitled
<1>3. ASSUME NEW r \in Requests, Key!Check(r) PROVE Holding'
      BY <1>3 DEF Key!Check, Places, Key!Entitled, Key!Idle
<1>4. ASSUME NEW r \in Requests, Key!Count(r) PROVE Holding'
      <2>1. \A o \in Requests : request[o] = "counting" => o = r BY <1>4 DEF Key!Count
      <2>2. request' = [request EXCEPT ![r] = Key!Idle] BY <1>4 DEF Key!Count
      <2>3. \A o \in Requests : request'[o] # "counting" BY <2>1, <2>2 DEF Places, Key!Idle
      <2>4. QED BY <2>3
<1>5. CASE /\ holder = Key!NoOne /\ UNCHANGED <<request, holder>>
      <2>1. \A o \in Requests : request[o] # "counting" BY <1>5
      <2>2. QED BY <1>5, <2>1
<1>6. CASE Key!Midnight
      <2>1. /\ row' = [row EXCEPT !.stale = TRUE] /\ UNCHANGED <<request, holder>>
            BY <1>6 DEF Key!Midnight
      <2>2. Key!Entitled => Key!Entitled' BY <2>1 DEF Key!Entitled, KeyRows
      <2>3. QED BY <2>1, <2>2
<1>7. CASE Key!Restart
      <2>1. \A o \in Requests : request'[o] # "counting" BY <1>7 DEF Key!Restart, Key!Idle
      <2>2. QED BY <2>1
<1>8. QED BY <1>1, <1>2, <1>3, <1>4, <1>5, <1>6, <1>7
          DEF Key!Next, Key!ResetDaily, Key!Evict, Key!Tick, Key!Resolve,
              Key!Manage, Key!Login, Key!SignIn, Key!SessionEnds, Key!Visit, Key!Page,
              Key!Shown

LEMMA EntitledStep ==
    ASSUME Rated, Holding, Places, Key!Next
    PROVE  /\ counted' > counted => Key!Entitled
           /\ visit' = "shown" /\ visit # "shown" => row.stored
<1> USE DEF Rated, KeyRows
<1>1. ASSUME NEW r \in Requests, Key!Count(r)
      PROVE  Key!Entitled /\ UNCHANGED visit
      BY <1>1 DEF Key!Count, Holding, Key!webVars
<1>2. CASE UNCHANGED <<counted, visit>> BY <1>2
<1>3. CASE counted' = 0 /\ UNCHANGED visit BY <1>3
<1>4. CASE Key!Page BY <1>4 DEF Key!Page, Key!histVars, Key!Idle
<1>5. CASE Key!Login \/ Key!SignIn \/ Key!Visit \/ Key!Shown \/ Key!Restart
      BY <1>5 DEF Key!Login, Key!SignIn, Key!Visit, Key!Shown, Key!Restart, Key!histVars, Key!Idle
<1>6. CASE Key!Manage BY <1>2, <1>3, <1>6 DEF Key!Manage, Key!Statement
<1>7. QED BY <1>1, <1>2, <1>3, <1>4, <1>5, <1>6
          DEF Key!Next, Key!Verify, Key!Check, Key!ResetDaily, Key!Evict, Key!Tick, Key!Midnight,
              Key!Resolve, Key!SessionEnds, Key!webVars, Key!histVars

\* The slots taken within any minute fit the key's limit, and only a key that is stored,
\* active and under its daily limit is served, for any requests, limits and length of the
\* window (middleware/rateLimiter.ts:67, services/apiKeyManager.ts:256, routes/account.ts:78).
THEOREM WindowKeptHolds ==
    ASSUME Span, Limits \subseteq Nat, Key!NoOne \notin Requests
    PROVE  MCSpec => []Key!TypeOK /\ Key!WindowKept /\ Key!EntitledWhenServed
<1> DEFINE Inv == Rated /\ Places /\ Limited /\ Holding
<1>1. MCInit => Inv
      <2>1. MCInit => Rated BY RowsMade DEF MCInit, Key!Init, Rated
      <2>2. MCInit => Places
            BY DEF MCInit, Key!Init, Places, Key!Idle, Key!NoOne, Key!Operations
      <2>3. MCInit => Limited BY NoneRecent DEF MCInit, Key!Init, Limited
      <2>4. MCInit => Holding BY DEF MCInit, Key!Init, Holding, Key!Idle
      <2>5. QED BY <2>1, <2>2, <2>3, <2>4
<1>2. [MCNext]_MCVars => Key!Next \/ UNCHANGED accessVars
      BY DEF MCNext, MCVars, accessVars
<1>3. Inv /\ UNCHANGED accessVars => Inv'
      BY DEF accessVars, Rated, KeyRows, Places, Limited, Holding, Key!Entitled
<1>4. Inv /\ Key!Next => Inv'
      <2>1. Inv /\ Key!Next => Rated' BY RatedNext
      <2>2. Inv /\ Key!Next => Places' BY PlacesNext
      <2>3. Inv /\ Key!Next => Limited' BY LimitedNext DEF Rated
      <2>4. Inv /\ Key!Next => Holding' BY HoldingNext DEF Rated
      <2>5. QED BY <2>1, <2>2, <2>3, <2>4
<1>5. Inv /\ [MCNext]_MCVars => Inv' BY <1>2, <1>3, <1>4
<1>6. Inv => Key!TypeOK
      <2>1. SUFFICES ASSUME Inv PROVE Key!TypeOK OBVIOUS
      <2>2. slots \in Seq(AllAges) /\ taken \in Seq(AllAges) BY <2>1, RecentFacts DEF Limited
      <2>3. 0..Key!Oldest = AllAges BY SameWindows DEF AllAges
      <2>4. counted \in Nat BY <2>1 DEF Rated, KeyRows
      <2>5. QED BY <2>1, <2>2, <2>3, <2>4 DEF Key!TypeOK, Rated, KeyRows, Places
<1>7. Inv /\ [MCNext]_MCVars
        => [Len(taken') > Len(taken) => Len(taken') <= row.rpm]_(Key!vars)
      <2>1. UNCHANGED accessVars => UNCHANGED Key!vars BY DEF accessVars, Key!vars
      <2>2. Inv /\ Key!Next => (Len(taken') > Len(taken) => Len(taken') <= row.rpm)
            BY LimitedNext DEF Rated
      <2>3. QED BY <1>2, <2>1, <2>2
<1>8. Inv /\ [MCNext]_MCVars
        => [/\ counted' > counted => Key!Entitled
            /\ visit' = "shown" /\ visit # "shown" => row.stored]_(Key!vars)
      <2>1. UNCHANGED accessVars => UNCHANGED Key!vars BY DEF accessVars, Key!vars
      <2>2. Inv /\ Key!Next => /\ counted' > counted => Key!Entitled
                               /\ visit' = "shown" /\ visit # "shown" => row.stored
            BY EntitledStep
      <2>3. QED BY <1>2, <2>1, <2>2
<1> HIDE DEF Inv
<1>9. QED BY <1>1, <1>5, <1>6, <1>7, <1>8, PTL
          DEF MCSpec, MCVars, Key!WindowKept, Key!EntitledWhenServed

(***************************************************************************)
(* AdminAccess.                                                            *)
(***************************************************************************)
Visiting == [at : {"idle", "read", "served", "refused"}, cookie : Cookies \cup {""},
             found : BOOLEAN, late : BOOLEAN]
Sessions ==
    /\ browser \in [Cookies -> {"none", "inserting", "held", "lost"}]
    /\ rows \subseteq Cookies /\ revoked \subseteq Cookies
    /\ due \in [Cookies -> -1..Lifetime]
    /\ visits \in [Visits -> Visiting]

Counting == tries \in Seq(AllAges) /\ admitted = Recent(tries)

\* A cookie the browser holds has its row until the session is revoked or over.
Rowed ==
    \A c \in Cookies :
        /\ c \in rows \cup revoked => browser[c] = "held"
        /\ c \in rows => c \notin revoked
        /\ browser[c] = "held" /\ c \notin rows => c \in revoked \/ due[c] <= 0

\* What a visit has read tells what the session still is, or was when it began.
Informed ==
    \A v \in Visits : visits[v].at = "read" =>
        /\ visits[v].cookie \in Cookies /\ browser[visits[v].cookie] = "held"
        /\ visits[v].found => ~visits[v].late
        /\ ~visits[v].found => visits[v].cookie \in revoked \/ due[visits[v].cookie] <= 0

LEMMA VisitAt ==
    ASSUME NEW x \in Visiting, NEW a \in {"idle", "read", "served", "refused"}
    PROVE  [x EXCEPT !.at = a] \in Visiting /\ [x EXCEPT !.at = a].at = a
BY DEF Visiting

LEMMA CountingNext ==
    ASSUME Span, MaxLogins \in Nat, Counting, Panel!Next
    PROVE  Counting' /\ (Len(admitted') > Len(admitted) => Len(admitted') <= MaxLogins)
<1>1. /\ tries \in Seq(AllAges) /\ admitted = Recent(tries) /\ admitted \in Seq(AllAges)
      /\ Len(admitted) \in Nat
      BY RecentFacts DEF Counting
<1>2. CASE UNCHANGED <<tries, admitted>> BY <1>1, <1>2 DEF Counting
<1>3. CASE Panel!Login
      <2>1. /\ tries' = Append(Recent(tries), 0) /\ admitted' = Append(admitted, 0)
            /\ Len(Recent(tries)) < MaxLogins
            BY <1>3, SameWindows DEF Panel!Login
      <2>2. Counting' BY <1>1, <2>1, RecentFacts DEF Counting
      <2>3. Len(admitted') = Len(Recent(tries)) + 1 BY <1>1, <2>1, RecentFacts
      <2>4. QED BY <1>1, <2>1, <2>2, <2>3
<1>4. CASE Panel!Tick
      <2>1. tries' = AllOlder(tries) /\ admitted' = Recent(AllOlder(admitted))
            BY <1>4, SameWindows DEF Panel!Tick
      <2>2. AllOlder(tries) \in Seq(AllAges) BY <1>1, OlderType
      <2>3. Counting' BY <1>1, <2>1, <2>2, RecentOlder DEF Counting
      <2>4. AllOlder(admitted) \in Seq(AllAges) /\ Len(AllOlder(admitted)) = Len(admitted)
            BY <1>1, OlderType
      <2>5. Len(admitted') <= Len(admitted) /\ Len(admitted') \in Nat BY <2>1, <2>4, RecentFacts
      <2>6. QED BY <1>1, <2>3, <2>5
<1>5. CASE Panel!Evict
      <2> DEFINE S == 0..Window - 1
                 T == 0..2 * Window - 1
      <2>1. tries' = Among(tries, T) /\ admitted' = admitted
            BY <1>5, SameWindows DEF Panel!Evict
      <2>2. S \subseteq T BY DEF Span
      <2> HIDE DEF S, T
      <2>3. Among(Among(tries, T), S) = Among(tries, S) /\ Among(tries, T) \in Seq(AllAges)
            BY <1>1, <2>2, AmongTwice, AmongType
      <2>4. Recent(tries') = Recent(tries) BY <2>1, <2>3 DEF Recent, S
      <2>5. QED BY <1>1, <2>1, <2>3, <2>4 DEF Counting
<1>6. CASE Panel!Restart
      <2>1. tries' = <<>> /\ admitted' = <<>> BY <1>6 DEF Panel!Restart
      <2>2. QED BY <1>1, <2>1, NoneRecent DEF Counting
<1>7. QED BY <1>2, <1>3, <1>4, <1>5, <1>6
          DEF Panel!Next, Panel!CleanUp, Panel!Inserted, Panel!Logout, Panel!Ask, Panel!Answer,
              Panel!Answered

LEMMA SessionsNext ==
    ASSUME Lifetime \in Nat, Sessions, Rowed, Informed, Panel!Next
    PROVE  Sessions' /\ Rowed' /\ Informed'
<1> USE DEF Sessions, Rowed, Informed
<1>1. CASE UNCHANGED <<browser, rows, due, visits, revoked>> BY <1>1
<1>2. CASE Panel!Login
      <2>1. CASE UNCHANGED Panel!sessionVars
            BY <1>1, <1>2, <2>1 DEF Panel!Login, Panel!sessionVars
      <2>2. ASSUME NEW c \in Cookies, browser[c] = "none",
                   browser' = [browser EXCEPT ![c] = "inserting"],
                   due' = [due EXCEPT ![c] = Lifetime], UNCHANGED <<rows, revoked>>,
                   UNCHANGED visits
            PROVE  Sessions' /\ Rowed' /\ Informed'
            <3>1. Sessions'
                  BY <2>2
            <3>2. Rowed' BY <2>2
            <3>3. Informed' BY <2>2
            <3>4. QED BY <3>1, <3>2, <3>3
      <2>3. QED BY <1>2, <2>1, <2>2 DEF Panel!Login
<1>3. CASE Panel!Tick
      <2>1. /\ due' = [c \in Cookies |-> IF due[c] < 0 THEN due[c] ELSE due[c] - 1]
            /\ UNCHANGED <<browser, rows, visits, revoked>>
            BY <1>3 DEF Panel!Tick
      <2>2. \A c \in Cookies : due'[c] \in -1..Lifetime /\ (due[c] <= 0 => due'[c] <= 0)
            BY <2>1
      <2>3. Sessions'
            <3>1. due' \in [Cookies -> -1..Lifetime] BY <2>1, <2>2
            <3>2. QED BY <2>1, <3>1
      <2>4. Rowed' BY <2>1, <2>2
      <2>5. Informed' BY <2>1, <2>2
      <2>6. QED BY <2>3, <2>4, <2>5
<1>4. CASE Panel!CleanUp
      <2>1. rows' = {c \in rows : due[c] > 0} /\ UNCHANGED <<browser, due, visits, revoked>>
            BY <1>4 DEF Panel!CleanUp, Panel!Unexpired
      <2>2. \A c \in Cookies : c \in rows /\ c \notin rows' => due[c] <= 0 BY <2>1
      <2>3. Rowed' BY <2>1, <2>2
      <2>4. QED BY <2>1, <2>3
<1>5. CASE Panel!Restart
      <2>1. /\ rows' = {c \in rows : due[c] > 0} /\ UNCHANGED <<due, revoked>>
            /\ visits' = [v \in Visits |-> Panel!Idle]
            /\ browser' = [c \in Cookies |-> IF browser[c] = "inserting" THEN "lost" ELSE browser[c]]
            BY <1>5 DEF Panel!Restart, Panel!Left, Panel!Unexpired
      <2>2. \A c \in Cookies : c \in rows /\ c \notin rows' => due[c] <= 0 BY <2>1
      <2>3. Panel!Idle \in Visiting /\ Panel!Idle.at = "idle" BY DEF Panel!Idle, Visiting
      <2>4. Sessions' BY <2>1, <2>3
      <2>5. Rowed' BY <2>1, <2>2
      <2>6. Informed' BY <2>1, <2>3
      <2>7. QED BY <2>4, <2>5, <2>6
<1>6. ASSUME NEW c \in Cookies, Panel!Inserted(c) PROVE Sessions' /\ Rowed' /\ Informed'
      BY <1>6 DEF Panel!Inserted
<1>7. ASSUME NEW c \in Cookies, Panel!Logout(c) PROVE Sessions' /\ Rowed' /\ Informed'
      BY <1>7 DEF Panel!Logout
<1>8. ASSUME NEW c \in Cookies, NEW v \in Visits, Panel!Ask(v, c)
      PROVE  Sessions' /\ Rowed' /\ Informed'
      <2> DEFINE asked == [at |-> "read", cookie |-> c, found |-> c \in rows,
                           late |-> c \in revoked]
      <2>1. /\ browser[c] = "held" /\ visits' = [visits EXCEPT ![v] = asked]
            /\ UNCHANGED <<browser, rows, due, revoked>>
            BY <1>8 DEF Panel!Ask, Panel!sessionVars
      <2>2. asked \in Visiting
            <3>1. (c \in rows) \in BOOLEAN /\ (c \in revoked) \in BOOLEAN OBVIOUS
            <3>2. QED BY <3>1 DEF Visiting
      <2>3. Sessions' BY <2>1, <2>2
      <2>4. Rowed' BY <2>1
      <2>5. visits'[v] = asked /\ \A w \in Visits \ {v} : visits'[w] = visits[w] BY <2>1
      <2>6. /\ asked.at = "read" /\ asked.cookie = c /\ asked.found = (c \in rows)
            /\ asked.late = (c \in revoked)
            OBVIOUS
      <2> HIDE DEF asked
      <2>7. Informed' BY <2>1, <2>5, <2>6
      <2>8. QED BY <2>3, <2>4, <2>7
<1>9. ASSUME NEW v \in Visits, Panel!Answer(v) PROVE Sessions' /\ Rowed' /\ Informed'
      <2> DEFINE c == visits[v].cookie
      <2>1. visits[v].at = "read" /\ c \in Cookies /\ UNCHANGED <<browser, due, revoked>>
            BY <1>9 DEF Panel!Answer
      <2>2. rows' = rows \/ (rows' = rows \ {c} /\ due[c] < 0)
            BY <1>9 DEF Panel!Answer, Panel!Over
      <2>3. Rowed'
            <3>1. \A d \in Cookies : d \in rows /\ d \notin rows' => due[d] <= 0 BY <2>1, <2>2
            <3>2. rows' \subseteq rows BY <2>2
            <3>3. QED BY <2>1, <3>1, <3>2
      <2>4. \A w \in Visits \ {v} : visits'[w] = visits[w]
            BY <1>9 DEF Panel!Answer
      <2>5. visits' \in [Visits -> Visiting] /\ visits'[v].at # "read"
            <3>1. Panel!Idle \in Visiting /\ Panel!Idle.at = "idle" BY DEF Panel!Idle, Visiting
            <3>2. \E x \in {[visits[v] EXCEPT !.at = "served"], [visits[v] EXCEPT !.at = "refused"],
                             Panel!Idle} :
                      visits' = [visits EXCEPT ![v] = x]
                  BY <1>9 DEF Panel!Answer
            <3>3. \A x \in {[visits[v] EXCEPT !.at = "served"], [visits[v] EXCEPT !.at = "refused"],
                             Panel!Idle} : x \in Visiting /\ x.at # "read"
                  <4>1. visits[v] \in Visiting OBVIOUS
                  <4>2. QED BY <3>1, <4>1, VisitAt
            <3>4. QED BY <3>2, <3>3
      <2>6. Sessions' BY <2>1, <2>2, <2>5
      <2>7. Informed' BY <2>1, <2>4, <2>5
      <2>8. QED BY <2>3, <2>6, <2>7
<1>10. ASSUME NEW v \in Visits, Panel!Answered(v) PROVE Sessions' /\ Rowed' /\ Informed'
      <2>1. visits' = [visits EXCEPT ![v] = Panel!Idle] /\ UNCHANGED <<browser, rows, due, revoked>>
            BY <1>10 DEF Panel!Answered, Panel!sessionVars
      <2>2. Panel!Idle \in Visiting /\ Panel!Idle.at = "idle" BY DEF Panel!Idle, Visiting
      <2>3. Sessions' BY <2>1, <2>2
      <2>4. Rowed' BY <2>1
      <2>5. Informed' BY <2>1, <2>2
      <2>6. QED BY <2>3, <2>4, <2>5
<1>11. CASE Panel!Evict BY <1>1, <1>11 DEF Panel!Evict, Panel!sessionVars
<1>12. QED BY <1>2, <1>3, <1>4, <1>5, <1>6, <1>7, <1>8, <1>9, <1>10, <1>11 DEF Panel!Next

VisitStep ==
    \A v \in Visits :
        LET c == visits[v].cookie IN
        visits[v].at = "read" =>
            /\ visits'[v].at = "served" => ~visits[v].late /\ due[c] >= 0
            /\ visits'[v].at = "refused" => c \in revoked \/ due[c] <= 0

LEMMA Signs ==
    ASSUME Lifetime \in Nat
    PROVE  \A d \in -1..Lifetime : (~(d < 0) => d >= 0) /\ (d < 0 => d <= 0)
OBVIOUS

LEMMA VisitsStep ==
    ASSUME Lifetime \in Nat, Sessions, Informed, Panel!Next PROVE VisitStep
<1> USE DEF Sessions, Informed, Visiting
<1>1. CASE UNCHANGED visits BY <1>1 DEF VisitStep
<1>2. CASE Panel!Restart
      BY <1>2 DEF Panel!Restart, Panel!Idle, VisitStep
<1>3. ASSUME NEW c \in Cookies, NEW v \in Visits, Panel!Ask(v, c) PROVE VisitStep
      BY <1>3 DEF Panel!Ask, VisitStep
<1>4. ASSUME NEW v \in Visits, Panel!Answered(v) PROVE VisitStep
      BY <1>4 DEF Panel!Answered, VisitStep
<1>5. ASSUME NEW v \in Visits, Panel!Answer(v) PROVE VisitStep
      <2> DEFINE c == visits[v].cookie
      <2>1. visits[v].at = "read" /\ c \in Cookies /\ \A w \in Visits \ {v} : visits'[w] = visits[w]
            BY <1>5 DEF Panel!Answer
      <2>2. due[c] \in -1..Lifetime BY <2>1
      <2> DEFINE served == [visits[v] EXCEPT !.at = "served"]
                 refused == [visits[v] EXCEPT !.at = "refused"]
      <2>3. \/ ~visits[v].found /\ visits' = [visits EXCEPT ![v] = refused]
            \/ visits[v].found /\ ~(due[c] < 0) /\ visits' = [visits EXCEPT ![v] = served]
            \/ visits[v].found /\ due[c] < 0
               /\ \/ visits' = [visits EXCEPT ![v] = refused]
                  \/ visits' = [visits EXCEPT ![v] = Panel!Idle]
            BY <1>5 DEF Panel!Answer, Panel!Over
      <2>4. served.at = "served" /\ refused.at = "refused" /\ Panel!Idle.at = "idle"
            <3>1. visits[v] \in Visiting OBVIOUS
            <3>2. QED BY <3>1, VisitAt DEF Panel!Idle
      <2> HIDE DEF served, refused
      <2>5. /\ visits'[v].at = "served" => visits[v].found /\ ~(due[c] < 0)
            /\ visits'[v].at = "refused" => ~visits[v].found \/ due[c] < 0
            BY <2>3, <2>4
      <2>6. /\ visits'[v].at = "served" => ~visits[v].late /\ due[c] >= 0
            /\ visits'[v].at = "refused" => c \in revoked \/ due[c] <= 0
            <3>1. /\ visits[v].found => ~visits[v].late
                  /\ ~visits[v].found => c \in revoked \/ due[c] <= 0
                  BY <2>1
            <3>2. (~(due[c] < 0) => due[c] >= 0) /\ (due[c] < 0 => due[c] <= 0)
                  BY <2>2, Signs, Zenon
            <3>3. QED BY <2>5, <3>1, <3>2
      <2>7. \A w \in Visits \ {v} :
                visits[w].at = "read" => visits'[w].at # "served" /\ visits'[w].at # "refused"
            BY <2>1
      <2>8. QED BY <2>6, <2>7 DEF VisitStep
<1>6. QED BY <1>1, <1>2, <1>3, <1>4, <1>5
          DEF Panel!Next, Panel!Login, Panel!Tick, Panel!Evict, Panel!CleanUp, Panel!Inserted,
              Panel!Logout

\* An address gets no more logins within a minute than its limit, and an admin page is
\* served for a session that is neither logged out nor over and refused to no other, for any
\* cookies, visits, limit and lifetime (rateLimiter.ts:40, sessionManager.ts:69).
THEOREM LoginsLimitedHolds ==
    ASSUME Span, MaxLogins \in Nat, Lifetime \in Nat
    PROVE  MCSpec => []Panel!TypeOK /\ Panel!LoginsLimited /\ Panel!VisitsTrue
<1> DEFINE Inv == Counting /\ Sessions /\ Rowed /\ Informed
<1>1. MCInit => Inv
      <2>1. SUFFICES ASSUME MCInit PROVE Inv OBVIOUS
      <2>2. Panel!Init BY <2>1 DEF MCInit
      <2>3. Counting BY <2>2, NoneRecent DEF Panel!Init, Counting
      <2>4. Panel!Idle \in Visiting /\ Panel!Idle.at = "idle" BY DEF Panel!Idle, Visiting
      <2>5. Sessions
            <3>1. browser \in [Cookies -> {"none", "inserting", "held", "lost"}]
                  BY <2>2 DEF Panel!Init
            <3>2. due \in [Cookies -> -1..Lifetime] BY <2>2 DEF Panel!Init
            <3>3. visits \in [Visits -> Visiting] BY <2>2, <2>4 DEF Panel!Init
            <3>4. QED BY <2>2, <3>1, <3>2, <3>3 DEF Panel!Init, Sessions
      <2>6. Rowed BY <2>2 DEF Panel!Init, Rowed
      <2>7. Informed BY <2>2, <2>4 DEF Panel!Init, Informed
      <2>8. QED BY <2>3, <2>5, <2>6, <2>7
<1>2. [MCNext]_MCVars => Panel!Next \/ UNCHANGED adminVars
      BY DEF MCNext, MCVars, adminVars
<1>3. Inv /\ UNCHANGED adminVars => Inv'
      BY DEF adminVars, Counting, Sessions, Rowed, Informed
<1>4. Inv /\ [MCNext]_MCVars => Inv' BY <1>2, <1>3, CountingNext, SessionsNext
<1>5. Inv => Panel!TypeOK
      <2>1. SUFFICES ASSUME Inv PROVE Panel!TypeOK OBVIOUS
      <2>2. tries \in Seq(AllAges) /\ admitted \in Seq(AllAges) BY <2>1, RecentFacts DEF Counting
      <2>3. 0..Panel!Oldest = AllAges BY SameWindows DEF AllAges
      <2>4. \A v \in Visits : visits[v].at \in {"idle", "read", "served", "refused"}
            BY <2>1 DEF Sessions, Visiting
      <2>5. QED BY <2>1, <2>2, <2>3, <2>4 DEF Panel!TypeOK, Sessions
<1>6. Inv /\ [MCNext]_MCVars
        => [Len(admitted') > Len(admitted) => Len(admitted') <= MaxLogins]_(Panel!vars)
      <2>1. UNCHANGED adminVars => UNCHANGED Panel!vars BY DEF adminVars, Panel!vars
      <2>2. QED BY <1>2, <2>1, CountingNext
<1>7. Inv /\ [MCNext]_MCVars => [VisitStep]_(Panel!vars)
      <2>1. UNCHANGED adminVars => UNCHANGED Panel!vars BY DEF adminVars, Panel!vars
      <2>2. QED BY <1>2, <2>1, VisitsStep
<1> HIDE DEF Inv
<1>8. QED BY <1>1, <1>4, <1>5, <1>6, <1>7, PTL
          DEF MCSpec, MCVars, Panel!LoginsLimited, Panel!VisitsTrue, VisitStep

\* Both, as the run states them.
THEOREM ServedWithinLimitsHolds ==
    ASSUME Span, Limits \subseteq Nat, Key!NoOne \notin Requests,
           MaxLogins \in Nat, Lifetime \in Nat
    PROVE  MCSpec => ServedWithinLimits
BY WindowKeptHolds, LoginsLimitedHolds, PTL DEF ServedWithinLimits
=============================================================================
