------------------------------ MODULE Database ------------------------------
(***************************************************************************)
(* services/database.ts: transactions behind the facade, on SQLite (one    *)
(* connection, transactions queued behind a promise tail, statements       *)
(* between them) and on PostgreSQL (a client for each transaction).  The   *)
(* callers are those of one turn of the event loop: on SQLite every await  *)
(* of a transaction ends within the turn, so others cannot interleave.     *)
(***************************************************************************)
EXTENDS Naturals, Sequences

CONSTANTS
    Callers,
    MaxCalls   \* bound: the calls made

VARIABLES
    kind,      \* sqlite or postgres
    call,      \* what each caller is doing: a lone write or a transaction of two
    tail,      \* SQLite: the callers behind the promise tail, the one at work first
    open,      \* SQLite: the connection is inside a transaction
    buffer,    \* the writes not committed, of the connection or of a client
    stored,    \* per caller, how many of its writes are in the tables
    answer,    \* what each caller was told
    calls
vars == <<kind, call, tail, open, buffer, stored, answer, calls>>

Idle == "idle"
Nothing == [c \in Callers |-> 0]

Init ==
    /\ kind \in {"sqlite", "postgres"}
    /\ call = [c \in Callers |-> Idle] /\ tail = <<>> /\ open = FALSE
    /\ buffer = [o \in Callers |-> Nothing] /\ stored = Nothing
    /\ answer = [c \in Callers |-> "none"] /\ calls = 0

\* A caller asks (again) while no write of its own is in the tables or a buffer, so
\* that what the tables show of it is told apart.
Ask(c, what, tell) ==
    /\ call[c] = Idle /\ calls < MaxCalls /\ calls' = calls + 1
    /\ stored[c] = 0 /\ \A o \in Callers : buffer[o][c] = 0
    /\ call' = [call EXCEPT ![c] = what]
    /\ answer' = [answer EXCEPT ![c] = tell]

\* run() outside a transaction.  On SQLite it lands in whatever transaction is open.
Lone(c) ==
    /\ Ask(c, Idle, "lone")
    /\ IF open THEN buffer' = [buffer EXCEPT ![Head(tail)][c] = 1] /\ UNCHANGED stored
       ELSE stored' = [stored EXCEPT ![c] = 1] /\ UNCHANGED buffer
    /\ UNCHANGED <<kind, tail, open>>

Enter(c) ==
    /\ Ask(c, "waiting", "none")
    /\ tail' = IF kind = "sqlite" THEN Append(tail, c) ELSE tail
    /\ UNCHANGED <<kind, open, buffer, stored>>

MyTurn(c) == kind = "sqlite" => Head(tail) = c

\* BEGIN fails on a connection that is inside a transaction.
Begin(c) ==
    /\ call[c] = "waiting" /\ MyTurn(c)
    /\ ~ (kind = "sqlite" /\ open)
    /\ call' = [call EXCEPT ![c] = "begun"]
    /\ open' = (kind = "sqlite")
    /\ UNCHANGED <<kind, tail, buffer, stored, answer, calls>>

\* Seeded fault: only a transaction that commits lets the next one in.
ReleaseOnCommit(done) == tail' = IF kind = "sqlite" /\ done THEN Tail(tail) ELSE tail

\* The tail's promise settles, whether or not the transaction was committed.
Release(done) == tail' = IF kind = "sqlite" THEN Tail(tail) ELSE tail

BeginFails(c) ==
    /\ call[c] = "waiting" /\ MyTurn(c)
    /\ call' = [call EXCEPT ![c] = Idle] /\ answer' = [answer EXCEPT ![c] = "failed"]
    /\ Release(FALSE)
    /\ UNCHANGED <<kind, open, buffer, stored, calls>>

\* Seeded fault: on PostgreSQL work() writes through the pool, not through its client.
WriteOutside(c) ==
    /\ call[c] \in {"begun", "half"}
    /\ call' = [call EXCEPT ![c] = IF @ = "begun" THEN "half" ELSE "whole"]
    /\ stored' = [stored EXCEPT ![c] = @ + 1]
    /\ UNCHANGED <<kind, tail, open, buffer, answer, calls>>

\* One of work()'s two writes, each behind an await.
Write(c) ==
    /\ call[c] \in {"begun", "half"}
    /\ call' = [call EXCEPT ![c] = IF @ = "begun" THEN "half" ELSE "whole"]
    /\ buffer' = [buffer EXCEPT ![c][c] = @ + 1]
    /\ UNCHANGED <<kind, tail, open, stored, answer, calls>>

Commit(c) ==
    /\ call[c] = "whole"
    /\ stored' = [o \in Callers |-> stored[o] + buffer[c][o]]
    /\ buffer' = [buffer EXCEPT ![c] = Nothing]
    /\ call' = [call EXCEPT ![c] = Idle] /\ answer' = [answer EXCEPT ![c] = "done"]
    /\ open' = FALSE /\ Release(TRUE)
    /\ UNCHANGED <<kind, calls>>

\* work() throws, or COMMIT does; then ROLLBACK.
Rollback(c) ==
    /\ call[c] \in {"begun", "half", "whole"}
    /\ buffer' = [buffer EXCEPT ![c] = Nothing]
    /\ call' = [call EXCEPT ![c] = Idle] /\ answer' = [answer EXCEPT ![c] = "failed"]
    /\ open' = FALSE /\ Release(FALSE)
    /\ UNCHANGED <<kind, stored, calls>>

Step(c) == Begin(c) \/ BeginFails(c) \/ Write(c) \/ Commit(c) \/ Rollback(c)
Next == \E c \in Callers : Lone(c) \/ Enter(c) \/ Step(c)

Spec == Init /\ [][Next]_vars
FairSpec == Spec /\ \A c \in Callers : WF_vars(Step(c))

TypeOK ==
    /\ kind \in {"sqlite", "postgres"} /\ open \in BOOLEAN /\ calls \in 0..MaxCalls
    /\ call \in [Callers -> {Idle, "waiting", "begun", "half", "whole"}]
    /\ tail \in Seq(Callers) /\ stored \in [Callers -> 0..2]
    /\ buffer \in [Callers -> [Callers -> 0..2]]
    /\ answer \in [Callers -> {"none", "lone", "done", "failed"}]

\* A transaction that was answered is in the tables whole or not at all, and the
\* tables never show half of one, whoever ran beside it.
AllOrNothing ==
    \A c \in Callers :
        /\ answer[c] = "done" => stored[c] = 2
        /\ answer[c] = "failed" => stored[c] = 0
        /\ call[c] # Idle => stored[c] = 0

\* Whoever waits for its transaction is answered, also behind one that fails.
TurnComes == \A c \in Callers : call[c] = "waiting" ~> answer[c] \in {"done", "failed"}
=============================================================================
