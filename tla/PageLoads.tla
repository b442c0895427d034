----------------------------- MODULE PageLoads -----------------------------
(***************************************************************************)
(* The paged and filtered lists of the front end and the queries that      *)
(* serve them: the request history of the admin (LogsPage) and of an       *)
(* account (AccountPage), the error list (ErrorsPage) and the public       *)
(* status (StatusPage, whose filter is its window).  A list is loaded by   *)
(* one or two requests, whose answers may overtake those of an earlier     *)
(* load, while rows arrive and are deleted.                                *)
(***************************************************************************)
EXTENDS Integers, FiniteSets

CONSTANTS
    Filters,     \* values of a page's filters
    Limit,       \* rows of a page: 25 or 50 in the code
    MaxRows,     \* bound: rows that match a filter
    MaxLoads     \* bound: loads the user or a timer starts

VARIABLES
    page,        \* which page is open
    count,       \* rows of the store that match, the same under each filter
    filter,      \* what the controls say
    offset, shown, \* where the list stands; what it shows: filter, from, rows, total
    loading, failed, \* the spinner and the error line
    generation,  \* loads started
    flights,     \* requests under way
    shrank       \* history: rows were deleted since the newest load began

vars == <<page, count, filter, offset, shown, loading, failed, generation, flights, shrank>>
listVars == <<filter, offset, shown, loading, failed, generation, flights, shrank>>

Nothing == [filter |-> "none", from |-> 0, rows |-> 0, total |-> 0]
Guarded == page \in {"logs", "account"}
Paged == page # "status"

Flight(f, from, gen, step) ==
    [filter |-> f, from |-> from, gen |-> gen, step |-> step, answer |-> Nothing]

Init ==
    /\ page \in {"logs", "account", "errors", "status"}
    /\ count = MaxRows
    /\ filter = CHOOSE f \in Filters : TRUE
    /\ offset = 0 /\ shown = Nothing /\ loading = FALSE /\ failed = FALSE
    /\ generation = 0 /\ flights = {} /\ shrank = FALSE

(***************************************************************************)
(* The store and its routes.                                               *)
(***************************************************************************)
Arrive ==
    /\ count < MaxRows /\ count' = count + 1
    /\ UNCHANGED <<page, listVars>>

\* clearErrorLogs() of another operator, or the retention of the request log.
Delete ==
    /\ count' \in 0..count - 1 /\ shrank' = TRUE
    /\ UNCHANGED <<page, filter, offset, shown, loading, failed, generation, flights>>

\* getRequestHistory(), getErrorLogs() with its count, or the uptime query.
Page(f, from) ==
    LET left == count - from IN
    [filter |-> f, from |-> from, total |-> count,
     rows |-> IF left < 0 THEN 0 ELSE IF left < Limit THEN left ELSE Limit]
Serve(flight) ==
    /\ flight.answer = Nothing
    /\ flights' = (flights \ {flight}) \cup {[flight EXCEPT !.answer = Page(flight.filter, flight.from)]}
    /\ UNCHANGED <<page, count, filter, offset, shown, loading, failed, generation, shrank>>

(***************************************************************************)
(* A load.                                                                 *)
(***************************************************************************)
\* loadRequests(), loadErrors() and load(): the error list starts none while one is under way.
Load(f, from) ==
    /\ generation < MaxLoads
    /\ IF page = "errors" /\ loading
       THEN shrank' = (shrank \/ count' < count) /\ UNCHANGED <<loading, failed, generation, flights>>
       ELSE /\ generation' = generation + 1
            /\ flights' = flights \cup {Flight(f, from, generation + 1, 1)}
            /\ loading' = TRUE /\ failed' = FALSE /\ shrank' = FALSE

ChangeFilter(f) ==
    f # filter /\ filter' = f /\ UNCHANGED <<page, count, offset, shown>> /\ Load(f, 0)

\* The button, the minute's timer of the status page; the account has neither.
Refresh ==
    /\ page # "account"
    /\ UNCHANGED <<page, count, filter, offset, shown>>
    /\ Load(filter, IF page = "logs" THEN 0 ELSE offset)

Turn ==
    /\ Paged /\ ~loading
    /\ UNCHANGED <<page, count, filter, offset, shown>>
    /\ \E to \in {offset - Limit, offset + Limit} : to >= 0 /\ to < shown.total /\ Load(filter, to)

\* clearErrors()
Clear ==
    /\ page = "errors" /\ shown.total > 0
    /\ count' = 0 /\ offset' = 0 /\ Load(filter, 0)
    /\ UNCHANGED <<page, filter, shown>>

\* Seeded fault: an answer is not compared with the newest load.
MineAlways(flight) == TRUE

\* gen !== generation: the history pages drop what was overtaken, the others do not look.
Mine(flight) == Guarded => flight.gen = generation

\* Seeded fault: a page past the end is shown as it is.
PastNever(flight) == FALSE

PastEnd(flight) ==
    Paged /\ flight.step = 1 /\ flight.from > 0 /\ flight.from >= flight.answer.total

LastPage(total) == (IF total > 0 THEN (total - 1) \div Limit ELSE 0) * Limit

\* The page fell past the end: ask once more for the last one, under today's filter.
StepBack(flight) ==
    /\ flight.answer # Nothing /\ Mine(flight) /\ PastEnd(flight)
    /\ flights' = (flights \ {flight}) \cup
                  {Flight(filter, LastPage(flight.answer.total), flight.gen, 2)}
    /\ UNCHANGED <<page, count, filter, offset, shown, loading, failed, generation, shrank>>

Show(flight) ==
    /\ flight.answer # Nothing /\ Mine(flight) /\ ~PastEnd(flight)
    /\ offset' = IF Paged THEN flight.from ELSE 0
    /\ shown' = flight.answer
    /\ loading' = FALSE
    /\ flights' = flights \ {flight}
    /\ UNCHANGED <<page, count, filter, failed, generation, shrank>>

\* The answer of an overtaken load is dropped.
Drop(flight) ==
    /\ flight.answer # Nothing /\ ~Mine(flight)
    /\ flights' = flights \ {flight}
    /\ UNCHANGED <<page, count, filter, offset, shown, loading, failed, generation, shrank>>

\* The network or the server fails.
Fail(flight) ==
    /\ flights' = flights \ {flight}
    /\ IF Mine(flight) THEN failed' = TRUE /\ loading' = FALSE ELSE UNCHANGED <<failed, loading>>
    /\ UNCHANGED <<page, count, filter, offset, shown, generation, shrank>>

Next ==
    \/ \E f \in Filters : ChangeFilter(f)
    \/ Arrive \/ Delete \/ Refresh \/ Turn \/ Clear
    \/ \E flight \in flights :
          Serve(flight) \/ StepBack(flight) \/ Show(flight) \/ Drop(flight) \/ Fail(flight)

Spec == Init /\ [][Next]_vars

TypeOK ==
    /\ filter \in Filters /\ offset \in 0..MaxRows /\ generation \in 0..MaxLoads
    /\ shown.filter \in Filters \cup {"none"} /\ shown.rows \in 0..Limit /\ shown.total \in 0..MaxRows
    /\ loading \in BOOLEAN /\ failed \in BOOLEAN /\ shrank \in BOOLEAN
    /\ \A flight \in flights : flight.filter \in Filters /\ flight.gen \in 1..generation

Settled == ~loading /\ ~failed /\ generation > 0
NewestShown == shown.filter = filter /\ \A flight \in flights : ~Mine(flight)

\* A filter change can land while a page is loading, and new traffic or a deletion can move
\* the end of the list under it.  Once a history page has settled it shows rows of the
\* filter its controls name, only the newest load's; and no list stands past its end unless
\* rows were deleted since that load began.
ListsTrue ==
    Settled => /\ Guarded => NewestShown
               /\ shown.from >= shown.total /\ shown.from > 0 => shrank

\* The same of the error list and the status page, whose code does not compare an answer
\* with the newest load.
ListsTrueEverywhere == Settled => NewestShown
=============================================================================
