--------------------------- MODULE RequestHistory ---------------------------
(***************************************************************************)
(* services/logManager.ts behind the request log page: the start, end and  *)
(* error rows that utils/logging.ts writes for a request, what renames,    *)
(* deletions, retention and an upgrade do to them, and what the menus, the *)
(* list and the details of routes/admin.ts read.  LogStore has the sums of *)
(* the end rows; here they are told apart by their requests.  Retention    *)
(* cuts at midnight, so that time is counted in days.                      *)
(***************************************************************************)
EXTENDS Integers, Sequences, FiniteSetsExt

CONSTANTS
    NULL,
    LogIds,    \* requests of one client key
    Old,       \* a request that an older version has logged
    Models,
    KeyNames,  \* the names the client key is given
    MaxDay,    \* bound: the last day
    MaxActs    \* bound: renames, deletions and prunings

VARIABLES
    engine,    \* sqlite or postgres
    opened,    \* the store is initialised
    day,
    keyName,   \* the name of the key in api_keys
    request,   \* where the logging of each request is
    starts,    \* request_start rows; of data, whether it is there
    ends,      \* request_end rows
    errors,    \* error_logs, by id, which no other row is given again
    acts,      \* renames, deletions and prunings so far
    cut,       \* history: what the last pruning cut off lies before this day
    borne,     \* history: the last day the key had each name
    toldAt     \* history: the day of a request's last error row that was neither
               \* cleared nor cut off

rowVars == <<starts, ends, errors>>
histVars == <<cut, borne, toldAt>>
vars == <<engine, opened, day, keyName, request, rowVars, acts, histVars>>

Days == 0..MaxDay
New == [at |-> "new", model |-> NULL, stamp |-> 0, label |-> NULL]
OldEnd(m) == [request |-> Old, day |-> 0, model |-> m, label |-> NULL, failed |-> TRUE]
ErrorRow(r, m, structured) == [request |-> r, day |-> day, model |-> m, structured |-> structured]
\* In place of a deleted row.
Gone == [request |-> NULL, day |-> 0, model |-> NULL, structured |-> TRUE]
ErrorRows(log) == {log[i] : i \in DOMAIN log} \ {Gone}

Init ==
    /\ engine \in {"sqlite", "postgres"} /\ opened = FALSE /\ day = 0
    /\ keyName \in KeyNames
    /\ request = [r \in LogIds |-> New] /\ starts = {}
    /\ \/ ends = {} /\ errors = <<>> /\ toldAt = [r \in LogIds \cup {Old} |-> NULL]
       \/ \E m \in Models :
             /\ ends = {OldEnd(m)} /\ errors = <<ErrorRow(Old, m, engine = "postgres")>>
             /\ toldAt = [r \in LogIds \cup {Old} |-> IF r = Old THEN 0 ELSE NULL]
    /\ acts = 0 /\ cut = 0 /\ borne = [n \in KeyNames |-> IF n = keyName THEN 0 ELSE -1]

\* Seeded fault: what an older version kept in `data` is dropped.
StructuredColumns(row) == [row EXCEPT !.structured = TRUE, !.request = IF @ = Old THEN NULL ELSE @]

\* firstPresent(): each column comes from the column or from the old `data`, by any of
\* the names it has had.
Structured(row) == [row EXCEPT !.structured = TRUE]

\* ensureErrorLogSchema(): the migration is one transaction, before anything is served.
Open ==
    /\ ~opened /\ opened' = TRUE
    /\ errors' = [i \in DOMAIN errors |-> Structured(errors[i])]
    /\ UNCHANGED <<engine, day, keyName, request, starts, ends, acts, histVars>>

Tomorrow ==
    /\ day < MaxDay /\ day' = day + 1
    /\ borne' = [borne EXCEPT ![keyName] = day + 1]
    /\ UNCHANGED <<engine, opened, keyName, request, rowVars, acts, cut, toldAt>>

(***************************************************************************)
(* The rows of a request: utils/logging.ts.  A request whose process ends  *)
(* stays where it is.                                                      *)
(***************************************************************************)
LogRequestStart(r) ==
    /\ request[r].at = "new"
    /\ \E m \in Models :
          /\ request' = [request EXCEPT ![r] = [New EXCEPT !.at = "started", !.model = m]]
          /\ starts' = starts \cup {[request |-> r, day |-> day, model |-> m, data |-> TRUE]}
    /\ UNCHANGED <<engine, opened, day, keyName, ends, errors, acts, histVars>>

\* The entry of logRequestEnd() takes the time, waits for the key's name, and is then
\* written with the model the request was started for.
Stamp(r) ==
    /\ request[r].at = "started"
    /\ request' = [request EXCEPT ![r].at = "stamped", ![r].stamp = day]
    /\ UNCHANGED <<engine, opened, day, keyName, rowVars, acts, histVars>>

Name(r) ==
    /\ request[r].at = "stamped"
    /\ request' = [request EXCEPT ![r].at = "named", ![r].label = keyName]
    /\ UNCHANGED <<engine, opened, day, keyName, rowVars, acts, histVars>>

\* Seeded fault: the row's time is that of its writing.
LogRequestEndLate(r) ==
    /\ request[r].at = "named"
    /\ \E failed \in BOOLEAN :
          /\ ends' = ends \cup {[request |-> r, day |-> day, failed |-> failed,
                                 model |-> request[r].model, label |-> request[r].label]}
          /\ request' = [request EXCEPT ![r] =
                            IF failed THEN [New EXCEPT !.at = "failed", !.model = request[r].model]
                                      ELSE [New EXCEPT !.at = "done"]]
    /\ UNCHANGED <<engine, opened, day, keyName, starts, errors, acts, histVars>>

LogRequestEnd(r) ==
    /\ request[r].at = "named"
    /\ \E failed \in BOOLEAN :
          /\ ends' = ends \cup {[request |-> r, day |-> request[r].stamp, failed |-> failed,
                                 model |-> request[r].model, label |-> request[r].label]}
          /\ request' = [request EXCEPT ![r] =
                            IF failed THEN [New EXCEPT !.at = "failed", !.model = request[r].model]
                                      ELSE [New EXCEPT !.at = "done"]]
    /\ UNCHANGED <<engine, opened, day, keyName, starts, errors, acts, histVars>>

\* After the end row, the handler writes its error, unless the write fails.
LogError(r) ==
    /\ request[r].at = "failed"
    /\ request' = [request EXCEPT ![r] = [New EXCEPT !.at = "done"]]
    /\ \/ /\ errors' = Append(errors, ErrorRow(r, request[r].model, TRUE))
          /\ toldAt' = [toldAt EXCEPT ![r] = day]
       \/ UNCHANGED <<errors, toldAt>>
    /\ UNCHANGED <<engine, opened, day, keyName, starts, ends, acts, cut, borne>>

(***************************************************************************)
(* What the admin, and the retention timer, do to the rows.                *)
(***************************************************************************)
Act == acts < MaxActs /\ acts' = acts + 1

RenameKey ==
    /\ Act /\ keyName' \in KeyNames \ {keyName}
    /\ borne' = [borne EXCEPT ![keyName'] = day]
    /\ UNCHANGED <<engine, opened, day, request, rowVars, cut, toldAt>>

Renamed(row, from, to) == IF row.model = from THEN [row EXCEPT !.model = to] ELSE row

\* renameModel().  On PostgreSQL jsonb_set() is NULL when one of the names it sets is
\* missing, as they are in a request_start row: its data is gone.
RenamedStart(row, from, to) ==
    IF row.model = from THEN [row EXCEPT !.model = to, !.data = @ /\ engine = "sqlite"] ELSE row
RenameModel(from, to) ==
    /\ from # to /\ Act
    /\ starts' = {RenamedStart(row, from, to) : row \in starts}
    /\ ends' = {Renamed(row, from, to) : row \in ends}
    /\ errors' = [i \in DOMAIN errors |-> Renamed(errors[i], from, to)]
    /\ UNCHANGED <<engine, opened, day, keyName, request, histVars>>

\* manageModelUsage() selects end rows by their model, error rows by their requests.
Selected(source) == {row.request : row \in {row \in ends : row.model = source}}

DeleteUsage(source) ==
    /\ Selected(source) # {} /\ Act
    /\ ends' = {row \in ends : row.model # source}
    /\ errors' = [i \in DOMAIN errors |->
                     IF errors[i].request \in Selected(source) THEN Gone ELSE errors[i]]
    /\ UNCHANGED <<engine, opened, day, keyName, request, starts, histVars>>

MoveUsage(source, target) ==
    /\ Selected(source) # {} /\ source # target /\ Act
    /\ ends' = {Renamed(row, source, target) : row \in ends}
    /\ errors' = [i \in DOMAIN errors |->
                     IF errors[i].request \in Selected(source)
                     THEN Renamed(errors[i], source, target) ELSE errors[i]]
    /\ UNCHANGED <<engine, opened, day, keyName, request, starts, histVars>>

\* Seeded fault: the start rows of ended requests are left to their end rows.
ExpiredUnended(row, cutoff) ==
    row.data /\ row.day < cutoff /\ \A e \in ends : e.request # row.request

\* A start row goes with its own time, or with its end row's: by what its data says.
Expired(row, cutoff) ==
    /\ row.data
    /\ \/ row.day < cutoff
       \/ \E e \in ends : e.day < cutoff /\ e.request = row.request

PruneOldRequests(cutoff) ==
    /\ Act /\ cut' = cutoff
    /\ starts' = {row \in starts : ~Expired(row, cutoff)}
    /\ ends' = {row \in ends : row.day >= cutoff}
    /\ errors' = [i \in DOMAIN errors |-> IF errors[i].day < cutoff THEN Gone ELSE errors[i]]
    /\ toldAt' = [r \in DOMAIN toldAt |->
                     IF toldAt[r] # NULL /\ toldAt[r] >= cutoff THEN toldAt[r] ELSE NULL]
    /\ UNCHANGED <<engine, opened, day, keyName, request, borne>>

ClearErrorLogs ==
    /\ ErrorRows(errors) # {} /\ Act
    /\ errors' = [i \in DOMAIN errors |-> Gone]
    /\ toldAt' = [r \in DOMAIN toldAt |-> NULL]
    /\ UNCHANGED <<engine, opened, day, keyName, request, starts, ends, cut, borne>>

Next ==
    \/ Open
    \/ opened /\ \/ Tomorrow
                 \/ \E r \in LogIds : \/ LogRequestStart(r) \/ Stamp(r) \/ Name(r)
                                      \/ LogRequestEnd(r) \/ LogError(r)
                 \/ RenameKey \/ ClearErrorLogs
                 \/ \E from, to \in Models : RenameModel(from, to) \/ MoveUsage(from, to)
                 \/ \E m \in Models : DeleteUsage(m)
                 \/ \E cutoff \in 1..day : PruneOldRequests(cutoff)

Spec == Init /\ [][Next]_vars

(***************************************************************************)
(* What the page reads.                                                    *)
(***************************************************************************)
\* getRequestHistory(), by model or without a filter.
Search(model) == {row \in ends : model = NULL \/ row.model = model}

\* Seeded fault: the menu is made of all rows of request_logs.
ModelMenuOfAll == {row.model : row \in ends} \cup {row.model : row \in starts}

\* getRequestHistoryFilters()
ModelMenu == {row.model : row \in ends}

\* One option per key, labelled from a row of the latest day: which of them is the
\* database's choice.  Rows without a key's id have none.
Keyed == {row \in ends : row.label # NULL}
KeyLabels == {row \in Keyed : \A other \in Keyed : other.day <= row.day}

\* getLatestErrorForRequestId(): the highest id.
Related(r) ==
    LET found == {i \in DOMAIN errors : errors[i].request = r}
    IN  IF found = {} THEN NULL ELSE errors[Max(found)].day

-----------------------------------------------------------------------------
TypeOK ==
    /\ engine \in {"sqlite", "postgres"} /\ opened \in BOOLEAN /\ {day, cut} \subseteq Days
    /\ keyName \in KeyNames /\ acts \in 0..MaxActs
    /\ \A r \in LogIds : request[r].at \in {"new", "started", "stamped", "named", "failed", "done"}
    /\ \A row \in starts : row.request \in LogIds /\ row.model \in Models /\ row.data \in BOOLEAN
    /\ \A row \in ends : row.request \in LogIds \cup {Old} /\ row.model \in Models
    /\ \A row \in ErrorRows(errors) : row.request \in LogIds \cup {Old} /\ row.model \in Models
    /\ \A n \in KeyNames : borne[n] \in Days \cup {-1}

\* The menu of keys never goes back to a name that the key had given up before its
\* latest request ended, whatever the order in which requests end, wait for the name
\* and are written; and no model is offered that finds nothing, or missing that would.
MenusTrue ==
    /\ \A row \in KeyLabels : borne[row.label] >= row.day
    /\ {row.model : row \in Search(NULL)} = ModelMenu
    /\ \A m \in ModelMenu : Search(m) # {}

\* The detail of a failed request shows its error for as long as neither has been
\* cleared, deleted or cut off: an upgrade, renames, and deletions of other requests'
\* usage leave it alone.
RelatedTrue ==
    opened => \A row \in ends : Related(row.request) = toldAt[row.request]

\* Retention removes the three kinds of rows from before a midnight and no other, on
\* PostgreSQL except for the start rows whose data a rename has taken.
RetentionStep ==
    cut' # cut =>
        /\ \A row \in starts' : row.day >= cut' \/ ~row.data
        /\ \A row \in ends' : row.day >= cut'
        /\ \A row \in ErrorRows(errors') : row.day >= cut'
        /\ \A row \in (starts \ starts') \cup (ends \ ends') : row.day < cut'
        /\ \A row \in ErrorRows(errors) \ ErrorRows(errors') : row.day < cut'
RetentionTrue == [][RetentionStep]_vars

\* services/logManager.ts:465: "The JSON blob remains the source-of-record".  On PostgreSQL
\* a rename erases that of every start row of the model, which is then never pruned.
DataKept == \A row \in starts : row.data
=============================================================================
