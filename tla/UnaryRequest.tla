---------------------------- MODULE UnaryRequest ----------------------------
(***************************************************************************)
(* POST /v1/images (routes/images.ts) and POST /v1/embeddings              *)
(* (routes/embeddings.ts): one finished body, no stream, and nobody looks  *)
(* whether the client is still there.  The success is credited to the key  *)
(* inside the attempt, and logged before the answer.                       *)
(***************************************************************************)
EXTENDS Naturals, Sequences

CONSTANT MaxAttempts  \* bound: upstream calls of one request

VARIABLES
    route,      \* image or embedding
    phase,      \* the await the handler is at
    attempts,   \* upstream calls so far
    credited,   \* recordSuccess() rows
    unread,     \* history: an answer that was paid for could not be parsed
    active,     \* activeRequests.has(requestId)
    ends,       \* request_end rows
    samples,    \* uptime samples
    errorRows,  \* rows of the error log
    answer,     \* what the client was sent
    faults,     \* history: what statements did wrong
    forgotten   \* history: cleanupOldRequests() dropped the request

logVars == <<active, ends, samples, errorRows>>
callVars == <<attempts, credited, unread>>
vars == <<route, phase, callVars, logVars, answer, faults, forgotten>>

Phases == {"checking", "starting", "selecting", "calling", "crediting", "routing", "logging",
           "failing", "persisting", "done", "rejected"}
Stopped == phase \in {"done", "rejected"}
Answers == {"none", "refused", "invalid", "body", "error"}

Init ==
    /\ route \in {"image", "embedding"}
    /\ phase = "checking"
    /\ attempts = 0 /\ credited = 0 /\ unread = FALSE
    /\ active = FALSE /\ ends = <<>> /\ samples = <<>> /\ errorRows = 0
    /\ answer = "none" /\ faults = {} /\ forgotten = FALSE

\* checkForGeneration(), then the model, its modality and the input: nothing is
\* logged of a request that ends here.
Admit ==
    /\ phase = "checking"
    /\ \/ phase' = "done" /\ answer' \in {"refused", "invalid"} /\ UNCHANGED active
       \/ phase' = "starting" /\ active' = TRUE /\ UNCHANGED answer
    /\ UNCHANGED <<route, callVars, ends, samples, errorRows, faults, forgotten>>

\* logRequestStart(), outside the try.
Start ==
    /\ phase = "starting"
    /\ \/ phase' = "selecting" /\ UNCHANGED faults
       \/ phase' = "rejected" /\ faults' = faults \cup {"failed"}
    /\ UNCHANGED <<route, callVars, logVars, answer, forgotten>>

(***************************************************************************)
(* executeRouting() with this route's attempt.                             *)
(***************************************************************************)
\* prepareAttempt() builds the body, which is posted; or it throws, for a bad input (400)
\* or for a format that cannot serve the route.
Posted == attempts < MaxAttempts /\ attempts' = attempts + 1 /\ phase' = "calling"
Unprepared == phase' \in {"routing", "failing"} /\ UNCHANGED attempts

\* A key is found and tried; no key; a failing statement.
Attempt ==
    /\ phase = "selecting"
    /\ \/ (Posted \/ Unprepared) /\ UNCHANGED faults
       \/ phase' = "failing" /\ faults' = faults \cup {"failed"} /\ UNCHANGED attempts
    /\ UNCHANGED <<route, credited, unread, logVars, answer, forgotten>>

\* An answer, or none, or one beyond 2xx.  An image is read at once, and what says
\* so in its body counts as a failure of the upstream.
Responds ==
    /\ phase = "calling"
    /\ phase' \in {"crediting", "routing"}
    /\ UNCHANGED <<route, callVars, logVars, answer, faults, forgotten>>

\* recordSuccess(); an embedding is read behind it.  A statement that failed
\* may have been committed.
Credit ==
    /\ phase = "crediting"
    /\ \/ phase' = "logging" /\ credited' = credited + 1 /\ UNCHANGED <<unread, faults>>
       \/ route = "embedding" /\ phase' = "routing" /\ credited' = credited + 1
          /\ unread' = TRUE /\ UNCHANGED faults
       \/ phase' = "routing" /\ credited' \in {credited, credited + 1}
          /\ faults' = faults \cup {"credit"} /\ UNCHANGED unread
    /\ UNCHANGED <<route, attempts, logVars, answer, forgotten>>

\* The loop after a failed attempt: another key, target or try, or its error; or
\* recordKeyFailure() throws.
Route ==
    /\ phase = "routing"
    /\ \/ phase' \in {"selecting", "failing"} /\ UNCHANGED faults
       \/ phase' = "failing" /\ faults' = faults \cup {"failed"}
    /\ UNCHANGED <<route, callVars, logVars, answer, forgotten>>

(***************************************************************************)
(* logRequestEnd(), the error log and the answer.                          *)
(***************************************************************************)
RowWritten(outcome) ==
    /\ ends' = Append(ends, outcome) /\ samples' = Append(samples, outcome)
    /\ active' = FALSE /\ UNCHANGED faults

RowFails(outcome) ==
    /\ \/ faults' = faults \cup {"failed"} /\ UNCHANGED ends
       \/ faults' = faults \cup {"lost"} /\ ends' = Append(ends, outcome)
    /\ UNCHANGED <<active, samples>>

Logged(outcome) == IF active THEN RowWritten(outcome) ELSE UNCHANGED <<active, ends, samples, faults>>

\* Seeded fault: the answer does not wait for its log row.
LogSuccessLater ==
    /\ phase = "logging"
    /\ Logged("success") \/ (active /\ RowFails("success"))
    /\ phase' = "done" /\ answer' = "body"
    /\ UNCHANGED <<route, callVars, errorRows, forgotten>>

\* Seeded fault: the success is logged within the attempt.
LogSuccessInAttempt ==
    /\ phase = "logging"
    /\ \/ Logged("success") /\ phase' = "done" /\ answer' = "body"
       \/ active /\ RowFails("success") /\ phase' = "routing" /\ UNCHANGED answer
    /\ UNCHANGED <<route, callVars, errorRows, forgotten>>

\* res.json() waits for the log, whose failure goes to the handler's catch.
LogSuccess ==
    /\ phase = "logging"
    /\ \/ Logged("success") /\ phase' = "done" /\ answer' = "body"
       \/ active /\ RowFails("success") /\ phase' = "failing" /\ UNCHANGED answer
    /\ UNCHANGED <<route, callVars, errorRows, forgotten>>

LogFailure ==
    /\ phase = "failing"
    /\ \/ Logged("failed") /\ phase' = "persisting"
       \/ active /\ RowFails("failed") /\ phase' = "rejected"
    /\ UNCHANGED <<route, callVars, errorRows, answer, forgotten>>

Persist ==
    /\ phase = "persisting"
    /\ \/ phase' = "done" /\ errorRows' = errorRows + 1 /\ answer' = "error" /\ UNCHANGED faults
       \/ phase' = "rejected" /\ faults' = faults \cup {"failed"} /\ UNCHANGED <<errorRows, answer>>
    /\ UNCHANGED <<route, callVars, active, ends, samples, forgotten>>

\* cleanupOldRequests(): an image may take 300 s, the cleanup waits 180 s.
Cleanup ==
    /\ active /\ ~Stopped
    /\ active' = FALSE /\ forgotten' = TRUE
    /\ UNCHANGED <<route, phase, callVars, ends, samples, errorRows, answer, faults>>

HandlerStep == Admit \/ Start \/ Attempt \/ Credit \/ Route \/ LogSuccess \/ LogFailure \/ Persist
Next == HandlerStep \/ Responds \/ Cleanup

Spec == Init /\ [][Next]_vars

TypeOK ==
    /\ route \in {"image", "embedding"} /\ phase \in Phases /\ answer \in Answers
    /\ attempts \in 0..MaxAttempts /\ credited \in 0..attempts /\ errorRows \in 0..1
    /\ ends \in Seq({"success", "failed"}) /\ samples \in Seq({"success", "failed"})
    /\ faults \subseteq {"failed", "lost", "credit"}
    /\ unread \in BOOLEAN /\ active \in BOOLEAN /\ forgotten \in BOOLEAN

\* What a client of these routes is told and what the operator reads agree: a body is
\* sent only once its success is in the log, alone, and counted; an error, while the
\* stores work, has one failed row, one sample and one error row.  Only a request that
\* ran longer than the cleanup allows is answered and nowhere to be found.
AnsweredAsLogged ==
    /\ answer = "body" => \/ (forgotten /\ samples = <<>>)
                           \/ (ends = <<"success">> /\ samples = ends)
    /\ answer = "error" /\ faults = {} =>
          /\ errorRows = 1
          /\ ends = IF forgotten /\ samples = <<>> THEN <<>> ELSE <<"failed">>
    /\ answer \in {"refused", "invalid"} => ends = <<>> /\ attempts = 0

\* A generation that was credited to its key is paid for.  The request makes another
\* upstream call behind it only when the credit itself failed, or when an embedding
\* could not be read.
PaidOnce == credited > 1 => "credit" \in faults \/ unread
=============================================================================
