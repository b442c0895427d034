------------------------------ MODULE Messages ------------------------------
(***************************************************************************)
(* One request on /v1/messages (routes/messages.ts), from request_start to *)
(* its answer.  It differs from ChatRequest where the code does: a stream  *)
(* that ends is logged by a task of its own, which also ends the response, *)
(* while the attempt goes on to recordSuccess(); a buffered answer is      *)
(* logged inside the attempt; failures are told by an `error` event.       *)
(***************************************************************************)
EXTENDS Integers, Sequences

CONSTANTS
    MaxAttempts,  \* bound: upstream calls of one request
    MaxEvents     \* bound: events written to the client

VARIABLES
    streaming,  \* anthropicReq.stream === true
    phase,      \* the await the handler is at
    attempts,   \* upstream calls so far
    upstream,   \* activeStream: none, open or closed
    error,      \* what the last attempt threw
    response,   \* what was written to the client
    ended,      \* res.writableEnded
    gone,       \* the client has closed the connection
    left,       \* clientAborted: its listeners have fired
    tasks,      \* per attempt: the task its onEnd() started
    active,     \* activeRequests.has(requestId)
    ends,       \* request_end rows
    samples,    \* uptime samples
    errorRows,  \* rows of the error log
    faults,     \* history: what statements did wrong
    forgotten   \* history: cleanupOldRequests() dropped the request

upVars == <<attempts, upstream>>
sentVars == <<response, ended>>
clientVars == <<gone, left>>
logVars == <<active, ends, samples>>
rareVars == <<errorRows, faults, forgotten>>
vars == <<streaming, phase, upVars, error, sentVars, clientVars, tasks, logVars, rareVars>>

\*   "logged"   the attempt logs its buffered answer, inside its try
\*   "failing"  the handler's catch is at logRequestEnd(false)
Phases == {"starting", "selecting", "requesting", "reading", "consuming", "settling",
           "recording", "logged", "noting", "failing", "persisting", "answering",
           "done", "rejected"}
Stopped == phase \in {"done", "rejected"}
Errors == {"none", "abort", "upstream", "unserved", "store"}
TaskStates == {"none", "writing", "ending", "over"}

\* An event, message_stop, an `error` event, a whole answer, an error envelope;
\* and the attempt it comes from.
Frames == [kind : {"event", "stop", "error", "body", "errorBody"}, by : 0..MaxAttempts]
Frame(k) == [kind |-> k, by |-> attempts]
Wrote(k) == \E i \in DOMAIN response : response[i].kind = k
\* markStreamOutputStarted() of this request.
Output == Wrote("event") \/ Wrote("stop")

Init ==
    /\ streaming \in BOOLEAN
    /\ phase = "starting"
    /\ attempts = 0 /\ upstream = "none" /\ error = "none"
    /\ response = <<>> /\ ended = FALSE
    /\ gone = FALSE /\ left = FALSE
    /\ tasks = [a \in 1..MaxAttempts |-> "none"]
    /\ active = TRUE /\ ends = <<>> /\ samples = <<>>
    /\ errorRows = {} /\ faults = {} /\ forgotten = FALSE

\* logRequestStart() stands outside the try.
Start ==
    /\ phase = "starting"
    /\ \/ phase' = "selecting" /\ UNCHANGED faults
       \/ phase' = "rejected" /\ faults' = faults \cup {"failed"}
    /\ UNCHANGED <<streaming, upVars, error, sentVars, clientVars, tasks, logVars,
                   errorRows, forgotten>>

(***************************************************************************)
(* Attempts.  The routing loop passes clientAbort on and notes the rest.   *)
(***************************************************************************)
Throw(e) == error' = e /\ phase' = IF e = "abort" THEN "failing" ELSE "noting"

\* The attempt's catch: whatever failed, a client that has left makes it an abort.
Caught(e) == Throw(IF left THEN "abort" ELSE e)

\* The body is built for the endpoint's format and posted.
Post ==
    /\ attempts' = attempts + 1 /\ upstream' = "none"
    /\ phase' = "requesting" /\ UNCHANGED error

\* Seeded fault: the loop retries although bytes are out.
AttemptAfterOutput ==
    /\ phase \in {"selecting", "noting"}
    /\ attempts < MaxAttempts
    /\ \/ ~left /\ Post
       \/ Caught("unserved") /\ UNCHANGED upVars
    /\ UNCHANGED <<streaming, sentVars, clientVars, tasks, logVars, rareVars>>

\* Seeded fault: axios is not given the abort signal.
AttemptWithoutSignal ==
    /\ phase \in {"selecting", "noting"} /\ ~Output
    /\ attempts < MaxAttempts
    /\ \/ Post
       \/ Caught("unserved") /\ UNCHANGED upVars
    /\ UNCHANGED <<streaming, sentVars, clientVars, tasks, logVars, rareVars>>

\* An attempt on a selected endpoint, or the same key again.  axios rejects at
\* once when the signal is aborted already; building the body can throw.
Attempt ==
    /\ phase \in {"selecting", "noting"} /\ ~Output
    /\ attempts < MaxAttempts
    /\ \/ ~left /\ Post
       \/ Caught("unserved") /\ UNCHANGED upVars
    /\ UNCHANGED <<streaming, sentVars, clientVars, tasks, logVars, rareVars>>

\* The loop after a failed attempt: select again, or give up with its error.
\* Selection finds nothing, or a statement of the key store fails.
Route ==
    /\ \/ phase = "noting" /\ ~Output /\ attempts < MaxAttempts
          /\ phase' = "selecting" /\ UNCHANGED <<error, faults>>
       \/ phase = "noting" /\ phase' = "failing" /\ UNCHANGED <<error, faults>>
       \/ phase = "selecting" /\ phase' = "failing" /\ error' = "unserved"
          /\ UNCHANGED faults
       \/ phase \in {"selecting", "noting"} /\ phase' = "failing" /\ error' = "store"
          /\ faults' = faults \cup {"failed"}
    /\ UNCHANGED <<streaming, upVars, sentVars, clientVars, tasks, logVars, errorRows,
                   forgotten>>

\* axios returns: a stream or a whole answer, a status beyond 2xx, or no response.
Responds ==
    /\ phase = "requesting"
    /\ \/ streaming /\ phase' \in {"consuming", "reading"} /\ upstream' = "open"
          /\ UNCHANGED error
       \/ ~streaming /\ phase' = "recording" /\ UNCHANGED <<upstream, error>>
       \/ Caught("upstream") /\ UNCHANGED upstream
    /\ UNCHANGED <<streaming, attempts, sentVars, clientVars, tasks, logVars, rareVars>>

\* readUpstreamErrorBody() returns; the stream is destroyed.
ErrorBodyRead ==
    /\ phase = "reading"
    /\ upstream' = "closed"
    /\ Caught("upstream")
    /\ UNCHANGED <<streaming, attempts, sentVars, clientVars, tasks, logVars, rareVars>>

(***************************************************************************)
(* The stream.  The upstream sends nothing after its message_stop; how its *)
(* chunks become events is the subject of AnthropicStream.                 *)
(***************************************************************************)
Event ==
    /\ phase = "consuming" /\ Len(response) < MaxEvents
    /\ ~Wrote("stop")
    /\ \E k \in {"event", "stop"} :
          response' = IF ended THEN response ELSE Append(response, Frame(k))
    /\ UNCHANGED <<streaming, phase, upVars, error, ended, clientVars, tasks, logVars,
                   rareVars>>

\* An error event, an oversized buffer, a broken pipe, a close without an end.
StreamFails ==
    /\ phase = "consuming"
    /\ upstream' = "closed"
    /\ phase' = "settling" /\ error' = "upstream"
    /\ UNCHANGED <<streaming, attempts, sentVars, clientVars, tasks, logVars, rareVars>>

\* onEnd() settles first, then starts the task that logs: logRequestEnd() looks
\* at activeRequests at once.
StreamEnds ==
    /\ phase = "consuming"
    /\ upstream' = "closed"
    /\ phase' = "recording"
    /\ tasks' = [tasks EXCEPT ![attempts] = IF active THEN "writing" ELSE "ending"]
    /\ UNCHANGED <<streaming, attempts, error, sentVars, clientVars, logVars, rareVars>>

\* The attempt resumes behind the rejected stream promise.
Settled ==
    /\ phase = "settling"
    /\ Caught(error)
    /\ UNCHANGED <<streaming, upVars, sentVars, clientVars, tasks, logVars, rareVars>>

\* recordSuccess().  A streaming attempt is over then, and the handler with it;
\* a buffered answer is converted, which can throw, and logged.
Record ==
    /\ phase = "recording"
    /\ \/ streaming /\ phase' = "done" /\ UNCHANGED <<error, faults>>
       \/ ~streaming /\ phase' = "logged" /\ UNCHANGED <<error, faults>>
       \/ ~streaming /\ Throw("upstream") /\ UNCHANGED faults
       \/ Caught("store") /\ faults' = faults \cup {"failed"}
    /\ UNCHANGED <<streaming, upVars, sentVars, clientVars, tasks, logVars, errorRows,
                   forgotten>>

(***************************************************************************)
(* logRequestEnd(): nothing for a request that is not active any more; the *)
(* row; the entry deleted; the uptime sample.  The row can fail, or commit *)
(* while its acknowledgement is lost.                                      *)
(***************************************************************************)
RowWritten(outcome) ==
    /\ ends' = Append(ends, outcome) /\ samples' = Append(samples, outcome)
    /\ active' = FALSE
    /\ UNCHANGED faults

RowFails(outcome) ==
    /\ \/ faults' = faults \cup {"failed"} /\ UNCHANGED ends
       \/ faults' = faults \cup {"lost"} /\ ends' = Append(ends, outcome)
    /\ UNCHANGED <<active, samples>>

\* Seeded fault: a log failure leaves the response to somebody else.
TaskLeavesOpen(a) ==
    /\ \/ tasks[a] = "writing" /\ RowWritten("success") /\ ended' = TRUE
       \/ tasks[a] = "writing" /\ RowFails("success") /\ UNCHANGED ended
       \/ tasks[a] = "ending" /\ ended' = TRUE /\ UNCHANGED <<logVars, faults>>
    /\ tasks' = [tasks EXCEPT ![a] = "over"]
    /\ UNCHANGED <<streaming, phase, upVars, error, response, clientVars, errorRows, forgotten>>

\* The task of a stream that has ended: it logs, and ends the response whether or
\* not that worked.
Task(a) ==
    /\ \/ tasks[a] = "writing" /\ (RowWritten("success") \/ RowFails("success"))
       \/ tasks[a] = "ending" /\ UNCHANGED <<logVars, faults>>
    /\ tasks' = [tasks EXCEPT ![a] = "over"]
    /\ ended' = TRUE
    /\ UNCHANGED <<streaming, phase, upVars, error, response, clientVars, errorRows, forgotten>>

\* A buffered answer: logged within the attempt, whose failure the routing loop
\* takes for the upstream's; then res.json().
LogAnswer ==
    /\ phase = "logged"
    /\ \/ /\ IF active THEN RowWritten("success") ELSE UNCHANGED <<logVars, faults>>
          /\ phase' = "done" /\ response' = Append(response, Frame("body")) /\ ended' = TRUE
          /\ UNCHANGED error
       \/ active /\ RowFails("success") /\ Throw("store") /\ UNCHANGED sentVars
    /\ UNCHANGED <<streaming, upVars, clientVars, tasks, errorRows, forgotten>>

\* Seeded fault: an abort is not logged at all.
LogFailureNotAbort ==
    /\ phase = "failing"
    /\ \/ /\ IF active /\ error # "abort" THEN RowWritten("failed")
                                          ELSE UNCHANGED <<logVars, faults>>
          /\ phase' = IF error = "abort" THEN "answering" ELSE "persisting"
       \/ active /\ RowFails("failed") /\ phase' = "rejected"
    /\ UNCHANGED <<streaming, upVars, error, sentVars, clientVars, tasks, errorRows, forgotten>>

\* The handler's catch.  A failing statement there rejects the handler.
LogFailure ==
    /\ phase = "failing"
    /\ \/ /\ IF active THEN RowWritten("failed") ELSE UNCHANGED <<logVars, faults>>
          /\ phase' = IF error = "abort" THEN "answering" ELSE "persisting"
       \/ active /\ RowFails("failed") /\ phase' = "rejected"
    /\ UNCHANGED <<streaming, upVars, error, sentVars, clientVars, tasks, errorRows, forgotten>>

Persist ==
    /\ phase = "persisting"
    /\ \/ phase' = "answering" /\ errorRows' = errorRows \cup {error} /\ UNCHANGED faults
       \/ phase' = "rejected" /\ faults' = faults \cup {"failed"} /\ UNCHANGED errorRows
    /\ UNCHANGED <<streaming, upVars, error, sentVars, clientVars, tasks, logVars, forgotten>>

\* What the handler still writes: nothing for an abort or an ended response, an
\* event into a stream, an envelope while nothing is out.
HeadersSent == response # <<>> \/ ended
LastFrames ==
    CASE error = "abort" \/ ended -> <<>>
      [] error # "abort" /\ ~HeadersSent -> <<Frame("errorBody")>>
      [] OTHER -> <<Frame("error")>>

Answer ==
    /\ phase = "answering"
    /\ response' = response \o LastFrames
    /\ ended' = TRUE
    /\ phase' = "done"
    /\ UNCHANGED <<streaming, upVars, error, clientVars, tasks, logVars, rareVars>>

(***************************************************************************)
(* abortClient(), while streamMessages() has its listeners attached: the   *)
(* stream's promise settles with the abort, axios' promise rejects, the    *)
(* stream is destroyed.  Also, cleanupOldRequests().                       *)
(***************************************************************************)
Attached == streaming /\ phase \in {"selecting", "requesting", "reading", "consuming",
                                    "settling", "recording", "noting"}

ClientLeaves ==
    /\ ~gone /\ gone' = TRUE
    /\ IF ~Attached \/ ended THEN UNCHANGED <<left, phase, error, upstream>>
       ELSE /\ left' = TRUE
            /\ upstream' = IF upstream = "open" THEN "closed" ELSE upstream
            /\ CASE phase \in {"requesting", "reading"} -> error' = "abort" /\ phase' = "failing"
                 [] phase = "consuming" -> error' = "abort" /\ phase' = "settling"
                 [] OTHER -> UNCHANGED <<phase, error>>
    /\ UNCHANGED <<streaming, attempts, sentVars, tasks, logVars, rareVars>>

Cleanup ==
    /\ active /\ ~Stopped
    /\ active' = FALSE /\ forgotten' = TRUE
    /\ UNCHANGED <<streaming, phase, upVars, error, sentVars, clientVars, tasks, ends,
                   samples, errorRows, faults>>

HandlerStep ==
    \/ Start \/ Attempt \/ Route \/ Settled \/ Record \/ LogAnswer \/ LogFailure
    \/ Persist \/ Answer
TaskStep == \E a \in 1..MaxAttempts : Task(a)
UpstreamStep == Responds \/ ErrorBodyRead \/ Event \/ StreamFails \/ StreamEnds

Next == HandlerStep \/ TaskStep \/ UpstreamStep \/ ClientLeaves \/ Cleanup

Spec == Init /\ [][Next]_vars

\* The event loop resumes what waits for a settled promise; nothing is assumed of
\* the upstream or the client.
Fairness == WF_vars(HandlerStep) /\ WF_vars(TaskStep)
FairSpec == Spec /\ Fairness

(***************************************************************************)
(* Properties.                                                             *)
(***************************************************************************)
TypeOK ==
    /\ phase \in Phases /\ error \in Errors /\ upstream \in {"none", "open", "closed"}
    /\ attempts \in 0..MaxAttempts
    /\ response \in Seq(Frames)
    /\ tasks \in [1..MaxAttempts -> TaskStates]
    /\ ends \in Seq({"success", "failed"}) /\ samples \in Seq({"success", "failed"})
    /\ errorRows \subseteq Errors /\ faults \subseteq {"failed", "lost"}
    /\ \A b \in {streaming, ended, gone, left, active, forgotten} : b \in BOOLEAN

Failed == Wrote("error") \/ Wrote("errorBody")
Finished == phase = "done" /\ \A a \in DOMAIN tasks : tasks[a] \in {"none", "over"}

\* One attempt speaks: a client never reads events of two upstream calls, and an
\* error or a whole answer is the last thing it reads.
OneVoice ==
    /\ \A i, j \in DOMAIN response : response[i].by = response[j].by
    /\ \A i \in DOMAIN response :
          response[i].kind \in {"error", "body", "errorBody"} => ended /\ i = Len(response)

\* The task that logs a success and the handler that logs a failure race for the
\* same request.  While the stores work, one row is written and one sample taken,
\* and they tell what the client has read; a client that left early is a failure.
AccountedOnce ==
    Finished /\ faults = {} /\ ~forgotten =>
        /\ Len(ends) = 1 /\ samples = ends
        /\ ends[1] = "success" => ~Failed
        /\ ends[1] = "failed" => Failed \/ left

\* A client that is seen to leave costs nothing more: no upstream call, no event,
\* and no open upstream stream.
LeaverCostsNothing ==
    [][left => /\ attempts' = attempts /\ upstream' # "open"
               /\ \A i \in DOMAIN response' \ DOMAIN response :
                     response'[i].kind \in {"error", "errorBody"}]_vars

\* The response of a handler that came to its end is ended, although it is the
\* task that ends it and the log store may fail it.
AnswerCloses == phase = "done" ~> ended
=============================================================================
