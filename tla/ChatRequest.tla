---------------------------- MODULE ChatRequest ----------------------------
(***************************************************************************)
(* One chat completion from its request_start record to its answer: the    *)
(* handler of routes/chat.ts after admission, its streaming and its        *)
(* buffered path, with request accounting (utils/logging.ts,               *)
(* services/realtimeStats.ts).  Four actors interleave: the handler at its *)
(* awaits, the client that may leave, the upstream's events, and the       *)
(* cleanup timer.  What decides between retry, hop and fallback is the     *)
(* subject of Routing; here another attempt is a choice.                   *)
(***************************************************************************)
EXTENDS Integers, Sequences

CONSTANTS
    MaxAttempts,  \* bound: upstream calls of one request, retries included
    MaxChunks     \* bound: chunks one request sends

ASSUME BoundsAssumption == MaxAttempts \in Nat \ {0} /\ MaxChunks \in Nat

VARIABLES
    streaming,  \* the request asked for a stream
    phase,      \* the await the handler is at
    attempts,   \* attempts so far: runAttempt() calls that looked at the endpoint
    upstream,   \* response.data of the last call: no stream, open or closed
    error,      \* lastError, then the error the handler caught
    output,     \* state.streamOutputStarted
    response,   \* what was written to the client
    ended,      \* res.writableEnded
    gone,       \* the client has closed the connection
    left,       \* clientAborted: the handler has seen it
    active,     \* activeRequests.has(requestId)
    old,        \* the request is older than REQUEST_TIMEOUT_SECONDS
    outcome,    \* what logRequestEnd() is called with
    ends,       \* request_end rows
    samples,    \* uptime samples
    errorRows,  \* errors in the error log
    faults,     \* history: what log and key store statements did wrong
    forgotten   \* history: the cleanup removed the request

callVars == <<attempts, upstream, output>>
sentVars == <<response, ended>>
clientVars == <<gone, left>>
logVars == <<ends, samples, errorRows>>
bookVars == <<active, old, logVars, faults, forgotten>>
vars == <<streaming, phase, callVars, error, sentVars, clientVars, active, old,
          outcome, logVars, faults, forgotten>>

\*   "selecting"  getEndpointForConcreteModel()
\*   "requesting" axios()
\*   "reading"    readUpstreamErrorBody()
\*   "consuming"  consumeStream(), not settled
\*   "settling"   consumeStream() has rejected, its caller is yet to resume
\*   "recording"  keyStateManager.recordSuccess()
\*   "noting"     recordKeyFailure(), then the routing loop's decision
\*   "logging"    the call of logRequestEnd()
\*   "writing"    the statements of logRequestEnd()
\*   "persisting" persistUpstreamError()
\*   "answering"  the last statements of the handler
\*   "rejected"   the handler's promise rejected; nothing catches it
Phases == {"starting", "selecting", "requesting", "reading", "consuming", "settling",
           "recording", "noting", "logging", "writing", "persisting", "answering",
           "done", "rejected"}
Stopped == phase \in {"done", "rejected"}

\*   "abort"      carries clientAbort
\*   "cancelled"  the client's leaving broke the upstream's error body
\*   "upstream"   status, network, timeout, in-band error, broken stream, bad data
\*   "unserved"   no endpoint or key, or the request cannot be prepared for it
\*   "store"      a statement of the log or key store failed
Errors == {"none", "abort", "cancelled", "upstream", "unserved", "store"}

\* Frames: a chunk or a whole answer, and the attempt it comes from; [DONE]; an
\* error chunk; an error body.
Frames == [kind : {"chunk", "done", "error", "body", "errorBody"}, by : 0..MaxAttempts]
Frame(k) == [kind |-> k, by |-> attempts]
Terminators == {"done", "body", "errorBody"}

Init ==
    /\ streaming \in BOOLEAN
    /\ phase = "starting"
    /\ attempts = 0
    /\ upstream = "none"
    /\ error = "none"
    /\ output = FALSE
    /\ response = <<>>
    /\ ended = FALSE
    /\ gone = FALSE
    /\ left = FALSE
    /\ active = TRUE
    /\ old = FALSE
    /\ outcome = "none"
    /\ ends = <<>>
    /\ samples = <<>>
    /\ errorRows = {}
    /\ faults = {}
    /\ forgotten = FALSE

(***************************************************************************)
(* request_start.  The entry is in activeRequests before its row is        *)
(* written, and the await stands outside the handler's try.                *)
(***************************************************************************)
StartLogged ==
    /\ phase = "starting"
    /\ phase' = "selecting"
    /\ UNCHANGED <<streaming, callVars, error, sentVars, clientVars, outcome, bookVars>>

StartFails ==
    /\ phase = "starting"
    /\ phase' = "rejected"
    /\ faults' = faults \cup {"failed"}
    /\ UNCHANGED <<streaming, callVars, error, sentVars, clientVars, active, old,
                   outcome, logVars, forgotten>>

(***************************************************************************)
(* Attempts.                                                               *)
(***************************************************************************)
\* The handler's catch: error goes to logRequestEnd().
Caught(e) ==
    /\ error' = e
    /\ outcome' = "failed"
    /\ phase' = "logging"

\* An attempt throws: executeRouting() passes clientAbort on, everything else is
\* noted and recorded against the key.
Throw(e) ==
    \/ e = "abort" /\ Caught(e)
    \/ e # "abort" /\ error' = e /\ phase' = "noting" /\ UNCHANGED outcome

\* Seeded fault: a response that has started does not stop a retry.
RunAttemptAfterOutput ==
    /\ phase \in {"selecting", "noting"}
    /\ attempts < MaxAttempts
    /\ \/ left /\ Throw("abort") /\ UNCHANGED <<attempts, upstream>>
       \/ ~left /\ attempts' = attempts + 1 /\ upstream' = "none"
                /\ phase' = "requesting" /\ UNCHANGED <<error, outcome>>
    /\ UNCHANGED <<streaming, output, sentVars, clientVars, bookVars>>

\* Seeded fault: the attempt does not look at clientAborted.
RunAttemptForLeaver ==
    /\ phase = "selecting" \/ (phase = "noting" /\ ~output)
    /\ attempts < MaxAttempts
    /\ attempts' = attempts + 1
    /\ upstream' = "none"
    /\ phase' = "requesting"
    /\ UNCHANGED <<streaming, error, output, sentVars, clientVars, outcome, bookVars>>

\* The attempt starts: from a selection, or as a retry on the same key, which
\* selects nothing.  A response that has started excludes both.
RunAttempt ==
    /\ \/ phase = "selecting"
       \/ phase = "noting" /\ ~output
    /\ attempts < MaxAttempts
    /\ \/ left /\ Throw("abort") /\ UNCHANGED <<attempts, upstream>>
       \/ ~left /\ attempts' = attempts + 1 /\ upstream' = "none"
                /\ phase' = "requesting" /\ UNCHANGED <<error, outcome>>
    /\ UNCHANGED <<streaming, output, sentVars, clientVars, bookVars>>

\* prepareAttempt() throws, for instance for a format the endpoint cannot serve.
PrepareFails ==
    /\ phase = "selecting" /\ ~left
    /\ attempts < MaxAttempts
    /\ attempts' = attempts + 1
    /\ upstream' = "none"
    /\ Throw("unserved")
    /\ UNCHANGED <<streaming, output, sentVars, clientVars, bookVars>>

\* A hop or a fallback, decided in the routing loop.
SelectAgain ==
    /\ phase = "noting"
    /\ ~output
    /\ attempts < MaxAttempts
    /\ phase' = "selecting"
    /\ UNCHANGED <<streaming, callVars, error, sentVars, clientVars, outcome, bookVars>>

GiveUp ==
    /\ phase = "noting"
    /\ Caught(error)
    /\ UNCHANGED <<streaming, callVars, sentVars, clientVars, bookVars>>

NothingSelected ==
    /\ phase = "selecting"
    /\ Caught("unserved")
    /\ UNCHANGED <<streaming, callVars, sentVars, clientVars, bookVars>>

\* A statement of the key store fails outside an attempt.
KeyStoreFails ==
    /\ phase \in {"selecting", "noting"}
    /\ Caught("store")
    /\ faults' = faults \cup {"failed"}
    /\ UNCHANGED <<streaming, callVars, sentVars, clientVars, active, old, logVars,
                   forgotten>>

(***************************************************************************)
(* The upstream answers.                                                   *)
(***************************************************************************)
\* A buffered answer is in memory when axios() returns; a stream has headers.
Responds ==
    /\ phase = "requesting"
    /\ \/ streaming /\ phase' = "consuming" /\ upstream' = "open"
       \/ ~streaming /\ phase' = "recording" /\ UNCHANGED upstream
    /\ UNCHANGED <<streaming, attempts, error, output, sentVars, clientVars, outcome,
                   bookVars>>

RespondsWithError ==
    /\ phase = "requesting"
    /\ \/ /\ streaming
          /\ phase' = "reading" /\ upstream' = "open"
          /\ UNCHANGED <<error, outcome>>
       \/ ~streaming /\ Throw("upstream") /\ UNCHANGED upstream
    /\ UNCHANGED <<streaming, attempts, output, sentVars, clientVars, bookVars>>

\* Network failure or timeout.
RequestFails ==
    /\ phase = "requesting"
    /\ Throw("upstream")
    /\ UNCHANGED <<streaming, callVars, sentVars, clientVars, bookVars>>

\* The error body has been read, as far as it is wanted, or it broke off.
ErrorBodyRead ==
    /\ phase = "reading"
    /\ upstream' = "closed"
    /\ Throw("upstream")
    /\ UNCHANGED <<streaming, attempts, output, sentVars, clientVars, bookVars>>

(***************************************************************************)
(* consumeStream().  Once settled, its handlers ignore what still arrives. *)
(***************************************************************************)
Settled == phase # "consuming"
Streams == phase \in {"consuming", "settling"} /\ upstream = "open"

Chunk ==
    /\ Streams /\ ~Settled
    /\ Len(response) < MaxChunks
    /\ ~ended
    /\ output' = TRUE
    /\ response' = Append(response, Frame("chunk"))
    /\ UNCHANGED <<streaming, phase, attempts, upstream, error, ended, clientVars,
                   outcome, bookVars>>

\* An in-band error leaves the stream to the caller, a buffer beyond its limit
\* destroys it here, a failed stream is closed.
StreamFails ==
    /\ Streams /\ ~Settled
    /\ upstream' \in {"open", "closed"}
    /\ error' = "upstream"
    /\ phase' = "settling"
    /\ UNCHANGED <<streaming, attempts, output, sentVars, clientVars, outcome, bookVars>>

\* Seeded fault: the end handler does not look at settled.
StreamEndsUnsettled ==
    /\ Streams
    /\ upstream' = "closed"
    /\ phase' = IF Settled THEN phase ELSE "recording"
    /\ output' = TRUE
    /\ response' = IF ended THEN response ELSE Append(response, Frame("done"))
    /\ ended' = TRUE
    /\ UNCHANGED <<streaming, attempts, error, clientVars, outcome, bookVars>>

StreamEnds ==
    /\ Streams /\ ~Settled
    /\ upstream' = "closed"
    /\ phase' = "recording"
    /\ \/ ended /\ UNCHANGED <<output, sentVars>>
       \/ /\ ~ended
          /\ output' = TRUE
          /\ response' = Append(response, Frame("done"))
          /\ ended' = TRUE
    /\ UNCHANGED <<streaming, attempts, error, clientVars, outcome, bookVars>>

\* The end or the failure of a stream that was given up already.
LateEvent ==
    /\ Streams /\ Settled
    /\ upstream' = "closed"
    /\ UNCHANGED <<streaming, phase, attempts, error, output, sentVars, clientVars,
                   outcome, bookVars>>

\* Seeded fault: the catch does not destroy the stream.
CatchKeepsStream ==
    /\ phase = "settling"
    /\ Throw(IF left THEN "abort" ELSE error)
    /\ UNCHANGED <<streaming, callVars, sentVars, clientVars, bookVars>>

\* The catch around consumeStream() and recordSuccess().
Catch ==
    /\ phase = "settling"
    /\ upstream' = "closed"
    /\ Throw(IF left THEN "abort" ELSE error)
    /\ UNCHANGED <<streaming, attempts, output, sentVars, clientVars, bookVars>>

(***************************************************************************)
(* Success: recordSuccess(), then for a buffered answer its conversion,    *)
(* all within the attempt.                                                 *)
(***************************************************************************)
\* Seeded fault: the result is dropped on the way to logRequestEnd().
SucceededUnsaid ==
    /\ phase = "recording"
    /\ phase' = "logging"
    /\ UNCHANGED <<streaming, callVars, error, sentVars, clientVars, outcome, bookVars>>

Succeeded ==
    /\ phase = "recording"
    /\ outcome' = "success"
    /\ phase' = "logging"
    /\ UNCHANGED <<streaming, callVars, error, sentVars, clientVars, bookVars>>

RecordFails ==
    /\ phase = "recording"
    /\ Throw(IF left THEN "abort" ELSE "store")
    /\ faults' = faults \cup {"failed"}
    /\ UNCHANGED <<streaming, callVars, sentVars, clientVars, active, old, logVars,
                   forgotten>>

Unparsable ==
    /\ phase = "recording"
    /\ ~streaming
    /\ Throw("upstream")
    /\ UNCHANGED <<streaming, callVars, sentVars, clientVars, bookVars>>

(***************************************************************************)
(* The client leaves: abortClient(), while its listeners are attached.     *)
(* What the abort signal and destroy() do to the pending axios promise and *)
(* to its response is axios's: the promise rejects, the stream emits an    *)
(* error.                                                                  *)
(***************************************************************************)
Attached == streaming /\ phase # "starting" /\ outcome = "none" /\ ~Stopped

\* Seeded fault: axios is called without the abort signal.
AbortWithoutSignal ==
    CASE phase \in {"reading", "consuming"} -> /\ error' = "abort" /\ phase' = "settling"
                                              /\ upstream' = "closed" /\ UNCHANGED outcome
      [] phase = "settling" -> upstream' = "closed" /\ UNCHANGED <<phase, error, outcome>>
      [] OTHER -> UNCHANGED <<phase, error, outcome, upstream>>

AbortUpstream ==
    CASE phase = "requesting" -> Throw("abort") /\ UNCHANGED upstream
      [] phase = "reading" -> Throw("cancelled") /\ upstream' = "closed"
      [] phase = "consuming" -> /\ error' = "abort" /\ phase' = "settling"
                                /\ upstream' = "closed" /\ UNCHANGED outcome
      [] phase = "settling" -> upstream' = "closed" /\ UNCHANGED <<phase, error, outcome>>
      [] OTHER -> UNCHANGED <<phase, error, outcome, upstream>>

ClientLeaves ==
    /\ ~gone
    /\ gone' = TRUE
    /\ \/ /\ Attached /\ ~ended
          /\ left' = TRUE
          /\ AbortUpstream
       \/ /\ ~Attached \/ ended
          /\ UNCHANGED <<left, phase, error, outcome, upstream>>
    /\ UNCHANGED <<streaming, attempts, output, sentVars, bookVars>>

(***************************************************************************)
(* logRequestEnd(), and what follows it.                                   *)
(***************************************************************************)
AfterEnd ==
    phase' = IF outcome = "success" \/ error = "abort" THEN "answering" ELSE "persisting"

EndIgnored ==
    /\ phase = "logging"
    /\ ~active
    /\ AfterEnd
    /\ UNCHANGED <<streaming, callVars, error, sentVars, clientVars, outcome, bookVars>>

EndBegins ==
    /\ phase = "logging"
    /\ active
    /\ phase' = "writing"
    /\ UNCHANGED <<streaming, callVars, error, sentVars, clientVars, outcome, bookVars>>

\* Seeded fault: the uptime sample is taken before the entry is deleted, and
\* throws.
EndWrittenSampleThrows ==
    /\ phase = "writing"
    /\ ends' = Append(ends, outcome)
    /\ \/ outcome = "success" /\ Caught("store")
       \/ outcome = "failed" /\ phase' = "rejected" /\ UNCHANGED <<error, outcome>>
    /\ UNCHANGED <<streaming, callVars, sentVars, clientVars, active, old, samples,
                   errorRows, faults, forgotten>>

EndWritten ==
    /\ phase = "writing"
    /\ ends' = Append(ends, outcome)
    /\ active' = FALSE
    /\ samples' = Append(samples, outcome)
    /\ AfterEnd
    /\ UNCHANGED <<streaming, callVars, error, sentVars, clientVars, old, outcome,
                   errorRows, faults, forgotten>>

\* Seeded fault: the uptime sample is taken before the row is written.
EndThrowsSampled ==
    /\ phase = "writing"
    /\ faults' = faults \cup {"failed"}
    /\ samples' = Append(samples, outcome)
    /\ \/ outcome = "success" /\ Caught("store")
       \/ outcome = "failed" /\ phase' = "rejected" /\ UNCHANGED <<error, outcome>>
    /\ UNCHANGED <<streaming, callVars, sentVars, clientVars, active, old, ends,
                   errorRows, forgotten>>

\* A statement fails, or commits and its acknowledgement is lost.  After a
\* success the error reaches the handler's catch, which ends the request again;
\* in the catch nothing catches it.
EndThrows ==
    /\ phase = "writing"
    /\ \/ faults' = faults \cup {"failed"} /\ UNCHANGED ends
       \/ faults' = faults \cup {"lost"} /\ ends' = Append(ends, outcome)
    /\ \/ outcome = "success" /\ Caught("store")
       \/ outcome = "failed" /\ phase' = "rejected" /\ UNCHANGED <<error, outcome>>
    /\ UNCHANGED <<streaming, callVars, sentVars, clientVars, active, old, samples,
                   errorRows, forgotten>>

ErrorPersisted ==
    /\ phase = "persisting"
    /\ errorRows' = errorRows \cup {error}
    /\ phase' = "answering"
    /\ UNCHANGED <<streaming, callVars, error, sentVars, clientVars, active, old,
                   outcome, ends, samples, faults, forgotten>>

PersistFails ==
    /\ phase = "persisting"
    /\ \/ faults' = faults \cup {"failed"} /\ UNCHANGED errorRows
       \/ faults' = faults \cup {"lost"} /\ errorRows' = errorRows \cup {error}
    /\ phase' = "rejected"
    /\ UNCHANGED <<streaming, callVars, error, sentVars, clientVars, active, old,
                   outcome, ends, samples, forgotten>>

\* Seeded fault: sendStreamError() does not look at writableEnded.
StreamErrorAlways == <<Frame("error"), Frame("done")>>

\* sendStreamError() gives up on an ended response.
StreamError ==
    IF ended THEN <<>> ELSE <<Frame("error"), Frame("done")>>

\* What the handler still writes; an aborted stream is ended without a word.
LastFrames ==
    CASE outcome = "success" /\ streaming -> <<>>
      [] outcome = "success" /\ ~streaming -> <<Frame("body")>>
      [] outcome = "failed" /\ error = "abort" -> <<>>
      [] outcome = "failed" /\ error # "abort" /\ streaming -> StreamError
      [] OTHER -> <<Frame("errorBody")>>

Answer ==
    /\ phase = "answering"
    /\ response' = response \o LastFrames
    /\ ended' = TRUE
    /\ phase' = "done"
    /\ UNCHANGED <<streaming, callVars, error, clientVars, outcome, bookVars>>

(***************************************************************************)
(* cleanupOldRequests() drops every request older than 180 s.              *)
(***************************************************************************)
Age ==
    /\ ~old /\ ~Stopped
    /\ old' = TRUE
    /\ UNCHANGED <<streaming, phase, callVars, error, sentVars, clientVars, active,
                   outcome, logVars, faults, forgotten>>

Cleanup ==
    /\ old /\ active /\ phase # "rejected"
    /\ active' = FALSE
    /\ forgotten' = TRUE
    /\ UNCHANGED <<streaming, phase, callVars, error, sentVars, clientVars, old, outcome,
                   logVars, faults>>

(***************************************************************************)
HandlerStep ==
    \/ StartLogged \/ RunAttempt \/ PrepareFails \/ SelectAgain \/ GiveUp \/ NothingSelected
    \/ Catch \/ Succeeded \/ Unparsable
    \/ EndIgnored \/ EndBegins \/ EndWritten \/ ErrorPersisted \/ Answer

UpstreamEvent ==
    \/ Responds \/ RespondsWithError \/ RequestFails \/ ErrorBodyRead
    \/ Chunk \/ StreamFails \/ StreamEnds \/ LateEvent

FaultStep == StartFails \/ KeyStoreFails \/ RecordFails \/ EndThrows \/ PersistFails

Next == HandlerStep \/ UpstreamEvent \/ FaultStep \/ ClientLeaves \/ Age \/ Cleanup

Spec == Init /\ [][Next]_vars

\* Promises of statements settle and the event loop runs what waits for them.
\* Nothing is assumed of the upstream, the client or the clock.
FairSpec == Spec /\ WF_vars(HandlerStep)

(***************************************************************************)
(* Properties.                                                             *)
(***************************************************************************)
FlagsOK ==
    /\ streaming \in BOOLEAN
    /\ output \in BOOLEAN
    /\ ended \in BOOLEAN
    /\ gone \in BOOLEAN
    /\ left \in BOOLEAN
    /\ active \in BOOLEAN
    /\ old \in BOOLEAN
    /\ forgotten \in BOOLEAN

StateOK ==
    /\ phase \in Phases
    /\ attempts \in 0..MaxAttempts
    /\ upstream \in {"none", "open", "closed"}
    /\ error \in Errors
    /\ outcome \in {"none", "success", "failed"}
    /\ phase \in {"logging", "writing", "persisting", "answering"} => outcome # "none"

RecordsOK ==
    /\ response \in Seq(Frames)
    /\ ends \in Seq({"success", "failed"})
    /\ samples \in Seq({"success", "failed"})
    /\ errorRows \subseteq Errors
    /\ faults \subseteq {"failed", "lost"}

TypeOK == FlagsOK /\ StateOK /\ RecordsOK

\* The answer is complete: a stream closed by [DONE] alone, or a body.
Complete ==
    /\ \E i \in 1..Len(response) : response[i].kind \in {"done", "body"}
    /\ \A i \in 1..Len(response) : response[i].kind # "error"

\* The client can parse what it gets: one terminator and nothing after it, an
\* error chunk only right before [DONE], and no end without a terminator unless
\* the client has left.  Late stream events, failures after a complete answer
\* and the catch block all write to the same response.
Framing ==
    /\ \A i \in 1..Len(response) :
          /\ response[i].kind \in Terminators => ended /\ i = Len(response)
          /\ response[i].kind = "error" => /\ i + 1 = Len(response)
                                           /\ response[i + 1].kind = "done"
    /\ ended /\ ~left => response # <<>> /\ response[Len(response)].kind \in Terminators

\* Everything a client reads of an answer comes from one upstream attempt:
\* retries and fallbacks never append to what an earlier attempt has sent.
OneVoice ==
    \A i, j \in 1..Len(response) : response[i].by = response[j].by

\* The client reads one whole answer, whatever fails and when.
AnswerWhole == TypeOK /\ Framing /\ OneVoice

\* What the request log, and with it the cost, says of a request is what the
\* client got: without a store fault and unless the cleanup dropped the entry,
\* the one end row says success for a complete answer and failed for any other.
EndTellsOutcome ==
    phase = "done" /\ faults = {} /\ ~forgotten
       => ends = <<IF Complete THEN "success" ELSE "failed">>

\* No request is counted twice in the log and its rollups, although the catch
\* block logs the end of requests whose success was being logged: a second row
\* needs a commit whose acknowledgement was lost.
OneEndRow == Len(ends) <= 1 \/ "lost" \in faults

\* The uptime layer hears of a request once at most, after its end row, and the
\* same as that row says.
SampleMatchesRow ==
    samples # <<>> => /\ ends # <<>>
                      /\ Len(samples) = 1
                      /\ samples[1] = ends[Len(ends)]

\* One row and one sample, which agree.
AccountedOnce == OneEndRow /\ SampleMatchesRow

\* An upstream stream is open only while its attempt is under way: each way out
\* of an attempt (failed status, in-band error, broken pipe, abort) closes it
\* before another one starts or the handler ends.
OneUpstream ==
    upstream = "open" => phase \in {"reading", "consuming", "settling"}

\* A client that is seen to leave costs nothing more: no upstream call starts
\* and no chunk is written for it, wherever the handler was.
LeaverCostsNothing ==
    [][left => /\ attempts' = attempts
               /\ \A i \in 1..Len(response') : i > Len(response) => response'[i].kind # "chunk"]_vars

\* The handler of such a client ends, whatever the upstream does or fails to do.
LeaverReleased == left ~> Stopped

\* AGENT.md 113: "Logging failures must not crash request/stream finalization."
\* A handler that has begun to end its request does not end by rejecting, with
\* the client's response open.
LoggingNeverCrashes == outcome # "none" => phase # "rejected"

\* The error log has no row of an error that the client's leaving caused.
AbortsNotPersisted == errorRows \cap {"abort", "cancelled"} = {}

\* The uptime of a model and its endpoint does not go down because a client went away.
AbortsNotDowntime == error = "abort" => samples = <<>>

\* AGENT.md 113: "Client-aborted streams are not upstream failures."
AbortsAreNotFailures == AbortsNotPersisted /\ AbortsNotDowntime
=============================================================================
