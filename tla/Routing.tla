------------------------------- MODULE Routing -------------------------------
(***************************************************************************)
(* One client request in executeRouting() (utils/requestRouting.ts): the   *)
(* loop over the targets of an automatic model, the keys of the target's   *)
(* endpoint and the retries on one key.  executeMessagesRouting() of       *)
(* routes/messages.ts is the same loop.                                    *)
(*                                                                         *)
(* The environment chooses what the awaits return: which key a selection   *)
(* finds (other requests and the operator change their states: KeyState),  *)
(* whether the registry still has the target, how an attempt ends, and     *)
(* whether a statement of the key store fails.                             *)
(***************************************************************************)
EXTENDS Integers, Sequences

CONSTANTS
    Models,          \* concrete models
    Endpoints,       \* the endpoints they live on
    EndpointOf,      \* EndpointOf[m]: the endpoint of model m
    KeysOf,          \* KeysOf[e]: the keys endpoint e is configured with
    MaxTargets,      \* autoModelMaxTargetAttempts
    MaxKeyAttempts,  \* 1 + keyHopAttempts
    RetriesOf,       \* RetriesOf[e]: resolveRetryAttempts() of endpoint e
    MaxRetries,      \* an upper bound of RetriesOf
    RecordCap        \* MAX_ATTEMPT_RECORDS

ASSUME EndpointsAssumption == EndpointOf \in [Models -> Endpoints]
ASSUME AttemptsAssumption == MaxKeyAttempts \in Nat \ {0}
ASSUME RetriesAssumption == MaxRetries \in Nat /\ RetriesOf \in [Endpoints -> 0..MaxRetries]

\* routes/admin.ts 1727 keeps autoModelMaxTargetAttempts at 20 or less, and
\* MAX_ATTEMPT_RECORDS is 64.
ASSUME CapAssumption == /\ MaxTargets \in Nat \ {0}
                        /\ RecordCap \in Nat
                        /\ MaxTargets < RecordCap

VARIABLES
    autoModel,        \* the requested model is automatic
    targetSequence,   \* the concrete models to try, in order
    phase,            \* where the loop stands
    targetCursor,     \* targets taken so far: the current one's position
    keyAttempt,       \* of the current target
    retryAttempt,     \* of the current key
    resolved,         \* endpointKey is set: a selection of this target succeeded
    key,              \* the key in use
    tried,            \* tried[e]: attemptedKeyHashes() of endpoint e
    attempts,         \* outcomes noted by recordRoutingAttempt()
    lastError,        \* kind of the last error, "none" before one
    output,           \* state.streamOutputStarted
    verdict,          \* what the caller gets, "none" while the loop runs
    here,             \* history: keys done with on the current target
    last              \* history: coordinates of the last runAttempt()

stateVars == <<autoModel, targetSequence>>
loopVars == <<targetCursor, keyAttempt, retryAttempt, resolved>>
keyVars == <<key, tried, here>>
noteVars == <<attempts, lastError>>
vars == <<stateVars, phase, loopVars, keyVars, noteVars, output, verdict, last>>

NoKey == 0
Phases == {"target", "select", "exhausting", "calling", "recording", "ended"}

\* What makes classifyUpstreamFailure() and recordKeyFailure() differ:
\*   "key"          401, 402, 403, 429
\*   "request"      400, 404: recorded against the key, but no reason to hop
\*   "client"       any other 4xx, and what no rule recognizes
\*   "transient"    5xx, timeout, network
\*   "unsupported"  the endpoint does not speak the request's protocol
Failures == {"key", "request", "client", "transient", "unsupported"}
Actionable == {"key", "request"}
Unreached == {"target_unavailable", "key_exhausted"}
Outcomes == Unreached \cup {"retry", "failure", "success"}
Verdicts == {"none", "result", "aborted", "store_error", "target_unavailable",
             "key_exhausted", "auto_targets_unavailable", "auto_targets_exhausted",
             "not_found"} \cup Failures

AnswerOf(v) == CASE v = "none" -> "none"
                 [] v = "result" -> "result"
                 [] OTHER -> "error"

Contract == INSTANCE Failover WITH answer <- AnswerOf(verdict)

Targets == Len(targetSequence)
AllKeys == UNION {KeysOf[e] : e \in Endpoints}

\* createRoutingState(): a concrete model is its own only target; an automatic
\* one has distinct targets, no more than the ceiling; a model that has left the
\* registry since the handler looked has none.
Init ==
    /\ autoModel \in BOOLEAN
    /\ \E n \in 0..(IF autoModel THEN MaxTargets ELSE 1) :
          \E f \in [1..n -> Models] :
             /\ \A i, j \in 1..n : i # j => f[i] # f[j]
             /\ targetSequence = f
    /\ phase = "target"
    /\ targetCursor = 0
    /\ keyAttempt = 0
    /\ retryAttempt = 0
    /\ resolved = FALSE
    /\ key = NoKey
    /\ tried = [e \in Endpoints |-> {}]
    /\ attempts = <<>>
    /\ lastError = "none"
    /\ output = FALSE
    /\ verdict = "none"
    /\ here = {}
    /\ last = Contract!NoCall

Endpoint == EndpointOf[targetSequence[targetCursor]]

\* recordRoutingAttempt(): nothing is kept beyond the cap.
Note(outcome) ==
    attempts' = IF Len(attempts) < RecordCap THEN Append(attempts, outcome) ELSE attempts

End(v) == phase' = "ended" /\ verdict' = v

(***************************************************************************)
(* Targets.                                                                *)
(***************************************************************************)
NextTarget ==
    /\ phase = "target"
    /\ targetCursor < Targets
    /\ targetCursor' = targetCursor + 1
    /\ keyAttempt' = 1
    /\ retryAttempt' = 0
    /\ resolved' = FALSE
    /\ here' = {}
    /\ phase' = "select"
    /\ UNCHANGED <<stateVars, key, tried, noteVars, output, verdict, last>>

\* Seeded fault: one note of an unreached target is enough.
SomethingUnreached == \E i \in 1..Len(attempts) : attempts[i] \in Unreached

\* autoExhausted(): the verdict comes from the notes, not from what happened.
NothingReached == \A i \in 1..Len(attempts) : attempts[i] \in Unreached

NoTargetLeft ==
    /\ phase = "target"
    /\ targetCursor = Targets
    /\ End(CASE autoModel /\ NothingReached -> "auto_targets_unavailable"
             [] autoModel /\ ~NothingReached -> "auto_targets_exhausted"
             [] ~autoModel /\ lastError # "none" -> lastError
             [] OTHER -> "not_found")
    /\ UNCHANGED <<stateVars, loopVars, keyVars, noteVars, output, last>>

(***************************************************************************)
(* Keys.                                                                   *)
(***************************************************************************)
\* Seeded fault: the set is asked for under no endpoint key at all.
ExcludedNever == {}

\* Empty on the first selection of a target, whatever earlier targets tried on
\* the same endpoint.
Excluded == IF resolved THEN tried[Endpoint] ELSE {}

\* getEndpointForConcreteModel() finds no registered model.
TargetGone ==
    /\ phase = "select"
    /\ \/ /\ autoModel
          /\ Note("target_unavailable")
          /\ lastError' = "target_unavailable"
          /\ phase' = "target"
          /\ UNCHANGED verdict
       \/ /\ ~autoModel
          /\ End("not_found")
          /\ UNCHANGED noteVars
    /\ UNCHANGED <<stateVars, loopVars, keyVars, output, last>>

StartAttempt(retry) ==
    /\ phase' = "calling"
    /\ retryAttempt' = retry
    /\ last' = [target |-> targetCursor, keyAttempt |-> keyAttempt, retry |-> retry]

KeySelected(k) ==
    /\ phase = "select"
    /\ k \in KeysOf[Endpoint] \ Excluded
    /\ resolved' = TRUE
    /\ key' = k
    /\ StartAttempt(0)
    /\ UNCHANGED <<stateVars, targetCursor, keyAttempt, tried, here, noteVars, output, verdict>>

\* tokenExhausted: every key is excluded, or not usable at the moment.  The
\* loop awaits buildExhaustionError().
NoKeySelected ==
    /\ phase = "select"
    /\ resolved' = TRUE
    /\ phase' = "exhausting"
    /\ UNCHANGED <<stateVars, targetCursor, keyAttempt, retryAttempt, keyVars, noteVars,
                   output, verdict, last>>

\* Seeded fault: the break out of the key loop is missing.
ExhaustedAgain ==
    /\ phase = "exhausting"
    /\ Note("key_exhausted")
    /\ lastError' = "key_exhausted"
    /\ phase' = "select"
    /\ UNCHANGED <<stateVars, loopVars, keyVars, output, verdict, last>>

Exhausted ==
    /\ phase = "exhausting"
    /\ Note("key_exhausted")
    /\ lastError' = "key_exhausted"
    /\ phase' = "target"
    /\ UNCHANGED <<stateVars, loopVars, keyVars, output, verdict, last>>

(***************************************************************************)
(* Attempts: the runAttempt() callback of the route.                       *)
(***************************************************************************)
OutputStarts ==
    /\ phase = "calling"
    /\ output' = TRUE
    /\ UNCHANGED <<stateVars, phase, loopVars, keyVars, noteVars, verdict, last>>

AttemptSucceeds ==
    /\ phase = "calling"
    /\ Note("success")
    /\ End("result")
    /\ UNCHANGED <<stateVars, loopVars, keyVars, lastError, output, last>>

\* An error with clientAbort set is thrown on at once.
ClientAborts ==
    /\ phase = "calling"
    /\ End("aborted")
    /\ UNCHANGED <<stateVars, loopVars, keyVars, noteVars, output, last>>

\* Seeded faults: a transient failure is retried after output; a bad request is
\* tried elsewhere; both limits are off by one.
RetrySameAlways(f) == f = "transient"
FallbackOnRequest(f) == ~output /\ f \in {"key", "transient", "unsupported", "request"}
RetryingOnceMore(f) == ~output /\ f = "transient" /\ retryAttempt <= RetriesOf[Endpoint]
HoppingOnceMore(f) == ~output /\ f = "key" /\ keyAttempt <= MaxKeyAttempts

\* classifyUpstreamFailure(): output that has started overrides everything.
RetrySame(f) == ~output /\ f = "transient"
RetryKey(f) == ~output /\ f = "key"
FallbackTarget(f) == ~output /\ f \in {"key", "transient", "unsupported"}

Retrying(f) == RetrySame(f) /\ retryAttempt < RetriesOf[Endpoint]
Hopping(f) == RetryKey(f) /\ keyAttempt < MaxKeyAttempts

\* The loop's turn after a failure of kind f has been dealt with.
RetrySameKey(f) ==
    /\ Retrying(f)
    /\ StartAttempt(retryAttempt + 1)
    /\ UNCHANGED <<targetCursor, keyAttempt, resolved, keyVars, verdict>>

LeaveKey(f) ==
    /\ ~Retrying(f)
    /\ tried' = [tried EXCEPT ![Endpoint] = @ \cup {key}]
    /\ here' = here \cup {key}
    /\ keyAttempt' = IF Hopping(f) THEN keyAttempt + 1 ELSE keyAttempt
    /\ CASE Hopping(f) -> phase' = "select" /\ UNCHANGED verdict
         [] ~Hopping(f) /\ FallbackTarget(f) -> phase' = "target" /\ UNCHANGED verdict
         [] OTHER -> End(f)
    /\ UNCHANGED <<targetCursor, retryAttempt, resolved, key, last>>

AttemptFails(f) ==
    /\ phase = "calling"
    /\ Note(IF Retrying(f) THEN "retry" ELSE "failure")
    /\ lastError' = f
    /\ IF f \in Actionable
       THEN phase' = "recording" /\ UNCHANGED <<loopVars, keyVars, verdict, last>>
       ELSE RetrySameKey(f) \/ LeaveKey(f)
    /\ UNCHANGED <<stateVars, output>>

\* recordKeyFailure() returned.
FailureRecorded ==
    /\ phase = "recording"
    /\ LeaveKey(lastError)
    /\ UNCHANGED <<stateVars, noteVars, output>>

\* A statement of the key store fails: the error leaves the loop, since only
\* runAttempt() is inside the try.
StoreFails ==
    /\ phase \in {"select", "exhausting", "recording"}
    /\ End("store_error")
    /\ UNCHANGED <<stateVars, loopVars, keyVars, noteVars, output, last>>

Next ==
    \/ NextTarget
    \/ NoTargetLeft
    \/ TargetGone
    \/ \E k \in AllKeys : KeySelected(k)
    \/ NoKeySelected
    \/ Exhausted
    \/ OutputStarts
    \/ AttemptSucceeds
    \/ ClientAborts
    \/ \E f \in Failures : AttemptFails(f)
    \/ FailureRecorded
    \/ StoreFails

Spec == Init /\ [][Next]_vars

\* Every await of the loop returns: statements complete, axios bounds the wait
\* for a response, and a stream that has begun ends or its client leaves.
FairSpec == Spec /\ WF_vars(Next)

(***************************************************************************)
(* Properties.                                                             *)
(***************************************************************************)
TypeOK ==
    /\ autoModel \in BOOLEAN
    /\ targetSequence \in Seq(Models)
    /\ Targets <= MaxTargets
    /\ phase \in Phases
    /\ targetCursor \in 0..Targets
    /\ keyAttempt \in 0..MaxKeyAttempts
    /\ retryAttempt \in 0..MaxRetries
    /\ resolved \in BOOLEAN
    /\ key \in AllKeys \cup {NoKey}
    /\ tried \in [Endpoints -> SUBSET AllKeys]
    /\ attempts \in Seq(Outcomes)
    /\ lastError \in Failures \cup Unreached \cup {"none"}
    /\ output \in BOOLEAN
    /\ verdict \in Verdicts
    /\ here \subseteq AllKeys
    /\ last \in [target : 0..targetCursor, keyAttempt : 0..MaxKeyAttempts, retry : 0..MaxRetries]
    /\ phase = "ended" <=> verdict # "none"
    /\ phase \notin {"target", "ended"} => targetCursor >= 1 /\ keyAttempt >= 1
    /\ phase \in {"calling", "recording"} => key \in KeysOf[Endpoint]
    /\ phase = "recording" => lastError \in Actionable

Called == last # Contract!NoCall

\* A client told that an automatic model has no available target is told the
\* truth: not one upstream attempt was made for it.  And if none could be made,
\* it is told so.  The verdict is computed from notes that are capped, so this
\* needs more room for notes than there are targets.
UnavailableHonest ==
    verdict \in {"auto_targets_unavailable", "auto_targets_exhausted"}
       => (verdict = "auto_targets_unavailable" <=> ~Called)

\* "Never retry or switch targets after any response bytes have been emitted to
\* the client" (AGENT.md 99): with output out, the attempt that produced it is
\* the last one, however it fails.
OutputFinal == [][output => UNCHANGED last]_vars

\* A failure that is the request's own (400, 404, other 4xx) ends the request:
\* the other keys and targets are not burnt on it.
ClientErrorsStop ==
    lastError \in {"request", "client"} => phase \in {"recording", "ended"}

\* The keys one target's hops go through are all different, also when the
\* cooldown of an earlier one ends, or an earlier target used the endpoint.
HopsDistinct == phase = "calling" => key \notin here

\* Each way on and each way out is one the failures allow: a refusal tells the truth, the
\* request's own error stops it, and a hop goes to another key.
WaysOutTrue == TypeOK /\ UnavailableHonest /\ ClientErrorsStop /\ HopsDistinct

\* The loop implements the contract: attempts go forward within the limits and
\* one answer ends the request.
ImplementsFailover == Contract!Spec

\* Every request is answered, whatever fails meanwhile.
Answered == <>(verdict # "none")

\* What utils/helpers.ts 449 says of excludeHashes: the keys "already tried
\* this request" are skipped "so a single request never retries the same key".
\* Same-key retries of a transient failure aside, no attempt starts on a key
\* that the request has left before.
NoKeyReuse == phase = "calling" => key \notin tried[Endpoint]
=============================================================================
