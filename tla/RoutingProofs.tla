---------------------------- MODULE RoutingProofs ----------------------------
(***************************************************************************)
(* Proofs about Routing: for every sequence of targets, every set of keys  *)
(* and every limit.                                                        *)
(***************************************************************************)
EXTENDS Routing, TLAPS

USE DEF Failures, Actionable, Unreached, Outcomes, Verdicts, Phases, NoKey,
        Contract!NoCall

LEMMA EndpointIsOne ==
    ASSUME TypeOK, targetCursor >= 1
    PROVE  Endpoint \in Endpoints /\ RetriesOf[Endpoint] \in 0..MaxRetries
           /\ KeysOf[Endpoint] \subseteq AllKeys
<1>1. targetSequence[targetCursor] \in Models BY DEF TypeOK, Targets
<1>2. Endpoint \in Endpoints BY <1>1, EndpointsAssumption DEF Endpoint
<1>3. QED BY <1>2, RetriesAssumption DEF AllKeys

LEMMA NotesAreNotes ==
    ASSUME attempts \in Seq(Outcomes), NEW o \in Outcomes, Note(o)
    PROVE  attempts' \in Seq(Outcomes)
BY DEF Note

\* What leaving a key does to the loop's own variables.
LEMMA LeaveKeyType ==
    ASSUME TypeOK, NEW f \in Failures, phase \in {"calling", "recording"}, LeaveKey(f)
    PROVE  /\ tried' \in [Endpoints -> SUBSET AllKeys]
           /\ here' \subseteq AllKeys
           /\ keyAttempt' \in 1..MaxKeyAttempts
           /\ \/ phase' \in {"select", "target"} /\ verdict' = verdict
              \/ phase' = "ended" /\ verdict' = f
           /\ UNCHANGED <<targetCursor, retryAttempt, resolved, key, last>>
<1>1. targetCursor >= 1 /\ keyAttempt >= 1 /\ key \in KeysOf[Endpoint] BY DEF TypeOK
<1>2. key \in AllKeys BY <1>1, EndpointIsOne
<1>3. /\ tried' \in [Endpoints -> SUBSET AllKeys]
      /\ here' \subseteq AllKeys
      /\ UNCHANGED <<targetCursor, retryAttempt, resolved, key, last>>
      BY <1>2 DEF TypeOK, LeaveKey
<1>4. keyAttempt' \in 1..MaxKeyAttempts
      <2>1. CASE Hopping(f) BY <1>1, <2>1, AttemptsAssumption DEF TypeOK, LeaveKey, Hopping
      <2>2. CASE ~Hopping(f) BY <1>1, <2>2 DEF TypeOK, LeaveKey
      <2>3. QED BY <2>1, <2>2
<1>5. \/ phase' \in {"select", "target"} /\ verdict' = verdict
      \/ phase' = "ended" /\ verdict' = f
      <2>1. CASE Hopping(f) BY <2>1 DEF LeaveKey
      <2>2. CASE ~Hopping(f) /\ FallbackTarget(f) BY <2>2 DEF LeaveKey
      <2>3. CASE ~Hopping(f) /\ ~FallbackTarget(f) BY <2>3 DEF LeaveKey, End
      <2>4. QED BY <2>1, <2>2, <2>3
<1>6. QED BY <1>3, <1>4, <1>5

LEMMA TypeInit == Init => TypeOK
<1> SUFFICES ASSUME Init PROVE TypeOK
    OBVIOUS
<1>1. PICK n \in 0..(IF autoModel THEN MaxTargets ELSE 1) :
         \E f \in [1..n -> Models] : targetSequence = f
      BY DEF Init
<1>2. targetSequence \in Seq(Models) /\ Targets <= MaxTargets
      BY <1>1, CapAssumption DEF Init, Targets
<1>3. /\ targetCursor \in 0..Targets /\ targetCursor = 0
      /\ keyAttempt \in 0..MaxKeyAttempts
      /\ retryAttempt \in 0..MaxRetries
      BY <1>2, RetriesAssumption, AttemptsAssumption DEF Init, Targets
<1>4. last \in [target : 0..targetCursor, keyAttempt : 0..MaxKeyAttempts, retry : 0..MaxRetries]
      BY <1>3 DEF Init
<1>5. tried \in [Endpoints -> SUBSET AllKeys] /\ attempts \in Seq(Outcomes) /\ autoModel \in BOOLEAN
      BY DEF Init
<1>6. QED BY <1>2, <1>3, <1>4, <1>5 DEF Init, TypeOK

LEMMA TypeNext == TypeOK /\ [Next]_vars => TypeOK'
<1> SUFFICES ASSUME TypeOK, [Next]_vars PROVE TypeOK'
    OBVIOUS
<1> USE DEF TypeOK, stateVars, loopVars, keyVars, noteVars, Targets, End, Endpoint
<1>1. CASE NextTarget
      <2>1. /\ targetCursor' \in 0..Targets' /\ targetCursor' >= 1
            /\ keyAttempt' \in 0..MaxKeyAttempts /\ keyAttempt' >= 1
            /\ retryAttempt' \in 0..MaxRetries
            BY <1>1, AttemptsAssumption, RetriesAssumption DEF NextTarget
      <2>2. last' \in [target : 0..targetCursor', keyAttempt : 0..MaxKeyAttempts,
                       retry : 0..MaxRetries]
            BY <1>1 DEF NextTarget
      <2>3. QED BY <1>1, <2>1, <2>2 DEF NextTarget
<1>2. CASE NoTargetLeft BY <1>2 DEF NoTargetLeft
<1>3. CASE TargetGone
      <2>1. attempts' \in Seq(Outcomes) BY <1>3, NotesAreNotes DEF TargetGone
      <2>2. QED BY <1>3, <2>1 DEF TargetGone
<1>4. ASSUME NEW k \in AllKeys, KeySelected(k) PROVE TypeOK'
      BY <1>4, RetriesAssumption DEF KeySelected, StartAttempt
<1>5. CASE NoKeySelected BY <1>5 DEF NoKeySelected
<1>6. CASE Exhausted
      <2>1. attempts' \in Seq(Outcomes) BY <1>6, NotesAreNotes DEF Exhausted
      <2>2. QED BY <1>6, <2>1 DEF Exhausted
<1>7. CASE OutputStarts BY <1>7 DEF OutputStarts
<1>8. CASE AttemptSucceeds
      <2>1. attempts' \in Seq(Outcomes) BY <1>8, NotesAreNotes DEF AttemptSucceeds
      <2>2. QED BY <1>8, <2>1 DEF AttemptSucceeds
<1>9. CASE ClientAborts BY <1>9 DEF ClientAborts
<1>10. ASSUME NEW f \in Failures, AttemptFails(f) PROVE TypeOK'
      <2>1. attempts' \in Seq(Outcomes) BY <1>10, NotesAreNotes DEF AttemptFails
      <2>2. CASE f \in Actionable BY <1>10, <2>1, <2>2 DEF AttemptFails
      <2>3. CASE f \notin Actionable /\ RetrySameKey(f)
            <3>1. retryAttempt < RetriesOf[Endpoint] /\ targetCursor >= 1
                  BY <1>10, <2>3 DEF AttemptFails, RetrySameKey, Retrying
            <3>2. RetriesOf[Endpoint] \in 0..MaxRetries BY <3>1, EndpointIsOne
            <3>3. retryAttempt + 1 \in 0..MaxRetries BY <3>1, <3>2, RetriesAssumption
            <3>4. QED BY <1>10, <2>1, <2>3, <3>3 DEF AttemptFails, RetrySameKey, StartAttempt
      <2>4. CASE f \notin Actionable /\ LeaveKey(f)
            BY <1>10, <2>1, <2>4, LeaveKeyType DEF AttemptFails
      <2>5. QED BY <1>10, <2>2, <2>3, <2>4 DEF AttemptFails
<1>11. CASE FailureRecorded BY <1>11, LeaveKeyType DEF FailureRecorded
<1>12. CASE StoreFails BY <1>12 DEF StoreFails
<1>13. CASE UNCHANGED vars BY <1>13 DEF vars
<1>14. QED BY <1>1, <1>2, <1>3, <1>4, <1>5, <1>6, <1>7, <1>8, <1>9, <1>10, <1>11,
              <1>12, <1>13 DEF Next

\* The loop's variables have their types at every moment.
THEOREM TypeCorrect == Spec => []TypeOK
<1>1. QED BY TypeInit, TypeNext, PTL DEF Spec

(***************************************************************************)
(* After output, and after the request's own errors, nothing follows.      *)
(***************************************************************************)
\* Output goes out during an attempt, and what the loop does after it is to
\* record the failure and end.
OutputEnds == output => phase \in {"calling", "recording", "ended"}

LEMMA OutputNext == OutputEnds /\ [Next]_vars => OutputEnds'
<1> SUFFICES ASSUME OutputEnds, [Next]_vars PROVE OutputEnds'
    OBVIOUS
<1> USE DEF OutputEnds, stateVars, loopVars, keyVars, noteVars, End
<1>1. CASE NextTarget \/ NoTargetLeft \/ TargetGone \/ NoKeySelected \/ Exhausted
      BY <1>1 DEF NextTarget, NoTargetLeft, TargetGone, NoKeySelected, Exhausted
<1>2. ASSUME NEW k \in AllKeys, KeySelected(k) PROVE OutputEnds'
      BY <1>2 DEF KeySelected, StartAttempt
<1>3. CASE OutputStarts \/ AttemptSucceeds \/ ClientAborts \/ StoreFails
      BY <1>3 DEF OutputStarts, AttemptSucceeds, ClientAborts, StoreFails
<1>4. ASSUME NEW f, LeaveKey(f), output' = output PROVE OutputEnds'
      BY <1>4 DEF LeaveKey, Hopping, RetryKey, FallbackTarget
<1>5. ASSUME NEW f \in Failures, AttemptFails(f) PROVE OutputEnds'
      BY <1>4, <1>5 DEF AttemptFails, RetrySameKey, StartAttempt
<1>6. CASE FailureRecorded BY <1>4, <1>6 DEF FailureRecorded
<1>7. CASE UNCHANGED vars BY <1>7 DEF vars
<1>8. QED BY <1>1, <1>2, <1>3, <1>5, <1>6, <1>7 DEF Next

\* A new attempt starts only from a selection or as a retry, and neither
\* happens once output is out.
LEMMA OutputStep == OutputEnds /\ [Next]_vars => [output => UNCHANGED last]_vars
<1> SUFFICES ASSUME OutputEnds, [Next]_vars, output PROVE last' = last
    OBVIOUS
<1> USE DEF OutputEnds, stateVars, loopVars, keyVars, noteVars
<1>1. CASE NextTarget \/ NoTargetLeft \/ TargetGone \/ NoKeySelected \/ Exhausted
      BY <1>1 DEF NextTarget, NoTargetLeft, TargetGone, NoKeySelected, Exhausted
<1>2. ASSUME NEW k \in AllKeys, KeySelected(k) PROVE last' = last
      BY <1>2 DEF KeySelected
<1>3. CASE OutputStarts \/ AttemptSucceeds \/ ClientAborts \/ StoreFails
      BY <1>3 DEF OutputStarts, AttemptSucceeds, ClientAborts, StoreFails
<1>4. ASSUME NEW f \in Failures, AttemptFails(f) PROVE last' = last
      BY <1>4 DEF AttemptFails, RetrySameKey, Retrying, RetrySame, LeaveKey
<1>5. CASE FailureRecorded BY <1>5 DEF FailureRecorded, LeaveKey
<1>6. CASE UNCHANGED vars BY <1>6 DEF vars
<1>7. QED BY <1>1, <1>2, <1>3, <1>4, <1>5, <1>6 DEF Next

\* Once a byte of output is out, no further upstream attempt starts.
THEOREM OutputFinalHolds == Spec => OutputFinal
<1>1. Init => OutputEnds BY DEF Init, OutputEnds
<1>2. QED BY <1>1, OutputNext, OutputStep, PTL DEF Spec, OutputFinal

LEMMA ClientErrorsNext == ClientErrorsStop /\ [Next]_vars => ClientErrorsStop'
<1> SUFFICES ASSUME ClientErrorsStop, [Next]_vars PROVE ClientErrorsStop'
    OBVIOUS
<1> USE DEF ClientErrorsStop, stateVars, loopVars, keyVars, noteVars, End
<1>1. CASE NextTarget \/ NoTargetLeft \/ TargetGone \/ NoKeySelected \/ Exhausted
      BY <1>1 DEF NextTarget, NoTargetLeft, TargetGone, NoKeySelected, Exhausted
<1>2. ASSUME NEW k \in AllKeys, KeySelected(k) PROVE ClientErrorsStop'
      BY <1>2 DEF KeySelected, StartAttempt
<1>3. CASE OutputStarts \/ AttemptSucceeds \/ ClientAborts \/ StoreFails
      BY <1>3 DEF OutputStarts, AttemptSucceeds, ClientAborts, StoreFails
<1>4. ASSUME NEW f, f \in {"request", "client"}, LeaveKey(f) PROVE phase' = "ended"
      BY <1>4 DEF LeaveKey, Hopping, RetryKey, FallbackTarget
<1>5. ASSUME NEW f \in Failures, AttemptFails(f) PROVE ClientErrorsStop'
      BY <1>4, <1>5 DEF AttemptFails, RetrySameKey, Retrying, RetrySame
<1>6. CASE FailureRecorded BY <1>4, <1>6 DEF FailureRecorded
<1>7. CASE UNCHANGED vars BY <1>7 DEF vars
<1>8. QED BY <1>1, <1>2, <1>3, <1>5, <1>6, <1>7 DEF Next

\* A failure that is the request's own ends the request.
THEOREM ClientErrorsStopHolds == Spec => []ClientErrorsStop
<1>1. Init => ClientErrorsStop BY DEF Init, ClientErrorsStop
<1>2. QED BY <1>1, ClientErrorsNext, PTL DEF Spec

(***************************************************************************)
(* The hops of one target.                                                 *)
(***************************************************************************)
\* What the loop has left on this target is in the set it excludes, from the
\* moment it has an endpoint key to look that set up by.
HopsKnown ==
    /\ targetCursor >= 1 => here \subseteq tried[Endpoint]
    /\ here # {} => resolved /\ targetCursor >= 1
    /\ phase \in {"calling", "recording"} => resolved /\ key \notin here

LEMMA HopsNext == TypeOK /\ HopsKnown /\ [Next]_vars => HopsKnown'
<1> SUFFICES ASSUME TypeOK, HopsKnown, [Next]_vars PROVE HopsKnown'
    OBVIOUS
<1> USE DEF HopsKnown, stateVars, loopVars, keyVars, noteVars, End, Endpoint
<1>1. CASE NextTarget BY <1>1 DEF NextTarget
<1>2. CASE NoTargetLeft \/ TargetGone \/ NoKeySelected \/ Exhausted
      BY <1>2 DEF NoTargetLeft, TargetGone, NoKeySelected, Exhausted, TypeOK
<1>3. ASSUME NEW k \in AllKeys, KeySelected(k) PROVE HopsKnown'
      <2>1. k \notin here BY <1>3 DEF KeySelected, Excluded, TypeOK
      <2>2. QED BY <1>3, <2>1 DEF KeySelected, StartAttempt
<1>4. CASE OutputStarts \/ AttemptSucceeds \/ ClientAborts \/ StoreFails
      BY <1>4 DEF OutputStarts, AttemptSucceeds, ClientAborts, StoreFails
<1>5. ASSUME NEW f, LeaveKey(f), phase \in {"calling", "recording"},
             UNCHANGED stateVars
      PROVE  HopsKnown'
      <2>1. targetCursor >= 1 /\ Endpoint \in Endpoints
            BY <1>5, EndpointIsOne DEF TypeOK
      <2>2. tried'[Endpoint] = tried[Endpoint] \cup {key} BY <1>5, <2>1 DEF LeaveKey, TypeOK
      <2>3. phase' \in {"select", "target", "ended"}
            BY <1>5 DEF LeaveKey
      <2>4. /\ here' = here \cup {key}
            /\ UNCHANGED <<targetCursor, resolved>>
            BY <1>5 DEF LeaveKey
      <2>5. QED BY <1>5, <2>1, <2>2, <2>3, <2>4
<1>6. ASSUME NEW f \in Failures, AttemptFails(f) PROVE HopsKnown'
      <2>1. CASE f \in Actionable BY <1>6, <2>1 DEF AttemptFails
      <2>2. CASE f \notin Actionable /\ RetrySameKey(f)
            BY <1>6, <2>2 DEF AttemptFails, RetrySameKey, StartAttempt
      <2>3. CASE f \notin Actionable /\ LeaveKey(f)
            BY <1>5, <1>6, <2>3 DEF AttemptFails
      <2>4. QED BY <1>6, <2>1, <2>2, <2>3 DEF AttemptFails
<1>7. CASE FailureRecorded BY <1>5, <1>7 DEF FailureRecorded
<1>8. CASE UNCHANGED vars BY <1>8 DEF vars
<1>9. QED BY <1>1, <1>2, <1>3, <1>4, <1>6, <1>7, <1>8 DEF Next

\* The keys one target's hops go through are all different.
THEOREM HopsDistinctHolds == Spec => []HopsDistinct
<1>1. Init => HopsKnown BY DEF Init, HopsKnown
<1>2. HopsKnown => HopsDistinct BY DEF HopsKnown, HopsDistinct
<1>3. QED BY <1>1, <1>2, HopsNext, TypeCorrect, PTL DEF Spec

(***************************************************************************)
(* Attempts go forward, so the loop implements the contract.               *)
(***************************************************************************)
\* Where the last attempt stands relative to the loop's counters.
CallsForward ==
    /\ phase \in {"select", "exhausting"} =>
          \/ last.target < targetCursor
          \/ last.target = targetCursor /\ last.keyAttempt < keyAttempt
    /\ phase \in {"calling", "recording"} =>
          last = [target |-> targetCursor, keyAttempt |-> keyAttempt, retry |-> retryAttempt]

LEMMA ForwardNext == TypeOK /\ CallsForward /\ [Next]_vars => CallsForward'
<1> SUFFICES ASSUME TypeOK, CallsForward, [Next]_vars PROVE CallsForward'
    OBVIOUS
<1> USE DEF CallsForward, stateVars, loopVars, keyVars, noteVars, End
<1>1. CASE NextTarget BY <1>1 DEF NextTarget, TypeOK
<1>2. CASE NoTargetLeft \/ TargetGone \/ NoKeySelected \/ Exhausted
      BY <1>2 DEF NoTargetLeft, TargetGone, NoKeySelected, Exhausted
<1>3. ASSUME NEW k \in AllKeys, KeySelected(k) PROVE CallsForward'
      BY <1>3 DEF KeySelected, StartAttempt
<1>4. CASE OutputStarts \/ AttemptSucceeds \/ ClientAborts \/ StoreFails
      BY <1>4 DEF OutputStarts, AttemptSucceeds, ClientAborts, StoreFails
<1>5. ASSUME NEW f, LeaveKey(f), phase \in {"calling", "recording"} PROVE CallsForward'
      BY <1>5 DEF LeaveKey, TypeOK
<1>6. ASSUME NEW f \in Failures, AttemptFails(f) PROVE CallsForward'
      BY <1>5, <1>6 DEF AttemptFails, RetrySameKey, StartAttempt
<1>7. CASE FailureRecorded BY <1>5, <1>7 DEF FailureRecorded
<1>8. CASE UNCHANGED vars BY <1>8 DEF vars
<1>9. QED BY <1>1, <1>2, <1>3, <1>4, <1>6, <1>7, <1>8 DEF Next

LEMMA CallUnderWay ==
    ASSUME TypeOK, CallsForward, phase \in {"calling", "recording"}
    PROVE  Called
BY DEF TypeOK, CallsForward, Called

\* A new attempt is a step of the contract when it is within the limits and
\* comes after the last one.
LEMMA AttemptIsCall ==
    ASSUME TypeOK, OutputEnds, NEW t, NEW n, NEW r,
           t \in 1..MaxTargets, n \in 1..MaxKeyAttempts, r \in 0..MaxRetries,
           verdict = "none", verdict' = "none", output = FALSE, output' = FALSE,
           last' = [target |-> t, keyAttempt |-> n, retry |-> r],
           Contract!After(last, last')
    PROVE  Contract!Call
BY DEF Contract!Call, Contract!Place, AnswerOf

ContractStep == [Contract!Next]_(Contract!failoverVars)

LEMMA EndIsAnswer ==
    ASSUME TypeOK, NEW v \in Verdicts \ {"none"}, verdict = "none", verdict' = v,
           v = "result" => Called, UNCHANGED <<last, output>>
    PROVE  ContractStep
BY DEF ContractStep, Contract!Next, Contract!Answer, AnswerOf, Called

LEMMA QuietIsStutter ==
    ASSUME UNCHANGED <<last, output, verdict>> PROVE ContractStep
BY DEF ContractStep, Contract!failoverVars, AnswerOf

LEMMA ImplementsNext ==
    TypeOK /\ OutputEnds /\ CallsForward /\ [Next]_vars => ContractStep
<1> SUFFICES ASSUME TypeOK, OutputEnds, CallsForward, [Next]_vars PROVE ContractStep
    OBVIOUS
<1> USE DEF stateVars, loopVars, keyVars, noteVars, End
<1>0. Targets \in Nat /\ Targets <= MaxTargets /\ MaxTargets \in Nat
      BY CapAssumption DEF TypeOK, Targets
<1>1. CASE NextTarget \/ NoKeySelected \/ Exhausted
      BY <1>1, QuietIsStutter DEF NextTarget, NoKeySelected, Exhausted
<1>2. CASE NoTargetLeft
      <2>1. verdict = "none" /\ UNCHANGED <<last, output>>
            BY <1>2 DEF NoTargetLeft, TypeOK
      <2>2. verdict' \in Verdicts \ {"none", "result"}
            BY <1>2 DEF NoTargetLeft, TypeOK
      <2>3. QED BY <2>1, <2>2, EndIsAnswer
<1>3. CASE TargetGone
      <2>1. CASE autoModel BY <1>3, <2>1, QuietIsStutter DEF TargetGone
      <2>2. CASE ~autoModel BY <1>3, <2>2, EndIsAnswer DEF TargetGone, TypeOK
      <2>3. QED BY <2>1, <2>2
<1>4. ASSUME NEW k \in AllKeys, KeySelected(k) PROVE ContractStep
      <2>1. /\ verdict = "none" /\ verdict' = "none"
            /\ output = FALSE /\ output' = FALSE
            /\ last' = [target |-> targetCursor, keyAttempt |-> keyAttempt, retry |-> 0]
            BY <1>4 DEF KeySelected, StartAttempt, TypeOK, OutputEnds
      <2>2. targetCursor \in 1..MaxTargets /\ keyAttempt \in 1..MaxKeyAttempts
            BY <1>0, <1>4 DEF KeySelected, TypeOK
      <2>3. Contract!After(last, last')
            BY <1>4, <2>1 DEF KeySelected, CallsForward, Contract!After
      <2>4. 0 \in 0..MaxRetries BY RetriesAssumption
      <2>5. Contract!Call BY <2>1, <2>2, <2>3, <2>4, AttemptIsCall
      <2>6. QED BY <2>5 DEF ContractStep, Contract!Next
<1>5. CASE OutputStarts
      <2>1. Called /\ verdict = "none"
            BY <1>5, CallUnderWay DEF OutputStarts, TypeOK
      <2>2. Contract!Emit BY <1>5, <2>1 DEF OutputStarts, Contract!Emit, Called, AnswerOf
      <2>3. QED BY <2>2 DEF ContractStep, Contract!Next
<1>6. CASE AttemptSucceeds \/ ClientAborts
      BY <1>6, CallUnderWay, EndIsAnswer DEF AttemptSucceeds, ClientAborts, TypeOK
<1>7. ASSUME NEW f \in Failures, LeaveKey(f), phase \in {"calling", "recording"},
             output' = output
      PROVE  ContractStep
      <2>1. verdict = "none" /\ UNCHANGED <<last, output>>
            BY <1>7 DEF LeaveKey, TypeOK
      <2>2. verdict' = verdict \/ verdict' = f BY <1>7, LeaveKeyType
      <2>3. QED BY <2>1, <2>2, EndIsAnswer, QuietIsStutter
<1>8. ASSUME NEW f \in Failures, AttemptFails(f) PROVE ContractStep
      <2>1. CASE f \in Actionable BY <1>8, <2>1, QuietIsStutter DEF AttemptFails
      <2>2. CASE f \notin Actionable /\ RetrySameKey(f)
            <3>1. /\ verdict = "none" /\ verdict' = "none"
                  /\ output = FALSE /\ output' = FALSE
                  /\ last' = [target |-> targetCursor, keyAttempt |-> keyAttempt,
                              retry |-> retryAttempt + 1]
                  BY <1>8, <2>2
                  DEF AttemptFails, RetrySameKey, StartAttempt, Retrying, RetrySame, TypeOK
            <3>2. targetCursor \in 1..MaxTargets /\ keyAttempt \in 1..MaxKeyAttempts
                  BY <1>0, <1>8 DEF AttemptFails, TypeOK
            <3>3. Contract!After(last, last')
                  BY <1>8, <3>1 DEF AttemptFails, CallsForward, Contract!After, TypeOK
            <3>4. retryAttempt < RetriesOf[Endpoint] /\ targetCursor >= 1
                  BY <2>2, <3>2 DEF RetrySameKey, Retrying
            <3>5. RetriesOf[Endpoint] \in 0..MaxRetries BY <3>4, EndpointIsOne
            <3>6. retryAttempt + 1 \in 0..MaxRetries
                  BY <3>4, <3>5, RetriesAssumption DEF TypeOK
            <3>7. Contract!Call BY <3>1, <3>2, <3>3, <3>6, AttemptIsCall
            <3>8. QED BY <3>7 DEF ContractStep, Contract!Next
      <2>3. CASE f \notin Actionable /\ LeaveKey(f)
            BY <1>7, <1>8, <2>3 DEF AttemptFails
      <2>4. QED BY <1>8, <2>1, <2>2, <2>3 DEF AttemptFails
<1>9. CASE FailureRecorded
      <2>1. lastError \in Failures BY <1>9 DEF FailureRecorded, TypeOK
      <2>2. QED BY <1>7, <1>9, <2>1 DEF FailureRecorded
<1>10. CASE StoreFails BY <1>10, EndIsAnswer DEF StoreFails, TypeOK
<1>11. CASE UNCHANGED vars BY <1>11, QuietIsStutter DEF vars
<1>12. QED BY <1>1, <1>2, <1>3, <1>4, <1>5, <1>6, <1>8, <1>9, <1>10, <1>11 DEF Next

\* The routing loop implements the contract: attempts only go forward, within
\* the limits of targets, keys and retries, none follows output, one answer.
THEOREM ImplementsFailoverHolds == Spec => ImplementsFailover
<1>1. Init => Contract!Init BY DEF Init, Contract!Init, AnswerOf
<1>2. Init => OutputEnds /\ CallsForward BY DEF Init, OutputEnds, CallsForward
<1>3. QED BY <1>1, <1>2, OutputNext, ForwardNext, ImplementsNext, TypeCorrect, PTL
         DEF Spec, ImplementsFailover, Contract!Spec, ContractStep

(***************************************************************************)
(* What the notes say about the attempts.                                  *)
(***************************************************************************)
LEMMA NoteKept ==
    ASSUME TypeOK, NEW o \in Outcomes, Note(o), Len(attempts) < RecordCap
    PROVE  /\ Len(attempts') = Len(attempts) + 1
           /\ NothingReached' <=> NothingReached /\ o \in Unreached
<1>1. attempts' = Append(attempts, o) /\ attempts \in Seq(Outcomes)
      BY DEF Note, TypeOK
<1>2. /\ Len(attempts') = Len(attempts) + 1
      /\ \A i \in 1..Len(attempts) : attempts'[i] = attempts[i]
      /\ attempts'[Len(attempts) + 1] = o
      BY <1>1
<1>3. Len(attempts) \in Nat BY <1>1
<1>4. QED BY <1>2, <1>3 DEF NothingReached

LEMMA NoteNeverLost ==
    ASSUME TypeOK, NEW o \in Outcomes, Note(o), ~NothingReached
    PROVE  ~NothingReached'
<1>1. CASE Len(attempts) < RecordCap BY <1>1, NoteKept
<1>2. CASE ~(Len(attempts) < RecordCap) BY <1>2 DEF Note, NothingReached
<1>3. QED BY <1>1, <1>2

\* While all that is noted is targets that were not reached, there are fewer
\* notes than targets taken, so the cap has not been met and nothing but the
\* attempt under way can have been made.
HonestNotes ==
    /\ NothingReached =>
          /\ Len(attempts) <= targetCursor
          /\ phase \in {"select", "exhausting", "calling"} => Len(attempts) < targetCursor
          /\ phase # "recording"
          /\ Called => phase = "calling" \/ verdict = "aborted"
    /\ ~NothingReached => Called
    /\ UnavailableHonest

LEMMA RoomForNotes ==
    ASSUME TypeOK, HonestNotes, NothingReached PROVE Len(attempts) < RecordCap
BY CapAssumption DEF TypeOK, HonestNotes, Targets

LEMMA HonestNext ==
    TypeOK /\ CallsForward /\ HonestNotes /\ [Next]_vars => HonestNotes'
<1> SUFFICES ASSUME TypeOK, CallsForward, HonestNotes, [Next]_vars PROVE HonestNotes'
    OBVIOUS
<1> USE DEF stateVars, loopVars, keyVars, noteVars, End
<1>0. Len(attempts) \in Nat /\ targetCursor \in Nat BY DEF TypeOK
<1>1. CASE NextTarget
      BY <1>0, <1>1 DEF NextTarget, HonestNotes, NothingReached, Called, UnavailableHonest, TypeOK
<1>2. CASE NoTargetLeft
      <2>1. verdict = "none" /\ phase = "target" BY <1>2 DEF NoTargetLeft, TypeOK
      <2>2. NothingReached <=> ~Called BY <2>1 DEF HonestNotes
      <2>3. /\ verdict' = "auto_targets_unavailable" => NothingReached
            /\ verdict' = "auto_targets_exhausted" => ~NothingReached
            BY <1>2 DEF NoTargetLeft, TypeOK
      <2>4. UNCHANGED <<attempts, last, targetCursor>> /\ phase' = "ended"
            BY <1>2 DEF NoTargetLeft
      <2>5. QED BY <1>0, <2>1, <2>2, <2>3, <2>4
               DEF HonestNotes, NothingReached, Called, UnavailableHonest
<1>3. ASSUME NEW o \in Unreached, phase \in {"select", "exhausting"}, Note(o),
             phase' = "target", UNCHANGED <<verdict, targetCursor, last>>
      PROVE  HonestNotes'
      <2>1. verdict = "none" BY <1>3 DEF TypeOK
      <2>2. CASE NothingReached
            <3>1. Len(attempts) < targetCursor /\ ~Called BY <1>3, <2>1, <2>2 DEF HonestNotes
            <3>2. Len(attempts') = Len(attempts) + 1 /\ NothingReached'
                  BY <1>3, <2>2, RoomForNotes, NoteKept
            <3>3. QED BY <1>0, <1>3, <2>1, <3>1, <3>2 DEF HonestNotes, Called, UnavailableHonest
      <2>3. CASE ~NothingReached
            <3>1. ~NothingReached' BY <1>3, <2>3, NoteNeverLost
            <3>2. QED BY <1>3, <2>1, <2>3, <3>1 DEF HonestNotes, Called, UnavailableHonest
      <2>4. QED BY <2>2, <2>3
<1>4. CASE TargetGone
      <2>1. CASE autoModel BY <1>3, <1>4, <2>1 DEF TargetGone
      <2>2. CASE ~autoModel
            BY <1>0, <1>4, <2>2
            DEF TargetGone, HonestNotes, NothingReached, Called, UnavailableHonest, TypeOK
      <2>3. QED BY <2>1, <2>2
<1>5. ASSUME NEW k \in AllKeys, KeySelected(k) PROVE HonestNotes'
      <2>1. Called' BY <1>5 DEF KeySelected, StartAttempt, Called, TypeOK
      <2>2. verdict = "none" /\ verdict' = "none" BY <1>5 DEF KeySelected, TypeOK
      <2>3. QED BY <1>5, <2>1, <2>2
               DEF KeySelected, StartAttempt, HonestNotes, NothingReached, UnavailableHonest
<1>6. CASE NoKeySelected
      BY <1>6 DEF NoKeySelected, HonestNotes, NothingReached, Called, UnavailableHonest
<1>7. CASE Exhausted BY <1>3, <1>7 DEF Exhausted
<1>8. CASE OutputStarts
      BY <1>8 DEF OutputStarts, HonestNotes, NothingReached, Called, UnavailableHonest
<1>9. ASSUME NEW o \in {"retry", "failure", "success"}, phase = "calling", Note(o)
      PROVE  ~NothingReached'
      <2>1. CASE NothingReached BY <1>9, <2>1, RoomForNotes, NoteKept
      <2>2. CASE ~NothingReached BY <1>9, <2>2, NoteNeverLost
      <2>3. QED BY <2>1, <2>2
<1>10. CASE AttemptSucceeds
      <2>1. ~NothingReached' BY <1>9, <1>10 DEF AttemptSucceeds
      <2>2. Called BY <1>10, CallUnderWay DEF AttemptSucceeds
      <2>3. QED BY <1>10, <2>1, <2>2 DEF AttemptSucceeds, HonestNotes, Called, UnavailableHonest
<1>11. CASE ClientAborts
      BY <1>0, <1>11 DEF ClientAborts, HonestNotes, NothingReached, Called, UnavailableHonest
<1>12. ASSUME NEW f \in Failures, AttemptFails(f) PROVE HonestNotes'
      <2>1. ~NothingReached' BY <1>9, <1>12 DEF AttemptFails
      <2>2. last = last' \/ last' = [target |-> targetCursor, keyAttempt |-> keyAttempt,
                                     retry |-> retryAttempt + 1]
            BY <1>12 DEF AttemptFails, RetrySameKey, StartAttempt, LeaveKey
      <2>3. Called' BY <1>12, <2>2, CallUnderWay DEF AttemptFails, Called, TypeOK
      <2>4. verdict' \in Failures \cup {"none"}
            <3>1. verdict = "none" BY <1>12 DEF AttemptFails, TypeOK
            <3>2. QED BY <1>12, <3>1, LeaveKeyType DEF AttemptFails, RetrySameKey
      <2>5. QED BY <2>1, <2>3, <2>4 DEF HonestNotes, UnavailableHonest
<1>13. CASE FailureRecorded
      <2>1. lastError \in Failures /\ verdict = "none" BY <1>13 DEF FailureRecorded, TypeOK
      <2>2. verdict' \in Failures \cup {"none"}
            BY <1>13, <2>1, LeaveKeyType DEF FailureRecorded
      <2>3. ~NothingReached BY <1>13 DEF FailureRecorded, HonestNotes
      <2>4. UNCHANGED <<attempts, last>> BY <1>13 DEF FailureRecorded, LeaveKey
      <2>5. QED BY <2>2, <2>3, <2>4
               DEF HonestNotes, NothingReached, Called, UnavailableHonest
<1>14. CASE StoreFails
      BY <1>14 DEF StoreFails, HonestNotes, NothingReached, Called, UnavailableHonest, TypeOK
<1>15. CASE UNCHANGED vars
      BY <1>15 DEF vars, HonestNotes, NothingReached, Called, UnavailableHonest
<1>16. QED BY <1>1, <1>2, <1>4, <1>5, <1>6, <1>7, <1>8, <1>10, <1>11, <1>12, <1>13,
              <1>14, <1>15 DEF Next

\* A client is told that no target is available exactly when no attempt was
\* made for it, although the notes it is derived from are capped.
THEOREM UnavailableHonestHolds == Spec => []UnavailableHonest
<1>1. Init => HonestNotes /\ CallsForward
      BY DEF Init, HonestNotes, NothingReached, Called, UnavailableHonest, CallsForward
<1>2. HonestNotes => UnavailableHonest BY DEF HonestNotes
<1>3. QED BY <1>1, <1>2, HonestNext, ForwardNext, TypeCorrect, PTL DEF Spec

\* The ways a request leaves the loop or goes on in it are those its failures allow.
THEOREM WaysOutTrueHolds == Spec => []WaysOutTrue
<1>1. TypeOK /\ UnavailableHonest /\ ClientErrorsStop /\ HopsDistinct => WaysOutTrue
      BY DEF WaysOutTrue
<1>2. QED BY <1>1, TypeCorrect, UnavailableHonestHolds, ClientErrorsStopHolds,
             HopsDistinctHolds, PTL
=============================================================================
