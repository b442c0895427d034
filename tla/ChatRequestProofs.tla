------------------------- MODULE ChatRequestProofs -------------------------
(***************************************************************************)
(* Proofs about ChatRequest: for any number of attempts and of chunks.     *)
(***************************************************************************)
EXTENDS ChatRequest, TLAPS

USE DEF callVars, sentVars, clientVars, logVars, bookVars

\* The frames the handler ends with are an error and [DONE], one body, or none.
LEMMA LastFramesAre ==
    ASSUME TypeOK
    PROVE  /\ LastFrames \in Seq(Frames)
           /\ Len(LastFrames) \in 0..2
           /\ \A i \in 1..Len(LastFrames) :
                 LastFrames[i].by = attempts /\ LastFrames[i].kind # "chunk"
<1>1. \A k \in {"done", "error", "body", "errorBody"} :
         Frame(k) \in Frames /\ Frame(k).by = attempts /\ Frame(k).kind = k
      BY DEF TypeOK, StateOK, Frame, Frames
<1>2. \/ LastFrames = <<>>
      \/ \E k \in {"body", "errorBody"} : LastFrames = <<Frame(k)>>
      \/ LastFrames = <<Frame("error"), Frame("done")>>
      BY DEF LastFrames, StreamError
<1>3. CASE LastFrames = <<>> BY <1>3
<1>4. ASSUME NEW k \in {"body", "errorBody"}, LastFrames = <<Frame(k)>>
      PROVE  /\ LastFrames \in Seq(Frames)
             /\ Len(LastFrames) \in 0..2
             /\ \A i \in 1..Len(LastFrames) :
                   LastFrames[i].by = attempts /\ LastFrames[i].kind # "chunk"
      BY <1>1, <1>4
<1>5. CASE LastFrames = <<Frame("error"), Frame("done")>> BY <1>1, <1>5
<1>6. QED BY <1>2, <1>3, <1>4, <1>5

LEMMA FrameType ==
    ASSUME TypeOK, NEW k \in {"chunk", "done", "error", "body", "errorBody"}
    PROVE  Frame(k) \in Frames /\ Frame(k).by = attempts /\ Frame(k).kind = k
BY DEF TypeOK, StateOK, Frame, Frames

\* Only three actions write to the client.
LEMMA OnlyWritersWrite ==
    ASSUME [Next]_vars, ~Chunk, ~StreamEnds, ~Answer
    PROVE  UNCHANGED <<response, ended, output>>
BY DEF Next, HandlerStep, UpstreamEvent, FaultStep, vars, StartLogged, StartFails,
       RunAttempt, PrepareFails, SelectAgain, GiveUp, NothingSelected, KeyStoreFails,
       Responds, RespondsWithError, RequestFails, ErrorBodyRead, StreamFails, LateEvent,
       Catch, Succeeded, RecordFails, Unparsable, ClientLeaves, EndIgnored, EndBegins,
       EndWritten, EndThrows, ErrorPersisted, PersistFails, Age, Cleanup

\* Only two actions write an end row.
LEMMA OnlyEndsEnd ==
    ASSUME [Next]_vars, ~EndWritten, ~EndThrows
    PROVE  UNCHANGED <<ends, samples>>
BY DEF Next, HandlerStep, UpstreamEvent, FaultStep, vars, StartLogged, StartFails,
       RunAttempt, PrepareFails, SelectAgain, GiveUp, NothingSelected, KeyStoreFails,
       Responds, RespondsWithError, RequestFails, ErrorBodyRead, Chunk, StreamFails,
       StreamEnds, LateEvent, Catch, Succeeded, RecordFails, Unparsable, ClientLeaves,
       EndIgnored, EndBegins, ErrorPersisted, PersistFails, Answer, Age, Cleanup

\* Only fault steps are faults, and only two actions write to the error log.
LEMMA OnlyFaultsFault ==
    ASSUME [Next]_vars, ~FaultStep
    PROVE  UNCHANGED faults
BY DEF Next, HandlerStep, UpstreamEvent, vars, StartLogged, RunAttempt,
       PrepareFails, SelectAgain, GiveUp, NothingSelected, Responds, RespondsWithError,
       RequestFails, ErrorBodyRead, Chunk, StreamFails, StreamEnds, LateEvent, Catch,
       Succeeded, Unparsable, ClientLeaves, EndIgnored, EndBegins, EndWritten,
       ErrorPersisted, Answer, Age, Cleanup

LEMMA OnlyPersistingPersists ==
    ASSUME [Next]_vars, ~ErrorPersisted, ~PersistFails
    PROVE  UNCHANGED errorRows
BY DEF Next, HandlerStep, UpstreamEvent, FaultStep, vars, StartLogged, StartFails,
       RunAttempt, PrepareFails, SelectAgain, GiveUp, NothingSelected, KeyStoreFails,
       Responds, RespondsWithError, RequestFails, ErrorBodyRead, Chunk, StreamFails,
       StreamEnds, LateEvent, Catch, Succeeded, RecordFails, Unparsable, ClientLeaves,
       EndIgnored, EndBegins, EndWritten, EndThrows, Answer, Age, Cleanup

(***************************************************************************)
(* Type correctness.                                                       *)
(***************************************************************************)
LEMMA FlagsNext == FlagsOK /\ [Next]_vars => FlagsOK'
<1> SUFFICES ASSUME FlagsOK, [Next]_vars PROVE FlagsOK'
    OBVIOUS
<1> USE DEF FlagsOK
<1>1. CASE StartLogged BY <1>1 DEF StartLogged
<1>2. CASE StartFails BY <1>2 DEF StartFails
<1>3. CASE RunAttempt BY <1>3 DEF RunAttempt
<1>4. CASE PrepareFails BY <1>4 DEF PrepareFails
<1>5. CASE SelectAgain BY <1>5 DEF SelectAgain
<1>6. CASE GiveUp BY <1>6 DEF GiveUp
<1>7. CASE NothingSelected BY <1>7 DEF NothingSelected
<1>8. CASE KeyStoreFails BY <1>8 DEF KeyStoreFails
<1>9. CASE Responds BY <1>9 DEF Responds
<1>10. CASE RespondsWithError BY <1>10 DEF RespondsWithError
<1>11. CASE RequestFails BY <1>11 DEF RequestFails
<1>12. CASE ErrorBodyRead BY <1>12 DEF ErrorBodyRead
<1>13. CASE Chunk BY <1>13 DEF Chunk
<1>14. CASE StreamFails BY <1>14 DEF StreamFails
<1>15. CASE StreamEnds BY <1>15 DEF StreamEnds
<1>16. CASE LateEvent BY <1>16 DEF LateEvent
<1>17. CASE Catch BY <1>17 DEF Catch
<1>18. CASE Succeeded BY <1>18 DEF Succeeded
<1>19. CASE RecordFails BY <1>19 DEF RecordFails
<1>20. CASE Unparsable BY <1>20 DEF Unparsable
<1>21. CASE ClientLeaves BY <1>21 DEF ClientLeaves
<1>22. CASE EndIgnored BY <1>22 DEF EndIgnored
<1>23. CASE EndBegins BY <1>23 DEF EndBegins
<1>24. CASE EndWritten BY <1>24 DEF EndWritten
<1>25. CASE EndThrows BY <1>25 DEF EndThrows
<1>26. CASE ErrorPersisted BY <1>26 DEF ErrorPersisted
<1>27. CASE PersistFails BY <1>27 DEF PersistFails
<1>28. CASE Answer BY <1>28 DEF Answer
<1>29. CASE Age BY <1>29 DEF Age
<1>30. CASE Cleanup BY <1>30 DEF Cleanup
<1>31. CASE UNCHANGED vars BY <1>31 DEF vars
<1>32. QED BY <1>1, <1>2, <1>3, <1>4, <1>5, <1>6, <1>7, <1>8, <1>9, <1>10, <1>11, <1>12,
             <1>13, <1>14, <1>15, <1>16, <1>17, <1>18, <1>19, <1>20, <1>21, <1>22, <1>23,
             <1>24, <1>25, <1>26, <1>27, <1>28, <1>29, <1>30, <1>31
          DEF Next, HandlerStep, UpstreamEvent, FaultStep

LEMMA StateNext == StateOK /\ [Next]_vars => StateOK'
<1> SUFFICES ASSUME StateOK, [Next]_vars PROVE StateOK'
    OBVIOUS
<1> USE DEF StateOK, Phases, Errors, Caught, Throw
<1>1. CASE StartLogged BY <1>1 DEF StartLogged
<1>2. CASE StartFails BY <1>2 DEF StartFails
<1>3. CASE RunAttempt BY <1>3, BoundsAssumption DEF RunAttempt
<1>4. CASE PrepareFails BY <1>4, BoundsAssumption DEF PrepareFails
<1>5. CASE SelectAgain BY <1>5 DEF SelectAgain
<1>6. CASE GiveUp BY <1>6 DEF GiveUp
<1>7. CASE NothingSelected BY <1>7 DEF NothingSelected
<1>8. CASE KeyStoreFails BY <1>8 DEF KeyStoreFails
<1>9. CASE Responds BY <1>9 DEF Responds
<1>10. CASE RespondsWithError BY <1>10 DEF RespondsWithError
<1>11. CASE RequestFails BY <1>11 DEF RequestFails
<1>12. CASE ErrorBodyRead BY <1>12 DEF ErrorBodyRead
<1>13. CASE Chunk BY <1>13 DEF Chunk
<1>14. CASE StreamFails BY <1>14 DEF StreamFails
<1>15. CASE StreamEnds BY <1>15 DEF StreamEnds
<1>16. CASE LateEvent BY <1>16 DEF LateEvent
<1>17. CASE Catch BY <1>17 DEF Catch
<1>18. CASE Succeeded BY <1>18 DEF Succeeded
<1>19. CASE RecordFails BY <1>19 DEF RecordFails
<1>20. CASE Unparsable BY <1>20 DEF Unparsable
<1>21. CASE ClientLeaves BY <1>21 DEF ClientLeaves, AbortUpstream, Attached
<1>22. CASE EndIgnored BY <1>22 DEF EndIgnored, AfterEnd
<1>23. CASE EndBegins BY <1>23 DEF EndBegins
<1>24. CASE EndWritten BY <1>24 DEF EndWritten, AfterEnd
<1>25. CASE EndThrows BY <1>25 DEF EndThrows
<1>26. CASE ErrorPersisted BY <1>26 DEF ErrorPersisted
<1>27. CASE PersistFails BY <1>27 DEF PersistFails
<1>28. CASE Answer BY <1>28 DEF Answer
<1>29. CASE Age BY <1>29 DEF Age
<1>30. CASE Cleanup BY <1>30 DEF Cleanup
<1>31. CASE UNCHANGED vars BY <1>31 DEF vars
<1>32. QED BY <1>1, <1>2, <1>3, <1>4, <1>5, <1>6, <1>7, <1>8, <1>9, <1>10, <1>11, <1>12,
          <1>13, <1>14, <1>15, <1>16, <1>17, <1>18, <1>19, <1>20, <1>21, <1>22, <1>23,
          <1>24, <1>25, <1>26, <1>27, <1>28, <1>29, <1>30, <1>31
          DEF Next, HandlerStep, UpstreamEvent, FaultStep

LEMMA RecordsNext == TypeOK /\ [Next]_vars => RecordsOK'
<1> SUFFICES ASSUME TypeOK, [Next]_vars PROVE RecordsOK'
    OBVIOUS
<1> USE DEF TypeOK, RecordsOK
<1>1. response' \in Seq(Frames)
      <2>1. CASE Chunk BY <2>1, FrameType DEF Chunk
      <2>2. CASE StreamEnds BY <2>2, FrameType DEF StreamEnds
      <2>3. CASE Answer BY <2>3, LastFramesAre DEF Answer
      <2>4. CASE ~Chunk /\ ~StreamEnds /\ ~Answer BY <2>4, OnlyWritersWrite
      <2>5. QED BY <2>1, <2>2, <2>3, <2>4
<1>2. ends' \in Seq({"success", "failed"}) /\ samples' \in Seq({"success", "failed"})
      <2>1. phase = "writing" => outcome \in {"success", "failed"} BY DEF StateOK
      <2>2. CASE EndWritten BY <2>1, <2>2 DEF EndWritten
      <2>3. CASE EndThrows
            <3>1. samples' = samples BY <2>3 DEF EndThrows
            <3>2. ends' = ends \/ ends' = Append(ends, outcome) BY <2>3 DEF EndThrows
            <3>3. outcome \in {"success", "failed"} BY <2>1, <2>3 DEF EndThrows
            <3>4. QED BY <3>1, <3>2, <3>3
      <2>4. CASE ~EndWritten /\ ~EndThrows BY <2>4, OnlyEndsEnd
      <2>5. QED BY <2>2, <2>3, <2>4
<1>3. errorRows' \subseteq Errors
      <2>1. error \in Errors BY DEF StateOK
      <2>2. CASE ErrorPersisted BY <2>1, <2>2 DEF ErrorPersisted
      <2>3. CASE PersistFails BY <2>1, <2>3 DEF PersistFails
      <2>4. CASE ~ErrorPersisted /\ ~PersistFails BY <2>4, OnlyPersistingPersists
      <2>5. QED BY <2>2, <2>3, <2>4
<1>4. faults' \subseteq {"failed", "lost"}
      <2>1. CASE FaultStep
            BY <2>1 DEF FaultStep, StartFails, KeyStoreFails, RecordFails, EndThrows, PersistFails
      <2>2. CASE ~FaultStep BY <2>2, OnlyFaultsFault
      <2>3. QED BY <2>1, <2>2
<1>5. QED BY <1>1, <1>2, <1>3, <1>4

LEMMA TypeInit == Init => TypeOK
<1> SUFFICES ASSUME Init PROVE TypeOK
    OBVIOUS
<1>1. FlagsOK BY DEF Init, FlagsOK
<1>2. StateOK BY BoundsAssumption DEF Init, StateOK, Phases, Errors
<1>3. RecordsOK BY DEF Init, RecordsOK
<1>4. QED BY <1>1, <1>2, <1>3 DEF TypeOK

LEMMA TypeNext == TypeOK /\ [Next]_vars => TypeOK'
BY FlagsNext, StateNext, RecordsNext DEF TypeOK

\* The request's variables have their types at every moment.
THEOREM TypeCorrect == Spec => []TypeOK
<1>1. QED BY TypeInit, TypeNext, PTL DEF Spec

(***************************************************************************)
(* The way through the handler: what holds of the phases whatever was      *)
(* written to the client and to the log.                                   *)
(***************************************************************************)
Attempting == {"starting", "selecting", "requesting", "reading", "consuming", "settling"}

Path ==
    /\ ~streaming => phase \notin {"reading", "consuming", "settling"}
    /\ ~streaming /\ phase # "done" => ~ended
    /\ streaming /\ (phase = "recording" \/ outcome = "success") => ended
    /\ ended => phase \notin Attempting /\ (output \/ phase = "done")
    /\ output => phase \notin {"starting", "selecting"}
    /\ phase \in Attempting \cup {"recording", "noting"} => outcome = "none"
    /\ error = "abort" => left
    /\ left => phase \notin {"starting", "requesting", "reading", "consuming"}
    /\ streaming /\ ended /\ faults = {}
          => phase \in {"recording", "done"} \/ outcome = "success"

LEMMA PathNext == StateOK /\ Path /\ [Next]_vars => Path'
<1> SUFFICES ASSUME StateOK, Path, [Next]_vars PROVE Path'
    OBVIOUS
<1> USE DEF StateOK, Path, Attempting, Phases, Caught, Throw
<1>1. CASE StartLogged BY <1>1 DEF StartLogged
<1>2. CASE StartFails BY <1>2 DEF StartFails
<1>3. CASE RunAttempt BY <1>3 DEF RunAttempt
<1>4. CASE PrepareFails BY <1>4 DEF PrepareFails
<1>5. CASE SelectAgain BY <1>5 DEF SelectAgain
<1>6. CASE GiveUp BY <1>6 DEF GiveUp
<1>7. CASE NothingSelected BY <1>7 DEF NothingSelected
<1>8. CASE KeyStoreFails BY <1>8 DEF KeyStoreFails
<1>9. CASE Responds BY <1>9 DEF Responds
<1>10. CASE RespondsWithError BY <1>10 DEF RespondsWithError
<1>11. CASE RequestFails BY <1>11 DEF RequestFails
<1>12. CASE ErrorBodyRead BY <1>12 DEF ErrorBodyRead
<1>13. CASE Chunk BY <1>13 DEF Chunk, Streams, Settled
<1>14. CASE StreamFails BY <1>14 DEF StreamFails, Streams, Settled
<1>15. CASE StreamEnds BY <1>15 DEF StreamEnds, Streams, Settled
<1>16. CASE LateEvent BY <1>16 DEF LateEvent, Streams, Settled
<1>17. CASE Catch BY <1>17 DEF Catch
<1>18. CASE Succeeded BY <1>18 DEF Succeeded
<1>19. CASE RecordFails BY <1>19 DEF RecordFails
<1>20. CASE Unparsable BY <1>20 DEF Unparsable
<1>21. CASE ClientLeaves BY <1>21 DEF ClientLeaves, AbortUpstream, Attached, Stopped
<1>22. CASE EndIgnored BY <1>22 DEF EndIgnored, AfterEnd
<1>23. CASE EndBegins BY <1>23 DEF EndBegins
<1>24. CASE EndWritten BY <1>24 DEF EndWritten, AfterEnd
<1>25. CASE EndThrows BY <1>25 DEF EndThrows
<1>26. CASE ErrorPersisted BY <1>26 DEF ErrorPersisted
<1>27. CASE PersistFails BY <1>27 DEF PersistFails
<1>28. CASE Answer BY <1>28 DEF Answer
<1>29. CASE Age BY <1>29 DEF Age
<1>30. CASE Cleanup BY <1>30 DEF Cleanup
<1>31. CASE UNCHANGED vars BY <1>31 DEF vars
<1>32. QED BY <1>1, <1>2, <1>3, <1>4, <1>5, <1>6, <1>7, <1>8, <1>9, <1>10, <1>11, <1>12,
             <1>13, <1>14, <1>15, <1>16, <1>17, <1>18, <1>19, <1>20, <1>21, <1>22, <1>23,
             <1>24, <1>25, <1>26, <1>27, <1>28, <1>29, <1>30, <1>31
          DEF Next, HandlerStep, UpstreamEvent, FaultStep

\* A stream is open only in an attempt that is under way.
LEMMA OneUpstreamNext == StateOK /\ OneUpstream /\ [Next]_vars => OneUpstream'
<1> SUFFICES ASSUME StateOK, OneUpstream, [Next]_vars PROVE OneUpstream'
    OBVIOUS
<1> USE DEF StateOK, OneUpstream, Phases, Caught, Throw
<1>1. CASE StartLogged BY <1>1 DEF StartLogged
<1>2. CASE StartFails BY <1>2 DEF StartFails
<1>3. CASE RunAttempt BY <1>3 DEF RunAttempt
<1>4. CASE PrepareFails BY <1>4 DEF PrepareFails
<1>5. CASE SelectAgain BY <1>5 DEF SelectAgain
<1>6. CASE GiveUp BY <1>6 DEF GiveUp
<1>7. CASE NothingSelected BY <1>7 DEF NothingSelected
<1>8. CASE KeyStoreFails BY <1>8 DEF KeyStoreFails
<1>9. CASE Responds BY <1>9 DEF Responds
<1>10. CASE RespondsWithError BY <1>10 DEF RespondsWithError
<1>11. CASE RequestFails BY <1>11 DEF RequestFails
<1>12. CASE ErrorBodyRead BY <1>12 DEF ErrorBodyRead
<1>13. CASE Chunk BY <1>13 DEF Chunk, Streams, Settled
<1>14. CASE StreamFails BY <1>14 DEF StreamFails, Streams, Settled
<1>15. CASE StreamEnds BY <1>15 DEF StreamEnds, Streams, Settled
<1>16. CASE LateEvent BY <1>16 DEF LateEvent, Streams, Settled
<1>17. CASE Catch BY <1>17 DEF Catch
<1>18. CASE Succeeded BY <1>18 DEF Succeeded
<1>19. CASE RecordFails BY <1>19 DEF RecordFails
<1>20. CASE Unparsable BY <1>20 DEF Unparsable
<1>21. CASE ClientLeaves BY <1>21 DEF ClientLeaves, AbortUpstream, Attached, Stopped
<1>22. CASE EndIgnored BY <1>22 DEF EndIgnored, AfterEnd
<1>23. CASE EndBegins BY <1>23 DEF EndBegins
<1>24. CASE EndWritten BY <1>24 DEF EndWritten, AfterEnd
<1>25. CASE EndThrows BY <1>25 DEF EndThrows
<1>26. CASE ErrorPersisted BY <1>26 DEF ErrorPersisted
<1>27. CASE PersistFails BY <1>27 DEF PersistFails
<1>28. CASE Answer BY <1>28 DEF Answer
<1>29. CASE Age BY <1>29 DEF Age
<1>30. CASE Cleanup BY <1>30 DEF Cleanup
<1>31. CASE UNCHANGED vars BY <1>31 DEF vars
<1>32. QED BY <1>1, <1>2, <1>3, <1>4, <1>5, <1>6, <1>7, <1>8, <1>9, <1>10, <1>11, <1>12,
             <1>13, <1>14, <1>15, <1>16, <1>17, <1>18, <1>19, <1>20, <1>21, <1>22, <1>23,
             <1>24, <1>25, <1>26, <1>27, <1>28, <1>29, <1>30, <1>31
          DEF Next, HandlerStep, UpstreamEvent, FaultStep

\* Every way out of an attempt closes its upstream stream.
THEOREM OneUpstreamHolds == Spec => []OneUpstream
<1>1. Init => StateOK /\ OneUpstream BY TypeInit DEF Init, OneUpstream, TypeOK
<1>2. StateOK /\ OneUpstream /\ [Next]_vars => (StateOK /\ OneUpstream)'
      BY StateNext, OneUpstreamNext
<1>3. QED BY <1>1, <1>2, PTL DEF Spec

LEMMA PathInit == Init => Path
BY DEF Init, Path, Attempting

(***************************************************************************)
(* What the client reads comes from one attempt.                           *)
(***************************************************************************)
LEMMA OnlyAttemptsCount ==
    ASSUME [Next]_vars, ~RunAttempt, ~PrepareFails
    PROVE  UNCHANGED attempts
BY DEF Next, HandlerStep, UpstreamEvent, FaultStep, vars, StartLogged, StartFails,
       SelectAgain, GiveUp, NothingSelected, KeyStoreFails, Responds, RespondsWithError,
       RequestFails, ErrorBodyRead, Chunk, StreamFails, StreamEnds, LateEvent, Catch,
       Succeeded, RecordFails, Unparsable, ClientLeaves, EndIgnored, EndBegins,
       EndWritten, EndThrows, ErrorPersisted, PersistFails, Answer, Age, Cleanup

LEMMA DoneStays ==
    ASSUME [Next]_vars, phase = "done"
    PROVE  phase' = "done"
BY DEF Streams, Attached, AbortUpstream, Stopped, Next, HandlerStep, UpstreamEvent,
       FaultStep, vars, StartLogged, StartFails, RunAttempt, PrepareFails, SelectAgain,
       GiveUp, NothingSelected, KeyStoreFails, Responds, RespondsWithError,
       RequestFails, ErrorBodyRead, Chunk, StreamFails, StreamEnds, LateEvent, Catch,
       Succeeded, RecordFails, Unparsable, ClientLeaves, EndIgnored, EndBegins,
       EndWritten, EndThrows, ErrorPersisted, PersistFails, Answer, Age, Cleanup

Voice ==
    /\ \A i \in 1..Len(response) : response[i].by = attempts
    /\ ~output /\ phase # "done" => response = <<>>

LEMMA VoiceNext == TypeOK /\ Path /\ Voice /\ [Next]_vars => Voice'
<1> SUFFICES ASSUME TypeOK, Path, Voice, [Next]_vars PROVE Voice'
    OBVIOUS
<1> USE DEF Voice
<1>1. response \in Seq(Frames) BY DEF TypeOK, RecordsOK
<1>2. CASE RunAttempt \/ PrepareFails
      <2>1. UNCHANGED <<response, output>> BY <1>2 DEF RunAttempt, PrepareFails
      <2>2. phase # "done" /\ ~output
            BY <1>2 DEF RunAttempt, PrepareFails, Path
      <2>3. response = <<>> BY <2>2
      <2>4. QED BY <2>1, <2>3
<1>3. CASE Chunk
      <2>1. response' = Append(response, Frame("chunk")) /\ output' /\ UNCHANGED attempts
            BY <1>3 DEF Chunk
      <2>2. Frame("chunk").by = attempts BY FrameType
      <2>3. QED BY <1>1, <2>1, <2>2
<1>4. CASE StreamEnds
      <2>1. UNCHANGED attempts BY <1>4 DEF StreamEnds
      <2>2. CASE ended
            <3>1. UNCHANGED <<response, output>> /\ phase # "done"
                  BY <1>4, <2>2 DEF StreamEnds, Streams
            <3>2. QED BY <2>1, <3>1
      <2>3. CASE ~ended
            <3>1. response' = Append(response, Frame("done")) /\ output'
                  BY <1>4, <2>3 DEF StreamEnds
            <3>2. Frame("done").by = attempts BY FrameType
            <3>3. QED BY <1>1, <2>1, <3>1, <3>2
      <2>4. QED BY <2>2, <2>3
<1>5. CASE Answer
      <2>1. response' = response \o LastFrames /\ phase' = "done" /\ UNCHANGED attempts
            BY <1>5 DEF Answer
      <2>2. QED BY <1>1, <2>1, LastFramesAre
<1>6. CASE ~Chunk /\ ~StreamEnds /\ ~Answer /\ ~RunAttempt /\ ~PrepareFails
      <2>1. UNCHANGED <<response, output, attempts>>
            BY <1>6, OnlyWritersWrite, OnlyAttemptsCount
      <2>2. phase' # "done" => phase # "done" BY DoneStays
      <2>3. QED BY <2>1, <2>2
<1>7. QED BY <1>2, <1>3, <1>4, <1>5, <1>6

\* No answer is stitched together from two attempts.
THEOREM OneVoiceHolds == Spec => []OneVoice
<1>1. Init => TypeOK /\ Path /\ Voice
      <2>1. Init => Voice BY DEF Init, Voice
      <2>2. QED BY <2>1, TypeInit, PathInit
<1>2. TypeOK /\ Path /\ Voice /\ [Next]_vars => (TypeOK /\ Path /\ Voice)'
      BY TypeNext, PathNext, VoiceNext DEF TypeOK
<1>3. Voice => OneVoice BY DEF Voice, OneVoice
<1>4. QED BY <1>1, <1>2, <1>3, PTL DEF Spec

(***************************************************************************)
(* End rows and uptime samples.                                            *)
(***************************************************************************)
After == {"persisting", "answering", "done", "rejected"}

LEMMA AfterIsClosed ==
    ASSUME [Next]_vars, phase \in After
    PROVE  phase' \in After
BY DEF After, Streams, Attached, AbortUpstream, Stopped, Next, HandlerStep,
       UpstreamEvent, FaultStep, vars, StartLogged, StartFails, RunAttempt,
       PrepareFails, SelectAgain, GiveUp, NothingSelected, KeyStoreFails, Responds,
       RespondsWithError, RequestFails, ErrorBodyRead, Chunk, StreamFails, StreamEnds,
       LateEvent, Catch, Succeeded, RecordFails, Unparsable, ClientLeaves, EndIgnored,
       EndBegins, EndWritten, EndThrows, ErrorPersisted, PersistFails, Answer, Age,
       Cleanup

\* No statement of an end row is left to be made once the request is after its
\* end, and none was made before, save one whose acknowledgement was lost.
Rows ==
    /\ "lost" \notin faults /\ ends # <<>> => phase \in After /\ Len(ends) = 1
    /\ samples # <<>> => /\ phase \in After
                        /\ Len(samples) = 1
                        /\ ends # <<>>
                        /\ samples[1] = ends[Len(ends)]

LEMMA RowsNext == TypeOK /\ Rows /\ [Next]_vars => Rows'
<1> SUFFICES ASSUME TypeOK, Rows, [Next]_vars PROVE Rows'
    OBVIOUS
<1> USE DEF Rows
<1>1. /\ ends \in Seq({"success", "failed"}) /\ samples \in Seq({"success", "failed"})
      /\ phase = "writing" => outcome \in {"success", "failed"}
      BY DEF TypeOK, RecordsOK, StateOK
<1>2. CASE EndWritten
      <2>1. /\ ends' = Append(ends, outcome)
            /\ samples' = Append(samples, outcome)
            /\ phase' \in After
            /\ phase \notin After
            /\ UNCHANGED faults
            /\ outcome \in {"success", "failed"}
            BY <1>1, <1>2 DEF EndWritten, AfterEnd, After
      <2>2. samples = <<>> /\ ("lost" \notin faults => ends = <<>>) BY <2>1
      <2>3. samples' = <<outcome>> BY <2>1, <2>2
      <2>4. ends' # <<>> /\ ends'[Len(ends')] = outcome BY <1>1, <2>1
      <2>5. "lost" \notin faults => ends' = <<outcome>> BY <2>1, <2>2
      <2>6. QED BY <2>1, <2>3, <2>4, <2>5
<1>3. CASE EndThrows
      <2>1. phase \notin After /\ UNCHANGED samples BY <1>3 DEF EndThrows, After
      <2>2. samples = <<>> /\ ("lost" \notin faults => ends = <<>>) BY <2>1
      <2>3. "lost" \in faults' \/ (UNCHANGED ends /\ "lost" \notin faults)
            BY <1>3 DEF EndThrows
      <2>4. QED BY <2>1, <2>2, <2>3
<1>4. CASE ~EndWritten /\ ~EndThrows
      <2>1. UNCHANGED <<ends, samples>> BY <1>4, OnlyEndsEnd
      <2>2. phase \in After => phase' \in After BY AfterIsClosed
      <2>3. "lost" \in faults => "lost" \in faults'
            <3>1. CASE FaultStep
                  BY <3>1 DEF FaultStep, StartFails, KeyStoreFails, RecordFails, EndThrows,
                             PersistFails
            <3>2. CASE ~FaultStep BY <3>2, OnlyFaultsFault
            <3>3. QED BY <3>1, <3>2
      <2>4. QED BY <2>1, <2>2, <2>3
<1>5. QED BY <1>2, <1>3, <1>4

\* No request has two end rows, unless an acknowledgement was lost.
THEOREM OneEndRowHolds == Spec => []OneEndRow
<1>1. Init => TypeOK /\ Rows
      <2>1. Init => Rows BY DEF Init, Rows
      <2>2. QED BY <2>1, TypeInit
<1>2. TypeOK /\ Rows /\ [Next]_vars => (TypeOK /\ Rows)' BY TypeNext, RowsNext
<1>3. TypeOK /\ Rows => OneEndRow
      <2> SUFFICES ASSUME TypeOK, Rows, "lost" \notin faults PROVE Len(ends) <= 1
          BY DEF OneEndRow
      <2>1. CASE ends = <<>> BY <2>1
      <2>2. CASE ends # <<>>
            <3>1. Len(ends) = 1 BY <2>2, Zenon DEF Rows
            <3>2. QED BY <3>1
      <2>3. QED BY <2>1, <2>2
<1>4. QED BY <1>1, <1>2, <1>3, PTL DEF Spec

\* The uptime layer counts a request at most once, as its end row does.
THEOREM SampleMatchesRowHolds == Spec => []SampleMatchesRow
<1>1. Init => TypeOK /\ Rows
      <2>1. Init => Rows BY DEF Init, Rows
      <2>2. QED BY <2>1, TypeInit
<1>2. TypeOK /\ Rows /\ [Next]_vars => (TypeOK /\ Rows)' BY TypeNext, RowsNext
<1>3. Rows => SampleMatchesRow BY DEF Rows, SampleMatchesRow
<1>4. QED BY <1>1, <1>2, <1>3, PTL DEF Spec

(***************************************************************************)
(* A client that is seen to leave.                                         *)
(***************************************************************************)
\* Nothing more is spent on a client that has left.
THEOREM LeaverCostsNothingHolds == Spec => LeaverCostsNothing
<1> DEFINE Frugal == left => /\ attempts' = attempts
                            /\ \A i \in 1..Len(response') :
                                  i > Len(response) => response'[i].kind # "chunk"
<1>1. TypeOK /\ Path /\ [Next]_vars => [Frugal]_vars
      <2> SUFFICES ASSUME TypeOK, Path, [Next]_vars, left PROVE Frugal
          OBVIOUS
      <2>1. response \in Seq(Frames) BY DEF TypeOK, RecordsOK
      <2>2. phase \notin {"requesting", "reading", "consuming"} BY DEF Path
      <2>3. ~Chunk /\ ~StreamEnds BY <2>2 DEF Chunk, StreamEnds, Settled
      <2>4. attempts' = attempts
            <3>1. CASE RunAttempt BY <3>1 DEF RunAttempt
            <3>2. ~PrepareFails BY DEF PrepareFails
            <3>3. CASE ~RunAttempt BY <3>2, <3>3, OnlyAttemptsCount
            <3>4. QED BY <3>1, <3>3
      <2>5. CASE Answer
            <3>1. response' = response \o LastFrames BY <2>5 DEF Answer
            <3>2. LastFrames \in Seq(Frames) BY LastFramesAre
            <3>3. ASSUME NEW i \in 1..Len(response'), i > Len(response)
                  PROVE  response'[i].kind # "chunk"
                  <4>1. /\ i - Len(response) \in 1..Len(LastFrames)
                        /\ response'[i] = LastFrames[i - Len(response)]
                        BY <2>1, <3>1, <3>2, <3>3
                  <4>2. QED BY <4>1, LastFramesAre
            <3>4. QED BY <2>4, <3>3
      <2>6. CASE ~Answer
            <3>1. response' = response BY <2>3, <2>6, OnlyWritersWrite
            <3>2. QED BY <2>1, <2>4, <3>1
      <2>7. QED BY <2>5, <2>6
<1>2. Init => TypeOK /\ Path BY TypeInit, PathInit
<1>3. TypeOK /\ Path /\ [Next]_vars => (TypeOK /\ Path)'
      BY TypeNext, PathNext DEF TypeOK
<1>4. QED BY <1>1, <1>2, <1>3, PTL DEF Spec, LeaverCostsNothing

(***************************************************************************)
(* The form of the response.                                               *)
(***************************************************************************)
Chunks(n) == \A i \in 1..n : response[i].kind = "chunk"
Open == Chunks(Len(response))
Sealed ==
    /\ Len(response) >= 1
    /\ response[Len(response)].kind = "done"
    /\ Chunks(Len(response) - 1)
Broken ==
    /\ Len(response) >= 2
    /\ response[Len(response)].kind = "done"
    /\ response[Len(response) - 1].kind = "error"
    /\ Chunks(Len(response) - 2)
Single(k) == Len(response) = 1 /\ response[1].kind = k

Shape ==
    /\ ~ended => Open
    /\ ended /\ phase # "done" => Sealed
    /\ ~streaming /\ phase # "done" => response = <<>>
    /\ phase = "done" =>
          /\ ended
          /\ \/ Open /\ left /\ outcome = "failed"
             \/ Sealed /\ (outcome = "success" \/ faults # {})
             \/ Broken /\ outcome = "failed"
             \/ Single("body") /\ outcome = "success"
             \/ Single("errorBody") /\ outcome = "failed"

\* What a step leaves alone once the request is done.
LEMMA DoneIsFinal ==
    ASSUME [Next]_vars, phase = "done"
    PROVE  UNCHANGED <<phase, response, ended, outcome, faults, streaming>> /\ (left => left')
BY DEF Streams, Attached, AbortUpstream, Stopped, Next, HandlerStep, UpstreamEvent,
       FaultStep, vars, StartLogged, StartFails, RunAttempt, PrepareFails, SelectAgain,
       GiveUp, NothingSelected, KeyStoreFails, Responds, RespondsWithError,
       RequestFails, ErrorBodyRead, Chunk, StreamFails, StreamEnds, LateEvent, Catch,
       Succeeded, RecordFails, Unparsable, ClientLeaves, EndIgnored, EndBegins,
       EndWritten, EndThrows, ErrorPersisted, PersistFails, Answer, Age, Cleanup

LEMMA OnlyAnswerFinishes ==
    ASSUME [Next]_vars, phase # "done", phase' = "done"
    PROVE  Answer
BY DEF Streams, Attached, AbortUpstream, Stopped, AfterEnd, Caught, Throw, Next,
       HandlerStep, UpstreamEvent, FaultStep, vars, StartLogged, StartFails, RunAttempt,
       PrepareFails, SelectAgain, GiveUp, NothingSelected, KeyStoreFails, Responds,
       RespondsWithError, RequestFails, ErrorBodyRead, Chunk, StreamFails, StreamEnds,
       LateEvent, Catch, Succeeded, RecordFails, Unparsable, ClientLeaves, EndIgnored,
       EndBegins, EndWritten, EndThrows, ErrorPersisted, PersistFails, Age, Cleanup

LEMMA StreamingIsFixed ==
    ASSUME [Next]_vars
    PROVE  UNCHANGED streaming
BY DEF Next, HandlerStep, UpstreamEvent, FaultStep, vars, StartLogged, StartFails,
       RunAttempt, PrepareFails, SelectAgain, GiveUp, NothingSelected, KeyStoreFails,
       Responds, RespondsWithError, RequestFails, ErrorBodyRead, Chunk, StreamFails,
       StreamEnds, LateEvent, Catch, Succeeded, RecordFails, Unparsable, ClientLeaves,
       EndIgnored, EndBegins, EndWritten, EndThrows, ErrorPersisted, PersistFails,
       Answer, Age, Cleanup

\* Appending a frame to chunks.
LEMMA AppendToOpen ==
    ASSUME response \in Seq(Frames), Open, NEW f \in Frames, response' = Append(response, f)
    PROVE  /\ f.kind = "chunk" => Open'
           /\ f.kind = "done" => Sealed'
<1>1. /\ Len(response') = Len(response) + 1
      /\ response'[Len(response')] = f
      /\ \A i \in 1..Len(response) : response'[i].kind = "chunk"
      BY DEF Open, Chunks
<1>2. Len(response) \in Nat OBVIOUS
<1>3. CASE f.kind = "chunk" BY <1>1, <1>2, <1>3 DEF Open, Chunks
<1>4. CASE f.kind = "done" BY <1>1, <1>2, <1>4 DEF Sealed, Chunks
<1>5. QED BY <1>3, <1>4

\* The handler's last frames complete the response.
LEMMA AnswerShape ==
    ASSUME TypeOK, Path, Shape, Answer
    PROVE  Shape'
<1>1. /\ phase = "answering" /\ phase' = "done" /\ ended'
      /\ response' = response \o LastFrames
      /\ UNCHANGED <<outcome, faults, streaming, left>>
      BY DEF Answer
<1>2. response \in Seq(Frames) /\ outcome \in {"success", "failed"}
      BY <1>1 DEF TypeOK, RecordsOK, StateOK
<1>3. SUFFICES \/ Open' /\ left /\ outcome = "failed"
               \/ Sealed' /\ (outcome = "success" \/ faults # {})
               \/ Broken' /\ outcome = "failed"
               \/ Single("body")' /\ outcome = "success"
               \/ Single("errorBody")' /\ outcome = "failed"
      BY <1>1 DEF Shape
<1>4. LastFrames = <<>> => response' = response BY <1>1, <1>2
<1>5. CASE ended
      <2>1. Sealed /\ streaming BY <1>1, <1>5 DEF Shape, Path
      <2>2. LastFrames = <<>> BY <1>2, <1>5, <2>1 DEF LastFrames, StreamError
      <2>3. Sealed' BY <1>4, <2>1, <2>2 DEF Sealed, Chunks
      <2>4. outcome = "success" \/ faults # {} BY <1>1, <1>5, <2>1 DEF Path
      <2>5. QED BY <2>3, <2>4
<1>6. CASE ~ended /\ outcome = "failed" /\ error = "abort"
      <2>1. LastFrames = <<>> BY <1>6 DEF LastFrames
      <2>2. Open BY <1>6 DEF Shape
      <2>3. Open' BY <1>4, <2>1, <2>2 DEF Open, Chunks
      <2>4. left BY <1>6 DEF Path
      <2>5. QED BY <1>6, <2>3, <2>4
<1>7. CASE ~ended /\ streaming /\ outcome = "failed" /\ error # "abort"
      <2>1. LastFrames = <<Frame("error"), Frame("done")>>
            BY <1>7 DEF LastFrames, StreamError
      <2>2. Open BY <1>7 DEF Shape
      <2>3. /\ Frame("error") \in Frames /\ Frame("error").kind = "error"
            /\ Frame("done") \in Frames /\ Frame("done").kind = "done"
            BY FrameType
      <2>4. /\ Len(response) \in Nat
            /\ Len(response') = Len(response) + 2
            /\ response'[Len(response) + 1] = Frame("error")
            /\ response'[Len(response) + 2] = Frame("done")
            /\ \A i \in 1..Len(response) : response'[i] = response[i]
            BY <1>1, <1>2, <2>1, <2>3
      <2>5. Broken' BY <2>2, <2>3, <2>4 DEF Broken, Open, Chunks
      <2>6. QED BY <1>7, <2>5
<1>8. CASE ~streaming /\ ~(outcome = "failed" /\ error = "abort")
      <2>1. response = <<>> BY <1>1, <1>8 DEF Shape
      <2>2. LastFrames = <<Frame(IF outcome = "success" THEN "body" ELSE "errorBody")>>
            BY <1>2, <1>8 DEF LastFrames
      <2>3. response' = LastFrames BY <1>1, <2>1, LastFramesAre
      <2>4. Frame("body").kind = "body" /\ Frame("errorBody").kind = "errorBody"
            BY FrameType
      <2>5. CASE outcome = "success" BY <2>2, <2>3, <2>4, <2>5 DEF Single
      <2>6. CASE outcome = "failed" BY <2>2, <2>3, <2>4, <2>6 DEF Single
      <2>7. QED BY <1>2, <2>5, <2>6
<1>9. streaming /\ outcome = "success" => ended BY DEF Path
<1>10. QED BY <1>2, <1>5, <1>6, <1>7, <1>8, <1>9

LEMMA ShapeNext == TypeOK /\ Path /\ Shape /\ [Next]_vars => Shape'
<1> SUFFICES ASSUME TypeOK, Path, Shape, [Next]_vars PROVE Shape'
    OBVIOUS
<1>1. response \in Seq(Frames) BY DEF TypeOK, RecordsOK
<1>2. CASE Answer BY <1>2, AnswerShape
<1>3. CASE Chunk
      <2>1. /\ response' = Append(response, Frame("chunk")) /\ ~ended
            /\ UNCHANGED <<phase, ended, streaming>>
            /\ phase = "consuming"
            BY <1>3 DEF Chunk, Settled
      <2>2. streaming BY <2>1 DEF Path
      <2>3. Open BY <2>1 DEF Shape
      <2>4. Open' BY <1>1, <2>1, <2>3, AppendToOpen, FrameType
      <2>5. QED BY <2>1, <2>2, <2>4 DEF Shape
<1>4. CASE StreamEnds
      <2>1. phase = "consuming" /\ phase' = "recording" /\ UNCHANGED streaming
            BY <1>4 DEF StreamEnds, Settled
      <2>2. streaming /\ ~ended BY <2>1 DEF Path, Attempting
      <2>3. response' = Append(response, Frame("done")) /\ ended'
            BY <1>4, <2>2 DEF StreamEnds
      <2>4. Open BY <2>2 DEF Shape
      <2>5. Sealed' BY <1>1, <2>3, <2>4, AppendToOpen, FrameType
      <2>6. QED BY <2>1, <2>2, <2>3, <2>5 DEF Shape
<1>5. CASE ~Chunk /\ ~StreamEnds /\ ~Answer
      <2>1. UNCHANGED <<response, ended, streaming>>
            BY <1>5, OnlyWritersWrite, StreamingIsFixed
      <2>2. /\ Open' = Open /\ Sealed' = Sealed /\ Broken' = Broken
            /\ Single("body")' = Single("body")
            /\ Single("errorBody")' = Single("errorBody")
            BY <2>1 DEF Open, Sealed, Broken, Single, Chunks
      <2>3. CASE phase = "done"
            <3>1. UNCHANGED <<phase, outcome, faults>> /\ (left => left')
                  BY <2>3, DoneIsFinal
            <3>2. QED BY <2>1, <2>2, <2>3, <3>1 DEF Shape
      <2>4. CASE phase # "done"
            <3>1. phase' # "done" BY <1>5, <2>4, OnlyAnswerFinishes
            <3>2. QED BY <2>1, <2>2, <2>4, <3>1 DEF Shape
      <2>5. QED BY <2>3, <2>4
<1>6. QED BY <1>2, <1>3, <1>4, <1>5

LEMMA ShapeInit == Init => Shape
BY DEF Init, Shape, Open, Chunks

LEMMA ShapeIsFramed ==
    ASSUME TypeOK, Shape
    PROVE  Framing
<1>1. response \in Seq(Frames) /\ Len(response) \in Nat BY DEF TypeOK, RecordsOK
<1>2. CASE Open
      <2>1. \A i \in 1..Len(response) : response[i].kind = "chunk" BY <1>2 DEF Open, Chunks
      <2>2. ended /\ ~left => Sealed \/ Broken \/ Single("body") \/ Single("errorBody")
            BY DEF Shape
      <2>3. ended => left
            <3>1. CASE Sealed BY <1>1, <2>1, <3>1 DEF Sealed
            <3>2. CASE Broken BY <1>1, <2>1, <3>2 DEF Broken
            <3>3. CASE Single("body") \/ Single("errorBody") BY <1>1, <2>1, <3>3 DEF Single
            <3>4. QED BY <2>2, <3>1, <3>2, <3>3
      <2>4. QED BY <2>1, <2>3 DEF Framing, Terminators
<1>3. CASE ~Open
      <2>1. ended BY <1>3 DEF Shape
      <2>2. Sealed \/ Broken \/ Single("body") \/ Single("errorBody")
            BY <1>3, <2>1 DEF Shape
      <2>3. CASE Sealed BY <1>1, <2>1, <2>3 DEF Sealed, Chunks, Framing, Terminators
      <2>4. CASE Broken BY <1>1, <2>1, <2>4 DEF Broken, Chunks, Framing, Terminators
      <2>5. CASE Single("body") \/ Single("errorBody")
            BY <1>1, <2>1, <2>5 DEF Single, Framing, Terminators
      <2>6. QED BY <2>2, <2>3, <2>4, <2>5
<1>4. QED BY <1>2, <1>3

\* The client can parse what it gets.
THEOREM FramingHolds == Spec => []Framing
<1>1. Init => TypeOK /\ Path /\ Shape BY TypeInit, PathInit, ShapeInit
<1>2. TypeOK /\ Path /\ Shape /\ [Next]_vars => (TypeOK /\ Path /\ Shape)'
      BY TypeNext, PathNext, ShapeNext DEF TypeOK
<1>3. TypeOK /\ Shape => Framing BY ShapeIsFramed
<1>4. QED BY <1>1, <1>2, <1>3, PTL DEF Spec

(***************************************************************************)
(* What the log says is what the client got.                               *)
(***************************************************************************)
\* Without faults, an entry the cleanup leaves alone is there until its one end
\* row is written.
Logged ==
    faults = {} /\ ~forgotten
       => \/ phase \notin After /\ active
          \/ phase \in After /\ ends = <<outcome>>

LEMMA OnlyEndsReachAfter ==
    ASSUME [Next]_vars, phase \notin After, phase' \in After
    PROVE  EndIgnored \/ EndWritten \/ FaultStep
BY DEF After, Streams, Attached, AbortUpstream, Stopped, Caught, Throw, Next,
       HandlerStep, UpstreamEvent, vars, StartLogged, RunAttempt,
       PrepareFails, SelectAgain, GiveUp, NothingSelected, Responds, RespondsWithError,
       RequestFails, ErrorBodyRead, Chunk, StreamFails, StreamEnds, LateEvent, Catch,
       Succeeded, Unparsable, ClientLeaves, EndBegins, ErrorPersisted, Answer, Age,
       Cleanup

LEMMA OutcomeIsFixed ==
    ASSUME [Next]_vars, phase \in After
    PROVE  UNCHANGED outcome
BY DEF After, Streams, Attached, AbortUpstream, Stopped, Next, HandlerStep,
       UpstreamEvent, FaultStep, vars, StartLogged, StartFails, RunAttempt,
       PrepareFails, SelectAgain, GiveUp, NothingSelected, KeyStoreFails, Responds,
       RespondsWithError, RequestFails, ErrorBodyRead, Chunk, StreamFails, StreamEnds,
       LateEvent, Catch, Succeeded, RecordFails, Unparsable, ClientLeaves, EndIgnored,
       EndBegins, EndWritten, EndThrows, ErrorPersisted, PersistFails, Answer, Age,
       Cleanup

LEMMA OnlyTwoRemove ==
    ASSUME [Next]_vars, ~EndWritten, ~Cleanup
    PROVE  UNCHANGED active
BY DEF Next, HandlerStep, UpstreamEvent, FaultStep, vars, StartLogged, StartFails,
       RunAttempt, PrepareFails, SelectAgain, GiveUp, NothingSelected, KeyStoreFails,
       Responds, RespondsWithError, RequestFails, ErrorBodyRead, Chunk, StreamFails,
       StreamEnds, LateEvent, Catch, Succeeded, RecordFails, Unparsable, ClientLeaves,
       EndIgnored, EndBegins, EndThrows, ErrorPersisted, PersistFails, Answer, Age

LEMMA OnlyCleanupForgets ==
    ASSUME [Next]_vars, ~Cleanup
    PROVE  UNCHANGED forgotten
BY DEF Next, HandlerStep, UpstreamEvent, FaultStep, vars, StartLogged, StartFails,
       RunAttempt, PrepareFails, SelectAgain, GiveUp, NothingSelected, KeyStoreFails,
       Responds, RespondsWithError, RequestFails, ErrorBodyRead, Chunk, StreamFails,
       StreamEnds, LateEvent, Catch, Succeeded, RecordFails, Unparsable, ClientLeaves,
       EndIgnored, EndBegins, EndWritten, EndThrows, ErrorPersisted, PersistFails,
       Answer, Age

LEMMA LoggedNext == TypeOK /\ Rows /\ Logged /\ [Next]_vars => Logged'
<1> SUFFICES ASSUME TypeOK, Rows, Logged, [Next]_vars, faults' = {}, ~forgotten'
             PROVE  \/ phase' \notin After /\ active'
                    \/ phase' \in After /\ ends' = <<outcome>>'
    BY DEF Logged
<1>1. ~FaultStep
      BY DEF FaultStep, StartFails, KeyStoreFails, RecordFails, EndThrows, PersistFails
<1>2. ~Cleanup BY DEF Cleanup
<1>3. faults = {} /\ ~forgotten BY <1>1, <1>2, OnlyFaultsFault, OnlyCleanupForgets
<1>4. CASE EndWritten
      <2>1. /\ phase = "writing" /\ phase' \in After
            /\ ends' = Append(ends, outcome) /\ UNCHANGED outcome
            BY <1>4 DEF EndWritten, AfterEnd, After
      <2>2. ends = <<>> BY <1>3, <2>1 DEF Rows, After
      <2>3. QED BY <2>1, <2>2
<1>5. CASE ~EndWritten /\ phase \in After
      <2>1. phase' \in After /\ UNCHANGED outcome
            BY <1>5, AfterIsClosed, OutcomeIsFixed
      <2>2. UNCHANGED ends BY <1>1, <1>5, OnlyEndsEnd DEF FaultStep
      <2>3. QED BY <1>3, <1>5, <2>1, <2>2 DEF Logged
<1>6. CASE ~EndWritten /\ phase \notin After
      <2>1. active /\ active' BY <1>2, <1>3, <1>6, OnlyTwoRemove DEF Logged
      <2>2. ~EndIgnored BY <2>1 DEF EndIgnored
      <2>3. phase' \notin After BY <1>1, <1>6, <2>2, OnlyEndsReachAfter
      <2>4. QED BY <2>1, <2>3
<1>7. QED BY <1>4, <1>5, <1>6

LEMMA ShapeTells ==
    ASSUME TypeOK, Shape, phase = "done", faults = {}
    PROVE  (Complete <=> outcome = "success") /\ outcome \in {"success", "failed"}
<1>1. response \in Seq(Frames) /\ Len(response) \in Nat BY DEF TypeOK, RecordsOK
<1>2. \/ Open /\ outcome = "failed"
      \/ Sealed /\ outcome = "success"
      \/ Broken /\ outcome = "failed"
      \/ Single("body") /\ outcome = "success"
      \/ Single("errorBody") /\ outcome = "failed"
      BY DEF Shape
<1>3. CASE Open /\ outcome = "failed" BY <1>1, <1>3 DEF Open, Chunks, Complete
<1>4. CASE Sealed /\ outcome = "success" BY <1>1, <1>4 DEF Sealed, Chunks, Complete
<1>5. CASE Broken /\ outcome = "failed" BY <1>1, <1>5 DEF Broken, Chunks, Complete
<1>6. CASE Single("body") /\ outcome = "success" BY <1>1, <1>6 DEF Single, Complete
<1>7. CASE Single("errorBody") /\ outcome = "failed" BY <1>1, <1>7 DEF Single, Complete
<1>8. QED BY <1>2, <1>3, <1>4, <1>5, <1>6, <1>7

\* Without a fault of the stores, and for requests the cleanup does not drop,
\* the one end row tells whether the client got a complete answer.
THEOREM EndTellsOutcomeHolds == Spec => []EndTellsOutcome
<1>1. Init => TypeOK /\ Path /\ Shape /\ Rows /\ Logged
      <2>1. Init => Rows /\ Logged BY DEF Init, Rows, Logged, After
      <2>2. QED BY <2>1, TypeInit, PathInit, ShapeInit
<1>2. TypeOK /\ Path /\ Shape /\ Rows /\ Logged /\ [Next]_vars
         => (TypeOK /\ Path /\ Shape /\ Rows /\ Logged)'
      BY TypeNext, PathNext, ShapeNext, RowsNext, LoggedNext DEF TypeOK
<1>3. TypeOK /\ Shape /\ Logged => EndTellsOutcome
      <2> SUFFICES ASSUME TypeOK, Shape, Logged, phase = "done", faults = {}, ~forgotten
                   PROVE  ends = <<IF Complete THEN "success" ELSE "failed">>
          BY DEF EndTellsOutcome
      <2>1. ends = <<outcome>> BY DEF Logged, After
      <2>2. QED BY <2>1, ShapeTells
<1>4. QED BY <1>1, <1>2, <1>3, PTL DEF Spec

\* The client reads one whole answer of one attempt, however many there are.
THEOREM AnswerWholeHolds == Spec => []AnswerWhole
<1>1. TypeOK /\ Framing /\ OneVoice => AnswerWhole BY DEF AnswerWhole
<1>2. QED BY <1>1, TypeCorrect, FramingHolds, OneVoiceHolds, PTL

\* A request is accounted once in the log and once in the uptime layer.
THEOREM AccountedOnceHolds == Spec => []AccountedOnce
<1>1. OneEndRow /\ SampleMatchesRow => AccountedOnce BY DEF AccountedOnce
<1>2. QED BY <1>1, OneEndRowHolds, SampleMatchesRowHolds, PTL
=============================================================================
