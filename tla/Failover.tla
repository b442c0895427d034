------------------------------ MODULE Failover ------------------------------
(***************************************************************************)
(* What a client may rely on when its request is routed: the upstream is   *)
(* called only forward through targets, key attempts and retries, within   *)
(* their limits; nothing is called once a byte of output went out; one     *)
(* answer ends the request.  How targets and keys are chosen is left open. *)
(* Routing implements this.                                                *)
(***************************************************************************)
EXTENDS Integers

CONSTANTS MaxTargets, MaxKeyAttempts, MaxRetries

VARIABLES
    last,      \* coordinates of the last upstream call, all 0 before the first
    output,    \* output reached the client
    answer     \* how the request ended, "none" while it has not

failoverVars == <<last, output, answer>>

NoCall == [target |-> 0, keyAttempt |-> 0, retry |-> 0]
Place == [target : 1..MaxTargets, keyAttempt : 1..MaxKeyAttempts, retry : 0..MaxRetries]

\* Place b comes after place a: a later target, or a later key attempt on the
\* same target, or a later retry on the same key.
After(a, b) ==
    \/ a.target < b.target
    \/ a.target = b.target /\ a.keyAttempt < b.keyAttempt
    \/ a.target = b.target /\ a.keyAttempt = b.keyAttempt /\ a.retry < b.retry

Init == last = NoCall /\ output = FALSE /\ answer = "none"

Call ==
    /\ answer = "none"
    /\ ~output
    /\ \E place \in Place : After(last, place) /\ last' = place
    /\ UNCHANGED <<output, answer>>

Emit ==
    /\ answer = "none"
    /\ last # NoCall
    /\ output' = TRUE
    /\ UNCHANGED <<last, answer>>

Answer ==
    /\ answer = "none"
    /\ answer' \in {"result", "error"}
    /\ answer' = "result" => last # NoCall
    /\ UNCHANGED <<last, output>>

Next == Call \/ Emit \/ Answer

Spec == Init /\ [][Next]_failoverVars
=============================================================================
