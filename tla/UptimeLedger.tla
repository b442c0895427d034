---------------------------- MODULE UptimeLedger ----------------------------
(***************************************************************************)
(* What the uptime layer (services/uptime) promises of its counters: each  *)
(* outcome counts once, and moving counters between memory and storage     *)
(* costs none.  A count falls for one of three reasons only.               *)
(***************************************************************************)
EXTENDS Integers

CONSTANTS Models, MaxBucket, Retention
Buckets == 0..MaxBucket
Rows == Models \X Buckets
Zero == [r \in Rows |-> 0]

VARIABLES
    now,     \* the open bucket
    count,   \* the outcomes counted, per model and bucket
    full,    \* the map in memory is at its cap
    process  \* running, stopping or off

vars == <<now, count, full, process>>
Processes == {"running", "stopping", "off"}

Init == now = 0 /\ count = Zero /\ full \in BOOLEAN /\ process = "running"

Count(r) == process # "off" /\ count' = [count EXCEPT ![r] = @ + 1]

\* Retention forgets what is stored of rows that are old enough.
Expire ==
    /\ process # "off"
    /\ \A r \in Rows : count'[r] \in (IF r[2] < now - Retention THEN 0 ELSE count[r])..count[r]

\* Rows that did not fit, or that a process takes along when it stops.
Drop ==
    /\ full \/ full' \/ process = "stopping" \/ process' = "off"
    /\ \A r \in Rows : count'[r] \in 0..count[r]

Next ==
    /\ now' \in now..MaxBucket /\ full' \in BOOLEAN /\ process' \in Processes
    /\ \/ UNCHANGED count \/ Drop \/ Expire
       \/ \E r \in Rows : Count(r)

Spec == Init /\ [][Next]_vars
=============================================================================
