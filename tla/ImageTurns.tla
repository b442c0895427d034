----------------------------- MODULE ImageTurns -----------------------------
(***************************************************************************)
(* The image mode of the playground (PlaygroundPage.svelte 329-510 and     *)
(* lib/playground/images.ts).  A batch fills new cells of the grid, a      *)
(* retry one cell that failed; a batch and any number of retries run side  *)
(* by side, each with one request or, for the interactions API, with one   *)
(* request per image.                                                      *)
(***************************************************************************)
EXTENDS Naturals, FiniteSets, Sequences, Collections

CONSTANTS
    MaxSlots,       \* bound on the cells ever created
    MaxCount,       \* bound on the images of one batch
    MaxOperations   \* bound on the operations ever started

VARIABLES
    slots,        \* imageSlots: the state of each cell, in order of creation
    retriable,    \* the cells with an entry in imageRetrySnapshots
    runs,         \* the operations that have not returned, by their number
    latest,       \* latestImageOperation
    generating,   \* imageBatchGenerating
    counted,      \* activeImageOperations
    usable        \* readyToSend(): a key and a model are set

vars == <<slots, retriable, runs, latest, generating, counted, usable>>

Run == [kind : {"batch", "retry"}, targets : SUBSET (1..MaxSlots),
        unfilled : Seq(1..MaxSlots), open : 0..MaxCount, images : 0..MaxSlots,
        failures : 0..MaxCount, first : {"none", "terminal", "other"}]

Init ==
    /\ slots = <<>>
    /\ retriable = {}
    /\ runs = <<>>
    /\ latest = 0
    /\ generating = FALSE
    /\ counted = 0
    /\ usable = TRUE

Running == DOMAIN runs

\* runImageTurn() up to its first await, for the cells `targets`; one
\* request for all of them or one for each.
Begin(kind, targets) ==
    /\ latest < MaxOperations
    /\ latest' = latest + 1
    /\ \E n \in {1, Len(targets)} :
         runs' = [i \in Running \union {latest'} |->
                    IF i # latest' THEN runs[i]
                    ELSE [kind |-> kind, targets |-> ToSet(targets),
                          unfilled |-> targets, open |-> n, images |-> 0,
                          failures |-> 0, first |-> "none"]]
    /\ generating' = (generating \/ kind = "batch")
    /\ counted' = counted + 1
    /\ retriable' = retriable \ ToSet(targets)

SendImagePrompt ==
    /\ usable
    /\ ~generating
    /\ \E count \in 1..MaxCount :
         /\ Len(slots) + count <= MaxSlots
         /\ slots' = slots \o [i \in 1..count |-> "loading"]
         /\ Begin("batch", [i \in 1..count |-> Len(slots) + i])
    /\ UNCHANGED usable

RetryImageSlot ==
    /\ usable
    /\ \E s \in retriable :
         /\ slots[s] = "failed"
         /\ slots' = [slots EXCEPT ![s] = "loading"]
         /\ Begin("retry", <<s>>)
    /\ UNCHANGED usable

-----------------------------------------------------------------------------
(* publishImages(): each image goes to the next cell that has none; what   *)
(* is left over is dropped.                                                *)
Published(r, n) == ToSet(SubSeq(r.unfilled, 1, n))

Responds ==
    \E i \in Running : \E n \in 0..Len(runs[i].unfilled) :
        LET r == runs[i] IN
        /\ r.open > 0
        /\ slots' = [s \in DOMAIN slots |->
                        IF s \in Published(r, n) THEN "ready" ELSE slots[s]]
        /\ runs' = [runs EXCEPT ![i].open = @ - 1, ![i].images = @ + n,
                                ![i].unfilled = SubSeq(@, n + 1, Len(@))]
        /\ UNCHANGED <<retriable, latest, generating, counted, usable>>

(* A request fails, by itself or because stop() aborts it: status 401 or   *)
(* 404, or anything else.                                                  *)
RequestFails ==
    \E i \in Running, how \in {"terminal", "other"} :
        /\ runs[i].open > 0
        /\ runs' = [runs EXCEPT ![i].open = @ - 1, ![i].failures = @ + 1,
                        ![i].first = IF @ = "none" THEN how ELSE @]
        /\ UNCHANGED <<slots, retriable, latest, generating, counted, usable>>

Stop ==
    /\ \E i \in Running : runs[i].open > 0
    /\ runs' = [i \in Running |->
                  [runs[i] EXCEPT !.open = 0, !.failures = @ + runs[i].open,
                      !.first = IF @ = "none" /\ runs[i].open > 0
                                THEN "other" ELSE @]]
    /\ UNCHANGED <<slots, retriable, latest, generating, counted, usable>>

-----------------------------------------------------------------------------
(* With no image at all the first error is thrown; 401 and 404 leave the   *)
(* cells without a retry; on the newest operation 401 drops the key and    *)
(* 404 the model.                                                          *)
Thrown(r) == r.images = 0 /\ r.failures > 0

Unready(r) == {s \in r.targets : slots[s] # "ready"}

GeneratingAfter(r) == IF r.kind = "batch" THEN FALSE ELSE generating

Returns ==
    \E i \in Running :
        LET r == runs[i]
            terminal == Thrown(r) /\ r.first = "terminal"
        IN
        /\ r.open = 0
        /\ slots' = [s \in DOMAIN slots |->
                        IF s \in Unready(r) THEN "failed" ELSE slots[s]]
        /\ retriable' = IF terminal THEN retriable \ Unready(r)
                                    ELSE retriable \union Unready(r)
        /\ runs' = [j \in Running \ {i} |-> runs[j]]
        /\ generating' = GeneratingAfter(r)
        /\ counted' = IF counted = 0 THEN 0 ELSE counted - 1
        /\ usable' = (usable /\ ~(terminal /\ i = latest))
        /\ UNCHANGED latest

Reselect ==
    /\ ~usable
    /\ usable' = TRUE
    /\ UNCHANGED <<slots, retriable, runs, latest, generating, counted>>

Next ==
    \/ SendImagePrompt \/ RetryImageSlot
    \/ Responds \/ RequestFails \/ Stop
    \/ Returns \/ Reselect

Spec == Init /\ [][Next]_vars

-----------------------------------------------------------------------------
TypeOK ==
    /\ slots \in Seq({"loading", "ready", "failed"}) /\ Len(slots) <= MaxSlots
    /\ retriable \subseteq DOMAIN slots
    /\ \A i \in Running : runs[i] \in Run
    /\ Running \subseteq 1..latest
    /\ latest \in 0..MaxOperations /\ counted \in 0..MaxOperations
    /\ generating \in BOOLEAN /\ usable \in BOOLEAN

(* A cell is loading exactly while one running operation is to fill it, no *)
(* two operations share a cell they have still to fill, only a failed cell *)
(* offers a retry, and the button of a batch is held exactly while the one *)
(* batch runs.                                                             *)
SlotsOwned ==
    /\ \A s \in DOMAIN slots :
         /\ slots[s] = "loading" <=>
              \E i \in Running : s \in ToSet(runs[i].unfilled)
         /\ s \in retriable => slots[s] = "failed"
    /\ \A i, j \in Running :
         i # j => ToSet(runs[i].unfilled) \intersect ToSet(runs[j].unfilled) = {}
    /\ Cardinality({i \in Running : runs[i].kind = "batch"}) =
         IF generating THEN 1 ELSE 0
    /\ counted = Cardinality(Running)
=============================================================================
