--------------------------- MODULE EndpointEditor ---------------------------
(***************************************************************************)
(* The policies of an endpoint and the modal that edits them               *)
(* (EndpointsPage.svelte, the endpoint routes of routes/admin.ts).  An     *)
(* endpoint follows its own policy or, where it stores none, the default   *)
(* of the settings.  Two policies stand for all: key rotation, which the   *)
(* endpoint list shows as it is stored, and the generation policy, which   *)
(* it fills in.                                                            *)
(***************************************************************************)
EXTENDS Naturals, Sequences

CONSTANTS
    NULL,         \* a policy that was never stored
    MaxEndpoints  \* bound: endpoints

VARIABLES
    defaults,   \* the settings' defaults
    endpoints,  \* endpoints.json, in the order of their index
    list,       \* the page's copy of it
    editor,     \* the modal
    seeding,    \* openAdd() waits for the settings
    unanswered  \* a save of the modal is not answered yet

vars == <<defaults, endpoints, list, editor, seeding, unanswered>>

Rotations == {"sticky", "roundrobin"}
Generations == {"stripped", "passed"}
Policy(r, g) == [rotation |-> r, generation |-> g]
Own == [rotation : Rotations, generation : Generations]
\* Bound: two settings of the defaults, which differ in both.
Defaults == {Policy("sticky", "stripped"), Policy("roundrobin", "passed")}
Closed == [open |-> FALSE, index |-> 0, policy |-> Policy("sticky", "stripped"),
           touched |-> FALSE, late |-> FALSE]

\* getConcreteModelMeta() and resolveRotationMode(): what a request of the endpoint gets.
Effective(p) == Policy(IF p.rotation = NULL THEN defaults.rotation ELSE p.rotation,
                       IF p.generation = NULL THEN defaults.generation ELSE p.generation)

\* Faulty: a generation policy that was never stored is listed as off.
ListedRaw(p) == Policy(p.rotation, IF p.generation = NULL THEN "stripped" ELSE p.generation)

\* GET /api/endpoints fills in the generation policy, not the rotation.
Listed(p) == Policy(p.rotation, Effective(p).generation)
Listing == [i \in DOMAIN endpoints |-> Listed(endpoints[i])]

Init ==
    /\ defaults \in Defaults
    /\ endpoints \in {<<Policy("roundrobin", "stripped")>>, <<Policy(NULL, NULL)>>}
    /\ list = Listing
    /\ editor = Closed /\ seeding = FALSE /\ unanswered = FALSE

ChangeDefaults ==
    /\ defaults' \in Defaults \ {defaults}
    /\ UNCHANGED <<endpoints, list, editor, seeding, unanswered>>

\* openAdd() forgets what was edited, asks for the settings and goes on when they come.
OpenAdd ==
    /\ ~editor.open
    /\ seeding' = TRUE /\ editor' = Closed
    /\ UNCHANGED <<defaults, endpoints, list, unanswered>>

\* It fills the policies of whatever the modal holds by then, with values of its own if the
\* settings did not come.
Seeded ==
    /\ seeding
    /\ seeding' = FALSE
    /\ \E p \in {defaults, Policy("sticky", "stripped")} :
         editor' = [editor EXCEPT !.open = TRUE, !.policy = p, !.late = editor.index # 0]
    /\ UNCHANGED <<defaults, endpoints, list, unanswered>>

OpenEdit ==
    /\ ~editor.open
    /\ \E i \in DOMAIN list :
         LET shown == Policy(IF list[i].rotation = NULL THEN "sticky" ELSE list[i].rotation,
                             list[i].generation)
         IN  editor' = [Closed EXCEPT !.open = TRUE, !.index = i, !.policy = shown]
    /\ UNCHANGED <<defaults, endpoints, list, seeding, unanswered>>

EditPolicy ==
    /\ editor.open
    /\ \E p \in Own : editor' = [editor EXCEPT !.policy = p, !.touched = TRUE]
    /\ UNCHANGED <<defaults, endpoints, list, seeding, unanswered>>

Cancel ==
    /\ editor.open
    /\ editor' = Closed
    /\ UNCHANGED <<defaults, endpoints, list, seeding, unanswered>>

Submit ==
    /\ editor.open
    /\ \/ /\ editor.index = 0
          /\ Len(endpoints) < MaxEndpoints
          /\ endpoints' = Append(endpoints, editor.policy)
       \/ /\ editor.index \in DOMAIN endpoints
          /\ endpoints' = [endpoints EXCEPT ![editor.index] = editor.policy]
    /\ unanswered' = TRUE
    /\ UNCHANGED <<defaults, list, editor, seeding>>

\* The answer closes the modal, whatever it holds by then, and the list is loaded; submit()
\* is not held back meanwhile, so that another answer may be to come.
Answered ==
    /\ unanswered
    /\ unanswered' \in BOOLEAN
    /\ editor' = Closed
    /\ list' = Listing
    /\ UNCHANGED <<defaults, endpoints, seeding>>

\* A caller of the API leaves fields out: a new endpoint is seeded with the defaults, a
\* stored one keeps what it has.
PostEndpoint ==
    /\ Len(endpoints) < MaxEndpoints
    /\ endpoints' = Append(endpoints, defaults)
    /\ UNCHANGED <<defaults, list, editor, seeding, unanswered>>

PutEndpoint ==
    /\ \E i \in DOMAIN endpoints, r \in Rotations :
         endpoints[i].rotation # r /\ endpoints' = [endpoints EXCEPT ![i].rotation = r]
    /\ UNCHANGED <<defaults, list, editor, seeding, unanswered>>

Next ==
    \/ ChangeDefaults
    \/ OpenAdd \/ Seeded \/ OpenEdit \/ EditPolicy \/ Cancel \/ Submit \/ Answered
    \/ PostEndpoint \/ PutEndpoint

Spec == Init /\ [][Next]_vars

-----------------------------------------------------------------------------
TypeOK ==
    LET Stored == [rotation : Rotations \cup {NULL}, generation : Generations \cup {NULL}] IN
    /\ defaults \in Defaults
    /\ endpoints \in Seq(Stored) /\ Len(endpoints) <= MaxEndpoints
    /\ list \in Seq(Stored) /\ Len(list) <= Len(endpoints)
    /\ editor.index \in 0..Len(list) /\ editor.policy \in Own
    /\ seeding \in BOOLEAN /\ unanswered \in BOOLEAN

\* An endpoint is open in the editor, the operator has changed nothing, and the list it was
\* filled from is not out of date.
Untouched ==
    /\ editor.open /\ editor.index # 0 /\ ~editor.touched
    /\ list[editor.index] = Listed(endpoints[editor.index])

(* To open an endpoint and save it changes nothing of what its requests    *)
(* get: what the editor holds is what applies.  Two exceptions are the     *)
(* code's own: a rotation that was never stored is shown as sticky, and an *)
(* editor that was opened while openAdd() waited is overwritten.           *)
UntouchedKept ==
    Untouched /\ ~editor.late =>
        LET kept == Effective(endpoints[editor.index])
        IN  /\ editor.policy.generation = kept.generation
            /\ endpoints[editor.index].rotation # NULL => editor.policy.rotation = kept.rotation

(* The same without the exceptions, which does not hold.                   *)
UntouchedKeptEverywhere == Untouched => editor.policy = Effective(endpoints[editor.index])
=============================================================================
