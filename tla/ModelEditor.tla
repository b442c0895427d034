---------------------------- MODULE ModelEditor ----------------------------
(***************************************************************************)
(* The models page of the admin (admin/pages/ModelsPage.svelte): its list, *)
(* the modal that edits a model, the test of the draft in it, the fetch of *)
(* an endpoint's model names, and the test of a stored model               *)
(* (utils/modelTest.ts).  Answers come back while the operator goes on     *)
(* editing, closes the modal and opens another.                            *)
(***************************************************************************)
EXTENDS Naturals

CONSTANTS
    NULL,       \* nothing
    Names,      \* names of models
    Versions,   \* endpoints
    Backends,   \* models of an upstream
    MaxTests,   \* bound: tests of the draft and what overtakes them
    MaxSaves    \* bound: saves and deletions

VARIABLES
    stored, listed, \* models.json; the page's copy of it
    loading,    \* load() is under way
    form,       \* the modal
    generation, testing, result, \* draftTestGeneration, testingDraft, draftTestResult
    tests,      \* tests of the draft under way
    fetching, fetched, \* the endpoint asked for its names; the one they came from
    submitting, \* the save that is not answered
    deleting,   \* the deletion that is not answered
    row, badges, \* the model tested from the list; the results shown there
    saves       \* saves and deletions so far

draftVars == <<generation, testing, result, tests>>
fetchVars == <<fetching, fetched>>
listVars == <<stored, listed, loading, deleting, saves>>
rowVars == <<row, badges>>
vars == <<listVars, form, draftVars, fetchVars, submitting, rowVars>>

Auto == <<NULL, NULL>>  \* an automatic model, which names no upstream
Targets == Versions \X Backends
Catalogs == [Names -> Targets \cup {Auto, NULL}]
Blank == [open |-> FALSE, editing |-> NULL, auto |-> FALSE, version |-> NULL, backend |-> NULL]

Init ==
    /\ stored \in Catalogs /\ listed = stored /\ loading = FALSE
    /\ form = Blank
    /\ generation = 0 /\ testing = FALSE /\ result = NULL /\ tests = {}
    /\ fetching = NULL /\ fetched = NULL
    /\ submitting = NULL /\ deleting = NULL
    /\ row = NULL /\ badges = [n \in Names |-> NULL]
    /\ saves = 0

(***************************************************************************)
(* The modal.                                                              *)
(***************************************************************************)
ResetDraftTest ==
    /\ generation < MaxTests
    /\ generation' = generation + 1 /\ testing' = FALSE /\ result' = NULL /\ UNCHANGED tests

\* Only a test that runs or shows its result is overtaken.
InvalidateDraftTest ==
    IF testing \/ result # NULL THEN ResetDraftTest ELSE UNCHANGED draftVars

\* resetForm(), then what the modal is opened with.
Reset(filled) == form' = filled /\ ResetDraftTest /\ fetched' = NULL /\ UNCHANGED fetching

\* populateForm(), of an edit or of a clone.
Populated(n, editing) ==
    IF listed[n] = Auto THEN [Blank EXCEPT !.open = TRUE, !.editing = editing, !.auto = TRUE]
    ELSE [Blank EXCEPT !.open = TRUE, !.editing = editing,
                       !.version = listed[n][1], !.backend = listed[n][2]]

OpenAdd == ~form.open /\ Reset([Blank EXCEPT !.open = TRUE])
OpenEdit ==
    ~form.open /\ \E n \in Names : listed[n] # NULL /\ Reset(Populated(n, n))
OpenClone ==
    ~form.open /\ \E n \in Names : listed[n] # NULL /\ Reset(Populated(n, NULL))
CloseModal == form.open /\ Reset(Blank)

\* The select is disabled while a test runs.
ChangeType ==
    /\ form.open /\ ~testing
    /\ form' = [form EXCEPT !.auto = ~@]
    /\ InvalidateDraftTest /\ UNCHANGED fetchVars

\* So is the picker of endpoints, and while names are fetched.
PickVersion ==
    /\ form.open /\ ~form.auto /\ ~testing /\ fetching = NULL
    /\ \E v \in Versions : form' = [form EXCEPT !.version = v]
    /\ fetched' = NULL /\ UNCHANGED fetching
    /\ InvalidateDraftTest

\* Typed, or picked among the fetched names.
EditBackend ==
    /\ form.open /\ ~form.auto
    /\ \E b \in Backends : form' = [form EXCEPT !.backend = b]
    /\ InvalidateDraftTest /\ UNCHANGED fetchVars

(***************************************************************************)
(* The test of the draft: POST /api/models/test.                           *)
(***************************************************************************)
\* testUpstreamModel(): one ping of what was named, which is answered, refused or times out:
\* the result is known by what it is of.
Ping(version, backend) == <<version, backend>>

TestDraftModel ==
    /\ form.open /\ ~form.auto /\ form.version # NULL /\ form.backend # NULL
    /\ ~testing /\ fetching = NULL /\ submitting = NULL
    /\ generation < MaxTests
    /\ generation' = generation + 1 /\ testing' = TRUE /\ result' = NULL
    /\ tests' = tests \cup {[gen |-> generation + 1,
                             answer |-> Ping(form.version, form.backend)]}
    /\ UNCHANGED <<form, fetchVars>>

\* Faulty: an answer is taken when it fits what is in the form.
FitsAnyRun(test) ==
    form.open /\ ~form.auto /\ <<form.version, form.backend>> = test.answer

\* An answer is taken when the form still holds what was tested, in the run that asked.
Fits(test) ==
    /\ form.open /\ ~form.auto /\ <<form.version, form.backend>> = test.answer
    /\ test.gen = generation

DraftAnswered ==
    /\ \E test \in tests :
         /\ tests' = tests \ {test}
         /\ result' = IF Fits(test) THEN test.answer ELSE result
         /\ testing' = (testing /\ test.gen # generation)
    /\ UNCHANGED <<generation, form, fetchVars>>

(***************************************************************************)
(* fetchUpstream(): GET /api/endpoints/:version/models.                    *)
(***************************************************************************)
FetchUpstream ==
    /\ form.open /\ ~form.auto /\ form.version # NULL /\ fetching = NULL /\ ~testing
    /\ fetching' = form.version
    /\ UNCHANGED <<form, draftVars, fetched>>

\* The names of that endpoint, or a message if it is gone, has no key, knows no such list or
\* does not answer.
UpstreamModels(version) == {version, NULL}

\* The names are shown in the form that is open by then.
FetchAnswered ==
    /\ fetching # NULL
    /\ fetched' \in UpstreamModels(fetching) /\ fetching' = NULL
    /\ UNCHANGED <<form, draftVars>>

EditModal ==
    /\ \/ OpenAdd \/ OpenEdit \/ OpenClone \/ CloseModal
       \/ ChangeType \/ PickVersion \/ EditBackend
       \/ TestDraftModel \/ DraftAnswered \/ FetchUpstream \/ FetchAnswered
    /\ UNCHANGED <<listVars, submitting, rowVars>>

(***************************************************************************)
(* Saving, deleting, listing.                                              *)
(***************************************************************************)
\* submit() sends the form as it is; one save at a time.
Submit ==
    /\ form.open /\ submitting = NULL /\ saves < MaxSaves
    /\ form.auto \/ (form.version # NULL /\ form.backend # NULL)
    /\ \E n \in Names :
         /\ listed[n] # NULL => n = form.editing
         /\ submitting' = [name |-> n, old |-> form.editing,
                           target |-> IF form.auto THEN Auto
                                      ELSE <<form.version, form.backend>>]
    /\ saves' = saves + 1
    /\ UNCHANGED <<stored, listed, loading, deleting, form, draftVars, fetchVars, rowVars>>

\* POST and PUT /api/models: a save is refused, fails, or is stored under its new name.
Saved ==
    /\ submitting # NULL
    /\ stored[submitting.name] # NULL => submitting.name = submitting.old
    /\ submitting.old # NULL => stored[submitting.old] # NULL
    /\ stored' = [n \in Names |->
                    IF n = submitting.name THEN submitting.target
                    ELSE IF n = submitting.old THEN NULL ELSE stored[n]]
    /\ submitting' = NULL
    /\ Reset(Blank)
    /\ loading' = TRUE
    /\ UNCHANGED <<listed, deleting, saves, rowVars>>

NotSaved ==
    /\ submitting # NULL
    /\ submitting' = NULL
    /\ UNCHANGED <<listVars, form, draftVars, fetchVars, rowVars>>

ConfirmDelete ==
    /\ ~form.open /\ deleting = NULL /\ saves < MaxSaves
    /\ \E n \in Names : listed[n] # NULL /\ deleting' = n
    /\ saves' = saves + 1
    /\ UNCHANGED <<stored, listed, loading, form, draftVars, fetchVars, submitting, rowVars>>

\* toggleDisabled() and toggleVisibility() end the same way: in load(), or in a message.
DeleteAnswered ==
    /\ deleting # NULL
    /\ \/ stored' = [stored EXCEPT ![deleting] = NULL] /\ loading' = TRUE
       \/ UNCHANGED <<stored, loading>>
    /\ deleting' = NULL
    /\ UNCHANGED <<listed, saves, form, draftVars, fetchVars, submitting, rowVars>>

Load ==
    /\ loading
    /\ loading' = FALSE
    /\ listed' \in {stored, listed}
    /\ UNCHANGED <<stored, deleting, saves, form, draftVars, fetchVars, submitting, rowVars>>

\* testModel(): one test of a name at a time; the server looks the name up.
TestModel ==
    /\ row = NULL
    /\ \E n \in Names :
         /\ listed[n] # NULL
         /\ row' = [name |-> n, answer |-> IF stored[n] \in Targets
                                           THEN Ping(stored[n][1], stored[n][2]) ELSE Auto]
    /\ UNCHANGED <<listVars, form, draftVars, fetchVars, submitting, badges>>

ModelTested ==
    /\ row # NULL
    /\ badges' = [badges EXCEPT ![row.name] = row.answer]
    /\ row' = NULL
    /\ UNCHANGED <<listVars, form, draftVars, fetchVars, submitting>>

Next ==
    \/ EditModal \/ Submit \/ Saved \/ NotSaved
    \/ ConfirmDelete \/ DeleteAnswered \/ Load
    \/ TestModel \/ ModelTested

Spec == Init /\ [][Next]_vars

-----------------------------------------------------------------------------
TypeOK ==
    /\ stored \in Catalogs /\ listed \in Catalogs /\ loading \in BOOLEAN
    /\ form.open \in BOOLEAN /\ form.editing \in Names \cup {NULL}
    /\ form.version \in Versions \cup {NULL} /\ form.backend \in Backends \cup {NULL}
    /\ testing \in BOOLEAN /\ \A test \in tests : test.gen \in 1..generation
    /\ fetching \in Versions \cup {NULL} /\ fetched \in Versions \cup {NULL}

(* The result in the modal is that of the model in the modal, however often *)
(* it was closed, opened for another and edited while tests were under way; *)
(* and the modal says that it tests for exactly as long as it does, so that *)
(* no late answer unlocks a form whose own test still runs.                 *)
DraftTrue ==
    /\ result # NULL => ~testing /\ form.open /\ ~form.auto
                        /\ result = <<form.version, form.backend>>
    /\ testing <=> \E test \in tests : test.gen = generation
    /\ testing => \A test \in tests : test.gen = generation => Fits(test)

(* The same of the fetched names, which does not hold: fetchUpstream() does *)
(* not look which form is open when its answer comes.                      *)
FetchedTrue == fetched # NULL => fetched = form.version

(* The same of the list, which does not hold: a result stays beside a name *)
(* whose model was edited.                                                 *)
BadgesTrue == \A n \in Names : badges[n] # NULL => badges[n] = stored[n]
=============================================================================
