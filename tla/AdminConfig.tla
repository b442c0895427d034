---------------------------- MODULE AdminConfig ----------------------------
(***************************************************************************)
(* The admin API's configuration (routes/admin.ts): the documents on disk, *)
(* what the process has loaded of them, and the handlers that write one or *)
(* two documents and load them anew.  A handler runs without interruption, *)
(* but for a rename on PostgreSQL, which awaits the log's renaming between *)
(* writing models.json and loading it.  Any save may fail.                 *)
(***************************************************************************)
EXTENDS FiniteSets, Naturals

CONSTANT MaxEdits    \* bound: the requests handled

VARIABLES
    kind,       \* sqlite or postgres
    disk,       \* endpoints.json, models.json and proxies.json
    memory,     \* Config.ENDPOINTS, MODEL_REGISTRY and proxyManager._proxies
    rename,     \* PUT /api/models at its await
    page,       \* the tokens an editor has read, masked
    excuses,    \* history: what a failed save or a rollback has left behind
    edits
vars == <<kind, disk, memory, rename, page, excuses, edits>>

None == "none"
ModelNames == {"a", "b", "x"}
KnownVersions == {"v1", "v2"}
Proxies == {"p1"}
Formats == {"text", "image"}
Token(t) == [text |-> t, masked |-> FALSE]
Tokens == {Token(t) : t \in {"t1", "t2"}}
Mask(token) == [token EXCEPT !.masked = TRUE]

Endpoint(f, p, ts) == [format |-> f, proxy |-> p, tokens |-> ts]
Absent == Endpoint(None, None, {})
Concrete(v) == [type |-> "concrete", version |-> v, targets |-> {}, disabled |-> FALSE]
Auto(targets) == [type |-> "auto", version |-> None, targets |-> targets, disabled |-> FALSE]
NoModel == [type |-> None, version |-> None, targets |-> {}, disabled |-> FALSE]
Records == {Concrete(v) : v \in KnownVersions} \cup {Auto(ts) : ts \in (SUBSET ModelNames) \ {{}}}

(***************************************************************************)
(* Loading: loadModelsFromFile() and Config.loadEndpoints().               *)
(***************************************************************************)
Entry(model, endpoints) ==
    CASE model.type = "concrete" /\ ~ model.disabled /\ endpoints[model.version] # Absent ->
            [model EXCEPT !.targets = {endpoints[model.version].format}]
      [] model.type = "auto" /\ ~ model.disabled -> model
      [] OTHER -> NoModel
Loaded(models, endpoints) == [n \in ModelNames |-> Entry(models[n], endpoints)]

NoRename == [from |-> None, original |-> [n \in ModelNames |-> NoModel], crossed |-> FALSE]
Crossed == IF rename = NoRename THEN rename ELSE [rename EXCEPT !.crossed = TRUE]

\* writeJsonAtomic(models.json), then loadModelsFromFile(); or the save fails.
SaveModels(models) ==
    \/ /\ disk' = [disk EXCEPT !.models = models]
       /\ memory' = [memory EXCEPT !.registry = Loaded(models, memory.endpoints)]
       /\ rename' = Crossed
    \/ UNCHANGED <<disk, memory, rename>>

Handled == edits < MaxEdits /\ edits' = edits + 1

(***************************************************************************)
(* Models.                                                                 *)
(***************************************************************************)
\* validateModelDefinition() as the admin routes call it.
Valid(n, models, kept) ==
    IF models[n].type = "auto"
    THEN /\ n \notin models[n].targets
         /\ \A t \in models[n].targets \ kept : models[t].type = "concrete"
    ELSE disk.endpoints[models[n].version] # Absent

\* pruneAutoTargetReferences() and rewriteAutoTargetReferences().
Pruned(models, gone) ==
    [n \in ModelNames |-> IF models[n].type = "auto" THEN [models[n] EXCEPT !.targets = @ \ gone]
                     ELSE models[n]]
Rewritten(models, old, new) ==
    [n \in ModelNames |->
        IF models[n].type = "auto" /\ old \in models[n].targets
        THEN [models[n] EXCEPT !.targets = (@ \ {old}) \cup {new}] ELSE models[n]]

AddModel(n, model) ==
    LET models == [disk.models EXCEPT ![n] = model]
    IN  /\ Handled /\ disk.models[n] = NoModel /\ Valid(n, models, {})
        /\ SaveModels(models)
        /\ UNCHANGED <<kind, page, excuses>>

\* What PUT /api/models writes.
Updated(old, n, model) ==
    LET existing == disk.models[old]
        stored == [model EXCEPT !.disabled = existing.disabled]
        candidate == [disk.models EXCEPT ![old] = NoModel, ![n] = stored]
        renamed == old # n /\ existing.type = "concrete" /\ stored.type = "concrete"
        converted == existing.type = "concrete" /\ stored.type = "auto"
    IN  IF renamed THEN Rewritten(candidate, old, n)
        ELSE IF converted THEN Pruned(candidate, {old}) ELSE candidate

Updatable(old, n, model) ==
    /\ disk.models[old] # NoModel
    /\ old # n => disk.models[n] = NoModel
    /\ Valid(n, Updated(old, n, model), disk.models[old].targets)

UpdateModel(n, model) ==
    /\ Handled /\ Updatable(n, n, model) /\ SaveModels(Updated(n, n, model))
    /\ UNCHANGED <<kind, page, excuses>>

\* The file is written; the registry waits for the log (bound: one rename at a time).
StartRename(old, n, model) ==
    /\ Handled /\ rename = NoRename /\ old # n /\ Updatable(old, n, model)
    /\ disk' = [disk EXCEPT !.models = Updated(old, n, model)]
    /\ rename' = [from |-> old, original |-> disk.models, crossed |-> FALSE]
    /\ UNCHANGED <<kind, memory, page, excuses>>

\* Seeded fault: the registry is left as it was.
RenameLoggedOnly ==
    /\ rename # NoRename /\ rename' = NoRename
    /\ UNCHANGED <<kind, disk, memory, page, excuses, edits>>

RenameLogged ==
    /\ rename # NoRename /\ rename' = NoRename
    /\ memory' = [memory EXCEPT !.registry = Loaded(disk.models, memory.endpoints)]
    /\ UNCHANGED <<kind, disk, page, excuses, edits>>

\* The log fails: the document read before the await goes back, over whatever has been
\* written since, and is not loaded.
RenameFails ==
    /\ rename # NoRename /\ rename' = NoRename
    /\ disk' = [disk EXCEPT !.models = rename.original]
    /\ excuses' = IF rename.crossed THEN excuses \cup {"memory", "disk"} ELSE excuses
    /\ UNCHANGED <<kind, memory, page, edits>>

\* Seeded fault: automatic models keep the name.
DeleteModelOnly(n) ==
    /\ Handled /\ disk.models[n] # NoModel
    /\ SaveModels([disk.models EXCEPT ![n] = NoModel])
    /\ UNCHANGED <<kind, page, excuses>>

DeleteModel(n) ==
    /\ Handled /\ disk.models[n] # NoModel
    /\ SaveModels(Pruned([disk.models EXCEPT ![n] = NoModel], {n}))
    /\ UNCHANGED <<kind, page, excuses>>

\* Enabling is validated, but for the targets.
Toggle(n) ==
    LET models == [disk.models EXCEPT ![n].disabled = ~ @]
    IN  /\ Handled /\ disk.models[n] # NoModel
        /\ models[n].disabled \/ Valid(n, models, ModelNames)
        /\ SaveModels(models)
        /\ UNCHANGED <<kind, page, excuses>>

(***************************************************************************)
(* Endpoints.                                                              *)
(***************************************************************************)
SaveEndpoints(endpoints) ==
    \/ /\ disk' = [disk EXCEPT !.endpoints = endpoints]
       /\ memory' = [memory EXCEPT !.endpoints = endpoints]
    \/ UNCHANGED <<disk, memory>>

KnownProxies == memory.proxies \cup {None}

AddEndpoint(v, f, p) ==
    /\ Handled /\ disk.endpoints[v] = Absent /\ p \in KnownProxies
    /\ SaveEndpoints([disk.endpoints EXCEPT ![v] = Endpoint(f, p, {})])
    /\ UNCHANGED <<kind, rename, page, excuses>>

\* Masked tokens stand for the stored ones; a mask that fits none stays as it is.
Resolved(stored, tokens) ==
    {IF \E s \in stored : Mask(s) = t THEN CHOOSE s \in stored : Mask(s) = t ELSE t : t \in tokens}

\* The models behind the endpoint are not loaded again.
\* A field the body lacks keeps its value (bound: one field at a time).
UpdateEndpoint(v) ==
    LET stored == disk.endpoints[v]
        Save(endpoint) == SaveEndpoints([disk.endpoints EXCEPT ![v] = endpoint])
    IN  /\ Handled /\ stored # Absent
        /\ \/ \E f \in Formats : Save([stored EXCEPT !.format = f])
           \/ \E p \in KnownProxies : Save([stored EXCEPT !.proxy = p])
           \/ \E tokens \in {page} \cup {{t} : t \in Tokens} :
                 Save([stored EXCEPT !.tokens = Resolved(@, tokens)])
        /\ UNCHANGED <<kind, rename, page, excuses>>

\* GET /api/endpoints, and the editor that opens on it.
OpenEditor(v) ==
    /\ page' = {Mask(t) : t \in disk.endpoints[v].tokens} /\ page' # page
    /\ UNCHANGED <<kind, disk, memory, rename, excuses, edits>>

\* The endpoint, its models, and the targets that named them: two documents.  When the
\* second save fails the first is taken back; when that fails as well, it stays.
DeleteEndpoint(v) ==
    LET gone == {n \in ModelNames : disk.models[n].type = "concrete" /\ disk.models[n].version = v}
        models == Pruned([n \in ModelNames |-> IF n \in gone THEN NoModel ELSE disk.models[n]], gone)
        endpoints == [disk.endpoints EXCEPT ![v] = Absent]
        changed == models # disk.models
    IN  /\ Handled /\ disk.endpoints[v] # Absent
        /\ \/ /\ disk' = [disk EXCEPT !.endpoints = endpoints, !.models = models]
              /\ memory' = [memory EXCEPT
                               !.endpoints = endpoints,
                               !.registry = IF changed THEN Loaded(models, endpoints) ELSE @]
              /\ rename' = Crossed /\ UNCHANGED excuses
           \/ changed /\ disk' = [disk EXCEPT !.endpoints = endpoints]
              /\ excuses' = excuses \cup {"memory", "disk"} /\ UNCHANGED <<memory, rename>>
           \/ UNCHANGED <<disk, memory, rename, excuses>>
        /\ UNCHANGED <<kind, page>>

(***************************************************************************)
(* Proxies: the manager changes its own copy before it saves.              *)
(***************************************************************************)
AddProxy(p) ==
    /\ Handled /\ p \notin memory.proxies \cup disk.proxies
    /\ memory' = [memory EXCEPT !.proxies = @ \cup {p}]
    /\ \/ disk' = [disk EXCEPT !.proxies = memory'.proxies] /\ UNCHANGED excuses
       \/ excuses' = excuses \cup {"proxies"} /\ UNCHANGED disk
    /\ UNCHANGED <<kind, rename, page>>

\* Seeded fault: the endpoints are not asked.
UnreferencedAny(p) == TRUE
Unreferenced(p) == \A v \in KnownVersions : disk.endpoints[v].proxy # p

DeleteProxy(p) ==
    /\ Handled /\ p \in memory.proxies /\ Unreferenced(p)
    /\ memory' = [memory EXCEPT !.proxies = @ \ {p}]
    /\ disk' \in {disk, [disk EXCEPT !.proxies = memory'.proxies]}
    /\ UNCHANGED <<kind, rename, page, excuses>>

\* POST /api/reload, and a start of the process, which ends a rename under way.
LoadAll ==
    memory' = [endpoints |-> disk.endpoints, proxies |-> disk.proxies,
               registry |-> Loaded(disk.models, disk.endpoints)]
Reload == Handled /\ LoadAll /\ rename' = Crossed /\ excuses' = excuses \ {"memory"}
          /\ UNCHANGED <<kind, disk, page>>
Restart == LoadAll /\ rename' = NoRename /\ excuses' = excuses \ {"memory"}
           /\ UNCHANGED <<kind, disk, page, edits>>

Init ==
    /\ kind \in {"sqlite", "postgres"}
    /\ disk = [endpoints |-> [v \in KnownVersions |-> Endpoint("text", None, {Token("t1")})],
               models |-> [a |-> Concrete("v1"), b |-> Concrete("v2"), x |-> Auto({"a", "b"})],
               proxies |-> {}]
    /\ memory = [endpoints |-> disk.endpoints, proxies |-> {},
                 registry |-> Loaded(disk.models, disk.endpoints)]
    /\ rename = NoRename /\ page = {} /\ excuses = {} /\ edits = 0

\* On SQLite the log is renamed in the same turn.
Others ==
    \/ \E n \in ModelNames, model \in Records : AddModel(n, model) \/ UpdateModel(n, model)
    \/ \E old, n \in ModelNames, model \in Records : StartRename(old, n, model)
    \/ \E n \in ModelNames : DeleteModel(n) \/ Toggle(n)
    \/ \E v \in KnownVersions : OpenEditor(v) \/ UpdateEndpoint(v) \/ DeleteEndpoint(v)
    \/ \E v \in KnownVersions, f \in Formats, p \in KnownProxies : AddEndpoint(v, f, p)
    \/ \E p \in Proxies : AddProxy(p) \/ DeleteProxy(p)
    \/ Reload \/ Restart

Next ==
    \/ RenameLogged \/ RenameFails
    \/ (kind = "sqlite" => rename = NoRename) /\ Others

Spec == Init /\ [][Next]_vars

TypeOK ==
    /\ disk.endpoints \in [KnownVersions -> [format : Formats \cup {None}, proxy : Proxies \cup {None},
                                        tokens : SUBSET (Tokens \cup {Mask(t) : t \in Tokens})]]
    /\ \A n \in ModelNames : disk.models[n] \in Records \cup {NoModel}
                        \/ [disk.models[n] EXCEPT !.disabled = FALSE] \in Records \cup {Auto({})}
    /\ disk.proxies \cup memory.proxies \subseteq Proxies
    /\ excuses \subseteq {"memory", "disk", "proxies"}

\* After any sequence of edits, failed saves and restarts no automatic model on disk
\* names a model that is not concrete, and no model an endpoint that is not there,
\* except after a rename was rolled back over another edit or an endpoint's deletion
\* lost both its second save and the rollback.
ReferencesWhole ==
    "disk" \notin excuses =>
        \A n \in ModelNames :
            /\ disk.models[n].type = "concrete" => disk.endpoints[disk.models[n].version] # Absent
            /\ \A t \in disk.models[n].targets : disk.models[t].type = "concrete"

\* Between requests the process routes by what is on disk: every model by its name,
\* its endpoint and its targets.
Route(entry) == IF entry.type = "concrete" THEN [entry EXCEPT !.targets = {}] ELSE entry
RegistryCurrent ==
    rename = NoRename /\ excuses \subseteq {"proxies"} =>
        /\ memory.endpoints = disk.endpoints
        /\ \A n \in ModelNames : Route(memory.registry[n])
                            = Route(Loaded(disk.models, disk.endpoints)[n])

\* An endpoint's proxy exists on disk, so that it is still there after a restart;
\* except when the proxy was never saved.
ProxiesKept ==
    "proxies" \notin excuses =>
        \A v \in KnownVersions : disk.endpoints[v].proxy \in disk.proxies \cup {None}

\* routes/admin.ts:1120: "A change re-categorizes every model on this endpoint, applied by
\* the registry reload at the end of this handler."
FormatApplied ==
    rename = NoRename /\ excuses = {} => memory.registry = Loaded(disk.models, disk.endpoints)

\* AGENT.md:124: "masked placeholders represent stored credentials and must never be
\* persisted as replacement secrets."
MaskNeverStored ==
    \A v \in KnownVersions, t \in Tokens : Mask(t) \notin disk.endpoints[v].tokens
=============================================================================
