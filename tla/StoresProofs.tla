---------------------------- MODULE StoresProofs ----------------------------
(***************************************************************************)
(* Proofs about MCData: the admin's configuration, the settings, the       *)
(* cached statistics, the pages' lists, the request log, the log store,    *)
(* the usage reports and the editors of an endpoint and of a model.  Each  *)
(* behaviour of MCSpec is one of each component, with stuttering while     *)
(* another is at work; the lemmas are about the components' instances.     *)
(***************************************************************************)
EXTENDS MCData, CollectionsProofs, TLAPS

(***************************************************************************)
(* AdminConfig: what the documents look like.                              *)
(***************************************************************************)
ModelDoc ==
    [type : {"concrete", "auto", Config!None}, version : Config!KnownVersions \cup {Config!None},
     targets : SUBSET Config!ModelNames, disabled : BOOLEAN]

Formed(model) ==
    /\ model.type = "concrete" => model.version \in Config!KnownVersions /\ model.targets = {}
    /\ model.type = "auto" => model.version = Config!None
    /\ model.type = Config!None => model = Config!NoModel

ModelDocs ==
    {docs \in [Config!ModelNames -> ModelDoc] : \A n \in Config!ModelNames : Formed(docs[n])}

MaskedTokens == {Config!Mask(t) : t \in Config!Tokens}

EndpointDoc ==
    [format : Config!Formats \cup {Config!None}, proxy : Config!Proxies \cup {Config!None},
     tokens : SUBSET (Config!Tokens \cup MaskedTokens)]

\* An endpoint without a format is none at all.
EndpointDocs ==
    {docs \in [Config!KnownVersions -> EndpointDoc] :
        \A v \in Config!KnownVersions : docs[v].format = Config!None => docs[v] = Config!Absent}

DocsTyped ==
    /\ disk = [endpoints |-> disk.endpoints, models |-> disk.models, proxies |-> disk.proxies]
    /\ disk.endpoints \in EndpointDocs /\ disk.models \in ModelDocs
    /\ memory = [endpoints |-> memory.endpoints, registry |-> memory.registry,
                 proxies |-> memory.proxies]
    /\ rename = [from |-> rename.from, original |-> rename.original, crossed |-> rename.crossed]
    /\ rename.original \in ModelDocs /\ rename.crossed \in BOOLEAN
    /\ rename.from = Config!None => rename = Config!NoRename
    /\ disk.proxies \cup memory.proxies \subseteq Config!Proxies
    /\ page \subseteq MaskedTokens
    /\ excuses \subseteq {"memory", "disk", "proxies"}
    /\ "memory" \in excuses => "disk" \in excuses

(***************************************************************************)
(* AdminConfig: what the documents say of each other.  A rename that       *)
(* nothing has crossed may be taken back, so what it would put back has to *)
(* be whole as well, and the registry is still the one loaded from it.     *)
(***************************************************************************)
Whole(docs, eps) ==
    \A n \in Config!ModelNames :
        /\ docs[n].type = "concrete" => eps[docs[n].version] # Config!Absent
        /\ \A t \in docs[n].targets : docs[t].type = "concrete"

Routed(registry, docs, eps) ==
    \A n \in Config!ModelNames :
        Config!Route(registry[n]) = Config!Route(Config!Entry(docs[n], eps))

DocsWhole ==
    "disk" \notin excuses =>
        /\ Whole(disk.models, disk.endpoints)
        /\ memory.endpoints = disk.endpoints
        /\ rename = Config!NoRename => Routed(memory.registry, disk.models, disk.endpoints)
        /\ rename # Config!NoRename /\ ~rename.crossed =>
              /\ Whole(rename.original, disk.endpoints)
              /\ Routed(memory.registry, rename.original, disk.endpoints)

\* The manager's own copy is never ahead of the file, once every addition was saved, and
\* what an endpoint names is in that copy.
ProxiesWhole ==
    "proxies" \notin excuses =>
        /\ memory.proxies \subseteq disk.proxies
        /\ \A v \in Config!KnownVersions :
              disk.endpoints[v].proxy \in memory.proxies \cup {Config!None}

LEMMA NoModelFormed == Config!NoModel \in ModelDoc /\ Formed(Config!NoModel)
BY DEF Config!NoModel, ModelDoc, Formed, Config!None, Config!ModelNames

LEMMA AbsentFormed ==
    Config!Absent \in EndpointDoc /\ Config!Absent.format = Config!None
    /\ Config!Absent.proxy = Config!None
BY DEF Config!Absent, Config!Endpoint, EndpointDoc

\* What is routed to depends on the endpoints only in whether the model's own is there.
LEMMA RouteOfEntry ==
    ASSUME NEW model \in ModelDoc, NEW eps1, NEW eps2,
           model.type = "concrete" =>
               (eps1[model.version] # Config!Absent <=> eps2[model.version] # Config!Absent)
    PROVE  Config!Route(Config!Entry(model, eps1)) = Config!Route(Config!Entry(model, eps2))
<1>1. CASE model.type = "concrete" /\ ~model.disabled /\ eps1[model.version] # Config!Absent
      BY <1>1 DEF Config!Entry, Config!Route, ModelDoc
<1>2. CASE model.type = "concrete" /\ (model.disabled \/ eps1[model.version] = Config!Absent)
      BY <1>2 DEF Config!Entry, Config!Route, ModelDoc
<1>3. CASE model.type # "concrete"
      BY <1>3 DEF Config!Entry, Config!Route, ModelDoc
<1>4. QED BY <1>1, <1>2, <1>3

LEMMA RoutedBySame ==
    ASSUME NEW registry, NEW docs \in ModelDocs, NEW eps1, NEW eps2,
           Routed(registry, docs, eps1),
           \A n \in Config!ModelNames : docs[n].type = "concrete" =>
               (eps1[docs[n].version] # Config!Absent <=> eps2[docs[n].version] # Config!Absent)
    PROVE  Routed(registry, docs, eps2)
BY RouteOfEntry DEF Routed, ModelDocs

LEMMA LoadedRouted ==
    ASSUME NEW docs, NEW eps1
    PROVE  Routed(Config!Loaded(docs, eps1), docs, eps1)
BY DEF Routed, Config!Loaded

LEMMA NoRenameTyped ==
    /\ Config!NoRename.original \in ModelDocs /\ Config!NoRename.crossed = FALSE
    /\ Config!NoRename.from = Config!None
    /\ Config!NoRename = [from |-> Config!NoRename.from, original |-> Config!NoRename.original,
                          crossed |-> Config!NoRename.crossed]
BY NoModelFormed DEF Config!NoRename, ModelDocs

\* A document is loaded while a rename waits: nothing more is expected of taking it back.
LEMMA CrossedOnce ==
    ASSUME DocsTyped, rename' = Config!Crossed
    PROVE  /\ rename' = [from |-> rename'.from, original |-> rename'.original,
                         crossed |-> rename'.crossed]
           /\ rename'.original \in ModelDocs /\ rename'.crossed \in BOOLEAN
           /\ rename'.from = Config!None => rename' = Config!NoRename
           /\ rename' = Config!NoRename \/ rename'.crossed
           /\ rename' = Config!NoRename => rename = Config!NoRename
<1>1. CASE rename = Config!NoRename
      BY <1>1, NoRenameTyped DEF Config!Crossed
<1>2. CASE rename # Config!NoRename
      BY <1>2, NoRenameTyped DEF Config!Crossed, DocsTyped
<1>3. QED BY <1>1, <1>2

ConfigInv == DocsTyped /\ DocsWhole /\ ProxiesWhole

\* The steps of the handlers that leave everything but models.json alone.
LEMMA ModelsSaved ==
    ASSUME ConfigInv, NEW docs \in ModelDocs,
           "disk" \notin excuses => Whole(docs, disk.endpoints),
           Config!SaveModels(docs), UNCHANGED <<page, excuses>>
    PROVE  ConfigInv'
<1>1. CASE UNCHANGED <<disk, memory, rename>>
      BY <1>1 DEF ConfigInv, DocsTyped, DocsWhole, ProxiesWhole
<1>2. CASE /\ disk' = [disk EXCEPT !.models = docs]
           /\ memory' = [memory EXCEPT !.registry = Config!Loaded(docs, memory.endpoints)]
           /\ rename' = Config!Crossed
      <2>1. disk'.models = docs /\ disk'.endpoints = disk.endpoints
            /\ disk'.proxies = disk.proxies
            BY <1>2 DEF ConfigInv, DocsTyped
      <2>2. memory'.endpoints = memory.endpoints /\ memory'.proxies = memory.proxies
            /\ memory'.registry = Config!Loaded(docs, memory.endpoints)
            BY <1>2 DEF ConfigInv, DocsTyped
      <2>3. DocsTyped' BY <1>2, <2>1, <2>2, CrossedOnce DEF ConfigInv, DocsTyped
      <2>4. DocsWhole'
            <3>1. Routed(memory.registry', docs, memory.endpoints)
                  BY <2>2, LoadedRouted
            <3>2. rename' = Config!NoRename \/ rename'.crossed
                  BY <1>2, CrossedOnce DEF ConfigInv
            <3>3. QED BY <2>1, <2>2, <3>1, <3>2 DEF ConfigInv, DocsWhole
      <2>5. ProxiesWhole' BY <2>1, <2>2 DEF ConfigInv, ProxiesWhole
      <2>6. QED BY <2>3, <2>4, <2>5 DEF ConfigInv
<1>3. QED BY <1>1, <1>2 DEF Config!SaveModels

LEMMA RecordsFormed == \A model \in Config!Records :
    model \in ModelDoc /\ Formed(model) /\ model # Config!NoModel /\ model.type # Config!None
<1>1. \A v \in Config!KnownVersions :
         LET c == Config!Concrete(v)
         IN  c \in ModelDoc /\ Formed(c) /\ c # Config!NoModel /\ c.type # Config!None
      BY DEF Config!Concrete, ModelDoc, Formed, Config!None, Config!NoModel
<1>2. \A ts \in SUBSET Config!ModelNames :
         LET c == Config!Auto(ts)
         IN  c \in ModelDoc /\ Formed(c) /\ c # Config!NoModel /\ c.type # Config!None
      BY DEF Config!Auto, ModelDoc, Formed, Config!None, Config!NoModel
<1>3. QED BY <1>1, <1>2 DEF Config!Records

LEMMA AutoRecord ==
    \A ts \in SUBSET Config!ModelNames : ts # {} => Config!Auto(ts) \in Config!Records
<1> SUFFICES ASSUME NEW ts \in SUBSET Config!ModelNames, ts # {}
             PROVE  Config!Auto(ts) \in Config!Records
    OBVIOUS
<1>1. ts \in (SUBSET Config!ModelNames) \ {{}} OBVIOUS
<1> DEFINE known == {Config!Auto(t) : t \in (SUBSET Config!ModelNames) \ {{}}}
<1>2. Config!Auto(ts) \in known BY <1>1
<1>3. known \subseteq Config!Records BY DEF Config!Records
<1>4. QED BY <1>2, <1>3

LEMMA ModelAdded ==
    ASSUME ConfigInv, NEW n \in Config!ModelNames, NEW model \in Config!Records,
           Config!AddModel(n, model)
    PROVE  ConfigInv'
<1> DEFINE docs == [disk.models EXCEPT ![n] = model]
<1>1. disk.models[n] = Config!NoModel /\ Config!Valid(n, docs, {}) /\ Config!SaveModels(docs)
      /\ UNCHANGED <<page, excuses>>
      BY DEF Config!AddModel
<1>2. docs \in ModelDocs BY RecordsFormed DEF ConfigInv, DocsTyped, ModelDocs
<1>3. ASSUME "disk" \notin excuses PROVE Whole(docs, disk.endpoints)
      <2> SUFFICES ASSUME NEW k \in Config!ModelNames
                   PROVE  /\ docs[k].type = "concrete"
                               => disk.endpoints[docs[k].version] # Config!Absent
                          /\ \A t \in docs[k].targets : docs[t].type = "concrete"
          BY DEF Whole
      <2>1. docs[n] = model /\ \A t \in Config!ModelNames \ {n} : docs[t] = disk.models[t]
            BY DEF ConfigInv, DocsTyped, ModelDocs
      <2>2. Whole(disk.models, disk.endpoints) BY <1>3 DEF ConfigInv, DocsWhole
      <2>3. model \in ModelDoc /\ Formed(model) /\ disk.models \in ModelDocs
            BY RecordsFormed DEF ConfigInv, DocsTyped
      <2>4. CASE k = n BY <1>1, <2>1, <2>3, <2>4, RecordsFormed DEF Config!Valid, Formed, ModelDoc
      <2>5. CASE k # n
            BY <1>1, <2>1, <2>2, <2>3, <2>5
            DEF Whole, ModelDocs, ModelDoc, Config!NoModel, Config!None
      <2>6. QED BY <2>4, <2>5
<1>4. QED BY <1>1, <1>2, <1>3, ModelsSaved

\* Taking names from the targets, or another in a name's place, keeps the documents formed.
LEMMA PrunedFormed ==
    ASSUME NEW docs \in ModelDocs, NEW gone
    PROVE  /\ Config!Pruned(docs, gone) \in ModelDocs
           /\ \A k \in Config!ModelNames :
                 LET q == Config!Pruned(docs, gone)[k]
                 IN  /\ q.type = docs[k].type /\ q.version = docs[k].version
                     /\ q.disabled = docs[k].disabled
                     /\ q.targets = docs[k].targets \ gone
<1> DEFINE q == Config!Pruned(docs, gone)
<1>1. ASSUME NEW k \in Config!ModelNames
      PROVE  /\ q[k] \in ModelDoc /\ Formed(q[k])
             /\ q[k].type = docs[k].type /\ q[k].version = docs[k].version
             /\ q[k].disabled = docs[k].disabled /\ q[k].targets = docs[k].targets \ gone
      <2>1. docs[k] \in ModelDoc /\ Formed(docs[k]) BY DEF ModelDocs
      <2>2. CASE docs[k].type = "auto"
            BY <2>1, <2>2 DEF Config!Pruned, ModelDoc, Formed, Config!None
      <2>3. CASE docs[k].type # "auto"
            BY <2>1, <2>3 DEF Config!Pruned, ModelDoc, Formed, Config!None, Config!NoModel
      <2>4. QED BY <2>2, <2>3
<1>2. q = [k \in Config!ModelNames |-> q[k]] BY DEF Config!Pruned
<1>3. QED BY <1>1, <1>2 DEF ModelDocs

LEMMA RewrittenAt ==
    ASSUME NEW docs \in ModelDocs, NEW old \in Config!ModelNames, NEW n \in Config!ModelNames,
           NEW k \in Config!ModelNames
    PROVE  /\ Config!Rewritten(docs, old, n)[k] \in ModelDoc
           /\ Formed(Config!Rewritten(docs, old, n)[k])
           /\ Config!Rewritten(docs, old, n)[k].type = docs[k].type
           /\ Config!Rewritten(docs, old, n)[k].version = docs[k].version
           /\ \A t \in Config!Rewritten(docs, old, n)[k].targets :
                 t = n \/ (t # old /\ t \in docs[k].targets)
<1>1. docs[k] \in ModelDoc /\ Formed(docs[k]) BY DEF ModelDocs
<1>2. CASE docs[k].type = "auto" /\ old \in docs[k].targets
      BY <1>1, <1>2 DEF Config!Rewritten, ModelDoc, Formed, Config!None
<1>3. CASE docs[k].type # "auto" \/ old \notin docs[k].targets
      <2>1. Config!Rewritten(docs, old, n)[k] = docs[k] BY <1>3 DEF Config!Rewritten
      <2>2. old \notin docs[k].targets
            BY <1>1, <1>3 DEF ModelDoc, Formed, Config!None, Config!NoModel
      <2>3. QED BY <1>1, <2>1, <2>2
<1>4. QED BY <1>2, <1>3

LEMMA RewrittenFormed ==
    ASSUME NEW docs \in ModelDocs, NEW old \in Config!ModelNames, NEW n \in Config!ModelNames
    PROVE  Config!Rewritten(docs, old, n) \in ModelDocs
<1>1. Config!Rewritten(docs, old, n) =
          [k \in Config!ModelNames |-> Config!Rewritten(docs, old, n)[k]]
      BY DEF Config!Rewritten
<1>2. QED BY <1>1, RewrittenAt DEF ModelDocs

LEMMA UpdatedWhole ==
    ASSUME ConfigInv, NEW old \in Config!ModelNames, NEW n \in Config!ModelNames,
           NEW model \in Config!Records, Config!Updatable(old, n, model)
    PROVE  /\ Config!Updated(old, n, model) \in ModelDocs
           /\ "disk" \notin excuses => Whole(Config!Updated(old, n, model), disk.endpoints)
<1> DEFINE existing == disk.models[old]
           saved_ == [model EXCEPT !.disabled = existing.disabled]
           candidate == [disk.models EXCEPT ![old] = Config!NoModel, ![n] = saved_]
           renamed == old # n /\ existing.type = "concrete" /\ saved_.type = "concrete"
           converted == existing.type = "concrete" /\ saved_.type = "auto"
           docs == Config!Updated(old, n, model)
<1>1. docs = IF renamed THEN Config!Rewritten(candidate, old, n)
             ELSE IF converted THEN Config!Pruned(candidate, {old}) ELSE candidate
      BY DEF Config!Updated
<1>2. disk.models \in ModelDocs BY DEF ConfigInv, DocsTyped
<1>3. /\ saved_ \in ModelDoc /\ Formed(saved_) /\ saved_.type = model.type
      /\ saved_.type \in {"concrete", "auto"}
      /\ saved_.version = model.version /\ saved_.targets = model.targets
      BY <1>2, RecordsFormed DEF ModelDocs, ModelDoc, Formed, Config!NoModel, Config!None
<1>4. candidate \in ModelDocs BY <1>2, <1>3, NoModelFormed DEF ModelDocs
<1>5. docs \in ModelDocs BY <1>1, <1>4, PrunedFormed, RewrittenFormed
<1>6. candidate[n] = saved_ /\ (old # n => candidate[old] = Config!NoModel)
      /\ \A k \in Config!ModelNames \ {old, n} : candidate[k] = disk.models[k]
      BY <1>2 DEF ModelDocs
<1>7. /\ existing # Config!NoModel /\ (old # n => disk.models[n] = Config!NoModel)
      /\ Config!Valid(n, docs, existing.targets)
      BY DEF Config!Updatable
<1> HIDE DEF candidate, docs, saved_
<1>8. \A k \in Config!ModelNames :
         docs[k].type = candidate[k].type /\ docs[k].version = candidate[k].version
      <2>1. CASE renamed
            <3>1. docs = Config!Rewritten(candidate, old, n) BY <1>1, <2>1
            <3>2. QED BY <1>4, <3>1, RewrittenAt
      <2>2. CASE ~renamed /\ converted
            <3>1. docs = Config!Pruned(candidate, {old}) BY <1>1, <2>2
            <3>2. QED BY <1>4, <3>1, PrunedFormed
      <2>3. CASE ~renamed /\ ~converted BY <1>1, <2>3
      <2>4. QED BY <2>1, <2>2, <2>3
<1>9. ASSUME "disk" \notin excuses, NEW k \in Config!ModelNames
      PROVE  /\ docs[k].type = "concrete" => disk.endpoints[docs[k].version] # Config!Absent
             /\ \A t \in docs[k].targets : docs[t].type = "concrete"
      <2>1. /\ \A j \in Config!ModelNames :
                  disk.models[j].type = "concrete"
                      => disk.endpoints[disk.models[j].version] # Config!Absent
            /\ \A j \in Config!ModelNames : \A t \in disk.models[j].targets :
                  disk.models[t].type = "concrete"
            BY <1>9 DEF ConfigInv, DocsWhole, Whole
      <2>2. \A j \in Config!ModelNames : disk.models[j].targets \subseteq Config!ModelNames
            BY <1>2 DEF ModelDocs, ModelDoc
      <2>3. docs[k].type = "concrete" => disk.endpoints[docs[k].version] # Config!Absent
            <3>1. CASE k = n BY <1>3, <1>6, <1>7, <1>8, <3>1 DEF Config!Valid
            <3>2. CASE k # n
                  BY <1>6, <1>8, <2>1, <3>2 DEF Config!NoModel, Config!None
            <3>3. QED BY <3>1, <3>2
      <2>4. ASSUME NEW t \in docs[k].targets PROVE docs[t].type = "concrete"
            <3>0. docs[k] \in ModelDoc /\ Formed(docs[k]) /\ t \in Config!ModelNames
                  BY <1>5 DEF ModelDocs, ModelDoc
            <3>1. CASE k = n
                  <4>1. docs[n].type = "auto" BY <1>3, <1>6, <1>8, <3>0, <3>1 DEF Formed
                  <4>2. t # n /\ (t \notin existing.targets => docs[t].type = "concrete")
                        BY <1>7, <3>1, <4>1 DEF Config!Valid
                  <4>3. CASE t \in existing.targets
                        <5>1. existing.type # "concrete" BY <1>2, <4>3 DEF ModelDocs, Formed
                        <5>2. disk.models[t].type = "concrete" BY <2>1, <4>3
                        <5>3. t # old BY <5>1, <5>2
                        <5>4. QED BY <1>6, <1>8, <3>0, <4>2, <5>2, <5>3
                  <4>4. QED BY <4>2, <4>3
            <3>2. CASE k = old /\ k # n
                  <4>1. docs[k].type = Config!None BY <1>6, <1>8, <3>2 DEF Config!NoModel
                  <4>2. QED BY <3>0, <4>1 DEF Formed, Config!NoModel
            <3>3. CASE k # old /\ k # n
                  <4>1. candidate[k] = disk.models[k] BY <1>6, <3>3
                  <4>2. \A u \in disk.models[k].targets : disk.models[u].type = "concrete"
                        BY <2>1
                  <4>3. \A u \in disk.models[k].targets : u # old => docs[u].type = "concrete"
                        BY <1>6, <1>7, <1>8, <2>2, <4>2 DEF Config!NoModel, Config!None
                  <4>4. CASE renamed
                        <5>0. docs = Config!Rewritten(candidate, old, n) BY <1>1, <4>4
                        <5>1. t = n \/ (t # old /\ t \in disk.models[k].targets)
                              BY <1>4, <4>1, <5>0, RewrittenAt
                        <5>2. docs[n].type = "concrete" BY <1>6, <1>8, <4>4
                        <5>3. QED BY <4>3, <5>1, <5>2
                  <4>5. CASE converted /\ ~renamed
                        <5>1. t # old /\ t \in disk.models[k].targets
                              BY <1>1, <1>4, <4>1, <4>5, PrunedFormed
                        <5>2. QED BY <4>3, <5>1
                  <4>6. CASE ~converted /\ ~renamed
                        <5>1. t \in disk.models[k].targets BY <1>1, <4>1, <4>6
                        <5>2. CASE t = old
                              <6>1. existing.type = "concrete" BY <4>2, <5>1, <5>2
                              <6>2. saved_.type = "concrete" /\ old = n BY <1>3, <4>6, <6>1
                              <6>3. QED BY <1>6, <1>8, <5>2, <6>2
                        <5>3. QED BY <4>3, <5>1, <5>2
                  <4>7. QED BY <4>4, <4>5, <4>6
            <3>4. QED BY <3>1, <3>2, <3>3
      <2>5. QED BY <2>3, <2>4
<1>10. QED BY <1>5, <1>9 DEF Whole, docs

LEMMA ModelUpdated ==
    ASSUME ConfigInv, NEW n \in Config!ModelNames, NEW model \in Config!Records,
           Config!UpdateModel(n, model)
    PROVE  ConfigInv'
<1>1. Config!Updatable(n, n, model) /\ Config!SaveModels(Config!Updated(n, n, model))
      /\ UNCHANGED <<page, excuses>>
      BY DEF Config!UpdateModel
<1>2. QED BY <1>1, UpdatedWhole, ModelsSaved

\* What the rename would put back is whole and loaded, so far.
LEMMA RenameStarted ==
    ASSUME ConfigInv, NEW old \in Config!ModelNames, NEW n \in Config!ModelNames,
           NEW model \in Config!Records, Config!StartRename(old, n, model)
    PROVE  ConfigInv'
<1> DEFINE docs == Config!Updated(old, n, model)
<1>1. /\ rename = Config!NoRename /\ Config!Updatable(old, n, model)
      /\ disk' = [disk EXCEPT !.models = docs]
      /\ rename' = [from |-> old, original |-> disk.models, crossed |-> FALSE]
      /\ UNCHANGED <<memory, page, excuses>>
      BY DEF Config!StartRename
<1>2. docs \in ModelDocs /\ ("disk" \notin excuses => Whole(docs, disk.endpoints))
      BY <1>1, UpdatedWhole
<1> HIDE DEF docs
<1>3. disk'.models = docs /\ disk'.endpoints = disk.endpoints /\ disk'.proxies = disk.proxies
      BY <1>1 DEF ConfigInv, DocsTyped
<1>4. rename'.original = disk.models /\ rename' # Config!NoRename /\ rename'.from # Config!None
      BY <1>1 DEF Config!NoRename, Config!None, Config!ModelNames
<1>5. DocsTyped' BY <1>1, <1>2, <1>3, <1>4 DEF ConfigInv, DocsTyped
<1>6. DocsWhole' BY <1>1, <1>2, <1>3, <1>4 DEF ConfigInv, DocsWhole
<1>7. ProxiesWhole' BY <1>1, <1>3 DEF ConfigInv, ProxiesWhole
<1>8. QED BY <1>5, <1>6, <1>7 DEF ConfigInv

LEMMA RenameDone ==
    ASSUME ConfigInv, Config!RenameLogged PROVE ConfigInv'
<1>1. /\ rename' = Config!NoRename
      /\ memory' = [memory EXCEPT !.registry = Config!Loaded(disk.models, memory.endpoints)]
      /\ UNCHANGED <<disk, page, excuses>>
      BY DEF Config!RenameLogged
<1>2. memory'.endpoints = memory.endpoints /\ memory'.proxies = memory.proxies
      /\ memory'.registry = Config!Loaded(disk.models, memory.endpoints)
      BY <1>1 DEF ConfigInv, DocsTyped
<1>3. DocsTyped' BY <1>1, <1>2, NoRenameTyped DEF ConfigInv, DocsTyped
<1>4. Routed(memory'.registry, disk.models, memory.endpoints) BY <1>2, LoadedRouted
<1>5. DocsWhole' BY <1>1, <1>2, <1>4 DEF ConfigInv, DocsWhole
<1>6. ProxiesWhole' BY <1>1, <1>2 DEF ConfigInv, ProxiesWhole
<1>7. QED BY <1>3, <1>5, <1>6 DEF ConfigInv

LEMMA RenameTakenBack ==
    ASSUME ConfigInv, Config!RenameFails PROVE ConfigInv'
<1>1. /\ rename # Config!NoRename /\ rename' = Config!NoRename
      /\ disk' = [disk EXCEPT !.models = rename.original]
      /\ excuses' = IF rename.crossed THEN excuses \cup {"memory", "disk"} ELSE excuses
      /\ UNCHANGED <<memory, page>>
      BY DEF Config!RenameFails
<1>2. disk'.models = rename.original /\ disk'.endpoints = disk.endpoints
      /\ disk'.proxies = disk.proxies
      BY <1>1 DEF ConfigInv, DocsTyped
<1>3. DocsTyped' BY <1>1, <1>2, NoRenameTyped DEF ConfigInv, DocsTyped
<1>4. DocsWhole' BY <1>1, <1>2 DEF ConfigInv, DocsWhole, DocsTyped
<1>5. ProxiesWhole' BY <1>1, <1>2 DEF ConfigInv, ProxiesWhole
<1>6. QED BY <1>3, <1>4, <1>5 DEF ConfigInv

LEMMA ModelDeleted ==
    ASSUME ConfigInv, NEW n \in Config!ModelNames, Config!DeleteModel(n) PROVE ConfigInv'
<1> DEFINE rest == [disk.models EXCEPT ![n] = Config!NoModel]
           docs == Config!Pruned(rest, {n})
<1>1. Config!SaveModels(docs) /\ UNCHANGED <<page, excuses>> BY DEF Config!DeleteModel
<1>2. disk.models \in ModelDocs BY DEF ConfigInv, DocsTyped
<1>3. rest \in ModelDocs /\ rest[n] = Config!NoModel
      /\ \A k \in Config!ModelNames \ {n} : rest[k] = disk.models[k]
      BY <1>2, NoModelFormed DEF ModelDocs
<1> HIDE DEF rest
<1>4. docs \in ModelDocs
      /\ \A k \in Config!ModelNames :
            /\ docs[k].type = rest[k].type /\ docs[k].version = rest[k].version
            /\ docs[k].targets = rest[k].targets \ {n}
      BY <1>3, PrunedFormed
<1> HIDE DEF docs
<1>5. ASSUME "disk" \notin excuses PROVE Whole(docs, disk.endpoints)
      <2>1. Whole(disk.models, disk.endpoints) BY <1>5 DEF ConfigInv, DocsWhole
      <2>2. \A k \in Config!ModelNames : rest[k].targets \subseteq Config!ModelNames
            BY <1>3 DEF ModelDocs, ModelDoc
      <2>3. rest[n].targets = {} /\ rest[n].type = Config!None
            BY <1>3 DEF Config!NoModel
      <2>4. QED BY <1>3, <1>4, <2>1, <2>2, <2>3 DEF Whole, Config!None
<1>6. QED BY <1>1, <1>4, <1>5, ModelsSaved DEF docs, rest

LEMMA ModelToggled ==
    ASSUME ConfigInv, NEW n \in Config!ModelNames, Config!Toggle(n) PROVE ConfigInv'
<1> DEFINE docs == [disk.models EXCEPT ![n].disabled = ~ @]
<1>1. /\ disk.models[n] # Config!NoModel
      /\ Config!SaveModels(docs) /\ UNCHANGED <<page, excuses>>
      BY DEF Config!Toggle
<1>2. disk.models \in ModelDocs BY DEF ConfigInv, DocsTyped
<1>3. docs[n] = [disk.models[n] EXCEPT !.disabled = ~ @]
      /\ \A k \in Config!ModelNames \ {n} : docs[k] = disk.models[k]
      BY <1>2 DEF ModelDocs
<1>4. docs[n] \in ModelDoc /\ Formed(docs[n])
      /\ docs[n].type = disk.models[n].type /\ docs[n].version = disk.models[n].version
      /\ docs[n].targets = disk.models[n].targets
      <2>1. disk.models[n] \in ModelDoc /\ Formed(disk.models[n]) BY <1>2 DEF ModelDocs
      <2>2. disk.models[n].type # Config!None BY <1>1, <2>1 DEF Formed
      <2>3. /\ docs[n].type = disk.models[n].type /\ docs[n].version = disk.models[n].version
            /\ docs[n].targets = disk.models[n].targets
            BY <1>3, <2>1 DEF ModelDoc
      <2>5. docs[n] \in ModelDoc
            <3> DEFINE was == disk.models[n]
            <3>1. was \in ModelDoc /\ docs[n] = [was EXCEPT !.disabled = ~ was.disabled]
                  BY <1>3, <2>1
            <3> HIDE DEF was
            <3> DEFINE off == ~ was.disabled
            <3>2. docs[n] = [type |-> was.type, version |-> was.version,
                             targets |-> was.targets, disabled |-> off]
                  BY <3>1 DEF ModelDoc
            <3>3. off \in BOOLEAN OBVIOUS
            <3>4. /\ was.type \in {"concrete", "auto", Config!None}
                  /\ was.version \in Config!KnownVersions \cup {Config!None}
                  /\ was.targets \in SUBSET Config!ModelNames
                  BY <3>1 DEF ModelDoc
            <3> HIDE DEF off
            <3>5. QED BY <3>2, <3>3, <3>4 DEF ModelDoc
      <2>4. QED BY <2>1, <2>2, <2>3, <2>5 DEF Formed
<1>5. docs \in ModelDocs BY <1>2, <1>3, <1>4 DEF ModelDocs
<1> HIDE DEF docs
<1>6. \A k \in Config!ModelNames :
         /\ docs[k].type = disk.models[k].type /\ docs[k].version = disk.models[k].version
         /\ docs[k].targets = disk.models[k].targets
      BY <1>3, <1>4
<1>7. \A k \in Config!ModelNames : docs[k].targets \subseteq Config!ModelNames
      BY <1>5 DEF ModelDocs, ModelDoc
<1>8. Whole(disk.models, disk.endpoints) => Whole(docs, disk.endpoints)
      BY <1>6, <1>7 DEF Whole
<1>9. QED BY <1>1, <1>5, <1>8, ModelsSaved DEF docs, ConfigInv, DocsWhole

\* Endpoints that are changed or added: none goes, and each names a known proxy.
LEMMA EndpointsSaved ==
    ASSUME ConfigInv, NEW docs \in EndpointDocs, Config!SaveEndpoints(docs),
           UNCHANGED <<rename, page, excuses>>,
           \A v \in Config!KnownVersions :
               /\ disk.endpoints[v] # Config!Absent => docs[v] # Config!Absent
               /\ \/ docs[v].proxy = disk.endpoints[v].proxy
                  \/ docs[v].proxy \in Config!KnownProxies
    PROVE  ConfigInv'
<1>1. CASE UNCHANGED <<disk, memory>>
      BY <1>1 DEF ConfigInv, DocsTyped, DocsWhole, ProxiesWhole
<1>2. CASE /\ disk' = [disk EXCEPT !.endpoints = docs]
           /\ memory' = [memory EXCEPT !.endpoints = docs]
      <2>1. disk'.models = disk.models /\ disk'.endpoints = docs /\ disk'.proxies = disk.proxies
            BY <1>2 DEF ConfigInv, DocsTyped
      <2>2. memory'.endpoints = docs /\ memory'.proxies = memory.proxies
            /\ memory'.registry = memory.registry
            BY <1>2 DEF ConfigInv, DocsTyped
      <2>3. DocsTyped' BY <1>2, <2>1, <2>2 DEF ConfigInv, DocsTyped
      <2>4. ASSUME NEW models \in ModelDocs, Whole(models, disk.endpoints)
            PROVE  /\ Whole(models, docs)
                   /\ Routed(memory.registry, models, disk.endpoints)
                        => Routed(memory.registry, models, docs)
            <3>1. \A n \in Config!ModelNames : models[n].type = "concrete" =>
                     /\ models[n].version \in Config!KnownVersions
                     /\ disk.endpoints[models[n].version] # Config!Absent
                     /\ docs[models[n].version] # Config!Absent
                  BY <2>4 DEF ModelDocs, Formed, Whole
            <3>2. Whole(models, docs) BY <2>4, <3>1 DEF Whole
            <3>3. QED BY <3>1, <3>2, RoutedBySame
      <2>5. DocsWhole' BY <2>1, <2>2, <2>4 DEF ConfigInv, DocsTyped, DocsWhole
      <2>6. ProxiesWhole' BY <2>1, <2>2 DEF ConfigInv, ProxiesWhole, Config!KnownProxies
      <2>7. QED BY <2>3, <2>5, <2>6 DEF ConfigInv
<1>3. QED BY <1>1, <1>2 DEF Config!SaveEndpoints

LEMMA EndpointAdded ==
    ASSUME ConfigInv, NEW v \in Config!KnownVersions, NEW f \in Config!Formats,
           NEW p \in Config!KnownProxies, Config!AddEndpoint(v, f, p)
    PROVE  ConfigInv'
<1> DEFINE docs == [disk.endpoints EXCEPT ![v] = Config!Endpoint(f, p, {})]
<1>1. disk.endpoints[v] = Config!Absent /\ Config!SaveEndpoints(docs)
      /\ UNCHANGED <<rename, page, excuses>>
      BY DEF Config!AddEndpoint
<1>2. /\ Config!Endpoint(f, p, {}) \in EndpointDoc
      /\ Config!Endpoint(f, p, {}).format # Config!None /\ Config!Endpoint(f, p, {}).proxy = p
      BY DEF Config!Endpoint, EndpointDoc, Config!Formats, Config!None, Config!KnownProxies,
             ConfigInv, DocsTyped
<1>3. docs \in EndpointDocs /\ docs[v] = Config!Endpoint(f, p, {})
      /\ \A w \in Config!KnownVersions \ {v} : docs[w] = disk.endpoints[w]
      BY <1>2 DEF EndpointDocs, ConfigInv, DocsTyped
<1> HIDE DEF docs
<1>4. QED BY <1>1, <1>2, <1>3, AbsentFormed, EndpointsSaved DEF docs

\* A token that is written as it was read stays the stored one.
LEMMA TokensResolved ==
    ASSUME NEW kept \in SUBSET (Config!Tokens \cup MaskedTokens),
           NEW given \in SUBSET (Config!Tokens \cup MaskedTokens)
    PROVE  Config!Resolved(kept, given) \subseteq Config!Tokens \cup MaskedTokens
BY DEF Config!Resolved

LEMMA EndpointUpdated ==
    ASSUME ConfigInv, NEW v \in Config!KnownVersions, Config!UpdateEndpoint(v) PROVE ConfigInv'
<1> DEFINE kept == disk.endpoints[v]
           Docs(doc) == [disk.endpoints EXCEPT ![v] = doc]
<1>1. kept # Config!Absent /\ UNCHANGED <<rename, page, excuses>>
      BY DEF Config!UpdateEndpoint
<1>2. kept \in EndpointDoc /\ kept.format \in Config!Formats
      BY <1>1 DEF ConfigInv, DocsTyped, EndpointDocs, EndpointDoc
<1>3. ASSUME NEW doc \in EndpointDoc, doc.format \in Config!Formats,
             doc.proxy = kept.proxy \/ doc.proxy \in Config!KnownProxies,
             Config!SaveEndpoints(Docs(doc))
      PROVE  ConfigInv'
      <2>1. doc.format # Config!None BY <1>3 DEF Config!Formats, Config!None
      <2>2. Docs(doc) \in EndpointDocs /\ Docs(doc)[v] = doc
            /\ \A w \in Config!KnownVersions \ {v} : Docs(doc)[w] = disk.endpoints[w]
            BY <2>1 DEF EndpointDocs, ConfigInv, DocsTyped
      <2> HIDE DEF Docs
      <2>3. QED BY <1>1, <1>3, <2>1, <2>2, AbsentFormed, EndpointsSaved
<1>4. CASE \E f \in Config!Formats : Config!SaveEndpoints(Docs([kept EXCEPT !.format = f]))
      <2>1. PICK f \in Config!Formats : Config!SaveEndpoints(Docs([kept EXCEPT !.format = f]))
            BY <1>4
      <2> DEFINE doc == [kept EXCEPT !.format = f]
      <2>2. doc \in EndpointDoc /\ doc.format = f /\ doc.proxy = kept.proxy
            BY <1>2 DEF EndpointDoc
      <2> HIDE DEF doc, Docs
      <2>3. QED BY <1>3, <2>1, <2>2 DEF doc
<1>5. CASE \E p \in Config!KnownProxies :
               Config!SaveEndpoints(Docs([kept EXCEPT !.proxy = p]))
      <2>1. PICK p \in Config!KnownProxies :
                Config!SaveEndpoints(Docs([kept EXCEPT !.proxy = p]))
            BY <1>5
      <2> DEFINE doc == [kept EXCEPT !.proxy = p]
      <2>2. doc \in EndpointDoc /\ doc.format = kept.format /\ doc.proxy = p
            BY <1>2 DEF EndpointDoc, Config!KnownProxies, ConfigInv, DocsTyped
      <2> HIDE DEF doc, Docs
      <2>3. QED BY <1>2, <1>3, <2>1, <2>2 DEF doc
<1>6. CASE \E given \in {page} \cup {{t} : t \in Config!Tokens} :
               Config!SaveEndpoints(Docs([kept EXCEPT !.tokens = Config!Resolved(@, given)]))
      <2>1. PICK given \in {page} \cup {{t} : t \in Config!Tokens} :
                Config!SaveEndpoints(Docs([kept EXCEPT !.tokens = Config!Resolved(@, given)]))
            BY <1>6
      <2> DEFINE doc == [kept EXCEPT !.tokens = Config!Resolved(@, given)]
      <2>2. given \in SUBSET (Config!Tokens \cup MaskedTokens)
            BY <2>1 DEF ConfigInv, DocsTyped
      <2>3. Config!Resolved(kept.tokens, given) \in SUBSET (Config!Tokens \cup MaskedTokens)
            BY <1>2, <2>2, TokensResolved DEF EndpointDoc
      <2>4. doc \in EndpointDoc /\ doc.format = kept.format /\ doc.proxy = kept.proxy
            BY <1>2, <2>3 DEF EndpointDoc
      <2> HIDE DEF doc, Docs
      <2>5. QED BY <1>2, <1>3, <2>1, <2>4 DEF doc
<1>7. QED BY <1>4, <1>5, <1>6 DEF Config!UpdateEndpoint

LEMMA EditorOpened ==
    ASSUME ConfigInv, NEW v \in Config!KnownVersions, Config!OpenEditor(v) PROVE ConfigInv'
<1>1. page' = {Config!Mask(t) : t \in disk.endpoints[v].tokens}
      /\ UNCHANGED <<disk, memory, rename, excuses>>
      BY DEF Config!OpenEditor
<1>2. disk.endpoints[v].tokens \subseteq Config!Tokens \cup MaskedTokens
      BY DEF ConfigInv, DocsTyped, EndpointDocs, EndpointDoc
<1>3. \A t \in Config!Tokens \cup MaskedTokens : Config!Mask(t) \in MaskedTokens
      BY DEF MaskedTokens, Config!Mask, Config!Tokens, Config!Token
<1>4. page' \subseteq MaskedTokens BY <1>1, <1>2, <1>3
<1>5. QED BY <1>1, <1>4 DEF ConfigInv, DocsTyped, DocsWhole, ProxiesWhole

\* Both documents are saved, or the first alone (and stays), or none.
LEMMA EndpointDeleted ==
    ASSUME ConfigInv, NEW v \in Config!KnownVersions, Config!DeleteEndpoint(v) PROVE ConfigInv'
<1> DEFINE gone == {n \in Config!ModelNames : disk.models[n].type = "concrete"
                                              /\ disk.models[n].version = v}
           rest == [n \in Config!ModelNames |->
                       IF n \in gone THEN Config!NoModel ELSE disk.models[n]]
           docs == Config!Pruned(rest, gone)
           eps == [disk.endpoints EXCEPT ![v] = Config!Absent]
           changed == docs # disk.models
<1>1. /\ UNCHANGED page
      /\ \/ /\ disk' = [disk EXCEPT !.endpoints = eps, !.models = docs]
            /\ memory' = [memory EXCEPT
                             !.endpoints = eps,
                             !.registry = IF changed THEN Config!Loaded(docs, eps) ELSE @]
            /\ rename' = Config!Crossed /\ UNCHANGED excuses
         \/ changed /\ disk' = [disk EXCEPT !.endpoints = eps]
            /\ excuses' = excuses \cup {"memory", "disk"} /\ UNCHANGED <<memory, rename>>
         \/ UNCHANGED <<disk, memory, rename, excuses>>
      BY DEF Config!DeleteEndpoint
<1>2. disk.models \in ModelDocs /\ disk.endpoints \in EndpointDocs
      BY DEF ConfigInv, DocsTyped
<1>3. rest \in ModelDocs BY <1>2, NoModelFormed DEF ModelDocs
<1>4. \A n \in Config!ModelNames :
         /\ n \in gone => rest[n].type = Config!None /\ rest[n].targets = {}
         /\ n \notin gone => rest[n] = disk.models[n]
      BY DEF Config!NoModel
<1>5. \A n \in Config!ModelNames : n \in gone <=> disk.models[n].type = "concrete"
                                                  /\ disk.models[n].version = v
      OBVIOUS
<1>6. eps \in EndpointDocs /\ eps[v] = Config!Absent
      /\ \A w \in Config!KnownVersions \ {v} : eps[w] = disk.endpoints[w]
      BY <1>2, AbsentFormed DEF EndpointDocs
<1> HIDE DEF rest, gone, eps
<1>7. docs \in ModelDocs
      /\ \A n \in Config!ModelNames :
            /\ docs[n].type = rest[n].type /\ docs[n].version = rest[n].version
            /\ docs[n].targets = rest[n].targets \ gone
      BY <1>3, PrunedFormed
<1> HIDE DEF docs
<1>8. ASSUME "disk" \notin excuses PROVE Whole(docs, eps)
      <2>1. Whole(disk.models, disk.endpoints) BY <1>8 DEF ConfigInv, DocsWhole
      <2>2. \A n \in Config!ModelNames :
               /\ rest[n].targets \subseteq Config!ModelNames
               /\ disk.models[n].type = "concrete" => disk.models[n].version \in Config!KnownVersions
            BY <1>2, <1>3 DEF ModelDocs, ModelDoc, Formed
      <2>3. ASSUME NEW n \in Config!ModelNames, docs[n].type = "concrete"
            PROVE  eps[docs[n].version] # Config!Absent
            BY <1>4, <1>5, <1>6, <1>7, <2>1, <2>2, <2>3 DEF Whole, Config!None
      <2>4. ASSUME NEW n \in Config!ModelNames, NEW t \in docs[n].targets
            PROVE  docs[t].type = "concrete"
            <3>1. t \in rest[n].targets /\ t \notin gone /\ t \in Config!ModelNames
                  BY <1>7, <2>2, <2>4
            <3>2. n \notin gone /\ t \in disk.models[n].targets BY <1>4, <3>1
            <3>3. disk.models[t].type = "concrete" BY <2>1, <3>2 DEF Whole
            <3>4. QED BY <1>4, <1>7, <3>1, <3>3
      <2>5. QED BY <2>3, <2>4 DEF Whole
<1>9. CASE /\ disk' = [disk EXCEPT !.endpoints = eps, !.models = docs]
           /\ memory' = [memory EXCEPT
                            !.endpoints = eps,
                            !.registry = IF changed THEN Config!Loaded(docs, eps) ELSE @]
           /\ rename' = Config!Crossed /\ UNCHANGED excuses
      <2>1. disk'.models = docs /\ disk'.endpoints = eps /\ disk'.proxies = disk.proxies
            BY <1>9 DEF ConfigInv, DocsTyped
      <2>2. /\ memory'.endpoints = eps /\ memory'.proxies = memory.proxies
            /\ memory'.registry = IF changed THEN Config!Loaded(docs, eps) ELSE memory.registry
            BY <1>9 DEF ConfigInv, DocsTyped
      <2>3. DocsTyped'
            BY <1>1, <1>6, <1>7, <1>9, <2>1, <2>2, CrossedOnce DEF ConfigInv, DocsTyped
      <2>4. ASSUME "disk" \notin excuses, rename' = Config!NoRename
            PROVE  Routed(memory'.registry, docs, eps)
            <3>1. CASE changed BY <2>2, <3>1, LoadedRouted
            <3>2. CASE ~changed
                  <4>1. docs = disk.models /\ memory'.registry = memory.registry
                        BY <2>2, <3>2
                  <4>2. rename = Config!NoRename BY <1>9, <2>4, CrossedOnce DEF ConfigInv
                  <4>3. Routed(memory.registry, docs, disk.endpoints)
                        BY <2>4, <4>1, <4>2 DEF ConfigInv, DocsWhole
                  <4>4. \A n \in Config!ModelNames : docs[n].type = "concrete" =>
                           /\ disk.endpoints[docs[n].version] # Config!Absent
                           /\ eps[docs[n].version] # Config!Absent
                        BY <1>8, <2>4, <4>1 DEF ConfigInv, DocsWhole, Whole
                  <4>5. QED BY <1>7, <4>1, <4>3, <4>4, RoutedBySame
            <3>3. QED BY <3>1, <3>2
      <2>5. rename' = Config!NoRename \/ rename'.crossed
            BY <1>9, CrossedOnce DEF ConfigInv
      <2>6. DocsWhole' BY <1>8, <1>9, <2>1, <2>2, <2>4, <2>5 DEF DocsWhole
      <2>7. ProxiesWhole' BY <1>6, <1>9, <2>1, <2>2, AbsentFormed DEF ConfigInv, ProxiesWhole
      <2>8. QED BY <2>3, <2>6, <2>7 DEF ConfigInv
<1>10. CASE /\ disk' = [disk EXCEPT !.endpoints = eps]
            /\ excuses' = excuses \cup {"memory", "disk"} /\ UNCHANGED <<memory, rename>>
      <2>1. disk'.models = disk.models /\ disk'.endpoints = eps /\ disk'.proxies = disk.proxies
            BY <1>10 DEF ConfigInv, DocsTyped
      <2>2. DocsTyped' BY <1>1, <1>6, <1>10, <2>1 DEF ConfigInv, DocsTyped
      <2>3. DocsWhole' BY <1>10 DEF DocsWhole
      <2>4. ProxiesWhole' BY <1>6, <1>10, <2>1, AbsentFormed DEF ConfigInv, ProxiesWhole
      <2>5. QED BY <2>2, <2>3, <2>4 DEF ConfigInv
<1>11. CASE UNCHANGED <<disk, memory, rename, excuses>>
      BY <1>1, <1>11 DEF ConfigInv, DocsTyped, DocsWhole, ProxiesWhole
<1>12. QED BY <1>1, <1>9, <1>10, <1>11

LEMMA ProxyEdited ==
    ASSUME ConfigInv, NEW p \in Config!Proxies, Config!AddProxy(p) \/ Config!DeleteProxy(p)
    PROVE  ConfigInv'
<1>1. CASE Config!AddProxy(p)
      <2>1. /\ p \notin memory.proxies \cup disk.proxies
            /\ memory' = [memory EXCEPT !.proxies = @ \cup {p}]
            /\ \/ disk' = [disk EXCEPT !.proxies = memory'.proxies] /\ excuses' = excuses
               \/ excuses' = excuses \cup {"proxies"} /\ disk' = disk
            /\ UNCHANGED <<rename, page>>
            BY <1>1 DEF Config!AddProxy
      <2>2. memory'.endpoints = memory.endpoints /\ memory'.registry = memory.registry
            /\ memory'.proxies = memory.proxies \cup {p}
            BY <2>1 DEF ConfigInv, DocsTyped
      <2>3. disk'.endpoints = disk.endpoints /\ disk'.models = disk.models
            /\ (disk'.proxies = memory'.proxies \/ disk'.proxies = disk.proxies)
            /\ ("proxies" \notin excuses' => disk'.proxies = memory'.proxies /\ excuses' = excuses)
            BY <2>1 DEF ConfigInv, DocsTyped
      <2>4. DocsTyped' BY <2>1, <2>2, <2>3 DEF ConfigInv, DocsTyped
      <2>5. DocsWhole' BY <2>1, <2>2, <2>3 DEF ConfigInv, DocsWhole
      <2>6. ProxiesWhole' BY <2>2, <2>3 DEF ConfigInv, ProxiesWhole
      <2>7. QED BY <2>4, <2>5, <2>6 DEF ConfigInv
<1>2. CASE Config!DeleteProxy(p)
      <2>1. /\ Config!Unreferenced(p)
            /\ memory' = [memory EXCEPT !.proxies = @ \ {p}]
            /\ disk' = disk \/ disk' = [disk EXCEPT !.proxies = memory'.proxies]
            /\ UNCHANGED <<rename, page, excuses>>
            BY <1>2 DEF Config!DeleteProxy
      <2>2. memory'.endpoints = memory.endpoints /\ memory'.registry = memory.registry
            /\ memory'.proxies = memory.proxies \ {p}
            BY <2>1 DEF ConfigInv, DocsTyped
      <2>3. disk'.endpoints = disk.endpoints /\ disk'.models = disk.models
            /\ (disk'.proxies = memory'.proxies \/ disk'.proxies = disk.proxies)
            BY <2>1 DEF ConfigInv, DocsTyped
      <2>4. DocsTyped' BY <2>1, <2>2, <2>3 DEF ConfigInv, DocsTyped
      <2>5. DocsWhole' BY <2>1, <2>2, <2>3 DEF ConfigInv, DocsWhole
      <2>6. ProxiesWhole'
            BY <2>1, <2>2, <2>3 DEF ConfigInv, ProxiesWhole, Config!Unreferenced
      <2>7. QED BY <2>4, <2>5, <2>6 DEF ConfigInv
<1>3. QED BY <1>1, <1>2

LEMMA DocsLoaded ==
    ASSUME ConfigInv, Config!Reload \/ Config!Restart PROVE ConfigInv'
<1>1. /\ memory' = [endpoints |-> disk.endpoints, proxies |-> disk.proxies,
                    registry |-> Config!Loaded(disk.models, disk.endpoints)]
      /\ rename' = Config!Crossed \/ rename' = Config!NoRename
      /\ excuses' = excuses \ {"memory"} /\ UNCHANGED <<disk, page>>
      BY DEF Config!Reload, Config!Restart, Config!LoadAll
<1>2. memory'.endpoints = disk.endpoints /\ memory'.proxies = disk.proxies
      /\ memory'.registry = Config!Loaded(disk.models, disk.endpoints)
      BY <1>1
<1>3. /\ rename' = [from |-> rename'.from, original |-> rename'.original,
                    crossed |-> rename'.crossed]
      /\ rename'.original \in ModelDocs /\ rename'.crossed \in BOOLEAN
      /\ rename'.from = Config!None => rename' = Config!NoRename
      /\ rename' = Config!NoRename \/ rename'.crossed
      BY <1>1, CrossedOnce, NoRenameTyped DEF ConfigInv
<1>4. DocsTyped' BY <1>1, <1>2, <1>3 DEF ConfigInv, DocsTyped
<1>5. Routed(memory'.registry, disk.models, disk.endpoints) BY <1>2, LoadedRouted
<1>6. DocsWhole' BY <1>1, <1>2, <1>3, <1>5 DEF ConfigInv, DocsWhole
<1>7. ProxiesWhole' BY <1>1, <1>2 DEF ConfigInv, ProxiesWhole
<1>8. QED BY <1>4, <1>6, <1>7 DEF ConfigInv

LEMMA ConfigInit == ASSUME Config!Init PROVE ConfigInv
<1> DEFINE first == Config!Endpoint("text", Config!None, {Config!Token("t1")})
<1>1. first \in EndpointDoc /\ first.format # Config!None /\ first # Config!Absent
      /\ first.proxy = Config!None
      BY DEF Config!Endpoint, Config!Absent, Config!None, EndpointDoc, Config!Tokens, Config!Formats
<1> HIDE DEF first
<1>2. disk.endpoints = [v \in Config!KnownVersions |-> first] /\ disk.proxies = {}
      /\ disk.models = [a |-> Config!Concrete("v1"), b |-> Config!Concrete("v2"),
                        x |-> Config!Auto({"a", "b"})]
      BY DEF Config!Init, first
<1>3. disk.endpoints \in EndpointDocs BY <1>1, <1>2 DEF EndpointDocs
<1>4. /\ disk.models["a"] = Config!Concrete("v1") /\ disk.models["b"] = Config!Concrete("v2")
      /\ disk.models["x"] = Config!Auto({"a", "b"})
      /\ disk.models = [n \in Config!ModelNames |-> disk.models[n]]
      BY <1>2 DEF Config!ModelNames
<1>5. Config!Concrete("v1") \in Config!Records /\ Config!Concrete("v2") \in Config!Records
      /\ Config!Auto({"a", "b"}) \in Config!Records
      <2>1. {"a", "b"} \in SUBSET Config!ModelNames /\ {"a", "b"} # {}
            BY DEF Config!ModelNames
      <2>2. Config!Auto({"a", "b"}) \in Config!Records BY <2>1, AutoRecord
      <2>3. Config!Concrete("v1") \in Config!Records /\ Config!Concrete("v2") \in Config!Records
            BY DEF Config!Records, Config!KnownVersions
      <2>4. QED BY <2>2, <2>3
<1>6. disk.models \in ModelDocs
      BY <1>4, <1>5, RecordsFormed DEF ModelDocs, Config!ModelNames
<1>7. Whole(disk.models, disk.endpoints)
      BY <1>1, <1>2, <1>4
      DEF Whole, Config!ModelNames, Config!KnownVersions, Config!Concrete, Config!Auto
<1>8. /\ memory = [endpoints |-> disk.endpoints, proxies |-> {},
                   registry |-> Config!Loaded(disk.models, disk.endpoints)]
      /\ rename = Config!NoRename /\ page = {} /\ excuses = {}
      /\ disk = [endpoints |-> disk.endpoints, models |-> disk.models, proxies |-> disk.proxies]
      BY DEF Config!Init
<1>9. Routed(memory.registry, disk.models, disk.endpoints) BY <1>8, LoadedRouted
<1>10. DocsTyped BY <1>2, <1>3, <1>6, <1>8, NoRenameTyped DEF DocsTyped
<1>11. DocsWhole BY <1>7, <1>8, <1>9 DEF DocsWhole
<1>12. ProxiesWhole BY <1>1, <1>2, <1>8 DEF ProxiesWhole
<1>13. QED BY <1>10, <1>11, <1>12 DEF ConfigInv

LEMMA ConfigNext == ASSUME ConfigInv, [Config!Next]_configVars PROVE ConfigInv'
<1>1. CASE UNCHANGED configVars
      BY <1>1 DEF configVars, ConfigInv, DocsTyped, DocsWhole, ProxiesWhole
<1>2. CASE Config!RenameLogged \/ Config!RenameFails BY <1>2, RenameDone, RenameTakenBack
<1>3. CASE Config!Others
      <2>1. ASSUME NEW n \in Config!ModelNames, NEW model \in Config!Records,
                   Config!AddModel(n, model) \/ Config!UpdateModel(n, model)
            PROVE  ConfigInv'
            BY <2>1, ModelAdded, ModelUpdated
      <2>2. ASSUME NEW old \in Config!ModelNames, NEW n \in Config!ModelNames,
                   NEW model \in Config!Records, Config!StartRename(old, n, model)
            PROVE  ConfigInv'
            BY <2>2, RenameStarted
      <2>3. ASSUME NEW n \in Config!ModelNames, Config!DeleteModel(n) \/ Config!Toggle(n)
            PROVE  ConfigInv'
            BY <2>3, ModelDeleted, ModelToggled
      <2>4. ASSUME NEW v \in Config!KnownVersions,
                   Config!OpenEditor(v) \/ Config!UpdateEndpoint(v) \/ Config!DeleteEndpoint(v)
            PROVE  ConfigInv'
            BY <2>4, EditorOpened, EndpointUpdated, EndpointDeleted
      <2>5. ASSUME NEW v \in Config!KnownVersions, NEW f \in Config!Formats,
                   NEW p \in Config!KnownProxies, Config!AddEndpoint(v, f, p)
            PROVE  ConfigInv'
            BY <2>5, EndpointAdded
      <2>6. ASSUME NEW p \in Config!Proxies, Config!AddProxy(p) \/ Config!DeleteProxy(p)
            PROVE  ConfigInv'
            BY <2>6, ProxyEdited
      <2>7. CASE Config!Reload \/ Config!Restart BY <2>7, DocsLoaded
      <2>8. QED BY <1>3, <2>1, <2>2, <2>3, <2>4, <2>5, <2>6, <2>7 DEF Config!Others
<1>4. QED BY <1>1, <1>2, <1>3 DEF Config!Next

\* A formed document is one of the records of the type invariant, enabled or disabled.
LEMMA FormedRecord ==
    ASSUME NEW model \in ModelDoc, Formed(model)
    PROVE  \/ model \in Config!Records \cup {Config!NoModel}
           \/ [model EXCEPT !.disabled = FALSE] \in Config!Records \cup {Config!Auto({})}
<1>0. [model EXCEPT !.disabled = FALSE] =
          [type |-> model.type, version |-> model.version, targets |-> model.targets,
           disabled |-> FALSE]
      <2> DEFINE enabled == [model EXCEPT !.disabled = FALSE]
      <2>1. enabled \in ModelDoc BY DEF ModelDoc
      <2>2. /\ enabled.type = model.type /\ enabled.version = model.version
            /\ enabled.targets = model.targets /\ enabled.disabled = FALSE
            BY DEF ModelDoc
      <2> HIDE DEF enabled
      <2>3. enabled = [type |-> enabled.type, version |-> enabled.version,
                       targets |-> enabled.targets, disabled |-> enabled.disabled]
            BY <2>1 DEF ModelDoc
      <2>4. QED BY <2>2, <2>3 DEF enabled
<1>1. CASE model.type = Config!None BY <1>1 DEF Formed
<1>2. CASE model.type = "concrete"
      <2>1. [model EXCEPT !.disabled = FALSE] = Config!Concrete(model.version)
            BY <1>0, <1>2 DEF Formed, Config!Concrete
      <2>2. QED BY <1>2, <2>1 DEF Formed, Config!Records
<1>3. CASE model.type = "auto"
      <2>1. [model EXCEPT !.disabled = FALSE] = Config!Auto(model.targets)
            BY <1>0, <1>3 DEF Formed, Config!Auto
      <2>2. model.targets \in SUBSET Config!ModelNames BY DEF ModelDoc
      <2>3. CASE model.targets = {} BY <2>1, <2>3
      <2>4. CASE model.targets # {} BY <2>1, <2>2, <2>4, AutoRecord
      <2>5. QED BY <2>3, <2>4
<1>4. QED BY <1>1, <1>2, <1>3 DEF ModelDoc

LEMMA ConfigTyped == ASSUME DocsTyped PROVE Config!TypeOK
<1>1. disk.endpoints \in [Config!KnownVersions -> EndpointDoc]
      BY DEF DocsTyped, EndpointDocs
<1>2. \A n \in Config!ModelNames : disk.models[n] \in ModelDoc /\ Formed(disk.models[n])
      BY DEF DocsTyped, ModelDocs
<1>3. QED BY <1>1, <1>2, FormedRecord DEF Config!TypeOK, DocsTyped, EndpointDoc, MaskedTokens

LEMMA ConfigHolds == MCSpec => []ConfigInv
<1>1. MCInit => ConfigInv BY ConfigInit DEF MCInit
<1>2. [MCNext]_MCVars => [Config!Next]_configVars
      BY DEF MCNext, StreamNext, StoreNext, PageNext, MCVars
<1>3. ConfigInv /\ [MCNext]_MCVars => ConfigInv' BY <1>2, ConfigNext
<1>4. QED BY <1>1, <1>3, PTL DEF MCSpec

\* After any number of edits, failed saves, renames taken back and restarts, no automatic
\* model names what is not a model, no model an endpoint that is gone, and no endpoint a
\* proxy that the file lacks (routes/admin.ts:751, 1326, 1659).
THEOREM ReferencesWholeHolds == MCSpec => []ReferencesWhole
<1>1. ConfigInv => Config!TypeOK BY ConfigTyped DEF ConfigInv
<1>2. ConfigInv => Config!ReferencesWhole
      BY DEF ConfigInv, DocsWhole, Whole, Config!ReferencesWhole
<1>3. ConfigInv => Config!ProxiesKept
      BY DEF ConfigInv, ProxiesWhole, Config!ProxiesKept
<1>4. ConfigInv => ReferencesWhole BY <1>1, <1>2, <1>3 DEF ReferencesWhole
<1>5. QED BY <1>4, ConfigHolds, PTL

\* Whatever was edited, and whichever save failed, the process routes by what is on disk
\* once no rename waits for the log (routes/admin.ts:740).
THEOREM RegistryCurrentHolds == MCSpec => []RegistryCurrent
<1>1. ConfigInv => Config!RegistryCurrent
      BY DEF ConfigInv, DocsWhole, Routed, Config!Loaded, Config!RegistryCurrent
<1>2. ConfigInv => RegistryCurrent BY <1>1 DEF RegistryCurrent
<1>3. QED BY <1>2, ConfigHolds, PTL

(***************************************************************************)
(* Settings: while no update was refused, memory and file are the same,    *)
(* and what is enabled fits their ceiling.                                 *)
(***************************************************************************)
CeilingKept ==
    ~refused =>
        /\ current = file
        /\ \A a \in Autos : autos[a].enabled => autos[a].cap <= current.ceiling
        /\ served = {a \in Autos : autos[a].enabled}

CeilingInv == Ceiling!TypeOK /\ CeilingKept

LEMMA CeilingInit == ASSUME MaxCeiling \in Nat, Ceiling!Init PROVE CeilingInv
<1>1. file \in Ceiling!Settings /\ current = file /\ refused = FALSE
      /\ autos \in [Autos -> [enabled : BOOLEAN, cap : {1}]]
      /\ served = Ceiling!Loaded(autos, current.ceiling)
      BY DEF Ceiling!Init
<1>2. file.ceiling \in 1..MaxCeiling /\ 1 \in 1..MaxCeiling BY <1>1 DEF Ceiling!Settings
<1>3. \A a \in Autos : autos[a].cap = 1 /\ autos[a].enabled \in BOOLEAN BY <1>1
<1>4. autos \in [Autos -> [enabled : BOOLEAN, cap : 1..MaxCeiling]] BY <1>1, <1>2
<1>5. Ceiling!TypeOK BY <1>1, <1>4 DEF Ceiling!TypeOK, Ceiling!Loaded
<1>6. CeilingKept BY <1>1, <1>2, <1>3 DEF CeilingKept, Ceiling!Loaded
<1>7. QED BY <1>5, <1>6 DEF CeilingInv

LEMMA CeilingNext ==
    ASSUME MaxCeiling \in Nat, CeilingInv, [Ceiling!Next]_settingVars PROVE CeilingInv'
<1> USE DEF CeilingInv, CeilingKept, Ceiling!TypeOK
<1>1. CASE Ceiling!PutSettings
      <2>1. PICK values \in Ceiling!Settings :
                /\ values.ceiling # current.ceiling => Ceiling!Blockers(values.ceiling) = {}
                /\ Ceiling!Update(values)
            BY <1>1 DEF Ceiling!PutSettings
      <2>2. autos' = autos /\ served' = served BY <1>1 DEF Ceiling!PutSettings
      <2>3. CASE current' = values /\ file' = values /\ UNCHANGED refused
            <3>1. \A a \in Autos : autos[a].enabled /\ autos[a].cap > values.ceiling
                      => values.ceiling = current.ceiling
                  BY <2>1 DEF Ceiling!Blockers
            <3>2. \A a \in Autos : autos[a].cap \in Nat /\ values.ceiling \in Nat
                                   /\ current.ceiling \in Nat
                  BY DEF Ceiling!Settings
            <3>3. QED BY <2>2, <2>3, <3>1, <3>2
      <2>4. CASE refused' = TRUE /\ file' = file
                 /\ current' \in {current, values, [current EXCEPT !.ceiling = values.ceiling],
                                  [current EXCEPT !.other = values.other]}
            <3>1. current' \in Ceiling!Settings BY <2>4 DEF Ceiling!Settings
            <3>2. QED BY <2>2, <2>4, <3>1
      <2>5. QED BY <2>1, <2>3, <2>4 DEF Ceiling!Update
<1>2. CASE Ceiling!Reload BY <1>2 DEF Ceiling!Reload, Ceiling!Loaded
<1>3. ASSUME NEW docs \in [Autos -> [enabled : BOOLEAN, cap : 1..MaxCeiling]],
             Ceiling!Store(docs),
             \A a \in Autos : docs[a].enabled => \/ docs[a].cap <= current.ceiling
                                                 \/ docs[a] = autos[a]
      PROVE  CeilingInv'
      <2>1. autos' = docs /\ served' = {a \in Autos : docs[a].enabled
                                                     /\ docs[a].cap <= current.ceiling}
            /\ UNCHANGED <<current, file, refused>>
            BY <1>3 DEF Ceiling!Store, Ceiling!Loaded
      <2>2. QED BY <1>3, <2>1
<1>4. CASE Ceiling!SaveAuto
      <2>1. PICK a \in Autos, cap \in 1..current.ceiling, enabled \in BOOLEAN :
                Ceiling!Store([autos EXCEPT ![a] = [enabled |-> enabled, cap |-> cap]])
            BY <1>4 DEF Ceiling!SaveAuto
      <2> DEFINE docs == [autos EXCEPT ![a] = [enabled |-> enabled, cap |-> cap]]
      <2>2. current.ceiling \in 1..MaxCeiling BY DEF Ceiling!Settings
      <2>3. cap \in 1..MaxCeiling /\ cap <= current.ceiling BY <2>2
      <2>4. docs \in [Autos -> [enabled : BOOLEAN, cap : 1..MaxCeiling]] BY <2>3
      <2>5. \A b \in Autos : docs[b].enabled => docs[b].cap <= current.ceiling
                                                \/ docs[b] = autos[b]
            BY <2>3
      <2> HIDE DEF docs
      <2>6. QED BY <1>3, <2>1, <2>4, <2>5 DEF docs
<1>5. CASE Ceiling!ToggleAuto
      <2>1. PICK a \in Autos : (autos[a].enabled \/ Ceiling!Enableable(a))
                               /\ Ceiling!Store([autos EXCEPT ![a].enabled = ~@])
            BY <1>5 DEF Ceiling!ToggleAuto
      <2> DEFINE docs == [autos EXCEPT ![a].enabled = ~@]
      <2>2. docs \in [Autos -> [enabled : BOOLEAN, cap : 1..MaxCeiling]] OBVIOUS
      <2>3. \A b \in Autos : docs[b].enabled => docs[b].cap <= current.ceiling
                                                \/ docs[b] = autos[b]
            BY <2>1 DEF Ceiling!Enableable
      <2> HIDE DEF docs
      <2>4. QED BY <1>3, <2>1, <2>2, <2>3 DEF docs
<1>6. CASE UNCHANGED settingVars BY <1>6 DEF settingVars
<1>7. QED BY <1>1, <1>2, <1>4, <1>5, <1>6 DEF Ceiling!Next

\* What is enabled is served, before and after a restart, however the ceiling and the
\* models were changed, for any ceiling and any models (routes/admin.ts:1726, 806).
THEOREM CeilingHeldHolds == ASSUME MaxCeiling \in Nat PROVE MCSpec => []CeilingHeld
<1>1. MCInit => CeilingInv BY CeilingInit DEF MCInit
<1>2. [MCNext]_MCVars => [Ceiling!Next]_settingVars
      BY DEF MCNext, StreamNext, StoreNext, PageNext, MCVars
<1>3. CeilingInv /\ [MCNext]_MCVars => CeilingInv' BY <1>2, CeilingNext
<1>4. CeilingInv => CeilingHeld
      <2> SUFFICES ASSUME CeilingInv, ~refused
                   PROVE  served = Ceiling!Loaded(autos, file.ceiling)
          BY DEF CeilingInv, CeilingKept, CeilingHeld, Ceiling!CeilingHeld
      <2>1. QED BY DEF CeilingInv, CeilingKept, Ceiling!Loaded
<1>5. QED BY <1>1, <1>3, <1>4, PTL DEF MCSpec

(***************************************************************************)
(* LogStore: the cached statistics.  Every write that changes the rows     *)
(* empties the cache and marks the SELECTs under way, except between the   *)
(* two transactions of PostgreSQL's manageModelUsage(); when the second    *)
(* fails, the days it left are owed until rollups are rebuilt, which       *)
(* empties the cache again.                                                *)
(***************************************************************************)
StatsSettled == owed = {} /\ manage = Log!Done /\ ~overtaken

StatsInv ==
    /\ kind \in {"sqlite", "postgres"}
    /\ kind = "sqlite" => reads = {}
    /\ kind = "sqlite" \/ StatsSettled =>
           /\ \A snapshot \in reads : snapshot = Log!Stats
           /\ cache.at = "value" => cache.value = Log!Stats

\* The statistics are those of the rows alone.
LEMMA SameRows == ASSUME rows' = rows PROVE Log!Stats' = Log!Stats
BY DEF Log!Stats

LEMMA EmptyCache == Log!Empty.at = "empty" BY DEF Log!Empty

\* A writer tells the cache.
LEMMA TellingKeeps ==
    ASSUME StatsInv, Log!Invalidate, kind' = kind PROVE StatsInv'
BY EmptyCache DEF Log!Invalidate, StatsInv, StatsSettled

\* What changes neither the rows nor the cache.
LEMMA LeavingKeeps ==
    ASSUME StatsInv, UNCHANGED <<kind, rows, cache, reads, overtaken>>,
           StatsSettled' => StatsSettled
    PROVE  StatsInv'
BY SameRows DEF StatsInv

LEMMA StatsInit == ASSUME Log!Init PROVE StatsInv
BY EmptyCache DEF Log!Init, StatsInv

LEMMA StatsNext ==
    ASSUME MaxTime \in Nat, DayLength \in Nat \ {0}, StatsInv, [Log!Next]_logVars PROVE StatsInv'
<1>1. CASE Log!Start
      BY <1>1, EmptyCache DEF Log!Start, StatsInv, StatsSettled
<1>2. CASE Log!Tick
      BY <1>2, LeavingKeeps DEF Log!Tick, Log!tableVars, Log!cacheVars, StatsSettled
<1>3. CASE Log!Prune BY <1>3, TellingKeeps DEF Log!Prune
<1>4. ASSUME NEW a \in Models, Log!WriteEnd(a) PROVE StatsInv'
      BY <1>4, TellingKeeps DEF Log!WriteEnd
<1>5. ASSUME NEW from \in Models, NEW to \in Models, Log!RenameModel(from, to) PROVE StatsInv'
      BY <1>5, TellingKeeps DEF Log!RenameModel
<1>6. ASSUME NEW action \in {"move", "delete"}, NEW source \in Models, NEW target \in Models,
             Log!Manage(action, source, target)
      PROVE  StatsInv'
      <2>1. kind' = kind BY <1>6 DEF Log!Manage
      <2>2. CASE Log!Invalidate BY <2>1, <2>2, TellingKeeps
      <2>3. CASE kind = "postgres"
                 /\ manage' = [action |-> action, source |-> source, target |-> target]
            <3>1. manage'.action # Log!Done.action BY <2>3 DEF Log!Done
            <3>2. ~StatsSettled' BY <3>1 DEF StatsSettled, Log!Done
            <3>3. QED BY <2>1, <2>3, <3>2 DEF StatsInv
      <2>4. QED BY <1>6, <2>2, <2>3 DEF Log!Manage
<1>7. CASE Log!ManageRebuilds
      <2>1. UNCHANGED <<kind, rows>> BY <1>7 DEF Log!ManageRebuilds
      <2>2. CASE Log!Invalidate BY <2>1, <2>2, TellingKeeps
      <2>3. CASE owed' = Log!Days /\ UNCHANGED Log!cacheVars
            <3>1. 0 \in Log!Days BY DEF Log!Days
            <3>2. ~StatsSettled' BY <2>3, <3>1 DEF StatsSettled
            <3>3. QED BY <2>1, <2>3, <3>2, LeavingKeeps DEF Log!cacheVars
      <2>4. QED BY <1>7, <2>2, <2>3 DEF Log!ManageRebuilds
<1>8. CASE Log!GetStats
      <2>1. UNCHANGED <<kind, rows, overtaken, manage, owed>>
            BY <1>8 DEF Log!GetStats, Log!tableVars
      <2>2. CASE kind = "sqlite" /\ cache' = [at |-> "value", value |-> Log!Stats]
                 /\ UNCHANGED reads
            BY <2>1, <2>2, SameRows DEF StatsInv
      <2>3. CASE kind = "postgres" /\ reads' = reads \cup {Log!Stats}
                 /\ cache' = [Log!Empty EXCEPT !.at = "pending"]
            <3>1. cache'.at = "pending" BY <2>3 DEF Log!Empty
            <3>2. QED BY <2>1, <2>3, <3>1, SameRows DEF StatsInv, StatsSettled
      <2>4. QED BY <1>8, <2>2, <2>3 DEF Log!GetStats
<1>9. ASSUME NEW snapshot \in reads, Log!StatsRead(snapshot) PROVE StatsInv'
      <2>1. /\ UNCHANGED <<kind, rows, overtaken, manage, owed>> /\ reads' = reads \ {snapshot}
            /\ cache' = [at |-> "value", value |-> snapshot] \/ cache' = Log!Empty
            BY <1>9 DEF Log!StatsRead, Log!tableVars
      <2>2. cache'.at = "value" => cache'.value = snapshot BY <2>1, EmptyCache
      <2>3. QED BY <1>9, <2>1, <2>2, SameRows DEF StatsInv, StatsSettled
<1>10. CASE Log!Expire
       <2>1. /\ UNCHANGED <<kind, rows, reads, manage, owed>> /\ cache' = Log!Empty
             /\ overtaken' = (reads # {} /\ overtaken)
             BY <1>10 DEF Log!Expire, Log!tableVars
       <2>2. QED BY <2>1, SameRows, EmptyCache DEF StatsInv, StatsSettled
<1>11. CASE UNCHANGED logVars
       BY <1>11, LeavingKeeps DEF logVars, StatsSettled
<1>12. QED BY <1>1, <1>2, <1>3, <1>4, <1>5, <1>6, <1>7, <1>8, <1>9, <1>10, <1>11 DEF Log!Next

\* The cached statistics are those of the rows, but on PostgreSQL for a SELECT that a write
\* has overtaken and between the two transactions of manageModelUsage(), for any writes,
\* renames, deletions and restarts (services/logManager.ts:1086).
THEOREM StatsFreshHolds ==
    ASSUME MaxTime \in Nat, DayLength \in Nat \ {0} PROVE MCSpec => []StatsFresh
<1>1. MCInit => StatsInv BY StatsInit DEF MCInit
<1>2. [MCNext]_MCVars => [Log!Next]_logVars
      BY DEF MCNext, StreamNext, StoreNext, PageNext, MCVars
<1>3. StatsInv /\ [MCNext]_MCVars => StatsInv' BY <1>2, StatsNext
<1>4. StatsInv => StatsFresh BY DEF StatsInv, StatsSettled, StatsFresh, Log!StatsFresh
<1>5. QED BY <1>1, <1>3, <1>4, PTL DEF MCSpec

(***************************************************************************)
(* PageLoads: the loads of a list.  While a load is under way one request  *)
(* of it is, and it is the one whose answer is shown; a page that the      *)
(* store has said to exist can only be missing when rows were deleted      *)
(* since, which `shrank` records.                                          *)
(***************************************************************************)
ListBounds == MaxListed \in Nat /\ Limit \in Nat \ {0} /\ MaxLoads \in Nat /\ Filters # {}

ListPages == {"logs", "account", "errors", "status"}
Answers == [filter : Filters \cup {"none"}, from : 0..MaxListed, rows : 0..Limit, total : 0..MaxListed]
Flights == [filter : Filters, from : 0..MaxListed, gen : Nat, step : {1, 2}, answer : Answers]

ListTyped ==
    /\ list \in ListPages /\ count \in 0..MaxListed
    /\ filter \in Filters /\ offset \in 0..MaxListed /\ shown \in Answers
    /\ loading \in BOOLEAN /\ failed \in BOOLEAN /\ shrank \in BOOLEAN
    /\ generation \in 0..MaxLoads /\ flights \subseteq Flights
    /\ \A f \in flights : /\ f.gen \in 1..generation
                          /\ f.answer # Lists!Nothing => /\ f.answer.filter = f.filter
                                                         /\ f.answer.from = f.from

\* The page that begins at `from` is there, or was until rows were deleted.
Within(from, total) == from = 0 \/ from < total \/ shrank

OneUnderWay ==
    list # "status" =>
        /\ loading <=> \E f \in flights : Lists!Mine(f)
        /\ \A f, g \in flights : Lists!Mine(f) /\ Lists!Mine(g) => f = g

Placed(f) ==
    /\ f.answer # Lists!Nothing => f.answer.total <= count \/ shrank
    /\ f.step = 2 => Within(f.from, IF f.answer = Lists!Nothing THEN count ELSE f.answer.total)
    /\ Lists!Guarded => f.filter = filter

FlightsPlaced ==
    /\ list # "status" => \A f \in flights : Lists!Mine(f) => Placed(f)
    /\ list = "status" => offset = 0 /\ \A f \in flights : f.from = 0

SettledTrue ==
    Lists!Settled => /\ Within(shown.from, shown.total)
                     /\ Lists!Guarded => shown.filter = filter

ListInv == ListTyped /\ OneUnderWay /\ FlightsPlaced /\ SettledTrue

LEMMA ListInit == ASSUME ListBounds, Lists!Init PROVE ListInv
<1>1. /\ list \in ListPages /\ count = MaxListed /\ filter = CHOOSE f \in Filters : TRUE
      /\ offset = 0 /\ shown = Lists!Nothing /\ loading = FALSE /\ failed = FALSE
      /\ generation = 0 /\ flights = {} /\ shrank = FALSE
      BY DEF Lists!Init, ListPages
<1>2. filter \in Filters BY <1>1 DEF ListBounds
<1>3. Lists!Nothing \in Answers /\ Lists!Nothing.from = 0
      BY DEF ListBounds, Answers, Lists!Nothing
<1>4. 0 \in 0..MaxLoads /\ 0 \in 0..MaxListed /\ MaxListed \in 0..MaxListed BY DEF ListBounds
<1>5. ListTyped BY <1>1, <1>2, <1>3, <1>4 DEF ListTyped
<1>6. OneUnderWay /\ FlightsPlaced BY <1>1 DEF OneUnderWay, FlightsPlaced
<1>7. SettledTrue BY <1>1 DEF SettledTrue, Lists!Settled
<1>8. QED BY <1>5, <1>6, <1>7 DEF ListInv

LEMMA NothingTyped == ASSUME ListBounds PROVE Lists!Nothing \in Answers
BY DEF ListBounds, Answers, Lists!Nothing

\* What a query answers.
LEMMA PageServed ==
    ASSUME ListBounds, count \in 0..MaxListed, NEW f \in Filters, NEW from \in 0..MaxListed
    PROVE  /\ Lists!Page(f, from) \in Answers
           /\ Lists!Page(f, from).filter = f /\ Lists!Page(f, from).from = from
           /\ Lists!Page(f, from).total = count
<1> DEFINE left == count - from
           size == IF left < 0 THEN 0 ELSE IF left < Limit THEN left ELSE Limit
<1>1. size \in 0..Limit BY DEF ListBounds
<1>2. Lists!Page(f, from) = [filter |-> f, from |-> from, total |-> count, rows |-> size]
      BY DEF Lists!Page
<1> HIDE DEF size
<1>3. QED BY <1>1, <1>2 DEF Answers

\* The last page begins at a row of the list, or the list is empty.
LEMMA LastPageWithin ==
    ASSUME ListBounds, NEW total \in 0..MaxListed
    PROVE  Lists!LastPage(total) \in 0..MaxListed
           /\ (Lists!LastPage(total) = 0 \/ Lists!LastPage(total) < total)
<1>1. CASE total = 0
      <2>1. Lists!LastPage(total) = 0 * Limit BY <1>1 DEF Lists!LastPage
      <2>2. QED BY <2>1 DEF ListBounds
<1>2. CASE total > 0
      <2> DEFINE last == total - 1
                 q == last \div Limit
      <2>1. last \in Nat /\ Limit \in Nat /\ Limit > 0 BY <1>2 DEF ListBounds
      <2> HIDE DEF last
      <2>2. q \in Nat BY <2>1
      <2>3. q * Limit <= last /\ q * Limit >= 0
            <3>1. last = Limit * q + (last % Limit) /\ last % Limit \in 0..(Limit - 1) BY <2>1
            <3>2. last % Limit >= 0 BY <2>1, <3>1
            <3> DEFINE p == Limit * q
            <3>3. p \in Int /\ p = q * Limit /\ p >= 0 BY <2>1, <2>2
            <3> HIDE DEF q, p
            <3>4. QED BY <3>1, <3>2, <3>3, <2>1 DEF p
      <2>4. Lists!LastPage(total) = q * Limit BY <1>2 DEF Lists!LastPage, last
      <2>5. q * Limit \in Int BY <2>1, <2>2
      <2> HIDE DEF q
      <2>6. QED BY <1>2, <2>3, <2>4, <2>5 DEF last, ListBounds
<1>3. QED BY <1>1, <1>2

\* A new load: its request is the only one under way that counts.
LEMMA LoadStarted ==
    ASSUME ListBounds, ListInv, NEW f \in Filters, NEW from \in 0..MaxListed,
           list = "status" => from = 0,
           ~(list = "errors" /\ loading), Lists!Load(f, from),
           list' = list, count' \in 0..MaxListed, filter' = f,
           offset' = offset \/ offset' = 0, shown' = shown
    PROVE  ListInv'
<1>0. PICK new : new = Lists!Flight(f, from, generation + 1, 1) OBVIOUS
<1>1. /\ generation < MaxLoads /\ generation' = generation + 1 /\ flights' = flights \cup {new}
      /\ loading' = TRUE /\ failed' = FALSE /\ shrank' = FALSE
      BY <1>0 DEF Lists!Load
<1>2. generation \in Nat /\ generation + 1 \in 1..MaxLoads /\ generation + 1 \in 0..MaxLoads
      BY <1>1 DEF ListInv, ListTyped, ListBounds
<1>3. /\ new.filter = f /\ new.from = from /\ new.gen = generation + 1 /\ new.step = 1
      /\ new.answer = Lists!Nothing /\ new \in Flights
      BY <1>0, <1>2, NothingTyped DEF Lists!Flight, Flights
<1>4. ListTyped'
      <2>1. flights' \subseteq Flights BY <1>1, <1>3 DEF ListInv, ListTyped
      <2>2. \A g \in flights : g.gen \in 1..(generation + 1)
            BY <1>2 DEF ListInv, ListTyped
      <2>3. generation + 1 \in 1..(generation + 1) BY <1>2
      <2>4. offset' \in 0..MaxListed BY DEF ListInv, ListTyped, ListBounds
      <2>5. \A g \in flights' : g.gen \in 1..generation' BY <1>1, <1>3, <2>2, <2>3
      <2>6. \A g \in flights' : g.answer # Lists!Nothing => g.answer.filter = g.filter
                                                           /\ g.answer.from = g.from
            BY <1>1, <1>3 DEF ListInv, ListTyped
      <2>7. QED BY <1>1, <1>2, <2>1, <2>4, <2>5, <2>6 DEF ListInv, ListTyped, Lists!Nothing
<1>5. ASSUME list # "status", NEW g \in flights PROVE ~Lists!Mine(g)'
      <2>1. CASE list = "errors"
            <3>1. ~loading BY <2>1 DEF ListInv, ListTyped
            <3>2. \A h \in flights : Lists!Mine(h)
                  BY <2>1 DEF Lists!Mine, Lists!Guarded
            <3>3. QED BY <1>5, <3>1, <3>2 DEF ListInv, OneUnderWay
      <2>2. CASE list # "errors"
            <3>1. list \in {"logs", "account"} BY <1>5, <2>2 DEF ListInv, ListTyped, ListPages
            <3>2. g.gen \in 1..generation /\ g.gen # generation + 1
                  BY <1>2, <1>5 DEF ListInv, ListTyped
            <3>3. QED BY <1>1, <3>1, <3>2 DEF Lists!Mine, Lists!Guarded
      <2>3. QED BY <2>1, <2>2
<1>6. Lists!Mine(new)' BY <1>1, <1>3 DEF Lists!Mine
<1>7. OneUnderWay' BY <1>1, <1>5, <1>6 DEF OneUnderWay
<1>8. Placed(new)' BY <1>3 DEF Placed, Lists!Nothing
<1>9. FlightsPlaced' BY <1>1, <1>3, <1>5, <1>8 DEF FlightsPlaced, ListInv
<1>10. SettledTrue' BY <1>1 DEF SettledTrue, Lists!Settled
<1>11. QED BY <1>4, <1>7, <1>9, <1>10 DEF ListInv

\* Nothing is asked or answered, and the list shows what it did.
LEMMA StoreMoves ==
    ASSUME ListInv, UNCHANGED <<list, offset, shown, loading, failed, generation, flights>>,
           filter' \in Filters, Lists!Guarded => filter' = filter, count' \in 0..MaxListed,
           shrank' \in BOOLEAN, shrank => shrank', count' < count => shrank'
    PROVE  ListInv'
<1> USE DEF ListInv
<1>1. ListTyped' BY DEF ListTyped, Lists!Nothing
<1>2. \A f : Lists!Mine(f)' <=> Lists!Mine(f) BY DEF Lists!Mine, Lists!Guarded
<1>3. OneUnderWay' BY <1>2 DEF OneUnderWay
<1>4. ASSUME NEW f \in flights, Placed(f) PROVE Placed(f)'
      <2>1. f.answer.total \in Int /\ count \in Int /\ count' \in Int /\ f.from \in Int
            BY DEF ListTyped, Flights, Answers
      <2>2. Lists!Guarded' <=> Lists!Guarded BY DEF Lists!Guarded
      <2>3. QED BY <1>4, <2>1, <2>2 DEF Placed, Within, Lists!Nothing
<1>5. FlightsPlaced' BY <1>2, <1>4 DEF FlightsPlaced
<1>6. SettledTrue' BY DEF SettledTrue, Lists!Settled, Within, Lists!Guarded
<1>7. QED BY <1>1, <1>3, <1>5, <1>6

\* A request of a load gives way to another of the same load, or to none.
LEMMA FlightReplaced ==
    ASSUME ListBounds, ListInv, NEW f \in flights, NEW g \in Flights,
           g.gen = f.gen, g.answer # Lists!Nothing => g.answer.filter = g.filter
                                                      /\ g.answer.from = g.from,
           list = "status" => g.from = 0,
           list # "status" /\ Lists!Mine(f) => Placed(g),
           flights' = (flights \ {f}) \cup {g},
           UNCHANGED <<list, count, filter, offset, shown, loading, failed, generation, shrank>>
    PROVE  ListInv'
<1> USE DEF ListInv
<1>1. ListTyped'
      <2>1. flights' \subseteq Flights /\ g.gen \in 1..generation BY DEF ListTyped
      <2>2. QED BY <2>1 DEF ListTyped, Lists!Nothing
<1>2. \A h : Lists!Mine(h)' <=> Lists!Mine(h) BY DEF Lists!Mine, Lists!Guarded
<1>3. Lists!Mine(g) <=> Lists!Mine(f) BY DEF Lists!Mine
<1>4. OneUnderWay' BY <1>2, <1>3 DEF OneUnderWay
<1>5. \A h : Placed(h) => Placed(h)' BY DEF Placed, Within, Lists!Nothing, Lists!Guarded
<1>6. FlightsPlaced' BY <1>2, <1>3, <1>5 DEF FlightsPlaced
<1>7. SettledTrue' BY DEF SettledTrue, Lists!Settled, Within, Lists!Guarded
<1>8. QED BY <1>1, <1>4, <1>6, <1>7

LEMMA FlightServed ==
    ASSUME ListBounds, ListInv, NEW f \in flights, Lists!Serve(f) PROVE ListInv'
<1>0. PICK g : g = [f EXCEPT !.answer = Lists!Page(f.filter, f.from)] OBVIOUS
<1>1. f \in Flights /\ count \in 0..MaxListed BY DEF ListInv, ListTyped
<1>2. f.filter \in Filters /\ f.from \in 0..MaxListed /\ f.step \in {1, 2} BY <1>1 DEF Flights
<1>3. /\ Lists!Page(f.filter, f.from) \in Answers
      /\ Lists!Page(f.filter, f.from).filter = f.filter
      /\ Lists!Page(f.filter, f.from).from = f.from
      /\ Lists!Page(f.filter, f.from).total = count
      BY <1>1, <1>2, PageServed
<1>4. /\ g \in Flights /\ g.gen = f.gen /\ g.filter = f.filter /\ g.from = f.from
      /\ g.step = f.step /\ g.answer = Lists!Page(f.filter, f.from)
      BY <1>0, <1>1, <1>3 DEF Flights
<1>5. list = "status" => g.from = 0 BY <1>4 DEF ListInv, FlightsPlaced
<1>6. ASSUME list # "status", Lists!Mine(f) PROVE Placed(g)
      <2>1. Placed(f) /\ f.answer = Lists!Nothing
            BY <1>6 DEF ListInv, FlightsPlaced, Lists!Serve
      <2>2. count \in Int BY <1>1
      <2>3. g.answer.total = count BY <1>3, <1>4
      <2>4. QED BY <1>4, <2>1, <2>2, <2>3 DEF Placed
<1>7. flights' = (flights \ {f}) \cup {g}
      /\ UNCHANGED <<list, count, filter, offset, shown, loading, failed, generation, shrank>>
      BY <1>0 DEF Lists!Serve
<1>8. QED BY <1>3, <1>4, <1>5, <1>6, <1>7, FlightReplaced

LEMMA SteppedBack ==
    ASSUME ListBounds, ListInv, NEW f \in flights, Lists!StepBack(f) PROVE ListInv'
<1> DEFINE last == Lists!LastPage(f.answer.total)
<1>0. PICK g : g = Lists!Flight(filter, last, f.gen, 2) OBVIOUS
<1>1. /\ list # "status" /\ Lists!Mine(f) /\ f.answer # Lists!Nothing
      /\ flights' = (flights \ {f}) \cup {g}
      /\ UNCHANGED <<list, count, filter, offset, shown, loading, failed, generation, shrank>>
      BY <1>0 DEF Lists!StepBack, Lists!PastEnd, Lists!Paged
<1>2. /\ f \in Flights /\ f.answer \in Answers /\ f.answer.total \in 0..MaxListed
      /\ f.gen \in Nat /\ filter \in Filters /\ count \in 0..MaxListed
      BY DEF ListInv, ListTyped, Flights, Answers
<1>3. last \in 0..MaxListed /\ (last = 0 \/ last < f.answer.total) BY <1>2, LastPageWithin
<1> HIDE DEF last
<1>4. /\ g \in Flights /\ g.gen = f.gen /\ g.answer = Lists!Nothing /\ g.from = last
      /\ g.filter = filter /\ g.step = 2
      BY <1>0, <1>2, <1>3, NothingTyped DEF Lists!Flight, Flights
<1>5. f.answer.total <= count \/ shrank BY <1>1 DEF ListInv, FlightsPlaced, Placed
<1>6. last = 0 \/ last < count \/ shrank
      <2>1. last \in Int /\ count \in Int /\ f.answer.total \in Int BY <1>2, <1>3
      <2>2. QED BY <2>1, <1>3, <1>5
<1>7. Placed(g) BY <1>4, <1>6 DEF Placed, Within
<1>8. QED BY <1>1, <1>4, <1>7, FlightReplaced

\* A request of an overtaken load, or the one of a load that ends, is gone.
LEMMA FlightGone ==
    ASSUME ListInv, NEW f \in flights, flights' = flights \ {f},
           UNCHANGED <<list, count, filter, generation, shrank>>,
           offset' \in 0..MaxListed, list = "status" => offset' = 0,
           shown' \in Answers, failed' \in BOOLEAN,
           loading' = FALSE \/ (loading' = loading /\ ~Lists!Mine(f)),
           loading' = FALSE /\ list # "status" => Lists!Mine(f) \/ ~loading,
           SettledTrue'
    PROVE  ListInv'
<1> USE DEF ListInv
<1>1. ListTyped' BY DEF ListTyped, Lists!Nothing
<1>2. \A h : Lists!Mine(h)' <=> Lists!Mine(h) BY DEF Lists!Mine, Lists!Guarded
<1>3. OneUnderWay' BY <1>2 DEF OneUnderWay, ListTyped
<1>4. \A h : Placed(h) => Placed(h)' BY DEF Placed, Within, Lists!Nothing, Lists!Guarded
<1>5. FlightsPlaced' BY <1>2, <1>4 DEF FlightsPlaced
<1>6. QED BY <1>1, <1>3, <1>5

LEMMA FlightShown ==
    ASSUME ListBounds, ListInv, NEW f \in flights, Lists!Show(f) PROVE ListInv'
<1>1. /\ f.answer # Lists!Nothing /\ Lists!Mine(f) /\ ~Lists!PastEnd(f)
      /\ offset' = IF Lists!Paged THEN f.from ELSE 0
      /\ shown' = f.answer /\ loading' = FALSE /\ flights' = flights \ {f}
      /\ UNCHANGED <<list, count, filter, failed, generation, shrank>>
      BY DEF Lists!Show
<1>2. /\ f.from \in 0..MaxListed /\ f.step \in {1, 2} /\ f.answer \in Answers
      /\ f.answer.total \in Int /\ f.answer.from = f.from /\ f.answer.filter = f.filter
      BY <1>1 DEF ListInv, ListTyped, Flights, Answers
<1>3. offset' \in 0..MaxListed /\ (list = "status" => offset' = 0)
      BY <1>1, <1>2 DEF ListBounds, Lists!Paged
<1>4. Within(f.from, f.answer.total)
      <2>1. CASE list = "status" BY <2>1 DEF ListInv, FlightsPlaced, Within
      <2>2. CASE list # "status" /\ f.step = 1
            BY <2>2, <1>1, <1>2 DEF Lists!PastEnd, Lists!Paged, Within
      <2>3. CASE list # "status" /\ f.step = 2
            BY <2>3, <1>1 DEF ListInv, FlightsPlaced, Placed
      <2>4. QED BY <1>2, <2>1, <2>2, <2>3
<1>5. Lists!Guarded => f.filter = filter
      BY <1>1 DEF ListInv, FlightsPlaced, Placed, Lists!Guarded
<1>6. SettledTrue' BY <1>1, <1>2, <1>4, <1>5 DEF SettledTrue, Within, Lists!Guarded
<1>7. QED BY <1>1, <1>2, <1>3, <1>6, FlightGone DEF ListInv, ListTyped

LEMMA FlightDropped ==
    ASSUME ListBounds, ListInv, NEW f \in flights, Lists!Drop(f) \/ Lists!Fail(f) PROVE ListInv'
<1>1. /\ flights' = flights \ {f}
      /\ UNCHANGED <<list, count, filter, offset, shown, generation, shrank>>
      /\ \/ ~Lists!Mine(f) /\ UNCHANGED <<loading, failed>>
         \/ Lists!Mine(f) /\ failed' = TRUE /\ loading' = FALSE
      BY DEF Lists!Drop, Lists!Fail
<1>2. /\ offset' \in 0..MaxListed /\ (list = "status" => offset' = 0)
      /\ shown' \in Answers /\ failed' \in BOOLEAN /\ loading \in BOOLEAN
      BY <1>1 DEF ListInv, ListTyped, FlightsPlaced
<1>3. SettledTrue'
      BY <1>1 DEF ListInv, SettledTrue, Lists!Settled, Within, Lists!Guarded
<1>4. QED BY <1>1, <1>2, <1>3, FlightGone

\* A load that the user or a timer asks for, under way already on the error list or not.
LEMMA LoadAsked ==
    ASSUME ListBounds, ListInv, NEW f \in Filters, NEW from \in 0..MaxListed,
           list = "status" => from = 0, Lists!Load(f, from),
           UNCHANGED <<list, shown>>, count' \in 0..MaxListed, filter' = f,
           offset' = offset \/ offset' = 0
    PROVE  ListInv'
<1>1. CASE ~(list = "errors" /\ loading) BY <1>1, LoadStarted
<1>2. CASE list = "errors" /\ loading
      <2>1. shrank' = (shrank \/ count' < count)
            /\ UNCHANGED <<loading, failed, generation, flights>>
            BY <1>2 DEF Lists!Load
      <2>2. /\ shrank' \in BOOLEAN /\ loading = TRUE
            /\ offset' \in 0..MaxListed
            BY <1>2, <2>1 DEF ListInv, ListTyped, ListBounds
      <2> USE DEF ListInv
      <2>3. ListTyped' BY <2>1, <2>2 DEF ListTyped, Lists!Nothing
      <2>4. \A g : Lists!Mine(g)' <=> Lists!Mine(g)
            BY <1>2, <2>1 DEF Lists!Mine, Lists!Guarded
      <2>5. OneUnderWay' BY <2>1, <2>4 DEF OneUnderWay
      <2>6. ASSUME NEW g \in flights, Placed(g) PROVE Placed(g)'
            <3>1. g.answer.total \in Int /\ count \in Int /\ count' \in Int /\ g.from \in Int
                  BY DEF ListTyped, Flights, Answers
            <3>2. ~Lists!Guarded' BY <1>2 DEF Lists!Guarded
            <3>3. (shrank => shrank') /\ (count' < count => shrank') BY <2>1
            <3>4. shrank' \/ count' >= count BY <3>1, <3>3
            <3>5. g.answer # Lists!Nothing => g.answer.total <= count' \/ shrank'
                  BY <2>6, <3>1, <3>3, <3>4 DEF Placed
            <3>6. g.from < count => g.from < count' \/ shrank' BY <3>1, <3>4
            <3>7. g.step = 2 => Within(g.from, IF g.answer = Lists!Nothing THEN count
                                               ELSE g.answer.total)
                  BY <2>6 DEF Placed
            <3>8. g.step = 2 /\ g.answer = Lists!Nothing
                      => g.from = 0 \/ g.from < count' \/ shrank'
                  BY <3>3, <3>6, <3>7 DEF Within
            <3>9. g.step = 2 /\ g.answer # Lists!Nothing
                      => g.from = 0 \/ g.from < g.answer.total \/ shrank'
                  BY <3>3, <3>7 DEF Within
            <3>10. Lists!Nothing' = Lists!Nothing BY DEF Lists!Nothing
            <3>11. QED BY <3>2, <3>5, <3>8, <3>9, <3>10 DEF Placed, Within
      <2>7. FlightsPlaced' BY <1>2, <2>1, <2>4, <2>6 DEF FlightsPlaced
      <2>8. SettledTrue' BY <2>1, <2>2 DEF SettledTrue, Lists!Settled
      <2>9. QED BY <2>3, <2>5, <2>7, <2>8
<1>3. QED BY <1>1, <1>2

LEMMA ListNext == ASSUME ListBounds, ListInv, [Lists!Next]_listVars PROVE ListInv'
<1>0. /\ list \in ListPages /\ count \in 0..MaxListed /\ filter \in Filters
      /\ offset \in 0..MaxListed /\ 0 \in 0..MaxListed /\ shrank \in BOOLEAN
      /\ (list = "status" => offset = 0)
      BY DEF ListBounds, ListInv, ListTyped, FlightsPlaced
<1>1. ASSUME NEW f \in Filters, Lists!ChangeFilter(f) PROVE ListInv'
      BY <1>0, <1>1, LoadAsked DEF Lists!ChangeFilter
<1>2. CASE Lists!Arrive
      <2>1. count' \in 0..MaxListed /\ ~(count' < count)
            BY <1>0, <1>2 DEF Lists!Arrive, ListBounds
      <2>2. QED BY <1>0, <1>2, <2>1, StoreMoves DEF Lists!Arrive, Lists!listVars
<1>3. CASE Lists!Delete
      <2>1. count' \in 0..MaxListed BY <1>0, <1>3 DEF Lists!Delete, ListBounds
      <2>2. QED BY <1>0, <1>3, <2>1, StoreMoves DEF Lists!Delete
<1>4. CASE Lists!Refresh BY <1>0, <1>4, LoadAsked DEF Lists!Refresh
<1>5. CASE Lists!Turn
      <2>1. PICK to \in {offset - Limit, offset + Limit} :
                to >= 0 /\ to < shown.total /\ Lists!Load(filter, to)
            BY <1>5 DEF Lists!Turn
      <2>2. shown.total \in 0..MaxListed BY DEF ListInv, ListTyped, Answers
      <2>3. to \in 0..MaxListed BY <1>0, <2>1, <2>2 DEF ListBounds
      <2>4. QED BY <1>0, <1>5, <2>1, <2>3, LoadAsked DEF Lists!Turn, Lists!Paged
<1>6. CASE Lists!Clear BY <1>0, <1>6, LoadAsked DEF Lists!Clear
<1>7. ASSUME NEW f \in flights,
             Lists!Serve(f) \/ Lists!StepBack(f) \/ Lists!Show(f) \/ Lists!Drop(f) \/ Lists!Fail(f)
      PROVE  ListInv'
      BY <1>7, FlightServed, SteppedBack, FlightShown, FlightDropped
<1>8. CASE UNCHANGED listVars BY <1>0, <1>8, StoreMoves DEF listVars, ListInv, ListTyped
<1>9. QED BY <1>1, <1>2, <1>3, <1>4, <1>5, <1>6, <1>7, <1>8 DEF Lists!Next

LEMMA ListShown == ASSUME ListBounds, ListInv PROVE Lists!TypeOK /\ Lists!ListsTrue
<1>1. Lists!TypeOK
      <2>1. /\ shown.filter \in Filters \cup {"none"} /\ shown.rows \in 0..Limit
            /\ shown.total \in 0..MaxListed
            BY DEF ListInv, ListTyped, Answers
      <2>2. \A f \in flights : f.filter \in Filters BY DEF ListInv, ListTyped, Flights
      <2>3. QED BY <2>1, <2>2 DEF ListInv, ListTyped, Lists!TypeOK
<1>2. ASSUME Lists!Settled PROVE (Lists!Guarded => Lists!NewestShown)
                                 /\ (shown.from >= shown.total /\ shown.from > 0 => shrank)
      <2>1. shown.from \in Int /\ shown.total \in Int /\ loading = FALSE
            BY <1>2 DEF ListInv, ListTyped, Answers, Lists!Settled
      <2>2. Lists!Guarded => \A f \in flights : ~Lists!Mine(f)
            BY <2>1 DEF ListInv, OneUnderWay, Lists!Guarded
      <2>3. QED BY <1>2, <2>1, <2>2 DEF ListInv, SettledTrue, Within, Lists!NewestShown
<1>3. QED BY <1>1, <1>2 DEF Lists!ListsTrue

(***************************************************************************)
(* RequestHistory: the rows of a request.  It has one end row and one      *)
(* error row at most, written in that order and after its start row; the   *)
(* key has each name at least until the day of a row that carries it.      *)
(***************************************************************************)
HistoryBounds == /\ MaxDay \in Nat /\ MaxActs \in Nat
                 /\ Old \notin LogIds /\ NULL \notin LogIds \cup {Old} \cup Models

Requested == LogIds \cup {Old}
Stages == {"new", "started", "stamped", "named", "failed", "done"}

HistoryTyped ==
    /\ engine \in {"sqlite", "postgres"} /\ opened \in BOOLEAN
    /\ day \in History!Days /\ cut \in History!Days /\ acts \in 0..MaxActs /\ keyName \in KeyNames
    /\ request \in [LogIds -> [at : Stages, model : Models \cup {NULL}, stamp : History!Days,
                               label : KeyNames \cup {NULL}]]
    /\ starts \subseteq [request : LogIds, day : History!Days, model : Models, data : BOOLEAN]
    /\ ends \subseteq [request : Requested, day : History!Days, model : Models,
                       label : KeyNames \cup {NULL}, failed : BOOLEAN]
    /\ errors \in Seq([request : Requested, day : History!Days, model : Models, structured : BOOLEAN]
                      \cup {History!Gone})
    /\ borne \in [KeyNames -> History!Days \cup {-1}]
    /\ toldAt \in [Requested -> History!Days \cup {NULL}]

\* A request on its way has the model it was started for; its time and its name follow.
Underway ==
    \A r \in LogIds :
        /\ request[r].at \in {"started", "stamped", "named", "failed"} => request[r].model \in Models
        /\ request[r].at \in {"stamped", "named"} => request[r].stamp <= day
        /\ request[r].at = "named" => /\ request[r].label \in KeyNames
                                      /\ borne[request[r].label] >= request[r].stamp

NamesBorne ==
    /\ \A n \in KeyNames : borne[n] <= day
    /\ borne[keyName] = day
    /\ \A e \in ends : e.label # NULL => e.label \in KeyNames /\ borne[e.label] >= e.day

\* The rows of a request in the order of its logging.
StartsFirst ==
    \A s \in starts :
        /\ request[s.request].at # "new" /\ s.day <= day
        /\ request[s.request].at \in {"stamped", "named"} => s.day <= request[s.request].stamp
        /\ \A e \in ends : e.request = s.request => s.day <= e.day

EndsOnce ==
    /\ \A e \in ends : e.request \in LogIds => request[e.request].at \in {"failed", "done"}
    /\ \A e, other \in ends : e.request = other.request => e = other

ErrorsTold ==
    /\ \A i \in DOMAIN errors :
          errors[i].request \in LogIds => request[errors[i].request].at = "done"
    /\ \A r \in LogIds : request[r].at # "done" => toldAt[r] = NULL
    /\ \A i, j \in DOMAIN errors :
          errors[i].request = errors[j].request /\ errors[i].request \in Requested => i = j
    /\ \A e \in ends :
          /\ \A i \in DOMAIN errors : errors[i].request = e.request => errors[i].day = toldAt[e.request]
          /\ toldAt[e.request] # NULL => \E i \in DOMAIN errors : errors[i].request = e.request

HistoryInv == HistoryTyped /\ Underway /\ NamesBorne /\ StartsFirst /\ EndsOnce /\ ErrorsTold

ErrorDocs ==
    [request : Requested, day : History!Days, model : Models, structured : BOOLEAN]
        \cup {History!Gone}

LEMMA GoneHas == ASSUME HistoryBounds
                 PROVE  /\ History!Gone.request = NULL /\ History!Gone.day = 0
                        /\ History!Gone.model = NULL /\ NULL \notin Requested
BY DEF HistoryBounds, History!Gone, Requested

\* A row that is not gone has its fields.
LEMMA ErrorHas ==
    ASSUME HistoryBounds, HistoryTyped, NEW i \in DOMAIN errors
    PROVE  /\ errors[i] \in ErrorDocs /\ errors[i].day \in History!Days
           /\ errors[i].request \in Requested \cup {NULL}
           /\ errors[i].request \in Requested <=> errors[i] # History!Gone
<1>1. errors[i] \in ErrorDocs BY ElementIn DEF HistoryTyped, ErrorDocs
<1>2. 0 \in History!Days BY DEF HistoryBounds, History!Days
<1>3. QED BY <1>1, <1>2, GoneHas DEF ErrorDocs

LEMMA HistoryInit ==
    ASSUME HistoryBounds, History!Init, ends = {} \/ \E a \in Models : ends = {History!OldEnd(a)}
    PROVE  HistoryInv
<1> USE DEF HistoryBounds
<1>1. /\ engine \in {"sqlite", "postgres"} /\ opened = FALSE /\ day = 0 /\ keyName \in KeyNames
      /\ request = [r \in LogIds |-> History!New] /\ starts = {} /\ acts = 0 /\ cut = 0
      /\ borne = [n \in KeyNames |-> IF n = keyName THEN 0 ELSE -1]
      BY DEF History!Init
<1>2. 0 \in History!Days /\ 0 \in 0..MaxActs BY DEF History!Days
<1>3. History!New \in [at : Stages, model : Models \cup {NULL}, stamp : History!Days,
                       label : KeyNames \cup {NULL}]
      /\ History!New.at = "new"
      BY <1>2 DEF History!New, Stages
<1>4. request \in [LogIds -> [at : Stages, model : Models \cup {NULL}, stamp : History!Days,
                              label : KeyNames \cup {NULL}]]
      /\ \A r \in LogIds : request[r].at = "new"
      BY <1>1, <1>3
<1>5. borne \in [KeyNames -> History!Days \cup {-1}]
      /\ (\A n \in KeyNames : borne[n] <= 0) /\ borne[keyName] = 0
      BY <1>1, <1>2
<1>6. CASE ends = {} /\ errors = <<>> /\ toldAt = [r \in Requested |-> NULL]
      <2>1. errors \in Seq(ErrorDocs) /\ DOMAIN errors = {} BY <1>6
      <2>2. toldAt \in [Requested -> History!Days \cup {NULL}]
            /\ \A r \in LogIds : toldAt[r] = NULL
            BY <1>6 DEF Requested
      <2>3. HistoryTyped BY <1>1, <1>2, <1>4, <1>5, <1>6, <2>1, <2>2 DEF HistoryTyped, ErrorDocs
      <2>4. Underway BY <1>4 DEF Underway
      <2>5. NamesBorne /\ StartsFirst /\ EndsOnce
            BY <1>1, <1>5, <1>6 DEF NamesBorne, StartsFirst, EndsOnce
      <2>6. ErrorsTold BY <1>6, <2>1, <2>2 DEF ErrorsTold
      <2>7. QED BY <2>3, <2>4, <2>5, <2>6 DEF HistoryInv
<1>7. ASSUME NEW a \in Models, ends = {History!OldEnd(a)},
             errors = <<History!ErrorRow(Old, a, engine = "postgres")>>,
             toldAt = [r \in Requested |-> IF r = Old THEN 0 ELSE NULL]
      PROVE  HistoryInv
      <2>1. /\ History!OldEnd(a) \in [request : Requested, day : History!Days, model : Models,
                                      label : KeyNames \cup {NULL}, failed : BOOLEAN]
            /\ History!OldEnd(a).request = Old /\ History!OldEnd(a).label = NULL
            /\ History!ErrorRow(Old, a, engine = "postgres") \in ErrorDocs
            /\ History!ErrorRow(Old, a, engine = "postgres").request = Old
            /\ History!ErrorRow(Old, a, engine = "postgres").day = 0
            BY <1>1, <1>2 DEF History!OldEnd, History!ErrorRow, Requested, ErrorDocs
      <2>2. /\ errors \in Seq(ErrorDocs) /\ DOMAIN errors = {1}
            /\ errors[1].request = Old /\ errors[1].day = 0
            BY <1>7, <2>1
      <2>3. toldAt \in [Requested -> History!Days \cup {NULL}]
            /\ toldAt[Old] = 0 /\ \A r \in LogIds : toldAt[r] = NULL
            BY <1>2, <1>7 DEF Requested
      <2>4. HistoryTyped BY <1>1, <1>2, <1>4, <1>5, <1>7, <2>1, <2>2, <2>3 DEF HistoryTyped, ErrorDocs
      <2>5. Underway BY <1>4 DEF Underway
      <2>6. NamesBorne /\ StartsFirst /\ EndsOnce
            BY <1>1, <1>5, <1>7, <2>1 DEF NamesBorne, StartsFirst, EndsOnce
      <2>7. ErrorsTold
            <3>1. \A i \in DOMAIN errors : i = 1 /\ errors[i].request \notin LogIds BY <2>2
            <3>2. \A e \in ends : e.request = Old BY <1>7, <2>1
            <3>3. 1 \in DOMAIN errors BY <2>2
            <3>4. \A e \in ends : \A i \in DOMAIN errors : errors[i].day = toldAt[e.request]
                  BY <2>2, <2>3, <3>1, <3>2
            <3>5. \A e \in ends : \E i \in DOMAIN errors : errors[i].request = e.request
                  BY <2>2, <3>2, <3>3
            <3>6. \A i, j \in DOMAIN errors : i = j BY <3>1
            <3>7. QED BY <2>3, <3>1, <3>4, <3>5, <3>6 DEF ErrorsTold
      <2>8. QED BY <2>4, <2>5, <2>6, <2>7 DEF HistoryInv
<1>8. QED
      <2>1. \/ ends = {} /\ errors = <<>> /\ toldAt = [r \in Requested |-> NULL]
            \/ \E a \in Models :
                  /\ ends = {History!OldEnd(a)}
                  /\ errors = <<History!ErrorRow(Old, a, engine = "postgres")>>
                  /\ toldAt = [r \in Requested |-> IF r = Old THEN 0 ELSE NULL]
            BY DEF History!Init, Requested
      <2>2. QED BY <1>6, <1>7, <2>1

\* Rows of errors that keep their requests and their days.
LEMMA ErrorsKept ==
    ASSUME HistoryInv, NEW log \in Seq(ErrorDocs), DOMAIN log = DOMAIN errors,
           \A i \in DOMAIN errors : log[i].request = errors[i].request /\ log[i].day = errors[i].day,
           errors' = log,
           UNCHANGED <<engine, day, keyName, request, starts, ends, acts, cut, borne, toldAt>>,
           opened' \in BOOLEAN
    PROVE  HistoryInv'
<1> USE DEF HistoryInv
<1>1. HistoryTyped' BY DEF HistoryTyped, ErrorDocs, History!Gone, History!Days
<1>2. Underway' /\ NamesBorne' /\ StartsFirst' /\ EndsOnce'
      BY DEF Underway, NamesBorne, StartsFirst, EndsOnce
<1>3. ErrorsTold' BY DEF ErrorsTold
<1>4. QED BY <1>1, <1>2, <1>3

LEMMA Opened == ASSUME HistoryBounds, HistoryInv, History!Open PROVE HistoryInv'
<1>0. PICK log : log = [i \in DOMAIN errors |-> History!Structured(errors[i])] OBVIOUS
<1>1. ASSUME NEW i \in DOMAIN errors
      PROVE  /\ log[i] \in ErrorDocs /\ log[i].request = errors[i].request
             /\ log[i].day = errors[i].day
      <2>1. errors[i] \in ErrorDocs BY <1>1, ErrorHas DEF HistoryInv
      <2>2. log[i] = [errors[i] EXCEPT !.structured = TRUE] BY <1>0, <1>1 DEF History!Structured
      <2>3. CASE errors[i] = History!Gone
            <3> DEFINE Same == [request : {NULL}, day : {0}, model : {NULL}, structured : {TRUE}]
            <3>0. History!Gone \in Same BY DEF History!Gone
            <3>1. [History!Gone EXCEPT !.structured = TRUE] = History!Gone
                  <4>1. [History!Gone EXCEPT !.structured = TRUE] \in Same BY <3>0
                  <4>2. ASSUME NEW x \in Same PROVE x = History!Gone
                        <5>1. x = [request |-> x.request, day |-> x.day, model |-> x.model,
                                   structured |-> x.structured]
                              OBVIOUS
                        <5>2. x.request = NULL /\ x.day = 0 /\ x.model = NULL /\ x.structured = TRUE
                              OBVIOUS
                        <5> HIDE DEF Same
                        <5>3. QED BY <5>1, <5>2 DEF History!Gone
                  <4>3. QED BY <4>1, <4>2
            <3>2. log[i] = errors[i] BY <2>2, <2>3, <3>1
            <3>3. QED BY <2>1, <3>2
      <2>4. CASE errors[i] \in [request : Requested, day : History!Days, model : Models,
                                structured : BOOLEAN]
            BY <2>2, <2>4 DEF ErrorDocs
      <2>5. QED BY <2>1, <2>3, <2>4 DEF ErrorDocs
<1>2. errors \in Seq(ErrorDocs) BY DEF HistoryInv, HistoryTyped, ErrorDocs
<1>3. DOMAIN errors = 1..Len(errors) /\ Len(errors) \in Nat BY <1>2
<1>4. log \in Seq(ErrorDocs) /\ DOMAIN log = DOMAIN errors BY <1>0, <1>1, <1>3
<1>5. QED BY <1>0, <1>1, <1>4, ErrorsKept
             DEF History!Open, History!histVars

LEMMA DayPasses == ASSUME HistoryBounds, HistoryInv, History!Tomorrow PROVE HistoryInv'
<1> USE DEF HistoryInv
<1>1. /\ day < MaxDay /\ day' = day + 1 /\ borne' = [borne EXCEPT ![keyName] = day + 1]
      /\ UNCHANGED <<engine, opened, keyName, request, starts, ends, errors, acts, cut, toldAt>>
      BY DEF History!Tomorrow, History!rowVars
<1>2. day \in Nat /\ day' \in History!Days /\ keyName \in KeyNames
      BY <1>1 DEF HistoryTyped, HistoryBounds, History!Days
<1>3. /\ borne' \in [KeyNames -> History!Days \cup {-1}] /\ borne'[keyName] = day'
      /\ \A n \in KeyNames : borne'[n] >= borne[n] /\ borne'[n] <= day'
      <2>1. \A n \in KeyNames : borne[n] \in Int /\ borne[n] <= day
            BY DEF HistoryTyped, NamesBorne, History!Days
      <2>2. \A n \in KeyNames : borne'[n] = IF n = keyName THEN day + 1 ELSE borne[n]
            BY <1>1 DEF HistoryTyped
      <2>3. QED BY <1>1, <1>2, <2>1, <2>2 DEF HistoryTyped
<1>4. HistoryTyped' BY <1>1, <1>2, <1>3 DEF HistoryTyped, History!Gone, History!Days
<1>5. Underway'
      <2>1. \A r \in LogIds : request[r].stamp \in Int BY DEF HistoryTyped, History!Days
      <2>2. \A n \in KeyNames : borne[n] \in Int /\ borne'[n] \in Int
            BY <1>3 DEF HistoryTyped, History!Days
      <2>3. QED BY <1>1, <1>2, <1>3, <2>1, <2>2 DEF Underway
<1>6. NamesBorne'
      <2>1. \A e \in ends : e.day \in Int BY DEF HistoryTyped, History!Days
      <2>2. \A n \in KeyNames : borne[n] \in Int /\ borne'[n] \in Int
            BY <1>3 DEF HistoryTyped, History!Days
      <2>3. QED BY <1>1, <1>3, <2>1, <2>2 DEF NamesBorne
<1>7. StartsFirst'
      <2>1. \A s \in starts : s.day \in Int BY DEF HistoryTyped, History!Days
      <2>2. QED BY <1>1, <1>2, <2>1 DEF StartsFirst
<1>8. EndsOnce' /\ ErrorsTold' BY <1>1 DEF EndsOnce, ErrorsTold
<1>9. QED BY <1>4, <1>5, <1>6, <1>7, <1>8

LEMMA KeyRenamed == ASSUME HistoryBounds, HistoryInv, History!RenameKey PROVE HistoryInv'
<1> USE DEF HistoryInv
<1>0. PICK name : name = keyName' OBVIOUS
<1>1. /\ name \in KeyNames /\ keyName' = name /\ acts' = acts + 1 /\ acts < MaxActs
      /\ borne' = [borne EXCEPT ![name] = day]
      /\ UNCHANGED <<engine, opened, day, request, starts, ends, errors, cut, toldAt>>
      BY <1>0 DEF History!RenameKey, History!Act, History!rowVars
<1>2. day \in Nat /\ day \in History!Days /\ acts + 1 \in 0..MaxActs
      BY <1>1 DEF HistoryTyped, HistoryBounds, History!Days
<1>3. /\ borne' \in [KeyNames -> History!Days \cup {-1}] /\ borne'[name] = day
      /\ \A n \in KeyNames : borne'[n] >= borne[n] /\ borne'[n] <= day
      <2>1. \A n \in KeyNames : borne[n] \in Int /\ borne[n] <= day
            BY DEF HistoryTyped, NamesBorne, History!Days
      <2>2. \A n \in KeyNames : borne'[n] = IF n = name THEN day ELSE borne[n]
            BY <1>1 DEF HistoryTyped
      <2>3. QED BY <1>1, <1>2, <2>1, <2>2 DEF HistoryTyped
<1>4. HistoryTyped' BY <1>1, <1>2, <1>3 DEF HistoryTyped, History!Gone, History!Days
<1>5. Underway'
      <2>1. \A r \in LogIds : request[r].stamp \in Int BY DEF HistoryTyped, History!Days
      <2>2. \A n \in KeyNames : borne[n] \in Int /\ borne'[n] \in Int
            BY <1>3 DEF HistoryTyped, History!Days
      <2>3. QED BY <1>1, <1>3, <2>1, <2>2 DEF Underway
<1>6. NamesBorne'
      <2>1. \A e \in ends : e.day \in Int BY DEF HistoryTyped, History!Days
      <2>2. \A n \in KeyNames : borne[n] \in Int /\ borne'[n] \in Int
            BY <1>3 DEF HistoryTyped, History!Days
      <2>3. QED BY <1>1, <1>3, <2>1, <2>2 DEF NamesBorne
<1>7. StartsFirst' /\ EndsOnce' /\ ErrorsTold' BY <1>1 DEF StartsFirst, EndsOnce, ErrorsTold
<1>8. QED BY <1>4, <1>5, <1>6, <1>7

LEMMA AppendHas ==
    ASSUME NEW S, NEW s \in Seq(S), NEW e \in S
    PROVE  /\ Append(s, e) \in Seq(S) /\ DOMAIN Append(s, e) = DOMAIN s \cup {Len(s) + 1}
           /\ Append(s, e)[Len(s) + 1] = e /\ \A i \in DOMAIN s : Append(s, e)[i] = s[i]
           /\ Len(s) + 1 \notin DOMAIN s
OBVIOUS

\* What a request starts from, and where its logging ends.
LEMMA NewTyped ==
    ASSUME HistoryBounds
    PROVE  History!New \in [at : Stages, model : Models \cup {NULL}, stamp : History!Days,
                            label : KeyNames \cup {NULL}]
BY DEF HistoryBounds, History!Days, History!New, Stages

\* A request moves on without a row of its own: its time, or its name.
LEMMA RequestMoved ==
    ASSUME HistoryBounds, HistoryInv, NEW r \in LogIds,
           NEW to \in [at : {"stamped", "named"}, model : Models, stamp : History!Days,
                       label : KeyNames \cup {NULL}],
           request[r].at \in {"started", "stamped"}, to.stamp <= day,
           to.at = "named" => to.label = keyName /\ request[r].at = "stamped",
           request[r].at = "stamped" => to.stamp = request[r].stamp,
           request[r].at = "started" => to.stamp = day,
           request' = [request EXCEPT ![r] = to],
           UNCHANGED <<engine, opened, day, keyName, starts, ends, errors, acts, cut, borne, toldAt>>
    PROVE  HistoryInv'
<1> USE DEF HistoryInv
<1>1. /\ request'[r] = to /\ \A q \in LogIds : q # r => request'[q] = request[q]
      /\ request' \in [LogIds -> [at : Stages, model : Models \cup {NULL}, stamp : History!Days,
                                  label : KeyNames \cup {NULL}]]
      BY DEF HistoryTyped, Stages
<1>2. HistoryTyped' BY <1>1 DEF HistoryTyped, History!Gone, History!Days
<1>3. Underway'
      <2>1. to.at = "named" => to.label \in KeyNames /\ borne[to.label] >= to.stamp
            BY DEF HistoryTyped, NamesBorne, History!Days
      <2>2. QED BY <1>1, <2>1 DEF Underway
<1>4. NamesBorne' BY DEF NamesBorne
<1>5. StartsFirst'
      <2>1. \A s \in starts : s.request \in LogIds BY DEF HistoryTyped
      <2>2. \A s \in starts : s.request = r => s.day <= to.stamp
            BY DEF StartsFirst
      <2>3. to.at # "new" OBVIOUS
      <2>4. QED BY <1>1, <2>1, <2>2, <2>3 DEF StartsFirst
<1>6. EndsOnce' /\ ErrorsTold'
      <2>1. request[r].at \notin {"failed", "done"} OBVIOUS
      <2>2. QED BY <1>1, <2>1 DEF EndsOnce, ErrorsTold
<1>7. QED BY <1>2, <1>3, <1>4, <1>5, <1>6

LEMMA Stamped ==
    ASSUME HistoryBounds, HistoryInv, NEW r \in LogIds, History!Stamp(r) PROVE HistoryInv'
<1>0. PICK to : to = [request[r] EXCEPT !.at = "stamped", !.stamp = day] OBVIOUS
<1>1. /\ request[r].at = "started" /\ request' = [request EXCEPT ![r] = to]
      /\ UNCHANGED <<engine, opened, day, keyName, starts, ends, errors, acts, cut, borne, toldAt>>
      BY <1>0 DEF History!Stamp, History!rowVars, History!histVars, HistoryInv, HistoryTyped
<1>2. request[r] \in [at : Stages, model : Models \cup {NULL}, stamp : History!Days,
                      label : KeyNames \cup {NULL}]
      /\ request[r].model \in Models /\ day \in History!Days
      BY <1>1 DEF HistoryInv, HistoryTyped, Underway
<1>3. to \in [at : {"stamped", "named"}, model : Models, stamp : History!Days,
              label : KeyNames \cup {NULL}] /\ to.at = "stamped" /\ to.stamp = day
      BY <1>0, <1>2
<1>4. day <= day BY <1>2 DEF History!Days
<1>5. QED BY <1>1, <1>3, <1>4, RequestMoved

LEMMA Named ==
    ASSUME HistoryBounds, HistoryInv, NEW r \in LogIds, History!Name(r) PROVE HistoryInv'
<1>0. PICK to : to = [request[r] EXCEPT !.at = "named", !.label = keyName] OBVIOUS
<1>1. /\ request[r].at = "stamped" /\ request' = [request EXCEPT ![r] = to]
      /\ UNCHANGED <<engine, opened, day, keyName, starts, ends, errors, acts, cut, borne, toldAt>>
      BY <1>0 DEF History!Name, History!rowVars, History!histVars, HistoryInv, HistoryTyped
<1>2. request[r] \in [at : Stages, model : Models \cup {NULL}, stamp : History!Days,
                      label : KeyNames \cup {NULL}]
      /\ request[r].model \in Models /\ keyName \in KeyNames /\ request[r].stamp <= day
      BY <1>1 DEF HistoryInv, HistoryTyped, Underway
<1>3. /\ to \in [at : {"stamped", "named"}, model : Models, stamp : History!Days,
                 label : KeyNames \cup {NULL}]
      /\ to.label = keyName /\ to.stamp = request[r].stamp
      BY <1>0, <1>2
<1>4. QED BY <1>1, <1>2, <1>3, RequestMoved

LEMMA StartLogged ==
    ASSUME HistoryBounds, HistoryInv, NEW r \in LogIds, History!LogRequestStart(r) PROVE HistoryInv'
<1> USE DEF HistoryInv
<1>1. PICK a \in Models :
          /\ request' = [request EXCEPT ![r] = [History!New EXCEPT !.at = "started", !.model = a]]
          /\ starts' = starts \cup {[request |-> r, day |-> day, model |-> a, data |-> TRUE]}
      BY DEF History!LogRequestStart
<1>2. request[r].at = "new"
      /\ UNCHANGED <<engine, opened, day, keyName, ends, errors, acts, cut, borne, toldAt>>
      BY DEF History!LogRequestStart, History!histVars
<1>3. PICK to : to = [History!New EXCEPT !.at = "started", !.model = a] OBVIOUS
<1>4. PICK s : s = [request |-> r, day |-> day, model |-> a, data |-> TRUE] OBVIOUS
<1>5. to \in [at : Stages, model : Models \cup {NULL}, stamp : History!Days,
              label : KeyNames \cup {NULL}] /\ to.at = "started" /\ to.model = a
      BY <1>3, NewTyped DEF Stages
<1>6. /\ request'[r] = to /\ \A q \in LogIds : q # r => request'[q] = request[q]
      /\ request' \in [LogIds -> [at : Stages, model : Models \cup {NULL}, stamp : History!Days,
                                  label : KeyNames \cup {NULL}]]
      BY <1>1, <1>3, <1>5 DEF HistoryTyped
<1>7. /\ s \in [request : LogIds, day : History!Days, model : Models, data : BOOLEAN]
      /\ s.request = r /\ s.day = day /\ s.day <= day
      <2>1. day \in History!Days /\ day <= day BY DEF HistoryTyped, History!Days
      <2>2. QED BY <1>4, <2>1
<1>8. HistoryTyped'
      <2>1. starts' \subseteq [request : LogIds, day : History!Days, model : Models, data : BOOLEAN]
            BY <1>1, <1>4, <1>7 DEF HistoryTyped
      <2>2. QED BY <1>2, <1>6, <2>1 DEF HistoryTyped, History!Gone, History!Days
<1>9. Underway' BY <1>2, <1>5, <1>6 DEF Underway
<1>10. NamesBorne' BY <1>2 DEF NamesBorne
<1>11. StartsFirst'
       <2>1. \A q \in starts : q.request \in LogIds /\ q.request # r
             BY <1>2 DEF HistoryTyped, StartsFirst
       <2>2. \A e \in ends : e.request # r BY <1>2 DEF EndsOnce
       <2>3. starts' = starts \cup {s} BY <1>1, <1>4
       <2>4. QED BY <1>2, <1>5, <1>6, <1>7, <2>1, <2>2, <2>3 DEF StartsFirst
<1>12. EndsOnce' /\ ErrorsTold' BY <1>2, <1>5, <1>6 DEF EndsOnce, ErrorsTold
<1>13. QED BY <1>8, <1>9, <1>10, <1>11, <1>12

LEMMA EndLogged ==
    ASSUME HistoryBounds, HistoryInv, NEW r \in LogIds, History!LogRequestEnd(r) PROVE HistoryInv'
<1> USE DEF HistoryInv
<1>1. PICK bad \in BOOLEAN :
          /\ ends' = ends \cup {[request |-> r, day |-> request[r].stamp, failed |-> bad,
                                 model |-> request[r].model, label |-> request[r].label]}
          /\ request' = [request EXCEPT ![r] =
                            IF bad THEN [History!New EXCEPT !.at = "failed", !.model = request[r].model]
                                   ELSE [History!New EXCEPT !.at = "done"]]
      BY DEF History!LogRequestEnd
<1>2. request[r].at = "named"
      /\ UNCHANGED <<engine, opened, day, keyName, starts, errors, acts, cut, borne, toldAt>>
      BY DEF History!LogRequestEnd, History!histVars
<1>3. PICK to : to = IF bad THEN [History!New EXCEPT !.at = "failed", !.model = request[r].model]
                            ELSE [History!New EXCEPT !.at = "done"]
      OBVIOUS
<1>4. PICK e : e = [request |-> r, day |-> request[r].stamp, failed |-> bad,
                    model |-> request[r].model, label |-> request[r].label]
      OBVIOUS
<1>5. /\ request[r].model \in Models /\ request[r].stamp \in History!Days
      /\ request[r].label \in KeyNames /\ borne[request[r].label] >= request[r].stamp
      BY <1>2 DEF HistoryTyped, Underway
<1>6. /\ to \in [at : Stages, model : Models \cup {NULL}, stamp : History!Days,
                 label : KeyNames \cup {NULL}]
      /\ to.at \in {"failed", "done"} /\ (to.at = "failed" => to.model \in Models)
      <2>1. CASE bad BY <1>3, <1>5, <2>1, NewTyped DEF Stages
      <2>2. CASE ~bad BY <1>3, <1>5, <2>2, NewTyped DEF Stages
      <2>3. QED BY <2>1, <2>2
<1>7. /\ request'[r] = to /\ \A q \in LogIds : q # r => request'[q] = request[q]
      /\ request' \in [LogIds -> [at : Stages, model : Models \cup {NULL}, stamp : History!Days,
                                  label : KeyNames \cup {NULL}]]
      BY <1>1, <1>3, <1>6 DEF HistoryTyped
<1>8. /\ e \in [request : Requested, day : History!Days, model : Models,
                label : KeyNames \cup {NULL}, failed : BOOLEAN]
      /\ e.request = r /\ e.day = request[r].stamp /\ e.label = request[r].label
      BY <1>4, <1>5 DEF Requested
<1>9. ends' = ends \cup {e} BY <1>1, <1>4
<1>10. \A other \in ends : other.request # r BY <1>2 DEF EndsOnce
<1>11. HistoryTyped'
       <2>1. ends' \subseteq [request : Requested, day : History!Days, model : Models,
                              label : KeyNames \cup {NULL}, failed : BOOLEAN]
             BY <1>8, <1>9 DEF HistoryTyped
       <2>2. QED BY <1>2, <1>7, <2>1 DEF HistoryTyped, History!Gone, History!Days
<1>12. Underway' BY <1>2, <1>6, <1>7 DEF Underway
<1>13. NamesBorne' BY <1>2, <1>5, <1>8, <1>9 DEF NamesBorne
<1>14. StartsFirst'
       <2>1. \A s \in starts : s.request \in LogIds BY DEF HistoryTyped
       <2>2. \A s \in starts : s.request = r => s.day <= e.day BY <1>2, <1>8 DEF StartsFirst
       <2>3. to.at \notin {"new", "stamped", "named"} BY <1>6
       <2>4. QED BY <1>2, <1>7, <1>8, <1>9, <2>1, <2>2, <2>3 DEF StartsFirst
<1>15. EndsOnce'
       <2>1. \A other \in ends' : other.request \in LogIds => request'[other.request].at \in {"failed", "done"}
             BY <1>6, <1>7, <1>8, <1>9 DEF EndsOnce
       <2>2. \A d, other \in ends' : d.request = other.request => d = other
             BY <1>8, <1>9, <1>10 DEF EndsOnce
       <2>3. QED BY <2>1, <2>2 DEF EndsOnce
<1>16. ErrorsTold'
       <2>1. toldAt[r] = NULL BY <1>2 DEF ErrorsTold
       <2>2. \A i \in DOMAIN errors : errors[i].request # r BY <1>2 DEF ErrorsTold
       <2>3. \A i \in DOMAIN errors : errors[i].request \in LogIds
                 => request'[errors[i].request].at = "done"
             BY <1>7, <2>2 DEF ErrorsTold
       <2>4. \A q \in LogIds : request'[q].at # "done" => toldAt[q] = NULL
             BY <1>7, <2>1 DEF ErrorsTold
       <2>5. \A d \in ends' :
                /\ \A i \in DOMAIN errors : errors[i].request = d.request
                                               => errors[i].day = toldAt[d.request]
                /\ toldAt[d.request] # NULL => \E i \in DOMAIN errors : errors[i].request = d.request
             BY <1>8, <1>9, <2>1, <2>2 DEF ErrorsTold
       <2>6. QED BY <1>2, <2>3, <2>4, <2>5 DEF ErrorsTold
<1>17. QED BY <1>11, <1>12, <1>13, <1>14, <1>15, <1>16

LEMMA ErrorLogged ==
    ASSUME HistoryBounds, HistoryInv, NEW r \in LogIds, History!LogError(r) PROVE HistoryInv'
<1> USE DEF HistoryInv
<1>1. /\ request[r].at = "failed"
      /\ request' = [request EXCEPT ![r] = [History!New EXCEPT !.at = "done"]]
      /\ UNCHANGED <<engine, opened, day, keyName, starts, ends, acts, cut, borne>>
      BY DEF History!LogError
<1>2. PICK to : to = [History!New EXCEPT !.at = "done"] OBVIOUS
<1>3. to \in [at : Stages, model : Models \cup {NULL}, stamp : History!Days,
              label : KeyNames \cup {NULL}] /\ to.at = "done"
      BY <1>2 DEF History!New, Stages, History!Days, HistoryBounds
<1>4. /\ request'[r] = to /\ \A q \in LogIds : q # r => request'[q] = request[q]
      /\ request' \in [LogIds -> [at : Stages, model : Models \cup {NULL}, stamp : History!Days,
                                  label : KeyNames \cup {NULL}]]
      BY <1>1, <1>2, <1>3 DEF HistoryTyped
<1>5. Underway' /\ NamesBorne' /\ StartsFirst' /\ EndsOnce'
      <2>1. \A s \in starts : s.request \in LogIds BY DEF HistoryTyped
      <2>2. StartsFirst' BY <1>1, <1>3, <1>4, <2>1 DEF StartsFirst
      <2>3. Underway' /\ NamesBorne' /\ EndsOnce'
            BY <1>1, <1>3, <1>4 DEF Underway, NamesBorne, EndsOnce
      <2>4. QED BY <2>2, <2>3
<1>6. toldAt[r] = NULL /\ \A i \in DOMAIN errors : errors[i].request # r
      BY <1>1 DEF ErrorsTold
<1>7. CASE UNCHANGED <<errors, toldAt>>
      <2>1. HistoryTyped' BY <1>1, <1>4, <1>7 DEF HistoryTyped, History!Gone, History!Days
      <2>2. ErrorsTold' BY <1>1, <1>3, <1>4, <1>6, <1>7 DEF ErrorsTold
      <2>3. QED BY <1>5, <2>1, <2>2
<1>8. CASE errors' = Append(errors, History!ErrorRow(r, request[r].model, TRUE))
           /\ toldAt' = [toldAt EXCEPT ![r] = day]
      <2>1. PICK new : new = History!ErrorRow(r, request[r].model, TRUE) OBVIOUS
      <2>2. /\ request[r].model \in Models /\ day \in History!Days /\ errors \in Seq(ErrorDocs)
            BY <1>1 DEF HistoryTyped, Underway, ErrorDocs
      <2>3. new \in ErrorDocs /\ new.request = r /\ new.day = day
            BY <2>1, <2>2 DEF History!ErrorRow, ErrorDocs, Requested
      <2>4. /\ errors' \in Seq(ErrorDocs) /\ DOMAIN errors' = DOMAIN errors \cup {Len(errors) + 1}
            /\ errors'[Len(errors) + 1] = new /\ \A i \in DOMAIN errors : errors'[i] = errors[i]
            /\ Len(errors) + 1 \notin DOMAIN errors
            <3>1. errors' = Append(errors, new) BY <1>8, <2>1
            <3>2. QED BY <2>2, <2>3, <3>1, AppendHas
      <2>5. /\ toldAt' \in [Requested -> History!Days \cup {NULL}] /\ toldAt'[r] = day
            /\ \A q \in Requested : q # r => toldAt'[q] = toldAt[q]
            BY <1>8, <2>2 DEF HistoryTyped, Requested
      <2>6. HistoryTyped'
            BY <1>1, <1>4, <2>4, <2>5 DEF HistoryTyped, ErrorDocs, History!Gone, History!Days
      <2>7. ErrorsTold'
            <3>1. \A i \in DOMAIN errors' : errors'[i].request \in LogIds
                      => request'[errors'[i].request].at = "done"
                  BY <1>3, <1>4, <1>6, <2>3, <2>4 DEF ErrorsTold
            <3>2. \A q \in LogIds : request'[q].at # "done" => toldAt'[q] = NULL
                  BY <1>3, <1>4, <2>5 DEF ErrorsTold, Requested
            <3>3. \A i, j \in DOMAIN errors' :
                      errors'[i].request = errors'[j].request /\ errors'[i].request \in Requested => i = j
                  BY <1>6, <2>3, <2>4 DEF ErrorsTold
            <3>4. ASSUME NEW e \in ends, NEW i \in DOMAIN errors', errors'[i].request = e.request
                  PROVE  errors'[i].day = toldAt'[e.request]
                  <4>1. e.request \in Requested BY DEF HistoryTyped
                  <4>2. CASE e.request = r
                        <5>1. i = Len(errors) + 1 BY <1>6, <2>4, <3>4, <4>2
                        <5>2. QED BY <2>3, <2>4, <2>5, <4>2, <5>1
                  <4>3. CASE e.request # r
                        <5>1. i \in DOMAIN errors BY <2>3, <2>4, <3>4, <4>3
                        <5>2. QED BY <2>4, <2>5, <3>4, <4>1, <4>3, <5>1 DEF ErrorsTold
                  <4>4. QED BY <4>2, <4>3
            <3>5. ASSUME NEW e \in ends, toldAt'[e.request] # NULL
                  PROVE  \E i \in DOMAIN errors' : errors'[i].request = e.request
                  <4>1. e.request \in Requested BY DEF HistoryTyped
                  <4>2. CASE e.request = r BY <2>3, <2>4, <4>2
                  <4>3. CASE e.request # r
                        <5>1. PICK i \in DOMAIN errors : errors[i].request = e.request
                              BY <2>5, <3>5, <4>1, <4>3 DEF ErrorsTold
                        <5>2. QED BY <2>4, <5>1
                  <4>4. QED BY <4>2, <4>3
            <3>6. QED BY <1>1, <3>1, <3>2, <3>3, <3>4, <3>5 DEF ErrorsTold
      <2>8. QED BY <1>5, <2>6, <2>7
<1>9. QED BY <1>7, <1>8 DEF History!LogError

\* Rows whose models are renamed keep their requests and their days.
LEMMA ModelsRewritten ==
    ASSUME HistoryBounds, HistoryInv, NEW from \in Models, NEW to \in Models,
           NEW log \in Seq(ErrorDocs), DOMAIN log = DOMAIN errors, errors' = log,
           \A i \in DOMAIN errors : log[i].request = errors[i].request /\ log[i].day = errors[i].day,
           ends' = {History!Renamed(e, from, to) : e \in ends},
           starts' \subseteq [request : LogIds, day : History!Days, model : Models, data : BOOLEAN],
           \A s \in starts' : \E q \in starts : q.request = s.request /\ q.day = s.day,
           acts' \in 0..MaxActs,
           UNCHANGED <<engine, opened, day, keyName, request, cut, borne, toldAt>>
    PROVE  HistoryInv'
<1> USE DEF HistoryInv
<1>1. ASSUME NEW e \in ends
      PROVE  /\ History!Renamed(e, from, to) \in [request : Requested, day : History!Days, model : Models,
                                                  label : KeyNames \cup {NULL}, failed : BOOLEAN]
             /\ History!Renamed(e, from, to).request = e.request
             /\ History!Renamed(e, from, to).day = e.day
             /\ History!Renamed(e, from, to).label = e.label
      <2>1. e \in [request : Requested, day : History!Days, model : Models,
                   label : KeyNames \cup {NULL}, failed : BOOLEAN]
            BY DEF HistoryTyped
      <2>2. QED BY <2>1 DEF History!Renamed
<1>2. \A d \in ends' : \E e \in ends :
          /\ d = History!Renamed(e, from, to)
          /\ d.request = e.request /\ d.day = e.day /\ d.label = e.label
      BY <1>1
<1>3. HistoryTyped'
      <2>1. ends' \subseteq [request : Requested, day : History!Days, model : Models,
                             label : KeyNames \cup {NULL}, failed : BOOLEAN]
            BY <1>1, <1>2
      <2>2. QED BY <2>1 DEF HistoryTyped, ErrorDocs, History!Gone, History!Days
<1>4. Underway' BY DEF Underway
<1>5. NamesBorne' BY <1>2 DEF NamesBorne
<1>6. StartsFirst'
      <2>1. ASSUME NEW s \in starts'
            PROVE  /\ request[s.request].at # "new" /\ s.day <= day
                   /\ request[s.request].at \in {"stamped", "named"} => s.day <= request[s.request].stamp
                   /\ \A d \in ends' : d.request = s.request => s.day <= d.day
            <3>1. PICK q \in starts : q.request = s.request /\ q.day = s.day BY <2>1
            <3>2. QED BY <1>2, <3>1 DEF StartsFirst
      <2>2. QED BY <2>1 DEF StartsFirst
<1>7. EndsOnce'
      <2>1. \A d \in ends' : d.request \in LogIds => request'[d.request].at \in {"failed", "done"}
            BY <1>2 DEF EndsOnce
      <2>2. \A d, other \in ends' : d.request = other.request => d = other
            BY <1>2 DEF EndsOnce
      <2>3. QED BY <2>1, <2>2 DEF EndsOnce
<1>8. ErrorsTold' BY <1>2 DEF ErrorsTold
<1>9. QED BY <1>3, <1>4, <1>5, <1>6, <1>7, <1>8

\* Error rows of which some are renamed.
LEMMA ErrorsRenamed ==
    ASSUME HistoryBounds, HistoryInv, NEW from \in Models, NEW to \in Models,
           NEW log, log = [i \in DOMAIN errors |-> log[i]],
           \A i \in DOMAIN errors : log[i] = errors[i] \/ log[i] = History!Renamed(errors[i], from, to)
    PROVE  /\ log \in Seq(ErrorDocs) /\ DOMAIN log = DOMAIN errors
           /\ \A i \in DOMAIN errors : log[i].request = errors[i].request /\ log[i].day = errors[i].day
<1>1. ASSUME NEW i \in DOMAIN errors
      PROVE  /\ log[i] \in ErrorDocs /\ log[i].request = errors[i].request
             /\ log[i].day = errors[i].day
      <2>1. errors[i] \in ErrorDocs BY <1>1, ErrorHas DEF HistoryInv
      <2>2. log[i] = errors[i] \/ log[i] = History!Renamed(errors[i], from, to) BY <1>1
      <2>3. CASE log[i] = errors[i] BY <2>1, <2>3
      <2>4. CASE log[i] = History!Renamed(errors[i], from, to) /\ log[i] # errors[i]
            <3>1. errors[i].model = from /\ log[i] = [errors[i] EXCEPT !.model = to]
                  BY <2>4 DEF History!Renamed
            <3>2. CASE errors[i] \in [request : Requested, day : History!Days, model : Models,
                                      structured : BOOLEAN]
                  BY <3>1, <3>2 DEF ErrorDocs
            <3>3. CASE errors[i] = History!Gone
                  <4>1. NULL \in Models BY <3>1, <3>3, GoneHas
                  <4>2. QED BY <4>1 DEF HistoryBounds
            <3>4. QED BY <2>1, <3>2, <3>3 DEF ErrorDocs
      <2>5. QED BY <2>2, <2>3, <2>4
<1>2. errors \in Seq(ErrorDocs) BY DEF HistoryInv, HistoryTyped, ErrorDocs
<1>3. DOMAIN errors = 1..Len(errors) /\ Len(errors) \in Nat BY <1>2
<1>4. QED BY <1>1, <1>3

\* Rows that are removed: a request's error row and what is told of it go together.
LEMMA RowsRemoved ==
    ASSUME HistoryBounds, HistoryInv,
           starts' \subseteq starts, ends' \subseteq ends,
           NEW log \in Seq(ErrorDocs), DOMAIN log = DOMAIN errors, errors' = log,
           \A i \in DOMAIN errors : log[i] = errors[i] \/ log[i] = History!Gone,
           NEW newly \in [Requested -> History!Days \cup {NULL}], toldAt' = newly,
           \A q \in Requested : newly[q] = toldAt[q] \/ newly[q] = NULL,
           \A e \in ends' : \A i \in DOMAIN errors : errors[i].request = e.request =>
               \/ log[i] = errors[i] /\ newly[e.request] = toldAt[e.request]
               \/ log[i] = History!Gone /\ newly[e.request] = NULL,
           cut' \in History!Days, acts' \in 0..MaxActs,
           UNCHANGED <<engine, opened, day, keyName, request, borne>>
    PROVE  HistoryInv'
<1> USE DEF HistoryInv
<1>1. HistoryTyped' BY DEF HistoryTyped, ErrorDocs, History!Gone, History!Days
<1>2. Underway' /\ NamesBorne' /\ StartsFirst' /\ EndsOnce'
      BY DEF Underway, NamesBorne, StartsFirst, EndsOnce
<1>3. NULL \notin Requested /\ History!Gone.request = NULL BY GoneHas
<1>4. \A i \in DOMAIN log : log[i].request \in Requested => log[i] = errors[i] BY <1>3
<1>5. LogIds \subseteq Requested BY DEF Requested
<1>6. \A e \in ends' : e.request \in Requested /\ e \in ends BY DEF HistoryTyped
<1>7. ErrorsTold'
      <2>1. \A i \in DOMAIN log : log[i].request \in LogIds => request[log[i].request].at = "done"
            BY <1>4, <1>5 DEF ErrorsTold
      <2>2. \A r \in LogIds : request[r].at # "done" => newly[r] = NULL BY <1>5 DEF ErrorsTold
      <2>3. \A i, j \in DOMAIN log :
                log[i].request = log[j].request /\ log[i].request \in Requested => i = j
            BY <1>4 DEF ErrorsTold
      <2>4. ASSUME NEW e \in ends', NEW i \in DOMAIN log, log[i].request = e.request
            PROVE  log[i].day = newly[e.request]
            <3>1. log[i] = errors[i] /\ errors[i].request = e.request BY <1>4, <1>6, <2>4
            <3>2. log[i] # History!Gone BY <1>3, <1>6, <2>4
            <3>3. newly[e.request] = toldAt[e.request] BY <2>4, <3>1, <3>2
            <3>4. QED BY <1>6, <2>4, <3>1, <3>3 DEF ErrorsTold
      <2>5. ASSUME NEW e \in ends', newly[e.request] # NULL
            PROVE  \E i \in DOMAIN log : log[i].request = e.request
            <3>1. toldAt[e.request] # NULL BY <1>6, <2>5
            <3>2. PICK i \in DOMAIN errors : errors[i].request = e.request
                  BY <1>6, <3>1 DEF ErrorsTold
            <3>3. QED BY <2>5, <3>2
      <2>6. QED BY <2>1, <2>2, <2>3, <2>4, <2>5 DEF ErrorsTold
<1>8. QED BY <1>1, <1>2, <1>7

\* The rows of errors of which some are gone.
LEMMA ErrorsRemoved ==
    ASSUME HistoryBounds, HistoryInv, NEW log, log = [i \in DOMAIN errors |-> log[i]],
           \A i \in DOMAIN errors : log[i] = errors[i] \/ log[i] = History!Gone
    PROVE  log \in Seq(ErrorDocs)
<1>1. \A i \in DOMAIN errors : log[i] \in ErrorDocs
      BY ErrorHas DEF HistoryInv, ErrorDocs
<1>2. errors \in Seq(ErrorDocs) BY DEF HistoryInv, HistoryTyped, ErrorDocs
<1>3. DOMAIN errors = 1..Len(errors) /\ Len(errors) \in Nat BY <1>2
<1>4. QED BY <1>1, <1>3

LEMMA ModelRenamed ==
    ASSUME HistoryBounds, HistoryInv, NEW from \in Models, NEW to \in Models,
           History!RenameModel(from, to)
    PROVE  HistoryInv'
<1>0. PICK log : log = [i \in DOMAIN errors |-> History!Renamed(errors[i], from, to)] OBVIOUS
<1>1. /\ errors' = log /\ ends' = {History!Renamed(e, from, to) : e \in ends}
      /\ starts' = {History!RenamedStart(s, from, to) : s \in starts}
      /\ acts < MaxActs /\ acts' = acts + 1
      /\ UNCHANGED <<engine, opened, day, keyName, request, cut, borne, toldAt>>
      BY <1>0 DEF History!RenameModel, History!Act, History!histVars
<1>2. acts' \in 0..MaxActs BY <1>1 DEF HistoryInv, HistoryTyped, HistoryBounds
<1>3. log = [i \in DOMAIN errors |-> log[i]]
      /\ \A i \in DOMAIN errors : log[i] = History!Renamed(errors[i], from, to)
      BY <1>0
<1>4. /\ log \in Seq(ErrorDocs) /\ DOMAIN log = DOMAIN errors
      /\ \A i \in DOMAIN errors : log[i].request = errors[i].request /\ log[i].day = errors[i].day
      BY <1>3, ErrorsRenamed
<1>5. ASSUME NEW s \in starts
      PROVE  /\ History!RenamedStart(s, from, to)
                    \in [request : LogIds, day : History!Days, model : Models, data : BOOLEAN]
             /\ History!RenamedStart(s, from, to).request = s.request
             /\ History!RenamedStart(s, from, to).day = s.day
      <2>1. s \in [request : LogIds, day : History!Days, model : Models, data : BOOLEAN]
            BY DEF HistoryInv, HistoryTyped
      <2>2. QED BY <2>1 DEF History!RenamedStart
<1>6. /\ starts' \subseteq [request : LogIds, day : History!Days, model : Models, data : BOOLEAN]
      /\ \A s \in starts' : \E q \in starts : q.request = s.request /\ q.day = s.day
      BY <1>1, <1>5
<1>7. QED BY <1>1, <1>2, <1>4, <1>6, ModelsRewritten

LEMMA UsageMoved ==
    ASSUME HistoryBounds, HistoryInv, NEW source \in Models, NEW target \in Models,
           History!MoveUsage(source, target)
    PROVE  HistoryInv'
<1>0. PICK log : log = [i \in DOMAIN errors |->
                           IF errors[i].request \in History!Selected(source)
                           THEN History!Renamed(errors[i], source, target) ELSE errors[i]]
      OBVIOUS
<1>1. /\ errors' = log /\ ends' = {History!Renamed(e, source, target) : e \in ends}
      /\ acts < MaxActs /\ acts' = acts + 1
      /\ UNCHANGED <<engine, opened, day, keyName, request, starts, cut, borne, toldAt>>
      BY <1>0 DEF History!MoveUsage, History!Act, History!histVars
<1>2. acts' \in 0..MaxActs BY <1>1 DEF HistoryInv, HistoryTyped, HistoryBounds
<1>3. /\ log \in Seq(ErrorDocs) /\ DOMAIN log = DOMAIN errors
      /\ \A i \in DOMAIN errors : log[i].request = errors[i].request /\ log[i].day = errors[i].day
      <2>1. log = [i \in DOMAIN errors |-> log[i]]
            /\ \A i \in DOMAIN errors : \/ log[i] = errors[i]
                                        \/ log[i] = History!Renamed(errors[i], source, target)
            BY <1>0
      <2>2. QED BY <2>1, ErrorsRenamed
<1>4. starts' \subseteq [request : LogIds, day : History!Days, model : Models, data : BOOLEAN]
      BY <1>1 DEF HistoryInv, HistoryTyped
<1>5. QED BY <1>1, <1>2, <1>3, <1>4, ModelsRewritten

LEMMA UsageDeleted ==
    ASSUME HistoryBounds, HistoryInv, NEW source \in Models, History!DeleteUsage(source)
    PROVE  HistoryInv'
<1>0. PICK log : log = [i \in DOMAIN errors |->
                           IF errors[i].request \in History!Selected(source) THEN History!Gone
                                                                             ELSE errors[i]]
      OBVIOUS
<1>1. /\ errors' = log /\ ends' = {e \in ends : e.model # source}
      /\ acts < MaxActs /\ acts' = acts + 1
      /\ UNCHANGED <<engine, opened, day, keyName, request, starts, cut, borne, toldAt>>
      BY <1>0 DEF History!DeleteUsage, History!Act, History!histVars
<1>2. /\ acts' \in 0..MaxActs /\ cut' \in History!Days
      /\ toldAt \in [Requested -> History!Days \cup {NULL}]
      BY <1>1 DEF HistoryInv, HistoryTyped, HistoryBounds
<1>3. /\ DOMAIN log = DOMAIN errors /\ log = [i \in DOMAIN errors |-> log[i]]
      /\ \A i \in DOMAIN errors : log[i] = errors[i] \/ log[i] = History!Gone
      BY <1>0
<1>4. log \in Seq(ErrorDocs) BY <1>3, ErrorsRemoved
<1>5. ASSUME NEW e \in ends', NEW i \in DOMAIN errors, errors[i].request = e.request
      PROVE  log[i] = errors[i]
      <2>1. e \in ends /\ e.model # source BY <1>1, <1>5
      <2>2. e.request \notin History!Selected(source)
            BY <2>1 DEF HistoryInv, EndsOnce, History!Selected
      <2>3. QED BY <1>0, <1>5, <2>2
<1>6. QED BY <1>1, <1>2, <1>3, <1>4, <1>5, RowsRemoved

LEMMA RequestsPruned ==
    ASSUME HistoryBounds, HistoryInv, NEW cutoff \in 1..day, History!PruneOldRequests(cutoff)
    PROVE  HistoryInv'
<1>0. PICK log : log = [i \in DOMAIN errors |-> IF errors[i].day < cutoff THEN History!Gone
                                                                         ELSE errors[i]]
      OBVIOUS
<1>1. PICK newly : newly = [r \in DOMAIN toldAt |-> IF toldAt[r] # NULL /\ toldAt[r] >= cutoff
                                                    THEN toldAt[r] ELSE NULL]
      OBVIOUS
<1>2. /\ errors' = log /\ ends' = {e \in ends : e.day >= cutoff} /\ toldAt' = newly
      /\ starts' = {s \in starts : ~History!Expired(s, cutoff)}
      /\ acts < MaxActs /\ acts' = acts + 1 /\ cut' = cutoff
      /\ UNCHANGED <<engine, opened, day, keyName, request, borne>>
      BY <1>0, <1>1 DEF History!PruneOldRequests, History!Act
<1>3. /\ acts' \in 0..MaxActs /\ cut' \in History!Days
      /\ toldAt \in [Requested -> History!Days \cup {NULL}]
      BY <1>2 DEF HistoryInv, HistoryTyped, HistoryBounds, History!Days
<1>4. /\ newly \in [Requested -> History!Days \cup {NULL}]
      /\ \A q \in Requested : newly[q] = IF toldAt[q] # NULL /\ toldAt[q] >= cutoff
                                         THEN toldAt[q] ELSE NULL
      BY <1>1, <1>3
<1>5. /\ DOMAIN log = DOMAIN errors /\ log = [i \in DOMAIN errors |-> log[i]]
      /\ \A i \in DOMAIN errors : log[i] = errors[i] \/ log[i] = History!Gone
      BY <1>0
<1>6. log \in Seq(ErrorDocs) BY <1>5, ErrorsRemoved
<1>7. ASSUME NEW e \in ends', NEW i \in DOMAIN errors, errors[i].request = e.request
      PROVE  \/ log[i] = errors[i] /\ newly[e.request] = toldAt[e.request]
             \/ log[i] = History!Gone /\ newly[e.request] = NULL
      <2>1. e \in ends /\ e.request \in Requested BY <1>2 DEF HistoryInv, HistoryTyped
      <2>2. errors[i].day = toldAt[e.request] BY <1>7, <2>1 DEF HistoryInv, ErrorsTold
      <2>3. errors[i].day \in Int /\ cutoff \in Int
            BY ErrorHas DEF HistoryInv, History!Days
      <2>4. CASE errors[i].day < cutoff
            <3>1. log[i] = History!Gone BY <1>0, <2>4
            <3>2. ~(toldAt[e.request] >= cutoff) BY <2>2, <2>3, <2>4
            <3>3. QED BY <1>4, <2>1, <3>1, <3>2
      <2>5. CASE ~(errors[i].day < cutoff)
            <3>1. log[i] = errors[i] BY <1>0, <2>5
            <3>2. toldAt[e.request] >= cutoff BY <2>2, <2>3, <2>5
            <3>3. QED BY <1>4, <2>1, <3>1, <3>2
      <2>6. QED BY <2>4, <2>5
<1>8. QED BY <1>2, <1>3, <1>4, <1>5, <1>6, <1>7, RowsRemoved

LEMMA ErrorsCleared ==
    ASSUME HistoryBounds, HistoryInv, History!ClearErrorLogs PROVE HistoryInv'
<1>0. PICK log : log = [i \in DOMAIN errors |-> History!Gone] OBVIOUS
<1>1. PICK newly : newly = [r \in DOMAIN toldAt |-> NULL] OBVIOUS
<1>2. /\ errors' = log /\ toldAt' = newly /\ acts < MaxActs /\ acts' = acts + 1
      /\ UNCHANGED <<engine, opened, day, keyName, request, starts, ends, cut, borne>>
      BY <1>0, <1>1 DEF History!ClearErrorLogs, History!Act
<1>3. /\ acts' \in 0..MaxActs /\ cut' \in History!Days
      /\ toldAt \in [Requested -> History!Days \cup {NULL}]
      BY <1>2 DEF HistoryInv, HistoryTyped, HistoryBounds
<1>4. /\ newly \in [Requested -> History!Days \cup {NULL}] /\ \A q \in Requested : newly[q] = NULL
      BY <1>1, <1>3
<1>5. /\ DOMAIN log = DOMAIN errors /\ log = [i \in DOMAIN errors |-> log[i]]
      /\ \A i \in DOMAIN errors : log[i] = History!Gone
      BY <1>0
<1>6. log \in Seq(ErrorDocs) BY <1>5, ErrorsRemoved
<1>7. \A e \in ends' : e.request \in Requested BY <1>2 DEF HistoryInv, HistoryTyped
<1>8. QED BY <1>2, <1>3, <1>4, <1>5, <1>6, <1>7, RowsRemoved

LEMMA HistoryNext ==
    ASSUME HistoryBounds, HistoryInv, [History!Next]_historyVars PROVE HistoryInv'
<1>1. CASE UNCHANGED historyVars
      BY <1>1 DEF historyVars, HistoryInv, HistoryTyped, Underway, NamesBorne, StartsFirst, EndsOnce,
                  ErrorsTold, History!Gone, History!Days
<1>2. ASSUME NEW r \in LogIds,
             \/ History!LogRequestStart(r) \/ History!Stamp(r) \/ History!Name(r)
             \/ History!LogRequestEnd(r) \/ History!LogError(r)
      PROVE  HistoryInv'
      BY <1>2, StartLogged, Stamped, Named, EndLogged, ErrorLogged
<1>3. ASSUME NEW from \in Models, NEW to \in Models,
             History!RenameModel(from, to) \/ History!MoveUsage(from, to)
      PROVE  HistoryInv'
      BY <1>3, ModelRenamed, UsageMoved
<1>4. QED BY <1>1, <1>2, <1>3, Opened, DayPasses, KeyRenamed, ErrorsCleared, UsageDeleted,
             RequestsPruned DEF History!Next

LEMMA HistoryRead ==
    ASSUME HistoryBounds, HistoryInv
    PROVE  History!TypeOK /\ History!MenusTrue /\ History!RelatedTrue
<1> USE DEF HistoryInv
<1>1. History!TypeOK
      <2>1. \A e \in History!ErrorRows(errors) : e.request \in LogIds \cup {Old} /\ e.model \in Models
            <3>1. ASSUME NEW i \in DOMAIN errors, errors[i] # History!Gone
                  PROVE  errors[i].request \in Requested /\ errors[i].model \in Models
                  BY <3>1, ErrorHas DEF ErrorDocs
            <3>2. QED BY <3>1 DEF History!ErrorRows, Requested
      <2>2. \A r \in LogIds : request[r].at \in Stages BY DEF HistoryTyped
      <2>3. /\ \A s \in starts : s.request \in LogIds /\ s.model \in Models /\ s.data \in BOOLEAN
            /\ \A e \in ends : e.request \in LogIds \cup {Old} /\ e.model \in Models
            BY DEF HistoryTyped, Requested
      <2>4. \A n \in KeyNames : borne[n] \in History!Days \cup {-1} BY DEF HistoryTyped
      <2>5. QED BY <2>1, <2>2, <2>3, <2>4 DEF HistoryTyped, Stages, History!TypeOK
<1>2. History!MenusTrue
      <2>1. \A e \in History!KeyLabels : borne[e.label] >= e.day
            BY DEF NamesBorne, History!KeyLabels, History!Keyed
      <2>2. History!Search(NULL) = ends BY DEF History!Search
      <2>3. \A a \in History!ModelMenu : History!Search(a) # {}
            BY DEF History!ModelMenu, History!Search
      <2>4. QED BY <2>1, <2>2, <2>3 DEF History!MenusTrue, History!ModelMenu
<1>3. ASSUME NEW e \in ends PROVE History!Related(e.request) = toldAt[e.request]
      <2> DEFINE found == {i \in DOMAIN errors : errors[i].request = e.request}
      <2>1. e.request \in Requested BY DEF HistoryTyped
      <2>2. CASE found = {}
            <3>1. toldAt[e.request] = NULL BY <2>2 DEF ErrorsTold
            <3>2. QED BY <2>2, <3>1 DEF History!Related
      <2>3. CASE found # {}
            <3>1. PICK i \in DOMAIN errors : errors[i].request = e.request BY <2>3
            <3>2. \A j \in found : j = i BY <2>1, <3>1 DEF ErrorsTold
            <3>3. i \in found /\ i \in Int BY <3>1 DEF HistoryTyped
            <3>4. History!Max(found) = i BY <3>2, <3>3 DEF History!Max
            <3>5. History!Related(e.request) = errors[i].day BY <2>3, <3>4 DEF History!Related
            <3>6. QED BY <3>1, <3>5 DEF ErrorsTold
      <2>4. QED BY <2>2, <2>3
<1>4. QED BY <1>1, <1>2, <1>3 DEF History!RelatedTrue

\* Only pruning moves the midnight, and it takes what lies before.
LEMMA PrunedBefore ==
    ASSUME HistoryBounds, HistoryInv, [History!Next]_historyVars PROVE History!RetentionStep
<1> USE DEF HistoryInv
<1>1. SUFFICES ASSUME cut' # cut PROVE History!RetentionStep BY DEF History!RetentionStep
<1>2. PICK cutoff \in 1..day : History!PruneOldRequests(cutoff)
      BY <1>1 DEF historyVars, History!Next, History!Open, History!Tomorrow, History!LogRequestStart,
                  History!Stamp, History!Name, History!LogRequestEnd, History!LogError,
                  History!RenameKey, History!ClearErrorLogs, History!RenameModel, History!MoveUsage,
                  History!DeleteUsage, History!histVars
<1>3. /\ cut' = cutoff /\ starts' = {s \in starts : ~History!Expired(s, cutoff)}
      /\ ends' = {e \in ends : e.day >= cutoff}
      /\ errors' = [i \in DOMAIN errors |-> IF errors[i].day < cutoff THEN History!Gone ELSE errors[i]]
      BY <1>2 DEF History!PruneOldRequests
<1>4. /\ \A s \in starts : s.day \in Int /\ s.request \in LogIds
      /\ \A e \in ends : e.day \in Int
      /\ \A i \in DOMAIN errors : errors[i].day \in Int
      /\ cutoff \in Int
      BY ErrorHas DEF HistoryTyped, History!Days
<1>5. \A s \in starts' : s.day >= cutoff \/ ~s.data BY <1>3, <1>4 DEF History!Expired
<1>6. \A e \in ends' : e.day >= cutoff BY <1>3
<1>7. \A e \in ends \ ends' : e.day < cutoff BY <1>3, <1>4
<1>8. ASSUME NEW s \in starts \ starts' PROVE s.day < cutoff
      <2>1. CASE s.day < cutoff BY <2>1
      <2>2. ASSUME NEW e \in ends, e.day < cutoff, e.request = s.request PROVE s.day < cutoff
            <3>1. s.day <= e.day BY <1>8, <2>2 DEF StartsFirst
            <3>2. QED BY <1>4, <2>2, <3>1
      <2>3. QED BY <1>3, <2>1, <2>2 DEF History!Expired
<1>9. ASSUME NEW e \in History!ErrorRows(errors') PROVE e.day >= cutoff
      <2>1. PICK i \in DOMAIN errors' : e = errors'[i] /\ e # History!Gone
            BY DEF History!ErrorRows
      <2>2. i \in DOMAIN errors /\ ~(errors[i].day < cutoff) /\ e = errors[i] BY <1>3, <2>1
      <2>3. QED BY <1>4, <2>2
<1>10. ASSUME NEW e \in History!ErrorRows(errors) \ History!ErrorRows(errors') PROVE e.day < cutoff
       <2>1. PICK i \in DOMAIN errors : e = errors[i] /\ e # History!Gone
             BY DEF History!ErrorRows
       <2>2. CASE ~(errors[i].day < cutoff)
             <3>1. i \in DOMAIN errors' /\ errors'[i] = e BY <1>3, <2>1, <2>2
             <3>2. e \in History!ErrorRows(errors') BY <2>1, <3>1 DEF History!ErrorRows
             <3>3. QED BY <3>2
       <2>3. QED BY <2>1, <2>2
<1>11. QED BY <1>3, <1>5, <1>6, <1>7, <1>8, <1>9, <1>10 DEF History!RetentionStep

LEMMA HistoryHolds == ASSUME HistoryBounds PROVE MCSpec => []HistoryInv
<1>1. MCInit => HistoryInv
      <2> SUFFICES ASSUME MCInit PROVE HistoryInv OBVIOUS
      <2>1. History!Init BY DEF MCInit
      <2>2. ends = {} \/ \E a \in Models : ends = {History!OldEnd(a)}
            BY <2>1 DEF MCInit, FirstHistory, History!Init
      <2>3. QED BY <2>1, <2>2, HistoryInit
<1>2. [MCNext]_MCVars => [History!Next]_historyVars
      BY DEF MCNext, StreamNext, StoreNext, PageNext, MCVars
<1>3. HistoryInv /\ [MCNext]_MCVars => HistoryInv' BY <1>2, HistoryNext
<1>4. QED BY <1>1, <1>3, PTL DEF MCSpec

\* A settled list shows the rows its controls name, and a failed load nothing; the menus of
\* the request log name what it holds, and a failed request's detail shows its error
\* (frontend/src/admin/pages/LogsPage.svelte:63, services/logManager.ts:1269, 1306).
THEOREM ListsTrueHolds == ASSUME ListBounds, HistoryBounds PROVE MCSpec => []ListsTrue
<1>1. MCInit => ListInv BY ListInit DEF MCInit
<1>2. [MCNext]_MCVars => [Lists!Next]_listVars
      BY DEF MCNext, StreamNext, StoreNext, PageNext, MCVars
<1>3. ListInv /\ [MCNext]_MCVars => ListInv' BY <1>2, ListNext
<1>4. ListInv /\ HistoryInv => ListsTrue BY ListShown, HistoryRead DEF ListsTrue
<1>5. QED BY <1>1, <1>3, <1>4, HistoryHolds, PTL DEF MCSpec

\* Retention takes of each kind of row what lies before its midnight and nothing else, but on
\* PostgreSQL for the start rows whose data a rename has taken (services/logManager.ts:2120).
THEOREM RetentionHolds ==
    ASSUME HistoryBounds PROVE MCSpec => [][component = "history" => History!RetentionStep]_historyVars
<1>1. HistoryInv /\ [MCNext]_MCVars
          => [component = "history" => History!RetentionStep]_historyVars
      <2>1. [MCNext]_MCVars => [History!Next]_historyVars
            BY DEF MCNext, StreamNext, StoreNext, PageNext, MCVars
      <2>2. QED BY <2>1, PrunedBefore
<1>2. QED BY <1>1, HistoryHolds, PTL DEF MCSpec

(***************************************************************************)
(* LogStore: days.                                                         *)
(***************************************************************************)
Clock == MaxTime \in Nat /\ DayLength \in Nat \ {0} /\ IsFiniteSet(Models) /\ Models # {}

LEMMA Scaled ==
    \A n \in Nat \ {0} : \A x, y \in Int : x <= y => n * x <= n * y
OBVIOUS

LEMMA Divided ==
    \A n \in Nat \ {0} : \A t \in Nat :
        /\ t \div n \in Nat /\ n * (t \div n) <= t /\ t < n * ((t \div n) + 1)
        /\ t \div n <= t
OBVIOUS

LEMMA DaysGrow ==
    ASSUME Clock, NEW t \in Nat, NEW u \in Nat
    PROVE  /\ Log!Day(t) \in Nat /\ Log!Day(u) \in Nat
           /\ t <= u => Log!Day(t) <= Log!Day(u)
           /\ t < DayLength * Log!Day(u) <=> Log!Day(t) < Log!Day(u)
<1> DEFINE n == DayLength
           p == t \div n
           q == u \div n
<1>1. n \in Nat \ {0} BY DEF Clock
<1>2. /\ p \in Nat /\ n * p <= t /\ t < n * (p + 1)
      /\ q \in Nat /\ n * q <= u /\ u < n * (q + 1)
      BY <1>1, Divided
<1>3. Log!Day(t) = p /\ Log!Day(u) = q BY DEF Log!Day
<1> HIDE DEF n, p, q
<1>4. (p + 1 <= q => n * (p + 1) <= n * q) /\ (q + 1 <= p => n * (q + 1) <= n * p)
      /\ (q <= p => n * q <= n * p)
      BY <1>1, <1>2, Scaled
<1>5. n * p \in Int /\ n * q \in Int /\ n * (p + 1) \in Int /\ n * (q + 1) \in Int BY <1>1, <1>2
<1>6. (p + 1 <= q \/ q <= p) /\ (q + 1 <= p \/ p <= q) BY <1>2
<1>7. t <= u => p <= q BY <1>2, <1>4, <1>5, <1>6
<1>8. t < n * q <=> p < q BY <1>2, <1>4, <1>5, <1>6
<1>9. QED BY <1>2, <1>3, <1>7, <1>8 DEF n

LEMMA TheTimes ==
    ASSUME Clock
    PROVE  /\ IsFiniteSet(Log!Times) /\ Log!Times \in SUBSET Nat
           /\ IsFiniteSet(Log!Days) /\ Log!Days \in SUBSET Nat
           /\ \A t \in Log!Times : Log!Day(t) \in Log!Days
<1>1. MaxTime \in Nat /\ MaxTime \div DayLength \in Nat BY Divided DEF Clock
<1>2. Log!Times = 0..MaxTime /\ Log!Days = 0..(MaxTime \div DayLength) BY DEF Log!Times, Log!Days
<1>3. IsFiniteSet(Log!Times) /\ IsFiniteSet(Log!Days) BY <1>1, <1>2, FS_Interval
<1>4. Log!Times \in SUBSET Nat /\ Log!Days \in SUBSET Nat BY <1>1, <1>2
<1>5. ASSUME NEW t \in Log!Times PROVE Log!Day(t) \in Log!Days
      <2>1. t \in Nat /\ t <= MaxTime BY <1>1, <1>2, <1>5
      <2>2. Log!Day(t) \in Nat /\ Log!Day(t) <= Log!Day(MaxTime) BY <1>1, <2>1, DaysGrow
      <2>3. Log!Day(MaxTime) = MaxTime \div DayLength BY DEF Log!Day
      <2>4. QED BY <1>1, <1>2, <2>2, <2>3
<1>6. QED BY <1>3, <1>4, <1>5

(***************************************************************************)
(* LogStore: sums.                                                         *)
(***************************************************************************)
Held == [Models -> [Log!Times -> Nat]]
Summed == [Models -> [Log!Days -> Nat]]
TimesOf(d) == {t \in Log!Times : Log!Day(t) = d}
DayOf(f, a, d) == SumFunctionOnSet(f[a], TimesOf(d))
RowsOn(f, d) == SumFunctionOnSet([a \in Models |-> DayOf(f, a, d)], Models)
RollsOn(r, d) == SumFunctionOnSet([a \in Models |-> r[a][d]], Models)

LEMMA LogSums ==
    /\ \A f, S : Log!SumFunctionOnSet(f, S) = SumFunctionOnSet(f, S)
    /\ \A f : Log!SumFunction(f) = SumFunctionOnSet(f, DOMAIN f)
    /\ \A f, a, d : Log!OfDay(f, a, d) = DayOf(f, a, d)
<1>1. \A f, S : Log!SumFunctionOnSet(f, S) = SumFunctionOnSet(f, S)
      BY Zenon DEF Log!SumFunctionOnSet, SumFunctionOnSet, Log!FoldFunctionOnSet, FoldFunctionOnSet,
          Log!MapThenFoldSet, MapThenFoldSet
<1>2. \A f : Log!SumFunction(f) = SumFunctionOnSet(f, DOMAIN f) BY <1>1 DEF Log!SumFunction
<1>3. QED BY <1>1, <1>2, Zenon DEF Log!OfDay, DayOf, TimesOf

LEMMA DayType ==
    ASSUME Clock, NEW f \in Held, NEW d
    PROVE  RowsOn(f, d) \in Nat /\ \A a \in Models : DayOf(f, a, d) \in Nat
<1>1. IsFiniteSet(TimesOf(d)) /\ TimesOf(d) \in SUBSET Log!Times
      BY TheTimes, FS_Subset DEF TimesOf
<1>2. ASSUME NEW a \in Models PROVE DayOf(f, a, d) \in Nat
      <2>1. \A t \in TimesOf(d) : f[a][t] \in Nat BY <1>1 DEF Held
      <2>2. QED BY <1>1, <2>1, SumNat DEF DayOf
<1> DEFINE g == [a \in Models |-> DayOf(f, a, d)]
<1>3. \A a \in Models : g[a] \in Nat BY <1>2
<1> HIDE DEF g
<1>4. SumFunctionOnSet(g, Models) \in Nat BY <1>3, SumNat DEF Clock
<1>5. QED BY <1>2, <1>4 DEF RowsOn, g

LEMMA RollsType ==
    ASSUME Clock, NEW r \in Summed, NEW d \in Log!Days PROVE RollsOn(r, d) \in Nat
<1> DEFINE g == [a \in Models |-> r[a][d]]
<1>1. \A a \in Models : g[a] \in Nat BY DEF Summed
<1> HIDE DEF g
<1>2. SumFunctionOnSet(g, Models) \in Nat BY <1>1, SumNat DEF Clock
<1>3. QED BY <1>2 DEF RollsOn, g

\* Rows that are the same at the times of a day have the same sums of it.
LEMMA DaySame ==
    ASSUME Clock, NEW f, NEW g, NEW a, NEW d, \A t \in TimesOf(d) : f[a][t] = g[a][t]
    PROVE  DayOf(f, a, d) = DayOf(g, a, d)
<1>1. IsFiniteSet(TimesOf(d)) BY TheTimes, FS_Subset DEF TimesOf
<1>2. QED BY <1>1, SumSame DEF DayOf

LEMMA DayZero ==
    ASSUME Clock, NEW f, NEW a, NEW d, \A t \in TimesOf(d) : f[a][t] = 0
    PROVE  DayOf(f, a, d) = 0
<1>1. IsFiniteSet(TimesOf(d)) BY TheTimes, FS_Subset DEF TimesOf
<1>2. QED BY <1>1, SumZero DEF DayOf

LEMMA RowsSame ==
    ASSUME Clock, NEW f, NEW g, NEW d, \A a \in Models : DayOf(f, a, d) = DayOf(g, a, d)
    PROVE  RowsOn(f, d) = RowsOn(g, d)
<1>1. [a \in Models |-> DayOf(f, a, d)] = [a \in Models |-> DayOf(g, a, d)] OBVIOUS
<1>2. QED BY <1>1 DEF RowsOn

LEMMA RollsSame ==
    ASSUME Clock, NEW r, NEW s, NEW d, \A a \in Models : r[a][d] = s[a][d]
    PROVE  RollsOn(r, d) = RollsOn(s, d)
<1>1. [a \in Models |-> r[a][d]] = [a \in Models |-> s[a][d]] OBVIOUS
<1>2. QED BY <1>1 DEF RollsOn

LEMMA RowsZero ==
    ASSUME Clock, NEW f, NEW d, \A a \in Models : DayOf(f, a, d) = 0
    PROVE  RowsOn(f, d) = 0
<1> DEFINE g == [a \in Models |-> DayOf(f, a, d)]
<1>1. \A a \in Models : g[a] = 0 OBVIOUS
<1> HIDE DEF g
<1>2. SumFunctionOnSet(g, Models) = 0 BY <1>1, SumZero DEF Clock
<1>3. QED BY <1>2 DEF g, RowsOn

LEMMA RollsZero ==
    ASSUME Clock, NEW r, NEW d, \A a \in Models : r[a][d] = 0
    PROVE  RollsOn(r, d) = 0
<1> DEFINE g == [a \in Models |-> r[a][d]]
<1>1. \A a \in Models : g[a] = 0 OBVIOUS
<1> HIDE DEF g
<1>2. SumFunctionOnSet(g, Models) = 0 BY <1>1, SumZero DEF Clock
<1>3. QED BY <1>2 DEF g, RollsOn

LEMMA RollsEqual ==
    ASSUME Clock, NEW f, NEW r, NEW d, \A a \in Models : r[a][d] = DayOf(f, a, d)
    PROVE  RollsOn(r, d) = RowsOn(f, d)
<1>1. [a \in Models |-> r[a][d]] = [a \in Models |-> DayOf(f, a, d)] OBVIOUS
<1>2. QED BY <1>1 DEF RollsOn, RowsOn

\* Fewer rows, smaller sums.
LEMMA RowsFewer ==
    ASSUME Clock, NEW f \in Held, NEW g \in Held, NEW d,
           \A a \in Models : \A t \in TimesOf(d) : f[a][t] <= g[a][t]
    PROVE  RowsOn(f, d) <= RowsOn(g, d)
<1>1. IsFiniteSet(TimesOf(d)) /\ TimesOf(d) \in SUBSET Log!Times
      BY TheTimes, FS_Subset DEF TimesOf
<1>2. ASSUME NEW a \in Models
      PROVE  DayOf(f, a, d) \in Int /\ DayOf(g, a, d) \in Int /\ DayOf(f, a, d) <= DayOf(g, a, d)
      <2>1. \A t \in TimesOf(d) : f[a][t] \in Int /\ g[a][t] \in Int /\ f[a][t] <= g[a][t]
            BY <1>1 DEF Held
      <2>2. DayOf(f, a, d) <= DayOf(g, a, d) BY <1>1, <2>1, SumAtMost DEF DayOf
      <2>3. DayOf(f, a, d) \in Nat /\ DayOf(g, a, d) \in Nat BY DayType
      <2>4. QED BY <2>2, <2>3
<1> DEFINE e == [a \in Models |-> DayOf(f, a, d)]
           h == [a \in Models |-> DayOf(g, a, d)]
<1>3. \A a \in Models : e[a] \in Int /\ h[a] \in Int /\ e[a] <= h[a] BY <1>2
<1> HIDE DEF e, h
<1>4. SumFunctionOnSet(e, Models) <= SumFunctionOnSet(h, Models) BY <1>3, SumAtMost DEF Clock
<1>5. QED BY <1>4 DEF e, h, RowsOn

(***************************************************************************)
(* LogStore: what the writers do to the sums.                              *)
(***************************************************************************)
Raised(f, a, x) == [f EXCEPT ![a][x] = @ + 1]

LEMMA OneRowMore ==
    ASSUME Clock, NEW f \in Held, NEW r \in Summed, NEW a \in Models, NEW t \in Log!Times,
           NEW g, g = Raised(f, a, t), NEW s, s = Raised(r, a, Log!Day(t))
    PROVE  /\ g \in Held /\ s \in Summed
           /\ \A b \in Models : \A d \in Log!Days :
                 DayOf(g, b, d) - DayOf(f, b, d) = s[b][d] - r[b][d]
           /\ \A d \in Log!Days : RowsOn(g, d) - RowsOn(f, d) = RollsOn(s, d) - RollsOn(r, d)
<1> USE DEF Raised
<1> DEFINE e == Log!Day(t)
<1>1. e \in Log!Days BY TheTimes
<1>2. g \in Held BY DEF Held
<1>3. s \in Summed BY <1>1 DEF Summed
<1>4. ASSUME NEW b \in Models, NEW d \in Log!Days
      PROVE  DayOf(g, b, d) - DayOf(f, b, d) = s[b][d] - r[b][d]
      <2> DEFINE S == TimesOf(d)
      <2>1. IsFiniteSet(S) /\ S \in SUBSET Log!Times /\ (t \in S <=> e = d)
            BY TheTimes, FS_Subset DEF TimesOf
      <2>2. DayOf(g, b, d) \in Nat /\ DayOf(f, b, d) \in Nat BY <1>2, DayType
      <2>3. r[b][d] \in Nat BY DEF Summed
      <2>4. CASE b # a \/ e # d
            <3>1. s[b][d] = r[b][d] BY <1>1, <2>4 DEF Summed
            <3>2. \A x \in S : g[b][x] = f[b][x] BY <2>1, <2>4 DEF Held
            <3> HIDE DEF S
            <3>3. SumFunctionOnSet(g[b], S) = SumFunctionOnSet(f[b], S) BY <2>1, <3>2, SumSame
            <3>4. DayOf(g, b, d) = DayOf(f, b, d) BY <3>3 DEF DayOf, S
            <3>5. QED BY <2>2, <2>3, <3>1, <3>4
      <2>5. CASE b = a /\ e = d
            <3>1. s[b][d] = r[b][d] + 1 BY <1>1, <2>5 DEF Summed
            <3>2. /\ \A x \in S : f[a][x] \in Int /\ g[a][x] \in Int
                  /\ \A x \in S \ {t} : f[a][x] = g[a][x]
                  /\ g[a][t] = f[a][t] + 1 /\ f[a][t] \in Int /\ t \in S
                  BY <1>2, <2>1, <2>5 DEF Held
            <3> HIDE DEF S
            <3> DEFINE fa == f[a]
                       ga == g[a]
            <3>3. /\ \A x \in S : fa[x] \in Int /\ ga[x] \in Int
                  /\ \A x \in S \ {t} : fa[x] = ga[x]
                  /\ t \in S
                  BY <3>2
            <3> HIDE DEF fa, ga
            <3>4. SumFunctionOnSet(ga, S) = SumFunctionOnSet(fa, S) + (ga[t] - fa[t])
                  BY <2>1, <3>3, SumChange
            <3>5. DayOf(g, b, d) = DayOf(f, b, d) + 1 BY <2>2, <2>5, <3>2, <3>4 DEF DayOf, S, fa, ga
            <3>6. QED BY <2>2, <2>3, <3>1, <3>5
      <2>6. QED BY <2>4, <2>5
<1>5. ASSUME NEW d \in Log!Days
      PROVE  RowsOn(g, d) - RowsOn(f, d) = RollsOn(s, d) - RollsOn(r, d)
      <2> DEFINE u == [b \in Models |-> DayOf(f, b, d)]
                 v == [b \in Models |-> DayOf(g, b, d)]
                 w == [b \in Models |-> r[b][d]]
                 z == [b \in Models |-> s[b][d]]
      <2>1. \A b \in Models : u[b] \in Int /\ v[b] \in Int /\ w[b] \in Int /\ z[b] \in Int
            <3>1. \A b \in Models : DayOf(f, b, d) \in Nat /\ DayOf(g, b, d) \in Nat
                  BY <1>2, DayType
            <3>2. \A b \in Models : r[b][d] \in Nat /\ s[b][d] \in Nat BY <1>3 DEF Summed
            <3>3. \A b \in Models : u[b] \in Nat /\ v[b] \in Nat BY <3>1
            <3>4. \A b \in Models : w[b] \in Nat /\ z[b] \in Nat BY <3>2
            <3> HIDE DEF u, v, w, z
            <3>5. QED BY <3>3, <3>4
      <2>2. \A b \in Models : v[b] - u[b] = z[b] - w[b] BY <1>4
      <2>3. \A b \in Models \ {a} : w[b] = z[b] BY <1>1 DEF Summed
      <2> HIDE DEF u, v, w, z
      <2>4. \A b \in Models \ {a} : u[b] = v[b] BY <2>1, <2>2, <2>3
      <2>5. SumFunctionOnSet(v, Models) = SumFunctionOnSet(u, Models) + (v[a] - u[a])
            BY <2>1, <2>4, SumChange DEF Clock
      <2>6. SumFunctionOnSet(z, Models) = SumFunctionOnSet(w, Models) + (z[a] - w[a])
            BY <2>1, <2>3, SumChange DEF Clock
      <2>7. SumFunctionOnSet(u, Models) \in Int /\ SumFunctionOnSet(w, Models) \in Int
            BY <2>1, SumType DEF Clock
      <2>8. v[a] - u[a] = z[a] - w[a] /\ v[a] - u[a] \in Int BY <2>1, <2>2
      <2>9. /\ RowsOn(g, d) = SumFunctionOnSet(v, Models)
            /\ RowsOn(f, d) = SumFunctionOnSet(u, Models)
            /\ RollsOn(s, d) = SumFunctionOnSet(z, Models)
            /\ RollsOn(r, d) = SumFunctionOnSet(w, Models)
            BY DEF RowsOn, RollsOn, u, v, w, z
      <2>10. QED BY <2>5, <2>6, <2>7, <2>8, <2>9
<1>6. QED BY <1>2, <1>3, <1>4, <1>5

LEMMA MovedSums ==
    ASSUME Clock, NEW f \in Held, NEW from \in Models, NEW to \in Models, from # to
    PROVE  /\ Log!Moved(f, from, to) \in Held
           /\ \A d : RowsOn(Log!Moved(f, from, to), d) = RowsOn(f, d)
<1> DEFINE g == Log!Moved(f, from, to)
<1>1. g = [a \in Models |-> [t \in Log!Times |-> IF a = to THEN f[to][t] + f[from][t]
                                                 ELSE IF a = from THEN 0 ELSE f[a][t]]]
      BY DEF Log!Moved
<1> HIDE DEF g
<1>2. g \in Held BY <1>1 DEF Held
<1>3. ASSUME NEW d PROVE RowsOn(g, d) = RowsOn(f, d)
      <2> DEFINE S == TimesOf(d)
                 u == [a \in Models |-> DayOf(f, a, d)]
                 v == [a \in Models |-> DayOf(g, a, d)]
      <2>1. IsFiniteSet(S) /\ S \in SUBSET Log!Times BY TheTimes, FS_Subset DEF TimesOf
      <2>2. \A a \in Models : u[a] \in Int /\ v[a] \in Int
            <3>1. \A a \in Models : DayOf(f, a, d) \in Nat /\ DayOf(g, a, d) \in Nat
                  BY <1>2, DayType
            <3>2. QED BY <3>1
      <2>3. \A a \in Models \ {from, to} : u[a] = v[a]
            <3>1. \A a \in Models \ {from, to} : \A t \in S : f[a][t] = g[a][t] BY <1>1, <2>1
            <3>2. \A a \in Models \ {from, to} : DayOf(f, a, d) = DayOf(g, a, d) BY <3>1, DaySame
            <3>3. QED BY <3>2
      <2>4. v[from] = 0
            <3>1. \A t \in S : g[from][t] = 0 BY <1>1, <2>1
            <3>2. QED BY <3>1, DayZero
      <2>5. v[to] = u[to] + u[from]
            <3>1. /\ \A t \in S : g[to][t] = f[to][t] + f[from][t]
                  /\ \A t \in S : f[to][t] \in Int /\ f[from][t] \in Int
                  BY <1>1, <2>1 DEF Held
            <3> HIDE DEF S
            <3>2. SumFunctionOnSet(g[to], S) = SumFunctionOnSet(f[to], S) + SumFunctionOnSet(f[from], S)
                  BY <2>1, <3>1, SumPlus
            <3>3. QED BY <3>2 DEF DayOf, S
      <2> DEFINE rest == Models \ {from}
                 last == rest \ {to}
      <2>6. /\ IsFiniteSet(Models) /\ IsFiniteSet(rest) /\ IsFiniteSet(last)
            /\ rest \in SUBSET Models /\ last \in SUBSET Models
            BY FS_Subset DEF Clock
      <2>7. to \in rest /\ \A a \in last : u[a] = v[a] BY <2>3
      <2> HIDE DEF u, v, rest, last
      <2>8. /\ SumFunctionOnSet(u, Models) = u[from] + SumFunctionOnSet(u, rest)
            /\ SumFunctionOnSet(v, Models) = v[from] + SumFunctionOnSet(v, rest)
            BY <2>2, <2>6, SumPick DEF rest
      <2>9. /\ SumFunctionOnSet(u, rest) = u[to] + SumFunctionOnSet(u, last)
            /\ SumFunctionOnSet(v, rest) = v[to] + SumFunctionOnSet(v, last)
            <3>1. \A a \in rest : u[a] \in Int /\ v[a] \in Int BY <2>2, <2>6
            <3>2. QED BY <2>6, <2>7, <3>1, SumPick DEF last
      <2>10. SumFunctionOnSet(u, last) = SumFunctionOnSet(v, last) BY <2>6, <2>7, SumSame
      <2>11. SumFunctionOnSet(u, last) \in Int
             <3>1. \A a \in last : u[a] \in Int BY <2>2, <2>6
             <3>2. QED BY <2>6, <3>1, SumType
      <2>12. u[from] \in Int /\ u[to] \in Int BY <2>2
      <2>13. SumFunctionOnSet(v, Models) = SumFunctionOnSet(u, Models)
             BY <2>4, <2>5, <2>8, <2>9, <2>10, <2>11, <2>12
      <2>14. QED BY <2>13 DEF u, v, RowsOn
<1>4. QED BY <1>2, <1>3 DEF g

\* The days on which rows are left.
LEMMA StartIs ==
    ASSUME Clock, NEW f \in Held
    PROVE  /\ Log!Retained(f) \in SUBSET Log!Times
           /\ Log!Retained(f) # {} =>
                  /\ Log!StartDay(f) \in Log!Days
                  /\ \E t \in Log!Retained(f) : Log!StartDay(f) = Log!Day(t)
                  /\ \A t \in Log!Retained(f) : Log!StartDay(f) <= Log!Day(t)
<1>1. Log!Retained(f) \in SUBSET Log!Times BY DEF Log!Retained
<1>2. ASSUME Log!Retained(f) # {}
      PROVE  /\ Log!StartDay(f) \in Log!Days
             /\ \E t \in Log!Retained(f) : Log!StartDay(f) = Log!Day(t)
             /\ \A t \in Log!Retained(f) : Log!StartDay(f) <= Log!Day(t)
      <2> DEFINE R == Log!Retained(f)
                 least == CHOOSE x \in R : \A y \in R : x <= y
      <2>1. R \in SUBSET Nat /\ R # {} BY <1>1, <1>2, TheTimes
      <2> HIDE DEF R
      <2>2. least \in R /\ \A y \in R : least <= y BY <2>1, Least
      <2>3. Log!StartDay(f) = Log!Day(least) BY Zenon DEF Log!StartDay, Log!Min, R
      <2> HIDE DEF least
      <2>4. \A t \in R : Log!Day(least) <= Log!Day(t) BY <2>1, <2>2, DaysGrow
      <2>5. Log!Day(least) \in Log!Days BY <1>1, <2>2, TheTimes DEF R
      <2>6. QED BY <2>2, <2>3, <2>4, <2>5 DEF R
<1>3. QED BY <1>1, <1>2

LEMMA BeforeStart ==
    ASSUME Clock, NEW f \in Held, NEW d \in Log!Days,
           Log!Retained(f) = {} \/ d < Log!StartDay(f)
    PROVE  RowsOn(f, d) = 0 /\ \A a \in Models : DayOf(f, a, d) = 0
<1>1. ASSUME NEW a \in Models, NEW t \in TimesOf(d) PROVE f[a][t] = 0
      <2>1. t \in Log!Times /\ Log!Day(t) = d BY DEF TimesOf
      <2>2. f[a][t] \in Nat BY <2>1 DEF Held
      <2>3. t \notin Log!Retained(f)
            <3>1. ASSUME t \in Log!Retained(f) PROVE FALSE
                  <4>1. Log!StartDay(f) <= d /\ Log!StartDay(f) \in Nat /\ d \in Nat
                        BY <2>1, <3>1, StartIs, TheTimes
                  <4>2. d < Log!StartDay(f) BY <3>1
                  <4>3. QED BY <4>1, <4>2
            <3>2. QED BY <3>1
      <2>4. ~(f[a][t] > 0) BY <2>1, <2>3 DEF Log!Retained
      <2>5. QED BY <2>2, <2>4
<1>2. \A a \in Models : DayOf(f, a, d) = 0 BY <1>1, DayZero
<1>3. QED BY <1>2, RowsZero

LEMMA RebuiltSums ==
    ASSUME Clock, NEW f \in Held, NEW r \in Summed
    PROVE  /\ Log!Rebuilt(f, r) \in Summed
           /\ Log!Retained(f) = {} => Log!Rebuilt(f, r) = r
           /\ Log!Retained(f) # {} => \A d \in Log!Days :
                 /\ d < Log!StartDay(f) => \A a \in Models : Log!Rebuilt(f, r)[a][d] = r[a][d]
                 /\ Log!StartDay(f) <= d =>
                        \A a \in Models : Log!Rebuilt(f, r)[a][d] = DayOf(f, a, d)
<1> DEFINE s == Log!Rebuilt(f, r)
<1>1. CASE Log!Retained(f) = {}
      <2>1. s = r BY <1>1 DEF Log!Rebuilt
      <2>2. QED BY <1>1, <2>1
<1>2. CASE Log!Retained(f) # {}
      <2>1. s = [a \in Models |-> [d \in Log!Days |->
                    IF d < Log!StartDay(f) THEN r[a][d] ELSE DayOf(f, a, d)]]
            BY <1>2, LogSums DEF Log!Rebuilt
      <2> HIDE DEF s
      <2>2. \A d \in Log!Days : d \in Nat /\ Log!StartDay(f) \in Nat
            BY <1>2, StartIs, TheTimes
      <2>3. \A a \in Models : \A d \in Log!Days : r[a][d] \in Nat /\ DayOf(f, a, d) \in Nat
            BY DayType DEF Summed
      <2>4. s \in Summed BY <2>1, <2>3 DEF Summed
      <2>5. \A d \in Log!Days : Log!StartDay(f) <= d => ~(d < Log!StartDay(f)) BY <2>2
      <2>6. QED BY <1>2, <2>1, <2>4, <2>5 DEF s
<1>3. QED BY <1>1, <1>2

\* A count of rows, or of rolled up requests, is the sum over the days.
LEMMA RowsCount ==
    ASSUME Clock, NEW f \in Held
    PROVE  Log!Count(f) = SumFunctionOnSet([d \in Log!Days |-> RowsOn(f, d)], Log!Days)
<1> DEFINE T == Log!Times
           D == Log!Days
           k == [t \in T |-> Log!Day(t)]
           line == [a \in Models |-> [d \in D |-> DayOf(f, a, d)]]
<1>1. /\ IsFiniteSet(T) /\ IsFiniteSet(D) /\ \A t \in T : k[t] \in D
      /\ \A d \in D : TimesOf(d) = {t \in T : k[t] = d}
      BY TheTimes DEF TimesOf
<1>2. ASSUME NEW a \in Models
      PROVE  SumFunctionOnSet(line[a], D) = SumFunctionOnSet(f[a], T)
      <2> DEFINE g == f[a]
      <2>1. \A t \in T : g[t] \in Int BY DEF Held
      <2>2. line[a] = [d \in D |-> SumFunctionOnSet(g, {t \in T : k[t] = d})]
            BY <1>1 DEF DayOf
      <2> HIDE DEF T, D, k, line, g
      <2>3. SumFunctionOnSet([d \in D |-> SumFunctionOnSet(g, {t \in T : k[t] = d})], D)
              = SumFunctionOnSet(g, T)
            BY <1>1, <2>1, SumGroups
      <2>4. QED BY <2>2, <2>3 DEF g
<1>3. Log!Count(f) = SumFunctionOnSet([a \in Models |-> SumFunctionOnSet(f[a], T)], Models)
      <2>1. \A a \in Models : DOMAIN f[a] = T BY DEF Held
      <2>2. [a \in Models |-> Log!SumFunction(f[a])]
              = [a \in Models |-> SumFunctionOnSet(f[a], T)]
            BY <2>1, LogSums
      <2> HIDE DEF T
      <2>3. DOMAIN [a \in Models |-> SumFunctionOnSet(f[a], T)] = Models OBVIOUS
      <2>4. QED BY <2>2, <2>3, LogSums DEF Log!Count
<1>4. [a \in Models |-> SumFunctionOnSet(f[a], T)] = [a \in Models |-> SumFunctionOnSet(line[a], D)]
      <2> HIDE DEF line, D, T
      <2>1. QED BY <1>2
<1>5. \A a \in Models, d \in D : line[a][d] \in Int
      <2>1. \A a \in Models, d \in D : line[a][d] = DayOf(f, a, d) OBVIOUS
      <2>2. \A a \in Models, d \in D : DayOf(f, a, d) \in Nat BY DayType
      <2> HIDE DEF line
      <2>3. QED BY <2>1, <2>2
<1>6. [d \in D |-> RowsOn(f, d)]
        = [d \in D |-> SumFunctionOnSet([a \in Models |-> line[a][d]], Models)]
      <2>1. \A d \in D : [a \in Models |-> line[a][d]] = [a \in Models |-> DayOf(f, a, d)]
            OBVIOUS
      <2> HIDE DEF line
      <2>2. QED BY <2>1 DEF RowsOn
<1> HIDE DEF T, D, k, line
<1>7. SumFunctionOnSet([a \in Models |-> SumFunctionOnSet(line[a], D)], Models)
        = SumFunctionOnSet([d \in D |-> SumFunctionOnSet([a \in Models |-> line[a][d]], Models)], D)
      BY <1>1, <1>5, SumSwap DEF Clock
<1>8. QED BY <1>3, <1>4, <1>6, <1>7 DEF D

\* The rolled up requests of some days.
LEMMA RollsCount ==
    ASSUME Clock, NEW r \in Summed, NEW D \in SUBSET Log!Days
    PROVE  Log!SumFunction([a \in Models |-> Log!SumFunctionOnSet(r[a], D)])
             = SumFunctionOnSet([d \in D |-> RollsOn(r, d)], D)
<1>1. IsFiniteSet(D) BY TheTimes, FS_Subset
<1>2. [a \in Models |-> Log!SumFunctionOnSet(r[a], D)]
        = [a \in Models |-> SumFunctionOnSet(r[a], D)]
      BY LogSums
<1>3. DOMAIN [a \in Models |-> SumFunctionOnSet(r[a], D)] = Models OBVIOUS
<1>4. \A a \in Models, d \in D : r[a][d] \in Int BY DEF Summed
<1>5. SumFunctionOnSet([a \in Models |-> SumFunctionOnSet(r[a], D)], Models)
        = SumFunctionOnSet([d \in D |-> SumFunctionOnSet([a \in Models |-> r[a][d]], Models)], D)
      BY <1>1, <1>4, SumSwap DEF Clock
<1>6. [d \in D |-> SumFunctionOnSet([a \in Models |-> r[a][d]], Models)] = [d \in D |-> RollsOn(r, d)]
      BY DEF RollsOn
<1>7. QED BY <1>2, <1>3, <1>5, <1>6, LogSums

LEMMA RolledCount ==
    ASSUME Clock, NEW r \in Summed
    PROVE  Log!Count(r) = SumFunctionOnSet([d \in Log!Days |-> RollsOn(r, d)], Log!Days)
<1>1. \A a \in Models : DOMAIN r[a] = Log!Days BY DEF Summed
<1>2. [a \in Models |-> Log!SumFunction(r[a])] = [a \in Models |-> Log!SumFunctionOnSet(r[a], Log!Days)]
      BY <1>1, LogSums
<1>3. Log!Count(r) = Log!SumFunction([a \in Models |-> Log!SumFunctionOnSet(r[a], Log!Days)])
      BY <1>2 DEF Log!Count
<1>4. QED BY <1>3, RollsCount

LEMMA CountsSame ==
    ASSUME Clock, NEW r \in Summed, NEW s \in Summed,
           \A d \in Log!Days : RollsOn(s, d) = RollsOn(r, d)
    PROVE  Log!Count(s) = Log!Count(r)
<1>1. [d \in Log!Days |-> RollsOn(r, d)] = [d \in Log!Days |-> RollsOn(s, d)] OBVIOUS
<1>2. QED BY <1>1, RolledCount

LEMMA CountType == ASSUME Clock, NEW r \in Summed PROVE Log!Count(r) \in Nat
<1> DEFINE g == [d \in Log!Days |-> RollsOn(r, d)]
<1>1. \A d \in Log!Days : g[d] \in Nat BY RollsType
<1> HIDE DEF g
<1>2. SumFunctionOnSet(g, Log!Days) \in Nat BY <1>1, TheTimes, SumNat
<1>3. QED BY <1>2, RolledCount DEF g

\* When no day has more rows than are rolled up and the totals agree, every day agrees.
LEMMA TotalsAgree ==
    ASSUME Clock, NEW f \in Held, NEW r \in Summed, Log!Retained(f) # {},
           \A d \in Log!Days : RowsOn(f, d) <= RollsOn(r, d),
           Log!Projected(f) = Log!RolledUp(f, r)
    PROVE  \A d \in Log!Days : Log!StartDay(f) <= d => RowsOn(f, d) = RollsOn(r, d)
<1> DEFINE D == {d \in Log!Days : d >= Log!StartDay(f)}
           u == [d \in Log!Days |-> RowsOn(f, d)]
           v == [d \in D |-> RollsOn(r, d)]
<1>1. /\ IsFiniteSet(Log!Days) /\ IsFiniteSet(D) /\ D \in SUBSET Log!Days
      /\ \A d \in Log!Days : d \in Nat /\ Log!StartDay(f) \in Nat
      BY TheTimes, FS_Subset, StartIs
<1>2. \A d \in Log!Days : u[d] \in Int BY DayType
<1>3. \A d \in D : v[d] \in Int BY RollsType
<1>4. \A d \in Log!Days \ D : u[d] = 0
      <2>1. \A d \in Log!Days \ D : d < Log!StartDay(f) BY <1>1
      <2>2. QED BY <2>1, BeforeStart
<1>5. \A d \in D : u[d] <= v[d] OBVIOUS
<1>6. SumFunctionOnSet(u, Log!Days) = Log!Count(f) BY RowsCount
<1>7. SumFunctionOnSet(v, D) = Log!RolledUp(f, r)
      <2>1. Log!RolledUp(f, r) = Log!SumFunction([a \in Models |-> Log!SumFunctionOnSet(r[a], D)])
            BY DEF Log!RolledUp
      <2> HIDE DEF D
      <2>2. QED BY <1>1, <2>1, RollsCount
<1>8. \A d \in Log!Days : Log!StartDay(f) <= d => d \in D /\ u[d] = RowsOn(f, d) /\ v[d] = RollsOn(r, d)
      BY <1>1
<1> HIDE DEF D, u, v
<1>9. SumFunctionOnSet(u, Log!Days) = SumFunctionOnSet(u, D) BY <1>1, <1>2, <1>4, SumDrop
<1>10. SumFunctionOnSet(u, D) = SumFunctionOnSet(v, D)
       BY <1>6, <1>7, <1>9 DEF Log!Projected
<1>11. \A d \in D : u[d] \in Int /\ v[d] \in Int /\ u[d] <= v[d] BY <1>1, <1>2, <1>3, <1>5
<1>12. \A d \in D : u[d] = v[d] BY <1>1, <1>10, <1>11, SumTight
<1>13. QED BY <1>8, <1>12

(***************************************************************************)
(* LogStore: the invariant.  No day has more rows than are rolled up; on   *)
(* the days that live, from the first with rows or from today, there are   *)
(* as many, unless a deletion is between its two transactions.             *)
(***************************************************************************)
Live(d) ==
    d \notin owed /\ (Log!Day(now) <= d \/ (Log!Retained(rows) # {} /\ Log!StartDay(rows) <= d))

LogTyped ==
    /\ kind \in {"sqlite", "postgres"} /\ now \in Log!Times
    /\ rows \in Held /\ legacy \in Held /\ rollups \in Summed /\ owed \in SUBSET Log!Days
    /\ up \in BOOLEAN

StatsTyped ==
    /\ cache.at \in {"empty", "pending", "value"} /\ cache.value \in [Models -> Nat]
    /\ reads \subseteq [Models -> Nat] /\ overtaken \in BOOLEAN

\* Nothing is ahead of the clock; legacy rows are there before the first start only.
Timely ==
    /\ \A a \in Models : \A t \in Log!Times : t > now => rows[a][t] = 0
    /\ \A a \in Models : \A d \in Log!Days : d > Log!Day(now) => rollups[a][d] = 0
    /\ kind = "sqlite" => manage = Log!Done
    /\ up => legacy = Log!Zero
    /\ ~up => /\ rows = Log!Zero /\ rollups = Log!NoDays /\ owed = {} /\ manage = Log!Done
              /\ \A a \in Models : \A t \in Log!Times : t > now => legacy[a][t] = 0

Covered == \A d \in Log!Days : RowsOn(rows, d) <= RollsOn(rollups, d)

Balanced ==
    manage.action # "delete" =>
        \A d \in Log!Days : Live(d) => RowsOn(rows, d) = RollsOn(rollups, d)

Exact ==
    kind = "sqlite" =>
        \A d \in Log!Days : Live(d) => \A a \in Models : rollups[a][d] = DayOf(rows, a, d)

Sums == Covered /\ Balanced /\ Exact

\* A day that lives after a step lived before it, when no rows were added but of today.
LEMMA LivesOn ==
    ASSUME Clock, rows \in Held, rows' \in Held, now \in Log!Times, now' \in Log!Times,
           now <= now', owed \subseteq owed', NEW t0 \in Log!Times, Log!Day(now) <= Log!Day(t0),
           Log!Retained(rows') \subseteq Log!Retained(rows) \cup {t0},
           NEW d \in Log!Days, Live(d)'
    PROVE  Live(d)
<1>1. now \in Nat /\ now' \in Nat /\ d \in Nat /\ t0 \in Nat /\ Log!Times \in SUBSET Nat BY TheTimes
<1>2. Log!Day(now) \in Nat /\ Log!Day(now') \in Nat /\ Log!Day(now) <= Log!Day(now')
      BY <1>1, DaysGrow
<1>3. Log!Day(now)' = Log!Day(now') BY DEF Log!Day
<1>4. d \notin owed BY DEF Live
<1>5. CASE Log!Day(now') <= d BY <1>1, <1>2, <1>4, <1>5 DEF Live
<1>6. CASE Log!Retained(rows)' # {} /\ Log!StartDay(rows)' <= d
      <2>1. Log!Retained(rows)' = Log!Retained(rows') /\ Log!StartDay(rows)' = Log!StartDay(rows')
            BY Zenon DEF Log!Retained, Log!StartDay, Log!Min, Log!Day, Log!Times
      <2>2. PICK t \in Log!Retained(rows') : Log!StartDay(rows') = Log!Day(t)
            BY <1>6, <2>1, StartIs
      <2>3. Log!Day(t) <= d BY <1>6, <2>1, <2>2
      <2>4. CASE t = t0
            <3>1. Log!Day(t) \in Nat BY <1>1, <2>4, DaysGrow
            <3>2. Log!Day(now) <= d BY <1>1, <1>2, <2>3, <2>4, <3>1
            <3>3. QED BY <1>4, <3>2 DEF Live
      <2>5. CASE t \in Log!Retained(rows)
            <3>1. Log!StartDay(rows) <= Log!Day(t) /\ Log!StartDay(rows) \in Nat /\ t \in Nat
                  BY <1>1, <2>5, StartIs, TheTimes
            <3>2. Log!Day(t) \in Nat BY <1>1, <3>1, DaysGrow
            <3>3. Log!StartDay(rows) <= d BY <1>1, <2>3, <3>1, <3>2
            <3>4. QED BY <1>4, <2>5, <3>3 DEF Live
      <2>6. QED BY <2>2, <2>4, <2>5
<1>7. QED BY <1>3, <1>5, <1>6 DEF Live

\* What a rebuild leaves, over whatever rows there are up to today.
LEMMA RebuildSums ==
    ASSUME Clock, LogTyped, Timely, rows' \in Held, UNCHANGED now,
           \A a \in Models : \A t \in Log!Times : t > now => rows'[a][t] = 0,
           rollups' = Log!Rebuilt(rows', rollups), owed' = Log!Owing(rows')
    PROVE  /\ Sums' /\ rollups' \in Summed /\ owed' \in SUBSET Log!Days
           /\ \A a \in Models : \A d \in Log!Days : d > Log!Day(now) => rollups'[a][d] = 0
<1> DEFINE f == rows'
           R == Log!Retained(f)
<1>1. rollups \in Summed /\ owed \in SUBSET Log!Days /\ now \in Log!Times BY DEF LogTyped
<1>2. rollups' \in Summed BY <1>1, RebuiltSums
<1>3. owed' \in SUBSET Log!Days
      <2>1. owed' = {} \/ owed' = owed \cup {d \in Log!Days : \E a \in Models : rollups[a][d] > 0}
            BY DEF Log!Owing
      <2>2. QED BY <1>1, <2>1
<1>4. \A d \in Log!Days : d \in Nat /\ Log!Day(now) \in Nat BY <1>1, TheTimes
<1>5. Log!Retained(rows)' = R /\ Log!StartDay(rows)' = Log!StartDay(f) /\ Log!Day(now)' = Log!Day(now)
      BY Zenon DEF Log!Retained, Log!StartDay, Log!Min, Log!Day, Log!Times
<1>6. \A d \in Log!Days : RowsOn(f, d) \in Nat /\ RollsOn(rollups', d) \in Nat
      BY <1>2, DayType, RollsType
<1>7. \A d : RowsOn(rows, d)' = RowsOn(f, d) /\ RollsOn(rollups, d)' = RollsOn(rollups', d)
             /\ \A a : DayOf(rows, a, d)' = DayOf(f, a, d)
      BY Zenon DEF RowsOn, RollsOn, DayOf, TimesOf, Log!Day, Log!Times
<1>8. CASE R = {}
      <2>1. /\ rollups' = rollups
            /\ owed' = owed \cup {d \in Log!Days : \E a \in Models : rollups[a][d] > 0}
            BY <1>1, <1>8, RebuiltSums DEF Log!Owing
      <2>2. \A d \in Log!Days : RowsOn(f, d) = 0 /\ \A a \in Models : DayOf(f, a, d) = 0
            BY <1>8, BeforeStart
      <2>3. ASSUME NEW d \in Log!Days, d \notin owed'
            PROVE  RollsOn(rollups', d) = 0 /\ \A a \in Models : rollups'[a][d] = 0
            <3>1. \A a \in Models : rollups[a][d] \in Nat /\ ~(rollups[a][d] > 0)
                  BY <1>1, <2>1, <2>3 DEF Summed
            <3>2. \A a \in Models : rollups'[a][d] = 0 BY <2>1, <3>1
            <3>3. QED BY <3>2, RollsZero
      <2>4. Covered' BY <1>6, <1>7, <2>2 DEF Covered
      <2>5. Balanced' BY <1>7, <2>2, <2>3 DEF Balanced, Live
      <2>6. Exact' BY <1>7, <2>2, <2>3 DEF Exact, Live
      <2>7. \A a \in Models : \A d \in Log!Days : d > Log!Day(now) => rollups'[a][d] = 0
            BY <2>1 DEF Timely
      <2>8. QED BY <1>2, <1>3, <2>4, <2>5, <2>6, <2>7 DEF Sums
<1>9. CASE R # {}
      <2> DEFINE first == Log!StartDay(f)
      <2>1. first \in Log!Days /\ first \in Nat BY <1>4, <1>9, StartIs
      <2>2. first <= Log!Day(now)
            <3>1. PICK t \in R : first = Log!Day(t) BY <1>9, StartIs
            <3>2. t \in Log!Times /\ \E a \in Models : f[a][t] > 0 BY DEF Log!Retained
            <3>3. t \in Nat /\ now \in Nat BY <1>1, <3>2, TheTimes
            <3>4. t <= now BY <3>2, <3>3
            <3>5. QED BY <3>1, <3>3, <3>4, DaysGrow
      <2>3. \A d \in Log!Days : first <= d => \A a \in Models : rollups'[a][d] = DayOf(f, a, d)
            BY <1>1, <1>9, RebuiltSums
      <2>4. \A d \in Log!Days : first <= d => RollsOn(rollups', d) = RowsOn(f, d)
            BY <2>3, RollsEqual
      <2>5. \A d \in Log!Days : d < first => RowsOn(f, d) = 0 BY BeforeStart
      <2>6. \A d \in Log!Days : Live(d)' => first <= d
            <3>1. \A d \in Log!Days : Live(d)' => Log!Day(now) <= d \/ first <= d
                  BY <1>5 DEF Live
            <3> HIDE DEF first
            <3>2. QED BY <1>4, <2>1, <2>2, <3>1
      <2> HIDE DEF first
      <2>7. Covered'
            <3>1. \A d \in Log!Days : RowsOn(f, d) <= RollsOn(rollups', d)
                  BY <1>4, <1>6, <2>1, <2>4, <2>5
            <3>2. QED BY <1>7, <3>1 DEF Covered
      <2>8. Balanced' BY <1>7, <2>4, <2>6 DEF Balanced
      <2>9. Exact' BY <1>7, <2>3, <2>6 DEF Exact
      <2>10. ASSUME NEW a \in Models, NEW d \in Log!Days, d > Log!Day(now)
             PROVE  rollups'[a][d] = 0
             <3>1. \A t \in TimesOf(d) : f[a][t] = 0
                   <4>1. TAKE t \in TimesOf(d)
                   <4>2. t \in Log!Times /\ Log!Day(t) = d BY DEF TimesOf
                   <4>3. t \in Nat /\ now \in Nat BY <1>1, <4>2, TheTimes
                   <4>4. t > now
                         <5>1. t <= now => Log!Day(t) <= Log!Day(now) BY <4>3, DaysGrow
                         <5>2. QED BY <1>4, <2>10, <4>2, <4>3, <5>1
                   <4>5. QED BY <4>2, <4>4
             <3>2. DayOf(f, a, d) = 0 BY <3>1, DayZero
             <3>3. first <= d BY <1>4, <2>1, <2>2, <2>10
             <3>4. QED BY <2>3, <3>2, <3>3
      <2>11. QED BY <1>2, <1>3, <2>7, <2>8, <2>9, <2>10 DEF Sums
<1>10. QED BY <1>8, <1>9

LEMMA PrimedSums ==
    /\ \A d : RowsOn(rows, d)' = RowsOn(rows', d) /\ RollsOn(rollups, d)' = RollsOn(rollups', d)
    /\ \A a, d : DayOf(rows, a, d)' = DayOf(rows', a, d)
BY Zenon DEF RowsOn, RollsOn, DayOf, TimesOf, Log!Day, Log!Times

\* A step that adds to the rollups what it adds to the rows keeps the balance.
LEMMA SumsKeep ==
    ASSUME Clock, LogTyped, Sums, UNCHANGED kind, rows' \in Held, rollups' \in Summed,
           \A d \in Log!Days : Live(d)' => Live(d),
           \A d \in Log!Days :
              RowsOn(rows', d) - RowsOn(rows, d) <= RollsOn(rollups', d) - RollsOn(rollups, d),
           manage'.action # "delete" =>
              /\ manage.action # "delete"
              /\ \A d \in Log!Days : Live(d)' =>
                    RowsOn(rows', d) - RowsOn(rows, d) = RollsOn(rollups', d) - RollsOn(rollups, d),
           kind = "sqlite" => \A d \in Log!Days : Live(d)' => \A a \in Models :
                    DayOf(rows', a, d) - DayOf(rows, a, d) = rollups'[a][d] - rollups[a][d]
    PROVE  Sums'
<1>1. \A d \in Log!Days : /\ RowsOn(rows', d) \in Int /\ RowsOn(rows, d) \in Int
                          /\ RollsOn(rollups', d) \in Int /\ RollsOn(rollups, d) \in Int
      BY DayType, RollsType DEF LogTyped
<1>2. \A a \in Models : \A d \in Log!Days :
          /\ DayOf(rows', a, d) \in Int /\ DayOf(rows, a, d) \in Int
          /\ rollups'[a][d] \in Int /\ rollups[a][d] \in Int
      <2>1. \A a \in Models : \A d \in Log!Days : DayOf(rows', a, d) \in Nat /\ DayOf(rows, a, d) \in Nat
            BY DayType DEF LogTyped
      <2>2. \A a \in Models : \A d \in Log!Days : rollups'[a][d] \in Nat /\ rollups[a][d] \in Nat
            BY DEF LogTyped, Summed
      <2>3. QED BY <2>1, <2>2
<1>3. Covered'
      <2>1. \A d \in Log!Days : RowsOn(rows', d) <= RollsOn(rollups', d)
            BY <1>1 DEF Sums, Covered
      <2>2. QED BY <2>1, PrimedSums DEF Covered
<1>4. Balanced'
      <2>1. manage'.action # "delete" =>
                \A d \in Log!Days : Live(d)' => RowsOn(rows', d) = RollsOn(rollups', d)
            BY <1>1 DEF Sums, Balanced
      <2>2. QED BY <2>1, PrimedSums DEF Balanced
<1>5. Exact'
      <2>1. kind' = "sqlite" => \A d \in Log!Days : Live(d)' =>
                \A a \in Models : rollups'[a][d] = DayOf(rows', a, d)
            BY <1>2 DEF Sums, Exact
      <2>2. QED BY <2>1, PrimedSums DEF Exact
<1>6. QED BY <1>3, <1>4, <1>5 DEF Sums

LEMMA SumsRest ==
    ASSUME Clock, LogTyped, Sums, now' \in Log!Times, now <= now',
           UNCHANGED <<kind, rows, rollups, manage, owed>>
    PROVE  Sums'
<1>1. rows \in Held /\ rows' \in Held /\ rollups' \in Summed /\ now \in Log!Times BY DEF LogTyped
<1>2. Log!Day(now) <= Log!Day(now)
      <2>1. Log!Day(now) \in Nat BY <1>1, DaysGrow, TheTimes
      <2>2. QED BY <2>1
<1>3. Log!Retained(rows') \subseteq Log!Retained(rows) \cup {now} BY DEF Log!Retained
<1>4. \A d \in Log!Days : Live(d)' => Live(d)
      <2>1. owed \subseteq owed' OBVIOUS
      <2>2. QED BY <1>1, <1>2, <1>3, <2>1, LivesOn
<1>5. \A d \in Log!Days : /\ RowsOn(rows', d) - RowsOn(rows, d) = 0
                          /\ RollsOn(rollups', d) - RollsOn(rollups, d) = 0
                          /\ \A a \in Models : /\ DayOf(rows', a, d) - DayOf(rows, a, d) = 0
                                               /\ rollups'[a][d] - rollups[a][d] = 0
      <2>1. \A d \in Log!Days : RowsOn(rows, d) \in Nat /\ RollsOn(rollups, d) \in Nat
            BY DayType, RollsType DEF LogTyped
      <2>2. \A a \in Models : \A d \in Log!Days : DayOf(rows, a, d) \in Nat /\ rollups[a][d] \in Nat
            BY DayType DEF LogTyped, Summed
      <2>3. rows' = rows /\ rollups' = rollups OBVIOUS
      <2>4. QED BY <2>1, <2>2, <2>3
<1>6. manage'.action = manage.action OBVIOUS
<1>7. QED BY <1>1, <1>4, <1>5, <1>6, SumsKeep

LogInv == LogTyped /\ Timely /\ Sums

LEMMA WriteEndKeeps ==
    ASSUME Clock, LogInv, up, NEW a \in Models, Log!WriteEnd(a)
    PROVE  LogInv'
<1>1. /\ rows' = [rows EXCEPT ![a][now] = @ + 1]
      /\ rollups' = [rollups EXCEPT ![a][Log!Day(now)] = @ + 1]
      /\ UNCHANGED <<kind, now, legacy, manage, up, owed>>
      BY DEF Log!WriteEnd
<1>2. /\ rows \in Held /\ rollups \in Summed /\ now \in Log!Times /\ now \in Nat
      /\ Log!Day(now) \in Log!Days /\ Log!Day(now) \in Nat
      BY TheTimes DEF LogInv, LogTyped
<1>3. /\ rows' \in Held /\ rollups' \in Summed
      /\ \A b \in Models : \A d \in Log!Days :
            DayOf(rows', b, d) - DayOf(rows, b, d) = rollups'[b][d] - rollups[b][d]
      /\ \A d \in Log!Days :
            RowsOn(rows', d) - RowsOn(rows, d) = RollsOn(rollups', d) - RollsOn(rollups, d)
      <2> DEFINE f == rows
                 r == rollups
                 g == rows'
                 s == rollups'
                 t == now
      <2>1. /\ f \in Held /\ r \in Summed /\ t \in Log!Times
            /\ g = Raised(f, a, t) /\ s = Raised(r, a, Log!Day(t))
            BY <1>1, <1>2 DEF Raised
      <2> HIDE DEF f, r, g, s, t
      <2>2. /\ g \in Held /\ s \in Summed
            /\ \A b \in Models : \A d \in Log!Days :
                  DayOf(g, b, d) - DayOf(f, b, d) = s[b][d] - r[b][d]
            /\ \A d \in Log!Days : RowsOn(g, d) - RowsOn(f, d) = RollsOn(s, d) - RollsOn(r, d)
            BY <2>1, OneRowMore
      <2>3. QED BY <2>2 DEF f, r, g, s
<1>4. LogTyped' BY <1>1, <1>3 DEF LogInv, LogTyped
<1>5. Timely'
      <2>1. \A b \in Models : \A t \in Log!Times : t # now => rows'[b][t] = rows[b][t]
            BY <1>1, <1>2 DEF Held
      <2>2. \A b \in Models : \A d \in Log!Days :
                d # Log!Day(now) => rollups'[b][d] = rollups[b][d]
            BY <1>1, <1>2 DEF Summed
      <2>3. \A t \in Log!Times : t > now => t # now BY <1>2, TheTimes
      <2>4. \A d \in Log!Days : d > Log!Day(now) => d # Log!Day(now) BY <1>2, TheTimes
      <2>5. Log!Day(now)' = Log!Day(now) /\ Log!Times' = Log!Times /\ Log!Days' = Log!Days
            BY <1>1 DEF Log!Day, Log!Times, Log!Days
      <2>6. Timely BY DEF LogInv
      <2>7. up' BY <1>1
      <2>8. /\ \A b \in Models : \A t \in Log!Times : t > now => rows'[b][t] = 0
            /\ \A b \in Models : \A d \in Log!Days : d > Log!Day(now) => rollups'[b][d] = 0
            BY <2>1, <2>2, <2>3, <2>4, <2>6 DEF Timely
      <2>9. QED BY <1>1, <2>5, <2>6, <2>7, <2>8 DEF Timely, Log!Zero
<1>6. \A d \in Log!Days : Live(d)' => Live(d)
      <2>1. Log!Retained(rows') \subseteq Log!Retained(rows) \cup {now}
            <3>1. \A b \in Models : \A t \in Log!Times \ {now} : rows'[b][t] = rows[b][t]
                  BY <1>1, <1>2 DEF Held
            <3>2. QED BY <3>1 DEF Log!Retained
      <2>2. owed \subseteq owed' /\ now <= now' /\ now' \in Log!Times /\ Log!Day(now) <= Log!Day(now)
            BY <1>1, <1>2
      <2>3. QED BY <1>2, <1>3, <2>1, <2>2, LivesOn
<1>7. Sums'
      <2>1. LogTyped /\ Sums BY DEF LogInv
      <2>2. \A d \in Log!Days :
              RowsOn(rows', d) - RowsOn(rows, d) <= RollsOn(rollups', d) - RollsOn(rollups, d)
            <3>1. \A d \in Log!Days : RollsOn(rollups', d) - RollsOn(rollups, d) \in Int
                  BY <1>2, <1>3, RollsType
            <3>2. QED BY <1>3, <3>1
      <2>3. manage' = manage /\ kind' = kind BY <1>1
      <2>4. QED BY <1>3, <1>6, <2>1, <2>2, <2>3, SumsKeep
<1>8. QED BY <1>4, <1>5, <1>7 DEF LogInv

LEMMA PruneKeeps ==
    ASSUME Clock, LogInv, up, Log!Prune
    PROVE  LogInv'
<1> DEFINE edge(c) == Log!Cutoff(c)
<1>1. PICK age \in 0..now : rows' = Log!Kept(rows, edge(now - age)) BY DEF Log!Prune
<1>2. UNCHANGED <<kind, now, legacy, rollups, manage, up, owed>> BY DEF Log!Prune
<1> DEFINE c == now - age
<1>3. now \in Nat /\ c \in Nat /\ c <= now /\ rows \in Held /\ rollups \in Summed /\ now \in Log!Times
      BY TheTimes DEF LogInv, LogTyped
<1>4. rows' = [a \in Models |-> [t \in Log!Times |-> IF t < edge(c) THEN 0 ELSE rows[a][t]]]
      BY <1>1 DEF Log!Kept
<1> HIDE DEF c
<1>5. edge(c) = DayLength * Log!Day(c)
      <2>1. DayLength \in Nat /\ Log!Day(c) \in Nat BY <1>3, DaysGrow DEF Clock
      <2>2. edge(c) = Log!Day(c) * DayLength BY DEF Log!Cutoff, Log!Day
      <2> HIDE DEF edge
      <2>3. QED BY <2>1, <2>2
<1> HIDE DEF edge
<1>6. \A t \in Log!Times : t \in Nat /\ Log!Day(t) \in Nat /\ Log!Day(c) \in Nat
                           /\ (t < edge(c) <=> Log!Day(t) < Log!Day(c))
      BY <1>3, <1>5, TheTimes, DaysGrow
<1>7. \A a \in Models : \A t \in Log!Times :
          /\ rows'[a][t] = IF Log!Day(t) < Log!Day(c) THEN 0 ELSE rows[a][t]
          /\ rows[a][t] \in Nat
      BY <1>3, <1>4, <1>6 DEF Held
<1>8. rows' \in Held
      <2>1. \A a \in Models : \A t \in Log!Times :
                (IF t < edge(c) THEN 0 ELSE rows[a][t]) \in Nat
            BY <1>7
      <2>2. QED BY <1>4, <2>1 DEF Held
<1>9. Log!Retained(rows') \subseteq Log!Retained(rows)
         /\ \A t \in Log!Retained(rows') : Log!Day(c) <= Log!Day(t)
      <2>1. ASSUME NEW t \in Log!Times, NEW a \in Models, rows'[a][t] > 0
            PROVE  rows[a][t] > 0 /\ Log!Day(c) <= Log!Day(t)
            <3>1. ~(Log!Day(t) < Log!Day(c)) BY <1>7, <2>1
            <3>2. QED BY <1>6, <1>7, <2>1, <3>1
      <2>2. QED BY <2>1 DEF Log!Retained
<1>10. \A d \in Log!Days : Live(d)' => Live(d) /\ Log!Day(c) <= d
       <2>1. ASSUME NEW d \in Log!Days, Live(d)' PROVE Live(d) /\ Log!Day(c) <= d
             <3>1. Log!Day(now) \in Nat /\ Log!Day(c) \in Nat /\ d \in Nat /\ Log!Day(c) <= Log!Day(now)
                   BY <1>3, TheTimes, DaysGrow
             <3>2. owed \subseteq owed' /\ now <= now' /\ now' \in Log!Times BY <1>2, <1>3
             <3>3. Live(d)
                   <4>1. Log!Day(now) <= Log!Day(now) BY <3>1
                   <4>2. Log!Retained(rows') \subseteq Log!Retained(rows) \cup {now} BY <1>9
                   <4>3. QED BY <1>3, <1>8, <2>1, <3>2, <4>1, <4>2, LivesOn
             <3>4. Log!Day(c) <= d
                   <4>1. /\ Log!Retained(rows)' = Log!Retained(rows')
                         /\ Log!StartDay(rows)' = Log!StartDay(rows')
                         BY Zenon DEF Log!Retained, Log!StartDay, Log!Min, Log!Day, Log!Times
                   <4>2. Log!Day(now)' = Log!Day(now) BY <1>2 DEF Log!Day
                   <4>3. CASE Log!Day(now)' <= d BY <3>1, <4>2, <4>3
                   <4>4. CASE Log!Retained(rows') # {} /\ Log!StartDay(rows') <= d
                         <5>1. PICK t \in Log!Retained(rows') : Log!StartDay(rows') = Log!Day(t)
                               BY <1>8, <4>4, StartIs
                         <5>2. t \in Log!Times BY DEF Log!Retained
                         <5>3. Log!Day(t) \in Nat BY <1>6, <5>2
                         <5>4. QED BY <1>9, <3>1, <4>4, <5>1, <5>3
                   <4>5. QED BY <2>1, <4>1, <4>3, <4>4 DEF Live
             <3>5. QED BY <3>3, <3>4
       <2>2. QED BY <2>1
<1>11. LogTyped' BY <1>2, <1>8 DEF LogInv, LogTyped
<1>12. Timely'
       <2>1. \A a \in Models : \A t \in Log!Times : t > now => rows'[a][t] = 0
             BY <1>7 DEF LogInv, Timely
       <2>2. Log!Day(now)' = Log!Day(now) /\ Log!Times' = Log!Times /\ Log!Days' = Log!Days
             BY <1>2 DEF Log!Day, Log!Times, Log!Days
       <2>3. Timely /\ up' BY <1>2 DEF LogInv
       <2>4. QED BY <1>2, <2>1, <2>2, <2>3 DEF Timely, Log!Zero
<1>13. ASSUME NEW d \in Log!Days, Live(d)'
       PROVE  RowsOn(rows', d) = RowsOn(rows, d)
              /\ \A a \in Models : DayOf(rows', a, d) = DayOf(rows, a, d)
       <2>1. Log!Day(c) <= d /\ d \in Nat BY <1>10, <1>13, TheTimes
       <2>2. \A a \in Models : \A t \in TimesOf(d) : rows'[a][t] = rows[a][t]
             <3>1. \A t \in TimesOf(d) : t \in Log!Times /\ ~(Log!Day(t) < Log!Day(c))
                   BY <1>6, <2>1 DEF TimesOf
             <3>2. QED BY <1>7, <3>1
       <2>3. \A a \in Models : DayOf(rows', a, d) = DayOf(rows, a, d) BY <2>2, DaySame
       <2>4. QED BY <2>3, RowsSame
<1>14. Sums'
       <2>1. LogTyped /\ Sums BY DEF LogInv
       <2>2. ASSUME NEW d \in Log!Days
             PROVE  /\ RowsOn(rows', d) <= RowsOn(rows, d) /\ RowsOn(rows', d) \in Nat
                    /\ RowsOn(rows, d) \in Nat /\ RollsOn(rollups, d) \in Nat
             <3>1. \A a \in Models : \A t \in TimesOf(d) : rows'[a][t] <= rows[a][t]
                   <4>1. \A t \in TimesOf(d) : t \in Log!Times BY DEF TimesOf
                   <4>2. QED BY <1>7, <4>1
             <3>2. RowsOn(rows', d) <= RowsOn(rows, d) BY <1>3, <1>8, <3>1, RowsFewer
             <3>3. QED BY <1>3, <1>8, <3>2, DayType, RollsType
       <2>3. rollups' = rollups /\ manage' = manage /\ kind' = kind BY <1>2
       <2>4. \A d \in Log!Days :
                RowsOn(rows', d) - RowsOn(rows, d) <= RollsOn(rollups', d) - RollsOn(rollups, d)
             BY <2>2, <2>3
       <2>5. \A d \in Log!Days : Live(d)' =>
                RowsOn(rows', d) - RowsOn(rows, d) = RollsOn(rollups', d) - RollsOn(rollups, d)
             BY <1>13, <2>2, <2>3
       <2>6. \A d \in Log!Days : Live(d)' => \A a \in Models :
                DayOf(rows', a, d) - DayOf(rows, a, d) = rollups'[a][d] - rollups[a][d]
             <3>1. \A a \in Models : \A d \in Log!Days : DayOf(rows, a, d) \in Nat /\ rollups[a][d] \in Nat
                   BY <1>3, DayType DEF Summed
             <3>2. QED BY <1>13, <2>3, <3>1
       <2>7. QED BY <1>3, <1>8, <1>10, <2>1, <2>3, <2>4, <2>5, <2>6, SumsKeep
<1>15. QED BY <1>11, <1>12, <1>14 DEF LogInv

\* A rebuild over rows that are not ahead of the clock.
LEMMA RebuildKeeps ==
    ASSUME Clock, LogInv, rows' \in Held, legacy' \in Held, up' = TRUE, legacy' = Log!Zero,
           \A a \in Models : \A t \in Log!Times : t > now => rows'[a][t] = 0,
           rollups' = Log!Rebuilt(rows', rollups), owed' = Log!Owing(rows'),
           UNCHANGED <<kind, now>>, kind = "sqlite" => manage' = Log!Done
    PROVE  LogInv'
<1>1. LogTyped /\ Timely BY DEF LogInv
<1>2. /\ Sums' /\ rollups' \in Summed /\ owed' \in SUBSET Log!Days
      /\ \A a \in Models : \A d \in Log!Days : d > Log!Day(now) => rollups'[a][d] = 0
      BY <1>1, RebuildSums
<1>3. LogTyped' BY <1>1, <1>2 DEF LogTyped
<1>4. Log!Day(now)' = Log!Day(now) /\ Log!Times' = Log!Times /\ Log!Days' = Log!Days
      BY DEF Log!Day, Log!Times, Log!Days
<1>5. Timely' BY <1>2, <1>4 DEF Timely, Log!Zero
<1>6. QED BY <1>2, <1>3, <1>5 DEF LogInv

LEMMA ZeroHeld == Log!Zero \in Held /\ Log!NoDays \in Summed
BY DEF Log!Zero, Log!NoDays, Held, Summed

LEMMA LegacyOf ==
    ASSUME Clock, LogInv, NEW all,
           all = [a \in Models |-> [t \in Log!Times |-> rows[a][t] + legacy[a][t]]]
    PROVE  /\ all \in Held
           /\ \A a \in Models : \A t \in Log!Times : t > now => all[a][t] = 0
           /\ legacy = Log!Zero => all = rows
<1>1. \A a \in Models : \A t \in Log!Times : rows[a][t] \in Nat /\ legacy[a][t] \in Nat
      BY DEF LogInv, LogTyped, Held
<1>2. all \in Held BY <1>1 DEF Held
<1>3. \A a \in Models : \A t \in Log!Times : t > now => rows[a][t] = 0 /\ legacy[a][t] = 0
      <2>1. CASE up BY <2>1 DEF LogInv, Timely, Log!Zero
      <2>2. CASE ~up BY <2>2 DEF LogInv, Timely
      <2>3. QED BY <2>1, <2>2
<1>4. ASSUME legacy = Log!Zero PROVE all = rows
      <2>1. \A a \in Models : \A t \in Log!Times : all[a][t] = rows[a][t]
            BY <1>1, <1>4 DEF Log!Zero
      <2>2. rows \in Held BY DEF LogInv, LogTyped
      <2>3. QED BY <1>2, <2>1, <2>2 DEF Held
<1>5. QED BY <1>2, <1>3, <1>4

LEMMA StartKeeps == ASSUME Clock, LogInv, Log!Start PROVE LogInv'
<1> DEFINE all == [a \in Models |-> [t \in Log!Times |-> rows[a][t] + legacy[a][t]]]
<1>1. /\ rows' = all /\ legacy' = Log!Zero /\ up' = TRUE /\ manage' = Log!Done
      /\ UNCHANGED <<kind, now>>
      BY DEF Log!Start
<1>2. \/ rollups' = Log!Rebuilt(all, rollups) /\ owed' = Log!Owing(all)
      \/ /\ legacy = Log!Zero /\ Log!Projected(all) = Log!RolledUp(all, rollups)
         /\ rollups' = rollups
         /\ owed' = owed \cup (IF manage = Log!Done THEN {} ELSE Log!Owing(all))
      BY DEF Log!Start
<1>3. /\ all \in Held /\ \A a \in Models : \A t \in Log!Times : t > now => all[a][t] = 0
      /\ legacy = Log!Zero => all = rows
      BY LegacyOf
<1> HIDE DEF all
<1>4. CASE rollups' = Log!Rebuilt(all, rollups) /\ owed' = Log!Owing(all)
      BY <1>1, <1>3, <1>4, ZeroHeld, RebuildKeeps
<1>5. CASE /\ legacy = Log!Zero /\ Log!Projected(all) = Log!RolledUp(all, rollups)
           /\ rollups' = rollups
           /\ owed' = owed \cup (IF manage = Log!Done THEN {} ELSE Log!Owing(all))
      <2>1. rows' = rows /\ all = rows BY <1>1, <1>3, <1>5
      <2>2. /\ LogTyped /\ Timely /\ Sums /\ rows \in Held /\ rollups \in Summed
            /\ now \in Log!Times /\ now \in Nat /\ owed \in SUBSET Log!Days
            BY TheTimes DEF LogInv, LogTyped
      <2>3. Log!Day(now)' = Log!Day(now) /\ Log!Times' = Log!Times /\ Log!Days' = Log!Days
            BY <1>1 DEF Log!Day, Log!Times, Log!Days
      <2>4. CASE owed' = owed
            <3>1. LogTyped' BY <1>1, <1>5, <2>1, <2>2, <2>4, ZeroHeld DEF LogTyped
            <3>2. Timely' BY <1>1, <1>5, <2>1, <2>2, <2>3, <2>4 DEF Timely, Log!Zero
            <3>3. CASE manage = Log!Done
                  <4>1. now <= now' /\ now' \in Log!Times BY <1>1, <2>2
                  <4>2. UNCHANGED <<kind, rows, rollups, manage, owed>>
                        BY <1>1, <1>5, <2>1, <2>4, <3>3
                  <4>3. Sums' BY <2>2, <4>1, <4>2, SumsRest
                  <4>4. QED BY <3>1, <3>2, <4>3 DEF LogInv
            <3>4. CASE manage # Log!Done /\ Log!Retained(rows) # {}
                  <4>1. \A d \in Log!Days : RowsOn(rows, d) <= RollsOn(rollups, d)
                        BY <2>2 DEF Sums, Covered
                  <4>2. \A d \in Log!Days : Log!StartDay(rows) <= d => RowsOn(rows, d) = RollsOn(rollups, d)
                        BY <1>5, <2>1, <2>2, <3>4, <4>1, TotalsAgree
                  <4>3. \A d \in Log!Days : Live(d)' => Log!StartDay(rows) <= d
                        <5>1. TAKE d \in Log!Days
                        <5>2. /\ Log!Retained(rows)' = Log!Retained(rows)
                              /\ Log!StartDay(rows)' = Log!StartDay(rows)
                              BY <2>1, Zenon DEF Log!Retained, Log!StartDay, Log!Min, Log!Day, Log!Times
                        <5>3. Live(d)' => Log!Day(now) <= d \/ Log!StartDay(rows) <= d
                              BY <2>3, <5>2 DEF Live
                        <5>4. Log!StartDay(rows) <= Log!Day(now)
                              <6>1. PICK t \in Log!Retained(rows) : Log!StartDay(rows) = Log!Day(t)
                                    BY <2>2, <3>4, StartIs
                              <6>2. t \in Log!Times /\ \E a \in Models : rows[a][t] > 0
                                    BY DEF Log!Retained
                              <6>3. t \in Nat BY <6>2, TheTimes
                              <6>4. t <= now BY <2>2, <6>2, <6>3 DEF Timely
                              <6>5. QED BY <2>2, <6>1, <6>3, <6>4, DaysGrow
                        <5>5. /\ d \in Nat /\ Log!StartDay(rows) \in Nat /\ Log!Day(now) \in Nat
                              BY <2>2, <3>4, StartIs, TheTimes, DaysGrow
                        <5>6. QED BY <5>3, <5>4, <5>5
                  <4>4. Covered' BY <1>5, <2>1, <4>1, PrimedSums DEF Covered
                  <4>5. Balanced'
                        <5>1. \A d \in Log!Days : Live(d)' => RowsOn(rows', d) = RollsOn(rollups', d)
                              BY <1>5, <2>1, <4>2, <4>3
                        <5>2. QED BY <5>1, PrimedSums DEF Balanced
                  <4>6. Exact'
                        <5>1. kind' # "sqlite" BY <1>1, <2>2, <3>4 DEF Timely
                        <5>2. QED BY <5>1 DEF Exact
                  <4>7. QED BY <3>1, <3>2, <4>4, <4>5, <4>6 DEF LogInv, Sums
            <3>5. CASE manage # Log!Done /\ Log!Retained(rows) = {}
                  <4>1. owed' = owed \cup Log!Owing(rows) BY <1>5, <2>1, <3>5
                  <4>2. owed' = Log!Owing(rows) BY <2>4, <3>5, <4>1 DEF Log!Owing
                  <4>3. rollups' = Log!Rebuilt(rows, rollups) BY <1>5, <3>5 DEF Log!Rebuilt
                  <4>4. QED BY <1>1, <1>3, <2>1, <4>2, <4>3, ZeroHeld, RebuildKeeps
            <3>6. QED BY <3>3, <3>4, <3>5
      <2>5. CASE manage # Log!Done /\ Log!Retained(rows) = {}
            <3>1. owed' = owed \cup Log!Owing(rows) BY <1>5, <2>1, <2>5
            <3>2. owed' = Log!Owing(rows) BY <2>5, <3>1 DEF Log!Owing
            <3>3. rollups' = Log!Rebuilt(rows, rollups) BY <1>5, <2>5 DEF Log!Rebuilt
            <3>4. QED BY <1>1, <1>3, <2>1, <3>2, <3>3, ZeroHeld, RebuildKeeps
      <2>6. CASE manage = Log!Done \/ Log!Retained(rows) # {}
            BY <1>5, <2>1, <2>4, <2>6 DEF Log!Owing
      <2>7. QED BY <2>5, <2>6
<1>6. QED BY <1>2, <1>4, <1>5

\* A move or a deletion: the days keep their totals, or lose some.
LEMMA AfterSums ==
    ASSUME Clock, LogInv, NEW action \in {"move", "delete"}, NEW source \in Models,
           NEW target \in Models, source # target,
           NEW f, f = Log!After(rows, action, source, target)
    PROVE  /\ f \in Held /\ Log!Retained(f) \subseteq Log!Retained(rows)
           /\ \A a \in Models : \A t \in Log!Times : t > now => f[a][t] = 0
           /\ \A d \in Log!Days : /\ RowsOn(f, d) <= RowsOn(rows, d)
                                  /\ action = "move" => RowsOn(f, d) = RowsOn(rows, d)
<1>1. /\ rows \in Held /\ \A a \in Models : \A t \in Log!Times : rows[a][t] \in Nat
      /\ \A a \in Models : \A t \in Log!Times : t > now => rows[a][t] = 0
      /\ now \in Nat /\ \A t \in Log!Times : t \in Nat
      BY TheTimes DEF LogInv, LogTyped, Timely, Held
<1>2. CASE action = "delete"
      <2>1. \A a \in Models : \A t \in Log!Times : f[a][t] = IF a = source THEN 0 ELSE rows[a][t]
            BY <1>1, <1>2 DEF Log!After, Log!Without, Held
      <2>2. f \in Held BY <1>1, <1>2 DEF Log!After, Log!Without, Held
      <2>3. \A a \in Models : \A t \in Log!Times : f[a][t] <= rows[a][t] /\ (f[a][t] > 0 => rows[a][t] > 0)
            BY <1>1, <2>1
      <2>4. Log!Retained(f) \subseteq Log!Retained(rows) BY <2>3 DEF Log!Retained
      <2>5. \A a \in Models : \A t \in Log!Times : t > now => f[a][t] = 0 BY <1>1, <2>1
      <2>6. ASSUME NEW d \in Log!Days PROVE RowsOn(f, d) <= RowsOn(rows, d)
            <3>1. \A a \in Models : \A t \in TimesOf(d) : f[a][t] <= rows[a][t]
                  BY <2>3 DEF TimesOf
            <3>2. QED BY <1>1, <2>2, <3>1, RowsFewer
      <2>7. QED BY <1>2, <2>2, <2>4, <2>5, <2>6
<1>3. CASE action # "delete"
      <2>1. f = Log!Moved(rows, source, target) BY <1>3 DEF Log!After
      <2>2. f \in Held /\ \A d : RowsOn(f, d) = RowsOn(rows, d) BY <1>1, <2>1, MovedSums
      <2>3. \A a \in Models : \A t \in Log!Times :
                f[a][t] = IF a = target THEN rows[target][t] + rows[source][t]
                          ELSE IF a = source THEN 0 ELSE rows[a][t]
            BY <2>1 DEF Log!Moved
      <2>4. \A a \in Models : \A t \in Log!Times : f[a][t] > 0 => \E b \in Models : rows[b][t] > 0
            <3>1. ASSUME NEW a \in Models, NEW t \in Log!Times, f[a][t] > 0
                  PROVE  \E b \in Models : rows[b][t] > 0
                  <4>1. rows[target][t] \in Nat /\ rows[source][t] \in Nat /\ rows[a][t] \in Nat BY <1>1
                  <4>2. rows[target][t] > 0 \/ rows[source][t] > 0 \/ rows[a][t] > 0
                        BY <2>3, <3>1, <4>1
                  <4>3. QED BY <4>2
            <3>2. QED BY <3>1
      <2>5. Log!Retained(f) \subseteq Log!Retained(rows) BY <2>4 DEF Log!Retained
      <2>6. \A a \in Models : \A t \in Log!Times : t > now => f[a][t] = 0
            <3>1. \A t \in Log!Times : t > now => rows[target][t] = 0 /\ rows[source][t] = 0 BY <1>1
            <3>2. QED BY <1>1, <2>3, <3>1
      <2>7. \A d \in Log!Days : RowsOn(f, d) <= RowsOn(rows, d)
            <3>1. \A d \in Log!Days : RowsOn(rows, d) \in Nat BY <1>1, DayType
            <3>2. QED BY <2>2, <3>1
      <2>8. QED BY <2>2, <2>5, <2>6, <2>7
<1>4. QED BY <1>2, <1>3

\* On PostgreSQL the rows change and the rollups do not.
LEMMA RowsChange ==
    ASSUME Clock, LogInv, up, kind = "postgres", NEW action \in {"move", "delete"},
           NEW source \in Models, NEW target \in Models, source # target,
           rows' = Log!After(rows, action, source, target),
           UNCHANGED <<kind, now, legacy, rollups, owed, up>>,
           manage'.action # "delete" => manage.action # "delete" /\ action = "move"
    PROVE  LogInv'
<1>1. /\ rows' \in Held /\ Log!Retained(rows') \subseteq Log!Retained(rows)
      /\ \A a \in Models : \A t \in Log!Times : t > now => rows'[a][t] = 0
      /\ \A d \in Log!Days : /\ RowsOn(rows', d) <= RowsOn(rows, d)
                             /\ action = "move" => RowsOn(rows', d) = RowsOn(rows, d)
      BY AfterSums
<1>2. /\ LogTyped /\ Timely /\ Sums /\ rows \in Held /\ rollups \in Summed
      /\ now \in Log!Times /\ now \in Nat
      BY TheTimes DEF LogInv, LogTyped
<1>3. LogTyped' BY <1>1, <1>2 DEF LogTyped
<1>4. Log!Day(now)' = Log!Day(now) /\ Log!Times' = Log!Times /\ Log!Days' = Log!Days
      BY DEF Log!Day, Log!Times, Log!Days
<1>5. Timely' BY <1>1, <1>2, <1>4 DEF Timely, Log!Zero
<1>6. \A d \in Log!Days : Live(d)' => Live(d)
      <2>1. Log!Day(now) <= Log!Day(now)
            <3>1. Log!Day(now) \in Nat BY <1>2, DaysGrow
            <3>2. QED BY <3>1
      <2>2. /\ Log!Retained(rows') \subseteq Log!Retained(rows) \cup {now}
            /\ owed \subseteq owed' /\ now <= now' /\ now' \in Log!Times
            BY <1>1, <1>2
      <2>3. QED BY <1>1, <1>2, <2>1, <2>2, LivesOn
<1>7. \A d \in Log!Days : RowsOn(rows', d) \in Nat /\ RowsOn(rows, d) \in Nat /\ RollsOn(rollups, d) \in Nat
      BY <1>1, <1>2, DayType, RollsType
<1>8. rollups' = rollups /\ kind' = kind /\ kind # "sqlite" OBVIOUS
<1>9. \A d \in Log!Days :
          RowsOn(rows', d) - RowsOn(rows, d) <= RollsOn(rollups', d) - RollsOn(rollups, d)
      BY <1>1, <1>7, <1>8
<1>10. manage'.action # "delete" =>
          /\ manage.action # "delete"
          /\ \A d \in Log!Days : Live(d)' =>
                RowsOn(rows', d) - RowsOn(rows, d) = RollsOn(rollups', d) - RollsOn(rollups, d)
      BY <1>1, <1>7, <1>8
<1>11. Sums' BY <1>1, <1>2, <1>6, <1>8, <1>9, <1>10, SumsKeep
<1>12. QED BY <1>3, <1>5, <1>11 DEF LogInv

\* PostgreSQL's second transaction.
LEMMA ManageRebuildsKeeps == ASSUME Clock, LogInv, up, Log!ManageRebuilds PROVE LogInv'
<1>1. manage' = Log!Done /\ UNCHANGED <<kind, now, rows, legacy, up>> BY DEF Log!ManageRebuilds
<1>2. /\ LogTyped /\ Timely /\ Sums /\ legacy = Log!Zero /\ rows \in Held /\ legacy \in Held
      /\ \A a \in Models : \A t \in Log!Times : t > now => rows[a][t] = 0
      BY DEF LogInv, LogTyped, Timely
<1>3. CASE rollups' = Log!Rebuilt(rows, rollups) /\ owed' = Log!Owing(rows)
      BY <1>1, <1>2, <1>3, RebuildKeeps
<1>4. CASE owed' = Log!Days /\ UNCHANGED rollups
      <2>1. LogTyped' BY <1>1, <1>2, <1>4 DEF LogTyped
      <2>2. Log!Day(now)' = Log!Day(now) /\ Log!Times' = Log!Times /\ Log!Days' = Log!Days
            BY <1>1 DEF Log!Day, Log!Times, Log!Days
      <2>3. Timely' BY <1>1, <1>2, <1>4, <2>2 DEF Timely, Log!Zero
      <2>4. \A d \in Log!Days : ~Live(d)' BY <1>4 DEF Live
      <2>5. Covered'
            <3>1. \A d \in Log!Days : RowsOn(rows', d) <= RollsOn(rollups', d)
                  BY <1>1, <1>2, <1>4 DEF Sums, Covered
            <3>2. QED BY <3>1, PrimedSums DEF Covered
      <2>6. Balanced' BY <2>4 DEF Balanced
      <2>7. Exact' BY <2>4 DEF Exact
      <2>8. QED BY <2>1, <2>3, <2>5, <2>6, <2>7 DEF LogInv, Sums
<1>5. QED BY <1>3, <1>4 DEF Log!ManageRebuilds, Log!cacheVars

\* What changes no rows: the clock, the statistics.
LEMMA RestKeeps ==
    ASSUME Clock, LogInv, up \/ now' = now, now' \in Log!Times, now <= now',
           UNCHANGED <<kind, rows, legacy, rollups, manage, up, owed>>
    PROVE  LogInv'
<1>1. LogTyped /\ Timely /\ Sums BY DEF LogInv
<1>2. LogTyped' BY <1>1 DEF LogTyped
<1>3. Sums' BY <1>1, SumsRest
<1>4. now \in Log!Times /\ now \in Nat /\ now' \in Nat /\ Log!Day(now) <= Log!Day(now')
      /\ Log!Day(now) \in Nat /\ Log!Day(now') \in Nat
      BY <1>1, TheTimes, DaysGrow DEF LogTyped
<1>5. Log!Day(now)' = Log!Day(now') /\ Log!Times' = Log!Times /\ Log!Days' = Log!Days
      BY DEF Log!Day, Log!Times, Log!Days
<1>6. \A t \in Log!Times : t \in Nat BY TheTimes
<1>7. \A d \in Log!Days : d \in Nat BY TheTimes
<1>8. \A t \in Log!Times : t > now' => t > now BY <1>4, <1>6
<1>9. \A d \in Log!Days : d > Log!Day(now') => d > Log!Day(now) BY <1>4, <1>7
<1>10. Timely' BY <1>1, <1>5, <1>8, <1>9 DEF Timely, Log!Zero
<1>11. QED BY <1>2, <1>3, <1>10 DEF LogInv

LEMMA ChangeKeeps ==
    ASSUME Clock, LogInv, up, NEW action \in {"move", "delete"},
           NEW source \in Models, NEW target \in Models, source # target,
           rows' = Log!After(rows, action, source, target), UNCHANGED <<kind, now, legacy, up>>,
           \/ /\ kind = "sqlite" /\ UNCHANGED manage
              /\ rollups' = Log!Rebuilt(rows', rollups) /\ owed' = Log!Owing(rows')
           \/ /\ kind # "sqlite" /\ UNCHANGED <<rollups, owed>>
              /\ manage'.action # "delete" => manage.action # "delete" /\ action = "move"
    PROVE  LogInv'
<1>1. CASE kind = "sqlite"
      <2>1. legacy = Log!Zero /\ legacy \in Held /\ manage = Log!Done
            BY <1>1 DEF LogInv, LogTyped, Timely
      <2>2. rows' \in Held /\ \A a \in Models : \A t \in Log!Times : t > now => rows'[a][t] = 0
            BY AfterSums
      <2>3. /\ manage' = Log!Done /\ up' = TRUE /\ legacy' = Log!Zero /\ legacy' \in Held
            /\ rollups' = Log!Rebuilt(rows', rollups) /\ owed' = Log!Owing(rows')
            BY <1>1, <2>1 DEF LogInv, LogTyped
      <2>4. QED BY <2>2, <2>3, RebuildKeeps
<1>2. CASE kind # "sqlite"
      <2>1. kind = "postgres" BY <1>2 DEF LogInv, LogTyped
      <2>2. /\ UNCHANGED <<kind, now, legacy, rollups, owed, up>>
            /\ manage'.action # "delete" => manage.action # "delete" /\ action = "move"
            BY <1>2
      <2>3. QED BY <2>1, <2>2, RowsChange
<1>3. QED BY <1>1, <1>2

LEMMA LogNext == ASSUME Clock, LogInv, [Log!Next]_logVars PROVE LogInv'
<1>1. CASE Log!Start BY <1>1, StartKeeps
<1> DEFINE Same == UNCHANGED <<kind, rows, legacy, rollups, manage, up, owed>>
<1>2. ASSUME now' = now, Same PROVE LogInv'
      <2>1. now \in Log!Times /\ now \in Nat BY TheTimes DEF LogInv, LogTyped
      <2>2. now' \in Log!Times /\ now <= now' BY <1>2, <2>1
      <2>3. QED BY <1>2, <2>2, RestKeeps
<1>3. CASE up /\ Log!Tick
      <2>1. now < MaxTime /\ now' = now + 1 /\ Same BY <1>3 DEF Log!Tick, Log!tableVars
      <2>2. now \in 0..MaxTime /\ MaxTime \in Nat BY DEF LogInv, LogTyped, Log!Times, Clock
      <2>3. now' \in Log!Times /\ now <= now' BY <2>1, <2>2 DEF Log!Times
      <2>4. QED BY <1>3, <2>1, <2>3, RestKeeps
<1>4. CASE up /\ Log!Prune BY <1>4, PruneKeeps
<1>5. ASSUME up, NEW a \in Models, Log!WriteEnd(a) PROVE LogInv' BY <1>5, WriteEndKeeps
<1>6. ASSUME up, NEW from \in Models, NEW to \in Models, Log!RenameModel(from, to) PROVE LogInv'
      <2>1. from # to /\ rows' = Log!After(rows, "move", from, to)
            /\ UNCHANGED <<kind, now, legacy, manage, up>>
            BY <1>6 DEF Log!RenameModel, Log!After
      <2>2. \/ kind = "sqlite" /\ rollups' = Log!Rebuilt(rows', rollups) /\ owed' = Log!Owing(rows')
            \/ kind # "sqlite" /\ UNCHANGED <<rollups, owed>>
            BY <1>6 DEF Log!RenameModel
      <2>3. CASE kind = "sqlite" BY <1>6, <2>1, <2>2, <2>3, ChangeKeeps
      <2>4. CASE kind # "sqlite"
            <3>1. kind = "postgres" BY <2>4 DEF LogInv, LogTyped
            <3>2. QED BY <1>6, <2>1, <2>2, <2>4, <3>1, RowsChange
      <2>5. QED BY <2>3, <2>4
<1>7. ASSUME up, NEW action \in {"move", "delete"}, NEW source \in Models, NEW target \in Models,
             Log!Manage(action, source, target)
      PROVE  LogInv'
      <2>1. /\ manage = Log!Done /\ source # target
            /\ rows' = Log!After(rows, action, source, target) /\ UNCHANGED <<kind, now, legacy, up>>
            BY <1>7 DEF Log!Manage
      <2>2. \/ /\ kind = "sqlite" /\ UNCHANGED manage
               /\ rollups' = Log!Rebuilt(rows', rollups) /\ owed' = Log!Owing(rows')
            \/ /\ kind # "sqlite" /\ UNCHANGED <<rollups, owed>>
               /\ manage' = [action |-> action, source |-> source, target |-> target]
            BY <1>7 DEF Log!Manage
      <2>3. manage.action # "delete" BY <2>1 DEF Log!Done
      <2>4. \/ /\ kind = "sqlite" /\ UNCHANGED manage
               /\ rollups' = Log!Rebuilt(rows', rollups) /\ owed' = Log!Owing(rows')
            \/ /\ kind # "sqlite" /\ UNCHANGED <<rollups, owed>>
               /\ manage'.action # "delete" => manage.action # "delete" /\ action = "move"
            BY <2>2, <2>3
      <2>5. QED BY <1>7, <2>1, <2>4, ChangeKeeps
<1>8. CASE up /\ Log!ManageRebuilds BY <1>8, ManageRebuildsKeeps
<1>9. CASE Log!GetStats BY <1>2, <1>9 DEF Log!GetStats, Log!tableVars
<1>10. ASSUME NEW snapshot \in reads, Log!StatsRead(snapshot) PROVE LogInv'
       BY <1>2, <1>10 DEF Log!StatsRead, Log!tableVars
<1>11. CASE Log!Expire BY <1>2, <1>11 DEF Log!Expire, Log!tableVars
<1>12. CASE UNCHANGED logVars BY <1>2, <1>12 DEF logVars
<1>13. QED BY <1>1, <1>3, <1>4, <1>5, <1>6, <1>7, <1>8, <1>9, <1>10, <1>11, <1>12 DEF Log!Next

LEMMA LogInit == ASSUME Clock, Log!Init PROVE LogInv
<1>1. /\ kind \in {"sqlite", "postgres"} /\ now = 0 /\ rows = Log!Zero /\ rollups = Log!NoDays
      /\ manage = Log!Done /\ up = FALSE /\ owed = {}
      BY DEF Log!Init
<1> DEFINE first == CHOOSE a \in Models : TRUE
<1>2. first \in Models BY DEF Clock
<1>3. legacy = Log!Zero \/ legacy = [Log!Zero EXCEPT ![first][0] = 1] BY DEF Log!Init
<1> HIDE DEF first
<1>4. 0 \in Log!Times BY DEF Log!Times, Clock
<1>5. Log!Day(0) \in Nat /\ \A t \in Log!Times : t \in Nat BY <1>4, TheTimes, DaysGrow
<1>6. /\ legacy \in Held
      /\ \A a \in Models : \A t \in Log!Times : t > 0 => legacy[a][t] = 0
      <2>1. ASSUME NEW a \in Models, NEW t \in Log!Times
            PROVE  /\ Log!Zero[a][t] = 0
                   /\ [Log!Zero EXCEPT ![first][0] = 1][a][t] = IF a = first /\ t = 0 THEN 1 ELSE 0
            BY <1>2, <1>4 DEF Log!Zero
      <2>2. [Log!Zero EXCEPT ![first][0] = 1] \in Held BY <1>2, <1>4 DEF Log!Zero, Held
      <2>3. \A t \in Log!Times : t > 0 => t # 0 OBVIOUS
      <2>4. QED BY <1>3, <2>1, <2>2, <2>3, ZeroHeld
<1>7. LogTyped BY <1>1, <1>4, <1>6, ZeroHeld DEF LogTyped
<1>8. /\ \A a \in Models : \A t \in Log!Times : rows[a][t] = 0
      /\ \A a \in Models : \A d \in Log!Days : rollups[a][d] = 0
      BY <1>1 DEF Log!Zero, Log!NoDays
<1>9. Timely BY <1>1, <1>6, <1>8 DEF Timely
<1>10. ASSUME NEW d \in Log!Days
       PROVE  /\ RowsOn(rows, d) = 0 /\ RollsOn(rollups, d) = 0
              /\ \A a \in Models : DayOf(rows, a, d) = 0
       <2>1. ASSUME NEW a \in Models PROVE DayOf(rows, a, d) = 0
             <3>1. \A t \in TimesOf(d) : rows[a][t] = 0 BY <1>8 DEF TimesOf
             <3>2. QED BY <3>1, DayZero
       <2>2. QED BY <1>8, <2>1, RowsZero, RollsZero
<1>11. Sums BY <1>8, <1>10 DEF Sums, Covered, Balanced, Exact
<1>12. QED BY <1>7, <1>9, <1>11 DEF LogInv

(***************************************************************************)
(* LogStore: the cached statistics have their type, and the theorems.      *)
(***************************************************************************)
LEMMA StatsType == ASSUME Clock, NEW f \in Held PROVE Log!StatsOf(f) \in [Models -> Nat]
<1>1. ASSUME NEW a \in Models PROVE Log!SumFunction(f[a]) \in Nat
      <2>1. DOMAIN f[a] = Log!Times /\ \A t \in Log!Times : f[a][t] \in Nat BY DEF Held
      <2>2. SumFunctionOnSet(f[a], Log!Times) \in Nat BY <2>1, TheTimes, SumNat
      <2>3. QED BY <2>1, <2>2, LogSums
<1>2. QED BY <1>1 DEF Log!StatsOf

LEMMA StatsTypeNext ==
    ASSUME Clock, LogInv, StatsTyped, [Log!Next]_logVars PROVE StatsTyped'
<1> DEFINE value == [Models -> Nat]
<1>1. Log!NoStats \in value BY DEF Log!NoStats
<1>2. Log!Empty.at = "empty" /\ Log!Empty.value \in value BY <1>1 DEF Log!Empty
<1>3. Log!Stats \in value
      <2>1. rows \in Held BY DEF LogInv, LogTyped
      <2>2. QED BY <2>1, StatsType DEF Log!Stats
<1>4. /\ cache.at \in {"empty", "pending", "value"} /\ cache.value \in value
      /\ reads \subseteq value /\ overtaken \in BOOLEAN
      BY DEF StatsTyped
<1> HIDE DEF value
<1>5. SUFFICES /\ cache'.at \in {"empty", "pending", "value"} /\ cache'.value \in value
               /\ reads' \subseteq value /\ overtaken' \in BOOLEAN
      BY DEF StatsTyped, value
<1>6. CASE UNCHANGED <<cache, reads, overtaken>> BY <1>4, <1>6
<1>7. CASE cache' = Log!Empty /\ reads' \subseteq reads /\ overtaken' \in BOOLEAN
      BY <1>2, <1>4, <1>7
<1>8. CASE Log!Invalidate BY <1>7, <1>8 DEF Log!Invalidate
<1>9. CASE Log!Start BY <1>7, <1>9 DEF Log!Start
<1>10. CASE Log!Tick \/ Log!Prune BY <1>6, <1>8, <1>10 DEF Log!Tick, Log!Prune, Log!cacheVars
<1>11. CASE \E a \in Models : Log!WriteEnd(a) BY <1>8, <1>11 DEF Log!WriteEnd
<1>12. CASE \E from, to \in Models : Log!RenameModel(from, to) BY <1>8, <1>12 DEF Log!RenameModel
<1>13. CASE \E action \in {"move", "delete"}, source, target \in Models :
                Log!Manage(action, source, target)
       BY <1>6, <1>8, <1>13 DEF Log!Manage, Log!cacheVars
<1>14. CASE Log!ManageRebuilds BY <1>6, <1>8, <1>14 DEF Log!ManageRebuilds, Log!cacheVars
<1>15. CASE Log!GetStats
       <2>1. overtaken' = overtaken BY <1>15 DEF Log!GetStats
       <2>2. CASE cache' = [at |-> "value", value |-> Log!Stats] /\ UNCHANGED reads
             BY <1>3, <1>4, <2>1, <2>2
       <2>3. CASE reads' = reads \cup {Log!Stats} /\ cache' = [Log!Empty EXCEPT !.at = "pending"]
             <3>1. cache'.at = "pending" /\ cache'.value = Log!Empty.value BY <2>3 DEF Log!Empty
             <3>2. QED BY <1>2, <1>3, <1>4, <2>1, <2>3, <3>1
       <2>4. QED BY <1>15, <2>2, <2>3 DEF Log!GetStats
<1>16. ASSUME NEW snapshot \in reads, Log!StatsRead(snapshot)
       PROVE  /\ cache'.at \in {"empty", "pending", "value"} /\ cache'.value \in value
              /\ reads' \subseteq value /\ overtaken' \in BOOLEAN
       <2>1. /\ overtaken' = overtaken /\ reads' = reads \ {snapshot}
             /\ cache' = [at |-> "value", value |-> snapshot] \/ cache' = Log!Empty
             BY <1>16 DEF Log!StatsRead
       <2>2. snapshot \in value BY <1>4
       <2>3. QED BY <1>2, <1>4, <2>1, <2>2
<1>17. CASE Log!Expire
       <2>1. overtaken' \in BOOLEAN BY <1>4, <1>17 DEF Log!Expire
       <2>2. cache' = Log!Empty /\ reads' = reads BY <1>17 DEF Log!Expire
       <2>3. QED BY <1>7, <2>1, <2>2
<1>18. CASE UNCHANGED logVars BY <1>6, <1>18 DEF logVars
<1>19. QED BY <1>9, <1>10, <1>11, <1>12, <1>13, <1>14, <1>15, <1>16, <1>17, <1>18 DEF Log!Next

LEMMA LogHolds == ASSUME Clock PROVE MCSpec => [](LogInv /\ StatsTyped)
<1>1. MCInit => LogInv /\ StatsTyped
      <2> SUFFICES ASSUME MCInit PROVE LogInv /\ StatsTyped OBVIOUS
      <2>1. Log!Init BY DEF MCInit
      <2>2. LogInv BY <2>1, LogInit
      <2>3. cache = Log!Empty /\ reads = {} /\ overtaken = FALSE BY <2>1 DEF Log!Init
      <2>4. StatsTyped BY <2>3 DEF StatsTyped, Log!Empty, Log!NoStats
      <2>5. QED BY <2>2, <2>4
<1>2. [MCNext]_MCVars => [Log!Next]_logVars
      BY DEF MCNext, StreamNext, StoreNext, PageNext, MCVars
<1>3. LogInv /\ StatsTyped /\ [MCNext]_MCVars => (LogInv /\ StatsTyped)'
      BY <1>2, LogNext, StatsTypeNext
<1>4. QED BY <1>1, <1>3, PTL DEF MCSpec

LEMMA RollupsAre == ASSUME Clock, LogInv, up, manage = Log!Done PROVE Log!RollupsMatch
<1> SUFFICES ASSUME Log!Retained(rows) # {},
                    NEW d \in Log!Days \ owed, d >= Log!StartDay(rows)
             PROVE  /\ kind = "sqlite" => \A a \in Models : rollups[a][d] = Log!OfDay(rows, a, d)
                    /\ Log!SumFunction([a \in Models |-> rollups[a][d]])
                          = Log!SumFunction([a \in Models |-> Log!OfDay(rows, a, d)])
    BY DEF Log!RollupsMatch
<1>1. rows \in Held /\ Sums BY DEF LogInv, LogTyped
<1>2. Log!StartDay(rows) \in Nat /\ d \in Nat BY <1>1, StartIs, TheTimes
<1>3. Log!StartDay(rows) <= d BY <1>2
<1>4. Live(d) BY <1>3 DEF Live
<1>5. kind = "sqlite" => \A a \in Models : rollups[a][d] = Log!OfDay(rows, a, d)
      BY <1>1, <1>4, LogSums DEF Sums, Exact
<1>6. RowsOn(rows, d) = RollsOn(rollups, d)
      <2>1. manage.action # "delete" BY DEF Log!Done
      <2>2. QED BY <1>1, <1>4, <2>1 DEF Sums, Balanced
<1>7. Log!SumFunction([a \in Models |-> rollups[a][d]]) = RollsOn(rollups, d)
      BY LogSums DEF RollsOn
<1>8. Log!SumFunction([a \in Models |-> Log!OfDay(rows, a, d)]) = RowsOn(rows, d)
      <2>1. [a \in Models |-> Log!OfDay(rows, a, d)] = [a \in Models |-> DayOf(rows, a, d)] BY LogSums
      <2>2. QED BY <2>1, LogSums DEF RowsOn
<1>9. QED BY <1>5, <1>6, <1>7, <1>8

LEMMA LogTypes == ASSUME LogTyped, StatsTyped PROVE Log!TypeOK
<1>1. Held = [Models -> [Log!Times -> Nat]] /\ Summed = [Models -> [Log!Days -> Nat]]
      BY DEF Held, Summed
<1>2. {cache.value} \cup reads \subseteq [Models -> Nat] BY DEF StatsTyped
<1>3. \A f \in {rows, legacy} : f \in [Models -> [Log!Times -> Nat]] BY <1>1 DEF LogTyped
<1>4. QED BY <1>1, <1>2, <1>3 DEF LogTyped, StatsTyped, Log!TypeOK

\* The rollups of the retained days are the sums of their rows, model by model on SQLite and
\* day by day on PostgreSQL, for any models, days and requests, after any writes, renames,
\* deletions, prunings and restarts (services/logManager.ts:613).
THEOREM RollupsMatchHolds == ASSUME Clock PROVE MCSpec => []RollupsMatch
<1>1. LogInv /\ StatsTyped => RollupsMatch
      <2> SUFFICES ASSUME LogInv, StatsTyped PROVE Log!TypeOK /\ Log!RollupsMatch
          BY DEF RollupsMatch
      <2>1. Log!TypeOK BY LogTypes DEF LogInv
      <2>2. up /\ manage = Log!Done => Log!RollupsMatch BY RollupsAre
      <2>3. ~(up /\ manage = Log!Done) => Log!RollupsMatch BY DEF Log!RollupsMatch
      <2>4. QED BY <2>1, <2>2, <2>3
<1>2. QED BY <1>1, LogHolds, PTL

(***************************************************************************)
(* LogStore: history.                                                      *)
(***************************************************************************)
\* A rebuild over rows that no deletion has made fewer leaves the sums as they are.
LEMMA RebuildLosesNothing ==
    ASSUME Clock, LogInv, owed = {}, manage.action # "delete", NEW f \in Held,
           Log!Retained(f) # {} => Log!Retained(rows) # {} /\ Log!StartDay(rows) <= Log!StartDay(f),
           \A d \in Log!Days : RowsOn(f, d) = RowsOn(rows, d)
    PROVE  Log!Count(Log!Rebuilt(f, rollups)) = Log!Count(rollups)
<1> DEFINE s == Log!Rebuilt(f, rollups)
<1>1. rollups \in Summed /\ rows \in Held /\ Sums BY DEF LogInv, LogTyped
<1>2. s \in Summed BY <1>1, RebuiltSums
<1>3. ASSUME NEW d \in Log!Days PROVE RollsOn(s, d) = RollsOn(rollups, d)
      <2>1. CASE Log!Retained(f) = {}
            <3>1. s = rollups BY <1>1, <2>1, RebuiltSums
            <3>2. QED BY <3>1
      <2>2. CASE Log!Retained(f) # {} /\ d < Log!StartDay(f)
            <3>1. \A a \in Models : s[a][d] = rollups[a][d] BY <1>1, <2>2, RebuiltSums
            <3> HIDE DEF s
            <3>2. QED BY <3>1, RollsSame
      <2>3. CASE Log!Retained(f) # {} /\ ~(d < Log!StartDay(f))
            <3>1. Log!StartDay(f) \in Nat /\ Log!StartDay(rows) \in Nat /\ d \in Nat
                  BY <1>1, <2>3, StartIs, TheTimes
            <3>2. Log!StartDay(f) <= d /\ Log!StartDay(rows) <= d BY <2>3, <3>1
            <3>3. \A a \in Models : s[a][d] = DayOf(f, a, d) BY <1>1, <2>3, <3>2, RebuiltSums
            <3> HIDE DEF s
            <3>4. RollsOn(s, d) = RowsOn(f, d) BY <3>3, RollsEqual
            <3>5. Live(d) BY <2>3, <3>2 DEF Live
            <3>6. RowsOn(rows, d) = RollsOn(rollups, d) BY <1>1, <3>5 DEF Sums, Balanced
            <3>7. QED BY <3>4, <3>6
      <2>4. QED BY <2>1, <2>2, <2>3
<1> HIDE DEF s
<1>4. QED BY <1>1, <1>2, <1>3, CountsSame DEF s

\* Rows that are retained after a step were retained before it, or are of then.
LEMMA StartsLater ==
    ASSUME Clock, NEW f \in Held, NEW g \in Held, Log!Retained(g) \subseteq Log!Retained(f)
    PROVE  Log!Retained(g) # {} => Log!Retained(f) # {} /\ Log!StartDay(f) <= Log!StartDay(g)
<1>1. SUFFICES ASSUME Log!Retained(g) # {}
               PROVE  Log!Retained(f) # {} /\ Log!StartDay(f) <= Log!StartDay(g)
      OBVIOUS
<1>2. PICK t \in Log!Retained(g) : Log!StartDay(g) = Log!Day(t) BY <1>1, StartIs
<1>3. QED BY <1>2, StartIs

LEMMA RowSums ==
    ASSUME Clock, LogInv, NEW action \in {"move", "delete"}, NEW source \in Models,
           NEW target \in Models, source # target, owed = {}, manage.action # "delete",
           rows' = Log!After(rows, action, source, target),
           rollups' = rollups \/ rollups' = Log!Rebuilt(rows', rollups)
    PROVE  \/ Log!Count(rollups') = Log!Count(rollups)
           \/ \E a \in Models : rows' = Log!Without(rows, a) /\ rows' # rows
<1>1. /\ rows' \in Held /\ Log!Retained(rows') \subseteq Log!Retained(rows)
      /\ \A d \in Log!Days : action = "move" => RowsOn(rows', d) = RowsOn(rows, d)
      BY AfterSums
<1>2. rows \in Held BY DEF LogInv, LogTyped
<1>3. CASE rollups' = rollups BY <1>3
<1>4. ASSUME rollups' = Log!Rebuilt(rows', rollups),
             \A d \in Log!Days : RowsOn(rows', d) = RowsOn(rows, d)
      PROVE  Log!Count(rollups') = Log!Count(rollups)
      <2>1. Log!Retained(rows') # {} =>
                Log!Retained(rows) # {} /\ Log!StartDay(rows) <= Log!StartDay(rows')
            BY <1>1, <1>2, StartsLater
      <2>2. Log!Count(Log!Rebuilt(rows', rollups)) = Log!Count(rollups)
            BY <1>1, <1>4, <2>1, RebuildLosesNothing
      <2>3. QED BY <1>4, <2>2
<1>5. CASE rollups' = Log!Rebuilt(rows', rollups) /\ action = "move" BY <1>1, <1>4, <1>5
<1>6. CASE rollups' = Log!Rebuilt(rows', rollups) /\ action = "delete"
      <2>1. rows' = Log!Without(rows, source) BY <1>6 DEF Log!After
      <2>2. CASE rows' = rows BY <1>4, <1>6, <2>2
      <2>3. QED BY <2>1, <2>2
<1>7. QED BY <1>3, <1>5, <1>6

LEMMA WriteCounts ==
    ASSUME Clock, LogInv, NEW a \in Models, Log!WriteEnd(a)
    PROVE  ~(Log!Count(rollups') < Log!Count(rollups))
<1> DEFINE u == [d \in Log!Days |-> RollsOn(rollups, d)]
           v == [d \in Log!Days |-> RollsOn(rollups', d)]
<1>1. rows \in Held /\ rollups \in Summed /\ now \in Log!Times BY DEF LogInv, LogTyped
<1>2. rollups' = [rollups EXCEPT ![a][Log!Day(now)] = @ + 1] BY DEF Log!WriteEnd
<1>3. rollups' \in Summed /\ \A b \in Models : \A d \in Log!Days : rollups[b][d] <= rollups'[b][d]
      <2>1. \A b \in Models : \A d \in Log!Days : rollups[b][d] \in Nat BY <1>1 DEF Summed
      <2>2. Log!Day(now) \in Log!Days BY <1>1, TheTimes
      <2>3. QED BY <1>1, <1>2, <2>1, <2>2 DEF Summed
<1>4. \A d \in Log!Days : RollsOn(rollups, d) \in Nat /\ RollsOn(rollups', d) \in Nat
      BY <1>1, <1>3, RollsType
<1>5. ASSUME NEW d \in Log!Days PROVE RollsOn(rollups, d) <= RollsOn(rollups', d)
      <2> DEFINE p == [b \in Models |-> rollups[b][d]]
                 q == [b \in Models |-> rollups'[b][d]]
      <2>1. \A b \in Models : p[b] \in Int /\ q[b] \in Int /\ p[b] <= q[b] BY <1>1, <1>3 DEF Summed
      <2> HIDE DEF p, q
      <2>2. SumFunctionOnSet(p, Models) <= SumFunctionOnSet(q, Models) BY <2>1, SumAtMost DEF Clock
      <2>3. QED BY <2>2 DEF p, q, RollsOn
<1>6. \A d \in Log!Days : u[d] \in Int /\ v[d] \in Int /\ u[d] <= v[d] BY <1>4, <1>5
<1> HIDE DEF u, v
<1>7. SumFunctionOnSet(u, Log!Days) <= SumFunctionOnSet(v, Log!Days) BY <1>6, TheTimes, SumAtMost
<1>8. Log!Count(rollups) <= Log!Count(rollups') BY <1>1, <1>3, <1>7, RolledCount DEF u, v
<1>9. Log!Count(rollups) \in Nat /\ Log!Count(rollups') \in Nat BY <1>1, <1>3, CountType
<1>10. QED BY <1>8, <1>9

LEMMA StartCounts ==
    ASSUME Clock, LogInv, owed = {}, manage.action # "delete", Log!Start, rollups' # rollups
    PROVE  ~(Log!Count(rollups') < Log!Count(rollups))
<1> DEFINE all == [a \in Models |-> [t \in Log!Times |-> rows[a][t] + legacy[a][t]]]
<1>1. rollups' = Log!Rebuilt(all, rollups) BY DEF Log!Start
<1>2. all \in Held /\ (legacy = Log!Zero => all = rows) BY LegacyOf
<1> HIDE DEF all
<1>3. rollups \in Summed /\ rollups' \in Summed /\ rows \in Held
      BY <1>1, <1>2, RebuiltSums DEF LogInv, LogTyped
<1>4. Log!Count(rollups) \in Nat /\ Log!Count(rollups') \in Nat BY <1>3, CountType
<1>5. CASE up
      <2>1. all = rows BY <1>2, <1>5 DEF LogInv, Timely
      <2>2. Log!Retained(rows) # {} => Log!StartDay(rows) <= Log!StartDay(rows)
            <3>1. Log!Retained(rows) # {} => Log!StartDay(rows) \in Nat BY <1>3, StartIs, TheTimes
            <3>2. QED BY <3>1
      <2>3. Log!Count(Log!Rebuilt(rows, rollups)) = Log!Count(rollups)
            BY <1>3, <2>2, RebuildLosesNothing
      <2>4. QED BY <1>1, <1>4, <2>1, <2>3
<1>6. CASE ~up
      <2>1. \A a \in Models : \A d \in Log!Days : rollups[a][d] = 0
            BY <1>6 DEF LogInv, Timely, Log!NoDays
      <2>2. \A d \in Log!Days : RollsOn(rollups, d) = 0 BY <2>1, RollsZero
      <2> DEFINE u == [d \in Log!Days |-> RollsOn(rollups, d)]
      <2>3. \A d \in Log!Days : u[d] = 0 BY <2>2
      <2> HIDE DEF u
      <2>4. SumFunctionOnSet(u, Log!Days) = 0 BY <2>3, TheTimes, SumZero
      <2>5. Log!Count(rollups) = 0 BY <1>3, <2>4, RolledCount DEF u
      <2>6. QED BY <1>4, <2>5
<1>7. QED BY <1>5, <1>6

LEMMA HistoryStays == ASSUME Clock, LogInv, [Log!Next]_logVars PROVE Log!HistoryStep
<1> SUFFICES ASSUME Log!Count(rollups') < Log!Count(rollups), owed = {}, manage.action # "delete"
             PROVE  \E a \in Models : rows' = Log!Without(rows, a) /\ rows' # rows
    BY DEF Log!HistoryStep
<1>1. rollups \in Summed /\ rows \in Held BY DEF LogInv, LogTyped
<1>2. Log!Count(rollups) \in Nat BY <1>1, CountType
<1>3. rollups' # rollups /\ Log!Count(rollups') # Log!Count(rollups) BY <1>2
<1>4. CASE Log!Start BY <1>3, <1>4, StartCounts
<1>5. ASSUME NEW a \in Models, Log!WriteEnd(a) PROVE FALSE BY <1>5, WriteCounts
<1>6. ASSUME NEW from \in Models, NEW to \in Models, Log!RenameModel(from, to)
      PROVE  \E a \in Models : rows' = Log!Without(rows, a) /\ rows' # rows
      <2>1. /\ from # to /\ rows' = Log!After(rows, "move", from, to)
            /\ rollups' = rollups \/ rollups' = Log!Rebuilt(rows', rollups)
            BY <1>6 DEF Log!RenameModel, Log!After
      <2>2. QED BY <1>3, <1>6, <2>1, RowSums
<1>7. ASSUME NEW action \in {"move", "delete"}, NEW source \in Models, NEW target \in Models,
             Log!Manage(action, source, target)
      PROVE  \E a \in Models : rows' = Log!Without(rows, a) /\ rows' # rows
      <2>1. /\ source # target /\ rows' = Log!After(rows, action, source, target)
            /\ rollups' = rollups \/ rollups' = Log!Rebuilt(rows', rollups)
            BY <1>7 DEF Log!Manage
      <2>2. QED BY <1>3, <1>7, <2>1, RowSums
<1>8. CASE Log!ManageRebuilds
      <2>1. rollups' = Log!Rebuilt(rows, rollups) BY <1>3, <1>8 DEF Log!ManageRebuilds, Log!cacheVars
      <2>2. Log!Retained(rows) # {} => Log!StartDay(rows) <= Log!StartDay(rows)
            <3>1. Log!Retained(rows) # {} => Log!StartDay(rows) \in Nat BY <1>1, StartIs, TheTimes
            <3>2. QED BY <3>1
      <2>3. Log!Count(Log!Rebuilt(rows, rollups)) = Log!Count(rollups)
            BY <1>1, <2>2, RebuildLosesNothing
      <2>4. QED BY <1>3, <2>1, <2>3
<1>9. ASSUME UNCHANGED rollups PROVE FALSE BY <1>3, <1>9
<1>10. CASE Log!Tick \/ Log!Prune \/ Log!GetStats \/ Log!Expire
       BY <1>9, <1>10 DEF Log!Tick, Log!Prune, Log!GetStats, Log!Expire, Log!tableVars
<1>11. ASSUME NEW snapshot \in reads, Log!StatsRead(snapshot) PROVE FALSE
       BY <1>9, <1>11 DEF Log!StatsRead, Log!tableVars
<1>12. CASE UNCHANGED logVars BY <1>9, <1>12 DEF logVars
<1>13. QED BY <1>4, <1>5, <1>6, <1>7, <1>8, <1>10, <1>11, <1>12 DEF Log!Next

\* What has been summed is lost to a deletion only, and neither to pruning nor to a restart or
\* a rebuild after it; and retention takes what lies before its midnight: for any models, days,
\* requests and keys (services/logManager.ts:1526, 2120).
THEOREM HistoryKeptHolds == ASSUME Clock, HistoryBounds PROVE MCSpec => HistoryKept
<1>1. LogInv /\ [MCNext]_MCVars => [component = "log" => Log!HistoryStep]_logVars
      <2>1. [MCNext]_MCVars => [Log!Next]_logVars
            BY DEF MCNext, StreamNext, StoreNext, PageNext, MCVars
      <2>2. QED BY <2>1, HistoryStays
<1>2. QED BY <1>1, LogHolds, RetentionHolds, PTL DEF HistoryKept, MCSpec

(***************************************************************************)
(* Usage: rows and groups.  The rollups of a group are the sums of its     *)
(* rows; a row without a recorded cost has no more cached than input       *)
(* tokens, so that its price is linear in them; a failed row costs 0.      *)
(***************************************************************************)
Priced == Rates \subseteq Nat /\ MaxPrompt \in Nat

Columns == {"requests", "successes", "input", "cached", "cost"}
SumType5 == [requests : Nat, successes : Nat, input : Nat, cached : Nat, cost : Nat]
RowType ==
    [key : Bill!Keys \cup {Bill!NoKey}, mask : Bill!Keys, status : {"success", "failed"},
     input : Nat, cached : Nat, cost : Nat \cup {Bill!NoCost}, recent : BOOLEAN]

Proper(entry) ==
    /\ entry \in RowType
    /\ entry.mask = IF entry.key = Bill!NoKey THEN "k1" ELSE Bill!Mask(entry.key)
    /\ entry.cost = Bill!NoCost => Bill!Succeeded(entry) /\ entry.cached <= entry.input
    /\ ~Bill!Succeeded(entry) => entry.cost = 0

\* What a row adds to the sums of its group, and that of every row.
Share(entry) ==
    Bill!Sums(1, Bill!Success(entry), Bill!SuccessInput(entry), Bill!SuccessCached(entry),
              Bill!SuccessCost(entry))
Line(rs, c) == [i \in DOMAIN rs |-> Share(rs[i])[c]]
InGroup(rs, R, g) == {i \in R : Bill!Group(rs[i]) = g}
Part(rs, c, R) == SumFunctionOnSet(Line(rs, c), R)

UsageInv ==
    /\ rate \in Rates /\ shared \in BOOLEAN
    /\ \E n \in Nat : DOMAIN billed = 1..n
    /\ \A i \in DOMAIN billed : Proper(billed[i])
    /\ DOMAIN sums = {Bill!Group(billed[i]) : i \in DOMAIN billed}
    /\ \A g \in DOMAIN sums :
          /\ sums[g] \in SumType5
          /\ \A c \in Columns : sums[g][c] = Part(billed, c, InGroup(billed, DOMAIN billed, g))

LEMMA BillSums == \A f : Bill!SumFunction(f) = SumFunctionOnSet(f, DOMAIN f)
<1>1. \A f, S : Bill!SumFunctionOnSet(f, S) = SumFunctionOnSet(f, S)
      BY Zenon DEF Bill!SumFunctionOnSet, SumFunctionOnSet, Bill!FoldFunctionOnSet, FoldFunctionOnSet,
          Bill!MapThenFoldSet, MapThenFoldSet
<1>2. QED BY <1>1 DEF Bill!SumFunction

LEMMA ShareType ==
    ASSUME NEW entry, Proper(entry)
    PROVE  /\ Share(entry) \in SumType5 /\ \A c \in Columns : Share(entry)[c] \in Nat
           /\ Share(entry).requests = 1 /\ Share(entry).successes = Bill!Success(entry)
           /\ Share(entry).input = Bill!SuccessInput(entry)
           /\ Share(entry).cached = Bill!SuccessCached(entry) /\ Share(entry).cost = Bill!SuccessCost(entry)
<1>1. /\ Bill!Success(entry) \in Nat /\ Bill!SuccessInput(entry) \in Nat
      /\ Bill!SuccessCached(entry) \in Nat /\ Bill!SuccessCost(entry) \in Nat
      BY DEF Proper, RowType, Bill!Success, Bill!SuccessInput, Bill!SuccessCached, Bill!SuccessCost
<1>2. QED BY <1>1 DEF Share, Bill!Sums, SumType5, Columns

LEMMA LineIs ==
    ASSUME NEW rs, \A i \in DOMAIN rs : Proper(rs[i]), NEW c \in Columns, NEW i \in DOMAIN rs
    PROVE  Line(rs, c)[i] \in Nat /\ Line(rs, c)[i] = Share(rs[i])[c]
BY ShareType DEF Line

LEMMA BilledFinite ==
    ASSUME UsageInv, NEW R \in SUBSET DOMAIN billed PROVE IsFiniteSet(R)
<1>1. PICK n \in Nat : DOMAIN billed = 1..n BY DEF UsageInv
<1>2. IsFiniteSet(1..n) BY FS_Interval
<1>3. QED BY <1>1, <1>2, FS_Subset

LEMMA PartType ==
    ASSUME NEW rs, \A i \in DOMAIN rs : Proper(rs[i]), NEW R \in SUBSET DOMAIN rs, IsFiniteSet(R),
           NEW c \in Columns
    PROVE  Part(rs, c, R) \in Nat
<1> DEFINE f == Line(rs, c)
<1>1. \A i \in R : f[i] \in Nat BY LineIs
<1> HIDE DEF f
<1>2. SumFunctionOnSet(f, R) \in Nat BY <1>1, SumNat
<1>3. QED BY <1>2 DEF Part, f

\* SumRows() column by column.
LEMMA SumRowsAre ==
    ASSUME NEW R \in SUBSET DOMAIN billed, IsFiniteSet(R), \A i \in DOMAIN billed : Proper(billed[i])
    PROVE  /\ Bill!SumRows(R) \in SumType5
           /\ \A c \in Columns : Bill!SumRows(R)[c] = Part(billed, c, R)
<1> DEFINE n == [i \in R |-> Bill!One(billed[i])]
           s == [i \in R |-> Bill!Success(billed[i])]
           t == [i \in R |-> Bill!SuccessInput(billed[i])]
           h == [i \in R |-> Bill!SuccessCached(billed[i])]
           b == [i \in R |-> Bill!SuccessCost(billed[i])]
<1>1. Bill!SumRows(R) = Bill!Sums(Bill!SumFunction(n), Bill!SumFunction(s), Bill!SumFunction(t),
                                  Bill!SumFunction(h), Bill!SumFunction(b))
      BY DEF Bill!SumRows, Bill!SumOf
<1>2. \A i \in R : /\ n[i] = Line(billed, "requests")[i] /\ s[i] = Line(billed, "successes")[i]
                   /\ t[i] = Line(billed, "input")[i] /\ h[i] = Line(billed, "cached")[i]
                   /\ b[i] = Line(billed, "cost")[i]
      BY LineIs, ShareType DEF Columns, Bill!One
<1>3. DOMAIN n = R /\ DOMAIN s = R /\ DOMAIN t = R /\ DOMAIN h = R /\ DOMAIN b = R OBVIOUS
<1> HIDE DEF n, s, t, h, b
<1>4. /\ Bill!SumFunction(n) = Part(billed, "requests", R)
      /\ Bill!SumFunction(s) = Part(billed, "successes", R)
      /\ Bill!SumFunction(t) = Part(billed, "input", R)
      /\ Bill!SumFunction(h) = Part(billed, "cached", R)
      /\ Bill!SumFunction(b) = Part(billed, "cost", R)
      <2>1. /\ SumFunctionOnSet(n, R) = SumFunctionOnSet(Line(billed, "requests"), R)
            /\ SumFunctionOnSet(s, R) = SumFunctionOnSet(Line(billed, "successes"), R)
            /\ SumFunctionOnSet(t, R) = SumFunctionOnSet(Line(billed, "input"), R)
            /\ SumFunctionOnSet(h, R) = SumFunctionOnSet(Line(billed, "cached"), R)
            /\ SumFunctionOnSet(b, R) = SumFunctionOnSet(Line(billed, "cost"), R)
            <3>1. \A i \in R : n[i] = Line(billed, "requests")[i] BY <1>2
            <3>2. \A i \in R : s[i] = Line(billed, "successes")[i] BY <1>2
            <3>3. \A i \in R : t[i] = Line(billed, "input")[i] BY <1>2
            <3>4. \A i \in R : h[i] = Line(billed, "cached")[i] BY <1>2
            <3>5. \A i \in R : b[i] = Line(billed, "cost")[i] BY <1>2
            <3>6. SumFunctionOnSet(n, R) = SumFunctionOnSet(Line(billed, "requests"), R) BY <3>1, SumSame
            <3>7. SumFunctionOnSet(s, R) = SumFunctionOnSet(Line(billed, "successes"), R) BY <3>2, SumSame
            <3>8. SumFunctionOnSet(t, R) = SumFunctionOnSet(Line(billed, "input"), R) BY <3>3, SumSame
            <3>9. SumFunctionOnSet(h, R) = SumFunctionOnSet(Line(billed, "cached"), R) BY <3>4, SumSame
            <3>10. SumFunctionOnSet(b, R) = SumFunctionOnSet(Line(billed, "cost"), R) BY <3>5, SumSame
            <3>11. QED BY <3>6, <3>7, <3>8, <3>9, <3>10
      <2>2. QED BY <1>3, <2>1, BillSums DEF Part
<1>5. \A c \in Columns : Part(billed, c, R) \in Nat BY PartType
<1>6. QED BY <1>1, <1>4, <1>5 DEF Bill!Sums, SumType5, Columns

LEMMA BillCardinality == \A S : Bill!Cardinality(S) = Cardinality(S)
BY DEF Bill!Cardinality, Cardinality

LEMMA KeyMasks ==
    ASSUME NEW k \in Bill!Keys PROVE Bill!Mask(k) \in Bill!Keys /\ k # Bill!NoKey
BY DEF Bill!Mask, Bill!Keys, Bill!NoKey

\* Rows that are the same have the same sums.
LEMMA PartSame ==
    ASSUME NEW rs, NEW qs, NEW R, IsFiniteSet(R), R \subseteq DOMAIN rs, R \subseteq DOMAIN qs,
           \A i \in R : Share(rs[i]) = Share(qs[i]), NEW c
    PROVE  Part(rs, c, R) = Part(qs, c, R)
<1> DEFINE f == Line(rs, c)
           h == Line(qs, c)
<1>1. \A i \in R : f[i] = h[i] BY DEF Line
<1> HIDE DEF f, h
<1>2. SumFunctionOnSet(f, R) = SumFunctionOnSet(h, R) BY <1>1, SumSame
<1>3. QED BY <1>2 DEF Part, f, h

LEMMA NoCostIs == Bill!NoCost = -1 BY DEF Bill!NoCost

LEMMA ProperSuccess ==
    ASSUME NEW k \in Bill!Keys, NEW price \in Nat, NEW p \in Nat, NEW c \in Nat, c <= p
    PROVE  Proper(Bill!Row(k, "success", Bill!Billed(p, c),
                           Bill!CostAt(price, Bill!Billed(p, c).input, Bill!Billed(p, c).cached)))
<1>1. Bill!Billed(p, c).input = p - c /\ Bill!Billed(p, c).cached = c BY DEF Bill!Billed
<1> DEFINE cost == Bill!CostAt(price, p - c, c)
<1>2. cost \in Nat
      <2>1. (IF p - c > c THEN (p - c) - c ELSE 0) \in Nat OBVIOUS
      <2>2. \A u, v \in Nat : u * v \in Nat OBVIOUS
      <2>3. (IF p - c > c THEN (p - c) - c ELSE 0) * price \in Nat BY <2>1, <2>2
      <2>4. QED BY <2>3 DEF Bill!CostAt
<1> HIDE DEF cost
<1>3. Bill!Row(k, "success", Bill!Billed(p, c), cost)
        = [key |-> k, mask |-> Bill!Mask(k), status |-> "success", input |-> p - c,
           cached |-> c, cost |-> cost, recent |-> TRUE]
      BY <1>1, KeyMasks DEF Bill!Row
<1> DEFINE entry == [key |-> k, mask |-> Bill!Mask(k), status |-> "success", input |-> p - c,
                   cached |-> c, cost |-> cost, recent |-> TRUE]
<1>4. entry \in RowType BY <1>2, KeyMasks DEF RowType
<1>5. /\ entry.mask = IF entry.key = Bill!NoKey THEN "k1" ELSE Bill!Mask(entry.key)
      /\ entry.cost # Bill!NoCost /\ Bill!Succeeded(entry)
      BY <1>2, KeyMasks, NoCostIs DEF Bill!Succeeded
<1>6. Proper(entry) BY <1>4, <1>5 DEF Proper
<1>7. QED BY <1>1, <1>3, <1>6 DEF cost

LEMMA ProperFailed ==
    ASSUME NEW k \in Bill!Keys PROVE Proper(Bill!Row(k, "failed", Bill!Billed(0, 0), 0))
BY KeyMasks, NoCostIs DEF Bill!Row, Bill!Billed, Proper, RowType, Bill!Succeeded

LEMMA ProperOlder ==
    ASSUME NEW k \in Bill!Keys \cup {Bill!NoKey} PROVE Proper(Bill!Older(k))
<1>1. "k1" \in Bill!Keys BY DEF Bill!Keys
<1> DEFINE mask == IF k = Bill!NoKey THEN "k1" ELSE Bill!Mask(k)
           entry == [key |-> k, mask |-> mask, status |-> "success", input |-> 2, cached |-> 1,
                   cost |-> Bill!NoCost, recent |-> FALSE]
<1>2. mask \in Bill!Keys BY <1>1, KeyMasks
<1> DEFINE b == [input |-> 2, cached |-> 1]
           young == Bill!Row(k, "success", b, Bill!NoCost)
<1>3. young = [key |-> k, mask |-> mask, status |-> "success", input |-> 2, cached |-> 1,
               cost |-> Bill!NoCost, recent |-> TRUE]
      <2>1. b.input = 2 /\ b.cached = 1 OBVIOUS
      <2> HIDE DEF b
      <2>2. young = [key |-> k, mask |-> mask, status |-> "success", input |-> b.input,
                     cached |-> b.cached, cost |-> Bill!NoCost, recent |-> TRUE]
            BY Zenon DEF Bill!Row
      <2>3. QED BY <2>1, <2>2
<1>4. entry.mask = IF entry.key = Bill!NoKey THEN "k1" ELSE Bill!Mask(entry.key) OBVIOUS
<1> HIDE DEF mask
<1>5. entry \in RowType BY <1>2 DEF RowType
<1>6. Bill!Succeeded(entry) /\ entry.cached <= entry.input BY DEF Bill!Succeeded
<1>7. Bill!Older(k) = entry
      <2>1. Bill!Older(k) = [young EXCEPT !.recent = FALSE] BY DEF Bill!Older
      <2> HIDE DEF young
      <2>2. QED BY <1>3, <2>1
<1> HIDE DEF entry
<1>8. QED BY <1>4, <1>5, <1>6, <1>7 DEF Proper

LEMMA WriteKeeps ==
    ASSUME UsageInv, NEW entry, Proper(entry), Bill!Write(entry)
    PROVE  UsageInv'
<1>1. PICK n \in Nat : DOMAIN billed = 1..n BY DEF UsageInv
<1>2. Bill!Cardinality(DOMAIN billed) = n BY <1>1, BillCardinality, FS_Interval
<1>3. /\ billed' = [i \in 1..(n + 1) |-> IF i \in 1..n THEN billed[i] ELSE entry]
      /\ sums' = Bill!UpdateDailyRollup(sums, entry) /\ UNCHANGED <<rate, shared>>
      BY <1>1, <1>2 DEF Bill!Write
<1> DEFINE all == DOMAIN billed
           own == Bill!Group(entry)
           new == n + 1
<1>4. /\ DOMAIN billed' = all \cup {new} /\ new \notin all /\ IsFiniteSet(all)
      /\ \A i \in all : billed'[i] = billed[i]
      /\ billed'[new] = entry
      <2>1. DOMAIN billed' = 1..(n + 1) BY <1>3
      <2>2. 1..(n + 1) = 1..n \cup {n + 1} /\ n + 1 \notin 1..n /\ n + 1 \in 1..(n + 1) OBVIOUS
      <2>3. IsFiniteSet(1..n) BY FS_Interval
      <2>4. \A i \in 1..n : billed'[i] = billed[i] BY <1>3, <2>2
      <2>5. billed'[n + 1] = entry BY <1>3, <2>2
      <2>6. QED BY <1>1, <2>1, <2>2, <2>3, <2>4, <2>5
<1>5. \A i \in all : Proper(billed[i]) BY DEF UsageInv
<1>6. \A i \in DOMAIN billed' : Proper(billed'[i]) BY <1>4, <1>5
<1>7. (\A i \in DOMAIN billed' : Proper(billed'[i])) => (\A i \in DOMAIN billed : Proper(billed[i]))'
      BY <1>3 DEF Proper, Bill!Mask, RowType, Bill!Succeeded, Bill!Keys, Bill!NoKey, Bill!NoCost
<1>8. DOMAIN sums = {Bill!Group(billed[i]) : i \in all} BY DEF UsageInv
<1>9. DOMAIN sums' = DOMAIN sums \cup {own}
      BY <1>3 DEF Bill!UpdateDailyRollup
<1>10. DOMAIN sums' = {Bill!Group(billed'[i]) : i \in DOMAIN billed'} BY <1>4, <1>8, <1>9
<1>11. ASSUME NEW g \in DOMAIN sums', g # own
       PROVE  sums'[g] \in SumType5
              /\ \A c \in Columns : sums'[g][c] = Part(billed', c, InGroup(billed', DOMAIN billed', g))
       <2>1. g \in DOMAIN sums /\ sums'[g] = sums[g]
             BY <1>3, <1>9, <1>11 DEF Bill!UpdateDailyRollup
       <2> DEFINE R == InGroup(billed, all, g)
       <2>2. InGroup(billed', DOMAIN billed', g) = R BY <1>4, <1>11 DEF InGroup
       <2>3. R \subseteq all /\ IsFiniteSet(R) BY <1>4, FS_Subset DEF InGroup
       <2>4. R \subseteq DOMAIN billed' /\ \A i \in R : Share(billed'[i]) = Share(billed[i])
             BY <1>4, <2>3
       <2> HIDE DEF R
       <2>5. \A c \in Columns : Part(billed', c, R) = Part(billed, c, R) BY <2>3, <2>4, PartSame
       <2>6. QED BY <2>1, <2>2, <2>5 DEF UsageInv, R
<1>12. own \in DOMAIN sums'
       /\ sums'[own] \in SumType5
       /\ \A c \in Columns : sums'[own][c] = Part(billed', c, InGroup(billed', DOMAIN billed', own))
       <2> DEFINE R == InGroup(billed, all, own)
       <2>1. InGroup(billed', DOMAIN billed', own) = R \cup {new} /\ new \notin R
             BY <1>4 DEF InGroup
       <2>2. R \subseteq all /\ IsFiniteSet(R) BY <1>4, FS_Subset DEF InGroup
       <2>3. R \subseteq DOMAIN billed' /\ \A i \in R : Share(billed'[i]) = Share(billed[i])
             BY <1>4, <2>2
       <2>4. Bill!At(sums, own) \in SumType5 /\ \A c \in Columns : Bill!At(sums, own)[c] = Part(billed, c, R)
             <3>1. CASE own \in DOMAIN sums BY <3>1 DEF UsageInv, Bill!At
             <3>2. CASE own \notin DOMAIN sums
                   <4>1. R = {} BY <1>8, <3>2 DEF InGroup
                   <4>2. \A c \in Columns : Part(billed, c, R) = 0 BY <4>1, SumEmpty DEF Part
                   <4>3. Bill!At(sums, own) = Bill!Sums(0, 0, 0, 0, 0)
                         BY <3>2 DEF Bill!At, Bill!NoSums
                   <4>4. QED BY <4>2, <4>3 DEF Bill!Sums, Columns, SumType5
             <3>3. QED BY <3>1, <3>2
       <2> HIDE DEF R
       <2>5. ASSUME NEW c \in Columns
             PROVE  Part(billed', c, R \cup {new}) = Bill!At(sums, own)[c] + Share(entry)[c]
             <3> DEFINE f == Line(billed', c)
             <3>1. \A i \in DOMAIN billed' : f[i] \in Nat /\ f[i] = Share(billed'[i])[c]
                   BY <1>6, LineIs
             <3>2. f[new] = Share(entry)[c] /\ f[new] \in Int /\ \A i \in R : f[i] \in Int
                   BY <1>4, <2>3, <3>1
             <3> HIDE DEF f
             <3>3. SumFunctionOnSet(f, R \cup {new}) = f[new] + SumFunctionOnSet(f, R)
                   BY <2>1, <2>2, <3>2, SumMore
             <3>4. SumFunctionOnSet(f, R) = Part(billed, c, R)
                   <4>1. Part(billed', c, R) = Part(billed, c, R) BY <2>2, <2>3, PartSame
                   <4>2. QED BY <4>1 DEF Part, f
             <3>5. Part(billed, c, R) \in Nat BY <1>5, <2>2, PartType
             <3>6. Bill!At(sums, own)[c] = Part(billed, c, R) BY <2>4
             <3>7. QED BY <3>2, <3>3, <3>4, <3>5, <3>6 DEF Part, f
       <2>6. sums'[own] = Bill!Added(Bill!At(sums, own), entry)
             BY <1>3 DEF Bill!UpdateDailyRollup
       <2>7. /\ Bill!Added(Bill!At(sums, own), entry) \in SumType5
             /\ \A c \in Columns : Bill!Added(Bill!At(sums, own), entry)[c]
                                      = Bill!At(sums, own)[c] + Share(entry)[c]
             <3>1. /\ Share(entry) \in SumType5
                   /\ Share(entry).requests = 1 /\ Share(entry).successes = Bill!Success(entry)
                   /\ Share(entry).input = Bill!SuccessInput(entry)
                   /\ Share(entry).cached = Bill!SuccessCached(entry)
                   /\ Share(entry).cost = Bill!SuccessCost(entry)
                   BY ShareType
             <3> HIDE DEF own
             <3>2. QED BY <2>4, <3>1 DEF Bill!Added, Bill!Sums, SumType5, Columns
       <2>8. QED BY <1>9, <2>1, <2>5, <2>6, <2>7
<1>13. (\E k \in Nat : DOMAIN billed = 1..k)'
       <2>1. n + 1 \in Nat /\ DOMAIN billed' = 1..(n + 1) BY <1>3
       <2>2. QED BY <2>1
<1>14. \A g \in DOMAIN sums' :
          /\ sums'[g] \in SumType5
          /\ \A c \in Columns : sums'[g][c] = Part(billed', c, InGroup(billed', DOMAIN billed', g))
       BY <1>11, <1>12
<1>15. QED
       <2>1. rate' \in Rates /\ shared' \in BOOLEAN BY <1>3 DEF UsageInv
       <2>2. (\A i \in DOMAIN billed : Proper(billed[i]))' BY <1>6, <1>7
       <2>3. (DOMAIN sums = {Bill!Group(billed[i]) : i \in DOMAIN billed})'
             BY <1>10 DEF Bill!Group, Bill!NoCost
       <2>4. (\A g \in DOMAIN sums :
                /\ sums[g] \in SumType5
                /\ \A c \in Columns : sums[g][c] = Part(billed, c, InGroup(billed, DOMAIN billed, g)))'
             <3>1. \A c, g : Part(billed, c, InGroup(billed, DOMAIN billed, g))'
                                = Part(billed', c, InGroup(billed', DOMAIN billed', g))
                   BY Zenon DEF Part, Line, InGroup, Share, Bill!Sums, Bill!Success, Bill!SuccessInput,
                      Bill!SuccessCached, Bill!SuccessCost, Bill!Succeeded, Bill!Group, Bill!NoCost
             <3>2. QED BY <1>14, <3>1
       <2>5. QED BY <1>13, <2>1, <2>2, <2>3, <2>4 DEF UsageInv

\* A day passes: no row's group or share depends on whether it is recent.
LEMMA DayKeeps == ASSUME UsageInv, Bill!DayPasses PROVE UsageInv'
<1>1. /\ billed' = [i \in DOMAIN billed |-> [billed[i] EXCEPT !.recent = FALSE]]
      /\ UNCHANGED <<rate, shared, sums>>
      BY DEF Bill!DayPasses
<1>2. ASSUME NEW entry, Proper(entry)
      PROVE  LET old == [entry EXCEPT !.recent = FALSE] IN
             Proper(old) /\ Bill!Group(old) = Bill!Group(entry) /\ Share(old) = Share(entry)
      <2> DEFINE old == [entry EXCEPT !.recent = FALSE]
      <2>1. entry \in RowType BY <1>2 DEF Proper
      <2>2. /\ old \in RowType /\ old.key = entry.key /\ old.mask = entry.mask /\ old.status = entry.status
            /\ old.input = entry.input /\ old.cached = entry.cached /\ old.cost = entry.cost
            BY <2>1 DEF RowType
      <2> HIDE DEF old
      <2>3. Proper(old) BY <1>2, <2>2 DEF Proper, Bill!Succeeded
      <2>4. Bill!Group(old) = Bill!Group(entry) BY <2>2 DEF Bill!Group
      <2>5. Share(old) = Share(entry)
            BY <2>2 DEF Share, Bill!Success, Bill!SuccessInput, Bill!SuccessCached,
                        Bill!SuccessCost, Bill!Succeeded
      <2>6. QED BY <2>3, <2>4, <2>5 DEF old
<1>3. /\ DOMAIN billed' = DOMAIN billed
      /\ \A i \in DOMAIN billed : /\ Proper(billed'[i]) /\ Share(billed'[i]) = Share(billed[i])
                                  /\ Bill!Group(billed'[i]) = Bill!Group(billed[i])
      BY <1>1, <1>2 DEF UsageInv
<1>4. \A g : InGroup(billed', DOMAIN billed', g) = InGroup(billed, DOMAIN billed, g)
      BY <1>3 DEF InGroup
<1>5. ASSUME NEW g, NEW c \in Columns
      PROVE  Part(billed', c, InGroup(billed', DOMAIN billed', g))
                = Part(billed, c, InGroup(billed, DOMAIN billed, g))
      <2> DEFINE R == InGroup(billed, DOMAIN billed, g)
      <2>1. R \in SUBSET DOMAIN billed BY DEF InGroup
      <2>2. IsFiniteSet(R) BY <2>1, BilledFinite
      <2>3. R \subseteq DOMAIN billed' /\ \A i \in R : Share(billed'[i]) = Share(billed[i])
            BY <1>3, <2>1
      <2> HIDE DEF R
      <2>4. Part(billed', c, R) = Part(billed, c, R) BY <2>1, <2>2, <2>3, PartSame
      <2>5. QED BY <1>4, <2>4 DEF R
<1>6. (\A i \in DOMAIN billed : Proper(billed[i]))'
      <2>1. (\A i \in DOMAIN billed' : Proper(billed'[i])) => (\A i \in DOMAIN billed : Proper(billed[i]))'
            BY <1>1 DEF Proper, Bill!Mask, RowType, Bill!Succeeded, Bill!Keys, Bill!NoKey, Bill!NoCost
      <2>2. QED BY <1>3, <2>1
<1>7. (DOMAIN sums = {Bill!Group(billed[i]) : i \in DOMAIN billed})'
      <2>1. DOMAIN sums' = {Bill!Group(billed'[i]) : i \in DOMAIN billed'} BY <1>1, <1>3 DEF UsageInv
      <2>2. QED BY <2>1 DEF Bill!Group, Bill!NoCost
<1>8. (\A g \in DOMAIN sums :
          /\ sums[g] \in SumType5
          /\ \A c \in Columns : sums[g][c] = Part(billed, c, InGroup(billed, DOMAIN billed, g)))'
      <2>1. \A c, g : Part(billed, c, InGroup(billed, DOMAIN billed, g))'
                         = Part(billed', c, InGroup(billed', DOMAIN billed', g))
            BY Zenon DEF Part, Line, InGroup, Share, Bill!Sums, Bill!Success, Bill!SuccessInput,
               Bill!SuccessCached, Bill!SuccessCost, Bill!Succeeded, Bill!Group, Bill!NoCost
      <2>2. \A g \in DOMAIN sums' :
                /\ sums'[g] \in SumType5
                /\ \A c \in Columns : sums'[g][c] = Part(billed', c, InGroup(billed', DOMAIN billed', g))
            BY <1>1, <1>5 DEF UsageInv
      <2>3. QED BY <2>1, <2>2
<1>9. QED BY <1>1, <1>3, <1>6, <1>7, <1>8 DEF UsageInv

\* Neither does the price.
LEMMA PriceKeeps ==
    ASSUME UsageInv, rate' \in Rates, UNCHANGED <<shared, billed, sums>> PROVE UsageInv'
<1>1. (\A i \in DOMAIN billed : Proper(billed[i]))'
      BY DEF UsageInv, Proper, Bill!Mask, RowType, Bill!Succeeded, Bill!Keys, Bill!NoKey, Bill!NoCost
<1>2. (DOMAIN sums = {Bill!Group(billed[i]) : i \in DOMAIN billed})'
      BY DEF UsageInv, Bill!Group, Bill!NoCost
<1>3. (\A g \in DOMAIN sums :
          /\ sums[g] \in SumType5
          /\ \A c \in Columns : sums[g][c] = Part(billed, c, InGroup(billed, DOMAIN billed, g)))'
      <2>1. \A c, g : Part(billed, c, InGroup(billed, DOMAIN billed, g))'
                         = Part(billed', c, InGroup(billed', DOMAIN billed', g))
            BY Zenon DEF Part, Line, InGroup, Share, Bill!Sums, Bill!Success, Bill!SuccessInput,
               Bill!SuccessCached, Bill!SuccessCost, Bill!Succeeded, Bill!Group, Bill!NoCost
      <2>2. QED BY <2>1 DEF UsageInv
<1>4. QED BY <1>1, <1>2, <1>3 DEF UsageInv

LEMMA UsageNext == ASSUME Priced, UsageInv, [Bill!Next]_usageVars PROVE UsageInv'
<1>1. ASSUME NEW k \in Bill!Keys, NEW p \in 0..MaxPrompt, NEW c \in 0..MaxPrompt, Bill!Succeed(k, p, c)
      PROVE  UsageInv'
      <2> DEFINE entry == Bill!Row(k, "success", Bill!Billed(p, c),
                              Bill!CostAt(rate, Bill!Billed(p, c).input, Bill!Billed(p, c).cached))
      <2>1. rate \in Nat /\ p \in Nat /\ c \in Nat /\ c <= p /\ Bill!Write(entry)
            BY <1>1 DEF Priced, UsageInv, Bill!Succeed
      <2>2. Proper(entry) BY <2>1, ProperSuccess
      <2> HIDE DEF entry
      <2>3. QED BY <2>1, <2>2, WriteKeeps
<1>2. ASSUME NEW k \in Bill!Keys, Bill!Fail(k) PROVE UsageInv'
      BY <1>2, ProperFailed, WriteKeeps DEF Bill!Fail
<1>3. CASE Bill!Reprice BY <1>3, PriceKeeps DEF Bill!Reprice
<1>4. CASE Bill!DayPasses BY <1>4, DayKeeps
<1>5. CASE UNCHANGED usageVars
      <2>1. UNCHANGED <<rate, shared, billed, sums>> BY <1>5 DEF usageVars
      <2>2. rate' \in Rates BY <2>1 DEF UsageInv
      <2>3. QED BY <2>1, <2>2, PriceKeeps
<1>6. QED BY <1>1, <1>2, <1>3, <1>4, <1>5 DEF Bill!Next

LEMMA UsageInit == ASSUME Bill!Init PROVE UsageInv
<1>1. /\ rate \in Rates /\ shared \in BOOLEAN
      /\ billed \in {<<>>, <<Bill!Older(Bill!NoKey)>>, <<Bill!Older(Bill!NoKey), Bill!Older("k1")>>}
      /\ sums = [g \in {Bill!Group(billed[i]) : i \in DOMAIN billed} |->
                     Bill!SumRows({i \in DOMAIN billed : Bill!Group(billed[i]) = g})]
      BY DEF Bill!Init
<1>2. Proper(Bill!Older(Bill!NoKey)) /\ Proper(Bill!Older("k1"))
      <2>1. Bill!NoKey \in Bill!Keys \cup {Bill!NoKey} /\ "k1" \in Bill!Keys \cup {Bill!NoKey}
            BY DEF Bill!Keys
      <2>2. QED BY <2>1, ProperOlder
<1>3. (\E n \in Nat : DOMAIN billed = 1..n) /\ \A i \in DOMAIN billed : Proper(billed[i])
      <2> DEFINE a == Bill!Older(Bill!NoKey)
                 b == Bill!Older("k1")
      <2>1. Proper(a) /\ Proper(b) BY <1>2
      <2> HIDE DEF a, b
      <2>2. CASE billed = <<>>
            <3>1. DOMAIN billed = 1..0 BY <2>2
            <3>2. QED BY <3>1
      <2>3. CASE billed = <<a>>
            <3>1. DOMAIN billed = 1..1 /\ \A i \in DOMAIN billed : billed[i] = a BY <2>3
            <3>2. QED BY <2>1, <3>1
      <2>4. CASE billed = <<a, b>>
            <3>1. DOMAIN billed = 1..2 /\ \A i \in DOMAIN billed : billed[i] \in {a, b} BY <2>4
            <3>2. QED BY <2>1, <3>1
      <2>5. QED BY <1>1, <2>2, <2>3, <2>4 DEF a, b
<1>4. DOMAIN sums = {Bill!Group(billed[i]) : i \in DOMAIN billed} BY <1>1
<1>5. ASSUME NEW g \in DOMAIN sums
      PROVE  /\ sums[g] \in SumType5
             /\ \A c \in Columns : sums[g][c] = Part(billed, c, InGroup(billed, DOMAIN billed, g))
      <2> DEFINE R == InGroup(billed, DOMAIN billed, g)
      <2>1. R \in SUBSET DOMAIN billed BY DEF InGroup
      <2>2. IsFiniteSet(R)
            <3>1. PICK n \in Nat : DOMAIN billed = 1..n BY <1>3
            <3>2. IsFiniteSet(1..n) BY FS_Interval
            <3>3. QED BY <2>1, <3>1, <3>2, FS_Subset
      <2>3. sums[g] = Bill!SumRows(R) BY <1>1 DEF InGroup
      <2> HIDE DEF R
      <2>4. QED BY <1>3, <2>1, <2>2, <2>3, SumRowsAre DEF R
<1>6. QED BY <1>1, <1>3, <1>4, <1>5 DEF UsageInv

(***************************************************************************)
(* Usage: the reports.                                                     *)
(***************************************************************************)
Shown(rs) == [i \in DOMAIN rs |-> Bill!EstimatedCost(rs[i])]
Cost(R) == SumFunctionOnSet(Shown(billed), R)
InRange(range) == {i \in DOMAIN billed : range = "total" \/ billed[i].recent}
Reported(range, identity) == {i \in InRange(range) : Bill!Matches(Bill!Group(billed[i]), identity)}

\* With no more cached than input tokens, the price is linear in both.
LEMMA CostLinear ==
    ASSUME NEW p \in Nat, NEW n \in Nat, NEW c \in Nat, c <= n
    PROVE  Bill!CostAt(p, n, c) = (n - c) * p + c
<1>1. CASE n > c BY <1>1 DEF Bill!CostAt
<1>2. CASE ~(n > c)
      <2>1. n - c = 0 BY <1>2
      <2>2. QED BY <1>2, <2>1 DEF Bill!CostAt
<1>3. QED BY <1>1, <1>2

LEMMA ShownType ==
    ASSUME Priced, UsageInv, NEW i \in DOMAIN billed
    PROVE  /\ Shown(billed)[i] \in Nat /\ Shown(billed)[i] = Bill!EstimatedCost(billed[i])
           /\ billed[i].cost # Bill!NoCost => Shown(billed)[i] = Line(billed, "cost")[i]
           /\ billed[i].cost = Bill!NoCost =>
                 /\ Line(billed, "input")[i] - Line(billed, "cached")[i] \in Nat
                 /\ Shown(billed)[i]
                      = (Line(billed, "input")[i] - Line(billed, "cached")[i]) * rate
                        + Line(billed, "cached")[i]
           /\ ~Bill!Succeeded(billed[i]) => Shown(billed)[i] = 0
<1> DEFINE entry == billed[i]
<1>1. Proper(entry) /\ rate \in Nat /\ \A j \in DOMAIN billed : Proper(billed[j])
      BY DEF UsageInv, Priced
<1>2. Shown(billed)[i] = Bill!EstimatedCost(entry) BY DEF Shown
<1>3. /\ Line(billed, "cost")[i] = Bill!SuccessCost(entry)
      /\ Line(billed, "input")[i] = Bill!SuccessInput(entry)
      /\ Line(billed, "cached")[i] = Bill!SuccessCached(entry)
      BY <1>1, LineIs, ShareType DEF Columns
<1> HIDE DEF entry
<1>4. entry.cost \in Nat \cup {Bill!NoCost} /\ entry.input \in Nat /\ entry.cached \in Nat
      BY <1>1 DEF Proper, RowType
<1>5. CASE entry.cost # Bill!NoCost
      <2>1. Bill!EstimatedCost(entry) = entry.cost BY <1>5 DEF Bill!EstimatedCost
      <2>2. Bill!SuccessCost(entry) = entry.cost BY <1>1, <1>5 DEF Proper, Bill!SuccessCost
      <2>3. ~Bill!Succeeded(entry) => entry.cost = 0 BY <1>1 DEF Proper
      <2>4. QED BY <1>2, <1>3, <1>4, <1>5, <2>1, <2>2, <2>3 DEF entry
<1>6. CASE entry.cost = Bill!NoCost
      <2>1. Bill!Succeeded(entry) /\ entry.cached <= entry.input BY <1>1, <1>6 DEF Proper
      <2>2. Bill!SuccessInput(entry) = entry.input /\ Bill!SuccessCached(entry) = entry.cached
            BY <2>1 DEF Bill!SuccessInput, Bill!SuccessCached
      <2>3. Bill!EstimatedCost(entry) = (entry.input - entry.cached) * rate + entry.cached
            BY <1>1, <1>4, <1>6, <2>1, CostLinear DEF Bill!EstimatedCost
      <2>4. entry.input - entry.cached \in Nat BY <1>4, <2>1
      <2>5. \A n, p, k \in Nat : n * p + k \in Nat OBVIOUS
      <2>6. (entry.input - entry.cached) * rate + entry.cached \in Nat BY <1>1, <1>4, <2>4, <2>5
      <2>7. QED BY <1>2, <1>3, <1>6, <2>1, <2>2, <2>3, <2>4, <2>6 DEF entry
<1>7. QED BY <1>5, <1>6

\* A group resolves recorded against calculated cost as its rows do.
LEMMA GroupCost ==
    ASSUME Priced, UsageInv, NEW G \in SUBSET DOMAIN billed, NEW g,
           \A i \in G : Bill!Group(billed[i]) = g, G # {}, NEW s,
           s.input = Part(billed, "input", G), s.cached = Part(billed, "cached", G),
           s.cost = Part(billed, "cost", G)
    PROVE  Bill!CostForGroup(g, s) = Cost(G)
<1> DEFINE f == Shown(billed)
           n == Line(billed, "input")
           h == Line(billed, "cached")
           b == Line(billed, "cost")
<1>1. IsFiniteSet(G) BY BilledFinite
<1>2. g.recorded \in BOOLEAN /\ \A i \in G : g.recorded = (billed[i].cost # Bill!NoCost)
      <2>1. \A i \in G : g = [key |-> billed[i].key, mask |-> billed[i].mask,
                              recorded |-> billed[i].cost # Bill!NoCost]
            BY DEF Bill!Group
      <2>2. \A i \in G : g.recorded = (billed[i].cost # Bill!NoCost) BY <2>1
      <2>3. PICK i \in G : TRUE OBVIOUS
      <2>4. g.recorded = (billed[i].cost # Bill!NoCost) BY <2>2
      <2>5. g.recorded \in BOOLEAN BY <2>4, Zenon
      <2>6. QED BY <2>2, <2>5, Zenon
<1>3. \A i \in G : f[i] \in Nat BY ShownType
<1>4. \A i \in G : n[i] \in Nat /\ h[i] \in Nat /\ b[i] \in Nat
      BY LineIs DEF UsageInv, Columns
<1>5. rate \in Nat BY DEF UsageInv, Priced
<1>6. CASE g.recorded
      <2>1. \A i \in G : f[i] = b[i] BY <1>2, <1>6, ShownType
      <2>2. Bill!CostForGroup(g, s) = SumFunctionOnSet(b, G)
            BY <1>6 DEF Bill!CostForGroup, Part
      <2> HIDE DEF f, b
      <2>3. SumFunctionOnSet(f, G) = SumFunctionOnSet(b, G) BY <1>1, <2>1, SumSame
      <2>4. QED BY <2>2, <2>3 DEF Cost, f
<1>7. CASE ~g.recorded
      <2>1. \A i \in G : n[i] - h[i] \in Nat /\ f[i] = (n[i] - h[i]) * rate + h[i]
            BY <1>2, <1>7, ShownType
      <2>2. Bill!CostForGroup(g, s)
              = Bill!CostAt(rate, SumFunctionOnSet(n, G), SumFunctionOnSet(h, G))
            BY <1>7 DEF Bill!CostForGroup, Part
      <2>3. Cost(G) = SumFunctionOnSet(f, G) BY DEF Cost
      <2> HIDE DEF f, n, h, b
      <2> DEFINE e == [i \in G |-> n[i] - h[i]]
                 p == [i \in G |-> e[i] * rate]
      <2>4. \A i \in G : e[i] \in Nat /\ e[i] \in Int /\ h[i] \in Int /\ n[i] \in Int /\ n[i] = e[i] + h[i]
            BY <1>4, <2>1
      <2>5. \A i \in G : p[i] = e[i] * rate /\ f[i] = p[i] + h[i] BY <2>1
      <2>6. \A i \in G : p[i] \in Int
            <3>1. \A k \in Nat : k * rate \in Int BY <1>5
            <3>2. QED BY <2>4, <2>5, <3>1
      <2> HIDE DEF e, p
      <2>7. SumFunctionOnSet(n, G) = SumFunctionOnSet(e, G) + SumFunctionOnSet(h, G)
            BY <1>1, <2>4, SumPlus
      <2>8. SumFunctionOnSet(p, G) = SumFunctionOnSet(e, G) * rate
            <3>1. rate \in Int BY <1>5
            <3>2. QED BY <1>1, <2>4, <2>5, <3>1, SumTimes
      <2>9. SumFunctionOnSet(f, G) = SumFunctionOnSet(p, G) + SumFunctionOnSet(h, G)
            BY <1>1, <2>4, <2>5, <2>6, SumPlus
      <2>10. SumFunctionOnSet(e, G) \in Nat BY <1>1, <2>4, SumNat
      <2>11. SumFunctionOnSet(h, G) \in Nat BY <1>1, <1>4, SumNat
      <2> DEFINE N == SumFunctionOnSet(n, G)
                 H == SumFunctionOnSet(h, G)
                 E == SumFunctionOnSet(e, G)
      <2>12. N = E + H /\ E \in Nat /\ H \in Nat BY <2>7, <2>10, <2>11
      <2>13. SumFunctionOnSet(f, G) = E * rate + H BY <2>8, <2>9
      <2> HIDE DEF N, H, E
      <2>14. N \in Nat /\ H <= N /\ N - H = E BY <2>12
      <2>15. Bill!CostAt(rate, N, H) = (N - H) * rate + H BY <1>5, <2>12, <2>14, CostLinear
      <2>16. QED BY <2>2, <2>3, <2>13, <2>14, <2>15 DEF N, H
<1>8. QED BY <1>2, <1>6, <1>7

\* Sums over the groups of some rows are sums over the rows.
LEMMA Regrouped ==
    ASSUME UsageInv, NEW R \in SUBSET DOMAIN billed, NEW f, \A i \in R : f[i] \in Int,
           NEW D, D = {Bill!Group(billed[i]) : i \in R},
           NEW h, \A g \in D : h[g] = SumFunctionOnSet(f, InGroup(billed, R, g))
    PROVE  SumFunctionOnSet(h, D) = SumFunctionOnSet(f, R)
<1> DEFINE k == [i \in R |-> Bill!Group(billed[i])]
           e == [g \in D |-> SumFunctionOnSet(f, {i \in R : k[i] = g})]
<1>1. IsFiniteSet(R) BY BilledFinite
<1>2. IsFiniteSet(D)
      <2>1. k \in Surjection(R, D) BY DEF Surjection
      <2> HIDE DEF k
      <2>2. QED BY <1>1, <2>1, FS_Surjection
<1>3. \A i \in R : k[i] \in D OBVIOUS
<1>4. \A g \in D : h[g] = e[g]
      <2>1. \A g : {i \in R : k[i] = g} = InGroup(billed, R, g) BY DEF InGroup
      <2>2. QED BY <2>1
<1>5. SumFunctionOnSet(e, D) = SumFunctionOnSet(f, R)
      <2> HIDE DEF k
      <2>1. QED BY <1>1, <1>2, <1>3, SumGroups
<1> HIDE DEF e
<1>6. SumFunctionOnSet(h, D) = SumFunctionOnSet(e, D) BY <1>2, <1>4, SumSame
<1>7. QED BY <1>5, <1>6

LEMMA GroupsAdd ==
    ASSUME Priced, UsageInv, NEW R \in SUBSET DOMAIN billed,
           NEW A, DOMAIN A = {Bill!Group(billed[i]) : i \in R},
           \A g \in DOMAIN A : \A c \in Columns : A[g][c] = Part(billed, c, InGroup(billed, R, g))
    PROVE  Bill!AggregateUsage(A)
             = [requests |-> Part(billed, "requests", R), successes |-> Part(billed, "successes", R),
                cost |-> Cost(R)]
<1> DEFINE D == DOMAIN A
           n == [g \in D |-> A[g].requests]
           s == [g \in D |-> A[g].successes]
           b == [g \in D |-> Bill!CostForGroup(g, A[g])]
<1>1. Bill!AggregateUsage(A)
        = [requests |-> Bill!SumFunction(n), successes |-> Bill!SumFunction(s),
           cost |-> Bill!SumFunction(b)]
      BY DEF Bill!AggregateUsage
<1>2. DOMAIN n = D /\ DOMAIN s = D /\ DOMAIN b = D OBVIOUS
<1>3. ASSUME NEW c \in {"requests", "successes"}, NEW h, \A g \in D : h[g] = A[g][c]
      PROVE  SumFunctionOnSet(h, D) = Part(billed, c, R)
      <2> DEFINE f == Line(billed, c)
      <2>1. \A i \in R : f[i] \in Int BY LineIs DEF UsageInv, Columns
      <2>2. \A g \in D : h[g] = SumFunctionOnSet(f, InGroup(billed, R, g))
            BY <1>3 DEF Part, Columns
      <2> HIDE DEF f
      <2>3. SumFunctionOnSet(h, D) = SumFunctionOnSet(f, R) BY <2>1, <2>2, Regrouped
      <2>4. QED BY <2>3 DEF Part, f
<1>4. SumFunctionOnSet(b, D) = Cost(R)
      <2> DEFINE f == Shown(billed)
      <2>1. \A i \in R : f[i] \in Int BY ShownType
      <2>2. \A g \in D : b[g] = SumFunctionOnSet(f, InGroup(billed, R, g))
            <3>1. TAKE g \in D
            <3> DEFINE G == InGroup(billed, R, g)
            <3>2. G \in SUBSET DOMAIN billed /\ (\A i \in G : Bill!Group(billed[i]) = g) /\ G # {}
                  BY DEF InGroup
            <3>3. /\ A[g].input = Part(billed, "input", G) /\ A[g].cached = Part(billed, "cached", G)
                  /\ A[g].cost = Part(billed, "cost", G)
                  BY DEF Columns
            <3> HIDE DEF G
            <3>4. Bill!CostForGroup(g, A[g]) = Cost(G) BY <3>2, <3>3, GroupCost
            <3>5. QED BY <3>4 DEF Cost, G
      <2> HIDE DEF f, b
      <2>3. SumFunctionOnSet(b, D) = SumFunctionOnSet(f, R) BY <2>1, <2>2, Regrouped
      <2>4. QED BY <2>3 DEF Cost, f
<1>5. \A g \in D : n[g] = A[g]["requests"] /\ s[g] = A[g]["successes"] OBVIOUS
<1> HIDE DEF n, s, b
<1>6. SumFunctionOnSet(n, D) = Part(billed, "requests", R) BY <1>3, <1>5
<1>7. SumFunctionOnSet(s, D) = Part(billed, "successes", R) BY <1>3, <1>5
<1>8. QED BY <1>1, <1>2, <1>4, <1>6, <1>7, BillSums

\* What getBulkApiKeyAggregates() finds, in the rollups or in the rows.
LEMMA AggregatesAre ==
    ASSUME UsageInv, NEW range \in Bill!Ranges, NEW identity
    PROVE  /\ DOMAIN Bill!Aggregates(range, identity)
                = {Bill!Group(billed[i]) : i \in Reported(range, identity)}
           /\ \A g \in DOMAIN Bill!Aggregates(range, identity) : \A c \in Columns :
                 Bill!Aggregates(range, identity)[g][c]
                    = Part(billed, c, InGroup(billed, Reported(range, identity), g))
<1> DEFINE A == Bill!Aggregates(range, identity)
           R == Reported(range, identity)
<1>1. R \in SUBSET DOMAIN billed BY DEF Reported, InRange
<1>2. CASE range = "total"
      <2>1. A = [g \in {h \in DOMAIN sums : Bill!Matches(h, identity)} |-> sums[g]]
            BY <1>2 DEF Bill!Aggregates
      <2>2. R = {i \in DOMAIN billed : Bill!Matches(Bill!Group(billed[i]), identity)}
            BY <1>2 DEF Reported, InRange
      <2>3. DOMAIN sums = {Bill!Group(billed[i]) : i \in DOMAIN billed} BY DEF UsageInv
      <2>4. DOMAIN A = {Bill!Group(billed[i]) : i \in R} BY <2>1, <2>2, <2>3
      <2>5. \A g \in DOMAIN A : InGroup(billed, R, g) = InGroup(billed, DOMAIN billed, g)
            BY <2>1, <2>2 DEF InGroup
      <2>6. \A g \in DOMAIN A : g \in DOMAIN sums /\ A[g] = sums[g] BY <2>1
      <2> HIDE DEF A, R
      <2>7. \A g \in DOMAIN A : \A c \in Columns : A[g][c] = Part(billed, c, InGroup(billed, R, g))
            BY <2>5, <2>6 DEF UsageInv
      <2>8. QED BY <2>4, <2>7 DEF A, R
<1>3. CASE range # "total"
      <2> DEFINE Q == {i \in DOMAIN billed :
                          billed[i].recent /\ Bill!Matches(Bill!Group(billed[i]), identity)}
      <2>1. Q = R BY <1>3 DEF Reported, InRange
      <2>2. A = [g \in {Bill!Group(billed[i]) : i \in Q} |->
                    Bill!SumRows({i \in Q : Bill!Group(billed[i]) = g})]
            BY <1>3 DEF Bill!Aggregates
      <2>3. A = [g \in {Bill!Group(billed[i]) : i \in R} |-> Bill!SumRows(InGroup(billed, R, g))]
            BY <2>1, <2>2 DEF InGroup
      <2> HIDE DEF A, R
      <2>4. ASSUME NEW g \in DOMAIN A, NEW c \in Columns
            PROVE  A[g][c] = Part(billed, c, InGroup(billed, R, g))
            <3> DEFINE G == InGroup(billed, R, g)
            <3>1. G \in SUBSET DOMAIN billed BY <1>1 DEF InGroup
            <3>2. IsFiniteSet(G) BY <3>1, BilledFinite
            <3>3. A[g] = Bill!SumRows(G) BY <2>3
            <3> HIDE DEF G
            <3>4. Bill!SumRows(G)[c] = Part(billed, c, G) BY <3>1, <3>2, SumRowsAre DEF UsageInv
            <3>5. QED BY <3>3, <3>4 DEF G
      <2>5. QED BY <2>3, <2>4 DEF A, R
<1>4. QED BY <1>2, <1>3

LEMMA UsageOf ==
    ASSUME Priced, UsageInv, NEW range \in Bill!Ranges, NEW identity
    PROVE  Bill!AggregateUsage(Bill!Aggregates(range, identity))
             = LET R == Reported(range, identity) IN
               [requests |-> Part(billed, "requests", R), successes |-> Part(billed, "successes", R),
                cost |-> Cost(R)]
<1> DEFINE A == Bill!Aggregates(range, identity)
           R == Reported(range, identity)
<1>1. R \in SUBSET DOMAIN billed BY DEF Reported, InRange
<1>2. /\ DOMAIN A = {Bill!Group(billed[i]) : i \in R}
      /\ \A g \in DOMAIN A : \A c \in Columns : A[g][c] = Part(billed, c, InGroup(billed, R, g))
      BY AggregatesAre
<1> HIDE DEF A, R
<1>3. Bill!AggregateUsage(A)
        = [requests |-> Part(billed, "requests", R), successes |-> Part(billed, "successes", R),
           cost |-> Cost(R)]
      BY <1>1, <1>2, GroupsAdd
<1>4. QED BY <1>3 DEF A, R

(***************************************************************************)
(* Usage: whose row it is.                                                 *)
(***************************************************************************)
OwnerOf(g) ==
    IF g.key # Bill!NoKey THEN g.key
    ELSE IF Bill!Cardinality({j \in Bill!Keys : Bill!Mask(j) = g.mask}) = 1
         THEN CHOOSE j \in Bill!Keys : Bill!Mask(j) = g.mask ELSE Bill!NoKey

\* The rows a key's identity matches are those the dashboard gives to it.
LEMMA OwnersAgree ==
    ASSUME NEW entry, Proper(entry), NEW k \in Bill!Keys, shared \in BOOLEAN
    PROVE  Bill!Matches(Bill!Group(entry), Bill!Identity(k)) <=> OwnerOf(Bill!Group(entry)) = k
<1> DEFINE g == Bill!Group(entry)
           wearers == {j \in Bill!Keys : Bill!Mask(j) = g.mask}
<1>1. /\ g.key = entry.key /\ g.mask = entry.mask /\ entry.key \in Bill!Keys \cup {Bill!NoKey}
      /\ entry.mask = IF entry.key = Bill!NoKey THEN "k1" ELSE Bill!Mask(entry.key)
      BY DEF Bill!Group, Proper, RowType
<1>2. Bill!Keys = {"k1", "k2"} /\ Bill!NoKey \notin Bill!Keys
      BY KeyMasks DEF Bill!Keys
<1>3. \A j \in Bill!Keys : Bill!Mask(j) = IF shared THEN "k1" ELSE j BY DEF Bill!Mask
<1>4. Bill!Matches(g, Bill!Identity(k)) <=>
          /\ g.mask = Bill!Mask(k)
          /\ g.key = k \/ (g.key = Bill!NoKey /\ ~shared)
      BY DEF Bill!Matches, Bill!Identity
<1> HIDE DEF g
<1>5. CASE entry.key # Bill!NoKey BY <1>1, <1>2, <1>3, <1>4, <1>5 DEF OwnerOf, g
<1>6. CASE entry.key = Bill!NoKey /\ shared
      <2>1. wearers = {"k1", "k2"} BY <1>1, <1>2, <1>3, <1>6
      <2>2. Bill!Cardinality(wearers) # 1
            <3>1. IsFiniteSet({"k1"}) /\ Cardinality({"k1"}) = 1 BY FS_Singleton
            <3>2. Cardinality({"k1"} \cup {"k2"}) = 2 BY <3>1, FS_AddElement
            <3>3. {"k1"} \cup {"k2"} = {"k1", "k2"} OBVIOUS
            <3>4. QED BY <2>1, <3>2, <3>3, BillCardinality
      <2>3. OwnerOf(g) = Bill!NoKey BY <1>1, <1>6, <2>2 DEF OwnerOf
      <2>4. QED BY <1>1, <1>2, <1>4, <1>6, <2>3 DEF g
<1>7. CASE entry.key = Bill!NoKey /\ ~shared
      <2>1. wearers = {"k1"} BY <1>1, <1>2, <1>3, <1>7
      <2>2. Bill!Cardinality(wearers) = 1 BY <2>1, FS_Singleton, BillCardinality
      <2>3. OwnerOf(g) = CHOOSE j \in Bill!Keys : Bill!Mask(j) = g.mask
            BY <1>1, <1>7, <2>2 DEF OwnerOf
      <2>4. OwnerOf(g) = "k1"
            <3>1. \E j \in Bill!Keys : Bill!Mask(j) = g.mask BY <2>1
            <3>2. OwnerOf(g) \in wearers BY <2>3, <3>1
            <3>3. QED BY <2>1, <3>2
      <2>5. QED BY <1>1, <1>2, <1>3, <1>4, <1>7, <2>4 DEF g
<1>8. QED BY <1>5, <1>6, <1>7, Zenon

LEMMA EveryoneMatches ==
    ASSUME NEW entry, Proper(entry) PROVE Bill!Matches(Bill!Group(entry), Bill!Everyone)
BY DEF Proper, RowType, Bill!Group, Bill!Matches, Bill!Everyone

LEMMA EveryoneReported ==
    ASSUME UsageInv, NEW range PROVE Reported(range, Bill!Everyone) = InRange(range)
BY EveryoneMatches DEF UsageInv, Reported, InRange

\* The dashboard's numbers for a key are those over the rows it owns.
LEMMA DashboardIs ==
    ASSUME Priced, UsageInv, NEW k \in Bill!Keys, NEW range \in Bill!Ranges
    PROVE  Bill!AccountSummary(k, range) = Bill!DashboardKey(k, range)
<1> DEFINE all == Bill!Aggregates(range, Bill!Everyone)
           own == {g \in DOMAIN all : OwnerOf(g) = k}
           A == [g \in own |-> all[g]]
           R == Reported(range, Bill!Identity(k))
           E == Reported(range, Bill!Everyone)
<1>1. Bill!DashboardKey(k, range) = Bill!AggregateUsage(A)
      BY DEF Bill!DashboardKey, OwnerOf
<1>2. /\ DOMAIN all = {Bill!Group(billed[i]) : i \in E}
      /\ \A g \in DOMAIN all : \A c \in Columns : all[g][c] = Part(billed, c, InGroup(billed, E, g))
      BY AggregatesAre
<1>3. /\ E = InRange(range) /\ E \in SUBSET DOMAIN billed
      /\ \A i \in DOMAIN billed : Proper(billed[i]) /\ shared \in BOOLEAN
      BY EveryoneReported DEF UsageInv, InRange
<1>4. R = {i \in E : OwnerOf(Bill!Group(billed[i])) = k}
      BY <1>3, OwnersAgree DEF Reported
<1> HIDE DEF all, R, E
<1>5. DOMAIN A = {Bill!Group(billed[i]) : i \in R} BY <1>2, <1>4
<1>6. \A g \in DOMAIN A : InGroup(billed, R, g) = InGroup(billed, E, g) BY <1>4 DEF InGroup
<1>7. \A g \in DOMAIN A : g \in DOMAIN all /\ A[g] = all[g] OBVIOUS
<1>8. R \in SUBSET DOMAIN billed BY <1>3, <1>4
<1> HIDE DEF A
<1>9. \A g \in DOMAIN A : \A c \in Columns : A[g][c] = Part(billed, c, InGroup(billed, R, g))
      BY <1>2, <1>6, <1>7
<1>10. Bill!AggregateUsage(A)
         = [requests |-> Part(billed, "requests", R), successes |-> Part(billed, "successes", R),
            cost |-> Cost(R)]
       BY <1>5, <1>8, <1>9, GroupsAdd
<1>11. Bill!AccountSummary(k, range)
         = [requests |-> Part(billed, "requests", R), successes |-> Part(billed, "successes", R),
            cost |-> Cost(R)]
       BY UsageOf DEF Bill!AccountSummary, R
<1>12. QED BY <1>1, <1>10, <1>11

\* The sum over rows that SumOf() takes, and the costs among them.
LEMMA CostsAre ==
    ASSUME UsageInv, NEW R \in SUBSET DOMAIN billed
    PROVE  Bill!SumOf(Bill!EstimatedCost, R) = Cost(R)
<1> DEFINE e == [i \in R |-> Bill!EstimatedCost(billed[i])]
           f == Shown(billed)
<1>1. Bill!SumOf(Bill!EstimatedCost, R) = Bill!SumFunction(e) BY DEF Bill!SumOf
<1>2. DOMAIN e = R /\ \A i \in R : e[i] = f[i] BY DEF Shown
<1>3. IsFiniteSet(R) BY BilledFinite
<1> HIDE DEF e, f
<1>4. SumFunctionOnSet(e, R) = SumFunctionOnSet(f, R) BY <1>2, <1>3, SumSame
<1>5. QED BY <1>1, <1>2, <1>4, BillSums DEF Cost, f

\* While no other key wears the mask, the users page collects the key's own rows.
LEMMA UsersPageOwn ==
    ASSUME Priced, UsageInv, ~shared, NEW k \in Bill!Keys, NEW range \in Bill!Ranges
    PROVE  Bill!UserDetail(k, range) = Bill!AccountSummary(k, range)
<1> DEFINE R == Reported(range, Bill!Identity(k))
           Q == {i \in DOMAIN billed : /\ Bill!Succeeded(billed[i])
                                       /\ billed[i].mask = Bill!Mask(k)
                                       /\ range = "total" \/ billed[i].recent}
           f == Shown(billed)
<1>1. \A i \in DOMAIN billed :
          Bill!Matches(Bill!Group(billed[i]), Bill!Identity(k)) <=> billed[i].mask = Bill!Mask(k)
      <2>1. TAKE i \in DOMAIN billed
      <2> DEFINE entry == billed[i]
      <2>2. Proper(entry) BY DEF UsageInv
      <2> HIDE DEF entry
      <2>3. /\ entry.key \in {"k1", "k2"} \cup {Bill!NoKey} /\ k \in {"k1", "k2"}
            /\ entry.mask = IF entry.key = Bill!NoKey THEN "k1" ELSE entry.key
            /\ Bill!Mask(k) = k
            BY <2>2 DEF Proper, RowType, Bill!Keys, Bill!Mask
      <2>4. Bill!Matches(Bill!Group(entry), Bill!Identity(k)) <=>
                entry.mask = k /\ (entry.key = k \/ entry.key = Bill!NoKey)
            BY <2>3 DEF Bill!Matches, Bill!Group, Bill!Identity
      <2>5. QED BY <2>3, <2>4 DEF entry
<1>2. R \in SUBSET DOMAIN billed /\ Q \in SUBSET R BY <1>1 DEF Reported, InRange
<1>3. \A i \in R \ Q : ~Bill!Succeeded(billed[i]) BY <1>1 DEF Reported, InRange
<1>4. (\A i \in R : f[i] \in Int) /\ \A i \in R \ Q : f[i] = 0 BY <1>2, <1>3, ShownType
<1>5. Bill!UserCosts(k, range) = Bill!SumOf(Bill!EstimatedCost, Q) BY DEF Bill!UserCosts
<1>6. Bill!AccountSummary(k, range)
        = [requests |-> Part(billed, "requests", R), successes |-> Part(billed, "successes", R),
           cost |-> Cost(R)]
      BY UsageOf DEF Bill!AccountSummary
<1>7. IsFiniteSet(R) BY <1>2, BilledFinite
<1> HIDE DEF R, Q, f
<1>8. Bill!SumOf(Bill!EstimatedCost, Q) = Cost(Q) BY <1>2, CostsAre
<1>9. SumFunctionOnSet(f, R) = SumFunctionOnSet(f, Q) BY <1>2, <1>4, <1>7, SumDrop
<1>10. Bill!UserCosts(k, range) = Cost(R) BY <1>5, <1>8, <1>9 DEF Cost, f
<1>11. QED BY <1>6, <1>10 DEF Bill!UserDetail

\* The dashboard counts and adds up what the history shows row by row.
LEMMA DashboardAdds ==
    ASSUME Priced, UsageInv, NEW range \in Bill!Ranges
    PROVE  Bill!DashboardSummary(range)
             = LET R == InRange(range) IN
               [requests |-> Bill!Cardinality(R),
                successes |-> Bill!Cardinality({i \in R : Bill!Succeeded(billed[i])}),
                cost |-> Bill!SumOf(Bill!EstimatedCost, R)]
<1> DEFINE R == InRange(range)
           S == {i \in R : Bill!Succeeded(billed[i])}
           f == Line(billed, "requests")
           h == Line(billed, "successes")
<1>1. R \in SUBSET DOMAIN billed /\ S \in SUBSET R /\ S \in SUBSET DOMAIN billed BY DEF InRange
<1>2. IsFiniteSet(R) /\ IsFiniteSet(S) BY <1>1, BilledFinite
<1>3. \A i \in R : Proper(billed[i]) BY <1>1 DEF UsageInv
<1>4. \A i \in R : f[i] = 1 /\ h[i] = Bill!Success(billed[i]) /\ h[i] \in Int
      <2>1. TAKE i \in R
      <2>2. i \in DOMAIN billed /\ Proper(billed[i]) BY <1>1, <1>3
      <2>3. f[i] = Share(billed[i]).requests /\ h[i] = Share(billed[i]).successes
            BY <2>2, LineIs DEF UsageInv, Columns
      <2>4. h[i] \in Nat BY <2>2, LineIs DEF UsageInv, Columns
      <2>5. QED BY <2>2, <2>3, <2>4, ShareType
<1>5. (\A i \in S : h[i] = 1) /\ \A i \in R \ S : h[i] = 0 BY <1>4 DEF Bill!Success
<1>6. Bill!DashboardSummary(range)
        = [requests |-> Part(billed, "requests", R), successes |-> Part(billed, "successes", R),
           cost |-> Cost(R)]
      BY UsageOf, EveryoneReported DEF Bill!DashboardSummary
<1> HIDE DEF R, S, f, h
<1>7. SumFunctionOnSet(f, R) = Cardinality(R) BY <1>2, <1>4, SumOnes
<1>8. SumFunctionOnSet(h, R) = SumFunctionOnSet(h, S) BY <1>1, <1>2, <1>4, <1>5, SumDrop
<1>9. SumFunctionOnSet(h, S) = Cardinality(S) BY <1>2, <1>5, SumOnes
<1>10. Cost(R) = Bill!SumOf(Bill!EstimatedCost, R) BY <1>1, CostsAre
<1>11. Part(billed, "requests", R) = Bill!Cardinality(R) BY <1>7, BillCardinality DEF Part, f
<1>12. Part(billed, "successes", R) = Bill!Cardinality(S)
       BY <1>8, <1>9, BillCardinality DEF Part, h
<1>13. QED BY <1>6, <1>10, <1>11, <1>12 DEF R, S

\* Dashboard, account page and history agree on every number, and the users page with them
\* while no other key wears the mask: for any prices, prompts and rows, whatever the operator
\* does to the price (utils/usageReporting.ts:21, services/logManager.ts:742).
THEOREM ReportsAgreeHolds == ASSUME Priced PROVE MCSpec => []ReportsAgree
<1>1. MCInit => UsageInv BY UsageInit DEF MCInit
<1>2. [MCNext]_MCVars => [Bill!Next]_usageVars
      BY DEF MCNext, StreamNext, StoreNext, PageNext, MCVars
<1>3. UsageInv /\ [MCNext]_MCVars => UsageInv' BY <1>2, UsageNext
<1>4. UsageInv => Bill!TypeOK
      <2> SUFFICES ASSUME UsageInv PROVE Bill!TypeOK OBVIOUS
      <2>1. \A i \in DOMAIN billed : billed[i] \in RowType BY DEF UsageInv, Proper
      <2>2. QED BY <2>1 DEF UsageInv, RowType, SumType5, Bill!TypeOK
<1>5. UsageInv => Bill!ReportsAgree
      <2> SUFFICES ASSUME UsageInv PROVE Bill!ReportsAgree OBVIOUS
      <2>1. \A k \in Bill!Keys, range \in Bill!Ranges :
                Bill!AccountSummary(k, range) = Bill!DashboardKey(k, range)
            BY DashboardIs
      <2>2. ~shared => \A k \in Bill!Keys, range \in Bill!Ranges :
                Bill!UserDetail(k, range) = Bill!AccountSummary(k, range)
            BY UsersPageOwn
      <2>3. \A range \in Bill!Ranges : Bill!DashboardSummary(range)
                = LET R == {i \in DOMAIN billed : range = "total" \/ billed[i].recent} IN
                  [requests |-> Bill!Cardinality(R),
                   successes |-> Bill!Cardinality({i \in R : Bill!Succeeded(billed[i])}),
                   cost |-> Bill!SumOf(Bill!EstimatedCost, R)]
            BY DashboardAdds DEF InRange
      <2>4. QED BY <2>1, <2>2, <2>3, Zenon DEF Bill!ReportsAgree
<1>6. UsageInv => ReportsAgree BY <1>4, <1>5 DEF ReportsAgree
<1>7. QED BY <1>1, <1>3, <1>6, PTL DEF MCSpec

(***************************************************************************)
(* EndpointEditor.  What the modal holds is what it was filled with from   *)
(* the list, until it is edited or overwritten; how the list compares with *)
(* the endpoints is left to the moment the property asks for it.           *)
(***************************************************************************)
Stored == [rotation : Policies!Rotations \cup {NULL}, generation : Policies!Generations \cup {NULL}]
ListedPolicy == [rotation : Policies!Rotations \cup {NULL}, generation : Policies!Generations]
EditorShape == [open : BOOLEAN, index : Nat, policy : Policies!Own, touched : BOOLEAN,
                late : BOOLEAN]

ShownAs(p) ==
    Policies!Policy(IF p.rotation = NULL THEN "sticky" ELSE p.rotation, p.generation)

EditorTyped ==
    /\ defaults \in Policies!Defaults
    /\ endpoints \in Seq(Stored) /\ Len(endpoints) <= MaxEndpoints
    /\ listing \in Seq(ListedPolicy) /\ Len(listing) <= Len(endpoints)
    /\ editor \in EditorShape /\ editor.index <= Len(listing)
    /\ seeding \in BOOLEAN /\ unanswered \in BOOLEAN

EditorShows ==
    editor.open /\ editor.index # 0 /\ ~editor.touched /\ ~editor.late =>
        editor.policy = ShownAs(listing[editor.index])

EditorInv == EditorTyped /\ EditorShows

LEMMA PolicyOwned ==
    /\ \A r \in Policies!Rotations, g \in Policies!Generations :
           Policies!Policy(r, g) \in Policies!Own
    /\ Policies!Defaults \subseteq Policies!Own /\ Policies!Own \subseteq Stored
BY DEF Policies!Policy, Policies!Own, Policies!Defaults, Policies!Rotations,
       Policies!Generations, Stored

LEMMA ClosedEditor == Policies!Closed \in EditorShape /\ Policies!Closed.index = 0
BY PolicyOwned DEF Policies!Closed, EditorShape, Policies!Rotations, Policies!Generations

\* What the list shows of an endpoint.
LEMMA ListedTyped ==
    ASSUME defaults \in Policies!Defaults, NEW p \in Stored
    PROVE  Policies!Listed(p) \in ListedPolicy
<1>1. defaults.generation \in Policies!Generations BY PolicyOwned DEF Policies!Own
<1>2. QED BY <1>1 DEF Policies!Listed, Policies!Effective, Policies!Policy, Stored, ListedPolicy

LEMMA ListingTyped ==
    ASSUME defaults \in Policies!Defaults, endpoints \in Seq(Stored)
    PROVE  Policies!Listing \in Seq(ListedPolicy) /\ Len(Policies!Listing) = Len(endpoints)
<1>1. DOMAIN endpoints = 1..Len(endpoints) /\ Len(endpoints) \in Nat OBVIOUS
<1>2. \A i \in 1..Len(endpoints) : Policies!Listed(endpoints[i]) \in ListedPolicy
      BY ListedTyped
<1>3. QED BY <1>1, <1>2 DEF Policies!Listing

LEMMA ShownTyped == ASSUME NEW p \in ListedPolicy PROVE ShownAs(p) \in Policies!Own
<1>1. "sticky" \in Policies!Rotations BY DEF Policies!Rotations
<1>2. QED BY <1>1, PolicyOwned DEF ShownAs, ListedPolicy

LEMMA EditorInit ==
    ASSUME MaxEndpoints \in Nat \ {0}, Policies!Init PROVE EditorInv
<1>1. /\ defaults \in Policies!Defaults /\ listing = Policies!Listing
      /\ editor = Policies!Closed /\ seeding = FALSE /\ unanswered = FALSE
      BY DEF Policies!Init
<1>2. PICK p \in {Policies!Policy("roundrobin", "stripped"), Policies!Policy(NULL, NULL)} :
          endpoints = <<p>>
      BY DEF Policies!Init
<1>3. p \in Stored BY DEF Policies!Policy, Stored, Policies!Rotations, Policies!Generations
<1>4. endpoints \in Seq(Stored) /\ Len(endpoints) = 1 BY <1>2, <1>3
<1>5. listing \in Seq(ListedPolicy) /\ Len(listing) = 1 BY <1>1, <1>4, ListingTyped
<1>6. EditorTyped
      <2>1. Len(endpoints) <= MaxEndpoints /\ Len(listing) <= Len(endpoints) BY <1>4, <1>5
      <2>2. editor \in EditorShape /\ editor.index = 0 BY <1>1, ClosedEditor
      <2>3. editor.index <= Len(listing) BY <1>5, <2>2
      <2>4. QED BY <1>1, <1>4, <1>5, <2>1, <2>2, <2>3 DEF EditorTyped
<1>7. EditorShows BY <1>1, ClosedEditor DEF EditorShows
<1>8. QED BY <1>6, <1>7 DEF EditorInv

LEMMA EditorNext ==
    ASSUME MaxEndpoints \in Nat \ {0}, EditorInv, [Policies!Next]_endpointVars
    PROVE  EditorInv'
<1> USE DEF EditorInv, EditorTyped
<1>1. CASE Policies!ChangeDefaults
      BY <1>1 DEF Policies!ChangeDefaults, EditorShows
<1>2. CASE Policies!OpenAdd
      BY <1>2, ClosedEditor DEF Policies!OpenAdd, EditorShows
<1>3. CASE Policies!Seeded
      <2>1. PICK p \in {defaults, Policies!Policy("sticky", "stripped")} :
                editor' = [editor EXCEPT !.open = TRUE, !.policy = p, !.late = editor.index # 0]
            BY <1>3 DEF Policies!Seeded
      <2>2. p \in Policies!Own BY PolicyOwned DEF Policies!Rotations, Policies!Generations
      <2>3. editor' \in EditorShape /\ editor'.index = editor.index
            /\ (editor'.late <=> editor.index # 0)
            BY <2>1, <2>2 DEF EditorShape
      <2>4. UNCHANGED <<defaults, endpoints, listing, unanswered>> /\ seeding' = FALSE
            BY <1>3 DEF Policies!Seeded
      <2>5. QED BY <2>3, <2>4 DEF EditorShows
<1>4. CASE Policies!OpenEdit
      <2>1. PICK i \in DOMAIN listing :
                editor' = [Policies!Closed EXCEPT !.open = TRUE, !.index = i,
                                                  !.policy = ShownAs(listing[i])]
            BY <1>4 DEF Policies!OpenEdit, ShownAs
      <2>2. i \in 1..Len(listing) /\ listing[i] \in ListedPolicy OBVIOUS
      <2>3. ShownAs(listing[i]) \in Policies!Own BY <2>2, ShownTyped
      <2>4. editor' \in EditorShape /\ editor'.index = i
            /\ editor'.policy = ShownAs(listing[i])
            <3> DEFINE filling == ShownAs(listing[i])
            <3>1. i \in Nat /\ filling \in Policies!Own BY <2>2, <2>3
            <3> HIDE DEF filling
            <3>2. editor' = [Policies!Closed EXCEPT !.open = TRUE, !.index = i, !.policy = filling]
                  BY <2>1 DEF filling
            <3>3. editor' \in EditorShape /\ editor'.index = i /\ editor'.policy = filling
                  BY <3>1, <3>2, ClosedEditor DEF EditorShape
            <3>4. QED BY <3>3 DEF filling
      <2>5. UNCHANGED <<defaults, endpoints, listing, seeding, unanswered>>
            BY <1>4 DEF Policies!OpenEdit
      <2>6. QED BY <2>2, <2>4, <2>5 DEF EditorShows, ShownAs
<1>5. CASE Policies!EditPolicy
      <2>1. editor' \in EditorShape /\ editor'.index = editor.index /\ editor'.touched
            BY <1>5 DEF Policies!EditPolicy, EditorShape
      <2>2. QED BY <1>5, <2>1 DEF Policies!EditPolicy, EditorShows
<1>6. CASE Policies!Cancel BY <1>6, ClosedEditor DEF Policies!Cancel, EditorShows
<1>7. CASE Policies!Submit
      <2>1. editor.policy \in Stored BY PolicyOwned DEF EditorShape
      <2>2. endpoints' \in Seq(Stored) /\ Len(endpoints') <= MaxEndpoints
            /\ Len(endpoints) <= Len(endpoints')
            <3>1. CASE Len(endpoints) < MaxEndpoints /\ endpoints' = Append(endpoints, editor.policy)
                  BY <2>1, <3>1
            <3>2. CASE editor.index \in DOMAIN endpoints
                       /\ endpoints' = [endpoints EXCEPT ![editor.index] = editor.policy]
                  BY <2>1, <3>2
            <3>3. QED BY <1>7, <3>1, <3>2 DEF Policies!Submit
      <2>3. UNCHANGED <<defaults, listing, editor, seeding>> /\ unanswered' = TRUE
            BY <1>7 DEF Policies!Submit
      <2>4. QED BY <2>2, <2>3 DEF EditorShows, ShownAs
<1>8. CASE Policies!Answered
      BY <1>8, ListingTyped, ClosedEditor DEF Policies!Answered, EditorShows
<1>9. CASE Policies!PostEndpoint
      <2>1. defaults \in Stored BY PolicyOwned
      <2>2. endpoints' \in Seq(Stored) /\ Len(endpoints') <= MaxEndpoints
            /\ Len(endpoints) <= Len(endpoints')
            BY <1>9, <2>1 DEF Policies!PostEndpoint
      <2>3. QED BY <1>9, <2>2 DEF Policies!PostEndpoint, EditorShows, ShownAs
<1>10. CASE Policies!PutEndpoint
      <2>1. PICK i \in DOMAIN endpoints, r \in Policies!Rotations :
                endpoints' = [endpoints EXCEPT ![i].rotation = r]
            BY <1>10 DEF Policies!PutEndpoint
      <2>2. endpoints[i] \in Stored OBVIOUS
      <2>3. [endpoints[i] EXCEPT !.rotation = r] \in Stored BY <2>2 DEF Stored
      <2>4. endpoints' \in Seq(Stored) /\ Len(endpoints') = Len(endpoints) BY <2>1, <2>3
      <2>5. QED BY <1>10, <2>4 DEF Policies!PutEndpoint, EditorShows, ShownAs
<1>11. CASE UNCHANGED endpointVars BY <1>11 DEF endpointVars, EditorShows, ShownAs
<1>12. QED BY <1>1, <1>2, <1>3, <1>4, <1>5, <1>6, <1>7, <1>8, <1>9, <1>10, <1>11
           DEF Policies!Next

LEMMA EditorTrue == ASSUME EditorInv PROVE Policies!TypeOK /\ Policies!UntouchedKept
<1> USE DEF EditorInv, EditorTyped
<1>1. Policies!TypeOK
      <2>1. Seq(ListedPolicy) \subseteq Seq(Stored)
            BY SeqMonotonic DEF ListedPolicy, Stored
      <2>2. QED BY <2>1 DEF Policies!TypeOK, Stored, EditorShape
<1>2. ASSUME Policies!Untouched, ~editor.late
      PROVE  /\ editor.policy.generation
                    = Policies!Effective(endpoints[editor.index]).generation
             /\ endpoints[editor.index].rotation # NULL =>
                    editor.policy.rotation
                        = Policies!Effective(endpoints[editor.index]).rotation
      <2>1. editor.policy = ShownAs(Policies!Listed(endpoints[editor.index]))
            BY <1>2 DEF Policies!Untouched, EditorShows
      <2>2. QED BY <2>1 DEF ShownAs, Policies!Listed, Policies!Effective, Policies!Policy
<1>3. QED BY <1>1, <1>2 DEF Policies!UntouchedKept

(***************************************************************************)
(* ModelEditor.  A run of the draft's test is known by its generation; the *)
(* run of the present one is at most one, and tests what the form holds.   *)
(***************************************************************************)
FormShape == [open : BOOLEAN, editing : Names \cup {NULL}, auto : BOOLEAN,
              version : Versions \cup {NULL}, backend : Backends \cup {NULL}]
Entries == Drafts!Targets \cup {Drafts!Auto, NULL}
Saves == [name : Names, old : Names \cup {NULL}, target : Drafts!Targets \cup {Drafts!Auto}]

FormTyped ==
    /\ stored \in [Names -> Entries] /\ listed \in [Names -> Entries] /\ refreshing \in BOOLEAN
    /\ form \in FormShape
    /\ fetching \in Versions \cup {NULL} /\ fetched \in Versions \cup {NULL}
    /\ submitting \in Saves \cup {NULL} /\ deleting \in Names \cup {NULL}

TestsTyped ==
    /\ draft \in Nat /\ testing \in BOOLEAN
    /\ tests \subseteq [gen : 1..draft, answer : Drafts!Targets]

DraftInv == FormTyped /\ TestsTyped /\ Drafts!DraftTrue

LEMMA BlankForm == Drafts!Blank \in FormShape BY DEF Drafts!Blank, FormShape

\* resetForm() and resetDraftTest(): no run is of the new generation.
LEMMA ResetKeeps ==
    ASSUME TestsTyped, Drafts!ResetDraftTest PROVE TestsTyped' /\ Drafts!DraftTrue'
<1>1. draft' = draft + 1 /\ testing' = FALSE /\ result' = NULL /\ tests' = tests
      BY DEF Drafts!ResetDraftTest
<1>2. \A test \in tests : test.gen \in 1..draft /\ test.gen # draft + 1 BY DEF TestsTyped
<1>3. TestsTyped'
      <2>1. draft \in Nat /\ 1..draft \subseteq 1..(draft + 1) BY DEF TestsTyped
      <2>2. \A test \in tests : test \in [gen : 1..draft', answer : Drafts!Targets]
            <3> SUFFICES ASSUME NEW test \in [gen : 1..draft, answer : Drafts!Targets]
                         PROVE  test \in [gen : 1..(draft + 1), answer : Drafts!Targets]
                BY <1>1 DEF TestsTyped
            <3>1. QED BY <2>1
      <2>3. tests' \subseteq [gen : 1..draft', answer : Drafts!Targets] BY <1>1, <2>2
      <2>4. draft' \in Nat
            <3>1. draft' = draft + 1 BY <1>1
            <3>2. draft \in Nat BY <2>1
            <3>3. QED BY <3>1, <3>2
      <2>7. testing' \in BOOLEAN BY <1>1
      <2>5. (Drafts!Targets)' = Drafts!Targets BY DEF Drafts!Targets
      <2>6. QED BY <2>3, <2>4, <2>5, <2>7 DEF TestsTyped
<1>4. QED BY <1>1, <1>2, <1>3 DEF TestsTyped, Drafts!DraftTrue

\* An edit: a run or a result that it makes out of date is reset.
LEMMA InvalidateKeeps ==
    ASSUME TestsTyped, Drafts!DraftTrue, Drafts!InvalidateDraftTest
    PROVE  TestsTyped' /\ Drafts!DraftTrue'
<1>1. CASE testing \/ result # NULL
      BY <1>1, ResetKeeps DEF Drafts!InvalidateDraftTest
<1>2. CASE ~(testing \/ result # NULL)
      <2>1. UNCHANGED <<draft, testing, result, tests>>
            BY <1>2 DEF Drafts!InvalidateDraftTest, Drafts!draftVars
      <2>2. QED BY <1>2, <2>1 DEF TestsTyped, Drafts!DraftTrue
<1>3. QED BY <1>1, <1>2

LEMMA PopulatedForm ==
    ASSUME FormTyped, NEW n \in Names, listed[n] # NULL, NEW editing \in Names \cup {NULL}
    PROVE  Drafts!Populated(n, editing) \in FormShape
<1>1. CASE listed[n] = Drafts!Auto
      BY <1>1, BlankForm DEF Drafts!Populated, FormShape
<1>2. CASE listed[n] # Drafts!Auto
      <2>1. listed[n] \in Drafts!Targets BY <1>2 DEF FormTyped, Entries
      <2>2. listed[n][1] \in Versions /\ listed[n][2] \in Backends
            BY <2>1 DEF Drafts!Targets
      <2>3. QED BY <1>2, <2>2, BlankForm DEF Drafts!Populated, FormShape
<1>3. QED BY <1>1, <1>2

\* The modal is opened, cloned into or closed.
LEMMA OpeningKeeps ==
    ASSUME DraftInv, NEW filled \in FormShape, Drafts!Reset(filled),
           UNCHANGED <<stored, listed, refreshing, deleting, submitting>>
    PROVE  DraftInv'
<1>1. TestsTyped' /\ Drafts!DraftTrue' BY ResetKeeps DEF DraftInv, Drafts!Reset
<1>2. FormTyped' BY DEF DraftInv, FormTyped, Drafts!Reset
<1>3. QED BY <1>1, <1>2 DEF DraftInv

LEMMA EditModalKeeps == ASSUME DraftInv, Drafts!EditModal PROVE DraftInv'
<1>0. UNCHANGED <<stored, listed, refreshing, deleting, submitting>>
      BY DEF Drafts!EditModal, Drafts!listVars
<1>1. CASE Drafts!OpenAdd
      <2>1. [Drafts!Blank EXCEPT !.open = TRUE] \in FormShape BY BlankForm DEF FormShape
      <2>2. QED BY <1>0, <1>1, <2>1, OpeningKeeps DEF Drafts!OpenAdd
<1>2. CASE Drafts!OpenEdit
      <2>1. PICK n \in Names : listed[n] # NULL /\ Drafts!Reset(Drafts!Populated(n, n))
            BY <1>2 DEF Drafts!OpenEdit
      <2>2. QED BY <1>0, <2>1, PopulatedForm, OpeningKeeps DEF DraftInv
<1>3. CASE Drafts!OpenClone
      <2>1. PICK n \in Names : listed[n] # NULL /\ Drafts!Reset(Drafts!Populated(n, NULL))
            BY <1>3 DEF Drafts!OpenClone
      <2>2. QED BY <1>0, <2>1, PopulatedForm, OpeningKeeps DEF DraftInv
<1>4. CASE Drafts!CloseModal BY <1>0, <1>4, BlankForm, OpeningKeeps DEF Drafts!CloseModal
<1>5. CASE Drafts!ChangeType
      <2>1. form' \in FormShape BY <1>5 DEF Drafts!ChangeType, DraftInv, FormTyped, FormShape
      <2>2. TestsTyped' /\ Drafts!DraftTrue'
            BY <1>5, InvalidateKeeps DEF Drafts!ChangeType, DraftInv
      <2>3. QED BY <1>0, <1>5, <2>1, <2>2
               DEF Drafts!ChangeType, Drafts!fetchVars, DraftInv, FormTyped
<1>6. CASE Drafts!PickVersion
      <2>1. form' \in FormShape BY <1>6 DEF Drafts!PickVersion, DraftInv, FormTyped, FormShape
      <2>2. TestsTyped' /\ Drafts!DraftTrue'
            BY <1>6, InvalidateKeeps DEF Drafts!PickVersion, DraftInv
      <2>3. QED BY <1>0, <1>6, <2>1, <2>2 DEF Drafts!PickVersion, DraftInv, FormTyped
<1>7. CASE Drafts!EditBackend
      <2>1. form' \in FormShape BY <1>7 DEF Drafts!EditBackend, DraftInv, FormTyped, FormShape
      <2>2. TestsTyped' /\ Drafts!DraftTrue'
            BY <1>7, InvalidateKeeps DEF Drafts!EditBackend, DraftInv
      <2>3. QED BY <1>0, <1>7, <2>1, <2>2
               DEF Drafts!EditBackend, Drafts!fetchVars, DraftInv, FormTyped
<1>8. CASE Drafts!TestDraftModel
      <2> DEFINE run == [gen |-> draft + 1, answer |-> <<form.version, form.backend>>]
      <2>1. /\ form.open /\ ~form.auto /\ form' = form
            /\ draft' = draft + 1 /\ testing' = TRUE /\ result' = NULL /\ tests' = tests \cup {run}
            /\ UNCHANGED <<fetching, fetched>>
            BY <1>8 DEF Drafts!TestDraftModel, Drafts!fetchVars, Drafts!Ping
      <2>2. form.version \in Versions /\ form.backend \in Backends
            BY <1>8 DEF Drafts!TestDraftModel, DraftInv, FormTyped, FormShape
      <2>3. \A test \in tests : test.gen \in 1..draft /\ test.gen # draft + 1
            BY DEF DraftInv, TestsTyped
      <2>4. run.answer \in Drafts!Targets BY <2>2 DEF Drafts!Targets
      <2>5. TestsTyped' BY <2>1, <2>4 DEF DraftInv, TestsTyped
      <2>6. \A test \in tests' : test.gen = draft' <=> test = run BY <2>1, <2>3
      <2>9. run \in tests' /\ run.answer = <<form'.version, form'.backend>> /\ run.gen = draft'
            BY <2>1
      <2> HIDE DEF run
      <2>10. Drafts!DraftTrue' BY <2>1, <2>6, <2>9 DEF Drafts!DraftTrue, Drafts!Fits
      <2>7. FormTyped' BY <1>0, <2>1 DEF DraftInv, FormTyped
      <2>8. QED BY <2>5, <2>7, <2>10 DEF DraftInv
<1>9. CASE Drafts!DraftAnswered
      <2>1. PICK test \in tests :
                /\ tests' = tests \ {test}
                /\ result' = IF Drafts!Fits(test) THEN test.answer ELSE result
                /\ testing' = (testing /\ test.gen # draft)
            BY <1>9 DEF Drafts!DraftAnswered
      <2>2. draft' = draft /\ form' = form /\ UNCHANGED <<fetching, fetched>>
            BY <1>9 DEF Drafts!DraftAnswered, Drafts!fetchVars
      <2>3. ASSUME NEW other \in tests, testing, test.gen = draft, other.gen = draft
            PROVE  other = test
            <3>1. Drafts!Fits(test) /\ Drafts!Fits(other)
                  BY <2>3 DEF DraftInv, Drafts!DraftTrue
            <3>2. other.answer = test.answer BY <3>1 DEF Drafts!Fits
            <3>3. other = [gen |-> other.gen, answer |-> other.answer]
                  /\ test = [gen |-> test.gen, answer |-> test.answer]
                  BY DEF DraftInv, TestsTyped
            <3>4. QED BY <2>3, <3>2, <3>3
      <2>4. TestsTyped' BY <2>1, <2>2 DEF DraftInv, TestsTyped
      <2>5. testing' <=> \E other \in tests' : other.gen = draft'
            BY <2>1, <2>2, <2>3 DEF DraftInv, Drafts!DraftTrue
      <2>6. testing' => \A other \in tests' : other.gen = draft' => Drafts!Fits(other)'
            BY <2>1, <2>2 DEF DraftInv, Drafts!DraftTrue, Drafts!Fits
      <2>7. result' # NULL => ~testing' /\ form'.open /\ ~form'.auto
                              /\ result' = <<form'.version, form'.backend>>
            BY <2>1, <2>2 DEF DraftInv, Drafts!DraftTrue, Drafts!Fits
      <2>8. FormTyped' BY <1>0, <2>2 DEF DraftInv, FormTyped
      <2>9. QED BY <2>4, <2>5, <2>6, <2>7, <2>8 DEF DraftInv, Drafts!DraftTrue
<1>10. CASE Drafts!FetchUpstream
       BY <1>0, <1>10 DEF Drafts!FetchUpstream, Drafts!draftVars, DraftInv, FormTyped,
                          TestsTyped, Drafts!DraftTrue, Drafts!Fits, FormShape
<1>11. CASE Drafts!FetchAnswered
       BY <1>0, <1>11 DEF Drafts!FetchAnswered, Drafts!UpstreamModels, Drafts!draftVars,
                          DraftInv, FormTyped, TestsTyped, Drafts!DraftTrue, Drafts!Fits
<1>12. QED BY <1>1, <1>2, <1>3, <1>4, <1>5, <1>6, <1>7, <1>8, <1>9, <1>10, <1>11
           DEF Drafts!EditModal

LEMMA DraftInit == ASSUME Drafts!Init PROVE DraftInv
<1>1. FormTyped BY BlankForm DEF Drafts!Init, Drafts!Catalogs, FormTyped, Entries
<1>2. TestsTyped BY DEF Drafts!Init, TestsTyped
<1>3. Drafts!DraftTrue BY DEF Drafts!Init, Drafts!DraftTrue
<1>4. QED BY <1>1, <1>2, <1>3 DEF DraftInv

LEMMA DraftNext == ASSUME DraftInv, [Drafts!Next]_modelVars PROVE DraftInv'
<1>0. ASSUME UNCHANGED <<form, draft, testing, result, tests>>
      PROVE  TestsTyped' /\ Drafts!DraftTrue'
      BY <1>0 DEF DraftInv, TestsTyped, Drafts!DraftTrue, Drafts!Fits
<1>1. CASE Drafts!EditModal BY <1>1, EditModalKeeps
<1>2. CASE Drafts!Submit
      <2>1. PICK n \in Names :
                submitting' = [name |-> n, old |-> form.editing,
                               target |-> IF form.auto THEN Drafts!Auto
                                          ELSE <<form.version, form.backend>>]
            BY <1>2 DEF Drafts!Submit
      <2>2. ~form.auto => form.version \in Versions /\ form.backend \in Backends
            BY <1>2 DEF Drafts!Submit, DraftInv, FormTyped, FormShape
      <2>3. form.editing \in Names \cup {NULL} /\ form.auto \in BOOLEAN
            BY DEF DraftInv, FormTyped, FormShape
      <2>4. submitting' \in Saves BY <2>1, <2>2, <2>3 DEF Saves, Drafts!Targets
      <2>5. UNCHANGED <<stored, listed, refreshing, deleting, form, draft, testing, result,
                        tests, fetching, fetched>>
            BY <1>2 DEF Drafts!Submit, Drafts!draftVars, Drafts!fetchVars
      <2>6. QED BY <1>0, <2>4, <2>5 DEF DraftInv, FormTyped
<1>3. CASE Drafts!Saved
      <2>1. submitting \in Saves BY <1>3 DEF Drafts!Saved, DraftInv, FormTyped
      <2>2. Drafts!Reset(Drafts!Blank) BY <1>3 DEF Drafts!Saved
      <2>3. TestsTyped' /\ Drafts!DraftTrue' BY <2>2, ResetKeeps DEF DraftInv, Drafts!Reset
      <2>4. stored' \in [Names -> Entries]
            BY <1>3, <2>1 DEF Drafts!Saved, DraftInv, FormTyped, Entries, Saves
      <2>5. QED BY <1>3, <2>2, <2>3, <2>4, BlankForm
               DEF Drafts!Saved, Drafts!Reset, DraftInv, FormTyped
<1>4. CASE Drafts!NotSaved
      BY <1>0, <1>4 DEF Drafts!NotSaved, Drafts!listVars, Drafts!draftVars, Drafts!fetchVars,
                        DraftInv, FormTyped
<1>5. CASE Drafts!ConfirmDelete
      BY <1>0, <1>5 DEF Drafts!ConfirmDelete, Drafts!draftVars, Drafts!fetchVars,
                        DraftInv, FormTyped
<1>6. CASE Drafts!DeleteAnswered
      BY <1>0, <1>6 DEF Drafts!DeleteAnswered, Drafts!draftVars, Drafts!fetchVars,
                        DraftInv, FormTyped, Entries
<1>7. CASE Drafts!Load
      BY <1>0, <1>7 DEF Drafts!Load, Drafts!draftVars, Drafts!fetchVars, DraftInv, FormTyped
<1>8. CASE Drafts!TestModel
      BY <1>0, <1>8 DEF Drafts!TestModel, Drafts!listVars, Drafts!draftVars, Drafts!fetchVars,
                        DraftInv, FormTyped
<1>9. CASE Drafts!ModelTested
      BY <1>0, <1>9 DEF Drafts!ModelTested, Drafts!listVars, Drafts!draftVars,
                        Drafts!fetchVars, DraftInv, FormTyped
<1>10. CASE UNCHANGED modelVars
       BY <1>0, <1>10 DEF modelVars, DraftInv, FormTyped
<1>11. QED BY <1>1, <1>2, <1>3, <1>4, <1>5, <1>6, <1>7, <1>8, <1>9, <1>10 DEF Drafts!Next

LEMMA DraftTyped == ASSUME DraftInv PROVE Drafts!TypeOK
BY DEF DraftInv, FormTyped, TestsTyped, FormShape, Entries, Drafts!TypeOK, Drafts!Catalogs

\* To open an endpoint and to save it changes nothing of what its requests get, whatever else
\* was done meanwhile (routes/admin.ts:950); and the result in the modal of a model is that of
\* the model in it, for any number of tests, edits and late answers
\* (frontend/src/admin/pages/ModelsPage.svelte:554).
THEOREM EditorsTrueHolds ==
    ASSUME MaxEndpoints \in Nat \ {0} PROVE MCSpec => []EditorsTrue
<1>1. MCInit => EditorInv /\ DraftInv BY EditorInit, DraftInit DEF MCInit
<1>2. [MCNext]_MCVars => [Policies!Next]_endpointVars /\ [Drafts!Next]_modelVars
      BY DEF MCNext, StreamNext, StoreNext, PageNext, MCVars
<1>3. EditorInv /\ DraftInv /\ [MCNext]_MCVars => EditorInv' /\ DraftInv'
      BY <1>2, EditorNext, DraftNext
<1>4. EditorInv /\ DraftInv => EditorsTrue
      BY EditorTrue, DraftTyped DEF DraftInv, EditorsTrue
<1>5. QED BY <1>1, <1>3, <1>4, PTL DEF MCSpec
=============================================================================
