------------------------------- MODULE MCData -------------------------------
(***************************************************************************)
(* The components that keep, convert or show data: the log store, the      *)
(* admin's configuration and settings, the conversions of requests and     *)
(* streams, the usage reports, and the front end's lists, editors and      *)
(* playground.                                                             *)
(* They share no state, so a behaviour is one of one of them, which the    *)
(* initial state names: no product of their states is built.               *)
(***************************************************************************)
EXTENDS Integers, Sequences

CONSTANTS NULL, ToolKeys, MaxChunks, MaxBlocks, MaxTurns, MaxCalls, MaxFrames, MaxLines,
          Models, DayLength, MaxTime, MaxLogged, MaxEdits,
          LogIds, Old, KeyNames, MaxDay, MaxActs,
          MaxBilled, MaxPrompt, Rates, Autos, MaxCeiling, Values,
          Filters, Limit, MaxListed, MaxLoads,
          MaxMessages, MaxChats, KeptChats, KeptMessages, MaxOps,
          MaxSlots, MaxCount, MaxOperations,
          MaxEndpoints, Names, Versions, Backends, MaxTests, MaxSaves

VARIABLES
    component,
    m, out, fragments, chunks, settled,
    format, blocks, toolIndex, sent, told, finishes, over, thrown,
    chat, messages, calls,
    mode, delivered, buffer, reader, reply, ended,
    kind, now, rows, legacy, rollups, cache, reads, manage, up, owed, overtaken,
    engine, opened, day, keyName, request, starts, ends, errors, acts, cut, borne, toldAt,
    database, disk, memory, rename, page, excuses, edits,
    rate, shared, billed, sums,
    current, file, refused, autos, served,
    list, count, filter, offset, shown, loading, failed, generation, flights, shrank,
    open, chats, active, turn, timer, held, unwritten, saved, db, ops, created,
    slots, retriable, runs, latest, generating, counted, usable,
    defaults, endpoints, listing, editor, seeding, unanswered,
    stored, listed, refreshing, form, draft, testing, result, tests,
    fetching, fetched, submitting, deleting, row, badges, saves

blockVars == <<m, out, fragments, chunks, settled>>
callVars == <<format, blocks, toolIndex, sent, told, finishes, over, thrown>>
turnVars == <<chat, messages, calls>>
clientVars == <<mode, delivered, buffer, reader, reply, ended>>
logVars == <<kind, now, rows, legacy, rollups, cache, reads, manage, up, owed, overtaken>>
historyVars == <<engine, opened, day, keyName, request, starts, ends, errors, acts, cut, borne, toldAt>>
configVars == <<database, disk, memory, rename, page, excuses, edits>>
usageVars == <<rate, shared, billed, sums>>
settingVars == <<current, file, refused, autos, served>>
listVars == <<list, count, filter, offset, shown, loading, failed, generation, flights, shrank>>
chatVars == <<open, chats, active, turn, timer, held, unwritten, saved, db, ops, created>>
imageVars == <<slots, retriable, runs, latest, generating, counted, usable>>
endpointVars == <<defaults, endpoints, listing, editor, seeding, unanswered>>
modelVars == <<stored, listed, refreshing, form, draft, testing, result, tests,
               fetching, fetched, submitting, deleting, row, badges, saves>>

Blocks == INSTANCE AnthropicStream
Calls == INSTANCE StreamAdapters
Turns == INSTANCE RequestFormats
Client == INSTANCE ClientStream WITH sent <- delivered, shown <- reply
Log == INSTANCE LogStore WITH MaxRows <- MaxLogged
History == INSTANCE RequestHistory
Config == INSTANCE AdminConfig WITH kind <- database
Bill == INSTANCE Usage WITH MaxRows <- MaxBilled, rows <- billed, rollups <- sums
Ceiling == INSTANCE Settings
Lists == INSTANCE PageLoads WITH MaxRows <- MaxListed, page <- list
Tab == INSTANCE Playground WITH failed <- unwritten, disk <- saved
Grid == INSTANCE ImageTurns
Policies == INSTANCE EndpointEditor WITH list <- listing
Drafts == INSTANCE ModelEditor WITH loading <- refreshing, generation <- draft

Streams == {"blocks", "calls", "turns", "client"}
Stores == {"log", "history", "config", "usage", "settings"}
Pages == {"lists", "chats", "images", "endpoints", "models"}

\* A component that is not the one at work starts in one of its initial states only.
Idle ==
    /\ component # "calls" => format = "gemini"
    /\ component # "client" => mode = "stream"
    /\ component # "log" => kind = "sqlite" /\ legacy = Log!Zero
    /\ keyName = CHOOSE n \in KeyNames : TRUE
    /\ component # "config" => database = "sqlite"
    /\ component # "usage" => rate = 1 /\ shared = TRUE /\ billed = <<>>
    /\ component # "settings" => /\ file = [ceiling |-> 1, other |-> CHOOSE v \in Values : TRUE]
                                 /\ autos = [a \in Autos |-> [enabled |-> FALSE, cap |-> 1]]
    /\ component # "lists" => list = "logs"
    /\ component # "endpoints" => /\ defaults = Policies!Policy("sticky", "stripped")
                                  /\ endpoints = <<Policies!Policy(NULL, NULL)>>
    /\ component # "models" => stored = [n \in Names |-> NULL]

\* An SQLite store has a row of an older version, a PostgreSQL store has none.
FirstHistory ==
    IF component = "history"
    THEN ends = (IF engine = "sqlite" THEN {History!OldEnd(CHOOSE a \in Models : TRUE)} ELSE {})
    ELSE engine = "sqlite" /\ ends = {}

MCInit ==
    /\ component \in Streams \cup Stores \cup Pages
    /\ Idle
    /\ Blocks!Init /\ Calls!Init /\ Turns!Init /\ Client!Init
    /\ History!Init /\ FirstHistory
    /\ Log!Init /\ Config!Init /\ Bill!Init /\ Ceiling!Init
    /\ Lists!Init /\ Tab!Init /\ Grid!Init /\ Policies!Init /\ Drafts!Init

StreamNext ==
    /\ \/ component = "blocks" /\ Blocks!Next /\ UNCHANGED <<callVars, turnVars, clientVars>>
       \/ component = "calls" /\ Calls!Next /\ UNCHANGED <<blockVars, turnVars, clientVars>>
       \/ component = "turns" /\ Turns!Next /\ UNCHANGED <<blockVars, callVars, clientVars>>
       \/ component = "client" /\ Client!Next /\ UNCHANGED <<blockVars, callVars, turnVars>>
    /\ UNCHANGED <<component, logVars, historyVars, configVars, usageVars, settingVars,
                   listVars, chatVars, imageVars, endpointVars, modelVars>>

StoreNext ==
    /\ \/ component = "log" /\ Log!Next
          /\ UNCHANGED <<historyVars, configVars, usageVars, settingVars>>
       \/ component = "history" /\ History!Next
          /\ UNCHANGED <<logVars, configVars, usageVars, settingVars>>
       \/ component = "config" /\ Config!Next
          /\ UNCHANGED <<logVars, historyVars, usageVars, settingVars>>
       \/ component = "usage" /\ Bill!Next
          /\ UNCHANGED <<logVars, historyVars, configVars, settingVars>>
       \/ component = "settings" /\ Ceiling!Next
          /\ UNCHANGED <<logVars, historyVars, configVars, usageVars>>
    /\ UNCHANGED <<component, blockVars, callVars, turnVars, clientVars,
                   listVars, chatVars, imageVars, endpointVars, modelVars>>

PageNext ==
    /\ \/ component = "lists" /\ Lists!Next
          /\ UNCHANGED <<chatVars, imageVars, endpointVars, modelVars>>
       \/ component = "chats" /\ Tab!Next
          /\ UNCHANGED <<listVars, imageVars, endpointVars, modelVars>>
       \/ component = "images" /\ Grid!Next
          /\ UNCHANGED <<listVars, chatVars, endpointVars, modelVars>>
       \/ component = "endpoints" /\ Policies!Next
          /\ UNCHANGED <<listVars, chatVars, imageVars, modelVars>>
       \/ component = "models" /\ Drafts!Next
          /\ UNCHANGED <<listVars, chatVars, imageVars, endpointVars>>
    /\ UNCHANGED <<component, blockVars, callVars, turnVars, clientVars,
                   logVars, historyVars, configVars, usageVars, settingVars>>

MCNext == StreamNext \/ StoreNext \/ PageNext

MCVars == <<component, blockVars, callVars, turnVars, clientVars,
            logVars, historyVars, configVars, usageVars, settingVars,
            listVars, chatVars, imageVars, endpointVars, modelVars>>

MCSpec == MCInit /\ [][MCNext]_MCVars

-----------------------------------------------------------------------------
(* The first property of a module includes its type invariant.             *)

\* AnthropicStream: blocks nest, and a tool call arrives whole, however its fragments were
\* mixed (routes/messages.ts:1348).  ClientStream: the visitor reads the answer's text,
\* however its lines and tags were cut (frontend/src/lib/playground/stream.ts:264).
StreamWhole ==
    /\ component = "blocks" => Blocks!TypeOK /\ Blocks!BlocksNest /\ Blocks!ToolsWhole
    /\ component = "client" => Client!TypeOK /\ Client!ReadWhole

\* StreamAdapters: calls are told apart by their index, and the client hears once why the
\* answer ended (utils/adapters/anthropic.ts:352, openai-responses.ts:453).
CallsApart == component = "calls" => Calls!TypeOK /\ Calls!CallsApart

\* RequestFormats: every result answers the call it answered in the client's conversation,
\* and an answer comes back with its calls and its text
\* (routes/messages.ts:67, utils/adapters/anthropic.ts:44).
ToolTurnsKept ==
    component = "turns" =>
        Turns!TypeOK /\ Turns!ToolTurnsKept /\ Turns!GeminiTextKept /\ Turns!AnswersArrive

\* LogStore: the rollups of retained days are the sums of their rows
\* (services/logManager.ts:613).
RollupsMatch == component = "log" => Log!TypeOK /\ Log!RollupsMatch

\* LogStore: cached statistics are those of the rows, or overtaken by a write
\* (services/logManager.ts:1086).
StatsFresh == component = "log" => Log!StatsFresh

\* LogStore: retention costs details, not history; RequestHistory: what it removes is what
\* lies before its midnight, of every kind of row (services/logManager.ts:1526, 2120).
HistoryKept ==
    /\ [][component = "log" => Log!HistoryStep]_logVars
    /\ [][component = "history" => History!RetentionStep]_historyVars

\* AdminConfig: no automatic model, model or endpoint names what is gone, after any edits,
\* failed saves and restarts (routes/admin.ts:751, 1326, 1659).
ReferencesWhole ==
    component = "config" => Config!TypeOK /\ Config!ReferencesWhole /\ Config!ProxiesKept

\* AdminConfig: between requests the process routes by what is on disk (routes/admin.ts:740).
RegistryCurrent == component = "config" => Config!RegistryCurrent

\* Usage: dashboard, account page and history agree on every number
\* (utils/usageReporting.ts:21, services/logManager.ts:742).
ReportsAgree == component = "usage" => Bill!TypeOK /\ Bill!ReportsAgree

\* Settings: what is enabled is served, before and after a restart, however the ceiling was
\* moved (routes/admin.ts:1726, 806).
CeilingHeld == component = "settings" => Ceiling!TypeOK /\ Ceiling!CeilingHeld

\* PageLoads: a settled list shows the rows its controls name.  RequestHistory: the menus of
\* the request log name what it holds, and a failed request's detail shows its error
\* (frontend/src/admin/pages/LogsPage.svelte:63, services/logManager.ts:1269).
ListsTrue ==
    /\ component = "lists" => Lists!TypeOK /\ Lists!ListsTrue
    /\ component = "history" => History!TypeOK /\ History!MenusTrue /\ History!RelatedTrue

\* Playground: collecting drops no image that is still shown or stored
\* (frontend/src/lib/playground/attachmentStore.ts:95).
ImagesKept == [][component = "chats" => Tab!CollectStep]_chatVars

\* Playground and ImageTurns: a streamed answer writes to its own message, an image
\* operation to its own cells (frontend/src/public/pages/PlaygroundPage.svelte:258, 329).
TurnsOwnTheirPlace ==
    /\ component = "chats" => Tab!TypeOK /\ Tab!IndexSafe
    /\ component = "images" => Grid!TypeOK /\ Grid!SlotsOwned

\* EndpointEditor: to open an endpoint and save it changes nothing of what its requests get
\* (routes/admin.ts:950).  ModelEditor: the result beside a draft is that draft's, and the
\* modal says that it tests for as long as it does (admin/pages/ModelsPage.svelte:554).
EditorsTrue ==
    /\ component = "endpoints" => Policies!TypeOK /\ Policies!UntouchedKept
    /\ component = "models" => Drafts!TypeOK /\ Drafts!DraftTrue
=============================================================================
