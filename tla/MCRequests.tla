----------------------------- MODULE MCRequests -----------------------------
(***************************************************************************)
(* The components a request passes through beside the chat route: the      *)
(* messages route, the unary routes, the client's key, the admin's way in, *)
(* the database, and the uptime layer that counts its outcome.             *)
(* They share no state, so a behaviour is one of one of them, which the    *)
(* initial state names: no product of their states is built.               *)
(***************************************************************************)
EXTENDS Integers, Sequences

CONSTANTS MessageAttempts, MessageEvents, UnaryAttempts,
          Requests, Window, Limits, Cookies, Visits, MaxLogins, Lifetime, Callers, MaxCalls,
          Models, MaxBucket, MaxHot, MaxSamples, Retention, UptimeWindow, LostAcks

VARIABLES
    component,
    streaming, phase, attempts, upstream, error, response, ended, gone, left, tasks,
    active, ends, samples, errorRows, faults, forgotten,
    route, uPhase, uAttempts, credited, unread, uActive, uEnds, uSamples, uErrorRows,
    answer, uFaults, uForgotten,
    row, holder, request, slots, session, visit, admin, taken, counted,
    tries, browser, rows, due, visits, admitted, revoked,
    kind, call, tail, open, buffer, stored, told, calls,
    now, mode, hot, flush, pending, table, query, recorded

messageVars == <<streaming, phase, attempts, upstream, error, response, ended, gone, left,
                 tasks, active, ends, samples, errorRows, faults, forgotten>>
unaryVars == <<route, uPhase, uAttempts, credited, unread, uActive, uEnds, uSamples,
               uErrorRows, answer, uFaults, uForgotten>>
accessVars == <<row, holder, request, slots, session, visit, admin, taken, counted>>
adminVars == <<tries, browser, rows, due, visits, admitted, revoked>>
databaseVars == <<kind, call, tail, open, buffer, stored, told, calls>>
uptimeVars == <<now, mode, hot, flush, pending, table, query, recorded>>

Route == INSTANCE Messages WITH MaxAttempts <- MessageAttempts, MaxEvents <- MessageEvents
Unary == INSTANCE UnaryRequest WITH
    MaxAttempts <- UnaryAttempts, phase <- uPhase, attempts <- uAttempts, active <- uActive,
    ends <- uEnds, samples <- uSamples, errorRows <- uErrorRows, faults <- uFaults,
    forgotten <- uForgotten
Key == INSTANCE Access WITH attempts <- slots
Panel == INSTANCE AdminAccess
Store == INSTANCE Database WITH answer <- told
Ups == INSTANCE Uptime WITH Window <- UptimeWindow, store <- table

\* A component that is not the one at work starts in one of its initial states only.
MCInit ==
    /\ component \in {"messages", "unary", "access", "admin", "database", "uptime"}
    /\ Route!Init /\ Unary!Init /\ Key!Init /\ Panel!Init /\ Store!Init /\ Ups!Init
    /\ component # "messages" => streaming
    /\ component # "unary" => route = "image"
    /\ component # "access" => row = Key!NewRow(1, 1)
    /\ component # "database" => kind = "sqlite"

MCNext ==
    /\ \/ component = "messages" /\ Route!Next
          /\ UNCHANGED <<unaryVars, accessVars, adminVars, databaseVars, uptimeVars>>
       \/ component = "unary" /\ Unary!Next
          /\ UNCHANGED <<messageVars, accessVars, adminVars, databaseVars, uptimeVars>>
       \/ component = "access" /\ Key!Next
          /\ UNCHANGED <<messageVars, unaryVars, adminVars, databaseVars, uptimeVars>>
       \/ component = "admin" /\ Panel!Next
          /\ UNCHANGED <<messageVars, unaryVars, accessVars, databaseVars, uptimeVars>>
       \/ component = "database" /\ Store!Next
          /\ UNCHANGED <<messageVars, unaryVars, accessVars, adminVars, uptimeVars>>
       \/ component = "uptime" /\ Ups!Next
          /\ UNCHANGED <<messageVars, unaryVars, accessVars, adminVars, databaseVars>>
    /\ UNCHANGED component

\* The fairness of the modules' own specifications, of the component at work.
MCFairness ==
    /\ WF_messageVars(component = "messages" /\ Route!HandlerStep)
    /\ WF_messageVars(component = "messages" /\ Route!TaskStep)
    /\ SF_accessVars(component = "access" /\ Key!ResetDaily)
    /\ \A r \in Requests : WF_accessVars(component = "access" /\ Key!Count(r))
    /\ \A c \in Callers : WF_databaseVars(component = "database" /\ Store!Step(c))

MCSpec ==
    /\ MCInit
    /\ [][MCNext]_<<component, messageVars, unaryVars, accessVars, adminVars,
                    databaseVars, uptimeVars>>
    /\ MCFairness

-----------------------------------------------------------------------------
(* The first property of a module includes its type invariant.             *)

\* Messages: one attempt speaks, and while the stores work its request has one row and
\* one sample, which tell what the client has read (routes/messages.ts:544, 1483).
AccountedOnce == Route!TypeOK /\ Route!OneVoice /\ Route!AccountedOnce

\* Messages: a client that is seen to leave costs nothing more (routes/messages.ts:832).
LeaverCostsNothing == Route!LeaverCostsNothing

\* Messages: a handler that is done leaves a response that ends, although a task of its
\* own ends it (routes/messages.ts:1483).
AnswerCloses == Route!AnswerCloses

\* UnaryRequest: an answer and its log row agree, and a generation that was credited is
\* not bought again (routes/images.ts:140, routes/embeddings.ts:169).
AnsweredAsLogged == Unary!TypeOK /\ Unary!AnsweredAsLogged /\ Unary!PaidOnce

\* Access: the daily counter is what was admitted since its reset
\* (services/apiKeyManager.ts:286).
UsageTrue == Key!UsageTrue

\* Access: the requests admitted within a minute fit the key's limit, and only a key
\* that is stored, active and under its limit is served (middleware/rateLimiter.ts:67,
\* services/apiKeyManager.ts:256, routes/account.ts:78).  AdminAccess: logins from an address
\* fit the limit of a minute, and an admin page is served for a session that is neither
\* logged out nor over, and refused to no other (rateLimiter.ts:40, sessionManager.ts:69).
ServedWithinLimits ==
    /\ []Key!TypeOK /\ Key!WindowKept /\ Key!EntitledWhenServed
    /\ []Panel!TypeOK /\ Panel!LoginsLimited /\ Panel!VisitsTrue

\* Access: a key at its daily limit is let in again (services/apiKeyManager.ts:301).
LockoutEnds == Key!LockoutEnds

\* Database: a transaction is in the tables whole or not at all (services/database.ts:95).
AllOrNothing == Store!TypeOK /\ Store!AllOrNothing

\* Database: whoever waits for a transaction gets its turn (services/database.ts:111).
TurnComes == Store!TurnComes

\* Uptime: the layer implements the ledger of UptimeLedger (services/uptime/service.ts:162).
CountsLikeLedger == Ups!CountsLikeLedger

\* Uptime: what a page shows exceeds nothing and lacks only what was leaving memory
\* (services/uptime/service.ts:223); the map in memory keeps its cap (service.ts:202).
AnswerTrue ==
    [][component = "uptime" => Ups!TypeOK /\ Ups!HotBounded /\ Ups!AnswerStep]_uptimeVars
=============================================================================
