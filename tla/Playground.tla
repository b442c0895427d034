----------------------------- MODULE Playground -----------------------------
(***************************************************************************)
(* The chat playground of one browser tab                                  *)
(* (frontend/src/public/pages/PlaygroundPage.svelte with                   *)
(* lib/playground/storage.ts and attachmentStore.ts).                      *)
(*                                                                         *)
(* The workspace in memory is written to localStorage as a whole, without  *)
(* the bytes of its images; those live in IndexedDB under the image's id   *)
(* and are put, read back and collected by operations that the browser     *)
(* runs in the order they were asked for.  A message is its id, its role   *)
(* and whether it carries an image; the image has the id of its message.   *)
(* Wording, titles, models and the request body are left out.              *)
(***************************************************************************)
EXTENDS Naturals, FiniteSets, Sequences, Collections

CONSTANTS
    MaxMessages,   \* bound on the messages ever created
    MaxChats,      \* bound on the conversations of a workspace
    KeptChats,     \* MAX_CONVERSATIONS / 4: what a trimmed write keeps
    KeptMessages,  \* MAX_PERSISTED_MESSAGES / 4
    MaxOps         \* bound on the operations waiting for IndexedDB

VARIABLES
    open,      \* a page is mounted
    chats,     \* workspace.conversations: a sequence of message sequences
    active,    \* position of workspace.activeId in it
    turn,      \* the turn being streamed
    timer,     \* persistTimer is set
    held,      \* ids whose bytes the page has in memory
    failed,    \* persistenceFailed
    disk,      \* the conversations of the workspace in localStorage
    db,        \* ids of the payloads in IndexedDB
    ops,       \* operations asked of IndexedDB and not done yet
    created    \* number of ids handed out by createMessageId()

vars ==
    <<open, chats, active, turn, timer, held, failed, disk, db, ops, created>>

NoTurn == [chat |-> 0, index |-> 0, id |-> 0, output |-> FALSE]
Streaming == turn # NoTurn
Message(n, role, image) == [id |-> n, role |-> role, image |-> image]

AllOf(cs) == UNION {ToSet(cs[i]) : i \in DOMAIN cs}

\* Faulty: the attachments sent, without the images an answer brought.
ReferencedUploads(cs) ==
    {m.id : m \in {x \in AllOf(cs) : x.image /\ x.role = "user"}}

\* referencedPayloadIds()
Referenced(cs) == {m.id : m \in {x \in AllOf(cs) : x.image}}

Put(n) == [kind |-> "put", ids |-> {n}]
Collect(cs) == [kind |-> "collect", ids |-> Referenced(cs)]
Hydrate(cs) == [kind |-> "read", ids |-> Referenced(cs)]

Init ==
    /\ open = FALSE
    /\ chats = << <<>> >>
    /\ active = 1
    /\ turn = NoTurn
    /\ timer = FALSE
    /\ held = {}
    /\ failed = FALSE
    /\ disk = << <<>> >>
    /\ db = {}
    /\ ops = <<>>
    /\ created = 0

-----------------------------------------------------------------------------
(* trimForStorage(): the most recent conversations, the end of each.  Which *)
(* ones are recent is left open.                                           *)
LastOf(s, n) == SubSeq(s, IF Len(s) > n THEN Len(s) - n + 1 ELSE 1, Len(s))

Trimmed(cs) ==
    LET n == IF Len(cs) < KeptChats THEN Len(cs) ELSE KeptChats
    IN  {[i \in 1..n |-> LastOf(cs[pick[i]], KeptMessages)] :
            pick \in {p \in [1..n -> DOMAIN cs] :
                        \A i, j \in 1..n : i # j => p[i] # p[j]}}

(* persist(): nothing once a write has failed for good.                    *)
Persist(cs) ==
    IF failed
      THEN UNCHANGED <<disk, failed>>
      ELSE \/ disk' = cs /\ UNCHANGED failed
           \/ disk' \in Trimmed(cs) /\ UNCHANGED failed
           \/ failed' = TRUE /\ UNCHANGED disk

Ask(more) ==
    /\ Len(ops) + Len(more) <= MaxOps
    /\ ops' = ops \o more

-----------------------------------------------------------------------------
(* onMount: the stored workspace, its placeholders, the timer of the       *)
(* settings effect.  Without placeholders the hydration ends at once.      *)
Mount ==
    /\ ~open
    /\ open' = TRUE
    /\ chats' = disk
    /\ active' \in DOMAIN disk
    /\ timer' = TRUE
    /\ held' = {}
    /\ failed' = FALSE
    /\ ops' = IF Referenced(disk) = {} THEN <<Collect(disk)>>
                                        ELSE <<Hydrate(disk)>>
    /\ UNCHANGED <<turn, disk, db, created>>

(* The tab is closed or reloaded: what was asked and not done is gone.     *)
Leave ==
    /\ open
    /\ open' = FALSE
    /\ turn' = NoTurn
    /\ timer' = FALSE
    /\ held' = {}
    /\ ops' = <<>>
    /\ chats' = << <<>> >>
    /\ active' = 1
    /\ UNCHANGED <<failed, disk, db, created>>

(* The browser runs the oldest operation; each of them may fail.  The page *)
(* collects when the placeholders of a mount have been read back, with     *)
(* what it references by then.                                             *)
OpDone ==
    LET op == Head(ops) IN
    /\ ops # <<>>
    /\ \/ op.kind = "put" /\ db' = db \union op.ids
       \/ op.kind = "collect" /\ db' = db \intersect op.ids
       \/ UNCHANGED db
    /\ ops' = IF op.kind = "read" THEN Append(Tail(ops), Collect(chats))
                                  ELSE Tail(ops)
    /\ \/ op.kind = "read" /\ held' = held \union (db \intersect op.ids)
       \/ UNCHANGED held
    /\ UNCHANGED <<open, chats, active, turn, timer, failed, disk, created>>

SelectModel ==
    /\ open
    /\ timer' = TRUE
    /\ UNCHANGED <<held, open, chats, active, turn, failed, disk, db, ops,
                   created>>

PersistTimer ==
    /\ timer
    /\ timer' = FALSE
    /\ Persist(chats)
    /\ UNCHANGED <<held, open, chats, active, turn, db, ops, created>>

(* closeSettings() writes the workspace likewise, editMessage() between     *)
(* turns.                                                                  *)
RenameConversation ==
    /\ open
    /\ Persist(chats)
    /\ UNCHANGED <<held, open, chats, active, turn, timer, db, ops, created>>

-----------------------------------------------------------------------------
(* runTurn() on the active conversation cut to `transcript`.               *)
RunTurn(transcript, n) ==
    /\ chats' = [chats EXCEPT ![active] =
                    Append(transcript, Message(n, "assistant", FALSE))]
    /\ turn' = [chat |-> active, index |-> Len(transcript) + 1, id |-> n,
                output |-> FALSE]
    /\ created' = n

(* send(): the attachment's bytes are put at once, the workspace is not    *)
(* written before the turn ends.                                           *)
Send ==
    /\ open /\ ~Streaming
    /\ created + 2 <= MaxMessages
    /\ \E image \in BOOLEAN :
         /\ RunTurn(Append(chats[active],
                           Message(created + 1, "user", image)),
                    created + 2)
         /\ Ask(IF image THEN <<Put(created + 1)>> ELSE <<>>)
         /\ held' = IF image THEN held \union {created + 1} ELSE held
    /\ UNCHANGED <<open, active, timer, failed, disk, db>>

(* onContentDelta and onImages write to messages[index].                   *)
Output ==
    /\ Streaming
    /\ \E image \in BOOLEAN :
         /\ chats' = [chats EXCEPT ![turn.chat][turn.index].image =
                        @ \/ image]
         /\ held' = IF image THEN held \union {turn.id} ELSE held
    /\ turn' = [turn EXCEPT !.output = TRUE]
    /\ UNCHANGED <<open, active, timer, failed, disk, db, ops, created>>

(* The turn ends with output, whole or partial: its images are put and the *)
(* workspace is written.                                                   *)
TurnEnds ==
    /\ Streaming
    /\ turn' = NoTurn
    /\ LET m == chats[turn.chat][turn.index]
       IN  Ask(IF m.image THEN <<Put(m.id)>> ELSE <<>>)
    /\ Persist(chats)
    /\ UNCHANGED <<held, open, chats, active, timer, db, created>>

(* It fails or is stopped before any output: the message is taken out      *)
(* again, so persistPayloads(messages[index]) throws on what is no longer  *)
(* there and the workspace is not written.                                 *)
TurnVanishes ==
    /\ Streaming
    /\ ~turn.output
    /\ chats' = [chats EXCEPT ![turn.chat] = SubSeq(@, 1, turn.index - 1)]
    /\ turn' = NoTurn
    /\ UNCHANGED <<held, open, active, timer, failed, disk, db, ops, created>>

-----------------------------------------------------------------------------
SelectConversation ==
    /\ open /\ ~Streaming
    /\ active' \in (DOMAIN chats) \ {active}
    /\ Persist(chats)
    /\ UNCHANGED <<held, open, chats, turn, timer, db, ops, created>>

NewConversation ==
    /\ open /\ ~Streaming
    /\ Len(chats) < MaxChats
    /\ chats' = Append(chats, <<>>)
    /\ active' = Len(chats')
    /\ Persist(chats')
    /\ UNCHANGED <<held, open, turn, timer, db, ops, created>>

(* The workspace always holds a conversation; the next active one is the   *)
(* most recent, which is left open.                                        *)
DeleteConversation ==
    /\ open /\ ~Streaming
    /\ \E i \in DOMAIN chats :
         /\ chats' = IF Len(chats) = 1 THEN << <<>> >> ELSE RemoveAt(chats, i)
         /\ \/ i = active /\ active' \in DOMAIN chats'
            \/ i < active /\ active' = active - 1
            \/ i > active /\ UNCHANGED active
    /\ Persist(chats')
    /\ Ask(<<Collect(chats')>>)
    /\ UNCHANGED <<held, open, turn, timer, db, created>>

(* Faulty: a message can be deleted while an answer is being streamed.     *)
DeleteMessageAnytime ==
    /\ open
    /\ \E i \in DOMAIN chats[active] :
         chats' = [chats EXCEPT ![active] = RemoveAt(@, i)]
    /\ Persist(chats')
    /\ Ask(<<Collect(chats')>>)
    /\ UNCHANGED <<held, open, active, turn, timer, db, created>>

DeleteMessage ==
    /\ open /\ ~Streaming
    /\ \E i \in DOMAIN chats[active] :
         chats' = [chats EXCEPT ![active] = RemoveAt(@, i)]
    /\ Persist(chats')
    /\ Ask(<<Collect(chats')>>)
    /\ UNCHANGED <<held, open, active, turn, timer, db, created>>

(* resend(): everything after the question is dropped, the rest is written *)
(* and its payloads are collected before the new answer is asked for.  It  *)
(* is refused while the bytes of an image to be sent again are missing.    *)
Resend ==
    /\ open /\ ~Streaming
    /\ created < MaxMessages
    /\ \E i \in DOMAIN chats[active] :
         LET kept == SubSeq(chats[active], 1, i)
             cut == [chats EXCEPT ![active] = kept]
         IN  /\ chats[active][i].role = "user"
             /\ \A m \in ToSet(kept) :
                   m.role = "user" /\ m.image => m.id \in held
             /\ Persist(cut)
             /\ Ask(<<Collect(cut)>>)
             /\ RunTurn(kept, created + 1)
    /\ UNCHANGED <<held, open, active, timer, db>>

Next ==
    \/ Mount \/ Leave \/ OpDone
    \/ SelectModel \/ PersistTimer \/ RenameConversation
    \/ Send \/ Output \/ TurnEnds \/ TurnVanishes
    \/ SelectConversation \/ NewConversation
    \/ DeleteConversation \/ DeleteMessage \/ Resend

Spec == Init /\ [][Next]_vars

-----------------------------------------------------------------------------
Messages == [id : 1..MaxMessages, role : {"user", "assistant"}, image : BOOLEAN]

(* Types of the variables, checked structurally.                           *)
TypeOK ==
    /\ open \in BOOLEAN /\ timer \in BOOLEAN /\ failed \in BOOLEAN
    /\ \A ws \in {chats, disk} :
         /\ Len(ws) \in 1..MaxChats
         /\ \A i \in DOMAIN ws : ToSet(ws[i]) \subseteq Messages
    /\ active \in DOMAIN chats
    /\ db \subseteq 1..MaxMessages /\ held \subseteq 1..MaxMessages
    /\ created \in 0..MaxMessages

(* While an answer is streamed, the position the turn remembers is that of *)
(* its own message, the last one of its conversation ("Holding the index   *)
(* is safe only because ...", PlaygroundPage.svelte:258).                  *)
IndexSafe ==
    Streaming =>
        /\ turn.chat \in DOMAIN chats
        /\ turn.index = Len(chats[turn.chat])
        /\ chats[turn.chat][turn.index].id = turn.id

(* Collecting never drops a payload that a message on the page still       *)
(* shows, nor, as long as the workspace can be written, one that the       *)
(* stored workspace points at: a reload finds it.                          *)
CollectStep ==
    \A n \in db \ db' :
        /\ ~\E m \in AllOf(chats) : m.id = n /\ m.image
        /\ (\E m \in AllOf(disk) : m.id = n /\ m.image) => failed
ImagesKept == [][CollectStep]_vars
=============================================================================
