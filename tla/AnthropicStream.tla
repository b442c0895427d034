--------------------------- MODULE AnthropicStream ---------------------------
(***************************************************************************)
(* streamOpenAIToAnthropic() of routes/messages.ts: the chunks of an       *)
(* OpenAI-style stream become the events of an Anthropic message, whose    *)
(* content is a sequence of blocks.  One action per stream event; what the *)
(* adapter parses from a chunk is an input.                                *)
(***************************************************************************)
EXTENDS Integers, Sequences, Collections

CONSTANTS
    NULL,       \* no tool index on a fragment, no block open
    ToolKeys,   \* the indices upstreams number their tool calls with
    MaxChunks   \* bound: chunks of the stream

VARIABLES
    m,          \* the consumer's local state
    out,        \* the events written
    fragments,  \* history: the tool fragments received before the terminal events
    chunks,     \* chunks received, for the bound
    settled     \* open, ended or failed

vars == <<m, out, fragments, chunks, settled>>

\* tools: toolFragments in the order of toolOrder.
Initially == [started |-> FALSE, terminated |-> FALSE, next |-> 0,
              thinking |-> NULL, text |-> NULL, tools |-> <<>>, last |-> NULL]

Init == m = Initially /\ out = <<>> /\ fragments = <<>> /\ chunks = 0 /\ settled = "open"

\* A consumer at work: its local state and what it has written so far.
At(s, o) == [s |-> s, o |-> o]
Kinds == {"thinking", "text", "tool"}
Event(e, t, i, f) == [event |-> e, type |-> t, index |-> i, fragment |-> f]

MessageStart(c) ==
    IF c.s.started THEN c
    ELSE At([c.s EXCEPT !.started = TRUE], Append(c.o, Event("message_start", NULL, NULL, NULL)))

CloseBlock(c, kind) ==
    IF c.s[kind] = NULL THEN c
    ELSE At([c.s EXCEPT ![kind] = NULL], Append(c.o, Event("close", kind, c.s[kind], NULL)))

OpenBlock(c, kind) ==
    IF c.s[kind] # NULL THEN c
    ELSE At([c.s EXCEPT ![kind] = c.s.next, !.next = @ + 1],
            Append(c.o, Event("open", kind, c.s.next, NULL)))

CloseBlocks(c) == CloseBlock(CloseBlock(c, "thinking"), "text")

Delta(c, kind) == At(c.s, Append(c.o, Event("delta", kind, c.s[kind], NULL)))

\* Seeded fault: reasoning after text opens a block beside it.
ReasonAlways(c) == Delta(OpenBlock(c, "thinking"), "thinking")

\* Reasoning that comes after a later block has begun is dropped.
Reason(c) ==
    IF c.s.text # NULL \/ c.s.tools # <<>> THEN c
    ELSE Delta(OpenBlock(c, "thinking"), "thinking")

Say(c) == Delta(OpenBlock(CloseBlock(c, "thinking"), "text"), "text")

\* The tool a fragment belongs to: its own index, else the last one seen, else 0.
ToolOf(s, f) == IF f.index # NULL THEN f.index ELSE IF s.last # NULL THEN s.last ELSE 0

\* Seeded fault: a fragment that carries the tool's id only sets the id.
ReceiveIdOrArguments(c, f) ==
    LET k == ToolOf(c.s, f)
        known == {i \in DOMAIN c.s.tools : c.s.tools[i].key = k}
        blank == [key |-> k, id |-> FALSE, args |-> <<>>]
        Add(t) == IF f.id THEN [t EXCEPT !.id = TRUE] ELSE [t EXCEPT !.args = Append(@, f.arg)]
        tools == IF known = {} THEN Append(c.s.tools, Add(blank))
                 ELSE [i \in DOMAIN c.s.tools |->
                          IF i \in known THEN Add(c.s.tools[i]) ELSE c.s.tools[i]]
    IN  At([CloseBlocks(c).s EXCEPT !.tools = tools, !.last = k], CloseBlocks(c).o)

\* Tool calls close what is open and are buffered: id and arguments can come on
\* one chunk or on several, those of several tools mixed.
Receive(c, f) ==
    LET k == ToolOf(c.s, f)
        known == {i \in DOMAIN c.s.tools : c.s.tools[i].key = k}
        blank == [key |-> k, id |-> FALSE, args |-> <<>>]
        Add(t) == [t EXCEPT !.id = @ \/ f.id, !.args = Append(@, f.arg)]
        tools == IF known = {} THEN Append(c.s.tools, Add(blank))
                 ELSE [i \in DOMAIN c.s.tools |->
                          IF i \in known THEN Add(c.s.tools[i]) ELSE c.s.tools[i]]
    IN  At([CloseBlocks(c).s EXCEPT !.tools = tools, !.last = k], CloseBlocks(c).o)

\* flushToolBlocks(): a block per tool that has an id.
ToolBlock(t, i) ==
    <<Event("open", "tool", i, NULL)>>
      \o [a \in DOMAIN t.args |-> Event("delta", "tool", i, t.args[a])]
      \o <<Event("close", "tool", i, NULL)>>

FlushTools(c) ==
    LET named == Among(c.s.tools, [key : ToolKeys \cup {0}, id : {TRUE}, args : Seq(Nat)])
        written == [n \in DOMAIN named |-> ToolBlock(named[n], c.s.next + n - 1)]
    IN  At([c.s EXCEPT !.tools = <<>>, !.last = NULL, !.next = @ + Len(named)],
           c.o \o Joined(written))

\* Seeded fault: only the tools are flushed before the terminal events.
TerminateOpen(c) ==
    IF c.s.terminated THEN c
    ELSE LET f == FlushTools(c)
         IN  At([f.s EXCEPT !.terminated = TRUE],
                f.o \o <<Event("message_delta", NULL, NULL, NULL),
                         Event("message_stop", NULL, NULL, NULL)>>)

Terminate(c) ==
    IF c.s.terminated THEN c
    ELSE LET f == FlushTools(CloseBlocks(c))
         IN  At([f.s EXCEPT !.terminated = TRUE],
                f.o \o <<Event("message_delta", NULL, NULL, NULL),
                         Event("message_stop", NULL, NULL, NULL)>>)

\* What an adapter makes of a chunk: reasoning, text, at most one tool fragment
\* (its argument text stands for the chunk it came on), and a finish reason.
Parsed == [reasoning : BOOLEAN, content : BOOLEAN, finish : BOOLEAN,
           tool : {<<>>} \cup {<<[index |-> k, id |-> b, arg |-> chunks + 1]>> :
                               k \in ToolKeys \cup {NULL}, b \in BOOLEAN}]

\* The parts of one chunk, in the order the consumer takes them.
Consume(p) ==
    LET c1 == MessageStart(At(m, out))
        c2 == IF p.reasoning THEN Reason(c1) ELSE c1
        c3 == IF p.content THEN Say(c2) ELSE c2
        c4 == IF p.tool # <<>> THEN Receive(c3, p.tool[1]) ELSE c3
    IN  IF p.finish THEN Terminate(c4) ELSE c4

Chunk ==
    /\ settled = "open" /\ chunks < MaxChunks
    /\ \E p \in Parsed :
          /\ m' = Consume(p).s /\ out' = Consume(p).o
          /\ fragments' = IF p.tool = <<>> \/ m.terminated THEN fragments
                          ELSE Append(fragments, [key |-> ToolOf(m, p.tool[1]),
                                                  id |-> p.tool[1].id, arg |-> p.tool[1].arg])
    /\ chunks' = chunks + 1
    /\ UNCHANGED settled

\* [DONE]
Done ==
    /\ settled = "open"
    /\ m' = Terminate(At(m, out)).s /\ out' = Terminate(At(m, out)).o
    /\ UNCHANGED <<fragments, chunks, settled>>

\* The stream ends, or fails in one of its ways: an error, a limit, a close.
Settle ==
    /\ settled = "open"
    /\ settled' \in {"ended", "failed"}
    /\ UNCHANGED <<m, out, fragments, chunks>>

Next == Chunk \/ Done \/ Settle

Spec == Init /\ [][Next]_vars

(***************************************************************************)
(* Properties.                                                             *)
(***************************************************************************)
TypeOK ==
    /\ m.next \in Nat /\ m.thinking \in 0..m.next \cup {NULL} /\ m.text \in 0..m.next \cup {NULL}
    /\ \A i \in DOMAIN m.tools : m.tools[i].key \in ToolKeys \cup {0}
    /\ chunks \in 0..MaxChunks
    /\ settled \in {"open", "ended", "failed"}

Is(i, e) == out[i].event = e
OpenAt(i, j) == Is(j, "open") /\ j < i /\ \A k \in j..(i - 1) : Is(k, "close") => out[k].index # out[j].index

\* "Anthropic content blocks cannot overlap": blocks are numbered from 0 in the
\* order they open, one opens only when none is open, a delta or a close is of
\* the one open block and of its type, and at message_stop none is open.
BlocksNest ==
    \A i \in DOMAIN out :
        LET open == {j \in DOMAIN out : OpenAt(i, j)}
        IN  CASE Is(i, "open") -> /\ open = {}
                                  /\ \A j \in 1..(i - 1) : Is(j, "open") => out[j].index < out[i].index
              [] out[i].event \in {"delta", "close"} ->
                    \E j \in open : open = {j} /\ out[j].index = out[i].index /\ out[j].type = out[i].type
              [] OTHER -> open = {}

\* What the client gets to call: every tool whose id was received, with all its
\* argument fragments in the order they came, however they were mixed with those
\* of other tools, with text and with reasoning; and no tool without an id.
ArgsSent(i) ==
    LET deltas == Among(out, [event : {"delta"}, type : Kinds, index : {i}, fragment : Nat \cup {NULL}])
    IN  [d \in DOMAIN deltas |-> deltas[d].fragment]
ArgsGiven(k) ==
    LET mine == Among(fragments, [key : {k}, id : BOOLEAN, arg : Nat])
    IN  [d \in DOMAIN mine |-> mine[d].arg]
Identified == {k \in {fragments[i].key : i \in DOMAIN fragments} :
                  \E i \in DOMAIN fragments : fragments[i].key = k /\ fragments[i].id}
ToolsWhole ==
    m.terminated =>
        LET sent == {out[i].index : i \in {j \in DOMAIN out : Is(j, "open") /\ out[j].type = "tool"}}
        IN  /\ {ArgsSent(i) : i \in sent} = {ArgsGiven(k) : k \in Identified}
            /\ \A i, j \in sent : i # j => ArgsSent(i) # ArgsSent(j)

\* routes/messages.ts:1312: "Emit the terminal message_delta + message_stop exactly
\* once."  A stream that ended is a whole message or nothing: it begins with message_start,
\* and its one message_stop is the last event.
WholeMessage ==
    settled = "ended" /\ out # <<>> =>
        /\ Is(1, "message_start")
        /\ \A i \in DOMAIN out : Is(i, "message_stop") <=> i = Len(out)
=============================================================================
