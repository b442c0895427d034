--------------------------- MODULE StreamAdapters ---------------------------
(***************************************************************************)
(* parseStreamChunk() and buildStreamChunk() of the adapters in            *)
(* utils/adapters: the events of an upstream's own stream become OpenAI    *)
(* chunks, whose tool calls are told apart by an index.  The callers parse *)
(* a chunk and build one from it, with the same per-request context.       *)
(***************************************************************************)
EXTENDS Integers, Sequences, FiniteSets

CONSTANT MaxBlocks  \* bound: content blocks, output items or function calls of a stream

VARIABLES
    format,    \* the endpoint's apiFormat
    blocks,    \* history: the kinds of the blocks the upstream has begun
    toolIndex, \* toolIndexMap: the blocks given an index, index n - 1 at n
    sent,      \* the tool fragments sent: the index, and (history) the block
    told,      \* state.finishSent of the Anthropic adapter
    finishes,  \* finish reasons sent
    over,      \* the upstream has sent its last event
    thrown     \* which was a failure

vars == <<format, blocks, toolIndex, sent, told, finishes, over, thrown>>

\* openai-codex is openai-responses on the way back; openai passes through.
Formats == {"anthropic", "openai-responses", "gemini"}

Init ==
    /\ format \in Formats
    /\ blocks = <<>> /\ toolIndex = <<>> /\ sent = <<>>
    /\ told = FALSE /\ finishes = <<>> /\ over = FALSE /\ thrown = FALSE

\* toolCallIndex(), and the map of content_block_start: idempotent.
Known(map, b) == \E n \in DOMAIN map : map[n] = b
\* Seeded fault: the index is counted up on every call.
IndexedAnew(map, b) == Append(map, b)

Indexed(map, b) == IF Known(map, b) THEN map ELSE Append(map, b)
IndexOf(map, b) == (CHOOSE n \in DOMAIN map : map[n] = b) - 1

\* Parsed, then parsed again to be built.
ParsedTwice(b) == Indexed(Indexed(toolIndex, b), b)
Fragment(b, i) == [block |-> b, index |-> i]

\* content_block_start or response.output_item.added.
BlockStarts(kind) ==
    /\ format # "gemini" /\ ~over /\ Len(blocks) < MaxBlocks
    /\ blocks' = Append(blocks, kind)
    /\ IF kind # "tool" THEN UNCHANGED <<toolIndex, sent>>
       ELSE LET b == Len(blocks) + 1
            IN  /\ toolIndex' = ParsedTwice(b)
                /\ sent' = Append(sent, Fragment(b, IndexOf(ParsedTwice(b), b)))
    /\ UNCHANGED <<format, told, finishes, over, thrown>>

\* Argument text: of the last block of an Anthropic stream, of any call under way
\* of a Responses one.
Arguments(b) ==
    /\ format # "gemini" /\ ~over /\ Len(sent) < 2 * MaxBlocks
    /\ blocks[b] = "tool"
    /\ format = "anthropic" => b = Len(blocks)
    /\ toolIndex' = ParsedTwice(b)
    /\ sent' = Append(sent, Fragment(b, IndexOf(ParsedTwice(b), b)))
    /\ UNCHANGED <<format, blocks, told, finishes, over, thrown>>

\* A Gemini chunk holds whole function calls; their index counts within the chunk.
GeminiCalls(n) ==
    /\ format = "gemini" /\ ~over /\ Len(blocks) + n <= MaxBlocks
    /\ blocks' = blocks \o [i \in 1..n |-> "tool"]
    /\ sent' = sent \o [i \in 1..n |-> Fragment(Len(blocks) + i, i - 1)]
    /\ UNCHANGED <<format, toolIndex, told, finishes, over, thrown>>

\* message_delta with a stop reason, then message_stop, which speaks only if the
\* former was not heard.
MessageDelta ==
    /\ format = "anthropic" /\ ~over /\ ~told
    /\ told' = TRUE
    /\ finishes' = Append(finishes, IF \E b \in DOMAIN blocks : blocks[b] = "tool"
                                    THEN "tool_calls" ELSE "stop")
    /\ UNCHANGED <<format, blocks, toolIndex, sent, over, thrown>>

MessageStop ==
    /\ format = "anthropic" /\ ~over
    /\ finishes' = IF told THEN finishes ELSE Append(finishes, "stop")
    /\ over' = TRUE
    /\ UNCHANGED <<format, blocks, toolIndex, sent, told, thrown>>

\* response.completed or response.incomplete: the last event, with the reason.
Completed ==
    /\ format = "openai-responses" /\ ~over
    /\ finishes' = Append(finishes, IF \E b \in DOMAIN blocks : blocks[b] = "tool"
                                    THEN "tool_calls" ELSE "stop")
    /\ over' = TRUE
    /\ UNCHANGED <<format, blocks, toolIndex, sent, told, thrown>>

\* response.failed: both parses throw, which ends the attempt.
Failed ==
    /\ format = "openai-responses" /\ ~over
    /\ thrown' = TRUE /\ over' = TRUE
    /\ UNCHANGED <<format, blocks, toolIndex, sent, told, finishes>>

\* A Gemini finishReason, which is STOP for calls too.
GeminiFinish ==
    /\ format = "gemini" /\ ~over
    /\ finishes' = Append(finishes, "stop")
    /\ over' = TRUE
    /\ UNCHANGED <<format, blocks, toolIndex, sent, told, thrown>>

Next ==
    \/ \E kind \in {"text", "tool"} : BlockStarts(kind)
    \/ \E b \in DOMAIN blocks : Arguments(b)
    \/ \E n \in 1..MaxBlocks : GeminiCalls(n)
    \/ MessageDelta \/ MessageStop \/ Completed \/ Failed \/ GeminiFinish

Spec == Init /\ [][Next]_vars

TypeOK ==
    /\ format \in Formats
    /\ blocks \in Seq({"text", "tool"})
    /\ \A n \in DOMAIN toolIndex : toolIndex[n] \in DOMAIN blocks
    /\ finishes \in Seq({"stop", "tool_calls"}) /\ told \in BOOLEAN /\ over \in BOOLEAN
    /\ thrown \in BOOLEAN

\* Two fragments carry the same index exactly when they belong to one call, and
\* the calls are numbered from 0 in the order they began, without the gaps that
\* text blocks leave in the upstream's own numbering.
Apart ==
    /\ \A i, j \in DOMAIN sent : sent[i].index = sent[j].index <=> sent[i].block = sent[j].block
    /\ \A i \in DOMAIN sent : \A n \in 0..(sent[i].index - 1) :
          \E j \in 1..(i - 1) : sent[j].index = n

\* ... and the client hears once why the answer ended, unless the stream failed, and then
\* not: the reason that says it is to call tools is not followed by one that says the
\* answer is complete.
CallsApart ==
    /\ format # "gemini" => Apart
    /\ Len(finishes) <= 1
    /\ over => (finishes = <<>> <=> thrown)

\* utils/adapters/anthropic.ts:356: "OpenAI clients expect tool call indices to be
\* sequential from 0."  The same of every format.
CallsApartEverywhere == Apart
=============================================================================
