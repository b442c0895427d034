--------------------------- MODULE RequestFormats ---------------------------
(***************************************************************************)
(* A conversation on its way to an upstream.  A client talks to            *)
(* /v1/chat/completions in OpenAI messages, which the adapters turn into   *)
(* the upstream's own, or to /v1/messages in Anthropic messages, which     *)
(* anthropicToOpenAIMessages() turns into OpenAI ones first.  What must    *)
(* survive is which result answers which tool call.  The client adds one   *)
(* turn at a time; the answers come back through the same adapters.        *)
(***************************************************************************)
EXTENDS Integers, Sequences, Functions, Collections

CONSTANTS
    MaxTurns,  \* bound: turns of the conversation
    MaxCalls   \* bound: tool calls of one turn

VARIABLES
    chat,      \* the conversation in OpenAI messages
    messages,  \* the same in Anthropic messages
    calls      \* tool calls made so far; their ids are 1..calls

vars == <<chat, messages, calls>>

Init == chat = <<>> /\ messages = <<>> /\ calls = 0

\* Messages are records of a role and parts: text, thinking, a call or its result.
Part(t, n) == [type |-> t, id |-> n]
\* A text is known by the number of an answer's pieces it joins.
Text == Part("text", 1)
Msg(role, parts) == [role |-> role, parts |-> parts]
Ids(from, to) == [i \in 1..(to - from + 1) |-> from + i - 1]
Parts(t, ids) == [i \in DOMAIN ids |-> Part(t, ids[i])]

(***************************************************************************)
(* Whole answers.                                                          *)
(***************************************************************************)
\* What an upstream answers with: thinking, text before its calls and after them.
Answers(ids) ==
    LET perhaps(part) == {<<>>, <<part>>} IN
    {think \o before \o Parts("call", ids) \o after :
        think \in perhaps(Part("thinking", 0)), before \in perhaps(Text), after \in perhaps(Text)}

OfTypesIn(parts, types) == Among(parts, [type : types, id : Nat])
OfTypeIn(parts, t) == OfTypesIn(parts, {t})

\* A message of the OpenAI API: its texts are joined, its calls stand beside them.
Message(parts, calling) ==
    [thinks |-> OfTypeIn(parts, "thinking") # <<>>,
     pieces |-> Len(OfTypeIn(parts, "text")),
     calls |-> calling]

\* parseResponseData() of the three adapters; Gemini's calls have no ids, and are numbered.
AnthropicAnswer(parts) == Message(parts, OfTypeIn(parts, "call"))
ResponsesAnswer(items) == Message(items, OfTypeIn(items, "call"))
GeminiAnswer(parts) ==
    Message(parts, [i \in DOMAIN OfTypeIn(parts, "call") |-> Part("call", i)])
Parsed(answer) == {AnthropicAnswer(answer), ResponsesAnswer(answer), GeminiAnswer(answer)}

\* openAIResponseToAnthropic(): the blocks of a whole answer, which the client puts
\* into its history: thinking before text before calls, and an empty text block for
\* an answer without any.
AnswerBlocks(message) ==
    LET blocks == (IF message.thinks THEN <<Part("thinking", 0)>> ELSE <<>>)
                    \o (IF message.pieces > 0 THEN <<Part("text", message.pieces)>> ELSE <<>>)
                    \o message.calls
    IN  IF blocks = <<>> THEN <<Part("text", 0)>> ELSE blocks

\* An OpenAI message carries text and calls, a result is a message of its own.
UserTurn ==
    /\ Len(messages) < MaxTurns
    /\ \E role \in {"user", "system"} : chat' = Append(chat, Msg(role, <<Text>>))
    /\ messages' = Append(messages, Msg("user", <<Text>>))
    /\ UNCHANGED calls

\* The assistant thinks, speaks and calls n tools; the client answers all of them,
\* in an order of its own, and may add text to that turn.
AssistantTurn(n) ==
    LET ids == Ids(calls + 1, calls + n)
    IN  /\ Len(messages) + 1 < MaxTurns
        /\ \E given \in Answers(ids) : \E message \in Parsed(given), more, back \in BOOLEAN :
              LET answer == AnswerBlocks(message)
                  made == [i \in DOMAIN message.calls |-> message.calls[i].id]
                  order == IF back THEN Reverse(made) ELSE made
                  extra == IF more \/ n = 0 THEN <<Text>> ELSE <<>>
              IN  /\ messages' = messages \o <<Msg("assistant", answer),
                                                Msg("user", Parts("result", order) \o extra)>>
                  /\ chat' = chat \o
                         <<Msg("assistant", OfTypesIn(answer, {"text", "call"}))>>
                         \o [i \in DOMAIN order |-> Msg("tool", <<Part("result", order[i])>>)]
                         \o (IF extra = <<>> THEN <<>> ELSE <<Msg("user", extra)>>)
        /\ calls' = calls + n

Next == UserTurn \/ \E n \in 0..MaxCalls : AssistantTurn(n)
Spec == Init /\ [][Next]_vars

(***************************************************************************)
(* The conversions.                                                        *)
(***************************************************************************)
OfType(m, types) == OfTypesIn(m.parts, types)
Has(m, t) == \E i \in DOMAIN m.parts : m.parts[i].type = t

\* anthropicToOpenAIMessages(), one turn: thinking is dropped, calls stay on the
\* message, results become messages behind it; a turn of results alone has no
\* message of its own.
FromAnthropicTurn(m) ==
    LET own == OfType(m, {"text", "call"})
    IN  (IF own # <<>> \/ ~Has(m, "result") THEN <<Msg(m.role, own)>> ELSE <<>>)
          \o [i \in DOMAIN OfType(m, {"result"}) |-> Msg("tool", <<OfType(m, {"result"})[i]>>)]

FromAnthropic(ms) == Joined([i \in DOMAIN ms |-> FromAnthropicTurn(ms[i])])

\* Seeded fault: each result is a user message of its own.
AddToAnthropicApart(out, m) ==
    CASE m.role = "system" -> out
      [] m.role = "tool" -> Append(out, Msg("user", m.parts))
      [] OTHER -> Append(out, m)

\* buildAnthropicBody(): system messages are hoisted, consecutive results share
\* one user message.
AddToAnthropic(out, m) ==
    CASE m.role = "system" -> out
      [] m.role = "tool" ->
            IF out # <<>> /\ Last(out).role = "user" /\ Has(Last(out), "result")
            THEN Append(Front(out), Msg("user", Last(out).parts \o m.parts))
            ELSE Append(out, Msg("user", m.parts))
      [] OTHER -> Append(out, m)

ToAnthropic(ms) ==
    LET upTo[i \in 0..Len(ms)] == IF i = 0 THEN <<>> ELSE AddToAnthropic(upTo[i - 1], ms[i])
    IN  upTo[Len(ms)]

\* convertMessages() of the Responses adapter: a flat list of items.
ToResponses(ms) ==
    LET Items(m) == IF m.role = "system" THEN <<>>
                    ELSE [i \in DOMAIN m.parts |-> m.parts[i]]
    IN  Joined([i \in DOMAIN ms |-> Items(ms[i])])

\* buildGeminiBody(): the content of messages and of results becomes parts; calls are
\* left behind, and with them a message that has nothing else.
AddToGemini(out, m) ==
    LET parts == OfType(m, {"text", "result"})
    IN  IF m.role = "system" \/ parts = <<>> THEN out ELSE Append(out, Msg(m.role, parts))

ToGemini(ms) ==
    LET upTo[i \in 0..Len(ms)] == IF i = 0 THEN <<>> ELSE AddToGemini(upTo[i - 1], ms[i])
    IN  upTo[Len(ms)]

TypeOK ==
    /\ calls \in 0..(MaxTurns * MaxCalls)
    /\ \A i \in DOMAIN chat : chat[i].role \in {"system", "user", "assistant", "tool"}
    /\ \A i \in DOMAIN messages : messages[i].role \in {"user", "assistant"}

\* Anthropic's rule for its conversations: the calls of a message are answered,
\* all of them and nothing else, by the message behind it.
Answered(ms) ==
    \A i \in DOMAIN ms :
        /\ Has(ms[i], "call") => i < Len(ms) /\ ToSet(OfType(ms[i + 1], {"result"}))
               = {Part("result", p.id) : p \in ToSet(OfType(ms[i], {"call"}))}
        /\ Has(ms[i], "result") => i > 1 /\ Has(ms[i - 1], "call")

\* All parts of the given types, in order.
Flat(ms, types) == Joined([i \in DOMAIN ms |-> OfType(ms[i], types)])

\* In the upstream's conversation every result answers the call it answered in
\* the client's: none is lost, doubled or moved before its call, parallel results
\* stay together, and no text of a user is lost.
ToolTurnsKept ==
    /\ Answered(ToAnthropic(chat))
    /\ OfTypesIn(ToResponses(chat), {"call", "result"}) = Flat(chat, {"call", "result"})
    /\ Flat(FromAnthropic(messages), {"call", "result"}) = Flat(messages, {"call", "result"})
    /\ Len(Flat(FromAnthropic(messages), {"text"})) = Len(Flat(messages, {"text"}))
    /\ Flat(ToAnthropic(FromAnthropic(messages)), {"call", "result"}) = Flat(messages, {"call", "result"})

\* Without their calls, messages and results reach Gemini in the order they have.
GeminiTextKept ==
    Flat(ToGemini(chat), {"text", "result"})
      = Flat(Among(chat, {m \in ToSet(chat) : m.role # "system"}), {"text", "result"})

\* A whole answer reaches a client of either API with its calls, in their order, all of its
\* text, and its thinking.
AnswersArrive ==
    \A n \in 0..MaxCalls : \A answer \in Answers(Ids(1, n)) : \A message \in Parsed(answer) :
        LET blocks == AnswerBlocks(message)
            In(t) == OfTypeIn(blocks, t)
        IN  /\ In("call") = OfTypeIn(answer, "call")
            /\ Len(In("thinking")) = Len(OfTypeIn(answer, "thinking"))
            /\ SumFunction([i \in DOMAIN In("text") |-> In("text")[i].id])
                 = Len(OfTypeIn(answer, "text"))

\* Two things do not hold of Gemini: its requests lose the calls, and two of its answers
\* number theirs alike.
GeminiCallsKept == Flat(ToGemini(chat), {"call"}) = Flat(chat, {"call"})
CallsNamedApart ==
    LET ids == Flat(messages, {"call"}) IN \A i, j \in DOMAIN ids : ids[i] = ids[j] => i = j
=============================================================================
