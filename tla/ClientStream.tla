---------------------------- MODULE ClientStream ----------------------------
(***************************************************************************)
(* How the playground reads an answer (lib/playground/stream.ts,           *)
(* thinkTags.ts): the lines of an event stream, cut anywhere by the        *)
(* network, a whole completion, or an error.  Text is a sequence of        *)
(* pieces: x, and the two halves of <think> and of </think>, since a tag   *)
(* too can be cut between two tokens.                                      *)
(***************************************************************************)
EXTENDS Integers, Sequences, Collections

CONSTANTS
    MaxFrames,  \* bound: frames of an answer
    MaxLines    \* bound: whole lines of one read, besides the rest of one

VARIABLES
    mode,     \* what answers: a stream, a completion or an error
    sent,     \* history: the frames the network has delivered, the last one perhaps in part
    buffer,   \* the line that is not complete
    reader,   \* what streamChatCompletion() has read
    shown,    \* the content the handlers were given
    ended     \* how it returned

vars == <<mode, sent, buffer, reader, shown, ended>>

Open == <<"o", "k">>
Close == <<"c", "k">>
Text == <<"x">>
Texts == {Text, Open, Close, Text \o <<"o">>, <<"k">>, <<"c">>}
Token(text) == [kind |-> "token", text |-> text]
Frame(kind) == [kind |-> kind, text |-> <<>>]
Frames == {Token(t) : t \in Texts} \cup {Frame(k) : k \in {"thought", "image", "error", "done"}}

(***************************************************************************)
(* extractThinkTags()                                                      *)
(***************************************************************************)
At(text, i, tag) == i + 1 <= Len(text) /\ SubSeq(text, i, i + 1) = tag
First(places) == CHOOSE i \in places : \A j \in places : i <= j

Closes(text, i) == {j \in i + 2..Len(text) : At(text, j, Close)}
Opens(text, from) == {i \in from..Len(text) : At(text, i, Open)}

\* The blocks of the regular expression, from a place on: each begins at the first tag that
\* is closed, and ends at the first that closes it.
Content(text) ==
    LET from[i \in 1..Len(text) + 1] ==
            LET closed == {j \in Opens(text, i) : Closes(text, j) # {}}
                tail == Opens(text, i)
            IN  IF closed # {}
                THEN SubSeq(text, i, First(closed) - 1)
                     \o from[First(Closes(text, First(closed))) + 2]
                ELSE IF tail # {} THEN SubSeq(text, i, First(tail) - 1)
                ELSE SubSeq(text, i, Len(text))
    IN  from[1]

(***************************************************************************)
(* streamChatCompletion()                                                  *)
(***************************************************************************)
Nothing == [raw |-> <<>>, think |-> FALSE, images |-> 0,
            error |-> FALSE, done |-> FALSE]

Init ==
    /\ mode \in {"stream", "completion", "failure"}
    /\ sent = <<>> /\ buffer = <<>>
    /\ reader = Nothing /\ shown = <<>> /\ ended = "no"

\* An error does not end the reading; what comes after it is still read.
Read(r, frame) ==
    CASE frame.kind = "token" ->
            [r EXCEPT !.raw = @ \o frame.text,
                      !.think = @ \/ Opens(r.raw \o frame.text, 1) # {}]
      [] frame.kind = "thought" -> r
      [] frame.kind = "image" -> [r EXCEPT !.images = @ + 1]
      [] frame.kind = "error" -> [r EXCEPT !.error = TRUE]
      [] frame.kind = "done" -> [r EXCEPT !.done = TRUE]

\* Content is appended as it comes, until a tag shows up: from then on it is derived anew.
Handled(r, old, frame) ==
    IF frame.kind # "token" THEN old
    ELSE IF r.think THEN Content(r.raw)
    ELSE old \o frame.text

\* Lines after [DONE] are not read; what does not begin with data: is no frame.
Line(s, frame) ==
    IF s.reader.done \/ frame \notin Frames THEN s
    ELSE LET r == Read(s.reader, frame) IN [reader |-> r, shown |-> Handled(r, s.shown, frame)]

\* The lines of a read, one after the other.
Lines(s, lines) ==
    LET upTo[i \in 0..Len(lines)] == IF i = 0 THEN s ELSE Line(upTo[i - 1], lines[i])
    IN  upTo[Len(lines)]

\* Faulty: what was read of a line is not kept, and the rest of it is no frame.
WholeAnew(frame) == <<[frame EXCEPT !.kind = "rest"]>>

\* The line whose first part is in the buffer, made whole by the rest of it.
Whole(frame) == <<frame>>

\* One read: the rest of the line that was cut, some lines, and perhaps a part of another.
ReadChunk ==
    /\ mode = "stream" /\ ended = "no" /\ ~reader.done
    /\ \E n \in 0..MaxLines, cut \in BOOLEAN : \E frames \in [1..n -> Frames], part \in Frames :
         LET lines == (IF buffer = <<>> THEN <<>> ELSE Whole(buffer[1])) \o frames
             read == Lines([reader |-> reader, shown |-> shown], lines)
             left == IF cut THEN <<part>> ELSE <<>>
         IN  /\ n + Len(left) + Len(buffer) > 0
             /\ Len(sent) + n + Len(left) <= MaxFrames
             /\ sent' = sent \o frames \o left
             /\ buffer' = left
             /\ reader' = read.reader /\ shown' = read.shown
    /\ UNCHANGED <<mode, ended>>

\* The stream ends, with [DONE] or without.
Return ==
    /\ mode = "stream" /\ ended = "no"
    /\ ended' = IF reader.error THEN "failed" ELSE "resolved"
    /\ UNCHANGED <<mode, sent, buffer, reader, shown>>

\* The visitor stops the answer, or the connection breaks: reader.read() throws.
Break ==
    /\ ended = "no"
    /\ ended' = "failed"
    /\ UNCHANGED <<mode, sent, buffer, reader, shown>>

\* readCompletion(): the message comes whole, with an error or without.
ReadCompletion ==
    /\ mode = "completion" /\ ended = "no"
    /\ \E a \in Texts, b \in Texts :
          /\ sent' = <<Token(a), Token(b)>>
          /\ \/ ended' = "failed" /\ UNCHANGED <<reader, shown>>
             \/ LET r == Read(Read(reader, Token(a)), Token(b)) IN
                reader' = r /\ shown' = Content(r.raw) /\ ended' = "resolved"
    /\ UNCHANGED <<mode, buffer>>

\* readErrorResponse(): the first message among the frames, or one made of the status.
ReadErrorResponse ==
    /\ mode = "failure" /\ ended = "no"
    /\ ended' = "failed"
    /\ UNCHANGED <<mode, sent, buffer, reader, shown>>

Next == ReadChunk \/ Return \/ Break \/ ReadCompletion \/ ReadErrorResponse

Spec == Init /\ [][Next]_vars

-----------------------------------------------------------------------------
TypeOK ==
    /\ sent \in Seq(Frames) /\ Len(sent) <= MaxFrames + 2 /\ buffer \in Seq(Frames)
    /\ Len(buffer) <= 1 /\ ended \in {"no", "resolved", "failed"}

\* The frames that count: whole ones, up to [DONE].
Heard ==
    LET whole == SubSeq(sent, 1, Len(sent) - Len(buffer))
        dones == {i \in DOMAIN whole : whole[i].kind = "done"}
    IN  IF dones = {} THEN whole ELSE SubSeq(whole, 1, First(dones))

\* Reference: a reader that goes through the text piece by piece.
State(inside, held, out) == [inside |-> inside, held |-> held, out |-> out]
Step(s, piece) ==
    LET pair == s.held \o <<piece>> IN
    IF s.inside
    THEN IF pair = Close THEN State(FALSE, <<>>, s.out) ELSE State(TRUE, <<piece>>, s.out)
    ELSE IF pair = Open THEN State(TRUE, <<>>, s.out)
         ELSE State(FALSE, <<piece>>, s.out \o s.held)

Visible(text) ==
    LET after[i \in 0..Len(text)] == IF i = 0 THEN State(FALSE, <<>>, <<>>)
                                     ELSE Step(after[i - 1], text[i])
        end == after[Len(text)]
    IN  IF end.inside THEN end.out ELSE end.out \o end.held

AllText(frames) == Joined([i \in DOMAIN frames |-> frames[i].text])

(* However the network cuts the lines and the model its tags, the visitor  *)
(* reads the text of the frames that arrived, in order, without what was   *)
(* thought, at every moment of the stream and at its end; and an answer    *)
(* that carried an error is not taken for a whole one.                     *)
ReadWhole ==
    /\ mode = "stream" \/ ended = "resolved" => shown = Visible(AllText(Heard))
    /\ ended = "resolved" => \A i \in DOMAIN Heard : Heard[i].kind # "error"
    /\ reader.images = Len(Among(Heard, {Frame("image")}))

(* The same of an answer that was cut, which does not hold: a stream that  *)
(* ends without [DONE] is taken for a whole answer.                        *)
CutNoticed == mode = "stream" /\ ended = "resolved" => reader.done
=============================================================================
