---------------------------- MODULE PagesProofs ----------------------------
(***************************************************************************)
(* Proofs about MCData: the calls an adapter reads from a stream, the      *)
(* blocks the messages route writes, the reader of the page, and the       *)
(* playground's chats and images.  As in StoresProofs, the lemmas are      *)
(* about the components' instances, each of which stutters while another   *)
(* component is at work.                                                   *)
(***************************************************************************)
EXTENDS MCData, CollectionsProofs, TLAPS

(***************************************************************************)
(* StreamAdapters: the calls of an upstream's stream.  The blocks given an *)
(* index are distinct, each fragment carries the index of its own block,   *)
(* and an index is first used when all below it have been.                 *)
(***************************************************************************)
CallsTyped ==
    /\ format \in Calls!Formats /\ blocks \in Seq({"text", "tool"})
    /\ toolIndex \in Seq(Nat) /\ \A n \in DOMAIN toolIndex : toolIndex[n] \in DOMAIN blocks
    /\ finishes \in Seq({"stop", "tool_calls"})
    /\ told \in BOOLEAN /\ over \in BOOLEAN /\ thrown \in BOOLEAN

Indexing(map, frags) ==
    /\ map \in Seq(Nat) /\ frags \in Seq([block : Nat, index : Nat])
    /\ \A i, j \in DOMAIN map : map[i] = map[j] => i = j
    /\ \A i \in DOMAIN frags : /\ frags[i].index + 1 \in DOMAIN map
                               /\ map[frags[i].index + 1] = frags[i].block
                               /\ \A n \in 0..(frags[i].index - 1) :
                                     \E j \in 1..(i - 1) : frags[j].index = n
    /\ \A n \in DOMAIN map : \E j \in DOMAIN frags : frags[j].index = n - 1

CallsEnding ==
    /\ Len(finishes) <= 1
    /\ finishes # <<>> /\ ~over => format = "anthropic" /\ told
    /\ told => finishes # <<>>
    /\ thrown => over /\ finishes = <<>>
    /\ over => thrown \/ finishes # <<>>

CallsInv == CallsTyped /\ (format # "gemini" => Indexing(toolIndex, sent)) /\ CallsEnding

LEMMA CallsInit == ASSUME Calls!Init PROVE CallsInv
<1>1. /\ format \in Calls!Formats /\ blocks = <<>> /\ toolIndex = <<>> /\ sent = <<>>
      /\ told = FALSE /\ finishes = <<>> /\ over = FALSE /\ thrown = FALSE
      BY DEF Calls!Init
<1>2. CallsTyped
      <2>1. <<>> \in Seq({"text", "tool"}) /\ <<>> \in Seq({"stop", "tool_calls"})
            /\ <<>> \in Seq(Nat) /\ DOMAIN <<>> = {}
            OBVIOUS
      <2>2. QED BY <1>1, <2>1 DEF CallsTyped
<1>3. Indexing(<<>>, <<>>) BY DEF Indexing
<1>4. Len(finishes) = 0 BY <1>1
<1>5. CallsEnding BY <1>1, <1>4 DEF CallsEnding
<1>6. QED BY <1>1, <1>2, <1>3, <1>5 DEF CallsInv

\* To parse a chunk twice is to parse it once: the block has an index then, and has kept it.
LEMMA ParsedOnce ==
    ASSUME toolIndex \in Seq(Nat), NEW b \in Nat
    PROVE  Calls!ParsedTwice(b) = Calls!Indexed(toolIndex, b)
<1>1. CASE Calls!Known(toolIndex, b) BY <1>1 DEF Calls!ParsedTwice, Calls!Indexed
<1>2. ASSUME ~Calls!Known(toolIndex, b)
      PROVE  Calls!Known(Append(toolIndex, b), b)
      <2>1. /\ Len(toolIndex) + 1 \in DOMAIN Append(toolIndex, b)
            /\ Append(toolIndex, b)[Len(toolIndex) + 1] = b
            BY <1>2
      <2>2. QED BY <2>1 DEF Calls!Known
<1>3. QED BY <1>1, <1>2 DEF Calls!ParsedTwice, Calls!Indexed

\* A fragment of a block, known or new.
LEMMA FragmentSent ==
    ASSUME NEW map, NEW frags, Indexing(map, frags), NEW b \in Nat
    PROVE  Indexing(Calls!Indexed(map, b),
                    Append(frags, Calls!Fragment(b, Calls!IndexOf(Calls!Indexed(map, b), b))))
<1> DEFINE next == Calls!Indexed(map, b)
           at == Calls!IndexOf(next, b)
           more == Append(frags, Calls!Fragment(b, at))
<1>0. /\ map \in Seq(Nat) /\ frags \in Seq([block : Nat, index : Nat])
      /\ \A i, j \in DOMAIN map : map[i] = map[j] => i = j
      BY DEF Indexing
<1>1. /\ next \in Seq(Nat) /\ \A i, j \in DOMAIN next : next[i] = next[j] => i = j
      /\ \A n \in DOMAIN map : n \in DOMAIN next /\ next[n] = map[n]
      /\ \E n \in DOMAIN next : next[n] = b
      /\ DOMAIN next \subseteq DOMAIN map \cup {n \in DOMAIN next : next[n] = b}
      <2>1. CASE Calls!Known(map, b) BY <2>1, <1>0 DEF Calls!Indexed, Calls!Known
      <2>2. CASE ~Calls!Known(map, b)
            <3>1. next = Append(map, b) BY <2>2 DEF Calls!Indexed
            <3>2. \A n \in DOMAIN map : map[n] # b BY <2>2 DEF Calls!Known
            <3>3. /\ DOMAIN next = DOMAIN map \cup {Len(map) + 1} /\ next[Len(map) + 1] = b
                  /\ \A n \in DOMAIN map : next[n] = map[n] /\ n # Len(map) + 1
                  BY <3>1, <1>0
            <3>4. next \in Seq(Nat) BY <3>1, <1>0
            <3> HIDE DEF next
            <3>5. QED BY <3>2, <3>3, <3>4, <1>0
      <2>3. QED BY <2>1, <2>2
<1>2. at + 1 \in DOMAIN next /\ next[at + 1] = b /\ at \in Nat
      <2>1. (CHOOSE n \in DOMAIN next : next[n] = b) \in DOMAIN next
            /\ next[CHOOSE n \in DOMAIN next : next[n] = b] = b
            BY <1>1
      <2>2. DOMAIN next = 1..Len(next) /\ Len(next) \in Nat BY <1>1
      <2> HIDE DEF next
      <2>3. QED BY <2>1, <2>2 DEF Calls!IndexOf
<1>3. /\ DOMAIN next = 1..Len(next) /\ Len(next) \in Nat
      /\ DOMAIN map = 1..Len(map) /\ Len(map) \in Nat
      /\ DOMAIN frags = 1..Len(frags) /\ Len(frags) \in Nat
      BY <1>0, <1>1
<1>4. \A n \in DOMAIN next : n \in DOMAIN map \/ n = at + 1 BY <1>1, <1>2
<1>5. /\ more \in Seq([block : Nat, index : Nat])
      /\ DOMAIN more = DOMAIN frags \cup {Len(frags) + 1}
      /\ \A i \in DOMAIN frags : more[i] = frags[i]
      /\ more[Len(frags) + 1].index = at /\ more[Len(frags) + 1].block = b
      <2> HIDE DEF at
      <2>1. QED BY <1>0, <1>2 DEF Calls!Fragment
<1> HIDE DEF next, at, more
<1>6. \A i \in DOMAIN more :
          /\ more[i].index + 1 \in DOMAIN next
          /\ next[more[i].index + 1] = more[i].block
      <2>1. ASSUME NEW i \in DOMAIN frags
            PROVE  frags[i].index + 1 \in DOMAIN next
                   /\ next[frags[i].index + 1] = frags[i].block
            <3>1. frags[i].index + 1 \in DOMAIN map /\ map[frags[i].index + 1] = frags[i].block
                  BY <2>1 DEF Indexing
            <3>2. QED BY <3>1, <1>1
      <2>2. QED BY <2>1, <1>2, <1>5
<1>7. ASSUME NEW i \in DOMAIN more, NEW n \in 0..(more[i].index - 1)
      PROVE  \E j \in 1..(i - 1) : more[j].index = n
      <2>1. CASE i \in DOMAIN frags
            <3>1. PICK j \in 1..(i - 1) : frags[j].index = n
                  BY <2>1, <1>5, <1>7 DEF Indexing
            <3>2. j \in DOMAIN frags BY <2>1, <1>3
            <3>3. QED BY <3>1, <3>2, <1>5
      <2>2. CASE i = Len(frags) + 1
            <3>1. n + 1 \in DOMAIN next /\ n + 1 # at + 1 /\ n \in Int
                  BY <2>2, <1>2, <1>3, <1>5, <1>7
            <3>2. n + 1 \in DOMAIN map BY <3>1, <1>4
            <3>3. PICK j \in DOMAIN frags : frags[j].index = n + 1 - 1
                  <4>1. \A k \in DOMAIN map : \E j \in DOMAIN frags : frags[j].index = k - 1
                        BY DEF Indexing
                  <4>2. QED BY <3>2, <4>1
            <3>4. j \in 1..(i - 1) BY <2>2, <1>3
            <3>5. QED BY <3>1, <3>3, <3>4, <1>5
      <2>3. QED BY <2>1, <2>2, <1>5
<1>8. ASSUME NEW n \in DOMAIN next PROVE \E j \in DOMAIN more : more[j].index = n - 1
      <2>1. CASE n \in DOMAIN map BY <2>1, <1>5 DEF Indexing
      <2>2. CASE n = at + 1
            <3>1. more[Len(frags) + 1].index = n - 1 BY <2>2, <1>2, <1>5
            <3>2. QED BY <3>1, <1>5
      <2>3. QED BY <2>1, <2>2, <1>4
<1>9. Indexing(next, more) BY <1>1, <1>5, <1>6, <1>7, <1>8 DEF Indexing
<1>10. QED BY <1>9 DEF next, at, more

\* A block that is given an index has begun.
LEMMA IndexedBegun ==
    ASSUME NEW map \in Seq(Nat), NEW begun, NEW b \in Nat, b \in begun,
           \A n \in DOMAIN map : map[n] \in begun
    PROVE  /\ Calls!Indexed(map, b) \in Seq(Nat)
           /\ \A n \in DOMAIN Calls!Indexed(map, b) : Calls!Indexed(map, b)[n] \in begun
BY DEF Calls!Indexed

\* The fragment that BlockStarts() and Arguments() send.
LEMMA FragmentStep ==
    ASSUME CallsInv, format # "gemini", NEW b \in DOMAIN blocks', blocks' \in Seq({"text", "tool"}),
           DOMAIN blocks \subseteq DOMAIN blocks',
           toolIndex' = Calls!ParsedTwice(b),
           sent' = Append(sent, Calls!Fragment(b, Calls!IndexOf(Calls!ParsedTwice(b), b))),
           UNCHANGED <<format, told, finishes, over, thrown>>
    PROVE  CallsInv'
<1>1. b \in Nat BY SMT
<1>2. toolIndex' = Calls!Indexed(toolIndex, b)
      /\ sent' = Append(sent, Calls!Fragment(b, Calls!IndexOf(Calls!Indexed(toolIndex, b), b)))
      BY <1>1, ParsedOnce DEF CallsInv, CallsTyped
<1>3. Indexing(toolIndex', sent') BY <1>1, <1>2, FragmentSent DEF CallsInv
<1>4. toolIndex' \in Seq(Nat) /\ \A n \in DOMAIN toolIndex' : toolIndex'[n] \in DOMAIN blocks'
      BY <1>1, <1>2, IndexedBegun DEF CallsInv, CallsTyped
<1>5. CallsTyped' /\ CallsEnding' BY <1>4 DEF CallsInv, CallsTyped, CallsEnding
<1>6. QED BY <1>3, <1>5 DEF CallsInv

LEMMA CallsNext == ASSUME CallsInv, [Calls!Next]_callVars PROVE CallsInv'
<1>0. blocks \in Seq({"text", "tool"}) /\ finishes \in Seq({"stop", "tool_calls"})
      BY DEF CallsInv, CallsTyped
<1>1. ASSUME NEW k \in {"text", "tool"}, Calls!BlockStarts(k) PROVE CallsInv'
      <2>1. /\ format # "gemini" /\ blocks' = Append(blocks, k)
            /\ UNCHANGED <<format, told, finishes, over, thrown>>
            BY <1>1 DEF Calls!BlockStarts
      <2>2. /\ blocks' \in Seq({"text", "tool"}) /\ DOMAIN blocks \subseteq DOMAIN blocks'
            /\ Len(blocks) + 1 \in DOMAIN blocks'
            BY <2>1, <1>0
      <2>3. CASE k # "tool"
            <3>1. UNCHANGED <<toolIndex, sent>> BY <1>1, <2>3 DEF Calls!BlockStarts
            <3>2. QED BY <2>1, <2>2, <3>1 DEF CallsInv, CallsTyped, CallsEnding
      <2>4. CASE k = "tool"
            BY <1>1, <2>1, <2>2, <2>4, FragmentStep DEF Calls!BlockStarts
      <2>5. QED BY <2>3, <2>4
<1>2. ASSUME NEW b \in DOMAIN blocks, Calls!Arguments(b) PROVE CallsInv'
      <2>1. UNCHANGED <<format, blocks, told, finishes, over, thrown>> /\ format # "gemini"
            BY <1>2 DEF Calls!Arguments
      <2>2. QED BY <1>2, <1>0, <2>1, FragmentStep DEF Calls!Arguments
<1>3. ASSUME NEW n \in 1..MaxBlocks, Calls!GeminiCalls(n) PROVE CallsInv'
      <2>1. /\ format = "gemini" /\ blocks' = blocks \o [i \in 1..n |-> "tool"]
            /\ UNCHANGED <<format, toolIndex, told, finishes, over, thrown>>
            BY <1>3 DEF Calls!GeminiCalls
      <2>2. n \in Nat /\ [i \in 1..n |-> "tool"] \in Seq({"text", "tool"}) BY SMT
      <2>3. blocks' \in Seq({"text", "tool"}) /\ DOMAIN blocks \subseteq DOMAIN blocks'
            BY <1>0, <2>1, <2>2
      <2>4. QED BY <2>1, <2>3 DEF CallsInv, CallsTyped, CallsEnding
<1>4. ASSUME NEW reason \in {"stop", "tool_calls"}, ~over, finishes = <<>>,
             finishes' = Append(finishes, reason),
             over' \/ (format = "anthropic" /\ told'), told' => told \/ ~over',
             over' \in BOOLEAN, told' \in BOOLEAN,
             UNCHANGED <<format, blocks, toolIndex, sent, thrown>>
      PROVE  CallsInv'
      <2>1. finishes' = <<reason>> BY <1>4
      <2>2. QED BY <1>4, <2>1 DEF CallsInv, CallsTyped, CallsEnding
<1>5. CASE Calls!MessageDelta
      <2>1. finishes = <<>> BY <1>5 DEF Calls!MessageDelta, CallsInv, CallsEnding
      <2>2. PICK reason \in {"stop", "tool_calls"} : finishes' = Append(finishes, reason)
            BY <1>5 DEF Calls!MessageDelta
      <2>3. /\ told' = TRUE /\ ~over /\ over' = FALSE /\ format = "anthropic"
            /\ UNCHANGED <<format, blocks, toolIndex, sent, thrown>>
            BY <1>5 DEF Calls!MessageDelta, CallsInv, CallsTyped
      <2>4. QED BY <2>1, <2>2, <2>3, <1>4
<1>6. CASE Calls!MessageStop
      <2>1. CASE told BY <1>6, <2>1 DEF Calls!MessageStop, CallsInv, CallsTyped, CallsEnding
      <2>2. CASE ~told
            <3>1. finishes = <<>> BY <1>6, <2>2 DEF Calls!MessageStop, CallsInv, CallsEnding
            <3>2. /\ finishes' = Append(finishes, "stop") /\ ~over /\ over' = TRUE
                  /\ told' = told /\ told = FALSE
                  /\ UNCHANGED <<format, blocks, toolIndex, sent, thrown>>
                  BY <1>6, <2>2 DEF Calls!MessageStop, CallsInv, CallsTyped
            <3>3. QED BY <3>1, <3>2, <1>4
      <2>3. QED BY <2>1, <2>2
<1>7. CASE Calls!Completed
      <2>1. finishes = <<>> BY <1>7 DEF Calls!Completed, CallsInv, CallsEnding
      <2>2. told' = told /\ told \in BOOLEAN
            BY <1>7 DEF Calls!Completed, CallsInv, CallsTyped
      <2>3. QED BY <1>7, <2>1, <2>2, <1>4 DEF Calls!Completed
<1>8. CASE Calls!Failed
      BY <1>8 DEF Calls!Failed, CallsInv, CallsTyped, CallsEnding
<1>9. CASE Calls!GeminiFinish
      <2>1. finishes = <<>> BY <1>9 DEF Calls!GeminiFinish, CallsInv, CallsEnding
      <2>2. told' = told /\ told \in BOOLEAN
            BY <1>9 DEF Calls!GeminiFinish, CallsInv, CallsTyped
      <2>3. QED BY <1>9, <2>1, <2>2, <1>4 DEF Calls!GeminiFinish
<1>10. CASE UNCHANGED callVars
       BY <1>10 DEF callVars, CallsInv, CallsTyped, Indexing, CallsEnding
<1>11. QED BY <1>1, <1>2, <1>3, <1>5, <1>6, <1>7, <1>8, <1>9, <1>10 DEF Calls!Next

\* Fragments carry one index exactly when they belong to one call, calls are numbered from 0
\* in the order they begin, and the client hears once why the answer ended, for a stream of
\* any length and any order of its events (utils/adapters/anthropic.ts:352,
\* openai-responses.ts:453).
THEOREM CallsApartHolds == MCSpec => []CallsApart
<1>1. MCInit => CallsInv BY CallsInit DEF MCInit
<1>2. [MCNext]_MCVars => [Calls!Next]_callVars
      BY DEF MCNext, StreamNext, StoreNext, PageNext, MCVars
<1>3. CallsInv /\ [MCNext]_MCVars => CallsInv' BY <1>2, CallsNext
<1>4. ASSUME CallsInv, format # "gemini" PROVE Calls!Apart
      <2>1. Indexing(toolIndex, sent) BY <1>4 DEF CallsInv
      <2>2. sent \in Seq([block : Nat, index : Nat]) BY <2>1 DEF Indexing
      <2>3. ASSUME NEW i \in DOMAIN sent, NEW j \in DOMAIN sent
            PROVE  sent[i].index = sent[j].index <=> sent[i].block = sent[j].block
            <3>1. sent[i].index \in Nat /\ sent[j].index \in Nat
                  <4>1. sent[i] \in [block : Nat, index : Nat] /\ sent[j] \in [block : Nat, index : Nat]
                        BY <2>2, <2>3, ElementIn
                  <4>2. QED BY <4>1
            <3>2. /\ sent[i].index + 1 \in DOMAIN toolIndex /\ sent[j].index + 1 \in DOMAIN toolIndex
                  /\ toolIndex[sent[i].index + 1] = sent[i].block
                  /\ toolIndex[sent[j].index + 1] = sent[j].block
                  BY <2>1, <2>3 DEF Indexing
            <3>3. sent[i].block = sent[j].block => sent[i].index + 1 = sent[j].index + 1
                  BY <2>1, <3>2 DEF Indexing
            <3>4. QED BY <3>1, <3>2, <3>3
      <2>4. QED BY <2>1, <2>3 DEF Indexing, Calls!Apart
<1>5. CallsInv => Calls!TypeOK /\ Calls!CallsApart
      BY <1>4 DEF CallsInv, CallsTyped, CallsEnding, Calls!TypeOK, Calls!CallsApart
<1>6. CallsInv => CallsApart BY <1>5 DEF CallsApart
<1>7. QED BY <1>1, <1>3, <1>6, PTL DEF MCSpec

(***************************************************************************)
(* ClientStream: what is visible of a text.  The regular expression jumps  *)
(* from block to block, the reference goes piece by piece; wherever no tag *)
(* is begun, the reference has still to show what the expression finds     *)
(* from there.                                                             *)
(***************************************************************************)
Pieces == {"x", "o", "k", "c"}
Reading == [inside : BOOLEAN, held : Seq(Pieces), out : Seq(Pieces)]
Fresh(o) == Client!State(FALSE, <<>>, o)
Within(o) == Client!State(TRUE, <<>>, o)
Outside(piece, o) == Client!State(FALSE, <<piece>>, o)
Inside(piece, o) == Client!State(TRUE, <<piece>>, o)

LEMMA StateTyped ==
    ASSUME NEW i \in BOOLEAN, NEW h \in Seq(Pieces), NEW o \in Seq(Pieces)
    PROVE  /\ Client!State(i, h, o) \in Reading
           /\ Client!State(i, h, o).inside = i /\ Client!State(i, h, o).held = h
           /\ Client!State(i, h, o).out = o
BY DEF Client!State, Reading

LEMMA StepTyped ==
    ASSUME NEW s \in Reading, NEW piece \in Pieces PROVE Client!Step(s, piece) \in Reading
<1>1. s.held \in Seq(Pieces) /\ s.out \in Seq(Pieces) /\ s.inside \in BOOLEAN BY DEF Reading
<1>2. <<piece>> \in Seq(Pieces) /\ <<>> \in Seq(Pieces) OBVIOUS
<1>3. s.out \o s.held \in Seq(Pieces) BY <1>1, ConcatProperties
<1>4. /\ Client!State(FALSE, <<>>, s.out) \in Reading
      /\ Client!State(TRUE, <<>>, s.out) \in Reading
      /\ Client!State(TRUE, <<piece>>, s.out) \in Reading
      /\ Client!State(FALSE, <<piece>>, s.out \o s.held) \in Reading
      BY <1>1, <1>2, <1>3, StateTyped
<1>5. QED BY <1>4, Zenon DEF Client!Step

\* The reference's states after each piece.
Reads(r, text) ==
    /\ r \in [0..Len(text) -> Reading]
    /\ r[0] = Fresh(<<>>)
    /\ \A i \in 1..Len(text) : r[i] = Client!Step(r[i - 1], text[i])

LEMMA VisibleIs ==
    ASSUME NEW text \in Seq(Pieces)
    PROVE  \E r : Reads(r, text) /\ Client!Visible(text)
                      = IF r[Len(text)].inside THEN r[Len(text)].out
                        ELSE r[Len(text)].out \o r[Len(text)].held
<1> DEFINE n == Len(text)
           b == Fresh(<<>>)
           Kept(f) == f = [i \in 0..n |-> IF i = 0 THEN b ELSE Client!Step(f[i - 1], text[i])]
           G == [i \in 1..n |-> [s \in Reading |-> Client!Step(s, text[i])]]
<1>1. n \in Nat /\ \A i \in 1..n : text[i] \in Pieces BY LenProperties, ElementOfSeq
<1>2. b \in Reading
      <2>1. <<>> \in Seq(Pieces) BY EmptySeq
      <2>2. QED BY <2>1, StateTyped DEF Fresh
<1>3. G \in [1..n -> [Reading -> Reading]] BY <1>1, StepTyped
<1> HIDE DEF G, n, b
<1>4. PICK f \in [0..n -> Reading] : f[0] = b /\ \A i \in 1..n : f[i] = G[i][f[i - 1]]
      <2> DEFINE V == Reading
      <2>1. n \in Nat /\ b \in V /\ G \in [1..n -> [V -> V]] BY <1>1, <1>2, <1>3
      <2> HIDE DEF V
      <2>2. Maps(G, n, V) BY <2>1 DEF Maps
      <2>3. PICK f : Runs(f, n, V, b, G) BY <2>1, <2>2, Running, Zenon
      <2>4. QED BY <2>3 DEF Runs, V
<1>5. \A i \in 1..n : f[i] = Client!Step(f[i - 1], text[i])
      <2>1. \A i \in 1..n : f[i - 1] \in Reading BY <1>1
      <2>2. QED BY <1>4, <2>1 DEF G
<1>6. Kept(f)
      <2>1. \A i \in 0..n : f[i] = IF i = 0 THEN b ELSE Client!Step(f[i - 1], text[i])
            BY <1>1, <1>4, <1>5
      <2>2. f = [i \in 0..n |-> f[i]] OBVIOUS
      <2>3. QED BY <2>1, <2>2
<1> DEFINE c == CHOOSE g : Kept(g)
<1>7. Kept(c) BY <1>6
<1>8. Client!Visible(text) = IF c[n].inside THEN c[n].out ELSE c[n].out \o c[n].held
      BY DEF Client!Visible, Fresh, n, b
<1> HIDE DEF c
<1>9. c[0] = b /\ \A i \in 1..n : c[i] = Client!Step(c[i - 1], text[i])
      <2>1. 0 \in 0..n /\ \A i \in 1..n : i \in 0..n /\ i # 0 BY <1>1
      <2>2. \A i \in 0..n : c[i] = IF i = 0 THEN b ELSE Client!Step(c[i - 1], text[i])
            BY <1>7
      <2>3. QED BY <2>1, <2>2
<1>10. \A k \in 0..n : c[k] = f[k]
       <2>1. ASSUME NEW k \in 0..n - 1, c[k] = f[k] PROVE c[k + 1] = f[k + 1]
             <3>1. k + 1 \in 1..n /\ (k + 1) - 1 = k BY <1>1
             <3>2. QED BY <1>5, <1>9, <2>1, <3>1
       <2>2. c[0] = f[0] BY <1>4, <1>9
       <2>3. QED BY <1>1, <2>1, <2>2, AlikeSoFar
<1>11. c \in [0..n -> Reading]
       <2>1. c = [i \in 0..n |-> c[i]] BY <1>7
       <2>2. QED BY <1>10, <2>1
<1>12. Reads(c, text) BY <1>9, <1>11 DEF Reads, n, b
<1>13. QED BY <1>8, <1>12 DEF n

LEMMA StateParts ==
    ASSUME NEW h, NEW o
    PROVE  /\ Client!State(TRUE, h, o).inside /\ ~Client!State(FALSE, h, o).inside
           /\ \A i : Client!State(i, h, o).held = h /\ Client!State(i, h, o).out = o
BY SMT DEF Client!State

LEMMA StateOf ==
    ASSUME NEW s, NEW h, NEW o
    PROVE  /\ s = Client!State(TRUE, h, o) => s.inside /\ s.held = h /\ s.out = o
           /\ s = Client!State(FALSE, h, o) => ~s.inside /\ s.held = h /\ s.out = o
BY SMT DEF Client!State

LEMMA PairOf ==
    ASSUME NEW y, NEW z, NEW h, h = <<y>>
    PROVE  /\ h \o <<z>> = Client!Open <=> y = "o" /\ z = "k"
           /\ h \o <<z>> = Client!Close <=> y = "c" /\ z = "k"
BY PairIs DEF Client!Open, Client!Close

LEMMA SingleTwo ==
    ASSUME NEW a, NEW b, NEW y, NEW z
    PROVE  <<y, z>> = <<a, b>> <=> y = a /\ z = b
<1>1. <<y, z>>[1] = y /\ <<y, z>>[2] = z /\ <<a, b>>[1] = a /\ <<a, b>>[2] = b OBVIOUS
<1>2. QED BY <1>1

LEMMA SingleIs ==
    ASSUME NEW a, NEW b, NEW z PROVE <<>> \o <<z>> = <<z>> /\ <<z>> # <<a, b>>
<1>1. Len(<<z>>) = 1 /\ Len(<<a, b>>) = 2 OBVIOUS
<1>2. QED BY <1>1

LEMMA AtIs ==
    ASSUME NEW text \in Seq(Pieces), NEW i \in 1..Len(text), NEW a, NEW b
    PROVE  Client!At(text, i, <<a, b>>) <=> i + 1 <= Len(text) /\ text[i] = a /\ text[i + 1] = b
<1>1. ASSUME i + 1 <= Len(text)
      PROVE  SubSeq(text, i, i + 1) = <<text[i], text[i + 1]>>
      <2>1. Len(text) \in Nat BY LenProperties
      <2>2. /\ i \in 1..Len(text) /\ i + 1 \in 1..Len(text) /\ i + 1 \in i..Len(text)
            /\ i + 1 \in i + 1..Len(text) /\ i \in i..Len(text)
            BY <1>1, <2>1
      <2>3. /\ SubSeq(text, i, i + 1) = <<text[i]>> \o SubSeq(text, i + 1, i + 1)
            /\ SubSeq(text, i + 1, i + 1) = <<text[i + 1]>> \o SubSeq(text, i + 2, i + 1)
            BY <2>2, SubSeqRecursiveFirst
      <2>4. SubSeq(text, i + 2, i + 1) = <<>> BY <2>1, SubSeqEmpty
      <2>5. <<text[i + 1]>> \in Seq(Pieces) BY <2>2, ElementOfSeq
      <2>6. <<text[i + 1]>> \o <<>> = <<text[i + 1]>> BY <2>5, ConcatEmptySeq
      <2>7. SubSeq(text, i, i + 1) = <<text[i]>> \o <<text[i + 1]>> BY <2>3, <2>4, <2>6, Zenon
      <2>8. <<text[i]>> \o <<text[i + 1]>> = <<text[i], text[i + 1]>> BY TwoSingles, Zenon
      <2>9. QED BY <2>7, <2>8, Zenon
<1>2. ASSUME i + 1 <= Len(text)
      PROVE  SubSeq(text, i, i + 1) = <<a, b>> <=> text[i] = a /\ text[i + 1] = b
      <2>1. <<text[i], text[i + 1]>> = <<a, b>> <=> text[i] = a /\ text[i + 1] = b
            BY SingleTwo, Zenon
      <2>2. QED BY <1>1, <1>2, <2>1, Zenon
<1>3. QED BY <1>2, Zenon DEF Client!At

\* The places of tags.
LEMMA PlacesTyped ==
    ASSUME NEW text \in Seq(Pieces), NEW i \in 1..Len(text) + 1
    PROVE  /\ Client!Opens(text, i) = {j \in i..Len(text) :
                                         j + 1 <= Len(text) /\ text[j] = "o" /\ text[j + 1] = "k"}
           /\ Client!Closes(text, i) = {j \in i + 2..Len(text) :
                                          j + 1 <= Len(text) /\ text[j] = "c" /\ text[j + 1] = "k"}
<1>1. Len(text) \in Nat BY LenProperties
<1>2. ASSUME NEW j \in i..Len(text)
      PROVE  Client!At(text, j, Client!Open)
               <=> j + 1 <= Len(text) /\ text[j] = "o" /\ text[j + 1] = "k"
      <2>1. j \in 1..Len(text) BY <1>1
      <2>2. QED BY <2>1, AtIs DEF Client!Open
<1>3. ASSUME NEW j \in i + 2..Len(text)
      PROVE  Client!At(text, j, Client!Close)
               <=> j + 1 <= Len(text) /\ text[j] = "c" /\ text[j + 1] = "k"
      <2>1. j \in 1..Len(text) BY <1>1
      <2>2. QED BY <2>1, AtIs DEF Client!Close
<1>4. QED BY <1>2, <1>3 DEF Client!Opens, Client!Closes

LEMMA FirstIs ==
    ASSUME NEW T \in SUBSET Nat, T # {}
    PROVE  Client!First(T) \in T /\ \A j \in T : Client!First(T) <= j
<1>1. \E i \in T : \A j \in T : i <= j BY Least
<1>2. QED BY <1>1 DEF Client!First

\* One piece more, after another or at a fresh start, outside of a block and inside.
LEMMA OutsideStep ==
    ASSUME NEW y, NEW z, NEW o
    PROVE  LET next == Client!Step(Client!State(FALSE, <<y>>, o), z)
           IN  /\ y = "o" /\ z = "k" => next = Client!State(TRUE, <<>>, o)
               /\ ~(y = "o" /\ z = "k") => next = Client!State(FALSE, <<z>>, o \o <<y>>)
<1> DEFINE s == Client!State(FALSE, <<y>>, o)
<1>1. ~s.inside /\ s.held = <<y>> /\ s.out = o BY DEF Client!State
<1> HIDE DEF s
<1>2. s.held \o <<z>> = Client!Open <=> y = "o" /\ z = "k" BY <1>1, PairOf
<1>3. QED BY <1>1, <1>2 DEF Client!Step, s

LEMMA InsideStep ==
    ASSUME NEW y, NEW z, ~(y = "c" /\ z = "k"), NEW o
    PROVE  Client!Step(Client!State(TRUE, <<y>>, o), z) = Client!State(TRUE, <<z>>, o)
<1> DEFINE s == Client!State(TRUE, <<y>>, o)
<1>1. s.inside /\ s.held = <<y>> /\ s.out = o BY DEF Client!State
<1> HIDE DEF s
<1>2. s.held \o <<z>> # Client!Close BY <1>1, PairOf
<1>3. QED BY <1>1, <1>2 DEF Client!Step, s

LEMMA OpenStep ==
    ASSUME NEW o
    PROVE  Client!Step(Client!State(FALSE, <<"o">>, o), "k") = Client!State(TRUE, <<>>, o)
<1> DEFINE s == Client!State(FALSE, <<"o">>, o)
<1>1. ~s.inside /\ s.held = <<"o">> /\ s.out = o BY DEF Client!State
<1> HIDE DEF s
<1>2. s.held \o <<"k">> = Client!Open BY <1>1, PairOf
<1>3. QED BY <1>1, <1>2 DEF Client!Step, s

LEMMA CloseStep ==
    ASSUME NEW o
    PROVE  Client!Step(Client!State(TRUE, <<"c">>, o), "k") = Client!State(FALSE, <<>>, o)
<1> DEFINE s == Client!State(TRUE, <<"c">>, o)
<1>1. s.inside /\ s.held = <<"c">> /\ s.out = o BY DEF Client!State
<1> HIDE DEF s
<1>2. s.held \o <<"k">> = Client!Close BY <1>1, PairOf
<1>3. QED BY <1>1, <1>2 DEF Client!Step, s

LEMMA FirstStep ==
    ASSUME NEW z, NEW o
    PROVE  /\ Client!Step(Client!State(FALSE, <<>>, o), z) = Client!State(FALSE, <<z>>, o \o <<>>)
           /\ Client!Step(Client!State(TRUE, <<>>, o), z) = Client!State(TRUE, <<z>>, o)
<1>1. <<>> \o <<z>> # Client!Open /\ <<>> \o <<z>> # Client!Close
      BY SingleIs DEF Client!Open, Client!Close
<1> DEFINE s == Client!State(FALSE, <<>>, o)
           t == Client!State(TRUE, <<>>, o)
<1>2. /\ ~s.inside /\ s.held = <<>> /\ s.out = o
      /\ t.inside /\ t.held = <<>> /\ t.out = o
      BY DEF Client!State
<1> HIDE DEF s, t
<1>3. Client!Step(s, z) = Client!State(FALSE, <<z>>, o \o <<>>) BY <1>1, <1>2 DEF Client!Step
<1>4. Client!Step(t, z) = Client!State(TRUE, <<z>>, o) BY <1>1, <1>2 DEF Client!Step
<1>5. QED BY <1>3, <1>4 DEF s, t


Plain(text, i, e) == \A j \in i..e - 1 : j \notin Client!Opens(text, i)
Unclosed(text, i, e) == \A j \in i..e - 1 : ~(text[j] = "c" /\ text[j + 1] = "k")

\* Until the next tag opens, every piece is shown with the one behind it.
LEMMA OutsideRun ==
    ASSUME NEW text \in Seq(Pieces), NEW r, Reads(r, text),
           NEW i \in 1..Len(text), NEW e \in i..Len(text), NEW o \in Seq(Pieces),
           r[i - 1] = Fresh(o), Plain(text, i, e)
    PROVE  r[e] = Outside(text[e], Cat(o, SubSeq(text, i, e - 1)))
<1>0. \A j \in i..e - 1 : j \notin Client!Opens(text, i) BY DEF Plain
<1> DEFINE n == Len(text)
           Q(j) == r[j] = Client!State(FALSE, <<text[j]>>, o \o SubSeq(text, i, j - 1))
           P == {k \in Nat : i + k <= e => Q(i + k)}
<1>1. n \in Nat /\ i \in Nat /\ e \in Nat /\ \A j \in 1..n : text[j] \in Pieces /\ <<text[j]>> \in Seq(Pieces)
      BY LenProperties, ElementOfSeq
<1>2. \A j, k \in Nat : 1 <= j /\ k <= n => SubSeq(text, j, k) \in Seq(Pieces) BY <1>1, SubSeqProperties
<1>3. <<>> \in Seq(Pieces) BY EmptySeq
<1>4. 0 \in P
      <2>1. i + 0 = i /\ i + 0 - 1 = i - 1 BY <1>1
      <2>2. r[i] = Client!Step(r[i - 1], text[i]) BY DEF Reads
      <2>3. r[i - 1] = Client!State(FALSE, <<>>, o) BY DEF Fresh
      <2>4. Client!Step(r[i - 1], text[i]) = Client!State(FALSE, <<text[i]>>, o \o <<>>)
            BY <2>3, FirstStep, Zenon
      <2>5. r[i] = Client!State(FALSE, <<text[i]>>, o \o <<>>) BY <2>2, <2>4, Zenon
      <2>6. SubSeq(text, i, i - 1) = <<>> BY <1>1, SubSeqEmpty
      <2>7. QED BY <2>1, <2>5, <2>6
<1>5. ASSUME NEW k \in P PROVE k + 1 \in P
      <2>1. ASSUME i + (k + 1) <= e
            PROVE  Q(i + (k + 1))
            <3> DEFINE j == i + k
            <3>1. /\ k \in Nat /\ j \in i..e - 1 /\ j \in 1..n /\ j + 1 \in 1..n /\ i + (k + 1) = j + 1
                  /\ (j + 1) - 1 = j
                  BY <1>1, <2>1
            <3> DEFINE b == o \o SubSeq(text, i, j - 1)
            <3>2. r[j] = Client!State(FALSE, <<text[j]>>, b)
                  <4> HIDE DEF Q
                  <4>1. Q(j) BY <2>1, <3>1
                  <4>2. QED BY <4>1 DEF Q
            <3>3. SubSeq(text, i, j - 1) \in Seq(Pieces)
                  <4>1. j - 1 \in Nat /\ j - 1 <= n /\ i \in Nat /\ 1 <= i BY <3>1
                  <4>2. QED BY <1>2, <4>1
            <3>4. b \in Seq(Pieces) BY <3>3, ConcatProperties
            <3> HIDE DEF j, b
            <3>6. r[j + 1] = Client!Step(r[j], text[j + 1])
                  BY <3>1 DEF Reads
            <3>7. ~(text[j] = "o" /\ text[j + 1] = "k")
                  <4>1. j \notin Client!Opens(text, i) BY <1>0, <3>1
                  <4>2. i \in 1..n + 1 /\ j \in i..n /\ j + 1 <= n BY <1>1, <3>1
                  <4> HIDE DEF P, Q
                  <4>3. Client!Opens(text, i) = {q \in i..n : q + 1 <= n /\ text[q] = "o" /\ text[q + 1] = "k"}
                        BY <1>1, <4>2, PlacesTyped
                  <4>4. QED BY <4>1, <4>2, <4>3
            <3>8. r[j + 1] = Client!State(FALSE, <<text[j + 1]>>, b \o <<text[j]>>)
                  <4>1. Client!Step(Client!State(FALSE, <<text[j]>>, b), text[j + 1])
                          = Client!State(FALSE, <<text[j + 1]>>, b \o <<text[j]>>)
                        BY <3>7, OutsideStep, Zenon
                  <4>2. QED BY <3>2, <3>6, <4>1, Zenon
            <3>9. b \o <<text[j]>> = o \o SubSeq(text, i, j)
                  <4>1. SubSeq(text, i, j) = SubSeq(text, i, j - 1) \o <<text[j]>>
                        <5>1. i \in 1..n /\ j \in i..n BY <1>1, <3>1
                        <5>2. QED BY <5>1, SubSeqRecursiveSecond
                  <4>2. <<text[j]>> \in Seq(Pieces) BY <1>1, <3>1
                  <4> DEFINE u == SubSeq(text, i, j - 1)
                             v == <<text[j]>>
                  <4>3. u \in Seq(Pieces) /\ v \in Seq(Pieces) /\ SubSeq(text, i, j) = u \o v
                        BY <3>3, <4>1, <4>2
                  <4> HIDE DEF u, v, P, Q
                  <4>4. (o \o u) \o v = o \o (u \o v) BY <4>3, ConcatAssociative, SMTT(30)
                  <4>5. QED BY <4>3, <4>4 DEF b, u, v
            <3>10. Q(j + 1) BY <3>1, <3>8, <3>9
            <3> HIDE DEF Q
            <3>11. QED BY <3>1, <3>10
      <2>2. k + 1 \in Nat OBVIOUS
      <2>3. QED BY <2>1, <2>2
<1>6. P = Nat
      <2>1. P \in SUBSET Nat OBVIOUS
      <2> HIDE DEF P
      <2>2. QED BY <1>4, <1>5, <2>1, Naturally
<1> HIDE DEF Q
<1>7. Q(e)
      <2>1. e - i \in Nat /\ i + (e - i) = e BY <1>1
      <2>2. e - i \in P BY <1>6, <2>1
      <2>3. e <= e BY <1>1
      <2>4. QED BY <2>1, <2>2, <2>3
<1>8. QED BY <1>7 DEF Q, Outside, Cat

\* Until the next tag closes, nothing is shown.
LEMMA InsideRun ==
    ASSUME NEW text \in Seq(Pieces), NEW r, Reads(r, text),
           NEW i \in 1..Len(text), NEW e \in i..Len(text), NEW o \in Seq(Pieces),
           r[i - 1] = Within(o), Unclosed(text, i, e)
    PROVE  r[e] = Inside(text[e], o)
<1>0. r[i - 1] = Client!State(TRUE, <<>>, o) /\ \A j \in i..e - 1 : ~(text[j] = "c" /\ text[j + 1] = "k")
      BY DEF Within, Unclosed
<1> DEFINE n == Len(text)
           Q(j) == r[j] = Client!State(TRUE, <<text[j]>>, o)
           P == {k \in Nat : i + k <= e => Q(i + k)}
<1>1. n \in Nat /\ i \in Nat /\ e \in Nat /\ \A j \in 1..n : text[j] \in Pieces /\ <<text[j]>> \in Seq(Pieces)
      BY LenProperties, ElementOfSeq
<1>2. <<>> \in Seq(Pieces) BY EmptySeq
<1>3. 0 \in P
      <2>1. i + 0 = i BY <1>1
      <2>2. r[i] = Client!Step(r[i - 1], text[i]) BY DEF Reads
      <2>3. Client!Step(r[i - 1], text[i]) = Client!State(TRUE, <<text[i]>>, o)
            BY <1>0, FirstStep, Zenon
      <2>5. r[i] = Client!State(TRUE, <<text[i]>>, o) BY <2>2, <2>3, Zenon
      <2>6. QED BY <2>1, <2>5
<1>4. ASSUME NEW k \in P PROVE k + 1 \in P
      <2>1. ASSUME i + (k + 1) <= e
            PROVE  Q(i + (k + 1))
            <3> DEFINE j == i + k
            <3>1. /\ k \in Nat /\ j \in i..e - 1 /\ j \in 1..n /\ j + 1 \in 1..n /\ i + (k + 1) = j + 1
                  /\ (j + 1) - 1 = j
                  BY <1>1, <2>1
            <3>2. r[j] = Client!State(TRUE, <<text[j]>>, o)
                  <4> HIDE DEF Q
                  <4>1. Q(j) BY <2>1, <3>1
                  <4>2. QED BY <4>1 DEF Q
            <3> HIDE DEF j
            <3>4. r[j + 1] = Client!Step(r[j], text[j + 1]) BY <3>1 DEF Reads
            <3>5. ~(text[j] = "c" /\ text[j + 1] = "k") BY <1>0, <3>1
            <3>6. r[j + 1] = Client!State(TRUE, <<text[j + 1]>>, o)
                  <4>1. Client!Step(Client!State(TRUE, <<text[j]>>, o), text[j + 1])
                          = Client!State(TRUE, <<text[j + 1]>>, o)
                        <5> DEFINE y == text[j]
                                   z == text[j + 1]
                        <5>1. ~(y = "c" /\ z = "k") BY <3>5
                        <5> HIDE DEF y, z, P, Q, n
                        <5>2. Client!Step(Client!State(TRUE, <<y>>, o), z) = Client!State(TRUE, <<z>>, o)
                              BY <5>1, InsideStep, Zenon
                        <5>3. QED BY <5>2 DEF y, z
                  <4>2. QED BY <3>2, <3>4, <4>1, Zenon
            <3>7. Q(j + 1) BY <3>6
            <3> HIDE DEF Q
            <3>8. QED BY <3>1, <3>7
      <2>2. k + 1 \in Nat OBVIOUS
      <2>3. QED BY <2>1, <2>2
<1>5. P = Nat
      <2>1. P \in SUBSET Nat OBVIOUS
      <2> HIDE DEF P
      <2>2. QED BY <1>3, <1>4, <2>1, Naturally
<1> HIDE DEF Q
<1>6. Q(e)
      <2>1. e - i \in Nat /\ i + (e - i) = e BY <1>1
      <2>2. e - i \in P BY <1>5, <2>1
      <2>3. e <= e BY <1>1
      <2>4. QED BY <2>1, <2>2, <2>3
<1>7. QED BY <1>6 DEF Q, Inside

\* What the regular expression makes of the text from a place on.
Block(text, c, i) ==
    LET closed == {j \in Client!Opens(text, i) : Client!Closes(text, j) # {}}
        tail == Client!Opens(text, i)
    IN  IF closed # {}
        THEN SubSeq(text, i, Client!First(closed) - 1)
             \o c[Client!First(Client!Closes(text, Client!First(closed))) + 2]
        ELSE IF tail # {} THEN SubSeq(text, i, Client!First(tail) - 1)
        ELSE SubSeq(text, i, Len(text))

\* The first block from a place on, and where it ends.
LEMMA ClosedIs ==
    ASSUME NEW text \in Seq(Pieces), NEW i \in 1..Len(text) + 1,
           NEW closed, closed = {j \in Client!Opens(text, i) : Client!Closes(text, j) # {}},
           closed # {}
    PROVE  LET p == Client!First(closed)
               q == Client!First(Client!Closes(text, p))
           IN  /\ p \in i..Len(text) /\ p + 1 <= Len(text) /\ text[p] = "o" /\ text[p + 1] = "k"
               /\ \A j \in i..p - 1 : j \notin Client!Opens(text, i)
               /\ q \in p + 2..Len(text) /\ q + 1 <= Len(text) /\ text[q] = "c" /\ text[q + 1] = "k"
               /\ \A j \in p + 2..q - 1 : ~(text[j] = "c" /\ text[j + 1] = "k")
               /\ q + 2 \in i + 1..Len(text) + 1
<1> DEFINE n == Len(text)
           p == Client!First(closed)
           T == Client!Closes(text, p)
           q == Client!First(T)
<1>1. n \in Nat BY LenProperties
<1>2. /\ \A j \in 1..n + 1 : Client!Opens(text, j) = {k \in j..n : k + 1 <= n /\ text[k] = "o" /\ text[k + 1] = "k"}
      /\ \A j \in 1..n + 1 : Client!Closes(text, j) = {k \in j + 2..n : k + 1 <= n /\ text[k] = "c" /\ text[k + 1] = "k"}
      BY PlacesTyped
<1>3. closed \in SUBSET Nat BY <1>1, <1>2
<1>4. p \in closed /\ \A j \in closed : p <= j BY <1>3, FirstIs
<1> HIDE DEF n, p
<1>5. p \in i..n /\ p + 1 <= n /\ text[p] = "o" /\ text[p + 1] = "k" /\ T # {}
      BY <1>2, <1>4 DEF n
<1>6. p \in 1..n + 1 /\ T \in SUBSET Nat /\ T = {k \in p + 2..n : k + 1 <= n /\ text[k] = "c" /\ text[k + 1] = "k"}
      BY <1>1, <1>2, <1>5 DEF n
<1> HIDE DEF T
<1>7. q \in T /\ \A j \in T : q <= j BY <1>5, <1>6, FirstIs
<1> HIDE DEF q
<1>8. q \in p + 2..n /\ q + 1 <= n /\ text[q] = "c" /\ text[q + 1] = "k" BY <1>6, <1>7
<1>9. \A j \in p + 2..q - 1 : ~(text[j] = "c" /\ text[j + 1] = "k")
      <2>1. SUFFICES ASSUME NEW j \in p + 2..q - 1, text[j] = "c" /\ text[j + 1] = "k" PROVE FALSE OBVIOUS
      <2>2. j \in p + 2..n /\ j + 1 <= n /\ j < q BY <1>1, <1>5, <1>8
      <2>3. j \in T BY <1>6, <2>1, <2>2
      <2>4. QED BY <1>1, <1>7, <1>8, <2>2, <2>3
<1>10. \A j \in i..p - 1 : j \notin Client!Opens(text, i)
       <2>1. SUFFICES ASSUME NEW j \in i..p - 1, j \in Client!Opens(text, i) PROVE FALSE OBVIOUS
       <2>2. j \in 1..n + 1 /\ j < p /\ j + 2 <= p + 2 BY <1>1, <1>5 DEF n
       <2>3. q \in Client!Closes(text, j)
             <3>1. q \in j + 2..n BY <1>1, <1>5, <1>8, <2>2
             <3>2. QED BY <1>2, <1>8, <2>2, <3>1 DEF n
       <2>4. j \in closed BY <2>1, <2>3
       <2>5. QED BY <1>1, <1>4, <1>5, <2>2, <2>4
<1>11. q + 2 \in i + 1..n + 1 BY <1>1, <1>5, <1>8 DEF n
<1>12. QED BY <1>5, <1>8, <1>9, <1>10, <1>11 DEF n, p, q, T

LEMMA ContentIs ==
    ASSUME NEW text \in Seq(Pieces)
    PROVE  \E c : Client!Content(text) = c[1] /\ \A i \in 1..Len(text) + 1 : c[i] = Block(text, c, i)
<1> DEFINE n == Len(text) + 1
           Closed(i) == {j \in Client!Opens(text, i) : Client!Closes(text, j) # {}}
           D == {i \in 1..n : Closed(i) # {}}
           J == [i \in D |-> Client!First(Client!Closes(text, Client!First(Closed(i)))) + 2]
           a == [i \in 1..n |->
                   IF Closed(i) # {} THEN SubSeq(text, i, Client!First(Closed(i)) - 1)
                   ELSE IF Client!Opens(text, i) # {}
                   THEN SubSeq(text, i, Client!First(Client!Opens(text, i)) - 1)
                   ELSE SubSeq(text, i, Len(text))]
           Kept(g) == g = [i \in 1..n |-> Block(text, g, i)]
<1>1. n \in Nat /\ Len(text) \in Nat BY LenProperties
<1>2. ASSUME NEW i \in D PROVE J[i] \in i + 1..n
      <2>1. i \in 1..Len(text) + 1 /\ Closed(i) # {} OBVIOUS
      <2> DEFINE closed == Closed(i)
      <2>2. closed = {j \in Client!Opens(text, i) : Client!Closes(text, j) # {}} OBVIOUS
      <2>3. J[i] = Client!First(Client!Closes(text, Client!First(closed))) + 2 OBVIOUS
      <2> HIDE DEF closed, J, D, Closed
      <2>4. closed # {} BY <2>1 DEF closed
      <2>5. Client!First(Client!Closes(text, Client!First(closed))) + 2 \in i + 1..Len(text) + 1
            BY <2>1, <2>2, <2>4, ClosedIs
      <2>6. QED BY <2>3, <2>5
<1>3. J \in [D -> Nat]
      <2>1. \A i \in D : J[i] \in Nat
            <3>1. TAKE i \in D
            <3>2. i \in 1..n /\ J[i] \in i + 1..n BY <1>2
            <3> HIDE DEF J, D
            <3>3. QED BY <1>1, <3>2
      <2>2. J = [i \in D |-> J[i]] OBVIOUS
      <2> HIDE DEF J, D
      <2>3. QED BY <2>1, <2>2
<1>4. PICK g : g = [i \in 1..n |-> IF i \in D THEN a[i] \o g[J[i]] ELSE a[i]]
      <2> HIDE DEF n, D, J, a
      <2>1. Beyond(J, D, n) BY <1>2, <1>3 DEF Beyond
      <2>2. \E g : JumpsOn(g, n, D, J, a) BY <1>1, <2>1, Jumping, Zenon
      <2>3. QED BY <2>2 DEF JumpsOn
<1>5. Kept(g)
      <2>1. ASSUME NEW i \in 1..n PROVE (IF i \in D THEN a[i] \o g[J[i]] ELSE a[i]) = Block(text, g, i)
            <3>1. CASE Closed(i) # {}
                  <4>1. i \in D /\ a[i] = SubSeq(text, i, Client!First(Closed(i)) - 1)
                        BY <3>1
                  <4>2. J[i] = Client!First(Client!Closes(text, Client!First(Closed(i)))) + 2 BY <4>1
                  <4>3. Block(text, g, i) = SubSeq(text, i, Client!First(Closed(i)) - 1)
                           \o g[Client!First(Client!Closes(text, Client!First(Closed(i)))) + 2]
                        BY <3>1, Zenon DEF Block
                  <4> HIDE DEF Closed, J, D, a
                  <4>4. QED BY <4>1, <4>2, <4>3, Zenon
            <3>2. CASE Closed(i) = {}
                  <4>1. i \notin D BY <3>2
                  <4>2. a[i] = Block(text, g, i) BY <3>2 DEF Block
                  <4> HIDE DEF Closed, J, D, a
                  <4>3. QED BY <4>1, <4>2, Zenon
            <3>3. QED BY <3>1, <3>2
      <2> HIDE DEF n, D, J, a
      <2>2. QED BY <1>4, <2>1
<1> DEFINE c == CHOOSE h : Kept(h)
<1>6. Kept(c) BY <1>5
<1>7. Client!Content(text) = c[1] BY Zenon DEF Client!Content, Block
<1> HIDE DEF c
<1>8. \A i \in 1..n : c[i] = Block(text, c, i) BY <1>6
<1>9. QED BY <1>7, <1>8

LEMMA ConcatTwice ==
    ASSUME NEW a \in Seq(Pieces), NEW b \in Seq(Pieces), NEW c \in Seq(Pieces)
    PROVE  a \o (b \o c) = (a \o b) \o c /\ a \o (b \o c) \in Seq(Pieces) /\ a \o b \in Seq(Pieces)
           /\ b \o c \in Seq(Pieces)
BY ConcatAssociative, ConcatProperties



\* The next tag from a place on that opens, and the next that closes.
OpenAt(text, i, p) ==
    p \in i..Len(text) /\ p + 1 \in 1..Len(text) /\ text[p] = "o" /\ text[p + 1] = "k" /\ Plain(text, i, p)
CloseAt(text, p, q) ==
    q \in p + 2..Len(text) /\ q + 1 \in 1..Len(text) /\ text[q] = "c" /\ text[q + 1] = "k"
    /\ Unclosed(text, p + 2, q)

LEMMA OpenRun ==
    ASSUME NEW text \in Seq(Pieces), NEW r, Reads(r, text), NEW i \in Nat, 1 <= i,
           NEW o \in Seq(Pieces), r[i - 1] = Fresh(o), NEW p, OpenAt(text, i, p)
    PROVE  r[p + 1] = Within(Cat(o, SubSeq(text, i, p - 1)))
<1>1. Len(text) \in Nat BY LenProperties
<1>2. p \in i..Len(text) /\ p + 1 \in 1..Len(text) /\ text[p] = "o" /\ text[p + 1] = "k" /\ Plain(text, i, p)
      BY DEF OpenAt
<1>3. i \in 1..Len(text) /\ (p + 1) - 1 = p BY <1>1, <1>2
<1> DEFINE w == Cat(o, SubSeq(text, i, p - 1))
<1>4. r[p] = Outside(text[p], w)
      BY <1>2, <1>3, OutsideRun, ZenonT(40)
<1>5. r[p + 1] = Client!Step(r[p], text[p + 1]) BY <1>2, <1>3 DEF Reads
<1> HIDE DEF w
<1>6. r[p + 1] = Client!Step(Outside("o", w), "k") BY <1>2, <1>4, <1>5
<1>7. Client!Step(Client!State(FALSE, <<"o">>, w), "k") = Client!State(TRUE, <<>>, w) BY OpenStep
<1>8. QED BY <1>6, <1>7 DEF w, Within, Outside

LEMMA CloseRun ==
    ASSUME NEW text \in Seq(Pieces), NEW r, Reads(r, text), NEW p \in Nat,
           NEW o \in Seq(Pieces), r[p + 1] = Within(o),
           NEW q, CloseAt(text, p, q)
    PROVE  r[q + 1] = Fresh(o)
<1>1. Len(text) \in Nat BY LenProperties
<1>2. /\ q \in p + 2..Len(text) /\ q + 1 \in 1..Len(text) /\ text[q] = "c" /\ text[q + 1] = "k"
      /\ Unclosed(text, p + 2, q)
      BY DEF CloseAt
<1>3. p + 2 \in 1..Len(text) /\ (p + 2) - 1 = p + 1 /\ (q + 1) - 1 = q BY <1>1, <1>2
<1>4. r[q] = Inside(text[q], o)
      <2>1. r[(p + 2) - 1] = Within(o) BY <1>3
      <2>2. QED BY <1>2, <1>3, <2>1, InsideRun, Zenon
<1>5. r[q + 1] = Client!Step(r[q], text[q + 1]) BY <1>2, <1>3 DEF Reads
<1>6. r[q + 1] = Client!Step(Inside("c", o), "k") BY <1>2, <1>4, <1>5
<1>7. Client!Step(Client!State(TRUE, <<"c">>, o), "k") = Client!State(FALSE, <<>>, o) BY CloseStep
<1>8. QED BY <1>6, <1>7 DEF Fresh, Inside

Seen(state) == IF state.inside THEN state.out ELSE state.out \o state.held

LEMMA CatTyped ==
    ASSUME NEW a \in Seq(Pieces), NEW b \in Seq(Pieces) PROVE Cat(a, b) \in Seq(Pieces)
BY ConcatProperties DEF Cat

LEMMA SeenOf ==
    ASSUME NEW o \in Seq(Pieces), NEW h
    PROVE  /\ Seen(Within(o)) = o /\ Seen(Inside(h, o)) = o /\ Seen(Fresh(o)) = o
           /\ Seen(Outside(h, o)) = Cat(o, <<h>>)
<1>1. o \o <<>> = o BY ConcatEmptySeq
<1>2. Seen(Within(o)) = o BY DEF Seen, Within, Client!State
<1>3. Seen(Inside(h, o)) = o BY DEF Seen, Inside, Client!State
<1>4. Seen(Fresh(o)) = o \o <<>> BY DEF Seen, Fresh, Client!State
<1>5. Seen(Outside(h, o)) = o \o <<h>> BY DEF Seen, Outside, Client!State
<1>6. QED BY <1>1, <1>2, <1>3, <1>4, <1>5 DEF Cat

\* What the reference has still to show where no tag is begun is what the expression finds.
Finds(c, r, text, i) ==
    /\ c[i] \in Seq(Pieces)
    /\ \A o \in Seq(Pieces) : r[i - 1] = Fresh(o) => Seen(r[Len(text)]) = Cat(o, c[i])

ClosedOf(text, i) == {j \in Client!Opens(text, i) : Client!Closes(text, j) # {}}

LEMMA PartTyped ==
    ASSUME NEW text \in Seq(Pieces), NEW i \in 1..Len(text) + 1, NEW p \in i..Len(text) + 1
    PROVE  SubSeq(text, i, p - 1) \in Seq(Pieces)
<1>1. Len(text) \in Nat /\ \A j \in 1..Len(text) : text[j] \in Pieces BY LenProperties, ElementOfSeq
<1>2. \A j \in i..p - 1 : text[j] \in Pieces BY <1>1
<1>3. i \in Int /\ p - 1 \in Int BY <1>1
<1>4. QED BY <1>1, <1>2, <1>3, SubSeqProperties

LEMMA ClosedShows ==
    ASSUME NEW text \in Seq(Pieces), NEW r, Reads(r, text), NEW c, NEW i \in 1..Len(text) + 1,
           c[i] = Block(text, c, i), ClosedOf(text, i) # {},
           \A j \in i + 1..Len(text) + 1 : Finds(c, r, text, j)
    PROVE  Finds(c, r, text, i)
<1> DEFINE p == Client!First(ClosedOf(text, i))
           q == Client!First(Client!Closes(text, p))
           b == SubSeq(text, i, p - 1)
           d == c[q + 2]
<1>1. Len(text) \in Nat BY LenProperties
<1>2. /\ p \in i..Len(text) /\ p + 1 <= Len(text) /\ text[p] = "o" /\ text[p + 1] = "k"
      /\ \A j \in i..p - 1 : j \notin Client!Opens(text, i)
      /\ q \in p + 2..Len(text) /\ q + 1 <= Len(text) /\ text[q] = "c" /\ text[q + 1] = "k"
      /\ \A j \in p + 2..q - 1 : ~(text[j] = "c" /\ text[j + 1] = "k")
      /\ q + 2 \in i + 1..Len(text) + 1
      <2> DEFINE closed == ClosedOf(text, i)
      <2>1. closed = {j \in Client!Opens(text, i) : Client!Closes(text, j) # {}} /\ closed # {}
            BY DEF ClosedOf
      <2> HIDE DEF closed
      <2>2. QED BY <2>1, ClosedIs DEF closed
<1>3. c[i] = Cat(b, d) BY DEF Block, ClosedOf, Cat
<1> HIDE DEF p, q, b, d
<1>4. OpenAt(text, i, p) /\ CloseAt(text, p, q) /\ p \in Nat /\ i \in Nat /\ 1 <= i
      /\ p \in i..Len(text) + 1 /\ (q + 2) - 1 = q + 1 /\ q + 2 \in i + 1..Len(text) + 1
      BY <1>1, <1>2 DEF OpenAt, CloseAt, Plain, Unclosed
<1>5. b \in Seq(Pieces) BY <1>4, PartTyped DEF b
<1>6. Finds(c, r, text, q + 2) BY <1>4
<1>7. d \in Seq(Pieces) BY <1>6 DEF Finds, d
<1>8. c[i] \in Seq(Pieces) BY <1>3, <1>5, <1>7, CatTyped
<1>9. ASSUME NEW o \in Seq(Pieces), r[i - 1] = Fresh(o) PROVE Seen(r[Len(text)]) = Cat(o, c[i])
      <2>1. r[p + 1] = Within(Cat(o, b)) BY <1>4, <1>9, OpenRun DEF b
      <2>2. Cat(o, b) \in Seq(Pieces) BY <1>5, CatTyped
      <2>3. r[q + 1] = Fresh(Cat(o, b)) BY <1>4, <2>1, <2>2, CloseRun
      <2>4. r[(q + 2) - 1] = Fresh(Cat(o, b)) BY <1>4, <2>3
      <2>5. Seen(r[Len(text)]) = Cat(Cat(o, b), d) BY <1>6, <2>2, <2>4, Zenon DEF Finds, d
      <2>6. QED BY <1>3, <1>5, <1>7, <2>5, CatTwice
<1>10. QED BY <1>8, <1>9 DEF Finds

LEMMA TailShows ==
    ASSUME NEW text \in Seq(Pieces), NEW r, Reads(r, text), NEW c, NEW i \in 1..Len(text) + 1,
           c[i] = Block(text, c, i), ClosedOf(text, i) = {}, Client!Opens(text, i) # {}
    PROVE  Finds(c, r, text, i)
<1> DEFINE T == Client!Opens(text, i)
           p == Client!First(T)
           b == SubSeq(text, i, p - 1)
<1>1. Len(text) \in Nat BY LenProperties
<1>2. T = {j \in i..Len(text) : j + 1 <= Len(text) /\ text[j] = "o" /\ text[j + 1] = "k"}
      BY PlacesTyped
<1>3. p \in T /\ \A j \in T : p <= j
      <2>1. T \in SUBSET Nat /\ T # {} BY <1>1, <1>2
      <2> HIDE DEF T
      <2>2. QED BY <2>1, FirstIs
<1>4. c[i] = b BY DEF Block, ClosedOf
<1>5. Client!Closes(text, p) = {} BY <1>3 DEF ClosedOf
<1> HIDE DEF p, b
<1>6. p \in i..Len(text) /\ p + 1 <= Len(text) /\ text[p] = "o" /\ text[p + 1] = "k"
      BY <1>2, <1>3
<1>7. Plain(text, i, p)
      <2>1. ASSUME NEW j \in i..p - 1, j \in T PROVE FALSE
            <3>1. ~(p <= j) BY <1>1, <1>6
            <3>2. QED BY <1>3, <2>1, <3>1
      <2>2. QED BY <2>1 DEF Plain
<1> HIDE DEF T
<1>8. OpenAt(text, i, p) /\ i \in Nat /\ 1 <= i /\ p \in i..Len(text) + 1 /\ p \in 1..Len(text) + 1
      BY <1>1, <1>6, <1>7 DEF OpenAt
<1>9. \A j \in p + 2..Len(text) - 1 : ~(text[j] = "c" /\ text[j + 1] = "k")
      <2>1. Client!Closes(text, p)
              = {j \in p + 2..Len(text) : j + 1 <= Len(text) /\ text[j] = "c" /\ text[j + 1] = "k"}
            BY <1>8, PlacesTyped
      <2>2. QED BY <1>1, <1>5, <2>1
<1>10. b \in Seq(Pieces) BY <1>8, PartTyped DEF b
<1>11. ASSUME NEW o \in Seq(Pieces), r[i - 1] = Fresh(o) PROVE Seen(r[Len(text)]) = Cat(o, b)
       <2>1. r[p + 1] = Within(Cat(o, b)) BY <1>8, <1>11, OpenRun DEF b
       <2>2. Cat(o, b) \in Seq(Pieces) BY <1>10, CatTyped
       <2>3. CASE p + 1 = Len(text)
             <3>1. r[Len(text)] = Within(Cat(o, b)) BY <2>1, <2>3
             <3>2. QED BY <2>2, <3>1, SeenOf
       <2>4. CASE p + 1 # Len(text)
             <3>1. p + 2 \in 1..Len(text) /\ Len(text) \in p + 2..Len(text) /\ (p + 2) - 1 = p + 1
                   BY <1>1, <1>6, <2>4
             <3>2. r[(p + 2) - 1] = Within(Cat(o, b)) BY <2>1, <3>1
             <3>3. Unclosed(text, p + 2, Len(text)) BY <1>9 DEF Unclosed
             <3>4. r[Len(text)] = Inside(text[Len(text)], Cat(o, b))
                   BY <2>2, <3>1, <3>2, <3>3, InsideRun
             <3>5. QED BY <2>2, <3>4, SeenOf
       <2>5. QED BY <2>3, <2>4
<1>12. QED BY <1>4, <1>10, <1>11 DEF Finds

LEMMA RestShows ==
    ASSUME NEW text \in Seq(Pieces), NEW r, Reads(r, text), NEW c, NEW i \in 1..Len(text) + 1,
           c[i] = Block(text, c, i), Client!Opens(text, i) = {}
    PROVE  Finds(c, r, text, i)
<1> DEFINE n == Len(text)
           b == SubSeq(text, i, n)
<1>1. n \in Nat BY LenProperties
<1>2. c[i] = b
      <2>1. ClosedOf(text, i) = {} BY DEF ClosedOf
      <2>2. QED BY <2>1 DEF Block, ClosedOf
<1>3. b \in Seq(Pieces)
      <2>1. n + 1 \in i..Len(text) + 1 /\ (n + 1) - 1 = n BY <1>1
      <2>2. SubSeq(text, i, (n + 1) - 1) \in Seq(Pieces) BY <2>1, PartTyped
      <2>3. QED BY <2>1, <2>2
<1>4. ASSUME NEW o \in Seq(Pieces), r[i - 1] = Fresh(o) PROVE Seen(r[n]) = Cat(o, b)
      <2>1. CASE i = n + 1
            <3>1. b = <<>> BY <1>1, <2>1, SubSeqEmpty
            <3>2. i - 1 = n BY <1>1, <2>1
            <3>3. Seen(r[n]) = o BY <1>4, <3>2, SeenOf
            <3>4. Cat(o, <<>>) = o BY ConcatEmptySeq DEF Cat
            <3>5. QED BY <3>1, <3>3, <3>4
      <2>2. CASE i # n + 1
            <3>1. i \in 1..Len(text) /\ n \in i..Len(text) /\ i \in Nat /\ n \in i..Len(text) + 1
                  BY <1>1, <2>2
            <3>2. Plain(text, i, n) BY DEF Plain
            <3> DEFINE u == SubSeq(text, i, n - 1)
                       w == <<text[n]>>
            <3>3. r[n] = Outside(text[n], Cat(o, u)) BY <1>4, <3>1, <3>2, OutsideRun, ZenonT(40)
            <3>4. u \in Seq(Pieces) BY <3>1, PartTyped
            <3>5. w \in Seq(Pieces)
                  <4>1. text[n] \in Pieces BY <1>1, <3>1, ElementOfSeq
                  <4>2. QED BY <4>1
            <3>6. b = Cat(u, w) BY <3>1, SubSeqRecursiveSecond DEF Cat
            <3> HIDE DEF u, b
            <3>7. Cat(o, u) \in Seq(Pieces) BY <3>4, CatTyped
            <3>8. Seen(r[n]) = Cat(Cat(o, u), w) BY <3>3, <3>7, SeenOf
            <3> HIDE DEF w
            <3>9. Cat(o, Cat(u, w)) = Cat(Cat(o, u), w) BY <3>4, <3>5, CatTwice
            <3>10. QED BY <3>6, <3>8, <3>9
      <2>3. QED BY <2>1, <2>2
<1>5. QED BY <1>2, <1>3, <1>4 DEF Finds

LEMMA FreshShows ==
    ASSUME NEW text \in Seq(Pieces), NEW r, Reads(r, text),
           NEW c, \A i \in 1..Len(text) + 1 : c[i] = Block(text, c, i)
    PROVE  \A i \in 1..Len(text) + 1 : Finds(c, r, text, i)
<1> DEFINE n == Len(text)
           P == {k \in Nat : \A i \in 1..n + 1 : n + 1 - k <= i => Finds(c, r, text, i)}
<1>1. n \in Nat BY LenProperties
<1>2. ASSUME NEW i \in 1..n + 1, \A j \in i + 1..n + 1 : Finds(c, r, text, j)
      PROVE  Finds(c, r, text, i)
      <2>1. c[i] = Block(text, c, i) OBVIOUS
      <2>2. CASE ClosedOf(text, i) # {} BY <1>2, <2>1, <2>2, ClosedShows, Zenon
      <2>3. CASE ClosedOf(text, i) = {} /\ Client!Opens(text, i) # {}
            BY <2>1, <2>3, TailShows, Zenon
      <2>4. CASE Client!Opens(text, i) = {} BY <2>1, <2>4, RestShows, Zenon
      <2>5. QED BY <2>2, <2>3, <2>4
<1>3. 0 \in P
      <2>1. ASSUME NEW i \in 1..n + 1, n + 1 - 0 <= i PROVE Finds(c, r, text, i)
            <3>1. \A j \in i + 1..n + 1 : Finds(c, r, text, j) BY <1>1, <2>1
            <3>2. QED BY <1>2, <3>1
      <2>2. QED BY <2>1
<1>4. ASSUME NEW k \in P PROVE k + 1 \in P
      <2>1. ASSUME NEW i \in 1..n + 1, n + 1 - (k + 1) <= i PROVE Finds(c, r, text, i)
            <3>1. \A j \in i + 1..n + 1 : Finds(c, r, text, j) BY <1>1, <2>1
            <3>2. QED BY <1>2, <3>1
      <2>2. k + 1 \in Nat OBVIOUS
      <2>3. QED BY <2>1, <2>2
<1>5. P = Nat
      <2>1. P \in SUBSET Nat OBVIOUS
      <2> HIDE DEF P
      <2>2. QED BY <1>3, <1>4, <2>1, Naturally
<1>6. n + 1 \in P /\ n + 1 - (n + 1) = 0 BY <1>1, <1>5
<1>7. \A i \in 1..n + 1 : n + 1 - (n + 1) <= i => Finds(c, r, text, i) BY <1>6
<1>8. \A i \in 1..n + 1 : n + 1 - (n + 1) <= i BY <1>1
<1>9. QED BY <1>7, <1>8

\* The regular expression and the reference show the same of every text.
LEMMA ContentVisible ==
    ASSUME NEW text \in Seq(Pieces)
    PROVE  Client!Content(text) = Client!Visible(text) /\ Client!Visible(text) \in Seq(Pieces)
<1>1. PICK c : Client!Content(text) = c[1] /\ \A i \in 1..Len(text) + 1 : c[i] = Block(text, c, i)
      BY ContentIs
<1>2. PICK r : Reads(r, text) /\ Client!Visible(text) = Seen(r[Len(text)])
      BY VisibleIs DEF Seen
<1>3. Len(text) \in Nat /\ <<>> \in Seq(Pieces) BY LenProperties, EmptySeq
<1>4. 1 \in 1..Len(text) + 1 /\ 1 - 1 = 0 BY <1>3
<1>5. Finds(c, r, text, 1) BY <1>1, <1>2, <1>4, FreshShows, Zenon
<1>6. r[1 - 1] = Fresh(<<>>) BY <1>2, <1>4 DEF Reads
<1>7. c[1] \in Seq(Pieces) /\ Client!Visible(text) = Cat(<<>>, c[1])
      BY <1>2, <1>3, <1>5, <1>6, Zenon DEF Finds
<1>8. Cat(<<>>, c[1]) = c[1] BY <1>7, ConcatEmptySeq DEF Cat
<1>9. QED BY <1>1, <1>7, <1>8, Zenon

(***************************************************************************)
(* ClientStream: what was read of the frames that were heard.              *)
(***************************************************************************)
StreamBounds == MaxFrames \in Nat /\ MaxLines \in Nat

Heeded(whole) ==
    LET dones == {i \in DOMAIN whole : whole[i].kind = "done"}
    IN  IF dones = {} THEN whole ELSE SubSeq(whole, 1, Client!First(dones))
TextsOf(frames) == [i \in DOMAIN frames |-> frames[i].text]
HasKind(frames, k) == \E i \in DOMAIN frames : frames[i].kind = k
Tagged(text) == Client!Opens(text, 1) # {}
ImagesIn(frames) == Len(Among(frames, {Client!Frame("image")}))

ReaderShape == [raw : Seq(Pieces), think : BOOLEAN, images : Nat, error : BOOLEAN, done : BOOLEAN]
ReadShape == [reader : ReaderShape, shown : Seq(Pieces)]

\* What is read of some whole lines.
Caught(whole, s) ==
    LET heard == Heeded(whole)
    IN  /\ s.reader.raw = Client!AllText(heard)
        /\ s.reader.think <=> Tagged(s.reader.raw)
        /\ s.shown = Client!Visible(s.reader.raw)
        /\ s.reader.done <=> HasKind(whole, "done")
        /\ s.reader.error <=> HasKind(heard, "error")
        /\ s.reader.images = ImagesIn(heard)

LEMMA SameCollections ==
    ASSUME NEW s, NEW S PROVE Client!Joined(s) = Joined(s) /\ Client!Among(s, S) = Among(s, S)
BY DEF Client!Joined, Joined, Client!Among, Among

LEMMA AllTextIs == ASSUME NEW w PROVE Client!AllText(w) = Joined(TextsOf(w))
BY Zenon DEF Client!AllText, TextsOf, Client!Joined, Joined

LEMMA FrameIs ==
    ASSUME NEW f \in Client!Frames
    PROVE  /\ f.text \in Seq(Pieces)
           /\ f.kind \in {"token", "thought", "image", "error", "done"}
           /\ f.kind # "token" => f.text = <<>>
           /\ f \in {Client!Frame("image")} <=> f.kind = "image"
<1>1. Client!Texts \subseteq Seq(Pieces)
      <2>1. /\ <<"o", "k">> \in Seq(Pieces) /\ <<"c", "k">> \in Seq(Pieces) /\ <<"x">> \in Seq(Pieces)
            /\ <<"o">> \in Seq(Pieces) /\ <<"k">> \in Seq(Pieces) /\ <<"c">> \in Seq(Pieces)
            BY DEF Pieces
      <2>2. <<"x">> \o <<"o">> \in Seq(Pieces) BY <2>1, ConcatProperties
      <2>3. QED BY <2>1, <2>2 DEF Client!Texts, Client!Text, Client!Open, Client!Close
<1>2. CASE \E t \in Client!Texts : f = Client!Token(t)
      <2>1. PICK t \in Client!Texts : f = Client!Token(t) BY <1>2
      <2>2. f.kind = "token" /\ f.text = t BY <2>1 DEF Client!Token
      <2>3. Client!Frame("image").kind = "image" BY DEF Client!Frame
      <2>4. QED BY <1>1, <2>2, <2>3
<1>3. CASE \E k \in {"thought", "image", "error", "done"} : f = Client!Frame(k)
      <2>1. PICK k \in {"thought", "image", "error", "done"} : f = Client!Frame(k) BY <1>3
      <2>2. f.kind = k /\ f.text = <<>> BY <2>1 DEF Client!Frame
      <2>3. Client!Frame("image").kind = "image" BY DEF Client!Frame
      <2>4. <<>> \in Seq(Pieces) BY EmptySeq
      <2>5. f = Client!Frame("image") <=> k = "image" BY <2>1, <2>2, <2>3
      <2>6. QED BY <2>2, <2>4, <2>5
<1>4. QED BY <1>2, <1>3 DEF Client!Frames


LEMMA TextMore ==
    ASSUME NEW w \in Seq(Client!Frames), NEW f \in Client!Frames
    PROVE  /\ Client!AllText(w) \in Seq(Pieces)
           /\ Client!AllText(Append(w, f)) = Cat(Client!AllText(w), f.text)
<1> DEFINE B == Seq(Pieces)
           ss == TextsOf(w)
           t == f.text
<1>1. Joinable(B) BY SequencesJoin
<1>2. /\ Append(w, f) \in Seq(Client!Frames) /\ Len(Append(w, f)) = Len(w) + 1 /\ Len(w) \in Nat
      /\ Append(w, f)[Len(w) + 1] = f /\ \A i \in 1..Len(w) : Append(w, f)[i] = w[i]
      /\ DOMAIN w = 1..Len(w) /\ DOMAIN Append(w, f) = 1..Len(w) + 1
      BY AppendProperties, LenProperties
<1>3. \A i \in 1..Len(w) : w[i].text \in B BY ElementOfSeq, FrameIs
<1>4. t \in B BY FrameIs
<1> HIDE DEF B, t
<1>5. ss \in Seq(B) /\ Len(ss) = Len(w) /\ \A i \in 1..Len(w) : ss[i] = w[i].text
      <2>1. ss = [i \in 1..Len(w) |-> w[i].text] BY <1>2 DEF TextsOf
      <2>2. QED BY <1>2, <1>3, <2>1
<1>6. TextsOf(Append(w, f)) = Append(ss, t)
      <2> DEFINE u == TextsOf(Append(w, f))
                 v == Append(ss, t)
                 n == Len(w)
      <2>1. u = [i \in 1..n + 1 |-> Append(w, f)[i].text] BY <1>2 DEF TextsOf
      <2>2. \A i \in 1..n + 1 : u[i] = IF i = n + 1 THEN t ELSE ss[i]
            <3>1. TAKE i \in 1..n + 1
            <3>2. i # n + 1 => i \in 1..n BY <1>2
            <3>3. Append(w, f)[i] = IF i = n + 1 THEN f ELSE w[i] BY <1>2, <3>2
            <3>4. u[i] = Append(w, f)[i].text BY <2>1
            <3> HIDE DEF u, ss
            <3>5. CASE i = n + 1 BY <3>3, <3>4, <3>5 DEF t
            <3>6. CASE i # n + 1 BY <1>5, <3>2, <3>3, <3>4, <3>6
            <3>7. QED BY <3>5, <3>6
      <2>3. u \in Seq(B) /\ Len(u) = n + 1
            <3>1. \A i \in 1..n + 1 : u[i] \in B
                  <4>1. TAKE i \in 1..n + 1
                  <4>2. i # n + 1 => i \in 1..n BY <1>2
                  <4>3. \A j \in 1..n : ss[j] \in B BY <1>3, <1>5
                  <4> HIDE DEF u, ss
                  <4>4. QED BY <1>4, <2>2, <4>2, <4>3
            <3>2. u = [i \in 1..n + 1 |-> u[i]] BY <2>1
            <3> HIDE DEF u, ss
            <3>3. QED BY <1>2, <3>1, <3>2
      <2>4. v \in Seq(B) /\ Len(v) = n + 1 /\ v[n + 1] = t /\ \A i \in 1..n : v[i] = ss[i]
            <3> HIDE DEF ss
            <3>1. QED BY <1>4, <1>5, AppendProperties
      <2> HIDE DEF u, v, ss, n
      <2>5. n \in Nat BY <1>2 DEF n
      <2>6. \A i \in 1..Len(u) : u[i] = v[i]
            <3>1. TAKE i \in 1..Len(u)
            <3>2. i \in 1..n + 1 /\ (i # n + 1 => i \in 1..n) BY <2>3, <2>5
            <3>3. QED BY <2>2, <2>4, <3>2
      <2>7. QED BY <2>3, <2>4, <2>6, SeqEqual DEF u, v
<1> HIDE DEF ss
<1>7. Joined(Append(ss, t)) = Cat(Joined(ss), t) BY <1>1, <1>4, <1>5, JoinedAppend
<1>8. Joined(ss) \in B BY <1>1, <1>5, JoinedType
<1>9. Client!AllText(w) = Joined(ss) /\ Client!AllText(Append(w, f)) = Joined(TextsOf(Append(w, f)))
      BY AllTextIs DEF ss
<1>10. QED BY <1>6, <1>7, <1>8, <1>9 DEF B, t

LEMMA TextNone == Client!AllText(<<>>) = <<>>
<1>1. TextsOf(<<>>) = <<>> BY DEF TextsOf
<1>2. QED BY <1>1, JoinedEmpty, AllTextIs, Zenon

\* A text without a tag is shown as it is, and more text takes no tag away.
LEMMA Untagged ==
    ASSUME NEW text \in Seq(Pieces), ~Tagged(text) PROVE Client!Visible(text) = text
<1>1. PICK c : Client!Content(text) = c[1] /\ \A i \in 1..Len(text) + 1 : c[i] = Block(text, c, i)
      BY ContentIs
<1>2. Len(text) \in Nat BY LenProperties
<1>3. c[1] = Block(text, c, 1) BY <1>1, <1>2
<1>4. Client!Opens(text, 1) = {} BY DEF Tagged
<1>5. Block(text, c, 1) = SubSeq(text, 1, Len(text)) BY <1>4 DEF Block
<1>6. SubSeq(text, 1, Len(text)) = text BY <1>2, SubSeqFull
<1>7. QED BY <1>1, <1>3, <1>5, <1>6, ContentVisible

LEMMA TagsStay ==
    ASSUME NEW a \in Seq(Pieces), NEW b \in Seq(Pieces), Tagged(a) PROVE Tagged(Cat(a, b))
<1> DEFINE t == a \o b
<1>1. /\ t \in Seq(Pieces) /\ Len(t) = Len(a) + Len(b) /\ Len(a) \in Nat /\ Len(b) \in Nat
      /\ \A i \in 1..Len(a) : t[i] = a[i]
      BY ConcatProperties, LenProperties
<1> HIDE DEF t
<1>2. /\ Client!Opens(a, 1) = {j \in 1..Len(a) : j + 1 <= Len(a) /\ a[j] = "o" /\ a[j + 1] = "k"}
      /\ Client!Opens(t, 1) = {j \in 1..Len(t) : j + 1 <= Len(t) /\ t[j] = "o" /\ t[j + 1] = "k"}
      <2>1. 1 \in 1..Len(a) + 1 /\ 1 \in 1..Len(t) + 1 BY <1>1
      <2>2. QED BY <1>1, <2>1, PlacesTyped
<1>3. PICK j \in Client!Opens(a, 1) : TRUE BY DEF Tagged
<1>4. j \in 1..Len(a) /\ j + 1 \in 1..Len(a) /\ a[j] = "o" /\ a[j + 1] = "k" BY <1>1, <1>2, <1>3
<1>5. j \in 1..Len(t) /\ j + 1 <= Len(t) /\ t[j] = "o" /\ t[j + 1] = "k" BY <1>1, <1>4
<1>6. QED BY <1>2, <1>5 DEF Tagged, t, Cat

LEMMA KindMore ==
    ASSUME NEW w \in Seq(Client!Frames), NEW f \in Client!Frames, NEW k
    PROVE  HasKind(Append(w, f), k) <=> HasKind(w, k) \/ f.kind = k
<1>1. /\ Len(w) \in Nat /\ DOMAIN w = 1..Len(w) /\ DOMAIN Append(w, f) = 1..Len(w) + 1
      /\ Append(w, f)[Len(w) + 1] = f /\ \A i \in 1..Len(w) : Append(w, f)[i] = w[i]
      BY AppendProperties, LenProperties
<1> DEFINE v == Append(w, f)
           n == Len(w)
<1>2. \A i \in 1..n + 1 : i = n + 1 \/ i \in 1..n BY <1>1
<1>3. n + 1 \in 1..n + 1 /\ \A i \in 1..n : i \in 1..n + 1 BY <1>1
<1> HIDE DEF v, n
<1>4. DOMAIN w = 1..n /\ DOMAIN v = 1..n + 1 /\ v[n + 1] = f /\ \A i \in 1..n : v[i] = w[i]
      BY <1>1 DEF v, n
<1>5. HasKind(v, k) <=> HasKind(w, k) \/ f.kind = k BY <1>2, <1>3, <1>4 DEF HasKind
<1>6. QED BY <1>5 DEF v

LEMMA HeededNew ==
    ASSUME NEW w \in Seq(Client!Frames), NEW f \in Client!Frames, ~HasKind(w, "done")
    PROVE  Heeded(w) = w /\ Heeded(Append(w, f)) = Append(w, f)
<1>1. Heeded(w) = w BY DEF Heeded, HasKind
<1> DEFINE v == Append(w, f)
           n == Len(w)
<1>2. /\ v \in Seq(Client!Frames) /\ n \in Nat /\ DOMAIN v = 1..n + 1 /\ Len(v) = n + 1
      /\ v[n + 1] = f /\ \A i \in 1..n : v[i] = w[i] /\ i \in DOMAIN w
      BY AppendProperties, LenProperties
<1> HIDE DEF v, n
<1> DEFINE dones == {i \in DOMAIN v : v[i].kind = "done"}
<1>3. dones \subseteq {n + 1}
      <2>1. \A i \in 1..n + 1 : i = n + 1 \/ i \in 1..n BY <1>2
      <2>2. \A i \in 1..n : v[i].kind # "done" BY <1>2 DEF HasKind
      <2>3. QED BY <1>2, <2>1, <2>2
<1>4. CASE dones = {} BY <1>1, <1>4 DEF Heeded, v
<1>5. CASE dones = {n + 1}
      <2>1. dones \in SUBSET Nat /\ dones # {} BY <1>2, <1>5
      <2>2. Client!First(dones) = n + 1
            <3> HIDE DEF dones
            <3>1. Client!First(dones) \in dones BY <2>1, FirstIs
            <3>2. QED BY <1>5, <3>1
      <2>3. Heeded(v) = SubSeq(v, 1, n + 1) BY <1>5, <2>2 DEF Heeded
      <2>4. SubSeq(v, 1, n + 1) = v BY <1>2, SubSeqFull
      <2>5. QED BY <1>1, <2>3, <2>4 DEF v
<1>6. QED BY <1>3, <1>4, <1>5

LEMMA HeededOld ==
    ASSUME NEW w \in Seq(Client!Frames), NEW f \in Client!Frames, HasKind(w, "done")
    PROVE  Heeded(Append(w, f)) = Heeded(w)
<1> DEFINE v == Append(w, f)
           n == Len(w)
           S == {i \in DOMAIN w : w[i].kind = "done"}
           T == {i \in DOMAIN v : v[i].kind = "done"}
<1>1. /\ v \in Seq(Client!Frames) /\ n \in Nat /\ DOMAIN v = 1..n + 1 /\ Len(v) = n + 1
      /\ DOMAIN w = 1..n /\ \A i \in 1..n : v[i] = w[i]
      BY AppendProperties, LenProperties
<1>2. S # {} BY DEF HasKind
<1> HIDE DEF v, n
<1>3. \A i \in 1..n + 1 : i = n + 1 \/ i \in 1..n BY <1>1
<1>4. S \in SUBSET Nat /\ T \in SUBSET Nat /\ S \subseteq T /\ T \subseteq S \cup {n + 1}
      /\ \A i \in S : i <= n /\ i \in 1..n
      BY <1>1, <1>3
<1> DEFINE p == Client!First(S)
           q == Client!First(T)
<1> HIDE DEF S, T
<1>5. p \in S /\ \A j \in S : p <= j BY <1>2, <1>4, FirstIs
<1>6. q \in T /\ \A j \in T : q <= j BY <1>2, <1>4, FirstIs
<1> HIDE DEF p, q
<1>7. p = q
      <2>1. q <= p /\ p <= n BY <1>4, <1>5, <1>6
      <2>2. p \in Nat /\ q \in Nat BY <1>4, <1>5, <1>6
      <2>3. q \in S BY <1>1, <1>4, <1>6, <2>1, <2>2
      <2>4. QED BY <1>5, <2>1, <2>2, <2>3
<1>8. Heeded(w) = SubSeq(w, 1, p) BY <1>2 DEF Heeded, S, p
<1>9. Heeded(v) = SubSeq(v, 1, q)
      <2>1. T # {} BY <1>2, <1>4
      <2>2. QED BY <2>1 DEF Heeded, T, q
<1>10. SubSeq(v, 1, p) = SubSeq(w, 1, p)
       <2>1. p \in 1..n BY <1>4, <1>5
       <2>2. v = w \o <<f>> BY AppendIsConcat DEF v
       <2>3. <<f>> \in Seq(Client!Frames) OBVIOUS
       <2> DEFINE u == <<f>>
       <2>4. v = w \o u /\ u \in Seq(Client!Frames) /\ p \in 1..Len(w) /\ 1 \in 1..Len(w)
             BY <1>1, <2>1, <2>2, <2>3 DEF n
       <2> HIDE DEF u, v
       <2>5. SubSeq(w \o u, 1, p) = SubSeq(w, 1, p) BY <2>4, SubSeqOfConcat1
       <2>6. QED BY <2>4, <2>5
<1>11. QED BY <1>7, <1>8, <1>9, <1>10 DEF v

LEMMA HeededTyped ==
    ASSUME NEW w \in Seq(Client!Frames) PROVE Heeded(w) \in Seq(Client!Frames)
<1> DEFINE S == {i \in DOMAIN w : w[i].kind = "done"}
<1>1. Len(w) \in Nat /\ DOMAIN w = 1..Len(w) /\ \A i \in 1..Len(w) : w[i] \in Client!Frames
      BY LenProperties, ElementOfSeq
<1>2. CASE S = {} BY <1>2 DEF Heeded
<1>3. CASE S # {}
      <2>1. S \in SUBSET Nat BY <1>1
      <2> DEFINE p == Client!First(S)
      <2>2. p \in S
            <3> HIDE DEF S
            <3>1. QED BY <1>3, <2>1, FirstIs
      <2> HIDE DEF p
      <2>3. p \in 1..Len(w) BY <1>1, <2>2
      <2>4. SubSeq(w, 1, p) \in Seq(Client!Frames)
            <3>1. 1 \in Int /\ p \in Int /\ \A i \in 1..p : w[i] \in Client!Frames BY <1>1, <2>3
            <3>2. QED BY <3>1, SubSeqProperties
      <2>5. QED BY <1>3, <2>4 DEF Heeded, p
<1>4. QED BY <1>2, <1>3

LEMMA OrTrue == ASSUME NEW a \in BOOLEAN, NEW b, ~b PROVE (a \/ b) = a
<1>1. CASE a = TRUE BY <1>1
<1>2. CASE a = FALSE BY <1>2
<1>3. QED BY <1>1, <1>2

\* What a frame adds to what was read.
RawAfter(r, f) == Cat(r.raw, f.text)
ThinkAfter(r, f) == r.think \/ (f.kind = "token" /\ Tagged(RawAfter(r, f)))
ImagesAfter(r, f) == IF f.kind = "image" THEN r.images + 1 ELSE r.images
ErrorAfter(r, f) == r.error \/ f.kind = "error"
DoneAfter(r, f) == r.done \/ f.kind = "done"
Record(a, b, c, d, e) == [raw |-> a, think |-> b, images |-> c, error |-> d, done |-> e]

LEMMA ReadIs ==
    ASSUME NEW r \in ReaderShape, NEW f \in Client!Frames
    PROVE  Client!Read(r, f) = Record(RawAfter(r, f), ThinkAfter(r, f), ImagesAfter(r, f),
                                      ErrorAfter(r, f), DoneAfter(r, f))
<1> DEFINE t == Client!Read(r, f)
           w == RawAfter(r, f)
           th == ThinkAfter(r, f)
           im == ImagesAfter(r, f)
           er == ErrorAfter(r, f)
           dn == DoneAfter(r, f)
<1>1. /\ r.raw \in Seq(Pieces) /\ r.think \in BOOLEAN /\ r.images \in Nat
      /\ r.error \in BOOLEAN /\ r.done \in BOOLEAN
      /\ r = Record(r.raw, r.think, r.images, r.error, r.done)
      BY DEF ReaderShape, Record
<1>2. /\ f.kind \in {"token", "thought", "image", "error", "done"}
      /\ f.kind # "token" => f.text = <<>>
      BY FrameIs
<1>3. f.kind # "token" => w = r.raw BY <1>1, <1>2, ConcatEmptySeq DEF Cat, RawAfter
<1>4. f.kind # "image" => im = r.images BY DEF ImagesAfter
<1>5. f.kind # "error" => er = r.error BY <1>1, OrTrue DEF ErrorAfter
<1>6. f.kind # "done" => dn = r.done BY <1>1, OrTrue DEF DoneAfter
<1>7. f.kind # "token" => th = r.think BY <1>1, OrTrue DEF ThinkAfter
<1>8. CASE f.kind = "token"
      <2>1. t = [r EXCEPT !.raw = r.raw \o f.text, !.think = r.think \/ Client!Opens(r.raw \o f.text, 1) # {}]
            BY <1>8, Zenon DEF Client!Read
      <2> DEFINE x == r.think \/ Client!Opens(r.raw \o f.text, 1) # {}
                 y == r.raw \o f.text
      <2>2. t = [r EXCEPT !.raw = y, !.think = x] BY <2>1
      <2>3. th = x
            <3>1. (f.kind = "token" /\ Tagged(w)) = (Client!Opens(r.raw \o f.text, 1) # {})
                  BY <1>8 DEF Tagged, Cat, RawAfter
            <3>2. QED BY <3>1, Zenon DEF ThinkAfter
      <2>4. w = y BY DEF Cat, RawAfter
      <2> HIDE DEF t, x, y, w, th, im, er, dn
      <2>5. t = Record(y, x, r.images, r.error, r.done) BY <1>1, <2>2, Zenon DEF Record
      <2>6. t = Record(w, th, im, er, dn) BY <1>4, <1>5, <1>6, <1>8, <2>3, <2>4, <2>5
      <2>7. QED BY <2>6 DEF t, w, th, im, er, dn
<1>9. CASE f.kind = "thought"
      <2>1. t = r BY <1>9 DEF Client!Read
      <2> HIDE DEF t, w, th, im, er, dn
      <2>2. t = Record(w, th, im, er, dn) BY <1>1, <1>3, <1>4, <1>5, <1>6, <1>7, <1>9, <2>1
      <2>3. QED BY <2>2 DEF t, w, th, im, er, dn
<1>10. CASE f.kind = "image"
      <2>1. t = [r EXCEPT !.images = r.images + 1] BY <1>10 DEF Client!Read
      <2>2. im = r.images + 1 BY <1>10 DEF ImagesAfter
      <2> HIDE DEF t, w, th, im, er, dn
      <2>3. t = Record(r.raw, r.think, im, r.error, r.done) BY <1>1, <2>1, <2>2, Zenon DEF Record
      <2>4. t = Record(w, th, im, er, dn) BY <1>3, <1>5, <1>6, <1>7, <1>10, <2>3
      <2>5. QED BY <2>4 DEF t, w, th, im, er, dn
<1>11. CASE f.kind = "error"
      <2>1. t = [r EXCEPT !.error = TRUE] BY <1>11 DEF Client!Read
      <2>2. er = TRUE BY <1>11 DEF ErrorAfter
      <2> HIDE DEF t, w, th, im, er, dn
      <2>3. t = Record(r.raw, r.think, r.images, er, r.done) BY <1>1, <2>1, <2>2, Zenon DEF Record
      <2>4. t = Record(w, th, im, er, dn) BY <1>3, <1>4, <1>6, <1>7, <1>11, <2>3
      <2>5. QED BY <2>4 DEF t, w, th, im, er, dn
<1>12. CASE f.kind = "done"
      <2>1. t = [r EXCEPT !.done = TRUE] BY <1>12 DEF Client!Read
      <2>2. dn = TRUE BY <1>12 DEF DoneAfter
      <2> HIDE DEF t, w, th, im, er, dn
      <2>3. t = Record(r.raw, r.think, r.images, r.error, dn) BY <1>1, <2>1, <2>2, Zenon DEF Record
      <2>4. t = Record(w, th, im, er, dn) BY <1>3, <1>4, <1>5, <1>7, <1>12, <2>3
      <2>5. QED BY <2>4 DEF t, w, th, im, er, dn
<1>13. QED BY <1>2, <1>8, <1>9, <1>10, <1>11, <1>12

LEMMA RecordParts ==
    ASSUME NEW a, NEW b, NEW c, NEW d, NEW e
    PROVE  /\ Record(a, b, c, d, e).raw = a /\ Record(a, b, c, d, e).think = b
           /\ Record(a, b, c, d, e).images = c
           /\ Record(a, b, c, d, e).error = d /\ Record(a, b, c, d, e).done = e
BY DEF Record

LEMMA RecordTyped ==
    ASSUME NEW a \in Seq(Pieces), NEW b \in BOOLEAN, NEW c \in Nat, NEW d \in BOOLEAN, NEW e \in BOOLEAN
    PROVE  Record(a, b, c, d, e) \in ReaderShape
BY DEF Record, ReaderShape

LEMMA ReadTyped ==
    ASSUME NEW r \in ReaderShape, NEW f \in Client!Frames
    PROVE  Client!Read(r, f) \in ReaderShape
<1>1. r.raw \in Seq(Pieces) /\ f.text \in Seq(Pieces) BY FrameIs DEF ReaderShape
<1>2. RawAfter(r, f) \in Seq(Pieces) BY <1>1, CatTyped DEF RawAfter
<1>3. ThinkAfter(r, f) \in BOOLEAN BY DEF ThinkAfter
<1>4. ErrorAfter(r, f) \in BOOLEAN /\ DoneAfter(r, f) \in BOOLEAN BY DEF ErrorAfter, DoneAfter
<1>5. ImagesAfter(r, f) \in Nat BY DEF ImagesAfter, ReaderShape
<1>6. Record(RawAfter(r, f), ThinkAfter(r, f), ImagesAfter(r, f), ErrorAfter(r, f), DoneAfter(r, f))
        \in ReaderShape
      BY <1>2, <1>3, <1>4, <1>5, RecordTyped, Zenon
<1>7. QED BY <1>6, ReadIs

\* What a line makes of what was read: nothing after [DONE].
LEMMA LineIs ==
    ASSUME NEW s \in ReadShape, NEW f \in Client!Frames
    PROVE  /\ s.reader.done => Client!Line(s, f) = s
           /\ ~s.reader.done =>
                 /\ Client!Line(s, f).reader = Client!Read(s.reader, f)
                 /\ Client!Line(s, f).shown = Client!Handled(Client!Read(s.reader, f), s.shown, f)
                 /\ Client!Line(s, f) = [reader |-> Client!Read(s.reader, f),
                                         shown |-> Client!Handled(Client!Read(s.reader, f), s.shown, f)]
<1> DEFINE r == Client!Read(s.reader, f)
           h == Client!Handled(r, s.shown, f)
<1>1. s.reader.done => Client!Line(s, f) = s BY DEF Client!Line
<1>2. ~s.reader.done => Client!Line(s, f) = [reader |-> r, shown |-> h] BY DEF Client!Line
<1> HIDE DEF r, h
<1>3. QED BY <1>1, <1>2 DEF r, h

LEMMA LineTyped ==
    ASSUME NEW s \in ReadShape, NEW f \in Client!Frames PROVE Client!Line(s, f) \in ReadShape
<1> DEFINE r == Client!Read(s.reader, f)
           h == Client!Handled(r, s.shown, f)
<1>1. s.reader \in ReaderShape /\ s.shown \in Seq(Pieces) BY DEF ReadShape
<1>2. r \in ReaderShape BY <1>1, ReadTyped
<1>3. r.raw \in Seq(Pieces) /\ f.text \in Seq(Pieces) BY <1>2, FrameIs DEF ReaderShape
<1>4. h \in Seq(Pieces)
      <2>1. Client!Content(r.raw) \in Seq(Pieces) BY <1>3, ContentVisible
      <2>2. s.shown \o f.text \in Seq(Pieces) BY <1>1, <1>3, ConcatProperties
      <2> HIDE DEF r
      <2>3. QED BY <1>1, <2>1, <2>2, Zenon DEF Client!Handled
<1>5. [reader |-> r, shown |-> h] \in ReadShape
      <2> HIDE DEF r, h
      <2>1. QED BY <1>2, <1>4 DEF ReadShape
<1>6. CASE s.reader.done BY <1>6, LineIs
<1>7. CASE ~s.reader.done BY <1>5, <1>7, LineIs
<1>8. QED BY <1>6, <1>7

\* A line more is caught as it was.
LEMMA LineCaught ==
    ASSUME NEW w \in Seq(Client!Frames), NEW s \in ReadShape, Caught(w, s), NEW f \in Client!Frames
    PROVE  Caught(Append(w, f), Client!Line(s, f))
<1> DEFINE v == Append(w, f)
           t == Client!Line(s, f)
           r == Client!Read(s.reader, f)
           raw == Client!AllText(w)
<1>1. s.reader \in ReaderShape /\ s.shown \in Seq(Pieces) BY DEF ReadShape
<1>2. CASE s.reader.done
      <2>1. t = s BY <1>2, LineIs
      <2>2. HasKind(w, "done") BY <1>2 DEF Caught
      <2>3. Heeded(v) = Heeded(w) BY <2>2, HeededOld
      <2>4. HasKind(v, "done") BY <2>2, KindMore
      <2> HIDE DEF t, v
      <2>5. Caught(v, s) BY <1>2, <2>3, <2>4, Zenon DEF Caught
      <2>6. QED BY <2>1, <2>5 DEF t, v
<1>3. CASE ~s.reader.done
      <2>1. ~HasKind(w, "done") BY <1>3 DEF Caught
      <2>2. Heeded(w) = w /\ Heeded(v) = v BY <2>1, HeededNew
      <2>3. /\ s.reader.raw = raw /\ (s.reader.think <=> Tagged(raw)) /\ s.shown = Client!Visible(raw)
            /\ (s.reader.error <=> HasKind(w, "error")) /\ s.reader.images = ImagesIn(w)
            BY <2>2 DEF Caught
      <2>4. t.reader = r /\ t.shown = Client!Handled(r, s.shown, f) BY <1>3, LineIs
      <2>5. /\ r.raw = RawAfter(s.reader, f) /\ r.think = ThinkAfter(s.reader, f)
            /\ r.images = ImagesAfter(s.reader, f) /\ r.error = ErrorAfter(s.reader, f)
            /\ r.done = DoneAfter(s.reader, f)
            BY <1>1, ReadIs, RecordParts
      <2>6. raw \in Seq(Pieces) /\ Client!AllText(v) = Cat(raw, f.text) BY TextMore
      <2>7. f.text \in Seq(Pieces) /\ (f.kind # "token" => f.text = <<>>) BY FrameIs
      <2> DEFINE more == Cat(raw, f.text)
      <2> HIDE DEF t, v, r, raw
      <2>8. r.raw = more /\ more \in Seq(Pieces) BY <2>3, <2>5, <2>6, <2>7, CatTyped DEF RawAfter
      <2>9. f.kind # "token" => more = raw BY <2>6, <2>7, ConcatEmptySeq DEF Cat
      <2>10. Tagged(raw) => Tagged(more) BY <2>6, <2>7, TagsStay
      <2>11. r.think = ThinkAfter(s.reader, f) /\ RawAfter(s.reader, f) = more
             BY <2>5, <2>8
      <2> HIDE DEF more
      <2>12. r.think <=> Tagged(more)
             <3>1. ThinkAfter(s.reader, f) <=> s.reader.think \/ (f.kind = "token" /\ Tagged(more))
                   BY <2>11 DEF ThinkAfter
             <3>2. r.think <=> Tagged(raw) \/ (f.kind = "token" /\ Tagged(more))
                   BY <2>3, <2>11, <3>1
             <3>3. CASE f.kind = "token" BY <2>10, <3>2, <3>3
             <3>4. CASE f.kind # "token" BY <2>9, <3>2, <3>4
             <3>5. QED BY <3>3, <3>4
      <2>13. t.shown = Client!Visible(more)
             <3>1. CASE f.kind # "token"
                   <4>1. t.shown = s.shown BY <2>4, <3>1 DEF Client!Handled
                   <4>2. QED BY <2>3, <2>9, <3>1, <4>1
             <3>2. CASE f.kind = "token" /\ r.think
                   <4>1. t.shown = Client!Content(r.raw) BY <2>4, <3>2 DEF Client!Handled
                   <4>2. QED BY <2>8, <4>1, ContentVisible
             <3>3. CASE f.kind = "token" /\ ~r.think
                   <4>1. t.shown = s.shown \o f.text BY <2>4, <3>3, Zenon DEF Client!Handled
                   <4>2. ~Tagged(more) /\ ~Tagged(raw) BY <2>10, <2>12, <3>3
                   <4>3. Client!Visible(more) = more /\ Client!Visible(raw) = raw
                         BY <2>6, <2>8, <4>2, Untagged
                   <4>4. more = raw \o f.text BY DEF more, Cat
                   <4>5. QED BY <2>3, <4>1, <4>3, <4>4
             <3>4. QED BY <3>1, <3>2, <3>3
      <2>14. r.error <=> HasKind(v, "error")
             <3>1. HasKind(v, "error") <=> HasKind(w, "error") \/ f.kind = "error" BY KindMore DEF v
             <3>2. QED BY <2>3, <2>5, <3>1 DEF ErrorAfter
      <2>15. r.done <=> HasKind(v, "done")
             <3>1. HasKind(v, "done") <=> HasKind(w, "done") \/ f.kind = "done" BY KindMore DEF v
             <3>2. QED BY <1>3, <2>1, <2>5, <3>1 DEF DoneAfter
      <2>16. r.images = ImagesIn(v)
             <3> DEFINE I == {Client!Frame("image")}
             <3>1. Among(v, I) = IF f \in I THEN Append(Among(w, I), f) ELSE Among(w, I)
                   BY AmongAppend DEF v
             <3>2. Among(w, I) \in Seq(Client!Frames) BY AmongType
             <3>3. Len(Append(Among(w, I), f)) = Len(Among(w, I)) + 1 BY <3>2, AppendProperties
             <3>4. f \in I <=> f.kind = "image" BY FrameIs
             <3> HIDE DEF I
             <3>5. ImagesIn(v) = IF f.kind = "image" THEN ImagesIn(w) + 1 ELSE ImagesIn(w)
                   BY <3>1, <3>3, <3>4 DEF ImagesIn, I
             <3>6. QED BY <2>3, <2>5, <3>5 DEF ImagesAfter
      <2>17. r.raw = Client!AllText(Heeded(v)) BY <2>2, <2>6, <2>8 DEF more
      <2>18. Caught(v, t)
             <3>1. r.error <=> HasKind(Heeded(v), "error") BY <2>2, <2>14
             <3>2. r.images = ImagesIn(Heeded(v)) BY <2>2, <2>16
             <3>3. (r.think <=> Tagged(r.raw)) /\ t.shown = Client!Visible(r.raw) BY <2>8, <2>12, <2>13
             <3>4. t.reader = r BY <2>4
             <3>5. QED BY <2>15, <2>17, <3>1, <3>2, <3>3, <3>4 DEF Caught
      <2>19. QED BY <2>18 DEF v, t
<1>4. QED BY <1>2, <1>3

\* The states of the lines of a read.
LineRun(r, s, lines) ==
    /\ r \in [0..Len(lines) -> ReadShape]
    /\ r[0] = s
    /\ \A i \in 1..Len(lines) : r[i] = Client!Line(r[i - 1], lines[i])

LEMMA LinesIs ==
    ASSUME NEW s \in ReadShape, NEW lines \in Seq(Client!Frames)
    PROVE  \E r : LineRun(r, s, lines) /\ Client!Lines(s, lines) = r[Len(lines)]
<1> DEFINE n == Len(lines)
           Kept(f) == f = [i \in 0..n |-> IF i = 0 THEN s ELSE Client!Line(f[i - 1], lines[i])]
           G == [i \in 1..n |-> [t \in ReadShape |-> Client!Line(t, lines[i])]]
<1>1. n \in Nat /\ \A i \in 1..n : lines[i] \in Client!Frames BY LenProperties, ElementOfSeq
<1>2. Maps(G, n, ReadShape) BY <1>1, LineTyped DEF Maps
<1> HIDE DEF G, n
<1>3. PICK f : Runs(f, n, ReadShape, s, G) BY <1>1, <1>2, Running
<1>4. f \in [0..n -> ReadShape] /\ f[0] = s /\ \A i \in 1..n : f[i] = G[i][f[i - 1]] BY <1>3 DEF Runs
<1>5. \A i \in 1..n : f[i] = Client!Line(f[i - 1], lines[i])
      <2>1. \A i \in 1..n : f[i - 1] \in ReadShape BY <1>1, <1>4
      <2>2. QED BY <1>4, <2>1 DEF G
<1>6. Kept(f)
      <2>1. \A i \in 0..n : f[i] = IF i = 0 THEN s ELSE Client!Line(f[i - 1], lines[i])
            BY <1>1, <1>4, <1>5
      <2>2. f = [i \in 0..n |-> f[i]] BY <1>4
      <2>3. QED BY <2>1, <2>2
<1> DEFINE c == CHOOSE g : Kept(g)
<1>7. Kept(c) BY <1>6
<1>8. Client!Lines(s, lines) = c[n] BY DEF Client!Lines, n
<1> HIDE DEF c
<1>9. c[0] = s /\ \A i \in 1..n : c[i] = Client!Line(c[i - 1], lines[i])
      <2>1. 0 \in 0..n /\ \A i \in 1..n : i \in 0..n /\ i # 0 BY <1>1
      <2>2. \A i \in 0..n : c[i] = IF i = 0 THEN s ELSE Client!Line(c[i - 1], lines[i]) BY <1>7
      <2>3. QED BY <2>1, <2>2
<1>10. \A k \in 0..n : c[k] = f[k]
       <2>1. ASSUME NEW k \in 0..n - 1, c[k] = f[k] PROVE c[k + 1] = f[k + 1]
             <3>1. k + 1 \in 1..n /\ (k + 1) - 1 = k BY <1>1
             <3>2. QED BY <1>5, <1>9, <2>1, <3>1
       <2>2. c[0] = f[0] BY <1>4, <1>9
       <2>3. n \in Nat BY <1>1
       <2>4. \A k \in 0..n - 1 : c[k] = f[k] => c[k + 1] = f[k + 1] BY <2>1
       <2>5. QED BY <2>2, <2>3, <2>4, AlikeSoFar
<1>11. c \in [0..n -> ReadShape]
       <2>1. c = [i \in 0..n |-> c[i]] BY <1>7
       <2>2. QED BY <1>4, <1>10, <2>1
<1>12. LineRun(c, s, lines) BY <1>9, <1>11 DEF LineRun, n
<1>13. QED BY <1>8, <1>12 DEF n

LEMMA OneLineMore ==
    ASSUME NEW S, NEW w \in Seq(S), NEW l \in Seq(S), NEW k \in 0..Len(l) - 1
    PROVE  /\ Cat(w, SubSeq(l, 1, k)) \in Seq(S)
           /\ Cat(w, SubSeq(l, 1, k + 1)) = Append(Cat(w, SubSeq(l, 1, k)), l[k + 1])
<1> DEFINE a == SubSeq(l, 1, k)
           b == SubSeq(l, 1, k + 1)
           x == l[k + 1]
<1>1. Len(l) \in Nat /\ \A i \in 1..Len(l) : l[i] \in S BY LenProperties, ElementOfSeq
<1>2. k + 1 \in 1..Len(l) /\ 1 \in 1..Len(l) /\ k + 1 \in 1..Len(l) /\ (k + 1) - 1 = k BY <1>1
<1>3. a \in Seq(S)
      <2>1. 1 \in Int /\ k \in Int /\ \A i \in 1..k : l[i] \in S BY <1>1
      <2>2. QED BY <2>1, SubSeqProperties
<1>4. x \in S /\ <<x>> \in Seq(S)
      <2>1. x \in S BY <1>1, <1>2
      <2>2. QED BY <2>1
<1>5. b = a \o <<x>> BY <1>2, SubSeqRecursiveSecond
<1> HIDE DEF a, b, x
<1>6. w \o a \in Seq(S) BY <1>3, ConcatProperties
<1>7. w \o (a \o <<x>>) = (w \o a) \o <<x>>
      <2> DEFINE u == <<x>>
      <2>1. u \in Seq(S) BY <1>4
      <2> HIDE DEF u
      <2>2. Cat(w, Cat(a, u)) = Cat(Cat(w, a), u) BY <1>3, <2>1, CatTwice
      <2>3. QED BY <2>2 DEF u, Cat
<1>8. Append(w \o a, x) = (w \o a) \o <<x>> BY <1>4, <1>6, AppendIsConcat
<1>9. QED BY <1>5, <1>6, <1>7, <1>8 DEF Cat, a, b, x

LEMMA LinesCaught ==
    ASSUME NEW w \in Seq(Client!Frames), NEW s \in ReadShape, Caught(w, s),
           NEW lines \in Seq(Client!Frames)
    PROVE  Client!Lines(s, lines) \in ReadShape /\ Caught(Cat(w, lines), Client!Lines(s, lines))
<1>1. PICK r : LineRun(r, s, lines) /\ Client!Lines(s, lines) = r[Len(lines)] BY LinesIs
<1> DEFINE n == Len(lines)
           Upto(k) == Cat(w, SubSeq(lines, 1, k))
           P == {k \in Nat : k <= n => Caught(Upto(k), r[k])}
<1>2. n \in Nat /\ \A i \in 1..n : lines[i] \in Client!Frames BY LenProperties, ElementOfSeq
<1>3. /\ r \in [0..n -> ReadShape] /\ r[0] = s
      /\ \A i \in 1..n : r[i] = Client!Line(r[i - 1], lines[i])
      BY <1>1 DEF LineRun
<1> HIDE DEF n
<1>4. 0 \in P
      <2>1. SubSeq(lines, 1, 0) = <<>> BY SubSeqEmpty
      <2>2. Upto(0) = w BY <2>1, ConcatEmptySeq DEF Cat
      <2> HIDE DEF Upto
      <2>3. QED BY <1>3, <2>2
<1>5. ASSUME NEW k \in P PROVE k + 1 \in P
      <2>1. ASSUME k + 1 <= n PROVE Caught(Upto(k + 1), r[k + 1])
            <3>1. k \in 0..Len(lines) - 1 /\ k + 1 \in 1..n /\ (k + 1) - 1 = k /\ k \in 0..n
                  BY <1>2, <2>1 DEF n
            <3>2. Upto(k) \in Seq(Client!Frames) /\ Upto(k + 1) = Append(Upto(k), lines[k + 1])
                  BY <3>1, OneLineMore, Zenon
            <3>3. Caught(Upto(k), r[k]) BY <2>1, <3>1
            <3>4. r[k] \in ReadShape /\ lines[k + 1] \in Client!Frames BY <1>2, <1>3, <3>1
            <3>5. r[k + 1] = Client!Line(r[k], lines[k + 1]) BY <1>3, <3>1
            <3> HIDE DEF Upto
            <3>6. Caught(Append(Upto(k), lines[k + 1]), Client!Line(r[k], lines[k + 1]))
                  BY <3>2, <3>3, <3>4, LineCaught, Zenon
            <3>7. QED BY <3>2, <3>5, <3>6
      <2>2. k + 1 \in Nat OBVIOUS
      <2>3. QED BY <2>1, <2>2
<1>6. P = Nat
      <2>1. P \in SUBSET Nat OBVIOUS
      <2> HIDE DEF P
      <2>2. QED BY <1>4, <1>5, <2>1, Naturally
<1>7. Caught(Upto(n), r[n])
      <2>1. n \in P BY <1>2, <1>6
      <2>2. QED BY <1>2, <2>1
<1>8. SubSeq(lines, 1, n) = lines BY SubSeqFull DEF n
<1>9. r[n] \in ReadShape BY <1>2, <1>3
<1>10. QED BY <1>1, <1>7, <1>8, <1>9 DEF n

Wholly == SubSeq(delivered, 1, Len(delivered) - Len(buffer))
SoFar == [reader |-> reader, shown |-> reply]
OfTokens(frames) == \A i \in DOMAIN frames : frames[i].kind = "token"
CutOff(frames, rest) ==
    rest = <<>> \/ \E w \in Seq(Client!Frames), f \in Client!Frames : frames = Append(w, f) /\ rest = <<f>>

ClientTyped ==
    /\ mode \in {"stream", "completion", "failure"} /\ ended \in {"no", "resolved", "failed"}
    /\ delivered \in Seq(Client!Frames) /\ Len(delivered) <= MaxFrames + 2
    /\ CutOff(delivered, buffer)
    /\ SoFar \in ReadShape

ClientInv ==
    /\ ClientTyped
    /\ mode = "stream" => /\ Caught(Wholly, SoFar)
                          /\ ended = "resolved" => ~reader.error
    /\ mode # "stream" => /\ buffer = <<>> /\ OfTokens(delivered) /\ reader.images = 0
                          /\ ended = "no" => delivered = <<>> /\ reader = Client!Nothing
                          /\ ended = "resolved" => reply = Client!Visible(Client!AllText(delivered))

LEMMA Prefix ==
    ASSUME NEW S, NEW a \in Seq(S), NEW b \in Seq(S)
    PROVE  SubSeq(Cat(a, b), 1, Len(Cat(a, b)) - Len(b)) = a
<1>1. a \o b \in Seq(S) /\ Len(a \o b) = Len(a) + Len(b) /\ Len(a) \in Nat /\ Len(b) \in Nat
      BY ConcatProperties, LenProperties
<1>2. Len(a \o b) - Len(b) = Len(a) BY <1>1
<1>3. SubSeq(a \o b, 1, Len(a)) = a
      <2>1. CASE Len(a) = 0
            <3>1. a = <<>> BY <2>1, EmptySeq
            <3>2. SubSeq(a \o b, 1, 0) = <<>> BY SubSeqEmpty
            <3>3. QED BY <2>1, <3>1, <3>2
      <2>2. CASE Len(a) # 0
            <3>1. 1 \in 1..Len(a) /\ Len(a) \in 1..Len(a) BY <1>1, <2>2
            <3>2. SubSeq(a \o b, 1, Len(a)) = SubSeq(a, 1, Len(a)) BY <3>1, SubSeqOfConcat1
            <3>3. QED BY <3>2, SubSeqFull
      <2>3. QED BY <2>1, <2>2
<1>4. QED BY <1>2, <1>3 DEF Cat

LEMMA NothingCaught == Caught(<<>>, [reader |-> Client!Nothing, shown |-> <<>>])
                       /\ [reader |-> Client!Nothing, shown |-> <<>>] \in ReadShape
<1> DEFINE s == [reader |-> Client!Nothing, shown |-> <<>>]
<1>1. <<>> \in Seq(Pieces) /\ <<>> \in Seq(Client!Frames) /\ Len(<<>>) = 0 /\ DOMAIN <<>> = {} BY EmptySeq
<1>2. ~Tagged(<<>>)
      <2>1. 1 \in 1..Len(<<>>) + 1 BY <1>1
      <2>2. Client!Opens(<<>>, 1) = {j \in 1..Len(<<>>) : j + 1 <= Len(<<>>) /\ <<>>[j] = "o" /\ <<>>[j + 1] = "k"}
            BY <1>1, <2>1, PlacesTyped
      <2>3. QED BY <1>1, <2>2 DEF Tagged
<1>3. Client!Visible(<<>>) = <<>> BY <1>1, <1>2, Untagged
<1>4. Heeded(<<>>) = <<>> /\ \A k : ~HasKind(<<>>, k) BY <1>1 DEF Heeded, HasKind
<1>5. ImagesIn(<<>>) = 0 BY <1>1, AmongEmpty DEF ImagesIn
<1>6. /\ s.reader.raw = <<>> /\ s.reader.think = FALSE /\ s.reader.images = 0
      /\ s.reader.error = FALSE /\ s.reader.done = FALSE /\ s.shown = <<>>
      BY DEF Client!Nothing
<1>7. s \in ReadShape
      <2>1. Client!Nothing \in ReaderShape BY <1>1 DEF Client!Nothing, ReaderShape
      <2>2. QED BY <1>1, <2>1 DEF ReadShape
<1> HIDE DEF s
<1>8. Caught(<<>>, s) BY <1>2, <1>3, <1>4, <1>5, <1>6, TextNone, Zenon DEF Caught
<1>9. QED BY <1>7, <1>8 DEF s

LEMMA ClientInit == ASSUME StreamBounds, Client!Init PROVE ClientInv
<1>1. <<>> \in Seq(Client!Frames) /\ Len(<<>>) = 0 /\ DOMAIN <<>> = {} BY EmptySeq
<1>2. SoFar = [reader |-> Client!Nothing, shown |-> <<>>] BY DEF Client!Init, SoFar
<1>3. Wholly = <<>>
      <2>1. delivered = <<>> /\ buffer = <<>> BY DEF Client!Init
      <2>2. SubSeq(<<>>, 1, 0 - 0) = <<>> BY SubSeqEmpty
      <2>3. QED BY <1>1, <2>1, <2>2 DEF Wholly
<1>4. Caught(Wholly, SoFar) /\ SoFar \in ReadShape BY <1>2, <1>3, NothingCaught
<1>5. ClientTyped
      BY <1>1, <1>4 DEF ClientTyped, Client!Init, CutOff, StreamBounds
<1>6. reader.images = 0 BY DEF Client!Init, Client!Nothing
<1>7. QED BY <1>1, <1>4, <1>5, <1>6 DEF ClientInv, Client!Init, OfTokens

\* The lines of a read, from the buffer and from the network, are caught.
LEMMA ChunkKeeps == ASSUME StreamBounds, ClientInv, Client!ReadChunk PROVE ClientInv'
<1>1. ClientTyped /\ Caught(Wholly, SoFar) /\ mode = "stream" /\ ended = "no"
      BY DEF ClientInv, Client!ReadChunk
<1>2. PICK n \in 0..MaxLines, severed \in BOOLEAN : \E frames \in [1..n -> Client!Frames], part \in Client!Frames :
        LET lines == (IF buffer = <<>> THEN <<>> ELSE Client!Whole(buffer[1])) \o frames
            read == Client!Lines([reader |-> reader, shown |-> reply], lines)
            left == IF severed THEN <<part>> ELSE <<>>
        IN  /\ n + Len(left) + Len(buffer) > 0
            /\ Len(delivered) + n + Len(left) <= MaxFrames
            /\ delivered' = delivered \o frames \o left
            /\ buffer' = left
            /\ reader' = read.reader /\ reply' = read.shown
      BY DEF Client!ReadChunk
<1>3. PICK frames \in [1..n -> Client!Frames], part \in Client!Frames :
        LET lines == (IF buffer = <<>> THEN <<>> ELSE Client!Whole(buffer[1])) \o frames
            read == Client!Lines([reader |-> reader, shown |-> reply], lines)
            left == IF severed THEN <<part>> ELSE <<>>
        IN  /\ n + Len(left) + Len(buffer) > 0
            /\ Len(delivered) + n + Len(left) <= MaxFrames
            /\ delivered' = delivered \o frames \o left
            /\ buffer' = left
            /\ reader' = read.reader /\ reply' = read.shown
      BY <1>2
<1> DEFINE first == IF buffer = <<>> THEN <<>> ELSE Client!Whole(buffer[1])
           lines == first \o frames
           read == Client!Lines(SoFar, lines)
           left == IF severed THEN <<part>> ELSE <<>>
           whole == Cat(delivered, frames)
<1>4. /\ Len(delivered) + n + Len(left) <= MaxFrames
      /\ delivered' = Cat(whole, left) /\ buffer' = left
      /\ reader' = read.reader /\ reply' = read.shown
      BY <1>3 DEF SoFar, Cat
<1>5. n \in Nat /\ frames \in Seq(Client!Frames) /\ Len(frames) = n BY <1>2 DEF StreamBounds
<1>6. left \in Seq(Client!Frames) /\ Len(left) \in Nat
      <2>1. <<part>> \in Seq(Client!Frames) /\ <<>> \in Seq(Client!Frames) /\ Len(<<part>>) = 1 /\ Len(<<>>) = 0
            OBVIOUS
      <2>2. QED BY <2>1, Zenon
<1>7. SoFar \in ReadShape /\ delivered \in Seq(Client!Frames) /\ Len(delivered) \in Nat
      BY <1>1, LenProperties DEF ClientTyped
<1>8. whole \in Seq(Client!Frames) /\ Len(whole) = Len(delivered) + n
      BY <1>5, <1>7, ConcatProperties DEF Cat
<1> HIDE DEF whole, read, left
<1>9. /\ Cat(whole, left) \in Seq(Client!Frames) /\ Len(Cat(whole, left)) = Len(whole) + Len(left)
      BY <1>6, <1>8, ConcatProperties DEF Cat
<1>10. Wholly' = whole
       <2>1. Wholly' = SubSeq(Cat(whole, left), 1, Len(Cat(whole, left)) - Len(left)) BY <1>4 DEF Wholly
       <2>2. QED BY <1>6, <1>8, <2>1, Prefix
<1>11. CutOff(delivered, buffer)' 
       <2>1. CASE ~severed
             <3>1. left = <<>> BY <2>1 DEF left
             <3>2. QED BY <1>4, <3>1 DEF CutOff
       <2>2. CASE severed
             <3>1. left = <<part>> BY <2>2 DEF left
             <3>2. Append(whole, part) = whole \o <<part>> BY <1>8, AppendIsConcat
             <3>3. delivered' = Append(whole, part) BY <1>4, <3>1, <3>2 DEF Cat
             <3>4. QED BY <1>4, <1>8, <3>1, <3>3 DEF CutOff
       <2>3. QED BY <2>1, <2>2
<1>12. read \in ReadShape /\ Caught(whole, read)
       <2>1. CASE buffer = <<>>
             <3>1. Wholly = delivered
                   <4>1. Cat(delivered, <<>>) = delivered BY <1>7, CatOf
                   <4>2. <<>> \in Seq(Client!Frames) BY EmptySeq
                   <4>3. SubSeq(Cat(delivered, <<>>), 1, Len(Cat(delivered, <<>>)) - Len(<<>>)) = delivered
                         BY <1>7, <4>2, Prefix
                   <4>4. QED BY <2>1, <4>1, <4>3 DEF Wholly
             <3>2. lines = frames
                   <4>1. first = <<>> BY <2>1
                   <4> HIDE DEF first
                   <4>2. QED BY <1>5, <4>1, ConcatEmptySeq
             <3> HIDE DEF lines
             <3>3. Client!Lines(SoFar, frames) \in ReadShape /\ Caught(Cat(delivered, frames), Client!Lines(SoFar, frames))
                   BY <1>1, <1>5, <1>7, <3>1, LinesCaught, Zenon
             <3>4. QED BY <3>2, <3>3 DEF read, whole
       <2>2. CASE buffer # <<>>
             <3>1. PICK w \in Seq(Client!Frames), f \in Client!Frames : delivered = Append(w, f) /\ buffer = <<f>>
                   BY <1>1, <2>2 DEF ClientTyped, CutOff
             <3> DEFINE u == <<f>>
             <3>2. u \in Seq(Client!Frames) OBVIOUS
             <3>3. delivered = Cat(w, u) /\ buffer = u
                   <4>1. Append(w, f) = w \o <<f>> BY AppendIsConcat
                   <4>2. QED BY <3>1, <4>1 DEF Cat
             <3>4. first = u
                   <4>1. buffer[1] = f BY <3>1
                   <4>2. first = Client!Whole(f) BY <2>2, <4>1
                   <4>3. QED BY <4>2 DEF Client!Whole
             <3> HIDE DEF u
             <3>5. Wholly = w BY <3>2, <3>3, Prefix DEF Wholly
             <3>6. lines = Cat(u, frames) BY <3>4 DEF Cat
             <3> HIDE DEF first, lines
             <3>7. Cat(u, frames) \in Seq(Client!Frames) BY <1>5, <3>2, CatOf
             <3>8. Cat(w, Cat(u, frames)) = whole BY <1>5, <3>2, <3>3, CatTwice DEF whole
             <3>9. /\ Client!Lines(SoFar, Cat(u, frames)) \in ReadShape
                   /\ Caught(Cat(w, Cat(u, frames)), Client!Lines(SoFar, Cat(u, frames)))
                   BY <1>1, <1>7, <3>5, <3>7, LinesCaught, Zenon
             <3>10. QED BY <3>6, <3>8, <3>9 DEF read
       <2>3. QED BY <2>1, <2>2
<1>13. SoFar' = read
       <2>1. read = [reader |-> read.reader, shown |-> read.shown] BY <1>12 DEF ReadShape
       <2>2. SoFar' = [reader |-> reader', shown |-> reply'] BY DEF SoFar
       <2>3. QED BY <1>4, <2>1, <2>2
<1>14. mode' = mode /\ ended' = ended BY DEF Client!ReadChunk
<1>15. ClientTyped'
       <2>1. Len(delivered') <= MaxFrames + 2 BY <1>4, <1>5, <1>6, <1>7, <1>8, <1>9 DEF StreamBounds
       <2>2. QED BY <1>1, <1>4, <1>9, <1>11, <1>12, <1>13, <1>14, <2>1 DEF ClientTyped
<1>16. Caught(Wholly, SoFar)' 
       <2>1. Caught(Wholly, SoFar)' <=> Caught(Wholly', SoFar')
             BY Zenon DEF Caught, Heeded, HasKind, Tagged, ImagesIn
       <2>2. QED BY <1>10, <1>12, <1>13, <2>1
<1>17. QED BY <1>1, <1>14, <1>15, <1>16 DEF ClientInv

LEMMA TokensHeard ==
    ASSUME NEW w \in Seq(Client!Frames), OfTokens(w)
    PROVE  Heeded(w) = w /\ ~HasKind(w, "error") /\ ImagesIn(w) = 0
<1>1. ~HasKind(w, "error") /\ ~HasKind(w, "done") BY DEF OfTokens, HasKind
<1>2. Heeded(w) = w BY <1>1 DEF Heeded, HasKind
<1>3. DOMAIN w = 1..Len(w) /\ \A i \in DOMAIN w : w[i] \in Client!Frames BY LenProperties, ElementOfSeq
<1>4. \A i \in DOMAIN w : w[i] \notin {Client!Frame("image")}
      <2>1. TAKE i \in DOMAIN w
      <2>2. w[i].kind = "token" /\ w[i] \in Client!Frames BY <1>3 DEF OfTokens
      <2>3. QED BY <2>2, FrameIs
<1>5. Among(w, {Client!Frame("image")}) = <<>> BY <1>4, AmongNone
<1>6. Len(<<>>) = 0 OBVIOUS
<1>7. QED BY <1>1, <1>2, <1>5, <1>6 DEF ImagesIn

\* Two tokens of a whole completion.
LEMMA TwoTokens ==
    ASSUME NEW a \in Client!Texts, NEW b \in Client!Texts
    PROVE  LET w == <<Client!Token(a), Client!Token(b)>>
               r == Client!Read(Client!Read(Client!Nothing, Client!Token(a)), Client!Token(b))
           IN  /\ w \in Seq(Client!Frames) /\ Len(w) = 2 /\ OfTokens(w)
               /\ r \in ReaderShape /\ r.images = 0
               /\ Client!Content(r.raw) = Client!Visible(Client!AllText(w))
               /\ Client!Content(r.raw) \in Seq(Pieces)
<1> DEFINE f == Client!Token(a)
           g == Client!Token(b)
           w == <<f, g>>
           p == Client!Read(Client!Nothing, f)
           r == Client!Read(p, g)
<1>1. f \in Client!Frames /\ g \in Client!Frames BY DEF Client!Frames
<1>2. f.kind = "token" /\ g.kind = "token" /\ f.text = a /\ g.text = b BY DEF Client!Token
<1>3. a \in Seq(Pieces) /\ b \in Seq(Pieces) /\ <<>> \in Seq(Pieces) BY <1>1, <1>2, FrameIs, EmptySeq
<1>4. Client!Nothing \in ReaderShape /\ Client!Nothing.raw = <<>> /\ Client!Nothing.images = 0
      BY <1>3 DEF Client!Nothing, ReaderShape
<1> HIDE DEF f, g
<1>5. w \in Seq(Client!Frames) /\ Len(w) = 2 /\ w[1] = f /\ w[2] = g /\ DOMAIN w = 1..2 BY <1>1
<1>6. OfTokens(w)
      <2>1. \A i \in 1..2 : i = 1 \/ i = 2 OBVIOUS
      <2>2. QED BY <1>2, <1>5, <2>1 DEF OfTokens
<1>7. p \in ReaderShape /\ p.raw = a /\ p.images = 0
      <2>1. p \in ReaderShape BY <1>1, <1>4, ReadTyped
      <2>2. p.raw = RawAfter(Client!Nothing, f) /\ p.images = ImagesAfter(Client!Nothing, f)
            BY <1>1, <1>4, ReadIs, RecordParts
      <2>3. RawAfter(Client!Nothing, f) = Cat(<<>>, a) BY <1>2, <1>4 DEF RawAfter
      <2>4. Cat(<<>>, a) = a BY <1>3, CatOf
      <2>5. ImagesAfter(Client!Nothing, f) = 0 BY <1>2, <1>4 DEF ImagesAfter
      <2>6. QED BY <2>1, <2>2, <2>3, <2>4, <2>5
<1> HIDE DEF p
<1>8. r \in ReaderShape /\ r.raw = Cat(a, b) /\ r.images = 0
      <2>1. r \in ReaderShape BY <1>1, <1>7, ReadTyped
      <2>2. r.raw = RawAfter(p, g) /\ r.images = ImagesAfter(p, g)
            BY <1>1, <1>7, ReadIs, RecordParts
      <2>3. RawAfter(p, g) = Cat(a, b) BY <1>2, <1>7 DEF RawAfter
      <2>4. ImagesAfter(p, g) = 0 BY <1>2, <1>7 DEF ImagesAfter
      <2>5. QED BY <2>1, <2>2, <2>3, <2>4
<1> HIDE DEF r
<1>9. Client!AllText(w) = Cat(a, b)
      <2> DEFINE u == Append(<<>>, f)
      <2>1. <<>> \in Seq(Client!Frames) BY EmptySeq
      <2>2. u \in Seq(Client!Frames) /\ w = Append(u, g)
            <3>1. u = <<f>> OBVIOUS
            <3>2. u \in Seq(Client!Frames) BY <1>1, <3>1
            <3>3. Append(<<f>>, g) = <<f, g>>
                  <4>1. Append(u, g) = u \o <<g>> BY <1>1, <3>2, AppendIsConcat
                  <4> HIDE DEF u
                  <4>2. <<f>> \o <<g>> = <<f, g>> BY TwoSingles
                  <4>3. QED BY <3>1, <4>1, <4>2
            <3>4. QED BY <3>1, <3>2, <3>3
      <2> HIDE DEF u, w
      <2>3. Client!AllText(w) = Cat(Client!AllText(u), b) BY <1>1, <1>2, <2>2, TextMore
      <2>4. Client!AllText(u) = Cat(Client!AllText(<<>>), a) BY <1>1, <1>2, <2>1, TextMore DEF u
      <2>5. Client!AllText(<<>>) = <<>> BY TextNone
      <2>6. Cat(<<>>, a) = a BY <1>3, CatOf
      <2>7. QED BY <2>3, <2>4, <2>5, <2>6
<1>10. Cat(a, b) \in Seq(Pieces) BY <1>3, CatTyped
<1>11. Client!Content(r.raw) = Client!Visible(Client!AllText(w)) /\ Client!Content(r.raw) \in Seq(Pieces)
       BY <1>8, <1>9, <1>10, ContentVisible
<1>12. QED BY <1>5, <1>6, <1>8, <1>11 DEF r, p, f, g

LEMMA ReadCompletionKeeps == ASSUME StreamBounds, ClientInv, Client!ReadCompletion PROVE ClientInv'
<1>1. /\ ClientTyped /\ mode = "completion" /\ ended = "no" /\ buffer = <<>>
      /\ delivered = <<>> /\ reader = Client!Nothing
      BY DEF ClientInv, Client!ReadCompletion
<1>2. mode' = mode /\ buffer' = buffer BY DEF Client!ReadCompletion
<1>3. PICK a \in Client!Texts, b \in Client!Texts :
        /\ delivered' = <<Client!Token(a), Client!Token(b)>>
        /\ \/ ended' = "failed" /\ UNCHANGED <<reader, reply>>
           \/ LET r == Client!Read(Client!Read(reader, Client!Token(a)), Client!Token(b)) IN
              reader' = r /\ reply' = Client!Content(r.raw) /\ ended' = "resolved"
      BY DEF Client!ReadCompletion
<1> DEFINE w == <<Client!Token(a), Client!Token(b)>>
           r == Client!Read(Client!Read(Client!Nothing, Client!Token(a)), Client!Token(b))
<1>4. /\ w \in Seq(Client!Frames) /\ Len(w) = 2 /\ OfTokens(w)
      /\ r \in ReaderShape /\ r.images = 0
      /\ Client!Content(r.raw) = Client!Visible(Client!AllText(w))
      /\ Client!Content(r.raw) \in Seq(Pieces)
      BY TwoTokens
<1>5. delivered' = w /\ \/ ended' = "failed" /\ reader' = reader /\ reply' = reply
                        \/ ended' = "resolved" /\ reader' = r /\ reply' = Client!Content(r.raw)
      BY <1>1, <1>3
<1> HIDE DEF w, r
<1>6. reader \in ReaderShape /\ reply \in Seq(Pieces) /\ reader.images = 0
      BY <1>1 DEF ClientTyped, SoFar, ReadShape, Client!Nothing
<1>7. SoFar' \in ReadShape
      <2>1. reader' \in ReaderShape /\ reply' \in Seq(Pieces) BY <1>4, <1>5, <1>6
      <2>2. QED BY <2>1 DEF SoFar, ReadShape
<1>8. ClientTyped'
      <2>1. Len(delivered') <= MaxFrames + 2
            <3>1. Len(delivered') = 2 BY <1>4, <1>5
            <3>2. MaxFrames \in Nat BY DEF StreamBounds
            <3>3. QED BY <3>1, <3>2
      <2>2. CutOff(delivered, buffer)' BY <1>1, <1>2 DEF CutOff
      <2>3. mode' \in {"stream", "completion", "failure"} /\ ended' \in {"no", "resolved", "failed"}
            BY <1>1, <1>2, <1>5
      <2>4. delivered' \in Seq(Client!Frames) BY <1>4, <1>5
      <2>5. QED BY <1>7, <2>1, <2>2, <2>3, <2>4 DEF ClientTyped
<1>9. OfTokens(delivered)' /\ reader'.images = 0 BY <1>4, <1>5, <1>6 DEF OfTokens
<1>10. ended' = "resolved" => reply' = Client!Visible(Client!AllText(delivered))' 
       <2>1. Client!Visible(Client!AllText(delivered))' = Client!Visible(Client!AllText(delivered'))
             BY Zenon DEF Client!Visible, Client!AllText
       <2>2. QED BY <1>4, <1>5, <2>1
<1>11. QED BY <1>1, <1>2, <1>5, <1>8, <1>9, <1>10 DEF ClientInv

LEMMA ClientNext == ASSUME StreamBounds, ClientInv, [Client!Next]_clientVars PROVE ClientInv'
<1>1. CASE Client!ReadChunk BY <1>1, ChunkKeeps
<1>2. CASE Client!ReadCompletion BY <1>2, ReadCompletionKeeps
<1>3. ASSUME mode' = mode, delivered' = delivered, buffer' = buffer, reader' = reader, reply' = reply,
             ended' \in {ended, "failed"} \/ (ended' = "resolved" /\ mode = "stream" /\ ~reader.error)
      PROVE  ClientInv'
      <2>1. Wholly' = Wholly /\ SoFar' = SoFar BY <1>3 DEF Wholly, SoFar
      <2>2. ClientTyped' BY <1>3, <2>1 DEF ClientInv, ClientTyped, CutOff
      <2>3. Caught(Wholly, SoFar)' <=> Caught(Wholly', SoFar')
            BY Zenon DEF Caught, Heeded, HasKind, Tagged, ImagesIn
      <2>4. mode = "stream" => Caught(Wholly, SoFar)' BY <2>1, <2>3 DEF ClientInv
      <2>5. Client!Visible(Client!AllText(delivered))' = Client!Visible(Client!AllText(delivered'))
            BY Zenon DEF Client!Visible, Client!AllText
      <2>6. OfTokens(delivered)' <=> OfTokens(delivered') BY Zenon DEF OfTokens
      <2>7. QED BY <1>3, <2>2, <2>4, <2>5, <2>6 DEF ClientInv
<1>4. CASE Client!Return BY <1>3, <1>4 DEF Client!Return
<1>5. CASE Client!Break BY <1>3, <1>5 DEF Client!Break
<1>6. CASE Client!ReadErrorResponse BY <1>3, <1>6 DEF Client!ReadErrorResponse
<1>7. CASE UNCHANGED clientVars BY <1>3, <1>7 DEF clientVars
<1>8. QED BY <1>1, <1>2, <1>4, <1>5, <1>6, <1>7 DEF Client!Next

LEMMA ClientTrue == ASSUME StreamBounds, ClientInv PROVE Client!TypeOK /\ Client!ReadWhole
<1>1. ClientTyped BY DEF ClientInv
<1>2. buffer \in Seq(Client!Frames) /\ Len(buffer) <= 1
      <2>1. CASE buffer = <<>> BY <2>1
      <2>2. CASE buffer # <<>>
            <3>1. PICK f \in Client!Frames : buffer = <<f>> BY <1>1, <2>2 DEF ClientTyped, CutOff
            <3>2. QED BY <3>1
      <2>3. QED BY <2>1, <2>2
<1>3. Client!TypeOK BY <1>1, <1>2 DEF Client!TypeOK, ClientTyped
<1>4. Client!Heard = Heeded(Wholly) BY Zenon DEF Client!Heard, Heeded, Wholly
<1>5. /\ mode = "stream" \/ ended = "resolved" => reply = Client!Visible(Client!AllText(Heeded(Wholly)))
      /\ ended = "resolved" => ~HasKind(Heeded(Wholly), "error")
      /\ reader.images = ImagesIn(Heeded(Wholly))
      <2>1. CASE mode = "stream"
            <3>1. Caught(Wholly, SoFar) /\ (ended = "resolved" => ~reader.error) BY <2>1 DEF ClientInv
            <3>2. SoFar.reader = reader /\ SoFar.shown = reply BY DEF SoFar
            <3>3. QED BY <2>1, <3>1, <3>2 DEF Caught
      <2>2. CASE mode # "stream"
            <3>1. buffer = <<>> /\ OfTokens(delivered) /\ reader.images = 0
                  /\ (ended = "resolved" => reply = Client!Visible(Client!AllText(delivered)))
                  BY <2>2 DEF ClientInv
            <3>2. delivered \in Seq(Client!Frames) /\ <<>> \in Seq(Client!Frames) BY <1>1, EmptySeq DEF ClientTyped
            <3>3. Wholly = delivered
                  <4>1. Cat(delivered, <<>>) = delivered BY <3>2, CatOf
                  <4>2. SubSeq(Cat(delivered, <<>>), 1, Len(Cat(delivered, <<>>)) - Len(<<>>)) = delivered
                        BY <3>2, Prefix
                  <4>3. QED BY <3>1, <4>1, <4>2 DEF Wholly
            <3>4. Heeded(delivered) = delivered /\ ~HasKind(delivered, "error") /\ ImagesIn(delivered) = 0
                  BY <3>1, <3>2, TokensHeard
            <3>5. QED BY <2>2, <3>1, <3>3, <3>4
      <2>3. QED BY <2>1, <2>2
<1>6. Len(Client!Among(Client!Heard, {Client!Frame("image")})) = ImagesIn(Heeded(Wholly))
      <2> DEFINE I == {Client!Frame("image")}
      <2> HIDE DEF I
      <2>1. Client!Among(Client!Heard, I) = Among(Client!Heard, I) BY SameCollections
      <2>2. QED BY <1>4, <2>1 DEF ImagesIn, I
<1>7. ended = "resolved" => \A i \in DOMAIN Client!Heard : Client!Heard[i].kind # "error"
      BY <1>4, <1>5 DEF HasKind
<1>8. Client!ReadWhole BY <1>4, <1>5, <1>6, <1>7, Zenon DEF Client!ReadWhole
<1>9. QED BY <1>3, <1>8

(***************************************************************************)
(* AnthropicStream: the events of a message, one after the other.  Which   *)
(* blocks are still open after those written is all that decides whether   *)
(* the next one nests.                                                     *)
(***************************************************************************)
Numbers == Nat \cup {NULL}
Events == [event : {"message_start", "message_delta", "message_stop", "open", "delta", "close"},
           type : Blocks!Kinds \cup {NULL}, index : Numbers, fragment : Numbers]

Still(o) == {j \in DOMAIN o : /\ o[j].event = "open"
                              /\ \A k \in j..Len(o) : o[k].event = "close" => o[k].index # o[j].index}
Shut(o) == Still(o) = {}
Held(o, i, t) == \E j \in Still(o) : Still(o) = {j} /\ o[j].index = i /\ o[j].type = t
Below(o, n) == \A j \in DOMAIN o :
                  o[j].event \in {"open", "delta"} => o[j].index \in Nat /\ o[j].index < n
Fits(o, e) ==
    \/ /\ e.event = "open" /\ Shut(o)
       /\ \A j \in DOMAIN o : o[j].event = "open" => o[j].index < e.index
    \/ e.event \in {"delta", "close"} /\ Held(o, e.index, e.type)
    \/ e.event \notin {"open", "delta", "close"} /\ Shut(o)
Nests(o) == \A i \in DOMAIN o : Fits(SubSeq(o, 1, i - 1), o[i])

LEMMA EventIs ==
    ASSUME NEW e \in {"message_start", "message_delta", "message_stop", "open", "delta", "close"},
           NEW t \in Blocks!Kinds \cup {NULL}, NEW i \in Numbers, NEW f \in Numbers
    PROVE  /\ Blocks!Event(e, t, i, f) \in Events
           /\ Blocks!Event(e, t, i, f).event = e /\ Blocks!Event(e, t, i, f).type = t
           /\ Blocks!Event(e, t, i, f).index = i /\ Blocks!Event(e, t, i, f).fragment = f
BY DEF Blocks!Event, Events

LEMMA FirstOnes ==
    ASSUME NEW S, NEW o \in Seq(S), NEW i \in 1..Len(o) + 1
    PROVE  /\ SubSeq(o, 1, i - 1) \in Seq(S) /\ Len(SubSeq(o, 1, i - 1)) = i - 1
           /\ DOMAIN SubSeq(o, 1, i - 1) = 1..i - 1
           /\ \A j \in 1..i - 1 : SubSeq(o, 1, i - 1)[j] = o[j]
<1>1. Len(o) \in Nat BY LenProperties
<1>2. CASE i = 1
      <2>1. SubSeq(o, 1, 0) = <<>> /\ <<>> \in Seq(S) /\ Len(<<>>) = 0 /\ DOMAIN <<>> = {}
            BY SubSeqEmpty, EmptySeq
      <2>2. QED BY <1>2, <2>1
<1>3. CASE i # 1
      <2>1. 1 \in 1..Len(o) /\ i - 1 \in 1..Len(o) BY <1>1, <1>3
      <2>2. QED BY <1>1, <1>3, <2>1, SubSeqProperties
<1>4. QED BY <1>2, <1>3

LEMMA FirstOnesMore ==
    ASSUME NEW S, NEW o \in Seq(S), NEW e \in S, NEW i \in 1..Len(o) + 1
    PROVE  SubSeq(Append(o, e), 1, i - 1) = SubSeq(o, 1, i - 1)
<1> DEFINE v == Append(o, e)
           n == Len(o)
<1>1. v \in Seq(S) /\ More(o, e, v, n) BY MoreIs
<1> HIDE DEF v, n
<1>2. i \in 1..Len(v) + 1 /\ i \in 1..n + 1 BY <1>1 DEF More, n
<1>3. \A j \in 1..i - 1 : v[j] = o[j] BY <1>1, <1>2 DEF More
<1>4. /\ SubSeq(v, 1, i - 1) \in Seq(S) /\ Len(SubSeq(v, 1, i - 1)) = i - 1
      /\ \A j \in 1..i - 1 : SubSeq(v, 1, i - 1)[j] = v[j]
      BY <1>1, <1>2, FirstOnes
<1>5. /\ SubSeq(o, 1, i - 1) \in Seq(S) /\ Len(SubSeq(o, 1, i - 1)) = i - 1
      /\ \A j \in 1..i - 1 : SubSeq(o, 1, i - 1)[j] = o[j]
      BY FirstOnes
<1>6. SubSeq(v, 1, i - 1) = SubSeq(o, 1, i - 1) BY <1>3, <1>4, <1>5, SeqEqual
<1>7. QED BY <1>6 DEF v

LEMMA NestsMore ==
    ASSUME NEW o \in Seq(Events), NEW e \in Events, Nests(o), Fits(o, e)
    PROVE  Nests(Append(o, e))
<1> DEFINE v == Append(o, e)
           n == Len(o)
<1>1. v \in Seq(Events) /\ More(o, e, v, n) BY MoreIs
<1>2. SUFFICES ASSUME NEW i \in 1..n + 1 PROVE Fits(SubSeq(v, 1, i - 1), v[i])
      BY <1>1 DEF Nests, More
<1>3. SubSeq(v, 1, i - 1) = SubSeq(o, 1, i - 1) BY FirstOnesMore
<1> HIDE DEF v
<1>4. CASE i = n + 1
      <2>1. SubSeq(o, 1, n) = o BY SubSeqFull
      <2>2. i - 1 = n /\ v[i] = e BY <1>1, <1>4 DEF More
      <2>3. QED BY <1>3, <2>1, <2>2
<1>5. CASE i # n + 1
      <2>1. i \in DOMAIN o /\ v[i] = o[i] BY <1>1, <1>5 DEF More
      <2>2. QED BY <1>3, <2>1 DEF Nests
<1>6. QED BY <1>4, <1>5

\* A delta or a message event leaves open what is open.
LEMMA StillOther ==
    ASSUME NEW o \in Seq(Events), NEW e \in Events, e.event \notin {"open", "close"}
    PROVE  Still(Append(o, e)) = Still(o)
<1> DEFINE v == Append(o, e)
           n == Len(o)
<1>1. More(o, e, v, n) BY MoreIs
<1> HIDE DEF v, n
<1>2. \A j \in 1..n : \A k \in j..n + 1 : k = n + 1 \/ k \in j..n BY <1>1 DEF More
<1>3. \A j \in 1..n : j..n \subseteq j..n + 1 BY <1>1 DEF More
<1>4. \A j \in 1..n + 1 : j = n + 1 \/ j \in 1..n BY <1>1 DEF More
<1>5. Still(v) = Still(o)
      <2>1. ASSUME NEW j \in Still(o) PROVE j \in Still(v)
            <3>1. j \in 1..n /\ j \in 1..n + 1 /\ v[j] = o[j] /\ o[j].event = "open" BY <1>1, <2>1 DEF Still, More
            <3>2. ASSUME NEW k \in j..n + 1 PROVE v[k].event = "close" => v[k].index # v[j].index
                  <4>1. CASE k = n + 1 BY <1>1, <4>1 DEF More
                  <4>2. CASE k \in j..n
                        <5>1. k \in 1..n BY <1>1, <3>1, <4>2 DEF More
                        <5>2. v[k] = o[k] BY <1>1, <5>1 DEF More
                        <5>3. QED BY <1>1, <3>1, <4>2, <5>2 DEF Still, More
                  <4>3. QED BY <1>2, <3>1, <3>2, <4>1, <4>2
            <3>3. QED BY <1>1, <3>1, <3>2 DEF Still, More
      <2>2. ASSUME NEW j \in Still(v) PROVE j \in Still(o)
            <3>1. j \in 1..n + 1 /\ v[j].event = "open" BY <1>1, <2>2 DEF Still, More
            <3>2. j \in 1..n /\ v[j] = o[j] BY <1>1, <1>4, <3>1 DEF More
            <3>3. ASSUME NEW k \in j..n PROVE o[k].event = "close" => o[k].index # o[j].index
                  <4>1. k \in 1..n /\ k \in j..n + 1 BY <1>1, <3>2, <3>3 DEF More
                  <4>2. v[k] = o[k] BY <1>1, <4>1 DEF More
                  <4>3. QED BY <1>1, <2>2, <3>2, <4>1, <4>2 DEF Still, More
            <3>4. QED BY <1>1, <3>1, <3>2, <3>3 DEF Still, More
      <2>3. QED BY <2>1, <2>2
<1>6. QED BY <1>5 DEF v

LEMMA StillOpen ==
    ASSUME NEW o \in Seq(Events), NEW e \in Events, e.event = "open", Shut(o)
    PROVE  Still(Append(o, e)) = {Len(o) + 1}
<1> DEFINE v == Append(o, e)
           n == Len(o)
<1>1. More(o, e, v, n) BY MoreIs
<1> HIDE DEF v, n
<1>2. n + 1 \in 1..n + 1 /\ \A k \in n + 1..n + 1 : k = n + 1 BY <1>1 DEF More
<1>3. n + 1 \in Still(v) BY <1>1, <1>2 DEF Still, More
<1>4. ASSUME NEW j \in Still(v), j # n + 1 PROVE FALSE
      <2>1. j \in 1..n /\ v[j].event = "open" BY <1>1, <1>4 DEF Still, More
      <2>2. v[j] = o[j] BY <1>1, <2>1 DEF More
      <2>3. ASSUME NEW k \in j..n PROVE o[k].event = "close" => o[k].index # o[j].index
            <3>1. k \in 1..n /\ k \in j..n + 1 BY <1>1, <2>1, <2>3 DEF More
            <3>2. v[k] = o[k] BY <1>1, <3>1 DEF More
            <3>3. QED BY <1>1, <1>4, <2>2, <3>1, <3>2 DEF Still, More
      <2>4. j \in Still(o) BY <1>1, <2>1, <2>2, <2>3 DEF Still, More
      <2>5. QED BY <2>4 DEF Shut
<1>5. Still(v) = {n + 1} BY <1>3, <1>4
<1>6. QED BY <1>5 DEF v, n

LEMMA StillClose ==
    ASSUME NEW o \in Seq(Events), NEW e \in Events, e.event = "close", Held(o, e.index, e.type)
    PROVE  Shut(Append(o, e))
<1> DEFINE v == Append(o, e)
           n == Len(o)
<1>1. More(o, e, v, n) BY MoreIs
<1> HIDE DEF v, n
<1>2. PICK h \in Still(o) : Still(o) = {h} /\ o[h].index = e.index BY DEF Held
<1>3. ASSUME NEW j \in Still(v) PROVE FALSE
      <2>1. j \in 1..n + 1 /\ v[j].event = "open" BY <1>1, <1>3 DEF Still, More
      <2>2. j # n + 1 BY <1>1, <2>1 DEF More
      <2>3. j \in 1..n /\ n + 1 \in j..n + 1 BY <1>1, <2>1, <2>2 DEF More
      <2>4. v[j] = o[j] /\ v[n + 1] = e BY <1>1, <2>3 DEF More
      <2>5. ASSUME NEW k \in j..n PROVE o[k].event = "close" => o[k].index # o[j].index
            <3>1. k \in 1..n /\ k \in j..n + 1 BY <1>1, <2>3, <2>5 DEF More
            <3>2. v[k] = o[k] BY <1>1, <3>1 DEF More
            <3>3. QED BY <1>1, <1>3, <2>4, <3>1, <3>2 DEF Still, More
      <2>6. j \in Still(o) BY <1>1, <2>1, <2>3, <2>4, <2>5 DEF Still, More
      <2>7. o[j].index = e.index BY <1>2, <2>6
      <2>8. e.index # v[j].index BY <1>1, <1>3, <2>3, <2>4 DEF Still, More
      <2>9. QED BY <2>4, <2>7, <2>8
<1>4. Shut(v) BY <1>3 DEF Shut
<1>5. QED BY <1>4 DEF v

LEMMA BelowMore ==
    ASSUME NEW o \in Seq(Events), NEW e \in Events, NEW k \in Nat, NEW n \in Nat, k <= n, Below(o, k),
           e.event \in {"open", "delta"} => e.index \in Nat /\ e.index < n
    PROVE  Below(Append(o, e), n)
<1> DEFINE v == Append(o, e)
           l == Len(o)
<1>1. More(o, e, v, l) BY MoreIs
<1> HIDE DEF v, l
<1>2. \A j \in 1..l + 1 : j = l + 1 \/ j \in 1..l BY <1>1 DEF More
<1>3. \A j \in 1..l : v[j].event \in {"open", "delta"} => v[j].index \in Nat /\ v[j].index < n
      <2>1. \A j \in 1..l : v[j] = o[j] /\ j \in DOMAIN o BY <1>1 DEF More
      <2>2. \A j \in 1..l : o[j].event \in {"open", "delta"} => o[j].index \in Nat /\ o[j].index < k
            BY <2>1 DEF Below
      <2>3. QED BY <2>1, <2>2
<1>4. v[l + 1] = e BY <1>1 DEF More
<1>5. Below(v, n) BY <1>1, <1>2, <1>3, <1>4 DEF Below, More
<1>6. QED BY <1>5 DEF v

\* The arguments a block was given, and the indexes of the tools' blocks.
Deltas(i) == [event : {"delta"}, type : Blocks!Kinds, index : {i}, fragment : Numbers]
FragmentsOf(s) == [d \in DOMAIN s |-> s[d].fragment]
ArgsIn(o, i) == FragmentsOf(Among(o, Deltas(i)))
ToolOpens(o) == {j \in DOMAIN o : o[j].event = "open" /\ o[j].type = "tool"}
SentIn(o) == {o[j].index : j \in ToolOpens(o)}

LEMMA FragmentsMore ==
    ASSUME NEW s \in Seq(Events), NEW x \in Events
    PROVE  /\ FragmentsOf(s) \in Seq(Numbers)
           /\ FragmentsOf(Append(s, x)) = Append(FragmentsOf(s), x.fragment)
<1> DEFINE v == Append(s, x)
           n == Len(s)
           a == FragmentsOf(s)
           b == FragmentsOf(v)
<1>1. v \in Seq(Events) /\ More(s, x, v, n) BY MoreIs
<1>2. \A e \in Events : e.fragment \in Numbers BY DEF Events
<1>3. (\A j \in 1..n : s[j] \in Events) /\ n \in Nat BY ElementIn, <1>1 DEF More
<1> HIDE DEF v, n
<1>4. DOMAIN s = 1..n /\ DOMAIN v = 1..n + 1 /\ v[n + 1] = x /\ \A j \in 1..n : v[j] = s[j]
      BY <1>1 DEF More
<1>5. a = [d \in 1..n |-> s[d].fragment] /\ b = [d \in 1..n + 1 |-> v[d].fragment]
      BY <1>4 DEF FragmentsOf
<1>6. a \in Seq(Numbers) /\ Len(a) = n
      <2>1. \A d \in 1..n : s[d].fragment \in Numbers BY <1>2, <1>3
      <2>2. QED BY <1>3, <1>5, <2>1
<1>7. More(a, x.fragment, Append(a, x.fragment), n) /\ Append(a, x.fragment) \in Seq(Numbers)
      BY <1>2, <1>6, MoreIs
<1> DEFINE u == Append(a, x.fragment)
<1> HIDE DEF u
<1>8. b \in Seq(Numbers) /\ Len(b) = n + 1
      <2>1. \A d \in 1..n + 1 : d = n + 1 \/ d \in 1..n BY <1>3
      <2>2. \A d \in 1..n + 1 : v[d].fragment \in Numbers BY <1>2, <1>3, <1>4, <2>1
      <2>3. QED BY <1>3, <1>5, <2>2
<1>9. \A d \in 1..n + 1 : u[d] = b[d]
      <2>1. \A d \in 1..n : u[d] = a[d] /\ a[d] = s[d].fragment /\ b[d] = s[d].fragment
            BY <1>3, <1>4, <1>5, <1>7 DEF More, u
      <2>2. u[n + 1] = x.fragment /\ b[n + 1] = x.fragment BY <1>3, <1>4, <1>5, <1>7 DEF More, u
      <2>3. \A d \in 1..n + 1 : d = n + 1 \/ d \in 1..n BY <1>3
      <2>4. QED BY <2>1, <2>2, <2>3
<1>10. u \in Seq(Numbers) /\ Len(u) = n + 1 BY <1>7 DEF More, u
<1>11. u = b BY <1>8, <1>9, <1>10, SeqEqual
<1>12. QED BY <1>6, <1>11 DEF u, v

LEMMA ArgsMore ==
    ASSUME NEW o \in Seq(Events), NEW e \in Events, NEW i
    PROVE  /\ e \in Deltas(i) => ArgsIn(Append(o, e), i) = Append(ArgsIn(o, i), e.fragment)
           /\ e \notin Deltas(i) => ArgsIn(Append(o, e), i) = ArgsIn(o, i)
<1>1. Among(o, Deltas(i)) \in Seq(Events) BY AmongType
<1>2. CASE e \in Deltas(i)
      <2>1. Among(Append(o, e), Deltas(i)) = Append(Among(o, Deltas(i)), e) BY <1>2, AmongAppend
      <2>2. FragmentsOf(Append(Among(o, Deltas(i)), e)) = Append(FragmentsOf(Among(o, Deltas(i))), e.fragment)
            BY <1>1, FragmentsMore
      <2>3. QED BY <1>2, <2>1, <2>2 DEF ArgsIn
<1>3. CASE e \notin Deltas(i)
      <2>1. Among(Append(o, e), Deltas(i)) = Among(o, Deltas(i)) BY <1>3, AmongAppend
      <2>2. QED BY <1>3, <2>1 DEF ArgsIn
<1>4. QED BY <1>2, <1>3

LEMMA ArgsNone ==
    ASSUME NEW o \in Seq(Events), NEW n \in Nat, Below(o, n)
    PROVE  ArgsIn(o, n) = <<>>
<1>1. \A j \in DOMAIN o : o[j] \notin Deltas(n)
      <2>1. \A e \in Deltas(n) : e.event = "delta" /\ e.index = n BY DEF Deltas
      <2>2. QED BY <2>1 DEF Below
<1>2. Among(o, Deltas(n)) = <<>> BY <1>1, AmongNone
<1>3. FragmentsOf(<<>>) = <<>>
      <2>1. DOMAIN <<>> = {} /\ <<>> \in Seq(Events) BY EmptySeq
      <2>2. FragmentsOf(<<>>) = [d \in {} |-> <<>>[d].fragment] BY <2>1 DEF FragmentsOf
      <2>3. QED BY <2>2
<1>4. QED BY <1>2, <1>3 DEF ArgsIn

LEMMA SentMore ==
    ASSUME NEW o \in Seq(Events), NEW e \in Events
    PROVE  SentIn(Append(o, e)) = IF e.event = "open" /\ e.type = "tool" THEN SentIn(o) \cup {e.index}
                                  ELSE SentIn(o)
<1> DEFINE v == Append(o, e)
           n == Len(o)
<1>1. More(o, e, v, n) BY MoreIs
<1> HIDE DEF v, n
<1>2. /\ DOMAIN o = 1..n /\ DOMAIN v = 1..n + 1 /\ v[n + 1] = e /\ \A j \in 1..n : v[j] = o[j]
      /\ n + 1 \in 1..n + 1 /\ (\A j \in 1..n + 1 : j = n + 1 \/ j \in 1..n) /\ (\A j \in 1..n : j \in 1..n + 1)
      BY <1>1 DEF More
<1>3. CASE e.event = "open" /\ e.type = "tool"
      <2>1. ToolOpens(v) = ToolOpens(o) \cup {n + 1} BY <1>2, <1>3 DEF ToolOpens
      <2>2. \A j \in ToolOpens(o) : v[j] = o[j] BY <1>2 DEF ToolOpens
      <2>3. SentIn(v) = SentIn(o) \cup {e.index} BY <1>2, <2>1, <2>2 DEF SentIn
      <2>4. QED BY <1>3, <2>3 DEF v
<1>4. CASE ~(e.event = "open" /\ e.type = "tool")
      <2>1. ToolOpens(v) = ToolOpens(o) BY <1>2, <1>4 DEF ToolOpens
      <2>2. \A j \in ToolOpens(o) : v[j] = o[j] BY <1>2 DEF ToolOpens
      <2>3. SentIn(v) = SentIn(o) BY <2>1, <2>2 DEF SentIn
      <2>4. QED BY <1>4, <2>3 DEF v
<1>5. QED BY <1>3, <1>4

BlockBounds == NULL \notin Nat /\ MaxChunks \in Nat

\* A sequence of events as the consumer leaves it, n being the next block's index.
Good(o, n) == o \in Seq(Events) /\ n \in Nat /\ Nests(o) /\ Below(o, n)
SameArgs(o, v) == \A i \in Nat : ArgsIn(v, i) = ArgsIn(o, i)
Opening(t, n) == Blocks!Event("open", t, n, NULL)
Giving(t, n, f) == Blocks!Event("delta", t, n, f)
Closing(t, n) == Blocks!Event("close", t, n, NULL)
Saying(e) == Blocks!Event(e, NULL, NULL, NULL)

LEMMA Opened ==
    ASSUME BlockBounds, NEW o, NEW n, Good(o, n), Shut(o), NEW t \in Blocks!Kinds
    PROVE  /\ Good(Append(o, Opening(t, n)), n + 1) /\ Held(Append(o, Opening(t, n)), n, t)
           /\ SameArgs(o, Append(o, Opening(t, n)))
           /\ SentIn(Append(o, Opening(t, n))) = IF t = "tool" THEN SentIn(o) \cup {n} ELSE SentIn(o)
           /\ n \notin SentIn(o) /\ ArgsIn(o, n) = <<>>
<1>1. o \in Seq(Events) /\ n \in Nat /\ Nests(o) /\ Below(o, n) BY DEF Good
<1> DEFINE e == Opening(t, n)
           v == Append(o, e)
<1>2. e \in Events /\ e.event = "open" /\ e.type = t /\ e.index = n
      <2>1. n \in Numbers /\ NULL \in Numbers BY <1>1 DEF Numbers
      <2>2. QED BY <2>1, EventIs DEF Opening
<1> HIDE DEF e
<1>3. v \in Seq(Events) /\ More(o, e, v, Len(o)) BY <1>1, <1>2, MoreIs
<1>4. \A j \in DOMAIN o : o[j].event = "open" => o[j].index < n BY <1>1 DEF Below
<1>5. Fits(o, e) BY <1>2, <1>4 DEF Fits
<1>6. Nests(v) BY <1>1, <1>2, <1>5, NestsMore
<1>7. n + 1 \in Nat /\ n <= n + 1 /\ n < n + 1 BY <1>1
<1>8. Below(v, n + 1) BY <1>1, <1>2, <1>7, BelowMore
<1>9. Still(v) = {Len(o) + 1} BY <1>1, <1>2, StillOpen
<1>10. v[Len(o) + 1] = e BY <1>3 DEF More
<1>11. Held(v, n, t) BY <1>2, <1>9, <1>10 DEF Held
<1>12. \A i \in Nat : e \notin Deltas(i) BY <1>2 DEF Deltas
<1>13. SameArgs(o, v) BY <1>1, <1>2, <1>12, ArgsMore DEF SameArgs
<1>14. n \notin SentIn(o)
       <2>1. \A j \in ToolOpens(o) : o[j].index < n BY <1>4 DEF ToolOpens
       <2>2. QED BY <1>1, <2>1 DEF SentIn
<1>15. ArgsIn(o, n) = <<>> BY <1>1, ArgsNone
<1>16. SentIn(v) = IF t = "tool" THEN SentIn(o) \cup {n} ELSE SentIn(o) BY <1>1, <1>2, SentMore
<1>17. Good(v, n + 1) BY <1>3, <1>6, <1>7, <1>8 DEF Good
<1>18. QED BY <1>11, <1>13, <1>14, <1>15, <1>16, <1>17 DEF e

LEMMA HeldBelow ==
    ASSUME NEW o, NEW n, NEW i, NEW t, Good(o, n), Held(o, i, t) PROVE i \in Nat /\ i < n
<1>1. PICK j \in Still(o) : o[j].index = i BY DEF Held
<1>2. j \in DOMAIN o /\ o[j].event = "open" BY DEF Still
<1>3. QED BY <1>1, <1>2 DEF Good, Below

LEMMA Gave ==
    ASSUME NEW o, NEW n, NEW i, NEW t \in Blocks!Kinds, Good(o, n), Held(o, i, t), NEW f \in Numbers
    PROVE  /\ Good(Append(o, Giving(t, i, f)), n) /\ Held(Append(o, Giving(t, i, f)), i, t)
           /\ SentIn(Append(o, Giving(t, i, f))) = SentIn(o)
           /\ ArgsIn(Append(o, Giving(t, i, f)), i) = Append(ArgsIn(o, i), f)
           /\ \A j \in Nat : j # i => ArgsIn(Append(o, Giving(t, i, f)), j) = ArgsIn(o, j)
<1>1. o \in Seq(Events) /\ n \in Nat /\ Nests(o) /\ Below(o, n) BY DEF Good
<1>2. i \in Nat /\ i < n BY HeldBelow
<1> DEFINE e == Giving(t, i, f)
           v == Append(o, e)
<1>3. e \in Events /\ e.event = "delta" /\ e.type = t /\ e.index = i /\ e.fragment = f
      BY <1>2, EventIs DEF Giving, Numbers
<1>4. e \in Deltas(i) BY DEF Giving, Blocks!Event, Deltas
<1> HIDE DEF e
<1>5. v \in Seq(Events) /\ More(o, e, v, Len(o)) BY <1>1, <1>3, MoreIs
<1>6. Fits(o, e) BY <1>3 DEF Fits
<1>7. Nests(v) BY <1>1, <1>3, <1>6, NestsMore
<1>8. Below(v, n)
      <2>1. n <= n BY <1>1
      <2>2. QED BY <1>1, <1>2, <1>3, <2>1, BelowMore
<1>9. Still(v) = Still(o) BY <1>1, <1>3, StillOther
<1>10. \A j \in Still(o) : v[j] = o[j] BY <1>5 DEF Still, More
<1>11. Held(v, i, t) BY <1>9, <1>10 DEF Held
<1>12. SentIn(v) = SentIn(o) BY <1>1, <1>3, SentMore
<1>13. ArgsIn(v, i) = Append(ArgsIn(o, i), f) BY <1>1, <1>3, <1>4, ArgsMore
<1>14. ASSUME NEW j \in Nat, j # i PROVE ArgsIn(v, j) = ArgsIn(o, j)
       <2>1. e \notin Deltas(j) BY <1>3, <1>14 DEF Deltas
       <2>2. QED BY <1>1, <1>3, <2>1, ArgsMore
<1>15. Good(v, n) BY <1>1, <1>5, <1>7, <1>8 DEF Good
<1>16. QED BY <1>11, <1>12, <1>13, <1>14, <1>15 DEF e

LEMMA Closed ==
    ASSUME NEW o, NEW n, NEW i, NEW t \in Blocks!Kinds, Good(o, n), Held(o, i, t)
    PROVE  /\ Good(Append(o, Closing(t, i)), n) /\ Shut(Append(o, Closing(t, i)))
           /\ SentIn(Append(o, Closing(t, i))) = SentIn(o) /\ SameArgs(o, Append(o, Closing(t, i)))
<1>1. o \in Seq(Events) /\ n \in Nat /\ Nests(o) /\ Below(o, n) BY DEF Good
<1>2. i \in Nat /\ i < n BY HeldBelow
<1> DEFINE e == Closing(t, i)
           v == Append(o, e)
<1>3. e \in Events /\ e.event = "close" /\ e.type = t /\ e.index = i
      <2>1. i \in Numbers /\ NULL \in Numbers BY <1>2 DEF Numbers
      <2>2. QED BY <2>1, EventIs DEF Closing
<1> HIDE DEF e
<1>4. v \in Seq(Events) BY <1>1, <1>3, MoreIs
<1>5. Fits(o, e) BY <1>3 DEF Fits
<1>6. Nests(v) BY <1>1, <1>3, <1>5, NestsMore
<1>7. n <= n BY <1>1
<1>8. Below(v, n) BY <1>1, <1>3, <1>7, BelowMore
<1>9. Shut(v) BY <1>1, <1>3, StillClose
<1>10. SentIn(v) = SentIn(o) BY <1>1, <1>3, SentMore
<1>11. \A j \in Nat : e \notin Deltas(j) BY <1>3 DEF Deltas
<1>12. SameArgs(o, v) BY <1>1, <1>3, <1>11, ArgsMore DEF SameArgs
<1>13. Good(v, n) BY <1>1, <1>4, <1>6, <1>8 DEF Good
<1>14. QED BY <1>9, <1>10, <1>12, <1>13 DEF e

LEMMA Said ==
    ASSUME NEW o, NEW n, Good(o, n), Shut(o), NEW x \in {"message_start", "message_delta", "message_stop"}
    PROVE  /\ Good(Append(o, Saying(x)), n) /\ Shut(Append(o, Saying(x)))
           /\ SentIn(Append(o, Saying(x))) = SentIn(o) /\ SameArgs(o, Append(o, Saying(x)))
<1>1. o \in Seq(Events) /\ n \in Nat /\ Nests(o) /\ Below(o, n) BY DEF Good
<1> DEFINE e == Saying(x)
           v == Append(o, e)
<1>2. e \in Events /\ e.event \notin {"open", "close", "delta"}
      <2>1. NULL \in Numbers BY DEF Numbers
      <2>2. e \in Events /\ e.event = x BY <2>1, EventIs DEF Saying
      <2>3. QED BY <2>2
<1> HIDE DEF e
<1>3. v \in Seq(Events) BY <1>1, <1>2, MoreIs
<1>4. Fits(o, e) BY <1>2 DEF Fits
<1>5. Nests(v) BY <1>1, <1>2, <1>4, NestsMore
<1>6. n <= n BY <1>1
<1>7. Below(v, n) BY <1>1, <1>2, <1>6, BelowMore
<1>8. Shut(v) BY <1>1, <1>2, StillOther DEF Shut
<1>9. SentIn(v) = SentIn(o) BY <1>1, <1>2, SentMore
<1>10. \A j \in Nat : e \notin Deltas(j) BY <1>2 DEF Deltas
<1>11. SameArgs(o, v) BY <1>1, <1>2, <1>10, ArgsMore DEF SameArgs
<1>12. Good(v, n) BY <1>1, <1>3, <1>5, <1>7 DEF Good
<1>13. QED BY <1>8, <1>9, <1>11, <1>12 DEF e

(***************************************************************************)
(* AnthropicStream: the consumer's state, field by field.                  *)
(***************************************************************************)
Keys == ToolKeys \cup {0}
Tools == [key : Keys, id : BOOLEAN, args : Seq(Nat)]
Local == [started : BOOLEAN, terminated : BOOLEAN, next : Nat, thinking : Numbers, text : Numbers,
          tools : Seq(Tools), last : Keys \cup {NULL}]
Consumer == [s : Local, o : Seq(Events)]

\* d is c after n more blocks, with th and tx the blocks open and o the events.
Becomes(c, d, started, n, th, tx, o) ==
    /\ d \in Consumer /\ d.o = o
    /\ d.s.started = started /\ d.s.terminated = c.s.terminated /\ d.s.next = n
    /\ d.s.thinking = th /\ d.s.text = tx /\ d.s.tools = c.s.tools /\ d.s.last = c.s.last

LEMMA StartIs ==
    ASSUME NEW c \in Consumer, ~c.s.started, Append(c.o, Saying("message_start")) \in Seq(Events)
    PROVE  Becomes(c, Blocks!MessageStart(c), TRUE, c.s.next, c.s.thinking, c.s.text,
                   Append(c.o, Saying("message_start")))
<1> DEFINE v == Append(c.o, Saying("message_start"))
<1>1. Blocks!MessageStart(c) = [s |-> [c.s EXCEPT !.started = TRUE], o |-> v]
      BY DEF Blocks!MessageStart, Blocks!At, Saying
<1> HIDE DEF v
<1>2. c.s \in Local BY DEF Consumer
<1>3. v \in Seq(Events) BY DEF v
<1>4. [c.s EXCEPT !.started = TRUE] \in Local BY <1>2 DEF Local
<1>5. QED BY <1>1, <1>2, <1>3, <1>4 DEF Becomes, Consumer, Local, v

LEMMA OpenIs ==
    ASSUME NEW c \in Consumer, NEW sort \in {"thinking", "text"}, c.s[sort] = NULL,
           Append(c.o, Opening(sort, c.s.next)) \in Seq(Events)
    PROVE  Becomes(c, Blocks!OpenBlock(c, sort), c.s.started, c.s.next + 1,
                   IF sort = "thinking" THEN c.s.next ELSE c.s.thinking,
                   IF sort = "text" THEN c.s.next ELSE c.s.text,
                   Append(c.o, Opening(sort, c.s.next)))
<1> DEFINE v == Append(c.o, Opening(sort, c.s.next))
           r == [c.s EXCEPT ![sort] = c.s.next, !.next = c.s.next + 1]
           d == [s |-> r, o |-> v]
<1>1. Blocks!OpenBlock(c, sort) = d BY DEF Blocks!OpenBlock, Blocks!At, Opening
<1>2. c.s \in Local BY DEF Consumer
<1>3. v \in Seq(Events) OBVIOUS
<1> HIDE DEF v
<1>4. /\ r \in Local /\ r.started = c.s.started /\ r.terminated = c.s.terminated /\ r.next = c.s.next + 1
      /\ r.thinking = (IF sort = "thinking" THEN c.s.next ELSE c.s.thinking)
      /\ r.text = (IF sort = "text" THEN c.s.next ELSE c.s.text)
      /\ r.tools = c.s.tools /\ r.last = c.s.last
      <2>1. c.s.next \in Numbers /\ c.s.next + 1 \in Nat BY <1>2 DEF Local, Numbers
      <2>2. CASE sort = "thinking"
            <3>1. r = [[c.s EXCEPT !.thinking = c.s.next] EXCEPT !.next = c.s.next + 1] BY <2>2, Zenon
            <3>2. [c.s EXCEPT !.thinking = c.s.next] \in Local BY <1>2, <2>1 DEF Local
            <3>3. QED BY <1>2, <2>1, <2>2, <3>1, <3>2 DEF Local
      <2>3. CASE sort = "text"
            <3>1. r = [[c.s EXCEPT !.text = c.s.next] EXCEPT !.next = c.s.next + 1] BY <2>3, Zenon
            <3>2. [c.s EXCEPT !.text = c.s.next] \in Local BY <1>2, <2>1 DEF Local
            <3>3. QED BY <1>2, <2>1, <2>3, <3>1, <3>2 DEF Local
      <2>4. QED BY <2>2, <2>3
<1> HIDE DEF r
<1>5. d \in Consumer BY <1>3, <1>4 DEF Consumer
<1>6. d.s = r /\ d.o = v OBVIOUS
<1> HIDE DEF d
<1>7. QED BY <1>1, <1>4, <1>5, <1>6, Zenon DEF Becomes, v

LEMMA CloseIs ==
    ASSUME NEW c \in Consumer, NEW sort \in {"thinking", "text"}, c.s[sort] # NULL,
           Append(c.o, Closing(sort, c.s[sort])) \in Seq(Events)
    PROVE  Becomes(c, Blocks!CloseBlock(c, sort), c.s.started, c.s.next,
                   IF sort = "thinking" THEN NULL ELSE c.s.thinking,
                   IF sort = "text" THEN NULL ELSE c.s.text,
                   Append(c.o, Closing(sort, c.s[sort])))
<1> DEFINE v == Append(c.o, Closing(sort, c.s[sort]))
           r == [c.s EXCEPT ![sort] = NULL]
           d == [s |-> r, o |-> v]
<1>1. Blocks!CloseBlock(c, sort) = d BY DEF Blocks!CloseBlock, Blocks!At, Closing
<1>2. c.s \in Local /\ NULL \in Numbers BY DEF Consumer, Numbers
<1>3. v \in Seq(Events) OBVIOUS
<1> HIDE DEF v
<1>4. /\ r \in Local /\ r.started = c.s.started /\ r.terminated = c.s.terminated /\ r.next = c.s.next
      /\ r.thinking = (IF sort = "thinking" THEN NULL ELSE c.s.thinking)
      /\ r.text = (IF sort = "text" THEN NULL ELSE c.s.text)
      /\ r.tools = c.s.tools /\ r.last = c.s.last
      <2>1. CASE sort = "thinking"
            <3>1. r = [c.s EXCEPT !.thinking = NULL] BY <2>1
            <3>2. QED BY <1>2, <2>1, <3>1 DEF Local
      <2>2. CASE sort = "text"
            <3>1. r = [c.s EXCEPT !.text = NULL] BY <2>2
            <3>2. QED BY <1>2, <2>2, <3>1 DEF Local
      <2>3. QED BY <2>1, <2>2
<1> HIDE DEF r
<1>5. d \in Consumer BY <1>3, <1>4 DEF Consumer
<1>6. d.s = r /\ d.o = v OBVIOUS
<1> HIDE DEF d
<1>7. QED BY <1>1, <1>4, <1>5, <1>6, Zenon DEF Becomes, v

LEMMA DeltaIs ==
    ASSUME NEW c \in Consumer, NEW sort \in {"thinking", "text"},
           Append(c.o, Giving(sort, c.s[sort], NULL)) \in Seq(Events)
    PROVE  Becomes(c, Blocks!Delta(c, sort), c.s.started, c.s.next, c.s.thinking, c.s.text,
                   Append(c.o, Giving(sort, c.s[sort], NULL)))
<1> DEFINE v == Append(c.o, Giving(sort, c.s[sort], NULL))
           d == [s |-> c.s, o |-> v]
<1>1. Blocks!Delta(c, sort) = d BY DEF Blocks!Delta, Blocks!At, Giving
<1>2. v \in Seq(Events) OBVIOUS
<1> HIDE DEF v
<1>3. d \in Consumer /\ d.s = c.s /\ d.o = v BY <1>2 DEF Consumer
<1> HIDE DEF d
<1>4. QED BY <1>1, <1>3, Zenon DEF Becomes, v

\* At most one of text and reasoning is being written; what is open says which.
Tidy(c) ==
    /\ c \in Consumer /\ Good(c.o, c.s.next)
    /\ \/ c.s.thinking = NULL /\ c.s.text = NULL /\ Shut(c.o)
       \/ /\ c.s.started /\ c.s.thinking # NULL /\ c.s.text = NULL
          /\ Held(c.o, c.s.thinking, "thinking") /\ c.s.thinking \notin SentIn(c.o)
       \/ /\ c.s.started /\ c.s.thinking = NULL /\ c.s.text # NULL
          /\ Held(c.o, c.s.text, "text") /\ c.s.text \notin SentIn(c.o)

SameTools(o, v) == SentIn(v) = SentIn(o) /\ \A i \in SentIn(o) : ArgsIn(v, i) = ArgsIn(o, i)
Keeps(c, d) ==
    /\ d.s.tools = c.s.tools /\ d.s.last = c.s.last /\ d.s.terminated = c.s.terminated
    /\ SameTools(c.o, d.o)

LEMMA KeepsMore ==
    ASSUME NEW b, NEW c, NEW d, Keeps(b, c), Keeps(c, d)
    PROVE  Keeps(b, d)
BY DEF Keeps, SameTools

LEMMA KeepsSame == ASSUME NEW c PROVE Keeps(c, c)
BY DEF Keeps, SameTools

LEMMA SentNumbers == ASSUME NEW o, NEW n, Good(o, n) PROVE SentIn(o) \subseteq 0..n - 1
<1>1. n \in Nat /\ Below(o, n) BY DEF Good
<1>2. \A j \in ToolOpens(o) : o[j].index \in Nat /\ o[j].index < n BY <1>1 DEF Below, ToolOpens
<1>3. QED BY <1>1, <1>2 DEF SentIn

LEMMA StartKeeps ==
    ASSUME BlockBounds, NEW c, Tidy(c)
    PROVE  Tidy(Blocks!MessageStart(c)) /\ Keeps(c, Blocks!MessageStart(c))
           /\ Blocks!MessageStart(c).s.started
<1>1. c \in Consumer /\ Good(c.o, c.s.next) BY DEF Tidy
<1>2. CASE c.s.started
      <2>1. Blocks!MessageStart(c) = c BY <1>2 DEF Blocks!MessageStart
      <2>2. QED BY <1>2, <2>1, KeepsSame
<1>3. CASE ~c.s.started
      <2>1. Shut(c.o) /\ c.s.thinking = NULL /\ c.s.text = NULL BY <1>3 DEF Tidy
      <2> DEFINE v == Append(c.o, Saying("message_start"))
                 d == Blocks!MessageStart(c)
      <2>2. Good(v, c.s.next) /\ Shut(v) /\ SentIn(v) = SentIn(c.o) /\ SameArgs(c.o, v) BY <1>1, <2>1, Said
      <2>3. Becomes(c, d, TRUE, c.s.next, c.s.thinking, c.s.text, v) BY <1>1, <1>3, <2>2, StartIs DEF Good
      <2> HIDE DEF v, d
      <2>4. SameTools(c.o, v) BY <1>1, <2>2, SentNumbers DEF SameTools, SameArgs
      <2>5. Tidy(d) BY <2>1, <2>2, <2>3 DEF Tidy, Becomes
      <2>6. Keeps(c, d) /\ d.s.started BY <2>3, <2>4 DEF Keeps, Becomes
      <2>7. QED BY <2>5, <2>6 DEF d
<1>4. QED BY <1>2, <1>3

\* A block of this kind is open, or none of the other kind is.
Writing(c, sort) ==
    /\ Tidy(c) /\ c.s.started
    /\ IF sort = "thinking" THEN c.s.thinking # NULL /\ c.s.text = NULL
       ELSE c.s.thinking = NULL /\ c.s.text # NULL
MayWrite(c, sort) ==
    Tidy(c) /\ c.s.started /\ (IF sort = "thinking" THEN c.s.text = NULL ELSE c.s.thinking = NULL)

LEMMA WritingIs ==
    ASSUME NEW c, NEW sort \in {"thinking", "text"}, Writing(c, sort)
    PROVE  /\ c \in Consumer /\ Good(c.o, c.s.next) /\ Held(c.o, c.s[sort], sort)
           /\ c.s[sort] \notin SentIn(c.o) /\ c.s[sort] # NULL
<1>1. CASE sort = "thinking" BY <1>1 DEF Writing, Tidy
<1>2. CASE sort = "text" BY <1>2 DEF Writing, Tidy
<1>3. QED BY <1>1, <1>2

LEMMA OpenKeeps ==
    ASSUME BlockBounds, NEW c, NEW sort \in {"thinking", "text"}, MayWrite(c, sort)
    PROVE  Writing(Blocks!OpenBlock(c, sort), sort) /\ Keeps(c, Blocks!OpenBlock(c, sort))
<1>1. c \in Consumer /\ Good(c.o, c.s.next) /\ c.s.started BY DEF MayWrite, Tidy
<1>2. CASE c.s[sort] # NULL
      <2>1. Blocks!OpenBlock(c, sort) = c BY <1>2 DEF Blocks!OpenBlock
      <2>2. Writing(c, sort) BY <1>2 DEF Writing, MayWrite
      <2>3. QED BY <2>1, <2>2, KeepsSame
<1>3. CASE c.s[sort] = NULL
      <2>1. Shut(c.o) /\ c.s.thinking = NULL /\ c.s.text = NULL BY <1>3 DEF MayWrite, Tidy
      <2> DEFINE n == c.s.next
                 v == Append(c.o, Opening(sort, n))
                 d == Blocks!OpenBlock(c, sort)
      <2>2. sort \in Blocks!Kinds /\ sort # "tool" BY DEF Blocks!Kinds
      <2>3. Good(v, n + 1) /\ Held(v, n, sort) /\ SameArgs(c.o, v) /\ SentIn(v) = SentIn(c.o) /\ n \notin SentIn(c.o)
            BY <1>1, <2>1, <2>2, Opened
      <2>4. v \in Seq(Events) BY <2>3 DEF Good
      <2>5. Becomes(c, d, c.s.started, n + 1, IF sort = "thinking" THEN n ELSE c.s.thinking,
                    IF sort = "text" THEN n ELSE c.s.text, v)
            BY <1>1, <1>3, <2>4, OpenIs
      <2>6. n \in Nat /\ n # NULL BY <1>1 DEF Good, BlockBounds
      <2>7. SameTools(c.o, v) BY <1>1, <2>3, SentNumbers DEF SameTools, SameArgs
      <2> HIDE DEF v, d
      <2>8. Keeps(c, d) BY <2>5, <2>7 DEF Keeps, Becomes
      <2>9. CASE sort = "thinking" BY <1>1, <2>1, <2>3, <2>5, <2>6, <2>8, <2>9 DEF Writing, Tidy, Becomes, d
      <2>10. CASE sort = "text" BY <1>1, <2>1, <2>3, <2>5, <2>6, <2>8, <2>10 DEF Writing, Tidy, Becomes, d
      <2>11. QED BY <2>9, <2>10
<1>4. QED BY <1>2, <1>3

LEMMA DeltaKeeps ==
    ASSUME BlockBounds, NEW c, NEW sort \in {"thinking", "text"}, Writing(c, sort)
    PROVE  Writing(Blocks!Delta(c, sort), sort) /\ Keeps(c, Blocks!Delta(c, sort))
<1>1. /\ c \in Consumer /\ Good(c.o, c.s.next) /\ Held(c.o, c.s[sort], sort)
      /\ c.s[sort] \notin SentIn(c.o) /\ c.s[sort] # NULL
      BY WritingIs
<1> DEFINE i == c.s[sort]
           v == Append(c.o, Giving(sort, i, NULL))
           d == Blocks!Delta(c, sort)
<1>2. sort \in Blocks!Kinds /\ NULL \in Numbers BY DEF Blocks!Kinds, Numbers
<1>3. /\ Good(v, c.s.next) /\ Held(v, i, sort) /\ SentIn(v) = SentIn(c.o)
      /\ \A j \in Nat : j # i => ArgsIn(v, j) = ArgsIn(c.o, j)
      BY <1>1, <1>2, Gave
<1>4. v \in Seq(Events) BY <1>3 DEF Good
<1>5. Becomes(c, d, c.s.started, c.s.next, c.s.thinking, c.s.text, v) BY <1>1, <1>4, DeltaIs
<1>6. SameTools(c.o, v)
      <2>1. SentIn(c.o) \subseteq Nat /\ i \notin SentIn(c.o) BY <1>1, SentNumbers DEF Good
      <2>2. QED BY <1>3, <2>1 DEF SameTools
<1> HIDE DEF v, d
<1>7. Keeps(c, d) BY <1>5, <1>6 DEF Keeps, Becomes
<1>8. CASE sort = "thinking" BY <1>1, <1>3, <1>5, <1>7, <1>8 DEF Writing, Tidy, Becomes, d
<1>9. CASE sort = "text" BY <1>1, <1>3, <1>5, <1>7, <1>9 DEF Writing, Tidy, Becomes, d
<1>10. QED BY <1>8, <1>9

LEMMA CloseKeeps ==
    ASSUME BlockBounds, NEW c, NEW sort \in {"thinking", "text"}, Tidy(c)
    PROVE  LET d == Blocks!CloseBlock(c, sort) IN
           /\ Tidy(d) /\ Keeps(c, d) /\ d.s.started = c.s.started
           /\ d.s[sort] = NULL
           /\ c.s.thinking = NULL => d.s.thinking = NULL
<1>1. c \in Consumer /\ Good(c.o, c.s.next) BY DEF Tidy
<1>2. CASE c.s[sort] = NULL
      <2>1. Blocks!CloseBlock(c, sort) = c BY <1>2 DEF Blocks!CloseBlock
      <2>2. QED BY <1>2, <2>1, KeepsSame
<1>3. CASE c.s[sort] # NULL
      <2>1. /\ Writing(c, sort)
            /\ sort = "thinking" => c.s.text = NULL
            /\ sort = "text" => c.s.thinking = NULL
            BY <1>3 DEF Writing, Tidy
      <2> DEFINE i == c.s[sort]
                 v == Append(c.o, Closing(sort, i))
                 d == Blocks!CloseBlock(c, sort)
      <2>2. sort \in Blocks!Kinds BY DEF Blocks!Kinds
      <2>3. Held(c.o, i, sort) BY <2>1, WritingIs
      <2>4. Good(v, c.s.next) /\ Shut(v) /\ SentIn(v) = SentIn(c.o) /\ SameArgs(c.o, v)
            BY <1>1, <2>2, <2>3, Closed
      <2>5. v \in Seq(Events) BY <2>4 DEF Good
      <2>6. Becomes(c, d, c.s.started, c.s.next, IF sort = "thinking" THEN NULL ELSE c.s.thinking,
                    IF sort = "text" THEN NULL ELSE c.s.text, v)
            BY <1>1, <1>3, <2>5, CloseIs
      <2>7. SameTools(c.o, v) BY <1>1, <2>4, SentNumbers DEF SameTools, SameArgs
      <2> HIDE DEF v, d
      <2>8. Keeps(c, d) BY <2>6, <2>7 DEF Keeps, Becomes
      <2>9. d.s.thinking = NULL /\ d.s.text = NULL BY <2>1, <2>6 DEF Becomes
      <2>10. Tidy(d) /\ d.s.started = c.s.started BY <2>4, <2>6, <2>9 DEF Tidy, Becomes
      <2>11. QED BY <2>8, <2>9, <2>10 DEF d
<1>4. QED BY <1>2, <1>3

LEMMA ReasonKeeps ==
    ASSUME BlockBounds, NEW c, Tidy(c), c.s.started
    PROVE  Tidy(Blocks!Reason(c)) /\ Blocks!Reason(c).s.started /\ Keeps(c, Blocks!Reason(c))
<1>1. CASE c.s.text # NULL \/ c.s.tools # <<>>
      <2>1. Blocks!Reason(c) = c BY <1>1 DEF Blocks!Reason
      <2>2. QED BY <2>1, KeepsSame
<1>2. CASE ~(c.s.text # NULL \/ c.s.tools # <<>>)
      <2> DEFINE d == Blocks!OpenBlock(c, "thinking")
                 e == Blocks!Delta(d, "thinking")
      <2>1. MayWrite(c, "thinking") BY <1>2 DEF MayWrite
      <2>2. Writing(d, "thinking") /\ Keeps(c, d) BY <2>1, OpenKeeps
      <2> HIDE DEF d
      <2>3. Writing(e, "thinking") /\ Keeps(d, e) BY <2>2, DeltaKeeps
      <2>4. Blocks!Reason(c) = e BY <1>2 DEF Blocks!Reason, d
      <2> HIDE DEF e
      <2>5. QED BY <2>2, <2>3, <2>4, KeepsMore DEF Writing
<1>3. QED BY <1>1, <1>2

LEMMA SayKeeps ==
    ASSUME BlockBounds, NEW c, Tidy(c), c.s.started
    PROVE  Tidy(Blocks!Say(c)) /\ Blocks!Say(c).s.started /\ Keeps(c, Blocks!Say(c))
<1> DEFINE b == Blocks!CloseBlock(c, "thinking")
           d == Blocks!OpenBlock(b, "text")
           e == Blocks!Delta(d, "text")
<1>1. Tidy(b) /\ Keeps(c, b) /\ b.s.started /\ b.s.thinking = NULL
      <2>1. b.s["thinking"] = NULL /\ Tidy(b) /\ Keeps(c, b) /\ b.s.started = c.s.started BY CloseKeeps
      <2>2. QED BY <2>1
<1> HIDE DEF b
<1>2. MayWrite(b, "text") BY <1>1 DEF MayWrite
<1>3. Writing(d, "text") /\ Keeps(b, d) BY <1>2, OpenKeeps
<1> HIDE DEF d
<1>4. Writing(e, "text") /\ Keeps(d, e) BY <1>3, DeltaKeeps
<1> HIDE DEF e
<1>5. Blocks!Say(c) = e BY DEF Blocks!Say, b, d, e
<1>6. Keeps(c, d) BY <1>1, <1>3, KeepsMore
<1>7. QED BY <1>4, <1>5, <1>6, KeepsMore DEF Writing

LEMMA CloseBlocksKeeps ==
    ASSUME BlockBounds, NEW c, Tidy(c)
    PROVE  LET d == Blocks!CloseBlocks(c) IN
           /\ Tidy(d) /\ Keeps(c, d) /\ d.s.started = c.s.started
           /\ d.s.thinking = NULL /\ d.s.text = NULL
<1> DEFINE b == Blocks!CloseBlock(c, "thinking")
           d == Blocks!CloseBlock(b, "text")
<1>1. Tidy(b) /\ Keeps(c, b) /\ b.s.started = c.s.started /\ b.s.thinking = NULL
      <2>1. b.s["thinking"] = NULL /\ Tidy(b) /\ Keeps(c, b) /\ b.s.started = c.s.started BY CloseKeeps
      <2>2. QED BY <2>1
<1> HIDE DEF b
<1>2. /\ Tidy(d) /\ Keeps(b, d) /\ d.s.started = b.s.started /\ d.s["text"] = NULL
      /\ b.s.thinking = NULL => d.s.thinking = NULL
      BY <1>1, CloseKeeps
<1> HIDE DEF d
<1>3. d = Blocks!CloseBlocks(c) BY DEF Blocks!CloseBlocks, b, d
<1>4. d.s.text = NULL BY <1>2
<1>5. QED BY <1>1, <1>2, <1>3, <1>4, KeepsMore

(***************************************************************************)
(* AnthropicStream: the tool fragments.  Until the message ends, the       *)
(* consumer holds a tool per index received, with every argument fragment  *)
(* of that index; the first fragments tell the tools apart.                *)
(***************************************************************************)
Pieced == [key : Keys, id : BOOLEAN, arg : Nat]
OfKey(k) == [key : {k}, id : BOOLEAN, arg : Nat]
ArgumentsOf(s) == [d \in DOMAIN s |-> s[d].arg]
Given(w, k) == ArgumentsOf(Among(w, OfKey(k)))
Named(w) == {k \in {w[i].key : i \in DOMAIN w} : \E i \in DOMAIN w : w[i].key = k /\ w[i].id}

LEMMA ArgumentsMore ==
    ASSUME NEW s \in Seq(Pieced), NEW x \in Pieced
    PROVE  /\ ArgumentsOf(s) \in Seq(Nat)
           /\ ArgumentsOf(Append(s, x)) = Append(ArgumentsOf(s), x.arg)
<1> DEFINE v == Append(s, x)
           n == Len(s)
           a == ArgumentsOf(s)
           b == ArgumentsOf(v)
<1>1. v \in Seq(Pieced) /\ More(s, x, v, n) BY MoreIs
<1>2. \A e \in Pieced : e.arg \in Nat BY DEF Pieced
<1>3. (\A j \in 1..n : s[j] \in Pieced) /\ n \in Nat BY ElementIn, <1>1 DEF More
<1> HIDE DEF v, n
<1>4. DOMAIN s = 1..n /\ DOMAIN v = 1..n + 1 /\ v[n + 1] = x /\ \A j \in 1..n : v[j] = s[j]
      BY <1>1 DEF More
<1>5. a = [d \in 1..n |-> s[d].arg] /\ b = [d \in 1..n + 1 |-> v[d].arg]
      BY <1>4 DEF ArgumentsOf
<1>6. a \in Seq(Nat) /\ Len(a) = n
      <2>1. \A d \in 1..n : s[d].arg \in Nat BY <1>2, <1>3
      <2>2. QED BY <1>3, <1>5, <2>1
<1>7. More(a, x.arg, Append(a, x.arg), n) /\ Append(a, x.arg) \in Seq(Nat)
      BY <1>2, <1>6, MoreIs
<1> DEFINE u == Append(a, x.arg)
<1> HIDE DEF u
<1>8. b \in Seq(Nat) /\ Len(b) = n + 1
      <2>1. \A d \in 1..n + 1 : d = n + 1 \/ d \in 1..n BY <1>3
      <2>2. \A d \in 1..n + 1 : v[d].arg \in Nat BY <1>2, <1>3, <1>4, <2>1
      <2>3. QED BY <1>3, <1>5, <2>2
<1>9. \A d \in 1..n + 1 : u[d] = b[d]
      <2>1. \A d \in 1..n : u[d] = a[d] /\ a[d] = s[d].arg /\ b[d] = s[d].arg
            BY <1>3, <1>4, <1>5, <1>7 DEF More, u
      <2>2. u[n + 1] = x.arg /\ b[n + 1] = x.arg BY <1>3, <1>4, <1>5, <1>7 DEF More, u
      <2>3. \A d \in 1..n + 1 : d = n + 1 \/ d \in 1..n BY <1>3
      <2>4. QED BY <2>1, <2>2, <2>3
<1>10. u \in Seq(Nat) /\ Len(u) = n + 1 BY <1>7 DEF More, u
<1>11. u = b BY <1>8, <1>9, <1>10, SeqEqual
<1>12. QED BY <1>6, <1>11 DEF u, v

LEMMA GivenMore ==
    ASSUME NEW w \in Seq(Pieced), NEW x \in Pieced, NEW k
    PROVE  /\ Given(w, k) \in Seq(Nat)
           /\ x.key = k => Given(Append(w, x), k) = Append(Given(w, k), x.arg)
           /\ x.key # k => Given(Append(w, x), k) = Given(w, k)
<1>1. Among(w, OfKey(k)) \in Seq(Pieced) BY AmongType
<1>2. x \in OfKey(k) <=> x.key = k BY DEF Pieced, OfKey
<1>3. CASE x.key = k
      <2>1. Among(Append(w, x), OfKey(k)) = Append(Among(w, OfKey(k)), x) BY <1>2, <1>3, AmongAppend
      <2>2. QED BY <1>1, <1>3, <2>1, ArgumentsMore DEF Given
<1>4. CASE x.key # k
      <2>1. Among(Append(w, x), OfKey(k)) = Among(w, OfKey(k)) BY <1>2, <1>4, AmongAppend
      <2>2. QED BY <1>1, <1>4, <2>1, ArgumentsMore DEF Given
<1>5. QED BY <1>3, <1>4

LEMMA GivenNone ==
    ASSUME NEW w \in Seq(Pieced), NEW k, \A i \in DOMAIN w : w[i].key # k
    PROVE  Given(w, k) = <<>>
<1>1. \A i \in DOMAIN w : w[i] \notin OfKey(k) BY DEF OfKey
<1>2. Among(w, OfKey(k)) = <<>> BY <1>1, AmongNone
<1>3. ArgumentsOf(<<>>) = [d \in {} |-> <<>>[d].arg]
      <2>1. DOMAIN <<>> = {} BY EmptySeq
      <2>2. QED BY <2>1 DEF ArgumentsOf
<1>4. ArgumentsOf(<<>>) = <<>> BY <1>3
<1>5. QED BY <1>2, <1>4 DEF Given

LEMMA NamedMore ==
    ASSUME NEW w \in Seq(Pieced), NEW x \in Pieced
    PROVE  Named(Append(w, x)) = IF x.id THEN Named(w) \cup {x.key} ELSE Named(w)
<1> DEFINE v == Append(w, x)
           n == Len(w)
<1>1. More(w, x, v, n) BY MoreIs
<1> HIDE DEF v, n
<1>2. /\ DOMAIN w = 1..n /\ DOMAIN v = 1..n + 1 /\ v[n + 1] = x /\ \A j \in 1..n : v[j] = w[j]
      /\ n + 1 \in 1..n + 1 /\ (\A j \in 1..n + 1 : j = n + 1 \/ j \in 1..n) /\ (\A j \in 1..n : j \in 1..n + 1)
      BY <1>1 DEF More
<1>3. Named(w) = {w[i].key : i \in {j \in 1..n : w[j].id}} BY <1>2 DEF Named
<1>4. Named(v) = {v[i].key : i \in {j \in 1..n + 1 : v[j].id}} BY <1>2 DEF Named
<1>5. CASE x.id
      <2>1. {j \in 1..n + 1 : v[j].id} = {j \in 1..n : w[j].id} \cup {n + 1} BY <1>2, <1>5
      <2>2. \A j \in {j \in 1..n : w[j].id} : v[j] = w[j] BY <1>2
      <2> HIDE <1>2
      <2>3. Named(v) = Named(w) \cup {x.key} BY <1>2, <1>3, <1>4, <2>1, <2>2
      <2>4. QED BY <1>5, <2>3 DEF v
<1>6. CASE ~x.id
      <2>1. {j \in 1..n + 1 : v[j].id} = {j \in 1..n : w[j].id} BY <1>2, <1>6
      <2>2. \A j \in {j \in 1..n : w[j].id} : v[j] = w[j] BY <1>2
      <2>3. Named(v) = Named(w) BY <1>3, <1>4, <2>1, <2>2
      <2>4. QED BY <1>6, <2>3 DEF v
<1>7. QED BY <1>5, <1>6

Gathers(tools, w) ==
    /\ \A i, j \in DOMAIN tools : i # j => tools[i].key # tools[j].key
    /\ \A i \in DOMAIN w : \E j \in DOMAIN tools : tools[j].key = w[i].key
    /\ \A j \in DOMAIN tools : /\ tools[j].id <=> tools[j].key \in Named(w)
                               /\ tools[j].args = Given(w, tools[j].key)
Heads(tools, n) ==
    \A i \in DOMAIN tools :
        /\ Len(tools[i].args) > 0 /\ tools[i].args[1] <= n
        /\ \A j \in DOMAIN tools : i # j => tools[i].args[1] # tools[j].args[1]

\* u is the tool t with the fragment f.
Adds(t, f, u) ==
    u \in Tools /\ u.key = t.key /\ (u.id <=> t.id \/ f.id) /\ u.args = Append(t.args, f.arg)
Takes(tools, k, f, taken) ==
    /\ taken \in Seq(Tools)
    /\ \/ /\ \A i \in DOMAIN tools : tools[i].key # k
          /\ \E u : /\ More(tools, u, taken, Len(tools))
                    /\ u \in Tools /\ u.key = k /\ (u.id <=> f.id) /\ u.args = <<f.arg>>
       \/ \E h \in DOMAIN tools :
             /\ tools[h].key = k /\ DOMAIN taken = DOMAIN tools
             /\ Adds(tools[h], f, taken[h])
             /\ \A i \in DOMAIN tools : i # h => taken[i] = tools[i]

LEMMA FirstStays ==
    ASSUME NEW a \in Seq(Nat), Len(a) > 0, NEW x \in Nat
    PROVE  Append(a, x) \in Seq(Nat) /\ Len(Append(a, x)) > 0 /\ Append(a, x)[1] = a[1] /\ a[1] \in Nat
<1>1. Len(a) \in Nat /\ 1 \in 1..Len(a) BY LenProperties
<1>2. QED BY <1>1, AppendProperties, ElementOfSeq

LEMMA TakesGathers ==
    ASSUME NEW tools \in Seq(Tools), NEW w \in Seq(Pieced), NEW n \in Nat, Gathers(tools, w), Heads(tools, n),
           NEW k \in Keys, NEW f, f.arg = n + 1, NEW x \in Pieced, x.key = k, x.id <=> f.id, x.arg = f.arg,
           NEW taken, Takes(tools, k, f, taken)
    PROVE  Gathers(taken, Append(w, x)) /\ Heads(taken, n + 1)
<1> DEFINE v == Append(w, x)
           l == Len(w)
<1>1. v \in Seq(Pieced) /\ More(w, x, v, l) BY MoreIs
<1>2. \A j \in Keys : /\ Given(w, j) \in Seq(Nat)
                      /\ j = k => Given(v, j) = Append(Given(w, j), n + 1)
                      /\ j # k => Given(v, j) = Given(w, j)
      BY GivenMore
<1>3. Named(v) = IF f.id THEN Named(w) \cup {k} ELSE Named(w) BY NamedMore
<1>4. \A i \in DOMAIN v : v[i].key = k \/ \E j \in DOMAIN tools : tools[j].key = v[i].key
      <2>1. \A i \in 1..l + 1 : i = l + 1 \/ i \in 1..l BY <1>1 DEF More
      <2>2. DOMAIN v = 1..l + 1 /\ v[l + 1] = x /\ DOMAIN w = 1..l /\ \A i \in 1..l : v[i] = w[i]
            BY <1>1 DEF More
      <2>3. QED BY <2>1, <2>2 DEF Gathers
<1>5. \A i \in DOMAIN tools : tools[i] \in Tools /\ tools[i].key \in Keys
      <2>1. \A i \in DOMAIN tools : tools[i] \in Tools BY ElementIn
      <2>2. \A t \in Tools : t.key \in Keys BY DEF Tools
      <2>3. QED BY <2>1, <2>2
<1> HIDE DEF v
<1>6. CASE \E u : /\ More(tools, u, taken, Len(tools))
                  /\ u \in Tools /\ u.key = k /\ (u.id <=> f.id) /\ u.args = <<n + 1>>
                  /\ \A i \in DOMAIN tools : tools[i].key # k
      <2> DEFINE c == Len(tools)
      <2>1. PICK u : /\ More(tools, u, taken, c)
                     /\ u \in Tools /\ u.key = k /\ (u.id <=> f.id) /\ u.args = <<n + 1>>
                     /\ \A i \in DOMAIN tools : tools[i].key # k
            BY <1>6
      <2> HIDE DEF c
      <2>2. /\ DOMAIN tools = 1..c /\ DOMAIN taken = 1..c + 1 /\ taken[c + 1] = u
            /\ (\A i \in 1..c : taken[i] = tools[i]) /\ (\A i \in 1..c + 1 : i = c + 1 \/ i \in 1..c)
            /\ c + 1 \in 1..c + 1 /\ (\A i \in 1..c : i \in 1..c + 1) /\ c + 1 \notin 1..c
            BY <2>1 DEF More
      <2>3. \A i \in DOMAIN w : w[i].key # k BY <2>1 DEF Gathers
      <2>4. Given(w, k) = <<>> /\ k \notin Named(w) BY <2>3, GivenNone DEF Named
      <2>5. Given(v, k) = <<n + 1>>
            <3>1. Append(<<>>, n + 1) = <<n + 1>> OBVIOUS
            <3>2. QED BY <1>2, <2>4, <3>1
      <2>6. \A j \in 1..c + 1 : (taken[j].id <=> taken[j].key \in Named(v)) /\ taken[j].args = Given(v, taken[j].key)
            <3>1. \A j \in 1..c : (tools[j].id <=> tools[j].key \in Named(w)) /\ tools[j].args = Given(w, tools[j].key)
                  BY <2>2 DEF Gathers
            <3>2. \A j \in 1..c : tools[j].key # k /\ tools[j].key \in Keys BY <1>5, <2>1, <2>2
            <3>3. \A j \in 1..c : /\ taken[j].id <=> taken[j].key \in Named(v)
                                  /\ taken[j].args = Given(v, taken[j].key)
                  BY <1>2, <1>3, <2>2, <3>1, <3>2
            <3>4. u.id <=> k \in Named(v) BY <1>3, <2>1, <2>4
            <3>5. QED BY <2>1, <2>2, <2>5, <3>3, <3>4
      <2>7. \A i, j \in 1..c + 1 : i # j => taken[i].key # taken[j].key
            <3>1. \A i, j \in 1..c : i # j => taken[i].key # taken[j].key BY <2>2 DEF Gathers
            <3>2. \A i \in 1..c : taken[i].key # u.key BY <2>1, <2>2
            <3>3. QED BY <2>2, <3>1, <3>2
      <2>8. \A i \in DOMAIN v : \E j \in 1..c + 1 : taken[j].key = v[i].key BY <1>4, <2>1, <2>2
      <2>9. Gathers(taken, v) BY <2>2, <2>6, <2>7, <2>8 DEF Gathers
      <2>10. \A i \in 1..c : Len(taken[i].args) > 0 /\ taken[i].args[1] \in Nat /\ taken[i].args[1] <= n
             <3>1. \A i \in 1..c : Len(tools[i].args) > 0 /\ tools[i].args[1] <= n BY <2>2 DEF Heads
             <3>2. \A i \in 1..c : tools[i].args \in Seq(Nat) BY <1>5, <2>2 DEF Tools
             <3>3. \A i \in 1..c : tools[i].args[1] \in Nat BY <3>1, <3>2, FirstStays
             <3>4. QED BY <2>2, <3>1, <3>3
      <2>11. Len(u.args) = 1 /\ u.args[1] = n + 1 BY <2>1
      <2>12. \A i, j \in 1..c : i # j => taken[i].args[1] # taken[j].args[1]
             <3>1. \A i, j \in 1..c : i # j => tools[i].args[1] # tools[j].args[1] BY <2>2 DEF Heads
             <3>2. QED BY <2>2, <3>1
      <2>13. \A i \in 1..c : taken[i].args[1] # n + 1 /\ taken[i].args[1] <= n + 1
             <3>1. \A q \in Nat : q <= n => q # n + 1 /\ q <= n + 1 OBVIOUS
             <3>2. QED BY <2>10, <3>1
      <2>14. Heads(taken, n + 1)
             <3>1. \A i \in 1..c + 1 : Len(taken[i].args) > 0 /\ taken[i].args[1] <= n + 1
                   <4>1. Len(u.args) > 0 /\ u.args[1] <= n + 1 BY <2>11
                   <4>2. QED BY <2>2, <2>10, <2>13, <4>1
             <3>2. \A i, j \in 1..c + 1 : i # j => taken[i].args[1] # taken[j].args[1]
                   BY <2>2, <2>11, <2>12, <2>13
             <3>3. QED BY <2>2, <3>1, <3>2 DEF Heads
      <2>15. QED BY <2>9, <2>14 DEF v
<1>7. CASE \E h \in DOMAIN tools :
             /\ tools[h].key = k /\ DOMAIN taken = DOMAIN tools
             /\ Adds(tools[h], f, taken[h])
             /\ \A i \in DOMAIN tools : i # h => taken[i] = tools[i]
      <2>1. PICK h \in DOMAIN tools :
             /\ tools[h].key = k /\ DOMAIN taken = DOMAIN tools
             /\ Adds(tools[h], f, taken[h])
             /\ \A i \in DOMAIN tools : i # h => taken[i] = tools[i]
            BY <1>7
      <2>2. \A i \in DOMAIN tools : taken[i].key = tools[i].key BY <2>1 DEF Adds
      <2>3. \A i \in DOMAIN tools : i # h => tools[i].key # k BY <2>1 DEF Gathers
      <2>4. \A j \in DOMAIN tools : (taken[j].id <=> taken[j].key \in Named(v)) /\ taken[j].args = Given(v, taken[j].key)
            <3>1. \A j \in DOMAIN tools : (tools[j].id <=> tools[j].key \in Named(w)) /\ tools[j].args = Given(w, tools[j].key)
                  BY DEF Gathers
            <3>2. ASSUME NEW j \in DOMAIN tools, j # h
                  PROVE  (taken[j].id <=> taken[j].key \in Named(v)) /\ taken[j].args = Given(v, taken[j].key)
                  BY <1>2, <1>3, <1>5, <2>1, <2>3, <3>1, <3>2
            <3>3. taken[h].id <=> k \in Named(v) BY <1>3, <2>1, <3>1 DEF Adds
            <3>4. taken[h].args = Given(v, k) BY <1>2, <1>5, <2>1, <3>1 DEF Adds
            <3>5. QED BY <2>1, <2>2, <3>2, <3>3, <3>4
      <2>5. \A i, j \in DOMAIN tools : i # j => taken[i].key # taken[j].key BY <2>2 DEF Gathers
      <2>6. \A i \in DOMAIN v : \E j \in DOMAIN tools : taken[j].key = v[i].key BY <1>4, <2>1, <2>2
      <2>7. Gathers(taken, v) BY <2>1, <2>4, <2>5, <2>6 DEF Gathers
      <2>8. \A i \in DOMAIN tools : Len(taken[i].args) > 0 /\ taken[i].args[1] = tools[i].args[1] /\ tools[i].args[1] \in Nat
            <3>1. \A i \in DOMAIN tools : tools[i].args \in Seq(Nat) /\ Len(tools[i].args) > 0
                  BY <1>5 DEF Tools, Heads
            <3>2. n + 1 \in Nat OBVIOUS
            <3>3. /\ Len(taken[h].args) > 0 /\ taken[h].args[1] = tools[h].args[1]
                  BY <2>1, <3>1, <3>2, FirstStays DEF Adds
            <3>4. \A i \in DOMAIN tools : tools[i].args[1] \in Nat BY <3>1, <3>2, FirstStays
            <3>5. QED BY <2>1, <3>1, <3>3, <3>4
      <2>9. \A i \in DOMAIN tools : tools[i].args[1] <= n /\
                \A j \in DOMAIN tools : i # j => tools[i].args[1] # tools[j].args[1]
            BY DEF Heads
      <2>10. \A q \in Nat : q <= n => q <= n + 1 OBVIOUS
      <2>11. \A i \in DOMAIN tools : taken[i].args[1] <= n + 1 BY <2>8, <2>9, <2>10
      <2>12. \A i, j \in DOMAIN tools : i # j => taken[i].args[1] # taken[j].args[1] BY <2>8, <2>9
      <2>13. Heads(taken, n + 1) BY <2>1, <2>8, <2>11, <2>12 DEF Heads
      <2>14. QED BY <2>7, <2>13 DEF v
<1>8. QED BY <1>6, <1>7 DEF Takes

\* A fragment as it is parsed from a chunk.
Received == [index : ToolKeys \cup {NULL}, id : BOOLEAN, arg : Nat]
AddTo(t, f) == [t EXCEPT !.id = @ \/ f.id, !.args = Append(@, f.arg)]
Blank(k) == [key |-> k, id |-> FALSE, args |-> <<>>]
Known(tools, k) == {i \in DOMAIN tools : tools[i].key = k}
WithPiece(tools, k, f) ==
    IF Known(tools, k) = {} THEN Append(tools, AddTo(Blank(k), f))
    ELSE [i \in DOMAIN tools |-> IF i \in Known(tools, k) THEN AddTo(tools[i], f) ELSE tools[i]]

LEMMA AddToIs ==
    ASSUME NEW t \in Tools, NEW f \in Received
    PROVE  Adds(t, f, AddTo(t, f))
<1> DEFINE b == t.id \/ f.id
           a == Append(t.args, f.arg)
           r == [t EXCEPT !.id = b]
           u == [r EXCEPT !.args = a]
<1>1. b \in BOOLEAN /\ a \in Seq(Nat)
      <2>1. t.args \in Seq(Nat) /\ f.arg \in Nat BY DEF Tools, Received
      <2>2. b \in BOOLEAN OBVIOUS
      <2>3. QED BY <2>1, <2>2, AppendProperties
<1>2. AddTo(t, f) = u BY Zenon DEF AddTo
<1>3. b <=> t.id \/ f.id OBVIOUS
<1> HIDE DEF b, a
<1>4. r \in Tools /\ r.key = t.key /\ r.args = t.args /\ r.id = b BY <1>1 DEF Tools
<1> HIDE DEF r
<1>5. u \in Tools /\ u.key = t.key /\ u.args = a /\ u.id = b BY <1>1, <1>4 DEF Tools
<1> HIDE DEF u
<1>6. Adds(t, f, u)
      <2>1. u.id <=> t.id \/ f.id BY <1>3, <1>5, Zenon
      <2>2. QED BY <1>5, <2>1 DEF Adds, a
<1>7. QED BY <1>2, <1>6

LEMMA BlankIs == ASSUME NEW k \in Keys PROVE Blank(k) \in Tools /\ Blank(k).key = k /\ ~Blank(k).id /\ Blank(k).args = <<>>
BY DEF Blank, Tools

LEMMA WithPieceTyped ==
    ASSUME NEW tools \in Seq(Tools), NEW k \in Keys, NEW f \in Received
    PROVE  WithPiece(tools, k, f) \in Seq(Tools)
<1>1. CASE Known(tools, k) = {}
      <2>1. AddTo(Blank(k), f) \in Tools BY BlankIs, AddToIs DEF Adds
      <2>2. QED BY <1>1, <2>1, AppendProperties DEF WithPiece
<1>2. CASE Known(tools, k) # {}
      <2>1. \A i \in DOMAIN tools : tools[i] \in Tools BY ElementIn
      <2>2. \A i \in DOMAIN tools : AddTo(tools[i], f) \in Tools BY <2>1, AddToIs DEF Adds
      <2>3. DOMAIN tools = 1..Len(tools) /\ Len(tools) \in Nat BY LenProperties
      <2> DEFINE R == [i \in 1..Len(tools) |-> IF i \in Known(tools, k) THEN AddTo(tools[i], f) ELSE tools[i]]
      <2>4. R \in Seq(Tools) BY <2>1, <2>2, <2>3
      <2>5. WithPiece(tools, k, f) = R BY <1>2, <2>3 DEF WithPiece
      <2>6. QED BY <2>4, <2>5
<1>3. QED BY <1>1, <1>2

LEMMA WithPieceTakes ==
    ASSUME NEW tools \in Seq(Tools), NEW k \in Keys, NEW f \in Received,
           \A i, j \in DOMAIN tools : i # j => tools[i].key # tools[j].key
    PROVE  Takes(tools, k, f, WithPiece(tools, k, f))
<1> DEFINE taken == WithPiece(tools, k, f)
<1>1. taken \in Seq(Tools) BY WithPieceTyped
<1>2. CASE Known(tools, k) = {}
      <2> DEFINE u == AddTo(Blank(k), f)
      <2>1. /\ u \in Tools /\ u.key = k /\ (u.id <=> f.id) /\ u.args = Append(<<>>, f.arg)
            BY BlankIs, AddToIs DEF Adds
      <2>2. Append(<<>>, f.arg) = <<f.arg>> OBVIOUS
      <2> HIDE DEF u
      <2>3. taken = Append(tools, u) BY <1>2 DEF WithPiece, u
      <2>4. More(tools, u, taken, Len(tools)) BY <2>1, <2>3, MoreIs
      <2>5. \A i \in DOMAIN tools : tools[i].key # k BY <1>2 DEF Known
      <2> HIDE DEF taken
      <2>6. Takes(tools, k, f, taken) BY <1>1, <2>1, <2>2, <2>4, <2>5 DEF Takes
      <2>7. QED BY <2>6 DEF taken
<1>3. CASE Known(tools, k) # {}
      <2>1. PICK h \in DOMAIN tools : tools[h].key = k BY <1>3 DEF Known
      <2>2. Known(tools, k) = {h} BY <2>1 DEF Known
      <2>3. DOMAIN taken = DOMAIN tools BY <1>3 DEF WithPiece
      <2>4. taken[h] = AddTo(tools[h], f) /\ \A i \in DOMAIN tools : i # h => taken[i] = tools[i]
            BY <1>3, <2>2 DEF WithPiece
      <2>5. tools[h] \in Tools BY <2>1, ElementIn
      <2> HIDE DEF taken
      <2>6. Adds(tools[h], f, taken[h]) BY <2>4, <2>5, AddToIs
      <2>7. Takes(tools, k, f, taken) BY <1>1, <2>1, <2>3, <2>4, <2>6, Zenon DEF Takes
      <2>8. QED BY <2>7 DEF taken
<1>4. QED BY <1>2, <1>3

LEMMA ToolOfIs ==
    ASSUME NEW s \in Local, NEW f \in Received PROVE Blocks!ToolOf(s, f) \in Keys
BY DEF Local, Received, Keys, Blocks!ToolOf

LEMMA ReceiveKeeps ==
    ASSUME BlockBounds, NEW c, Tidy(c), NEW f \in Received
    PROVE  LET d == Blocks!Receive(c, f)
               k == Blocks!ToolOf(c.s, f)
           IN  /\ Tidy(d) /\ d.s.started = c.s.started /\ d.s.terminated = c.s.terminated
               /\ SameTools(c.o, d.o)
               /\ d.s.tools = WithPiece(c.s.tools, k, f) /\ d.s.last = k
<1> DEFINE b == Blocks!CloseBlocks(c)
           k == Blocks!ToolOf(c.s, f)
           R == WithPiece(c.s.tools, k, f)
           p == [b.s EXCEPT !.tools = R]
           r == [p EXCEPT !.last = k]
           d == [s |-> r, o |-> b.o]
<1>1. /\ Tidy(b) /\ Keeps(c, b) /\ b.s.started = c.s.started
      /\ b.s.thinking = NULL /\ b.s.text = NULL
      BY CloseBlocksKeeps
<1>2. c.s \in Local /\ c.s.tools \in Seq(Tools) /\ b.s \in Local /\ b.o \in Seq(Events)
      BY <1>1 DEF Tidy, Consumer, Local
<1>3. k \in Keys BY <1>2, ToolOfIs
<1>4. R \in Seq(Tools) BY <1>2, <1>3, WithPieceTyped
<1>5. Blocks!Receive(c, f) = d
      <2>1. Blocks!Receive(c, f) = [s |-> [b.s EXCEPT !.tools = R, !.last = k], o |-> b.o]
            BY Zenon DEF Blocks!Receive, Blocks!At, WithPiece, AddTo, Blank, Known
      <2>2. [b.s EXCEPT !.tools = R, !.last = k] = r BY Zenon
      <2> HIDE DEF r
      <2>3. QED BY <2>1, <2>2
<1> HIDE DEF b, R, k
<1>6. /\ p \in Local /\ p.started = b.s.started /\ p.terminated = b.s.terminated /\ p.next = b.s.next
      /\ p.thinking = b.s.thinking /\ p.text = b.s.text /\ p.tools = R
      BY <1>2, <1>4 DEF Local
<1> HIDE DEF p
<1>7. /\ r \in Local /\ r.started = p.started /\ r.terminated = p.terminated /\ r.next = p.next
      /\ r.thinking = p.thinking /\ r.text = p.text /\ r.tools = p.tools /\ r.last = k
      BY <1>3, <1>6 DEF Local
<1> HIDE DEF r
<1>8. d \in Consumer BY <1>2, <1>7 DEF Consumer
<1>9. d.s = r /\ d.o = b.o OBVIOUS
<1> HIDE DEF d
<1>10. Tidy(d) BY <1>1, <1>6, <1>7, <1>8, <1>9 DEF Tidy
<1>11. d.s.terminated = c.s.terminated /\ SameTools(c.o, d.o) BY <1>1, <1>6, <1>7, <1>9 DEF Keeps
<1>12. d.s.started = c.s.started /\ d.s.tools = R /\ d.s.last = k BY <1>1, <1>6, <1>7, <1>9
<1>13. QED BY <1>5, <1>10, <1>11, <1>12 DEF R, k

(***************************************************************************)
(* AnthropicStream: a tool's block, written at once when the message ends. *)
(***************************************************************************)
GivingOf(a, n) == [d \in DOMAIN a |-> Giving("tool", n, a[d])]
Midway(u, n, v, a) ==
    /\ Good(v, n + 1) /\ Held(v, n, "tool") /\ SentIn(v) = SentIn(u)
    /\ ArgsIn(v, n) = a /\ \A j \in Nat : j # n => ArgsIn(v, j) = ArgsIn(u, j)
Laid(o, n, t, v) ==
    /\ Good(v, n + 1) /\ Shut(v) /\ SentIn(v) = SentIn(o) \cup {n}
    /\ ArgsIn(v, n) = t.args /\ \A j \in Nat : j # n => ArgsIn(v, j) = ArgsIn(o, j)

LEMMA GivingTyped ==
    ASSUME NEW n \in Nat, NEW f \in Nat PROVE Giving("tool", n, f) \in Events
BY EventIs DEF Giving, Numbers, Blocks!Kinds

LEMMA GivingMore ==
    ASSUME NEW n \in Nat, NEW a \in Seq(Nat), NEW x \in Nat
    PROVE  /\ GivingOf(a, n) \in Seq(Events)
           /\ GivingOf(Append(a, x), n) = Append(GivingOf(a, n), Giving("tool", n, x))
<1> DEFINE v == Append(a, x)
           l == Len(a)
           g == GivingOf(a, n)
           h == GivingOf(v, n)
           e == Giving("tool", n, x)
           w == Append(g, e)
<1>1. v \in Seq(Nat) /\ More(a, x, v, l) BY MoreIs
<1>2. e \in Events BY GivingTyped
<1>3. \A d \in 1..l : a[d] \in Nat BY ElementOfSeq, <1>1 DEF More
<1> HIDE DEF v, l, e
<1>4. /\ l \in Nat /\ DOMAIN a = 1..l /\ DOMAIN v = 1..l + 1 /\ v[l + 1] = x
      /\ \A d \in 1..l : v[d] = a[d]
      BY <1>1 DEF More
<1>5. g = [d \in 1..l |-> Giving("tool", n, a[d])] /\ h = [d \in 1..l + 1 |-> Giving("tool", n, v[d])]
      BY <1>4 DEF GivingOf
<1>6. \A d \in 1..l : Giving("tool", n, a[d]) \in Events BY <1>3, GivingTyped
<1>7. g \in Seq(Events) /\ Len(g) = l BY <1>4, <1>5, <1>6
<1>8. w \in Seq(Events) /\ More(g, e, w, l) BY <1>2, <1>7, MoreIs
<1> HIDE DEF w
<1>9. \A d \in 1..l + 1 : d = l + 1 \/ d \in 1..l BY <1>4
<1>10. \A d \in 1..l + 1 : h[d] = w[d]
       <2>1. \A d \in 1..l : h[d] = g[d] BY <1>4, <1>5
       <2>2. h[l + 1] = e BY <1>4, <1>5 DEF e
       <2>3. QED BY <1>8, <1>9, <2>1, <2>2 DEF More
<1>11. h \in Seq(Events) /\ Len(h) = l + 1
       <2>1. \A d \in 1..l + 1 : Giving("tool", n, v[d]) \in Events BY <1>4, <1>6, <1>9, <1>2 DEF e
       <2>2. QED BY <1>4, <1>5, <2>1
<1>12. Len(w) = l + 1 BY <1>8 DEF More
<1>13. h = w BY <1>8, <1>10, <1>11, <1>12, SeqEqual
<1>14. QED BY <1>7, <1>13 DEF w, v, e

LEMMA CatAppend ==
    ASSUME NEW S, NEW a \in Seq(S), NEW b \in Seq(S), NEW x \in S
    PROVE  Cat(a, Append(b, x)) = Append(Cat(a, b), x)
<1> DEFINE s == <<x>>
<1>1. s \in Seq(S) OBVIOUS
<1>2. Append(b, x) = Cat(b, s) BY AppendIsConcat DEF Cat
<1>3. Cat(a, b) \in Seq(S) BY CatOf
<1>4. Append(Cat(a, b), x) = Cat(Cat(a, b), s) BY <1>3, AppendIsConcat DEF Cat
<1> HIDE DEF s
<1>5. QED BY <1>1, <1>2, <1>4, CatTwice

LEMMA DeltasLaid ==
    ASSUME BlockBounds, NEW u, NEW n \in Nat, Good(u, n + 1), Held(u, n, "tool"), ArgsIn(u, n) = <<>>,
           NEW a \in Seq(Nat)
    PROVE  Midway(u, n, Cat(u, GivingOf(a, n)), a)
<1> DEFINE P == {b \in Seq(Nat) : Midway(u, n, Cat(u, GivingOf(b, n)), b)}
<1>1. u \in Seq(Events) BY DEF Good
<1>2. <<>> \in P
      <2>1. <<>> \in Seq(Nat) BY EmptySeq
      <2>2. GivingOf(<<>>, n) = <<>>
            <3>1. DOMAIN <<>> = {} BY EmptySeq
            <3>2. GivingOf(<<>>, n) = [d \in {} |-> Giving("tool", n, <<>>[d])] BY <3>1 DEF GivingOf
            <3>3. QED BY <3>2
      <2>3. <<>> \in Seq(Events) BY EmptySeq
      <2>4. Cat(u, <<>>) = u BY <1>1, <2>3, CatOf
      <2>5. Midway(u, n, Cat(u, GivingOf(<<>>, n)), <<>>) BY <2>2, <2>4 DEF Midway
      <2>6. QED BY <2>1, <2>5
<1>3. ASSUME NEW b \in P, NEW x \in Nat PROVE Append(b, x) \in P
      <2>1. b \in Seq(Nat) /\ Append(b, x) \in Seq(Nat) BY <1>3, AppendProperties
      <2> DEFINE e == Giving("tool", n, x)
                 v == Cat(u, GivingOf(b, n))
                 w == Append(v, e)
      <2>2. Midway(u, n, v, b) BY <1>3
      <2>3. GivingOf(b, n) \in Seq(Events) /\ GivingOf(Append(b, x), n) = Append(GivingOf(b, n), e)
            BY <2>1, GivingMore
      <2>4. e \in Events BY GivingTyped
      <2> HIDE DEF e
      <2>5. Cat(u, GivingOf(Append(b, x), n)) = w BY <1>1, <2>3, <2>4, CatAppend
      <2> HIDE DEF v
      <2>6. /\ Good(w, n + 1) /\ Held(w, n, "tool") /\ SentIn(w) = SentIn(v)
            /\ ArgsIn(w, n) = Append(ArgsIn(v, n), x)
            /\ \A j \in Nat : j # n => ArgsIn(w, j) = ArgsIn(v, j)
            <3>1. "tool" \in Blocks!Kinds /\ x \in Numbers BY DEF Blocks!Kinds, Numbers
            <3>2. Good(v, n + 1) /\ Held(v, n, "tool") BY <2>2 DEF Midway
            <3>3. QED BY <3>1, <3>2, Gave DEF e
      <2> HIDE DEF w
      <2>7. Midway(u, n, w, Append(b, x)) BY <2>2, <2>6 DEF Midway
      <2>8. QED BY <2>1, <2>5, <2>7
<1>4. P \in SUBSET Seq(Nat) OBVIOUS
<1> HIDE DEF P
<1>5. P = Seq(Nat) BY <1>2, <1>3, <1>4, Sequentially
<1>6. QED BY <1>5 DEF P

LEMMA ToolBlockIs ==
    ASSUME NEW o \in Seq(Events), NEW n \in Nat, NEW t \in Tools
    PROVE  /\ Blocks!ToolBlock(t, n) \in Seq(Events)
           /\ Cat(o, Blocks!ToolBlock(t, n))
                = Append(Cat(Append(o, Opening("tool", n)), GivingOf(t.args, n)), Closing("tool", n))
<1> DEFINE e == Opening("tool", n)
           x == Closing("tool", n)
           g == GivingOf(t.args, n)
<1>1. e \in Events /\ x \in Events
      <2>1. n \in Numbers /\ NULL \in Numbers /\ "tool" \in Blocks!Kinds \cup {NULL} BY DEF Numbers, Blocks!Kinds
      <2>2. QED BY <2>1, EventIs DEF Opening, Closing
<1>2. g \in Seq(Events)
      <2>1. t.args \in Seq(Nat) /\ 0 \in Nat BY DEF Tools
      <2>2. QED BY <2>1, GivingMore
<1>3. Blocks!ToolBlock(t, n) = (<<e>> \o g) \o <<x>>
      BY DEF Blocks!ToolBlock, GivingOf, Opening, Closing, Giving
<1> HIDE DEF e, x, g
<1> DEFINE first == <<e>>
           final == <<x>>
<1>4. first \in Seq(Events) /\ final \in Seq(Events) BY <1>1
<1>5. Blocks!ToolBlock(t, n) = Cat(Cat(first, g), final) BY <1>3 DEF Cat
<1>6. Cat(o, first) = Append(o, e) BY <1>1, AppendIsConcat DEF Cat
<1>7. Append(o, e) \in Seq(Events) BY <1>1, AppendProperties
<1>8. Cat(Append(o, e), g) \in Seq(Events) BY <1>2, <1>7, CatOf
<1>9. Append(Cat(Append(o, e), g), x) = Cat(Cat(Append(o, e), g), final)
      BY <1>1, <1>8, AppendIsConcat DEF Cat
<1> HIDE DEF first, final
<1>10. Cat(first, g) \in Seq(Events) BY <1>2, <1>4, CatOf
<1>11. Cat(Cat(first, g), final) \in Seq(Events) BY <1>4, <1>10, CatOf
<1>12. Cat(o, Cat(Cat(first, g), final)) = Cat(Cat(o, Cat(first, g)), final) BY <1>4, <1>10, CatTwice
<1>13. Cat(o, Cat(first, g)) = Cat(Cat(o, first), g) BY <1>2, <1>4, CatTwice
<1>14. QED BY <1>5, <1>6, <1>9, <1>11, <1>12, <1>13 DEF e, x, g

LEMMA ToolLaid ==
    ASSUME BlockBounds, NEW o, NEW n, Good(o, n), Shut(o), NEW t \in Tools
    PROVE  Laid(o, n, t, Cat(o, Blocks!ToolBlock(t, n)))
<1> DEFINE u == Append(o, Opening("tool", n))
           v == Cat(u, GivingOf(t.args, n))
           w == Append(v, Closing("tool", n))
<1>1. o \in Seq(Events) /\ n \in Nat BY DEF Good
<1>2. "tool" \in Blocks!Kinds BY DEF Blocks!Kinds
<1>3. /\ Good(u, n + 1) /\ Held(u, n, "tool") /\ SameArgs(o, u) /\ SentIn(u) = SentIn(o) \cup {n}
      /\ ArgsIn(o, n) = <<>>
      BY <1>2, Opened
<1>4. Cat(o, Blocks!ToolBlock(t, n)) = w BY <1>1, ToolBlockIs
<1> HIDE DEF u
<1>5. ArgsIn(u, n) = <<>> BY <1>1, <1>3 DEF SameArgs
<1>6. t.args \in Seq(Nat) BY DEF Tools
<1>7. Midway(u, n, v, t.args) BY <1>1, <1>3, <1>5, <1>6, DeltasLaid
<1> HIDE DEF v
<1>8. Good(v, n + 1) /\ Held(v, n, "tool") BY <1>7 DEF Midway
<1>9. Good(w, n + 1) /\ Shut(w) /\ SentIn(w) = SentIn(v) /\ SameArgs(v, w) BY <1>2, <1>8, Closed
<1> HIDE DEF w
<1>10. SentIn(w) = SentIn(o) \cup {n} BY <1>3, <1>7, <1>9 DEF Midway
<1>11. ArgsIn(w, n) = t.args BY <1>1, <1>7, <1>9 DEF Midway, SameArgs
<1>12. \A j \in Nat : j # n => ArgsIn(w, j) = ArgsIn(o, j) BY <1>3, <1>7, <1>9 DEF Midway, SameArgs
<1>13. QED BY <1>4, <1>9, <1>10, <1>11, <1>12 DEF Laid

(***************************************************************************)
(* AnthropicStream: the end of the message.                                *)
(***************************************************************************)
Written(named, n) == [r \in DOMAIN named |-> Blocks!ToolBlock(named[r], n + r - 1)]
WrittenIn(o, n, named, k) ==
    /\ Good(o, n + k) /\ Shut(o) /\ SentIn(o) = n..n + k - 1
    /\ \A r \in 1..k : ArgsIn(o, n + r - 1) = named[r].args

LEMMA LaidNext ==
    ASSUME NEW n \in Nat, NEW k \in Nat, NEW o, NEW v, NEW named, NEW t,
           WrittenIn(o, n, named, k), Laid(o, n + k, t, v), named[k + 1] = t
    PROVE  WrittenIn(v, n, named, k + 1)
<1>1. n + (k + 1) = (n + k) + 1 /\ n + (k + 1) - 1 = n + k OBVIOUS
<1>2. Good(v, n + (k + 1)) /\ Shut(v) BY <1>1 DEF Laid
<1>3. n..n + (k + 1) - 1 = (n..n + k - 1) \cup {n + k} OBVIOUS
<1>4. SentIn(v) = n..n + (k + 1) - 1 BY <1>3 DEF Laid, WrittenIn
<1>5. ASSUME NEW r \in 1..k + 1 PROVE ArgsIn(v, n + r - 1) = named[r].args
      <2>1. CASE r = k + 1
            <3>1. n + r - 1 = n + k BY <2>1
            <3>2. ArgsIn(v, n + k) = t.args BY DEF Laid
            <3>3. QED BY <2>1, <3>1, <3>2
      <2>2. CASE r # k + 1
            <3>1. r \in 1..k /\ n + r - 1 \in Nat /\ n + r - 1 # n + k BY <2>2
            <3>2. ArgsIn(v, n + r - 1) = ArgsIn(o, n + r - 1) BY <3>1 DEF Laid
            <3>3. QED BY <3>1, <3>2 DEF WrittenIn
      <2>3. QED BY <2>1, <2>2
<1>6. QED BY <1>2, <1>4, <1>5 DEF WrittenIn

LEMMA ToolsLaid ==
    ASSUME BlockBounds, NEW o, NEW n, Good(o, n), Shut(o), SentIn(o) = {}, NEW named \in Seq(Tools)
    PROVE  WrittenIn(Cat(o, Joined(Written(named, n))), n, named, Len(named))
<1> DEFINE ss == Written(named, n)
           N == Len(named)
           B == Seq(Events)
<1>1. o \in B /\ n \in Nat BY DEF Good
<1>2. N \in Nat /\ DOMAIN named = 1..N /\ \A r \in 1..N : named[r] \in Tools BY LenProperties, ElementOfSeq
<1>3. \A r \in 1..N : ss[r] = Blocks!ToolBlock(named[r], n + (r - 1)) /\ ss[r] \in B
      <2>1. ASSUME NEW r \in 1..N PROVE ss[r] = Blocks!ToolBlock(named[r], n + (r - 1)) /\ ss[r] \in B
            <3>1. n + (r - 1) \in Nat /\ n + r - 1 = n + (r - 1) BY <1>1, <1>2
            <3>2. ss[r] = Blocks!ToolBlock(named[r], n + r - 1) BY <1>2 DEF Written
            <3>3. Blocks!ToolBlock(named[r], n + (r - 1)) \in Seq(Events) BY <1>1, <1>2, <3>1, ToolBlockIs
            <3>4. QED BY <3>1, <3>2, <3>3
      <2>2. QED BY <2>1
<1>4. ss \in Seq(B) /\ Len(ss) = N
      <2>1. ss = [r \in 1..N |-> ss[r]] BY <1>2 DEF Written
      <2> HIDE DEF ss, B
      <2>2. QED BY <1>2, <1>3, <2>1
<1>5. Joinable(B) BY SequencesJoin
<1> HIDE DEF ss, B, N
<1>6. PICK f \in [0..N -> B] : JoinedBy(f, ss) /\ Joined(ss) = f[N] BY <1>4, <1>5, JoinedIs
<1> DEFINE P == {k \in Nat : k <= N => WrittenIn(Cat(o, f[k]), n, named, k)}
<1>7. 0 \in P
      <2>1. f[0] = <<>> BY <1>6 DEF JoinedBy
      <2>2. Cat(o, <<>>) = o
            <3>1. <<>> \in Seq(Events) BY EmptySeq
            <3>2. QED BY <1>1, <3>1, CatOf DEF B
      <2>3. n + 0 = n /\ n..n + 0 - 1 = {} BY <1>1
      <2>4. WrittenIn(o, n, named, 0) BY <2>3 DEF WrittenIn
      <2>5. QED BY <2>1, <2>2, <2>4
<1>8. ASSUME NEW k \in P PROVE k + 1 \in P
      <2>1. SUFFICES ASSUME k + 1 <= N PROVE WrittenIn(Cat(o, f[k + 1]), n, named, k + 1)
            OBVIOUS
      <2>2. k \in Nat /\ k <= N /\ k + 1 \in 1..N /\ k \in 0..N /\ (k + 1) - 1 = k BY <1>2, <2>1
      <2>3. WrittenIn(Cat(o, f[k]), n, named, k) BY <2>2
      <2> HIDE DEF P
      <2>4. f[k + 1] = Cat(f[k], ss[k + 1]) BY <1>4, <1>6, <2>2 DEF JoinedBy
      <2> DEFINE t == named[k + 1]
                 b == Blocks!ToolBlock(t, n + k)
                 u == Cat(o, f[k])
      <2>5. ss[k + 1] = b /\ b \in B /\ t \in Tools BY <1>2, <1>3, <2>2
      <2>6. f[k] \in B BY <1>6, <2>2
      <2> HIDE DEF b, t
      <2>7. Cat(o, f[k + 1]) = Cat(u, b) BY <1>1, <2>4, <2>5, <2>6, CatTwice DEF B
      <2> HIDE DEF u
      <2>8. Good(u, n + k) /\ Shut(u) BY <2>3 DEF WrittenIn, u
      <2>9. Laid(u, n + k, t, Cat(u, b)) BY <2>5, <2>8, ToolLaid DEF b
      <2>10. WrittenIn(u, n, named, k) /\ named[k + 1] = t BY <2>3 DEF u, t
      <2> DEFINE v == Cat(u, b)
      <2> HIDE DEF v
      <2>11. Laid(u, n + k, t, v) BY <2>9 DEF v
      <2>12. WrittenIn(v, n, named, k + 1) BY <1>1, <2>2, <2>10, <2>11, LaidNext
      <2>13. QED BY <2>7, <2>12 DEF v
<1>9. P \in SUBSET Nat OBVIOUS
<1> HIDE DEF P
<1>10. P = Nat BY <1>7, <1>8, <1>9, Naturally
<1>11. WrittenIn(Cat(o, f[N]), n, named, N) BY <1>2, <1>10 DEF P
<1>12. QED BY <1>6, <1>11 DEF ss, N

Identifiable == [key : ToolKeys \cup {0}, id : {TRUE}, args : Seq(Nat)]
Sends(tools, o) ==
    /\ {ArgsIn(o, i) : i \in SentIn(o)} = {tools[j].args : j \in {h \in DOMAIN tools : tools[h].id}}
    /\ \A n : Distinct(tools) /\ Heads(tools, n) =>
                 \A i, j \in SentIn(o) : i # j => ArgsIn(o, i) # ArgsIn(o, j)

LEMMA WrittenSends ==
    ASSUME NEW tools \in Seq(Tools), NEW n \in Nat, NEW o,
           WrittenIn(o, n, Among(tools, Identifiable), Len(Among(tools, Identifiable)))
    PROVE  Sends(tools, o)
<1> DEFINE named == Among(tools, Identifiable)
           N == Len(named)
<1>1. named \in Seq(Tools) /\ ToSet(named) = ToSet(tools) \cap Identifiable BY AmongType, AmongSet
<1>2. Distinct(tools) => Distinct(named) BY AmongDistinct
<1>3. N \in Nat /\ DOMAIN named = 1..N BY <1>1, LenProperties
<1>4. SentIn(o) = n..n + N - 1 /\ \A r \in 1..N : ArgsIn(o, n + r - 1) = named[r].args
      BY DEF WrittenIn
<1> HIDE DEF named, N
<1>5. ASSUME NEW i \in SentIn(o)
      PROVE  i - n + 1 \in 1..N /\ ArgsIn(o, i) = named[i - n + 1].args
      <2>1. i \in n..n + N - 1 BY <1>4, <1>5
      <2>2. i - n + 1 \in 1..N /\ n + (i - n + 1) - 1 = i BY <1>3, <2>1
      <2>3. QED BY <1>4, <2>2
<1>6. ASSUME NEW r \in 1..N PROVE n + r - 1 \in SentIn(o)
      BY <1>3, <1>4, <1>6
<1>7. {ArgsIn(o, i) : i \in SentIn(o)} = {t.args : t \in ToSet(named)}
      <2>1. ASSUME NEW i \in SentIn(o) PROVE ArgsIn(o, i) \in {t.args : t \in ToSet(named)}
            BY <1>3, <1>5 DEF ToSet
      <2>2. ASSUME NEW r \in 1..N PROVE named[r].args \in {ArgsIn(o, i) : i \in SentIn(o)}
            BY <1>4, <1>6
      <2>3. ToSet(named) = {named[r] : r \in 1..N} BY <1>3 DEF ToSet
      <2>4. QED BY <2>1, <2>2, <2>3
<1>8. ToSet(named) = {t \in ToSet(tools) : t.id}
      <2>1. \A t \in ToSet(tools) : t \in Tools BY ElementIn DEF ToSet
      <2>2. \A t \in Tools : t \in Identifiable <=> t.id BY DEF Tools, Keys, Identifiable
      <2>3. QED BY <1>1, <2>1, <2>2
<1>9. {t.args : t \in ToSet(named)} = {tools[j].args : j \in {h \in DOMAIN tools : tools[h].id}}
      BY <1>8 DEF ToSet
<1>10. ASSUME NEW x, Distinct(tools), Heads(tools, x), NEW i \in SentIn(o), NEW j \in SentIn(o), i # j
       PROVE  ArgsIn(o, i) # ArgsIn(o, j)
       <2>1. i - n + 1 \in 1..N /\ j - n + 1 \in 1..N /\ i - n + 1 # j - n + 1 BY <1>4, <1>5, <1>10
       <2> DEFINE r == i - n + 1
                  q == j - n + 1
       <2>2. ArgsIn(o, i) = named[r].args /\ ArgsIn(o, j) = named[q].args BY <1>5
       <2>3. r \in 1..N /\ q \in 1..N /\ r # q BY <2>1
       <2> HIDE DEF r, q
       <2>4. named[r] # named[q] BY <1>2, <1>3, <1>10, <2>3 DEF Distinct
       <2>5. named[r] \in ToSet(tools) /\ named[q] \in ToSet(tools) BY <1>1, <1>3, <2>3 DEF ToSet
       <2>6. PICK a \in DOMAIN tools, b \in DOMAIN tools : named[r] = tools[a] /\ named[q] = tools[b]
             BY <2>5 DEF ToSet
       <2>7. a # b BY <2>4, <2>6
       <2>8. tools[a].args[1] # tools[b].args[1] BY <1>10, <2>7 DEF Heads
       <2>9. QED BY <2>2, <2>6, <2>8
<1>11. QED BY <1>7, <1>9, <1>10 DEF Sends

LEMMA SameBlocks ==
    ASSUME NEW s, NEW S PROVE Blocks!Joined(s) = Joined(s) /\ Blocks!Among(s, S) = Among(s, S)
BY DEF Blocks!Joined, Joined, Blocks!Among, Among

LEMMA FlushKeeps ==
    ASSUME BlockBounds, NEW c, Tidy(c), c.s.thinking = NULL, c.s.text = NULL, SentIn(c.o) = {}
    PROVE  LET d == Blocks!FlushTools(c) IN
           /\ Tidy(d) /\ d.s.thinking = NULL /\ d.s.text = NULL /\ Sends(c.s.tools, d.o)
<1> DEFINE tools == c.s.tools
           named == Among(tools, Identifiable)
           v == Cat(c.o, Joined(Written(named, c.s.next)))
           p == [c.s EXCEPT !.tools = <<>>]
           q == [p EXCEPT !.last = NULL]
           r == [q EXCEPT !.next = c.s.next + Len(named)]
           d == [s |-> r, o |-> v]
<1>1. c \in Consumer /\ Good(c.o, c.s.next) /\ Shut(c.o) BY DEF Tidy
<1>2. c.s \in Local /\ tools \in Seq(Tools) /\ c.s.next \in Nat BY <1>1 DEF Consumer, Local
<1>3. Blocks!FlushTools(c) = d
      <2>1. Blocks!Among(tools, Identifiable) = named BY SameBlocks
      <2>2. Blocks!Joined(Written(named, c.s.next)) = Joined(Written(named, c.s.next)) BY SameBlocks
      <2>3. Blocks!FlushTools(c)
              = [s |-> [c.s EXCEPT !.tools = <<>>, !.last = NULL,
                                   !.next = @ + Len(Blocks!Among(tools, Identifiable))],
                 o |-> c.o \o Blocks!Joined(Written(Blocks!Among(tools, Identifiable), c.s.next))]
            BY Zenon DEF Blocks!FlushTools, Blocks!At, Written, Identifiable
      <2>4. [c.s EXCEPT !.tools = <<>>, !.last = NULL, !.next = @ + Len(named)] = r BY Zenon
      <2> HIDE DEF r, named
      <2>5. QED BY <2>1, <2>2, <2>3, <2>4, Zenon DEF Cat
<1>4. named \in Seq(Tools) BY <1>2, AmongType
<1>5. WrittenIn(v, c.s.next, named, Len(named)) BY <1>1, <1>4, ToolsLaid
<1>6. Sends(tools, v) BY <1>2, <1>5, WrittenSends
<1> HIDE DEF v
<1>7. Len(named) \in Nat BY <1>4, LenProperties
<1> HIDE DEF named
<1>8. p \in Local /\ p.thinking = c.s.thinking /\ p.text = c.s.text
      <2>1. <<>> \in Seq(Tools) BY EmptySeq
      <2>2. QED BY <1>2, <2>1 DEF Local
<1> HIDE DEF p
<1>9. q \in Local /\ q.thinking = p.thinking /\ q.text = p.text BY <1>8 DEF Local
<1> HIDE DEF q
<1>10. r \in Local /\ r.thinking = q.thinking /\ r.text = q.text /\ r.next = c.s.next + Len(named)
       <2>1. c.s.next + Len(named) \in Nat BY <1>2, <1>7
       <2>2. QED BY <1>9, <2>1 DEF Local
<1> HIDE DEF r
<1>11. Good(v, r.next) /\ Shut(v) BY <1>5, <1>10 DEF WrittenIn
<1>12. d \in Consumer /\ d.s = r /\ d.o = v
       <2>1. v \in Seq(Events) BY <1>11 DEF Good
       <2>2. QED BY <1>10, <2>1 DEF Consumer
<1> HIDE DEF d
<1>13. d.s.thinking = NULL /\ d.s.text = NULL BY <1>8, <1>9, <1>10, <1>12
<1>14. Tidy(d) BY <1>11, <1>12, <1>13 DEF Tidy
<1>15. QED BY <1>3, <1>6, <1>12, <1>13, <1>14

LEMMA SendsSame ==
    ASSUME NEW tools, NEW o, NEW v, Sends(tools, o), SameTools(o, v) PROVE Sends(tools, v)
BY DEF Sends, SameTools

LEMMA SameToolsMore ==
    ASSUME NEW o, NEW v, NEW w, SameTools(o, v), SameTools(v, w) PROVE SameTools(o, w)
BY DEF SameTools

LEMMA TwoMore ==
    ASSUME NEW o \in Seq(Events), NEW e \in Events, NEW f \in Events
    PROVE  o \o <<e, f>> = Append(Append(o, e), f)
<1> DEFINE a == <<e>>
           b == <<f>>
<1>1. a \in Seq(Events) /\ b \in Seq(Events) OBVIOUS
<1>2. <<e, f>> = Cat(a, b) BY TwoSingles DEF Cat
<1>3. Append(o, e) = Cat(o, a) /\ Append(o, e) \in Seq(Events) BY AppendIsConcat, AppendProperties DEF Cat
<1>4. Append(Append(o, e), f) = Cat(Append(o, e), b) BY <1>3, AppendIsConcat DEF Cat
<1> HIDE DEF a, b
<1>5. Cat(o, Cat(a, b)) = Cat(Cat(o, a), b) BY <1>1, CatTwice
<1>6. QED BY <1>2, <1>3, <1>4, <1>5 DEF Cat

LEMMA TerminateKeeps ==
    ASSUME BlockBounds, NEW c, Tidy(c), c.s.terminated \/ SentIn(c.o) = {}
    PROVE  LET d == Blocks!Terminate(c) IN
           /\ Tidy(d) /\ d.s.terminated
           /\ c.s.terminated => d = c
           /\ ~c.s.terminated => Sends(c.s.tools, d.o)
<1>1. CASE c.s.terminated
      <2>1. Blocks!Terminate(c) = c BY <1>1 DEF Blocks!Terminate
      <2>2. QED BY <1>1, <2>1
<1>3. CASE ~c.s.terminated
      <2> DEFINE b == Blocks!CloseBlocks(c)
                 f == Blocks!FlushTools(b)
                 x == Saying("message_delta")
                 y == Saying("message_stop")
                 v == Append(f.o, x)
                 w == Append(v, y)
                 r == [f.s EXCEPT !.terminated = TRUE]
                 d == [s |-> r, o |-> w]
      <2>1. Tidy(b) /\ b.s.tools = c.s.tools /\ b.s.thinking = NULL /\ b.s.text = NULL /\ SentIn(b.o) = {}
            BY <1>3, CloseBlocksKeeps DEF Keeps, SameTools
      <2> HIDE DEF b
      <2>2. Tidy(f) /\ f.s.thinking = NULL /\ f.s.text = NULL /\ Sends(c.s.tools, f.o)
            BY <2>1, FlushKeeps
      <2>3. Blocks!Terminate(c) = [s |-> r, o |-> f.o \o <<x, y>>]
            BY <1>3 DEF Blocks!Terminate, Blocks!At, b, Saying
      <2> HIDE DEF f
      <2>4. f \in Consumer /\ Good(f.o, f.s.next) /\ Shut(f.o) BY <2>2 DEF Tidy
      <2>5. f.s \in Local /\ f.o \in Seq(Events) BY <2>4 DEF Consumer
      <2>6. x \in Events /\ y \in Events
            <3>1. NULL \in Numbers BY DEF Numbers
            <3>2. QED BY <3>1, EventIs DEF Saying
      <2>7. Good(v, f.s.next) /\ Shut(v) /\ SentIn(v) = SentIn(f.o) /\ SameArgs(f.o, v) BY <2>4, Said
      <2>8. Good(w, f.s.next) /\ Shut(w) /\ SentIn(w) = SentIn(v) /\ SameArgs(v, w) BY <2>7, Said
      <2> HIDE DEF x, y
      <2>9. f.o \o <<x, y>> = w BY <2>5, <2>6, TwoMore
      <2> HIDE DEF v
      <2>10. SameTools(f.o, w)
             <3>1. SentIn(f.o) \subseteq Nat BY <2>4, SentNumbers DEF Good
             <3>2. QED BY <2>7, <2>8, <3>1 DEF SameTools, SameArgs
      <2> HIDE DEF w
      <2>11. /\ r \in Local /\ r.terminated = TRUE /\ r.next = f.s.next
             /\ r.thinking = f.s.thinking /\ r.text = f.s.text
             BY <2>5 DEF Local
      <2> HIDE DEF r
      <2>12. d \in Consumer /\ d.s = r /\ d.o = w
             <3>1. w \in Seq(Events) BY <2>8 DEF Good
             <3>2. QED BY <2>11, <3>1 DEF Consumer
      <2>13. Blocks!Terminate(c) = d BY <2>3, <2>9
      <2> HIDE DEF d
      <2>14. Tidy(d) BY <2>2, <2>8, <2>11, <2>12 DEF Tidy
      <2>15. Sends(c.s.tools, d.o) BY <2>2, <2>10, <2>12, SendsSame
      <2>16. QED BY <1>3, <2>11, <2>12, <2>13, <2>14, <2>15
<1>4. QED BY <1>1, <1>3

(***************************************************************************)
(* AnthropicStream: the inductive invariant.                               *)
(***************************************************************************)
WholeTools(o, w) ==
    /\ {ArgsIn(o, i) : i \in SentIn(o)} = {Given(w, k) : k \in Named(w)}
    /\ \A i, j \in SentIn(o) : i # j => ArgsIn(o, i) # ArgsIn(o, j)
Consuming == [s |-> m, o |-> out]
Gathering(c, w, n) ==
    SentIn(c.o) = {} /\ Gathers(c.s.tools, w) /\ Heads(c.s.tools, n)
BlockInv ==
    /\ Tidy(Consuming)
    /\ fragments \in Seq(Pieced) /\ chunks \in 0..MaxChunks /\ settled \in {"open", "ended", "failed"}
    /\ ~m.terminated => Gathering(Consuming, fragments, chunks)
    /\ m.terminated => WholeTools(out, fragments)

LEMMA GathersWhole ==
    ASSUME NEW tools \in Seq(Tools), NEW w, NEW n, NEW o, Gathers(tools, w), Heads(tools, n), Sends(tools, o)
    PROVE  WholeTools(o, w)
<1>1. Distinct(tools) BY DEF Gathers, Distinct
<1>2. \A i, j \in SentIn(o) : i # j => ArgsIn(o, i) # ArgsIn(o, j) BY <1>1 DEF Sends
<1> DEFINE S == {h \in DOMAIN tools : tools[h].id}
<1>3. {tools[j].args : j \in S} = {Given(w, k) : k \in Named(w)}
      <2>1. ASSUME NEW j \in S PROVE tools[j].args \in {Given(w, k) : k \in Named(w)}
            <3>1. tools[j].key \in Named(w) /\ tools[j].args = Given(w, tools[j].key) BY DEF Gathers
            <3>2. QED BY <3>1
      <2>2. ASSUME NEW k \in Named(w) PROVE Given(w, k) \in {tools[j].args : j \in S}
            <3>1. PICK i \in DOMAIN w : w[i].key = k BY DEF Named
            <3>2. PICK j \in DOMAIN tools : tools[j].key = k BY <3>1 DEF Gathers
            <3>3. tools[j].id /\ tools[j].args = Given(w, k) BY <3>2 DEF Gathers
            <3>4. QED BY <3>2, <3>3
      <2>3. QED BY <2>1, <2>2
<1>4. QED BY <1>2, <1>3 DEF WholeTools, Sends

LEMMA HeadsLater ==
    ASSUME NEW tools \in Seq(Tools), NEW n \in Nat, Heads(tools, n) PROVE Heads(tools, n + 1)
<1>1. ASSUME NEW i \in DOMAIN tools PROVE tools[i].args[1] <= n + 1
      <2>1. tools[i] \in Tools BY ElementIn
      <2>2. tools[i].args \in Seq(Nat) /\ Len(tools[i].args) > 0 /\ tools[i].args[1] <= n BY <2>1 DEF Tools, Heads
      <2>3. 0 \in Nat OBVIOUS
      <2>4. tools[i].args[1] \in Nat BY <2>2, <2>3, FirstStays
      <2>5. QED BY <2>2, <2>4
<1>2. QED BY <1>1 DEF Heads

LEMMA BlockInit == ASSUME BlockBounds, Blocks!Init PROVE BlockInv
<1> DEFINE c == Consuming
<1>1. /\ c.s = m /\ c.o = <<>> /\ m.started = FALSE /\ m.terminated = FALSE /\ m.next = 0
      /\ m.thinking = NULL /\ m.text = NULL /\ m.tools = <<>> /\ m.last = NULL
      BY DEF Blocks!Init, Blocks!Initially, Consuming
<1>2. <<>> \in Seq(Events) /\ <<>> \in Seq(Tools) /\ <<>> \in Seq(Pieced) /\ DOMAIN <<>> = {} BY EmptySeq
<1>3. m \in Local
      <2>1. m = [started |-> FALSE, terminated |-> FALSE, next |-> 0,
                 thinking |-> NULL, text |-> NULL, tools |-> <<>>, last |-> NULL]
            BY DEF Blocks!Init, Blocks!Initially
      <2>2. QED BY <1>2, <2>1 DEF Local, Numbers
<1>4. c \in Consumer BY <1>2, <1>3 DEF Consumer, Consuming, Blocks!Init
<1>5. Still(<<>>) = {} /\ Nests(<<>>) /\ Below(<<>>, 0) /\ SentIn(<<>>) = {}
      BY <1>2 DEF Still, Nests, Below, SentIn, ToolOpens
<1> HIDE DEF c
<1>6. Good(c.o, c.s.next) /\ Shut(c.o) BY <1>1, <1>2, <1>5 DEF Good, Shut
<1>7. Tidy(c) BY <1>1, <1>4, <1>6 DEF Tidy
<1>8. fragments = <<>> /\ chunks = 0 /\ settled = "open" BY DEF Blocks!Init
<1>9. Gathers(<<>>, <<>>) /\ Heads(<<>>, 0) BY <1>2 DEF Gathers, Heads
<1>10. Gathering(c, fragments, chunks) BY <1>1, <1>5, <1>8, <1>9 DEF Gathering
<1>11. chunks \in 0..MaxChunks BY <1>8 DEF BlockBounds
<1>12. QED BY <1>1, <1>2, <1>7, <1>8, <1>10, <1>11 DEF BlockInv, c

LEMMA ParsedIs ==
    ASSUME chunks \in Nat, NEW p \in Blocks!Parsed, p.tool # <<>>
    PROVE  p.tool[1] \in Received /\ p.tool[1].arg = chunks + 1
<1>1. PICK k \in ToolKeys \cup {NULL}, b \in BOOLEAN :
          p.tool = <<[index |-> k, id |-> b, arg |-> chunks + 1]>>
      BY DEF Blocks!Parsed
<1>2. p.tool[1] = [index |-> k, id |-> b, arg |-> chunks + 1] BY <1>1
<1>3. QED BY <1>2 DEF Received

\* What the parts of a chunk before its finish reason make of the consumer.
LEMMA PartsKeep ==
    ASSUME BlockBounds, NEW c, Tidy(c), chunks \in Nat, NEW p \in Blocks!Parsed, NEW f, f = p.tool[1]
    PROVE  LET c1 == Blocks!MessageStart(c)
               c2 == IF p.reasoning THEN Blocks!Reason(c1) ELSE c1
               c3 == IF p.content THEN Blocks!Say(c2) ELSE c2
               c4 == IF p.tool # <<>> THEN Blocks!Receive(c3, f) ELSE c3
           IN  /\ Tidy(c4) /\ c4.s.terminated = c.s.terminated /\ SameTools(c.o, c4.o)
               /\ c4.s.tools = IF p.tool # <<>> THEN WithPiece(c.s.tools, Blocks!ToolOf(c.s, f), f)
                               ELSE c.s.tools
<1> DEFINE c1 == Blocks!MessageStart(c)
           c2 == IF p.reasoning THEN Blocks!Reason(c1) ELSE c1
           c3 == IF p.content THEN Blocks!Say(c2) ELSE c2
           c4 == IF p.tool # <<>> THEN Blocks!Receive(c3, f) ELSE c3
<1>1. Tidy(c1) /\ c1.s.started /\ Keeps(c, c1) BY StartKeeps
<1> HIDE DEF c1
<1>2. Tidy(c2) /\ c2.s.started /\ Keeps(c1, c2)
      <2>1. CASE p.reasoning BY <1>1, <2>1, ReasonKeeps
      <2>2. CASE ~p.reasoning BY <1>1, <2>2, KeepsSame
      <2>3. QED BY <2>1, <2>2
<1> HIDE DEF c2
<1>3. Tidy(c3) /\ c3.s.started /\ Keeps(c2, c3)
      <2>1. CASE p.content BY <1>2, <2>1, SayKeeps
      <2>2. CASE ~p.content BY <1>2, <2>2, KeepsSame
      <2>3. QED BY <2>1, <2>2
<1> HIDE DEF c3
<1>4. Keeps(c, c3) BY <1>1, <1>2, <1>3, KeepsMore
<1>5. CASE p.tool # <<>>
      <2>1. f \in Received BY <1>5, ParsedIs
      <2>2. /\ Tidy(c4) /\ c4.s.terminated = c3.s.terminated /\ SameTools(c3.o, c4.o)
            /\ c4.s.tools = WithPiece(c3.s.tools, Blocks!ToolOf(c3.s, f), f)
            BY <1>3, <1>5, <2>1, ReceiveKeeps
      <2>3. Blocks!ToolOf(c3.s, f) = Blocks!ToolOf(c.s, f) BY <1>4 DEF Keeps, Blocks!ToolOf
      <2> HIDE DEF c4
      <2>4. SameTools(c.o, c3.o) /\ c3.s.tools = c.s.tools /\ c3.s.terminated = c.s.terminated BY <1>4 DEF Keeps
      <2>5. SameTools(c.o, c4.o) BY <2>2, <2>4, SameToolsMore
      <2>6. /\ Tidy(c4) /\ c4.s.terminated = c.s.terminated
            /\ c4.s.tools = WithPiece(c.s.tools, Blocks!ToolOf(c.s, f), f)
            BY <2>2, <2>3, <2>4
      <2>7. QED BY <1>5, <2>5, <2>6 DEF c1, c2, c3, c4
<1>6. CASE p.tool = <<>>
      <2>1. c4 = c3 BY <1>6
      <2> HIDE DEF c4
      <2>2. /\ Tidy(c4) /\ c4.s.terminated = c.s.terminated /\ SameTools(c.o, c4.o)
            /\ c4.s.tools = c.s.tools
            BY <1>3, <1>4, <2>1 DEF Keeps
      <2>3. QED BY <1>6, <2>2 DEF c1, c2, c3, c4
<1>7. QED BY <1>5, <1>6

LEMMA PieceKeeps ==
    ASSUME NEW tools \in Seq(Tools), NEW w \in Seq(Pieced), NEW n \in Nat, Gathers(tools, w), Heads(tools, n),
           NEW k \in Keys, NEW f \in Received, f.arg = n + 1,
           NEW x, x = [key |-> k, id |-> f.id, arg |-> f.arg]
    PROVE  /\ Append(w, x) \in Seq(Pieced) /\ Gathers(WithPiece(tools, k, f), Append(w, x))
           /\ Heads(WithPiece(tools, k, f), n + 1)
<1>1. f.id \in BOOLEAN /\ f.arg \in Nat BY DEF Received
<1>2. x \in Pieced /\ x.key = k /\ (x.id <=> f.id) /\ x.arg = f.arg BY <1>1 DEF Pieced
<1>3. \A i, j \in DOMAIN tools : i # j => tools[i].key # tools[j].key BY DEF Gathers
<1> DEFINE taken == WithPiece(tools, k, f)
<1>4. Takes(tools, k, f, taken) BY <1>3, WithPieceTakes
<1> HIDE DEF taken
<1>5. Gathers(taken, Append(w, x)) /\ Heads(taken, n + 1) BY <1>1, <1>2, <1>4, TakesGathers
<1>6. Append(w, x) \in Seq(Pieced) BY <1>2, AppendProperties
<1>7. QED BY <1>5, <1>6 DEF taken

LEMMA ConsumeKeeps ==
    ASSUME BlockBounds, BlockInv, chunks < MaxChunks, NEW p \in Blocks!Parsed, NEW d, d = Blocks!Consume(p),
           m' = d.s, out' = d.o, chunks' = chunks + 1, settled' = settled,
           fragments' = IF p.tool = <<>> \/ m.terminated THEN fragments
                        ELSE Append(fragments, [key |-> Blocks!ToolOf(m, p.tool[1]),
                                                id |-> p.tool[1].id, arg |-> p.tool[1].arg])
    PROVE  BlockInv'
<1> DEFINE c == Consuming
           f == p.tool[1]
           k == Blocks!ToolOf(m, f)
           c1 == Blocks!MessageStart(c)
           c2 == IF p.reasoning THEN Blocks!Reason(c1) ELSE c1
           c3 == IF p.content THEN Blocks!Say(c2) ELSE c2
           c4 == IF p.tool # <<>> THEN Blocks!Receive(c3, f) ELSE c3
           x == [key |-> k, id |-> f.id, arg |-> f.arg]
<1>1. d = IF p.finish THEN Blocks!Terminate(c4) ELSE c4
      BY Zenon DEF Blocks!Consume, Blocks!At, Consuming
<1>2. Tidy(c) /\ c.s = m /\ c.o = out BY DEF BlockInv, Consuming
<1>3. /\ fragments \in Seq(Pieced) /\ chunks \in Nat /\ MaxChunks \in Nat /\ chunks + 1 \in 0..MaxChunks
      /\ settled \in {"open", "ended", "failed"}
      BY DEF BlockInv, BlockBounds
<1> HIDE DEF c
<1>4. /\ Tidy(c4) /\ c4.s.terminated = m.terminated /\ SameTools(out, c4.o)
      /\ c4.s.tools = IF p.tool # <<>> THEN WithPiece(m.tools, k, f) ELSE m.tools
      <2>1. f = p.tool[1] OBVIOUS
      <2>2. k = Blocks!ToolOf(c.s, f) BY <1>2
      <2> HIDE DEF f, k
      <2>3. /\ Tidy(c4) /\ c4.s.terminated = c.s.terminated /\ SameTools(c.o, c4.o)
            /\ c4.s.tools = IF p.tool # <<>> THEN WithPiece(c.s.tools, Blocks!ToolOf(c.s, f), f)
                            ELSE c.s.tools
            BY <1>2, <1>3, <2>1, PartsKeep
      <2> HIDE DEF c4
      <2>4. QED BY <1>2, <2>2, <2>3
<1> HIDE DEF c4
<1>5. m.tools \in Seq(Tools) /\ m \in Local /\ c4.s.tools \in Seq(Tools)
      BY <1>2, <1>4 DEF Tidy, Consumer, Local
<1>6. fragments' \in Seq(Pieced) /\ (m.terminated => fragments' = fragments)
      /\ (~m.terminated => Gathering(c4, fragments', chunks + 1))
      <2>1. CASE m.terminated BY <1>3, <2>1
      <2>2. CASE ~m.terminated
            <3>1. SentIn(out) = {} /\ Gathers(m.tools, fragments) /\ Heads(m.tools, chunks)
                  BY <1>2, <2>2 DEF BlockInv, Gathering, c
            <3>2. SentIn(c4.o) = {} BY <1>4, <3>1 DEF SameTools
            <3>3. CASE p.tool = <<>>
                  <4>1. fragments' = fragments /\ c4.s.tools = m.tools BY <1>4, <3>3
                  <4>2. Heads(m.tools, chunks + 1) BY <1>3, <1>5, <3>1, HeadsLater
                  <4>3. QED BY <1>3, <2>2, <3>1, <3>2, <4>1, <4>2 DEF Gathering
            <3>4. CASE p.tool # <<>>
                  <4>1. f \in Received /\ f.arg = chunks + 1 BY <1>3, <3>4, ParsedIs
                  <4>2. fragments' = Append(fragments, x) /\ c4.s.tools = WithPiece(m.tools, k, f)
                        BY <1>4, <2>2, <3>4
                  <4>3. k \in Keys BY <1>5, <4>1, ToolOfIs
                  <4> HIDE DEF f, k
                  <4>4. /\ Append(fragments, x) \in Seq(Pieced) /\ Gathers(WithPiece(m.tools, k, f), Append(fragments, x))
                        /\ Heads(WithPiece(m.tools, k, f), chunks + 1)
                        BY <1>3, <1>5, <3>1, <4>1, <4>3, PieceKeeps
                  <4> HIDE DEF x
                  <4>5. QED BY <2>2, <3>2, <4>2, <4>4 DEF Gathering
            <3>5. QED BY <3>3, <3>4
      <2>3. QED BY <2>1, <2>2
<1>7. Consuming' = [s |-> d.s, o |-> d.o] BY DEF Consuming
<1>8. ASSUME Tidy(d) PROVE Tidy(Consuming)' /\ Consuming' = d
      <2>1. d \in Consumer BY <1>8 DEF Tidy
      <2>2. [s |-> d.s, o |-> d.o] = d BY <2>1 DEF Consumer
      <2>3. Tidy(Consuming)' <=> Tidy(Consuming') BY Zenon DEF Tidy
      <2>4. QED BY <1>7, <1>8, <2>2, <2>3
<1>9. CASE m.terminated
      <2>1. Tidy(d) /\ d = c4
            <3>1. CASE p.finish
                  <4>1. c4.s.terminated BY <1>4, <1>9
                  <4>2. Blocks!Terminate(c4) = c4 BY <4>1 DEF Blocks!Terminate
                  <4>3. QED BY <1>1, <1>4, <3>1, <4>2
            <3>2. CASE ~p.finish BY <1>1, <1>4, <3>2
            <3>3. QED BY <3>1, <3>2
      <2>2. d.s.terminated /\ SameTools(out, d.o) BY <1>4, <1>9, <2>1
      <2>3. WholeTools(out, fragments) BY <1>9 DEF BlockInv
      <2>4. WholeTools(d.o, fragments)
            <3> DEFINE v == d.o
                       W == {Given(fragments, k1) : k1 \in Named(fragments)}
            <3>1. SentIn(v) = SentIn(out) /\ \A i \in SentIn(out) : ArgsIn(v, i) = ArgsIn(out, i)
                  BY <2>2 DEF SameTools
            <3>2. /\ {ArgsIn(out, i) : i \in SentIn(out)} = W
                  /\ \A i, j \in SentIn(out) : i # j => ArgsIn(out, i) # ArgsIn(out, j)
                  BY <2>3 DEF WholeTools
            <3> HIDE DEF v, W
            <3>3. /\ {ArgsIn(v, i) : i \in SentIn(v)} = W
                  /\ \A i, j \in SentIn(v) : i # j => ArgsIn(v, i) # ArgsIn(v, j)
                  BY <3>1, <3>2
            <3>4. QED BY <3>3 DEF WholeTools, v, W
      <2>5. WholeTools(out, fragments)' <=> WholeTools(out', fragments') BY Zenon DEF WholeTools, Named
      <2>6. WholeTools(out, fragments)' BY <1>6, <1>9, <2>4, <2>5
      <2>7. m'.terminated BY <2>2
      <2>8. QED BY <1>3, <1>6, <1>8, <2>1, <2>6, <2>7 DEF BlockInv
<1>10. CASE ~m.terminated
       <2>1. Gathering(c4, fragments', chunks + 1) /\ ~c4.s.terminated BY <1>4, <1>6, <1>10
       <2>2. CASE ~p.finish
             <3>1. d = c4 BY <1>1, <2>2
             <3>2. Gathering(Consuming, fragments, chunks)' <=> Gathering(Consuming', fragments', chunks')
                   BY Zenon DEF Gathering, Gathers, Heads, Named
             <3>3. Gathering(Consuming', fragments', chunks') BY <1>4, <1>8, <2>1, <3>1
             <3>4. ~m'.terminated BY <2>1, <3>1
             <3>5. QED BY <1>3, <1>4, <1>6, <1>8, <3>1, <3>2, <3>3, <3>4 DEF BlockInv
       <2>3. CASE p.finish
             <3>1. d = Blocks!Terminate(c4) BY <1>1, <2>3
             <3>2. SentIn(c4.o) = {} BY <2>1 DEF Gathering
             <3>3. Tidy(d) /\ d.s.terminated /\ Sends(c4.s.tools, d.o) BY <1>4, <2>1, <3>1, <3>2, TerminateKeeps
             <3>4. WholeTools(d.o, fragments') BY <1>5, <2>1, <3>3, GathersWhole DEF Gathering
             <3>5. WholeTools(out, fragments)' <=> WholeTools(out', fragments') BY Zenon DEF WholeTools, Named
             <3>6. WholeTools(out, fragments)' /\ m'.terminated BY <3>3, <3>4, <3>5
             <3>7. QED BY <1>3, <1>6, <1>8, <3>3, <3>6 DEF BlockInv
       <2>4. QED BY <2>2, <2>3
<1>11. QED BY <1>9, <1>10

LEMMA BlockDoneKeeps == ASSUME BlockBounds, BlockInv, Blocks!Done PROVE BlockInv'
<1> DEFINE c == Consuming
           d == Blocks!Terminate(c)
<1>1. Tidy(c) /\ c.s = m /\ c.o = out BY DEF BlockInv, Consuming
<1>2. m' = d.s /\ out' = d.o /\ fragments' = fragments /\ chunks' = chunks /\ settled' = settled
      BY DEF Blocks!Done, Blocks!At, Consuming
<1>3. m.terminated \/ SentIn(out) = {} BY <1>1 DEF BlockInv, Gathering
<1> HIDE DEF c
<1>4. /\ Tidy(d) /\ d.s.terminated /\ (m.terminated => d = c)
      /\ (~m.terminated => Sends(m.tools, d.o))
      BY <1>1, <1>3, TerminateKeeps
<1> HIDE DEF d
<1>5. WholeTools(d.o, fragments)
      <2>1. CASE m.terminated BY <1>1, <1>4, <2>1 DEF BlockInv
      <2>2. CASE ~m.terminated
            <3>1. Gathers(m.tools, fragments) /\ Heads(m.tools, chunks) BY <1>1, <2>2 DEF BlockInv, Gathering, c
            <3>2. m.tools \in Seq(Tools) BY <1>1 DEF Tidy, Consumer, Local
            <3>3. QED BY <1>4, <2>2, <3>1, <3>2, GathersWhole
      <2>3. QED BY <2>1, <2>2
<1>6. Consuming' = d
      <2>1. d \in Consumer BY <1>4 DEF Tidy
      <2>2. [s |-> d.s, o |-> d.o] = d BY <2>1 DEF Consumer
      <2>3. QED BY <1>2, <2>2 DEF Consuming
<1>7. Tidy(Consuming)' <=> Tidy(Consuming') BY Zenon DEF Tidy
<1>8. WholeTools(out, fragments)' <=> WholeTools(out', fragments') BY Zenon DEF WholeTools, Named
<1>9. Tidy(Consuming)' /\ WholeTools(out, fragments)' /\ m'.terminated BY <1>2, <1>4, <1>5, <1>6, <1>7, <1>8
<1>10. QED BY <1>2, <1>9 DEF BlockInv

LEMMA BlockNext == ASSUME BlockBounds, BlockInv, [Blocks!Next]_blockVars PROVE BlockInv'
<1>1. CASE Blocks!Chunk
      <2>1. chunks < MaxChunks /\ chunks' = chunks + 1 /\ settled' = settled BY <1>1 DEF Blocks!Chunk
      <2>2. PICK p \in Blocks!Parsed :
                /\ m' = Blocks!Consume(p).s /\ out' = Blocks!Consume(p).o
                /\ fragments' = IF p.tool = <<>> \/ m.terminated THEN fragments
                                ELSE Append(fragments, [key |-> Blocks!ToolOf(m, p.tool[1]),
                                                        id |-> p.tool[1].id, arg |-> p.tool[1].arg])
            BY <1>1, Zenon DEF Blocks!Chunk
      <2>3. QED BY <2>1, <2>2, ConsumeKeeps
<1>2. CASE Blocks!Done BY <1>2, BlockDoneKeeps
<1>3. ASSUME m' = m, out' = out, fragments' = fragments, chunks' = chunks, settled' \in {settled, "ended", "failed"}
      PROVE  BlockInv'
      <2>1. Consuming' = Consuming BY <1>3 DEF Consuming
      <2>2. /\ Tidy(Consuming)' <=> Tidy(Consuming')
            /\ WholeTools(out, fragments)' <=> WholeTools(out', fragments')
            /\ Gathering(Consuming, fragments, chunks)' <=> Gathering(Consuming', fragments', chunks')
            BY Zenon DEF Tidy, WholeTools, Gathering, Gathers, Heads, Named
      <2>3. QED BY <1>3, <2>1, <2>2 DEF BlockInv
<1>4. CASE Blocks!Settle BY <1>3, <1>4 DEF Blocks!Settle
<1>5. CASE UNCHANGED blockVars BY <1>3, <1>5 DEF blockVars
<1>6. QED BY <1>1, <1>2, <1>4, <1>5 DEF Blocks!Next

LEMMA BlockTrue == ASSUME BlockBounds, BlockInv PROVE Blocks!TypeOK /\ Blocks!BlocksNest /\ Blocks!ToolsWhole
<1>1. /\ Tidy(Consuming) /\ Consuming.s = m /\ Consuming.o = out BY DEF BlockInv, Consuming
<1>2. /\ m \in Local /\ Good(out, m.next) /\ out \in Seq(Events) /\ Nests(out)
      BY <1>1 DEF Tidy, Consumer, Good
<1>3. Blocks!TypeOK
      <2>1. m.next \in Nat BY <1>2 DEF Good
      <2>2. m.thinking \in 0..m.next \cup {NULL} /\ m.text \in 0..m.next \cup {NULL}
            <3>1. \/ m.thinking = NULL /\ m.text = NULL
                  \/ m.text = NULL /\ Held(out, m.thinking, "thinking")
                  \/ m.thinking = NULL /\ Held(out, m.text, "text")
                  BY <1>1 DEF Tidy
            <3>2. \A i, t : Held(out, i, t) => i \in 0..m.next BY <1>2, <2>1, HeldBelow
            <3>3. QED BY <3>1, <3>2
      <2>3. \A i \in DOMAIN m.tools : m.tools[i].key \in Keys
            <3>1. m.tools \in Seq(Tools) BY <1>2 DEF Local
            <3>2. \A i \in DOMAIN m.tools : m.tools[i] \in Tools BY <3>1, ElementIn
            <3>3. QED BY <3>2 DEF Tools
      <2>4. QED BY <2>1, <2>2, <2>3 DEF Blocks!TypeOK, BlockInv, Keys
<1>4. Blocks!BlocksNest
      <2>1. ASSUME NEW i \in DOMAIN out
            PROVE  LET opens == {j \in DOMAIN out : Blocks!OpenAt(i, j)}
                   IN  CASE Blocks!Is(i, "open") ->
                                /\ opens = {}
                                /\ \A j \in 1..(i - 1) : Blocks!Is(j, "open") => out[j].index < out[i].index
                         [] out[i].event \in {"delta", "close"} ->
                               \E j \in opens : opens = {j} /\ out[j].index = out[i].index /\ out[j].type = out[i].type
                         [] OTHER -> opens = {}
            <3> DEFINE w == SubSeq(out, 1, i - 1)
                       opens == {j \in DOMAIN out : Blocks!OpenAt(i, j)}
                       e == out[i]
            <3>1. Len(out) \in Nat /\ DOMAIN out = 1..Len(out) /\ i \in 1..Len(out) + 1 /\ i \in Nat /\ i \in 1..Len(out)
                  BY <1>2, LenProperties
            <3>2. Len(w) = i - 1 /\ DOMAIN w = 1..i - 1 /\ \A j \in 1..i - 1 : w[j] = out[j]
                  BY <1>2, <3>1, FirstOnes
            <3>3. Fits(w, e) BY <1>2 DEF Nests
            <3> HIDE DEF w
            <3>4. opens = Still(w)
                  <4>1. ASSUME NEW j \in 1..i - 1
                        PROVE  (\A k \in j..(i - 1) : out[k].event = "close" => out[k].index # out[j].index)
                               <=> \A k \in j..Len(w) : w[k].event = "close" => w[k].index # w[j].index
                        <5>1. \A k \in j..i - 1 : k \in 1..i - 1 BY <3>1, <4>1
                        <5>2. QED BY <3>2, <4>1, <5>1
                  <4>2. \A j : j \in opens <=> j \in 1..i - 1 /\ Blocks!OpenAt(i, j)
                        <5>1. \A j \in 1..Len(out) : j < i <=> j \in 1..i - 1 BY <3>1
                        <5>2. \A j \in 1..i - 1 : j \in 1..Len(out) BY <3>1
                        <5>3. QED BY <3>1, <5>1, <5>2 DEF Blocks!OpenAt
                  <4>3. \A j \in 1..i - 1 : Blocks!OpenAt(i, j) <=> j \in Still(w)
                        <5>1. \A j \in 1..i - 1 : j < i BY <3>1
                        <5>2. QED BY <3>2, <4>1, <5>1 DEF Blocks!OpenAt, Blocks!Is, Still
                  <4>4. \A j \in Still(w) : j \in 1..i - 1 BY <3>2 DEF Still
                  <4> HIDE DEF opens
                  <4>5. QED BY <4>2, <4>3, <4>4
            <3> HIDE DEF opens
            <3>5. \A j \in Still(w) : w[j] = out[j] BY <3>2 DEF Still
            <3>6. CASE e.event = "open"
                  <4>1. opens = {} BY <3>3, <3>4, <3>6 DEF Fits, Shut
                  <4>2. \A j \in 1..(i - 1) : out[j].event = "open" => out[j].index < e.index
                        BY <3>2, <3>3, <3>6 DEF Fits
                  <4>3. QED BY <3>6, <4>1, <4>2 DEF Blocks!Is, opens
            <3>7. CASE e.event \in {"delta", "close"}
                  <4>1. Held(w, e.index, e.type) BY <3>3, <3>7 DEF Fits
                  <4>2. \E j \in opens : opens = {j} /\ out[j].index = e.index /\ out[j].type = e.type
                        BY <3>4, <3>5, <4>1 DEF Held
                  <4>3. ~Blocks!Is(i, "open") BY <3>7 DEF Blocks!Is
                  <4>4. QED BY <3>7, <4>2, <4>3 DEF opens
            <3>8. CASE e.event \notin {"open", "delta", "close"}
                  <4>1. opens = {} BY <3>3, <3>4, <3>8 DEF Fits, Shut
                  <4>2. ~Blocks!Is(i, "open") BY <3>8 DEF Blocks!Is
                  <4>3. QED BY <3>8, <4>1, <4>2 DEF opens
            <3>9. QED BY <3>6, <3>7, <3>8
      <2>2. QED BY <2>1 DEF Blocks!BlocksNest
<1>5. Blocks!ToolsWhole
      <2>1. SUFFICES ASSUME m.terminated PROVE Blocks!ToolsWhole BY DEF Blocks!ToolsWhole
      <2>2. WholeTools(out, fragments) BY <2>1 DEF BlockInv
      <2>3. \A i : Blocks!ArgsSent(i) = ArgsIn(out, i)
            BY SameBlocks, Zenon DEF Blocks!ArgsSent, ArgsIn, FragmentsOf, Deltas, Numbers
      <2>4. \A k : Blocks!ArgsGiven(k) = Given(fragments, k)
            BY SameBlocks, Zenon DEF Blocks!ArgsGiven, Given, ArgumentsOf, OfKey
      <2>5. Blocks!Identified = Named(fragments) BY DEF Blocks!Identified, Named
      <2>6. {out[i].index : i \in {j \in DOMAIN out : Blocks!Is(j, "open") /\ out[j].type = "tool"}} = SentIn(out)
            BY DEF Blocks!Is, SentIn, ToolOpens
      <2>7. {Blocks!ArgsSent(i) : i \in SentIn(out)} = {Blocks!ArgsGiven(k) : k \in Blocks!Identified}
            BY <2>2, <2>3, <2>4, <2>5 DEF WholeTools
      <2>8. \A i, j \in SentIn(out) : i # j => Blocks!ArgsSent(i) # Blocks!ArgsSent(j)
            BY <2>2, <2>3 DEF WholeTools
      <2>9. QED BY <2>6, <2>7, <2>8, Zenon DEF Blocks!ToolsWhole
<1>6. QED BY <1>3, <1>4, <1>5

(***************************************************************************)
(* The streams of the two readers are whole.                               *)
(***************************************************************************)

\* AnthropicStream: at any moment at most one block is open and every event belongs to it, and
\* once the message has ended each tool call the provider identified was sent with all of its
\* argument fragments and no others (routes/messages.ts:1348).  ClientStream: what the page
\* shows is what the lines that arrived whole say, however the bytes and the tags were cut
\* (frontend/src/lib/playground/stream.ts:264).
THEOREM StreamWholeHolds == ASSUME BlockBounds, StreamBounds PROVE MCSpec => []StreamWhole
<1>1. MCInit => BlockInv /\ ClientInv BY BlockInit, ClientInit DEF MCInit
<1>2. ASSUME BlockInv, [Blocks!Next]_blockVars PROVE BlockInv' BY <1>2, BlockNext
<1>3. ASSUME ClientInv, [Client!Next]_clientVars PROVE ClientInv' BY <1>3, ClientNext
<1>4. [MCNext]_MCVars => [Blocks!Next]_blockVars /\ [Client!Next]_clientVars
      BY DEF MCNext, StreamNext, StoreNext, PageNext, MCVars
<1>5. BlockInv /\ ClientInv => StreamWhole BY BlockTrue, ClientTrue DEF StreamWhole
<1>6. (BlockInv /\ ClientInv) /\ [MCNext]_MCVars => (BlockInv /\ ClientInv)' BY <1>2, <1>3, <1>4
<1>7. QED BY <1>1, <1>5, <1>6, PTL DEF MCSpec

(***************************************************************************)
(* Playground: sequences of sequences of messages, and which payloads they *)
(* point at.                                                               *)
(***************************************************************************)
Workspaces == {ws \in Seq(Seq(Tab!Messages)) : Len(ws) \in 1..MaxChats}
Operation == [kind : {"put", "collect", "read"}, ids : SUBSET (1..MaxMessages)]
TurnShape == [chat : Nat, index : Nat, id : Nat, output : BOOLEAN]

Shows(s, n) == \E i \in 1..Len(s) : s[i].image /\ s[i].id = n

ChatBounds ==
    MaxMessages \in Nat /\ MaxChats \in Nat \ {0} /\ KeptChats \in Nat \ {0} /\ KeptMessages \in Nat

LEMMA WorkspaceParts ==
    ASSUME NEW ws \in Workspaces
    PROVE  /\ Len(ws) \in Nat /\ DOMAIN ws = 1..Len(ws) /\ Len(ws) \in 1..MaxChats
           /\ \A i \in 1..Len(ws) : /\ ws[i] \in Seq(Tab!Messages) /\ Len(ws[i]) \in Nat
                                    /\ DOMAIN ws[i] = 1..Len(ws[i])
                                    /\ \A j \in 1..Len(ws[i]) : ws[i][j] \in Tab!Messages
<1>1. ws \in Seq(Seq(Tab!Messages)) /\ Len(ws) \in 1..MaxChats BY DEF Workspaces
<1>2. Len(ws) \in Nat /\ DOMAIN ws = 1..Len(ws) BY <1>1
<1>3. \A i \in 1..Len(ws) : ws[i] \in Seq(Tab!Messages) BY <1>1
<1>4. ASSUME NEW s \in Seq(Tab!Messages)
      PROVE  /\ Len(s) \in Nat /\ DOMAIN s = 1..Len(s)
             /\ \A j \in 1..Len(s) : s[j] \in Tab!Messages
      OBVIOUS
<1>5. QED BY <1>1, <1>2, <1>3, <1>4

LEMMA ReferencedIs ==
    ASSUME NEW ws \in Workspaces, NEW n
    PROVE  n \in Tab!Referenced(ws) <=> \E i \in 1..Len(ws) : Shows(ws[i], n)
<1>1. \A x : x \in Tab!AllOf(ws) <=> \E i \in 1..Len(ws) : x \in Tab!ToSet(ws[i])
      BY WorkspaceParts DEF Tab!AllOf
<1>2. \A i \in 1..Len(ws) : \A x : x \in Tab!ToSet(ws[i])
                                     <=> \E j \in 1..Len(ws[i]) : x = ws[i][j]
      BY WorkspaceParts DEF Tab!ToSet
<1>3. n \in Tab!Referenced(ws) <=> \E x \in Tab!AllOf(ws) : x.image /\ x.id = n
      BY DEF Tab!Referenced
<1>4. (\E x \in Tab!AllOf(ws) : x.image /\ x.id = n)
          <=> \E i \in 1..Len(ws) : \E j \in 1..Len(ws[i]) : ws[i][j].image /\ ws[i][j].id = n
      <2>1. ASSUME NEW x \in Tab!AllOf(ws), x.image, x.id = n
            PROVE  \E i \in 1..Len(ws) : \E j \in 1..Len(ws[i]) :
                        ws[i][j].image /\ ws[i][j].id = n
            <3>1. PICK i \in 1..Len(ws) : x \in Tab!ToSet(ws[i]) BY <1>1, Zenon
            <3>2. PICK j \in 1..Len(ws[i]) : x = ws[i][j] BY <1>2, <3>1, Zenon
            <3>3. ws[i][j].image /\ ws[i][j].id = n BY <2>1, <3>2, Zenon
            <3>4. QED BY <3>3, Zenon
      <2>2. ASSUME NEW i \in 1..Len(ws), NEW j \in 1..Len(ws[i]), ws[i][j].image, ws[i][j].id = n
            PROVE  ws[i][j] \in Tab!AllOf(ws)
            <3>1. ws[i][j] \in Tab!ToSet(ws[i]) BY <1>2, Zenon
            <3>2. QED BY <1>1, <3>1, Zenon
      <2>3. QED BY <2>1, <2>2, Zenon
<1>5. QED BY <1>3, <1>4, Zenon DEF Shows

LEMMA ReferencedTyped ==
    ASSUME NEW ws \in Workspaces PROVE Tab!Referenced(ws) \subseteq 1..MaxMessages
<1>1. ASSUME NEW n \in Tab!Referenced(ws) PROVE n \in 1..MaxMessages
      <2>1. PICK i \in 1..Len(ws) : Shows(ws[i], n) BY <1>1, ReferencedIs
      <2>2. PICK j \in 1..Len(ws[i]) : ws[i][j].id = n BY <2>1 DEF Shows
      <2>3. ws[i][j] \in Tab!Messages BY WorkspaceParts
      <2>4. QED BY <2>2, <2>3 DEF Tab!Messages
<1>2. QED BY <1>1

\* One conversation is replaced.
LEMMA ReplacedChat ==
    ASSUME NEW ws \in Workspaces, NEW a \in 1..Len(ws), NEW s \in Seq(Tab!Messages)
    PROVE  /\ [ws EXCEPT ![a] = s] \in Workspaces
           /\ Len([ws EXCEPT ![a] = s]) = Len(ws)
           /\ \A i \in 1..Len(ws) : [ws EXCEPT ![a] = s][i] = IF i = a THEN s ELSE ws[i]
BY WorkspaceParts, ExceptSeq DEF Workspaces

LEMMA ReplacedReferences ==
    ASSUME NEW ws \in Workspaces, NEW a \in 1..Len(ws), NEW s \in Seq(Tab!Messages),
           NEW n, \A k : k # n /\ Shows(s, k) => Shows(ws[a], k),
           NEW k \in Tab!Referenced([ws EXCEPT ![a] = s]), k # n
    PROVE  k \in Tab!Referenced(ws)
<1> DEFINE new == [ws EXCEPT ![a] = s]
<1>1. new \in Workspaces /\ Len(new) = Len(ws)
      /\ \A i \in 1..Len(ws) : new[i] = IF i = a THEN s ELSE ws[i]
      BY ReplacedChat
<1> HIDE DEF new
<1>2. PICK i \in 1..Len(new) : Shows(new[i], k) BY <1>1, ReferencedIs DEF new
<1>3. Shows(ws[i], k) BY <1>1, <1>2
<1>4. QED BY <1>1, <1>3, ReferencedIs

LEMMA KeptReferences ==
    ASSUME NEW ws \in Workspaces, NEW a \in 1..Len(ws), NEW s \in Seq(Tab!Messages),
           NEW k, Shows(ws[a], k) => Shows(s, k), k \in Tab!Referenced(ws)
    PROVE  k \in Tab!Referenced([ws EXCEPT ![a] = s])
<1> DEFINE new == [ws EXCEPT ![a] = s]
<1>1. new \in Workspaces /\ Len(new) = Len(ws)
      /\ \A i \in 1..Len(ws) : new[i] = IF i = a THEN s ELSE ws[i]
      BY ReplacedChat
<1> HIDE DEF new
<1>2. PICK i \in 1..Len(ws) : Shows(ws[i], k) BY ReferencedIs
<1>3. Shows(new[i], k) BY <1>1, <1>2
<1>4. QED BY <1>1, <1>3, ReferencedIs DEF new

\* A stretch of a conversation.
LEMMA StretchOf ==
    ASSUME NEW s \in Seq(Tab!Messages), NEW i \in 1..(Len(s) + 1), NEW j \in 0..Len(s)
    PROVE  /\ SubSeq(s, i, j) \in Seq(Tab!Messages)
           /\ Len(SubSeq(s, i, j)) = IF i <= j THEN j - i + 1 ELSE 0
           /\ \A k \in 1..Len(SubSeq(s, i, j)) : SubSeq(s, i, j)[k] = s[i + k - 1]
                                                /\ i + k - 1 \in 1..Len(s)
           /\ \A n : Shows(SubSeq(s, i, j), n) => Shows(s, n)
<1>1. Len(s) \in Nat /\ i \in Int /\ j \in Int OBVIOUS
<1>2. \A k \in i..j : s[k] \in Tab!Messages BY <1>1
<1> DEFINE t == SubSeq(s, i, j)
<1>3. /\ t \in Seq(Tab!Messages) /\ Len(t) = IF i <= j THEN j - i + 1 ELSE 0
      /\ \A k \in 1..(j - i + 1) : t[k] = s[i + k - 1]
      BY <1>1, <1>2, SubSeqProperties
<1> HIDE DEF t
<1>4. \A k \in 1..Len(t) : t[k] = s[i + k - 1] /\ i + k - 1 \in 1..Len(s) BY <1>1, <1>3
<1>5. \A n : Shows(t, n) => Shows(s, n) BY <1>4 DEF Shows
<1>6. QED BY <1>3, <1>4, <1>5 DEF t

LEMMA RemovedAt ==
    ASSUME NEW S, NEW s \in Seq(S), NEW i \in 1..Len(s)
    PROVE  /\ Tab!RemoveAt(s, i) \in Seq(S) /\ Len(Tab!RemoveAt(s, i)) = Len(s) - 1
           /\ \A k \in 1..(Len(s) - 1) :
                  Tab!RemoveAt(s, i)[k] = IF k < i THEN s[k] ELSE s[k + 1]
<1> DEFINE b == SubSeq(s, 1, i - 1)
           e == SubSeq(s, i + 1, Len(s))
<1>1. Len(s) \in Nat /\ i \in Int /\ 1 \in Int /\ i - 1 \in Int /\ i + 1 \in Int
      /\ Len(s) \in Int /\ \A k \in 1..Len(s) : s[k] \in S OBVIOUS
<1>2. b \in Seq(S) /\ Len(b) = i - 1 /\ \A k \in 1..(i - 1) : b[k] = s[k]
      <2>1. \A k \in 1..(i - 1) : s[k] \in S BY <1>1
      <2>2. /\ b \in Seq(S) /\ Len(b) = IF 1 <= i - 1 THEN (i - 1) - 1 + 1 ELSE 0
            /\ \A k \in 1..((i - 1) - 1 + 1) : b[k] = s[1 + k - 1]
            BY <1>1, <2>1, SubSeqProperties
      <2> HIDE DEF b
      <2>3. QED BY <1>1, <2>2
<1>3. e \in Seq(S) /\ Len(e) = Len(s) - i /\ \A k \in 1..(Len(s) - i) : e[k] = s[i + k]
      <2>1. \A k \in (i + 1)..Len(s) : s[k] \in S BY <1>1
      <2>2. /\ e \in Seq(S) /\ Len(e) = IF i + 1 <= Len(s) THEN Len(s) - (i + 1) + 1 ELSE 0
            /\ \A k \in 1..(Len(s) - (i + 1) + 1) : e[k] = s[(i + 1) + k - 1]
            BY <1>1, <2>1, SubSeqProperties
      <2> HIDE DEF e
      <2>3. QED BY <1>1, <2>2
<1> HIDE DEF b, e
<1>4. /\ b \o e \in Seq(S) /\ Len(b \o e) = Len(b) + Len(e)
      /\ \A k \in 1..(Len(b) + Len(e)) : (b \o e)[k] = IF k <= Len(b) THEN b[k] ELSE e[k - Len(b)]
      BY <1>2, <1>3, ConcatProperties
<1>5. Len(b \o e) = Len(s) - 1 BY <1>1, <1>2, <1>3, <1>4
<1>6. ASSUME NEW k \in 1..(Len(s) - 1)
      PROVE  (b \o e)[k] = IF k < i THEN s[k] ELSE s[k + 1]
      <2>1. k \in 1..(Len(b) + Len(e)) BY <1>1, <1>2, <1>3
      <2>2. CASE k < i
            <3>1. k <= Len(b) /\ k \in 1..(i - 1) BY <1>1, <1>2, <2>2
            <3>2. QED BY <1>2, <1>4, <2>1, <2>2, <3>1
      <2>3. CASE ~(k < i)
            <3>1. ~(k <= Len(b)) /\ k - Len(b) = k - i + 1 /\ k - i + 1 \in 1..(Len(s) - i)
                  /\ i + (k - i + 1) = k + 1
                  BY <1>1, <1>2, <2>3
            <3>2. QED BY <1>3, <1>4, <2>1, <2>3, <3>1
      <2>4. QED BY <2>2, <2>3
<1>7. Tab!RemoveAt(s, i) = b \o e BY DEF Tab!RemoveAt, b, e
<1>8. QED BY <1>4, <1>5, <1>6, <1>7

\* A message is deleted, or a conversation.
LEMMA WithoutOne ==
    ASSUME NEW s \in Seq(Tab!Messages), NEW i \in 1..Len(s)
    PROVE  /\ Tab!RemoveAt(s, i) \in Seq(Tab!Messages)
           /\ \A n : Shows(Tab!RemoveAt(s, i), n) => Shows(s, n)
<1> DEFINE t == Tab!RemoveAt(s, i)
<1>1. /\ t \in Seq(Tab!Messages) /\ Len(t) = Len(s) - 1
      /\ \A k \in 1..(Len(s) - 1) : t[k] = IF k < i THEN s[k] ELSE s[k + 1]
      BY RemovedAt
<1> HIDE DEF t
<1>2. \A k \in 1..Len(t) : k \in 1..Len(s) /\ k + 1 \in 1..Len(s) /\ k \in 1..(Len(s) - 1)
      BY <1>1
<1>3. \A n : Shows(t, n) => Shows(s, n) BY <1>1, <1>2 DEF Shows
<1>4. QED BY <1>1, <1>3 DEF t

LEMMA WithoutChat ==
    ASSUME ChatBounds, NEW ws \in Workspaces, NEW i \in 1..Len(ws), Len(ws) # 1
    PROVE  /\ Tab!RemoveAt(ws, i) \in Workspaces
           /\ Len(Tab!RemoveAt(ws, i)) = Len(ws) - 1
           /\ Tab!Referenced(Tab!RemoveAt(ws, i)) \subseteq Tab!Referenced(ws)
<1> DEFINE t == Tab!RemoveAt(ws, i)
<1>1. ws \in Seq(Seq(Tab!Messages)) /\ Len(ws) \in Nat /\ Len(ws) \in 1..MaxChats
      BY WorkspaceParts DEF Workspaces
<1>2. /\ t \in Seq(Seq(Tab!Messages)) /\ Len(t) = Len(ws) - 1
      /\ \A k \in 1..(Len(ws) - 1) : t[k] = IF k < i THEN ws[k] ELSE ws[k + 1]
      BY <1>1, RemovedAt
<1> HIDE DEF t
<1>3. Len(t) \in 1..MaxChats BY <1>1, <1>2 DEF ChatBounds
<1>4. t \in Workspaces BY <1>2, <1>3 DEF Workspaces
<1>5. ASSUME NEW n \in Tab!Referenced(t) PROVE n \in Tab!Referenced(ws)
      <2>1. PICK k \in 1..Len(t) : Shows(t[k], n) BY <1>4, <1>5, ReferencedIs
      <2>2. k \in 1..(Len(ws) - 1) /\ k \in 1..Len(ws) /\ k + 1 \in 1..Len(ws)
            <3>1. Len(t) = Len(ws) - 1 /\ Len(ws) \in Nat BY <1>1, <1>2
            <3>2. QED BY <2>1, <3>1
      <2>3. t[k] = ws[k] \/ t[k] = ws[k + 1] BY <1>2, <2>2
      <2>4. QED BY <1>1, <2>1, <2>2, <2>3, ReferencedIs
<1>6. QED BY <1>2, <1>4, <1>5 DEF t

LEMMA EmptyChat ==
    ASSUME ChatBounds
    PROVE  /\ << <<>> >> \in Workspaces /\ Len(<< <<>> >>) = 1
           /\ Tab!Referenced(<< <<>> >>) = {}
<1>1. <<>> \in Seq(Tab!Messages) /\ Len(<<>>) = 0 BY EmptySeq
<1>2. \A s \in Seq(Tab!Messages) : <<s>> \in Seq(Seq(Tab!Messages)) /\ Len(<<s>>) = 1 /\ <<s>>[1] = s
      OBVIOUS
<1>3. << <<>> >> \in Workspaces BY <1>1, <1>2 DEF Workspaces, ChatBounds
<1>4. \A i \in 1..1 : i = 1 OBVIOUS
<1>5. \A n : ~Shows(<<>>, n) BY <1>1 DEF Shows
<1>6. \A n : n \notin Tab!Referenced(<< <<>> >>) BY <1>1, <1>2, <1>3, <1>4, <1>5, ReferencedIs
<1>7. QED BY <1>1, <1>2, <1>3, <1>6

LEMMA OneMore ==
    ASSUME NEW s \in Seq(Tab!Messages), NEW x \in Tab!Messages
    PROVE  /\ Append(s, x) \in Seq(Tab!Messages) /\ Len(Append(s, x)) = Len(s) + 1
           /\ Append(s, x)[Len(s) + 1] = x
           /\ \A n : Shows(Append(s, x), n) <=> Shows(s, n) \/ (x.image /\ x.id = n)
<1>1. /\ Append(s, x) \in Seq(Tab!Messages) /\ Len(Append(s, x)) = Len(s) + 1
      /\ \A i \in 1..Len(s) : Append(s, x)[i] = s[i]
      /\ Append(s, x)[Len(s) + 1] = x
      BY AppendProperties
<1>2. Len(s) \in Nat OBVIOUS
<1>3. \A i : i \in 1..(Len(s) + 1) <=> i \in 1..Len(s) \/ i = Len(s) + 1 BY <1>2
<1>4. QED BY <1>1, <1>3 DEF Shows

\* trimForStorage(): what is left points at nothing else.
LEMMA TrimmedKeeps ==
    ASSUME ChatBounds, NEW ws \in Workspaces, NEW trimmed \in Tab!Trimmed(ws)
    PROVE  trimmed \in Workspaces /\ Tab!Referenced(trimmed) \subseteq Tab!Referenced(ws)
<1> DEFINE n == IF Len(ws) < KeptChats THEN Len(ws) ELSE KeptChats
<1>1. PICK pick \in [1..n -> DOMAIN ws] :
          trimmed = [i \in 1..n |-> Tab!LastOf(ws[pick[i]], KeptMessages)]
      BY DEF Tab!Trimmed
<1>2. n \in Nat /\ n \in 1..MaxChats BY WorkspaceParts DEF ChatBounds
<1> HIDE DEF n
<1>3. ASSUME NEW i \in 1..n
      PROVE  /\ pick[i] \in 1..Len(ws)
             /\ Tab!LastOf(ws[pick[i]], KeptMessages) \in Seq(Tab!Messages)
             /\ \A k : Shows(Tab!LastOf(ws[pick[i]], KeptMessages), k) => Shows(ws[pick[i]], k)
      <2>1. pick[i] \in 1..Len(ws) BY <1>1, WorkspaceParts
      <2>2. PICK s \in Seq(Tab!Messages) : s = ws[pick[i]] /\ Len(s) \in Nat
            BY <2>1, WorkspaceParts
      <2> DEFINE b == IF Len(s) > KeptMessages THEN Len(s) - KeptMessages + 1 ELSE 1
      <2>3. b \in 1..(Len(s) + 1) /\ Len(s) \in 0..Len(s) BY <2>2 DEF ChatBounds
      <2> HIDE DEF b
      <2>4. Tab!LastOf(s, KeptMessages) = SubSeq(s, b, Len(s)) BY DEF Tab!LastOf, b
      <2>5. QED BY <2>1, <2>2, <2>3, <2>4, StretchOf
<1>4. trimmed \in Seq(Seq(Tab!Messages)) /\ Len(trimmed) = n
      /\ \A i \in 1..n : trimmed[i] = Tab!LastOf(ws[pick[i]], KeptMessages)
      BY <1>1, <1>2, <1>3
<1>5. trimmed \in Workspaces BY <1>2, <1>4 DEF Workspaces
<1>6. ASSUME NEW k \in Tab!Referenced(trimmed) PROVE k \in Tab!Referenced(ws)
      <2>1. PICK i \in 1..n : Shows(trimmed[i], k) BY <1>4, <1>5, <1>6, ReferencedIs
      <2>2. pick[i] \in 1..Len(ws) /\ Shows(ws[pick[i]], k) BY <1>3, <1>4, <2>1
      <2>3. QED BY <2>2, ReferencedIs
<1>7. QED BY <1>5, <1>6

LEMMA PersistKeeps ==
    ASSUME ChatBounds, unwritten \in BOOLEAN, saved \in Workspaces,
           NEW ws \in Workspaces, Tab!Persist(ws)
    PROVE  /\ saved' \in Workspaces /\ unwritten' \in BOOLEAN
           /\ ~unwritten' => Tab!Referenced(saved') \subseteq Tab!Referenced(ws)
BY TrimmedKeeps DEF Tab!Persist

(***************************************************************************)
(* Playground: the operations that wait for IndexedDB.  A collection keeps *)
(* every payload that is shown and that is stored by its turn: stored      *)
(* already, or by a put that comes before it.                              *)
(***************************************************************************)
CollectsKnow(referenced, queue, payloads) ==
    \A j \in 1..Len(queue) : queue[j].kind = "collect" =>
        \A n \in referenced :
            n \in payloads \/ (\E k \in 1..(j - 1) : queue[k].kind = "put" /\ n \in queue[k].ids)
                => n \in queue[j].ids

PutsNot(n, queue) == \A k \in 1..Len(queue) : queue[k].kind = "put" => n \notin queue[k].ids

LEMMA QueueGrown ==
    ASSUME NEW queue \in Seq(Operation), NEW op \in Operation
    PROVE  /\ queue \o <<op>> \in Seq(Operation) /\ Len(queue \o <<op>>) = Len(queue) + 1
           /\ \A k \in 1..Len(queue) : (queue \o <<op>>)[k] = queue[k]
           /\ (queue \o <<op>>)[Len(queue) + 1] = op
           /\ \A k : k \in 1..(Len(queue) + 1) <=> k \in 1..Len(queue) \/ k = Len(queue) + 1
<1>1. queue \o <<op>> = Append(queue, op) BY AppendIsConcat
<1>2. Len(queue) \in Nat OBVIOUS
<1>3. \A k : k \in 1..(Len(queue) + 1) <=> k \in 1..Len(queue) \/ k = Len(queue) + 1 BY <1>2
<1>4. QED BY <1>1, <1>3, AppendProperties

\* An operation is asked for: a put, or a collection of what is no longer shown.
LEMMA AskedLater ==
    ASSUME NEW queue \in Seq(Operation), NEW op \in Operation, NEW referenced, NEW payloads,
           CollectsKnow(referenced, queue, payloads), op.kind = "collect" => referenced \subseteq op.ids
    PROVE  CollectsKnow(referenced, queue \o <<op>>, payloads)
<1> DEFINE q == queue \o <<op>>
<1>1. /\ q \in Seq(Operation) /\ Len(q) = Len(queue) + 1
      /\ \A k \in 1..Len(queue) : q[k] = queue[k]
      /\ q[Len(queue) + 1] = op
      /\ \A k : k \in 1..(Len(queue) + 1) <=> k \in 1..Len(queue) \/ k = Len(queue) + 1
      BY QueueGrown
<1> HIDE DEF q
<1>2. SUFFICES ASSUME NEW j \in 1..Len(q), q[j].kind = "collect", NEW n \in referenced,
                      n \in payloads
                      \/ (\E k \in 1..(j - 1) : q[k].kind = "put" /\ n \in q[k].ids)
               PROVE  n \in q[j].ids
      BY DEF CollectsKnow, q
<1>3. CASE j = Len(queue) + 1 BY <1>1, <1>2, <1>3
<1>4. CASE j \in 1..Len(queue)
      <2>1. \A k \in 1..(j - 1) : k \in 1..Len(queue) BY <1>4
      <2>2. \A k \in 1..(j - 1) : q[k] = queue[k] BY <1>1, <2>1
      <2>3. QED BY <1>1, <1>2, <1>4, <2>2 DEF CollectsKnow
<1>5. QED BY <1>1, <1>3, <1>4

\* What is shown changes, but nothing is shown anew that was put.
LEMMA ShownLess ==
    ASSUME NEW queue, NEW referenced, NEW fewer, NEW payloads, CollectsKnow(referenced, queue, payloads),
           Len(queue) \in Nat,
           \A n \in fewer : n \in referenced \/ (n \notin payloads /\ PutsNot(n, queue))
    PROVE  CollectsKnow(fewer, queue, payloads)
<1>1. SUFFICES ASSUME NEW j \in 1..Len(queue), queue[j].kind = "collect", NEW n \in fewer,
                      n \in payloads
                      \/ (\E k \in 1..(j - 1) : queue[k].kind = "put" /\ n \in queue[k].ids)
               PROVE  n \in queue[j].ids
      BY DEF CollectsKnow
<1>2. \A k \in 1..(j - 1) : k \in 1..Len(queue) OBVIOUS
<1>3. n \in referenced BY <1>1, <1>2 DEF PutsNot
<1>4. QED BY <1>1, <1>3 DEF CollectsKnow

\* The oldest operation is done.
LEMMA OldestDone ==
    ASSUME NEW queue \in Seq(Operation), queue # <<>>, NEW referenced, NEW payloads, NEW after,
           CollectsKnow(referenced, queue, payloads),
           after \subseteq payloads \/ (Head(queue).kind = "put"
                                        /\ after \subseteq payloads \cup Head(queue).ids)
    PROVE  CollectsKnow(referenced, Tail(queue), after)
<1> DEFINE q == Tail(queue)
<1>1. /\ q \in Seq(Operation) /\ Len(q) = Len(queue) - 1 /\ Len(queue) \in Nat \ {0}
      /\ \A i \in 1..Len(q) : q[i] = queue[i + 1]
      BY HeadTailProperties, EmptySeq
<1>2. Head(queue) = queue[1] OBVIOUS
<1> HIDE DEF q
<1>3. SUFFICES ASSUME NEW j \in 1..Len(q), q[j].kind = "collect", NEW n \in referenced,
                      n \in after
                      \/ (\E k \in 1..(j - 1) : q[k].kind = "put" /\ n \in q[k].ids)
               PROVE  n \in q[j].ids
      BY DEF CollectsKnow, q
<1>4. j + 1 \in 1..Len(queue) /\ q[j] = queue[j + 1] /\ (j + 1) - 1 = j BY <1>1
<1>5. n \in payloads \/ (\E k \in 1..j : queue[k].kind = "put" /\ n \in queue[k].ids)
      <2>1. CASE n \in after
            <3>1. n \in payloads \/ (queue[1].kind = "put" /\ n \in queue[1].ids)
                  BY <1>2, <2>1
            <3>2. 1 \in 1..j OBVIOUS
            <3>3. QED BY <3>1, <3>2
      <2>2. CASE \E k \in 1..(j - 1) : q[k].kind = "put" /\ n \in q[k].ids
            <3>1. PICK k \in 1..(j - 1) : q[k].kind = "put" /\ n \in q[k].ids BY <2>2
            <3>2. k + 1 \in 1..j /\ q[k] = queue[k + 1] BY <1>1
            <3>3. QED BY <3>1, <3>2
      <2>3. QED BY <1>3, <2>1, <2>2
<1>6. QED BY <1>3, <1>4, <1>5 DEF CollectsKnow

(***************************************************************************)
(* Playground: the inductive invariant.  The id of the answer being        *)
(* streamed was never put, so that an image it brings is not waited for by *)
(* a collection already asked for; and what is stored points at no more    *)
(* than what is shown, as long as it can be written.                       *)
(***************************************************************************)
TabTyped ==
    /\ open \in BOOLEAN /\ timer \in BOOLEAN /\ unwritten \in BOOLEAN
    /\ chats \in Workspaces /\ saved \in Workspaces /\ active \in 1..Len(chats)
    /\ held \subseteq 1..MaxMessages /\ created \in 0..MaxMessages /\ db \subseteq 1..created
    /\ ops \in Seq(Operation) /\ turn \in TurnShape
    /\ \A k \in 1..Len(ops) : ops[k].kind = "put" => ops[k].ids \subseteq 1..created

AtRest == ~open => turn = Tab!NoTurn /\ ops = <<>>

TurnPlaced ==
    Tab!Streaming =>
        /\ turn.chat \in 1..Len(chats) /\ turn.index \in 1..Len(chats[turn.chat])
        /\ turn.index = Len(chats[turn.chat])
        /\ chats[turn.chat][turn.index].id = turn.id /\ turn.id \in 1..created
        /\ ~turn.output => ~chats[turn.chat][turn.index].image
        /\ turn.id \notin db /\ PutsNot(turn.id, ops)

StoredShown == open /\ ~unwritten => Tab!Referenced(saved) \subseteq Tab!Referenced(chats)

TabInv ==
    /\ TabTyped /\ AtRest /\ TurnPlaced /\ StoredShown
    /\ CollectsKnow(Tab!Referenced(chats), ops, db)

LEMMA TabInit == ASSUME ChatBounds, Tab!Init PROVE TabInv
<1> USE DEF Tab!Init
<1>1. ops \in Seq(Operation) /\ Len(ops) = 0 OBVIOUS
<1>2. \A k : k \notin 1..0 OBVIOUS
<1>3. turn \in TurnShape BY DEF Tab!NoTurn, TurnShape
<1>4. active \in 1..Len(chats) BY EmptyChat
<1>5. TabTyped
      <2>1. open \in BOOLEAN /\ timer \in BOOLEAN /\ unwritten \in BOOLEAN OBVIOUS
      <2>2. chats \in Workspaces /\ saved \in Workspaces BY EmptyChat
      <2>3. held \subseteq 1..MaxMessages /\ created \in 0..MaxMessages /\ db \subseteq 1..created
            BY DEF ChatBounds
      <2>4. \A k \in 1..Len(ops) : ops[k].kind = "put" => ops[k].ids \subseteq 1..created
            BY <1>1, <1>2
      <2>5. QED BY <1>1, <1>3, <1>4, <2>1, <2>2, <2>3, <2>4 DEF TabTyped
<1>6. TurnPlaced BY DEF TurnPlaced, Tab!Streaming
<1>7. QED BY <1>1, <1>2, <1>5, <1>6 DEF TabInv, AtRest, StoredShown, CollectsKnow

\* What is asked of IndexedDB.
LEMMA AskKeeps ==
    ASSUME TabTyped, NEW op \in Operation, Tab!Ask(<<op>>),
           op.kind = "put" => op.ids \subseteq 1..created'
    PROVE  /\ ops' = ops \o <<op>> /\ ops' \in Seq(Operation)
           /\ created <= created' /\ created' \in Nat =>
                  \A k \in 1..Len(ops') : ops'[k].kind = "put" => ops'[k].ids \subseteq 1..created'
           /\ \A n : PutsNot(n, ops) /\ (op.kind = "put" => n \notin op.ids) => PutsNot(n, ops')
<1>1. ops' = ops \o <<op>> BY DEF Tab!Ask
<1>2. ops \in Seq(Operation) BY DEF TabTyped
<1>3. /\ ops' \in Seq(Operation) /\ Len(ops') = Len(ops) + 1
      /\ \A k \in 1..Len(ops) : ops'[k] = ops[k]
      /\ ops'[Len(ops) + 1] = op
      /\ \A k : k \in 1..Len(ops') <=> k \in 1..Len(ops) \/ k = Len(ops) + 1
      BY <1>1, <1>2, QueueGrown
<1>4. ASSUME created <= created', created' \in Nat, NEW k \in 1..Len(ops'), ops'[k].kind = "put"
      PROVE  ops'[k].ids \subseteq 1..created'
      <2>1. created \in Nat BY DEF TabTyped
      <2>2. CASE k = Len(ops) + 1 BY <1>3, <1>4, <2>2
      <2>3. CASE k \in 1..Len(ops)
            <3>1. ops'[k].ids \subseteq 1..created BY <1>3, <1>4, <2>3 DEF TabTyped
            <3>2. QED BY <1>4, <2>1, <3>1
      <2>4. QED BY <1>3, <2>2, <2>3
<1>5. \A n : PutsNot(n, ops) /\ (op.kind = "put" => n \notin op.ids) => PutsNot(n, ops')
      BY <1>3 DEF PutsNot
<1>6. QED BY <1>1, <1>3, <1>4, <1>5

\* An operation that changes neither what is shown nor what is asked for, but may write.
LEMMA WritingKeeps ==
    ASSUME ChatBounds, TabInv, Tab!Persist(chats), active' \in 1..Len(chats), timer' \in BOOLEAN,
           UNCHANGED <<held, open, chats, turn, db, ops, created>>
    PROVE  TabInv'
<1>1. /\ saved' \in Workspaces /\ unwritten' \in BOOLEAN
      /\ ~unwritten' => Tab!Referenced(saved') \subseteq Tab!Referenced(chats)
      BY PersistKeeps DEF TabInv, TabTyped
<1>2. TabTyped' BY <1>1 DEF TabInv, TabTyped
<1>3. StoredShown' BY <1>1 DEF StoredShown
<1>4. (AtRest /\ TurnPlaced)'
      BY DEF TabInv, AtRest, TurnPlaced, Tab!Streaming, PutsNot
<1>5. QED BY <1>2, <1>3, <1>4 DEF TabInv, CollectsKnow

\* A conversation or a message is taken away between turns: the workspace is written, and
\* what it no longer points at is collected.
LEMMA DeletingKeeps ==
    ASSUME ChatBounds, TabInv, open, ~Tab!Streaming,
           chats' \in Workspaces, Tab!Referenced(chats') \subseteq Tab!Referenced(chats),
           active' \in 1..Len(chats'), Tab!Persist(chats'), Tab!Ask(<<Tab!Collect(chats')>>),
           UNCHANGED <<held, open, turn, timer, db, created>>
    PROVE  TabInv'
<1> DEFINE op == Tab!Collect(chats')
<1>1. op \in Operation /\ op.kind = "collect" /\ op.ids = Tab!Referenced(chats')
      BY ReferencedTyped DEF Tab!Collect, Operation
<1> HIDE DEF op
<1>2. /\ saved' \in Workspaces /\ unwritten' \in BOOLEAN
      /\ ~unwritten' => Tab!Referenced(saved') \subseteq Tab!Referenced(chats')
      BY PersistKeeps DEF TabInv, TabTyped
<1>3. created' = created /\ created \in Nat BY DEF TabInv, TabTyped
<1>4. /\ ops' = ops \o <<op>> /\ ops' \in Seq(Operation)
      /\ \A k \in 1..Len(ops') : ops'[k].kind = "put" => ops'[k].ids \subseteq 1..created'
      <2>1. Tab!Ask(<<op>>) BY DEF op
      <2>2. op.kind # "put" BY <1>1
      <2>3. QED BY <1>1, <1>3, <2>1, <2>2, AskKeeps DEF TabInv
<1>5. TabTyped' BY <1>2, <1>4 DEF TabInv, TabTyped
<1>6. (AtRest /\ TurnPlaced /\ StoredShown)'
      BY <1>2 DEF TabInv, AtRest, TurnPlaced, StoredShown, Tab!Streaming
<1>7. CollectsKnow(Tab!Referenced(chats'), ops', db)
      <2>1. ops \in Seq(Operation) /\ Len(ops) \in Nat BY DEF TabInv, TabTyped
      <2>2. CollectsKnow(Tab!Referenced(chats'), ops, db) BY <2>1, ShownLess DEF TabInv
      <2>3. QED BY <1>1, <1>4, <2>1, <2>2, AskedLater
<1>8. QED BY <1>5, <1>6, <1>7 DEF TabInv

LEMMA MountKeeps == ASSUME ChatBounds, TabInv, Tab!Mount PROVE TabInv'
<1>1. /\ ~open /\ open' = TRUE /\ chats' = saved /\ timer' = TRUE /\ held' = {}
      /\ unwritten' = FALSE /\ UNCHANGED <<turn, saved, db, created>>
      /\ active' \in DOMAIN saved
      BY DEF Tab!Mount
<1>2. saved \in Workspaces BY DEF TabInv, TabTyped
<1>3. PICK op \in Operation : ops' = <<op>> /\ (op.kind = "collect" => op.ids = Tab!Referenced(saved))
                              /\ op.kind # "put"
      <2>1. Tab!Collect(saved) \in Operation /\ Tab!Collect(saved).kind = "collect"
            /\ Tab!Collect(saved).ids = Tab!Referenced(saved)
            BY <1>2, ReferencedTyped DEF Tab!Collect, Operation
      <2>2. Tab!Hydrate(saved) \in Operation /\ Tab!Hydrate(saved).kind = "read"
            BY <1>2, ReferencedTyped DEF Tab!Hydrate, Operation
      <2>3. ops' = <<Tab!Collect(saved)>> \/ ops' = <<Tab!Hydrate(saved)>> BY DEF Tab!Mount
      <2>4. QED BY <2>1, <2>2, <2>3
<1>4. ops' \in Seq(Operation) /\ Len(ops') = 1 /\ \A k \in 1..Len(ops') : ops'[k] = op
      BY <1>3
<1>5. turn = Tab!NoTurn BY <1>1 DEF TabInv, AtRest
<1>6. active' \in 1..Len(chats') BY <1>1, <1>2, WorkspaceParts
<1>7. TabTyped' BY <1>1, <1>2, <1>3, <1>4, <1>6 DEF TabInv, TabTyped
<1>8. (AtRest /\ TurnPlaced /\ StoredShown)'
      BY <1>1, <1>5 DEF AtRest, TurnPlaced, StoredShown, Tab!Streaming
<1>9. CollectsKnow(Tab!Referenced(chats'), ops', db') BY <1>1, <1>3, <1>4 DEF CollectsKnow
<1>10. QED BY <1>7, <1>8, <1>9 DEF TabInv

LEMMA LeaveKeeps == ASSUME ChatBounds, TabInv, Tab!Leave PROVE TabInv'
<1>1. /\ open' = FALSE /\ turn' = Tab!NoTurn /\ timer' = FALSE /\ held' = {} /\ ops' = <<>>
      /\ chats' = << <<>> >> /\ active' = 1 /\ UNCHANGED <<unwritten, saved, db, created>>
      BY DEF Tab!Leave
<1>2. ops' \in Seq(Operation) /\ Len(ops') = 0 /\ \A k : k \notin 1..0 BY <1>1
<1>3. turn' \in TurnShape BY <1>1 DEF Tab!NoTurn, TurnShape
<1>4. chats' \in Workspaces /\ active' \in 1..Len(chats') BY <1>1, EmptyChat
<1>5. TabTyped' BY <1>1, <1>2, <1>3, <1>4 DEF TabInv, TabTyped
<1>6. (AtRest /\ TurnPlaced /\ StoredShown)'
      BY <1>1 DEF AtRest, TurnPlaced, StoredShown, Tab!Streaming
<1>7. CollectsKnow(Tab!Referenced(chats'), ops', db') BY <1>2 DEF CollectsKnow
<1>8. QED BY <1>5, <1>6, <1>7 DEF TabInv

\* The head of a queue is its first operation, and the rest comes after it.
LEMMA HeadTaken ==
    ASSUME NEW queue \in Seq(Operation), queue # <<>>
    PROVE  /\ Head(queue) \in Operation /\ Head(queue) = queue[1] /\ 1 \in 1..Len(queue)
           /\ Tail(queue) \in Seq(Operation)
           /\ \A k \in 1..Len(Tail(queue)) : /\ Tail(queue)[k] = queue[k + 1]
                                             /\ k + 1 \in 1..Len(queue)
           /\ \A n : PutsNot(n, queue) => PutsNot(n, Tail(queue))
<1>1. /\ Tail(queue) \in Seq(Operation) /\ Len(Tail(queue)) = Len(queue) - 1
      /\ \A k \in 1..Len(Tail(queue)) : Tail(queue)[k] = queue[k + 1]
      /\ Head(queue) \in Operation /\ Len(queue) \in Nat \ {0}
      BY HeadTailProperties, EmptySeq
<1>2. \A k \in 1..Len(Tail(queue)) : k + 1 \in 1..Len(queue) BY <1>1
<1>3. Head(queue) = queue[1] OBVIOUS
<1>4. \A n : PutsNot(n, queue) => PutsNot(n, Tail(queue)) BY <1>1, <1>2 DEF PutsNot
<1>5. QED BY <1>1, <1>2, <1>3, <1>4

LEMMA OpDoneKeeps == ASSUME ChatBounds, TabInv, Tab!OpDone PROVE TabInv'
<1> DEFINE op == Head(ops)
           rest == Tail(ops)
           ask == Tab!Collect(chats)
<1>1. /\ ops # <<>>
      /\ \/ op.kind = "put" /\ db' = db \cup op.ids
         \/ op.kind = "collect" /\ db' = db \cap op.ids
         \/ db' = db
      /\ ops' = IF op.kind = "read" THEN Append(rest, ask) ELSE rest
      /\ held' = held \cup (db \cap op.ids) \/ held' = held
      /\ UNCHANGED <<open, chats, active, turn, timer, unwritten, saved, created>>
      BY DEF Tab!OpDone
<1>2. ops \in Seq(Operation) /\ chats \in Workspaces BY DEF TabInv, TabTyped
<1>3. /\ op \in Operation /\ op = ops[1] /\ 1 \in 1..Len(ops) /\ rest \in Seq(Operation)
      /\ \A k \in 1..Len(rest) : rest[k] = ops[k + 1] /\ k + 1 \in 1..Len(ops)
      /\ \A n : PutsNot(n, ops) => PutsNot(n, rest)
      BY <1>1, <1>2, HeadTaken
<1>4. ask \in Operation /\ ask.kind = "collect" /\ ask.ids = Tab!Referenced(chats)
      BY <1>2, ReferencedTyped DEF Tab!Collect, Operation
<1>5. db' \subseteq db \/ (op.kind = "put" /\ db' \subseteq db \cup op.ids) BY <1>1
<1>6. CollectsKnow(Tab!Referenced(chats), rest, db')
      BY <1>1, <1>2, <1>5, OldestDone DEF TabInv
<1> HIDE DEF op, rest, ask
<1>7. ops' = rest \/ ops' = rest \o <<ask>> BY <1>1, <1>3, <1>4, AppendIsConcat
<1>8. /\ rest \o <<ask>> \in Seq(Operation)
      /\ \A k \in 1..Len(rest) : (rest \o <<ask>>)[k] = rest[k]
      /\ \A k \in 1..Len(rest \o <<ask>>) :
             k \in 1..Len(rest) \/ (rest \o <<ask>>)[k].kind # "put"
      BY <1>3, <1>4, QueueGrown
<1>9. /\ ops' \in Seq(Operation)
      /\ \A k \in 1..Len(ops') : ops'[k].kind = "put" =>
             \E l \in 1..Len(ops) : ops'[k] = ops[l]
      BY <1>3, <1>7, <1>8
<1>10. \A k \in 1..Len(ops) : ops[k].kind = "put" => ops[k].ids \subseteq 1..created
       BY DEF TabInv, TabTyped
<1>11. TabTyped'
       <2>1. db' \subseteq 1..created BY <1>3, <1>5, <1>10 DEF TabInv, TabTyped
       <2>2. held' \subseteq 1..MaxMessages
             <3>1. op.ids \subseteq 1..MaxMessages BY <1>3 DEF Operation
             <3>2. QED BY <1>1, <3>1 DEF TabInv, TabTyped
       <2>3. \A k \in 1..Len(ops') : ops'[k].kind = "put" => ops'[k].ids \subseteq 1..created
             BY <1>9, <1>10
       <2>4. QED BY <1>1, <1>9, <2>1, <2>2, <2>3 DEF TabInv, TabTyped
<1>12. AtRest' BY <1>1 DEF TabInv, AtRest
<1>13. TurnPlaced'
       <2>1. \A n : PutsNot(n, ops) => PutsNot(n, ops')
             BY <1>9 DEF PutsNot
       <2>2. \A n : PutsNot(n, ops) /\ n \notin db => n \notin db'
             BY <1>3, <1>5 DEF PutsNot
       <2>3. QED BY <1>1, <2>1, <2>2 DEF TabInv, TurnPlaced, Tab!Streaming
<1>14. StoredShown' BY <1>1 DEF TabInv, StoredShown
<1>15. CollectsKnow(Tab!Referenced(chats'), ops', db')
       <2>1. CollectsKnow(Tab!Referenced(chats), rest \o <<ask>>, db')
             BY <1>3, <1>4, <1>6, AskedLater
       <2>2. QED BY <1>1, <1>6, <1>7, <2>1
<1>16. QED BY <1>11, <1>12, <1>13, <1>14, <1>15 DEF TabInv

\* runTurn(): the new answer is the last message of its conversation, and brings no image yet.
LEMMA RunTurnPlaces ==
    ASSUME TabTyped, NEW t \in Seq(Tab!Messages), NEW n \in 1..MaxMessages, Tab!RunTurn(t, n)
    PROVE  /\ chats' \in Workspaces /\ Len(chats') = Len(chats) /\ turn' \in TurnShape
           /\ turn'.chat = active /\ turn'.id = n /\ ~turn'.output
           /\ turn'.index \in 1..Len(chats'[active]) /\ turn'.index = Len(chats'[active])
           /\ chats'[active][turn'.index].id = n /\ ~chats'[active][turn'.index].image
           /\ \A i \in 1..Len(chats) : i # active => chats'[i] = chats[i]
           /\ \A k : Shows(chats'[active], k) <=> Shows(t, k)
<1> DEFINE x == Tab!Message(n, "assistant", FALSE)
           s == Append(t, x)
<1>1. x \in Tab!Messages /\ x.id = n /\ ~x.image BY DEF Tab!Message, Tab!Messages
<1> HIDE DEF x
<1>2. /\ s \in Seq(Tab!Messages) /\ Len(s) = Len(t) + 1 /\ s[Len(t) + 1] = x
      /\ \A k : Shows(s, k) <=> Shows(t, k) \/ (x.image /\ x.id = k)
      BY <1>1, OneMore
<1>3. chats' = [chats EXCEPT ![active] = s] /\ created' = n
      /\ turn' = [chat |-> active, index |-> Len(t) + 1, id |-> n, output |-> FALSE]
      BY DEF Tab!RunTurn, x
<1> HIDE DEF s
<1>4. chats \in Workspaces /\ active \in 1..Len(chats) /\ Len(chats) \in Nat
      BY WorkspaceParts DEF TabTyped
<1>5. /\ chats' \in Workspaces /\ Len(chats') = Len(chats)
      /\ \A i \in 1..Len(chats) : chats'[i] = IF i = active THEN s ELSE chats[i]
      <2> DEFINE new == [chats EXCEPT ![active] = s]
      <2>1. /\ new \in Workspaces /\ Len(new) = Len(chats)
            /\ \A i \in 1..Len(chats) : new[i] = IF i = active THEN s ELSE chats[i]
            BY <1>2, <1>4, ReplacedChat
      <2>2. chats' = new BY <1>3
      <2> HIDE DEF new
      <2>3. QED BY <2>1, <2>2
<1>6. Len(t) \in Nat /\ active \in Nat /\ n \in Nat BY <1>4
<1>7. turn' \in TurnShape BY <1>3, <1>6 DEF TurnShape
<1>8. Len(t) + 1 \in 1..(Len(t) + 1) BY <1>6
<1>9. QED BY <1>1, <1>2, <1>3, <1>4, <1>5, <1>7, <1>8

\* An id that was not handed out yet is neither stored nor put.
LEMMA FreshId ==
    ASSUME TabTyped, NEW n \in Nat, n > created PROVE n \notin db /\ PutsNot(n, ops)
<1>1. n \notin 1..created BY DEF TabTyped
<1>2. QED BY <1>1 DEF TabTyped, PutsNot

LEMMA AskNothing == ASSUME TabTyped, Tab!Ask(<<>>) PROVE ops' = ops
BY ConcatEmptySeq DEF TabTyped, Tab!Ask

LEMMA SendKeeps == ASSUME ChatBounds, TabInv, Tab!Send PROVE TabInv'
<1>1. PICK image \in BOOLEAN :
          /\ Tab!RunTurn(Append(chats[active], Tab!Message(created + 1, "user", image)),
                         created + 2)
          /\ Tab!Ask(IF image THEN <<Tab!Put(created + 1)>> ELSE <<>>)
          /\ held' = IF image THEN held \cup {created + 1} ELSE held
      BY DEF Tab!Send
<1>2. open /\ ~Tab!Streaming /\ created + 2 <= MaxMessages
      /\ UNCHANGED <<open, active, timer, unwritten, saved, db>>
      BY DEF Tab!Send
<1>3. created \in Nat /\ created + 1 \in 1..MaxMessages /\ created + 2 \in 1..MaxMessages
      BY <1>2 DEF TabInv, TabTyped, ChatBounds
<1>4. chats \in Workspaces /\ active \in 1..Len(chats) /\ chats[active] \in Seq(Tab!Messages)
      /\ ops \in Seq(Operation) /\ Len(ops) \in Nat
      BY WorkspaceParts DEF TabInv, TabTyped
<1> DEFINE x == Tab!Message(created + 1, "user", image)
           t == Append(chats[active], x)
<1>5. x \in Tab!Messages /\ x.id = created + 1 BY <1>3 DEF Tab!Message, Tab!Messages
<1> HIDE DEF x
<1>6. /\ t \in Seq(Tab!Messages)
      /\ \A k : Shows(t, k) <=> Shows(chats[active], k) \/ (x.image /\ x.id = k)
      BY <1>4, <1>5, OneMore
<1>7. Tab!RunTurn(t, created + 2) BY <1>1 DEF x
<1> HIDE DEF t
<1>8. created' = created + 2 BY <1>7 DEF Tab!RunTurn
<1>9. /\ chats' \in Workspaces /\ Len(chats') = Len(chats) /\ turn' \in TurnShape
      /\ turn'.chat = active /\ turn'.id = created + 2 /\ ~turn'.output
      /\ turn'.index \in 1..Len(chats'[active]) /\ turn'.index = Len(chats'[active])
      /\ chats'[active][turn'.index].id = created + 2 /\ ~chats'[active][turn'.index].image
      /\ \A i \in 1..Len(chats) : i # active => chats'[i] = chats[i]
      /\ \A k : Shows(chats'[active], k) <=> Shows(t, k)
      BY <1>3, <1>6, <1>7, RunTurnPlaces DEF TabInv
<1>10. \A k \in Tab!Referenced(chats') : k \in Tab!Referenced(chats) \/ k = created + 1
       <2> SUFFICES ASSUME NEW k \in Tab!Referenced(chats'), k # created + 1
                    PROVE  k \in Tab!Referenced(chats)
           OBVIOUS
       <2>1. PICK i \in 1..Len(chats') : Shows(chats'[i], k) BY <1>9, ReferencedIs
       <2>2. Shows(chats[i], k) BY <1>5, <1>6, <1>9, <2>1
       <2>3. QED BY <1>4, <1>9, <2>2, ReferencedIs
<1>11. \A k \in Tab!Referenced(chats) : k \in Tab!Referenced(chats')
       <2> SUFFICES ASSUME NEW k \in Tab!Referenced(chats) PROVE k \in Tab!Referenced(chats')
           OBVIOUS
       <2>1. PICK i \in 1..Len(chats) : Shows(chats[i], k) BY <1>4, ReferencedIs
       <2>2. Shows(chats'[i], k) BY <1>6, <1>9, <2>1
       <2>3. QED BY <1>9, <2>2, ReferencedIs
<1>12. /\ created + 1 \notin db /\ PutsNot(created + 1, ops)
       /\ created + 2 \notin db /\ PutsNot(created + 2, ops)
       BY <1>3, FreshId DEF TabInv
<1>13. CollectsKnow(Tab!Referenced(chats'), ops, db) BY <1>4, <1>10, <1>12, ShownLess DEF TabInv
<1> DEFINE op == Tab!Put(created + 1)
<1>14. op \in Operation /\ op.kind = "put" /\ op.ids = {created + 1}
       BY <1>3 DEF Tab!Put, Operation
<1> HIDE DEF op
<1>15. CASE image
       <2>1. Tab!Ask(<<op>>) BY <1>1, <1>15 DEF op
       <2>2. op.ids \subseteq 1..created' BY <1>3, <1>8, <1>14
       <2>3. created <= created' /\ created' \in Nat BY <1>3, <1>8
       <2>4. /\ ops' = ops \o <<op>> /\ ops' \in Seq(Operation)
             /\ \A k \in 1..Len(ops') : ops'[k].kind = "put" => ops'[k].ids \subseteq 1..created'
             /\ \A n : PutsNot(n, ops) /\ n \notin op.ids => PutsNot(n, ops')
             BY <1>14, <2>1, <2>2, <2>3, AskKeeps DEF TabInv
       <2>5. created + 2 \notin op.ids BY <1>3, <1>14
       <2>6. CollectsKnow(Tab!Referenced(chats'), ops', db)
             BY <1>4, <1>13, <1>14, <2>4, AskedLater
       <2>7. PutsNot(created + 2, ops') BY <1>12, <2>4, <2>5
       <2>8. held' \subseteq 1..MaxMessages BY <1>1, <1>3 DEF TabInv, TabTyped
       <2>9. db' \subseteq 1..created' BY <1>2, <1>3, <1>8 DEF TabInv, TabTyped
       <2>10. created' \in 0..MaxMessages BY <1>3, <1>8
       <2>11. TabTyped' BY <1>2, <1>4, <1>9, <2>4, <2>8, <2>9, <2>10 DEF TabInv, TabTyped
       <2>12. turn'.id \in 1..created' BY <1>3, <1>8, <1>9
       <2>13. TurnPlaced' BY <1>2, <1>4, <1>9, <1>12, <2>7, <2>12 DEF TurnPlaced
       <2>14. (AtRest /\ StoredShown)' BY <1>2, <1>11 DEF TabInv, AtRest, StoredShown
       <2>15. QED BY <1>2, <2>6, <2>11, <2>13, <2>14 DEF TabInv
<1>16. CASE ~image
       <2>1. ops' = ops BY <1>1, <1>16, AskNothing DEF TabInv
       <2>2. \A k \in 1..Len(ops) : ops[k].kind = "put" => ops[k].ids \subseteq 1..created'
             BY <1>3, <1>8 DEF TabInv, TabTyped
       <2>3. held' = held BY <1>1, <1>16
       <2>4. db' \subseteq 1..created' BY <1>2, <1>3, <1>8 DEF TabInv, TabTyped
       <2>5. created' \in 0..MaxMessages BY <1>3, <1>8
       <2>6. TabTyped' BY <1>2, <1>4, <1>9, <2>1, <2>2, <2>3, <2>4, <2>5 DEF TabInv, TabTyped
       <2>7. turn'.id \in 1..created' BY <1>3, <1>8, <1>9
       <2>8. TurnPlaced' BY <1>2, <1>4, <1>9, <1>12, <2>1, <2>7 DEF TurnPlaced
       <2>9. (AtRest /\ StoredShown)' BY <1>2, <1>11 DEF TabInv, AtRest, StoredShown
       <2>10. QED BY <1>2, <1>13, <2>1, <2>6, <2>8, <2>9 DEF TabInv
<1>17. QED BY <1>15, <1>16

LEMMA OutputKeeps == ASSUME ChatBounds, TabInv, Tab!Output PROVE TabInv'
<1>1. PICK image \in BOOLEAN :
          /\ chats' = [chats EXCEPT ![turn.chat][turn.index].image = @ \/ image]
          /\ held' = IF image THEN held \cup {turn.id} ELSE held
      BY DEF Tab!Output
<1>2. /\ Tab!Streaming /\ turn' = [turn EXCEPT !.output = TRUE]
      /\ UNCHANGED <<open, active, timer, unwritten, saved, db, ops, created>>
      BY DEF Tab!Output
<1>3. /\ turn.chat \in 1..Len(chats) /\ turn.index \in 1..Len(chats[turn.chat])
      /\ turn.index = Len(chats[turn.chat])
      /\ chats[turn.chat][turn.index].id = turn.id /\ turn.id \in 1..created
      /\ turn.id \notin db /\ PutsNot(turn.id, ops)
      BY <1>2 DEF TabInv, TurnPlaced
<1> DEFINE s == chats[turn.chat]
           x == [s[turn.index] EXCEPT !.image = @ \/ image]
           t == [s EXCEPT ![turn.index] = x]
<1>4. chats \in Workspaces /\ s \in Seq(Tab!Messages) /\ s[turn.index] \in Tab!Messages
      /\ ops \in Seq(Operation) /\ Len(ops) \in Nat
      BY <1>3, WorkspaceParts DEF TabInv, TabTyped
<1>5. x \in Tab!Messages /\ x.id = turn.id
      /\ (s[turn.index].image => x.image) BY <1>3, <1>4 DEF Tab!Messages
<1>6. chats' = [chats EXCEPT ![turn.chat] = t] BY <1>1
<1> HIDE DEF x, s
<1>7. /\ t \in Seq(Tab!Messages) /\ Len(t) = Len(s)
      /\ \A i \in 1..Len(s) : t[i] = IF i = turn.index THEN x ELSE s[i]
      BY <1>3, <1>4, <1>5, ExceptSeq DEF s
<1> HIDE DEF t
<1>8. \A k : k # turn.id /\ Shows(t, k) => Shows(s, k) BY <1>5, <1>7 DEF Shows
<1>9. \A k : Shows(s, k) => Shows(t, k) BY <1>3, <1>5, <1>7 DEF Shows, s
<1>10. /\ chats' \in Workspaces /\ Len(chats') = Len(chats)
       /\ \A i \in 1..Len(chats) : chats'[i] = IF i = turn.chat THEN t ELSE chats[i]
       <2> DEFINE new == [chats EXCEPT ![turn.chat] = t]
       <2>1. /\ new \in Workspaces /\ Len(new) = Len(chats)
             /\ \A i \in 1..Len(chats) : new[i] = IF i = turn.chat THEN t ELSE chats[i]
             BY <1>3, <1>4, <1>7, ReplacedChat
       <2>2. chats' = new BY <1>6
       <2> HIDE DEF new
       <2>3. QED BY <2>1, <2>2
<1>11. \A k \in Tab!Referenced(chats') : k \in Tab!Referenced(chats) \/ k = turn.id
       <2> SUFFICES ASSUME NEW k \in Tab!Referenced(chats'), k # turn.id
                    PROVE  k \in Tab!Referenced(chats)
           OBVIOUS
       <2>1. PICK i \in 1..Len(chats') : Shows(chats'[i], k) BY <1>10, ReferencedIs
       <2>2. Shows(chats[i], k) BY <1>8, <1>10, <2>1 DEF s
       <2>3. QED BY <1>4, <1>10, <2>2, ReferencedIs
<1>12. \A k \in Tab!Referenced(chats) : k \in Tab!Referenced(chats')
       <2> SUFFICES ASSUME NEW k \in Tab!Referenced(chats) PROVE k \in Tab!Referenced(chats')
           OBVIOUS
       <2>1. PICK i \in 1..Len(chats) : Shows(chats[i], k) BY <1>4, ReferencedIs
       <2>2. Shows(chats'[i], k) BY <1>9, <1>10, <2>1 DEF s
       <2>3. QED BY <1>10, <2>2, ReferencedIs
<1>13. CollectsKnow(Tab!Referenced(chats'), ops, db) BY <1>3, <1>4, <1>11, ShownLess DEF TabInv
<1>14. /\ turn' \in TurnShape /\ turn'.chat = turn.chat /\ turn'.index = turn.index
       /\ turn'.id = turn.id /\ turn'.output
       BY <1>2 DEF TabInv, TabTyped, TurnShape
<1>15. held' \subseteq 1..MaxMessages
       <2>1. turn.id \in 1..MaxMessages BY <1>3 DEF TabInv, TabTyped, ChatBounds
       <2>2. QED BY <1>1, <2>1 DEF TabInv, TabTyped
<1>16. TabTyped' BY <1>2, <1>10, <1>14, <1>15 DEF TabInv, TabTyped
<1>17. /\ chats'[turn.chat] = t /\ t[turn.index] = x /\ Len(t) = turn.index
       BY <1>3, <1>7, <1>10 DEF s
<1>18. TurnPlaced' BY <1>2, <1>3, <1>5, <1>10, <1>14, <1>17 DEF TurnPlaced
<1>19. open BY <1>2 DEF TabInv, AtRest, Tab!Streaming
<1>20. (AtRest /\ StoredShown)' BY <1>2, <1>12, <1>19 DEF TabInv, AtRest, StoredShown
<1>21. QED BY <1>2, <1>13, <1>16, <1>18, <1>20 DEF TabInv

LEMMA TurnEndsKeeps == ASSUME ChatBounds, TabInv, Tab!TurnEnds PROVE TabInv'
<1> DEFINE x == chats[turn.chat][turn.index]
           op == Tab!Put(x.id)
<1>1. /\ Tab!Streaming /\ turn' = Tab!NoTurn
      /\ Tab!Ask(IF x.image THEN <<op>> ELSE <<>>) /\ Tab!Persist(chats)
      /\ UNCHANGED <<held, open, chats, active, timer, db, created>>
      BY DEF Tab!TurnEnds
<1>2. x.id = turn.id /\ turn.id \in 1..created BY <1>1 DEF TabInv, TurnPlaced
<1>3. open BY <1>1 DEF TabInv, AtRest, Tab!Streaming
<1>4. created \in 0..MaxMessages BY DEF TabInv, TabTyped
<1>5. op \in Operation /\ op.kind = "put" /\ op.ids = {turn.id}
      BY <1>2, <1>4 DEF Tab!Put, Operation, ChatBounds
<1> HIDE DEF x, op
<1>6. /\ saved' \in Workspaces /\ unwritten' \in BOOLEAN
      /\ ~unwritten' => Tab!Referenced(saved') \subseteq Tab!Referenced(chats)
      BY <1>1, PersistKeeps DEF TabInv, TabTyped
<1>7. turn' \in TurnShape BY <1>1 DEF Tab!NoTurn, TurnShape
<1>8. /\ ops' \in Seq(Operation)
      /\ \A k \in 1..Len(ops') : ops'[k].kind = "put" => ops'[k].ids \subseteq 1..created'
      /\ CollectsKnow(Tab!Referenced(chats), ops', db)
      <2>1. CASE ops' = ops
            BY <1>1, <2>1 DEF TabInv, TabTyped
      <2>2. CASE Tab!Ask(<<op>>)
            <3>1. op.ids \subseteq 1..created' /\ created <= created' /\ created' \in Nat
                  BY <1>1, <1>2, <1>4, <1>5 DEF ChatBounds
            <3>2. /\ ops' = ops \o <<op>> /\ ops' \in Seq(Operation)
                  /\ \A k \in 1..Len(ops') : ops'[k].kind = "put" => ops'[k].ids \subseteq 1..created'
                  BY <1>5, <2>2, <3>1, AskKeeps DEF TabInv
            <3>3. ops \in Seq(Operation) BY DEF TabInv, TabTyped
            <3>4. CollectsKnow(Tab!Referenced(chats), ops', db)
                  BY <1>5, <3>2, <3>3, AskedLater DEF TabInv
            <3>5. QED BY <3>2, <3>4
      <2>3. CASE Tab!Ask(<<>>) BY <2>1, <2>3, AskNothing DEF TabInv
      <2>4. QED BY <1>1, <2>2, <2>3
<1>9. TabTyped' BY <1>1, <1>6, <1>7, <1>8 DEF TabInv, TabTyped
<1>10. (AtRest /\ TurnPlaced /\ StoredShown)'
       BY <1>1, <1>3, <1>6 DEF AtRest, TurnPlaced, StoredShown, Tab!Streaming
<1>11. QED BY <1>1, <1>8, <1>9, <1>10 DEF TabInv

LEMMA TurnVanishesKeeps == ASSUME ChatBounds, TabInv, Tab!TurnVanishes PROVE TabInv'
<1> DEFINE s == chats[turn.chat]
           t == SubSeq(s, 1, turn.index - 1)
<1>1. /\ Tab!Streaming /\ ~turn.output /\ turn' = Tab!NoTurn
      /\ chats' = [chats EXCEPT ![turn.chat] = t]
      /\ UNCHANGED <<held, open, active, timer, unwritten, saved, db, ops, created>>
      BY DEF Tab!TurnVanishes
<1>2. /\ turn.chat \in 1..Len(chats) /\ turn.index \in 1..Len(s)
      /\ turn.index = Len(s) /\ ~s[turn.index].image
      BY <1>1 DEF TabInv, TurnPlaced
<1>3. chats \in Workspaces /\ s \in Seq(Tab!Messages) /\ Len(s) \in Nat
      /\ ops \in Seq(Operation) /\ Len(ops) \in Nat
      BY <1>2, WorkspaceParts DEF TabInv, TabTyped
<1> HIDE DEF s
<1>4. 1 \in 1..(Len(s) + 1) /\ turn.index - 1 \in 0..Len(s) BY <1>2, <1>3
<1>5. /\ t \in Seq(Tab!Messages)
      /\ Len(t) = IF 1 <= turn.index - 1 THEN (turn.index - 1) - 1 + 1 ELSE 0
      /\ \A k \in 1..Len(t) : t[k] = s[1 + k - 1]
      /\ \A n : Shows(t, n) => Shows(s, n)
      BY <1>3, <1>4, StretchOf
<1> HIDE DEF t
<1>6. ASSUME NEW n, Shows(s, n) PROVE Shows(t, n)
      <2>1. PICK i \in 1..Len(s) : s[i].image /\ s[i].id = n BY <1>6 DEF Shows
      <2>2. i \in 1..Len(t) /\ t[i] = s[i] BY <1>2, <1>3, <1>5, <2>1
      <2>3. QED BY <2>1, <2>2 DEF Shows
<1>7. /\ chats' \in Workspaces /\ Len(chats') = Len(chats)
      /\ \A i \in 1..Len(chats) : chats'[i] = IF i = turn.chat THEN t ELSE chats[i]
      <2> DEFINE new == [chats EXCEPT ![turn.chat] = t]
      <2>1. /\ new \in Workspaces /\ Len(new) = Len(chats)
            /\ \A i \in 1..Len(chats) : new[i] = IF i = turn.chat THEN t ELSE chats[i]
            BY <1>2, <1>3, <1>5, ReplacedChat
      <2>2. chats' = new BY <1>1
      <2> HIDE DEF new
      <2>3. QED BY <2>1, <2>2
<1>8. \A k : k \in Tab!Referenced(chats') <=> k \in Tab!Referenced(chats)
      <2>1. \A i \in 1..Len(chats) : \A k : Shows(chats'[i], k) <=> Shows(chats[i], k)
            BY <1>5, <1>6, <1>7 DEF s
      <2>2. QED BY <1>3, <1>7, <2>1, ReferencedIs
<1>9. CollectsKnow(Tab!Referenced(chats'), ops, db) BY <1>3, <1>8, ShownLess DEF TabInv
<1>10. turn' \in TurnShape BY <1>1 DEF Tab!NoTurn, TurnShape
<1>11. TabTyped' BY <1>1, <1>7, <1>10 DEF TabInv, TabTyped
<1>12. (AtRest /\ TurnPlaced /\ StoredShown)'
       BY <1>1, <1>8 DEF TabInv, AtRest, TurnPlaced, StoredShown, Tab!Streaming
<1>13. QED BY <1>1, <1>9, <1>11, <1>12 DEF TabInv

LEMMA NewConversationKeeps == ASSUME ChatBounds, TabInv, Tab!NewConversation PROVE TabInv'
<1>1. /\ open /\ ~Tab!Streaming /\ Len(chats) < MaxChats /\ chats' = Append(chats, <<>>)
      /\ active' = Len(chats') /\ Tab!Persist(chats')
      /\ UNCHANGED <<held, open, turn, timer, db, ops, created>>
      BY DEF Tab!NewConversation
<1>2. chats \in Workspaces /\ chats \in Seq(Seq(Tab!Messages)) /\ Len(chats) \in Nat
      /\ ops \in Seq(Operation) /\ Len(ops) \in Nat
      BY WorkspaceParts DEF TabInv, TabTyped, Workspaces
<1>3. <<>> \in Seq(Tab!Messages) /\ Len(<<>>) = 0 BY EmptySeq
<1>4. /\ chats' \in Seq(Seq(Tab!Messages)) /\ Len(chats') = Len(chats) + 1
      /\ \A i \in 1..Len(chats) : chats'[i] = chats[i]
      /\ chats'[Len(chats) + 1] = <<>>
      BY <1>1, <1>2, <1>3, AppendProperties
<1>5. chats' \in Workspaces /\ active' \in 1..Len(chats')
      <2>1. Len(chats') \in 1..MaxChats /\ Len(chats') \in 1..Len(chats')
            BY <1>1, <1>2, <1>4 DEF ChatBounds
      <2>2. QED BY <1>1, <1>4, <2>1 DEF Workspaces
<1>6. \A i : i \in 1..Len(chats') <=> i \in 1..Len(chats) \/ i = Len(chats) + 1 BY <1>2, <1>4
<1>7. \A n : ~Shows(<<>>, n) BY <1>3 DEF Shows
<1>8. \A k : k \in Tab!Referenced(chats') <=> k \in Tab!Referenced(chats)
      BY <1>2, <1>4, <1>5, <1>6, <1>7, ReferencedIs
<1>9. /\ saved' \in Workspaces /\ unwritten' \in BOOLEAN
      /\ ~unwritten' => Tab!Referenced(saved') \subseteq Tab!Referenced(chats')
      BY <1>1, <1>5, PersistKeeps DEF TabInv, TabTyped
<1>10. CollectsKnow(Tab!Referenced(chats'), ops, db) BY <1>2, <1>8, ShownLess DEF TabInv
<1>11. TabTyped' BY <1>1, <1>5, <1>9 DEF TabInv, TabTyped
<1>12. (AtRest /\ TurnPlaced /\ StoredShown)'
       BY <1>1, <1>9 DEF TabInv, AtRest, TurnPlaced, StoredShown, Tab!Streaming
<1>13. QED BY <1>1, <1>10, <1>11, <1>12 DEF TabInv

LEMMA DeleteConversationKeeps ==
    ASSUME ChatBounds, TabInv, Tab!DeleteConversation PROVE TabInv'
<1>1. PICK i \in DOMAIN chats :
          /\ chats' = IF Len(chats) = 1 THEN << <<>> >> ELSE Tab!RemoveAt(chats, i)
          /\ \/ i = active /\ active' \in DOMAIN chats'
             \/ i < active /\ active' = active - 1
             \/ i > active /\ UNCHANGED active
      BY DEF Tab!DeleteConversation
<1>2. chats \in Workspaces /\ i \in 1..Len(chats) /\ Len(chats) \in Nat /\ active \in 1..Len(chats)
      BY <1>1, WorkspaceParts DEF TabInv, TabTyped
<1>3. /\ chats' \in Workspaces /\ Tab!Referenced(chats') \subseteq Tab!Referenced(chats)
      /\ active' \in 1..Len(chats')
      <2>1. CASE Len(chats) = 1
            <3>1. chats' = << <<>> >> BY <1>1, <2>1
            <3>2. i = active BY <1>2, <2>1
            <3>3. active' \in DOMAIN chats' BY <1>1, <1>2, <3>2
            <3>4. QED BY <3>1, <3>3, EmptyChat, WorkspaceParts
      <2>2. CASE Len(chats) # 1
            <3>1. chats' = Tab!RemoveAt(chats, i) BY <1>1, <2>2
            <3>2. chats' \in Workspaces /\ Len(chats') = Len(chats) - 1
                  /\ Tab!Referenced(chats') \subseteq Tab!Referenced(chats)
                  BY <1>2, <2>2, <3>1, WithoutChat
            <3>3. DOMAIN chats' = 1..(Len(chats) - 1) BY <3>2, WorkspaceParts
            <3>4. active' \in 1..Len(chats') BY <1>1, <1>2, <3>2, <3>3
            <3>5. QED BY <3>2, <3>4
      <2>3. QED BY <2>1, <2>2
<1>4. /\ open /\ ~Tab!Streaming /\ Tab!Persist(chats') /\ Tab!Ask(<<Tab!Collect(chats')>>)
      /\ UNCHANGED <<held, open, turn, timer, db, created>>
      BY DEF Tab!DeleteConversation
<1>5. QED BY <1>3, <1>4, DeletingKeeps

LEMMA DeleteMessageKeeps == ASSUME ChatBounds, TabInv, Tab!DeleteMessage PROVE TabInv'
<1>1. PICK i \in DOMAIN chats[active] :
          chats' = [chats EXCEPT ![active] = Tab!RemoveAt(@, i)]
      BY DEF Tab!DeleteMessage
<1> DEFINE s == Tab!RemoveAt(chats[active], i)
           new == [chats EXCEPT ![active] = s]
<1>2. chats \in Workspaces /\ active \in 1..Len(chats) /\ chats[active] \in Seq(Tab!Messages)
      /\ i \in 1..Len(chats[active])
      BY <1>1, WorkspaceParts DEF TabInv, TabTyped
<1>3. s \in Seq(Tab!Messages) /\ \A n : Shows(s, n) => Shows(chats[active], n)
      BY <1>2, WithoutOne
<1>4. chats' = new BY <1>1
<1> HIDE DEF s
<1>5. /\ new \in Workspaces /\ Len(new) = Len(chats)
      /\ \A k \in 1..Len(chats) : new[k] = IF k = active THEN s ELSE chats[k]
      BY <1>2, <1>3, ReplacedChat
<1> HIDE DEF new
<1>6. Tab!Referenced(new) \subseteq Tab!Referenced(chats)
      <2> SUFFICES ASSUME NEW n \in Tab!Referenced(new) PROVE n \in Tab!Referenced(chats)
          OBVIOUS
      <2>1. PICK k \in 1..Len(new) : Shows(new[k], n) BY <1>5, ReferencedIs
      <2>2. Shows(chats[k], n) BY <1>3, <1>5, <2>1
      <2>3. QED BY <1>2, <1>5, <2>2, ReferencedIs
<1>7. /\ open /\ ~Tab!Streaming /\ Tab!Persist(chats') /\ Tab!Ask(<<Tab!Collect(chats')>>)
      /\ UNCHANGED <<held, open, active, turn, timer, db, created>>
      BY DEF Tab!DeleteMessage
<1>8. active' \in 1..Len(chats') BY <1>2, <1>4, <1>5, <1>7
<1>9. QED BY <1>4, <1>5, <1>6, <1>7, <1>8, DeletingKeeps

LEMMA ResendKeeps == ASSUME ChatBounds, TabInv, Tab!Resend PROVE TabInv'
<1>1. PICK i \in DOMAIN chats[active] :
          LET kept == SubSeq(chats[active], 1, i)
              shorter == [chats EXCEPT ![active] = kept]
          IN  /\ Tab!Persist(shorter) /\ Tab!Ask(<<Tab!Collect(shorter)>>)
              /\ Tab!RunTurn(kept, created + 1)
      BY DEF Tab!Resend
<1> DEFINE kept == SubSeq(chats[active], 1, i)
           shorter == [chats EXCEPT ![active] = kept]
           op == Tab!Collect(shorter)
<1>2. Tab!Persist(shorter) /\ Tab!Ask(<<op>>) /\ Tab!RunTurn(kept, created + 1) BY <1>1
<1>3. /\ open /\ ~Tab!Streaming /\ created < MaxMessages
      /\ UNCHANGED <<held, open, active, timer, db>>
      BY DEF Tab!Resend
<1>4. chats \in Workspaces /\ active \in 1..Len(chats) /\ chats[active] \in Seq(Tab!Messages)
      /\ i \in 1..Len(chats[active]) /\ Len(chats[active]) \in Nat
      /\ ops \in Seq(Operation) /\ Len(ops) \in Nat
      BY <1>1, WorkspaceParts DEF TabInv, TabTyped
<1>5. created \in Nat /\ created + 1 \in 1..MaxMessages /\ created' = created + 1
      BY <1>2, <1>3 DEF TabInv, TabTyped, ChatBounds, Tab!RunTurn
<1>6. kept \in Seq(Tab!Messages) /\ \A n : Shows(kept, n) => Shows(chats[active], n)
      <2>1. 1 \in 1..(Len(chats[active]) + 1) /\ i \in 0..Len(chats[active]) BY <1>4
      <2>2. QED BY <1>4, <2>1, StretchOf
<1> HIDE DEF kept
<1>7. /\ shorter \in Workspaces /\ Len(shorter) = Len(chats)
      /\ \A k \in 1..Len(chats) : shorter[k] = IF k = active THEN kept ELSE chats[k]
      BY <1>4, <1>6, ReplacedChat
<1> HIDE DEF shorter
<1>8. op \in Operation /\ op.kind = "collect" /\ op.ids = Tab!Referenced(shorter)
      BY <1>7, ReferencedTyped DEF Tab!Collect, Operation
<1> HIDE DEF op
<1>9. /\ chats' \in Workspaces /\ Len(chats') = Len(chats) /\ turn' \in TurnShape
      /\ turn'.chat = active /\ turn'.id = created + 1 /\ ~turn'.output
      /\ turn'.index \in 1..Len(chats'[active]) /\ turn'.index = Len(chats'[active])
      /\ chats'[active][turn'.index].id = created + 1 /\ ~chats'[active][turn'.index].image
      /\ \A k \in 1..Len(chats) : k # active => chats'[k] = chats[k]
      /\ \A k : Shows(chats'[active], k) <=> Shows(kept, k)
      BY <1>2, <1>5, <1>6, RunTurnPlaces DEF TabInv
<1>10. \A n : n \in Tab!Referenced(chats') <=> n \in Tab!Referenced(shorter)
       <2>1. \A k \in 1..Len(chats) : \A n : Shows(chats'[k], n) <=> Shows(shorter[k], n)
             BY <1>7, <1>9
       <2>2. QED BY <1>7, <1>9, <2>1, ReferencedIs
<1>11. \A n \in Tab!Referenced(shorter) : n \in Tab!Referenced(chats)
       <2>1. \A k \in 1..Len(chats) : \A n : Shows(shorter[k], n) => Shows(chats[k], n)
             BY <1>6, <1>7
       <2>2. QED BY <1>4, <1>7, <2>1, ReferencedIs
<1>12. /\ saved' \in Workspaces /\ unwritten' \in BOOLEAN
       /\ ~unwritten' => Tab!Referenced(saved') \subseteq Tab!Referenced(shorter)
       BY <1>2, <1>7, PersistKeeps DEF TabInv, TabTyped
<1>13. created + 1 \notin db /\ PutsNot(created + 1, ops) BY <1>5, FreshId DEF TabInv
<1>14. /\ ops' = ops \o <<op>> /\ ops' \in Seq(Operation)
       /\ \A k \in 1..Len(ops') : ops'[k].kind = "put" => ops'[k].ids \subseteq 1..created'
       /\ PutsNot(created + 1, ops')
       <2>1. created <= created' /\ created' \in Nat BY <1>5
       <2>2. op.kind # "put" BY <1>8
       <2>3. QED BY <1>2, <1>8, <1>13, <2>1, <2>2, AskKeeps DEF TabInv
<1>15. CollectsKnow(Tab!Referenced(chats'), ops', db)
       <2>1. CollectsKnow(Tab!Referenced(chats'), ops, db)
             BY <1>4, <1>10, <1>11, ShownLess DEF TabInv
       <2>2. Tab!Referenced(chats') \subseteq op.ids BY <1>8, <1>10
       <2>3. QED BY <1>4, <1>8, <1>14, <2>1, <2>2, AskedLater
<1>16. db' \subseteq 1..created' /\ created' \in 0..MaxMessages
       BY <1>3, <1>5 DEF TabInv, TabTyped
<1>17. TabTyped' BY <1>3, <1>4, <1>9, <1>12, <1>14, <1>16 DEF TabInv, TabTyped
<1>18. turn'.id \in 1..created' BY <1>5, <1>9
<1>19. TurnPlaced' BY <1>3, <1>4, <1>9, <1>13, <1>14, <1>18 DEF TurnPlaced
<1>20. (AtRest /\ StoredShown)' BY <1>3, <1>10, <1>12 DEF AtRest, StoredShown
<1>21. QED BY <1>3, <1>15, <1>17, <1>19, <1>20 DEF TabInv

LEMMA TabNext == ASSUME ChatBounds, TabInv, [Tab!Next]_chatVars PROVE TabInv'
<1>1. CASE Tab!SelectModel
      BY <1>1 DEF Tab!SelectModel, TabInv, TabTyped, AtRest, TurnPlaced, StoredShown,
                  Tab!Streaming, PutsNot, CollectsKnow
<1>2. CASE Tab!PersistTimer
      BY <1>2, WritingKeeps DEF Tab!PersistTimer, TabInv, TabTyped
<1>3. CASE Tab!RenameConversation
      BY <1>3, WritingKeeps DEF Tab!RenameConversation, TabInv, TabTyped
<1>4. CASE Tab!SelectConversation
      <2>1. active' \in 1..Len(chats) /\ timer' \in BOOLEAN /\ Tab!Persist(chats)
            /\ UNCHANGED <<held, open, chats, turn, db, ops, created>>
            BY <1>4, WorkspaceParts DEF Tab!SelectConversation, TabInv, TabTyped
      <2>2. QED BY <2>1, WritingKeeps
<1>5. CASE UNCHANGED chatVars
      BY <1>5 DEF chatVars, TabInv, TabTyped, AtRest, TurnPlaced, StoredShown,
                  Tab!Streaming, PutsNot, CollectsKnow
<1>6. QED BY <1>1, <1>2, <1>3, <1>4, <1>5, MountKeeps, LeaveKeeps, OpDoneKeeps, SendKeeps,
             OutputKeeps, TurnEndsKeeps, TurnVanishesKeeps, NewConversationKeeps,
             DeleteConversationKeeps, DeleteMessageKeeps, ResendKeeps
          DEF Tab!Next

\* What a step removes from the stored payloads, it removes by a collection that did not
\* know of it.
LEMMA CollectKeeps ==
    ASSUME TabInv, [Tab!Next]_chatVars, NEW n \in db \ db'
    PROVE  n \notin Tab!Referenced(chats) /\ (n \in Tab!Referenced(saved) => unwritten)
<1>1. CASE Tab!OpDone
      <2>1. ops # <<>> /\ Head(ops).kind = "collect" /\ n \notin Head(ops).ids
            BY <1>1 DEF Tab!OpDone
      <2>2. ops \in Seq(Operation) BY DEF TabInv, TabTyped
      <2>3. Head(ops) = ops[1] /\ 1 \in 1..Len(ops) BY <2>1, <2>2, HeadTaken
      <2>4. n \notin Tab!Referenced(chats) BY <2>1, <2>3 DEF TabInv, CollectsKnow
      <2>5. open BY <2>1 DEF TabInv, AtRest
      <2>6. QED BY <2>4, <2>5 DEF TabInv, StoredShown
<1>2. CASE ~Tab!OpDone
      <2>1. db' = db
            BY <1>2 DEF chatVars, Tab!Next, Tab!Mount, Tab!Leave, Tab!SelectModel,
                        Tab!PersistTimer, Tab!RenameConversation, Tab!Send, Tab!Output,
                        Tab!TurnEnds, Tab!TurnVanishes, Tab!SelectConversation,
                        Tab!NewConversation, Tab!DeleteConversation, Tab!DeleteMessage,
                        Tab!Resend
      <2>2. QED BY <2>1
<1>3. QED BY <1>1, <1>2

LEMMA TabTrue == ASSUME ChatBounds, TabInv PROVE Tab!TypeOK /\ Tab!IndexSafe
<1> USE DEF TabInv, TabTyped
<1>1. \A ws \in {chats, saved} : /\ Len(ws) \in 1..MaxChats
                                 /\ \A i \in DOMAIN ws : Tab!ToSet(ws[i]) \subseteq Tab!Messages
      BY WorkspaceParts DEF Tab!ToSet
<1>2. active \in DOMAIN chats BY WorkspaceParts
<1>3. db \subseteq 1..MaxMessages BY DEF ChatBounds
<1>4. Tab!TypeOK BY <1>1, <1>2, <1>3 DEF Tab!TypeOK
<1>5. Tab!IndexSafe BY WorkspaceParts DEF Tab!IndexSafe, TurnPlaced
<1>6. QED BY <1>4, <1>5

\* Collecting drops no image that is shown, nor one that the stored workspace points at as
\* long as it can be written, whatever is deleted, streamed, reloaded or failing meanwhile
\* (frontend/src/lib/playground/attachmentStore.ts:95).
THEOREM ImagesKeptHolds == ASSUME ChatBounds PROVE MCSpec => ImagesKept
<1>1. MCInit => TabInv BY TabInit DEF MCInit
<1>2. [MCNext]_MCVars => [Tab!Next]_chatVars
      BY DEF MCNext, StreamNext, StoreNext, PageNext, MCVars
<1>3. TabInv /\ [MCNext]_MCVars => TabInv' BY <1>2, TabNext
<1>4. TabInv /\ [MCNext]_MCVars => [component = "chats" => Tab!CollectStep]_chatVars
      <2> SUFFICES ASSUME TabInv, [MCNext]_MCVars PROVE Tab!CollectStep
          OBVIOUS
      <2>1. \A n \in db \ db' : n \notin Tab!Referenced(chats)
                                /\ (n \in Tab!Referenced(saved) => unwritten)
            BY <1>2, CollectKeeps
      <2>2. ASSUME NEW ws, NEW x \in Tab!AllOf(ws), x.image PROVE x.id \in Tab!Referenced(ws)
            BY <2>2 DEF Tab!Referenced
      <2>3. QED BY <2>1, <2>2 DEF Tab!CollectStep
<1>5. QED BY <1>1, <1>3, <1>4, PTL DEF MCSpec, ImagesKept

(***************************************************************************)
(* ImageTurns.  What an operation has still to fill is a list of cells of  *)
(* its own; its other cells are ready, so that what it leaves behind when  *)
(* it returns are exactly the cells it did not fill.                       *)
(***************************************************************************)
CellStates == {"loading", "ready", "failed"}
Cells(r) == {r.unfilled[k] : k \in 1..Len(r.unfilled)}
Batches == {i \in Grid!Running : runs[i].kind = "batch"}

GridBounds == MaxSlots \in Nat /\ MaxCount \in Nat \ {0} /\ MaxOperations \in Nat

GridTyped ==
    /\ slots \in Seq(CellStates) /\ Len(slots) <= MaxSlots /\ retriable \subseteq 1..Len(slots)
    /\ latest \in 0..MaxOperations /\ generating \in BOOLEAN /\ usable \in BOOLEAN
    /\ Grid!Running \subseteq 1..latest /\ \A i \in Grid!Running : runs[i] \in Grid!Run

Filling(r, grid) ==
    /\ r.images + Len(r.unfilled) <= MaxSlots /\ r.open + r.failures <= MaxCount
    /\ \A j, k \in 1..Len(r.unfilled) : j # k => r.unfilled[j] # r.unfilled[k]
    /\ Cells(r) \subseteq r.targets /\ r.targets \subseteq 1..Len(grid)
    /\ \A s \in r.targets : s \in Cells(r) \/ grid[s] = "ready"

CellsOwned ==
    /\ \A s \in 1..Len(slots) : slots[s] = "loading" <=> \E i \in Grid!Running : s \in Cells(runs[i])
    /\ \A s \in retriable : slots[s] = "failed"
    /\ \A i, j \in Grid!Running : i # j => Cells(runs[i]) \cap Cells(runs[j]) = {}

Tallied ==
    /\ IsFiniteSet(Grid!Running) /\ counted = Cardinality(Grid!Running)
    /\ generating => \E b \in Grid!Running : Batches = {b}
    /\ ~generating => Batches = {}

GridInv ==
    GridTyped /\ CellsOwned /\ Tallied /\ \A i \in Grid!Running : Filling(runs[i], slots)

LEMMA SameCardinality == \A S : Grid!Cardinality(S) = Cardinality(S)
BY DEF Grid!Cardinality, Cardinality

LEMMA RunParts ==
    ASSUME NEW r \in Grid!Run
    PROVE  /\ r.kind \in {"batch", "retry"} /\ r.targets \subseteq 1..MaxSlots
           /\ r.unfilled \in Seq(1..MaxSlots) /\ Len(r.unfilled) \in Nat
           /\ DOMAIN r.unfilled = 1..Len(r.unfilled)
           /\ r.open \in 0..MaxCount /\ r.images \in 0..MaxSlots /\ r.failures \in 0..MaxCount
           /\ r.first \in {"none", "terminal", "other"}
           /\ Grid!ToSet(r.unfilled) = Cells(r)
<1>1. r.unfilled \in Seq(1..MaxSlots) BY DEF Grid!Run
<1>2. Len(r.unfilled) \in Nat /\ DOMAIN r.unfilled = 1..Len(r.unfilled) BY <1>1
<1>3. Grid!ToSet(r.unfilled) = Cells(r) BY <1>2 DEF Grid!ToSet, Cells
<1>4. QED BY <1>1, <1>2, <1>3 DEF Grid!Run

LEMMA GridInit == ASSUME GridBounds, Grid!Init PROVE GridInv
<1>1. /\ slots = <<>> /\ retriable = {} /\ runs = <<>> /\ latest = 0 /\ generating = FALSE
      /\ counted = 0 /\ usable = TRUE
      BY DEF Grid!Init
<1>2. Grid!Running = {} BY <1>1 DEF Grid!Running
<1>3. slots \in Seq(CellStates) /\ Len(slots) = 0 BY <1>1
<1>4. GridTyped
      <2>1. Len(slots) <= MaxSlots /\ latest \in 0..MaxOperations BY <1>1, <1>3 DEF GridBounds
      <2>2. retriable \subseteq 1..Len(slots) /\ Grid!Running \subseteq 1..latest BY <1>1, <1>2
      <2>3. generating \in BOOLEAN /\ usable \in BOOLEAN BY <1>1
      <2>4. \A i \in Grid!Running : runs[i] \in Grid!Run BY <1>2
      <2>5. QED BY <1>3, <2>1, <2>2, <2>3, <2>4 DEF GridTyped
<1>5. CellsOwned BY <1>1, <1>2, <1>3 DEF CellsOwned
<1>6. Tallied BY <1>1, <1>2, FS_EmptySet DEF Tallied, Batches
<1>7. QED BY <1>2, <1>4, <1>5, <1>6 DEF GridInv

\* runImageTurn() starts: the cells it is to fill are its own.
LEMMA BeginKeeps ==
    ASSUME GridBounds, GridInv, NEW sort \in {"batch", "retry"}, NEW t \in Seq(1..MaxSlots),
           Grid!Begin(sort, t), usable' = usable, sort = "batch" => ~generating,
           slots' \in Seq(CellStates), Len(slots') <= MaxSlots, Len(slots) <= Len(slots'),
           Len(t) \in 1..MaxCount, Len(t) <= MaxSlots,
           \A j, k \in 1..Len(t) : j # k => t[j] # t[k],
           \A k \in 1..Len(t) : t[k] \in 1..Len(slots')
                                /\ (t[k] \in 1..Len(slots) => slots[t[k]] = "failed"),
           \A s \in 1..Len(slots') : slots'[s] = IF \E k \in 1..Len(t) : s = t[k]
                                                 THEN "loading" ELSE slots[s],
           \A s \in 1..Len(slots') : s \in 1..Len(slots) \/ \E k \in 1..Len(t) : s = t[k]
    PROVE  GridInv'
<1> DEFINE T == {t[k] : k \in 1..Len(t)}
<1>1. PICK n \in {1, Len(t)} :
          runs' = [i \in Grid!Running \cup {latest'} |->
                     IF i # latest' THEN runs[i]
                     ELSE [kind |-> sort, targets |-> Grid!ToSet(t), unfilled |-> t, open |-> n,
                           images |-> 0, failures |-> 0, first |-> "none"]]
      BY DEF Grid!Begin
<1>2. /\ latest < MaxOperations /\ latest' = latest + 1
      /\ generating' = (generating \/ sort = "batch") /\ counted' = counted + 1
      /\ retriable' = retriable \ Grid!ToSet(t)
      BY DEF Grid!Begin
<1>3. Len(t) \in Nat /\ DOMAIN t = 1..Len(t) /\ Grid!ToSet(t) = T BY DEF Grid!ToSet
<1>4. latest \in Nat /\ latest' \in 1..MaxOperations /\ Grid!Running \subseteq 1..latest
      BY <1>2 DEF GridInv, GridTyped, GridBounds
<1>5. latest' \notin Grid!Running BY <1>2, <1>4
<1> DEFINE r == [kind |-> sort, targets |-> T, unfilled |-> t, open |-> n,
                 images |-> 0, failures |-> 0, first |-> "none"]
<1>6. Cells(r) = T BY DEF Cells
<1>7. r \in Grid!Run
      <2>1. n \in 0..MaxCount /\ 0 \in 0..MaxCount /\ 0 \in 0..MaxSlots BY DEF GridBounds
      <2>2. \A k \in 1..Len(t) : t[k] \in 1..MaxSlots BY ElementOfSeq
      <2>4. T \subseteq 1..MaxSlots BY <2>2
      <2> HIDE DEF T
      <2>3. QED BY <2>1, <2>4 DEF Grid!Run
<1>23. r.images = 0 /\ r.unfilled = t /\ r.open = n /\ r.failures = 0 OBVIOUS
<1>8. /\ r.images + Len(r.unfilled) <= MaxSlots /\ r.open + r.failures <= MaxCount
      /\ \A j, k \in 1..Len(r.unfilled) : j # k => r.unfilled[j] # r.unfilled[k]
      <2>1. n <= MaxCount /\ n \in Nat /\ 0 + Len(t) <= MaxSlots /\ n + 0 <= MaxCount
            <3>1. MaxSlots \in Nat /\ MaxCount \in Nat /\ 1 <= MaxCount BY DEF GridBounds
            <3>2. Len(t) \in Nat /\ Len(t) <= MaxCount /\ Len(t) <= MaxSlots OBVIOUS
            <3>3. n = 1 \/ n = Len(t) BY <1>1
            <3>4. n \in Nat /\ n <= MaxCount BY <3>1, <3>2, <3>3
            <3>5. QED BY <3>1, <3>2, <3>4
      <2> HIDE DEF r
      <2>2. QED BY <1>23, <2>1
<1>9. r.targets = T /\ r.kind = sort OBVIOUS
<1>10. T \subseteq 1..Len(slots') OBVIOUS
<1>11. \A s \in 1..Len(slots') : slots'[s] = IF s \in T THEN "loading" ELSE slots[s] OBVIOUS
<1>12. \A s \in T : s \in 1..Len(slots) => slots[s] = "failed" OBVIOUS
<1>13. \A s \in 1..Len(slots') : s \in 1..Len(slots) \/ s \in T OBVIOUS
<1> HIDE DEF T
<1>14. /\ Grid!Running' = Grid!Running \cup {latest'} /\ runs'[latest'] = r
       /\ \A i \in Grid!Running : runs'[i] = runs[i]
       BY <1>1, <1>3, <1>5 DEF Grid!Running
<1> HIDE DEF r
<1>15. Len(slots) \in Nat /\ Len(slots') \in Nat /\ 1..Len(slots) \subseteq 1..Len(slots')
       BY DEF GridInv, GridTyped
<1>16. \A i \in Grid!Running : Filling(runs[i], slots) /\ runs[i] \in Grid!Run
       BY DEF GridInv, GridTyped
<1>17. \A i \in Grid!Running : T \cap Cells(runs[i]) = {}
       <2> SUFFICES ASSUME NEW i \in Grid!Running, NEW s \in T, s \in Cells(runs[i]) PROVE FALSE
           OBVIOUS
       <2>1. s \in 1..Len(slots) BY <1>16 DEF Filling
       <2>2. slots[s] = "loading" BY <2>1 DEF GridInv, CellsOwned
       <2>3. QED BY <1>12, <2>1, <2>2
<1>18. GridTyped'
       <2>1. Grid!Running' \subseteq 1..latest' BY <1>2, <1>4, <1>14
       <2>2. retriable' \subseteq 1..Len(slots') BY <1>2, <1>15 DEF GridInv, GridTyped
       <2>3. \A i \in Grid!Running' : runs'[i] \in Grid!Run BY <1>7, <1>14, <1>16
       <2>4. generating' \in BOOLEAN /\ usable' \in BOOLEAN BY <1>2 DEF GridInv, GridTyped
       <2>5. latest' \in 0..MaxOperations BY <1>4
       <2>6. QED BY <2>1, <2>2, <2>3, <2>4, <2>5 DEF GridTyped
<1>19. CellsOwned'
       <2>1. ASSUME NEW s \in 1..Len(slots')
             PROVE  slots'[s] = "loading" <=> \E i \in Grid!Running' : s \in Cells(runs'[i])
             <3>1. CASE s \in T BY <1>6, <1>11, <1>14, <3>1
             <3>2. CASE s \notin T
                   <4>1. s \in 1..Len(slots) /\ slots'[s] = slots[s] BY <1>11, <1>13, <3>2
                   <4>2. slots[s] = "loading" <=> \E i \in Grid!Running : s \in Cells(runs[i])
                         BY <4>1 DEF GridInv, CellsOwned
                   <4>3. QED BY <1>6, <1>14, <3>2, <4>1, <4>2
             <3>3. QED BY <3>1, <3>2
       <2>2. \A s \in retriable' : slots'[s] = "failed"
             <3>1. \A s \in retriable' : s \in retriable /\ s \notin T /\ s \in 1..Len(slots)
                   BY <1>2, <1>3 DEF GridInv, GridTyped, T
             <3>2. QED BY <1>11, <1>15, <3>1 DEF GridInv, CellsOwned
       <2>3. \A i, j \in Grid!Running' : i # j => Cells(runs'[i]) \cap Cells(runs'[j]) = {}
             BY <1>6, <1>14, <1>17 DEF GridInv, CellsOwned
       <2>4. QED BY <2>1, <2>2, <2>3 DEF CellsOwned
<1>20. Tallied'
       <2>1. IsFiniteSet(Grid!Running') /\ Cardinality(Grid!Running') = Cardinality(Grid!Running) + 1
             BY <1>5, <1>14, FS_AddElement DEF GridInv, Tallied
       <2>2. Batches' = IF sort = "batch" THEN Batches \cup {latest'} ELSE Batches
             BY <1>5, <1>9, <1>14 DEF Batches
       <2>3. CASE sort = "batch"
             <3>1. Batches' = {latest'} /\ generating' BY <1>2, <2>2, <2>3 DEF GridInv, Tallied
             <3>2. QED BY <1>2, <1>14, <2>1, <3>1 DEF GridInv, Tallied
       <2>4. CASE sort # "batch"
             <3>1. Batches' = Batches /\ (generating' <=> generating) BY <1>2, <2>2, <2>4
             <3>2. QED BY <1>2, <1>14, <2>1, <3>1 DEF GridInv, Tallied
       <2>5. QED BY <2>3, <2>4
<1>21. \A i \in Grid!Running' : Filling(runs'[i], slots')
       <2>1. ASSUME NEW i \in Grid!Running PROVE Filling(runs'[i], slots')
             <3>1. \A s \in runs[i].targets : s \in 1..Len(slots)
                                              /\ (s \in Cells(runs[i]) \/ slots'[s] = "ready")
                   <4> SUFFICES ASSUME NEW s \in runs[i].targets, s \notin Cells(runs[i])
                                PROVE  slots'[s] = "ready"
                       BY <1>16 DEF Filling
                   <4>1. s \in 1..Len(slots) /\ slots[s] = "ready" BY <1>16 DEF Filling
                   <4>2. s \notin T BY <1>12, <4>1
                   <4>3. QED BY <1>11, <1>15, <4>1, <4>2
             <3>2. runs'[i] = runs[i] BY <1>14
             <3>3. QED BY <1>15, <1>16, <3>1, <3>2 DEF Filling
       <2>2. Filling(r, slots') BY <1>6, <1>8, <1>9, <1>10 DEF Filling
       <2>3. QED BY <1>14, <2>1, <2>2
<1>22. QED BY <1>18, <1>19, <1>20, <1>21 DEF GridInv

LEMMA SendPromptKeeps == ASSUME GridBounds, GridInv, Grid!SendImagePrompt PROVE GridInv'
<1>1. PICK n \in 1..MaxCount :
          /\ Len(slots) + n <= MaxSlots
          /\ slots' = slots \o [i \in 1..n |-> "loading"]
          /\ Grid!Begin("batch", [i \in 1..n |-> Len(slots) + i])
      BY DEF Grid!SendImagePrompt
<1>2. ~generating /\ usable' = usable BY DEF Grid!SendImagePrompt
<1> DEFINE t == [i \in 1..n |-> Len(slots) + i]
           more == [i \in 1..n |-> "loading"]
<1>3. slots \in Seq(CellStates) /\ Len(slots) \in Nat /\ n \in Nat /\ MaxSlots \in Nat
      BY DEF GridInv, GridTyped, GridBounds
<1>4. t \in Seq(1..MaxSlots) /\ Len(t) = n /\ \A k \in 1..n : t[k] = Len(slots) + k
      BY <1>1, <1>3
<1>5. more \in Seq(CellStates) /\ Len(more) = n /\ \A k \in 1..n : more[k] = "loading"
      BY <1>3 DEF CellStates
<1>6. Grid!Begin("batch", t) /\ slots' = slots \o more BY <1>1
<1> HIDE DEF t, more
<1>7. /\ slots' \in Seq(CellStates) /\ Len(slots') = Len(slots) + n
      /\ \A s \in 1..(Len(slots) + n) :
             slots'[s] = IF s <= Len(slots) THEN slots[s] ELSE more[s - Len(slots)]
      BY <1>3, <1>5, <1>6, ConcatProperties
<1>8. ASSUME NEW s \in 1..Len(slots')
      PROVE  /\ slots'[s] = IF \E k \in 1..Len(t) : s = t[k] THEN "loading" ELSE slots[s]
             /\ s \in 1..Len(slots) \/ \E k \in 1..Len(t) : s = t[k]
      <2>1. CASE s <= Len(slots)
            <3>1. \A k \in 1..Len(t) : s # t[k] BY <1>3, <1>4, <2>1
            <3>2. s \in 1..Len(slots) BY <1>3, <2>1
            <3>3. QED BY <1>7, <2>1, <3>1, <3>2
      <2>2. CASE ~(s <= Len(slots))
            <3>1. s - Len(slots) \in 1..Len(t) /\ s = t[s - Len(slots)]
                  BY <1>3, <1>4, <1>7, <2>2
            <3>2. QED BY <1>4, <1>5, <1>7, <2>2, <3>1
      <2>3. QED BY <2>1, <2>2
<1>9. \A k \in 1..Len(t) : t[k] \in 1..Len(slots') /\ t[k] \notin 1..Len(slots)
      BY <1>3, <1>4, <1>7
<1>10. \A j, k \in 1..Len(t) : j # k => t[j] # t[k] BY <1>3, <1>4
<1>11. Len(slots') <= MaxSlots /\ Len(slots) <= Len(slots') /\ Len(t) \in 1..MaxCount
       /\ Len(t) <= MaxSlots
       BY <1>1, <1>3, <1>4, <1>7
<1>12. QED BY <1>2, <1>4, <1>6, <1>7, <1>8, <1>9, <1>10, <1>11, BeginKeeps

LEMMA RetryKeeps == ASSUME GridBounds, GridInv, Grid!RetryImageSlot PROVE GridInv'
<1>1. PICK s \in retriable : /\ slots[s] = "failed" /\ slots' = [slots EXCEPT ![s] = "loading"]
                             /\ Grid!Begin("retry", <<s>>)
      BY DEF Grid!RetryImageSlot
<1>2. usable' = usable BY DEF Grid!RetryImageSlot
<1>3. slots \in Seq(CellStates) /\ Len(slots) \in Nat /\ s \in 1..Len(slots)
      /\ Len(slots) <= MaxSlots
      BY DEF GridInv, GridTyped
<1>4. "loading" \in CellStates BY DEF CellStates
<1>5. /\ slots' \in Seq(CellStates) /\ Len(slots') = Len(slots)
      /\ \A k \in 1..Len(slots) : slots'[k] = IF k = s THEN "loading" ELSE slots[k]
      BY <1>1, <1>3, <1>4, ExceptSeq
<1> DEFINE t == <<s>>
<1>6. s \in 1..MaxSlots BY <1>3 DEF GridBounds
<1>7. t \in Seq(1..MaxSlots) /\ Len(t) = 1 /\ t[1] = s BY <1>6
<1>8. Grid!Begin("retry", t) BY <1>1
<1> HIDE DEF t
<1>9. \A k \in 1..Len(t) : k = 1 BY <1>7
<1>10. Len(t) \in 1..MaxCount /\ Len(t) <= MaxSlots /\ 1 \in 1..Len(t)
       BY <1>6, <1>7 DEF GridBounds
<1>11. \A k \in 1..Len(slots') : (\E j \in 1..Len(t) : k = t[j]) <=> k = s BY <1>7, <1>9, <1>10
<1>12. \A j, k \in 1..Len(t) : j # k => t[j] # t[k] BY <1>9
<1>13. \A k \in 1..Len(t) : t[k] \in 1..Len(slots') /\ slots[t[k]] = "failed"
       BY <1>1, <1>3, <1>5, <1>7, <1>9
<1>14. Len(slots') <= MaxSlots /\ Len(slots) <= Len(slots') BY <1>3, <1>5
<1>15. \A k \in 1..Len(slots') : /\ slots'[k] = IF \E j \in 1..Len(t) : k = t[j] THEN "loading"
                                                ELSE slots[k]
                                 /\ k \in 1..Len(slots)
       BY <1>5, <1>11
<1>16. QED BY <1>2, <1>5, <1>7, <1>8, <1>10, <1>12, <1>13, <1>14, <1>15, BeginKeeps

\* Requests answer or fail, but no cell changes hands.
LEMMA SameCellsKeep ==
    ASSUME GridInv, UNCHANGED <<slots, retriable, latest, generating, counted, usable>>,
           Grid!Running' = Grid!Running,
           \A i \in Grid!Running :
               /\ runs'[i] \in Grid!Run /\ runs'[i].kind = runs[i].kind
               /\ runs'[i].targets = runs[i].targets /\ runs'[i].unfilled = runs[i].unfilled
               /\ runs'[i].images = runs[i].images
               /\ runs'[i].open + runs'[i].failures <= MaxCount
    PROVE  GridInv'
<1>1. \A i \in Grid!Running : Cells(runs'[i]) = Cells(runs[i]) BY DEF Cells
<1>2. GridTyped' BY DEF GridInv, GridTyped
<1>3. CellsOwned' BY <1>1 DEF GridInv, CellsOwned
<1>4. Batches' = Batches BY DEF Batches
<1>5. Tallied' BY <1>4 DEF GridInv, Tallied
<1>6. \A i \in Grid!Running' : Filling(runs'[i], slots') BY <1>1 DEF GridInv, Filling
<1>7. QED BY <1>2, <1>3, <1>5, <1>6 DEF GridInv

LEMMA RequestFailsKeeps == ASSUME GridBounds, GridInv, Grid!RequestFails PROVE GridInv'
<1>1. PICK i \in Grid!Running, how \in {"terminal", "other"} :
          /\ runs[i].open > 0
          /\ runs' = [runs EXCEPT ![i].open = @ - 1, ![i].failures = @ + 1,
                                  ![i].first = IF @ = "none" THEN how ELSE @]
      BY DEF Grid!RequestFails
<1>2. UNCHANGED <<slots, retriable, latest, generating, counted, usable>>
      BY DEF Grid!RequestFails
<1>3. runs[i] \in Grid!Run /\ runs[i].open + runs[i].failures <= MaxCount
      /\ \A j \in Grid!Running : runs[j] \in Grid!Run /\ Filling(runs[j], slots)
      BY DEF GridInv, GridTyped, Filling
<1>4. runs[i].open \in Nat /\ runs[i].failures \in Nat BY <1>3, RunParts
<1> DEFINE r == [runs[i] EXCEPT !.open = @ - 1, !.failures = @ + 1,
                                !.first = IF @ = "none" THEN how ELSE @]
<1>5. Grid!Running' = Grid!Running /\ runs'[i] = r
      /\ \A j \in Grid!Running : j # i => runs'[j] = runs[j]
      BY <1>1 DEF Grid!Running
<1>6. r.open = runs[i].open - 1 /\ r.failures = runs[i].failures + 1
      /\ r.kind = runs[i].kind /\ r.targets = runs[i].targets /\ r.unfilled = runs[i].unfilled
      /\ r.images = runs[i].images
      BY <1>3 DEF Grid!Run
<1>7. r \in Grid!Run
      <2>1. runs[i].open - 1 \in 0..MaxCount /\ runs[i].failures + 1 \in 0..MaxCount
            BY <1>1, <1>3, <1>4 DEF GridBounds
      <2>2. QED BY <1>3, <2>1 DEF Grid!Run
<1> HIDE DEF r
<1>8. r.open + r.failures <= MaxCount BY <1>3, <1>4, <1>6
<1>9. \A j \in Grid!Running : runs[j].open + runs[j].failures <= MaxCount BY <1>3 DEF Filling
<1>10. QED BY <1>2, <1>3, <1>5, <1>6, <1>7, <1>8, <1>9, SameCellsKeep

LEMMA StopKeeps == ASSUME GridBounds, GridInv, Grid!Stop PROVE GridInv'
<1>1. /\ runs' = [i \in Grid!Running |->
                    [runs[i] EXCEPT !.open = 0, !.failures = @ + runs[i].open,
                        !.first = IF @ = "none" /\ runs[i].open > 0 THEN "other" ELSE @]]
      /\ UNCHANGED <<slots, retriable, latest, generating, counted, usable>>
      BY DEF Grid!Stop
<1>2. Grid!Running' = Grid!Running BY <1>1 DEF Grid!Running
<1>3. ASSUME NEW i \in Grid!Running
      PROVE  /\ runs'[i] \in Grid!Run /\ runs'[i].kind = runs[i].kind
             /\ runs'[i].targets = runs[i].targets /\ runs'[i].unfilled = runs[i].unfilled
             /\ runs'[i].images = runs[i].images
             /\ runs'[i].open + runs'[i].failures <= MaxCount
      <2>1. runs[i] \in Grid!Run /\ runs[i].open + runs[i].failures <= MaxCount
            BY DEF GridInv, GridTyped, Filling
      <2>2. runs[i].open \in Nat /\ runs[i].failures \in Nat BY <2>1, RunParts
      <2> DEFINE r == [runs[i] EXCEPT !.open = 0, !.failures = @ + runs[i].open,
                          !.first = IF @ = "none" /\ runs[i].open > 0 THEN "other" ELSE @]
      <2>3. r.open = 0 /\ r.failures = runs[i].failures + runs[i].open
            /\ r.kind = runs[i].kind /\ r.targets = runs[i].targets
            /\ r.unfilled = runs[i].unfilled /\ r.images = runs[i].images
            BY <2>1 DEF Grid!Run
      <2>4. r \in Grid!Run
            <3>1. 0 \in 0..MaxCount /\ runs[i].failures + runs[i].open \in 0..MaxCount
                  BY <2>1, <2>2 DEF GridBounds
            <3>2. QED BY <2>1, <3>1 DEF Grid!Run
      <2>5. runs'[i] = r BY <1>1
      <2> HIDE DEF r
      <2>6. QED BY <2>1, <2>2, <2>3, <2>4, <2>5
<1>4. QED BY <1>1, <1>2, <1>3, SameCellsKeep

\* The first n cells of a list and the others.
LEMMA SplitCells ==
    ASSUME NEW r \in Grid!Run, NEW n \in 0..Len(r.unfilled),
           \A j, k \in 1..Len(r.unfilled) : j # k => r.unfilled[j] # r.unfilled[k]
    PROVE  LET others == SubSeq(r.unfilled, n + 1, Len(r.unfilled))
               published == Grid!Published(r, n)
               remaining == {others[k] : k \in 1..Len(others)}
           IN  /\ others \in Seq(1..MaxSlots) /\ Len(others) = Len(r.unfilled) - n
               /\ \A j, k \in 1..Len(others) : j # k => others[j] # others[k]
               /\ published \cup remaining = Cells(r) /\ published \cap remaining = {}
<1> DEFINE u == r.unfilled
           b == SubSeq(u, 1, n)
           others == SubSeq(u, n + 1, Len(u))
           published == Grid!Published(r, n)
           remaining == {others[k] : k \in 1..Len(others)}
<1>1. /\ u \in Seq(1..MaxSlots) /\ Len(u) \in Nat /\ n \in Int /\ 1 \in Int /\ n + 1 \in Int
      /\ Len(u) \in Int /\ \A k \in 1..Len(u) : u[k] \in 1..MaxSlots
      <2>1. u \in Seq(1..MaxSlots) /\ Len(u) \in Nat BY RunParts
      <2>2. n \in 0..Len(u) OBVIOUS
      <2> HIDE DEF u
      <2>3. \A k \in 1..Len(u) : u[k] \in 1..MaxSlots BY <2>1, ElementOfSeq
      <2>4. QED BY <2>1, <2>2, <2>3
<1>2. published = Grid!ToSet(b) BY DEF Grid!Published
<1>3. Cells(r) = {u[k] : k \in 1..Len(u)} BY DEF Cells
<1>4. \A j, k \in 1..Len(u) : j # k => u[j] # u[k] OBVIOUS
<1> HIDE DEF u
<1>5. b \in Seq(1..MaxSlots) /\ Len(b) = n /\ \A k \in 1..n : b[k] = u[k]
      <2>1. \A k \in 1..n : u[k] \in 1..MaxSlots BY <1>1 DEF u
      <2>2. /\ b \in Seq(1..MaxSlots) /\ Len(b) = IF 1 <= n THEN n - 1 + 1 ELSE 0
            /\ \A k \in 1..(n - 1 + 1) : b[k] = u[1 + k - 1]
            BY <1>1, <2>1, SubSeqProperties
      <2> HIDE DEF b
      <2>3. QED BY <1>1, <2>2 DEF u
<1>6. others \in Seq(1..MaxSlots) /\ Len(others) = Len(u) - n
      /\ \A k \in 1..(Len(u) - n) : others[k] = u[n + k]
      <2>1. \A k \in (n + 1)..Len(u) : u[k] \in 1..MaxSlots BY <1>1
      <2>2. /\ others \in Seq(1..MaxSlots)
            /\ Len(others) = IF n + 1 <= Len(u) THEN Len(u) - (n + 1) + 1 ELSE 0
            /\ \A k \in 1..(Len(u) - (n + 1) + 1) : others[k] = u[(n + 1) + k - 1]
            BY <1>1, <2>1, SubSeqProperties
      <2> HIDE DEF others
      <2>3. n <= Len(u) BY DEF u
      <2>4. QED BY <1>1, <2>2, <2>3
<1>7. n \in 0..Len(u) BY DEF u
<1>8. published = {u[k] : k \in 1..n}
      <2>1. DOMAIN b = 1..n BY <1>5
      <2> HIDE DEF published, b
      <2>2. QED BY <1>2, <1>5, <2>1 DEF Grid!ToSet
<1> HIDE DEF published, b, others
<1>9. \A j, k \in 1..Len(others) : j # k => others[j] # others[k]
      <2>1. \A k \in 1..Len(others) : others[k] = u[n + k] /\ n + k \in 1..Len(u)
            BY <1>1, <1>6, <1>7
      <2>2. \A j, k \in 1..Len(others) : j # k => n + j # n + k BY <1>1, <1>6, <1>7
      <2>3. QED BY <1>4, <2>1, <2>2
<1>10. remaining = {u[k] : k \in (n + 1)..Len(u)}
       <2>1. ASSUME NEW k \in 1..Len(others)
             PROVE  others[k] = u[n + k] /\ n + k \in (n + 1)..Len(u)
             BY <1>1, <1>6, <1>7
       <2>2. ASSUME NEW k \in (n + 1)..Len(u)
             PROVE  k - n \in 1..Len(others) /\ others[k - n] = u[k]
             <3>1. k - n \in 1..(Len(u) - n) /\ n + (k - n) = k BY <1>1, <1>7
             <3>2. QED BY <1>6, <3>1
       <2>3. remaining \subseteq {u[k] : k \in (n + 1)..Len(u)} BY <2>1
       <2>4. {u[k] : k \in (n + 1)..Len(u)} \subseteq remaining BY <2>2
       <2>5. QED BY <2>3, <2>4
<1> HIDE DEF remaining
<1>11. /\ \A k : k \in 1..Len(u) <=> k \in 1..n \/ k \in (n + 1)..Len(u)
       /\ \A j \in 1..n : \A k \in (n + 1)..Len(u) : j # k
       BY <1>1, <1>7
<1>12. published \cup remaining = Cells(r) BY <1>3, <1>8, <1>10, <1>11
<1>13. published \cap remaining = {} BY <1>4, <1>8, <1>10, <1>11
<1>14. others \in Seq(1..MaxSlots) /\ Len(others) = Len(r.unfilled) - n BY <1>6 DEF u
<1>15. QED BY <1>9, <1>12, <1>13, <1>14 DEF u, others, published, remaining

LEMMA RespondsKeeps == ASSUME GridBounds, GridInv, Grid!Responds PROVE GridInv'
<1>1. PICK i \in Grid!Running : \E n \in 0..Len(runs[i].unfilled) :
          /\ runs[i].open > 0
          /\ slots' = [s \in DOMAIN slots |->
                         IF s \in Grid!Published(runs[i], n) THEN "ready" ELSE slots[s]]
          /\ runs' = [runs EXCEPT ![i].open = @ - 1, ![i].images = @ + n,
                                  ![i].unfilled = SubSeq(@, n + 1, Len(@))]
          /\ UNCHANGED <<retriable, latest, generating, counted, usable>>
      BY DEF Grid!Responds
<1>2. PICK n \in 0..Len(runs[i].unfilled) :
          /\ runs[i].open > 0
          /\ slots' = [s \in DOMAIN slots |->
                         IF s \in Grid!Published(runs[i], n) THEN "ready" ELSE slots[s]]
          /\ runs' = [runs EXCEPT ![i].open = @ - 1, ![i].images = @ + n,
                                  ![i].unfilled = SubSeq(@, n + 1, Len(@))]
          /\ UNCHANGED <<retriable, latest, generating, counted, usable>>
      BY <1>1
<1>3. \A j \in Grid!Running : runs[j] \in Grid!Run /\ Filling(runs[j], slots)
      BY DEF GridInv, GridTyped
<1> DEFINE q == runs[i]
           others == SubSeq(q.unfilled, n + 1, Len(q.unfilled))
           published == Grid!Published(q, n)
           remaining == {others[k] : k \in 1..Len(others)}
           r == [q EXCEPT !.open = q.open - 1, !.images = q.images + n, !.unfilled = others]
<1>4. /\ others \in Seq(1..MaxSlots) /\ Len(others) = Len(q.unfilled) - n
      /\ \A j, k \in 1..Len(others) : j # k => others[j] # others[k]
      /\ published \cup remaining = Cells(q) /\ published \cap remaining = {}
      BY <1>3, SplitCells DEF Filling
<1>5. Grid!Running' = Grid!Running /\ runs'[i] = r
      /\ \A j \in Grid!Running : j # i => runs'[j] = runs[j]
      BY <1>2 DEF Grid!Running
<1>6. slots \in Seq(CellStates) /\ Len(slots) \in Nat /\ DOMAIN slots = 1..Len(slots)
      BY DEF GridInv, GridTyped
<1>7. \A s \in 1..Len(slots) : slots'[s] = IF s \in published THEN "ready" ELSE slots[s]
      BY <1>2, <1>6
<1>8. slots' \in Seq(CellStates) /\ Len(slots') = Len(slots)
      <2>1. \A s \in 1..Len(slots) : (IF s \in published THEN "ready" ELSE slots[s]) \in CellStates
            BY <1>6, ElementOfSeq DEF CellStates
      <2> HIDE DEF published
      <2>2. slots' = [s \in 1..Len(slots) |-> IF s \in published THEN "ready" ELSE slots[s]]
            BY <1>2, <1>6 DEF published
      <2>3. QED BY <1>6, <2>1, <2>2
<1> HIDE DEF others, published, remaining
<1>9. /\ q \in Grid!Run /\ q.open \in 0..MaxCount /\ q.images \in 0..MaxSlots
      /\ q.failures \in 0..MaxCount /\ Len(q.unfilled) \in Nat
      /\ q.images + Len(q.unfilled) <= MaxSlots /\ q.open + q.failures <= MaxCount
      BY <1>3, RunParts DEF Filling
<1>10. n \in Nat /\ n <= Len(q.unfilled) /\ q.open > 0 BY <1>2, <1>9
<1>11. r.open = q.open - 1 /\ r.images = q.images + n /\ r.unfilled = others
       /\ r.kind = q.kind /\ r.targets = q.targets /\ r.failures = q.failures
       BY <1>9 DEF Grid!Run
<1>12. r \in Grid!Run
       <2>1. q.open - 1 \in 0..MaxCount /\ q.images + n \in 0..MaxSlots
             <3> HIDE DEF q
             <3>1. q.open \in 0..MaxCount /\ q.images \in 0..MaxSlots /\ Len(q.unfilled) \in Nat
                   /\ q.images + Len(q.unfilled) <= MaxSlots
                   BY <1>9
             <3>2. q.open - 1 \in 0..MaxCount BY <1>10, <3>1 DEF GridBounds
             <3>3. q.images + n \in 0..MaxSlots BY <1>10, <3>1 DEF GridBounds
             <3>4. QED BY <3>2, <3>3
       <2>2. QED BY <1>4, <1>9, <2>1 DEF Grid!Run
<1>13. Cells(r) = remaining BY <1>11 DEF Cells, remaining
<1> HIDE DEF r
<1>14. r.images + Len(r.unfilled) <= MaxSlots /\ r.open + r.failures <= MaxCount
      <2> HIDE DEF q, others
      <2>1. r.images + Len(r.unfilled) = (q.images + n) + (Len(q.unfilled) - n) BY <1>4, <1>11
      <2>2. r.open + r.failures = (q.open - 1) + q.failures BY <1>11
      <2>3. MaxSlots \in Nat /\ MaxCount \in Nat BY DEF GridBounds
      <2>4. (q.images + n) + (Len(q.unfilled) - n) <= MaxSlots BY <1>9, <1>10, <2>3
      <2>5. (q.open - 1) + q.failures <= MaxCount BY <1>9, <1>10, <2>3
      <2>6. QED BY <2>1, <2>2, <2>4, <2>5
<1>15. Cells(q) \subseteq q.targets /\ q.targets \subseteq 1..Len(slots) /\ published \subseteq Cells(q)
       /\ \A s \in q.targets : s \in Cells(q) \/ slots[s] = "ready"
       BY <1>3, <1>4 DEF Filling
<1>16. \A j \in Grid!Running : j # i => Cells(runs[j]) \cap Cells(q) = {}
       BY DEF GridInv, CellsOwned
<1>17. \A s \in 1..Len(slots) : slots[s] = "loading" <=> \E j \in Grid!Running : s \in Cells(runs[j])
       BY DEF GridInv, CellsOwned
<1>18. \A j \in Grid!Running : j # i => Cells(runs'[j]) = Cells(runs[j]) BY <1>5
<1>19. Cells(runs'[i]) = remaining BY <1>5, <1>13
<1> HIDE DEF q
<1>20. GridTyped'
       <2>1. \A j \in Grid!Running' : runs'[j] \in Grid!Run BY <1>3, <1>5, <1>12
       <2>2. QED BY <1>2, <1>5, <1>8, <2>1 DEF GridInv, GridTyped
<1>21. CellsOwned'
       <2>1. ASSUME NEW s \in 1..Len(slots')
             PROVE  slots'[s] = "loading" <=> \E j \in Grid!Running' : s \in Cells(runs'[j])
             <3>1. CASE s \in published
                   <4>1. slots'[s] = "ready" BY <1>7, <1>8, <3>1
                   <4>2. s \in Cells(q) /\ s \notin remaining BY <1>4, <1>15, <3>1
                   <4>3. \A j \in Grid!Running' : s \notin Cells(runs'[j])
                         BY <1>5, <1>16, <1>18, <1>19, <4>2
                   <4>4. QED BY <4>1, <4>3
             <3>2. CASE s \notin published
                   <4>1. slots'[s] = slots[s] BY <1>7, <1>8, <3>2
                   <4>2. s \in remaining <=> s \in Cells(q) BY <1>4, <3>2
                   <4>3. \A j \in Grid!Running : s \in Cells(runs'[j]) <=> s \in Cells(runs[j])
                         BY <1>18, <1>19, <4>2 DEF q
                   <4>4. QED BY <1>5, <1>8, <1>17, <4>1, <4>3
             <3>3. QED BY <3>1, <3>2
       <2>2. \A s \in retriable' : slots'[s] = "failed"
             <3>1. \A s \in retriable : s \in 1..Len(slots) /\ slots[s] = "failed"
                   BY DEF GridInv, GridTyped, CellsOwned
             <3>2. \A s \in published : s \in 1..Len(slots) /\ slots[s] = "loading"
                   BY <1>15, <1>17 DEF q
             <3>3. \A s \in retriable : s \notin published BY <3>1, <3>2
             <3>4. QED BY <1>2, <1>7, <3>1, <3>3
       <2>3. \A j, k \in Grid!Running' : j # k => Cells(runs'[j]) \cap Cells(runs'[k]) = {}
             <3>1. \A j \in Grid!Running : Cells(runs'[j]) \subseteq Cells(runs[j])
                   BY <1>4, <1>18, <1>19 DEF q
             <3>2. QED BY <1>5, <3>1 DEF GridInv, CellsOwned
       <2>4. QED BY <2>1, <2>2, <2>3 DEF CellsOwned
<1>22. Tallied'
       <2>1. \A j \in Grid!Running : runs'[j].kind = runs[j].kind BY <1>5, <1>11 DEF q
       <2>2. Batches' = Batches BY <1>5, <2>1 DEF Batches
       <2>3. QED BY <1>2, <1>5, <2>2 DEF GridInv, Tallied
<1>23. \A j \in Grid!Running' : Filling(runs'[j], slots')
       <2>1. \A s \in 1..Len(slots) : slots[s] = "ready" => slots'[s] = "ready" BY <1>7
       <2>2. ASSUME NEW j \in Grid!Running, j # i PROVE Filling(runs'[j], slots')
             <3>1. runs'[j] = runs[j] BY <1>5, <2>2
             <3>2. Filling(runs[j], slots) BY <1>3
             <3>3. \A s \in runs[j].targets : s \in Cells(runs[j]) \/ slots'[s] = "ready"
                   BY <2>1, <3>2 DEF Filling
             <3>4. QED BY <1>8, <3>1, <3>2, <3>3 DEF Filling
       <2>3. Filling(r, slots')
             <3>1. \A s \in q.targets : s \in remaining \/ slots'[s] = "ready"
                   BY <1>4, <1>7, <1>15, <2>1
             <3>2. remaining \subseteq q.targets BY <1>4, <1>15
             <3>3. QED BY <1>4, <1>8, <1>11, <1>13, <1>14, <1>15, <3>1, <3>2 DEF Filling
       <2>4. QED BY <1>5, <2>2, <2>3
<1>24. QED BY <1>20, <1>21, <1>22, <1>23 DEF GridInv

LEMMA ReturnsKeeps == ASSUME GridBounds, GridInv, Grid!Returns PROVE GridInv'
<1>1. PICK i \in Grid!Running :
          LET r == runs[i]
              terminal == Grid!Thrown(r) /\ r.first = "terminal"
          IN  /\ slots' = [s \in DOMAIN slots |->
                             IF s \in Grid!Unready(r) THEN "failed" ELSE slots[s]]
              /\ retriable' = IF terminal THEN retriable \ Grid!Unready(r)
                                          ELSE retriable \cup Grid!Unready(r)
              /\ runs' = [j \in Grid!Running \ {i} |-> runs[j]]
              /\ generating' = Grid!GeneratingAfter(r)
              /\ counted' = IF counted = 0 THEN 0 ELSE counted - 1
              /\ usable' = (usable /\ ~(terminal /\ i = latest))
              /\ UNCHANGED latest
      BY DEF Grid!Returns
<1> DEFINE r == runs[i]
           left == Grid!Unready(r)
<1>2. /\ slots' = [s \in DOMAIN slots |-> IF s \in left THEN "failed" ELSE slots[s]]
      /\ retriable' = retriable \ left \/ retriable' = retriable \cup left
      /\ runs' = [j \in Grid!Running \ {i} |-> runs[j]]
      /\ generating' = IF r.kind = "batch" THEN FALSE ELSE generating
      /\ counted' = IF counted = 0 THEN 0 ELSE counted - 1
      /\ usable' \in BOOLEAN /\ UNCHANGED latest
      BY <1>1 DEF Grid!GeneratingAfter
<1>3. \A j \in Grid!Running : runs[j] \in Grid!Run /\ Filling(runs[j], slots)
      BY DEF GridInv, GridTyped
<1>4. slots \in Seq(CellStates) /\ Len(slots) \in Nat /\ DOMAIN slots = 1..Len(slots)
      /\ \A s \in 1..Len(slots) : slots[s] = "loading" <=> \E j \in Grid!Running : s \in Cells(runs[j])
      BY DEF GridInv, GridTyped, CellsOwned
\* What is left are the cells it was still to fill.
<1>5. left = Cells(r) /\ left \subseteq 1..Len(slots)
      <2>1. \A s : s \in left <=> s \in r.targets /\ slots[s] # "ready" BY DEF Grid!Unready
      <2>2. Cells(r) \subseteq r.targets /\ r.targets \subseteq 1..Len(slots)
            /\ \A s \in r.targets : s \in Cells(r) \/ slots[s] = "ready"
            BY <1>3 DEF Filling
      <2>3. \A s \in Cells(r) : slots[s] = "loading" BY <1>4, <2>2
      <2> HIDE DEF left, r
      <2>4. \A s : s \in left <=> s \in Cells(r) BY <2>1, <2>2, <2>3
      <2>5. QED BY <2>2, <2>4
<1> HIDE DEF left
<1>6. \A s \in 1..Len(slots) : slots'[s] = IF s \in left THEN "failed" ELSE slots[s]
      BY <1>2, <1>4
<1>7. slots' \in Seq(CellStates) /\ Len(slots') = Len(slots)
      <2>1. \A s \in 1..Len(slots) : (IF s \in left THEN "failed" ELSE slots[s]) \in CellStates
            BY <1>4, ElementOfSeq DEF CellStates
      <2>2. slots' = [s \in 1..Len(slots) |-> IF s \in left THEN "failed" ELSE slots[s]]
            BY <1>2, <1>4
      <2>3. QED BY <1>4, <2>1, <2>2
<1>8. Grid!Running' = Grid!Running \ {i} /\ \A j \in Grid!Running' : runs'[j] = runs[j]
      BY <1>2 DEF Grid!Running
<1>9. \A j \in Grid!Running : j # i => Cells(runs[j]) \cap left = {}
      BY <1>5 DEF GridInv, CellsOwned
<1>10. GridTyped'
       <2>1. Grid!Running' \subseteq 1..latest' /\ \A j \in Grid!Running' : runs'[j] \in Grid!Run
             BY <1>2, <1>3, <1>8 DEF GridInv, GridTyped
       <2>2. retriable' \subseteq 1..Len(slots') BY <1>2, <1>5, <1>7 DEF GridInv, GridTyped
       <2>3. generating' \in BOOLEAN BY <1>2 DEF GridInv, GridTyped
       <2>4. QED BY <1>2, <1>7, <2>1, <2>2, <2>3 DEF GridInv, GridTyped
<1>11. CellsOwned'
       <2>1. ASSUME NEW s \in 1..Len(slots')
             PROVE  slots'[s] = "loading" <=> \E j \in Grid!Running' : s \in Cells(runs'[j])
             <3>1. CASE s \in left
                   <4>1. slots'[s] = "failed" BY <1>6, <1>7, <3>1
                   <4>2. \A j \in Grid!Running' : s \notin Cells(runs'[j]) BY <1>8, <1>9, <3>1
                   <4>3. QED BY <4>1, <4>2
             <3>2. CASE s \notin left
                   <4>1. slots'[s] = slots[s] BY <1>6, <1>7, <3>2
                   <4>2. (\E j \in Grid!Running : s \in Cells(runs[j]))
                             <=> \E j \in Grid!Running' : s \in Cells(runs'[j])
                         BY <1>5, <1>8, <3>2
                   <4>3. QED BY <1>4, <1>7, <4>1, <4>2
             <3>3. QED BY <3>1, <3>2
       <2>2. \A s \in retriable' : slots'[s] = "failed"
             <3>1. \A s \in retriable : s \in 1..Len(slots) /\ slots[s] = "failed"
                   BY DEF GridInv, GridTyped, CellsOwned
             <3>2. QED BY <1>2, <1>5, <1>6, <3>1
       <2>3. \A j, k \in Grid!Running' : j # k => Cells(runs'[j]) \cap Cells(runs'[k]) = {}
             BY <1>8 DEF GridInv, CellsOwned
       <2>4. QED BY <2>1, <2>2, <2>3 DEF CellsOwned
<1>12. Tallied'
       <2>1. IsFiniteSet(Grid!Running) /\ counted = Cardinality(Grid!Running) BY DEF GridInv, Tallied
       <2>2. Cardinality(Grid!Running) \in Nat /\ Cardinality(Grid!Running) # 0
             BY <2>1, FS_CardinalityType, FS_EmptySet
       <2>3. IsFiniteSet(Grid!Running') /\ Cardinality(Grid!Running') = Cardinality(Grid!Running) - 1
             BY <1>8, <2>1, FS_RemoveElement
       <2>4. counted' = Cardinality(Grid!Running') BY <1>2, <2>1, <2>2, <2>3
       <2>5. Batches' = Batches \ {i} BY <1>8 DEF Batches
       <2>6. i \in Batches <=> r.kind = "batch" BY DEF Batches
       <2>7. CASE r.kind = "batch"
             <3>1. Batches' = {} /\ ~generating' BY <1>2, <2>5, <2>6, <2>7 DEF GridInv, Tallied
             <3>2. QED BY <2>3, <2>4, <3>1 DEF Tallied
       <2>8. CASE r.kind # "batch"
             <3>1. Batches' = Batches /\ (generating' <=> generating) BY <1>2, <2>5, <2>6, <2>8
             <3>2. \A b : Batches = {b} => b # i BY <2>6, <2>8
             <3>3. generating' => \E b \in Grid!Running' : Batches' = {b}
                   BY <1>8, <3>1, <3>2 DEF GridInv, Tallied
             <3>4. QED BY <2>3, <2>4, <3>1, <3>3 DEF GridInv, Tallied
       <2>9. QED BY <2>7, <2>8
<1>13. \A j \in Grid!Running' : Filling(runs'[j], slots')
       <2>1. ASSUME NEW j \in Grid!Running, j # i PROVE Filling(runs'[j], slots')
             <3>1. runs'[j] = runs[j] /\ Filling(runs[j], slots) BY <1>3, <1>8, <2>1
             <3>2. ASSUME NEW s \in runs[j].targets, s \notin Cells(runs[j])
                   PROVE  slots'[s] = "ready"
                   <4>1. s \in 1..Len(slots) /\ slots[s] = "ready" BY <3>1, <3>2 DEF Filling
                   <4>2. s \notin left BY <1>4, <1>5, <4>1
                   <4>3. QED BY <1>6, <4>1, <4>2
             <3>3. QED BY <1>7, <3>1, <3>2 DEF Filling
       <2>2. QED BY <1>8, <2>1
<1>14. QED BY <1>10, <1>11, <1>12, <1>13 DEF GridInv

LEMMA GridNext == ASSUME GridBounds, GridInv, [Grid!Next]_imageVars PROVE GridInv'
<1>1. CASE Grid!Reselect
      BY <1>1 DEF Grid!Reselect, GridInv, GridTyped, CellsOwned, Tallied, Batches, Grid!Running
<1>2. CASE UNCHANGED imageVars
      BY <1>2 DEF imageVars, GridInv, GridTyped, CellsOwned, Tallied, Batches, Grid!Running
<1>3. QED BY <1>1, <1>2, SendPromptKeeps, RetryKeeps, RespondsKeeps, RequestFailsKeeps,
             StopKeeps, ReturnsKeeps
          DEF Grid!Next

LEMMA GridTrue == ASSUME GridBounds, GridInv PROVE Grid!TypeOK /\ Grid!SlotsOwned
<1>1. slots \in Seq(CellStates) /\ DOMAIN slots = 1..Len(slots) BY DEF GridInv, GridTyped
<1>2. \A i \in Grid!Running : Grid!ToSet(runs[i].unfilled) = Cells(runs[i])
      BY RunParts DEF GridInv, GridTyped
<1>3. counted \in 0..MaxOperations
      <2>1. Grid!Running \in SUBSET (1..latest) /\ latest \in Nat /\ latest <= MaxOperations
            BY DEF GridInv, GridTyped, GridBounds
      <2>2. IsFiniteSet(1..latest) /\ Cardinality(1..latest) = latest
            BY <2>1, FS_Interval
      <2>3. Cardinality(Grid!Running) <= latest BY <2>1, <2>2, FS_Subset
      <2>4. Cardinality(Grid!Running) \in Nat BY FS_CardinalityType DEF GridInv, Tallied
      <2>5. QED BY <2>1, <2>3, <2>4 DEF GridInv, Tallied, GridBounds
<1>4. Grid!TypeOK BY <1>1, <1>3 DEF GridInv, GridTyped, Grid!TypeOK, CellStates
<1>5. Grid!Cardinality(Batches) = IF generating THEN 1 ELSE 0
      BY SameCardinality, FS_EmptySet, FS_Singleton DEF GridInv, Tallied
<1>6. counted = Grid!Cardinality(Grid!Running) BY SameCardinality DEF GridInv, Tallied
<1>7. /\ \A s \in DOMAIN slots :
            /\ slots[s] = "loading" <=> \E i \in Grid!Running : s \in Grid!ToSet(runs[i].unfilled)
            /\ s \in retriable => slots[s] = "failed"
      /\ \A i, j \in Grid!Running :
            i # j => Grid!ToSet(runs[i].unfilled) \cap Grid!ToSet(runs[j].unfilled) = {}
      <2>1. \A s \in 1..Len(slots) : slots[s] = "loading"
                <=> \E i \in Grid!Running : s \in Cells(runs[i])
            BY DEF GridInv, CellsOwned
      <2>2. \A s \in DOMAIN slots : slots[s] = "loading"
                <=> \E i \in Grid!Running : s \in Grid!ToSet(runs[i].unfilled)
            BY <1>1, <1>2, <2>1
      <2>3. \A s \in DOMAIN slots : s \in retriable => slots[s] = "failed"
            BY DEF GridInv, CellsOwned
      <2>4. \A i, j \in Grid!Running :
                i # j => Grid!ToSet(runs[i].unfilled) \cap Grid!ToSet(runs[j].unfilled) = {}
            BY <1>2 DEF GridInv, CellsOwned
      <2>5. QED BY <2>2, <2>3, <2>4
<1>8. QED BY <1>4, <1>5, <1>6, <1>7 DEF Grid!SlotsOwned, Batches

\* A streamed answer writes to its own message, and an image operation to its own cells: a
\* cell is loading exactly while one running operation is to fill it, however batches,
\* retries, answers, failures and stops overlap
\* (frontend/src/public/pages/PlaygroundPage.svelte:258, 329).
THEOREM TurnsOwnTheirPlaceHolds ==
    ASSUME ChatBounds, GridBounds PROVE MCSpec => []TurnsOwnTheirPlace
<1>1. MCInit => TabInv /\ GridInv BY TabInit, GridInit DEF MCInit
<1>2. [MCNext]_MCVars => [Tab!Next]_chatVars /\ [Grid!Next]_imageVars
      BY DEF MCNext, StreamNext, StoreNext, PageNext, MCVars
<1>3. TabInv /\ GridInv /\ [MCNext]_MCVars => TabInv' /\ GridInv'
      BY <1>2, TabNext, GridNext
<1>4. TabInv /\ GridInv => TurnsOwnTheirPlace BY TabTrue, GridTrue DEF TurnsOwnTheirPlace
<1>5. QED BY <1>1, <1>3, <1>4, PTL DEF MCSpec
=============================================================================
