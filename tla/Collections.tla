---------------------------- MODULE Collections ----------------------------
(***************************************************************************)
(* What the modules need of sequences, as functions of positions that the  *)
(* provers take: SequencesExt has most of it, beside folds and others with *)
(* an operator as parameter, which they do not.                            *)
(***************************************************************************)
EXTENDS Integers, Sequences

ToSet(s) == {s[i] : i \in DOMAIN s}

Last(s) == s[Len(s)]
Front(s) == SubSeq(s, 1, Len(s) - 1)
RemoveAt(s, i) == SubSeq(s, 1, i - 1) \o SubSeq(s, i + 1, Len(s))
Reverse(s) == [i \in 1..Len(s) |-> s[Len(s) - i + 1]]

\* The elements of s that are in S, in their order: Array.prototype.filter().
Among(s, S) ==
    LET kept[i \in 0..Len(s)] == IF i = 0 THEN <<>>
                                 ELSE IF s[i] \in S THEN Append(kept[i - 1], s[i])
                                 ELSE kept[i - 1]
    IN  kept[Len(s)]

\* The sequences of ss one after the other: Array.prototype.flat().
Joined(ss) ==
    LET upTo[i \in 0..Len(ss)] == IF i = 0 THEN <<>> ELSE upTo[i - 1] \o ss[i]
    IN  upTo[Len(ss)]
=============================================================================
