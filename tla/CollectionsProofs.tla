------------------------- MODULE CollectionsProofs -------------------------
(***************************************************************************)
(* Facts about sums over finite sets and about filtered sequences.  The    *)
(* induction theorems of the library have an operator as a parameter; here *)
(* induction is over the members of a set that has every successor of its  *)
(* members, which is a fact of first order.                                *)
(***************************************************************************)
EXTENDS Collections, Functions, FiniteSetTheorems, SequenceTheorems, WellFoundedInduction, TLAPS

LEMMA ElementIn == ASSUME NEW S, NEW s \in Seq(S), NEW i \in DOMAIN s PROVE s[i] \in S
OBVIOUS

(***************************************************************************)
(* Induction.                                                              *)
(***************************************************************************)
LEMMA Least ==
    ASSUME NEW T \in SUBSET Nat, T # {}
    PROVE  \E x \in T : \A y \in T : x <= y
<1> DEFINE R == OpToRel(<, Nat)
<1>1. \A x, y \in Nat : x < y => <<x, y>> \in R BY DEF OpToRel
<1>2. IsWellFoundedOn(R, Nat) BY NatLessThanWellFounded
<1> HIDE DEF R
<1>3. PICK x \in T : \A y \in T : ~(<<y, x>> \in R) BY <1>2, WFMin
<1>4. \A y \in T : x <= y
      <2>1. SUFFICES ASSUME NEW y \in T, ~(x <= y) PROVE FALSE OBVIOUS
      <2>2. x \in Nat /\ y \in Nat OBVIOUS
      <2>3. y < x BY <2>1, <2>2
      <2>4. QED BY <1>1, <1>3, <2>1, <2>2, <2>3
<1>5. QED BY <1>4

LEMMA Naturally ==
    ASSUME NEW P \in SUBSET Nat, 0 \in P, \A n \in P : n + 1 \in P
    PROVE  P = Nat
<1>1. SUFFICES ASSUME Nat \ P # {} PROVE FALSE OBVIOUS
<1>2. PICK n \in Nat \ P : \A k \in Nat \ P : n <= k
      <2>1. Nat \ P \in SUBSET Nat OBVIOUS
      <2>2. QED BY <1>1, <2>1, Least
<1>3. n \in Nat /\ n # 0 /\ n - 1 \in Nat BY <1>2
<1>4. n - 1 \in P BY <1>2, <1>3
<1>5. n = (n - 1) + 1 BY <1>3
<1>6. QED BY <1>2, <1>4, <1>5

LEMMA Sequentially ==
    ASSUME NEW S, NEW P \in SUBSET Seq(S), <<>> \in P,
           \A s \in P : \A x \in S : Append(s, x) \in P
    PROVE  P = Seq(S)
<1> DEFINE Q == {n \in Nat : \A s \in Seq(S) : Len(s) = n => s \in P}
<1>1. 0 \in Q
      <2>1. ASSUME NEW s \in Seq(S), Len(s) = 0 PROVE s \in P
            <3>1. s = <<>> BY <2>1, EmptySeq
            <3>2. QED BY <3>1
      <2>2. QED BY <2>1
<1>2. ASSUME NEW n \in Q PROVE n + 1 \in Q
      <2>1. ASSUME NEW s \in Seq(S), Len(s) = n + 1 PROVE s \in P
            <3>1. n \in Nat OBVIOUS
            <3>2. s # <<>> BY <2>1, <3>1, EmptySeq
            <3>3. PICK t \in Seq(S), x \in S : s = Append(t, x)
                  BY <3>2, SequenceEmptyOrAppend
            <3>4. Len(s) = Len(t) + 1 BY <3>3, AppendProperties
            <3>5. Len(t) \in Nat BY LenProperties
            <3>6. Len(t) = n BY <2>1, <3>1, <3>4, <3>5
            <3>7. t \in P BY <3>6
            <3>8. QED BY <3>3, <3>7
      <2>2. n + 1 \in Nat OBVIOUS
      <2>3. QED BY <2>1, <2>2
<1> HIDE DEF Q
<1>3. Q = Nat
      <2>1. Q \in SUBSET Nat BY DEF Q
      <2>2. QED BY <1>1, <1>2, <2>1, Naturally
<1>4. \A s \in Seq(S) : s \in P
      <2>1. TAKE s \in Seq(S)
      <2>2. Len(s) \in Q BY <1>3, LenProperties
      <2>3. QED BY <2>2 DEF Q
<1>5. QED BY <1>4

LEMMA Finitely ==
    ASSUME NEW S, IsFiniteSet(S), NEW P \in SUBSET (SUBSET S), {} \in P,
           \A T \in P : \A x \in S \ T : T \cup {x} \in P
    PROVE  P = SUBSET S
<1> DEFINE Q == {n \in Nat : \A T \in SUBSET S : Cardinality(T) = n => T \in P}
<1>1. 0 \in Q
      <2>1. ASSUME NEW T \in SUBSET S, Cardinality(T) = 0 PROVE T \in P
            <3>1. T = {} BY <2>1, FS_EmptySet, FS_Subset
            <3>2. QED BY <3>1
      <2>2. QED BY <2>1
<1>2. ASSUME NEW n \in Q PROVE n + 1 \in Q
      <2>1. ASSUME NEW T \in SUBSET S, Cardinality(T) = n + 1 PROVE T \in P
            <3>1. n \in Nat OBVIOUS
            <3>2. IsFiniteSet(T) BY FS_Subset
            <3>3. T # {} BY <2>1, <3>1, <3>2, FS_EmptySet
            <3>4. PICK x \in T : TRUE BY <3>3
            <3>5. Cardinality(T \ {x}) = (n + 1) - 1 BY <2>1, <3>2, <3>4, FS_RemoveElement
            <3>6. T \ {x} \in P BY <3>1, <3>5
            <3>7. T = (T \ {x}) \cup {x} BY <3>4
            <3>8. x \in S \ (T \ {x}) BY <3>4
            <3>9. QED BY <3>6, <3>7, <3>8
      <2>2. n + 1 \in Nat OBVIOUS
      <2>3. QED BY <2>1, <2>2
<1> HIDE DEF Q
<1>3. Q = Nat
      <2>1. Q \in SUBSET Nat BY DEF Q
      <2>2. QED BY <1>1, <1>2, <2>1, Naturally
<1>4. \A T \in SUBSET S : T \in P
      <2>1. TAKE T \in SUBSET S
      <2>2. Cardinality(T) \in Nat BY FS_Subset, FS_CardinalityType
      <2>3. Cardinality(T) \in Q BY <1>3, <2>2
      <2>4. QED BY <2>3 DEF Q
<1>5. QED BY <1>4

\* A function that is defined by recursion on the numbers up to n exists.
Maps(G, n, V) == G \in [1..n -> [V -> V]]
Runs(f, n, V, b, G) == f \in [0..n -> V] /\ f[0] = b /\ \A i \in 1..n : f[i] = G[i][f[i - 1]]

LEMMA Running ==
    ASSUME NEW n \in Nat, NEW V, NEW b \in V, NEW G, Maps(G, n, V)
    PROVE  \E f : Runs(f, n, V, b, G)
<1>1. SUFFICES \E f \in [0..n -> V] : f[0] = b /\ \A i \in 1..n : f[i] = G[i][f[i - 1]]
      BY DEF Runs
<1>2. G \in [1..n -> [V -> V]] BY DEF Maps
<1> DEFINE Upto(f, k) == f[0] = b /\ \A i \in 1..k : f[i] = G[i][f[i - 1]]
           P == {k \in Nat : k <= n => \E f \in [0..k -> V] : Upto(f, k)}
<1>3. 0 \in P
      <2>1. [i \in 0..0 |-> b] \in [0..0 -> V] OBVIOUS
      <2>2. Upto([i \in 0..0 |-> b], 0) OBVIOUS
      <2>3. QED BY <2>1, <2>2
<1>4. ASSUME NEW k \in P PROVE k + 1 \in P
      <2>1. ASSUME k + 1 <= n PROVE \E f \in [0..k + 1 -> V] : Upto(f, k + 1)
            <3>1. PICK f \in [0..k -> V] : Upto(f, k) BY <2>1
            <3> DEFINE g == [i \in 0..k + 1 |-> IF i <= k THEN f[i] ELSE G[k + 1][f[k]]]
            <3>2. k \in Nat /\ k + 1 \in 1..n BY <2>1
            <3>3. G[k + 1] \in [V -> V] /\ f[k] \in V BY <1>2, <3>2
            <3>4. g \in [0..k + 1 -> V] BY <3>2, <3>3
            <3>5. ASSUME NEW i \in 1..k + 1 PROVE g[i] = G[i][g[i - 1]]
                  <4>1. CASE i <= k
                        <5>1. g[i] = f[i] /\ g[i - 1] = f[i - 1] BY <3>2, <4>1
                        <5>2. i \in 1..k BY <3>2, <4>1
                        <5>3. f[i] = G[i][f[i - 1]] BY <3>1, <5>2
                        <5>4. QED BY <5>1, <5>3
                  <4>2. CASE i = k + 1 BY <3>2, <4>2
                  <4>3. QED BY <3>2, <4>1, <4>2
            <3>6. g[0] = b BY <3>1, <3>2
            <3>7. Upto(g, k + 1) BY <3>5, <3>6
            <3>8. QED BY <3>4, <3>7
      <2>2. k + 1 \in Nat OBVIOUS
      <2>3. QED BY <2>1, <2>2
<1>5. n \in P
      <2>1. P \in SUBSET Nat OBVIOUS
      <2> HIDE DEF P
      <2>2. P = Nat BY <1>3, <1>4, <2>1, Naturally
      <2>3. QED BY <2>2
<1>6. QED BY <1>5

LEMMA Downward ==
    ASSUME NEW S, IsFiniteSet(S), NEW P \in SUBSET (SUBSET S),
           \A T \in SUBSET S : (\A U \in SUBSET T : U # T => U \in P) => T \in P
    PROVE  P = SUBSET S
<1> DEFINE Q == {n \in Nat : \A T \in SUBSET S : Cardinality(T) <= n => T \in P}
<1>1. \A T \in SUBSET S : Cardinality(T) \in Nat BY FS_Subset, FS_CardinalityType
<1>2. \A T \in SUBSET S : \A U \in SUBSET T : U # T => Cardinality(U) < Cardinality(T)
      <2>1. TAKE T \in SUBSET S
      <2>2. TAKE U \in SUBSET T
      <2>3. HAVE U # T
      <2>4. IsFiniteSet(T) BY FS_Subset
      <2>5. Cardinality(U) <= Cardinality(T) /\ Cardinality(U) # Cardinality(T)
            BY <2>3, <2>4, FS_Subset
      <2>6. Cardinality(U) \in Nat /\ Cardinality(T) \in Nat BY <1>1
      <2>7. QED BY <2>5, <2>6
<1>3. 0 \in Q
      <2>1. ASSUME NEW T \in SUBSET S, Cardinality(T) <= 0 PROVE T \in P
            <3>1. \A U \in SUBSET T : ~(U # T)
                  <4>1. TAKE U \in SUBSET T
                  <4>2. ASSUME U # T PROVE FALSE
                        <5>1. Cardinality(U) < Cardinality(T) /\ Cardinality(U) \in Nat
                              BY <1>1, <1>2, <4>2
                        <5>2. QED BY <1>1, <2>1, <5>1
                  <4>3. QED BY <4>2
            <3>2. QED BY <3>1
      <2>2. QED BY <2>1
<1>4. ASSUME NEW n \in Q PROVE n + 1 \in Q
      <2>1. ASSUME NEW T \in SUBSET S, Cardinality(T) <= n + 1 PROVE T \in P
            <3>1. \A U \in SUBSET T : U # T => U \in P
                  <4>1. TAKE U \in SUBSET T
                  <4>2. HAVE U # T
                  <4>3. /\ Cardinality(U) < Cardinality(T) /\ Cardinality(U) \in Nat
                        /\ Cardinality(T) \in Nat /\ n \in Nat
                        BY <1>1, <1>2, <4>2
                  <4>4. Cardinality(U) <= n BY <2>1, <4>3
                  <4>5. QED BY <4>4
            <3>2. QED BY <3>1
      <2>2. n + 1 \in Nat OBVIOUS
      <2>3. QED BY <2>1, <2>2
<1>5. Q \in SUBSET Nat OBVIOUS
<1> HIDE DEF Q
<1>6. Q = Nat BY <1>3, <1>4, <1>5, Naturally
<1>7. \A T \in SUBSET S : T \in P
      <2>1. TAKE T \in SUBSET S
      <2>2. Cardinality(T) \in Q /\ Cardinality(T) <= Cardinality(T) BY <1>1, <1>6
      <2>3. QED BY <2>2 DEF Q
<1>8. QED BY <1>7

(***************************************************************************)
(* Sums.                                                                   *)
(***************************************************************************)
SomeOf(U) == CHOOSE x \in U : TRUE
AddsUp(g, f, S) == \A U \in SUBSET S : g[U] = IF U = {} THEN 0 ELSE f[SomeOf(U)] + g[U \ {SomeOf(U)}]

LEMMA AnyIs == ASSUME NEW U, U # {} PROVE SomeOf(U) \in U /\ U \ {SomeOf(U)} # U
BY DEF SomeOf

LEMMA SumIs ==
    ASSUME NEW f, NEW S, IsFiniteSet(S)
    PROVE  \E g : AddsUp(g, f, S) /\ SumFunctionOnSet(f, S) = g[S]
<1> DEFINE Rec(g, U) == g[U] = IF U = {} THEN 0 ELSE f[SomeOf(U)] + g[U \ {SomeOf(U)}]
           Whole(g) == g = [U \in SUBSET S |-> IF U = {} THEN 0 ELSE f[SomeOf(U)] + g[U \ {SomeOf(U)}]]
           P == {n \in Nat : \E g : \A U \in SUBSET S : Cardinality(U) <= n => Rec(g, U)}
<1>1. \A T \in SUBSET S : Cardinality(T) \in Nat BY FS_Subset, FS_CardinalityType
<1>2. \A U \in SUBSET S : U # {} => Cardinality(U \ {SomeOf(U)}) = Cardinality(U) - 1
      BY FS_Subset, FS_RemoveElement, AnyIs
<1>3. 0 \in P
      <2> DEFINE g == [U \in SUBSET S |-> 0]
      <2>1. ASSUME NEW U \in SUBSET S, Cardinality(U) <= 0 PROVE Rec(g, U)
            <3>1. U = {} BY <1>1, <2>1, FS_Subset, FS_EmptySet
            <3>2. QED BY <3>1
      <2>2. QED BY <2>1
<1>4. ASSUME NEW n \in P PROVE n + 1 \in P
      <2>1. PICK g : \A U \in SUBSET S : Cardinality(U) <= n => Rec(g, U) OBVIOUS
      <2> DEFINE h == [U \in SUBSET S |-> IF U = {} THEN 0 ELSE f[SomeOf(U)] + g[U \ {SomeOf(U)}]]
      <2>2. \A U \in SUBSET S : Cardinality(U) <= n => h[U] = g[U] BY <2>1
      <2>3. ASSUME NEW U \in SUBSET S, Cardinality(U) <= n + 1 PROVE Rec(h, U)
            <3>1. CASE U = {} BY <3>1
            <3>2. CASE U # {}
                  <4>1. Cardinality(U \ {SomeOf(U)}) <= n BY <1>1, <1>2, <2>3, <3>2
                  <4>2. U \ {SomeOf(U)} \in SUBSET S OBVIOUS
                  <4>3. h[U \ {SomeOf(U)}] = g[U \ {SomeOf(U)}] BY <2>2, <4>1, <4>2
                  <4>4. h[U] = f[SomeOf(U)] + g[U \ {SomeOf(U)}] BY <3>2
                  <4> HIDE DEF h
                  <4>5. QED BY <3>2, <4>3, <4>4
            <3>3. QED BY <3>1, <3>2
      <2>4. n + 1 \in Nat OBVIOUS
      <2> HIDE DEF h
      <2>5. QED BY <2>3, <2>4
<1>5. \E g : \A U \in SUBSET S : Rec(g, U)
      <2>1. P \in SUBSET Nat OBVIOUS
      <2> HIDE DEF P
      <2>2. P = Nat BY <1>3, <1>4, <2>1, Naturally
      <2>3. Cardinality(S) \in P BY <1>1, <2>2
      <2>4. PICK g : \A U \in SUBSET S : Cardinality(U) <= Cardinality(S) => Rec(g, U)
            BY <2>3 DEF P
      <2>5. \A U \in SUBSET S : Cardinality(U) <= Cardinality(S) BY FS_Subset
      <2>6. QED BY <2>4, <2>5
<1>6. \E g : Whole(g)
      <2>1. PICK g : \A U \in SUBSET S : Rec(g, U) BY <1>5
      <2> DEFINE h == [U \in SUBSET S |-> g[U]]
      <2>2. \A U \in SUBSET S : Rec(h, U)
            <3>1. \A U \in SUBSET S : U \ {SomeOf(U)} \in SUBSET S OBVIOUS
            <3>2. \A U \in SUBSET S : h[U] = g[U] /\ h[U \ {SomeOf(U)}] = g[U \ {SomeOf(U)}]
                  BY <3>1
            <3> HIDE DEF h
            <3>3. QED BY <2>1, <3>2
      <2>3. h = [U \in SUBSET S |-> h[U]] OBVIOUS
      <2> HIDE DEF h
      <2>4. Whole(h) BY <2>2, <2>3
      <2>5. QED BY <2>4
<1>7. Whole(CHOOSE g : Whole(g)) BY <1>6
<1>8. SumFunctionOnSet(f, S) = (CHOOSE g : Whole(g))[S]
      BY DEF SumFunctionOnSet, FoldFunctionOnSet, MapThenFoldSet, SomeOf
<1> DEFINE c == CHOOSE g : Whole(g)
<1>9. Whole(c) /\ SumFunctionOnSet(f, S) = c[S] BY <1>7, <1>8
<1> HIDE DEF c
<1>10. AddsUp(c, f, S) BY <1>9 DEF AddsUp
<1>11. QED BY <1>9, <1>10

LEMMA SumsAgree ==
    ASSUME NEW S, IsFiniteSet(S), NEW f, NEW e, \A x \in S : f[x] = e[x],
           NEW g, AddsUp(g, f, S), NEW h, AddsUp(h, e, S)
    PROVE  g[S] = h[S]
<1> DEFINE P == {U \in SUBSET S : g[U] = h[U]}
<1>1. ASSUME NEW T \in SUBSET S, \A U \in SUBSET T : U # T => U \in P PROVE T \in P
      <2>1. CASE T = {} BY <2>1 DEF AddsUp
      <2>2. CASE T # {}
            <3>1. SomeOf(T) \in S /\ T \ {SomeOf(T)} # T BY <2>2, AnyIs
            <3>2. T \ {SomeOf(T)} \in P BY <1>1, <3>1
            <3>3. f[SomeOf(T)] = e[SomeOf(T)] BY <3>1
            <3>4. g[T] = f[SomeOf(T)] + g[T \ {SomeOf(T)}] BY <2>2 DEF AddsUp
            <3>5. h[T] = e[SomeOf(T)] + h[T \ {SomeOf(T)}] BY <2>2 DEF AddsUp
            <3>6. QED BY <3>2, <3>3, <3>4, <3>5
      <2>3. QED BY <2>1, <2>2
<1>2. P \in SUBSET (SUBSET S) OBVIOUS
<1> HIDE DEF P
<1>3. P = SUBSET S BY <1>1, <1>2, Downward
<1>4. QED BY <1>3 DEF P

LEMMA SumSame ==
    ASSUME NEW S, IsFiniteSet(S), NEW f, NEW e, \A x \in S : f[x] = e[x]
    PROVE  SumFunctionOnSet(f, S) = SumFunctionOnSet(e, S)
BY SumIs, SumsAgree

LEMMA SumEmpty == ASSUME NEW f PROVE SumFunctionOnSet(f, {}) = 0
<1>1. IsFiniteSet({}) BY FS_EmptySet
<1>2. PICK g : AddsUp(g, f, {}) /\ SumFunctionOnSet(f, {}) = g[{}] BY <1>1, SumIs
<1>3. QED BY <1>2 DEF AddsUp

LEMMA SumAny ==
    ASSUME NEW S, IsFiniteSet(S), S # {}, NEW f
    PROVE  SumFunctionOnSet(f, S) = f[SomeOf(S)] + SumFunctionOnSet(f, S \ {SomeOf(S)})
<1> DEFINE T == S \ {SomeOf(S)}
<1>1. PICK g : AddsUp(g, f, S) /\ SumFunctionOnSet(f, S) = g[S] BY SumIs
<1>2. IsFiniteSet(T) /\ T \in SUBSET S BY FS_Subset
<1>3. PICK h : AddsUp(h, f, T) /\ SumFunctionOnSet(f, T) = h[T] BY <1>2, SumIs
<1>4. AddsUp(g, f, T) BY <1>1, <1>2 DEF AddsUp
<1>5. g[T] = h[T] BY <1>2, <1>3, <1>4, SumsAgree
<1>6. g[S] = f[SomeOf(S)] + g[T] BY <1>1 DEF AddsUp
<1>7. QED BY <1>1, <1>3, <1>5, <1>6

LEMMA SumType ==
    ASSUME NEW S, IsFiniteSet(S), NEW f, \A x \in S : f[x] \in Int
    PROVE  SumFunctionOnSet(f, S) \in Int
<1> DEFINE P == {U \in SUBSET S : SumFunctionOnSet(f, U) \in Int}
<1>1. ASSUME NEW T \in SUBSET S, \A U \in SUBSET T : U # T => U \in P PROVE T \in P
      <2>1. CASE T = {} BY <2>1, SumEmpty
      <2>2. CASE T # {}
            <3>1. SomeOf(T) \in S /\ T \ {SomeOf(T)} # T BY <2>2, AnyIs
            <3>2. SumFunctionOnSet(f, T \ {SomeOf(T)}) \in Int BY <1>1, <3>1
            <3>3. f[SomeOf(T)] \in Int BY <3>1
            <3>4. IsFiniteSet(T) BY FS_Subset
            <3>5. SumFunctionOnSet(f, T) = f[SomeOf(T)] + SumFunctionOnSet(f, T \ {SomeOf(T)})
                  BY <2>2, <3>4, SumAny
            <3>6. QED BY <3>2, <3>3, <3>5
      <2>3. QED BY <2>1, <2>2
<1>2. P \in SUBSET (SUBSET S) OBVIOUS
<1> HIDE DEF P
<1>3. P = SUBSET S BY <1>1, <1>2, Downward
<1>4. QED BY <1>3 DEF P

LEMMA SumPick ==
    ASSUME NEW S, IsFiniteSet(S), NEW f, \A x \in S : f[x] \in Int, NEW y \in S
    PROVE  SumFunctionOnSet(f, S) = f[y] + SumFunctionOnSet(f, S \ {y})
<1> DEFINE Sum(U) == SumFunctionOnSet(f, U)
           P == {U \in SUBSET S : \A x \in U : Sum(U) = f[x] + Sum(U \ {x})}
<1>1. \A U \in SUBSET S : Sum(U) \in Int /\ IsFiniteSet(U) BY FS_Subset, SumType
<1>2. \A U \in SUBSET S : U # {} => Sum(U) = f[SomeOf(U)] + Sum(U \ {SomeOf(U)}) BY <1>1, SumAny
<1> HIDE DEF Sum
<1>3. ASSUME NEW T \in SUBSET S, \A U \in SUBSET T : U # T => U \in P PROVE T \in P
      <2>1. ASSUME NEW x \in T PROVE Sum(T) = f[x] + Sum(T \ {x})
            <3> DEFINE a == SomeOf(T)
            <3>1. a \in T /\ Sum(T) = f[a] + Sum(T \ {a}) BY <1>2, AnyIs
            <3> HIDE DEF a
            <3>2. CASE x = a BY <3>1, <3>2
            <3>3. CASE x # a
                  <4>1. T \ {a} \in P /\ T \ {x} \in P BY <1>3, <3>1
                  <4>2. x \in T \ {a} /\ a \in T \ {x} BY <3>1, <3>3
                  <4>3. Sum(T \ {a}) = f[x] + Sum((T \ {a}) \ {x}) BY <4>1, <4>2
                  <4>4. Sum(T \ {x}) = f[a] + Sum((T \ {x}) \ {a}) BY <4>1, <4>2
                  <4>5. (T \ {a}) \ {x} = (T \ {x}) \ {a} OBVIOUS
                  <4>6. (T \ {x}) \ {a} \in SUBSET S OBVIOUS
                  <4>7. Sum((T \ {x}) \ {a}) \in Int BY <1>1, <4>6
                  <4>8. f[x] \in Int /\ f[a] \in Int BY <3>1
                  <4> DEFINE rest == Sum((T \ {x}) \ {a})
                  <4>9. Sum(T \ {a}) = f[x] + rest /\ Sum(T \ {x}) = f[a] + rest
                        BY <4>3, <4>4, <4>5
                  <4>10. rest \in Int BY <4>7
                  <4> HIDE DEF rest, P
                  <4>11. QED BY <3>1, <4>8, <4>9, <4>10
            <3>4. QED BY <3>2, <3>3
      <2>2. QED BY <2>1
<1>4. P \in SUBSET (SUBSET S) OBVIOUS
<1> HIDE DEF P
<1>5. P = SUBSET S BY <1>3, <1>4, Downward
<1>6. QED BY <1>5 DEF P, Sum

LEMMA SumMore ==
    ASSUME NEW S, IsFiniteSet(S), NEW f, \A x \in S : f[x] \in Int,
           NEW y, y \notin S, f[y] \in Int
    PROVE  SumFunctionOnSet(f, S \cup {y}) = f[y] + SumFunctionOnSet(f, S)
<1>1. IsFiniteSet(S \cup {y}) BY FS_AddElement
<1>2. (S \cup {y}) \ {y} = S OBVIOUS
<1>3. QED BY <1>1, <1>2, SumPick

LEMMA SumZero ==
    ASSUME NEW S, IsFiniteSet(S), NEW f, \A x \in S : f[x] = 0
    PROVE  SumFunctionOnSet(f, S) = 0
<1> DEFINE P == {U \in SUBSET S : SumFunctionOnSet(f, U) = 0}
<1>1. {} \in P BY SumEmpty
<1>2. ASSUME NEW T \in P, NEW x \in S \ T PROVE T \cup {x} \in P
      <2>1. IsFiniteSet(T) /\ \A y \in T : f[y] \in Int BY FS_Subset
      <2>2. SumFunctionOnSet(f, T \cup {x}) = f[x] + SumFunctionOnSet(f, T) BY <2>1, SumMore
      <2>3. QED BY <2>2
<1>3. P \in SUBSET (SUBSET S) OBVIOUS
<1> HIDE DEF P
<1>4. P = SUBSET S BY <1>1, <1>2, <1>3, Finitely
<1>5. QED BY <1>4 DEF P

LEMMA SumAtMost ==
    ASSUME NEW S, IsFiniteSet(S), NEW f, NEW e,
           \A x \in S : f[x] \in Int /\ e[x] \in Int /\ f[x] <= e[x]
    PROVE  SumFunctionOnSet(f, S) <= SumFunctionOnSet(e, S)
<1> DEFINE P == {U \in SUBSET S : SumFunctionOnSet(f, U) <= SumFunctionOnSet(e, U)}
<1>1. {} \in P BY SumEmpty
<1>2. ASSUME NEW T \in P, NEW x \in S \ T PROVE T \cup {x} \in P
      <2>1. IsFiniteSet(T) /\ \A y \in T : f[y] \in Int /\ e[y] \in Int BY FS_Subset
      <2>2. /\ SumFunctionOnSet(f, T \cup {x}) = f[x] + SumFunctionOnSet(f, T)
            /\ SumFunctionOnSet(e, T \cup {x}) = e[x] + SumFunctionOnSet(e, T)
            BY <2>1, SumMore
      <2>3. SumFunctionOnSet(f, T) \in Int /\ SumFunctionOnSet(e, T) \in Int BY <2>1, SumType
      <2>4. QED BY <2>2, <2>3
<1>3. P \in SUBSET (SUBSET S) OBVIOUS
<1> HIDE DEF P
<1>4. P = SUBSET S BY <1>1, <1>2, <1>3, Finitely
<1>5. QED BY <1>4 DEF P

LEMMA SumNat ==
    ASSUME NEW S, IsFiniteSet(S), NEW f, \A x \in S : f[x] \in Nat
    PROVE  SumFunctionOnSet(f, S) \in Nat
<1> DEFINE none == [x \in S |-> 0]
<1>1. \A x \in S : none[x] = 0 OBVIOUS
<1> HIDE DEF none
<1>2. SumFunctionOnSet(none, S) = 0 BY <1>1, SumZero
<1>3. \A x \in S : none[x] \in Int /\ f[x] \in Int /\ none[x] <= f[x] BY <1>1
<1>4. SumFunctionOnSet(none, S) <= SumFunctionOnSet(f, S) BY <1>3, SumAtMost
<1>5. SumFunctionOnSet(f, S) \in Int BY SumType
<1>6. QED BY <1>2, <1>4, <1>5

\* Addends that are equal everywhere but at y.
LEMMA SumChange ==
    ASSUME NEW S, IsFiniteSet(S), NEW f, NEW e,
           \A x \in S : f[x] \in Int /\ e[x] \in Int,
           NEW y \in S, \A x \in S \ {y} : f[x] = e[x]
    PROVE  SumFunctionOnSet(e, S) = SumFunctionOnSet(f, S) + (e[y] - f[y])
<1>1. SumFunctionOnSet(f, S) = f[y] + SumFunctionOnSet(f, S \ {y}) BY SumPick
<1>2. SumFunctionOnSet(e, S) = e[y] + SumFunctionOnSet(e, S \ {y}) BY SumPick
<1>3. IsFiniteSet(S \ {y}) BY FS_RemoveElement
<1>4. SumFunctionOnSet(f, S \ {y}) = SumFunctionOnSet(e, S \ {y}) BY <1>3, SumSame
<1>5. SumFunctionOnSet(f, S \ {y}) \in Int BY <1>3, SumType
<1>6. f[y] \in Int /\ e[y] \in Int OBVIOUS
<1>7. QED BY <1>1, <1>2, <1>4, <1>5, <1>6

\* Sums that are equal, of addends of which none is greater than its counterpart.
LEMMA SumTight ==
    ASSUME NEW S, IsFiniteSet(S), NEW f, NEW e,
           \A x \in S : f[x] \in Int /\ e[x] \in Int /\ f[x] <= e[x],
           SumFunctionOnSet(f, S) = SumFunctionOnSet(e, S)
    PROVE  \A x \in S : f[x] = e[x]
<1>1. TAKE y \in S
<1>2. /\ SumFunctionOnSet(f, S) = f[y] + SumFunctionOnSet(f, S \ {y})
      /\ SumFunctionOnSet(e, S) = e[y] + SumFunctionOnSet(e, S \ {y})
      BY SumPick
<1>3. IsFiniteSet(S \ {y}) BY FS_RemoveElement
<1>4. SumFunctionOnSet(f, S \ {y}) <= SumFunctionOnSet(e, S \ {y}) BY <1>3, SumAtMost
<1>5. SumFunctionOnSet(f, S \ {y}) \in Int /\ SumFunctionOnSet(e, S \ {y}) \in Int
      BY <1>3, SumType
<1>6. f[y] \in Int /\ e[y] \in Int /\ f[y] <= e[y] OBVIOUS
<1>7. f[y] + SumFunctionOnSet(f, S \ {y}) = e[y] + SumFunctionOnSet(e, S \ {y}) BY <1>2
<1>8. \A a, b, c, d \in Int : a + c = b + d /\ a <= b /\ c <= d => a = b OBVIOUS
<1>9. QED BY <1>4, <1>5, <1>6, <1>7, <1>8

LEMMA SumPlus ==
    ASSUME NEW S, IsFiniteSet(S), NEW f, NEW e, NEW g,
           \A x \in S : f[x] \in Int /\ e[x] \in Int /\ g[x] = f[x] + e[x]
    PROVE  SumFunctionOnSet(g, S) = SumFunctionOnSet(f, S) + SumFunctionOnSet(e, S)
<1> DEFINE Sum(h, U) == SumFunctionOnSet(h, U)
           P == {U \in SUBSET S : Sum(g, U) = Sum(f, U) + Sum(e, U)}
<1>1. {} \in P BY SumEmpty
<1>2. ASSUME NEW T \in P, NEW x \in S \ T PROVE T \cup {x} \in P
      <2>1. /\ IsFiniteSet(T)
            /\ \A y \in T \cup {x} : f[y] \in Int /\ e[y] \in Int /\ g[y] \in Int
            BY FS_Subset
      <2>2. /\ Sum(f, T \cup {x}) = f[x] + Sum(f, T) /\ Sum(e, T \cup {x}) = e[x] + Sum(e, T)
            /\ Sum(g, T \cup {x}) = g[x] + Sum(g, T)
            BY <2>1, SumMore
      <2>3. Sum(f, T) \in Int /\ Sum(e, T) \in Int BY <2>1, SumType
      <2>4. g[x] = f[x] + e[x] /\ f[x] \in Int /\ e[x] \in Int OBVIOUS
      <2>5. Sum(g, T) = Sum(f, T) + Sum(e, T) OBVIOUS
      <2> HIDE DEF Sum
      <2>6. QED BY <2>2, <2>3, <2>4, <2>5
<1>3. P \in SUBSET (SUBSET S) OBVIOUS
<1> HIDE DEF P
<1>4. P = SUBSET S BY <1>1, <1>2, <1>3, Finitely
<1>5. QED BY <1>4 DEF P

\* The order of summation.
LEMMA SumSwap ==
    ASSUME NEW S, IsFiniteSet(S), NEW T, IsFiniteSet(T), NEW f,
           \A x \in S, y \in T : f[x][y] \in Int
    PROVE  SumFunctionOnSet([x \in S |-> SumFunctionOnSet(f[x], T)], S)
             = SumFunctionOnSet([y \in T |-> SumFunctionOnSet([x \in S |-> f[x][y]], S)], T)
<1> DEFINE line == [x \in S |-> SumFunctionOnSet(f[x], T)]
           column == [y \in T |-> [x \in S |-> f[x][y]]]
           Columns(U) == [y \in T |-> SumFunctionOnSet(column[y], U)]
           P == {U \in SUBSET S : SumFunctionOnSet(line, U) = SumFunctionOnSet(Columns(U), T)}
<1>1. \A x \in S : line[x] = SumFunctionOnSet(f[x], T) /\ line[x] \in Int BY SumType
<1>2. \A y \in T : \A x \in S : column[y][x] = f[x][y] /\ column[y][x] \in Int OBVIOUS
<1>3. \A U \in SUBSET S : \A y \in T : Columns(U)[y] = SumFunctionOnSet(column[y], U) OBVIOUS
<1>4. SumFunctionOnSet([x \in S |-> SumFunctionOnSet(f[x], T)], S) = SumFunctionOnSet(line, S)
      OBVIOUS
<1>5. SumFunctionOnSet([y \in T |-> SumFunctionOnSet([x \in S |-> f[x][y]], S)], T)
        = SumFunctionOnSet(Columns(S), T)
      <2>1. \A y \in T : [x \in S |-> f[x][y]] = column[y] OBVIOUS
      <2> HIDE DEF column
      <2>2. QED BY <2>1, SumSame
<1> HIDE DEF line, column
<1>6. \A U \in SUBSET S : \A y \in T : Columns(U)[y] \in Int
      <2>1. TAKE U \in SUBSET S
      <2>2. IsFiniteSet(U) BY FS_Subset
      <2>3. QED BY <1>2, <2>2, SumType
<1> HIDE DEF Columns
<1>7. {} \in P
      <2>1. \A y \in T : Columns({})[y] = 0 BY <1>3, SumEmpty
      <2>2. QED BY <2>1, SumEmpty, SumZero
<1>8. ASSUME NEW U \in P, NEW x \in S \ U PROVE U \cup {x} \in P
      <2>1. U \in SUBSET S /\ U \cup {x} \in SUBSET S /\ x \in S OBVIOUS
      <2>2. IsFiniteSet(U) BY FS_Subset
      <2>3. SumFunctionOnSet(line, U \cup {x}) = line[x] + SumFunctionOnSet(line, U)
            BY <1>1, <2>2, SumMore
      <2>4. \A y \in T : SumFunctionOnSet(column[y], U \cup {x})
                           = column[y][x] + SumFunctionOnSet(column[y], U)
            BY <1>2, <2>1, <2>2, SumMore
      <2>5. \A y \in T : /\ f[x][y] \in Int /\ Columns(U)[y] \in Int
                          /\ Columns(U \cup {x})[y] = f[x][y] + Columns(U)[y]
            BY <1>2, <1>3, <1>6, <2>1, <2>4
      <2>6. SumFunctionOnSet(Columns(U \cup {x}), T)
              = SumFunctionOnSet(f[x], T) + SumFunctionOnSet(Columns(U), T)
            BY <2>5, SumPlus
      <2>7. SumFunctionOnSet(line, U) = SumFunctionOnSet(Columns(U), T) OBVIOUS
      <2>8. QED BY <1>1, <2>1, <2>3, <2>6, <2>7
<1>9. P \in SUBSET (SUBSET S) OBVIOUS
<1> HIDE DEF P
<1>10. P = SUBSET S BY <1>7, <1>8, <1>9, Finitely
<1>11. SumFunctionOnSet(line, S) = SumFunctionOnSet(Columns(S), T) BY <1>10 DEF P
<1>12. QED BY <1>4, <1>5, <1>11

\* Addends that are sorted into groups, and the groups' sums added.
LEMMA SumGroups ==
    ASSUME NEW S, IsFiniteSet(S), NEW D, IsFiniteSet(D), NEW k, \A x \in S : k[x] \in D,
           NEW f, \A x \in S : f[x] \in Int
    PROVE  SumFunctionOnSet([d \in D |-> SumFunctionOnSet(f, {x \in S : k[x] = d})], D)
             = SumFunctionOnSet(f, S)
<1> DEFINE In(U, d) == {x \in U : k[x] = d}
           Groups(U) == [d \in D |-> SumFunctionOnSet(f, In(U, d))]
           P == {U \in SUBSET S : SumFunctionOnSet(Groups(U), D) = SumFunctionOnSet(f, U)}
<1>1. \A U \in SUBSET S : IsFiniteSet(U) /\ \A d : IsFiniteSet(In(U, d)) BY FS_Subset
<1>2. \A U \in SUBSET S : \A d \in D :
          Groups(U)[d] = SumFunctionOnSet(f, In(U, d)) /\ Groups(U)[d] \in Int
      BY <1>1, SumType
<1>3. SumFunctionOnSet([d \in D |-> SumFunctionOnSet(f, {x \in S : k[x] = d})], D)
        = SumFunctionOnSet(Groups(S), D)
      OBVIOUS
<1> HIDE DEF Groups
<1>4. {} \in P
      <2>1. \A d \in D : In({}, d) = {} OBVIOUS
      <2>2. \A d \in D : Groups({})[d] = 0 BY <1>2, <2>1, SumEmpty
      <2>3. QED BY <2>2, SumEmpty, SumZero
<1>5. ASSUME NEW U \in P, NEW x \in S \ U PROVE U \cup {x} \in P
      <2> DEFINE V == U \cup {x}
      <2>1. U \in SUBSET S /\ V \in SUBSET S /\ k[x] \in D /\ f[x] \in Int OBVIOUS
      <2>2. \A d \in D \ {k[x]} : In(V, d) = In(U, d) OBVIOUS
      <2>3. In(V, k[x]) = In(U, k[x]) \cup {x} /\ x \notin In(U, k[x]) OBVIOUS
      <2>4. \A y \in In(U, k[x]) : f[y] \in Int OBVIOUS
      <2>5. SumFunctionOnSet(f, V) = f[x] + SumFunctionOnSet(f, U) BY <1>1, <2>1, SumMore
      <2> HIDE DEF V, In
      <2>6. SumFunctionOnSet(f, In(V, k[x])) = f[x] + SumFunctionOnSet(f, In(U, k[x]))
            BY <1>1, <2>1, <2>3, <2>4, SumMore
      <2>7. \A d \in D \ {k[x]} : Groups(U)[d] = Groups(V)[d] BY <1>2, <2>1, <2>2
      <2>8. Groups(V)[k[x]] = f[x] + Groups(U)[k[x]] BY <1>2, <2>1, <2>6
      <2>9. \A d \in D : Groups(U)[d] \in Int /\ Groups(V)[d] \in Int BY <1>2, <2>1
      <2>10. SumFunctionOnSet(Groups(V), D)
               = SumFunctionOnSet(Groups(U), D) + (Groups(V)[k[x]] - Groups(U)[k[x]])
             BY <2>1, <2>7, <2>9, SumChange
      <2>11. SumFunctionOnSet(Groups(U), D) = SumFunctionOnSet(f, U) OBVIOUS
      <2>12. SumFunctionOnSet(f, U) \in Int BY <1>1, <2>1, SumType
      <2>13. Groups(U)[k[x]] \in Int BY <2>1, <2>9
      <2>14. SumFunctionOnSet(Groups(V), D) = SumFunctionOnSet(f, V)
             BY <2>1, <2>5, <2>8, <2>10, <2>11, <2>12, <2>13
      <2>15. QED BY <2>1, <2>14 DEF V
<1>6. P \in SUBSET (SUBSET S) OBVIOUS
<1> HIDE DEF P
<1>7. P = SUBSET S BY <1>4, <1>5, <1>6, Finitely
<1>8. QED BY <1>3, <1>7 DEF P

\* Addends that are zero count for nothing.
LEMMA SumDrop ==
    ASSUME NEW S, IsFiniteSet(S), NEW T \in SUBSET S, NEW f, \A x \in S : f[x] \in Int,
           \A x \in S \ T : f[x] = 0
    PROVE  SumFunctionOnSet(f, S) = SumFunctionOnSet(f, T)
<1> DEFINE R == S \ T
           P == {U \in SUBSET R : SumFunctionOnSet(f, T \cup U) = SumFunctionOnSet(f, T)}
<1>1. IsFiniteSet(R) /\ IsFiniteSet(T) BY FS_Subset
<1>2. {} \in P
      <2>1. T \cup {} = T OBVIOUS
      <2>2. QED BY <2>1
<1>3. ASSUME NEW U \in P, NEW x \in R \ U PROVE U \cup {x} \in P
      <2> DEFINE V == T \cup U
      <2>1. V \in SUBSET S /\ x \notin V /\ f[x] = 0 /\ V \cup {x} = T \cup (U \cup {x}) OBVIOUS
      <2>2. SumFunctionOnSet(f, V) = SumFunctionOnSet(f, T) OBVIOUS
      <2>3. U \cup {x} \in SUBSET R OBVIOUS
      <2>4. IsFiniteSet(V) /\ \A y \in V : f[y] \in Int BY <2>1, FS_Subset
      <2> HIDE DEF V
      <2>5. SumFunctionOnSet(f, V \cup {x}) = f[x] + SumFunctionOnSet(f, V)
            <3>1. f[x] \in Int BY <2>1
            <3>2. QED BY <2>1, <2>4, <3>1, SumMore
      <2>6. SumFunctionOnSet(f, V) \in Int BY <2>4, SumType
      <2>7. SumFunctionOnSet(f, V \cup {x}) = SumFunctionOnSet(f, T) BY <2>1, <2>2, <2>5, <2>6
      <2>8. QED BY <2>1, <2>3, <2>7
<1>4. P \in SUBSET (SUBSET R) OBVIOUS
<1> HIDE DEF P
<1>5. P = SUBSET R BY <1>1, <1>2, <1>3, <1>4, Finitely
<1>6. R \in P BY <1>5
<1>7. T \cup R = S OBVIOUS
<1>8. SumFunctionOnSet(f, T \cup R) = SumFunctionOnSet(f, T) BY <1>6 DEF P
<1> HIDE DEF R
<1>9. QED BY <1>7, <1>8

\* A set adds up to its size when each member counts for one.
LEMMA SumOnes ==
    ASSUME NEW S, IsFiniteSet(S), NEW f, \A x \in S : f[x] = 1
    PROVE  SumFunctionOnSet(f, S) = Cardinality(S)
<1> DEFINE P == {U \in SUBSET S : SumFunctionOnSet(f, U) = Cardinality(U)}
<1>1. {} \in P BY SumEmpty, FS_EmptySet
<1>2. ASSUME NEW U \in P, NEW x \in S \ U PROVE U \cup {x} \in P
      <2>1. IsFiniteSet(U) /\ (\A y \in U : f[y] \in Int) /\ f[x] = 1 BY FS_Subset
      <2>2. SumFunctionOnSet(f, U \cup {x}) = 1 + SumFunctionOnSet(f, U)
            <3>1. f[x] \in Int BY <2>1
            <3>2. SumFunctionOnSet(f, U \cup {x}) = f[x] + SumFunctionOnSet(f, U)
                  BY <1>2, <2>1, <3>1, SumMore
            <3>3. QED BY <2>1, <3>2
      <2>3. Cardinality(U \cup {x}) = Cardinality(U) + 1 BY <1>2, <2>1, FS_AddElement
      <2>4. Cardinality(U) \in Nat BY <2>1, FS_CardinalityType
      <2>5. SumFunctionOnSet(f, U) = Cardinality(U) BY <1>2
      <2>6. SumFunctionOnSet(f, U \cup {x}) = Cardinality(U \cup {x}) BY <2>2, <2>3, <2>4, <2>5
      <2>7. QED BY <1>2, <2>6
<1>3. P \in SUBSET (SUBSET S) OBVIOUS
<1> HIDE DEF P
<1>4. P = SUBSET S BY <1>1, <1>2, <1>3, Finitely
<1>5. S \in P BY <1>4
<1>6. QED BY <1>5 DEF P

\* A multiple of a sum.
LEMMA SumTimes ==
    ASSUME NEW S, IsFiniteSet(S), NEW p \in Int, NEW f, NEW g,
           \A x \in S : f[x] \in Int /\ g[x] = f[x] * p
    PROVE  SumFunctionOnSet(g, S) = SumFunctionOnSet(f, S) * p
<1> DEFINE P == {U \in SUBSET S : SumFunctionOnSet(g, U) = SumFunctionOnSet(f, U) * p}
<1>1. \A x \in S : f[x] \in Int /\ g[x] \in Int /\ g[x] = f[x] * p
      <2>1. \A n \in Int : n * p \in Int OBVIOUS
      <2>2. QED BY <2>1
<1>2. {} \in P
      <2>1. SumFunctionOnSet(g, {}) = 0 /\ SumFunctionOnSet(f, {}) = 0 /\ 0 * p = 0 BY SumEmpty
      <2>2. QED BY <2>1
<1>3. ASSUME NEW U \in P, NEW x \in S \ U PROVE U \cup {x} \in P
      <2>1. IsFiniteSet(U) /\ \A y \in U : f[y] \in Int /\ g[y] \in Int BY <1>1, FS_Subset
      <2>2. f[x] \in Int /\ g[x] \in Int /\ g[x] = f[x] * p BY <1>1
      <2>3. /\ SumFunctionOnSet(g, U \cup {x}) = g[x] + SumFunctionOnSet(g, U)
            /\ SumFunctionOnSet(f, U \cup {x}) = f[x] + SumFunctionOnSet(f, U)
            BY <1>3, <2>1, <2>2, SumMore
      <2>4. SumFunctionOnSet(f, U) \in Int BY <2>1, SumType
      <2>5. SumFunctionOnSet(g, U) = SumFunctionOnSet(f, U) * p BY <1>3
      <2>6. \A n, k \in Int : n * p + k * p = (n + k) * p OBVIOUS
      <2>7. SumFunctionOnSet(g, U \cup {x}) = SumFunctionOnSet(f, U \cup {x}) * p
            BY <2>2, <2>3, <2>4, <2>5, <2>6
      <2>8. QED BY <1>3, <2>7
<1>4. P \in SUBSET (SUBSET S) OBVIOUS
<1> HIDE DEF P
<1>5. P = SUBSET S BY <1>2, <1>3, <1>4, Finitely
<1>6. S \in P BY <1>5
<1>7. QED BY <1>6 DEF P

(***************************************************************************)
(* Filtered sequences.                                                     *)
(***************************************************************************)
FilteredBy(f, s, S) ==
    /\ f[0] = <<>>
    /\ \A i \in 1..Len(s) : f[i] = IF s[i] \in S THEN Append(f[i - 1], s[i]) ELSE f[i - 1]

LEMMA AmongIs ==
    ASSUME NEW A, NEW s \in Seq(A), NEW S
    PROVE  \E f \in [0..Len(s) -> Seq(A)] : FilteredBy(f, s, S) /\ Among(s, S) = f[Len(s)]
<1> DEFINE Kept(f) == f = [i \in 0..Len(s) |-> IF i = 0 THEN <<>>
                                               ELSE IF s[i] \in S THEN Append(f[i - 1], s[i])
                                               ELSE f[i - 1]]
           n == Len(s)
           G == [i \in 1..n |-> [t \in Seq(A) |-> IF s[i] \in S THEN Append(t, s[i]) ELSE t]]
<1>1. n \in Nat /\ \A i \in 1..n : s[i] \in A BY LenProperties, ElementOfSeq
<1>2. G \in [1..n -> [Seq(A) -> Seq(A)]]
      <2>1. \A i \in 1..n, t \in Seq(A) : Append(t, s[i]) \in Seq(A) BY <1>1, AppendProperties
      <2>2. QED BY <2>1
<1>3. <<>> \in Seq(A) BY EmptySeq
<1> HIDE DEF G
<1>4. PICK f \in [0..n -> Seq(A)] : f[0] = <<>> /\ \A i \in 1..n : f[i] = G[i][f[i - 1]]
      <2> DEFINE V == Seq(A)
                 b == <<>>
      <2>1. n \in Nat /\ b \in V /\ G \in [1..n -> [V -> V]] BY <1>1, <1>2, <1>3
      <2> HIDE DEF V, b, n
      <2>2. Maps(G, n, V) BY <2>1 DEF Maps
      <2>3. PICK f : Runs(f, n, V, b, G) BY <2>1, <2>2, Running, Zenon
      <2>4. QED BY <2>3 DEF Runs, V, b
<1>5. FilteredBy(f, s, S)
      <2>1. \A i \in 1..n : f[i - 1] \in Seq(A) BY <1>1
      <2>2. QED BY <1>4, <2>1 DEF FilteredBy, G
<1>6. Kept(f)
      <2>1. \A i \in 0..n : f[i] = IF i = 0 THEN <<>> ELSE IF s[i] \in S
                                   THEN Append(f[i - 1], s[i]) ELSE f[i - 1]
            <3>1. TAKE i \in 0..n
            <3>2. CASE i = 0 BY <1>5, <3>2 DEF FilteredBy
            <3>3. CASE i # 0
                  <4>1. i \in 1..n BY <1>1, <3>3
                  <4>2. QED BY <1>5, <3>3, <4>1 DEF FilteredBy
            <3>4. QED BY <3>2, <3>3
      <2>2. f = [i \in 0..n |-> f[i]] OBVIOUS
      <2>3. QED BY <2>1, <2>2
<1>7. Kept(CHOOSE g : Kept(g)) BY <1>6
<1>8. Among(s, S) = (CHOOSE g : Kept(g))[n] BY DEF Among
<1> DEFINE c == CHOOSE g : Kept(g)
<1>9. Kept(c) /\ Among(s, S) = c[n] BY <1>7, <1>8
<1> HIDE DEF c
<1>10. FilteredBy(c, s, S)
      <2>1. \A i \in 0..n : c[i] = IF i = 0 THEN <<>> ELSE IF s[i] \in S
                                   THEN Append(c[i - 1], s[i]) ELSE c[i - 1]
            BY <1>9
      <2>2. 0 \in 0..n /\ \A i \in 1..n : i \in 0..n /\ i # 0 BY <1>1
      <2> HIDE DEF n
      <2>3. c[0] = <<>> BY <2>1, <2>2
      <2>4. \A i \in 1..n : c[i] = IF s[i] \in S THEN Append(c[i - 1], s[i]) ELSE c[i - 1]
            BY <2>1, <2>2
      <2>5. QED BY <2>3, <2>4 DEF FilteredBy, n
<1>11. c \in [0..n -> Seq(A)]
      <2>1. \A i \in 0..n : c[i] = f[i]
            <3> DEFINE P == {k \in Nat : k <= n => c[k] = f[k]}
            <3>1. 0 \in P BY <1>5, <1>10 DEF FilteredBy
            <3>2. ASSUME NEW k \in P PROVE k + 1 \in P
                  <4>1. ASSUME k + 1 <= n PROVE c[k + 1] = f[k + 1]
                        <5>1. k + 1 \in 1..n /\ c[k] = f[k] /\ (k + 1) - 1 = k BY <1>1, <4>1
                        <5>2. QED BY <1>5, <1>10, <5>1 DEF FilteredBy
                  <4>2. k + 1 \in Nat OBVIOUS
                  <4>3. QED BY <4>1, <4>2
            <3>3. P \in SUBSET Nat OBVIOUS
            <3> HIDE DEF P
            <3>4. P = Nat BY <3>1, <3>2, <3>3, Naturally
            <3>5. QED BY <1>1, <3>4 DEF P
      <2>2. c = [i \in 0..n |-> c[i]] BY <1>9
      <2>3. QED BY <2>1, <2>2
<1>12. QED BY <1>9, <1>10, <1>11

LEMMA AmongType ==
    ASSUME NEW A, NEW s \in Seq(A), NEW S PROVE Among(s, S) \in Seq(A)
<1>1. PICK f \in [0..Len(s) -> Seq(A)] : Among(s, S) = f[Len(s)] BY AmongIs
<1>2. QED BY <1>1, LenProperties

LEMMA AmongEmpty == ASSUME NEW S PROVE Among(<<>>, S) = <<>>
<1>1. <<>> \in Seq({}) /\ Len(<<>>) = 0 BY EmptySeq
<1>2. PICK f : FilteredBy(f, <<>>, S) /\ Among(<<>>, S) = f[Len(<<>>)] BY <1>1, AmongIs
<1>3. QED BY <1>1, <1>2 DEF FilteredBy

LEMMA AmongAppend ==
    ASSUME NEW A, NEW s \in Seq(A), NEW x \in A, NEW S
    PROVE  Among(Append(s, x), S) = IF x \in S THEN Append(Among(s, S), x) ELSE Among(s, S)
<1> DEFINE t == Append(s, x)
           n == Len(s)
<1>1. /\ t \in Seq(A) /\ Len(t) = n + 1 /\ n \in Nat /\ t[n + 1] = x
      /\ \A i \in 1..n : t[i] = s[i]
      BY AppendProperties, LenProperties
<1> HIDE DEF t
<1>2. PICK f : FilteredBy(f, s, S) /\ Among(s, S) = f[n] BY AmongIs
<1>3. PICK g : FilteredBy(g, t, S) /\ Among(t, S) = g[n + 1] BY <1>1, AmongIs
<1>4. f[n] = g[n]
      <2> DEFINE P == {k \in Nat : k <= n => f[k] = g[k]}
      <2>1. 0 \in P BY <1>2, <1>3 DEF FilteredBy
      <2>2. ASSUME NEW k \in P PROVE k + 1 \in P
            <3>1. ASSUME k + 1 <= n PROVE f[k + 1] = g[k + 1]
                  <4>1. /\ k + 1 \in 1..n /\ k + 1 \in 1..n + 1 /\ f[k] = g[k]
                        /\ (k + 1) - 1 = k
                        BY <1>1, <3>1
                  <4>2. s[k + 1] = t[k + 1] BY <1>1, <4>1
                  <4>3. QED BY <1>1, <1>2, <1>3, <4>1, <4>2 DEF FilteredBy
            <3>2. k + 1 \in Nat OBVIOUS
            <3>3. QED BY <3>1, <3>2
      <2>3. P \in SUBSET Nat OBVIOUS
      <2> HIDE DEF P
      <2>4. P = Nat BY <2>1, <2>2, <2>3, Naturally
      <2>5. QED BY <1>1, <2>4 DEF P
<1>5. g[n + 1] = IF t[n + 1] \in S THEN Append(g[n], t[n + 1]) ELSE g[n]
      <2>1. n + 1 \in 1..Len(t) /\ (n + 1) - 1 = n BY <1>1
      <2>2. QED BY <1>3, <2>1 DEF FilteredBy
<1>6. QED BY <1>1, <1>2, <1>3, <1>4, <1>5 DEF t

LEMMA AmongShorter ==
    ASSUME NEW A, NEW s \in Seq(A), NEW S PROVE Len(Among(s, S)) <= Len(s)
<1> DEFINE P == {t \in Seq(A) : Len(Among(t, S)) <= Len(t)}
<1>1. <<>> \in P
      <2>1. <<>> \in Seq(A) /\ Len(<<>>) = 0 BY EmptySeq
      <2>2. QED BY <2>1, AmongEmpty
<1>2. ASSUME NEW t \in P, NEW x \in A PROVE Append(t, x) \in P
      <2>1. /\ Among(t, S) \in Seq(A) /\ Append(t, x) \in Seq(A)
            /\ Len(Append(t, x)) = Len(t) + 1 /\ Len(t) \in Nat /\ Len(Among(t, S)) \in Nat
            BY AmongType, AppendProperties, LenProperties
      <2>2. Len(Append(Among(t, S), x)) = Len(Among(t, S)) + 1 BY <2>1, AppendProperties
      <2>3. CASE x \in S BY <2>1, <2>2, <2>3, AmongAppend
      <2>4. CASE x \notin S BY <2>1, <2>4, AmongAppend
      <2>5. QED BY <2>3, <2>4
<1>3. P \in SUBSET Seq(A) OBVIOUS
<1> HIDE DEF P
<1>4. P = Seq(A) BY <1>1, <1>2, <1>3, Sequentially
<1>5. QED BY <1>4 DEF P

\* Of two filters in a row the second decides when it lets through less.
LEMMA AmongTwice ==
    ASSUME NEW A, NEW s \in Seq(A), NEW S, NEW T, A \cap S \subseteq T
    PROVE  Among(Among(s, T), S) = Among(s, S)
<1> DEFINE P == {t \in Seq(A) : Among(Among(t, T), S) = Among(t, S)}
<1>1. <<>> \in P BY AmongEmpty, EmptySeq
<1>2. ASSUME NEW t \in P, NEW x \in A PROVE Append(t, x) \in P
      <2>1. Append(t, x) \in Seq(A) /\ Among(t, T) \in Seq(A) BY AmongType, AppendProperties
      <2>2. CASE x \in T
            <3> DEFINE u == Among(t, T)
            <3>1. Among(Append(t, x), T) = Append(u, x) BY <2>2, AmongAppend
            <3>2. /\ u \in Seq(A) /\ t \in Seq(A) /\ x \in A
                  /\ Among(u, S) = Among(t, S)
                  BY <2>1
            <3> HIDE DEF u, P
            <3>3. Among(Append(u, x), S) = IF x \in S THEN Append(Among(u, S), x) ELSE Among(u, S)
                  BY <3>2, AmongAppend
            <3>4. Among(Append(t, x), S) = IF x \in S THEN Append(Among(t, S), x) ELSE Among(t, S)
                  BY <3>2, AmongAppend
            <3>5. QED BY <2>1, <3>1, <3>2, <3>3, <3>4 DEF P
      <2>3. CASE x \notin T
            <3>1. Among(Append(t, x), T) = Among(t, T) /\ x \notin S BY <2>3, AmongAppend
            <3>2. QED BY <2>1, <3>1, AmongAppend
      <2>4. QED BY <2>2, <2>3
<1>3. P \in SUBSET Seq(A) OBVIOUS
<1> HIDE DEF P
<1>4. P = Seq(A) BY <1>1, <1>2, <1>3, Sequentially
<1>5. QED BY <1>4 DEF P
LEMMA AmongNone ==
    ASSUME NEW A, NEW s \in Seq(A), NEW S, \A i \in DOMAIN s : s[i] \notin S
    PROVE  Among(s, S) = <<>>
<1>1. PICK f : FilteredBy(f, s, S) /\ Among(s, S) = f[Len(s)] BY AmongIs
<1>2. Len(s) \in Nat /\ DOMAIN s = 1..Len(s) BY LenProperties
<1> DEFINE n == Len(s)
           P == {k \in Nat : k <= n => f[k] = <<>>}
<1>3. 0 \in P BY <1>1 DEF FilteredBy
<1>4. ASSUME NEW k \in P PROVE k + 1 \in P
      <2>1. ASSUME k + 1 <= n PROVE f[k + 1] = <<>>
            <3>1. k + 1 \in 1..n /\ f[k] = <<>> /\ (k + 1) - 1 = k BY <1>2, <2>1
            <3>2. QED BY <1>1, <1>2, <3>1 DEF FilteredBy
      <2>2. k + 1 \in Nat OBVIOUS
      <2>3. QED BY <2>1, <2>2
<1>5. P \in SUBSET Nat OBVIOUS
<1> HIDE DEF P
<1>6. P = Nat BY <1>3, <1>4, <1>5, Naturally
<1>7. QED BY <1>1, <1>2, <1>6 DEF P


\* What a sequence is with one more element.
More(o, e, v, n) ==
    /\ n \in Nat /\ Len(o) = n /\ DOMAIN o = 1..n /\ Len(v) = n + 1 /\ DOMAIN v = 1..n + 1
    /\ v[n + 1] = e /\ \A i \in 1..n : v[i] = o[i]

LEMMA MoreIs ==
    ASSUME NEW S, NEW o \in Seq(S), NEW e \in S
    PROVE  Append(o, e) \in Seq(S) /\ More(o, e, Append(o, e), Len(o))
BY AppendProperties, LenProperties DEF More

LEMMA MoreSet ==
    ASSUME NEW o, NEW e, NEW v, NEW n, More(o, e, v, n)
    PROVE  ToSet(v) = ToSet(o) \cup {e}
<1>1. \A i \in 1..n + 1 : i = n + 1 \/ i \in 1..n BY DEF More
<1>2. n + 1 \in 1..n + 1 /\ \A i \in 1..n : i \in 1..n + 1 BY DEF More
<1>3. QED BY <1>1, <1>2 DEF More, ToSet

Distinct(s) == \A i, j \in DOMAIN s : i # j => s[i] # s[j]

LEMMA MoreDistinct ==
    ASSUME NEW o, NEW e, NEW v, NEW n, More(o, e, v, n)
    PROVE  Distinct(v) <=> Distinct(o) /\ e \notin ToSet(o)
<1>1. \A i \in 1..n + 1 : i = n + 1 \/ i \in 1..n BY DEF More
<1>2. n + 1 \in 1..n + 1 /\ (\A i \in 1..n : i \in 1..n + 1) /\ n + 1 \notin 1..n BY DEF More
<1>3. QED BY <1>1, <1>2 DEF More, ToSet, Distinct

LEMMA AmongSet ==
    ASSUME NEW A, NEW s \in Seq(A), NEW S PROVE ToSet(Among(s, S)) = ToSet(s) \cap S
<1> DEFINE P == {t \in Seq(A) : ToSet(Among(t, S)) = ToSet(t) \cap S}
<1>1. <<>> \in P
      <2>1. <<>> \in Seq(A) /\ DOMAIN <<>> = {} BY EmptySeq
      <2>2. ToSet(<<>>) = {} BY <2>1 DEF ToSet
      <2>3. QED BY <2>1, <2>2, AmongEmpty
<1>2. ASSUME NEW t \in P, NEW x \in A PROVE Append(t, x) \in P
      <2>1. t \in Seq(A) /\ Append(t, x) \in Seq(A) /\ ToSet(Append(t, x)) = ToSet(t) \cup {x}
            BY MoreIs, MoreSet
      <2>2. CASE x \in S
            <3>1. Among(Append(t, x), S) = Append(Among(t, S), x) BY <2>1, <2>2, AmongAppend
            <3>2. Among(t, S) \in Seq(A) BY <2>1, AmongType
            <3>3. ToSet(Append(Among(t, S), x)) = ToSet(Among(t, S)) \cup {x} BY <3>2, MoreIs, MoreSet
            <3>4. QED BY <2>1, <2>2, <3>1, <3>3
      <2>3. CASE x \notin S
            <3>1. Among(Append(t, x), S) = Among(t, S) BY <2>1, <2>3, AmongAppend
            <3>2. QED BY <2>1, <2>3, <3>1
      <2>4. QED BY <2>2, <2>3
<1>3. P \in SUBSET Seq(A) OBVIOUS
<1> HIDE DEF P
<1>4. P = Seq(A) BY <1>1, <1>2, <1>3, Sequentially
<1>5. QED BY <1>4 DEF P

LEMMA AmongDistinct ==
    ASSUME NEW A, NEW s \in Seq(A), NEW S, Distinct(s) PROVE Distinct(Among(s, S))
<1> DEFINE P == {t \in Seq(A) : Distinct(t) => Distinct(Among(t, S))}
<1>1. <<>> \in P
      <2>1. <<>> \in Seq(A) /\ DOMAIN <<>> = {} BY EmptySeq
      <2>2. Distinct(<<>>) BY <2>1 DEF Distinct
      <2>3. QED BY <2>1, <2>2, AmongEmpty
<1>2. ASSUME NEW t \in P, NEW x \in A PROVE Append(t, x) \in P
      <2>1. /\ t \in Seq(A) /\ Append(t, x) \in Seq(A)
            /\ Distinct(Append(t, x)) <=> Distinct(t) /\ x \notin ToSet(t)
            BY MoreIs, MoreDistinct
      <2>2. CASE x \in S
            <3>1. Among(Append(t, x), S) = Append(Among(t, S), x) BY <2>1, <2>2, AmongAppend
            <3>2. Among(t, S) \in Seq(A) BY <2>1, AmongType
            <3>3. Distinct(Append(Among(t, S), x)) <=> Distinct(Among(t, S)) /\ x \notin ToSet(Among(t, S))
                  BY <3>2, MoreIs, MoreDistinct
            <3>4. ToSet(Among(t, S)) = ToSet(t) \cap S BY <2>1, AmongSet
            <3>5. QED BY <2>1, <2>2, <3>1, <3>3, <3>4
      <2>3. CASE x \notin S
            <3>1. Among(Append(t, x), S) = Among(t, S) BY <2>1, <2>3, AmongAppend
            <3>2. QED BY <2>1, <3>1
      <2>4. QED BY <2>2, <2>3
<1>3. P \in SUBSET Seq(A) OBVIOUS
<1> HIDE DEF P
<1>4. P = Seq(A) BY <1>1, <1>2, <1>3, Sequentially
<1>5. QED BY <1>4 DEF P

(***************************************************************************)
(* Sequences one after the other, and functions of positions.  As an       *)
(* operator of its own, a concatenation can stand in a lemma that is cited.*)
(***************************************************************************)
Cat(a, b) == a \o b

LEMMA CatOf ==
    ASSUME NEW S, NEW a \in Seq(S), NEW b \in Seq(S)
    PROVE  Cat(a, b) \in Seq(S) /\ Cat(a, <<>>) = a /\ Cat(<<>>, a) = a
BY ConcatProperties, ConcatEmptySeq DEF Cat

LEMMA CatTwice ==
    ASSUME NEW S, NEW a \in Seq(S), NEW b \in Seq(S), NEW c \in Seq(S)
    PROVE  Cat(a, Cat(b, c)) = Cat(Cat(a, b), c)
BY ConcatAssociative DEF Cat

LEMMA PairIs ==
    ASSUME NEW a, NEW b, NEW y, NEW z PROVE <<y>> \o <<z>> = <<a, b>> <=> y = a /\ z = b
<1> DEFINE S == {y, z, a, b}
           w == <<y>> \o <<z>>
           v == <<a, b>>
<1>1. <<y>> \in Seq(S) /\ <<z>> \in Seq(S) /\ Len(<<y>>) = 1 /\ Len(<<z>>) = 1
      /\ <<y>>[1] = y /\ <<z>>[1] = z /\ 2 - 1 = 1
      OBVIOUS
<1>2. v \in Seq(S) /\ Len(v) = 2 /\ v[1] = a /\ v[2] = b OBVIOUS
<1>3. w \in Seq(S) /\ Len(w) = 2 /\ w[1] = y /\ w[2] = z
      <2> HIDE DEF S
      <2>1. /\ w \in Seq(S) /\ Len(w) = Len(<<y>>) + Len(<<z>>)
            /\ \A i \in 1..Len(<<y>>) + Len(<<z>>) :
                  w[i] = IF i <= Len(<<y>>) THEN <<y>>[i] ELSE <<z>>[i - Len(<<y>>)]
            BY <1>1, ConcatProperties
      <2>2. QED BY <1>1, <2>1
<1> HIDE DEF S, w, v
<1>4. ASSUME y = a, z = b PROVE w = v
      <2>1. \A i \in 1..Len(w) : w[i] = v[i] BY <1>2, <1>3, <1>4
      <2>2. QED BY <1>2, <1>3, <2>1, SeqEqual
<1>5. w = v <=> y = a /\ z = b BY <1>2, <1>3, <1>4
<1>6. QED BY <1>5 DEF w, v

LEMMA TwoSingles == ASSUME NEW y, NEW z PROVE <<y>> \o <<z>> = <<y, z>>
BY PairIs

\* A function that ends at some places and jumps on from the others.
JumpsOn(f, n, D, J, a) == f = [i \in 1..n |-> IF i \in D THEN a[i] \o f[J[i]] ELSE a[i]]
Beyond(J, D, n) == J \in [D -> Nat] /\ \A i \in D : J[i] \in i + 1..n

LEMMA Jumping ==
    ASSUME NEW n \in Nat, NEW D, NEW J, Beyond(J, D, n), NEW a
    PROVE  \E f : JumpsOn(f, n, D, J, a)
<1>0. J \in [D -> Nat] /\ \A i \in D : J[i] \in i + 1..n BY DEF Beyond
<1> DEFINE Jumps(g, k) == g = [i \in n + 1 - k..n |-> IF i \in D THEN a[i] \o g[J[i]] ELSE a[i]]
           P == {k \in Nat : k <= n => \E g : Jumps(g, k)}
<1>1. 0 \in P
      <2>1. n + 1 - 0..n = {} OBVIOUS
      <2>2. Jumps([i \in {} |-> 0], 0) BY <2>1
      <2>3. QED BY <2>2
<1>2. ASSUME NEW k \in P PROVE k + 1 \in P
      <2>1. ASSUME k + 1 <= n PROVE \E g : Jumps(g, k + 1)
            <3>1. k \in Nat /\ k <= n BY <2>1
            <3>2. PICK h : Jumps(h, k) BY <3>1
            <3> DEFINE p == n - k
                       New == IF p \in D THEN a[p] \o h[J[p]] ELSE a[p]
                       g == [i \in p..n |-> IF i = p THEN New ELSE h[i]]
            <3>3. /\ p \in Nat /\ n + 1 - (k + 1) = p /\ n + 1 - k = p + 1
                  /\ \A i \in p..n : i # p => i \in p + 1..n
                  BY <3>1
            <3>4. ASSUME NEW i \in p..n PROVE g[i] = IF i \in D THEN a[i] \o g[J[i]] ELSE a[i]
                  <4>1. i \in D => J[i] \in p + 1..n BY <1>0, <3>3
                  <4>2. i \in D => g[J[i]] = h[J[i]] BY <3>3, <4>1
                  <4>3. CASE i = p BY <4>2, <4>3
                  <4>4. CASE i # p
                        <5>1. i \in p + 1..n BY <3>3, <4>4
                        <5>2. h[i] = IF i \in D THEN a[i] \o h[J[i]] ELSE a[i]
                              BY <3>2, <3>3, <5>1
                        <5>3. QED BY <4>2, <4>4, <5>2
                  <4>5. QED BY <4>3, <4>4
            <3>5. g = [i \in p..n |-> g[i]] OBVIOUS
            <3> HIDE DEF g, p
            <3>6. g = [i \in p..n |-> IF i \in D THEN a[i] \o g[J[i]] ELSE a[i]]
                  BY <3>4, <3>5
            <3>7. Jumps(g, k + 1) BY <3>3, <3>6
            <3>8. QED BY <3>7
      <2>2. k + 1 \in Nat OBVIOUS
      <2>3. QED BY <2>1, <2>2
<1>3. n \in P
      <2>1. P \in SUBSET Nat OBVIOUS
      <2> HIDE DEF P
      <2>2. P = Nat BY <1>1, <1>2, <2>1, Naturally
      <2>3. QED BY <2>2
<1>4. PICK g : Jumps(g, n)
      <2>1. n <= n OBVIOUS
      <2> HIDE DEF Jumps
      <2>2. QED BY <1>3, <2>1
<1>5. n + 1 - n = 1 OBVIOUS
<1>6. g = [i \in 1..n |-> IF i \in D THEN a[i] \o g[J[i]] ELSE a[i]] BY <1>4, <1>5
<1>7. QED BY <1>6 DEF JumpsOn


\* Two functions of positions that are alike as long as they were.
LEMMA AlikeSoFar ==
    ASSUME NEW n \in Nat, NEW f, NEW g, f[0] = g[0],
           \A k \in 0..n - 1 : f[k] = g[k] => f[k + 1] = g[k + 1]
    PROVE  \A k \in 0..n : f[k] = g[k]
<1> DEFINE P == {k \in Nat : k <= n => f[k] = g[k]}
<1>1. 0 \in P OBVIOUS
<1>2. ASSUME NEW k \in P PROVE k + 1 \in P
      <2>1. k + 1 \in Nat /\ (k + 1 <= n => k \in 0..n - 1 /\ f[k] = g[k]) OBVIOUS
      <2>2. QED BY <2>1
<1>3. P \in SUBSET Nat OBVIOUS
<1> HIDE DEF P
<1>4. P = Nat BY <1>1, <1>2, <1>3, Naturally
<1>5. QED BY <1>4 DEF P

JoinedBy(f, ss) ==
    /\ f[0] = <<>>
    /\ \A i \in 1..Len(ss) : f[i] = Cat(f[i - 1], ss[i])

Joinable(B) == <<>> \in B /\ \A s, t \in B : Cat(s, t) \in B

LEMMA SequencesJoin == ASSUME NEW A PROVE Joinable(Seq(A))
BY EmptySeq, ConcatProperties DEF Joinable, Cat

LEMMA JoinedIs ==
    ASSUME NEW B, Joinable(B), NEW ss \in Seq(B)
    PROVE  \E f \in [0..Len(ss) -> B] : JoinedBy(f, ss) /\ Joined(ss) = f[Len(ss)]
<1> DEFINE n == Len(ss)
           Kept(f) == f = [i \in 0..n |-> IF i = 0 THEN <<>> ELSE Cat(f[i - 1], ss[i])]
           G == [i \in 1..n |-> [t \in B |-> Cat(t, ss[i])]]
<1>1. n \in Nat /\ \A i \in 1..n : ss[i] \in B BY LenProperties, ElementOfSeq
<1>2. G \in [1..n -> [B -> B]] /\ <<>> \in B BY <1>1 DEF Joinable
<1> HIDE DEF G
<1>4. PICK f \in [0..n -> B] : f[0] = <<>> /\ \A i \in 1..n : f[i] = G[i][f[i - 1]]
      <2>1. n \in Nat /\ Maps(G, n, B) BY <1>1, <1>2 DEF Maps
      <2>2. \E f : Runs(f, n, B, <<>>, G) BY <1>2, <2>1, Running
      <2>3. QED BY <2>2 DEF Runs
<1>5. JoinedBy(f, ss)
      <2>1. \A i \in 1..n : f[i - 1] \in B BY <1>1
      <2>2. QED BY <1>4, <2>1 DEF JoinedBy, G
<1>6. Kept(f)
      <2>1. \A i \in 0..n : f[i] = IF i = 0 THEN <<>> ELSE Cat(f[i - 1], ss[i])
            BY <1>1, <1>5 DEF JoinedBy
      <2>2. f = [i \in 0..n |-> f[i]] OBVIOUS
      <2>3. QED BY <2>1, <2>2
<1> DEFINE c == CHOOSE g : Kept(g)
<1>7. Kept(c) BY <1>6
<1>8. Joined(ss) = c[n] BY DEF Joined, Cat
<1> HIDE DEF c
<1>9. JoinedBy(c, ss)
      <2>1. \A i \in 0..n : c[i] = IF i = 0 THEN <<>> ELSE Cat(c[i - 1], ss[i]) BY <1>7
      <2>2. 0 \in 0..n /\ \A i \in 1..n : i \in 0..n /\ i # 0 BY <1>1
      <2>3. QED BY <2>1, <2>2 DEF JoinedBy
<1>10. \A i \in 0..n : c[i] = f[i]
       <2>1. ASSUME NEW k \in 0..n - 1, c[k] = f[k] PROVE c[k + 1] = f[k + 1]
             <3>1. k + 1 \in 1..n /\ (k + 1) - 1 = k BY <1>1
             <3>2. QED BY <1>5, <1>9, <2>1, <3>1 DEF JoinedBy
       <2>2. c[0] = f[0] BY <1>5, <1>9 DEF JoinedBy
       <2>3. QED BY <1>1, <2>1, <2>2, AlikeSoFar
<1>11. c \in [0..n -> B]
       <2>1. c = [i \in 0..n |-> c[i]] BY <1>7
       <2>2. QED BY <1>10, <2>1
<1>12. QED BY <1>8, <1>9, <1>11

LEMMA JoinedType == ASSUME NEW B, Joinable(B), NEW ss \in Seq(B) PROVE Joined(ss) \in B
<1>1. PICK f \in [0..Len(ss) -> B] : Joined(ss) = f[Len(ss)] BY JoinedIs
<1>2. QED BY <1>1, LenProperties

LEMMA JoinedEmpty == Joined(<<>>) = <<>>
<1>1. <<>> \in Seq(Seq({})) /\ Len(<<>>) = 0 /\ Joinable(Seq({})) BY EmptySeq, SequencesJoin
<1>2. PICK f : JoinedBy(f, <<>>) /\ Joined(<<>>) = f[Len(<<>>)] BY <1>1, JoinedIs
<1>3. QED BY <1>1, <1>2 DEF JoinedBy

LEMMA JoinedAppend ==
    ASSUME NEW B, Joinable(B), NEW ss \in Seq(B), NEW x \in B
    PROVE  Joined(Append(ss, x)) = Cat(Joined(ss), x)
<1> DEFINE t == Append(ss, x)
           n == Len(ss)
<1>1. /\ t \in Seq(B) /\ Len(t) = n + 1 /\ n \in Nat /\ t[n + 1] = x
      /\ \A i \in 1..n : t[i] = ss[i]
      BY AppendProperties, LenProperties
<1> HIDE DEF t
<1>2. PICK f : JoinedBy(f, ss) /\ Joined(ss) = f[n] BY JoinedIs
<1>3. PICK g : JoinedBy(g, t) /\ Joined(t) = g[n + 1] BY <1>1, JoinedIs
<1>4. \A k \in 0..n : f[k] = g[k]
      <2>1. ASSUME NEW k \in 0..n - 1, f[k] = g[k] PROVE f[k + 1] = g[k + 1]
            <3>1. k + 1 \in 1..n /\ k + 1 \in 1..n + 1 /\ (k + 1) - 1 = k BY <1>1
            <3>2. ss[k + 1] = t[k + 1] BY <1>1, <3>1
            <3>3. QED BY <1>1, <1>2, <1>3, <2>1, <3>1, <3>2 DEF JoinedBy
      <2>2. f[0] = g[0] BY <1>2, <1>3 DEF JoinedBy
      <2> HIDE DEF n
      <2>3. n \in Nat BY <1>1
      <2>4. \A k \in 0..n - 1 : f[k] = g[k] => f[k + 1] = g[k + 1] BY <2>1
      <2>5. QED BY <2>2, <2>3, <2>4, AlikeSoFar
<1>5. g[n + 1] = Cat(g[n], t[n + 1])
      <2>1. n + 1 \in 1..Len(t) /\ (n + 1) - 1 = n BY <1>1
      <2>2. QED BY <1>3, <2>1 DEF JoinedBy
<1>6. f[n] = g[n]
      <2>1. n \in 0..n BY <1>1
      <2>2. QED BY <1>4, <2>1
<1>7. QED BY <1>1, <1>2, <1>3, <1>5, <1>6 DEF t
=============================================================================
