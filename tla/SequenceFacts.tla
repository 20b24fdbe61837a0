---------------------------- MODULE SequenceFacts ----------------------------
(***************************************************************************)
(* What the proofs about the portal need of natural numbers and sequences: *)
(* induction, from the well-foundedness of the natural numbers, and by it  *)
(* what FlattenSeq and IsSuffix of SequencesExt compute.                   *)
(***************************************************************************)
EXTENDS SequencesExt, FiniteSetTheorems, SequenceTheorems, TLAPS

\* Of some natural numbers one is the least.
LEMMA LeastNumber ==
    ASSUME NEW T, T \subseteq Nat, T # {}
    PROVE  \E n \in T : \A m \in T : n <= m
<1> DEFINE R == OpToRel(<, Nat)
<1>1. IsWellFoundedOn(R, Nat)
  BY NatLessThanWellFounded
<1>2. \A m, n \in Nat : <<m, n>> \in R <=> m < n
  BY DEF OpToRel
<1> HIDE DEF R
<1>3. PICK n \in T : \A m \in T : <<m, n>> \notin R
  BY <1>1, WFMin
<1>4. \A m \in T : m \in Nat /\ n \in Nat /\ ~(m < n)
  BY <1>2, <1>3
<1> QED
  BY <1>4

\* What holds of 0, and of n + 1 when it holds of n, holds of every number.
LEMMA InductionOnSets ==
    ASSUME NEW T, 0 \in T, \A n \in Nat : n \in T => n + 1 \in T
    PROVE  Nat \subseteq T
<1> SUFFICES ASSUME Nat \ T # {} PROVE FALSE
  OBVIOUS
<1>1. PICK n \in Nat \ T : \A m \in Nat \ T : n <= m
  BY LeastNumber
<1>2. n # 0 /\ n - 1 \in Nat
  BY <1>1
<1>3. n - 1 \in T
  BY <1>1, <1>2
<1> QED
  BY <1>1, <1>2, <1>3

\* A sequence of one element.
LEMMA SingletonSeq ==
    ASSUME NEW S, NEW e \in S
    PROVE  <<e>> \in Seq(S) /\ Len(<<e>>) = 1 /\ <<e>>[1] = e
OBVIOUS

-----------------------------------------------------------------------------
(* FlattenSeq.                                                             *)

\* f holds the beginnings of the flattened sequence.
Flattens(f, s, n) == f = [i \in 1..n |-> IF i = 1 THEN s[i] ELSE f[i - 1] \o s[i]]

\* There is such an f, for as many elements as one likes.
LEMMA FlatteningExists ==
    ASSUME NEW s
    PROVE  \A n \in Nat : \E f : Flattens(f, s, n)
<1> DEFINE T == {n \in Nat : \E f : Flattens(f, s, n)}
<1>1. 0 \in T
  <2>1. Flattens([i \in 1..0 |-> s], s, 0)
    BY DEF Flattens
  <2> QED
    BY <2>1
<1>2. ASSUME NEW n \in Nat, n \in T PROVE n + 1 \in T
  <2>1. PICK f : Flattens(f, s, n)
    BY <1>2
  <2> DEFINE g == [i \in 1..(n + 1) |-> IF i = n + 1 THEN (IF i = 1 THEN s[i] ELSE f[i - 1] \o s[i]) ELSE f[i]]
  <2>2. ASSUME NEW i \in 1..(n + 1) PROVE g[i] = IF i = 1 THEN s[i] ELSE g[i - 1] \o s[i]
    <3>1. CASE i = n + 1 /\ i # 1
      <4>1. i - 1 \in 1..(n + 1) /\ i - 1 # n + 1
        BY <3>1
      <4>2. g[i - 1] = f[i - 1] /\ g[i] = f[i - 1] \o s[i]
        BY <3>1, <4>1
      <4> QED
        BY <3>1, <4>2
    <3>2. CASE i # n + 1 /\ i # 1
      <4>1. i \in 1..n /\ i - 1 \in 1..(n + 1) /\ i - 1 # n + 1
        BY <3>2
      <4>2. g[i - 1] = f[i - 1] /\ g[i] = f[i]
        BY <3>2, <4>1
      <4>3. f[i] = f[i - 1] \o s[i]
        BY <2>1, <3>2, <4>1 DEF Flattens
      <4> QED
        BY <3>2, <4>2, <4>3
    <3>3. CASE i = 1
      <4>1. CASE n = 0
        BY <3>3, <4>1
      <4>2. CASE n # 0
        BY <2>1, <3>3, <4>2 DEF Flattens
      <4> QED
        BY <4>1, <4>2
    <3> QED
      BY <3>1, <3>2, <3>3
  <2>3. g = [i \in 1..(n + 1) |-> IF i = 1 THEN s[i] ELSE g[i - 1] \o s[i]]
    <3> DEFINE h == [i \in 1..(n + 1) |-> g[i]]
    <3>1. g = h
      OBVIOUS
    <3> HIDE DEF g
    <3>2. h = [i \in 1..(n + 1) |-> IF i = 1 THEN s[i] ELSE g[i - 1] \o s[i]]
      BY <2>2
    <3> QED
      BY <3>1, <3>2
  <2> HIDE DEF g
  <2>4. Flattens(g, s, n + 1)
    BY <2>3 DEF Flattens
  <2> QED
    BY <2>4
<1>3. Nat \subseteq T
  <2> HIDE DEF T
  <2> QED
    BY <1>1, <1>2, InductionOnSets
<1> QED
  BY <1>3

\* And only one, which depends on nothing but these elements.
LEMMA FlatteningUnique ==
    ASSUME NEW s, NEW t, NEW f, NEW g, NEW m \in Nat, NEW n \in Nat, m <= n,
           Flattens(f, s, m), Flattens(g, t, n), \A i \in 1..m : s[i] = t[i]
    PROVE  \A i \in 1..m : f[i] = g[i]
<1> DEFINE T == {i \in Nat : i \in 1..m => f[i] = g[i]}
<1>1. 0 \in T
  OBVIOUS
<1>2. ASSUME NEW i \in Nat, i \in T PROVE i + 1 \in T
  <2> SUFFICES ASSUME i + 1 \in 1..m PROVE f[i + 1] = g[i + 1]
    OBVIOUS
  <2>0. i + 1 \in 1..n
    OBVIOUS
  <2>1. f[i + 1] = IF i + 1 = 1 THEN s[i + 1] ELSE f[(i + 1) - 1] \o s[i + 1]
    BY DEF Flattens
  <2>2. g[i + 1] = IF i + 1 = 1 THEN t[i + 1] ELSE g[(i + 1) - 1] \o t[i + 1]
    BY <2>0 DEF Flattens
  <2>3. (i + 1) - 1 = i /\ (i + 1 # 1 => i \in 1..m)
    OBVIOUS
  <2> HIDE DEF T
  <2>4. i + 1 # 1 => f[i] = g[i]
    BY <1>2, <2>3 DEF T
  <2> QED
    BY <2>1, <2>2, <2>3, <2>4
<1>3. Nat \subseteq T
  <2> HIDE DEF T
  <2> QED
    BY <1>1, <1>2, InductionOnSets
<1> QED
  BY <1>3

\* FlattenSeq is the last of them.
LEMMA FlattenIs ==
    ASSUME NEW s, Len(s) \in Nat, Len(s) # 0
    PROVE  \E f : Flattens(f, s, Len(s)) /\ FlattenSeq(s) = f[Len(s)]
<1> DEFINE F == CHOOSE f : f = [i \in 1..Len(s) |-> IF i = 1 THEN s[i] ELSE f[i - 1] \o s[i]]
<1>1. Flattens(F, s, Len(s))
  BY FlatteningExists DEF Flattens
<1>2. FlattenSeq(s) = F[Len(s)]
  BY DEF FlattenSeq
<1> QED
  BY <1>1, <1>2

\* Nothing flattened is nothing.
LEMMA FlattenEmpty == FlattenSeq(<<>>) = <<>>
BY DEF FlattenSeq

\* One sequence more goes to the end.
LEMMA FlattenAppend ==
    ASSUME NEW S, NEW s \in Seq(Seq(S)), NEW e \in Seq(S)
    PROVE  FlattenSeq(Append(s, e)) = FlattenSeq(s) \o e
<1> DEFINE t == Append(s, e)
<1>1. /\ t \in Seq(Seq(S)) /\ Len(t) = Len(s) + 1 /\ Len(s) \in Nat
      /\ \A i \in 1..Len(s) : t[i] = s[i]
      /\ t[Len(s) + 1] = e
  BY AppendProperties, LenProperties
<1> HIDE DEF t
<1>2. PICK g : Flattens(g, t, Len(t)) /\ FlattenSeq(t) = g[Len(t)]
  BY <1>1, FlattenIs
<1>3. CASE Len(s) = 0
  <2>1. s = <<>>
    BY <1>3, EmptySeq
  <2>2. g[1] = e
    BY <1>1, <1>2, <1>3 DEF Flattens
  <2>3. <<>> \o e = e
    BY ConcatEmptySeq
  <2> QED
    BY <1>1, <1>2, <1>3, <2>1, <2>2, <2>3, FlattenEmpty DEF t
<1>4. CASE Len(s) # 0
  <2>1. PICK f : Flattens(f, s, Len(s)) /\ FlattenSeq(s) = f[Len(s)]
    BY <1>1, <1>4, FlattenIs
  <2>2. \A i \in 1..Len(s) : s[i] = t[i]
    BY <1>1
  <2>3. f[Len(s)] = g[Len(s)]
    <3>1. Len(s) \in Nat /\ Len(t) \in Nat /\ Len(s) <= Len(t) /\ Len(s) \in 1..Len(s)
      BY <1>1, <1>4
    <3>2. Flattens(f, s, Len(s)) /\ Flattens(g, t, Len(t))
      BY <1>2, <2>1
    <3>3. \A i \in 1..Len(s) : f[i] = g[i]
      <4> DEFINE m == Len(s)
                 n == Len(t)
      <4>1. /\ m \in Nat /\ n \in Nat /\ m <= n /\ \A i \in 1..m : s[i] = t[i]
            /\ Flattens(f, s, m) /\ Flattens(g, t, n)
        BY <2>2, <3>1, <3>2
      <4> HIDE DEF m, n
      <4>2. \A i \in 1..m : f[i] = g[i]
        BY ONLY <4>1, FlatteningUnique
      <4> QED
        BY <4>2 DEF m
    <3> QED
      BY <3>1, <3>3
  <2>4. g[Len(t)] = g[Len(s)] \o e
    <3>1. Len(t) \in 1..Len(t) /\ Len(t) # 1 /\ Len(t) - 1 = Len(s) /\ t[Len(t)] = e
      BY <1>1, <1>4
    <3>2. \A i \in 1..Len(t) : g[i] = IF i = 1 THEN t[i] ELSE g[i - 1] \o t[i]
      BY <1>2 DEF Flattens
    <3> QED
      BY <3>1, <3>2
  <2> QED
    BY <1>2, <2>1, <2>3, <2>4 DEF t
<1> QED
  BY <1>1, <1>3, <1>4

\* What is flattened is a sequence of elements.
LEMMA FlattenType ==
    ASSUME NEW S
    PROVE  \A s \in Seq(Seq(S)) : FlattenSeq(s) \in Seq(S)
<1> DEFINE T == {n \in Nat : \A s \in Seq(Seq(S)) : Len(s) = n => FlattenSeq(s) \in Seq(S)}
<1>1. 0 \in T
  <2> SUFFICES ASSUME NEW s \in Seq(Seq(S)), Len(s) = 0 PROVE FlattenSeq(s) \in Seq(S)
    OBVIOUS
  <2>1. s = <<>>
    BY EmptySeq
  <2> QED
    BY <2>1, FlattenEmpty, EmptySeq
<1>2. ASSUME NEW n \in Nat, n \in T PROVE n + 1 \in T
  <2> SUFFICES ASSUME NEW s \in Seq(Seq(S)), Len(s) = n + 1 PROVE FlattenSeq(s) \in Seq(S)
    OBVIOUS
  <2>1. s # <<>>
    BY EmptySeq
  <2>2. PICK u \in Seq(Seq(S)), e \in Seq(S) : s = Append(u, e)
    BY <2>1, SequenceEmptyOrAppend
  <2>3. Len(u) = n
    BY <2>2, AppendProperties, LenProperties
  <2>4. FlattenSeq(u) \in Seq(S)
    BY <1>2, <2>3
  <2> QED
    BY <2>2, <2>4, FlattenAppend, ConcatProperties
<1>3. Nat \subseteq T
  <2> HIDE DEF T
  <2> QED
    BY <1>1, <1>2, InductionOnSets
<1> QED
  <2>1. \A s \in Seq(Seq(S)) : Len(s) \in Nat
    BY LenProperties
  <2> QED
    BY <1>3, <2>1

\* The first sequence comes first.
LEMMA FlattenHeadTail ==
    ASSUME NEW S
    PROVE  \A s \in Seq(Seq(S)) : s # <<>> => FlattenSeq(s) = Head(s) \o FlattenSeq(Tail(s))
<1> DEFINE P(s) == FlattenSeq(s) = Head(s) \o FlattenSeq(Tail(s))
           T == {n \in Nat : \A s \in Seq(Seq(S)) : Len(s) = n + 1 => P(s)}
<1>0. ASSUME NEW u \in Seq(Seq(S)), NEW e \in Seq(S), u = <<>> \/ P(u)
      PROVE  P(Append(u, e))
  <2>1. CASE u = <<>>
    <3>1. Head(Append(u, e)) = e /\ Tail(Append(u, e)) = <<>>
      BY <2>1, HeadTailAppend
    <3>2. FlattenSeq(Append(u, e)) = <<>> \o e
      BY <2>1, FlattenAppend, FlattenEmpty
    <3>3. <<>> \o e = e /\ e \o <<>> = e
      BY ConcatEmptySeq
    <3> QED
      BY <3>1, <3>2, <3>3, FlattenEmpty
  <2>2. CASE u # <<>>
    <3>1. Head(Append(u, e)) = Head(u) /\ Tail(Append(u, e)) = Append(Tail(u), e)
      BY <2>2, HeadTailAppend
    <3>2. Head(u) \in Seq(S) /\ Tail(u) \in Seq(Seq(S))
      BY <2>2, HeadTailProperties
    <3>3. FlattenSeq(Append(u, e)) = (Head(u) \o FlattenSeq(Tail(u))) \o e
      BY <1>0, <2>2, FlattenAppend
    <3>4. FlattenSeq(Append(Tail(u), e)) = FlattenSeq(Tail(u)) \o e
      BY <3>2, FlattenAppend
    <3>5. FlattenSeq(Tail(u)) \in Seq(S)
      BY <3>2, FlattenType
    <3>6. \A a, b, c \in Seq(S) : (a \o b) \o c = a \o (b \o c)
      BY ConcatAssociative
    <3>7. (Head(u) \o FlattenSeq(Tail(u))) \o e = Head(u) \o (FlattenSeq(Tail(u)) \o e)
      BY <3>2, <3>5, <3>6
    <3> QED
      BY <3>1, <3>3, <3>4, <3>7
  <2> QED
    BY <2>1, <2>2
<1> HIDE DEF P
<1>1. ASSUME NEW n \in Nat, NEW s \in Seq(Seq(S)), Len(s) = n + 1
      PROVE  \E u \in Seq(Seq(S)), e \in Seq(S) : s = Append(u, e) /\ Len(u) = n
  <2> HIDE DEF T
  <2>1. s # <<>>
    BY <1>1, EmptySeq
  <2>2. PICK u \in Seq(Seq(S)), e \in Seq(S) : s = Append(u, e)
    BY <2>1, SequenceEmptyOrAppend
  <2>3. Len(u) = n
    BY <1>1, <2>2, AppendProperties, LenProperties
  <2> QED
    BY <2>2, <2>3
<1>2. 0 \in T
  <2> SUFFICES ASSUME NEW s \in Seq(Seq(S)), Len(s) = 0 + 1 PROVE P(s)
    OBVIOUS
  <2>1. PICK u \in Seq(Seq(S)), e \in Seq(S) : s = Append(u, e) /\ Len(u) = 0
    BY <1>1
  <2>2. u = <<>>
    BY <2>1, EmptySeq
  <2> QED
    BY <1>0, <2>1, <2>2
<1>3. ASSUME NEW n \in Nat, n \in T PROVE n + 1 \in T
  <2> SUFFICES ASSUME NEW s \in Seq(Seq(S)), Len(s) = (n + 1) + 1 PROVE P(s)
    OBVIOUS
  <2>0. n + 1 \in Nat
    OBVIOUS
  <2>1. PICK u \in Seq(Seq(S)), e \in Seq(S) : s = Append(u, e) /\ Len(u) = n + 1
    <3> HIDE DEF T
    <3> QED
      BY <1>1, <2>0
  <2>2. P(u)
    BY <1>3, <2>1
  <2> QED
    BY <1>0, <2>1, <2>2
<1>4. Nat \subseteq T
  <2> HIDE DEF T
  <2> QED
    BY <1>2, <1>3, InductionOnSets
<1> QED
  <2> SUFFICES ASSUME NEW s \in Seq(Seq(S)), s # <<>> PROVE P(s)
    BY DEF P
  <2>1. Len(s) - 1 \in Nat /\ Len(s) = (Len(s) - 1) + 1
    BY EmptySeq
  <2> QED
    BY <1>4, <2>1

-----------------------------------------------------------------------------
(* IsPrefix and IsSuffix.                                                  *)

\* A prefix, element by element.
LEMMA PrefixIs ==
    ASSUME NEW S, NEW s \in Seq(S), NEW t \in Seq(S)
    PROVE  IsPrefix(s, t) <=> Len(s) <= Len(t) /\ \A i \in 1..Len(s) : s[i] = t[i]
<1>1. Len(s) \in Nat /\ Len(t) \in Nat /\ SubSeq(s, 1, Len(s)) = s
  BY LenProperties, SubSeqFull
<1>2. ASSUME Len(s) <= Len(t)
      PROVE  /\ SubSeq(t, 1, Len(s)) \in Seq(S) /\ Len(SubSeq(t, 1, Len(s))) = Len(s)
             /\ \A i \in 1..Len(s) : SubSeq(t, 1, Len(s))[i] = t[i]
  <2>1. \A i \in 1..Len(s) : t[i] \in S
    BY <1>1, <1>2, ElementOfSeq
  <2>2. /\ SubSeq(t, 1, Len(s)) \in Seq(S)
        /\ Len(SubSeq(t, 1, Len(s))) = IF 1 <= Len(s) THEN Len(s) - 1 + 1 ELSE 0
        /\ \A i \in 1..(Len(s) - 1 + 1) : SubSeq(t, 1, Len(s))[i] = t[1 + i - 1]
    BY <1>1, <2>1, SubSeqProperties
  <2>3. \A i \in 1..Len(s) : i \in 1..(Len(s) - 1 + 1) /\ 1 + i - 1 = i
    BY <1>1
  <2>4. \A i \in 1..Len(s) : SubSeq(t, 1, Len(s))[i] = t[i]
    BY <2>2, <2>3
  <2> QED
    BY <1>1, <2>2, <2>4
<1>3. ASSUME Len(s) <= Len(t), \A i \in 1..Len(s) : s[i] = t[i]
      PROVE  SubSeq(t, 1, Len(s)) = s
  <2> DEFINE u == SubSeq(t, 1, Len(s))
  <2>1. u \in Seq(S) /\ Len(u) = Len(s) /\ \A i \in 1..Len(u) : u[i] = s[i]
    BY <1>2, <1>3
  <2> HIDE DEF u
  <2>2. u = s
    BY <2>1, SeqEqual
  <2> QED
    BY <2>2 DEF u
<1> QED
  BY <1>1, <1>2, <1>3 DEF IsPrefix

\* A suffix, element by element from the end.
LEMMA SuffixIs ==
    ASSUME NEW S, NEW s \in Seq(S), NEW t \in Seq(S)
    PROVE  IsSuffix(s, t) <=> Len(s) <= Len(t) /\ \A i \in 1..Len(s) : s[i] = t[Len(t) - Len(s) + i]
<1>0. Len(s) \in Nat /\ Len(t) \in Nat
  BY LenProperties
<1>1. ASSUME NEW u \in Seq(S)
      PROVE  /\ Reverse(u) \in Seq(S) /\ Len(Reverse(u)) = Len(u)
             /\ \A i \in 1..Len(u) : Reverse(u)[i] = u[Len(u) - i + 1]
  <2>1. Len(u) \in Nat /\ \A i \in 1..Len(u) : (Len(u) - i) + 1 \in 1..Len(u)
    BY LenProperties
  <2>2. \A i \in 1..Len(u) : u[(Len(u) - i) + 1] \in S
    BY <2>1, ElementOfSeq
  <2>3. Reverse(u) \in [1..Len(u) -> S]
    BY <2>2 DEF Reverse
  <2>4. Reverse(u) \in Seq(S)
    BY <2>1, <2>3, SeqDef
  <2>5. Len(Reverse(u)) = Len(u)
    BY <2>1, <2>3, <2>4, LenProperties
  <2> QED
    BY <2>4, <2>5 DEF Reverse
<1>2. IsSuffix(s, t) <=> Len(s) <= Len(t) /\ \A i \in 1..Len(s) : Reverse(s)[i] = Reverse(t)[i]
  <2> DEFINE a == Reverse(s)
             b == Reverse(t)
  <2>1. a \in Seq(S) /\ b \in Seq(S) /\ Len(a) = Len(s) /\ Len(b) = Len(t)
    BY <1>1
  <2> HIDE DEF a, b
  <2>2. IsPrefix(a, b) <=> Len(a) <= Len(b) /\ \A i \in 1..Len(a) : a[i] = b[i]
    BY <2>1, PrefixIs
  <2> QED
    BY <2>1, <2>2 DEF IsSuffix, a, b
<1>3. ASSUME Len(s) <= Len(t), \A i \in 1..Len(s) : Reverse(s)[i] = Reverse(t)[i], NEW i \in 1..Len(s)
      PROVE  s[i] = t[Len(t) - Len(s) + i]
  <2>1. Len(s) - i + 1 \in 1..Len(s) /\ Len(s) - i + 1 \in 1..Len(t)
    BY <1>0, <1>3
  <2>2. Reverse(s)[Len(s) - i + 1] = s[Len(s) - (Len(s) - i + 1) + 1]
    BY <1>1, <2>1
  <2>3. Reverse(t)[Len(s) - i + 1] = t[Len(t) - (Len(s) - i + 1) + 1]
    BY <1>1, <2>1
  <2>4. Len(s) - (Len(s) - i + 1) + 1 = i /\ Len(t) - (Len(s) - i + 1) + 1 = Len(t) - Len(s) + i
    BY <1>0
  <2> QED
    BY <1>3, <2>1, <2>2, <2>3, <2>4
<1>4. ASSUME Len(s) <= Len(t), \A i \in 1..Len(s) : s[i] = t[Len(t) - Len(s) + i], NEW i \in 1..Len(s)
      PROVE  Reverse(s)[i] = Reverse(t)[i]
  <2>1. Len(s) - i + 1 \in 1..Len(s) /\ i \in 1..Len(t)
    BY <1>0, <1>4
  <2>2. Reverse(s)[i] = s[Len(s) - i + 1] /\ Reverse(t)[i] = t[Len(t) - i + 1]
    BY <1>1, <2>1
  <2>3. Len(t) - Len(s) + (Len(s) - i + 1) = Len(t) - i + 1
    BY <1>0
  <2>4. s[Len(s) - i + 1] = t[Len(t) - Len(s) + (Len(s) - i + 1)]
    BY <1>4, <2>1
  <2> QED
    BY <2>2, <2>3, <2>4
<1> QED
  BY <1>2, <1>3, <1>4

-----------------------------------------------------------------------------
(* What is kept of a sequence: Array.filter, by a set.                     *)

\* What holds of the empty sequence, and of a longer one when it holds of
\* all but its last element, holds of every sequence.
LEMMA InductionOnSequences ==
    ASSUME NEW S, NEW P, <<>> \in P, \A s \in Seq(S), e \in S : s \in P => Append(s, e) \in P
    PROVE  Seq(S) \subseteq P
<1> DEFINE T == {n \in Nat : \A s \in Seq(S) : Len(s) = n => s \in P}
<1>1. 0 \in T
  <2> SUFFICES ASSUME NEW s \in Seq(S), Len(s) = 0 PROVE s \in P
    OBVIOUS
  <2> QED
    BY EmptySeq
<1>2. ASSUME NEW n \in Nat, n \in T PROVE n + 1 \in T
  <2> SUFFICES ASSUME NEW s \in Seq(S), Len(s) = n + 1 PROVE s \in P
    OBVIOUS
  <2>1. s # <<>>
    BY EmptySeq
  <2>2. PICK u \in Seq(S), e \in S : s = Append(u, e)
    BY <2>1, SequenceEmptyOrAppend
  <2>3. Len(u) = n
    BY <2>2, AppendProperties, LenProperties
  <2> QED
    BY <1>2, <2>2, <2>3
<1>3. Nat \subseteq T
  <2> HIDE DEF T
  <2> QED
    BY <1>1, <1>2, InductionOnSets
<1> QED
  <2>1. \A s \in Seq(S) : Len(s) \in Nat
    BY LenProperties
  <2> QED
    BY <1>3, <2>1

\* f holds what is kept of the beginnings of a sequence, up to the n-th.
Keeping(f, s, T, n) ==
    f = [i \in 0..n |-> IF i = 0 THEN <<>> ELSE IF s[i] \in T THEN Append(f[i - 1], s[i]) ELSE f[i - 1]]

\* As Keep, by a set.
Kept(s, T) == (CHOOSE f : Keeping(f, s, T, Len(s)))[Len(s)]

\* Keeping has a run for every list,
LEMMA KeepingExists ==
    ASSUME NEW s, NEW T
    PROVE  \A n \in Nat : \E f : Keeping(f, s, T, n)
<1> DEFINE Following(f, i) == IF s[i] \in T THEN Append(f[i - 1], s[i]) ELSE f[i - 1]
           N == {n \in Nat : \E f : Keeping(f, s, T, n)}
<1>1. 0 \in N
  <2> DEFINE f == [i \in 0..0 |-> <<>>]
  <2>1. f = [i \in 0..0 |-> IF i = 0 THEN <<>> ELSE Following(f, i)]
    OBVIOUS
  <2>2. Keeping(f, s, T, 0)
    BY <2>1 DEF Keeping
  <2> QED
    BY <2>2
<1>2. ASSUME NEW m \in Nat, m \in N PROVE m + 1 \in N
  <2>1. PICK f : Keeping(f, s, T, m)
    BY <1>2
  <2>2. f = [i \in 0..m |-> IF i = 0 THEN <<>> ELSE Following(f, i)]
    BY <2>1 DEF Keeping
  <2> DEFINE g == [i \in 0..(m + 1) |-> IF i = m + 1 THEN Following(f, i) ELSE f[i]]
  <2>3. ASSUME NEW i \in 0..(m + 1) PROVE g[i] = IF i = 0 THEN <<>> ELSE Following(g, i)
    <3>1. CASE i = m + 1
      <4>1. i - 1 \in 0..(m + 1) /\ i - 1 # m + 1 /\ i # 0
        BY <3>1
      <4>2. g[i - 1] = f[i - 1] /\ g[i] = Following(f, i)
        BY <3>1, <4>1
      <4> QED
        BY <4>1, <4>2
    <3>2. CASE i # m + 1 /\ i # 0
      <4>1. i \in 0..m /\ i - 1 \in 0..(m + 1) /\ i - 1 # m + 1
        BY <3>2
      <4>2. g[i - 1] = f[i - 1] /\ g[i] = f[i]
        BY <3>2, <4>1
      <4>3. f[i] = Following(f, i)
        BY <2>2, <3>2, <4>1
      <4> QED
        BY <3>2, <4>2, <4>3
    <3>3. CASE i = 0
      BY <2>2, <3>3
    <3> QED
      BY <3>1, <3>2, <3>3
  <2>4. g = [i \in 0..(m + 1) |-> IF i = 0 THEN <<>> ELSE Following(g, i)]
    <3> DEFINE h == [i \in 0..(m + 1) |-> g[i]]
    <3>1. g = h
      OBVIOUS
    <3> HIDE DEF g
    <3>2. h = [i \in 0..(m + 1) |-> IF i = 0 THEN <<>> ELSE Following(g, i)]
      BY <2>3
    <3> QED
      BY <3>1, <3>2
  <2> HIDE DEF g
  <2>5. Keeping(g, s, T, m + 1)
    BY <2>4 DEF Keeping
  <2> QED
    BY <2>5
<1>3. Nat \subseteq N
  <2> HIDE DEF N
  <2> QED
    BY <1>1, <1>2, InductionOnSets
<1> QED
  BY <1>3

\* It depends on nothing but the elements so far.
LEMMA KeepingUnique ==
    ASSUME NEW s, NEW t, NEW T, NEW f, NEW g, NEW m \in Nat, NEW n \in Nat, m <= n,
           Keeping(f, s, T, m), Keeping(g, t, T, n), \A i \in 1..m : s[i] = t[i]
    PROVE  \A i \in 0..m : f[i] = g[i]
<1> DEFINE N == {i \in Nat : i \in 0..m => f[i] = g[i]}
<1>1. 0 \in N
  BY DEF Keeping
<1>2. ASSUME NEW i \in Nat, i \in N PROVE i + 1 \in N
  <2> SUFFICES ASSUME i + 1 \in 0..m PROVE f[i + 1] = g[i + 1]
    OBVIOUS
  <2>0. i + 1 \in 0..n /\ i + 1 # 0 /\ (i + 1) - 1 = i /\ i \in 0..m /\ s[i + 1] = t[i + 1]
    OBVIOUS
  <2>1. f[i + 1] = IF s[i + 1] \in T THEN Append(f[i], s[i + 1]) ELSE f[i]
    BY <2>0 DEF Keeping
  <2>2. g[i + 1] = IF t[i + 1] \in T THEN Append(g[i], t[i + 1]) ELSE g[i]
    BY <2>0 DEF Keeping
  <2> QED
    BY <1>2, <2>0, <2>1, <2>2
<1>3. Nat \subseteq N
  <2> HIDE DEF N
  <2> QED
    BY <1>1, <1>2, InductionOnSets
<1> QED
  BY <1>3

\* and Kept is where it ends;
LEMMA KeptIs ==
    ASSUME NEW s, Len(s) \in Nat, NEW T
    PROVE  \E f : Keeping(f, s, T, Len(s)) /\ Kept(s, T) = f[Len(s)]
<1>1. \E f : Keeping(f, s, T, Len(s))
  BY KeepingExists
<1> QED
  BY <1>1 DEF Kept

\* whatever keeps step by step ends there.
LEMMA KeptByFilter ==
    ASSUME NEW s, Len(s) \in Nat, NEW T, NEW f, Keeping(f, s, T, Len(s))
    PROVE  f[Len(s)] = Kept(s, T)
<1>1. PICK g : Keeping(g, s, T, Len(s)) /\ Kept(s, T) = g[Len(s)]
  BY KeptIs
<1> DEFINE n == Len(s)
<1>2. n \in Nat /\ Keeping(f, s, T, n) /\ Keeping(g, s, T, n)
  BY <1>1
<1> HIDE DEF n
<1>3. \A i \in 0..n : f[i] = g[i]
  BY <1>2, KeepingUnique
<1> QED
  BY <1>1, <1>2, <1>3 DEF n

\* Nothing is kept of nothing.
LEMMA KeptEmpty == \A T : Kept(<<>>, T) = <<>>
<1> SUFFICES ASSUME NEW T PROVE Kept(<<>>, T) = <<>>
  OBVIOUS
<1>1. Len(<<>>) = 0
  OBVIOUS
<1>2. PICK f : Keeping(f, <<>>, T, Len(<<>>)) /\ Kept(<<>>, T) = f[Len(<<>>)]
  BY <1>1, KeptIs
<1> QED
  BY <1>1, <1>2 DEF Keeping

\* An element more is kept if it is one to keep.
LEMMA KeptAppend ==
    ASSUME NEW S, NEW s \in Seq(S), NEW e \in S, NEW T
    PROVE  Kept(Append(s, e), T) = IF e \in T THEN Append(Kept(s, T), e) ELSE Kept(s, T)
<1> DEFINE t == Append(s, e)
           m == Len(s)
<1>1. Len(t) = m + 1 /\ m \in Nat /\ t[m + 1] = e /\ \A i \in 1..m : s[i] = t[i]
  BY AppendProperties, LenProperties
<1>2. PICK f : Keeping(f, s, T, m) /\ Kept(s, T) = f[m]
  BY <1>1, KeptIs
<1> HIDE DEF t, m
<1>3. PICK g : Keeping(g, t, T, m + 1) /\ Kept(t, T) = g[m + 1]
  <2>1. Len(t) \in Nat
    BY <1>1
  <2> QED
    BY <1>1, <2>1, KeptIs
<1>4. \A i \in 0..m : f[i] = g[i]
  <2>1. m + 1 \in Nat /\ m <= m + 1
    BY <1>1
  <2> QED
    BY <1>1, <1>2, <1>3, <2>1, KeepingUnique
<1>5. f[m] = g[m] /\ m + 1 \in 0..(m + 1) /\ m + 1 # 0 /\ (m + 1) - 1 = m
  BY <1>1, <1>4
<1>6. g[m + 1] = IF t[m + 1] \in T THEN Append(g[m], t[m + 1]) ELSE g[m]
  BY <1>3, <1>5 DEF Keeping
<1> QED
  BY <1>1, <1>2, <1>3, <1>5, <1>6 DEF t

\* The elements after one more,
LEMMA ElementsOfAppend ==
    ASSUME NEW S, NEW s \in Seq(S), NEW e \in S
    PROVE  ToSet(Append(s, e)) = ToSet(s) \cup {e}
<1> DEFINE t == Append(s, e)
<1>1. /\ Len(t) = Len(s) + 1 /\ Len(s) \in Nat /\ t[Len(s) + 1] = e /\ \A i \in 1..Len(s) : t[i] = s[i]
      /\ DOMAIN s = 1..Len(s) /\ DOMAIN t = 1..(Len(s) + 1)
  BY AppendProperties, LenProperties
<1> HIDE DEF t
<1>2. ToSet(t) = ToSet(s) \cup {e}
  BY <1>1 DEF ToSet
<1> QED
  BY <1>2 DEF t

\* and of two lists joined.
LEMMA ElementsOfConcat ==
    ASSUME NEW S, NEW s \in Seq(S), NEW t \in Seq(S)
    PROVE  ToSet(s \o t) = ToSet(s) \cup ToSet(t)
<1> DEFINE u == s \o t
           m == Len(s)
           n == Len(t)
<1>1. /\ Len(u) = m + n /\ m \in Nat /\ n \in Nat /\ DOMAIN s = 1..m /\ DOMAIN t = 1..n /\ DOMAIN u = 1..(m + n)
      /\ \A i \in 1..(m + n) : u[i] = IF i <= m THEN s[i] ELSE t[i - m]
  BY ConcatProperties, LenProperties
<1> HIDE DEF u, m, n
<1>2. ASSUME NEW x \in ToSet(u) PROVE x \in ToSet(s) \cup ToSet(t)
  <2>1. PICK i \in 1..(m + n) : x = u[i]
    BY <1>1 DEF ToSet
  <2>2. CASE i <= m
    BY <1>1, <2>1, <2>2 DEF ToSet
  <2>3. CASE ~(i <= m)
    <3>1. i - m \in 1..n
      BY <1>1, <2>3
    <3> QED
      BY <1>1, <2>1, <2>3, <3>1 DEF ToSet
  <2> QED
    BY <2>2, <2>3
<1>3. ASSUME NEW x \in ToSet(s) PROVE x \in ToSet(u)
  <2>1. PICK i \in 1..m : x = s[i]
    BY <1>1 DEF ToSet
  <2>2. i \in 1..(m + n) /\ i <= m
    BY <1>1
  <2> QED
    BY <1>1, <2>1, <2>2 DEF ToSet
<1>4. ASSUME NEW x \in ToSet(t) PROVE x \in ToSet(u)
  <2>1. PICK i \in 1..n : x = t[i]
    BY <1>1 DEF ToSet
  <2>2. i + m \in 1..(m + n) /\ ~(i + m <= m) /\ (i + m) - m = i
    BY <1>1
  <2>3. u[i + m] = t[i]
    BY <1>1, <2>2
  <2> QED
    BY <1>1, <2>1, <2>2, <2>3 DEF ToSet
<1> QED
  BY <1>2, <1>3, <1>4 DEF u

\* Of no list, none.
LEMMA NoElements == ToSet(<<>>) = {}
BY DEF ToSet

\* A sequence is one of its elements.
LEMMA OfItsElements ==
    ASSUME NEW S, NEW s \in Seq(S)
    PROVE  s \in Seq(ToSet(s)) /\ ToSet(s) \subseteq S /\ (ToSet(s) = {} => s = <<>>)
<1>1. Len(s) \in Nat /\ DOMAIN s = 1..Len(s) /\ \A i \in 1..Len(s) : s[i] \in S
  BY LenProperties, ElementOfSeq
<1>2. \A i \in 1..Len(s) : s[i] \in ToSet(s)
  BY <1>1 DEF ToSet
<1>3. s \in Seq(ToSet(s))
  BY <1>1, <1>2, SeqDef, LenProperties
<1>4. ToSet(s) \subseteq S
  BY <1>1 DEF ToSet
<1>5. ASSUME ToSet(s) = {} PROVE s = <<>>
  <2>1. Len(s) = 0
    BY <1>1, <1>2, <1>5
  <2> QED
    BY <2>1, EmptySeq
<1> QED
  BY <1>3, <1>4, <1>5

\* One more repeats nothing when it is new.
LEMMA InjectiveAppend ==
    ASSUME NEW S, NEW s \in Seq(S), NEW e \in S
    PROVE  IsInjective(Append(s, e)) <=> IsInjective(s) /\ e \notin ToSet(s)
<1> DEFINE t == Append(s, e)
           n == Len(s)
<1>1. /\ n \in Nat /\ t[n + 1] = e /\ \A i \in 1..n : t[i] = s[i]
      /\ DOMAIN s = 1..n /\ DOMAIN t = 1..(n + 1)
  BY AppendProperties, LenProperties
<1> HIDE DEF t, n
<1>2. ASSUME IsInjective(t) PROVE IsInjective(s) /\ e \notin ToSet(s)
  <2>1. IsInjective(s)
    BY <1>1, <1>2 DEF IsInjective
  <2>2. ASSUME NEW i \in 1..n, s[i] = e PROVE FALSE
    <3>1. t[i] = t[n + 1] /\ i \in 1..(n + 1) /\ n + 1 \in 1..(n + 1) /\ i # n + 1
      BY <1>1, <2>2
    <3> QED
      BY <1>1, <1>2, <3>1 DEF IsInjective
  <2> QED
    BY <1>1, <2>1, <2>2 DEF ToSet
<1>3. ASSUME IsInjective(s), e \notin ToSet(s) PROVE IsInjective(t)
  <2> SUFFICES ASSUME NEW i \in 1..(n + 1), NEW j \in 1..(n + 1), t[i] = t[j] PROVE i = j
    BY <1>1 DEF IsInjective
  <2>1. \A k \in 1..n : s[k] # e
    BY <1>1, <1>3 DEF ToSet
  <2>2. (i \in 1..n \/ i = n + 1) /\ (j \in 1..n \/ j = n + 1)
    BY <1>1
  <2>3. i \in 1..n /\ j \in 1..n => i = j
    BY <1>1, <1>3 DEF IsInjective
  <2> QED
    BY <1>1, <2>1, <2>2, <2>3
<1> QED
  BY <1>2, <1>3 DEF t

\* What is kept are the elements in the set, each as often as before.
LEMMA KeptElements ==
    ASSUME NEW S, NEW T
    PROVE  \A s \in Seq(S) : /\ Kept(s, T) \in Seq(S)
                             /\ ToSet(Kept(s, T)) = ToSet(s) \cap T
                             /\ IsInjective(s) => IsInjective(Kept(s, T))
<1> DEFINE P == {s \in Seq(S) : /\ Kept(s, T) \in Seq(S) /\ ToSet(Kept(s, T)) = ToSet(s) \cap T
                                /\ IsInjective(s) => IsInjective(Kept(s, T))}
<1>1. <<>> \in P
  BY KeptEmpty, NoElements, EmptySeq
<1>2. ASSUME NEW s \in Seq(S), NEW e \in S, s \in P PROVE Append(s, e) \in P
  <2>1. Append(s, e) \in Seq(S) /\ ToSet(Append(s, e)) = ToSet(s) \cup {e}
    BY AppendProperties, ElementsOfAppend
  <2>2. IsInjective(Append(s, e)) <=> IsInjective(s) /\ e \notin ToSet(s)
    BY InjectiveAppend
  <2>3. CASE e \in T
    <3>1. Kept(Append(s, e), T) = Append(Kept(s, T), e)
      BY <2>3, KeptAppend
    <3>2. /\ Append(Kept(s, T), e) \in Seq(S) /\ ToSet(Append(Kept(s, T), e)) = ToSet(Kept(s, T)) \cup {e}
          /\ IsInjective(Append(Kept(s, T), e)) <=> IsInjective(Kept(s, T)) /\ e \notin ToSet(Kept(s, T))
      BY <1>2, AppendProperties, ElementsOfAppend, InjectiveAppend
    <3> QED
      BY <1>2, <2>1, <2>2, <2>3, <3>1, <3>2
  <2>4. CASE e \notin T
    <3>1. Kept(Append(s, e), T) = Kept(s, T)
      BY <2>4, KeptAppend
    <3> QED
      BY <1>2, <2>1, <2>2, <2>4, <3>1
  <2> QED
    BY <2>3, <2>4
<1>3. Seq(S) \subseteq P
  <2> HIDE DEF P
  <2> QED
    BY <1>1, <1>2, InductionOnSequences
<1> QED
  BY <1>3

\* Filtering goes piece by piece.
LEMMA KeptConcat ==
    ASSUME NEW S, NEW T, NEW s \in Seq(S)
    PROVE  \A t \in Seq(S) : Kept(s \o t, T) = Kept(s, T) \o Kept(t, T)
<1> DEFINE P == {t \in Seq(S) : Kept(s \o t, T) = Kept(s, T) \o Kept(t, T)}
<1>0. Kept(s, T) \in Seq(S)
  BY KeptElements
<1>1. <<>> \in P
  <2>1. s \o <<>> = s /\ Kept(s, T) \o <<>> = Kept(s, T)
    BY <1>0, ConcatEmptySeq
  <2> QED
    BY <2>1, KeptEmpty, EmptySeq
<1>2. ASSUME NEW t \in Seq(S), NEW e \in S, t \in P PROVE Append(t, e) \in P
  <2>1. \A a, b \in Seq(S) : a \o Append(b, e) = Append(a \o b, e)
    <3> SUFFICES ASSUME NEW a \in Seq(S), NEW b \in Seq(S) PROVE a \o Append(b, e) = Append(a \o b, e)
      OBVIOUS
    <3>1. <<e>> \in Seq(S) /\ a \o b \in Seq(S) /\ Append(b, e) = b \o <<e>> /\ Append(a \o b, e) = (a \o b) \o <<e>>
      BY SingletonSeq, ConcatProperties, AppendIsConcat
    <3> QED
      BY <3>1, ConcatAssociative
  <2>2. s \o t \in Seq(S) /\ Kept(t, T) \in Seq(S) /\ Append(t, e) \in Seq(S)
    BY ConcatProperties, KeptElements, AppendProperties
  <2>3. Kept(s \o Append(t, e), T) = IF e \in T THEN Append(Kept(s \o t, T), e) ELSE Kept(s \o t, T)
    <3>1. s \o Append(t, e) = Append(s \o t, e)
      BY <2>1
    <3>2. \A u \in Seq(S) : Kept(Append(u, e), T) = IF e \in T THEN Append(Kept(u, T), e) ELSE Kept(u, T)
      BY KeptAppend
    <3> QED
      BY <2>2, <3>1, <3>2
  <2>4. Kept(Append(t, e), T) = IF e \in T THEN Append(Kept(t, T), e) ELSE Kept(t, T)
    BY KeptAppend
  <2>5. Append(Kept(s, T) \o Kept(t, T), e) = Kept(s, T) \o Append(Kept(t, T), e)
    BY <1>0, <2>1, <2>2
  <2> QED
    BY <1>2, <2>2, <2>3, <2>4, <2>5
<1>3. Seq(S) \subseteq P
  <2> HIDE DEF P
  <2> QED
    BY <1>1, <1>2, InductionOnSequences
<1> QED
  BY <1>3

\* Filtering twice is filtering by both.
LEMMA KeptTwice ==
    ASSUME NEW S, NEW T, NEW U
    PROVE  \A s \in Seq(S) : T \cap U \cap ToSet(s) = U \cap ToSet(s) => Kept(Kept(s, T), U) = Kept(s, U)
<1> DEFINE P == {s \in Seq(S) : T \cap U \cap ToSet(s) = U \cap ToSet(s) => Kept(Kept(s, T), U) = Kept(s, U)}
<1>1. <<>> \in P
  BY KeptEmpty, EmptySeq
<1>2. ASSUME NEW s \in Seq(S), NEW e \in S, s \in P PROVE Append(s, e) \in P
  <2>1. Append(s, e) \in Seq(S) /\ ToSet(Append(s, e)) = ToSet(s) \cup {e} /\ Kept(s, T) \in Seq(S)
    BY AppendProperties, ElementsOfAppend, KeptElements
  <2> SUFFICES ASSUME T \cap U \cap ToSet(Append(s, e)) = U \cap ToSet(Append(s, e))
               PROVE  Kept(Kept(Append(s, e), T), U) = Kept(Append(s, e), U)
    BY <2>1
  <2>2. Kept(Kept(s, T), U) = Kept(s, U) /\ (e \in U => e \in T)
    BY <1>2, <2>1
  <2>3. /\ Kept(Append(s, e), T) = IF e \in T THEN Append(Kept(s, T), e) ELSE Kept(s, T)
        /\ Kept(Append(s, e), U) = IF e \in U THEN Append(Kept(s, U), e) ELSE Kept(s, U)
        /\ Kept(Append(Kept(s, T), e), U) = IF e \in U THEN Append(Kept(Kept(s, T), U), e) ELSE Kept(Kept(s, T), U)
    BY <2>1, KeptAppend
  <2> QED
    BY <2>2, <2>3
<1>3. Seq(S) \subseteq P
  <2> HIDE DEF P
  <2> QED
    BY <1>1, <1>2, InductionOnSequences
<1> QED
  BY <1>3

\* Keeping none,
LEMMA KeptNone ==
    ASSUME NEW S, NEW s \in Seq(S), NEW T, ToSet(s) \cap T = {}
    PROVE  Kept(s, T) = <<>>
<1>1. Kept(s, T) \in Seq(S) /\ ToSet(Kept(s, T)) = {}
  BY KeptElements
<1> QED
  BY <1>1, OfItsElements

\* and keeping all.
LEMMA KeptAll ==
    ASSUME NEW S, NEW T
    PROVE  \A s \in Seq(S) : ToSet(s) \subseteq T => Kept(s, T) = s
<1> DEFINE P == {s \in Seq(S) : ToSet(s) \subseteq T => Kept(s, T) = s}
<1>1. <<>> \in P
  BY KeptEmpty, EmptySeq
<1>2. ASSUME NEW s \in Seq(S), NEW e \in S, s \in P PROVE Append(s, e) \in P
  <2>1. Append(s, e) \in Seq(S) /\ ToSet(Append(s, e)) = ToSet(s) \cup {e}
    BY AppendProperties, ElementsOfAppend
  <2>2. Kept(Append(s, e), T) = IF e \in T THEN Append(Kept(s, T), e) ELSE Kept(s, T)
    BY KeptAppend
  <2> QED
    BY <1>2, <2>1, <2>2
<1>3. Seq(S) \subseteq P
  <2> HIDE DEF P
  <2> QED
    BY <1>1, <1>2, InductionOnSequences
<1> QED
  BY <1>3

\* A finite set as a sequence.
LEMMA SequenceOfSet ==
    ASSUME NEW S, IsFiniteSet(S)
    PROVE  SetToSeq(S) \in Seq(S) /\ ToSet(SetToSeq(S)) = S /\ IsInjective(SetToSeq(S))
<1> DEFINE n == Cardinality(S)
<1>1. n \in Nat /\ ExistsBijection(1..n, S)
  BY FS_CardinalityType
<1>2. PICK f : f \in Bijection(1..n, S)
  BY <1>1 DEF ExistsBijection
<1>3. f \in [1..n -> S] /\ IsInjective(f)
  BY <1>2 DEF Bijection, Injection
<1>4. SetToSeq(S) \in [1..n -> S] /\ IsInjective(SetToSeq(S))
  BY <1>3 DEF SetToSeq
<1> HIDE DEF n
<1>5. SetToSeq(S) \in Injection(1..n, S)
  BY <1>4 DEF Injection
<1>6. IsFiniteSet(1..n) /\ Cardinality(1..n) = Cardinality(S)
  BY <1>1, FS_Interval DEF n
<1>7. SetToSeq(S) \in Surjection(1..n, S)
  BY <1>5, <1>6, FS_Injection
<1>8. ToSet(SetToSeq(S)) = S
  BY <1>4, <1>7 DEF ToSet, Surjection
<1> QED
  BY <1>1, <1>4, <1>8, SeqDef

-----------------------------------------------------------------------------
(* Finite sets, and their greatest and least elements.                     *)

LEMMA InjectiveConcat ==
    ASSUME NEW S, NEW s \in Seq(S), NEW t \in Seq(S), IsInjective(s), IsInjective(t), ToSet(s) \cap ToSet(t) = {}
    PROVE  IsInjective(s \o t)
<1> DEFINE u == s \o t
           m == Len(s)
           n == Len(t)
<1>1. /\ Len(u) = m + n /\ m \in Nat /\ n \in Nat /\ DOMAIN s = 1..m /\ DOMAIN t = 1..n /\ DOMAIN u = 1..(m + n)
      /\ \A i \in 1..(m + n) : u[i] = IF i <= m THEN s[i] ELSE t[i - m]
  BY ConcatProperties, LenProperties
<1> HIDE DEF u, m, n
<1>2. ASSUME NEW i \in 1..(m + n), NEW j \in 1..(m + n), u[i] = u[j] PROVE i = j
  <2>1. i <= m \/ i - m \in 1..n
    BY <1>1
  <2>2. j <= m \/ j - m \in 1..n
    BY <1>1
  <2>3. CASE i <= m /\ j <= m
    <3>1. i \in 1..m /\ j \in 1..m /\ s[i] = s[j]
      BY <1>1, <1>2, <2>3
    <3> QED
      BY <1>1, <3>1 DEF IsInjective
  <2>4. CASE ~(i <= m) /\ ~(j <= m)
    <3>1. i - m \in 1..n /\ j - m \in 1..n /\ t[i - m] = t[j - m]
      BY <1>1, <1>2, <2>1, <2>2, <2>4
    <3>2. i - m = j - m
      BY <1>1, <3>1 DEF IsInjective
    <3> QED
      BY <1>1, <3>2
  <2>5. CASE i <= m /\ ~(j <= m)
    <3>1. i \in 1..m /\ j - m \in 1..n /\ s[i] = t[j - m]
      BY <1>1, <1>2, <2>2, <2>5
    <3>2. s[i] \in ToSet(s) /\ t[j - m] \in ToSet(t)
      BY <1>1, <3>1 DEF ToSet
    <3> QED
      BY <3>1, <3>2
  <2>6. CASE ~(i <= m) /\ j <= m
    <3>1. j \in 1..m /\ i - m \in 1..n /\ s[j] = t[i - m]
      BY <1>1, <1>2, <2>1, <2>6
    <3>2. s[j] \in ToSet(s) /\ t[i - m] \in ToSet(t)
      BY <1>1, <3>1 DEF ToSet
    <3> QED
      BY <3>1, <3>2
  <2> QED
    BY <2>3, <2>4, <2>5, <2>6
<1> QED
  BY <1>1, <1>2 DEF u, IsInjective

\* A sequence has finitely many elements.
LEMMA FiniteToSet ==
    ASSUME NEW S, NEW s \in Seq(S)
    PROVE  IsFiniteSet(ToSet(s))
<1>1. Len(s) \in Nat /\ s \in [1..Len(s) -> S] /\ DOMAIN s = 1..Len(s)
  BY LenProperties
<1>2. IsFiniteSet(1..Len(s))
  BY <1>1, FS_Interval
<1>3. s \in Surjection(1..Len(s), ToSet(s))
  BY <1>1 DEF Surjection, ToSet
<1> QED
  BY <1>2, <1>3, FS_Surjection

\* The image of a finite set.
LEMMA FiniteImage ==
    ASSUME NEW S, IsFiniteSet(S), NEW f
    PROVE  IsFiniteSet({f[x] : x \in S})
<1> DEFINE g == [x \in S |-> f[x]]
<1>1. g \in Surjection(S, {f[x] : x \in S})
  BY DEF Surjection
<1> QED
  BY <1>1, FS_Surjection

\* What a function makes of the elements of a sequence.
Mapped(f, s) == [i \in DOMAIN s |-> f[s[i]]]

\* A list mapped element by element.
LEMMA MappedElements ==
    ASSUME NEW S, NEW s \in Seq(S), NEW f
    PROVE  /\ Mapped(f, s) \in Seq(ToSet(Mapped(f, s))) /\ Len(Mapped(f, s)) = Len(s) /\ DOMAIN Mapped(f, s) = DOMAIN s
           /\ ToSet(Mapped(f, s)) = {f[x] : x \in ToSet(s)}
<1> DEFINE t == Mapped(f, s)
<1>1. Len(s) \in Nat /\ DOMAIN s = 1..Len(s)
  BY LenProperties
<1>2. DOMAIN t = 1..Len(s) /\ t = [i \in 1..Len(s) |-> t[i]] /\ \A i \in 1..Len(s) : t[i] = f[s[i]]
  BY <1>1 DEF Mapped
<1> HIDE DEF t
<1>3. \A i \in 1..Len(s) : t[i] \in ToSet(t)
  BY <1>2 DEF ToSet
<1>5. t \in [1..Len(s) -> ToSet(t)]
  BY <1>2, <1>3
<1>6. t \in Seq(ToSet(t))
  BY <1>1, <1>5, SeqDef
<1>7. Len(t) = Len(s)
  BY <1>1, <1>2, <1>6, LenProperties
<1>8. ToSet(t) = {f[x] : x \in ToSet(s)}
  BY <1>1, <1>2 DEF ToSet
<1> QED
  BY <1>1, <1>2, <1>6, <1>7, <1>8 DEF t

\* The greatest of some numbers, and the least.
LEMMA GreatestIs ==
    ASSUME NEW S, S \subseteq Nat, S # {}, NEW n \in Nat, \A x \in S : x <= n
    PROVE  Max(S) \in S
<1> DEFINE T == {n - x : x \in S}
<1>1. T \subseteq Nat /\ T # {}
  <2>1. \A x \in S : n - x \in Nat
    OBVIOUS
  <2>2. PICK x \in S : TRUE
    OBVIOUS
  <2>3. n - x \in T
    OBVIOUS
  <2> QED
    BY <2>1, <2>3
<1>2. PICK t \in T : \A u \in T : t <= u
  BY <1>1, LeastNumber
<1>3. PICK x \in S : t = n - x
  BY <1>2
<1>4. \A y \in S : x >= y
  <2> SUFFICES ASSUME NEW y \in S PROVE x >= y
    OBVIOUS
  <2>1. n - x <= n - y
    BY <1>2, <1>3
  <2> QED
    BY <2>1
<1> QED
  BY <1>4 DEF Max

\* The least of some numbers is one of them.
LEMMA LeastIs ==
    ASSUME NEW S, S \subseteq Nat, S # {}
    PROVE  Min(S) \in S
<1>1. PICK x \in S : \A y \in S : x <= y
  BY LeastNumber
<1> QED
  BY <1>1 DEF Min

=============================================================================
