--------------------------- MODULE SequenceFacts ---------------------------
(***************************************************************************)
(* Facts about sequences that the other proofs rest on: what FlattenSeq    *)
(* computes, and the order of prefixes.                                    *)
(*                                                                         *)
(* Facts about all numbers and all sequences are proved by induction in    *)
(* the form of sets: a set of numbers that has 0 and, with every number,   *)
(* the next one has all of them, since otherwise there were a least one    *)
(* that it lacks (WFMin of WellFoundedInduction).                          *)
(***************************************************************************)
EXTENDS Integers, Sequences, SequencesExt, SequenceTheorems,
        WellFoundedInduction, TLAPS

\* A set of numbers has a least element.
LEMMA Least ==
    ASSUME NEW T, T \subseteq Nat, T # {}
    PROVE  \E x \in T : \A y \in T : x <= y
<1> DEFINE R == OpToRel(<, Nat)
<1>1. IsWellFoundedOn(R, Nat)
  BY NatLessThanWellFounded
<1>2. PICK x \in T : \A y \in T : <<y, x>> \notin R
  <2> HIDE DEF R
  <2> QED BY <1>1, WFMin
<1>3. \A y \in T : ~ (y < x)
  BY <1>2 DEF OpToRel
<1> QED BY <1>3

\* Induction over the numbers.
LEMMA Induction ==
    ASSUME NEW S, 0 \in S, \A n \in Nat : n \in S => n + 1 \in S
    PROVE  Nat \subseteq S
<1> SUFFICES ASSUME NEW m \in Nat, m \notin S PROVE FALSE
  OBVIOUS
<1> DEFINE T == {n \in Nat : n \notin S}
<1>1. PICK x \in T : \A y \in T : x <= y
  <2>1. T \subseteq Nat /\ T # {}
    OBVIOUS
  <2> QED BY <2>1, Least
<1>2. x # 0 /\ x - 1 \in Nat /\ x - 1 \in S
  BY <1>1
<1> QED BY <1>1, <1>2

\* FlattenSeq is a recursive function: its value for each number of sequences
\* put together, as CHOOSE picks the function.
Parts(w, n) ==
    CHOOSE g : g = [i \in 1..n |-> IF i = 1 THEN w[i] ELSE g[i-1] \o w[i]]

LEMMA FlattenParts ==
    ASSUME NEW w, Len(w) # 0
    PROVE  FlattenSeq(w) = Parts(w, Len(w))[Len(w)]
BY DEF FlattenSeq, Parts

\* There is such a function.
LEMMA PartsDef ==
    ASSUME NEW w, NEW n \in Nat
    PROVE  /\ DOMAIN Parts(w, n) = 1..n
           /\ \A i \in 1..n :
                 Parts(w, n)[i] = IF i = 1 THEN w[i] ELSE Parts(w, n)[i-1] \o w[i]
<1> DEFINE Def(g, k) == g = [i \in 1..k |-> IF i = 1 THEN w[i] ELSE g[i-1] \o w[i]]
           S == {k \in Nat : \E g : Def(g, k)}
<1>1. 0 \in S
  <2> DEFINE e == [i \in 1..0 |-> w[i]]
  <2>1. Def(e, 0)
    OBVIOUS
  <2> QED BY <2>1
<1>2. \A k \in Nat : k \in S => k + 1 \in S
  <2> SUFFICES ASSUME NEW k \in Nat, \E g : Def(g, k)
               PROVE  \E h : Def(h, k + 1)
    <3> HIDE DEF Def
    <3> QED OBVIOUS
  <2> PICK g : Def(g, k)
    OBVIOUS
  <2> DEFINE h == [i \in 1..k+1 |->
                     IF i = k + 1 THEN (IF i = 1 THEN w[i] ELSE g[k] \o w[i])
                     ELSE g[i]]
  <2>1. ASSUME NEW i \in 1..k+1
        PROVE  h[i] = IF i = 1 THEN w[i] ELSE h[i-1] \o w[i]
    <3>1. CASE i = k + 1
      BY <3>1
    <3>2. CASE i \in 1..k
      <4>1. g[i] = IF i = 1 THEN w[i] ELSE g[i-1] \o w[i]
        BY <3>2
      <4>2. h[i] = g[i] /\ (i # 1 => h[i-1] = g[i-1])
        BY <3>2
      <4> QED BY <4>1, <4>2
    <3> QED BY <3>1, <3>2
  <2>2. h = [i \in 1..k+1 |-> h[i]]
    OBVIOUS
  <2>3. Def(h, k + 1)
    <3> HIDE DEF h
    <3> QED BY <2>1, <2>2
  <2> QED BY <2>3
<1>3. \E g : Def(g, n)
  <2> HIDE DEF S
  <2>1. Nat \subseteq S
    BY <1>1, <1>2, Induction
  <2> QED BY <2>1 DEF S
<1>4. Def(Parts(w, n), n)
  BY <1>3 DEF Parts
<1> HIDE DEF Def
<1> DEFINE q == Parts(w, n)
<1>5. Def(q, n)
  BY <1>4
<1> HIDE DEF q
<1>6. DOMAIN q = 1..n
  BY <1>5 DEF Def
<1>7. \A i \in 1..n : q[i] = IF i = 1 THEN w[i] ELSE q[i-1] \o w[i]
  BY <1>5 DEF Def
<1> QED BY <1>6, <1>7 DEF q

LEMMA PartsFirst ==
    ASSUME NEW w, NEW n \in Nat, n # 0
    PROVE  Parts(w, n)[1] = w[1]
BY PartsDef

LEMMA PartsStep ==
    ASSUME NEW w, NEW n \in Nat, NEW i \in 1..n, i + 1 \in 1..n
    PROVE  Parts(w, n)[i+1] = Parts(w, n)[i] \o w[i+1]
<1> DEFINE j == i + 1
<1>1. j \in 1..n /\ j # 1 /\ j - 1 = i
  OBVIOUS
<1> HIDE DEF j
<1>2. Parts(w, n)[j] = Parts(w, n)[j-1] \o w[j]
  BY <1>1, PartsDef
<1> QED BY <1>1, <1>2 DEF j

\* What is put together is a sequence of the elements.
LEMMA PartsType ==
    ASSUME NEW S, NEW w \in Seq(Seq(S)), NEW i \in 1..Len(w)
    PROVE  Parts(w, Len(w))[i] \in Seq(S)
<1> DEFINE P == Parts(w, Len(w))
           T == {k \in Nat : k \in 1..Len(w) => P[k] \in Seq(S)}
<1>1. P[1] = w[1]
  <2>1. Len(w) \in Nat /\ Len(w) # 0
    OBVIOUS
  <2> QED BY <2>1, PartsFirst
<1>2. \A k \in 1..Len(w) : w[k] \in Seq(S)
  OBVIOUS
<1> HIDE DEF P
<1>3. \A k \in Nat : k \in T => k + 1 \in T
  <2> SUFFICES ASSUME NEW k \in Nat, k \in T, k + 1 \in 1..Len(w)
               PROVE  P[k+1] \in Seq(S)
    OBVIOUS
  <2>1. CASE k = 0
    BY <2>1, <1>1, <1>2
  <2>2. CASE k # 0
    <3>1. P[k] \in Seq(S) /\ w[k+1] \in Seq(S)
      BY <2>2, <1>2
    <3>2. P[k+1] = P[k] \o w[k+1]
      <4>1. k \in 1..Len(w) /\ Len(w) \in Nat
        BY <2>2
      <4> QED BY <4>1, PartsStep, Zenon DEF P
    <3> QED BY <3>1, <3>2, ConcatProperties
  <2> QED BY <2>1, <2>2
<1>4. 0 \in T
  OBVIOUS
<1>5. Nat \subseteq T
  <2> HIDE DEF T
  <2> QED BY <1>3, <1>4, Induction
<1> QED BY <1>5 DEF P

LEMMA FlattenType ==
    ASSUME NEW S, NEW w \in Seq(Seq(S))
    PROVE  FlattenSeq(w) \in Seq(S)
<1>1. CASE Len(w) = 0
  <2>1. w = <<>>
    BY <1>1
  <2> QED BY <1>1, <2>1 DEF FlattenSeq
<1>2. CASE Len(w) # 0
  BY <1>2, FlattenParts, PartsType
<1> QED BY <1>1, <1>2

\* The first values depend on the first sequences only.
LEMMA PartsAgree ==
    ASSUME NEW w, NEW v, NEW m \in Nat, NEW n \in Nat, n <= m,
           \A i \in 1..n : w[i] = v[i], NEW j \in 1..n
    PROVE  Parts(w, m)[j] = Parts(v, n)[j]
<1> DEFINE P == Parts(w, m)
           Q == Parts(v, n)
           T == {k \in Nat : k \in 1..n => P[k] = Q[k]}
<1>1. P[1] = w[1] /\ Q[1] = v[1]
  BY PartsFirst
<1> HIDE DEF P, Q
<1>2. \A k \in Nat : k \in T => k + 1 \in T
  <2> SUFFICES ASSUME NEW k \in Nat, k \in T, k + 1 \in 1..n
               PROVE  P[k+1] = Q[k+1]
    OBVIOUS
  <2>1. CASE k = 0
    BY <2>1, <1>1
  <2>2. CASE k # 0
    <3>1. P[k] = Q[k] /\ w[k+1] = v[k+1]
      BY <2>2
    <3>2. P[k+1] = P[k] \o w[k+1] /\ Q[k+1] = Q[k] \o v[k+1]
      <4>1. k \in 1..n /\ k \in 1..m /\ k + 1 \in 1..m
        BY <2>2
      <4> QED BY <4>1, PartsStep, Zenon DEF P, Q
    <3> QED BY <3>1, <3>2
  <2> QED BY <2>1, <2>2
<1>3. 0 \in T
  OBVIOUS
<1>4. Nat \subseteq T
  <2> HIDE DEF T
  <2> QED BY <1>2, <1>3, Induction
<1> QED BY <1>4 DEF P, Q

LEMMA FlattenOne ==
    ASSUME NEW w, Len(w) = 1
    PROVE  FlattenSeq(w) = w[1]
BY FlattenParts, PartsDef

\* One more sequence is put at the end.
LEMMA FlattenAppend ==
    ASSUME NEW S, NEW w \in Seq(S), w # <<>>, NEW s \in S
    PROVE  FlattenSeq(Append(w, s)) = FlattenSeq(w) \o s
<1> DEFINE a == Append(w, s)
           n == Len(w)
<1>1. /\ a \in Seq(S) /\ Len(a) = n + 1 /\ n \in Nat \ {0}
      /\ \A i \in 1..n : a[i] = w[i]
      /\ a[n+1] = s
  BY AppendProperties, EmptySeq
<1> HIDE DEF a, n
<1>2. FlattenSeq(a) = Parts(a, n + 1)[n + 1]
  BY <1>1, FlattenParts
<1>3. Parts(a, n + 1)[n + 1] = Parts(a, n + 1)[n] \o s
  <2>1. n + 1 \in Nat /\ n \in 1..n+1 /\ n + 1 \in 1..n+1
    BY <1>1
  <2>2. Parts(a, n + 1)[n + 1] = Parts(a, n + 1)[n] \o a[n+1]
    BY <2>1, PartsStep
  <2> QED BY <1>1, <2>2
<1>4. Parts(a, n + 1)[n] = Parts(w, n)[n]
  <2>1. n + 1 \in Nat /\ n <= n + 1 /\ n \in 1..n
    BY <1>1
  <2>2. n \in Nat /\ \A i \in 1..n : a[i] = w[i]
    BY <1>1
  <2> QED BY <2>1, <2>2, PartsAgree
<1>5. FlattenSeq(w) = Parts(w, n)[n]
  BY <1>1, FlattenParts DEF n
<1> QED BY <1>2, <1>3, <1>4, <1>5 DEF a

\* Induction over the sequences: from each to the one with one more element.
LEMMA SeqInduction ==
    ASSUME NEW S, NEW T, <<>> \in T,
           \A s \in Seq(S), e \in S : s \in T => Append(s, e) \in T
    PROVE  Seq(S) \subseteq T
<1> DEFINE N == {n \in Nat : \A s \in Seq(S) : Len(s) = n => s \in T}
<1>1. 0 \in N
  <2>1. \A s \in Seq(S) : Len(s) = 0 => s = <<>>
    OBVIOUS
  <2> QED BY <2>1
<1>2. \A n \in Nat : n \in N => n + 1 \in N
  <2> SUFFICES ASSUME NEW n \in Nat, n \in N, NEW s \in Seq(S), Len(s) = n + 1
               PROVE  s \in T
    OBVIOUS
  <2>1. PICK t \in Seq(S), e \in S : s = Append(t, e)
    <3>1. s # <<>>
      OBVIOUS
    <3> QED BY <3>1, SequenceEmptyOrAppend
  <2>2. Len(t) = n
    BY <2>1, AppendProperties
  <2> QED BY <2>1, <2>2
<1>3. Nat \subseteq N
  <2> HIDE DEF N
  <2> QED BY <1>1, <1>2, Induction
<1> QED BY <1>3

\* Flattening the elements, one by one, gives the sequence.
LEMMA FlattenOnes ==
    ASSUME NEW S, NEW s \in Seq(S)
    PROVE  FlattenSeq([i \in DOMAIN s |-> <<s[i]>>]) = s
<1> DEFINE Ones(t) == [i \in DOMAIN t |-> <<t[i]>>]
           T == {t \in Seq(S) : FlattenSeq(Ones(t)) = t}
<1>1. <<>> \in T
  <2>1. Ones(<<>>) = <<>>
    OBVIOUS
  <2> HIDE DEF Ones
  <2>2. FlattenSeq(<<>>) = <<>>
    BY DEF FlattenSeq
  <2> QED BY <2>1, <2>2
<1>2. \A t \in Seq(S), e \in S : t \in T => Append(t, e) \in T
  <2> SUFFICES ASSUME NEW t \in Seq(S), NEW e \in S, FlattenSeq(Ones(t)) = t
               PROVE  Append(t, e) \in T
    OBVIOUS
  <2> DEFINE a == Append(t, e)
             n == Len(t)
  <2>1. /\ a \in Seq(S) /\ n \in Nat /\ Len(a) = n + 1 /\ DOMAIN a = 1..n+1
        /\ DOMAIN t = 1..n /\ a[n+1] = e /\ \A i \in 1..n : a[i] = t[i]
        /\ \A i \in 1..n : t[i] \in S
    BY AppendProperties
  <2> HIDE DEF a, n
  <2>2. CASE n = 0
    <3>1. t = <<>> /\ a = <<e>>
      BY <2>1, <2>2 DEF n, a
    <3>2. Len(Ones(<<e>>)) = 1 /\ Ones(<<e>>)[1] = <<e>>
      OBVIOUS
    <3> HIDE DEF Ones
    <3>3. FlattenSeq(Ones(a)) = <<e>>
      BY <3>1, <3>2, FlattenOne
    <3> QED BY <2>1, <3>1, <3>3 DEF a
  <2>3. CASE n # 0
    <3> DEFINE w == Ones(t)
    <3>1. w \in Seq(Seq(S)) /\ Len(w) = n /\ \A i \in 1..n : w[i] = <<t[i]>>
      BY <2>1
    <3>2. Ones(a) = Append(w, <<e>>)
      <4> DEFINE b == Ones(a)
                 c == Append(w, <<e>>)
      <4>1. b \in Seq(Seq(S)) /\ Len(b) = n + 1 /\ \A i \in 1..n+1 : b[i] = <<a[i]>>
        BY <2>1
      <4> HIDE DEF w, b
      <4>2. <<e>> \in Seq(S)
        OBVIOUS
      <4>3. c \in Seq(Seq(S)) /\ Len(c) = n + 1 /\ c[n+1] = <<e>>
            /\ \A i \in 1..n : c[i] = w[i]
        BY <2>1, <3>1, <4>2, AppendProperties
      <4> HIDE DEF c
      <4>4. ASSUME NEW i \in 1..n+1 PROVE b[i] = c[i]
        <5>1. CASE i = n + 1
          <6>1. b[n+1] = <<a[n+1]>> /\ a[n+1] = e
            BY <2>1, <4>1
          <6> QED BY <4>3, <5>1, <6>1
        <5>2. CASE i \in 1..n
          <6>1. b[i] = <<a[i]>> /\ a[i] = t[i] /\ w[i] = <<t[i]>>
            BY <2>1, <3>1, <4>1, <5>2
          <6> QED BY <4>3, <5>2, <6>1
        <5>3. i = n + 1 \/ i \in 1..n
          BY <2>1
        <5> QED BY <5>1, <5>2, <5>3
      <4>5. b = c
        <5>1. Len(b) = Len(c) /\ \A i \in 1..Len(b) : b[i] = c[i]
          BY <4>1, <4>3, <4>4
        <5> QED BY <4>1, <4>3, <5>1, SeqEqual
      <4> QED BY <4>5 DEF b, c
    <3> HIDE DEF w
    <3>3. w # <<>>
      BY <2>3, <3>1
    <3>4. FlattenSeq(Append(w, <<e>>)) = FlattenSeq(w) \o <<e>>
      <4> DEFINE u == <<e>>
                 U == Seq(S)
      <4>1. u \in U /\ w \in Seq(U)
        BY <3>1
      <4> HIDE DEF u, U
      <4>2. FlattenSeq(Append(w, u)) = FlattenSeq(w) \o u
        BY <3>3, <4>1, FlattenAppend
      <4> QED BY <4>2 DEF u
    <3>5. FlattenSeq(w) = t
      BY DEF w
    <3>6. t \o <<e>> = a
      BY DEF a
    <3> HIDE DEF Ones
    <3>7. FlattenSeq(Ones(a)) = a
      BY <3>2, <3>4, <3>5, <3>6
    <3> QED BY <2>1, <3>7 DEF a
  <2> QED BY <2>2, <2>3
<1>3. Seq(S) \subseteq T
  <2> HIDE DEF T
  <2> QED BY <1>1, <1>2, SeqInduction
<1> QED BY <1>3

\* What is in a sequence is its head or in its tail.
LEMMA HeadAndTail ==
    ASSUME NEW S, NEW s \in Seq(S), s # << >>
    PROVE  Tail(s) \in Seq(S) /\ \A x \in ToSet(s) : x = Head(s) \/ x \in ToSet(Tail(s))
<1>1. Len(s) \in Nat \ {0} /\ DOMAIN s = 1..Len(s)
  OBVIOUS
<1> DEFINE t == Tail(s)
<1>2. /\ t \in Seq(S) /\ Len(t) = Len(s) - 1
      /\ \A i \in 1..Len(t) : t[i] = s[i+1]
  BY HeadTailProperties
<1>3. Head(s) = s[1]
  OBVIOUS
<1> HIDE DEF t
<1>4. DOMAIN t = 1..Len(t)
  BY <1>2
<1>5. ASSUME NEW j \in DOMAIN s PROVE s[j] = s[1] \/ \E i \in DOMAIN t : t[i] = s[j]
  <2>1. CASE j = 1
    BY <2>1
  <2>2. CASE j # 1
    <3>1. j - 1 \in 1..Len(t) /\ (j - 1) + 1 = j
      BY <1>1, <1>2, <2>2
    <3>2. t[j - 1] = s[j]
      BY <1>2, <3>1
    <3> QED BY <1>4, <3>1, <3>2
  <2> QED BY <2>1, <2>2
<1>6. \A x \in ToSet(s) : x = s[1] \/ x \in ToSet(t)
  BY <1>5 DEF ToSet
<1> QED BY <1>2, <1>3, <1>6 DEF t

-----------------------------------------------------------------------------
(* Prefixes *)

\* Prefixes, element by element.
LEMMA PrefixPoints ==
    ASSUME NEW S, NEW s \in Seq(S), NEW t \in Seq(S)
    PROVE  IsPrefix(s, t) <=> /\ Len(s) <= Len(t)
                              /\ \A i \in 1..Len(s) : s[i] = t[i]
<1>1. Len(s) \in Nat /\ Len(t) \in Nat
  OBVIOUS
<1>2. SubSeq(s, 1, Len(s)) = s
  BY SubSeqFull
<1>3. CASE Len(s) <= Len(t)
  <2> DEFINE u == SubSeq(t, 1, Len(s))
  <2>1. \A i \in 1..Len(s) : t[i] \in S
    BY <1>1, <1>3
  <2>2. u \in Seq(S) /\ Len(u) = Len(s) /\ \A i \in 1..Len(s) : u[i] = t[i]
    BY <1>1, <2>1, SubSeqProperties
  <2> HIDE DEF u
  <2>3. (s = u) <=> \A i \in 1..Len(s) : s[i] = t[i]
    BY <1>1, <2>2, SeqEqual
  <2> QED BY <1>2, <1>3, <2>3 DEF IsPrefix, u
<1>4. CASE ~ (Len(s) <= Len(t))
  BY <1>4 DEF IsPrefix
<1> QED BY <1>3, <1>4

LEMMA PrefixTransitive ==
    ASSUME NEW S, NEW s \in Seq(S), NEW t \in Seq(S), NEW u \in Seq(S),
           IsPrefix(s, t), IsPrefix(t, u)
    PROVE  IsPrefix(s, u)
<1>1. /\ Len(s) <= Len(t) /\ \A i \in 1..Len(s) : s[i] = t[i]
      /\ Len(t) <= Len(u) /\ \A i \in 1..Len(t) : t[i] = u[i]
  BY PrefixPoints
<1>2. Len(s) \in Nat /\ Len(t) \in Nat /\ Len(u) \in Nat
  OBVIOUS
<1>3. Len(s) <= Len(u) /\ \A i \in 1..Len(s) : s[i] = u[i]
  BY <1>1, <1>2
<1> QED BY <1>3, PrefixPoints

\* Of two prefixes of a sequence one is a prefix of the other.
LEMMA PrefixesComparable ==
    ASSUME NEW S, NEW s \in Seq(S), NEW t \in Seq(S), NEW u \in Seq(S),
           IsPrefix(s, u), IsPrefix(t, u)
    PROVE  IsPrefix(s, t) \/ IsPrefix(t, s)
<1>1. /\ Len(s) <= Len(u) /\ \A i \in 1..Len(s) : s[i] = u[i]
      /\ Len(t) <= Len(u) /\ \A i \in 1..Len(t) : t[i] = u[i]
  BY PrefixPoints
<1>2. Len(s) \in Nat /\ Len(t) \in Nat
  OBVIOUS
<1>3. \/ Len(s) <= Len(t) /\ \A i \in 1..Len(s) : s[i] = t[i]
      \/ Len(t) <= Len(s) /\ \A i \in 1..Len(t) : t[i] = s[i]
  <2>1. CASE Len(s) <= Len(t)
    BY <1>1, <1>2, <2>1
  <2>2. CASE Len(t) <= Len(s)
    BY <1>1, <1>2, <2>2
  <2> QED BY <1>2, <2>1, <2>2
<1> QED BY <1>3, PrefixPoints

\* A prefix that is no shorter is the sequence itself.
LEMMA PrefixAntisymmetric ==
    ASSUME NEW S, NEW s \in Seq(S), NEW t \in Seq(S),
           IsPrefix(s, t), Len(t) <= Len(s)
    PROVE  s = t
<1>1. Len(s) = Len(t) /\ \A i \in 1..Len(s) : s[i] = t[i]
  <2>1. Len(s) <= Len(t) /\ \A i \in 1..Len(s) : s[i] = t[i]
    BY PrefixPoints
  <2>2. Len(s) \in Nat /\ Len(t) \in Nat
    OBVIOUS
  <2> QED BY <2>1, <2>2
<1> QED BY <1>1, SeqEqual

LEMMA PrefixConcat ==
    ASSUME NEW S, NEW s \in Seq(S), NEW t \in Seq(S)
    PROVE  IsPrefix(s, s \o t)
<1> DEFINE u == s \o t
<1>1. /\ u \in Seq(S) /\ Len(s) <= Len(u)
      /\ \A i \in 1..Len(s) : s[i] = u[i]
  BY ConcatProperties
<1> HIDE DEF u
<1>2. IsPrefix(s, u)
  BY <1>1, PrefixPoints
<1> QED BY <1>2 DEF u

LEMMA PrefixRefl ==
    ASSUME NEW S, NEW s \in Seq(S)
    PROVE  IsPrefix(s, s)
BY DEF IsPrefix

\* The set of prefixes and the relation agree.
LEMMA PrefixesOf ==
    ASSUME NEW S, NEW t \in Seq(S), NEW s
    PROVE  s \in Prefixes(t) <=> s \in Seq(S) /\ IsPrefix(s, t)
<1>1. ASSUME NEW l \in 0..Len(t)
      PROVE  SubSeq(t, 1, l) \in Seq(S) /\ IsPrefix(SubSeq(t, 1, l), t)
  <2> DEFINE u == SubSeq(t, 1, l)
  <2>1. \A i \in 1..l : t[i] \in S
    OBVIOUS
  <2>2. u \in Seq(S) /\ Len(u) = l /\ \A i \in 1..l : u[i] = t[i]
    BY <2>1, SubSeqProperties
  <2> HIDE DEF u
  <2>3. IsPrefix(u, t)
    BY <2>2, PrefixPoints
  <2> QED BY <2>2, <2>3 DEF u
<1>2. ASSUME s \in Seq(S), IsPrefix(s, t)
      PROVE  s \in Prefixes(t)
  <2>1. Len(s) \in 0..Len(t) /\ s = SubSeq(t, 1, Len(s))
    BY <1>2, SubSeqFull DEF IsPrefix
  <2> QED BY <2>1 DEF Prefixes
<1> QED BY <1>1, <1>2 DEF Prefixes

\* What is put before two sequences leaves one a prefix of the other.
LEMMA PrefixBehind ==
    ASSUME NEW S, NEW h \in Seq(S), NEW s \in Seq(S), NEW t \in Seq(S),
           IsPrefix(s, t)
    PROVE  IsPrefix(h \o s, h \o t)
<1>1. Len(s) <= Len(t) /\ \A i \in 1..Len(s) : s[i] = t[i]
  BY PrefixPoints
<1>2. Len(h) \in Nat /\ Len(s) \in Nat /\ Len(t) \in Nat
  OBVIOUS
<1> DEFINE a == h \o s
           b == h \o t
<1>3. /\ a \in Seq(S) /\ Len(a) = Len(h) + Len(s)
      /\ \A i \in 1..Len(h) + Len(s) :
            a[i] = IF i <= Len(h) THEN h[i] ELSE s[i - Len(h)]
  BY ConcatProperties
<1>4. /\ b \in Seq(S) /\ Len(b) = Len(h) + Len(t)
      /\ \A i \in 1..Len(h) + Len(t) :
            b[i] = IF i <= Len(h) THEN h[i] ELSE t[i - Len(h)]
  BY ConcatProperties
<1> HIDE DEF a, b
<1>5. Len(a) <= Len(b)
  BY <1>1, <1>2, <1>3, <1>4
<1>6. ASSUME NEW i \in 1..Len(a) PROVE a[i] = b[i]
  <2>1. i \in 1..Len(h) + Len(s) /\ i \in 1..Len(h) + Len(t)
    BY <1>1, <1>2, <1>3
  <2>2. ~ (i <= Len(h)) => i - Len(h) \in 1..Len(s)
    BY <1>2, <2>1
  <2> QED BY <1>1, <1>3, <1>4, <2>1, <2>2
<1>7. IsPrefix(a, b)
  BY <1>3, <1>4, <1>5, <1>6, PrefixPoints
<1> QED BY <1>7 DEF a, b
=============================================================================
