-------------------------- MODULE EventDataProofs --------------------------
(***************************************************************************)
(* Theorems about EventData, for any names, mappings, data, conditions,    *)
(* jobs and editors.                                                       *)
(***************************************************************************)
EXTENDS EventData, SequenceFacts, FiniteSetTheorems

-----------------------------------------------------------------------------
(* The name of a variable: the keys of its path, joined by dots. *)

DotFree(key) == ~ Contains(key, ".")

Dot == <<".">>

\* What FlattenSeq is given by Join.
Pieces(path) ==
    [i \in DOMAIN path |-> IF i = 1 THEN path[i] ELSE Dot \o path[i]]

LEMMA DotKey ==
    ASSUME NEW k \in Keys
    PROVE  Dot \in Keys /\ Dot \o k \in Keys
<1>1. Dot \in Keys
  BY EventDataAssumption DEF Dot, Keys
<1> QED BY <1>1, ConcatProperties DEF Keys

LEMMA KeyConcat ==
    ASSUME NEW a \in Keys, NEW b \in Keys
    PROVE  a \o b \in Keys
BY ConcatProperties DEF Keys

LEMMA KeyAssoc ==
    ASSUME NEW a \in Keys, NEW b \in Keys, NEW c \in Keys
    PROVE  (a \o b) \o c = a \o (b \o c)
<1>1. a \in Seq(Alphabet) /\ b \in Seq(Alphabet) /\ c \in Seq(Alphabet)
  BY DEF Keys
<1> QED BY <1>1, SMT

LEMMA PiecesType ==
    ASSUME NEW p \in Seq(Keys)
    PROVE  Pieces(p) \in Seq(Keys) /\ Len(Pieces(p)) = Len(p)
<1>1. DOMAIN p = 1..Len(p) /\ Len(p) \in Nat /\ \A i \in 1..Len(p) : p[i] \in Keys
  OBVIOUS
<1>2. \A i \in 1..Len(p) : Pieces(p)[i] \in Keys
  BY <1>1, DotKey DEF Pieces
<1>3. Pieces(p) = [i \in 1..Len(p) |-> Pieces(p)[i]]
  BY <1>1 DEF Pieces
<1> DEFINE P == Pieces(p)
<1> HIDE DEF P
<1>4. P \in Seq(Keys) /\ Len(P) = Len(p)
  BY <1>1, <1>2, <1>3 DEF P
<1> QED BY <1>4 DEF P

LEMMA JoinPieces ==
    ASSUME NEW p
    PROVE  Join(p) = FlattenSeq(Pieces(p))
BY DEF Join, Pieces, Dot

\* The name of a variable is a key like any other.
LEMMA JoinType ==
    ASSUME NEW p \in Seq(Keys)
    PROVE  Join(p) \in Keys
BY JoinPieces, PiecesType, FlattenType DEF Keys

LEMMA JoinOne ==
    ASSUME NEW k \in Keys
    PROVE  Join(<<k>>) = k
<1> DEFINE p == <<k>>
<1>1. p \in Seq(Keys) /\ Len(p) = 1 /\ p[1] = k
  OBVIOUS
<1>2. Len(Pieces(p)) = 1 /\ Pieces(p)[1] = k
  BY <1>1, PiecesType DEF Pieces
<1> QED BY <1>2, JoinPieces, FlattenOne

\* The name of a path with one more key.
LEMMA JoinAppend ==
    ASSUME NEW p \in Paths, NEW k \in Keys
    PROVE  Join(Append(p, k)) = Join(p) \o (Dot \o k)
<1> DEFINE a == Append(p, k)
<1>1. /\ a \in Seq(Keys) /\ Len(a) = Len(p) + 1
      /\ \A i \in 1..Len(p) : a[i] = p[i]
      /\ a[Len(p)+1] = k
      /\ p \in Seq(Keys) /\ p # <<>> /\ Len(p) \in Nat \ {0}
  BY AppendProperties, EmptySeq DEF Paths
<1> HIDE DEF a
<1>2. /\ Pieces(a) \in Seq(Keys) /\ Len(Pieces(a)) = Len(p) + 1
      /\ Pieces(p) \in Seq(Keys) /\ Len(Pieces(p)) = Len(p)
      /\ Dot \o k \in Keys
  BY <1>1, PiecesType, DotKey
<1> DEFINE b == Append(Pieces(p), Dot \o k)
           d == Dot \o k
<1>3. /\ b \in Seq(Keys) /\ Len(b) = Len(p) + 1
      /\ \A i \in 1..Len(p) : b[i] = Pieces(p)[i]
      /\ b[Len(p)+1] = d
  <2> HIDE DEF d
  <2>1. b = Append(Pieces(p), d) /\ d \in Keys
    BY <1>2 DEF d
  <2> HIDE DEF b
  <2> QED BY <1>2, <2>1, AppendProperties
<1>4. Pieces(a)[Len(p)+1] = d
  <2>1. Len(p) + 1 \in DOMAIN a /\ Len(p) + 1 # 1
    BY <1>1
  <2> QED BY <1>1, <2>1, Zenon DEF Pieces
<1>5. ASSUME NEW i \in 1..Len(p)
      PROVE  Pieces(a)[i] = Pieces(p)[i]
  <2>1. i \in DOMAIN a /\ i \in DOMAIN p /\ a[i] = p[i]
    BY <1>1
  <2> QED BY <2>1, Zenon DEF Pieces
<1> HIDE DEF b, d
<1>6. Pieces(a) = b
  <2>1. \A i \in 1..Len(p)+1 : Pieces(a)[i] = b[i]
    BY <1>1, <1>3, <1>4, <1>5
  <2> QED BY <1>2, <1>3, <2>1, SeqEqual
<1>7. Pieces(p) # <<>>
  BY <1>1, <1>2, EmptySeq
<1>8. FlattenSeq(b) = FlattenSeq(Pieces(p)) \o d
  BY <1>2, <1>7, FlattenAppend DEF b, d
<1> QED BY <1>6, <1>8, JoinPieces DEF a, d


\* Join from the other end.
LEMMA JoinCons ==
    ASSUME NEW k \in Keys, NEW p \in Paths
    PROVE  Join(<<k>> \o p) = k \o (Dot \o Join(p))
<1> DEFINE Holds(q) == Join(<<k>> \o q) = k \o (Dot \o Join(q))
           T == {q \in Seq(Keys) : q # <<>> => Holds(q)}
<1>1. <<>> \in T
  OBVIOUS
<1>2. ASSUME NEW q \in Seq(Keys), NEW e \in Keys, q \in T
      PROVE  Append(q, e) \in T
  <2>1. Append(q, e) \in Seq(Keys)
    BY AppendProperties
  <2>2. CASE q = <<>>
    <3>1. Append(q, e) = <<e>> /\ <<k>> \o Append(q, e) = Append(<<k>>, e)
      BY <2>2
    <3>2. <<k>> \in Paths
      BY DEF Paths
    <3>3. Join(Append(<<k>>, e)) = Join(<<k>>) \o (Dot \o e)
      BY <3>2, JoinAppend
    <3>4. Holds(Append(q, e))
      BY <3>1, <3>3, JoinOne
    <3> QED BY <2>1, <3>4
  <2>3. CASE q # <<>>
    <3> DEFINE h == <<k>> \o q
    <3>1. h \in Paths /\ q \in Paths
      BY <2>3 DEF Paths
    <3>2. <<k>> \o Append(q, e) = Append(h, e)
      OBVIOUS
    <3>3. Join(h) = k \o (Dot \o Join(q))
      BY <1>2, <2>3
    <3> HIDE DEF h
    <3>4. Join(Append(h, e)) = Join(h) \o (Dot \o e)
      BY <3>1, JoinAppend
    <3>5. Join(Append(q, e)) = Join(q) \o (Dot \o e)
      BY <3>1, JoinAppend
    <3> DEFINE j == Join(q)
               d == Dot \o e
    <3>6. j \in Keys /\ d \in Keys /\ Dot \in Keys /\ Dot \o j \in Keys
      BY JoinType, DotKey
    <3> HIDE DEF j, d
    <3>7. (k \o (Dot \o j)) \o d = k \o ((Dot \o j) \o d)
      <4> DEFINE dj == Dot \o j
      <4>1. dj \in Keys
        BY <3>6
      <4> HIDE DEF dj
      <4>2. (k \o dj) \o d = k \o (dj \o d)
        BY <3>6, <4>1, KeyAssoc, SMTT(30)
      <4> QED BY <4>2 DEF dj
    <3>8. (Dot \o j) \o d = Dot \o (j \o d)
      <4>1. Dot \in Keys /\ j \in Keys /\ d \in Keys
        BY <3>6
      <4> QED BY <4>1, KeyAssoc, SMTT(30)
    <3>9. Holds(Append(q, e))
      BY <3>2, <3>3, <3>4, <3>5, <3>7, <3>8 DEF j, d
    <3> QED BY <2>1, <3>9
  <2> QED BY <2>2, <2>3
<1>3. Seq(Keys) \subseteq T
  <2> HIDE DEF T
  <2> QED BY <1>1, <1>2, SeqInduction
<1> QED BY <1>3 DEF Paths

\* A key is cut at its last dot in one way only, and likewise at its first.
LEMMA LastDot ==
    ASSUME NEW s \in Keys, NEW t \in Keys, NEW k \in Keys, NEW l \in Keys,
           DotFree(k), DotFree(l), s \o (Dot \o k) = t \o (Dot \o l)
    PROVE  s = t /\ k = l
<1> DEFINE x == s \o (Dot \o k)
           y == t \o (Dot \o l)
<1>1. ASSUME NEW u \in Keys, NEW m \in Keys
      PROVE  /\ u \o (Dot \o m) \in Keys
             /\ Len(u \o (Dot \o m)) = Len(u) + 1 + Len(m)
             /\ \A i \in 1..Len(u) : (u \o (Dot \o m))[i] = u[i]
             /\ (u \o (Dot \o m))[Len(u)+1] = "."
             /\ \A i \in 1..Len(m) : (u \o (Dot \o m))[Len(u)+1+i] = m[i]
  BY EventDataAssumption DEF Dot, Keys
<1>2. /\ x \in Keys /\ Len(x) = Len(s) + 1 + Len(k)
      /\ \A i \in 1..Len(s) : x[i] = s[i]
      /\ x[Len(s)+1] = "."
      /\ \A i \in 1..Len(k) : x[Len(s)+1+i] = k[i]
  BY <1>1
<1>3. /\ Len(y) = Len(t) + 1 + Len(l)
      /\ \A i \in 1..Len(t) : y[i] = t[i]
      /\ y[Len(t)+1] = "."
      /\ \A i \in 1..Len(l) : y[Len(t)+1+i] = l[i]
  BY <1>1
<1>4. x = y
  OBVIOUS
<1>5. Len(s) \in Nat /\ Len(t) \in Nat /\ Len(k) \in Nat /\ Len(l) \in Nat
  BY DEF Keys
<1>6. \A i \in 1..Len(k) : k[i] # "."
  BY DEF DotFree, Contains
<1>7. \A i \in 1..Len(l) : l[i] # "."
  BY DEF DotFree, Contains
<1> HIDE DEF x, y
<1>8. ~ (Len(s) < Len(t))
  <2> SUFFICES ASSUME Len(s) < Len(t) PROVE FALSE
    OBVIOUS
  <2> DEFINE i == Len(t) - Len(s)
  <2>1. i \in 1..Len(k) /\ Len(s) + 1 + i = Len(t) + 1
    BY <1>2, <1>3, <1>4, <1>5
  <2> HIDE DEF i
  <2>2. k[i] = "."
    BY <1>2, <1>3, <1>4, <2>1
  <2> QED BY <1>6, <2>1, <2>2
<1>9. ~ (Len(t) < Len(s))
  <2> SUFFICES ASSUME Len(t) < Len(s) PROVE FALSE
    OBVIOUS
  <2> DEFINE i == Len(s) - Len(t)
  <2>1. i \in 1..Len(l) /\ Len(t) + 1 + i = Len(s) + 1
    BY <1>2, <1>3, <1>4, <1>5
  <2> HIDE DEF i
  <2>2. l[i] = "."
    BY <1>2, <1>3, <1>4, <2>1
  <2> QED BY <1>7, <2>1, <2>2
<1>10. Len(s) = Len(t) /\ Len(k) = Len(l)
  BY <1>2, <1>3, <1>4, <1>5, <1>8, <1>9
<1>11. s = t
  BY <1>2, <1>3, <1>4, <1>10, SeqEqual DEF Keys
<1>12. k = l
  BY <1>2, <1>3, <1>4, <1>10, SeqEqual DEF Keys
<1> QED BY <1>11, <1>12

AllDotFree(path) == \A i \in DOMAIN path : DotFree(path[i])

\* A dot separates the parts of a name, and is in it.
LEMMA DotInside ==
    ASSUME NEW s \in Keys, NEW k \in Keys
    PROVE  ~ DotFree(s \o (Dot \o k))
<1> DEFINE x == s \o (Dot \o k)
<1>1. Len(s) + 1 \in 1..Len(x) /\ x[Len(s)+1] = "."
  BY EventDataAssumption DEF Dot, Keys
<1> HIDE DEF x
<1>2. ~ DotFree(x)
  BY <1>1 DEF DotFree, Contains
<1> QED BY <1>2 DEF x

\* Different paths of keys without dots have different names: that is why the
\* variables of a valid mapping can be counted by their names.
LEMMA JoinInjective ==
    ASSUME NEW p \in Paths, NEW q \in Paths, AllDotFree(p), AllDotFree(q),
           Join(p) = Join(q)
    PROVE  p = q
<1> DEFINE T == {r \in Seq(Keys) : r # <<>> /\ AllDotFree(r) =>
                    \A o \in Paths : AllDotFree(o) /\ Join(r) = Join(o) => r = o}
<1>1. <<>> \in T
  OBVIOUS
<1>2. ASSUME NEW r \in Seq(Keys), NEW e \in Keys, r \in T
      PROVE  Append(r, e) \in T
  <2> DEFINE a == Append(r, e)
  <2>1. a \in Seq(Keys)
    BY AppendProperties
  <2> SUFFICES ASSUME AllDotFree(a), NEW o \in Paths, AllDotFree(o), Join(a) = Join(o)
               PROVE  a = o
    BY <2>1
  <2>2. PICK u \in Seq(Keys), f \in Keys : o = Append(u, f)
    BY SequenceEmptyOrAppend DEF Paths
  <2>3. DotFree(e) /\ DotFree(f) /\ AllDotFree(r) /\ AllDotFree(u)
    <3>1. ASSUME NEW v \in Seq(Keys), NEW g \in Keys, AllDotFree(Append(v, g))
          PROVE  DotFree(g) /\ AllDotFree(v)
      <4> DEFINE w == Append(v, g)
      <4>1. /\ DOMAIN w = 1..Len(v)+1 /\ w[Len(v)+1] = g
            /\ Len(v) \in Nat /\ DOMAIN v = 1..Len(v)
            /\ \A i \in 1..Len(v) : w[i] = v[i]
        OBVIOUS
      <4> HIDE DEF w
      <4>2. \A i \in 1..Len(v)+1 : DotFree(w[i])
        BY <3>1, <4>1 DEF AllDotFree, w
      <4> QED BY <4>1, <4>2 DEF AllDotFree
    <3> QED BY <2>2, <3>1
  <2>4. /\ r = <<>> => Join(a) = e
        /\ u = <<>> => Join(o) = f
    <3>1. \A g \in Keys : Append(<<>>, g) = <<g>>
      OBVIOUS
    <3> QED BY <2>2, <3>1, JoinOne
  <2>5. /\ r # <<>> => Join(a) = Join(r) \o (Dot \o e)
        /\ u # <<>> => Join(o) = Join(u) \o (Dot \o f)
    BY <2>2, JoinAppend DEF Paths
  <2>6. Join(r) \in Keys /\ Join(u) \in Keys
    BY JoinType
  <2>7. CASE r = <<>> /\ u = <<>>
    BY <2>2, <2>4, <2>7
  <2>8. CASE r = <<>> /\ u # <<>>
    BY <2>3, <2>4, <2>5, <2>6, <2>8, DotInside
  <2>9. CASE r # <<>> /\ u = <<>>
    BY <2>3, <2>4, <2>5, <2>6, <2>9, DotInside
  <2>10. CASE r # <<>> /\ u # <<>>
    <3>1. Join(r) \o (Dot \o e) = Join(u) \o (Dot \o f)
      BY <2>5, <2>10
    <3>2. Join(r) = Join(u) /\ e = f
      BY <2>3, <2>6, <3>1, LastDot
    <3>3. r = u
      BY <1>2, <2>3, <2>10, <3>2 DEF Paths
    <3> QED BY <2>2, <3>2, <3>3
  <2> QED BY <2>7, <2>8, <2>9, <2>10
<1>3. Seq(Keys) \subseteq T
  <2> HIDE DEF T
  <2> QED BY <1>1, <1>2, SeqInduction
<1> QED BY <1>3 DEF Paths


-----------------------------------------------------------------------------
(* The variables of an object, seen through a mapping *)

\* A mapping that PostEventType may store.
Valid(m) == IsObject(m, DeclaredTypes) /\ \A p \in DOMAIN m : AllDotFree(p)

\* The leaf r of the data belongs to the variable p of the mapping.
Belongs(r, p, m) ==
    r = p \/ (m[p] = "geo" /\ \E s \in GeoObject : r = p \o s)

LEMMA PathFacts ==
    ASSUME NEW p \in Paths
    PROVE  /\ p \in Seq(Keys) /\ p # <<>> /\ Len(p) \in Nat \ {0}
           /\ DOMAIN p = 1..Len(p)
BY EmptySeq DEF Paths

\* The keys of the object of a point are paths of the data.
LEMMA GeoPoint ==
    ASSUME NEW s \in GeoObject
    PROVE  s \in Paths /\ AllDotFree(s) /\ Len(s) = 1
<1>1. PICK c \in {"lat", "lon"} : s = <<<<c>>>>
  BY DEF GeoObject
<1>2. <<c>> \in Keys
  BY EventDataAssumption DEF Keys
<1>3. DotFree(<<c>>)
  BY DEF DotFree, Contains
<1> QED BY <1>1, <1>2, <1>3 DEF Paths, AllDotFree

\* ... below the path of the variable.
LEMMA BelowPoint ==
    ASSUME NEW p \in Paths, AllDotFree(p), NEW s \in GeoObject
    PROVE  /\ p \o s \in Paths /\ AllDotFree(p \o s)
           /\ Len(p \o s) = Len(p) + 1 /\ IsPrefix(p, p \o s)
<1>1. s \in Seq(Keys) /\ AllDotFree(s) /\ Len(s) = 1
  BY GeoPoint DEF Paths
<1>2. p \in Seq(Keys) /\ Len(p) \in Nat
  BY PathFacts
<1> DEFINE u == p \o s
<1>3. /\ u \in Seq(Keys) /\ Len(u) = Len(p) + 1 /\ DOMAIN u = 1..Len(p)+1
      /\ \A i \in 1..Len(p)+1 : u[i] = IF i <= Len(p) THEN p[i] ELSE s[i - Len(p)]
  BY <1>1, <1>2, ConcatProperties
<1>4. IsPrefix(p, u)
  BY <1>1, <1>2, PrefixConcat
<1> HIDE DEF u
<1>5. AllDotFree(u)
  <2> SUFFICES ASSUME NEW i \in 1..Len(p)+1 PROVE DotFree(u[i])
    BY <1>3 DEF AllDotFree
  <2>1. CASE i <= Len(p)
    <3>1. i \in DOMAIN p /\ u[i] = p[i]
      BY <1>2, <1>3, <2>1
    <3> QED BY <3>1 DEF AllDotFree
  <2>2. CASE ~ (i <= Len(p))
    <3>1. 1 \in DOMAIN s /\ u[i] = s[1]
      BY <1>1, <1>2, <1>3, <2>2
    <3> QED BY <1>1, <3>1 DEF AllDotFree
  <2> QED BY <2>1, <2>2
<1>6. u # <<>>
  BY <1>2, <1>3
<1> QED BY <1>3, <1>4, <1>5, <1>6 DEF u, Paths

LEMMA PrefixDotFree ==
    ASSUME NEW p \in Paths, AllDotFree(p), NEW q \in Seq(Keys), IsPrefix(q, p)
    PROVE  AllDotFree(q)
<1>1. /\ Len(q) <= Len(p) /\ \A i \in 1..Len(q) : q[i] = p[i]
      /\ p \in Seq(Keys)
  BY PathFacts, PrefixPoints
<1>2. DOMAIN q = 1..Len(q) /\ DOMAIN p = 1..Len(p) /\ Len(p) \in Nat /\ Len(q) \in Nat
  BY <1>1
<1> QED BY <1>1, <1>2 DEF AllDotFree

\* Only the geo variables of a valid mapping are skipped, on paths without dots.
LEMMA SkippedIsGeo ==
    ASSUME NEW m, Valid(m), NEW r \in Paths, AllDotFree(r),
           NEW q \in SkippedAt(r, GeoVars(m))
    PROVE  q \in DOMAIN m /\ m[q] = "geo" /\ IsPrefix(q, r) /\ q \in Paths
<1>1. /\ q \in Prefixes(r) /\ q # <<>> /\ Join(q) \in GeoVars(m)
      /\ r \in Seq(Keys)
  BY PathFacts DEF SkippedAt
<1>2. q \in Seq(Keys) /\ IsPrefix(q, r)
  BY <1>1, PrefixesOf
<1>3. q \in Paths /\ AllDotFree(q)
  BY <1>1, <1>2, PrefixDotFree DEF Paths
<1>4. PICK g \in DOMAIN m : m[g] = "geo" /\ Join(q) = Join(g)
  BY <1>1 DEF GeoVars
<1>5. g \in Paths /\ AllDotFree(g)
  BY DEF Valid, IsObject
<1> QED BY <1>2, <1>3, <1>4, <1>5, JoinInjective

\* Nothing above a variable of the mapping is one.
LEMMA NoVariableInside ==
    ASSUME NEW m, Valid(m), NEW q \in DOMAIN m, NEW r \in Paths,
           IsStrictPrefix(r, q)
    PROVE  SkippedAt(r, GeoVars(m)) = {}
<1>1. q \in Paths /\ AllDotFree(q) /\ IsPrefix(r, q) /\ r # q
  BY DEF Valid, IsObject, IsStrictPrefix
<1>2. AllDotFree(r) /\ r \in Seq(Keys) /\ q \in Seq(Keys)
  BY <1>1, PathFacts, PrefixDotFree
<1> SUFFICES ASSUME NEW t \in SkippedAt(r, GeoVars(m)) PROVE FALSE
  OBVIOUS
<1>3. t \in DOMAIN m /\ IsPrefix(t, r) /\ t \in Seq(Keys)
  BY <1>2, SkippedIsGeo, PathFacts
<1>4. IsPrefix(t, q)
  BY <1>1, <1>2, <1>3, PrefixTransitive
<1>5. t = q
  BY <1>3, <1>4 DEF Valid, IsObject
<1>6. Len(q) <= Len(r)
  BY <1>3, <1>5 DEF IsPrefix
<1> QED BY <1>1, <1>2, <1>6, PrefixAntisymmetric

\* A leaf that belongs to a variable of the mapping is counted as that variable.
LEMMA BelongsToVar ==
    ASSUME NEW m, Valid(m), NEW p \in DOMAIN m, NEW r, Belongs(r, p, m)
    PROVE  /\ r \in Paths
           /\ SkippedAt(r, GeoVars(m)) \subseteq {p}
           /\ m[p] = "geo" => SkippedAt(r, GeoVars(m)) = {p}
           /\ VarOf(r, GeoVars(m)) = Join(p)
           /\ r # p => Join(r) # Join(p)
<1> DEFINE G == GeoVars(m)
<1>1. p \in Paths /\ AllDotFree(p) /\ p \in Seq(Keys)
  BY PathFacts DEF Valid, IsObject
<1>2. r \in Paths /\ AllDotFree(r) /\ IsPrefix(p, r) /\ r \in Seq(Keys)
  <2>1. CASE r = p
    BY <1>1, <2>1, PrefixRefl
  <2>2. CASE m[p] = "geo" /\ \E s \in GeoObject : r = p \o s
    BY <1>1, <2>2, BelowPoint, PathFacts
  <2> QED BY <2>1, <2>2 DEF Belongs
<1>3. SkippedAt(r, G) \subseteq {p}
  <2> SUFFICES ASSUME NEW q \in SkippedAt(r, G) PROVE q = p
    OBVIOUS
  <2>1. q \in DOMAIN m /\ IsPrefix(q, r) /\ q \in Seq(Keys)
    BY <1>2, SkippedIsGeo, PathFacts
  <2>2. IsPrefix(q, p) \/ IsPrefix(p, q)
    BY <1>1, <1>2, <2>1, PrefixesComparable
  <2> QED BY <2>1, <2>2 DEF Valid, IsObject
<1>4. ASSUME m[p] = "geo"
      PROVE  p \in SkippedAt(r, G)
  <2>1. p \in Prefixes(r)
    BY <1>1, <1>2, PrefixesOf
  <2>2. Join(p) \in G
    BY <1>4 DEF GeoVars
  <2> QED BY <1>1, <2>1, <2>2 DEF SkippedAt, Paths
<1>5. VarOf(r, G) = Join(p)
  <2>1. CASE SkippedAt(r, G) = {}
    <3>1. r = p
      BY <1>4, <2>1 DEF Belongs
    <3> QED BY <2>1, <3>1 DEF VarOf
  <2>2. CASE SkippedAt(r, G) = {p}
    <3> DEFINE c == CHOOSE q \in SkippedAt(r, G) :
                        \A t \in SkippedAt(r, G) : Len(q) <= Len(t)
    <3>1. Len(p) <= Len(p)
      BY <1>1, PathFacts
    <3>2. c = p
      BY <2>2, <3>1
    <3> QED BY <2>2, <3>2 DEF VarOf
  <2> QED BY <1>3, <2>1, <2>2
<1>6. r # p => Join(r) # Join(p)
  BY <1>1, <1>2, JoinInjective
<1> QED BY <1>2, <1>3, <1>4, <1>5, <1>6

\* The variables of a valid mapping are counted by its leaves.
LEMMA MappingVars ==
    ASSUME NEW m, Valid(m)
    PROVE  /\ VarsOf(m, {}) = {Join(p) : p \in DOMAIN m}
           /\ IsFiniteSet(VarsOf(m, {}))
<1>1. \A p \in DOMAIN m : SkippedAt(p, {}) = {}
  BY DEF SkippedAt
<1>2. \A p \in DOMAIN m : m[p] # "empty"
  BY DEF Valid, IsObject, DeclaredTypes
<1>3. VarsOf(m, {}) = {Join(p) : p \in DOMAIN m}
  BY <1>1, <1>2 DEF VarsOf, VarOf, HasVar
<1> DEFINE f == [p \in DOMAIN m |-> Join(p)]
           T == {Join(p) : p \in DOMAIN m}
<1>4. f \in Surjection(DOMAIN m, T)
  BY DEF Surjection
<1>5. IsFiniteSet(T)
  BY <1>4, FS_Surjection DEF Valid, IsObject
<1> QED BY <1>3, <1>5

\* The kind of a variable is that of one of the leaves counted as it.
LEMMA FoundKind ==
    ASSUME NEW obj, NEW G, NEW found \in GetVars(obj, G)
    PROVE  /\ DOMAIN found = VarsOf(obj, G)
           /\ \A k \in VarsOf(obj, G) :
                \E r \in DOMAIN obj :
                   /\ HasVar(obj, r, G)
                   /\ VarOf(r, G) = k
                   /\ found[k] = IF Join(r) = k /\ obj[r] \in ArrayKinds
                                 THEN "array" ELSE "scalar"
BY DEF GetVars


-----------------------------------------------------------------------------
(* What verification and mapping together accept *)

\* The data of a geo variable is the object of a point.
IsPoint(m, data, p) ==
    /\ m[p] = "geo"
    /\ {t \in DOMAIN data : IsPrefix(p, t)} = {p \o s : s \in GeoObject}

\* What Elasticsearch takes belongs to a variable of the mapping, or stands
\* where the mapping has an object.
LEMMA Taken ==
    ASSUME NEW m, Valid(m), NEW data, IsObject(data, Kinds),
           EsTakes(m, data), NEW r \in DOMAIN data
    PROVE  \/ \E p \in DOMAIN m :
                 \/ r = p /\ data[r] \in {"scalar", "array", "null", "none"}
                 \/ /\ IsPoint(m, data, p)
                    /\ \E s \in GeoObject : r = p \o s
                    /\ data[r] = "scalar"
           \/ /\ data[r] \in NoObject \cup {"empty"}
              /\ \E q \in DOMAIN m : IsStrictPrefix(r, q)
<1>1. CASE EsTakesGeo(m, data, r)
  <2>1. PICK q \in DOMAIN m :
           /\ m[q] = "geo"
           /\ {t \in DOMAIN data : IsPrefix(q, t)} = {q \o s : s \in GeoObject}
           /\ IsPrefix(q, r)
           /\ data[r] = "scalar"
    BY <1>1 DEF EsTakesGeo
  <2>2. r \in {q \o s : s \in GeoObject}
    BY <2>1
  <2> QED BY <2>1, <2>2 DEF IsPoint
<1> QED BY <1>1 DEF EsTakes

\* A leaf of the data stands for a variable of the mapping, or in the place of
\* an object around it.
Covers(r, p, m) == Belongs(r, p, m) \/ IsStrictPrefix(r, p)

LEMMA BelongsBelow ==
    ASSUME NEW m, Valid(m), NEW p \in DOMAIN m, NEW r, Belongs(r, p, m)
    PROVE  IsPrefix(p, r)
<1>1. p \in Paths /\ AllDotFree(p) /\ p \in Seq(Keys)
  BY PathFacts DEF Valid, IsObject
<1> QED BY <1>1, PrefixRefl, BelowPoint DEF Belongs

\* What stands in the place of an object is counted under its own name, which
\* is not that of a variable.
LEMMA InPlaceOf ==
    ASSUME NEW m, Valid(m), NEW p \in DOMAIN m, NEW r \in Paths,
           IsStrictPrefix(r, p)
    PROVE  /\ VarOf(r, GeoVars(m)) = Join(r)
           /\ SkippedAt(r, GeoVars(m)) = {}
           /\ \A o \in DOMAIN m : Join(r) # Join(o)
           /\ \A o \in DOMAIN m : ~ IsPrefix(o, r)
<1>1. SkippedAt(r, GeoVars(m)) = {}
  BY NoVariableInside
<1>2. p \in Paths /\ AllDotFree(p) /\ IsPrefix(r, p) /\ r # p
  BY DEF Valid, IsObject, IsStrictPrefix
<1>3. r \in Seq(Keys) /\ p \in Seq(Keys) /\ AllDotFree(r)
  BY <1>2, PathFacts, PrefixDotFree
<1>4. ASSUME NEW o \in DOMAIN m, IsPrefix(o, r) PROVE FALSE
  <2>1. o \in Seq(Keys)
    BY PathFacts DEF Valid, IsObject
  <2>2. IsPrefix(o, p)
    BY <1>2, <1>3, <1>4, <2>1, PrefixTransitive
  <2>3. o = p
    BY <2>2 DEF Valid, IsObject
  <2>4. Len(p) <= Len(r)
    BY <1>4, <2>3 DEF IsPrefix
  <2> QED BY <1>2, <1>3, <2>4, PrefixAntisymmetric
<1>5. ASSUME NEW o \in DOMAIN m, Join(r) = Join(o) PROVE FALSE
  <2>1. o \in Paths /\ AllDotFree(o)
    BY DEF Valid, IsObject
  <2>2. r = o
    BY <1>3, <1>5, <2>1, JoinInjective
  <2>3. IsPrefix(o, r)
    BY <1>3, <2>2, PrefixRefl
  <2> QED BY <1>4, <2>3
<1> QED BY <1>1, <1>4, <1>5 DEF VarOf

\* Two leaves that cover the same variable are counted as one.
LEMMA CoversOne ==
    ASSUME NEW m, Valid(m), NEW data, IsObject(data, Kinds), NEW p \in DOMAIN m,
           NEW r \in DOMAIN data, Covers(r, p, m),
           NEW t \in DOMAIN data, Covers(t, p, m)
    PROVE  /\ VarOf(r, GeoVars(m)) = VarOf(t, GeoVars(m))
           /\ IsStrictPrefix(r, p) => r = t
<1>1. /\ p \in Seq(Keys) /\ r \in Seq(Keys) /\ t \in Seq(Keys)
  BY PathFacts DEF Valid, IsObject
<1>2. ASSUME NEW a \in DOMAIN data, NEW b \in DOMAIN data,
             a \in Seq(Keys), b \in Seq(Keys),
             IsStrictPrefix(a, p), Covers(b, p, m)
      PROVE  a = b
  <2>1. IsPrefix(a, p)
    BY <1>2 DEF IsStrictPrefix
  <2>2. CASE Belongs(b, p, m)
    <3>1. IsPrefix(a, b)
      BY <1>1, <1>2, <2>1, <2>2, BelongsBelow, PrefixTransitive
    <3> QED BY <3>1 DEF IsObject
  <2>3. CASE IsStrictPrefix(b, p)
    <3>1. IsPrefix(b, p)
      BY <2>3 DEF IsStrictPrefix
    <3>2. IsPrefix(a, b) \/ IsPrefix(b, a)
      BY <1>1, <1>2, <2>1, <3>1, PrefixesComparable
    <3> QED BY <3>2 DEF IsObject
  <2> QED BY <1>2, <2>2, <2>3 DEF Covers
<1>3. CASE IsStrictPrefix(r, p) \/ IsStrictPrefix(t, p)
  BY <1>1, <1>2, <1>3
<1>4. CASE Belongs(r, p, m) /\ Belongs(t, p, m) /\ ~ IsStrictPrefix(r, p)
  BY <1>4, BelongsToVar
<1> QED BY <1>3, <1>4 DEF Covers

\* What StoredConforms says of an event that is stored.
Accounted(m, data) ==
    /\ \A p \in DOMAIN m : Has(m, data, p) \/ Hidden(m, data, p)
    /\ \A r \in DOMAIN data :
          \E p \in DOMAIN m : IsPrefix(p, r) \/ Hides(m, data, r, p)

\* The leaf of a variable of the mapping is the one it is found by, and has the
\* kind that is declared.
LEMMA LeafKind ==
    ASSUME NEW m, Valid(m), NEW data, IsObject(data, Kinds),
           NEW found \in GetVars(data, GeoVars(m)),
           VerifyEvent(m, found), EsTakes(m, data),
           NEW p \in DOMAIN m, p \in DOMAIN data
    PROVE  Has(m, data, p)
<1> DEFINE G == GeoVars(m)
<1>1. p \in Paths /\ AllDotFree(p) /\ p \in Seq(Keys) /\ IsPrefix(p, p)
  BY PathFacts, PrefixRefl DEF Valid, IsObject
<1>2. \A q \in DOMAIN m : ~ IsStrictPrefix(p, q)
  BY <1>1, InPlaceOf
<1>3. data[p] \in {"scalar", "array", "null", "none"}
  BY <1>2, Taken
<1>4. Join(p) \in VarsOf(data, G)
  <2>1. VarOf(p, G) = Join(p)
    BY BelongsToVar DEF Belongs
  <2> QED BY <1>3, <2>1 DEF VarsOf, HasVar
<1>5. PICK r \in DOMAIN data :
         /\ VarOf(r, G) = Join(p)
         /\ found[Join(p)] = IF Join(r) = Join(p) /\ data[r] \in ArrayKinds
                             THEN "array" ELSE "scalar"
  BY <1>4, FoundKind
<1>6. r = p
  <2>1. r \in Paths
    BY DEF IsObject
  <2>2. ASSUME NEW o \in DOMAIN m, IsStrictPrefix(r, o) PROVE FALSE
    BY <1>5, <2>1, <2>2, InPlaceOf
  <2>3. PICK o \in DOMAIN m : Belongs(r, o, m)
    BY <2>2, Taken DEF Belongs, IsPoint
  <2>4. Join(o) = Join(p)
    BY <1>5, <2>3, BelongsToVar
  <2>5. o = p
    BY <2>4, JoinInjective DEF Valid, IsObject
  <2>6. IsPrefix(p, r)
    BY <2>3, <2>5, BelongsBelow
  <2> QED BY <2>6 DEF IsObject
<1>7. found[Join(p)] = "array" <=> m[p] = "array"
  BY <1>4, FoundKind DEF VerifyEvent
<1>8. data[p] \in {"array", "none"} <=> m[p] = "array"
  BY <1>3, <1>5, <1>6, <1>7 DEF ArrayKinds
<1> QED BY <1>3, <1>8 DEF Has

\* The leaves below a geo variable are the object of a point.
LEMMA PointHas ==
    ASSUME NEW m, Valid(m), NEW data, IsObject(data, Kinds), EsTakes(m, data),
           NEW p \in DOMAIN m, IsPoint(m, data, p)
    PROVE  Has(m, data, p)
<1>1. p \in Paths /\ AllDotFree(p) /\ p \in Seq(Keys)
  BY PathFacts DEF Valid, IsObject
<1>2. ASSUME NEW s \in GeoObject
      PROVE  data[p \o s] = "scalar"
  <2>1. /\ p \o s \in DOMAIN data /\ p \o s \in Paths /\ IsPrefix(p, p \o s)
        /\ p \o s # p
    <3>1. /\ p \o s \in Paths /\ IsPrefix(p, p \o s)
          /\ Len(p \o s) = Len(p) + 1 /\ Len(p) \in Nat
      BY <1>1, BelowPoint, PathFacts
    <3>2. p \o s \in DOMAIN data
      BY DEF IsPoint
    <3>3. p \o s # p
      BY <3>1
    <3> QED BY <3>1, <3>2, <3>3
  <2> DEFINE u == p \o s
  <2> HIDE DEF u
  <2>2. u \in DOMAIN data /\ u \in Paths /\ IsPrefix(p, u) /\ u # p
    BY <2>1 DEF u
  <2>3. u \notin DOMAIN m
    BY <2>2 DEF Valid, IsObject
  <2>4. ~ \E q \in DOMAIN m : IsStrictPrefix(u, q)
    BY <2>2, InPlaceOf
  <2>5. data[u] = "scalar"
    BY <2>2, <2>3, <2>4, Taken
  <2> QED BY <2>5 DEF u
<1> QED BY <1>2 DEF Has, IsPoint

\* An event that verifyEventReadyToPost passes and the strict mapping takes:
\* each leaf that is counted covers a variable of the mapping, and no two of
\* them the same; as there are as many, each covers just one, and every variable
\* is covered.
LEMMA StoredMeansAccounted ==
    ASSUME NEW m, Valid(m), NEW data, IsObject(data, Kinds),
           NEW found \in GetVars(data, GeoVars(m)),
           VerifyEvent(m, found), EsTakes(m, data)
    PROVE  Accounted(m, data)
<1> DEFINE G == GeoVars(m)
           V == VarsOf(data, G)
           Counted(k, r) == HasVar(data, r, G) /\ VarOf(r, G) = k
           LeafOf(k) == CHOOSE r \in DOMAIN data : Counted(k, r)
           VariableOf(k) == CHOOSE p \in DOMAIN m : Covers(LeafOf(k), p, m)
           g == [k \in V |-> Join(VariableOf(k))]
<1>1. ASSUME NEW r \in DOMAIN data
      PROVE  \E p \in DOMAIN m : Covers(r, p, m)
  BY Taken DEF Covers, Belongs, IsPoint
<1>2. ASSUME NEW k \in V
      PROVE  /\ LeafOf(k) \in DOMAIN data
             /\ HasVar(data, LeafOf(k), G)
             /\ VarOf(LeafOf(k), G) = k
             /\ VariableOf(k) \in DOMAIN m
             /\ Covers(LeafOf(k), VariableOf(k), m)
  <2>1. \E r \in DOMAIN data : Counted(k, r)
    BY DEF VarsOf
  <2>2. LeafOf(k) \in DOMAIN data /\ Counted(k, LeafOf(k))
    BY <2>1
  <2>3. \E p \in DOMAIN m : Covers(LeafOf(k), p, m)
    BY <1>1, <2>2
  <2> QED BY <2>2, <2>3
<1> HIDE DEF LeafOf, VariableOf
<1>3. ASSUME NEW k \in V, NEW l \in V, NEW p \in DOMAIN m,
             Covers(LeafOf(k), p, m), Covers(LeafOf(l), p, m)
      PROVE  k = l
  <2>1. VarOf(LeafOf(k), G) = VarOf(LeafOf(l), G)
    BY <1>2, <1>3, CoversOne
  <2> QED BY <1>2, <2>1
<1>4. g \in Injection(V, VarsOf(m, {}))
  <2>1. g \in [V -> VarsOf(m, {})]
    <3>1. \A k \in V : Join(VariableOf(k)) \in VarsOf(m, {})
      BY <1>2, MappingVars
    <3> HIDE DEF V
    <3> QED BY <3>1
  <2>2. ASSUME NEW k \in V, NEW l \in V, g[k] = g[l] PROVE k = l
    <3>1. Join(VariableOf(k)) = Join(VariableOf(l))
      BY <2>2
    <3>2. VariableOf(k) = VariableOf(l)
      BY <1>2, <3>1, JoinInjective DEF Valid, IsObject
    <3> QED BY <1>2, <1>3, <3>2
  <2> HIDE DEF V, g
  <2>3. \A k, l \in V : g[k] = g[l] => k = l
    BY <2>2
  <2> QED BY <2>1, <2>3 DEF Injection, IsInjective
<1>5. g \in Surjection(V, VarsOf(m, {}))
  <2>1. Cardinality(V) = Cardinality(VarsOf(m, {}))
    BY FoundKind DEF VerifyEvent
  <2> QED BY <1>4, <2>1, MappingVars, FS_Injection
<1>6. ASSUME NEW p \in DOMAIN m
      PROVE  \E k \in V : VariableOf(k) = p
  <2>1. Join(p) \in VarsOf(m, {})
    BY MappingVars
  <2>2. PICK k \in V : g[k] = Join(p)
    BY <1>5, <2>1 DEF Surjection
  <2>3. Join(VariableOf(k)) = Join(p)
    BY <2>2
  <2> QED BY <1>2, <2>3, JoinInjective DEF Valid, IsObject
<1> HIDE DEF g
<1>7. ASSUME NEW k \in V, NEW p \in DOMAIN m, VariableOf(k) = p,
             IsStrictPrefix(LeafOf(k), p)
      PROVE  Hides(m, data, LeafOf(k), p)
  <2> DEFINE r == LeafOf(k)
  <2>1. r \in DOMAIN data /\ r \in Paths /\ HasVar(data, r, G)
    BY <1>2 DEF IsObject
  <2>2. /\ SkippedAt(r, G) = {}
        /\ \A o \in DOMAIN m : ~ IsPrefix(o, r)
    BY <1>7, <2>1, InPlaceOf
  <2>3. ~ \E o \in DOMAIN m : Belongs(r, o, m)
    BY <2>2, BelongsBelow
  <2>4. data[r] \in NoObject \cup {"empty"}
    BY <2>1, <2>3, Taken DEF Belongs, IsPoint
  <2>5. data[r] # "empty"
    BY <2>1, <2>2 DEF HasVar
  <2>6. ASSUME NEW o \in DOMAIN m, IsStrictPrefix(r, o) PROVE o = p
    <3>1. PICK l \in V : VariableOf(l) = o
      BY <1>6
    <3>2. k = l
      BY <1>2, <1>3, <2>6, <3>1 DEF Covers
    <3> QED BY <1>7, <3>1, <3>2
  <2> QED BY <1>7, <2>4, <2>5, <2>6 DEF Hides
<1>8. ASSUME NEW p \in DOMAIN m
      PROVE  Has(m, data, p) \/ Hidden(m, data, p)
  <2>1. PICK k \in V : VariableOf(k) = p
    BY <1>6
  <2> DEFINE r == LeafOf(k)
  <2>2. r \in DOMAIN data /\ Covers(r, p, m)
    BY <1>2, <2>1
  <2>3. CASE IsStrictPrefix(r, p)
    BY <1>7, <2>1, <2>2, <2>3 DEF Hidden
  <2>4. CASE r = p
    BY <2>2, <2>4, LeafKind
  <2>5. CASE Belongs(r, p, m) /\ r # p
    <3>1. IsPrefix(p, r)
      BY <2>5, BelongsBelow
    <3>2. PICK o \in DOMAIN m : r = o \/ (IsPoint(m, data, o) /\ IsPrefix(o, r))
      <4>1. ~ \E q \in DOMAIN m : IsStrictPrefix(r, q)
        BY <2>2, <3>1, InPlaceOf DEF IsObject
      <4>2. PICK o \in DOMAIN m :
               r = o \/ (IsPoint(m, data, o) /\ \E s \in GeoObject : r = o \o s)
        BY <2>2, <4>1, Taken
      <4>3. o \in Paths /\ AllDotFree(o)
        BY DEF Valid, IsObject
      <4>4. \A s \in GeoObject : IsPrefix(o, o \o s)
        BY <4>3, BelowPoint
      <4> QED BY <4>2, <4>4
    <3>3. o = p
      <4>1. IsPrefix(o, r) /\ o \in Seq(Keys) /\ p \in Seq(Keys) /\ r \in Seq(Keys)
        BY <2>2, <3>2, PathFacts, PrefixRefl DEF Valid, IsObject
      <4>2. IsPrefix(o, p) \/ IsPrefix(p, o)
        BY <3>1, <4>1, PrefixesComparable
      <4> QED BY <4>2 DEF Valid, IsObject
    <3> QED BY <2>5, <3>2, <3>3, PointHas
  <2> QED BY <2>2, <2>3, <2>4, <2>5 DEF Covers
<1>9. ASSUME NEW r \in DOMAIN data
      PROVE  \E p \in DOMAIN m : IsPrefix(p, r) \/ Hides(m, data, r, p)
  <2>1. PICK p \in DOMAIN m : Covers(r, p, m)
    BY <1>1
  <2>2. CASE Belongs(r, p, m)
    BY <2>2, BelongsBelow
  <2>3. CASE IsStrictPrefix(r, p)
    <3>1. PICK k \in V : VariableOf(k) = p
      BY <1>6
    <3>2. LeafOf(k) = r
      BY <1>2, <2>1, <2>3, <3>1, CoversOne
    <3>3. Hides(m, data, r, p)
      BY <1>7, <2>3, <3>1, <3>2
    <3> QED BY <3>3
  <2> QED BY <2>1, <2>2, <2>3 DEF Covers
<1> QED BY <1>8, <1>9 DEF Accounted

\* Conversely, the variables found in conforming data are those of the mapping.
LEMMA ConformsMeansStored ==
    ASSUME NEW m, Valid(m), NEW data, IsObject(data, Kinds),
           NEW found \in GetVars(data, GeoVars(m)), Conforms(m, data)
    PROVE  VerifyEvent(m, found) /\ EsTakes(m, data)
<1> DEFINE G == GeoVars(m)
           Object(p) ==
             /\ m[p] = "geo"
             /\ {t \in DOMAIN data : IsPrefix(p, t)} = {p \o s : s \in GeoObject}
             /\ \A s \in GeoObject : data[p \o s] = "scalar"
           Leaf(p) ==
             /\ p \in DOMAIN data
             /\ data[p] \in IF m[p] = "array" THEN {"array", "none"}
                             ELSE {"scalar", "null"}
<1>1. \A p \in DOMAIN m : Leaf(p) \/ Object(p)
  BY DEF Conforms, Has
<1>2. ASSUME NEW r \in DOMAIN data
      PROVE  \E p \in DOMAIN m :
                \/ r = p /\ Leaf(p)
                \/ Object(p) /\ IsPrefix(p, r) /\ \E s \in GeoObject : r = p \o s
  <2>1. PICK p \in DOMAIN m : IsPrefix(p, r)
    BY DEF Conforms
  <2>2. CASE Leaf(p)
    BY <2>1, <2>2 DEF IsObject
  <2>3. CASE Object(p)
    <3>1. r \in {p \o s : s \in GeoObject}
      BY <2>1, <2>3
    <3> QED BY <2>1, <2>3, <3>1
  <2> QED BY <1>1, <2>2, <2>3
<1>3. EsTakes(m, data)
  <2> SUFFICES ASSUME NEW r \in DOMAIN data
               PROVE  \/ /\ r \in DOMAIN m
                         /\ data[r] \in {"scalar", "array", "null", "none"}
                      \/ EsTakesGeo(m, data, r)
    BY DEF EsTakes
  <2>1. PICK p \in DOMAIN m :
           \/ r = p /\ Leaf(p)
           \/ Object(p) /\ IsPrefix(p, r) /\ \E s \in GeoObject : r = p \o s
    BY <1>2
  <2>2. CASE r = p /\ Leaf(p)
    BY <2>2
  <2>3. CASE Object(p) /\ IsPrefix(p, r) /\ \E s \in GeoObject : r = p \o s
    BY <2>3 DEF EsTakesGeo
  <2> QED BY <2>1, <2>2, <2>3
<1>4. ASSUME NEW r \in DOMAIN data
      PROVE  \E p \in DOMAIN m :
                /\ VarOf(r, G) = Join(p)
                /\ IF Join(r) = Join(p) /\ data[r] \in ArrayKinds
                   THEN m[p] = "array" ELSE m[p] # "array"
  <2>1. PICK p \in DOMAIN m :
           \/ r = p /\ Leaf(p)
           \/ Object(p) /\ \E s \in GeoObject : r = p \o s
    BY <1>2
  <2>2. Belongs(r, p, m)
    BY <2>1 DEF Belongs
  <2>3. VarOf(r, G) = Join(p) /\ (r # p => Join(r) # Join(p))
    BY <2>2, BelongsToVar
  <2>4. CASE r = p /\ Leaf(p)
    <3>1. Join(r) = Join(p) /\ (data[r] \in ArrayKinds <=> m[p] = "array")
      BY <2>4 DEF ArrayKinds
    <3> QED BY <2>3, <3>1
  <2>5. CASE Object(p) /\ \E s \in GeoObject : r = p \o s
    <3>1. m[p] # "array" /\ data[r] \notin ArrayKinds
      BY <2>5 DEF ArrayKinds
    <3> QED BY <2>3, <3>1
  <2> QED BY <2>1, <2>4, <2>5
<1>5. VarsOf(data, G) = VarsOf(m, {})
  <2>1. VarsOf(data, G) \subseteq VarsOf(m, {})
    <3> SUFFICES ASSUME NEW v \in VarsOf(data, G) PROVE v \in VarsOf(m, {})
      OBVIOUS
    <3>1. PICK r \in DOMAIN data : v = VarOf(r, G)
      BY DEF VarsOf
    <3>2. PICK p \in DOMAIN m : VarOf(r, G) = Join(p)
      BY <1>4
    <3> QED BY <3>1, <3>2, MappingVars
  <2>2. ASSUME NEW p \in DOMAIN m
        PROVE  Join(p) \in VarsOf(data, G)
    <3>1. CASE Leaf(p)
      <4>1. Belongs(p, p, m) /\ data[p] # "empty"
        BY <3>1 DEF Belongs
      <4>2. VarOf(p, G) = Join(p) /\ HasVar(data, p, G)
        BY <4>1, BelongsToVar DEF HasVar
      <4> QED BY <3>1, <4>2 DEF VarsOf
    <3>2. CASE Object(p)
      <4> DEFINE r == p \o <<<<"lat">>>>
      <4>1. <<<<"lat">>>> \in GeoObject
        BY DEF GeoObject
      <4>2. Belongs(r, p, m) /\ data[r] # "empty" /\ r \in DOMAIN data
        BY <3>2, <4>1 DEF Belongs
      <4> HIDE DEF r
      <4>3. VarOf(r, G) = Join(p) /\ HasVar(data, r, G)
        BY <4>2, BelongsToVar DEF HasVar
      <4> QED BY <4>2, <4>3 DEF VarsOf
    <3> QED BY <1>1, <3>1, <3>2
  <2> QED BY <2>1, <2>2, MappingVars
<1>6. DOMAIN found = VarsOf(m, {})
  BY <1>5, FoundKind
<1>7. ASSUME NEW p \in DOMAIN m, Join(p) \in DOMAIN found
      PROVE  found[Join(p)] = "array" <=> m[p] = "array"
  <2>1. PICK r \in DOMAIN data :
           /\ VarOf(r, G) = Join(p)
           /\ found[Join(p)] = IF Join(r) = Join(p) /\ data[r] \in ArrayKinds
                               THEN "array" ELSE "scalar"
    BY <1>5, <1>6, <1>7, FoundKind
  <2>2. PICK o \in DOMAIN m :
           /\ VarOf(r, G) = Join(o)
           /\ IF Join(r) = Join(o) /\ data[r] \in ArrayKinds
              THEN m[o] = "array" ELSE m[o] # "array"
    BY <1>4
  <2>3. o = p
    BY <2>1, <2>2, JoinInjective DEF Valid, IsObject
  <2> QED BY <2>1, <2>2, <2>3
<1> QED BY <1>3, <1>6, <1>7 DEF VerifyEvent


-----------------------------------------------------------------------------
(* The rewritings of a key *)

TildeFree(key) == ~ Contains(key, "~")

LEMMA KeyFacts ==
    ASSUME NEW k \in Keys
    PROVE  /\ k \in Seq(Alphabet) /\ Len(k) \in Nat /\ DOMAIN k = 1..Len(k)
           /\ \A i \in 1..Len(k) : k[i] \in Alphabet
BY DEF Keys

\* ReplaceAll, token by token.
LEMMA Replaced ==
    ASSUME NEW k \in Keys, NEW a \in Alphabet, NEW b \in Alphabet
    PROVE  /\ ReplaceAll(k, a, b) \in Keys
           /\ Len(ReplaceAll(k, a, b)) = Len(k)
           /\ \A i \in 1..Len(k) :
                 ReplaceAll(k, a, b)[i] = IF k[i] = a THEN b ELSE k[i]
<1>1. Len(k) \in Nat /\ \A i \in 1..Len(k) : k[i] \in Alphabet
  BY KeyFacts
<1>2. \A i \in 1..Len(k) :
         ReplaceAll(k, a, b)[i] = IF k[i] = a THEN b ELSE k[i]
  BY DEF ReplaceAll
<1> DEFINE r == ReplaceAll(k, a, b)
<1>3. r = [i \in 1..Len(k) |-> r[i]]
  BY DEF ReplaceAll
<1>4. \A i \in 1..Len(k) : r[i] \in Alphabet
  BY <1>1, <1>2
<1> HIDE DEF r
<1>5. r \in Seq(Alphabet) /\ Len(r) = Len(k)
  BY <1>1, <1>3, <1>4
<1> QED BY <1>2, <1>5 DEF r, Keys

\* Encoding a key and decoding it again changes nothing if it holds no tilde.
LEMMA EncodedAndBack ==
    ASSUME NEW k \in Keys
    PROVE  /\ DotsToTildes(k) \in Keys /\ TildesToDots(k) \in Keys
           /\ DotFree(DotsToTildes(k))
           /\ DotFree(k) => DotsToTildes(k) = k
           /\ TildeFree(k) => TildesToDots(DotsToTildes(k)) = k
<1>1. "." \in Alphabet /\ "~" \in Alphabet
  BY EventDataAssumption
<1> DEFINE e == DotsToTildes(k)
<1>2. /\ e \in Keys /\ Len(e) = Len(k)
      /\ \A i \in 1..Len(k) : e[i] = IF k[i] = "." THEN "~" ELSE k[i]
  BY <1>1, Replaced DEF DotsToTildes
<1>3. TildesToDots(k) \in Keys
  BY <1>1, Replaced DEF TildesToDots
<1> HIDE DEF e
<1> DEFINE b == TildesToDots(e)
<1>4. /\ b \in Keys /\ Len(b) = Len(k)
      /\ \A i \in 1..Len(k) : b[i] = IF e[i] = "~" THEN "." ELSE e[i]
  BY <1>1, <1>2, Replaced DEF TildesToDots
<1> HIDE DEF b
<1>5. DotFree(e)
  BY <1>2 DEF DotFree, Contains
<1>6. ASSUME DotFree(k) PROVE e = k
  <2>1. \A i \in 1..Len(k) : k[i] # "."
    BY <1>6 DEF DotFree, Contains
  <2>2. \A i \in 1..Len(k) : e[i] = k[i]
    BY <1>2, <2>1
  <2> QED BY <1>2, <2>2, KeyFacts, SeqEqual
<1>7. ASSUME TildeFree(k) PROVE b = k
  <2>1. \A i \in 1..Len(k) : k[i] # "~"
    BY <1>7 DEF TildeFree, Contains
  <2>2. \A i \in 1..Len(k) : b[i] = k[i]
    BY <1>2, <1>4, <2>1
  <2> QED BY <1>4, <2>2, KeyFacts, SeqEqual
<1> QED BY <1>2, <1>3, <1>5, <1>6, <1>7 DEF e, b

FirstDot(key) == SelectInSeq(key, LAMBDA c : c = ".")

\* The first dot of a key, if it has one.
LEMMA FirstDotIs ==
    ASSUME NEW k \in Keys
    PROVE  /\ FirstDot(k) \in 0..Len(k)
           /\ DotFree(k) => FirstDot(k) = 0
           /\ ~ DotFree(k) => /\ FirstDot(k) \in 1..Len(k)
                              /\ k[FirstDot(k)] = "."
                              /\ \A i \in 1..Len(k) : k[i] = "." => FirstDot(k) <= i
<1> DEFINE I == {i \in 1..Len(k) : k[i] = "."}
<1>1. FirstDot(k) = IF I # {} THEN Min(I) ELSE 0
  BY DEF FirstDot, SelectInSeq
<1>2. Len(k) \in Nat
  BY KeyFacts
<1>3. DotFree(k) <=> I = {}
  BY DEF DotFree, Contains
<1>4. ASSUME I # {}
      PROVE  Min(I) \in I /\ \A i \in I : Min(I) <= i
  <2>1. I \subseteq Nat
    BY <1>2
  <2> HIDE DEF I
  <2>2. \E x \in I : \A y \in I : x <= y
    BY <1>4, <2>1, Least
  <2> QED BY <2>2 DEF Min
<1> QED BY <1>1, <1>2, <1>3, <1>4

LEMMA SplitPoints ==
    ASSUME NEW a \in Keys, NEW b \in Keys
    PROVE  /\ a \o (Dot \o b) \in Keys
           /\ Len(a \o (Dot \o b)) = Len(a) + 1 + Len(b)
           /\ \A i \in 1..Len(a) : (a \o (Dot \o b))[i] = a[i]
           /\ (a \o (Dot \o b))[Len(a)+1] = "."
           /\ \A i \in 1..Len(b) : (a \o (Dot \o b))[Len(a)+1+i] = b[i]
BY EventDataAssumption DEF Dot, Keys

\* ... is where the first dot-free part ends.
LEMMA FirstDotAt ==
    ASSUME NEW a \in Keys, NEW b \in Keys, DotFree(a)
    PROVE  FirstDot(a \o (Dot \o b)) = Len(a) + 1
<1> DEFINE k == a \o (Dot \o b)
<1>1. /\ k \in Keys /\ Len(k) = Len(a) + 1 + Len(b)
      /\ \A i \in 1..Len(a) : k[i] = a[i]
      /\ k[Len(a)+1] = "."
  BY SplitPoints
<1>2. ~ DotFree(k)
  BY DotInside
<1> HIDE DEF k
<1>3. \A i \in 1..Len(a) : a[i] # "."
  BY DEF DotFree, Contains
<1>4. Len(a) \in Nat /\ Len(b) \in Nat
  BY KeyFacts
<1>5. /\ FirstDot(k) \in 1..Len(k) /\ k[FirstDot(k)] = "."
      /\ \A i \in 1..Len(k) : k[i] = "." => FirstDot(k) <= i
  BY <1>1, <1>2, FirstDotIs
<1>6. FirstDot(k) = Len(a) + 1
  BY <1>1, <1>3, <1>4, <1>5
<1> QED BY <1>6 DEF k

\* The two halves of a key around a dot.
LEMMA Halves ==
    ASSUME NEW a \in Keys, NEW b \in Keys
    PROVE  LET k == a \o (Dot \o b) IN
           /\ SubSeq(k, 1, Len(a)+1) = a \o Dot
           /\ SubSeq(k, Len(a)+2, Len(k)) = b
<1> DEFINE k == a \o (Dot \o b)
           h == a \o Dot
<1>1. /\ k \in Keys /\ Len(k) = Len(a) + 1 + Len(b)
      /\ \A i \in 1..Len(a) : k[i] = a[i]
      /\ k[Len(a)+1] = "."
      /\ \A i \in 1..Len(b) : k[Len(a)+1+i] = b[i]
  BY SplitPoints
<1>2. /\ h \in Keys /\ Len(h) = Len(a) + 1
      /\ \A i \in 1..Len(a) : h[i] = a[i]
      /\ h[Len(a)+1] = "."
  BY EventDataAssumption DEF Dot, Keys
<1>3. Len(a) \in Nat /\ Len(b) \in Nat
  BY KeyFacts
<1> HIDE DEF k, h
<1>4. \A i \in 1..Len(k) : k[i] \in Alphabet
  BY <1>1, KeyFacts
<1> DEFINE u == SubSeq(k, 1, Len(a)+1)
           v == SubSeq(k, Len(a)+2, Len(k))
<1>5. u \in Seq(Alphabet) /\ Len(u) = Len(a) + 1 /\ \A i \in 1..Len(a)+1 : u[i] = k[i]
  <2>1. \A i \in 1..Len(a)+1 : k[i] \in Alphabet
    BY <1>1, <1>3, <1>4
  <2> QED BY <1>3, <2>1, SubSeqProperties
<1>6. v \in Seq(Alphabet) /\ Len(v) = Len(b) /\ \A i \in 1..Len(b) : v[i] = k[Len(a)+1+i]
  <2> DEFINE x == Len(a) + 2
             y == Len(k)
  <2>1. /\ x \in Int /\ y \in Int /\ \A i \in x..y : k[i] \in Alphabet
        /\ y - x + 1 = Len(b)
    BY <1>1, <1>3, <1>4
  <2>2. /\ SubSeq(k, x, y) \in Seq(Alphabet)
        /\ Len(SubSeq(k, x, y)) = IF x <= y THEN y - x + 1 ELSE 0
        /\ \A i \in 1..y-x+1 : SubSeq(k, x, y)[i] = k[x+i-1]
    <3> HIDE DEF x, y
    <3> QED BY <2>1, SubSeqProperties
  <2> QED BY <1>1, <1>3, <2>1, <2>2
<1> HIDE DEF u, v
<1>7. u = h
  <2>1. \A i \in 1..Len(a)+1 : u[i] = h[i]
    BY <1>1, <1>2, <1>3, <1>5
  <2>2. h \in Seq(Alphabet)
    BY <1>2, KeyFacts
  <2> QED BY <1>2, <1>5, <2>1, <2>2, SeqEqual
<1>8. v = b
  <2>1. \A i \in 1..Len(b) : v[i] = b[i]
    BY <1>1, <1>6
  <2>2. b \in Seq(Alphabet)
    BY KeyFacts
  <2> QED BY <1>6, <2>1, <2>2, SeqEqual
<1> QED BY <1>7, <1>8 DEF k, h, u, v


\* DropSecond with the dots it looks for named.
LEMMA DropSecondIs ==
    ASSUME NEW k
    PROVE  LET r == SubSeq(k, FirstDot(k) + 1, Len(k)) IN
           DropSecond(k) = SubSeq(k, 1, FirstDot(k))
                              \o SubSeq(r, FirstDot(r) + 1, Len(r))
BY DEF DropSecond, FirstDot

LEMMA PartOfKey ==
    ASSUME NEW k \in Keys, NEW i \in 0..Len(k)
    PROVE  SubSeq(k, 1, i) \in Keys /\ SubSeq(k, i + 1, Len(k)) \in Keys
<1>1. Len(k) \in Nat /\ \A j \in 1..Len(k) : k[j] \in Alphabet
  BY KeyFacts
<1>2. \A j \in 1..i : k[j] \in Alphabet
  BY <1>1
<1>3. \A j \in (i+1)..Len(k) : k[j] \in Alphabet
  BY <1>1
<1>4. SubSeq(k, 1, i) \in Seq(Alphabet)
  BY <1>1, <1>2, SubSeqProperties
<1>5. SubSeq(k, i + 1, Len(k)) \in Seq(Alphabet)
  <2> DEFINE x == i + 1
  <2>1. x \in Int /\ Len(k) \in Int
    BY <1>1
  <2> HIDE DEF x
  <2>2. \A j \in x..Len(k) : k[j] \in Alphabet
    BY <1>3 DEF x
  <2>3. SubSeq(k, x, Len(k)) \in Seq(Alphabet)
    BY <2>1, <2>2, SubSeqProperties
  <2> QED BY <2>3 DEF x
<1> QED BY <1>4, <1>5 DEF Keys

LEMMA DropSecondType ==
    ASSUME NEW k \in Keys
    PROVE  DropSecond(k) \in Keys
<1> DEFINE r == SubSeq(k, FirstDot(k) + 1, Len(k))
<1>1. FirstDot(k) \in 0..Len(k)
  BY FirstDotIs
<1>2. r \in Keys /\ SubSeq(k, 1, FirstDot(k)) \in Keys
  BY <1>1, PartOfKey
<1> HIDE DEF r
<1>3. FirstDot(r) \in 0..Len(r)
  BY <1>2, FirstDotIs
<1>4. SubSeq(r, FirstDot(r) + 1, Len(r)) \in Keys
  BY <1>2, <1>3, PartOfKey
<1>5. SubSeq(k, 1, FirstDot(k)) \o SubSeq(r, FirstDot(r) + 1, Len(r)) \in Keys
  BY <1>2, <1>4, KeyConcat
<1> QED BY <1>5, DropSecondIs DEF r

LEMMA WholeKey ==
    ASSUME NEW k \in Keys
    PROVE  /\ SubSeq(k, 0 + 1, Len(k)) = k /\ SubSeq(k, 1, 0) = <<>>
           /\ <<>> \o k = k
<1>1. k \in Seq(Alphabet)
  BY KeyFacts
<1>2. SubSeq(k, 1, Len(k)) = k
  BY <1>1, SubSeqFull
<1>3. SubSeq(k, 1, 0) = <<>>
  BY SubSeqEmpty
<1>4. <<>> \o k = k
  BY <1>1, ConcatEmptySeq
<1> QED BY <1>2, <1>3, <1>4

\* decodeCondition leaves a key alone that has fewer than two dots, and else
\* drops what is between the first two.
LEMMA DropSecondNone ==
    ASSUME NEW k \in Keys, DotFree(k)
    PROVE  DropSecond(k) = k
<1>1. FirstDot(k) = 0
  BY FirstDotIs
<1>2. SubSeq(k, FirstDot(k) + 1, Len(k)) = k
  BY <1>1, WholeKey
<1>3. DropSecond(k) = SubSeq(k, 1, FirstDot(k)) \o SubSeq(k, FirstDot(k) + 1, Len(k))
  BY <1>2, DropSecondIs
<1>4. SubSeq(k, 1, FirstDot(k)) = <<>>
  BY <1>1, WholeKey
<1> QED BY <1>2, <1>3, <1>4, WholeKey

\* A key of two parts keeps both.
LEMMA DropSecondOne ==
    ASSUME NEW a \in Keys, NEW b \in Keys, DotFree(a), DotFree(b)
    PROVE  DropSecond(a \o (Dot \o b)) = a \o (Dot \o b)
<1> DEFINE k == a \o (Dot \o b)
<1>1. FirstDot(k) = Len(a) + 1
  BY FirstDotAt
<1>2. SubSeq(k, 1, Len(a)+1) = a \o Dot /\ SubSeq(k, Len(a)+2, Len(k)) = b
  BY Halves
<1>3. Len(a) \in Nat /\ Len(a) + 1 + 1 = Len(a) + 2
  BY KeyFacts
<1> HIDE DEF k
<1>4. SubSeq(k, FirstDot(k) + 1, Len(k)) = b /\ SubSeq(k, 1, FirstDot(k)) = a \o Dot
  BY <1>1, <1>2, <1>3
<1>5. FirstDot(b) = 0
  BY FirstDotIs
<1>6. SubSeq(b, FirstDot(b) + 1, Len(b)) = b
  BY <1>5, WholeKey
<1>7. DropSecond(k) = (a \o Dot) \o b
  BY <1>4, <1>6, DropSecondIs
<1>8. (a \o Dot) \o b = a \o (Dot \o b)
  BY DotKey, KeyAssoc
<1> QED BY <1>7, <1>8 DEF k

\* A key of three parts or more loses the second.
LEMMA DropSecondTwo ==
    ASSUME NEW a \in Keys, NEW b \in Keys, NEW c \in Keys, DotFree(a), DotFree(b)
    PROVE  DropSecond(a \o (Dot \o (b \o (Dot \o c)))) = a \o (Dot \o c)
<1> DEFINE r == b \o (Dot \o c)
<1>1. r \in Keys
  BY SplitPoints
<1>2. FirstDot(r) = Len(b) + 1
  BY FirstDotAt
<1>3. SubSeq(r, Len(b)+2, Len(r)) = c
  BY Halves
<1>4. /\ Len(b) \in Nat /\ Len(b) + 1 + 1 = Len(b) + 2
      /\ Len(a) \in Nat /\ Len(a) + 1 + 1 = Len(a) + 2
  BY KeyFacts
<1> HIDE DEF r
<1> DEFINE k == a \o (Dot \o r)
<1>5. FirstDot(k) = Len(a) + 1
  BY <1>1, FirstDotAt
<1>6. SubSeq(k, 1, Len(a)+1) = a \o Dot /\ SubSeq(k, Len(a)+2, Len(k)) = r
  BY <1>1, Halves
<1> HIDE DEF k
<1>7. SubSeq(k, FirstDot(k) + 1, Len(k)) = r /\ SubSeq(k, 1, FirstDot(k)) = a \o Dot
  BY <1>4, <1>5, <1>6
<1>8. SubSeq(r, FirstDot(r) + 1, Len(r)) = c
  BY <1>2, <1>3, <1>4
<1>9. DropSecond(k) = (a \o Dot) \o c
  BY <1>7, <1>8, DropSecondIs
<1>10. (a \o Dot) \o c = a \o (Dot \o c)
  BY DotKey, KeyAssoc
<1> QED BY <1>9, <1>10 DEF k, r

-----------------------------------------------------------------------------
(* The name of the event type in a key *)

DataDot == <<"data", ".">>
DataKey == <<"data">>

AddNameTo(key, name) ==
    ReplaceFirstSubSeq(<<"data", ".">> \o name \o <<".">>, <<"data", ".">>, key)

LEMMA DataKeyFacts ==
    /\ DataKey \in Keys /\ DotFree(DataKey) /\ TildeFree(DataKey)
    /\ DataDot \in Keys /\ DataDot = DataKey \o Dot
    /\ \A k \in Keys : DataDot \o k = DataKey \o (Dot \o k)
<1>1. "data" \in Alphabet /\ "." \in Alphabet
  BY EventDataAssumption
<1>2. DataKey \in Keys /\ DataDot \in Keys /\ Dot \in Keys
  BY <1>1 DEF Keys, DataKey, DataDot, Dot
<1>3. DotFree(DataKey) /\ TildeFree(DataKey)
  BY DEF DotFree, TildeFree, Contains, DataKey
<1>4. DataDot = DataKey \o Dot
  BY DEF DataDot, DataKey, Dot
<1> QED BY <1>2, <1>3, <1>4, KeyAssoc

\* Where a part of a key is found for the first time.
FoundAt(s, t, i) ==
    /\ s \in SubSeqs(SubSeq(t, 1, i))
    /\ \A j \in 0..i-1 : s \notin SubSeqs(SubSeq(t, 1, j))

\* Where ReplaceFirstSubSeq replaces: the first place there is.
LEMMA FirstSubSeqAt ==
    ASSUME NEW t \in Keys, NEW s, s \in SubSeqs(t)
    PROVE  \E i \in 0..Len(t) :
              FoundAt(s, t, i) /\ IndexFirstSubSeq(s, t) = i - (Len(s) - 1)
<1> DEFINE I == {i \in 0..Len(t) : s \in SubSeqs(SubSeq(t, 1, i))}
<1>1. Len(t) \in Nat /\ t \in Seq(Alphabet)
  BY KeyFacts
<1>2. Len(t) \in I
  <2>1. SubSeq(t, 1, Len(t)) = t
    BY <1>1, SubSeqFull
  <2>2. s \in SubSeqs(SubSeq(t, 1, Len(t)))
    BY <2>1, Zenon
  <2>3. Len(t) \in 0..Len(t)
    BY <1>1
  <2> QED BY <2>2, <2>3, Zenon
<1>3. PICK x \in I : \A y \in I : x <= y
  <2>1. I \subseteq Nat /\ I # {}
    BY <1>1, <1>2
  <2> HIDE DEF I
  <2> QED BY <2>1, Least
<1>4. x \in 0..Len(t) /\ FoundAt(s, t, x)
  BY <1>1, <1>3 DEF FoundAt
<1> DEFINE c == CHOOSE i \in 0..Len(t) : FoundAt(s, t, i)
<1>5. c \in 0..Len(t) /\ FoundAt(s, t, c)
  BY <1>4
<1>6. IndexFirstSubSeq(s, t) = c - (Len(s) - 1)
  BY DEF IndexFirstSubSeq, FoundAt
<1> QED BY <1>5, <1>6

LEMMA AddNameType ==
    ASSUME NEW key \in Keys, NEW name \in Keys
    PROVE  AddNameTo(key, name) \in Keys
<1> DEFINE new == <<"data", ".">> \o name \o <<".">>
           old == <<"data", ".">>
<1>1. new \in Keys
  <2>1. DataDot \o name \in Keys
    BY DataKeyFacts, KeyConcat
  <2>2. (DataDot \o name) \o Dot \in Keys
    BY <2>1, DotKey, KeyConcat
  <2> QED BY <2>2 DEF DataDot, Dot
<1>2. Len(old) = 2
  OBVIOUS
<1> HIDE DEF new, old
<1>3. CASE old \in SubSeqs(key)
  <2>1. PICK i \in 0..Len(key) : IndexFirstSubSeq(old, key) = i - (Len(old) - 1)
    BY <1>3, FirstSubSeqAt
  <2> DEFINE x == IndexFirstSubSeq(old, key)
  <2>2. Len(key) \in Nat /\ \A j \in 1..Len(key) : key[j] \in Alphabet
    BY KeyFacts
  <2>3. x = i - 1 /\ x - 1 \in Int /\ x + Len(old) \in Int
    BY <1>2, <2>1, <2>2
  <2> HIDE DEF x
  <2>4. /\ \A j \in 1..x-1 : key[j] \in Alphabet
        /\ \A j \in (x + Len(old))..Len(key) : key[j] \in Alphabet
    BY <1>2, <2>2, <2>3
  <2>5. SubSeq(key, 1, x - 1) \in Seq(Alphabet)
    <3> DEFINE y == x - 1
    <3>1. y \in Int /\ \A j \in 1..y : key[j] \in Alphabet
      BY <2>3, <2>4
    <3> HIDE DEF y
    <3>2. SubSeq(key, 1, y) \in Seq(Alphabet)
      BY <3>1, SubSeqProperties
    <3> QED BY <3>2 DEF y
  <2>6. SubSeq(key, x + Len(old), Len(key)) \in Seq(Alphabet)
    <3> DEFINE y == x + Len(old)
    <3>1. y \in Int /\ \A j \in y..Len(key) : key[j] \in Alphabet
      BY <2>3, <2>4
    <3> HIDE DEF y
    <3>2. SubSeq(key, y, Len(key)) \in Seq(Alphabet)
      BY <2>2, <3>1, SubSeqProperties
    <3> QED BY <3>2 DEF y
  <2>7. ReplaceSubSeqAt(x, new, old, key)
          = SubSeq(key, 1, x - 1) \o new \o SubSeq(key, x + Len(old), Len(key))
    BY DEF ReplaceSubSeqAt
  <2>8. ReplaceSubSeqAt(x, new, old, key) \in Keys
    <3> DEFINE u == SubSeq(key, 1, x - 1)
               v == SubSeq(key, x + Len(old), Len(key))
    <3>1. u \in Keys /\ v \in Keys
      BY <2>5, <2>6 DEF Keys
    <3> HIDE DEF u, v
    <3>2. u \o new \in Keys
      BY <1>1, <3>1, KeyConcat
    <3>3. (u \o new) \o v \in Keys
      BY <3>1, <3>2, KeyConcat
    <3> QED BY <2>7, <3>3 DEF u, v
  <2> QED BY <1>3, <2>8 DEF AddNameTo, ReplaceFirstSubSeq, x, new, old
<1>4. CASE old \notin SubSeqs(key)
  BY <1>4 DEF AddNameTo, ReplaceFirstSubSeq, old
<1> QED BY <1>3, <1>4

\* A key without a dot holds no "data.".
LEMMA AddNameNone ==
    ASSUME NEW key \in Keys, NEW name, DotFree(key)
    PROVE  AddNameTo(key, name) = key
<1> DEFINE old == <<"data", ".">>
<1>1. old \notin SubSeqs(key)
  <2> SUFFICES ASSUME NEW i \in 0..Len(key), NEW j \in 0..Len(key),
                      old = SubSeq(key, i + 1, j)
               PROVE  FALSE
    BY DEF SubSeqs
  <2>1. Len(key) \in Nat /\ \A l \in 1..Len(key) : key[l] \in Alphabet
    BY KeyFacts
  <2> DEFINE x == i + 1
             u == SubSeq(key, x, j)
  <2>2. x \in Int /\ j \in Int /\ \A l \in x..j : key[l] \in Alphabet
    BY <2>1
  <2> HIDE DEF x
  <2>3. /\ Len(u) = IF x <= j THEN j - x + 1 ELSE 0
        /\ \A l \in 1..j-x+1 : u[l] = key[x + l - 1]
    BY <2>2, SubSeqProperties
  <2> HIDE DEF u
  <2>4. u = old /\ Len(old) = 2 /\ old[2] = "."
    BY DEF u, x
  <2> HIDE DEF old
  <2>5. 2 \in 1..j-x+1 /\ u[2] = key[x + 2 - 1]
    BY <2>2, <2>3, <2>4
  <2>6. x + 2 - 1 \in 1..Len(key) /\ key[x + 2 - 1] = "."
    BY <2>1, <2>2, <2>4, <2>5 DEF x
  <2> QED BY <2>6 DEF DotFree, Contains
<1> QED BY <1>1 DEF AddNameTo, ReplaceFirstSubSeq

\* "data.x" becomes "data.<name>.x".
LEMMA AddNameData ==
    ASSUME NEW x \in Keys, NEW name \in Keys
    PROVE  AddNameTo(DataDot \o x, name)
              = DataKey \o (Dot \o (name \o (Dot \o x)))
<1> DEFINE key == DataDot \o x
           new == DataDot \o name \o Dot
<1>1. /\ key \in Keys /\ Len(key) = 2 + Len(x) /\ Len(x) \in Nat
      /\ key[1] = "data" /\ key[2] = "."
      /\ \A i \in 1..Len(x) : key[2 + i] = x[i]
      /\ Len(DataDot) = 2 /\ DataDot[1] = "data" /\ DataDot[2] = "."
  BY EventDataAssumption DEF DataDot, Keys
<1>2. new \in Keys
  <2>1. DataDot \o name \in Keys
    BY DataKeyFacts, KeyConcat
  <2> QED BY <2>1, DotKey, KeyConcat
<1> HIDE DEF key, new
<1>3. \A i \in 1..Len(key) : key[i] \in Alphabet
  BY <1>1, KeyFacts
\* It is found at its beginning, not earlier and not later.
<1>4. SubSeq(key, 1, 2) = DataDot
  <2> DEFINE u == SubSeq(key, 1, 2)
  <2>1. \A i \in 1..2 : key[i] \in Alphabet
    BY <1>1, <1>3
  <2>2. u \in Seq(Alphabet) /\ Len(u) = 2 /\ \A i \in 1..2 : u[i] = key[i]
    BY <2>1, SubSeqProperties
  <2> HIDE DEF u
  <2>3. DataDot \in Seq(Alphabet)
    BY DataKeyFacts, KeyFacts
  <2>4. \A i \in 1..2 : u[i] = DataDot[i]
    BY <1>1, <2>2
  <2>5. u = DataDot
    BY <1>1, <2>2, <2>3, <2>4, SeqEqual
  <2> QED BY <2>5 DEF u
<1>5. DataDot \in SubSeqs(DataDot)
  <2>1. DataDot = SubSeq(DataDot, 0 + 1, 2)
    BY DataKeyFacts, WholeKey, <1>1
  <2> QED BY <1>1, <2>1 DEF SubSeqs
<1>6. ASSUME NEW j \in 0..1
      PROVE  DataDot \notin SubSeqs(SubSeq(key, 1, j))
  <2> DEFINE v == SubSeq(key, 1, j)
  <2>1. j \in 0..Len(key)
    BY <1>1
  <2>2. \A i \in 1..j : key[i] \in Alphabet
    BY <1>1, <1>3
  <2>3. v \in Keys /\ Len(v) = j
    BY <1>1, <2>1, <2>2, PartOfKey, SubSeqProperties
  <2> HIDE DEF v
  <2>4. \A i \in 1..Len(v) : v[i] \in Alphabet
    BY <2>3, KeyFacts
  <2>5. ASSUME NEW a \in 0..Len(v), NEW b \in 0..Len(v)
        PROVE  DataDot # SubSeq(v, a + 1, b)
    <3> DEFINE c == a + 1
    <3>1. c \in Int /\ b \in Int /\ \A i \in c..b : v[i] \in Alphabet
      BY <2>3, <2>4
    <3> HIDE DEF c
    <3>2. Len(SubSeq(v, c, b)) = IF c <= b THEN b - c + 1 ELSE 0
      BY <3>1, SubSeqProperties
    <3>3. Len(SubSeq(v, c, b)) # 2
      BY <2>3, <3>1, <3>2 DEF c
    <3>4. Len(SubSeq(v, a + 1, b)) # 2
      BY <3>3 DEF c
    <3> QED BY <1>1, <3>4
  <2>6. DataDot \notin SubSeqs(v)
    BY <2>5 DEF SubSeqs
  <2> QED BY <2>6 DEF v
<1>7. DataDot \in SubSeqs(key)
  <2>1. SubSeq(key, 0 + 1, 2) = DataDot /\ 0 \in 0..Len(key) /\ 2 \in 0..Len(key)
    BY <1>1, <1>4
  <2> QED BY <2>1 DEF SubSeqs
<1>8. IndexFirstSubSeq(DataDot, key) = 1
  <2>1. PICK i \in 0..Len(key) :
           /\ FoundAt(DataDot, key, i)
           /\ IndexFirstSubSeq(DataDot, key) = i - (Len(DataDot) - 1)
    BY <1>1, <1>7, FirstSubSeqAt
  <2>2. ~ (i <= 1)
    <3> SUFFICES ASSUME i \in 0..1 PROVE FALSE
      BY <1>1
    <3> QED BY <1>6, <2>1 DEF FoundAt
  <2>3. ~ (i > 2)
    <3> SUFFICES ASSUME i > 2 PROVE FALSE
      OBVIOUS
    <3>1. 2 \in 0..i-1
      BY <1>1
    <3> QED BY <1>4, <1>5, <2>1, <3>1 DEF FoundAt
  <2> QED BY <1>1, <2>1, <2>2, <2>3
<1>9. SubSeq(key, 1 + Len(DataDot), Len(key)) = x
  <2> DEFINE c == 1 + Len(DataDot)
             v == SubSeq(key, c, Len(key))
  <2>1. c = 3 /\ Len(key) \in Int /\ \A i \in c..Len(key) : key[i] \in Alphabet
    BY <1>1, <1>3
  <2> HIDE DEF c
  <2>2. /\ v \in Seq(Alphabet)
        /\ Len(v) = IF c <= Len(key) THEN Len(key) - c + 1 ELSE 0
        /\ \A i \in 1..Len(key)-c+1 : v[i] = key[c + i - 1]
    BY <2>1, SubSeqProperties
  <2> HIDE DEF v
  <2>3. Len(v) = Len(x) /\ \A i \in 1..Len(x) : v[i] = x[i]
    BY <1>1, <2>1, <2>2
  <2>4. v = x
    BY <2>2, <2>3, KeyFacts, SeqEqual
  <2> QED BY <2>4 DEF v, c
<1>10. SubSeq(key, 1, 1 - 1) = <<>>
  BY SubSeqEmpty
<1>11. ReplaceSubSeqAt(1, new, DataDot, key) = <<>> \o new \o x
  BY <1>9, <1>10 DEF ReplaceSubSeqAt
<1>12. AddNameTo(key, name) = ReplaceSubSeqAt(1, new, DataDot, key)
  BY <1>7, <1>8 DEF AddNameTo, ReplaceFirstSubSeq, new, DataDot, Dot
<1>13. <<>> \o new = new
  BY <1>2, WholeKey
<1>14. AddNameTo(key, name) = ((DataDot \o name) \o Dot) \o x
  BY <1>11, <1>12, <1>13 DEF new
<1>15. ((DataDot \o name) \o Dot) \o x = DataKey \o (Dot \o (name \o (Dot \o x)))
  <2> DEFINE d == Dot \o x
             n == DataDot \o name
             o == name \o d
  <2>1. d \in Keys /\ n \in Keys /\ Dot \in Keys
    BY DotKey, DataKeyFacts, KeyConcat
  <2>2. (n \o Dot) \o x = n \o d
    <3> HIDE DEF n
    <3> QED BY <2>1, KeyAssoc
  <2>3. (DataDot \o name) \o d = DataDot \o o
    <3> HIDE DEF d
    <3>1. DataDot \in Keys /\ d \in Keys
      BY <2>1, DataKeyFacts
    <3> QED BY <3>1, KeyAssoc
  <2>4. o \in Keys
    <3> HIDE DEF d
    <3> QED BY <2>1, KeyConcat
  <2>5. DataDot \o o = DataKey \o (Dot \o o)
    <3> HIDE DEF o
    <3> QED BY <2>4, DataKeyFacts
  <2> QED BY <2>2, <2>3, <2>5
<1> QED BY <1>14, <1>15 DEF key

-----------------------------------------------------------------------------
(* The keys of variables *)

\* Tildes of a key are those of its parts.
LEMMA TildesOfSplit ==
    ASSUME NEW a \in Keys, NEW b \in Keys
    PROVE  TildeFree(a \o (Dot \o b)) <=> TildeFree(a) /\ TildeFree(b)
<1> DEFINE k == a \o (Dot \o b)
<1>1. /\ k \in Keys /\ Len(k) = Len(a) + 1 + Len(b)
      /\ \A i \in 1..Len(a) : k[i] = a[i]
      /\ k[Len(a)+1] = "."
      /\ \A i \in 1..Len(b) : k[Len(a)+1+i] = b[i]
  BY SplitPoints
<1>2. Len(a) \in Nat /\ Len(b) \in Nat
  BY KeyFacts
<1> HIDE DEF k
<1>3. ASSUME TildeFree(k) PROVE TildeFree(a) /\ TildeFree(b)
  <2>1. \A i \in 1..Len(k) : k[i] # "~"
    BY <1>3 DEF TildeFree, Contains
  <2>2. \A i \in 1..Len(a) : a[i] # "~"
    BY <1>1, <1>2, <2>1
  <2>3. \A i \in 1..Len(b) : b[i] # "~"
    <3> SUFFICES ASSUME NEW i \in 1..Len(b) PROVE b[i] # "~"
      OBVIOUS
    <3>1. Len(a) + 1 + i \in 1..Len(k)
      BY <1>1, <1>2
    <3> QED BY <1>1, <2>1, <3>1
  <2> QED BY <2>2, <2>3 DEF TildeFree, Contains
<1>4. ASSUME TildeFree(a), TildeFree(b) PROVE TildeFree(k)
  <2> SUFFICES ASSUME NEW i \in 1..Len(k), k[i] = "~" PROVE FALSE
    BY DEF TildeFree, Contains
  <2>1. /\ \A j \in 1..Len(a) : a[j] # "~"
        /\ \A j \in 1..Len(b) : b[j] # "~"
    BY <1>4 DEF TildeFree, Contains
  <2>2. CASE i <= Len(a)
    BY <1>1, <1>2, <2>1, <2>2
  <2>3. CASE i = Len(a) + 1
    BY <1>1, <2>3
  <2>4. CASE i > Len(a) + 1
    <3> DEFINE j == i - (Len(a) + 1)
    <3>1. j \in 1..Len(b) /\ Len(a) + 1 + j = i
      BY <1>1, <1>2, <2>4
    <3> HIDE DEF j
    <3> QED BY <1>1, <2>1, <3>1
  <2> QED BY <1>1, <1>2, <2>2, <2>3, <2>4
<1> QED BY <1>3, <1>4 DEF k

AllTildeFree(path) == \A i \in DOMAIN path : TildeFree(path[i])

LEMMA JoinTildes ==
    ASSUME NEW p \in Paths
    PROVE  TildeFree(Join(p)) <=> AllTildeFree(p)
<1> DEFINE T == {q \in Seq(Keys) : q # <<>> => (TildeFree(Join(q)) <=> AllTildeFree(q))}
<1>1. <<>> \in T
  OBVIOUS
<1>2. ASSUME NEW q \in Seq(Keys), NEW e \in Keys, q \in T
      PROVE  Append(q, e) \in T
  <2> DEFINE a == Append(q, e)
  <2>1. /\ a \in Seq(Keys) /\ DOMAIN a = 1..Len(q)+1 /\ a[Len(q)+1] = e
        /\ Len(q) \in Nat /\ DOMAIN q = 1..Len(q)
        /\ \A i \in 1..Len(q) : a[i] = q[i]
    OBVIOUS
  <2>2. q = <<>> => Join(a) = e /\ Len(q) = 0
    <3>1. \A g \in Keys : Append(<<>>, g) = <<g>>
      OBVIOUS
    <3> QED BY <3>1, JoinOne
  <2>3. q # <<>> => Join(a) = Join(q) \o (Dot \o e)
    BY JoinAppend DEF Paths
  <2>4. Join(q) \in Keys
    BY JoinType
  <2> HIDE DEF a
  <2>5. AllTildeFree(a) <=> AllTildeFree(q) /\ TildeFree(e)
    BY <2>1 DEF AllTildeFree
  <2>6. CASE q = <<>>
    <3>1. AllTildeFree(q)
      BY <2>6 DEF AllTildeFree
    <3> QED BY <2>1, <2>2, <2>5, <2>6, <3>1 DEF a
  <2>7. CASE q # <<>>
    <3>1. TildeFree(Join(a)) <=> TildeFree(Join(q)) /\ TildeFree(e)
      <4>1. TildeFree(Join(q) \o (Dot \o e)) <=> TildeFree(Join(q)) /\ TildeFree(e)
        BY <2>4, TildesOfSplit
      <4> QED BY <2>3, <2>7, <4>1
    <3>2. TildeFree(Join(q)) <=> AllTildeFree(q)
      BY <1>2, <2>7
    <3> QED BY <2>1, <2>5, <3>1, <3>2 DEF a
  <2> QED BY <2>6, <2>7
<1>3. Seq(Keys) \subseteq T
  <2> HIDE DEF T
  <2> QED BY <1>1, <1>2, SeqInduction
<1> QED BY <1>3 DEF Paths

\* What is left of a path after n parts were taken off, down to the last.
From(p, n) == IF n < Len(p) THEN n + 1 ELSE Len(p)
Suffix(p, n) == SubSeq(p, From(p, n), Len(p))

LEMMA SuffixFacts ==
    ASSUME NEW p \in Paths, NEW n \in Nat
    PROVE  /\ Suffix(p, n) \in Paths
           /\ AllDotFree(p) => AllDotFree(Suffix(p, n))
           /\ AllTildeFree(p) => AllTildeFree(Suffix(p, n))
<1>1. p \in Seq(Keys) /\ Len(p) \in Nat \ {0} /\ DOMAIN p = 1..Len(p)
  BY PathFacts
<1>2. \A i \in 1..Len(p) : p[i] \in Keys
  BY <1>1
<1> DEFINE x == From(p, n)
           u == SubSeq(p, x, Len(p))
<1>3. x \in 1..Len(p) /\ x \in Int /\ Len(p) \in Int
  BY <1>1 DEF From
<1> HIDE DEF x
<1>4. \A i \in x..Len(p) : p[i] \in Keys
  BY <1>1, <1>2, <1>3
<1>5. /\ u \in Seq(Keys)
      /\ Len(u) = IF x <= Len(p) THEN Len(p) - x + 1 ELSE 0
      /\ \A i \in 1..Len(p)-x+1 : u[i] = p[x + i - 1]
  BY <1>3, <1>4, SubSeqProperties
<1> HIDE DEF u
<1>6. Len(u) = Len(p) - x + 1 /\ Len(u) >= 1 /\ DOMAIN u = 1..Len(u)
  BY <1>1, <1>3, <1>5
<1>7. u \in Paths
  <2>1. u # <<>>
    BY <1>6
  <2> QED BY <1>5, <2>1 DEF Paths
<1>8. ASSUME NEW i \in DOMAIN u
      PROVE  \E j \in DOMAIN p : u[i] = p[j]
  <2>1. i \in 1..Len(p)-x+1 /\ x + i - 1 \in 1..Len(p)
    BY <1>1, <1>3, <1>6
  <2>2. u[i] = p[x + i - 1]
    BY <1>5, <2>1
  <2> QED BY <1>1, <2>1, <2>2
<1>9. (AllDotFree(p) => AllDotFree(u)) /\ (AllTildeFree(p) => AllTildeFree(u))
  BY <1>8 DEF AllDotFree, AllTildeFree
<1> QED BY <1>7, <1>9 DEF Suffix, u, x

\* What one more update takes off a path.
LEMMA SuffixStep ==
    ASSUME NEW p \in Paths, NEW n \in Nat
    PROVE  \E k \in Keys :
              /\ \E i \in DOMAIN p : k = p[i]
              /\ \/ Suffix(p, n) = <<k>> \o Suffix(p, n + 1)
                 \/ Suffix(p, n) = <<k>> /\ Suffix(p, n + 1) = <<k>>
<1>1. p \in Seq(Keys) /\ Len(p) \in Nat \ {0} /\ DOMAIN p = 1..Len(p)
  BY PathFacts
<1>2. \A i \in 1..Len(p) : p[i] \in Keys
  BY <1>1
<1>3. CASE n + 1 < Len(p)
  <2> DEFINE x == n + 1
  <2>1. /\ x \in 1..Len(p) /\ Len(p) \in x..Len(p)
        /\ Suffix(p, n) = SubSeq(p, x, Len(p))
        /\ Suffix(p, n + 1) = SubSeq(p, x + 1, Len(p))
    <3>1. From(p, n) = x /\ From(p, n + 1) = x + 1
      BY <1>1, <1>3 DEF From
    <3>2. x \in 1..Len(p) /\ Len(p) \in x..Len(p)
      BY <1>1, <1>3
    <3> QED BY <3>1, <3>2, Zenon DEF Suffix
  <2> HIDE DEF x
  <2>2. SubSeq(p, x, Len(p)) = << p[x] >> \o SubSeq(p, x + 1, Len(p))
    BY <1>1, <2>1, SubSeqRecursiveFirst
  <2> QED BY <1>1, <1>2, <2>1, <2>2
<1>4. CASE ~ (n + 1 < Len(p))
  <2> DEFINE l == Len(p)
             u == SubSeq(p, l, l)
  <2>1. Suffix(p, n) = u /\ Suffix(p, n + 1) = u
    <3>1. From(p, n) = l /\ From(p, n + 1) = l
      <4>1. l \in Nat /\ ~ (n + 1 < l)
        BY <1>1, <1>4
      <4>2. ~ (n < l) \/ n + 1 = l
        <5> HIDE DEF l
        <5> QED BY <4>1
      <4> QED BY <4>1, <4>2, Zenon DEF From
    <3> QED BY <3>1, Zenon DEF Suffix
  <2>2. l \in 1..l /\ l \in Int /\ p[l] \in Keys /\ \A i \in l..l : p[i] \in Keys
    BY <1>1, <1>2
  <2> HIDE DEF l
  <2>3. /\ u \in Seq(Keys) /\ Len(u) = 1 /\ u[1] = p[l]
    BY <2>2, SubSeqProperties
  <2> HIDE DEF u
  <2>4. u = <<p[l]>>
    BY <2>2, <2>3
  <2> QED BY <1>1, <2>1, <2>2, <2>4 DEF l
<1> QED BY <1>3, <1>4

LEMMA VarKeyFacts ==
    ASSUME NEW p \in Paths
    PROVE  /\ VarKey(p) = DataDot \o Join(p)
           /\ VarKey(p) = DataKey \o (Dot \o Join(p))
           /\ VarKey(p) \in Keys
           /\ AllTildeFree(p) => TildeFree(VarKey(p))
<1>1. Join(p) \in Keys
  BY JoinType, PathFacts
<1>2. VarKey(p) = DataDot \o Join(p)
  BY DEF VarKey, DataDot
<1>3. VarKey(p) = DataKey \o (Dot \o Join(p))
  BY <1>1, <1>2, DataKeyFacts
<1>4. VarKey(p) \in Keys
  BY <1>1, <1>2, DataKeyFacts, KeyConcat
<1>5. AllTildeFree(p) => TildeFree(VarKey(p))
  BY <1>1, <1>3, DataKeyFacts, JoinTildes, TildesOfSplit
<1> QED BY <1>2, <1>3, <1>4, <1>5

\* Each read of an updated document takes one part off a nested variable.
LEMMA DropVarKey ==
    ASSUME NEW p \in Paths, AllDotFree(p), NEW n \in Nat
    PROVE  DropSecond(VarKey(Suffix(p, n))) = VarKey(Suffix(p, n + 1))
<1>1. PICK k \in Keys :
         /\ \E i \in DOMAIN p : k = p[i]
         /\ \/ Suffix(p, n) = <<k>> \o Suffix(p, n + 1)
            \/ Suffix(p, n) = <<k>> /\ Suffix(p, n + 1) = <<k>>
  BY SuffixStep
<1>2. DotFree(k)
  BY <1>1 DEF AllDotFree
<1>3. Suffix(p, n) \in Paths /\ Suffix(p, n + 1) \in Paths
  BY SuffixFacts
<1> DEFINE q == Suffix(p, n + 1)
<1>4. CASE Suffix(p, n) = <<k>> \o q
  <2>1. Join(Suffix(p, n)) = k \o (Dot \o Join(q))
    BY <1>3, <1>4, JoinCons
  <2>2. Join(q) \in Keys
    BY <1>3, JoinType, PathFacts
  <2>3. VarKey(Suffix(p, n)) = DataKey \o (Dot \o (k \o (Dot \o Join(q))))
    BY <1>3, <2>1, VarKeyFacts
  <2>4. DropSecond(VarKey(Suffix(p, n))) = DataKey \o (Dot \o Join(q))
    <3>1. DataKey \in Keys /\ DotFree(DataKey)
      BY DataKeyFacts
    <3> QED BY <1>2, <2>2, <2>3, <3>1, DropSecondTwo
  <2> QED BY <1>3, <2>4, VarKeyFacts
<1>5. CASE Suffix(p, n) = <<k>> /\ q = <<k>>
  <2>1. VarKey(q) = DataKey \o (Dot \o k)
    BY <1>3, <1>5, JoinOne, VarKeyFacts
  <2>2. DropSecond(DataKey \o (Dot \o k)) = DataKey \o (Dot \o k)
    BY <1>2, DropSecondOne, DataKeyFacts
  <2>3. Suffix(p, n) = q
    BY <1>5
  <2> HIDE DEF q
  <2>4. DropSecond(VarKey(q)) = VarKey(q)
    BY <2>1, <2>2
  <2> QED BY <2>3, <2>4 DEF q
<1> QED BY <1>1, <1>4, <1>5

\* KeyAfter and OrdinaryKey for a mapping m, whatever the state.
IsVarKeyOf(m, key) == \E p \in DOMAIN m : key = VarKey(p)

AfterIn(m, key, n) ==
    IF IsVarKeyOf(m, key)
    THEN VarKey(Suffix(CHOOSE p \in DOMAIN m : key = VarKey(p), n))
    ELSE key

Ordinary(m, key) == IsVarKeyOf(m, key) \/ ToSet(key) \cap {".", "~"} = {}

\* A key after n updates has no tilde, reading it once more drops one part, and
\* it only has no dot if it never had one.
LEMMA AfterFacts ==
    ASSUME NEW m, Valid(m), ~ Tildes(m), NEW key \in Keys, Ordinary(m, key),
           NEW n \in Nat
    PROVE  /\ AfterIn(m, key, n) \in Keys
           /\ TildeFree(AfterIn(m, key, n))
           /\ DropSecond(AfterIn(m, key, n)) = AfterIn(m, key, n + 1)
           /\ DotFree(AfterIn(m, key, n)) => AfterIn(m, key, n) = key
<1>1. CASE IsVarKeyOf(m, key)
  <2> DEFINE p == CHOOSE p \in DOMAIN m : key = VarKey(p)
  <2>1. p \in DOMAIN m /\ \A k \in Nat : AfterIn(m, key, k) = VarKey(Suffix(p, k))
    BY <1>1 DEF IsVarKeyOf, AfterIn
  <2> HIDE DEF p
  <2>2. p \in Paths /\ AllDotFree(p)
    BY <2>1 DEF Valid, IsObject
  <2>3. AllTildeFree(p)
    <3>1. Join(p) \in VarsOf(m, {})
      BY <2>1, MappingVars
    <3>2. TildeFree(Join(p))
      BY <3>1 DEF Tildes, TildeFree
    <3> QED BY <2>2, <3>2, JoinTildes
  <2>4. Suffix(p, n) \in Paths /\ AllTildeFree(Suffix(p, n))
    BY <2>2, <2>3, SuffixFacts
  <2>5. VarKey(Suffix(p, n)) \in Keys /\ TildeFree(VarKey(Suffix(p, n)))
    BY <2>4, VarKeyFacts
  <2>6. DropSecond(VarKey(Suffix(p, n))) = VarKey(Suffix(p, n + 1))
    BY <2>2, DropVarKey
  <2>7. ~ DotFree(VarKey(Suffix(p, n)))
    <3>1. VarKey(Suffix(p, n)) = DataKey \o (Dot \o Join(Suffix(p, n)))
      BY <2>4, VarKeyFacts
    <3>2. Join(Suffix(p, n)) \in Keys
      BY <2>4, JoinType, PathFacts
    <3> QED BY <3>1, <3>2, DotInside, DataKeyFacts
  <2>8. AfterIn(m, key, n) = VarKey(Suffix(p, n))
    BY <2>1
  <2>9. AfterIn(m, key, n + 1) = VarKey(Suffix(p, n + 1))
    BY <2>1
  <2> QED BY <2>5, <2>6, <2>7, <2>8, <2>9
<1>2. CASE ~ IsVarKeyOf(m, key)
  <2>1. AfterIn(m, key, n) = key /\ AfterIn(m, key, n + 1) = key
    BY <1>2 DEF AfterIn
  <2>2. DotFree(key) /\ TildeFree(key)
    <3>1. \A i \in 1..Len(key) : key[i] # "." /\ key[i] # "~"
      BY <1>2, KeyFacts DEF Ordinary, ToSet
    <3> QED BY <3>1 DEF DotFree, TildeFree, Contains
  <2>3. DropSecond(key) = key
    BY <2>2, DropSecondNone
  <2> QED BY <2>1, <2>2, <2>3
<1> QED BY <1>1, <1>2

\* Before any update the key is as it was posted.
LEMMA AfterNone ==
    ASSUME NEW m, Valid(m), NEW key \in Keys
    PROVE  AfterIn(m, key, 0) = key
<1>1. CASE IsVarKeyOf(m, key)
  <2> DEFINE p == CHOOSE p \in DOMAIN m : key = VarKey(p)
  <2>1. p \in DOMAIN m /\ key = VarKey(p) /\ AfterIn(m, key, 0) = VarKey(Suffix(p, 0))
    BY <1>1 DEF IsVarKeyOf, AfterIn
  <2> HIDE DEF p
  <2>2. p \in Seq(Keys) /\ Len(p) \in Nat \ {0}
    BY <2>1, PathFacts DEF Valid, IsObject
  <2>3. From(p, 0) = 1
    BY <2>2 DEF From
  <2>4. Suffix(p, 0) = p
    BY <2>2, <2>3, SubSeqFull DEF Suffix
  <2> QED BY <2>1, <2>4
<1>2. CASE ~ IsVarKeyOf(m, key)
  BY <1>2 DEF AfterIn
<1> QED BY <1>1, <1>2

\* The first read drops the name that PostTrigger added.
LEMMA NameDropped ==
    ASSUME NEW m, Valid(m), ~ Tildes(m), NEW key \in Keys, Ordinary(m, key),
           NEW name \in Keys, DotFree(name), TildeFree(name)
    PROVE  /\ DropSecond(AddNameTo(key, name)) = key
           /\ TildeFree(AddNameTo(key, name))
<1>1. TildeFree(key) /\ (~ IsVarKeyOf(m, key) => DotFree(key))
  <2>1. AfterIn(m, key, 0) = key
    BY AfterNone
  <2>2. TildeFree(key)
    BY <2>1, AfterFacts
  <2>3. ~ IsVarKeyOf(m, key) => DotFree(key)
    BY KeyFacts DEF Ordinary, ToSet, DotFree, Contains
  <2> QED BY <2>2, <2>3
<1>2. CASE IsVarKeyOf(m, key)
  <2>1. PICK p \in DOMAIN m : key = VarKey(p)
    BY <1>2 DEF IsVarKeyOf
  <2>2. p \in Paths
    BY <2>1 DEF Valid, IsObject
  <2> DEFINE x == Join(p)
  <2>3. x \in Keys /\ key = DataDot \o x /\ key = DataKey \o (Dot \o x)
    BY <2>1, <2>2, VarKeyFacts, JoinType, PathFacts
  <2> HIDE DEF x
  <2>4. AddNameTo(key, name) = DataKey \o (Dot \o (name \o (Dot \o x)))
    BY <2>3, AddNameData
  <2>5. DropSecond(AddNameTo(key, name)) = key
    <3>1. DataKey \in Keys /\ DotFree(DataKey)
      BY DataKeyFacts
    <3>2. DropSecond(DataKey \o (Dot \o (name \o (Dot \o x)))) = DataKey \o (Dot \o x)
      BY <2>3, <3>1, DropSecondTwo
    <3> QED BY <2>3, <2>4, <3>2
  <2>6. TildeFree(x)
    BY <1>1, <2>3, DataKeyFacts, TildesOfSplit
  <2> DEFINE y == name \o (Dot \o x)
  <2>7. y \in Keys /\ TildeFree(y)
    BY <2>3, <2>6, SplitPoints, TildesOfSplit
  <2> HIDE DEF y
  <2>8. TildeFree(DataKey \o (Dot \o y))
    BY <2>7, DataKeyFacts, TildesOfSplit
  <2> QED BY <2>4, <2>5, <2>8 DEF y
<1>3. CASE ~ IsVarKeyOf(m, key)
  BY <1>1, <1>3, AddNameNone, DropSecondNone
<1> QED BY <1>2, <1>3

-----------------------------------------------------------------------------
(* The rewritings of a leaf *)

\* A leaf and its path.
LEMMA LeafFacts ==
    ASSUME NEW leaf \in Leaves
    PROVE  /\ leaf.path \in Paths /\ leaf.array \in BOOLEAN
           /\ leaf.path \in Seq(Keys) /\ Len(leaf.path) \in Nat \ {0}
           /\ DOMAIN leaf.path = 1..Len(leaf.path)
           /\ \A i \in 1..Len(leaf.path) : leaf.path[i] \in Keys
           /\ \A q : [leaf EXCEPT !.path = q] = [path |-> q, array |-> leaf.array]
           /\ leaf = [path |-> leaf.path, array |-> leaf.array]
<1>1. leaf.path \in Paths /\ leaf.array \in BOOLEAN
  BY DEF Leaves
<1>2. /\ leaf.path \in Seq(Keys) /\ Len(leaf.path) \in Nat \ {0}
      /\ DOMAIN leaf.path = 1..Len(leaf.path)
  BY <1>1, PathFacts
<1>3. \A i \in 1..Len(leaf.path) : leaf.path[i] \in Keys
  BY <1>2, ElementOfSeq
<1>4. /\ \A q : [leaf EXCEPT !.path = q] = [path |-> q, array |-> leaf.array]
      /\ leaf = [path |-> leaf.path, array |-> leaf.array]
  BY DEF Leaves
<1> QED BY <1>1, <1>2, <1>3, <1>4

\* A path with another last key.
LEMMA LastReplaced ==
    ASSUME NEW p \in Paths, NEW k \in Keys
    PROVE  /\ Front(p) \o <<k>> \in Paths
           /\ Len(Front(p) \o <<k>>) = Len(p)
           /\ Last(Front(p) \o <<k>>) = k
           /\ \A i \in 1..Len(p) :
                 (Front(p) \o <<k>>)[i] = IF i = Len(p) THEN k ELSE p[i]
<1>1. p \in Seq(Keys) /\ Len(p) \in Nat \ {0}
  BY PathFacts
<1> DEFINE l == Len(p) - 1
           f == SubSeq(p, 1, l)
           u == f \o <<k>>
<1>2. l \in Nat /\ l \in Int /\ \A i \in 1..l : p[i] \in Keys
  BY <1>1
<1>3. f \in Seq(Keys) /\ Len(f) = l /\ \A i \in 1..l : f[i] = p[i]
  <2> HIDE DEF l
  <2>1. /\ f \in Seq(Keys) /\ Len(f) = (IF 1 <= l THEN l - 1 + 1 ELSE 0)
        /\ \A i \in 1..l-1+1 : f[i] = p[1 + i - 1]
    BY <1>2, SubSeqProperties
  <2> HIDE DEF f
  <2> QED BY <1>2, <2>1
<1> HIDE DEF f
<1>4. /\ u \in Seq(Keys) /\ Len(u) = Len(p) /\ u[Len(p)] = k
      /\ \A i \in 1..l : u[i] = p[i]
  BY <1>1, <1>2, <1>3
<1> HIDE DEF u
<1>5. u \in Paths
  <2>1. u # <<>>
    BY <1>1, <1>4
  <2> QED BY <1>4, <2>1 DEF Paths
<1>6. \A i \in 1..Len(p) : u[i] = IF i = Len(p) THEN k ELSE p[i]
  BY <1>1, <1>2, <1>4
<1>7. u = Front(p) \o <<k>>
  BY DEF Front, u, f
<1> QED BY <1>4, <1>5, <1>6, <1>7 DEF Last

\* A leaf whose keys are rewritten one by one.
LEMMA KeyByKey ==
    ASSUME NEW leaf \in Leaves, NEW q,
           q = [i \in DOMAIN leaf.path |-> q[i]],
           \A i \in DOMAIN leaf.path : q[i] \in Keys
    PROVE  /\ [leaf EXCEPT !.path = q] \in Leaves
           /\ [leaf EXCEPT !.path = q].path = q
           /\ [leaf EXCEPT !.path = q].array = leaf.array
           /\ DOMAIN q = DOMAIN leaf.path
<1>1. /\ Len(leaf.path) \in Nat \ {0} /\ DOMAIN leaf.path = 1..Len(leaf.path)
      /\ leaf.array \in BOOLEAN
      /\ [leaf EXCEPT !.path = q] = [path |-> q, array |-> leaf.array]
  BY LeafFacts
<1>2. q \in Seq(Keys) /\ Len(q) = Len(leaf.path) /\ DOMAIN q = DOMAIN leaf.path
  BY <1>1
<1>3. q \in Paths
  <2>1. q # <<>>
    BY <1>1, <1>2
  <2> QED BY <1>2, <2>1 DEF Paths
<1>4. [path |-> q, array |-> leaf.array] \in Leaves
  BY <1>1, <1>3 DEF Leaves
<1> QED BY <1>1, <1>2, <1>4

LEMMA LastKey ==
    ASSUME NEW p \in Paths
    PROVE  /\ Last(p) \in Keys /\ Last(p) = p[Len(p)]
           /\ Front(p) \o <<Last(p)>> = p
           /\ Head(p) \in Keys /\ Head(p) = p[1]
<1>1. p \in Seq(Keys) /\ Len(p) \in Nat \ {0} /\ DOMAIN p = 1..Len(p)
  BY PathFacts
<1>2. Last(p) \in Keys /\ Last(p) = p[Len(p)] /\ Head(p) = p[1] /\ Head(p) \in Keys
  BY <1>1 DEF Last
<1> DEFINE k == Last(p)
           q == Front(p) \o <<k>>
<1> HIDE DEF k
<1>3. /\ q \in Paths /\ Len(q) = Len(p)
      /\ \A i \in 1..Len(p) : q[i] = IF i = Len(p) THEN k ELSE p[i]
  BY <1>2, LastReplaced DEF k
<1> HIDE DEF q
<1>4. q = p
  <2>1. q \in Seq(Keys)
    BY <1>3 DEF Paths
  <2>2. \A i \in 1..Len(p) : q[i] = p[i]
    BY <1>2, <1>3 DEF k
  <2> QED BY <1>1, <1>3, <2>1, <2>2, SeqEqual
<1> QED BY <1>2, <1>4 DEF k, q

\* The key of a scalar is encoded to one without dots, and back if it held no
\* tilde before.
LEMMA EncodeFacts ==
    ASSUME NEW leaf \in Leaves
    PROVE  /\ EncodeDots(leaf) \in Leaves
           /\ EncodeDots(leaf).array \/ DotFree(Last(EncodeDots(leaf).path))
           /\ DotFree(Last(leaf.path)) => EncodeDots(leaf) = leaf
           /\ TildeFree(Last(leaf.path)) => DecodeTildes(EncodeDots(leaf)) = leaf
<1>1. CASE leaf.array
  BY <1>1 DEF EncodeDots, DecodeTildes
<1>2. CASE ~ leaf.array
  <2> DEFINE p == leaf.path
             k == Last(p)
             e == DotsToTildes(k)
             q == Front(p) \o <<e>>
  <2>1. /\ p \in Paths /\ leaf.array = FALSE
        /\ [leaf EXCEPT !.path = q] = [path |-> q, array |-> leaf.array]
        /\ leaf = [path |-> p, array |-> leaf.array]
    BY <1>2, LeafFacts
  <2>2. EncodeDots(leaf) = [path |-> q, array |-> FALSE]
    BY <1>2, <2>1 DEF EncodeDots
  <2>3. k \in Keys /\ Front(p) \o <<k>> = p
    BY <2>1, LastKey
  <2> HIDE DEF p, k
  <2>4. /\ e \in Keys /\ DotFree(e) /\ (DotFree(k) => e = k)
        /\ TildeFree(k) => TildesToDots(e) = k
    BY <2>3, EncodedAndBack
  <2> HIDE DEF e
  <2>5. q \in Paths /\ Last(q) = e
    BY <2>1, <2>4, LastReplaced
  <2>6. EncodeDots(leaf) \in Leaves
    <3> HIDE DEF q
    <3> QED BY <2>2, <2>5 DEF Leaves
  <2>7. DotFree(Last(EncodeDots(leaf).path))
    <3> HIDE DEF q
    <3> QED BY <2>2, <2>4, <2>5
  <2>8. DotFree(k) => EncodeDots(leaf) = leaf
    BY <2>1, <2>2, <2>3, <2>4, Zenon
  <2>9. ASSUME TildeFree(k) PROVE DecodeTildes(EncodeDots(leaf)) = leaf
    <3>1. Front(q) \o <<k>> = p
      <4> DEFINE r == Front(q) \o <<k>>
      <4>1. /\ r \in Paths /\ Len(r) = Len(q)
            /\ \A i \in 1..Len(q) : r[i] = IF i = Len(q) THEN k ELSE q[i]
        BY <2>3, <2>5, LastReplaced
      <4>2. Len(q) = Len(p) /\ \A i \in 1..Len(p) : q[i] = IF i = Len(p) THEN e ELSE p[i]
        BY <2>1, <2>4, LastReplaced
      <4> HIDE DEF r, q
      <4>3. p[Len(p)] = k
        BY <2>1, LastKey DEF k
      <4>4. \A i \in 1..Len(p) : r[i] = p[i]
        BY <4>1, <4>2, <4>3
      <4>5. r \in Seq(Keys) /\ p \in Seq(Keys) /\ Len(r) = Len(p)
        BY <2>1, <4>1, <4>2, PathFacts
      <4>6. r = p
        BY <4>4, <4>5, SeqEqual
      <4> QED BY <4>6 DEF r
    <3> HIDE DEF q
    <3> DEFINE d == [path |-> q, array |-> FALSE]
    <3>2. d \in Leaves /\ d.path = q /\ ~ d.array /\ d.array = FALSE
      BY <2>5 DEF Leaves
    <3>3. DecodeTildes(d) = [d EXCEPT !.path = Front(q) \o <<TildesToDots(Last(q))>>]
      BY <3>2 DEF DecodeTildes
    <3>4. TildesToDots(Last(q)) = k
      BY <2>4, <2>5, <2>9
    <3>5. DecodeTildes(d) = [d EXCEPT !.path = p]
      BY <3>1, <3>3, <3>4, Zenon
    <3>6. [d EXCEPT !.path = p] = [path |-> p, array |-> FALSE]
      BY <3>2, LeafFacts
    <3> HIDE DEF d
    <3> QED BY <2>1, <2>2, <3>5, <3>6 DEF d
  <2> QED BY <2>6, <2>7, <2>8, <2>9 DEF k, p
<1>3. leaf.array \in BOOLEAN
  BY LeafFacts
<1> QED BY <1>1, <1>2, <1>3

LEMMA DecodeType ==
    ASSUME NEW leaf \in Leaves
    PROVE  DecodeTildes(leaf) \in Leaves
<1>1. CASE leaf.array
  BY <1>1 DEF DecodeTildes
<1>2. CASE ~ leaf.array
  <2> DEFINE e == TildesToDots(Last(leaf.path))
             q == Front(leaf.path) \o <<e>>
  <2>1. /\ leaf.path \in Paths /\ leaf.array \in BOOLEAN
        /\ [leaf EXCEPT !.path = q] = [path |-> q, array |-> leaf.array]
    BY LeafFacts
  <2>2. e \in Keys
    BY <2>1, LastKey, EncodedAndBack
  <2>3. DecodeTildes(leaf) = [path |-> q, array |-> leaf.array]
    BY <1>2, <2>1 DEF DecodeTildes
  <2> HIDE DEF e
  <2>4. q \in Paths
    BY <2>1, <2>2, LastReplaced
  <2> HIDE DEF q
  <2> QED BY <2>1, <2>3, <2>4 DEF Leaves
<1> QED BY <1>1, <1>2

LEMMA DropNameFacts ==
    ASSUME NEW leaf \in Leaves
    PROVE  /\ DropName(leaf) \in Leaves
           /\ DropName(leaf).array = leaf.array
           /\ DOMAIN DropName(leaf).path = DOMAIN leaf.path
           /\ \A i \in DOMAIN leaf.path :
                 DropName(leaf).path[i] = DropSecond(leaf.path[i])
<1> DEFINE q == [i \in DOMAIN leaf.path |-> DropSecond(leaf.path[i])]
<1>1. DropName(leaf) = [leaf EXCEPT !.path = q]
  BY DEF DropName
<1>2. \A i \in DOMAIN leaf.path : q[i] \in Keys
  BY LeafFacts, DropSecondType
<1>3. q = [i \in DOMAIN leaf.path |-> q[i]]
  OBVIOUS
<1>4. \A i \in DOMAIN leaf.path : q[i] = DropSecond(leaf.path[i])
  OBVIOUS
<1> HIDE DEF q
<1> QED BY <1>1, <1>2, <1>3, <1>4, KeyByKey

LEMMA LastOfLeaf ==
    ASSUME NEW leaf \in Leaves
    PROVE  /\ Last(leaf.path) = leaf.path[Len(leaf.path)]
           /\ Len(leaf.path) \in DOMAIN leaf.path
           /\ Head(leaf.path) = leaf.path[1] /\ 1 \in DOMAIN leaf.path
<1>1. /\ leaf.path \in Paths /\ Len(leaf.path) \in Nat \ {0}
      /\ DOMAIN leaf.path = 1..Len(leaf.path)
  BY LeafFacts
<1>2. Last(leaf.path) = leaf.path[Len(leaf.path)] /\ Head(leaf.path) = leaf.path[1]
  BY <1>1, LastKey
<1>3. Len(leaf.path) \in DOMAIN leaf.path /\ 1 \in DOMAIN leaf.path
  BY <1>1
<1> QED BY <1>2, <1>3

LEMMA AddNameFacts ==
    ASSUME NEW leaf \in Leaves, NEW name \in Keys
    PROVE  /\ AddName(leaf, name) \in Leaves
           /\ AddName(leaf, name).array = leaf.array
           /\ DOMAIN AddName(leaf, name).path = DOMAIN leaf.path
           /\ \A i \in DOMAIN leaf.path :
                 AddName(leaf, name).path[i] = AddNameTo(leaf.path[i], name)
<1> DEFINE q == [i \in DOMAIN leaf.path |-> AddNameTo(leaf.path[i], name)]
<1>1. AddName(leaf, name) = [leaf EXCEPT !.path = q]
  BY DEF AddName, AddNameTo
<1>2. \A i \in DOMAIN leaf.path : q[i] \in Keys
  BY LeafFacts, AddNameType
<1>3. q = [i \in DOMAIN leaf.path |-> q[i]]
  OBVIOUS
<1>4. \A i \in DOMAIN leaf.path : q[i] = AddNameTo(leaf.path[i], name)
  OBVIOUS
<1> DEFINE a == AddName(leaf, name)
<1> HIDE DEF q
<1>5. /\ [leaf EXCEPT !.path = q] \in Leaves
      /\ [leaf EXCEPT !.path = q].path = q
      /\ [leaf EXCEPT !.path = q].array = leaf.array
      /\ DOMAIN q = DOMAIN leaf.path
  BY <1>2, <1>3, KeyByKey
<1> HIDE DEF a
<1>6. a \in Leaves /\ a.path = q /\ a.array = leaf.array
  BY <1>1, <1>5 DEF a
<1> QED BY <1>4, <1>5, <1>6 DEF a

\* Two leaves with the same keys are the same.
LEMMA LeafEqual ==
    ASSUME NEW a \in Leaves, NEW b \in Leaves, a.array = b.array,
           DOMAIN a.path = DOMAIN b.path,
           \A i \in DOMAIN a.path : a.path[i] = b.path[i]
    PROVE  a = b
<1>1. a.path \in Seq(Keys) /\ b.path \in Seq(Keys)
  BY LeafFacts
<1>2. a.path = b.path
  <2> DEFINE p == a.path
             q == b.path
  <2>1. p \in Seq(Keys) /\ q \in Seq(Keys) /\ DOMAIN p = DOMAIN q
        /\ \A i \in DOMAIN p : p[i] = q[i]
    BY <1>1
  <2> HIDE DEF p, q
  <2>2. Len(p) = Len(q) /\ \A i \in 1..Len(p) : p[i] = q[i]
    BY <2>1
  <2>3. p = q
    BY <2>1, <2>2, SeqEqual
  <2> QED BY <2>3 DEF p, q
<1>3. a = [path |-> a.path, array |-> a.array] /\ b = [path |-> b.path, array |-> b.array]
  BY LeafFacts
<1> QED BY <1>2, <1>3

-----------------------------------------------------------------------------
(* A condition and its updates *)

\* The condition c of a type with mapping m, after its document went through
\* n updates.
After(m, c, n) == [c EXCEPT !.path = [i \in DOMAIN @ |-> AfterIn(m, @[i], n)]]

AllOrdinary(m, c) == \A i \in DOMAIN c.path : Ordinary(m, c.path[i])

\* A condition after n updates, when it is read once more.
LEMMA AfterLeaf ==
    ASSUME NEW m, Valid(m), ~ Tildes(m), NEW c \in Leaves, AllOrdinary(m, c),
           NEW n \in Nat
    PROVE  /\ After(m, c, n) \in Leaves
           /\ After(m, c, n).array = c.array
           /\ DOMAIN After(m, c, n).path = DOMAIN c.path
           /\ \A i \in DOMAIN c.path : After(m, c, n).path[i] = AfterIn(m, c.path[i], n)
           /\ TildeFree(Last(After(m, c, n).path))
           /\ DropName(After(m, c, n)) = After(m, c, n + 1)
<1>1. ASSUME NEW k \in Nat
      PROVE  /\ After(m, c, k) \in Leaves
             /\ After(m, c, k).array = c.array
             /\ DOMAIN After(m, c, k).path = DOMAIN c.path
             /\ \A i \in DOMAIN c.path :
                   After(m, c, k).path[i] = AfterIn(m, c.path[i], k)
  <2> DEFINE q == [i \in DOMAIN c.path |-> AfterIn(m, c.path[i], k)]
  <2>1. After(m, c, k) = [c EXCEPT !.path = q]
    BY DEF After
  <2>2. \A i \in DOMAIN c.path : q[i] \in Keys
    BY LeafFacts, AfterFacts DEF AllOrdinary
  <2>3. q = [i \in DOMAIN c.path |-> q[i]]
    OBVIOUS
  <2>4. \A i \in DOMAIN c.path : q[i] = AfterIn(m, c.path[i], k)
    OBVIOUS
  <2> HIDE DEF q
  <2> QED BY <2>1, <2>2, <2>3, <2>4, KeyByKey
<1> DEFINE a == After(m, c, n)
           b == After(m, c, n + 1)
           d == DropName(a)
<1>2. /\ a \in Leaves /\ a.array = c.array /\ DOMAIN a.path = DOMAIN c.path
      /\ \A i \in DOMAIN c.path : a.path[i] = AfterIn(m, c.path[i], n)
  BY <1>1
<1>3. /\ b \in Leaves /\ b.array = c.array /\ DOMAIN b.path = DOMAIN c.path
      /\ \A i \in DOMAIN c.path : b.path[i] = AfterIn(m, c.path[i], n + 1)
  <2>1. n + 1 \in Nat
    OBVIOUS
  <2> QED BY <1>1, <2>1
<1> HIDE DEF a, b
<1>4. /\ d \in Leaves /\ d.array = a.array /\ DOMAIN d.path = DOMAIN a.path
      /\ \A i \in DOMAIN a.path : d.path[i] = DropSecond(a.path[i])
  BY <1>2, DropNameFacts
<1> HIDE DEF d
<1>5. \A i \in DOMAIN c.path : c.path[i] \in Keys /\ Ordinary(m, c.path[i])
  BY LeafFacts DEF AllOrdinary
<1>6. \A i \in DOMAIN c.path : d.path[i] = b.path[i]
  BY <1>2, <1>3, <1>4, <1>5, AfterFacts
<1>7. d = b
  <2>1. d.array = b.array /\ DOMAIN d.path = DOMAIN b.path
    BY <1>2, <1>3, <1>4
  <2>2. \A i \in DOMAIN d.path : d.path[i] = b.path[i]
    BY <1>2, <1>4, <1>6
  <2> QED BY <1>3, <1>4, <2>1, <2>2, LeafEqual
<1>8. TildeFree(Last(a.path))
  <2>1. Last(a.path) = a.path[Len(a.path)] /\ Len(a.path) \in DOMAIN a.path
    BY <1>2, LastOfLeaf
  <2>2. Len(a.path) \in DOMAIN c.path
    BY <1>2, <2>1
  <2> QED BY <1>2, <1>5, <2>1, <2>2, AfterFacts
<1> QED BY <1>2, <1>7, <1>8 DEF a, b, d

\* What the first read of a trigger makes of the document PostTrigger wrote.
LEMMA FirstRead ==
    ASSUME NEW m, Valid(m), ~ Tildes(m), NEW c \in Leaves, AllOrdinary(m, c),
           NEW name \in Keys, DotFree(name), TildeFree(name)
    PROVE  DecodeCondition(EncodeDots(AddName(c, name))) = After(m, c, 0)
<1> DEFINE a == AddName(c, name)
           d == DropName(a)
           b == After(m, c, 0)
<1>1. /\ a \in Leaves /\ a.array = c.array /\ DOMAIN a.path = DOMAIN c.path
      /\ \A i \in DOMAIN c.path : a.path[i] = AddNameTo(c.path[i], name)
  BY AddNameFacts
<1>2. \A i \in DOMAIN c.path : c.path[i] \in Keys /\ Ordinary(m, c.path[i])
  BY LeafFacts DEF AllOrdinary
<1>3. /\ b \in Leaves /\ b.array = c.array /\ DOMAIN b.path = DOMAIN c.path
      /\ \A i \in DOMAIN c.path : b.path[i] = AfterIn(m, c.path[i], 0)
  <2>1. 0 \in Nat
    OBVIOUS
  <2> QED BY <2>1, AfterLeaf
<1>4. TildeFree(Last(a.path))
  <2> HIDE DEF a
  <2>1. Last(a.path) = a.path[Len(a.path)] /\ Len(a.path) \in DOMAIN a.path
    BY <1>1, LastOfLeaf
  <2>2. Len(a.path) \in DOMAIN c.path
    BY <1>1, <2>1
  <2> QED BY <1>1, <1>2, <2>1, <2>2, NameDropped
<1> HIDE DEF a, b
<1>5. DecodeTildes(EncodeDots(a)) = a
  BY <1>1, <1>4, EncodeFacts
<1>6. /\ d \in Leaves /\ d.array = a.array /\ DOMAIN d.path = DOMAIN a.path
      /\ \A i \in DOMAIN a.path : d.path[i] = DropSecond(a.path[i])
  BY <1>1, DropNameFacts
<1> HIDE DEF d
<1>7. \A i \in DOMAIN c.path : d.path[i] = b.path[i]
  <2> SUFFICES ASSUME NEW i \in DOMAIN c.path PROVE d.path[i] = b.path[i]
    OBVIOUS
  <2>1. DropSecond(AddNameTo(c.path[i], name)) = c.path[i]
    BY <1>2, NameDropped
  <2>2. AfterIn(m, c.path[i], 0) = c.path[i]
    BY <1>2, AfterNone
  <2> QED BY <1>1, <1>3, <1>6, <2>1, <2>2
<1>8. d = b
  <2>1. d.array = b.array /\ DOMAIN d.path = DOMAIN b.path
    BY <1>1, <1>3, <1>6
  <2>2. \A i \in DOMAIN d.path : d.path[i] = b.path[i]
    BY <1>1, <1>6, <1>7
  <2> QED BY <1>3, <1>6, <2>1, <2>2, LeafEqual
<1> QED BY <1>5, <1>8 DEF a, b, d, DecodeCondition

-----------------------------------------------------------------------------
(* The inductive invariant *)

Triggers == [cond : Leaves, job : Leaves]

\* Who refers to what: an event and a trigger are of a type there is, an update
\* under way is of a trigger there is, and of a document before the last update.
TypeInv ==
    /\ etype # None =>
          /\ etype \in [name : Names, mapping : Mappings]
          /\ ValidSchema(etype.name, etype.mapping)
          /\ ~ Tildes(etype.mapping)
    /\ event # None => etype # None /\ event \in [data : Datas, stored : BOOLEAN]
    /\ trigger = None <=> posted = None
    /\ trigger # None => etype # None /\ trigger \in Triggers /\ posted \in Triggers
    /\ edit \in [Editors -> Triggers \cup {None}]
    /\ editFrom \in [Editors -> Nat]
    /\ updates \in 0..MaxUpdates
    /\ trigger = None => updates = 0
    /\ \A ed \in Editors :
          edit[ed] # None => trigger # None /\ editFrom[ed] < MaxUpdates

\* Of the document: the key of a scalar holds no dot, and the query is the one
\* the trigger was posted with.
StoreInv ==
    trigger # None =>
        /\ trigger.cond.array \/ DotFree(Last(trigger.cond.path))
        /\ query = AddName(posted.cond, etype.name)

\* The job in the document, and in the copies that updates under way hold.
JobInv ==
    (trigger # None /\ "." \notin Tokens(posted.job)) =>
        /\ trigger.job = posted.job
        /\ \A ed \in Editors : edit[ed] # None => edit[ed].job = posted.job

\* The condition as it is read from the document, and in those copies: each
\* copy carries how many updates the document it was read from had been through.
CondInv ==
    (/\ trigger # None
     /\ TildeFree(etype.name)
     /\ AllOrdinary(etype.mapping, posted.cond)) =>
        /\ DecodeCondition(trigger.cond) = After(etype.mapping, posted.cond, updates)
        /\ \A ed \in Editors : edit[ed] # None =>
              edit[ed].cond = After(etype.mapping, posted.cond, editFrom[ed])

\* What was stored, and what was not.
EventInv == StoredConforms /\ ConformingAccepted

DataInv == TypeInv /\ StoreInv /\ JobInv /\ CondInv /\ EventInv

LEMMA SchemaFacts ==
    ASSUME TypeInv, etype # None
    PROVE  /\ Valid(etype.mapping) /\ ~ Tildes(etype.mapping)
           /\ etype.name \in Keys /\ DotFree(etype.name)
<1>1. /\ etype.name \in Names /\ etype.mapping \in Mappings
      /\ ValidSchema(etype.name, etype.mapping) /\ ~ Tildes(etype.mapping)
  BY DEF TypeInv
<1>2. etype.name \in Keys /\ IsObject(etype.mapping, DeclaredTypes)
  BY <1>1, EventDataAssumption
<1>3. DotFree(etype.name) /\ \A p \in DOMAIN etype.mapping : AllDotFree(p)
  BY <1>1 DEF ValidSchema, DotFree, AllDotFree
<1> QED BY <1>1, <1>2, <1>3 DEF Valid

LEMMA NotNone ==
    /\ \A x \in [name : Names, mapping : Mappings] : x # None
    /\ \A x \in Triggers : x # None
    /\ \A x \in [data : Datas, stored : BOOLEAN] : x # None
BY EventDataAssumption DEF Triggers

LEMMA TriggerFacts ==
    /\ \A t \in Triggers : t.cond \in Leaves /\ t.job \in Leaves
    /\ \A c, j \in Leaves : [cond |-> c, job |-> j] \in Triggers
BY DEF Triggers

\* GetOne as a record.
LEMMA GetOneIs ==
    ASSUME trigger \in Triggers
    PROVE  /\ GetOne \in Triggers
           /\ GetOne.cond = DecodeCondition(trigger.cond)
           /\ GetOne.job = trigger.job
<1>1. trigger.cond \in Leaves /\ trigger.job \in Leaves
  BY TriggerFacts
<1>2. DecodeTildes(trigger.cond) \in Leaves
  BY <1>1, DecodeType
<1>3. DecodeCondition(trigger.cond) \in Leaves
  BY <1>2, DropNameFacts DEF DecodeCondition
<1> DEFINE d == DecodeCondition(trigger.cond)
<1>4. GetOne = [cond |-> d, job |-> trigger.job]
  BY DEF GetOne, Triggers
<1> HIDE DEF d
<1>5. [cond |-> d, job |-> trigger.job] \in Triggers
  BY <1>1, <1>3, TriggerFacts DEF d
<1> QED BY <1>4, <1>5 DEF d

LEMMA InitDataInv == Init => DataInv
<1> SUFFICES ASSUME Init PROVE DataInv
  OBVIOUS
<1>1. TypeInv
  BY EventDataAssumption DEF Init, TypeInv
<1>2. StoreInv /\ JobInv /\ CondInv
  BY DEF Init, StoreInv, JobInv, CondInv
<1>3. EventInv
  BY DEF Init, EventInv, StoredConforms, ConformingAccepted, Stored
<1> QED BY <1>1, <1>2, <1>3 DEF DataInv

\* A step keeps the types.
LEMMA TypeNext ==
    ASSUME TypeInv, [Next]_vars
    PROVE  TypeInv'
<1>1. ASSUME NEW n \in Names, NEW m \in Mappings, PostEventType(n, m)
      PROVE  TypeInv'
  <2>1. etype' \in [name : Names, mapping : Mappings]
    BY <1>1 DEF PostEventType
  <2>2. etype'.name = n /\ etype'.mapping = m /\ etype' # None
    BY <1>1, <2>1, NotNone DEF PostEventType
  <2>3. ValidSchema(n, m) /\ ~ Tildes(m)
    BY <1>1 DEF PostEventType
  <2>4. ValidSchema(etype'.name, etype'.mapping) /\ ~ Tildes(etype'.mapping)
    BY <2>2, <2>3
  <2> QED BY <1>1, <2>1, <2>2, <2>4 DEF TypeInv, PostEventType
<1>2. ASSUME NEW c \in Conditions, NEW j \in Jobs, PostTrigger(c, j)
      PROVE  TypeInv'
  <2>1. c \in Leaves /\ j \in Leaves
    BY EventDataAssumption
  <2>2. etype # None
    BY <1>2 DEF PostTrigger
  <2>3. EncodeDots(AddName(c, etype.name)) \in Leaves
    BY <2>1, <2>2, SchemaFacts, AddNameFacts, EncodeFacts
  <2>4. trigger' \in Triggers /\ posted' \in Triggers
    BY <1>2, <2>1, <2>3, TriggerFacts DEF PostTrigger
  <2>5. trigger' # None /\ posted' # None
    BY <2>4, NotNone
  <2>6. UNCHANGED <<etype, edit, event, updates, editFrom>>
    BY <1>2 DEF PostTrigger
  <2> QED BY <2>2, <2>4, <2>5, <2>6 DEF TypeInv
<1>3. ASSUME NEW e \in Editors, ReadForUpdate(e)
      PROVE  TypeInv'
  <2>1. trigger \in Triggers /\ trigger # None /\ updates < MaxUpdates
    BY <1>3 DEF ReadForUpdate, TypeInv
  <2>2. GetOne \in Triggers
    BY <2>1, GetOneIs
  <2>3. edit' \in [Editors -> Triggers \cup {None}]
    BY <1>3, <2>2 DEF ReadForUpdate, TypeInv
  <2>4. editFrom' \in [Editors -> Nat]
    BY <1>3, EventDataAssumption DEF ReadForUpdate, TypeInv
  <2>5. \A ed \in Editors : edit'[ed] # None => editFrom'[ed] < MaxUpdates
    BY <1>3, <2>1 DEF ReadForUpdate, TypeInv
  <2> QED BY <1>3, <2>1, <2>3, <2>4, <2>5 DEF ReadForUpdate, TypeInv
<1>4. ASSUME NEW e \in Editors, SaveUpdate(e)
      PROVE  TypeInv'
  <2>1. /\ edit[e] \in Triggers /\ trigger # None
        /\ editFrom[e] < MaxUpdates /\ editFrom[e] \in Nat
    BY <1>4 DEF SaveUpdate, TypeInv
  <2>2. EncodeDots(edit[e].cond) \in Leaves /\ EncodeDots(edit[e].job) \in Leaves
    BY <2>1, TriggerFacts, EncodeFacts
  <2>3. trigger' \in Triggers
    BY <1>4, <2>2, TriggerFacts DEF SaveUpdate
  <2>4. trigger' # None
    BY <2>3, NotNone
  <2>5. edit' \in [Editors -> Triggers \cup {None}] /\ editFrom' \in [Editors -> Nat]
    BY <1>4 DEF SaveUpdate, TypeInv
  <2>6. updates' \in 0..MaxUpdates
    BY <1>4, <2>1, EventDataAssumption DEF SaveUpdate
  <2>7. \A ed \in Editors : edit'[ed] # None => editFrom'[ed] < MaxUpdates
    BY <1>4 DEF SaveUpdate, TypeInv
  <2>8. UNCHANGED <<etype, event, posted>>
    BY <1>4 DEF SaveUpdate
  <2> QED BY <2>1, <2>3, <2>4, <2>5, <2>6, <2>7, <2>8 DEF TypeInv
<1>5. ASSUME NEW d \in Datas, PostEvent(d)
      PROVE  TypeInv'
  <2>1. PICK b \in BOOLEAN : event' = [data |-> d, stored |-> b]
    BY <1>5 DEF PostEvent
  <2>2. event' \in [data : Datas, stored : BOOLEAN]
    BY <2>1
  <2>3. /\ etype # None
        /\ UNCHANGED <<etype, trigger, query, edit, posted, updates, editFrom>>
    BY <1>5 DEF PostEvent
  <2> QED BY <2>2, <2>3 DEF TypeInv
<1>6. CASE UNCHANGED vars
  BY <1>6 DEF TypeInv, vars
<1> QED BY <1>1, <1>2, <1>3, <1>4, <1>5, <1>6 DEF Next

\* Whatever is written to the document goes through EncodeDots.
LEMMA StoreNext ==
    ASSUME TypeInv, StoreInv, [Next]_vars
    PROVE  StoreInv'
<1>1. ASSUME NEW n \in Names, NEW m \in Mappings, PostEventType(n, m)
      PROVE  StoreInv'
  <2>1. trigger = None /\ trigger' = trigger
    BY <1>1 DEF PostEventType, TypeInv
  <2> QED BY <2>1 DEF StoreInv
<1>2. ASSUME NEW c \in Conditions, NEW j \in Jobs, PostTrigger(c, j)
      PROVE  StoreInv'
  <2> DEFINE a == AddName(c, etype.name)
  <2>1. c \in Leaves /\ etype # None
    BY <1>2, EventDataAssumption DEF PostTrigger
  <2>2. a \in Leaves
    BY <2>1, SchemaFacts, AddNameFacts
  <2> HIDE DEF a
  <2>3. EncodeDots(a).array \/ DotFree(Last(EncodeDots(a).path))
    BY <2>2, EncodeFacts
  <2>4. trigger'.cond = EncodeDots(a) /\ posted'.cond = c /\ query' = a /\ etype' = etype
    BY <1>2 DEF PostTrigger, a
  <2>5. query' = AddName(posted'.cond, etype'.name)
    BY <2>4 DEF a
  <2> QED BY <2>3, <2>4, <2>5 DEF StoreInv
<1>3. ASSUME NEW e \in Editors, ReadForUpdate(e)
      PROVE  StoreInv'
  BY <1>3 DEF StoreInv, ReadForUpdate
<1>4. ASSUME NEW e \in Editors, SaveUpdate(e)
      PROVE  StoreInv'
  <2>1. edit[e].cond \in Leaves /\ trigger # None
    BY <1>4, TriggerFacts DEF SaveUpdate, TypeInv
  <2>2. trigger'.cond.array \/ DotFree(Last(trigger'.cond.path))
    <3>1. trigger'.cond = EncodeDots(edit[e].cond)
      BY <1>4 DEF SaveUpdate
    <3> QED BY <2>1, <3>1, EncodeFacts
  <2>3. UNCHANGED <<query, posted, etype>>
    BY <1>4 DEF SaveUpdate
  <2> QED BY <2>1, <2>2, <2>3 DEF StoreInv
<1>5. ASSUME NEW d \in Datas, PostEvent(d)
      PROVE  StoreInv'
  BY <1>5 DEF StoreInv, PostEvent
<1>6. CASE UNCHANGED vars
  BY <1>6 DEF StoreInv, vars
<1> QED BY <1>1, <1>2, <1>3, <1>4, <1>5, <1>6 DEF Next

LEMMA NoDotLast ==
    ASSUME NEW leaf \in Leaves, "." \notin Tokens(leaf)
    PROVE  DotFree(Last(leaf.path))
<1>1. /\ Last(leaf.path) = leaf.path[Len(leaf.path)]
      /\ Len(leaf.path) \in DOMAIN leaf.path
  BY LastOfLeaf
<1>2. "." \notin ToSet(Last(leaf.path))
  BY <1>1 DEF Tokens
<1>3. Last(leaf.path) \in Keys
  BY LeafFacts, LastKey
<1> DEFINE k == Last(leaf.path)
<1> HIDE DEF k
<1>4. \A i \in 1..Len(k) : k[i] # "."
  BY <1>2, <1>3, KeyFacts DEF ToSet, k
<1> QED BY <1>4 DEF DotFree, Contains, k

\* A job without dots is not changed by EncodeDots.
LEMMA JobNext ==
    ASSUME TypeInv, JobInv, [Next]_vars
    PROVE  JobInv'
<1>1. ASSUME NEW n \in Names, NEW m \in Mappings, PostEventType(n, m)
      PROVE  JobInv'
  BY <1>1 DEF PostEventType, JobInv
<1>2. ASSUME NEW c \in Conditions, NEW j \in Jobs, PostTrigger(c, j)
      PROVE  JobInv'
  <2>1. trigger'.job = j /\ posted'.job = j
    BY <1>2 DEF PostTrigger
  <2>2. \A ed \in Editors : edit'[ed] = None
    BY <1>2 DEF PostTrigger, TypeInv
  <2> QED BY <2>1, <2>2 DEF JobInv
<1>3. ASSUME NEW e \in Editors, ReadForUpdate(e)
      PROVE  JobInv'
  <2>1. trigger # None /\ GetOne.job = trigger.job
    BY <1>3, GetOneIs DEF ReadForUpdate, TypeInv
  <2>2. /\ UNCHANGED <<trigger, posted>>
        /\ \A ed \in Editors : edit'[ed] = IF ed = e THEN GetOne ELSE edit[ed]
    BY <1>3 DEF ReadForUpdate, TypeInv
  <2> QED BY <2>1, <2>2 DEF JobInv
<1>4. ASSUME NEW e \in Editors, SaveUpdate(e)
      PROVE  JobInv'
  <2>1. /\ edit[e] # None /\ trigger # None /\ posted' = posted
        /\ posted.job \in Leaves
        /\ trigger'.job = EncodeDots(edit[e].job)
        /\ \A ed \in Editors : edit'[ed] = IF ed = e THEN None ELSE edit[ed]
    BY <1>4, TriggerFacts DEF SaveUpdate, TypeInv
  <2>2. ASSUME "." \notin Tokens(posted.job) PROVE trigger'.job = posted.job
    <3>1. edit[e].job = posted.job
      BY <2>1, <2>2 DEF JobInv
    <3>2. EncodeDots(posted.job) = posted.job
      BY <2>1, <2>2, NoDotLast, EncodeFacts
    <3> QED BY <2>1, <3>1, <3>2
  <2> QED BY <2>1, <2>2 DEF JobInv
<1>5. ASSUME NEW d \in Datas, PostEvent(d)
      PROVE  JobInv'
  BY <1>5 DEF JobInv, PostEvent
<1>6. CASE UNCHANGED vars
  BY <1>6 DEF JobInv, vars
<1> QED BY <1>1, <1>2, <1>3, <1>4, <1>5, <1>6 DEF Next

\* The document an update writes has been through one more update than the one
\* it was read from, whichever updates came between.
LEMMA CondNext ==
    ASSUME TypeInv, CondInv, [Next]_vars
    PROVE  CondInv'
<1>1. ASSUME NEW n \in Names, NEW m \in Mappings, PostEventType(n, m)
      PROVE  CondInv'
  <2>1. trigger = None /\ trigger' = trigger
    BY <1>1 DEF PostEventType, TypeInv
  <2> QED BY <2>1 DEF CondInv
<1>2. ASSUME NEW c \in Conditions, NEW j \in Jobs, PostTrigger(c, j)
      PROVE  CondInv'
  <2>1. c \in Leaves /\ etype # None /\ trigger = None
    BY <1>2, EventDataAssumption DEF PostTrigger
  <2>2. /\ trigger'.cond = EncodeDots(AddName(c, etype.name)) /\ posted'.cond = c
        /\ UNCHANGED <<etype, edit, updates>>
    BY <1>2 DEF PostTrigger
  <2>3. \A ed \in Editors : edit[ed] = None
    BY <2>1 DEF TypeInv
  <2>4. updates = 0
    BY <2>1 DEF TypeInv
  <2>5. ASSUME TildeFree(etype.name), AllOrdinary(etype.mapping, c)
        PROVE  DecodeCondition(EncodeDots(AddName(c, etype.name)))
                  = After(etype.mapping, c, 0)
    BY <2>1, <2>5, SchemaFacts, FirstRead
  <2> QED BY <2>2, <2>3, <2>4, <2>5 DEF CondInv
<1>3. ASSUME NEW e \in Editors, ReadForUpdate(e)
      PROVE  CondInv'
  <2>1. trigger # None /\ GetOne.cond = DecodeCondition(trigger.cond)
    BY <1>3, GetOneIs DEF ReadForUpdate, TypeInv
  <2>2. /\ UNCHANGED <<etype, trigger, posted, updates>>
        /\ \A ed \in Editors : edit'[ed] = IF ed = e THEN GetOne ELSE edit[ed]
        /\ \A ed \in Editors :
              editFrom'[ed] = IF ed = e THEN updates ELSE editFrom[ed]
    BY <1>3 DEF ReadForUpdate, TypeInv
  <2> QED BY <2>1, <2>2 DEF CondInv
<1>4. ASSUME NEW e \in Editors, SaveUpdate(e)
      PROVE  CondInv'
  <2> DEFINE m == etype.mapping
             c == posted.cond
             n == editFrom[e]
  <2>1. /\ edit[e] # None /\ trigger # None /\ etype # None
        /\ UNCHANGED <<etype, posted>> /\ updates' = n + 1 /\ n \in Nat
        /\ c \in Leaves
        /\ trigger'.cond = EncodeDots(edit[e].cond)
        /\ \A ed \in Editors : edit'[ed] = IF ed = e THEN None ELSE edit[ed]
        /\ \A ed \in Editors : ed # e => editFrom'[ed] = editFrom[ed]
    BY <1>4, TriggerFacts DEF SaveUpdate, TypeInv
  <2>2. ASSUME TildeFree(etype.name), AllOrdinary(m, c)
        PROVE  DecodeCondition(trigger'.cond) = After(m, c, n + 1)
    <3>1. edit[e].cond = After(m, c, n)
      BY <2>1, <2>2 DEF CondInv
    <3>2. Valid(m) /\ ~ Tildes(m)
      BY <2>1, SchemaFacts
    <3> HIDE DEF m, c, n
    <3>3. /\ After(m, c, n) \in Leaves /\ TildeFree(Last(After(m, c, n).path))
          /\ DropName(After(m, c, n)) = After(m, c, n + 1)
      BY <2>1, <2>2, <3>2, AfterLeaf
    <3>4. DecodeTildes(EncodeDots(After(m, c, n))) = After(m, c, n)
      BY <3>3, EncodeFacts
    <3> QED BY <2>1, <3>1, <3>3, <3>4 DEF DecodeCondition
  <2> QED BY <2>1, <2>2 DEF CondInv
<1>5. ASSUME NEW d \in Datas, PostEvent(d)
      PROVE  CondInv'
  BY <1>5 DEF CondInv, PostEvent
<1>6. CASE UNCHANGED vars
  BY <1>6 DEF CondInv, vars
<1> QED BY <1>1, <1>2, <1>3, <1>4, <1>5, <1>6 DEF Next

\* PostEvent stores only events whose variables are accounted for, and all
\* that conform.
LEMMA EventNext ==
    ASSUME TypeInv, EventInv, [Next]_vars
    PROVE  EventInv'
<1> USE DEF EventInv, ConformingAccepted
<1>0. /\ StoredConforms <=> (Stored => Accounted(etype.mapping, event.data))
      /\ StoredConforms' <=> (Stored => Accounted(etype.mapping, event.data))'
  BY DEF StoredConforms, Accounted
<1> USE <1>0 DEF Stored
<1>1. ASSUME NEW n \in Names, NEW m \in Mappings, PostEventType(n, m)
      PROVE  EventInv'
  <2>1. event = None /\ event' = event
    BY <1>1 DEF PostEventType, TypeInv
  <2> QED BY <2>1
<1>2. ASSUME NEW c \in Conditions, NEW j \in Jobs, PostTrigger(c, j)
      PROVE  EventInv'
  BY <1>2 DEF PostTrigger
<1>3. ASSUME NEW e \in Editors, ReadForUpdate(e)
      PROVE  EventInv'
  BY <1>3 DEF ReadForUpdate
<1>4. ASSUME NEW e \in Editors, SaveUpdate(e)
      PROVE  EventInv'
  BY <1>4 DEF SaveUpdate
<1>5. ASSUME NEW d \in Datas, PostEvent(d)
      PROVE  EventInv'
  <2> DEFINE m == etype.mapping
  <2>1. etype # None /\ etype' = etype /\ IsObject(d, Kinds)
    BY <1>5, EventDataAssumption DEF PostEvent
  <2>2. Valid(m)
    BY <2>1, SchemaFacts
  <2>3. PICK found \in GetVars(d, GeoVars(m)) :
           event' = [data |-> d, stored |-> VerifyEvent(m, found) /\ EsTakes(m, d)]
    BY <1>5 DEF PostEvent
  <2>4. event'.data = d /\ (event'.stored <=> VerifyEvent(m, found) /\ EsTakes(m, d))
    BY <2>3
  <2> HIDE DEF m
  <2>5. event'.stored => Accounted(m, d)
    BY <2>1, <2>2, <2>3, <2>4, StoredMeansAccounted
  <2>6. Conforms(m, d) => event'.stored
    BY <2>1, <2>2, <2>3, <2>4, ConformsMeansStored
  <2> QED BY <2>1, <2>4, <2>5, <2>6 DEF m
<1>6. CASE UNCHANGED vars
  BY <1>6 DEF vars
<1> QED BY <1>1, <1>2, <1>3, <1>4, <1>5, <1>6 DEF Next

\* Every reachable state satisfies the inductive invariant.
THEOREM DataInvHolds == Spec => []DataInv
<1>1. DataInv /\ [Next]_vars => DataInv'
  BY TypeNext, StoreNext, JobNext, CondNext, EventNext DEF DataInv
<1> QED BY <1>1, InitDataInv, PTL DEF Spec

-----------------------------------------------------------------------------
(* The theorems *)

\* The type invariant of the data the service handles: an update of a trigger
\* is of a trigger there is, its counters keep their bounds, and the document
\* in the triggers index never has a dot in the key of a scalar of its
\* condition, whatever PutTrigger reads, decodes and writes back.
THEOREM TypeOKHolds == Spec => []TypeOK
<1>1. DataInv => TypeOK
  <2> SUFFICES ASSUME DataInv PROVE TypeOK
    OBVIOUS
  <2>1. /\ etype = None \/ (etype.name \in Names /\ etype.mapping \in Mappings)
        /\ trigger = None <=> posted = None
        /\ event = None \/ (event.data \in Datas /\ event.stored \in BOOLEAN)
        /\ updates \in 0..MaxUpdates
        /\ \A ed \in Editors : editFrom[ed] < MaxUpdates \/ edit[ed] = None
    BY DEF DataInv, TypeInv
  <2>2. trigger # None =>
           trigger.cond.array \/ ~ Contains(Last(trigger.cond.path), ".")
    BY DEF DataInv, StoreInv, DotFree
  <2> QED BY <2>1, <2>2 DEF TypeOK
<1> QED BY <1>1, DataInvHolds, PTL

\* EventDB.PostData stores an event only if its data has exactly the variables
\* of its type, but for those hidden by a null, [] or array of objects that is
\* counted in their place, one for each: so much comparing the numbers of
\* variables (verifyEventReadyToPost) shows with the strict mapping of
\* ConstructEventMappingSchema behind it, for every mapping and all data.
THEOREM StoredConformsHolds == Spec => []StoredConforms
<1>1. DataInv => StoredConforms
  BY DEF DataInv, EventInv
<1> QED BY <1>1, DataInvHolds, PTL

\* ... and verifyEventReadyToPost refuses no data that has them.
THEOREM ConformingAcceptedHolds == Spec => []ConformingAccepted
<1>1. DataInv => ConformingAccepted
  BY DEF DataInv, EventInv
<1> QED BY <1>1, DataInvHolds, PTL

\* GetTrigger never takes the outermost key of an ordinary condition for the
\* name of the event type.
LEMMA NothingUnwrapped ==
    ASSUME NEW m, Valid(m), ~ Tildes(m), NEW c \in Leaves, AllOrdinary(m, c),
           NEW n \in Nat, NEW name, DotFree(name), name # Head(c.path)
    PROVE  RemoveName(After(m, c, n), name) = After(m, c, n)
<1> DEFINE a == After(m, c, n)
<1>1. /\ a \in Leaves /\ DOMAIN a.path = DOMAIN c.path
      /\ \A i \in DOMAIN c.path : a.path[i] = AfterIn(m, c.path[i], n)
  BY AfterLeaf
<1> HIDE DEF a
<1>2. /\ Head(a.path) = a.path[1] /\ Head(c.path) = c.path[1]
      /\ 1 \in DOMAIN c.path
  BY <1>1, LastOfLeaf
<1>3. c.path[1] \in Keys /\ Ordinary(m, c.path[1])
  BY <1>2, LeafFacts DEF AllOrdinary
<1>4. DotFree(AfterIn(m, c.path[1], n)) => AfterIn(m, c.path[1], n) = c.path[1]
  BY <1>3, AfterFacts
<1>5. Head(a.path) # name
  BY <1>1, <1>2, <1>4
<1> QED BY <1>5 DEF RemoveName, a

\* After any sequence of updates, racing ones included, GetTrigger returns the
\* condition PostTrigger was given, short of the parts of nested variables that
\* decodeCondition took off at each update of the document, and the job as it
\* was posted, for every mapping, condition and number of updates.
THEOREM ReadBackHolds == Spec => []ReadBack
<1>1. DataInv => ReadBack
  <2> SUFFICES ASSUME DataInv, trigger # None PROVE ReadBack
    BY DEF ReadBack
  <2> DEFINE m == etype.mapping
             c == posted.cond
             a == After(m, c, updates)
             k == [c EXCEPT !.path = [i \in DOMAIN @ |-> KeyAfter(@[i], updates)]]
  <2>1. /\ TypeInv /\ etype # None /\ trigger \in Triggers /\ c \in Leaves
        /\ updates \in Nat
    BY TriggerFacts, EventDataAssumption DEF DataInv, TypeInv
  <2>2. /\ Valid(m) /\ ~ Tildes(m) /\ etype.name \in Keys /\ DotFree(etype.name)
    BY <2>1, SchemaFacts
  <2>3. "." \notin Tokens(posted.job) => trigger.job = posted.job
    BY DEF DataInv, JobInv
  <2>4. ASSUME ~ Contains(etype.name, "~"), etype.name # Head(c.path),
               \A i \in DOMAIN c.path : OrdinaryKey(c.path[i])
        PROVE  GetTrigger.cond = k
    <3>1. TildeFree(etype.name) /\ AllOrdinary(m, c)
      BY <2>4 DEF TildeFree, AllOrdinary, OrdinaryKey, Ordinary, IsVarKey, IsVarKeyOf
    <3>2. DecodeCondition(trigger.cond) = a
      BY <3>1 DEF DataInv, CondInv
    <3>3. GetOne \in Triggers /\ GetOne.cond = a
      BY <2>1, <3>2, GetOneIs
    <3>4. GetTrigger.cond = RemoveName(a, etype.name)
      <4> DEFINE g == GetOne
      <4>1. /\ g \in Triggers /\ g.cond = a
            /\ GetTrigger = [g EXCEPT !.cond = RemoveName(@, etype.name)]
        BY <3>3 DEF GetTrigger
      <4> HIDE DEF g, a
      <4> QED BY <4>1 DEF Triggers
    <3>5. RemoveName(a, etype.name) = a
      <4> HIDE DEF m, c
      <4> QED BY <2>1, <2>2, <2>4, <3>1, NothingUnwrapped
    <3>6. a = k
      <4>1. \A i \in DOMAIN c.path :
               AfterIn(m, c.path[i], updates) = KeyAfter(c.path[i], updates)
        BY DEF AfterIn, KeyAfter, IsVarKey, IsVarKeyOf, Suffix, From
      <4>2. [i \in DOMAIN c.path |-> AfterIn(m, c.path[i], updates)]
               = [i \in DOMAIN c.path |-> KeyAfter(c.path[i], updates)]
        BY <4>1
      <4> QED BY <4>2, Zenon DEF After
    <3> QED BY <3>4, <3>5, <3>6
  <2> QED BY <2>3, <2>4 DEF ReadBack
<1> QED BY <1>1, DataInvHolds, PTL

\* A variable the data has is the path of a leaf, or leads to one.
LEMMA VariableInData ==
    ASSUME NEW m, Valid(m), NEW data, NEW p \in DOMAIN m, Has(m, data, p)
    PROVE  \E r \in DOMAIN data : IsPrefix(p, r)
<1>1. p \in Paths /\ AllDotFree(p) /\ p \in Seq(Keys)
  BY PathFacts DEF Valid, IsObject
<1>2. CASE p \in DOMAIN data
  BY <1>1, <1>2, PrefixRefl
<1>3. CASE {r \in DOMAIN data : IsPrefix(p, r)} = {p \o s : s \in GeoObject}
  <2> DEFINE lat == <<<<"lat">>>>
  <2>1. lat \in GeoObject
    BY DEF GeoObject
  <2> HIDE DEF lat
  <2> QED BY <1>3, <2>1
<1> QED BY <1>2, <1>3 DEF Has

\* The document has a field named like the variable in the query.
LEMMA NamedPath ==
    ASSUME NEW name \in Keys, NEW p \in Paths, NEW r \in Paths, IsPrefix(p, r)
    PROVE  \E q \in Prefixes(<<DataKey, name>> \o r) :
              Join(q) = DataKey \o (Dot \o (name \o (Dot \o Join(p))))
<1> DEFINE h == <<DataKey, name>>
           q == h \o p
<1>1. h \in Seq(Keys) /\ p \in Seq(Keys) /\ r \in Seq(Keys) /\ DataKey \in Keys
  BY DataKeyFacts, PathFacts
<1>2. IsPrefix(h \o p, h \o r) /\ h \o r \in Seq(Keys) /\ h \o p \in Seq(Keys)
  <2> HIDE DEF h
  <2> QED BY <1>1, PrefixBehind, ConcatProperties
<1>3. q \in Prefixes(h \o r)
  <2> HIDE DEF h
  <2> QED BY <1>2, PrefixesOf
<1>4. q = <<DataKey>> \o (<<name>> \o p)
  <2> DEFINE k == DataKey
  <2>1. k \in Keys /\ p \in Seq(Keys)
    BY <1>1
  <2> HIDE DEF k
  <2>2. <<k, name>> \o p = <<k>> \o (<<name>> \o p)
    BY <2>1
  <2> QED BY <2>2 DEF k
<1>5. <<name>> \o p \in Paths
  <2>1. <<name>> \o p \in Seq(Keys) /\ <<name>> \o p # <<>>
    BY <1>1
  <2> QED BY <2>1 DEF Paths
<1>6. Join(<<name>> \o p) = name \o (Dot \o Join(p))
  BY JoinCons
<1>7. Join(<<DataKey>> \o (<<name>> \o p)) = DataKey \o (Dot \o Join(<<name>> \o p))
  BY <1>1, <1>5, JoinCons
<1>8. Join(q) = DataKey \o (Dot \o (name \o (Dot \o Join(p))))
  BY <1>4, <1>6, <1>7, Zenon
<1> HIDE DEF q
<1> QED BY <1>3, <1>8 DEF h

\* A variable named by a condition that PostTrigger percolates is a field of
\* every event of the type that PostData stores and that does not hide it
\* (addUniqueParams wraps the data in the name PostTrigger adds to the key), for
\* every mapping and all data.
THEOREM QueryMeetsDataHolds == Spec => []QueryMeetsData
<1>1. DataInv => QueryMeetsData
  <2> SUFFICES ASSUME DataInv, trigger # None, event # None, event.stored,
                      NEW i \in DOMAIN query.path, NEW p \in DOMAIN etype.mapping,
                      posted.cond.path[i] = VarKey(p),
                      ~ Hidden(etype.mapping, event.data, p)
               PROVE  \E d \in Document(event.data) : \E q \in Prefixes(d) :
                         Join(q) = query.path[i]
    BY DEF QueryMeetsData, Stored
  <2> DEFINE c == posted.cond
             name == etype.name
             data == event.data
  <2>1. /\ TypeInv /\ etype # None /\ c \in Leaves
        /\ IsObject(data, Kinds)
    BY TriggerFacts, EventDataAssumption DEF DataInv, TypeInv
  <2>2. Valid(etype.mapping) /\ name \in Keys
    BY <2>1, SchemaFacts
  <2>3. Has(etype.mapping, data, p)
    BY DEF DataInv, EventInv, StoredConforms, Stored
  <2>4. query = AddName(c, name)
    BY DEF DataInv, StoreInv
  <2>5. c.path[i] = VarKey(p)
    OBVIOUS
  <2>6. p \in Paths
    BY <2>2 DEF Valid, IsObject
  <2>7. query.path[i] = AddNameTo(VarKey(p), name)
    <3> HIDE DEF c, name
    <3> QED BY <2>1, <2>2, <2>4, <2>5, AddNameFacts
  <2>8. query.path[i] = DataKey \o (Dot \o (name \o (Dot \o Join(p))))
    <3>1. VarKey(p) = DataDot \o Join(p) /\ Join(p) \in Keys
      BY <2>6, VarKeyFacts, JoinType, PathFacts
    <3> QED BY <2>2, <2>7, <3>1, AddNameData
  <2>9. PICK r \in DOMAIN data : IsPrefix(p, r)
    BY <2>2, <2>3, VariableInData
  <2>10. r \in Paths
    BY <2>1, <2>9 DEF IsObject
  <2>11. PICK q \in Prefixes(<<DataKey, name>> \o r) :
            Join(q) = DataKey \o (Dot \o (name \o (Dot \o Join(p))))
    BY <2>2, <2>6, <2>9, <2>10, NamedPath
  <2>12. <<DataKey, name>> \o r \in Document(data)
    BY <2>9 DEF Document, DataKey
  <2> QED BY <2>8, <2>11, <2>12
<1> QED BY <1>1, DataInvHolds, PTL
=============================================================================
