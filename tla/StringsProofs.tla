----------------------------- MODULE StringsProofs -----------------------------
(***************************************************************************)
(* Theorems about the string functions for strings of any length, with the *)
(* proofs TLAPS checks.                                                    *)
(***************************************************************************)
EXTENDS Strings, SequenceTheorems, WellFoundedInduction, TLAPS

--------------------------------------------------------------------------------
(* Numbers and induction.                                                  *)

\* A set of numbers has a first one.
LEMMA Least ==
  ASSUME NEW I, I \subseteq Nat, I # {}
  PROVE  Min(I) \in I /\ \A i \in I : Min(I) <= i
<1> DEFINE Less == {ss \in Nat \X Nat : ss[1] < ss[2]}
<1>1. IsWellFoundedOn(Less, Nat)
  BY NatLessThanWellFounded DEF OpToRel
<1>2. PICK x \in I : \A y \in I : ~ (<<y, x>> \in Less)
  BY <1>1, WFMin
<1>3. ASSUME NEW y \in I
      PROVE  x <= y
  <2>1. x \in Nat /\ y \in Nat /\ <<y, x>> \notin Less
    BY <1>2
  <2>2. <<y, x>> \in Nat \X Nat /\ <<y, x>>[1] = y /\ <<y, x>>[2] = x
    BY <2>1
  <2>3. ~ (y < x)
    BY <2>1, <2>2
  <2> QED
    BY <2>1, <2>3
<1> QED
  BY <1>3 DEF Min

\* A bounded one has a last one.
LEMMA Greatest ==
  ASSUME NEW n \in Nat, NEW S, S \subseteq 0 .. n, S # {}
  PROVE  Max(S) \in S /\ \A i \in S : i <= Max(S)
<1> DEFINE I == {n - i : i \in S}
<1>1. \A i \in S : n - i \in I /\ n - i \in Nat /\ i \in Nat
  OBVIOUS
<1>2. I \subseteq Nat /\ I # {}
  BY <1>1
<1>3. PICK m : m = Min(I)
  OBVIOUS
<1>4. m \in I /\ \A k \in I : m <= k
  BY <1>2, <1>3, Least
<1>5. PICK x \in S : m = n - x
  BY <1>4
<1> HIDE DEF I
<1>6. \A y \in S : x >= y
  BY <1>1, <1>4, <1>5
<1> QED
  BY <1>6 DEF Max

\* Induction from n down to 1.
LEMMA Downwards ==
  ASSUME NEW n \in Nat, NEW P,
         \A i \in 1 .. n : (\A j \in i + 1 .. n : j \in P) => i \in P
  PROVE  1 .. n \subseteq P
<1> DEFINE S == (1 .. n) \ P
<1> SUFFICES ASSUME S # {} PROVE FALSE
  OBVIOUS
<1>1. PICK x : x = Max(S)
  OBVIOUS
<1>2. x \in S /\ \A i \in S : i <= x
  BY <1>1, Greatest
<1>3. \A j \in x + 1 .. n : j \in 1 .. n /\ ~(j <= x)
  BY <1>2
<1>4. \A j \in x + 1 .. n : j \in P
  BY <1>2, <1>3
<1> QED
  BY <1>2, <1>4

\* Induction from 1 up to n.
LEMMA Upwards ==
  ASSUME NEW n \in Nat, NEW P,
         \A i \in 1 .. n : (\A j \in 1 .. i - 1 : j \in P) => i \in P
  PROVE  1 .. n \subseteq P
<1> DEFINE S == (1 .. n) \ P
<1> SUFFICES ASSUME S # {} PROVE FALSE
  OBVIOUS
<1>1. PICK x : x = Min(S)
  OBVIOUS
<1>2. x \in S /\ \A i \in S : x <= i
  <2>1. S \subseteq Nat
    OBVIOUS
  <2> QED
    BY <1>1, <2>1, Least
<1>3. \A j \in 1 .. x - 1 : j \in 1 .. n /\ ~(x <= j)
  BY <1>2
<1>4. \A j \in 1 .. x - 1 : j \in P
  BY <1>2, <1>3
<1> QED
  BY <1>2, <1>4

\* Induction on the length of a sequence.
LEMMA ByLength ==
  ASSUME NEW T, NEW P,
         \A s \in Seq(T) : (\A t \in Seq(T) : Len(t) < Len(s) => t \in P) => s \in P
  PROVE  Seq(T) \subseteq P
<1> DEFINE I == {Len(s) : s \in Seq(T) \ P}
<1> SUFFICES ASSUME I # {} PROVE FALSE
  <2>1. \A s \in Seq(T) \ P : Len(s) \in I
    OBVIOUS
  <2> QED
    BY <2>1
<1>1. PICK m : m = Min(I)
  OBVIOUS
<1>2. m \in I /\ \A k \in I : m <= k
  <2>1. \A s \in Seq(T) : Len(s) \in Nat
    OBVIOUS
  <2>2. I \subseteq Nat
    BY <2>1
  <2> QED
    BY <1>1, <2>2, Least
<1>3. PICK s \in Seq(T) \ P : m = Len(s)
  BY <1>2
<1>4. ASSUME NEW t \in Seq(T), Len(t) < Len(s)
      PROVE  t \in P
  <2>1. SUFFICES ASSUME t \notin P PROVE FALSE
    OBVIOUS
  <2>2. Len(t) \in I
    BY <2>1
  <2>3. m <= Len(t) /\ Len(t) \in Nat /\ m \in Nat
    BY <1>2, <1>3, <2>2
  <2> QED
    BY <1>3, <1>4, <2>3
<1> QED
  BY <1>3, <1>4

--------------------------------------------------------------------------------
(* Sequences.                                                              *)

\* s is u followed by t, and u followed by the element e.
Joins(s, u, t) ==
  /\ Len(s) = Len(u) + Len(t)
  /\ \A j \in 1 .. Len(u) : s[j] = u[j]
  /\ \A j \in 1 .. Len(t) : s[Len(u) + j] = t[j]
Adds(s, u, e) ==
  /\ Len(s) = Len(u) + 1
  /\ \A j \in 1 .. Len(u) : s[j] = u[j]
  /\ s[Len(u) + 1] = e

LEMMA Concat ==
  ASSUME NEW T, NEW u \in Seq(T), NEW t \in Seq(T)
  PROVE  u \o t \in Seq(T) /\ Joins(u \o t, u, t)
<1>1. PICK s : s = u \o t
  OBVIOUS
<1>2. s \in Seq(T) /\ Len(s) = Len(u) + Len(t)
  BY <1>1, ConcatProperties
<1>3. \A j \in 1 .. Len(s) : s[j] = IF j <= Len(u) THEN u[j] ELSE t[j - Len(u)]
  BY <1>1, <1>2, ConcatProperties
<1>4. ASSUME NEW j \in 1 .. Len(u)
      PROVE  s[j] = u[j]
  BY <1>2, <1>3
<1>5. ASSUME NEW j \in 1 .. Len(t)
      PROVE  s[Len(u) + j] = t[j]
  <2>1. /\ Len(u) + j \in 1 .. Len(s) /\ ~(Len(u) + j <= Len(u))
        /\ (Len(u) + j) - Len(u) = j
    BY <1>2
  <2>2. s[Len(u) + j] = t[(Len(u) + j) - Len(u)]
    BY <1>3, <2>1
  <2> QED
    BY <2>1, <2>2
<1> QED
  BY <1>1, <1>2, <1>4, <1>5 DEF Joins

LEMMA Added ==
  ASSUME NEW T, NEW u \in Seq(T), NEW e \in T
  PROVE  u \o <<e>> \in Seq(T) /\ Adds(u \o <<e>>, u, e)
<1>1. PICK t : t = <<e>>
  OBVIOUS
<1>2. t \in Seq(T) /\ Len(t) = 1 /\ t[1] = e
  BY <1>1
<1>3. PICK s : s = u \o t
  OBVIOUS
<1>4. s \in Seq(T) /\ Joins(s, u, t)
  BY <1>2, <1>3, Concat
<1>5. 1 \in 1 .. Len(t)
  BY <1>2
<1>6. Adds(s, u, e)
  BY <1>2, <1>4, <1>5 DEF Joins, Adds
<1> QED
  BY <1>1, <1>3, <1>4, <1>6

\* A part of a sequence.
IsPart(p, s, a, b) ==
  Len(p) = b - a + 1 /\ \A j \in 1 .. b - a + 1 : p[j] = s[a + j - 1]

LEMMA Part ==
  ASSUME NEW T, NEW s \in Seq(T), NEW a \in 1 .. Len(s) + 1, NEW b \in a - 1 .. Len(s)
  PROVE  SubSeq(s, a, b) \in Seq(T) /\ IsPart(SubSeq(s, a, b), s, a, b)
<1>1. PICK p : p = SubSeq(s, a, b)
  OBVIOUS
<1>2. \A j \in a .. b : s[j] \in T
  OBVIOUS
<1>3. /\ p \in Seq(T) /\ Len(p) = IF a <= b THEN b - a + 1 ELSE 0
      /\ \A j \in 1 .. b - a + 1 : p[j] = s[a + j - 1]
  BY <1>1, <1>2, SubSeqProperties
<1>4. IsPart(p, s, a, b)
  BY <1>3 DEF IsPart
<1> QED
  BY <1>1, <1>3, <1>4

\* A sequence is known by what it joins.
LEMMA JoinIs ==
  ASSUME NEW T, NEW s \in Seq(T), NEW u \in Seq(T), NEW t \in Seq(T), Joins(s, u, t)
  PROVE  s = u \o t
<1>1. PICK w \in Seq(T) : w = u \o t /\ Joins(w, u, t)
  BY Concat
<1>2. Len(w) = Len(s)
  BY <1>1 DEF Joins
<1>3. ASSUME NEW j \in 1 .. Len(s)
      PROVE  s[j] = w[j]
  <2>1. CASE j <= Len(u)
    <3>1. j \in 1 .. Len(u)
      BY <2>1
    <3>2. s[j] = u[j]
      BY <3>1 DEF Joins
    <3>3. w[j] = u[j]
      BY <1>1, <3>1 DEF Joins
    <3> QED
      BY <3>2, <3>3
  <2>2. CASE j > Len(u)
    <3>1. Len(s) = Len(u) + Len(t)
      BY DEF Joins
    <3>2. PICK k \in 1 .. Len(t) : Len(u) + k = j
      <4>1. j - Len(u) \in 1 .. Len(t) /\ Len(u) + (j - Len(u)) = j
        BY <2>2, <3>1
      <4> QED
        BY <4>1
    <3>3. s[j] = t[k]
      BY <3>2 DEF Joins
    <3>4. w[j] = t[k]
      BY <1>1, <3>2 DEF Joins
    <3> QED
      BY <3>3, <3>4
  <2> QED
    BY <2>1, <2>2
<1>4. s = w
  BY <1>2, <1>3, SeqEqual
<1> QED
  BY <1>1, <1>4

LEMMA AddIs ==
  ASSUME NEW T, NEW s \in Seq(T), NEW u \in Seq(T), NEW e \in T, Adds(s, u, e)
  PROVE  s = u \o <<e>>
<1>1. PICK w \in Seq(T) : w = u \o <<e>> /\ Adds(w, u, e)
  BY Added
<1>2. Len(w) = Len(s) /\ Len(s) = Len(u) + 1
  BY <1>1 DEF Adds
<1>3. ASSUME NEW j \in 1 .. Len(s)
      PROVE  s[j] = w[j]
  <2>1. CASE j <= Len(u)
    BY <1>1, <2>1 DEF Adds
  <2>2. CASE j > Len(u)
    <3>1. j = Len(u) + 1
      BY <1>2, <2>2
    <3> QED
      BY <1>1, <3>1 DEF Adds
  <2> QED
    BY <2>1, <2>2
<1>4. s = w
  BY <1>2, <1>3, SeqEqual
<1> QED
  BY <1>1, <1>4

\* A sequence that is not empty has a last element.
LEMMA Ends ==
  ASSUME NEW T, NEW s \in Seq(T), s # <<>>
  PROVE  \E u \in Seq(T), x \in T : s = u \o <<x>> /\ Adds(s, u, x) /\ Len(u) < Len(s)
<1>1. PICK n \in Nat : n + 1 = Len(s)
  <2>1. Len(s) \in Nat /\ Len(s) # 0
    OBVIOUS
  <2>2. Len(s) - 1 \in Nat /\ (Len(s) - 1) + 1 = Len(s)
    BY <2>1
  <2> QED
    BY <2>2, Zenon
<1>2. PICK u \in Seq(T) : Len(u) = n /\ \A j \in 1 .. n : u[j] = s[j]
  <2>1. 1 \in 1 .. Len(s) + 1 /\ n \in 1 - 1 .. Len(s)
    BY <1>1
  <2>2. PICK u \in Seq(T) : IsPart(u, s, 1, n)
    BY <2>1, Part
  <2>3. n - 1 + 1 = n /\ \A j \in 1 .. n : 1 + j - 1 = j
    OBVIOUS
  <2> QED
    BY <2>2, <2>3 DEF IsPart
<1>3. PICK x \in T : x = s[n + 1]
  BY <1>1
<1>4. Adds(s, u, x)
  BY <1>1, <1>2, <1>3 DEF Adds
<1>5. s = u \o <<x>>
  BY <1>4, AddIs
<1>6. Len(u) < Len(s)
  BY <1>1, <1>2
<1> QED
  BY <1>4, <1>5, <1>6, Zenon

--------------------------------------------------------------------------------
(* FlattenSeq.                                                             *)

FlatStep(v, f, i) == IF i = 1 THEN v[i] ELSE f[i - 1] \o v[i]

Flat(v) == CHOOSE f : f = [i \in 1 .. Len(v) |-> FlatStep(v, f, i)]

LEMMA FlattenIsFlat ==
  ASSUME NEW T, NEW v \in Seq(Seq(T)), v # <<>>
  PROVE  FlattenSeq(v) = Flat(v)[Len(v)]
<1>1. Len(v) # 0
  OBVIOUS
<1>2. Flat(v) = CHOOSE f : f = [i \in 1 .. Len(v) |-> IF i = 1 THEN v[i] ELSE f[i - 1] \o v[i]]
  BY DEF Flat, FlatStep
<1> QED
  BY <1>1, <1>2 DEF FlattenSeq

LEMMA FlatStepType ==
  ASSUME NEW T, NEW v \in Seq(Seq(T)), NEW f \in [1 .. Len(v) -> Seq(T)], NEW i \in 1 .. Len(v)
  PROVE  FlatStep(v, f, i) \in Seq(T)
<1>1. v[i] \in Seq(T)
  OBVIOUS
<1>2. CASE i = 1
  BY <1>1, <1>2 DEF FlatStep
<1>3. CASE i # 1
  <2>1. i - 1 \in 1 .. Len(v)
    BY <1>3
  <2>2. f[i - 1] \in Seq(T)
    BY <2>1
  <2>3. f[i - 1] \o v[i] \in Seq(T)
    BY <1>1, <2>2, ConcatProperties
  <2> QED
    BY <1>3, <2>3 DEF FlatStep
<1> QED
  BY <1>2, <1>3

\* The recursive function of FlattenSeq exists.
LEMMA FlatExists ==
  ASSUME NEW T, NEW v \in Seq(Seq(T))
  PROVE  /\ Flat(v) \in [1 .. Len(v) -> Seq(T)]
         /\ \A i \in 1 .. Len(v) : Flat(v)[i] = FlatStep(v, Flat(v), i)
<1>n. PICK n \in Nat : n = Len(v)
  OBVIOUS
<1> DEFINE Left(f, i) == \A j \in 1 .. i : f[j] = FlatStep(v, f, j)
           P == {i \in 1 .. n : \E f \in [1 .. n -> Seq(T)] : Left(f, i)}
<1>1. ASSUME NEW i \in 1 .. n, \A j \in 1 .. i - 1 : j \in P
      PROVE  i \in P
  <2>1. PICK f \in [1 .. n -> Seq(T)] : Left(f, i - 1)
    <3>1. CASE i = 1
      <4>1. PICK f : f = [j \in 1 .. n |-> <<>>]
        OBVIOUS
      <4>2. f \in [1 .. n -> Seq(T)] /\ Left(f, i - 1)
        BY <3>1, <4>1
      <4> QED
        BY <4>2
    <3>2. CASE i # 1
      <4>1. i - 1 \in 1 .. i - 1
        BY <3>2
      <4> QED
        BY <1>1, <4>1
    <3> QED
      BY <3>1, <3>2
  <2>2. PICK y : y = FlatStep(v, f, i)
    OBVIOUS
  <2>3. y \in Seq(T)
    BY <1>n, <2>2, FlatStepType
  <2>4. PICK g : g = [f EXCEPT ![i] = y]
    OBVIOUS
  <2>5. g \in [1 .. n -> Seq(T)] /\ g[i] = y /\ \A j \in 1 .. i - 1 : g[j] = f[j]
    BY <2>3, <2>4
  <2>6. ASSUME NEW j \in 1 .. i
        PROVE  g[j] = FlatStep(v, g, j)
    <3>1. j # 1 => j - 1 \in 1 .. i - 1
      OBVIOUS
    <3>2. FlatStep(v, f, j) = FlatStep(v, g, j)
      BY <2>5, <3>1 DEF FlatStep
    <3>3. j = i \/ j \in 1 .. i - 1
      OBVIOUS
    <3>4. g[j] = FlatStep(v, f, j)
      BY <2>1, <2>2, <2>5, <3>3
    <3> QED
      BY <3>2, <3>4
  <2> QED
    BY <2>5, <2>6
<1>2. 1 .. n \subseteq P
  <2> HIDE DEF P
  <2> QED
    BY <1>1, Upwards
<1>3. PICK f \in [1 .. n -> Seq(T)] : Left(f, n)
  <2>1. CASE n = 0
    <3>1. PICK f : f = [j \in 1 .. n |-> <<>>]
      OBVIOUS
    <3>2. f \in [1 .. n -> Seq(T)] /\ Left(f, n)
      BY <2>1, <3>1
    <3> QED
      BY <3>2
  <2>2. CASE n # 0
    <3>1. n \in P
      <4>1. n \in 1 .. n
        BY <2>2
      <4> HIDE DEF P
      <4> QED
        BY <1>2, <4>1
    <3> QED
      BY <3>1
  <2> QED
    BY <2>1, <2>2
<1>4. f = [i \in 1 .. n |-> FlatStep(v, f, i)]
  BY <1>3
<1>5. Flat(v) = [i \in 1 .. n |-> FlatStep(v, Flat(v), i)]
  BY <1>n, <1>4 DEF Flat
<1>6. PICK h : h = Flat(v)
  OBVIOUS
<1>7. /\ DOMAIN h = 1 .. n
      /\ \A i \in 1 .. n : h[i] = FlatStep(v, h, i)
  BY <1>5, <1>6
<1> DEFINE Q == {i \in 1 .. n : h[i] = f[i]}
<1>8. ASSUME NEW i \in 1 .. n, \A j \in 1 .. i - 1 : j \in Q
      PROVE  i \in Q
  <2>1. i # 1 => h[i - 1] = f[i - 1]
    BY <1>8
  <2>2. FlatStep(v, h, i) = FlatStep(v, f, i)
    BY <2>1 DEF FlatStep
  <2> QED
    BY <1>3, <1>7, <2>2
<1>9. 1 .. n \subseteq Q
  <2> HIDE DEF Q
  <2> QED
    BY <1>8, Upwards
<1>10. \A i \in 1 .. n : h[i] = f[i]
  BY <1>9
<1>11. h = [i \in 1 .. n |-> h[i]]
  BY <1>5, <1>6
<1>12. h \in [1 .. n -> Seq(T)]
  BY <1>10, <1>11
<1> QED
  BY <1>n, <1>6, <1>7, <1>12

LEMMA FlattenType ==
  ASSUME NEW T, NEW v \in Seq(Seq(T))
  PROVE  FlattenSeq(v) \in Seq(T)
<1>1. CASE v = <<>>
  BY <1>1 DEF FlattenSeq
<1>2. CASE v # <<>>
  <2>1. Len(v) \in 1 .. Len(v)
    BY <1>2
  <2>2. Flat(v) \in [1 .. Len(v) -> Seq(T)]
    BY FlatExists
  <2>3. Flat(v)[Len(v)] \in Seq(T)
    BY <2>1, <2>2
  <2> QED
    BY <1>2, <2>3, FlattenIsFlat
<1> QED
  BY <1>1, <1>2

LEMMA FlattenEmpty == FlattenSeq(<<>>) = <<>>
  BY DEF FlattenSeq

\* One more sequence comes at the end.
LEMMA FlattenAdd ==
  ASSUME NEW T, NEW v \in Seq(Seq(T)), NEW x \in Seq(T)
  PROVE  FlattenSeq(v \o <<x>>) = FlattenSeq(v) \o x
<1>1. PICK w \in Seq(Seq(T)) : w = v \o <<x>> /\ Adds(w, v, x)
  BY Added
<1>n. PICK n \in Nat : n = Len(v)
  OBVIOUS
<1>2. Len(w) = n + 1 /\ w[n + 1] = x /\ \A j \in 1 .. n : w[j] = v[j]
  BY <1>1, <1>n DEF Adds
<1> DEFINE P == {i \in 1 .. n : Flat(w)[i] = Flat(v)[i]}
<1>3. ASSUME NEW i \in 1 .. n, \A j \in 1 .. i - 1 : j \in P
      PROVE  i \in P
  <2>1. i # 1 => Flat(w)[i - 1] = Flat(v)[i - 1]
    BY <1>3
  <2>2. FlatStep(w, Flat(w), i) = FlatStep(v, Flat(v), i)
    BY <1>2, <2>1 DEF FlatStep
  <2>3. Flat(w)[i] = FlatStep(w, Flat(w), i) /\ Flat(v)[i] = FlatStep(v, Flat(v), i)
    <3>1. i \in 1 .. Len(w) /\ i \in 1 .. Len(v)
      BY <1>2, <1>n
    <3> QED
      BY <3>1, FlatExists
  <2> QED
    BY <2>2, <2>3
<1>4. 1 .. n \subseteq P
  <2> HIDE DEF P
  <2> QED
    BY <1>3, Upwards
<1>5. Flat(w)[n + 1] = FlatStep(w, Flat(w), n + 1)
  <2>1. n + 1 \in 1 .. Len(w)
    BY <1>2
  <2> QED
    BY <2>1, FlatExists
<1>6. FlattenSeq(w) = Flat(w)[n + 1]
  <2>1. w # <<>>
    BY <1>2
  <2> QED
    BY <1>2, <2>1, FlattenIsFlat
<1>7. CASE n = 0
  <2>1. v = <<>>
    BY <1>n, <1>7, EmptySeq
  <2>2. FlattenSeq(w) = x
    BY <1>2, <1>5, <1>6, <1>7 DEF FlatStep
  <2>3. <<>> \o x = x
    BY ConcatEmptySeq
  <2> QED
    BY <1>1, <2>1, <2>2, <2>3, FlattenEmpty
<1>8. CASE n # 0
  <2>1. n + 1 # 1 /\ (n + 1) - 1 = n /\ n \in 1 .. n
    BY <1>8
  <2>2. Flat(w)[n] = Flat(v)[n]
    <3>1. n \in P
      <4> HIDE DEF P
      <4> QED
        BY <1>4, <2>1
    <3> QED
      BY <3>1
  <2>3. FlattenSeq(w) = Flat(v)[n] \o x
    BY <1>2, <1>5, <1>6, <2>1, <2>2 DEF FlatStep
  <2>4. v # <<>>
    BY <1>n, <1>8
  <2> QED
    BY <1>1, <1>n, <2>3, <2>4, FlattenIsFlat
<1> QED
  BY <1>7, <1>8

Regroups(a, b, c) == (a \o b) \o c = a \o (b \o c)

LEMMA Regrouped ==
  ASSUME NEW T, NEW a \in Seq(T), NEW b \in Seq(T), NEW c \in Seq(T)
  PROVE  Regroups(a, b, c)
<1>1. (a \o b) \o c = a \o (b \o c)
  BY ConcatAssociative
<1> QED
  BY <1>1 DEF Regroups

LEMMA FlattenConcat ==
  ASSUME NEW T, NEW v \in Seq(Seq(T)), NEW w \in Seq(Seq(T))
  PROVE  FlattenSeq(v \o w) = FlattenSeq(v) \o FlattenSeq(w)
<1> DEFINE P == {u \in Seq(Seq(T)) : FlattenSeq(v \o u) = FlattenSeq(v) \o FlattenSeq(u)}
<1>1. ASSUME NEW u \in Seq(Seq(T)), \A t \in Seq(Seq(T)) : Len(t) < Len(u) => t \in P
      PROVE  u \in P
  <2>1. CASE u = <<>>
    <3>1. v \o <<>> = v /\ FlattenSeq(v) \o <<>> = FlattenSeq(v)
      BY FlattenType, ConcatEmptySeq
    <3> QED
      BY <2>1, <3>1, FlattenEmpty
  <2>2. CASE u # <<>>
    <3>1. PICK t \in Seq(Seq(T)), x \in Seq(T) : u = t \o <<x>> /\ Len(t) < Len(u)
      BY <2>2, Ends
    <3>2. FlattenSeq(v \o t) = FlattenSeq(v) \o FlattenSeq(t)
      BY <1>1, <3>1
    <3>3. <<x>> \in Seq(Seq(T))
      OBVIOUS
    <3>4. v \o u = (v \o t) \o <<x>>
      <4>1. Regroups(v, t, <<x>>)
        BY <3>3, Regrouped
      <4> QED
        BY <3>1, <4>1 DEF Regroups
    <3>5. v \o t \in Seq(Seq(T))
      BY ConcatProperties
    <3>6. FlattenSeq(v \o u) = FlattenSeq(v \o t) \o x
      BY <3>4, <3>5, FlattenAdd
    <3>7. FlattenSeq(u) = FlattenSeq(t) \o x
      BY <3>1, FlattenAdd
    <3>8. (FlattenSeq(v) \o FlattenSeq(t)) \o x = FlattenSeq(v) \o (FlattenSeq(t) \o x)
      <4>1. PICK a \in Seq(T) : a = FlattenSeq(v)
        BY FlattenType
      <4>2. PICK b \in Seq(T) : b = FlattenSeq(t)
        BY FlattenType
      <4>3. Regroups(a, b, x)
        BY Regrouped
      <4> QED
        BY <4>1, <4>2, <4>3 DEF Regroups
    <3> QED
      BY <3>2, <3>6, <3>7, <3>8
  <2> QED
    BY <2>1, <2>2
<1>2. Seq(Seq(T)) \subseteq P
  <2> HIDE DEF P
  <2> QED
    BY <1>1, ByLength
<1> QED
  BY <1>2

--------------------------------------------------------------------------------
(* find and explode.                                                       *)

\* find stops at the first one.
LEMMA FindStops ==
  ASSUME NEW T, NEW s \in Seq(T), NEW c, NEW i \in 1 .. Len(s) + 1
  PROVE  /\ Find(s, c, i) \in i .. Len(s) + 1
         /\ Find(s, c, i) <= Len(s) => s[Find(s, c, i)] = c
         /\ \A j \in i .. Find(s, c, i) - 1 : s[j] # c
<1> DEFINE I == {j \in i .. Len(s) : s[j] = c} \cup {Len(s) + 1}
<1>1. PICK m : m = Min(I)
  OBVIOUS
<1>2. I \subseteq Nat /\ I # {} /\ Find(s, c, i) = Min(I)
  BY DEF Find
<1>3. m \in I /\ \A k \in I : m <= k
  BY <1>1, <1>2, Least
<1>4. m \in i .. Len(s) + 1 /\ (m <= Len(s) => s[m] = c)
  BY <1>3
<1>5. ASSUME NEW j \in i .. m - 1
      PROVE  s[j] # c
  <2>1. j \in i .. Len(s) /\ ~(m <= j)
    BY <1>4
  <2> QED
    BY <1>3, <2>1
<1> QED
  BY <1>1, <1>2, <1>4, <1>5

\* So it is known by what it stops at.
LEMMA FindIs ==
  ASSUME NEW T, NEW s \in Seq(T), NEW c, NEW i \in 1 .. Len(s) + 1,
         NEW k \in i .. Len(s) + 1, k <= Len(s) => s[k] = c, \A j \in i .. k - 1 : s[j] # c
  PROVE  Find(s, c, i) = k
<1>1. PICK m : m = Find(s, c, i)
  OBVIOUS
<1>2. /\ m \in i .. Len(s) + 1
      /\ m <= Len(s) => s[m] = c
      /\ \A j \in i .. m - 1 : s[j] # c
  BY <1>1, FindStops
<1>3. ~(m < k)
  BY <1>2
<1>4. ~(k < m)
  BY <1>2
<1> QED
  BY <1>1, <1>2, <1>3, <1>4

\* A piece, unless it is empty.
Piece(p) == IF p = <<>> THEN <<>> ELSE <<p>>

\* The pieces from i on, with f for later positions.
PieceStep(s, e, f, i) ==
  (IF Find(s, e, i) = i THEN <<>> ELSE <<SubSeq(s, i, Find(s, e, i) - 1)>>)
     \o (IF Find(s, e, i) > Len(s) THEN <<>> ELSE f[Find(s, e, i) + 1])

Pieces(s, e) == CHOOSE f : f = [i \in 1 .. Len(s) + 1 |-> PieceStep(s, e, f, i)]

LEMMA ExplodeIsPieces ==
  ASSUME NEW s, NEW e
  PROVE  Explode(s, e) = Pieces(s, e)[1]
  BY DEF Explode, Pieces, PieceStep

\* What explode returns: strings that are not empty.
NonEmpty(T) == Seq(Seq(T) \ {<<>>})

LEMMA PieceStepType ==
  ASSUME NEW T, NEW s \in Seq(T), NEW e, NEW f \in [1 .. Len(s) + 1 -> NonEmpty(T)],
         NEW i \in 1 .. Len(s) + 1
  PROVE  PieceStep(s, e, f, i) \in NonEmpty(T)
<1>1. PICK m : m = Find(s, e, i)
  OBVIOUS
<1>2. m \in i .. Len(s) + 1
  BY <1>1, FindStops
<1>3. <<>> \in NonEmpty(T)
  BY DEF NonEmpty
<1>4. PICK a : a = IF m = i THEN <<>> ELSE <<SubSeq(s, i, m - 1)>>
  OBVIOUS
<1>5. a \in NonEmpty(T)
  <2>1. CASE m = i
    BY <1>3, <1>4, <2>1
  <2>2. CASE m # i
    <3>1. PICK p : p = SubSeq(s, i, m - 1)
      OBVIOUS
    <3>2. p \in Seq(T) /\ Len(p) = m - i
      BY <1>2, <2>2, <3>1, SubSeqProperties
    <3>3. p # <<>>
      BY <1>2, <2>2, <3>2
    <3>4. \A q \in Seq(T) \ {<<>>} : <<q>> \in Seq(Seq(T) \ {<<>>})
      OBVIOUS
    <3> QED
      BY <1>4, <2>2, <3>1, <3>2, <3>3, <3>4 DEF NonEmpty
  <2> QED
    BY <2>1, <2>2
<1>6. PICK b : b = IF m > Len(s) THEN <<>> ELSE f[m + 1]
  OBVIOUS
<1>7. b \in NonEmpty(T)
  BY <1>2, <1>3, <1>6
<1>8. \A u, v \in Seq(Seq(T) \ {<<>>}) : u \o v \in Seq(Seq(T) \ {<<>>})
  OBVIOUS
<1>9. a \o b \in NonEmpty(T)
  BY <1>5, <1>7, <1>8 DEF NonEmpty
<1> QED
  BY <1>1, <1>4, <1>6, <1>9 DEF PieceStep

\* Only later positions matter.
LEMMA PieceStepLooksAhead ==
  ASSUME NEW T, NEW s \in Seq(T), NEW e, NEW f, NEW g, NEW i \in 1 .. Len(s) + 1,
         \A j \in i + 1 .. Len(s) + 1 : f[j] = g[j]
  PROVE  PieceStep(s, e, f, i) = PieceStep(s, e, g, i)
<1>1. PICK m : m = Find(s, e, i)
  OBVIOUS
<1>2. m \in i .. Len(s) + 1
  BY <1>1, FindStops
<1>3. m <= Len(s) => m + 1 \in i + 1 .. Len(s) + 1
  BY <1>2
<1>4. m <= Len(s) => f[m + 1] = g[m + 1]
  BY <1>3
<1>5. ~(m > Len(s)) => m <= Len(s)
  BY <1>2
<1>6. PICK a : a = IF m = i THEN <<>> ELSE <<SubSeq(s, i, m - 1)>>
  OBVIOUS
<1>7. PICK b : b = IF m > Len(s) THEN <<>> ELSE f[m + 1]
  OBVIOUS
<1>8. b = IF m > Len(s) THEN <<>> ELSE g[m + 1]
  BY <1>4, <1>5, <1>7
<1>9. PieceStep(s, e, f, i) = a \o b
  BY <1>1, <1>6, <1>7 DEF PieceStep
<1>10. PieceStep(s, e, g, i) = a \o b
  BY <1>1, <1>6, <1>8 DEF PieceStep
<1> QED
  BY <1>9, <1>10

\* The recursive function of explode exists.
LEMMA PiecesExist ==
  ASSUME NEW T, NEW s \in Seq(T), NEW e
  PROVE  /\ Pieces(s, e) \in [1 .. Len(s) + 1 -> NonEmpty(T)]
         /\ \A i \in 1 .. Len(s) + 1 : Pieces(s, e)[i] = PieceStep(s, e, Pieces(s, e), i)
<1>n. PICK n \in Nat : n = Len(s) + 1
  OBVIOUS
<1> DEFINE Right(f, i) == \A j \in i .. n : f[j] = PieceStep(s, e, f, j)
           P == {i \in 1 .. n : \E f \in [1 .. n -> NonEmpty(T)] : Right(f, i)}
<1>1. ASSUME NEW i \in 1 .. n, \A j \in i + 1 .. n : j \in P
      PROVE  i \in P
  <2>1. PICK f \in [1 .. n -> NonEmpty(T)] : Right(f, i + 1)
    <3>1. CASE i = n
      <4>1. <<>> \in NonEmpty(T)
        BY DEF NonEmpty
      <4>2. PICK f : f = [j \in 1 .. n |-> <<>>]
        OBVIOUS
      <4>3. f \in [1 .. n -> NonEmpty(T)] /\ Right(f, i + 1)
        BY <3>1, <4>1, <4>2
      <4> QED
        BY <4>3
    <3>2. CASE i # n
      <4>1. i + 1 \in i + 1 .. n
        BY <3>2
      <4> QED
        BY <1>1, <4>1
    <3> QED
      BY <3>1, <3>2
  <2>2. PICK v : v = PieceStep(s, e, f, i)
    OBVIOUS
  <2>3. v \in NonEmpty(T)
    BY <1>n, <2>2, PieceStepType
  <2>4. PICK g : g = [f EXCEPT ![i] = v]
    OBVIOUS
  <2>5. g \in [1 .. n -> NonEmpty(T)] /\ g[i] = v /\ \A j \in i + 1 .. n : g[j] = f[j]
    BY <2>3, <2>4
  <2>6. ASSUME NEW j \in i .. n
        PROVE  g[j] = PieceStep(s, e, g, j)
    <3>1. \A k \in j + 1 .. n : f[k] = g[k]
      BY <2>5
    <3>2. PieceStep(s, e, f, j) = PieceStep(s, e, g, j)
      BY <1>n, <3>1, PieceStepLooksAhead
    <3>3. j = i \/ j \in i + 1 .. n
      OBVIOUS
    <3>4. g[j] = PieceStep(s, e, f, j)
      BY <2>1, <2>2, <2>5, <3>3
    <3> QED
      BY <3>2, <3>4
  <2> QED
    BY <2>5, <2>6
<1>2. 1 .. n \subseteq P
  <2> HIDE DEF P
  <2> QED
    BY <1>1, Downwards
<1>3. PICK f \in [1 .. n -> NonEmpty(T)] : Right(f, 1)
  <2>1. 1 \in P
    <3>1. 1 \in 1 .. n
      BY <1>n
    <3> HIDE DEF P
    <3> QED
      BY <1>2, <3>1
  <2> QED
    BY <2>1
<1>4. f = [i \in 1 .. n |-> PieceStep(s, e, f, i)]
  BY <1>3
<1>5. Pieces(s, e) = [i \in 1 .. n |-> PieceStep(s, e, Pieces(s, e), i)]
  BY <1>n, <1>4 DEF Pieces
<1>6. PICK h : h = Pieces(s, e)
  OBVIOUS
<1>7. /\ DOMAIN h = 1 .. n
      /\ \A i \in 1 .. n : h[i] = PieceStep(s, e, h, i)
  BY <1>5, <1>6
<1> DEFINE Q == {i \in 1 .. n : h[i] = f[i]}
<1>8. ASSUME NEW i \in 1 .. n, \A j \in i + 1 .. n : j \in Q
      PROVE  i \in Q
  <2>1. \A j \in i + 1 .. n : h[j] = f[j]
    BY <1>8
  <2>2. PieceStep(s, e, h, i) = PieceStep(s, e, f, i)
    BY <1>n, <2>1, PieceStepLooksAhead
  <2> QED
    BY <1>3, <1>7, <2>2
<1>9. 1 .. n \subseteq Q
  <2> HIDE DEF Q
  <2> QED
    BY <1>8, Downwards
<1>10. \A i \in 1 .. n : h[i] = f[i]
  BY <1>9
<1>11. h = [i \in 1 .. n |-> h[i]]
  BY <1>5, <1>6
<1>12. h \in [1 .. n -> NonEmpty(T)]
  BY <1>10, <1>11
<1> QED
  BY <1>n, <1>6, <1>7, <1>12

\* What is found behind u in u \o t is what is found in t.
LEMMA Shift ==
  ASSUME NEW T, NEW u \in Seq(T), NEW t \in Seq(T), NEW e
  PROVE  \A i \in 1 .. Len(t) + 1 : Pieces(u \o t, e)[Len(u) + i] = Pieces(t, e)[i]
<1>s. PICK s \in Seq(T) : s = u \o t /\ Joins(s, u, t)
  BY Concat
<1>d. PICK d \in Nat : d = Len(u)
  OBVIOUS
<1>n. PICK n \in Nat : n = Len(t)
  OBVIOUS
<1>1. Len(s) = d + n /\ \A j \in 1 .. n : s[d + j] = t[j]
  BY <1>s, <1>d, <1>n DEF Joins
<1> DEFINE P == {i \in 1 .. n + 1 : Pieces(s, e)[d + i] = Pieces(t, e)[i]}
<1>2. ASSUME NEW i \in 1 .. n + 1, \A j \in i + 1 .. n + 1 : j \in P
      PROVE  i \in P
  <2>1. PICK m : m = Find(t, e, i)
    OBVIOUS
  <2>2. /\ m \in i .. n + 1
        /\ m <= n => t[m] = e
        /\ \A j \in i .. m - 1 : t[j] # e
    BY <1>n, <2>1, FindStops
  <2>i. i \in Nat /\ m \in Nat
    BY <2>2
  <2>x. PICK x \in Nat : x = d + i
    BY <2>i
  <2>y. PICK y \in Nat : y = d + m
    BY <2>i
  <2>3. x \in 1 .. Len(s) + 1 /\ y \in x .. Len(s) + 1
    BY <1>1, <2>2, <2>x, <2>y
  <2>4. y <= Len(s) => s[y] = e
    <3>1. y <= Len(s) => m \in 1 .. n
      BY <1>1, <2>2, <2>y
    <3> QED
      BY <1>1, <2>2, <2>y, <3>1
  <2>5. ASSUME NEW j \in x .. y - 1
        PROVE  s[j] # e
    <3>1. j - d \in i .. m - 1 /\ j - d \in 1 .. n /\ d + (j - d) = j
      BY <2>2, <2>x, <2>y
    <3> QED
      BY <1>1, <2>2, <3>1
  <2>6. Find(s, e, x) = y
    BY <2>3, <2>4, <2>5, FindIs
  <2>7. PICK a : a = IF m = i THEN <<>> ELSE <<SubSeq(t, i, m - 1)>>
    OBVIOUS
  <2>8. PICK b : b = IF m > n THEN <<>> ELSE Pieces(t, e)[m + 1]
    OBVIOUS
  <2>9. Pieces(t, e)[i] = a \o b
    <3>1. Pieces(t, e)[i] = PieceStep(t, e, Pieces(t, e), i)
      BY <1>n, PiecesExist
    <3> QED
      BY <1>n, <2>1, <2>7, <2>8, <3>1 DEF PieceStep
  <2>10. SubSeq(s, x, y - 1) = SubSeq(t, i, m - 1)
    <3>1. PICK p : p = SubSeq(s, x, y - 1)
      OBVIOUS
    <3>2. p \in Seq(T) /\ Len(p) = m - i /\ \A k \in 1 .. m - i : p[k] = s[x + k - 1]
      <4>1. y - 1 \in x - 1 .. Len(s)
        BY <2>3
      <4>2. (y - 1) - x + 1 = m - i
        BY <2>i, <2>x, <2>y
      <4> QED
        BY <2>3, <3>1, <4>1, <4>2, Part DEF IsPart
    <3>3. PICK q : q = SubSeq(t, i, m - 1)
      OBVIOUS
    <3>4. q \in Seq(T) /\ Len(q) = m - i /\ \A k \in 1 .. m - i : q[k] = t[i + k - 1]
      <4>1. m - 1 \in i - 1 .. Len(t) /\ i \in 1 .. Len(t) + 1
        BY <1>n, <2>2
      <4>2. (m - 1) - i + 1 = m - i
        BY <2>i
      <4> QED
        BY <3>3, <4>1, <4>2, Part DEF IsPart
    <3>5. ASSUME NEW k \in 1 .. m - i
          PROVE  p[k] = q[k]
      <4>1. i + k - 1 \in 1 .. n /\ d + (i + k - 1) = x + k - 1
        BY <2>2, <2>x
      <4> QED
        BY <1>1, <3>2, <3>4, <4>1
    <3>6. p = q
      <4>1. Len(p) = Len(q) /\ \A k \in 1 .. Len(p) : p[k] = q[k]
        BY <3>2, <3>4, <3>5
      <4> QED
        BY <3>2, <3>4, <4>1, SeqEqual
    <3> QED
      BY <3>1, <3>3, <3>6
  <2>e. y = x <=> m = i
    BY <2>i, <2>x, <2>y
  <2>11. a = IF y = x THEN <<>> ELSE <<SubSeq(s, x, y - 1)>>
    BY <2>7, <2>10, <2>e
  <2>12. b = IF y > Len(s) THEN <<>> ELSE Pieces(s, e)[y + 1]
    <3>1. CASE m > n
      BY <1>1, <2>i, <2>y, <2>8, <3>1
    <3>2. CASE m <= n
      <4>1. m + 1 \in i + 1 .. n + 1
        BY <2>2, <3>2
      <4>2. Pieces(s, e)[d + (m + 1)] = Pieces(t, e)[m + 1]
        BY <1>2, <4>1
      <4>3. d + (m + 1) = y + 1 /\ ~(m > n) /\ ~(y > Len(s))
        BY <1>1, <2>i, <2>y, <3>2
      <4> QED
        BY <2>8, <4>2, <4>3
    <3> QED
      BY <2>2, <3>1, <3>2
  <2>13. Pieces(s, e)[x] = a \o b
    <3>1. Pieces(s, e)[x] = PieceStep(s, e, Pieces(s, e), x)
      BY <2>3, PiecesExist
    <3> QED
      BY <2>6, <2>11, <2>12, <3>1 DEF PieceStep
  <2> QED
    BY <2>9, <2>13, <2>x
<1>3. 1 .. n + 1 \subseteq P
  <2>1. PICK h \in Nat : h = n + 1
    OBVIOUS
  <2> HIDE DEF P
  <2>2. 1 .. h \subseteq P
    BY <1>2, <2>1, Downwards
  <2> QED
    BY <2>1, <2>2
<1>4. \A i \in 1 .. n + 1 : Pieces(s, e)[d + i] = Pieces(t, e)[i]
  BY <1>3
<1> QED
  BY <1>s, <1>d, <1>n, <1>4

LEMMA ExplodeType ==
  ASSUME NEW T, NEW s \in Seq(T), NEW e
  PROVE  Explode(s, e) \in NonEmpty(T)
<1>1. 1 \in 1 .. Len(s) + 1
  OBVIOUS
<1> QED
  BY <1>1, ExplodeIsPieces, PiecesExist

LEMMA PiecesType ==
  ASSUME NEW T, NEW s \in Seq(T), NEW e
  PROVE  Explode(s, e) \in Seq(Seq(T))
<1>1. Seq(T) \ {<<>>} \subseteq Seq(T)
  OBVIOUS
<1>2. Seq(Seq(T) \ {<<>>}) \subseteq Seq(Seq(T))
  BY <1>1, SeqMonotonic
<1> QED
  BY <1>2, ExplodeType DEF NonEmpty


\* explode finds no separator: all of the string is a piece.
LEMMA ExplodeNone ==
  ASSUME NEW T, NEW s \in Seq(T), NEW e, \A i \in DOMAIN s : s[i] # e
  PROVE  Explode(s, e) = Piece(s)
<1>n. PICK n \in Nat : n = Len(s)
  OBVIOUS
<1>1. Find(s, e, 1) = n + 1
  <2>1. 1 \in 1 .. Len(s) + 1 /\ n + 1 \in 1 .. Len(s) + 1 /\ ~(n + 1 <= Len(s))
    BY <1>n
  <2>2. \A j \in 1 .. (n + 1) - 1 : s[j] # e
    BY <1>n
  <2> QED
    BY <2>1, <2>2, FindIs
<1>2. Explode(s, e) = PieceStep(s, e, Pieces(s, e), 1)
  <2>1. 1 \in 1 .. Len(s) + 1
    OBVIOUS
  <2> QED
    BY <2>1, ExplodeIsPieces, PiecesExist
<1>3. SubSeq(s, 1, n) = s
  BY <1>n
<1>4. n + 1 = 1 <=> s = <<>>
  BY <1>n
<1>5. n + 1 > n /\ (n + 1) - 1 = n
  OBVIOUS
<1>6. Explode(s, e) = Piece(s) \o <<>>
  BY <1>n, <1>1, <1>2, <1>3, <1>4, <1>5 DEF PieceStep, Piece
<1>7. Piece(s) \in Seq(Seq(T))
  BY DEF Piece
<1>8. \A v \in Seq(Seq(T)) : v \o <<>> = v
  OBVIOUS
<1> QED
  BY <1>6, <1>7, <1>8

\* s is split at its first e: into p, which has none, and t.
IsSplit(s, p, e, t) == s = p \o <<e>> \o t /\ \A i \in DOMAIN p : p[i] # e

WithPiece(p, v) == Piece(p) \o v

\* One turn of the loop of explode: what is before the separator is a piece, and
\* all up to the separator is erased.
LEMMA ExplodeSplit ==
  ASSUME NEW T, NEW s, NEW p \in Seq(T), NEW t \in Seq(T), NEW e \in T, IsSplit(s, p, e, t)
  PROVE  Explode(s, e) = WithPiece(p, Explode(t, e))
<1>u. PICK u \in Seq(T) : u = p \o <<e>> /\ Adds(u, p, e)
  BY Added
<1>s. s \in Seq(T) /\ s = u \o t /\ Joins(s, u, t)
  <2>1. s = u \o t
    BY <1>u DEF IsSplit
  <2> QED
    BY <2>1, Concat
<1>t. s \in Seq(T)
  BY <1>s
<1>m. PICK m \in Nat : m = Len(u)
  OBVIOUS
<1>1. m = Len(p) + 1 /\ u[m] = e /\ \A j \in 1 .. m - 1 : u[j] = p[j]
  BY <1>u, <1>m DEF Adds
<1>2. Len(s) = m + Len(t) /\ \A j \in 1 .. m : s[j] = u[j]
  BY <1>s, <1>m DEF Joins
<1>3. Find(s, e, 1) = m
  <2>1. 1 \in 1 .. Len(s) + 1 /\ m \in 1 .. Len(s) + 1
    BY <1>1, <1>2
  <2>2. s[m] = e
    BY <1>1, <1>2
  <2>3. ASSUME NEW j \in 1 .. m - 1
        PROVE  s[j] # e
    <3>1. j \in DOMAIN p /\ j \in 1 .. m
      BY <1>1
    <3> QED
      BY <1>1, <1>2, <3>1 DEF IsSplit
  <2> QED
    BY <1>t, <2>1, <2>2, <2>3, FindIs
<1>4. SubSeq(s, 1, m - 1) = p
  <2>1. PICK q : q = SubSeq(s, 1, m - 1)
    OBVIOUS
  <2>2. q \in Seq(T) /\ Len(q) = m - 1 /\ \A j \in 1 .. m - 1 : q[j] = s[j]
    BY <1>1, <1>2, <2>1, SMTT(30)
  <2>3. \A j \in 1 .. m - 1 : q[j] = p[j]
    BY <1>1, <1>2, <2>2
  <2>4. Len(q) = Len(p) /\ \A j \in 1 .. Len(q) : q[j] = p[j]
    BY <1>1, <2>2, <2>3
  <2>5. q = p
    BY <2>2, <2>4, SeqEqual
  <2> QED
    BY <2>1, <2>5
<1>5. Explode(s, e) = PieceStep(s, e, Pieces(s, e), 1)
  <2>1. 1 \in 1 .. Len(s) + 1
    OBVIOUS
  <2>2. \A i \in 1 .. Len(s) + 1 : Pieces(s, e)[i] = PieceStep(s, e, Pieces(s, e), i)
    BY <1>s, PiecesExist
  <2>3. Pieces(s, e)[1] = PieceStep(s, e, Pieces(s, e), 1)
    BY <2>1, <2>2, Zenon
  <2> QED
    BY <2>3, ExplodeIsPieces
<1>6. m = 1 <=> p = <<>>
  BY <1>1
<1>7. ~(m > Len(s))
  BY <1>2
<1>8. Pieces(s, e)[m + 1] = Explode(t, e)
  <2>1. 1 \in 1 .. Len(t) + 1
    OBVIOUS
  <2>2. Pieces(u \o t, e)[Len(u) + 1] = Pieces(t, e)[1]
    BY <2>1, Shift
  <2> QED
    BY <1>s, <1>m, <2>2, ExplodeIsPieces
<1> QED
  BY <1>3, <1>4, <1>5, <1>6, <1>7, <1>8 DEF PieceStep, Piece, WithPiece

\* A string with a separator, split at the first one.
LEMMA Split ==
  ASSUME NEW T, NEW s \in Seq(T), NEW e, NEW k \in DOMAIN s, s[k] = e
  PROVE  e \in T /\ \E p, t \in Seq(T) : IsSplit(s, p, e, t) /\ Len(p) < Len(s) /\ Len(t) < Len(s)
<1>1. PICK m : m = Find(s, e, 1)
  OBVIOUS
<1>2. /\ m \in 1 .. Len(s) + 1
      /\ m <= Len(s) => s[m] = e
      /\ \A j \in 1 .. m - 1 : s[j] # e
  BY <1>1, FindStops
<1>3. m <= k /\ m \in DOMAIN s /\ k <= Len(s)
  <2>1. ~(k \in 1 .. m - 1)
    BY <1>2
  <2> QED
    BY <1>2, <2>1
<1>n. PICK n \in Nat : n = Len(s)
  OBVIOUS
<1>4. PICK p \in Seq(T) : Len(p) = m - 1 /\ \A j \in 1 .. m - 1 : p[j] = s[j]
  <2>1. 1 \in 1 .. n + 1 /\ m - 1 \in 1 - 1 .. n
    BY <1>2, <1>n
  <2>2. PICK p \in Seq(T) : IsPart(p, s, 1, m - 1)
    BY <1>n, <2>1, Part
  <2>3. \A j \in 1 .. m - 1 : j \in 1 .. (m - 1) - 1 + 1 /\ 1 + j - 1 = j
    BY <1>2
  <2>4. (m - 1) - 1 + 1 = m - 1
    BY <1>2
  <2> QED
    BY <2>2, <2>3, <2>4 DEF IsPart
<1>5. PICK t \in Seq(T) : Len(t) = n - m /\ \A j \in 1 .. n - m : t[j] = s[m + j]
  <2>1. m + 1 \in 1 .. n + 1 /\ n \in (m + 1) - 1 .. n
    BY <1>2, <1>3, <1>n
  <2>2. PICK t \in Seq(T) : IsPart(t, s, m + 1, n)
    BY <1>n, <2>1, Part
  <2>3. \A j \in 1 .. n - m : j \in 1 .. n - (m + 1) + 1 /\ (m + 1) + j - 1 = m + j
    BY <1>2
  <2>4. n - (m + 1) + 1 = n - m
    BY <1>2
  <2> QED
    BY <2>2, <2>3, <2>4 DEF IsPart
<1>6. e \in T
  BY <1>2, <1>3
<1>7. PICK u \in Seq(T) : u = p \o <<e>> /\ Adds(u, p, e)
  BY <1>6, Added
<1>8. Len(u) = m /\ u[m] = e /\ \A j \in 1 .. m - 1 : u[j] = p[j]
  <2>1. Len(p) + 1 = m
    BY <1>2, <1>4
  <2> QED
    BY <1>4, <1>7, <2>1 DEF Adds
<1>9. PICK w \in Seq(T) : w = u \o t /\ Joins(w, u, t)
  BY Concat
<1>10. /\ Len(w) = m + Len(t)
       /\ \A j \in 1 .. m : w[j] = u[j]
       /\ \A j \in 1 .. Len(t) : w[m + j] = t[j]
  BY <1>8, <1>9 DEF Joins
<1>11. ASSUME NEW j \in 1 .. Len(s)
       PROVE  w[j] = s[j]
  <2>1. CASE j < m
    <3>1. j \in 1 .. m /\ j \in 1 .. m - 1
      BY <1>2, <2>1
    <3> QED
      BY <1>4, <1>8, <1>10, <3>1
  <2>2. CASE j = m
    BY <1>2, <1>3, <1>8, <1>10, <2>2
  <2>3. CASE j > m
    <3>1. j - m \in 1 .. n - m /\ j - m \in 1 .. Len(t) /\ m + (j - m) = j
      BY <1>2, <1>5, <1>n, <2>3
    <3> QED
      BY <1>5, <1>10, <3>1
  <2> QED
    BY <1>2, <2>1, <2>2, <2>3
<1>12. w = s
  <2>1. Len(w) = Len(s)
    BY <1>2, <1>3, <1>5, <1>10, <1>n
  <2> QED
    BY <1>9, <1>11, <2>1, SeqEqual
<1>13. ASSUME NEW i \in DOMAIN p PROVE p[i] # e
  <2>1. m - 1 \in Nat /\ DOMAIN p = 1 .. Len(p)
    BY <1>2
  <2>2. i \in 1 .. m - 1
    BY <1>4, <2>1
  <2>3. p[i] = s[i]
    BY <1>4, <2>2
  <2> QED
    BY <1>2, <2>2, <2>3
<1>14. s = p \o <<e>> \o t
  BY <1>7, <1>9, <1>12
<1>15. Len(p) < Len(s) /\ Len(t) < Len(s)
  BY <1>2, <1>3, <1>4, <1>5, <1>n
<1> QED
  BY <1>6, <1>13, <1>14, <1>15 DEF IsSplit

\* The characters of a string that is split.
Consists(s, p, c, t) ==
  /\ Len(s) = Len(p) + 1 + Len(t)
  /\ \A i \in 1 .. Len(p) : s[i] = p[i] /\ p[i] # c
  /\ s[Len(p) + 1] = c
  /\ \A i \in 1 .. Len(t) : s[Len(p) + 1 + i] = t[i]

LEMMA SplitAt ==
  ASSUME NEW T, NEW s, NEW p \in Seq(T), NEW t \in Seq(T), NEW c \in T, IsSplit(s, p, c, t)
  PROVE  s \in Seq(T) /\ Consists(s, p, c, t)
<1>1. PICK u \in Seq(T) : u = p \o <<c>> /\ Adds(u, p, c)
  BY Added
<1>2. s \in Seq(T) /\ Joins(s, u, t)
  <2>1. s = u \o t
    BY <1>1 DEF IsSplit
  <2> QED
    BY <2>1, Concat
<1>3. Len(u) = Len(p) + 1
  BY <1>1 DEF Adds
<1>4. Len(s) = Len(p) + 1 + Len(t) /\ \A i \in 1 .. Len(t) : s[Len(p) + 1 + i] = t[i]
  BY <1>2, <1>3 DEF Joins
<1>5. \A i \in 1 .. Len(p) + 1 : s[i] = u[i]
  BY <1>2, <1>3 DEF Joins
<1>6. \A i \in 1 .. Len(p) : s[i] = p[i] /\ p[i] # c
  BY <1>1, <1>5 DEF Adds, IsSplit
<1>7. s[Len(p) + 1] = c
  BY <1>1, <1>5 DEF Adds
<1> QED
  BY <1>2, <1>4, <1>6, <1>7 DEF Consists

\* Nothing is left of a string of separators.
LEMMA ExplodeEmpty ==
  ASSUME NEW T, NEW c, NEW w \in Seq(T)
  PROVE  Explode(w, c) = <<>> <=> \A i \in DOMAIN w : w[i] = c
<1> DEFINE All(s) == \A i \in DOMAIN s : s[i] = c
           P == {s \in Seq(T) : Explode(s, c) = <<>> <=> All(s)}
<1>1. ASSUME NEW s \in Seq(T), \A t \in Seq(T) : Len(t) < Len(s) => t \in P
      PROVE  s \in P
  <2>1. CASE \A i \in DOMAIN s : s[i] # c
    <3>1. Explode(s, c) = Piece(s)
      BY <2>1, ExplodeNone
    <3>2. Piece(s) = <<>> <=> s = <<>>
      <4>1. <<s>> # <<>>
        OBVIOUS
      <4> QED
        BY <4>1 DEF Piece
    <3>3. All(s) <=> s = <<>>
      <4>1. s # <<>> => 1 \in DOMAIN s
        OBVIOUS
      <4>2. s = <<>> => DOMAIN s = {}
        OBVIOUS
      <4> QED
        BY <2>1, <4>1, <4>2
    <3> QED
      BY <3>1, <3>2, <3>3
  <2>2. CASE \E i \in DOMAIN s : s[i] = c
    <3>c. c \in T
      BY <2>2, Split
    <3>1. PICK p \in Seq(T), t \in Seq(T) : IsSplit(s, p, c, t) /\ Len(t) < Len(s)
      BY <2>2, Split
    <3>2. Explode(s, c) = WithPiece(p, Explode(t, c))
      BY <3>c, <3>1, ExplodeSplit
    <3>3. Piece(p) \in Seq(Seq(T)) /\ Explode(t, c) \in Seq(Seq(T))
      <4>1. Explode(t, c) \in NonEmpty(T)
        BY ExplodeType
      <4>2. Explode(t, c) \in Seq(Seq(T))
        BY <4>1, SeqMonotonic DEF NonEmpty
      <4> QED
        BY <4>2 DEF Piece
    <3>4. Explode(s, c) = <<>> <=> Piece(p) = <<>> /\ Explode(t, c) = <<>>
      BY <3>2, <3>3, ConcatEqualIffEmpty DEF WithPiece
    <3>5. Piece(p) = <<>> <=> p = <<>>
      <4>1. <<p>> # <<>>
        OBVIOUS
      <4> QED
        BY <4>1 DEF Piece
    <3>6. Explode(t, c) = <<>> <=> All(t)
      BY <1>1, <3>1
    <3>7. /\ Len(s) = Len(p) + 1 + Len(t)
          /\ \A i \in 1 .. Len(p) : s[i] = p[i] /\ p[i] # c
          /\ s[Len(p) + 1] = c
          /\ \A i \in 1 .. Len(t) : s[Len(p) + 1 + i] = t[i]
      <4>1. Consists(s, p, c, t)
        BY <3>c, <3>1, SplitAt
      <4> QED
        BY <4>1 DEF Consists
    <3>8. ASSUME All(s) PROVE p = <<>> /\ All(t)
      <4>1. ASSUME p # <<>> PROVE FALSE
        <5>1. 1 \in 1 .. Len(p) /\ 1 \in DOMAIN p /\ 1 \in DOMAIN s
          BY <3>7, <4>1
        <5> QED
          BY <3>1, <3>7, <3>8, <5>1
      <4>2. ASSUME NEW i \in DOMAIN t PROVE t[i] = c
        <5>1. i \in 1 .. Len(t) /\ Len(p) + 1 + i \in DOMAIN s
          BY <3>7
        <5> QED
          BY <3>7, <3>8, <5>1
      <4> QED
        BY <4>1, <4>2
    <3>9. ASSUME p = <<>>, All(t) PROVE All(s)
      <4>1. ASSUME NEW i \in DOMAIN s PROVE s[i] = c
        <5>1. Len(p) = 0
          BY <3>9
        <5>2. i = Len(p) + 1 \/ (i - 1 \in 1 .. Len(t) /\ Len(p) + 1 + (i - 1) = i)
          BY <3>7, <5>1
        <5>3. \A j \in 1 .. Len(t) : t[j] = c
          BY <3>9
        <5> QED
          BY <3>7, <5>2, <5>3
      <4> QED
        BY <4>1
    <3> QED
      BY <3>4, <3>5, <3>6, <3>8, <3>9
  <2> QED
    BY <2>1, <2>2
<1>2. Seq(T) \subseteq P
  <2> HIDE DEF P
  <2> QED
    BY <1>1, ByLength
<1> QED
  BY <1>2

--------------------------------------------------------------------------------
(* str_replace.                                                            *)

\* Each of the strings v but the last is followed by r.
Glue(v, r) == [i \in DOMAIN v |-> IF i < Len(v) THEN v[i] \o r ELSE v[i]]

LEMMA StrReplaceGlues ==
  ASSUME NEW s, NEW c, NEW r
  PROVE  StrReplace(c, r, s) = FlattenSeq(Glue(Explode(s, c), r))
  BY DEF StrReplace, Glue

LEMMA GlueType ==
  ASSUME NEW T, NEW v \in Seq(Seq(T)), NEW r \in Seq(T)
  PROVE  Glue(v, r) \in Seq(Seq(T)) /\ Len(Glue(v, r)) = Len(v)
<1>1. \A i \in 1 .. Len(v) : v[i] \in Seq(T) /\ v[i] \o r \in Seq(T)
  BY ElementOfSeq, ConcatProperties
<1>2. PICK g : g = Glue(v, r)
  OBVIOUS
<1>3. g = [i \in 1 .. Len(v) |-> IF i < Len(v) THEN v[i] \o r ELSE v[i]]
  BY <1>2 DEF Glue
<1>4. \A i \in 1 .. Len(v) : g[i] \in Seq(T)
  BY <1>1, <1>3
<1>5. g = [i \in 1 .. Len(v) |-> g[i]]
  BY <1>3
<1>6. g \in Seq(Seq(T)) /\ Len(g) = Len(v)
  BY <1>4, <1>5
<1> QED
  BY <1>2, <1>6

LEMMA FlattenOne ==
  ASSUME NEW T, NEW x \in Seq(T)
  PROVE  FlattenSeq(<<x>>) = x
<1>1. <<>> \in Seq(Seq(T))
  OBVIOUS
<1>2. FlattenSeq(<<>> \o <<x>>) = FlattenSeq(<<>>) \o x
  BY <1>1, FlattenAdd
<1>3. <<x>> \in Seq(Seq(T))
  OBVIOUS
<1>4. <<>> \o <<x>> = <<x>> /\ <<>> \o x = x
  BY <1>3, ConcatEmptySeq
<1> QED
  BY <1>2, <1>4, FlattenEmpty

LEMMA GlueOne ==
  ASSUME NEW T, NEW x \in Seq(T), NEW r \in Seq(T)
  PROVE  FlattenSeq(Glue(<<x>>, r)) = x
<1>1. <<x>> \in Seq(Seq(T)) /\ Len(<<x>>) = 1 /\ <<x>>[1] = x /\ DOMAIN <<x>> = {1}
  OBVIOUS
<1>2. Glue(<<x>>, r) \in Seq(Seq(T)) /\ Len(Glue(<<x>>, r)) = 1
  BY <1>1, GlueType
<1>3. Glue(<<x>>, r)[1] = x
  BY <1>1 DEF Glue
<1>4. Glue(<<x>>, r) = <<x>>
  <2>1. \A i \in 1 .. 1 : i = 1
    OBVIOUS
  <2> QED
    BY <1>1, <1>2, <1>3, <2>1, SeqEqual
<1> QED
  BY <1>4, FlattenOne

Parts(s, u, v, w) == s = (u \o v) \o w

LEMMA GlueMore ==
  ASSUME NEW T, NEW x \in Seq(T), NEW v \in Seq(Seq(T)), NEW r \in Seq(T), v # <<>>,
         NEW z, z = <<x>> \o v
  PROVE  Parts(FlattenSeq(Glue(z, r)), x, r, FlattenSeq(Glue(v, r)))
<1>o. PICK o \in Seq(Seq(T)) : o = <<x>> /\ Len(o) = 1 /\ o[1] = x
  <2>1. <<x>> \in Seq(Seq(T)) /\ Len(<<x>>) = 1 /\ <<x>>[1] = x
    OBVIOUS
  <2> QED
    BY <2>1
<1>y. PICK y \in Seq(T) : y = x \o r
  BY ConcatProperties
<1>q. PICK q \in Seq(Seq(T)) : q = <<y>> /\ Len(q) = 1 /\ q[1] = y
  <2>1. <<y>> \in Seq(Seq(T)) /\ Len(<<y>>) = 1 /\ <<y>>[1] = y
    OBVIOUS
  <2> QED
    BY <2>1
<1>w. PICK w \in Seq(Seq(T)) : w = o \o v /\ Joins(w, o, v)
  BY Concat
<1>n. PICK n \in Nat : n = Len(v)
  OBVIOUS
<1>0. n > 0
  BY <1>n, EmptySeq
<1>1. /\ Len(w) = 1 + n /\ DOMAIN w = 1 .. 1 + n /\ w[1] = x
      /\ \A i \in 1 .. n : w[1 + i] = v[i]
  BY <1>o, <1>n, <1>w DEF Joins
<1>g. PICK g \in Seq(Seq(T)) : g = Glue(w, r) /\ Len(g) = 1 + n
  BY <1>1, GlueType
<1>h. PICK h \in Seq(Seq(T)) : h = Glue(v, r) /\ Len(h) = n
  BY <1>n, GlueType
<1>2. \A i \in 1 .. 1 + n : g[i] = IF i < 1 + n THEN w[i] \o r ELSE w[i]
  BY <1>1, <1>g DEF Glue
<1>3. \A i \in 1 .. n : h[i] = IF i < n THEN v[i] \o r ELSE v[i]
  BY <1>n, <1>h DEF Glue
<1>4. g[1] = y
  <2>1. 1 \in 1 .. 1 + n /\ 1 < 1 + n
    BY <1>0
  <2>2. g[1] = w[1] \o r
    BY <1>2, <2>1
  <2> QED
    BY <1>1, <1>y, <2>2
<1>5. ASSUME NEW i \in 1 .. n
      PROVE  g[1 + i] = h[i]
  <2>1. 1 + i \in 1 .. 1 + n /\ (1 + i < 1 + n <=> i < n)
    OBVIOUS
  <2> QED
    BY <1>1, <1>2, <1>3, <2>1
<1>6. Joins(g, q, h)
  <2>1. \A i \in 1 .. 1 : i = 1
    OBVIOUS
  <2> QED
    BY <1>4, <1>5, <1>q, <1>g, <1>h, <2>1 DEF Joins
<1>7. g = q \o h
  BY <1>6, JoinIs
<1>8. FlattenSeq(g) = FlattenSeq(q) \o FlattenSeq(h)
  BY <1>7, FlattenConcat
<1>9. FlattenSeq(q) = y
  BY <1>q, FlattenOne
<1> QED
  BY <1>8, <1>9, <1>g, <1>h, <1>y, <1>w, <1>o DEF Parts

\* A sequence is flattened from its elements.
LEMMA FlattenSingles ==
  ASSUME NEW T, NEW s \in Seq(T), NEW v \in Seq(Seq(T)), Len(v) = Len(s),
         \A i \in 1 .. Len(s) : v[i] = <<s[i]>>
  PROVE  FlattenSeq(v) = s
<1> DEFINE Singles(w, f) == Len(f) = Len(w) /\ \A i \in 1 .. Len(w) : f[i] = <<w[i]>>
           P == {w \in Seq(T) : \A f \in Seq(Seq(T)) : Singles(w, f) => FlattenSeq(f) = w}
<1>1. ASSUME NEW w \in Seq(T), \A t \in Seq(T) : Len(t) < Len(w) => t \in P
      PROVE  w \in P
  <2>1. SUFFICES ASSUME NEW f \in Seq(Seq(T)), Singles(w, f)
                 PROVE  FlattenSeq(f) = w
    OBVIOUS
  <2>2. CASE w = <<>>
    <3>1. f = <<>>
      BY <2>1, <2>2, EmptySeq
    <3> QED
      BY <2>2, <3>1, FlattenEmpty
  <2>3. CASE w # <<>>
    <3>1. PICK u \in Seq(T), x \in T : w = u \o <<x>> /\ Adds(w, u, x) /\ Len(u) < Len(w)
      BY <2>3, Ends
    <3>2. f # <<>>
      BY <2>1, <2>3, EmptySeq
    <3>3. PICK g \in Seq(Seq(T)), y \in Seq(T) : f = g \o <<y>> /\ Adds(f, g, y)
      BY <3>2, Ends
    <3>4. Len(g) = Len(u) /\ Len(w) = Len(u) + 1
      BY <2>1, <3>1, <3>3 DEF Adds
    <3>5. Singles(u, g)
      BY <2>1, <3>1, <3>3, <3>4 DEF Adds
    <3>6. FlattenSeq(g) = u
      BY <1>1, <3>1, <3>5
    <3>7. y = <<x>>
      <4>1. Len(u) + 1 \in 1 .. Len(w)
        BY <3>4
      <4> QED
        BY <2>1, <3>1, <3>3, <3>4, <4>1 DEF Adds
    <3>8. FlattenSeq(f) = FlattenSeq(g) \o y
      BY <3>3, FlattenAdd
    <3> QED
      BY <3>1, <3>6, <3>7, <3>8
  <2> QED
    BY <2>2, <2>3
<1>2. Seq(T) \subseteq P
  <2> HIDE DEF P
  <2> QED
    BY <1>1, ByLength
<1> QED
  BY <1>2

\* What becomes of each character.
Exchanged(s, c, r) ==
  [i \in DOMAIN s |-> IF i \in Lost(s, c) THEN <<>> ELSE IF s[i] = c THEN r ELSE <<s[i]>>]

LEMMA ReplacedType ==
  ASSUME NEW T, NEW s \in Seq(T), NEW c, NEW r \in Seq(T)
  PROVE  Exchanged(s, c, r) \in Seq(Seq(T)) /\ Len(Exchanged(s, c, r)) = Len(s)
<1>1. PICK f : f = Exchanged(s, c, r)
  OBVIOUS
<1>2. f = [i \in 1 .. Len(s) |-> IF i \in Lost(s, c) THEN <<>>
                                 ELSE IF s[i] = c THEN r ELSE <<s[i]>>]
  BY <1>1 DEF Exchanged
<1>3. \A i \in 1 .. Len(s) : <<s[i]>> \in Seq(T)
  OBVIOUS
<1>4. \A i \in 1 .. Len(s) : f[i] \in Seq(T)
  BY <1>2, <1>3
<1>5. f = [i \in 1 .. Len(s) |-> f[i]]
  BY <1>2
<1>6. f \in Seq(Seq(T)) /\ Len(f) = Len(s)
  BY <1>4, <1>5
<1> QED
  BY <1>1, <1>6

\* Nothing is replaced where there is no c.
LEMMA ReplacedNone ==
  ASSUME NEW T, NEW s \in Seq(T), NEW c, NEW r \in Seq(T), \A i \in DOMAIN s : s[i] # c
  PROVE  /\ \A i \in 1 .. Len(s) : Exchanged(s, c, r)[i] = <<s[i]>>
         /\ FlattenSeq(Exchanged(s, c, r)) = s
<1>1. \A i \in 1 .. Len(s) : Exchanged(s, c, r)[i] = <<s[i]>>
  BY DEF Exchanged, Lost
<1>2. FlattenSeq(Exchanged(s, c, r)) = s
  BY <1>1, ReplacedType, FlattenSingles
<1> QED
  BY <1>1, <1>2

\* Those lost of a string are those of its parts: the separator between them if
\* nothing is before it or nothing else behind it.
LostOf(s, p, c, t) ==
  /\ Len(p) + 1 \in Lost(s, c) <=> p = <<>> \/ \A i \in DOMAIN t : t[i] = c
  /\ \A i \in 1 .. Len(t) : Len(p) + 1 + i \in Lost(s, c) <=> i \in Lost(t, c)

LEMMA LostSplit ==
  ASSUME NEW T, NEW s, NEW p \in Seq(T), NEW t \in Seq(T), NEW c \in T, IsSplit(s, p, c, t)
  PROVE  LostOf(s, p, c, t)
<1>k. PICK k \in Nat : k = Len(p) + 1
  OBVIOUS
<1>n. PICK n \in Nat : n = Len(t)
  OBVIOUS
<1>1. /\ s \in Seq(T) /\ Len(s) = k + n
      /\ \A i \in 1 .. k - 1 : s[i] # c
      /\ s[k] = c
      /\ \A i \in 1 .. n : s[k + i] = t[i]
  <2>1. s \in Seq(T) /\ Consists(s, p, c, t)
    BY SplitAt
  <2>2. 1 .. k - 1 = 1 .. Len(p)
    BY <1>k
  <2> QED
    BY <1>k, <1>n, <2>1, <2>2 DEF Consists
<1>2. DOMAIN s = 1 .. k + n /\ DOMAIN t = 1 .. n /\ k >= 1
  BY <1>1, <1>n, <1>k
<1>3. k = 1 <=> p = <<>>
  BY <1>k, EmptySeq
<1>4. ASSUME NEW i \in 0 .. n
      PROVE  (\A j \in k + i .. k + n : s[j] = c) <=>
             (i = 0 \/ s[k + i] = c) /\ \A j \in i + 1 .. n : t[j] = c
  <2>1. ASSUME \A j \in k + i .. k + n : s[j] = c
        PROVE  s[k + i] = c /\ \A j \in i + 1 .. n : t[j] = c
    <3>1. \A j \in i + 1 .. n : k + j \in k + i .. k + n /\ j \in 1 .. n
      OBVIOUS
    <3>2. k + i \in k + i .. k + n
      OBVIOUS
    <3> QED
      BY <1>1, <2>1, <3>1, <3>2
  <2>2. ASSUME i = 0 \/ s[k + i] = c, \A j \in i + 1 .. n : t[j] = c, NEW j \in k + i .. k + n
        PROVE  s[j] = c
    <3>1. CASE j = k + i
      BY <1>1, <2>2, <3>1
    <3>2. CASE j # k + i
      <4>1. j - k \in i + 1 .. n /\ j - k \in 1 .. n /\ k + (j - k) = j
        BY <3>2
      <4> QED
        BY <1>1, <2>2, <4>1
    <3> QED
      BY <3>1, <3>2
  <2> QED
    BY <2>1, <2>2
<1>5. k \in Lost(s, c) <=> p = <<>> \/ \A i \in DOMAIN t : t[i] = c
  <2>1. k \in DOMAIN s
    BY <1>2
  <2>2. k # 1 => s[k - 1] # c
    BY <1>1, <1>2
  <2>3. (\A j \in k .. k + n : s[j] = c) <=> \A j \in 1 .. n : t[j] = c
    <3>1. k + 0 = k /\ 0 + 1 = 1 /\ 0 \in 0 .. n
      OBVIOUS
    <3> QED
      BY <1>4, <3>1
  <2> QED
    BY <1>1, <1>2, <1>3, <2>1, <2>2, <2>3 DEF Lost
<1>6. ASSUME NEW i \in 1 .. n
      PROVE  k + i \in Lost(s, c) <=> i \in Lost(t, c)
  <2>1. k + i \in DOMAIN s /\ i \in DOMAIN t /\ k + i # 1 /\ s[k + i] = t[i]
    BY <1>1, <1>2
  <2>2. s[k + i - 1] = c <=> i = 1 \/ t[i - 1] = c
    <3>1. CASE i = 1
      BY <1>1, <3>1
    <3>2. CASE i # 1
      <4>1. i - 1 \in 1 .. n /\ k + (i - 1) = k + i - 1
        BY <3>2
      <4> QED
        BY <1>1, <3>2, <4>1
    <3> QED
      BY <3>1, <3>2
  <2>3. (\A j \in k + i .. k + n : s[j] = c) <=> \A j \in i .. n : t[j] = c
    <3>1. (\A j \in i .. n : t[j] = c) <=> t[i] = c /\ \A j \in i + 1 .. n : t[j] = c
      OBVIOUS
    <3>2. i \in 0 .. n /\ i # 0
      OBVIOUS
    <3> QED
      BY <1>4, <2>1, <3>1, <3>2
  <2> QED
    BY <1>1, <1>2, <1>n, <2>1, <2>2, <2>3 DEF Lost
<1> QED
  BY <1>5, <1>6, <1>k, <1>n DEF LostOf

\* What becomes of the parts of a string.
LEMMA ReplacedSplit ==
  ASSUME NEW T, NEW s, NEW p \in Seq(T), NEW t \in Seq(T), NEW c \in T, NEW r \in Seq(T),
         IsSplit(s, p, c, t),
         NEW h, h = IF p = <<>> \/ \A i \in DOMAIN t : t[i] = c THEN <<>> ELSE r
  PROVE  Parts(FlattenSeq(Exchanged(s, c, r)), p, h, FlattenSeq(Exchanged(t, c, r)))
<1>h. h \in Seq(T)
  OBVIOUS
<1>s. s \in Seq(T)
  BY SplitAt
<1>p. \A i \in DOMAIN p : p[i] # c
  BY DEF IsSplit
<1>k. PICK k \in Nat : k = Len(p) + 1
  OBVIOUS
<1>n. PICK n \in Nat : n = Len(t)
  OBVIOUS
<1>f. PICK f \in Seq(Seq(T)) : f = Exchanged(s, c, r) /\ Len(f) = Len(s)
  BY <1>s, ReplacedType
<1>a. PICK a \in Seq(Seq(T)) : a = Exchanged(p, c, r) /\ Len(a) = Len(p)
  BY ReplacedType
<1>b. PICK b \in Seq(Seq(T)) : b = Exchanged(t, c, r) /\ Len(b) = n
  BY <1>n, ReplacedType
<1>g. PICK g \in Seq(Seq(T)) : g = a \o <<h>> /\ Adds(g, a, h)
  BY <1>h, Added
<1>1. /\ Len(s) = k + n
      /\ \A i \in 1 .. k - 1 : s[i] = p[i] /\ s[i] # c
      /\ s[k] = c
      /\ \A i \in 1 .. n : s[k + i] = t[i]
  <2>1. s \in Seq(T) /\ Consists(s, p, c, t)
    BY SplitAt
  <2>2. 1 .. k - 1 = 1 .. Len(p)
    BY <1>k
  <2> QED
    BY <1>k, <1>n, <2>1, <2>2 DEF Consists
<1>2. DOMAIN s = 1 .. k + n /\ k \in 1 .. k + n
  BY <1>s, <1>1, <1>k
<1>3. \A i \in DOMAIN s : f[i] = IF i \in Lost(s, c) THEN <<>>
                                 ELSE IF s[i] = c THEN r ELSE <<s[i]>>
  BY <1>f DEF Exchanged
<1>4. ASSUME NEW i \in 1 .. k - 1
      PROVE  f[i] = a[i]
  <2>1. i \in DOMAIN s /\ s[i] = p[i] /\ s[i] # c
    BY <1>1, <1>2
  <2>2. f[i] = <<p[i]>>
    BY <1>3, <2>1 DEF Lost
  <2>3. i \in 1 .. Len(p)
    BY <1>k
  <2>4. a[i] = <<p[i]>>
    <3>1. i \in DOMAIN p /\ p[i] # c
      BY <1>p, <2>3
    <3>2. i \notin Lost(p, c)
      BY <3>1 DEF Lost
    <3> QED
      BY <1>a, <3>1, <3>2 DEF Exchanged
  <2> QED
    BY <2>2, <2>4
<1>5. f[k] = h
  <2>1. k \in Lost(s, c) <=> p = <<>> \/ \A i \in DOMAIN t : t[i] = c
    <3>1. LostOf(s, p, c, t)
      BY LostSplit
    <3> QED
      BY <1>k, <3>1 DEF LostOf
  <2> QED
    BY <1>1, <1>2, <1>3, <2>1
<1>6. ASSUME NEW i \in 1 .. n
      PROVE  f[k + i] = b[i]
  <2>1. k + i \in Lost(s, c) <=> i \in Lost(t, c)
    <3>1. LostOf(s, p, c, t)
      BY LostSplit
    <3> QED
      BY <1>k, <1>n, <3>1 DEF LostOf
  <2>2. k + i \in DOMAIN s /\ i \in DOMAIN t
    BY <1>2, <1>n
  <2>3. b[i] = IF i \in Lost(t, c) THEN <<>> ELSE IF t[i] = c THEN r ELSE <<t[i]>>
    BY <1>b, <2>2 DEF Exchanged
  <2> QED
    BY <1>1, <1>3, <2>1, <2>2, <2>3
<1>7. Joins(f, g, b)
  <2>1. Len(g) = k /\ g[k] = h /\ \A j \in 1 .. k - 1 : g[j] = a[j]
    BY <1>a, <1>g, <1>k DEF Adds
  <2>2. ASSUME NEW j \in 1 .. Len(g) PROVE f[j] = g[j]
    <3>1. j = k \/ j \in 1 .. k - 1
      BY <2>1
    <3> QED
      BY <1>4, <1>5, <2>1, <3>1
  <2>3. \A j \in 1 .. Len(b) : f[Len(g) + j] = b[j]
    BY <1>6, <1>b, <2>1
  <2>4. Len(f) = Len(g) + Len(b)
    BY <1>1, <1>b, <1>f, <2>1
  <2> QED
    BY <2>2, <2>3, <2>4 DEF Joins
<1>8. f = g \o b
  BY <1>7, JoinIs
<1>9. FlattenSeq(f) = FlattenSeq(g) \o FlattenSeq(b)
  BY <1>8, FlattenConcat
<1>10. FlattenSeq(g) = FlattenSeq(a) \o h
  BY <1>g, <1>h, FlattenAdd
<1>11. FlattenSeq(a) = p
  BY <1>a, <1>p, ReplacedNone, SMTT(30)
<1>12. FlattenSeq(f) = (p \o h) \o FlattenSeq(b)
  BY <1>9, <1>10, <1>11
<1> QED
  BY <1>12, <1>f, <1>b, Zenon DEF Parts

\* str_replace, for strings and replacements of any length.
LEMMA StrReplaceIs ==
  ASSUME NEW T, NEW c \in T, NEW r \in Seq(T), NEW w \in Seq(T)
  PROVE  StrReplace(c, r, w) = FlattenSeq(Exchanged(w, c, r))
<1> DEFINE P == {s \in Seq(T) : StrReplace(c, r, s) = FlattenSeq(Exchanged(s, c, r))}
<1>1. ASSUME NEW s \in Seq(T), \A t \in Seq(T) : Len(t) < Len(s) => t \in P
      PROVE  s \in P
  <2>p. ASSUME NEW p \in Seq(T) PROVE FlattenSeq(Glue(Piece(p), r)) = p
    <3>1. CASE p = <<>>
      <4>1. Glue(<<>>, r) \in Seq(Seq(T)) /\ Len(Glue(<<>>, r)) = 0
        <5>1. <<>> \in Seq(Seq(T)) /\ Len(<<>>) = 0
          OBVIOUS
        <5> QED
          BY <5>1, GlueType
      <4>2. Glue(<<>>, r) = <<>>
        BY <4>1, EmptySeq
      <4> QED
        BY <3>1, <4>2, FlattenEmpty DEF Piece
    <3>2. CASE p # <<>>
      BY <3>2, GlueOne DEF Piece
    <3> QED
      BY <3>1, <3>2
  <2>1. CASE \A i \in DOMAIN s : s[i] # c
    <3>1. Explode(s, c) = Piece(s)
      BY <2>1, ExplodeNone
    <3>2. StrReplace(c, r, s) = s
      BY <2>p, <3>1, StrReplaceGlues
    <3>3. FlattenSeq(Exchanged(s, c, r)) = s
      BY <2>1, ReplacedNone
    <3> QED
      BY <3>2, <3>3
  <2>2. CASE \E i \in DOMAIN s : s[i] = c
    <3>1. PICK p \in Seq(T), t \in Seq(T) : IsSplit(s, p, c, t) /\ Len(t) < Len(s)
      BY <2>2, Split
    <3>2. PICK h : h = IF p = <<>> \/ \A i \in DOMAIN t : t[i] = c THEN <<>> ELSE r
      OBVIOUS
    <3>3. PICK b \in Seq(T) : b = FlattenSeq(Exchanged(t, c, r))
      BY ReplacedType, FlattenType
    <3>4. FlattenSeq(Exchanged(s, c, r)) = (p \o h) \o b
      <4>1. Parts(FlattenSeq(Exchanged(s, c, r)), p, h, FlattenSeq(Exchanged(t, c, r)))
        BY <3>1, <3>2, ReplacedSplit
      <4> QED
        BY <3>3, <4>1 DEF Parts
    <3>5. PICK v \in Seq(Seq(T)) : v = Explode(t, c)
      BY PiecesType
    <3>6. Explode(s, c) = Piece(p) \o v
      <4>1. Explode(s, c) = WithPiece(p, Explode(t, c))
        BY <3>1, ExplodeSplit
      <4> QED
        BY <3>5, <4>1 DEF WithPiece
    <3>7. FlattenSeq(Glue(v, r)) = b
      <4>1. StrReplace(c, r, t) = FlattenSeq(Exchanged(t, c, r))
        BY <1>1, <3>1
      <4> QED
        BY <3>3, <3>5, <4>1, StrReplaceGlues
    <3>8. v = <<>> <=> \A i \in DOMAIN t : t[i] = c
      BY <3>5, ExplodeEmpty
    <3>9. CASE v = <<>>
      <4>1. Piece(p) \o v = Piece(p)
        <5>1. Piece(p) \in Seq(Seq(T))
          BY DEF Piece
        <5> QED
          BY <3>9, <5>1, ConcatEmptySeq
      <4>2. FlattenSeq(Glue(Explode(s, c), r)) = p
        BY <2>p, <3>6, <4>1
      <4>3. b = <<>>
        <5>1. <<>> \in Seq(T) /\ Piece(<<>>) = <<>>
          BY DEF Piece
        <5>2. FlattenSeq(Glue(Piece(<<>>), r)) = <<>>
          BY <2>p, <5>1
        <5> QED
          BY <3>7, <3>9, <5>1, <5>2
      <4>4. h = <<>>
        BY <3>2, <3>8, <3>9
      <4>5. (p \o <<>>) \o <<>> = p
        BY ConcatEmptySeq
      <4> QED
        BY <3>4, <4>2, <4>3, <4>4, <4>5, StrReplaceGlues
    <3>10. CASE v # <<>> /\ p = <<>>
      <4>1. Explode(s, c) = v
        BY <3>6, <3>10, ConcatEmptySeq DEF Piece
      <4>2. FlattenSeq(Glue(Explode(s, c), r)) = b
        BY <3>7, <4>1
      <4>3. h = <<>>
        BY <3>2, <3>10
      <4>4. (<<>> \o <<>>) \o b = b
        <5>1. <<>> \in Seq(T)
          OBVIOUS
        <5> QED
          BY <5>1, ConcatEmptySeq
      <4> QED
        BY <3>4, <3>10, <4>2, <4>3, <4>4, StrReplaceGlues
    <3>11. CASE v # <<>> /\ p # <<>>
      <4>1. Explode(s, c) = <<p>> \o v
        BY <3>6, <3>11 DEF Piece
      <4>2. FlattenSeq(Glue(<<p>> \o v, r)) = (p \o r) \o FlattenSeq(Glue(v, r))
        <5>1. PICK z : z = <<p>> \o v
          OBVIOUS
        <5>2. Parts(FlattenSeq(Glue(z, r)), p, r, FlattenSeq(Glue(v, r)))
          BY <3>11, <5>1, GlueMore
        <5> QED
          BY <5>1, <5>2 DEF Parts
      <4>3. FlattenSeq(Glue(Explode(s, c), r)) = (p \o r) \o b
        BY <3>7, <4>1, <4>2
      <4>4. h = r
        BY <3>2, <3>8, <3>11
      <4> QED
        BY <3>4, <4>3, <4>4, StrReplaceGlues
    <3> QED
      BY <3>9, <3>10, <3>11
  <2> QED
    BY <2>1, <2>2
<1>2. Seq(T) \subseteq P
  <2> HIDE DEF P
  <2> QED
    BY <1>1, ByLength
<1> QED
  BY <1>2

\* Of a string of any length, with any characters, str_replace (as url_decode
\* and html_escape use it) changes nothing but the needles, and replaces all of
\* them where none is at an end or doubled.
THEOREM OnlyNeedlesReplaced ==
  ASSUME text \in Seq(Char)
  PROVE  NothingElseReplaced
<1> SUFFICES ASSUME NEW c \in Char
             PROVE  /\ StrReplace(c, <<>>, text) = Replaced(text, c, <<>>)
                    /\ Lost(text, c) = {} =>
                         StrReplace(c, <<"%", "20">>, text) = Replaced(text, c, <<"%", "20">>)
  BY DEF NothingElseReplaced
<1>1. PICK T : T = Char \cup {"%", "20"}
  OBVIOUS
<1>2. text \in Seq(T)
  <2>1. Char \subseteq T
    BY <1>1
  <2> QED
    BY <2>1, SeqMonotonic
<1>3. PICK r : r = <<"%", "20">>
  OBVIOUS
<1>4. r \in Seq(T) /\ <<>> \in Seq(T) /\ c \in T
  BY <1>1, <1>3
<1>5. StrReplace(c, <<>>, text) = Replaced(text, c, <<>>)
  <2>1. Exchanged(text, c, <<>>) = [i \in DOMAIN text |-> IF text[i] = c THEN <<>> ELSE <<text[i]>>]
    BY DEF Exchanged, Lost
  <2>2. StrReplace(c, <<>>, text) = FlattenSeq(Exchanged(text, c, <<>>))
    BY <1>2, <1>4, StrReplaceIs
  <2> QED
    BY <2>1, <2>2 DEF Replaced
<1>6. ASSUME Lost(text, c) = {}
      PROVE  StrReplace(c, r, text) = Replaced(text, c, r)
  <2>1. Exchanged(text, c, r) = [i \in DOMAIN text |-> IF text[i] = c THEN r ELSE <<text[i]>>]
    BY <1>6 DEF Exchanged
  <2>2. StrReplace(c, r, text) = FlattenSeq(Exchanged(text, c, r))
    BY <1>2, <1>4, StrReplaceIs
  <2> QED
    BY <2>1, <2>2 DEF Replaced
<1> QED
  BY <1>3, <1>5, <1>6

--------------------------------------------------------------------------------
(* base_dir.                                                               *)

\* The trust root of a page is its directory, whatever is in its query.
THEOREM TrustRootIsDirectory ==
  ASSUME text \in Seq(Char)
  PROVE  TrustRootIgnoresQuery
<1>T. PICK T : T = Char \cup {"/"}
  OBVIOUS
<1>u. PICK url \in Seq(T) : url = <<"/">> \o text /\ Len(url) \in Nat \ {0} /\ url[1] = "/"
  <2>1. Char \subseteq T
    BY <1>T
  <2>2. text \in Seq(T)
    BY <2>1, SeqMonotonic
  <2>3. PICK o \in Seq(T) : o = <<"/">> /\ Len(o) = 1 /\ o[1] = "/"
    <3>1. PICK o : o = <<"/">>
      OBVIOUS
    <3>2. o \in Seq(T) /\ Len(o) = 1 /\ o[1] = "/"
      BY <1>T, <3>1
    <3> QED
      BY <3>1, <3>2
  <2>4. PICK w \in Seq(T) : w = o \o text /\ Joins(w, o, text)
    BY <2>2, Concat
  <2>5. Len(w) = 1 + Len(text) /\ Len(text) \in Nat /\ w[1] = "/"
    <3>1. 1 \in 1 .. Len(o)
      BY <2>3
    <3> QED
      BY <2>2, <2>3, <2>4, <3>1 DEF Joins
  <2>6. w = <<"/">> \o text
    BY <2>3, <2>4
  <2>7. Len(w) \in Nat \ {0}
    BY <2>5
  <2> QED
    BY <2>5, <2>6, <2>7
<1>n. PICK n \in Nat : n = Len(url) /\ n # 0
  BY <1>u
<1>q. PICK q \in Nat : /\ q = Find(url, "?", 1) /\ q \in 1 .. n + 1
                       /\ q <= n => url[q] = "?"
  <2>1. 1 \in 1 .. Len(url) + 1
    BY <1>n
  <2> QED
    BY <1>n, <2>1, FindStops
<1>1. "/" # "?"
  OBVIOUS
<1>2. q # 1
  BY <1>u, <1>n, <1>q, <1>1
<1>S. PICK S : S = {0} \cup {i \in DOMAIN url : url[i] = "/" /\ i <= q}
  OBVIOUS
<1>m. PICK m \in Nat : /\ m = Max(S) /\ 1 <= m /\ m <= q - 1 /\ m \in 1 .. n /\ url[m] = "/"
                       /\ \A i \in m + 1 .. q - 1 : url[i] # "/"
  <2>0. DOMAIN url = 1 .. n
    BY <1>n
  <2>1. S \subseteq 0 .. n /\ S # {}
    BY <1>S, <2>0
  <2>2. PICK m : m = Max(S)
    OBVIOUS
  <2>3. m \in S /\ \A i \in S : i <= m
    BY <2>1, <2>2, Greatest
  <2>4. 1 \in S
    BY <1>S, <2>0, <1>u, <1>n, <1>q
  <2>5. 1 <= m
    BY <2>3, <2>4
  <2>6. m \in 1 .. n /\ url[m] = "/" /\ m <= q
    BY <1>S, <2>0, <2>3, <2>5
  <2>7. m # q
    BY <1>q, <1>1, <2>6
  <2>8. ASSUME NEW i \in m + 1 .. q - 1
        PROVE  url[i] # "/"
    <3>1. i \in 1 .. n /\ i <= q /\ ~(i <= m)
      BY <1>q, <2>6
    <3> QED
      BY <1>S, <2>0, <2>3, <3>1
  <2> QED
    BY <1>q, <2>2, <2>5, <2>6, <2>7, <2>8
<1>p. PICK page \in Seq(T) : page = SubSeq(url, 1, q - 1) /\ IsPart(page, url, 1, q - 1)
  <2>1. 1 \in 1 .. Len(url) + 1 /\ q - 1 \in 1 - 1 .. Len(url)
    BY <1>n, <1>q
  <2> QED
    BY <2>1, Part
<1>r. PICK root \in Seq(T) : root = SubSeq(url, 1, m) /\ IsPart(root, url, 1, m)
  <2>1. 1 \in 1 .. Len(url) + 1 /\ m \in 1 - 1 .. Len(url)
    BY <1>n, <1>m
  <2> QED
    BY <2>1, Part
<1>3. Len(page) = q - 1 /\ \A i \in 1 .. q - 1 : page[i] = url[i]
  <2>1. (q - 1) - 1 + 1 = q - 1 /\ \A i \in 1 .. q - 1 : 1 + i - 1 = i
    BY <1>q
  <2> QED
    BY <1>p, <2>1 DEF IsPart
<1>4. Len(root) = m /\ \A i \in 1 .. m : root[i] = url[i]
  <2>1. m - 1 + 1 = m /\ \A i \in 1 .. m : 1 + i - 1 = i
    OBVIOUS
  <2> QED
    BY <1>r, <2>1 DEF IsPart
<1>5. BaseDir(url) = root
  BY <1>q, <1>S, <1>m, <1>r DEF BaseDir
<1>6. IsPrefix(root, page)
  <2>1. PICK x \in Seq(T) : x = SubSeq(page, 1, m) /\ IsPart(x, page, 1, m)
    <3>1. 1 \in 1 .. Len(page) + 1 /\ m \in 1 - 1 .. Len(page)
      BY <1>q, <1>m, <1>3
    <3> QED
      BY <3>1, Part
  <2>2. Len(x) = m /\ \A i \in 1 .. m : x[i] = page[i]
    <3>1. m - 1 + 1 = m /\ \A i \in 1 .. m : 1 + i - 1 = i
      OBVIOUS
    <3> QED
      BY <2>1, <3>1 DEF IsPart
  <2>3. \A i \in 1 .. m : i \in 1 .. q - 1
    BY <1>q, <1>m
  <2>4. \A i \in 1 .. m : x[i] = root[i]
    BY <1>3, <1>4, <2>2, <2>3
  <2>5. x = root
    BY <1>4, <2>2, <2>4, SeqEqual
  <2>6. SubSeq(root, 1, m) = root
    BY <1>4
  <2> QED
    BY <1>m, <1>3, <1>4, <2>1, <2>5, <2>6 DEF IsPrefix
<1>7. Last(root) = "/"
  <2>1. m \in 1 .. m
    BY <1>m
  <2> QED
    BY <1>m, <1>4, <2>1 DEF Last
<1>8. ~Contains(SubSeq(page, m + 1, q - 1), "/")
  <2>1. PICK x \in Seq(T) : x = SubSeq(page, m + 1, q - 1) /\ IsPart(x, page, m + 1, q - 1)
    <3>1. m + 1 \in 1 .. Len(page) + 1 /\ q - 1 \in (m + 1) - 1 .. Len(page)
      BY <1>q, <1>m, <1>3
    <3> QED
      BY <3>1, Part
  <2>2. ASSUME NEW i \in 1 .. Len(x)
        PROVE  x[i] # "/"
    <3>1. i \in 1 .. (q - 1) - (m + 1) + 1 /\ x[i] = page[(m + 1) + i - 1]
      BY <2>1 DEF IsPart
    <3>2. (m + 1) + i - 1 \in m + 1 .. q - 1 /\ (m + 1) + i - 1 \in 1 .. q - 1
      <4>1. (q - 1) - (m + 1) + 1 = q - 1 - m /\ (m + 1) + i - 1 = m + i
        <5>1. i \in Nat
          OBVIOUS
        <5> QED
          BY <5>1
      <4>2. i \in Nat /\ 1 <= i /\ i <= q - 1 - m
        BY <3>1, <4>1
      <4> QED
        BY <4>1, <4>2
    <3> QED
      BY <1>m, <1>3, <3>1, <3>2
  <2> QED
    BY <2>1, <2>2 DEF Contains
<1>9. /\ IsPrefix(root, page) /\ Last(root) = "/"
      /\ ~Contains(SubSeq(page, Len(root) + 1, Len(page)), "/")
  BY <1>3, <1>4, <1>6, <1>7, <1>8
<1> QED
  BY <1>9, <1>u, <1>q, <1>p, <1>5 DEF TrustRootIgnoresQuery

--------------------------------------------------------------------------------
(* get_session_id.                                                         *)

\* What explode finds left and right of a separator, whichever it is.
Follows(v, a, b) == v = a \o b

LEMMA FollowsFollows ==
  ASSUME NEW T, NEW q \in Seq(T), NEW a \in Seq(T), NEW b \in Seq(T),
         NEW v, NEW y, NEW u, Follows(v, q, y), Follows(y, a, b), Follows(u, q, a)
  PROVE  Follows(v, u, b)
<1>1. v = q \o (a \o b) /\ u = q \o a
  BY DEF Follows
<1>2. q \o (a \o b) = (q \o a) \o b
  BY ConcatAssociative
<1> QED
  BY <1>1, <1>2 DEF Follows

LEMMA FollowsBack ==
  ASSUME NEW T, NEW q \in Seq(T), NEW a \in Seq(T), NEW b \in Seq(T),
         NEW v, NEW y, NEW u, Follows(u, q, a), Follows(v, u, b), Follows(y, a, b)
  PROVE  Follows(v, q, y)
<1>1. v = (q \o a) \o b /\ y = a \o b
  BY DEF Follows
<1>2. q \o (a \o b) = (q \o a) \o b
  BY ConcatAssociative
<1> QED
  BY <1>1, <1>2 DEF Follows

LEMMA PieceType ==
  ASSUME NEW T, NEW p \in Seq(T)
  PROVE  Piece(p) \in Seq(Seq(T))
BY DEF Piece

\* e is between u and t.
Between(s, u, e, t) == s = u \o <<e>> \o t

\* More behind a string that is split comes behind its second part.
LEMMA SplitLonger ==
  ASSUME NEW T, NEW u, NEW p \in Seq(T), NEW x \in Seq(T), NEW t \in Seq(T), NEW e \in T,
         IsSplit(u, p, e, x), NEW s, Between(s, u, e, t), NEW y, Between(y, x, e, t)
  PROVE  y \in Seq(T) /\ IsSplit(s, p, e, y)
<1>1. PICK o \in Seq(T) : o = <<e>>
  <2>1. <<e>> \in Seq(T)
    OBVIOUS
  <2> QED
    BY <2>1
<1>2. PICK d \in Seq(T) : d = p \o o
  BY ConcatProperties
<1>3. Follows(u, d, x)
  BY <1>1, <1>2 DEF IsSplit, Follows
<1>4. PICK z \in Seq(T) : z = x \o o
  BY ConcatProperties
<1>5. PICK r : r = u \o o
  OBVIOUS
<1>6. Follows(r, u, o) /\ Follows(z, x, o)
  BY <1>4, <1>5 DEF Follows
<1>7. Follows(r, d, z)
  BY <1>3, <1>6, FollowsBack
<1>8. Follows(s, r, t) /\ Follows(y, z, t)
  BY <1>1, <1>4, <1>5 DEF Follows, Between
<1>9. Follows(s, d, y)
  BY <1>7, <1>8, FollowsBack
<1>10. y \in Seq(T)
  BY <1>8, ConcatProperties DEF Follows
<1>11. s = p \o <<e>> \o y
  BY <1>1, <1>2, <1>9 DEF Follows
<1>12. \A i \in DOMAIN p : p[i] # e
  BY DEF IsSplit
<1> QED
  BY <1>10, <1>11, <1>12 DEF IsSplit

LEMMA BetweenType ==
  ASSUME NEW T, NEW u \in Seq(T), NEW e \in T, NEW t \in Seq(T), NEW s, Between(s, u, e, t)
  PROVE  s \in Seq(T)
<1>1. PICK d \in Seq(T) : d = u \o <<e>>
  BY Added
<1> QED
  BY <1>1, ConcatProperties DEF Between

LEMMA ExplodeBoth ==
  ASSUME NEW T, NEW w \in Seq(T), NEW t \in Seq(T), NEW e \in T, NEW z, Between(z, w, e, t)
  PROVE  Follows(Explode(z, e), Explode(w, e), Explode(t, e))
<1> DEFINE Both(u) == \A s : Between(s, u, e, t) =>
                               Follows(Explode(s, e), Explode(u, e), Explode(t, e))
           P == {u \in Seq(T) : Both(u)}
<1>1. ASSUME NEW u \in Seq(T), \A x \in Seq(T) : Len(x) < Len(u) => x \in P
      PROVE  u \in P
  <2>1. SUFFICES ASSUME NEW s, Between(s, u, e, t)
                 PROVE  Follows(Explode(s, e), Explode(u, e), Explode(t, e))
    OBVIOUS
  <2>2. CASE \A i \in DOMAIN u : u[i] # e
    <3>1. IsSplit(s, u, e, t)
      BY <2>1, <2>2 DEF IsSplit, Between
    <3>2. Explode(s, e) = WithPiece(u, Explode(t, e))
      BY <3>1, ExplodeSplit
    <3>3. Explode(u, e) = Piece(u)
      BY <2>2, ExplodeNone
    <3> QED
      BY <3>2, <3>3 DEF Follows, WithPiece
  <2>3. CASE \E i \in DOMAIN u : u[i] = e
    <3>1. PICK p \in Seq(T), x \in Seq(T) : IsSplit(u, p, e, x) /\ Len(x) < Len(u)
      BY <2>3, Split
    <3>2. PICK y : y = x \o <<e>> \o t
      OBVIOUS
    <3>3. Between(y, x, e, t)
      BY <3>2 DEF Between
    <3>4. y \in Seq(T) /\ IsSplit(s, p, e, y)
      BY <2>1, <3>1, <3>3, SplitLonger
    <3>5. Follows(Explode(s, e), Piece(p), Explode(y, e))
      <4>1. Explode(s, e) = WithPiece(p, Explode(y, e))
        BY <3>4, ExplodeSplit
      <4> QED
        BY <4>1 DEF WithPiece, Follows
    <3>6. Follows(Explode(u, e), Piece(p), Explode(x, e))
      <4>1. Explode(u, e) = WithPiece(p, Explode(x, e))
        BY <3>1, ExplodeSplit
      <4> QED
        BY <4>1 DEF WithPiece, Follows
    <3>7. Follows(Explode(y, e), Explode(x, e), Explode(t, e))
      BY <1>1, <3>1, <3>3
    <3>8. Explode(x, e) \in Seq(Seq(T)) /\ Explode(t, e) \in Seq(Seq(T))
      BY PiecesType
    <3>9. Piece(p) \in Seq(Seq(T))
      BY PieceType
    <3> QED
      BY <3>5, <3>6, <3>7, <3>8, <3>9, FollowsFollows
  <2> QED
    BY <2>2, <2>3
<1>2. Seq(T) \subseteq P
  <2> HIDE DEF P
  <2> QED
    BY <1>1, ByLength
<1>3. Both(w)
  BY <1>2
<1> QED
  BY <1>3

\* q is in s behind the first h characters.
IsAt(q, s, h) == h + Len(q) <= Len(s) /\ \A i \in 1 .. Len(q) : s[h + i] = q[i]

\* A piece is found in the string, at its start or behind a separator.
Starts(q, s, e) == \E h \in 0 .. Len(s) : (h = 0 \/ s[h] = e) /\ IsAt(q, s, h)

LEMMA PieceStarts ==
  ASSUME NEW T, NEW w \in Seq(T), NEW e
  PROVE  \A j \in 1 .. Len(Explode(w, e)) : Starts(Explode(w, e)[j], w, e)
<1> DEFINE P == {s \in Seq(T) : \A j \in 1 .. Len(Explode(s, e)) : Starts(Explode(s, e)[j], s, e)}
<1>1. ASSUME NEW s \in Seq(T), \A x \in Seq(T) : Len(x) < Len(s) => x \in P
      PROVE  s \in P
  <2>1. SUFFICES ASSUME NEW j \in 1 .. Len(Explode(s, e))
                 PROVE  Starts(Explode(s, e)[j], s, e)
    OBVIOUS
  <2>2. CASE \A i \in DOMAIN s : s[i] # e
    <3>1. Explode(s, e) = Piece(s)
      BY <2>2, ExplodeNone
    <3>2. s # <<>> => Len(<<s>>) = 1 /\ <<s>>[1] = s
      OBVIOUS
    <3>3. Len(<<>>) = 0
      OBVIOUS
    <3>4. Explode(s, e)[j] = s
      BY <3>1, <3>2, <3>3 DEF Piece
    <3>5. IsAt(s, s, 0)
      BY DEF IsAt
    <3>6. 0 \in 0 .. Len(s)
      OBVIOUS
    <3> QED
      BY <3>4, <3>5, <3>6 DEF Starts
  <2>3. CASE \E i \in DOMAIN s : s[i] = e
    <3>e. e \in T
      BY <2>3, Split
    <3>1. PICK p \in Seq(T), t \in Seq(T) : IsSplit(s, p, e, t) /\ Len(t) < Len(s)
      BY <2>3, Split
    <3>k. PICK k \in Nat : k = Len(p) + 1
      OBVIOUS
    <3>n. PICK n \in Nat : n = Len(t)
      OBVIOUS
    <3>2. /\ Len(s) = k + n
          /\ \A i \in 1 .. Len(p) : s[i] = p[i]
          /\ s[k] = e
          /\ \A i \in 1 .. n : s[k + i] = t[i]
      <4>1. Consists(s, p, e, t)
        BY <3>e, <3>1, SplitAt
      <4> QED
        BY <3>k, <3>n, <4>1 DEF Consists
    <3>3. PICK v \in Seq(Seq(T)) : v = Explode(t, e)
      BY PiecesType
    <3>4. PICK q \in Seq(Seq(T)) : q = Piece(p)
      BY PieceType
    <3>5. PICK x \in Seq(Seq(T)) : x = q \o v /\ Joins(x, q, v)
      BY Concat
    <3>6. Explode(s, e) = x
      <4>1. Explode(s, e) = WithPiece(p, Explode(t, e))
        BY <3>e, <3>1, ExplodeSplit
      <4> QED
        BY <3>3, <3>4, <3>5, <4>1 DEF WithPiece
    <3>7. CASE j <= Len(q)
      <4>1. j \in 1 .. Len(q) /\ x[j] = q[j]
        BY <3>5, <3>7 DEF Joins
      <4>2. p # <<>> => Len(<<p>>) = 1 /\ <<p>>[1] = p
        OBVIOUS
      <4>3. Len(<<>>) = 0
        OBVIOUS
      <4>4. q[j] = p
        BY <3>4, <4>1, <4>2, <4>3 DEF Piece
      <4>5. IsAt(p, s, 0)
        BY <3>2, <3>k DEF IsAt
      <4>6. 0 \in 0 .. Len(s)
        BY <3>2
      <4> QED
        BY <3>6, <4>1, <4>4, <4>5, <4>6 DEF Starts
    <3>8. CASE j > Len(q)
      <4>1. PICK i \in 1 .. Len(v) : j = Len(q) + i
        <5>1. Len(x) = Len(q) + Len(v) /\ j \in 1 .. Len(x)
          BY <2>1, <3>5, <3>6 DEF Joins
        <5>2. j - Len(q) \in 1 .. Len(v) /\ j = Len(q) + (j - Len(q))
          BY <3>8, <5>1
        <5> QED
          BY <5>2
      <4>2. x[j] = v[i]
        BY <3>5, <4>1 DEF Joins
      <4>3. PICK y : y = v[i]
        OBVIOUS
      <4>4. Starts(y, t, e)
        <5>1. t \in P
          BY <1>1, <3>1
        <5>2. \A m \in 1 .. Len(Explode(t, e)) : Starts(Explode(t, e)[m], t, e)
          BY <5>1
        <5> QED
          BY <3>3, <4>1, <4>3, <5>2
      <4>5. PICK h \in 0 .. n : (h = 0 \/ t[h] = e) /\ IsAt(y, t, h)
        BY <3>n, <4>4 DEF Starts
      <4>l. Len(y) \in Nat
        BY <3>3, <4>3
      <4>6. PICK g \in Nat : g = k + h
        OBVIOUS
      <4>7. g \in 0 .. Len(s)
        BY <3>2, <4>6
      <4>8. s[g] = e
        <5>1. CASE h = 0
          BY <3>2, <4>6, <5>1
        <5>2. CASE h # 0
          <6>1. h \in 1 .. n
            BY <5>2
          <6> QED
            BY <3>2, <4>5, <4>6, <5>2, <6>1
        <5> QED
          BY <5>1, <5>2
      <4>9. IsAt(y, s, g)
        <5>1. g + Len(y) <= Len(s)
          BY <3>2, <3>n, <4>5, <4>6, <4>l DEF IsAt
        <5>2. ASSUME NEW m \in 1 .. Len(y)
              PROVE  s[g + m] = y[m]
          <6>1. m \in Nat /\ h + m \in 1 .. n
            <7>1. h + Len(y) <= n
              BY <3>n, <4>5 DEF IsAt
            <7> QED
              BY <4>l, <7>1
          <6>2. g + m = k + (h + m)
            BY <4>6, <6>1
          <6>3. t[h + m] = y[m]
            BY <4>5 DEF IsAt
          <6> QED
            BY <3>2, <6>1, <6>2, <6>3
        <5> QED
          BY <5>1, <5>2 DEF IsAt
      <4>10. Starts(y, s, e)
        BY <4>7, <4>8, <4>9 DEF Starts
      <4> QED
        BY <3>6, <4>2, <4>3, <4>10
    <3> QED
      BY <3>7, <3>8
  <2> QED
    BY <2>2, <2>3
<1>2. Seq(T) \subseteq P
  <2> HIDE DEF P
  <2> QED
    BY <1>1, ByLength
<1> QED
  BY <1>2

\* The first of several pieces: only separators are before it, and one behind it.
Leads(f, s, e) ==
  \E h \in 0 .. Len(s) :
    /\ \A i \in 1 .. h : s[i] = e
    /\ IsAt(f, s, h) /\ h + Len(f) < Len(s) /\ s[h + Len(f) + 1] = e

LEMMA FirstPiece ==
  ASSUME NEW T, NEW w \in Seq(T), NEW e, Len(Explode(w, e)) > 1
  PROVE  Leads(Explode(w, e)[1], w, e)
<1> DEFINE P == {s \in Seq(T) : Len(Explode(s, e)) > 1 => Leads(Explode(s, e)[1], s, e)}
<1>1. ASSUME NEW s \in Seq(T), \A x \in Seq(T) : Len(x) < Len(s) => x \in P
      PROVE  s \in P
  <2>1. SUFFICES ASSUME Len(Explode(s, e)) > 1
                 PROVE  Leads(Explode(s, e)[1], s, e)
    OBVIOUS
  <2>2. CASE \A i \in DOMAIN s : s[i] # e
    <3>1. Explode(s, e) = Piece(s)
      BY <2>2, ExplodeNone
    <3>2. Len(<<s>>) = 1 /\ Len(<<>>) = 0
      OBVIOUS
    <3> QED
      BY <2>1, <3>1, <3>2 DEF Piece
  <2>3. CASE \E i \in DOMAIN s : s[i] = e
    <3>e. e \in T
      BY <2>3, Split
    <3>1. PICK p \in Seq(T), t \in Seq(T) : IsSplit(s, p, e, t) /\ Len(t) < Len(s)
      BY <2>3, Split
    <3>n. PICK n \in Nat : n = Len(t)
      OBVIOUS
    <3>2. /\ Len(s) = Len(p) + 1 + n
          /\ \A i \in 1 .. Len(p) : s[i] = p[i]
          /\ s[Len(p) + 1] = e
          /\ \A i \in 1 .. n : s[Len(p) + 1 + i] = t[i]
      <4>1. Consists(s, p, e, t)
        BY <3>e, <3>1, SplitAt
      <4> QED
        BY <3>n, <4>1 DEF Consists
    <3>3. PICK v \in Seq(Seq(T)) : v = Explode(t, e)
      BY PiecesType
    <3>4. Explode(s, e) = Piece(p) \o v
      <4>1. Explode(s, e) = WithPiece(p, Explode(t, e))
        BY <3>e, <3>1, ExplodeSplit
      <4> QED
        BY <3>3, <4>1 DEF WithPiece
    <3>5. CASE p # <<>>
      <4>1. PICK o \in Seq(Seq(T)) : o = <<p>> /\ Len(o) = 1 /\ o[1] = p
        <5>1. <<p>> \in Seq(Seq(T)) /\ Len(<<p>>) = 1 /\ <<p>>[1] = p
          OBVIOUS
        <5> QED
          BY <5>1
      <4>2. PICK x \in Seq(Seq(T)) : x = o \o v /\ Joins(x, o, v)
        BY Concat
      <4>3. x[1] = p
        <5>1. 1 \in 1 .. Len(o)
          BY <4>1
        <5> QED
          BY <4>1, <4>2, <5>1 DEF Joins
      <4>4. Explode(s, e) = x
        BY <3>4, <3>5, <4>1, <4>2 DEF Piece
      <4>5. IsAt(p, s, 0)
        BY <3>2 DEF IsAt
      <4>6. 0 \in 0 .. Len(s) /\ 0 + Len(p) < Len(s) /\ 0 + Len(p) + 1 = Len(p) + 1
        BY <3>2
      <4>7. Leads(p, s, e)
        BY <3>2, <4>5, <4>6 DEF Leads
      <4> QED
        BY <4>3, <4>4, <4>7
    <3>6. CASE p = <<>>
      <4>1. Explode(s, e) = v
        BY <3>4, <3>6, ConcatEmptySeq DEF Piece
      <4>2. Leads(v[1], t, e)
        BY <1>1, <2>1, <3>1, <3>3, <4>1
      <4>3. PICK f : f = v[1]
        OBVIOUS
      <4>l. Len(f) \in Nat
        <5>1. 1 \in 1 .. Len(v)
          BY <2>1, <4>1
        <5>2. v[1] \in Seq(T)
          BY <5>1
        <5> QED
          BY <4>3, <5>2
      <4>4. PICK h \in 0 .. n :
              /\ \A i \in 1 .. h : t[i] = e
              /\ IsAt(f, t, h) /\ h + Len(f) < n /\ t[h + Len(f) + 1] = e
        BY <3>n, <4>2, <4>3 DEF Leads
      <4>5. Len(s) = 1 + n /\ s[1] = e /\ \A i \in 1 .. n : s[1 + i] = t[i]
        <5>1. Len(p) = 0
          BY <3>6
        <5>2. Len(p) + 1 = 1
          BY <5>1
        <5> QED
          BY <3>2, <5>2
      <4>6. PICK g \in Nat : g = 1 + h
        OBVIOUS
      <4>7. \A i \in 1 .. g : s[i] = e
        <5>1. ASSUME NEW i \in 1 .. g PROVE s[i] = e
          <6>1. CASE i = 1
            BY <4>5, <6>1
          <6>2. CASE i # 1
            <7>1. i - 1 \in 1 .. h /\ i - 1 \in 1 .. n /\ 1 + (i - 1) = i
              BY <4>6, <6>2
            <7> QED
              BY <4>4, <4>5, <7>1
          <6> QED
            BY <6>1, <6>2
        <5> QED
          BY <5>1
      <4>8. IsAt(f, s, g)
        <5>1. g + Len(f) <= Len(s)
          BY <4>4, <4>5, <4>6, <4>l
        <5>2. ASSUME NEW m \in 1 .. Len(f)
              PROVE  s[g + m] = f[m]
          <6>1. m \in Nat /\ h + m \in 1 .. n
            BY <4>4, <4>l
          <6>2. g + m = 1 + (h + m)
            BY <4>6, <6>1
          <6>3. t[h + m] = f[m]
            BY <4>4 DEF IsAt
          <6> QED
            BY <4>5, <6>1, <6>2, <6>3
        <5> QED
          BY <5>1, <5>2 DEF IsAt
      <4>9. g \in 0 .. Len(s) /\ g + Len(f) < Len(s)
        BY <4>4, <4>5, <4>6, <4>l
      <4>10. s[g + Len(f) + 1] = e
        <5>1. h + Len(f) + 1 \in 1 .. n /\ g + Len(f) + 1 = 1 + (h + Len(f) + 1)
          BY <4>4, <4>6, <4>l
        <5> QED
          BY <4>4, <4>5, <5>1
      <4>11. Leads(f, s, e)
        BY <4>7, <4>8, <4>9, <4>10 DEF Leads
      <4> QED
        BY <4>1, <4>3, <4>11
    <3> QED
      BY <3>5, <3>6
  <2> QED
    BY <2>2, <2>3
<1>2. Seq(T) \subseteq P
  <2> HIDE DEF P
  <2> QED
    BY <1>1, ByLength
<1> QED
  BY <1>2

\* The same with any characters for ";" and " ".
StripOf(s, sp) ==
  LET kept == {i \in DOMAIN s : s[i] # sp}
  IN IF kept = {} THEN <<>> ELSE SubSeq(s, Min(kept), Max(kept))

Names(p, name, sp) == Len(Explode(p, "=")) = 2 /\ StripOf(Explode(p, "=")[1], sp) = name

FirstPair(v, name, sp) == SelectInSeq(v, LAMBDA p : Names(p, name, sp))

ValueOf(s, name, sep, sp) ==
  LET v == Explode(s, sep) IN
  IF FirstPair(v, name, sp) = 0 THEN <<>> ELSE Explode(v[FirstPair(v, name, sp)], "=")[2]

CookieIn(s, name, sep, sp) ==
  \E i, k \in DOMAIN s :
    /\ i < k /\ s[i] = name /\ s[k] = "=" /\ \A j \in i + 1 .. k - 1 : s[j] = sp
    /\ \E h \in 0 .. i - 1 :
         (h = 0 \/ s[h] = sep) /\ \A j \in h + 1 .. i - 1 : s[j] \in {sp, "="}

\* get_session_id returns the value of the first such pair.
LEMMA FirstNamed ==
  ASSUME NEW v, NEW name, NEW sp, NEW k \in Nat \ {0}, k <= Len(v), Len(v) \in Nat,
         Names(v[k], name, sp), \A j \in 1 .. k - 1 : ~Names(v[j], name, sp)
  PROVE  FirstPair(v, name, sp) = k
<1>I. PICK I : I = {i \in 1 .. Len(v) : Names(v[i], name, sp)}
  OBVIOUS
<1>1. k \in I
  BY <1>I
<1>2. PICK m : m = Min(I)
  OBVIOUS
<1>3. m \in I /\ \A i \in I : m <= i
  <2>1. I \subseteq Nat /\ I # {}
    BY <1>I, <1>1
  <2> QED
    BY <1>2, <2>1, Least
<1>4. m = k
  <2>1. m \in 1 .. Len(v) /\ Names(v[m], name, sp) /\ m <= k
    BY <1>I, <1>1, <1>3
  <2>2. ~(m \in 1 .. k - 1)
    BY <2>1
  <2> QED
    BY <2>1, <2>2
<1> QED
  BY <1>I, <1>1, <1>2, <1>4 DEF FirstPair, SelectInSeq

\* What is left of a string of which one character stays.
OneStays(f, x, sp) ==
  \E a \in 1 .. Len(f) : f[a] = x /\ \A i \in 1 .. Len(f) : i # a => f[i] = sp

LEMMA StripsTo ==
  ASSUME NEW T, NEW f \in Seq(T), NEW x, NEW sp, StripOf(f, sp) = <<x>>
  PROVE  OneStays(f, x, sp)
<1>K. PICK K : K = {i \in DOMAIN f : f[i] # sp}
  OBVIOUS
<1>n. PICK n \in Nat : n = Len(f)
  OBVIOUS
<1>1. K # {}
  <2>1. K = {} => StripOf(f, sp) = <<>>
    BY <1>K DEF StripOf
  <2>2. <<x>> # <<>>
    OBVIOUS
  <2> QED
    BY <2>1, <2>2
<1>2. K \subseteq 1 .. n
  BY <1>K, <1>n
<1>3. PICK a : a = Min(K)
  OBVIOUS
<1>4. a \in K /\ \A i \in K : a <= i
  <2>1. K \subseteq Nat
    BY <1>2
  <2> QED
    BY <1>1, <1>3, <2>1, Least
<1>5. PICK b : b = Max(K)
  OBVIOUS
<1>6. b \in K /\ \A i \in K : i <= b
  <2>1. K \subseteq 0 .. n
    BY <1>2
  <2> QED
    BY <1>1, <1>5, <2>1, Greatest
<1>7. a \in 1 .. n /\ b \in 1 .. n /\ a <= b
  BY <1>2, <1>4, <1>6
<1>8. PICK y \in Seq(T) : y = SubSeq(f, a, b) /\ IsPart(y, f, a, b)
  <2>1. a \in 1 .. Len(f) + 1 /\ b \in a - 1 .. Len(f)
    BY <1>7, <1>n
  <2> QED
    BY <2>1, Part
<1>9. y = <<x>>
  BY <1>K, <1>1, <1>3, <1>5, <1>8 DEF StripOf
<1>10. Len(y) = 1 /\ y[1] = x
  <2>1. Len(<<x>>) = 1 /\ <<x>>[1] = x
    OBVIOUS
  <2> QED
    BY <1>9, <2>1
<1>11. b - a + 1 = 1
  BY <1>8, <1>10 DEF IsPart
<1>12. a = b /\ 1 \in 1 .. b - a + 1 /\ a + 1 - 1 = a
  BY <1>7, <1>11
<1>13. f[a] = x
  BY <1>8, <1>10, <1>12 DEF IsPart
<1>14. ASSUME NEW i \in 1 .. Len(f), i # a
       PROVE  f[i] = sp
  <2>1. i \notin K
    BY <1>4, <1>6, <1>7, <1>12, <1>14
  <2> QED
    BY <1>K, <2>1
<1> QED
  BY <1>7, <1>13, <1>14, <1>n DEF OneStays

\* A pair of that name is a cookie of that name in the string.
LEMMA NamedIsCookie ==
  ASSUME NEW T, NEW s \in Seq(T), NEW x, NEW sep, NEW sp, NEW j \in 1 .. Len(Explode(s, sep)),
         Names(Explode(s, sep)[j], <<x>>, sp)
  PROVE  CookieIn(s, x, sep, sp)
<1>n. PICK n \in Nat : n = Len(s)
  OBVIOUS
<1>p. PICK p \in Seq(T) : p = Explode(s, sep)[j]
  <2>1. PICK v \in Seq(Seq(T)) : v = Explode(s, sep)
    BY PiecesType
  <2>2. v[j] \in Seq(T)
    BY <2>1
  <2> QED
    BY <2>1, <2>2
<1>m. PICK m \in Nat : m = Len(p)
  OBVIOUS
<1>1. PICK h \in 0 .. n : (h = 0 \/ s[h] = sep) /\ IsAt(p, s, h)
  <2>1. Starts(p, s, sep)
    BY <1>p, PieceStarts
  <2> QED
    BY <1>n, <2>1 DEF Starts
<1>2. Len(Explode(p, "=")) = 2 /\ StripOf(Explode(p, "=")[1], sp) = <<x>>
  BY <1>p DEF Names
<1>f. PICK f \in Seq(T) : f = Explode(p, "=")[1]
  <2>1. PICK v \in Seq(Seq(T)) : v = Explode(p, "=")
    BY PiecesType
  <2>2. v[1] \in Seq(T)
    BY <1>2, <2>1
  <2> QED
    BY <2>1, <2>2
<1>l. PICK l \in Nat : l = Len(f)
  OBVIOUS
<1>3. PICK g \in 0 .. m :
        /\ \A i \in 1 .. g : p[i] = "="
        /\ IsAt(f, p, g) /\ g + l < m /\ p[g + l + 1] = "="
  <2>1. Len(Explode(p, "=")) > 1
    <3>1. Len(Explode(p, "=")) = 2
      BY <1>2
    <3>2. \A y : y = 2 => y > 1
      OBVIOUS
    <3> QED
      BY <3>1, <3>2, Zenon
  <2>2. Leads(f, p, "=")
    BY <1>f, <2>1, FirstPiece
  <2> QED
    BY <1>m, <1>l, <2>2 DEF Leads
<1>4. PICK a \in 1 .. l : f[a] = x /\ \A i \in 1 .. l : i # a => f[i] = sp
  <2>1. OneStays(f, x, sp)
    BY <1>2, <1>f, StripsTo
  <2> QED
    BY <1>l, <2>1 DEF OneStays
<1>5. h + m <= n /\ \A i \in 1 .. m : s[h + i] = p[i]
  BY <1>1, <1>m, <1>n DEF IsAt
<1>6. \A i \in 1 .. l : p[g + i] = f[i]
  BY <1>3, <1>l DEF IsAt
<1>h. h \in Nat /\ g \in Nat /\ a \in Nat
  OBVIOUS
<1>7. ASSUME NEW i \in 1 .. l
      PROVE  s[h + (g + i)] = f[i]
  <2>1. i \in Nat /\ i <= l /\ i >= 1
    OBVIOUS
  <2>2. g + i \in 1 .. m
    BY <1>3, <1>h, <2>1
  <2> QED
    BY <1>5, <1>6, <2>2
<1>i. PICK i \in Nat : i = h + (g + a)
  BY <1>h
<1>k. PICK k \in Nat : k = h + (g + l + 1)
  BY <1>h
<1>8. i \in 1 .. n /\ k \in 1 .. n /\ i < k
  BY <1>3, <1>4, <1>5, <1>h, <1>i, <1>k
<1>9. s[i] = x
  BY <1>4, <1>7, <1>i
<1>10. s[k] = "="
  <2>1. g + l + 1 \in 1 .. m
    BY <1>3, <1>h
  <2> QED
    BY <1>3, <1>5, <1>k, <2>1
<1>11. ASSUME NEW z \in i + 1 .. k - 1
       PROVE  s[z] = sp
  <2>z. z \in Nat /\ z >= i + 1 /\ z <= k - 1
    BY <1>8
  <2>y. PICK y \in Nat : z = h + (g + y)
    <3>1. z - h - g \in Nat /\ z = h + (g + (z - h - g))
      BY <1>h, <1>i, <2>z
    <3> QED
      BY <3>1
  <2>1. y \in 1 .. l /\ y # a
    BY <1>h, <1>i, <1>k, <2>z, <2>y
  <2> QED
    BY <1>4, <1>7, <2>y, <2>1
<1>12. ASSUME NEW z \in h + 1 .. i - 1
       PROVE  s[z] \in {sp, "="}
  <2>z. z \in Nat /\ z >= h + 1 /\ z <= i - 1
    BY <1>8, <1>h
  <2>y. PICK y \in Nat : z = h + y
    <3>1. z - h \in Nat /\ z = h + (z - h)
      BY <1>h, <2>z
    <3> QED
      BY <3>1
  <2>1. y >= 1 /\ y < g + a
    BY <1>h, <1>i, <2>z, <2>y
  <2>2. CASE y <= g
    <3>1. y \in 1 .. g /\ y \in 1 .. m
      BY <1>3, <1>h, <2>1, <2>2
    <3> QED
      BY <1>3, <1>5, <2>y, <3>1
  <2>3. CASE y > g
    <3>1. PICK b \in Nat : y = g + b
      <4>1. y - g \in Nat /\ y = g + (y - g)
        BY <1>h, <2>3
      <4> QED
        BY <4>1
    <3>2. b \in 1 .. l /\ b # a
      BY <1>h, <2>1, <2>3, <3>1
    <3>3. s[h + (g + b)] = sp
      BY <1>4, <1>7, <3>2
    <3> QED
      BY <2>y, <3>1, <3>3
  <2> QED
    BY <1>h, <2>2, <2>3
<1>13. DOMAIN s = 1 .. n /\ h \in 0 .. i - 1
  BY <1>n, <1>h, <1>i, <1>4
<1>14. \E b \in 0 .. i - 1 : (b = 0 \/ s[b] = sep) /\ \A z \in b + 1 .. i - 1 : s[z] \in {sp, "="}
  BY <1>1, <1>12, <1>13
<1> QED
  BY <1>8, <1>9, <1>10, <1>11, <1>13, <1>14 DEF CookieIn

\* The converse: one character stays.
LEMMA StripOne ==
  ASSUME NEW T, NEW f \in Seq(T), NEW x, NEW sp, x # sp, OneStays(f, x, sp)
  PROVE  StripOf(f, sp) = <<x>>
<1>n. PICK n \in Nat : n = Len(f)
  OBVIOUS
<1>a. PICK a \in 1 .. n : f[a] = x /\ \A i \in 1 .. n : i # a => f[i] = sp
  BY <1>n DEF OneStays
<1>K. PICK K : K = {i \in DOMAIN f : f[i] # sp}
  OBVIOUS
<1>1. DOMAIN f = 1 .. n
  BY <1>n
<1>2. \A i : i \in K <=> i = a
  BY <1>a, <1>K, <1>1
<1>3. PICK b : b = Min(K)
  OBVIOUS
<1>4. PICK c : c = Max(K)
  OBVIOUS
<1>5. K \subseteq Nat /\ K \subseteq 0 .. n /\ K # {}
  BY <1>2
<1>6. b \in K
  BY <1>3, <1>5, Least
<1>7. c \in K
  BY <1>4, <1>5, Greatest
<1>8. StripOf(f, sp) = SubSeq(f, a, a)
  <2>1. StripOf(f, sp) = SubSeq(f, Min(K), Max(K))
    BY <1>5, <1>K DEF StripOf
  <2>2. b = a /\ c = a
    BY <1>2, <1>6, <1>7
  <2> QED
    BY <1>3, <1>4, <2>1, <2>2
<1>9. PICK y \in Seq(T) : y = SubSeq(f, a, a) /\ IsPart(y, f, a, a)
  <2>1. a \in 1 .. Len(f) + 1 /\ a \in a - 1 .. Len(f)
    BY <1>n
  <2> QED
    BY <2>1, Part
<1>10. Len(y) = 1 /\ y[1] = x
  <2>1. a - a + 1 = 1 /\ 1 \in 1 .. a - a + 1 /\ a + 1 - 1 = a
    OBVIOUS
  <2> QED
    BY <1>a, <1>9, <2>1 DEF IsPart
<1>11. y = <<x>>
  <2>1. x \in T /\ <<x>> \in Seq(T) /\ Len(<<x>>) = 1 /\ <<x>>[1] = x
    BY <1>a, <1>n
  <2>2. \A i \in 1 .. 1 : i = 1
    OBVIOUS
  <2> QED
    BY <1>10, <2>1, <2>2, SeqEqual
<1> QED
  BY <1>8, <1>9, <1>11

\* A name, "=" and a value.
PairIs(s, name, sp, t) == Names(s, name, sp) /\ Explode(s, "=")[2] = t

LEMMA PairNamed ==
  ASSUME NEW T, NEW p \in Seq(T), p # <<>>, NEW name, NEW sp, StripOf(p, sp) = name,
         "=" \in T, NEW t \in Seq(T), t # <<>>, \A i \in DOMAIN t : t[i] # "=",
         NEW s, IsSplit(s, p, "=", t)
  PROVE  PairIs(s, name, sp, t)
<1>e. PICK e \in T : e = "="
  OBVIOUS
<1>2. Explode(t, e) = <<t>>
  BY <1>e, ExplodeNone DEF Piece
<1>3. Explode(s, e) = WithPiece(p, Explode(t, e))
  BY <1>e, ExplodeSplit
<1>4. PICK q \in Seq(Seq(T)) : q = <<p>> /\ Len(q) = 1 /\ q[1] = p
  <2>1. <<p>> \in Seq(Seq(T)) /\ Len(<<p>>) = 1 /\ <<p>>[1] = p
    OBVIOUS
  <2> QED
    BY <2>1
<1>5. PICK w \in Seq(Seq(T)) : w = q \o <<t>> /\ Adds(w, q, t)
  BY Added
<1>6. Explode(s, "=") = w
  BY <1>e, <1>2, <1>3, <1>4, <1>5 DEF WithPiece, Piece
<1>7. Len(w) = 2 /\ w[1] = p /\ w[2] = t
  <2>1. 1 \in 1 .. Len(q) /\ Len(q) + 1 = 2
    BY <1>4
  <2> QED
    BY <1>4, <1>5, <2>1 DEF Adds
<1> QED
  BY <1>6, <1>7 DEF Names, PairIs

LEMMA TwoIs == \A x, y : <<x>> \o <<y>> = <<x, y>>
<1> SUFFICES ASSUME NEW x, NEW y PROVE <<x>> \o <<y>> = <<x, y>>
  OBVIOUS
<1>1. PICK T : T = {x, y}
  OBVIOUS
<1>2. PICK o \in Seq(T) : o = <<x>> /\ Len(o) = 1 /\ o[1] = x
  <2>1. x \in T
    BY <1>1
  <2>2. <<x>> \in Seq(T) /\ Len(<<x>>) = 1 /\ <<x>>[1] = x
    BY <2>1
  <2> QED
    BY <2>2
<1>3. PICK u \in Seq(T) : u = o \o <<y>> /\ Adds(u, o, y)
  <2>1. y \in T
    BY <1>1
  <2> QED
    BY <2>1, Added
<1>4. Len(u) = 2 /\ u[1] = x /\ u[2] = y
  <2>1. 1 \in 1 .. Len(o) /\ Len(o) + 1 = 2
    BY <1>2
  <2> QED
    BY <1>2, <1>3, <2>1 DEF Adds
<1>5. PICK w \in Seq(T) : w = <<x, y>> /\ Len(w) = 2 /\ w[1] = x /\ w[2] = y
  <2>1. x \in T /\ y \in T
    BY <1>1
  <2>2. <<x, y>> \in Seq(T) /\ Len(<<x, y>>) = 2 /\ <<x, y>>[1] = x /\ <<x, y>>[2] = y
    BY <2>1
  <2> QED
    BY <2>2
<1>6. u = w
  <2>1. \A i \in 1 .. 2 : i = 1 \/ i = 2
    OBVIOUS
  <2> QED
    BY <1>4, <1>5, <2>1, SeqEqual
<1> QED
  BY <1>2, <1>3, <1>5, <1>6

\* ";" and " " between two strings.
Spread(s, a, sep, sp, b) == s = a \o <<sep, sp>> \o b
Behind(x, sp, b) == x = <<sp>> \o b

LEMMA TwoBetween ==
  ASSUME NEW T, NEW a \in Seq(T), NEW b \in Seq(T), NEW sep \in T, NEW sp \in T,
         NEW s, Spread(s, a, sep, sp, b), NEW x, Behind(x, sp, b)
  PROVE  Between(s, a, sep, x)
<1>1. PICK o \in Seq(T) : o = <<sep>>
  <2>1. <<sep>> \in Seq(T)
    OBVIOUS
  <2> QED
    BY <2>1
<1>2. PICK p \in Seq(T) : p = <<sp>>
  <2>1. <<sp>> \in Seq(T)
    OBVIOUS
  <2> QED
    BY <2>1
<1>3. PICK z \in Seq(T) : z = o \o p
  BY ConcatProperties
<1>4. z = <<sep, sp>>
  BY <1>1, <1>2, <1>3, TwoIs, Zenon
<1>5. PICK c \in Seq(T) : c = a \o o
  BY ConcatProperties
<1>6. PICK d : d = c \o p
  OBVIOUS
<1>7. d = a \o z
  <2>1. Follows(c, a, o) /\ Follows(d, c, p) /\ Follows(z, o, p)
    BY <1>3, <1>5, <1>6 DEF Follows
  <2>2. Follows(d, a, z)
    BY <2>1, FollowsBack
  <2> QED
    BY <2>2 DEF Follows
<1>8. s = d \o b
  BY <1>4, <1>7 DEF Spread
<1>9. s = c \o x
  <2>1. Follows(d, c, p) /\ Follows(s, d, b) /\ Follows(x, p, b)
    BY <1>2, <1>6, <1>8 DEF Follows, Behind
  <2>2. Follows(s, c, x)
    BY <2>1, FollowsBack
  <2> QED
    BY <2>2 DEF Follows
<1> QED
  BY <1>1, <1>5, <1>9 DEF Between

\* The module's own cookie with any characters for ";" and " ", before and after
\* other cookies.
Separators(T, sep, sp) ==
  /\ {"n", "=", "v"} \subseteq T
  /\ sep # sp /\ sep \notin {"n", "=", "v"} /\ sp \notin {"n", "="}

Own == <<"n", "=", "v">>

OwnFirst(sep, sp, other) ==
  ValueOf(Own \o <<sep, sp>> \o other, <<"n">>, sep, sp) = <<"v">>
OwnLast(sep, sp, other) ==
  ~CookieIn(other, "n", sep, sp) =>
    ValueOf(other \o <<sep, sp>> \o Own, <<"n">>, sep, sp) = <<"v">>

LEMMA OwnFound ==
  ASSUME NEW T, NEW sep \in T, NEW sp \in T, Separators(T, sep, sp), NEW other \in Seq(T)
  PROVE  OwnFirst(sep, sp, other) /\ OwnLast(sep, sp, other)
<1>c. "n" # "=" /\ "v" # "="
  OBVIOUS
<1>y. /\ "n" \in T /\ "=" \in T /\ "v" \in T
      /\ sep # sp /\ sep # "n" /\ sep # "=" /\ sep # "v" /\ sp # "n" /\ sp # "="
  BY DEF Separators
<1>v. PICK v \in Seq(T) : v = <<"v">> /\ v # <<>> /\ \A i \in DOMAIN v : v[i] # "="
  <2>1. PICK v : v = <<"v">>
    OBVIOUS
  <2>2. v \in Seq(T) /\ Len(v) = 1 /\ v[1] = "v" /\ v # <<>>
    BY <1>y, <2>1
  <2>3. \A i \in DOMAIN v : v[i] # "="
    BY <1>c, <2>2
  <2> QED
    BY <2>1, <2>2, <2>3
<1>o. PICK own \in Seq(T) : /\ own = Own /\ Len(own) = 3
                            /\ own[1] = "n" /\ own[2] = "=" /\ own[3] = "v"
  <2>1. PICK own : own = Own
    OBVIOUS
  <2>2. /\ own \in Seq(T) /\ Len(own) = 3
        /\ own[1] = "n" /\ own[2] = "=" /\ own[3] = "v"
    BY <1>y, <2>1 DEF Own
  <2> QED
    BY <2>1, <2>2
<1>1. PairIs(own, <<"n">>, sp, v)
  <2>1. PICK p \in Seq(T) : p = <<"n">> /\ Len(p) = 1 /\ p[1] = "n"
    <3>1. <<"n">> \in Seq(T) /\ Len(<<"n">>) = 1 /\ <<"n">>[1] = "n"
      BY <1>y
    <3> QED
      BY <3>1
  <2>2. OneStays(p, "n", sp)
    BY <2>1 DEF OneStays
  <2>3. StripOf(p, sp) = <<"n">>
    BY <1>y, <2>2, StripOne
  <2>4. own = p \o <<"=">> \o v
    BY <1>y, <1>o, <1>v, <2>1 DEF Own
  <2>5. \A i \in DOMAIN p : p[i] # "="
    BY <2>1, <1>c
  <2>6. IsSplit(own, p, "=", v)
    BY <2>4, <2>5 DEF IsSplit
  <2>7. p # <<>>
    BY <2>1
  <2> QED
    <3>1. "=" \in T /\ v # <<>> /\ \A i \in DOMAIN v : v[i] # "="
      BY <1>y, <1>v
    <3> QED
      BY <2>3, <2>6, <2>7, <3>1, PairNamed
<1>t. PICK t \in Seq(T) : /\ t = <<sp>> \o own /\ t = <<sp, "n", "=", "v">> /\ Len(t) = 4
                          /\ t[1] = sp /\ t[2] = "n" /\ t[3] = "=" /\ t[4] = "v"
  <2>1. PICK t : t = <<sp, "n", "=", "v">>
    OBVIOUS
  <2>2. /\ t \in Seq(T) /\ Len(t) = 4
        /\ t[1] = sp /\ t[2] = "n" /\ t[3] = "=" /\ t[4] = "v"
    BY <1>y, <2>1
  <2>3. t = <<sp>> \o own
    BY <1>y, <1>o, <2>1 DEF Own
  <2> QED
    BY <2>1, <2>2, <2>3
<1>2. PairIs(t, <<"n">>, sp, v)
  <2>1. PICK p \in Seq(T) : p = <<sp, "n">> /\ Len(p) = 2 /\ p[1] = sp /\ p[2] = "n"
    <3>1. <<sp, "n">> \in Seq(T) /\ Len(<<sp, "n">>) = 2
      BY <1>y
    <3>2. <<sp, "n">>[1] = sp /\ <<sp, "n">>[2] = "n"
      OBVIOUS
    <3> QED
      BY <3>1, <3>2
  <2>2. OneStays(p, "n", sp)
    BY <2>1 DEF OneStays
  <2>3. StripOf(p, sp) = <<"n">>
    BY <1>y, <2>2, StripOne
  <2>4. t = p \o <<"=">> \o v
    BY <1>y, <1>t, <1>v, <2>1
  <2>5. \A i \in DOMAIN p : p[i] # "="
    BY <1>y, <2>1, <1>c
  <2>6. IsSplit(t, p, "=", v)
    BY <2>4, <2>5 DEF IsSplit
  <2>7. p # <<>>
    BY <2>1
  <2> QED
    <3>1. "=" \in T /\ v # <<>> /\ \A i \in DOMAIN v : v[i] # "="
      BY <1>y, <1>v
    <3> QED
      BY <2>3, <2>6, <2>7, <3>1, PairNamed
<1>n. /\ Names(own, <<"n">>, sp) /\ Explode(own, "=")[2] = v
      /\ Names(t, <<"n">>, sp) /\ Explode(t, "=")[2] = v
  BY <1>1, <1>2 DEF PairIs
<1>3. OwnFirst(sep, sp, other)
  <2>s. PICK s : s = own \o <<sep, sp>> \o other
    OBVIOUS
  <2>x. PICK x \in Seq(T) : x = <<sp>> \o other
    <3>1. PICK o \in Seq(T) : o = <<sp>>
      <4>1. <<sp>> \in Seq(T)
        OBVIOUS
      <4> QED
        BY <4>1
    <3> QED
      BY <3>1, ConcatProperties
  <2>1. Between(s, own, sep, x)
    <3>1. Spread(s, own, sep, sp, other) /\ Behind(x, sp, other)
      BY <2>s, <2>x DEF Spread, Behind
    <3> QED
      BY <3>1, TwoBetween
  <2>2. \A i \in DOMAIN own : own[i] # sep
    BY <1>o, <1>y
  <2>3. IsSplit(s, own, sep, x)
    BY <2>1, <2>2 DEF Between, IsSplit
  <2>4. Explode(s, sep) = WithPiece(own, Explode(x, sep))
    BY <2>3, ExplodeSplit
  <2>5. PICK b \in Seq(Seq(T)) : b = Explode(x, sep)
    BY PiecesType
  <2>6. PICK q \in Seq(Seq(T)) : q = <<own>> /\ Len(q) = 1 /\ q[1] = own
    <3>1. <<own>> \in Seq(Seq(T)) /\ Len(<<own>>) = 1 /\ <<own>>[1] = own
      OBVIOUS
    <3> QED
      BY <3>1
  <2>7. PICK w \in Seq(Seq(T)) : w = q \o b /\ Joins(w, q, b)
    BY Concat
  <2>8. Explode(s, sep) = w
    <3>1. own # <<>>
      <4>1. Len(own) = 3
        BY <1>o
      <4>2. own = <<>> => Len(own) = 0
        OBVIOUS
      <4> QED
        BY <4>1, <4>2
    <3> QED
      BY <2>4, <2>5, <2>6, <2>7, <3>1 DEF WithPiece, Piece
  <2>9. w[1] = own /\ 1 <= Len(w) /\ Len(w) \in Nat
    <3>1. 1 \in 1 .. Len(q)
      BY <2>6
    <3> QED
      BY <2>6, <2>7, <3>1 DEF Joins
  <2>10. FirstPair(w, <<"n">>, sp) = 1
    <3>1. \A j \in 1 .. 1 - 1 : ~Names(w[j], <<"n">>, sp)
      OBVIOUS
    <3>2. 1 \in Nat \ {0}
      OBVIOUS
    <3> QED
      BY <1>n, <2>9, <3>1, <3>2, FirstNamed
  <2>11. ValueOf(s, <<"n">>, sep, sp) = v
    BY <1>n, <2>8, <2>9, <2>10 DEF ValueOf
  <2> QED
    BY <1>o, <1>v, <2>s, <2>11 DEF OwnFirst
<1>4. ASSUME ~CookieIn(other, "n", sep, sp)
      PROVE  ValueOf(other \o <<sep, sp>> \o Own, <<"n">>, sep, sp) = <<"v">>
  <2>s. PICK s : s = other \o <<sep, sp>> \o own
    OBVIOUS
  <2>1. Between(s, other, sep, t)
    <3>1. Spread(s, other, sep, sp, own) /\ Behind(t, sp, own)
      BY <2>s, <1>t DEF Spread, Behind
    <3> QED
      BY <3>1, TwoBetween
  <2>2. Follows(Explode(s, sep), Explode(other, sep), Explode(t, sep))
    BY <2>1, ExplodeBoth
  <2>3. Explode(t, sep) = <<t>>
    <3>1. \A i \in DOMAIN t : t[i] # sep
      BY <1>t, <1>y
    <3>2. t # <<>>
      BY <1>t
    <3> QED
      BY <3>1, <3>2, ExplodeNone DEF Piece
  <2>4. PICK b \in Seq(Seq(T)) : b = Explode(other, sep)
    BY PiecesType
  <2>5. PICK w \in Seq(Seq(T)) : w = b \o <<t>> /\ Adds(w, b, t)
    BY Added
  <2>6. Explode(s, sep) = w
    BY <2>2, <2>3, <2>4, <2>5 DEF Follows
  <2>k. PICK k \in Nat \ {0} : k = Len(b) + 1
    OBVIOUS
  <2>7. Len(w) = k /\ w[k] = t /\ \A j \in 1 .. k - 1 : w[j] = b[j]
    BY <2>5, <2>k DEF Adds
  <2>8. ASSUME NEW j \in 1 .. k - 1
        PROVE  ~Names(w[j], <<"n">>, sp)
    <3>1. j \in 1 .. Len(Explode(other, sep))
      BY <2>4, <2>k
    <3>2. ~Names(Explode(other, sep)[j], <<"n">>, sp)
      BY <1>4, <3>1, NamedIsCookie
    <3> QED
      BY <2>4, <2>7, <3>2
  <2>9. FirstPair(w, <<"n">>, sp) = k
    <3>1. k <= Len(w) /\ Len(w) \in Nat
      BY <2>7
    <3> QED
      BY <1>n, <2>7, <2>8, <3>1, FirstNamed
  <2>10. ValueOf(s, <<"n">>, sep, sp) = v
    <3>1. k # 0
      OBVIOUS
    <3> QED
      BY <1>n, <2>6, <2>7, <2>9, <3>1 DEF ValueOf
  <2> QED
    BY <1>o, <1>v, <2>s, <2>10
<1> QED
  BY <1>3, <1>4 DEF OwnLast

\* Before any other cookies, and behind any that have none of its name,
\* get_session_id finds the module's own: whatever text the client sends, of any
\* length, with empty pairs and values, spaces and too many "=" or ";".
THEOREM OwnCookieAlwaysFound ==
  ASSUME text \in Seq(Char)
  PROVE  OwnCookieFound
<1>2. \A s, name : GetSessionId(s, name) = ValueOf(s, name, ";", " ")
  BY Zenon DEF GetSessionId, ValueOf, FirstPair, Names, Strip, StripOf
<1>3. \A s, name : HasCookie(s, name) <=> CookieIn(s, name, ";", " ")
  BY Zenon DEF HasCookie, CookieIn
<1>4. PICK T : T = Char \cup {";", " ", "m", "n", "=", "v"}
  BY Zenon
<1>5. ";" \in T /\ " " \in T /\ "m" \in T /\ "=" \in T /\ {"n", "=", "v"} \subseteq T
  BY <1>4, Zenon
<1>6. text \in Seq(T)
  <2>1. Char \subseteq T
    BY <1>4, Zenon
  <2> QED
    BY <2>1, SeqMonotonic
<1>7. <<"m", "=">> \o text \in Seq(T)
  <2>1. "m" \in T /\ "=" \in T
    BY <1>5, Zenon
  <2>2. PICK o \in Seq(T) : o = <<"m", "=">>
    <3>1. <<"m", "=">> \in Seq(T)
      BY <2>1
    <3> QED
      BY <3>1
  <2> QED
    BY <1>6, <2>2, ConcatProperties
<1>8. \A other \in Seq(T) : OwnFirst(";", " ", other) /\ OwnLast(";", " ", other)
  <2>1. Separators(T, ";", " ")
    BY <1>5 DEF Separators
  <2> QED
    BY <1>5, <2>1, OwnFound, Zenon
<1> QED
  BY <1>2, <1>3, <1>6, <1>7, <1>8, Zenon DEF OwnCookieFound, OwnFirst, OwnLast, Own

--------------------------------------------------------------------------------
(* html_escape.                                                            *)

\* s is u and one more character.
Extends(s, u, x) == s = u \o <<x>>

\* Induction by adding characters.
LEMMA ByExtending ==
  ASSUME NEW T, NEW P, <<>> \in P,
         \A u \in Seq(T), s \in Seq(T), x \in T : u \in P /\ Extends(s, u, x) => s \in P
  PROVE  Seq(T) \subseteq P
<1>1. ASSUME NEW s \in Seq(T), \A t \in Seq(T) : Len(t) < Len(s) => t \in P
      PROVE  s \in P
  <2>1. CASE s = <<>>
    BY <2>1
  <2>2. CASE s # <<>>
    <3>1. PICK u \in Seq(T), x \in T : s = u \o <<x>> /\ Len(u) < Len(s)
      BY <2>2, Ends
    <3> QED
      BY <1>1, <3>1 DEF Extends
  <2> QED
    BY <2>1, <2>2
<1> QED
  BY <1>1, ByLength

LEMMA Extended ==
  ASSUME NEW T, NEW u \in Seq(T), NEW x \in T, NEW s, Extends(s, u, x)
  PROVE  s \in Seq(T) /\ Adds(s, u, x) /\ s # <<>>
<1>1. s \in Seq(T) /\ Adds(s, u, x)
  BY Added DEF Extends
<1>2. Len(s) = Len(u) + 1 /\ Len(u) \in Nat
  BY <1>1 DEF Adds
<1>3. s = <<>> => Len(s) = 0
  OBVIOUS
<1> QED
  BY <1>1, <1>2, <1>3

\* s is u and two more.
LEMMA ExtendedTwice ==
  ASSUME NEW T, NEW u \in Seq(T), NEW x \in T, NEW y \in T, NEW w, Extends(w, u, x),
         NEW s, Extends(s, w, y), NEW z, z = <<x, y>>
  PROVE  Follows(s, u, z)
<1>1. PICK o \in Seq(T) : o = <<x>>
  <2>1. <<x>> \in Seq(T)
    OBVIOUS
  <2> QED
    BY <2>1
<1>2. PICK p \in Seq(T) : p = <<y>>
  <2>1. <<y>> \in Seq(T)
    OBVIOUS
  <2> QED
    BY <2>1
<1>3. Follows(w, u, o) /\ Follows(s, w, p)
  BY <1>1, <1>2 DEF Extends, Follows
<1>4. Follows(z, o, p)
  <2>1. z = o \o p
    BY <1>1, <1>2, TwoIs, Zenon
  <2> QED
    BY <2>1 DEF Follows
<1> QED
  BY <1>3, <1>4, FollowsBack

\* A special character becomes "&" and a character that is not special, and no
\* two become the same.
LEMMA EntityIs ==
  /\ \A c \in Special : Entity(c) = <<"&", Entity(c)[2]>> /\ Entity(c)[2] \notin Special
  /\ \A c, d \in Special : Entity(c)[2] = Entity(d)[2] => c = d
  /\ "&" \in Special
<1>1. \A c \in Special : Entity(c) = <<"&", Entity(c)[2]>>
  BY Zenon DEF Entity, Special
<1>2. \A c \in Special : Entity(c)[2] \notin Special
  BY Zenon DEF Entity, Special
<1>3. \A c, d \in Special : Entity(c)[2] = Entity(d)[2] => c = d
  BY ZenonT(60) DEF Entity, Special
<1>4. "&" \in Special
  BY Zenon DEF Special
<1> QED
  BY <1>1, <1>2, <1>3, <1>4

\* All characters that are met.
Alphabet(T) == Special \subseteq T /\ \A c \in Special : Entity(c)[2] \in T

\* The characters in E are escaped, and those only.
Code(x, E) == IF x \in E THEN Entity(x) ELSE <<x>>
Coded(s, E) == [i \in DOMAIN s |-> Code(s[i], E)]
Encoded(s, E) == FlattenSeq(Coded(s, E))

LEMMA CodeType ==
  ASSUME NEW T, Alphabet(T), NEW E, E \subseteq Special, NEW x \in T
  PROVE  Code(x, E) \in Seq(T)
<1>1. CASE x \in E
  <2>1. PICK d \in T : Entity(x) = <<"&", d>>
    BY <1>1, EntityIs DEF Alphabet
  <2>2. "&" \in T
    BY EntityIs DEF Alphabet
  <2>3. <<"&", d>> \in Seq(T)
    BY <2>2
  <2> QED
    BY <1>1, <2>1, <2>3 DEF Code
<1>2. CASE x \notin E
  BY <1>2 DEF Code
<1> QED
  BY <1>1, <1>2

LEMMA CodedType ==
  ASSUME NEW T, Alphabet(T), NEW E, E \subseteq Special, NEW s \in Seq(T)
  PROVE  Coded(s, E) \in Seq(Seq(T)) /\ Len(Coded(s, E)) = Len(s)
<1>1. PICK f : f = Coded(s, E)
  OBVIOUS
<1>2. f = [i \in 1 .. Len(s) |-> Code(s[i], E)]
  BY <1>1 DEF Coded
<1>3. \A i \in 1 .. Len(s) : s[i] \in T
  OBVIOUS
<1>4. \A i \in 1 .. Len(s) : f[i] \in Seq(T)
  BY <1>2, <1>3, CodeType
<1>5. f = [i \in 1 .. Len(s) |-> f[i]]
  BY <1>2
<1>6. f \in Seq(Seq(T)) /\ Len(f) = Len(s)
  BY <1>4, <1>5
<1> QED
  BY <1>1, <1>6

LEMMA EncodedType ==
  ASSUME NEW T, Alphabet(T), NEW E, E \subseteq Special, NEW s \in Seq(T)
  PROVE  Encoded(s, E) \in Seq(T)
BY CodedType, FlattenType DEF Encoded

LEMMA EncodedEmpty == \A E : Encoded(<<>>, E) = <<>>
<1> SUFFICES ASSUME NEW E PROVE Encoded(<<>>, E) = <<>>
  OBVIOUS
<1>1. Coded(<<>>, E) = <<>>
  BY DEF Coded
<1> QED
  BY <1>1, FlattenEmpty DEF Encoded

LEMMA EncodedMore ==
  ASSUME NEW T, Alphabet(T), NEW E, E \subseteq Special,
         NEW u \in Seq(T), NEW x \in T, NEW s, Extends(s, u, x)
  PROVE  Follows(Encoded(s, E), Encoded(u, E), Code(x, E))
<1>1. s \in Seq(T) /\ Adds(s, u, x)
  BY Extended
<1>n. PICK n \in Nat : n = Len(u)
  OBVIOUS
<1>2. DOMAIN s = 1 .. n + 1 /\ DOMAIN u = 1 .. n /\ Len(s) = n + 1
  BY <1>1, <1>n DEF Adds
<1>3. s[n + 1] = x /\ \A i \in 1 .. n : s[i] = u[i]
  BY <1>1, <1>n DEF Adds
<1>f. PICK f \in Seq(Seq(T)) : f = Coded(s, E) /\ Len(f) = n + 1
  BY <1>1, <1>2, CodedType
<1>g. PICK g \in Seq(Seq(T)) : g = Coded(u, E) /\ Len(g) = n
  BY <1>n, CodedType
<1>y. PICK y \in Seq(T) : y = Code(x, E)
  BY CodeType
<1>4. \A i \in 1 .. n + 1 : f[i] = Code(s[i], E)
  BY <1>2, <1>f DEF Coded
<1>5. \A i \in 1 .. n : g[i] = Code(u[i], E)
  BY <1>2, <1>g DEF Coded
<1>6. f[n + 1] = y /\ \A i \in 1 .. n : f[i] = g[i]
  <2>1. n + 1 \in 1 .. n + 1 /\ \A i \in 1 .. n : i \in 1 .. n + 1
    OBVIOUS
  <2> QED
    BY <1>3, <1>4, <1>5, <1>y, <2>1
<1>7. Adds(f, g, y)
  BY <1>6, <1>f, <1>g DEF Adds
<1>8. f = g \o <<y>>
  BY <1>7, AddIs
<1>9. FlattenSeq(f) = FlattenSeq(g) \o y
  BY <1>8, FlattenAdd
<1> QED
  BY <1>9, <1>f, <1>g, <1>y DEF Follows, Encoded

\* One or two characters are added.
LEMMA EncodedExtends ==
  ASSUME NEW T, Alphabet(T), NEW E, E \subseteq Special,
         NEW u \in Seq(T), NEW x \in T, NEW s, Extends(s, u, x)
  PROVE  /\ x \notin E => Extends(Encoded(s, E), Encoded(u, E), x)
         /\ x \in E => \E w \in Seq(T) : /\ Extends(w, Encoded(u, E), "&")
                                         /\ Extends(Encoded(s, E), w, Entity(x)[2])
<1>1. Follows(Encoded(s, E), Encoded(u, E), Code(x, E))
  BY EncodedMore
<1>v. PICK v \in Seq(T) : v = Encoded(u, E)
  BY EncodedType
<1>2. ASSUME x \notin E PROVE Extends(Encoded(s, E), Encoded(u, E), x)
  BY <1>1, <1>2 DEF Follows, Extends, Code
<1>3. ASSUME x \in E
      PROVE  \E w \in Seq(T) : /\ Extends(w, v, "&")
                               /\ Extends(Encoded(s, E), w, Entity(x)[2])
  <2>1. PICK d \in T : d = Entity(x)[2] /\ Entity(x) = <<"&", d>>
    BY <1>3, EntityIs DEF Alphabet
  <2>a. PICK a \in T : a = "&"
    BY EntityIs DEF Alphabet
  <2>2. PICK w \in Seq(T) : w = v \o <<a>>
    BY Added
  <2>3. PICK z : z = w \o <<d>>
    OBVIOUS
  <2>4. PICK y : y = <<a, d>>
    OBVIOUS
  <2>5. Extends(w, v, a) /\ Extends(z, w, d)
    BY <2>2, <2>3 DEF Extends
  <2>6. Follows(z, v, y)
    BY <2>4, <2>5, ExtendedTwice
  <2>7. Code(x, E) = y
    BY <1>3, <2>1, <2>a, <2>4 DEF Code
  <2>8. Encoded(s, E) = z
    BY <1>1, <1>v, <2>6, <2>7 DEF Follows
  <2>9. Extends(w, v, "&") /\ Extends(Encoded(s, E), w, Entity(x)[2])
    BY <2>1, <2>a, <2>5, <2>8
  <2> QED
    BY <2>9
<1> QED
  BY <1>2, <1>3, <1>v

\* No c begins the string and none is behind another; the last one is c.
Apart(s, c) == \A i \in 1 .. Len(s) : s[i] = c => i > 1 /\ s[i - 1] # c
LastIs(s, c) == s # <<>> /\ s[Len(s)] = c

LEMMA LostNone ==
  ASSUME NEW T, NEW s \in Seq(T), NEW c
  PROVE  Lost(s, c) = {} <=> Apart(s, c) /\ ~LastIs(s, c)
<1>n. PICK n \in Nat : n = Len(s) /\ DOMAIN s = 1 .. n
  OBVIOUS
<1>0. s # <<>> <=> n \in 1 .. n
  BY <1>n, EmptySeq
<1>1. ASSUME Lost(s, c) = {} PROVE Apart(s, c) /\ ~LastIs(s, c)
  <2>1. ASSUME NEW i \in 1 .. n, s[i] = c
        PROVE  i > 1 /\ s[i - 1] # c /\ ~(\A j \in i .. n : s[j] = c)
    <3>1. i \notin Lost(s, c)
      BY <1>1
    <3> QED
      BY <1>n, <2>1, <3>1 DEF Lost
  <2>2. Apart(s, c)
    BY <1>n, <2>1 DEF Apart
  <2>3. \A j \in n .. n : j = n
    OBVIOUS
  <2>4. ~LastIs(s, c)
    BY <1>n, <1>0, <2>1, <2>3 DEF LastIs
  <2> QED
    BY <2>2, <2>4
<1>2. ASSUME Apart(s, c), ~LastIs(s, c), NEW i \in Lost(s, c) PROVE FALSE
  <2>1. i \in 1 .. n /\ s[i] = c
    BY <1>n DEF Lost
  <2>2. i # 1 /\ s[i - 1] # c
    BY <1>2, <1>n, <2>1 DEF Apart
  <2>3. n \in i .. n /\ n \in 1 .. n
    BY <2>1
  <2>4. s[n] = c
    BY <1>n, <2>2, <2>3 DEF Lost
  <2> QED
    BY <1>2, <1>n, <1>0, <2>3, <2>4 DEF LastIs
<1> QED
  BY <1>1, <1>2

LEMMA ApartMore ==
  ASSUME NEW T, NEW u \in Seq(T), NEW x \in T, NEW s, Extends(s, u, x), NEW c
  PROVE  /\ Apart(s, c) <=> Apart(u, c) /\ (x = c => u # <<>> /\ ~LastIs(u, c))
         /\ LastIs(s, c) <=> x = c
<1>1. s \in Seq(T) /\ Adds(s, u, x) /\ s # <<>>
  BY Extended
<1>n. PICK n \in Nat : n = Len(u)
  OBVIOUS
<1>2. Len(s) = n + 1 /\ s[n + 1] = x /\ \A i \in 1 .. n : s[i] = u[i]
  BY <1>1, <1>n DEF Adds
<1>3. LastIs(s, c) <=> x = c
  BY <1>1, <1>2 DEF LastIs
<1>0. u # <<>> <=> n \in 1 .. n
  BY <1>n, EmptySeq
<1>4. ASSUME Apart(s, c) PROVE Apart(u, c) /\ (x = c => u # <<>> /\ ~LastIs(u, c))
  <2>1. \A i \in 1 .. n + 1 : s[i] = c => i > 1 /\ s[i - 1] # c
    BY <1>2, <1>4 DEF Apart
  <2>2. ASSUME NEW i \in 1 .. n, u[i] = c PROVE i > 1 /\ u[i - 1] # c
    <3>1. i > 1 /\ s[i - 1] # c
      BY <1>2, <2>1, <2>2
    <3>2. i - 1 \in 1 .. n
      BY <3>1
    <3> QED
      BY <1>2, <3>1, <3>2
  <2>3. Apart(u, c)
    BY <1>n, <2>2 DEF Apart
  <2>4. ASSUME x = c PROVE n \in 1 .. n /\ u[n] # c
    <3>1. n + 1 \in 1 .. n + 1 /\ (n + 1) - 1 = n
      OBVIOUS
    <3>2. n + 1 > 1 /\ s[n] # c
      BY <1>2, <2>1, <2>4, <3>1
    <3>3. n \in 1 .. n
      BY <3>2
    <3> QED
      BY <1>2, <3>2, <3>3
  <2>5. x = c => u # <<>> /\ ~LastIs(u, c)
    BY <1>n, <1>0, <2>4 DEF LastIs
  <2> QED
    BY <2>3, <2>5
<1>5. ASSUME Apart(u, c), x = c => u # <<>> /\ ~LastIs(u, c) PROVE Apart(s, c)
  <2>1. ASSUME NEW i \in 1 .. n + 1, s[i] = c PROVE i > 1 /\ s[i - 1] # c
    <3>1. CASE i = n + 1
      <4>1. n \in 1 .. n /\ u[n] # c
        BY <1>2, <1>5, <1>n, <1>0, <2>1, <3>1 DEF LastIs
      <4>2. (n + 1) - 1 = n /\ n + 1 > 1
        BY <4>1
      <4> QED
        BY <1>2, <3>1, <4>1, <4>2
    <3>2. CASE i # n + 1
      <4>1. i \in 1 .. n /\ u[i] = c
        BY <1>2, <2>1, <3>2
      <4>2. i > 1 /\ u[i - 1] # c
        BY <1>5, <1>n, <4>1 DEF Apart
      <4>3. i - 1 \in 1 .. n
        BY <4>1, <4>2
      <4> QED
        BY <1>2, <4>2, <4>3
    <3> QED
      BY <3>1, <3>2
  <2> QED
    BY <1>2, <2>1 DEF Apart
<1> QED
  BY <1>3, <1>4, <1>5

\* Where no c is lost all of them are replaced.
LEMMA StrReplaceEncodes ==
  ASSUME NEW T, Alphabet(T), NEW c \in Special, NEW s \in Seq(T), Lost(s, c) = {}
  PROVE  Escaped(s, c) = Encoded(s, {c})
<1>1. c \in T /\ Entity(c) \in Seq(T)
  <2>1. c \in T
    BY DEF Alphabet
  <2>2. Code(c, {c}) \in Seq(T)
    BY <2>1, CodeType
  <2>3. Code(c, {c}) = Entity(c)
    BY DEF Code
  <2> QED
    BY <2>1, <2>2, <2>3
<1>2. PICK r \in Seq(T) : r = Entity(c)
  BY <1>1
<1>3. StrReplace(c, r, s) = FlattenSeq(Exchanged(s, c, r))
  BY <1>1, StrReplaceIs
<1>4. Exchanged(s, c, r) = Coded(s, {c})
  <2>1. \A i \in DOMAIN s : (IF i \in Lost(s, c) THEN <<>> ELSE IF s[i] = c THEN r ELSE <<s[i]>>)
                              = Code(s[i], {c})
    BY <1>2 DEF Code
  <2> QED
    BY <2>1 DEF Exchanged, Coded
<1> QED
  BY <1>2, <1>3, <1>4 DEF Escaped, Encoded

\* c may be escaped once those of E are: no entity of E has a c.
MayFollow(E, c) == E \subseteq Special /\ c \in Special \ E /\ (c = "&" => E = {})

\* Escaping others neither brings characters c together nor to the end.
Keeps(s, E, c) ==
  Apart(s, c) =>
    /\ Apart(Encoded(s, E), c)
    /\ LastIs(Encoded(s, E), c) <=> LastIs(s, c)
    /\ s # <<>> => Encoded(s, E) # <<>>

LEMMA EncodedKeeps ==
  ASSUME NEW T, Alphabet(T), NEW E, NEW c, MayFollow(E, c), NEW z \in Seq(T)
  PROVE  Keeps(z, E, c)
<1> DEFINE P == {s \in Seq(T) : Keeps(s, E, c)}
<1>E. E \subseteq Special /\ c \notin E /\ (c = "&" => E = {})
  BY DEF MayFollow
<1>1. <<>> \in P
  BY EncodedEmpty DEF Keeps
<1>2. ASSUME NEW u \in Seq(T), NEW s \in Seq(T), NEW x \in T, u \in P, Extends(s, u, x)
      PROVE  s \in P
  <2>1. SUFFICES ASSUME Apart(s, c)
                 PROVE  /\ Apart(Encoded(s, E), c)
                        /\ LastIs(Encoded(s, E), c) <=> LastIs(s, c)
                        /\ Encoded(s, E) # <<>>
    BY DEF Keeps
  <2>2. Apart(u, c) /\ (x = c => u # <<>> /\ ~LastIs(u, c)) /\ (LastIs(s, c) <=> x = c)
    BY <1>2, <2>1, ApartMore
  <2>v. PICK v \in Seq(T) : v = Encoded(u, E)
    BY <1>E, EncodedType
  <2>3. Apart(v, c) /\ (LastIs(v, c) <=> LastIs(u, c)) /\ (u # <<>> => v # <<>>)
    BY <1>2, <2>2, <2>v DEF Keeps
  <2>4. PICK y : y = Encoded(s, E)
    OBVIOUS
  <2>5. CASE x \notin E
    <3>1. Extends(y, v, x)
      BY <1>2, <1>E, <2>v, <2>4, <2>5, EncodedExtends
    <3>2. Apart(y, c) /\ (LastIs(y, c) <=> x = c)
      BY <2>2, <2>3, <3>1, ApartMore
    <3>3. y # <<>>
      BY <3>1, Extended
    <3> QED
      BY <2>2, <2>4, <3>2, <3>3
  <2>6. CASE x \in E
    <3>1. PICK w \in Seq(T) : Extends(w, v, "&") /\ Extends(y, w, Entity(x)[2])
      BY <1>2, <1>E, <2>v, <2>4, <2>6, EncodedExtends
    <3>2. PICK d \in T : d = Entity(x)[2] /\ d \notin Special
      BY <1>E, <2>6, EntityIs DEF Alphabet
    <3>3. PICK a \in T : a = "&"
      BY EntityIs DEF Alphabet
    <3>4. a # c /\ d # c /\ x # c
      BY <1>E, <2>6, <3>2, <3>3 DEF MayFollow
    <3>5. Extends(w, v, a) /\ Extends(y, w, d)
      BY <3>1, <3>2, <3>3
    <3>6. Apart(w, c)
      BY <2>3, <3>4, <3>5, ApartMore
    <3>7. Apart(y, c) /\ (LastIs(y, c) <=> d = c)
      BY <3>4, <3>5, <3>6, ApartMore
    <3>8. y # <<>>
      BY <3>5, Extended
    <3> QED
      BY <2>2, <2>4, <3>4, <3>7, <3>8
  <2> QED
    BY <2>5, <2>6
<1>3. Seq(T) \subseteq P
  <2> HIDE DEF P
  <2> QED
    BY <1>1, <1>2, ByExtending
<1> QED
  BY <1>3

\* Escaping c then is escaping those of E and c.
LEMMA EncodedTwice ==
  ASSUME NEW T, Alphabet(T), NEW E, NEW c, MayFollow(E, c), NEW z \in Seq(T)
  PROVE  Encoded(Encoded(z, E), {c}) = Encoded(z, E \cup {c})
<1>F. PICK F : F = E \cup {c}
  OBVIOUS
<1>C. PICK C : C = {c}
  OBVIOUS
<1>E. /\ E \subseteq Special /\ F \subseteq Special /\ C \subseteq Special
      /\ c \notin E /\ (c = "&" => E = {})
  BY <1>F, <1>C DEF MayFollow
<1> DEFINE P == {s \in Seq(T) : Encoded(Encoded(s, E), C) = Encoded(s, F)}
<1>1. <<>> \in P
  BY EncodedEmpty
<1>2. ASSUME NEW u \in Seq(T), NEW s \in Seq(T), NEW x \in T, u \in P, Extends(s, u, x)
      PROVE  s \in P
  <2>v. PICK v \in Seq(T) : v = Encoded(u, E)
    BY <1>E, EncodedType
  <2>y. PICK y : y = Encoded(s, E)
    OBVIOUS
  <2>b. PICK b \in Seq(T) : b = Encoded(v, C) /\ b = Encoded(u, F)
    BY <1>2, <1>E, <2>v, EncodedType
  <2>1. Follows(Encoded(s, F), b, Code(x, F))
    BY <1>2, <1>E, <2>b, EncodedMore
  <2>2. CASE x \notin E
    <3>1. Extends(y, v, x)
      BY <1>2, <1>E, <2>v, <2>y, <2>2, EncodedExtends
    <3>2. Follows(Encoded(y, C), b, Code(x, C))
      BY <1>E, <2>b, <3>1, EncodedMore
    <3>3. Code(x, C) = Code(x, F)
      BY <1>F, <1>C, <2>2 DEF Code
    <3> QED
      BY <2>1, <2>y, <3>2, <3>3 DEF Follows
  <2>3. CASE x \in E
    <3>1. PICK w \in Seq(T) : Extends(w, v, "&") /\ Extends(y, w, Entity(x)[2])
      BY <1>2, <1>E, <2>v, <2>y, <2>3, EncodedExtends
    <3>2. PICK d \in T : d = Entity(x)[2] /\ d \notin Special /\ Entity(x) = <<"&", d>>
      BY <1>E, <2>3, EntityIs DEF Alphabet
    <3>3. PICK a \in T : a = "&"
      BY EntityIs DEF Alphabet
    <3>4. a \notin C /\ d \notin C
      BY <1>E, <1>C, <2>3, <3>2, <3>3 DEF MayFollow
    <3>5. Extends(w, v, a) /\ Extends(y, w, d)
      BY <3>1, <3>2, <3>3
    <3>6. Extends(Encoded(w, C), b, a)
      BY <1>E, <2>b, <3>4, <3>5, EncodedExtends
    <3>7. Extends(Encoded(y, C), Encoded(w, C), d)
      BY <1>E, <3>4, <3>5, EncodedExtends
    <3>8. PICK q : q = <<a, d>>
      OBVIOUS
    <3>9. Follows(Encoded(y, C), b, q)
      BY <3>6, <3>7, <3>8, ExtendedTwice
    <3>10. Code(x, F) = q
      BY <1>F, <2>3, <3>2, <3>3, <3>8 DEF Code
    <3> QED
      BY <2>1, <2>y, <3>9, <3>10 DEF Follows
  <2> QED
    BY <2>2, <2>3
<1>3. Seq(T) \subseteq P
  <2> HIDE DEF P
  <2> QED
    BY <1>1, <1>2, ByExtending
<1> QED
  BY <1>3, <1>F, <1>C

\* One more str_replace of html_escape.
LEMMA EscapedNext ==
  ASSUME NEW T, Alphabet(T), NEW E, NEW c, MayFollow(E, c), NEW s \in Seq(T), Lost(s, c) = {}
  PROVE  Escaped(Encoded(s, E), c) = Encoded(s, E \cup {c})
<1>w. PICK w \in Seq(T) : w = Encoded(s, E)
  BY EncodedType DEF MayFollow
<1>1. Apart(s, c) /\ ~LastIs(s, c)
  BY LostNone
<1>2. Keeps(s, E, c)
  BY EncodedKeeps
<1>3. Apart(w, c) /\ ~LastIs(w, c)
  BY <1>w, <1>1, <1>2 DEF Keeps
<1>4. Lost(w, c) = {}
  BY <1>3, LostNone
<1>5. Escaped(w, c) = Encoded(w, {c})
  BY <1>4, StrReplaceEncodes DEF MayFollow
<1> QED
  BY <1>w, <1>5, EncodedTwice

LEMMA EncodedNone ==
  ASSUME NEW T, NEW s \in Seq(T)
  PROVE  Encoded(s, {}) = s
<1>1. PICK f : f = Coded(s, {})
  OBVIOUS
<1>2. f = [i \in 1 .. Len(s) |-> <<s[i]>>]
  <2>1. \A i \in DOMAIN s : Code(s[i], {}) = <<s[i]>>
    BY DEF Code
  <2> QED
    BY <1>1, <2>1 DEF Coded
<1>3. \A i \in 1 .. Len(s) : <<s[i]>> \in Seq(T)
  OBVIOUS
<1>4. f \in Seq(Seq(T)) /\ Len(f) = Len(s)
  BY <1>2, <1>3
<1>5. \A i \in 1 .. Len(s) : f[i] = <<s[i]>>
  BY <1>2
<1>6. FlattenSeq(f) = s
  BY <1>4, <1>5, FlattenSingles
<1> QED
  BY <1>1, <1>6 DEF Encoded

\* All of html_escape, the "&" first.
LEMMA HtmlEscapeEncodes ==
  ASSUME NEW T, Alphabet(T), NEW s \in Seq(T), \A c \in Special : Lost(s, c) = {}
  PROVE  HtmlEscape(s) = Encoded(s, Special)
<1>0. \A E, c : MayFollow(E, c) => Escaped(Encoded(s, E), c) = Encoded(s, E \cup {c})
  <2>1. SUFFICES ASSUME NEW E, NEW c, MayFollow(E, c)
                 PROVE  Escaped(Encoded(s, E), c) = Encoded(s, E \cup {c})
    OBVIOUS
  <2>2. Lost(s, c) = {}
    BY <2>1 DEF MayFollow
  <2> QED
    BY <2>1, <2>2, EscapedNext
<1>1. Escaped(s, "&") = Encoded(s, {"&"})
  <2>1. "&" \in Special
    BY Zenon DEF Special
  <2> QED
    BY <2>1, StrReplaceEncodes, Zenon
<1>2. Escaped(Encoded(s, {"&"}), "'") = Encoded(s, {"&"} \cup {"'"})
  <2>1. MayFollow({"&"}, "'") /\ "'" \in Special
    BY Zenon DEF MayFollow, Special
  <2> QED
    BY <1>0, <2>1, Zenon
<1>3. Escaped(Encoded(s, {"&"} \cup {"'"}), "\"") = Encoded(s, {"&"} \cup {"'"} \cup {"\""})
  <2>1. MayFollow({"&"} \cup {"'"}, "\"") /\ "\"" \in Special
    BY Zenon DEF MayFollow, Special
  <2> QED
    BY <1>0, <2>1, Zenon
<1>4. Escaped(Encoded(s, {"&"} \cup {"'"} \cup {"\""}), "<") =
        Encoded(s, {"&"} \cup {"'"} \cup {"\""} \cup {"<"})
  <2>1. MayFollow({"&"} \cup {"'"} \cup {"\""}, "<") /\ "<" \in Special
    BY Zenon DEF MayFollow, Special
  <2> QED
    BY <1>0, <2>1, Zenon
<1>5. Escaped(Encoded(s, {"&"} \cup {"'"} \cup {"\""} \cup {"<"}), ">") =
        Encoded(s, {"&"} \cup {"'"} \cup {"\""} \cup {"<"} \cup {">"})
  <2>1. MayFollow({"&"} \cup {"'"} \cup {"\""} \cup {"<"}, ">") /\ ">" \in Special
    BY Zenon DEF MayFollow, Special
  <2> QED
    BY <1>0, <2>1, Zenon
<1>6. {"&"} \cup {"'"} \cup {"\""} \cup {"<"} \cup {">"} = Special
  BY Zenon DEF Special
<1> QED
  BY <1>1, <1>2, <1>3, <1>4, <1>5, <1>6, Zenon DEF HtmlEscape

\* Of the special characters only "&" is met then, and not at the end.
Plain(w) ==
  ~LastIs(w, "&") /\ \A i \in 1 .. Len(w) : w[i] \in Special => w[i] = "&"

LEMMA EncodedPlain ==
  ASSUME NEW T, Alphabet(T), NEW z \in Seq(T)
  PROVE  Plain(Encoded(z, Special))
<1> DEFINE P == {s \in Seq(T) : Plain(Encoded(s, Special))}
<1>0. ASSUME NEW u \in Seq(T), NEW x \in T, NEW s, Extends(s, u, x),
             \A i \in 1 .. Len(u) : u[i] \in Special => u[i] = "&", x \in Special => x = "&"
      PROVE  \A i \in 1 .. Len(s) : s[i] \in Special => s[i] = "&"
  <2>1. Adds(s, u, x)
    BY <1>0, Extended
  <2>2. \A i \in 1 .. Len(u) + 1 : i \in 1 .. Len(u) \/ i = Len(u) + 1
    OBVIOUS
  <2> QED
    BY <1>0, <2>1, <2>2 DEF Adds
<1>1. <<>> \in P
  <2>1. Plain(<<>>)
    BY DEF Plain, LastIs
  <2> QED
    BY <2>1, EncodedEmpty
<1>2. ASSUME NEW u \in Seq(T), NEW s \in Seq(T), NEW x \in T, u \in P, Extends(s, u, x)
      PROVE  s \in P
  <2>v. PICK v \in Seq(T) : v = Encoded(u, Special) /\ Plain(v)
    BY <1>2, EncodedType
  <2>y. PICK y : y = Encoded(s, Special)
    OBVIOUS
  <2>1. CASE x \notin Special
    <3>1. Extends(y, v, x)
      BY <1>2, <2>v, <2>y, <2>1, EncodedExtends
    <3>2. x # "&"
      BY <2>1, EntityIs
    <3>3. ~LastIs(y, "&")
      BY <3>1, <3>2, ApartMore
    <3>4. \A i \in 1 .. Len(y) : y[i] \in Special => y[i] = "&"
      BY <1>0, <2>v, <2>1, <3>1 DEF Plain
    <3> QED
      BY <2>y, <3>3, <3>4 DEF Plain
  <2>2. CASE x \in Special
    <3>1. PICK w \in Seq(T) : Extends(w, v, "&") /\ Extends(y, w, Entity(x)[2])
      BY <1>2, <2>v, <2>y, <2>2, EncodedExtends
    <3>2. PICK d \in T : d = Entity(x)[2] /\ d \notin Special
      BY <2>2, EntityIs DEF Alphabet
    <3>3. PICK a \in T : a = "&"
      BY EntityIs DEF Alphabet
    <3>4. Extends(w, v, a) /\ Extends(y, w, d)
      BY <3>1, <3>2, <3>3
    <3>5. d # a
      BY <3>2, <3>3, EntityIs
    <3>6. ~LastIs(y, a)
      BY <3>4, <3>5, ApartMore
    <3>7. \A i \in 1 .. Len(w) : w[i] \in Special => w[i] = "&"
      BY <1>0, <2>v, <3>3, <3>4 DEF Plain
    <3>8. \A i \in 1 .. Len(y) : y[i] \in Special => y[i] = "&"
      BY <1>0, <3>2, <3>4, <3>7
    <3> QED
      BY <2>y, <3>3, <3>6, <3>8 DEF Plain
  <2> QED
    BY <2>1, <2>2
<1>3. Seq(T) \subseteq P
  <2> HIDE DEF P
  <2> QED
    BY <1>1, <1>2, ByExtending
<1> QED
  BY <1>3

\* What a browser reads at i.
Named(s, i) == {c \in Special : i < Len(s) /\ <<s[i], s[i + 1]>> = Entity(c)}
Read(s, i) == IF i > 1 /\ Named(s, i - 1) # {} THEN <<>>
              ELSE IF Named(s, i) # {} THEN <<CHOOSE c \in Named(s, i) : TRUE>> ELSE <<s[i]>>
Reads(s) == [i \in DOMAIN s |-> Read(s, i)]

LEMMA UnescapedReads == \A s : Unescaped(s) = FlattenSeq(Reads(s))
  BY DEF Unescaped, Reads, Read, Named

LEMMA ReadsType ==
  ASSUME NEW T, Alphabet(T), NEW s \in Seq(T)
  PROVE  Reads(s) \in Seq(Seq(T)) /\ Len(Reads(s)) = Len(s)
<1>1. PICK f : f = Reads(s)
  OBVIOUS
<1>2. f = [i \in 1 .. Len(s) |-> Read(s, i)]
  BY <1>1 DEF Reads
<1>3. ASSUME NEW i \in 1 .. Len(s)
      PROVE  Read(s, i) \in Seq(T)
  <2>1. s[i] \in T
    OBVIOUS
  <2>2. PICK c : c = CHOOSE b \in Named(s, i) : TRUE
    OBVIOUS
  <2>3. Named(s, i) # {} => c \in T
    <3>1. Named(s, i) # {} => c \in Named(s, i)
      BY <2>2
    <3> QED
      BY <3>1 DEF Named, Alphabet
  <2>4. Named(s, i) # {} => <<c>> \in Seq(T)
    BY <2>3
  <2>5. <<s[i]>> \in Seq(T) /\ <<>> \in Seq(T)
    BY <2>1
  <2> QED
    BY <2>2, <2>4, <2>5 DEF Read
<1>4. f \in Seq(Seq(T)) /\ Len(f) = Len(s)
  BY <1>2, <1>3
<1> QED
  BY <1>1, <1>4

\* Every entity begins with "&".
LEMMA NamedAmp ==
  ASSUME NEW s, NEW i, Named(s, i) # {}
  PROVE  s[i] = "&"
<1>1. PICK c \in Special : <<s[i], s[i + 1]>> = Entity(c)
  BY DEF Named
<1>2. Entity(c) = <<"&", Entity(c)[2]>>
  BY EntityIs
<1>3. <<s[i], s[i + 1]>>[1] = s[i] /\ <<"&", Entity(c)[2]>>[1] = "&"
  OBVIOUS
<1> QED
  BY <1>1, <1>2, <1>3

\* A character is read from what it and the one before it are named.
LEMMA ReadFrom ==
  ASSUME NEW s, NEW t, NEW i, Named(s, i) = Named(t, i), s[i] = t[i],
         i > 1 => Named(s, i - 1) = Named(t, i - 1)
  PROVE  Read(s, i) = Read(t, i)
<1>1. CASE i > 1
  <2>1. Named(s, i - 1) = Named(t, i - 1)
    BY <1>1
  <2> QED
    BY <2>1 DEF Read
<1>2. CASE ~(i > 1)
  BY <1>2 DEF Read
<1> QED
  BY <1>1, <1>2

\* What is read before does not change with another character, unless an "&" is
\* before that.
LEMMA ReadBefore ==
  ASSUME NEW T, NEW u \in Seq(T), NEW x \in T, NEW s, Extends(s, u, x), ~LastIs(u, "&")
  PROVE  \A i \in 1 .. Len(u) : Named(s, i) = Named(u, i) /\ Read(s, i) = Read(u, i)
<1>n. PICK n \in Nat : n = Len(u)
  OBVIOUS
<1>1. s \in Seq(T) /\ Adds(s, u, x)
  BY Extended
<1>2. Len(s) = n + 1 /\ s[n + 1] = x /\ \A i \in 1 .. n : s[i] = u[i]
  BY <1>1, <1>n DEF Adds
<1>3. ASSUME NEW i \in 1 .. n
      PROVE  Named(s, i) = Named(u, i)
  <2>1. CASE i = n
    <3>1. u # <<>>
      BY <1>n
    <3>2. s[n] # "&"
      BY <1>2, <1>n, <2>1, <3>1 DEF LastIs
    <3>3. Named(s, i) = {}
      BY <2>1, <3>2, NamedAmp
    <3>4. Named(u, i) = {}
      BY <1>n, <2>1 DEF Named
    <3> QED
      BY <3>3, <3>4
  <2>2. CASE i # n
    <3>1. i < n /\ i < n + 1 /\ i + 1 \in 1 .. n
      BY <2>2
    <3>2. s[i] = u[i] /\ s[i + 1] = u[i + 1]
      BY <1>2, <3>1
    <3> QED
      BY <1>2, <1>n, <3>1, <3>2 DEF Named
  <2> QED
    BY <2>1, <2>2
<1>4. ASSUME NEW i \in 1 .. n
      PROVE  Read(s, i) = Read(u, i)
  <2>1. Named(s, i) = Named(u, i) /\ s[i] = u[i]
    BY <1>2, <1>3
  <2>2. i > 1 => Named(s, i - 1) = Named(u, i - 1)
    <3>1. i > 1 => i - 1 \in 1 .. n
      OBVIOUS
    <3> QED
      BY <1>3, <3>1
  <2> QED
    BY <2>1, <2>2 DEF Read
<1> QED
  BY <1>3, <1>4, <1>n

\* A character that begins no entity is read as it is.
LEMMA ReadsMore ==
  ASSUME NEW T, Alphabet(T), NEW u \in Seq(T), NEW x \in T, NEW s, Extends(s, u, x),
         ~LastIs(u, "&"), NEW o, o = <<x>>
  PROVE  Extends(Reads(s), Reads(u), o)
<1>n. PICK n \in Nat : n = Len(u)
  OBVIOUS
<1>1. s \in Seq(T) /\ Adds(s, u, x)
  BY Extended
<1>2. Len(s) = n + 1 /\ s[n + 1] = x /\ DOMAIN s = 1 .. n + 1 /\ DOMAIN u = 1 .. n
  BY <1>1, <1>n DEF Adds
<1>f. PICK f \in Seq(Seq(T)) : f = Reads(s) /\ Len(f) = n + 1
  BY <1>1, <1>2, ReadsType
<1>g. PICK g \in Seq(Seq(T)) : g = Reads(u) /\ Len(g) = n
  BY <1>n, ReadsType
<1>3. \A i \in 1 .. n + 1 : f[i] = Read(s, i)
  BY <1>f, <1>2 DEF Reads
<1>4. \A i \in 1 .. n : g[i] = Read(u, i)
  BY <1>g, <1>2 DEF Reads
<1>5. \A i \in 1 .. n : Named(s, i) = Named(u, i) /\ Read(s, i) = Read(u, i)
  BY <1>n, ReadBefore
<1>6. Named(s, n + 1) = {}
  BY <1>2 DEF Named
<1>7. n + 1 > 1 => Named(s, (n + 1) - 1) = {}
  <2>1. n + 1 > 1 => (n + 1) - 1 = n /\ n \in 1 .. n
    OBVIOUS
  <2>2. Named(u, n) = {}
    BY <1>n DEF Named
  <2> QED
    BY <1>5, <2>1, <2>2
<1>8. Read(s, n + 1) = o
  BY <1>2, <1>6, <1>7 DEF Read
<1>9. Adds(f, g, o)
  <2>1. n + 1 \in 1 .. n + 1 /\ \A i \in 1 .. n : i \in 1 .. n + 1
    OBVIOUS
  <2>2. f[n + 1] = o
    BY <1>3, <1>8, <2>1
  <2>3. \A i \in 1 .. n : f[i] = g[i]
    BY <1>3, <1>4, <1>5, <2>1
  <2> QED
    BY <1>f, <1>g, <2>2, <2>3 DEF Adds
<1>10. o \in Seq(T)
  OBVIOUS
<1>11. f = g \o <<o>>
  BY <1>9, <1>10, AddIs
<1> QED
  BY <1>f, <1>g, <1>11 DEF Extends

\* An entity is read as the character it stands for.
LEMMA ReadsEntity ==
  ASSUME NEW T, Alphabet(T), NEW u \in Seq(T), ~LastIs(u, "&"), NEW c \in Special,
         NEW w, Extends(w, u, "&"), NEW s, Extends(s, w, Entity(c)[2])
  PROVE  FlattenSeq(Reads(s)) = FlattenSeq(Reads(u)) \o <<c>>
<1>a. PICK a \in T : a = "&"
  BY EntityIs DEF Alphabet
<1>d. PICK d \in T : d = Entity(c)[2]
  BY DEF Alphabet
<1>c. c \in T
  BY DEF Alphabet
<1>e. Extends(w, u, a) /\ Extends(s, w, d)
  BY <1>a, <1>d
<1>n. PICK n \in Nat : n = Len(u)
  OBVIOUS
<1>w. PICK h \in Seq(T) : h = w /\ Len(h) = n + 1 /\ h[n + 1] = a /\ \A i \in 1 .. n : h[i] = u[i]
  <2>1. w \in Seq(T) /\ Adds(w, u, a)
    BY <1>e, Extended
  <2> QED
    BY <2>1, <1>n DEF Adds
<1>s. PICK z \in Seq(T) : /\ z = s /\ Len(z) = n + 2 /\ z[n + 1] = a /\ z[n + 2] = d
                          /\ \A i \in 1 .. n : z[i] = h[i]
  <2>1. s \in Seq(T) /\ Adds(s, h, d)
    BY <1>e, <1>w, Extended
  <2>2. (n + 1) + 1 = n + 2 /\ n + 1 \in 1 .. n + 1 /\ \A i \in 1 .. n : i \in 1 .. n + 1
    OBVIOUS
  <2> QED
    BY <2>1, <2>2, <1>w DEF Adds
<1>f. PICK f \in Seq(Seq(T)) : f = Reads(z) /\ Len(f) = n + 2
  BY <1>s, ReadsType
<1>g. PICK g \in Seq(Seq(T)) : g = Reads(u) /\ Len(g) = n
  BY <1>n, ReadsType
<1>o. PICK o \in Seq(T) : o = <<c>>
  <2>1. <<c>> \in Seq(T)
    BY <1>c
  <2> QED
    BY <2>1
<1>q. PICK q \in Seq(Seq(T)) : q = g \o <<o>> /\ Adds(q, g, o)
  BY Added
<1>1. \A i \in 1 .. n : Named(h, i) = Named(u, i) /\ Read(h, i) = Read(u, i)
  BY <1>e, <1>n, <1>w, ReadBefore
<1>2. ASSUME NEW i \in 1 .. n
      PROVE  Named(z, i) = Named(u, i) /\ Read(z, i) = Read(u, i)
  <2>1. ASSUME NEW j \in 1 .. n PROVE Named(z, j) = Named(h, j) /\ z[j] = h[j]
    <3>1. z[j] = h[j] /\ z[j + 1] = h[j + 1]
      <4>1. j + 1 \in 1 .. n \/ j + 1 = n + 1
        OBVIOUS
      <4> QED
        BY <1>w, <1>s, <4>1
    <3>2. j < n + 2 /\ j < n + 1
      OBVIOUS
    <3> QED
      BY <1>w, <1>s, <3>1, <3>2 DEF Named
  <2>2. i > 1 => i - 1 \in 1 .. n
    OBVIOUS
  <2>3. i > 1 => Named(z, i - 1) = Named(h, i - 1)
    BY <2>1, <2>2
  <2>4. Read(z, i) = Read(h, i)
    BY <2>1, <2>3, ReadFrom
  <2> QED
    BY <1>1, <2>1, <2>4
<1>3. Named(z, n + 1) = {c}
  <2>1. n + 1 < n + 2 /\ (n + 1) + 1 = n + 2
    OBVIOUS
  <2>2. ASSUME NEW b \in Special
        PROVE  <<z[n + 1], z[n + 2]>> = Entity(b) <=> b = c
    <3>1. Entity(b) = <<"&", Entity(b)[2]>>
      BY EntityIs
    <3>2. <<a, d>> = <<a, Entity(b)[2]>> <=> d = Entity(b)[2]
      OBVIOUS
    <3>3. d = Entity(b)[2] <=> b = c
      BY <1>d, EntityIs
    <3> QED
      BY <1>a, <1>s, <3>1, <3>2, <3>3
  <2>3. Named(z, n + 1) = {b \in Special : <<z[n + 1], z[n + 2]>> = Entity(b)}
    BY <1>s, <2>1 DEF Named
  <2> QED
    BY <2>2, <2>3
<1>4. n + 1 > 1 => Named(z, (n + 1) - 1) = {}
  <2>1. n + 1 > 1 => (n + 1) - 1 = n /\ n \in 1 .. n
    OBVIOUS
  <2>2. Named(u, n) = {}
    BY <1>n DEF Named
  <2> QED
    BY <1>2, <2>1, <2>2
<1>5. Read(z, n + 1) = o
  <2>1. \A y : y = CHOOSE b \in {c} : TRUE => y = c
    OBVIOUS
  <2>2. {c} # {}
    OBVIOUS
  <2> QED
    BY <1>o, <1>3, <1>4, <2>1, <2>2 DEF Read
<1>6. Read(z, n + 2) = <<>>
  <2>1. n + 2 > 1 /\ (n + 2) - 1 = n + 1 /\ {c} # {}
    OBVIOUS
  <2> QED
    BY <1>3, <2>1 DEF Read
<1>7. \A i \in 1 .. n + 2 : f[i] = Read(z, i)
  <2>1. DOMAIN z = 1 .. n + 2
    BY <1>s
  <2> QED
    BY <1>f, <2>1 DEF Reads
<1>8. \A i \in 1 .. n : g[i] = Read(u, i)
  <2>1. DOMAIN u = 1 .. n
    BY <1>n
  <2> QED
    BY <1>g, <2>1 DEF Reads
<1>9. PICK e \in Seq(T) : e = <<>>
  <2>1. <<>> \in Seq(T)
    OBVIOUS
  <2> QED
    BY <2>1
<1>10. Adds(f, q, e)
  <2>1. Len(q) = n + 1 /\ q[n + 1] = o /\ \A i \in 1 .. n : q[i] = g[i]
    BY <1>q, <1>g DEF Adds
  <2>2. (n + 1) + 1 = n + 2 /\ n + 2 \in 1 .. n + 2 /\ n + 1 \in 1 .. n + 2
    OBVIOUS
  <2>3. f[n + 2] = e
    BY <1>6, <1>7, <1>9, <2>2
  <2>4. f[n + 1] = q[n + 1]
    BY <1>5, <1>7, <2>1, <2>2
  <2>5. ASSUME NEW i \in 1 .. n PROVE f[i] = q[i]
    <3>1. i \in 1 .. n + 2
      OBVIOUS
    <3>2. f[i] = Read(z, i)
      BY <1>7, <3>1
    <3>3. q[i] = Read(u, i)
      BY <1>8, <2>1
    <3> QED
      BY <1>2, <3>2, <3>3
  <2>6. \A i \in 1 .. n + 1 : i \in 1 .. n \/ i = n + 1
    OBVIOUS
  <2> QED
    BY <1>f, <2>1, <2>2, <2>3, <2>4, <2>5, <2>6 DEF Adds
<1>11. f = q \o <<e>>
  BY <1>10, AddIs
<1>12. FlattenSeq(f) = FlattenSeq(q) \o e
  BY <1>11, FlattenAdd
<1>13. FlattenSeq(q) = FlattenSeq(g) \o o
  BY <1>q, FlattenAdd
<1>14. FlattenSeq(q) \o e = FlattenSeq(q)
  <2>1. FlattenSeq(q) \in Seq(T)
    BY FlattenType
  <2> QED
    BY <1>9, <2>1, ConcatEmptySeq
<1> QED
  BY <1>12, <1>13, <1>14, <1>s, <1>f, <1>g, <1>o

\* A browser reads what was escaped.
LEMMA EncodedRead ==
  ASSUME NEW T, Alphabet(T), NEW z \in Seq(T)
  PROVE  FlattenSeq(Reads(Encoded(z, Special))) = z
<1> DEFINE P == {s \in Seq(T) : FlattenSeq(Reads(Encoded(s, Special))) = s}
<1>1. <<>> \in P
  <2>1. Reads(<<>>) = <<>>
    BY DEF Reads
  <2> QED
    BY <2>1, EncodedEmpty, FlattenEmpty
<1>2. ASSUME NEW u \in Seq(T), NEW s \in Seq(T), NEW x \in T, u \in P, Extends(s, u, x)
      PROVE  s \in P
  <2>v. PICK v \in Seq(T) : v = Encoded(u, Special) /\ ~LastIs(v, "&")
    <3>1. Plain(Encoded(u, Special))
      BY EncodedPlain
    <3>2. Encoded(u, Special) \in Seq(T)
      BY EncodedType
    <3> QED
      BY <3>1, <3>2 DEF Plain
  <2>y. PICK y \in Seq(T) : y = Encoded(s, Special)
    BY EncodedType
  <2>0. FlattenSeq(Reads(v)) = u
    BY <1>2, <2>v
  <2>s. s = u \o <<x>>
    BY <1>2 DEF Extends
  <2>1. CASE x \notin Special
    <3>1. Extends(y, v, x)
      BY <1>2, <2>v, <2>y, <2>1, EncodedExtends
    <3>2. PICK o \in Seq(T) : o = <<x>>
      <4>1. <<x>> \in Seq(T)
        OBVIOUS
      <4> QED
        BY <4>1
    <3>3. Extends(Reads(y), Reads(v), o)
      BY <2>v, <3>1, <3>2, ReadsMore
    <3>4. Reads(v) \in Seq(Seq(T))
      BY ReadsType
    <3>5. FlattenSeq(Reads(y)) = FlattenSeq(Reads(v)) \o o
      BY <3>3, <3>4, FlattenAdd DEF Extends
    <3> QED
      BY <2>y, <2>0, <2>s, <3>2, <3>5
  <2>2. CASE x \in Special
    <3>1. PICK w \in Seq(T) : Extends(w, v, "&") /\ Extends(y, w, Entity(x)[2])
      BY <1>2, <2>v, <2>y, <2>2, EncodedExtends
    <3>2. FlattenSeq(Reads(y)) = FlattenSeq(Reads(v)) \o <<x>>
      BY <2>v, <2>2, <3>1, ReadsEntity
    <3> QED
      BY <2>y, <2>0, <2>s, <3>2
  <2> QED
    BY <2>1, <2>2
<1>3. Seq(T) \subseteq P
  <2> HIDE DEF P
  <2> QED
    BY <1>1, <1>2, ByExtending
<1> QED
  BY <1>3

\* Whatever text the user sent, of any length, a browser reads it again from the
\* hidden field that show_html_input writes, and no quote of it ends the field:
\* for every text of which str_replace loses no special character.
THEOREM HiddenFieldsAlwaysSurvive ==
  ASSUME text \in Seq(Char)
  PROVE  HiddenFieldsSurvive
<1>1. PICK T : T = Char \cup Special \cup {Entity(c)[2] : c \in Special}
  OBVIOUS
<1>2. Alphabet(T)
  BY <1>1 DEF Alphabet
<1>3. text \in Seq(T)
  <2>1. Char \subseteq T
    BY <1>1
  <2> QED
    BY <2>1, SeqMonotonic
<1>4. SUFFICES ASSUME \A c \in Special : Lost(text, c) = {}
               PROVE  /\ Unescaped(HtmlEscape(text)) = text
                      /\ ~Contains(HtmlEscape(text), "\"")
  BY Zenon DEF HiddenFieldsSurvive
<1>5. HtmlEscape(text) = Encoded(text, Special)
  BY <1>2, <1>3, <1>4, HtmlEscapeEncodes
<1>6. Unescaped(HtmlEscape(text)) = text
  BY <1>2, <1>3, <1>5, EncodedRead, UnescapedReads
<1>7. \A c : c \in Special /\ c # "&" => ~Contains(HtmlEscape(text), c)
  <2>1. Plain(HtmlEscape(text))
    BY <1>2, <1>3, <1>5, EncodedPlain
  <2> QED
    BY <2>1 DEF Plain, Contains
<1>8. "\"" \in Special /\ "\"" # "&"
  BY Zenon DEF Special
<1> QED
  BY <1>6, <1>7, <1>8, Zenon

================================================================================
