-------------------------- MODULE RequestParamsProofs --------------------------
(***************************************************************************)
(* Lemmas about parse_query_string and append_query, for every string and  *)
(* every set of parameters.  Both are folds: the recursive function behind *)
(* a fold exists (by induction on the number of items), and by the same    *)
(* induction it has a closed form.                                         *)
(***************************************************************************)
EXTENDS RequestParams, WellFoundedInduction, FiniteSetTheorems, TLAPS

\* A property of numbers that fails somewhere fails somewhere first.
LEMMA FirstFailure ==
  ASSUME NEW I, I \subseteq Nat, 0 \notin I, I # {}
  PROVE  \E m \in Nat : m \notin I /\ m + 1 \in I /\ \A j \in 0 .. m : j \notin I
<1> DEFINE Less == {ss \in Nat \X Nat : ss[1] < ss[2]}
<1>1. IsWellFoundedOn(Less, Nat)
  BY NatLessThanWellFounded DEF OpToRel
<1>2. PICK x \in I : \A y \in I : ~ (<<y, x>> \in Less)
  BY <1>1, WFMin
<1>3. ASSUME NEW y \in I
      PROVE  x <= y
  <2>1. x \in Nat /\ y \in Nat /\ <<y, x>> \notin Less
    BY <1>2
  <2>2. <<y, x>> \in Nat \X Nat /\ <<y, x>>[1] = y /\ <<y, x>>[2] = x
    BY <2>1
  <2>3. ~ (y < x)
    BY <2>1, <2>2
  <2> QED
    BY <2>1, <2>3
<1>4. x \in Nat /\ x # 0
  OBVIOUS
<1>5. x - 1 \in Nat /\ (x - 1) + 1 = x /\ \A j \in 0 .. x - 1 : j \in Nat /\ ~ (x <= j)
  BY <1>4
<1>6. \A j \in 0 .. x - 1 : j \notin I
  BY <1>3, <1>5
<1>7. x - 1 \in 0 .. x - 1
  BY <1>5
<1> QED
  BY <1>5, <1>6, <1>7

\* A finite set of numbers that is not empty has a greatest one.
LEMMA Greatest ==
  ASSUME NEW n \in Nat, NEW S, S \subseteq 1 .. n, S # {}
  PROVE  Max(S) \in S /\ \A i \in S : i <= Max(S)
<1> DEFINE I == {k \in Nat : \E i \in S : n - i = k}
<1>1. CASE \A i \in S : i # n
  <2>1. I \subseteq Nat /\ 0 \notin I
    BY <1>1
  <2>2. PICK i \in S : TRUE
    OBVIOUS
  <2>3. n - i \in I
    BY <2>2
  <2>4. PICK m \in Nat : m + 1 \in I /\ \A j \in 0 .. m : j \notin I
    BY <2>1, <2>3, FirstFailure
  <2>5. PICK x \in S : n - x = m + 1
    BY <2>4
  <2>6. ASSUME NEW y \in S
        PROVE  y <= x
    <3>1. SUFFICES ASSUME ~(y <= x) PROVE FALSE
      OBVIOUS
    <3>2. n - y \in 0 .. m /\ n - y \in I
      BY <2>5, <3>1
    <3> QED
      BY <2>4, <3>2
  <2>7. \A y \in S : x >= y
    BY <2>6
  <2> QED
    BY <2>5, <2>7 DEF Max
<1>2. CASE n \in S
  <2>1. \A y \in S : n >= y
    OBVIOUS
  <2> QED
    BY <1>2, <2>1 DEF Max
<1> QED
  BY <1>1, <1>2

--------------------------------------------------------------------------------
(* parse_query_string.                                                     *)

\* What it makes of the items at the positions S, with f for fewer of them.
ParseStep(str, f, S) ==
  IF S = {} THEN NoParams
  ELSE LET x == Max(S)
       IN IF str[x].value = None \/ (Len(str) = 1 /\ str[x].value = Empty) THEN f[S \ {x}]
          ELSE With(f[S \ {x}], str[x].name, str[x].value)

Parse(str) == CHOOSE f : f = [S \in SUBSET DOMAIN str |-> ParseStep(str, f, S)]

LEMMA ParseIsFold ==
  ASSUME NEW str
  PROVE  ParseQueryString(str) = Parse(str)[DOMAIN str]
  BY DEF ParseQueryString, FoldLeft, MapThenFoldSet, Parse, ParseStep

LEMMA ParseExists ==
  ASSUME NEW T, NEW str \in Seq(T)
  PROVE  \A S \in SUBSET DOMAIN str : Parse(str)[S] = ParseStep(str, Parse(str), S)
<1> DEFINE D == DOMAIN str
           Upto(f, m) == \A S \in SUBSET D : Cardinality(S) <= m => f[S] = ParseStep(str, f, S)
           Fails == {m \in Nat : ~ \E f : Upto(f, m)}
<1>1. D = 1 .. Len(str) /\ Len(str) \in Nat /\ IsFiniteSet(D)
  BY FS_Interval
<1>2. \A S \in SUBSET D : IsFiniteSet(S) /\ Cardinality(S) \in Nat /\ Cardinality(S) <= Cardinality(D)
  BY <1>1, FS_Subset, FS_CardinalityType
<1>3. ASSUME NEW S \in SUBSET D, S # {}
      PROVE  Max(S) \in S /\ Cardinality(S \ {Max(S)}) = Cardinality(S) - 1
                          /\ S \ {Max(S)} \in SUBSET D
  <2>1. Max(S) \in S
    BY <1>1, <1>3, Greatest
  <2> QED
    BY <1>2, <2>1, FS_RemoveElement
<1>4. 0 \notin Fails
  <2> DEFINE f == [S \in SUBSET D |-> NoParams]
  <2>1. ASSUME NEW S \in SUBSET D, Cardinality(S) <= 0
        PROVE  f[S] = ParseStep(str, f, S)
    <3>1. S = {}
      BY <1>2, <2>1, FS_EmptySet
    <3> QED
      BY <3>1 DEF ParseStep
  <2> QED
    BY <2>1
<1>5. ASSUME NEW m \in Nat, NEW f, Upto(f, m)
      PROVE  \E g : Upto(g, m + 1)
  <2> DEFINE g == [S \in SUBSET D |-> IF Cardinality(S) <= m THEN f[S] ELSE ParseStep(str, f, S)]
  <2>1. ASSUME NEW S \in SUBSET D, Cardinality(S) <= m + 1
        PROVE  g[S] = ParseStep(str, g, S)
    <3>1. g[S] = ParseStep(str, f, S)
      BY <1>5
    <3>2. CASE S = {}
      BY <3>1, <3>2 DEF ParseStep
    <3>3. CASE S # {}
      <4>1. Cardinality(S \ {Max(S)}) <= m /\ S \ {Max(S)} \in SUBSET D
        <5>1. /\ Cardinality(S) \in Nat
              /\ Cardinality(S \ {Max(S)}) = Cardinality(S) - 1
              /\ S \ {Max(S)} \in SUBSET D
          BY <1>2, <1>3, <3>3
        <5> QED
          BY <2>1, <5>1
      <4>2. g[S \ {Max(S)}] = f[S \ {Max(S)}]
        BY <4>1
      <4> HIDE DEF g
      <4> QED
        BY <3>1, <4>2 DEF ParseStep
    <3> QED
      BY <3>2, <3>3
  <2> HIDE DEF g
  <2> QED
    BY <2>1
<1>6. Fails = {}
  <2>1. SUFFICES ASSUME Fails # {} PROVE FALSE
    OBVIOUS
  <2>2. PICK m \in Nat : m \notin Fails /\ m + 1 \in Fails
    BY <1>4, <2>1, FirstFailure
  <2> QED
    BY <1>5, <2>2
<1>7. PICK f : Upto(f, Cardinality(D))
  BY <1>1, <1>6, FS_CardinalityType
<1> DEFINE h == [S \in SUBSET D |-> f[S]]
<1>8. ASSUME NEW S \in SUBSET D
      PROVE  h[S] = ParseStep(str, h, S)
  <2>1. h[S] = ParseStep(str, f, S)
    BY <1>2, <1>7
  <2>2. CASE S = {}
    BY <2>1, <2>2 DEF ParseStep
  <2>3. CASE S # {}
    <3>1. h[S \ {Max(S)}] = f[S \ {Max(S)}]
      BY <1>3, <2>3
    <3> HIDE DEF h
    <3> QED
      BY <2>1, <3>1 DEF ParseStep
  <2> QED
    BY <2>2, <2>3
<1>9. h = [S \in SUBSET DOMAIN str |-> ParseStep(str, h, S)]
  BY <1>8
<1> HIDE DEF h
<1>10. Parse(str) = [S \in SUBSET DOMAIN str |-> ParseStep(str, Parse(str), S)]
  BY <1>9 DEF Parse
<1> QED
  BY <1>10

\* The items among S that are not skipped, and the last of these with a name.
Kept(str, S) ==
  {k \in S : str[k].value # None /\ ~ (Len(str) = 1 /\ str[k].value = Empty)}
LastOf(str, S, k) == \A j \in Kept(str, S) : str[j].name = str[k].name => j <= k

\* The parameters p are what the items at the positions S say.
Says(str, S, p) ==
  /\ DOMAIN p = {str[k].name : k \in Kept(str, S)}
  /\ p = [n \in DOMAIN p |-> p[n]]
  /\ \A k \in Kept(str, S) : LastOf(str, S, k) => p[str[k].name] = str[k].value

LEMMA WithSays ==
  ASSUME NEW T, NEW str \in Seq(T), NEW S, S \subseteq DOMAIN str, S # {},
         NEW p, Says(str, S \ {Max(S)}, p)
  PROVE  LET x == Max(S)
         IN Says(str, S, IF x \in Kept(str, S) THEN With(p, str[x].name, str[x].value) ELSE p)
<1> DEFINE x == Max(S)
           R == S \ {x}
<1>1. /\ x \in S /\ x \in Nat /\ \A i \in S : i <= x /\ i \in Nat
  BY Greatest
<1> HIDE DEF x
<1>2. CASE x \notin Kept(str, S)
  <2>1. Kept(str, S) = Kept(str, R)
    BY <1>2 DEF Kept
  <2> QED
    BY <1>2, <2>1 DEF Says, LastOf, x
<1>3. CASE x \in Kept(str, S)
  <2> DEFINE q == With(p, str[x].name, str[x].value)
  <2>1. Kept(str, S) = Kept(str, R) \cup {x}
    BY <1>1, <1>3 DEF Kept
  <2>2. DOMAIN q = {str[k].name : k \in Kept(str, S)}
    BY <2>1 DEF Says, With, x
  <2>3. q = [n \in DOMAIN q |-> q[n]]
    BY DEF With
  <2>4. ASSUME NEW k \in Kept(str, S), LastOf(str, S, k)
        PROVE  q[str[k].name] = str[k].value
    <3>1. CASE str[k].name = str[x].name
      <4>1. k = x
        BY <1>1, <1>3, <2>4, <3>1 DEF LastOf, Kept
      <4> QED
        BY <4>1 DEF With
    <3>2. CASE str[k].name # str[x].name
      <4>1. k \in Kept(str, R) /\ LastOf(str, R, k)
        BY <2>1, <2>4, <3>2 DEF LastOf
      <4>2. p[str[k].name] = str[k].value /\ str[k].name \in DOMAIN p
        BY <4>1 DEF Says, x
      <4> QED
        BY <3>2, <4>2 DEF With
    <3> QED
      BY <3>1, <3>2
  <2> QED
    BY <1>3, <2>2, <2>3, <2>4 DEF Says, x
<1> QED
  BY <1>2, <1>3

\* The closed form: parse_query_string keeps the last value of each name.
LEMMA ParseSays ==
  ASSUME NEW T, NEW str \in Seq(T)
  PROVE  Says(str, DOMAIN str, ParseQueryString(str))
<1> DEFINE D == DOMAIN str
           Wrong == {m \in Nat : \E S \in SUBSET D : Cardinality(S) = m /\ ~Says(str, S, Parse(str)[S])}
<1>1. D = 1 .. Len(str) /\ Len(str) \in Nat /\ IsFiniteSet(D)
  BY FS_Interval
<1>2. \A S \in SUBSET D : IsFiniteSet(S) /\ Cardinality(S) \in Nat
  BY <1>1, FS_Subset, FS_CardinalityType
<1>3. 0 \notin Wrong
  <2>1. ASSUME NEW S \in SUBSET D, Cardinality(S) = 0
        PROVE  Says(str, S, Parse(str)[S])
    <3>1. S = {}
      BY <1>2, <2>1, FS_EmptySet
    <3>2. Parse(str)[S] = NoParams
      BY <3>1, ParseExists DEF ParseStep
    <3> QED
      BY <3>1, <3>2 DEF Says, Kept, NoParams
  <2> QED
    BY <2>1
<1>4. ASSUME NEW m \in Nat, m \notin Wrong, m + 1 \in Wrong
      PROVE  FALSE
  <2>1. PICK S \in SUBSET D : Cardinality(S) = m + 1 /\ ~Says(str, S, Parse(str)[S])
    BY <1>4
  <2>2. S # {}
    <3>1. Cardinality(S) # 0
      BY <2>1
    <3> QED
      BY <1>2, <3>1, FS_EmptySet
  <2> DEFINE x == Max(S)
  <2>3. x \in S
    BY <1>1, <2>2, Greatest
  <2>4. Cardinality(S \ {x}) = m /\ S \ {x} \in SUBSET D
    <3>1. Cardinality(S \ {x}) = Cardinality(S) - 1
      BY <1>2, <2>3, FS_RemoveElement
    <3> QED
      BY <2>1, <3>1
  <2>5. Says(str, S \ {x}, Parse(str)[S \ {x}])
    BY <1>4, <2>4
  <2>6. Parse(str)[S] = ParseStep(str, Parse(str), S)
    BY ParseExists
  <2>7. Parse(str)[S] = IF x \in Kept(str, S) THEN With(Parse(str)[S \ {x}], str[x].name, str[x].value)
                        ELSE Parse(str)[S \ {x}]
    BY <2>2, <2>3, <2>6 DEF ParseStep, Kept
  <2>8. Says(str, S, Parse(str)[S])
    BY <2>2, <2>5, <2>7, WithSays
  <2> QED
    BY <2>1, <2>8
<1>5. Wrong = {}
  BY <1>3, <1>4, FirstFailure
<1>6. Says(str, D, Parse(str)[D])
  <2>1. Cardinality(D) \in Nat /\ D \in SUBSET D
    BY <1>2
  <2> QED
    BY <1>5, <2>1
<1> QED
  BY <1>6, ParseIsFold

\* Every parameter comes from an item of the string, the last one that counts
\* with its name.
LEMMA ParsedFrom ==
  ASSUME NEW T, NEW str \in Seq(T), NEW n \in DOMAIN ParseQueryString(str)
  PROVE  \E k \in Kept(str, DOMAIN str) :
           /\ str[k].name = n
           /\ LastOf(str, DOMAIN str, k)
           /\ ParseQueryString(str)[n] = str[k].value
<1> DEFINE D == DOMAIN str
           K == {k \in Kept(str, D) : str[k].name = n}
<1>1. Says(str, D, ParseQueryString(str))
  BY ParseSays
<1>2. K # {} /\ K \subseteq 1 .. Len(str) /\ Len(str) \in Nat
  BY <1>1 DEF Says, Kept
<1>3. Max(K) \in K /\ \A j \in K : j <= Max(K)
  BY <1>2, Greatest
<1>4. LastOf(str, D, Max(K))
  BY <1>3 DEF LastOf
<1> QED
  BY <1>1, <1>3, <1>4 DEF Says

\* Every item that is not skipped leaves a parameter.
LEMMA ParsedNames ==
  ASSUME NEW T, NEW str \in Seq(T), NEW k \in DOMAIN str,
         str[k].value # None, str[k].value # Empty \/ Len(str) # 1
  PROVE  str[k].name \in DOMAIN ParseQueryString(str)
  BY ParseSays DEF Says, Kept

LEMMA ParsedIsFunction ==
  ASSUME NEW T, NEW str \in Seq(T)
  PROVE  LET p == ParseQueryString(str)
         IN p = [n \in DOMAIN p |-> p[n]] /\ IsFiniteSet(DOMAIN p)
<1>1. Says(str, DOMAIN str, ParseQueryString(str))
  BY ParseSays
<1>2. IsFiniteSet(Kept(str, DOMAIN str))
  BY FS_Interval, FS_Subset DEF Kept
<1> DEFINE K == Kept(str, DOMAIN str)
           name == [k \in K |-> str[k].name]
           N == {str[k].name : k \in K}
<1>3. name \in Surjection(K, N)
  BY DEF Surjection
<1>4. IsFiniteSet(N)
  BY <1>2, <1>3, FS_Surjection
<1> QED
  BY <1>1, <1>4 DEF Says

--------------------------------------------------------------------------------
(* append_query.                                                           *)

QueryStep(p, f, S) ==
  IF S = {} THEN <<>>
  ELSE LET x == CHOOSE y \in S : TRUE IN Append(f[S \ {x}], Item(x, p[x]))

Listing(p) == CHOOSE f : f = [S \in SUBSET DOMAIN p |-> QueryStep(p, f, S)]

LEMMA QueryIsFold ==
  ASSUME NEW p
  PROVE  Query(p) = Listing(p)[DOMAIN p]
  BY DEF Query, FoldSet, MapThenFoldSet, Listing, QueryStep

LEMMA ListingExists ==
  ASSUME NEW p, IsFiniteSet(DOMAIN p)
  PROVE  \A S \in SUBSET DOMAIN p : Listing(p)[S] = QueryStep(p, Listing(p), S)
<1> DEFINE D == DOMAIN p
           one(S) == CHOOSE y \in S : TRUE
           Upto(f, m) == \A S \in SUBSET D : Cardinality(S) <= m => f[S] = QueryStep(p, f, S)
           Fails == {m \in Nat : ~ \E f : Upto(f, m)}
<1>1. \A S \in SUBSET D : IsFiniteSet(S) /\ Cardinality(S) \in Nat /\ Cardinality(S) <= Cardinality(D)
  BY FS_Subset, FS_CardinalityType
<1>2. ASSUME NEW S \in SUBSET D, S # {}
      PROVE  /\ one(S) \in S /\ Cardinality(S \ {one(S)}) = Cardinality(S) - 1
             /\ S \ {one(S)} \in SUBSET D
  <2>1. one(S) \in S
    BY <1>2
  <2> QED
    BY <1>1, <2>1, FS_RemoveElement
<1>3. 0 \notin Fails
  <2> DEFINE f == [S \in SUBSET D |-> <<>>]
  <2>1. ASSUME NEW S \in SUBSET D, Cardinality(S) <= 0
        PROVE  f[S] = QueryStep(p, f, S)
    <3>1. S = {}
      BY <1>1, <2>1, FS_EmptySet
    <3> QED
      BY <3>1 DEF QueryStep
  <2> QED
    BY <2>1
<1>4. ASSUME NEW m \in Nat, NEW f, Upto(f, m)
      PROVE  \E g : Upto(g, m + 1)
  <2> DEFINE g == [S \in SUBSET D |-> IF Cardinality(S) <= m THEN f[S] ELSE QueryStep(p, f, S)]
  <2>1. ASSUME NEW S \in SUBSET D, Cardinality(S) <= m + 1
        PROVE  g[S] = QueryStep(p, g, S)
    <3>1. g[S] = QueryStep(p, f, S)
      BY <1>4
    <3>2. CASE S = {}
      BY <3>1, <3>2 DEF QueryStep
    <3>3. CASE S # {}
      <4>1. Cardinality(S \ {one(S)}) <= m /\ S \ {one(S)} \in SUBSET D
        <5>1. /\ Cardinality(S) \in Nat
              /\ Cardinality(S \ {one(S)}) = Cardinality(S) - 1
              /\ S \ {one(S)} \in SUBSET D
          BY <1>1, <1>2, <3>3
        <5> QED
          BY <2>1, <5>1
      <4>2. g[S \ {one(S)}] = f[S \ {one(S)}]
        BY <4>1
      <4> HIDE DEF g
      <4> QED
        BY <3>1, <4>2 DEF QueryStep
    <3> QED
      BY <3>2, <3>3
  <2> HIDE DEF g
  <2> QED
    BY <2>1
<1>5. Fails = {}
  <2>1. SUFFICES ASSUME Fails # {} PROVE FALSE
    OBVIOUS
  <2>2. PICK m \in Nat : m \notin Fails /\ m + 1 \in Fails
    BY <1>3, <2>1, FirstFailure
  <2> QED
    BY <1>4, <2>2
<1>6. PICK f : Upto(f, Cardinality(D))
  BY <1>5, FS_CardinalityType
<1> DEFINE h == [S \in SUBSET D |-> f[S]]
<1>7. ASSUME NEW S \in SUBSET D
      PROVE  h[S] = QueryStep(p, h, S)
  <2>1. h[S] = QueryStep(p, f, S)
    BY <1>1, <1>6
  <2>2. CASE S = {}
    BY <2>1, <2>2 DEF QueryStep
  <2>3. CASE S # {}
    <3>1. h[S \ {one(S)}] = f[S \ {one(S)}]
      BY <1>2, <2>3
    <3> HIDE DEF h
    <3> QED
      BY <2>1, <3>1 DEF QueryStep
  <2> QED
    BY <2>2, <2>3
<1>8. h = [S \in SUBSET DOMAIN p |-> QueryStep(p, h, S)]
  BY <1>7
<1> HIDE DEF h
<1>9. Listing(p) = [S \in SUBSET DOMAIN p |-> QueryStep(p, Listing(p), S)]
  BY <1>8 DEF Listing
<1> QED
  BY <1>9

\* The string q has one item for each name in S, with its value in p.
Enumerates(p, S, q) ==
  /\ q \in Seq({Item(n, p[n]) : n \in S})
  /\ Len(q) = Cardinality(S)
  /\ \A n \in S : \E k \in DOMAIN q : q[k] = Item(n, p[n])
  /\ \A j, k \in DOMAIN q : q[j].name = q[k].name => j = k

LEMMA AppendEnumerates ==
  ASSUME NEW p, NEW S, IsFiniteSet(S), NEW x \in S, NEW q, Enumerates(p, S \ {x}, q)
  PROVE  Enumerates(p, S, Append(q, Item(x, p[x])))
<1> DEFINE R == S \ {x}
           T == {Item(n, p[n]) : n \in S}
           r == Append(q, Item(x, p[x]))
<1>1. q \in Seq(T) /\ Item(x, p[x]) \in T
  BY DEF Enumerates
<1>2. /\ r \in Seq(T) /\ Len(r) = Len(q) + 1 /\ Len(q) \in Nat
      /\ DOMAIN q = 1 .. Len(q) /\ DOMAIN r = 1 .. Len(q) + 1
      /\ \A k \in 1 .. Len(q) : r[k] = q[k]
      /\ r[Len(q) + 1] = Item(x, p[x])
  BY <1>1
<1>3. \A k \in 1 .. Len(q) : \E n \in R : q[k] = Item(n, p[n])
  BY <1>2 DEF Enumerates
<1>4. Len(r) = Cardinality(S)
  <2>1. Cardinality(R) = Cardinality(S) - 1 /\ Cardinality(S) \in Nat
    BY FS_RemoveElement, FS_CardinalityType
  <2> QED
    BY <1>2, <2>1 DEF Enumerates
<1>5. \A n \in S : \E k \in DOMAIN r : r[k] = Item(n, p[n])
  <2>1. ASSUME NEW n \in R
        PROVE  \E k \in DOMAIN r : r[k] = Item(n, p[n])
    <3>1. PICK k \in DOMAIN q : q[k] = Item(n, p[n])
      BY DEF Enumerates
    <3>2. k \in DOMAIN r /\ r[k] = q[k]
      BY <1>2
    <3> QED
      BY <3>1, <3>2
  <2>2. Len(q) + 1 \in DOMAIN r
    BY <1>2
  <2> HIDE DEF r
  <2> QED
    BY <1>2, <2>1, <2>2
<1>6. \A j, k \in DOMAIN r : r[j].name = r[k].name => j = k
  <2>1. \A k \in 1 .. Len(q) : r[k].name # x
    BY <1>2, <1>3 DEF Item
  <2>2. r[Len(q) + 1].name = x
    BY <1>2 DEF Item
  <2>3. \A j, k \in 1 .. Len(q) : q[j].name = q[k].name => j = k
    BY <1>2 DEF Enumerates
  <2>4. \A k \in DOMAIN r : k \in 1 .. Len(q) \/ k = Len(q) + 1
    BY <1>2
  <2> HIDE DEF r
  <2> QED
    BY <1>2, <2>1, <2>2, <2>3, <2>4
<1> QED
  BY <1>2, <1>4, <1>5, <1>6 DEF Enumerates

LEMMA QueryEnumerates ==
  ASSUME NEW p, IsFiniteSet(DOMAIN p)
  PROVE  Enumerates(p, DOMAIN p, Query(p))
<1> DEFINE D == DOMAIN p
           Wrong == {m \in Nat : \E S \in SUBSET D : Cardinality(S) = m /\ ~Enumerates(p, S, Listing(p)[S])}
<1>1. \A S \in SUBSET D : IsFiniteSet(S) /\ Cardinality(S) \in Nat
  BY FS_Subset, FS_CardinalityType
<1>2. 0 \notin Wrong
  <2>1. ASSUME NEW S \in SUBSET D, Cardinality(S) = 0
        PROVE  Enumerates(p, S, Listing(p)[S])
    <3>1. S = {}
      BY <1>1, <2>1, FS_EmptySet
    <3>2. Listing(p)[S] = <<>>
      BY <3>1, ListingExists DEF QueryStep
    <3>3. <<>> \in Seq({Item(n, p[n]) : n \in S}) /\ Len(<<>>) = 0 /\ DOMAIN <<>> = {}
      OBVIOUS
    <3> QED
      BY <2>1, <3>1, <3>2, <3>3 DEF Enumerates
  <2> QED
    BY <2>1
<1>3. ASSUME NEW m \in Nat, m \notin Wrong, m + 1 \in Wrong
      PROVE  FALSE
  <2>1. PICK S \in SUBSET D : Cardinality(S) = m + 1 /\ ~Enumerates(p, S, Listing(p)[S])
    BY <1>3
  <2>2. S # {}
    <3>1. Cardinality(S) # 0
      BY <2>1
    <3> QED
      BY <1>1, <3>1, FS_EmptySet
  <2> DEFINE x == CHOOSE y \in S : TRUE
  <2>3. x \in S
    BY <2>2
  <2>4. Cardinality(S \ {x}) = m /\ S \ {x} \in SUBSET D
    <3>1. Cardinality(S \ {x}) = Cardinality(S) - 1
      BY <1>1, <2>3, FS_RemoveElement
    <3> QED
      BY <2>1, <3>1
  <2>5. Enumerates(p, S \ {x}, Listing(p)[S \ {x}])
    BY <1>3, <2>4
  <2>6. Listing(p)[S] = QueryStep(p, Listing(p), S)
    BY ListingExists
  <2>7. Listing(p)[S] = Append(Listing(p)[S \ {x}], Item(x, p[x]))
    BY <2>2, <2>6 DEF QueryStep
  <2>8. Enumerates(p, S, Listing(p)[S])
    BY <1>1, <2>3, <2>5, <2>7, AppendEnumerates
  <2> QED
    BY <2>1, <2>8
<1>4. Wrong = {}
  BY <1>2, <1>3, FirstFailure
<1>5. Enumerates(p, D, Listing(p)[D])
  <2>1. Cardinality(D) \in Nat /\ D \in SUBSET D
    BY <1>1
  <2> QED
    BY <1>4, <2>1
<1> QED
  BY <1>5, QueryIsFold

--------------------------------------------------------------------------------
(* What the lemmas say together.                                           *)

\* A string of items, whatever they are.
IsQuery(s) == s \in Seq(Range(s))

LEMMA StringIsQuery ==
  ASSUME NEW T, NEW s \in Seq(T)
  PROVE  IsQuery(s)
<1>1. DOMAIN s = 1 .. Len(s) /\ Len(s) \in Nat
  OBVIOUS
<1>2. s \in [1 .. Len(s) -> Range(s)]
  BY <1>1 DEF Range
<1> QED
  BY <1>1, <1>2 DEF IsQuery

LEMMA ItemOf ==
  ASSUME NEW s, IsQuery(s)
  PROVE  /\ DOMAIN s = 1 .. Len(s) /\ Len(s) \in Nat
         /\ \A k \in DOMAIN s : s[k] \in Range(s)
         /\ \A i \in Range(s) : \E k \in DOMAIN s : s[k] = i
  BY DEF IsQuery, Range

LEMMA EmptyQuery == IsQuery(<<>>) /\ Range(<<>>) = {}
  BY DEF IsQuery, Range

LEMMA Concatenated ==
  ASSUME NEW s, NEW t, IsQuery(s), IsQuery(t)
  PROVE  IsQuery(s \o t) /\ Range(s \o t) = Range(s) \cup Range(t) /\ Len(s \o t) = Len(s) + Len(t)
<1> DEFINE T == Range(s) \cup Range(t)
<1>1. s \in Seq(T) /\ t \in Seq(T)
  BY DEF IsQuery
<1> HIDE DEF T
<1>2. /\ s \o t \in Seq(T) /\ Len(s \o t) = Len(s) + Len(t) /\ Len(s) \in Nat /\ Len(t) \in Nat
      /\ \A k \in 1 .. Len(s) : (s \o t)[k] = s[k]
      /\ \A k \in 1 .. Len(t) : (s \o t)[Len(s) + k] = t[k]
  BY <1>1
<1>3. ASSUME NEW i \in Range(s \o t)
      PROVE  i \in T
  BY <1>2 DEF Range
<1>4. ASSUME NEW i \in Range(s)
      PROVE  i \in Range(s \o t)
  <2>1. PICK k \in 1 .. Len(s) : s[k] = i
    BY <1>1 DEF Range
  <2>2. k \in DOMAIN (s \o t) /\ (s \o t)[k] = i
    BY <1>2, <2>1
  <2> QED
    BY <2>2 DEF Range
<1>5. ASSUME NEW i \in Range(t)
      PROVE  i \in Range(s \o t)
  <2>1. PICK k \in 1 .. Len(t) : t[k] = i
    BY <1>1 DEF Range
  <2>2. Len(s) + k \in DOMAIN (s \o t) /\ (s \o t)[Len(s) + k] = i
    BY <1>2, <2>1
  <2> QED
    BY <2>2 DEF Range
<1>6. Range(s \o t) = Range(s) \cup Range(t)
  BY <1>3, <1>4, <1>5 DEF T
<1> QED
  BY <1>2, <1>6, StringIsQuery

LEMMA Parsed ==
  ASSUME NEW s, IsQuery(s)
  PROVE  LET p == ParseQueryString(s)
         IN /\ p = [n \in DOMAIN p |-> p[n]]
            /\ IsFiniteSet(DOMAIN p)
            /\ \A n \in DOMAIN p : \E i \in Range(s) : i.name = n /\ i.value = p[n] /\ i.value # None
            /\ \A i \in Range(s) : i.value # None /\ (i.value # Empty \/ Len(s) # 1) => i.name \in DOMAIN p
<1> DEFINE p == ParseQueryString(s)
<1>1. s \in Seq(Range(s))
  BY DEF IsQuery
<1>2. ASSUME NEW n \in DOMAIN p
      PROVE  \E i \in Range(s) : i.name = n /\ i.value = p[n] /\ i.value # None
  <2>1. PICK k \in Kept(s, DOMAIN s) : s[k].name = n /\ p[n] = s[k].value
    BY <1>1, ParsedFrom
  <2>2. s[k] \in Range(s) /\ s[k].value # None
    BY DEF Kept, Range
  <2> QED
    BY <2>1, <2>2
<1>3. ASSUME NEW i \in Range(s), i.value # None, i.value # Empty \/ Len(s) # 1
      PROVE  i.name \in DOMAIN p
  <2>1. PICK k \in DOMAIN s : s[k] = i
    BY DEF Range
  <2> QED
    BY <1>1, <1>3, <2>1, ParsedNames
<1>4. p = [n \in DOMAIN p |-> p[n]] /\ IsFiniteSet(DOMAIN p)
  BY <1>1, ParsedIsFunction
<1> HIDE DEF p
<1>5. /\ p = [n \in DOMAIN p |-> p[n]]
      /\ IsFiniteSet(DOMAIN p)
      /\ \A n \in DOMAIN p : \E i \in Range(s) : i.name = n /\ i.value = p[n] /\ i.value # None
      /\ \A i \in Range(s) : i.value # None /\ (i.value # Empty \/ Len(s) # 1) => i.name \in DOMAIN p
  BY <1>2, <1>3, <1>4
<1> QED
  BY <1>5 DEF p

LEMMA Written ==
  ASSUME NEW p, IsFiniteSet(DOMAIN p)
  PROVE  /\ IsQuery(Query(p))
         /\ Range(Query(p)) = {Item(n, p[n]) : n \in DOMAIN p}
         /\ Len(Query(p)) = Cardinality(DOMAIN p)
<1> DEFINE T == {Item(n, p[n]) : n \in DOMAIN p}
<1>1. Enumerates(p, DOMAIN p, Query(p))
  BY QueryEnumerates
<1>2. Query(p) \in Seq(T)
  BY <1>1 DEF Enumerates
<1>3. Range(Query(p)) \subseteq T
  BY <1>2 DEF Range
<1>4. T \subseteq Range(Query(p))
  BY <1>1 DEF Enumerates, Range
<1> QED
  BY <1>1, <1>2, <1>3, <1>4, StringIsQuery DEF Enumerates

\* Parameters written with append_query and read with parse_query_string are the
\* same parameters; only a single one with the empty value is lost.
THEOREM ReadBack ==
  ASSUME NEW p, IsFiniteSet(DOMAIN p), p = [n \in DOMAIN p |-> p[n]],
         \A n \in DOMAIN p : p[n] # None,
         \A n \in DOMAIN p : p[n] = Empty => DOMAIN p # {n}
  PROVE  ParseQueryString(Query(p)) = p
<1> DEFINE s == Query(p)
           q == ParseQueryString(s)
<1>1. /\ IsQuery(s)
      /\ Range(s) = {Item(n, p[n]) : n \in DOMAIN p}
      /\ Len(s) = Cardinality(DOMAIN p)
  BY Written
<1> HIDE DEF s
<1>2. /\ q = [n \in DOMAIN q |-> q[n]]
      /\ \A n \in DOMAIN q : \E i \in Range(s) : i.name = n /\ i.value = q[n]
      /\ \A i \in Range(s) : i.value # None /\ (i.value # Empty \/ Len(s) # 1) => i.name \in DOMAIN q
  BY <1>1, Parsed
<1> HIDE DEF q
<1>3. ASSUME NEW n \in DOMAIN q
      PROVE  n \in DOMAIN p /\ q[n] = p[n]
  <2>1. PICK m \in DOMAIN p : Item(m, p[m]).name = n /\ Item(m, p[m]).value = q[n]
    BY <1>1, <1>2
  <2> QED
    BY <2>1 DEF Item
<1>4. ASSUME NEW n \in DOMAIN p
      PROVE  n \in DOMAIN q
  <2>1. Item(n, p[n]) \in Range(s) /\ Item(n, p[n]).name = n /\ Item(n, p[n]).value = p[n]
    BY <1>1 DEF Item
  <2>2. p[n] # Empty \/ Len(s) # 1
    <3>1. SUFFICES ASSUME p[n] = Empty, Cardinality(DOMAIN p) = 1
                   PROVE  FALSE
      BY <1>1
    <3>2. PICK m : DOMAIN p = {m}
      BY <3>1, FS_Singleton
    <3> QED
      BY <3>1, <3>2
  <2> QED
    BY <1>2, <2>1, <2>2
<1>5. DOMAIN q = DOMAIN p /\ q = [n \in DOMAIN p |-> p[n]]
  BY <1>2, <1>3, <1>4
<1>6. q = p
  BY <1>5
<1> QED
  BY <1>6 DEF q, s

LEMMA RemovedIs ==
  ASSUME NEW p, IsFiniteSet(DOMAIN p)
  PROVE  LET q == RemoveOpenIdVars(p)
         IN /\ DOMAIN q = {n \in DOMAIN p : ~IsOpenIdVar(n)}
            /\ q = [n \in DOMAIN q |-> p[n]]
            /\ IsFiniteSet(DOMAIN q)
<1> DEFINE q == RemoveOpenIdVars(p)
           N == {n \in DOMAIN p : ~IsOpenIdVar(n)}
<1>1. q = [n \in N |-> p[n]]
  BY DEF RemoveOpenIdVars, RestrictDomain, Restrict
<1>2. IsFiniteSet(N)
  BY FS_Subset
<1> HIDE DEF q
<1>3. /\ DOMAIN q = {n \in DOMAIN p : ~IsOpenIdVar(n)}
      /\ q = [n \in DOMAIN q |-> p[n]]
      /\ IsFiniteSet(DOMAIN q)
  BY <1>1, <1>2
<1> QED
  BY <1>3 DEF q

LEMMA ExtensionsIs ==
  ASSUME NEW p, IsFiniteSet(DOMAIN p)
  PROVE  LET q == GetExtensionParams(p)
         IN /\ DOMAIN q = {n \in DOMAIN p : Len(n) > 2}
            /\ q = [n \in DOMAIN q |-> p[n]]
            /\ IsFiniteSet(DOMAIN q)
<1> DEFINE q == GetExtensionParams(p)
           N == {n \in DOMAIN p : Len(n) > 2}
<1>1. q = [n \in N |-> p[n]]
  BY DEF GetExtensionParams, RestrictDomain, Restrict
<1>2. IsFiniteSet(N)
  BY FS_Subset
<1> HIDE DEF q
<1>3. /\ DOMAIN q = {n \in DOMAIN p : Len(n) > 2}
      /\ q = [n \in DOMAIN q |-> p[n]]
      /\ IsFiniteSet(DOMAIN q)
  BY <1>1, <1>2
<1> QED
  BY <1>3 DEF q

LEMMA WithIs ==
  ASSUME NEW p, NEW n, NEW v, IsFiniteSet(DOMAIN p)
  PROVE  /\ DOMAIN With(p, n, v) = DOMAIN p \cup {n}
         /\ IsFiniteSet(DOMAIN With(p, n, v))
         /\ With(p, n, v)[n] = v
         /\ \A m \in DOMAIN p : m # n => With(p, n, v)[m] = p[m]
         /\ With(p, n, v) = [m \in DOMAIN With(p, n, v) |-> With(p, n, v)[m]]
<1>1. IsFiniteSet(DOMAIN p \cup {n})
  BY FS_AddElement
<1> QED
  BY <1>1 DEF With

LEMMA AssignedIs ==
  ASSUME NEW p, NEW q, IsFiniteSet(DOMAIN p), IsFiniteSet(DOMAIN q)
  PROVE  /\ DOMAIN Assigned(p, q) = DOMAIN p \cup DOMAIN q
         /\ IsFiniteSet(DOMAIN Assigned(p, q))
         /\ \A m \in DOMAIN q : Assigned(p, q)[m] = q[m]
         /\ \A m \in DOMAIN p \ DOMAIN q : Assigned(p, q)[m] = p[m]
         /\ Assigned(p, q) = [m \in DOMAIN Assigned(p, q) |-> Assigned(p, q)[m]]
<1>1. IsFiniteSet(DOMAIN p \cup DOMAIN q)
  BY FS_Union
<1> QED
  BY <1>1 DEF Assigned

LEMMA NoParamsIs == DOMAIN NoParams = {} /\ IsFiniteSet(DOMAIN NoParams)
  BY FS_EmptySet DEF NoParams

\* What full_uri leaves of the query when it cleans it: the user's own parameters,
\* all of them, and nothing of OpenID or of the module.
THEOREM CleanedUri ==
  ASSUME NEW r, IsQuery(r.args)
  PROVE  LET p == ParseQueryString(r.args)
             url == FullUri(r, TRUE)
         IN /\ IsQuery(url)
            /\ Range(url) = {Item(n, p[n]) : n \in {m \in DOMAIN p : ~IsOpenIdVar(m)}}
            /\ \A i \in Range(url) :
                 /\ ~IsOpenIdVar(i.name)
                 /\ \E j \in Range(r.args) : i = Item(j.name, j.value)
<1> DEFINE p == ParseQueryString(r.args)
           q == RemoveOpenIdVars(p)
           url == Query(q)
<1>1. /\ IsFiniteSet(DOMAIN p)
      /\ \A n \in DOMAIN p : \E i \in Range(r.args) : i.name = n /\ i.value = p[n]
  BY Parsed
<1> HIDE DEF p
<1>2. /\ DOMAIN q = {n \in DOMAIN p : ~IsOpenIdVar(n)}
      /\ q = [n \in DOMAIN q |-> p[n]]
      /\ IsFiniteSet(DOMAIN q)
  BY <1>1, RemovedIs
<1> HIDE DEF q
<1>3. IsQuery(url) /\ Range(url) = {Item(n, q[n]) : n \in DOMAIN q}
  BY <1>2, Written
<1> HIDE DEF url
<1>4. Range(url) = {Item(n, p[n]) : n \in {m \in DOMAIN p : ~IsOpenIdVar(m)}}
  <2>1. \A n \in DOMAIN q : q[n] = p[n]
    BY <1>2
  <2> QED
    BY <1>2, <1>3, <2>1
<1>5. ASSUME NEW i \in Range(url)
      PROVE  ~IsOpenIdVar(i.name) /\ \E j \in Range(r.args) : i = Item(j.name, j.value)
  <2>1. PICK n \in DOMAIN p : i = Item(n, p[n]) /\ ~IsOpenIdVar(n)
    BY <1>4
  <2>2. i.name = n
    BY <2>1 DEF Item
  <2>3. PICK j \in Range(r.args) : j.name = n /\ j.value = p[n]
    BY <1>1
  <2> QED
    BY <2>1, <2>2, <2>3
<1>6. FullUri(r, TRUE) = url
  BY DEF FullUri, url, q, p
<1> QED
  BY <1>3, <1>4, <1>5, <1>6 DEF p

--------------------------------------------------------------------------------
(* What a query says of a parameter.                                       *)

LEMMA SaidLast ==
  ASSUME NEW s, IsQuery(s), NEW n, NEW k \in DOMAIN s, s[k].name = n, s[k].value # None,
         \A j \in DOMAIN s : s[j].name = n /\ s[j].value # None => j <= k
  PROVE  Said(s, n) = s[k].value
<1> DEFINE given == {j \in DOMAIN s : s[j].name = n /\ s[j].value # None}
<1>1. k \in given /\ given \subseteq 1 .. Len(s) /\ Len(s) \in Nat
  BY ItemOf
<1>2. Max(given) \in given /\ \A j \in given : j <= Max(given)
  BY <1>1, Greatest
<1>3. Max(given) <= k /\ k <= Max(given) /\ Max(given) \in Nat /\ k \in Nat
  BY <1>1, <1>2
<1>4. Max(given) = k
  BY <1>3
<1> QED
  BY <1>1, <1>4 DEF Said

LEMMA SaidNothing ==
  ASSUME NEW s, NEW n, \A j \in DOMAIN s : s[j].name = n => s[j].value = None
  PROVE  Said(s, n) = Empty
<1>1. {j \in DOMAIN s : s[j].name = n /\ s[j].value # None} = {}
  OBVIOUS
<1> QED
  BY <1>1 DEF Said

\* Either case, for what follows.
LEMMA SaidSomewhere ==
  ASSUME NEW s, IsQuery(s), NEW n
  PROVE  \/ \A j \in DOMAIN s : s[j].name = n => s[j].value = None
         \/ \E k \in DOMAIN s : /\ s[k].name = n /\ s[k].value # None
                                /\ \A j \in DOMAIN s : s[j].name = n /\ s[j].value # None => j <= k
                                /\ Said(s, n) = s[k].value
<1> DEFINE given == {j \in DOMAIN s : s[j].name = n /\ s[j].value # None}
<1>1. CASE given = {}
  BY <1>1
<1>2. CASE given # {}
  <2>1. given \subseteq 1 .. Len(s) /\ Len(s) \in Nat
    BY ItemOf
  <2>2. Max(given) \in given /\ \A j \in given : j <= Max(given)
    BY <1>2, <2>1, Greatest
  <2>3. Said(s, n) = s[Max(given)].value
    BY <1>2 DEF Said
  <2> QED
    BY <2>2, <2>3
<1> QED
  BY <1>1, <1>2

\* parse_query_string gives what the query says.
LEMMA SaidIsParsed ==
  ASSUME NEW s, IsQuery(s), NEW n
  PROVE  LET p == ParseQueryString(s)
         IN Said(s, n) = IF n \in DOMAIN p THEN p[n] ELSE Empty
<1> DEFINE p == ParseQueryString(s)
<1>1. s \in Seq(Range(s))
  BY DEF IsQuery
<1>2. DOMAIN s = 1 .. Len(s) /\ Len(s) \in Nat
  BY ItemOf
<1>3. CASE n \in DOMAIN p
  <2>1. PICK k \in Kept(s, DOMAIN s) : s[k].name = n /\ LastOf(s, DOMAIN s, k) /\ p[n] = s[k].value
    BY <1>1, <1>3, ParsedFrom
  <2>2. k \in DOMAIN s /\ s[k].value # None
    BY DEF Kept
  <2>3. ASSUME NEW j \in DOMAIN s, s[j].name = n, s[j].value # None
        PROVE  j <= k
    <3>1. CASE j \in Kept(s, DOMAIN s)
      BY <2>1, <2>3, <3>1 DEF LastOf
    <3>2. CASE j \notin Kept(s, DOMAIN s)
      <4>1. Len(s) = 1
        BY <2>3, <3>2 DEF Kept
      <4> QED
        BY <1>2, <2>2, <4>1
    <3> QED
      BY <3>1, <3>2
  <2>4. Said(s, n) = s[k].value
    BY <2>1, <2>2, <2>3, SaidLast
  <2> QED
    BY <1>3, <2>1, <2>4
<1>4. CASE n \notin DOMAIN p
  <2>1. CASE \A j \in DOMAIN s : s[j].name = n => s[j].value = None
    BY <1>4, <2>1, SaidNothing
  <2>2. CASE \E k \in DOMAIN s : s[k].name = n /\ s[k].value # None /\ Said(s, n) = s[k].value
    <3>1. PICK k \in DOMAIN s : s[k].name = n /\ s[k].value # None /\ Said(s, n) = s[k].value
      BY <2>2
    <3>2. s[k].value = Empty
      BY <1>1, <1>4, <3>1, ParsedNames
    <3> QED
      BY <1>4, <3>1, <3>2
  <2> QED
    BY <2>1, <2>2, SaidSomewhere
<1> QED
  BY <1>3, <1>4

\* append_query writes what the parameters are.
LEMMA SaidInQuery ==
  ASSUME NEW p, IsFiniteSet(DOMAIN p), \A n \in DOMAIN p : p[n] # None, NEW n
  PROVE  Said(Query(p), n) = IF n \in DOMAIN p THEN p[n] ELSE Empty
<1>s. PICK s : s = Query(p)
  OBVIOUS
<1>1. Enumerates(p, DOMAIN p, s)
  BY <1>s, QueryEnumerates
<1>2. IsQuery(s) /\ Range(s) = {Item(m, p[m]) : m \in DOMAIN p}
  BY <1>s, Written
<1>3. CASE n \in DOMAIN p
  <2>1. PICK k \in DOMAIN s : s[k] = Item(n, p[n])
    BY <1>1, <1>3 DEF Enumerates
  <2>2. s[k].name = n /\ s[k].value = p[n] /\ p[n] # None
    BY <1>3, <2>1 DEF Item
  <2>3. \A j \in DOMAIN s : s[j].name = n => j = k
    BY <1>1, <2>2 DEF Enumerates
  <2>4. k \in Nat /\ k <= k
    BY <1>2, ItemOf
  <2>5. Said(s, n) = s[k].value
    BY <1>2, <2>2, <2>3, <2>4, SaidLast
  <2> QED
    BY <1>3, <1>s, <2>2, <2>5
<1>4. CASE n \notin DOMAIN p
  <2>1. ASSUME NEW j \in DOMAIN s
        PROVE  s[j].name # n
    <3>1. PICK m \in DOMAIN p : s[j] = Item(m, p[m])
      BY <1>2, ItemOf
    <3> QED
      BY <1>4, <3>1 DEF Item
  <2>2. Said(s, n) = Empty
    BY <2>1, SaidNothing
  <2> QED
    BY <1>4, <1>s, <2>2
<1> QED
  BY <1>3, <1>4

\* The items of u are those of s and then those of t.
Joined(u, s, t) ==
  /\ IsQuery(u) /\ DOMAIN u = 1 .. Len(s) + Len(t)
  /\ Len(s) \in Nat /\ Len(t) \in Nat
  /\ DOMAIN s = 1 .. Len(s) /\ DOMAIN t = 1 .. Len(t)
  /\ \A k \in 1 .. Len(s) : u[k] = s[k]
  /\ \A k \in 1 .. Len(t) : u[Len(s) + k] = t[k]
  /\ \A k \in DOMAIN u : \/ k \in DOMAIN s /\ u[k] = s[k]
                        \/ \E j \in DOMAIN t : k = Len(s) + j /\ u[k] = t[j]

LEMMA ConcatenatedAt ==
  ASSUME NEW s, NEW t, IsQuery(s), IsQuery(t), NEW u, u = s \o t
  PROVE  Joined(u, s, t)
<1>1. /\ IsQuery(u) /\ DOMAIN u = 1 .. Len(s) + Len(t)
      /\ Len(s) \in Nat /\ Len(t) \in Nat
      /\ DOMAIN s = 1 .. Len(s) /\ DOMAIN t = 1 .. Len(t)
      /\ \A k \in 1 .. Len(s) : u[k] = s[k]
      /\ \A k \in 1 .. Len(t) : u[Len(s) + k] = t[k]
  <2>1. PICK T : T = Range(s) \cup Range(t)
    OBVIOUS
  <2>2. s \in Seq(T) /\ t \in Seq(T)
    BY <2>1 DEF IsQuery
  <2>3. IsQuery(u)
    BY Concatenated
  <2> QED
    BY <2>2, <2>3
<1>2. ASSUME NEW k \in DOMAIN u
      PROVE  \/ k \in DOMAIN s /\ u[k] = s[k]
             \/ \E j \in DOMAIN t : k = Len(s) + j /\ u[k] = t[j]
  <2>1. CASE k <= Len(s)
    BY <1>1, <2>1
  <2>2. CASE ~(k <= Len(s))
    <3>1. k - Len(s) \in DOMAIN t /\ k = Len(s) + (k - Len(s))
      BY <1>1, <2>2
    <3> QED
      BY <1>1, <3>1
  <2> QED
    BY <2>1, <2>2
<1> QED
  BY <1>1, <1>2 DEF Joined

\* What comes later in a query counts.
LEMMA SaidLater ==
  ASSUME NEW s, NEW t, IsQuery(s), IsQuery(t), NEW n
  PROVE  /\ (\A i \in Range(t) : i.name # n) => Said(s \o t, n) = Said(s, n)
         /\ (\E i \in Range(t) : i.name = n /\ i.value # None) => Said(s \o t, n) = Said(t, n)
<1>u. PICK u : u = s \o t
  OBVIOUS
<1>j. Joined(u, s, t)
  BY <1>u, ConcatenatedAt
<1>1. /\ IsQuery(u) /\ DOMAIN u = 1 .. Len(s) + Len(t)
      /\ Len(s) \in Nat /\ Len(t) \in Nat
      /\ DOMAIN s = 1 .. Len(s) /\ DOMAIN t = 1 .. Len(t)
      /\ \A k \in 1 .. Len(s) : u[k] = s[k]
      /\ \A k \in 1 .. Len(t) : u[Len(s) + k] = t[k]
  BY <1>j DEF Joined
<1>2. \A k \in DOMAIN u : \/ k \in DOMAIN s /\ u[k] = s[k]
                         \/ \E j \in DOMAIN t : k = Len(s) + j /\ u[k] = t[j]
  BY <1>j DEF Joined
<1>3. ASSUME \A i \in Range(t) : i.name # n
      PROVE  Said(u, n) = Said(s, n)
  <2>0. \A j \in DOMAIN t : t[j].name # n
    BY <1>3 DEF Range
  <2>1. CASE \A j \in DOMAIN s : s[j].name = n => s[j].value = None
    <3>1. \A k \in DOMAIN u : u[k].name = n => u[k].value = None
      BY <1>2, <2>0, <2>1
    <3> QED
      BY <2>1, <3>1, SaidNothing
  <2>2. CASE \E k \in DOMAIN s : /\ s[k].name = n /\ s[k].value # None
                                 /\ \A j \in DOMAIN s : s[j].name = n /\ s[j].value # None => j <= k
                                 /\ Said(s, n) = s[k].value
    <3>1. PICK k \in DOMAIN s : /\ s[k].name = n /\ s[k].value # None
                                /\ \A j \in DOMAIN s : s[j].name = n /\ s[j].value # None => j <= k
                                /\ Said(s, n) = s[k].value
      BY <2>2
    <3>2. k \in DOMAIN u /\ u[k] = s[k]
      BY <1>1
    <3>3. \A j \in DOMAIN u : u[j].name = n /\ u[j].value # None => j <= k
      BY <1>2, <2>0, <3>1
    <3>4. Said(u, n) = u[k].value
      BY <1>1, <3>1, <3>2, <3>3, SaidLast
    <3> QED
      BY <3>1, <3>2, <3>4
  <2> QED
    BY <2>1, <2>2, SaidSomewhere
<1>4. ASSUME NEW i \in Range(t), i.name = n, i.value # None
      PROVE  Said(u, n) = Said(t, n)
  <2>0. PICK x \in DOMAIN t : t[x] = i
    BY DEF Range
  <2>1. PICK k \in DOMAIN t : /\ t[k].name = n /\ t[k].value # None
                              /\ \A j \in DOMAIN t : t[j].name = n /\ t[j].value # None => j <= k
                              /\ Said(t, n) = t[k].value
    BY <1>4, <2>0, SaidSomewhere
  <2>2. Len(s) + k \in DOMAIN u /\ u[Len(s) + k] = t[k] /\ k \in Nat /\ k >= 1
    BY <1>1
  <2>3. ASSUME NEW j \in DOMAIN u, u[j].name = n, u[j].value # None
        PROVE  j <= Len(s) + k
    <3>1. CASE j \in DOMAIN s
      BY <1>1, <2>2, <3>1
    <3>2. CASE \E y \in DOMAIN t : j = Len(s) + y /\ u[j] = t[y]
      <4>1. PICK y \in DOMAIN t : j = Len(s) + y /\ u[j] = t[y]
        BY <3>2
      <4>2. y <= k /\ y \in Nat
        BY <1>1, <2>1, <2>3, <4>1
      <4> QED
        BY <1>1, <2>2, <4>1, <4>2
    <3> QED
      BY <1>2, <3>1, <3>2
  <2>4. Said(u, n) = u[Len(s) + k].value
    BY <1>1, <2>1, <2>2, <2>3, SaidLast, ZenonT(60)
  <2> QED
    BY <2>1, <2>2, <2>4
<1> QED
  BY <1>u, <1>3, <1>4

\* full_uri says of the user's own parameters what the query said.
THEOREM CleanedSays ==
  ASSUME NEW r, IsQuery(r.args), NEW n, ~IsOpenIdVar(n)
  PROVE  Said(FullUri(r, TRUE), n) = Said(r.args, n)
<1>p. PICK p : p = ParseQueryString(r.args)
  OBVIOUS
<1>o. PICK own : own = RemoveOpenIdVars(p)
  OBVIOUS
<1>1. /\ IsFiniteSet(DOMAIN p)
      /\ \A m \in DOMAIN p : \E i \in Range(r.args) : i.value = p[m] /\ i.value # None
  BY <1>p, Parsed
<1>2. /\ DOMAIN own = {m \in DOMAIN p : ~IsOpenIdVar(m)}
      /\ own = [m \in DOMAIN own |-> p[m]]
      /\ IsFiniteSet(DOMAIN own)
  <2>1. IsFiniteSet(DOMAIN p)
    BY <1>1
  <2> QED
    BY ONLY <1>o, <2>1, RemovedIs
<1>3. \A m \in DOMAIN own : m \in DOMAIN p /\ own[m] = p[m] /\ own[m] # None
  BY <1>1, <1>2
<1>4. Said(Query(own), n) = IF n \in DOMAIN own THEN own[n] ELSE Empty
  <2>1. IsFiniteSet(DOMAIN own) /\ \A m \in DOMAIN own : own[m] # None
    BY <1>2, <1>3
  <2> QED
    BY <2>1, SaidInQuery
<1>5. Said(r.args, n) = IF n \in DOMAIN p THEN p[n] ELSE Empty
  BY <1>p, SaidIsParsed
<1>6. FullUri(r, TRUE) = Query(own)
  BY <1>o, <1>p DEF FullUri
<1>7. n \in DOMAIN own <=> n \in DOMAIN p
  BY <1>2
<1> QED
  BY <1>3, <1>4, <1>5, <1>6, <1>7

================================================================================
