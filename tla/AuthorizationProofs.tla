-------------------------- MODULE AuthorizationProofs --------------------------
(***************************************************************************)
(* Theorems about the authorization hooks, for every sequence of Require   *)
(* lines and every user, with the proofs TLAPS checks.                     *)
(***************************************************************************)
EXTENDS Authorization, Integers, WellFoundedInduction, TLAPS

\* A set of positions has a first one.
LEMMA Least ==
  ASSUME NEW I, I \subseteq Nat, I # {}
  PROVE  Min(I) \in I /\ \A i \in I : Min(I) <= i
<1> DEFINE Less == {ss \in Nat \X Nat : ss[1] < ss[2]}
<1>1. IsWellFoundedOn(Less, Nat)
  BY NatLessThanWellFounded DEF OpToRel
<1>2. PICK x \in I : \A y \in I : ~ (<<y, x>> \in Less)
  BY <1>1, WFMin
<1>3. ASSUME NEW y \in I
      PROVE  x <= y
  <2>1. x \in Nat /\ y \in Nat /\ <<y, x>> \notin Less
    BY <1>2
  <2>2. <<y, x>> \in Nat \X Nat /\ <<y, x>>[1] = y /\ <<y, x>>[2] = x
    BY <2>1
  <2>3. ~ (y < x)
    BY <2>1, <2>2
  <2> QED
    BY <2>1, <2>3
<1> QED
  BY <1>3 DEF Min

\* The words that count are words of the line, none of them is empty, and they are
\* all of the words if none of those is.
LEMMA WordsThatCount ==
  ASSUME NEW Word, NEW names \in Seq(Word)
  PROVE  LET end == SelectInSeq(names, LAMBDA w : w = Empty)
             words == IF end = 0 THEN names ELSE SubSeq(names, 1, end - 1)
         IN /\ Range(words) \subseteq Range(names) \ {Empty}
            /\ Empty \notin Range(names) => words = names
<1> DEFINE I == {i \in 1 .. Len(names) : names[i] = Empty}
           end == SelectInSeq(names, LAMBDA w : w = Empty)
           words == IF end = 0 THEN names ELSE SubSeq(names, 1, end - 1)
<1>1. end = IF I # {} THEN Min(I) ELSE 0
  BY DEF SelectInSeq
<1>i. /\ I \subseteq Nat /\ I \subseteq 1 .. Len(names)
      /\ \A i \in 1 .. Len(names) : i \in I <=> names[i] = Empty
  OBVIOUS
<1> HIDE DEF I, end
<1>2. ASSUME I = {}
      PROVE  /\ Range(words) \subseteq Range(names) \ {Empty}
             /\ Empty \notin Range(names) => words = names
  <2>1. end = 0 /\ words = names
    BY <1>1, <1>2
  <2>2. \A i \in DOMAIN names : names[i] # Empty
    BY <1>2, <1>i
  <2>3. Empty \notin Range(names)
    BY <2>2 DEF Range
  <2> QED
    BY <2>1, <2>3
<1>3. ASSUME I # {}
      PROVE  /\ Range(words) \subseteq Range(names) \ {Empty}
             /\ Empty \notin Range(names) => words = names
  <2>1. end \in I /\ \A i \in I : end <= i
    BY <1>1, <1>3, <1>i, Least
  <2>2. end \in 1 .. Len(names) /\ names[end] = Empty
    BY <1>i, <2>1
  <2>3. words = SubSeq(names, 1, end - 1)
    BY <2>2
  <2>4. ASSUME NEW x \in Range(words)
        PROVE  x \in Range(names) \ {Empty}
    <3>1. /\ DOMAIN words = 1 .. end - 1
          /\ \A i \in 1 .. end - 1 : words[i] = names[i]
      BY <2>2, <2>3
    <3>2. PICK i \in 1 .. end - 1 : x = names[i]
      BY <3>1 DEF Range
    <3>3. i \in 1 .. Len(names) /\ i < end
      BY <2>2
    <3>4. names[i] # Empty
      BY <1>i, <2>1, <3>3
    <3> QED
      BY <3>2, <3>3, <3>4 DEF Range
  <2>5. Empty \in Range(names)
    BY <2>2 DEF Range
  <2> QED
    BY <2>4, <2>5
<1>4. /\ Range(words) \subseteq Range(names) \ {Empty}
      /\ Empty \notin Range(names) => words = names
  BY <1>2, <1>3
<1> QED
  BY <1>4 DEF end

\* What Apache 2.4 is told of a user line.
LEMMA GrantedIsNamed ==
  ASSUME NEW Word, NEW names \in Seq(Word), NEW user,
         UserCheckAuthorization(user, names) = "AUTHZ_GRANTED"
  PROVE  user \in Range(names) /\ user # Empty
<1> DEFINE end == SelectInSeq(names, LAMBDA w : w = Empty)
           words == IF end = 0 THEN names ELSE SubSeq(names, 1, end - 1)
<1>1. user \in Range(words)
  BY DEF UserCheckAuthorization
<1>2. Range(words) \subseteq Range(names) \ {Empty}
  BY WordsThatCount
<1> QED
  BY <1>1, <1>2

LEMMA NamedIsGranted ==
  ASSUME NEW Word, NEW names \in Seq(Word), Empty \notin Range(names),
         NEW user \in Range(names), user # None
  PROVE  UserCheckAuthorization(user, names) = "AUTHZ_GRANTED"
<1> DEFINE end == SelectInSeq(names, LAMBDA w : w = Empty)
           words == IF end = 0 THEN names ELSE SubSeq(names, 1, end - 1)
<1>1. words = names
  BY WordsThatCount
<1> QED
  BY <1>1 DEF UserCheckAuthorization

\* The hooks for Apache 2.4 and for Apache 2.2, written separately, let the same
\* users in, whatever the Require lines, provided that no word of a user line is
\* empty: the 2.4 build goes no further than an empty word, the 2.2 build does.
THEOREM BuildsAgree ==
  ASSUME NEW Word, NEW lines, NEW method, NEW user, user # None,
         \A line \in Range(lines) :
           /\ line.names \in Seq(Word)
           /\ line.what = "user" => Empty \notin Range(line.names)
  PROVE  Authorized(lines, method, user) <=> CheckUserAccess(lines, method, user) = "OK"
<1> DEFINE Meets(line) ==
             \/ line.what = "valid-user"
             \/ line.what = "user" /\ user \in Range(line.names)
<1>1. ASSUME NEW line \in Range(lines)
      PROVE  Grants(line, user) <=> Meets(line)
  <2>1. CASE line.what = "user"
    <3>1. UserCheckAuthorization(user, line.names) = "AUTHZ_GRANTED" <=> user \in Range(line.names)
      BY <2>1, GrantedIsNamed, NamedIsGranted
    <3> QED
      BY <2>1, <3>1 DEF Grants
  <2>2. CASE line.what # "user"
    <3>1. ValidUserCheckAuthorization(user) = "AUTHZ_GRANTED"
      BY DEF ValidUserCheckAuthorization
    <3> QED
      BY <2>2, <3>1 DEF Grants
  <2> QED
    BY <2>1, <2>2
<1>2. Authorized(lines, method, user) <=>
        \E line \in Range(lines) : method \in line.methods /\ Meets(line)
  BY <1>1 DEF Authorized
<1>3. CheckUserAccess(lines, method, user) = "OK" <=>
        \E line \in Range(lines) : method \in line.methods /\ Meets(line)
  <2> DEFINE mine == {l \in Range(lines) : method \in l.methods}
             met == \E l \in mine : l.what = "valid-user" \/ (l.what = "user" /\ user \in Range(l.names))
             required_user == \E l \in mine : l.what = "user"
  <2>1. met <=> \E line \in Range(lines) : method \in line.methods /\ Meets(line)
    OBVIOUS
  <2>2. CheckUserAccess(lines, method, user) =
          CASE met -> "OK" [] OTHER -> IF required_user THEN "HTTP_UNAUTHORIZED" ELSE "DECLINED"
    BY DEF CheckUserAccess
  <2> HIDE DEF met, required_user
  <2> QED
    BY <2>1, <2>2
<1> QED
  BY <1>2, <1>3

================================================================================
