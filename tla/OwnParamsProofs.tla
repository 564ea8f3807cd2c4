---------------------------- MODULE OwnParamsProofs ----------------------------
(***************************************************************************)
(* The user's own parameters on the whole way of a login, for any queries  *)
(* and forms: LoginRoundTrip's OwnParamsKept and UrlsClean.                *)
(***************************************************************************)
EXTENDS LoginRoundTripProofs

--------------------------------------------------------------------------------
(* The invariant, beside the one of LoginRoundTripProofs.                  *)

\* url says of the user's own parameters what the user has asked or posted.
KeptIn(url, w) ==
  \A n : ~IsOpenIdVar(n) =>
    \/ Said(url, n) = Said(w.args, n)
    \/ \E i \in Range(w.body) : i.name = n /\ Said(url, n) \in ReadAs(i)

\* A form that reaches the handler is the user's, or has nothing of the user's own.
Posted ==
  msg.at = "site" /\ msg.method = "POST" =>
    \A i \in Range(msg.body) : IsOpenIdVar(i.name) \/ i \in Range(wanted.body)

\* All parameters of OpenID, those of its extensions included.
OpenIdItems(q) == {k \in DOMAIN q : IsOpenIdVar(q[k].name)}

\* An address with the nonce n once, nothing else of OpenID, and no name more than
\* twice.
Once(s, n) ==
  /\ \E k \in DOMAIN s : OpenIdItems(s) = {k} /\ s[k] = Item(Nonce, n)
  /\ \A i \in Range(s) : Cardinality({k \in DOMAIN s : s[k].name = i.name}) <= 2

OwnInv ==
  /\ msg.at # "nothing" => KeptIn(Address, wanted)
  /\ Posted
  /\ msg.at = "provider" => Once(Address, attempt)

--------------------------------------------------------------------------------
(* Addresses.                                                              *)

\* Parameters of OpenID at the end of a query say nothing of the user's own.
LEMMA SaidBefore ==
  ASSUME NEW s, NEW t, IsQuery(s), IsQuery(t), \A i \in Range(t) : IsOpenIdVar(i.name),
         NEW n, ~IsOpenIdVar(n)
  PROVE  Said(s \o t, n) = Said(s, n)
<1>1. \A i \in Range(t) : i.name # n
  OBVIOUS
<1> QED
  BY <1>1, SaidLater

LEMMA SameKept ==
  ASSUME NEW url, NEW old, NEW w, KeptIn(old, w),
         \A n : ~IsOpenIdVar(n) => Said(url, n) = Said(old, n)
  PROVE  KeptIn(url, w)
  BY DEF KeptIn

LEMMA AddressIs ==
  /\ msg.at \in {"site", "page", "form"} => Address = msg.args
  /\ msg'.at \in {"site", "page", "form"} => Address' = msg'.args
  /\ msg.at = "provider" => Address = Received[ReturnTo]
  /\ msg.at = "login_page" => Address = Received[Referrer]
  BY DEF Address

LEMMA AddressKept ==
  ASSUME msg' = msg
  PROVE  Address' = Address
  BY DEF Address, Received

LEMMA AtMostTwo ==
  ASSUME NEW S, NEW a, NEW b, S \subseteq {a, b}
  PROVE  Cardinality(S) <= 2
<1>1. IsFiniteSet({a}) /\ Cardinality({a}) = 1
  BY FS_Singleton
<1>2. IsFiniteSet({a} \cup {b}) /\ Cardinality({a} \cup {b}) <= 2
  BY <1>1, FS_AddElement
<1>3. {a, b} = {a} \cup {b}
  OBVIOUS
<1>4. IsFiniteSet({a, b}) /\ Cardinality({a, b}) <= 2
  BY <1>2, <1>3
<1>5. Cardinality(S) <= Cardinality({a, b}) /\ Cardinality(S) \in Nat /\ Cardinality({a, b}) \in Nat
  BY <1>4, FS_Subset, FS_CardinalityType
<1> QED
  BY <1>4, <1>5

\* No name is twice in a query that append_query has written.
NamesOnce(s) == \A j, k \in DOMAIN s : s[j].name = s[k].name => j = k

LEMMA NamesTwice ==
  ASSUME NEW s, NEW t, NamesOnce(s), NamesOnce(t), NEW u, Joined(u, s, t), NEW n
  PROVE  Cardinality({k \in DOMAIN u : u[k].name = n}) <= 2
<1> DEFINE S == {k \in DOMAIN u : u[k].name = n}
           a == CHOOSE k \in DOMAIN s : s[k].name = n
           b == CHOOSE k \in DOMAIN t : t[k].name = n
<1>1. ASSUME NEW k \in S
      PROVE  k \in {a, Len(s) + b}
  <2>1. CASE k \in DOMAIN s /\ u[k] = s[k]
    <3>1. s[k].name = n /\ k \in DOMAIN s
      BY <2>1
    <3>2. a \in DOMAIN s /\ s[a].name = n
      BY <3>1
    <3>3. k = a
      BY <3>1, <3>2 DEF NamesOnce
    <3> QED
      BY <3>3
  <2>2. CASE \E j \in DOMAIN t : k = Len(s) + j /\ u[k] = t[j]
    <3>1. PICK j \in DOMAIN t : k = Len(s) + j /\ t[j].name = n
      BY <2>2
    <3>2. b \in DOMAIN t /\ t[b].name = n
      BY <3>1
    <3>3. j = b
      BY <3>1, <3>2 DEF NamesOnce
    <3> QED
      BY <3>1, <3>3
  <2> QED
    BY <2>1, <2>2 DEF Joined
<1> HIDE DEF a, b
<1>2. S \subseteq {a, Len(s) + b}
  BY <1>1
<1>3. Cardinality(S) <= 2
  BY <1>2, AtMostTwo
<1> QED
  BY <1>3

\* The address the provider is given: the nonce is in it once, and what the user
\* has asked, or posted with the request that starts the login.
LEMMA ReturnToKeeps ==
  ASSUME Inv, msg.at = "site", ~(cookie /\ conf.use_cookie), NEW p \in GetRequestParams(msg),
         Posted, KeptIn(msg.args, wanted), NEW u, u = ReturnToUrl(p)
  PROVE  Once(u, attempt + 1) /\ KeptIn(u, wanted)
<1>1. MessageOK(msg) /\ IsQuery(msg.args)
  BY Handled DEF MessageOK
<1>2. /\ IsFiniteSet(DOMAIN p)
      /\ \A n \in DOMAIN p : p[n] # None
      /\ msg.method = "GET" => p = ParseQueryString(msg.args)
      /\ msg.method = "POST" =>
           \A n \in DOMAIN p : \E i \in Range(msg.body) : i.name = n /\ p[n] \in ReadAs(i)
  BY <1>1, ParamsOf
<1>o. PICK own : own = RemoveOpenIdVars(p)
  OBVIOUS
<1>3. /\ IsFiniteSet(DOMAIN own) /\ \A n : n \in DOMAIN own <=> n \in DOMAIN p /\ ~IsOpenIdVar(n)
      /\ \A n \in DOMAIN own : own[n] = p[n]
  <2>1. /\ DOMAIN own = {n \in DOMAIN p : ~IsOpenIdVar(n)}
        /\ own = [n \in DOMAIN own |-> p[n]]
        /\ IsFiniteSet(DOMAIN own)
    <3>1. IsFiniteSet(DOMAIN p)
      BY <1>2
    <3> QED
      BY ONLY <1>o, <3>1, RemovedIs
  <2> QED
    BY <2>1
<1>n. PICK named : named = With(own, Nonce, attempt + 1)
  OBVIOUS
<1>4. /\ IsFiniteSet(DOMAIN named) /\ \A n : n \in DOMAIN named <=> n \in DOMAIN own \/ n = Nonce
      /\ named[Nonce] = attempt + 1
      /\ \A n \in DOMAIN own : n # Nonce => named[n] = own[n]
  BY <1>3, <1>n, WithGives
<1>q. PICK q : q = Query(named)
  OBVIOUS
<1>5. /\ IsQuery(q) /\ Range(q) = {Item(n, named[n]) : n \in DOMAIN named}
      /\ Enumerates(named, DOMAIN named, q)
  BY <1>4, <1>q, Written, QueryEnumerates
<1>r. PICK url : url = FullUri(msg, TRUE)
  OBVIOUS
<1>6. IsQuery(url) /\ (\A i \in Range(url) : ~IsOpenIdVar(i.name)) /\ NamesOnce(url)
  <2>1. IsQuery(url) /\ \A i \in Range(url) : ~IsOpenIdVar(i.name)
    BY <1>1, <1>r, CleanedUri
  <2>2. PICK of : of = ParseQueryString(msg.args) /\ IsFiniteSet(DOMAIN of)
    BY <1>1, Parsed
  <2>3. PICK left : left = RemoveOpenIdVars(of) /\ IsFiniteSet(DOMAIN left)
    BY <2>2, RemovedIs
  <2>4. Enumerates(left, DOMAIN left, url)
    <3>1. url = Query(left)
      BY <1>r, <2>2, <2>3 DEF FullUri
    <3> QED
      BY <2>3, <3>1, QueryEnumerates
  <2> QED
    BY <2>1, <2>4 DEF Enumerates, NamesOnce
<1>7. u = url \o q
  BY <1>o, <1>n, <1>q, <1>r DEF ReturnToUrl
<1>j. Joined(u, url, q)
  BY <1>5, <1>6, <1>7, ConcatenatedAt
<1>8. NamesOnce(q)
  BY <1>5 DEF Enumerates, NamesOnce
<1>9. \A i \in Range(u) : Cardinality({k \in DOMAIN u : u[k].name = i.name}) <= 2
  <2>1. ASSUME NEW n
        PROVE  Cardinality({k \in DOMAIN u : u[k].name = n}) <= 2
    <3>1. NamesOnce(url) /\ NamesOnce(q)
      BY <1>6, <1>8
    <3> QED
      BY <1>j, <3>1, NamesTwice
  <2> QED
    BY <2>1
<1>10. \E k \in DOMAIN u : OpenIdItems(u) = {k} /\ u[k] = Item(Nonce, attempt + 1)
  <2>1. PICK j \in DOMAIN q : q[j] = Item(Nonce, attempt + 1)
    BY <1>4, <1>5 DEF Enumerates
  <2>2. q[j].name = Nonce /\ IsOpenIdVar(Nonce)
    BY <2>1, NamesDiffer DEF Item
  <2>3. ASSUME NEW x \in DOMAIN q, IsOpenIdVar(q[x].name)
        PROVE  x = j
    <3>1. PICK n \in DOMAIN named : q[x] = Item(n, named[n])
      BY <1>5, ItemOf
    <3>2. q[x].name = n
      BY <3>1 DEF Item
    <3>3. n = Nonce
      BY <1>3, <1>4, <2>3, <3>2
    <3> QED
      BY <1>8, <2>2, <3>2, <3>3 DEF NamesOnce
  <2>4. \A x \in DOMAIN url : ~IsOpenIdVar(url[x].name)
    BY <1>6, ItemOf
  <2>5. Len(url) + j \in DOMAIN u /\ u[Len(url) + j] = q[j]
    BY <1>j DEF Joined
  <2>6. ASSUME NEW k \in DOMAIN u, IsOpenIdVar(u[k].name)
        PROVE  k = Len(url) + j
    <3>1. \/ k \in DOMAIN url /\ u[k] = url[k]
          \/ \E x \in DOMAIN q : k = Len(url) + x /\ u[k] = q[x]
      BY <1>j DEF Joined
    <3>2. ~(k \in DOMAIN url /\ u[k] = url[k])
      BY <2>4, <2>6
    <3> QED
      BY <2>3, <2>6, <3>1, <3>2
  <2>7. OpenIdItems(u) = {Len(url) + j}
    BY <2>2, <2>5, <2>6 DEF OpenIdItems
  <2> QED
    BY <2>1, <2>5, <2>7
<1>11. ASSUME NEW n, ~IsOpenIdVar(n)
       PROVE  \/ Said(u, n) = Said(msg.args, n)
              \/ \E i \in Range(wanted.body) : i.name = n /\ Said(u, n) \in ReadAs(i)
  <2>0. n # Nonce
    BY <1>11, NamesDiffer
  <2>1. Said(url, n) = Said(msg.args, n)
    BY <1>1, <1>r, <1>11, CleanedSays
  <2>2. CASE n \notin DOMAIN p
    <3>1. ASSUME NEW i \in Range(q)
          PROVE  i.name # n
      <4>1. PICK m \in DOMAIN named : i = Item(m, named[m])
        BY <1>5
      <4>2. i.name = m
        BY <4>1 DEF Item
      <4> QED
        BY <1>3, <1>4, <2>0, <2>2, <4>2
    <3>2. Said(u, n) = Said(url, n)
      BY <1>5, <1>6, <1>7, <3>1, SaidLater
    <3> QED
      BY <2>1, <3>2
  <2>3. CASE n \in DOMAIN p
    <3>1. n \in DOMAIN named /\ named[n] = p[n] /\ p[n] # None
      BY <1>2, <1>3, <1>4, <1>11, <2>0, <2>3
    <3>2. Item(n, named[n]) \in Range(q) /\ Item(n, named[n]).name = n /\ Item(n, named[n]).value = p[n]
      BY <1>5, <3>1 DEF Item
    <3>3. Said(u, n) = Said(q, n)
      BY <1>5, <1>6, <1>7, <3>1, <3>2, SaidLater
    <3>4. \A m \in DOMAIN named : named[m] # None
      <4>1. attempt + 1 # None
        BY SentinelAssumption DEF Inv, Shape
      <4> QED
        BY <1>2, <1>3, <1>4, <4>1
    <3>5. Said(q, n) = p[n]
      BY <1>4, <1>q, <3>1, <3>4, SaidInQuery
    <3>6. CASE msg.method = "GET"
      <4>1. Said(msg.args, n) = p[n]
        BY <1>1, <1>2, <2>3, <3>6, SaidIsParsed
      <4> QED
        BY <3>3, <3>5, <4>1
    <3>7. CASE msg.method = "POST"
      <4>1. PICK i \in Range(msg.body) : i.name = n /\ p[n] \in ReadAs(i)
        BY <1>2, <2>3, <3>7
      <4>2. i \in Range(wanted.body)
        BY <1>11, <3>7, <4>1 DEF Posted
      <4> QED
        BY <3>3, <3>5, <4>1, <4>2
    <3> QED
      BY <1>1, <3>6, <3>7 DEF MessageOK
  <2> QED
    BY <2>2, <2>3
<1>12. KeptIn(u, wanted)
  <2>1. SUFFICES ASSUME NEW n, ~IsOpenIdVar(n)
                 PROVE  \/ Said(u, n) = Said(wanted.args, n)
                        \/ \E i \in Range(wanted.body) : i.name = n /\ Said(u, n) \in ReadAs(i)
    BY DEF KeptIn
  <2>2. CASE Said(u, n) = Said(msg.args, n)
    BY <2>1, <2>2 DEF KeptIn
  <2>3. CASE \E i \in Range(wanted.body) : i.name = n /\ Said(u, n) \in ReadAs(i)
    BY <2>3
  <2> QED
    BY <1>11, <2>1, <2>2, <2>3
<1> QED
  BY <1>9, <1>10, <1>12 DEF Once

--------------------------------------------------------------------------------
(* The steps.                                                              *)

LEMMA InitOwn ==
  ASSUME Init
  PROVE  OwnInv
<1>1. msg.at = "nothing"
  BY GetIs DEF Init
<1> QED
  BY <1>1 DEF OwnInv, Posted

\* The request and what the user wanted stay.
LEMMA SameRequestOwn ==
  ASSUME OwnInv, msg' = msg, wanted' = wanted, attempt' = attempt
  PROVE  OwnInv'
<1>1. Address' = Address
  BY AddressKept
<1>2. Posted'
  BY DEF OwnInv, Posted
<1> QED
  BY <1>1, <1>2 DEF OwnInv

LEMMA AskForPageOwn ==
  ASSUME AskForPage
  PROVE  OwnInv'
<1>1. PICK q \in Asks, body \in {<<>>} \cup Forms :
        /\ msg'.at = "site" /\ msg'.args = q /\ msg'.body = body
        /\ wanted' = [args |-> q, body |-> body]
  <2>1. CASE \E q \in Asks : msg' = Get("site", "user", q) /\ wanted' = [args |-> q, body |-> <<>>]
    <3>1. PICK q \in Asks : msg' = Get("site", "user", q) /\ wanted' = [args |-> q, body |-> <<>>]
      BY <2>1
    <3>2. msg' = Get("site", "user", q)
      BY <3>1
    <3>3. msg'.at = "site" /\ msg'.args = q /\ msg'.body = <<>>
      BY ONLY <3>2, GetIs
    <3> QED
      BY <3>1, <3>3
  <2>2. CASE \E q \in Asks, form \in Forms, type \in {"form", "other", None} :
               /\ msg' = [Post("site", "user", q, form) EXCEPT !.type = type]
               /\ wanted' = [args |-> q, body |-> form]
    BY <2>2 DEF Post, Get
  <2> QED
    BY <2>1, <2>2 DEF AskForPage
<1>2. Address' = q
  BY <1>1, AddressIs
<1>3. wanted'.args = q /\ wanted'.body = body
  BY <1>1
<1>4. KeptIn(q, wanted')
  BY <1>3 DEF KeptIn
<1>5. Posted'
  BY <1>1, <1>3 DEF Posted
<1> QED
  BY <1>1, <1>2, <1>4, <1>5 DEF OwnInv

LEMMA NoContentTypeOwn ==
  ASSUME NoContentType
  PROVE  OwnInv'
<1>1. msg'.at = "nothing"
  BY GetIs DEF NoContentType
<1> QED
  BY <1>1 DEF OwnInv, Posted

LEMMA ReloadOwn ==
  ASSUME OwnInv, Reload
  PROVE  OwnInv'
<1>1. msg.at = "page" /\ msg' = Get("site", "user", msg.args) /\ wanted' = wanted
  BY DEF Reload
<1>2. msg'.at = "site" /\ msg'.method = "GET" /\ msg'.args = msg.args
  BY <1>1, GetIs
<1>3. Address' = Address
  BY <1>1, <1>2, AddressIs
<1> QED
  BY <1>1, <1>2, <1>3 DEF OwnInv, Posted

LEMMA FillInOwn ==
  ASSUME Inv, OwnInv, FillIn
  PROVE  OwnInv'
<1>a. PICK x : x = Item(Identifier, Id)
  OBVIOUS
<1>b. PICK t : t = <<x>>
  OBVIOUS
<1>c. PICK args : args = Append(msg.args, x) /\ msg' = Get("site", "user", args)
  BY <1>a DEF FillIn
<1>1. msg.at = "form" /\ wanted' = wanted
  BY DEF FillIn, tripVars
<1>2. msg'.at = "site" /\ msg'.method = "GET" /\ msg'.args = args
  <2>1. msg' = Get("site", "user", args)
    BY <1>c
  <2> QED
    BY ONLY <2>1, GetIs
<1>3. IsQuery(msg.args)
  BY DEF Inv, Shape, MessageOK
<1>4. IsQuery(t) /\ Range(t) = {x}
  <2>1. t \in Seq({x}) /\ DOMAIN t = 1 .. 1 /\ t[1] = x
    BY <1>b
  <2> QED
    BY <2>1, StringIsQuery DEF Range
<1>5. args = msg.args \o t
  <2>1. PICK T : T = Range(msg.args) \cup {x}
    OBVIOUS
  <2>2. msg.args \in Seq(T) /\ x \in T
    BY <1>3, <2>1 DEF IsQuery
  <2>3. \A s \in Seq(T) : Append(s, x) = s \o <<x>>
    BY <2>2
  <2> QED
    BY <1>b, <1>c, <2>2, <2>3
<1>6. IsOpenIdVar(x.name)
  BY <1>a, NamesDiffer DEF Item
<1>7. \A n : ~IsOpenIdVar(n) => Said(args, n) = Said(msg.args, n)
  <2>1. ASSUME NEW n, ~IsOpenIdVar(n)
        PROVE  Said(msg.args \o t, n) = Said(msg.args, n)
    BY <1>3, <1>4, <1>6, <2>1, SaidBefore
  <2> QED
    BY <1>5, <2>1
<1>8. Address = msg.args /\ Address' = args
  BY <1>1, <1>2, AddressIs
<1>9. KeptIn(Address', wanted')
  BY <1>1, <1>7, <1>8, SameKept DEF OwnInv
<1> QED
  BY <1>2, <1>9 DEF OwnInv, Posted

LEMMA LoginPageReturnsOwn ==
  ASSUME Inv, OwnInv, LoginPageReturns
  PROVE  OwnInv'
<1> DEFINE sreg == Item(<<"openid", "sreg", "required">>, Id)
           id == Item(Identifier, Id)
<1>p. PICK ext \in {<<>>, <<sreg>>} :
        msg' \in {Get("site", "login_page", Received[Referrer] \o (<<id>> \o ext)),
                  Post("site", "login_page", Received[Referrer], <<id>> \o ext)}
  BY DEF LoginPageReturns
<1>q. PICK fields : fields = <<id>> \o ext
  OBVIOUS
<1>r. PICK url : url = Received[Referrer]
  OBVIOUS
<1>0. IsOpenIdVar(id.name) /\ IsOpenIdVar(sreg.name)
  <2>1. id.name = Identifier /\ sreg.name = <<"openid", "sreg", "required">>
    BY DEF Item
  <2>2. IsOpenIdVar(<<"openid", "sreg", "required">>)
    BY DEF IsOpenIdVar
  <2> QED
    BY <2>1, <2>2, NamesDiffer
<1> HIDE DEF sreg, id
<1>a. msg' = Get("site", "login_page", url \o fields) \/ msg' = Post("site", "login_page", url, fields)
  BY <1>p, <1>q, <1>r
<1>1. msg.at = "login_page" /\ wanted' = wanted
  BY DEF LoginPageReturns, tripVars
<1>2. IsQuery(url) /\ Address = url
  <2>1. CleanUrl(Received[Referrer])
    BY <1>1 DEF Inv, Addresses
  <2>2. Address = Received[Referrer]
    BY <1>1, AddressIs
  <2> QED
    BY <1>r, <2>1, <2>2 DEF CleanUrl
<1>3. IsQuery(fields) /\ \A i \in Range(fields) : IsOpenIdVar(i.name)
  <2>1. (ext = <<>> \/ ext = <<sreg>>) /\ fields = <<id>> \o ext
    BY <1>q
  <2>2. <<id>> \in Seq({id, sreg}) /\ <<sreg>> \in Seq({id, sreg}) /\ <<>> \in Seq({id, sreg})
    OBVIOUS
  <2>3. \A s, t \in Seq({id, sreg}) : s \o t \in Seq({id, sreg})
    OBVIOUS
  <2>4. fields \in Seq({id, sreg})
    BY <2>1, <2>2, <2>3
  <2>5. Range(fields) \subseteq {id, sreg}
    BY <2>4 DEF Range
  <2> QED
    BY <1>0, <2>4, <2>5, StringIsQuery
<1>4. \A n : ~IsOpenIdVar(n) => Said(url \o fields, n) = Said(url, n)
  BY <1>2, <1>3, SaidBefore
<1>5. CASE msg' = Get("site", "login_page", url \o fields)
  <2>1. PICK args : args = url \o fields
    OBVIOUS
  <2>2. msg' = Get("site", "login_page", args)
    BY <1>5, <2>1
  <2>3. msg'.at = "site" /\ msg'.method = "GET" /\ msg'.args = args
    BY ONLY <2>2, GetIs
  <2>4. Address' = args
    BY <2>3, AddressIs
  <2>5. \A n : ~IsOpenIdVar(n) => Said(Address', n) = Said(Address, n)
    BY <1>2, <1>4, <2>1, <2>4
  <2>6. KeptIn(Address', wanted')
    BY <1>1, <2>5, SameKept DEF OwnInv
  <2> QED
    BY <2>3, <2>6 DEF OwnInv, Posted
<1>6. CASE msg' = Post("site", "login_page", url, fields)
  <2>1. msg'.at = "site" /\ msg'.args = url /\ msg'.body = fields
    BY ONLY <1>6, PostIs
  <2>2. Address' = Address
    BY <1>2, <2>1, AddressIs
  <2>3. Posted'
    BY <1>3, <2>1 DEF Posted
  <2> QED
    BY <1>1, <2>1, <2>2, <2>3 DEF OwnInv
<1> QED
  BY <1>a, <1>5, <1>6

\* An answer of the provider goes to the address it was given.
LEMMA AnsweredOwn ==
  ASSUME Inv, OwnInv, msg.at = "provider", Answered, wanted' = wanted
  PROVE  OwnInv'
<1>r. PICK url : url = Received[ReturnTo]
  OBVIOUS
<1>1. PICK query :
        /\ IsQuery(query) /\ \A i \in Range(query) : IsOpenIdVar(i.name)
        /\ msg'.at = "site"
        /\ \/ msg'.method = "GET" /\ msg'.args = url \o query
           \/ msg'.method = "POST" /\ msg'.args = url /\ msg'.body = query
  BY <1>r DEF Answered
<1>2. IsQuery(url) /\ Address = url
  BY <1>r, AddressIs DEF Inv, Addresses, ReturnUrl
<1>3. Address' = msg'.args
  BY <1>1, AddressIs
<1>4. Posted'
  BY <1>1 DEF Posted
<1>5. \A n : ~IsOpenIdVar(n) => Said(url \o query, n) = Said(url, n)
  BY <1>1, <1>2, SaidBefore
<1>6. \A n : ~IsOpenIdVar(n) => Said(Address', n) = Said(Address, n)
  BY <1>1, <1>2, <1>3, <1>5
<1>7. KeptIn(Address', wanted')
  BY <1>6, SameKept DEF OwnInv
<1> QED
  BY <1>1, <1>4, <1>7 DEF OwnInv

LEMMA HasValidSessionOwn ==
  ASSUME Inv, OwnInv, HasValidSession
  PROVE  OwnInv'
<1>1. msg.at = "site" /\ msg' = [msg EXCEPT !.at = "page"] /\ wanted' = wanted
  BY DEF HasValidSession, tripVars
<1>2. MessageOK(msg)
  BY DEF Inv, Shape
<1>3. msg'.at = "page" /\ msg'.args = msg.args
  BY <1>1, <1>2 DEF MessageOK
<1>4. Address' = Address
  BY <1>1, <1>3, AddressIs
<1> QED
  BY <1>1, <1>3, <1>4 DEF OwnInv, Posted

\* The redirect after a login keeps what the response's query said of the user's
\* own parameters.
LEMMA PageSays ==
  ASSUME NEW args, IsQuery(args), NEW p, p = ParseQueryString(args), NEW n, ~IsOpenIdVar(n)
  PROVE  Said(PageQuery(p), n) = Said(args, n)
<1>1. /\ IsFiniteSet(DOMAIN p)
      /\ \A m \in DOMAIN p : \E i \in Range(args) : i.name = m /\ i.value = p[m] /\ i.value # None
  BY Parsed
<1>e. PICK ext : ext = GetExtensionParams(p)
  OBVIOUS
<1>o. PICK own : own = RemoveOpenIdVars(p)
  OBVIOUS
<1>m. PICK merged : merged = Assigned(own, ext)
  OBVIOUS
<1>2. /\ DOMAIN ext = {m \in DOMAIN p : Len(m) > 2}
      /\ ext = [m \in DOMAIN ext |-> p[m]]
      /\ IsFiniteSet(DOMAIN ext)
  <2>1. IsFiniteSet(DOMAIN p)
    BY <1>1
  <2> QED
    BY ONLY <1>e, <2>1, ExtensionsIs
<1>3. /\ DOMAIN own = {m \in DOMAIN p : ~IsOpenIdVar(m)}
      /\ own = [m \in DOMAIN own |-> p[m]]
      /\ IsFiniteSet(DOMAIN own)
  <2>1. IsFiniteSet(DOMAIN p)
    BY <1>1
  <2> QED
    BY ONLY <1>o, <2>1, RemovedIs
<1>4. /\ IsFiniteSet(DOMAIN merged)
      /\ \A m : m \in DOMAIN merged <=> m \in DOMAIN own \/ m \in DOMAIN ext
      /\ \A m \in DOMAIN ext : merged[m] = ext[m]
      /\ \A m \in DOMAIN own : m \notin DOMAIN ext => merged[m] = own[m]
  <2>1. IsFiniteSet(DOMAIN own) /\ IsFiniteSet(DOMAIN ext)
    BY <1>2, <1>3
  <2> QED
    BY ONLY <1>m, <2>1, AssignedGives
<1>5. \A m \in DOMAIN ext : m \in DOMAIN p /\ ext[m] = p[m]
  BY <1>2
<1>6. \A m \in DOMAIN own : m \in DOMAIN p /\ own[m] = p[m]
  BY <1>3
<1>7. \A m \in DOMAIN merged : m \in DOMAIN p /\ merged[m] = p[m] /\ merged[m] # None
  BY <1>1, <1>4, <1>5, <1>6
<1>8. n \in DOMAIN merged <=> n \in DOMAIN p
  BY <1>3, <1>4, <1>5
<1>9. Said(Query(merged), n) = IF n \in DOMAIN merged THEN merged[n] ELSE Empty
  <2>1. \A m \in DOMAIN merged : merged[m] # None
    BY <1>7
  <2> QED
    BY <1>4, <2>1, SaidInQuery
<1>10. Said(args, n) = IF n \in DOMAIN p THEN p[n] ELSE Empty
  BY SaidIsParsed
<1>11. PageQuery(p) = Query(merged)
  BY <1>e, <1>o, <1>m DEF PageQuery, MergeParams
<1> QED
  BY <1>7, <1>8, <1>9, <1>10, <1>11

LEMMA HandleRequestOwn ==
  ASSUME Inv, OwnInv, HandleRequest
  PROVE  OwnInv'
<1>1. msg.at = "site" /\ ~(cookie /\ conf.use_cookie) /\ wanted' = wanted
  BY DEF HandleRequest
<1>2. MessageOK(msg) /\ IsQuery(msg.args)
  BY DEF Inv, Shape, MessageOK
<1>3. Address = msg.args /\ KeptIn(msg.args, wanted) /\ Posted
  <2>1. Address = msg.args
    BY <1>1, AddressIs
  <2> QED
    BY <1>1, <2>1 DEF OwnInv
<1>4. CASE Shown
  <2>1. msg'.at \in {"form", "login_page"} /\ Address' = FullUri(msg, TRUE)
    BY <1>4 DEF Shown
  <2>2. \A n : ~IsOpenIdVar(n) => Said(FullUri(msg, TRUE), n) = Said(msg.args, n)
    BY <1>2, CleanedSays
  <2>3. \A n : ~IsOpenIdVar(n) => Said(Address', n) = Said(Address, n)
    BY <1>3, <2>1, <2>2
  <2>4. KeptIn(Address', wanted')
    BY <1>1, <1>3, <2>3, SameKept
  <2> QED
    BY <2>1, <2>4 DEF OwnInv, Posted
<1>5. CASE LetIn
  <2>1. CASE /\ msg'.at = "site" /\ msg'.method = "GET"
             /\ msg'.args = PageQuery(ParseQueryString(msg.args))
    <3>1. PICK p : p = ParseQueryString(msg.args)
      OBVIOUS
    <3>2. \A n : ~IsOpenIdVar(n) => Said(PageQuery(p), n) = Said(msg.args, n)
      BY <1>2, <3>1, PageSays
    <3>3. Address' = PageQuery(p)
      BY <2>1, <3>1, AddressIs
    <3>4. \A n : ~IsOpenIdVar(n) => Said(Address', n) = Said(Address, n)
      BY <1>3, <3>2, <3>3
    <3>5. KeptIn(Address', wanted')
      BY <1>1, <1>3, <3>4, SameKept
    <3> QED
      BY <2>1, <3>5 DEF OwnInv, Posted
  <2>2. CASE msg'.at = "page" /\ msg'.args = msg.args
    <3>1. Address' = Address
      BY <1>3, <2>2, AddressIs
    <3> QED
      BY <1>1, <1>3, <2>2, <3>1 DEF OwnInv, Posted
  <2> QED
    BY <1>5, <2>1, <2>2 DEF LetIn
<1>6. CASE \E p \in GetRequestParams(msg) : Sent(p)
  <2>1. PICK p \in GetRequestParams(msg) : Sent(p)
    BY <1>6
  <2>2. PICK u : u = ReturnToUrl(p)
    OBVIOUS
  <2>3. msg'.at = "provider" /\ attempt' = attempt + 1 /\ Address' = u
    BY <2>1, <2>2 DEF Sent
  <2>4. Once(u, attempt + 1) /\ KeptIn(u, wanted)
    BY <1>1, <1>3, <2>2, ReturnToKeeps
  <2> QED
    BY <1>1, <2>3, <2>4 DEF OwnInv, Posted
<1> QED
  BY <1>4, <1>5, <1>6, HandleRequestInv

LEMMA StepOwn ==
  ASSUME Inv, OwnInv, [Next]_vars
  PROVE  OwnInv'
<1>1. CASE ReadDirective \/ Serve
  <2>1. msg' = msg /\ wanted' = wanted /\ attempt' = attempt
    BY <1>1 DEF ReadDirective, Serve, tripVars
  <2> QED
    BY <2>1, SameRequestOwn
<1>2. CASE AskForPage \/ Reload \/ FillIn
  BY <1>2, AskForPageOwn, ReloadOwn, FillInOwn
<1>3. CASE LoginPageReturns
  BY <1>3, LoginPageReturnsOwn
<1>4. CASE ProviderResponds \/ ProviderCancels
  <2>1. msg.at = "provider" /\ wanted' = wanted
    BY <1>4 DEF ProviderResponds, ProviderCancels, tripVars
  <2>2. Answered
    BY <1>4, ProviderRespondsInv, ProviderCancelsInv
  <2> QED
    BY <2>1, <2>2, AnsweredOwn
<1>5. CASE HasValidSession \/ HandleRequest \/ NoContentType
  BY <1>5, HasValidSessionOwn, HandleRequestOwn, NoContentTypeOwn
<1>6. CASE UNCHANGED vars
  <2>1. msg' = msg /\ wanted' = wanted /\ attempt' = attempt
    BY <1>6 DEF vars, tripVars
  <2> QED
    BY <2>1, SameRequestOwn
<1> QED
  BY <1>1, <1>2, <1>3, <1>4, <1>5, <1>6 DEF Next

LEMMA OwnInvariant == Spec => [](Inv /\ OwnInv)
<1>1. Init => Inv /\ OwnInv
  BY InitInv, InitOwn
<1>2. (Inv /\ OwnInv) /\ [Next]_vars => (Inv /\ OwnInv)'
  BY StepInv, StepOwn
<1> QED
  BY <1>1, <1>2, PTL DEF Spec

--------------------------------------------------------------------------------
(* What the invariant says of the properties.                              *)

\* Wherever the user is on the way - in return_to, in the referrer, in the hidden
\* fields and in the redirect after the login - each of the user's own parameters
\* has the value it was asked for with, or one posted under its name, whatever
\* was asked for and posted; where reading the form failed, it may be what is left
\* of a posted value, cut at any byte, that get_post_data takes for the whole
\* (start_authentication_session, full_uri, show_html_input, set_session_cookie).
THEOREM OwnParamsSurvive == Spec => []OwnParamsKept
<1>1. OwnInv => OwnParamsKept
  BY DEF OwnInv, KeptIn, OwnParamsKept
<1> QED
  BY <1>1, OwnInvariant, PTL

\* However many logins were begun, return_to names the nonce of the present one
\* once and nothing else of the protocol, and nothing is in it more than twice; the
\* referrer and the hidden fields name nothing of the protocol (full_uri,
\* remove_openid_vars).
THEOREM AddressesAreClean == Spec => []UrlsClean
<1>1. ASSUME Inv, OwnInv
      PROVE  UrlsClean
  <2>0. \A q : \A k \in ProtocolItems(q) : k \in OpenIdItems(q)
    BY DEF ProtocolItems, OpenIdItems
  <2>1. CASE msg.at = "provider"
    <3>1. PICK k \in DOMAIN Address : OpenIdItems(Address) = {k} /\ Address[k] = Item(Nonce, attempt)
      BY <1>1, <2>1 DEF OwnInv, Once
    <3>2. Address[k].name = Nonce /\ Len(Nonce) <= 2 /\ IsOpenIdVar(Nonce)
      BY <3>1, NamesDiffer DEF Item, Nonce
    <3>3. k \in ProtocolItems(Address)
      BY <3>2 DEF ProtocolItems
    <3>4. ProtocolItems(Address) = {k}
      BY <2>0, <3>1, <3>3
    <3> QED
      BY <1>1, <2>1, <3>1, <3>4 DEF OwnInv, Once, UrlsClean
  <2>2. CASE msg.at \in {"login_page", "form"}
    <3>1. CleanUrl(Address)
      BY <1>1, <2>2, AddressIs DEF Inv, Addresses
    <3>2. \A k \in DOMAIN Address : ~IsOpenIdVar(Address[k].name)
      BY <3>1, ItemOf DEF CleanUrl
    <3>3. OpenIdItems(Address) = {}
      BY <3>2 DEF OpenIdItems
    <3>4. ProtocolItems(Address) = {}
      BY <2>0, <3>3
    <3> QED
      BY <2>2, <3>4 DEF UrlsClean
  <2>3. CASE msg.at \notin {"provider", "login_page", "form"}
    BY <2>3 DEF UrlsClean
  <2> QED
    BY <2>1, <2>2, <2>3
<1> QED
  BY <1>1, OwnInvariant, PTL

================================================================================
